------------------------------ MODULE MCUrlTest ------------------------------
(* Two outbounds; in the first instance groups three deep, which reach each  *)
(* outbound in several ways; in the second one the selector's tag is a       *)
(* urltest group's.                                                          *)
EXTENDS UrlTest, TLC

CONSTANTS r1, r2, i1, i2, p, q, s, u, v, plain, quic

MCKind ==
    i1 :> (p :> "outbound" @@ q :> "outbound" @@ s :> "selector" @@ u :> "urltest" @@ v :> "urltest") @@
    i2 :> (p :> "outbound" @@ q :> "absent" @@ s :> "urltest" @@ u :> "absent" @@ v :> "absent")
MCMembers ==
    i1 :> (p :> {} @@ q :> {} @@ s :> {u, q} @@ u :> {p, q} @@ v :> {s}) @@
    i2 :> (p :> {} @@ q :> {} @@ s :> {p} @@ u :> {} @@ v :> {})
MCDefault == i1 :> s @@ i2 :> p

\* Requests of other clients, each about to be taken for stock or for ours.
MCWires ==
    r2 :> {} @@ r1 :>
    {<<>>,
     <<Field("other", "bytes", plain)>>,
     <<Field("timeout", "varint", 9), Field("flags", "varint", 6)>>,
     <<Field("flags", "bytes", plain)>>,
     <<Field("flags", "varint", 1), Field("link", "cut", plain)>>}
\* The first test is asked for in every way, the second one is a common one.
MCAsked ==
    r1 :> [target: {None, s, q}, link: {plain, None}, timeout: {-1, 5}, flags: {0, 1, 2, 3}] @@
    r2 :> [target: {s}, link: {quic}, timeout: {5}, flags: {0}]
=============================================================================
