---------------------------- MODULE ProtectServer ----------------------------
(***************************************************************************)
(* The protect socket, native/pluginpool/protect.go: a peer connects, sends *)
(* one socket, and the app's protector is called on it.                    *)
(*                                                                         *)
(* Every connection has a goroutine of its own, which runs beside the      *)
(* accept loop, beside reloads that switch verify or close the listener,   *)
(* and beside the processes: with verify on, the peer's PID is looked up   *)
(* in Host.children and then in /proc, one ancestor at a time, while       *)
(* plugins start, exit and are reaped.  The descriptors of all requests    *)
(* come from the one table of the core.                                    *)
(***************************************************************************)
EXTENDS Integers, Sequences, FiniteSetsExt

CONSTANTS
    Conn,         \* connection values: a closed one stands for a new one again
    Process,      \* PIDs, other than the core's and init's
    Core, Reaper, \* the core, and init, which adopts orphans
    MaxFds,       \* descriptors the core may have open for requests
    Room,         \* descriptors that fit into oob: 2 with 64-bit cmsg headers, or 1
    MaxSockets,   \* bound: the sockets a message carries
    MaxAncestry,  \* maxAncestry
    Nobody        \* no process, no connection

ASSUME ProtectAssumption ==
    /\ Room \in {1, 2}
    /\ MaxSockets \in Nat /\ MaxAncestry \in Nat \ {0}
    /\ MaxFds \in Nat \ {0}
    /\ Core \notin Process /\ Reaper \notin Process \union {Core}
    /\ Nobody \notin Process \union {Core, Reaper} /\ Nobody \notin Conn

VARIABLES
    listener,  \* protectServer: whether it listens, verify, and the accept loop
    backlog,   \* connections the kernel holds for Accept
    conn,      \* each connection and the goroutine that handles it
    fds,       \* the descriptors that are open for each connection
    free,      \* the descriptors that can still be opened
    parent,    \* of every process, as /proc/<pid>/stat has it
    strangers, \* processes that the core did not start, directly or through others
    children   \* Host.children

table == <<fds, free>>
processes == <<parent, strangers, children>>
vars == <<listener, backlog, conn, table, processes>>

Pid == Process \union {Core, Reaper, Nobody}

\* walk and left are pid and the iterations left in descends; received is what
\* receiveSocket got of a message with so many sockets; strict says that verify
\* was on ever since the connection was accepted.
ConnType == [at: {"none", "pending", "sample", "child", "walk", "receive", "discard",
                  "protect", "reply"},
             peer: Process \union {Nobody}, walk: Pid, left: 0..MaxAncestry,
             received: 0..Room, sockets: 0..MaxSockets, strict: BOOLEAN]

TypeOK ==
    /\ listener \in [open: BOOLEAN, verify: BOOLEAN, loop: {"accept", "sleep", "ended"}]
    /\ backlog \in Seq(Conn)
    /\ conn \in [Conn -> ConnType]
    /\ fds \in [Conn -> Nat]
    /\ free \in Nat
    /\ parent \in [Process -> Pid]
    /\ strangers \subseteq Process
    /\ children \subseteq Process

NoConn == [at |-> "none", peer |-> Nobody, walk |-> Nobody, left |-> 0,
           received |-> 0, sockets |-> 0, strict |-> FALSE]

Init ==
    /\ listener = [open |-> FALSE, verify |-> FALSE, loop |-> "ended"]
    /\ backlog = <<>>
    /\ conn = [c \in Conn |-> NoConn]
    /\ fds = [c \in Conn |-> 0]
    /\ free = MaxFds
    /\ parent = [p \in Process |-> Nobody]
    /\ strangers = {}
    /\ children = {}

At(c, place) == conn[c].at = place

Goto(c, place) == conn' = [conn EXCEPT ![c].at = place]

Open(c, n) ==
    /\ fds' = [fds EXCEPT ![c] = @ + n]
    /\ free' = free - n

Close(c, n) ==
    /\ fds' = [fds EXCEPT ![c] = @ - n]
    /\ free' = free + n

-----------------------------------------------------------------------------
(* Apply: the listener and its verify flag.                                *)

\* listenProtect, once the socket of an earlier server is done with.
Listen(verify) ==
    /\ ~listener.open /\ listener.loop = "ended"
    /\ \A c \in Conn : At(c, "none")
    /\ listener' = [open |-> TRUE, verify |-> verify, loop |-> "accept"]
    /\ UNCHANGED <<backlog, conn, table, processes>>

\* A reload that keeps the path.
SetVerify(verify) ==
    /\ listener.open
    /\ listener' = [listener EXCEPT !.verify = verify]
    /\ conn' = [c \in Conn |-> [conn[c] EXCEPT !.strict = @ /\ verify]]
    /\ UNCHANGED <<backlog, table, processes>>

\* close: the kernel drops what was not accepted; handlers go on.
CloseListener ==
    /\ listener.open
    /\ listener' = [listener EXCEPT !.open = FALSE]
    /\ conn' = [c \in Conn |-> IF At(c, "pending") THEN NoConn ELSE conn[c]]
    /\ backlog' = <<>>
    /\ UNCHANGED <<table, processes>>

-----------------------------------------------------------------------------
(* serve.                                                                  *)

\* Mutant: Accept is called again only for a connection that was accepted.
AcceptErrorEnds ==
    /\ listener.loop = "accept" /\ listener.open
    /\ backlog # <<>> /\ free = 0
    /\ listener' = [listener EXCEPT !.loop = "ended"]
    /\ UNCHANGED <<backlog, conn, table, processes>>

Accept(c) ==
    /\ listener.loop = "accept" /\ listener.open
    /\ backlog # <<>> /\ c = Head(backlog)
    /\ free > 0
    /\ Open(c, 1)
    /\ conn' = [conn EXCEPT ![c] = [@ EXCEPT !.at = "sample", !.strict = listener.verify]]
    /\ backlog' = Tail(backlog)
    /\ UNCHANGED <<listener, processes>>

\* The table is full: sleep, then try again.
AcceptError ==
    /\ listener.loop = "accept" /\ listener.open
    /\ backlog # <<>> /\ free = 0
    /\ listener' = [listener EXCEPT !.loop = "sleep"]
    /\ UNCHANGED <<backlog, conn, table, processes>>

Wake ==
    /\ listener.loop = "sleep"
    /\ listener' = [listener EXCEPT !.loop = "accept"]
    /\ UNCHANGED <<backlog, conn, table, processes>>

\* net.ErrClosed
ServeEnd ==
    /\ listener.loop = "accept" /\ ~listener.open
    /\ listener' = [listener EXCEPT !.loop = "ended"]
    /\ UNCHANGED <<backlog, conn, table, processes>>

-----------------------------------------------------------------------------
(* handle: verifyPeer ...                                                  *)

\* protect reads verify.
Sample(c) ==
    /\ At(c, "sample")
    /\ Goto(c, IF listener.verify THEN "child" ELSE "receive")
    /\ UNCHANGED <<listener, backlog, table, processes>>

\* Mutant: only the plugins themselves are looked up.
IsChildOnly(c) ==
    /\ At(c, "child")
    /\ Goto(c, IF conn[c].peer \in children THEN "receive" ELSE "reply")
    /\ UNCHANGED <<listener, backlog, table, processes>>

\* The PID is that of SO_PEERCRED, who connected.
IsChild(c) ==
    /\ At(c, "child")
    /\ IF conn[c].peer \in children
       THEN Goto(c, "receive")
       ELSE conn' = [conn EXCEPT ![c] = [@ EXCEPT
                !.at = "walk", !.walk = conn[c].peer, !.left = MaxAncestry]]
    /\ UNCHANGED <<listener, backlog, table, processes>>

\* descends: one iteration reads the parent of one process.
Walk(c) ==
    /\ At(c, "walk")
    /\ conn[c].left > 0
    /\ conn[c].walk \in Process
    /\ parent[conn[c].walk] # Nobody
    /\ conn' = [conn EXCEPT ![c] = [@ EXCEPT
           !.walk = parent[conn[c].walk], !.left = conn[c].left - 1]]
    /\ UNCHANGED <<listener, backlog, table, processes>>

Descends(c) ==
    /\ At(c, "walk")
    /\ conn[c].left > 0 /\ conn[c].walk = Core
    /\ conn' = [conn EXCEPT ![c] = [@ EXCEPT !.at = "receive", !.walk = Nobody, !.left = 0]]
    /\ UNCHANGED <<listener, backlog, table, processes>>

WalkEnds(c) ==
    \/ conn[c].left = 0
    \/ conn[c].walk = Reaper
    \/ conn[c].walk \in Process /\ parent[conn[c].walk] = Nobody

\* Mutant: a process that is gone ends the walk without a refusal.
RefuseKnown(c) ==
    /\ At(c, "walk")
    /\ WalkEnds(c)
    /\ conn' = [conn EXCEPT ![c] = [@ EXCEPT
           !.at = IF conn[c].left = 0 \/ conn[c].walk = Reaper THEN "reply" ELSE "receive",
           !.walk = Nobody, !.left = 0]]
    /\ UNCHANGED <<listener, backlog, table, processes>>

\* "protect peer is not a plugin"
Refuse(c) ==
    /\ At(c, "walk")
    /\ WalkEnds(c)
    /\ conn' = [conn EXCEPT ![c] = [@ EXCEPT !.at = "reply", !.walk = Nobody, !.left = 0]]
    /\ UNCHANGED <<listener, backlog, table, processes>>

(* ... receiveSocket, the protector, and the reply.                        *)

\* What the kernel installs of n sockets: all that fit into oob and the table.
Installed(n) == Min({n, Room, free})

\* Mutant: MSG_CTRUNC is not looked at.
ReceiveTruncated(c) ==
    /\ At(c, "receive")
    /\ \E n \in 0..MaxSockets :
           /\ Open(c, Installed(n))
           /\ conn' = [conn EXCEPT ![c] = [@ EXCEPT
                  !.at = IF Installed(n) = 1 THEN "protect" ELSE "discard",
                  !.received = Installed(n), !.sockets = n]]
    /\ UNCHANGED <<listener, backlog, processes>>

\* A message of n sockets; if fewer are installed it is marked MSG_CTRUNC.
Receive(c) ==
    /\ At(c, "receive")
    /\ \E n \in 0..MaxSockets :
           /\ Open(c, Installed(n))
           /\ conn' = [conn EXCEPT ![c] = [@ EXCEPT
                  !.at = IF Installed(n) = 1 /\ n = 1 THEN "protect" ELSE "discard",
                  !.received = Installed(n), !.sockets = n]]
    /\ UNCHANGED <<listener, backlog, processes>>

\* The peer hung up or let the deadline pass.
ReceiveError(c) ==
    /\ At(c, "receive")
    /\ Goto(c, "reply")
    /\ UNCHANGED <<listener, backlog, table, processes>>

\* Mutant: the descriptors of a refused message stay open.
DiscardKeeps(c) ==
    /\ At(c, "discard")
    /\ conn' = [conn EXCEPT ![c] = [@ EXCEPT !.at = "reply", !.received = 0, !.sockets = 0]]
    /\ UNCHANGED <<listener, backlog, table, processes>>

Discard(c) ==
    /\ At(c, "discard")
    /\ Close(c, conn[c].received)
    /\ conn' = [conn EXCEPT ![c] = [@ EXCEPT !.at = "reply", !.received = 0, !.sockets = 0]]
    /\ UNCHANGED <<listener, backlog, processes>>

\* The protector returns, with or without an error, and the socket is closed.
Protect(c) ==
    /\ At(c, "protect")
    /\ Close(c, conn[c].received)
    /\ conn' = [conn EXCEPT ![c] = [@ EXCEPT !.at = "reply", !.received = 0, !.sockets = 0]]
    /\ UNCHANGED <<listener, backlog, processes>>

Reply(c) ==
    /\ At(c, "reply")
    /\ Close(c, 1)
    /\ conn' = [conn EXCEPT ![c] = NoConn]
    /\ UNCHANGED <<listener, backlog, processes>>

Handle(c) ==
    \/ Sample(c) \/ IsChild(c) \/ Walk(c) \/ Descends(c) \/ Refuse(c)
    \/ Receive(c) \/ ReceiveError(c) \/ Discard(c) \/ Protect(c) \/ Reply(c)

-----------------------------------------------------------------------------
(* The processes.                                                          *)

Alive(p) == parent[p] # Nobody

Connect(c, p) ==
    /\ listener.open
    /\ At(c, "none")
    /\ Alive(p)
    /\ conn' = [conn EXCEPT ![c] = [NoConn EXCEPT !.at = "pending", !.peer = p]]
    /\ backlog' = Append(backlog, c)
    /\ UNCHANGED <<listener, table, processes>>

\* PIDs are not used again while somebody may still look them up.
Unused(p) ==
    /\ ~Alive(p)
    /\ p \notin children
    /\ \A c \in Conn : p # conn[c].peer /\ p # conn[c].walk

\* The core forks a plugin, any process forks, init starts a stranger ...
Start(p) ==
    /\ Unused(p)
    /\ \E q \in {Core, Reaper} \union {r \in Process : Alive(r)} :
           /\ parent' = [parent EXCEPT ![p] = q]
           /\ strangers' = IF q \in strangers \union {Reaper} THEN strangers \union {p}
                           ELSE strangers \ {p}
    /\ UNCHANGED <<listener, backlog, conn, table, children>>

\* ... guard.attach lists the plugin a moment later ...
Attach(p) ==
    /\ parent[p] = Core
    /\ p \notin children
    /\ children' = children \union {p}
    /\ UNCHANGED <<listener, backlog, conn, table, parent, strangers>>

\* ... a process exits, init adopts its children, and it is reaped, by the core
\* after attach.  (A zombie still has its parent in /proc: who reads it then might
\* as well have read it before the exit.)
Exit(p) ==
    /\ Alive(p)
    /\ parent[p] = Core => p \in children
    /\ parent' = [q \in Process |-> IF q = p THEN Nobody
                                    ELSE IF parent[q] = p THEN Reaper ELSE parent[q]]
    /\ UNCHANGED <<listener, backlog, conn, table, strangers, children>>

\* ... guard.detach takes it off the list
Detach(p) ==
    /\ p \in children
    /\ ~Alive(p)
    /\ children' = children \ {p}
    /\ UNCHANGED <<listener, backlog, conn, table, parent, strangers>>

-----------------------------------------------------------------------------

Next ==
    \/ \E verify \in BOOLEAN : Listen(verify) \/ SetVerify(verify)
    \/ CloseListener
    \/ AcceptError \/ Wake \/ ServeEnd
    \/ \E c \in Conn : Accept(c) \/ Handle(c)
    \/ \E c \in Conn, p \in Process : Connect(c, p)
    \/ \E p \in Process : Start(p) \/ Attach(p) \/ Exit(p) \/ Detach(p)

\* Goroutines run, the deadline ends a read and the protector returns.
Fairness ==
    /\ WF_vars(AcceptError \/ Wake \/ ServeEnd \/ \E c \in Conn : Accept(c))
    /\ \A c \in Conn : WF_vars(Handle(c))

Spec == Init /\ [][Next]_vars

LiveSpec == Spec /\ Fairness

-----------------------------------------------------------------------------
(* Properties.                                                             *)

(***************************************************************************)
(* README.md:62, "With verifyPeer, the peer must descend from the core":   *)
(* once a connection was accepted with verify on, and it stays on, the     *)
(* protector is called for it only if the core or a plugin forked the      *)
(* peer, whatever happens to the processes while they are looked up.       *)
(***************************************************************************)
ServedDescend ==
    \A c \in Conn : At(c, "protect") /\ conn[c].strict => conn[c].peer \notin strangers

\* The ancestors descends reaches from p when nothing changes meanwhile.
Ancestor(p) ==
    LET up[n \in Nat] ==
            IF n = 0 THEN p
            ELSE IF up[n - 1] \in Process THEN parent[up[n - 1]] ELSE up[n - 1]
    IN  up

(***************************************************************************)
(* A peer is refused only if it does not descend from the core, as of the  *)
(* refusal, within the bound of the walk.  So a plugin is served from its  *)
(* first instruction on, before the core has listed it, and a process it   *)
(* forked is served as long as its ancestors live.                         *)
(***************************************************************************)
RefusedDoNotDescend ==
    [][\A c \in Conn :
        conn[c].at \in {"child", "walk"} /\ conn'[c].at = "reply"
            => \A n \in 0..(MaxAncestry - 1) : Ancestor(conn[c].peer)[n] # Core]_vars

(***************************************************************************)
(* A handler has open its connection and what it received and has not yet  *)
(* closed, a connection nobody handles has none: whatever a message        *)
(* carries, however full the table is and wherever a request fails, every  *)
(* descriptor is closed exactly once.                                      *)
(***************************************************************************)
DescriptorsClosed ==
    \A c \in Conn :
        fds[c] = IF conn[c].at \in {"none", "pending"} THEN 0 ELSE 1 + conn[c].received

(***************************************************************************)
(* protect.go:130, "protect request must carry exactly one socket": the    *)
(* protector never gets a part of a larger message.                        *)
(***************************************************************************)
OneSocketPerRequest ==
    \A c \in Conn :
        At(c, "protect") => conn[c].sockets = 1 /\ conn[c].received = 1

(***************************************************************************)
(* Every connection is closed in the end, a full table notwithstanding: by *)
(* a reply, or by the kernel when the listener goes away.                  *)
(***************************************************************************)
RequestsEnd == \A c \in Conn : ~At(c, "none") ~> At(c, "none")
=============================================================================
