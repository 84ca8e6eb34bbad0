----------------------------- MODULE DnsObserver -----------------------------
(***************************************************************************)
(* native/systemdns/java/SystemDnsHelper.java: a process beside the core   *)
(* that watches the system's networks and writes the DNS servers to use,   *)
(* one line per change, to the pipe it shares with the core.               *)
(*                                                                         *)
(* Three parties run beside each other: the system, which changes networks *)
(* and queues callbacks; the handler thread, whose every callback reads    *)
(* the system again in several calls (publish); and serve, which writes    *)
(* the latest frame.  A frame is the list of its servers.                  *)
(***************************************************************************)
EXTENDS Integers, SequencesExt

CONSTANTS
    Network,     \* network handles, by which publish sorts
    Address,     \* DNS servers
    Unusable,    \* any-local, loopback and multicast addresses
    DnsLists,    \* what each network can have for DNS servers
    InitNets,    \* the networks there may be to begin with
    MaxServers,  \* 32
    MaxPipe,     \* bound: frames the socketpair holds
    MaxChanges,  \* bound: changes of the system
    None

Caps == {"none", "internet", "validated"}
NetType == [link: {"gone", "up", "leaving"}, caps: Caps,
            dns: {<<>>} \union UNION Range(DnsLists)]

\* A network that is gone has neither capabilities nor properties.
Gone == [link |-> "gone", caps |-> "none", dns |-> <<>>]

ASSUME DnsAssumption ==
    /\ Network \subseteq Nat /\ IsFiniteSet(Network) /\ None \notin Network \union Seq(Address)
    /\ Unusable \subseteq Address
    /\ DnsLists \in [Network -> SUBSET Seq(Address)]
    /\ InitNets \subseteq [Network -> NetType]
    /\ \A nets \in InitNets : \A n \in Network : nets[n].link = "gone" => nets[n] = Gone
    /\ MaxServers \in Nat \ {0} /\ MaxPipe \in Nat \ {0} /\ MaxChanges \in Nat

VARIABLES
    net,      \* the networks of the system
    active,   \* the default network
    changes,  \* how often the system changed
    events,   \* callbacks the handler has not run
    lost,     \* lostNetworks
    pub,      \* the handler thread in publish, and its locals
    out,      \* snapshot; whether generation is ahead of sent; serve
    pipe,     \* frames the core has not read
    helper    \* the process

systemVars == <<net, active, changes>>
observerVars == <<events, lost, pub, out, pipe, helper>>

Frame == Seq(Address)

\* Only a callback of a network names one.
Event == {<<"initial", None>>, <<"changed", None>>}
            \union {"available", "lost", "changed"} \X Network

ObserverTypeOK ==
    /\ net \in [Network -> NetType] /\ active \in Network \union {None}
    /\ changes \in 0..MaxChanges
    /\ events \in Seq(Event)
    /\ lost \subseteq Network
    /\ pub \in [at: {"idle", "active", "list", "read"}, initial: BOOLEAN,
                active: Network \union {None}, todo: SUBSET Network,
                half: Network \union {None}, net: [Network -> NetType]]
    /\ out \in [snapshot: Frame \union {None}, unsent: BOOLEAN,
                serve: {"boot", "wait", "write"}, next: Frame]
    /\ pipe \in Seq(Frame) /\ Len(pipe) <= MaxPipe
    /\ helper \in {"none", "boot", "alive", "crashed", "ended"}

Idle == [at |-> "idle", initial |-> FALSE, active |-> None, todo |-> {}, half |-> None,
         net |-> [n \in Network |-> Gone]]

NoOutput == [snapshot |-> None, unsent |-> FALSE, serve |-> "boot", next |-> <<>>]

ObserverInit ==
    /\ net \in InitNets /\ active = None
    /\ changes = 0
    /\ events = <<>> /\ lost = {} /\ pub = Idle /\ out = NoOutput
    /\ pipe = <<>>
    /\ helper = "none"

-----------------------------------------------------------------------------
(* The system.                                                             *)

Post(kind, n) == events' = IF helper = "alive" THEN Append(events, <<kind, n>>) ELSE events

Matches(caps) == caps # "none"

\* What the network callback hears when capabilities change from old to new.
Notify(old, new, n) ==
    IF Matches(new) THEN Post(IF Matches(old) THEN "changed" ELSE "available", n)
    ELSE IF Matches(old) THEN Post("lost", n) ELSE UNCHANGED events

\* Bound: it rests when nobody looks.
System ==
    /\ changes < MaxChanges /\ changes' = changes + 1
    /\ helper \in {"boot", "alive"}
    /\ UNCHANGED <<lost, pub, out, pipe, helper>>

Appear(n) ==
    /\ net[n].link = "gone"
    /\ \E caps \in Caps, dns \in DnsLists[n] :
           /\ net' = [net EXCEPT ![n] = [link |-> "up", caps |-> caps, dns |-> dns]]
           /\ Notify("none", caps, n)
    /\ UNCHANGED active
    /\ System

SetCaps(n) ==
    /\ net[n].link = "up"
    /\ \E caps \in Caps \ {net[n].caps} :
           /\ net' = [net EXCEPT ![n].caps = caps]
           /\ Notify(net[n].caps, caps, n)
    /\ UNCHANGED active
    /\ System

SetDns(n) ==
    /\ net[n].link = "up"
    /\ \E dns \in DnsLists[n] \ {net[n].dns} : net' = [net EXCEPT ![n].dns = dns]
    /\ Notify(net[n].caps, net[n].caps, n)
    /\ UNCHANGED active
    /\ System

\* onLost comes while the network is still listed, and nothing when it goes.
Lose(n) ==
    /\ net[n].link = "up"
    /\ net' = [net EXCEPT ![n].link = "leaving"]
    /\ Notify(net[n].caps, "none", n)
    /\ UNCHANGED active
    /\ System

Vanish(n) ==
    /\ net[n].link = "leaving"
    /\ net' = [net EXCEPT ![n] = Gone]
    /\ UNCHANGED <<active, changes, observerVars>>

\* The default network's callback.
SetActive(n) ==
    /\ n # active /\ (n # None => net[n].link = "up")
    /\ active' = n
    /\ Post("changed", None)
    /\ UNCHANGED net
    /\ System

-----------------------------------------------------------------------------
(* run and the callbacks.                                                  *)

\* Both callbacks are registered before the first publish is posted; the system
\* takes a registration between two of its own steps.
Register ==
    /\ helper = "boot"
    /\ \A n \in Network : net[n].link # "leaving"
    /\ helper' = "alive"
    /\ events' = Append(events, <<"initial", None>>)
    /\ UNCHANGED <<systemVars, lost, pub, out, pipe>>

\* Mutant: onLost only publishes.
CallbackForgets ==
    /\ helper = "alive" /\ pub.at = "idle" /\ events # <<>>
    /\ lost' = lost
    /\ pub' = [pub EXCEPT !.at = "active", !.initial = Head(events)[1] = "initial"]
    /\ events' = Tail(events)
    /\ UNCHANGED <<systemVars, out, pipe, helper>>

Callback ==
    /\ helper = "alive" /\ pub.at = "idle" /\ events # <<>>
    /\ LET kind == Head(events)[1]
           n == Head(events)[2]
       IN  /\ lost' = IF kind = "available" THEN lost \ {n}
                      ELSE IF kind = "lost" THEN lost \union {n} ELSE lost
           /\ pub' = [pub EXCEPT !.at = "active", !.initial = kind = "initial"]
    /\ events' = Tail(events)
    /\ UNCHANGED <<systemVars, out, pipe, helper>>

(* publish: every line asks the system again ...                           *)

Publish(place) ==
    /\ helper = "alive" /\ pub.at = place
    /\ UNCHANGED <<systemVars, events, pipe, helper>>

ReadActive ==
    /\ Publish("active")
    /\ pub' = [pub EXCEPT !.at = "list", !.active = active]
    /\ UNCHANGED <<lost, out>>

ReadList ==
    /\ Publish("list")
    /\ LET current == {n \in Network : net[n].link # "gone"}
       IN  /\ lost' = lost \intersect current
           /\ pub' = [pub EXCEPT !.at = "read", !.todo = current \ lost]
    /\ UNCHANGED out

\* ... a network that is gone by now has neither capabilities ...
ReadCapabilities(n) ==
    /\ Publish("read")
    /\ n \in pub.todo /\ pub.half = None
    /\ pub' = [pub EXCEPT !.half = n, !.net[n].caps = net[n].caps]
    /\ UNCHANGED <<lost, out>>

\* ... nor properties.
ReadProperties(n) ==
    /\ Publish("read")
    /\ pub.half = n
    /\ pub' = [pub EXCEPT !.half = None, !.todo = pub.todo \ {n}, !.net[n].dns = net[n].dns]
    /\ UNCHANGED <<lost, out>>

Eligible(networks) == {n \in Network : Matches(networks[n].caps) /\ networks[n].dns # <<>>}

\* The active network alone, or the validated ones, or any.
Sources(networks, default) ==
    LET eligible == Eligible(networks)
        validated == {n \in eligible : networks[n].caps = "validated"}
    IN  IF default \in eligible THEN {default}
        ELSE IF validated # {} THEN validated ELSE eligible

\* The loop over the addresses of one network.
Collect(servers, dns) ==
    FoldLeft(LAMBDA all, a : IF a \in Unusable \/ Len(all) = MaxServers \/ Contains(all, a)
                             THEN all ELSE Append(all, a),
             servers, dns)

\* The networks in the order of their handles: the highest is folded last.
Servers(networks, default) ==
    MapThenFoldSet(LAMBDA n, all : Collect(all, networks[n].dns), <<>>,
                   LAMBDA n : n, Max, Sources(networks, default))

\* Mutant: what equals the last snapshot counts as sent.
ReplaceForgets ==
    /\ Publish("read")
    /\ pub.todo = {}
    /\ pub' = Idle
    /\ LET next == Servers(pub.net, pub.active)
       IN  out' = [out EXCEPT !.snapshot = next,
                              !.unsent = out.snapshot # next,
                              !.serve = IF pub.initial THEN "wait" ELSE out.serve]
    /\ UNCHANGED lost

\* The frame is replaced if it differs; after the first one serve may begin.
Replace ==
    /\ Publish("read")
    /\ pub.todo = {}
    /\ pub' = Idle
    /\ LET next == Servers(pub.net, pub.active)
       IN  out' = [out EXCEPT !.snapshot = next,
                              !.unsent = out.unsent \/ out.snapshot # next,
                              !.serve = IF pub.initial THEN "wait" ELSE out.serve]
    /\ UNCHANGED lost

-----------------------------------------------------------------------------
(* serve.                                                                  *)

Serve(place) ==
    /\ helper = "alive" /\ out.serve = place
    /\ UNCHANGED <<systemVars, events, lost, pub, helper>>

ServeTake ==
    /\ Serve("wait")
    /\ out.unsent
    /\ out' = [out EXCEPT !.unsent = FALSE, !.serve = "write", !.next = out.snapshot]
    /\ UNCHANGED pipe

ServeWrite ==
    /\ Serve("write")
    /\ Len(pipe) < MaxPipe
    /\ pipe' = Append(pipe, out.next)
    /\ out' = [out EXCEPT !.serve = "wait", !.next = <<>>]

-----------------------------------------------------------------------------

SystemNext ==
    \/ \E n \in Network : Appear(n) \/ SetCaps(n) \/ SetDns(n) \/ Lose(n) \/ Vanish(n)
    \/ \E n \in Network \union {None} : SetActive(n)

Handler ==
    \/ Callback \/ ReadActive \/ ReadList \/ Replace
    \/ \E n \in Network : ReadCapabilities(n) \/ ReadProperties(n)

ObserverNext == SystemNext \/ Register \/ Handler \/ ServeTake \/ ServeWrite

\* The frame for what the system is like now, without the networks that leave.
Expected ==
    Servers([n \in Network |-> IF net[n].link = "up" THEN net[n] ELSE Gone], active)
=============================================================================
