--------------------------- MODULE SystemDns_proofs ---------------------------
(***************************************************************************)
(* The properties of the DNS client and of the file its helper is loaded   *)
(* from.                                                                   *)
(*                                                                         *)
(* NoFalseAlarm, for any networks, addresses and limits, rests on the      *)
(* frames: those publish makes are computed by a fold over the networks    *)
(* and one over their addresses, and are shown to be frames the client     *)
(* decodes by the inductions of FoldLemmas.  What else can end the reader  *)
(* is settled by where the calls of Start and stop are (AlarmAgrees).      *)
(***************************************************************************)
EXTENDS SystemDns, HelperFile, FoldLemmas

-----------------------------------------------------------------------------
(* The frames that publish makes.                                          *)

GoodFrame == {frame \in Frame : Decodes(frame)}

NoServers == <<>>

CollectOne(all, a) ==
    IF a \in Unusable \/ Len(all) = MaxServers \/ Contains(all, a) THEN all ELSE Append(all, a)

CollectStep == [x \in GoodFrame \X Address |-> CollectOne(x[1], x[2])]

LEMMA CollectSteps == Steps(CollectStep, GoodFrame, Address) /\ NoServers \in GoodFrame
<1>1. ASSUME NEW all \in GoodFrame, NEW a \in Address PROVE CollectOne(all, a) \in GoodFrame
  <2>1. /\ all \in Seq(Address) /\ Len(all) \in Nat /\ Len(all) <= MaxServers
        /\ \A i \in 1..Len(all) : all[i] \notin Unusable
    BY DEF GoodFrame, Frame, Decodes
  <2>2. CASE CollectOne(all, a) = all
    BY <2>2
  <2>3. CASE a \notin Unusable /\ Len(all) # MaxServers /\ CollectOne(all, a) = Append(all, a)
    <3>1. /\ Append(all, a) \in Seq(Address) /\ Len(Append(all, a)) = Len(all) + 1
          /\ Append(all, a)[Len(all) + 1] = a
          /\ \A i \in 1..Len(all) : Append(all, a)[i] = all[i]
          /\ DOMAIN Append(all, a) = 1..(Len(all) + 1)
      BY <2>1, AppendProperties
    <3>2. Len(Append(all, a)) <= MaxServers
      BY <2>1, <2>3, <3>1, DnsAssumption
    <3>3. \A i \in 1..(Len(all) + 1) : Append(all, a)[i] \notin Unusable
      BY <2>1, <2>3, <3>1
    <3> QED
      BY <2>3, <3>1, <3>2, <3>3 DEF GoodFrame, Frame, Decodes
  <2> QED
    BY <2>2, <2>3 DEF CollectOne
<1>2. NoServers \in GoodFrame
  BY DnsAssumption DEF GoodFrame, Frame, Decodes, NoServers
<1> QED
  BY <1>1, <1>2 DEF Steps, CollectStep

LEMMA CollectGood ==
    ASSUME NEW servers \in GoodFrame, NEW dns \in Seq(Address)
    PROVE  Collect(servers, dns) \in GoodFrame
<1> DEFINE Solves(f) == f = [T \in SUBSET DOMAIN dns |->
               IF T = {} THEN servers ELSE CollectOne(f[T \ {Max(T)}], dns[Max(T)])]
           h == CHOOSE f : Solves(f)
<1>1. Collect(servers, dns) = h[DOMAIN dns]
  BY DEF Collect, FoldLeft, MapThenFoldSet, CollectOne
<1>2. Solves(h)
  <2>1. PICK f : /\ FoldsLeft(f, CollectStep, servers, dns)
                 /\ FoldsWithin(f, dns, GoodFrame, Address)
    BY CollectSteps, FoldLeftExists
  <2>2. Solves(f)
    BY <2>1 DEF FoldsLeft, FoldsWithin, CollectStep
  <2> HIDE DEF Solves
  <2> QED
    BY <2>2
<1> HIDE DEF h
<1>3. FoldsPrefixes(h, CollectStep, servers, dns, GoodFrame)
  <2>1. h[1..0] = servers
    BY <1>2, LastOfPrefix
  <2>2. ASSUME NEW i \in 1..Len(dns) PROVE h[1..i] = CollectOne(h[1..(i - 1)], dns[i])
    BY <1>2, LastOfPrefix
  <2>3. \A i \in 1..Len(dns) : dns[i] \in Address
    OBVIOUS
  <2> QED
    BY <2>1, <2>2, <2>3 DEF FoldsPrefixes, CollectStep
<1> QED
  BY <1>1, <1>3, CollectSteps, FoldedIs, LastOfPrefix

\* The networks of the handler and of the system have lists of addresses.
LEMMA DnsOfNetwork ==
    ASSUME NEW state \in NetType
    PROVE  state.dns \in Seq(Address)
<1>1. CASE state.dns = <<>>
  BY <1>1
<1>2. CASE state.dns \in UNION Range(DnsLists)
  BY <1>2, DnsAssumption DEF Range
<1> QED
  BY <1>1, <1>2 DEF NetType

(***************************************************************************)
(* Whatever the networks have, publish makes a frame that decodeSnapshot   *)
(* accepts.                                                                *)
(***************************************************************************)
LEMMA ServersGood ==
    ASSUME NEW networks \in [Network -> NetType], NEW default
    PROVE  Servers(networks, default) \in GoodFrame
<1> DEFINE S == Sources(networks, default)
           Solves(f) == f = [T \in SUBSET S |->
               IF T = {} THEN NoServers ELSE Collect(f[T \ {Max(T)}], networks[Max(T)].dns)]
           h == CHOOSE f : Solves(f)
           F == [x \in GoodFrame \X S |-> Collect(x[1], networks[x[2]].dns)]
           c == [T \in SUBSET S |-> Max(T)]
<1>1. S \subseteq Network /\ IsFiniteSet(S)
  <2>1. S \subseteq Network
    BY DEF Sources, Eligible
  <2> HIDE DEF S
  <2> QED
    BY <2>1, FS_Subset, DnsAssumption
<1>2. Servers(networks, default) = h[S]
  BY DEF Servers, MapThenFoldSet, NoServers
<1> HIDE DEF S
<1>3. Steps(F, GoodFrame, S)
  <2>1. ASSUME NEW all \in GoodFrame, NEW n \in S PROVE Collect(all, networks[n].dns) \in GoodFrame
    BY <1>1, DnsOfNetwork, CollectGood
  <2> QED
    BY <2>1 DEF Steps
<1>4. \A T \in SUBSET S : T # {} => c[T] = Max(T) /\ Max(T) \in T
  <2> SUFFICES ASSUME NEW T \in SUBSET S, T # {} PROVE Max(T) \in T
    OBVIOUS
  <2>1. IsFiniteSet(T) /\ T \in SUBSET Int
    <3>1. T \subseteq S /\ S \subseteq Network /\ Network \subseteq Nat
      BY <1>1, DnsAssumption
    <3>2. IsFiniteSet(T)
      BY ONLY <1>1, <3>1, FS_Subset
    <3> QED
      BY <3>1, <3>2
  <2> QED
    BY <2>1, MaxOfFinite
<1>5. Chooses(c, S)
  BY <1>4 DEF Chooses
<1>6. \A T \in SUBSET S : T # {} => Max(T) \in S /\ T \ {Max(T)} \in SUBSET S
  BY <1>4
<1>7. Solves(h)
  <2>1. PICK f : FoldsSet(f, F, NoServers, c, S, GoodFrame)
    <3> HIDE DEF F, c
    <3> QED
      BY <1>1, <1>3, <1>5, CollectSteps, FoldExists
  <2>2. ASSUME NEW T \in SUBSET S, T # {}
        PROVE  f[T] = Collect(f[T \ {Max(T)}], networks[Max(T)].dns)
    <3>1. f[T \ {Max(T)}] \in GoodFrame /\ Max(T) \in S /\ c[T] = Max(T)
      BY <1>4, <1>6, <2>1, <2>2 DEF FoldsSet
    <3>2. f[T] = F[<<f[T \ {Max(T)}], Max(T)>>]
      BY <2>1, <2>2, <3>1 DEF FoldsSet
    <3> QED
      BY <3>1, <3>2
  <2>3. f = [T \in SUBSET S |-> f[T]] /\ f[{}] = NoServers
    BY <2>1 DEF FoldsSet
  <2>4. Solves(f)
    BY <2>2, <2>3
  <2> HIDE DEF Solves
  <2> QED
    BY <2>4
<1> HIDE DEF h
<1>8. FoldsSets(h, F, NoServers, c, S, GoodFrame)
  <2>1. h[{}] = NoServers
    BY <1>7
  <2>2. ASSUME NEW T \in SUBSET S, T # {}, h[T \ {c[T]}] \in GoodFrame
        PROVE  h[T] = F[<<h[T \ {c[T]}], c[T]>>]
    BY <1>4, <1>6, <1>7, <2>2
  <2> QED
    BY <2>1, <2>2 DEF FoldsSets
<1>9. h[S] \in GoodFrame
  <2> HIDE DEF F, c
  <2> QED
    BY <1>1, <1>3, <1>5, <1>8, CollectSteps, FoldSetType
<1> QED
  BY <1>2, <1>9

-----------------------------------------------------------------------------
(* The observer.                                                           *)

PubType == [at: {"idle", "active", "list", "read"}, initial: BOOLEAN,
            active: Network \union {None}, todo: SUBSET Network,
            half: Network \union {None}, net: [Network -> NetType]]
OutType == [snapshot: Frame \union {None}, unsent: BOOLEAN,
            serve: {"boot", "wait", "write"}, next: Frame]

\* Every frame on its way to the core is one it can decode.
FramesGood ==
    /\ \A i \in DOMAIN pipe : pipe[i] \in GoodFrame
    /\ out.next \in GoodFrame
    /\ out.serve # "boot" => out.snapshot \in GoodFrame

ObserverInv == ObserverTypeOK /\ FramesGood

LEMMA TypeOfGone == Gone \in NetType /\ Idle \in PubType /\ NoOutput \in OutType
<1>1. Gone \in NetType
  BY DEF Gone, NetType, Caps
<1>2. [n \in Network |-> Gone] \in [Network -> NetType]
  BY <1>1
<1>3. Idle \in PubType
  BY <1>2 DEF Idle, PubType
<1>4. NoOutput \in OutType
  BY DEF NoOutput, OutType, Frame
<1> QED
  BY <1>1, <1>3, <1>4

LEMMA NotifyKeeps ==
    ASSUME ObserverTypeOK,
           \/ \E n \in Network : \E old, new : Notify(old, new, n)
           \/ Post("changed", None)
    PROVE  events' \in Seq(Event)
<1>1. events \in Seq(Event)
  BY DEF ObserverTypeOK
<1>2. ASSUME NEW kind, NEW n, <<kind, n>> \in Event, Post(kind, n)
      PROVE  events' \in Seq(Event)
  <2> DEFINE e == <<kind, n>>
  <2>1. e \in Event
    BY <1>2
  <2>2. events' = Append(events, e) \/ events' = events
    BY <1>2 DEF Post
  <2> HIDE DEF e
  <2> QED
    BY <1>1, <2>1, <2>2
<1>3. <<"changed", None>> \in Event
  BY DEF Event
<1>4. \A n \in Network, kind \in {"available", "lost", "changed"} : <<kind, n>> \in Event
  BY DEF Event
<1> QED
  BY <1>1, <1>2, <1>3, <1>4 DEF Notify

\* The system leaves alone what the helper and the core have.
LEMMA SystemKeeps ==
    ASSUME ObserverInv, SystemNext
    PROVE  ObserverInv' /\ UNCHANGED <<pipe, helper>>
<1>0. /\ net \in [Network -> NetType] /\ active \in Network \union {None}
      /\ changes \in 0..MaxChanges /\ events \in Seq(Event)
  BY DEF ObserverInv, ObserverTypeOK
<1>1. ASSUME UNCHANGED <<lost, pub, out, pipe, helper>>, net' \in [Network -> NetType],
             active' \in Network \union {None}, events' \in Seq(Event),
             changes' \in 0..MaxChanges
      PROVE  ObserverInv'
  BY <1>1 DEF ObserverInv, ObserverTypeOK, FramesGood
<1>2. ASSUME System
      PROVE  UNCHANGED <<lost, pub, out, pipe, helper>> /\ changes' \in 0..MaxChanges
  BY <1>0, <1>2, DnsAssumption DEF System
<1>3. ASSUME NEW n \in Network, Appear(n) PROVE ObserverInv' /\ UNCHANGED <<pipe, helper>>
  <2>1. PICK caps \in Caps, dns \in DnsLists[n] :
            /\ net' = [net EXCEPT ![n] = [link |-> "up", caps |-> caps, dns |-> dns]]
            /\ Notify("none", caps, n)
    BY <1>3 DEF Appear
  <2>2. [link |-> "up", caps |-> caps, dns |-> dns] \in NetType
    BY DnsAssumption DEF NetType, Range
  <2>3. net' \in [Network -> NetType]
    BY <1>0, <2>1, <2>2
  <2>4. events' \in Seq(Event)
    BY <2>1, NotifyKeeps DEF ObserverInv
  <2> QED
    BY <1>0, <1>1, <1>2, <1>3, <2>3, <2>4 DEF Appear
<1>4. ASSUME NEW n \in Network, SetCaps(n) PROVE ObserverInv' /\ UNCHANGED <<pipe, helper>>
  <2>1. PICK caps \in Caps :
            net' = [net EXCEPT ![n].caps = caps] /\ Notify(net[n].caps, caps, n)
    BY <1>4 DEF SetCaps
  <2>2. [net[n] EXCEPT !.caps = caps] \in NetType
    BY <1>0 DEF NetType
  <2>3. net' \in [Network -> NetType]
    BY <1>0, <2>1, <2>2
  <2>4. events' \in Seq(Event)
    BY <2>1, NotifyKeeps DEF ObserverInv
  <2> QED
    BY <1>0, <1>1, <1>2, <1>4, <2>3, <2>4 DEF SetCaps
<1>5. ASSUME NEW n \in Network, SetDns(n) PROVE ObserverInv' /\ UNCHANGED <<pipe, helper>>
  <2>1. PICK dns \in DnsLists[n] : net' = [net EXCEPT ![n].dns = dns]
    BY <1>5 DEF SetDns
  <2>2. [net[n] EXCEPT !.dns = dns] \in NetType
    <3>1. dns \in UNION Range(DnsLists)
      BY DnsAssumption DEF Range
    <3> QED
      BY <1>0, <3>1 DEF NetType
  <2>3. net' \in [Network -> NetType]
    BY <1>0, <2>1, <2>2
  <2>4. events' \in Seq(Event)
    BY <1>5, NotifyKeeps DEF ObserverInv, SetDns
  <2> QED
    BY <1>0, <1>1, <1>2, <1>5, <2>3, <2>4 DEF SetDns
<1>6. ASSUME NEW n \in Network, Lose(n) PROVE ObserverInv' /\ UNCHANGED <<pipe, helper>>
  <2>1. [net[n] EXCEPT !.link = "leaving"] \in NetType
    BY <1>0 DEF NetType
  <2>2. net' \in [Network -> NetType]
    BY <1>0, <1>6, <2>1 DEF Lose
  <2>3. events' \in Seq(Event)
    BY <1>6, NotifyKeeps DEF ObserverInv, Lose
  <2> QED
    BY <1>0, <1>1, <1>2, <1>6, <2>2, <2>3 DEF Lose
<1>7. ASSUME NEW n \in Network, Vanish(n) PROVE ObserverInv' /\ UNCHANGED <<pipe, helper>>
  <2>1. net' \in [Network -> NetType]
    BY <1>0, <1>7, TypeOfGone DEF Vanish
  <2> QED
    BY <1>0, <1>1, <1>7, <2>1 DEF Vanish, observerVars
<1>8. ASSUME NEW n \in Network \union {None}, SetActive(n)
      PROVE  ObserverInv' /\ UNCHANGED <<pipe, helper>>
  <2>1. events' \in Seq(Event)
    <3>1. Post("changed", None)
      BY <1>8 DEF SetActive
    <3> QED
      BY <3>1, NotifyKeeps DEF ObserverInv
  <2> QED
    BY <1>0, <1>1, <1>2, <1>8, <2>1 DEF SetActive
<1> QED
  BY <1>3, <1>4, <1>5, <1>6, <1>7, <1>8 DEF SystemNext

\* The handler changes what is its own and the snapshot.
LEMMA HandlerKeeps ==
    ASSUME ObserverInv, Handler
    PROVE  ObserverInv' /\ UNCHANGED <<pipe, helper>>
<1>0. /\ net \in [Network -> NetType] /\ active \in Network \union {None}
      /\ events \in Seq(Event) /\ lost \subseteq Network
      /\ pub \in PubType /\ out \in OutType
  BY DEF ObserverInv, ObserverTypeOK, PubType, OutType
<1>1. ASSUME UNCHANGED <<systemVars, pipe, helper>>, events' \in Seq(Event),
             lost' \subseteq Network, pub' \in PubType, out' = out
      PROVE  ObserverInv'
  BY <1>1 DEF ObserverInv, ObserverTypeOK, FramesGood, PubType, systemVars
<1>2. CASE Callback
  <2>1. events # <<>> /\ Head(events) \in Event
    <3>1. events # <<>>
      BY <1>2 DEF Callback
    <3> QED
      BY <1>0, <3>1
  <2>4. Head(events)[1] \in {"available", "lost"} => Head(events)[2] \in Network
    BY <2>1 DEF Event
  <2>5. lost' \subseteq Network
    BY <1>0, <1>2, <2>4 DEF Callback
  <2>2. Tail(events) \in Seq(Event)
    BY <1>0, <2>1
  <2>3. pub' \in PubType
    <3>1. pub' = [pub EXCEPT !.at = "active", !.initial = Head(events)[1] = "initial"]
      BY <1>2 DEF Callback
    <3>2. (Head(events)[1] = "initial") \in BOOLEAN
      OBVIOUS
    <3> QED
      BY <1>0, <3>1, <3>2 DEF PubType
  <2> QED
    BY <1>0, <1>1, <1>2, <2>2, <2>3, <2>5 DEF Callback
<1>3. CASE ReadActive
  <2>1. [pub EXCEPT !.at = "list", !.active = active] \in PubType
    BY <1>0 DEF PubType
  <2> QED
    BY <1>0, <1>1, <1>3, <2>1 DEF ReadActive, Publish, systemVars
<1>4. CASE ReadList
  <2> DEFINE current == {n \in Network : net[n].link # "gone"}
  <2>1. [pub EXCEPT !.at = "read", !.todo = current \ lost] \in PubType
    BY <1>0 DEF PubType
  <2> QED
    BY <1>0, <1>1, <1>4, <2>1 DEF ReadList, Publish, systemVars
<1>5. ASSUME NEW n \in Network, ReadCapabilities(n)
      PROVE  ObserverInv' /\ UNCHANGED <<pipe, helper>>
  <2>1. [pub.net[n] EXCEPT !.caps = net[n].caps] \in NetType
    <3>1. pub.net[n] \in NetType /\ net[n] \in NetType
      BY <1>0 DEF PubType
    <3> QED
      BY <3>1 DEF NetType
  <2>2. [pub.net EXCEPT ![n].caps = net[n].caps] \in [Network -> NetType]
    BY <1>0, <2>1 DEF PubType
  <2>3. [pub EXCEPT !.half = n, !.net[n].caps = net[n].caps] \in PubType
    BY <1>0, <2>2 DEF PubType
  <2> QED
    BY <1>0, <1>1, <1>5, <2>3 DEF ReadCapabilities, Publish, systemVars
<1>6. ASSUME NEW n \in Network, ReadProperties(n)
      PROVE  ObserverInv' /\ UNCHANGED <<pipe, helper>>
  <2> DEFINE Lists == {<<>>} \union UNION Range(DnsLists)
  <2>4. NetType = [link: {"gone", "up", "leaving"}, caps: Caps, dns: Lists]
    BY DEF NetType
  <2>5. pub.net[n] \in NetType /\ net[n] \in NetType
    BY <1>0 DEF PubType
  <2>1. [pub.net[n] EXCEPT !.dns = net[n].dns] \in NetType
    <3> HIDE DEF Lists
    <3> QED
      BY <2>4, <2>5
  <2>2. [pub.net EXCEPT ![n].dns = net[n].dns] \in [Network -> NetType]
    BY <1>0, <2>1 DEF PubType
  <2>3. [pub EXCEPT !.half = None, !.todo = pub.todo \ {n}, !.net[n].dns = net[n].dns] \in PubType
    BY <1>0, <2>2 DEF PubType
  <2> QED
    BY <1>0, <1>1, <1>6, <2>3 DEF ReadProperties, Publish, systemVars
<1>7. CASE Replace
  <2> DEFINE next == Servers(pub.net, pub.active)
             serve == IF pub.initial THEN "wait" ELSE out.serve
             unsent == out.unsent \/ out.snapshot # next
  <2>1. next \in GoodFrame
    BY <1>0, ServersGood DEF PubType
  <2>2. /\ out' = [out EXCEPT !.snapshot = next, !.unsent = unsent, !.serve = serve]
        /\ UNCHANGED <<systemVars, events, lost, pipe, helper>> /\ pub' = Idle
    BY <1>7 DEF Replace, Publish
  <2>3. serve \in {"boot", "wait", "write"} /\ unsent \in BOOLEAN /\ next \in Frame
    BY <1>0, <2>1 DEF OutType, GoodFrame
  <2> HIDE DEF next, serve, unsent
  <2>4. out' \in OutType /\ out'.snapshot = next /\ out'.next = out.next
    BY <1>0, <2>2, <2>3 DEF OutType
  <2>5. pub' \in PubType
    BY <2>2, TypeOfGone
  <2> QED
    BY <2>1, <2>2, <2>4, <2>5
    DEF ObserverInv, ObserverTypeOK, FramesGood, PubType, OutType, systemVars
<1> QED
  BY <1>2, <1>3, <1>4, <1>5, <1>6, <1>7 DEF Handler, Callback

\* serve writes the snapshot that was there when it looked.
LEMMA ServeKeeps ==
    ASSUME ObserverInv, Register \/ ServeTake \/ ServeWrite
    PROVE  /\ ObserverInv'
           /\ helper' = helper \/ (helper = "boot" /\ helper' = "alive")
<1>0. /\ events \in Seq(Event) /\ pub \in PubType /\ out \in OutType
      /\ pipe \in Seq(Frame) /\ Len(pipe) <= MaxPipe
      /\ out.next \in GoodFrame
      /\ \A i \in 1..Len(pipe) : pipe[i] \in GoodFrame
  BY DEF ObserverInv, ObserverTypeOK, FramesGood, PubType, OutType
<1>1. CASE Register
  <2> DEFINE e == <<"initial", None>>
  <2>1. e \in Event
    BY DEF Event
  <2>2. /\ events' = Append(events, e) /\ helper = "boot" /\ helper' = "alive"
        /\ UNCHANGED <<systemVars, lost, pub, out, pipe>>
    BY <1>1 DEF Register
  <2> HIDE DEF e
  <2>3. events' \in Seq(Event)
    BY <1>0, <2>1, <2>2
  <2> QED
    BY <2>2, <2>3 DEF ObserverInv, ObserverTypeOK, FramesGood, systemVars
<1>2. CASE ServeTake
  <2>1. /\ out.serve = "wait"
        /\ out' = [out EXCEPT !.unsent = FALSE, !.serve = "write", !.next = out.snapshot]
        /\ UNCHANGED <<systemVars, events, lost, pub, helper, pipe>>
    BY <1>2 DEF ServeTake, Serve
  <2>2. out.snapshot \in GoodFrame /\ out.snapshot \in Frame
    BY <2>1 DEF ObserverInv, FramesGood, GoodFrame
  <2>3. /\ out' \in OutType /\ out'.snapshot = out.snapshot /\ out'.next = out.snapshot
    BY <1>0, <2>1, <2>2 DEF OutType
  <2> QED
    BY <2>1, <2>2, <2>3 DEF ObserverInv, ObserverTypeOK, FramesGood, OutType, systemVars
<1>3. CASE ServeWrite
  <2> DEFINE none == <<>>
             frame == out.next
  <2>1. /\ out' = [out EXCEPT !.serve = "wait", !.next = none] /\ out.serve = "write"
        /\ Len(pipe) < MaxPipe /\ pipe' = Append(pipe, frame)
        /\ UNCHANGED <<systemVars, events, lost, pub, helper>>
    BY <1>3 DEF ServeWrite, Serve
  <2>2. none \in GoodFrame /\ none \in Frame
    BY CollectSteps DEF NoServers, GoodFrame
  <2>3. frame \in Frame
    BY <1>0 DEF GoodFrame
  <2> HIDE DEF none, frame
  <2>4. out' \in OutType /\ out'.snapshot = out.snapshot /\ out'.next = none
    BY <1>0, <2>1, <2>2 DEF OutType
  <2>5. /\ pipe' \in Seq(Frame) /\ Len(pipe') = Len(pipe) + 1 /\ Len(pipe) \in Nat
        /\ DOMAIN pipe' = 1..(Len(pipe) + 1)
        /\ pipe'[Len(pipe) + 1] = frame
        /\ \A i \in 1..Len(pipe) : pipe'[i] = pipe[i]
    BY <1>0, <2>1, <2>3, AppendProperties, LenProperties
  <2>6. \A i \in DOMAIN pipe' : pipe'[i] \in GoodFrame
    <3> SUFFICES ASSUME NEW i \in 1..(Len(pipe) + 1) PROVE pipe'[i] \in GoodFrame
      BY <2>5
    <3>1. CASE i = Len(pipe) + 1
      BY <1>0, <2>5, <3>1 DEF frame
    <3>2. CASE i \in 1..Len(pipe)
      BY <1>0, <2>5, <3>2
    <3> QED
      BY <2>5, <3>1, <3>2
  <2>7. Len(pipe') <= MaxPipe
    BY <2>1, <2>5, DnsAssumption
  <2>8. out.snapshot \in GoodFrame
    BY <2>1 DEF ObserverInv, FramesGood
  <2> QED
    BY <2>1, <2>2, <2>4, <2>5, <2>6, <2>7, <2>8
    DEF ObserverInv, ObserverTypeOK, FramesGood, OutType, systemVars
<1> QED
  BY <1>1, <1>2, <1>3

-----------------------------------------------------------------------------
(* The core.                                                               *)

\* What can have ended the helper or the connection, by where the calls are.
AlarmAgrees ==
    /\ core = "idle" => helper = "none"
    /\ core \in {"idle", "first"} => reader = "none"
    /\ core = "first" => connected /\ helper # "ended"
    /\ core = "wait" => stopping
    /\ core = "exited" => reader \in {"none", "done"}
    /\ reader \in {"read", "error", "fail"} /\ (~connected \/ helper = "ended") => stopping
    /\ reader = "error" => stopping \/ helper = "crashed"
    /\ reader = "fail" \/ signalled => helper = "crashed"

DnsInv == TypeOK /\ FramesGood /\ AlarmAgrees

ClientTypeOK ==
    /\ core \in {"idle", "first", "up", "stop", "close", "wait", "stopped", "exited"}
    /\ stopping \in BOOLEAN /\ connected \in BOOLEAN /\ signalled \in BOOLEAN
    /\ reader \in {"none", "read", "error", "fail", "done"}
    /\ managed \in Frame \union {None}

LEMMA DnsInvParts == DnsInv <=> ObserverInv /\ ClientTypeOK /\ AlarmAgrees
BY DEF DnsInv, ObserverInv, TypeOK, ClientTypeOK

\* The next frame, when one came or the pipe is not empty.
LEMMA FirstFrame ==
    ASSUME ObserverInv, pipe # <<>>
    PROVE  /\ Head(pipe) \in GoodFrame /\ Head(pipe) \in Frame /\ Decodes(Head(pipe))
           /\ pipe' = Tail(pipe) /\ UNCHANGED <<systemVars, events, lost, pub, out, helper>>
                  => ObserverInv'
<1>1. /\ pipe \in Seq(Frame) /\ Len(pipe) <= MaxPipe /\ Len(pipe) \in Nat
      /\ \A i \in 1..Len(pipe) : pipe[i] \in GoodFrame
  BY DEF ObserverInv, ObserverTypeOK, FramesGood
<1>2. /\ Head(pipe) = pipe[1] /\ 1 \in 1..Len(pipe)
      /\ Tail(pipe) \in Seq(Frame) /\ Len(Tail(pipe)) = Len(pipe) - 1
      /\ DOMAIN Tail(pipe) = 1..(Len(pipe) - 1)
      /\ \A i \in 1..(Len(pipe) - 1) : Tail(pipe)[i] = pipe[i + 1]
  BY <1>1
<1>3. \A i \in DOMAIN Tail(pipe) : Tail(pipe)[i] \in GoodFrame
  BY <1>1, <1>2
<1>4. Len(Tail(pipe)) <= MaxPipe
  BY <1>1, <1>2, DnsAssumption
<1> QED
  BY <1>1, <1>2, <1>3, <1>4
  DEF ObserverInv, ObserverTypeOK, FramesGood, GoodFrame, systemVars

\* The end of the helper's process takes what it had in memory.
LEMMA HelperKeeps ==
    ASSUME ObserverInv, NEW to \in {"crashed", "ended"}, Helper(to)
    PROVE  ObserverInv' /\ helper \in {"boot", "alive"} /\ helper' = to
<1> DEFINE none == <<>>
<1>1. /\ events' = none /\ lost' = {} /\ pub' = Idle /\ out' = NoOutput
      /\ helper \in {"boot", "alive"} /\ helper' = to /\ UNCHANGED <<systemVars, pipe>>
  BY DEF Helper
<1>2. none \in Seq(Event) /\ Idle \in PubType /\ NoOutput \in OutType
  BY TypeOfGone
<1>3. NoOutput.serve = "boot" /\ NoOutput.next \in GoodFrame
  BY CollectSteps DEF NoOutput, NoServers
<1> HIDE DEF none
<1> QED
  BY <1>1, <1>2, <1>3
  DEF ObserverInv, ObserverTypeOK, FramesGood, PubType, OutType, systemVars

LEMMA DnsInitInv == Init => DnsInv
<1> SUFFICES ASSUME Init PROVE DnsInv
  OBVIOUS
<1> DEFINE none == <<>>
<1>1. /\ net \in [Network -> NetType] /\ active = None /\ changes = 0
      /\ events = none /\ lost = {} /\ pub = Idle /\ out = NoOutput /\ pipe = none
      /\ helper = "none"
  BY DnsAssumption DEF Init, ObserverInit
<1>2. none \in Seq(Event) /\ none \in Seq(Frame) /\ Len(none) = 0 /\ DOMAIN none = {}
  OBVIOUS
<1>3. Idle \in PubType /\ NoOutput \in OutType
  BY TypeOfGone
<1>4. NoOutput.serve = "boot" /\ NoOutput.next \in GoodFrame
  BY CollectSteps DEF NoOutput, NoServers
<1> HIDE DEF none
<1>5. ObserverTypeOK
  BY <1>1, <1>2, <1>3, DnsAssumption DEF ObserverTypeOK, PubType, OutType
<1>6. FramesGood
  BY <1>1, <1>2, <1>4 DEF FramesGood
<1>7. ClientTypeOK /\ AlarmAgrees
  BY <1>1 DEF Init, ClientTypeOK, AlarmAgrees
<1> QED
  BY <1>5, <1>6, <1>7, DnsInvParts DEF ObserverInv

LEMMA DnsNextInv ==
    ASSUME DnsInv, [Next]_vars
    PROVE  DnsInv'
<1>0. ObserverInv /\ ClientTypeOK /\ AlarmAgrees
  BY DnsInvParts
<1>1. ASSUME ObserverInv', ClientTypeOK', AlarmAgrees' PROVE DnsInv'
  BY <1>1 DEF DnsInv, ObserverInv, TypeOK, ClientTypeOK
<1>2. ASSUME UNCHANGED observerVars, UNCHANGED systemVars PROVE ObserverInv' /\ helper' = helper
  BY <1>0, <1>2 DEF ObserverInv, ObserverTypeOK, FramesGood, observerVars, systemVars
<1>3. CASE Observer
  <2>1. UNCHANGED clientVars /\ ObserverInv'
        /\ (helper' = helper \/ (helper = "boot" /\ helper' = "alive"))
    BY <1>0, <1>3, SystemKeeps, HandlerKeeps, ServeKeeps DEF Observer, ObserverNext
  <2> QED
    BY <1>0, <1>1, <2>1 DEF ClientTypeOK, AlarmAgrees, clientVars
<1>4. CASE Start
  <2>1. core = "idle" /\ helper = "none" /\ reader = "none"
    BY <1>0, <1>4 DEF Start, MoveCore, AlarmAgrees
  <2>2. ObserverInv'
    BY <1>0, <1>2, <1>4
    DEF Start, MoveCore, ObserverInv, ObserverTypeOK, FramesGood, systemVars
  <2>4. /\ UNCHANGED <<stopping, reader, managed, signalled>>
        /\ \/ core' = "first" /\ helper' = "boot" /\ connected' = TRUE
           \/ core' = "exited" /\ helper' = helper /\ connected' = connected
    BY <1>4 DEF Start, MoveCore, observerVars
  <2>3. ClientTypeOK' /\ AlarmAgrees'
    BY <1>0, <2>1, <2>4 DEF ClientTypeOK, AlarmAgrees
  <2> QED
    BY <1>1, <2>2, <2>3
<1>5. CASE FirstSnapshot
  <2>1. /\ pipe # <<>> /\ pipe' = Tail(pipe) /\ managed' = Head(pipe)
        /\ core = "first" /\ core' = "up" /\ reader' = "read"
        /\ UNCHANGED <<systemVars, events, lost, pub, out, helper, stopping, connected, signalled>>
    BY <1>5 DEF FirstSnapshot, MoveCore, FrameCame, SetManagedServers
  <2>2. ObserverInv' /\ Head(pipe) \in Frame
    BY <1>0, <2>1, FirstFrame
  <2>3. ClientTypeOK'
    BY <1>0, <2>1, <2>2 DEF ClientTypeOK
  <2>4. AlarmAgrees'
    BY <1>0, <2>1 DEF AlarmAgrees
  <2> QED
    BY <1>1, <2>2, <2>3, <2>4
<1>6. CASE ReadFrame
  <2>1. /\ pipe # <<>> /\ pipe' = Tail(pipe) /\ managed' = Head(pipe)
        /\ reader = "read" /\ reader' = "read"
        /\ UNCHANGED <<systemVars, events, lost, pub, out, helper, core, stopping, connected, signalled>>
    BY <1>6 DEF ReadFrame, Reader, FrameCame, SetManagedServers
  <2>2. ObserverInv' /\ Head(pipe) \in Frame
    BY <1>0, <2>1, FirstFrame
  <2>3. ClientTypeOK' /\ AlarmAgrees'
    BY <1>0, <2>1, <2>2 DEF ClientTypeOK, AlarmAgrees
  <2> QED
    BY <1>1, <2>2, <2>3
<1>7. CASE FirstError \/ Stop \/ CloseConnection \/ StopWait \/ CoreDies
  <2>1. ObserverInv' /\ helper' = helper
    BY <1>2, <1>7 DEF FirstError, Stop, CloseConnection, StopWait, CoreDies, MoveCore
  <2>2. ClientTypeOK'
    BY <1>0, <1>7
    DEF FirstError, Stop, CloseConnection, StopWait, CoreDies, MoveCore, Returned, ClientTypeOK
  <2>3. AlarmAgrees'
    BY <1>0, <1>7, <2>1
    DEF FirstError, Stop, CloseConnection, StopWait, CoreDies, MoveCore, Returned, ClientTypeOK,
        AlarmAgrees
  <2> QED
    BY <1>1, <2>1, <2>2, <2>3
<1>8. CASE ReadError
  <2>1. pipe # <<>> => Decodes(Head(pipe))
    BY <1>0, FirstFrame
  <2>2. (helper \in {"crashed", "ended"} \/ ~connected) /\ reader = "read" /\ reader' = "error"
    BY <1>8, <2>1 DEF ReadError, Reader, ReadFailed
  <2>3. UNCHANGED <<systemVars, observerVars, core, stopping, connected, managed, signalled>>
    BY <1>8 DEF ReadError, Reader, observerVars
  <2>4. ClientTypeOK' /\ AlarmAgrees'
    BY <1>0, <2>2, <2>3 DEF ClientTypeOK, AlarmAgrees, observerVars
  <2> QED
    BY <1>1, <1>2, <2>3, <2>4
<1>9. CASE LookAtStopping
  <2>1. /\ reader = "error" /\ reader' = IF stopping THEN "done" ELSE "fail"
        /\ UNCHANGED <<systemVars, observerVars, core, stopping, connected, managed, signalled>>
    BY <1>9 DEF LookAtStopping, Reader, observerVars
  <2>2. ClientTypeOK' /\ AlarmAgrees'
    BY <1>0, <2>1 DEF ClientTypeOK, AlarmAgrees, observerVars
  <2> QED
    BY <1>1, <1>2, <2>1, <2>2
<1>12. CASE ReaderFails
  <2>1. /\ reader = "fail" /\ reader' = "done" /\ managed' = NoServers /\ signalled' = TRUE
        /\ UNCHANGED <<systemVars, observerVars, core, stopping, connected>>
    BY <1>12 DEF ReaderFails, Reader, SetManagedServers, NoServers, observerVars
  <2>2. NoServers \in Frame
    BY CollectSteps DEF GoodFrame
  <2>3. ClientTypeOK' /\ AlarmAgrees'
    BY <1>0, <2>1, <2>2 DEF ClientTypeOK, AlarmAgrees, observerVars
  <2> QED
    BY <1>1, <1>2, <2>1, <2>3
<1>10. CASE KillHelper \/ HelperCrashes \/ HelperEof \/ Pdeathsig
  <2>1. PICK to \in {"crashed", "ended"} :
            /\ Helper(to) /\ UNCHANGED clientVars
            /\ to = "ended" => core = "wait" \/ ~connected \/ core = "exited"
    BY <1>10 DEF KillHelper, HelperCrashes, HelperEof, Pdeathsig
  <2>2. ObserverInv' /\ helper \in {"boot", "alive"} /\ helper' = to
    BY <1>0, <2>1, HelperKeeps
  <2>3. ClientTypeOK' /\ AlarmAgrees'
    BY <1>0, <2>1, <2>2 DEF ClientTypeOK, AlarmAgrees, clientVars
  <2> QED
    BY <1>1, <2>2, <2>3
<1>11. CASE UNCHANGED vars
  <2>1. UNCHANGED <<systemVars, observerVars, clientVars>>
    BY <1>11 DEF vars
  <2> QED
    BY <1>0, <1>1, <1>2, <2>1 DEF ClientTypeOK, AlarmAgrees, clientVars
<1> QED
  BY <1>3, <1>4, <1>5, <1>6, <1>7, <1>8, <1>9, <1>10, <1>11, <1>12 DEF Next

(***************************************************************************)
(* Every frame on its way to the core decodes, and what ended the helper   *)
(* or the connection is known from where the calls of the core are.        *)
(***************************************************************************)
THEOREM DnsInvariant == Spec => []DnsInv
<1>1. Init => DnsInv
  BY DnsInitInv
<1>2. DnsInv /\ [Next]_vars => DnsInv'
  BY DnsNextInv
<1> QED
  BY <1>1, <1>2, PTL DEF Spec

(***************************************************************************)
(* The helper, the system's networks and the core keep their types, for    *)
(* any networks, addresses and limits.                                     *)
(***************************************************************************)
THEOREM DnsTypeInvariant == Spec => []TypeOK
<1>1. DnsInv => TypeOK
  BY DEF DnsInv
<1> QED
  BY <1>1, DnsInvariant, PTL

(***************************************************************************)
(* The core signals itself only after the helper really failed.            *)
(***************************************************************************)
THEOREM NoFalseAlarmAlways == Spec => []NoFalseAlarm
<1>1. DnsInv => NoFalseAlarm
  BY DEF DnsInv, AlarmAgrees, NoFalseAlarm
<1> QED
  BY <1>1, DnsInvariant, PTL

-----------------------------------------------------------------------------
(* What a failed helper leaves behind.                                     *)

\* Only stop closes the channel, and the reader's failure is its last step.
FailureAgrees ==
    /\ core \in {"idle", "first", "up"} => ~stopping
    /\ signalled => reader = "done" /\ managed = NoServers
    /\ core = "up" /\ reader = "done" => signalled

LEMMA FailureStep ==
    ASSUME AlarmAgrees, FailureAgrees, [Next]_vars
    PROVE  FailureAgrees'
<1> USE DEF FailureAgrees
<1>1. CASE UNCHANGED clientVars
  BY <1>1 DEF clientVars
<1>2. CASE Start
  BY <1>2 DEF Start, MoveCore, AlarmAgrees
<1>3. CASE FirstSnapshot
  BY <1>3 DEF FirstSnapshot, MoveCore, AlarmAgrees
<1>4. CASE FirstError \/ Stop \/ CloseConnection
  <2>1. core' \in {"close", "wait"} /\ UNCHANGED <<reader, managed, signalled>>
    BY <1>4 DEF FirstError, Stop, CloseConnection, MoveCore
  <2> QED
    BY <2>1
<1>5. CASE StopWait
  <2>1. core' \in {"exited", "stopped"} /\ UNCHANGED <<reader, managed, signalled>>
    BY <1>5 DEF StopWait, MoveCore, Returned
  <2> QED
    BY <2>1
<1>6. CASE CoreDies
  <2>1. /\ core' = "exited" /\ UNCHANGED <<managed, signalled>>
        /\ reader = "done" => reader' = "done"
    BY <1>6 DEF CoreDies
  <2> QED
    BY <2>1
<1>7. CASE ReadFrame \/ ReadError
  <2>1. reader = "read" /\ reader' # "done" /\ UNCHANGED <<core, stopping, signalled>>
    BY <1>7 DEF ReadFrame, ReadError, Reader
  <2> QED
    BY <2>1
<1>8. CASE LookAtStopping
  <2>1. /\ reader = "error" /\ reader' = IF stopping THEN "done" ELSE "fail"
        /\ UNCHANGED <<core, stopping, managed, signalled>>
    BY <1>8 DEF LookAtStopping, Reader
  <2> QED
    BY <2>1
<1>9. CASE ReaderFails
  <2>1. /\ reader' = "done" /\ managed' = NoServers /\ signalled' = TRUE
        /\ UNCHANGED <<core, stopping>>
    BY <1>9 DEF ReaderFails, Reader, SetManagedServers, NoServers
  <2> QED
    BY <2>1
<1>10. ASSUME Observer \/ KillHelper \/ HelperCrashes \/ HelperEof \/ Pdeathsig \/ UNCHANGED vars
       PROVE  UNCHANGED clientVars
  BY <1>10 DEF Observer, KillHelper, HelperCrashes, HelperEof, Pdeathsig, vars
<1> QED
  BY <1>1, <1>2, <1>3, <1>4, <1>5, <1>6, <1>7, <1>8, <1>9, <1>10 DEF Next

(***************************************************************************)
(* client_android.go: a reader that has returned in a core nobody stopped  *)
(* has told the core to stop, and a core that was told to has no servers,  *)
(* whichever frames were read before and whatever stop does meanwhile.     *)
(***************************************************************************)
THEOREM FailureClearedAlways ==
    Spec => [](/\ signalled => managed = <<>>
               /\ core = "up" /\ reader = "done" => signalled)
<1>1. Init => FailureAgrees
  BY DEF Init, FailureAgrees
<1>2. DnsInv /\ FailureAgrees /\ [Next]_vars => FailureAgrees'
  BY FailureStep DEF DnsInv
<1>3. FailureAgrees => /\ signalled => managed = <<>>
                       /\ core = "up" /\ reader = "done" => signalled
  BY DEF FailureAgrees, NoServers
<1> QED
  BY <1>1, <1>2, <1>3, DnsInvariant, PTL DEF Spec

-----------------------------------------------------------------------------
(* What the core ends with.                                                *)

\* What publish has to know of a network.
SeenIn(nets, n) == nets[n].link = "up" /\ Matches(nets[n].caps)
Shown(nets) == [n \in Network |-> IF nets[n].link = "up" THEN nets[n] ELSE Gone]

\* What lostNetworks, l by now, will say of a network after the callbacks in q.
WillBeLost(n, q, l) ==
    \/ \E i \in 1..Len(q) :
           q[i] = <<"lost", n>> /\ \A j \in 1..Len(q) : j > i => q[j] # <<"available", n>>
    \/ n \in l /\ \A j \in 1..Len(q) : q[j] # <<"available", n>>

LostRight(n, state, q, l) ==
    Matches(state.caps) => /\ state.link = "leaving" => WillBeLost(n, q, l)
                           /\ state.link = "up" => ~WillBeLost(n, q, l)

LostAgrees == \A n \in Network : LostRight(n, net[n], events, lost)

\* What publish has read of the networks is as it is now.
ReadNow(p, nets) ==
    \A n \in Network :
        /\ n \notin p.todo \/ n = p.half =>
               /\ Matches(p.net[n].caps) <=> SeenIn(nets, n)
               /\ SeenIn(nets, n) => p.net[n].caps = nets[n].caps
        /\ n \notin p.todo /\ SeenIn(nets, n) => p.net[n].dns = nets[n].dns

ReadSoFar ==
    /\ pub.at = "idle" => pub = Idle
    /\ pub.at \in {"active", "list"} => pub.net = Idle.net /\ pub.half = None
    /\ pub.at = "read" => lost \intersect pub.todo = {} /\ pub.half \in pub.todo \union {None}

\* With no callback left to run, what is read, or was, is all there is to read.
PublishAgrees ==
    events = <<>> =>
        /\ pub.at \in {"list", "read"} => pub.active = active
        /\ pub.at = "read" => ReadNow(pub, net)
        /\ pub.at = "idle" => out.snapshot = Expected

IsFirst(e) == e[1] = "initial"

\* The first publish, which serve waits for.
FirstAgrees ==
    /\ \A i \in 1..Len(events) : IsFirst(events[i]) => i = 1 /\ out.serve = "boot" /\ ~pub.initial
    /\ pub.initial => out.serve = "boot"
    /\ out.serve = "boot" => /\ out.snapshot = None \/ out.unsent
                             /\ pub.initial \/ (Len(events) > 0 /\ IsFirst(events[1]))

HandlerAgrees == LostAgrees /\ ReadSoFar /\ PublishAgrees /\ FirstAgrees

HelperAgrees ==
    /\ helper # "alive" => events = <<>> /\ lost = {} /\ pub = Idle /\ out = NoOutput
    /\ helper = "alive" => HandlerAgrees

GoneIsGone == \A n \in Network : net[n].link = "gone" => net[n] = Gone

\* The snapshot is on its way to the core, or there.
Underway ==
    helper = "alive" /\ ~out.unsent /\ out.snapshot # None =>
        IF out.serve = "write" THEN out.next = out.snapshot
        ELSE IF Len(pipe) > 0 THEN pipe[Len(pipe)] = out.snapshot
        ELSE core # "first" /\ (core = "up" /\ reader = "read" => managed = out.snapshot)

CurrentInv ==
    /\ core = "idle" => Len(pipe) = 0 /\ helper = "none"
    /\ GoneIsGone /\ HelperAgrees /\ Underway

\* publish's frame depends on the networks that match the request alone.
LEMMA ServersSame ==
    ASSUME NEW g \in [Network -> NetType], NEW h \in [Network -> NetType], NEW default,
           \A n \in Network :
               /\ Matches(g[n].caps) <=> Matches(h[n].caps)
               /\ Matches(h[n].caps) => g[n].caps = h[n].caps /\ g[n].dns = h[n].dns
    PROVE  Servers(g, default) = Servers(h, default)
<1>1. Eligible(g) = Eligible(h)
  BY DEF Eligible
<1>2. \A n \in Eligible(h) : n \in Network /\ g[n].caps = h[n].caps /\ g[n].dns = h[n].dns
  BY DEF Eligible
<1>3. Sources(g, default) = Sources(h, default)
  BY <1>1, <1>2 DEF Sources
<1> DEFINE S == Sources(h, default)
           G(f) == f = [T \in SUBSET S |->
                           IF T = {} THEN <<>> ELSE Collect(f[T \ {Max(T)}], g[Max(T)].dns)]
           H(f) == f = [T \in SUBSET S |->
                           IF T = {} THEN <<>> ELSE Collect(f[T \ {Max(T)}], h[Max(T)].dns)]
<1>4. Servers(g, default) = (CHOOSE f : G(f))[S] /\ Servers(h, default) = (CHOOSE f : H(f))[S]
  BY <1>3 DEF Servers, MapThenFoldSet
<1>5. \A n \in S : g[n].dns = h[n].dns
  BY <1>2 DEF Sources
<1>6. \A T \in SUBSET S : T # {} => Max(T) \in S
  <2> SUFFICES ASSUME NEW T \in SUBSET S, T # {} PROVE Max(T) \in T
    OBVIOUS
  <2>1. S \subseteq Network
    BY DEF Sources, Eligible
  <2> HIDE DEF S
  <2>2. T \subseteq Network /\ T \in SUBSET Int
    BY <2>1, DnsAssumption
  <2>3. IsFiniteSet(T)
    BY ONLY <2>2, FS_Subset, DnsAssumption
  <2> QED
    BY <2>2, <2>3, MaxOfFinite
<1>7. \A f : G(f) <=> H(f)
  <2> TAKE f
  <2> DEFINE R(T) == IF T = {} THEN <<>> ELSE Collect(f[T \ {Max(T)}], g[Max(T)].dns)
             Q(T) == IF T = {} THEN <<>> ELSE Collect(f[T \ {Max(T)}], h[Max(T)].dns)
  <2>1. \A T \in SUBSET S : R(T) = Q(T)
    BY <1>5, <1>6
  <2>2. [T \in SUBSET S |-> R(T)] = [T \in SUBSET S |-> Q(T)]
    <3> HIDE DEF R, Q, S
    <3> QED
      BY <2>1
  <2> QED
    BY <2>2
<1>8. (CHOOSE f : G(f)) = (CHOOSE f : H(f))
  <2> HIDE DEF G, H
  <2> QED
    BY <1>7
<1> QED
  BY <1>4, <1>8

\* onLost or onAvailable of n, posted last, decides; any other callback does not.
LEMMA LostAppend ==
    ASSUME NEW q \in Seq(Event), NEW e \in Event, NEW l, NEW n
    PROVE  /\ e \notin {<<"lost", n>>, <<"available", n>>}
                  => (WillBeLost(n, Append(q, e), l) <=> WillBeLost(n, q, l))
           /\ e = <<"lost", n>> => WillBeLost(n, Append(q, e), l)
           /\ e = <<"available", n>> => ~WillBeLost(n, Append(q, e), l)
<1> DEFINE t == Append(q, e)
           a == <<"available", n>>
           b == <<"lost", n>>
<1>1. /\ Len(t) = Len(q) + 1 /\ Len(q) \in Nat
      /\ t[Len(q) + 1] = e /\ \A i \in 1..Len(q) : t[i] = q[i]
  OBVIOUS
<1>2. a # b
  OBVIOUS
<1>3. \A r : WillBeLost(n, r, l) <=>
          \/ \E i \in 1..Len(r) : r[i] = b /\ \A j \in 1..Len(r) : j > i => r[j] # a
          \/ n \in l /\ \A j \in 1..Len(r) : r[j] # a
  BY DEF WillBeLost
<1> HIDE DEF t, a, b
<1>4. CASE e \notin {b, a}
  <2>1. ASSUME WillBeLost(n, q, l) PROVE WillBeLost(n, t, l)
    <3>1. CASE n \in l /\ \A j \in 1..Len(q) : q[j] # a
      <4>1. \A j \in 1..Len(t) : t[j] # a
        BY <1>1, <1>4, <3>1
      <4> QED
        BY <1>3, <3>1, <4>1
    <3>2. CASE \E i \in 1..Len(q) : q[i] = b /\ \A j \in 1..Len(q) : j > i => q[j] # a
      <4>1. PICK i \in 1..Len(q) : q[i] = b /\ \A j \in 1..Len(q) : j > i => q[j] # a
        BY <3>2
      <4>2. i \in 1..Len(t) /\ t[i] = b
        BY <1>1, <4>1
      <4>3. \A j \in 1..Len(t) : j > i => t[j] # a
        BY <1>1, <1>4, <4>1
      <4> QED
        BY <1>3, <4>2, <4>3
    <3> QED
      BY <1>3, <2>1, <3>1, <3>2
  <2>2. ASSUME WillBeLost(n, t, l) PROVE WillBeLost(n, q, l)
    <3>1. CASE n \in l /\ \A j \in 1..Len(t) : t[j] # a
      <4>1. \A j \in 1..Len(q) : j \in 1..Len(t) /\ q[j] # a
        BY <1>1, <3>1
      <4> QED
        BY <1>3, <3>1, <4>1
    <3>2. CASE \E i \in 1..Len(t) : t[i] = b /\ \A j \in 1..Len(t) : j > i => t[j] # a
      <4>1. PICK i \in 1..Len(t) : t[i] = b /\ \A j \in 1..Len(t) : j > i => t[j] # a
        BY <3>2
      <4>2. i \in 1..Len(q)
        BY <1>1, <1>4, <4>1
      <4>3. \A j \in 1..Len(q) : j > i => q[j] # a
        BY <1>1, <4>1
      <4> QED
        BY <1>1, <1>3, <4>1, <4>2, <4>3
    <3> QED
      BY <1>3, <2>2, <3>1, <3>2
  <2> QED
    BY <1>2, <1>4, <2>1, <2>2 DEF t, a, b
<1>5. CASE e = b
  <2>1. Len(t) \in 1..Len(t) /\ t[Len(t)] = b /\ \A j \in 1..Len(t) : ~(j > Len(t))
    BY <1>1, <1>5
  <2>2. WillBeLost(n, t, l)
    BY <1>3, <2>1
  <2> QED
    BY <1>2, <1>5, <2>2 DEF t, a, b
<1>6. CASE e = a
  <2>1. Len(t) \in 1..Len(t) /\ t[Len(t)] = a
    BY <1>1, <1>6
  <2>2. \A i \in 1..Len(t) : t[i] = b => Len(t) > i
    BY <1>1, <1>2, <1>6
  <2>3. ~WillBeLost(n, t, l)
    BY <1>3, <2>1, <2>2
  <2> QED
    BY <1>2, <1>6, <2>3 DEF t, a, b
<1> QED
  BY <1>4, <1>5, <1>6 DEF a, b

\* A callback that is run changes lostNetworks, not what it will say in the end.
LEMMA LostTail ==
    ASSUME NEW q \in Seq(Event), q # <<>>, NEW l, NEW m, NEW n,
           NEW kind, Head(q) = <<kind, m>>
    PROVE  WillBeLost(n, Tail(q), IF kind = "available" THEN l \ {m}
                                  ELSE IF kind = "lost" THEN l \union {m} ELSE l)
               <=> WillBeLost(n, q, l)
<1> DEFINE t == Tail(q)
           a == <<"available", n>>
           b == <<"lost", n>>
           k == IF kind = "available" THEN l \ {m} ELSE IF kind = "lost" THEN l \union {m} ELSE l
<1>1. /\ Len(t) = Len(q) - 1 /\ Len(q) \in Nat \ {0}
      /\ \A i \in 1..Len(t) : t[i] = q[i + 1]
      /\ q[1] = <<kind, m>>
  OBVIOUS
<1>2. /\ a # b
      /\ q[1] = a <=> kind = "available" /\ m = n
      /\ q[1] = b <=> kind = "lost" /\ m = n
  BY <1>1
<1>3. /\ q[1] = a => n \notin k
      /\ q[1] = b => n \in k
      /\ q[1] \notin {a, b} => (n \in k <=> n \in l)
  <2> HIDE DEF a, b
  <2> QED
    BY <1>2
<1>4. \A r, s : WillBeLost(n, r, s) <=>
          \/ \E i \in 1..Len(r) : r[i] = b /\ \A j \in 1..Len(r) : j > i => r[j] # a
          \/ n \in s /\ \A j \in 1..Len(r) : r[j] # a
  BY DEF WillBeLost
<1> HIDE DEF t, a, b, k
<1>5. \A j \in 1..Len(q) : j # 1 => j - 1 \in 1..Len(t) /\ t[j - 1] = q[j]
  <2> SUFFICES ASSUME NEW j \in 1..Len(q), j # 1 PROVE j - 1 \in 1..Len(t) /\ t[j - 1] = q[j]
    OBVIOUS
  <2>1. j - 1 \in 1..Len(t) /\ (j - 1) + 1 = j
    BY <1>1
  <2> QED
    BY <1>1, <2>1
<1>6. \A j \in 1..Len(t) : j + 1 \in 1..Len(q) /\ t[j] = q[j + 1] /\ j + 1 # 1
  BY <1>1
<1>7. ASSUME WillBeLost(n, q, l) PROVE WillBeLost(n, t, k)
  <2>1. CASE n \in l /\ \A j \in 1..Len(q) : q[j] # a
    <3>1. \A j \in 1..Len(t) : t[j] # a
      BY <1>6, <2>1
    <3>2. n \in k
      <4>1. q[1] # a
        BY <1>1, <2>1
      <4> QED
        BY <1>3, <2>1, <4>1
    <3> QED
      BY <1>4, <3>1, <3>2
  <2>2. CASE \E i \in 1..Len(q) : q[i] = b /\ \A j \in 1..Len(q) : j > i => q[j] # a
    <3>1. PICK i \in 1..Len(q) : q[i] = b /\ \A j \in 1..Len(q) : j > i => q[j] # a
      BY <2>2
    <3>2. CASE i = 1
      <4>1. \A j \in 1..Len(t) : t[j] # a
        BY <1>6, <3>1, <3>2
      <4> QED
        BY <1>3, <1>4, <3>1, <3>2, <4>1
    <3>3. CASE i # 1
      <4>1. i - 1 \in 1..Len(t) /\ t[i - 1] = b
        BY <1>5, <3>1, <3>3
      <4>2. \A j \in 1..Len(t) : j > i - 1 => t[j] # a
        <5> SUFFICES ASSUME NEW j \in 1..Len(t), j > i - 1 PROVE t[j] # a
          OBVIOUS
        <5>1. j + 1 > i /\ j + 1 \in 1..Len(q)
          BY <1>6
        <5> QED
          BY <1>6, <3>1, <5>1
      <4> QED
        BY <1>4, <4>1, <4>2
    <3> QED
      BY <3>2, <3>3
  <2> QED
    BY <1>4, <1>7, <2>1, <2>2
<1>8. ASSUME WillBeLost(n, t, k) PROVE WillBeLost(n, q, l)
  <2>1. CASE n \in k /\ \A j \in 1..Len(t) : t[j] # a
    <3>1. \A j \in 1..Len(q) : j # 1 => q[j] # a
      BY <1>5, <2>1
    <3>2. 1 \in 1..Len(q) /\ \A j \in 1..Len(q) : j > 1 => j # 1
      BY <1>1
    <3>3. q[1] # a
      BY <1>3, <2>1
    <3>4. CASE q[1] = b
      BY <1>4, <3>1, <3>2, <3>4
    <3>5. CASE q[1] # b
      <4>1. n \in l /\ \A j \in 1..Len(q) : q[j] # a
        BY <1>3, <2>1, <3>1, <3>3, <3>5
      <4> QED
        BY <1>4, <4>1
    <3> QED
      BY <3>4, <3>5
  <2>2. CASE \E i \in 1..Len(t) : t[i] = b /\ \A j \in 1..Len(t) : j > i => t[j] # a
    <3>1. PICK i \in 1..Len(t) : t[i] = b /\ \A j \in 1..Len(t) : j > i => t[j] # a
      BY <2>2
    <3>2. i + 1 \in 1..Len(q) /\ q[i + 1] = b
      BY <1>6, <3>1
    <3>3. \A j \in 1..Len(q) : j > i + 1 => q[j] # a
      <4> SUFFICES ASSUME NEW j \in 1..Len(q), j > i + 1 PROVE q[j] # a
        OBVIOUS
      <4>1. j # 1 /\ j - 1 > i
        BY <3>1
      <4> QED
        BY <1>5, <3>1, <4>1
    <3> QED
      BY <1>4, <3>2, <3>3
  <2> QED
    BY <1>4, <1>8, <2>1, <2>2
<1> QED
  BY <1>7, <1>8 DEF t, k

\* Networks that publish must not see may change: the frame to have does not.
LEMMA ExpectedSame ==
    ASSUME NEW g \in [Network -> NetType], NEW h \in [Network -> NetType], NEW default,
           \A n \in Network : g[n] = h[n] \/ (~SeenIn(g, n) /\ ~SeenIn(h, n))
    PROVE  Servers(Shown(g), default) = Servers(Shown(h), default)
<1>1. Shown(g) \in [Network -> NetType] /\ Shown(h) \in [Network -> NetType]
  BY TypeOfGone DEF Shown
<1>2. ~Matches(Gone.caps)
  BY DEF Gone, Matches
<1>3. ASSUME NEW n \in Network
      PROVE  /\ Matches(Shown(g)[n].caps) <=> Matches(Shown(h)[n].caps)
             /\ Matches(Shown(h)[n].caps) =>
                    Shown(g)[n].caps = Shown(h)[n].caps /\ Shown(g)[n].dns = Shown(h)[n].dns
  BY <1>2 DEF Shown, SeenIn
<1> HIDE DEF Shown
<1> QED
  BY <1>1, <1>3, ServersSame

\* A change that is announced leads to another publish: nothing read so far counts.
LEMMA Announced ==
    ASSUME ObserverInv, HandlerAgrees, NEW e \in Event, ~IsFirst(e),
           events' = Append(events, e), UNCHANGED <<lost, pub, out>>,
           \A n \in Network :
               \/ net'[n] = net[n] /\ e \notin {<<"lost", n>>, <<"available", n>>}
               \/ LostRight(n, net'[n], events', lost)
    PROVE  HandlerAgrees'
<1>1. /\ events \in Seq(Event) /\ Len(events) \in Nat /\ Len(events') = Len(events) + 1
      /\ events'[Len(events) + 1] = e /\ \A i \in 1..Len(events) : events'[i] = events[i]
  BY DEF ObserverInv, ObserverTypeOK
<1>2. LostAgrees'
  <2> SUFFICES ASSUME NEW n \in Network PROVE LostRight(n, net'[n], events', lost')
    BY DEF LostAgrees
  <2>1. CASE net'[n] = net[n] /\ e \notin {<<"lost", n>>, <<"available", n>>}
    <3>1. WillBeLost(n, events', lost) <=> WillBeLost(n, events, lost)
      BY <1>1, <2>1, LostAppend
    <3> QED
      BY <2>1, <3>1 DEF HandlerAgrees, LostAgrees, LostRight
  <2>2. CASE LostRight(n, net'[n], events', lost)
    BY <2>2
  <2> QED
    BY <2>1, <2>2
<1>3. ReadSoFar'
  BY DEF HandlerAgrees, ReadSoFar
<1>4. PublishAgrees'
  BY <1>1 DEF PublishAgrees
<1>5. FirstAgrees'
  <2>1. \A i \in 1..Len(events') : i = Len(events) + 1 \/ (i \in 1..Len(events) /\ events'[i] = events[i])
    BY <1>1
  <2>2. Len(events) > 0 => Len(events') > 0 /\ events'[1] = events[1]
    BY <1>1
  <2> QED
    BY <1>1, <2>1, <2>2 DEF HandlerAgrees, FirstAgrees
<1> QED
  BY <1>2, <1>3, <1>4, <1>5 DEF HandlerAgrees

\* A change that is not concerns networks that publish does not see.
LEMMA Silent ==
    ASSUME ObserverInv, ObserverInv', HandlerAgrees, UNCHANGED <<active, events, lost, pub, out>>,
           \A n \in Network :
               net'[n] = net[n] \/ (~SeenIn(net, n) /\ ~Matches(net'[n].caps))
    PROVE  HandlerAgrees'
<1>0. net \in [Network -> NetType] /\ net' \in [Network -> NetType]
  BY DEF ObserverInv, ObserverTypeOK
<1>1. LostAgrees'
  BY DEF HandlerAgrees, LostAgrees, LostRight
<1>2. ReadSoFar' /\ FirstAgrees'
  BY DEF HandlerAgrees, ReadSoFar, FirstAgrees
<1>3. PublishAgrees'
  <2> SUFFICES ASSUME events = <<>>
               PROVE  /\ pub.at \in {"list", "read"} => pub.active = active
                      /\ pub.at = "read" => ReadNow(pub, net')
                      /\ pub.at = "idle" => out.snapshot = Expected'
    BY DEF PublishAgrees
  <2>1. \A n \in Network : net'[n] = net[n] \/ (~SeenIn(net, n) /\ ~SeenIn(net', n))
    BY DEF SeenIn
  <2>2. Servers(Shown(net'), active) = Servers(Shown(net), active)
    BY <1>0, <2>1, ExpectedSame
  <2>3. Expected' = Expected
    BY <2>2 DEF Expected, Shown
  <2>4. ReadNow(pub, net) => ReadNow(pub, net')
    BY <2>1 DEF ReadNow, SeenIn
  <2> QED
    BY <2>3, <2>4 DEF HandlerAgrees, PublishAgrees
<1> QED
  BY <1>1, <1>2, <1>3 DEF HandlerAgrees

\* A network changes from old to new, in capabilities the callback hears of.
LEMMA Notified ==
    ASSUME ObserverInv, ObserverInv', HandlerAgrees, helper = "alive",
           NEW n \in Network, NEW state, NEW old, NEW new,
           net' = [net EXCEPT ![n] = state], Notify(old, new, n),
           UNCHANGED <<active, lost, pub, out>>,
           \/ net[n].link = "up" /\ old = net[n].caps
           \/ net[n].link = "gone" /\ old = "none",
           \/ state.link = "up" /\ new = state.caps
           \/ state.link = "leaving" /\ new = "none" /\ old = state.caps
    PROVE  HandlerAgrees'
<1>0. net \in [Network -> NetType] /\ events \in Seq(Event)
  BY DEF ObserverInv, ObserverTypeOK
<1>1. net'[n] = state /\ \A m \in Network \ {n} : net'[m] = net[m]
  BY <1>0
<1>2. ~Matches("none")
  BY DEF Matches
<1>3. ASSUME NEW kind \in {"available", "lost", "changed"}, events' = Append(events, <<kind, n>>),
             LostRight(n, state, events', lost)
      PROVE  HandlerAgrees'
  <2> DEFINE e == <<kind, n>>
  <2>1. e \in Event /\ ~IsFirst(e)
    BY DEF Event, IsFirst
  <2>2. \A m \in Network \ {n} : e \notin {<<"lost", m>>, <<"available", m>>}
    OBVIOUS
  <2>3. events' = Append(events, e)
    BY <1>3
  <2> HIDE DEF e
  <2> QED
    BY <1>1, <1>3, <2>1, <2>2, <2>3, Announced
<1>4. CASE Matches(new) /\ Matches(old)
  <2>1. events' = Append(events, <<"changed", n>>) /\ state.link = "up" /\ <<"changed", n>> \in Event
    BY <1>2, <1>4 DEF Notify, Post, Event
  <2>2. ~WillBeLost(n, events, lost)
    BY <1>2, <1>4 DEF HandlerAgrees, LostAgrees, LostRight
  <2>3. ~WillBeLost(n, events', lost)
    <3> DEFINE e == <<"changed", n>>
    <3>1. e \notin {<<"lost", n>>, <<"available", n>>}
      OBVIOUS
    <3> HIDE DEF e
    <3> QED
      BY <1>0, <2>1, <2>2, <3>1, LostAppend DEF e
  <2> QED
    BY <1>3, <2>1, <2>3 DEF LostRight
<1>5. CASE Matches(new) /\ ~Matches(old)
  <2>1. events' = Append(events, <<"available", n>>) /\ state.link = "up" /\ <<"available", n>> \in Event
    BY <1>2, <1>5 DEF Notify, Post, Event
  <2>2. ~WillBeLost(n, events', lost)
    BY <1>0, <2>1, LostAppend
  <2> QED
    BY <1>3, <2>1, <2>2 DEF LostRight
<1>6. CASE ~Matches(new) /\ Matches(old)
  <2>1. events' = Append(events, <<"lost", n>>) /\ <<"lost", n>> \in Event
    BY <1>6 DEF Notify, Post, Event
  <2>2. WillBeLost(n, events', lost)
    BY <1>0, <2>1, LostAppend
  <2> QED
    BY <1>3, <1>6, <2>1, <2>2 DEF LostRight
<1>7. CASE ~Matches(new) /\ ~Matches(old)
  <2>1. events' = events
    BY <1>7 DEF Notify
  <2>2. ~SeenIn(net, n) /\ ~Matches(net'[n].caps)
    BY <1>1, <1>7 DEF SeenIn
  <2> QED
    BY <1>1, <2>1, <2>2, Silent
<1> QED
  BY <1>4, <1>5, <1>6, <1>7

\* Whatever the system does, what the handler has or will have read is right.
LEMMA SystemCurrent ==
    ASSUME ObserverInv, ObserverInv', GoneIsGone, HelperAgrees, SystemNext
    PROVE  GoneIsGone' /\ HelperAgrees' /\ UNCHANGED <<lost, pub, out, pipe, helper>>
<1>0. net \in [Network -> NetType] /\ events \in Seq(Event)
  BY DEF ObserverInv, ObserverTypeOK
<1>1. ASSUME UNCHANGED <<lost, pub, out, pipe, helper>>, helper # "alive" => events' = events,
             helper = "alive" => HandlerAgrees'
      PROVE  HelperAgrees'
  BY <1>1 DEF HelperAgrees
<1>2. ASSUME System PROVE UNCHANGED <<lost, pub, out, pipe, helper>>
  BY <1>2 DEF System
<1>3. ASSUME NEW n \in Network, Appear(n) \/ SetCaps(n) \/ SetDns(n) \/ Lose(n)
      PROVE  GoneIsGone' /\ HelperAgrees' /\ UNCHANGED <<lost, pub, out, pipe, helper>>
  <2>1. \E state, old, new :
            /\ net' = [net EXCEPT ![n] = state] /\ Notify(old, new, n)
            /\ \/ net[n].link = "up" /\ old = net[n].caps
               \/ net[n].link = "gone" /\ old = "none"
            /\ \/ state.link = "up" /\ new = state.caps
               \/ state.link = "leaving" /\ new = "none" /\ old = state.caps
    <3>0. net[n] \in NetType
      BY <1>0
    <3>1. CASE Appear(n)
      <4>1. PICK caps \in Caps, dns \in DnsLists[n] :
                /\ net' = [net EXCEPT ![n] = [link |-> "up", caps |-> caps, dns |-> dns]]
                /\ Notify("none", caps, n) /\ net[n].link = "gone"
        BY <3>1 DEF Appear
      <4> DEFINE state == [link |-> "up", caps |-> caps, dns |-> dns]
      <4>2. net' = [net EXCEPT ![n] = state] /\ state.link = "up" /\ state.caps = caps
        BY <4>1
      <4> HIDE DEF state
      <4> QED
        BY <4>1, <4>2
    <3>2. CASE SetCaps(n)
      <4>1. PICK caps \in Caps :
                /\ net' = [net EXCEPT ![n].caps = caps]
                /\ Notify(net[n].caps, caps, n) /\ net[n].link = "up"
        BY <3>2 DEF SetCaps
      <4> DEFINE state == [net[n] EXCEPT !.caps = caps]
      <4>2. net' = [net EXCEPT ![n] = state]
        BY <4>1
      <4>3. state.link = "up" /\ state.caps = caps
        BY <3>0, <4>1 DEF NetType
      <4> HIDE DEF state
      <4> QED
        BY <4>1, <4>2, <4>3
    <3>3. CASE SetDns(n)
      <4>1. PICK dns \in DnsLists[n] :
                /\ net' = [net EXCEPT ![n].dns = dns]
                /\ Notify(net[n].caps, net[n].caps, n) /\ net[n].link = "up"
        BY <3>3 DEF SetDns
      <4> DEFINE state == [net[n] EXCEPT !.dns = dns]
      <4>2. net' = [net EXCEPT ![n] = state]
        BY <4>1
      <4>3. state.link = "up" /\ state.caps = net[n].caps
        BY <3>0, <4>1 DEF NetType
      <4> HIDE DEF state
      <4> QED
        BY <4>1, <4>2, <4>3
    <3>4. CASE Lose(n)
      <4>1. /\ net' = [net EXCEPT ![n].link = "leaving"]
            /\ Notify(net[n].caps, "none", n) /\ net[n].link = "up"
        BY <3>4 DEF Lose
      <4> DEFINE state == [net[n] EXCEPT !.link = "leaving"]
      <4>2. net' = [net EXCEPT ![n] = state]
        BY <4>1
      <4>3. state.link = "leaving" /\ state.caps = net[n].caps
        BY <3>0, <4>1 DEF NetType
      <4> HIDE DEF state
      <4> QED
        BY <4>1, <4>2, <4>3
    <3> QED
      BY <1>3, <3>1, <3>2, <3>3, <3>4
  <2>2. PICK state, old, new :
            /\ net' = [net EXCEPT ![n] = state] /\ Notify(old, new, n)
            /\ \/ net[n].link = "up" /\ old = net[n].caps
               \/ net[n].link = "gone" /\ old = "none"
            /\ \/ state.link = "up" /\ new = state.caps
               \/ state.link = "leaving" /\ new = "none" /\ old = state.caps
    BY <2>1
  <2>3. UNCHANGED <<active, lost, pub, out, pipe, helper>>
    BY <1>2, <1>3 DEF Appear, SetCaps, SetDns, Lose
  <2>4. GoneIsGone'
    BY <1>0, <2>2 DEF GoneIsGone
  <2>5. helper = "alive" => HandlerAgrees'
    BY <2>2, <2>3, Notified DEF HelperAgrees
  <2>6. helper # "alive" => events' = events
    BY <2>2 DEF Notify, Post
  <2> QED
    BY <1>1, <2>3, <2>4, <2>5, <2>6
<1>4. ASSUME NEW n \in Network, Vanish(n)
      PROVE  GoneIsGone' /\ HelperAgrees' /\ UNCHANGED <<lost, pub, out, pipe, helper>>
  <2>1. /\ net' = [net EXCEPT ![n] = Gone] /\ net[n].link = "leaving"
        /\ UNCHANGED <<active, events, lost, pub, out, pipe, helper>>
    BY <1>4 DEF Vanish, observerVars
  <2>2. GoneIsGone'
    BY <1>0, <2>1 DEF GoneIsGone
  <2>3. \A m \in Network : net'[m] = net[m] \/ (~SeenIn(net, m) /\ ~Matches(net'[m].caps))
    BY <1>0, <2>1 DEF SeenIn, Gone, Matches
  <2>4. helper = "alive" => HandlerAgrees'
    BY <2>1, <2>3, Silent DEF HelperAgrees
  <2> QED
    BY <1>1, <2>1, <2>2, <2>4
<1>5. ASSUME NEW n \in Network \union {None}, SetActive(n)
      PROVE  GoneIsGone' /\ HelperAgrees' /\ UNCHANGED <<lost, pub, out, pipe, helper>>
  <2> DEFINE e == <<"changed", None>>
  <2>1. /\ net' = net /\ UNCHANGED <<lost, pub, out, pipe, helper>>
        /\ events' = IF helper = "alive" THEN Append(events, e) ELSE events
    BY <1>2, <1>5 DEF SetActive, Post
  <2>2. e \in Event /\ ~IsFirst(e) /\ \A m \in Network : e \notin {<<"lost", m>>, <<"available", m>>}
    BY DEF Event, IsFirst
  <2> HIDE DEF e
  <2>3. helper = "alive" => HandlerAgrees'
    BY <2>1, <2>2, Announced DEF HelperAgrees
  <2> QED
    BY <1>1, <2>1, <2>3 DEF GoneIsGone
<1> QED
  BY <1>3, <1>4, <1>5 DEF SystemNext

\* A callback moves its mark from the queue to lostNetworks and starts publish.
LEMMA CallbackCurrent ==
    ASSUME ObserverInv, HandlerAgrees, Callback
    PROVE  HandlerAgrees'
<1> DEFINE k == Head(events)[1]
           m == Head(events)[2]
<1>0. /\ events \in Seq(Event) /\ events # <<>> /\ Len(events) \in Nat \ {0}
      /\ pub \in PubType /\ pub.at = "idle" /\ pub = Idle
  BY DEF Callback, ObserverInv, ObserverTypeOK, PubType, HandlerAgrees, ReadSoFar
<1>1. /\ lost' = IF k = "available" THEN lost \ {m}
                 ELSE IF k = "lost" THEN lost \union {m} ELSE lost
      /\ pub' = [pub EXCEPT !.at = "active", !.initial = k = "initial"]
      /\ events' = Tail(events)
      /\ UNCHANGED <<systemVars, out, pipe, helper>>
  BY DEF Callback
<1>2. /\ Len(events') = Len(events) - 1 /\ events' \in Seq(Event)
      /\ \A i \in 1..Len(events') : i + 1 \in 1..Len(events) /\ i + 1 # 1 /\ events'[i] = events[i + 1]
      /\ Head(events) = events[1] /\ events[1] \in Event
  BY <1>0, <1>1
<1>3. Head(events) = <<k, m>>
  BY <1>2 DEF Event
<1>4. pub'.at = "active" /\ pub'.net = pub.net /\ pub'.half = pub.half
  BY <1>0, <1>1 DEF PubType
<1>5. pub'.initial <=> IsFirst(events[1])
  BY <1>0, <1>1, <1>2 DEF PubType, IsFirst
<1> HIDE DEF k, m
<1>6. LostAgrees'
  <2>1. ASSUME NEW n \in Network PROVE WillBeLost(n, events', lost') <=> WillBeLost(n, events, lost)
    BY <1>0, <1>1, <1>3, LostTail
  <2>2. net' = net
    BY <1>1 DEF systemVars
  <2> QED
    BY <2>1, <2>2 DEF HandlerAgrees, LostAgrees, LostRight
<1>7. ReadSoFar'
  BY <1>0, <1>4 DEF ReadSoFar, Idle
<1>8. PublishAgrees'
  BY <1>4 DEF PublishAgrees
<1>9. FirstAgrees'
  <2>0. out' = out /\ ~pub.initial
    BY <1>0, <1>1 DEF Idle
  <2>1. \A i \in 1..Len(events) : IsFirst(events[i]) => i = 1 /\ out.serve = "boot"
    BY DEF HandlerAgrees, FirstAgrees
  <2>2. \A i \in 1..Len(events') : ~IsFirst(events'[i])
    BY <1>2, <2>1
  <2>3. 1 \in 1..Len(events)
    BY <1>0
  <2>4. out.serve = "boot" => (out.snapshot = None \/ out.unsent) /\ IsFirst(events[1])
    BY <2>0 DEF HandlerAgrees, FirstAgrees
  <2> QED
    BY <1>5, <2>0, <2>1, <2>2, <2>3, <2>4 DEF FirstAgrees
<1> QED
  BY <1>6, <1>7, <1>8, <1>9 DEF HandlerAgrees

\* Between two callbacks only what publish reads changes.
LEMMA ReadKeeps ==
    ASSUME HandlerAgrees, UNCHANGED <<systemVars, events, out, helper>>,
           LostAgrees', ReadSoFar', pub'.at # "idle", pub'.initial = pub.initial,
           events = <<>> =>
               /\ pub'.at \in {"list", "read"} => pub'.active = active
               /\ pub'.at = "read" => ReadNow(pub', net)
    PROVE  HandlerAgrees'
<1>1. PublishAgrees'
  BY DEF PublishAgrees, systemVars
<1>2. FirstAgrees'
  BY DEF HandlerAgrees, FirstAgrees
<1> QED
  BY <1>1, <1>2 DEF HandlerAgrees

\* publish reads the default network, the list, and what each network is like.
LEMMA ReadCurrent ==
    ASSUME ObserverInv, GoneIsGone, HandlerAgrees,
           \/ ReadActive \/ ReadList
           \/ \E n \in Network : ReadCapabilities(n) \/ ReadProperties(n)
    PROVE  HandlerAgrees'
<1>0. /\ net \in [Network -> NetType] /\ lost \subseteq Network
      /\ pub \in PubType /\ pub.todo \subseteq Network /\ pub.net \in [Network -> NetType]
      /\ ~Matches("none")
  BY DEF ObserverInv, ObserverTypeOK, PubType, Matches
<1>1. LostAgrees /\ ReadSoFar /\ PublishAgrees
  BY DEF HandlerAgrees
<1>2. CASE ReadActive
  <2>1. /\ pub.at = "active" /\ pub' = [pub EXCEPT !.at = "list", !.active = active]
        /\ UNCHANGED <<systemVars, events, lost, out, helper>>
    BY <1>2 DEF ReadActive, Publish
  <2>2. /\ pub'.at = "list" /\ pub'.active = active /\ pub'.initial = pub.initial
        /\ pub'.net = pub.net /\ pub'.half = pub.half
    BY <1>0, <2>1 DEF PubType
  <2>3. LostAgrees' /\ ReadSoFar'
    BY <1>1, <2>1, <2>2 DEF LostAgrees, ReadSoFar, Idle, systemVars
  <2> QED
    BY <2>1, <2>2, <2>3, ReadKeeps
<1>3. CASE ReadList
  <2> DEFINE current == {n \in Network : net[n].link # "gone"}
  <2>1. /\ pub.at = "list" /\ pub' = [pub EXCEPT !.at = "read", !.todo = current \ lost]
        /\ lost' = lost \intersect current
        /\ UNCHANGED <<systemVars, events, out, helper>>
    BY <1>3 DEF ReadList, Publish
  <2>2. /\ pub'.at = "read" /\ pub'.todo = current \ lost /\ pub'.active = pub.active
        /\ pub'.initial = pub.initial /\ pub'.net = pub.net /\ pub'.half = pub.half
    BY <1>0, <2>1 DEF PubType
  <2>3. ASSUME NEW n \in Network, net[n].link # "gone"
        PROVE  WillBeLost(n, events, lost') <=> WillBeLost(n, events, lost)
    BY <2>1, <2>3 DEF WillBeLost
  <2>4. LostAgrees'
    BY <1>0, <1>1, <2>1, <2>3 DEF LostAgrees, LostRight, systemVars
  <2>5. ReadSoFar'
    BY <1>0, <1>1, <2>1, <2>2 DEF ReadSoFar
  <2>6. ASSUME events = <<>> PROVE pub'.active = active /\ ReadNow(pub', net)
    <3>1. \A n \in lost : ~SeenIn(net, n)
      <4> SUFFICES ASSUME NEW n \in lost, SeenIn(net, n) PROVE FALSE
        OBVIOUS
      <4>1. WillBeLost(n, events, lost)
        BY <2>6 DEF WillBeLost
      <4> QED
        BY <1>0, <1>1, <4>1 DEF LostAgrees, LostRight, SeenIn
    <3>2. \A n \in Network : n \notin pub'.todo => ~SeenIn(net, n)
      BY <2>2, <3>1 DEF SeenIn
    <3>3. \A n \in Network : n \notin pub'.todo \/ n = pub'.half => ~SeenIn(net, n)
      BY <1>1, <2>1, <2>2, <3>2, DnsAssumption DEF ReadSoFar, Idle
    <3>4. \A n \in Network : ~Matches(pub'.net[n].caps)
      BY <1>0, <1>1, <2>1, <2>2 DEF ReadSoFar, Idle, Gone
    <3>5. pub'.active = active
      BY <1>1, <2>1, <2>2, <2>6 DEF PublishAgrees
    <3> QED
      BY <3>2, <3>3, <3>4, <3>5 DEF ReadNow
  <2> QED
    BY <2>1, <2>2, <2>4, <2>5, <2>6, ReadKeeps
<1>4. ASSUME NEW n \in Network, ReadCapabilities(n) PROVE HandlerAgrees'
  <2>1. /\ pub.at = "read" /\ n \in pub.todo /\ pub.half = None
        /\ pub' = [pub EXCEPT !.half = n, !.net[n].caps = net[n].caps]
        /\ UNCHANGED <<systemVars, events, lost, out, helper>>
    BY <1>4 DEF ReadCapabilities, Publish
  <2>2. /\ pub'.at = "read" /\ pub'.todo = pub.todo /\ pub'.active = pub.active
        /\ pub'.initial = pub.initial /\ pub'.half = n
        /\ pub'.net = [pub.net EXCEPT ![n].caps = net[n].caps]
    BY <1>0, <2>1 DEF PubType
  <2>3. /\ pub'.net[n].caps = net[n].caps
        /\ \A o \in Network \ {n} : pub'.net[o] = pub.net[o]
    <3>1. pub.net[n] \in NetType
      BY <1>0
    <3> QED
      BY <1>0, <2>2, <3>1 DEF NetType
  <2>4. LostAgrees' /\ ReadSoFar'
    BY <1>1, <2>1, <2>2 DEF LostAgrees, ReadSoFar, systemVars
  <2>5. ASSUME events = <<>> PROVE pub'.active = active /\ ReadNow(pub', net)
    <3>1. n \notin lost
      BY <1>1, <2>1 DEF ReadSoFar
    <3>2. ~WillBeLost(n, events, lost)
      BY <2>5, <3>1 DEF WillBeLost
    <3>3. Matches(net[n].caps) <=> SeenIn(net, n)
      <4>1. net[n].link \in {"gone", "up", "leaving"}
        BY <1>0 DEF NetType
      <4>2. net[n].link = "leaving" => ~Matches(net[n].caps)
        BY <1>1, <3>2 DEF LostAgrees, LostRight
      <4>3. net[n].link = "gone" => ~Matches(net[n].caps)
        BY <1>0 DEF GoneIsGone, Gone
      <4> QED
        BY <4>1, <4>2, <4>3 DEF SeenIn
    <3>4. ReadNow(pub, net) /\ pub.active = active
      BY <1>1, <2>1, <2>5 DEF PublishAgrees
    <3>5. ReadNow(pub', net)
      BY <2>1, <2>2, <2>3, <3>3, <3>4 DEF ReadNow
    <3> QED
      BY <2>2, <3>4, <3>5
  <2> QED
    BY <2>1, <2>2, <2>4, <2>5, ReadKeeps
<1>5. ASSUME NEW n \in Network, ReadProperties(n) PROVE HandlerAgrees'
  <2>1. /\ pub.at = "read" /\ pub.half = n
        /\ pub' = [pub EXCEPT !.half = None, !.todo = pub.todo \ {n}, !.net[n].dns = net[n].dns]
        /\ UNCHANGED <<systemVars, events, lost, out, helper>>
    BY <1>5 DEF ReadProperties, Publish
  <2>2. /\ pub'.at = "read" /\ pub'.todo = pub.todo \ {n} /\ pub'.active = pub.active
        /\ pub'.initial = pub.initial /\ pub'.half = None
        /\ pub'.net = [pub.net EXCEPT ![n].dns = net[n].dns]
    BY <1>0, <2>1 DEF PubType
  <2>3. /\ pub'.net[n].dns = net[n].dns /\ pub'.net[n].caps = pub.net[n].caps
        /\ \A o \in Network \ {n} : pub'.net[o] = pub.net[o]
    <3>1. pub.net[n] \in NetType
      BY <1>0
    <3> QED
      BY <1>0, <2>2, <3>1 DEF NetType
  <2>4. LostAgrees' /\ ReadSoFar'
    BY <1>1, <2>1, <2>2 DEF LostAgrees, ReadSoFar, systemVars
  <2>5. ASSUME events = <<>> PROVE pub'.active = active /\ ReadNow(pub', net)
    <3>1. ReadNow(pub, net) /\ pub.active = active
      BY <1>1, <2>1, <2>5 DEF PublishAgrees
    <3>2. \A o \in Network : o # None
      BY DnsAssumption
    <3>3. ReadNow(pub', net)
      BY <2>1, <2>2, <2>3, <3>1, <3>2 DEF ReadNow
    <3> QED
      BY <2>2, <3>1, <3>3
  <2> QED
    BY <2>1, <2>2, <2>4, <2>5, ReadKeeps
<1> QED
  BY <1>2, <1>3, <1>4, <1>5

\* What publish read makes the frame to have, and a frame is dropped only if the
\* one before is on its way.
LEMMA ReplaceCurrent ==
    ASSUME ObserverInv, HandlerAgrees, Replace, Underway, UNCHANGED clientVars
    PROVE  HandlerAgrees' /\ Underway'
<1> DEFINE next == Servers(pub.net, pub.active)
<1>0. /\ net \in [Network -> NetType] /\ pub \in PubType /\ out \in OutType
      /\ pub.net \in [Network -> NetType]
  BY DEF ObserverInv, ObserverTypeOK, PubType, OutType
<1>1. /\ helper = "alive" /\ pub.at = "read" /\ pub.todo = {} /\ pub' = Idle
      /\ out' = [out EXCEPT !.snapshot = next,
                            !.unsent = out.unsent \/ out.snapshot # next,
                            !.serve = IF pub.initial THEN "wait" ELSE out.serve]
      /\ UNCHANGED <<systemVars, events, pipe, helper, lost>>
  BY DEF Replace, Publish
<1>2. next \in Frame /\ next # None
  BY <1>0, ServersGood, DnsAssumption DEF GoodFrame, Frame
<1>3. ASSUME events = <<>> PROVE next = Expected
  <2>1. ReadNow(pub, net) /\ pub.active = active
    BY <1>1, <1>3 DEF HandlerAgrees, PublishAgrees
  <2>2. Shown(net) \in [Network -> NetType]
    BY <1>0, TypeOfGone DEF Shown
  <2>3. ~Matches(Gone.caps)
    BY DEF Gone, Matches
  <2>4. ASSUME NEW n \in Network
        PROVE  /\ Matches(pub.net[n].caps) <=> Matches(Shown(net)[n].caps)
               /\ Matches(Shown(net)[n].caps) =>
                      pub.net[n].caps = Shown(net)[n].caps /\ pub.net[n].dns = Shown(net)[n].dns
    BY <1>1, <2>1, <2>3 DEF ReadNow, SeenIn, Shown
  <2>5. Servers(pub.net, active) = Servers(Shown(net), active)
    <3> HIDE DEF Shown
    <3> QED
      BY <1>0, <2>2, <2>4, ServersSame
  <2> QED
    BY <2>1, <2>5 DEF Expected, Shown
<1> HIDE DEF next
<1>4. /\ out'.snapshot = next
      /\ out'.unsent <=> (out.unsent \/ out.snapshot # next)
      /\ out'.serve = IF pub.initial THEN "wait" ELSE out.serve
      /\ out'.next = out.next
  BY <1>0, <1>1 DEF OutType
<1>5. FirstAgrees
  BY DEF HandlerAgrees
<1>6. LostAgrees' /\ ReadSoFar'
  BY <1>1 DEF HandlerAgrees, LostAgrees, ReadSoFar, systemVars, Idle
<1>7. PublishAgrees'
  <2>1. Expected' = Expected
    BY <1>1 DEF Expected, systemVars
  <2> QED
    BY <1>1, <1>3, <1>4, <2>1 DEF PublishAgrees, Idle
<1>8. FirstAgrees'
  <2>1. ~pub'.initial /\ events' = events
    BY <1>1 DEF Idle
  <2>2. ASSUME NEW i \in 1..Len(events), IsFirst(events[i])
        PROVE  i = 1 /\ out'.serve = "boot"
    BY <1>4, <1>5, <2>2 DEF FirstAgrees
  <2>3. ASSUME out'.serve = "boot"
        PROVE  out'.unsent /\ Len(events) > 0 /\ IsFirst(events[1])
    <3>1. ~pub.initial /\ out.serve = "boot"
      BY <1>4, <2>3
    <3> QED
      BY <1>2, <1>4, <1>5, <3>1 DEF FirstAgrees
  <2> QED
    BY <2>1, <2>2, <2>3 DEF FirstAgrees
<1>9. Underway'
  <2>0. SUFFICES ASSUME ~out'.unsent PROVE Underway'
    BY DEF Underway
  <2>1. ~out.unsent /\ out.snapshot = next
    BY <1>4, <2>0
  <2>2. ~pub.initial
    BY <1>2, <1>5, <2>1 DEF FirstAgrees
  <2>3. out'.serve = out.serve /\ out'.snapshot = out.snapshot /\ out'.next = out.next
    BY <1>4, <2>1, <2>2
  <2> QED
    BY <1>1, <1>2, <2>1, <2>3 DEF Underway, clientVars
<1> QED
  BY <1>6, <1>7, <1>8, <1>9 DEF HandlerAgrees

\* The handler thread, whatever it does.
LEMMA HandlerCurrent ==
    ASSUME ObserverInv, GoneIsGone, HelperAgrees, Underway, Handler, UNCHANGED clientVars
    PROVE  GoneIsGone' /\ HelperAgrees' /\ Underway' /\ UNCHANGED <<pipe, helper>>
<1>1. helper = "alive" /\ UNCHANGED <<systemVars, pipe, helper>>
  BY DEF Handler, Callback, ReadActive, ReadList, Replace, ReadCapabilities, ReadProperties, Publish
<1>2. Replace \/ out' = out
  BY DEF Handler, Callback, ReadActive, ReadList, ReadCapabilities, ReadProperties
<1>3. HandlerAgrees
  BY <1>1 DEF HelperAgrees
<1>4. HandlerAgrees'
  BY <1>3, CallbackCurrent, ReadCurrent, ReplaceCurrent DEF Handler
<1>5. Underway'
  <2>1. CASE out' = out
    BY <1>1, <2>1 DEF Underway, clientVars
  <2> QED
    BY <1>2, <1>3, <2>1, ReplaceCurrent
<1> QED
  BY <1>1, <1>4, <1>5 DEF HelperAgrees, GoneIsGone, systemVars

\* Register, and serve's two steps.
LEMMA ServeCurrent ==
    ASSUME ObserverInv, GoneIsGone, HelperAgrees, Underway,
           Register \/ ServeTake \/ ServeWrite, UNCHANGED clientVars
    PROVE  GoneIsGone' /\ HelperAgrees' /\ Underway'
<1>0. /\ net \in [Network -> NetType] /\ out \in OutType /\ pipe \in Seq(Frame)
      /\ Len(pipe) \in Nat /\ pub \in PubType
  BY DEF ObserverInv, ObserverTypeOK, PubType, OutType
<1>1. UNCHANGED systemVars
  BY DEF Register, ServeTake, ServeWrite, Serve
<1>2. GoneIsGone'
  BY <1>1 DEF GoneIsGone, systemVars
<1>3. CASE Register
  <2> DEFINE e == <<"initial", None>>
  <2>1. /\ helper' = "alive" /\ helper = "boot" /\ UNCHANGED <<lost, pub, out, pipe>>
        /\ events' = Append(events, e)
        /\ \A n \in Network : net[n].link # "leaving"
    BY <1>3 DEF Register
  <2>2. events = <<>> /\ lost = {} /\ pub = Idle /\ out = NoOutput
    BY <2>1 DEF HelperAgrees
  <2>3. Len(events') = 1 /\ events'[1] = e /\ events' # <<>>
    BY <2>1, <2>2
  <2>4. e \notin {"available", "lost"} \X Network /\ IsFirst(e)
    BY DEF IsFirst
  <2>5. LostAgrees'
    <3>1. ASSUME NEW n \in Network PROVE ~WillBeLost(n, events', lost')
      <4>1. events'[1] # <<"lost", n>>
        BY <2>3
      <4> QED
        BY <2>1, <2>2, <2>3, <4>1 DEF WillBeLost
    <3> QED
      BY <1>1, <2>1, <3>1 DEF LostAgrees, LostRight, systemVars
  <2> HIDE DEF e
  <2>6. ReadSoFar'
    BY <2>1, <2>2 DEF ReadSoFar, Idle
  <2>7. PublishAgrees'
    BY <2>3 DEF PublishAgrees
  <2>8. FirstAgrees'
    <3>1. out'.serve = "boot" /\ out'.snapshot = None /\ ~pub'.initial
      BY <2>1, <2>2 DEF NoOutput, Idle
    <3>2. \A i \in 1..Len(events') : i = 1
      BY <2>3
    <3> QED
      BY <2>3, <2>4, <3>1, <3>2 DEF FirstAgrees
  <2>9. Underway'
    BY <2>1, <2>2 DEF Underway, NoOutput
  <2> QED
    BY <1>2, <2>1, <2>5, <2>6, <2>7, <2>8, <2>9 DEF HelperAgrees, HandlerAgrees
<1>4. CASE ServeTake
  <2>1. /\ helper = "alive" /\ out.serve = "wait" /\ out.unsent
        /\ out' = [out EXCEPT !.unsent = FALSE, !.serve = "write", !.next = out.snapshot]
        /\ UNCHANGED <<systemVars, events, lost, pub, helper, pipe>>
    BY <1>4 DEF ServeTake, Serve
  <2>2. /\ out'.snapshot = out.snapshot /\ out'.serve = "write" /\ ~out'.unsent
        /\ out'.next = out.snapshot
    BY <1>0, <2>1 DEF OutType
  <2>3. HandlerAgrees
    BY <2>1 DEF HelperAgrees
  <2>4. LostAgrees' /\ ReadSoFar'
    BY <2>1, <2>3 DEF HandlerAgrees, LostAgrees, ReadSoFar, systemVars
  <2>5. PublishAgrees'
    <3>1. Expected' = Expected
      BY <2>1 DEF Expected, systemVars
    <3> QED
      BY <2>1, <2>2, <2>3, <3>1 DEF HandlerAgrees, PublishAgrees, ReadNow, systemVars
  <2>6. FirstAgrees'
    BY <2>1, <2>2, <2>3 DEF HandlerAgrees, FirstAgrees
  <2>7. Underway'
    BY <2>2 DEF Underway
  <2> QED
    BY <1>2, <2>1, <2>4, <2>5, <2>6, <2>7 DEF HelperAgrees, HandlerAgrees
<1>5. CASE ServeWrite
  <2>1. /\ helper = "alive" /\ out.serve = "write"
        /\ pipe' = Append(pipe, out.next)
        /\ out' = [out EXCEPT !.serve = "wait", !.next = <<>>]
        /\ UNCHANGED <<systemVars, events, lost, pub, helper>>
    BY <1>5 DEF ServeWrite, Serve
  <2>2. /\ out'.snapshot = out.snapshot /\ out'.serve = "wait" /\ out'.unsent = out.unsent
    BY <1>0, <2>1 DEF OutType
  <2>3. HandlerAgrees
    BY <2>1 DEF HelperAgrees
  <2>4. LostAgrees' /\ ReadSoFar'
    BY <2>1, <2>3 DEF HandlerAgrees, LostAgrees, ReadSoFar, systemVars
  <2>5. PublishAgrees'
    <3>1. Expected' = Expected
      BY <2>1 DEF Expected, systemVars
    <3> QED
      BY <2>1, <2>2, <2>3, <3>1 DEF HandlerAgrees, PublishAgrees, ReadNow, systemVars
  <2>6. FirstAgrees'
    BY <2>1, <2>2, <2>3 DEF HandlerAgrees, FirstAgrees
  <2>7. Underway'
    <3>1. out.next \in Frame
      BY <1>0 DEF OutType
    <3>2. Len(pipe') > 0 /\ pipe'[Len(pipe')] = out.next
      BY <1>0, <2>1, <3>1
    <3> QED
      BY <2>1, <2>2, <3>2 DEF Underway
  <2> QED
    BY <1>2, <2>1, <2>4, <2>5, <2>6, <2>7 DEF HelperAgrees, HandlerAgrees
<1> QED
  BY <1>3, <1>4, <1>5

\* The core takes the oldest frame; the last one is the one that stays.
LEMMA FrameTaken ==
    ASSUME ObserverInv, HelperAgrees, GoneIsGone, Underway, pipe # <<>>,
           pipe' = Tail(pipe), managed' = Head(pipe), core' # "first",
           UNCHANGED <<systemVars, events, lost, pub, out, helper>>
    PROVE  HelperAgrees' /\ GoneIsGone' /\ Underway'
<1>1. /\ pipe \in Seq(Frame) /\ Len(pipe) \in Nat /\ Len(pipe) > 0 /\ Head(pipe) = pipe[1]
      /\ Len(pipe') = Len(pipe) - 1 /\ \A i \in 1..Len(pipe') : pipe'[i] = pipe[i + 1]
  BY DEF ObserverInv, ObserverTypeOK
<1>2. HelperAgrees' /\ GoneIsGone'
  <2>1. Expected' = Expected
    BY DEF Expected, systemVars
  <2>2. HandlerAgrees => HandlerAgrees'
    BY <2>1 DEF HandlerAgrees, LostAgrees, ReadSoFar, PublishAgrees, FirstAgrees, ReadNow, systemVars
  <2> QED
    BY <2>2 DEF HelperAgrees, GoneIsGone, systemVars
<1>3. Underway'
  <2>1. CASE Len(pipe) = 1
    BY <1>1, <2>1 DEF Underway
  <2>2. CASE Len(pipe) # 1
    <3>1. Len(pipe') > 0 /\ Len(pipe') \in 1..Len(pipe') /\ Len(pipe') + 1 = Len(pipe)
      BY <1>1, <2>2
    <3>2. pipe'[Len(pipe')] = pipe[Len(pipe)]
      BY <1>1, <3>1
    <3> QED
      BY <1>1, <3>1, <3>2 DEF Underway
  <2> QED
    BY <2>1, <2>2
<1> QED
  BY <1>2, <1>3

\* A helper that ends promises nothing.
LEMMA HelperEnds ==
    ASSUME GoneIsGone, NEW to \in {"crashed", "ended"}, Helper(to)
    PROVE  HelperAgrees' /\ GoneIsGone' /\ Underway' /\ pipe' = pipe
BY DEF Helper, HelperAgrees, GoneIsGone, Underway, systemVars

LEMMA CurrentInit == Init => CurrentInv
<1> SUFFICES ASSUME Init PROVE CurrentInv
  OBVIOUS
<1>1. /\ net \in InitNets /\ events = <<>> /\ lost = {} /\ pub = Idle /\ out = NoOutput
      /\ pipe = <<>> /\ helper = "none"
  BY DEF Init, ObserverInit
<1>2. GoneIsGone
  BY <1>1, DnsAssumption DEF GoneIsGone
<1> QED
  BY <1>1, <1>2 DEF CurrentInv, HelperAgrees, Underway

LEMMA CurrentNext ==
    ASSUME DnsInv, DnsInv', CurrentInv, [Next]_vars
    PROVE  CurrentInv'
<1>0. /\ ObserverInv /\ ObserverInv' /\ AlarmAgrees /\ ClientTypeOK
      /\ GoneIsGone /\ HelperAgrees /\ Underway
      /\ core = "idle" => Len(pipe) = 0 /\ helper = "none"
  BY DEF DnsInv, ObserverInv, TypeOK, ClientTypeOK, CurrentInv
<1>1. ASSUME GoneIsGone', HelperAgrees', Underway', core' = "idle" => Len(pipe') = 0 /\ helper' = "none"
      PROVE  CurrentInv'
  BY <1>1 DEF CurrentInv
\* What a step of the core that takes no frame may change.
<1>2. ASSUME UNCHANGED <<systemVars, observerVars>>,
             core' = "first" => core = "first",
             core' = "up" /\ reader' = "read" => core = "up" /\ reader = "read" /\ managed' = managed
      PROVE  GoneIsGone' /\ HelperAgrees' /\ Underway'
  <2>1. Expected' = Expected
    BY <1>2 DEF Expected, systemVars
  <2>2. HandlerAgrees => HandlerAgrees'
    BY <1>2, <2>1
    DEF HandlerAgrees, LostAgrees, ReadSoFar, PublishAgrees, FirstAgrees, ReadNow, systemVars, observerVars
  <2>3. GoneIsGone' /\ HelperAgrees'
    BY <1>0, <1>2, <2>2 DEF HelperAgrees, GoneIsGone, systemVars, observerVars
  <2>4. Underway'
    BY <1>0, <1>2 DEF Underway, observerVars
  <2> QED
    BY <2>3, <2>4
<1>3. CASE Observer
  <2>1. UNCHANGED clientVars /\ (SystemNext \/ Handler \/ Register \/ ServeTake \/ ServeWrite)
    BY <1>3 DEF Observer, ObserverNext
  <2>2. CASE SystemNext
    <3>1. GoneIsGone' /\ HelperAgrees' /\ UNCHANGED <<lost, pub, out, pipe, helper>>
      BY <1>0, <2>2, SystemCurrent
    <3>2. Underway'
      BY <1>0, <2>1, <3>1 DEF Underway, clientVars
    <3> QED
      BY <1>0, <1>1, <2>1, <3>1, <3>2 DEF clientVars
  <2>3. CASE Handler
    BY <1>0, <1>1, <2>1, <2>3, HandlerCurrent DEF clientVars
  <2>4. CASE Register \/ ServeTake \/ ServeWrite
    <3>1. helper \in {"boot", "alive"}
      BY <2>4 DEF Register, ServeTake, ServeWrite, Serve
    <3>2. core' # "idle"
      BY <1>0, <2>1, <3>1 DEF clientVars
    <3> QED
      BY <1>0, <1>1, <2>1, <2>4, <3>2, ServeCurrent
  <2> QED
    BY <2>1, <2>2, <2>3, <2>4
<1>4. CASE Start
  <2>1. /\ core = "idle" /\ helper = "none" /\ Len(pipe) = 0
        /\ UNCHANGED <<systemVars, events, lost, pub, out, pipe>>
        /\ core' \in {"first", "exited"} /\ helper' \in {"none", "boot"}
    BY <1>0, <1>4 DEF Start, MoveCore, observerVars
  <2>2. GoneIsGone' /\ HelperAgrees' /\ Underway'
    BY <1>0, <2>1 DEF GoneIsGone, HelperAgrees, Underway, systemVars
  <2> QED
    BY <1>1, <2>1, <2>2
<1>5. CASE FirstSnapshot \/ ReadFrame
  <2>1. /\ pipe # <<>> /\ pipe' = Tail(pipe) /\ managed' = Head(pipe)
        /\ core' \notin {"first", "idle"}
        /\ UNCHANGED <<systemVars, events, lost, pub, out, helper>>
    BY <1>0, <1>5 DEF FirstSnapshot, ReadFrame, Reader, MoveCore, FrameCame, SetManagedServers, AlarmAgrees
  <2> QED
    BY <1>0, <1>1, <2>1, FrameTaken
<1>6. CASE FirstError \/ Stop \/ CloseConnection \/ StopWait \/ CoreDies
  <2>1. UNCHANGED <<systemVars, observerVars>> /\ core' \in {"close", "wait", "exited", "stopped"}
    BY <1>6 DEF FirstError, Stop, CloseConnection, StopWait, CoreDies, MoveCore, Returned
  <2> QED
    BY <1>1, <1>2, <2>1
<1>7. CASE ReadError \/ LookAtStopping \/ ReaderFails
  <2>1. UNCHANGED <<systemVars, observerVars, core>> /\ reader' # "read" /\ reader # "none"
    BY <1>7 DEF ReadError, LookAtStopping, ReaderFails, Reader, observerVars
  <2>2. core' # "idle"
    BY <1>0, <2>1 DEF AlarmAgrees
  <2> QED
    BY <1>1, <1>2, <2>1, <2>2
<1>8. CASE KillHelper \/ HelperCrashes \/ HelperEof \/ Pdeathsig
  <2>1. PICK to \in {"crashed", "ended"} : Helper(to) /\ UNCHANGED clientVars
    BY <1>8 DEF KillHelper, HelperCrashes, HelperEof, Pdeathsig
  <2>2. core' # "idle"
    BY <1>0, <2>1 DEF Helper, clientVars
  <2> QED
    BY <1>0, <1>1, <2>1, <2>2, HelperEnds
<1>9. CASE UNCHANGED vars
  BY <1>0, <1>1, <1>2, <1>9 DEF vars, clientVars, observerVars
<1> QED
  BY <1>3, <1>4, <1>5, <1>6, <1>7, <1>8, <1>9 DEF Next

(***************************************************************************)
(* SystemDnsHelper.java: lostNetworks with the callbacks that still wait,  *)
(* what publish has read, the snapshot and the frame in serve's hands      *)
(* never part: with no callback left, all of it is of the networks as they *)
(* are now, and the newest snapshot is not lost on its way to the core.    *)
(***************************************************************************)
THEOREM CurrentInvariant == Spec => []CurrentInv
<1>1. Init => CurrentInv
  BY CurrentInit
<1>2. DnsInv /\ DnsInv' /\ CurrentInv /\ [Next]_vars => CurrentInv'
  BY CurrentNext
<1> QED
  BY <1>1, <1>2, DnsInvariant, PTL DEF Spec

(***************************************************************************)
(* client_android.go: once neither the helper's threads nor the core's     *)
(* reader have anything to do, SetManagedServers was last given the        *)
(* servers of the networks that are there, whatever changed meanwhile and  *)
(* however many calls of publish it tore apart.                            *)
(***************************************************************************)
THEOREM CurrentAtRestAlways == Spec => []CurrentAtRest
<1>1. DnsInv /\ CurrentInv => CurrentAtRest
  <2> SUFFICES ASSUME DnsInv, CurrentInv, AtRest, core = "up", reader = "read"
               PROVE  managed = Expected
    BY DEF CurrentAtRest
  <2>1. HandlerAgrees /\ Underway /\ pub.at = "idle" /\ pub = Idle
    BY DEF CurrentInv, HelperAgrees, AtRest, HandlerAgrees, ReadSoFar
  <2>2. out.serve # "boot"
    BY <2>1 DEF AtRest, HandlerAgrees, FirstAgrees, Idle
  <2>3. out.serve = "wait" /\ ~out.unsent
    BY <2>2 DEF AtRest, DnsInv, TypeOK, ObserverTypeOK
  <2>4. out.snapshot = Expected
    BY <2>1 DEF AtRest, HandlerAgrees, PublishAgrees
  <2>5. out.snapshot # None
    <3>1. Shown(net) \in [Network -> NetType]
      BY TypeOfGone DEF Shown, DnsInv, TypeOK, ObserverTypeOK
    <3>2. Expected = Servers(Shown(net), active)
      BY DEF Expected, Shown
    <3>3. Expected \in Frame
      <4> HIDE DEF Shown
      <4> QED
        BY <3>1, <3>2, ServersGood DEF GoodFrame
    <3> QED
      BY <2>4, <3>3, DnsAssumption DEF Frame
  <2> QED
    BY <2>1, <2>3, <2>4, <2>5 DEF AtRest, Underway
<1> QED
  BY <1>1, DnsInvariant, CurrentInvariant, PTL

-----------------------------------------------------------------------------
(* The helper's file, for any number of cores, versions and files left by  *)
(* others.                                                                 *)
(*                                                                         *)
(* PathComplete is not inductive: a file that is complete at the path must *)
(* stay so when power is lost, and so must the one the disk has there,     *)
(* which another core may have renamed long ago.  Both were renamed by a   *)
(* core that is through with them (Installed), after every step before the *)
(* rename had its effect (Prepared).                                       *)

Complete(f) == file[f].content = Payload[f] /\ file[f].private /\ file[f].synced

\* What the steps of installing have settled.
Prepared ==
    \A c \in Core :
        /\ file[c].owned
        /\ run[c].at \in {"chmod", "sync"} => file[c].content = Payload[c]
        /\ run[c].at = "sync" => file[c].private
        /\ run[c].at = "rename" => Complete(c)

Installed ==
    \A f \in {path, disk.path} :
        f \in Core => Complete(f) /\ run[f].at \in {"remove"} \union Ended

\* Whose temporaries are in the directory, now or after a power loss.
TempsAgree ==
    /\ \A c \in temps : run[c].at \in {"write", "chmod", "sync", "rename", "remove", "dead"}
    /\ \A c \in disk.temps : run[c].at # "idle"

FileInv == FileTypeOK /\ Prepared /\ Installed /\ TempsAgree

-----------------------------------------------------------------------------

RunType == [at: {"idle", "match", "mode", "glob", "sweep", "create", "write",
                 "chmod", "sync", "rename", "remove"} \union Ended,
            names: SUBSET Core, found: PathType, ok: BOOLEAN]

LEMMA AtType ==
    ASSUME NEW place \in {"idle", "match", "mode", "glob", "sweep", "create", "write",
                          "chmod", "sync", "rename", "remove"} \union Ended
    PROVE  At(place) \in RunType /\ At(place).at = place /\ At(place).ok = FALSE
BY DEF At, RunType, PathType

\* A step of one core that touches no file and no name in the directory, and is
\* none of those that Prepared speaks of.
LEMMA Moved ==
    ASSUME FileInv, NEW c \in Core, NEW r \in RunType,
           run' = [run EXCEPT ![c] = r],
           r.at \notin {"idle", "chmod", "sync", "rename"},
           c \in {path, disk.path} => r.at \in {"remove"} \union Ended,
           c \in temps => r.at \in {"write", "remove", "dead"},
           UNCHANGED <<file, path, temps, stale, disk>>
    PROVE  FileInv'
<1>1. FileTypeOK'
  BY DEF FileInv, FileTypeOK, RunType
<1>2. run'[c] = r /\ \A d \in Core : d # c => run'[d] = run[d]
  BY DEF FileInv, FileTypeOK
<1>3. Prepared'
  BY <1>2 DEF FileInv, Prepared, Complete
<1>4. Installed'
  BY <1>2 DEF FileInv, Installed, Complete
<1>5. TempsAgree'
  BY <1>2 DEF FileInv, FileTypeOK, TempsAgree
<1> QED
  BY <1>1, <1>3, <1>4, <1>5 DEF FileInv

\* Where a core is that has no file at the path yet.
LEMMA NotYetInstalled ==
    ASSUME FileInv, NEW c \in Core, run[c].at \notin {"remove"} \union Ended
    PROVE  c \notin {path, disk.path}
BY DEF FileInv, Installed

LEMMA NoTempYet ==
    ASSUME FileInv, NEW c \in Core,
           run[c].at \in {"idle", "match", "mode", "glob", "sweep", "create"}
    PROVE  c \notin temps
BY DEF FileInv, TempsAgree

LEMMA StepError ==
    ASSUME FileInv, NEW c \in Core,
           NEW from \in {"write", "chmod", "sync", "rename"}, Error(c, from)
    PROVE  FileInv'
<1>1. At("remove") \in RunType /\ At("remove").at = "remove"
  BY AtType
<1> QED
  BY <1>1, Moved DEF Error, Step

LEMMA StepBegin ==
    ASSUME FileInv, NEW c \in Core, Begin(c)
    PROVE  FileInv'
<1>1. c \notin {path, disk.path} /\ c \notin temps
  BY NotYetInstalled, NoTempYet DEF Begin, Step, Ended
<1>2. PICK place \in {"match", "failed"} : run' = [run EXCEPT ![c] = At(place)]
  BY DEF Begin, Step
<1>3. At(place) \in RunType /\ At(place).at = place
  BY AtType DEF Ended
<1>4. UNCHANGED <<file, path, temps, stale, disk>>
  BY DEF Begin
<1> QED
  BY <1>1, <1>2, <1>3, <1>4, Moved

LEMMA StepMatch ==
    ASSUME FileInv, NEW c \in Core, Match(c)
    PROVE  FileInv'
<1>1. run[c].at = "match" /\ UNCHANGED <<file, path, temps, stale, disk>>
  BY DEF Match, Step
<1>2. c \notin {path, disk.path} /\ c \notin temps
  BY <1>1, NotYetInstalled, NoTempYet DEF Ended
<1>3. PICK r \in RunType : run' = [run EXCEPT ![c] = r] /\ r.at \in {"failed", "glob", "mode", "done"}
  <2>1. CASE Step(c, "match", "failed") \/ Step(c, "match", "glob")
    BY <2>1, AtType DEF Step, Ended
  <2>2. CASE path \in Core \union {Old}
    <3> DEFINE next == IF ~SamePayload(path, c) THEN "glob"
                       ELSE IF file[path].private THEN "done" ELSE "mode"
               r == [At(next) EXCEPT !.found = IF next = "mode" THEN path ELSE Absent]
    <3>1. run' = [run EXCEPT ![c] = r] \/ Step(c, "match", "failed") \/ Step(c, "match", "glob")
      BY DEF Match
    <3>2. next \in {"glob", "done", "mode"}
      OBVIOUS
    <3>3. At(next) \in RunType /\ At(next).at = next
      BY <3>2, AtType DEF Ended
    <3>4. r \in RunType /\ r.at = next
      BY <3>3, <2>2 DEF RunType, PathType
    <3> QED
      BY <2>1, <3>1, <3>2, <3>4
  <2> QED
    BY <2>1, <2>2 DEF Match
<1> QED
  BY <1>1, <1>2, <1>3, Moved DEF Ended

LEMMA StepFixMode ==
    ASSUME FileInv, NEW c \in Core, FixMode(c)
    PROVE  FileInv'
<1>1. run[c].at = "mode" /\ UNCHANGED <<path, temps, stale, disk>>
  BY DEF FixMode, Step
<1>2. c \notin {path, disk.path} /\ c \notin temps
  BY <1>1, NotYetInstalled, NoTempYet DEF Ended
<1>3. PICK place \in {"done", "failed"} : run' = [run EXCEPT ![c] = At(place)]
  BY DEF FixMode, Step
<1>4. At(place) \in RunType /\ At(place).at = place
  BY AtType DEF Ended
<1>5. CASE UNCHANGED file
  BY <1>1, <1>2, <1>3, <1>4, <1>5, Moved DEF Ended
<1>6. CASE file' = [file EXCEPT ![run[c].found].private = TRUE]
  <2>1. \A f \in Core \union {Old} :
            /\ file'[f] \in FileType
            /\ file'[f].content = file[f].content /\ file'[f].owned = file[f].owned
            /\ file'[f].synced = file[f].synced /\ (file[f].private => file'[f].private)
    <3> SUFFICES ASSUME NEW f \in Core \union {Old}
                 PROVE  /\ file'[f] \in FileType
                        /\ file'[f].content = file[f].content /\ file'[f].owned = file[f].owned
                        /\ file'[f].synced = file[f].synced
                        /\ file[f].private => file'[f].private
      OBVIOUS
    <3>1. file[f] \in FileType
      BY DEF FileInv, FileTypeOK
    <3>2. file'[f] = file[f] \/ file'[f] = [file[f] EXCEPT !.private = TRUE]
      BY <1>6 DEF FileInv, FileTypeOK
    <3> QED
      BY <3>1, <3>2 DEF FileType
  <2>2. file' \in [Core \union {Old} -> FileType]
    BY <1>6, <2>1 DEF FileInv, FileTypeOK
  <2>3. run' \in [Core -> RunType] /\ run'[c] = At(place)
        /\ \A d \in Core : d # c => run'[d] = run[d]
    BY <1>3, <1>4 DEF FileInv, FileTypeOK, RunType
  <2>4. FileTypeOK'
    BY <1>1, <2>2, <2>3 DEF FileInv, FileTypeOK, RunType
  <2>5. Prepared'
    BY <1>4, <2>1, <2>3 DEF FileInv, Prepared, Complete
  <2>6. Installed'
    BY <1>1, <1>2, <2>1, <2>3 DEF FileInv, Installed, Complete
  <2>7. TempsAgree'
    BY <1>1, <1>2, <1>4, <2>3 DEF FileInv, FileTypeOK, TempsAgree
  <2> QED
    BY <2>4, <2>5, <2>6, <2>7 DEF FileInv
<1> QED
  BY <1>5, <1>6 DEF FixMode

LEMMA StepGlob ==
    ASSUME FileInv, NEW c \in Core, Glob(c)
    PROVE  FileInv'
<1> DEFINE r == [run[c] EXCEPT !.at = "sweep", !.names = temps]
<1>1. c \notin {path, disk.path} /\ c \notin temps
  BY NotYetInstalled, NoTempYet DEF Glob, Ended
<1>2. r \in RunType /\ r.at = "sweep"
  <2>1. run[c] \in RunType /\ temps \in SUBSET Core
    BY DEF FileInv, FileTypeOK, RunType
  <2> QED
    BY <2>1 DEF RunType
<1>3. run' = [run EXCEPT ![c] = r] /\ UNCHANGED <<file, path, temps, stale, disk>>
  BY DEF Glob
<1> QED
  BY <1>1, <1>2, <1>3, Moved

LEMMA StepSweep ==
    ASSUME FileInv, NEW c \in Core, NEW t \in Core, Sweep(c, t)
    PROVE  FileInv'
<1>1. /\ run' = [run EXCEPT ![c].names = @ \ {t}]
      /\ temps' \subseteq temps /\ temps' = (IF t \in stale THEN temps \ {t} ELSE temps)
      /\ stale' = stale \ {t} /\ UNCHANGED <<file, path, disk>>
  BY DEF Sweep
<1>2. \A d \in Core : run'[d].at = run[d].at
  BY <1>1 DEF FileInv, FileTypeOK
<1>3. FileTypeOK'
  BY <1>1 DEF FileInv, FileTypeOK
<1>4. Prepared' /\ Installed' /\ TempsAgree'
  BY <1>1, <1>2 DEF FileInv, FileTypeOK, Prepared, Installed, TempsAgree, Complete
<1> QED
  BY <1>3, <1>4 DEF FileInv

LEMMA StepSwept ==
    ASSUME FileInv, NEW c \in Core, Swept(c)
    PROVE  FileInv'
<1>1. c \notin {path, disk.path} /\ c \notin temps
  BY NotYetInstalled, NoTempYet DEF Swept, Step, Ended
<1>2. At("create") \in RunType /\ At("create").at = "create"
  BY AtType
<1> QED
  BY <1>1, <1>2, Moved DEF Swept, Step

\* A step of one core that changes at most its own file and temporary, before
\* it renames it.
LEMMA Installing ==
    ASSUME FileInv, NEW c \in Core, NEW r \in RunType, NEW new \in FileType,
           run[c].at \in {"create", "write", "chmod", "sync"},
           run' = [run EXCEPT ![c] = r], file' = [file EXCEPT ![c] = new],
           r.at \in {"write", "chmod", "sync", "rename"},
           new.owned,
           r.at \in {"chmod", "sync", "rename"} => new.content = Payload[c],
           r.at \in {"sync", "rename"} => new.private,
           r.at = "rename" => new.synced,
           temps' \in {temps, temps \union {c}}, stale' \in {stale, stale \ {c}},
           UNCHANGED <<path, disk>>
    PROVE  FileInv'
<1>1. c \notin {path, disk.path}
  BY NotYetInstalled DEF Ended
<1>2. run'[c] = r /\ \A d \in Core : d # c => run'[d] = run[d]
  BY DEF FileInv, FileTypeOK
<1>3. file'[c] = new /\ \A f \in Core \union {Old} : f # c => file'[f] = file[f]
  BY DEF FileInv, FileTypeOK
<1>4. FileTypeOK'
  BY DEF FileInv, FileTypeOK, RunType
<1>5. Prepared'
  BY <1>2, <1>3 DEF FileInv, Prepared, Complete
<1>6. Installed'
  BY <1>1, <1>2, <1>3 DEF FileInv, Installed, Complete
<1>7. TempsAgree'
  BY <1>2 DEF FileInv, FileTypeOK, TempsAgree
<1> QED
  BY <1>4, <1>5, <1>6, <1>7 DEF FileInv

LEMMA StepCreateTemp ==
    ASSUME FileInv, NEW c \in Core, CreateTemp(c)
    PROVE  FileInv'
<1>1. run[c].at = "create" /\ UNCHANGED <<file, path, stale, disk>>
  BY DEF CreateTemp, Step
<1>2. CASE Step(c, "create", "write") /\ temps' = temps \union {c}
  <2>1. At("write") \in RunType /\ At("write").at = "write"
    BY AtType
  <2>2. file' = [file EXCEPT ![c] = file[c]] /\ file[c] \in FileType /\ file[c].owned
    BY <1>1 DEF FileInv, FileTypeOK, Prepared
  <2> QED
    BY <1>1, <1>2, <2>1, <2>2, Installing DEF Step
<1>3. CASE Step(c, "create", "failed") /\ UNCHANGED temps
  <2>1. At("failed") \in RunType /\ At("failed").at = "failed"
    BY AtType DEF Ended
  <2>2. c \notin {path, disk.path} /\ c \notin temps
    BY <1>1, NotYetInstalled, NoTempYet DEF Ended
  <2> QED
    BY <1>1, <1>3, <2>1, <2>2, Moved DEF Step
<1> QED
  BY <1>2, <1>3 DEF CreateTemp

LEMMA StepWrite ==
    ASSUME FileInv, NEW c \in Core, Write(c)
    PROVE  FileInv'
<1> DEFINE new == [file[c] EXCEPT !.content = Payload[c]]
<1>1. CASE Error(c, "write")
  BY <1>1, StepError
<1>2. CASE Step(c, "write", "chmod") /\ file' = [file EXCEPT ![c].content = Payload[c]]
           /\ stale' = stale \ {c} /\ UNCHANGED <<path, temps, disk>>
  <2>1. At("chmod") \in RunType /\ At("chmod").at = "chmod"
    BY AtType
  <2>2. /\ new \in FileType /\ new.owned /\ new.content = Payload[c]
        /\ file' = [file EXCEPT ![c] = new]
    BY <1>2 DEF FileInv, FileTypeOK, Prepared, FileType
  <2> QED
    BY <1>2, <2>1, <2>2, Installing DEF Step
<1> QED
  BY <1>1, <1>2 DEF Write

LEMMA StepChmod ==
    ASSUME FileInv, NEW c \in Core, Chmod(c)
    PROVE  FileInv'
<1> DEFINE new == [file[c] EXCEPT !.private = TRUE]
<1>1. CASE Error(c, "chmod")
  BY <1>1, StepError
<1>2. CASE Step(c, "chmod", "sync") /\ file' = [file EXCEPT ![c].private = TRUE]
           /\ UNCHANGED <<path, temps, stale, disk>>
  <2>1. At("sync") \in RunType /\ At("sync").at = "sync"
    BY AtType
  <2>2. /\ new \in FileType /\ new.owned /\ new.content = Payload[c] /\ new.private
        /\ file' = [file EXCEPT ![c] = new]
    BY <1>2 DEF FileInv, FileTypeOK, Prepared, FileType, Step
  <2> QED
    BY <1>2, <2>1, <2>2, Installing DEF Step
<1> QED
  BY <1>1, <1>2 DEF Chmod

LEMMA StepSync ==
    ASSUME FileInv, NEW c \in Core, Sync(c)
    PROVE  FileInv'
<1> DEFINE new == [file[c] EXCEPT !.synced = TRUE]
<1>1. CASE Error(c, "sync")
  BY <1>1, StepError
<1>2. CASE Step(c, "sync", "rename") /\ file' = [file EXCEPT ![c].synced = TRUE]
           /\ UNCHANGED <<path, temps, stale, disk>>
  <2>1. At("rename") \in RunType /\ At("rename").at = "rename"
    BY AtType
  <2>2. /\ new \in FileType /\ new.owned /\ new.content = Payload[c] /\ new.private
        /\ new.synced /\ file' = [file EXCEPT ![c] = new]
    BY <1>2 DEF FileInv, FileTypeOK, Prepared, FileType, Step
  <2> QED
    BY <1>2, <2>1, <2>2, Installing DEF Step
<1> QED
  BY <1>1, <1>2 DEF Sync

LEMMA StepRename ==
    ASSUME FileInv, NEW c \in Core, Rename(c)
    PROVE  FileInv'
<1>1. CASE Error(c, "rename")
  BY <1>1, StepError
<1>2. CASE /\ c \in temps
           /\ run[c].at = "rename"
           /\ run' = [run EXCEPT ![c].at = "remove", ![c].ok = TRUE]
           /\ path' = c
           /\ temps' = temps \ {c} /\ stale' = stale \ {c}
           /\ UNCHANGED <<file, disk>>
  <2>1. run'[c].at = "remove" /\ \A d \in Core : d # c => run'[d] = run[d]
    BY <1>2 DEF FileInv, FileTypeOK
  <2>2. FileTypeOK'
    <3> DEFINE r == [run[c] EXCEPT !.at = "remove", !.ok = TRUE]
    <3>1. r \in RunType
      <4>1. run[c] \in RunType
        BY DEF FileInv, FileTypeOK, RunType
      <4> QED
        BY <4>1 DEF RunType
    <3>2. run' = [run EXCEPT ![c] = r]
      BY <1>2 DEF FileInv, FileTypeOK
    <3>3. run' \in [Core -> RunType]
      BY <3>1, <3>2 DEF FileInv, FileTypeOK, RunType
    <3> QED
      BY <1>2, <3>3 DEF FileInv, FileTypeOK, PathType, RunType
  <2>3. Prepared'
    BY <1>2, <2>1 DEF FileInv, Prepared, Complete
  <2>4. Installed'
    BY <1>2, <2>1 DEF FileInv, Prepared, Installed, Complete
  <2>5. TempsAgree'
    BY <1>2, <2>1 DEF FileInv, FileTypeOK, TempsAgree
  <2> QED
    BY <2>2, <2>3, <2>4, <2>5 DEF FileInv
<1> QED
  BY <1>1, <1>2 DEF Rename

LEMMA StepRemove ==
    ASSUME FileInv, NEW c \in Core, RemoveTemp(c)
    PROVE  FileInv'
<1>1. PICK place \in {"done", "failed"} : run' = [run EXCEPT ![c] = At(place)]
  BY DEF RemoveTemp, Step
<1>2. At(place) \in RunType /\ At(place).at = place
  BY AtType DEF Ended
<1>3. /\ run[c].at = "remove" /\ temps' = temps \ {c} /\ stale' = stale \ {c}
      /\ UNCHANGED <<file, path, disk>>
  BY DEF RemoveTemp, Step
<1>4. run'[c] = At(place) /\ \A d \in Core : d # c => run'[d] = run[d]
  BY <1>1 DEF FileInv, FileTypeOK
<1>5. FileTypeOK'
  BY <1>1, <1>2, <1>3 DEF FileInv, FileTypeOK, RunType
<1>6. Prepared'
  BY <1>2, <1>3, <1>4 DEF FileInv, Prepared, Complete
<1>7. Installed'
  BY <1>2, <1>3, <1>4 DEF FileInv, Installed, Complete, Ended
<1>8. TempsAgree'
  BY <1>2, <1>3, <1>4 DEF FileInv, FileTypeOK, TempsAgree
<1> QED
  BY <1>5, <1>6, <1>7, <1>8 DEF FileInv

LEMMA StepAge ==
    ASSUME FileInv, NEW t \in Core, Age(t)
    PROVE  FileInv'
BY DEF Age, FileInv, FileTypeOK, Prepared, Installed, TempsAgree, Complete

LEMMA StepKilled ==
    ASSUME FileInv, NEW c \in Core, Killed(c)
    PROVE  FileInv'
<1>1. At("dead") \in RunType /\ At("dead").at = "dead"
  BY AtType DEF Ended
<1> QED
  BY <1>1, Moved DEF Killed, Ended

LEMMA StepWriteBack ==
    ASSUME FileInv, WriteBack
    PROVE  FileInv'
<1>1. disk' = [path |-> path, temps |-> temps] /\ UNCHANGED <<file, path, temps, stale, run>>
  BY DEF WriteBack
<1>2. FileTypeOK'
  BY <1>1 DEF FileInv, FileTypeOK
<1>3. Prepared'
  BY <1>1 DEF FileInv, Prepared, Complete
<1>4. Installed'
  BY <1>1 DEF FileInv, Installed, Complete
<1>5. TempsAgree'
  BY <1>1 DEF FileInv, TempsAgree
<1> QED
  BY <1>2, <1>3, <1>4, <1>5 DEF FileInv

\* Every core that had begun is dead; a file that was synced is as it was.
LEMMA StepPowerLoss ==
    ASSUME FileInv, PowerLoss
    PROVE  FileInv'
<1>1. PICK torn \in SUBSET {f \in disk.temps \union {disk.path} : f \in Core /\ ~file[f].synced} :
           file' = [f \in Core \union {Old} |->
                       IF f \in torn THEN [file[f] EXCEPT !.content = Partial] ELSE file[f]]
  BY DEF PowerLoss
<1>2. At("dead") \in RunType /\ At("dead").at = "dead"
  BY AtType DEF Ended
<1>3. /\ run' \in [Core -> RunType]
      /\ \A c \in Core : run'[c] = IF run[c].at = "idle" THEN run[c] ELSE At("dead")
  BY <1>2 DEF PowerLoss, FileInv, FileTypeOK, RunType
<1>4. path' = disk.path /\ temps' = disk.temps /\ disk' = disk
      /\ stale' = stale \intersect disk.temps
  BY DEF PowerLoss
<1>5. \A f \in Core \union {Old} :
          /\ file'[f] \in FileType
          /\ file'[f].owned = file[f].owned /\ file'[f].private = file[f].private
          /\ file'[f].synced = file[f].synced
          /\ file[f].synced => file'[f] = file[f]
  BY <1>1 DEF FileInv, FileTypeOK, FileType
<1>6. FileTypeOK'
  <2>1. file' \in [Core \union {Old} -> FileType]
    BY <1>1, <1>5
  <2> QED
    BY <2>1, <1>3, <1>4 DEF FileInv, FileTypeOK, RunType
<1>7. Prepared'
  BY <1>2, <1>3, <1>5 DEF FileInv, Prepared, Complete
<1>8. Installed'
  BY <1>2, <1>3, <1>4, <1>5 DEF FileInv, Installed, Complete, Ended
<1>9. TempsAgree'
  BY <1>2, <1>3, <1>4 DEF FileInv, FileTypeOK, TempsAgree
<1> QED
  BY <1>6, <1>7, <1>8, <1>9 DEF FileInv

-----------------------------------------------------------------------------

LEMMA FileStep ==
    ASSUME FileInv, [FileNext]_fileVars
    PROVE  FileInv'
<1>1. CASE \E c \in Core : \/ Begin(c) \/ Match(c) \/ FixMode(c) \/ Glob(c) \/ Swept(c)
                           \/ \E t \in Core : Sweep(c, t)
  BY <1>1, StepBegin, StepMatch, StepFixMode, StepGlob, StepSwept, StepSweep
<1>2. CASE \E c \in Core : \/ CreateTemp(c) \/ Write(c) \/ Chmod(c) \/ Sync(c) \/ Rename(c)
                           \/ RemoveTemp(c) \/ Age(c) \/ Killed(c)
  BY <1>2, StepCreateTemp, StepWrite, StepChmod, StepSync, StepRename, StepRemove, StepAge,
     StepKilled
<1>3. CASE WriteBack \/ PowerLoss
  BY <1>3, StepWriteBack, StepPowerLoss
<1>4. CASE UNCHANGED fileVars
  BY <1>4 DEF fileVars, FileInv, FileTypeOK, Prepared, Installed, TempsAgree, Complete
<1> QED
  BY <1>1, <1>2, <1>3, <1>4 DEF FileNext

(* The strengthened invariant of the directory, the disk and the cores.    *)
THEOREM FileInvariant == FileSpec => []FileInv
<1>1. FileInit => FileInv
  <2> SUFFICES ASSUME FileInit PROVE FileInv
    OBVIOUS
  <2>1. PICK old \in OldFiles :
            file = [f \in Core \union {Old} |-> IF f = Old THEN old ELSE NewFile]
    BY DEF FileInit
  <2>2. NewFile \in FileType /\ NewFile.owned
    BY DEF NewFile, FileType
  <2>3. At("idle") \in RunType /\ At("idle").at = "idle"
    BY AtType
  <2>4. \A c \in Core : run[c] = At("idle") /\ file[c] = NewFile /\ c \notin {path, disk.path}
    BY <2>1, FileAssumption DEF FileInit
  <2>5. FileTypeOK
    BY <2>1, <2>2, <2>3, FileAssumption DEF FileInit, FileTypeOK, PathType, RunType
  <2>6. Prepared /\ Installed /\ TempsAgree
    BY <2>2, <2>3, <2>4 DEF FileInit, Prepared, Installed, TempsAgree
  <2> QED
    BY <2>5, <2>6 DEF FileInv
<1> QED
  BY <1>1, FileStep, PTL DEF FileSpec

(* A dex that a core put at the path is complete and private, whatever     *)
(* fails, whoever is killed and whenever power is lost (ensureHelper).     *)
THEOREM PathCompleteAlways == FileSpec => []PathComplete
<1>1. FileInv => PathComplete
  BY DEF FileInv, Installed, Complete, PathComplete
<1> QED
  BY <1>1, FileInvariant, PTL

(* A call of ensureHelper that returned has left no temporary behind.      *)
THEOREM NoLeftoversAlways == FileSpec => []NoLeftovers
<1>1. FileInv => NoLeftovers
  BY DEF FileInv, TempsAgree, NoLeftovers
<1> QED
  BY <1>1, FileInvariant, PTL

\* The action of WritersUndisturbed.
Undisturbed ==
    \A c \in Core : c \in temps \ stale /\ c \notin temps' => run'[c].at \in Ended \union {"remove"}

(* A temporary less than a minute old is taken only by the core that made  *)
(* it, or by a power loss that ends that core (removeStaleTemporaries).    *)
THEOREM WritersUndisturbedAlways == FileSpec => WritersUndisturbed
<1>1. ASSUME FileInv, [FileNext]_fileVars, NEW c \in Core, c \in temps \ stale, c \notin temps'
      PROVE  run'[c].at \in Ended \union {"remove"}
  <2>1. \A place \in Ended : At(place).at = place
    BY DEF At
  <2>2. CASE PowerLoss
    BY <1>1, <2>1, <2>2 DEF PowerLoss, FileInv, TempsAgree, Ended
  <2>3. ASSUME NEW d \in Core, Rename(d) \/ RemoveTemp(d)
        PROVE  run'[c].at \in Ended \union {"remove"}
    BY <1>1, <2>1, <2>3 DEF Rename, RemoveTemp, Error, Step, Ended, FileInv, FileTypeOK
  <2>4. ASSUME NEW d \in Core, NEW t \in Core, Sweep(d, t)
        PROVE  FALSE
    BY <1>1, <2>4 DEF Sweep
  <2>5. ASSUME NEW d \in Core,
               \/ Begin(d) \/ Match(d) \/ FixMode(d) \/ Glob(d) \/ Swept(d) \/ CreateTemp(d)
               \/ Write(d) \/ Chmod(d) \/ Sync(d) \/ Age(d) \/ Killed(d)
        PROVE  FALSE
    BY <1>1, <2>5 DEF Begin, Match, FixMode, Glob, Swept, CreateTemp, Write, Chmod, Sync, Age,
                      Killed, Error
  <2>6. ~WriteBack /\ ~UNCHANGED fileVars
    BY <1>1 DEF WriteBack, fileVars
  <2> QED
    BY <1>1, <2>2, <2>3, <2>4, <2>5, <2>6 DEF FileNext
<1>2. FileInv /\ [FileNext]_fileVars => [Undisturbed]_fileVars
  BY <1>1 DEF Undisturbed
<1>3. FileSpec => [][Undisturbed]_fileVars
  BY <1>2, FileInvariant, PTL DEF FileSpec
<1> QED
  BY <1>3 DEF WritersUndisturbed, Undisturbed

-----------------------------------------------------------------------------
(* ReturnedDex.  A core that found its dex, renamed it or is correcting    *)
(* its mode keeps finding it there: whoever replaces it meanwhile installs *)
(* the same dex.                                                           *)

\* No core of another version has begun.
Alone(c) == \A d \in Core : Payload[d] = Payload[c] \/ run[d].at = "idle"

OwnDex(c) ==
    /\ path \in Core \union {Old}
    /\ file[path].content = Payload[c] /\ file[path].owned

DexStays ==
    \A c \in Core : Alone(c) =>
        /\ run[c].at = "done" \/ (run[c].at = "remove" /\ run[c].ok)
               => OwnDex(c) /\ file[path].private
        /\ run[c].at = "mode" => OwnDex(c) /\ (path = run[c].found \/ file[path].private)

\* The steps of one core.
CoreStep(d) ==
    \/ Begin(d) \/ Match(d) \/ FixMode(d) \/ Glob(d) \/ Swept(d) \/ CreateTemp(d)
    \/ Write(d) \/ Chmod(d) \/ Sync(d) \/ Rename(d) \/ RemoveTemp(d) \/ Killed(d)
    \/ \E t \in Core : Sweep(d, t)

\* What a step of one core makes of its own record.
LEMMA OwnRecord ==
    ASSUME FileInv, NEW d \in Core, CoreStep(d)
    PROVE  /\ run'[d].at # "idle"
           /\ \A c \in Core : c # d => run'[c] = run[c]
<1>1. \A place : At(place).at = place
  BY DEF At
<1>2. CASE Match(d)
  <2>1. CASE Step(d, "match", "failed") \/ Step(d, "match", "glob")
    BY <1>1, <2>1 DEF Step, FileInv, FileTypeOK
  <2>2. CASE ~(Step(d, "match", "failed") \/ Step(d, "match", "glob"))
    <3> DEFINE next == IF ~SamePayload(path, d) THEN "glob"
                       ELSE IF file[path].private THEN "done" ELSE "mode"
    <3>1. run' = [run EXCEPT ![d] = [At(next) EXCEPT !.found = IF next = "mode" THEN path ELSE Absent]]
      BY <1>2, <2>2 DEF Match
    <3>2. next # "idle"
      OBVIOUS
    <3>3. [At(next) EXCEPT !.found = IF next = "mode" THEN path ELSE Absent].at = next
      BY DEF At
    <3> HIDE DEF next
    <3> QED
      BY <3>1, <3>2, <3>3 DEF FileInv, FileTypeOK
  <2> QED
    BY <2>1, <2>2
<1>3. CASE Begin(d) \/ FixMode(d) \/ Swept(d) \/ CreateTemp(d) \/ Killed(d)
  BY <1>1, <1>3 DEF Begin, FixMode, Swept, CreateTemp, Killed, Step, FileInv, FileTypeOK
<1>4. CASE Write(d) \/ Chmod(d) \/ Sync(d) \/ RemoveTemp(d)
  BY <1>1, <1>4 DEF Write, Chmod, Sync, RemoveTemp, Error, Step, FileInv, FileTypeOK
<1>5. CASE Glob(d) \/ Rename(d)
  BY <1>1, <1>5 DEF Glob, Rename, Error, Step, FileInv, FileTypeOK
<1>6. CASE \E t \in Core : Sweep(d, t)
  BY <1>6 DEF Sweep, FileInv, FileTypeOK
<1> QED
  BY <1>2, <1>3, <1>4, <1>5, <1>6 DEF CoreStep

LEMMA DexPersists ==
    ASSUME FileInv, NEW c \in Core, OwnDex(c), NEW d \in Core, CoreStep(d),
           Payload[d] = Payload[c]
    PROVE  /\ OwnDex(c)'
           /\ file[path].private => file'[path'].private
           /\ path' = path \/ file'[path'].private
<1>1. CASE UNCHANGED <<file, path>>
  BY <1>1 DEF OwnDex
<1>2. CASE FixMode(d)
  BY <1>2 DEF FixMode, OwnDex, FileInv, FileTypeOK, FileType
<1>3. CASE Write(d)
  <2>1. CASE Error(d, "write")
    BY <1>1, <2>1 DEF Error
  <2>2. CASE run[d].at = "write" /\ file' = [file EXCEPT ![d].content = Payload[d]] /\ path' = path
    <3>1. path # d
      BY <2>2, NotYetInstalled DEF Ended
    <3> QED
      BY <2>2, <3>1 DEF OwnDex, FileInv, FileTypeOK
  <2> QED
    BY <1>3, <2>1, <2>2 DEF Write, Step
<1>4. CASE Chmod(d) \/ Sync(d)
  BY <1>4 DEF Chmod, Sync, Error, OwnDex, FileInv, FileTypeOK, FileType
<1>5. CASE Rename(d)
  BY <1>1, <1>5 DEF Rename, Error, OwnDex, FileInv, Prepared, Complete
<1> QED
  BY <1>1, <1>2, <1>3, <1>4, <1>5
     DEF CoreStep, Begin, Match, Glob, Swept, CreateTemp, RemoveTemp, Killed, Sweep

\* How the core that makes the step comes to one of the positions.
LEMMA DexFound ==
    ASSUME FileInv, DexStays, NEW d \in Core, CoreStep(d), Alone(d)
    PROVE  /\ run'[d].at = "done" \/ (run'[d].at = "remove" /\ run'[d].ok)
                => OwnDex(d)' /\ file'[path'].private
           /\ run'[d].at = "mode" => OwnDex(d)' /\ (path' = run'[d].found \/ file'[path'].private)
<1>1. \A place : At(place).at = place /\ At(place).ok = FALSE
  BY DEF At
<1>2. CASE Match(d)
  <2>1. CASE Step(d, "match", "failed") \/ Step(d, "match", "glob")
    BY <1>1, <2>1 DEF Step, FileInv, FileTypeOK
  <2>2. CASE ~(Step(d, "match", "failed") \/ Step(d, "match", "glob"))
    <3> DEFINE next == IF ~SamePayload(path, d) THEN "glob"
                       ELSE IF file[path].private THEN "done" ELSE "mode"
               r == [At(next) EXCEPT !.found = IF next = "mode" THEN path ELSE Absent]
    <3>1. run' = [run EXCEPT ![d] = r] /\ path \in Core \union {Old} /\ UNCHANGED <<file, path>>
      BY <1>2, <2>2 DEF Match
    <3>2. r.at = next /\ (next = "mode" => r.found = path)
      BY DEF At
    <3>3. run'[d] = r
      BY <3>1 DEF FileInv, FileTypeOK
    <3>4. next \in {"done", "mode"} => OwnDex(d)
      BY <3>1 DEF OwnDex, SamePayload
    <3>5. next # "remove" /\ (next = "done" => file[path].private)
      OBVIOUS
    <3> HIDE DEF next, r
    <3> QED
      BY <3>1, <3>2, <3>3, <3>4, <3>5 DEF OwnDex
  <2> QED
    BY <2>1, <2>2
<1>3. CASE FixMode(d)
  <2>1. CASE Step(d, "mode", "failed")
    BY <1>1, <2>1 DEF Step, FileInv, FileTypeOK
  <2>2. CASE Step(d, "mode", "done") /\ file' = [file EXCEPT ![run[d].found].private = TRUE]
    <3>1. OwnDex(d) /\ (path = run[d].found \/ file[path].private) /\ path' = path
      BY <1>3, <2>2 DEF FixMode, Step, DexStays
    <3>2. file'[path].private
      BY <2>2, <3>1 DEF OwnDex, FileInv, FileTypeOK, FileType
    <3>3. OwnDex(d)'
      BY <1>3, <3>1, DexPersists
    <3>4. run'[d].at = "done"
      BY <1>1, <2>2 DEF Step, FileInv, FileTypeOK
    <3> QED
      BY <3>1, <3>2, <3>3, <3>4
  <2> QED
    BY <1>3, <2>1, <2>2 DEF FixMode
<1>4. CASE Rename(d)
  <2>1. CASE Error(d, "rename")
    BY <1>1, <2>1 DEF Error, Step, FileInv, FileTypeOK
  <2>2. CASE run[d].at = "rename" /\ path' = d /\ UNCHANGED file
             /\ run' = [run EXCEPT ![d].at = "remove", ![d].ok = TRUE]
    <3>1. Complete(d) /\ file[d].owned
      BY <2>2 DEF FileInv, Prepared
    <3>2. run'[d].at = "remove"
      BY <2>2 DEF FileInv, FileTypeOK
    <3> QED
      BY <2>2, <3>1, <3>2 DEF OwnDex, Complete
  <2> QED
    BY <1>4, <2>1, <2>2 DEF Rename
<1>5. CASE RemoveTemp(d)
  <2>1. run[d].at = "remove" /\ UNCHANGED <<file, path>>
        /\ run'[d] = At(IF run[d].ok THEN "done" ELSE "failed")
    BY <1>5 DEF RemoveTemp, Step, FileInv, FileTypeOK
  <2>2. CASE run[d].ok
    BY <1>1, <2>1, <2>2 DEF DexStays, OwnDex
  <2>3. CASE ~run[d].ok
    BY <1>1, <2>1, <2>3
  <2> QED
    BY <2>2, <2>3
<1>6. CASE Begin(d) \/ Swept(d) \/ CreateTemp(d) \/ Killed(d)
  BY <1>1, <1>6 DEF Begin, Swept, CreateTemp, Killed, Step, FileInv, FileTypeOK
<1>7. CASE Write(d) \/ Chmod(d) \/ Sync(d)
  BY <1>1, <1>7 DEF Write, Chmod, Sync, Error, Step, FileInv, FileTypeOK
<1>8. CASE Glob(d)
  BY <1>8 DEF Glob, FileInv, FileTypeOK
<1>9. CASE \E t \in Core : Sweep(d, t)
  BY <1>9 DEF Sweep, FileInv, FileTypeOK
<1> QED
  BY <1>2, <1>3, <1>4, <1>5, <1>6, <1>7, <1>8, <1>9 DEF CoreStep

LEMMA DexStep ==
    ASSUME FileInv, DexStays, [FileNext]_fileVars
    PROVE  DexStays'
<1>1. ASSUME NEW d \in Core, CoreStep(d) PROVE DexStays'
  <2> SUFFICES ASSUME NEW c \in Core, Alone(c)'
               PROVE  /\ run'[c].at = "done" \/ (run'[c].at = "remove" /\ run'[c].ok)
                           => OwnDex(c)' /\ file'[path'].private
                      /\ run'[c].at = "mode"
                           => OwnDex(c)' /\ (path' = run'[c].found \/ file'[path'].private)
    BY DEF DexStays
  <2>1. run'[d].at # "idle" /\ \A e \in Core : e # d => run'[e] = run[e]
    BY <1>1, OwnRecord
  <2>2. Payload[d] = Payload[c]
    BY <2>1 DEF Alone
  <2>3. Alone(c)
    BY <2>1, <2>2 DEF Alone
  <2>4. CASE c = d
    BY <1>1, <2>3, <2>4, DexFound
  <2>5. CASE c # d
    <3>1. run'[c] = run[c]
      BY <2>1, <2>5
    <3>2. CASE OwnDex(c)
      BY <1>1, <2>2, <2>3, <3>1, <3>2, DexPersists DEF DexStays
    <3>3. CASE ~OwnDex(c)
      BY <2>3, <3>1, <3>3 DEF DexStays
    <3> QED
      BY <3>2, <3>3
  <2> QED
    BY <2>4, <2>5
<1>2. CASE UNCHANGED <<file, path, run>>
  BY <1>2 DEF DexStays, Alone, OwnDex
<1>3. CASE PowerLoss
  <2>1. \A c \in Core : run'[c].at \in {"idle", "dead"}
    BY <1>3 DEF PowerLoss, At
  <2> QED
    BY <2>1 DEF DexStays
<1> QED
  BY <1>1, <1>2, <1>3 DEF FileNext, CoreStep, Age, WriteBack, fileVars

(* A core whose ensureHelper succeeded finds its own dex at the path,      *)
(* complete, private and its own, unless a core of another version was at  *)
(* work too.                                                               *)
THEOREM ReturnedDexAlways == FileSpec => []ReturnedDex
<1>1. FileInit => DexStays
  BY DEF FileInit, DexStays, At
<1>2. FileSpec => []DexStays
  BY <1>1, DexStep, FileInvariant, PTL DEF FileSpec
<1>3. DexStays => ReturnedDex
  BY DEF DexStays, ReturnedDex, Alone, OwnDex
<1> QED
  BY <1>2, <1>3, PTL
===============================================================================
