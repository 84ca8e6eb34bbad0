------------------------ MODULE ProtectServer_proofs -------------------------
(***************************************************************************)
(* Theorems about ProtectServer for every set of connections and processes *)
(* and every bound.                                                        *)
(***************************************************************************)
EXTENDS ProtectServer, FoldLemmas

(***************************************************************************)
(* The inductive invariant: what the descriptors, the backlog, the process *)
(* table and the handlers have to do with each other.                      *)
(***************************************************************************)

\* Received descriptors are held at two positions only.
HoldsWhatItReceived ==
    \A c \in Conn :
        /\ conn[c].at \notin {"discard", "protect"} => conn[c].received = 0
        /\ At(c, "protect") => conn[c].sockets = 1 /\ conn[c].received = 1

\* The backlog holds connections nobody accepted, each of them once.
BacklogPending ==
    /\ \A i \in 1..Len(backlog) : At(backlog[i], "pending")
    /\ \A i, j \in 1..Len(backlog) : backlog[i] = backlog[j] => i = j

\* Strangers descend from strangers; what is a parent is alive.
StrangersApart ==
    /\ strangers \intersect children = {}
    /\ \A p \in strangers : parent[p] \in strangers \union {Reaper, Nobody}
    /\ \A p \in Process : parent[p] \in Process => parent[parent[p]] # Nobody

\* What a handler has established of its peer; a walk that began at a stranger
\* stays among them.
PeerKnown(r) ==
    /\ r.at # "none" => r.peer \in Process
    /\ r.at = "sample" /\ r.strict => listener.verify
    /\ r.at = "walk" /\ r.peer \in strangers => r.walk \in strangers \union {Reaper}
    /\ r.at \in {"receive", "discard", "protect"} /\ r.strict => r.peer \notin strangers

HandlersAgree == \A c \in Conn : PeerKnown(conn[c])

ProtectInv ==
    /\ TypeOK
    /\ DescriptorsClosed
    /\ HoldsWhatItReceived
    /\ BacklogPending
    /\ StrangersApart
    /\ HandlersAgree

(***************************************************************************)
(* A server that does not listen yet (host.go NewHost) satisfies it.       *)
(***************************************************************************)
LEMMA ProtectInitInv == ASSUME Init PROVE ProtectInv
  BY ProtectAssumption DEF Init, ProtectInv, TypeOK, NoConn, ConnType, Pid, DescriptorsClosed,
     HoldsWhatItReceived, BacklogPending, StrangersApart, HandlersAgree, PeerKnown, At

(***************************************************************************)
(* A step of one handler (handle and what it calls) keeps the invariant if *)
(* the handler's own record and descriptors do.                            *)
(***************************************************************************)
LEMMA HandlerStep ==
  ASSUME ProtectInv, NEW c \in Conn, conn[c].at \notin {"none", "pending"},
         NEW r \in ConnType, conn' = [conn EXCEPT ![c] = r], r.at # "pending",
         fds' = [fds EXCEPT ![c] = IF r.at = "none" THEN 0 ELSE 1 + r.received],
         free' \in Nat,
         r.at \notin {"discard", "protect"} => r.received = 0,
         r.at = "protect" => r.sockets = 1 /\ r.received = 1,
         PeerKnown(r),
         UNCHANGED <<listener, backlog, processes>>
  PROVE  ProtectInv'
  <1> USE DEF ProtectInv
  <1>0. (IF r.at = "none" THEN 0 ELSE 1 + r.received) \in Nat
    BY ProtectAssumption DEF ConnType
  <1>1. /\ UNCHANGED <<listener, backlog, parent, strangers, children>>
        /\ conn'[c] = r /\ fds'[c] = IF r.at = "none" THEN 0 ELSE 1 + r.received
        /\ \A d \in Conn \ {c} : conn'[d] = conn[d] /\ fds'[d] = fds[d]
    BY DEF TypeOK, processes
  <1>2. TypeOK'
    BY <1>0, <1>1 DEF TypeOK
  <1>3. DescriptorsClosed'
    BY <1>1 DEF DescriptorsClosed
  <1>4. HoldsWhatItReceived'
    BY <1>1 DEF HoldsWhatItReceived, At
  <1>5. BacklogPending'
    <2>1. \A i \in 1..Len(backlog) : backlog[i] # c /\ backlog[i] \in Conn
      BY DEF BacklogPending, At, TypeOK
    <2> QED
      BY <1>1, <2>1 DEF BacklogPending, At
  <1>6. StrangersApart'
    BY <1>1 DEF StrangersApart
  <1>7. HandlersAgree'
    BY <1>1 DEF HandlersAgree, PeerKnown
  <1> QED
    BY <1>2, <1>3, <1>4, <1>5, <1>6, <1>7

(***************************************************************************)
(* The kernel installs at most Room descriptors, and none the table has no *)
(* place for (receiveSocket's oob).                                        *)
(***************************************************************************)
LEMMA InstalledFits ==
  ASSUME TypeOK, NEW n \in 0..MaxSockets
  PROVE  /\ Installed(n) \in 0..Room
         /\ Installed(n) <= free
  <1> DEFINE limits == {n, Room, free}
  <1>1. n \in Nat /\ Room \in Nat /\ free \in Nat
    BY ProtectAssumption DEF TypeOK
  <1>2. \E x \in limits : \A y \in limits : x =< y
    <2>1. CASE n =< Room /\ n =< free
      BY <1>1, <2>1
    <2>2. CASE Room =< n /\ Room =< free
      BY <1>1, <2>2
    <2>3. CASE free =< n /\ free =< Room
      BY <1>1, <2>3
    <2> QED
      BY <1>1, <2>1, <2>2, <2>3
  <1>3. Min(limits) \in limits /\ \A y \in limits : Min(limits) =< y
    BY <1>2, Zenon DEF Min
  <1>4. Installed(n) \in limits /\ \A y \in limits : Installed(n) =< y
    BY <1>3 DEF Installed
  <1> QED
    BY <1>1, <1>4

(***************************************************************************)
(* Every step of a handler keeps the invariant: verifyPeer and descends    *)
(* first, which open and close nothing ...                                 *)
(***************************************************************************)
LEMMA VerifyStep ==
  ASSUME ProtectInv, NEW c \in Conn,
         Sample(c) \/ IsChild(c) \/ Walk(c) \/ Descends(c) \/ Refuse(c) \/ ReceiveError(c)
  PROVE  ProtectInv'
  <1>0. TypeOK /\ DescriptorsClosed /\ HoldsWhatItReceived /\ StrangersApart /\ HandlersAgree
    BY DEF ProtectInv
  <1>1. /\ conn[c] \in ConnType /\ conn[c].at \notin {"none", "pending"}
        /\ conn[c].received = 0 /\ fds[c] = 1
        /\ PeerKnown(conn[c]) /\ conn[c].peer \in Process
    BY <1>0 DEF TypeOK, Sample, IsChild, Walk, Descends, Refuse, ReceiveError, At,
       HoldsWhatItReceived, DescriptorsClosed, HandlersAgree, PeerKnown, ConnType
  <1>2. /\ fds' = [fds EXCEPT ![c] = 1] /\ free' \in Nat
        /\ UNCHANGED <<listener, backlog, processes>>
    BY <1>0, <1>1 DEF TypeOK, Sample, IsChild, Walk, Descends, Refuse, ReceiveError, table
  <1>3. ASSUME NEW r \in ConnType, conn' = [conn EXCEPT ![c] = r], PeerKnown(r),
               r.at \in {"child", "walk", "receive", "reply"}, r.received = 0
        PROVE  ProtectInv'
    <2>1. fds' = [fds EXCEPT ![c] = IF r.at = "none" THEN 0 ELSE 1 + r.received]
      <3>1. (IF r.at = "none" THEN 0 ELSE 1 + r.received) = 1
        BY <1>3
      <3> QED
        BY <1>2, <3>1
    <2> QED
      BY <1>1, <1>2, <1>3, <2>1, HandlerStep
  <1>4. CASE Sample(c)
    <2> DEFINE r == [conn[c] EXCEPT !.at = IF listener.verify THEN "child" ELSE "receive"]
    <2>1. conn' = [conn EXCEPT ![c] = r] /\ r \in ConnType /\ r.received = 0
      BY <1>0, <1>1, <1>4 DEF Sample, Goto, ConnType, TypeOK
    <2>2. PeerKnown(r) /\ r.at \in {"child", "receive"}
      BY <1>0, <1>1, <1>4 DEF Sample, At, PeerKnown, ConnType, TypeOK
    <2> QED
      BY <1>3, <2>1, <2>2
  <1>5. CASE IsChild(c)
    <2>1. CASE conn[c].peer \in children
      <3> DEFINE r == [conn[c] EXCEPT !.at = "receive"]
      <3>1. conn' = [conn EXCEPT ![c] = r] /\ r \in ConnType /\ r.received = 0
        BY <1>0, <1>1, <1>5, <2>1 DEF IsChild, Goto, ConnType, TypeOK
      <3>2. PeerKnown(r)
        BY <1>0, <1>1, <2>1 DEF PeerKnown, ConnType, StrangersApart
      <3> QED
        BY <1>0, <1>1, <1>3, <3>1, <3>2 DEF ConnType
    <2>2. CASE conn[c].peer \notin children
      <3> DEFINE r == [conn[c] EXCEPT !.at = "walk", !.walk = conn[c].peer,
                                      !.left = MaxAncestry]
      <3>1. conn' = [conn EXCEPT ![c] = r]
        BY <1>0, <1>5, <2>2 DEF IsChild
      <3>2. conn[c].peer \in Pid /\ MaxAncestry \in 0..MaxAncestry
        BY <1>1, ProtectAssumption DEF Pid
      <3>3. r \in ConnType /\ r.received = 0
        BY <1>1, <3>2 DEF ConnType
      <3>4. PeerKnown(r) /\ r.at = "walk"
        BY <1>0, <1>1 DEF PeerKnown, ConnType
      <3> QED
        BY <1>3, <3>1, <3>3, <3>4
    <2> QED
      BY <2>1, <2>2
  <1>6. CASE Walk(c)
    <2> DEFINE r == [conn[c] EXCEPT !.walk = parent[conn[c].walk], !.left = conn[c].left - 1]
    <2>1. conn' = [conn EXCEPT ![c] = r]
      BY <1>0, <1>6 DEF Walk
    <2>2. parent[conn[c].walk] \in Pid /\ conn[c].left - 1 \in 0..MaxAncestry
      BY <1>0, <1>1, <1>6, ProtectAssumption DEF Walk, ConnType, TypeOK
    <2>3. r \in ConnType /\ r.received = 0
      BY <1>1, <2>2 DEF ConnType
    <2>4. PeerKnown(r) /\ r.at = "walk"
      BY <1>0, <1>1, <1>6, ProtectAssumption DEF Walk, At, PeerKnown, ConnType, TypeOK,
         StrangersApart
    <2> QED
      BY <1>3, <2>1, <2>3, <2>4
  <1>7. CASE Descends(c) \/ Refuse(c)
    <2>1. PICK place \in {"receive", "reply"} :
            /\ conn' = [conn EXCEPT ![c] =
                   [conn[c] EXCEPT !.at = place, !.walk = Nobody, !.left = 0]]
            /\ place = "receive" => At(c, "walk") /\ conn[c].walk = Core
      BY <1>0, <1>1, <1>7 DEF Descends, Refuse, TypeOK
    <2> DEFINE r == [conn[c] EXCEPT !.at = place, !.walk = Nobody, !.left = 0]
    <2>2. Nobody \in Pid /\ 0 \in 0..MaxAncestry
      BY ProtectAssumption DEF Pid
    <2>3. r \in ConnType /\ r.received = 0 /\ r.at = place
      BY <1>1, <2>2 DEF ConnType
    <2>4. PeerKnown(r)
      BY <1>0, <1>1, <2>1, ProtectAssumption DEF At, PeerKnown, ConnType, TypeOK
    <2> QED
      BY <1>3, <2>1, <2>3, <2>4
  <1>8. CASE ReceiveError(c)
    <2> DEFINE r == [conn[c] EXCEPT !.at = "reply"]
    <2>1. conn' = [conn EXCEPT ![c] = r] /\ r \in ConnType /\ r.received = 0 /\ r.at = "reply"
      BY <1>0, <1>1, <1>8 DEF ReceiveError, Goto, ConnType, TypeOK
    <2>2. PeerKnown(r)
      BY <1>0, <1>1 DEF PeerKnown, ConnType
    <2> QED
      BY <1>3, <2>1, <2>2
  <1> QED
    BY <1>4, <1>5, <1>6, <1>7, <1>8

(***************************************************************************)
(* ... then receiveSocket, the protector and the reply.                    *)
(***************************************************************************)
LEMMA ReceiveStep ==
  ASSUME ProtectInv, NEW c \in Conn, Receive(c) \/ Discard(c) \/ Protect(c) \/ Reply(c)
  PROVE  ProtectInv'
  <1>0. TypeOK /\ DescriptorsClosed /\ HoldsWhatItReceived /\ StrangersApart /\ HandlersAgree
    BY DEF ProtectInv
  <1>1. /\ conn[c] \in ConnType /\ conn[c].at \notin {"none", "pending"}
        /\ fds[c] = 1 + conn[c].received /\ fds \in [Conn -> Nat] /\ free \in Nat
        /\ PeerKnown(conn[c]) /\ conn[c].peer \in Process
    BY <1>0 DEF TypeOK, Receive, Discard, Protect, Reply, At,
       DescriptorsClosed, HandlersAgree, PeerKnown
  <1>2. conn[c].received \in 0..Room
    BY <1>0, <1>1 DEF ConnType
  <1>3. UNCHANGED <<listener, backlog, processes>>
    BY DEF Receive, Discard, Protect, Reply
  <1>4. CASE Receive(c)
    <2>1. PICK n \in 0..MaxSockets :
            /\ Open(c, Installed(n))
            /\ conn' = [conn EXCEPT ![c] = [conn[c] EXCEPT
                   !.at = IF Installed(n) = 1 /\ n = 1 THEN "protect" ELSE "discard",
                   !.received = Installed(n), !.sockets = n]]
      BY <1>0, <1>1, <1>4 DEF Receive, TypeOK
    <2> DEFINE got == Installed(n)
               r == [conn[c] EXCEPT
                        !.at = IF got = 1 /\ n = 1 THEN "protect" ELSE "discard",
                        !.received = got, !.sockets = n]
    <2>2. got \in 0..Room /\ got <= free
      BY <1>0, InstalledFits
    <2>3. At(c, "receive") /\ conn[c].received = 0
      BY <1>0, <1>4 DEF Receive, At, HoldsWhatItReceived
    <2>4. conn' = [conn EXCEPT ![c] = r]
      BY <2>1
    <2>5. fds' = [fds EXCEPT ![c] = fds[c] + got] /\ free' = free - got
      BY <2>1 DEF Open
    <2> HIDE DEF got
    <2>6. r \in ConnType
      BY <1>0, <1>1, <2>2 DEF ConnType
    <2>7. /\ r.at \in {"discard", "protect"} /\ r.received = got
          /\ r.at = "protect" => r.sockets = 1 /\ r.received = 1
      BY <1>0, <1>1, <2>2 DEF ConnType
    <2>8. PeerKnown(r)
      BY <1>0, <1>1, <2>3, <2>7 DEF PeerKnown, At, ConnType
    <2>9. fds[c] + got = 1 + r.received /\ fds[c] + got \in Nat /\ free' \in Nat
      BY <1>0, <1>1, <2>2, <2>3, <2>5, <2>7, ProtectAssumption
    <2> HIDE DEF r
    <2>10. fds' = [fds EXCEPT ![c] = IF r.at = "none" THEN 0 ELSE 1 + r.received]
      BY <2>5, <2>7, <2>9
    <2> QED
      BY <1>1, <1>3, <2>4, <2>6, <2>7, <2>8, <2>9, <2>10, HandlerStep
  <1>5. CASE Discard(c) \/ Protect(c)
    <2> DEFINE r == [conn[c] EXCEPT !.at = "reply", !.received = 0, !.sockets = 0]
    <2>1. /\ conn' = [conn EXCEPT ![c] = r]
          /\ fds' = [fds EXCEPT ![c] = fds[c] - conn[c].received]
          /\ free' = free + conn[c].received
      BY <1>0, <1>1, <1>5 DEF Discard, Protect, Close, TypeOK
    <2>2. 0 \in 0..Room /\ 0 \in 0..MaxSockets
      BY ProtectAssumption
    <2>3. r \in ConnType /\ r.at = "reply" /\ r.received = 0
      BY <1>1, <2>2 DEF ConnType
    <2>4. PeerKnown(r)
      BY <1>1 DEF PeerKnown, ConnType
    <2>5. fds[c] - conn[c].received = 1 /\ free' \in Nat
      BY <1>0, <1>1, <1>2, <2>1, ProtectAssumption
    <2> HIDE DEF r
    <2>6. fds' = [fds EXCEPT ![c] = IF r.at = "none" THEN 0 ELSE 1 + r.received]
      <3>1. (IF r.at = "none" THEN 0 ELSE 1 + r.received) = 1
        BY <2>3
      <3> QED
        BY <2>1, <2>5, <3>1
    <2> QED
      BY <1>1, <1>3, <2>1, <2>3, <2>4, <2>5, <2>6, HandlerStep
  <1>6. CASE Reply(c)
    <2>1. conn[c].received = 0
      BY <1>0, <1>6 DEF Reply, At, HoldsWhatItReceived
    <2>2. fds' = [fds EXCEPT ![c] = 0] /\ free' \in Nat /\ conn' = [conn EXCEPT ![c] = NoConn]
      BY <1>0, <1>1, <1>6, <2>1 DEF Reply, Close
    <2>3. NoConn \in ConnType /\ NoConn.at = "none" /\ NoConn.received = 0 /\ PeerKnown(NoConn)
      BY ProtectAssumption DEF NoConn, ConnType, Pid, PeerKnown
    <2>4. fds' = [fds EXCEPT ![c] = IF NoConn.at = "none" THEN 0 ELSE 1 + NoConn.received]
      BY <2>2, <2>3
    <2> QED
      BY <1>1, <1>3, <2>2, <2>3, <2>4, HandlerStep
  <1> QED
    BY <1>4, <1>5, <1>6

(***************************************************************************)
(* serve keeps the invariant: Accept takes a connection from the front of  *)
(* the backlog, where it is pending, and nowhere else in it.               *)
(***************************************************************************)
LEMMA AcceptStep ==
  ASSUME ProtectInv, NEW c \in Conn, Accept(c)
  PROVE  ProtectInv'
  <1>0. TypeOK /\ DescriptorsClosed /\ HoldsWhatItReceived /\ BacklogPending /\ StrangersApart
        /\ HandlersAgree
    BY DEF ProtectInv
  <1> DEFINE r == [conn[c] EXCEPT !.at = "sample", !.strict = listener.verify]
  <1>1. /\ backlog \in Seq(Conn) /\ backlog # <<>> /\ c = Head(backlog) /\ At(c, "pending")
        /\ backlog' = Tail(backlog)
    BY <1>0 DEF Accept, BacklogPending, TypeOK
  <1>2. /\ conn[c] \in ConnType /\ conn[c].at = "pending" /\ conn[c].peer \in Process
        /\ conn[c].received = 0
    BY <1>0, <1>1 DEF At, TypeOK, HandlersAgree, PeerKnown, HoldsWhatItReceived
  <1>3. /\ conn' = [conn EXCEPT ![c] = r] /\ r \in ConnType /\ r.at = "sample"
        /\ r.received = 0 /\ PeerKnown(r)
    BY <1>0, <1>2 DEF Accept, ConnType, TypeOK, PeerKnown
  <1> HIDE DEF r
  <1>4. fds[c] = 0 /\ fds' = [fds EXCEPT ![c] = fds[c] + 1] /\ free' = free - 1 /\ free > 0
    BY <1>0, <1>2 DEF Accept, Open, DescriptorsClosed
  <1>5. fds' = [fds EXCEPT ![c] = 1] /\ free' \in Nat
    BY <1>0, <1>4 DEF TypeOK
  <1>6. /\ UNCHANGED <<listener, parent, strangers, children>>
        /\ conn'[c] = r /\ fds'[c] = 1
        /\ \A d \in Conn \ {c} : conn'[d] = conn[d] /\ fds'[d] = fds[d]
    BY <1>0, <1>3, <1>5 DEF TypeOK, Accept, processes
  <1>7. TypeOK'
    BY <1>0, <1>1, <1>3, <1>5, <1>6 DEF TypeOK
  <1>8. DescriptorsClosed'
    BY <1>0, <1>3, <1>6 DEF DescriptorsClosed
  <1>9. HoldsWhatItReceived'
    BY <1>0, <1>3, <1>6 DEF HoldsWhatItReceived, At
  <1>10. BacklogPending'
    <2>1. /\ Len(backlog') = Len(backlog) - 1 /\ Len(backlog) \in Nat
          /\ \A i \in 1..Len(backlog') : backlog'[i] = backlog[i + 1] /\ backlog[i + 1] \in Conn
          /\ c = backlog[1]
      BY <1>1
    <2>2. \A i \in 1..Len(backlog') : i + 1 \in 1..Len(backlog) /\ i + 1 # 1 /\ 1 \in 1..Len(backlog)
      BY <2>1
    <2>3. \A i \in 1..Len(backlog') : backlog'[i] # c
      BY <1>0, <2>1, <2>2 DEF BacklogPending
    <2>4. \A i \in 1..Len(backlog') : conn'[backlog'[i]].at = "pending"
      BY <1>0, <1>6, <2>1, <2>2, <2>3 DEF BacklogPending, At
    <2>5. \A i, j \in 1..Len(backlog') : backlog'[i] = backlog'[j] => i = j
      BY <1>0, <2>1, <2>2 DEF BacklogPending
    <2> QED
      BY <2>4, <2>5 DEF BacklogPending, At
  <1>11. StrangersApart'
    BY <1>0, <1>6 DEF StrangersApart
  <1>12. HandlersAgree'
    BY <1>0, <1>3, <1>6 DEF HandlersAgree, PeerKnown
  <1> QED
    BY <1>7, <1>8, <1>9, <1>10, <1>11, <1>12 DEF ProtectInv

(***************************************************************************)
(* The loop's other steps, and Apply: a reload that switches verify off    *)
(* takes its promise from every connection, one that closes the listener   *)
(* drops the backlog.                                                      *)
(***************************************************************************)
LEMMA ListenerStep ==
  ASSUME ProtectInv,
         \/ \E verify \in BOOLEAN : Listen(verify) \/ SetVerify(verify)
         \/ CloseListener \/ AcceptError \/ Wake \/ ServeEnd
  PROVE  ProtectInv'
  <1>0. TypeOK /\ DescriptorsClosed /\ HoldsWhatItReceived /\ BacklogPending /\ StrangersApart
        /\ HandlersAgree
    BY DEF ProtectInv
  <1>1. UNCHANGED <<fds, free, parent, strangers, children>>
    BY DEF Listen, SetVerify, CloseListener, AcceptError, Wake, ServeEnd, table, processes
  <1>2. CASE AcceptError \/ Wake \/ ServeEnd
    <2>1. UNCHANGED <<backlog, conn>> /\ listener'.verify = listener.verify
          /\ listener' \in [open: BOOLEAN, verify: BOOLEAN, loop: {"accept", "sleep", "ended"}]
      BY <1>0, <1>2 DEF AcceptError, Wake, ServeEnd, TypeOK
    <2> QED
      BY <1>0, <1>1, <2>1 DEF ProtectInv, TypeOK, DescriptorsClosed, HoldsWhatItReceived,
         BacklogPending, StrangersApart, HandlersAgree, PeerKnown, At
  <1>3. ASSUME NEW verify \in BOOLEAN, Listen(verify) PROVE ProtectInv'
    <2>1. /\ UNCHANGED <<backlog, conn>>
          /\ listener' \in [open: BOOLEAN, verify: BOOLEAN, loop: {"accept", "sleep", "ended"}]
          /\ \A c \in Conn : conn[c].at = "none"
      BY <1>3 DEF Listen, At
    <2>2. HandlersAgree'
      BY <2>1 DEF HandlersAgree, PeerKnown
    <2>3. TypeOK'
      BY <1>0, <1>1, <2>1 DEF TypeOK
    <2>4. StrangersApart'
      BY <1>0, <1>1 DEF StrangersApart
    <2>5. DescriptorsClosed' /\ HoldsWhatItReceived'
      BY <1>0, <1>1, <2>1 DEF DescriptorsClosed, HoldsWhatItReceived, At
    <2>6. BacklogPending'
      BY <1>0, <2>1 DEF BacklogPending, At
    <2> QED
      BY <2>2, <2>3, <2>4, <2>5, <2>6 DEF ProtectInv
  <1>4. ASSUME NEW verify \in BOOLEAN, SetVerify(verify) PROVE ProtectInv'
    <2>1. /\ UNCHANGED backlog /\ listener'.verify = verify
          /\ listener' \in [open: BOOLEAN, verify: BOOLEAN, loop: {"accept", "sleep", "ended"}]
          /\ conn' = [c \in Conn |-> [conn[c] EXCEPT !.strict = conn[c].strict /\ verify]]
      BY <1>0, <1>4 DEF SetVerify, TypeOK
    <2>2. ASSUME NEW c \in Conn
          PROVE  /\ conn'[c] \in ConnType
                 /\ conn'[c].at = conn[c].at /\ conn'[c].peer = conn[c].peer
                 /\ conn'[c].walk = conn[c].walk /\ conn'[c].received = conn[c].received
                 /\ conn'[c].sockets = conn[c].sockets
                 /\ conn'[c].strict => conn[c].strict /\ verify
      <3> DEFINE s == conn[c].strict /\ verify
      <3>1. conn[c] \in ConnType /\ s \in BOOLEAN /\ conn'[c] = [conn[c] EXCEPT !.strict = s]
        BY <1>0, <2>1 DEF TypeOK, ConnType
      <3>2. s => conn[c].strict /\ verify
        OBVIOUS
      <3> HIDE DEF s
      <3> QED
        BY <3>1, <3>2 DEF ConnType
    <2>3. TypeOK'
      BY <1>0, <1>1, <2>1, <2>2 DEF TypeOK
    <2>4. DescriptorsClosed' /\ HoldsWhatItReceived' /\ StrangersApart'
      BY <1>0, <1>1, <2>2 DEF DescriptorsClosed, HoldsWhatItReceived, StrangersApart, At
    <2>5. BacklogPending'
      <3>1. \A i \in 1..Len(backlog) : backlog[i] \in Conn
        BY <1>0 DEF TypeOK
      <3> QED
        BY <1>0, <2>1, <2>2, <3>1 DEF BacklogPending, At
    <2>6. HandlersAgree'
      BY <1>0, <1>1, <2>1, <2>2 DEF HandlersAgree, PeerKnown
    <2> QED
      BY <2>3, <2>4, <2>5, <2>6 DEF ProtectInv
  <1>5. CASE CloseListener
    <2>1. /\ backlog' = <<>> /\ listener'.verify = listener.verify
          /\ listener' \in [open: BOOLEAN, verify: BOOLEAN, loop: {"accept", "sleep", "ended"}]
          /\ conn' = [c \in Conn |-> IF conn[c].at = "pending" THEN NoConn ELSE conn[c]]
      BY <1>0, <1>5 DEF CloseListener, TypeOK, At
    <2>2. NoConn \in ConnType /\ NoConn.at = "none" /\ NoConn.received = 0
      BY ProtectAssumption DEF NoConn, ConnType, Pid
    <2>3. BacklogPending' /\ backlog' \in Seq(Conn)
      BY <2>1 DEF BacklogPending
    <2>4. TypeOK'
      BY <1>0, <1>1, <2>1, <2>2, <2>3 DEF TypeOK
    <2>5. DescriptorsClosed' /\ HoldsWhatItReceived' /\ StrangersApart'
      BY <1>0, <1>1, <2>1, <2>2 DEF DescriptorsClosed, HoldsWhatItReceived, StrangersApart, At
    <2>6. HandlersAgree'
      BY <1>0, <1>1, <2>1, <2>2 DEF HandlersAgree, PeerKnown
    <2> QED
      BY <2>3, <2>4, <2>5, <2>6 DEF ProtectInv
  <1> QED
    BY <1>2, <1>3, <1>4, <1>5

(***************************************************************************)
(* A peer that connects joins the end of the backlog, which did not hold   *)
(* that connection.                                                        *)
(***************************************************************************)
LEMMA ConnectStep ==
  ASSUME ProtectInv, NEW c \in Conn, NEW p \in Process, Connect(c, p)
  PROVE  ProtectInv'
  <1>0. TypeOK /\ DescriptorsClosed /\ HoldsWhatItReceived /\ BacklogPending /\ StrangersApart
        /\ HandlersAgree
    BY DEF ProtectInv
  <1> DEFINE r == [NoConn EXCEPT !.at = "pending", !.peer = p]
  <1>1. /\ backlog \in Seq(Conn) /\ backlog' = Append(backlog, c) /\ conn[c].at = "none"
        /\ conn' = [conn EXCEPT ![c] = r]
        /\ UNCHANGED <<listener, fds, free, parent, strangers, children>>
    BY <1>0 DEF Connect, TypeOK, table, processes, At
  <1>2. r \in ConnType /\ r.at = "pending" /\ r.received = 0 /\ r.peer = p
    <2>1. NoConn \in ConnType /\ NoConn.received = 0
      BY ProtectAssumption DEF NoConn, ConnType, Pid
    <2> QED
      BY <2>1 DEF ConnType
  <1> HIDE DEF r
  <1>3. conn'[c] = r /\ \A d \in Conn \ {c} : conn'[d] = conn[d]
    BY <1>0, <1>1 DEF TypeOK
  <1>4. TypeOK'
    BY <1>0, <1>1, <1>2 DEF TypeOK
  <1>5. DescriptorsClosed' /\ HoldsWhatItReceived'
    BY <1>0, <1>1, <1>2, <1>3 DEF DescriptorsClosed, HoldsWhatItReceived, At
  <1>6. BacklogPending'
    <2>1. /\ Len(backlog') = Len(backlog) + 1 /\ Len(backlog) \in Nat
          /\ \A i \in 1..Len(backlog) : backlog'[i] = backlog[i] /\ backlog[i] \in Conn
          /\ backlog'[Len(backlog) + 1] = c
      BY <1>1
    <2>2. \A i \in 1..Len(backlog) : backlog'[i] # c
      BY <1>0, <1>1, <2>1 DEF BacklogPending, At
    <2>3. \A i \in 1..Len(backlog') : i \in 1..Len(backlog) \/ i = Len(backlog) + 1
      BY <2>1
    <2>4. \A i \in 1..Len(backlog') : conn'[backlog'[i]].at = "pending"
      BY <1>0, <1>2, <1>3, <2>1, <2>2, <2>3 DEF BacklogPending, At
    <2>5. \A i, j \in 1..Len(backlog') : backlog'[i] = backlog'[j] => i = j
      BY <1>0, <2>1, <2>2, <2>3 DEF BacklogPending
    <2> QED
      BY <2>4, <2>5 DEF BacklogPending, At
  <1>7. StrangersApart'
    BY <1>0, <1>1 DEF StrangersApart
  <1>8. HandlersAgree'
    BY <1>0, <1>1, <1>2, <1>3 DEF HandlersAgree, PeerKnown
  <1> QED
    BY <1>4, <1>5, <1>6, <1>7, <1>8 DEF ProtectInv

(***************************************************************************)
(* Processes start, are listed, exit and are taken off the list: nobody    *)
(* becomes a stranger or stops being one while it is looked up, and a      *)
(* stranger's parent stays one, or becomes init.                           *)
(***************************************************************************)
LEMMA ProcessStep ==
  ASSUME ProtectInv, NEW p \in Process, Start(p) \/ Attach(p) \/ Exit(p) \/ Detach(p)
  PROVE  ProtectInv'
  <1>0. TypeOK /\ DescriptorsClosed /\ HoldsWhatItReceived /\ BacklogPending /\ StrangersApart
        /\ HandlersAgree
    BY DEF ProtectInv
  <1>1. UNCHANGED <<listener, backlog, conn, fds, free>>
    BY DEF Start, Attach, Exit, Detach, table
  <1>2. ASSUME parent' \in [Process -> Pid],
               strangers' \subseteq Process, children' \subseteq Process,
               StrangersApart', HandlersAgree'
        PROVE  ProtectInv'
    <2>1. TypeOK'
      BY <1>0, <1>1, <1>2 DEF TypeOK
    <2>2. DescriptorsClosed' /\ HoldsWhatItReceived'
      BY <1>0, <1>1 DEF DescriptorsClosed, HoldsWhatItReceived, At
    <2>3. BacklogPending'
      BY <1>0, <1>1 DEF BacklogPending, At
    <2> QED
      BY <1>2, <2>1, <2>2, <2>3 DEF ProtectInv
  <1>3. CASE Start(p)
    <2>1. PICK q \in {Core, Reaper} \union {r \in Process : Alive(r)} :
            /\ parent' = [parent EXCEPT ![p] = q]
            /\ strangers' = IF q \in strangers \union {Reaper} THEN strangers \union {p}
                            ELSE strangers \ {p}
      BY <1>3 DEF Start
    <2>2. /\ parent[p] = Nobody /\ p \notin children /\ children' = children
          /\ \A c \in Conn : p # conn[c].peer /\ p # conn[c].walk
      BY <1>3 DEF Start, Unused, Alive
    <2>3. /\ q \in Pid /\ q # Nobody /\ q # p
          /\ q \in Process => parent[q] # Nobody
      BY <1>0, <2>2, ProtectAssumption DEF Alive, Pid
    <2>4. /\ parent' \in [Process -> Pid] /\ parent'[p] = q
          /\ \A x \in Process \ {p} : parent'[x] = parent[x] /\ parent[x] # p
      BY <1>0, <2>1, <2>2, <2>3 DEF TypeOK, StrangersApart
    <2>5. /\ strangers' \subseteq Process
          /\ \A x \in Process \ {p} : x \in strangers' <=> x \in strangers
          /\ p \in strangers' => q \in strangers \union {Reaper}
      BY <1>0, <2>1 DEF TypeOK
    <2>6. StrangersApart'
      <3>1. strangers' \intersect children' = {}
        BY <1>0, <2>2, <2>5 DEF StrangersApart, TypeOK
      <3>2. \A x \in strangers' : parent'[x] \in strangers' \union {Reaper, Nobody}
        BY <1>0, <2>3, <2>4, <2>5 DEF StrangersApart, TypeOK
      <3>3. \A x \in Process : parent'[x] \in Process => parent'[parent'[x]] # Nobody
        BY <1>0, <2>3, <2>4 DEF StrangersApart
      <3> QED
        BY <3>1, <3>2, <3>3 DEF StrangersApart
    <2>7. HandlersAgree'
      <3> SUFFICES ASSUME NEW c \in Conn PROVE PeerKnown(conn[c])'
        BY <1>1 DEF HandlersAgree, PeerKnown
      <3>1. PeerKnown(conn[c]) /\ p # conn[c].peer /\ p # conn[c].walk
        BY <1>0, <2>2 DEF HandlersAgree
      <3>2. conn[c].at # "none" => (conn[c].peer \in strangers' <=> conn[c].peer \in strangers)
        BY <2>5, <3>1 DEF PeerKnown
      <3>3. conn[c].walk \in strangers => conn[c].walk \in strangers'
        BY <1>0, <2>5, <3>1 DEF TypeOK
      <3> QED
        BY <1>1, <3>1, <3>2, <3>3 DEF PeerKnown
    <2> QED
      BY <1>0, <1>2, <2>2, <2>4, <2>5, <2>6, <2>7 DEF TypeOK
  <1>4. CASE Attach(p) \/ Detach(p)
    <2>1. UNCHANGED <<parent, strangers>> /\ children' \subseteq children \union {p}
      BY <1>4 DEF Attach, Detach
    <2>2. p \in children' => p \notin strangers
      BY <1>0, <1>4, ProtectAssumption DEF Attach, Detach, StrangersApart, TypeOK
    <2>3. StrangersApart'
      BY <1>0, <2>1, <2>2 DEF StrangersApart
    <2>4. HandlersAgree'
      BY <1>0, <1>1, <2>1 DEF HandlersAgree, PeerKnown
    <2> QED
      BY <1>0, <1>2, <2>1, <2>3, <2>4 DEF TypeOK
  <1>5. CASE Exit(p)
    <2>1. /\ UNCHANGED <<strangers, children>>
          /\ parent' = [q \in Process |-> IF q = p THEN Nobody
                                          ELSE IF parent[q] = p THEN Reaper ELSE parent[q]]
      BY <1>5 DEF Exit
    <2>2. parent' \in [Process -> Pid]
      BY <1>0, <2>1 DEF TypeOK, Pid
    <2>3. StrangersApart'
      BY <1>0, <2>1, ProtectAssumption DEF StrangersApart, TypeOK
    <2>4. HandlersAgree'
      BY <1>0, <1>1, <2>1 DEF HandlersAgree, PeerKnown
    <2> QED
      BY <1>0, <1>2, <2>1, <2>2, <2>3, <2>4 DEF TypeOK
  <1> QED
    BY <1>3, <1>4, <1>5

(***************************************************************************)
(* The invariant holds in every state.                                     *)
(***************************************************************************)
THEOREM ProtectInvariance == Spec => []ProtectInv
  <1>1. Init => ProtectInv
    BY ProtectInitInv
  <1>2. ProtectInv /\ [Next]_vars => ProtectInv'
    <2> SUFFICES ASSUME ProtectInv, [Next]_vars PROVE ProtectInv'
      OBVIOUS
    <2>1. CASE UNCHANGED vars
      BY <2>1 DEF vars, table, processes, ProtectInv, TypeOK, DescriptorsClosed,
         HoldsWhatItReceived, BacklogPending, StrangersApart, HandlersAgree, PeerKnown, At
    <2>2. CASE \/ \E verify \in BOOLEAN : Listen(verify) \/ SetVerify(verify)
               \/ CloseListener \/ AcceptError \/ Wake \/ ServeEnd
      BY <2>2, ListenerStep
    <2>3. ASSUME NEW c \in Conn, Accept(c) PROVE ProtectInv'
      BY <2>3, AcceptStep
    <2>4. ASSUME NEW c \in Conn, Handle(c) PROVE ProtectInv'
      BY <2>4, VerifyStep, ReceiveStep DEF Handle
    <2>5. ASSUME NEW c \in Conn, NEW p \in Process, Connect(c, p) PROVE ProtectInv'
      BY <2>5, ConnectStep
    <2>6. ASSUME NEW p \in Process, Start(p) \/ Attach(p) \/ Exit(p) \/ Detach(p)
          PROVE  ProtectInv'
      BY <2>6, ProcessStep
    <2> QED
      BY <2>1, <2>2, <2>3, <2>4, <2>5, <2>6 DEF Next
  <1> QED
    BY <1>1, <1>2, PTL DEF Spec

(***************************************************************************)
(* The variables of the protect server keep their types.                   *)
(***************************************************************************)
THEOREM ProtectTypeInvariant == Spec => []TypeOK
  <1>1. ProtectInv => TypeOK
    BY DEF ProtectInv
  <1> QED
    BY <1>1, ProtectInvariance, PTL

(***************************************************************************)
(* handle serves strangers only when verifyPeer was off for the connection *)
(* at some time, for any number of connections and processes: the walk of  *)
(* descends, which other steps interleave, never leaves them for the core. *)
(***************************************************************************)
THEOREM OnlyDescendantsServed == Spec => []ServedDescend
  <1>1. ProtectInv => ServedDescend
    BY DEF ProtectInv, HandlersAgree, PeerKnown, ServedDescend, At
  <1> QED
    BY <1>1, ProtectInvariance, PTL

(***************************************************************************)
(* Every descriptor of a request is closed exactly once, whatever the size *)
(* of the table and of the message (handle, receiveSocket).                *)
(***************************************************************************)
THEOREM EveryDescriptorClosed == Spec => []DescriptorsClosed
  <1>1. ProtectInv => DescriptorsClosed
    BY DEF ProtectInv
  <1> QED
    BY <1>1, ProtectInvariance, PTL

(***************************************************************************)
(* The protector gets the one socket of a message that carried exactly one *)
(* (receiveSocket).                                                        *)
(***************************************************************************)
THEOREM ExactlyOneSocket == Spec => []OneSocketPerRequest
  <1>1. ProtectInv => OneSocketPerRequest
    BY DEF ProtectInv, HoldsWhatItReceived, OneSocketPerRequest
  <1> QED
    BY <1>1, ProtectInvariance, PTL
-----------------------------------------------------------------------------
(* The table of descriptors: what is not free is open for a request.       *)

OpenOf(f) == {d \in Conn \X Nat : 1 <= d[2] /\ d[2] <= f[d[1]]}

\* So many descriptors are open, and so many can be opened.
Accounts(f, n) == IsFiniteSet(OpenOf(f)) /\ Cardinality(OpenOf(f)) + n = MaxFds

TableAccounted == Accounts(fds, free)

\* A full table is full of the descriptors of handlers, which will close them.
FullTableIsBusy == free = 0 => \E c \in Conn : conn[c].at \notin {"none", "pending"}

LEMMA OpenOne ==
  ASSUME NEW f \in [Conn -> Nat], NEW n \in Nat, NEW c \in Conn, n > 0, Accounts(f, n)
  PROVE  Accounts([f EXCEPT ![c] = @ + 1], n - 1)
  <1> DEFINE g == [f EXCEPT ![c] = @ + 1]
             x == <<c, f[c] + 1>>
  <1>1. f[c] \in Nat /\ g[c] = f[c] + 1 /\ \A d \in Conn \ {c} : g[d] = f[d]
    OBVIOUS
  <1>2. x \in Conn \X Nat /\ x \notin OpenOf(f)
    BY <1>1 DEF OpenOf
  <1>3. OpenOf(g) = OpenOf(f) \union {x}
    <2>1. ASSUME NEW d \in Conn \X Nat
          PROVE  d \in OpenOf(g) <=> d \in OpenOf(f) \union {x}
      <3>1. d[1] \in Conn /\ d[2] \in Nat /\ d = <<d[1], d[2]>> /\ x[1] = c /\ x[2] = f[c] + 1
        OBVIOUS
      <3>2. d = x <=> d[1] = c /\ d[2] = f[c] + 1
        BY <3>1
      <3>3. CASE d[1] = c
        BY <1>1, <3>1, <3>2, <3>3 DEF OpenOf
      <3>4. CASE d[1] # c
        BY <1>1, <3>1, <3>2, <3>4 DEF OpenOf
      <3> QED
        BY <3>3, <3>4
    <2> QED
      BY <1>2, <2>1 DEF OpenOf
  <1>4. /\ IsFiniteSet(OpenOf(g))
        /\ Cardinality(OpenOf(g)) = Cardinality(OpenOf(f)) + 1
    <2> DEFINE D == OpenOf(f)
    <2>1. IsFiniteSet(D)
      BY DEF Accounts
    <2> HIDE DEF g, x, D
    <2>2. OpenOf(g) = D \union {x} /\ x \notin D
      BY <1>2, <1>3 DEF D
    <2>3. IsFiniteSet(OpenOf(g)) /\ Cardinality(OpenOf(g)) = Cardinality(D) + 1
      BY ONLY <2>1, <2>2, FS_AddElement
    <2> QED
      BY <2>3 DEF D
  <1>5. Cardinality(OpenOf(f)) \in Nat
    BY FS_CardinalityType DEF Accounts
  <1> QED
    BY <1>4, <1>5 DEF Accounts

LEMMA CloseOne ==
  ASSUME NEW f \in [Conn -> Nat], NEW n \in Nat, NEW c \in Conn, f[c] > 0, Accounts(f, n)
  PROVE  Accounts([f EXCEPT ![c] = @ - 1], n + 1)
  <1> DEFINE g == [f EXCEPT ![c] = @ - 1]
             x == <<c, f[c]>>
  <1>1. f[c] \in Nat /\ g[c] = f[c] - 1 /\ \A d \in Conn \ {c} : g[d] = f[d]
    OBVIOUS
  <1>2. x \in Conn \X Nat /\ x \in OpenOf(f)
    BY <1>1 DEF OpenOf
  <1>3. OpenOf(g) = OpenOf(f) \ {x}
    <2>1. ASSUME NEW d \in Conn \X Nat
          PROVE  d \in OpenOf(g) <=> d \in OpenOf(f) \ {x}
      <3>1. d[1] \in Conn /\ d[2] \in Nat /\ d = <<d[1], d[2]>> /\ x[1] = c /\ x[2] = f[c]
        OBVIOUS
      <3>2. d = x <=> d[1] = c /\ d[2] = f[c]
        BY <3>1
      <3>3. CASE d[1] = c
        BY <1>1, <3>1, <3>2, <3>3 DEF OpenOf
      <3>4. CASE d[1] # c
        BY <1>1, <3>1, <3>2, <3>4 DEF OpenOf
      <3> QED
        BY <3>3, <3>4
    <2> QED
      BY <1>2, <2>1 DEF OpenOf
  <1>4. /\ IsFiniteSet(OpenOf(g))
        /\ Cardinality(OpenOf(g)) = Cardinality(OpenOf(f)) - 1
    <2> DEFINE D == OpenOf(f)
    <2>1. IsFiniteSet(D)
      BY DEF Accounts
    <2> HIDE DEF g, x, D
    <2>2. OpenOf(g) = D \ {x} /\ x \in D
      BY <1>2, <1>3 DEF D
    <2>3. IsFiniteSet(OpenOf(g)) /\ Cardinality(OpenOf(g)) = Cardinality(D) - 1
      BY ONLY <2>1, <2>2, FS_RemoveElement
    <2> QED
      BY <2>3 DEF D
  <1>5. Cardinality(OpenOf(f)) \in Nat
    BY FS_CardinalityType DEF Accounts
  <1> QED
    BY <1>4, <1>5 DEF Accounts

\* Open and Close, of the numbers that occur: a connection, or what fits into oob.
LEMMA OpenAccounted ==
  ASSUME TypeOK, TableAccounted, NEW c \in Conn, NEW n \in 0..2, n <= free, Open(c, n)
  PROVE  TableAccounted'
  <1> DEFINE f == [fds EXCEPT ![c] = @ + 1]
             g == [f EXCEPT ![c] = @ + 1]
  <1>1. /\ fds \in [Conn -> Nat] /\ fds[c] \in Nat /\ free \in Nat
        /\ f \in [Conn -> Nat] /\ f[c] = fds[c] + 1
    BY DEF TypeOK
  <1>2. fds' = [fds EXCEPT ![c] = fds[c] + n] /\ free' = free - n
    BY DEF Open
  <1>3. CASE n = 0
    <2>1. fds' = fds /\ free' = free
      BY <1>1, <1>2, <1>3
    <2> QED
      BY <2>1 DEF TableAccounted
  <1>4. free > 0 => Accounts(f, free - 1)
    BY <1>1, OpenOne DEF TableAccounted
  <1>5. CASE n = 1
    BY <1>1, <1>2, <1>4, <1>5 DEF TableAccounted
  <1>6. CASE n = 2
    <2>1. free - 1 \in Nat /\ free - 1 > 0 /\ (free - 1) - 1 = free - 2
      BY <1>1, <1>6
    <2>2. Accounts(f, free - 1)
      BY <1>1, <1>4, <2>1
    <2>3. Accounts(g, (free - 1) - 1)
      <3> HIDE DEF f
      <3> QED
        BY <1>1, <2>1, <2>2, OpenOne
    <2>4. g = [fds EXCEPT ![c] = fds[c] + 2]
      BY <1>1
    <2> QED
      BY <1>2, <1>6, <2>1, <2>3, <2>4 DEF TableAccounted
  <1> QED
    BY <1>3, <1>5, <1>6

LEMMA CloseAccounted ==
  ASSUME TypeOK, TableAccounted, NEW c \in Conn, NEW n \in 0..2, n <= fds[c], Close(c, n)
  PROVE  TableAccounted'
  <1> DEFINE f == [fds EXCEPT ![c] = @ - 1]
             g == [f EXCEPT ![c] = @ - 1]
  <1>1. /\ fds \in [Conn -> Nat] /\ fds[c] \in Nat /\ free \in Nat
        /\ fds[c] > 0 => f \in [Conn -> Nat] /\ f[c] = fds[c] - 1
    BY DEF TypeOK
  <1>2. fds' = [fds EXCEPT ![c] = fds[c] - n] /\ free' = free + n
    BY DEF Close
  <1>3. CASE n = 0
    <2>1. fds' = fds /\ free' = free
      BY <1>1, <1>2, <1>3
    <2> QED
      BY <2>1 DEF TableAccounted
  <1>4. fds[c] > 0 => Accounts(f, free + 1)
    BY <1>1, CloseOne DEF TableAccounted
  <1>5. CASE n = 1
    BY <1>1, <1>2, <1>4, <1>5 DEF TableAccounted
  <1>6. CASE n = 2
    <2>1. fds[c] > 0 /\ f[c] > 0 /\ free + 1 \in Nat /\ (free + 1) + 1 = free + 2
      BY <1>1, <1>6
    <2>2. Accounts(f, free + 1) /\ f \in [Conn -> Nat]
      BY <1>1, <1>4, <2>1
    <2>3. Accounts(g, (free + 1) + 1)
      <3> HIDE DEF f
      <3> QED
        BY <2>1, <2>2, CloseOne
    <2>4. g = [fds EXCEPT ![c] = fds[c] - 2]
      BY <1>1, <2>1
    <2> QED
      BY <1>2, <1>6, <2>1, <2>3, <2>4 DEF TableAccounted
  <1> QED
    BY <1>3, <1>5, <1>6

LEMMA TableStep ==
  ASSUME ProtectInv, TableAccounted, [Next]_vars
  PROVE  TableAccounted'
  <1>1. /\ TypeOK /\ DescriptorsClosed /\ HoldsWhatItReceived
        /\ \A n \in 0..Room : n \in 0..2
    BY ProtectAssumption DEF ProtectInv
  <1>2. CASE UNCHANGED table
    BY <1>2 DEF table, TableAccounted
  <1>3. ASSUME NEW c \in Conn, Accept(c) PROVE TableAccounted'
    <2>1. 1 \in 0..2 /\ 1 <= free
      BY <1>1, <1>3 DEF Accept, TypeOK
    <2> QED
      BY <1>1, <1>3, <2>1, OpenAccounted DEF Accept
  <1>4. ASSUME NEW c \in Conn, Receive(c) PROVE TableAccounted'
    <2>1. PICK n \in 0..MaxSockets : Open(c, Installed(n))
      BY <1>4 DEF Receive
    <2>2. Installed(n) \in 0..2 /\ Installed(n) <= free
      BY <1>1, InstalledFits
    <2> QED
      BY <1>1, <2>1, <2>2, OpenAccounted
  <1>5. ASSUME NEW c \in Conn, Discard(c) \/ Protect(c) PROVE TableAccounted'
    <2>1. Close(c, conn[c].received) /\ conn[c].at \in {"discard", "protect"}
      BY <1>5 DEF Discard, Protect, At
    <2>2. conn[c].received \in 0..2 /\ conn[c].received \in Nat
      BY <1>1 DEF TypeOK, ConnType
    <2>3. fds[c] = 1 + conn[c].received
      BY <1>1, <2>1 DEF DescriptorsClosed
    <2>4. conn[c].received <= fds[c]
      BY <2>2, <2>3
    <2> QED
      BY <1>1, <2>1, <2>2, <2>4, CloseAccounted
  <1>6. ASSUME NEW c \in Conn, Reply(c) PROVE TableAccounted'
    <2>1. Close(c, 1) /\ conn[c].at = "reply"
      BY <1>6 DEF Reply, At
    <2>2. fds[c] = 1
      BY <1>1, <2>1 DEF DescriptorsClosed, HoldsWhatItReceived
    <2> QED
      BY <1>1, <2>1, <2>2, CloseAccounted
  <1>7. ASSUME NEW c \in Conn,
               Sample(c) \/ IsChild(c) \/ Walk(c) \/ Descends(c) \/ Refuse(c) \/ ReceiveError(c)
        PROVE  UNCHANGED table
    BY <1>7 DEF Sample, IsChild, Walk, Descends, Refuse, ReceiveError
  <1>8. ASSUME \/ \E verify \in BOOLEAN : Listen(verify) \/ SetVerify(verify)
               \/ CloseListener \/ AcceptError \/ Wake \/ ServeEnd
               \/ \E c \in Conn, p \in Process : Connect(c, p)
               \/ \E p \in Process : Start(p) \/ Attach(p) \/ Exit(p) \/ Detach(p)
               \/ UNCHANGED vars
        PROVE  UNCHANGED table
    BY <1>8 DEF Listen, SetVerify, CloseListener, AcceptError, Wake, ServeEnd, Connect,
                Start, Attach, Exit, Detach, vars
  <1> QED
    BY <1>2, <1>3, <1>4, <1>5, <1>6, <1>7, <1>8 DEF Next, Handle

(***************************************************************************)
(* No descriptor of the table is lost: when Accept or a message finds it   *)
(* full, handlers are at work that close theirs, so serve's sleep and      *)
(* retry is worth it (serve, handle, receiveSocket).                       *)
(***************************************************************************)
THEOREM FullTableIsBusyAlways == Spec => [](TableAccounted /\ FullTableIsBusy)
  <1>1. Init => TableAccounted
    <2> SUFFICES ASSUME Init PROVE TableAccounted
      OBVIOUS
    <2>1. OpenOf(fds) = {}
      BY DEF Init, OpenOf
    <2>2. IsFiniteSet(OpenOf(fds)) /\ Cardinality(OpenOf(fds)) = 0
      BY ONLY <2>1, FS_EmptySet
    <2>3. free = MaxFds /\ MaxFds \in Nat
      BY ProtectAssumption DEF Init
    <2> QED
      BY <2>2, <2>3 DEF TableAccounted, Accounts
  <1>2. ProtectInv /\ TableAccounted /\ [Next]_vars => TableAccounted'
    BY TableStep
  <1>3. ProtectInv /\ TableAccounted => FullTableIsBusy
    <2> SUFFICES ASSUME ProtectInv, TableAccounted, free = 0
                 PROVE  \E c \in Conn : conn[c].at \notin {"none", "pending"}
      BY DEF FullTableIsBusy
    <2>1. Cardinality(OpenOf(fds)) \in Nat /\ Cardinality(OpenOf(fds)) + 0 = MaxFds
      BY FS_CardinalityType DEF TableAccounted, Accounts
    <2>2. OpenOf(fds) # {}
      BY <2>1, FS_EmptySet, ProtectAssumption
    <2>3. PICK c \in Conn : fds[c] # 0
      BY <2>2 DEF OpenOf
    <2> QED
      BY <2>3 DEF ProtectInv, DescriptorsClosed
  <1> QED
    BY <1>1, <1>2, <1>3, ProtectInvariance, PTL DEF Spec

-----------------------------------------------------------------------------
(* descends: the walk of a handler, while the processes go on.             *)

\* A path through the processes: from p, each to its parent.
Follows(h, par, p) ==
    /\ h[0] = p
    /\ \A n \in Nat : h[n + 1] = IF h[n] \in Process THEN par[h[n]] ELSE h[n]

\* Ancestor is such a path.
LEMMA AncestorFollows ==
    ASSUME parent \in [Process -> Pid], NEW p \in Process
    PROVE  Follows(Ancestor(p), parent, p)
<1> DEFINE F == [q \in Pid |-> IF q \in Process THEN parent[q] ELSE q]
           Solves(f) == f = [n \in Nat |-> IF n = 0 THEN p
                                           ELSE IF f[n - 1] \in Process THEN parent[f[n - 1]] ELSE f[n - 1]]
           a == CHOOSE f : Solves(f)
<1>1. Ancestor(p) = a
  BY DEF Ancestor
<1>2. F \in [Pid -> Pid] /\ p \in Pid
  BY DEF Pid
<1>3. PICK h \in [Nat -> Pid] : Iterates(h, F, p)
  <2> HIDE DEF F
  <2> QED
    BY <1>2, IterateExists
<1>4. Solves(h)
  <2>1. \A n \in Nat : n # 0 => F[h[n - 1]] = IF h[n - 1] \in Process THEN parent[h[n - 1]] ELSE h[n - 1]
    OBVIOUS
  <2>2. h = [n \in Nat |-> IF n = 0 THEN p ELSE F[h[n - 1]]]
    BY <1>3 DEF Iterates
  <2> HIDE DEF F
  <2> QED
    BY <2>1, <2>2
<1>5. Solves(a)
  <2> HIDE DEF Solves
  <2> QED
    BY <1>4
<1> HIDE DEF a
<1>6. a[0] = p
  BY <1>5
<1>7. ASSUME NEW n \in Nat PROVE a[n + 1] = IF a[n] \in Process THEN parent[a[n]] ELSE a[n]
  <2>1. n + 1 \in Nat /\ n + 1 # 0 /\ (n + 1) - 1 = n
    OBVIOUS
  <2> QED
    BY <1>5, <2>1
<1> QED
  BY <1>1, <1>6, <1>7 DEF Follows

\* Outside of the processes a path goes no further.
LEMMA PathEnds ==
    ASSUME NEW h, NEW par, NEW p, Follows(h, par, p), NEW k \in Nat, h[k] \notin Process
    PROVE  \A n \in Nat : n >= k => h[n] = h[k]
<1> DEFINE N == {n \in Nat : n >= k => h[n] = h[k]}
<1>1. 0 \in N
  OBVIOUS
<1>2. ASSUME NEW n \in Nat, n \in N PROVE n + 1 \in N
  <2> SUFFICES ASSUME n + 1 >= k PROVE h[n + 1] = h[k]
    OBVIOUS
  <2>1. CASE n >= k
    BY <1>2, <2>1 DEF Follows
  <2>2. CASE ~(n >= k)
    <3>1. n + 1 = k
      BY <2>2
    <3> QED
      BY <3>1
  <2> QED
    BY <2>1, <2>2
<1>3. Nat \subseteq N
  <2> HIDE DEF N
  <2> QED
    BY <1>1, <1>2, NatInductive
<1> QED
  BY <1>3

\* Two paths from one process are the same as long as the parents on one are.
LEMMA PathsSame ==
    ASSUME NEW g, NEW h, NEW par, NEW par2, NEW p, Follows(g, par, p), Follows(h, par2, p),
           NEW n \in Nat,
           \A k \in Nat : k < n /\ h[k] \in Process => par2[h[k]] = par[h[k]]
    PROVE  \A k \in Nat : k <= n => h[k] = g[k]
<1> DEFINE N == {k \in Nat : k <= n => h[k] = g[k]}
<1>1. 0 \in N
  BY DEF Follows
<1>2. ASSUME NEW k \in Nat, k \in N PROVE k + 1 \in N
  <2> SUFFICES ASSUME k + 1 <= n PROVE h[k + 1] = g[k + 1]
    OBVIOUS
  <2>1. k < n /\ h[k] = g[k]
    BY <1>2
  <2> QED
    BY <2>1 DEF Follows
<1>3. Nat \subseteq N
  <2> HIDE DEF N
  <2> QED
    BY <1>1, <1>2, NatInductive
<1> QED
  BY <1>3

(***************************************************************************)
(* The inductive invariant: if the peer descends from the core at all, as  *)
(* the processes are now, a walk is where so many steps on that path lead, *)
(* and has the core still before it.  An exit can only take such paths     *)
(* away, and the path a new process opens is that of no peer.              *)
(***************************************************************************)
OnPath(r, path) ==
    \A n \in 0..(MaxAncestry - 1) :
        path[n] = Core => MaxAncestry - r.left <= n /\ r.walk = path[MaxAncestry - r.left]

WalkFollows == \A c \in Conn : conn[c].at = "walk" => OnPath(conn[c], Ancestor(conn[c].peer))

\* The same as an implication, whose primed form is needed.
LEMMA AncestorsFollow ==
    parent \in [Process -> Pid] => \A q \in Process : Follows(Ancestor(q), parent, q)
  BY AncestorFollows

\* Whatever a process does, a path to the core that there is afterwards was there.
LEMMA PathWasThere ==
    ASSUME TypeOK, StrangersApart, parent' \in [Process -> Pid], NEW q \in Process,
           NEW p \in Process, (Start(p) /\ p # q) \/ Exit(p),
           NEW n \in Nat, NEW path, Follows(path, parent', q), path[n] = Core
    PROVE  \A k \in Nat : k <= n => path[k] = Ancestor(q)[k]
<1>1. parent \in [Process -> Pid] /\ Follows(Ancestor(q), parent, q)
  BY AncestorsFollow DEF TypeOK
<1>2. SUFFICES ASSUME NEW k \in Nat, k < n, path[k] \in Process
               PROVE  parent'[path[k]] = parent[path[k]]
  BY <1>1, PathsSame
<1>3. k + 1 <= n /\ k + 1 \in Nat /\ path[k + 1] = parent'[path[k]]
  BY <1>2 DEF Follows
<1>4. parent'[path[k]] \notin {Nobody, Reaper}
  <2>1. path[k + 1] \notin Process => path[k + 1] = Core
    BY <1>3, PathEnds
  <2> QED
    BY <1>3, <2>1, ProtectAssumption
<1>5. CASE Exit(p)
  BY <1>1, <1>2, <1>4, <1>5 DEF Exit
<1>6. CASE Start(p) /\ p # q
  <2>1. PICK r : parent' = [parent EXCEPT ![p] = r]
    BY <1>6 DEF Start
  <2>2. parent[p] = Nobody
    BY <1>6 DEF Start, Unused, Alive
  <2> DEFINE N == {i \in Nat : path[i] # p}
  <2>3. 0 \in N
    BY <1>6 DEF Follows
  <2>4. ASSUME NEW i \in Nat, i \in N PROVE i + 1 \in N
    <3> SUFFICES ASSUME path[i + 1] = p PROVE FALSE
      OBVIOUS
    <3>1. path[i] # p /\ path[i + 1] = IF path[i] \in Process THEN parent'[path[i]] ELSE path[i]
      BY <2>4 DEF Follows
    <3>2. path[i] \in Process /\ parent[path[i]] = p
      BY <1>1, <2>1, <3>1
    <3> QED
      BY <2>2, <3>2 DEF StrangersApart
  <2>5. Nat \subseteq N
    <3> HIDE DEF N
    <3> QED
      BY <2>3, <2>4, NatInductive
  <2> QED
    BY <1>1, <1>2, <2>1, <2>5
<1> QED
  BY <1>5, <1>6

\* The invariant depends on the walking handlers and on the processes alone.
LEMMA WalkStays ==
    ASSUME ProtectInv, ProtectInv', WalkFollows,
           \A c \in Conn : conn'[c].at = "walk" =>
               /\ conn[c].at = "walk" /\ conn'[c].peer = conn[c].peer
               /\ conn'[c].walk = conn[c].walk /\ conn'[c].left = conn[c].left,
           \/ parent' = parent
           \/ \E p \in Process : \/ Exit(p)
                                 \/ Start(p) /\ \A c \in Conn : p # conn[c].peer
    PROVE  WalkFollows'
<1>1. TypeOK /\ StrangersApart /\ HandlersAgree /\ parent \in [Process -> Pid] /\ parent' \in [Process -> Pid]
  BY DEF ProtectInv, TypeOK
<1>2. (parent \in [Process -> Pid] => \A q \in Process : Follows(Ancestor(q), parent, q))'
  BY AncestorsFollow, PTL
<1>3. SUFFICES ASSUME NEW c \in Conn, conn'[c].at = "walk"
               PROVE  OnPath(conn[c], Ancestor(conn[c].peer))'
  BY DEF WalkFollows
<1>4. PICK q : q = conn'[c].peer
  OBVIOUS
<1>5. PICK path : path = Ancestor(q)'
  OBVIOUS
<1>6. (Ancestor(conn[c].peer))' = path /\ q = conn[c].peer
  BY <1>3, <1>4, <1>5
<1>7. q \in Process /\ conn[c].at = "walk" /\ OnPath(conn[c], Ancestor(q))
  BY <1>1, <1>3, <1>4 DEF HandlersAgree, PeerKnown, WalkFollows
<1>8. Follows(path, parent', q)
  BY <1>1, <1>2, <1>5, <1>7
<1>9. ASSUME NEW n \in 0..(MaxAncestry - 1), path[n] = Core
      PROVE  MaxAncestry - conn[c].left <= n /\ conn[c].walk = path[MaxAncestry - conn[c].left]
  <2>1. n \in Nat /\ MaxAncestry - conn[c].left \in Nat
    BY <1>1, ProtectAssumption DEF TypeOK, ConnType
  <2>2. \A k \in Nat : k <= n => path[k] = Ancestor(q)[k]
    <3>1. CASE parent' = parent
      <4>1. Follows(Ancestor(q), parent, q)
        BY <1>1, <1>7, AncestorFollows
      <4> QED
        BY <1>8, <2>1, <3>1, <4>1, PathsSame
    <3>2. CASE \E p \in Process : Exit(p) \/ (Start(p) /\ \A d \in Conn : p # conn[d].peer)
      <4>1. PICK p \in Process : Exit(p) \/ (Start(p) /\ p # q)
        BY <1>6, <3>2
      <4> QED
        BY <1>1, <1>7, <1>8, <1>9, <2>1, <4>1, PathWasThere
    <3> QED
      BY <3>1, <3>2
  <2>3. Ancestor(q)[n] = Core
    BY <1>9, <2>1, <2>2
  <2> QED
    BY <1>7, <2>1, <2>2, <2>3 DEF OnPath
<1>10. OnPath(conn[c], path)
  BY <1>9 DEF OnPath
<1> QED
  BY <1>3, <1>6, <1>10 DEF OnPath

\* Every step keeps a walk on its path.
LEMMA WalkKept ==
    ASSUME ProtectInv, ProtectInv', WalkFollows, [Next]_vars
    PROVE  WalkFollows'
<1>1. TypeOK /\ HandlersAgree
  BY DEF ProtectInv
<1>2. CASE \/ UNCHANGED vars
           \/ \E verify \in BOOLEAN : Listen(verify) \/ SetVerify(verify)
           \/ CloseListener \/ AcceptError \/ Wake \/ ServeEnd
           \/ \E c \in Conn : Accept(c)
           \/ \E c \in Conn, p \in Process : Connect(c, p)
           \/ \E c \in Conn : \/ Sample(c) \/ Descends(c) \/ Refuse(c) \/ Receive(c)
                              \/ ReceiveError(c) \/ Discard(c) \/ Protect(c) \/ Reply(c)
           \/ \E p \in Process : Attach(p) \/ Detach(p)
  <2>1. parent' = parent
    BY <1>2 DEF vars, Listen, SetVerify, CloseListener, AcceptError, Wake, ServeEnd, Accept, Connect,
       Sample, Descends, Refuse, Receive, ReceiveError, Discard, Protect, Reply, Attach, Detach, processes
  <2>2. ASSUME NEW c \in Conn, conn'[c].at = "walk"
        PROVE  /\ conn[c].at = "walk" /\ conn'[c].peer = conn[c].peer
               /\ conn'[c].walk = conn[c].walk /\ conn'[c].left = conn[c].left
    <3>0. conn \in [Conn -> ConnType] /\ conn[c] \in ConnType /\ NoConn.at = "none"
      BY <1>1 DEF TypeOK, NoConn
    <3>1. ASSUME NEW d \in Conn, NEW r, r.at # "walk", conn' = [conn EXCEPT ![d] = r]
          PROVE  conn'[c] = conn[c]
      BY <2>2, <3>0, <3>1
    <3>2. ASSUME NEW d \in Conn, Accept(d) PROVE conn'[c] = conn[c]
      <4> DEFINE r == [conn[d] EXCEPT !.at = "sample", !.strict = listener.verify]
      <4>1. conn' = [conn EXCEPT ![d] = r] /\ conn[d] \in ConnType
        BY <3>0, <3>2 DEF Accept
      <4>2. r.at # "walk"
        BY <4>1 DEF ConnType
      <4> HIDE DEF r
      <4> QED
        BY <3>1, <4>1, <4>2
    <3>3. ASSUME NEW d \in Conn, NEW p \in Process, Connect(d, p) PROVE conn'[c] = conn[c]
      <4> DEFINE r == [NoConn EXCEPT !.at = "pending", !.peer = p]
      <4>1. conn' = [conn EXCEPT ![d] = r]
        BY <3>3 DEF Connect
      <4>2. r.at # "walk"
        BY DEF NoConn
      <4> HIDE DEF r
      <4> QED
        BY <3>1, <4>1, <4>2
    <3>4. ASSUME NEW d \in Conn, Sample(d) \/ ReceiveError(d) PROVE conn'[c] = conn[c]
      <4>1. PICK place : place # "walk" /\ conn' = [conn EXCEPT ![d].at = place]
        BY <3>4 DEF Sample, ReceiveError, Goto
      <4> QED
        BY <2>2, <3>0, <4>1
    <3>5. ASSUME NEW d \in Conn, Descends(d) \/ Refuse(d) \/ Discard(d) \/ Protect(d) \/ Reply(d)
          PROVE  conn'[c] = conn[c]
      <4>1. \E r : r.at # "walk" /\ conn' = [conn EXCEPT ![d] = r]
        <5> DEFINE told == [conn[d] EXCEPT !.at = "reply", !.walk = Nobody, !.left = 0]
                   served == [conn[d] EXCEPT !.at = "receive", !.walk = Nobody, !.left = 0]
                   closed == [conn[d] EXCEPT !.at = "reply", !.received = 0, !.sockets = 0]
        <5>1. conn[d] \in ConnType
          BY <3>0
        <5>2. told.at = "reply" /\ served.at = "receive" /\ closed.at = "reply"
          BY <5>1 DEF ConnType
        <5>3. \/ conn' = [conn EXCEPT ![d] = told] \/ conn' = [conn EXCEPT ![d] = served]
              \/ conn' = [conn EXCEPT ![d] = closed] \/ conn' = [conn EXCEPT ![d] = NoConn]
          BY <3>5 DEF Descends, Refuse, Discard, Protect, Reply
        <5> HIDE DEF told, served, closed
        <5> QED
          BY <3>0, <5>2, <5>3
      <4> QED
        BY <3>1, <4>1
    <3>6. ASSUME NEW d \in Conn, Receive(d) PROVE conn'[c] = conn[c]
      <4>1. PICK n \in 0..MaxSockets : conn' = [conn EXCEPT ![d] = [conn[d] EXCEPT
                  !.at = IF Installed(n) = 1 /\ n = 1 THEN "protect" ELSE "discard",
                  !.received = Installed(n), !.sockets = n]]
        BY <3>6 DEF Receive
      <4>2. [conn[d] EXCEPT !.at = IF Installed(n) = 1 /\ n = 1 THEN "protect" ELSE "discard",
                            !.received = Installed(n), !.sockets = n].at # "walk"
        BY <3>0 DEF ConnType
      <4> QED
        BY <3>1, <4>1, <4>2
    <3>7. CASE \E verify \in BOOLEAN : SetVerify(verify)
      <4>1. PICK verify \in BOOLEAN : conn' = [d \in Conn |-> [conn[d] EXCEPT !.strict = @ /\ verify]]
        BY <3>7 DEF SetVerify
      <4>2. conn'[c] = [conn[c] EXCEPT !.strict = conn[c].strict /\ verify]
        BY <4>1
      <4> DEFINE b == conn[c].strict /\ verify
      <4> HIDE DEF b
      <4>3. conn'[c] = [conn[c] EXCEPT !.strict = b]
        BY <4>2 DEF b
      <4> QED
        BY <2>2, <3>0, <4>3 DEF ConnType
    <3>8. CASE CloseListener
      BY <2>2, <3>0, <3>8 DEF CloseListener
    <3>9. CASE conn' = conn
      BY <2>2, <3>9
    <3> QED
      BY <1>2, <2>2, <3>2, <3>3, <3>4, <3>5, <3>6, <3>7, <3>8, <3>9
      DEF vars, Listen, AcceptError, Wake, ServeEnd, Attach, Detach
  <2> QED
    BY <2>1, <2>2, WalkStays
<1>3. ASSUME NEW p \in Process, Start(p) \/ Exit(p) PROVE WalkFollows'
  BY <1>3, WalkStays DEF Start, Unused, Exit
<1>4. ASSUME NEW c \in Conn, IsChild(c) \/ Walk(c) PROVE WalkFollows'
  <2>1. parent' = parent /\ conn \in [Conn -> ConnType] /\ parent \in [Process -> Pid]
    BY <1>1, <1>4 DEF IsChild, Walk, processes, TypeOK
  <2>2. (\A d \in Conn \ {c} : conn'[d] = conn[d]) /\ conn'[c].peer = conn[c].peer
    BY <1>4, <2>1 DEF IsChild, Walk, Goto, ConnType
  <2>3. \A p : Ancestor(p)' = Ancestor(p)
    BY <2>1 DEF Ancestor
  <2>4. ASSUME conn'[c].at = "walk" PROVE OnPath(conn'[c], Ancestor(conn[c].peer))
    <3> DEFINE path == Ancestor(conn[c].peer)
               r == conn'[c]
               k == MaxAncestry - conn[c].left
    <3>1. conn[c].peer \in Process /\ Follows(path, parent, conn[c].peer) /\ conn[c] \in ConnType
      <4>1. conn[c].peer \in Process
        BY <1>1, <1>4 DEF HandlersAgree, PeerKnown, IsChild, Walk, At
      <4> QED
        BY <2>1, <4>1, AncestorFollows
    <3> HIDE DEF path
    <3>2. CASE IsChild(c)
      <4>1. r.walk = conn[c].peer /\ r.left = MaxAncestry
        <5>1. CASE conn' = [conn EXCEPT ![c].at = "receive"]
          BY <2>1, <2>4, <3>1, <5>1 DEF ConnType
        <5>2. CASE conn' = [conn EXCEPT ![c] = [conn[c] EXCEPT
                       !.at = "walk", !.walk = conn[c].peer, !.left = MaxAncestry]]
          BY <2>1, <3>1, <5>2 DEF ConnType
        <5> QED
          BY <3>2, <5>1, <5>2 DEF IsChild, Goto
      <4>2. path[0] = conn[c].peer /\ MaxAncestry - MaxAncestry = 0
        BY <3>1, ProtectAssumption DEF Follows
      <4> HIDE DEF r
      <4> QED
        BY <4>1, <4>2, ProtectAssumption DEF OnPath, path, r
    <3>3. CASE Walk(c)
      <4>1. /\ conn[c].at = "walk" /\ conn[c].left \in 0..MaxAncestry /\ conn[c].left > 0
            /\ conn[c].walk \in Process /\ r.walk = parent[conn[c].walk] /\ r.left = conn[c].left - 1
        BY <2>1, <3>1, <3>3 DEF Walk, At, ConnType
      <4>2. OnPath(conn[c], path)
        BY <4>1 DEF WalkFollows, path
      <4>3. k \in Nat /\ MaxAncestry - r.left = k + 1
        BY <4>1, ProtectAssumption
      <4> HIDE DEF r, k
      <4>4. ASSUME NEW n \in 0..(MaxAncestry - 1), path[n] = Core
            PROVE  k + 1 <= n /\ r.walk = path[k + 1]
        <5>1. k <= n /\ conn[c].walk = path[k]
          BY <4>2, <4>4 DEF OnPath, k
        <5>2. k # n
          BY <4>1, <4>4, <5>1, ProtectAssumption
        <5>3. path[k + 1] = parent[path[k]]
          BY <3>1, <4>1, <4>3, <5>1 DEF Follows
        <5> QED
          BY <4>1, <4>3, <5>1, <5>2, <5>3
      <4> QED
        BY <4>3, <4>4 DEF OnPath, path, r
    <3> QED
      BY <1>4, <3>2, <3>3
  <2>5. ASSUME NEW d \in Conn, conn'[d].at = "walk" PROVE OnPath(conn[d], Ancestor(conn[d].peer))'
    <3>1. PICK q : q = conn[d].peer
      OBVIOUS
    <3>2. (Ancestor(conn[d].peer))' = Ancestor(q)
      BY <2>2, <2>3, <3>1
    <3>3. OnPath(conn'[d], Ancestor(q))
      BY <2>2, <2>4, <2>5, <3>1 DEF WalkFollows
    <3> QED
      BY <3>2, <3>3 DEF OnPath
  <2> QED
    BY <2>5 DEF WalkFollows
<1> QED
  BY <1>2, <1>3, <1>4 DEF Next, Handle

(***************************************************************************)
(* README.md:62 and the other side of verifyPeer: descends refuses nobody  *)
(* who descends from the core within maxAncestry steps when it gives up,   *)
(* whatever has started, exited and been adopted since the walk began.     *)
(***************************************************************************)
THEOREM RefusedNeverDescend == Spec => RefusedDoNotDescend
<1>1. Init => WalkFollows
  BY DEF Init, NoConn, WalkFollows
<1>2. ProtectInv /\ ProtectInv' /\ WalkFollows /\ [Next]_vars => WalkFollows'
  BY WalkKept
<1>3. ProtectInv /\ WalkFollows /\ [Next]_vars =>
          [\A c \in Conn :
              conn[c].at \in {"child", "walk"} /\ conn'[c].at = "reply"
                  => \A n \in 0..(MaxAncestry - 1) : Ancestor(conn[c].peer)[n] # Core]_vars
  <2> SUFFICES ASSUME ProtectInv, WalkFollows, Next, NEW c \in Conn,
                      conn[c].at \in {"child", "walk"}, conn'[c].at = "reply",
                      NEW n \in 0..(MaxAncestry - 1), Ancestor(conn[c].peer)[n] = Core
               PROVE  FALSE
    OBVIOUS
  <2>0. /\ conn \in [Conn -> ConnType] /\ conn[c] \in ConnType /\ conn[c].peer \in Process
        /\ Follows(Ancestor(conn[c].peer), parent, conn[c].peer) /\ parent \in [Process -> Pid]
    <3>1. conn \in [Conn -> ConnType] /\ parent \in [Process -> Pid] /\ conn[c].peer \in Process
      BY DEF ProtectInv, TypeOK, HandlersAgree, PeerKnown
    <3> QED
      BY <3>1, AncestorFollows
  <2>1. Refuse(c)
    <3>1. conn'[c] # conn[c]
      BY <2>0
    <3>2. ASSUME NEW d \in Conn, Handle(d) PROVE d = c
      <4>1. conn'[c] # conn[c] => d = c
        BY <2>0, <3>2 DEF Handle, Sample, IsChild, Walk, Descends, Refuse, Receive, ReceiveError,
           Discard, Protect, Reply, Goto
      <4> QED
        BY <3>1, <4>1
    <3>3. ~IsChild(c) /\ ~Walk(c)
      BY <2>0 DEF IsChild, Walk, Goto, ConnType
    <3>4. Handle(c) => Refuse(c)
      BY <2>0, <3>3 DEF Handle, Sample, Descends, Receive, ReceiveError, Discard, Protect, Reply, At,
         Goto, ConnType
    <3>5. ASSUME NEW d \in Conn, Accept(d) \/ \E p \in Process : Connect(d, p) PROVE FALSE
      <4>1. CASE Accept(d)
        <5> DEFINE r == [conn[d] EXCEPT !.at = "sample", !.strict = listener.verify]
        <5>1. conn' = [conn EXCEPT ![d] = r]
          BY <4>1 DEF Accept
        <5>2. r.at = "sample"
          BY <2>0 DEF ConnType
        <5> HIDE DEF r
        <5> QED
          BY <2>0, <3>1, <5>1, <5>2
      <4>2. CASE \E p \in Process : Connect(d, p)
        <5>1. PICK p \in Process : Connect(d, p)
          BY <4>2
        <5> DEFINE r == [NoConn EXCEPT !.at = "pending", !.peer = p]
        <5>2. conn' = [conn EXCEPT ![d] = r]
          BY <5>1 DEF Connect
        <5>3. r.at = "pending"
          BY DEF NoConn
        <5> HIDE DEF r
        <5> QED
          BY <2>0, <3>1, <5>2, <5>3
      <4> QED
        BY <3>5, <4>1, <4>2
    <3>6. ~\E verify \in BOOLEAN : SetVerify(verify)
      BY <2>0 DEF SetVerify, ConnType
    <3>7. ~CloseListener
      BY <2>0 DEF CloseListener, NoConn
    <3> QED
      BY <3>1, <3>2, <3>4, <3>5, <3>6, <3>7 DEF Next, Listen, AcceptError, Wake, ServeEnd, Start,
         Attach, Exit, Detach
  <2> DEFINE path == Ancestor(conn[c].peer)
             k == MaxAncestry - conn[c].left
  <2>2. OnPath(conn[c], path) /\ WalkEnds(c)
    BY <2>1 DEF Refuse, At, WalkFollows
  <2> HIDE DEF path
  <2>3. n \in Nat /\ k \in Nat /\ k <= n /\ conn[c].walk = path[k] /\ path[n] = Core
    BY <2>0, <2>2, ProtectAssumption DEF OnPath, ConnType, path
  <2>4. CASE conn[c].left = 0
    <3>1. MaxAncestry \in Nat /\ k = MaxAncestry
      BY <2>4, ProtectAssumption
    <3>2. n <= MaxAncestry - 1
      BY <3>1
    <3> HIDE DEF k
    <3> QED
      BY <2>3, <3>1, <3>2
  <2>5. CASE conn[c].walk = Reaper
    <3>1. path[k] = Reaper /\ Reaper \notin Process /\ Reaper # Core
      BY <2>3, <2>5, ProtectAssumption
    <3>2. Follows(path, parent, conn[c].peer)
      BY <2>0 DEF path
    <3> HIDE DEF k
    <3>3. path[n] = path[k]
      BY <2>3, <3>1, <3>2, PathEnds
    <3> QED
      BY <2>3, <3>1, <3>3
  <2>6. CASE conn[c].walk \in Process /\ parent[conn[c].walk] = Nobody
    <3>1. path[k + 1] = Nobody /\ k + 1 \in Nat
      BY <2>0, <2>3, <2>6 DEF Follows, path
    <3>2. n # k
      BY <2>3, <2>6, ProtectAssumption
    <3>3. path[n] = Nobody
      <4>1. n >= k + 1 /\ Nobody \notin Process
        BY <2>3, <3>2, ProtectAssumption
      <4>2. Follows(path, parent, conn[c].peer)
        BY <2>0 DEF path
      <4> HIDE DEF k
      <4> QED
        BY <3>1, <4>1, <4>2, PathEnds
    <3> QED
      BY <2>3, <3>3, ProtectAssumption
  <2> QED
    BY <2>2, <2>4, <2>5, <2>6 DEF WalkEnds
<1> QED
  BY <1>1, <1>2, <1>3, ProtectInvariance, PTL DEF Spec, RefusedDoNotDescend
=============================================================================
