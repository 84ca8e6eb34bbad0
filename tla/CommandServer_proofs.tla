------------------------- MODULE CommandServer_proofs -------------------------
(***************************************************************************)
(* The type invariant of CommandServer, NoOrphanPlugins, and who waits for *)
(* whom, for any number of threads and hosts.                              *)
(*                                                                         *)
(* NoOrphanPlugins is not inductive: it says nothing about the thread that *)
(* waits for a host's mutex while another takes the host out of the map.   *)
(* What holds then is that the host is closed already or that the thread   *)
(* which took it out is still on its way to close it (RemovedWillClose),   *)
(* and that a closed host has no plugins but under the hands of the thread *)
(* that closes it (ClosedIsEmpty).  Both rest on who holds the mutex.      *)
(***************************************************************************)
EXTENDS CommandServer, TLAPS

InHost(c, h) == caller[c].host = h

\* Only the thread in Apply or Close has the mutex, and it knows what it closes.
HoldersAgree ==
    \A c \in Caller :
        /\ At(c, "applying") => /\ host[caller[c].host].lock = c
                                /\ ~host[caller[c].host].closed
        /\ At(c, "closing") => /\ host[caller[c].host].lock = c
                               /\ host[caller[c].host].closed

ClosedIsEmpty ==
    \A h \in Host :
        host[h].closed =>
            \/ ~host[h].running /\ ~host[h].serving
            \/ \E c \in Caller : At(c, "closing") /\ InHost(c, h)

RemovedWillClose ==
    \A h \in Host :
        /\ h # current /\ ~host[h].closed
        /\ host[h].running \/ host[h].serving \/ \E c \in Caller : InHost(c, h)
        => \E c \in Caller : At(c, "close") /\ InHost(c, h)

ServerInv == TypeOK /\ HoldersAgree /\ ClosedIsEmpty /\ RemovedWillClose

-----------------------------------------------------------------------------

\* Where Resume and ClosePlugins send a thread, and with what.
LEMMA CallRecords ==
    /\ NoCall \in [at : CallAt, for : Purpose, host : Host \union {NoHost}]
    /\ NoCall.at = "idle" /\ NoCall.host = NoHost
    /\ \A purpose \in Purpose : After(purpose) \in {"service", "stop", "idle"}
    /\ \A a \in CallAt : 
           /\ [NoCall EXCEPT !.at = a] \in [at : CallAt, for : Purpose, host : Host \union {NoHost}]
           /\ [NoCall EXCEPT !.at = a].at = a /\ [NoCall EXCEPT !.at = a].host = NoHost
           /\ \A p \in Purpose :
                 /\ [NoCall EXCEPT !.at = a, !.for = p]
                        \in [at : CallAt, for : Purpose, host : Host \union {NoHost}]
                 /\ [NoCall EXCEPT !.at = a, !.for = p].at = a
                 /\ [NoCall EXCEPT !.at = a, !.for = p].host = NoHost
BY DEF NoCall, After, CallAt, Purpose

\* A step of one call, whatever it does beside.
LEMMA TypeStep ==
    ASSUME TypeOK, NEW c \in Caller,
           NEW to \in [at : CallAt, for : Purpose, host : Host \union {NoHost}],
           to.at \in {"apply", "applying", "close", "closing"} => to.host \in Host,
           caller' = [caller EXCEPT ![c] = to],
           current' \in Host \union {NoHost},
           host' \in [Host -> [lock: Caller \union {NoCaller}, closed: BOOLEAN,
                               running: BOOLEAN, serving: BOOLEAN]],
           UNCHANGED <<socket, service, report>>
    PROVE  TypeOK'
BY DEF TypeOK

\* A thread that lets go of its host, at a position without the mutex, and was
\* not about to close it or finds it closed, disturbs no part.
LEMMA Leaving ==
    ASSUME ServerInv, NEW c \in Caller,
           NEW to \in [at : CallAt, for : Purpose, host : Host \union {NoHost}],
           caller' = [caller EXCEPT ![c] = to],
           to.host = NoHost,
           to.at \notin {"apply", "applying", "close", "closing"},
           ~At(c, "applying"), ~At(c, "closing"),
           At(c, "close") => host[caller[c].host].closed,
           UNCHANGED <<current, host, socket, report>>,
           service' \in {"stopped", "running"}
    PROVE  ServerInv'
<1>1. TypeOK'
  BY DEF ServerInv, TypeOK
<1>2. HoldersAgree'
  BY DEF ServerInv, TypeOK, HoldersAgree, At
<1>3. ClosedIsEmpty'
  BY DEF ServerInv, TypeOK, ClosedIsEmpty, At, InHost
<1>4. RemovedWillClose'
  BY ServerAssumption DEF ServerInv, TypeOK, RemovedWillClose, At, InHost
<1> QED
  BY <1>1, <1>2, <1>3, <1>4 DEF ServerInv

\* Nor does one that has no host and takes none.
LEMMA Moving ==
    ASSUME ServerInv, NEW c \in Caller, NEW place \in {"host", "stop"},
           ~At(c, "applying"), ~At(c, "closing"), ~At(c, "close"), Goto(c, place),
           UNCHANGED <<current, host, socket, service, report>>
    PROVE  ServerInv'
<1>1. TypeOK'
  BY DEF ServerInv, TypeOK, Goto, CallAt
<1>2. HoldersAgree'
  BY DEF ServerInv, TypeOK, HoldersAgree, At, Goto
<1>3. ClosedIsEmpty'
  BY DEF ServerInv, TypeOK, ClosedIsEmpty, At, InHost, Goto
<1>4. RemovedWillClose'
  BY DEF ServerInv, TypeOK, RemovedWillClose, At, InHost, Goto
<1> QED
  BY <1>1, <1>2, <1>3, <1>4 DEF ServerInv

LEMMA StepClosePlugins ==
    ASSUME ServerInv, NEW c \in Caller, NEW purpose \in Purpose,
           ~At(c, "applying"), ~At(c, "closing"), ~At(c, "close"),
           ClosePlugins(c, purpose), service' \in {"stopped", "running"},
           UNCHANGED <<current, host, socket, report>>
    PROVE  ServerInv'
<1> DEFINE to == [NoCall EXCEPT !.at = "unmap", !.for = purpose]
<1>1. /\ to \in [at : CallAt, for : Purpose, host : Host \union {NoHost}]
      /\ to.at = "unmap" /\ to.host = NoHost
  <2>1. "unmap" \in CallAt
    BY DEF CallAt
  <2> QED
    BY ONLY <2>1, CallRecords, purpose \in Purpose
<1>2. caller' = [caller EXCEPT ![c] = to]
  BY DEF ClosePlugins
<1> QED
  BY <1>1, <1>2, Leaving

LEMMA StepStart ==
    ASSUME ServerInv, NEW c \in Caller, Start(c)
    PROVE  ServerInv'
<1>1. At(c, "idle") /\ ~At(c, "applying") /\ ~At(c, "closing") /\ ~At(c, "close")
  BY DEF Start, At
<1>2. CASE Goto(c, "host")
  BY <1>1, <1>2, Moving DEF Start
<1>3. CASE ClosePlugins(c, "start")
  BY <1>1, <1>3, StepClosePlugins DEF Start, Purpose, ServerInv, TypeOK
<1> QED
  BY <1>2, <1>3 DEF Start

LEMMA StepGetHost ==
    ASSUME ServerInv, NEW c \in Caller, GetHost(c)
    PROVE  ServerInv'
<1>1. caller' = [caller EXCEPT ![c].at = "apply", ![c].host = current']
  BY DEF GetHost
<1>2. current' \in Host /\ UNCHANGED <<socket, service, report>>
  BY DEF GetHost, ServerInv, TypeOK
<1>3. \/ current' = current /\ host' = host
      \/ /\ current = NoHost
         /\ host' = [host EXCEPT ![current'] = NewHost]
         /\ \A d \in Caller : ~InHost(d, current')
  BY DEF GetHost, Unreferenced, InHost
<1>4. TypeOK'
  <2> DEFINE to == [caller[c] EXCEPT !.at = "apply", !.host = current']
  <2>1. to \in [at : CallAt, for : Purpose, host : Host \union {NoHost}] /\ to.host \in Host
    BY <1>2 DEF ServerInv, TypeOK, CallAt
  <2>2. caller' = [caller EXCEPT ![c] = to]
    BY <1>1
  <2>3. NewHost \in [lock: Caller \union {NoCaller}, closed: BOOLEAN,
                      running: BOOLEAN, serving: BOOLEAN]
    BY DEF NewHost
  <2>4. host' \in [Host -> [lock: Caller \union {NoCaller}, closed: BOOLEAN,
                            running: BOOLEAN, serving: BOOLEAN]]
    BY <1>2, <1>3, <2>3 DEF ServerInv, TypeOK
  <2> QED
    BY <1>2, <2>1, <2>2, <2>4, TypeStep DEF ServerInv
<1>5. \A d \in Caller : d # c => caller'[d] = caller[d]
  BY <1>1 DEF ServerInv, TypeOK
<1>6. caller'[c].at = "apply" /\ caller'[c].host = current' /\ At(c, "host")
  BY <1>1 DEF ServerInv, TypeOK, GetHost
<1>7. HoldersAgree'
  <2> SUFFICES ASSUME NEW d \in Caller, At(d, "applying")' \/ At(d, "closing")'
               PROVE  /\ At(d, "applying")' => host'[caller'[d].host].lock = d
                                              /\ ~host'[caller'[d].host].closed
                      /\ At(d, "closing")' => host'[caller'[d].host].lock = d
                                             /\ host'[caller'[d].host].closed
    BY DEF HoldersAgree, At
  <2>1. d # c
    BY <1>6 DEF At
  <2>2. host'[caller[d].host] = host[caller[d].host]
    BY <1>3, <1>5, <2>1 DEF At, InHost, ServerInv, TypeOK
  <2> QED
    BY <1>5, <2>1, <2>2 DEF ServerInv, HoldersAgree, At
<1>8. ClosedIsEmpty'
  <2> SUFFICES ASSUME NEW h \in Host, host'[h].closed
               PROVE  \/ ~host'[h].running /\ ~host'[h].serving
                      \/ \E d \in Caller : At(d, "closing")' /\ InHost(d, h)'
    BY DEF ClosedIsEmpty
  <2>1. host'[h] = host[h]
    BY <1>2, <1>3 DEF NewHost, ServerInv, TypeOK
  <2>2. CASE \E d \in Caller : At(d, "closing") /\ InHost(d, h)
    BY <1>5, <1>6, <2>2 DEF At, InHost
  <2> QED
    BY <2>1, <2>2 DEF ServerInv, ClosedIsEmpty
<1>9. RemovedWillClose'
  <2> SUFFICES ASSUME NEW h \in Host, h # current', ~host'[h].closed,
                      \/ host'[h].running \/ host'[h].serving
                      \/ \E d \in Caller : InHost(d, h)'
               PROVE  \E d \in Caller : At(d, "close")' /\ InHost(d, h)'
    BY DEF RemovedWillClose
  <2>1. host'[h] = host[h] /\ h # current
    BY <1>2, <1>3, ServerAssumption DEF ServerInv, TypeOK
  <2>2. PICK d \in Caller : At(d, "close") /\ InHost(d, h)
    BY <1>5, <1>6, <2>1 DEF ServerInv, RemovedWillClose, InHost
  <2>3. d # c
    BY <1>6, <2>2 DEF At
  <2> QED
    BY <1>5, <2>2, <2>3 DEF At, InHost
<1> QED
  BY <1>4, <1>7, <1>8, <1>9 DEF ServerInv

LEMMA StepApplyClosed ==
    ASSUME ServerInv, NEW c \in Caller, ApplyClosed(c)
    PROVE  ServerInv'
BY StepClosePlugins DEF ApplyClosed, At, Purpose, ServerInv, TypeOK

LEMMA StepApplyBegin ==
    ASSUME ServerInv, NEW c \in Caller, ApplyBegin(c)
    PROVE  ServerInv'
<1> DEFINE h == caller[c].host
<1>1. /\ At(c, "apply") /\ h \in Host
      /\ host[h].lock = NoCaller /\ ~host[h].closed
      /\ host' = [host EXCEPT ![h].lock = c]
      /\ caller' = [caller EXCEPT ![c].at = "applying"]
      /\ UNCHANGED <<current, socket, service, report>>
  BY DEF ApplyBegin, Goto, At, ServerInv, TypeOK
<1>2. TypeOK'
  BY <1>1 DEF ServerInv, TypeOK, CallAt
<1>3. \A d \in Caller : d # c => caller'[d] = caller[d]
  BY <1>1 DEF ServerInv, TypeOK
<1>4. caller'[c].at = "applying" /\ caller'[c].host = h
  BY <1>1 DEF ServerInv, TypeOK
<1>5. \A k \in Host : /\ host'[k].closed = host[k].closed
                      /\ host'[k].running = host[k].running
                      /\ host'[k].serving = host[k].serving
                      /\ k # h => host'[k].lock = host[k].lock
  BY <1>1 DEF ServerInv, TypeOK
<1>6. host'[h].lock = c
  BY <1>1 DEF ServerInv, TypeOK
<1>7. \A d \in Caller : At(d, "applying") \/ At(d, "closing")
                            => caller[d].host \in Host /\ caller[d].host # h
  BY <1>1, ServerAssumption DEF ServerInv, TypeOK, HoldersAgree, At
<1>8. HoldersAgree'
  <2> SUFFICES ASSUME NEW d \in Caller
               PROVE  /\ At(d, "applying")' => host'[caller'[d].host].lock = d
                                              /\ ~host'[caller'[d].host].closed
                      /\ At(d, "closing")' => host'[caller'[d].host].lock = d
                                             /\ host'[caller'[d].host].closed
    BY DEF HoldersAgree, At
  <2>1. CASE d = c
    BY <1>1, <1>4, <1>5, <1>6, <2>1 DEF At
  <2>2. CASE d # c
    BY <1>3, <1>5, <1>7, <2>2 DEF ServerInv, HoldersAgree, At
  <2> QED
    BY <2>1, <2>2
<1>9. ClosedIsEmpty'
  BY <1>1, <1>3, <1>5 DEF ServerInv, ClosedIsEmpty, At, InHost
<1>10. RemovedWillClose'
  BY <1>1, <1>3, <1>4, <1>5 DEF ServerInv, RemovedWillClose, At, InHost
<1> QED
  BY <1>2, <1>8, <1>9, <1>10 DEF ServerInv

\* What the thread that holds the mutex of a host does to it, on its way to a
\* position without the mutex.
LEMMA Unlocking ==
    ASSUME ServerInv, NEW c \in Caller, At(c, "applying") \/ At(c, "closing"),
           NEW to \in [at : CallAt, for : Purpose, host : Host \union {NoHost}],
           NEW new \in [lock : Caller \union {NoCaller}, closed : BOOLEAN,
                        running : BOOLEAN, serving : BOOLEAN],
           caller' = [caller EXCEPT ![c] = to],
           host' = [host EXCEPT ![caller[c].host] = new],
           to.at \in {"idle", "unmap", "service", "stop"},
           to.host \in {NoHost, caller[c].host},
           new.closed <=> At(c, "closing"),
           new.closed => ~new.running /\ ~new.serving,
           socket' \in Host \union {NoHost},
           UNCHANGED <<current, service, report>>
    PROVE  ServerInv'
<1> DEFINE h == caller[c].host
<1>1. h \in Host /\ host[h].lock = c
  BY DEF ServerInv, TypeOK, HoldersAgree, At
<1>2. TypeOK'
  BY <1>1 DEF ServerInv, TypeOK
<1>3. \A d \in Caller : d # c => caller'[d] = caller[d]
  BY DEF ServerInv, TypeOK
<1>4. caller'[c] = to
  BY DEF ServerInv, TypeOK
<1>5. host'[h] = new /\ \A k \in Host : k # h => host'[k] = host[k]
  BY <1>1 DEF ServerInv, TypeOK
<1>6. host[h].closed <=> At(c, "closing")
  BY <1>1 DEF ServerInv, TypeOK, HoldersAgree, At
<1>7. \A d \in Caller : d # c /\ (At(d, "applying") \/ At(d, "closing"))
                            => caller[d].host \in Host /\ caller[d].host # h
  BY <1>1 DEF ServerInv, TypeOK, HoldersAgree, At
<1>8. HoldersAgree'
  <2> SUFFICES ASSUME NEW d \in Caller
               PROVE  /\ At(d, "applying")' => host'[caller'[d].host].lock = d
                                              /\ ~host'[caller'[d].host].closed
                      /\ At(d, "closing")' => host'[caller'[d].host].lock = d
                                             /\ host'[caller'[d].host].closed
    BY DEF HoldersAgree, At
  <2>1. CASE d = c
    BY <1>4, <2>1 DEF At
  <2>2. CASE d # c
    BY <1>3, <1>5, <1>7, <2>2 DEF ServerInv, HoldersAgree, At
  <2> QED
    BY <2>1, <2>2
<1>9. ClosedIsEmpty'
  <2> SUFFICES ASSUME NEW k \in Host, host'[k].closed
               PROVE  \/ ~host'[k].running /\ ~host'[k].serving
                      \/ \E d \in Caller : At(d, "closing")' /\ InHost(d, k)'
    BY DEF ClosedIsEmpty
  <2>1. CASE k = h
    BY <1>5, <2>1
  <2>2. CASE k # h
    <3>1. host'[k] = host[k]
      BY <1>5, <2>2
    <3>2. \A d \in Caller : At(d, "closing") /\ InHost(d, k) => At(d, "closing")' /\ InHost(d, k)'
      BY <1>3, <2>2 DEF At, InHost
    <3> QED
      BY <3>1, <3>2 DEF ServerInv, ClosedIsEmpty
  <2> QED
    BY <2>1, <2>2
<1>10. RemovedWillClose'
  <2> SUFFICES ASSUME NEW k \in Host, k # current, ~host'[k].closed,
                      \/ host'[k].running \/ host'[k].serving
                      \/ \E d \in Caller : InHost(d, k)'
               PROVE  \E d \in Caller : At(d, "close")' /\ InHost(d, k)'
    BY DEF RemovedWillClose
  <2>1. ~host[k].closed
    BY <1>5, <1>6
  <2>2. \/ host[k].running \/ host[k].serving
        \/ \E d \in Caller : InHost(d, k)
    <3>1. CASE k = h
      BY <3>1 DEF InHost
    <3>2. CASE k # h
      BY <1>3, <1>4, <1>5, <3>2, ServerAssumption DEF InHost
    <3> QED
      BY <3>1, <3>2
  <2>3. PICK d \in Caller : At(d, "close") /\ InHost(d, k)
    BY <2>1, <2>2 DEF ServerInv, RemovedWillClose
  <2>4. d # c
    BY <2>3 DEF At
  <2> QED
    BY <1>3, <2>3, <2>4 DEF At, InHost
<1> QED
  BY <1>2, <1>8, <1>9, <1>10 DEF ServerInv

LEMMA StepApplyDone ==
    ASSUME ServerInv, NEW c \in Caller, ApplyDone(c)
    PROVE  ServerInv'
<1> DEFINE h == caller[c].host
           new == [host[h] EXCEPT !.lock = NoCaller, !.running = TRUE, !.serving = TRUE]
           to == [caller[c] EXCEPT !.at = "service"]
<1>1. At(c, "applying") /\ ~At(c, "closing") /\ h \in Host
  BY DEF ApplyDone, At, ServerInv, TypeOK
<1>2. /\ new \in [lock : Caller \union {NoCaller}, closed : BOOLEAN,
                  running : BOOLEAN, serving : BOOLEAN]
      /\ ~new.closed
  <2>1. host[h] \in [lock : Caller \union {NoCaller}, closed : BOOLEAN,
                     running : BOOLEAN, serving : BOOLEAN]
    BY <1>1 DEF ServerInv, TypeOK
  <2>2. ~host[h].closed
    BY <1>1 DEF ServerInv, HoldersAgree
  <2> QED
    BY <2>1, <2>2
<1>3. /\ to \in [at : CallAt, for : Purpose, host : Host \union {NoHost}]
      /\ to.at = "service" /\ to.host = h
  BY DEF ServerInv, TypeOK, CallAt
<1>4. host' = [host EXCEPT ![h] = new]
  BY DEF ApplyDone
<1>5. caller' = [caller EXCEPT ![c] = to]
  BY DEF ApplyDone, Goto
<1>6. socket' \in Host \union {NoHost} /\ UNCHANGED <<current, service, report>>
  BY <1>1 DEF ApplyDone, ServerInv, TypeOK
<1> QED
  BY <1>1, <1>2, <1>3, <1>4, <1>5, <1>6, Unlocking

LEMMA StepApplyError ==
    ASSUME ServerInv, NEW c \in Caller, ApplyError(c)
    PROVE  ServerInv'
<1> DEFINE to == [NoCall EXCEPT !.at = "unmap", !.for = "fail"]
<1>1. At(c, "applying") /\ ~At(c, "closing")
  BY DEF ApplyError, At
<1>2. /\ NewHost \in [lock : Caller \union {NoCaller}, closed : BOOLEAN,
                      running : BOOLEAN, serving : BOOLEAN]
      /\ ~NewHost.closed
  BY DEF NewHost
<1>3. /\ to \in [at : CallAt, for : Purpose, host : Host \union {NoHost}]
      /\ to.at = "unmap" /\ to.host = NoHost
  BY CallRecords DEF CallAt, Purpose
<1>4. /\ host' = [host EXCEPT ![caller[c].host] = NewHost]
      /\ caller' = [caller EXCEPT ![c] = to]
      /\ socket' \in Host \union {NoHost} /\ UNCHANGED <<current, service, report>>
  BY DEF ApplyError, ClosePlugins, Unlink, ServerInv, TypeOK
<1> QED
  BY <1>1, <1>2, <1>3, <1>4, Unlocking

LEMMA StepServiceStart ==
    ASSUME ServerInv, NEW c \in Caller, ServiceStart(c)
    PROVE  ServerInv'
<1>1. ~At(c, "applying") /\ ~At(c, "closing") /\ ~At(c, "close")
  BY DEF ServiceStart, At
<1>2. service' \in {"stopped", "running"} /\ UNCHANGED <<current, host, socket, report>>
  BY DEF ServiceStart, ServerInv, TypeOK
<1>3. CASE Return(c)
  BY <1>1, <1>2, <1>3, CallRecords, Leaving DEF Return
<1>4. CASE ClosePlugins(c, "fail")
  BY <1>1, <1>2, <1>4, StepClosePlugins DEF Purpose
<1> QED
  BY <1>3, <1>4 DEF ServiceStart

LEMMA StepCloseService ==
    ASSUME ServerInv, NEW c \in Caller, CloseService(c) \/ Close(c)
    PROVE  ServerInv'
BY StepClosePlugins DEF CloseService, Close, At, Purpose, ServerInv, TypeOK

\* A thread that has no host to close, or found it closed, goes on.
LEMMA Resumed ==
    ASSUME ServerInv, NEW c \in Caller, Resume(c),
           ~At(c, "applying"), ~At(c, "closing"),
           At(c, "close") => host[caller[c].host].closed,
           UNCHANGED <<current, host, socket, service, report>>
    PROVE  ServerInv'
<1> DEFINE to == [NoCall EXCEPT !.at = After(caller[c].for)]
<1>1. After(caller[c].for) \in {"service", "stop", "idle"}
  BY CallRecords DEF ServerInv, TypeOK
<1>2. /\ to \in [at : CallAt, for : Purpose, host : Host \union {NoHost}]
      /\ to.at = After(caller[c].for) /\ to.host = NoHost
  BY <1>1, CallRecords DEF CallAt
<1>3. caller' = [caller EXCEPT ![c] = to]
  BY DEF Resume
<1>4. service' \in {"stopped", "running"}
  BY DEF ServerInv, TypeOK
<1> QED
  BY <1>1, <1>2, <1>3, <1>4, Leaving

LEMMA StepUnmap ==
    ASSUME ServerInv, NEW c \in Caller, Unmap(c)
    PROVE  ServerInv'
<1>1. At(c, "unmap") /\ ~At(c, "applying") /\ ~At(c, "closing") /\ ~At(c, "close")
  BY DEF Unmap, At
<1>2. current' = NoHost /\ UNCHANGED <<host, socket, service, report>>
  BY DEF Unmap
<1>3. CASE current = NoHost
  BY <1>1, <1>2, <1>3, Resumed DEF Unmap
<1>4. CASE current # NoHost
  <2>1. current \in Host /\ caller' = [caller EXCEPT ![c].at = "close", ![c].host = current]
    BY <1>4 DEF Unmap, ServerInv, TypeOK
  <2>2. TypeOK'
    <3> DEFINE to == [caller[c] EXCEPT !.at = "close", !.host = current]
    <3>1. to \in [at : CallAt, for : Purpose, host : Host \union {NoHost}] /\ to.host \in Host
      BY <2>1 DEF ServerInv, TypeOK, CallAt
    <3>2. caller' = [caller EXCEPT ![c] = to]
      BY <2>1
    <3>3. host' \in [Host -> [lock: Caller \union {NoCaller}, closed: BOOLEAN,
                              running: BOOLEAN, serving: BOOLEAN]]
      BY <1>2 DEF ServerInv, TypeOK
    <3> QED
      BY <1>2, <3>1, <3>2, <3>3, TypeStep DEF ServerInv
  <2>3. \A d \in Caller : d # c => caller'[d] = caller[d]
    BY <2>1 DEF ServerInv, TypeOK
  <2>4. caller'[c].at = "close" /\ caller'[c].host = current
    BY <2>1 DEF ServerInv, TypeOK
  <2>5. HoldersAgree'
    BY <1>2, <2>3, <2>4 DEF ServerInv, HoldersAgree, At
  <2>6. ClosedIsEmpty'
    BY <1>1, <1>2, <2>3 DEF ServerInv, ClosedIsEmpty, At, InHost
  <2>7. RemovedWillClose'
    BY <1>1, <1>2, <2>3, <2>4 DEF ServerInv, RemovedWillClose, At, InHost
  <2> QED
    BY <2>2, <2>5, <2>6, <2>7 DEF ServerInv
<1> QED
  BY <1>3, <1>4

LEMMA StepHostClose ==
    ASSUME ServerInv, NEW c \in Caller, HostClose(c)
    PROVE  ServerInv'
<1> DEFINE h == caller[c].host
<1>1. /\ At(c, "close") /\ ~At(c, "applying") /\ ~At(c, "closing")
      /\ h \in Host /\ host[h].lock = NoCaller
      /\ UNCHANGED <<current, socket, service, report>>
  BY DEF HostClose, At, ServerInv, TypeOK
<1>2. CASE host[h].closed
  BY <1>1, <1>2, Resumed DEF HostClose
<1>3. CASE ~host[h].closed
  <2>1. /\ host' = [host EXCEPT ![h] = [@ EXCEPT !.lock = c, !.closed = TRUE]]
        /\ caller' = [caller EXCEPT ![c].at = "closing"]
    BY <1>3 DEF HostClose, Goto
  <2>2. TypeOK'
    <3> DEFINE to == [caller[c] EXCEPT !.at = "closing"]
    <3>1. to \in [at : CallAt, for : Purpose, host : Host \union {NoHost}] /\ to.host \in Host
      BY <1>1 DEF ServerInv, TypeOK, CallAt
    <3>2. caller' = [caller EXCEPT ![c] = to]
      BY <2>1
    <3>3. host' \in [Host -> [lock: Caller \union {NoCaller}, closed: BOOLEAN,
                              running: BOOLEAN, serving: BOOLEAN]]
      BY <2>1 DEF ServerInv, TypeOK
    <3>4. current' \in Host \union {NoHost} /\ UNCHANGED <<socket, service, report>>
      BY <1>1 DEF ServerInv, TypeOK
    <3> QED
      BY <3>1, <3>2, <3>3, <3>4, TypeStep DEF ServerInv
  <2>3. \A d \in Caller : d # c => caller'[d] = caller[d]
    BY <2>1 DEF ServerInv, TypeOK
  <2>4. caller'[c].at = "closing" /\ caller'[c].host = h
    BY <2>1 DEF ServerInv, TypeOK
  <2>5. /\ host'[h].lock = c /\ host'[h].closed
        /\ \A k \in Host : k # h => host'[k] = host[k]
    BY <1>1, <2>1 DEF ServerInv, TypeOK
  <2>6. \A d \in Caller : At(d, "applying") \/ At(d, "closing")
                              => caller[d].host \in Host /\ caller[d].host # h
    BY <1>1, ServerAssumption DEF ServerInv, TypeOK, HoldersAgree, At
  <2>7. HoldersAgree'
    <3> SUFFICES ASSUME NEW d \in Caller
                 PROVE  /\ At(d, "applying")' => host'[caller'[d].host].lock = d
                                                /\ ~host'[caller'[d].host].closed
                        /\ At(d, "closing")' => host'[caller'[d].host].lock = d
                                               /\ host'[caller'[d].host].closed
      BY DEF HoldersAgree, At
    <3>1. CASE d = c
      BY <2>4, <2>5, <3>1 DEF At
    <3>2. CASE d # c
      BY <2>3, <2>5, <2>6, <3>2 DEF ServerInv, HoldersAgree, At
    <3> QED
      BY <3>1, <3>2
  <2>8. ClosedIsEmpty'
    <3> SUFFICES ASSUME NEW k \in Host, host'[k].closed
                 PROVE  \/ ~host'[k].running /\ ~host'[k].serving
                        \/ \E d \in Caller : At(d, "closing")' /\ InHost(d, k)'
      BY DEF ClosedIsEmpty
    <3>1. CASE k = h
      BY <2>4, <3>1 DEF At, InHost
    <3>2. CASE k # h
      BY <1>1, <2>3, <2>5, <3>2 DEF ServerInv, ClosedIsEmpty, At, InHost
    <3> QED
      BY <3>1, <3>2
  <2>9. RemovedWillClose'
    <3> SUFFICES ASSUME NEW k \in Host, k # current, ~host'[k].closed,
                        \/ host'[k].running \/ host'[k].serving
                        \/ \E d \in Caller : InHost(d, k)'
                 PROVE  \E d \in Caller : At(d, "close")' /\ InHost(d, k)'
      BY <1>1 DEF RemovedWillClose
    <3>1. k # h /\ host'[k] = host[k]
      BY <2>5
    <3>2. PICK d \in Caller : At(d, "close") /\ InHost(d, k)
      BY <2>3, <2>4, <3>1 DEF ServerInv, RemovedWillClose, InHost
    <3>3. d # c
      BY <3>1, <3>2 DEF InHost
    <3> QED
      BY <2>3, <3>2, <3>3 DEF At, InHost
  <2> QED
    BY <2>2, <2>7, <2>8, <2>9 DEF ServerInv
<1> QED
  BY <1>2, <1>3

LEMMA StepHostClosed ==
    ASSUME ServerInv, NEW c \in Caller, HostClosed(c)
    PROVE  ServerInv'
<1> DEFINE to == [NoCall EXCEPT !.at = After(caller[c].for)]
           new == [NewHost EXCEPT !.closed = TRUE]
<1>1. At(c, "closing")
  BY DEF HostClosed
<1>2. /\ new \in [lock : Caller \union {NoCaller}, closed : BOOLEAN,
                  running : BOOLEAN, serving : BOOLEAN]
      /\ new.closed /\ ~new.running /\ ~new.serving
  BY DEF NewHost
<1>3. After(caller[c].for) \in {"service", "stop", "idle"}
  BY CallRecords DEF ServerInv, TypeOK
<1>4. /\ to \in [at : CallAt, for : Purpose, host : Host \union {NoHost}]
      /\ to.at = After(caller[c].for) /\ to.host = NoHost
  BY <1>3, CallRecords DEF CallAt
<1>5. /\ host' = [host EXCEPT ![caller[c].host] = new]
      /\ caller' = [caller EXCEPT ![c] = to]
      /\ socket' \in Host \union {NoHost} /\ UNCHANGED <<current, service, report>>
  BY DEF HostClosed, Resume, Unlink, ServerInv, TypeOK
<1> QED
  BY <1>1, <1>2, <1>3, <1>4, <1>5, Unlocking

LEMMA StepServiceStopped ==
    ASSUME ServerInv, NEW c \in Caller, ServiceStopped(c)
    PROVE  ServerInv'
BY CallRecords, Leaving DEF ServiceStopped, Return, At

LEMMA StepReport ==
    ASSUME ServerInv, NEW h \in Host, PluginFails(h) \/ ReportCheck(h) \/ ServiceStop(h)
    PROVE  ServerInv'
<1>1. UNCHANGED <<current, host, socket, service, caller>>
  BY DEF PluginFails, ReportCheck, ServiceStop
<1>2. report' \in [Host -> {"none", "raised", "checked"}]
  BY DEF PluginFails, ReportCheck, ServiceStop, ServerInv, TypeOK
<1> QED
  BY <1>1, <1>2 DEF ServerInv, TypeOK, HoldersAgree, ClosedIsEmpty, RemovedWillClose,
                    At, InHost

-----------------------------------------------------------------------------

(* The strengthened invariant of the map, the hosts and the threads.       *)
THEOREM ServerInvariant == Spec => []ServerInv
<1>1. Init => ServerInv
  BY ServerAssumption DEF Init, ServerInv, TypeOK, HoldersAgree, ClosedIsEmpty, RemovedWillClose,
     NewHost, NoCall, CallAt, Purpose, At, InHost
<1>2. ServerInv /\ [Next]_vars => ServerInv'
  <2> SUFFICES ASSUME ServerInv, [Next]_vars PROVE ServerInv'
    OBVIOUS
  <2>1. CASE \E c \in Caller : Start(c) \/ CloseService(c) \/ Close(c)
    BY <2>1, StepStart, StepCloseService
  <2>2. CASE \E c \in Caller : CallStep(c)
    BY <2>2, StepGetHost, StepApplyClosed, StepApplyBegin, StepApplyDone, StepApplyError,
       StepServiceStart, StepUnmap, StepHostClose, StepHostClosed, StepServiceStopped
       DEF CallStep
  <2>3. CASE \E h \in Host : PluginFails(h) \/ ReportCheck(h) \/ ServiceStop(h)
    BY <2>3, StepReport
  <2>4. CASE UNCHANGED vars
    BY <2>4 DEF vars, ServerInv, TypeOK, HoldersAgree, ClosedIsEmpty, RemovedWillClose,
                At, InHost
  <2> QED
    BY <2>1, <2>2, <2>3, <2>4 DEF Next
<1> QED
  BY <1>1, <1>2, PTL DEF Spec

(* The map, the hosts and the calls keep their shape, and no call uses a   *)
(* host it does not have (pluginHost, closePlugins).                       *)
THEOREM ServerTypeInvariant == Spec => []TypeOK
BY ServerInvariant, PTL DEF ServerInv

(* Plugins run only in the host that is in the map or in one that a call   *)
(* still holds, however many threads start, reload and close (closePlugins *)
(* against Host.Apply and Host.Close).                                     *)
THEOREM NoOrphanPluginsAlways == Spec => []NoOrphanPlugins
<1>1. ServerInv => NoOrphanPlugins
  <2> SUFFICES ASSUME ServerInv, NEW h \in Host, h # current,
                      \A c \in Caller : ~InHost(c, h)
               PROVE  ~host[h].running /\ ~host[h].serving
    BY DEF NoOrphanPlugins, InHost
  <2>1. CASE host[h].closed
    BY <2>1 DEF ServerInv, ClosedIsEmpty
  <2>2. CASE ~host[h].closed
    BY <2>2 DEF ServerInv, RemovedWillClose, TypeOK
  <2> QED
    BY <2>1, <2>2
<1> QED
  BY <1>1, ServerInvariant, PTL

-----------------------------------------------------------------------------
(* Who a thread that waits for a host's mutex is waiting for.              *)

Holds(c, h) == (At(c, "applying") \/ At(c, "closing")) /\ InHost(c, h)

\* The converse of HoldersAgree: no call leaves with a mutex, or waits with one.
MutexHolderWorks ==
    \A h \in Host : host[h].lock # NoCaller => \E c \in Caller : host[h].lock = c /\ Holds(c, h)

\* Two threads are never at work in one host.
OneAtWork ==
    \A h \in Host : \A c, d \in Caller : Holds(c, h) /\ Holds(d, h) => c = d

\* A step of thread c that keeps the books of the mutexes it takes and leaves.
LEMMA MutexStep ==
    ASSUME ServerInv, MutexHolderWorks, NEW c \in Caller,
           \A d \in Caller : d # c => caller'[d] = caller[d],
           \A h \in Host : \/ host'[h].lock = NoCaller
                           \/ host'[h].lock = c /\ Holds(c, h)'
                           \/ host'[h].lock = host[h].lock /\ ~Holds(c, h)
    PROVE  MutexHolderWorks'
<1> SUFFICES ASSUME NEW h \in Host, host'[h].lock # NoCaller
             PROVE  \E d \in Caller : host'[h].lock = d /\ Holds(d, h)'
  BY DEF MutexHolderWorks
<1>1. CASE host'[h].lock = c /\ Holds(c, h)'
  BY <1>1
<1>2. CASE host'[h].lock = host[h].lock /\ ~Holds(c, h)
  <2>1. PICK d \in Caller : host[h].lock = d /\ Holds(d, h)
    BY <1>2 DEF MutexHolderWorks
  <2>2. d # c
    BY <1>2, <2>1
  <2>3. caller'[d] = caller[d]
    BY <2>2
  <2>4. Holds(d, h)'
    BY <2>1, <2>3 DEF Holds, At, InHost
  <2> QED
    BY <1>2, <2>1, <2>4
<1> QED
  BY <1>1, <1>2

\* Threads that take no mutex and have none.
LEMMA MutexAlone ==
    ASSUME ServerInv, MutexHolderWorks, NEW c \in Caller, NEW to,
           caller' = [caller EXCEPT ![c] = to],
           ~At(c, "applying"), ~At(c, "closing"), UNCHANGED host
    PROVE  MutexHolderWorks'
BY MutexStep DEF ServerInv, TypeOK, Holds

\* ApplyBegin and HostClose.
LEMMA MutexTaken ==
    ASSUME ServerInv, MutexHolderWorks, NEW c \in Caller, NEW place \in {"applying", "closing"},
           caller[c].host \in Host, ~At(c, "applying"), ~At(c, "closing"), Goto(c, place),
           host'[caller[c].host].lock = c,
           \A k \in Host : k # caller[c].host => host'[k] = host[k]
    PROVE  MutexHolderWorks'
<1>1. \A d \in Caller : d # c => caller'[d] = caller[d]
  BY DEF Goto, ServerInv, TypeOK
<1>2. caller'[c].at = place /\ caller'[c].host = caller[c].host
  BY DEF Goto, ServerInv, TypeOK
<1>3. Holds(c, caller[c].host)'
  BY <1>2 DEF Holds, At, InHost
<1>4. \A h \in Host : \/ host'[h].lock = NoCaller
                      \/ host'[h].lock = c /\ Holds(c, h)'
                      \/ host'[h].lock = host[h].lock /\ ~Holds(c, h)
  <2> TAKE h \in Host
  <2>1. CASE h = caller[c].host
    BY <1>2, <2>1 DEF Holds, At, InHost
  <2>2. CASE h # caller[c].host
    BY <2>2 DEF Holds
  <2> QED
    BY <2>1, <2>2
<1> QED
  BY <1>1, <1>4, MutexStep

\* ApplyDone, ApplyError and HostClosed.
LEMMA MutexReleased ==
    ASSUME ServerInv, MutexHolderWorks, NEW c \in Caller, NEW to, NEW new,
           caller[c].host \in Host, new.lock = NoCaller,
           caller' = [caller EXCEPT ![c] = to],
           host' = [host EXCEPT ![caller[c].host] = new]
    PROVE  MutexHolderWorks'
<1>1. \A d \in Caller : d # c => caller'[d] = caller[d]
  BY DEF ServerInv, TypeOK
<1>2. \A h \in Host : host'[h].lock = NoCaller \/ (host'[h] = host[h] /\ h # caller[c].host)
  BY DEF ServerInv, TypeOK
<1> QED
  BY <1>1, <1>2, MutexStep DEF Holds, InHost

LEMMA MutexTakenByCall ==
    ASSUME ServerInv, MutexHolderWorks, NEW c \in Caller, ApplyBegin(c) \/ HostClose(c)
    PROVE  MutexHolderWorks'
<1> DEFINE h == caller[c].host
<1>1. h \in Host /\ ~At(c, "applying") /\ ~At(c, "closing")
  BY DEF ApplyBegin, HostClose, At, ServerInv, TypeOK
<1>2. CASE ApplyBegin(c)
  <2>1. host'[h].lock = c /\ \A k \in Host : k # h => host'[k] = host[k]
    BY <1>1, <1>2 DEF ApplyBegin, ServerInv, TypeOK
  <2>2. Goto(c, "applying")
    BY <1>2 DEF ApplyBegin
  <2> QED
    BY <1>1, <2>1, <2>2, MutexTaken
<1>3. CASE HostClose(c) /\ host[h].closed
  BY <1>1, <1>3, MutexAlone DEF HostClose, Resume
<1>4. CASE HostClose(c) /\ ~host[h].closed
  <2>1. host' = [host EXCEPT ![h] = [@ EXCEPT !.lock = c, !.closed = TRUE]]
    BY <1>4 DEF HostClose
  <2>2. host'[h].lock = c /\ \A k \in Host : k # h => host'[k] = host[k]
    BY <1>1, <2>1 DEF ServerInv, TypeOK
  <2>3. Goto(c, "closing")
    BY <1>4 DEF HostClose
  <2> QED
    BY <1>1, <2>2, <2>3, MutexTaken
<1> QED
  BY <1>2, <1>3, <1>4

LEMMA MutexReleasedByCall ==
    ASSUME ServerInv, MutexHolderWorks, NEW c \in Caller,
           ApplyDone(c) \/ ApplyError(c) \/ HostClosed(c)
    PROVE  MutexHolderWorks'
<1> DEFINE h == caller[c].host
<1>1. h \in Host
  BY DEF ApplyDone, ApplyError, HostClosed, At, ServerInv, TypeOK
<1>2. CASE ApplyDone(c)
  <2> DEFINE new == [host[h] EXCEPT !.lock = NoCaller, !.running = TRUE, !.serving = TRUE]
             to == [caller[c] EXCEPT !.at = "service"]
  <2>1. new.lock = NoCaller
    BY <1>1 DEF ServerInv, TypeOK
  <2>2. host' = [host EXCEPT ![h] = new] /\ caller' = [caller EXCEPT ![c] = to]
    BY <1>2 DEF ApplyDone, Goto
  <2> QED
    BY <1>1, <2>1, <2>2, MutexReleased
<1>3. CASE ApplyError(c)
  <2> DEFINE to == [NoCall EXCEPT !.at = "unmap", !.for = "fail"]
  <2>1. NewHost.lock = NoCaller
    BY DEF NewHost
  <2>2. host' = [host EXCEPT ![h] = NewHost] /\ caller' = [caller EXCEPT ![c] = to]
    BY <1>3 DEF ApplyError, ClosePlugins
  <2> QED
    BY <1>1, <2>1, <2>2, MutexReleased
<1>4. CASE HostClosed(c)
  <2> DEFINE new == [NewHost EXCEPT !.closed = TRUE]
             to == [NoCall EXCEPT !.at = After(caller[c].for)]
  <2>1. new.lock = NoCaller
    BY DEF NewHost
  <2>2. host' = [host EXCEPT ![h] = new] /\ caller' = [caller EXCEPT ![c] = to]
    BY <1>4 DEF HostClosed, Resume
  <2> QED
    BY <1>1, <2>1, <2>2, MutexReleased
<1> QED
  BY <1>2, <1>3, <1>4

LEMMA MutexNewHost ==
    ASSUME ServerInv, MutexHolderWorks, NEW c \in Caller, GetHost(c)
    PROVE  MutexHolderWorks'
<1>1. ~At(c, "applying") /\ ~At(c, "closing")
  BY DEF GetHost, At
<1>2. \A d \in Caller : d # c => caller'[d] = caller[d]
  BY DEF GetHost, ServerInv, TypeOK
<1>3. \A h \in Host : host'[h].lock = NoCaller \/ host'[h] = host[h]
  <2>1. UNCHANGED host \/ \E k \in Host : host' = [host EXCEPT ![k] = NewHost]
    BY DEF GetHost
  <2>2. NewHost.lock = NoCaller
    BY DEF NewHost
  <2> QED
    BY <2>1, <2>2 DEF ServerInv, TypeOK
<1> QED
  BY <1>1, <1>2, <1>3, MutexStep DEF Holds

LEMMA MutexElsewhere ==
    ASSUME ServerInv, MutexHolderWorks, NEW c \in Caller,
           \/ Start(c) \/ CloseService(c) \/ Close(c) \/ ApplyClosed(c)
           \/ ServiceStart(c) \/ Unmap(c) \/ ServiceStopped(c)
    PROVE  MutexHolderWorks'
<1>1. ~At(c, "applying") /\ ~At(c, "closing") /\ UNCHANGED host
  BY DEF Start, CloseService, Close, ApplyClosed, ServiceStart, Unmap, ServiceStopped, At
<1>2. \A d \in Caller : d # c => caller'[d] = caller[d]
  BY DEF Start, CloseService, Close, ApplyClosed, ServiceStart, Unmap, ServiceStopped,
         Goto, Return, ClosePlugins, Resume, ServerInv, TypeOK
<1> QED
  BY <1>1, <1>2, MutexStep DEF Holds

(* Whoever waits for a host's mutex, in Apply or in Close, waits for a     *)
(* thread that is at work in that very host, so never for one that has     *)
(* returned or that waits for a lock itself (Host.access against           *)
(* pluginHostAccess), and only one thread works in a host at a time.       *)
THEOREM MutexHolderWorksAlways == Spec => [](MutexHolderWorks /\ OneAtWork)
<1>1. Init => MutexHolderWorks
  BY DEF Init, MutexHolderWorks, NewHost
<1>2. ServerInv /\ MutexHolderWorks /\ [Next]_vars => MutexHolderWorks'
  <2> SUFFICES ASSUME ServerInv, MutexHolderWorks, [Next]_vars PROVE MutexHolderWorks'
    OBVIOUS
  <2>1. CASE \E c \in Caller : Start(c) \/ CloseService(c) \/ Close(c)
    BY <2>1, MutexElsewhere
  <2>2. CASE \E c \in Caller : CallStep(c)
    BY <2>2, MutexElsewhere, MutexNewHost, MutexTakenByCall, MutexReleasedByCall DEF CallStep
  <2>3. CASE UNCHANGED <<host, caller>>
    BY <2>3 DEF MutexHolderWorks, Holds, At, InHost
  <2>4. CASE (\E h \in Host : PluginFails(h) \/ ReportCheck(h) \/ ServiceStop(h)) \/ UNCHANGED vars
    <3>1. UNCHANGED <<host, caller>>
      BY <2>4 DEF PluginFails, ReportCheck, ServiceStop, vars
    <3> QED
      BY <2>3, <3>1
  <2> QED
    BY <2>1, <2>2, <2>4 DEF Next
<1>3. ServerInv => OneAtWork
  BY DEF ServerInv, HoldersAgree, OneAtWork, Holds, InHost
<1> QED
  BY <1>1, <1>2, <1>3, ServerInvariant, PTL DEF Spec
=============================================================================
