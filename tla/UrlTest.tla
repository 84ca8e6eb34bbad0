------------------------------- MODULE UrlTest -------------------------------
(***************************************************************************)
(* patches/daemon/url_test_options.go and its libbox wrapper: a URL test   *)
(* whose options travel as unknown fields of the stock request, measured   *)
(* by the daemon and stored in the URL test history of the instance.       *)
(*                                                                         *)
(* Tests run beside each other, beside the user who switches selectors,    *)
(* and beside a service that is reloaded: a test takes the instance under  *)
(* the lock and goes on without it.  Latencies are left out: an entry of   *)
(* the history is the outbound that the measured connection went through.  *)
(***************************************************************************)
EXTENDS Integers, FiniteSets, SequencesExt

CONSTANTS
    Test,       \* requests
    Instance,   \* configurations the service runs, one at a time
    Tag,        \* outbounds
    Kind,       \* what a tag is in each instance
    Members,    \* the members of each group
    Default,    \* the default outbound of each instance
    Wires,      \* the unknown fields each test may have from another client
    Links,      \* test links; None: the default
    Http3,      \* those with a scheme that is measured over UDP
    Asked,      \* what each test may be asked for through the wrapper
    MaxTimeout, \* the largest int32, 2^31 - 1
    FlagRange,  \* a flag mask is a byte, 0..2^8 - 1
    NoUdp,      \* outbounds that are not for UDP
    WithQUIC,   \* the build tag
    None


Unified == 1   \* URLTestUnifiedDelay
Ignore == 2    \* URLTestIgnoreHandshakeTime

\* What a request may say.
Options == [link: Links \union {None}, timeout: 0..MaxTimeout, flags: 0..FlagRange]

ASSUME UrlTestAssumption ==
    /\ Kind \in [Instance -> [Tag -> {"absent", "outbound", "selector", "urltest"}]]
    /\ Members \in [Instance -> [Tag -> SUBSET Tag]]
    /\ \A i \in Instance, g \in Tag : Kind[i][g] \in {"selector", "urltest"} <=> Members[i][g] # {}
    /\ Default \in [Instance -> Tag] /\ None \notin Instance \union Tag \union Options
    /\ Asked \in [Test -> SUBSET [target: Tag \union {None}, link: Links \union {None},
                                  timeout: -MaxTimeout - 1 .. MaxTimeout,
                                  flags: {0, Unified, Ignore, Unified + Ignore}]]
    /\ Http3 \subseteq Links
    /\ MaxTimeout \in Nat /\ FlagRange \in Nat \ 0..2
    /\ IsFiniteSet(Tag)

VARIABLES
    instance,   \* the service's instance
    closed,     \* instances whose context is cancelled
    selected,   \* each group's choice for TCP and for UDP
    history,    \* urlTestHistoryStorage of each instance: via which outbound
    behind,     \* entries that changed since a urltest group last selected
    test        \* each test, and its locals

vars == <<instance, closed, selected, history, behind, test>>

Groups(i) == {g \in Tag : Kind[i][g] \in {"selector", "urltest"}}
UrlTestGroups(i) == {g \in Tag : Kind[i][g] = "urltest"}
AnyOf(members) == CHOOSE m \in members : TRUE

\* The fields of a request, and what they say.
NoOptions == [link |-> None, timeout |-> 0, flags |-> 0]

Field(number, wire, value) == [number |-> number, wire |-> wire, value |-> value]

\* Mutant: a field is sent only if it says something.
AppendNonZero(link, timeout, flags) ==
    (IF link = None THEN <<>> ELSE <<Field("link", "bytes", link)>>)
    \o (IF timeout <= 0 THEN <<>> ELSE <<Field("timeout", "varint", timeout)>>)
    \o (IF flags = 0 THEN <<>> ELSE <<Field("flags", "varint", flags)>>)

\* AppendURLTestOptions: the flags are what tells it from a stock request.
AppendOptions(link, timeout, flags) ==
    (IF link = None THEN <<>> ELSE <<Field("link", "bytes", link)>>)
    \o (IF timeout <= 0 THEN <<>> ELSE <<Field("timeout", "varint", timeout)>>)
    \o <<Field("flags", "varint", flags)>>

WireType == [link |-> "bytes", timeout |-> "varint", flags |-> "varint"]

\* A varint has 64 bits, the timeout 31 and the flags 8.
Narrow(field) ==
    CASE field.number = "link" -> field.value
      [] field.number = "timeout" -> IF field.value < MaxTimeout THEN field.value ELSE MaxTimeout
      [] field.number = "flags" -> field.value % (FlagRange + 1)

\* One turn of the loop in urlTestOptionsFromRequest; a field that is cut off
\* has the wire type "cut".
Consume(decoded, field) ==
    IF ~decoded.valid \/ field.wire = "cut" THEN [decoded EXCEPT !.valid = FALSE]
    ELSE IF field.number \notin DOMAIN WireType THEN decoded
    ELSE IF field.wire # WireType[field.number] THEN [decoded EXCEPT !.valid = FALSE]
    ELSE [decoded EXCEPT !.loaded = TRUE, !.options[field.number] = Narrow(field)]

Decode(wire) ==
    LET decoded == FoldLeft(Consume, [valid |-> TRUE, loaded |-> FALSE, options |-> NoOptions], wire)
    IN  IF decoded.valid /\ decoded.loaded THEN decoded.options ELSE None

\* group.RealTag, and the way a dial goes: the choices of the groups in turn.
Real(i, tag, network) ==
    LET real[t \in Tag] == IF t \in Groups(i) THEN real[selected[i][t][network]] ELSE t
    IN  real[tag]

\* Mutant: the groups within a group are not looked into.
ContainsDirectly(i, g, tag, visited) == [found |-> tag \in Members[i][g], visited |-> visited]

\* urlTestGroupContains: visited is one map for the whole search.
GroupContains(i, g, tag, visited) ==
    LET search[s \in (SUBSET Tag) \X (SUBSET Tag)] ==
            LET member == AnyOf(s[1])
                others == s[1] \ {member}
                nested == search[<<Members[i][member], s[2] \union {member}>>]
            IN  IF s[1] = {} THEN [found |-> FALSE, visited |-> s[2]]
                ELSE IF member = tag THEN [found |-> TRUE, visited |-> s[2]]
                ELSE IF member \in s[2] \/ member \notin Groups(i) THEN search[<<others, s[2]>>]
                ELSE IF nested.found THEN nested ELSE search[<<others, nested.visited>>]
    IN  search[<<Members[i][g], visited>>]

Contained == [i \in Instance |-> [g \in Tag |-> {t \in Tag : GroupContains(i, g, t, {g}).found}]]

-----------------------------------------------------------------------------

Positions == {"idle", "sent", "look", "again", "warm", "dial", "head", "second",
              "record", "update", "stock", "answered"}

NoTest == [at |-> "idle", wire |-> <<>>, asked |-> None, options |-> None, target |-> None,
           inst |-> None, detour |-> None, network |-> "tcp", unified |-> FALSE, via |-> None,
           ok |-> FALSE, todo |-> {}]

TypeOK ==
    /\ instance \in Instance \union {None} /\ closed \subseteq Instance
    /\ \A i \in Instance : \A g \in Groups(i) : Range(selected[i][g]) \subseteq Members[i][g]
    /\ history \in [Instance -> [Tag -> Tag \union {None}]]
    /\ behind \in [Instance -> SUBSET (Tag \X Tag)]
    /\ DOMAIN test = Test
    /\ \A x \in Test :
           /\ test[x].at \in Positions
           /\ test[x].options \in Options \union {None}
           /\ test[x].inst \in Instance \union {None} /\ test[x].todo \subseteq Tag
           /\ test[x].network \in {"tcp", "udp"}

Init ==
    /\ instance \in Instance
    /\ closed = {}
    /\ selected = [i \in Instance |-> [g \in Groups(i) |->
           [tcp |-> AnyOf(Members[i][g]), udp |-> AnyOf(Members[i][g])]]]
    /\ history = [i \in Instance |-> [t \in Tag |-> None]]
    /\ behind = [i \in Instance |-> {}]
    /\ test = [x \in Test |-> NoTest]

Rest == UNCHANGED <<instance, closed, selected, history, behind>>

Goto(x, from, to) == test[x].at = from /\ test' = [test EXCEPT ![x].at = to]

End(x, how) == test' = [test EXCEPT ![x] = [NoTest EXCEPT !.at = how]]

-----------------------------------------------------------------------------
(* The request.                                                            *)

\* CommandClient.URLTestWithOptions
Send(x) ==
    /\ test[x].at = "idle"
    /\ \E ask \in Asked[x] :
           test' = [test EXCEPT ![x] = [NoTest EXCEPT
               !.at = "sent", !.target = ask.target, !.asked = ask,
               !.wire = AppendOptions(ask.link, ask.timeout, ask.flags)]]
    /\ Rest

\* Any other client of the daemon.
SendOther(x) ==
    /\ test[x].at = "idle"
    /\ \E wire \in Wires[x] : test' = [test EXCEPT ![x] = [NoTest EXCEPT !.at = "sent", !.wire = wire]]
    /\ Rest

Receive(x) ==
    /\ test[x].at = "sent"
    /\ LET options == Decode(test[x].wire)
       IN  test' = [test EXCEPT ![x].at = IF options = None THEN "stock" ELSE "look",
                                ![x].wire = <<>>, ![x].options = options]
    /\ Rest

\* urlTestOptionsTarget
Found(x) ==
    LET t == IF test[x].target = None THEN Default[instance] ELSE test[x].target
    IN  IF instance = None THEN None
        ELSE IF Kind[instance][t] = "absent" THEN None ELSE t

\* handleURLTestOptions: a urltest group is left to the stock handler.
Look(x) ==
    /\ test[x].at = "look"
    /\ IF Found(x) = None THEN End(x, "answered")
       ELSE IF Kind[instance][Found(x)] = "urltest" THEN End(x, "stock")
       ELSE test' = [test EXCEPT ![x].at = "again", ![x].asked = None]
    /\ Rest

\* URLTestWithOptions asks once more.  The instance may ask for unified delay,
\* and a multiplexed outbound is warmed up.
LookAgain(x) ==
    /\ test[x].at = "again"
    /\ IF Found(x) = None THEN End(x, "answered")
       ELSE \E place \in {"warm", "dial"}, unified \in BOOLEAN :
                /\ test[x].options.flags \in {Unified, Unified + Ignore} => unified
                /\ test' = [test EXCEPT ![x] = [NoTest EXCEPT
                       !.at = place, !.inst = instance, !.detour = Found(x), !.unified = unified,
                       !.network = IF test[x].options.link \in Http3 THEN "udp" ELSE "tcp"]]
    /\ Rest

-----------------------------------------------------------------------------
(* The measurement.                                                        *)

Warm(x) == Goto(x, "warm", "dial") /\ Rest

Dial(x) ==
    /\ test[x].at = "dial"
    /\ test[x].network = "udp" => WithQUIC
    /\ test' = [test EXCEPT ![x].at = "head",
                            ![x].via = Real(test[x].inst, test[x].detour, test[x].network)]
    /\ Rest

\* The response to the first request, which is enough ...
Head1(x) ==
    /\ test[x].at = "head"
    /\ test' = [test EXCEPT ![x].at = IF test[x].unified THEN "second" ELSE "record",
                            ![x].ok = TRUE]
    /\ Rest

\* ... with unified delay too: the second may fail or run into the timeout.
Second(x) == Goto(x, "second", "record") /\ Rest

\* Mutant: only a closed instance ends a test that hangs.
CutIfClosed(x) ==
    /\ test[x].at \in {"warm", "dial", "head"} /\ test[x].inst \in closed
    /\ test' = [test EXCEPT ![x].at = "record"]
    /\ Rest

\* An error, the timeout, the cancelled request or the closed instance.
Cut(x) ==
    /\ test[x].at \in {"warm", "dial", "head"}
    /\ test' = [test EXCEPT ![x].at = "record"]
    /\ Rest

-----------------------------------------------------------------------------
(* The history and the groups.                                             *)

Store(x, i) ==
    LET real == Real(test[x].inst, test[x].detour, "tcp")
    IN  /\ history' = [history EXCEPT ![i][real] = IF test[x].ok THEN test[x].via ELSE None]
        /\ behind' = [behind EXCEPT ![i] = @ \union (UrlTestGroups(i) \X {real})]
        /\ test' = [test EXCEPT
               ![x].at = "update", ![x].via = None, ![x].ok = FALSE,
               ![x].todo = {g \in UrlTestGroups(i) : real \in Contained[i][g]}]
        /\ UNCHANGED <<instance, closed, selected>>

\* Mutant: the result goes to the instance there is by now.
RecordInCurrent(x) ==
    /\ test[x].at = "record"
    /\ IF instance = None THEN End(x, "answered") /\ Rest ELSE Store(x, instance)

\* Store or Delete, under the tag that the target stands for by now.
Record(x) ==
    /\ test[x].at = "record"
    /\ Store(x, test[x].inst)

\* PerformUpdateCheck of one group; what it selects is not this code's, except
\* that only a member that is not for UDP makes the two choices differ.
Update(x, g) ==
    /\ test[x].at = "update" /\ g \in test[x].todo
    /\ LET i == test[x].inst
       IN  /\ \E tcp, udp \in Members[i][g] :
                  /\ tcp # udp => tcp \in NoUdp /\ udp \notin NoUdp
                  /\ selected' = [selected EXCEPT ![i][g] = [tcp |-> tcp, udp |-> udp]]
           /\ behind' = [behind EXCEPT ![i] = @ \ ({g} \X Tag)]
    /\ test' = [test EXCEPT ![x].todo = @ \ {g}]
    /\ UNCHANGED <<instance, closed, history>>

Return(x) ==
    /\ test[x].at = "update" /\ test[x].todo = {}
    /\ End(x, "answered")
    /\ Rest

-----------------------------------------------------------------------------
(* The service and the user.                                               *)

StopService ==
    /\ instance # None
    /\ closed' = closed \union {instance} /\ instance' = None
    /\ UNCHANGED <<selected, history, behind, test>>

StartService ==
    /\ instance = None
    /\ instance' \in Instance \ closed
    /\ UNCHANGED <<closed, selected, history, behind, test>>

SelectOutbound(i, g) ==
    /\ i = instance /\ Kind[i][g] = "selector"
    /\ \E t \in Members[i][g] : selected' = [selected EXCEPT ![i][g] = [tcp |-> t, udp |-> t]]
    /\ UNCHANGED <<instance, closed, history, behind, test>>

TestStep(x) ==
    \/ Receive(x) \/ Look(x) \/ LookAgain(x) \/ Second(x) \/ Cut(x) \/ Record(x) \/ Return(x)
    \/ \E g \in Tag : Update(x, g)

Next ==
    \/ \E x \in Test : Send(x) \/ SendOther(x) \/ TestStep(x) \/ Warm(x) \/ Dial(x) \/ Head1(x)
    \/ StopService \/ StartService
    \/ \E i \in Instance, g \in Tag : SelectOutbound(i, g)

\* Handlers run and the timeout fires; nothing has to be reached or to answer.
Fairness == \A x \in Test : WF_vars(TestStep(x))

Spec == Init /\ [][Next]_vars /\ Fairness

-----------------------------------------------------------------------------

(* What a caller of the wrapper asks for is what the daemon decodes, the   *)
(* defaults included; a timeout that is not positive is the default one.   *)
OptionsArrive ==
    \A x \in Test : test[x].at # "sent" /\ test[x].asked # None =>
        /\ test[x].options # None
        /\ test[x].options.link = test[x].asked.link
        /\ test[x].options.flags = test[x].asked.flags
        /\ test[x].options.timeout = IF test[x].asked.timeout > 0 THEN test[x].asked.timeout ELSE 0

(* A test that outlives its instance leaves no trace in the next one.      *)
HistoryOfInstance ==
    [][\A i \in Instance : history[i] # history'[i] => \E x \in Test : test[x].inst = i]_vars

\* What a group contains: the least set that has its members and theirs.
Closed(i, inside) == \A m \in inside : Members[i][m] \subseteq inside

Within ==
    [i \in Instance |-> [g \in Tag |->
        {t \in Tag : \A inside \in SUBSET Tag :
                         Members[i][g] \subseteq inside /\ Closed(i, inside) => t \in inside}]]

(* Once no test is at work on an instance, every urltest group has seen    *)
(* the entry of every outbound it contains, however deep.                  *)
GroupsSeeHistory ==
    \A i \in Instance :
        (\A x \in Test : test[x].at = "update" => test[x].inst # i)
            => \A g \in UrlTestGroups(i), t \in Tag :
                   <<g, t>> \in behind[i] => t \notin Within[i][g]

(* Every test ends, whatever the outbound does.                            *)
TestsEnd == \A x \in Test : test[x].at = "sent" ~> test[x].at \in {"stock", "answered"}
=============================================================================
