---------------------------- MODULE ReportingProofs ----------------------------
(***************************************************************************)
(* Proofs about Reporting, for every form, every number of messages, every *)
(* capacity and every width of the network counters.                       *)
(***************************************************************************)
EXTENDS Reporting, TLAPS

-----------------------------------------------------------------------------
(* Counters that wrap.                                                     *)

\* What a counter shows is below Wrap.
LEMMA ModuloRange ==
    ASSUME NEW a \in Int PROVE a % Wrap \in 0 .. Wrap - 1
  BY ReportingAssumption

\* The sum of two numbers below Wrap, without a modulo.
LEMMA WrappedSum ==
    ASSUME NEW a \in 0 .. Wrap - 1, NEW b \in 0 .. Wrap - 1
    PROVE  (a + b) % Wrap = IF a + b < Wrap THEN a + b ELSE a + b - Wrap
<1>1. CASE a + b < Wrap
  BY <1>1, ReportingAssumption
<1>2. CASE a + b >= Wrap
  <2>1. a + b - Wrap \in 0 .. Wrap - 1
    BY <1>2, ReportingAssumption
  <2>2. ((a + b - Wrap) + Wrap) % Wrap = a + b - Wrap
    BY <2>1, ReportingAssumption
  <2> QED BY <1>2, <2>2, ReportingAssumption
<1> QED BY <1>1, <1>2, ReportingAssumption

\* One more, wrapped or not.
LEMMA WrappedSuccessor ==
    ASSUME NEW a \in 0 .. Wrap - 1, NEW b \in 0 .. Wrap - 2
    PROVE  (((a + b) % Wrap) + 1) % Wrap = (a + (b + 1)) % Wrap
<1>1. b \in 0 .. Wrap - 1 /\ b + 1 \in 0 .. Wrap - 1
  BY ReportingAssumption
<1>2. /\ (a + b) % Wrap = IF a + b < Wrap THEN a + b ELSE a + b - Wrap
      /\ (a + (b + 1)) % Wrap = IF a + (b + 1) < Wrap THEN a + (b + 1)
                                ELSE a + (b + 1) - Wrap
  BY <1>1, WrappedSum
<1>3. CASE a + b < Wrap
  <2>1. ((a + b) % Wrap) + 1 = a + (b + 1)
    BY <1>2, <1>3
  <2> QED BY <2>1, Zenon
<1>4. CASE ~(a + b < Wrap)
  <2>1. (a + b) % Wrap = a + b - Wrap /\ ~(a + (b + 1) < Wrap)
    BY <1>2, <1>4, ReportingAssumption
  <2>2. ((a + b) % Wrap) + 1 = a + (b + 1) - Wrap
    BY <2>1, ReportingAssumption
  <2>3. (a + (b + 1)) % Wrap = a + (b + 1) - Wrap
    BY <1>2, <2>1, Zenon
  <2>4. (a + (b + 1) - Wrap) \in 0 .. Wrap - 1
    BY <1>4, ReportingAssumption
  <2>5. (a + (b + 1) - Wrap) % Wrap = a + (b + 1) - Wrap
    BY <2>4, ReportingAssumption
  <2> QED BY <2>2, <2>3, <2>5, Zenon
<1> QED BY <1>3, <1>4, Zenon

\* The wrapped difference undoes the wrapped sum.
LEMMA WrappedDifference ==
    ASSUME NEW a \in 0 .. Wrap - 1, NEW b \in 0 .. Wrap - 1
    PROVE  (((a + b) % Wrap) - a) % Wrap = b
<1>1. (a + b) % Wrap = IF a + b < Wrap THEN a + b ELSE a + b - Wrap
  BY WrappedSum
<1>2. /\ (a + b) - a = b
      /\ (a + b - Wrap) - a = b - Wrap
  BY ReportingAssumption
<1>3. b % Wrap = b /\ (b - Wrap) % Wrap = b
  BY ReportingAssumption
<1>4. CASE a + b < Wrap
  BY <1>1, <1>2, <1>3, <1>4, Zenon
<1>5. CASE ~(a + b < Wrap)
  BY <1>1, <1>2, <1>3, <1>5, Zenon
<1> QED BY <1>4, <1>5, Zenon

-----------------------------------------------------------------------------
(* The counter, its samples and the monitor.                               *)

\* The counters have their type; the traffic that is known is what the counter
\* gained since the sample, and likewise from sample to sample; and the monitor
\* does not close while the converter may still ask it.
RateInv ==
    /\ total \in 0 .. Wrap - 1 /\ cur \in 0 .. Wrap - 1 /\ prev \in 0 .. Wrap - 1
    /\ traffic \in -1 .. Wrap - 1 /\ interval \in -1 .. Wrap - 1
    /\ traffic # -1 => total = (cur + traffic) % Wrap
    /\ interval # -1 => cur = (prev + interval) % Wrap
    /\ mon = "closed" => conv \in {"close", "closed"}

\* The invariant holds in every reachable state.
LEMMA RateInvariant == Spec => []RateInv
<1>1. Init => RateInv
  BY ReportingAssumption DEF Init, RateInv
<1>2. RateInv /\ [Next]_vars => RateInv'
  <2> SUFFICES ASSUME RateInv, [Next]_vars PROVE RateInv'
    OBVIOUS
  <2> USE DEF process, agent, device, converter, monitor, sampled, counters, ends
  <2>1. CASE Traffic
    <3>1. /\ traffic \in 0 .. Wrap - 2
          /\ total' = (total + 1) % Wrap /\ traffic' = traffic + 1
          /\ UNCHANGED <<cur, prev, interval, mon, conv>>
      BY <2>1 DEF Traffic
    <3>2. total' \in 0 .. Wrap - 1
      BY <3>1, ModuloRange DEF RateInv
    <3>3. total = (cur + traffic) % Wrap
      BY <3>1 DEF RateInv
    <3>4. total' = (((cur + traffic) % Wrap) + 1) % Wrap
      BY <3>1, <3>3
    <3>5. total' = (cur + (traffic + 1)) % Wrap
      BY <3>1, <3>4, WrappedSuccessor DEF RateInv
    <3> QED BY <3>1, <3>2, <3>5, ReportingAssumption DEF RateInv
  <2>2. CASE InterfaceRemoved
    BY <2>2, ReportingAssumption DEF InterfaceRemoved, RateInv
  <2>3. CASE Update
    <3>1. CASE UNCHANGED <<sampled, traffic>>
      BY <2>3, <3>1 DEF Update, RateInv
    <3>2. CASE prev' = cur /\ cur' = total /\ interval' = traffic /\ traffic' = 0
      <4>1. total = (total + 0) % Wrap
        BY ReportingAssumption DEF RateInv
      <4> QED BY <2>3, <3>2, <4>1, ReportingAssumption DEF Update, RateInv
    <3> QED BY <2>3, <3>1, <3>2 DEF Update
  <2>4. CASE Stop
    BY <2>4 DEF Stop, RateInv
  <2>5. CASE ConverterStep
    <3>1. UNCHANGED <<monitor, counters>>
      BY <2>5 DEF ConverterStep, Receive, Wait, Measure, Save, Send, CloseMonitor,
                  CloseOutput
    <3>2. conv \in {"close", "closed"} => conv' = "closed"
      BY <2>5 DEF ConverterStep, Receive, Wait, Measure, Save, Send, CloseMonitor,
                  CloseOutput
    <3> QED BY <3>1, <3>2 DEF RateInv
  <2>6. CASE Exit \/ EndSource \/ RequesterStep
    BY <2>6 DEF Exit, EndSource, RequesterStep, RequestsFail, ReportFailure,
                CancelRequester, RateInv
  <2>7. CASE SinkStep
    BY <2>7 DEF SinkStep, LimiterDrop, Publish, WriteLine, PassOn, Lose, Dump, End,
                RateInv
  <2>8. CASE UNCHANGED vars
    BY <2>8 DEF vars, RateInv
  <2> QED BY <2>1, <2>2, <2>3, <2>4, <2>5, <2>6, <2>7, <2>8
          DEF Next, EnvironmentStep, MonitorStep
<1> QED BY <1>1, <1>2, PTL DEF Spec

\* The rate in a report is the traffic between the monitor's last two samples,
\* however wide the counters are, whether or not one wrapped in between.
THEOREM RatesAreTraffic == Spec => RateIsTraffic
<1>1. RateInv /\ [Next]_vars =>
        [conv = "measure" /\ conv' = "save" /\ interval # -1 => rate' = interval]_vars
  <2> SUFFICES ASSUME RateInv, Next, conv = "measure", conv' = "save", interval # -1
               PROVE  rate' = interval
    OBVIOUS
  <2>1. Measure
    BY DEF Next, EnvironmentStep, MonitorStep, ConverterStep, RequesterStep,
           SinkStep, Traffic, InterfaceRemoved, Exit, EndSource, Update, Stop,
           Receive, Wait, Save, Send, CloseMonitor, CloseOutput, RequestsFail,
           ReportFailure, CancelRequester, LimiterDrop, Publish, WriteLine, Dump, End,
           converter
  <2>2. mon # "closed"
    BY DEF RateInv
  <2>3. rate' = (cur - prev) % Wrap
    BY <2>1, <2>2 DEF Measure, Diff
  <2>4. cur = (prev + interval) % Wrap /\ interval \in 0 .. Wrap - 1
    BY ReportingAssumption DEF RateInv
  <2> QED BY <2>3, <2>4, WrappedDifference DEF RateInv
<1> QED BY <1>1, RateInvariant, PTL DEF Spec, RateIsTraffic

-----------------------------------------------------------------------------
(* Types and the capacity of the channel.                                  *)

\* What the converter and the requester make are messages.
LEMMA MadeMessages ==
    /\ noMessage \in Messages /\ requesterError \in Messages
    /\ \A n \in 0 .. MaxArrivals :
        /\ Refusal(n) \in Messages
        /\ Message(n, TRUE, FALSE, FALSE) \in Messages
        /\ \A k : Converted(n, k) \in Messages
    /\ \A m \in Messages : m.n \in 0 .. MaxArrivals
<1>1. 0 \in 0 .. MaxArrivals
  BY ReportingAssumption
<1>2. \A n \in 0 .. MaxArrivals : \A a, b, c \in BOOLEAN : Message(n, a, b, c) \in Messages
  BY DEF Message, Messages
<1>3. \A k : /\ (k # "unknown") \in BOOLEAN /\ (k = "unknown") \in BOOLEAN
            /\ (k \in {"badPayload", "badDatapoint"}) \in BOOLEAN
  OBVIOUS
<1>4. \A m \in Messages : m.n \in 0 .. MaxArrivals
  BY DEF Messages
<1>5. TRUE \in BOOLEAN /\ FALSE \in BOOLEAN
  BY Zenon
<1> QED BY <1>1, <1>2, <1>3, <1>4, <1>5, Zenon
        DEF noMessage, requesterError, Refusal, Converted

\* Appending to a channel that is not full, and reading from one that is not empty.
LEMMA Channel ==
    ASSUME NEW S, NEW q \in Seq(S)
    PROVE  /\ \A m \in S : Append(q, m) \in Seq(S) /\ Len(Append(q, m)) = Len(q) + 1
           /\ q # <<>> => /\ Head(q) \in S /\ Tail(q) \in Seq(S)
                          /\ Len(Tail(q)) = Len(q) - 1
           /\ Len(q) \in Nat
  OBVIOUS

\* Every reachable state is well typed: the channel keeps to its capacity, and no
\* sample or rate leaves the range of the counters.
THEOREM ReportingTypeCorrect == Spec => []TypeOK
<1>1. Init => TypeOK
  <2> SUFFICES ASSUME Init PROVE TypeOK
    OBVIOUS
  <2>1. /\ form \in Forms /\ app \in {"running", "exited"} /\ source \in {"open", "ended"}
        /\ mon \in {"none", "update", "select", "closed"}
        /\ requester \in {"running", "failed", "closed"} /\ sink \in {"serving", "ended"}
    BY DEF Init
  <2>2. conv \in {"none", "receive", "wait", "measure", "save", "send", "close", "closed"}
    BY DEF Init
  <2>3. /\ {total, cur, prev} \subseteq 0 .. Wrap - 1
        /\ {traffic, interval} \subseteq -1 .. Wrap - 1
        /\ rate \in 0 .. Wrap - 1 \cup {None}
    BY ReportingAssumption DEF Init
  <2>4. /\ arrived \in Seq(Arrivals) /\ Len(arrived) <= MaxArrivals
        /\ out \in Seq(Messages) /\ Len(out) <= OutCap /\ lines \in Seq(Messages)
        /\ lost \subseteq 0 .. MaxArrivals
    BY ReportingAssumption DEF Init
  <2>5. draft \in Messages
    BY MadeMessages, Zenon DEF Init
  <2> QED BY <2>1, <2>2, <2>3, <2>4, <2>5, Zenon DEF TypeOK
<1>2. TypeOK /\ [Next]_vars => TypeOK'
  <2> SUFFICES ASSUME TypeOK, [Next]_vars PROVE TypeOK'
    OBVIOUS
  <2> USE DEF process, agent, device, converter, monitor, sampled, counters, ends, TypeOK
  <2>1. CASE EnvironmentStep
    <3>1. CASE Traffic
      <4>0. total' = (total + 1) % Wrap /\ total + 1 \in Int
        BY <3>1 DEF Traffic
      <4>1. total' \in 0 .. Wrap - 1
        BY <4>0, ModuloRange, Zenon
      <4> QED BY <3>1, <4>1, ReportingAssumption DEF Traffic
    <3>2. CASE InterfaceRemoved
      BY <3>2, ReportingAssumption DEF InterfaceRemoved
    <3>3. CASE Exit \/ EndSource
      BY <3>3 DEF Exit, EndSource
    <3> QED BY <2>1, <3>1, <3>2, <3>3 DEF EnvironmentStep
  <2>2. CASE MonitorStep
    <3>1. CASE Update
      BY <3>1, ReportingAssumption DEF Update
    <3>2. CASE Stop
      BY <3>2 DEF Stop
    <3> QED BY <2>2, <3>1, <3>2 DEF MonitorStep
  <2>3. CASE ConverterStep
    <3>1. CASE Receive
      <4>1. PICK k \in Arrivals :
              /\ Arrive(k)
              /\ draft' = IF k \in {"applog", "log"} THEN noMessage
                          ELSE Converted(Len(arrived'), k)
              /\ conv' = IF k \in {"applog", "log"} THEN "receive"
                         ELSE IF k \in ExitKinds THEN "wait" ELSE "save"
        BY <3>1 DEF Receive
      <4>2. arrived' \in Seq(Arrivals) /\ Len(arrived') \in 0 .. MaxArrivals
        BY <4>1, Channel, ReportingAssumption DEF Arrive
      <4>3. draft' \in Messages
        BY <4>1, <4>2, MadeMessages
      <4> QED BY <3>1, <4>1, <4>2, <4>3 DEF Receive
    <3>2. CASE Wait \/ CloseMonitor \/ CloseOutput
      BY <3>2 DEF Wait, CloseMonitor, CloseOutput
    <3>3. CASE Measure
      <4>1. Diff \in 0 .. Wrap - 1
        BY ModuloRange DEF Diff
      <4> QED BY <3>3, <4>1, ReportingAssumption DEF Measure
    <3>4. CASE Save
      <4>1. draft' \in Messages
        BY <3>4, MadeMessages DEF Save
      <4> QED BY <3>4, <4>1 DEF Save
    <3>5. CASE Send
      <4>1. out' \in Seq(Messages) /\ Len(out') <= OutCap
        BY <3>5, Channel, ReportingAssumption DEF Send
      <4> QED BY <3>5, <4>1, MadeMessages DEF Send
    <3> QED BY <2>3, <3>1, <3>2, <3>3, <3>4, <3>5 DEF ConverterStep
  <2>4. CASE RequesterStep
    <3>1. CASE ReportFailure
      <4>1. out' \in Seq(Messages) /\ Len(out') <= OutCap
        BY <3>1, Channel, MadeMessages, ReportingAssumption DEF ReportFailure
      <4> QED BY <3>1, <4>1 DEF ReportFailure
    <3>2. CASE RequestsFail \/ CancelRequester
      BY <3>2 DEF RequestsFail, CancelRequester
    <3> QED BY <2>4, <3>1, <3>2 DEF RequesterStep
  <2>5. CASE SinkStep
    <3>1. CASE LimiterDrop \/ Publish \/ WriteLine
      <4>1. out # <<>> /\ out' = Tail(out)
        BY <3>1 DEF LimiterDrop, Publish, WriteLine, PassOn, Lose
      <4>2. /\ out' \in Seq(Messages) /\ Len(out') <= OutCap /\ Head(out) \in Messages
        BY <4>1, Channel, ReportingAssumption
      <4>3. Head(out).n \in 0 .. MaxArrivals
        BY <4>2, MadeMessages
      <4>4. Append(lines, Head(out)) \in Seq(Messages)
        BY <4>2, Channel
      <4>5. lines' \in {lines, Append(lines, Head(out))}
        BY <3>1 DEF LimiterDrop, Publish, WriteLine, PassOn, Lose
      <4>6. lost' \in {lost, lost \cup {Head(out).n}}
        BY <3>1 DEF LimiterDrop, Publish, WriteLine, PassOn, Lose
      <4>7. UNCHANGED <<form, app, source, arrived, converter, monitor, counters,
                        requester, sink>>
        BY <3>1 DEF LimiterDrop, Publish, WriteLine, PassOn, Lose
      <4>8. lines' \in Seq(Messages) /\ lost' \subseteq 0 .. MaxArrivals
        BY <4>3, <4>4, <4>5, <4>6, Zenon
      <4> QED BY <4>2, <4>7, <4>8
    <3>2. CASE Dump
      <4>1. PICK k \in Arrivals :
              /\ Arrive(k)
              /\ lines' = Append(lines, Message(Len(arrived'), TRUE, FALSE, FALSE))
        BY <3>2 DEF Dump
      <4>2. arrived' \in Seq(Arrivals) /\ Len(arrived') \in 0 .. MaxArrivals
        BY <4>1, Channel, ReportingAssumption DEF Arrive
      <4>3. lines' \in Seq(Messages)
        BY <4>1, <4>2, Channel, MadeMessages
      <4>4. UNCHANGED <<form, app, source, converter, monitor, counters, requester,
                        out, sink, lost>>
        BY <3>2 DEF Dump
      <4> QED BY <4>2, <4>3, <4>4
    <3>3. CASE End
      BY <3>3 DEF End
    <3> QED BY <2>5, <3>1, <3>2, <3>3 DEF SinkStep
  <2>6. CASE UNCHANGED vars
    BY <2>6 DEF vars
  <2> QED BY <2>1, <2>2, <2>3, <2>4, <2>5, <2>6 DEF Next
<1> QED BY <1>1, <1>2, PTL DEF Spec

-----------------------------------------------------------------------------
(* The outcome of each message.                                            *)

\* The numbers of the messages that have one ascend; and the numbers in a sequence.
Ascending(q) ==
    \A i, j \in DOMAIN q : i < j /\ q[i].n > 0 /\ q[j].n > 0 => q[i].n < q[j].n

Numbers(q) == {m.n : m \in Range(q)}

\* The numbers in a sequence, by its positions.
LEMMA NumbersAre ==
    ASSUME NEW q PROVE Numbers(q) = {q[i].n : i \in DOMAIN q}
  BY DEF Numbers, Range

\* A message that moves from the channel to the lines leaves what was passed as it is.
LEMMA Moved ==
    ASSUME NEW S, NEW p \in Seq(S), NEW q \in Seq(S), q # <<>>
    PROVE  Append(p, Head(q)) \o Tail(q) = p \o q
  OBVIOUS

\* What is appended to the channel is appended to what was passed.
LEMMA Extended ==
    ASSUME NEW S, NEW p \in Seq(S), NEW q \in Seq(S), NEW m \in S
    PROVE  p \o Append(q, m) = Append(p \o q, m)
  OBVIOUS

\* A new message that has no number, or the greatest.
LEMMA AscendingAppend ==
    ASSUME NEW q \in Seq(Messages), Ascending(q), NEW m \in Messages,
           m.n = 0 \/ \A k \in Numbers(q) : k < m.n
    PROVE  Ascending(Append(q, m)) /\ Numbers(Append(q, m)) = Numbers(q) \cup {m.n}
<1> DEFINE r == Append(q, m)
<1>1. /\ DOMAIN q = 1 .. Len(q) /\ DOMAIN r = 1 .. Len(q) + 1 /\ Len(q) \in Nat
      /\ r[Len(q) + 1] = m /\ \A i \in 1 .. Len(q) : r[i] = q[i]
  OBVIOUS
<1>2. \A i \in 1 .. Len(q) : q[i].n \in Numbers(q)
  BY <1>1, NumbersAre
<1>3. \A i \in 1 .. Len(q) + 1 : i \in 1 .. Len(q) \/ i = Len(q) + 1
  BY <1>1
<1>4. Numbers(r) = Numbers(q) \cup {m.n}
  <2>1. Numbers(r) = {r[i].n : i \in 1 .. Len(q) + 1}
    BY <1>1, NumbersAre
  <2>2. Numbers(q) = {q[i].n : i \in 1 .. Len(q)}
    BY <1>1, NumbersAre
  <2> QED BY <1>1, <1>3, <2>1, <2>2
<1>5. Ascending(r)
  <2> SUFFICES ASSUME NEW i \in 1 .. Len(q) + 1, NEW j \in 1 .. Len(q) + 1, i < j,
                      r[i].n > 0, r[j].n > 0
               PROVE  r[i].n < r[j].n
    BY <1>1 DEF Ascending
  <2>1. i \in 1 .. Len(q)
    BY <1>1
  <2>2. CASE j \in 1 .. Len(q)
    BY <1>1, <2>1, <2>2 DEF Ascending
  <2>3. CASE j = Len(q) + 1
    <3>1. r[j].n = m.n /\ r[i].n = q[i].n
      BY <1>1, <2>1, <2>3
    <3>2. m.n # 0
      BY <3>1 DEF Messages
    <3> QED BY <1>2, <2>1, <3>1, <3>2
  <2> QED BY <1>3, <2>2, <2>3
<1> QED BY <1>4, <1>5

\* A message is dropped from the channel: its number, if it has one, is gone.
LEMMA AscendingDrop ==
    ASSUME NEW p \in Seq(Messages), NEW q \in Seq(Messages), q # <<>>,
           Ascending(p \o q)
    PROVE  /\ Ascending(p \o Tail(q))
           /\ Numbers(p \o q) = Numbers(p \o Tail(q)) \cup {Head(q).n}
           /\ Head(q).n > 0 => Head(q).n \notin Numbers(p \o Tail(q))
<1> DEFINE all == p \o q
           rest == p \o Tail(q)
           k == Len(p) + 1
           from(i) == IF i < k THEN i ELSE i + 1
<1>1. /\ Len(p) \in Nat /\ Len(q) \in Nat \ {0}
      /\ DOMAIN all = 1 .. Len(p) + Len(q) /\ DOMAIN rest = 1 .. Len(p) + Len(q) - 1
      /\ all[k] = Head(q)
  OBVIOUS
<1>2. \A i \in DOMAIN rest : rest[i] = all[from(i)] /\ from(i) \in DOMAIN all
  OBVIOUS
<1>3. \A i, j \in DOMAIN rest : i < j => from(i) < from(j)
  BY <1>1
<1>4. Ascending(rest)
  <2> SUFFICES ASSUME NEW i \in DOMAIN rest, NEW j \in DOMAIN rest, i < j,
                      rest[i].n > 0, rest[j].n > 0
               PROVE  rest[i].n < rest[j].n
    BY DEF Ascending
  <2> HIDE DEF all, rest, from
  <2> QED BY <1>2, <1>3 DEF Ascending, all
<1>5. \A j \in DOMAIN all : j = k \/ \E i \in DOMAIN rest : j = from(i)
  <2> SUFFICES ASSUME NEW j \in DOMAIN all, j # k
               PROVE  \E i \in DOMAIN rest : j = from(i)
    OBVIOUS
  <2>1. CASE j < k
    <3>1. j \in DOMAIN rest /\ from(j) = j
      BY <1>1, <2>1
    <3> QED BY <3>1
  <2>2. CASE ~(j < k)
    <3>1. j - 1 \in DOMAIN rest /\ from(j - 1) = j
      BY <1>1, <2>2
    <3> QED BY <3>1
  <2> QED BY <2>1, <2>2
<1>6. Numbers(all) = Numbers(rest) \cup {Head(q).n}
  <2>1. /\ Numbers(rest) = {rest[i].n : i \in DOMAIN rest}
        /\ Numbers(all) = {all[i].n : i \in DOMAIN all}
    BY NumbersAre
  <2>2. k \in DOMAIN all
    BY <1>1
  <2> HIDE DEF all, rest, from, k
  <2> QED BY <1>1, <1>2, <1>5, <2>1, <2>2
<1>7. ASSUME Head(q).n > 0, NEW i \in DOMAIN rest PROVE rest[i].n # Head(q).n
  <2>1. /\ k \in DOMAIN all /\ from(i) \in Nat /\ k \in Nat /\ from(i) # k
        /\ rest[i] = all[from(i)] /\ from(i) \in DOMAIN all
    BY <1>1, <1>2
  <2>2. Head(q).n \in Nat
    <3>1. Head(q) \in Messages
      BY Channel
    <3> QED BY <3>1, MadeMessages
  <2>3. Ascending(all)
    OBVIOUS
  <2> HIDE DEF all, rest, from, k
  <2>4. \A a, b \in DOMAIN all : a < b /\ all[a].n > 0 /\ all[b].n > 0 => all[a].n < all[b].n
    BY <2>3 DEF Ascending
  <2>5. CASE rest[i].n = Head(q).n
    BY <1>1, <1>7, <2>1, <2>2, <2>4, <2>5
  <2> QED BY <2>5
<1>8. Head(q).n > 0 => Head(q).n \notin Numbers(rest)
  BY <1>7, NumbersAre
<1> QED BY <1>4, <1>6, <1>8

\* Each of the messages e but those of h has its outcome: it is in q, or in l, and
\* never in both.
Outcome(q, l, e, h) ==
    /\ Ascending(q)
    /\ \A k \in Numbers(q) : k > 0 => k \notin l
    /\ (Numbers(q) \cup l) \ {0} = e \ h

\* OneOutcomeEach, before and after a step.
LEMMA OutcomeIs ==
    /\ OneOutcomeEach <=> Outcome(Passed, lost, Expected, InHand)
    /\ OneOutcomeEach' <=> Outcome(Passed', lost', Expected', InHand')
<1>1. OneOutcomeEach <=> Outcome(Passed, lost, Expected, InHand)
  <2>1. /\ Numbers(Passed) = {Passed[i].n : i \in DOMAIN Passed}
        /\ Numbers(Passed) = {m.n : m \in Range(Passed)}
    BY NumbersAre DEF Numbers
  <2> QED BY <2>1 DEF OneOutcomeEach, Outcome, Ascending
<1>2. OneOutcomeEach' <=> Outcome(Passed', lost', Expected', InHand')
  <2>1. /\ Numbers(Passed') = {Passed'[i].n : i \in DOMAIN Passed'}
        /\ Numbers(Passed') = {m.n : m \in Range(Passed')}
    BY NumbersAre DEF Numbers
  <2> QED BY <2>1 DEF OneOutcomeEach, Outcome, Ascending
<1> QED BY <1>1, <1>2

\* The message in hand is the last that arrived, and no log; a dumper has no converter
\* and uses no channel.
Draft ==
    /\ form = "dumper" => conv = "none" /\ out = <<>>
    /\ conv \in {"wait", "measure", "save", "send"} =>
        /\ draft.n = Len(arrived) /\ Len(arrived) > 0
        /\ arrived[Len(arrived)] \notin {"applog", "log"}

\* Steps that touch neither what arrived nor what was passed on or lost.
Aside ==
    \/ EnvironmentStep \/ MonitorStep \/ Wait \/ Measure \/ Save \/ CloseMonitor
    \/ CloseOutput \/ RequestsFail \/ CancelRequester \/ End \/ UNCHANGED vars

\* A refusal and its message have the same number.
LEMMA RefusalNumber == \A n : Refusal(n).n = n /\ \A k : Converted(n, k).n = n
  BY DEF Refusal, Converted, Message

\* Such a step changes no outcome and keeps the number of the message in hand.
LEMMA AsideKeeps ==
    ASSUME TypeOK, Aside
    PROVE  /\ UNCHANGED <<form, arrived, out, lines, lost>> /\ draft'.n = draft.n
           /\ Passed' = Passed /\ Expected' = Expected /\ InHand' = InHand
           /\ conv' \in {"wait", "measure", "save", "send"}
                => conv \in {"wait", "measure", "save", "send"}
           /\ conv = "none" => conv' = "none"
<1> USE DEF process, agent, device, converter, monitor, sampled, counters, ends
<1>1. UNCHANGED <<form, arrived, out, lines, lost>>
  BY DEF Aside, EnvironmentStep, Traffic, InterfaceRemoved, Exit, EndSource, MonitorStep,
         Update, Stop, Wait, Measure, Save, CloseMonitor, CloseOutput, RequestsFail,
         CancelRequester, End, vars
<1>2. draft'.n = draft.n
  BY RefusalNumber
     DEF Aside, EnvironmentStep, Traffic, InterfaceRemoved, Exit, EndSource, MonitorStep,
         Update, Stop, Wait, Measure, Save, CloseMonitor, CloseOutput, RequestsFail,
         CancelRequester, End, vars
<1>3. \/ conv' = conv
      \/ conv \in {"wait", "measure", "save"} /\ conv' \in {"measure", "save", "send"}
      \/ conv \in {"receive", "close"} /\ conv' \in {"close", "closed"}
  BY DEF Aside, EnvironmentStep, Traffic, InterfaceRemoved, Exit, EndSource, MonitorStep,
         Update, Stop, Wait, Measure, Save, CloseMonitor, CloseOutput, RequestsFail,
         CancelRequester, End, vars
<1>4. Passed' = Passed /\ Expected' = Expected
  BY <1>1 DEF Passed, Expected
<1>5. InHand' = InHand
  BY <1>2, <1>3 DEF InHand
<1> QED BY <1>1, <1>2, <1>3, <1>4, <1>5

\* One more message arrives: it is expected, unless it is a log for the converter.
LEMMA ArrivalExpected ==
    ASSUME TypeOK, NEW k \in Arrivals, Arrive(k), form' = form
    PROVE  /\ arrived' \in Seq(Arrivals) /\ Len(arrived') = Len(arrived) + 1
           /\ arrived'[Len(arrived')] = k
           /\ Len(arrived') \in 0 .. MaxArrivals
           /\ form = "dumper" \/ k \notin {"applog", "log"} =>
                  Expected' = Expected \cup {Len(arrived')}
           /\ ~(form = "dumper" \/ k \notin {"applog", "log"}) => Expected' = Expected
<1>1. /\ arrived \in Seq(Arrivals) /\ Len(arrived) < MaxArrivals
      /\ arrived' = Append(arrived, k)
  BY DEF TypeOK, Arrive
<1>2. /\ DOMAIN arrived = 1 .. Len(arrived) /\ DOMAIN arrived' = 1 .. Len(arrived) + 1
      /\ Len(arrived) \in Nat /\ arrived'[Len(arrived) + 1] = k
      /\ \A i \in 1 .. Len(arrived) : arrived'[i] = arrived[i]
      /\ arrived' \in Seq(Arrivals) /\ Len(arrived') = Len(arrived) + 1
  BY <1>1
<1>3. Expected = {n \in 1 .. Len(arrived) :
                    form = "dumper" \/ arrived[n] \notin {"applog", "log"}}
  BY <1>2 DEF Expected
<1>4. Expected' = {n \in 1 .. Len(arrived) + 1 :
                    form = "dumper" \/ arrived'[n] \notin {"applog", "log"}}
  BY <1>2 DEF Expected
<1>5. /\ form = "dumper" \/ k \notin {"applog", "log"} =>
             Expected' = Expected \cup {Len(arrived) + 1}
      /\ ~(form = "dumper" \/ k \notin {"applog", "log"}) => Expected' = Expected
  BY <1>2, <1>3, <1>4
<1> QED BY <1>1, <1>2, <1>5, ReportingAssumption

\* What has an outcome has arrived.
LEMMA OutcomesArrived ==
    ASSUME TypeOK, OneOutcomeEach
    PROVE  /\ Passed \in Seq(Messages) /\ Ascending(Passed)
           /\ \A k \in Numbers(Passed) : k > 0 => k \notin lost
           /\ (Numbers(Passed) \cup lost) \ {0} = Expected \ InHand
           /\ \A k \in Numbers(Passed) : k \in 0 .. Len(arrived)
           /\ Expected \subseteq 1 .. Len(arrived)
<1>1. Passed \in Seq(Messages)
  BY DEF TypeOK, Passed
<1>2. /\ Ascending(Passed)
      /\ \A k \in Numbers(Passed) : k > 0 => k \notin lost
      /\ (Numbers(Passed) \cup lost) \ {0} = Expected \ InHand
  BY OutcomeIs DEF Outcome
<1>3. Expected \subseteq 1 .. Len(arrived) /\ Len(arrived) \in Nat
  BY DEF Expected, TypeOK
<1>4. \A k \in Numbers(Passed) : k = 0 \/ k \in 1 .. Len(arrived)
  BY <1>2, <1>3
<1> QED BY <1>1, <1>2, <1>3, <1>4

\* Steps aside, and the others.
LEMMA StepsAre ==
    [Next]_vars => \/ Aside \/ Receive \/ Send \/ ReportFailure
                   \/ LimiterDrop \/ Publish \/ WriteLine \/ Dump
  BY DEF Next, Aside, ConverterStep, RequesterStep, SinkStep

\* The message in hand remains the last that arrived.
LEMMA DraftHolds == TypeOK /\ Draft /\ [Next]_vars => Draft'
<1> SUFFICES ASSUME TypeOK, Draft, [Next]_vars PROVE Draft'
  OBVIOUS
<1> USE DEF process, agent, converter
<1>1. CASE Aside
  BY <1>1, AsideKeeps DEF Draft
<1>2. CASE Receive
  <2>1. PICK k \in Arrivals :
          /\ Arrive(k)
          /\ draft' = IF k \in {"applog", "log"} THEN noMessage
                      ELSE Converted(Len(arrived'), k)
          /\ conv' = IF k \in {"applog", "log"} THEN "receive"
                     ELSE IF k \in ExitKinds THEN "wait" ELSE "save"
    BY <1>2 DEF Receive
  <2>2. conv = "receive" /\ UNCHANGED <<form, out>>
    BY <1>2 DEF Receive
  <2>3. Len(arrived') > 0 /\ arrived'[Len(arrived')] = k
    BY <2>1, <2>2, ArrivalExpected DEF TypeOK
  <2>4. k \notin {"applog", "log"} => draft'.n = Len(arrived')
    BY <2>1, RefusalNumber
  <2> QED BY <2>1, <2>2, <2>3, <2>4 DEF Draft
<1>3. CASE Send
  <2>1. conv = "send" /\ conv' = "receive" /\ form' = form
    BY <1>3 DEF Send
  <2> QED BY <2>1 DEF Draft
<1>4. CASE ReportFailure
  BY <1>4 DEF ReportFailure, Draft
<1>5. CASE LimiterDrop \/ Publish \/ WriteLine
  <2>1. form # "dumper" /\ UNCHANGED <<form, conv, draft, arrived>>
    BY <1>5 DEF LimiterDrop, Publish, WriteLine
  <2> QED BY <2>1 DEF Draft
<1>6. CASE Dump
  <2>1. form = "dumper" /\ UNCHANGED <<form, conv, draft, out>>
    BY <1>6 DEF Dump
  <2> QED BY <2>1 DEF Draft
<1> QED BY <1>1, <1>2, <1>3, <1>4, <1>5, <1>6, StepsAre

\* The converter takes in a message, or drops a log.
LEMMA ReceiveOutcome ==
    TypeOK /\ Draft /\ OneOutcomeEach /\ Receive => OneOutcomeEach'
<1> SUFFICES ASSUME TypeOK, Draft, OneOutcomeEach, Receive PROVE OneOutcomeEach'
  OBVIOUS
<1>1. PICK k \in Arrivals :
        /\ Arrive(k)
        /\ draft' = IF k \in {"applog", "log"} THEN noMessage
                    ELSE Converted(Len(arrived'), k)
        /\ conv' = IF k \in {"applog", "log"} THEN "receive"
                   ELSE IF k \in ExitKinds THEN "wait" ELSE "save"
  BY DEF Receive
<1>2. conv = "receive" /\ UNCHANGED <<form, out, lines, lost>> /\ form # "dumper"
  BY DEF Receive, process, ends, Draft
<1>3. InHand = {} /\ Passed' = Passed
  BY <1>2 DEF InHand, Passed
<1>4. CASE k \in {"applog", "log"}
  <2>1. Expected' = Expected /\ InHand' = {}
    BY <1>1, <1>2, <1>4, ArrivalExpected DEF InHand
  <2> QED BY <1>2, <1>3, <2>1, OutcomeIs
<1>5. CASE k \notin {"applog", "log"}
  <2>1. Expected' = Expected \cup {Len(arrived')} /\ InHand' = {Len(arrived')}
    BY <1>1, <1>2, <1>5, ArrivalExpected, RefusalNumber DEF InHand
  <2>2. Len(arrived') \notin Expected
    BY <1>1, <1>2, ArrivalExpected, OutcomesArrived DEF TypeOK
  <2>3. Expected' \ InHand' = Expected \ InHand
    BY <1>3, <2>1, <2>2
  <2> QED BY <1>2, <1>3, <2>3, OutcomeIs DEF Outcome
<1> QED BY <1>4, <1>5

\* A message that is sent is the last of all that arrived.
LEMMA SendOutcome ==
    TypeOK /\ Draft /\ OneOutcomeEach /\ Send => OneOutcomeEach'
<1> SUFFICES ASSUME TypeOK, Draft, OneOutcomeEach, Send PROVE OneOutcomeEach'
  OBVIOUS
<1>1. /\ conv = "send" /\ conv' = "receive" /\ out' = Append(out, draft)
      /\ UNCHANGED <<form, arrived, lines, lost>>
  BY DEF Send, process, agent, ends
<1>2. PICK d : d = draft
  OBVIOUS
<1>3. d \in Messages /\ d.n = Len(arrived) /\ d.n > 0
  BY <1>1, <1>2 DEF Draft, TypeOK
<1>4. InHand = {d.n} /\ InHand' = {} /\ Expected' = Expected
  BY <1>1, <1>2 DEF InHand, Expected
<1>5. Passed' = Append(Passed, d)
  <2>1. lines \in Seq(Messages) /\ out \in Seq(Messages)
    BY DEF TypeOK
  <2>2. lines \o Append(out, d) = Append(lines \o out, d)
    BY <1>3, <2>1, Extended
  <2> QED BY <1>1, <1>2, <2>2 DEF Passed
<1>6. d.n \in Expected
  BY <1>1, <1>2, <1>3 DEF Expected, Draft, TypeOK
<1>7. \A k \in Numbers(Passed) : k < d.n
  <2>1. \A k \in Numbers(Passed) : k \in 0 .. Len(arrived) /\ (k = 0 \/ k # d.n)
    BY <1>4, OutcomesArrived
  <2> QED BY <1>3, <2>1
<1>8. Ascending(Passed') /\ Numbers(Passed') = Numbers(Passed) \cup {d.n}
  BY <1>3, <1>5, <1>7, AscendingAppend, OutcomesArrived
<1>9. (Numbers(Passed') \cup lost') \ {0} = Expected' \ InHand'
  BY <1>1, <1>3, <1>4, <1>6, <1>8, OutcomesArrived
<1>10. \A k \in Numbers(Passed') : k > 0 => k \notin lost'
  BY <1>1, <1>3, <1>4, <1>8, OutcomesArrived
<1> QED BY <1>8, <1>9, <1>10, OutcomeIs DEF Outcome

\* The requester's message has no number.
LEMMA FailureOutcome ==
    TypeOK /\ OneOutcomeEach /\ ReportFailure => OneOutcomeEach'
<1> SUFFICES ASSUME TypeOK, OneOutcomeEach, ReportFailure PROVE OneOutcomeEach'
  OBVIOUS
<1>1. /\ out' = Append(out, requesterError)
      /\ UNCHANGED <<form, arrived, conv, draft, lines, lost>>
  BY DEF ReportFailure, process, agent, converter, ends
<1>2. InHand' = InHand /\ Expected' = Expected
  BY <1>1 DEF InHand, Expected
<1>3. Passed' = Append(Passed, requesterError)
  <2>1. lines \in Seq(Messages) /\ out \in Seq(Messages)
    BY DEF TypeOK
  <2>2. lines \o Append(out, requesterError) = Append(lines \o out, requesterError)
    BY <2>1, MadeMessages, Extended
  <2> QED BY <1>1, <2>2 DEF Passed
<1>4. requesterError.n = 0
  BY DEF requesterError, Message
<1>5. Ascending(Passed') /\ Numbers(Passed') = Numbers(Passed) \cup {0}
  BY <1>3, <1>4, MadeMessages, AscendingAppend, OutcomesArrived
<1>6. (Numbers(Passed') \cup lost') \ {0} = Expected' \ InHand'
  BY <1>1, <1>2, <1>5, OutcomesArrived
<1>7. \A k \in Numbers(Passed') : k > 0 => k \notin lost'
  BY <1>1, <1>5, OutcomesArrived
<1> QED BY <1>5, <1>6, <1>7, OutcomeIs DEF Outcome

\* What leaves the client leaves it in the order of the channel; a message that the
\* limiter drops, or that is not published or written, is lost and is nowhere else.
LEMMA SinkOutcome ==
    TypeOK /\ OneOutcomeEach /\ (LimiterDrop \/ Publish \/ WriteLine) => OneOutcomeEach'
<1> SUFFICES ASSUME TypeOK, OneOutcomeEach, LimiterDrop \/ Publish \/ WriteLine
             PROVE  OneOutcomeEach'
  OBVIOUS
<1>1. /\ out # <<>> /\ out' = Tail(out)
      /\ UNCHANGED <<form, arrived, conv, draft>>
  BY DEF LimiterDrop, Publish, WriteLine, PassOn, Lose, process, agent, converter
<1>2. InHand' = InHand /\ Expected' = Expected
  BY <1>1 DEF InHand, Expected
<1>3. lines \in Seq(Messages) /\ out \in Seq(Messages)
  BY DEF TypeOK
<1>4. CASE lines' = Append(lines, Head(out)) /\ lost' = lost
  <2>1. Passed' = Passed
    BY <1>1, <1>3, <1>4, Moved DEF Passed
  <2> QED BY <1>2, <1>4, <2>1, OutcomeIs
<1>5. CASE lost' = lost \cup {Head(out).n} /\ lines' = lines
  <2>1. Passed' = lines \o Tail(out)
    BY <1>1, <1>5 DEF Passed
  <2>2. /\ Ascending(Passed')
        /\ Numbers(Passed) = Numbers(Passed') \cup {Head(out).n}
        /\ Head(out).n > 0 => Head(out).n \notin Numbers(Passed')
    BY <1>1, <1>3, <2>1, AscendingDrop, OutcomesArrived DEF Passed
  <2>3. (Numbers(Passed') \cup lost') \ {0} = Expected' \ InHand'
    BY <1>2, <1>5, <2>2, OutcomesArrived
  <2>4. \A k \in Numbers(Passed') : k > 0 => k \notin lost'
    BY <1>5, <2>2, OutcomesArrived
  <2> QED BY <2>2, <2>3, <2>4, OutcomeIs DEF Outcome
<1> QED BY <1>4, <1>5 DEF LimiterDrop, Publish, WriteLine, PassOn, Lose

\* A dumper prints what arrives, and nothing waits in its channel.
LEMMA DumpOutcome ==
    TypeOK /\ Draft /\ OneOutcomeEach /\ Dump => OneOutcomeEach'
<1> SUFFICES ASSUME TypeOK, Draft, OneOutcomeEach, Dump PROVE OneOutcomeEach'
  OBVIOUS
<1>1. PICK k \in Arrivals :
        /\ Arrive(k)
        /\ lines' = Append(lines, Message(Len(arrived'), TRUE, FALSE, FALSE))
  BY DEF Dump
<1>2. /\ form = "dumper" /\ conv = "none" /\ out = <<>>
      /\ UNCHANGED <<form, conv, out, lost>>
  BY DEF Dump, process, converter, Draft
<1>3. PICK m : m = Message(Len(arrived'), TRUE, FALSE, FALSE)
  OBVIOUS
<1>4. /\ m \in Messages /\ m.n = Len(arrived') /\ m.n = Len(arrived) + 1
      /\ Expected' = Expected \cup {m.n}
  <2>1. m.n = Len(arrived')
    BY <1>3 DEF Message
  <2>2. /\ Len(arrived') = Len(arrived) + 1 /\ Len(arrived') \in 0 .. MaxArrivals
        /\ Expected' = Expected \cup {Len(arrived')}
    BY <1>1, <1>2, ArrivalExpected
  <2>3. m \in Messages
    BY <1>3, <2>2, MadeMessages
  <2> QED BY <2>1, <2>2, <2>3
<1>5. InHand = {} /\ InHand' = {}
  BY <1>2 DEF InHand
<1>6. Passed = lines /\ Passed' = Append(Passed, m)
  <2>1. lines \in Seq(Messages) /\ Append(lines, m) \in Seq(Messages)
    BY <1>4 DEF TypeOK
  <2>2. Passed = lines /\ Passed' = Append(lines, m)
    BY <1>1, <1>2, <1>3, <2>1 DEF Passed
  <2> QED BY <2>2
<1>7. \A i \in Numbers(Passed) : i < m.n
  <2>1. Len(arrived) \in Nat
    BY DEF TypeOK
  <2> QED BY <1>4, <2>1, OutcomesArrived
<1>8. Ascending(Passed') /\ Numbers(Passed') = Numbers(Passed) \cup {m.n}
  BY <1>4, <1>6, <1>7, AscendingAppend, OutcomesArrived
<1>9. (Numbers(Passed') \cup lost') \ {0} = Expected' \ InHand'
  <2>1. m.n # 0
    BY <1>4 DEF TypeOK
  <2> QED BY <1>2, <1>4, <1>5, <1>8, <2>1, OutcomesArrived
<1>10. \A i \in Numbers(Passed') : i > 0 => i \notin lost'
  <2>1. m.n \notin lost
    BY <1>4, OutcomesArrived DEF TypeOK
  <2> QED BY <1>2, <1>8, <2>1, OutcomesArrived
<1> QED BY <1>8, <1>9, <1>10, OutcomeIs DEF Outcome

\* In each form of the client every message has one outcome, in the order of arrival,
\* whatever the persistor refuses, the limiter drops, and whichever publications and
\* lines fail.
THEOREM OutcomesAreOne == Spec => []OneOutcomeEach
<1>1. Init => Draft /\ OneOutcomeEach
  <2> SUFFICES ASSUME Init PROVE Draft /\ OneOutcomeEach
    OBVIOUS
  <2>1. Draft
    BY DEF Init, Draft
  <2>2. Passed = <<>> /\ Expected = {} /\ lost = {}
    BY DEF Init, Passed, Expected
  <2>3. Numbers(<<>>) = {} /\ Ascending(<<>>)
    BY DEF Numbers, Range, Ascending
  <2>4. OneOutcomeEach
    BY <2>2, <2>3, OutcomeIs DEF Outcome
  <2> QED BY <2>1, <2>4
<1>2. TypeOK /\ Draft /\ OneOutcomeEach /\ [Next]_vars => Draft' /\ OneOutcomeEach'
  <2> SUFFICES ASSUME TypeOK, Draft, OneOutcomeEach, [Next]_vars
               PROVE  Draft' /\ OneOutcomeEach'
    OBVIOUS
  <2>1. CASE Aside
    BY <2>1, AsideKeeps, DraftHolds, OutcomeIs
  <2> QED BY <2>1, DraftHolds, StepsAre, ReceiveOutcome, SendOutcome, FailureOutcome,
             SinkOutcome, DumpOutcome
<1> QED BY <1>1, <1>2, ReportingTypeCorrect, PTL DEF Spec
=============================================================================
