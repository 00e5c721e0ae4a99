---------------------------- MODULE PipelineProofs ----------------------------
(***************************************************************************)
(* Proofs about Pipeline, whatever the app writes, for every capacity of   *)
(* sockets and channels and every number of leftover messages.             *)
(***************************************************************************)
EXTENDS Pipeline, StreamProofs

\* Appending to a queue, and reading from one that is not empty.
LEMMA Queue ==
    ASSUME NEW S, NEW q \in Seq(S)
    PROVE  /\ \A m \in S : Append(q, m) \in Seq(S) /\ Len(Append(q, m)) = Len(q) + 1
           /\ q # <<>> => /\ Head(q) \in S /\ Tail(q) \in Seq(S)
                          /\ Len(Tail(q)) = Len(q) - 1
           /\ Len(q) \in Nat
  OBVIOUS

\* Reading the first n of a queue leaves the others.
LEMMA Split ==
    ASSUME NEW S, NEW q \in Seq(S), NEW n \in 1 .. Len(q)
    PROVE  /\ SubSeq(q, 1, n) \in Seq(S) /\ Len(SubSeq(q, 1, n)) = n
           /\ SubSeq(q, n + 1, Len(q)) \in Seq(S)
           /\ Len(SubSeq(q, n + 1, Len(q))) = Len(q) - n
<1>1. /\ \A i \in 1 .. n : q[i] \in S
      /\ \A i \in n + 1 .. Len(q) : q[i] \in S
  OBVIOUS
<1>2. n \in Nat /\ Len(q) \in Nat /\ n <= Len(q)
  OBVIOUS
<1> QED BY <1>1, <1>2

\* The messages the pipeline makes are messages, and what is said of whom.
LEMMA MadeMessages ==
    /\ \A s \in Streams, k \in Kinds \cup {"cleanExit"} :
            [from |-> s, kind |-> k] \in Messages
    /\ [from |-> "loader", kind |-> "leftover"] \in Messages
    /\ [from |-> "requester", kind |-> "error"] \in Messages
    /\ \A m \in Messages : m.from \in Streams => m.kind \in Kinds \cup {"cleanExit"}
<1>1. /\ \A s \in Streams, k \in Kinds \cup {"cleanExit"} :
            [from |-> s, kind |-> k] \in Messages
      /\ [from |-> "loader", kind |-> "leftover"] \in Messages
      /\ [from |-> "requester", kind |-> "error"] \in Messages
  BY DEF Messages
<1>2. \A m \in Messages : m.from \in Streams => m.kind \in Kinds \cup {"cleanExit"}
  BY DEF Messages, Streams
<1> QED BY <1>1, <1>2, Zenon

\* A goroutine of agent.Merge that sends, or a server, has a message in hand; and
\* the converter's is one that came from a stream.
InHand ==
    /\ \A s \in Streams :
        /\ srv[s] \in {"send", "sendExit"} => srvMsg[s] # "none"
        /\ mrg[s] = "send" => mrgMsg[s] # "none"
    /\ conv \in {"wait", "send"} => convMsg \in Messages

\* Both hold in every reachable state; neither is inductive without the other.
LEMMA TypesAndHands == Spec => [](TypeOK /\ InHand)
<1>1. Init => TypeOK /\ InHand
  <2> SUFFICES ASSUME Init PROVE TypeOK /\ InHand
    OBVIOUS
  <2>1. open \in [Streams -> BOOLEAN] /\ err \in [Streams -> BOOLEAN] /\ errd \in BOOLEAN
    BY DEF Init
  <2>2. /\ socket \in [Streams -> Seq(Kinds)] /\ buf \in [Streams -> Seq(Kinds)]
        /\ \A s \in Streams : Len(socket[s]) <= SocketCap /\ Len(buf[s]) <= SocketCap
        /\ sent \in [Streams -> Seq(Kinds)]
        /\ delivered \in [Streams -> Seq(Kinds \cup {"cleanExit"})]
    BY PipelineAssumption DEF Init
  <2>3. /\ srv \in [Streams -> {"scan", "send", "sendExit", "close", "closed", "done"}]
        /\ srvMsg \in [Streams -> Kinds \cup {"cleanExit", "none"}]
        /\ mrg \in [Streams -> {"receive", "send", "done"}]
        /\ mrgMsg \in [Streams -> Kinds \cup {"cleanExit", "none"}]
        /\ InHand
    BY DEF Init, InHand
  <2>4. /\ leftovers \in -1 .. Leftovers /\ out \in Seq(Messages) /\ Len(out) <= OutCap
    BY PipelineAssumption DEF Init
  <2>5. /\ app \in {"running", "crashing", "exited"}
        /\ conv \in {"receive", "wait", "send", "closed"}
        /\ convMsg \in Messages \cup {[from |-> "none", kind |-> "none"]}
        /\ requester \in {"running", "failed", "closed"}
        /\ producer \in {"serving", "disconnected"}
    BY DEF Init
  <2> QED BY <2>1, <2>2, <2>3, <2>4, <2>5, Zenon DEF TypeOK
<1>2. TypeOK /\ InHand /\ [Next]_vars => TypeOK' /\ InHand'
  <2> SUFFICES ASSUME TypeOK, InHand, [Next]_vars PROVE TypeOK' /\ InHand'
    OBVIOUS
  <2> USE DEF TypeOK, InHand, upstream, downstream, appVars, servers, merging,
              converting, others, tail
  <2>1. CASE AppStep
    <3>1. CASE Exit
      BY <3>1 DEF Exit
    <3>2. ASSUME NEW s \in Streams, Write(s) PROVE TypeOK' /\ InHand'
      <4>1. PICK k \in Kinds :
              /\ socket' = [socket EXCEPT ![s] = Append(@, k)]
              /\ sent' = [sent EXCEPT ![s] = Append(@, k)]
              /\ app' = IF k = "event" THEN "crashing" ELSE app
        BY <3>2, PipelineAssumption DEF Write, Kinds
      <4>2. /\ Len(socket[s]) < SocketCap
            /\ UNCHANGED <<open, servers, merging, converting, others, tail>>
        BY <3>2 DEF Write
      <4>3. /\ Append(socket[s], k) \in Seq(Kinds) /\ Append(sent[s], k) \in Seq(Kinds)
            /\ Len(Append(socket[s], k)) <= SocketCap
        BY <3>2, <4>2, Queue, PipelineAssumption
      <4>4. /\ socket' \in [Streams -> Seq(Kinds)] /\ sent' \in [Streams -> Seq(Kinds)]
            /\ \A r \in Streams : Len(socket'[r]) <= SocketCap
        BY <4>1, <4>3
      <4>5. app' \in {"running", "crashing", "exited"}
        BY <4>1
      <4> QED BY <4>2, <4>4, <4>5
    <3>3. ASSUME NEW s \in Streams, CloseStream(s) PROVE TypeOK' /\ InHand'
      BY <3>3 DEF CloseStream
    <3> QED BY <2>1, <3>1, <3>2, <3>3 DEF AppStep
  <2>2. ASSUME NEW s \in Streams, ServerStep(s) PROVE TypeOK' /\ InHand'
    <3>1. CASE Read(s)
      <4>1. PICK n \in 1 .. Len(socket[s]) :
              /\ buf' = [buf EXCEPT ![s] = SubSeq(socket[s], 1, n)]
              /\ socket' = [socket EXCEPT ![s] = SubSeq(@, n + 1, Len(@))]
        BY <3>1 DEF Read
      <4>2. UNCHANGED <<appVars, srv, srvMsg, err, errd, merging, converting, others, tail>>
        BY <3>1 DEF Read
      <4>3. /\ SubSeq(socket[s], 1, n) \in Seq(Kinds) /\ Len(SubSeq(socket[s], 1, n)) = n
            /\ SubSeq(socket[s], n + 1, Len(socket[s])) \in Seq(Kinds)
            /\ Len(SubSeq(socket[s], n + 1, Len(socket[s]))) = Len(socket[s]) - n
        BY <4>1, Split
      <4>4. /\ buf' \in [Streams -> Seq(Kinds)] /\ socket' \in [Streams -> Seq(Kinds)]
            /\ \A r \in Streams : Len(socket'[r]) <= SocketCap /\ Len(buf'[r]) <= SocketCap
        BY <4>1, <4>3, PipelineAssumption
      <4> QED BY <4>2, <4>4
    <3>2. CASE Decode(s)
      <4>1. Head(buf[s]) \in Kinds /\ Tail(buf[s]) \in Seq(Kinds)
            /\ Len(Tail(buf[s])) <= SocketCap
        BY <2>2, <3>2, Queue, PipelineAssumption DEF Decode
      <4>2. /\ buf' \in [Streams -> Seq(Kinds)]
            /\ \A r \in Streams : Len(buf'[r]) <= SocketCap
        BY <2>2, <3>2, <4>1 DEF Decode
      <4>3. (Head(buf[s]) = "event") \in BOOLEAN
        OBVIOUS
      <4>4. errd' \in BOOLEAN
        BY <3>2, <4>3, Zenon DEF Decode
      <4>5. /\ srv' \in [Streams -> {"scan", "send", "sendExit", "close", "closed", "done"}]
            /\ srvMsg' \in [Streams -> Kinds \cup {"cleanExit", "none"}]
            /\ \A r \in Streams : srv'[r] \in {"send", "sendExit"} => srvMsg'[r] # "none"
        <5>1. PICK k \in Kinds : k = Head(buf[s])
          BY <4>1
        <5>2. /\ k # "none"
              /\ \/ srv' = srv /\ srvMsg' = srvMsg
                 \/ /\ srv' = [srv EXCEPT ![s] = "send"]
                    /\ srvMsg' = [srvMsg EXCEPT ![s] = k]
          BY <3>2, <5>1 DEF Decode, Kinds
        <5>3. CASE srv' = srv /\ srvMsg' = srvMsg
          BY <2>2, <5>3
        <5>4. CASE /\ srv' = [srv EXCEPT ![s] = "send"]
                   /\ srvMsg' = [srvMsg EXCEPT ![s] = k]
          BY <2>2, <5>1, <5>2, <5>4
        <5> QED BY <5>2, <5>3, <5>4, Zenon
      <4>6. UNCHANGED <<appVars, socket, err, merging, converting, others, tail>>
        BY <3>2 DEF Decode
      <4> QED BY <4>2, <4>4, <4>5, <4>6
    <3>3. CASE DecodeFails(s)
      <4>1. err' \in [Streams -> BOOLEAN] /\ buf' \in [Streams -> Seq(Kinds)]
            /\ \A r \in Streams : Len(buf'[r]) <= SocketCap
        BY <2>2, <3>3, PipelineAssumption DEF DecodeFails
      <4>2. ASSUME socket[s] # <<>>
            PROVE  /\ [socket[s] EXCEPT ![1] = "bad"] \in Seq(Kinds)
                   /\ Len([socket[s] EXCEPT ![1] = "bad"]) = Len(socket[s])
        BY <2>2, <4>2 DEF Kinds
      <4>3. socket' \in {socket, [socket EXCEPT ![s][1] = "bad"]}
            /\ (socket' # socket => socket[s] # <<>>)
        BY <3>3 DEF DecodeFails
      <4>4. socket' \in [Streams -> Seq(Kinds)]
            /\ \A r \in Streams : Len(socket'[r]) <= SocketCap
        BY <2>2, <4>2, <4>3
      <4>5. UNCHANGED <<appVars, srv, srvMsg, errd, merging, converting, others, tail>>
        BY <3>3 DEF DecodeFails
      <4> QED BY <4>1, <4>4, <4>5
    <3>4. CASE ReadFails(s)
      BY <3>4 DEF ReadFails
    <3>5. CASE EndOfStream(s)
      <4>1. UNCHANGED <<appVars, socket, buf, err, errd, merging, converting, others, tail>>
        BY <3>5 DEF EndOfStream
      <4>2. CASE /\ srv' = [srv EXCEPT ![s] = "sendExit"]
                 /\ srvMsg' = [srvMsg EXCEPT ![s] = "cleanExit"]
        BY <2>2, <4>1, <4>2
      <4>3. CASE srv' = [srv EXCEPT ![s] = "close"] /\ UNCHANGED srvMsg
        BY <2>2, <4>1, <4>3
      <4> QED BY <3>5, <4>2, <4>3 DEF EndOfStream
    <3>6. CASE CloseOutput(s) \/ CloseDone
      <4>1. UNCHANGED <<appVars, socket, buf, srvMsg, err, errd, merging, converting,
                        others, tail>>
        BY <3>6 DEF CloseOutput, CloseDone
      <4>2. CASE srv' = [srv EXCEPT ![s] = "closed"]
        BY <2>2, <4>1, <4>2
      <4>3. CASE srv' = [srv EXCEPT !["agent"] = "done"]
        BY <4>1, <4>3 DEF Streams
      <4> QED BY <3>6, <4>2, <4>3 DEF CloseOutput, CloseDone
    <3>7. CASE Forward(s)
      BY <3>7 DEF Forward
    <3>8. CASE MergeDone(s)
      BY <3>8 DEF MergeDone
    <3> QED BY <2>2, <3>1, <3>2, <3>3, <3>4, <3>5, <3>6, <3>7, <3>8 DEF ServerStep
  <2>3. CASE ConverterStep
    <3>1. ASSUME NEW s \in Streams, Convert(s) PROVE TypeOK' /\ InHand'
      <4>1. [from |-> s, kind |-> mrgMsg[s]] \in Messages
        BY <3>1, MadeMessages DEF Convert
      <4> QED BY <3>1, <4>1 DEF Convert
    <3>2. CASE Wait \/ EndConverter
      BY <3>2 DEF Wait, EndConverter
    <3>3. CASE Emit
      BY <3>3, Queue, PipelineAssumption DEF Emit
    <3> QED BY <2>3, <3>1, <3>2, <3>3 DEF ConverterStep
  <2>4. CASE LoaderStep
    <3>1. /\ leftovers' \in -1 .. Leftovers
          /\ UNCHANGED <<appVars, socket, servers, merging, converting, requester,
                         producer, delivered>>
      BY <2>4, PipelineAssumption DEF LoaderStep, LoadLeftover, EndLoader
    <3>2. \/ out' = out
          \/ Len(out) < OutCap /\ out' = Append(out, [from |-> "loader", kind |-> "leftover"])
      BY <2>4 DEF LoaderStep, LoadLeftover, EndLoader
    <3>3. /\ Append(out, [from |-> "loader", kind |-> "leftover"]) \in Seq(Messages)
          /\ Len(Append(out, [from |-> "loader", kind |-> "leftover"])) = Len(out) + 1
      BY Queue, MadeMessages
    <3>4. out' \in Seq(Messages)
      BY <3>2, <3>3, Zenon
    <3>5. Len(out) \in Nat
      BY Queue
    <3>6. Len(out') <= OutCap
      BY <3>2, <3>3, <3>5, PipelineAssumption
    <3> QED BY <3>1, <3>4, <3>6
  <2>5. CASE RequesterStep
    <3>1. /\ requester' \in {"running", "failed", "closed"}
          /\ UNCHANGED <<appVars, socket, servers, merging, converting, leftovers,
                         producer, delivered>>
      BY <2>5 DEF RequesterStep, RequestsFail, ReportFailure, CancelRequester
    <3>2. \/ out' = out
          \/ Len(out) < OutCap /\ out' = Append(out, [from |-> "requester", kind |-> "error"])
      BY <2>5 DEF RequesterStep, RequestsFail, ReportFailure, CancelRequester
    <3>3. /\ Append(out, [from |-> "requester", kind |-> "error"]) \in Seq(Messages)
          /\ Len(Append(out, [from |-> "requester", kind |-> "error"])) = Len(out) + 1
      BY Queue, MadeMessages
    <3>4. out' \in Seq(Messages)
      BY <3>2, <3>3, Zenon
    <3>5. Len(out) \in Nat
      BY Queue
    <3>6. Len(out') <= OutCap
      BY <3>2, <3>3, <3>5, PipelineAssumption
    <3> QED BY <3>1, <3>4, <3>6
  <2>6. CASE ProducerStep
    <3>1. CASE Serve
      <4>1. /\ Head(out) \in Messages /\ Tail(out) \in Seq(Messages)
            /\ Len(Tail(out)) <= OutCap
        BY <3>1, Queue, PipelineAssumption DEF Serve
      <4>2. ASSUME Head(out).from \in Streams
            PROVE  Append(delivered[Head(out).from], Head(out).kind)
                        \in Seq(Kinds \cup {"cleanExit"})
        BY <4>1, <4>2, MadeMessages, Queue
      <4>3. delivered' \in [Streams -> Seq(Kinds \cup {"cleanExit"})]
        BY <3>1, <4>2 DEF Serve
      <4> QED BY <3>1, <4>1, <4>3 DEF Serve
    <3>2. CASE Disconnect
      BY <3>2 DEF Disconnect
    <3> QED BY <2>6, <3>1, <3>2 DEF ProducerStep
  <2>7. CASE UNCHANGED vars
    BY <2>7 DEF vars
  <2> QED BY <2>1, <2>2, <2>3, <2>4, <2>5, <2>6, <2>7 DEF Next
<1> QED BY <1>1, <1>2, PTL DEF Spec

\* Every reachable state is well typed, and nothing overfills a socket or channel.
THEOREM PipelineTypeCorrect == Spec => []TypeOK
BY TypesAndHands, PTL

-----------------------------------------------------------------------------
(* The report of the exit.                                                 *)

\* Wherever a report is behind the converter's wait, the app has exited.
ExitSeen ==
    /\ conv = "send" /\ convMsg.kind \in Reports => app = "exited"
    /\ \A i \in DOMAIN out : out[i].kind \in Reports => app = "exited"
    /\ ExitAwaited

\* All reports that reach the channel came through the converter: the messages of
\* others are no reports.
LEMMA ExitSeenHolds == Spec => []ExitSeen
<1>1. Init => ExitSeen
  BY DEF Init, ExitSeen, ExitAwaited, Streams
<1>2. TypeOK /\ InHand /\ ExitSeen /\ [Next]_vars => ExitSeen'
  <2> SUFFICES ASSUME TypeOK, InHand, ExitSeen, [Next]_vars PROVE ExitSeen'
    OBVIOUS
  <2> USE DEF upstream, downstream, appVars, servers, merging, converting, others, tail
  <2>1. CASE AppStep
    <3>1. UNCHANGED <<converting, tail>> /\ (app = "exited" => app' = "exited")
      BY <2>1 DEF AppStep, Exit, Write, CloseStream
    <3> QED BY <3>1 DEF ExitSeen, ExitAwaited
  <2>2. ASSUME NEW s \in Streams, ServerStep(s) PROVE ExitSeen'
    <3>1. UNCHANGED <<app, converting, tail>>
      BY <2>2 DEF ServerStep, Read, Decode, DecodeFails, ReadFails, EndOfStream,
                  CloseOutput, CloseDone, Forward, MergeDone
    <3> QED BY <3>1 DEF ExitSeen, ExitAwaited
  <2>3. CASE ConverterStep
    <3>1. ASSUME NEW s \in Streams, Convert(s) PROVE ExitSeen'
      <4>1. convMsg'.kind = mrgMsg[s] /\ UNCHANGED <<app, tail>>
        BY <3>1 DEF Convert
      <4>2. conv' = "send" => mrgMsg[s] \notin Reports
        BY <3>1 DEF Convert, Reports
      <4> QED BY <4>1, <4>2 DEF ExitSeen, ExitAwaited
    <3>2. CASE Wait
      BY <3>2 DEF Wait, ExitSeen, ExitAwaited
    <3>3. CASE EndConverter
      BY <3>3 DEF EndConverter, ExitSeen, ExitAwaited
    <3>4. CASE Emit
      <4>1. out \in Seq(Messages) /\ convMsg \in Messages
        BY <3>4 DEF TypeOK, InHand, Emit
      <4>2. /\ out' = Append(out, convMsg) /\ conv = "send" /\ conv' = "receive"
            /\ UNCHANGED <<app, delivered>>
        BY <3>4 DEF Emit
      <4>3. \A i \in DOMAIN out' : out'[i] = convMsg \/ (i \in DOMAIN out /\ out'[i] = out[i])
        BY <4>1, <4>2
      <4> QED BY <4>2, <4>3 DEF ExitSeen, ExitAwaited
    <3> QED BY <2>3, <3>1, <3>2, <3>3, <3>4 DEF ConverterStep
  <2>4. CASE LoaderStep \/ RequesterStep
    <3>1. UNCHANGED <<app, converting, delivered>>
      BY <2>4 DEF LoaderStep, LoadLeftover, EndLoader, RequesterStep, RequestsFail,
                  ReportFailure, CancelRequester
    <3>2. out' \in {out, Append(out, [from |-> "loader", kind |-> "leftover"]),
                    Append(out, [from |-> "requester", kind |-> "error"])}
      BY <2>4 DEF LoaderStep, LoadLeftover, EndLoader, RequesterStep, RequestsFail,
                  ReportFailure, CancelRequester
    <3>3. ASSUME NEW m, out' = Append(out, m), m.kind \notin Reports
          PROVE  \A i \in DOMAIN out' : out'[i].kind \in Reports => app = "exited"
      <4>1. \A i \in DOMAIN out' : out'[i] = m \/ (i \in DOMAIN out /\ out'[i] = out[i])
        BY <3>3 DEF TypeOK
      <4> QED BY <3>3, <4>1 DEF ExitSeen
    <3>4. \A i \in DOMAIN out' : out'[i].kind \in Reports => app = "exited"
      BY <3>2, <3>3 DEF ExitSeen, Reports
    <3> QED BY <3>1, <3>4 DEF ExitSeen, ExitAwaited
  <2>5. CASE ProducerStep
    <3>1. CASE Serve
      <4>1. /\ out \in Seq(Messages) /\ out # <<>> /\ out' = Tail(out)
            /\ delivered \in [Streams -> Seq(Kinds \cup {"cleanExit"})]
            /\ UNCHANGED <<app, converting>>
        BY <3>1 DEF TypeOK, Serve
      <4>2. /\ Head(out).kind \in Reports => app = "exited"
            /\ \A i \in DOMAIN out' : out'[i].kind \in Reports => app = "exited"
        BY <4>1 DEF ExitSeen
      <4>3. \/ delivered'["agent"] = delivered["agent"]
            \/ delivered'["agent"] = Append(delivered["agent"], Head(out).kind)
        BY <3>1, <4>1 DEF Serve, Streams
      <4>4. delivered["agent"] \in Seq(Kinds \cup {"cleanExit"})
        BY <4>1 DEF Streams
      <4>5. \A i \in DOMAIN delivered'["agent"] :
                \/ delivered'["agent"][i] = Head(out).kind
                \/ i \in DOMAIN delivered["agent"]
                   /\ delivered'["agent"][i] = delivered["agent"][i]
        BY <4>3, <4>4
      <4> QED BY <4>1, <4>2, <4>5 DEF ExitSeen, ExitAwaited
    <3>2. CASE Disconnect
      BY <3>2 DEF Disconnect, ExitSeen, ExitAwaited
    <3> QED BY <2>5, <3>1, <3>2 DEF ProducerStep
  <2>6. CASE UNCHANGED vars
    BY <2>6 DEF vars, ExitSeen, ExitAwaited
  <2> QED BY <2>1, <2>2, <2>3, <2>4, <2>5, <2>6 DEF Next
<1> QED BY <1>1, <1>2, TypesAndHands, PTL DEF Spec

\* No report is delivered before the app has exited.
THEOREM ExitIsAwaited == Spec => []ExitAwaited
<1>1. ExitSeen => ExitAwaited
  BY DEF ExitSeen
<1> QED BY <1>1, ExitSeenHolds, PTL

-----------------------------------------------------------------------------
(* What is on its way: every value of a stream that the decoder has passed *)
(* on, from the producer back to the server.                               *)

Values == Kinds \cup {"cleanExit"}

InConverter(s) == IF conv \in {"wait", "send"} THEN Of(convMsg, s) ELSE <<>>
InMerger(s) == IF mrg[s] = "send" THEN Kept(mrgMsg[s]) ELSE <<>>
InServer(s) == IF srv[s] \in {"send", "sendExit"} THEN Kept(srvMsg[s]) ELSE <<>>
Ahead(s) ==
    Then(delivered[s],
         Then(Said(out, s), Then(InConverter(s), Then(InMerger(s), InServer(s)))))

\* What StreamProofs says of sequences, of those of values.
LEMMA ValuesJoined ==
    /\ <<>> \in Seq(Values)
    /\ \A x \in Seq(Values) : Then(x, <<>>) = x /\ Then(<<>>, x) = x
    /\ \A x, y \in Seq(Values) : Then(x, y) \in Seq(Values)
    /\ \A x, y, z \in Seq(Values) : Then(Then(x, y), z) = Then(x, Then(y, z))
    /\ \A x \in Seq(Values), k \in Values :
            <<k>> \in Seq(Values) /\ Append(x, k) = Then(x, <<k>>)
  BY ThenFacts

\* The same of the sequences of what the app writes.
LEMMA KindsJoined ==
    /\ <<>> \in Seq(Kinds)
    /\ \A x \in Seq(Kinds) : Then(x, <<>>) = x /\ Then(<<>>, x) = x
    /\ \A x, y \in Seq(Kinds) : Then(x, y) \in Seq(Kinds)
    /\ \A x, y, z \in Seq(Kinds) : Then(Then(x, y), z) = Then(x, Then(y, z))
    /\ \A x \in Seq(Kinds), k \in Kinds :
            <<k>> \in Seq(Kinds) /\ Append(x, k) = Then(x, <<k>>)
  BY ThenFacts

\* Joining is associative, as a named fact that is cheap to instantiate.
Associates(x, y, z) == Then(Then(x, y), z) = Then(x, Then(y, z))

\* Of values.
LEMMA ValuesAssociate == \A x, y, z \in Seq(Values) : Associates(x, y, z)
  BY ValuesJoined, Zenon DEF Associates

\* Of what the app writes.
LEMMA KindsAssociate == \A x, y, z \in Seq(Kinds) : Associates(x, y, z)
  BY KindsJoined, Zenon DEF Associates

\* Of a message that is one, each part is a sequence of values.
LEMMA OfType ==
    /\ \A m \in Messages, s \in Streams : Of(m, s) \in Seq(Values)
    /\ \A s \in Streams : /\ Of([from |-> "loader", kind |-> "leftover"], s) = <<>>
                          /\ Of([from |-> "requester", kind |-> "error"], s) = <<>>
    /\ \A k \in Values : Kept(k) \in Seq(Values)
<1>1. \A m \in Messages, s \in Streams : Of(m, s) \in Seq(Values)
  <2> TAKE m \in Messages, s \in Streams
  <2>1. m.from = s => m.kind \in Values
    BY MadeMessages DEF Values
  <2>2. m.kind \in Values => <<m.kind>> \in Seq(Values)
    OBVIOUS
  <2> QED BY <2>1, <2>2, ValuesJoined, Zenon DEF Of
<1>2. \A s \in Streams : /\ Of([from |-> "loader", kind |-> "leftover"], s) = <<>>
                        /\ Of([from |-> "requester", kind |-> "error"], s) = <<>>
  BY DEF Of, Streams
<1>3. \A k \in Values : Kept(k) \in Seq(Values)
  BY DEF Kept
<1> QED BY <1>1, <1>2, <1>3

\* What a queue of messages says of a stream, message by message.
LEMMA SaidOfMessages ==
    ASSUME NEW s \in Streams
    PROVE  /\ \A q \in Seq(Messages) :
                /\ Said(q, s) \in Seq(Values)
                /\ q # <<>> => Said(q, s) = Then(Of(Head(q), s), Said(Tail(q), s))
           /\ \A q \in Seq(Messages), m \in Messages :
                Said(Append(q, m), s) = Then(Said(q, s), Of(m, s))
<1>1. Speak(Messages, s, Values)
  BY OfType DEF Speak
<1>2. ASSUME NEW q \in Seq(Messages)
      PROVE  Said(q, s) \in Seq(Values)
  BY <1>1, SaidOfQueue
<1>3. ASSUME NEW q \in Seq(Messages), q # <<>>
      PROVE  Said(q, s) = Then(Of(Head(q), s), Said(Tail(q), s))
  BY <1>1, <1>3, SaidOfQueue
<1>4. ASSUME NEW q \in Seq(Messages)
      PROVE  \A m \in Messages : Said(Append(q, m), s) = Then(Said(q, s), Of(m, s))
  BY <1>1, SaidOfQueue
<1> QED BY <1>2, <1>3, <1>4, Zenon

\* Everything on the way of a stream is a sequence of values.
LEMMA PartsType ==
    ASSUME TypeOK, InHand, NEW s \in Streams
    PROVE  /\ delivered[s] \in Seq(Values) /\ Said(out, s) \in Seq(Values)
           /\ InConverter(s) \in Seq(Values) /\ InMerger(s) \in Seq(Values)
           /\ InServer(s) \in Seq(Values)
<1>1. delivered[s] \in Seq(Values) /\ out \in Seq(Messages)
  BY DEF TypeOK, Values
<1>2. Said(out, s) \in Seq(Values)
  BY <1>1, SaidOfMessages
<1>3. <<>> \in Seq(Values)
  OBVIOUS
<1>4. InConverter(s) \in Seq(Values)
  BY <1>3, OfType DEF InHand, InConverter
<1>5. /\ mrg[s] = "send" => mrgMsg[s] \in Values
      /\ srv[s] \in {"send", "sendExit"} => srvMsg[s] \in Values
  BY DEF TypeOK, InHand, Values
<1>6. InMerger(s) \in Seq(Values) /\ InServer(s) \in Seq(Values)
  BY <1>3, <1>5, OfType DEF InMerger, InServer
<1> QED BY <1>1, <1>2, <1>4, <1>6

\* What is on its way stays, and in order, when it moves on by one place.
LEMMA AheadOfForward ==
    ASSUME TypeOK, InHand, NEW s \in Streams, Forward(s), NEW r \in Streams
    PROVE  UNCHANGED Ahead(r)
<1>1. /\ UNCHANGED <<delivered, out, conv, convMsg>>
      /\ mrg[s] = "receive" /\ mrg' = [mrg EXCEPT ![s] = "send"]
      /\ mrgMsg' = [mrgMsg EXCEPT ![s] = srvMsg[s]]
      /\ srv[s] \in {"send", "sendExit"}
      /\ srv' = [srv EXCEPT ![s] = IF srv[s] = "send" THEN "scan" ELSE "close"]
      /\ UNCHANGED srvMsg
  BY DEF Forward, downstream, converting, tail
<1>2. UNCHANGED <<delivered[r], Said(out, r), InConverter(r)>>
  BY <1>1 DEF InConverter
<1>3. CASE r # s
  BY <1>1, <1>2, <1>3 DEF Ahead, InMerger, InServer, TypeOK
<1>4. CASE r = s
  <2>1. InMerger(r) = <<>> /\ InServer(r)' = <<>>
    BY <1>1, <1>4 DEF InMerger, InServer, TypeOK
  <2>2. InMerger(r)' = Kept(srvMsg[s]) /\ InServer(r) = Kept(srvMsg[s])
    BY <1>1, <1>4 DEF InMerger, InServer, TypeOK
  <2>3. InServer(r) \in Seq(Values)
    BY PartsType
  <2>4. Then(InMerger(r)', InServer(r)') = Then(InMerger(r), InServer(r))
    BY <2>1, <2>2, <2>3, ValuesJoined
  <2> QED BY <1>2, <2>4 DEF Ahead
<1> QED BY <1>3, <1>4

\* The converter takes a message from a merger: it is where it was, among the others.
LEMMA AheadOfConvert ==
    ASSUME TypeOK, InHand, NEW s \in Streams, Convert(s), NEW r \in Streams
    PROVE  UNCHANGED Ahead(r)
<1>1. /\ UNCHANGED <<delivered, out, mrgMsg, srv, srvMsg>>
      /\ mrg[s] = "send" /\ mrg' = [mrg EXCEPT ![s] = "receive"] /\ conv = "receive"
      /\ conv' = IF mrgMsg[s] \in Logs THEN "receive"
                 ELSE IF mrgMsg[s] \in Reports THEN "wait" ELSE "send"
      /\ convMsg' = [from |-> s, kind |-> mrgMsg[s]]
  BY DEF Convert, upstream, servers, tail
<1>2. /\ UNCHANGED <<delivered[r], Said(out, r), InServer(r)>>
      /\ InConverter(r) = <<>>
  BY <1>1 DEF InServer, InConverter
<1>3. CASE r # s
  <2>1. InConverter(r)' = <<>>
    BY <1>1, <1>3 DEF InConverter, Of
  <2>2. UNCHANGED InMerger(r)
    BY <1>1, <1>3 DEF InMerger, TypeOK
  <2> QED BY <1>2, <2>1, <2>2 DEF Ahead
<1>4. CASE r = s
  <2>1. InMerger(r)' = <<>> /\ InMerger(r) = Kept(mrgMsg[s])
    BY <1>1, <1>4 DEF InMerger, TypeOK
  <2>2. InConverter(r)' = Kept(mrgMsg[s])
    BY <1>1, <1>4 DEF InConverter, Of, Kept
  <2>3. InMerger(r) \in Seq(Values) /\ InServer(r) \in Seq(Values)
    BY PartsType
  <2>4. Then(InConverter(r)', Then(InMerger(r)', InServer(r)')) =
          Then(InConverter(r), Then(InMerger(r), InServer(r)))
    BY <1>2, <2>1, <2>2, <2>3, ValuesJoined
  <2> QED BY <1>2, <2>4 DEF Ahead
<1> QED BY <1>3, <1>4

\* The converter sends its message to the producer: the same.
LEMMA AheadOfEmit ==
    ASSUME TypeOK, InHand, Emit, NEW r \in Streams
    PROVE  UNCHANGED Ahead(r)
<1>1. /\ UNCHANGED <<delivered, mrg, mrgMsg, srv, srvMsg>>
      /\ conv = "send" /\ conv' = "receive" /\ out' = Append(out, convMsg)
      /\ convMsg \in Messages /\ out \in Seq(Messages)
  BY DEF Emit, upstream, servers, merging, TypeOK, InHand
<1>2. /\ UNCHANGED <<delivered[r], InMerger(r), InServer(r)>>
      /\ InConverter(r) = Of(convMsg, r) /\ InConverter(r)' = <<>>
  BY <1>1 DEF InMerger, InServer, InConverter
<1>3. Said(out', r) = Then(Said(out, r), Of(convMsg, r))
  BY <1>1, SaidOfMessages, Zenon
<1>4. /\ Said(out, r) \in Seq(Values) /\ Of(convMsg, r) \in Seq(Values)
      /\ InMerger(r) \in Seq(Values) /\ InServer(r) \in Seq(Values)
  BY <1>1, PartsType, OfType
<1>5. Then(InMerger(r), InServer(r)) \in Seq(Values)
  BY <1>4, ValuesJoined
<1>6. Then(Said(out', r), Then(InConverter(r)', Then(InMerger(r), InServer(r)))) =
        Then(Said(out, r), Then(InConverter(r), Then(InMerger(r), InServer(r))))
  BY <1>2, <1>3, <1>4, <1>5, ValuesJoined
<1> QED BY <1>2, <1>6 DEF Ahead

\* The producer publishes a message: the same.
LEMMA AheadOfServe ==
    ASSUME TypeOK, InHand, Serve, NEW r \in Streams
    PROVE  UNCHANGED Ahead(r)
<1>1. /\ UNCHANGED <<conv, convMsg, mrg, mrgMsg, srv, srvMsg>>
      /\ out # <<>> /\ out' = Tail(out) /\ out \in Seq(Messages)
      /\ delivered' = IF Head(out).from \in Streams
                      THEN [delivered EXCEPT ![Head(out).from] = Append(@, Head(out).kind)]
                      ELSE delivered
  BY DEF Serve, upstream, servers, merging, converting, TypeOK
<1>2. UNCHANGED <<InConverter(r), InMerger(r), InServer(r)>>
  BY <1>1 DEF InConverter, InMerger, InServer
<1>3. Said(out, r) = Then(Of(Head(out), r), Said(out', r)) /\ Said(out', r) \in Seq(Values)
  <2>1. out' \in Seq(Messages)
    BY <1>1
  <2> QED BY <1>1, <2>1, SaidOfMessages, Zenon
<1>4. Head(out) \in Messages
  BY <1>1
<1> DEFINE rest == Then(InConverter(r), Then(InMerger(r), InServer(r)))
<1>5. /\ delivered[r] \in Seq(Values) /\ Of(Head(out), r) \in Seq(Values)
      /\ rest \in Seq(Values) /\ rest' = rest
  BY <1>2, <1>4, OfType, PartsType, ValuesJoined
<1>6. delivered'[r] = Then(delivered[r], Of(Head(out), r))
  <2>1. CASE Head(out).from = r
    <3>1. delivered'[r] = Append(delivered[r], Head(out).kind)
      BY <1>1, <2>1 DEF TypeOK
    <3>2. Of(Head(out), r) = <<Head(out).kind>> /\ Head(out).kind \in Values
      BY <1>4, <2>1, MadeMessages DEF Of, Values
    <3>3. Append(delivered[r], Head(out).kind) = Then(delivered[r], <<Head(out).kind>>)
      BY <1>5, <3>2, ValuesJoined, Zenon
    <3> QED BY <3>1, <3>2, <3>3
  <2>2. CASE Head(out).from # r
    <3>1. delivered'[r] = delivered[r] /\ Of(Head(out), r) = <<>>
      BY <1>1, <2>2 DEF TypeOK, Of
    <3> QED BY <1>5, <3>1, ValuesJoined
  <2> QED BY <2>1, <2>2
<1>7. /\ Ahead(r) = Then(delivered[r], Then(Said(out, r), rest))
      /\ Ahead(r)' = Then(delivered'[r], Then(Said(out', r), rest'))
  BY DEF Ahead
<1> HIDE DEF rest
<1>8. Then(Said(out', r), rest) \in Seq(Values)
  BY <1>3, <1>5, ValuesJoined
<1>9. Then(Then(delivered[r], Of(Head(out), r)), Then(Said(out', r), rest)) =
        Then(delivered[r], Then(Then(Of(Head(out), r), Said(out', r)), rest))
  <2>1. Then(Then(delivered[r], Of(Head(out), r)), Then(Said(out', r), rest)) =
          Then(delivered[r], Then(Of(Head(out), r), Then(Said(out', r), rest)))
    <3>1. Associates(delivered[r], Of(Head(out), r), Then(Said(out', r), rest))
      BY <1>5, <1>8, ValuesAssociate, Zenon
    <3> QED BY <3>1, Zenon DEF Associates
  <2>2. Then(Then(Of(Head(out), r), Said(out', r)), rest) =
          Then(Of(Head(out), r), Then(Said(out', r), rest))
    <3>1. Associates(Of(Head(out), r), Said(out', r), rest)
      BY <1>3, <1>5, ValuesAssociate, Zenon
    <3> QED BY <3>1, Zenon DEF Associates
  <2> QED BY <2>1, <2>2
<1> QED BY <1>3, <1>5, <1>6, <1>7, <1>9

-----------------------------------------------------------------------------
(* What the app writes, and what the end of a stream leaves behind.        *)

PointValues == {"datapoint", "bad"}
NoEvent == Kinds \ {"event"}

\* An event is the last value of the agent's stream, and of no other.
Written ==
    /\ app = "running" => sent["agent"] \in Seq(NoEvent)
    /\ \/ sent["agent"] \in Seq(NoEvent)
       \/ \E w \in Seq(NoEvent) : sent["agent"] = Append(w, "event")
    /\ \A q \in {sent["points"], socket["points"], buf["points"]} : q \in Seq(PointValues)

\* The app ends with the event it writes, and the data points carry none.
LEMMA WrittenHolds == Spec => []Written
<1>1. Init => Written
  BY DEF Init, Written, Streams
<1>2. TypeOK /\ Written /\ [Next]_vars => Written'
  <2> SUFFICES ASSUME TypeOK, Written, [Next]_vars PROVE Written'
    OBVIOUS
  <2> USE DEF upstream, downstream, appVars, servers
  <2>1. CASE UNCHANGED <<sent, socket, buf>> /\ (app' = "running" => app = "running")
    BY <2>1 DEF Written
  <2>2. ASSUME NEW s \in Streams, Write(s) PROVE Written'
    <3>1. PICK k \in IF s = "agent" THEN AgentKinds ELSE PointKinds :
            /\ socket' = [socket EXCEPT ![s] = Append(@, k)]
            /\ sent' = [sent EXCEPT ![s] = Append(@, k)]
            /\ app' = IF k = "event" THEN "crashing" ELSE app
      BY <2>2 DEF Write
    <3>2. app = "running" /\ buf' = buf
      BY <2>2 DEF Write
    <3>3. CASE s = "agent"
      <4>1. k \in Kinds /\ sent["agent"] \in Seq(NoEvent)
        BY <3>1, <3>2, <3>3, PipelineAssumption DEF Written
      <4>2. /\ sent'["agent"] = Append(sent["agent"], k)
            /\ UNCHANGED <<sent["points"], socket["points"]>>
        BY <3>1, <3>3 DEF TypeOK, Streams
      <4>3. CASE k = "event"
        BY <3>1, <3>2, <4>1, <4>2, <4>3 DEF Written
      <4>4. CASE k # "event"
        <5>1. sent'["agent"] \in Seq(NoEvent)
          BY <4>1, <4>2, <4>4 DEF NoEvent
        <5> QED BY <3>2, <4>2, <5>1 DEF Written
      <4> QED BY <4>3, <4>4
    <3>4. CASE s = "points"
      <4>1. k \in PointValues
        BY <3>1, <3>4, PipelineAssumption DEF PointValues
      <4>2. /\ UNCHANGED sent["agent"]
            /\ sent'["points"] = Append(sent["points"], k)
            /\ socket'["points"] = Append(socket["points"], k)
        BY <3>1, <3>4 DEF TypeOK, Streams
      <4>3. sent'["points"] \in Seq(PointValues) /\ socket'["points"] \in Seq(PointValues)
        BY <4>1, <4>2 DEF Written
      <4> QED BY <3>2, <4>2, <4>3 DEF Written
    <3> QED BY <3>3, <3>4 DEF Streams
  <2>3. ASSUME NEW s \in Streams, ServerStep(s) PROVE Written'
    <3>1. UNCHANGED <<app, sent>>
      BY <2>3 DEF ServerStep, Read, Decode, DecodeFails, ReadFails, EndOfStream,
                  CloseOutput, CloseDone, Forward, MergeDone
    <3>2. CASE UNCHANGED <<socket["points"], buf["points"]>>
      BY <3>1, <3>2 DEF Written
    <3>3. CASE s = "points" /\ Read(s)
      <4>1. PICK n \in 1 .. Len(socket[s]) :
              /\ buf'[s] = SubSeq(socket[s], 1, n)
              /\ socket'[s] = SubSeq(socket[s], n + 1, Len(socket[s]))
        BY <3>3 DEF Read, TypeOK
      <4>2. socket[s] \in Seq(PointValues)
        BY <3>3 DEF Written
      <4>3. buf'[s] \in Seq(PointValues) /\ socket'[s] \in Seq(PointValues)
        BY <4>1, <4>2, Split
      <4> QED BY <3>1, <3>3, <4>3 DEF Written
    <3>4. CASE s = "points" /\ Decode(s)
      <4>1. buf[s] # <<>> /\ buf'[s] = Tail(buf[s]) /\ UNCHANGED socket
        BY <3>4 DEF Decode, TypeOK
      <4>2. buf[s] \in Seq(PointValues)
        BY <3>4 DEF Written
      <4>3. buf'[s] \in Seq(PointValues)
        BY <4>1, <4>2
      <4> QED BY <3>1, <3>4, <4>1, <4>3 DEF Written
    <3>5. CASE s = "points" /\ DecodeFails(s)
      <4>1. /\ buf'[s] = <<>>
            /\ \/ UNCHANGED socket
               \/ socket[s] # <<>> /\ socket'[s] = [socket[s] EXCEPT ![1] = "bad"]
        BY <3>5 DEF DecodeFails, TypeOK
      <4>2. socket[s] \in Seq(PointValues)
        BY <3>5 DEF Written
      <4>3. socket'[s] \in Seq(PointValues) /\ buf'[s] \in Seq(PointValues)
        BY <4>1, <4>2 DEF PointValues
      <4> QED BY <3>1, <3>5, <4>3 DEF Written
    <3>6. \/ UNCHANGED <<socket["points"], buf["points"]>>
          \/ s = "points" /\ (Read(s) \/ Decode(s) \/ DecodeFails(s))
      BY <2>3 DEF ServerStep, Read, Decode, DecodeFails, ReadFails, EndOfStream,
                  CloseOutput, CloseDone, Forward, MergeDone, TypeOK, Streams
    <3> QED BY <3>2, <3>3, <3>4, <3>5, <3>6
  <2>4. CASE AppStep
    BY <2>1, <2>2, <2>4 DEF AppStep, Exit, CloseStream
  <2>5. CASE ConverterStep \/ LoaderStep \/ RequesterStep \/ ProducerStep
    <3>1. UNCHANGED <<app, sent, socket, buf>>
      BY <2>5 DEF ConverterStep, Convert, Wait, Emit, EndConverter, LoaderStep,
                  LoadLeftover, EndLoader, RequesterStep, RequestsFail, ReportFailure,
                  CancelRequester, ProducerStep, Serve, Disconnect
    <3> QED BY <2>1, <3>1
  <2>6. CASE UNCHANGED vars
    BY <2>1, <2>6 DEF vars
  <2> QED BY <2>3, <2>4, <2>5, <2>6 DEF Next
<1> QED BY <1>1, <1>2, TypesAndHands, PTL DEF Spec

\* The server of s has seen the end of its stream.
Ending(s) == srv[s] \in {"sendExit", "close", "closed", "done"}

Drained(s) == ~open[s] /\ buf[s] = <<>> /\ socket[s] = <<>>

\* Whatever closes, closes when nothing can come any more.
Closing ==
    /\ \A s \in Streams :
        /\ Ending(s) => Drained(s)
        /\ srv[s] = "sendExit" => s = "agent" /\ srvMsg[s] = "cleanExit" /\ ~errd
        /\ mrg[s] = "done" => srv[s] \in {"closed", "done"}
        /\ conv = "closed" => mrg[s] = "done"
    /\ producer = "disconnected" =>
        conv = "closed" /\ leftovers = -1 /\ requester = "closed" /\ out = <<>>

\* It is the app that brings the end about: a server neither opens its stream nor
\* finds anything in it once it has ended.
LEMMA ClosingHolds == Spec => []Closing
<1>1. Init => Closing
  BY DEF Init, Closing, Ending
<1>2. TypeOK /\ Written /\ Closing /\ [Next]_vars => Closing'
  <2> SUFFICES ASSUME TypeOK, Written, Closing, [Next]_vars PROVE Closing'
    OBVIOUS
  <2> USE DEF upstream, downstream, appVars, servers, merging, converting, others, tail
  <2>1. CASE AppStep
    <3>1. /\ UNCHANGED <<servers, merging, converting, others, out, producer>>
          /\ \A s \in Streams : Drained(s) => Drained(s)'
      <4>1. CASE Exit
        BY <4>1 DEF Exit, Drained
      <4>2. ASSUME NEW s \in Streams, Write(s) \/ CloseStream(s)
            PROVE  /\ UNCHANGED <<servers, merging, converting, others, out, producer>>
                   /\ \A r \in Streams : Drained(r) => Drained(r)'
        BY <4>2 DEF Write, CloseStream, Drained, TypeOK
      <4> QED BY <2>1, <4>1, <4>2 DEF AppStep
    <3> QED BY <3>1 DEF Closing, Ending
  <2>2. ASSUME NEW s \in Streams, ServerStep(s) PROVE Closing'
    <3>1. CASE Read(s) \/ Decode(s) \/ DecodeFails(s) \/ ReadFails(s)
      <4>1. /\ srv[s] = "scan" /\ srv'[s] \in {"scan", "send"}
            /\ \A r \in Streams \ {s} :
                    UNCHANGED <<srv[r], srvMsg[r], buf[r], socket[r], open[r]>>
            /\ UNCHANGED <<mrg, conv, out, producer>>
        BY <3>1 DEF Read, Decode, DecodeFails, ReadFails, TypeOK
      <4>2. \A r \in Streams : srv[r] = "sendExit" => errd' = errd
        <5>1. CASE Decode(s)
          <6>1. s # "agent" => Head(buf[s]) \in PointValues
            BY <5>1 DEF Decode, Written, Streams
          <6>2. s # "agent" => errd' = errd
            BY <5>1, <6>1, Zenon DEF Decode, TypeOK, PointValues
          <6>3. \A r \in Streams : srv[r] = "sendExit" => s # "agent"
            BY <4>1 DEF Closing
          <6> QED BY <6>2, <6>3
        <5> QED BY <3>1, <5>1 DEF Read, DecodeFails, ReadFails
      <4>3. ~ Ending(s) /\ ~ Ending(s)' /\ mrg[s] # "done"
        BY <4>1 DEF Ending, Closing
      <4> QED BY <4>1, <4>2, <4>3 DEF Closing, Ending, Drained
    <3>2. CASE EndOfStream(s)
      BY <3>2 DEF EndOfStream, Closing, Ending, Drained, TypeOK
    <3>3. CASE CloseOutput(s) \/ CloseDone
      <4>1. CASE CloseOutput(s)
        BY <3>3, <4>1 DEF CloseOutput, Closing, Ending, Drained, TypeOK
      <4>2. CASE CloseDone
        BY <3>3, <4>2 DEF CloseDone, Closing, Ending, Drained, TypeOK, Streams
      <4> QED BY <3>3, <4>1, <4>2
    <3>4. CASE Forward(s)
      BY <3>4 DEF Forward, Closing, Ending, Drained, TypeOK
    <3>5. CASE MergeDone(s)
      BY <3>5 DEF MergeDone, Closing, Ending, Drained, TypeOK
    <3> QED BY <2>2, <3>1, <3>2, <3>3, <3>4, <3>5 DEF ServerStep
  <2>3. CASE ConverterStep
    BY <2>3 DEF ConverterStep, Wait, Emit, EndConverter, Convert, Closing, Ending,
                Drained, TypeOK
  <2>4. CASE LoaderStep \/ RequesterStep
    BY <2>4 DEF LoaderStep, LoadLeftover, EndLoader, RequesterStep, RequestsFail,
                ReportFailure, CancelRequester, Closing, Ending, Drained
  <2>5. CASE ProducerStep
    BY <2>5 DEF ProducerStep, Serve, Disconnect, Closing, Ending, Drained
  <2>6. CASE UNCHANGED vars
    BY <2>6 DEF vars, Closing, Ending, Drained
  <2> QED BY <2>1, <2>2, <2>3, <2>4, <2>5, <2>6 DEF Next
<1> QED BY <1>1, <1>2, TypesAndHands, WrittenHolds, PTL DEF Spec

-----------------------------------------------------------------------------
(* What the decoder has passed on is what the app wrote.                   *)

ExitOf(s) == IF s = "agent" /\ ~errd /\ Ending(s) THEN <<"cleanExit">> ELSE <<>>

\* Of the stream s the decoder has heard p; r it has not, or has given up.
Heard(s, p, r) ==
    /\ sent[s] = Then(p, r)
    /\ IF err[s] THEN "bad" \in Range(p) \/ (r = <<>> /\ Drained(s))
       ELSE "bad" \notin Range(p) /\ r = Then(buf[s], socket[s])
    /\ Ahead(s) = Then(Relayed(p), ExitOf(s))
    /\ s = "agent" => /\ "bad" \notin Range(p) => (errd <=> "event" \in Range(p))
                      /\ "event" \in Range(Relayed(p)) => errd

Flow == \A s \in Streams : \E p, r \in Seq(Kinds) : Heard(s, p, r)

\* What a step leaves alone: it moves what is on its way, if anything.
LEMMA HeardStays ==
    ASSUME NEW s, NEW p, NEW r, Heard(s, p, r),
           UNCHANGED <<sent[s], err[s], Ahead(s)>>,
           s = "agent" => (errd' <=> errd), Ending(s)' <=> Ending(s),
           err[s] /\ Drained(s) => Drained(s)',
           ~err[s] => UNCHANGED <<buf[s], socket[s]>>
    PROVE  Heard(s, p, r)'
<1>1. UNCHANGED ExitOf(s)
  BY DEF ExitOf
<1> QED BY <1>1 DEF Heard

\* What is ahead is made of four places.
LEMMA AheadStays ==
    ASSUME NEW s, UNCHANGED <<delivered[s], out, InConverter(s), InMerger(s), InServer(s)>>
    PROVE  UNCHANGED Ahead(s)
  BY DEF Ahead

\* The app writes another value: it waits at the end.
LEMMA HeardWrite ==
    ASSUME TypeOK, NEW s \in Streams, Write(s), NEW p \in Seq(Kinds),
           NEW r \in Seq(Kinds), Heard(s, p, r)
    PROVE  \E r2 \in Seq(Kinds) : Heard(s, p, r2)'
<1>1. PICK k \in Kinds : /\ socket' = [socket EXCEPT ![s] = Append(@, k)]
                         /\ sent' = [sent EXCEPT ![s] = Append(@, k)]
  BY PipelineAssumption DEF Write, Kinds
<1>2. /\ UNCHANGED <<open, servers, merging, downstream>> /\ open[s]
  BY DEF Write
<1>3. UNCHANGED <<Ahead(s), ExitOf(s)>>
  <2>1. UNCHANGED <<delivered[s], out, InConverter(s), InMerger(s), InServer(s), ExitOf(s)>>
    BY <1>2 DEF servers, merging, downstream, converting, tail, InConverter, InMerger,
                InServer, ExitOf, Ending
  <2> QED BY <2>1, AheadStays
<1>4. /\ socket'[s] = Append(socket[s], k) /\ sent'[s] = Append(sent[s], k)
      /\ socket[s] \in Seq(Kinds) /\ buf[s] \in Seq(Kinds)
  BY <1>1 DEF TypeOK
<1>5. /\ \A x \in Seq(Kinds) : Append(x, k) \in Seq(Kinds)
      /\ \A x, y \in Seq(Kinds) : Append(Then(x, y), k) = Then(x, Append(y, k))
  BY ThenOne
<1>6. sent'[s] = Then(p, Append(r, k)) /\ Append(r, k) \in Seq(Kinds)
  BY <1>4, <1>5 DEF Heard
<1>7. r = Then(buf[s], socket[s]) => Append(r, k) = Then(buf'[s], socket'[s])
  BY <1>2, <1>4, <1>5 DEF servers
<1>8. UNCHANGED <<err[s], errd>> /\ ~Drained(s)
  BY <1>2 DEF servers, Drained
<1>9. Heard(s, p, Append(r, k))'
  BY <1>3, <1>6, <1>7, <1>8 DEF Heard
<1> QED BY <1>6, <1>9

\* The decoder reads ahead.
LEMMA HeardRead ==
    ASSUME TypeOK, NEW s \in Streams, Read(s), NEW p \in Seq(Kinds),
           NEW r \in Seq(Kinds), Heard(s, p, r)
    PROVE  Heard(s, p, r)'
<1>1. PICK n \in 1 .. Len(socket[s]) :
        /\ buf'[s] = SubSeq(socket[s], 1, n)
        /\ socket'[s] = SubSeq(socket[s], n + 1, Len(socket[s]))
  BY DEF Read, TypeOK
<1>2. /\ buf[s] = <<>> /\ UNCHANGED <<appVars, srv, srvMsg, err, errd, merging, downstream>>
  BY DEF Read
<1>3. UNCHANGED <<Ahead(s), ExitOf(s), sent[s], err[s], errd>>
  <2>1. UNCHANGED <<delivered[s], out, InConverter(s), InMerger(s), InServer(s), ExitOf(s)>>
    BY <1>2 DEF merging, downstream, converting, tail, InConverter, InMerger,
                InServer, ExitOf, Ending
  <2> QED BY <1>2, <2>1, AheadStays DEF appVars
<1>4. socket[s] \in Seq(Kinds) /\ socket[s] # <<>>
  BY <1>1 DEF TypeOK
<1>5. Then(buf[s], socket[s]) = socket[s]
  BY <1>2, <1>4, ThenFacts
<1>6. Then(buf'[s], socket'[s]) = socket[s]
  <2>1. n \in Nat /\ 1 <= n /\ n <= Len(socket[s]) /\ Len(socket[s]) \in Nat
    BY <1>4
  <2>2. SubSeq(socket[s], 1, n) \o SubSeq(socket[s], n + 1, Len(socket[s]))
          = SubSeq(socket[s], 1, Len(socket[s]))
    <3>1. 1 \in 1 .. Len(socket[s]) + 1 /\ n \in 1 - 1 .. Len(socket[s])
          /\ Len(socket[s]) \in n .. Len(socket[s])
      BY <2>1
    <3> QED BY <1>4, <3>1, ConcatAdjacentSubSeq
  <2> QED BY <1>1, <1>4, <2>2, Beginnings DEF Then
<1>7. ~Drained(s)
  BY <1>4 DEF Drained
<1> QED BY <1>3, <1>5, <1>6, <1>7 DEF Heard

\* The server has nothing in hand and takes something: it comes at the end.
LEMMA AheadGrows ==
    ASSUME TypeOK, InHand, NEW s \in Streams,
           UNCHANGED <<delivered[s], out, InConverter(s), InMerger(s)>>,
           InServer(s) = <<>>, NEW v \in Seq(Values), InServer(s)' = v
    PROVE  Ahead(s)' = Then(Ahead(s), v)
<1> DEFINE a == delivered[s]
           b == Said(out, s)
           c == InConverter(s)
           d == InMerger(s)
<1>1. a \in Seq(Values) /\ b \in Seq(Values) /\ c \in Seq(Values) /\ d \in Seq(Values)
  BY PartsType
<1>2. /\ Ahead(s) = Then(a, Then(b, Then(c, Then(d, <<>>))))
      /\ Ahead(s)' = Then(a, Then(b, Then(c, Then(d, v))))
  BY DEF Ahead
<1> HIDE DEF a, b, c, d
<1>3. /\ Then(d, <<>>) = d /\ Then(c, d) \in Seq(Values)
      /\ Then(b, Then(c, d)) \in Seq(Values)
  BY <1>1, ValuesJoined
<1>4. Then(Then(a, Then(b, Then(c, d))), v) = Then(a, Then(Then(b, Then(c, d)), v))
  BY <1>1, <1>3, ValuesJoined
<1>5. Then(Then(b, Then(c, d)), v) = Then(b, Then(c, Then(d, v)))
  BY <1>1, <1>3, ValuesJoined
<1> QED BY <1>2, <1>3, <1>4, <1>5

\* The next value the decoder hears.
LEMMA HeardNext ==
    ASSUME TypeOK, NEW s \in Streams, buf[s] # <<>>, ~err[s], NEW p \in Seq(Kinds),
           NEW r \in Seq(Kinds), Heard(s, p, r)
    PROVE  LET k == Head(buf[s])
               rest == Then(Tail(buf[s]), socket[s])
           IN  /\ k \in Kinds /\ Append(p, k) \in Seq(Kinds) /\ rest \in Seq(Kinds)
               /\ sent[s] = Then(Append(p, k), rest)
               /\ Range(Append(p, k)) = Range(p) \cup {k}
<1> DEFINE k == Head(buf[s])
           t == Tail(buf[s])
<1>1. buf[s] \in Seq(Kinds) /\ socket[s] \in Seq(Kinds)
  BY DEF TypeOK
<1>2. k \in Kinds /\ t \in Seq(Kinds) /\ buf[s] = Then(<<k>>, t)
  BY <1>1, ThenOne
<1> HIDE DEF k, t
<1>3. /\ <<k>> \in Seq(Kinds) /\ Append(p, k) = Then(p, <<k>>)
      /\ Append(p, k) \in Seq(Kinds)
  BY <1>2, KindsJoined, ThenOne
<1>4. sent[s] = Then(p, Then(buf[s], socket[s]))
  BY DEF Heard
<1>5. Then(t, socket[s]) \in Seq(Kinds)
  BY <1>1, <1>2, KindsJoined
<1>6. Then(Then(<<k>>, t), socket[s]) = Then(<<k>>, Then(t, socket[s]))
  <2>1. Associates(<<k>>, t, socket[s])
    BY <1>1, <1>2, <1>3, KindsAssociate, Zenon
  <2> QED BY <2>1, Zenon DEF Associates
<1>7. Then(Then(p, <<k>>), Then(t, socket[s])) = Then(p, Then(<<k>>, Then(t, socket[s])))
  <2>1. Associates(p, <<k>>, Then(t, socket[s]))
    BY <1>3, <1>5, KindsAssociate, Zenon
  <2> QED BY <2>1, Zenon DEF Associates
<1>8. sent[s] = Then(Append(p, k), Then(t, socket[s]))
  BY <1>2, <1>3, <1>4, <1>6, <1>7
<1>9. Range(Append(p, k)) = Range(p) \cup {k}
  BY <1>2, RangeOfAppend
<1> QED BY <1>2, <1>3, <1>5, <1>8, <1>9 DEF k, t

\* The decoder hears a value and passes it on, unless it has seen an error.
LEMMA HeardDecode ==
    ASSUME TypeOK, InHand, NEW s \in Streams, Decode(s), NEW p \in Seq(Kinds),
           NEW r \in Seq(Kinds), Heard(s, p, r)
    PROVE  \E p2, r2 \in Seq(Kinds) : Heard(s, p2, r2)'
<1> DEFINE k == Head(buf[s])
<1>1. /\ srv[s] = "scan" /\ buf[s] # <<>> /\ k # "bad" /\ buf'[s] = Tail(buf[s])
      /\ UNCHANGED <<appVars, socket, err, merging, downstream>>
  BY DEF Decode, TypeOK
<1>2. errd' <=> errd \/ k = "event"
  BY Zenon DEF Decode
<1>3. ~Drained(s) /\ ~Ending(s) /\ ExitOf(s) = <<>>
  BY <1>1 DEF Drained, Ending, ExitOf
<1>4. UNCHANGED <<delivered[s], out, InConverter(s), InMerger(s)>>
  BY <1>1 DEF merging, downstream, converting, tail, InConverter, InMerger
<1>5. InServer(s) = <<>>
  BY <1>1 DEF InServer
<1> HIDE DEF k
<1>6. CASE err[s]
  <2>1. UNCHANGED <<srv, srvMsg>>
    BY <1>6 DEF Decode
  <2>2. UNCHANGED <<Ahead(s), ExitOf(s)>>
    BY <1>3, <1>4, <2>1 DEF Ahead, InServer, ExitOf, Ending
  <2>3. "bad" \in Range(p)
    BY <1>3, <1>6 DEF Heard
  <2>4. Heard(s, p, r)'
    BY <1>1, <1>2, <1>6, <2>2, <2>3 DEF Heard, appVars
  <2> QED BY <2>4
<1>7. CASE ~err[s]
  <2>1. PICK p2 \in Seq(Kinds), r2 \in Seq(Kinds) :
          /\ p2 = Append(p, k) /\ r2 = Then(Tail(buf[s]), socket[s])
          /\ k \in Kinds /\ sent[s] = Then(p2, r2) /\ Range(p2) = Range(p) \cup {k}
    BY <1>1, <1>7, HeardNext DEF k
  <2>2. srv'[s] = "send" /\ srvMsg'[s] = k
    BY <1>7 DEF Decode, TypeOK, k
  <2>3. InServer(s)' = Kept(k) /\ ExitOf(s)' = <<>>
    BY <2>2 DEF InServer, ExitOf, Ending, Kept
  <2>4. "bad" \notin Range(p) \cup {k}
    BY <1>1, <1>7 DEF Heard
  <2>5. Relayed(p2) = Then(Relayed(p), Kept(k))
    BY <2>1, <2>4, RelayedNext
  <2>6. Relayed(p) \in Seq(Values) /\ Kept(k) \in Seq(Values)
    <3>1. p \in Seq(Values) /\ k \in Values
      BY <2>1 DEF Values
    <3> QED BY <3>1, RelayedType, OfType
  <2>7. Ahead(s)' = Then(Ahead(s), Kept(k))
    BY <1>4, <1>5, <2>3, <2>6, AheadGrows
  <2>8. Ahead(s)' = Then(Relayed(p2), ExitOf(s)')
    <3>1. Ahead(s) = Relayed(p)
      BY <1>3, <2>6, ValuesJoined DEF Heard
    <3>2. Then(Relayed(p), Kept(k)) \in Seq(Values)
      BY <2>6, ValuesJoined
    <3> QED BY <2>3, <2>5, <2>7, <3>1, <3>2, ValuesJoined
  <2>9. s = "agent" =>
          /\ errd' <=> "event" \in Range(p2)
          /\ "event" \in Range(Relayed(p2)) => errd'
    <3>1. Range(Relayed(p2)) \subseteq Range(p2)
      BY <2>1, RelayedRange
    <3> QED BY <1>2, <1>7, <2>1, <2>4, <3>1 DEF Heard
  <2>10. Heard(s, p2, r2)'
    <3>1. /\ sent'[s] = Then(p2, r2) /\ ~ err'[s]
          /\ "bad" \notin Range(p2) /\ r2 = Then(buf'[s], socket'[s])
      BY <1>1, <1>7, <2>1, <2>4 DEF appVars
    <3> QED BY <2>8, <2>9, <3>1 DEF Heard
  <2> QED BY <2>10
<1> QED BY <1>6, <1>7

\* The decoder hears what it cannot decode, and gives up.
LEMMA HeardFails ==
    ASSUME TypeOK, NEW s \in Streams, DecodeFails(s), NEW p \in Seq(Kinds),
           NEW r \in Seq(Kinds), Heard(s, p, r)
    PROVE  \E p2, r2 \in Seq(Kinds) : Heard(s, p2, r2)'
<1>1. /\ buf[s] # <<>> /\ Head(buf[s]) = "bad" /\ err'[s]
      /\ UNCHANGED <<appVars, srv, srvMsg, errd, merging, downstream>>
  BY DEF DecodeFails, TypeOK
<1>2. UNCHANGED <<Ahead(s), ExitOf(s), sent[s], errd>>
  <2>1. UNCHANGED <<delivered[s], out, InConverter(s), InMerger(s), InServer(s), ExitOf(s)>>
    BY <1>1 DEF merging, downstream, converting, tail, InConverter, InMerger,
                InServer, ExitOf, Ending
  <2> QED BY <1>1, <2>1, AheadStays DEF appVars
<1>3. CASE err[s]
  <2>1. "bad" \in Range(p)
    BY <1>1, <1>3 DEF Heard, Drained
  <2>2. Heard(s, p, r)'
    BY <1>1, <1>2, <1>3, <2>1 DEF Heard
  <2> QED BY <2>2
<1>4. CASE ~err[s]
  <2>1. PICK p2 \in Seq(Kinds), r2 \in Seq(Kinds) :
          /\ p2 = Append(p, "bad") /\ sent[s] = Then(p2, r2)
          /\ "bad" \in Kinds /\ Range(p2) = Range(p) \cup {"bad"}
    BY <1>1, <1>4, HeardNext
  <2>2. Relayed(p2) = Relayed(p)
    BY <2>1, RelayedNext
  <2>3. Heard(s, p2, r2)'
    BY <1>1, <1>2, <2>1, <2>2 DEF Heard
  <2> QED BY <2>3
<1> QED BY <1>3, <1>4

\* The socket fails when nothing is left in it.
LEMMA HeardReadFails ==
    ASSUME TypeOK, NEW s \in Streams, ReadFails(s), NEW p \in Seq(Kinds),
           NEW r \in Seq(Kinds), Heard(s, p, r)
    PROVE  Heard(s, p, r)'
<1>1. /\ ~err[s] /\ err'[s] /\ buf[s] = <<>> /\ socket[s] = <<>> /\ ~open[s]
      /\ UNCHANGED <<appVars, socket, buf, srv, srvMsg, errd, merging, downstream>>
  BY DEF ReadFails, TypeOK
<1>2. UNCHANGED <<Ahead(s), ExitOf(s), sent[s], errd>>
  <2>1. UNCHANGED <<delivered[s], out, InConverter(s), InMerger(s), InServer(s), ExitOf(s)>>
    BY <1>1 DEF merging, downstream, converting, tail, InConverter, InMerger,
                InServer, ExitOf, Ending
  <2> QED BY <1>1, <2>1, AheadStays DEF appVars
<1>3. r = <<>>
  BY <1>1, KindsJoined DEF Heard
<1>4. Drained(s)'
  BY <1>1 DEF Drained, appVars
<1> QED BY <1>1, <1>2, <1>3, <1>4 DEF Heard

\* The end of the stream: agent.Server adds the report of the exit, if it does.
LEMMA HeardEnd ==
    ASSUME TypeOK, InHand, NEW s \in Streams, EndOfStream(s), NEW p \in Seq(Kinds),
           NEW r \in Seq(Kinds), Heard(s, p, r)
    PROVE  Heard(s, p, r)'
<1>1. /\ srv[s] = "scan"
      /\ UNCHANGED <<appVars, socket, buf, err, errd, merging, downstream>>
  BY DEF EndOfStream
<1>2. UNCHANGED <<delivered[s], out, InConverter(s), InMerger(s)>>
  BY <1>1 DEF merging, downstream, converting, tail, InConverter, InMerger
<1>3. InServer(s) = <<>> /\ ExitOf(s) = <<>>
  BY <1>1 DEF InServer, ExitOf, Ending
<1>4. InServer(s)' = ExitOf(s)' /\ ExitOf(s)' \in {<<>>, <<"cleanExit">>}
  <2>1. CASE s = "agent" /\ ~errd
    <3>1. srv'[s] = "sendExit" /\ srvMsg'[s] = "cleanExit" /\ ~errd'
      BY <1>1, <2>1 DEF EndOfStream, TypeOK
    <3> QED BY <2>1, <3>1 DEF InServer, ExitOf, Ending, Kept, Logs
  <2>2. CASE ~ (s = "agent" /\ ~errd)
    <3>1. srv'[s] = "close" /\ errd' = errd
      BY <1>1, <2>2 DEF EndOfStream, TypeOK
    <3> QED BY <2>2, <3>1 DEF InServer, ExitOf
  <2> QED BY <2>1, <2>2
<1>5. PICK v \in Seq(Values) : v = ExitOf(s)'
  <2>1. <<>> \in Seq(Values) /\ <<"cleanExit">> \in Seq(Values)
    BY DEF Values
  <2> QED BY <1>4, <2>1, Zenon
<1>6. Ahead(s)' = Then(Ahead(s), v)
  BY <1>2, <1>3, <1>4, <1>5, AheadGrows
<1>7. Relayed(p) \in Seq(Values)
  <2>1. p \in Seq(Values)
    BY DEF Values
  <2> QED BY <2>1, RelayedType
<1>8. Ahead(s) = Relayed(p)
  BY <1>3, <1>7, ValuesJoined DEF Heard
<1>9. Drained(s)' <=> Drained(s)
  BY <1>1 DEF Drained, appVars
<1> QED BY <1>1, <1>5, <1>6, <1>8, <1>9 DEF Heard, appVars

-----------------------------------------------------------------------------
(* The invariant of a stream on its way, and what the runs check of it.    *)

\* Of each stream the decoder has heard a beginning of what was written: what of
\* that is relayed, and the report of the exit, is what is delivered or on its way.
LEMMA FlowHolds == Spec => []Flow
<1>1. Init => Flow
  <2> SUFFICES ASSUME Init, NEW s \in Streams
               PROVE  Heard(s, <<>>, <<>>) /\ <<>> \in Seq(Kinds)
    BY DEF Flow
  <2>1. /\ <<>> \in Seq(Kinds) /\ Then(<<>>, <<>>) = <<>> /\ Relayed(<<>>) = <<>>
        /\ Range(<<>>) = {} /\ Said(<<>>, s) = <<>>
    <3>1. Said(<<>>, s) = <<>>
      BY DEF Said, FlattenSeq
    <3>2. Range(<<>>) = {}
      BY DEF Range
    <3> QED BY <3>1, <3>2, KindsJoined, RelayedType
  <2>2. /\ delivered[s] = <<>> /\ out = <<>> /\ InConverter(s) = <<>>
        /\ InMerger(s) = <<>> /\ InServer(s) = <<>> /\ ExitOf(s) = <<>>
    BY DEF Init, InConverter, InMerger, InServer, ExitOf, Ending
  <2>3. sent[s] = <<>> /\ ~err[s] /\ ~errd /\ buf[s] = <<>> /\ socket[s] = <<>>
    BY DEF Init
  <2> QED BY <2>1, <2>2, <2>3 DEF Heard, Ahead
<1>2. TypeOK /\ InHand /\ Written /\ Closing /\ Flow /\ [Next]_vars => Flow'
  <2> SUFFICES ASSUME TypeOK, InHand, Written, Closing, Flow, [Next]_vars,
                      NEW s \in Streams, NEW p \in Seq(Kinds), NEW r \in Seq(Kinds),
                      Heard(s, p, r)
               PROVE  \E p2, r2 \in Seq(Kinds) : Heard(s, p2, r2)'
    BY DEF Flow
  \* Most steps write nothing, hear nothing, and move what is on its way.
  <2>1. ASSUME UNCHANGED <<upstream, Ahead(s)>>
        PROVE  Heard(s, p, r)'
    <3>1. UNCHANGED <<sent, err, errd, buf, socket, open, srv>>
      BY <2>1 DEF upstream, appVars, servers
    <3> QED BY <2>1, <3>1, HeardStays DEF Ending, Drained
  <2>2. CASE AppStep
    <3>1. UNCHANGED <<servers, merging, downstream>>
      BY <2>2 DEF AppStep, Exit, Write, CloseStream
    <3>2. UNCHANGED <<Ahead(s), buf, err, errd, srv>>
      BY <3>1, AheadStays DEF servers, merging, downstream, converting, tail,
                              InConverter, InMerger, InServer
    <3>3. ASSUME UNCHANGED <<sent[s], socket[s]>>, open'[s] => open[s]
          PROVE  Heard(s, p, r)'
      BY <3>2, <3>3, HeardStays DEF Ending, Drained
    <3>4. CASE Exit
      BY <3>3, <3>4 DEF Exit
    <3>5. ASSUME NEW x \in Streams, Write(x)
          PROVE  \E p2, r2 \in Seq(Kinds) : Heard(s, p2, r2)'
      <4>1. CASE x = s
        BY <3>5, <4>1, HeardWrite
      <4>2. CASE x # s
        BY <3>3, <3>5, <4>2 DEF Write, TypeOK
      <4> QED BY <4>1, <4>2
    <3>6. ASSUME NEW x \in Streams, CloseStream(x)
          PROVE  Heard(s, p, r)'
      BY <3>3, <3>6 DEF CloseStream, TypeOK
    <3> QED BY <2>2, <3>4, <3>5, <3>6 DEF AppStep
  <2>3. ASSUME NEW x \in Streams, ServerStep(x)
        PROVE  \E p2, r2 \in Seq(Kinds) : Heard(s, p2, r2)'
    <3>1. CASE Forward(x)
      <4>1. UNCHANGED <<Ahead(s), appVars, socket, buf, err, errd>>
        BY <3>1, AheadOfForward DEF Forward
      <4>2. Ending(s)' <=> Ending(s)
        BY <3>1 DEF Forward, Ending, TypeOK
      <4> QED BY <4>1, <4>2, HeardStays DEF appVars, Drained
    <3>2. CASE x = s /\ (Read(x) \/ Decode(x) \/ DecodeFails(x) \/ ReadFails(x)
                         \/ EndOfStream(x))
      BY <3>2, HeardRead, HeardDecode, HeardFails, HeardReadFails, HeardEnd
    <3>3. CASE CloseOutput(x) \/ CloseDone \/ MergeDone(x)
      <4>1. UNCHANGED <<appVars, socket, buf, err, errd, downstream>>
        BY <3>3 DEF CloseOutput, CloseDone, MergeDone, upstream, servers
      <4>2. UNCHANGED <<InMerger(s), InServer(s)>> /\ (Ending(s)' <=> Ending(s))
        BY <3>3 DEF CloseOutput, CloseDone, MergeDone, upstream, servers, merging,
                    InMerger, InServer, Ending, TypeOK
      <4>3. UNCHANGED Ahead(s)
        BY <4>1, <4>2, AheadStays DEF downstream, converting, tail, InConverter
      <4> QED BY <4>1, <4>2, <4>3, HeardStays DEF appVars, Drained
    <3>4. CASE x # s /\ (Read(x) \/ Decode(x) \/ DecodeFails(x) \/ ReadFails(x)
                         \/ EndOfStream(x))
      <4>1. /\ UNCHANGED <<appVars, merging, downstream>>
            /\ UNCHANGED <<srv[s], srvMsg[s], err[s], buf[s], socket[s]>>
        BY <3>4 DEF Read, Decode, DecodeFails, ReadFails, EndOfStream, TypeOK
      <4>2. UNCHANGED Ahead(s)
        BY <4>1, AheadStays DEF merging, downstream, converting, tail, InConverter,
                                InMerger, InServer
      <4>3. s = "agent" => (errd' <=> errd)
        <5>1. CASE s = "agent" /\ Decode(x)
          <6>1. x = "points" /\ buf[x] \in Seq(PointValues) /\ buf[x] # <<>>
            BY <3>4, <5>1 DEF Decode, Written, Streams
          <6>2. Head(buf[x]) # "event"
            BY <6>1 DEF PointValues
          <6> QED BY <5>1, <6>2, Zenon DEF Decode
        <5> QED BY <3>4, <5>1 DEF Read, DecodeFails, ReadFails, EndOfStream
      <4> QED BY <4>1, <4>2, <4>3, HeardStays DEF appVars, Drained, Ending
    <3> QED BY <2>3, <3>1, <3>2, <3>3, <3>4 DEF ServerStep
  <2>4. CASE ConverterStep
    <3>1. UNCHANGED upstream
      BY <2>4 DEF ConverterStep, Wait, Emit, EndConverter, Convert
    <3>2. CASE Emit
      BY <2>1, <3>1, <3>2, AheadOfEmit
    <3>3. ASSUME NEW x \in Streams, Convert(x) PROVE Heard(s, p, r)'
      BY <2>1, <3>1, <3>3, AheadOfConvert
    <3>4. CASE Wait \/ EndConverter
      <4>1. UNCHANGED <<delivered, out, InConverter(s), InMerger(s), InServer(s)>>
        BY <3>1, <3>4 DEF Wait, EndConverter, InConverter, InMerger, InServer, upstream,
                          servers, merging, tail
      <4> QED BY <2>1, <3>1, <4>1, AheadStays
    <3> QED BY <2>4, <3>2, <3>3, <3>4 DEF ConverterStep
  <2>5. CASE LoaderStep \/ RequesterStep
    <3>1. UNCHANGED <<upstream, delivered, InConverter(s), InMerger(s), InServer(s)>>
      BY <2>5 DEF LoaderStep, LoadLeftover, EndLoader, RequesterStep, RequestsFail,
                  ReportFailure, CancelRequester, InConverter, InMerger, InServer,
                  upstream, servers, merging, converting, tail
    <3>2. \E m : out' \in {out, Append(out, m)} /\ m \in Messages /\ Of(m, s) = <<>>
      <4>1. out' \in {out, Append(out, [from |-> "loader", kind |-> "leftover"]),
                      Append(out, [from |-> "requester", kind |-> "error"])}
        BY <2>5 DEF LoaderStep, LoadLeftover, EndLoader, RequesterStep, RequestsFail,
                    ReportFailure, CancelRequester, tail
      <4> QED BY <4>1, OfType, MadeMessages
    <3>3. Said(out', s) = Said(out, s)
      <4>1. out \in Seq(Messages) /\ Said(out, s) \in Seq(Values)
        BY PartsType DEF TypeOK
      <4>2. \A m \in Messages : Said(Append(out, m), s) = Then(Said(out, s), Of(m, s))
        BY <4>1, SaidOfMessages, Zenon
      <4>3. Then(Said(out, s), <<>>) = Said(out, s)
        BY <4>1, ValuesJoined
      <4> QED BY <3>2, <4>2, <4>3
    <3> QED BY <2>1, <3>1, <3>3 DEF Ahead
  <2>6. CASE ProducerStep
    <3>1. CASE Serve
      BY <2>1, <3>1, AheadOfServe DEF Serve
    <3>2. CASE Disconnect
      <4>1. UNCHANGED <<upstream, delivered, out, InConverter(s), InMerger(s), InServer(s)>>
        BY <3>2 DEF Disconnect, InConverter, InMerger, InServer, upstream, servers,
                    merging, converting
      <4> QED BY <2>1, <4>1, AheadStays
    <3> QED BY <2>6, <3>1, <3>2 DEF ProducerStep
  <2>7. CASE UNCHANGED vars
    <3>1. UNCHANGED <<upstream, delivered, out, InConverter(s), InMerger(s), InServer(s)>>
      BY <2>7 DEF vars, InConverter, InMerger, InServer, upstream, servers, merging,
                  downstream, converting, tail
    <3> QED BY <2>1, <3>1, AheadStays
  <2> QED BY <2>2, <2>3, <2>4, <2>5, <2>6, <2>7 DEF Next
<1> QED BY <1>1, <1>2, TypesAndHands, WrittenHolds, ClosingHolds, PTL DEF Spec
-----------------------------------------------------------------------------
(* What is delivered.                                                      *)

\* Of each stream, what is delivered and what is on its way begins what is to be
\* relayed; or it is all of that, and the report of the exit.
LEMMA Promised ==
    ASSUME TypeOK, InHand, Closing, Flow, NEW s \in Streams
    PROVE  \E x, y \in Seq(Values) :
             /\ Relayed(sent[s]) = Then(x, y) /\ Ahead(s) = Then(x, ExitOf(s))
             /\ Ending(s) => y = <<>>
             /\ s = "agent" /\ "event" \in Range(x) => errd
<1>1. PICK p \in Seq(Kinds), r \in Seq(Kinds) : Heard(s, p, r)
  BY DEF Flow
<1>2. p \in Seq(Values) /\ r \in Seq(Values) /\ Relayed(p) \in Seq(Values)
  <2>1. p \in Seq(Values) /\ r \in Seq(Values)
    BY DEF Values
  <2> QED BY <2>1, RelayedType
<1>3. PICK y \in Seq(Values) : /\ Relayed(Then(p, r)) = Then(Relayed(p), y)
                               /\ "bad" \in Range(p) => y = <<>>
  BY <1>2, RelayedLater
<1>4. CASE ~Ending(s)
  BY <1>1, <1>2, <1>3, <1>4 DEF Heard
<1>5. CASE Ending(s)
  <2>1. /\ buf[s] = <<>> /\ socket[s] = <<>>
        /\ "bad" \in Range(p) \/ r = <<>>
    BY <1>1, <1>5, KindsJoined DEF Closing, Drained, Heard
  <2>2. Then(Relayed(p), <<>>) = Relayed(p) /\ Then(p, <<>>) = p /\ <<>> \in Seq(Values)
    BY <1>2, ValuesJoined
  <2>3. Relayed(sent[s]) = Then(Relayed(p), <<>>)
    BY <1>1, <1>3, <2>1, <2>2 DEF Heard
  <2> QED BY <1>1, <1>2, <2>2, <2>3 DEF Heard
<1> QED BY <1>4, <1>5

\* What is on its way, after what is delivered.
LEMMA RestOf ==
    ASSUME TypeOK, InHand, NEW s \in Streams
    PROVE  \E z \in Seq(Values) :
             /\ Ahead(s) = Then(delivered[s], z)
             /\ srv[s] \in {"closed", "done"} /\ mrg[s] = "done" /\ conv = "closed"
                    /\ out = <<>> => z = <<>>
<1>1. /\ Said(out, s) \in Seq(Values) /\ InConverter(s) \in Seq(Values)
      /\ InMerger(s) \in Seq(Values) /\ InServer(s) \in Seq(Values)
  BY PartsType
<1> DEFINE z == Then(Said(out, s), Then(InConverter(s), Then(InMerger(s), InServer(s))))
<1>2. z \in Seq(Values) /\ Ahead(s) = Then(delivered[s], z)
  BY <1>1, ValuesJoined DEF Ahead
<1>3. ASSUME srv[s] \in {"closed", "done"}, mrg[s] = "done", conv = "closed", out = <<>>
      PROVE  z = <<>>
  <2>1. InConverter(s) = <<>> /\ InMerger(s) = <<>> /\ InServer(s) = <<>>
    BY <1>3 DEF InConverter, InMerger, InServer
  <2>2. Said(out, s) = <<>>
    BY <1>3 DEF Said, FlattenSeq
  <2>3. Then(<<>>, <<>>) = <<>>
    BY ValuesJoined, Zenon
  <2> QED BY <2>1, <2>2, <2>3, Zenon
<1> HIDE DEF z
<1> QED BY <1>2, <1>3

\* When the pipeline is closed and empty, all is delivered; and of an agent's stream
\* that could be decoded the last is a report.
LEMMA AllDelivered ==
    ASSUME TypeOK, InHand, Written, Closing, Flow, conv = "closed", out = <<>>,
           NEW s \in Streams
    PROVE  /\ ~open[s]
           /\ delivered[s] = Then(Relayed(sent[s]), ExitOf(s))
           /\ s = "agent" /\ "bad" \notin Range(sent[s]) =>
                \E v \in Seq(Values) :
                    delivered[s] = Append(v, IF "event" \in Range(sent[s])
                                             THEN "event" ELSE "cleanExit")
<1>1. srv[s] \in {"closed", "done"} /\ mrg[s] = "done"
  BY DEF Closing
<1>2. Ending(s) /\ Drained(s)
  BY <1>1 DEF Closing, Ending
<1>3. PICK x \in Seq(Values), y \in Seq(Values) :
        Relayed(sent[s]) = Then(x, y) /\ Ahead(s) = Then(x, ExitOf(s)) /\ y = <<>>
  BY <1>2, Promised
<1>4. PICK z \in Seq(Values) : Ahead(s) = Then(delivered[s], z) /\ z = <<>>
  BY <1>1, RestOf
<1>5. delivered[s] \in Seq(Values)
  BY PartsType
<1>6. delivered[s] = Then(Relayed(sent[s]), ExitOf(s))
  BY <1>3, <1>4, <1>5, ValuesJoined
<1>7. ASSUME s = "agent", "bad" \notin Range(sent[s])
      PROVE  \E v \in Seq(Values) :
                delivered[s] = Append(v, IF "event" \in Range(sent[s])
                                         THEN "event" ELSE "cleanExit")
  <2>1. PICK p \in Seq(Kinds), r \in Seq(Kinds) : Heard(s, p, r)
    BY DEF Flow
  <2>2. r = <<>>
    <3>1. Range(Then(p, r)) = Range(p) \cup Range(r)
      BY RangeConcatenation DEF Then
    <3>2. "bad" \notin Range(p)
      BY <1>7, <2>1, <3>1 DEF Heard
    <3> QED BY <1>2, <2>1, <3>2, KindsJoined DEF Heard, Drained
  <2>3. sent[s] = p
    BY <2>1, <2>2, KindsJoined DEF Heard
  <2>4. errd <=> "event" \in Range(sent[s])
    BY <1>7, <2>1, <2>3 DEF Heard
  <2>5. CASE errd
    <3>1. ExitOf(s) = <<>>
      BY <2>5 DEF ExitOf
    <3>2. PICK w \in Seq(NoEvent) : sent[s] = Append(w, "event")
      <4>1. \A w \in Seq(NoEvent) : "event" \notin Range(w)
        BY DEF NoEvent, Range
      <4> QED BY <1>7, <2>4, <2>5, <4>1 DEF Written
    <3>3. w \in Seq(Kinds) /\ "event" \in Kinds
      BY DEF NoEvent, Kinds
    <3>4. "bad" \notin Range(w) \cup {"event"}
      BY <1>7, <3>2, <3>3, RangeOfAppend
    <3>5. Relayed(sent[s]) = Then(Relayed(w), <<"event">>)
      <4>1. Kept("event") = <<"event">>
        BY DEF Kept, Logs
      <4>2. Relayed(Append(w, "event")) = Then(Relayed(w), Kept("event"))
        BY <3>3, <3>4, RelayedNext
      <4> QED BY <3>2, <4>1, <4>2, Zenon
    <3>6. Relayed(w) \in Seq(Values) /\ "event" \in Values
      <4>1. w \in Seq(Values)
        BY <3>3 DEF Values
      <4> QED BY <3>3, <4>1, RelayedType DEF Values
    <3>7. delivered[s] = Append(Relayed(w), "event")
      <4>1. Then(Relayed(w), <<"event">>) \in Seq(Values)
        BY <3>6, ValuesJoined
      <4> QED BY <1>6, <3>1, <3>5, <3>6, <4>1, ValuesJoined
    <3> QED BY <2>4, <2>5, <3>6, <3>7
  <2>6. CASE ~errd
    <3>1. ExitOf(s) = <<"cleanExit">>
      BY <1>2, <1>7, <2>6 DEF ExitOf
    <3>2. Relayed(sent[s]) \in Seq(Values) /\ "cleanExit" \in Values
      BY <1>3, ValuesJoined DEF Values
    <3>3. delivered[s] = Append(Relayed(sent[s]), "cleanExit")
      <4>1. Append(Relayed(sent[s]), "cleanExit") = Then(Relayed(sent[s]), <<"cleanExit">>)
        BY <3>2, ValuesJoined
      <4> QED BY <1>6, <3>1, <4>1
    <3> QED BY <2>4, <2>6, <3>2, <3>3
  <2> QED BY <2>5, <2>6
<1> QED BY <1>2, <1>6, <1>7 DEF Drained

\* The inductive invariants, from which the rest follows.
LEMMA FlowAndClosing == Spec => [](TypeOK /\ InHand /\ Written /\ Closing /\ Flow)
  BY TypesAndHands, WrittenHolds, ClosingHolds, FlowHolds, PTL

\* Each stream is relayed in order, without loss or duplicate, and all of it before
\* the producer disconnects, whatever is written and however the goroutines interleave.
THEOREM StreamsAreRelayed == Spec => []StreamsRelayed
<1>1. ASSUME TypeOK, InHand, Written, Closing, Flow PROVE StreamsRelayed
  <2> SUFFICES ASSUME NEW s \in Streams
               PROVE  /\ \/ IsPrefix(delivered[s], Relayed(sent[s]))
                         \/ /\ s = "agent"
                            /\ delivered[s] = Append(Relayed(sent[s]), "cleanExit")
                      /\ producer = "disconnected" =>
                            Len(delivered[s]) >= Len(Relayed(sent[s]))
    BY DEF StreamsRelayed
  <2>1. PICK x \in Seq(Values), y \in Seq(Values) :
          /\ Relayed(sent[s]) = Then(x, y) /\ Ahead(s) = Then(x, ExitOf(s))
          /\ Ending(s) => y = <<>>
    BY <1>1, Promised
  <2>2. PICK z \in Seq(Values) : Ahead(s) = Then(delivered[s], z)
    BY <1>1, RestOf
  <2>3. delivered[s] \in Seq(Values) /\ Relayed(sent[s]) \in Seq(Values)
    BY <1>1, <2>1, PartsType, ValuesJoined
  <2>4. \A d, u \in Seq(Values) :
            IsPrefix(d, Then(d, u)) /\ Len(Then(d, u)) = Len(d) + Len(u)
    BY BeginningIs
  <2>5. ASSUME ExitOf(s) = <<>> PROVE IsPrefix(delivered[s], Relayed(sent[s]))
    <3>1. x = Then(delivered[s], z)
      BY <2>1, <2>2, <2>5, ValuesJoined
    <3>2. Relayed(sent[s]) = Then(delivered[s], Then(z, y)) /\ Then(z, y) \in Seq(Values)
      <4>1. Relayed(sent[s]) = Then(Then(delivered[s], z), y)
        BY <2>1, <3>1, Zenon
      <4>2. Associates(delivered[s], z, y)
        BY <2>3, ValuesAssociate, Zenon
      <4>3. Then(z, y) \in Seq(Values)
        BY ValuesJoined
      <4> QED BY <4>1, <4>2, <4>3, Zenon DEF Associates
    <3> QED BY <2>3, <2>4, <3>2, Zenon
  <2>6. ASSUME ExitOf(s) # <<>>
        PROVE  \/ IsPrefix(delivered[s], Relayed(sent[s]))
               \/ /\ s = "agent"
                  /\ delivered[s] = Append(Relayed(sent[s]), "cleanExit")
    <3>1. s = "agent" /\ Ending(s) /\ ExitOf(s) = <<"cleanExit">>
      BY <2>6 DEF ExitOf
    <3>2. Relayed(sent[s]) = x /\ "cleanExit" \in Values
      BY <2>1, <3>1, ValuesJoined DEF Values
    <3>3. Then(delivered[s], z) = Append(x, "cleanExit")
      <4>1. Append(x, "cleanExit") = Then(x, <<"cleanExit">>)
        BY <3>2, ValuesJoined
      <4> QED BY <2>1, <2>2, <3>1, <4>1
    <3>4. \/ delivered[s] = Append(x, "cleanExit")
          \/ \E u \in Seq(Values) : x = Then(delivered[s], u)
      <4>1. \A d, w, v \in Seq(Values), k \in Values :
                Then(d, w) = Append(v, k) => d = Append(v, k) \/ Begins(d, v, Values)
        BY BeginningOfAppend
      <4>2. PICK k \in Values : k = "cleanExit"
        BY <3>2
      <4>3. delivered[s] = Append(x, k) \/ Begins(delivered[s], x, Values)
        BY <2>3, <3>3, <4>1, <4>2, Zenon
      <4> QED BY <4>2, <4>3 DEF Begins
    <3> QED BY <2>3, <2>4, <3>1, <3>2, <3>4, Zenon
  <2>7. ASSUME producer = "disconnected"
        PROVE  Len(delivered[s]) >= Len(Relayed(sent[s]))
    <3>1. delivered[s] = Then(Relayed(sent[s]), ExitOf(s)) /\ ExitOf(s) \in Seq(Values)
      <4>1. conv = "closed" /\ out = <<>>
        BY <1>1, <2>7 DEF Closing
      <4>2. <<>> \in Seq(Values) /\ <<"cleanExit">> \in Seq(Values)
        BY DEF Values
      <4> QED BY <1>1, <4>1, <4>2, AllDelivered DEF ExitOf
    <3>2. Len(delivered[s]) = Len(Relayed(sent[s])) + Len(ExitOf(s))
      BY <2>3, <2>4, <3>1, Zenon
    <3> QED BY <2>3, <3>1, <3>2
  <2> QED BY <2>5, <2>6, <2>7
<1> QED BY <1>1, FlowAndClosing, PTL

\* At most one of what is to be relayed of the agent's stream is a report.
LEMMA OneReportWritten ==
    ASSUME TypeOK, Written
    PROVE  OneReport(Relayed(sent["agent"]))
<1> DEFINE all == Relayed(sent["agent"])
<1>1. \A w \in Seq(NoEvent) : /\ w \in Seq(Kinds) /\ Relayed(w) \in Seq(Kinds)
                              /\ Range(Relayed(w)) \cap Reports = {}
  <2> TAKE w \in Seq(NoEvent)
  <2>1. w \in Seq(Kinds)
    BY DEF NoEvent
  <2>2. Range(Relayed(w)) \subseteq Range(w)
    BY <2>1, RelayedRange
  <2>3. Range(w) \cap Reports = {}
    BY DEF NoEvent, Kinds, Range, Reports
  <2> QED BY <2>1, <2>2, <2>3, RelayedType
<1>2. CASE sent["agent"] \in Seq(NoEvent)
  BY <1>1, <1>2, OneReportFacts
<1>3. CASE \E w \in Seq(NoEvent) : sent["agent"] = Append(w, "event")
  <2>1. PICK w \in Seq(NoEvent) : sent["agent"] = Append(w, "event")
    BY <1>3
  <2>2. /\ w \in Seq(Kinds) /\ Relayed(w) \in Seq(Kinds) /\ "event" \in Kinds
        /\ Range(Relayed(w)) \cap Reports = {}
    BY <1>1 DEF Kinds
  <2>3. \/ all = Relayed(w)
        \/ all = Append(Relayed(w), "event")
    <3>1. Kept("event") = <<"event">>
      BY DEF Kept, Logs
    <3>2. all = Relayed(w) \/ all = Then(Relayed(w), <<"event">>)
      BY <2>1, <2>2, <3>1, RelayedNext
    <3>3. Append(Relayed(w), "event") = Then(Relayed(w), <<"event">>)
      BY <2>2, KindsJoined
    <3> QED BY <3>2, <3>3
  <2>4. OneReport(Relayed(w)) /\ OneReport(Append(Relayed(w), "event"))
    BY <2>2, OneReportFacts
  <2> QED BY <2>3, <2>4
<1> QED BY <1>2, <1>3 DEF Written

\* The exit is reported at most once: by the app, or else by agent.Server, which knows
\* whether it has seen the event; and it is, if the agent's stream could be decoded.
THEOREM ExitIsReported == Spec => []ExitReported
<1>1. ASSUME TypeOK, InHand, Written, Closing, Flow PROVE ExitReported
  <2> DEFINE said == delivered["agent"]
             all == Relayed(sent["agent"])
             last == IF "event" \in Range(sent["agent"]) THEN "event" ELSE "cleanExit"
  <2>0. "agent" \in Streams
    BY DEF Streams
  <2>1. PICK x \in Seq(Values), y \in Seq(Values) :
          /\ all = Then(x, y) /\ Ahead("agent") = Then(x, ExitOf("agent"))
          /\ "event" \in Range(x) => errd
    BY <1>1, <2>0, Promised
  <2>2. PICK z \in Seq(Values) : Ahead("agent") = Then(said, z)
    BY <1>1, <2>0, RestOf
  <2>3. said \in Seq(Values)
    BY <1>1, <2>0, PartsType
  <2>4. OneReport(x)
    <3>1. OneReport(Then(x, y))
      BY <1>1, <2>1, OneReportWritten
    <3> QED BY <3>1, OneReportFacts
  <2>5. OneReport(Then(x, ExitOf("agent")))
    <3>1. CASE ExitOf("agent") = <<>>
      BY <2>4, <3>1, ValuesJoined
    <3>2. CASE ExitOf("agent") # <<>>
      <4>1. ~errd /\ ExitOf("agent") = <<"cleanExit">> /\ "cleanExit" \in Values
        BY <3>2 DEF ExitOf, Values
      <4>2. Range(x) \subseteq Range(all)
        <5>1. Range(Then(x, y)) = Range(x) \cup Range(y)
          BY RangeConcatenation DEF Then
        <5> QED BY <2>1, <5>1
      <4>3. Range(all) \subseteq Kinds
        <5>1. all \in Seq(Kinds)
          BY <1>1, <2>0, RelayedType DEF TypeOK
        <5> QED BY <5>1 DEF Range
      <4>4. Range(x) \cap Reports = {}
        BY <2>1, <4>1, <4>2, <4>3 DEF Reports, Kinds
      <4>5. OneReport(Append(x, "cleanExit"))
        BY <4>1, <4>4, OneReportFacts
      <4>6. Append(x, "cleanExit") = Then(x, <<"cleanExit">>)
        BY <4>1, ValuesJoined
      <4> QED BY <4>1, <4>5, <4>6
    <3> QED BY <3>1, <3>2
  <2>6. OneReport(said)
    <3>1. OneReport(Then(said, z))
      BY <2>1, <2>2, <2>5
    <3> QED BY <2>3, <3>1, OneReportFacts
  <2>7. ASSUME producer = "disconnected", "bad" \notin Range(sent["agent"])
        PROVE  \E i \in DOMAIN said : said[i] = last
    <3>1. conv = "closed" /\ out = <<>>
      BY <1>1, <2>7 DEF Closing
    <3>2. PICK v \in Seq(Values) : said = Append(v, last)
      BY <1>1, <2>0, <2>7, <3>1, AllDelivered
    <3> HIDE DEF last
    <3>3. Len(v) + 1 \in DOMAIN Append(v, last) /\ Append(v, last)[Len(v) + 1] = last
      OBVIOUS
    <3> QED BY <3>2, <3>3
  <2>8. last \in Reports
    BY DEF Reports
  <2> QED BY <2>6, <2>7, <2>8 DEF OneReport, ExitReported
<1> QED BY <1>1, FlowAndClosing, PTL

-----------------------------------------------------------------------------
(* The refinement of Relay.                                                *)

\* Relay speaks of the same streams.
LEMMA SameStreams ==
    /\ \A w : Contract!Relayed(w) = Relayed(w)
    /\ \A w : Contract!Range(w) = Range(w)
    /\ \A v, w : Contract!IsStrictPrefix(v, w) = IsStrictPrefix(v, w)
    /\ Contract!Reports = Reports
<1>1. \A w : Contract!Range(w) = Range(w)
  BY DEF Contract!Range, Range
<1>2. \A v, w : Contract!IsStrictPrefix(v, w) = IsStrictPrefix(v, w)
  BY DEF Contract!IsStrictPrefix, IsStrictPrefix, Contract!IsPrefix, IsPrefix
<1>3. Contract!Reports = Reports /\ Contract!Logs = Logs
  BY DEF Contract!Reports, Reports, Contract!Logs, Logs
<1>4. \A w : Contract!FlattenSeq(w) = FlattenSeq(w)
  BY DEF Contract!FlattenSeq, FlattenSeq
<1>5. \A w : Contract!Relayed(w) = Relayed(w)
  BY <1>3, <1>4 DEF Contract!Relayed, Relayed
<1> QED BY <1>1, <1>2, <1>3, <1>5

\* What the app writes is accepted: before an event, nothing was one.
LEMMA WriteAccepts ==
    ASSUME TypeOK, Written, NEW s \in Streams, Write(s)
    PROVE  \E k \in Kinds : Contract!Accept(s, k)
<1>1. PICK k \in Kinds : sent' = [sent EXCEPT ![s] = Append(@, k)]
  BY PipelineAssumption DEF Write, Kinds
<1>2. app = "running" /\ open[s] /\ UNCHANGED <<open, delivered, producer>>
  BY DEF Write, downstream, tail
<1>3. app' # "exited"
  BY <1>2 DEF Write
<1>4. ASSUME NEW r \in Streams PROVE "event" \notin Range(sent[r])
  <2>1. sent[r] \in Seq(NoEvent) \/ sent[r] \in Seq(PointValues)
    BY <1>2 DEF Written, Streams
  <2> QED BY <2>1 DEF NoEvent, PointValues, Range
<1> QED BY <1>1, <1>2, <1>3, <1>4, SameStreams DEF Contract!Accept

\* What the producer takes of a stream is its next value, or the report of the exit.
LEMMA ServeDelivers ==
    ASSUME TypeOK, InHand, Written, Closing, Flow, ExitSeen, Serve
    PROVE  \/ UNCHANGED Contract!vars
           \/ \E s \in Streams : Contract!Deliver(s)
           \/ Contract!ReportExit
<1>1. /\ out \in Seq(Messages) /\ out # <<>> /\ Head(out) \in Messages
      /\ out' = Tail(out) /\ Tail(out) \in Seq(Messages)
      /\ UNCHANGED <<app, open, sent, producer, conv, convMsg, mrg, mrgMsg, srv, srvMsg>>
  BY DEF Serve, TypeOK, upstream, appVars, servers, merging, converting
<1>2. CASE Head(out).from \notin Streams
  <2>1. UNCHANGED delivered
    BY <1>2 DEF Serve
  <2> QED BY <1>1, <2>1 DEF Contract!vars
<1>3. ASSUME NEW s \in Streams, Head(out).from = s
      PROVE  Contract!Deliver(s) \/ Contract!ReportExit
  <2>1. PICK k \in Values : Head(out).kind = k
    BY <1>1, <1>3, MadeMessages DEF Values
  <2>2. delivered' = [delivered EXCEPT ![s] = Append(@, k)] /\ delivered[s] \in Seq(Values)
    BY <1>3, <2>1, PartsType DEF Serve
  <2>3. k \in Reports => app = "exited"
    BY <1>1, <2>1 DEF ExitSeen
  <2>4. PICK x \in Seq(Values), y \in Seq(Values) :
          /\ Relayed(sent[s]) = Then(x, y) /\ Ahead(s) = Then(x, ExitOf(s))
          /\ Ending(s) => y = <<>>
          /\ s = "agent" /\ "event" \in Range(x) => errd
    BY <1>3, Promised
  <2>5. PICK c \in Seq(Values) : c = delivered[s]
    BY <2>2
  <2>6. PICK d \in Seq(Values) : d = Append(c, k)
    BY ThenOne
  <2>7. PICK z \in Seq(Values) : Ahead(s) = Then(d, z)
    <3>1. delivered'[s] = d
      BY <2>2, <2>5, <2>6 DEF TypeOK
    <3>2. /\ Said(out', s) \in Seq(Values) /\ InConverter(s) \in Seq(Values)
          /\ InMerger(s) \in Seq(Values) /\ InServer(s) \in Seq(Values)
      BY <1>1, <1>3, PartsType, SaidOfMessages
    <3>3. UNCHANGED <<InConverter(s), InMerger(s), InServer(s)>>
      BY <1>1 DEF InConverter, InMerger, InServer
    <3>4. PICK z \in Seq(Values) :
            z = Then(Said(out', s), Then(InConverter(s), Then(InMerger(s), InServer(s))))
      BY <3>2, ValuesJoined
    <3>5. Ahead(s)' = Then(d, z)
      BY <3>1, <3>3, <3>4 DEF Ahead
    <3>6. Ahead(s)' = Ahead(s)
      BY <1>3, AheadOfServe
    <3> QED BY <3>5, <3>6
  <2>8. ASSUME NEW u \in Seq(Values), NEW w \in Seq(Kinds), w = Then(d, u)
        PROVE  /\ IsStrictPrefix(c, w) /\ w[Len(c) + 1] = k
               /\ k # "cleanExit"
    <3>1. \A b, v \in Seq(Values), q \in Values : \A z1 : z1 = Then(Append(b, q), v) =>
             IsStrictPrefix(b, z1) /\ Len(b) + 1 \in 1 .. Len(z1) /\ z1[Len(b) + 1] = q
      BY NextIs
    <3>2. w = Then(Append(c, k), u)
      BY <2>6, <2>8
    <3>3. IsStrictPrefix(c, w) /\ Len(c) + 1 \in 1 .. Len(w) /\ w[Len(c) + 1] = k
      BY <3>1, <3>2, Zenon
    <3>4. w[Len(c) + 1] \in Kinds
      BY <3>3
    <3> QED BY <3>3, <3>4 DEF Kinds
  <2>9. ASSUME NEW u \in Seq(Values), Relayed(sent[s]) = Then(d, u)
        PROVE  Contract!Deliver(s)
    <3>1. Relayed(sent[s]) \in Seq(Kinds)
      BY <1>3, RelayedType DEF TypeOK
    <3>2. /\ IsStrictPrefix(delivered[s], Relayed(sent[s]))
          /\ Relayed(sent[s])[Len(delivered[s]) + 1] = k
      BY <2>5, <2>8, <2>9, <3>1
    <3>3. k = "event" => app = "exited"
      BY <2>3 DEF Reports
    <3> QED BY <1>1, <2>2, <3>2, <3>3, SameStreams DEF Contract!Deliver
  <2>10. CASE ExitOf(s) = <<>>
    <3>1. x = Then(d, z)
      BY <2>4, <2>7, <2>10, ValuesJoined
    <3>2. Relayed(sent[s]) = Then(d, Then(z, y)) /\ Then(z, y) \in Seq(Values)
      BY <2>4, <3>1, ValuesJoined
    <3> QED BY <2>9, <3>2
  <2>11. CASE ExitOf(s) # <<>>
    <3>1. s = "agent" /\ ~errd /\ Ending(s) /\ ExitOf(s) = <<"cleanExit">>
      BY <2>11 DEF ExitOf
    <3>2. Relayed(sent[s]) = x
      BY <2>4, <3>1, ValuesJoined
    <3>3. PICK e \in Values : e = "cleanExit"
      BY DEF Values
    <3>4. Then(d, z) = Append(x, e)
      <4>1. Append(x, e) = Then(x, <<e>>)
        BY ValuesJoined
      <4> QED BY <2>4, <2>7, <3>1, <3>3, <4>1
    <3>5. d = Append(x, e) \/ Begins(d, x, Values)
      <4>1. \A b, w, v \in Seq(Values), q \in Values :
                Then(b, w) = Append(v, q) => b = Append(v, q) \/ Begins(b, v, Values)
        BY BeginningOfAppend
      <4> QED BY <3>4, <4>1, Zenon
    <3>6. CASE Begins(d, x, Values)
      BY <2>9, <3>2, <3>6 DEF Begins
    <3>7. CASE d = Append(x, e)
      <4>1. delivered[s] = x /\ k = "cleanExit"
        <5> DEFINE Same(b, q, w, r) == Append(b, q) = Append(w, r) => b = w /\ q = r
        <5> HIDE DEF Same
        <5>1. \A b, w \in Seq(Values), q, r \in Values : Same(b, q, w, r)
          BY SameAppend, Zenon DEF Same
        <5>2. Append(c, k) = Append(x, e)
          BY <2>6, <3>7
        <5>3. c \in Seq(Values) /\ x \in Seq(Values) /\ k \in Values /\ e \in Values
          BY <2>3, <2>4, <3>3
        <5>4. c = x /\ k = e
          <6>1. Same(c, k, x, e)
            BY <5>1, <5>3, Zenon
          <6> QED BY <5>2, <6>1, Zenon DEF Same
        <5> QED BY <2>5, <3>3, <5>4
      <4>2. app = "exited"
        BY <2>3, <4>1 DEF Reports
      <4>3. ~open["agent"] /\ "event" \notin Range(x)
        BY <1>3, <2>4, <3>1 DEF Closing, Drained
      <4> QED BY <1>1, <2>2, <3>1, <3>2, <4>1, <4>2, <4>3, SameStreams
          DEF Contract!ReportExit
    <3> QED BY <3>5, <3>6, <3>7
  <2> QED BY <2>10, <2>11
<1> QED BY <1>2, <1>3

\* The producer disconnects when all is delivered, as the contract has it.
LEMMA DisconnectEnds ==
    ASSUME TypeOK, InHand, Written, Closing, Flow, Disconnect
    PROVE  Contract!End
<1>1. /\ producer = "serving" /\ producer' = "disconnected" /\ conv = "closed"
      /\ out = <<>> /\ UNCHANGED <<app, open, sent, delivered>>
  BY DEF Disconnect, upstream, appVars
<1>2. ASSUME NEW s \in Streams
      PROVE  /\ ~open[s]
             /\ delivered[s] \in {Relayed(sent[s]), Append(Relayed(sent[s]), "cleanExit")}
  <2>1. ~open[s] /\ delivered[s] = Then(Relayed(sent[s]), ExitOf(s))
    BY <1>1, AllDelivered
  <2>2. ExitOf(s) \in {<<>>, <<"cleanExit">>} /\ "cleanExit" \in Values
    BY DEF ExitOf, Values
  <2>3. Relayed(sent[s]) \in Seq(Values)
    BY Promised, ValuesJoined
  <2>4. /\ Then(Relayed(sent[s]), <<>>) = Relayed(sent[s])
        /\ Then(Relayed(sent[s]), <<"cleanExit">>) = Append(Relayed(sent[s]), "cleanExit")
    BY <2>2, <2>3, ValuesJoined
  <2> QED BY <2>1, <2>2, <2>4
<1>3. ASSUME "bad" \notin Range(sent["agent"])
      PROVE  Reports \cap Range(delivered["agent"]) # {}
  <2>1. PICK v \in Seq(Values), k \in Reports : delivered["agent"] = Append(v, k)
    <3>1. "agent" \in Streams /\ "event" \in Reports /\ "cleanExit" \in Reports
      BY DEF Streams, Reports
    <3> QED BY <1>1, <1>3, <3>1, AllDelivered
  <2>2. Append(v, k)[Len(v) + 1] = k /\ Len(v) + 1 \in DOMAIN Append(v, k)
    OBVIOUS
  <2> QED BY <2>1, <2>2 DEF Range
<1> QED BY <1>1, <1>2, <1>3, SameStreams DEF Contract!End

\* The goroutines, buffers and closing channels implement Relay: each step accepts,
\* delivers, reports or ends, or is none of the app's business.
THEOREM PipelineImplementsRelay == Spec => ImplementsRelay
<1>1. Init => Contract!Init
  BY DEF Init, Contract!Init
<1>2. TypeOK /\ InHand /\ Written /\ Closing /\ Flow /\ ExitSeen /\ [Next]_vars
        => [Contract!Next]_(Contract!vars)
  <2> SUFFICES ASSUME TypeOK, InHand, Written, Closing, Flow, ExitSeen, [Next]_vars
               PROVE  Contract!Next \/ UNCHANGED Contract!vars
    OBVIOUS
  <2> USE DEF upstream, downstream, appVars, servers, merging, converting, others, tail
  <2>1. CASE Exit
    <3>1. Contract!Exit
      BY <2>1 DEF Exit, Contract!Exit
    <3> QED BY <3>1 DEF Contract!Next
  <2>2. ASSUME NEW s \in Streams, Write(s) PROVE Contract!Next
    BY <2>2, WriteAccepts DEF Contract!Next
  <2>3. ASSUME NEW s \in Streams, CloseStream(s) PROVE Contract!Next
    <3>1. Contract!Close(s)
      BY <2>3 DEF CloseStream, Contract!Close
    <3> QED BY <3>1 DEF Contract!Next
  <2>4. ASSUME NEW s \in Streams, ServerStep(s) PROVE UNCHANGED Contract!vars
    BY <2>4 DEF ServerStep, Read, Decode, DecodeFails, ReadFails, EndOfStream,
                CloseOutput, CloseDone, Forward, MergeDone, Contract!vars
  <2>5. CASE ConverterStep \/ LoaderStep \/ RequesterStep
    BY <2>5 DEF ConverterStep, Convert, Wait, Emit, EndConverter, LoaderStep,
                LoadLeftover, EndLoader, RequesterStep, RequestsFail, ReportFailure,
                CancelRequester, Contract!vars
  <2>6. CASE Serve
    BY <2>6, ServeDelivers DEF Contract!Next
  <2>7. CASE Disconnect
    BY <2>7, DisconnectEnds DEF Contract!Next
  <2>8. CASE UNCHANGED vars
    BY <2>8 DEF vars, Contract!vars
  <2> QED BY <2>1, <2>2, <2>3, <2>4, <2>5, <2>6, <2>7, <2>8 DEF Next, AppStep, ProducerStep
<1> QED BY <1>1, <1>2, FlowAndClosing, ExitSeenHolds, PTL
        DEF Spec, ImplementsRelay, Contract!Spec
=============================================================================
