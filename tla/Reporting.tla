------------------------------ MODULE Reporting ------------------------------
(***************************************************************************)
(* What becomes of one message of the agent, in each of the three forms in *)
(* which main.go runs the client.  As "client" and as "serial" the         *)
(* converter (schema) describes the message, adds the exit status and the  *)
(* metrics of device.Monitor to a report of the app's exit, saves it (only *)
(* as "client") and sends it to message.Merge, from where it is published  *)
(* or written as a line; a "dumper" prints what the agent says as it is.   *)
(*                                                                         *)
(* Servers and mergers are in Pipeline, the message directory is in        *)
(* MessageStore: here messages arrive one by one, and saving may fail.     *)
(***************************************************************************)
EXTENDS Integers, SequencesExt

CONSTANTS
    Forms,          \* the forms the client is run in
    Arrivals,       \* the kinds of messages that may arrive
    MaxArrivals,    \* bound: how many do
    OutCap,         \* how much the channel of message.Merge holds (10)
    Wrap,           \* the network counters wrap here (2^64)
    None            \* no rate: the message has no metrics

\* Reports of the app's exit, and all kinds of messages.  "bad" stands for data with
\* the wrong type, or no JSON; "unknown" is any other type.
ExitKinds == {"event", "badEvent", "cleanExit"}
Kinds == ExitKinds \cup {"profile", "badProfile", "applog", "log", "datapoint",
                        "badPayload", "badDatapoint", "unknown"}

ASSUME ReportingAssumption ==
    /\ Forms \subseteq {"client", "serial", "dumper"} /\ Arrivals \subseteq Kinds
    /\ MaxArrivals \in Nat /\ OutCap \in Nat \ {0}
    /\ Wrap \in Nat \ {0, 1} /\ None \notin Int

VARIABLES
    form,           \* how the client is run
    app,            \* whether the app is running or has exited
    source,         \* whether the agent's messages have ended
    arrived,        \* history: the kinds that arrived
    conv, draft,    \* what the converter does next; the message it makes
    rate,           \* the rate among the metrics of a report
    mon,            \* what the monitor does next
    total,          \* the network counter of the system
    cur, prev,      \* the monitor's samples of it
    traffic,        \* history: bytes since the last sample; -1: nobody knows
    interval,       \* history: bytes between the last two; -1: the same
    requester,      \* what PeriodicRequester does next
    out,            \* the channel of message.Merge
    sink,           \* whether the loop at the end of run goes on
    lines,          \* history: what left the client
    lost            \* history: the messages that were dropped, or not passed on

process == <<form, app>>
agent == <<source, arrived>>
counters == <<total, traffic>>
sampled == <<cur, prev, interval>>
monitor == <<mon, sampled>>
device == <<monitor, counters>>
converter == <<conv, draft, rate>>
ends == <<sink, lines, lost>>
vars == <<process, agent, converter, device, requester, out, ends>>

\* broker.Message number n: whether there is anything in Bytes, whether an error is
\* in them, and whether Error is set.
Message(n, full, tells, error) ==
    [n |-> n, full |-> full, tells |-> tells, error |-> error]

\* The converter has no message in hand.
noMessage == Message(0, FALSE, FALSE, FALSE)

\* convert, for message n of kind k.  metadata, assigned last, overwrites the error
\* of a profile or an event that could not be decoded.
Converted(n, k) ==
    Message(n, k # "unknown", k \in {"badPayload", "badDatapoint"}, k = "unknown")

\* What stands for a message the persistor refused.
Refusal(n) == Message(n, FALSE, FALSE, TRUE)

\* The message of the requester, which says why it ended.
requesterError == Message(0, FALSE, FALSE, TRUE)

\* Mutant of Diff: what looks negative counts nothing.
DiffClamped == IF cur < prev THEN 0 ELSE cur - prev

\* diff: the difference of two unsigned counters.
Diff == (cur - prev) % Wrap

Init ==
    /\ form \in Forms /\ app = "running" /\ source = "open" /\ arrived = <<>>
    /\ conv = IF form = "dumper" THEN "none" ELSE "receive"
    /\ mon = IF form = "dumper" THEN "none" ELSE "update"
    /\ draft = noMessage /\ rate = None
    /\ total \in 0 .. Wrap - 1 /\ traffic = -1
    /\ cur = 0 /\ prev = 0 /\ interval = -1
    /\ requester = "running" /\ out = <<>>
    /\ sink = "serving" /\ lines = <<>> /\ lost = {}

-----------------------------------------------------------------------------
(* The system, the app and the agent.                                      *)

\* Bound: fewer bytes than the counters can tell, between two samples.
Traffic ==
    /\ traffic \in 0 .. Wrap - 2
    /\ total' = (total + 1) % Wrap /\ traffic' = traffic + 1
    /\ UNCHANGED <<process, agent, converter, monitor, requester, out, ends>>

\* A network interface goes away, and what it had counted.
InterfaceRemoved ==
    /\ total > 0 /\ total' \in 0 .. total - 1 /\ traffic' = -1
    /\ UNCHANGED <<process, agent, converter, monitor, requester, out, ends>>

Exit ==
    /\ app = "running" /\ app' = "exited"
    /\ UNCHANGED <<form, agent, converter, device, requester, out, ends>>

\* A message arrives: the agent reports one exit at most.
Arrive(k) ==
    /\ source = "open" /\ Len(arrived) < MaxArrivals
    /\ k \in ExitKinds => ExitKinds \cap Range(arrived) = {}
    /\ arrived' = Append(arrived, k)

EndSource ==
    /\ source = "open" /\ source' = "ended"
    /\ UNCHANGED <<process, arrived, converter, device, requester, out, ends>>

-----------------------------------------------------------------------------
(* Monitor.serve.                                                          *)

\* The first update, and the one at each tick; it may fail, and keeps the samples
\* it has.
Update ==
    /\ mon \in {"update", "select"} /\ mon' = "select"
    /\ \/ /\ prev' = cur /\ cur' = total
          /\ interval' = traffic /\ traffic' = 0
       \/ UNCHANGED <<sampled, traffic>>
    /\ UNCHANGED <<process, agent, converter, total, requester, out, ends>>

Stop ==
    /\ mon = "select" /\ conv \in {"close", "closed"} /\ mon' = "closed"
    /\ UNCHANGED <<process, agent, converter, sampled, counters, requester, out,
                   ends>>

-----------------------------------------------------------------------------
(* Converter.serve, with convert.                                          *)

\* Logs are dropped; the report of an exit waits for it.
Receive ==
    /\ conv = "receive"
    /\ \E k \in Arrivals :
        /\ Arrive(k)
        /\ draft' = IF k \in {"applog", "log"} THEN noMessage
                    ELSE Converted(Len(arrived'), k)
        /\ conv' = IF k \in {"applog", "log"} THEN "receive"
                   ELSE IF k \in ExitKinds THEN "wait"
                   ELSE "save"
    /\ UNCHANGED <<process, source, rate, device, requester, out, ends>>

Wait ==
    /\ conv = "wait" /\ app = "exited" /\ conv' = "measure"
    /\ UNCHANGED <<process, agent, draft, rate, device, requester, out, ends>>

\* GetMetrics receives from ioRates: a closed channel yields zero.
Measure ==
    /\ conv = "measure" /\ mon \in {"select", "closed"}
    /\ rate' = IF mon = "closed" THEN 0 ELSE Diff
    /\ conv' = "save"
    /\ UNCHANGED <<process, agent, draft, device, requester, out, ends>>

\* Mutant of Save: the message that was refused is sent as well.
SaveAndSend ==
    /\ conv = "save" /\ conv' = "send"
    /\ \/ UNCHANGED out
       \/ form = "client" /\ Len(out) < OutCap /\ out' = Append(out, Refusal(draft.n))
    /\ UNCHANGED <<process, agent, draft, rate, device, requester, ends>>

\* CreateMessage may refuse the message; without a persistor there is none.
Save ==
    /\ conv = "save" /\ conv' = "send"
    /\ \/ UNCHANGED draft
       \/ form = "client" /\ draft' = Refusal(draft.n)
    /\ UNCHANGED <<process, agent, rate, device, requester, out, ends>>

\* Mutant of Send: the channel never fills up.
SendUnbounded ==
    /\ conv = "send"
    /\ out' = Append(out, draft) /\ conv' = "receive"
    /\ draft' = noMessage /\ rate' = None
    /\ UNCHANGED <<process, agent, device, requester, ends>>

Send ==
    /\ conv = "send" /\ Len(out) < OutCap
    /\ out' = Append(out, draft) /\ conv' = "receive"
    /\ draft' = noMessage /\ rate' = None
    /\ UNCHANGED <<process, agent, device, requester, ends>>

\* The deferred calls: the monitor is closed first, the output after it.
CloseMonitor ==
    /\ conv = "receive" /\ source = "ended"
    /\ conv' = "close"
    /\ UNCHANGED <<process, agent, draft, rate, device, requester, out, ends>>

CloseOutput ==
    /\ conv = "close" /\ conv' = "closed"
    /\ UNCHANGED <<process, agent, draft, rate, device, requester, out, ends>>

-----------------------------------------------------------------------------
(* PeriodicRequester: its output has a reader, unless it is a dumper's.    *)

RequestsFail ==
    /\ requester = "running" /\ requester' = "failed"
    /\ UNCHANGED <<process, agent, converter, device, out, ends>>

ReportFailure ==
    /\ requester = "failed" /\ form # "dumper" /\ Len(out) < OutCap
    /\ out' = Append(out, requesterError) /\ requester' = "closed"
    /\ UNCHANGED <<process, agent, converter, device, ends>>

\* The agent's stream has ended, maybe before the data points.
CancelRequester ==
    /\ requester = "running" /\ requester' = "closed"
    /\ UNCHANGED <<process, agent, converter, device, out, ends>>

-----------------------------------------------------------------------------
(* The loops at the end of the three forms of run.                         *)

\* The first message in the channel leaves it: it leaves the client, or it does not.
PassOn == out' = Tail(out) /\ lines' = Append(lines, Head(out)) /\ UNCHANGED lost

Lose == out' = Tail(out) /\ lost' = lost \cup {Head(out).n} /\ UNCHANGED lines

\* The data limiter, between the channel and the producer, is over budget.
LimiterDrop ==
    /\ form = "client" /\ out # <<>> /\ Lose
    /\ UNCHANGED <<process, agent, converter, device, requester, sink>>

\* MQTTProducer.Serve publishes Bytes, and nothing else.  A publication that fails,
\* and may have reached the broker all the same, is not repeated.
Publish ==
    /\ form = "client" /\ out # <<>> /\ (PassOn \/ Lose)
    /\ UNCHANGED <<process, agent, converter, device, requester, sink>>

\* tryWrite opens the device for each line; a line that cannot be written is lost.
WriteLine ==
    /\ form = "serial" /\ out # <<>> /\ (PassOn \/ Lose)
    /\ UNCHANGED <<process, agent, converter, device, requester, sink>>

Dump ==
    /\ form = "dumper"
    /\ \E k \in Arrivals :
        /\ Arrive(k)
        /\ lines' = Append(lines, Message(Len(arrived'), TRUE, FALSE, FALSE))
    /\ UNCHANGED <<process, source, converter, device, requester, out, sink, lost>>

\* Mutant of End: a dumper waits for the requester, too.
EndAfterRequester ==
    /\ sink = "serving" /\ requester = "closed" /\ sink' = "ended"
    /\ \/ form = "dumper" /\ source = "ended"
       \/ conv = "closed" /\ out = <<>>
    /\ UNCHANGED <<process, agent, converter, device, requester, out, lines, lost>>

\* The channel a loop reads is closed and empty; run returns.
End ==
    /\ sink = "serving" /\ sink' = "ended"
    /\ \/ form = "dumper" /\ source = "ended"
       \/ conv = "closed" /\ requester = "closed" /\ out = <<>>
    /\ UNCHANGED <<process, agent, converter, device, requester, out, lines, lost>>

EnvironmentStep == Traffic \/ InterfaceRemoved \/ Exit \/ EndSource

MonitorStep == Update \/ Stop

ConverterStep ==
    \/ Receive \/ Wait \/ Measure \/ Save \/ Send
    \/ CloseMonitor \/ CloseOutput

RequesterStep == RequestsFail \/ ReportFailure \/ CancelRequester

SinkStep == LimiterDrop \/ Publish \/ WriteLine \/ Dump \/ End

Next ==
    \/ EnvironmentStep \/ MonitorStep \/ ConverterStep \/ RequesterStep \/ SinkStep

Spec == Init /\ [][Next]_vars

\* Goroutines are scheduled, and a publication ends, well or badly; the branches of
\* a select, and those that wait to send on one channel, get their turn: hence SF.
\* Whether writing requests fails, and when the app exits, is open.
Fairness ==
    /\ WF_vars(mon = "update" /\ Update) /\ SF_vars(Stop) /\ SF_vars(Measure)
    /\ WF_vars(Wait \/ Save \/ CloseMonitor \/ CloseOutput)
    /\ SF_vars(Send) /\ SF_vars(ReportFailure)
    /\ WF_vars(source = "ended" /\ CancelRequester)
    /\ WF_vars(Publish) /\ WF_vars(WriteLine) /\ WF_vars(End)

FairSpec == Spec /\ Fairness

-----------------------------------------------------------------------------
(* Properties.                                                             *)

Messages == [n : 0 .. MaxArrivals, full : BOOLEAN, tells : BOOLEAN, error : BOOLEAN]

\* Every variable has its type, and the channel keeps to its capacity.
TypeOK ==
    /\ form \in Forms /\ app \in {"running", "exited"} /\ source \in {"open", "ended"}
    /\ arrived \in Seq(Arrivals) /\ Len(arrived) <= MaxArrivals
    /\ conv \in {"none", "receive", "wait", "measure", "save", "send",
                 "close", "closed"}
    /\ draft \in Messages /\ rate \in 0 .. Wrap - 1 \cup {None}
    /\ mon \in {"none", "update", "select", "closed"}
    /\ {total, cur, prev} \subseteq 0 .. Wrap - 1
    /\ {traffic, interval} \subseteq -1 .. Wrap - 1
    /\ requester \in {"running", "failed", "closed"}
    /\ out \in Seq(Messages) /\ Len(out) <= OutCap
    /\ sink \in {"serving", "ended"} /\ lines \in Seq(Messages)
    /\ lost \subseteq 0 .. MaxArrivals

\* device.go:59, rates: once there are two samples, the rate in a report is the
\* traffic between the last two, also when the counter wrapped, a sample failed, or the
\* agent has already ended; unless nobody knows, as an interface was removed.
RateIsTraffic ==
    [][conv = "measure" /\ conv' = "save" /\ interval # -1
        => rate' = interval]_vars

\* What was passed on, in this order; the messages that are to be; and the one the
\* converter has in hand.
Passed == lines \o out

Expected ==
    {n \in DOMAIN arrived : form = "dumper" \/ arrived[n] \notin {"applog", "log"}}

InHand ==
    IF conv \in {"none", "receive", "close", "closed"} THEN {} ELSE {draft.n}

\* Every message but a log has one outcome, until the one the converter has in hand.
\* It is passed on, once, in the order of arrival, itself or the error that refused
\* it, never both.  Or it is lost, and nothing of it was passed on: by the limiter,
\* by a publication that failed, or as a line that could not be written.
OneOutcomeEach ==
    /\ \A i, j \in DOMAIN Passed :
        i < j /\ Passed[i].n > 0 /\ Passed[j].n > 0 => Passed[i].n < Passed[j].n
    /\ \A i \in DOMAIN Passed : Passed[i].n > 0 => Passed[i].n \notin lost
    /\ ({m.n : m \in Range(Passed)} \cup lost) \ {0} = Expected \ InHand

\* The client ends: once the agent's messages have ended and the app has exited, run
\* returns, in each form, whatever fails: a converter that waits for metrics
\* gets them, a line is tried once, nobody waits for a requester.
RunEnds == (source = "ended" /\ app = "exited") ~> sink = "ended"

\* convert.go:104, "Let the backend know we ran out of local storage.": what is
\* published of a message with an error tells the error.
ErrorsReachBackend ==
    \A i \in DOMAIN lines :
        form = "client" /\ lines[i].n > 0 /\ lines[i].error => lines[i].tells
=============================================================================
