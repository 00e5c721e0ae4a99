------------------------------ MODULE Pipeline ------------------------------
(***************************************************************************)
(* The goroutines through which the client relays what the app's agent     *)
(* says: agent.Server and agent.DataPointServer decode two socket streams, *)
(* agent.Merge joins them, schema.Converter converts one message at a time *)
(* and, for a report of the app's exit, waits until the app has exited;    *)
(* message.Merge adds the messages of the loader and of the requester; the *)
(* producer serves the result until the chain of closing channels, which   *)
(* begins with the end of the agent's stream, reaches it.                  *)
(*                                                                         *)
(* An unbuffered channel is a rendezvous: one step of sender and receiver. *)
(* Here the data limiter forwards everything and no message is refused or  *)
(* lost on disk; DataLimiter and MessageStore model those parts.           *)
(***************************************************************************)
EXTENDS Stream

CONSTANTS
    AgentKinds,     \* what the agent writes; "bad" is what cannot be decoded
    PointKinds,     \* what is written to the data point socket
    MaxSent,        \* bound: how much is written to each socket
    SocketCap,      \* how much a socket holds
    OutCap,         \* how much the channel of message.Merge holds (10)
    Leftovers       \* how many messages the loader finds

Kinds == {"profile", "event", "applog", "log", "datapoint", "bad"}

ASSUME PipelineAssumption ==
    /\ AgentKinds \subseteq Kinds /\ PointKinds \subseteq {"datapoint", "bad"}
    /\ MaxSent \in Nat /\ Leftovers \in Nat
    /\ SocketCap \in Nat \ {0} /\ OutCap \in Nat \ {0}

Streams == {"agent", "points"}

VARIABLES
    app,            \* the app is running, crashing, or exited
    open,           \* whether a stream's remote end is open
    socket,         \* what was written to a stream and not read
    buf,            \* what the decoder of a stream has read ahead
    srv,            \* what the server of a stream does next
    srvMsg,         \* the message it offers
    err,            \* whether it has seen an error
    errd,           \* whether agent.Server has seen an event
    mrg, mrgMsg,    \* the goroutine of agent.Merge for a stream; its message
    conv, convMsg,  \* what the converter does next; its message
    leftovers,      \* what the loader has yet to send; -1: its channel is closed
    requester,      \* what PeriodicRequester does next
    out,            \* the channel of message.Merge
    producer,       \* whether the producer serves or has disconnected
    sent,           \* history: what was written to a stream
    delivered       \* history: what the producer took, of each stream

appVars == <<app, open, sent>>
servers == <<buf, srv, srvMsg, err, errd>>
merging == <<mrg, mrgMsg>>
converting == <<conv, convMsg>>
others == <<leftovers, requester>>
tail == <<out, producer, delivered>>
upstream == <<appVars, socket, servers>>
downstream == <<converting, others, tail>>
vars == <<upstream, merging, downstream>>

Init ==
    /\ app = "running" /\ open = [s \in Streams |-> TRUE]
    /\ socket = [s \in Streams |-> <<>>] /\ buf = [s \in Streams |-> <<>>]
    /\ srv = [s \in Streams |-> "scan"] /\ srvMsg = [s \in Streams |-> "none"]
    /\ err = [s \in Streams |-> FALSE] /\ errd = FALSE
    /\ mrg = [s \in Streams |-> "receive"] /\ mrgMsg = [s \in Streams |-> "none"]
    /\ conv = "receive" /\ convMsg = [from |-> "none", kind |-> "none"]
    /\ leftovers = Leftovers /\ requester = "running"
    /\ out = <<>> /\ producer = "serving"
    /\ sent = [s \in Streams |-> <<>>] /\ delivered = [s \in Streams |-> <<>>]

-----------------------------------------------------------------------------
(* The app, with the agent library in it.  An event is written by the      *)
(* agent's signal handler: it is the last thing the app does.              *)

Write(s) ==
    /\ app = "running" /\ open[s]
    /\ Len(sent[s]) < MaxSent /\ Len(socket[s]) < SocketCap
    /\ \E k \in IF s = "agent" THEN AgentKinds ELSE PointKinds :
        /\ socket' = [socket EXCEPT ![s] = Append(@, k)]
        /\ sent' = [sent EXCEPT ![s] = Append(@, k)]
        /\ app' = IF k = "event" THEN "crashing" ELSE app
    /\ UNCHANGED <<open, servers, merging, downstream>>

Exit ==
    /\ app # "exited" /\ app' = "exited"
    /\ UNCHANGED <<open, sent, socket, servers, merging, downstream>>

\* A stream ends when every process that holds its remote end has closed it: the
\* app may do so early, and a child of the app may outlive it.
CloseStream(s) ==
    /\ open[s] /\ open' = [open EXCEPT ![s] = FALSE]
    /\ UNCHANGED <<app, sent, socket, servers, merging, downstream>>

-----------------------------------------------------------------------------
(* Server.serve and DataPointServer.serve, with scan.                      *)

\* The decoder reads some of what is there.
Read(s) ==
    /\ srv[s] = "scan" /\ buf[s] = <<>>
    /\ \E n \in 1 .. Len(socket[s]) :
        /\ buf' = [buf EXCEPT ![s] = SubSeq(socket[s], 1, n)]
        /\ socket' = [socket EXCEPT ![s] = SubSeq(@, n + 1, Len(@))]
    /\ UNCHANGED <<appVars, srv, srvMsg, err, errd, merging, downstream>>

\* Mutant of Decode: after an error decoding goes on.
DecodeAfterError(s) ==
    /\ srv[s] = "scan" /\ buf[s] # <<>> /\ Head(buf[s]) # "bad"
    /\ buf' = [buf EXCEPT ![s] = Tail(@)]
    /\ errd' = (errd \/ Head(buf[s]) = "event")
    /\ srv' = [srv EXCEPT ![s] = "send"]
    /\ srvMsg' = [srvMsg EXCEPT ![s] = Head(buf[s])]
    /\ UNCHANGED <<appVars, socket, err, mrg, mrgMsg, downstream>>

\* A value is decoded.  Once err is set it stays set, and nothing is sent.
Decode(s) ==
    /\ srv[s] = "scan" /\ buf[s] # <<>> /\ Head(buf[s]) # "bad"
    /\ buf' = [buf EXCEPT ![s] = Tail(@)]
    /\ errd' = (errd \/ Head(buf[s]) = "event")
    /\ IF err[s] THEN UNCHANGED <<srv, srvMsg>>
       ELSE /\ srv' = [srv EXCEPT ![s] = "send"]
            /\ srvMsg' = [srvMsg EXCEPT ![s] = Head(buf[s])]
    /\ UNCHANGED <<appVars, socket, err, merging, downstream>>

\* An error: a new decoder takes the place of the old one, whose read-ahead is
\* lost; it may begin in the middle of a value.
DecodeFails(s) ==
    /\ srv[s] = "scan" /\ buf[s] # <<>> /\ Head(buf[s]) = "bad"
    /\ err' = [err EXCEPT ![s] = TRUE]
    /\ buf' = [buf EXCEPT ![s] = <<>>]
    /\ \/ UNCHANGED socket
       \/ socket[s] # <<>> /\ socket' = [socket EXCEPT ![s][1] = "bad"]
    /\ UNCHANGED <<appVars, srv, srvMsg, errd, merging, downstream>>

\* The socket of an app that exited with requests unread reports an error before
\* it reports the end of the stream.
ReadFails(s) ==
    /\ s = "agent" /\ srv[s] = "scan" /\ ~err[s]
    /\ buf[s] = <<>> /\ socket[s] = <<>> /\ ~open[s]
    /\ err' = [err EXCEPT ![s] = TRUE]
    /\ UNCHANGED <<appVars, socket, buf, srv, srvMsg, errd, merging, downstream>>

\* Mutant of EndOfStream: the end of the stream is reported also after an event.
EndOfStreamReported(s) ==
    /\ srv[s] = "scan" /\ buf[s] = <<>> /\ socket[s] = <<>> /\ ~open[s]
    /\ IF s = "agent"
       THEN /\ srv' = [srv EXCEPT ![s] = "sendExit"]
            /\ srvMsg' = [srvMsg EXCEPT ![s] = "cleanExit"]
       ELSE srv' = [srv EXCEPT ![s] = "close"] /\ UNCHANGED srvMsg
    /\ UNCHANGED <<appVars, socket, buf, err, errd, merging, downstream>>

\* The end of the stream.  agent.Server reports the exit of an app that has not
\* sent an event.
EndOfStream(s) ==
    /\ srv[s] = "scan" /\ buf[s] = <<>> /\ socket[s] = <<>> /\ ~open[s]
    /\ IF s = "agent" /\ ~errd
       THEN /\ srv' = [srv EXCEPT ![s] = "sendExit"]
            /\ srvMsg' = [srvMsg EXCEPT ![s] = "cleanExit"]
       ELSE srv' = [srv EXCEPT ![s] = "close"] /\ UNCHANGED srvMsg
    /\ UNCHANGED <<appVars, socket, buf, err, errd, merging, downstream>>

\* The deferred calls close the output first and Done after it.
CloseOutput(s) ==
    /\ srv[s] = "close" /\ srv' = [srv EXCEPT ![s] = "closed"]
    /\ UNCHANGED <<appVars, socket, buf, srvMsg, err, errd, merging, downstream>>

\* Mutant of CloseDone: Done closes only after a clean exit.
CloseDoneUnlessEvent ==
    /\ srv["agent"] = "closed" /\ ~errd
    /\ srv' = [srv EXCEPT !["agent"] = "done"]
    /\ UNCHANGED <<appVars, socket, buf, srvMsg, err, errd, merging, downstream>>

CloseDone ==
    /\ srv["agent"] = "closed" /\ srv' = [srv EXCEPT !["agent"] = "done"]
    /\ UNCHANGED <<appVars, socket, buf, srvMsg, err, errd, merging, downstream>>

-----------------------------------------------------------------------------
(* agent.Merge and Converter.serve.                                        *)

\* The server of s sends to its goroutine of agent.Merge.
Forward(s) ==
    /\ srv[s] \in {"send", "sendExit"} /\ mrg[s] = "receive"
    /\ mrg' = [mrg EXCEPT ![s] = "send"]
    /\ mrgMsg' = [mrgMsg EXCEPT ![s] = srvMsg[s]]
    /\ srv' = [srv EXCEPT ![s] = IF srv[s] = "send" THEN "scan" ELSE "close"]
    /\ UNCHANGED <<appVars, socket, buf, srvMsg, err, errd, downstream>>

MergeDone(s) ==
    /\ srv[s] \in {"closed", "done"} /\ mrg[s] = "receive"
    /\ mrg' = [mrg EXCEPT ![s] = "done"]
    /\ UNCHANGED <<upstream, mrgMsg, downstream>>

\* Mutants of Convert: the report of an exit does not wait for the exit; every
\* message waits for it.
ConvertAtOnce(s) ==
    /\ mrg[s] = "send" /\ conv = "receive"
    /\ mrg' = [mrg EXCEPT ![s] = "receive"]
    /\ conv' = IF mrgMsg[s] \in Logs THEN "receive" ELSE "send"
    /\ convMsg' = [from |-> s, kind |-> mrgMsg[s]]
    /\ UNCHANGED <<upstream, mrgMsg, others, tail>>

ConvertWaits(s) ==
    /\ mrg[s] = "send" /\ conv = "receive"
    /\ mrg' = [mrg EXCEPT ![s] = "receive"]
    /\ conv' = IF mrgMsg[s] \in Logs THEN "receive" ELSE "wait"
    /\ convMsg' = [from |-> s, kind |-> mrgMsg[s]]
    /\ UNCHANGED <<upstream, mrgMsg, others, tail>>

\* The converter takes a message.  Logs are dropped, and the report of an exit
\* needs the exit status: exec.Wait.
Convert(s) ==
    /\ mrg[s] = "send" /\ conv = "receive"
    /\ mrg' = [mrg EXCEPT ![s] = "receive"]
    /\ conv' = IF mrgMsg[s] \in Logs THEN "receive"
               ELSE IF mrgMsg[s] \in Reports THEN "wait"
               ELSE "send"
    /\ convMsg' = [from |-> s, kind |-> mrgMsg[s]]
    /\ UNCHANGED <<upstream, mrgMsg, others, tail>>

Wait ==
    /\ conv = "wait" /\ app = "exited"
    /\ conv' = "send"
    /\ UNCHANGED <<upstream, merging, convMsg, others, tail>>

Emit ==
    /\ conv = "send" /\ Len(out) < OutCap
    /\ out' = Append(out, convMsg) /\ conv' = "receive"
    /\ UNCHANGED <<upstream, merging, convMsg, others, producer, delivered>>

\* Mutant of EndConverter: agent.Merge closes when one of its sources has.
EndConverterEarly ==
    /\ conv = "receive" /\ \E s \in Streams : mrg[s] = "done"
    /\ conv' = "closed"
    /\ UNCHANGED <<upstream, merging, convMsg, others, tail>>

EndConverter ==
    /\ conv = "receive" /\ \A s \in Streams : mrg[s] = "done"
    /\ conv' = "closed"
    /\ UNCHANGED <<upstream, merging, convMsg, others, tail>>

-----------------------------------------------------------------------------
(* The loader and the requester.                                           *)

\* Mutant of LoadLeftover: the channel never fills up.
LoadLeftoverUnbounded ==
    /\ leftovers > 0 /\ leftovers' = leftovers - 1
    /\ out' = Append(out, [from |-> "loader", kind |-> "leftover"])
    /\ UNCHANGED <<upstream, merging, converting, requester, producer, delivered>>

LoadLeftover ==
    /\ leftovers > 0 /\ Len(out) < OutCap
    /\ leftovers' = leftovers - 1
    /\ out' = Append(out, [from |-> "loader", kind |-> "leftover"])
    /\ UNCHANGED <<upstream, merging, converting, requester, producer, delivered>>

EndLoader ==
    /\ leftovers = 0 /\ leftovers' = -1
    /\ UNCHANGED <<upstream, merging, converting, requester, tail>>

\* Writing requests fails twice; the requester reports it and ends.
RequestsFail ==
    /\ requester = "running" /\ ~open["agent"]
    /\ requester' = "failed"
    /\ UNCHANGED <<upstream, merging, converting, leftovers, tail>>

ReportFailure ==
    /\ requester = "failed" /\ Len(out) < OutCap
    /\ out' = Append(out, [from |-> "requester", kind |-> "error"])
    /\ requester' = "closed"
    /\ UNCHANGED <<upstream, merging, converting, leftovers, producer, delivered>>

\* The server's Done channel is closed.
CancelRequester ==
    /\ requester = "running" /\ srv["agent"] = "done"
    /\ requester' = "closed"
    /\ UNCHANGED <<upstream, merging, converting, leftovers, tail>>

-----------------------------------------------------------------------------
(* message.Merge, the limiter and MQTTProducer.Serve.                      *)

Serve ==
    /\ producer = "serving" /\ out # <<>>
    /\ out' = Tail(out)
    /\ delivered' = IF Head(out).from \in Streams
                    THEN [delivered EXCEPT ![Head(out).from] =
                            Append(@, Head(out).kind)]
                    ELSE delivered
    /\ UNCHANGED <<upstream, merging, converting, others, producer>>

\* Every source of message.Merge has closed and its channel is empty.
Disconnect ==
    /\ producer = "serving" /\ out = <<>>
    /\ conv = "closed" /\ leftovers = -1 /\ requester = "closed"
    /\ producer' = "disconnected"
    /\ UNCHANGED <<upstream, merging, converting, others, out, delivered>>

AppStep == Exit \/ \E s \in Streams : Write(s) \/ CloseStream(s)

\* The server of a stream, with its goroutine of agent.Merge.
ServerStep(s) ==
    \/ Read(s) \/ Decode(s) \/ DecodeFails(s) \/ ReadFails(s) \/ EndOfStream(s)
    \/ CloseOutput(s) \/ Forward(s) \/ MergeDone(s)
    \/ s = "agent" /\ CloseDone

ConverterStep == Wait \/ Emit \/ EndConverter \/ \E s \in Streams : Convert(s)

LoaderStep == LoadLeftover \/ EndLoader

RequesterStep == RequestsFail \/ ReportFailure \/ CancelRequester

ProducerStep == Serve \/ Disconnect

Next ==
    \/ AppStep
    \/ \E s \in Streams : ServerStep(s)
    \/ ConverterStep \/ LoaderStep \/ RequesterStep \/ ProducerStep

Spec == Init /\ [][Next]_vars

\* Goroutines are scheduled, and of those that wait to send on one channel each
\* gets its turn: hence SF.  The requester may have nothing to write: that it fails
\* is not assumed.  An app that handles a crash exits, and the streams of an app
\* that has exited end (its children end, too).
Fairness ==
    /\ \A s \in Streams :
        WF_vars(ServerStep(s)) /\ WF_vars(app = "exited" /\ CloseStream(s))
    /\ SF_vars(ConverterStep) /\ SF_vars(LoaderStep)
    /\ SF_vars(ReportFailure \/ CancelRequester)
    /\ WF_vars(ProducerStep)
    /\ WF_vars(app = "crashing" /\ Exit)

FairSpec == Spec /\ Fairness

-----------------------------------------------------------------------------
(* Properties.                                                             *)

Messages == [from : Streams, kind : Kinds \cup {"cleanExit"}]
            \cup {[from |-> "loader", kind |-> "leftover"],
                  [from |-> "requester", kind |-> "error"]}

\* Every variable has its type, and sockets and channels keep to their capacity.
TypeOK ==
    /\ app \in {"running", "crashing", "exited"} /\ open \in [Streams -> BOOLEAN]
    /\ socket \in [Streams -> Seq(Kinds)] /\ buf \in [Streams -> Seq(Kinds)]
    /\ \A s \in Streams : Len(socket[s]) <= SocketCap /\ Len(buf[s]) <= SocketCap
    /\ srv \in [Streams -> {"scan", "send", "sendExit", "close", "closed", "done"}]
    /\ srvMsg \in [Streams -> Kinds \cup {"cleanExit", "none"}]
    /\ err \in [Streams -> BOOLEAN] /\ errd \in BOOLEAN
    /\ mrg \in [Streams -> {"receive", "send", "done"}]
    /\ mrgMsg \in [Streams -> Kinds \cup {"cleanExit", "none"}]
    /\ conv \in {"receive", "wait", "send", "closed"}
    /\ convMsg \in Messages \cup {[from |-> "none", kind |-> "none"]}
    /\ leftovers \in -1 .. Leftovers
    /\ requester \in {"running", "failed", "closed"}
    /\ out \in Seq(Messages) /\ Len(out) <= OutCap
    /\ producer \in {"serving", "disconnected"}
    /\ sent \in [Streams -> Seq(Kinds)]
    /\ delivered \in [Streams -> Seq(Kinds \cup {"cleanExit"})]

\* The client relays the streams: each of its steps accepts, delivers or reports one
\* value, or is none of the app's business.
Contract == INSTANCE Relay WITH
    exited <- app = "exited", ended <- producer = "disconnected"

ImplementsRelay == Contract!Spec

\* Of each stream the producer gets what the app wrote, in that order, without
\* loss or duplicate, all of it before the producer disconnects; after it at
\* most the report of the exit that agent.Server itself makes.
StreamsRelayed ==
    \A s \in Streams :
        LET all == Relayed(sent[s])
        IN  /\ \/ IsPrefix(delivered[s], all)
               \/ s = "agent" /\ delivered[s] = Append(all, "cleanExit")
            /\ producer = "disconnected" => Len(delivered[s]) >= Len(all)

\* A report tells the exit status: it is not delivered before the app has exited.
ExitAwaited ==
    \A i \in DOMAIN delivered["agent"] :
        delivered["agent"][i] \in Reports => app = "exited"

\* The exit of the app is reported at most once.  If all of the agent's stream could
\* be decoded there is a report: the app's own, or else the one of agent.Server.
ExitReported ==
    LET said == delivered["agent"]
        reports == {i \in DOMAIN said : said[i] \in Reports}
        last == IF "event" \in Range(sent["agent"]) THEN "event" ELSE "cleanExit"
    IN  /\ \A i, j \in reports : i = j
        /\ producer = "disconnected" /\ "bad" \notin Range(sent["agent"]) =>
            \E i \in reports : said[i] = last

\* The client ends after the app: once the app has exited, the chain of closing
\* channels reaches the producer, whatever was in the pipeline.
ShutdownCompletes == app = "exited" ~> producer = "disconnected"

\* The client does not block the app: a full socket is read, unless the app has
\* closed its other stream and goes on, for then the converter waits for it.
SocketsRead ==
    \A s \in Streams :
        Len(socket[s]) = SocketCap ~> (Len(socket[s]) < SocketCap \/ ~open["agent"])

\* README.md:17, "Automatic crash reporting": an event that the agent wrote is
\* reported.
CrashReported ==
    producer = "disconnected" /\ "event" \in Range(sent["agent"])
        => "event" \in Range(delivered["agent"])
=============================================================================
