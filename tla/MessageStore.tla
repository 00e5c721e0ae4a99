----------------------------- MODULE MessageStore -----------------------------
(***************************************************************************)
(* The message persistence layer of broker/message.go, and the goroutines  *)
(* that share its directory: the converter (schema/convert.go) saves each  *)
(* message before it sends it on, the loader sends what earlier runs of    *)
(* the client left, and the MQTT producer (broker/mqtt.go) removes what    *)
(* the broker acknowledged.  Between them lie the merger, a bounded queue, *)
(* and the data limiter, which forwards a message or drops it (DataLimiter *)
(* says when).                                                             *)
(*                                                                         *)
(* Each system call is a step of its own, and the client may die between   *)
(* any two.  The operating system survives: what was written stays.        *)
(***************************************************************************)
EXTENDS Integers, Sequences, FiniteSetsExt, Functions

CONSTANTS
    Msgs,           \* the messages the agent sends
    Length,         \* the length of each one's payload
    Overhead,       \* the size of the JSON around the encoded payload
    Pids,           \* process identifiers
    PidOf,          \* the process identifier of each run of the client
    MaxRuns,        \* bound: runs of the client after the first one
    Limits,         \* storage limits the backend may send; NoLimit is nil
    PipeCap,        \* how many messages the channels to the producer hold
    DiskFails,      \* whether a system call of the disk may fail
    LimiterDrops,   \* whether the data limiter drops messages
    NoMsg,          \* the message an undecodable file, or an error, stands for
    NoPath,         \* the path of a message that was never saved
    NoLimit

ASSUME StoreAssumption ==
    /\ Length \in [Msgs -> Nat] /\ Overhead \in Nat
    /\ MaxRuns \in Nat /\ PidOf \in [0 .. MaxRuns -> Pids]
    /\ Limits \subseteq Nat \cup {NoLimit} /\ NoLimit \notin Int
    /\ PipeCap \in Nat \ {0}
    /\ DiskFails \in BOOLEAN /\ LimiterDrops \in BOOLEAN
    /\ NoMsg \notin Msgs /\ NoPath \notin Pids \X Nat

VARIABLES
    files,          \* the message directory: a function from paths to contents
    run,            \* how often the client was restarted
    count,          \* Persistor.count
    limit, newLimit,            \* Persistor.limit; the channel newLimit
    todo,           \* the messages the agent has not sent yet
    conv,           \* what the converter does next
    msg, path, lim, unsized, used, statFailed,  \* its locals
    loader,         \* what the loader does next
    toLoad, loaded, \* the paths it has yet to read, the message it offers
    pipe,           \* the messages between the sources and the producer
    producer, sending,          \* what the producer does next, and with what
    stored,         \* history: messages that were saved without an error
    early,          \* history: paths that were read before a message was saved there
    misread,        \* history: paths of saved messages that could not be read
    unseen,         \* history: whether the converter took the directory for missing
    published       \* history: messages the broker received

storage == <<limit, newLimit>>
converter == <<count, todo, conv, msg, path, lim, unsized, used, statFailed>>
loading == <<loader, toLoad, loaded>>
sender == <<producer, sending>>
history == <<stored, early, misread, unseen, published>>
vars == <<files, run, storage, converter, loading, pipe, sender, history>>

Paths == Pids \X Nat

\* A message in memory, and the contents of a file: the decoded message.
Items == [path : Paths \cup {NoPath}, msg : Msgs \cup {NoMsg}]
Contents == [msg : Msgs \cup {NoMsg}, size : Nat]

\* The file that holds m: JSON, with the payload in base64.
FileSize(m) == Overhead + 4 * ((Length[m] + 2) \div 3)

\* A file that was created, or not completely written.
Torn(n) == [msg |-> NoMsg, size |-> n]

\* A message with an error text and without a file.
errorItem == [path |-> NoPath, msg |-> NoMsg]

\* The function f, with x mapped to y.
With(f, x, y) == [z \in DOMAIN f \cup {x} |-> IF z = x THEN y ELSE f[z]]

Init ==
    /\ files = [p \in {} |-> Torn(0)] /\ run = 0 /\ todo = Msgs
    /\ count = 0 /\ limit = NoLimit /\ newLimit = {}
    /\ conv = "idle" /\ msg = NoMsg /\ path = NoPath /\ lim = NoLimit
    /\ unsized = {} /\ used = 0 /\ statFailed = FALSE
    /\ loader = "start" /\ toLoad = {} /\ loaded = errorItem
    /\ pipe = <<>> /\ producer = "idle" /\ sending = errorItem
    /\ stored = {} /\ early = {} /\ misread = {} /\ unseen = FALSE /\ published = {}

-----------------------------------------------------------------------------
(* Persistor.serve, which hands out the current limit and takes new ones.  *)

PollStorage ==
    /\ newLimit = {}
    /\ \E l \in Limits : newLimit' = {l}
    /\ UNCHANGED <<files, run, limit, converter, loading, pipe, sender, history>>

SetLimit ==
    /\ \E l \in newLimit : limit' = l
    /\ newLimit' = {}
    /\ UNCHANGED <<files, run, converter, loading, pipe, sender, history>>

-----------------------------------------------------------------------------
(* Converter.serve, with CreateMessage, size, save and WriteFile.          *)

Convert ==
    /\ conv = "idle"
    /\ \E m \in todo : msg' = m /\ todo' = todo \ {m}
    /\ conv' = "limit"
    /\ UNCHANGED <<files, run, storage, count, path, lim, unsized, used,
                   statFailed, loading, pipe, sender, history>>

TakeLimit ==
    /\ conv = "limit" /\ conv' = "list"
    /\ lim' = limit
    /\ UNCHANGED <<files, run, storage, count, todo, msg, path, unsized, used,
                   statFailed, loading, pipe, sender, history>>

\* filepaths, called by size: opening the directory or reading it may fail.  A Stat of
\* the directory that fails is taken for a directory that is missing, thus empty.
ListFiles ==
    /\ conv = "list"
    /\ used' = 0
    /\ \/ /\ conv' = "size" /\ statFailed' = FALSE
          /\ \/ unsized' = DOMAIN files /\ unseen' = FALSE
             \/ DiskFails /\ unsized' = {} /\ unseen' = TRUE
       \/ DiskFails /\ conv' = "refuse" /\ UNCHANGED <<unsized, statFailed, unseen>>
    /\ UNCHANGED <<files, run, storage, count, todo, msg, path, lim, loading,
                   pipe, sender, stored, early, misread, published>>

\* Mutant of StatFile: a file whose size is not known counts nothing.
StatFileLenient ==
    /\ conv = "size"
    /\ \E p \in unsized :
        /\ unsized' = unsized \ {p}
        /\ \/ p \in DOMAIN files /\ used' = used + files[p].size
           \/ (p \notin DOMAIN files \/ DiskFails) /\ UNCHANGED used
    /\ UNCHANGED <<files, run, storage, count, todo, conv, msg, path, lim,
                   statFailed, loading, pipe, sender, history>>

\* Stat of one listed file, which the producer may have removed meanwhile.
StatFile ==
    /\ conv = "size"
    /\ \E p \in unsized :
        /\ unsized' = unsized \ {p}
        /\ \/ p \in DOMAIN files /\ used' = used + files[p].size
              /\ UNCHANGED statFailed
           \/ (p \notin DOMAIN files \/ DiskFails) /\ statFailed' = TRUE
              /\ UNCHANGED used
    /\ UNCHANGED <<files, run, storage, count, todo, conv, msg, path, lim,
                   loading, pipe, sender, history>>

\* Whether CreateMessage refuses the message: size failed, or 90% of the limit
\* would be exceeded.
Refused ==
    \/ statFailed
    \/ lim # NoLimit /\ Length[msg] + used > (9 * lim) \div 10

\* Mutant of Admit: the next message gets the same name.
AdmitSamePath ==
    /\ conv = "size" /\ unsized = {}
    /\ IF Refused
       THEN conv' = "refuse" /\ UNCHANGED path
       ELSE conv' = "create" /\ path' = <<PidOf[run], count>>
    /\ UNCHANGED <<files, run, storage, count, todo, msg, lim, unsized, used,
                   statFailed, loading, pipe, sender, history>>

Admit ==
    /\ conv = "size" /\ unsized = {}
    /\ IF Refused
       THEN conv' = "refuse" /\ UNCHANGED <<path, count>>
       ELSE /\ conv' = "create"
            /\ path' = <<PidOf[run], count>> /\ count' = count + 1
    /\ UNCHANGED <<files, run, storage, todo, msg, lim, unsized, used,
                   statFailed, loading, pipe, sender, history>>

\* OpenFile creates the file or truncates the one that is there.
OpenFile ==
    /\ conv = "create"
    /\ \/ conv' = "write" /\ files' = With(files, path, Torn(0))
       \/ DiskFails /\ conv' = "refuse" /\ UNCHANGED files
    /\ UNCHANGED <<run, storage, count, todo, msg, path, lim, unsized, used,
                   statFailed, loading, pipe, sender, history>>

\* The file may have been removed: Write still succeeds, but nobody sees it.
WriteFile ==
    /\ conv = "write"
    /\ \/ /\ conv' = "emit"
          /\ files' = IF path \in DOMAIN files
                      THEN [files EXCEPT ![path] = [msg |-> msg,
                                                    size |-> FileSize(msg)]]
                      ELSE files
          /\ stored' = stored \cup {[path |-> path, msg |-> msg]}
       \/ /\ DiskFails /\ conv' = "refuse"
          /\ \E n \in 0 .. FileSize(msg) - 1 :
                files' = IF path \in DOMAIN files
                         THEN [files EXCEPT ![path] = Torn(n)] ELSE files
          /\ UNCHANGED stored
    /\ unseen' = FALSE
    /\ UNCHANGED <<run, storage, count, todo, msg, path, lim, unsized, used,
                   statFailed, loading, pipe, sender, early, misread, published>>

\* Mutant of Emit: the channels never fill up.
EmitUnbounded ==
    /\ conv \in {"emit", "refuse"} /\ conv' = "idle"
    /\ pipe' = Append(pipe, IF conv = "emit"
                            THEN [path |-> path, msg |-> msg] ELSE errorItem)
    /\ UNCHANGED <<files, run, storage, count, todo, msg, path, lim, unsized,
                   used, statFailed, loading, sender, history>>

\* The converter sends the message, or the error that refused it.
Emit ==
    /\ conv \in {"emit", "refuse"} /\ Len(pipe) < PipeCap
    /\ pipe' = Append(pipe, IF conv = "emit"
                            THEN [path |-> path, msg |-> msg] ELSE errorItem)
    /\ conv' = "idle"
    /\ UNCHANGED <<files, run, storage, count, todo, msg, path, lim, unsized,
                   used, statFailed, loading, sender, history>>

-----------------------------------------------------------------------------
(* The goroutine of load.                                                  *)

\* filepaths again: what is taken for a missing directory has no leftovers.
ListLeftovers ==
    /\ loader = "start"
    /\ \/ /\ loader' = "load" /\ UNCHANGED loaded
          /\ \E paths \in {DOMAIN files} \cup (IF DiskFails THEN {{}} ELSE {}) :
                toLoad' = paths
       \/ /\ DiskFails /\ loader' = "emit"
          /\ loaded' = errorItem /\ UNCHANGED toLoad
    /\ UNCHANGED <<files, run, storage, converter, pipe, sender, history>>

StoredPaths == {s.path : s \in stored}

\* History: what was read at p holds no message, not yet or, by a failure, not now.
Misreads(p) ==
    LET empty == IF loaded'.msg = NoMsg THEN {p} ELSE {}
    IN  /\ early' = early \cup (empty \ StoredPaths)
        /\ misread' = misread \cup (empty \cap StoredPaths)

\* Mutant of LoadMessage: a file that cannot be decoded is tried again.
LoadMessageAgain ==
    /\ loader = "load"
    /\ \E p \in toLoad :
        /\ \/ p \in DOMAIN files /\ loaded' = [path |-> p, msg |-> files[p].msg]
           \/ p \notin DOMAIN files /\ loaded' = [path |-> p, msg |-> NoMsg]
        /\ toLoad' = IF loaded'.msg = NoMsg THEN toLoad ELSE toLoad \ {p}
        /\ Misreads(p)
    /\ loader' = "emit"
    /\ UNCHANGED <<files, run, storage, converter, pipe, sender, stored, unseen,
                   published>>

\* loadMessage: a file that cannot be read or decoded still yields a message.
LoadMessage ==
    /\ loader = "load"
    /\ \E p \in toLoad :
        /\ toLoad' = toLoad \ {p}
        /\ \/ p \in DOMAIN files /\ loaded' = [path |-> p, msg |-> files[p].msg]
           \/ /\ p \notin DOMAIN files \/ DiskFails
              /\ loaded' = [path |-> p, msg |-> NoMsg]
        /\ Misreads(p)
    /\ loader' = "emit"
    /\ UNCHANGED <<files, run, storage, converter, pipe, sender, stored, unseen,
                   published>>

EmitLoaded ==
    /\ loader = "emit" /\ Len(pipe) < PipeCap
    /\ pipe' = Append(pipe, loaded)
    /\ loader' = "load"
    /\ UNCHANGED <<files, run, storage, converter, toLoad, loaded, sender,
                   history>>

EndLoading ==
    /\ loader = "load" /\ toLoad = {}
    /\ loader' = "done"
    /\ UNCHANGED <<files, run, storage, converter, toLoad, loaded, pipe,
                   sender, history>>

-----------------------------------------------------------------------------
(* The data limiter and MQTTProducer.Serve.                                *)

LimiterDrop ==
    /\ LimiterDrops /\ pipe # <<>>
    /\ pipe' = Tail(pipe)
    /\ UNCHANGED <<files, run, storage, converter, loading, sender, history>>

Publish ==
    /\ producer = "idle" /\ pipe # <<>>
    /\ sending' = Head(pipe) /\ pipe' = Tail(pipe)
    /\ producer' = "publishing"
    /\ UNCHANGED <<files, run, storage, converter, loading, history>>

Received == published \cup ({sending.msg} \ {NoMsg})

Acknowledged ==
    /\ producer = "publishing" /\ producer' = "removing"
    /\ published' = Received
    /\ UNCHANGED <<files, run, storage, converter, loading, pipe, sending,
                   stored, early, misread, unseen>>

\* Mutants of PublishFails: the message is removed all the same; it is put back, and
\* tried again for ever.
PublishFailsRemoves ==
    /\ producer = "publishing" /\ producer' = "removing"
    /\ published' \in {published, Received}
    /\ UNCHANGED <<files, run, storage, converter, loading, pipe, sending,
                   stored, early, misread, unseen>>

PublishFailsRetries ==
    /\ producer = "publishing" /\ producer' = "idle"
    /\ published' \in {published, Received}
    /\ pipe' = <<sending>> \o pipe
    /\ UNCHANGED <<files, run, storage, converter, loading, sending,
                   stored, early, misread, unseen>>

\* Publish returns an error; the broker may have received the message.
PublishFails ==
    /\ producer = "publishing" /\ producer' = "idle"
    /\ published' \in {published, Received}
    /\ UNCHANGED <<files, run, storage, converter, loading, pipe, sending,
                   stored, early, misread, unseen>>

\* Message.Remove; an error is only logged, and the file stays.
Remove ==
    /\ producer = "removing" /\ producer' = "idle"
    /\ \/ files' = Restrict(files, DOMAIN files \ {sending.path})
       \/ DiskFails /\ UNCHANGED files
    /\ UNCHANGED <<run, storage, converter, loading, pipe, sending, history>>

-----------------------------------------------------------------------------
\* The client dies and is started again.  Messages in the making are gone.
Restart ==
    /\ run < MaxRuns /\ run' = run + 1
    /\ count' = 0 /\ limit' = NoLimit /\ newLimit' = {}
    /\ conv' = "idle" /\ msg' = NoMsg /\ path' = NoPath /\ lim' = NoLimit
    /\ unsized' = {} /\ used' = 0 /\ statFailed' = FALSE
    /\ loader' = "start" /\ toLoad' = {} /\ loaded' = errorItem
    /\ pipe' = <<>> /\ producer' = "idle" /\ sending' = errorItem
    /\ UNCHANGED <<files, todo, history>>

Steps ==
    \/ SetLimit \/ Convert \/ TakeLimit \/ ListFiles \/ StatFile \/ Admit
    \/ OpenFile \/ WriteFile \/ Emit
    \/ ListLeftovers \/ LoadMessage \/ EmitLoaded \/ EndLoading
    \/ Publish \/ Acknowledged \/ Remove

\* Every message sent, stored or refused, and nothing left to do: the client
\* waits for the agent.
Next == Steps \/ PollStorage \/ PublishFails \/ LimiterDrop \/ Restart

Spec == Init /\ [][Next]_vars

\* Every goroutine is scheduled, and a publication ends: well or, each time
\* the connection is lost, badly.
Fairness ==
    /\ WF_vars(SetLimit)
    /\ WF_vars(TakeLimit) /\ WF_vars(ListFiles) /\ WF_vars(StatFile)
    /\ WF_vars(Admit) /\ WF_vars(OpenFile) /\ WF_vars(WriteFile)
    /\ SF_vars(Emit) /\ SF_vars(EmitLoaded)
    /\ WF_vars(ListLeftovers) /\ WF_vars(LoadMessage) /\ WF_vars(EndLoading)
    /\ WF_vars(Publish) /\ WF_vars(Acknowledged \/ PublishFails) /\ WF_vars(Remove)

FairSpec == Spec /\ Fairness

\* Besides, the connection always comes back: publications do not fail for ever.
ConnectedSpec == FairSpec /\ SF_vars(Acknowledged)

-----------------------------------------------------------------------------
(* Properties.                                                             *)

\* Every variable has the type of the Go value it stands for, and the channels
\* stay within their capacity.
TypeOK ==
    /\ files \in [DOMAIN files -> Contents] /\ DOMAIN files \subseteq Paths
    /\ run \in 0 .. MaxRuns /\ count \in Nat
    /\ limit \in Limits \cup {NoLimit}
    /\ newLimit \subseteq Limits /\ (\A l, k \in newLimit : l = k)
    /\ todo \subseteq Msgs
    /\ conv \in {"idle", "limit", "list", "size", "create", "write", "emit", "refuse"}
    /\ msg \in Msgs \cup {NoMsg} /\ (conv # "idle" => msg \in Msgs)
    /\ path \in Paths \cup {NoPath}
    /\ conv \in {"create", "write", "emit"} => path \in Paths
    /\ lim \in Limits \cup {NoLimit}
    /\ unsized \subseteq Paths /\ used \in Nat /\ statFailed \in BOOLEAN
    /\ loader \in {"start", "load", "emit", "done"}
    /\ toLoad \subseteq Paths /\ loaded \in Items
    /\ pipe \in Seq(Items) /\ Len(pipe) <= PipeCap
    /\ producer \in {"idle", "publishing", "removing"} /\ sending \in Items
    /\ stored \subseteq Items /\ early \cup misread \subseteq Paths
    /\ unseen \in BOOLEAN /\ published \subseteq Msgs

\* The file of the saved message s, or a message that was read from it, is there.
OnDisk(s) == s.path \in DOMAIN files /\ files[s.path].msg = s.msg

\* A message that was saved is on disk until the broker has received it, whatever
\* is dropped or crashes.  There are two exceptions, as for a file that yields no
\* message an empty one is published and the file removed: a file that the loader
\* read before the message was in it, and, where the disk may fail, one that it
\* could not read.
Durable ==
    \A s \in stored :
        \/ s.msg \in published \/ OnDisk(s)
        \/ s.path \in early
        \/ DiskFails /\ s.path \in misread

\* The directory is an outbox: of what was saved it keeps each message until the
\* broker has it, and publishes nothing else; it loses only what was read before it
\* was saved or, where the disk may fail, could not be read.
Box == INSTANCE Outbox WITH
    MayFail <- DiskFails, saved <- stored, spoiled <- misread \ early,
    kept <- {s \in stored : OnDisk(s)}, delivered <- published

ImplementsOutbox == Box!Spec

\* No two runs of the client have the same process identifier.
PidsFresh == \A q, r \in 0 .. MaxRuns : PidOf[q] = PidOf[r] => q = r

\* A message in memory is an error, stands for a file that yielded none, or is one
\* that was saved, as it was saved.
Genuine(x) ==
    \/ x = errorItem
    \/ x.msg = NoMsg /\ x.path \in early \cup misread
    \/ x \in stored

\* A path that was handed out before the next one is.
HandedOut(p) ==
    \E r \in 0 .. run : p[1] = PidOf[r] /\ (r = run => p[2] < count)

\* The inductive invariant behind Durable, for fresh process identifiers: a path
\* belongs to one message for ever, so that who removes a file removes the message
\* that was published, and who writes one overwrites none.
PathsOwned ==
    /\ Genuine(loaded) /\ Genuine(sending)
    /\ \A i \in 1 .. Len(pipe) : Genuine(pipe[i])
    /\ \A p \in DOMAIN files :
        files[p].msg # NoMsg => [path |-> p, msg |-> files[p].msg] \in stored
    /\ \A s, t \in stored : s.path = t.path => s = t
    /\ \A s \in stored : s.path \in Paths /\ s.msg # NoMsg
    /\ producer = "removing" => sending.msg \in published \cup {NoMsg}
    /\ \A p \in DOMAIN files \cup StoredPaths : HandedOut(p)
    /\ misread \subseteq StoredPaths
    /\ ~DiskFails => \A s \in stored :
            s.path \in misread => s.msg \in published \/ s.path \in early

\* Where the converter is with the message it saves.
Saving ==
    /\ conv \in {"create", "write"} =>
        /\ count > 0 /\ path = <<PidOf[run], count - 1>>
        /\ path \notin StoredPaths
    /\ conv = "create" => path \notin DOMAIN files
    /\ conv = "write" => path \in DOMAIN files \cup early
    /\ conv = "emit" => [path |-> path, msg |-> msg] \in stored

\* The size of the directory.
Usage == MapThenSumSet(LAMBDA p : files[p].size, DOMAIN files)

\* A message that is saved under a limit takes the directory beyond 90% of it
\* by no more than what encoding adds to the payload, although the producer
\* removes files while the converter adds up their sizes, and any system call may
\* fail but the Stat of the directory, which admits every message.
StorageBounded ==
    [][WriteFile /\ lim # NoLimit /\ ~unseen =>
        Usage' <= (9 * lim) \div 10 + (FileSize(msg) - Length[msg])]_vars

\* The goroutines do not wait for each other for ever: a message the converter
\* works on is stored and sent, or refused.
ConverterReturns == (conv # "idle") ~> (conv = "idle")

\* The loader gets through what earlier runs left.
LoaderReturns == <>[](loader = "done")

Saved(m) == \E s \in stored : s.msg = m

\* README.md:49, the client "can operate while devices are not connected to the
\* internet and then upload data once connectivity is reestablished".
UploadedOnceConnected == \A m \in Msgs : Saved(m) ~> m \in published
=============================================================================
