------------------------------- MODULE Startup -------------------------------
(***************************************************************************)
(* How a client comes to serve an app: main and newclient of               *)
(* cmd/client/main.go, the credentials of api/api.go, and the launch of    *)
(* the app by app/exec.go.  The backend gives a device its password only   *)
(* once; the client keeps it in a file.  Clients that run in the same      *)
(* directory share that file, and each may die between any two steps.      *)
(***************************************************************************)
EXTENDS Integers

CONSTANTS
    Clients,        \* clients that are started in one directory
    Modes,          \* how they are started: which of the three pipelines runs
    MaxStarts,      \* bound: how many times a client is started
    DiskFails       \* whether a system call of the disk may fail

ASSUME StartupAssumption ==
    /\ Modes \subseteq {"client", "serial", "dumper"}
    /\ MaxStarts \in Nat /\ DiskFails \in BOOLEAN

VARIABLES
    pc,             \* what a client does next, or how it ended
    mode,           \* the pipeline it runs
    prefixed,       \* whether selectPrefix found ./ or $HOME
    password,       \* the password it holds: "none", "empty" or "issued"
    confirmed,      \* whether Release has confirmed the checksum
    sockets,        \* whether the app gets sockets
    app,            \* the app the client starts: "none", "running" or "exited"
    file,           \* the credentials file: "absent", "torn" or "good"
    issued,         \* whether the backend has given the password away
    released,       \* whether the backend knows the app's checksum
    starts          \* how many times a client was started

ofClient == <<mode, prefixed>>
launch == <<confirmed, sockets, app>>
backend == <<issued, released>>
vars == <<pc, ofClient, password, launch, file, backend, starts>>

Stopped == {"off", "ended", "fatal"}

Init ==
    /\ pc = [c \in Clients |-> "off"] /\ mode \in [Clients -> Modes]
    /\ prefixed = [c \in Clients |-> FALSE]
    /\ password = [c \in Clients |-> "none"]
    /\ confirmed = [c \in Clients |-> FALSE]
    /\ sockets = [c \in Clients |-> FALSE] /\ app = [c \in Clients |-> "none"]
    /\ file = "absent" /\ issued = FALSE /\ released \in BOOLEAN /\ starts = 0

Goto(c, next) == pc' = [pc EXCEPT ![c] = next]

-----------------------------------------------------------------------------
(* main and newclient.                                                     *)

\* Mutant of Start: the serial form and the dumper register with the backend, too.
StartRegistered(c) ==
    /\ pc[c] \in Stopped /\ starts < MaxStarts /\ starts' = starts + 1
    /\ Goto(c, "prefix")
    /\ password' = [password EXCEPT ![c] = "none"]
    /\ confirmed' = [confirmed EXCEPT ![c] = FALSE]
    /\ sockets' = [sockets EXCEPT ![c] = FALSE] /\ app' = [app EXCEPT ![c] = "none"]
    /\ UNCHANGED <<ofClient, file, backend>>

Start(c) ==
    /\ pc[c] \in Stopped /\ starts < MaxStarts /\ starts' = starts + 1
    /\ Goto(c, IF mode[c] = "client" THEN "prefix" ELSE "connect")
    /\ password' = [password EXCEPT ![c] = "none"]
    /\ confirmed' = [confirmed EXCEPT ![c] = FALSE]
    /\ sockets' = [sockets EXCEPT ![c] = FALSE] /\ app' = [app EXCEPT ![c] = "none"]
    /\ UNCHANGED <<ofClient, file, backend>>

\* Where no directory can be made, the fallback names one that does not exist.
SelectPrefix(c) ==
    /\ pc[c] = "prefix" /\ Goto(c, "load")
    /\ \E found \in {TRUE, ~DiskFails} : prefixed' = [prefixed EXCEPT ![c] = found]
    /\ UNCHANGED <<mode, password, launch, file, backend, starts>>

\* credsFromFile: a file that is absent, torn or cannot be read is no obstacle.
LoadCredentials(c) ==
    /\ pc[c] = "load"
    /\ \/ /\ prefixed[c] /\ file = "good" /\ Goto(c, "broker")
          /\ password' = [password EXCEPT ![c] = "issued"]
       \/ /\ ~prefixed[c] \/ file # "good" \/ DiskFails
          /\ Goto(c, "register") /\ UNCHANGED password
    /\ UNCHANGED <<ofClient, launch, file, backend, starts>>

\* The backend gets the POST and answers 201.
Register(c) ==
    /\ pc[c] = "register" /\ Goto(c, "reply")
    /\ password' = [password EXCEPT ![c] = IF issued THEN "empty" ELSE "issued"]
    /\ issued' = TRUE
    /\ UNCHANGED <<ofClient, launch, file, released, starts>>

\* Mutant of DecodeCredentials: the empty password passes.
DecodeAnything(c) ==
    /\ pc[c] = "reply" /\ Goto(c, "open")
    /\ UNCHANGED <<ofClient, password, launch, file, backend, starts>>

DecodeCredentials(c) ==
    /\ pc[c] = "reply"
    /\ Goto(c, IF password[c] = "empty" THEN "fatal" ELSE "open")
    /\ UNCHANGED <<ofClient, password, launch, file, backend, starts>>

\* WriteFile: OpenFile truncates the file before the credentials are written.
OpenFile(c) ==
    /\ pc[c] = "open"
    /\ \/ prefixed[c] /\ file' = "torn" /\ Goto(c, "write")
       \/ (~prefixed[c] \/ DiskFails) /\ Goto(c, "fatal") /\ UNCHANGED file
    /\ UNCHANGED <<ofClient, password, launch, backend, starts>>

WriteFile(c) ==
    /\ pc[c] = "write"
    /\ \/ file' = "good" /\ Goto(c, "broker")
       \/ DiskFails /\ Goto(c, "fatal") /\ UNCHANGED file
    /\ UNCHANGED <<ofClient, password, launch, backend, starts>>

\* The rest of newclient: NewConfig and NewMQTTProducer.
BrokerAddress(c) ==
    /\ pc[c] = "broker" /\ Goto(c, "certificates")
    /\ UNCHANGED <<ofClient, password, launch, file, backend, starts>>

Certificates(c) ==
    /\ pc[c] = "certificates" /\ Goto(c, "producer")
    /\ UNCHANGED <<ofClient, password, launch, file, backend, starts>>

NewMQTTProducer(c) ==
    /\ pc[c] = "producer" /\ Goto(c, "release")
    /\ UNCHANGED <<ofClient, password, launch, file, backend, starts>>

\* A request fails, or its answer does not arrive: log.Fatal.
RequestFails(c) ==
    /\ pc[c] \in {"register", "reply", "broker", "certificates", "producer"}
    /\ Goto(c, "fatal")
    /\ UNCHANGED <<ofClient, password, launch, file, backend, starts>>

-----------------------------------------------------------------------------
(* The three run methods, and the app.                                     *)

\* Mutant of CheckRelease: whatever the status of the answer.
CheckAnswered(c) ==
    /\ pc[c] = "release"
    /\ \/ Goto(c, "connect")
          /\ confirmed' = [confirmed EXCEPT ![c] = released]
       \/ Goto(c, "run") /\ UNCHANGED confirmed
    /\ UNCHANGED <<ofClient, password, sockets, app, file, backend, starts>>

\* client.run: an app whose release cannot be confirmed is run, not served.
CheckRelease(c) ==
    /\ pc[c] = "release"
    /\ \/ /\ released /\ Goto(c, "connect")
          /\ confirmed' = [confirmed EXCEPT ![c] = TRUE]
       \/ Goto(c, "run") /\ UNCHANGED confirmed
    /\ UNCHANGED <<ofClient, password, sockets, app, file, backend, starts>>

\* Exec.Run, up to Wait.
Run(c) ==
    /\ pc[c] = "run"
    /\ \/ Goto(c, "waiting") /\ app' = [app EXCEPT ![c] = "running"]
       \/ Goto(c, "fatal") /\ UNCHANGED app
    /\ UNCHANGED <<ofClient, password, confirmed, sockets, file, backend, starts>>

\* Exec.Connect: addSockets, Start, getAgentVersion.
AddSockets(c) ==
    /\ pc[c] = "connect"
    /\ \/ Goto(c, "start") /\ sockets' = [sockets EXCEPT ![c] = TRUE]
       \/ Goto(c, "fatal") /\ UNCHANGED sockets
    /\ UNCHANGED <<ofClient, password, confirmed, app, file, backend, starts>>

StartApp(c) ==
    /\ pc[c] = "start"
    /\ \/ Goto(c, "version") /\ app' = [app EXCEPT ![c] = "running"]
       \/ Goto(c, "fatal") /\ UNCHANGED app
    /\ UNCHANGED <<ofClient, password, confirmed, sockets, file, backend, starts>>

\* An app that does not tell its agent's version is left alone.
GetAgentVersion(c) ==
    /\ pc[c] = "version" /\ (Goto(c, "serving") \/ Goto(c, "fatal"))
    /\ UNCHANGED <<ofClient, password, launch, file, backend, starts>>

End(c) ==
    /\ pc[c] \in {"waiting", "serving"} /\ app[c] = "exited" /\ Goto(c, "ended")
    /\ UNCHANGED <<ofClient, password, launch, file, backend, starts>>

AppExits(c) ==
    /\ app[c] = "running" /\ app' = [app EXCEPT ![c] = "exited"]
    /\ UNCHANGED <<pc, ofClient, password, confirmed, sockets, file, backend, starts>>

\* The client dies; what it held in memory is gone.
Crash(c) ==
    /\ pc[c] \notin Stopped /\ Goto(c, "off")
    /\ password' = [password EXCEPT ![c] = "none"]
    /\ UNCHANGED <<ofClient, launch, file, backend, starts>>

\* The releaser makes the app's checksum known.
ReleaseApp ==
    /\ ~released /\ released' = TRUE
    /\ UNCHANGED <<pc, ofClient, password, launch, file, issued, starts>>

ClientStep(c) ==
    \/ Start(c) \/ SelectPrefix(c) \/ LoadCredentials(c) \/ Register(c)
    \/ DecodeCredentials(c) \/ OpenFile(c) \/ WriteFile(c)
    \/ BrokerAddress(c) \/ Certificates(c) \/ NewMQTTProducer(c)
    \/ RequestFails(c) \/ CheckRelease(c) \/ Run(c) \/ AddSockets(c)
    \/ StartApp(c) \/ GetAgentVersion(c) \/ End(c) \/ AppExits(c) \/ Crash(c)

Next == ReleaseApp \/ \E c \in Clients : ClientStep(c)

Spec == Init /\ [][Next]_vars

-----------------------------------------------------------------------------
(* Properties.                                                             *)

States == Stopped \cup
    {"prefix", "load", "register", "reply", "open", "write", "broker",
     "certificates", "producer", "release", "run", "waiting", "connect", "start",
     "version", "serving"}

\* What a client without network does: it asks the backend for nothing.
OfflineStates == Stopped \cup {"connect", "start", "version", "serving"}

\* Every variable has its type, and only the networked form goes through the states
\* of registration.
TypeOK ==
    /\ pc \in [Clients -> States] /\ mode \in [Clients -> Modes]
    /\ \A c \in Clients : mode[c] # "client" => pc[c] \in OfflineStates
    /\ prefixed \in [Clients -> BOOLEAN]
    /\ password \in [Clients -> {"none", "empty", "issued"}]
    /\ confirmed \in [Clients -> BOOLEAN] /\ sockets \in [Clients -> BOOLEAN]
    /\ app \in [Clients -> {"none", "running", "exited"}]
    /\ file \in {"absent", "torn", "good"} /\ issued \in BOOLEAN
    /\ released \in BOOLEAN /\ starts \in 0 .. MaxStarts

\* A credentials file that is complete stays so, however many clients start in
\* its directory and wherever they die: who finds it unreadable asks the backend,
\* but gets no password to overwrite it with.
CredentialsStay == [][file = "good" => file' = "good"]_vars

\* A client that talks to the broker has the password that was issued, whether it
\* is the one that asked for it, found it, or was racing with others for it.
PasswordIsIssued ==
    \A c \in Clients :
        pc[c] \in {"broker", "certificates", "producer", "release"} =>
            issued /\ password[c] = "issued"

\* In the networked pipeline an app whose release was not confirmed gets no
\* sockets, although it may be released meanwhile, and the client started again.
ServedIfReleased ==
    \A c \in Clients : mode[c] = "client" /\ sockets[c] => confirmed[c] /\ released

\* Why ServedIfReleased holds: Release comes before Connect, and a release is not
\* withdrawn.
ReleaseFirst ==
    \A c \in Clients :
        /\ mode[c] = "client" /\ (sockets[c] \/ pc[c] = "connect") => confirmed[c]
        /\ confirmed[c] => released

\* Clients on their way to write the password they were given.
Holders == {c \in Clients : pc[c] \in {"reply", "open", "write"}
                            /\ password[c] = "issued"}

\* The inductive invariant behind CredentialsStay: the one client that was given
\* the password is the only one that writes, and until it has there is no file.
OneHolder ==
    /\ \A c, d \in Holders : c = d
    /\ Holders # {} => issued /\ file # "good"
    /\ file = "good" => issued
    /\ \A c \in Clients : pc[c] \in {"open", "write"} => c \in Holders
    /\ \A c \in Clients : pc[c] = "reply" => password[c] # "none"
=============================================================================
