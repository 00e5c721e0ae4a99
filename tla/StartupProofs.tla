---------------------------- MODULE StartupProofs ----------------------------
(***************************************************************************)
(* Proofs about Startup: its types, and that no client ever damages a      *)
(* complete credentials file, for any number of clients and starts.        *)
(***************************************************************************)
EXTENDS Startup, TLAPS

\* Every reachable state is well typed.
THEOREM StartupTypeCorrect == Spec => []TypeOK
<1> USE StartupAssumption DEF TypeOK, States, Stopped, OfflineStates
<1>1. Init => TypeOK
  <2> SUFFICES ASSUME Init PROVE TypeOK
    OBVIOUS
  <2>1. issued \in BOOLEAN /\ released \in BOOLEAN
    BY Zenon DEF Init
  <2>2. starts \in 0 .. MaxStarts
    BY DEF Init
  <2>3. /\ prefixed \in [Clients -> BOOLEAN] /\ confirmed \in [Clients -> BOOLEAN]
        /\ sockets \in [Clients -> BOOLEAN]
    BY DEF Init
  <2> QED BY <2>1, <2>2, <2>3 DEF Init
<1>2. TypeOK /\ [Next]_vars => TypeOK'
  <2> SUFFICES ASSUME TypeOK, [Next]_vars PROVE TypeOK'
    OBVIOUS
  <2> USE DEF Goto, ofClient, launch, backend
  <2>1. CASE ReleaseApp
    BY <2>1 DEF ReleaseApp
  <2>2. ASSUME NEW c \in Clients, ClientStep(c) PROVE TypeOK'
    <3>1. CASE Start(c)
      BY <3>1 DEF Start
    <3>2. CASE SelectPrefix(c)
      <4>1. PICK found \in BOOLEAN : prefixed' = [prefixed EXCEPT ![c] = found]
        BY <3>2, Zenon DEF SelectPrefix
      <4>2. prefixed' \in [Clients -> BOOLEAN]
        BY <4>1
      <4> QED BY <3>2, <4>2 DEF SelectPrefix
    <3>3. CASE LoadCredentials(c)
      BY <3>3 DEF LoadCredentials
    <3>4. CASE Register(c)
      BY <3>4 DEF Register
    <3>5. CASE DecodeCredentials(c) \/ OpenFile(c) \/ WriteFile(c)
      BY <3>5 DEF DecodeCredentials, OpenFile, WriteFile
    <3>6. CASE \/ BrokerAddress(c) \/ Certificates(c) \/ NewMQTTProducer(c)
               \/ RequestFails(c)
      BY <3>6 DEF BrokerAddress, Certificates, NewMQTTProducer, RequestFails
    <3>7. CASE CheckRelease(c) \/ Run(c) \/ AddSockets(c)
      BY <3>7 DEF CheckRelease, Run, AddSockets
    <3>8. CASE StartApp(c) \/ GetAgentVersion(c) \/ End(c)
      BY <3>8 DEF StartApp, GetAgentVersion, End
    <3>9. CASE AppExits(c) \/ Crash(c)
      BY <3>9 DEF AppExits, Crash
    <3> QED
      BY <2>2, <3>1, <3>2, <3>3, <3>4, <3>5, <3>6, <3>7, <3>8, <3>9
      DEF ClientStep
  <2>3. CASE UNCHANGED vars
    BY <2>3 DEF vars
  <2> QED BY <2>1, <2>2, <2>3 DEF Next
<1> QED BY <1>1, <1>2, PTL DEF Spec

\* The step of a client that neither gets nor writes the password leaves every
\* other client where it is, and may only end its own holding.
LEMMA HolderSteps ==
    ASSUME TypeOK, OneHolder, NEW c \in Clients, NEW next \in States,
           pc' = [pc EXCEPT ![c] = next],
           password' = [password EXCEPT ![c] = password'[c]],
           next \notin {"reply", "open", "write"},
           issued' = issued, file' \in {file, "good"},
           file' # file => c \in Holders
    PROVE  OneHolder'
<1>1. \A d \in Clients \ {c} : pc'[d] = pc[d] /\ password'[d] = password[d]
  BY DEF TypeOK
<1>2. pc'[c] = next
  BY DEF TypeOK
<1>3. Holders' = Holders \ {c}
  BY <1>1, <1>2 DEF Holders
<1> QED BY <1>1, <1>2, <1>3 DEF OneHolder

\* Every step preserves the invariant.
LEMMA StepKeepsHolder ==
    ASSUME TypeOK, OneHolder, [Next]_vars
    PROVE  OneHolder'
<1> USE DEF Goto, ofClient, launch, backend
<1>1. CASE ReleaseApp \/ UNCHANGED vars
  BY <1>1 DEF ReleaseApp, vars, OneHolder, Holders
<1>2. ASSUME NEW c \in Clients, ClientStep(c) PROVE OneHolder'
  <2> DEFINE Leaves(next) == /\ next \in States \ {"reply", "open", "write"}
                             /\ pc' = [pc EXCEPT ![c] = next]
                             /\ password' = [password EXCEPT ![c] = password'[c]]
                             /\ UNCHANGED <<issued, file>>
  <2>1. ASSUME NEW next, Leaves(next) PROVE OneHolder'
    BY <2>1, HolderSteps
  <2>2. CASE \/ Start(c) \/ SelectPrefix(c) \/ LoadCredentials(c)
             \/ BrokerAddress(c) \/ Certificates(c) \/ NewMQTTProducer(c)
             \/ RequestFails(c) \/ Crash(c)
    <3>1. \E next : Leaves(next)
      BY <2>2
      DEF Start, SelectPrefix, LoadCredentials, BrokerAddress, Certificates,
          NewMQTTProducer, RequestFails, Crash, TypeOK, States, Stopped
    <3> QED BY <2>1, <3>1
  <2>3. CASE \/ CheckRelease(c) \/ Run(c) \/ AddSockets(c) \/ StartApp(c)
             \/ GetAgentVersion(c) \/ End(c)
    <3>1. \E next : Leaves(next)
      BY <2>3
      DEF CheckRelease, Run, AddSockets, StartApp, GetAgentVersion, End,
          TypeOK, States, Stopped
    <3> QED BY <2>1, <3>1
  <2>4. CASE AppExits(c)
    BY <2>4 DEF AppExits, OneHolder, Holders
  <2>5. CASE Register(c)
    <3>1. \A d \in Clients \ {c} : pc'[d] = pc[d] /\ password'[d] = password[d]
      BY <2>5 DEF Register, TypeOK
    <3>2. /\ pc'[c] = "reply" /\ issued' /\ file' = file
          /\ password'[c] = IF issued THEN "empty" ELSE "issued"
      BY <2>5 DEF Register, TypeOK
    <3>3. CASE issued
      BY <3>1, <3>2, <3>3 DEF OneHolder, Holders
    <3>4. CASE ~issued
      BY <3>1, <3>2, <3>4 DEF OneHolder, Holders
    <3> QED BY <3>3, <3>4
  <2>6. CASE DecodeCredentials(c)
    BY <2>6 DEF DecodeCredentials, OneHolder, Holders, TypeOK
  <2>7. CASE OpenFile(c)
    <3>1. c \in Holders
      BY <2>7 DEF OpenFile, OneHolder
    <3>2. \A d \in Clients \ {c} : pc'[d] = pc[d]
      BY <2>7 DEF OpenFile, TypeOK
    <3>3. /\ pc'[c] \in {"write", "fatal"} /\ UNCHANGED <<password, issued>>
          /\ file' \in {file, "torn"}
      BY <2>7 DEF OpenFile, TypeOK
    <3> QED BY <3>1, <3>2, <3>3 DEF OneHolder, Holders
  <2>8. CASE WriteFile(c)
    <3>1. c \in Holders
      BY <2>8 DEF WriteFile, OneHolder
    <3>2. PICK next \in {"broker", "fatal"} : pc' = [pc EXCEPT ![c] = next]
      BY <2>8 DEF WriteFile
    <3>3. /\ password' = [password EXCEPT ![c] = password'[c]]
          /\ issued' = issued /\ file' \in {file, "good"}
      BY <2>8 DEF WriteFile, TypeOK
    <3>4. next \in States /\ next \notin {"reply", "open", "write"}
      BY DEF States, Stopped
    <3> QED BY <3>1, <3>2, <3>3, <3>4, HolderSteps
  <2> QED
    BY <1>2, <2>2, <2>3, <2>4, <2>5, <2>6, <2>7, <2>8 DEF ClientStep
<1> QED BY <1>1, <1>2 DEF Next

\* Credentials that were saved stay, whatever clients start in the directory, in
\* whatever order, and wherever they die.
THEOREM CredentialsAreSafe == Spec => CredentialsStay
<1>1. Init => OneHolder
  BY DEF Init, OneHolder, Holders
<1>2. TypeOK /\ OneHolder /\ [Next]_vars => OneHolder'
  BY StepKeepsHolder
<1>3. ASSUME TypeOK, OneHolder, [Next]_vars PROVE file = "good" => file' = "good"
  <2> USE DEF Goto, ofClient, launch, backend
  <2>1. ASSUME NEW c \in Clients, OpenFile(c) PROVE file # "good"
    BY <1>3, <2>1 DEF OpenFile, OneHolder
  <2>2. ASSUME NEW c \in Clients, ClientStep(c), ~OpenFile(c)
        PROVE  file' \in {file, "good"}
    BY <2>2
    DEF ClientStep, Start, SelectPrefix, LoadCredentials, Register,
        DecodeCredentials, WriteFile, BrokerAddress, Certificates,
        NewMQTTProducer, RequestFails, CheckRelease, Run, AddSockets,
        StartApp, GetAgentVersion, End, AppExits, Crash
  <2>3. ReleaseApp \/ UNCHANGED vars => file' = file
    BY DEF ReleaseApp, vars
  <2> QED BY <1>3, <2>1, <2>2, <2>3 DEF Next
<1>4. TypeOK /\ OneHolder /\ [Next]_vars => [file = "good" => file' = "good"]_vars
  BY <1>3
<1> QED
  BY <1>1, <1>2, <1>4, StartupTypeCorrect, PTL DEF Spec, CredentialsStay

\* Whoever talks to the broker has the password that the backend gave away.
THEOREM PasswordsAreIssued == Spec => []PasswordIsIssued
<1>1. Init => OneHolder /\ PasswordIsIssued
  BY DEF Init, OneHolder, Holders, PasswordIsIssued
<1>2. TypeOK /\ OneHolder /\ [Next]_vars => OneHolder'
  BY StepKeepsHolder
<1>3. TypeOK /\ OneHolder /\ PasswordIsIssued /\ [Next]_vars => PasswordIsIssued'
  <2> SUFFICES ASSUME TypeOK, OneHolder, PasswordIsIssued, [Next]_vars
               PROVE  PasswordIsIssued'
    OBVIOUS
  <2> USE DEF Goto, ofClient, launch, backend, PasswordIsIssued, TypeOK
  <2>1. CASE ReleaseApp \/ UNCHANGED vars
    BY <2>1 DEF ReleaseApp, vars
  <2>2. ASSUME NEW c \in Clients, ClientStep(c) PROVE PasswordIsIssued'
    <3>1. CASE LoadCredentials(c)
      BY <3>1 DEF LoadCredentials, OneHolder
    <3>2. CASE OpenFile(c) \/ WriteFile(c)
      BY <3>2 DEF OpenFile, WriteFile, OneHolder, Holders
    <3>3. CASE Start(c) \/ SelectPrefix(c) \/ Register(c) \/ DecodeCredentials(c)
      BY <3>3 DEF Start, SelectPrefix, Register, DecodeCredentials
    <3>4. CASE \/ BrokerAddress(c) \/ Certificates(c) \/ NewMQTTProducer(c)
               \/ RequestFails(c) \/ CheckRelease(c) \/ Run(c)
      BY <3>4 DEF BrokerAddress, Certificates, NewMQTTProducer, RequestFails,
                  CheckRelease, Run
    <3>5. CASE \/ AddSockets(c) \/ StartApp(c) \/ GetAgentVersion(c) \/ End(c)
               \/ AppExits(c) \/ Crash(c)
      BY <3>5 DEF AddSockets, StartApp, GetAgentVersion, End, AppExits, Crash
    <3> QED BY <2>2, <3>1, <3>2, <3>3, <3>4, <3>5 DEF ClientStep
  <2> QED BY <2>1, <2>2 DEF Next
<1> QED BY <1>1, <1>2, <1>3, StartupTypeCorrect, PTL DEF Spec

\* The networked pipeline serves only apps whose release was confirmed.
THEOREM OnlyReleasedServed == Spec => []ServedIfReleased
<1>1. Init => ReleaseFirst
  BY DEF Init, ReleaseFirst
<1>2. TypeOK /\ ReleaseFirst /\ [Next]_vars => ReleaseFirst'
  <2> SUFFICES ASSUME TypeOK, ReleaseFirst, [Next]_vars PROVE ReleaseFirst'
    OBVIOUS
  <2> USE DEF Goto, ofClient, launch, backend, ReleaseFirst, TypeOK
  <2>1. CASE ReleaseApp \/ UNCHANGED vars
    BY <2>1 DEF ReleaseApp, vars
  <2>2. ASSUME NEW c \in Clients, ClientStep(c) PROVE ReleaseFirst'
    <3>1. CASE Start(c)
      BY <3>1 DEF Start
    <3>2. CASE CheckRelease(c) \/ AddSockets(c)
      BY <3>2 DEF CheckRelease, AddSockets
    <3>3. CASE \/ SelectPrefix(c) \/ LoadCredentials(c) \/ Register(c)
               \/ DecodeCredentials(c) \/ OpenFile(c) \/ WriteFile(c)
      BY <3>3 DEF SelectPrefix, LoadCredentials, Register, DecodeCredentials,
                  OpenFile, WriteFile
    <3>4. CASE \/ BrokerAddress(c) \/ Certificates(c) \/ NewMQTTProducer(c)
               \/ RequestFails(c) \/ Run(c)
      BY <3>4 DEF BrokerAddress, Certificates, NewMQTTProducer, RequestFails, Run
    <3>5. CASE \/ StartApp(c) \/ GetAgentVersion(c) \/ End(c) \/ AppExits(c)
               \/ Crash(c)
      BY <3>5 DEF StartApp, GetAgentVersion, End, AppExits, Crash
    <3> QED BY <2>2, <3>1, <3>2, <3>3, <3>4, <3>5 DEF ClientStep
  <2> QED BY <2>1, <2>2 DEF Next
<1>3. ReleaseFirst => ServedIfReleased
  BY DEF ReleaseFirst, ServedIfReleased
<1> QED BY <1>1, <1>2, <1>3, StartupTypeCorrect, PTL DEF Spec
=============================================================================
