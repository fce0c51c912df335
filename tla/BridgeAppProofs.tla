--------------------------- MODULE BridgeAppProofs ---------------------------
(* Proofs about BridgeApp: what is proved of the listener holds in the process *)
(* that starts it, whatever the configuration, however often it is started.    *)
EXTENDS BridgeApp, PaymentListenerProofs

BridgeInv == IInv /\ BridgeTypeOK

\* A step of the listener in its process leaves the process alone, and is not its
\* end.
LEMMA FollowsInProcess ==
  ASSUME Stream \/ ReadCursor \/ ReadCursorFails
  PROVE  pc # "down" /\ pc' # "down"
BY DEF Stream, ReadCursor, ReadCursorFails, Connect, ConnectFails, Deliver, StreamEnds,
   Lookup, Filter, FilterNotSaved, LoadMemo, ComplianceReceive, ComplianceRejects,
   CallbackAccepted, CallbackTimesOut, Save, SaveAckLost, HandlerFails, HorizonHangs

\* Nothing runs before the first start.
LEMMA BridgeInvInit == BridgeInit => BridgeInv
BY IInvInit, ConfigsAssumption DEF BridgeInit, BridgeInv, BridgeTypeOK, IInv, Init, Boot

\* A step of the bridge is one of the listener, or the end of the goroutine, or
\* leaves the listener alone; the table missing, the goroutine is dead.
LEMMA BridgeStepIs ==
  ASSUME BridgeInv, [BridgeNext]_bridgeVars
  PROVE  \/ [Next]_vars
         \/ Dies /\ crashes' \in 0..MaxCrashes
         \/ pc' = "dead" /\ UNCHANGED <<netVars, rows, pos, cursor, origin, crashes>>
<1>1. CASE Start
  BY <1>1 DEF Start, Run, InitDriver, InitAccounts, StartListener, CheckAPIKey, Serve,
     ProcessEnds, Next, BridgeInv, IInv, TypeOK
<1>2. CASE StartFails \/ BindFails \/ ListenerPanics
  BY <1>2 DEF StartFails, BindFails, ListenerPanics, ProcessEnds, BridgeInv, IInv, TypeOK
<1>3. CASE Killed
  BY <1>3, CrashAssumption DEF Killed, BridgeInv, IInv, TypeOK
<1>4. CASE StartHangs \/ MigrateDB \/ CursorTableMissing
  BY <1>4 DEF StartHangs, MigrateDB, CursorTableMissing
<1>5. CASE Load \/ Follow \/ World
  BY <1>5 DEF Load, Follow, World, Next
<1>6. CASE UNCHANGED bridgeVars
  BY <1>6 DEF bridgeVars
<1>7. QED
  BY <1>1, <1>2, <1>3, <1>4, <1>5, <1>6 DEF BridgeNext

\* The listener's invariant outlives the processes.
LEMMA BridgeKeepsIInv ==
  ASSUME BridgeInv, [BridgeNext]_bridgeVars
  PROVE  IInv'
<1>1. CASE [Next]_vars
  BY <1>1, IInvStep DEF BridgeInv
<1>2. CASE Dies /\ crashes' \in 0..MaxCrashes
  BY <1>2, DiesStep, DiesType DEF BridgeInv, IInv
<1>3. CASE pc' = "dead" /\ UNCHANGED <<netVars, rows, pos, cursor, origin, crashes>>
  <2>1. UNCHANGED <<ledger, rows, accepted, late, origin>>
    BY <1>3 DEF netVars
  <2>2. DataInv'
    BY <2>1, DataUnchanged DEF BridgeInv, IInv
  <2>3. TypeOK'
    BY <1>3 DEF BridgeInv, IInv, TypeOK, PC, Handling, netVars
  <2>4. StreamInv'
    BY <1>3 DEF StreamInv, StreamBehindRows, HandlerKnows, StreamBehindAccepted,
       Connected, Handling
  <2>5. QED
    BY <2>2, <2>3, <2>4 DEF IInv
<1>4. QED
  BY <1>1, <1>2, <1>3, BridgeStepIs

\* The goroutine lives only in a process that has started it.
LEMMA BridgeKeepsType ==
  ASSUME BridgeInv, [BridgeNext]_bridgeVars
  PROVE  BridgeTypeOK'
<1> USE DEF BridgeTypeOK, Listens
<1>1. TypeOK' /\ BridgeTypeOK
  BY BridgeKeepsIInv DEF BridgeInv, IInv
<1>2. CASE Start
  BY <1>1, <1>2 DEF Start, Run, InitDriver, InitAccounts, StartListener, CheckAPIKey, Serve,
     Proceed, ProcessEnds, Dies, Listen, vars, Boot
<1>3. CASE StartFails \/ BindFails \/ ListenerPanics \/ Killed
  BY <1>1, <1>3 DEF StartFails, BindFails, ListenerPanics, Killed, ProcessEnds, Dies, Boot
<1>4. CASE StartHangs \/ MigrateDB \/ CursorTableMissing
  BY <1>1, <1>4 DEF StartHangs, AsksHorizon, MigrateDB, CursorTableMissing, vars,
     processVars, Boot
<1>5. CASE Load \/ Follow
  BY <1>1, <1>5, FollowsInProcess DEF Load, Follow, processVars
<1>6. CASE World
  BY <1>1, <1>6 DEF World, OperationArrives, LateAccept, processVars
<1>7. CASE UNCHANGED bridgeVars
  BY <1>1, <1>7 DEF bridgeVars, vars, processVars
<1>8. QED
  BY <1>2, <1>3, <1>4, <1>5, <1>6, <1>7 DEF BridgeNext

\* The listener's invariant and the process's hold in every configuration.
THEOREM BridgeInvariance == BridgeSpec => []BridgeInv
BY BridgeInvInit, BridgeKeepsIInv, BridgeKeepsType, PTL DEF BridgeSpec, BridgeInv

\* The variables of the process keep their types, and the listener's goroutine is
\* never found outside a process that has started it.
THEOREM BridgeTypeCorrect == BridgeSpec => []BridgeTypeOK
<1>1. BridgeInv => BridgeTypeOK
  BY DEF BridgeInv
<1>2. QED
  BY <1>1, BridgeInvariance, PTL

\* What the listener's rows and the callback's server say of each other holds
\* through failing starts, ends of the process while the listener is at work,
\* panics and migrations.
THEOREM ListenerSafeInProcess ==
  BridgeSpec =>
    [](NoOvertaking /\ CursorBehindAccepted /\ SuccessIsAccepted /\ RowsInLedgerOrder)
<1>1. BridgeInv => /\ NoOvertaking /\ CursorBehindAccepted
                   /\ SuccessIsAccepted /\ RowsInLedgerOrder
  BY DEF BridgeInv, IInv, DataInv
<1>2. QED
  BY <1>1, BridgeInvariance, PTL

\* No start of a process, however the one before ended, takes the listener back to
\* `now` or behind its newest row.
THEOREM BridgeResumes == BridgeSpec => ResumesWhereItStopped
<1>1. BridgeInv /\ [BridgeNext]_bridgeVars =>
        [rows # <<>> => origin' = origin /\ GetLastCursorValue' >= GetLastCursorValue]_vars
  <2> SUFFICES ASSUME BridgeInv, [BridgeNext]_bridgeVars, rows # <<>>
               PROVE  \/ UNCHANGED vars
                      \/ origin' = origin /\ GetLastCursorValue' >= GetLastCursorValue
    OBVIOUS
  <2>1. CASE [Next]_vars
    BY <2>1, ResumeStep DEF BridgeInv
  <2>2. CASE ~[Next]_vars
    <3>1. UNCHANGED <<rows, origin>>
      BY <2>2, BridgeStepIs DEF Dies
    <3>2. QED
      BY <3>1, CursorUnchanged, CursorType DEF BridgeInv, IInv
  <2>3. QED
    BY <2>1, <2>2
<1>2. QED
  BY <1>1, BridgeInvariance, PTL DEF BridgeSpec, ResumesWhereItStopped

\* A complete configuration's process with its listener started ends only by being
\* killed, unless it cannot bind its port: a listener that runs has a repository, so
\* it never panics.
THEOREM ProcessStaysUp == BridgeSpec => EndsOnlyIfKilled
<1>1. BridgeInv /\ [BridgeNext]_bridgeVars =>
        [Complete /\ boot \in {"apiKey", "serving"} /\ boot' = "off" =>
           crashes' = crashes + 1]_bridgeVars
  <2> SUFFICES ASSUME BridgeInv, BridgeNext, Complete, boot \in {"apiKey", "serving"},
                      boot' = "off"
               PROVE  crashes' = crashes + 1
    OBVIOUS
  <2>1. ~ListenerPanics
    BY DEF ListenerPanics, BridgeInv, BridgeTypeOK, Complete, Listens
  <2>2. ~Start /\ ~StartFails /\ ~StartHangs /\ ~BindFails
    BY DEF Start, Run, InitDriver, InitAccounts, StartListener, CheckAPIKey, Serve, Proceed,
       StartFails, StartHangs, AsksHorizon, BindFails, Complete
  <2>3. ~MigrateDB /\ ~CursorTableMissing /\ ~Load /\ ~Follow /\ ~World
    BY DEF MigrateDB, CursorTableMissing, Load, Follow, World, processVars
  <2>4. QED
    BY <2>1, <2>2, <2>3 DEF BridgeNext, Killed
<1>2. QED
  BY <1>1, BridgeInvariance, PTL DEF BridgeSpec, EndsOnlyIfKilled

\* The promise of NotificationLog is kept across configurations, failing starts,
\* processes that end while the listener is at work, panics and migrations.
THEOREM BridgeImplementsLog == BridgeSpec => ImplementsLog
<1>1. BridgeInit => Log!Init
  BY InitImplements DEF BridgeInit
<1>2. BridgeInv /\ BridgeInv' /\ [BridgeNext]_bridgeVars => [Log!Next]_(Log!vars)
  <2> SUFFICES ASSUME BridgeInv, BridgeInv', [BridgeNext]_bridgeVars
               PROVE  [Log!Next]_(Log!vars)
    OBVIOUS
  <2>1. CASE [Next]_vars
    BY <2>1, StepImplements DEF BridgeInv
  <2>2. CASE ~[Next]_vars
    <3>1. UNCHANGED <<ledger, rows, accepted, origin>>
      BY <2>2, BridgeStepIs DEF Dies, netVars
    <3>2. QED
      BY <3>1, NoStepOfLog
  <2>3. QED
    BY <2>1, <2>2
<1>3. QED
  BY <1>1, <1>2, BridgeInvariance, PTL DEF BridgeSpec, Log!Spec, ImplementsLog
=============================================================================
