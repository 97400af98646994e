---------------------------- MODULE Startup_proofs ----------------------------
(***************************************************************************)
(* Proofs about Startup, for every number of tries, signals and faults.    *)
(*                                                                         *)
(* StartInv is inductive.  Its parts are what main relies on in the order  *)
(* of its steps: what Config's callback has done (ThreadShape), that the   *)
(* members it assigned are the datastore's (LeavesKnown), what main itself *)
(* has subscribed and started (StepsDone), and that the path of pdns.conf  *)
(* stays one path in a calm start (OnePath).                               *)
(***************************************************************************)
EXTENDS Startup, TLAPS

USE DEF EndStates, Ended

\* The first process starts with nothing read, subscribed or started.
LEMMA InitKeeps == Init => StartInv
<1> SUFFICES ASSUME Init PROVE StartInv OBVIOUS
<1> USE DEF Init
<1>1. TypeOK
  <2>1. settings \in [Options -> Values \union {Unset}] BY DEF NoSettings
  <2>2. store \in Settings OBVIOUS
  <2>3. main \in Running \union EndStates BY DEF Running
  <2>4. tries \in 0..MaxTries /\ signals \in 0..MaxSignals /\ faults \in 0..MaxFaults
    BY StartupAssumption
  <2>5. tmp \in Values \union {Unset} /\ installed \in Values \union {Unset} OBVIOUS
  <2> QED BY <2>1, <2>2, <2>3, <2>4, <2>5 DEF TypeOK
<1>2. SettingsKnown /\ SettingsCurrent BY DEF SettingsKnown, SettingsCurrent
<1>3. ThreadShape BY DEF ThreadShape
<1>4. LeavesKnown BY DEF LeavesKnown
<1>5. StepsDone BY DEF StepsDone
<1>6. OnePath BY DEF OnePath
<1> QED BY <1>1, <1>2, <1>3, <1>4, <1>5, <1>6 DEF StartInv

\* Leaving main's scope leaves what the next process starts from.
LEMMA UnwindKeeps ==
  ASSUME StartInv, NEW end \in EndStates, Unwind(end), faults' \in 0..MaxFaults
  PROVE  StartInv'
<1> USE DEF Unwind
<1>1. TypeOK'
  <2>1. settings' \in [Options -> Values \union {Unset}] BY DEF NoSettings
  <2>2. store' \in Settings BY DEF StartInv, TypeOK
  <2>3. main' \in Running \union EndStates OBVIOUS
  <2>4. tries' \in 0..MaxTries /\ signals' \in 0..MaxSignals /\ faults' \in 0..MaxFaults
    BY StartupAssumption
  <2>5. tmp' \in Values \union {Unset} /\ installed' \in Values \union {Unset} OBVIOUS
  <2> QED BY <2>1, <2>2, <2>3, <2>4, <2>5 DEF TypeOK
<1>2. SettingsKnown' /\ SettingsCurrent' BY DEF SettingsKnown, SettingsCurrent
<1>3. ThreadShape' BY DEF ThreadShape
<1>4. LeavesKnown' BY DEF LeavesKnown
<1>5. StepsDone' BY DEF StepsDone
<1>6. OnePath' BY DEF OnePath
<1> QED BY <1>1, <1>2, <1>3, <1>4, <1>5, <1>6 DEF StartInv

\* A step with a fault, or without one, keeps the fault counter typed.
LEMMA FaultsTyped == ASSUME TypeOK, NoFault \/ Fault PROVE faults' \in 0..MaxFaults
  BY StartupAssumption DEF TypeOK, NoFault, Fault

\* Each step of main keeps the invariant.
LEMMA MainKeeps ==
  ASSUME StartInv, Main
  PROVE  StartInv'
<1> USE DEF StartInv, TypeOK, SettingsKnown, SettingsCurrent, ThreadShape, LeavesKnown, StepsDone,
            OnePath, Settings, NoFault, Goes, daemon, thread, Running
<1>1. CASE Connect
  BY <1>1, StartupAssumption DEF Connect
<1>2. CASE SubscribeConfig
  BY <1>2, StartupAssumption DEF SubscribeConfig, NoSettings
<1>3. CASE SubscribeReturns
  BY <1>3, StartupAssumption DEF SubscribeReturns
<1>4. CASE SubscribeThrows
  BY <1>4, UnwindKeeps DEF SubscribeThrows, Throw, Reset, NoFault
<1>5. CASE Wait
  BY <1>5, StartupAssumption DEF Wait
<1>6. CASE Finished
  BY <1>6, StartupAssumption DEF Finished
<1>7. CASE NotFinished
  BY <1>7, UnwindKeeps DEF NotFinished, Throw, Reset, NoFault
<1>8. CASE NotFailed
  BY <1>8, StartupAssumption DEF NotFailed
<1>9. CASE HasFailed
  BY <1>9, UnwindKeeps DEF HasFailed, Throw, Reset, NoFault
<1>10. CASE Feature
  BY <1>10, StartupAssumption DEF Feature
<1>11. CASE StartServer
  BY <1>11, StartupAssumption DEF StartServer
<1>12. CASE SubscribeCallback
  BY <1>12, StartupAssumption DEF SubscribeCallback
<1>13. CASE CallbackEnabled
  BY <1>13, StartupAssumption DEF CallbackEnabled, Options
<1>14. CASE CallbackDone
  BY <1>14, StartupAssumption DEF CallbackDone, Subscribed
<1>15. CASE SubscribeZones
  BY <1>15, StartupAssumption DEF SubscribeZones
<1>16. CASE Signals
  BY <1>16, StartupAssumption DEF Signals
<1>17. CASE Ready
  BY <1>17, StartupAssumption DEF Ready
<1>18. CASE Loop
  BY <1>18, StartupAssumption DEF Loop
<1>19. CASE FallAsleep
  BY <1>19, StartupAssumption DEF FallAsleep
<1>20. CASE Sleep
  BY <1>20, StartupAssumption DEF Sleep
<1>21. CASE Stopping
  BY <1>21, StartupAssumption DEF Stopping
<1>22. CASE Reset
  BY <1>22, UnwindKeeps DEF Reset, Throw, Reset, NoFault
<1> QED BY <1>1, <1>2, <1>3, <1>4, <1>5, <1>6, <1>7, <1>8, <1>9, <1>10, <1>11, <1>12, <1>13, <1>14, <1>15, <1>16, <1>17, <1>18, <1>19, <1>20, <1>21, <1>22 DEF Main

\* Each step of Config's callback keeps the invariant.
LEMMA ThreadKeeps ==
  ASSUME StartInv, ConfigThread
  PROVE  StartInv'
<1> USE DEF StartInv, TypeOK, SettingsKnown, SettingsCurrent, ThreadShape, LeavesKnown, StepsDone,
            OnePath, Settings, NoFault, ThreadStep, daemon, Read, Options
<1>1. CASE ReadService
  BY <1>1, StartupAssumption DEF ReadService
<1>2. CASE ReadFile
  BY <1>2, StartupAssumption DEF ReadFile
<1>3. CASE ReadRestart
  BY <1>3, StartupAssumption DEF ReadRestart
<1>4. CASE ReadAll
  BY <1>4, StartupAssumption DEF ReadAll
<1>5. CASE ReadFailed
  BY <1>5, StartupAssumption DEF ReadFailed
<1>6. CASE SkipDone
  <2> USE <1>6, StartupAssumption DEF SkipDone
  <2>1. TypeOK'
    <3>1. main' \in Running \union EndStates BY DEF Running
    <3>2. tries' \in 0..MaxTries /\ signals' \in 0..MaxSignals /\ faults' \in 0..MaxFaults OBVIOUS
    <3> QED BY <3>1, <3>2
  <2>2. SettingsKnown' /\ SettingsCurrent' BY DEF Options
  <2>3. ThreadShape' /\ LeavesKnown' BY DEF Options
  <2>4. StepsDone' /\ OnePath' BY DEF Options
  <2> QED BY <2>1, <2>2, <2>3, <2>4
<1>7. CASE Assign
  BY <1>7, StartupAssumption DEF Assign
<1>8. CASE Assigned
  BY <1>8, StartupAssumption DEF Assigned
<1> QED BY <1>1, <1>2, <1>3, <1>4, <1>5, <1>6, <1>7, <1>8 DEF ConfigThread

\* Every step keeps the invariant.
LEMMA StepKeeps == StartInv /\ [Next]_vars => StartInv'
<1> SUFFICES ASSUME StartInv, [Next]_vars PROVE StartInv' OBVIOUS
<1> USE DEF StartInv, TypeOK, SettingsKnown, SettingsCurrent, ThreadShape, LeavesKnown, StepsDone,
            OnePath, Settings, NoFault
<1>1. CASE Main BY <1>1, MainKeeps
<1>2. CASE ConfigThread BY <1>2, ThreadKeeps
<1>3. CASE CallThrows
  BY <1>3, UnwindKeeps, FaultsTyped DEF CallThrows, Throw
<1>4. CASE CallbackRefuses
  BY <1>4, UnwindKeeps, FaultsTyped DEF CallbackRefuses, Throw
<1>5. CASE CallbackDoneFails
  <2> USE <1>5, StartupAssumption DEF CallbackDoneFails, Fault, Subscribed, daemon, thread
  <2>1. TypeOK'
    <3>1. main' \in Running \union EndStates BY DEF Running
    <3>2. tries' \in 0..MaxTries /\ signals' \in 0..MaxSignals /\ faults' \in 0..MaxFaults OBVIOUS
    <3> QED BY <3>1, <3>2
  <2>2. SettingsKnown' /\ SettingsCurrent' BY DEF Options
  <2>3. ThreadShape' /\ LeavesKnown' BY DEF Options
  <2>4. StepsDone' /\ OnePath' BY DEF Options
  <2> QED BY <2>1, <2>2, <2>3, <2>4
<1>6. CASE ReadFails
  BY <1>6, StartupAssumption DEF ReadFails, Fault, ThreadStep, daemon
<1>7. CASE AssignFails
  BY <1>7, StartupAssumption DEF AssignFails, Fault, ThreadStep, daemon
<1>8. CASE Edit
  <2> USE <1>8, StartupAssumption DEF Edit, daemon
  <2>1. TypeOK'
    <3>1. main' \in Running \union EndStates BY DEF Running
    <3>2. tries' \in 0..MaxTries /\ signals' \in 0..MaxSignals /\ faults' \in 0..MaxFaults OBVIOUS
    <3> QED BY <3>1, <3>2
  <2>2. SettingsKnown' /\ SettingsCurrent' BY DEF Options
  <2>3. ThreadShape' /\ LeavesKnown' BY DEF Options
  <2>4. StepsDone' /\ OnePath' BY DEF Options
  <2> QED BY <2>1, <2>2, <2>3, <2>4
<1>9. CASE Restart
  <2> USE <1>9, StartupAssumption DEF Restart, daemon, thread
  <2>1. TypeOK'
    <3>1. main' \in Running \union EndStates BY DEF Running
    <3>2. tries' \in 0..MaxTries /\ signals' \in 0..MaxSignals /\ faults' \in 0..MaxFaults OBVIOUS
    <3> QED BY <3>1, <3>2
  <2>2. SettingsKnown' /\ SettingsCurrent' BY DEF Options
  <2>3. ThreadShape' /\ LeavesKnown' BY DEF Options
  <2>4. StepsDone' /\ OnePath' BY DEF Options
  <2> QED BY <2>1, <2>2, <2>3, <2>4
<1>10. CASE Signal
  <2>1. CASE handlers /\ ~doExit
    <3> USE <1>10, <2>1, StartupAssumption DEF Signal, thread
    <3>1. TypeOK'
      <4>1. main' \in Running \union EndStates BY DEF Running
      <4>2. tries' \in 0..MaxTries /\ signals' \in 0..MaxSignals /\ faults' \in 0..MaxFaults OBVIOUS
      <4> QED BY <4>1, <4>2
    <3>2. SettingsKnown' /\ SettingsCurrent' BY DEF Options
    <3>3. ThreadShape' /\ LeavesKnown' BY DEF Options
    <3>4. StepsDone' /\ OnePath' BY DEF Options
    <3> QED BY <3>1, <3>2, <3>3, <3>4
  <2>2. CASE ~(handlers /\ ~doExit)
    BY <1>10, <2>2, UnwindKeeps DEF Signal
  <2> QED BY <2>1, <2>2
<1>11. CASE UNCHANGED vars
  BY <1>11 DEF vars, daemon, thread
<1> QED BY <1>1, <1>2, <1>3, <1>4, <1>5, <1>6, <1>7, <1>8, <1>9, <1>10, <1>11 DEF Next

\* The invariant holds in every behaviour.
LEMMA StartInvariant == Spec => []StartInv
<1>1. Init => StartInv BY InitKeeps
<1>2. StartInv /\ [Next]_vars => StartInv' BY StepKeeps
<1> QED BY <1>1, <1>2, PTL DEF Spec

\* TypeOK: every variable keeps its type.
THEOREM StartTypeCorrect == Spec => []TypeOK
<1>1. StartInv => TypeOK BY DEF StartInv
<1> QED BY <1>1, StartInvariant, PTL

\* SettingsKnown: whatever Config's thread and main's patience do, main works with complete
\* settings once it has checked finished and failed.
THEOREM MainKnowsSettings == Spec => []SettingsKnown
<1>1. StartInv => SettingsKnown BY DEF StartInv
<1> QED BY <1>1, StartInvariant, PTL

\* SettingsCurrent: between events Config has the datastore's settings.
THEOREM ConfigCurrent == Spec => []SettingsCurrent
<1>1. StartInv => SettingsCurrent BY DEF StartInv
<1> QED BY <1>1, StartInvariant, PTL

\* ReadyMeansServing: READY is told when everything PowerDNS and the clients need is there.
THEOREM ReadyServes == Spec => []ReadyMeansServing
<1>1. StartInv => ReadyMeansServing
  BY DEF StartInv, StepsDone, OnePath, SettingsKnown, Settings, Options, ReadyMeansServing
<1> QED BY <1>1, StartInvariant, PTL
=============================================================================
