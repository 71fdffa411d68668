---------------------------- MODULE DeployProofs ----------------------------
(***************************************************************************)
(* Proofs about Deploy: type correctness, what the shim's markers          *)
(* guarantee, and that a careful operator always keeps a binary that       *)
(* serves, for any set of binaries and any choice of faults.               *)
(***************************************************************************)
EXTENDS Deploy, TLAPS

USE DeployAssumption

-----------------------------------------------------------------------------
(* Type correctness                                                        *)

\* The updates of the history are well typed.
LEMMA HistoryUpdates ==
  ASSUME hist \in History
  PROVE  /\ [hist EXCEPT !.marked = FALSE] \in History
         /\ [hist EXCEPT !.reverted = FALSE] \in History
         /\ [hist EXCEPT !.reverted = TRUE] \in History
         /\ \A b \in Bins : [hist EXCEPT !.marked = TRUE, !.known = @ \cup {b}] \in History
<1> USE DEF History
<1>1. [hist EXCEPT !.marked = FALSE] \in History OBVIOUS
<1>2. [hist EXCEPT !.reverted = FALSE] \in History OBVIOUS
<1>3. [hist EXCEPT !.reverted = TRUE] \in History OBVIOUS
<1>4. ASSUME NEW b \in Bins
      PROVE  [hist EXCEPT !.marked = TRUE, !.known = @ \cup {b}] \in History
  <2>1. (hist.known \cup {b}) \in SUBSET Bins OBVIOUS
  <2> QED BY <2>1
<1> QED BY <1>1, <1>2, <1>3, <1>4

\* The initial state is well typed.
LEMMA TypeInit == Init => TypeOK
<1> SUFFICES ASSUME Init PROVE TypeOK OBVIOUS
<1>1. hist \in History
  <2>1. {current} \in SUBSET Bins BY DEF Init
  <2> QED BY <2>1 DEF Init, History
<1> QED BY <1>1 DEF Init, TypeOK, Contents, NoState, Idle, Steps

\* Every step keeps the type of the history.
LEMMA HistoryNext ==
  ASSUME TypeOK, [Next]_vars
  PROVE  hist' \in History
<1>1. /\ hist \in History
      /\ Serving => run \in Bins
  BY DEF TypeOK, Serving
<1>2. CASE hist' = hist  BY <1>1, <1>2
<1>3. CASE StageSwap \/ RevertCopy
  BY <1>1, <1>3, HistoryUpdates DEF StageSwap, RevertCopy
<1>4. CASE WritePending  BY <1>1, <1>4, HistoryUpdates DEF WritePending
<1>5. CASE HealthState   BY <1>1, <1>5, HistoryUpdates DEF HealthState
<1>6. CASE RevertStart   BY <1>1, <1>6, HistoryUpdates DEF RevertStart
<1>7. CASE RevertEnd     BY <1>1, <1>7, HistoryUpdates DEF RevertEnd
<1> QED
  BY <1>2, <1>3, <1>4, <1>5, <1>6, <1>7
  DEF Next, Push, Stage, MarkHealthy, Revert, Begin, Handler, StageBackup,
      WriteState, HealthClear, ReExec, Die, Shim, SpawnVerified, SpawnFirst,
      RevertNot, Reboot, vars

\* The handlers of the daemon keep the types.
LEMMA TypeHandler ==
  ASSUME TypeOK, Handler
  PROVE  TypeOK'
<1> USE DEF TypeOK, Contents, Steps, Goto, Return, Idle, Serving, marks, slots
<1>0. hist' \in History  BY HistoryNext DEF Next
<1>1. CASE StageBackup   BY <1>0, <1>1 DEF StageBackup
<1>2. CASE StageSwap     BY <1>0, <1>2 DEF StageSwap
<1>3. CASE WriteState    BY <1>0, <1>3 DEF WriteState
<1>4. CASE WritePending
  <2>1. pending' \in BOOLEAN  BY <1>4 DEF WritePending
  <2>2. op' \in [rpc : {"none", "stage", "health", "revert"}, at : Steps, bin : Contents]
    BY <1>4 DEF WritePending
  <2> QED BY <1>0, <1>4, <2>1, <2>2 DEF WritePending
<1>5. CASE HealthState
  <2>1. state' \in [active : Contents, previous : Contents,
                    health : {"none", "pending", "ok"}]
    BY <1>5 DEF HealthState
  <2> QED BY <1>0, <1>5, <2>1 DEF HealthState
<1>6. CASE HealthClear
  <2>1. pending' \in BOOLEAN  BY <1>6 DEF HealthClear
  <2>2. op' \in [rpc : {"none", "stage", "health", "revert"}, at : Steps, bin : Contents]
    BY <1>6 DEF HealthClear
  <2> QED BY <1>0, <1>6, <2>1, <2>2 DEF HealthClear
<1>7. CASE RevertCopy    BY <1>0, <1>7 DEF RevertCopy
<1> QED BY <1>1, <1>2, <1>3, <1>4, <1>5, <1>6, <1>7 DEF Handler

\* So does the shim.
LEMMA TypeShim ==
  ASSUME TypeOK, Shim
  PROVE  TypeOK'
<1> USE DEF TypeOK, Contents, Launch, Failed, Respawning, marks, slots
<1>0. hist' \in History  BY HistoryNext DEF Next
<1>1. CASE SpawnVerified
  <2>1. UNCHANGED <<current, previous, state, shim, op, hist>>
        /\ pending' = FALSE /\ attempt' = FALSE
    BY <1>1 DEF SpawnVerified
  <2>2. run' \in Bins \cup {None} /\ staged' \in Bins \cup {None}
    BY <1>1 DEF SpawnVerified
  <2> QED BY <2>1, <2>2
<1>2. CASE SpawnFirst    BY <1>0, <1>2 DEF SpawnFirst
<1>3. CASE RevertStart   BY <1>0, <1>3 DEF RevertStart
<1>4. CASE RevertEnd     BY <1>0, <1>4 DEF RevertEnd
<1>5. CASE RevertNot     BY <1>0, <1>5 DEF RevertNot
<1> QED BY <1>1, <1>2, <1>3, <1>4, <1>5 DEF Shim

\* So does every step.
LEMMA TypeNext ==
  ASSUME TypeOK, [Next]_vars
  PROVE  TypeOK'
<1> USE DEF TypeOK, Contents
<1>0. hist' \in History  BY HistoryNext
<1>1. ASSUME NEW b \in Bins, Push(b) PROVE TypeOK'
  BY <1>1 DEF Push, marks
<1>2. CASE Stage         BY <1>2 DEF Stage, Begin, Steps, slots, marks
<1>3. CASE MarkHealthy   BY <1>3 DEF MarkHealthy, Begin, Steps, slots, marks
<1>4. CASE Revert        BY <1>4 DEF Revert, Begin, Steps, slots, marks
<1>5. CASE Handler       BY <1>5, TypeHandler
<1>6. CASE ReExec        BY <1>0, <1>6 DEF ReExec, Launch, Idle, Steps, marks
<1>7. CASE Die           BY <1>7 DEF Die, Idle, Steps, slots, marks
<1>8. CASE Shim          BY <1>8, TypeShim
<1>9. CASE Reboot        BY <1>9 DEF Reboot, NoState, Idle, Steps, slots
<1>10. CASE UNCHANGED vars BY <1>10 DEF vars, slots, marks
<1> QED BY <1>1, <1>2, <1>3, <1>4, <1>5, <1>6, <1>7, <1>8, <1>9, <1>10 DEF Next

\* Every reachable state is well typed, whatever fails and however the operator
\* works.
THEOREM TypeCorrect == Spec => []TypeOK
<1>1. Init => TypeOK BY TypeInit
<1>2. TypeOK /\ [Next]_vars => TypeOK' BY TypeNext
<1> QED BY <1>1, <1>2, PTL DEF Spec

-----------------------------------------------------------------------------
(* What the shim's markers guarantee                                       *)

\* Every step keeps what the markers say of the deploy.
LEMMA MarkersNext ==
  ASSUME TypeOK, MarkersInv, [Next]_vars
  PROVE  MarkersInv'
<1> USE DEF MarkersInv, Idle, History
<1>0. /\ hist \in History
      /\ op \in [rpc : {"none", "stage", "health", "revert"}, at : Steps, bin : Contents]
      /\ state \in [active : Contents, previous : Contents,
                    health : {"none", "pending", "ok"}]
      /\ Serving => run # None
      /\ run # None => shim = "idle"
  BY DEF TypeOK, Serving
<1>1. ASSUME NEW b \in Bins, Push(b) PROVE MarkersInv'
  BY <1>0, <1>1 DEF Push, marks
<1>2. CASE Stage         BY <1>0, <1>2 DEF Stage, Begin, slots, marks
<1>3. CASE MarkHealthy   BY <1>0, <1>3 DEF MarkHealthy, Begin, slots, marks
<1>4. CASE Revert        BY <1>0, <1>4 DEF Revert, Begin, slots, marks
<1>5. CASE Handler
  <2> USE <1>0 DEF Goto, Return, marks, slots
  <2>1. CASE StageBackup   BY <2>1 DEF StageBackup
  <2>2. CASE StageSwap \/ RevertCopy
    <3>1. CASE hist' = [hist EXCEPT !.marked = FALSE]
      <4>1. ~hist'.marked /\ hist'.reverted = hist.reverted  BY <3>1
      <4>2. /\ run' = run /\ shim' = shim /\ pending' = pending
            /\ run # None /\ op # Idle
        BY <2>2 DEF StageSwap, RevertCopy
      <4> QED BY <4>1, <4>2
    <3>2. CASE hist' = hist /\ op' = Idle
      BY <2>2, <3>2 DEF StageSwap, RevertCopy
    <3> QED BY <2>2, <3>1, <3>2 DEF StageSwap, RevertCopy
  <2>3. CASE WriteState    BY <2>3 DEF WriteState
  <2>4. CASE WritePending  BY <2>4 DEF WritePending
  <2>5. CASE HealthState
    <3>1. /\ run' = run /\ shim' = shim /\ pending' = pending
          /\ run # None /\ op # Idle
      BY <2>5 DEF HealthState
    <3>2. CASE op' = Idle  BY <2>5, <3>1, <3>2 DEF HealthState
    <3>3. CASE op' # Idle
      <4>1. state'.health = "ok"  BY <2>5, <3>3 DEF HealthState
      <4>2. hist'.reverted = hist.reverted  BY <2>5, <3>3 DEF HealthState
      <4>3. op'.at = "clear"  BY <2>5, <3>3 DEF HealthState
      <4> QED BY <3>1, <4>1, <4>2, <4>3
    <3> QED BY <3>2, <3>3
  <2>6. CASE HealthClear   BY <2>6 DEF HealthClear
  <2> QED BY <1>5, <2>1, <2>2, <2>3, <2>4, <2>5, <2>6 DEF Handler
<1>6. CASE ReExec        BY <1>0, <1>6 DEF ReExec, Launch, Serving, marks
<1>7. CASE Die           BY <1>0, <1>7 DEF Die, slots, marks
<1>8. CASE Shim
  <2> USE <1>0 DEF Launch, Failed, Respawning, marks, slots
  <2>1. CASE SpawnVerified BY <2>1 DEF SpawnVerified
  <2>2. CASE SpawnFirst    BY <2>2 DEF SpawnFirst
  <2>3. CASE RevertStart   BY <2>3 DEF RevertStart
  <2>4. CASE RevertEnd     BY <2>4 DEF RevertEnd
  <2>5. CASE RevertNot     BY <2>5 DEF RevertNot
  <2> QED BY <1>8, <2>1, <2>2, <2>3, <2>4, <2>5 DEF Shim
<1>9. CASE Reboot        BY <1>0, <1>9 DEF Reboot, slots
<1>10. CASE UNCHANGED vars BY <1>0, <1>10 DEF vars, slots, marks
<1> QED BY <1>1, <1>2, <1>3, <1>4, <1>5, <1>6, <1>7, <1>8, <1>9, <1>10 DEF Next

\* A binary marked healthy keeps health=ok as long as it is up for verification,
\* and a reverted one is not up for verification.
THEOREM MarkersCorrect == Spec => []MarkersInv
<1>1. Init => MarkersInv
  BY DEF Init, MarkersInv, Idle, NoState
<1>2. TypeOK /\ MarkersInv /\ [Next]_vars => MarkersInv'
  BY MarkersNext
<1> QED BY <1>1, <1>2, TypeCorrect, PTL DEF Spec

\* The shim never reverts a deploy that was marked healthy.
THEOREM HealthyStays == Spec => HealthyNeverReverted
<1>1. MarkersInv /\ [Next]_vars => [RevertStart => ~hist.marked]_vars
  BY DEF MarkersInv, RevertStart, Failed, Respawning
<1> QED BY <1>1, MarkersCorrect, PTL DEF Spec, HealthyNeverReverted

\* A crash loop is reverted at most once per deploy.
THEOREM RevertedOnce == Spec => OneRevertPerDeploy
<1>1. MarkersInv /\ [Next]_vars => [RevertStart => ~hist.reverted]_vars
  BY DEF MarkersInv, RevertStart, Failed, Respawning
<1> QED BY <1>1, MarkersCorrect, PTL DEF Spec, OneRevertPerDeploy

-----------------------------------------------------------------------------
(* The slots under a careful operator                                      *)

\* With a careful operator every step leaves a serving binary in a slot.
LEMMA SlotsNext ==
  ASSUME Careful, TypeOK, MarkersInv, SlotsInv, [Next]_vars
  PROVE  SlotsInv'
<1> USE DEF TypeOK, MarkersInv, SlotsInv, GoodBinaryRemains, Idle, Serving
<1>1. ASSUME NEW b \in Bins, Push(b) PROVE SlotsInv'
  BY <1>1 DEF Push, marks
<1>2. CASE Stage         BY <1>2 DEF Stage, Begin, slots, marks
<1>3. CASE MarkHealthy   BY <1>3 DEF MarkHealthy, Begin, slots, marks
<1>4. CASE Revert        BY <1>4 DEF Revert, Begin, slots, marks
<1>5. CASE Handler
  <2> USE <1>5 DEF Goto, Return, marks, slots
  <2>1. CASE StageBackup   BY <2>1 DEF StageBackup
  <2>2. CASE StageSwap     BY <2>2 DEF StageSwap
  <2>3. CASE WriteState    BY <2>3 DEF WriteState
  <2>4. CASE WritePending  BY <2>4 DEF WritePending
  <2>5. CASE HealthState   BY <2>5 DEF HealthState
  <2>6. CASE HealthClear   BY <2>6 DEF HealthClear
  <2>7. CASE RevertCopy    BY <2>7 DEF RevertCopy
  <2> QED BY <2>1, <2>2, <2>3, <2>4, <2>5, <2>6, <2>7 DEF Handler
<1>6. CASE ReExec        BY <1>6 DEF ReExec, Launch, marks
<1>7. CASE Die           BY <1>7 DEF Die, slots, marks
<1>8. CASE Shim
  <2> USE <1>8 DEF Launch, Failed, Respawning, marks, slots
  <2>1. CASE SpawnVerified BY <2>1 DEF SpawnVerified
  <2>2. CASE SpawnFirst    BY <2>2 DEF SpawnFirst
  <2>3. CASE RevertStart   BY <2>3 DEF RevertStart
  <2>4. CASE RevertEnd     BY <2>4 DEF RevertEnd
  <2>5. CASE RevertNot     BY <2>5 DEF RevertNot
  <2> QED BY <2>1, <2>2, <2>3, <2>4, <2>5 DEF Shim
<1>9. CASE Reboot        BY <1>9 DEF Reboot, slots
<1>10. CASE UNCHANGED vars BY <1>10 DEF vars, slots, marks
<1> QED BY <1>1, <1>2, <1>3, <1>4, <1>5, <1>6, <1>7, <1>8, <1>9, <1>10 DEF Next

\* (careful operator) What is in the slots, in the hands of a handler and under
\* the shim's copy is consistent enough to keep a binary that serves.
THEOREM SlotsCorrect ==
  ASSUME Careful
  PROVE  Spec => []SlotsInv
<1>1. Init => SlotsInv
  BY DEF Init, SlotsInv, GoodBinaryRemains, Idle
<1>2. TypeOK /\ MarkersInv /\ SlotsInv /\ [Next]_vars => SlotsInv'
  BY SlotsNext
<1> QED BY <1>1, <1>2, TypeCorrect, MarkersCorrect, PTL DEF Spec

\* (careful operator) A binary that serves is always left in one of the slots.
THEOREM GoodBinaryKept ==
  ASSUME Careful
  PROVE  Spec => []GoodBinaryRemains
<1>1. SlotsInv => GoodBinaryRemains BY DEF SlotsInv
<1> QED BY <1>1, SlotsCorrect, PTL

=============================================================================
