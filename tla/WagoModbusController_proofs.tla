--------------------- MODULE WagoModbusController_proofs ---------------------
(***************************************************************************)
(* Proofs about WagoModbusController, for any set of relays and shutters,  *)
(* any run times, commands and channel bound.                              *)
(***************************************************************************)
EXTENDS WagoModbusController, TLAPS

USE DEF Output, Direction, Purpose, Location

\* The values the controller publishes are values.
LEMMA PublishedValues ==
  /\ \A b \in BOOLEAN: BoolVal(b) \in IOValueSet
  /\ \A dir \in Direction: /\ ShutterVal(dir) \in IOValueSet
                           /\ ShutterVal(Moving(dir)) \in IOValueSet
BY DEF BoolVal, ShutterVal, IOValueSet, ShutterState, Moving

\* A move goes up or down, whatever the command carries.
LEMMA DirectionOfType == \A v: DirectionOf(v) \in Direction
BY DEF DirectionOf

\* The invariant holds before the first start.
LEMMA InitIInv == Init => IInv
<1> SUFFICES ASSUME Init PROVE IInv
  OBVIOUS
<1> USE DEF Init
<1>1. TypeOK
  BY RxCapacityAssumption DEF TypeOK, NoTask, NoJob
<1>2. JobFits /\ LoopFits /\ OffBeforeOn
  BY IdsAssumption DEF JobFits, LoopFits, OffBeforeOn, NoJob, NoTask, Armed, Starting, Expiring
<1>3. Interlock /\ MotionTimed
  BY DEF Interlock, MotionTimed
<1> QED
  BY <1>1, <1>2, <1>3 DEF IInv

\* Each action keeps the invariant: one step for each, and under it the parts of
\* the invariant the action can disturb.
LEMMA StepIInv == IInv /\ [Next]_vars => IInv'
<1> SUFFICES ASSUME IInv, [Next]_vars PROVE IInv'
  OBVIOUS
<1>0. TypeOK /\ JobFits /\ LoopFits /\ OffBeforeOn /\ Interlock /\ MotionTimed
  BY DEF IInv
<1> USE DEF plc, ctx, loop
<1>1. CASE Restart
  <2> USE <1>1 DEF Restart
  <2>1. TypeOK'
    BY <1>0, IdsAssumption, RunTimeAssumption, RxCapacityAssumption, PublishedValues DEF TypeOK, JobFits
  <2>2. JobFits'
    BY <1>0, IdsAssumption DEF TypeOK, JobFits, NoJob, Due, Armed
  <2>3. LoopFits'
    BY <1>0, IdsAssumption DEF TypeOK, JobFits, LoopFits, OffBeforeOn, Starting, Expiring, Due, Armed, NoJob
  <2>4. OffBeforeOn' /\ Interlock'
    BY <1>0, IdsAssumption DEF TypeOK, JobFits, OffBeforeOn, Interlock, NoJob
  <2>5. MotionTimed'
    BY <1>0, IdsAssumption DEF TypeOK, JobFits, LoopFits, OffBeforeOn, MotionTimed, Unstarted, Starting, Expiring, NoJob
  <2> QED
    BY <2>1, <2>2, <2>3, <2>4, <2>5 DEF IInv
<1>2. ASSUME NEW c \in Command, Send(c) PROVE IInv'
  <2> USE <1>2 DEF Send
  <2>1. TypeOK'
    BY <1>0, IdsAssumption, RunTimeAssumption, RxCapacityAssumption, PublishedValues DEF TypeOK, JobFits
  <2>2. JobFits'
    BY <1>0, IdsAssumption DEF TypeOK, JobFits, NoJob, Due, Armed
  <2>3. LoopFits'
    BY <1>0, IdsAssumption DEF TypeOK, JobFits, LoopFits, OffBeforeOn, Starting, Expiring, Due, Armed, NoJob
  <2>4. OffBeforeOn' /\ Interlock'
    BY <1>0, IdsAssumption DEF TypeOK, JobFits, OffBeforeOn, Interlock, NoJob
  <2>5. MotionTimed'
    BY <1>0, IdsAssumption DEF TypeOK, JobFits, LoopFits, OffBeforeOn, MotionTimed, Unstarted, Starting, Expiring, NoJob
  <2> QED
    BY <2>1, <2>2, <2>3, <2>4, <2>5 DEF IInv
<1>3. CASE RecvIgnored
  <2> USE <1>3 DEF RecvIgnored, Receive
  <2>1. TypeOK'
    BY <1>0, IdsAssumption, RunTimeAssumption, RxCapacityAssumption, PublishedValues DEF TypeOK, JobFits
  <2>2. JobFits'
    BY <1>0, IdsAssumption DEF TypeOK, JobFits, NoJob, Due, Armed
  <2>3. LoopFits'
    BY <1>0, IdsAssumption DEF TypeOK, JobFits, LoopFits, OffBeforeOn, Starting, Expiring, Due, Armed, NoJob
  <2>4. OffBeforeOn' /\ Interlock'
    BY <1>0, IdsAssumption DEF TypeOK, JobFits, OffBeforeOn, Interlock, NoJob
  <2>5. MotionTimed'
    BY <1>0, IdsAssumption DEF TypeOK, JobFits, LoopFits, OffBeforeOn, MotionTimed, Unstarted, Starting, Expiring, NoJob
  <2> QED
    BY <2>1, <2>2, <2>3, <2>4, <2>5 DEF IInv
<1>4. CASE RecvWrite
  <2> USE <1>4 DEF RecvWrite, Receive, Serve
  <2>1. TypeOK'
    BY <1>0, IdsAssumption, RunTimeAssumption, RxCapacityAssumption, PublishedValues DEF TypeOK, JobFits
  <2>2. JobFits'
    BY <1>0, IdsAssumption DEF TypeOK, JobFits, NoJob, Due, Armed
  <2>3. LoopFits'
    BY <1>0, IdsAssumption DEF TypeOK, JobFits, LoopFits, OffBeforeOn, Starting, Expiring, Due, Armed, NoJob
  <2>4. OffBeforeOn' /\ Interlock'
    BY <1>0, IdsAssumption DEF TypeOK, JobFits, OffBeforeOn, Interlock, NoJob
  <2>5. MotionTimed'
    BY <1>0, IdsAssumption DEF TypeOK, JobFits, LoopFits, OffBeforeOn, MotionTimed, Unstarted, Starting, Expiring, NoJob
  <2> QED
    BY <2>1, <2>2, <2>3, <2>4, <2>5 DEF IInv
<1>5. CASE RecvMove
  <2> USE <1>5 DEF RecvMove, Receive, Serve
  <2>1. TypeOK'
    <3>1. job' \in [id: Output \cup {None}, why: Purpose]
      BY DirectionOfType
    <3>2. rx' \in Seq(Command) /\ Len(rx') <= RxCapacity
      BY <1>0, RxCapacityAssumption DEF TypeOK
    <3> QED
      BY <1>0, <3>1, <3>2 DEF TypeOK
  <2>2. JobFits'
    BY <1>0, IdsAssumption, DirectionOfType DEF TypeOK, JobFits
  <2>3. LoopFits'
    <3>1. job'.why \in Direction
      BY DirectionOfType
    <3> QED
      BY <1>0, <3>1, IdsAssumption DEF TypeOK, JobFits, LoopFits, Starting, Expiring, Due, Armed, NoJob
  <2>4. OffBeforeOn' /\ Interlock'
    BY <1>0, IdsAssumption DEF TypeOK, JobFits, OffBeforeOn, Interlock, NoJob
  <2>5. MotionTimed'
    BY <1>0, IdsAssumption DEF TypeOK, JobFits, LoopFits, OffBeforeOn, MotionTimed, Unstarted, Starting, Expiring, NoJob
  <2> QED
    BY <2>1, <2>2, <2>3, <2>4, <2>5 DEF IInv
<1>6. CASE RecvHalt
  <2> USE <1>6 DEF RecvHalt, Receive, Serve
  <2>1. TypeOK'
    BY <1>0, IdsAssumption, RunTimeAssumption, RxCapacityAssumption, PublishedValues DEF TypeOK, JobFits
  <2>2. JobFits'
    BY <1>0, IdsAssumption DEF TypeOK, JobFits, NoJob, Due, Armed
  <2>3. LoopFits'
    BY <1>0, IdsAssumption DEF TypeOK, JobFits, LoopFits, OffBeforeOn, Starting, Expiring, Due, Armed, NoJob
  <2>4. OffBeforeOn' /\ Interlock'
    BY <1>0, IdsAssumption DEF TypeOK, JobFits, OffBeforeOn, Interlock, NoJob
  <2>5. MotionTimed'
    BY <1>0, IdsAssumption DEF TypeOK, JobFits, LoopFits, OffBeforeOn, MotionTimed, Unstarted, Starting, Expiring, NoJob
  <2> QED
    BY <2>1, <2>2, <2>3, <2>4, <2>5 DEF IInv
<1>7. CASE BeginExpiry
  <2> USE <1>7 DEF BeginExpiry
  <2>1. TypeOK'
    BY <1>0 DEF TypeOK, Due
  <2>2. JobFits'
    BY <1>0, IdsAssumption DEF TypeOK, JobFits, NoJob, Due, Armed
  <2>3. LoopFits'
    BY <1>0, IdsAssumption DEF TypeOK, JobFits, LoopFits, OffBeforeOn, Starting, Expiring, Due, Armed, NoJob
  <2>4. OffBeforeOn' /\ Interlock'
    BY <1>0, IdsAssumption DEF TypeOK, JobFits, OffBeforeOn, Interlock, NoJob
  <2>5. MotionTimed'
    BY <1>0, IdsAssumption DEF TypeOK, JobFits, LoopFits, OffBeforeOn, MotionTimed, Unstarted, Starting, Expiring, NoJob
  <2> QED
    BY <2>1, <2>2, <2>3, <2>4, <2>5 DEF IInv
<1>8. CASE BeginKeepAlive
  <2> USE <1>8 DEF BeginKeepAlive
  <2>1. TypeOK'
    BY <1>0, IdsAssumption, RunTimeAssumption, RxCapacityAssumption, PublishedValues DEF TypeOK, JobFits
  <2>2. JobFits'
    BY <1>0, IdsAssumption DEF TypeOK, JobFits, NoJob, Due, Armed
  <2>3. LoopFits'
    BY <1>0, IdsAssumption DEF TypeOK, JobFits, LoopFits, OffBeforeOn, Starting, Expiring, Due, Armed, NoJob
  <2>4. OffBeforeOn' /\ Interlock'
    BY <1>0, IdsAssumption DEF TypeOK, JobFits, OffBeforeOn, Interlock, NoJob
  <2>5. MotionTimed'
    BY <1>0, IdsAssumption DEF TypeOK, JobFits, LoopFits, OffBeforeOn, MotionTimed, Unstarted, Starting, Expiring, NoJob
  <2> QED
    BY <2>1, <2>2, <2>3, <2>4, <2>5 DEF IInv
<1>9. ASSUME NEW d \in Digital, StartDigital(d) PROVE IInv'
  <2> USE <1>9 DEF StartDigital, update_state
  <2>1. TypeOK'
    BY <1>0, IdsAssumption, RunTimeAssumption, RxCapacityAssumption, PublishedValues DEF TypeOK, JobFits
  <2>2. JobFits'
    BY <1>0, IdsAssumption DEF TypeOK, JobFits, NoJob, Due, Armed
  <2>3. LoopFits'
    BY <1>0, IdsAssumption DEF TypeOK, JobFits, LoopFits, OffBeforeOn, Starting, Expiring, Due, Armed, NoJob
  <2>4. OffBeforeOn' /\ Interlock'
    BY <1>0, IdsAssumption DEF TypeOK, JobFits, OffBeforeOn, Interlock, NoJob
  <2>5. MotionTimed'
    BY <1>0, IdsAssumption DEF TypeOK, JobFits, LoopFits, OffBeforeOn, MotionTimed, Unstarted, Starting, Expiring, NoJob
  <2> QED
    BY <2>1, <2>2, <2>3, <2>4, <2>5 DEF IInv
<1>10. ASSUME NEW s \in Shutter, StartShutter(s) PROVE IInv'
  <2> USE <1>10 DEF StartShutter, Serve
  <2>1. TypeOK'
    BY <1>0, IdsAssumption, RunTimeAssumption, RxCapacityAssumption, PublishedValues DEF TypeOK, JobFits
  <2>2. JobFits'
    BY <1>0, IdsAssumption DEF TypeOK, JobFits, NoJob, Due, Armed
  <2>3. LoopFits'
    BY <1>0, IdsAssumption DEF TypeOK, JobFits, LoopFits, OffBeforeOn, Starting, Expiring, Due, Armed, NoJob
  <2>4. OffBeforeOn' /\ Interlock'
    BY <1>0, IdsAssumption DEF TypeOK, JobFits, OffBeforeOn, Interlock, NoJob
  <2>5. MotionTimed'
    BY <1>0, IdsAssumption DEF TypeOK, JobFits, LoopFits, OffBeforeOn, MotionTimed, Unstarted, Starting, Expiring, NoJob
  <2> QED
    BY <2>1, <2>2, <2>3, <2>4, <2>5 DEF IInv
<1>11. CASE EnterLoop
  <2> USE <1>11 DEF EnterLoop
  <2>1. TypeOK'
    BY <1>0, IdsAssumption, RunTimeAssumption, RxCapacityAssumption, PublishedValues DEF TypeOK, JobFits
  <2>2. JobFits'
    BY <1>0, IdsAssumption DEF TypeOK, JobFits, NoJob, Due, Armed
  <2>3. LoopFits'
    BY <1>0, IdsAssumption DEF TypeOK, JobFits, LoopFits, OffBeforeOn, Starting, Expiring, Due, Armed, NoJob
  <2>4. OffBeforeOn' /\ Interlock'
    BY <1>0, IdsAssumption DEF TypeOK, JobFits, OffBeforeOn, Interlock, NoJob
  <2>5. MotionTimed'
    BY <1>0, IdsAssumption DEF TypeOK, JobFits, LoopFits, OffBeforeOn, MotionTimed, Unstarted, Starting, Expiring, NoJob
  <2> QED
    BY <2>1, <2>2, <2>3, <2>4, <2>5 DEF IInv
<1>12. CASE WriteCoil
  <2> USE <1>12 DEF WriteCoil, update_state, NoJob
  <2>1. TypeOK'
    BY <1>0, IdsAssumption, RunTimeAssumption, RxCapacityAssumption, PublishedValues DEF TypeOK, JobFits
  <2>2. JobFits'
    BY <1>0, IdsAssumption DEF TypeOK, JobFits, NoJob, Due, Armed
  <2>3. LoopFits'
    BY <1>0, IdsAssumption DEF TypeOK, JobFits, LoopFits, OffBeforeOn, Starting, Expiring, Due, Armed, NoJob
  <2>4. OffBeforeOn' /\ Interlock'
    BY <1>0, IdsAssumption DEF TypeOK, JobFits, OffBeforeOn, Interlock, NoJob
  <2>5. MotionTimed'
    BY <1>0, IdsAssumption DEF TypeOK, JobFits, LoopFits, OffBeforeOn, MotionTimed, Unstarted, Starting, Expiring, NoJob
  <2> QED
    BY <2>1, <2>2, <2>3, <2>4, <2>5 DEF IInv
<1>13. CASE StopDown
  <2> USE <1>13 DEF StopDown
  <2>1. TypeOK'
    BY <1>0, IdsAssumption, RunTimeAssumption, RxCapacityAssumption, PublishedValues DEF TypeOK, JobFits
  <2>2. JobFits'
    BY <1>0, IdsAssumption DEF TypeOK, JobFits, NoJob, Due, Armed
  <2>3. LoopFits'
    BY <1>0, IdsAssumption DEF TypeOK, JobFits, LoopFits, OffBeforeOn, Starting, Expiring, Due, Armed, NoJob
  <2>4. OffBeforeOn' /\ Interlock'
    BY <1>0, IdsAssumption DEF TypeOK, JobFits, OffBeforeOn, Interlock, NoJob
  <2>5. MotionTimed'
    BY <1>0, IdsAssumption DEF TypeOK, JobFits, LoopFits, OffBeforeOn, MotionTimed, Unstarted, Starting, Expiring, NoJob
  <2> QED
    BY <2>1, <2>2, <2>3, <2>4, <2>5 DEF IInv
<1>14. CASE StopThenStart
  <2> USE <1>14 DEF StopThenStart, StopUp, NoJob
  <2>1. TypeOK'
    BY <1>0, IdsAssumption, RunTimeAssumption, RxCapacityAssumption, PublishedValues DEF TypeOK, JobFits
  <2>2. JobFits'
    BY <1>0, IdsAssumption DEF TypeOK, JobFits, NoJob, Due, Armed
  <2>3. LoopFits'
    BY <1>0, IdsAssumption DEF TypeOK, JobFits, LoopFits, OffBeforeOn, Starting, Expiring, Due, Armed, NoJob
  <2>4. OffBeforeOn' /\ Interlock'
    BY <1>0, IdsAssumption DEF TypeOK, JobFits, OffBeforeOn, Interlock, NoJob
  <2>5. MotionTimed'
    BY <1>0, IdsAssumption DEF TypeOK, JobFits, LoopFits, OffBeforeOn, MotionTimed, Unstarted, Starting, Expiring, NoJob
  <2> QED
    BY <2>1, <2>2, <2>3, <2>4, <2>5 DEF IInv
<1>15. CASE StopThenMove
  <2> USE <1>15 DEF StopThenMove, StopUp
  <2>1. TypeOK'
    BY <1>0, IdsAssumption, RunTimeAssumption, RxCapacityAssumption, PublishedValues DEF TypeOK, JobFits
  <2>2. JobFits'
    BY <1>0, IdsAssumption DEF TypeOK, JobFits, NoJob, Due, Armed
  <2>3. LoopFits'
    BY <1>0, IdsAssumption DEF TypeOK, JobFits, LoopFits, OffBeforeOn, Starting, Expiring, Due, Armed, NoJob
  <2>4. OffBeforeOn' /\ Interlock'
    BY <1>0, IdsAssumption DEF TypeOK, JobFits, OffBeforeOn, Interlock, NoJob
  <2>5. MotionTimed'
    BY <1>0, IdsAssumption DEF TypeOK, JobFits, LoopFits, OffBeforeOn, MotionTimed, Unstarted, Starting, Expiring, NoJob
  <2> QED
    BY <2>1, <2>2, <2>3, <2>4, <2>5 DEF IInv
<1>16. CASE StopThenHalt
  <2> USE <1>16 DEF StopThenHalt, StopUp, update_state, NoJob, NoTask
  <2>1. TypeOK'
    BY <1>0, IdsAssumption, RunTimeAssumption, RxCapacityAssumption, PublishedValues DEF TypeOK, JobFits
  <2>2. JobFits'
    BY <1>0, IdsAssumption DEF TypeOK, JobFits, NoJob, Due, Armed
  <2>3. LoopFits'
    BY <1>0, IdsAssumption DEF TypeOK, JobFits, LoopFits, OffBeforeOn, Starting, Expiring, Due, Armed, NoJob
  <2>4. OffBeforeOn' /\ Interlock'
    BY <1>0, IdsAssumption DEF TypeOK, JobFits, OffBeforeOn, Interlock, NoJob
  <2>5. MotionTimed'
    BY <1>0, IdsAssumption DEF TypeOK, JobFits, LoopFits, OffBeforeOn, MotionTimed, Unstarted, Starting, Expiring, NoJob
  <2> QED
    BY <2>1, <2>2, <2>3, <2>4, <2>5 DEF IInv
<1>17. CASE StopThenExpire
  <2> USE <1>17 DEF StopThenExpire, StopUp, update_state, NoJob
  <2>1. TypeOK'
    <3>1. job.id \in Shutter /\ task[job.id].target \in Direction
      BY <1>0 DEF TypeOK, JobFits, Due, Armed
    <3> QED
      BY <1>0, <3>1, PublishedValues DEF TypeOK
  <2>2. JobFits'
    BY <1>0, IdsAssumption DEF TypeOK, JobFits, NoJob, Due, Armed
  <2>3. LoopFits'
    BY <1>0, IdsAssumption DEF TypeOK, JobFits, LoopFits, OffBeforeOn, Starting, Expiring, Due, Armed, NoJob
  <2>4. OffBeforeOn' /\ Interlock'
    BY <1>0, IdsAssumption DEF TypeOK, JobFits, OffBeforeOn, Interlock, NoJob
  <2>5. MotionTimed'
    BY <1>0, IdsAssumption DEF TypeOK, JobFits, LoopFits, OffBeforeOn, MotionTimed, Unstarted, Starting, Expiring, NoJob
  <2> QED
    BY <2>1, <2>2, <2>3, <2>4, <2>5 DEF IInv
<1>18. CASE SwitchOn
  <2> USE <1>18 DEF SwitchOn, update_state, NoJob
  <2>1. TypeOK'
    BY <1>0, IdsAssumption, RunTimeAssumption, RxCapacityAssumption, PublishedValues DEF TypeOK, JobFits
  <2>2. JobFits'
    BY <1>0, IdsAssumption DEF TypeOK, JobFits, NoJob, Due, Armed
  <2>3. LoopFits'
    BY <1>0, IdsAssumption DEF TypeOK, JobFits, LoopFits, OffBeforeOn, Starting, Expiring, Due, Armed, NoJob
  <2>4. OffBeforeOn' /\ Interlock'
    BY <1>0, IdsAssumption DEF TypeOK, JobFits, OffBeforeOn, Interlock, NoJob
  <2>5. MotionTimed'
    BY <1>0, IdsAssumption DEF TypeOK, JobFits, LoopFits, OffBeforeOn, MotionTimed, Unstarted, Starting, Expiring, NoJob
  <2> QED
    BY <2>1, <2>2, <2>3, <2>4, <2>5 DEF IInv
<1>19. ASSUME NEW s \in Shutter, ExpireNext(s) PROVE IInv'
  <2> USE <1>19 DEF ExpireNext, Serve
  <2>1. TypeOK'
    BY <1>0, IdsAssumption, RunTimeAssumption, RxCapacityAssumption, PublishedValues DEF TypeOK, JobFits
  <2>2. JobFits'
    BY <1>0, IdsAssumption DEF TypeOK, JobFits, LoopFits, Starting, NoJob, Due, Armed
  <2>3. LoopFits'
    BY <1>0, IdsAssumption DEF TypeOK, JobFits, LoopFits, OffBeforeOn, Starting, Expiring, Due, Armed, NoJob
  <2>4. OffBeforeOn' /\ Interlock'
    BY <1>0, IdsAssumption DEF TypeOK, JobFits, OffBeforeOn, Interlock, NoJob
  <2>5. MotionTimed'
    BY <1>0, IdsAssumption DEF TypeOK, JobFits, LoopFits, OffBeforeOn, MotionTimed, Unstarted, Starting, Expiring, NoJob
  <2> QED
    BY <2>1, <2>2, <2>3, <2>4, <2>5 DEF IInv
<1>20. CASE EndExpiry
  <2> USE <1>20 DEF EndExpiry, Forget, NoTask
  <2>1. TypeOK'
    BY <1>0, IdsAssumption, RunTimeAssumption, RxCapacityAssumption, PublishedValues DEF TypeOK, JobFits
  <2>2. JobFits'
    BY <1>0, IdsAssumption DEF TypeOK, JobFits, NoJob, Due, Armed
  <2>3. LoopFits'
    BY <1>0, IdsAssumption DEF TypeOK, JobFits, LoopFits, OffBeforeOn, Starting, Expiring, Due, Armed, NoJob
  <2>4. OffBeforeOn' /\ Interlock'
    BY <1>0, IdsAssumption DEF TypeOK, JobFits, OffBeforeOn, Interlock, NoJob
  <2>5. MotionTimed'
    BY <1>0, IdsAssumption DEF TypeOK, JobFits, LoopFits, OffBeforeOn, MotionTimed, Unstarted, Starting, Expiring, NoJob
  <2> QED
    BY <2>1, <2>2, <2>3, <2>4, <2>5 DEF IInv
<1>21. CASE EndKeepAlive
  <2> USE <1>21 DEF EndKeepAlive
  <2>1. TypeOK'
    BY <1>0, IdsAssumption, RunTimeAssumption, RxCapacityAssumption, PublishedValues DEF TypeOK, JobFits
  <2>2. JobFits'
    BY <1>0, IdsAssumption DEF TypeOK, JobFits, NoJob, Due, Armed
  <2>3. LoopFits'
    BY <1>0, IdsAssumption DEF TypeOK, JobFits, LoopFits, OffBeforeOn, Starting, Expiring, Due, Armed, NoJob
  <2>4. OffBeforeOn' /\ Interlock'
    BY <1>0, IdsAssumption DEF TypeOK, JobFits, OffBeforeOn, Interlock, NoJob
  <2>5. MotionTimed'
    BY <1>0, IdsAssumption DEF TypeOK, JobFits, LoopFits, OffBeforeOn, MotionTimed, Unstarted, Starting, Expiring, NoJob
  <2> QED
    BY <2>1, <2>2, <2>3, <2>4, <2>5 DEF IInv
<1>22. CASE Tick
  <2> USE <1>22 DEF Tick
  <2>1. TypeOK'
    <3>1. ASSUME NEW s \in Shutter
          PROVE  task'[s] \in [left: Nat, target: Direction \cup {"none"}]
      <4>1. task[s] \in [left: Nat, target: Direction \cup {"none"}]
        BY <1>0 DEF TypeOK
      <4>2. task'[s].left \in Nat /\ task'[s] = [task[s] EXCEPT !.left = task'[s].left]
        BY <4>1
      <4> QED
        BY <4>1, <4>2
    <3>2. task' \in [Shutter -> [left: Nat, target: Direction \cup {"none"}]]
      BY <3>1
    <3> QED
      BY <1>0, <3>2 DEF TypeOK
  <2>2. JobFits'
    BY <1>0, IdsAssumption DEF TypeOK, JobFits, NoJob, Due, Armed
  <2>3. LoopFits'
    BY <1>0, IdsAssumption DEF TypeOK, JobFits, LoopFits, OffBeforeOn, Starting, Expiring, Due, Armed, NoJob, NoTask
  <2>4. OffBeforeOn' /\ Interlock'
    BY <1>0, IdsAssumption DEF TypeOK, JobFits, OffBeforeOn, Interlock, NoJob
  <2>5. MotionTimed'
    BY <1>0, IdsAssumption DEF TypeOK, JobFits, LoopFits, OffBeforeOn, MotionTimed, Unstarted, Starting, Expiring, NoJob
  <2> QED
    BY <2>1, <2>2, <2>3, <2>4, <2>5 DEF IInv
<1>23. CASE Crash
  <2> USE <1>23 DEF Crash, InFlight, NoJob, NoTask
  <2>1. TypeOK'
    <3>1. /\ relay' \in [Digital -> BOOLEAN]
          /\ up' \in [Shutter -> BOOLEAN]
          /\ down' \in [Shutter -> BOOLEAN]
      BY <1>0 DEF TypeOK, JobFits
    <3>2. task' \in [Shutter -> [left: Nat, target: Direction \cup {"none"}]]
      OBVIOUS
    <3>3. rx' \in Seq(Command) /\ Len(rx') <= RxCapacity
      BY RxCapacityAssumption
    <3> QED
      BY <3>1, <3>2, <3>3 DEF TypeOK
  <2>2. JobFits'
    BY <1>0, IdsAssumption DEF TypeOK, JobFits, NoJob, Due, Armed
  <2>3. LoopFits'
    BY <1>0, IdsAssumption DEF TypeOK, JobFits, LoopFits, OffBeforeOn, Starting, Expiring, Due, Armed, NoJob
  <2>4. OffBeforeOn' /\ Interlock'
    BY <1>0, IdsAssumption DEF TypeOK, JobFits, OffBeforeOn, Interlock, NoJob
  <2>5. MotionTimed'
    BY <1>0, IdsAssumption DEF TypeOK, JobFits, LoopFits, OffBeforeOn, MotionTimed, Unstarted, Starting, Expiring, NoJob
  <2> QED
    BY <2>1, <2>2, <2>3, <2>4, <2>5 DEF IInv
<1>24. CASE UNCHANGED vars
  BY <1>0, <1>24 DEF vars, IInv, TypeOK, JobFits, LoopFits, OffBeforeOn, Interlock, MotionTimed, Unstarted, Starting, Expiring, Due, Armed
<1> QED
  BY <1>1, <1>2, <1>3, <1>4, <1>5, <1>6, <1>7, <1>8, <1>9, <1>10, <1>11, <1>12, <1>13, <1>14, <1>15, <1>16, <1>17, <1>18, <1>19, <1>20, <1>21, <1>22, <1>23, <1>24 DEF Next, Work, Recv

\* The inductive invariant holds in every state of every behaviour: between
\* any two awaits of wago_modbus_controller.rs, after any crash and restart.
THEOREM Invariance == Spec => []IInv
BY InitIInv, StepIInv, PTL DEF Spec

\* The variables keep their types: the command channel its bound, the tasks a
\* natural remaining time and a direction.
THEOREM TypeCorrect == Spec => []TypeOK
<1>1. IInv => TypeOK
  BY DEF IInv
<1> QED
  BY <1>1, Invariance, PTL

\* The two coils of a shutter are never on together.
THEOREM InterlockHolds == Spec => []Interlock
<1>1. IInv => Interlock
  BY DEF IInv
<1> QED
  BY <1>1, Invariance, PTL

\* No motor that the startup loop has reached runs without a task to stop it.
THEOREM MotionTimedHolds == Spec => []MotionTimed
<1>1. IInv => MotionTimed
  BY DEF IInv
<1> QED
  BY <1>1, Invariance, PTL

-----------------------------------------------------------------------------
(***************************************************************************)
(* A motor is cut only when its time is over, or for a command.            *)
(***************************************************************************)
\* The coil of s is written, if at all, while run() serves s.
LEMMA CutByJob ==
  ASSUME IInv, [Next]_vars, NEW s \in Shutter, Driven(s), ~Driven(s)'
  PROVE  pc \in {"offDown", "offUp"} /\ job.id = s
<1>0. TypeOK /\ JobFits
  BY DEF IInv
<1>1. up' # up \/ down' # down
  BY DEF Driven
<1>2. CASE StopDown
  BY <1>0, <1>2 DEF StopDown, TypeOK, JobFits, Driven
<1>3. CASE StopThenStart \/ StopThenMove \/ StopThenHalt \/ StopThenExpire
  BY <1>0, <1>3 DEF StopThenStart, StopThenMove, StopThenHalt, StopThenExpire, StopUp,
                    TypeOK, JobFits, Driven
<1>4. CASE SwitchOn
  BY <1>0, <1>4 DEF SwitchOn, TypeOK, JobFits, Driven
<1>5. CASE Crash
  BY <1>0, <1>5 DEF Crash, InFlight, TypeOK, JobFits, Driven, plc
<1> QED
  BY <1>1, <1>2, <1>3, <1>4, <1>5
  DEF Next, Work, Recv, Restart, Send, RecvIgnored, RecvWrite, RecvMove, RecvHalt, BeginExpiry,
      BeginKeepAlive, StartDigital, StartShutter, EnterLoop, WriteCoil, ExpireNext, EndExpiry,
      EndKeepAlive, Tick, vars, plc

\* An expiry switches off no motor whose run time is not over; commands, the
\* startup loop and what a crash leaves of them do.
THEOREM FullRunHolds == Spec => FullRun
<1>1. ASSUME IInv, [Next]_vars PROVE FullRunStep
  <2>1. SUFFICES ASSUME NEW s \in Shutter, Driven(s), ~Driven(s)'
                 PROVE  task[s].left = 0 \/ job.why \in Direction \cup {"halt", "start"}
    BY <1>1, CutByJob DEF FullRunStep
  <2>2. pc \in {"offDown", "offUp"} /\ job.id = s
    BY <1>1, <2>1, CutByJob
  <2> QED
    BY <1>1, <2>2 DEF IInv, JobFits, Due
<1> QED
  BY <1>1, Invariance, PTL DEF Spec, FullRun

-----------------------------------------------------------------------------
(***************************************************************************)
(* What is broadcast is true of the coils.                                 *)
(***************************************************************************)
ReportFits(o) ==
  /\ o \in Shutter => /\ up[o]   <=> feedback[o] = ShutterVal("MovingUp")
                      /\ down[o] <=> feedback[o] = ShutterVal("MovingDown")
  /\ o \in Digital => feedback[o] = BoolVal(relay[o])

\* A shutter that has arrived or been halted is not reported as moving.
LEMMA ReportsDiffer ==
  /\ \A dir \in Direction: /\ ShutterVal(dir) # ShutterVal("MovingUp")
                           /\ ShutterVal(dir) # ShutterVal("MovingDown")
  /\ ShutterVal("MovingUp") # ShutterVal("MovingDown")
BY DEF ShutterVal

\* Each action leaves true reports true, but for the output it serves.
LEMMA StepTruthful == IInv /\ TruthfulReport /\ [Next]_vars => TruthfulReport'
<1> SUFFICES ASSUME IInv, TruthfulReport, [Next]_vars, pc' # "stopped",
                    NEW o \in Output, o \notin Unstarted', o # (job.id)'
             PROVE  ReportFits(o)'
  BY DEF TruthfulReport, ReportFits
<1>0. TypeOK /\ JobFits /\ LoopFits /\ OffBeforeOn
  BY DEF IInv
<1>1. pc # "stopped" /\ o \notin Unstarted \cup {job.id} => ReportFits(o)
  BY DEF TruthfulReport, ReportFits
<1> USE DEF plc, ctx, loop
<1>2. CASE Restart
  BY <1>0, <1>1, <1>2, IdsAssumption
  DEF Restart, Unstarted, Starting
<1>3. CASE \E c \in Command: Send(c)
  BY <1>0, <1>1, <1>3, IdsAssumption
  DEF Send, Unstarted, Starting, ReportFits, TypeOK, JobFits
<1>4. CASE Recv
  BY <1>0, <1>1, <1>4, IdsAssumption
  DEF Recv, RecvIgnored, RecvWrite, RecvMove, RecvHalt, Receive, Serve, NoJob, Unstarted, Starting, ReportFits, TypeOK, JobFits
<1>5. CASE BeginExpiry \/ BeginKeepAlive
  BY <1>0, <1>1, <1>5, IdsAssumption
  DEF BeginExpiry, BeginKeepAlive, NoJob, Unstarted, Starting, ReportFits, TypeOK, JobFits
<1>6. CASE \E d \in Digital: StartDigital(d)
  BY <1>0, <1>1, <1>6, IdsAssumption
  DEF StartDigital, update_state, Unstarted, Starting, ReportFits, TypeOK, JobFits
<1>7. CASE \E s \in Shutter: StartShutter(s)
  BY <1>0, <1>1, <1>7, IdsAssumption
  DEF StartShutter, Serve, NoJob, Unstarted, Starting, ReportFits, TypeOK, JobFits
<1>8. CASE EnterLoop
  BY <1>0, <1>1, <1>8, IdsAssumption
  DEF EnterLoop, Unstarted, Starting, ReportFits, TypeOK, JobFits
<1>9. CASE WriteCoil
  BY <1>0, <1>1, <1>9, IdsAssumption
  DEF WriteCoil, update_state, NoJob, Unstarted, Starting, ReportFits, TypeOK, JobFits
<1>10. CASE StopDown
  BY <1>0, <1>1, <1>10, IdsAssumption
  DEF StopDown, Unstarted, Starting, ReportFits, TypeOK, JobFits
<1>11. CASE StopThenStart
  <2>1. /\ job.id \in Shutter
        /\ ~up'[job.id] /\ ~down'[job.id]
        /\ \E dir \in Direction: feedback'[job.id] = ShutterVal(dir)
    BY <1>0, <1>11 DEF StopThenStart, StopUp, OffBeforeOn, NoJob, TypeOK, JobFits
  <2>2. CASE o = job.id
    BY <2>1, <2>2, IdsAssumption, ReportsDiffer DEF ReportFits
  <2>3. CASE o # job.id
    BY <1>0, <1>1, <1>11, <2>3, IdsAssumption
    DEF StopThenStart, StopUp, OffBeforeOn, NoJob, Unstarted, Starting, ReportFits, TypeOK, JobFits
  <2> QED
    BY <2>2, <2>3
<1>12. CASE StopThenMove
  BY <1>0, <1>1, <1>12, IdsAssumption
  DEF StopThenMove, StopUp, Unstarted, Starting, ReportFits, TypeOK, JobFits
<1>13. CASE StopThenHalt
  <2>1. /\ job.id \in Shutter
        /\ ~up'[job.id] /\ ~down'[job.id]
        /\ \E dir \in Direction: feedback'[job.id] = ShutterVal(dir)
    BY <1>0, <1>13 DEF StopThenHalt, StopUp, update_state, OffBeforeOn, NoJob, TypeOK, JobFits
  <2>2. CASE o = job.id
    BY <2>1, <2>2, IdsAssumption, ReportsDiffer DEF ReportFits
  <2>3. CASE o # job.id
    BY <1>0, <1>1, <1>13, <2>3, IdsAssumption
    DEF StopThenHalt, StopUp, update_state, OffBeforeOn, NoJob, Unstarted, Starting, ReportFits, TypeOK, JobFits
  <2> QED
    BY <2>2, <2>3
<1>14. CASE StopThenExpire
  <2>1. /\ job.id \in Shutter
        /\ ~up'[job.id] /\ ~down'[job.id]
        /\ \E dir \in Direction: feedback'[job.id] = ShutterVal(dir)
    BY <1>0, <1>14 DEF StopThenExpire, StopUp, update_state, OffBeforeOn, NoJob, Due, Armed, TypeOK, JobFits
  <2>2. CASE o = job.id
    BY <2>1, <2>2, IdsAssumption, ReportsDiffer DEF ReportFits
  <2>3. CASE o # job.id
    BY <1>0, <1>1, <1>14, <2>3, IdsAssumption
    DEF StopThenExpire, StopUp, update_state, OffBeforeOn, NoJob, Due, Armed, Unstarted, Starting, ReportFits, TypeOK, JobFits
  <2> QED
    BY <2>2, <2>3
<1>15. CASE SwitchOn
  <2>1. /\ job.id \in Shutter
        /\ up'[job.id] <=> job.why = "Up"
        /\ down'[job.id] <=> job.why = "Down"
        /\ job.why \in Direction
        /\ feedback'[job.id] = ShutterVal(Moving(job.why))
    BY <1>0, <1>15 DEF SwitchOn, update_state, OffBeforeOn, NoJob, TypeOK, JobFits
  <2>2. CASE o = job.id
    BY <2>1, <2>2, IdsAssumption, ReportsDiffer DEF Moving, ReportFits
  <2>3. CASE o # job.id
    BY <1>0, <1>1, <1>15, <2>3, IdsAssumption
    DEF SwitchOn, update_state, OffBeforeOn, NoJob, Unstarted, Starting, ReportFits, TypeOK, JobFits
  <2> QED
    BY <2>2, <2>3
<1>16. CASE \E s \in Shutter: ExpireNext(s)
  BY <1>0, <1>1, <1>16, IdsAssumption
  DEF ExpireNext, Serve, NoJob, Unstarted, Starting, ReportFits, TypeOK, JobFits
<1>17. CASE EndExpiry \/ EndKeepAlive \/ Tick
  BY <1>0, <1>1, <1>17, IdsAssumption
  DEF EndExpiry, EndKeepAlive, Tick, Unstarted, Starting, ReportFits, TypeOK, JobFits
<1>18. CASE Crash
  BY <1>0, <1>1, <1>18, IdsAssumption
  DEF Crash
<1>19. CASE UNCHANGED vars
  BY <1>0, <1>1, <1>19, IdsAssumption
  DEF vars, Unstarted, Starting, ReportFits, TypeOK, JobFits
<1> QED
  BY <1>2, <1>3, <1>4, <1>5, <1>6, <1>7, <1>8, <1>9, <1>10, <1>11, <1>12, <1>13, <1>14, <1>15, <1>16, <1>17, <1>18, <1>19 DEF Next, Work

\* Every report is true: an output that is not being served is shown moving
\* exactly while its motor is driven that way, and a relay as it stands.
THEOREM TruthfulReportHolds == Spec => []TruthfulReport
<1>1. Init => TruthfulReport
  BY DEF Init, TruthfulReport
<1> QED
  BY <1>1, StepTruthful, Invariance, PTL DEF Spec

-----------------------------------------------------------------------------
(***************************************************************************)
(* What the controller acts on is what it has broadcast.                   *)
(***************************************************************************)
\* Nothing is believed of an output the startup loop has not reached; of a shutter it
\* has, nothing may be, as long as it is reported as the loop has left it.
BelievedAt(o) ==
  IF pc = "stopped" \/ o \in Unstarted THEN value[o] = NoValue
  ELSE \/ value[o] = feedback[o]
       \/ o \in Shutter /\ value[o] = NoValue /\ feedback[o] = ShutterVal("Up")

Believed == \A o \in Output: BelievedAt(o)

LEMMA StepBelieved == IInv /\ Believed /\ [Next]_vars => Believed'
<1> SUFFICES ASSUME IInv, Believed, [Next]_vars, NEW o \in Output PROVE BelievedAt(o)'
  BY DEF Believed
<1>0. TypeOK /\ JobFits /\ LoopFits /\ BelievedAt(o)
  BY DEF IInv, Believed
<1> USE IdsAssumption DEF plc, ctx, loop
<1>1. CASE \/ Restart \/ (\E c \in Command: Send(c)) \/ EnterLoop \/ StopDown \/ StopThenMove
           \/ EndExpiry \/ EndKeepAlive \/ Tick \/ BeginExpiry \/ BeginKeepAlive
  <2>1. CASE Restart
    BY <1>0, <2>1 DEF Restart, BelievedAt, Unstarted, Starting
  <2>2. CASE EnterLoop
    BY <1>0, <2>2 DEF EnterLoop, BelievedAt, Unstarted, Starting, JobFits, NoJob
  <2>3. CASE \/ (\E c \in Command: Send(c)) \/ StopDown \/ StopThenMove
             \/ EndExpiry \/ EndKeepAlive \/ Tick \/ BeginExpiry \/ BeginKeepAlive
    <3>1. UNCHANGED <<value, feedback, job>> /\ (pc' = "stopped" <=> pc = "stopped")
          /\ (pc' = "start" <=> pc = "start") /\ (pc = "start" \/ job.why = "start" => todo' = todo)
      BY <1>0, <2>3
      DEF Send, StopDown, StopThenMove, StopUp, EndExpiry, EndKeepAlive, Tick, BeginExpiry,
          BeginKeepAlive, JobFits, NoJob
    <3> QED BY <1>0, <3>1 DEF BelievedAt, Unstarted, Starting
  <2> QED BY <1>1, <2>1, <2>2, <2>3
<1>2. CASE Recv
  <2>1. /\ pc = "select" /\ job = NoJob /\ pc' \notin {"stopped", "start"} /\ job'.why # "start"
        /\ UNCHANGED <<value, feedback>>
    <3>1. DirectionOf(new_value(Head(rx))) # "start"
      BY DirectionOfType
    <3> QED BY <1>0, <1>2, <3>1
            DEF Recv, RecvIgnored, RecvWrite, RecvMove, RecvHalt, Receive, Serve, JobFits, NoJob
  <2>2. Unstarted = {} /\ Unstarted' = {}
    BY <2>1 DEF Unstarted, Starting, NoJob
  <2> QED BY <1>0, <2>1, <2>2 DEF BelievedAt
<1>3. CASE \E d \in Digital: StartDigital(d)
  BY <1>0, <1>3 DEF StartDigital, update_state, BelievedAt, Unstarted, Starting, TypeOK, JobFits, NoJob
<1>4. CASE \E s \in Shutter: StartShutter(s) \/ ExpireNext(s)
  BY <1>0, <1>4 DEF StartShutter, ExpireNext, Serve, BelievedAt, Unstarted, Starting, TypeOK, JobFits, NoJob
<1>5. CASE WriteCoil \/ StopThenHalt \/ StopThenExpire \/ SwitchOn
  <2>1. /\ pc \notin {"stopped", "start"} /\ pc' \notin {"stopped", "start"}
        /\ job.why # "start" /\ job'.why # "start"
    BY <1>0, <1>5 DEF WriteCoil, StopThenHalt, StopThenExpire, SwitchOn, StopUp, JobFits, NoJob
  <2>2. \E v: value' = [value EXCEPT ![job.id] = v] /\ feedback' = [feedback EXCEPT ![job.id] = v]
    BY <1>5 DEF WriteCoil, StopThenHalt, StopThenExpire, SwitchOn, update_state
  <2> QED BY <1>0, <2>1, <2>2 DEF BelievedAt, Unstarted, Starting, TypeOK
<1>6. CASE StopThenStart
  BY <1>0, <1>6 DEF StopThenStart, StopUp, BelievedAt, Unstarted, Starting, TypeOK, JobFits, NoJob
<1>7. CASE Crash
  BY <1>7 DEF Crash, BelievedAt
<1>8. CASE UNCHANGED vars
  BY <1>0, <1>8 DEF vars, BelievedAt, Unstarted, Starting
<1> QED
  BY <1>1, <1>2, <1>3, <1>4, <1>5, <1>6, <1>7, <1>8 DEF Next, Work

\* In its main loop the controller acts on the state it has broadcast, except for a
\* shutter that has been at rest since the startup loop.
THEOREM BeliefAtRestHolds == Spec => []BeliefAtRest
<1>1. Init => Believed
  BY DEF Init, Believed, BelievedAt
<1>2. IInv /\ Believed /\ TruthfulReport => BeliefAtRest
  <2> SUFFICES ASSUME IInv, Believed, TruthfulReport, pc = "select", NEW o \in Output, value[o] # feedback[o]
               PROVE  /\ o \in Shutter /\ value[o] = NoValue /\ feedback[o] = ShutterVal("Up")
                      /\ ~up[o] /\ ~down[o]
    BY DEF BeliefAtRest
  <2>1. job = NoJob /\ job.id = None /\ job.why = "none"
    BY DEF IInv, JobFits, NoJob
  <2>2. o \notin Unstarted \cup {job.id}
    BY <2>1, IdsAssumption DEF Unstarted, Starting
  <2>3. o \in Shutter /\ value[o] = NoValue /\ feedback[o] = ShutterVal("Up")
    BY <2>2 DEF Believed, BelievedAt
  <2>4. ReportFits(o)
    BY <2>2 DEF TruthfulReport, ReportFits
  <2> QED BY <2>3, <2>4, ReportsDiffer DEF ReportFits
<1> QED
  BY <1>1, <1>2, StepBelieved, Invariance, TruthfulReportHolds, PTL DEF Spec

-----------------------------------------------------------------------------
(***************************************************************************)
(* The controller implements ShutterMotor for each of its shutters: every  *)
(* step of wago_modbus_controller.rs is a step of that shutter's motor or  *)
(* leaves it alone.                                                        *)
(***************************************************************************)
\* A waiting task is for the direction its shutter was last reported moving in,
\* until an expiry has served it.
RunReported ==
  \A s \in Shutter:
    Armed(s) /\ (s \in batch => s \in todo \/ s = job.id)
      => feedback[s] = ShutterVal(Moving(task[s].target))

\* Every step of the controller keeps what is reported of a run in line with its
\* task.
LEMMA StepRunReported == IInv /\ RunReported /\ [Next]_vars => RunReported'
<1> SUFFICES ASSUME IInv, RunReported, [Next]_vars, NEW s \in Shutter,
                    Armed(s)', (s \in batch => s \in todo \/ s = job.id)'
             PROVE  (feedback[s] = ShutterVal(Moving(task[s].target)))'
  BY DEF RunReported
<1>0. TypeOK /\ JobFits /\ LoopFits
  BY DEF IInv
<1>1. Armed(s) /\ (s \in batch => s \in todo \/ s = job.id)
        => feedback[s] = ShutterVal(Moving(task[s].target))
  BY DEF RunReported
<1> USE DEF plc, ctx, loop
<1>2. CASE Restart \/ (\E c \in Command: Send(c)) \/ EnterLoop \/ StopDown \/ StopThenMove
  BY <1>0, <1>1, <1>2
  DEF Restart, Send, EnterLoop, StopDown, StopThenMove, StopUp, Armed, NoTask, LoopFits
<1>3. CASE Recv
  BY <1>0, <1>1, <1>3, IdsAssumption
  DEF Recv, RecvIgnored, RecvWrite, RecvMove, RecvHalt, Receive, Serve, Armed, JobFits, LoopFits,
      Expiring, NoJob
<1>4. CASE BeginExpiry \/ BeginKeepAlive \/ EndKeepAlive
  BY <1>0, <1>1, <1>4 DEF BeginExpiry, BeginKeepAlive, EndKeepAlive, Armed, JobFits, LoopFits, Expiring, NoJob
<1>5. CASE \E d \in Digital: StartDigital(d)
  BY <1>0, <1>5 DEF StartDigital, Armed, NoTask, LoopFits, Starting
<1>6. CASE \E t \in Shutter: StartShutter(t)
  BY <1>0, <1>6 DEF StartShutter, Armed, NoTask, LoopFits, Starting
<1>7. CASE WriteCoil
  <2>1. s # job.id /\ task' = task /\ feedback'[s] = feedback[s]
    BY <1>0, <1>7, IdsAssumption DEF WriteCoil, update_state, TypeOK, JobFits
  <2> QED
    BY <1>1, <1>7, <2>1, IdsAssumption DEF WriteCoil, Armed, NoJob
<1>8. CASE StopThenStart
  BY <1>0, <1>8 DEF StopThenStart, Armed, NoTask, LoopFits, Starting
<1>9. CASE StopThenHalt
  <2>1. s # job.id
    BY <1>0, <1>9, IdsAssumption DEF StopThenHalt, Armed, NoJob, NoTask, TypeOK, JobFits
  <2>2. task'[s] = task[s] /\ feedback'[s] = feedback[s]
    BY <1>0, <1>9, <2>1 DEF StopThenHalt, StopUp, update_state, TypeOK, JobFits
  <2> QED
    BY <1>1, <1>9, <2>1, <2>2, IdsAssumption DEF StopThenHalt, StopUp, Armed, NoJob
<1>10. CASE StopThenExpire
  <2>1. s # job.id
    BY <1>0, <1>10, IdsAssumption DEF StopThenExpire, StopUp, Armed, NoJob, TypeOK, JobFits
  <2>2. task'[s] = task[s] /\ feedback'[s] = feedback[s]
    BY <1>0, <1>10, <2>1 DEF StopThenExpire, StopUp, update_state, TypeOK, JobFits
  <2> QED
    BY <1>1, <1>10, <2>1, <2>2, IdsAssumption DEF StopThenExpire, StopUp, Armed, NoJob
<1>11. CASE SwitchOn
  <2>1. CASE s = job.id
    BY <1>0, <1>11, <2>1 DEF SwitchOn, update_state, TypeOK
  <2>2. CASE s # job.id
    <3>1. task'[s] = task[s] /\ feedback'[s] = feedback[s]
      BY <1>0, <1>11, <2>2 DEF SwitchOn, update_state, TypeOK, JobFits
    <3> QED
      BY <1>1, <1>11, <2>2, <3>1, IdsAssumption DEF SwitchOn, Armed, NoJob
  <2> QED
    BY <2>1, <2>2
<1>12. CASE \E t \in Shutter: ExpireNext(t)
  BY <1>0, <1>1, <1>12, IdsAssumption DEF ExpireNext, Serve, Armed, JobFits, NoJob
<1>13. CASE EndExpiry
  BY <1>0, <1>1, <1>13 DEF EndExpiry, Forget, Armed, NoTask
<1>14. CASE Tick
  BY <1>0, <1>1, <1>14 DEF Tick, Armed, TypeOK
<1>15. CASE Crash
  BY <1>15 DEF Crash, Armed, NoTask
<1>16. CASE UNCHANGED vars
  BY <1>1, <1>16 DEF vars, Armed
<1> QED
  BY <1>2, <1>3, <1>4, <1>5, <1>6, <1>7, <1>8, <1>9, <1>10, <1>11, <1>12, <1>13, <1>14, <1>15,
     <1>16 DEF Next, Work

\* A shutter with a task is reported as moving to the task's target.
LEMMA RunReportedHolds == Spec => []RunReported
<1>1. Init => RunReported
  BY DEF Init, RunReported, Armed, NoTask
<1> QED
  BY <1>1, StepRunReported, Invariance, PTL DEF Spec

-----------------------------------------------------------------------------
\* What ShutterMotor sees of the values broadcast for a shutter.
LEMMA ShownValues ==
  \A v \in ShutterState: ShutterVal(v) # NoValue /\ Payload(ShutterVal(v)) = v
BY DEF ShutterVal, NoValue, Payload

\* A controller that has not started is a motor that has not been heard of.
LEMMA InitMotor == Init => \A s \in Shutter: Motor(s)!MotorInit
BY IdsAssumption DEF Init, Motor!MotorInit, Motor!Unknown, motorOf, ShownOf, NoJob, NoTask

\* A step that leaves the coils, the report and the remaining time of s alone,
\* and does not start or end a command for it, is a stutter of its motor.
Alone(s) ==
  /\ up'[s] = up[s] /\ down'[s] = down[s]
  /\ feedback'[s] = feedback[s]
  /\ task'[s].left = task[s].left
  /\ (job.id = s /\ job.why # "expire")' <=> (job.id = s /\ job.why # "expire")

MotorStep(s) == [Motor(s)!MotorNext]_(Motor(s)!mvars)

\* A step that leaves the shutter's coils, report, task and job alone is none of
\* its motor.
LEMMA StutterMotor == ASSUME NEW s \in Shutter, Alone(s) PROVE MotorStep(s)
BY DEF MotorStep, Alone, Motor!mvars, motorOf, ShownOf

\* The steps that serve an output are seen by that output only.
LEMMA ServingMotor ==
  ASSUME TypeOK, JobFits, NEW s \in Shutter, s # job.id,
         WriteCoil \/ StopDown \/ StopThenStart \/ StopThenMove \/ StopThenHalt
           \/ StopThenExpire \/ SwitchOn
  PROVE  Alone(s)
<1> USE IdsAssumption DEF TypeOK, JobFits, Alone
<1>1. CASE WriteCoil
  BY <1>1 DEF WriteCoil, update_state, NoJob
<1>2. CASE StopDown
  BY <1>2 DEF StopDown, ctx
<1>3. CASE StopThenStart
  BY <1>3 DEF StopThenStart, StopUp, NoJob
<1>4. CASE StopThenMove
  BY <1>4 DEF StopThenMove, StopUp, ctx
<1>5. CASE StopThenHalt
  BY <1>5 DEF StopThenHalt, StopUp, update_state, NoJob
<1>6. CASE StopThenExpire
  BY <1>6 DEF StopThenExpire, StopUp, update_state, NoJob
<1>7. CASE SwitchOn
  BY <1>7 DEF SwitchOn, update_state, NoJob
<1> QED
  BY <1>1, <1>2, <1>3, <1>4, <1>5, <1>6, <1>7

\* Every step of the controller is a step of each motor, or none.
LEMMA StepMotor ==
  ASSUME IInv, RunReported, [Next]_vars, NEW s \in Shutter
  PROVE  MotorStep(s)
<1>0. TypeOK /\ JobFits /\ LoopFits /\ OffBeforeOn /\ Interlock
  BY DEF IInv
<1> USE DEF plc, ctx, loop
<1>1. CASE Restart \/ (\E c \in Command: Send(c)) \/ EnterLoop
             \/ BeginExpiry \/ BeginKeepAlive \/ EndKeepAlive \/ UNCHANGED vars
  <2>1. Alone(s)
    BY <1>1 DEF Restart, Send, EnterLoop, BeginExpiry, BeginKeepAlive, EndKeepAlive, vars, Alone
  <2> QED
    BY <2>1, StutterMotor
<1>2. CASE \E d \in Digital: StartDigital(d)
  <2>1. Alone(s)
    BY <1>0, <1>2, IdsAssumption DEF StartDigital, update_state, Alone, TypeOK
  <2> QED
    BY <2>1, StutterMotor
<1>3. CASE RecvIgnored \/ RecvWrite \/ \E t \in Shutter: ExpireNext(t)
  <2>1. Alone(s)
    BY <1>0, <1>3, IdsAssumption
    DEF RecvIgnored, RecvWrite, ExpireNext, Receive, Serve, Alone, JobFits, NoJob
  <2> QED
    BY <2>1, StutterMotor
<1>4. CASE RecvMove \/ RecvHalt \/ \E t \in Shutter: StartShutter(t)
  <2>1. /\ job = NoJob /\ job'.why # "expire"
        /\ UNCHANGED <<up, down, feedback, task>>
    BY <1>0, <1>4, DirectionOfType
    DEF RecvMove, RecvHalt, StartShutter, Receive, Serve, JobFits
  <2>2. CASE job'.id = s
    <3>1. Motor(s)!Interrupt
      BY <2>1, <2>2, IdsAssumption DEF Motor!Interrupt, NoJob, motorOf, ShownOf
    <3> QED
      BY <3>1 DEF MotorStep, Motor!MotorNext
  <2>3. CASE job'.id # s
    BY <2>1, <2>3, IdsAssumption, StutterMotor DEF Alone, NoJob
  <2> QED
    BY <2>2, <2>3
<1>5. CASE WriteCoil
  <2>1. s # job.id
    BY <1>0, <1>5, IdsAssumption DEF WriteCoil, JobFits
  <2> QED
    BY <1>0, <1>5, <2>1, ServingMotor, StutterMotor
<1>6. CASE StopDown
  <2>1. CASE s = job.id /\ down[s]
    <3>1. Motor(s)!Cut
      BY <1>0, <1>6, <2>1
      DEF StopDown, Motor!Cut, motorOf, ShownOf, TypeOK, JobFits, Interlock, Due
    <3> QED
      BY <3>1 DEF MotorStep, Motor!MotorNext
  <2>2. CASE s = job.id /\ ~down[s]
    <3>1. Alone(s)
      BY <1>0, <1>6, <2>2 DEF StopDown, Alone, TypeOK
    <3> QED
      BY <3>1, StutterMotor
  <2> QED
    BY <1>0, <1>6, <2>1, <2>2, ServingMotor, StutterMotor
<1>7. CASE StopThenStart
  <2>1. CASE s = job.id
    <3>1. feedback'[s] = ShutterVal("Up")
      BY <1>0, <1>7, <2>1 DEF StopThenStart, StopUp, update_state, TypeOK, JobFits
    <3>2. motorOf(s)' = "off" /\ ShownOf(s)' = "Up"
      BY <1>0, <1>7, <2>1, <3>1, ShownValues
      DEF StopThenStart, StopUp, OffBeforeOn, TypeOK, ShutterState, motorOf, ShownOf
    <3>3. task'[s].left = 0
      BY <1>0, <1>7, <2>1 DEF StopThenStart, StopUp, TypeOK, LoopFits, Starting, Armed, NoTask
    <3>4. job.why # "expire" /\ job' = NoJob
      BY <1>7 DEF StopThenStart, StopUp
    <3>5. Motor(s)!Halt
      BY <2>1, <3>2, <3>3, <3>4, IdsAssumption DEF Motor!Halt, NoJob
    <3> QED
      BY <3>5 DEF MotorStep, Motor!MotorNext
  <2> QED
    BY <1>0, <1>7, <2>1, ServingMotor, StutterMotor
<1>8. CASE StopThenHalt
  <2>1. CASE s = job.id
    <3>1. feedback'[s] = ShutterVal("Up")
      BY <1>0, <1>8, <2>1 DEF StopThenHalt, StopUp, update_state, TypeOK, JobFits
    <3>2. motorOf(s)' = "off" /\ ShownOf(s)' = "Up"
      BY <1>0, <1>8, <2>1, <3>1, ShownValues
      DEF StopThenHalt, StopUp, OffBeforeOn, TypeOK, ShutterState, motorOf, ShownOf
    <3>3. task'[s].left = 0
      BY <1>0, <1>8, <2>1 DEF StopThenHalt, StopUp, TypeOK, LoopFits, Starting, Armed, NoTask
    <3>4. job.why # "expire" /\ job' = NoJob
      BY <1>8 DEF StopThenHalt, StopUp
    <3>5. Motor(s)!Halt
      BY <2>1, <3>2, <3>3, <3>4, IdsAssumption DEF Motor!Halt, NoJob
    <3> QED
      BY <3>5 DEF MotorStep, Motor!MotorNext
  <2> QED
    BY <1>0, <1>8, <2>1, ServingMotor, StutterMotor
<1>9. CASE StopThenMove
  <2>1. CASE s = job.id /\ up[s]
    <3>1. Motor(s)!Cut
      BY <1>0, <1>9, <2>1
      DEF StopThenMove, StopUp, OffBeforeOn, Motor!Cut, motorOf, ShownOf, TypeOK, JobFits
    <3> QED
      BY <3>1 DEF MotorStep, Motor!MotorNext
  <2>2. CASE s = job.id /\ ~up[s]
    <3>1. Alone(s)
      BY <1>0, <1>9, <2>2 DEF StopThenMove, StopUp, Alone, TypeOK
    <3> QED
      BY <3>1, StutterMotor
  <2> QED
    BY <1>0, <1>9, <2>1, <2>2, ServingMotor, StutterMotor
<1>10. CASE StopThenExpire
  <2>1. CASE s = job.id
    <3>1. /\ task[s].target \in Direction
          /\ task[s].left = 0
          /\ feedback[s] = ShutterVal(Moving(task[s].target))
          /\ feedback'[s] = ShutterVal(task[s].target)
      BY <1>0, <1>10, <2>1
      DEF StopThenExpire, StopUp, update_state, RunReported, TypeOK, JobFits, Due, Armed
    <3>2. /\ ShownOf(s) = Motor(s)!MovingTo(task[s].target)
          /\ ShownOf(s)' = task[s].target
      BY <3>1, ShownValues DEF ShownOf, Motor!MovingTo, Moving, ShutterState
    <3>3. motorOf(s)' = "off" /\ task'[s] = task[s]
      BY <1>0, <1>10, <2>1 DEF StopThenExpire, StopUp, OffBeforeOn, TypeOK, motorOf
    <3>4. job.why = "expire" /\ job' = NoJob
      BY <1>10 DEF StopThenExpire, StopUp
    <3>5. Motor(s)!Arrive
      BY <3>1, <3>2, <3>3, <3>4, IdsAssumption DEF Motor!Arrive, NoJob
    <3> QED
      BY <3>5 DEF MotorStep, Motor!MotorNext
  <2> QED
    BY <1>0, <1>10, <2>1, ServingMotor, StutterMotor
<1>11. CASE SwitchOn
  <2>1. CASE s = job.id
    <3>1. /\ job.why \in Direction
          /\ feedback'[s] = ShutterVal(Moving(job.why))
          /\ task'[s].left = RunTime[s]
          /\ job' = NoJob
      BY <1>0, <1>11, <2>1 DEF SwitchOn, update_state, TypeOK, JobFits
    <3>2. ShownOf(s)' = Motor(s)!MovingTo(job.why)
      BY <3>1, ShownValues DEF ShownOf, Motor!MovingTo, Moving, ShutterState
    <3>3. motorOf(s) = "off" /\ motorOf(s)' = job.why
      BY <1>0, <1>11, <2>1, <3>1 DEF SwitchOn, OffBeforeOn, TypeOK, motorOf
    <3>4. Motor(s)!Start(job.why)
      BY <2>1, <3>1, <3>2, <3>3, IdsAssumption DEF Motor!Start, NoJob
    <3> QED
      BY <3>1, <3>4 DEF MotorStep, Motor!MotorNext
  <2> QED
    BY <1>0, <1>11, <2>1, ServingMotor, StutterMotor
<1>12. CASE EndExpiry
  <2>1. Alone(s)
    BY <1>0, <1>12 DEF EndExpiry, Forget, NoTask, Alone, TypeOK, LoopFits
  <2> QED
    BY <2>1, StutterMotor
<1>13. CASE Tick
  <2>1. UNCHANGED <<motorOf(s), ShownOf(s), job>>
    BY <1>13 DEF Tick, motorOf, ShownOf
  <2>2. CASE task[s].left > 0
    <3>1. task'[s].left = task[s].left - 1
      BY <1>0, <1>13, <2>2 DEF Tick, TypeOK
    <3>2. Motor(s)!Elapse
      BY <2>1, <2>2, <3>1 DEF Motor!Elapse
    <3> QED
      BY <3>2 DEF MotorStep, Motor!MotorNext
  <2>3. CASE ~(task[s].left > 0)
    <3>1. Alone(s)
      BY <1>0, <1>13, <2>3 DEF Tick, Alone, TypeOK
    <3> QED
      BY <3>1, StutterMotor
  <2> QED
    BY <2>2, <2>3
<1>14. CASE Crash
  <2>1. /\ feedback'[s] = NoValue
        /\ task'[s].left = 0
        /\ job' = NoJob
    BY <1>14 DEF Crash, NoTask
  <2>2. /\ motorOf(s)' \in {"off", "Up", "Down"}
        /\ motorOf(s) # "off" => motorOf(s)' \in {motorOf(s), "off"}
    BY <1>0, <1>14 DEF Crash, InFlight, motorOf, TypeOK, JobFits, OffBeforeOn, Interlock
  <2>3. Motor(s)!PowerCycle
    BY <2>1, <2>2, IdsAssumption
    DEF Motor!PowerCycle, Motor!Motor, Motor!Unknown, ShownOf, NoJob
  <2> QED
    BY <2>3 DEF MotorStep, Motor!MotorNext
<1> QED
  BY <1>1, <1>2, <1>3, <1>4, <1>5, <1>6, <1>7, <1>8, <1>9, <1>10, <1>11, <1>12, <1>13, <1>14
  DEF Next, Work, Recv

\* The controller implements ShutterMotor for every shutter it drives.
THEOREM Refinement == Spec => ImplementsMotor
<1>1. ASSUME IInv, RunReported, [Next]_vars
      PROVE  \A s \in Shutter: [Motor(s)!MotorNext]_(Motor(s)!mvars)
  BY <1>1, StepMotor DEF MotorStep
<1> QED
  BY <1>1, InitMotor, Invariance, RunReportedHolds, PTL DEF Spec, ImplementsMotor
=============================================================================
