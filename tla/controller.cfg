SPECIFICATION FairSpec
CONSTANTS
  s1 = s1
  s2 = s2
  None = None
  Digital = {d1}
  Shutter = {s1, s2}
  OtherId = {x1}
  RunTime <- MCRunTime
  Values <- MCValues
  RxCapacity = 1
INVARIANTS
  IInv
  Interlock
  MotionTimed
  TruthfulReport
  BeliefAtRest
PROPERTIES
  FullRun
  ImplementsMotor
  MotorStops
  DispatcherReleased
