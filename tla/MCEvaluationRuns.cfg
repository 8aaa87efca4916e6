SPECIFICATION FairSpec
CONSTANTS
  Calls = {c1, c2}
  Runs = {r1, r2}
  Keys = {k1}
  NoKey = NoKey
  KeysOf <- AnyKey
  Bodies = {b1, b2}
  NoBody = NoBody
  NoRun = NoRun
  Faults = {"handled", "escaped"}
  Managed = TRUE
  MaxCrashes = 2
INVARIANTS
  OutcomeComplete
  RunningAccountedFor
  BrokerSeesRunning
  Inductive
PROPERTIES
  RunsChangeOnce
  KeepsPromise
  RunsTerminate
\* The supply of run ids is finite: once it is used up, no call is submitted.
CHECK_DEADLOCK FALSE
