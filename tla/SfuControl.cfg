SPECIFICATION Spec

CONSTANTS
  TileCounts = {0, 1, 2, 3}

INVARIANTS
  TypeOK
  Lockstep
  StateAccessOnSchedule
  SramReadsOnSchedule

PROPERTIES
  BankSwitchedIdle
  LaunchCompletes
