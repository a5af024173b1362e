SPECIFICATION FairSpec
CONSTANTS
  Inputs <- MCInputs
  Grid = 16
  MaxStored = 1
INVARIANTS
  ScheduleCloses
  ResidueBounded
  JkpBalances
  JkpNotBelowNominal
  FirstHomeNeverCostsMore
  StoredIsComputable
PROPERTIES
  ComputationEnds
