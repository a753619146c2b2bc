SPECIFICATION FairSpec
CONSTANTS
  f1 = f1
  f2 = f2
  f3 = f3
  Finishers = {f1, f2, f3}
  Nobody = Nobody
INVARIANTS
  NotifiedOnce
  CompletedIsFinished
PROPERTIES
  OnlyHolderNotifies
  EffectsComplete
CHECK_DEADLOCK FALSE
