SPECIFICATION Spec
CONSTANTS
  Kinds <- MCKinds
  MaxClicks = 2
  MaxMishaps = 1
INVARIANT TypeOK
INVARIANT PolledEntriesAreTrue
INVARIANT TimedOutIsDead
INVARIANT RefusedOnlyIfTouched
PROPERTY PanelUnlocks
CHECK_DEADLOCK FALSE
