SPECIFICATION Spec
CONSTANTS
  NProc = 2
  Sig <- MCSig
  Action <- MCAction
  Mask <- MCMask
  Waits <- MCWaits
  Foreground = {1, 2}
  MaxSent = 2
  Risks = {}
INVARIANTS
    MaskRestored
    AlarmsRight
PROPERTIES
    KillKills
CHECK_DEADLOCK FALSE
