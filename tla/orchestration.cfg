SPECIFICATION OrchestrationSpec
CONSTANTS
  scheduled = scheduled
  signal = signal
  Triggers = {c1, c2, c3}
  Keys <- TwoKeys
  Cooldown <- TwoCooldowns
  ManualCooldown = 1
  Horizon = 2
  Modes <- ThreeModes
SYMMETRY TriggerSymmetry
CHECK_DEADLOCK FALSE
INVARIANTS
  OrchestrationTypeOK
  CooldownIsKept
  RunningIsBounded
  PendingIsClosed
