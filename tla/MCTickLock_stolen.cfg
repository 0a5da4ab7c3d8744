\* Two contenders find the lock of a tick that died; no tick outlives max_age.
CONSTANTS
  Ticks = {t1, t2}
  NoTick = NoTick
  Overruns = FALSE
  MaxCrashes = 1
SPECIFICATION Spec
SYMMETRY TickSymmetry
INVARIANTS
  OneTickRuns
