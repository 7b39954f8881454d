CONSTANTS
  MaxVar = 3
  MaxActivity = 1
  MaxStamp = 4
  Strategies = {"evsids", "vmtf", "lrb", "chb", "transfer", "focused_stable", "probe_evsids"}
  Policies = {"luby", "lbd", "blocking", "focused", "focused_stable", "probe", "transfer", "adaptive"}
  RestartBase = 1
  Window = 3
  TrailWindow = 2
  BlockFrom = 2
  ModeConflicts = 2
  Period = 1
  Ceiling = 4
  ProbeConflicts = 4
  Warmup = 3
  Probe = 2
  Exploit = 2
  Lbds = {2, 7}
  Pivot = {1, 2, 3}
  Sketch = 2
  Capacity = 1
  Observation = 1
  MaxUse = 1
  MaxConflicts <- Analyses
  Configs <- AllConfigs
  Lengths <- Sizes
  MaxLearned <- Conflicts
  MaxReductions <- Reductions
SPECIFICATION MCSpec
INVARIANTS NoVariableLost OrdersOK SpacingIsLuby WindowsExact StoreExact SamplesExact
CHECK_DEADLOCK FALSE
