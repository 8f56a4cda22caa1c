SPECIFICATION Spec
CONSTANTS
  Workers = 3
  Spinners = 2
  Iters = 3
  Span = 5
  TickMod = 64
  IdleTicks = 12
INVARIANTS
  NoWildSwitch
  CounterExact
  AllSpun
PROPERTIES
  DemoEnds
