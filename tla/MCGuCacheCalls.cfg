SPECIFICATION Spec
CONSTANTS
  p1 = p1
  p2 = p2
  e1 = e1
  e2 = e2
  NoElf = NoElf
  NoPriv = NoPriv
  Pid <- TwoPids
  Elf <- OneElf
  GoElf <- OneGo
  TimerStarts <- Off
  MaxMaps = 2
  MaxInst = 1
  MaxTime = 2
  TTL = 1
  ReloadMin = 2
  ReloadMax = 2
INVARIANT TypeOK
INVARIANT RefcountExact
INVARIANT StatisticsExact
PROPERTY ImplementsSharedEntries
CHECK_DEADLOCK FALSE
SYMMETRY PidSymmetry
