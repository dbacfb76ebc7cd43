SPECIFICATION Spec
CONSTANTS
  p1 = p1
  p2 = p2
  e1 = e1
  e2 = e2
  NoElf = NoElf
  NoPriv = NoPriv
  Pid <- OnePid
  Elf <- OneElf
  GoElf <- OneGo
  TimerStarts <- Off
  MaxMaps = 1
  MaxInst = 1
  MaxTime = 3
  TTL = 1
  ReloadMin = 1
  ReloadMax = 1
INVARIANT UnknownFramesKept
CHECK_DEADLOCK FALSE
