SPECIFICATION FairSpec
CONSTANTS
  p1 = p1
  p2 = p2
  e1 = e1
  e2 = e2
  NoElf = NoElf
  NoPriv = NoPriv
  Pid <- OnePid
  Elf <- OneElf
  GoElf <- NoElfs
  TimerStarts <- On
  MaxMaps = 1
  MaxInst = 2
  MaxTime = 2
  TTL = 1
  ReloadMin = 1
  ReloadMax = 1
INVARIANT SampleSeesItsProcess
INVARIANT PrivateOfSameProcess
INVARIANT ListenersMirrorCache
INVARIANT UnwindUsesLiveElf
INVARIANT NoOverdueEntry
INVARIANT CleanupFreesAll
PROPERTY FreedOnlyWhenExpired
PROPERTY ReloadThrottled
PROPERTY RetiredEventuallyFreed
PROPERTY CleanupReturns
CHECK_DEADLOCK FALSE
