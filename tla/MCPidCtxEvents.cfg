SPECIFICATION EventsSpec
CONSTANTS
  t1 = t1
  t2 = t2
  l1 = l1
  l2 = l2
  l3 = l3
  Thread <- TwoThreads
  Listener <- ThreeListeners
  ListenerMax = 2
  MaxEvents = 2
INVARIANT CalledOncePerEvent
PROPERTY RegistrationsKept
CHECK_DEADLOCK FALSE
