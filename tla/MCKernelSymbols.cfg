SPECIFICATION KernelSpec
CONSTANTS
  U32Max = 3
  U64Max = 9
  MaxItems = 4
  s1 = s1
  s2 = s2
  Searcher <- TwoSearchers
  Kallsyms <- Files
  EmptyCap = 2
  Garbage <- Ends
  MaxLoads = 2
  MaxChanges = 1
SYMMETRY Threads
INVARIANT SearchesLiveTables
INVARIANT LookupExact
PROPERTY FreesWhatItReplaces
CHECK_DEADLOCK FALSE
