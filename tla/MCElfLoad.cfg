SPECIFICATION LoadSpec
CONSTANTS
  Dir <- Dirs
  File <- Files
  Link <- Links
  Name <- Names
  Target <- Targets
  NoNode = NoNode
  Root = "root"
  MaxSymlinks = 3
  MaxComponents = 2
  MaxRenames = 1
  U32Max = 90
  U64Max = 100
  MaxItems = 6
  BeforeSpace <- Spaces
  Content <- Contents
  StandardId <- Standard
  Process <- Processes
INVARIANT WalkExact
INVARIANT StaysInRoot
INVARIANT SearchExact
INVARIANT NothingLeaks
INVARIANT BiasExact
INVARIANT SymbolExact
INVARIANT ReadsMappedFile
PROPERTY LoadReturns
