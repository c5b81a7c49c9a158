SPECIFICATION SourcesSpec
CONSTANTS
  Paths <- TreePaths
  Order <- TreeOrder
  Leading <- TreeLeading
  Base <- PinnedTree
  Pointers = {"g"}
  Ignoring = {"d/n"}
  Restore = {"d/f", "d/n"}
  Overlay <- OverlayTree
  SetupReach = {"d/n"}
  AgentReach <- TreePaths
  Commands = {"run", "check"}
  BaseOf <- RevisionsOfBases
  ReferenceOf <- RevisionsOfReferences
  Hashes = {"old", "fork"}
  Cloned = {"main"}
  Remote = {"main", "old", "fork"}
  Objects = {"o1", "o2"}
  MaxDeaths = 1
  Wizards = {wizard1, wizard2}
  MaxEdits = 1
  LocalPlaces = {"a", "b"}
  CloneRootPlaces = {"b"}
  HubPlaces = {"hub"}
  NameOf <- NamesOfPlaces
  Outputs = {"out", "a"}
  MaxEntries = 1
  MaxTaskLines = 3
  MaxTrailing = 1
  NumCommits = 5
  Histories <- CommitGraphs
  Held = {2}
  Named = {2}
  ListLimit = 3
  MaxMoves = 1
  ProbeConfig <- ProbedConfig
  ParentNames = {"path", "home", "token"}
  CaseNames = {"path"}
  WithheldNames = {"token"}
  Needs <- NeedsOfCommands
  TrackedFiles = {"tracked"}
  UntrackedFiles = {"new"}
  MaxWrites = 1
  MaxIntrusions = 1
INVARIANTS
  SourcesTypeOK
  SealedIsWhole PatchIsAgentsWork CheckStateExact
  CloneSound ConfigKept InterruptsHonoured InterviewSound DocumentKept
  BaseIsBeforeReference ProbesTellTheTruth
CHECK_DEADLOCK FALSE
