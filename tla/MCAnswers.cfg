SPECIFICATION AnswersSpec
CONSTANTS
  Commits = {"c1", "c2", "d2", "m3"}
  NoCommit = "none"
  Ancestors <- MCAncestors
  Merges = {"m3"}
  Newer <- MCNewer
  FilesOf <- MCFilesOf
  MaxRead = 2
  RulesLimit = 1
  Touching = {"c1", "c2"}
  HistoryFiles = {"f", "g", "h"}
  File = "f"
  Better <- MCBetter
  MaxCommitFiles = 3
  MinSupport = 2
  RankLimit = 1
  Miners = {"m1", "m2"}
  MaxMoves = 2
  MaxStarts = 2
  MapCallers = {"a", "c"}
  MapProcess <- MCMapProcess
  RouteChildren = {"child"}
  Questions = {"q1", "q2"}
  MapCacheLimit = 1
  MaxCommits = 2
  MaxMaps = 3
  Paths = {"a", "b", "c"}
  CommonNameMax = 2
  ResolveMaxFiles = 2
  LeadsShown = 1
  DependentsShown = 1
  DependentsMax = 2
  CompanionsShown = 2
  RulesShown = 2
  MatchesShown = 1
  CheckMaxSymbols = 1
  GuardsShown = 2
  GuardsPerFile = 1
  GuardsTier = 2
  GuardsScan = 1
  Floor = 1
  Calls <- MCCalls
  Fences <- MCFences
  MaxFences = 2
  s1 = s1
  s2 = s2
  a = a
  d = d
  r1 = r1
  r2 = r2
  Symbols = {s1, s2}
  Callers = {a}
  DefFile = d
  Contents <- MCContents
  Versions <- MCVersions
  Defines <- MCDefines
  Uses <- MCUses
  Absent = Absent
  Resolvers = {r1, r2}
  FirstDisk <- MCFirstDisk
  MaxEdits = 1
  MaxGeneration = 2
  MayBeBusy = TRUE
  MayForce = TRUE
  SourceFiles = {"f", "g", "h"}
  Sites = {1, 2, 3, 4}
  SiteFile <- MCSiteFile
  Texts <- MCTexts
  Unit <- MCUnitOf
  TextsOf <- MCTextsOf
  NoText = NoText
  DfCap = 3
  MinShared = 2
  SimOf = 1
  SimOutOf = 2
  MaxTextEdits = 1
  MaxFinds = 2
INVARIANT SameQuestion DegradationIsSaid CompanionsOfThisHistory MapOfTheIndex SilenceIsSaid EdgesOfTheseRows ScopeMissesNothing RowsOfTheIndex
PROPERTY CallersLostOnlyByKnownGaps
SYMMETRY MCSymmetry
CHECK_DEADLOCK FALSE
