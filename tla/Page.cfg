SPECIFICATION PageSpec
CONSTANTS
  Texts = {1}
  TimelineRuns = 2
  MaxJournal = 5
  TimelinePage = 2
  ComposerSessions = {a, b}
  NoComposerSession = none
  NativeTexts = {2}
  MaxTexts = 2
  MaxSends = 2
  StopSessions = {a, b}
  MaxStopRuns = 2
  MaxStops = 2
  DirSessions = {a, b}
  FirstSessions = {a}
  InitialSession = a
  NoPage = none
  MaxOps = 2
  MaxWords = 2
  MaxAsks = 3
  NoDraft = none
  MaxChoices = 2
  CardSessions = {a, b}
  MaxApprovals = 2
  MaxDecisions = 2
  MaxItems = 2
  MaxVersion = 4
  MaxClicks = 2
INVARIANTS
  PageTypeOK
  EachShownOnce
  EndingShown
  OutputsMatch
  
  DraftSentOnce
  StopTold
  
  AskedOnce
  DefaultsKept
  ApprovalDecided
  
CHECK_DEADLOCK FALSE
