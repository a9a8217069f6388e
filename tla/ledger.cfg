\* One statement, two clients of two processes, three requests that may write
\* and one fault.
CONSTANTS
  NoValue = NoValue
  NotANumber = NotANumber
  Objects = {1, 2, 3, 4}
  Fragment = Fragment
  Gone = Gone
  c1 = c1
  c2 = c2
  p1 = p1
  p2 = p2
  Today <- MCToday
  Texts <- MCTexts
  MonthlyRate <- MCMonthlyRate
  AvailableCategories = {"food"}
  MaxAmount = 20000
  MaxInteger = 99
  Answers <- MCAnswers
  AgentEvents <- MCEvents
  MaxEvents = 3
  Ids = {1, 2, 3}
  Clients = {c1, c2}
  Processes = {p1, p2}
  Creations <- MCCreations
  Patches <- MCPatches
  Multipliers = {100, 120}
  Checkpoints <- MCCheckpoints
  Reports <- MCReports
  MaxRequests = 3
  MaxFaults = 1
SPECIFICATION FairSpec
CHECK_DEADLOCK FALSE
INVARIANTS LedgerTypeOK SessionsAreCleanedUp AnswerIsTheLastWhole
  OnlyWidthsAreUnchecked AgentLabelsAreTheAgents CorrectionsStand
  SettingsStand ReportMatchesListing WindowsAgree
PROPERTIES RequestsEnd
