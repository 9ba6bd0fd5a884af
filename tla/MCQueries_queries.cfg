CONSTANTS
  Resolvers = {r1, r2}
  Deleters = {d1, d2}
  Trackers = {1}
  None = None
SPECIFICATION QueriesSpec
INVARIANTS PartsTypeOK AnalysisIsWhole RecordedWasAnswered TrackersCoverOnce PagesKeepRows  RelationsHold
PROPERTIES BackfillNamesTheTool RequestsAnswered
