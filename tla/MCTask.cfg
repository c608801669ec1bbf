CONSTANTS
  NSteps = 3
  NIns = 1
  NOuts = 2
  Jobs <- MCJobs
  Word = {"off", "gone", "success"}
  Literal = {"'on'"}
  ValueOf <- MCValueOf
  MaxTokens = 7
  Name = {"a", "__proto__"}
  Special = {"__proto__"}
  BadName = {"1"}
  Between = "a"
  Text = {"x"}
  MaxLines = 4
  Target = {t1, t2}
  NMakerSteps = 2
  Key = {a, constructor}
  Inherited = {constructor}
  Builtin = Builtin
  NoRef = NoRef
  Unknown = Unknown
  Ambiguous = Ambiguous
  Unread = Unread
SPECIFICATION MCSpec
INVARIANTS
  StoresOnlyWholeRuns
  FailureIsNeverHidden
  ConditionsHonoured
  ReportMatchesStore
  ConditionMeansWhatItSays
  OutputsAsWritten
  ReadsWhatWasWritten
