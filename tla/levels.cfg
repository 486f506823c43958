SPECIFICATION Spec
CONSTANTS
  Objects <- MCObjects
  Scenarios <- MCScenarios
INVARIANTS
  LinesHangTogether
  AnswersAreFresh
  PathsLeadBack
  NoReportIsLost
  MergedAtOnePlace
