SPECIFICATION FairSpec
CONSTANTS
  MaxJobs = 3
  Configs <- SomeConfigs
  Values <- ThreeValues
  SerialValue <- ThreeSerial
  LimitJobs <- TwoLimitJobs
  NoValue = NoValue
  NoAnswer = NoAnswer
  Raised = Raised
INVARIANTS
  TypeOK
  AnswerIsSerial
  StatsAllOrNothing
  NoWorkerOutlivesSection
PROPERTIES
  MeetsContract
  SectionEnds
