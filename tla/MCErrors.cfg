CONSTANTS
  HandleOps <- ReportingOps
  ProxyOps <- CatchingOps
  Texts <- Text
  MissingAt <- InWorker
  MaxDepth = 9
SPECIFICATION Spec
INVARIANTS TypeOK ErrorIffNull
PROPERTY AnswersTrue
