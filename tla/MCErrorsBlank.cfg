CONSTANTS
  HandleOps <- ReportingOps
  ProxyOps <- CatchingOps
  Texts <- AnyText
  MissingAt <- InWorker
  MaxDepth = 7
SPECIFICATION Spec
PROPERTY AnswersTrue
