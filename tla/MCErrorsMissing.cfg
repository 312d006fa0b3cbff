CONSTANTS
  HandleOps <- ReportingOps
  ProxyOps <- CatchingOps
  Texts <- Text
  MissingAt <- InAny
  MaxDepth = 7
SPECIFICATION Spec
INVARIANT ErrorIffNull
