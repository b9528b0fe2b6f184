\* A receive and a deposit of one federation, one crash.
SPECIFICATION Spec
CONSTANTS
  recv = recv  recv2 = recv2  recv3 = recv3  depo = depo  wdrw = wdrw  pay = pay
  fedA = fedA  fedB = fedB
  Nil = Nil
  Op = {recv, depo}
  Federation = {fedA}
  FedOf <- FedOfOp
  TypeOf <- TypeOfOp
  MetaOf <- MetaFull
  MaxOps = 1
  Timeout = 1
  PageSize = 2
  Handlers = 2
  Horizon = 3
  MaxCrashes = 1
  MaxEvents = 2
INVARIANTS
  TypeOK
  ReportedOnce
  OnlyTrueReports
  ClaimedMeansReported
PROPERTIES
  RecoversRecent
  ImplementsReporting
