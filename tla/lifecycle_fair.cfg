\* Two federations; recovery reads from thin and misleading metadata.
SPECIFICATION FairSpec
CONSTANTS
  recv = recv  recv2 = recv2  recv3 = recv3  depo = depo  wdrw = wdrw  pay = pay
  fedA = fedA  fedB = fedB
  Nil = Nil
  FedOf <- FedOfOp
  TypeOf <- TypeOfOp
  MetaOf <- MetaThin
  Op = {recv, pay}
  Federation = {fedA, fedB}
  MaxOps = 2
  Timeout = 1
  PageSize = 1
  Handlers = 1
  Horizon = 2
  MaxCrashes = 1
  MaxEvents = 2
INVARIANTS
  ClaimInv
PROPERTIES
  SettledIsReported
  NothingWatchedForEver
