\* Three operations of one federation, two handlers at a time, limit one.
SPECIFICATION Spec
CONSTANTS
  recv = recv  recv2 = recv2  recv3 = recv3  depo = depo  wdrw = wdrw  pay = pay
  fedA = fedA  fedB = fedB
  Nil = Nil
  FedOf <- FedOfOp
  TypeOf <- TypeOfOp
  MetaOf <- MetaFull
  Op = {recv, recv2, wdrw}
  Federation = {fedA}
  MaxOps = 1
  Timeout = 0
  PageSize = 1
  Handlers = 2
  Horizon = 1
  MaxCrashes = 1
  MaxEvents = 2
SYMMETRY Receives
INVARIANT OvershootBounded
