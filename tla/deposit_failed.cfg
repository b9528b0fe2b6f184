\* A deposit that fails.
SPECIFICATION Spec
CONSTANTS
  d1 = d1  d2 = d2  d3 = d3
  fedA = fedA  fedB = fedB
  Nil = Nil
  FedOf <- FedOfDeposit
  Op = {d1}
  Federation = {fedA}
  MaxOps = 1
  MaxCrashes = 0
INVARIANT FailedIsRemoved
