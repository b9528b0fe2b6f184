\* Two deposits of two federations, one crash.
SPECIFICATION Spec
CONSTANTS
  d1 = d1  d2 = d2  d3 = d3
  fedA = fedA  fedB = fedB
  Nil = Nil
  FedOf <- FedOfDeposit
  Op = {d1, d2}
  Federation = {fedA, fedB}
  MaxOps = 1
  MaxCrashes = 1
INVARIANTS
  TypeOK
  NoOrphanSubscription
PROPERTY ImplementsReporting
