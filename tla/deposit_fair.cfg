\* One deposit, followed to its end, and a caller that asks for it at most twice in two ticks;
\* one crash.
SPECIFICATION FairDesk
CONSTANTS
  d1 = d1
  fedA = fedA
  caller = caller
  Nil = Nil
  FedOf <- FedOfDeposit
  Op = {d1}
  Federation = {fedA}
  Awaited = {d1}
  MaxOps = 1
  MaxCrashes = 1
  Id = {caller}
  MaxRequests = 2
  Window = 2
INVARIANTS
  LimitHolds
  AnswersAreTrue
PROPERTIES
  SubscriptionPersists
  ArrivalIsAnswered
  DepositIsSettled
