\* One federation whose balance moves once, a request that announces two events about a
\* payment, an endpoint that wants balances and what has succeeded, and a stream about
\* payments on a channel of capacity two.
SPECIFICATION FairSpec
CONSTANTS
  monitor = monitor  request = request  hook = hook  stream = stream
  fedA = fedA  initiated = initiated  succeeded = succeeded
  Nil = Nil
  Source = {monitor, request}
  Request = {request}
  Content <- ContentOfEvents
  Quiet <- BalanceEvents
  Endpoint = {hook}
  Wants <- WantsOf
  MaxAttempts = 2
  Stream = {stream}
  Capacity = 2
  MaxSent = 3
  Federation = {fedA}
  Monitor = monitor
  Threshold = 2
  MaxBalance = 2
  Story <- StoryOfRequest
  MaxMoves = 1
  MaxOutside = 2
INVARIANTS
  TypeOK
  LogInOrder
  WebhooksAccount
  StreamAccounts
  BalancesAccount
PROPERTIES
  DeliveryEnds
  JumpIsTold
