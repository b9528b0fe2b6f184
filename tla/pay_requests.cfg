\* Two requests for one invoice, and a session that pays it, too, and sends on; one crash.
\* Requests end for good: deadlock is not checked.
SPECIFICATION FairSessions
CHECK_DEADLOCK FALSE
CONSTANTS
  r1 = r1  r2 = r2  w1 = w1  lnurl = lnurl
  garbled = garbled
  c1 = c1
  i1 = i1  i2 = i2
  Nil = Nil
  Request = {r1, r2, w1, lnurl}
  Garbled = {garbled}
  Connection = {c1}
  Messages <- SomeMessages
  Invoice = {i1, i2}
  KindOf <- KindOfRequest
  InvoiceOf <- InvoiceOfRequest
  AmountGiven = {lnurl}
  MaxCrashes = 1
INVARIANTS
  SessionsTypeOK
  OnlyTrueSuccess
  HandledInTurn
PROPERTIES
  ImplementsPayments
  AwaitedIsAnswered
  MessagesAreAnswered
