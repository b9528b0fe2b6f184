\* An invoice and a withdrawal, one crash.
SPECIFICATION FairSpec
CONSTANTS
  invoice = invoice  withdrawal = withdrawal
  Invoice = {invoice}
  Withdrawal = {withdrawal}
  MaxCrashes = 1
INVARIANTS
  TypeOK
  EndsAgree
PROPERTIES
  NotTakenBack
  EndIsTold
