\* A federation is joined again with another invite code.
SPECIFICATION Spec
CONSTANTS
  j1 = j1  j2 = j2  j3 = j3
  fedA = fedA  fedB = fedB
  inviteA = inviteA  inviteA2 = inviteA2  inviteB = inviteB
  Nil = Nil
  Join = {j1, j2}
  Federation = {fedA, fedB}
  Invite = {inviteA, inviteA2, inviteB}
  InviteOf <- InviteOfJoin
  FedOf <- FedOfInvite
  MaxCrashes = 0
PROPERTY UpdatesExisting
