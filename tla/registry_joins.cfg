\* Two starts after the first, two joins of one federation and one of another, two changes
\* of the configuration file.  The daemon rests when its starts are used up and every join is
\* answered: deadlock is not checked.
SPECIFICATION DaemonSpec
CHECK_DEADLOCK FALSE
CONSTANTS
  j1 = j1  j2 = j2  j3 = j3
  fedA = fedA  fedB = fedB
  inviteA = inviteA  inviteA2 = inviteA2  inviteB = inviteB
  junk = junk  pw = pw  cliPw = cliPw  envWords = envWords
  Nil = Nil  Unset = Unset
  Join = {j1, j2, j3}
  Federation = {fedA, fedB}
  Invite = {inviteA, inviteA2, inviteB}
  Code = {inviteA, inviteA2, inviteB, junk}
  Password = {pw, cliPw}
  Words = {Nil, envWords}
  InviteOf <- InviteOfJoin
  FedOf <- FedOfInvite
  Launches <- SomeLaunches
  Files <- SomeFiles
  MaxCrashes = 2
  MaxStarts = 3
  MaxChanges = 2
INVARIANTS
  DaemonTypeOK
  PromiseIsKept
  OneSeed
  ServesAsConfigured
PROPERTIES
  ImplementsService
