------------------------------ MODULE MCDaemon ------------------------------
(* Instances of Daemon for TLC. *)
EXTENDS Daemon, MCMultiMint

CONSTANTS junk, pw, cliPw, envWords

Plain == [password |-> Unset, invite |-> Unset, noAuth |-> FALSE]

\* Started plainly, with everything overridden, or without authentication.
SomeLaunches ==
  {Plain, [Plain EXCEPT !.password = cliPw, !.invite = inviteA],
   [Plain EXCEPT !.noAuth = TRUE, !.invite = inviteB]}

\* Edited with and without a password, edited to something that does not parse, damaged.
SomeFiles ==
  {Good([password |-> Unset, invite |-> inviteA]), Good([password |-> pw, invite |-> junk]),
   [form |-> "bad", settings |-> Default], NoFile}
=============================================================================
