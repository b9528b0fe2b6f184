---------------------------- MODULE MCMultiMint ----------------------------
(* Instances of MultiMint for TLC. *)
EXTENDS MultiMint

CONSTANTS j1, j2, j3, fedA, fedB, inviteA, inviteA2, inviteB

\* Two invite codes of one federation, one of another.
FedOfInvite == [i \in Invite |-> IF i = inviteB THEN fedB ELSE fedA]

InviteOfJoin == [j \in Join |-> CASE j = j1 -> inviteA
                                  [] j = j2 -> inviteA2
                                  [] j = j3 -> inviteB]
=============================================================================
