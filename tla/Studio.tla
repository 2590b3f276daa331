------------------------------- MODULE Studio -------------------------------
(***************************************************************************)
(* The studio's database beside films and jobs: the chat with its memory,  *)
(* and the accounts with their characters.  The two share no table and no  *)
(* request (the chat takes the client's word for the user), so a step of   *)
(* one commutes with every step of the other, and either is explored while *)
(* the other is as at start-up.                                            *)
(***************************************************************************)
EXTENDS StudioChat, Characters, TLC

vars == <<chatVars, characterVars>>

Init == ChatInit /\ CharacterInit

ChatIsNew == acts = 0 /\ \A t \in Turns : TurnAt(t, "new")
AccountsAreNew == \A s \in Signups : signup[s] = "new"

Next == \/ AccountsAreNew /\ ChatNext /\ UNCHANGED characterVars
        \/ ChatIsNew /\ CharacterNext /\ UNCHANGED chatVars

Spec == Init /\ [][Next]_vars

\* Turns are alike.
Symmetry == Permutations(Turns)

\* The shape of every row and request of both.
TypeOK == ChatType /\ CharacterType
=============================================================================
