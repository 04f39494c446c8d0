------------------------------ MODULE MCInbox ------------------------------
(* One contact, its LID l and its number in two spellings, p and p9.        *)
EXTENDS Inbox, TLC

CONSTANTS i, j, r, l, p, p9, ficha, ana

TwoAndAReply == {i, j, r}
TheirTwo == {i, j}
OneReply == {r}
AllOfAna == [m \in Messages |-> ana]
OneLid == {l}
Spellings == {p, p9}
Swap == p :> p9 @@ p9 :> p
OneCard == {ficha}
OnTheirCard == [x \in Cards |-> p9]
FirstTwice == {<<i, 1>>, <<i, 2>>, <<j, 1>>, <<r, 1>>}

Both == [lid |-> l, phone |-> p]
Number == [lid |-> None, phone |-> p]
Spelled == [lid |-> None, phone |-> p9]
LidOnly == [lid |-> l, phone |-> None]

SomeWays == i :> {Both, Number} @@ j :> {Spelled, LidOnly} @@ r :> {Number, Both}
=============================================================================
