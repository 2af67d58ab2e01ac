-------------------------- MODULE FirstValidCounts --------------------------
(***************************************************************************)
(* What admission and counting promise a voter together: the election keeps *)
(* one write-once cell per voter.  A cell is filled by the voter's first    *)
(* valid admitted ballot and is never changed, emptied or filled twice; a   *)
(* step may fill the cells of several voters (a whole raw board is admitted *)
(* at once).  Invalid ballots, replays and duplicates are stutters.         *)
(***************************************************************************)
EXTENDS Integers

CONSTANTS Voter, Candidate, NoVote

VARIABLE choice

ChoiceType == [Voter -> Candidate \cup {NoVote}]

Init == choice = [v \in Voter |-> NoVote]

Fill ==
  /\ choice' \in ChoiceType
  /\ choice' # choice
  /\ \A v \in Voter : choice[v] # NoVote => choice'[v] = choice[v]

Next == Fill

Spec == Init /\ [][Next]_choice
=============================================================================
