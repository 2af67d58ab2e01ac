------------------------------ MODULE Counting ------------------------------
(***************************************************************************)
(* FilterAndTally as the admitted board grows: a board of one more ballot   *)
(* is one step away, so every board up to the bound is checked, and what    *)
(* one admission may do to the tally is an action property.                 *)
(***************************************************************************)
EXTENDS Duplicates

CONSTANTS
  NoVote,
  MaxBoard   \* bound: length of the admitted board

ASSUME CountingBounds == MaxBoard \in Nat /\ NoVote \notin Candidate

VARIABLES
  admitted,   \* BB_adm.coms
  counts      \* what `tally` publishes of it

vars == <<admitted, counts>>

Init ==
  /\ admitted = <<>>
  /\ counts = FilterAndTally(<<>>)

\* One more commitment is admitted, and the board is tallied again.
Admit(com) ==
  /\ Len(admitted) < MaxBoard
  /\ admitted' = Append(admitted, com)
  /\ counts' = FilterAndTally(admitted')

Next == \E com \in Com : Admit(com)

Spec == Init /\ [][Next]_vars

-----------------------------------------------------------------------------

TypeOK == admitted \in Seq(Com) /\ counts \in [Candidate -> Nat]

\* Strategy B counts exactly the records strategy A counts
\* (duplicates.rs:64-70): sorting with the dummy id 0 on invalid records
\* neither splits nor joins the block of any voter.
SortedIsNaive ==
  CountedSorted(Records(admitted)) = CountedNaive(Records(admitted))

\* The published counts are those of an election in which every voter casts
\* the candidate of the first valid ballot on the board, once.
TallyIsOfFirstChoices ==
  counts = TallyOfChoice(ChoiceOn(admitted, NoVote))

\* One more admission never takes a vote from a candidate and gives at most
\* one, so replays, duplicates and chaff cannot lower or inflate a count.
AdmissionAddsAtMostOne ==
  [][\E gains \in SUBSET Candidate :
       /\ Cardinality(gains) <= 1
       /\ \A c \in Candidate : counts'[c] = counts[c] + (IF c \in gains THEN 1 ELSE 0)]_vars
=============================================================================
