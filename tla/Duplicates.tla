----------------------------- MODULE Duplicates -----------------------------
(***************************************************************************)
(* Duplicate handling over the per-ballot records of an admitted board, and *)
(* the tally it yields (protocol/duplicates.rs, stages 1-3 of               *)
(* filter_and_tally).                                                       *)
(*                                                                          *)
(* Strategy A is the quadratic reference.  Strategy B sorts the records by  *)
(* (-valid, id, pos) and counts the first valid record of each identity     *)
(* block.  Sorting is the library's sort_by_key, modelled by what a sort by *)
(* distinct keys returns: the record of rank k comes k-th.                  *)
(***************************************************************************)
EXTENDS Ballots

Records(adm) ==
  [j \in 1..Len(adm) |->
     LET pt == Opening[adm[j]]
         v  == IsValid(adm[j])
     IN  [ valid |-> v,
           id    |-> IF v THEN pt.id ELSE 0,
           pos   |-> j,
           cand  |-> IF v THEN pt.cand ELSE 0 ]]

Record == [valid : BOOLEAN, id : Nat, pos : Nat, cand : Nat]

\* A faulty variant: the key without its validity part.
KeyIgnoresValidity(a, b) ==
  \/ a.id < b.id
  \/ a.id = b.id /\ a.pos < b.pos

\* sort_key is (!valid, id, pos), compared lexicographically.
KeyLess(a, b) ==
  \/ a.valid /\ ~b.valid
  \/ a.valid = b.valid /\ a.id < b.id
  \/ a.valid = b.valid /\ a.id = b.id /\ a.pos < b.pos

-----------------------------------------------------------------------------
(* Strategy A: counted[j] = valid_j and no earlier valid record of the id.  *)

CountedNaive(recs) ==
  {j \in DOMAIN recs :
     /\ recs[j].valid
     /\ \A i \in 1..(j - 1) : ~(recs[i].valid /\ recs[i].id = recs[j].id)}

-----------------------------------------------------------------------------
(* Strategy B.                                                              *)

Before(recs, j) == {i \in DOMAIN recs : KeyLess(recs[i], recs[j])}

\* SortOrder(recs)[k] is the board position of the k-th record after sorting.
SortOrder(recs) ==
  [k \in DOMAIN recs |-> CHOOSE j \in DOMAIN recs : Cardinality(Before(recs, j)) = k - 1]

IsSortOf(order, recs) ==
  /\ order \in [DOMAIN recs -> DOMAIN recs]
  /\ \A j \in DOMAIN recs : \E k \in DOMAIN recs : order[k] = j
  /\ \A k, l \in DOMAIN recs : k < l => KeyLess(recs[order[k]], recs[order[l]])

\* Two faulty variants: every valid record counts; the last of a block counts.
EveryValid(recs, order) ==
  {recs[order[k]].pos : k \in {n \in DOMAIN recs : recs[order[n]].valid}}

LastOfBlock(recs, order) ==
  {recs[order[k]].pos :
     k \in {n \in DOMAIN recs :
              /\ recs[order[n]].valid
              /\ n = Len(recs) \/ recs[order[n + 1]].id # recs[order[n]].id}}

\* The linear pass; counted is indexed back by board position (pos).
CountedInOrder(recs, order) ==
  {recs[order[k]].pos :
     k \in {n \in DOMAIN recs :
              /\ recs[order[n]].valid
              /\ n = 1 \/ recs[order[n - 1]].id # recs[order[n]].id}}

CountedSorted(recs) == CountedInOrder(recs, SortOrder(recs))

-----------------------------------------------------------------------------
(* The public tally: T_c = number of counted records for candidate c.       *)

\* A faulty variant: candidates numbered from one.
OneBasedTally(recs, counted) ==
  [c \in 1..NumCandidates |-> Cardinality({j \in counted : recs[j].cand = c})]

TallyFromCounted(recs, counted) ==
  [c \in Candidate |-> Cardinality({j \in counted : recs[j].cand = c})]

FilterAndTally(adm) ==
  LET recs == Records(adm) IN TallyFromCounted(recs, CountedSorted(recs))

-----------------------------------------------------------------------------
(* What the board says about one voter, and what the tally promises: every  *)
(* voter contributes the candidate of the first valid ballot, or nothing.   *)

VotesOf(adm, v) == {j \in 1..Len(adm) : IsValid(adm[j]) /\ Opening[adm[j]].id = v}

FirstVote(adm, v) == CHOOSE j \in VotesOf(adm, v) : \A i \in VotesOf(adm, v) : j <= i

ChoiceOn(adm, NoVote) ==
  [v \in Voter |-> IF VotesOf(adm, v) = {} THEN NoVote ELSE Opening[adm[FirstVote(adm, v)]].cand]

TallyOfChoice(choice) ==
  [c \in Candidate |-> Cardinality({v \in Voter : choice[v] = c})]
=============================================================================
