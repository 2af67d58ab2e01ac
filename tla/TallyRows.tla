----------------------------- MODULE TallyRows -----------------------------
(***************************************************************************)
(* One slot of the tally circuit: the record eval_row computes for it, and  *)
(* the constraint that makes the whole relation unsatisfiable.  Shared by   *)
(* the monolithic circuit (TallyCircuit) and the chunked one (ChunkedTally).*)
(*                                                                          *)
(* Slots are numbered from 0.  A plaintext whose id does not fit an integer *)
(* claims, here, an id of NumVoters or more; one that does not parse and    *)
(* has a small id has a candidate that does not fit.                        *)
(***************************************************************************)
EXTENDS Duplicates

\* The soft flags of an active slot j, and the record made of them: the id of
\* an invalid record is 0 but its candidate index is kept.
EvalRow(com, j) ==
  LET pt      == Opening[com]
      candOk  == pt.parses /\ pt.cand \in Candidate
      inRange == pt.id < NumVoters
      valid   == /\ pt.eid = Eid
                 /\ candOk
                 /\ pt.sigOk
                 /\ inRange
                 /\ Reg[pt.id].vk = pt.vk
                 /\ Reg[pt.id].h = HCom(pt.eid, pt.id, pt.vk, pt.r, AuthorityNonce[pt.id])
  IN  [ valid |-> valid,
        id    |-> IF valid THEN pt.id ELSE 0,
        pos   |-> j,
        cand  |-> IF candOk THEN pt.cand ELSE 0 ]

\* A slot beyond the board.
PaddingRow(j) == [valid |-> FALSE, id |-> 0, pos |-> j, cand |-> 0]

\* A faulty variant: slots numbered from one.
RowsFromOne(adm, n) ==
  [j \in 1..n |-> IF j <= Len(adm) THEN EvalRow(adm[j], j) ELSE PaddingRow(j)]

\* The records of a circuit of n slots over the board adm.
RowsOf(adm, n) ==
  [j \in 0..(n - 1) |-> IF j < Len(adm) THEN EvalRow(adm[j + 1], j) ELSE PaddingRow(j)]

\* The hard constraint: the row of every identity claimed in range is in the
\* published table.
RowsFetchable(adm) ==
  \A j \in 1..Len(adm) :
    LET pt == Opening[adm[j]] IN pt.id < NumVoters => Reg[pt.id].pathOk

\* The slots of sorted records before `last` at which an identity block of
\* valid records begins; `before` is the identity met before slot `first`.
CountedSlots(rows, first, last, before) ==
  {j \in first..(last - 1) :
     /\ rows[j].valid
     /\ rows[j].id # (IF j = first THEN before ELSE rows[j - 1].id)}

VotesAt(rows, slots) ==
  [c \in Candidate |-> Cardinality({j \in slots : rows[j].cand = c})]
=============================================================================
