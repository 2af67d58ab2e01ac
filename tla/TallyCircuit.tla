---------------------------- MODULE TallyCircuit ----------------------------
(***************************************************************************)
(* The monolithic FilterAndTally relation (zk/mock_backend.rs): the board   *)
(* is padded to the slots of the circuit, the records are sorted by         *)
(* Batcher's odd-even mergesort network, and one pass over adjacent rows    *)
(* counts the first valid record of each identity.                          *)
(*                                                                          *)
(* The comparators of one stage (p, k) touch disjoint pairs of rows, so a   *)
(* stage is one step.                                                       *)
(***************************************************************************)
EXTENDS TallyRows

CONSTANTS
  Slots,      \* shape.num_ballots of the compiled circuits
  KeyWidth,   \* 2^8: ids and positions take one digit each of the packed key
  MaxBoard    \* bound: length of the admitted board

ASSUME CircuitBounds ==
  /\ Slots \subseteq Nat \ {0}
  /\ KeyWidth \in Nat /\ \A n \in Slots : n <= KeyWidth
  /\ MaxBoard \in Nat

VARIABLES
  admitted,   \* BB_adm.coms
  rows,       \* the records in the network, or <<>> before it is loaded
  p, k        \* the loop variables of batcher_schedule: the next stage

vars == <<admitted, rows, p, k>>

NotLoaded == <<>>

Loaded == rows # NotLoaded

Width == Cardinality(DOMAIN rows)

Sorting == Loaded /\ p < Width

\* A faulty variant: invalid records are not sorted behind the valid ones.
KeyNoValidity(r) == r.id * KeyWidth + r.pos

\* Rec::key.
PackedKey(r) ==
  (IF r.valid THEN 0 ELSE KeyWidth * KeyWidth) + r.id * KeyWidth + r.pos

-----------------------------------------------------------------------------
(* batcher_schedule: p doubles from 1 while it is below n, and k halves     *)
(* from p to 1 for each p.                                                  *)

\* A faulty variant: the last pair of rows is forgotten.
ComparatorsShort(n) ==
  {a \in (k % p)..(n - k - 2) :
     /\ (a - (k % p)) % (2 * k) < k
     /\ a \div (2 * p) = (a + k) \div (2 * p)}

\* The upper rows a of the comparators (a, a + k) of the stage (p, k): j runs
\* over k % p + multiples of 2k, and a over j .. j + k - 1, inside a block of 2p.
Comparators(n) ==
  {a \in (k % p)..(n - k - 1) :
     /\ (a - (k % p)) % (2 * k) < k
     /\ a \div (2 * p) = (a + k) \div (2 * p)}

CompareAndSwap(rs) ==
  LET swapped == {a \in Comparators(Cardinality(DOMAIN rs)) :
                    PackedKey(rs[a]) > PackedKey(rs[a + k])}
  IN  [a \in DOMAIN rs |->
         IF a \in swapped THEN rs[a + k]
         ELSE IF (a - k) \in swapped THEN rs[a - k]
         ELSE rs[a]]

NextStage ==
  IF k > 1
    THEN k' = k \div 2 /\ UNCHANGED p
    ELSE p' = 2 * p /\ k' = p'

-----------------------------------------------------------------------------

Init == admitted = <<>> /\ rows = NotLoaded /\ p = 1 /\ k = 1

Admit(com) ==
  /\ ~Loaded
  /\ Len(admitted) < MaxBoard
  /\ admitted' = Append(admitted, com)
  /\ UNCHANGED <<rows, p, k>>

\* The board, padded to n slots, enters the network.
Load(n) ==
  /\ ~Loaded
  /\ Len(admitted) <= n
  /\ NumVoters < KeyWidth
  /\ RowsFetchable(admitted)
  /\ rows' = RowsOf(admitted, n)
  /\ UNCHANGED <<admitted, p, k>>

Sort ==
  /\ Sorting
  /\ rows' = CompareAndSwap(rows)
  /\ NextStage
  /\ UNCHANGED admitted

Next ==
  \/ \E com \in Com : Admit(com)
  \/ \E n \in Slots : Load(n)
  \/ Sort

Spec == Init /\ [][Next]_vars

\* The counts of the adjacent-row pass over sorted rows; slot 0 always begins
\* a block.
CircuitCounts(rs) ==
  VotesAt(rs, CountedSlots(rs, 0, Cardinality(DOMAIN rs), NumVoters))

-----------------------------------------------------------------------------

TypeOK ==
  /\ admitted \in Seq(Com)
  /\ Loaded => rows \in [0..(Width - 1) -> Record]
  /\ p \in Nat \ {0} /\ k \in 1..p

\* Merging: before the first stage of a level every aligned block of p rows is
\* sorted, whatever the number of slots, a power of two or not.
BlocksAreMerged ==
  Loaded /\ k = p =>
    \A a, b \in DOMAIN rows :
      a < b /\ a \div p = b \div p => PackedKey(rows[a]) < PackedKey(rows[b])

\* The relation proves the tally: what the circuit counts, from padded and
\* packed records through the network, is what FilterAndTally counts
\* (mock_backend.rs:1-3, witness.rs build_tally_witness).
CircuitIsExact ==
  Loaded /\ ~Sorting => CircuitCounts(rows) = FilterAndTally(admitted)
=============================================================================
