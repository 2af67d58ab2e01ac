---------------------------- MODULE ChunkedTally ----------------------------
(***************************************************************************)
(* The chunked tally (zk/chunked.rs): a board too large for one circuit is  *)
(* cut into chunks of slots.  The records of all slots are sorted globally  *)
(* and the sorted sequence is cut into runs; the checker goes through the   *)
(* runs one by one, carrying the last record of each into the next, adds up *)
(* the partial tallies, and at the end compares the two running products,   *)
(* which are equal when the sorted records are the original ones.           *)
(*                                                                          *)
(* The commitments to records, boundaries, partial tallies and products     *)
(* bind, so they stand for what they commit to; a product of                *)
(* gamma - enc(r), gamma drawn after the records are committed, stands for  *)
(* the multiset of the records.  A board-chain value stands for the         *)
(* commitments folded into it.                                              *)
(***************************************************************************)
EXTENDS Counting, TallyRows

CONSTANTS
  ChunkSizes,   \* the chunk sizes an operator may ask for
  IdLimit,      \* 2^ID_BITS, the identity of the sentinel
  PosLimit,     \* 2^24
  MaxTampered   \* bound: slots of a claim whose sorted records are arbitrary

ASSUME ChunkedBounds ==
  /\ ChunkSizes \subseteq Nat \ {0}
  /\ IdLimit \in Nat /\ PosLimit \in Nat /\ MaxTampered \in Nat

VARIABLES
  claim,    \* the chunked tally under check, or NoClaim
  run,      \* sorted runs checked so far
  total,    \* their partial tallies, added up
  verdict   \* none, checking, accepted or rejected

claimVars == <<claim, run, total, verdict>>
chunkedVars == <<vars, claimVars>>

NoClaim == [chunk |-> 0, sorted |-> <<>>, counts |-> <<>>]

NoVotes == [c \in Candidate |-> 0]

\* A faulty variant: the last, partial chunk is lost.
ChunksRoundedDown(c) == IF Len(admitted) < c THEN 1 ELSE Len(admitted) \div c

\* div_ceil(..).max(1).
Chunks(c) == IF admitted = <<>> THEN 1 ELSE (Len(admitted) + c - 1) \div c

Padded(c) == Chunks(c) * c

BoardRecords(c) == RowsOf(admitted, Padded(c))

Sentinel == [valid |-> FALSE, id |-> IdLimit, pos |-> 0, cand |-> 0]

\* Rec::key_wide.
KeyWide(r) ==
  (IF r.valid THEN 0 ELSE 2 * IdLimit * PosLimit) + r.id * PosLimit + r.pos

GlobalSort(rs) ==
  [i \in DOMAIN rs |->
     rs[CHOOSE j \in DOMAIN rs :
          Cardinality({l \in DOMAIN rs : KeyWide(rs[l]) < KeyWide(rs[j])}) = i]]

-----------------------------------------------------------------------------
(* The prover.                                                              *)

Claim(c, sorted, cs) ==
  /\ claim = NoClaim
  /\ claim' = [chunk |-> c, sorted |-> sorted, counts |-> cs]
  /\ UNCHANGED <<vars, run, total, verdict>>

\* build_chunked_tally.
Build(c) ==
  /\ Len(admitted) <= PosLimit
  /\ RowsFetchable(admitted)
  /\ Claim(c, GlobalSort(BoardRecords(c)), counts)

\* Another sequence of sorted records, claiming the counts it adds up to (the
\* last comparison refuses any others).
Tamper(c, sorted) ==
  Claim(c, sorted, VotesAt(sorted, CountedSlots(sorted, 0, Padded(c), IdLimit)))

-----------------------------------------------------------------------------
(* The checker: chunked_relation_check_native.                              *)

\* The limits, and phase 1: the records committed in board order are those of
\* the board's rows, whose hard constraints hold.
BeginCheck ==
  /\ claim # NoClaim /\ verdict = "none"
  /\ verdict' = IF /\ NumVoters < IdLimit
                   /\ Len(admitted) < PosLimit
                   /\ RowsFetchable(admitted)
                  THEN "checking" ELSE "rejected"
  /\ UNCHANGED <<vars, claim, run, total>>

\* A faulty variant: every run begins at the sentinel.
BoundaryForgotten(k) == Sentinel

\* The record before run k.
BoundaryIn(k) == IF k = 0 THEN Sentinel ELSE claim.sorted[k * claim.chunk - 1]

\* The sentinel's own key is out of range and is not compared.
BoundaryKey(k) == IF BoundaryIn(k).id = IdLimit THEN 0 ELSE KeyWide(BoundaryIn(k))

\* Run k: records in range and sorted, the boundary included.
RunIsSorted(k) ==
  LET first == k * claim.chunk
  IN  \A j \in first..(first + claim.chunk - 1) :
        /\ claim.sorted[j].id < 2 * IdLimit /\ claim.sorted[j].pos < PosLimit
        /\ (IF j = first THEN BoundaryKey(k) ELSE KeyWide(claim.sorted[j - 1]))
             <= KeyWide(claim.sorted[j])

PartialTally(k) ==
  VotesAt(claim.sorted, CountedSlots(claim.sorted, k * claim.chunk, (k + 1) * claim.chunk,
                                     BoundaryIn(k).id))

CheckRun ==
  /\ verdict = "checking"
  /\ run < Chunks(claim.chunk)
  /\ IF RunIsSorted(run)
       THEN /\ run' = run + 1
            /\ total' = [c \in Candidate |-> total[c] + PartialTally(run)[c]]
            /\ UNCHANGED verdict
       ELSE verdict' = "rejected" /\ UNCHANGED <<run, total>>
  /\ UNCHANGED <<vars, claim>>

\* A faulty variant: the sorted records need only be among the original ones.
AmongRecords(sorted, rs) == \A j \in DOMAIN sorted : \E i \in DOMAIN rs : rs[i] = sorted[j]

\* The final products are equal: the same records, as often.
SameRecords(sorted, rs) ==
  \A j \in DOMAIN rs :
    Cardinality({i \in DOMAIN sorted : sorted[i] = rs[j]})
      = Cardinality({i \in DOMAIN rs : rs[i] = rs[j]})

Conclude ==
  /\ verdict = "checking"
  /\ run = Chunks(claim.chunk)
  /\ verdict' = IF /\ SameRecords(claim.sorted, BoardRecords(claim.chunk))
                   /\ total = claim.counts
                  THEN "accepted" ELSE "rejected"
  /\ UNCHANGED <<vars, claim, run, total>>

-----------------------------------------------------------------------------

ChunkedInit ==
  /\ Init
  /\ claim = NoClaim /\ run = 0 /\ total = NoVotes /\ verdict = "none"

RecordsAround(c) == {BoardRecords(c)[j] : j \in DOMAIN BoardRecords(c)} \cup {Sentinel}

ChunkedNext ==
  \/ claim = NoClaim /\ (\E com \in Com : Admit(com)) /\ UNCHANGED claimVars
  \/ \E c \in ChunkSizes : Build(c)
  \/ \E c \in ChunkSizes :
       /\ Padded(c) <= MaxTampered
       /\ \E sorted \in [DOMAIN BoardRecords(c) -> RecordsAround(c)] : Tamper(c, sorted)
  \/ BeginCheck
  \/ CheckRun
  \/ Conclude

ChunkedSpec == ChunkedInit /\ [][ChunkedNext]_chunkedVars

-----------------------------------------------------------------------------

\* Cutting the sorted records into runs changes nothing: however the runs
\* fall, and wherever a voter's block straddles two of them, the partial
\* tallies add up to one pass over the records checked so far.
RunsAddUp ==
  claim # NoClaim =>
    total = VotesAt(claim.sorted,
                    CountedSlots(claim.sorted, 0, run * claim.chunk, IdLimit))

\* What build_chunked_tally builds, chunked_relation_check_native accepts, for
\* boards below the limit the checker states (chunked.rs:332).
HonestIsAccepted ==
  /\ claim # NoClaim /\ Len(admitted) < PosLimit /\ RowsFetchable(admitted)
  /\ claim.sorted = GlobalSort(BoardRecords(claim.chunk))
  => verdict # "rejected"

\* What is accepted is the exact tally: no choice of sorted records, padding
\* and sentinel records included, has the checker accept other counts.
AcceptedIsExact == verdict = "accepted" => claim.counts = FilterAndTally(admitted)
=============================================================================
