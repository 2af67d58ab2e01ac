----------------------------- MODULE Transcript -----------------------------
(***************************************************************************)
(* The public side of the chunked tally: what prove_chunked posts, and what *)
(* verify_chunked_public_transcript accepts of it.                          *)
(*                                                                          *)
(* A transcript holds the values that appear in the public inputs of the    *)
(* 2K+1 proofs: K of ValidityChunk, K of SortedRunChunk, one of TallySum.   *)
(* The verifier sees commitments and the admitted board only; it goes       *)
(* through the proofs one by one, each of which must be about the values    *)
(* the transcript has at its place.                                         *)
(*                                                                          *)
(* Commitments bind, so they stand for what they commit to: a running       *)
(* product for a bag of records, and the running sums inside TallySum are   *)
(* listed although they stay private.  A proof verifies when what it states *)
(* holds.  The challenges are taken to come from the posted commitments, as *)
(* in ChunkedTally.                                                         *)
(*                                                                          *)
(* The driver's proofs are made by a pool of threads.  Another prover may   *)
(* post any values.                                                         *)
(***************************************************************************)
EXTENDS ChunkedTally, Bags

CONSTANTS
  Worker,         \* the threads of the pool
  NoTranscript,
  NoProof,
  Idle,           \* a thread between two items
  Gone,           \* a thread that has left the pool
  MaxPosted       \* bound: ballots on a board whose tally is posted

ASSUME TranscriptBounds ==
  /\ MaxPosted \in Nat
  /\ Idle # Gone /\ Idle \notin Nat /\ Gone \notin Nat /\ NoProof \notin Nat

VARIABLES
  posted,    \* the transcript, or NoTranscript
  proofs,    \* proofs[i]: the item whose proof is in place i, or NoProof
  next,      \* the first item not handed out
  at,        \* at[w]: the item thread w proves
  failed,    \* whether an item could not be proved
  checked,   \* proofs the verifier has gone through
  outcome    \* none, proving, unproved, posted, verifying, refused or verified

publicVars == <<posted, proofs, next, at, failed, checked, outcome>>
poolVars == <<next, at, failed>>
transcriptVars == <<chunkedVars, publicVars>>

-----------------------------------------------------------------------------
(* Transcripts.                                                             *)

Items(tr) == 2 * tr.chunks + 1

SlotRecord(j) ==
  IF j < Len(admitted) THEN EvalRow(admitted[j + 1], j) ELSE PaddingRow(j)

BagOf(rs, first, last) ==
  [r \in {rs[j] : j \in first..(last - 1)} |->
     Cardinality({j \in first..(last - 1) : rs[j] = r})]

\* What a prover chooses: circuits of `width` slots, the number of chunks, the
\* ballots a chunk is said to hold, the sorted records, and the values the
\* boundary chain and the two product chains start from.
HonestChoice ==
  [ width  |-> claim.chunk,
    chunks |-> Chunks(claim.chunk),
    size   |-> claim.chunk,
    sorted |-> claim.sorted,
    first  |-> Sentinel,
    p0     |-> EmptyBag,
    q0     |-> EmptyBag ]

\* ChunkedTally::transcript, of what build_chunked_tally makes of a choice.
TranscriptOf(ch) ==
  LET c    == ch.width
      n    == ch.chunks
      rs   == ch.sorted
      bnd  == [k \in 0..n |-> IF k = 0 THEN ch.first ELSE rs[k * c - 1]]
      rc   == [j \in 0..(n * c - 1) |-> SlotRecord(((j \div c) * ch.size) + (j % c))]
      sums == [k \in 0..n |-> VotesAt(rs, CountedSlots(rs, 0, k * c, ch.first.id))]
  IN  [ width    |-> c,
        chunks   |-> n,
        size     |-> ch.size,
        ballots  |-> Len(admitted),
        bb       |-> [k \in 0..n |->
                        SubSeq(admitted, 1, IF k * ch.size < Len(admitted)
                                              THEN k * ch.size ELSE Len(admitted))],
        rc       |-> rc,
        sc       |-> rs,
        boundary |-> bnd,
        tc       |-> [k \in 0..(n - 1) |->
                        VotesAt(rs, CountedSlots(rs, k * c, (k + 1) * c, bnd[k].id))],
        sums     |-> sums,
        accP     |-> [k \in 0..n |-> ch.p0 (+) BagOf(rs, 0, k * c)],
        accQ     |-> [k \in 0..n |-> ch.q0 (+) BagOf(rc, 0, k * c)],
        counts   |-> sums[n] ]

-----------------------------------------------------------------------------
(* What each circuit proves.                                                *)

Slice(rs, k, c) == [j \in (k * c)..(k * c + c - 1) |-> rs[j]]

\* The slots of chunk k that hold a ballot.
Active(tr, k) ==
  LET left == tr.ballots - k * tr.size
  IN  IF left <= 0 THEN 0 ELSE IF left < tr.width THEN left ELSE tr.width

\* ValidityChunk: the board chain grows by the active ballots, and the records
\* committed to are theirs.
ValidityHolds(tr, k) ==
  LET base == k * tr.size
      from == Len(tr.bb[k])
      after == tr.bb[k + 1]
  IN  /\ NumVoters < IdLimit /\ tr.ballots < PosLimit /\ base < PosLimit
      /\ Len(after) = from + Active(tr, k)
      /\ SubSeq(after, 1, from) = tr.bb[k]
      /\ RowsFetchable(SubSeq(after, from + 1, Len(after)))
      /\ \A j \in 0..(tr.width - 1) :
           tr.rc[k * tr.width + j] =
             IF j < Active(tr, k) THEN EvalRow(after[from + j + 1], base + j)
                                  ELSE PaddingRow(base + j)

KeyBefore(r) == IF r.id = IdLimit THEN 0 ELSE KeyWide(r)

\* SortedRunChunk: the run is in range and sorted, from the boundary before it
\* to the one after it, counted, and multiplied into both products.
RunHolds(tr, k) ==
  LET first == k * tr.width
      last  == first + tr.width - 1
  IN  /\ tr.boundary[k + 1] = tr.sc[last]
      /\ \A j \in first..last :
           /\ tr.sc[j].id < 2 * IdLimit /\ tr.sc[j].pos < PosLimit
           /\ (IF j = first THEN KeyBefore(tr.boundary[k]) ELSE KeyWide(tr.sc[j - 1]))
                <= KeyWide(tr.sc[j])
      /\ tr.tc[k] = VotesAt(tr.sc, CountedSlots(tr.sc, first, last + 1, tr.boundary[k].id))
      /\ tr.accP[k + 1] = tr.accP[k] (+) BagOf(tr.sc, first, last + 1)
      /\ tr.accQ[k + 1] = tr.accQ[k] (+) BagOf(tr.rc, first, last + 1)

\* TallySum: the partial tallies add up to the counts, and the products agree.
SumHolds(tr) ==
  /\ tr.sums[0] = NoVotes
  /\ \A k \in 0..(tr.chunks - 1) :
       tr.sums[k + 1] = [c \in Candidate |-> tr.sums[k][c] + tr.tc[k][c]]
  /\ tr.counts = tr.sums[tr.chunks]
  /\ tr.accP[tr.chunks] = tr.accQ[tr.chunks]

Holds(tr, i) ==
  IF i < tr.chunks THEN ValidityHolds(tr, i)
  ELSE IF i < 2 * tr.chunks THEN RunHolds(tr, i - tr.chunks)
  ELSE SumHolds(tr)

\* transcript_validity_publics, transcript_sorted_run_publics and
\* transcript_tally_sum_publics.
Publics(tr, i) ==
  LET k == IF i < tr.chunks THEN i ELSE i - tr.chunks
  IN  IF i < tr.chunks
        THEN <<"validity", tr.ballots, k * tr.size, tr.bb[k], tr.bb[k + 1],
               Slice(tr.rc, k, tr.width)>>
      ELSE IF i < 2 * tr.chunks
        THEN <<"run", Slice(tr.rc, k, tr.width), Slice(tr.sc, k, tr.width),
               tr.boundary[k], tr.boundary[k + 1], tr.tc[k],
               tr.accP[k], tr.accP[k + 1], tr.accQ[k], tr.accQ[k + 1]>>
        ELSE <<"sum", tr.tc, tr.accP[k], tr.accQ[k], tr.counts>>

-----------------------------------------------------------------------------
(* The driver.                                                              *)

\* prove_chunked proves what build_chunked_tally built and the native check has
\* accepted.
StartPool ==
  /\ outcome = "none" /\ Len(admitted) <= MaxPosted
  /\ claim # NoClaim /\ verdict = "accepted"
  /\ claim.sorted = GlobalSort(BoardRecords(claim.chunk))
  /\ posted' = TranscriptOf(HonestChoice)
  /\ proofs' = [i \in 0..(Items(posted') - 1) |-> NoProof]
  /\ outcome' = "proving"
  /\ UNCHANGED <<chunkedVars, poolVars, checked>>

\* A faulty variant: the last item is never handed out.
LastItemLost(w) ==
  /\ outcome = "proving" /\ at[w] = Idle
  /\ next' = next + 1
  /\ at' = [at EXCEPT ![w] = IF next < Items(posted) - 1 THEN next ELSE Gone]
  /\ UNCHANGED <<chunkedVars, posted, proofs, failed, checked, outcome>>

\* next.fetch_add.
Fetch(w) ==
  /\ outcome = "proving" /\ at[w] = Idle
  /\ next' = next + 1
  /\ at' = [at EXCEPT ![w] = IF next < Items(posted) THEN next ELSE Gone]
  /\ UNCHANGED <<chunkedVars, posted, proofs, failed, checked, outcome>>

Prove(w) ==
  /\ outcome = "proving" /\ at[w] \notin {Idle, Gone}
  /\ Holds(posted, at[w])
  /\ proofs' = [proofs EXCEPT ![at[w]] = at[w]]
  /\ at' = [at EXCEPT ![w] = Idle]
  /\ UNCHANGED <<chunkedVars, posted, next, failed, checked, outcome>>

\* The prover's process fails; the thread goes on with the next item.
FailItem(w) ==
  /\ outcome = "proving" /\ at[w] \notin {Idle, Gone}
  /\ failed' = TRUE
  /\ at' = [at EXCEPT ![w] = Idle]
  /\ UNCHANGED <<chunkedVars, posted, proofs, next, checked, outcome>>

\* All threads have returned.
Assemble ==
  /\ outcome = "proving" /\ \A w \in Worker : at[w] = Gone
  /\ outcome' = IF failed THEN "unproved" ELSE "posted"
  /\ UNCHANGED <<chunkedVars, posted, proofs, poolVars, checked>>

-----------------------------------------------------------------------------
(* Another prover.                                                          *)

PostOther(tr) ==
  /\ posted' = tr
  /\ proofs' = [i \in 0..(Items(tr) - 1) |-> i]
  /\ outcome' = "posted"
  /\ UNCHANGED <<chunkedVars, poolVars, checked>>

\* Values that were not made as build_chunked_tally makes them, without a native
\* check: the sorted records are any of those claimed; a chain starts with
\* something else; a chunk is left out or said to be of another size, or there is
\* one more; a snapshot or the counts are changed afterwards.
PostAnother ==
  LET h       == HonestChoice
      records == RecordsAround(h.width)
      longer  == GlobalSort(RowsOf(admitted, Padded(h.width) + h.width))
  IN  /\ outcome = "none" /\ Len(admitted) <= MaxPosted
      /\ claim # NoClaim /\ verdict = "none"
      /\ \/ PostOther(TranscriptOf(h))
         \/ \E r \in records : PostOther(TranscriptOf([h EXCEPT !.first = r]))
         \/ \E m \in 1..(h.width + 1), n \in 1..h.chunks :
              PostOther(TranscriptOf([h EXCEPT !.size = m, !.chunks = n]))
         \/ \E r, s \in records :
              PostOther(TranscriptOf([h EXCEPT !.p0 = SetToBag({r}), !.q0 = SetToBag({s})]))
         \/ PostOther(TranscriptOf([h EXCEPT !.chunks = @ + 1, !.sorted = longer]))
         \/ \E k \in 0..h.chunks, m \in 0..Len(admitted) :
              PostOther([TranscriptOf(h) EXCEPT !.bb[k] = SubSeq(admitted, 1, m)])
         \/ \E c \in Candidate :
              PostOther([TranscriptOf(h) EXCEPT !.counts[c] = @ + 1])

-----------------------------------------------------------------------------
(* The verifier: verify_chunked_public_transcript.                          *)

\* check_chunked_transcript's board chain, from the admitted board itself.
SnapshotsAccepted(bb, c, n) ==
  /\ bb[0] = <<>>
  /\ \A j \in 1..Len(admitted) : j % c = 0 => bb[j \div c] = SubSeq(admitted, 1, j)
  /\ \A k \in (Len(admitted) \div c + 1)..n : bb[k] = admitted
  /\ bb[n] = admitted

\* A faulty variant: the chains may start anywhere.
StartsForgotten(tr) ==
  /\ tr.ballots = Len(admitted) /\ Len(admitted) <= tr.chunks * tr.size
  /\ tr.ballots < PosLimit
  /\ SnapshotsAccepted(tr.bb, tr.size, tr.chunks)

\* check_chunked_transcript; vectors of other lengths are left out.
StructureAccepted(tr) ==
  /\ tr.chunks > 0 /\ tr.size > 0
  /\ tr.ballots = Len(admitted) /\ Len(admitted) <= tr.chunks * tr.size
  /\ tr.ballots < PosLimit
  /\ SnapshotsAccepted(tr.bb, tr.size, tr.chunks)
  /\ tr.boundary[0] = Sentinel
  /\ tr.accP[0] = EmptyBag /\ tr.accQ[0] = EmptyBag

BeginVerify ==
  /\ outcome = "posted"
  /\ outcome' = IF StructureAccepted(posted) THEN "verifying" ELSE "refused"
  /\ UNCHANGED <<chunkedVars, posted, proofs, poolVars, checked>>

\* Proof i carries the values of place i, and verifies.
ProofFits(tr, i) ==
  /\ proofs[i] # NoProof
  /\ Publics(tr, proofs[i]) = Publics(tr, i)
  /\ Holds(tr, proofs[i])

CheckProof ==
  /\ outcome = "verifying"
  /\ checked' = checked + 1
  /\ outcome' = IF ~ProofFits(posted, checked) THEN "refused"
                ELSE IF checked' = Items(posted) THEN "verified" ELSE "verifying"
  /\ UNCHANGED <<chunkedVars, posted, proofs, poolVars>>

-----------------------------------------------------------------------------

TranscriptInit ==
  /\ ChunkedInit
  /\ posted = NoTranscript /\ proofs = <<>>
  /\ next = 0 /\ at = [w \in Worker |-> Idle] /\ failed = FALSE
  /\ checked = 0 /\ outcome = "none"

TranscriptNext ==
  \/ outcome = "none" /\ ChunkedNext /\ UNCHANGED publicVars
  \/ StartPool
  \/ \E w \in Worker : Fetch(w) \/ Prove(w) \/ FailItem(w)
  \/ Assemble
  \/ PostAnother
  \/ BeginVerify
  \/ CheckProof

TranscriptSpec == TranscriptInit /\ [][TranscriptNext]_transcriptVars

-----------------------------------------------------------------------------

\* What verify_chunked_public_transcript accepts is the exact tally, although
\* it sees only commitments: no choice of sorted records, boundaries, chain
\* starts, chunk size, number of chunks or snapshots has it accept other counts.
VerifiedTranscriptIsExact ==
  outcome = "verified" => posted.counts = FilterAndTally(admitted)

\* What build_chunked_tally builds for a board below the limit the checker
\* states (chunked.rs:332) is accepted by the native check; each of its items
\* can be proved; and however the threads of the pool take turns, every proof
\* ends up in the place the public verifier looks for it.
HonestIsVerified ==
  /\ HonestIsAccepted
  /\ next > 0 =>
       /\ outcome # "refused"
       /\ \A w \in Worker : at[w] \notin {Idle, Gone} => Holds(posted, at[w])
       /\ outcome = "posted" => \A i \in DOMAIN proofs : proofs[i] # NoProof
=============================================================================
