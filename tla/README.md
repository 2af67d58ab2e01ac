# Verification of CR_DR

TLA+ models of the coercion-resistant voting prototype in `src/` (a Rust
library and CLI): what they model, what TLC checks of them on small instances,
and what TLAPS proves of them for every instance. Paths below are relative to
`src/src/` unless they name a top-level document.

## 1. The system

One election authority (EA) runs an election out of a directory of JSON files.
Each CLI command (`main.rs`) reads some of the files, computes, and writes
others; there is no server, no lock and no transaction. A library call that
changes state corresponds to one command.

| part | state | operations | source |
|---|---|---|---|
| Setup, registration, nonce sharing | `params.json`, `authority/secret.json`, records, voter files, `registration.json` | `setup`, `register-voter`, cut-and-choose registration (library), `share-nonces`, `finalize-registration` | `protocol/setup.rs`, `protocol/preprocessing.rs`, `threshold/trusted_dealer.rs`, `crypto/shamir.rs` |
| Casting | none; makes ballots | `vote`, `fake-compliance`, chaff | `protocol/vote.rs`, `fake_compliance.rs`, `chaff.rs` |
| Admission, Path 1 | `channel.json`, `board.json`, cast proofs, `admitted.json`, `openings.json` | `submit`, `flush-channel`, `admit-board` | `protocol/bulletin_board.rs`, `protocol/admission.rs` |
| Admission, Path 2 | `admitted.json`, `openings.json`, receipts | `ea-submit` | `protocol/admission.rs` |
| FilterAndTally | none; a function of the board | validity, duplicates, tally | `protocol/filter_and_tally.rs`, `protocol/duplicates.rs` |
| Tally relation and circuit | witness rows | padding, per-slot evaluation, sorting network, counting | `zk/witness.rs`, `zk/mock_backend.rs` |
| Chunked tally | `ChunkedTally`, public transcript, its proofs | build, native check, proving pool, public verification | `zk/chunked.rs`, `bin/prove_chunked.rs`, `circuits/main/*_chunk.circom` |
| Publication | `tally.json`, `statement.json`, `proof.json`, `public.json` | `tally`, `prove`, `verify` | `main.rs`, `zk/statement.rs`, `zk/circom_io.rs` |
| Private judge | none | recorded-as-cast and tallied-as-recorded disputes, released verdicts | `disputes/*.rs` |
| Collaborative (Tier-3) proving | a work directory of inputs, shares, witnesses, proof; running co-circom processes | provider inputs, the stages of an attempt, verification and comparison | `zk/tier3.rs`, `bin/prove_tier3.rs`, `bin/prove_tier3_full.rs` |
| Groth16, other circuits, primitives, simulator, other binaries | - | - | `zk/groth16_backend.rs`, `circuits/`, `crypto/`, `threshold/malicious_view_model.rs`, `bin/` |

How they interact: registration publishes a table of rows, one per voter, that
binds the voter's key and nonce and the EA's nonce. A ballot is a commitment
whose opening names an identity; admission puts commitments on the admitted
board `BB_adm` and keeps their openings; FilterAndTally opens every commitment,
checks it against the row its identity selects, and counts the first valid
ballot of each identity. `tally` publishes counts and a statement, `prove` a
proof about the statement, `verify` reads all of it back. A voter who does not
believe the result files a dispute with a private judge, which recomputes the
same validity predicate from evidence the EA sends. For large boards the tally
is cut into chunks whose 2K+1 proofs are made by a pool of threads and checked
by anyone from a public transcript of commitments. For Tier 3 the inputs of a
proof are themselves shared: three providers (the openings, and two authorities
with one Shamir share each) hand shares to three parties, which prove together.

What is hard here:

* **Crashes between two writes.** Every command but `submit` and
  `finalize-registration` writes two or three files; a killed process leaves
  some of them new and some old, and the next command builds on them.
* **Stale readings.** A statement, a proof and a board are different files
  written at different times; a reader opens five of them in turn.
* **Order.** The anonymous channel shuffles; the first *valid* ballot on the
  board counts, and replays, fake-compliance ballots, chaff and re-votes come
  in any order around it.
* **The same predicate three times.** The tally, the circuit and the judge each
  compute validity and duplicates their own way, and must agree.
* **Chunk boundaries.** A voter's block of ballots may straddle two sorted
  runs; sizes sit at multiples of a chunk or at packed-key limits.
* **A transcript of commitments.** The public verifier of the chunked tally
  sees no record; it relies on chains of boundaries, products and snapshots
  that a prover may start, cut or stretch as it likes.
* **Parties that fail.** Three co-circom processes run side by side in a
  directory whose file names never change; one fails, or the driver is killed
  and they go on into the next attempt.
* **What an audit opens.** Cut-and-choose shows the voter nonces and stops half
  way when it finds a cheat; nothing of what it saw may be used later.
* **What a verdict reveals.** The released verdict must not tell a registered
  nonce from a fake one.
* **Evidence from an interested party.** The EA chooses the openings, the nonce
  and the proof the judge sees.

What makes each part correct: registration never publishes a row whose secrets
are missing and freezes the published table; admission never loses or mispairs
a ballot and honours its receipts; the tally is that of an election in which
each voter casts the first valid ballot once; circuit and chunked tally accept
exactly that tally, and so does whoever verifies the public transcript; an
accepted publication is exact and becomes available; a collaborative proof is
accepted only for the instance the driver meant, and failures can be retried;
the judge agrees with the tally and cannot be steered.

## 2. Modules

    Ballots ── Duplicates ─┬─ Admission ── MCAdmission
                           ├─ TallyRows ─┬─ TallyCircuit ── MCTallyCircuit
                           │             └─ ChunkedTally ── Transcript ── MCChunkedTally
                           ├─ Counting ──┘
                           └─ Judge ─┬─ Disputes ── MCDisputes
                                     └─ Posting (with TallyRows) ── MCPosting
    FirstValidCounts  (the abstract specification Admission implements)
    Registration ─┬─ MCRegistration
                  └─ RegistrationProofs
    ProviderInputs ── Tier3 ─┬─ MCTier3
                             └─ Tier3Proofs
    TallyProofs ─┬─ CircuitProofs     (TallyProofs: with Judge and TallyRows;
                 ├─ ChunkedProofs      each of the others: with the module it
                 ├─ DisputesProofs     is named for, ChunkedProofs with
                 ├─ PostingProofs      Transcript)
                 └─ AdmissionProofs

Abstractions common to all: a hash or commitment is modelled by binding (it is
equal exactly when its inputs are), so a commitment names its one opening; a
signature is the bit "verifies"; a candidate is its position in the candidate
list; a proof stands for the statement it proves (soundness of the proof system
is assumed). The commands' console output, random number generation and JSON
layout are left out.

### Ballots, Duplicates, FirstValidCounts

`Ballots` translates `registration_check`, `evaluate_ballot_validity` and the
judge's mirror `ballot_is_valid_for_id` over abstract plaintexts. `Duplicates`
translates the two duplicate strategies of `duplicates.rs` and the tally. The
library's `sort_by_key` is modelled by rank: the record with k-1 smaller keys
comes k-th; that this is a sort is a theorem (`RankSortSorts`).
`FirstValidCounts` is the promise to a voter: one write-once cell per voter,
filled by the first valid admitted ballot.

### Admission

One variable per file. A command is a `job`: the guard and all of its
computation happen in one action (`Submit`, `FlushChannel`, `AdmitBoard`,
`EaSubmit`), then `WriteFile` writes its files one at a time in the order of
the code (`WriteOrder`), and `Crash` may kill it before any of them.
Other shells (the set `Terminal`) run in between. Reading all of its inputs at
the start is where a command's reads are taken to be atomic; a single
`std::fs::write` is atomic too, so files cut in the middle are not modelled.
`FlushChannel` releases the channel in any order (`Shuffles`). `Clean` keeps the
entries with a verifying proof in their order, the k-th kept one in the k-th
place; it, `opening_opens` and `verify_cast_entry` are equalities of names. The
judge's two recorded-as-cast rulings are operators over the files.

### TallyRows, TallyCircuit, ChunkedTally

`TallyRows` is `eval_row`: soft flags, zeroed identity of invalid records, kept
candidate index, padding, and the hard row fetch. `TallyCircuit` loads a padded
board into Batcher's network and applies one stage of comparators per step. The
variables `p` and `k` are the two outer loop variables of `batcher_schedule`
(`NextStage` moves them, `Sorting` is the outer loop's condition), and
`Comparators` is its two inner loops read as a set; that the pairs of a stage are
disjoint, so that their order does not matter, is a lemma (`PairsDisjoint`). Keys
are packed with digits of `KeyWidth` (2^8 in the code).

`ChunkedTally` extends `Counting`. A prover claims a chunk size, sorted records
and counts: `Build` is `build_chunked_tally`, `Tamper` is any other sequence of
records, the sentinel included. The checker then runs as in
`chunked_relation_check_native`: limits and phase 1 (`BeginCheck`), one sorted
run per step (`CheckRun`) with the carried boundary record, and the final
comparison of products and counts (`Conclude`). Grand products are compared as
multisets, which is what they stand for except with negligible probability.

### Transcript

`Transcript` adds the public side. `TranscriptOf` is what
`ChunkedTally::transcript` publishes of what a prover chose: circuit width,
number of chunks, ballots per chunk, sorted records, and the values the
boundary chain and both product chains start from. `HonestChoice` is the
builder's. `StartPool`, `Fetch`, `Prove`, `FailItem` and `Assemble` are the
thread pool of `prove_chunked`: one counter, one slot per proof.
`PostAnother` is a prover who never ran the native check: each of its
alternatives varies one of those choices, a snapshot, or the counts. `BeginVerify` is
`check_chunked_transcript`, `CheckProof` the loop of
`verify_chunked_public_transcript` proof by proof. A proof stands for what its
circuit states (`ValidityHolds`, `RunHolds`, `SumHolds`, read from
`circuits/main/{validity,sorted_run,tally_sum}_chunk.circom`) together with its
public inputs (`Publics`). Commitments bind and challenges are ideal, so a
running product is a bag of records. A chunk size other than the circuit's
width and an extra chunk of padding are accepted in the model as in the code;
the counts are still exact then, which is what `VerifiedTranscriptIsExact`
says.

### ProviderInputs, Tier3

`ProviderInputs` is the data: `chunk_shares` and `full_providers` select two
Shamir shares per slot over a prime field, `Combine` is the circuit's
`LagrangeCombineT2`, and `WitnessNonce` is the nonce in the single prover's
witness. `Tier3` is the protocol of the two drivers around it. An attempt
(`StartAttempt`) goes through the stages of its mode, `ProveChunk` or
`ProveCollaborative`; a stage writes provider files or starts one process or
one per party (`BeginStage`) and waits for all of them (`EndStage`); at the end
the proof is verified and the public inputs are read again and compared
(`Verify`, `Compare`; the full driver compares the counts only). A file holds
the *origins* of its content: which instances' data went into it, whether
this attempt put it there, and whether it did so in mode `full`. A process reads when it starts and writes its
outputs one by one; `Fail` ends it, possibly with its file cut off; `Kill` ends
the driver with or without its processes. Survivors keep reading, writing and
holding ports in the directory of the next attempt (`Orphans`).

co-circom is not part of the repository. What the model takes from its use:
parties of one stage compute only together (`Join`), a party whose peers are
gone gives up (`GiveUp`), fresh shares of one instance make a proof that
verifies in a mode that works, and data of two instances never does. Mode `full`
(`--mode full-mpc`) does not work with co-circom 0.10.0, and the model says so as
the repository does (`TIER3_DESIGN.md:42-57`, `TIER3_STATUS.md:80-84`): at `-O2`
the parties extend the full relation to a witness that does not satisfy it and
report no error, so no proof made from such data ever verifies (`MayVerify`,
`MustVerify`); at `-O0` and `-O1` some of them panic and the others hang
(`BreakDown`), and the driver, which has no timeout, waits until somebody kills
what hangs (`KillHung`). Each attempt in that mode may go either way, as often as
it is tried; none of this counts as one of the `MaxFaults` failures. Two parties
stand for three: what matters is that one of them is missing. Network and TLS
configuration and the discovery of binaries and artifacts are left out.

### Judge, Disputes

`Judge` is `judge_tallied_as_recorded` stage by stage, and `external_verdict`.
In `Disputes` the board grows and at any moment a complaint is judged on
arbitrary evidence: openings missing, forged or those of other commitments,
any nonce or none, any status of the proof. The board may grow after the
ruling, so the properties compare the ruling with later boards too.
`NonceTestHiddenWhenVerified` says that the released verdict is the same for a
ballot and for its twin with a fake nonce. It is stated for a registration row
the published root confirms: a row the root contradicts is found only on the
path of the registered nonce, and is an authority fault that `judge.rs:52-54`
releases on purpose.

### Posting

`tally` and `prove` compute at once and write two files each; `verify` and
`dispute-tally` read their files one step at a time (`ReadFile`), so a reader
may see any mixture of old and new. `RelationCheck` states what
`relation_check_native` accepts; that the circuit's own counting is
FilterAndTally is `TallyCircuit`'s business.

### Registration

A registration draws key and nonces together and the row binds them, so a
number (`draw`) stands for all; shares are known by their draw and the (t, k)
they were dealt under. `RegisterVoter` deals under the *public* threshold,
`DirectNonce` and `QuorumNonce` are the two ways the code recovers a nonce (all
shares; the first t). `Setup` refuses a threshold like (2, 1).

`CutAndChoose` is `preprocess_voter_cut_and_choose` with the cheating authority
of the library's own `_with_cheat` variant: q candidate pairs are drawn, at
most one is corrupt, the voter keeps one and opens the others. A corrupt pair
among the opened ones ends the registration before anything is written; a
corrupt pair that is kept goes through, as in the code. `audits` records what
every audit opened. That a cheat survives with probability 1/q is not a
statement about behaviours and is left out.

## 3. Runs

| run | instance | what it shows |
|---|---|---|
| `Admission` | 1 shell, 4 ballots (two real ones of voter 0, a fake-nonce one, one of voter 1), at most 3 submissions and 5 entries, 2 crashes; the election uses the path its first command opened; fair | no step loses a ballot or its proof (`ChannelNeverLoses`); board and openings stay in step or are refused (`StoreAligned`, `TallyableMeansAligned`); when the lengths of raw board and proofs agree they are paired (`CleanableMeansAligned`); `BB_adm` is `Clean` of an earlier raw board (`PubliclyRecomputable`); receipts are honoured (`ReceiptedIsAdmitted`); admission implements `FirstValidCounts`; a proven submission is eventually admitted unless a crash has wedged `Clean` (`EventuallyAdmitted`) |
| `Tallying` | every board of up to 4 ballots of 10 kinds; chunks of 1, 2 and 4 slots; arbitrary sorted records up to 3 slots; for boards of up to 2 the public transcript too, from 2 threads or from another prover | both duplicate strategies agree, the counts are those of first valid ballots, an admission adds at most one vote; partial tallies add up over any cut; honest chunked tallies are accepted, provable item by item, and verified publicly (`HonestIsVerified`); what the checker accepts is exact (`AcceptedIsExact`), and so is what the public verifier accepts (`VerifiedTranscriptIsExact`) |
| `TallyCircuit` | circuits of 5, 7 and 8 slots, every board of 3 kinds of ballot that fits | after every merge level the aligned blocks are sorted; the circuit counts what FilterAndTally counts |
| `Disputes` | every board of up to 3 ballots of 5 kinds, every complaint and evidence | openings cannot steer a ruling except against the EA, rulings agree with the tally, and with a verifying proof the released verdict does not depend on the nonce |
| `Posting` | 1 shell, 2 ballots, one reader, 1 crash, fair | what `verify` accepts is exact and a voter who is cleared is counted, whatever is rewritten while they read; only an admission makes a verifiable result unverifiable; with the board closed the result becomes and stays verifiable |
| `Tier3` | 2 parties, 3 instances (two of them with the same counts), all three modes, 1 failure or kill, 1 change of instance or mode besides the advised one; fair | the pair of files that was verified is about what the driver expects (`AcceptedIsExpected`); only when survivors of a killed attempt were there is a finished proof refused, in a mode that works, or one accepted in `full-mpc` (`OnlyOrphansSpoil`); the circuit combines the nonces of the single prover's witness (`SameNonces`); trying again in a mode that works succeeds (`AlwaysProvedAgain`) |
| `Registration` | 1 shell, 3 voters, thresholds (1,1), (2,2), (2,3) and the refused (2,1), plain or with 2 or 3 pairs, 4 draws, 2 crashes | rows are always backed by both secrets; without crashes every nonce is recoverable through any re-sharings; an opened nonce is never in use and an audited cheat leaves nothing behind (`AuditedPairsAreSpent`); a crash strands at most one voter; the published table is frozen |
| `ReceiptOverwritten` | both paths, 1 shell, no crash | finding 1 |
| `CleanWedged` | Path 1, 1 crash, fair | finding 2 |
| `NonceTest` | disputes on boards of up to 2 | finding 3 |
| `ReshareTorn` | 1 crash | finding 4 |
| `PaddedChunk` | one chunk of two slots, an honest board of three ballots | finding 5 |

**Why the bounds are enough.** A voter needs two valid ballots for duplicates,
an invalid one in front of the first, and a second voter next to it: four
kinds of ballot and boards of three or four show every relation between them.
Two crashes let one crash hit the repair of another. In `TallyCircuit` boards
fill all eight slots with valid and invalid records in every order, so the
network sees every 0/1 input, which is enough for a sorting network of that
size. In `ChunkedTally` the position limit equals the longest board, so the
limit itself is reached, and every board length meets the end of a chunk, its
inside and its beginning. A posted board of two ballots has up to two chunks
plus the extra one, so every chain has a first, an inner and a last link, and
two threads finish in either order. In `Tier3` one fault is enough for a failed
attempt, a cut-off file, or survivors in the next attempt; one switch makes the
next attempt one at another instance; two instances with the same counts show
what the full driver's weaker comparison lets through. The third instance has
other counts and takes part in chunk mode only, its board being too long for the
full circuit; with six slots, where it fits, the run has twice the states and
passes as well. Going from `full-mpc` to `proving-mpc` with the same
instance, as the driver advises, is always allowed and uses up no switch. `AcceptedIsExpected` is
stated for at most one fault: survivors of *two* killed drivers can replace the
public inputs between verification and the second reading
(`bin/prove_tier3.rs:167-169`). `MaxEntries`, `MaxSubmitted`, `MaxBallots`,
`MaxBoard`, `MaxCrashes`, `MaxDraws`, `MaxVoters`, `MaxTampered`, `MaxPosted`,
`MaxFaults` and `MaxSwitches` are the only bounds. The `Tallying` run identifies
states that differ by a permutation of the threads; it checks no liveness.

**Deadlock.** The bounded systems stop when the bounds are used up, and a
killed `setup` or flush leaves a directory no command can continue from;
`CHECK_DEADLOCK FALSE` is set there. `Posting`, `Tier3` and `PaddedChunk` never
stop and are checked for it: in particular no failure leaves a driver and its
parties waiting for each other, except that a driver waits for a party that hangs
until that is killed.

**Fairness.** A command that runs finishes unless it is killed
(`WF(WriteFile)`; crashes are bounded), and the operator keeps running
`flush-channel`, `admit-board`, `tally` and `prove`: strong fairness, because
another command of the same shell disables them while it runs. `OnePathFairSpec`
and `Posting`'s `FairSpec` write SF out as `[]<>enabled => []<>step`, with the
states that enable the command named, which TLC evaluates much faster than
ENABLED. `Tier3`'s `FairSpec` lets an attempt, its processes and the
survivors of earlier ones go on, and the operator, who may try `full-mpc` as
often as he likes, retry again and again in a mode that works
(`WorkingMode`) an instance whose inputs can be built. That a process alone ends
is the assumption about co-circom above; that a process which hangs is killed is
one about the operator, for nothing in the repository does it. Nothing else is assumed: nobody has to submit, register or
admit, and no crash or failure has to happen.

### Findings

1. `ReceiptOverwritten`: `admit-board` replaces `admitted.json` by Clean of the
   raw board, dropping what `ea-submit` admitted. An EA that issued a receipt
   and admitted the ballot is then ruled faulty. "Two paths, never mixed
   implicitly" (`protocol/admission.rs:2`) is enforced by nothing.
2. `CleanWedged`: a flush killed between `board.json` and the proofs, and
   repeated, leaves the two of different lengths; `clean` fails from then on.
   The judge still rules complaints about entries that have their proof
   unfounded because "public Clean admits it".
3. `NonceTest`: while no tally proof is available, a valid first ballot is ruled
   `Undetermined` and its twin under a fake nonce `VoterFaulty`, released as
   `NoAuthorityFault`: the released verdicts differ by the nonce alone.
4. `ReshareTorn`: `share-nonces` killed between its two writes leaves
   `params.json` and `secret.json` with different thresholds; later
   registrations deal shares under the public one.
5. `PaddedChunk`: `chunk_shares` selects the shares by the identity field of a
   row, which in a padding row is 0: voter 0's shares are combined where the
   witness has nonce 0, and the chunk is refused, although
   `zk/tier3.rs:72-74` says that padding slots have shares (0, 0). The last
   chunk of an honest board can therefore not be proved collaboratively unless
   it is full; `full_providers` tests the slot number and has no such case.

Also visible in the models, without a run of their own: `ea-submit` killed
between its two writes makes the openings store lag the board by one for good
(the `Admission` run shows that such a pair of files is always refused and
never opened wrongly); with two shells a second `finalize-registration` can
replace the published table; the chunked builder accepts a board of exactly
2^24 entries that both checkers refuse (`zk/chunked.rs:160`, `:332`, `:768`),
which is why `HonestIsAccepted`, a part of `HonestIsVerified`, is stated below
the limit; and `full-mpc` at the default `-O2` gets through `prove_chunk` without
an error and ends with "full MPC proof failed to verify"
(`bin/prove_tier3_full.rs:190`), not with the report of the limitation that
`TIER3_DESIGN.md:33-34` and `:162-163` speak of, which is printed only when the
parties panic.

## 4. Proofs

Checked by TLAPS for every value of the constants, from the assumptions named
in the modules (`RegAssumption`, `OpeningAssumption`, `VotersAssumption`,
`NoFileAssumption`, ...).

* `TallyProofs`: the rank sort is a sort (`RankSortSorts`), and for every
  sequence of records the linear pass over the sorted records counts exactly
  what the quadratic reference counts (`SortedCountsNaive`). The argument: keys
  are distinct because positions are, so the record before a valid one in the
  order has the same identity exactly when an earlier valid record of it exists.
  Its lemmas on what appending one ballot does to the first vote of every voter
  serve the proofs about admission and posting. `PassIsTally` is what both
  circuits rest on: over any rearrangement of the rows of a board in which valid
  records come first, by identity and then by position, the pass counts what
  `filter_and_tally` counts. With the registration row a hard constraint, a row is
  valid exactly when the tally finds the ballot valid, and padding never is; so a
  slot is counted exactly when its record is the earliest valid one of its
  identity, and the position maps counted slots onto counted ballots one to one.
* `CircuitProofs`: `CircuitTypeOK`, `BlocksAreAlwaysMerged` and
  `CircuitIsAlwaysExact`: Batcher's odd-even mergesort, as `batcher_schedule`
  lays it out, sorts for every number of slots, a power of two or not, and the
  circuit then counts what FilterAndTally counts. `BlocksAreMerged` speaks of the
  states between two levels only. The invariant `NetworkInv` says how far a level
  has got (`Merged`): once the stage of stride s of the level with blocks of 2p
  rows is done, two rows of a block are in order unless they are less than s apart
  and lie in different sub-blocks of s rows. `FirstStageMerges` and
  `LaterStageMerges` show that a stage halves s, `FirstComparators` and
  `LaterComparators` that its pairs are those of the loop nest; at s = 1 nothing is
  excepted, and the blocks of 2p are sorted. The incomplete last block needs no
  case of its own: rows beyond the end are never compared, and `Merged` never
  speaks of them. A stage is an involution on the slots (`StageRearranges`), so
  the rows stay a rearrangement of those loaded, and with digits wide enough for
  identities and positions ascending keys are the order `PassIsTally` asks for.
* `ChunkedProofs`, counting: the properties of the `Tallying` run that belong to
  `Counting`, for boards of any length (`CountingTypeOK`, `SortedIsAlwaysNaive`,
  `TallyIsAlwaysOfFirstChoices`, `AdmissionAlwaysAddsAtMostOne`). The inductive
  invariant `TalliedBoard` says that the counts are FilterAndTally of the board;
  the rest is a bijection between counted records and voters with a vote. Then
  the linear pass: it may be cut at any slot when the identity before the cut is
  carried over, and `PassIsTally` applies to what the chunked checkers accept: the
  wide key orders by validity, identity and position because every identity is
  below the sentinel's and every position below 2^24, and equal products over
  numbered rows make the sorted records a permutation (pigeonhole).
* `ChunkedProofs`, the native check: for every board, chunk size and choice of
  sorted records, the bound `MaxTampered` included, `RunsAlwaysAddUp` and
  `AcceptedIsAlwaysExact`. `AcceptedIsExact` says nothing of the states before
  the verdict; its invariant, `ExactInv`, adds what has been established on the
  way there: the slots of the runs checked so far ascend, boundaries included,
  the limits and the rows hold once the check has begun, and the partial tallies
  add up.
* `ChunkedProofs`, the public verifier: `VerifiedTranscriptIsAlwaysExact`, for
  every transcript a prover may shape. The invariant `TranscriptInv` says that
  the proofs gone through so far fit their places; a proof carries the place's
  commitments, so it is a proof of that place, whichever place it was made for.
  What is left is arithmetic about shapes: either the chunk size equals the
  circuit's width, or there is one chunk and it holds the board. The chains then
  give ascending keys over the whole list, and the product chains, whose end
  must be equal, make the sorted records a rearrangement of the rows.
* `ChunkedProofs`, completeness: `HonestIsAlwaysAccepted` and
  `HonestIsAlwaysVerified`. What the builder makes is accepted, each of its work
  items is provable, and whatever the threads do, a pool that has finished posts
  every proof in its place, so the verifier goes through to the end (`PlacesInv`:
  the items taken are below the counter, and each proof in a place is the proof
  of that place). Both need `WithinLimits`, which a proof attempt found missing:
  a voter's identity is below the sentinel's, and the chunk size divides the
  position limit, or a board of nearly 2^24 entries gets a padding slot the
  packed key has no room for (`zk/chunked.rs:417`); the code's sizes, powers of
  two and 2^24, satisfy it.
  `ChunkedImplementsCounting` and `TranscriptImplementsChunked` carry what is
  proved of the smaller machines over to the specification the run checks.
* `TallyProofs` and `DisputesProofs`, the judge: `DisputesTypeOK`, `OpeningsNeverSteer`,
  `JudgeAlwaysAgreesWithTally` and `NonceTestAlwaysHiddenWhenVerified`, for any
  set of ballots, evidence and length of board. The judge goes through
  the earlier ballots and stops at the first one that is a valid ballot of the
  identity or whose opening does not open it; the lemmas say what the place it stops at means,
  and that with the tally's own nonce its mirror of validity is the tally's.
  The inductive invariant, `RuledOnPrefix`: the ruling was made on a beginning of
  the present board. Nothing behind the complained-of ballot enters it, so it is
  also the ruling on the present board, which the properties are about.
* `AdmissionProofs`: `AdmissionTypeOK` for any number of shells and both paths
  mixed. For one shell, one path (the first command chooses it, `OnePathSpec`)
  and whatever crashes: `TallyableStaysAligned`, `StoreStaysAligned`,
  `AlwaysRecomputable`, `CleanableStaysAligned`, `ReceiptedStaysAdmitted`,
  `ChannelKeepsAll` and `AdmissionImplementsCells` (admission implements
  `FirstValidCounts`). None of them is inductive: a receipt is safe only because
  the board written before it contains it, and a flush that has written the board
  must still have the proofs to write. The invariant `OnePathStore` says what a
  running command has still to write: in `PublicStore` the raw board and its
  proofs stand side by side or the proofs lag, and the admitted board is `Clean`
  of a beginning of them; `PrivateStore` has board and openings level or the
  board one ahead; `OpeningsFollow` is the part that lasts until the first crash.
  For the implementation of cells it matters that Clean of a longer raw board
  begins with Clean of the shorter one. `EitherPathIsOnePath` carries the
  theorems to `PublicSpec` and `PrivateSpec`. The hypothesis of one shell and one
  path is needed: finding 1 is a violation with both paths, and two shells that
  flush at once lose a ballot to the last writer.

* `PostingProofs`, for any number of shells, ballots and crashes:
  `PostingTypeOK`, `VerifiedIsAlwaysExact`, `ClearedIsAlwaysCounted` and
  `OnlyAdmissionEverUnverifies`. What a reader has seen may be any mixture of
  old and new files, so nothing can be said of the files as a whole. The
  invariant `StatementsExact` says it of each one: every statement and every
  proof, in a file, in a running command or already read, is the exact one of
  *some* board. Acceptance compares the board inside the statement with the
  board read, and exactness follows.
* `RegistrationProofs`: `RegistrationTypeOK` for any number of shells, and for
  one shell, any voters, thresholds, candidate pairs and crashes:
  `RowsAreAlwaysBacked`, `FinalizedIsAlwaysFrozen`, `AuditedPairsAreAlwaysSpent`,
  `NoncesAreAlwaysRecoverable` and `StrandedOnlyByCrash`. Each property needs
  what a running command will still write. `Store`: a registration has written
  the voter file and the secrets before the row, a re-sharing keeps every
  nonce. `Frozen`: the table is that of the records, and whoever could change
  them started before it was published. `Spent`: every number in a file or a
  command was drawn, and the next draw is new. `Coherent`: shares are those of
  the authority's threshold, and it differs from the public one only while a
  re-sharing is between its writes. `LeftBehind` counts: each stranded voter
  costs a crash, or is the registration still running. With two shells the
  frozen table, for one, is false (section 3).

* `Tier3Proofs`, for any number of parties, instances, slots, faults and
  attempts: `Tier3TypeOK`, `OnlyOrphansEverSpoil`, `AcceptedIsAlwaysExpected` and
  `SameNoncesAlways`. The type invariant `Typed` includes that no process of its
  own outlives a stage (`Staged`), and `StagesFit` that every stage reads only
  what earlier ones write. So a set of contents that holds what the driver writes
  and is closed under union flows through the stages (`Flows`, `FlowsOn`): at the
  end the proof and the public inputs are in it. `Undisturbed` takes the set of
  contents made in this attempt alone: without survivors everything is, so the
  proof is accepted, or, in mode `full`, it comes from a wrong witness and is
  refused. `Binding` takes the contents that hold some data of the
  present instance, or of the instance b of the one attempt that was killed: a
  file that verifies is of one instance, so of either; if it is b and is then
  compared with success, b's public inputs are those expected, and if it is
  rewritten in between, the data of b that the survivor carries stands in what is
  compared. Two kills leave survivors of two instances, for which this fails.
  `SameNoncesAlways` has the hypothesis that nonces are shared with threshold 2
  and at least two shares, which `LagrangeCombineT2` is written for: the value at
  0 of a line is twice its value at 1 less that at 2, in every field.

Every safety property of every passing run is proved. What stays with TLC is
liveness (`EventuallyAdmitted`, `UnfoundedIsAdmitted`, `EventuallyVerifiable`,
`AlwaysProvedAgain`), which is beyond the prover. Nothing is proved of what a
recursive definition computes for every input; none of the theorems needs it
(the share of a line is a fold over two coefficients, unfolded by hand in
`LineShare`).

## 5. Not modelled

The Groth16 backend, the single-prover circuits and scripts (external prover;
taken as a sound proof system); field, curve and hash arithmetic; the
below-threshold simulator (a statement about distributions); the probability
1/q of cut-and-choose; network and TLS configuration and artifact discovery of
Tier 3; the remaining binaries and benchmarks. Several shells over one directory
are modelled (`Terminal`) but checked and proved only where the code's writes
allow a statement: without locks the last writer wins (`main.rs:484`), which
contradicts nothing the repository says.

## 6. Plan

1. `Election`: registration, admission and posting over one directory, with the
   two liveness properties merged into "every proven submission is eventually in
   an accepted tally".
2. Stronger safety for Tier 3 with several kills: what the driver could compare,
   or remove before it starts, for `AcceptedIsExpected` to hold without a bound
   on the faults.
