------------------------------ MODULE Posting ------------------------------
(***************************************************************************)
(* Publishing the result and reading it back: the CLI commands `tally` and  *)
(* `prove` of the authority, and `verify` and `dispute-tally` of a reader,  *)
(* over the files of the election directory.                                *)
(*                                                                          *)
(* The authority's commands compute at once and then write their two files  *)
(* one after the other; a proof takes minutes, so admissions and other      *)
(* commands fall in between, and so may a crash.  A reader opens its files  *)
(* one after the other and judges what it has seen.                         *)
(*                                                                          *)
(* The admitted board and the openings store move together here (Admission  *)
(* models their writes); every row is opened by its commitment.  A board    *)
(* commitment binds, so it stands for the board; the proof system is sound, *)
(* so a proof stands for the statement it proves.  The other fields of the  *)
(* statement come from the parameters and the finalized table, which do not *)
(* change.                                                                  *)
(***************************************************************************)
EXTENDS Judge, TallyRows

CONSTANTS
  Terminal,     \* shells of the authority
  NoFile,       \* a file that has not been written
  MaxBallots,   \* pp.max_ballots, the slots of the tally circuit
  MaxBoard,     \* bound: length of the admitted board
  MaxCrashes    \* bound: crashes in one behaviour

ASSUME PostingBounds == MaxBallots \in Nat /\ MaxBoard \in Nat /\ MaxCrashes \in Nat

VARIABLES
  admitted,    \* public/admitted.json
  tally,       \* public/tally.json: the counts
  statement,   \* public/statement.json
  proof,       \* proofs/proof.json
  public,      \* proofs/public.json: the proof's public inputs
  job,         \* job[p]: the command terminal p is running
  reading,     \* the reader's command and what it has seen
  crashes

published == <<tally, statement, proof, public>>
vars == <<admitted, tally, statement, proof, public, job, reading, crashes>>

Counts == [Candidate -> Nat]

Statement == [bb : Seq(Com), counts : Counts]

\* A faulty variant: `tally` first removes the proof of the previous result.
RemovesProof ==
  [tally |-> <<"proof", "tally", "statement">>, prove |-> <<"proof", "public">>]

\* The order in which each command writes.
WriteOrder == [tally |-> <<"tally", "statement">>, prove |-> <<"proof", "public">>]

\* The order in which a reader opens the files.
ReadOrder ==
  [ verify  |-> <<"proof", "public", "admitted", "statement", "tally">>,
    dispute |-> <<"admitted", "statement", "proof", "public">> ]

NoOutput == [tally |-> NoFile, statement |-> NoFile, proof |-> NoFile, public |-> NoFile]

Idle == [cmd |-> "none", done |-> 0, out |-> NoOutput]

NothingSeen ==
  [ admitted |-> <<>>, tally |-> NoFile, statement |-> NoFile,
    proof |-> NoFile, public |-> NoFile ]

NotReading == [cmd |-> "none", done |-> 0, seen |-> NothingSeen]

Init ==
  /\ admitted = <<>>
  /\ tally = NoFile /\ statement = NoFile /\ proof = NoFile /\ public = NoFile
  /\ job = [p \in Terminal |-> Idle]
  /\ reading = NotReading
  /\ crashes = 0

Start(p, cmd, out) ==
  /\ job[p] = Idle
  /\ job' = [job EXCEPT ![p] = [cmd |-> cmd, done |-> 0, out |-> out]]
  /\ UNCHANGED <<admitted, published, reading, crashes>>

-----------------------------------------------------------------------------
(* The authority.                                                           *)

\* Either admission path puts one more commitment on BB_adm.
Admit(com) ==
  /\ Len(admitted) < MaxBoard
  /\ admitted' = Append(admitted, com)
  /\ UNCHANGED <<published, job, reading, crashes>>

\* `tally`: FilterAndTally over the files, and the statement about it.
Tally(p) ==
  LET counts == FilterAndTally(admitted)
  IN  Start(p, "tally",
            [NoOutput EXCEPT !.tally = counts,
                             !.statement = [bb |-> admitted, counts |-> counts]])

\* A faulty variant: the last slot of the circuit is never used.
LosesLastSlot(st, adm) ==
  /\ Len(adm) < MaxBallots
  /\ RowsFetchable(adm)
  /\ st.bb = adm
  /\ st.counts = FilterAndTally(adm)

\* relation_check_native, on the witness built from the files: the statement
\* is about these commitments, they fit the circuit, the rows they claim are
\* in the table, and the recounted tally (CircuitIsExact of TallyCircuit) is
\* the stated one.
RelationCheck(st, adm) ==
  /\ Len(adm) <= MaxBallots
  /\ RowsFetchable(adm)
  /\ st.bb = adm
  /\ st.counts = FilterAndTally(adm)

\* `prove`: fails when there is no statement or the relation rejects it.
Prove(p) ==
  /\ statement # NoFile
  /\ RelationCheck(statement, admitted)
  /\ Start(p, "prove", [NoOutput EXCEPT !.proof = statement, !.public = statement])

Advance(j) ==
  IF j.done + 1 = Len(WriteOrder[j.cmd]) THEN Idle ELSE [j EXCEPT !.done = j.done + 1]

WriteFile(p) ==
  /\ job[p] # Idle
  /\ LET f == WriteOrder[job[p].cmd][job[p].done + 1]
         out == job[p].out
     IN  /\ tally'     = IF f = "tally"     THEN out.tally     ELSE tally
         /\ statement' = IF f = "statement" THEN out.statement ELSE statement
         /\ proof'     = IF f = "proof"     THEN out.proof     ELSE proof
         /\ public'    = IF f = "public"    THEN out.public    ELSE public
  /\ job' = [job EXCEPT ![p] = Advance(job[p])]
  /\ UNCHANGED <<admitted, reading, crashes>>

Crash(p) ==
  /\ job[p] # Idle
  /\ crashes < MaxCrashes
  /\ crashes' = crashes + 1
  /\ job' = [job EXCEPT ![p] = Idle]
  /\ UNCHANGED <<admitted, published, reading>>

-----------------------------------------------------------------------------
(* The reader.                                                              *)

Finished(r) == r.cmd # "none" /\ r.done = Len(ReadOrder[r.cmd])

StartReading(cmd) ==
  /\ reading = NotReading \/ Finished(reading)
  /\ reading' = [cmd |-> cmd, done |-> 0, seen |-> NothingSeen]
  /\ UNCHANGED <<admitted, published, job, crashes>>

FileNow ==
  [ admitted |-> admitted, tally |-> tally, statement |-> statement,
    proof |-> proof, public |-> public ]

ReadFile ==
  /\ reading.cmd # "none" /\ ~Finished(reading)
  /\ LET f == ReadOrder[reading.cmd][reading.done + 1]
     IN  reading' = [reading EXCEPT !.done = @ + 1, !.seen[f] = FileNow[f]]
  /\ UNCHANGED <<admitted, published, job, crashes>>

AllThere(seen) ==
  seen.statement # NoFile /\ seen.proof # NoFile /\ seen.public # NoFile

\* statement_matches_public_data and public_inputs_match.
Bound(seen) == seen.statement.bb = seen.admitted /\ seen.public = seen.statement

\* A faulty variant: the tally file is not compared with the statement.
AcceptsAnyTally(seen) ==
  /\ AllThere(seen) /\ seen.tally # NoFile
  /\ Bound(seen)
  /\ seen.proof = seen.public

\* `verify` prints VERIFIED.
Accepts(seen) ==
  /\ AllThere(seen) /\ seen.tally # NoFile
  /\ Bound(seen)
  /\ seen.statement.counts = seen.tally
  /\ seen.proof = seen.public

\* A faulty variant: a proof that verifies is enough, whatever its statement.
UnboundStatus(seen) ==
  IF ~AllThere(seen) THEN "Unavailable"
  ELSE IF seen.proof = seen.public THEN "Verified" ELSE "Invalid"

\* `dispute-tally` establishes the status of the tally proof.
TallyProofStatus(seen) ==
  IF ~AllThere(seen) THEN "Unavailable"
  ELSE IF Bound(seen) /\ seen.proof = seen.public THEN "Verified" ELSE "Invalid"

\* and has the judge rule with the authority's nonce and openings; without a
\* nonce for the claimed identity the command fails and nothing is ruled.
Ruling(seen, com) ==
  IF ~Opening[com].parses \/ AuthorityNonce[Opening[com].id] = NoNonce THEN "NoRuling"
  ELSE
  JudgeTalliedAsRecorded(seen.admitted, [com |-> com, opening |-> com],
                         [ nonce    |-> AuthorityNonce[Opening[com].id],
                           openings |-> seen.admitted,
                           proof    |-> TallyProofStatus(seen) ])

-----------------------------------------------------------------------------

Next ==
  \/ \E com \in Com : Admit(com)
  \/ \E p \in Terminal : Tally(p) \/ Prove(p) \/ WriteFile(p) \/ Crash(p)
  \/ \E cmd \in DOMAIN ReadOrder : StartReading(cmd)
  \/ ReadFile

Spec == Init /\ [][Next]_vars

\* A running command finishes unless it crashes; the operator reruns tally and
\* prove for as long as they apply: SF of Tally(p) and of Prove(p), with the
\* states that enable them written out.
Starts(p, cmd) == job[p] = Idle /\ job'[p].cmd = cmd

CanProve == statement # NoFile /\ RelationCheck(statement, admitted)

Fairness ==
  \A p \in Terminal :
    /\ WF_vars(WriteFile(p))
    /\ []<>(job[p] = Idle) => []<><<Starts(p, "tally")>>_vars
    /\ []<>(job[p] = Idle /\ CanProve) => []<><<Starts(p, "prove")>>_vars

FairSpec == Spec /\ Fairness

-----------------------------------------------------------------------------

TypeOK ==
  /\ admitted \in Seq(Com)
  /\ tally = NoFile \/ tally \in Counts
  /\ statement = NoFile \/ statement \in Statement
  /\ proof = NoFile \/ proof \in Statement
  /\ public = NoFile \/ public \in Statement
  /\ \A p \in Terminal : job[p] = Idle \/ job[p].cmd \in DOMAIN WriteOrder
  /\ reading = NotReading \/ reading.cmd \in DOMAIN ReadOrder
  /\ crashes \in 0..MaxCrashes

\* "VERIFIED: the published tally is the exact FilterAndTally output"
\* (main.rs:620): whatever was being rewritten while the reader read, the
\* tally it read is that of the admitted board it read.
VerifiedIsExact ==
  Finished(reading) /\ reading.cmd = "verify" /\ Accepts(reading.seen) =>
    reading.seen.tally = FilterAndTally(reading.seen.admitted)

\* A voter told that there is no fault and whose ballot is valid and first is
\* in the counts the reader read, and a stale or foreign proof clears nobody
\* (tallied_as_recorded.rs:42-52): the proof is about this very board.
ClearedIsCounted ==
  Finished(reading) /\ reading.cmd = "dispute" =>
    \A com \in Com :
      Ruling(reading.seen, com) = "NoAuthorityFault" =>
        /\ com \in {reading.seen.admitted[j] :
                      j \in CountedSorted(Records(reading.seen.admitted))}
        /\ reading.seen.public.counts = FilterAndTally(reading.seen.admitted)

\* A command that has computed from an earlier board and still has to write.
Stale(j) ==
  j # Idle /\ (IF j.cmd = "tally" THEN j.out.statement ELSE j.out.public).bb # admitted

\* Nothing but a further admission makes a published result unverifiable
\* again: neither a second run of tally or prove, nor a crash between their
\* writes, unless another shell is still writing what it computed before the
\* admission.
OnlyAdmissionUnverifies ==
  [][Accepts(FileNow) /\ admitted' = admitted /\ (\A p \in Terminal : ~Stale(job[p]))
       => Accepts(FileNow)']_vars

\* Once the board is closed, the result becomes and stays verifiable, however
\* the admissions fell between tally and prove and whatever crashed.
EventuallyVerifiable == <>[]Accepts(FileNow)
=============================================================================
