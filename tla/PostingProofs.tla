--------------------------- MODULE PostingProofs ---------------------------
(***************************************************************************)
(* Publication with any number of shells, crashes and ballots, and a board  *)
(* and a circuit of any size: every statement and every proof that is ever  *)
(* written, about to be written or read is about some board and states the  *)
(* tally of that very board.  So a reader who finds the statement bound to  *)
(* the board it has read accepts nothing but the exact tally, whatever the  *)
(* files were when it read them; and a command that is not stale rewrites   *)
(* an accepted result with itself.                                          *)
(***************************************************************************)
EXTENDS Posting, TallyProofs

ExactStatements == {[bb |-> adm, counts |-> FilterAndTally(adm)] : adm \in Seq(Com)}

StatementFiles == ExactStatements \cup {NoFile}

TallyOutput(s) == [NoOutput EXCEPT !.tally = s.counts, !.statement = s]

ProofOutput(s) == [NoOutput EXCEPT !.proof = s, !.public = s]

Jobs ==
  {Idle}
    \cup {[cmd |-> "tally", done |-> d, out |-> TallyOutput(s)] :
             d \in {0, 1}, s \in ExactStatements}
    \cup {[cmd |-> "prove", done |-> d, out |-> ProofOutput(s)] :
             d \in {0, 1}, s \in ExactStatements}

Seen ==
  [ admitted : Seq(Com), tally : Counts \cup {NoFile}, statement : StatementFiles,
    proof : StatementFiles, public : StatementFiles ]

Readings == {NotReading} \cup [cmd : DOMAIN ReadOrder, done : 0..5, seen : Seen]

\* Every statement is exact, wherever it is.
StatementsExact ==
  /\ admitted \in Seq(Com)
  /\ tally \in Counts \cup {NoFile}
  /\ statement \in StatementFiles /\ proof \in StatementFiles /\ public \in StatementFiles
  /\ job \in [Terminal -> Jobs]
  /\ reading \in Readings
  /\ Finished(reading) \/ reading = NotReading
       \/ reading.done < Len(ReadOrder[reading.cmd])
  /\ crashes \in 0..MaxCrashes

-----------------------------------------------------------------------------
(* The tally.                                                               *)

\* The counts of a board are numbers.
LEMMA TallyIsCounts ==
  ASSUME NEW adm \in Seq(Com)
  PROVE  FilterAndTally(adm) \in Counts
  <1> DEFINE recs == Records(adm)
             A(c) == {j \in CountedNaive(recs) : recs[j].cand = c}
  <1>1. CountedSorted(recs) = CountedNaive(recs)
    BY RecordsNumbered, SortedCountsNaive
  <1>2. FilterAndTally(adm) = [c \in Candidate |-> Cardinality(A(c))]
    BY <1>1 DEF FilterAndTally, TallyFromCounted
  <1>3. ASSUME NEW c \in Candidate
        PROVE  Cardinality(A(c)) \in Nat
    <2>1. DOMAIN recs = 1..Len(adm)
      BY DEF Records
    <2>2. A(c) \in SUBSET (1..Len(adm))
      BY <2>1 DEF CountedNaive
    <2>3. IsFiniteSet(A(c))
      BY <2>2, FS_Interval, FS_Subset
    <2> QED BY <2>3, FS_CardinalityType
  <1> QED BY <1>2, <1>3 DEF Counts

\* An exact statement is a statement, and is determined by its board.
LEMMA ExactStatement ==
  ASSUME NEW s \in ExactStatements
  PROVE  /\ s \in Statement
         /\ s.bb \in Seq(Com)
         /\ s = [bb |-> s.bb, counts |-> FilterAndTally(s.bb)]
         /\ s.counts = FilterAndTally(s.bb)
  <1>1. PICK adm \in Seq(Com) : s = [bb |-> adm, counts |-> FilterAndTally(adm)]
    BY DEF ExactStatements
  <1> QED BY <1>1, TallyIsCounts DEF Statement

-----------------------------------------------------------------------------
(* The steps.                                                               *)

\* Tallying makes a statement of the board as it stands.
LEMMA TallyStep ==
  ASSUME StatementsExact, NEW p \in Terminal, Tally(p)
  PROVE  StatementsExact'
  <1> DEFINE s == [bb |-> admitted, counts |-> FilterAndTally(admitted)]
  <1>1. s \in ExactStatements
    BY DEF StatementsExact, ExactStatements
  <1>2. job' = [job EXCEPT ![p] = [cmd |-> "tally", done |-> 0, out |-> TallyOutput(s)]]
    BY DEF Tally, Start, TallyOutput
  <1> HIDE DEF s
  <1>3. [cmd |-> "tally", done |-> 0, out |-> TallyOutput(s)] \in Jobs
    BY <1>1 DEF Jobs
  <1>4. job' \in [Terminal -> Jobs]
    BY <1>2, <1>3 DEF StatementsExact
  <1> QED BY <1>4 DEF StatementsExact, Tally, Start, published, Finished

\* Proving writes the statement it has read, with a proof that fits it.
LEMMA ProveStep ==
  ASSUME StatementsExact, NEW p \in Terminal, Prove(p)
  PROVE  StatementsExact'
  <1>1. statement \in ExactStatements
    BY DEF Prove, StatementsExact, StatementFiles
  <1>2. job' = [job EXCEPT ![p] = [cmd |-> "prove", done |-> 0, out |-> ProofOutput(statement)]]
    BY DEF Prove, Start, ProofOutput
  <1>3. [cmd |-> "prove", done |-> 0, out |-> ProofOutput(statement)] \in Jobs
    BY <1>1 DEF Jobs
  <1>4. job' \in [Terminal -> Jobs]
    BY <1>2, <1>3 DEF StatementsExact
  <1> QED BY <1>4 DEF StatementsExact, Prove, Start, published, Finished

\* What a command writes: its first file, then its second, and it is done.
LEMMA Writes ==
  ASSUME StatementsExact, NEW p \in Terminal, WriteFile(p)
  PROVE  \E s \in ExactStatements :
           /\ job' \in [Terminal -> Jobs]
           /\ \A q \in Terminal : q # p => job'[q] = job[q]
           /\ UNCHANGED <<admitted, reading, crashes>>
           /\ \/ /\ job[p].cmd = "tally" /\ job[p].out = TallyOutput(s)
                 /\ tally' = s.counts /\ UNCHANGED <<statement, proof, public>>
              \/ /\ job[p].cmd = "tally" /\ job[p].out = TallyOutput(s)
                 /\ statement' = s /\ UNCHANGED <<tally, proof, public>>
              \/ /\ job[p].cmd = "prove" /\ job[p].out = ProofOutput(s)
                 /\ proof' = s /\ UNCHANGED <<tally, statement, public>>
              \/ /\ job[p].cmd = "prove" /\ job[p].out = ProofOutput(s)
                 /\ public' = s /\ UNCHANGED <<tally, statement, proof>>
  <1>1. job \in [Terminal -> Jobs] /\ job[p] \in Jobs \ {Idle}
    BY DEF StatementsExact, WriteFile
  <1>2. /\ WriteOrder["tally"] = <<"tally", "statement">>
        /\ WriteOrder["prove"] = <<"proof", "public">>
    BY DEF WriteOrder
  <1>3. Idle \in Jobs
    BY DEF Jobs
  <1>4. CASE \E d \in {0, 1}, s \in ExactStatements :
               job[p] = [cmd |-> "tally", done |-> d, out |-> TallyOutput(s)]
    <2>1. PICK d \in {0, 1}, s \in ExactStatements :
                 job[p] = [cmd |-> "tally", done |-> d, out |-> TallyOutput(s)]
      BY <1>4
    <2>2. TallyOutput(s).tally = s.counts /\ TallyOutput(s).statement = s
      BY DEF TallyOutput, NoOutput
    <2>3. [cmd |-> "tally", done |-> 1, out |-> TallyOutput(s)] \in Jobs
      BY DEF Jobs
    <2>4. CASE d = 0
      <3>1. Advance(job[p]) = [cmd |-> "tally", done |-> 1, out |-> TallyOutput(s)]
        BY <1>2, <2>1, <2>4 DEF Advance
      <3>2. job' \in [Terminal -> Jobs] /\ (\A q \in Terminal : q # p => job'[q] = job[q])
        BY <1>1, <2>3, <3>1 DEF WriteFile
      <3>3. /\ tally' = s.counts
            /\ UNCHANGED <<statement, proof, public, admitted, reading, crashes>>
        BY <1>2, <2>1, <2>2, <2>4 DEF WriteFile
      <3> QED BY <2>1, <3>2, <3>3
    <2>5. CASE d = 1
      <3>1. Advance(job[p]) = Idle
        BY <1>2, <2>1, <2>5 DEF Advance
      <3>2. job' \in [Terminal -> Jobs] /\ (\A q \in Terminal : q # p => job'[q] = job[q])
        BY <1>1, <1>3, <3>1 DEF WriteFile
      <3>3. /\ statement' = s
            /\ UNCHANGED <<tally, proof, public, admitted, reading, crashes>>
        BY <1>2, <2>1, <2>2, <2>5 DEF WriteFile
      <3> QED BY <2>1, <3>2, <3>3
    <2> QED BY <2>4, <2>5
  <1>5. CASE \E d \in {0, 1}, s \in ExactStatements :
               job[p] = [cmd |-> "prove", done |-> d, out |-> ProofOutput(s)]
    <2>1. PICK d \in {0, 1}, s \in ExactStatements :
                 job[p] = [cmd |-> "prove", done |-> d, out |-> ProofOutput(s)]
      BY <1>5
    <2>2. ProofOutput(s).proof = s /\ ProofOutput(s).public = s
      BY DEF ProofOutput, NoOutput
    <2>3. [cmd |-> "prove", done |-> 1, out |-> ProofOutput(s)] \in Jobs
      BY DEF Jobs
    <2>4. CASE d = 0
      <3>1. Advance(job[p]) = [cmd |-> "prove", done |-> 1, out |-> ProofOutput(s)]
        BY <1>2, <2>1, <2>4 DEF Advance
      <3>2. job' \in [Terminal -> Jobs] /\ (\A q \in Terminal : q # p => job'[q] = job[q])
        BY <1>1, <2>3, <3>1 DEF WriteFile
      <3>3. /\ proof' = s
            /\ UNCHANGED <<tally, statement, public, admitted, reading, crashes>>
        BY <1>2, <2>1, <2>2, <2>4 DEF WriteFile
      <3> QED BY <2>1, <3>2, <3>3
    <2>5. CASE d = 1
      <3>1. Advance(job[p]) = Idle
        BY <1>2, <2>1, <2>5 DEF Advance
      <3>2. job' \in [Terminal -> Jobs] /\ (\A q \in Terminal : q # p => job'[q] = job[q])
        BY <1>1, <1>3, <3>1 DEF WriteFile
      <3>3. /\ public' = s
            /\ UNCHANGED <<tally, statement, proof, admitted, reading, crashes>>
        BY <1>2, <2>1, <2>2, <2>5 DEF WriteFile
      <3> QED BY <2>1, <3>2, <3>3
    <2> QED BY <2>4, <2>5
  <1> QED BY <1>1, <1>4, <1>5 DEF Jobs

\* A command writes its files one after the other.
LEMMA WriteStep ==
  ASSUME StatementsExact, NEW p \in Terminal, WriteFile(p)
  PROVE  StatementsExact'
  <1>1. PICK s \in ExactStatements :
          /\ job' \in [Terminal -> Jobs]
          /\ UNCHANGED <<admitted, reading, crashes>>
          /\ \/ tally' = s.counts /\ UNCHANGED <<statement, proof, public>>
             \/ statement' = s /\ UNCHANGED <<tally, proof, public>>
             \/ proof' = s /\ UNCHANGED <<tally, statement, public>>
             \/ public' = s /\ UNCHANGED <<tally, statement, proof>>
    BY Writes
  <1>2. s.counts \in Counts
    BY ExactStatement DEF Statement
  <1> QED BY <1>1, <1>2 DEF StatementsExact, StatementFiles, Finished

\* A command that stops leaves what it has written.
LEMMA CrashStep ==
  ASSUME StatementsExact, NEW p \in Terminal, Crash(p)
  PROVE  StatementsExact'
  <1>1. Idle \in Jobs
    BY DEF Jobs
  <1>2. job' \in [Terminal -> Jobs]
    BY <1>1 DEF Crash, StatementsExact
  <1>3. crashes' \in 0..MaxCrashes
    BY PostingBounds DEF Crash, StatementsExact
  <1> QED BY <1>2, <1>3 DEF StatementsExact, Crash, published, Finished

-----------------------------------------------------------------------------
(* The reader's steps.                                                      *)

\* A command that begins to read has read nothing.
LEMMA StartReadingStep ==
  ASSUME StatementsExact, NEW cmd \in DOMAIN ReadOrder, StartReading(cmd)
  PROVE  StatementsExact'
  <1>1. <<>> \in Seq(Com)
    OBVIOUS
  <1>2. NothingSeen \in Seen
    BY <1>1 DEF NothingSeen, Seen, StatementFiles
  <1>3. reading' = [cmd |-> cmd, done |-> 0, seen |-> NothingSeen]
    BY DEF StartReading
  <1>4. reading' \in Readings
    BY <1>2, <1>3 DEF Readings
  <1>5. 0 < Len(ReadOrder[cmd])
    BY DEF ReadOrder
  <1>6. reading'.done < Len(ReadOrder[reading'.cmd])
    BY <1>3, <1>5
  <1> QED BY <1>4, <1>6 DEF StatementsExact, StartReading, published

\* A reader opens nothing but these files.
LEMMA ReadableFiles ==
  ASSUME NEW cmd \in DOMAIN ReadOrder, NEW n \in 1..Len(ReadOrder[cmd])
  PROVE  /\ Len(ReadOrder[cmd]) \in 1..5
         /\ ReadOrder[cmd][n] \in {"admitted", "tally", "statement", "proof", "public"}
  <1>1. cmd \in {"verify", "dispute"}
    BY DEF ReadOrder
  <1>2. CASE cmd = "verify"
    <2>1. ReadOrder[cmd] = <<"proof", "public", "admitted", "statement", "tally">>
      BY <1>2 DEF ReadOrder
    <2> QED BY <2>1
  <1>3. CASE cmd = "dispute"
    <2>1. ReadOrder[cmd] = <<"admitted", "statement", "proof", "public">>
      BY <1>3 DEF ReadOrder
    <2> QED BY <2>1
  <1> QED BY <1>1, <1>2, <1>3

\* What a command reads is what the file holds.
LEMMA ReadStep ==
  ASSUME StatementsExact, ReadFile
  PROVE  StatementsExact'
  <1>1. reading \in [cmd : DOMAIN ReadOrder, done : 0..5, seen : Seen]
    BY DEF StatementsExact, ReadFile, Readings, NotReading
  <1>2. reading.done < Len(ReadOrder[reading.cmd])
    BY DEF StatementsExact, ReadFile, NotReading
  <1> DEFINE n == reading.done + 1
             f == ReadOrder[reading.cmd][n]
  <1>3. Len(ReadOrder[reading.cmd]) \in 1..5
    <2>1. 1 \in 1..Len(ReadOrder[reading.cmd])
      BY <1>1, <1>2 DEF ReadOrder
    <2> QED BY <1>1, <2>1, ReadableFiles
  <1>4. n \in 1..Len(ReadOrder[reading.cmd]) /\ n \in 0..5
    <2> DEFINE L == Len(ReadOrder[reading.cmd])
    <2>1. reading.done \in 0..5 /\ L \in 1..5 /\ reading.done < L
      BY <1>1, <1>2, <1>3
    <2> HIDE DEF L
    <2>2. reading.done + 1 \in 1..L /\ reading.done + 1 \in 0..5
      BY <2>1
    <2> QED BY <2>2 DEF L
  <1>5. f \in {"admitted", "tally", "statement", "proof", "public"}
    BY <1>1, <1>4, ReadableFiles
  <1>6. reading' = [reading EXCEPT !.done = n, !.seen[f] = FileNow[f]]
    BY DEF ReadFile
  <1> HIDE DEF n, f
  <1>7. [reading.seen EXCEPT ![f] = FileNow[f]] \in Seen
    BY <1>1, <1>5 DEF Seen, FileNow, StatementsExact
  <1>8. reading' = [cmd  |-> reading.cmd, done |-> n,
                    seen |-> [reading.seen EXCEPT ![f] = FileNow[f]]]
    BY <1>1, <1>6
  <1>9. reading' \in Readings
    BY <1>1, <1>4, <1>7, <1>8 DEF Readings
  <1>10. Finished(reading') \/ reading'.done < Len(ReadOrder[reading'.cmd])
    <2>1. reading.cmd # "none"
      BY DEF ReadFile
    <2> QED BY <1>3, <1>4, <1>8, <2>1 DEF Finished
  <1>11. UNCHANGED <<admitted, published, job, crashes>>
    BY DEF ReadFile
  <1> QED BY <1>9, <1>10, <1>11 DEF StatementsExact, published

-----------------------------------------------------------------------------
(* The theorems.                                                            *)

\* Statements are exact in every state.
LEMMA StatementsExactInvariant == Spec => []StatementsExact
  <1>1. Init => StatementsExact
    <2>1. <<>> \in Seq(Com)
      OBVIOUS
    <2> QED BY <2>1, PostingBounds
            DEF Init, StatementsExact, StatementFiles, Jobs, Readings
  <1>2. StatementsExact /\ [Next]_vars => StatementsExact'
    <2> SUFFICES ASSUME StatementsExact, [Next]_vars PROVE StatementsExact'
      OBVIOUS
    <2>1. ASSUME NEW com \in Com, Admit(com) PROVE StatementsExact'
      <3>1. admitted' \in Seq(Com)
        BY <2>1 DEF Admit, StatementsExact
      <3> QED BY <2>1, <3>1 DEF Admit, StatementsExact, published, Finished
    <2>2. ASSUME NEW p \in Terminal, Tally(p) \/ Prove(p) \/ WriteFile(p) \/ Crash(p)
          PROVE  StatementsExact'
      BY <2>2, TallyStep, ProveStep, WriteStep, CrashStep
    <2>3. ASSUME NEW cmd \in DOMAIN ReadOrder, StartReading(cmd) PROVE StatementsExact'
      BY <2>3, StartReadingStep
    <2>4. ASSUME ReadFile PROVE StatementsExact'
      BY <2>4, ReadStep
    <2>5. CASE UNCHANGED vars
      BY <2>5 DEF vars, StatementsExact, Finished
    <2> QED BY <2>1, <2>2, <2>3, <2>4, <2>5 DEF Next
  <1> QED BY <1>1, <1>2, PTL DEF Spec

\* The published files stay well typed.
THEOREM PostingTypeOK == Spec => []TypeOK
  <1>1. StatementsExact => TypeOK
    <2> SUFFICES ASSUME StatementsExact PROVE TypeOK
      OBVIOUS
    <2>1. \A s \in StatementFiles : s = NoFile \/ s \in Statement
      BY ExactStatement DEF StatementFiles
    <2>2. \A p \in Terminal : job[p] = Idle \/ job[p].cmd \in {"tally", "prove"}
      BY DEF StatementsExact, Jobs
    <2>3. DOMAIN WriteOrder = {"tally", "prove"}
      BY DEF WriteOrder
    <2>4. reading = NotReading \/ reading.cmd \in DOMAIN ReadOrder
      BY DEF StatementsExact, Readings
    <2> QED BY <2>1, <2>2, <2>3, <2>4 DEF StatementsExact, TypeOK
  <1> QED BY <1>1, StatementsExactInvariant, PTL

\* What `verify` accepts, whatever was rewritten while it read, is the exact
\* tally of the admitted board it read.
THEOREM VerifiedIsAlwaysExact == Spec => []VerifiedIsExact
  <1>1. StatementsExact => VerifiedIsExact
    <2> SUFFICES ASSUME StatementsExact, Finished(reading), Accepts(reading.seen)
                 PROVE  reading.seen.tally = FilterAndTally(reading.seen.admitted)
      BY DEF VerifiedIsExact
    <2>1. reading.seen \in Seen
      BY DEF StatementsExact, Readings, Finished, NotReading
    <2>2. reading.seen.statement \in ExactStatements
      BY <2>1 DEF Accepts, AllThere, Seen, StatementFiles
    <2> QED BY <2>2, ExactStatement DEF Accepts, Bound
  <1> QED BY <1>1, StatementsExactInvariant, PTL

\* Whoever `dispute-tally` clears has a ballot that is counted, in counts that
\* are exact for the board read, whatever was rewritten while it read.
THEOREM ClearedIsAlwaysCounted == Spec => []ClearedIsCounted
  <1>1. StatementsExact => ClearedIsCounted
    <2> SUFFICES ASSUME StatementsExact, Finished(reading), NEW com \in Com,
                        Ruling(reading.seen, com) = "NoAuthorityFault"
                 PROVE  /\ com \in {reading.seen.admitted[j] :
                                      j \in CountedSorted(Records(reading.seen.admitted))}
                        /\ reading.seen.public.counts = FilterAndTally(reading.seen.admitted)
      BY DEF ClearedIsCounted
    <2> DEFINE seen == reading.seen
               status == TallyProofStatus(seen)
               nonce == AuthorityNonce[Opening[com].id]
               ev == [nonce |-> nonce, openings |-> seen.admitted, proof |-> status]
    <2>1. seen \in Seen
      BY DEF StatementsExact, Readings, Finished, NotReading
    <2>2. seen.admitted \in Seq(Com) /\ status \in ProofStatus
      BY <2>1 DEF Seen, TallyProofStatus, ProofStatus
    <2>3. /\ nonce # NoNonce
          /\ JudgeTalliedAsRecorded(seen.admitted, [com |-> com, opening |-> com], ev)
               = "NoAuthorityFault"
      BY DEF Ruling
    <2>4. /\ status = "Verified"
          /\ com \in {seen.admitted[j] : j \in CountedSorted(Records(seen.admitted))}
      <3>1. ev.nonce = nonce /\ ev.proof = status
        OBVIOUS
      <3> HIDE DEF seen, status, ev
      <3> QED BY <2>2, <2>3, <3>1, ClearedBallot DEF CountedComs
    <2>5. seen.statement # NoFile /\ Bound(seen)
      BY <2>4 DEF TallyProofStatus, AllThere
    <2>6. seen.statement \in ExactStatements
      BY <2>1, <2>5 DEF Seen, StatementFiles
    <2> QED BY <2>4, <2>5, <2>6, ExactStatement DEF Bound
  <1> QED BY <1>1, StatementsExactInvariant, PTL

\* Without a further admission, no step of any shell takes an accepted result
\* away, unless a shell is still writing what it computed for an earlier board.
THEOREM OnlyAdmissionEverUnverifies == Spec => OnlyAdmissionUnverifies
  <1> DEFINE Fresh == \A p \in Terminal : ~Stale(job[p])
             Kept == Accepts(FileNow) /\ admitted' = admitted /\ Fresh => Accepts(FileNow)'
  <1>1. StatementsExact /\ [Next]_vars => [Kept]_vars
    <2> SUFFICES ASSUME StatementsExact, [Next]_vars, Accepts(FileNow), admitted' = admitted, Fresh
                 PROVE  Accepts(FileNow)'
      OBVIOUS
    <2>1. /\ statement # NoFile /\ proof = statement /\ public = statement
          /\ tally # NoFile /\ statement.bb = admitted /\ statement.counts = tally
      BY DEF Accepts, AllThere, Bound, FileNow
    <2>2. statement \in ExactStatements
      BY <2>1 DEF StatementsExact, StatementFiles
    <2>3. UNCHANGED published => Accepts(FileNow)'
      BY <2>1 DEF published, Accepts, AllThere, Bound, FileNow
    <2>4. ASSUME NEW p \in Terminal, WriteFile(p) PROVE UNCHANGED published
      <3>1. PICK s \in ExactStatements :
              \/ /\ job[p].cmd = "tally" /\ job[p].out = TallyOutput(s)
                 /\ tally' = s.counts /\ UNCHANGED <<statement, proof, public>>
              \/ /\ job[p].cmd = "tally" /\ job[p].out = TallyOutput(s)
                 /\ statement' = s /\ UNCHANGED <<tally, proof, public>>
              \/ /\ job[p].cmd = "prove" /\ job[p].out = ProofOutput(s)
                 /\ proof' = s /\ UNCHANGED <<tally, statement, public>>
              \/ /\ job[p].cmd = "prove" /\ job[p].out = ProofOutput(s)
                 /\ public' = s /\ UNCHANGED <<tally, statement, proof>>
        BY <2>4, Writes
      <3>2. job[p] # Idle /\ ~Stale(job[p])
        BY <2>4 DEF WriteFile
      <3>3. TallyOutput(s).statement = s /\ ProofOutput(s).public = s
        BY DEF TallyOutput, ProofOutput, NoOutput
      <3>4. s.bb = admitted
        BY <3>1, <3>2, <3>3 DEF Stale
      <3>5. s = statement
        BY <2>1, <2>2, <3>4, ExactStatement
      <3> QED BY <2>1, <3>1, <3>5 DEF published
    <2>5. ASSUME NEW com \in Com, Admit(com) PROVE UNCHANGED published
      BY <2>5 DEF Admit
    <2>6. ASSUME NEW p \in Terminal, Tally(p) \/ Prove(p) \/ Crash(p) PROVE UNCHANGED published
      BY <2>6 DEF Tally, Prove, Start, Crash
    <2>7. ASSUME NEW cmd \in DOMAIN ReadOrder, StartReading(cmd) PROVE UNCHANGED published
      BY <2>7 DEF StartReading
    <2>8. ReadFile \/ UNCHANGED vars => UNCHANGED published
      BY DEF ReadFile, vars, published
    <2> QED BY <2>3, <2>4, <2>5, <2>6, <2>7, <2>8 DEF Next
  <1> QED BY <1>1, StatementsExactInvariant, PTL DEF Spec, OnlyAdmissionUnverifies
=============================================================================
