---------------------------- MODULE Registration ----------------------------
(***************************************************************************)
(* Before voting: `setup`, `register-voter` (plain or cut-and-choose),      *)
(* `share-nonces` and `finalize-registration` over the files of the         *)
(* election directory, with the writes of a command one after the other and *)
(* a crash between any two.                                                 *)
(*                                                                          *)
(* A draw is a number that is never reused.  One stands for the voter's key *)
(* and nonce, one for a nonce of the authority; h_i binds both.  Shares of  *)
(* a nonce are known by the nonce they share and the (t, k) they were dealt *)
(* with.                                                                    *)
(*                                                                          *)
(* The authority of a cut-and-choose registration may commit to one         *)
(* candidate pair wrongly, as the cheating variant of the library does      *)
(* (preprocess_voter_cut_and_choose_with_cheat); the command's own          *)
(* authority is honest.                                                     *)
(***************************************************************************)
EXTENDS Integers, Sequences, FiniteSets

CONSTANTS
  Terminal,     \* shells in which commands run
  MaxVoters,    \* pp.max_voters: identities are 0..MaxVoters-1
  Thresholds,   \* the (t, k) an operator asks for
  NoFile,       \* a file that has not been written
  PairCounts,   \* the candidate pairs q a voter asks for
  MaxDraws,     \* bound: numbers drawn
  MaxCrashes    \* bound: crashes in one behaviour

ASSUME BoundsAssumption ==
  /\ MaxVoters \in Nat /\ PairCounts \subseteq Nat
  /\ MaxDraws \in Nat /\ MaxCrashes \in Nat

ASSUME ThresholdsAssumption == Thresholds \subseteq Nat \X Nat

VARIABLES
  params,        \* public/params.json: its threshold, (1, 1) when it has none
  authority,     \* authority/secret.json: its threshold and the voters' shares
  records,       \* the registration records, in order of registration
  voter,         \* voter[id]: the draw in the secret file of voter id, 0 if none
  registration,  \* public/registration.json: the finalized table
  job,           \* job[p]: the command terminal p is running
  audits,        \* cut-and-choose registrations: nonces opened, corrupt or kept
  drawn,         \* numbers drawn
  crashes

files == <<params, authority, records, voter, registration>>
vars == <<params, authority, records, voter, registration, job, audits, drawn, crashes>>

VoterId == 0..(MaxVoters - 1)
Draw == 1..MaxDraws
Threshold == Thresholds \cup {<<1, 1>>}
Shares == [nonce : Draw, t : Nat, k : Nat]
Row == [id : VoterId, draw : Draw, nonce : Draw]

\* What the authority's file may hold.
Secrets == UNION {[D -> Shares] : D \in SUBSET VoterId}
Authority == [threshold : Thresholds, secrets : Secrets]

ASSUME NoFileAssumption == NoFile \notin Thresholds \cup Authority \cup Seq(Row)

\* A faulty variant: the public row before the secrets that open it.
RowFirst ==
  [ setup    |-> <<"params", "authority", "records">>,
    register |-> <<"records", "voter", "authority">>,
    share    |-> <<"params", "authority">>,
    finalize |-> <<"registration">> ]

\* The order in which each command writes its files.
WriteOrder ==
  [ setup    |-> <<"params", "authority", "records">>,
    register |-> <<"voter", "authority", "records">>,
    share    |-> <<"params", "authority">>,
    finalize |-> <<"registration">> ]

Nothing ==
  [ params |-> NoFile, authority |-> NoFile, records |-> NoFile,
    voter |-> NoFile, registration |-> NoFile ]

Idle == [cmd |-> "none", done |-> 0, out |-> Nothing]

Init ==
  /\ params = NoFile /\ authority = NoFile /\ records = NoFile
  /\ voter = [id \in VoterId |-> 0]
  /\ registration = NoFile
  /\ job = [p \in Terminal |-> Idle]
  /\ audits = {} /\ drawn = 0 /\ crashes = 0

Start(p, cmd, out) ==
  /\ job[p] = Idle
  /\ job' = [job EXCEPT ![p] = [cmd |-> cmd, done |-> 0, out |-> out]]
  /\ UNCHANGED <<files, crashes>>

-----------------------------------------------------------------------------
(* The authority's secret state.                                            *)

NoSecrets == [id \in {} |-> 0]

Known(auth) == DOMAIN auth.secrets

\* r_ea: the logical EA interpolates ALL the shares it holds, and refuses when
\* there are fewer of them than its own threshold.
Recoverable(auth, id) == id \in Known(auth) /\ auth.secrets[id].k >= auth.threshold[1]

DirectNonce(auth, id) == IF Recoverable(auth, id) THEN auth.secrets[id].nonce ELSE 0

\* dispute-tally --use-threshold: the judge is sent the first t shares, t being
\* the authority's threshold; shares dealt with a larger t interpolate to an
\* unrelated value.
QuorumNonce(auth, id) ==
  IF Recoverable(auth, id) /\ auth.threshold[1] >= auth.secrets[id].t
    THEN auth.secrets[id].nonce
    ELSE 0

-----------------------------------------------------------------------------
(* Commands.                                                                *)

\* What setup_election and share_all_nonces take for a threshold (t, k).
ValidThreshold(th) == 0 < th[1] /\ th[1] <= th[2]

NewAuthority(th) == [threshold |-> th, secrets |-> NoSecrets]

\* `setup`: refused once the parameters exist.
Setup(p, th) ==
  /\ params = NoFile
  /\ MaxVoters > 0 /\ ValidThreshold(th)
  /\ Start(p, "setup",
           [Nothing EXCEPT !.params = th, !.authority = NewAuthority(th), !.records = <<>>])
  /\ UNCHANGED <<audits, drawn>>

\* A faulty variant: a finalized registration goes unnoticed.
MayRegisterLate(id) ==
  /\ params # NoFile /\ authority # NoFile /\ records # NoFile
  /\ id \notin Known(authority)
  /\ Cardinality(Known(authority)) < MaxVoters

\* What register-voter checks before it draws anything.
MayRegister(id) ==
  /\ params # NoFile /\ authority # NoFile /\ records # NoFile
  /\ registration = NoFile
  /\ id \notin Known(authority)
  /\ Cardinality(Known(authority)) < MaxVoters

NewShares(nonce) == [nonce |-> nonce, t |-> params[1], k |-> params[2]]

WithShares(id, shares) ==
  [authority EXCEPT !.secrets =
     [v \in Known(authority) \cup {id} |-> IF v = id THEN shares ELSE authority.secrets[v]]]

\* A faulty variant: the record replaces the earlier ones.
RecordedAlone(row) == <<row>>

Recorded(row) == Append(records, row)

\* `register-voter`: shares are dealt under the PUBLIC parameters' threshold.
Register(p, id, draw, nonce) ==
  Start(p, "register",
        [Nothing EXCEPT !.voter = [id |-> id, draw |-> draw],
                        !.authority = WithShares(id, NewShares(nonce)),
                        !.records = Recorded([id |-> id, draw |-> draw, nonce |-> nonce])])

RegisterVoter(p, id) ==
  /\ MayRegister(id)
  /\ drawn < MaxDraws /\ drawn' = drawn + 1
  /\ Register(p, id, drawn', drawn')
  /\ UNCHANGED audits

-----------------------------------------------------------------------------
(* `register-voter --cut-and-choose q`: the voter's draw is fixed; pair k   *)
(* takes the nonce drawn + 1 + k.                                           *)

\* A faulty variant: the voter audits the first q - 1 pairs, whichever is kept.
AuditsFirst(q, kept) == 0..(q - 2)

\* The pairs that are opened, in this order.
Audited(q, kept) == (0..(q - 1)) \ {kept}

\* The nonces the voter has seen: all the audited ones, or those up to the pair
\* that did not open.  corrupt = q when no pair is corrupt.
Opened(q, kept, corrupt) ==
  {drawn + 1 + i : i \in {j \in Audited(q, kept) :
                            corrupt \in Audited(q, kept) => j <= corrupt}}

\* What cut-and-choose checks: not the number of voters, which distinct
\* identities below max_voters bound by themselves.
MayCutAndChoose(id) ==
  /\ params # NoFile /\ authority # NoFile /\ records # NoFile
  /\ registration = NoFile
  /\ id \notin Known(authority)

\* The voter keeps pair `kept` and audits the others; an audit that fails ends
\* the command with nothing written.
CutAndChoose(p, id, q, kept, corrupt) ==
  /\ q >= 2
  /\ MayCutAndChoose(id)
  /\ drawn + q <= MaxDraws /\ drawn' = drawn + q
  /\ job[p] = Idle
  /\ audits' = audits \cup
       {[ voter   |-> drawn + 1,
          opened  |-> Opened(q, kept, corrupt),
          corrupt |-> IF corrupt = q THEN 0 ELSE drawn + 1 + corrupt,
          kept    |-> drawn + 1 + kept ]}
  /\ IF corrupt \in Audited(q, kept)
       THEN UNCHANGED <<files, job, crashes>>
       ELSE Register(p, id, drawn + 1, drawn + 1 + kept)

-----------------------------------------------------------------------------

\* A faulty variant: re-sharing forgets the authority's threshold.
KeepsThreshold(th) ==
  [authority EXCEPT !.secrets =
     [v \in Known(authority) |-> [authority.secrets[v] EXCEPT !.t = th[1], !.k = th[2]]]]

\* share_all_nonces: every nonce is recovered and dealt again.
Reshared(th) ==
  [ threshold |-> th,
    secrets   |-> [v \in Known(authority) |->
                     [authority.secrets[v] EXCEPT !.t = th[1], !.k = th[2]]] ]

\* `share-nonces`: fails when some nonce cannot be recovered.
ShareNonces(p, th) ==
  /\ params # NoFile /\ authority # NoFile
  /\ ValidThreshold(th)
  /\ \A v \in Known(authority) : Recoverable(authority, v)
  /\ Start(p, "share", [Nothing EXCEPT !.params = th, !.authority = Reshared(th)])
  /\ UNCHANGED <<audits, drawn>>

\* finalize_registration wants the identities 0..n-1, each once.
Dense(rows) ==
  /\ \A i, j \in DOMAIN rows : rows[i].id = rows[j].id => i = j
  /\ {rows[i].id : i \in DOMAIN rows} = 0..(Len(rows) - 1)

\* A faulty variant: rows numbered from one.
OneBasedTable(rows) ==
  [n \in 1..Len(rows) |-> rows[CHOOSE i \in DOMAIN rows : rows[i].id = n - 1].draw]

TableOf(rows) ==
  [id \in 0..(Len(rows) - 1) |->
     rows[CHOOSE i \in DOMAIN rows : rows[i].id = id].draw]

\* `finalize-registration`: may be run again.
FinalizeRegistration(p) ==
  /\ params # NoFile /\ records # NoFile
  /\ Dense(records)
  /\ Start(p, "finalize", [Nothing EXCEPT !.registration = TableOf(records)])
  /\ UNCHANGED <<audits, drawn>>

-----------------------------------------------------------------------------

Advance(j) ==
  IF j.done + 1 = Len(WriteOrder[j.cmd]) THEN Idle ELSE [j EXCEPT !.done = j.done + 1]

WriteFile(p) ==
  /\ job[p] # Idle
  /\ LET f == WriteOrder[job[p].cmd][job[p].done + 1]
         out == job[p].out
     IN  /\ params'       = IF f = "params"       THEN out.params       ELSE params
         /\ authority'    = IF f = "authority"    THEN out.authority    ELSE authority
         /\ records'      = IF f = "records"      THEN out.records      ELSE records
         /\ registration' = IF f = "registration" THEN out.registration ELSE registration
         /\ voter' = IF f = "voter" THEN [voter EXCEPT ![out.voter.id] = out.voter.draw]
                                    ELSE voter
  /\ job' = [job EXCEPT ![p] = Advance(job[p])]
  /\ UNCHANGED <<audits, drawn, crashes>>

Crash(p) ==
  /\ job[p] # Idle
  /\ crashes < MaxCrashes
  /\ crashes' = crashes + 1
  /\ job' = [job EXCEPT ![p] = Idle]
  /\ UNCHANGED <<files, audits, drawn>>

Next ==
  \E p \in Terminal :
    \/ \E th \in Thresholds : Setup(p, th) \/ ShareNonces(p, th)
    \/ \E id \in VoterId : RegisterVoter(p, id)
    \/ \E id \in VoterId, q \in PairCounts :
         \E kept \in 0..(q - 1), corrupt \in 0..q : CutAndChoose(p, id, q, kept, corrupt)
    \/ FinalizeRegistration(p)
    \/ WriteFile(p)
    \/ Crash(p)

Spec == Init /\ [][Next]_vars

-----------------------------------------------------------------------------

TypeOK ==
  /\ params \in Threshold \cup {NoFile}
  /\ \/ authority = NoFile
     \/ /\ authority.threshold \in Threshold
        /\ Known(authority) \subseteq VoterId
        /\ \A id \in Known(authority) : authority.secrets[id] \in Shares
  /\ records = NoFile \/ records \in Seq(Row)
  /\ voter \in [VoterId -> 0..MaxDraws]
  /\ \/ registration = NoFile
     \/ \E n \in 0..MaxVoters : registration \in [0..(n - 1) -> Draw]
  /\ \A p \in Terminal : job[p] = Idle \/ job[p].cmd \in DOMAIN WriteOrder
  /\ audits \subseteq [voter : Draw, opened : SUBSET Draw, corrupt : 0..MaxDraws, kept : Draw]
  /\ drawn \in 0..MaxDraws /\ crashes \in 0..MaxCrashes

Rows == IF records = NoFile THEN {} ELSE {records[i] : i \in DOMAIN records}

\* A public row is never without the two secrets that open it: the voter's
\* file and the authority's shares are those it was made of, in the middle of
\* every command and after every crash.  A voter whose row is published can
\* vote (unless the authority committed wrongly to the pair kept), and a row is
\* never made twice.
RowsAreBacked ==
  \A row \in Rows :
    /\ voter[row.id] = row.draw
    /\ row.id \in Known(authority)
    /\ authority.secrets[row.id].nonce = row.nonce

\* As long as no command was killed, the tally (all shares) and the judge (a
\* quorum of t) find the nonce of every row, however registrations and
\* re-sharings under other thresholds alternate.
NoncesRecoverable ==
  crashes = 0 =>
    \A row \in Rows :
      /\ DirectNonce(authority, row.id) = row.nonce
      /\ QuorumNonce(authority, row.id) = row.nonce

\* "Freeze registration" (main.rs:138): a published table is not changed by
\* any later command.
FinalizedIsFrozen ==
  [][registration # NoFile => registration' = registration]_vars

\* An identity the authority knows but that has no row can neither register
\* again (DuplicateVoter) nor be finalized.  Only a killed registration leaves
\* one behind, and leaves at most one.
Stranded ==
  IF authority = NoFile THEN {} ELSE Known(authority) \ {row.id : row \in Rows}

StrandedByCrash ==
  Cardinality(Stranded)
    <= crashes + Cardinality({p \in Terminal : job[p].cmd = "register"})

NoncesInUse ==
  {row.nonce : row \in Rows} \cup
    (IF authority = NoFile THEN {}
     ELSE {authority.secrets[id].nonce : id \in Known(authority)})

\* What a cut-and-choose audit is for (preprocessing.rs:300-313).  A nonce the
\* voter has seen is never one the authority counts with: the voter could
\* otherwise tell real openings from faked ones.  And a pair that was committed
\* to wrongly gets into a file only when it is the one the voter kept; when it
\* was audited, neither the voter's secrets nor any nonce of that registration
\* is in a file, and the voter can register again.
AuditedPairsAreSpent ==
  \A a \in audits :
    /\ a.opened \cap NoncesInUse = {}
    /\ a.corrupt \notin {0, a.kept} =>
         /\ a.kept \notin NoncesInUse
         /\ \A id \in VoterId : voter[id] # a.voter

\* types.rs:189: the authority's threshold is "Threshold parameters the nonce
\* shares were generated under".
ThresholdOfTheShares ==
  authority # NoFile =>
    \A id \in Known(authority) :
      <<authority.secrets[id].t, authority.secrets[id].k>> = authority.threshold
=============================================================================
