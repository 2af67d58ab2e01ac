------------------------- MODULE RegistrationProofs -------------------------
(***************************************************************************)
(* Registration for any number of voters, thresholds, candidate pairs and   *)
(* crashes: with any number of shells the directory stays well typed; with  *)
(* one shell every public row stays backed by the two secrets that open it, *)
(* a finalized table is frozen, a nonce that an audit has opened is never   *)
(* one the authority counts with, nonces are recoverable until a command is *)
(* killed, and a crash strands at most one voter.                           *)
(***************************************************************************)
EXTENDS Registration, FiniteSetTheorems, SequenceTheorems, TLAPS

Table == UNION {[0..(n - 1) -> Draw] : n \in 0..MaxVoters}

VoterFile == [id : VoterId, draw : Draw]

Output ==
  [ params : Thresholds \cup {NoFile}, authority : Authority \cup {NoFile},
    records : Seq(Row) \cup {NoFile}, voter : VoterFile \cup {NoFile},
    registration : Table \cup {NoFile} ]

Audit == [voter : Draw, opened : SUBSET Draw, corrupt : 0..MaxDraws, kept : Draw]

\* A running command has something left to write, and has what it writes.
JobsOK ==
  \A p \in Terminal :
    \/ job[p] = Idle
    \/ job[p].cmd = "setup" /\ job[p].done \in 0..2
    \/ job[p].cmd = "register" /\ job[p].done \in 0..2 /\ job[p].out.voter \in VoterFile
    \/ job[p].cmd = "share" /\ job[p].done \in 0..1
    \/ job[p].cmd = "finalize" /\ job[p].done = 0

Job == [cmd : DOMAIN WriteOrder \cup {"none"}, done : 0..2, out : Output]

Types ==
  /\ params \in Thresholds \cup {NoFile}
  /\ authority \in Authority \cup {NoFile}
  /\ records \in Seq(Row) \cup {NoFile}
  /\ voter \in [VoterId -> 0..MaxDraws]
  /\ registration \in Table \cup {NoFile}
  /\ job \in [Terminal -> Job] /\ JobsOK
  /\ audits \subseteq Audit
  /\ drawn \in 0..MaxDraws /\ crashes \in 0..MaxCrashes

-----------------------------------------------------------------------------
(* What a command has computed when it starts.                              *)

\* The secrets of an authority are shares, by voter.
LEMMA SecretsAre ==
  ASSUME NEW s
  PROVE  s \in Secrets <=> DOMAIN s \subseteq VoterId /\ s \in [DOMAIN s -> Shares]
  BY DEF Secrets

\* A command that writes nothing is typed.
LEMMA NothingTyped == Nothing \in Output /\ Idle \in Job
  BY DEF Nothing, Output, Idle, Job

\* setup: parameters, an authority without secrets, no records.
LEMMA SetsUp ==
  ASSUME NEW p \in Terminal, NEW th \in Thresholds, Types, Setup(p, th)
  PROVE  /\ UNCHANGED <<files, crashes, audits, drawn>>
         /\ job' \in [Terminal -> Job] /\ job[p] = Idle
         /\ \A q \in Terminal : q # p => job'[q] = job[q]
         /\ job'[p].cmd = "setup" /\ job'[p].done = 0
         /\ job'[p].out.params = th
         /\ job'[p].out.authority = NewAuthority(th)
         /\ NewAuthority(th) \in Authority
         /\ Known(NewAuthority(th)) = {}
         /\ job'[p].out.records = <<>>
         /\ params = NoFile
  <1> DEFINE out == [Nothing EXCEPT !.params = th, !.authority = NewAuthority(th), !.records = <<>>]
  <1>1. NoSecrets \in Secrets /\ DOMAIN NoSecrets = {}
    <2>1. DOMAIN NoSecrets = {} /\ NoSecrets \in [{} -> Shares]
      BY DEF NoSecrets
    <2> QED BY <2>1, SecretsAre
  <1>2. NewAuthority(th) \in Authority /\ Known(NewAuthority(th)) = {}
    BY <1>1 DEF NewAuthority, Authority, Known
  <1>3. /\ out \in Output /\ out.params = th
        /\ out.authority = NewAuthority(th) /\ out.records = <<>>
    <2>1. <<>> \in Seq(Row)
      OBVIOUS
    <2>2. ASSUME NEW auth \in Authority, NEW rows \in Seq(Row)
          PROVE  LET o == [Nothing EXCEPT !.params = th, !.authority = auth, !.records = rows]
                 IN  /\ o \in Output /\ o.params = th
                     /\ o.authority = auth /\ o.records = rows
      BY DEF Nothing, Output
    <2> QED BY <1>2, <2>1, <2>2
  <1>4. Start(p, "setup", out)
    BY DEF Setup
  <1> HIDE DEF out
  <1>5. [cmd |-> "setup", done |-> 0, out |-> out] \in Job
    BY <1>3 DEF Job, WriteOrder
  <1> QED BY <1>2, <1>3, <1>4, <1>5 DEF Setup, Start, Types

\* register-voter, by either protocol: the voter's file, one more set of shares
\* under the public threshold, one more record.
LEMMA Registers ==
  ASSUME NEW p \in Terminal, NEW id \in VoterId, NEW draw \in Draw, NEW nonce \in Draw,
         Types, MayCutAndChoose(id), Register(p, id, draw, nonce)
  PROVE  /\ UNCHANGED <<files, crashes>>
         /\ job' \in [Terminal -> Job] /\ job[p] = Idle
         /\ \A q \in Terminal : q # p => job'[q] = job[q]
         /\ job'[p].cmd = "register" /\ job'[p].done = 0
         /\ job'[p].out.voter = [id |-> id, draw |-> draw]
         /\ authority \in Authority
         /\ job'[p].out.authority \in Authority
         /\ job'[p].out.authority.threshold = authority.threshold
         /\ Known(job'[p].out.authority) = Known(authority) \cup {id}
         /\ id \notin Known(authority)
         /\ \A v \in Known(authority) :
              job'[p].out.authority.secrets[v] = authority.secrets[v]
         /\ job'[p].out.authority.secrets[id] = NewShares(nonce)
         /\ NewShares(nonce) \in Shares
         /\ job'[p].out.records
              = Append(records, [id |-> id, draw |-> draw, nonce |-> nonce])
         /\ records \in Seq(Row)
         /\ [id |-> id, draw |-> draw, nonce |-> nonce] \in Row
         /\ params \in Thresholds /\ registration = NoFile
  <1> DEFINE row == [id |-> id, draw |-> draw, nonce |-> nonce]
             auth == WithShares(id, NewShares(nonce))
             secrets == [v \in Known(authority) \cup {id} |->
                           IF v = id THEN NewShares(nonce) ELSE authority.secrets[v]]
             out == [Nothing EXCEPT !.voter = [id |-> id, draw |-> draw],
                                    !.authority = auth,
                                    !.records = Append(records, row)]
  <1>1. /\ authority \in Authority /\ records \in Seq(Row) /\ params \in Thresholds
        /\ registration = NoFile /\ id \notin Known(authority)
    BY DEF MayCutAndChoose, Types
  <1>2. NewShares(nonce) \in Shares
    BY <1>1, ThresholdsAssumption DEF NewShares, Shares
  <1>3. /\ authority.secrets \in Secrets /\ authority.threshold \in Thresholds
        /\ Known(authority) \subseteq VoterId
        /\ authority.secrets \in [Known(authority) -> Shares]
    BY <1>1, SecretsAre DEF Authority, Known
  <1>4. secrets \in Secrets /\ DOMAIN secrets = Known(authority) \cup {id}
    BY <1>2, <1>3, SecretsAre
  <1>5. auth = [threshold |-> authority.threshold, secrets |-> secrets]
    BY <1>1, SMTT(30) DEF WithShares, Authority
  <1>6. /\ auth \in Authority /\ auth.threshold = authority.threshold
        /\ Known(auth) = Known(authority) \cup {id}
        /\ \A v \in Known(authority) : auth.secrets[v] = authority.secrets[v]
        /\ auth.secrets[id] = NewShares(nonce)
    <2> HIDE DEF auth
    <2>1. auth.secrets = secrets /\ auth.threshold = authority.threshold
      BY <1>5
    <2>2. auth \in Authority
      BY <1>3, <1>4, <1>5 DEF Authority
    <2>3. /\ \A v \in Known(authority) : secrets[v] = authority.secrets[v]
          /\ secrets[id] = NewShares(nonce)
      BY <1>1
    <2> QED BY <1>4, <2>1, <2>2, <2>3 DEF Known
  <1>7. row \in Row /\ Append(records, row) \in Seq(Row)
    <2>1. row \in Row
      BY DEF Row
    <2> QED BY <1>1, <2>1, AppendProperties
  <1>8. [id |-> id, draw |-> draw] \in VoterFile
    BY DEF VoterFile
  <1> HIDE DEF auth, row
  <1>9. /\ out \in Output /\ out.voter = [id |-> id, draw |-> draw]
        /\ out.authority = auth /\ out.records = Append(records, row)
    BY <1>6, <1>7, <1>8 DEF Nothing, Output
  <1>10. Start(p, "register", out)
    BY DEF Register, Recorded, auth, row
  <1> HIDE DEF out
  <1>11. [cmd |-> "register", done |-> 0, out |-> out] \in Job
    BY <1>9 DEF Job, WriteOrder
  <1> QED BY <1>1, <1>2, <1>6, <1>7, <1>9, <1>10, <1>11 DEF Start, Types, row

\* The shares of the same nonce under another threshold.
Redealt(s, a, b) == [s EXCEPT !.t = a, !.k = b]

\* share-nonces: every nonce under the new threshold.
LEMMA Shared ==
  ASSUME NEW p \in Terminal, NEW th \in Thresholds, Types, ShareNonces(p, th)
  PROVE  /\ UNCHANGED <<files, crashes, audits, drawn>>
         /\ job' \in [Terminal -> Job] /\ job[p] = Idle
         /\ \A q \in Terminal : q # p => job'[q] = job[q]
         /\ job'[p].cmd = "share" /\ job'[p].done = 0
         /\ job'[p].out.params = th
         /\ authority \in Authority
         /\ job'[p].out.authority \in Authority
         /\ job'[p].out.authority.threshold = th
         /\ Known(job'[p].out.authority) = Known(authority)
         /\ \A v \in Known(authority) :
              LET shares == job'[p].out.authority.secrets[v]
              IN  /\ shares.nonce = authority.secrets[v].nonce
                  /\ shares.t = th[1] /\ shares.k = th[2]
         /\ params \in Thresholds
  <1> DEFINE auth == Reshared(th)
             out == [Nothing EXCEPT !.params = th, !.authority = auth]
             Dealt(v) == Redealt(authority.secrets[v], th[1], th[2])
             secrets == [v \in Known(authority) |-> Dealt(v)]
  <1>1. authority \in Authority /\ params \in Thresholds
    BY DEF ShareNonces, Types
  <1>2. /\ Known(authority) \subseteq VoterId
        /\ authority.secrets \in [Known(authority) -> Shares]
    BY <1>1, SecretsAre DEF Authority, Known
  <1>3. \A v \in Known(authority) :
          /\ Dealt(v) \in Shares
          /\ Dealt(v).nonce = authority.secrets[v].nonce
          /\ Dealt(v).t = th[1] /\ Dealt(v).k = th[2]
    <2>1. th[1] \in Nat /\ th[2] \in Nat
      <3>1. th \in Nat \X Nat
        BY ThresholdsAssumption
      <3> QED BY <3>1
    <2>2. ASSUME NEW s \in Shares, NEW a \in Nat, NEW b \in Nat
          PROVE  LET d == Redealt(s, a, b)
                 IN  d \in Shares /\ d.nonce = s.nonce /\ d.t = a /\ d.k = b
      BY DEF Shares, Redealt
    <2>3. \A v \in Known(authority) : authority.secrets[v] \in Shares
      BY <1>2
    <2> DEFINE a == th[1]
               b == th[2]
    <2> HIDE DEF a, b
    <2>4. ASSUME NEW v \in Known(authority)
          PROVE  LET d == Redealt(authority.secrets[v], a, b)
                 IN  /\ d \in Shares /\ d.nonce = authority.secrets[v].nonce
                     /\ d.t = a /\ d.k = b
      <3>1. a \in Nat /\ b \in Nat
        BY <2>1 DEF a, b
      <3> QED BY <2>2, <2>3, <3>1
    <2> QED BY <2>4 DEF a, b
  <1>4. auth = [threshold |-> th, secrets |-> secrets]
    BY DEF Reshared, Redealt
  <1> HIDE DEF Dealt
  <1>5. secrets \in Secrets
    BY <1>2, <1>3, SecretsAre
  <1>6. /\ auth \in Authority /\ auth.threshold = th /\ Known(auth) = Known(authority)
        /\ \A v \in Known(authority) : auth.secrets[v] = Dealt(v)
    BY <1>4, <1>5 DEF Authority, Known
  <1> HIDE DEF auth
  <1>7. out \in Output /\ out.params = th /\ out.authority = auth
    BY <1>6 DEF Nothing, Output
  <1>8. Start(p, "share", out)
    BY DEF ShareNonces, auth
  <1> HIDE DEF out
  <1>9. [cmd |-> "share", done |-> 0, out |-> out] \in Job
    BY <1>7 DEF Job, WriteOrder
  <1>10. /\ job' \in [Terminal -> Job] /\ job[p] = Idle
         /\ job'[p] = [cmd |-> "share", done |-> 0, out |-> out]
         /\ \A q \in Terminal : q # p => job'[q] = job[q]
         /\ UNCHANGED <<files, crashes, audits, drawn>>
    BY <1>8, <1>9 DEF ShareNonces, Start, Types
  <1> QED BY <1>1, <1>3, <1>6, <1>7, <1>10

\* finalize-registration: the table of the records.
LEMMA Finalizes ==
  ASSUME NEW p \in Terminal, Types, FinalizeRegistration(p)
  PROVE  /\ UNCHANGED <<files, crashes, audits, drawn>>
         /\ job' \in [Terminal -> Job] /\ job[p] = Idle
         /\ \A q \in Terminal : q # p => job'[q] = job[q]
         /\ job'[p].cmd = "finalize" /\ job'[p].done = 0
         /\ job'[p].out.registration = TableOf(records)
         /\ params \in Thresholds
  <1> DEFINE out == [Nothing EXCEPT !.registration = TableOf(records)]
             n == Len(records)
             At(id) == CHOOSE i \in DOMAIN records : records[i].id = id
  <1>1. records \in Seq(Row) /\ params \in Thresholds /\ Dense(records)
    BY DEF FinalizeRegistration, Types
  <1>2. DOMAIN records = 1..n /\ n \in Nat /\ \A i \in 1..n : records[i] \in Row
    BY <1>1
  <1>3. n \in 0..MaxVoters
    <2>1. CASE n = 0
      BY <2>1, BoundsAssumption
    <2>2. CASE n # 0
      <3>1. n - 1 \in {records[i].id : i \in DOMAIN records}
        <4>1. n - 1 \in 0..(n - 1)
          BY <1>2, <2>2
        <4> QED BY <1>1, <4>1 DEF Dense
      <3>2. n - 1 \in VoterId
        BY <1>2, <3>1 DEF Row
      <3> QED BY <1>2, <3>2, BoundsAssumption DEF VoterId
    <2> QED BY <2>1, <2>2
  <1>4. \A id \in 0..(n - 1) : records[At(id)].draw \in Draw
    <2> TAKE id \in 0..(n - 1)
    <2>1. \E i \in DOMAIN records : records[i].id = id
      BY <1>1 DEF Dense
    <2>2. At(id) \in DOMAIN records
      BY <2>1
    <2> QED BY <1>2, <2>2 DEF Row
  <1>5. TableOf(records) \in [0..(n - 1) -> Draw]
    BY <1>4 DEF TableOf
  <1>6. TableOf(records) \in Table
    BY <1>3, <1>5 DEF Table
  <1>7. out \in Output /\ out.registration = TableOf(records)
    BY <1>6 DEF Nothing, Output
  <1>8. Start(p, "finalize", out)
    BY DEF FinalizeRegistration
  <1> HIDE DEF out
  <1>9. [cmd |-> "finalize", done |-> 0, out |-> out] \in Job
    BY <1>7 DEF Job, WriteOrder
  <1> QED BY <1>1, <1>7, <1>8, <1>9 DEF FinalizeRegistration, Start, Types

\* The commands in the order in which they write: setup, register and share
\* write the authority's file second, and the records come last.
LEMMA Writes ==
  ASSUME NEW p \in Terminal, Types, WriteFile(p)
  PROVE  /\ UNCHANGED <<audits, drawn, crashes>>
         /\ job' \in [Terminal -> Job] /\ JobsOK'
         /\ \A q \in Terminal : q # p => job'[q] = job[q]
         /\ job[p].out \in Output
         /\ \/ /\ job[p].cmd \in {"setup", "share"} /\ job[p].done = 0
               /\ params' = job[p].out.params
               /\ UNCHANGED <<authority, records, voter, registration>>
               /\ job'[p] = [job[p] EXCEPT !.done = 1]
            \/ /\ job[p].cmd \in {"setup", "register"} /\ job[p].done = 1
               /\ authority' = job[p].out.authority
               /\ UNCHANGED <<params, records, voter, registration>>
               /\ job'[p] = [job[p] EXCEPT !.done = 2]
            \/ /\ job[p].cmd \in {"setup", "register"} /\ job[p].done = 2
               /\ records' = job[p].out.records
               /\ UNCHANGED <<params, authority, voter, registration>>
               /\ job'[p] = Idle
            \/ /\ job[p].cmd = "register" /\ job[p].done = 0
               /\ job[p].out.voter \in VoterFile
               /\ voter' = [voter EXCEPT ![job[p].out.voter.id] = job[p].out.voter.draw]
               /\ UNCHANGED <<params, authority, records, registration>>
               /\ job'[p] = [job[p] EXCEPT !.done = 1]
            \/ /\ job[p].cmd = "share" /\ job[p].done = 1
               /\ authority' = job[p].out.authority
               /\ UNCHANGED <<params, records, voter, registration>>
               /\ job'[p] = Idle
            \/ /\ job[p].cmd = "finalize" /\ job[p].done = 0
               /\ registration' = job[p].out.registration
               /\ UNCHANGED <<params, authority, records, voter>>
               /\ job'[p] = Idle
  <1> DEFINE f == WriteOrder[job[p].cmd][job[p].done + 1]
             j == job[p]
  <1>1. /\ WriteOrder["setup"] = <<"params", "authority", "records">>
        /\ WriteOrder["register"] = <<"voter", "authority", "records">>
        /\ WriteOrder["share"] = <<"params", "authority">>
        /\ WriteOrder["finalize"] = <<"registration">>
    BY DEF WriteOrder
  <1>2. /\ j \in Job /\ j.out \in Output
        /\ job \in [Terminal -> Job]
        /\ UNCHANGED <<audits, drawn, crashes>>
        /\ job' = [job EXCEPT ![p] = Advance(j)]
    BY DEF WriteFile, Types, Job
  <1> DEFINE n == Len(WriteOrder[j.cmd])
  <1>3. \/ j.cmd = "setup" /\ j.done \in 0..2 /\ n = 3
        \/ j.cmd = "register" /\ j.done \in 0..2 /\ j.out.voter \in VoterFile /\ n = 3
        \/ j.cmd = "share" /\ j.done \in 0..1 /\ n = 2
        \/ j.cmd = "finalize" /\ j.done = 0 /\ n = 1
    <2>1. \/ j.cmd = "setup" /\ j.done \in 0..2
          \/ j.cmd = "register" /\ j.done \in 0..2 /\ j.out.voter \in VoterFile
          \/ j.cmd = "share" /\ j.done \in 0..1
          \/ j.cmd = "finalize" /\ j.done = 0
      BY DEF WriteFile, Types, JobsOK
    <2>2. j.cmd = "setup" => n = 3
      BY <1>1
    <2>3. j.cmd = "register" => n = 3
      BY <1>1
    <2>4. j.cmd = "share" => n = 2
      BY <1>1
    <2>5. j.cmd = "finalize" => n = 1
      BY <1>1
    <2> HIDE DEF n
    <2> QED BY <2>1, <2>2, <2>3, <2>4, <2>5
  <1>4. \/ Advance(j) = Idle
        \/ Advance(j) = [j EXCEPT !.done = j.done + 1] /\ j.done + 1 # n
    BY DEF Advance
  <1> HIDE DEF n
  <1>5. Advance(j) \in Job /\ job' \in [Terminal -> Job] /\ job'[p] = Advance(j)
    <2>1. CASE Advance(j) = Idle
      BY <1>2, <2>1, NothingTyped
    <2>2. CASE Advance(j) # Idle
      <3>1. j.done + 1 \in 0..2
        BY <1>3, <1>4, <2>2
      <3>2. ASSUME NEW k \in Job, NEW d \in 0..2
            PROVE  [k EXCEPT !.done = d] \in Job
        BY DEF Job
      <3> QED BY <1>2, <1>4, <2>2, <3>1, <3>2
    <2> QED BY <1>2, <2>1, <2>2
  <1>6. JobsOK'
    <2>1. ASSUME NEW q \in Terminal, q # p
          PROVE  job'[q] = job[q]
      BY <1>2, <2>1
    <2>2. CASE Advance(j) = Idle
      BY <1>5, <2>1, <2>2 DEF JobsOK, Types
    <2>3. CASE Advance(j) # Idle
      <3>1. job'[p] = [j EXCEPT !.done = j.done + 1] /\ j.done + 1 # n
        BY <1>4, <1>5, <2>3 DEF Advance
      <3>2. /\ job'[p].cmd = j.cmd /\ job'[p].out = j.out /\ job'[p].done = j.done + 1
        BY <1>2, <3>1 DEF Job
      <3>3. \/ job'[p].cmd = "setup" /\ job'[p].done \in 0..2
            \/ job'[p].cmd = "register" /\ job'[p].done \in 0..2
                 /\ job'[p].out.voter \in VoterFile
            \/ job'[p].cmd = "share" /\ job'[p].done \in 0..1
            \/ job'[p].cmd = "finalize" /\ job'[p].done = 0
        BY <1>3, <3>1, <3>2, SMTT(30)
      <3> QED BY <2>1, <3>3 DEF JobsOK, Types
    <2> QED BY <2>2, <2>3
  <1>7. /\ f = "params" => /\ params' = j.out.params
                            /\ UNCHANGED <<authority, records, voter, registration>>
        /\ f = "authority" => /\ authority' = j.out.authority
                               /\ UNCHANGED <<params, records, voter, registration>>
        /\ f = "records" => /\ records' = j.out.records
                             /\ UNCHANGED <<params, authority, voter, registration>>
        /\ f = "voter" =>
             /\ voter' = [voter EXCEPT ![j.out.voter.id] = j.out.voter.draw]
             /\ UNCHANGED <<params, authority, records, registration>>
        /\ f = "registration" => /\ registration' = j.out.registration
                                  /\ UNCHANGED <<params, authority, records, voter>>
    BY DEF WriteFile
  <1> HIDE DEF f
  <1>8. CASE j.cmd = "setup"
    <2>1. CASE j.done = 0
      <3>1. f = "params" /\ Advance(j) = [j EXCEPT !.done = 1]
        BY <1>1, <1>8, <2>1 DEF f, Advance
      <3> QED BY <1>2, <1>5, <1>6, <1>7, <1>8, <2>1, <3>1
    <2>2. CASE j.done = 1
      <3>1. f = "authority" /\ Advance(j) = [j EXCEPT !.done = 2]
        BY <1>1, <1>8, <2>2 DEF f, Advance
      <3> QED BY <1>2, <1>5, <1>6, <1>7, <1>8, <2>2, <3>1
    <2>3. CASE j.done = 2
      <3>1. f = "records" /\ Advance(j) = Idle
        BY <1>1, <1>8, <2>3 DEF f, Advance
      <3> QED BY <1>2, <1>5, <1>6, <1>7, <1>8, <2>3, <3>1
    <2> QED BY <1>3, <1>8, <2>1, <2>2, <2>3
  <1>9. CASE j.cmd = "register"
    <2>1. CASE j.done = 0
      <3>1. f = "voter" /\ Advance(j) = [j EXCEPT !.done = 1]
        BY <1>1, <1>9, <2>1 DEF f, Advance
      <3> QED BY <1>2, <1>3, <1>5, <1>6, <1>7, <1>9, <2>1, <3>1
    <2>2. CASE j.done = 1
      <3>1. f = "authority" /\ Advance(j) = [j EXCEPT !.done = 2]
        BY <1>1, <1>9, <2>2 DEF f, Advance
      <3> QED BY <1>2, <1>5, <1>6, <1>7, <1>9, <2>2, <3>1
    <2>3. CASE j.done = 2
      <3>1. f = "records" /\ Advance(j) = Idle
        BY <1>1, <1>9, <2>3 DEF f, Advance
      <3> QED BY <1>2, <1>5, <1>6, <1>7, <1>9, <2>3, <3>1
    <2> QED BY <1>3, <1>9, <2>1, <2>2, <2>3
  <1>10. CASE j.cmd = "share"
    <2>1. CASE j.done = 0
      <3>1. f = "params" /\ Advance(j) = [j EXCEPT !.done = 1]
        BY <1>1, <1>10, <2>1 DEF f, Advance
      <3> QED BY <1>2, <1>5, <1>6, <1>7, <1>10, <2>1, <3>1
    <2>2. CASE j.done = 1
      <3>1. f = "authority" /\ Advance(j) = Idle
        BY <1>1, <1>10, <2>2 DEF f, Advance
      <3> QED BY <1>2, <1>5, <1>6, <1>7, <1>10, <2>2, <3>1
    <2> QED BY <1>3, <1>10, <2>1, <2>2
  <1>11. CASE j.cmd = "finalize"
    <2>1. CASE j.done = 0
      <3>1. f = "registration" /\ Advance(j) = Idle
        BY <1>1, <1>11, <2>1 DEF f, Advance
      <3> QED BY <1>2, <1>5, <1>6, <1>7, <1>11, <2>1, <3>1
    <2> QED BY <1>3, <1>11, <2>1
  <1> QED BY <1>3, <1>8, <1>9, <1>10, <1>11

-----------------------------------------------------------------------------
(* A cut-and-choose registration.                                           *)

\* Its numbers are new, the pair kept is not opened, and a registration goes
\* on only if no audited pair is corrupt.
LEMMA Chooses ==
  ASSUME NEW p \in Terminal, NEW id \in VoterId, NEW q \in PairCounts,
         NEW kept \in 0..(q - 1), NEW corrupt \in 0..q,
         Types, CutAndChoose(p, id, q, kept, corrupt)
  PROVE  /\ drawn' \in 0..MaxDraws /\ drawn' > drawn /\ job[p] = Idle
         /\ \E a \in Audit :
              /\ audits' = audits \cup {a}
              /\ a.voter \in (drawn + 1)..drawn' /\ a.kept \in (drawn + 1)..drawn'
              /\ a.opened \subseteq (drawn + 1)..drawn' /\ a.kept \notin a.opened
              /\ \/ UNCHANGED <<files, job, crashes>>
                 \/ /\ MayCutAndChoose(id) /\ Register(p, id, a.voter, a.kept)
                    /\ a.corrupt \in {0, a.kept}
  <1> DEFINE a == [ voter   |-> drawn + 1,
                    opened  |-> Opened(q, kept, corrupt),
                    corrupt |-> IF corrupt = q THEN 0 ELSE drawn + 1 + corrupt,
                    kept    |-> drawn + 1 + kept ]
  <1>1. /\ q \in Nat /\ drawn \in Nat /\ MaxDraws \in Nat
        /\ kept \in Nat /\ corrupt \in Nat /\ kept < q /\ corrupt <= q
    BY BoundsAssumption DEF Types
  <1>2. q >= 2 /\ drawn + q <= MaxDraws /\ drawn' = drawn + q /\ job[p] = Idle
    BY DEF CutAndChoose
  <1>3. Opened(q, kept, corrupt) \subseteq (drawn + 1)..(drawn + q)
    <2> SUFFICES ASSUME NEW i \in Audited(q, kept)
                 PROVE  drawn + 1 + i \in (drawn + 1)..(drawn + q)
      BY DEF Opened
    <2> QED BY <1>1 DEF Audited
  <1>4. drawn + 1 + kept \notin Opened(q, kept, corrupt)
    <2> SUFFICES ASSUME NEW i \in Audited(q, kept), drawn + 1 + i = drawn + 1 + kept
                 PROVE  FALSE
      BY DEF Opened
    <2> QED BY <1>1 DEF Audited
  <1>5. a \in Audit
    <2>1. (drawn + 1)..(drawn + q) \subseteq Draw
      BY <1>1, <1>2 DEF Draw
    <2>2. drawn + 1 \in Draw /\ drawn + 1 + kept \in Draw
      BY <1>1, <1>2 DEF Draw
    <2>3. (IF corrupt = q THEN 0 ELSE drawn + 1 + corrupt) \in 0..MaxDraws
      BY <1>1, <1>2
    <2> QED BY <1>3, <2>1, <2>2, <2>3 DEF Audit
  <1>6. \/ UNCHANGED <<files, job, crashes>>
        \/ /\ MayCutAndChoose(id) /\ Register(p, id, drawn + 1, drawn + 1 + kept)
           /\ corrupt \in {q, kept}
    <2>1. CASE corrupt \in Audited(q, kept)
      BY <2>1 DEF CutAndChoose
    <2>2. CASE corrupt \notin Audited(q, kept)
      <3>1. corrupt \in {q, kept}
        BY <1>1, <2>2 DEF Audited
      <3> QED BY <2>2, <3>1 DEF CutAndChoose
    <2> QED BY <2>1, <2>2
  <1>7. /\ audits' = audits \cup {a}
        /\ a.voter = drawn + 1 /\ a.kept = drawn + 1 + kept
        /\ a.opened = Opened(q, kept, corrupt)
        /\ corrupt \in {q, kept} => a.corrupt \in {0, a.kept}
    BY DEF CutAndChoose
  <1>8. drawn + 1 \in (drawn + 1)..(drawn + q) /\ drawn + 1 + kept \in (drawn + 1)..(drawn + q)
    BY <1>1, <1>2
  <1> HIDE DEF a
  <1>9. drawn' \in 0..MaxDraws /\ drawn' > drawn
    BY <1>1, <1>2
  <1> QED BY <1>2, <1>3, <1>4, <1>5, <1>6, <1>7, <1>8, <1>9

\* A plain registration draws one number.
LEMMA PlainRegisters ==
  ASSUME NEW p \in Terminal, NEW id \in VoterId, Types, RegisterVoter(p, id)
  PROVE  /\ drawn' \in 0..MaxDraws /\ drawn' = drawn + 1 /\ drawn' \in Draw
         /\ UNCHANGED audits
         /\ MayCutAndChoose(id) /\ Register(p, id, drawn', drawn')
  <1>1. drawn \in Nat /\ drawn < MaxDraws /\ drawn' = drawn + 1 /\ MaxDraws \in Nat
    BY BoundsAssumption DEF RegisterVoter, Types
  <1>2. drawn' \in 0..MaxDraws /\ drawn' \in Draw
    BY <1>1 DEF Draw
  <1> QED BY <1>1, <1>2 DEF RegisterVoter, MayRegister, MayCutAndChoose

-----------------------------------------------------------------------------
(* Well-typed files, with any number of shells.                             *)

\* A command that has just started has all it will write.
LEMMA StartedOK ==
  ASSUME Types, NEW p \in Terminal,
         \A q \in Terminal : q # p => job'[q] = job[q],
         \/ job'[p].cmd \in {"setup", "share", "finalize"} /\ job'[p].done = 0
         \/ job'[p].cmd = "register" /\ job'[p].done = 0 /\ job'[p].out.voter \in VoterFile
  PROVE  JobsOK'
  BY DEF Types, JobsOK

\* Every step keeps the types.
LEMMA TypesNext ==
  ASSUME Types, [Next]_vars
  PROVE  Types'
  <1>1. ASSUME NEW p \in Terminal, NEW th \in Thresholds, Setup(p, th)
        PROVE  Types'
    BY <1>1, SetsUp, StartedOK DEF Types, files
  <1>2. ASSUME NEW p \in Terminal, NEW th \in Thresholds, ShareNonces(p, th)
        PROVE  Types'
    BY <1>2, Shared, StartedOK DEF Types, files
  <1>3. ASSUME NEW p \in Terminal, NEW id \in VoterId, RegisterVoter(p, id)
        PROVE  Types'
    <2>1. [id |-> id, draw |-> drawn'] \in VoterFile
      BY <1>3, PlainRegisters DEF VoterFile
    <2>2. /\ drawn' \in 0..MaxDraws /\ drawn' \in Draw /\ UNCHANGED audits
          /\ MayCutAndChoose(id) /\ Register(p, id, drawn', drawn')
      BY <1>3, PlainRegisters
    <2>3. /\ UNCHANGED <<files, crashes>> /\ job' \in [Terminal -> Job]
          /\ \A r \in Terminal : r # p => job'[r] = job[r]
          /\ job'[p].cmd = "register" /\ job'[p].done = 0
          /\ job'[p].out.voter = [id |-> id, draw |-> drawn']
      BY <2>2, Registers, ZenonT(40)
    <2>4. JobsOK'
      BY <2>1, <2>3, StartedOK
    <2> QED BY <2>2, <2>3, <2>4 DEF Types, files
  <1>4. ASSUME NEW p \in Terminal, NEW id \in VoterId, NEW q \in PairCounts,
               NEW kept \in 0..(q - 1), NEW corrupt \in 0..q,
               CutAndChoose(p, id, q, kept, corrupt)
        PROVE  Types'
    <2>1. drawn' \in 0..MaxDraws
      BY <1>4, Chooses
    <2>2. PICK a \in Audit :
            /\ audits' = audits \cup {a}
            /\ \/ UNCHANGED <<files, job, crashes>>
               \/ MayCutAndChoose(id) /\ Register(p, id, a.voter, a.kept)
      BY <1>4, Chooses
    <2>3. CASE UNCHANGED <<files, job, crashes>>
      BY <2>1, <2>2, <2>3 DEF Types, files, JobsOK
    <2>4. CASE MayCutAndChoose(id) /\ Register(p, id, a.voter, a.kept)
      <3>1. PICK draw \in Draw, nonce \in Draw : draw = a.voter /\ nonce = a.kept
        BY DEF Audit
      <3>2. [id |-> id, draw |-> draw] \in VoterFile
        BY <3>1 DEF VoterFile
      <3>3. /\ UNCHANGED <<files, crashes>> /\ job' \in [Terminal -> Job]
            /\ \A r \in Terminal : r # p => job'[r] = job[r]
            /\ job'[p].cmd = "register" /\ job'[p].done = 0
            /\ job'[p].out.voter = [id |-> id, draw |-> draw]
        <4>1. Register(p, id, draw, nonce)
          BY <2>4, <3>1
        <4> QED BY <2>4, <4>1, Registers, ZenonT(40)
      <3>4. JobsOK'
        BY <3>2, <3>3, StartedOK
      <3> QED BY <2>1, <2>2, <3>3, <3>4 DEF Types, files
    <2> QED BY <2>2, <2>3, <2>4
  <1>5. ASSUME NEW p \in Terminal, FinalizeRegistration(p)
        PROVE  Types'
    BY <1>5, Finalizes, StartedOK DEF Types, files
  <1>6. ASSUME NEW p \in Terminal, WriteFile(p)
        PROVE  Types'
    <2>1. job[p].out \in Output
      BY <1>6, Writes
    <2>2. /\ job[p].out.params \in Thresholds \cup {NoFile}
          /\ job[p].out.authority \in Authority \cup {NoFile}
          /\ job[p].out.records \in Seq(Row) \cup {NoFile}
          /\ job[p].out.registration \in Table \cup {NoFile}
      BY <2>1 DEF Output
    <2>3. ASSUME NEW v \in VoterFile
          PROVE  [voter EXCEPT ![v.id] = v.draw] \in [VoterId -> 0..MaxDraws]
      <3>1. v.draw \in 0..MaxDraws /\ v.id \in VoterId
        BY BoundsAssumption DEF VoterFile, Draw
      <3>2. ASSUME NEW id \in VoterId, NEW d \in 0..MaxDraws
            PROVE  [voter EXCEPT ![id] = d] \in [VoterId -> 0..MaxDraws]
        BY DEF Types
      <3> QED BY <3>1, <3>2
    <2>4. voter' \in [VoterId -> 0..MaxDraws]
      <3>1. voter \in [VoterId -> 0..MaxDraws]
        BY DEF Types
      <3>2. \/ voter' = voter
            \/ /\ job[p].out.voter \in VoterFile
               /\ voter' = [voter EXCEPT ![job[p].out.voter.id] = job[p].out.voter.draw]
        BY <1>6, Writes
      <3> QED BY <2>3, <3>1, <3>2
    <2> QED BY <1>6, <2>2, <2>4, Writes DEF Types
  <1>7. ASSUME NEW p \in Terminal, Crash(p)
        PROVE  Types'
    <2>1. crashes' \in 0..MaxCrashes
      BY <1>7, BoundsAssumption DEF Crash, Types
    <2>2. job' \in [Terminal -> Job] /\ JobsOK'
      BY <1>7, NothingTyped DEF Crash, Types, JobsOK
    <2> QED BY <1>7, <2>1, <2>2 DEF Crash, Types, files
  <1>8. CASE UNCHANGED vars
    BY <1>8 DEF vars, Types, JobsOK
  <1> QED BY <1>1, <1>2, <1>3, <1>4, <1>5, <1>6, <1>7, <1>8 DEF Next

\* A new directory is well typed.
LEMMA TypesInit ==
  ASSUME Init
  PROVE  Types
  <1>1. job \in [Terminal -> Job] /\ JobsOK
    BY NothingTyped DEF Init, JobsOK
  <1> QED BY <1>1, BoundsAssumption DEF Init, Types

\* They hold from the start.
LEMMA TypesInvariant == Spec => []Types
  <1>1. Init => Types
    BY TypesInit
  <1>2. Types /\ [Next]_vars => Types'
    BY TypesNext
  <1> QED BY <1>1, <1>2, PTL DEF Spec

\* The directory stays well typed, whatever shells interleave and wherever
\* commands crash.
THEOREM RegistrationTypeOK == Spec => []TypeOK
  <1>1. Types => TypeOK
    <2> SUFFICES ASSUME Types PROVE TypeOK
      OBVIOUS
    <2>1. authority = NoFile \/ authority \in Authority
      BY DEF Types
    <2>2. ASSUME authority \in Authority
          PROVE  /\ authority.threshold \in Threshold
                 /\ Known(authority) \subseteq VoterId
                 /\ \A id \in Known(authority) : authority.secrets[id] \in Shares
      <3>1. authority.secrets \in Secrets /\ authority.threshold \in Thresholds
        BY <2>2 DEF Authority
      <3> QED BY <3>1, SecretsAre DEF Known, Threshold
    <2>3. registration = NoFile \/ \E n \in 0..MaxVoters : registration \in [0..(n - 1) -> Draw]
      BY DEF Types, Table
    <2>4. \A p \in Terminal : job[p] = Idle \/ job[p].cmd \in DOMAIN WriteOrder
      BY DEF Types, JobsOK, WriteOrder
    <2> QED BY <2>1, <2>2, <2>3, <2>4 DEF Types, TypeOK, Threshold, Audit
  <1> QED BY <1>1, TypesInvariant, PTL

-----------------------------------------------------------------------------
(* The steps of one shell.                                                  *)

\* The fields of a job that has written one more file, or the last.
LEMMA NextWrite ==
  ASSUME NEW p \in Terminal, Types, WriteFile(p)
  PROVE  \/ job'[p] = Idle /\ job'[p].cmd = "none"
         \/ /\ job'[p].cmd = job[p].cmd /\ job'[p].out = job[p].out
            /\ job'[p].done \in {1, 2}
  <1>1. job[p] \in Job
    BY DEF Types
  <1>2. ASSUME NEW d \in {1, 2}, job'[p] = [job[p] EXCEPT !.done = d]
        PROVE  job'[p].cmd = job[p].cmd /\ job'[p].done = d /\ job'[p].out = job[p].out
    BY <1>1, <1>2 DEF Job
  <1>3. \/ job'[p] = Idle
        \/ job'[p] = [job[p] EXCEPT !.done = 1]
        \/ job'[p] = [job[p] EXCEPT !.done = 2]
    BY Writes
  <1> QED BY <1>2, <1>3 DEF Idle

\* Every step of Next, by the one shell.
LEMMA OneShell ==
  ASSUME NEW t, Terminal = {t}, Types, [Next]_vars
  PROVE  \/ \E th \in Thresholds : Setup(t, th) \/ ShareNonces(t, th)
         \/ /\ drawn' \in Draw /\ drawn' = drawn + 1 /\ UNCHANGED audits
            /\ \E id \in VoterId, draw \in Draw :
                 draw = drawn' /\ MayCutAndChoose(id) /\ Register(t, id, draw, draw)
         \/ /\ drawn' \in 0..MaxDraws /\ drawn' > drawn
            /\ \E a \in Audit :
                 /\ audits' = audits \cup {a}
                 /\ a.voter \in (drawn + 1)..drawn' /\ a.kept \in (drawn + 1)..drawn'
                 /\ a.opened \subseteq (drawn + 1)..drawn' /\ a.kept \notin a.opened
                 /\ \/ UNCHANGED <<files, job, crashes>>
                    \/ /\ a.corrupt \in {0, a.kept}
                       /\ \E id \in VoterId, draw \in Draw, nonce \in Draw :
                            /\ draw = a.voter /\ nonce = a.kept
                            /\ MayCutAndChoose(id) /\ Register(t, id, draw, nonce)
         \/ FinalizeRegistration(t)
         \/ WriteFile(t)
         \/ Crash(t)
         \/ UNCHANGED vars
  <1>1. t \in Terminal /\ \A p \in Terminal : p = t
    OBVIOUS
  <1>2. ASSUME NEW id \in VoterId, RegisterVoter(t, id)
        PROVE  /\ drawn' \in Draw /\ drawn' = drawn + 1 /\ UNCHANGED audits
               /\ \E draw \in Draw :
                    draw = drawn' /\ MayCutAndChoose(id) /\ Register(t, id, draw, draw)
    <2>1. /\ drawn' \in Draw /\ drawn' = drawn + 1 /\ UNCHANGED audits
          /\ MayCutAndChoose(id) /\ Register(t, id, drawn', drawn')
      BY <1>1, <1>2, PlainRegisters
    <2>2. PICK draw \in Draw : draw = drawn'
      BY <2>1
    <2>3. Register(t, id, draw, draw)
      BY <2>1, <2>2 DEF Register
    <2> QED BY <2>1, <2>2, <2>3
  <1>3. ASSUME NEW id \in VoterId, NEW q \in PairCounts, NEW kept \in 0..(q - 1),
               NEW corrupt \in 0..q, CutAndChoose(t, id, q, kept, corrupt)
        PROVE  /\ drawn' \in 0..MaxDraws /\ drawn' > drawn
               /\ \E a \in Audit :
                    /\ audits' = audits \cup {a}
                    /\ a.voter \in (drawn + 1)..drawn' /\ a.kept \in (drawn + 1)..drawn'
                    /\ a.opened \subseteq (drawn + 1)..drawn' /\ a.kept \notin a.opened
                    /\ \/ UNCHANGED <<files, job, crashes>>
                       \/ /\ a.corrupt \in {0, a.kept}
                          /\ \E draw \in Draw, nonce \in Draw :
                               /\ draw = a.voter /\ nonce = a.kept
                               /\ MayCutAndChoose(id) /\ Register(t, id, draw, nonce)
    <2>1. PICK a \in Audit :
            /\ audits' = audits \cup {a}
            /\ a.voter \in (drawn + 1)..drawn' /\ a.kept \in (drawn + 1)..drawn'
            /\ a.opened \subseteq (drawn + 1)..drawn' /\ a.kept \notin a.opened
            /\ \/ UNCHANGED <<files, job, crashes>>
               \/ /\ MayCutAndChoose(id) /\ Register(t, id, a.voter, a.kept)
                  /\ a.corrupt \in {0, a.kept}
      BY <1>1, <1>3, Chooses
    <2>2. PICK draw \in Draw, nonce \in Draw : draw = a.voter /\ nonce = a.kept
      BY DEF Audit
    <2>3. Register(t, id, a.voter, a.kept) => Register(t, id, draw, nonce)
      BY <2>2
    <2>4. drawn' \in 0..MaxDraws /\ drawn' > drawn
      BY <1>1, <1>3, Chooses
    <2> QED BY <2>1, <2>2, <2>3, <2>4
  <1> QED BY <1>1, <1>2, <1>3 DEF Next

-----------------------------------------------------------------------------
(* One shell: what a command found is still there when it writes.           *)

\* The nonces that one authority's file keeps from another.
KeepsNonces(old, new) ==
  /\ old \in Authority /\ new \in Authority
  /\ \A id \in Known(old) :
       id \in Known(new) /\ new.secrets[id].nonce = old.secrets[id].nonce

\* The row a registration is about to publish.
NewRow(out) ==
  [ id |-> out.voter.id, draw |-> out.voter.draw,
    nonce |-> out.authority.secrets[out.voter.id].nonce ]

SettingUp(p) ==
  /\ job[p].out.params \in Thresholds
  /\ job[p].out.authority \in Authority /\ Known(job[p].out.authority) = {}
  /\ job[p].out.records = <<>>
  /\ Rows = {}
  /\ IF job[p].done = 0 THEN params = NoFile ELSE params # NoFile

Registering(p) ==
  LET out == job[p].out
      id == out.voter.id
  IN  /\ params # NoFile
      /\ KeepsNonces(authority, out.authority)
      /\ Known(out.authority) = Known(authority) \cup {id}
      /\ records \in Seq(Row) /\ records # NoFile
      /\ out.records = Append(records, NewRow(out)) /\ NewRow(out) \in Row
      /\ job[p].done < 2 => id \notin Known(authority)
      /\ job[p].done >= 1 => voter[id] = out.voter.draw
      /\ job[p].done = 2 => authority = out.authority

Sharing(p) ==
  /\ params # NoFile /\ job[p].out.params \in Thresholds
  /\ KeepsNonces(authority, job[p].out.authority)
  /\ Known(job[p].out.authority) = Known(authority)

\* The secrets come before the row that needs them, so a crash can only leave
\* secrets without a row.
Store ==
  /\ Types
  /\ params = NoFile => Rows = {} /\ authority = NoFile
  /\ Rows # {} => authority \in Authority
  /\ RowsAreBacked
  /\ \A p \in Terminal :
       /\ job[p].cmd = "setup" => SettingUp(p)
       /\ job[p].cmd = "register" => Registering(p)
       /\ job[p].cmd = "share" => Sharing(p)

\* The rows are those of the records.
LEMMA RowsAre ==
  /\ records' = records => Rows' = Rows
  /\ records \in Seq(Row) => Rows \subseteq Row
  BY SMTT(30) DEF Rows

\* The rows of a list with one more record.
LEMMA OneMoreRow ==
  ASSUME NEW row, records \in Seq(Row), records # NoFile, records' = Append(records, row)
  PROVE  Rows' \subseteq Rows \cup {row}
  <1>1. /\ Len(records) \in Nat /\ DOMAIN records = 1..Len(records)
        /\ DOMAIN records' = 1..(Len(records) + 1)
        /\ \A i \in 1..Len(records) : records'[i] = records[i]
        /\ records'[Len(records) + 1] = row
    OBVIOUS
  <1> SUFFICES ASSUME NEW i \in DOMAIN records'
               PROVE  records'[i] \in Rows \cup {row}
    BY DEF Rows
  <1>2. i \in DOMAIN records \/ i = Len(records) + 1
    BY <1>1
  <1> QED BY <1>1, <1>2 DEF Rows

\* What is backed stays backed when the authority keeps its nonces.
LEMMA StillBacked ==
  ASSUME RowsAreBacked, Rows' \subseteq Rows, voter' = voter,
         Rows # {} => KeepsNonces(authority, authority')
  PROVE  RowsAreBacked' /\ (Rows' # {} => authority' \in Authority)
  BY DEF RowsAreBacked, KeepsNonces

\* Nothing but the row changes when the files do not.
LEMMA SameFiles ==
  ASSUME UNCHANGED files
  PROVE  /\ Rows' = Rows
         /\ RowsAreBacked => RowsAreBacked'
         /\ \A p \in Terminal :
              job'[p] = job[p] =>
                /\ SettingUp(p) => SettingUp(p)'
                /\ Registering(p) => Registering(p)'
                /\ Sharing(p) => Sharing(p)'
  <1>1. Rows' = Rows
    BY DEF files, Rows
  <1> QED BY <1>1 DEF files, RowsAreBacked, SettingUp, Registering, Sharing, Known

\* Every write of the one shell keeps the store.
LEMMA StoreWrites ==
  ASSUME NEW t, Terminal = {t}, Store, WriteFile(t)
  PROVE  Store'
  <1> DEFINE j == job[t]
             out == j.out
  <1>1. /\ Types /\ Types' /\ t \in Terminal /\ \A p \in Terminal : p = t
        /\ j.cmd = "setup" => SettingUp(t)
        /\ j.cmd = "register" => Registering(t)
        /\ j.cmd = "share" => Sharing(t)
        /\ j \in Job
    <2>1. Next
      BY DEF Next
    <2>2. Types'
      BY <2>1, TypesNext DEF Store
    <2> QED BY <2>2 DEF Store, Types
  <1>2. /\ job'[t] = Idle \/ \E d \in 0..2 : job'[t] = [j EXCEPT !.done = d]
        /\ \A d \in 0..2 : LET k == [j EXCEPT !.done = d]
                           IN  k.cmd = j.cmd /\ k.done = d /\ k.out = out
        /\ Idle.cmd = "none"
    BY <1>1, Writes DEF Job, Idle
  <1>3. CASE j.cmd = "setup"
    <2>1. Rows = {} /\ SettingUp(t)
      BY <1>1, <1>3 DEF SettingUp
    <2>2. CASE j.done = 0
      <3>1. /\ params' = out.params /\ UNCHANGED <<authority, records, voter, registration>>
            /\ job'[t] = [j EXCEPT !.done = 1]
        BY <1>1, <1>3, <2>2, Writes
      <3>2. job'[t].cmd = "setup" /\ job'[t].done = 1 /\ job'[t].out = out
        BY <1>2, <1>3, <3>1
      <3>3. params' # NoFile /\ Rows' = {}
        <4>1. Rows' = Rows
          BY <3>1, RowsAre
        <4> QED BY <2>1, <3>1, <4>1, NoFileAssumption DEF SettingUp
      <3>4. SettingUp(t)'
        BY <2>1, <3>1, <3>2, <3>3 DEF SettingUp, Known
      <3> QED BY <1>1, <3>2, <3>3, <3>4 DEF Store, RowsAreBacked
    <2>3. CASE j.done = 1
      <3>1. /\ authority' = out.authority /\ UNCHANGED <<params, records, voter, registration>>
            /\ job'[t] = [j EXCEPT !.done = 2]
        BY <1>1, <1>3, <2>3, Writes
      <3>2. job'[t].cmd = "setup" /\ job'[t].done = 2 /\ job'[t].out = out
        BY <1>2, <1>3, <3>1
      <3>3. params' # NoFile /\ Rows' = {}
        <4>1. Rows' = Rows
          BY <3>1, RowsAre
        <4> QED BY <2>1, <2>3, <3>1, <4>1 DEF SettingUp
      <3>4. SettingUp(t)'
        BY <2>1, <3>1, <3>2, <3>3 DEF SettingUp, Known
      <3> QED BY <1>1, <3>2, <3>3, <3>4 DEF Store, RowsAreBacked
    <2>4. CASE j.done = 2
      <3>1. /\ records' = out.records /\ UNCHANGED <<params, authority, voter, registration>>
            /\ job'[t] = Idle
        BY <1>1, <1>3, <2>4, Writes
      <3>2. params' # NoFile /\ Rows' = {}
        BY <2>1, <2>4, <3>1 DEF SettingUp, Rows
      <3> QED BY <1>1, <1>2, <3>1, <3>2 DEF Store, RowsAreBacked
    <2> QED BY <1>1, <1>3, <2>2, <2>3, <2>4 DEF Job
  <1>4. CASE j.cmd = "register"
    <2> DEFINE id == out.voter.id
               row == NewRow(out)
    <2>1. Registering(t) /\ id \in VoterId /\ row \in Row
      <3>1. row.id = id /\ row \in Row
        BY <1>1, <1>4 DEF Registering, NewRow
      <3> QED BY <1>1, <1>4, <3>1, SMTT(30) DEF Row
    <2>2. CASE j.done = 0
      <3>1. /\ voter' = [voter EXCEPT ![id] = out.voter.draw]
            /\ UNCHANGED <<params, authority, records, registration>>
            /\ job'[t] = [j EXCEPT !.done = 1]
        BY <1>1, <1>4, <2>2, Writes
      <3>2. job'[t].cmd = "register" /\ job'[t].done = 1 /\ job'[t].out = out
        BY <1>2, <1>4, <3>1
      <3>3. Rows' = Rows /\ id \notin Known(authority)
        BY <2>1, <2>2, <3>1 DEF Rows, Registering
      <3>4. voter'[id] = out.voter.draw /\ \A v \in VoterId : v # id => voter'[v] = voter[v]
        BY <1>1, <2>1, <3>1 DEF Types
      <3>5. Registering(t)'
        BY <2>1, <3>1, <3>2, <3>3, <3>4 DEF Registering
      <3>6. RowsAreBacked'
        <4>1. \A r \in Rows : r.id \in VoterId
          BY <2>1, RowsAre, SMTT(30) DEF Registering, Row
        <4> QED BY <3>1, <3>3, <3>4, <4>1 DEF Store, RowsAreBacked, Known
      <3> QED BY <1>1, <3>1, <3>2, <3>3, <3>5, <3>6 DEF Store
    <2>3. CASE j.done = 1
      <3>1. /\ authority' = out.authority /\ UNCHANGED <<params, records, voter, registration>>
            /\ job'[t] = [j EXCEPT !.done = 2]
        BY <1>1, <1>4, <2>3, Writes
      <3>2. job'[t].cmd = "register" /\ job'[t].done = 2 /\ job'[t].out = out
        BY <1>2, <1>4, <3>1
      <3>3. Rows' = Rows
        BY <3>1 DEF Rows
      <3>4. Registering(t)'
        <4>1. KeepsNonces(authority', out.authority)
          BY <2>1, <3>1 DEF Registering, KeepsNonces
        <4>2. Known(out.authority) = Known(authority') \cup {id}
          BY <2>1, <3>1 DEF Registering
        <4> QED BY <2>1, <2>3, <3>1, <3>2, <4>1, <4>2 DEF Registering
      <3>5. RowsAreBacked' /\ (Rows' # {} => authority' \in Authority)
        BY <2>1, <3>1, <3>3, StillBacked DEF Store, Registering
      <3> QED BY <1>1, <2>1, <3>1, <3>2, <3>4, <3>5 DEF Store, Registering
    <2>4. CASE j.done = 2
      <3>1. /\ records' = Append(records, row)
            /\ UNCHANGED <<params, authority, voter, registration>>
            /\ job'[t] = Idle
        BY <1>1, <1>4, <2>1, <2>4, Writes DEF Registering
      <3>2. Rows' \subseteq Rows \cup {row}
        BY <2>1, <3>1, OneMoreRow DEF Registering
      <3>3. authority \in Authority /\ params # NoFile
        BY <2>1, SMTT(30) DEF Registering, KeepsNonces
      <3>4. /\ voter[row.id] = row.draw /\ row.id \in Known(authority)
            /\ authority.secrets[row.id].nonce = row.nonce
        <4>1. row.id = id /\ row.draw = out.voter.draw
              /\ row.nonce = out.authority.secrets[id].nonce
          BY DEF NewRow
        <4> HIDE DEF row
        <4>2. id \in Known(out.authority)
          BY <2>1 DEF Registering
        <4> QED BY <2>1, <2>4, <4>1, <4>2 DEF Registering
      <3>5. RowsAreBacked'
        BY <3>1, <3>2, <3>4 DEF Store, RowsAreBacked
      <3> QED BY <1>1, <1>2, <3>1, <3>3, <3>5, SMTT(30) DEF Store
    <2> QED BY <1>1, <1>4, <2>2, <2>3, <2>4 DEF Job
  <1>5. CASE j.cmd = "share"
    <2>1. Sharing(t)
      BY <1>1, <1>5
    <2>2. CASE j.done = 0
      <3>1. /\ params' = out.params /\ UNCHANGED <<authority, records, voter, registration>>
            /\ job'[t] = [j EXCEPT !.done = 1]
        BY <1>1, <1>5, <2>2, Writes
      <3>2. job'[t].cmd = "share" /\ job'[t].done = 1 /\ job'[t].out = out
        BY <1>2, <1>5, <3>1
      <3>3. params' # NoFile /\ Rows' = Rows
        BY <2>1, <3>1, NoFileAssumption DEF Sharing, Rows
      <3>4. Sharing(t)'
        BY <2>1, <3>1, <3>2, <3>3 DEF Sharing, KeepsNonces, Known
      <3> QED BY <1>1, <3>1, <3>2, <3>3, <3>4 DEF Store, RowsAreBacked, Known
    <2>3. CASE j.done = 1
      <3>1. /\ authority' = out.authority /\ UNCHANGED <<params, records, voter, registration>>
            /\ job'[t] = Idle
        BY <1>1, <1>5, <2>3, Writes
      <3>2. Rows' = Rows
        BY <3>1 DEF Rows
      <3>3. RowsAreBacked' /\ (Rows' # {} => authority' \in Authority)
        BY <2>1, <3>1, <3>2, StillBacked DEF Store, Sharing
      <3> QED BY <1>1, <1>2, <2>1, <3>1, <3>3 DEF Store, Sharing
    <2> QED BY <1>1, <1>5, <2>2, <2>3, Writes DEF Job
  <1>6. CASE j.cmd = "finalize"
    <2>1. UNCHANGED <<params, authority, records, voter>> /\ job'[t] = Idle
      BY <1>1, <1>6, Writes
    <2> QED BY <1>1, <1>2, <2>1 DEF Store, RowsAreBacked, Rows, Known
  <1> QED BY <1>1, <1>3, <1>4, <1>5, <1>6, Writes

\* A command that starts finds what Registering says.
LEMMA StoreRegisters ==
  ASSUME NEW t, Terminal = {t}, Store, Types',
         NEW id \in VoterId, NEW draw \in Draw, NEW nonce \in Draw,
         MayCutAndChoose(id), Register(t, id, draw, nonce)
  PROVE  Store'
  <1> DEFINE out == job'[t].out
             row == [id |-> id, draw |-> draw, nonce |-> nonce]
  <1>1. t \in Terminal /\ Types /\ \A p \in Terminal : p = t
    BY DEF Store
  <1>2. /\ UNCHANGED files
        /\ job'[t].cmd = "register" /\ job'[t].done = 0
        /\ out.voter = [id |-> id, draw |-> draw]
        /\ authority \in Authority /\ out.authority \in Authority
        /\ Known(out.authority) = Known(authority) \cup {id}
        /\ id \notin Known(authority)
        /\ \A v \in Known(authority) : out.authority.secrets[v] = authority.secrets[v]
        /\ out.authority.secrets[id].nonce = nonce
        /\ out.records = Append(records, row) /\ row \in Row
        /\ records \in Seq(Row) /\ params \in Thresholds
    <2>1. NewShares(nonce).nonce = nonce
      BY DEF NewShares
    <2> HIDE DEF row
    <2>2. /\ UNCHANGED files
          /\ job'[t].cmd = "register" /\ job'[t].done = 0
          /\ out.voter = [id |-> id, draw |-> draw]
          /\ authority \in Authority /\ out.authority \in Authority
          /\ Known(out.authority) = Known(authority) \cup {id}
          /\ id \notin Known(authority)
          /\ \A v \in Known(authority) : out.authority.secrets[v] = authority.secrets[v]
          /\ out.authority.secrets[id] = NewShares(nonce)
          /\ records \in Seq(Row) /\ params \in Thresholds
      BY <1>1, Registers, ZenonT(40)
    <2>3. out.records = Append(records, row) /\ row \in Row
      BY <1>1, Registers, ZenonT(40) DEF row
    <2> QED BY <2>1, <2>2, <2>3
  <1>3. NewRow(out) = row
    BY <1>2 DEF NewRow
  <1>4. KeepsNonces(authority, out.authority)
    BY <1>2 DEF KeepsNonces
  <1>5. params # NoFile /\ records # NoFile
    BY <1>2, NoFileAssumption DEF MayCutAndChoose
  <1>6. /\ params' = params /\ authority' = authority /\ records' = records /\ voter' = voter
    BY <1>2 DEF files
  <1>7. Registering(t)'
    <2> HIDE DEF row
    <2>1. out.voter.id = id
      BY <1>2
    <2> QED BY <1>2, <1>3, <1>4, <1>5, <1>6, <2>1 DEF Registering
  <1>8. Rows' = Rows /\ RowsAreBacked'
    BY <1>2, SameFiles DEF Store
  <1> QED BY <1>1, <1>2, <1>5, <1>6, <1>7, <1>8 DEF Store

\* One shell keeps the store, whatever it does and wherever it is killed.
LEMMA StoreNext ==
  ASSUME NEW t, Terminal = {t}, Store, [Next]_vars
  PROVE  Store'
  <1>1. Types /\ Types' /\ t \in Terminal /\ \A p \in Terminal : p = t
    BY TypesNext DEF Store
  <1>2. ASSUME UNCHANGED files, job'[t].cmd \in {"none", "finalize"}
        PROVE  Store'
    <2>1. Rows' = Rows /\ RowsAreBacked'
      BY <1>2, SameFiles DEF Store
    <2> QED BY <1>1, <1>2, <2>1 DEF Store, files
  <1>3. ASSUME UNCHANGED files, job' = job
        PROVE  Store'
    <2>1. Rows' = Rows /\ RowsAreBacked'
      BY <1>3, SameFiles DEF Store
    <2>2. \A p \in Terminal :
            /\ SettingUp(p) => SettingUp(p)'
            /\ Registering(p) => Registering(p)'
            /\ Sharing(p) => Sharing(p)'
      BY <1>3, SameFiles
    <2> QED BY <1>1, <1>3, <2>1, <2>2 DEF Store, files
  <1>4. ASSUME NEW th \in Thresholds, Setup(t, th)
        PROVE  Store'
    <2>1. /\ UNCHANGED files /\ params = NoFile
          /\ job'[t].cmd = "setup" /\ job'[t].done = 0
          /\ job'[t].out.params = th
          /\ job'[t].out.authority = NewAuthority(th)
          /\ NewAuthority(th) \in Authority /\ Known(NewAuthority(th)) = {}
          /\ job'[t].out.records = <<>>
      BY <1>1, <1>4, SetsUp
    <2>2. Rows' = Rows /\ RowsAreBacked' /\ Rows = {}
      BY <2>1, SameFiles DEF Store
    <2>3. SettingUp(t)'
      BY <2>1, <2>2 DEF SettingUp, files
    <2> QED BY <1>1, <2>1, <2>2, <2>3 DEF Store, files
  <1>5. ASSUME NEW th \in Thresholds, ShareNonces(t, th)
        PROVE  Store'
    <2> DEFINE out == job'[t].out
    <2>1. /\ UNCHANGED files /\ params \in Thresholds
          /\ job'[t].cmd = "share" /\ out.params = th
          /\ authority \in Authority /\ out.authority \in Authority
          /\ Known(out.authority) = Known(authority)
          /\ \A v \in Known(authority) :
               out.authority.secrets[v].nonce = authority.secrets[v].nonce
      BY <1>1, <1>5, Shared
    <2>2. Rows' = Rows /\ RowsAreBacked'
      BY <2>1, SameFiles DEF Store
    <2>3. KeepsNonces(authority, out.authority)
      BY <2>1 DEF KeepsNonces
    <2>4. Sharing(t)'
      BY <2>1, <2>3, NoFileAssumption DEF Sharing, files
    <2> QED BY <1>1, <2>1, <2>2, <2>4 DEF Store, files
  <1>6. ASSUME NEW id \in VoterId, NEW draw \in Draw, NEW nonce \in Draw,
               MayCutAndChoose(id), Register(t, id, draw, nonce)
        PROVE  Store'
    BY <1>1, <1>6, StoreRegisters
  <1>7. UNCHANGED <<files, job, crashes>> \/ UNCHANGED vars => UNCHANGED files /\ job' = job
    BY DEF vars, files
  <1>8. ASSUME FinalizeRegistration(t)
        PROVE  Store'
    BY <1>1, <1>2, <1>8, Finalizes
  <1>9. ASSUME WriteFile(t)
        PROVE  Store'
    BY <1>9, StoreWrites
  <1>10. ASSUME Crash(t)
         PROVE  Store'
    <2>1. UNCHANGED files /\ job'[t].cmd = "none"
      BY <1>1, <1>10 DEF Crash, Types, Idle
    <2> QED BY <1>2, <2>1
  <1> QED BY <1>1, <1>3, <1>4, <1>5, <1>6, <1>7, <1>8, <1>9, <1>10, OneShell

\* The store holds from the start.
LEMMA StoreInvariant ==
  ASSUME NEW t, Terminal = {t}
  PROVE  Spec => []Store
  <1>1. Init => Store
    BY TypesInit DEF Init, Store, Rows, RowsAreBacked, Idle
  <1>2. Store /\ [Next]_vars => Store'
    BY StoreNext
  <1> QED BY <1>1, <1>2, PTL DEF Spec

\* A public row is never without the two secrets that open it, in the middle of
\* every command and after every crash.
THEOREM RowsAreAlwaysBacked ==
  ASSUME NEW t, Terminal = {t}
  PROVE  Spec => []RowsAreBacked
  <1>1. Store => RowsAreBacked
    BY DEF Store
  <1> QED BY <1>1, StoreInvariant, PTL

-----------------------------------------------------------------------------
(* The finalized table.                                                     *)

\* A registration and a setup find no table, and the table is that of the
\* records, which nothing else changes.
Frozen ==
  /\ Store
  /\ registration # NoFile => params # NoFile /\ registration = TableOf(records)
  /\ \A p \in Terminal :
       /\ job[p].cmd \in {"setup", "register"} => registration = NoFile
       /\ job[p].cmd = "finalize" =>
            params # NoFile /\ job[p].out.registration = TableOf(records)

\* A step of one shell keeps that, and the table.
LEMMA FrozenNext ==
  ASSUME NEW t, Terminal = {t}, Frozen, [Next]_vars
  PROVE  Frozen' /\ (registration # NoFile => registration' = registration)
  <1>1. Store /\ Store' /\ Types /\ t \in Terminal /\ \A p \in Terminal : p = t
    BY StoreNext DEF Frozen, Store
  <1>2. ASSUME UNCHANGED files, job'[t].cmd \in {"none", "share"} \/ job' = job
        PROVE  Frozen' /\ (registration # NoFile => registration' = registration)
    BY <1>1, <1>2 DEF Frozen, files
  <1>3. ASSUME NEW th \in Thresholds, Setup(t, th)
        PROVE  Frozen' /\ (registration # NoFile => registration' = registration)
    <2>1. UNCHANGED files /\ job'[t].cmd = "setup" /\ params = NoFile
      BY <1>1, <1>3, SetsUp
    <2> QED BY <1>1, <2>1 DEF Frozen, files
  <1>4. ASSUME NEW th \in Thresholds, ShareNonces(t, th)
        PROVE  Frozen' /\ (registration # NoFile => registration' = registration)
    BY <1>1, <1>2, <1>4, Shared
  <1>5. ASSUME NEW id \in VoterId, NEW draw \in Draw, NEW nonce \in Draw,
               MayCutAndChoose(id), Register(t, id, draw, nonce)
        PROVE  Frozen' /\ (registration # NoFile => registration' = registration)
    <2>1. UNCHANGED files /\ job'[t].cmd = "register" /\ registration = NoFile
      BY <1>1, <1>5, Registers
    <2> QED BY <1>1, <2>1 DEF Frozen, files
  <1>6. ASSUME FinalizeRegistration(t)
        PROVE  Frozen' /\ (registration # NoFile => registration' = registration)
    <2>1. /\ UNCHANGED files /\ job'[t].cmd = "finalize"
          /\ job'[t].out.registration = TableOf(records) /\ params # NoFile
      BY <1>1, <1>6, Finalizes, NoFileAssumption
    <2> QED BY <1>1, <2>1 DEF Frozen, files
  <1>7. ASSUME WriteFile(t)
        PROVE  Frozen' /\ (registration # NoFile => registration' = registration)
    <2>1. CASE job[t].cmd \in {"setup", "register"}
      <3>1. registration = NoFile /\ registration' = NoFile
        BY <1>1, <1>7, <2>1, Writes DEF Frozen
      <3>2. job'[t].cmd = "none" \/ job'[t].cmd = job[t].cmd
        BY <1>1, <1>7, NextWrite
      <3> QED BY <1>1, <2>1, <3>1, <3>2 DEF Frozen
    <2>2. CASE job[t].cmd = "share"
      <3>1. job[t].out.params \in Thresholds
        BY <1>1, <2>2 DEF Store, Sharing
      <3>2. UNCHANGED <<records, registration>> /\ (params' = params \/ params' # NoFile)
        BY <1>1, <1>7, <2>2, <3>1, Writes, NoFileAssumption
      <3>3. job'[t].cmd = "none" \/ job'[t].cmd = "share"
        BY <1>1, <1>7, <2>2, NextWrite
      <3> QED BY <1>1, <3>2, <3>3 DEF Frozen
    <2>3. CASE job[t].cmd = "finalize"
      <3>1. /\ registration' = job[t].out.registration
            /\ UNCHANGED <<params, records>> /\ job'[t].cmd = "none"
        BY <1>1, <1>7, <2>3, Writes DEF Idle
      <3> QED BY <1>1, <2>3, <3>1 DEF Frozen
    <2> QED BY <1>1, <1>7, <2>1, <2>2, <2>3, Writes
  <1>8. ASSUME Crash(t)
        PROVE  Frozen' /\ (registration # NoFile => registration' = registration)
    <2>1. UNCHANGED files /\ job'[t].cmd = "none"
      BY <1>1, <1>8 DEF Crash, Types, Idle
    <2> QED BY <1>2, <2>1
  <1>9. UNCHANGED <<files, job, crashes>> \/ UNCHANGED vars => UNCHANGED files /\ job' = job
    BY DEF vars, files
  <1> QED BY <1>1, <1>2, <1>3, <1>4, <1>5, <1>6, <1>7, <1>8, <1>9, OneShell

\* A published table is never changed by a later command.
THEOREM FinalizedIsAlwaysFrozen ==
  ASSUME NEW t, Terminal = {t}
  PROVE  Spec => FinalizedIsFrozen
  <1>1. Init => Frozen
    <2>1. Init => Store
      BY TypesInit DEF Init, Store, Rows, RowsAreBacked, Idle
    <2> QED BY <2>1 DEF Init, Frozen, Idle
  <1>2. Frozen /\ [Next]_vars => Frozen'
    BY FrozenNext
  <1>3. Frozen /\ [Next]_vars => [registration # NoFile => registration' = registration]_vars
    BY FrozenNext
  <1> QED BY <1>1, <1>2, <1>3, PTL DEF Spec, FinalizedIsFrozen

-----------------------------------------------------------------------------
(* Cut-and-choose.                                                          *)

\* The nonces the authority holds or is about to, the voters' draws likewise.
NoncesAbout ==
  {n \in Draw :
     \/ authority \in Authority
          /\ \E id \in Known(authority) : authority.secrets[id].nonce = n
     \/ \E p \in Terminal : job[p].cmd = "register" /\ NewRow(job[p].out).nonce = n}

DrawsAbout ==
  {d \in Draw :
     \/ \E id \in VoterId : voter[id] = d
     \/ \E p \in Terminal : job[p].cmd = "register" /\ job[p].out.voter.draw = d}

\* Numbers are drawn once: what an audit has opened, and all of a registration
\* that failed, is about in no file and in no running command.
Spent ==
  /\ Store
  /\ NoncesAbout \subseteq 1..drawn /\ DrawsAbout \subseteq 1..drawn
  /\ \A a \in audits :
       /\ a.voter <= drawn /\ a.kept <= drawn /\ a.opened \subseteq 1..drawn
       /\ a.opened \cap NoncesAbout = {}
       /\ a.corrupt \notin {0, a.kept} =>
            a.kept \notin NoncesAbout /\ a.voter \notin DrawsAbout

\* Files and commands hold no number that was not drawn for a registration.
LEMMA SameNumbers ==
  ASSUME UNCHANGED files,
         \A p \in Terminal : job'[p] = job[p] \/ job'[p].cmd # "register"
  PROVE  NoncesAbout' \subseteq NoncesAbout /\ DrawsAbout' \subseteq DrawsAbout
  BY DEF files, NoncesAbout, DrawsAbout

\* A write moves numbers from a command to a file.
LEMMA WritesNoNumber ==
  ASSUME NEW t, Terminal = {t}, Store, WriteFile(t)
  PROVE  NoncesAbout' \subseteq NoncesAbout /\ DrawsAbout' \subseteq DrawsAbout
  <1> DEFINE out == job[t].out
  <1>1. /\ Types /\ t \in Terminal /\ \A p \in Terminal : p = t
        /\ job[t].cmd = "setup" => SettingUp(t)
        /\ job[t].cmd = "register" => Registering(t)
        /\ job[t].cmd = "share" => Sharing(t)
    BY DEF Store
  <1>2. \/ job'[t].cmd # "register"
        \/ job[t].cmd = "register" /\ job'[t].cmd = "register" /\ job'[t].out = out
    BY <1>1, NextWrite
  <1>3. ASSUME NEW n \in Draw, authority' \in Authority,
               NEW id \in Known(authority'), authority'.secrets[id].nonce = n
        PROVE  n \in NoncesAbout
    <2>1. CASE authority' = authority
      BY <1>3, <2>1 DEF NoncesAbout
    <2>2. CASE job[t].cmd = "setup" /\ authority' = out.authority
      BY <1>1, <1>3, <2>2 DEF SettingUp
    <2>3. CASE job[t].cmd = "register" /\ authority' = out.authority
      <3>1. CASE id \in Known(authority)
        BY <1>1, <1>3, <2>3, <3>1 DEF Registering, KeepsNonces, NoncesAbout
      <3>2. CASE id \notin Known(authority)
        <4>1. id = out.voter.id
          BY <1>1, <1>3, <2>3, <3>2 DEF Registering
        <4>2. NewRow(out).nonce = n
          BY <1>3, <2>3, <4>1 DEF NewRow
        <4> QED BY <1>1, <2>3, <4>2 DEF NoncesAbout
      <3> QED BY <3>1, <3>2
    <2>4. CASE job[t].cmd = "share" /\ authority' = out.authority
      BY <1>1, <1>3, <2>4 DEF Sharing, KeepsNonces, NoncesAbout
    <2> QED BY <1>1, <2>1, <2>2, <2>3, <2>4, Writes
  <1>4. NoncesAbout' \subseteq NoncesAbout
    <2> SUFFICES ASSUME NEW n \in NoncesAbout'
                 PROVE  n \in NoncesAbout
      OBVIOUS
    <2>1. CASE authority' \in Authority
                 /\ \E id \in Known(authority') : authority'.secrets[id].nonce = n
      BY <1>3, <2>1 DEF NoncesAbout
    <2>2. CASE \E p \in Terminal : job'[p].cmd = "register" /\ NewRow(job'[p].out).nonce = n
      BY <1>1, <1>2, <2>2 DEF NoncesAbout
    <2> QED BY <2>1, <2>2 DEF NoncesAbout
  <1>5. DrawsAbout' \subseteq DrawsAbout
    <2> SUFFICES ASSUME NEW d \in DrawsAbout'
                 PROVE  d \in DrawsAbout
      OBVIOUS
    <2>1. d \in Draw
      BY DEF DrawsAbout
    <2>2. CASE \E id \in VoterId : voter'[id] = d
      <3>1. PICK id \in VoterId : voter'[id] = d
        BY <2>2
      <3>2. CASE voter'[id] = voter[id]
        BY <2>1, <3>1, <3>2 DEF DrawsAbout
      <3>3. CASE voter'[id] # voter[id]
        <4>1. /\ job[t].cmd = "register"
              /\ voter' = [voter EXCEPT ![out.voter.id] = out.voter.draw]
          BY <1>1, <3>3, Writes
        <4>2. voter'[id] = out.voter.draw
          BY <1>1, <3>3, <4>1 DEF Types
        <4> QED BY <1>1, <2>1, <3>1, <4>1, <4>2 DEF DrawsAbout
      <3> QED BY <3>2, <3>3
    <2>3. CASE \E p \in Terminal : job'[p].cmd = "register" /\ job'[p].out.voter.draw = d
      BY <1>1, <1>2, <2>1, <2>3 DEF DrawsAbout
    <2> QED BY <2>2, <2>3 DEF DrawsAbout
  <1> QED BY <1>4, <1>5

\* A registration brings in its own draw and nonce.
LEMMA RegistersNumbers ==
  ASSUME NEW t, Terminal = {t}, Types,
         NEW id \in VoterId, NEW draw \in Draw, NEW nonce \in Draw,
         MayCutAndChoose(id), Register(t, id, draw, nonce)
  PROVE  /\ NoncesAbout' \subseteq NoncesAbout \cup {nonce}
         /\ DrawsAbout' \subseteq DrawsAbout \cup {draw}
  <1> DEFINE out == job'[t].out
  <1>1. /\ UNCHANGED files /\ out.voter = [id |-> id, draw |-> draw]
        /\ out.authority.secrets[id] = NewShares(nonce)
        /\ \A p \in Terminal : p = t
    <2>1. t \in Terminal /\ \A p \in Terminal : p = t
      OBVIOUS
    <2> QED BY <2>1, Registers, ZenonT(40)
  <1>2. NewRow(out).nonce = nonce /\ out.voter.draw = draw
    <2>1. NewShares(nonce).nonce = nonce
      BY DEF NewShares
    <2> QED BY <1>1, <2>1 DEF NewRow
  <1> QED BY <1>1, <1>2 DEF NoncesAbout, DrawsAbout, files

\* Every step of one shell keeps spent numbers out.
LEMMA SpentNext ==
  ASSUME NEW t, Terminal = {t}, Spent, [Next]_vars
  PROVE  Spent'
  <1>1. /\ Store /\ Store' /\ Types /\ t \in Terminal /\ \A p \in Terminal : p = t
        /\ drawn \in Nat /\ audits \subseteq Audit
    <2>1. Store /\ Types
      BY DEF Spent, Store
    <2>2. drawn \in Nat /\ audits \subseteq Audit
      BY <2>1, BoundsAssumption DEF Types
    <2> QED BY <2>1, <2>2, StoreNext
  <1>2. ASSUME UNCHANGED <<audits, drawn>>,
               NoncesAbout' \subseteq NoncesAbout, DrawsAbout' \subseteq DrawsAbout
        PROVE  Spent'
    BY <1>1, <1>2 DEF Spent
  <1>3. ASSUME UNCHANGED <<audits, drawn>>, UNCHANGED files,
               job'[t] = job[t] \/ job'[t].cmd # "register"
        PROVE  Spent'
    BY <1>1, <1>2, <1>3, SameNumbers
  <1>4. ASSUME NEW th \in Thresholds, Setup(t, th) \/ ShareNonces(t, th)
        PROVE  Spent'
    BY <1>1, <1>3, <1>4, SetsUp, Shared
  <1>5. ASSUME NEW id \in VoterId, NEW draw \in Draw, draw = drawn', drawn' = drawn + 1,
               UNCHANGED audits, MayCutAndChoose(id), Register(t, id, draw, draw)
        PROVE  Spent'
    <2>1. /\ NoncesAbout' \subseteq NoncesAbout \cup {draw}
          /\ DrawsAbout' \subseteq DrawsAbout \cup {draw}
      BY <1>1, <1>5, RegistersNumbers
    <2>2. /\ NoncesAbout' \subseteq 1..drawn' /\ DrawsAbout' \subseteq 1..drawn'
      BY <1>1, <1>5, <2>1 DEF Spent
    <2>3. ASSUME NEW a \in audits
          PROVE  /\ a.voter <= drawn' /\ a.kept <= drawn' /\ a.opened \subseteq 1..drawn'
                 /\ a.voter # draw /\ a.kept # draw /\ draw \notin a.opened
      <3>1. /\ a.voter \in Int /\ a.kept \in Int
            /\ a.voter <= drawn /\ a.kept <= drawn /\ a.opened \subseteq 1..drawn
        BY <1>1 DEF Spent, Audit, Draw
      <3> QED BY <1>1, <1>5, <3>1
    <2> QED BY <1>1, <1>5, <2>1, <2>2, <2>3 DEF Spent
  <1>6. ASSUME drawn' \in 0..MaxDraws, drawn' > drawn, NEW a \in Audit,
               audits' = audits \cup {a},
               a.voter \in (drawn + 1)..drawn', a.kept \in (drawn + 1)..drawn',
               a.opened \subseteq (drawn + 1)..drawn', a.kept \notin a.opened,
               \/ UNCHANGED <<files, job, crashes>>
               \/ /\ a.corrupt \in {0, a.kept}
                  /\ \E id \in VoterId, draw \in Draw, nonce \in Draw :
                       /\ draw = a.voter /\ nonce = a.kept
                       /\ MayCutAndChoose(id) /\ Register(t, id, draw, nonce)
        PROVE  Spent'
    <2>1. drawn' \in Nat /\ a.voter \in 1..drawn' /\ a.kept \in 1..drawn'
            /\ a.opened \subseteq 1..drawn'
      BY <1>1, <1>6, BoundsAssumption
    <2>2. /\ NoncesAbout' \subseteq NoncesAbout \cup {a.kept}
          /\ DrawsAbout' \subseteq DrawsAbout \cup {a.voter}
          /\ a.corrupt \notin {0, a.kept} =>
               NoncesAbout' \subseteq NoncesAbout /\ DrawsAbout' \subseteq DrawsAbout
      <3>1. CASE UNCHANGED <<files, job, crashes>>
        BY <3>1, SameNumbers
      <3>2. CASE ~ UNCHANGED <<files, job, crashes>>
        <4>1. PICK id \in VoterId, draw \in Draw, nonce \in Draw :
                /\ draw = a.voter /\ nonce = a.kept
                /\ MayCutAndChoose(id) /\ Register(t, id, draw, nonce)
          BY <1>6, <3>2
        <4> QED BY <1>1, <1>6, <3>2, <4>1, RegistersNumbers
      <3> QED BY <3>1, <3>2
    <2>3. \A n \in (drawn + 1)..drawn' : n \notin NoncesAbout /\ n \notin DrawsAbout
      BY <1>1, <2>1 DEF Spent
    <2>4. NoncesAbout' \subseteq 1..drawn' /\ DrawsAbout' \subseteq 1..drawn'
      <3>1. 1..drawn \subseteq 1..drawn'
        BY <1>1, <1>6, <2>1
      <3> QED BY <2>1, <2>2, <3>1 DEF Spent
    <2>5. ASSUME NEW b \in audits
          PROVE  /\ b.voter <= drawn' /\ b.kept <= drawn' /\ b.opened \subseteq 1..drawn'
                 /\ a.kept \notin b.opened /\ a.kept # b.kept /\ a.voter # b.voter
      <3>1. /\ b.voter \in Int /\ b.kept \in Int
            /\ b.voter <= drawn /\ b.kept <= drawn /\ b.opened \subseteq 1..drawn
        BY <1>1 DEF Spent, Audit, Draw
      <3> QED BY <1>1, <1>6, <2>1, <3>1
    <2>6. /\ a.opened \cap NoncesAbout' = {}
          /\ a.corrupt \notin {0, a.kept} =>
               a.kept \notin NoncesAbout' /\ a.voter \notin DrawsAbout'
      BY <1>6, <2>2, <2>3
    <2>7. ASSUME NEW b \in audits
          PROVE  /\ b.opened \cap NoncesAbout' = {}
                 /\ b.corrupt \notin {0, b.kept} =>
                      b.kept \notin NoncesAbout' /\ b.voter \notin DrawsAbout'
      BY <2>2, <2>5 DEF Spent
    <2>8. a.voter <= drawn' /\ a.kept <= drawn'
      BY <2>1
    <2> QED BY <1>1, <1>6, <2>1, <2>4, <2>5, <2>6, <2>7, <2>8 DEF Spent
  <1>7. ASSUME FinalizeRegistration(t)
        PROVE  Spent'
    BY <1>1, <1>3, <1>7, Finalizes
  <1>8. ASSUME WriteFile(t)
        PROVE  Spent'
    BY <1>1, <1>2, <1>8, Writes, WritesNoNumber
  <1>9. ASSUME Crash(t)
        PROVE  Spent'
    BY <1>1, <1>3, <1>9 DEF Crash, Types, Idle
  <1>10. CASE UNCHANGED vars
    BY <1>3, <1>10 DEF vars, files
  <1> QED BY <1>1, <1>4, <1>5, <1>6, <1>7, <1>8, <1>9, <1>10, OneShell

\* A nonce an audit has opened is never one the authority counts with, and an
\* audit that caught the authority leaves nothing of its registration behind.
THEOREM AuditedPairsAreAlwaysSpent ==
  ASSUME NEW t, Terminal = {t}
  PROVE  Spec => []AuditedPairsAreSpent
  <1>1. Init => Spent
    <2> SUFFICES ASSUME Init PROVE Spent
      OBVIOUS
    <2>1. Store
      BY TypesInit DEF Init, Store, Rows, RowsAreBacked, Idle
    <2>2. \A p \in Terminal : job[p].cmd # "register"
      BY DEF Init, Idle
    <2>3. NoncesAbout = {}
      BY <2>2, NoFileAssumption DEF Init, NoncesAbout
    <2>4. DrawsAbout = {}
      <3>1. \A id \in VoterId : voter[id] = 0
        BY DEF Init
      <3> QED BY <2>2, <3>1 DEF DrawsAbout, Draw
    <2> QED BY <2>1, <2>3, <2>4 DEF Init, Spent
  <1>2. Spent /\ [Next]_vars => Spent'
    BY SpentNext
  <1>3. Spent => AuditedPairsAreSpent
    <2> SUFFICES ASSUME Spent, NEW a \in audits
                 PROVE  /\ a.opened \cap NoncesInUse = {}
                        /\ a.corrupt \notin {0, a.kept} =>
                             /\ a.kept \notin NoncesInUse
                             /\ \A id \in VoterId : voter[id] # a.voter
      BY DEF AuditedPairsAreSpent
    <2>1. Store /\ Types /\ a \in Audit
      BY DEF Spent, Store, Types
    <2>2. NoncesInUse \subseteq NoncesAbout
      <3>1. ASSUME NEW row \in Rows
            PROVE  row.nonce \in NoncesAbout
        <4>1. authority \in Authority /\ row \in Row
          <5>1. records \in Seq(Row)
            BY <2>1 DEF Types, Rows
          <5> QED BY <2>1, <5>1, RowsAre DEF Store
        <4> QED BY <2>1, <4>1 DEF Store, RowsAreBacked, NoncesAbout, Row
      <3>2. ASSUME authority # NoFile, NEW id \in Known(authority)
            PROVE  authority.secrets[id].nonce \in NoncesAbout
        <4>1. authority \in Authority
          BY <2>1, <3>2 DEF Types
        <4>2. authority.secrets \in Secrets
          BY <4>1 DEF Authority
        <4>3. authority.secrets[id] \in Shares
          BY <3>2, <4>2, SecretsAre DEF Known
        <4> QED BY <3>2, <4>1, <4>3 DEF NoncesAbout, Shares
      <3> QED BY <3>1, <3>2 DEF NoncesInUse
    <2>3. ASSUME NEW id \in VoterId, voter[id] = a.voter
          PROVE  a.voter \in DrawsAbout
      BY <2>1, <2>3 DEF Audit, DrawsAbout
    <2> QED BY <2>2, <2>3 DEF Spent
  <1> QED BY <1>1, <1>2, <1>3, PTL DEF Spec

-----------------------------------------------------------------------------
(* Recovering the nonces.                                                   *)

\* An authority all of whose shares were dealt under its own threshold.
InForce(auth) ==
  /\ ValidThreshold(auth.threshold)
  /\ \A id \in Known(auth) :
       /\ auth.secrets[id].t = auth.threshold[1]
       /\ auth.secrets[id].k = auth.threshold[2]

\* Without a crash the public threshold is that of the authority, except
\* between the two writes of a re-sharing.
Coherent ==
  /\ authority \in Authority => InForce(authority)
  /\ \/ authority \in Authority => params = authority.threshold
     \/ \E p \in Terminal : job[p].cmd = "share" /\ job[p].done = 1
  /\ \A p \in Terminal :
       LET out == job[p].out
       IN  /\ job[p].cmd \in {"setup", "share"} =>
                /\ InForce(out.authority) /\ out.authority.threshold = out.params
                /\ job[p].done >= 1 => params = out.params
           /\ job[p].cmd = "register" =>
                /\ InForce(out.authority) /\ out.authority.threshold = params

Recovers == Store /\ (crashes = 0 => Coherent)

\* Every step of one shell keeps the thresholds together, unless it is killed.
LEMMA RecoversNext ==
  ASSUME NEW t, Terminal = {t}, Recovers, [Next]_vars
  PROVE  Recovers'
  <1>1. /\ Store /\ Store' /\ Types /\ t \in Terminal /\ \A p \in Terminal : p = t
        /\ crashes \in Nat
    <2>1. Store /\ Types
      BY DEF Recovers, Store
    <2>2. crashes \in Nat
      BY <2>1, BoundsAssumption DEF Types
    <2> QED BY <2>1, <2>2, StoreNext
  <1>2. ASSUME crashes' = crashes, Coherent => Coherent'
        PROVE  Recovers'
    BY <1>1, <1>2 DEF Recovers
  <1>3. ASSUME UNCHANGED files, crashes' = crashes,
               job'[t].cmd = "finalize" \/ job' = job, job[t] = Idle \/ job' = job
        PROVE  Recovers'
    BY <1>1, <1>2, <1>3 DEF Coherent, files, Idle
  <1>4. ASSUME NEW th \in Thresholds, Setup(t, th)
        PROVE  Recovers'
    <2>1. /\ UNCHANGED <<files, crashes>> /\ job[t] = Idle
          /\ job'[t].cmd = "setup" /\ job'[t].done = 0
          /\ job'[t].out.params = th /\ job'[t].out.authority = NewAuthority(th)
          /\ Known(NewAuthority(th)) = {}
      BY <1>1, <1>4, SetsUp
    <2>2. InForce(NewAuthority(th)) /\ NewAuthority(th).threshold = th
      BY <1>4, <2>1 DEF Setup, InForce, NewAuthority
    <2> QED BY <1>1, <1>2, <2>1, <2>2 DEF Coherent, files, Idle
  <1>5. ASSUME NEW th \in Thresholds, ShareNonces(t, th)
        PROVE  Recovers'
    <2> DEFINE out == job'[t].out
    <2>1. /\ UNCHANGED <<files, crashes>> /\ job[t] = Idle
          /\ job'[t].cmd = "share" /\ job'[t].done = 0
          /\ out.params = th /\ out.authority.threshold = th
          /\ Known(out.authority) = Known(authority)
          /\ \A v \in Known(authority) :
               /\ out.authority.secrets[v].t = th[1]
               /\ out.authority.secrets[v].k = th[2]
      BY <1>1, <1>5, Shared
    <2>2. InForce(out.authority)
      BY <1>5, <2>1 DEF ShareNonces, InForce
    <2> QED BY <1>1, <1>2, <2>1, <2>2 DEF Coherent, files, Idle
  <1>6. ASSUME NEW id \in VoterId, NEW draw \in Draw, NEW nonce \in Draw,
               MayCutAndChoose(id), Register(t, id, draw, nonce)
        PROVE  Recovers'
    <2> DEFINE out == job'[t].out
    <2>1. /\ UNCHANGED <<files, crashes>> /\ job[t] = Idle
          /\ job'[t].cmd = "register" /\ authority \in Authority
          /\ out.authority.threshold = authority.threshold
          /\ Known(out.authority) = Known(authority) \cup {id}
          /\ \A v \in Known(authority) : out.authority.secrets[v] = authority.secrets[v]
          /\ out.authority.secrets[id] = NewShares(nonce)
      BY <1>1, <1>6, Registers, ZenonT(40)
    <2>2. NewShares(nonce).t = params[1] /\ NewShares(nonce).k = params[2]
      BY DEF NewShares
    <2>3. ASSUME Coherent
          PROVE  InForce(out.authority) /\ out.authority.threshold = params
      <3>1. InForce(authority) /\ params = authority.threshold
        BY <1>1, <2>1, <2>3 DEF Coherent, Idle
      <3> QED BY <2>1, <2>2, <3>1 DEF InForce
    <2> QED BY <1>1, <1>2, <2>1, <2>3 DEF Coherent, files, Idle
  <1>7. ASSUME FinalizeRegistration(t)
        PROVE  Recovers'
    BY <1>1, <1>3, <1>7, Finalizes
  <1>8. ASSUME WriteFile(t)
        PROVE  Recovers'
    <2> DEFINE out == job[t].out
    <2>1. /\ crashes' = crashes
          /\ job[t].cmd = "setup" => SettingUp(t)
          /\ job[t].cmd = "register" => Registering(t)
          /\ job[t].cmd = "share" => Sharing(t)
      BY <1>1, <1>8, Writes DEF Store
    <2>2. \/ job'[t] = Idle /\ job'[t].cmd = "none"
          \/ /\ job'[t].cmd = job[t].cmd /\ job'[t].out = out
             /\ job'[t].done \in {1, 2}
      BY <1>1, <1>8, NextWrite
    <2>3. ASSUME Coherent, job[t].cmd \in {"setup", "share"}, job[t].done = 0
          PROVE  Coherent'
      <3>1. /\ params' = out.params /\ authority' = authority
            /\ job'[t] = [job[t] EXCEPT !.done = 1]
        BY <1>1, <1>8, <2>3, Writes
      <3>2. job'[t].cmd = job[t].cmd /\ job'[t].out = out /\ job'[t].done = 1
        BY <1>1, <3>1 DEF Types, Job
      <3>3. job[t].cmd = "setup" => authority \notin Authority
        BY <1>1, <2>1, <2>3, NoFileAssumption DEF Store, SettingUp
      <3> QED BY <1>1, <2>3, <3>1, <3>2, <3>3, ZenonT(40) DEF Coherent
    <2>4. ASSUME Coherent, job[t].cmd \in {"setup", "register", "share"}, job[t].done = 1
          PROVE  Coherent'
      <3>1. params' = params /\ authority' = out.authority
        BY <1>1, <1>8, <2>4, Writes
      <3>2. InForce(out.authority) /\ out.authority.threshold = params
        BY <1>1, <2>4 DEF Coherent
      <3>3. CASE job[t].cmd = "share"
        <4>1. job'[t].cmd = "none"
          BY <1>1, <1>8, <2>4, <3>3, Writes DEF Idle
        <4> QED BY <1>1, <3>1, <3>2, <4>1 DEF Coherent
      <3>4. CASE job[t].cmd # "share"
        BY <1>1, <2>2, <2>4, <3>1, <3>2, <3>4 DEF Coherent
      <3> QED BY <3>3, <3>4
    <2>5. ASSUME Coherent, UNCHANGED <<params, authority>>,
                 ~ (job[t].cmd = "share" /\ job[t].done = 1),
                 ~ (job[t].cmd \in {"setup", "share"} /\ job[t].done = 0)
          PROVE  Coherent'
      <3>1. job[t].cmd = "setup" => job[t].done >= 1
        BY <1>1, <2>5 DEF Types, Job
      <3>2. job[t].cmd = "share" => FALSE
        BY <1>1, <1>8, <2>5, Writes
      <3> QED BY <1>1, <2>2, <2>5, <3>1, <3>2 DEF Coherent
    <2>6. \/ job[t].cmd \in {"setup", "share"} /\ job[t].done = 0
          \/ job[t].cmd \in {"setup", "register", "share"} /\ job[t].done = 1
          \/ UNCHANGED <<params, authority>>
      BY <1>1, <1>8, Writes
    <2>7. Coherent => Coherent'
      BY <2>3, <2>4, <2>5, <2>6
    <2> QED BY <1>2, <2>1, <2>7
  <1>9. ASSUME Crash(t)
        PROVE  Recovers'
    BY <1>1, <1>9 DEF Crash, Recovers
  <1>10. UNCHANGED <<files, job, crashes>> \/ UNCHANGED vars =>
           UNCHANGED files /\ job' = job /\ crashes' = crashes
    BY DEF vars, files
  <1> QED BY <1>1, <1>3, <1>4, <1>5, <1>6, <1>7, <1>8, <1>9, <1>10, OneShell

\* As long as no command was killed, the tally and the judge find the nonce of
\* every row, however registrations and re-sharings alternate.
THEOREM NoncesAreAlwaysRecoverable ==
  ASSUME NEW t, Terminal = {t}
  PROVE  Spec => []NoncesRecoverable
  <1>1. Init => Recovers
    <2>1. Init => Store
      BY TypesInit DEF Init, Store, Rows, RowsAreBacked, Idle
    <2> QED BY <2>1, NoFileAssumption DEF Init, Recovers, Coherent, Idle
  <1>2. Recovers /\ [Next]_vars => Recovers'
    BY RecoversNext
  <1>3. Recovers => NoncesRecoverable
    <2> SUFFICES ASSUME Recovers, crashes = 0, NEW row \in Rows
                 PROVE  /\ DirectNonce(authority, row.id) = row.nonce
                        /\ QuorumNonce(authority, row.id) = row.nonce
      BY DEF NoncesRecoverable
    <2>1. /\ authority \in Authority /\ row.id \in Known(authority)
          /\ authority.secrets[row.id].nonce = row.nonce
      BY DEF Recovers, Store, RowsAreBacked
    <2>2. InForce(authority)
      BY <2>1 DEF Recovers, Coherent
    <2>3. authority.threshold[1] \in Nat /\ authority.threshold[2] \in Nat
      <3>1. authority.threshold \in Nat \X Nat
        BY <2>1, ThresholdsAssumption DEF Authority
      <3> QED BY <3>1
    <2> QED BY <2>1, <2>2, <2>3
            DEF InForce, ValidThreshold, DirectNonce, QuorumNonce, Recoverable
  <1> QED BY <1>1, <1>2, <1>3, PTL DEF Spec

-----------------------------------------------------------------------------
(* Voters left behind.                                                      *)

RowIds == {row.id : row \in Rows}

\* One registration may have its secrets written and its row not yet.
HalfRegistered(p) == job[p].cmd = "register" /\ job[p].done = 2

\* Every other voter without a row is the work of a crash.
LeftBehind ==
  /\ Store
  /\ \A p \in Terminal : job[p].cmd = "register" => job[p].out.voter.id \notin RowIds
  /\ IsFiniteSet(Stranded)
  /\ Cardinality(Stranded)
       <= crashes + Cardinality({p \in Terminal : HalfRegistered(p)})

\* The rows of a list with one more record are those and one more.
LEMMA RowIdsGrow ==
  ASSUME NEW row \in Row, records \in Seq(Row), records # NoFile,
         records' = Append(records, row)
  PROVE  RowIds' = RowIds \cup {row.id}
  <1>1. Rows' \subseteq Rows \cup {row}
    BY OneMoreRow
  <1>2. records' \in Seq(Row) /\ records' # NoFile
    BY AppendProperties, NoFileAssumption
  <1>3. /\ Len(records) \in Nat /\ DOMAIN records = 1..Len(records)
        /\ DOMAIN records' = 1..(Len(records) + 1)
        /\ \A i \in 1..Len(records) : records'[i] = records[i]
        /\ records'[Len(records) + 1] = row
    OBVIOUS
  <1>4. Rows \subseteq Rows' /\ row \in Rows'
    BY <1>2, <1>3 DEF Rows
  <1> QED BY <1>1, <1>4 DEF RowIds

\* Whom a job of the one shell counts as half registered.
LEMMA HalfCount ==
  ASSUME NEW t, Terminal = {t}
  PROVE  Cardinality({p \in Terminal : HalfRegistered(p)}) = IF HalfRegistered(t) THEN 1 ELSE 0
  <1>1. CASE HalfRegistered(t)
    <2>1. {p \in Terminal : HalfRegistered(p)} = {t}
      BY <1>1
    <2> QED BY <1>1, <2>1, FS_Singleton
  <1>2. CASE ~HalfRegistered(t)
    <2>1. {p \in Terminal : HalfRegistered(p)} = {}
      BY <1>2
    <2> QED BY <1>2, <2>1, FS_EmptySet
  <1> QED BY <1>1, <1>2

\* Whom a step may leave behind.
LEMMA LeavesBehind ==
  ASSUME NEW t, Terminal = {t}, LeftBehind, Store', crashes \in Nat, crashes' \in Nat,
         job'[t].cmd = "register" => job'[t].out.voter.id \notin RowIds',
         \/ /\ Stranded' \subseteq Stranded
            /\ \/ crashes' = crashes /\ (HalfRegistered(t) => HalfRegistered(t)')
               \/ crashes' = crashes + 1
         \/ /\ crashes' = crashes /\ ~HalfRegistered(t) /\ HalfRegistered(t)'
            /\ \E id : Stranded' \subseteq Stranded \cup {id}
         \/ /\ crashes' = crashes
            /\ \E id \in Stranded : Stranded' = Stranded \ {id}
  PROVE  LeftBehind'
  <1> DEFINE half == Cardinality({p \in Terminal : HalfRegistered(p)})
             n == Cardinality(Stranded)
             m == Cardinality(Stranded')
  <1>1. /\ half = IF HalfRegistered(t) THEN 1 ELSE 0
        /\ half' = IF HalfRegistered(t)' THEN 1 ELSE 0
    <2>1. half = IF HalfRegistered(t) THEN 1 ELSE 0
      BY HalfCount
    <2>2. half' = IF HalfRegistered(t)' THEN 1 ELSE 0
      <3>1. CASE HalfRegistered(t)'
        <4>1. {p \in Terminal : HalfRegistered(p)}' = {t}
          BY <3>1
        <4> QED BY <3>1, <4>1, FS_Singleton
      <3>2. CASE ~HalfRegistered(t)'
        <4>1. {p \in Terminal : HalfRegistered(p)}' = {}
          BY <3>2
        <4> QED BY <3>2, <4>1, FS_EmptySet
      <3> QED BY <3>1, <3>2
    <2> QED BY <2>1, <2>2
  <1>2. IsFiniteSet(Stranded) /\ n \in Nat /\ n <= crashes + half
    BY FS_CardinalityType DEF LeftBehind
  <1>3. CASE Stranded' \subseteq Stranded
              /\ \/ crashes' = crashes /\ (HalfRegistered(t) => HalfRegistered(t)')
                 \/ crashes' = crashes + 1
    <2>1. IsFiniteSet(Stranded') /\ m \in Nat /\ m <= n
      BY <1>2, <1>3, FS_Subset, FS_CardinalityType
    <2>2. m <= crashes' + half'
      BY <1>1, <1>2, <1>3, <2>1
    <2> QED BY <2>1, <2>2 DEF LeftBehind
  <1>4. CASE /\ crashes' = crashes /\ ~HalfRegistered(t) /\ HalfRegistered(t)'
             /\ \E id : Stranded' \subseteq Stranded \cup {id}
    <2>1. PICK id : Stranded' \subseteq Stranded \cup {id}
      BY <1>4
    <2>2. /\ IsFiniteSet(Stranded \cup {id})
          /\ Cardinality(Stranded \cup {id}) \in {n, n + 1}
      BY <1>2, FS_AddElement
    <2>3. IsFiniteSet(Stranded') /\ m \in Nat /\ m <= n + 1
      <3>1. IsFiniteSet(Stranded') /\ m <= Cardinality(Stranded \cup {id})
        BY <2>1, <2>2, FS_Subset
      <3> QED BY <1>2, <2>2, <3>1, FS_CardinalityType
    <2>4. m <= crashes' + half'
      BY <1>1, <1>2, <1>4, <2>3
    <2> QED BY <2>3, <2>4 DEF LeftBehind
  <1>5. CASE crashes' = crashes /\ \E id \in Stranded : Stranded' = Stranded \ {id}
    <2>1. PICK id \in Stranded : Stranded' = Stranded \ {id}
      BY <1>5
    <2>2. IsFiniteSet(Stranded') /\ m = n - 1
      BY <1>2, <2>1, FS_RemoveElement
    <2>3. m <= crashes' + half'
      BY <1>1, <1>2, <1>5, <2>2
    <2> QED BY <2>2, <2>3 DEF LeftBehind
  <1> QED BY <1>3, <1>4, <1>5

\* A row belongs to a voter the authority knows.
LEMMA RowsKnown ==
  ASSUME Store
  PROVE  RowIds \subseteq Known(authority)
  BY DEF Store, RowsAreBacked, RowIds

\* Every step of one shell.
LEMMA LeftBehindNext ==
  ASSUME NEW t, Terminal = {t}, LeftBehind, [Next]_vars
  PROVE  LeftBehind'
  <1>1. /\ Store /\ Store' /\ Types /\ t \in Terminal /\ crashes \in Nat /\ crashes' \in Nat
    <2>1. Store /\ Types
      BY DEF LeftBehind, Store
    <2>2. crashes \in Nat
      BY <2>1, BoundsAssumption DEF Types
    <2>3. Store' /\ Types'
      BY <2>1, StoreNext, TypesNext
    <2>4. crashes' \in Nat
      BY <2>3, BoundsAssumption DEF Types
    <2> QED BY <2>1, <2>2, <2>3, <2>4
  <1>2. ASSUME UNCHANGED files
        PROVE  Stranded' = Stranded /\ RowIds' = RowIds
    <2>1. Rows' = Rows
      BY <1>2, SameFiles
    <2> QED BY <1>2, <2>1 DEF files, Stranded, RowIds
  <1>3. ASSUME UNCHANGED files, crashes' = crashes, job[t] = Idle,
               job'[t].cmd = "register" =>
                 job'[t].out.voter.id \notin RowIds
        PROVE  LeftBehind'
    BY <1>1, <1>2, <1>3, LeavesBehind DEF HalfRegistered, Idle
  <1>4. ASSUME UNCHANGED files, job' = job, crashes' = crashes
        PROVE  LeftBehind'
    BY <1>1, <1>2, <1>4, LeavesBehind DEF HalfRegistered, LeftBehind
  <1>5. ASSUME NEW th \in Thresholds, Setup(t, th) \/ ShareNonces(t, th)
        PROVE  LeftBehind'
    BY <1>1, <1>3, <1>5, SetsUp, Shared
  <1>6. ASSUME NEW id \in VoterId, NEW draw \in Draw, NEW nonce \in Draw,
               MayCutAndChoose(id), Register(t, id, draw, nonce)
        PROVE  LeftBehind'
    <2>1. /\ UNCHANGED <<files, crashes>> /\ job[t] = Idle /\ id \notin Known(authority)
          /\ job'[t].out.voter = [id |-> id, draw |-> draw]
      BY <1>1, <1>6, Registers, ZenonT(40)
    <2>2. job'[t].out.voter.id \notin RowIds
      BY <1>1, <2>1, RowsKnown
    <2> QED BY <1>3, <2>1, <2>2
  <1>7. ASSUME FinalizeRegistration(t)
        PROVE  LeftBehind'
    BY <1>1, <1>3, <1>7, Finalizes
  <1>8. ASSUME WriteFile(t)
        PROVE  LeftBehind'
    <2> DEFINE out == job[t].out
               id == out.voter.id
    <2>1. /\ crashes' = crashes
          /\ job[t].cmd = "setup" => SettingUp(t)
          /\ job[t].cmd = "register" => Registering(t)
          /\ job[t].cmd = "share" => Sharing(t)
      BY <1>1, <1>8, Writes DEF Store
    <2>2. CASE job[t].cmd = "register" /\ job[t].done = 0
      <3>1. UNCHANGED <<authority, records>>
        BY <1>1, <1>8, <2>2, Writes
      <3>2. Stranded' = Stranded /\ RowIds' = RowIds
        BY <3>1, RowsAre DEF Stranded, RowIds
      <3>3. job'[t].cmd = "register" => job'[t].out.voter.id \notin RowIds'
        BY <1>1, <1>8, <2>2, <3>2, NextWrite DEF LeftBehind
      <3> QED BY <1>1, <2>1, <2>2, <3>2, <3>3, LeavesBehind DEF HalfRegistered
    <2>3. CASE job[t].cmd = "register" /\ job[t].done = 1
      <3>1. /\ authority' = out.authority /\ records' = records
            /\ job'[t] = [job[t] EXCEPT !.done = 2]
        BY <1>1, <1>8, <2>3, Writes
      <3>2. job'[t].cmd = "register" /\ job'[t].done = 2 /\ job'[t].out = out
        BY <1>1, <2>3, <3>1 DEF Types, Job
      <3>3. RowIds' = RowIds
        BY <3>1, RowsAre DEF RowIds
      <3>4. authority # NoFile /\ Known(authority') = Known(authority) \cup {id}
        BY <2>1, <2>3, <3>1, NoFileAssumption DEF Registering, KeepsNonces
      <3>5. Stranded' \subseteq Stranded \cup {id}
        BY <3>3, <3>4 DEF Stranded, RowIds
      <3>6. id \notin RowIds'
        BY <1>1, <2>3, <3>3 DEF LeftBehind
      <3>7. ~HalfRegistered(t) /\ HalfRegistered(t)'
        BY <2>3, <3>2 DEF HalfRegistered
      <3>8. \E i : Stranded' \subseteq Stranded \cup {i}
        BY <3>5
      <3> QED BY <1>1, <2>1, <3>2, <3>6, <3>7, <3>8, LeavesBehind
    <2>4. CASE job[t].cmd = "register" /\ job[t].done = 2
      <3>1. records' = out.records /\ authority' = authority /\ job'[t].cmd = "none"
        BY <1>1, <1>8, <2>4, Writes DEF Idle
      <3>2. RowIds' = RowIds \cup {id}
        <4>1. NewRow(out).id = id
          BY DEF NewRow
        <4> QED BY <2>1, <2>4, <3>1, <4>1, RowIdsGrow DEF Registering
      <3>3. authority # NoFile /\ id \in Known(authority)
        BY <2>1, <2>4, NoFileAssumption DEF Registering, KeepsNonces
      <3>4. id \in Stranded /\ Stranded' = Stranded \ {id}
        <4>1. id \notin RowIds
          BY <1>1, <2>4 DEF LeftBehind
        <4> QED BY <3>1, <3>2, <3>3, <4>1 DEF Stranded, RowIds
      <3> QED BY <1>1, <2>1, <3>1, <3>4, LeavesBehind
    <2>5. CASE job[t].cmd # "register"
      <3>1. Stranded' \subseteq Stranded
        <4>1. CASE job[t].cmd = "setup"
          <5>1. authority' = authority \/ Known(authority') = {}
            BY <1>1, <1>8, <2>1, <4>1, Writes DEF SettingUp
          <5>2. Rows = {}
            BY <2>1, <4>1 DEF SettingUp
          <5> QED BY <5>1, <5>2 DEF Stranded
        <4>2. CASE job[t].cmd = "share"
          <5>1. /\ authority # NoFile /\ Known(authority') = Known(authority)
                /\ records' = records
            BY <1>1, <1>8, <2>1, <4>2, Writes, NoFileAssumption DEF Sharing, KeepsNonces
          <5> QED BY <5>1, RowsAre DEF Stranded
        <4>3. CASE job[t].cmd = "finalize"
          <5>1. UNCHANGED <<authority, records>>
            BY <1>1, <1>8, <4>3, Writes
          <5> QED BY <5>1, RowsAre DEF Stranded
        <4> QED BY <1>1, <1>8, <2>5, <4>1, <4>2, <4>3, Writes
      <3>2. job'[t].cmd # "register"
        BY <1>1, <1>8, <2>5, NextWrite
      <3> QED BY <1>1, <2>1, <2>5, <3>1, <3>2, LeavesBehind DEF HalfRegistered
    <2> QED BY <1>1, <2>2, <2>3, <2>4, <2>5 DEF Types, Job
  <1>9. ASSUME Crash(t)
        PROVE  LeftBehind'
    <2>1. UNCHANGED files /\ crashes' = crashes + 1 /\ job'[t].cmd = "none"
      BY <1>1, <1>9 DEF Crash, Types, Idle
    <2> QED BY <1>1, <1>2, <2>1, LeavesBehind
  <1>10. UNCHANGED <<files, job, crashes>> \/ UNCHANGED vars =>
           UNCHANGED files /\ job' = job /\ crashes' = crashes
    BY DEF vars, files
  <1> QED BY <1>1, <1>4, <1>5, <1>6, <1>7, <1>8, <1>9, <1>10, OneShell

\* A crash leaves at most one voter without a row, and nothing else does.
THEOREM StrandedOnlyByCrash ==
  ASSUME NEW t, Terminal = {t}
  PROVE  Spec => []StrandedByCrash
  <1>1. Init => LeftBehind
    <2> SUFFICES ASSUME Init PROVE LeftBehind
      OBVIOUS
    <2>1. Store
      BY TypesInit DEF Init, Store, Rows, RowsAreBacked, Idle
    <2>2. Stranded = {} /\ \A p \in Terminal : job[p].cmd # "register"
      BY DEF Init, Stranded, Idle
    <2>3. {p \in Terminal : HalfRegistered(p)} = {} /\ crashes = 0
      BY <2>2 DEF Init, HalfRegistered
    <2> QED BY <2>1, <2>2, <2>3, FS_EmptySet DEF LeftBehind
  <1>2. LeftBehind /\ [Next]_vars => LeftBehind'
    BY LeftBehindNext
  <1>3. LeftBehind => StrandedByCrash
    <2> SUFFICES ASSUME LeftBehind PROVE StrandedByCrash
      OBVIOUS
    <2> DEFINE Half == {p \in Terminal : HalfRegistered(p)}
               Reg == {p \in Terminal : job[p].cmd = "register"}
    <2>1. Half \subseteq Reg /\ Reg \subseteq {t}
      BY DEF HalfRegistered
    <2>2. IsFiniteSet(Reg) /\ Cardinality(Half) <= Cardinality(Reg)
      <3>1. IsFiniteSet({t})
        BY FS_Singleton
      <3> QED BY <2>1, <3>1, FS_Subset
    <2>3. Cardinality(Half) \in Nat /\ Cardinality(Reg) \in Nat
      BY <2>1, <2>2, FS_Subset, FS_CardinalityType
    <2>4. crashes \in Nat /\ Cardinality(Stranded) \in Nat
      BY FS_CardinalityType, BoundsAssumption DEF LeftBehind, Store, Types
    <2> QED BY <2>2, <2>3, <2>4 DEF LeftBehind, StrandedByCrash
  <1> QED BY <1>1, <1>2, <1>3, PTL DEF Spec
=============================================================================
