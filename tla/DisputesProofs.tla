--------------------------- MODULE DisputesProofs ---------------------------
(***************************************************************************)
(* Disputes on a board of any length, with any evidence: the ruling was     *)
(* made on an earlier state of the board, on which openings can only have   *)
(* been sent for what it held, and every later board gives the same ruling. *)
(***************************************************************************)
EXTENDS Disputes, TallyProofs

\* A ruling made on the board adm, on what could be sent then.
RuledOn(adm) ==
  /\ Precedes(adm, admitted)
  /\ ruling.complaint \in Complaint
  /\ ruling.evidence \in Evidence
  /\ Len(ruling.evidence.openings) <= Len(adm)
  /\ ruling.verdict = JudgeTalliedAsRecorded(adm, ruling.complaint, ruling.evidence)
  /\ DOMAIN ruling = {"complaint", "evidence", "verdict"}

\* The inductive invariant.  The board of the ruling is not kept in the state: it
\* is some board the present one has grown from.
RuledOnPrefix ==
  /\ admitted \in Seq(Com)
  /\ ruling = NoRuling \/ \E adm \in Seq(Com) : RuledOn(adm)

\* Every ruling is one of the judge's verdicts.
LEMMA RulingIsVerdict ==
  ASSUME NEW adm \in Seq(Com), NEW complaint \in Complaint, NEW ev \in Evidence
  PROVE  JudgeTalliedAsRecorded(adm, complaint, ev) \in Verdict
  <1> DEFINE n == FirstAt(adm, complaint.com)
             id == Opening[complaint.com].id
  <1>1. CASE complaint.com \notin Range(adm)
    BY <1>1 DEF JudgeTalliedAsRecorded, Verdict
  <1>2. CASE complaint.com \in Range(adm)
    <2>1. n \in 1..Len(adm)
      BY <1>2, FirstAtIsFirst
    <2> HIDE DEF n, id
    <2>2. RulingOnProof(ev.proof) \in Verdict
      BY DEF RulingOnProof, Evidence, ProofStatus, Verdict
    <2>3. DuplicateStatus(adm, ev, id, n) \in {"First", "Fabricated", "Duplicate"}
      BY <2>1, StatusOfFirstStop
    <2>4. RulingOnDuplicates(adm, ev, id, n) \in Verdict
      BY <2>2, <2>3 DEF RulingOnDuplicates, Verdict
    <2>5. RulingOnRegistration(adm, ev, Opening[complaint.com], n) \in Verdict
      BY <2>4 DEF RulingOnRegistration, Verdict, id
    <2> QED BY <2>5 DEF JudgeTalliedAsRecorded, Verdict, n
  <1> QED BY <1>1, <1>2

\* The openings an authority can send are a sequence no longer than the board.
LEMMA OpeningsSentAreSequences ==
  ASSUME admitted \in Seq(Com), NEW openings \in OpeningsSent
  PROVE  openings \in Seq(Com \cup {Forged}) /\ Len(openings) <= Len(admitted)
  <1>1. PICK n \in 0..Len(admitted) : openings \in [1..n -> Range(admitted) \cup {Forged}]
    BY DEF OpeningsSent
  <1>2. Range(admitted) \subseteq Com
    BY DEF Range
  <1>3. openings \in [1..n -> Com \cup {Forged}]
    BY <1>1, <1>2
  <1> QED BY <1>1, <1>3

\* The ruling is explained by an earlier board, whatever is admitted after it.
LEMMA RuledOnPrefixInvariant == Spec => []RuledOnPrefix
  <1>1. Init => RuledOnPrefix
    BY DEF Init, RuledOnPrefix
  <1>2. RuledOnPrefix /\ [Next]_vars => RuledOnPrefix'
    <2> SUFFICES ASSUME RuledOnPrefix, [Next]_vars PROVE RuledOnPrefix'
      OBVIOUS
    <2>1. ASSUME NEW com \in Com, Admit(com) PROVE RuledOnPrefix'
      <3>1. admitted' = Append(admitted, com) /\ UNCHANGED ruling
        BY <2>1 DEF Admit
      <3>2. /\ admitted' \in Seq(Com) /\ Len(admitted') = Len(admitted) + 1
            /\ \A j \in 1..Len(admitted) : admitted'[j] = admitted[j]
        BY <3>1, AppendProperties DEF RuledOnPrefix
      <3>3. ASSUME NEW adm \in Seq(Com), RuledOn(adm) PROVE RuledOn(adm)'
        <4>1. Precedes(adm, admitted')
          BY <3>2, <3>3 DEF RuledOn, Precedes, RuledOnPrefix
        <4> QED BY <3>1, <3>3, <4>1 DEF RuledOn, Precedes
      <3> QED BY <3>1, <3>2, <3>3 DEF RuledOnPrefix
    <2>2. ASSUME NEW com \in Com, NEW opening \in Com \cup {Forged},
                 NEW nonce \in Range(AuthorityNonce), NEW openings \in OpeningsSent,
                 NEW proof \in ProofStatus,
                 Dispute([com |-> com, opening |-> opening],
                         [nonce |-> nonce, openings |-> openings, proof |-> proof])
          PROVE  RuledOnPrefix'
      <3> DEFINE complaint == [com |-> com, opening |-> opening]
                 ev == [nonce |-> nonce, openings |-> openings, proof |-> proof]
      <3>1. complaint \in Complaint
        BY DEF Complaint
      <3>2. nonce \in Nonce \cup {NoNonce}
        BY AuthorityAssumption DEF Range
      <3>3. /\ openings \in Seq(Com \cup {Forged}) /\ Len(openings) <= Len(admitted)
            /\ admitted \in Seq(Com)
        BY OpeningsSentAreSequences DEF RuledOnPrefix
      <3>4. ev \in Evidence /\ ev.openings = openings
        BY <3>2, <3>3 DEF Evidence
      <3> HIDE DEF complaint, ev
      <3>5. /\ ruling' = [ complaint |-> complaint, evidence |-> ev,
                           verdict |-> JudgeTalliedAsRecorded(admitted, complaint, ev) ]
            /\ UNCHANGED admitted
        BY <2>2 DEF Dispute, complaint, ev
      <3>6. Precedes(admitted, admitted)
        BY <3>3 DEF Precedes
      <3>7. RuledOn(admitted)'
        BY <3>1, <3>3, <3>4, <3>5, <3>6 DEF RuledOn
      <3> QED BY <3>3, <3>5, <3>7 DEF RuledOnPrefix
    <2>3. CASE UNCHANGED vars
      BY <2>3 DEF vars, RuledOnPrefix, RuledOn, NoRuling
    <2> QED BY <2>1, <2>2, <2>3 DEF Next
  <1> QED BY <1>1, <1>2, PTL DEF Spec

-----------------------------------------------------------------------------
(* The theorems.                                                            *)

\* What was ruled, about a commitment that was on the board then or not.
LEMMA RuledNow ==
  ASSUME RuledOnPrefix, Ruled
  PROVE  /\ ruling.complaint \in Complaint /\ ruling.evidence \in Evidence
         /\ admitted \in Seq(Com)
         /\ \/ ruling.verdict = "Undetermined"
            \/ ruling.verdict
                 = JudgeTalliedAsRecorded(admitted, ruling.complaint, ruling.evidence)
         /\ ruling.evidence.openings = admitted
              => ruling.verdict
                   = JudgeTalliedAsRecorded(admitted, ruling.complaint, ruling.evidence)
  <1>1. PICK adm \in Seq(Com) : RuledOn(adm)
    BY DEF RuledOnPrefix, Ruled
  <1>2. CASE ruling.complaint.com \in Range(adm)
    <2>1. ruling.verdict
            = JudgeTalliedAsRecorded(admitted, ruling.complaint, ruling.evidence)
      BY <1>1, <1>2, RulingStands DEF RuledOn, RuledOnPrefix
    <2> QED BY <1>1, <2>1 DEF RuledOn, RuledOnPrefix
  <1>3. CASE ruling.complaint.com \notin Range(adm)
    <2>1. ruling.verdict = "Undetermined"
      BY <1>1, <1>3 DEF RuledOn, JudgeTalliedAsRecorded
    <2>2. ruling.evidence.openings = admitted => adm = admitted
      <3> SUFFICES ASSUME ruling.evidence.openings = admitted PROVE adm = admitted
        OBVIOUS
      <3>1. Len(adm) = Len(admitted)
        BY <1>1 DEF RuledOn, Precedes, RuledOnPrefix
      <3> QED BY <1>1, <3>1 DEF RuledOn, Precedes, RuledOnPrefix
    <2> QED BY <1>1, <2>1, <2>2 DEF RuledOn, RuledOnPrefix
  <1> QED BY <1>2, <1>3

\* The board holds commitments and the ruling is one of the judge's verdicts.
THEOREM DisputesTypeOK == Spec => []TypeOK
  <1>1. RuledOnPrefix => TypeOK
    <2> SUFFICES ASSUME RuledOnPrefix, Ruled PROVE ruling.verdict \in Verdict
      BY RuledNow DEF RuledOnPrefix, TypeOK, Ruled
    <2> QED BY RuledNow, RulingIsVerdict DEF Verdict
  <1> QED BY <1>1, RuledOnPrefixInvariant, PTL

\* Whatever openings the authority sent with the true nonce, and whatever was
\* admitted since, the ruling is the one honest evidence gives now, or it
\* blames the authority, or it decides nothing (tallied_as_recorded.rs:56-64).
THEOREM OpeningsNeverSteer == Spec => []OpeningsCannotSteer
  <1>1. RuledOnPrefix => OpeningsCannotSteer
    <2> SUFFICES ASSUME RuledOnPrefix, Ruled, TrueNonce
                 PROVE  ruling.verdict \in {HonestVerdict, "AuthorityFaulty", "Undetermined"}
      BY DEF OpeningsCannotSteer
    <2> DEFINE ev == ruling.evidence
    <2>1. /\ ev \in Evidence /\ admitted \in Seq(Com)
          /\ \/ ruling.verdict = "Undetermined"
             \/ ruling.verdict = JudgeTalliedAsRecorded(admitted, ruling.complaint, ev)
      BY RuledNow
    <2>2. Honest(admitted, ev) = HonestEvidence(ruling.complaint.com, ev.proof)
      BY <2>1 DEF Honest, HonestEvidence, Evidence, TrueNonce
    <2>3. HonestVerdict = JudgeTalliedAsRecorded(admitted, ruling.complaint, Honest(admitted, ev))
      BY <2>2 DEF HonestVerdict
    <2> HIDE DEF ev
    <2> QED BY <2>1, <2>3, OpeningsOnlyBlame
  <1> QED BY <1>1, RuledOnPrefixInvariant, PTL

\* Under the true nonce a ballot the judge clears is counted by the sorted
\* strategy, and one it faults is not, on the board of that moment and on every
\* later one (filter_and_tally.rs:186-192).
THEOREM JudgeAlwaysAgreesWithTally == Spec => []JudgeAgreesWithTally
  <1>1. RuledOnPrefix => JudgeAgreesWithTally
    <2> SUFFICES ASSUME RuledOnPrefix, Ruled, TrueNonce, OwnOpening
                 PROVE  /\ ruling.verdict = "NoAuthorityFault"
                             => ruling.complaint.com \in CountedNow
                        /\ ruling.verdict = "VoterFaulty" => ruling.complaint.com \notin CountedNow
      BY DEF JudgeAgreesWithTally
    <2> DEFINE ev == ruling.evidence
               com == ruling.complaint.com
    <2>1. /\ ev \in Evidence /\ admitted \in Seq(Com) /\ ruling.complaint \in Complaint
          /\ \/ ruling.verdict = "Undetermined"
             \/ ruling.verdict = JudgeTalliedAsRecorded(admitted, ruling.complaint, ev)
      BY RuledNow
    <2>2. com \in Com /\ ruling.complaint = [com |-> com, opening |-> com]
      BY <2>1 DEF Complaint, OwnOpening
    <2>3. ev.proof \in ProofStatus /\ ev.nonce = AuthorityNonce[Opening[com].id]
      BY <2>1 DEF Evidence, TrueNonce
    <2>4. CountedNow = CountedComs(admitted)
      BY DEF CountedNow, CountedComs
    <2> HIDE DEF ev, com
    <2>5. ruling.verdict = "NoAuthorityFault" => com \in CountedNow
      BY <2>1, <2>2, <2>3, <2>4, ClearedBallot
    <2>6. ruling.verdict = "VoterFaulty" => com \notin CountedNow
      BY <2>1, <2>2, <2>3, <2>4, FaultedBallot
    <2> QED BY <2>5, <2>6 DEF com
  <1> QED BY <1>1, RuledOnPrefixInvariant, PTL

\* With a verifying proof the released verdict is the same for a ballot and for
\* its twin under another nonce, in the same places of the same board
\* (judge.rs:16-18).
THEOREM NonceTestAlwaysHiddenWhenVerified == Spec => []NonceTestHiddenWhenVerified
  <1>1. RuledOnPrefix => NonceTestHiddenWhenVerified
    <2> DEFINE ev == ruling.evidence
               com == ruling.complaint.com
               pt == Opening[com]
    <2> SUFFICES ASSUME RuledOnPrefix, Ruled, TrueNonce, OwnOpening,
                        com \in Range(admitted), ev.openings = admitted,
                        RowConsistent(pt.id), ev.proof = "Verified",
                        NEW twin \in Com, Twins(com, twin)
                 PROVE  ExternalVerdict(ruling.verdict) = ExternalVerdict(VerdictOnTwin(twin))
      BY DEF NonceTestHiddenWhenVerified, NonceTestHidden
    <2> DEFINE adm == InPlaceOf(com, twin)
               tev == [ev EXCEPT !.openings = adm]
    <2>1. /\ ev \in Evidence /\ admitted \in Seq(Com) /\ ruling.complaint \in Complaint
          /\ ruling.verdict = JudgeTalliedAsRecorded(admitted, ruling.complaint, ev)
      BY RuledNow
    <2>2. com \in Com /\ ruling.complaint = [com |-> com, opening |-> com]
      BY <2>1 DEF Complaint, OwnOpening
    <2>3. VerdictOnTwin(twin) = JudgeTalliedAsRecorded(adm, [com |-> twin, opening |-> twin], tev)
      BY DEF VerdictOnTwin
    <2>4. adm \in Seq(Com)
      BY <2>1 DEF InPlaceOf
    <2>5. twin \in Range(adm)
      <3>1. PICK j \in DOMAIN admitted : admitted[j] = com
        BY DEF Range
      <3>2. DOMAIN adm = DOMAIN admitted /\ adm[j] = twin
        BY <3>1 DEF InPlaceOf
      <3> HIDE DEF adm
      <3> QED BY <3>2 DEF Range
    <2> HIDE DEF adm
    <2>6. tev.openings = adm /\ tev.proof = "Verified" /\ tev.nonce = ev.nonce
      BY <2>1 DEF Evidence
    <2> HIDE DEF tev
    <2>7. Opening[com] \in Plaintext /\ Opening[twin] \in Plaintext
      BY <2>2, OpeningAssumption
    <2>8. /\ Opening[twin].id = pt.id /\ Opening[twin].cand = pt.cand
          /\ Opening[twin].parses = pt.parses /\ Opening[twin].eid = pt.eid
          /\ Opening[twin].sigOk = pt.sigOk
      BY <2>7 DEF Twins, Plaintext
    <2>9. CASE ev.nonce # NoNonce
      <3>1. ASSUME NEW q \in Plaintext, q.id = pt.id
            PROVE  RegistrationCheck(q, ev.nonce) # "LeafInconsistent"
        <4>1. q.id \in Nat
          BY IdAssumption DEF Plaintext
        <4>2. ~(q.id >= NumVoters) => q.id \in Voter
          BY <4>1, VotersAssumption DEF Voter
        <4> QED BY <3>1, <4>2 DEF RegistrationCheck, RowConsistent
      <3>2. ExternalVerdict(ruling.verdict) = "NoAuthorityFault"
        <4> HIDE DEF ev, com
        <4> QED BY <2>1, <2>2, <2>7, <2>9, <3>1, ReleasedAlike
      <3>3. ExternalVerdict(VerdictOnTwin(twin)) = "NoAuthorityFault"
        <4> HIDE DEF ev, com
        <4> QED BY <2>3, <2>4, <2>5, <2>6, <2>7, <2>8, <2>9, <3>1, ReleasedAlike
      <3> QED BY <3>2, <3>3
    <2>10. CASE ev.nonce = NoNonce
      <3>1. WellFormedBallot(Opening[twin]) <=> WellFormedBallot(pt)
        BY <2>8 DEF WellFormedBallot
      <3>2. JudgeTalliedAsRecorded(admitted, [com |-> com, opening |-> com], ev)
              = IF WellFormedBallot(pt) THEN "Undetermined" ELSE "VoterFaulty"
        BY <2>10 DEF JudgeTalliedAsRecorded
      <3>3. JudgeTalliedAsRecorded(adm, [com |-> twin, opening |-> twin], tev)
              = IF WellFormedBallot(pt) THEN "Undetermined" ELSE "VoterFaulty"
        BY <2>5, <2>6, <2>10, <3>1 DEF JudgeTalliedAsRecorded
      <3> QED BY <2>1, <2>2, <2>3, <3>2, <3>3
    <2> QED BY <2>9, <2>10
  <1> QED BY <1>1, RuledOnPrefixInvariant, PTL
=============================================================================
