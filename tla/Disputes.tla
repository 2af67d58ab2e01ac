------------------------------ MODULE Disputes ------------------------------
(***************************************************************************)
(* Disputes while the election runs: the admitted board grows, and at any   *)
(* moment a complainant files a tallied-as-recorded complaint which the     *)
(* judge rules on from the evidence the authority side chooses to send.     *)
(* The evidence is arbitrary: openings missing, fabricated or for another   *)
(* commitment, another voter's nonce or none, a proof that was checked,     *)
(* rejected or absent.                                                      *)
(***************************************************************************)
EXTENDS Judge

CONSTANT MaxBoard   \* bound: length of the admitted board

ASSUME MaxBoardAssumption == MaxBoard \in Nat

VARIABLES
  admitted,   \* BB_adm.coms
  ruling      \* the ruling under observation, or NoRuling

vars == <<admitted, ruling>>

NoRuling == [verdict |-> "none"]

Init == admitted = <<>> /\ ruling = NoRuling

Admit(com) ==
  /\ Len(admitted) < MaxBoard
  /\ admitted' = Append(admitted, com)
  /\ UNCHANGED ruling

\* Openings stores the authority may send: in every slot the true opening, a
\* forged one, or the opening of some other commitment on the board.
OpeningsSent ==
  UNION {[1..n -> Range(admitted) \cup {Forged}] : n \in 0..Len(admitted)}

\* The judge keeps no state, so rulings are independent and one is enough.
Dispute(complaint, ev) ==
  /\ ruling = NoRuling
  /\ ruling' = [ complaint |-> complaint,
                 evidence  |-> ev,
                 verdict   |-> JudgeTalliedAsRecorded(admitted, complaint, ev) ]
  /\ UNCHANGED admitted

Next ==
  \/ \E com \in Com : Admit(com)
  \/ /\ ruling = NoRuling
     /\ \E com \in Com, opening \in Com \cup {Forged}, nonce \in Range(AuthorityNonce),
           openings \in OpeningsSent, proof \in ProofStatus :
          /\ opening \in {com, Forged}   \* another ballot's opening is as good as none
          /\ Dispute([com |-> com, opening |-> opening],
                     [nonce |-> nonce, openings |-> openings, proof |-> proof])

Spec == Init /\ [][Next]_vars

TypeOK ==
  /\ admitted \in Seq(Com)
  /\ \/ ruling = NoRuling
     \/ /\ ruling.complaint \in Complaint
        /\ ruling.evidence \in Evidence
        /\ ruling.verdict \in Verdict

-----------------------------------------------------------------------------

Ruled == ruling # NoRuling

\* The complaint opens its own commitment, as a voter's own ballot file does.
OwnOpening == ruling.complaint.opening = ruling.complaint.com

TrueNonce == ruling.evidence.nonce = AuthorityNonce[Opening[ruling.complaint.com].id]

\* What an honest authority sends: its nonce, and the openings of the board.
HonestEvidence(com, proof) ==
  [nonce |-> AuthorityNonce[Opening[com].id], openings |-> admitted, proof |-> proof]

\* What the judge would rule on the same complaint now, on honest evidence.
HonestVerdict ==
  JudgeTalliedAsRecorded(admitted, ruling.complaint,
                         HonestEvidence(ruling.complaint.com, ruling.evidence.proof))

CountedNow == {admitted[j] : j \in CountedSorted(Records(admitted))}

\* "A lying authority cannot steer the duplicate verdict"
\* (tallied_as_recorded.rs:56-64): whatever openings were sent with the true
\* nonce, the ruling is the one honest evidence gives, on the board of that
\* moment and on every later one, or it blames the authority or decides
\* nothing.
OpeningsCannotSteer ==
  Ruled /\ TrueNonce =>
    ruling.verdict \in {HonestVerdict, "AuthorityFaulty", "Undetermined"}

\* The judge recomputes the tally's own predicate (filter_and_tally.rs:186-192):
\* a ballot it finds valid and first is counted by FilterAndTally, by the
\* sorted strategy over the whole board of that moment and of every later
\* one, and a ballot it finds at fault is not.
JudgeAgreesWithTally ==
  Ruled /\ TrueNonce /\ OwnOpening =>
    /\ ruling.verdict = "NoAuthorityFault" => ruling.complaint.com \in CountedNow
    /\ ruling.verdict = "VoterFaulty" => ruling.complaint.com \notin CountedNow

\* The released verdict does not tell a registered nonce from a fake one
\* (judge.rs:16-18): after a ruling on honest evidence, had the complainant's
\* ballot been its twin, the same but for the nonce, in the same places of
\* the same board, the answer that leaves the judge would be the same.  A row
\* that the published root contradicts is an authority fault, which is public
\* by design (judge.rs:52-54) and found with the registered nonce only.
Twins(com, twin) ==
  /\ Opening[com].r # Opening[twin].r
  /\ Opening[twin] = [Opening[com] EXCEPT !.r = Opening[twin].r]

InPlaceOf(com, twin) ==
  [j \in DOMAIN admitted |-> IF admitted[j] = com THEN twin ELSE admitted[j]]

RowConsistent(id) == id \in Voter => Reg[id].pathOk

VerdictOnTwin(twin) ==
  LET adm == InPlaceOf(ruling.complaint.com, twin)
  IN  JudgeTalliedAsRecorded(adm, [com |-> twin, opening |-> twin],
                             [ruling.evidence EXCEPT !.openings = adm])

NonceTestHidden(proofs) ==
  /\ Ruled /\ TrueNonce /\ OwnOpening /\ ruling.complaint.com \in Range(admitted)
  /\ ruling.evidence.openings = admitted
  /\ RowConsistent(Opening[ruling.complaint.com].id)
  /\ ruling.evidence.proof \in proofs
  => \A twin \in Com :
       Twins(ruling.complaint.com, twin) =>
         ExternalVerdict(ruling.verdict) = ExternalVerdict(VerdictOnTwin(twin))

\* With a verifying tally proof.
NonceTestHiddenWhenVerified == NonceTestHidden({"Verified"})

\* judge.rs:54-55, "`Undetermined` carries no voter-specific information", and
\* README.md:467-469, "a dispute outcome can never serve as a coercer's nonce
\* test": also while no tally proof is available.
NonceTestHiddenBeforeProof == NonceTestHidden({"Unavailable"})
=============================================================================
