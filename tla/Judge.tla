------------------------------- MODULE Judge -------------------------------
(***************************************************************************)
(* The private judge: what it rules on a tallied-as-recorded complaint and  *)
(* on the two kinds of recorded-as-cast complaint, and what of a ruling may *)
(* be released (src/disputes).                                              *)
(*                                                                          *)
(* An opening is named by the commitment it opens, or is Forged and opens   *)
(* none.  An authority's evidence is a nonce (NoNonce: the shares it sent   *)
(* do not reconstruct one), its openings store and the status of the tally  *)
(* proof.                                                                   *)
(***************************************************************************)
EXTENDS Duplicates, SequencesExt

CONSTANT Forged

ASSUME ForgedAssumption == Forged \notin Com

ProofStatus == {"Verified", "Invalid", "Unavailable"}

Verdict ==
  {"AuthorityFaulty", "VoterFaulty", "BoardFaulty", "NoAuthorityFault", "Undetermined"}

Complaint == [com : Com, opening : Com \cup {Forged}]

Evidence ==
  [ nonce    : Nonce \cup {NoNonce},
    openings : Seq(Com \cup {Forged}),
    proof    : ProofStatus ]

\* Position of the complained-of commitment: the FIRST occurrence.
FirstAt(adm, com) ==
  CHOOSE j \in DOMAIN adm : adm[j] = com /\ \A i \in 1..(j - 1) : adm[i] # com

-----------------------------------------------------------------------------
(* Stage (6): the judge walks the slots before the ballot, in board order.  *)
(* A supplied opening that does not open its commitment, or a valid ballot  *)
(* of the same identity, ends the walk at its slot.                         *)

\* A faulty variant: the walk ends one slot early.
StopsShort(adm, ev, id, n) ==
  {j \in 1..(n - 2) : \/ ev.openings[j] # adm[j]
                      \/ BallotIsValidForId(Opening[adm[j]], id, ev.nonce)}

\* A faulty variant: a supplied opening is not checked against its commitment.
StopsUnchecked(adm, ev, id, n) ==
  {j \in 1..(n - 1) : /\ ev.openings[j] # Forged
                      /\ BallotIsValidForId(Opening[ev.openings[j]], id, ev.nonce)}

\* The slots before n at which the walk stops.
Stops(adm, ev, id, n) ==
  {j \in 1..(n - 1) : \/ ev.openings[j] # adm[j]
                      \/ BallotIsValidForId(Opening[adm[j]], id, ev.nonce)}

DuplicateStatus(adm, ev, id, n) ==
  LET stops == Stops(adm, ev, id, n)
      first == CHOOSE j \in stops : \A i \in stops : j <= i
  IN  IF stops = {} THEN "First"
      ELSE IF ev.openings[first] # adm[first] THEN "Fabricated"
      ELSE "Duplicate"

\* A faulty variant: the status of the proof passed on as the ruling.
ProofAsRuling(proof) == proof

\* Stage (7).
RulingOnProof(proof) ==
  CASE proof = "Invalid"     -> "AuthorityFaulty"
    [] proof = "Unavailable" -> "Undetermined"
    [] proof = "Verified"    -> "NoAuthorityFault"

\* Stages (6) and (7), for a ballot that passed the validity stages.
RulingOnDuplicates(adm, ev, id, n) ==
  IF Len(ev.openings) < n - 1 THEN "Undetermined"
  ELSE LET status == DuplicateStatus(adm, ev, id, n)
       IN  CASE status = "Fabricated" -> "AuthorityFaulty"
             [] status = "Duplicate"  -> "VoterFaulty"
             [] status = "First"      -> RulingOnProof(ev.proof)

\* Stages (3)-(5): the registration verdict under the judge's nonce.
RulingOnRegistration(adm, ev, pt, n) ==
  LET reg == RegistrationCheck(pt, ev.nonce)
  IN  CASE reg = "Ok"               -> RulingOnDuplicates(adm, ev, pt.id, n)
        [] reg = "LeafInconsistent" -> "AuthorityFaulty"
        [] OTHER                    -> "VoterFaulty"

\* A complaint's own opening is well formed and signed, stages (1) and (2).
WellFormedBallot(pt) == pt.parses /\ pt.eid = Eid /\ pt.cand \in Candidate /\ pt.sigOk

\* tallied_as_recorded.rs judge_tallied_as_recorded.
JudgeTalliedAsRecorded(adm, complaint, ev) ==
  IF complaint.com \notin Range(adm) THEN "Undetermined"
  ELSE IF complaint.opening # complaint.com THEN "VoterFaulty"
  ELSE IF ~WellFormedBallot(Opening[complaint.com]) THEN "VoterFaulty"
  ELSE IF ev.nonce = NoNonce THEN "Undetermined"
  ELSE RulingOnRegistration(adm, ev, Opening[complaint.com], FirstAt(adm, complaint.com))

-----------------------------------------------------------------------------

\* A faulty variant: the detailed verdict is released.
Uncoarsened(verdict) == verdict

\* judge.rs external_verdict: what leaves the judge.
ExternalVerdict(verdict) == IF verdict = "VoterFaulty" THEN "NoAuthorityFault" ELSE verdict
=============================================================================
