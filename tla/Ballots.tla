------------------------------ MODULE Ballots ------------------------------
(***************************************************************************)
(* What one admitted ballot is worth: the per-ballot validity predicate of  *)
(* FilterAndTally (stages a-h of evaluate_ballot_validity), the indexed     *)
(* registration check it shares with the dispute judge, and the judge's     *)
(* mirror of the predicate for one claimed identity.                        *)
(*                                                                          *)
(* Hashes and commitments are modelled by what binding gives the protocol:  *)
(* a commitment com has exactly one opening (Opening[com]), and h_i is the  *)
(* tuple it hashes.  A signature is the bit "verifies under the ballot's    *)
(* own vk over (eid, id, candidate, R)".  A candidate stands for its        *)
(* position in pp.candidates (setup rejects duplicates), so 0..|C|-1 is C.  *)
(***************************************************************************)
EXTENDS Integers, Sequences, FiniteSets

CONSTANTS
  Com,              \* ballot commitments
  Opening,          \* [Com -> Plaintext], the opening each commitment binds
  EidHash,          \* values an eid_hash field can hold
  Eid,              \* pp.eid_hash
  Id,               \* identities a plaintext can claim (u64 values)
  NumVoters,        \* N: the registered rows are 0..N-1
  NumCandidates,    \* pp.candidates.len()
  CandidateField,   \* values a candidate field can hold
  Key,              \* verification keys
  Nonce,            \* voter and authority nonces
  NoNonce,          \* authority_secret.r_ea(id) is Err
  Reg,              \* the finalized table [Voter -> Row]
  AuthorityNonce    \* [Id -> Nonce or NoNonce], authority_secret.r_ea

Voter == 0..(NumVoters - 1)

Candidate == 0..(NumCandidates - 1)

Plaintext ==
  [ parses : BOOLEAN,   \* id and candidate fit in u64
    eid    : EidHash,
    id     : Id,
    vk     : Key,
    cand   : CandidateField,
    r      : Nonce,
    sigOk  : BOOLEAN ]

HCom(eid, id, vk, r, rEA) == <<eid, id, vk, r, rEA>>

\* A registration row; pathOk is "leaf recomputed from the row and its Merkle
\* path agree with the published root".
Row == [ vk     : Key,
         h      : EidHash \X Id \X Key \X Nonce \X Nonce,
         pathOk : BOOLEAN ]

ASSUME IdAssumption == Id \subseteq Nat /\ CandidateField \subseteq Nat
ASSUME VotersAssumption == NumVoters \in Nat /\ NumCandidates \in Nat
ASSUME VoterIds == Voter \subseteq Id
ASSUME OpeningAssumption == Opening \in [Com -> Plaintext]
ASSUME RegAssumption == Reg \in [Voter -> Row]
ASSUME AuthorityAssumption ==
  /\ NoNonce \notin Nonce
  /\ AuthorityNonce \in [Id -> Nonce \cup {NoNonce}]

-----------------------------------------------------------------------------

\* filter_and_tally.rs registration_check: the claimed id selects the row.
RegistrationCheck(pt, rEA) ==
  IF pt.id >= NumVoters THEN "NotRegistered"
  ELSE IF Reg[pt.id].vk # pt.vk THEN "VkMismatch"
  ELSE IF Reg[pt.id].h # HCom(pt.eid, pt.id, pt.vk, pt.r, rEA) THEN "NonceMismatch"
  ELSE IF ~Reg[pt.id].pathOk THEN "LeafInconsistent"
  ELSE "Ok"

\* The registration verdict of the tally, whose nonce comes from an
\* authorized reconstruction: a failing reconstruction counts as NotRegistered.
TallyRegistration(pt) ==
  IF AuthorityNonce[pt.id] = NoNonce
    THEN "NotRegistered"
    ELSE RegistrationCheck(pt, AuthorityNonce[pt.id])

\* filter_and_tally.rs evaluate_ballot_validity, after the hard opening check.
EvaluateBallot(pt) ==
  IF ~pt.parses THEN "InvalidFormat"
  ELSE IF pt.eid # Eid THEN "InvalidFormat"
  ELSE IF pt.cand \notin Candidate THEN "InvalidCandidate"
  ELSE IF ~pt.sigOk THEN "InvalidSignature"
  ELSE IF TallyRegistration(pt) # "Ok" THEN "InvalidRegistration"
  ELSE "Valid"

Validity == [com \in Com |-> EvaluateBallot(Opening[com])]

IsValid(com) == Validity[com] = "Valid"

\* filter_and_tally.rs ballot_is_valid_for_id: the judge's mirror for one
\* identity, under the nonce the judge was given.
BallotIsValidForId(pt, id, rEA) ==
  /\ pt.parses
  /\ pt.id = id
  /\ pt.eid = Eid
  /\ pt.cand \in Candidate
  /\ pt.sigOk
  /\ RegistrationCheck(pt, rEA) = "Ok"
=============================================================================
