----------------------------- MODULE MCBallots -----------------------------
(***************************************************************************)
(* A two-voter election for TLC: ballots of every kind the validity stages  *)
(* tell apart.  Voters 0 and 1 are registered with keys vk0, vk1, voter     *)
(* nonces R0, R1 and authority nonces E0, E1; the table is published with   *)
(* sound Merkle paths.                                                      *)
(***************************************************************************)
EXTENDS Integers

MCEidHash == {"eid", "otherEid"}
MCId == 0..2
MCKey == {"vk0", "vk1", "vkX"}
MCNonce == {"R0", "R1", "Rfake", "E0", "E1"}

VkOf(v) == IF v = 0 THEN "vk0" ELSE "vk1"
ROf(v) == IF v = 0 THEN "R0" ELSE "R1"
EOf(v) == IF v = 0 THEN "E0" ELSE "E1"

MCReg ==
  [v \in 0..1 |-> [ vk     |-> VkOf(v),
                    h      |-> <<"eid", v, VkOf(v), ROf(v), EOf(v)>>,
                    pathOk |-> TRUE ]]

MCAuthorityNonce == [i \in MCId |-> IF i \in 0..1 THEN EOf(i) ELSE "none"]

\* cast_vote: the voter's own key and nonce.
Real(v, c) ==
  [ parses |-> TRUE, eid |-> "eid", id |-> v, vk |-> VkOf(v), cand |-> c,
    r |-> ROf(v), sigOk |-> TRUE ]

\* fake_compliance: the real key, a nonce that is not the registered one.
Fake(v, c) == [Real(v, c) EXCEPT !.r = "Rfake"]

\* chaff_ballot: an in-range id under a fresh key and nonce.
Chaff(v, c) == [Real(v, c) EXCEPT !.vk = "vkX", !.r = "Rfake"]

MCOpening ==
  [ real0  |-> Real(0, 0),
    again0 |-> Real(0, 1),
    real1  |-> Real(1, 1),
    fake0  |-> Fake(0, 1),
    chaff1 |-> Chaff(1, 0),
    ghost2 |-> [Real(1, 0) EXCEPT !.id = 2],
    wrongC |-> Real(1, 2),
    badSig |-> [Real(1, 0) EXCEPT !.sigOk = FALSE],
    oldEid |-> [Real(1, 0) EXCEPT !.eid = "otherEid"],
    noise  |-> [Real(0, 0) EXCEPT !.parses = FALSE] ]

MCCom == DOMAIN MCOpening
=============================================================================
