----------------------------- MODULE MCPosting -----------------------------
(***************************************************************************)
(* Publication over small boards: a voter who votes twice and another       *)
(* voter's ballot under a fake nonce.                                       *)
(***************************************************************************)
EXTENDS Posting, MCBallots

PostedOpening == [real0 |-> Real(0, 0), again0 |-> Real(0, 1), fake1 |-> Fake(1, 0)]

PostedCom == DOMAIN PostedOpening
=============================================================================
