----------------------------- MODULE MCDisputes -----------------------------
(***************************************************************************)
(* Disputes over small boards: voter 0's ballots (a real one, a second real *)
(* one, one under a fake nonce, one badly signed), and two ballots of voter *)
(* 1, whose registration row the authority left inconsistent with the root. *)
(***************************************************************************)
EXTENDS Disputes, MCBallots

\* twin0 and fake1 are real0 and torn1 under a nonce that is not the registered
\* one.
DisputeOpening ==
  [ real0  |-> Real(0, 0),
    again0 |-> Real(0, 1),
    twin0  |-> Fake(0, 0),
    badSig |-> [Real(0, 0) EXCEPT !.sigOk = FALSE],
    torn1  |-> Real(1, 1),
    fake1  |-> Fake(1, 1) ]

DisputeReg == [MCReg EXCEPT ![1].pathOk = FALSE]

DisputeCom == DOMAIN DisputeOpening
=============================================================================
