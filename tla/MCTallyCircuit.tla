--------------------------- MODULE MCTallyCircuit ---------------------------
(***************************************************************************)
(* The tally circuit over full boards: valid ballots of both voters and an  *)
(* invalid one, in every order, so that each slot can hold each kind.       *)
(***************************************************************************)
EXTENDS TallyCircuit, MCBallots

CircuitOpening ==
  [real0 |-> MCOpening.real0, real1 |-> MCOpening.real1, wrongC |-> MCOpening.wrongC]

CircuitCom == DOMAIN CircuitOpening
=============================================================================
