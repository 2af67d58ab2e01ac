------------------------------ MODULE MCTier3 ------------------------------
(***************************************************************************)
(* Three instances: two different boards with the same counts, and one with *)
(* other counts and too many ballots for the full circuit: it takes part in *)
(* chunk mode only, where all public inputs are compared.  The ballots      *)
(* claim voter 0, voter 1 or nobody (2).  The nonces are shared over the    *)
(* field of seven elements with t = 2, k = 3.                               *)
(***************************************************************************)
EXTENDS Tier3

MCNoncePoly == [id \in 0..1 |-> IF id = 0 THEN <<3, 5>> ELSE <<6, 2>>]

Whole  == [board |-> <<0, 1, 0, 2>>, counts |-> <<1, 1>>]
Moved  == [board |-> <<1, 0, 1, 1>>, counts |-> <<1, 1>>]
Other  == [board |-> <<2, 0, 0, 0, 0, 0>>, counts |-> <<1, 0>>]
Padded == [board |-> <<0, 1, 2>>, counts |-> <<1, 1>>]

WholeInstances == {Whole, Moved, Other}
PaddedInstances == {Whole, Padded}
=============================================================================
