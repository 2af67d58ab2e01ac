--------------------------- MODULE MCChunkedTally ---------------------------
(***************************************************************************)
(* Counting, the chunked tally and its public side over boards of every     *)
(* kind of ballot in MCBallots.                                             *)
(***************************************************************************)
EXTENDS Transcript, MCBallots

\* The threads of the pool are alike.
MCSymmetry == Permutations(Worker)
=============================================================================
