--------------------------- MODULE MCRegistration ---------------------------
(***************************************************************************)
(* A small instance of Registration: a lone authority, two of two, two of   *)
(* three, and a threshold that is refused.                                  *)
(***************************************************************************)
EXTENDS Registration

MCThresholds == {<<2, 1>>, <<1, 1>>, <<2, 2>>, <<2, 3>>}
=============================================================================
