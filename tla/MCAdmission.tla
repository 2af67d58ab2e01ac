---------------------------- MODULE MCAdmission ----------------------------
(***************************************************************************)
(* Small instances of Admission: one voter who votes twice, one who votes   *)
(* once, and a fake-compliance ballot.                                      *)
(***************************************************************************)
EXTENDS Admission, MCBallots

PathBallots == {"real0", "again0", "fake0", "real1"}
PathOpening == [com \in PathBallots |-> MCOpening[com]]
=============================================================================
