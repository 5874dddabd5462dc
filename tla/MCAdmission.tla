---------------------------- MODULE MCAdmission ----------------------------
(***************************************************************************)
(* Values of the constants of Admission for TLC.                           *)
(***************************************************************************)
EXTENDS Admission

CONSTANTS w1, w2

MCTwoWorkers == {w1, w2}
MCNoneOrAll  == {0, 1}
=============================================================================
