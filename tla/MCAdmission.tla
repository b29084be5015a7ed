---------------------------- MODULE MCAdmission ----------------------------
(* Instances of Admission for TLC.                                          *)
EXTENDS Admission, TLC

CONSTANTS b1, b2

Requests == (b1 :> <<1, 1>>) @@ (b2 :> <<1>>)
=============================================================================
