------------------------------- MODULE MCSigner -------------------------------
(* Instances of Signer. *)
EXTENDS Signer

CONSTANTS A, C

OneLabel == {A}
OneOrder == <<A>>
TwoLabel == {A, C}
TwoOrder == <<A, C>>
=============================================================================
