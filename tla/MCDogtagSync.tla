---------------------------- MODULE MCDogtagSync ----------------------------
(* Instances of DogtagSync. *)
EXTENDS DogtagSync

CONSTANTS u1, u2, s1

TwoUuid == {u1, u2}
OneSerial == {s1}
=============================================================================
