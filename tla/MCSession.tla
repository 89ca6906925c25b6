------------------------------ MODULE MCSession ------------------------------
(* Session for TLC: the devices can be exchanged for one another. *)
EXTENDS Session, TLC

Interchangeable == Permutations(Devices)
=============================================================================
