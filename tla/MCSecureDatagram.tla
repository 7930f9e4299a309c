-------------------------- MODULE MCSecureDatagram --------------------------
(* SecureDatagram for TLC: the receive loops are interchangeable.          *)
EXTENDS SecureDatagram, TLC

ThreadSymmetry == Permutations(Threads)
=============================================================================
