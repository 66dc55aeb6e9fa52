------------------------------ MODULE MCMailbox -----------------------------
(* Mailbox with threads that are interchangeable.                          *)
EXTENDS Mailbox, TLC

Symmetry == Permutations(Thread)
=============================================================================
