------------------------------ MODULE MCNachos ------------------------------
(* Nachos with three threads at the mailbox of one machine, and a program   *)
(* of two instructions on words of 8 bits.                                  *)
EXTENDS Nachos, TLC

CONSTANTS m1, c1, c2, c3

HomeOfDef == (c1 :> m1) @@ (c2 :> m1) @@ (c3 :> m1)

\* Three pages of the program and one of none, with bytes of both signs.
ImageDef == [x \in 0 .. 15 |-> (3 * x + x \div 2) % 4]

ImmediatesDef == {4, -1}
=============================================================================
