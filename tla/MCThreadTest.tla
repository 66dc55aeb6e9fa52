---------------------------- MODULE MCThreadTest ----------------------------
(* ThreadTest with two whales of each role.                                *)
EXTENDS ThreadTest, TLC

CONSTANTS w1, w2, w3, w4, w5, w6

RoleOfDef == (w1 :> "male") @@ (w2 :> "male") @@ (w3 :> "female") @@ (w4 :> "female")
             @@ (w5 :> "match") @@ (w6 :> "match")
=============================================================================
