------------------------------ MODULE MCDevices -----------------------------
(* The devices with times scaled down: two tracks of three sectors.         *)
EXTENDS Devices
=============================================================================
