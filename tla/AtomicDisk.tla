----------------------------- MODULE AtomicDisk -----------------------------
(***************************************************************************)
(* The interface of filesys/synchdisk.h: ReadSector and WriteSector return *)
(* "only once the data is actually read or written", and each does so at   *)
(* one moment between its call and its return.                             *)
(***************************************************************************)

CONSTANTS Thread, Sector, Data

VARIABLES
  sectors,   \* sectors[s]: what is on the disk
  phase,     \* phase[t]: "outside", "called" or "done"
  request    \* request[t]: t's last call, with its buffer

vars == <<sectors, phase, request>>

Requests == [operation : {"read", "write"}, sector : Sector, data : Data]

Init ==
  /\ sectors \in [Sector -> Data]
  /\ phase = [t \in Thread |-> "outside"]
  /\ request \in [Thread -> Requests]

Become(t, p) == phase' = [phase EXCEPT ![t] = p]

Call(t, r) ==
  /\ phase[t] = "outside"
  /\ Become(t, "called")
  /\ request' = [request EXCEPT ![t] = r]
  /\ UNCHANGED sectors

Read(t) ==
  /\ phase[t] = "called" /\ request[t].operation = "read"
  /\ Become(t, "done")
  /\ request' = [request EXCEPT ![t].data = sectors[request[t].sector]]
  /\ UNCHANGED sectors

Write(t) ==
  /\ phase[t] = "called" /\ request[t].operation = "write"
  /\ Become(t, "done")
  /\ sectors' = [sectors EXCEPT ![request[t].sector] = request[t].data]
  /\ UNCHANGED request

Return(t) ==
  /\ phase[t] = "done"
  /\ Become(t, "outside")
  /\ UNCHANGED <<sectors, request>>

Next ==
  \E t \in Thread :
    \/ \E r \in Requests : Call(t, r)
    \/ Read(t) \/ Write(t) \/ Return(t)

Spec == Init /\ [][Next]_vars

=============================================================================
