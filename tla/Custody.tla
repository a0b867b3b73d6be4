------------------------------ MODULE Custody ------------------------------
(***************************************************************************)
(* What the lock-free list of mdmon promises: at any time exactly one      *)
(* thread may use a structure.  The manager makes it and gives it to the   *)
(* monitor, the monitor gives it back through a slot that holds one, and   *)
(* the manager frees it from there, once.                                  *)
(***************************************************************************)
CONSTANT Structure

VARIABLE keeper

Keepers == {"nobody", "manager", "monitor", "slot", "freed"}

CustodyTypeOK == keeper \in [Structure -> Keepers]

Goes(x, from, to) == keeper[x] = from /\ keeper' = [keeper EXCEPT ![x] = to]

Create(x)  == Goes(x, "nobody", "manager")
Give(x)    == Goes(x, "manager", "monitor")
Free(x)    == Goes(x, "slot", "freed")
\* The monitor returns x only when the slot is empty.
Return(x)  == Goes(x, "monitor", "slot") /\ \A y \in Structure : keeper[y] # "slot"

CustodyInit == keeper = [x \in Structure |-> "nobody"]
CustodyNext == \E x \in Structure : Create(x) \/ Give(x) \/ Return(x) \/ Free(x)
CustodySpec == CustodyInit /\ [][CustodyNext]_keeper
=============================================================================
