-------------------------------- MODULE Lease --------------------------------
(***************************************************************************)
(* What SessionStore.acquireLock promises (packages/auth/src/contract.ts):   *)
(* a lock has one holder, until it releases the lock, dies, its time is     *)
(* over, or the store gives its record away.                                *)
(***************************************************************************)
CONSTANT Process

VARIABLE holders   \* the processes that may act under the lock

Init == holders = {}

\* acquireLock() resolves to a handle, so nobody else is within its time.
Grant(p) == holders = {} /\ holders' = {p}

\* release(), the end of the time, the death of the holder, or the loss of its record.
Give(p) == holders = {p} /\ holders' = {}

Next == \E p \in Process : Grant(p) \/ Give(p)
Spec == Init /\ [][Next]_holders

=============================================================================
