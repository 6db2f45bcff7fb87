------------------------------- MODULE Lease -------------------------------
(***************************************************************************)
(* The named Redis leases of core/redis.py (RedisService.lease): SET NX PX  *)
(* with a random owner, a task that renews every third of the time to live, *)
(* and a release that deletes the key only if it still carries the owner.   *)
(*                                                                          *)
(* A renewed lease does not run out.  The renewal ends with its process,    *)
(* and also with the first call to Redis that fails: then the lease runs    *)
(* out under a holder that knows nothing of it.                             *)
(***************************************************************************)
CONSTANTS Name, Process, Free

VARIABLES
    owner,     \* owner[n]: the value of the key, Free when there is none
    renewing   \* renewing[n]: whether the owner's renewal task is running

LeaseType == /\ owner \in [Name -> Process \cup {Free}]
             /\ renewing \in [Name -> BOOLEAN]

LeaseInit == /\ owner = [n \in Name |-> Free]
             /\ renewing = [n \in Name |-> FALSE]

Acquire(n, p) ==
    /\ owner[n] = Free
    /\ owner' = [owner EXCEPT ![n] = p]
    /\ renewing' = [renewing EXCEPT ![n] = TRUE]

\* Mutated form: the key is deleted whoever owns it.
ReleaseAnyway(n, p) == /\ owner' = [owner EXCEPT ![n] = Free]
                       /\ renewing' = [renewing EXCEPT ![n] = FALSE]

Release(n, p) ==
    IF owner[n] = p
    THEN /\ owner' = [owner EXCEPT ![n] = Free]
         /\ renewing' = [renewing EXCEPT ![n] = FALSE]
    ELSE UNCHANGED <<owner, renewing>>

RenewalDies(n) ==
    /\ renewing[n]
    /\ renewing' = [renewing EXCEPT ![n] = FALSE]
    /\ UNCHANGED owner

\* p's process stops: nobody renews what it holds.
HolderStops(p) ==
    /\ renewing' = [n \in Name |-> renewing[n] /\ owner[n] # p]
    /\ UNCHANGED owner

\* Mutated form: the key is set without a time to live.
RunsOutNever(n) == FALSE /\ UNCHANGED <<owner, renewing>>

RunsOut(n) ==
    /\ owner[n] # Free
    /\ ~renewing[n]
    /\ owner' = [owner EXCEPT ![n] = Free]
    /\ UNCHANGED renewing
=============================================================================
