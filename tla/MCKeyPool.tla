----------------------------- MODULE MCKeyPool -----------------------------
(***************************************************************************)
(* Small instances of KeyPool, one to a behaviour: a balance refresh and an *)
(* operator around one request, two requests (one may rotate the credential)*)
(* that overlap a rescan, two operators, one of whom refreshes the          *)
(* credential, around one request, and a probe that overlaps an operator.   *)
(***************************************************************************)
EXTENDS KeyPool

CONSTANTS k1, r1, r2, h1, h2, probe, rescan, refresh, Instances

VARIABLE instance

MCvars == <<vars, instance>>

MCInit == Init /\ instance \in Instances

Deletions ==
    \/ \E k \in Key : DeleteKey(k)
    \/ \E target \in Dead : CleanupSelect(target)
    \/ CleanupDelete

\* Where operators and sweeps overlap one replaced secret is enough; a rotation that
\* overtakes a replacement takes two.
Sweeps ==
    /\ \/ Tick
       \/ RequestStep(r1)
       \/ SweepStep(refresh)
       \/ HandlerStep(h1)
       \/ Deletions
    /\ issued'[k1] <= 2

Requests ==
    \/ Tick
    \/ \E r \in Request : RequestStep(r)
    \/ SweepStep(rescan)
    \/ RotationStep(r1)

\* h1 refreshes the credential while h2 edits the key.
Operators ==
    \/ Tick
    \/ RequestStep(r1)
    \/ OpenKey(h1, k1) \/ RotatedAlready(h1) \/ ReadAgain(h1) \/ PutBack(h1) \/ CloseKey(h1)
    \/ HandlerStep(h2)
    \/ RotationStep(h1)

OneProbe == SweepStep(probe) \/ HandlerStep(h1)

MCNext ==
    /\ UNCHANGED instance
    /\ \/ instance = "sweeps" /\ Sweeps
       \/ instance = "requests" /\ Requests
       \/ instance = "operators" /\ Operators
       \/ instance = "probe" /\ OneProbe

MCSpec == MCInit /\ [][MCNext]_MCvars
=============================================================================
