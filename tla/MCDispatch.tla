----------------------------- MODULE MCDispatch -----------------------------
(***************************************************************************)
(* A small instance of Dispatch: two upstreams of one provider have a key   *)
(* in common, so what one upstream does to it matters at the next.  The     *)
(* provider either refreshes credentials and repeats protected answers or   *)
(* does neither, and there is an answer of every class.                     *)
(***************************************************************************)
EXTENDS Dispatch, TLC

CONSTANTS u1, u2, k1, k2, k3

SharedKeysOf == u1 :> {k1, k2} @@ u2 :> {k2, k3}
SharedRoutes == UNION {Injection(1..n, {u1, u2}) : n \in 0..2}
SharedOptions ==
    {[u \in {u1, u2} |-> [refreshes |-> b, protectedRetry |-> b,
                          zeroTokenRetry |-> TRUE, networkTrips |-> TRUE]] : b \in BOOLEAN}
SharedStatuses == {200, 304, 400, 401, 429}
=============================================================================
