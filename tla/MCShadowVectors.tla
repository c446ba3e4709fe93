---------------------------- MODULE MCShadowVectors ----------------------------
(* A small instance of ShadowVectors: two writers, durations of five bits.   *)
(* The policies: a usual one, one with no retries, and one whose doubled     *)
(* base leaves the integers below its cap.                                   *)
EXTENDS ShadowVectors

Policy(n, base, max, jitter) ==
    [MaxRetries |-> n, BaseDelay |-> base, MaxDelay |-> max, Jitter |-> jitter]

MCPolicies == {Policy(2, 3, 5, 60), Policy(-1, 1, 2, 0), Policy(2, 9, 15, 0)}
=============================================================================
