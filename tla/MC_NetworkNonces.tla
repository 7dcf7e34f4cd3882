------------------------- MODULE MC_NetworkNonces -------------------------
(* Three requests on one network: two bridge_in_signature calls and one   *)
(* cancel_transfer, with a pool of two connections so that a request can *)
(* find the pool exhausted.                                               *)
EXTENDS NetworkNonces, TLC

CONSTANTS r1, r2, r3, n1

MC_Net == {n1}
MC_Req == {r1, r2, r3}
MC_Kind == (r1 :> "in") @@ (r2 :> "cancel") @@ (r3 :> "in")
MC_NetOf == [r \in MC_Req |-> n1]

=============================================================================
