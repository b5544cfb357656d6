---------------------------- MODULE MCCollateral ----------------------------
(* Collateral for TLC: the idempotency keys of the flow, and handlers that *)
(* can be exchanged for one another (all but the cron).                    *)
EXTENDS Collateral, TLC

Web == Permutations(Call \ {Cron})
=============================================================================
