------------------------- MODULE MCInventoryLedger -------------------------
(* InventoryLedger for TLC.  Idempotency keys are interchangeable, so a    *)
(* run uses the keys 1, 2, 3, ... in this order: every behaviour of        *)
(* LedgerSpec is one of MCSpec up to a renaming of its keys.               *)
EXTENDS LedgerRefinement

FreshKey(k) == event[k] = NoEvent /\ \A j \in 1 .. k - 1 : event[j] # NoEvent

MCNext == \E k \in Key : FreshKey(k) /\ LedgerStep(k)

MCSpec == LedgerInit /\ [][MCNext]_ledgerVars
=============================================================================
