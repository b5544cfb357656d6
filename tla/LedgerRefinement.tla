-------------------------- MODULE LedgerRefinement --------------------------
(* The ledger implements CustodyStock: a lot is a tree of receipts, and    *)
(* its parts are the quantities of the leaves in each group of statuses.   *)
EXTENDS InventoryLedger

PartOf(statuses) ==
    [root \in Receipt |->
        Amount(receipt, {r \in Leaves(root) : receipt[r].status \in statuses})]

Goods == INSTANCE CustodyStock WITH
    Lot <- Receipt,
    pending <- PartOf({"PENDING_APPROVAL"}),
    free <- PartOf({"ACTIVE"}),
    reserved <- PartOf(HeldStatus),
    removed <- PartOf({"WITHDRAWN", "SEIZED", "TRADED_OUT"}),
    writtenOff <- PartOf({"EXPIRED", "CANCELLED"})

(* Every ledger step moves goods the way CustodyStock allows, or moves     *)
(* none: no interleaving of splits, releases, seizures and trades lets     *)
(* unreserved goods leave, reserves more than is free, or loses a unit.    *)
ImplementsStock == Goods!Spec
=============================================================================
