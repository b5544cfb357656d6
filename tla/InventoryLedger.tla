--------------------------- MODULE InventoryLedger ---------------------------
(***************************************************************************)
(* The warehouse-receipt ledger of src/src/inventory.                      *)
(*                                                                         *)
(* A receipt stands for a quantity of a commodity in a warehouse.  A       *)
(* deposit mints a root; a hold, a partial lien release and a partial      *)
(* seizure SPLIT a leaf into one or two children; every other operation    *)
(* changes the status, the approval or the owner of one leaf.  Each        *)
(* operation is one SERIALIZABLE transaction that locks the receipt,       *)
(* re-reads it, writes one journal row under the caller's idempotency key  *)
(* and updates the table (withSerializableTx, lockReceiptForUpdate), so it *)
(* is one action here.  A guard that the code refuses with an exception is *)
(* a conjunct that disables the action.                                    *)
(*                                                                         *)
(* Service modules EXTEND this one and run these actions from their        *)
(* handlers.                                                               *)
(***************************************************************************)
EXTENDS Integers, Sequences, FiniteSets, FiniteSetsExt

CONSTANTS
    MaxReceipts,  \* bound: rows of the receipts table
    MaxQuantity,  \* bound: largest deposit, in stored units (numeric(18,3))
    Scale,        \* caller precision: request units per stored unit
    Client,       \* users that can own a receipt
    Key,          \* idempotency keys
    Txn,          \* business transactions that place holds (txnType + txnId)
    HoldStatus,   \* the held statuses that callers place holds with
    None          \* no key, no transaction, no owner

HeldStatus == {"HELD_WITHDRAWAL", "HELD_LOAN", "HELD_TRADE",
               "HELD_PLEDGE_PENDING", "HELD_LIEN"}

ClosedStatus == {"WITHDRAWN", "TRADED_OUT", "SEIZED", "EXPIRED",
                 "CANCELLED", "SPLIT"}

ASSUME BoundsAssumption == MaxReceipts \in Nat /\ MaxQuantity \in Nat

ASSUME ScaleAssumption == Scale \in Nat \ {0}

ASSUME HoldStatusAssumption == HoldStatus \subseteq HeldStatus

ASSUME NoneAssumption == None \notin Client \cup Key \cup Txn

Status == {"ACTIVE", "PENDING_APPROVAL"} \cup HeldStatus \cup ClosedStatus

Approval == {"PENDING", "APPROVED", "REJECTED"}

EventType == {"DEPOSIT", "APPROVED", "REJECTED", "HOLD_PLACED",
              "HOLD_RELEASED", "CONSUMED", "PLEDGE_ACCEPTED", "SEIZED",
              "OWNERSHIP_TRANSFERRED", "TRANSFERRED_AND_RELEASED", "EXPIRED"}

(* Receipt ids are UUIDs; numbering them in creation order costs nothing   *)
(* and makes "parent before child" a statement about numbers.              *)
Receipt == 1..MaxReceipts
NoReceipt == 0

Row == [status : Status, approval : Approval, quantity : Nat,
        owner : Client, parent : Receipt \cup {NoReceipt}, root : Receipt,
        isParent : BOOLEAN, sourceTxn : Txn \cup {None}, sourceEvent : Key]

NoRow == [status |-> "NONE", approval |-> "NONE", quantity |-> 0,
          owner |-> None, parent |-> NoReceipt, root |-> NoReceipt,
          isParent |-> FALSE, sourceTxn |-> None, sourceEvent |-> None]

EventRow == [type : EventType, from : Receipt, quantity : Nat]
NoEvent == [type |-> "NONE", from |-> NoReceipt, quantity |-> 0]

VARIABLES
    minted,   \* how many receipts exist: they are 1..minted
    receipt,  \* the receipts table
    event     \* the inventory_events table, by its unique idempotency key

ledgerVars == <<minted, receipt, event>>

Minted == 1..minted

Children(r) == {c \in Minted : receipt[c].parent = r}

-----------------------------------------------------------------------------
(***************************************************************************)
(* Quantities.  A request carries more digits than numeric(18,3) keeps, so *)
(* requests are counted in units of 1/Scale of a stored unit.  PostgreSQL  *)
(* rounds half up on insert; comparisons in the handlers are made on the   *)
(* unrounded request.                                                      *)
(***************************************************************************)
Stored(x) == (2 * x + Scale) \div (2 * Scale)

Exactly(n) == n * Scale

-----------------------------------------------------------------------------
LedgerInit ==
    /\ minted = 0
    /\ receipt = [r \in Receipt |-> NoRow]
    /\ event = [k \in Key |-> NoEvent]

(* A ledger after one deposit of stock units, taken in and approved: where *)
(* the service modules start.                                              *)
Stocked(stock, deposited, admitted) ==
    /\ minted = 1
    /\ \E c \in Client :
          receipt = [r \in Receipt |->
              IF r = 1
              THEN [status |-> "ACTIVE", approval |-> "APPROVED",
                    quantity |-> stock, owner |-> c, parent |-> NoReceipt,
                    root |-> 1, isParent |-> FALSE, sourceTxn |-> None,
                    sourceEvent |-> deposited]
              ELSE NoRow]
    /\ event = [k \in Key |->
          CASE k = deposited -> [type |-> "DEPOSIT", from |-> 1, quantity |-> stock]
            [] k = admitted -> [type |-> "APPROVED", from |-> 1, quantity |-> stock]
            [] OTHER -> NoEvent]

(* The journal insert: the unique key admits one event, whatever happens.  *)
Record(k, type, r, q) ==
    /\ event[k] = NoEvent
    /\ event' = [event EXCEPT ![k] = [type |-> type, from |-> r, quantity |-> q]]

(* A call whose key is already in the journal reconstructs its answer and  *)
(* writes nothing.                                                         *)
Replay(k) ==
    /\ event[k] # NoEvent
    /\ UNCHANGED ledgerVars

(* One status-only transition of receipt r.                                *)
Update(r, row) ==
    /\ receipt' = [receipt EXCEPT ![r] = row]
    /\ UNCHANGED minted

(* Variant: the child starts a lineage of its own.                         *)
ChildOfNewRoot(src, k, q) ==
    [receipt[src] EXCEPT !.quantity = Stored(q), !.parent = src, !.root = src,
                         !.isParent = FALSE, !.sourceTxn = None,
                         !.sourceEvent = k]

(* A child of src; the callers overwrite what differs.                     *)
ChildOf(src, k, q) ==
    [receipt[src] EXCEPT !.quantity = Stored(q), !.parent = src,
                         !.isParent = FALSE, !.sourceTxn = None,
                         !.sourceEvent = k]

(* Variant: the remainder is inserted under an id still to be drawn.       *)
SplitMiscounted(src, kids) ==
    /\ minted + Len(kids) <= MaxReceipts
    /\ minted' = minted + 1
    /\ receipt' = [r \in Receipt |->
          IF r = src
          THEN [receipt[src] EXCEPT !.status = "SPLIT", !.isParent = TRUE]
          ELSE IF r \in minted + 1 .. minted + Len(kids)
               THEN kids[r - minted]
               ELSE receipt[r]]

(* Variant: the children are inserted, the source is not superseded.       *)
SplitKeepingSource(src, kids) ==
    /\ minted + Len(kids) <= MaxReceipts
    /\ minted' = minted + Len(kids)
    /\ receipt' = [r \in Receipt |->
          IF r \in minted + 1 .. minted + Len(kids)
          THEN kids[r - minted]
          ELSE receipt[r]]

(* src is superseded by its new children kids[1], kids[2].                 *)
Split(src, kids) ==
    /\ minted + Len(kids) <= MaxReceipts
    /\ minted' = minted + Len(kids)
    /\ receipt' = [r \in Receipt |->
          IF r = src
          THEN [receipt[src] EXCEPT !.status = "SPLIT", !.isParent = TRUE]
          ELSE IF r \in minted + 1 .. minted + Len(kids)
               THEN kids[r - minted]
               ELSE receipt[r]]

(* The primary child and, when something is left, an ACTIVE remainder.     *)
Partition(src, k, q, status, approval, owner, txn) ==
    LET rest == Exactly(receipt[src].quantity) - q
        primary == [ChildOf(src, k, q) EXCEPT !.status = status,
                       !.approval = approval, !.owner = owner, !.sourceTxn = txn]
        remainder == [ChildOf(src, k, rest) EXCEPT !.status = "ACTIVE",
                         !.approval = "APPROVED"]
    IN  Split(src, IF rest > 0 THEN <<primary, remainder>> ELSE <<primary>>)

-----------------------------------------------------------------------------
(***************************************************************************)
(* The primitives, in the order of inventory-ledger.service.ts.            *)
(***************************************************************************)
Deposit(k, c, q) ==
    /\ q > 0
    /\ minted < MaxReceipts
    /\ Record(k, "DEPOSIT", minted + 1, Stored(q))
    /\ minted' = minted + 1
    /\ receipt' = [receipt EXCEPT ![minted + 1] =
          [status |-> "PENDING_APPROVAL", approval |-> "PENDING",
           quantity |-> Stored(q), owner |-> c, parent |-> NoReceipt,
           root |-> minted + 1, isParent |-> FALSE, sourceTxn |-> None,
           sourceEvent |-> k]]

ApproveReceipt(k, r) ==
    /\ receipt[r].status = "PENDING_APPROVAL"
    /\ Record(k, "APPROVED", r, receipt[r].quantity)
    /\ Update(r, [receipt[r] EXCEPT !.status = "ACTIVE", !.approval = "APPROVED"])

(* Variant: an approved deposit can still be rejected.                     *)
RejectAny(k, r) ==
    /\ Record(k, "REJECTED", r, receipt[r].quantity)
    /\ Update(r, [receipt[r] EXCEPT !.status = "CANCELLED", !.approval = "REJECTED"])

RejectReceipt(k, r) ==
    /\ receipt[r].status = "PENDING_APPROVAL"
    /\ Record(k, "REJECTED", r, receipt[r].quantity)
    /\ Update(r, [receipt[r] EXCEPT !.status = "CANCELLED", !.approval = "REJECTED"])

(* Variant: more than the receipt holds can be held.                       *)
HoldUnbounded(k, src, q, heldStatus, txn) ==
    /\ receipt[src].status = "ACTIVE"
    /\ receipt[src].approval = "APPROVED"
    /\ ~receipt[src].isParent
    /\ q > 0
    /\ Record(k, "HOLD_PLACED", src, Stored(q))
    /\ Partition(src, k, q, heldStatus, "PENDING", receipt[src].owner, txn)

(* Variant: only closed receipts and parents are refused.                  *)
HoldUnapproved(k, src, q, heldStatus, txn) ==
    /\ receipt[src].status \notin ClosedStatus
    /\ ~receipt[src].isParent
    /\ q > 0
    /\ q <= Exactly(receipt[src].quantity)
    /\ Record(k, "HOLD_PLACED", src, Stored(q))
    /\ Partition(src, k, q, heldStatus, "PENDING", receipt[src].owner, txn)

Hold(k, src, q, heldStatus, txn) ==
    /\ receipt[src].status = "ACTIVE"
    /\ receipt[src].approval = "APPROVED"
    /\ ~receipt[src].isParent
    /\ q > 0
    /\ q <= Exactly(receipt[src].quantity)
    /\ Record(k, "HOLD_PLACED", src, Stored(q))
    /\ Partition(src, k, q, heldStatus, "PENDING", receipt[src].owner, txn)

IsHeld(r) == receipt[r].status \in HeldStatus

ApproveHold(k, r) ==
    /\ IsHeld(r)
    /\ receipt[r].approval = "PENDING"
    /\ Record(k, "APPROVED", r, receipt[r].quantity)
    /\ Update(r, [receipt[r] EXCEPT !.approval = "APPROVED"])

(* Variant: assertHeld is missing.                                         *)
ReleaseUnheld(k, r) ==
    /\ Record(k, "HOLD_RELEASED", r, receipt[r].quantity)
    /\ Update(r, [receipt[r] EXCEPT !.status = "ACTIVE", !.approval = "APPROVED"])

(* Variant: the approval of the hold survives its release.                 *)
ReleaseKeepsApproval(k, r) ==
    /\ IsHeld(r)
    /\ Record(k, "HOLD_RELEASED", r, receipt[r].quantity)
    /\ Update(r, [receipt[r] EXCEPT !.status = "ACTIVE"])

Release(k, r) ==
    /\ IsHeld(r)
    /\ Record(k, "HOLD_RELEASED", r, receipt[r].quantity)
    /\ Update(r, [receipt[r] EXCEPT !.status = "ACTIVE", !.approval = "APPROVED"])

(* Variant: assertHeld is missing.                                         *)
ConsumeUnheld(k, r) ==
    /\ Record(k, "CONSUMED", r, receipt[r].quantity)
    /\ Update(r, [receipt[r] EXCEPT !.status = "WITHDRAWN"])

Consume(k, r) ==
    /\ IsHeld(r)
    /\ Record(k, "CONSUMED", r, receipt[r].quantity)
    /\ Update(r, [receipt[r] EXCEPT !.status = "WITHDRAWN"])

(* Variant: the remainder is partitioned off like any other child.         *)
ReleasePartialUnattributed(k, r, q) ==
    LET rest == Exactly(receipt[r].quantity) - q
    IN  /\ receipt[r].status = "HELD_LIEN"
        /\ q > 0
        /\ rest > 0
        /\ Record(k, "HOLD_RELEASED", r, Stored(q))
        /\ Split(r, <<[ChildOf(r, k, q) EXCEPT !.status = "ACTIVE",
                                               !.approval = "APPROVED"],
                      ChildOf(r, k, rest)>>)

(* Not Partition: here the remainder stays under the lien, with the        *)
(* approval and the transaction of its parent.                             *)
ReleasePartial(k, r, q) ==
    LET rest == Exactly(receipt[r].quantity) - q
    IN  /\ receipt[r].status = "HELD_LIEN"
        /\ q > 0
        /\ rest > 0
        /\ Record(k, "HOLD_RELEASED", r, Stored(q))
        /\ Split(r, <<[ChildOf(r, k, q) EXCEPT !.status = "ACTIVE",
                                               !.approval = "APPROVED"],
                      [ChildOf(r, k, rest) EXCEPT
                          !.sourceTxn = receipt[r].sourceTxn]>>)

TransitionPledgeToLien(k, r) ==
    /\ receipt[r].status = "HELD_PLEDGE_PENDING"
    /\ Record(k, "PLEDGE_ACCEPTED", r, receipt[r].quantity)
    /\ Update(r, [receipt[r] EXCEPT !.status = "HELD_LIEN"])

SeizeFull(k, r, financier) ==
    /\ receipt[r].status = "HELD_LOAN"
    /\ Record(k, "SEIZED", r, receipt[r].quantity)
    /\ Update(r, [receipt[r] EXCEPT !.status = "SEIZED", !.owner = financier])

(* The journal records the whole quantity even when a part is seized.      *)
SeizePartial(k, r, financier, q) ==
    /\ receipt[r].status = "HELD_LOAN"
    /\ q > 0
    /\ q < Exactly(receipt[r].quantity)
    /\ Record(k, "SEIZED", r, receipt[r].quantity)
    /\ Partition(r, k, q, "SEIZED", "APPROVED", financier, receipt[r].sourceTxn)

(* No status check: any receipt can change hands.                          *)
TransferOwnership(k, r, newOwner) ==
    /\ Record(k, "OWNERSHIP_TRANSFERRED", r, receipt[r].quantity)
    /\ Update(r, [receipt[r] EXCEPT !.owner = newOwner])

(* Two journal rows, under key and key:release, always written together:   *)
(* one entry here.                                                         *)
TransferAndRelease(k, r, newOwner) ==
    /\ IsHeld(r)
    /\ Record(k, "TRANSFERRED_AND_RELEASED", r, receipt[r].quantity)
    /\ Update(r, [receipt[r] EXCEPT !.owner = newOwner, !.status = "ACTIVE",
                                    !.approval = "APPROVED"])

(* Variant: whatever its status, a receipt expires.                        *)
ExpireAny(k, r) ==
    /\ Record(k, "EXPIRED", r, receipt[r].quantity)
    /\ Update(r, [receipt[r] EXCEPT !.status = "EXPIRED"])

Expire(k, r) ==
    /\ receipt[r].status = "ACTIVE"
    /\ Record(k, "EXPIRED", r, receipt[r].quantity)
    /\ Update(r, [receipt[r] EXCEPT !.status = "EXPIRED"])

-----------------------------------------------------------------------------
(* Requests that a primitive can accept.                                   *)
Request == 1..Exactly(MaxQuantity)

RootStep(k) ==
    \/ \E c \in Client, q \in Request : Deposit(k, c, q)
    \/ \E r \in Minted : ApproveReceipt(k, r)
    \/ \E r \in Minted : RejectReceipt(k, r)

SplitStep(k) ==
    \E r \in Minted, q \in Request :
        \/ \E s \in HoldStatus, t \in Txn : Hold(k, r, q, s, t)
        \/ ReleasePartial(k, r, q)
        \/ \E c \in Client : SeizePartial(k, r, c, q)

StatusStep(k) ==
    \E r \in Minted :
        \/ ApproveHold(k, r)
        \/ Release(k, r)
        \/ Consume(k, r)
        \/ TransitionPledgeToLien(k, r)
        \/ Expire(k, r)

OwnerStep(k) ==
    \E r \in Minted, c \in Client :
        \/ SeizeFull(k, r, c)
        \/ TransferOwnership(k, r, c)
        \/ TransferAndRelease(k, r, c)

LedgerStep(k) == RootStep(k) \/ SplitStep(k) \/ StatusStep(k) \/ OwnerStep(k)

LedgerNext == \E k \in Key : LedgerStep(k)

LedgerSpec == LedgerInit /\ [][LedgerNext]_ledgerVars

-----------------------------------------------------------------------------
(***************************************************************************)
(* What the ledger promises.                                               *)
(***************************************************************************)

TableTypeOK ==
    /\ minted \in 0..MaxReceipts
    /\ receipt \in [Receipt -> Row \cup {NoRow}]
    /\ \A r \in Receipt : receipt[r] \in Row <=> r \in Minted

JournalTypeOK == event \in [Key -> EventRow \cup {NoEvent}]

(* Type invariant: the receipts that exist have well-formed rows, the ids  *)
(* not yet drawn are blank, and every journal row is a ledger event.       *)
LedgerTypeOK == TableTypeOK /\ JournalTypeOK

(* Rounding can create at most one stored unit per split, and none when    *)
(* requests carry no more digits than the column keeps.                    *)
Drift == IF Scale = 1 THEN 0 ELSE 1

ConservedAt(p) ==
    IF receipt[p].isParent
    THEN \/ \E a \in Minted : /\ Children(p) = {a}
                              /\ receipt[a].quantity = receipt[p].quantity
         \/ \E a, b \in Minted :
               /\ a # b
               /\ Children(p) = {a, b}
               /\ receipt[a].quantity + receipt[b].quantity
                     - receipt[p].quantity \in 0..Drift
    ELSE Children(p) = {}

(* Mass conservation, split by split (InventoryReconService.replayVerify   *)
(* and verifyAll): a superseded receipt has one child with its quantity or *)
(* two whose quantities add up to it, up to the rounding drift; a receipt  *)
(* that was not split has no children.                                     *)
SplitConservation == \A p \in Minted : ConservedAt(p)

(* What a set of rows of the table stands for together.                    *)
Amount(table, rs) == MapThenSumSet(LAMBDA r : table[r].quantity, rs)

(* replayVerify as the code states it: no drift at all.                    *)
ExactConservation ==
    \A p \in Minted :
        receipt[p].isParent => Amount(receipt, Children(p)) = receipt[p].quantity

Leaves(root) == {r \in Minted : receipt[r].root = root /\ ~receipt[r].isParent}
Parents(root) == {r \in Minted : receipt[r].root = root /\ receipt[r].isParent}

(* reconcileRoot: the leaves of a tree hold what its DEPOSIT event brought *)
(* in, whatever was split, released, seized or traded since; with rounding *)
(* the surplus never exceeds one unit per split.                           *)
LeavesReconcile ==
    \A k \in Key : event[k].type = "DEPOSIT" =>
        LET root == event[k].from
        IN  Amount(receipt, Leaves(root)) - event[k].quantity
                \in 0 .. Drift * Cardinality(Parents(root))

(* A child's lineage is that of the parent it was split from, and SPLIT,   *)
(* isParent and "has children" are the same thing.                         *)
Lineage ==
    \A r \in Minted :
        /\ receipt[r].isParent <=> receipt[r].status = "SPLIT"
        /\ receipt[r].isParent <=> Children(r) # {}
        /\ IF receipt[r].parent = NoReceipt
           THEN receipt[r].root = r
           ELSE /\ receipt[r].parent < r
                /\ receipt[r].root = receipt[receipt[r].parent].root
                /\ event[receipt[r].sourceEvent].from = receipt[r].parent

EventsOf(r, types) == {k \in Key : event[k].from = r /\ event[k].type \in types}

SplittingEvents(r) == {receipt[c].sourceEvent : c \in Children(r)}

(* The events after which receipt r no longer stands for any goods.        *)
SpendingEvents(r) ==
    EventsOf(r, {"CONSUMED", "SEIZED", "EXPIRED", "REJECTED"}) \cup SplittingEvents(r)

(* No double spend: however the primitives are interleaved and retried     *)
(* under fresh keys, the goods of one receipt leave it at most once.       *)
NoDoubleSpend == \A r \in Minted : \A j, k \in SpendingEvents(r) : j = k

(* The audit trail explains the table: the journal alone says whether a    *)
(* receipt is gone, split, awaiting approval or still held.                *)
JournalExplainsStatus ==
    \A r \in Minted :
        LET status == receipt[r].status
            Did(type) == EventsOf(r, {type}) # {}
        IN  /\ status = "WITHDRAWN" <=> Did("CONSUMED")
            /\ status = "EXPIRED" <=> Did("EXPIRED")
            /\ status = "CANCELLED" <=> Did("REJECTED")
            /\ status = "SPLIT" <=> SplittingEvents(r) # {}
            /\ status = "PENDING_APPROVAL" <=>
                  Did("DEPOSIT") /\ ~Did("APPROVED") /\ ~Did("REJECTED")
            /\ IsHeld(r) => /\ ~Did("TRANSFERRED_AND_RELEASED")
                            /\ ~Did("HOLD_RELEASED")

(* Stock cannot be stranded: a leaf that counts as available passes the    *)
(* guards of hold, even after it was held, approved or not, and released.  *)
AvailableIsTransactable ==
    \A r \in Minted : receipt[r].status = "ACTIVE" =>
        receipt[r].approval = "APPROVED" /\ ~receipt[r].isParent

(* Every held leaf names the transaction that holds it, the remainder of a *)
(* partial lien release included.                                          *)
HoldsAreAttributed ==
    \A r \in Minted : IsHeld(r) => receipt[r].sourceTxn # None

(* Nothing is held, traded or removed from a deposit nobody approved: a    *)
(* tree that has a held, split or departed receipt has an approved root.   *)
OnlyApprovedStockMoves ==
    \A r \in Minted :
        receipt[r].status \notin {"PENDING_APPROVAL", "CANCELLED"} =>
            EventsOf(receipt[r].root, {"APPROVED"}) # {}

(* A receipt never changes its quantity or lineage, a closed receipt never *)
(* reopens, and a leaf is held only from birth or by an accepted pledge:   *)
(* nothing turns an available leaf into a held one in place.               *)
ReceiptsOnlyAge ==
    \A r \in Minted :
        LET old == receipt[r]  new == receipt'[r]
        IN  /\ new.quantity = old.quantity
            /\ new.parent = old.parent /\ new.root = old.root
            /\ old.status \in ClosedStatus => new.status = old.status
            /\ new.status \in HeldStatus => old.status \in HeldStatus

HistoryIsFinal == [][ReceiptsOnlyAge]_ledgerVars

(* The trees are sound: their lineage is one, their leaves hold what came  *)
(* in.                                                                     *)
TreesReconcile == Lineage /\ LeavesReconcile

(* The journal explains the stock: what became of every receipt, and that  *)
(* an administrator let it in first.                                       *)
JournalExplainsStock == JournalExplainsStatus /\ OnlyApprovedStockMoves
=============================================================================
