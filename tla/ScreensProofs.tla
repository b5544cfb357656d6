---------------------------- MODULE ScreensProofs ----------------------------
(***************************************************************************)
(* Theorems about what the lists and the books show (Screens), and the     *)
(* figures of the dashboards and reports (Reports).                        *)
(*                                                                         *)
(* BookingInv ties the three tables: what a row of requests or liens says  *)
(* of the stock is so, and a receipt on hold has exactly one row that      *)
(* speaks of it.  It is inductive, one lemma for each handler, over what   *)
(* InventoryLedgerProofs proves of a step of the ledger; Recorded says     *)
(* what a step does to the rows that are there.  From the two follow the   *)
(* lists: the filter groups, the request shown for a receipt and the work  *)
(* queues.                                                                 *)
(*                                                                         *)
(* One handler is no step of the ledger: a correction rewrites a deposit   *)
(* that awaits its verdict (Corrects), so every invariant has a lemma for  *)
(* it beside those for the other handlers (Handled).                       *)
(*                                                                         *)
(* The books need a second invariant, Traced: which request dispatched a   *)
(* receipt or passed it on.  Then a sum over rows or lines is the sum over *)
(* the receipts they stand for (RowsStandForReceipts), the children of a   *)
(* split add up to it (NothingIsLost), and what is left is arithmetic.     *)
(*                                                                         *)
(* The figures need a third, Accounted: every receipt has a place and an   *)
(* event it came from, what is on hold is the client's, what rows say of   *)
(* it is so, and requests stand on trees with a verdict; and the ledger's  *)
(* JournalInv (JournalStaysTrue).  Most figures then follow by counting or *)
(* summing group by group; clients, requests and lots are finitely many    *)
(* (Finite).  The third invariant also gives what a statement keeps        *)
(* (HistoryIsKept).                                                        *)
(*                                                                         *)
(* Scale = 1: the handlers see the quantities that the ledger keeps.       *)
(***************************************************************************)
EXTENDS Reports, InventoryLedgerProofs

-----------------------------------------------------------------------------
(* The invariant.                                                          *)

(* A receipt on hold was split off for it: a deposit is never held whole.  *)
HeldAreChildren == \A r \in Minted : IsHeld(r) => receipt[r].parent # NoReceipt

(* A deposit that awaits its verdict is whole: a root with no descendants. *)
Awaits(r) == receipt[r].status = "PENDING_APPROVAL"

AwaitingAreWhole ==
    \A r \in Minted : Awaits(r) \/ Awaits(receipt[r].root) => receipt[r].parent = NoReceipt

LedgerSound == RowInv /\ Descent /\ Sized /\ HeldAreChildren /\ AwaitingAreWhole

Tables ==
    /\ lot \in [Receipt -> Lot \cup {NoLot}]
    /\ request = [t \in Txn |-> request[t]]
    /\ lien = [t \in Txn |-> lien[t]]

(* The receipt of t is held for t, with this status and approval.          *)
Backed(t, status, approval) ==
    LET r == receipt[request[t].receiptId]
    IN  r.status = status /\ r.approval = approval /\ r.sourceTxn = t

Standing(t) == lien[t].status \in {"ACTIVE", "PARTIALLY_RELEASED"}

(* The rows of t are well formed.                                          *)
RowsTyped(t) ==
    /\ request[t] = NoRequest \/ \E kind \in Kind : request[t] \in RequestRow(kind)
    /\ lien[t] \in LienRow \cup {NoLien}
    /\ request[t] # NoRequest => request[t].quantity \in 1..MaxQuantity
    /\ request[t].buyer # None => request[t].status = "SETTLED"
    /\ lien[t] # NoLien => At(t, "pledge", "ACCEPTED")

(* What the rows of t say of the stock.                                    *)
RowsBacked(t) ==
    /\ At(t, "withdrawal", "PAID_PENDING_APPROVAL") => Backed(t, "HELD_WITHDRAWAL", "PENDING")
    /\ At(t, "withdrawal", "APPROVED") => Backed(t, "HELD_WITHDRAWAL", "APPROVED")
    /\ At(t, "loan", "PENDING") => Backed(t, "HELD_LOAN", "PENDING")
    /\ At(t, "loan", "ACTIVE") => Backed(t, "HELD_LOAN", "APPROVED")
    /\ At(t, "trade", "LISTED") => Backed(t, "HELD_TRADE", "PENDING")
    /\ request[t].kind \in {"withdrawal", "loan", "trade"} /\ IsHeld(request[t].receiptId) =>
          receipt[request[t].receiptId].sourceTxn = t
    /\ Standing(t) => LET r == receipt[lien[t].receiptId]
                      IN  /\ r.status = "HELD_LIEN" /\ r.sourceTxn = t
                          /\ r.quantity = lien[t].remaining

(* What a receipt held for t says of the rows of t.                        *)
Holder(r, t) ==
    LET status == receipt[r].status
    IN  /\ receipt[r].sourceEvent \in {<<"hold", t>>, <<"release", t>>}
        /\ status = "HELD_WITHDRAWAL" =>
              /\ request[t].kind = "withdrawal" /\ request[t].receiptId = r
              /\ request[t].status \in {"PAID_PENDING_APPROVAL", "APPROVED"}
        /\ status = "HELD_LOAN" =>
              /\ request[t].kind = "loan" /\ request[t].receiptId = r
              /\ request[t].status \in {"PENDING", "ACTIVE"}
        /\ status = "HELD_TRADE" => At(t, "trade", "LISTED") /\ request[t].receiptId = r
        /\ status = "HELD_PLEDGE_PENDING" =>
              At(t, "pledge", "PENDING") /\ receipt[r].quantity = request[t].quantity
        /\ status = "HELD_LIEN" => Standing(t) /\ lien[t].receiptId = r

HeldFor(t) == {r \in Minted : IsHeld(r) /\ receipt[r].sourceTxn = t}

(* A transaction holds at most one receipt, and that one speaks of it.     *)
HoldsOne(t) ==
    /\ \A r \in HeldFor(t) : Holder(r, t)
    /\ \A r, s \in HeldFor(t) : r = s

HoldersAreTransactions == \A r \in Minted : IsHeld(r) => receipt[r].sourceTxn \in Txn

Booked(t) == RowsTyped(t) /\ RowsBacked(t) /\ HoldsOne(t)

BookingInv ==
    /\ LedgerSound
    /\ Tables
    /\ HoldersAreTransactions
    /\ \A t \in Txn : Booked(t)

-----------------------------------------------------------------------------
(* A step of the ledger: what has a verdict keeps it.                      *)
Decided == \A r \in Minted : Awaits(r)' => Awaits(r)

LEMMA LedgerKeeps ==
    ASSUME Scale = 1, LedgerSound, NEW k \in Key, LedgerStep(k)
    PROVE  LedgerSound' /\ Grown /\ Decided
<1>1. RowInv /\ Descent /\ Sized /\ HeldAreChildren /\ AwaitingAreWhole
  BY DEF LedgerSound
<1>2. RowInv' /\ Grown /\ Descent' /\ Sized'
  BY <1>1, StepGrows, StepKeepsDescent, StepKeepsSized
<1>3. \A r \in Minted : IsHeld(r)' => (receipt[r].parent # NoReceipt)'
  BY <1>1, <1>2 DEF Grown, SameLineage, HeldAreChildren, IsHeld
<1>4. LedgerInv /\ JournalTypeOK /\ RowsSettled /\ minted \in Nat
  BY <1>1, BoundsAssumption DEF RowInv, LedgerInv, TableTypeOK
<1>5. Decided
  <2>1. CASE TakenIn(k)
    BY <2>1 DEF TakenIn, Untouched, Decided, Awaits
  <2>2. ASSUME NEW s \in Minted, Aged(k, s)
        PROVE  Decided
    <3>1. receipt'[s].status = "PENDING_APPROVAL" => receipt[s].status = "PENDING_APPROVAL"
      BY <2>2, StatusRoles DEF Aged, Transition
    <3> QED
      BY <2>2, <3>1 DEF Aged, Untouched, Decided, Awaits
  <2>3. ASSUME NEW s \in Minted, Superseded(k, s)
        PROVE  Decided
    BY <2>3 DEF Superseded, Untouched, Decided, Awaits
  <2> QED
    BY <1>4, <2>1, <2>2, <2>3, StepShapes
<1>6. \A r \in Minted : Awaits(r)' \/ Awaits(receipt[r].root)' => (receipt[r].parent = NoReceipt)'
  BY <1>1, <1>2, <1>5 DEF Grown, SameLineage, AwaitingAreWhole, Decided, Descent, Awaits
<1>7. ASSUME NEW r \in Minted', r \notin Minted
      PROVE  /\ IsHeld(r)' => (receipt[r].parent # NoReceipt)'
             /\ Awaits(r)' \/ Awaits(receipt[r].root)' => (receipt[r].parent = NoReceipt)'
  <2>1. CASE TakenIn(k)
    <3>1. r = minted + 1
      BY <1>4, <1>7, <2>1 DEF TakenIn, Minted
    <3> QED
      BY <2>1, <3>1, StatusRoles DEF TakenIn, IsHeld
  <2>2. ASSUME NEW s \in Minted, Aged(k, s)
        PROVE  FALSE
    BY <1>7, <2>2 DEF Aged, Minted
  <2>3. ASSUME NEW s \in Minted, Superseded(k, s)
        PROVE  /\ receipt'[r].parent # NoReceipt
               /\ ~Awaits(r)' /\ ~Awaits(receipt[r].root)'
    <3>1. /\ receipt'[r].parent = s /\ receipt'[r].root = receipt[s].root
          /\ receipt'[s].root = receipt[s].root /\ receipt'[s].status = "SPLIT"
      BY <1>7, <2>3 DEF Superseded, BornOf, SameLineage
    <3>2. receipt'[r].status # "PENDING_APPROVAL" /\ ~Awaits(s)
      BY <1>7, <2>3, CarvingRoles, StatusRoles DEF Superseded, Carving, Awaits
    <3>3. ~Awaits(receipt[s].root)'
      <4>1. CASE receipt[s].parent = NoReceipt
        BY <1>1, <3>1, <4>1 DEF Descent, Awaits
      <4>2. CASE receipt[s].parent # NoReceipt
        <5>1. receipt[s].root \in Minted /\ receipt[receipt[s].root].status # "PENDING_APPROVAL"
          BY <1>1, <4>2 DEF Descent, AwaitingAreWhole, Awaits
        <5> QED
          BY <1>5, <3>1, <5>1 DEF Decided, Awaits
      <4> QED
        BY <4>1, <4>2
    <3> QED
      BY <3>1, <3>2, <3>3 DEF Minted, NoReceipt, Awaits
  <2> QED
    BY <1>4, <2>1, <2>2, <2>3, StepShapes
<1> QED
  BY <1>2, <1>3, <1>5, <1>6, <1>7 DEF LedgerSound, HeldAreChildren, AwaitingAreWhole

(* The children of an event are of the tree of its receipt.                *)
LEMMA BornUnder ==
    ASSUME LedgerSound', NEW k \in Key, NEW r \in Minted, Grown, Writes(k, r),
           NEW c \in Minted', (IsHeld(c))', receipt'[c].sourceEvent = k
    PROVE  receipt'[c].root = receipt[r].root
<1>1. receipt'[c].parent # NoReceipt
  BY DEF LedgerSound, HeldAreChildren
<1>2. event'[k].from = r /\ receipt'[r].root = receipt[r].root
  BY DEF Writes, Journals, Grown, SameLineage
<1> QED
  BY <1>1, <1>2 DEF LedgerSound, Descent

-----------------------------------------------------------------------------
(* A step that concerns one transaction, or none.                          *)
Concerns(t0) ==
    /\ LedgerSound' /\ Grown /\ Tables'
    /\ \A t \in Txn \ {t0} : request'[t] = request[t] /\ lien'[t] = lien[t]
    /\ \A r \in Minted : IsHeld(r) /\ receipt[r].sourceTxn # t0 => receipt'[r] = receipt[r]
    /\ \A r \in Minted' \ Minted : (IsHeld(r))' => receipt'[r].sourceTxn = t0

LEMMA OthersStayBooked ==
    ASSUME BookingInv, NEW t0, Concerns(t0), NEW t \in Txn, t # t0
    PROVE  Booked(t)'
<1>1. /\ request'[t] = request[t] /\ lien'[t] = lien[t]
      /\ Minted \subseteq Minted'
      /\ \A r \in Minted : IsHeld(r) /\ receipt[r].sourceTxn = t => receipt'[r] = receipt[r]
      /\ Booked(t)
  BY DEF Concerns, Grown, BookingInv
<1>2. RowsTyped(t)'
  BY <1>1 DEF Booked, RowsTyped, RequestRow, LienRow, At
<1>3. ASSUME NEW r \in Minted', (IsHeld(r))', receipt'[r].sourceTxn = t
      PROVE  r \in HeldFor(t) /\ receipt'[r] = receipt[r]
  <2>1. r \in Minted
    BY <1>3 DEF Concerns
  <2>2. IsHeld(r) /\ receipt[r].sourceTxn = t
    BY <1>3, <2>1 DEF Concerns, Grown, SameLineage, IsHeld
  <2> QED
    BY <1>1, <2>1, <2>2 DEF HeldFor
<1>4. HoldsOne(t)'
  <2>1. HeldFor(t)' \subseteq HeldFor(t) /\ \A r \in HeldFor(t)' : receipt'[r] = receipt[r]
    BY <1>3 DEF HeldFor
  <2>2. \A r \in HeldFor(t)' : Holder(r, t)'
    BY <1>1, <2>1 DEF Booked, HoldsOne, Holder, At, Standing
  <2> QED
    BY <1>1, <2>1, <2>2 DEF Booked, HoldsOne
<1>5. RowsBacked(t)'
  <2>1. request[t].kind \in {"withdrawal", "loan", "trade"} => request[t].receiptId \in Minted
    BY <1>1 DEF Booked, RowsTyped, RequestRow, NoRequest
  <2>2. Standing(t) => lien[t].receiptId \in Minted
    BY <1>1 DEF Booked, RowsTyped, Standing, LienRow, NoLien
  <2>3. RowsBacked(t)
    BY <1>1 DEF Booked
  <2>4. \A approval : \A status \in HeldStatus :
           request[t].kind \in {"withdrawal", "loan", "trade"} /\ Backed(t, status, approval)
               => Backed(t, status, approval)'
    BY <1>1, <2>1 DEF Backed, IsHeld
  <2>5. request[t].kind \in {"withdrawal", "loan", "trade"} /\ (IsHeld(request[t].receiptId))' =>
          (receipt[request[t].receiptId].sourceTxn = t)'
    BY <1>1, <2>1, <2>3 DEF RowsBacked, Concerns, Grown, SameLineage, IsHeld
  <2>6. Standing(t)' => receipt'[lien[t].receiptId] = receipt[lien[t].receiptId]
    BY <1>1, <2>2, <2>3, StatusRoles DEF RowsBacked, IsHeld, Standing
  <2>7. {"HELD_WITHDRAWAL", "HELD_LOAN", "HELD_TRADE"} \subseteq HeldStatus
    BY DEF HeldStatus
  <2> QED
    BY <1>1, <2>3, <2>4, <2>5, <2>6, <2>7 DEF RowsBacked, At, Standing
<1> QED
  BY <1>2, <1>4, <1>5 DEF Booked

LEMMA OneStaysBooked ==
    ASSUME BookingInv, NEW t0 \in Txn, Concerns(t0), Booked(t0)'
    PROVE  BookingInv'
<1>1. \A t \in Txn : Booked(t)'
  BY OthersStayBooked
<1>2. \A r \in Minted' : (IsHeld(r))' => receipt'[r].sourceTxn \in Txn
  BY DEF BookingInv, HoldersAreTransactions, Concerns, Grown, SameLineage, IsHeld
<1> QED
  BY <1>1, <1>2 DEF BookingInv, Concerns, HoldersAreTransactions

LEMMA NoneStaysBooked ==
    ASSUME BookingInv, Concerns(None)
    PROVE  BookingInv'
<1>1. \A t \in Txn : t # None
  BY NoneAssumption
<1>2. \A t \in Txn : Booked(t)'
  BY <1>1, OthersStayBooked
<1>3. \A r \in Minted' : (IsHeld(r))' => receipt'[r].sourceTxn # None
  BY DEF Concerns, LedgerSound, RowInv, RowsSettled, Settled, IsHeld
<1>4. \A r \in Minted' : (IsHeld(r))' => receipt'[r].sourceTxn \in Txn
  BY <1>3 DEF BookingInv, HoldersAreTransactions, Concerns, Grown, SameLineage, IsHeld
<1> QED
  BY <1>2, <1>4 DEF BookingInv, Concerns, HoldersAreTransactions

-----------------------------------------------------------------------------
(* What a step may not do to the statements: take the deposits from their  *)
(* owner, move a pile, or rewrite whose a request is, of what and where.   *)
RowKept(t) ==
    LET old == request[t]  new == request'[t]
    IN  old # NoRequest =>
          /\ new.kind = old.kind /\ new.client = old.client /\ new.quantity = old.quantity
          /\ old.buyer # None => new.buyer = old.buyer
          /\ receipt'[new.receiptId].root = receipt[old.receiptId].root
          /\ old.kind = "loan" => new.receiptId = old.receiptId

Recorded ==
    /\ Grown
    /\ \A r \in Minted : receipt[r].parent = NoReceipt => receipt'[r].owner = receipt[r].owner
    /\ \A r \in Minted : lot'[r] = lot[r]
    /\ \A t \in Txn : RowKept(t)

Sound == BookingInv' /\ Recorded

(* A step of the ledger that concerns the goods of t0 only.                *)
Handles(t0) ==
    /\ LedgerSound' /\ Grown
    /\ \A r \in Minted : IsHeld(r) /\ receipt[r].sourceTxn # t0 => receipt'[r] = receipt[r]
    /\ \A r \in Minted' \ Minted : (IsHeld(r))' => receipt'[r].sourceTxn = t0
    /\ \A r \in Minted : IsHeld(r) \/ receipt'[r].owner = receipt[r].owner

LEMMA RootsKeepTheirOwner ==
    ASSUME BookingInv, NEW t0, Handles(t0), NEW r \in Minted, receipt[r].parent = NoReceipt
    PROVE  receipt'[r].owner = receipt[r].owner
  BY DEF BookingInv, LedgerSound, HeldAreChildren, Handles

LEMMA KeysAndHolds ==
    ASSUME BookingAssumption
    PROVE  /\ \A t \in Txn : /\ <<"hold", t>> \in Key /\ <<"approve", t>> \in Key
                            /\ <<"close", t>> \in Key /\ <<"release", t>> \in Key
           /\ \A r \in Receipt : <<"deposit", r>> \in Key /\ <<"verdict", r>> \in Key
           /\ \A kind \in Kind : HoldOf[kind] \in HoldStatus
           /\ Kind = {"withdrawal", "loan", "trade", "pledge"}
<1>1. \A t \in Txn : /\ <<"hold", t>> \in BookingKey /\ <<"approve", t>> \in BookingKey
                    /\ <<"close", t>> \in BookingKey /\ <<"release", t>> \in BookingKey
  BY DEF BookingKey
<1>2. \A r \in Receipt : <<"deposit", r>> \in BookingKey /\ <<"verdict", r>> \in BookingKey
  BY DEF BookingKey
<1>3. Kind = {"withdrawal", "loan", "trade", "pledge"}
  BY DEF Kind, RequestStatus
<1> QED
  BY <1>1, <1>2, <1>3 DEF BookingAssumption

(* The rows of another transaction stay in their tables.                   *)
LEMMA PutKeeps ==
    ASSUME BookingInv, NEW t \in Txn, NEW row, request' = [request EXCEPT ![t] = row]
    PROVE  /\ request'[t] = row
           /\ \A u \in Txn \ {t} : request'[u] = request[u]
           /\ request' = [u \in Txn |-> request'[u]]
<1>1. request = [u \in Txn |-> request[u]]
  BY DEF BookingInv, Tables
<1> QED
  BY <1>1

(* An unfiled request keeps nothing.                                       *)
LEMMA StatementsGrow ==
    ASSUME BookingInv, NEW t \in Txn, Handles(t), lot' = lot, RowKept(t),
           \A u \in Txn \ {t} : request'[u] = request[u]
    PROVE  Recorded
<1>1. ASSUME NEW u \in Txn, u # t
      PROVE  RowKept(u)
  <2>1. request[u] # NoRequest => request[u].receiptId \in Minted
    BY DEF BookingInv, Booked, RowsTyped, RequestRow
  <2> QED
    BY <1>1, <2>1 DEF RowKept, Handles, Grown, SameLineage
<1> QED
  BY <1>1, RootsKeepTheirOwner DEF Recorded, Handles

-----------------------------------------------------------------------------
(* What the ledger does for the handlers.                                  *)

(* A primitive on the receipt that t holds.                                *)
LEMMA HeldIsHandled ==
    ASSUME Scale = 1, BookingInv, NEW t \in Txn, NEW x \in HeldFor(t),
           NEW k \in Key, LedgerStep(k), minted' = minted, Untouched(Minted \ {x})
    PROVE  /\ Handles(t) /\ HeldFor(t)' \subseteq {x}
           /\ x \in HeldFor(t)' <=> receipt'[x].status \in HeldStatus
<1>1. LedgerSound' /\ Grown
  BY LedgerKeeps DEF BookingInv
<1>2. Minted' = Minted /\ x \in Minted /\ IsHeld(x) /\ receipt[x].sourceTxn = t
  BY DEF Minted, HeldFor
<1>3. \A r \in Minted : r # x => receipt'[r] = receipt[r]
  BY DEF Untouched
<1>4. Handles(t)
  BY <1>1, <1>2, <1>3 DEF Handles
<1>5. HeldFor(t)' \subseteq HeldFor(t)
  BY <1>1, <1>2 DEF HeldFor, Grown, SameLineage, IsHeld
<1>6. \A r \in HeldFor(t) : r = x
  BY DEF BookingInv, Booked, HoldsOne
<1>7. x \in HeldFor(t)' <=> receipt'[x].status \in HeldStatus
  BY <1>1, <1>2 DEF HeldFor, Grown, SameLineage, IsHeld
<1> QED
  BY <1>4, <1>5, <1>6, <1>7

(* release, consume and transferAndRelease end the hold.                   *)
LEMMA HoldEnds ==
    ASSUME BookingAssumption, Scale = 1, BookingInv, NEW t \in Txn, NEW x \in HeldFor(t),
           NEW k \in Key,
           Release(k, x) \/ Consume(k, x) \/ \E b \in Client : TransferAndRelease(k, x, b)
    PROVE  Handles(t) /\ HeldFor(t)' = {} /\ receipt'[x].status \notin HeldStatus
<1>1. x \in Minted /\ RowInv
  BY DEF HeldFor, BookingInv, LedgerSound
<1>2. LedgerStep(k)
  BY <1>1 DEF LedgerStep, StatusStep, OwnerStep
<1>3. receipt[x] \in Row
  BY <1>1, BoundsAssumption DEF RowInv, LedgerInv, TableTypeOK, Minted, Receipt
<1>4. /\ minted' = minted /\ Untouched(Minted \ {x})
      /\ receipt'[x].status \in {"ACTIVE", "WITHDRAWN"}
  <2>1. CASE Release(k, x)
    <3> DEFINE row == [receipt[x] EXCEPT !.status = "ACTIVE", !.approval = "APPROVED"]
    <3>1. Update(x, row)
      BY <2>1 DEF Release
    <3>2. row.status = "ACTIVE"
      BY <1>3 DEF Row
    <3> HIDE DEF row
    <3> QED
      BY <1>1, <3>1, <3>2, UpdateIs
  <2>2. CASE Consume(k, x)
    <3> DEFINE row == [receipt[x] EXCEPT !.status = "WITHDRAWN"]
    <3>1. Update(x, row)
      BY <2>2 DEF Consume
    <3>2. row.status = "WITHDRAWN"
      BY <1>3 DEF Row
    <3> HIDE DEF row
    <3> QED
      BY <1>1, <3>1, <3>2, UpdateIs
  <2>3. ASSUME NEW b \in Client, TransferAndRelease(k, x, b)
        PROVE  /\ minted' = minted /\ Untouched(Minted \ {x})
               /\ receipt'[x].status = "ACTIVE"
    <3> DEFINE row == [receipt[x] EXCEPT !.owner = b, !.status = "ACTIVE",
                                    !.approval = "APPROVED"]
    <3>1. Update(x, row)
      BY <2>3 DEF TransferAndRelease
    <3>2. row.status = "ACTIVE"
      BY <1>3 DEF Row
    <3> HIDE DEF row
    <3> QED
      BY <1>1, <3>1, <3>2, UpdateIs
  <2> QED
    BY <2>1, <2>2, <2>3
<1>5. receipt'[x].status \notin HeldStatus
  BY <1>4, StatusRoles
<1> QED
  BY <1>2, <1>4, <1>5, HeldIsHandled

(* approveHold keeps the hold, approved.                                   *)
LEMMA HoldIsApproved ==
    ASSUME Scale = 1, BookingInv, NEW t \in Txn, NEW x \in HeldFor(t),
           NEW k \in Key, ApproveHold(k, x)
    PROVE  /\ Handles(t) /\ HeldFor(t)' = {x}
           /\ receipt'[x].status = receipt[x].status /\ receipt'[x].approval = "APPROVED"
           /\ receipt'[x].sourceEvent = receipt[x].sourceEvent
           /\ receipt'[x].root = receipt[x].root
<1>1. x \in Minted /\ RowInv /\ IsHeld(x)
  BY DEF HeldFor, BookingInv, LedgerSound
<1>2. LedgerStep(k)
  BY <1>1 DEF LedgerStep, StatusStep
<1>3. receipt[x] \in Row
  BY <1>1, BoundsAssumption DEF RowInv, LedgerInv, TableTypeOK, Minted, Receipt
<1>4. /\ Grown /\ minted' = minted /\ Untouched(Minted \ {x})
      /\ receipt'[x] = [receipt[x] EXCEPT !.approval = "APPROVED"]
  BY <1>1, ApproveHoldIs DEF Ages
<1>5. /\ receipt'[x].status = receipt[x].status /\ receipt'[x].approval = "APPROVED"
      /\ receipt'[x].sourceEvent = receipt[x].sourceEvent
      /\ receipt'[x].root = receipt[x].root
  BY <1>3, <1>4 DEF Row
<1>6. receipt'[x].status \in HeldStatus
  BY <1>1, <1>5 DEF IsHeld
<1>7. /\ Handles(t) /\ HeldFor(t)' \subseteq {x}
      /\ x \in HeldFor(t)' <=> receipt'[x].status \in HeldStatus
  BY <1>2, <1>4, HeldIsHandled
<1> QED
  BY <1>5, <1>6, <1>7

(* hold: a new receipt of the same tree, the only one that t holds.        *)
LEMMA HoldBegins ==
    ASSUME BookingAssumption, Scale = 1, BookingInv, NEW t \in Txn, HeldFor(t) = {},
           NEW r \in Minted, NEW n \in 1..MaxQuantity, NEW kind \in Kind,
           Hold(<<"hold", t>>, r, Exactly(n), HoldOf[kind], t)
    PROVE  /\ Handles(t)
           /\ \E a \in Minted' \ Minted :
                 /\ HeldFor(t)' = {a} /\ HeldChild(t)' = {a}
                 /\ receipt'[a].status = HoldOf[kind] /\ receipt'[a].approval = "PENDING"
                 /\ receipt'[a].quantity = n
                 /\ receipt'[a].sourceTxn = t /\ receipt'[a].sourceEvent = <<"hold", t>>
                 /\ receipt'[a].root = receipt[r].root
<1> DEFINE k == <<"hold", t>>
           s == HoldOf[kind]
<1>1. k \in Key /\ s \in HoldStatus
  BY KeysAndHolds
<1>2. RowInv /\ receipt[r] \in Row
  BY BoundsAssumption DEF BookingInv, LedgerSound, RowInv, LedgerInv, TableTypeOK, Minted, Receipt
<1>3. Reserves(k, r, n, s, t) /\ Grown
  BY <1>1, <1>2, HoldIs
<1>4. LedgerStep(k)
  BY <1>1, WholeRequest DEF LedgerStep, SplitStep
<1>5. LedgerSound'
  BY <1>1, <1>4, LedgerKeeps DEF BookingInv
<1>6. PICK a \in Minted' \ Minted :
           /\ receipt'[a].status = s
           /\ receipt'[a].approval = "PENDING"
           /\ receipt'[a].quantity = n
           /\ receipt'[a].sourceTxn = t
           /\ receipt'[a].sourceEvent = k
           /\ \A b \in Minted' \ (Minted \cup {a}) : receipt'[b].status = "ACTIVE"
  BY <1>3 DEF Reserves
<1>7. receipt'[a].status \in HeldStatus /\ "ACTIVE" \notin HeldStatus /\ "SPLIT" \notin HeldStatus
  BY <1>1, <1>6, StatusRoles
<1>8. /\ receipt[r].status = "ACTIVE" /\ receipt'[r].owner = receipt[r].owner
      /\ \A x \in Minted : x # r => receipt'[x] = receipt[x]
  <2>1. receipt'[r] = [receipt[r] EXCEPT !.status = "SPLIT", !.isParent = TRUE]
    BY <1>3 DEF Reserves
  <2> QED
    BY <1>2, <1>3, <2>1 DEF Reserves, Untouched, Row
<1>9. \A x \in Minted' \ Minted : (IsHeld(x))' => x = a
  BY <1>6, <1>7 DEF IsHeld
<1>10. Handles(t)
  BY <1>3, <1>5, <1>6, <1>7, <1>8, <1>9 DEF Handles, IsHeld
<1>11. receipt'[a].root = receipt[r].root
  <2>1. Writes(k, r) /\ (IsHeld(a))'
    BY <1>3, <1>6, <1>7 DEF Reserves, IsHeld
  <2> QED
    BY <1>1, <1>3, <1>5, <1>6, <2>1, BornUnder
<1>12. \A x \in Minted : (IsHeld(x))' => IsHeld(x) /\ receipt'[x] = receipt[x]
  BY <1>3, <1>7, <1>8 DEF Grown, IsHeld
<1>13. \A x \in Minted : IsHeld(x) => receipt[x].sourceTxn # t /\ receipt[x].sourceEvent # k
  <2>1. ASSUME NEW x \in Minted, IsHeld(x)
        PROVE  receipt[x].sourceTxn # t /\ receipt[x].sourceEvent # k
    <3>1. receipt[x].sourceTxn # t
      BY <2>1 DEF HeldFor
    <3>2. PICK u \in Txn : u = receipt[x].sourceTxn
      BY <2>1 DEF BookingInv, HoldersAreTransactions
    <3>3. Holder(x, u)
      BY <2>1, <3>2 DEF BookingInv, Booked, HoldsOne, HeldFor
    <3> QED
      BY <3>1, <3>2, <3>3 DEF Holder
  <2> QED
    BY <2>1
<1>14. HeldFor(t)' = {a} /\ HeldChild(t)' = {a}
  BY <1>6, <1>7, <1>9, <1>12, <1>13 DEF HeldFor, HeldChild, IsHeld
<1> QED
  BY <1>6, <1>10, <1>11, <1>14

-----------------------------------------------------------------------------
(* What a handler does to the row of its request.                          *)

(* The pairs of a status and an approval under which goods are on hold.    *)
OnHold(kind, status, approval) ==
    \/ kind = "withdrawal" /\ status = "PAID_PENDING_APPROVAL" /\ approval = "PENDING"
    \/ kind = "withdrawal" /\ status = "APPROVED" /\ approval = "APPROVED"
    \/ kind = "loan" /\ status = "PENDING" /\ approval = "PENDING"
    \/ kind = "loan" /\ status = "ACTIVE" /\ approval = "APPROVED"
    \/ kind = "trade" /\ status = "LISTED" /\ approval = "PENDING"

(* The row points at the receipt that is held for it.                      *)
LEMMA RequestHolds ==
    ASSUME BookingInv, NEW t \in Txn, Handles(t), lien[t] = NoLien,
           NEW a \in Minted', HeldFor(t)' = {a},
           NEW kind \in {"withdrawal", "loan", "trade"}, NEW row \in RequestRow(kind)',
           receipt'[a].status = HoldOf[kind],
           receipt'[a].sourceEvent \in {<<"hold", t>>, <<"release", t>>},
           OnHold(kind, row.status, receipt'[a].approval),
           row.receiptId = a, row.quantity \in 1..MaxQuantity, row.buyer = None,
           request' = [request EXCEPT ![t] = row], Alone,
           request[t] # NoRequest => /\ request[t].kind = kind
                                     /\ request[t].client = row.client
                                     /\ request[t].quantity = row.quantity
                                     /\ request[t].buyer = None
                                     /\ receipt'[a].root = receipt[request[t].receiptId].root
                                     /\ kind = "loan" => request[t].receiptId = a
    PROVE  Sound
<1>1. /\ request'[t] = row /\ \A u \in Txn \ {t} : request'[u] = request[u]
      /\ Tables' /\ lien' = lien /\ lot' = lot
  BY PutKeeps DEF Alone, BookingInv, Tables
<1>2. Concerns(t)
  BY <1>1 DEF Handles, Concerns
<1>3. /\ row.kind = kind /\ kind \in Kind /\ row \in RequestRow(kind)'
      /\ lien'[t] = NoLien /\ row # NoRequest
  BY <1>1 DEF RequestRow, Kind, RequestStatus, NoRequest
<1>4. RowsTyped(t)'
  BY <1>1, <1>3 DEF RowsTyped
<1>5. /\ (IsHeld(a))' /\ receipt'[a].sourceTxn = t
  BY DEF HeldFor
<1>6. RowsBacked(t)'
  BY <1>1, <1>3, <1>5 DEF RowsBacked, OnHold, At, Backed, Standing, NoLien, HoldOf
<1>7. Holder(a, t)'
  BY <1>1, <1>3 DEF Holder, OnHold, HoldOf, At
<1>8. HoldsOne(t)'
  BY <1>7 DEF HoldsOne
<1>9. RowKept(t)
  BY <1>1, <1>3 DEF RowKept
<1> QED
  BY <1>1, <1>2, <1>4, <1>6, <1>8, <1>9, OneStaysBooked, StatementsGrow DEF Sound, Booked

(* The row of a request whose goods are no longer, or not yet, on hold.    *)
LEMMA RequestRests ==
    ASSUME BookingInv, NEW t \in Txn, Handles(t), HeldFor(t)' = {}, lien[t] = NoLien,
           NEW kind \in Kind, NEW row \in RequestRow(kind)',
           row.status \in {"PENDING_PAYMENT", "REJECTED", "COMPLETED", "REPAID",
                           "SETTLED", "CANCELLED"},
           row.quantity \in 1..MaxQuantity,
           row.buyer # None => row.status = "SETTLED",
           request' = [request EXCEPT ![t] = row], Alone,
           row.receiptId \in Minted,
           kind # "pledge" => receipt'[row.receiptId].status \notin HeldStatus,
           request[t] # NoRequest => /\ request[t].kind = kind
                                     /\ request[t].client = row.client
                                     /\ request[t].quantity = row.quantity
                                     /\ request[t].buyer = None
                                     /\ request[t].receiptId = row.receiptId
    PROVE  Sound
<1>1. /\ request'[t] = row /\ \A u \in Txn \ {t} : request'[u] = request[u]
      /\ Tables' /\ lien' = lien /\ lot' = lot
  BY PutKeeps DEF Alone, BookingInv, Tables
<1>2. Concerns(t)
  BY <1>1 DEF Handles, Concerns
<1>3. /\ row.kind = kind /\ row \in RequestRow(kind)'
      /\ lien'[t] = NoLien /\ row # NoRequest
  BY <1>1 DEF RequestRow, Kind, RequestStatus, NoRequest
<1>4. RowsTyped(t)'
  BY <1>1, <1>3 DEF RowsTyped
<1>6. RowsBacked(t)'
  BY <1>1, <1>3 DEF RowsBacked, At, Standing, NoLien, IsHeld
<1>8. HoldsOne(t)'
  BY DEF HoldsOne
<1>9. RowKept(t)
  BY <1>1, <1>3 DEF RowKept, Handles, Grown, SameLineage
<1> QED
  BY <1>1, <1>2, <1>4, <1>6, <1>8, <1>9, OneStaysBooked, StatementsGrow DEF Sound, Booked

(* What an open request holds.                                             *)
LEMMA OpenHolds ==
    ASSUME BookingInv, NEW t \in Txn, NEW kind, NEW status, NEW approval,
           At(t, kind, status), OnHold(kind, status, approval)
    PROVE  LET x == request[t].receiptId
           IN  /\ kind \in Kind \ {"pledge"}
               /\ x \in HeldFor(t) /\ x \in Minted
               /\ receipt[x].status = HoldOf[kind] /\ receipt[x].approval = approval
               /\ request[t] \in RequestRow(kind) /\ request[t] # NoRequest
               /\ request[t].quantity \in 1..MaxQuantity /\ request[t].buyer = None
               /\ lien[t] = NoLien
<1>1. RowsTyped(t) /\ RowsBacked(t)
  BY DEF BookingInv, Booked
<1>2. kind \in Kind \ {"pledge"}
  BY DEF OnHold, Kind, RequestStatus
<1>3. request[t].kind = kind /\ request[t].status = status /\ kind # "none" /\ status # "SETTLED"
  BY DEF At, OnHold
<1>4. request[t] # NoRequest
  BY <1>3 DEF NoRequest
<1>5. request[t] \in RequestRow(kind)
  BY <1>1, <1>3, <1>4 DEF RowsTyped, RequestRow
<1>6. request[t].quantity \in 1..MaxQuantity /\ request[t].buyer = None /\ lien[t] = NoLien
  BY <1>1, <1>2, <1>3, <1>4 DEF RowsTyped, At
<1>7. Backed(t, HoldOf[kind], approval)
  BY <1>1, <1>2 DEF RowsBacked, OnHold, HoldOf
<1>8. HoldOf[kind] \in HeldStatus
  BY <1>2 DEF HoldOf, HeldStatus, Kind, RequestStatus
<1> QED
  BY <1>2, <1>4, <1>5, <1>6, <1>7, <1>8 DEF Backed, HeldFor, IsHeld, RequestRow

LEMMA OpenCloses ==
    ASSUME BookingAssumption, Scale = 1, BookingInv, NEW t \in Txn,
           NEW kind, NEW status, NEW approval,
           At(t, kind, status), OnHold(kind, status, approval),
           \/ Release(<<"close", t>>, request[t].receiptId)
           \/ Consume(<<"close", t>>, request[t].receiptId)
           \/ \E b \in Client : TransferAndRelease(<<"close", t>>, request[t].receiptId, b),
           NEW final \in RequestStatus[kind],
           final \in {"REJECTED", "COMPLETED", "REPAID", "SETTLED", "CANCELLED"},
           NEW buyer \in Client \cup {None}, buyer # None => final = "SETTLED",
           request' = [request EXCEPT
                          ![t] = [request[t] EXCEPT !.status = final, !.buyer = buyer]],
           Alone
    PROVE  Sound
<1> DEFINE x == request[t].receiptId
           row == [request[t] EXCEPT !.status = final, !.buyer = buyer]
<1>1. /\ kind \in Kind \ {"pledge"}
      /\ x \in HeldFor(t) /\ x \in Minted
      /\ request[t] \in RequestRow(kind) /\ request[t] # NoRequest
      /\ request[t].quantity \in 1..MaxQuantity /\ request[t].buyer = None
      /\ lien[t] = NoLien
  BY OpenHolds
<1>2. Handles(t) /\ HeldFor(t)' = {} /\ receipt'[x].status \notin HeldStatus
  BY <1>1, KeysAndHolds, HoldEnds
<1>3. Minted \subseteq Minted'
  BY <1>2 DEF Handles, Grown
<1>4. /\ row \in RequestRow(kind)' /\ row.status = final /\ row.buyer = buyer
      /\ row.receiptId = x /\ row.quantity = request[t].quantity
      /\ row.client = request[t].client /\ request[t].kind = kind
  BY <1>1, <1>3 DEF RequestRow
<1> HIDE DEF row, x
<1>5. request' = [request EXCEPT ![t] = row]
  BY DEF row
<1>6. request[t].receiptId = x
  BY DEF x
<1>7. /\ row.status \in {"PENDING_PAYMENT", "REJECTED", "COMPLETED", "REPAID",
                         "SETTLED", "CANCELLED"}
      /\ row.quantity \in 1..MaxQuantity
      /\ row.buyer # None => row.status = "SETTLED"
      /\ row.receiptId \in Minted
      /\ receipt'[row.receiptId].status \notin HeldStatus
  BY <1>1, <1>2, <1>4
<1>8. request[t] # NoRequest => /\ request[t].kind = kind
                                /\ request[t].client = row.client
                                /\ request[t].quantity = row.quantity
                                /\ request[t].buyer = None
                                /\ request[t].receiptId = row.receiptId
  BY <1>1, <1>4, <1>6
<1>9. kind \in Kind /\ row \in RequestRow(kind)' /\ lien[t] = NoLien
  BY <1>1, <1>4
<1> QED
  BY <1>2, <1>5, <1>7, <1>8, <1>9, RequestRests

(* Only the status of a row is written.                                    *)
LEMMA PutIsRow ==
    ASSUME BookingInv, NEW t \in Txn, NEW final, Put(t, final)
    PROVE  request' = [request EXCEPT ![t] = [request[t] EXCEPT !.status = final]]
  BY DEF Put

LEMMA PutClosed ==
    ASSUME BookingInv, NEW t \in Txn, NEW final, Put(t, final), NEW kind,
           request[t] \in RequestRow(kind), request[t].buyer = None
    PROVE  request' = [request EXCEPT
                          ![t] = [request[t] EXCEPT !.status = final, !.buyer = None]]
<1>1. [request[t] EXCEPT !.status = final, !.buyer = None] = [request[t] EXCEPT !.status = final]
  BY DEF RequestRow
<1> QED
  BY <1>1, PutIsRow

-----------------------------------------------------------------------------
(* The handlers, one by one.                                               *)
LEMMA GiveIsSound ==
    ASSUME BookingAssumption, Scale = 1, BookingInv, NEW t \in Txn,
           NEW kind, NEW status, NEW approval,
           At(t, kind, status), OnHold(kind, status, approval),
           NEW final \in RequestStatus[kind],
           final \in {"REJECTED", "COMPLETED", "REPAID", "CANCELLED"},
           Give(t, final) \/ Move(t, Consume(<<"close", t>>, request[t].receiptId), final)
    PROVE  Sound
<1>1. request[t] \in RequestRow(kind) /\ request[t].buyer = None
  BY OpenHolds
<1>2. Put(t, final) /\ Alone
  BY DEF Give, Move
<1>3. \/ Release(<<"close", t>>, request[t].receiptId)
      \/ Consume(<<"close", t>>, request[t].receiptId)
  BY DEF Give, Move
<1>4. request' = [request EXCEPT
                     ![t] = [request[t] EXCEPT !.status = final, !.buyer = None]]
  BY <1>1, <1>2, PutClosed
<1> QED
  BY <1>2, <1>3, <1>4, OpenCloses

LEMMA SettleTradeIsSound ==
    ASSUME BookingAssumption, Scale = 1, BookingInv, NEW t \in Txn, NEW b \in Client,
           SettleTrade(t, b)
    PROVE  Sound
<1>1. request' = [request EXCEPT
                     ![t] = [request[t] EXCEPT !.status = "SETTLED", !.buyer = b]]
  BY DEF SettleTrade, BookingInv, Tables
<1>2. OnHold("trade", "LISTED", "PENDING") /\ "SETTLED" \in RequestStatus["trade"]
  BY DEF OnHold, RequestStatus
<1> QED
  BY <1>1, <1>2, OpenCloses DEF SettleTrade

(* approveWithdrawal and approveLoan approve the hold with the request.    *)
LEMMA ApproveIsSound ==
    ASSUME BookingAssumption, Scale = 1, BookingInv, NEW t \in Txn,
           NEW kind, NEW status, NEW final,
           At(t, kind, status), OnHold(kind, status, "PENDING"),
           OnHold(kind, final, "APPROVED"),
           Move(t, ApproveHold(<<"approve", t>>, request[t].receiptId), final)
    PROVE  Sound
<1> DEFINE x == request[t].receiptId
           row == [request[t] EXCEPT !.status = final]
<1>1. /\ kind \in Kind \ {"pledge"}
      /\ x \in HeldFor(t) /\ x \in Minted /\ receipt[x].status = HoldOf[kind]
      /\ request[t] \in RequestRow(kind) /\ request[t] # NoRequest
      /\ request[t].quantity \in 1..MaxQuantity /\ request[t].buyer = None
      /\ lien[t] = NoLien
  BY OpenHolds
<1>2. ApproveHold(<<"approve", t>>, x) /\ Alone /\ request' = [request EXCEPT ![t] = row]
  BY PutIsRow DEF Move
<1>3. /\ Handles(t) /\ HeldFor(t)' = {x}
      /\ receipt'[x].status = receipt[x].status /\ receipt'[x].approval = "APPROVED"
      /\ receipt'[x].sourceEvent = receipt[x].sourceEvent
      /\ receipt'[x].root = receipt[x].root
  BY <1>1, <1>2, KeysAndHolds, HoldIsApproved
<1>4. Holder(x, t)
  BY <1>1 DEF BookingInv, Booked, HoldsOne
<1>5. receipt'[x].sourceEvent \in {<<"hold", t>>, <<"release", t>>}
  BY <1>3, <1>4 DEF Holder
<1>6. Minted \subseteq Minted'
  BY <1>3 DEF Handles, Grown
<1>7. final \in RequestStatus[kind] /\ kind \in {"withdrawal", "loan", "trade"}
  BY DEF OnHold, RequestStatus
<1>8. /\ row \in RequestRow(kind)' /\ row.status = final /\ row.buyer = None
      /\ row.receiptId = x /\ row.quantity = request[t].quantity
      /\ row.client = request[t].client /\ request[t].kind = kind
  BY <1>1, <1>6, <1>7 DEF RequestRow
<1>9. request[t].receiptId = x
  OBVIOUS
<1> HIDE DEF row, x
<1>10. OnHold(kind, row.status, receipt'[x].approval)
  BY <1>3, <1>8
<1>11. /\ x \in Minted' /\ receipt'[x].status = HoldOf[kind]
       /\ row.quantity \in 1..MaxQuantity
  BY <1>1, <1>3, <1>6, <1>8
<1>12. request[t] # NoRequest => /\ request[t].kind = kind
                                 /\ request[t].client = row.client
                                 /\ request[t].quantity = row.quantity
                                 /\ request[t].buyer = None
                                 /\ receipt'[x].root = receipt[request[t].receiptId].root
                                 /\ kind = "loan" => request[t].receiptId = x
  BY <1>1, <1>3, <1>8, <1>9
<1> QED
  BY <1>1, <1>2, <1>3, <1>5, <1>7, <1>8, <1>10, <1>11, <1>12, RequestHolds

(* Nothing is held for a request that was not filed, or is not paid.       *)
LEMMA NothingHeld ==
    ASSUME BookingInv, NEW t \in Txn,
           request[t] = NoRequest \/ At(t, "withdrawal", "PENDING_PAYMENT")
    PROVE  HeldFor(t) = {} /\ lien[t] = NoLien
<1>1. Booked(t)
  BY DEF BookingInv
<1>2. lien[t] = NoLien
  BY <1>1 DEF Booked, RowsTyped, At, NoRequest
<1>3. ASSUME NEW r \in HeldFor(t)
      PROVE  FALSE
  <2>1. Holder(r, t) /\ receipt[r].status \in HeldStatus
    BY <1>1 DEF Booked, HoldsOne, HeldFor, IsHeld
  <2> QED
    BY <1>2, <2>1 DEF Holder, HeldStatus, At, NoRequest, Standing, NoLien
<1> QED
  BY <1>2, <1>3

(* A request that holds first, or is paid, points at what it holds.        *)
LEMMA ReserveIsSound ==
    ASSUME BookingAssumption, Scale = 1, BookingInv, NEW t \in Txn,
           NEW kind \in {"withdrawal", "loan", "trade"},
           NEW r \in Minted, NEW n \in 1..MaxQuantity, NEW row,
           Reserve(t, kind, r, n, row),
           row \in RequestRow(kind), OnHold(kind, row.status, "PENDING"),
           row.quantity = n, row.buyer = None,
           \/ request[t] = NoRequest
           \/ /\ At(t, "withdrawal", "PENDING_PAYMENT") /\ kind = "withdrawal"
              /\ request[t].client = row.client /\ request[t].quantity = n
              /\ request[t].buyer = None /\ request[t].receiptId = r
    PROVE  Sound
<1>1. HeldFor(t) = {} /\ lien[t] = NoLien
  BY NothingHeld
<1>2. kind \in Kind
  BY DEF Kind, RequestStatus
<1>3. Hold(<<"hold", t>>, r, Exactly(n), HoldOf[kind], t) /\ Alone
  BY DEF Reserve
<1>4. Handles(t)
  BY <1>1, <1>2, <1>3, HoldBegins
<1>5. PICK a \in Minted' \ Minted :
          /\ HeldFor(t)' = {a} /\ HeldChild(t)' = {a}
          /\ receipt'[a].status = HoldOf[kind] /\ receipt'[a].approval = "PENDING"
          /\ receipt'[a].sourceEvent = <<"hold", t>>
          /\ receipt'[a].root = receipt[r].root
  BY <1>1, <1>2, <1>3, HoldBegins
<1> DEFINE new == [row EXCEPT !.receiptId = a]
<1>6. request' = [request EXCEPT ![t] = new]
  BY <1>5 DEF Reserve
<1>7. Minted \subseteq Minted' /\ a \in Minted'
  BY <1>4 DEF Handles, Grown
<1>8. /\ new \in RequestRow(kind)' /\ new.receiptId = a /\ new.status = row.status
      /\ new.quantity = n /\ new.buyer = None /\ new.client = row.client
  BY <1>7 DEF RequestRow
<1> HIDE DEF new
<1>9. /\ OnHold(kind, new.status, receipt'[a].approval)
      /\ new.quantity \in 1..MaxQuantity
      /\ receipt'[a].sourceEvent \in {<<"hold", t>>, <<"release", t>>}
  BY <1>5, <1>8
<1>10. request[t] # NoRequest => /\ request[t].kind = kind
                                 /\ request[t].client = new.client
                                 /\ request[t].quantity = new.quantity
                                 /\ request[t].buyer = None
                                 /\ receipt'[a].root = receipt[request[t].receiptId].root
                                 /\ kind = "loan" => request[t].receiptId = a
  BY <1>5, <1>8 DEF At
<1> QED
  BY <1>1, <1>3, <1>4, <1>5, <1>6, <1>7, <1>8, <1>9, <1>10, RequestHolds

LEMMA ConfirmPaymentIsSound ==
    ASSUME BookingAssumption, Scale = 1, BookingInv, NEW t \in Txn, ConfirmPayment(t)
    PROVE  Sound
<1> DEFINE row == [request[t] EXCEPT !.status = "PAID_PENDING_APPROVAL"]
<1>1. At(t, "withdrawal", "PENDING_PAYMENT") /\ RowsTyped(t)
  BY DEF ConfirmPayment, BookingInv, Booked
<1>2. request[t] # NoRequest
  BY <1>1 DEF At, NoRequest
<1>3. /\ request[t] \in RequestRow("withdrawal")
      /\ request[t].quantity \in 1..MaxQuantity /\ request[t].buyer = None
  BY <1>1, <1>2 DEF RowsTyped, RequestRow, At
<1>4. /\ row \in RequestRow("withdrawal") /\ row.status = "PAID_PENDING_APPROVAL"
      /\ row.quantity = request[t].quantity /\ row.buyer = None
      /\ row.client = request[t].client /\ request[t].receiptId \in Minted
  BY <1>3 DEF RequestRow, RequestStatus
<1>5. Reserve(t, "withdrawal", request[t].receiptId, request[t].quantity, row)
  BY DEF ConfirmPayment
<1> HIDE DEF row
<1>6. OnHold("withdrawal", row.status, "PENDING")
  BY <1>4 DEF OnHold
<1>7. PICK r \in Minted, n \in 1..MaxQuantity : r = request[t].receiptId /\ n = request[t].quantity
  BY <1>3, <1>4
<1> QED
  BY <1>1, <1>3, <1>4, <1>5, <1>6, <1>7, ReserveIsSound

(* What a client asks for, of a receipt that is his.                       *)
LEMMA AskedIsTyped ==
    ASSUME BookingInv, NEW kind \in Kind, NEW status \in RequestStatus[kind],
           NEW r \in Minted, NEW n \in 1..MaxQuantity
    PROVE  LET row == Asked(kind, status, r, n)
           IN  /\ row \in RequestRow(kind) /\ row.status = status
               /\ row.quantity = n /\ row.buyer = None /\ row.receiptId = r
<1>1. receipt[r] \in Row
  BY BoundsAssumption DEF BookingInv, LedgerSound, RowInv, LedgerInv, TableTypeOK, Minted, Receipt
<1>2. receipt[r].owner \in Client /\ n \in Nat
  BY <1>1, BoundsAssumption DEF Row
<1> QED
  BY <1>2 DEF Asked, RequestRow

LEMMA CreateIsSound ==
    ASSUME BookingAssumption, Scale = 1, BookingInv, NEW t \in Txn, NEW r \in Minted,
           CreateLoan(t, r) \/ CreateTrade(t, r)
    PROVE  Sound
<1>1. PICK n \in 1..MaxQuantity : n = receipt[r].quantity
  BY DEF BookingInv, LedgerSound, Sized
<1>2. PICK kind \in {"loan", "trade"}, status \in {"PENDING", "LISTED"} :
          /\ kind = "loan" <=> status = "PENDING"
          /\ request[t] = NoRequest
          /\ Reserve(t, kind, r, n, Asked(kind, status, r, n))
  <2>1. CASE CreateLoan(t, r)
    <3>1. request[t] = NoRequest /\ Reserve(t, "loan", r, n, Asked("loan", "PENDING", r, n))
      BY <1>1, <2>1 DEF CreateLoan
    <3> QED
      BY <3>1
  <2>2. CASE CreateTrade(t, r)
    <3>1. request[t] = NoRequest /\ Reserve(t, "trade", r, n, Asked("trade", "LISTED", r, n))
      BY <1>1, <2>2 DEF CreateTrade
    <3> QED
      BY <3>1
  <2> QED
    BY <2>1, <2>2
<1> DEFINE row == Asked(kind, status, r, n)
<1>3. kind \in Kind /\ status \in RequestStatus[kind]
  BY <1>2 DEF Kind, RequestStatus
<1>4. /\ row \in RequestRow(kind) /\ row.status = status
      /\ row.quantity = n /\ row.buyer = None
  BY <1>3, AskedIsTyped
<1>5. OnHold(kind, status, "PENDING")
  BY <1>2 DEF OnHold
<1>6. Reserve(t, kind, r, n, row)
  BY <1>2
<1> HIDE DEF row
<1> QED
  BY <1>2, <1>4, <1>5, <1>6, ReserveIsSound

(* A handler that leaves the ledger alone.                                 *)
LEMMA LedgerAlone ==
    ASSUME BookingInv, UNCHANGED ledgerVars, NEW t0
    PROVE  /\ Handles(t0) /\ HeldFor(t0)' = HeldFor(t0)
           /\ \A r \in Minted : receipt'[r] = receipt[r]
<1>1. minted' = minted /\ receipt' = receipt /\ event' = event
  BY DEF ledgerVars
<1>2. LedgerSound => LedgerSound'
  <2>1. RowInv => RowInv'
    BY <1>1 DEF RowInv, LedgerInv, TableTypeOK, TreeShape, SplitConservation, ConservedAt,
                Children, Minted, JournalTypeOK, RowsSettled, Settled
  <2> QED
    BY <1>1, <2>1 DEF LedgerSound, Descent, Sized, HeldAreChildren, IsHeld, Minted,
                      AwaitingAreWhole, Awaits
<1>3. Minted' = Minted /\ LedgerSound
  BY <1>1 DEF Minted, BookingInv
<1> QED
  BY <1>1, <1>2, <1>3 DEF Handles, Grown, SameLineage, HeldFor, IsHeld

LEMMA RequestWithdrawalIsSound ==
    ASSUME BookingInv, NEW t \in Txn, NEW r \in Minted, NEW n \in 1..MaxQuantity,
           RequestWithdrawal(t, r, n)
    PROVE  Sound
<1> DEFINE row == Asked("withdrawal", "PENDING_PAYMENT", r, n)
<1>1. /\ request[t] = NoRequest /\ receipt[r].status = "ACTIVE"
      /\ request' = [request EXCEPT ![t] = row] /\ Alone /\ UNCHANGED ledgerVars
  BY DEF RequestWithdrawal
<1>2. HeldFor(t) = {} /\ lien[t] = NoLien
  BY <1>1, NothingHeld
<1>3. Handles(t) /\ HeldFor(t)' = {} /\ receipt'[r].status \notin HeldStatus
  BY <1>1, <1>2, LedgerAlone, StatusRoles
<1>4. "withdrawal" \in Kind /\ "PENDING_PAYMENT" \in RequestStatus["withdrawal"]
  BY DEF Kind, RequestStatus
<1>5. /\ row \in RequestRow("withdrawal") /\ row.status = "PENDING_PAYMENT"
      /\ row.quantity = n /\ row.buyer = None /\ row.receiptId = r
  BY <1>4, AskedIsTyped
<1>6. row \in RequestRow("withdrawal")'
  BY <1>3, <1>5 DEF RequestRow, Handles, Grown
<1> HIDE DEF row
<1> QED
  BY <1>1, <1>2, <1>3, <1>4, <1>5, <1>6, RequestRests

(* The clean-up of an unpaid request.                                      *)
LEMMA RejectUnpaidIsSound ==
    ASSUME BookingInv, NEW t \in Txn, At(t, "withdrawal", "PENDING_PAYMENT"),
           Move(t, UNCHANGED ledgerVars, "REJECTED")
    PROVE  Sound
<1> DEFINE row == [request[t] EXCEPT !.status = "REJECTED"]
<1>1. RowsTyped(t) /\ RowsBacked(t) /\ HeldFor(t) = {} /\ lien[t] = NoLien
  BY NothingHeld DEF BookingInv, Booked
<1>2. request[t].kind = "withdrawal" /\ request[t] # NoRequest
  BY DEF At, NoRequest
<1>3. /\ request[t] \in RequestRow("withdrawal") /\ request[t].receiptId \in Minted
      /\ request[t].quantity \in 1..MaxQuantity /\ request[t].buyer = None
  BY <1>1, <1>2 DEF RowsTyped, RequestRow, At
<1>4. ~IsHeld(request[t].receiptId)
  BY <1>1, <1>2, <1>3 DEF RowsBacked, HeldFor
<1>5. UNCHANGED ledgerVars /\ Alone /\ request' = [request EXCEPT ![t] = row]
  BY PutIsRow DEF Move
<1>6. /\ Handles(t) /\ HeldFor(t)' = {}
      /\ receipt'[request[t].receiptId].status \notin HeldStatus
  BY <1>1, <1>3, <1>4, <1>5, LedgerAlone DEF IsHeld
<1>7. "withdrawal" \in Kind /\ Minted \subseteq Minted'
  BY <1>6 DEF Kind, RequestStatus, Handles, Grown
<1>8. /\ row \in RequestRow("withdrawal")' /\ row.status = "REJECTED"
      /\ row.quantity = request[t].quantity /\ row.buyer = None
      /\ row.receiptId = request[t].receiptId /\ row.client = request[t].client
  BY <1>3, <1>7 DEF RequestRow, RequestStatus
<1> HIDE DEF row
<1> QED
  BY <1>1, <1>2, <1>3, <1>5, <1>6, <1>7, <1>8, RequestRests

-----------------------------------------------------------------------------
(* Pledges and liens.                                                      *)

(* A transaction whose request stays a pledge, with these rows after it.   *)
LEMMA PledgeIsBooked ==
    ASSUME BookingInv, NEW t \in Txn, Handles(t), lot' = lot, Tables',
           \A u \in Txn \ {t} : request'[u] = request[u] /\ lien'[u] = lien[u],
           request'[t] \in RequestRow("pledge")',
           request'[t].quantity \in 1..MaxQuantity, request'[t].buyer = None,
           request[t] # NoRequest => /\ request[t].kind = "pledge"
                                     /\ request[t].client = request'[t].client
                                     /\ request[t].quantity = request'[t].quantity
                                     /\ request[t].receiptId = request'[t].receiptId
                                     /\ request[t].buyer = None,
           lien'[t] \in (LienRow \cup {NoLien})',
           lien'[t] # NoLien => request'[t].status = "ACCEPTED",
           NEW held, HeldFor(t)' \subseteq {held},
           held \in HeldFor(t)' =>
              /\ receipt'[held].sourceEvent \in {<<"hold", t>>, <<"release", t>>}
              /\ \/ /\ receipt'[held].status = "HELD_PLEDGE_PENDING"
                    /\ request'[t].status = "PENDING"
                    /\ receipt'[held].quantity = request'[t].quantity
                 \/ /\ receipt'[held].status = "HELD_LIEN"
                    /\ Standing(t)' /\ lien'[t].receiptId = held,
           Standing(t)' => /\ held \in HeldFor(t)'
                           /\ lien'[t].receiptId = held
                           /\ receipt'[held].status = "HELD_LIEN"
                           /\ receipt'[held].quantity = lien'[t].remaining
    PROVE  Sound
<1>1. Concerns(t)
  BY DEF Handles, Concerns
<1>2. request'[t].kind = "pledge" /\ request'[t] # NoRequest /\ "pledge" \in Kind
  BY DEF RequestRow, NoRequest, Kind, RequestStatus
<1>3. RowsTyped(t)'
  BY <1>2 DEF RowsTyped, At
<1>4. RowsBacked(t)'
  BY <1>2 DEF RowsBacked, At, HeldFor
<1>5. HoldsOne(t)'
  <2>1. held \in HeldFor(t)' => Holder(held, t)'
    BY <1>2 DEF Holder, At
  <2> QED
    BY <2>1 DEF HoldsOne
<1>6. RowKept(t)
  <2>1. request[t] # NoRequest => request[t].receiptId \in Minted
    BY DEF BookingInv, Booked, RowsTyped, RequestRow
  <2> QED
    BY <1>2, <2>1 DEF RowKept, Handles, Grown, SameLineage
<1> QED
  BY <1>1, <1>3, <1>4, <1>5, <1>6, OneStaysBooked, StatementsGrow DEF Sound, Booked

LEMMA PledgeIsSound ==
    ASSUME BookingAssumption, Scale = 1, BookingInv, NEW t \in Txn, NEW r \in Minted,
           NEW n \in 1..MaxQuantity, Pledge(t, r, n)
    PROVE  Sound
<1> DEFINE row == Asked("pledge", "PENDING", r, n)
<1>1. /\ request[t] = NoRequest
      /\ Hold(<<"hold", t>>, r, Exactly(n), HoldOf["pledge"], t)
      /\ request' = [request EXCEPT ![t] = row] /\ lot' = lot /\ lien' = lien
  BY DEF Pledge, HoldOf, Alone
<1>2. HeldFor(t) = {} /\ lien[t] = NoLien
  BY <1>1, NothingHeld
<1>3. "pledge" \in Kind /\ "PENDING" \in RequestStatus["pledge"]
  BY DEF Kind, RequestStatus
<1>4. /\ Handles(t)
      /\ \E a \in Minted' \ Minted :
            /\ HeldFor(t)' = {a} /\ HeldChild(t)' = {a}
            /\ receipt'[a].status = HoldOf["pledge"] /\ receipt'[a].approval = "PENDING"
            /\ receipt'[a].quantity = n
            /\ receipt'[a].sourceTxn = t /\ receipt'[a].sourceEvent = <<"hold", t>>
            /\ receipt'[a].root = receipt[r].root
  <2>1. PICK kind \in Kind : kind = "pledge"
    BY <1>3
  <2>2. Hold(<<"hold", t>>, r, Exactly(n), HoldOf[kind], t) /\ HeldFor(t) = {}
    BY <1>1, <1>2, <2>1
  <2> HIDE DEF row
  <2>3. /\ Handles(t)
        /\ \E a \in Minted' \ Minted :
              /\ HeldFor(t)' = {a} /\ HeldChild(t)' = {a}
              /\ receipt'[a].status = HoldOf[kind] /\ receipt'[a].approval = "PENDING"
              /\ receipt'[a].quantity = n
              /\ receipt'[a].sourceTxn = t /\ receipt'[a].sourceEvent = <<"hold", t>>
              /\ receipt'[a].root = receipt[r].root
    BY ONLY BookingAssumption, Scale = 1, BookingInv, t \in Txn, r \in Minted,
            n \in 1..MaxQuantity, <2>2, HoldBegins
  <2> QED
    BY <2>1, <2>3
<1>5. PICK a \in Minted' \ Minted :
          /\ HeldFor(t)' = {a}
          /\ receipt'[a].status = HoldOf["pledge"] /\ receipt'[a].quantity = n
          /\ receipt'[a].sourceEvent = <<"hold", t>>
  BY <1>4
<1>10. receipt'[a].status = "HELD_PLEDGE_PENDING"
  BY <1>5 DEF HoldOf
<1>6. /\ row \in RequestRow("pledge") /\ row.status = "PENDING"
      /\ row.quantity = n /\ row.buyer = None /\ row.receiptId = r
  BY <1>3, AskedIsTyped
<1>7. row \in RequestRow("pledge")'
  BY <1>4, <1>6 DEF RequestRow, Handles, Grown
<1> HIDE DEF row
<1>8. /\ request'[t] = row /\ Tables'
      /\ \A u \in Txn \ {t} : request'[u] = request[u] /\ lien'[u] = lien[u]
  BY <1>1, PutKeeps DEF BookingInv, Tables
<1>9. lien'[t] = NoLien /\ ~Standing(t)'
  BY <1>1, <1>2 DEF Standing, NoLien
<1> QED
  BY <1>1, <1>4, <1>5, <1>6, <1>7, <1>8, <1>9, <1>10, PledgeIsBooked

(* The receipt that a pending pledge holds.                                *)
LEMMA PledgedChild ==
    ASSUME BookingInv, NEW t \in Txn, NEW x \in HeldChild(t)
    PROVE  /\ x \in HeldFor(t) /\ x \in Minted /\ receipt[x].sourceEvent = <<"hold", t>>
           /\ receipt[x] \in Row
<1>1. x \in Minted /\ IsHeld(x) /\ receipt[x].sourceEvent = <<"hold", t>>
  BY DEF HeldChild
<1>2. PICK u \in Txn : u = receipt[x].sourceTxn
  BY <1>1 DEF BookingInv, HoldersAreTransactions
<1>3. Holder(x, u)
  BY <1>1, <1>2 DEF BookingInv, Booked, HoldsOne, HeldFor
<1>4. u = t
  BY <1>1, <1>3 DEF Holder
<1>5. receipt[x] \in Row
  BY <1>1, BoundsAssumption DEF BookingInv, LedgerSound, RowInv, LedgerInv, TableTypeOK, Minted, Receipt
<1> QED
  BY <1>1, <1>2, <1>4, <1>5 DEF HeldFor

(* The rows of a pledge that was filed.                                    *)
LEMMA PledgeRow ==
    ASSUME BookingInv, NEW t \in Txn, request[t].kind = "pledge"
    PROVE  /\ request[t] \in RequestRow("pledge") /\ request[t] # NoRequest
           /\ request[t].quantity \in 1..MaxQuantity /\ request[t].buyer = None
           /\ request[t].receiptId \in Minted
           /\ lien[t] \in LienRow \cup {NoLien}
           /\ lien[t] # NoLien => request[t].status = "ACCEPTED"
<1>1. RowsTyped(t)
  BY DEF BookingInv, Booked
<1>2. request[t] # NoRequest
  BY DEF NoRequest
<1>3. request[t] \in RequestRow("pledge")
  BY <1>1, <1>2 DEF RowsTyped, RequestRow
<1> QED
  BY <1>1, <1>2, <1>3 DEF RowsTyped, RequestRow, RequestStatus, At

LEMMA DeclinePledgeIsSound ==
    ASSUME BookingAssumption, Scale = 1, BookingInv, NEW t \in Txn, DeclinePledge(t)
    PROVE  Sound
<1> DEFINE row == [request[t] EXCEPT !.status = "REJECTED"]
<1>1. PICK x \in HeldChild(t) : Move(t, Release(<<"close", t>>, x), "REJECTED")
  BY DEF DeclinePledge
<1>2. request[t].kind = "pledge" /\ request[t].status = "PENDING"
  BY DEF DeclinePledge, At
<1>3. /\ request[t] \in RequestRow("pledge") /\ request[t] # NoRequest
      /\ request[t].quantity \in 1..MaxQuantity /\ request[t].buyer = None
      /\ request[t].receiptId \in Minted /\ lien[t] = NoLien
  BY <1>2, PledgeRow
<1>4. x \in HeldFor(t)
  BY PledgedChild
<1>5. Release(<<"close", t>>, x) /\ Alone /\ request' = [request EXCEPT ![t] = row]
  BY <1>1, PutIsRow DEF Move
<1>6. Handles(t) /\ HeldFor(t)' = {}
  BY <1>4, <1>5, KeysAndHolds, HoldEnds
<1>7. "pledge" \in Kind /\ Minted \subseteq Minted'
  BY <1>6 DEF Kind, RequestStatus, Handles, Grown
<1>8. /\ row \in RequestRow("pledge")' /\ row.status = "REJECTED"
      /\ row.quantity = request[t].quantity /\ row.buyer = None
      /\ row.receiptId = request[t].receiptId /\ row.client = request[t].client
  BY <1>3, <1>7 DEF RequestRow, RequestStatus
<1> HIDE DEF row
<1> QED
  BY <1>2, <1>3, <1>5, <1>6, <1>7, <1>8, RequestRests

LEMMA AcceptPledgeIsSound ==
    ASSUME BookingAssumption, Scale = 1, BookingInv, NEW t \in Txn, AcceptPledge(t)
    PROVE  Sound
<1> DEFINE row == [request[t] EXCEPT !.status = "ACCEPTED"]
           k == <<"approve", t>>
<1>1. PICK x \in HeldChild(t) :
          /\ TransitionPledgeToLien(k, x)
          /\ lien' = [lien EXCEPT ![t] = [status |-> "ACTIVE", receiptId |-> x,
                                          remaining |-> request[t].quantity]]
  BY DEF AcceptPledge
<1>2. request[t].kind = "pledge" /\ request[t].status = "PENDING" /\ lot' = lot
  BY DEF AcceptPledge, At
<1>3. /\ request[t] \in RequestRow("pledge") /\ request[t] # NoRequest
      /\ request[t].quantity \in 1..MaxQuantity /\ request[t].buyer = None
      /\ request[t].receiptId \in Minted /\ lien[t] = NoLien
  BY <1>2, PledgeRow
<1>4. x \in HeldFor(t) /\ x \in Minted /\ receipt[x].sourceEvent = <<"hold", t>> /\ receipt[x] \in Row
  BY PledgedChild
<1>5. RowInv /\ k \in Key
  BY KeysAndHolds DEF BookingInv, LedgerSound
<1>6. /\ LedgerStep(k) /\ minted' = minted /\ Untouched(Minted \ {x})
      /\ receipt'[x] = [receipt[x] EXCEPT !.status = "HELD_LIEN"]
      /\ receipt[x].status = "HELD_PLEDGE_PENDING"
  BY <1>1, <1>4, <1>5, TransitionIs DEF LedgerStep, StatusStep, Ages, TransitionPledgeToLien
<1>7. /\ receipt'[x].status = "HELD_LIEN" /\ receipt'[x].quantity = receipt[x].quantity
      /\ receipt'[x].sourceEvent = <<"hold", t>>
  BY <1>4, <1>6 DEF Row
<1>8. receipt[x].quantity = request[t].quantity
  BY <1>4, <1>6 DEF BookingInv, Booked, HoldsOne, Holder
<1>9. Handles(t) /\ HeldFor(t)' \subseteq {x} /\ x \in HeldFor(t)'
  <2>1. /\ Handles(t) /\ HeldFor(t)' \subseteq {x}
        /\ x \in HeldFor(t)' <=> receipt'[x].status \in HeldStatus
    BY <1>4, <1>5, <1>6, HeldIsHandled
  <2> QED
    BY <1>7, <2>1, StatusRoles
<1>10. request' = [request EXCEPT ![t] = row]
  BY PutIsRow DEF AcceptPledge
<1>11. Minted \subseteq Minted'
  BY <1>9 DEF Handles, Grown
<1>12. /\ row \in RequestRow("pledge")' /\ row.status = "ACCEPTED"
       /\ row.quantity = request[t].quantity /\ row.buyer = None
       /\ row.receiptId = request[t].receiptId /\ row.client = request[t].client
  BY <1>3, <1>11 DEF RequestRow, RequestStatus
<1> HIDE DEF row
<1>13. /\ request'[t] = row
       /\ \A u \in Txn \ {t} : request'[u] = request[u] /\ lien'[u] = lien[u]
       /\ lien'[t] = [status |-> "ACTIVE", receiptId |-> x, remaining |-> request[t].quantity]
       /\ Tables'
  BY <1>1, <1>2, <1>10, PutKeeps DEF BookingInv, Tables
<1>14. /\ lien'[t] \in LienRow' /\ Standing(t)' /\ lien'[t].receiptId = x
       /\ lien'[t].remaining = request[t].quantity
  BY <1>3, <1>4, <1>11, <1>13, BoundsAssumption DEF LienRow, Standing
<1>15. request[t] # NoRequest => /\ request[t].kind = "pledge"
                                 /\ request[t].client = request'[t].client
                                 /\ request[t].quantity = request'[t].quantity
                                 /\ request[t].receiptId = request'[t].receiptId
                                 /\ request[t].buyer = None
  BY <1>2, <1>3, <1>12, <1>13
<1>16. /\ request'[t] \in RequestRow("pledge")' /\ request'[t].buyer = None
       /\ request'[t].quantity \in 1..MaxQuantity /\ request'[t].status = "ACCEPTED"
  BY <1>3, <1>12, <1>13
<1> QED
  BY <1>2, <1>7, <1>8, <1>9, <1>13, <1>14, <1>15, <1>16, PledgeIsBooked

(* What a standing lien holds.                                             *)
LEMMA LienHolds ==
    ASSUME BookingInv, NEW t \in Txn, Standing(t)
    PROVE  LET x == lien[t].receiptId
           IN  /\ x \in HeldFor(t) /\ x \in Minted /\ receipt[x] \in Row
               /\ receipt[x].status = "HELD_LIEN" /\ receipt[x].quantity = lien[t].remaining
               /\ lien[t] \in LienRow /\ request[t].kind = "pledge"
               /\ request[t].status = "ACCEPTED"
<1>1. RowsTyped(t) /\ RowsBacked(t)
  BY DEF BookingInv, Booked
<1>2. lien[t] # NoLien
  BY DEF Standing, NoLien
<1>3. lien[t] \in LienRow /\ At(t, "pledge", "ACCEPTED") /\ lien[t].receiptId \in Minted
  BY <1>1, <1>2 DEF RowsTyped, LienRow
<1>4. receipt[lien[t].receiptId] \in Row
  BY <1>3, BoundsAssumption DEF BookingInv, LedgerSound, RowInv, LedgerInv, TableTypeOK, Minted, Receipt
<1> QED
  BY <1>1, <1>3, <1>4, StatusRoles DEF RowsBacked, HeldFor, IsHeld, At

LEMMA ReleaseLienIsSound ==
    ASSUME BookingAssumption, Scale = 1, BookingInv, NEW t \in Txn, ReleaseLien(t)
    PROVE  Sound
<1> DEFINE x == lien[t].receiptId
           row == [lien[t] EXCEPT !.status = "RELEASED", !.remaining = 0]
<1>1. /\ Standing(t) /\ Release(<<"close", t>>, x) /\ lot' = lot /\ request' = request
      /\ lien' = [lien EXCEPT ![t] = row]
  BY DEF ReleaseLien, Standing, BookingInv, Tables
<1>2. /\ x \in HeldFor(t) /\ x \in Minted /\ lien[t] \in LienRow
      /\ request[t].kind = "pledge" /\ request[t].status = "ACCEPTED"
  BY <1>1, LienHolds
<1>3. /\ request[t] \in RequestRow("pledge") /\ request[t] # NoRequest
      /\ request[t].quantity \in 1..MaxQuantity /\ request[t].buyer = None
  BY <1>2, PledgeRow
<1>4. Handles(t) /\ HeldFor(t)' = {}
  BY <1>1, <1>2, KeysAndHolds, HoldEnds
<1>5. Minted \subseteq Minted'
  BY <1>4 DEF Handles, Grown
<1>6. row \in LienRow' /\ row.status = "RELEASED"
  BY <1>2, <1>5 DEF LienRow
<1> HIDE DEF row
<1>7. /\ request'[t] = request[t] /\ lien'[t] = row
      /\ \A u \in Txn \ {t} : request'[u] = request[u] /\ lien'[u] = lien[u]
      /\ Tables'
  BY <1>1 DEF BookingInv, Tables
<1>8. ~Standing(t)' /\ lien'[t] \in LienRow'
  BY <1>6, <1>7 DEF Standing
<1>9. request'[t] \in RequestRow("pledge")'
  BY <1>3, <1>5, <1>7 DEF RequestRow
<1> QED
  BY <1>1, <1>2, <1>3, <1>4, <1>7, <1>8, <1>9, PledgeIsBooked

LEMMA ReleaseLienPartIsSound ==
    ASSUME BookingAssumption, Scale = 1, BookingInv, NEW t \in Txn,
           NEW q \in 1..MaxQuantity, ReleaseLienPart(t, q)
    PROVE  Sound
<1> DEFINE x == lien[t].receiptId
           k == <<"release", t>>
<1>1. /\ Standing(t) /\ ReleasePartial(k, x, Exactly(q)) /\ lot' = lot /\ request' = request
      /\ lien[t].remaining - q > 0
  BY DEF ReleaseLienPart, Standing
<1>2. PICK kept \in Minted' :
          /\ receipt'[kept].sourceEvent = k /\ receipt'[kept].status = "HELD_LIEN"
          /\ lien' = [lien EXCEPT ![t] = [status |-> "PARTIALLY_RELEASED", receiptId |-> kept,
                                          remaining |-> lien[t].remaining - q]]
  BY DEF ReleaseLienPart
<1>3. /\ x \in HeldFor(t) /\ x \in Minted /\ lien[t] \in LienRow /\ receipt[x] \in Row
      /\ receipt[x].quantity = lien[t].remaining
      /\ request[t].kind = "pledge" /\ request[t].status = "ACCEPTED"
      /\ IsHeld(x) /\ receipt[x].sourceTxn = t
  BY <1>1, LienHolds DEF HeldFor
<1>4. /\ request[t] \in RequestRow("pledge") /\ request[t] # NoRequest
      /\ request[t].quantity \in 1..MaxQuantity /\ request[t].buyer = None
  BY <1>3, PledgeRow
<1>5. RowInv /\ k \in Key
  BY KeysAndHolds DEF BookingInv, LedgerSound
<1>6. Shares(k, x, q) /\ Grown
  BY <1>1, <1>3, <1>5, ReleasePartialIs
<1>7. LedgerSound'
  <2>1. LedgerStep(k)
    BY <1>1, <1>3, WholeRequest DEF LedgerStep, SplitStep
  <2> QED
    BY <1>5, <2>1, LedgerKeeps DEF BookingInv
<1>8. PICK a, b \in Minted' \ Minted :
          /\ a # b /\ Minted' = Minted \cup {a, b}
          /\ receipt'[a].status = "ACTIVE"
          /\ receipt'[b].status = "HELD_LIEN"
          /\ receipt'[b].quantity = receipt[x].quantity - q
          /\ receipt'[b].sourceTxn = receipt[x].sourceTxn
          /\ receipt'[b].sourceEvent = k
  BY <1>6 DEF Shares
<1>9. /\ receipt'[x].status = "SPLIT" /\ receipt'[x].owner = receipt[x].owner
      /\ \A r \in Minted : r # x => receipt'[r] = receipt[r]
  <2>1. receipt'[x] = [receipt[x] EXCEPT !.status = "SPLIT", !.isParent = TRUE]
    BY <1>6 DEF Shares
  <2> QED
    BY <1>3, <1>6, <2>1 DEF Shares, Untouched, Row
<1>10. "HELD_LIEN" \in HeldStatus /\ "ACTIVE" \notin HeldStatus /\ "SPLIT" \notin HeldStatus
  BY StatusRoles
<1>11. Handles(t)
  BY <1>3, <1>6, <1>7, <1>8, <1>9, <1>10 DEF Handles, IsHeld
<1>12. \A r \in HeldFor(t) : r = x
  BY <1>3 DEF BookingInv, Booked, HoldsOne
<1>13. HeldFor(t)' = {b}
  <2>1. ASSUME NEW r \in HeldFor(t)'
        PROVE  r = b
    <3>1. r \in Minted' /\ receipt'[r].status \in HeldStatus /\ receipt'[r].sourceTxn = t
      BY DEF HeldFor, IsHeld
    <3>2. CASE r \in Minted
      <4>1. r \in HeldFor(t)
        BY <1>6, <3>1, <3>2 DEF Grown, SameLineage, HeldFor, IsHeld
      <4> QED
        BY <1>9, <1>10, <1>12, <3>1, <4>1
    <3> QED
      BY <1>8, <1>10, <3>1, <3>2
  <2>2. b \in HeldFor(t)'
    BY <1>3, <1>8, <1>10 DEF HeldFor, IsHeld
  <2> QED
    BY <2>1, <2>2
<1>14. kept = b
  <2>1. ASSUME kept \in Minted
        PROVE  FALSE
    <3>1. IsHeld(kept) /\ receipt[kept].sourceEvent = k
      BY <1>2, <1>6, <1>10, <2>1 DEF Grown, SameLineage, IsHeld
    <3>2. PICK u \in Txn : u = receipt[kept].sourceTxn
      BY <2>1, <3>1 DEF BookingInv, HoldersAreTransactions
    <3>3. Holder(kept, u)
      BY <2>1, <3>1, <3>2 DEF BookingInv, Booked, HoldsOne, HeldFor
    <3>4. u = t
      BY <3>1, <3>3 DEF Holder
    <3>5. kept = x
      BY <1>12, <2>1, <3>1, <3>2, <3>4 DEF HeldFor
    <3> QED
      BY <1>2, <1>9, <3>5
  <2> QED
    BY <1>2, <1>8, <2>1
<1> DEFINE rest == lien[t].remaining - q
           row == [status |-> "PARTIALLY_RELEASED", receiptId |-> b, remaining |-> rest]
<1>15. rest \in Nat
  BY <1>1, <1>3, BoundsAssumption DEF LienRow
<1>16. Minted \subseteq Minted'
  BY <1>11 DEF Handles, Grown
<1>17. /\ row \in LienRow' /\ row.status = "PARTIALLY_RELEASED" /\ row.receiptId = b
       /\ row.remaining = rest
  BY <1>8, <1>15 DEF LienRow
<1>18. lien' = [lien EXCEPT ![t] = row] /\ receipt'[b].quantity = rest
  BY <1>2, <1>3, <1>8, <1>14
<1> HIDE DEF row, rest
<1>19. /\ request'[t] = request[t] /\ lien'[t] = row
       /\ \A u \in Txn \ {t} : request'[u] = request[u] /\ lien'[u] = lien[u]
       /\ Tables'
  BY <1>1, <1>18 DEF BookingInv, Tables
<1>20. Standing(t)' /\ lien'[t] \in LienRow' /\ lien'[t].receiptId = b
  BY <1>17, <1>19 DEF Standing
<1>21. request'[t] \in RequestRow("pledge")'
  BY <1>4, <1>16, <1>19 DEF RequestRow
<1> QED
  BY <1>1, <1>3, <1>4, <1>8, <1>11, <1>13, <1>17, <1>18, <1>19, <1>20, <1>21, PledgeIsBooked

-----------------------------------------------------------------------------
(* Deposits: no request is concerned.                                      *)
LEMMA NoRequestMoves ==
    ASSUME BookingInv, Handles(None), UNCHANGED <<request, lien>>,
           lot' \in [Receipt -> Lot \cup {NoLot}], \A r \in Minted : lot'[r] = lot[r]
    PROVE  Sound
<1>1. Tables'
  BY DEF BookingInv, Tables
<1>2. Concerns(None)
  BY <1>1 DEF Handles, Concerns
<1>3. ASSUME NEW t \in Txn
      PROVE  RowKept(t)
  <2>1. request[t] # NoRequest => request[t].receiptId \in Minted
    BY DEF BookingInv, Booked, RowsTyped, RequestRow
  <2> QED
    BY <2>1 DEF RowKept, Handles, Grown, SameLineage
<1> QED
  BY <1>2, <1>3, NoneStaysBooked, RootsKeepTheirOwner DEF Sound, Recorded, Handles

LEMMA FileIsSound ==
    ASSUME BookingAssumption, Scale = 1, BookingInv, NEW c \in Client,
           NEW q \in 1..MaxQuantity, NEW place \in Lot, File(c, q, place)
    PROVE  Sound
<1> DEFINE id == minted + 1
           k == <<"deposit", id>>
<1>1. /\ Deposit(k, c, q) /\ lot' = [lot EXCEPT ![id] = place] /\ UNCHANGED <<request, lien>>
  BY DEF File
<1>2. TableTypeOK /\ RowInv /\ minted \in Nat
  BY BoundsAssumption DEF BookingInv, LedgerSound, RowInv, LedgerInv, TableTypeOK
<1>3. /\ id \in Receipt /\ Minted \subseteq Receipt /\ id \notin Minted
      /\ minted' = id /\ Minted' = Minted \cup {id}
  BY <1>1, <1>2, BoundsAssumption DEF Deposit, TableTypeOK, Minted, Receipt
<1>4. k \in Key
  BY <1>3, KeysAndHolds
<1>5. LedgerStep(k)
  <2>1. q \in Request
    BY BoundsAssumption DEF Request, Exactly
  <2> QED
    BY <1>1, <2>1 DEF LedgerStep, RootStep
<1>6. LedgerSound' /\ Grown
  BY <1>4, <1>5, LedgerKeeps DEF BookingInv
<1>7. \A r \in Minted : receipt'[r] = receipt[r]
  BY <1>1, <1>2, <1>3 DEF Deposit, TableTypeOK
<1>8. receipt'[id].status = "PENDING_APPROVAL"
  BY <1>1, <1>2, <1>3 DEF Deposit, TableTypeOK
<1>9. Handles(None)
  BY <1>3, <1>6, <1>7, <1>8, StatusRoles DEF Handles, IsHeld
<1>10. lot' \in [Receipt -> Lot \cup {NoLot}] /\ \A r \in Minted : lot'[r] = lot[r]
  BY <1>1, <1>3 DEF BookingInv, Tables
<1> QED
  BY <1>1, <1>9, <1>10, NoRequestMoves

LEMMA DecideIsSound ==
    ASSUME BookingAssumption, Scale = 1, BookingInv, NEW r \in Minted, Decide(r)
    PROVE  Sound
<1> DEFINE k == <<"verdict", r>>
<1>1. /\ ApproveReceipt(k, r) \/ RejectReceipt(k, r)
      /\ lot' = lot /\ UNCHANGED <<request, lien>>
  BY DEF Decide
<1>2. RowInv /\ r \in Receipt /\ receipt[r] \in Row
  BY BoundsAssumption DEF BookingInv, LedgerSound, RowInv, LedgerInv, TableTypeOK, Minted, Receipt
<1>3. k \in Key
  BY <1>2, KeysAndHolds
<1>4. LedgerStep(k)
  BY <1>1 DEF LedgerStep, RootStep
<1>5. LedgerSound' /\ Grown
  BY <1>3, <1>4, LedgerKeeps DEF BookingInv
<1>6. receipt[r].status = "PENDING_APPROVAL"
  BY <1>1 DEF ApproveReceipt, RejectReceipt
<1>7. PICK row : Update(r, row) /\ row.owner = receipt[r].owner
  <2>1. CASE ApproveReceipt(k, r)
    <3> DEFINE row == [receipt[r] EXCEPT !.status = "ACTIVE", !.approval = "APPROVED"]
    <3>1. Update(r, row)
      BY <2>1 DEF ApproveReceipt
    <3>2. row.owner = receipt[r].owner
      BY <1>2 DEF Row
    <3> QED
      BY <3>1, <3>2
  <2>2. CASE RejectReceipt(k, r)
    <3> DEFINE row == [receipt[r] EXCEPT !.status = "CANCELLED", !.approval = "REJECTED"]
    <3>1. Update(r, row)
      BY <2>2 DEF RejectReceipt
    <3>2. row.owner = receipt[r].owner
      BY <1>2 DEF Row
    <3> QED
      BY <3>1, <3>2
  <2> QED
    BY <1>1, <2>1, <2>2
<1>8. minted' = minted /\ Untouched(Minted \ {r}) /\ receipt'[r] = row
  BY <1>2, <1>7, UpdateIs
<1>9. Minted' = Minted /\ \A s \in Minted : s # r => receipt'[s] = receipt[s]
  BY <1>8 DEF Minted, Untouched
<1>10. Handles(None)
  BY <1>5, <1>6, <1>7, <1>8, <1>9, StatusRoles DEF Handles, IsHeld
<1>11. lot' \in [Receipt -> Lot \cup {NoLot}]
  BY <1>1 DEF BookingInv, Tables
<1> QED
  BY <1>1, <1>10, <1>11, NoRequestMoves

-----------------------------------------------------------------------------
LEMMA AskIsSound ==
    ASSUME BookingAssumption, Scale = 1, BookingInv, NEW t \in Txn, Ask(t)
    PROVE  Sound
  BY CreateIsSound, RequestWithdrawalIsSound, PledgeIsSound DEF Ask, Quantity

LEMMA SettleIsSound ==
    ASSUME BookingAssumption, Scale = 1, BookingInv, NEW t \in Txn, Settle(t)
    PROVE  Sound
<1>1. /\ OnHold("withdrawal", "PAID_PENDING_APPROVAL", "PENDING")
      /\ OnHold("withdrawal", "APPROVED", "APPROVED")
      /\ OnHold("loan", "PENDING", "PENDING") /\ OnHold("loan", "ACTIVE", "APPROVED")
      /\ OnHold("trade", "LISTED", "PENDING")
  BY DEF OnHold
<1>2. /\ {"REJECTED", "COMPLETED"} \subseteq RequestStatus["withdrawal"]
      /\ {"REJECTED", "REPAID"} \subseteq RequestStatus["loan"]
      /\ "CANCELLED" \in RequestStatus["trade"]
  BY DEF RequestStatus
<1>3. CASE ConfirmPayment(t)
  BY <1>3, ConfirmPaymentIsSound
<1>4. CASE ApproveWithdrawal(t)
  BY <1>1, <1>4, ApproveIsSound DEF ApproveWithdrawal
<1>5. CASE RejectWithdrawal(t)
  <2>1. CASE At(t, "withdrawal", "PENDING_PAYMENT") /\ Move(t, UNCHANGED ledgerVars, "REJECTED")
    BY <2>1, RejectUnpaidIsSound
  <2>2. ASSUME NEW s \in {"PAID_PENDING_APPROVAL", "APPROVED"}, At(t, "withdrawal", s),
               Give(t, "REJECTED")
        PROVE  Sound
    <3>1. PICK approval : OnHold("withdrawal", s, approval)
      BY <1>1
    <3> QED
      BY <1>2, <2>2, <3>1, GiveIsSound
  <2> QED
    BY <1>5, <2>1, <2>2 DEF RejectWithdrawal
<1>6. CASE CompleteWithdrawal(t)
  BY <1>1, <1>2, <1>6, GiveIsSound DEF CompleteWithdrawal
<1>7. CASE ApproveLoan(t)
  BY <1>1, <1>7, ApproveIsSound DEF ApproveLoan
<1>8. CASE RejectLoan(t)
  BY <1>1, <1>2, <1>8, GiveIsSound DEF RejectLoan
<1>9. CASE RepayLoan(t)
  BY <1>1, <1>2, <1>9, GiveIsSound DEF RepayLoan
<1>10. CASE CancelTrade(t)
  BY <1>1, <1>2, <1>10, GiveIsSound DEF CancelTrade
<1>11. CASE \E b \in Client : SettleTrade(t, b)
  BY <1>11, SettleTradeIsSound
<1>12. CASE AcceptPledge(t)
  BY <1>12, AcceptPledgeIsSound
<1>13. CASE DeclinePledge(t)
  BY <1>13, DeclinePledgeIsSound
<1>14. CASE ReleaseLien(t)
  BY <1>14, ReleaseLienIsSound
<1>15. CASE \E q \in Quantity : ReleaseLienPart(t, q)
  BY <1>15, ReleaseLienPartIsSound DEF Quantity
<1> QED
  BY <1>3, <1>4, <1>5, <1>6, <1>7, <1>8, <1>9, <1>10, <1>11, <1>12, <1>13, <1>14, <1>15 DEF Settle

(* Every handler but the correction of a deposit, which is no step of the  *)
(* ledger: it rewrites a root in place.                                    *)
Handled ==
    \/ \E q \in Quantity, place \in Lot, c \in Client : File(c, q, place)
    \/ \E r \in Minted : Decide(r)
    \/ \E t \in Txn : Ask(t) \/ Settle(t)

Correction == \E r \in Minted, q \in Quantity, place \in Lot : Correct(r, q, place)

LEMMA NextIs == BookingNext <=> Handled \/ Correction
  BY DEF BookingNext, Handled, Correction

LEMMA HandledIsSound ==
    ASSUME BookingAssumption, Scale = 1, BookingInv, Handled
    PROVE  Sound
  BY FileIsSound, DecideIsSound, AskIsSound, SettleIsSound DEF Handled, Quantity

(* A receipt is what it was, its quantity apart.                           *)
SameButSize(old, new) ==
    /\ new.status = old.status /\ new.approval = old.approval /\ new.owner = old.owner
    /\ new.parent = old.parent /\ new.root = old.root /\ new.isParent = old.isParent
    /\ new.sourceTxn = old.sourceTxn /\ new.sourceEvent = old.sourceEvent

(* Only r changes, a deposit that awaits its verdict.                      *)
Corrects(r) ==
    /\ Awaits(r) /\ receipt[r].parent = NoReceipt
    /\ minted' = minted /\ event' = event /\ UNCHANGED <<request, lien>>
    /\ \A s \in Minted : SameButSize(receipt[s], receipt'[s])
    /\ \A s \in Minted \ {r} : receipt'[s] = receipt[s] /\ lot'[s] = lot[s]
    /\ lot' \in [Receipt -> Lot \cup {NoLot}] /\ lot'[r] \in Lot

(* No split is weighed by a deposit that nobody has approved yet.          *)
LEMMA CorrectIs ==
    ASSUME Scale = 1, BookingInv, NEW r \in Minted, NEW q \in Quantity, NEW place \in Lot,
           Correct(r, q, place)
    PROVE  Corrects(r) /\ LedgerSound'
<1>1. /\ RowInv /\ LedgerInv /\ Descent /\ Sized /\ HeldAreChildren /\ AwaitingAreWhole
      /\ Tables
  BY DEF BookingInv, LedgerSound, RowInv
<1>2. /\ receipt[r].status = "PENDING_APPROVAL" /\ UNCHANGED <<minted, event, request, lien>>
      /\ receipt' = [receipt EXCEPT ![r].quantity = Stored(q)]
      /\ lot' = [lot EXCEPT ![r] = place]
  BY DEF Correct
<1>3. q \in Nat /\ q \in 1..MaxQuantity /\ Stored(q) = q
  BY WholeIsExact, BoundsAssumption DEF Quantity, Exactly
<1>4. /\ Minted' = Minted /\ Minted \subseteq Receipt
      /\ \A s \in Minted : receipt[s] \in Row
      /\ receipt \in [Receipt -> Row \cup {NoRow}]
      /\ \A s \in Receipt : receipt[s] \in Row <=> s \in Minted
  BY <1>1, <1>2, BoundsAssumption DEF LedgerInv, TableTypeOK, Minted, Receipt
<1> DEFINE row == [receipt[r] EXCEPT !.quantity = q]
<1>5. row \in Row /\ row.quantity = q /\ SameButSize(receipt[r], row)
  BY <1>3, <1>4 DEF Row, SameButSize
<1>6. receipt' = [receipt EXCEPT ![r] = row]
  BY <1>2, <1>3
<1> HIDE DEF row
<1>7. receipt'[r] = row /\ \A s \in Receipt \ {r} : receipt'[s] = receipt[s]
  BY <1>4, <1>6
<1>8. \A s \in Minted : SameButSize(receipt[s], receipt'[s])
  BY <1>4, <1>5, <1>7 DEF SameButSize
<1>9. receipt[r].parent = NoReceipt
  BY <1>1, <1>2 DEF AwaitingAreWhole, Awaits
<1>10. Corrects(r)
  BY <1>1, <1>2, <1>4, <1>7, <1>8, <1>9 DEF Corrects, Tables, Awaits
<1>11. LedgerInv'
  <2>1. TableTypeOK'
    <3>1. receipt' \in [Receipt -> Row \cup {NoRow}]
      BY <1>4, <1>5, <1>6
    <3>2. \A s \in Receipt : receipt'[s] \in Row <=> s \in Minted'
      BY <1>4, <1>5, <1>7
    <3> QED
      BY <1>1, <1>2, <3>1, <3>2 DEF LedgerInv, TableTypeOK
  <2>2. TreeShape'
    BY <1>1, <1>4, <1>8 DEF LedgerInv, TreeShape, SameButSize
  <2>3. \A p : Children(p)' = Children(p) /\ Children(p) \subseteq Minted
    BY <1>4, <1>8 DEF Children, SameButSize
  <2>4. ~receipt[r].isParent /\ \A p \in Minted : r \notin Children(p)
    BY <1>1, <1>2, <1>9 DEF LedgerInv, TreeShape, Children, Minted, NoReceipt
  <2>5. SplitConservation'
    <3> SUFFICES ASSUME NEW p \in Minted
                 PROVE  ConservedAt(p)'
      BY <1>4 DEF SplitConservation
    <3>1. ConservedAt(p)
      BY <1>1 DEF LedgerInv, SplitConservation
    <3>2. /\ receipt'[p].isParent = receipt[p].isParent
          /\ p # r => receipt'[p].quantity = receipt[p].quantity
          /\ \A a \in Children(p) : receipt'[a].quantity = receipt[a].quantity
      BY <1>4, <1>7, <1>8, <2>3, <2>4 DEF SameButSize
    <3>3. CASE p = r
      BY <2>3, <2>4, <3>1, <3>2, <3>3 DEF ConservedAt
    <3>4. CASE p # r
      BY <1>4, <2>3, <3>1, <3>2, <3>4 DEF ConservedAt
    <3> QED
      BY <3>3, <3>4
  <2> QED
    BY <2>1, <2>2, <2>5 DEF LedgerInv
<1>12. RowInv'
  BY <1>1, <1>2, <1>4, <1>8, <1>11
     DEF RowInv, RowsSettled, Settled, JournalTypeOK, SameButSize
<1>13. Descent' /\ HeldAreChildren' /\ AwaitingAreWhole'
  BY <1>1, <1>2, <1>4, <1>8
     DEF Descent, HeldAreChildren, AwaitingAreWhole, Awaits, IsHeld, SameButSize
<1>14. Sized'
  BY <1>1, <1>3, <1>4, <1>5, <1>7 DEF Sized
<1> QED
  BY <1>10, <1>12, <1>13, <1>14 DEF LedgerSound

(* What the rows say is of goods on hold, and they stay.                   *)
LEMMA CorrectionIsSound ==
    ASSUME Scale = 1, BookingInv, Correction
    PROVE  BookingInv'
<1>1. PICK r \in Minted : Corrects(r) /\ LedgerSound'
  BY CorrectIs DEF Correction
<1>2. /\ Minted' = Minted /\ request' = request /\ lien' = lien /\ Tables'
      /\ HoldersAreTransactions /\ \A t \in Txn : Booked(t)
  BY <1>1 DEF Corrects, Minted, BookingInv, Tables
<1>3. ~IsHeld(r)
  BY <1>1, StatusRoles DEF Corrects, Awaits, IsHeld
<1>4. /\ \A s \in Minted : SameButSize(receipt[s], receipt'[s])
      /\ \A s \in Minted : IsHeld(s)' <=> IsHeld(s)
      /\ \A s \in Minted : IsHeld(s) => receipt'[s] = receipt[s]
  BY <1>1, <1>3 DEF Corrects, SameButSize, IsHeld
<1>5. HoldersAreTransactions'
  BY <1>2, <1>4 DEF HoldersAreTransactions
<1>6. ASSUME NEW t \in Txn
      PROVE  Booked(t)'
  <2>1. RowsTyped(t)'
    BY <1>2 DEF Booked, RowsTyped, RequestRow, LienRow, At
  <2>2. HeldFor(t)' = HeldFor(t)
    BY <1>2, <1>4 DEF HeldFor
  <2>3. \A s \in HeldFor(t) : receipt'[s] = receipt[s]
    BY <1>4 DEF HeldFor
  <2>4. HoldsOne(t)'
    BY <1>2, <2>2, <2>3 DEF Booked, HoldsOne, Holder, At, Standing
  <2>5. /\ request[t].kind \in {"withdrawal", "loan", "trade"} => request[t].receiptId \in Minted
        /\ Standing(t) => lien[t].receiptId \in Minted
    BY <1>2 DEF Booked, RowsTyped, RequestRow, NoRequest, Standing, LienRow, NoLien
  <2>6. Standing(t) => receipt'[lien[t].receiptId] = receipt[lien[t].receiptId]
    BY <1>2, <1>4, <2>5, StatusRoles DEF Booked, RowsBacked, IsHeld, Standing
  <2>7. \A status, approval :
           request[t].kind \in {"withdrawal", "loan", "trade"} /\ Backed(t, status, approval)
               => Backed(t, status, approval)'
    BY <1>2, <1>4, <2>5 DEF Backed, SameButSize
  <2>8. request[t].kind \in {"withdrawal", "loan", "trade"} /\ (IsHeld(request[t].receiptId))' =>
          (receipt[request[t].receiptId].sourceTxn = t)'
    BY <1>2, <1>4, <2>5 DEF Booked, RowsBacked, SameButSize
  <2>9. RowsBacked(t)'
    BY <1>2, <2>6, <2>7, <2>8 DEF Booked, RowsBacked, At, Standing
  <2> QED
    BY <2>1, <2>4, <2>9 DEF Booked
<1> QED
  BY <1>1, <1>2, <1>5, <1>6 DEF BookingInv

LEMMA NextIsBooked ==
    ASSUME BookingAssumption, Scale = 1, BookingInv, BookingNext
    PROVE  BookingInv'
  BY NextIs, HandledIsSound, CorrectionIsSound DEF Sound

LEMMA StutterIsSound ==
    ASSUME BookingInv, UNCHANGED bookingVars
    PROVE  Sound
<1>1. Handles(None) /\ lot' = lot /\ UNCHANGED <<request, lien>>
  BY LedgerAlone DEF bookingVars
<1> QED
  BY <1>1, NoRequestMoves DEF BookingInv, Tables

LEMMA InitIsBooked ==
    ASSUME BookingInit
    PROVE  BookingInv
<1>1. minted = 0 /\ Minted = {}
  BY DEF BookingInit, LedgerInit, Minted
<1>2. RowInv
  BY <1>1, InitKeepsInv DEF BookingInit, RowInv, RowsSettled
<1>3. LedgerSound /\ HoldersAreTransactions
  BY <1>1, <1>2 DEF LedgerSound, Descent, Sized, HeldAreChildren, AwaitingAreWhole,
                    HoldersAreTransactions
<1>4. Tables
  BY DEF BookingInit, Tables
<1>5. ASSUME NEW t \in Txn
      PROVE  Booked(t)
  <2>1. request[t] = NoRequest /\ lien[t] = NoLien /\ HeldFor(t) = {}
    BY <1>1 DEF BookingInit, HeldFor
  <2> QED
    BY <2>1 DEF Booked, RowsTyped, RowsBacked, HoldsOne, NoRequest, NoLien, At, Standing
<1> QED
  BY <1>3, <1>4, <1>5 DEF BookingInv

(* The rows of the requests and liens and the receipts on hold tell the    *)
(* same, whatever the order in which the handlers ran (withdrawals, loans, *)
(* trades and pledges services).                                           *)
THEOREM BookingInvariance ==
    ASSUME BookingAssumption, Scale = 1
    PROVE  Spec => []BookingInv
<1>1. BookingInv /\ [BookingNext]_bookingVars => BookingInv'
  BY NextIsBooked, StutterIsSound DEF Sound
<1> QED
  BY <1>1, InitIsBooked, PTL DEF Spec

-----------------------------------------------------------------------------
(* What the screens show.                                                  *)

(* Corrections apart, the lines of a statement stay what they were: of a   *)
(* deposit because only goods on hold change hands, of a request because   *)
(* its row is not rewritten and the receipt it moves to is of the same     *)
(* tree.                                                                   *)
LEMMA StatementStays ==
    ASSUME BookingInv, Recorded, NEW c \in Client
    PROVE  Statement(c) \subseteq Statement(c)'
<1>1. Descent /\ \A t \in Txn : RowsTyped(t)
  BY DEF BookingInv, LedgerSound, Booked
<1>2. ASSUME NEW r \in Roots \cap Own(c)
      PROVE  r \in Roots' \cap Own(c)' /\ DepositLine(r)' = DepositLine(r)
  <2>1. r \in Minted /\ receipt[r].parent = NoReceipt /\ receipt[r].owner = c
    BY DEF Roots, Own
  <2>2. /\ r \in Minted' /\ receipt'[r].parent = NoReceipt /\ receipt'[r].owner = c
        /\ receipt'[r].quantity = receipt[r].quantity
        /\ receipt'[r].root = receipt[r].root /\ receipt[r].root \in Minted
    BY <1>1, <2>1 DEF Recorded, Grown, SameLineage, Descent
  <2>3. lot'[receipt'[r].root] = lot[receipt[r].root]
    BY <2>2 DEF Recorded
  <2> QED
    BY <2>2, <2>3 DEF Roots, Own, DepositLine
<1>3. ASSUME NEW t \in Txn \ Filed("pledge"), c \in Parties(t)
      PROVE  /\ t \in Txn \ Filed("pledge")' /\ c \in Parties(t)'
             /\ RequestLine(t, c)' = RequestLine(t, c)
  <2>1. request[t] # NoRequest
    BY <1>3, NoneAssumption DEF Parties, NoRequest
  <2>2. RowKept(t) /\ request[t].receiptId \in Minted
    BY <1>1, <2>1 DEF Recorded, RowsTyped, RequestRow
  <2>3. /\ request'[t].kind = request[t].kind /\ request'[t].client = request[t].client
        /\ request'[t].quantity = request[t].quantity
        /\ request[t].buyer # None => request'[t].buyer = request[t].buyer
        /\ receipt'[request'[t].receiptId].root = receipt[request[t].receiptId].root
        /\ request[t].kind = "loan" => request'[t].receiptId = request[t].receiptId
    BY <2>1, <2>2 DEF RowKept
  <2>4. t \in Txn \ Filed("pledge")' /\ c \in Parties(t)'
    BY <1>3, <2>3, NoneAssumption DEF Filed, Parties
  <2>5. Side(t, c)' = Side(t, c)
    BY <2>3 DEF Side
  <2>6. ShownQuantity(t)' = ShownQuantity(t)
    BY <2>2, <2>3 DEF ShownQuantity, Recorded, Grown, SameLineage
  <2>7. lot'[receipt'[request'[t].receiptId].root] = lot[receipt[request[t].receiptId].root]
    BY <1>1, <2>2, <2>3 DEF Recorded, Descent
  <2> QED
    BY <2>3, <2>4, <2>5, <2>6, <2>7 DEF RequestLine
<1> QED
  BY <1>2, <1>3 DEF Statement

(* The rows are well formed and point at receipts that exist.              *)
THEOREM RowsAreTyped ==
    ASSUME BookingAssumption, Scale = 1
    PROVE  Spec => []TypeOK
<1>1. BookingInv => TypeOK
  <2> SUFFICES ASSUME BookingInv
               PROVE  TypeOK
    OBVIOUS
  <2>1. TableTypeOK /\ Tables /\ \A t \in Txn : RowsTyped(t)
    BY DEF BookingInv, LedgerSound, RowInv, LedgerInv, Booked
  <2> QED
    BY <2>1 DEF TypeOK, BookingTypeOK, Tables, RowsTyped
<1> QED
  BY <1>1, BookingInvariance, PTL

(* The filter groups of the receipt lists: a row is on the tab that its    *)
(* label names, and the badges count what the tabs list.                   *)
THEOREM GroupsAlwaysAgree ==
    ASSUME BookingAssumption, Scale = 1
    PROVE  Spec => []GroupsAgree
<1>1. BookingInv => GroupsAgree
  <2> SUFFICES ASSUME BookingInv
               PROVE  GroupsAgree
    OBVIOUS
  <2>1. \A r \in Minted : /\ receipt[r].status \in Status
                          /\ receipt[r].status = "ACTIVE" => receipt[r].approval = "APPROVED"
    BY BoundsAssumption
       DEF BookingInv, LedgerSound, RowInv, LedgerInv, TableTypeOK, RowsSettled, Settled,
           Minted, Receipt, Row
  <2>2. \A r \in Minted, g \in Group :
           DeriveGroup(r) = g <=> receipt[r].status \in StatusesForGroup(g)
    <3>2. /\ StatusesForGroup("CANCELLED") = ClosedStatus
          /\ StatusesForGroup("LIENED") = {"PENDING_APPROVAL"} \cup HeldStatus
          /\ StatusesForGroup("ACTIVE") = {"ACTIVE"}
      BY DEF StatusesForGroup
    <3>1. ASSUME NEW r \in Minted, NEW g \in Group
          PROVE  DeriveGroup(r) = g <=> receipt[r].status \in StatusesForGroup(g)
      <4>1. CASE receipt[r].status \in ClosedStatus
        <5>1. DeriveGroup(r) = "CANCELLED"
          BY <4>1 DEF DeriveGroup
        <5> QED
          BY <3>2, <4>1, <5>1, StatusRoles DEF Group
      <4>2. CASE receipt[r].status \in {"PENDING_APPROVAL"} \cup HeldStatus
        <5>1. DeriveGroup(r) = "LIENED"
          BY <4>2, StatusRoles DEF DeriveGroup
        <5> QED
          BY <3>2, <4>2, <5>1, StatusRoles DEF Group
      <4>3. CASE receipt[r].status = "ACTIVE"
        <5>1. DeriveGroup(r) = "ACTIVE"
          BY <2>1, <4>3, StatusRoles DEF DeriveGroup
        <5> QED
          BY <3>2, <4>3, <5>1, StatusRoles DEF Group
      <4> QED
        BY <2>1, <4>1, <4>2, <4>3 DEF Status
    <3> QED
      BY <3>1
  <2>3. ASSUME NEW c \in Client, NEW g \in Group
        PROVE  /\ \A r \in Tab(c, g) : DeriveGroup(r) = g
               /\ Tab(c, g) \ In({"SPLIT"}) = {r \in AllTab(c) : DeriveGroup(r) = g}
    BY <2>2 DEF Tab, AllTab, Own, In
  <2> QED
    BY <2>3 DEF GroupsAgree, Badge
<1> QED
  BY <1>1, BookingInvariance, PTL

(* A receipt on hold shows the one request that holds it, still open       *)
(* (receipts.service and admin-receipt: the request of a receipt).         *)
THEOREM RequestsShownAreHolders ==
    ASSUME BookingAssumption, Scale = 1
    PROVE  Spec => []RequestShownIsTheHolder
<1>1. BookingInv => RequestShownIsTheHolder
  <2> SUFFICES ASSUME BookingInv, NEW r \in In({"HELD_WITHDRAWAL", "HELD_LOAN", "HELD_TRADE"})
               PROVE  /\ RequestsShown(r) = {receipt[r].sourceTxn}
                      /\ \A t \in RequestsShown(r) :
                            request[t].status \in {"PAID_PENDING_APPROVAL", "APPROVED",
                                                   "PENDING", "ACTIVE", "LISTED"}
    BY DEF RequestShownIsTheHolder
  <2>1. r \in Minted /\ IsHeld(r)
        /\ receipt[r].status \in {"HELD_WITHDRAWAL", "HELD_LOAN", "HELD_TRADE"}
    BY DEF In, IsHeld, HeldStatus
  <2>2. PICK u \in Txn : u = receipt[r].sourceTxn
    BY <2>1 DEF BookingInv, HoldersAreTransactions
  <2>3. Holder(r, u)
    BY <2>1, <2>2 DEF BookingInv, Booked, HoldsOne, HeldFor
  <2>4. /\ request[u].kind \in {"withdrawal", "loan", "trade"} /\ request[u].receiptId = r
        /\ request[u].status \in {"PAID_PENDING_APPROVAL", "APPROVED",
                                  "PENDING", "ACTIVE", "LISTED"}
    BY <2>1, <2>3 DEF Holder, At
  <2>5. \A t \in RequestsShown(r) : t = u
    BY <2>1, <2>2 DEF RequestsShown, BookingInv, Booked, RowsBacked
  <2> QED
    BY <2>2, <2>4, <2>5 DEF RequestsShown
<1> QED
  BY <1>1, BookingInvariance, PTL

(* The queues by request and the queues by receipt are the same work.      *)
THEOREM QueuesAlwaysAgree ==
    ASSUME BookingAssumption, Scale = 1
    PROVE  Spec => []QueuesAgree
<1>1. BookingInv => QueuesAgree
  <2> SUFFICES ASSUME BookingInv
               PROVE  QueuesAgree
    OBVIOUS
  <2>1. ASSUME NEW w, NEW kind, NEW status, NEW approval, OnHold(kind, status, approval)
        PROVE  {request[t].receiptId : t \in Queue(kind, status, w)}
                  = Waiting(HoldOf[kind], approval, w)
    <3>1. ASSUME NEW t \in Queue(kind, status, w)
          PROVE  request[t].receiptId \in Waiting(HoldOf[kind], approval, w)
      <4>1. t \in Txn /\ At(t, kind, status) /\ WarehouseOf(request[t].receiptId) = w
        BY DEF Queue, Filed, At
      <4>2. LET x == request[t].receiptId
            IN  x \in Minted /\ receipt[x].status = HoldOf[kind] /\ receipt[x].approval = approval
        BY <2>1, <4>1, OpenHolds
      <4> QED
        BY <4>1, <4>2 DEF Waiting, In
    <3>2. ASSUME NEW r \in Waiting(HoldOf[kind], approval, w)
          PROVE  \E t \in Queue(kind, status, w) : request[t].receiptId = r
      <4>1. /\ r \in Minted /\ receipt[r].status = HoldOf[kind]
            /\ receipt[r].approval = approval /\ WarehouseOf(r) = w
        BY DEF Waiting, In
      <4>2. IsHeld(r)
        BY <2>1, <4>1 DEF OnHold, HoldOf, HeldStatus, IsHeld
      <4>3. PICK t \in Txn : t = receipt[r].sourceTxn
        BY <4>1, <4>2 DEF BookingInv, HoldersAreTransactions
      <4>4. Holder(r, t) /\ RowsBacked(t)
        BY <4>1, <4>2, <4>3 DEF BookingInv, Booked, HoldsOne, HeldFor
      <4>5. request[t].kind = kind /\ request[t].receiptId = r
        BY <2>1, <4>1, <4>4 DEF Holder, OnHold, HoldOf, At
      <4>6. request[t].status = status
        BY <2>1, <4>1, <4>4, <4>5 DEF Holder, OnHold, HoldOf, At, RowsBacked, Backed
      <4> QED
        BY <4>1, <4>5, <4>6 DEF Queue, Filed
    <3> HIDE DEF Queue, Waiting
    <3> QED
      BY <3>1, <3>2
  <2>2. HoldOf["withdrawal"] = "HELD_WITHDRAWAL" /\ HoldOf["loan"] = "HELD_LOAN"
    BY DEF HoldOf
  <2>3. /\ OnHold("withdrawal", "PAID_PENDING_APPROVAL", "PENDING")
        /\ OnHold("withdrawal", "APPROVED", "APPROVED")
        /\ OnHold("loan", "PENDING", "PENDING")
    BY DEF OnHold
  <2>4. \A w : {request[t].receiptId : t \in Queue("withdrawal", "PAID_PENDING_APPROVAL", w)}
                = Waiting("HELD_WITHDRAWAL", "PENDING", w)
    BY <2>1, <2>2, <2>3
  <2>5. \A w : {request[t].receiptId : t \in Queue("withdrawal", "APPROVED", w)}
                = Waiting("HELD_WITHDRAWAL", "APPROVED", w)
    BY <2>1, <2>2, <2>3
  <2>6. \A w : {request[t].receiptId : t \in Queue("loan", "PENDING", w)}
                = Waiting("HELD_LOAN", "PENDING", w)
    BY <2>1, <2>2, <2>3
  <2> QED
    BY <2>4, <2>5, <2>6 DEF QueuesAgree
<1> QED
  BY <1>1, BookingInvariance, PTL

(* What one list says of a receipt or of a request, another does not deny. *)
THEOREM ScreensAlwaysAgree ==
    ASSUME BookingAssumption, Scale = 1
    PROVE  Spec => []ScreensAgree
<1>1. TypeOK /\ GroupsAgree /\ RequestShownIsTheHolder /\ QueuesAgree => ScreensAgree
  BY DEF ScreensAgree
<1> QED
  BY <1>1, RowsAreTyped, GroupsAlwaysAgree, RequestsShownAreHolders, QueuesAlwaysAgree, PTL

-----------------------------------------------------------------------------
(***************************************************************************)
(* The books.  Traced ties the goods to the requests that moved them: what *)
(* was withdrawn is on a completed request, what has another owner than    *)
(* the receipt it was split off was sold, and such requests stand on the   *)
(* goods they took.                                                        *)
(***************************************************************************)

(* Only a deposit awaits approval or is refused, and no handler seizes or  *)
(* expires.                                                                *)
Ordinary(row) ==
    /\ row.status \notin {"TRADED_OUT", "SEIZED", "EXPIRED"}
    /\ row.status \in {"PENDING_APPROVAL", "CANCELLED"}
          <=> row.parent = NoReceipt /\ row.approval # "APPROVED"

(* The receipt of t was split off a receipt of the client, for all of t.   *)
CarvedOut(t) ==
    LET r == receipt[request[t].receiptId]
    IN  /\ r.sourceEvent = <<"hold", t>>
        /\ r.parent # NoReceipt
        /\ r.quantity = request[t].quantity
        /\ receipt[r.parent].owner = request[t].client

RowTraced(t) ==
    LET row == request[t]
        r == receipt[row.receiptId]
    IN  /\ row.kind = "withdrawal" =>
              /\ r.owner = row.client
              /\ row.status \in {"PAID_PENDING_APPROVAL", "APPROVED", "COMPLETED"} => CarvedOut(t)
              /\ row.status = "COMPLETED" => r.status = "WITHDRAWN"
        /\ row.kind = "trade" =>
              /\ row.status \in {"LISTED", "SETTLED"} => CarvedOut(t)
              /\ row.status = "LISTED" => r.owner = row.client
              /\ row.status = "SETTLED" => /\ r.owner = row.buyer
                                           /\ row.buyer \in Client \ {row.client}

Sold(r) == /\ receipt[r].parent # NoReceipt
           /\ receipt[r].owner # receipt[receipt[r].parent].owner

ReceiptTraced(r) ==
    /\ receipt[r].status = "WITHDRAWN" =>
          \E t \in Txn : At(t, "withdrawal", "COMPLETED") /\ request[t].receiptId = r
    /\ Sold(r) => \E t \in Txn : At(t, "trade", "SETTLED") /\ request[t].receiptId = r

AllOrdinary == \A r \in Minted : Ordinary(receipt[r])

Traced ==
    /\ AllOrdinary
    /\ \A t \in Txn : RowTraced(t)
    /\ \A r \in Minted : ReceiptTraced(r)

(* A step that neither dispatches goods nor passes them on.                *)
Calm ==
    /\ Grown /\ AllOrdinary'
    /\ \A r \in Minted : /\ receipt'[r].owner = receipt[r].owner
                         /\ receipt'[r].status = "WITHDRAWN" => receipt[r].status = "WITHDRAWN"
    /\ \A c \in Minted' \ Minted :
          /\ receipt'[c].status # "WITHDRAWN"
          /\ receipt'[c].parent # NoReceipt => /\ receipt'[c].parent \in Minted
                                               /\ receipt'[c].owner
                                                     = receipt[receipt'[c].parent].owner

(* The row keeps what it stands on, and neither closes with a delivery nor *)
(* reopens.                                                                *)
RowFollows(t) ==
    LET old == request[t]  new == request'[t]
    IN  \/ new = old
        \/ /\ new.kind = old.kind /\ new.receiptId = old.receiptId
           /\ new.client = old.client /\ new.quantity = old.quantity
           /\ new.status \notin {"COMPLETED", "LISTED", "SETTLED"}
           /\ old.status \notin {"COMPLETED", "SETTLED"}
           /\ old.kind = "withdrawal" /\ new.status \in {"PAID_PENDING_APPROVAL", "APPROVED"} =>
                 old.status \in {"PAID_PENDING_APPROVAL", "APPROVED"}

Delivered(t) == At(t, "withdrawal", "COMPLETED") \/ At(t, "trade", "SETTLED")

(* Rows and receipts that exist.                                           *)
LEMMA BookedRows ==
    ASSUME BookingInv
    PROVE  /\ \A t \in Txn : request[t].kind # "none" => request[t].receiptId \in Minted
           /\ \A t \in Txn : /\ request[t].kind = "withdrawal" => request[t] \in RequestRow("withdrawal")
                             /\ request[t].kind = "trade" => request[t] \in RequestRow("trade")
           /\ \A r \in Minted : /\ receipt[r] \in Row /\ r \in Nat
                                /\ receipt[r].parent # NoReceipt => receipt[r].parent \in Minted
<1>1. ASSUME NEW t \in Txn
      PROVE  request[t] = NoRequest \/ \E kind \in Kind : request[t] \in RequestRow(kind)
  BY DEF BookingInv, Booked, RowsTyped
<1>2. LedgerSound
  BY DEF BookingInv
<1>3. \A r \in Minted : receipt[r] \in Row /\ r \in Nat
  BY <1>2, BoundsAssumption DEF LedgerSound, RowInv, LedgerInv, TableTypeOK, Minted, Receipt
<1> QED
  BY <1>1, <1>2, <1>3 DEF RequestRow, NoRequest, LedgerSound, Descent

LEMMA RowStaysTraced ==
    ASSUME BookingInv, Traced, Grown, \A r \in Minted : receipt'[r].owner = receipt[r].owner,
           NEW t \in Txn, RowFollows(t)
    PROVE  RowTraced(t)'
<1> DEFINE x == request[t].receiptId
<1>1. CASE request[t].kind \notin {"withdrawal", "trade"}
  BY <1>1 DEF RowFollows, RowTraced
<1>2. CASE request[t].kind \in {"withdrawal", "trade"}
  <2>1. /\ x \in Minted /\ RowTraced(t) /\ request'[t].receiptId = x
        /\ receipt[x].parent # NoReceipt => receipt[x].parent \in Minted
    BY <1>2, BookedRows DEF RowFollows, Traced
  <2>2. /\ receipt'[x].owner = receipt[x].owner
        /\ receipt'[x].quantity = receipt[x].quantity
        /\ receipt'[x].parent = receipt[x].parent
        /\ receipt'[x].sourceEvent = receipt[x].sourceEvent
        /\ receipt[x].status = "WITHDRAWN" => receipt'[x].status = "WITHDRAWN"
        /\ receipt[x].parent # NoReceipt =>
              receipt'[receipt[x].parent].owner = receipt[receipt[x].parent].owner
    BY <2>1, StatusRoles DEF Grown, SameLineage
  <2>3. CarvedOut(t) /\ request'[t].client = request[t].client
           /\ request'[t].quantity = request[t].quantity => CarvedOut(t)'
    BY <2>1, <2>2 DEF CarvedOut
  <2> HIDE DEF x
  <2> QED
    BY <1>2, <2>1, <2>2, <2>3 DEF RowFollows, RowTraced, x
<1> QED
  BY <1>1, <1>2

LEMMA CalmKeepsTraced ==
    ASSUME BookingInv, Traced, Calm, \A t \in Txn : RowTraced(t)',
           \A t \in Txn : Delivered(t) => request'[t] = request[t]
    PROVE  Traced'
<1>1. ASSUME NEW r \in Minted', receipt'[r].status = "WITHDRAWN"
      PROVE  \E t \in Txn : At(t, "withdrawal", "COMPLETED")' /\ request'[t].receiptId = r
  <2>1. r \in Minted /\ receipt[r].status = "WITHDRAWN"
    BY <1>1 DEF Calm
  <2> QED
    BY <2>1 DEF Traced, ReceiptTraced, Delivered, At
<1>2. ASSUME NEW r \in Minted', Sold(r)'
      PROVE  \E t \in Txn : At(t, "trade", "SETTLED")' /\ request'[t].receiptId = r
  <2>1. r \in Minted
    BY <1>2 DEF Calm, Sold
  <2>2. Sold(r)
    BY <1>2, <2>1, BookedRows DEF Calm, Sold, Grown, SameLineage
  <2> QED
    BY <2>1, <2>2 DEF Traced, ReceiptTraced, Delivered, At
<1> QED
  BY <1>1, <1>2 DEF Traced, Calm, ReceiptTraced

LEMMA CalmFollows ==
    ASSUME BookingInv, Traced, Calm, \A t \in Txn : RowFollows(t)
    PROVE  Traced'
<1>1. \A t \in Txn : RowTraced(t)'
  BY RowStaysTraced DEF Calm
<1>2. \A t \in Txn : Delivered(t) => request'[t] = request[t]
  BY DEF RowFollows, Delivered, At
<1> QED
  BY <1>1, <1>2, CalmKeepsTraced

-----------------------------------------------------------------------------
(* Which steps of the ledger are calm.                                     *)
LEMMA UpdateIsCalm ==
    ASSUME BookingInv, Traced, Grown, NEW x \in Minted,
           minted' = minted, Untouched(Minted \ {x}),
           receipt'[x].owner = receipt[x].owner,
           receipt'[x].status # "WITHDRAWN", Ordinary(receipt'[x])
    PROVE  Calm
<1>1. Minted' = Minted /\ \A r \in Minted : r # x => receipt'[r] = receipt[r]
  BY DEF Minted, Untouched
<1>2. AllOrdinary'
  BY <1>1 DEF Traced, AllOrdinary
<1> QED
  BY <1>1, <1>2 DEF Calm

(* release, approveHold and the acceptance of a pledge.                    *)
LEMMA HoldMovesCalmly ==
    ASSUME Scale = 1, BookingInv, Traced, NEW t \in Txn, NEW x \in HeldFor(t),
           NEW k \in Key,
           Release(k, x) \/ ApproveHold(k, x) \/ TransitionPledgeToLien(k, x)
    PROVE  Calm
<1>1. x \in Minted /\ RowInv /\ IsHeld(x) /\ receipt[x].parent # NoReceipt
  BY DEF HeldFor, BookingInv, LedgerSound, HeldAreChildren
<1>2. LedgerStep(k)
  BY <1>1 DEF LedgerStep, StatusStep
<1>3. Grown
  BY <1>2, LedgerKeeps DEF BookingInv
<1>4. receipt[x] \in Row
  BY <1>1, BookedRows
<1>5. PICK status \in {"ACTIVE"} \cup HeldStatus :
        \E approval \in Approval :
          LET new == [receipt[x] EXCEPT !.status = status, !.approval = approval]
          IN  Update(x, new)
  <2>1. CASE Release(k, x)
    <3>1. Update(x, [receipt[x] EXCEPT !.status = "ACTIVE", !.approval = "APPROVED"])
      BY <2>1 DEF Release
    <3> QED
      BY <3>1 DEF Approval
  <2>2. CASE ApproveHold(k, x)
    <3>1. Update(x, [receipt[x] EXCEPT !.approval = "APPROVED"])
      BY <2>2 DEF ApproveHold
    <3>2. [receipt[x] EXCEPT !.approval = "APPROVED"]
             = [receipt[x] EXCEPT !.status = receipt[x].status, !.approval = "APPROVED"]
      BY <1>4 DEF Row
    <3>3. Update(x, [receipt[x] EXCEPT !.status = receipt[x].status, !.approval = "APPROVED"])
      BY <3>1, <3>2
    <3> QED
      BY <1>1, <3>3 DEF Approval, IsHeld
  <2>3. CASE TransitionPledgeToLien(k, x)
    <3>1. Update(x, [receipt[x] EXCEPT !.status = "HELD_LIEN"])
      BY <2>3 DEF TransitionPledgeToLien
    <3>2. [receipt[x] EXCEPT !.status = "HELD_LIEN"]
             = [receipt[x] EXCEPT !.status = "HELD_LIEN", !.approval = receipt[x].approval]
      BY <1>4 DEF Row
    <3>3. Update(x, [receipt[x] EXCEPT !.status = "HELD_LIEN", !.approval = receipt[x].approval])
      BY <3>1, <3>2
    <3>4. receipt[x].approval \in Approval /\ "HELD_LIEN" \in HeldStatus
      BY <1>4, StatusRoles DEF Row
    <3> QED
      BY <3>3, <3>4
  <2> QED
    BY <2>1, <2>2, <2>3
<1>6. PICK approval \in Approval :
          Update(x, [receipt[x] EXCEPT !.status = status, !.approval = approval])
  BY <1>5
<1> DEFINE new == [receipt[x] EXCEPT !.status = status, !.approval = approval]
<1>7. /\ new.status = status /\ new.owner = receipt[x].owner
      /\ new.parent = receipt[x].parent
  BY <1>4 DEF Row
<1>8. Update(x, new)
  BY <1>6
<1> HIDE DEF new
<1>9. minted' = minted /\ Untouched(Minted \ {x}) /\ receipt'[x] = new
  BY <1>1, <1>8, UpdateIs
<1>10. /\ status # "WITHDRAWN"
       /\ status \notin {"TRADED_OUT", "SEIZED", "EXPIRED", "PENDING_APPROVAL", "CANCELLED"}
  BY <1>5 DEF HeldStatus
<1>11. Ordinary(new)
  BY <1>1, <1>7, <1>10 DEF Ordinary
<1> QED
  BY <1>1, <1>3, <1>7, <1>9, <1>10, <1>11, UpdateIsCalm

(* A receipt in stock is superseded by receipts in stock, of its owner.    *)
LEMMA SplitIsCalm ==
    ASSUME BookingInv, Traced, Grown, NEW x \in Minted,
           Untouched(Minted \ {x}), receipt[x].status \in InWarehouse,
           receipt'[x] = [receipt[x] EXCEPT !.status = "SPLIT", !.isParent = TRUE],
           \A c \in Minted' \ Minted :
              /\ receipt'[c].parent = x /\ receipt'[c].owner = receipt[x].owner
              /\ receipt'[c].status \in InWarehouse
    PROVE  Calm
<1>1. receipt[x] \in Row /\ x \in Nat /\ x # NoReceipt
  BY BookedRows DEF Minted, NoReceipt
<1>2. /\ receipt'[x].status = "SPLIT" /\ receipt'[x].owner = receipt[x].owner
      /\ receipt'[x].approval = receipt[x].approval /\ receipt'[x].parent = receipt[x].parent
  BY <1>1 DEF Row
<1>3. \A r \in Minted : r # x => receipt'[r] = receipt[r]
  BY DEF Untouched
<1>4. \A s \in InWarehouse : s \notin {"TRADED_OUT", "SEIZED", "EXPIRED", "PENDING_APPROVAL",
                                       "CANCELLED", "WITHDRAWN"}
  BY DEF InWarehouse, HeldStatus
<1>5. AllOrdinary'
  <2>1. ASSUME NEW r \in Minted'
        PROVE  Ordinary(receipt'[r])
    <3>1. CASE r = x
      BY <1>2, <1>4, <3>1 DEF Ordinary, Traced, AllOrdinary
    <3>2. CASE r \in Minted /\ r # x
      BY <1>3, <3>2 DEF Traced, AllOrdinary
    <3>3. CASE r \notin Minted
      BY <1>1, <1>4, <2>1, <3>3 DEF Ordinary
    <3> QED
      BY <3>1, <3>2, <3>3
  <2> QED
    BY <2>1 DEF AllOrdinary
<1> QED
  BY <1>1, <1>2, <1>3, <1>4, <1>5 DEF Calm

(* hold: what it adds to what HoldBegins says of it.                       *)
LEMMA HoldIsCalm ==
    ASSUME BookingAssumption, Scale = 1, BookingInv, Traced, NEW t \in Txn,
           NEW r \in Minted, NEW n \in 1..MaxQuantity, NEW kind \in Kind,
           Hold(<<"hold", t>>, r, Exactly(n), HoldOf[kind], t)
    PROVE  /\ Calm
           /\ \A c \in Minted' \ Minted : /\ receipt'[c].parent = r
                                          /\ receipt'[c].owner = receipt[r].owner
<1> DEFINE k == <<"hold", t>>
           s == HoldOf[kind]
<1>1. k \in Key /\ s \in HoldStatus
  BY KeysAndHolds
<1>2. RowInv
  BY DEF BookingInv, LedgerSound
<1>3. Reserves(k, r, n, s, t) /\ Grown
  BY <1>1, <1>2, HoldIs
<1>4. s \in InWarehouse /\ "ACTIVE" \in InWarehouse
  BY <1>1, StatusRoles DEF InWarehouse
<1> HIDE DEF k, s
<1>5. \A c \in Minted' \ Minted : receipt'[c].status \in InWarehouse
  BY <1>3, <1>4 DEF Reserves
<1>6. /\ Untouched(Minted \ {r}) /\ receipt[r].status \in InWarehouse
      /\ receipt'[r] = [receipt[r] EXCEPT !.status = "SPLIT", !.isParent = TRUE]
      /\ \A c \in Minted' \ Minted :
            receipt'[c].parent = r /\ receipt'[c].owner = receipt[r].owner
  BY <1>3, <1>4 DEF Reserves
<1> QED
  BY <1>3, <1>5, <1>6, SplitIsCalm

LEMMA ReleasePartIsCalm ==
    ASSUME Scale = 1, BookingInv, Traced, NEW k \in Key, NEW x \in Minted,
           NEW n \in 1..MaxQuantity, ReleasePartial(k, x, Exactly(n))
    PROVE  Calm
<1>1. RowInv
  BY DEF BookingInv, LedgerSound
<1>2. Shares(k, x, n) /\ Grown
  BY <1>1, ReleasePartialIs
<1>3. "ACTIVE" \in InWarehouse /\ "HELD_LIEN" \in InWarehouse /\ receipt[x].status \in InWarehouse
  BY <1>2, StatusRoles DEF InWarehouse, Shares, IsHeld
<1>4. \A c \in Minted' \ Minted : receipt'[c].status \in InWarehouse
  BY <1>2, <1>3 DEF Shares
<1> QED
  BY <1>2, <1>3, <1>4, SplitIsCalm DEF Shares

LEMMA LedgerAloneIsCalm ==
    ASSUME BookingInv, Traced, UNCHANGED ledgerVars
    PROVE  Calm
<1>1. minted' = minted /\ receipt' = receipt
  BY DEF ledgerVars
<1>2. Grown
  BY LedgerAlone DEF Handles
<1>3. Minted' = Minted /\ AllOrdinary'
  BY <1>1 DEF Minted, Traced, AllOrdinary
<1> QED
  BY <1>1, <1>2, <1>3 DEF Calm

-----------------------------------------------------------------------------
(* The handlers keep the trace.                                            *)

(* Only the status of a row is written, and nothing is delivered.          *)
LEMMA PutFollows ==
    ASSUME BookingInv, NEW t \in Txn, NEW final, Put(t, final),
           final \notin {"COMPLETED", "LISTED", "SETTLED"},
           request[t].status \notin {"COMPLETED", "SETTLED"},
           request[t].kind = "withdrawal" /\ final \in {"PAID_PENDING_APPROVAL", "APPROVED"} =>
              request[t].status \in {"PAID_PENDING_APPROVAL", "APPROVED"}
    PROVE  \A u \in Txn : RowFollows(u)
<1> DEFINE row == [request[t] EXCEPT !.status = final]
<1>1. request[t] = NoRequest \/ \E kind \in Kind : request[t] \in RequestRow(kind)
  BY DEF BookingInv, Booked, RowsTyped
<1>2. /\ row.status = final /\ row.kind = request[t].kind
      /\ row.receiptId = request[t].receiptId /\ row.client = request[t].client
      /\ row.quantity = request[t].quantity
  BY <1>1 DEF RequestRow, NoRequest
<1>3. request' = [request EXCEPT ![t] = row]
  BY PutIsRow
<1> HIDE DEF row
<1>4. request'[t] = row /\ \A u \in Txn \ {t} : request'[u] = request[u]
  BY <1>3, PutKeeps
<1> QED
  BY <1>2, <1>4 DEF RowFollows

(* rejectWithdrawal, approveWithdrawal, approveLoan, rejectLoan, repayLoan *)
(* and cancelTrade.                                                        *)
LEMMA MoveKeepsTraced ==
    ASSUME BookingAssumption, Scale = 1, BookingInv, Traced, NEW t \in Txn,
           NEW kind, NEW status, NEW approval,
           At(t, kind, status), OnHold(kind, status, approval),
           NEW final, final \notin {"COMPLETED", "LISTED", "SETTLED"},
           \/ Give(t, final)
           \/ Move(t, ApproveHold(<<"approve", t>>, request[t].receiptId), final)
    PROVE  Traced'
<1>1. PICK x \in HeldFor(t) : x = request[t].receiptId
  BY OpenHolds
<1>2. Put(t, final) /\ (Release(<<"close", t>>, x) \/ ApproveHold(<<"approve", t>>, x))
  BY <1>1 DEF Give, Move
<1>3. Calm
  BY <1>2, KeysAndHolds, HoldMovesCalmly
<1>4. /\ request[t].status \notin {"COMPLETED", "SETTLED"}
      /\ request[t].kind = "withdrawal" =>
            request[t].status \in {"PAID_PENDING_APPROVAL", "APPROVED"}
  BY DEF At, OnHold
<1>5. \A u \in Txn : RowFollows(u)
  BY <1>2, <1>4, PutFollows
<1> QED
  BY <1>3, <1>5, CalmFollows

LEMMA RejectUnpaidKeepsTraced ==
    ASSUME BookingInv, Traced, NEW t \in Txn, At(t, "withdrawal", "PENDING_PAYMENT"),
           Move(t, UNCHANGED ledgerVars, "REJECTED")
    PROVE  Traced'
<1>1. Calm
  BY LedgerAloneIsCalm DEF Move
<1>2. \A u \in Txn : RowFollows(u)
  BY PutFollows DEF Move, At
<1> QED
  BY <1>1, <1>2, CalmFollows

LEMMA DeclineKeepsTraced ==
    ASSUME BookingAssumption, Scale = 1, BookingInv, Traced, NEW t \in Txn, DeclinePledge(t)
    PROVE  Traced'
<1>1. PICK x \in HeldChild(t) : Move(t, Release(<<"close", t>>, x), "REJECTED")
  BY DEF DeclinePledge
<1>2. x \in HeldFor(t)
  BY PledgedChild
<1>3. Calm
  BY <1>1, <1>2, KeysAndHolds, HoldMovesCalmly DEF Move
<1>4. request[t].kind = "pledge" /\ request[t].status = "PENDING" /\ Put(t, "REJECTED")
  BY <1>1 DEF Move, DeclinePledge, At
<1>5. \A u \in Txn : RowFollows(u)
  BY <1>4, PutFollows
<1> QED
  BY <1>3, <1>5, CalmFollows

LEMMA AcceptKeepsTraced ==
    ASSUME BookingAssumption, Scale = 1, BookingInv, Traced, NEW t \in Txn, AcceptPledge(t)
    PROVE  Traced'
<1>1. PICK x \in HeldChild(t) : TransitionPledgeToLien(<<"approve", t>>, x)
  BY DEF AcceptPledge
<1>2. x \in HeldFor(t)
  BY PledgedChild
<1>3. Calm
  BY <1>1, <1>2, KeysAndHolds, HoldMovesCalmly
<1>4. request[t].kind = "pledge" /\ request[t].status = "PENDING" /\ Put(t, "ACCEPTED")
  BY DEF AcceptPledge, At
<1>5. \A u \in Txn : RowFollows(u)
  BY <1>4, PutFollows
<1> QED
  BY <1>3, <1>5, CalmFollows

LEMMA ReleaseLienKeepsTraced ==
    ASSUME BookingAssumption, Scale = 1, BookingInv, Traced, NEW t \in Txn,
           ReleaseLien(t) \/ \E q \in 1..MaxQuantity : ReleaseLienPart(t, q)
    PROVE  Traced'
<1>1. Standing(t) /\ request' = request
  BY DEF ReleaseLien, ReleaseLienPart, Standing
<1>2. PICK x \in HeldFor(t) : x = lien[t].receiptId /\ x \in Minted
  BY <1>1, LienHolds
<1>3. CASE ReleaseLien(t)
  <2>1. Release(<<"close", t>>, x)
    BY <1>2, <1>3 DEF ReleaseLien
  <2>2. Calm
    BY <2>1, KeysAndHolds, HoldMovesCalmly
  <2> QED
    BY <1>1, <2>2, CalmFollows DEF RowFollows
<1>4. ASSUME NEW q \in 1..MaxQuantity, ReleaseLienPart(t, q)
      PROVE  Traced'
  <2>1. ReleasePartial(<<"release", t>>, x, Exactly(q))
    BY <1>2, <1>4 DEF ReleaseLienPart
  <2>2. Calm
    BY <1>2, <2>1, KeysAndHolds, ReleasePartIsCalm
  <2> QED
    BY <1>1, <2>2, CalmFollows DEF RowFollows
<1> QED
  BY <1>3, <1>4

(* The row of one request is written.                                      *)
LEMMA OneRowFollows ==
    ASSUME BookingInv, Traced, Calm, NEW t \in Txn, RowTraced(t)', ~Delivered(t),
           \A u \in Txn \ {t} : request'[u] = request[u]
    PROVE  Traced'
<1>1. \A u \in Txn \ {t} : RowTraced(u)'
  BY RowStaysTraced DEF RowFollows, Calm
<1> QED
  BY <1>1, CalmKeepsTraced

(* confirmPayment, createLoan and createTrade.                             *)
LEMMA ReserveKeepsTraced ==
    ASSUME BookingAssumption, Scale = 1, BookingInv, Traced, NEW t \in Txn,
           request[t] = NoRequest \/ At(t, "withdrawal", "PENDING_PAYMENT"),
           NEW kind \in {"withdrawal", "loan", "trade"},
           NEW r \in Minted, NEW n \in 1..MaxQuantity, NEW row,
           Reserve(t, kind, r, n, row),
           row \in RequestRow(kind), OnHold(kind, row.status, "PENDING"),
           row.quantity = n, row.client = receipt[r].owner
    PROVE  Traced'
<1>1. HeldFor(t) = {}
  BY NothingHeld
<1>2. kind \in Kind
  BY DEF Kind, RequestStatus
<1>3. Hold(<<"hold", t>>, r, Exactly(n), HoldOf[kind], t)
  BY DEF Reserve
<1>4. PICK a \in Minted' \ Minted :
          /\ HeldChild(t)' = {a} /\ receipt'[a].quantity = n
          /\ receipt'[a].sourceEvent = <<"hold", t>>
  BY <1>1, <1>2, <1>3, HoldBegins
<1>5. /\ Calm /\ receipt'[a].parent = r /\ receipt'[a].owner = receipt[r].owner
      /\ receipt'[r].owner = receipt[r].owner /\ r # NoReceipt
  <2>1. /\ Calm
        /\ \A c \in Minted' \ Minted : /\ receipt'[c].parent = r
                                       /\ receipt'[c].owner = receipt[r].owner
    BY <1>2, <1>3, HoldIsCalm
  <2>2. r # NoReceipt
    BY BookedRows DEF Minted, NoReceipt
  <2> QED
    BY <2>1, <2>2 DEF Calm
<1> DEFINE new == [row EXCEPT !.receiptId = a]
<1>6. request' = [request EXCEPT ![t] = new]
  BY <1>4 DEF Reserve
<1>7. /\ new.receiptId = a /\ new.status = row.status /\ new.kind = kind
      /\ new.quantity = n /\ new.client = row.client
  BY DEF RequestRow
<1> HIDE DEF new
<1>8. request'[t] = new /\ \A u \in Txn \ {t} : request'[u] = request[u]
  BY <1>6, PutKeeps
<1>9. CarvedOut(t)'
  BY <1>4, <1>5, <1>7, <1>8 DEF CarvedOut
<1>10. new.status \notin {"COMPLETED", "SETTLED"}
  BY <1>7 DEF OnHold
<1>11. RowTraced(t)'
  BY <1>5, <1>7, <1>8, <1>9, <1>10 DEF RowTraced
<1>12. ~Delivered(t)
  BY DEF Delivered, At, NoRequest
<1> QED
  BY <1>5, <1>8, <1>11, <1>12, OneRowFollows

LEMMA ConfirmKeepsTraced ==
    ASSUME BookingAssumption, Scale = 1, BookingInv, Traced, NEW t \in Txn, ConfirmPayment(t)
    PROVE  Traced'
<1> DEFINE row == [request[t] EXCEPT !.status = "PAID_PENDING_APPROVAL"]
<1>1. At(t, "withdrawal", "PENDING_PAYMENT") /\ RowsTyped(t)
  BY DEF ConfirmPayment, BookingInv, Booked
<1>2. request[t] # NoRequest /\ request[t].kind = "withdrawal"
  BY <1>1 DEF At, NoRequest
<1>3. request[t] \in RequestRow("withdrawal") /\ request[t].quantity \in 1..MaxQuantity
  BY <1>1, <1>2, BookedRows DEF RowsTyped
<1>4. /\ row \in RequestRow("withdrawal") /\ row.status = "PAID_PENDING_APPROVAL"
      /\ row.quantity = request[t].quantity /\ row.client = request[t].client
      /\ request[t].receiptId \in Minted
  BY <1>3 DEF RequestRow, RequestStatus
<1>5. Reserve(t, "withdrawal", request[t].receiptId, request[t].quantity, row)
  BY DEF ConfirmPayment
<1> HIDE DEF row
<1>6. OnHold("withdrawal", row.status, "PENDING")
  BY <1>4 DEF OnHold
<1>7. PICK r \in Minted, n \in 1..MaxQuantity : r = request[t].receiptId /\ n = request[t].quantity
  BY <1>3, <1>4
<1>8. row.client = receipt[r].owner
  BY <1>2, <1>4, <1>7 DEF Traced, RowTraced
<1> QED
  BY <1>1, <1>4, <1>5, <1>6, <1>7, <1>8, ReserveKeepsTraced

LEMMA CreateKeepsTraced ==
    ASSUME BookingAssumption, Scale = 1, BookingInv, Traced, NEW t \in Txn, NEW r \in Minted,
           CreateLoan(t, r) \/ CreateTrade(t, r)
    PROVE  Traced'
<1>1. PICK n \in 1..MaxQuantity : n = receipt[r].quantity
  BY DEF BookingInv, LedgerSound, Sized
<1>2. PICK kind \in {"loan", "trade"}, status \in {"PENDING", "LISTED"} :
          /\ kind = "loan" <=> status = "PENDING"
          /\ request[t] = NoRequest
          /\ Reserve(t, kind, r, n, Asked(kind, status, r, n))
  <2>1. CASE CreateLoan(t, r)
    <3>1. request[t] = NoRequest /\ Reserve(t, "loan", r, n, Asked("loan", "PENDING", r, n))
      BY <1>1, <2>1 DEF CreateLoan
    <3> QED
      BY <3>1
  <2>2. CASE CreateTrade(t, r)
    <3>1. request[t] = NoRequest /\ Reserve(t, "trade", r, n, Asked("trade", "LISTED", r, n))
      BY <1>1, <2>2 DEF CreateTrade
    <3> QED
      BY <3>1
  <2> QED
    BY <2>1, <2>2
<1> DEFINE row == Asked(kind, status, r, n)
<1>3. kind \in Kind /\ status \in RequestStatus[kind]
  BY <1>2 DEF Kind, RequestStatus
<1>4. row \in RequestRow(kind) /\ row.status = status /\ row.quantity = n
  BY <1>3, AskedIsTyped
<1>5. OnHold(kind, status, "PENDING") /\ row.client = receipt[r].owner
  BY <1>2 DEF OnHold, Asked
<1>6. Reserve(t, kind, r, n, row)
  BY <1>2
<1> HIDE DEF row
<1> QED
  BY <1>2, <1>4, <1>5, <1>6, ReserveKeepsTraced

LEMMA PledgeKeepsTraced ==
    ASSUME BookingAssumption, Scale = 1, BookingInv, Traced, NEW t \in Txn, NEW r \in Minted,
           NEW n \in 1..MaxQuantity, Pledge(t, r, n)
    PROVE  Traced'
<1> DEFINE row == Asked("pledge", "PENDING", r, n)
<1>1. /\ request[t] = NoRequest
      /\ Hold(<<"hold", t>>, r, Exactly(n), HoldOf["pledge"], t)
      /\ request' = [request EXCEPT ![t] = row]
  BY DEF Pledge, HoldOf
<1>2. "pledge" \in Kind /\ row.kind = "pledge"
  BY DEF Kind, RequestStatus, Asked
<1> HIDE DEF row
<1>3. Calm
  BY <1>1, <1>2, HoldIsCalm
<1>4. request'[t] = row /\ \A u \in Txn \ {t} : request'[u] = request[u]
  BY <1>1, PutKeeps
<1>5. RowTraced(t)'
  BY <1>2, <1>4 DEF RowTraced
<1>6. ~Delivered(t)
  BY <1>1 DEF Delivered, At, NoRequest
<1> QED
  BY <1>3, <1>4, <1>5, <1>6, OneRowFollows

LEMMA RequestKeepsTraced ==
    ASSUME BookingInv, Traced, NEW t \in Txn, NEW r \in Minted, NEW n \in 1..MaxQuantity,
           RequestWithdrawal(t, r, n)
    PROVE  Traced'
<1> DEFINE row == Asked("withdrawal", "PENDING_PAYMENT", r, n)
<1>1. /\ request[t] = NoRequest /\ UNCHANGED ledgerVars
      /\ request' = [request EXCEPT ![t] = row]
  BY DEF RequestWithdrawal
<1>2. /\ row.kind = "withdrawal" /\ row.status = "PENDING_PAYMENT"
      /\ row.receiptId = r /\ row.client = receipt[r].owner
  BY DEF Asked
<1> HIDE DEF row
<1>3. Calm
  BY <1>1, LedgerAloneIsCalm
<1>4. request'[t] = row /\ \A u \in Txn \ {t} : request'[u] = request[u]
  BY <1>1, PutKeeps
<1>5. RowTraced(t)'
  BY <1>2, <1>3, <1>4 DEF RowTraced, Calm
<1>6. ~Delivered(t)
  BY <1>1 DEF Delivered, At, NoRequest
<1> QED
  BY <1>3, <1>4, <1>5, <1>6, OneRowFollows

(* completeWithdrawal: the goods of t leave the warehouse.                 *)
LEMMA CompleteKeepsTraced ==
    ASSUME BookingAssumption, Scale = 1, BookingInv, Traced, NEW t \in Txn,
           CompleteWithdrawal(t)
    PROVE  Traced'
<1> DEFINE row == [request[t] EXCEPT !.status = "COMPLETED"]
<1>1. /\ At(t, "withdrawal", "APPROVED")
      /\ request[t].kind = "withdrawal" /\ request[t].status = "APPROVED"
  BY DEF CompleteWithdrawal, At
<1>2. PICK x \in HeldFor(t) : /\ x = request[t].receiptId /\ x \in Minted
                              /\ request[t] \in RequestRow("withdrawal")
  BY <1>1, OpenHolds DEF OnHold
<1>3. Consume(<<"close", t>>, x) /\ request' = [request EXCEPT ![t] = row]
  BY <1>2, PutIsRow DEF CompleteWithdrawal, Move
<1>4. /\ row.status = "COMPLETED" /\ row.kind = "withdrawal" /\ row.receiptId = x
      /\ row.client = request[t].client /\ row.quantity = request[t].quantity
  BY <1>2 DEF RequestRow
<1> HIDE DEF row
<1>5. request'[t] = row /\ \A u \in Txn \ {t} : request'[u] = request[u]
  BY <1>3, PutKeeps
<1>6. /\ Grown /\ RowInv /\ receipt[x] \in Row /\ receipt[x].parent # NoReceipt
  <2>1. IsHeld(x)
    BY DEF HeldFor
  <2>2. LedgerStep(<<"close", t>>)
    BY <1>2, <1>3 DEF LedgerStep, StatusStep
  <2>3. Grown
    BY <2>2, KeysAndHolds, LedgerKeeps DEF BookingInv
  <2> QED
    BY <1>2, <2>1, <2>3, BookedRows DEF BookingInv, LedgerSound, HeldAreChildren
<1> DEFINE gone == [receipt[x] EXCEPT !.status = "WITHDRAWN"]
<1>7. /\ gone.status = "WITHDRAWN" /\ gone.owner = receipt[x].owner
      /\ gone.parent = receipt[x].parent
  BY <1>6 DEF Row
<1>8. Update(x, gone)
  BY <1>3 DEF Consume
<1> HIDE DEF gone
<1>9. minted' = minted /\ Untouched(Minted \ {x}) /\ receipt'[x] = gone
  BY <1>2, <1>6, <1>8, UpdateIs
<1>10. /\ Minted' = Minted /\ \A r \in Minted : r # x => receipt'[r] = receipt[r]
       /\ \A r \in Minted : receipt'[r].owner = receipt[r].owner
  BY <1>7, <1>9 DEF Minted, Untouched
<1>11. AllOrdinary'
  BY <1>6, <1>7, <1>9, <1>10 DEF Traced, AllOrdinary, Ordinary
<1>12. RowTraced(t)'
  <2>1. /\ receipt[x].owner = request[t].client /\ receipt[x].sourceEvent = <<"hold", t>>
        /\ receipt[x].quantity = request[t].quantity
        /\ receipt[receipt[x].parent].owner = request[t].client
    BY <1>1, <1>2 DEF Traced, RowTraced, CarvedOut
  <2>2. receipt[x].parent \in Minted
    BY <1>2, <1>6, BookedRows
  <2>3. /\ receipt'[x].sourceEvent = <<"hold", t>> /\ receipt'[x].parent = receipt[x].parent
        /\ receipt'[x].quantity = request[t].quantity
        /\ receipt'[receipt[x].parent].owner = request[t].client
    BY <1>2, <1>6, <1>10, <2>1, <2>2 DEF Grown, SameLineage
  <2>4. CarvedOut(t)'
    BY <1>4, <1>5, <1>6, <2>3 DEF CarvedOut
  <2> QED
    BY <1>4, <1>5, <1>7, <1>9, <2>1, <2>4 DEF RowTraced
<1>13. \A u \in Txn : RowTraced(u)'
  BY <1>5, <1>6, <1>10, <1>12, RowStaysTraced DEF RowFollows
<1>14. ASSUME NEW r \in Minted'
       PROVE  ReceiptTraced(r)'
  <2>1. Sold(r)' => Sold(r)
    BY <1>6, <1>10, <1>14, BookedRows DEF Sold, Grown, SameLineage
  <2>2. ~Delivered(t) /\ At(t, "withdrawal", "COMPLETED")'
    BY <1>1, <1>4, <1>5 DEF Delivered, At
  <2>3. \A u \in Txn : Delivered(u) => request'[u] = request[u]
    BY <1>5, <2>2
  <2>4. ReceiptTraced(r)
    BY <1>10, <1>14 DEF Traced
  <2>5. Sold(r)' => \E u \in Txn : At(u, "trade", "SETTLED")' /\ request'[u].receiptId = r
    BY <2>1, <2>3, <2>4 DEF ReceiptTraced, Delivered, At
  <2>6. receipt'[r].status = "WITHDRAWN" =>
           \E u \in Txn : At(u, "withdrawal", "COMPLETED")' /\ request'[u].receiptId = r
    <3>1. CASE r = x
      BY <1>4, <1>5, <2>2, <3>1
    <3>2. CASE r # x
      BY <1>10, <1>14, <2>3, <2>4, <3>2 DEF ReceiptTraced, Delivered, At
    <3> QED
      BY <3>1, <3>2
  <2> QED
    BY <2>5, <2>6 DEF ReceiptTraced
<1> QED
  BY <1>11, <1>13, <1>14 DEF Traced

(* settleTrade: the goods of t pass to the buyer.                          *)
LEMMA SettleKeepsTraced ==
    ASSUME BookingAssumption, Scale = 1, BookingInv, Traced, NEW t \in Txn, NEW b \in Client,
           SettleTrade(t, b)
    PROVE  Traced'
<1> DEFINE row == [request[t] EXCEPT !.status = "SETTLED", !.buyer = b]
<1>1. /\ At(t, "trade", "LISTED") /\ b # request[t].client
      /\ request[t].kind = "trade" /\ request[t].status = "LISTED"
  BY DEF SettleTrade, At
<1>2. PICK x \in HeldFor(t) : /\ x = request[t].receiptId /\ x \in Minted
                              /\ request[t] \in RequestRow("trade")
  BY <1>1, OpenHolds DEF OnHold
<1>3. TransferAndRelease(<<"close", t>>, x, b) /\ request' = [request EXCEPT ![t] = row]
  BY <1>2 DEF SettleTrade, BookingInv, Tables
<1>4. /\ row.status = "SETTLED" /\ row.kind = "trade" /\ row.receiptId = x /\ row.buyer = b
      /\ row.client = request[t].client /\ row.quantity = request[t].quantity
  BY <1>2 DEF RequestRow
<1> HIDE DEF row
<1>5. request'[t] = row /\ \A u \in Txn \ {t} : request'[u] = request[u]
  BY <1>3, PutKeeps
<1>6. /\ Grown /\ RowInv /\ receipt[x] \in Row /\ receipt[x].parent # NoReceipt
      /\ IsHeld(x) /\ receipt[x].sourceTxn = t
  <2>1. IsHeld(x) /\ receipt[x].sourceTxn = t
    BY DEF HeldFor
  <2>2. LedgerStep(<<"close", t>>)
    BY <1>2, <1>3 DEF LedgerStep, OwnerStep
  <2>3. Grown
    BY <2>2, KeysAndHolds, LedgerKeeps DEF BookingInv
  <2> QED
    BY <1>2, <2>1, <2>3, BookedRows DEF BookingInv, LedgerSound, HeldAreChildren
<1> DEFINE given == [receipt[x] EXCEPT !.owner = b, !.status = "ACTIVE", !.approval = "APPROVED"]
<1>7. given.status = "ACTIVE" /\ given.owner = b /\ given.parent = receipt[x].parent
  BY <1>6 DEF Row
<1>8. Update(x, given)
  BY <1>3 DEF TransferAndRelease
<1> HIDE DEF given
<1>9. minted' = minted /\ Untouched(Minted \ {x}) /\ receipt'[x] = given
  BY <1>2, <1>6, <1>8, UpdateIs
<1>10. Minted' = Minted /\ \A r \in Minted : r # x => receipt'[r] = receipt[r]
  BY <1>9 DEF Minted, Untouched
<1>11. AllOrdinary'
  BY <1>6, <1>7, <1>9, <1>10 DEF Traced, AllOrdinary, Ordinary
<1>12. \A r \in Minted : receipt[r].parent # NoReceipt =>
           receipt[r].parent \in Minted /\ receipt[r].parent # x
  <2>1. ASSUME NEW r \in Minted, receipt[r].parent = x
        PROVE  FALSE
    <3>1. r \in Children(x)
      BY <2>1 DEF Children
    <3>2. receipt[x].status = "SPLIT"
      BY <1>2, <1>6, <3>1
         DEF RowInv, LedgerInv, SplitConservation, ConservedAt, TreeShape
    <3> QED
      BY <1>6, <3>2, StatusRoles DEF IsHeld
  <2> QED
    BY <2>1, BookedRows
<1>13. ASSUME NEW u \in Txn, u # t
       PROVE  RowTraced(u)'
  <2> DEFINE y == request[u].receiptId
  <2>1. CASE request[u].kind \notin {"withdrawal", "trade"}
    BY <1>5, <1>13, <2>1 DEF RowTraced
  <2>2. CASE request[u].kind \in {"withdrawal", "trade"}
    <3>1. y \in Minted /\ RowTraced(u) /\ RowsBacked(u)
      BY <2>2, BookedRows DEF Traced, BookingInv, Booked
    <3>2. y # x
      BY <1>6, <1>13, <2>2, <3>1 DEF RowsBacked
    <3>3. /\ receipt'[y] = receipt[y] /\ request'[u] = request[u]
          /\ receipt[y].parent # NoReceipt => receipt'[receipt[y].parent] = receipt[receipt[y].parent]
      BY <1>5, <1>10, <1>12, <1>13, <3>1, <3>2
    <3> QED
      BY <3>1, <3>3 DEF RowTraced, CarvedOut
  <2> QED
    BY <2>1, <2>2
<1>14. RowTraced(t)'
  <2>1. /\ receipt[x].sourceEvent = <<"hold", t>>
        /\ receipt[x].quantity = request[t].quantity
        /\ receipt[receipt[x].parent].owner = request[t].client
    BY <1>1, <1>2 DEF Traced, RowTraced, CarvedOut
  <2>3. /\ receipt'[x].sourceEvent = <<"hold", t>> /\ receipt'[x].parent = receipt[x].parent
        /\ receipt'[x].quantity = request[t].quantity
        /\ receipt'[receipt[x].parent].owner = request[t].client
    BY <1>2, <1>6, <1>10, <1>12, <2>1 DEF Grown, SameLineage
  <2>4. CarvedOut(t)'
    BY <1>4, <1>5, <1>6, <2>3 DEF CarvedOut
  <2> QED
    BY <1>1, <1>4, <1>5, <1>7, <1>9, <2>4 DEF RowTraced
<1>15. ASSUME NEW r \in Minted'
       PROVE  ReceiptTraced(r)'
  <2>1. ~Delivered(t) /\ At(t, "trade", "SETTLED")'
    BY <1>1, <1>4, <1>5 DEF Delivered, At
  <2>2. \A u \in Txn : Delivered(u) => request'[u] = request[u]
    BY <1>5, <2>1
  <2>3. ReceiptTraced(r) /\ r \in Minted
    BY <1>10, <1>15 DEF Traced
  <2>4. CASE r = x
    BY <1>4, <1>5, <1>7, <1>9, <2>1, <2>4 DEF ReceiptTraced
  <2>5. CASE r # x
    <3>1. receipt'[r] = receipt[r] /\ (Sold(r)' => Sold(r))
      BY <1>10, <1>12, <2>3, <2>5 DEF Sold
    <3> QED
      BY <2>2, <2>3, <3>1 DEF ReceiptTraced, Delivered, At
  <2> QED
    BY <2>4, <2>5
<1> QED
  BY <1>11, <1>13, <1>14, <1>15 DEF Traced

(* Deposits: filed, approved, refused.                                     *)
LEMMA FileKeepsTraced ==
    ASSUME BookingAssumption, Scale = 1, BookingInv, Traced,
           NEW c \in Client, NEW q \in 1..MaxQuantity, NEW place, File(c, q, place)
    PROVE  Traced'
<1> DEFINE new == minted + 1
           k == <<"deposit", new>>
<1>1. Deposit(k, c, q) /\ request' = request
  BY DEF File
<1>2. TableTypeOK /\ minted \in Nat
  BY BoundsAssumption DEF BookingInv, LedgerSound, RowInv, LedgerInv, TableTypeOK
<1>3. new \in Receipt /\ Minted \subseteq Receipt /\ new \notin Minted
  BY <1>1, <1>2, BoundsAssumption DEF Deposit, TableTypeOK, Receipt, Minted
<1>4. k \in Key /\ q \in Request
  <2>1. k \in Key
    BY <1>3, KeysAndHolds
  <2>2. q \in Request
    BY BoundsAssumption DEF Request, Exactly
  <2> QED
    BY <2>1, <2>2
<1>5. Grown
  <2>1. LedgerStep(k)
    BY <1>1, <1>4 DEF LedgerStep, RootStep
  <2> QED
    BY <1>4, <2>1, LedgerKeeps DEF BookingInv
<1>6. Minted' = Minted \cup {new}
  BY <1>1, <1>2 DEF Deposit, Minted
<1>7. /\ \A r \in Minted : receipt'[r] = receipt[r]
      /\ receipt'[new].status = "PENDING_APPROVAL" /\ receipt'[new].approval = "PENDING"
      /\ receipt'[new].parent = NoReceipt
  BY <1>1, <1>2, <1>3 DEF Deposit, TableTypeOK
<1> HIDE DEF new
<1>8. AllOrdinary'
  BY <1>6, <1>7 DEF Traced, AllOrdinary, Ordinary
<1>9. Calm
  BY <1>5, <1>6, <1>7, <1>8 DEF Calm
<1> QED
  BY <1>1, <1>9, CalmFollows DEF RowFollows

LEMMA DecideKeepsTraced ==
    ASSUME BookingAssumption, Scale = 1, BookingInv, Traced, NEW r \in Minted, Decide(r)
    PROVE  Traced'
<1> DEFINE k == <<"verdict", r>>
<1>1. (ApproveReceipt(k, r) \/ RejectReceipt(k, r)) /\ request' = request
  BY DEF Decide
<1>2. RowInv /\ receipt[r] \in Row /\ r \in Receipt
  BY BookedRows, BoundsAssumption
     DEF BookingInv, LedgerSound, RowInv, LedgerInv, TableTypeOK, Minted, Receipt
<1>3. k \in Key
  BY <1>2, KeysAndHolds
<1>4. Grown
  <2>1. LedgerStep(k)
    BY <1>1 DEF LedgerStep, RootStep
  <2> QED
    BY <1>3, <2>1, LedgerKeeps DEF BookingInv
<1>5. PICK status \in {"ACTIVE", "CANCELLED"}, approval \in {"APPROVED", "REJECTED"} :
          /\ status = "ACTIVE" <=> approval = "APPROVED"
          /\ Update(r, [receipt[r] EXCEPT !.status = status, !.approval = approval])
          /\ receipt[r].status = "PENDING_APPROVAL"
  <2>1. CASE ApproveReceipt(k, r)
    <3>1. /\ Update(r, [receipt[r] EXCEPT !.status = "ACTIVE", !.approval = "APPROVED"])
          /\ receipt[r].status = "PENDING_APPROVAL"
      BY <2>1 DEF ApproveReceipt
    <3> QED
      BY <3>1
  <2>2. CASE RejectReceipt(k, r)
    <3>1. /\ Update(r, [receipt[r] EXCEPT !.status = "CANCELLED", !.approval = "REJECTED"])
          /\ receipt[r].status = "PENDING_APPROVAL"
      BY <2>2 DEF RejectReceipt
    <3> QED
      BY <3>1
  <2> QED
    BY <1>1, <2>1, <2>2
<1> DEFINE new == [receipt[r] EXCEPT !.status = status, !.approval = approval]
<1>6. /\ new.status = status /\ new.approval = approval /\ new.owner = receipt[r].owner
      /\ new.parent = receipt[r].parent
  BY <1>2 DEF Row
<1>7. Update(r, new)
  BY <1>5
<1> HIDE DEF new
<1>8. minted' = minted /\ Untouched(Minted \ {r}) /\ receipt'[r] = new
  BY <1>2, <1>7, UpdateIs
<1>9. Ordinary(new) /\ new.status # "WITHDRAWN"
  BY <1>5, <1>6 DEF Traced, AllOrdinary, Ordinary
<1>10. Calm
  BY <1>4, <1>6, <1>8, <1>9, UpdateIsCalm
<1> QED
  BY <1>1, <1>10, CalmFollows DEF RowFollows

(* Every handler keeps Traced.                                             *)
LEMMA GiveKeepsTraced ==
    ASSUME BookingAssumption, Scale = 1, BookingInv, Traced, NEW t \in Txn,
           NEW kind, NEW status, NEW approval,
           At(t, kind, status), OnHold(kind, status, approval),
           NEW final \in {"REJECTED", "REPAID", "CANCELLED"}, Give(t, final)
    PROVE  Traced'
<1>1. final \notin {"COMPLETED", "LISTED", "SETTLED"}
  OBVIOUS
<1> QED
  BY <1>1, MoveKeepsTraced

LEMMA SettledKeepsTraced ==
    ASSUME BookingAssumption, Scale = 1, BookingInv, Traced, NEW t \in Txn, Settle(t)
    PROVE  Traced'
<1>1. /\ OnHold("withdrawal", "PAID_PENDING_APPROVAL", "PENDING")
      /\ OnHold("withdrawal", "APPROVED", "APPROVED")
      /\ OnHold("loan", "PENDING", "PENDING") /\ OnHold("loan", "ACTIVE", "APPROVED")
      /\ OnHold("trade", "LISTED", "PENDING")
  BY DEF OnHold
<1>2. CASE ConfirmPayment(t)
  BY <1>2, ConfirmKeepsTraced
<1>3. CASE ApproveWithdrawal(t)
  BY <1>1, <1>3, MoveKeepsTraced DEF ApproveWithdrawal
<1>4. CASE RejectWithdrawal(t)
  <2>1. CASE At(t, "withdrawal", "PENDING_PAYMENT") /\ Move(t, UNCHANGED ledgerVars, "REJECTED")
    BY <2>1, RejectUnpaidKeepsTraced
  <2>2. ASSUME NEW s \in {"PAID_PENDING_APPROVAL", "APPROVED"}, At(t, "withdrawal", s),
               Give(t, "REJECTED")
        PROVE  Traced'
    <3>1. PICK approval : OnHold("withdrawal", s, approval)
      BY <1>1
    <3> QED
      BY <2>2, <3>1, GiveKeepsTraced
  <2> QED
    BY <1>4, <2>1, <2>2 DEF RejectWithdrawal
<1>5. CASE CompleteWithdrawal(t)
  BY <1>5, CompleteKeepsTraced
<1>6. CASE ApproveLoan(t)
  BY <1>1, <1>6, MoveKeepsTraced DEF ApproveLoan
<1>7. CASE RejectLoan(t)
  BY <1>1, <1>7, GiveKeepsTraced DEF RejectLoan
<1>8. CASE RepayLoan(t)
  BY <1>1, <1>8, GiveKeepsTraced DEF RepayLoan
<1>9. CASE CancelTrade(t)
  BY <1>1, <1>9, GiveKeepsTraced DEF CancelTrade
<1>10. CASE \E b \in Client : SettleTrade(t, b)
  BY <1>10, SettleKeepsTraced
<1>11. CASE AcceptPledge(t)
  BY <1>11, AcceptKeepsTraced
<1>12. CASE DeclinePledge(t)
  BY <1>12, DeclineKeepsTraced
<1>13. CASE ReleaseLien(t) \/ \E q \in Quantity : ReleaseLienPart(t, q)
  BY <1>13, ReleaseLienKeepsTraced DEF Quantity
<1> QED
  BY <1>2, <1>3, <1>4, <1>5, <1>6, <1>7, <1>8, <1>9, <1>10, <1>11, <1>12, <1>13 DEF Settle

LEMMA HandledKeepsTraced ==
    ASSUME BookingAssumption, Scale = 1, BookingInv, Traced, Handled
    PROVE  Traced'
<1>1. ASSUME NEW t \in Txn, Ask(t)
      PROVE  Traced'
  BY <1>1, CreateKeepsTraced, RequestKeepsTraced, PledgeKeepsTraced DEF Ask, Quantity
<1> QED
  BY <1>1, FileKeepsTraced, DecideKeepsTraced, SettledKeepsTraced DEF Handled, Quantity

(* The goods of a request were split off a receipt, so they are no deposit *)
(* that awaits its verdict.                                                *)
LEMMA CorrectionKeepsTraced ==
    ASSUME Scale = 1, BookingInv, Traced, Correction
    PROVE  Traced'
<1>1. PICK r \in Minted : Corrects(r)
  BY CorrectIs DEF Correction
<1>2. /\ Minted' = Minted /\ request' = request
      /\ \A s \in Minted : SameButSize(receipt[s], receipt'[s])
      /\ \A s \in Minted : receipt[s].parent # NoReceipt => receipt'[s] = receipt[s]
  BY <1>1 DEF Corrects, Minted
<1>3. AllOrdinary'
  BY <1>2 DEF Traced, AllOrdinary, Ordinary, SameButSize
<1>4. ASSUME NEW t \in Txn
      PROVE  RowTraced(t)'
  <2> DEFINE x == request[t].receiptId
  <2>1. CASE request[t].kind \notin {"withdrawal", "trade"}
    BY <1>2, <2>1 DEF RowTraced
  <2>2. CASE request[t].kind \in {"withdrawal", "trade"}
    <3>1. x \in Minted /\ RowTraced(t) /\ SameButSize(receipt[x], receipt'[x])
      BY <1>2, <2>2, BookedRows DEF Traced
    <3>2. CarvedOut(t) => CarvedOut(t)'
      <4>1. receipt[x].parent # NoReceipt => receipt[x].parent \in Minted
        BY <3>1, BookedRows
      <4> QED
        BY <1>2, <3>1, <4>1 DEF CarvedOut, SameButSize
    <3> QED
      BY <1>2, <3>1, <3>2 DEF RowTraced, SameButSize
  <2> QED
    BY <2>1, <2>2
<1>5. ASSUME NEW s \in Minted
      PROVE  ReceiptTraced(s)'
  <2>1. ReceiptTraced(s) /\ (receipt[s].parent # NoReceipt => receipt[s].parent \in Minted)
    BY BookedRows DEF Traced
  <2>2. Sold(s)' <=> Sold(s)
    BY <1>2, <2>1 DEF Sold, SameButSize
  <2> QED
    BY <1>2, <2>1, <2>2 DEF ReceiptTraced, SameButSize, At
<1> QED
  BY <1>2, <1>3, <1>4, <1>5 DEF Traced

LEMMA NextKeepsTraced ==
    ASSUME BookingAssumption, Scale = 1, BookingInv, Traced, BookingNext
    PROVE  Traced'
  BY NextIs, HandledKeepsTraced, CorrectionKeepsTraced

LEMMA StutterKeepsTraced ==
    ASSUME BookingInv, Traced, UNCHANGED bookingVars
    PROVE  Traced'
<1>1. Minted' = Minted /\ receipt' = receipt /\ request' = request
  BY DEF bookingVars, ledgerVars, Minted
<1>2. AllOrdinary'
  BY <1>1 DEF Traced, AllOrdinary, Ordinary
<1>3. \A t \in Txn : RowTraced(t)'
  BY <1>1 DEF Traced, RowTraced, CarvedOut
<1>4. \A r \in Minted' : ReceiptTraced(r)'
  BY <1>1 DEF Traced, ReceiptTraced, Sold, At
<1> QED
  BY <1>2, <1>3, <1>4 DEF Traced

LEMMA InitIsTraced ==
    ASSUME BookingInit
    PROVE  Traced
<1>1. Minted = {}
  BY DEF BookingInit, LedgerInit, Minted
<1>2. \A t \in Txn : RowTraced(t)
  BY DEF BookingInit, NoRequest, RowTraced
<1> QED
  BY <1>1, <1>2 DEF Traced, AllOrdinary

(* The goods and the requests that moved them tell the same (the ledger    *)
(* primitives and the withdrawals and trades services).                    *)
THEOREM TracedInvariance ==
    ASSUME BookingAssumption, Scale = 1
    PROVE  Spec => []Traced
<1>1. BookingInv /\ Traced /\ [BookingNext]_bookingVars => Traced'
  BY NextKeepsTraced, StutterKeepsTraced
<1>2. Spec => []BookingInv
  BY BookingInvariance
<1> QED
  BY <1>1, <1>2, InitIsTraced, PTL DEF Spec

-----------------------------------------------------------------------------
(* Sums over the tables.                                                   *)

(* Every subset of a finite set has a property if one has it whose proper  *)
(* subsets do: the form in which the sums below are compared.              *)
LEMMA SmallestSubset ==
    ASSUME NEW S, IsFiniteSet(S), NEW Bad \in SUBSET SUBSET S, Bad # {}
    PROVE  \E s \in Bad : \A x \in s : s \ {x} \notin Bad
<1> DEFINE sizes == {Cardinality(s) : s \in Bad}
<1>1. \A s \in SUBSET S : IsFiniteSet(s) /\ Cardinality(s) \in Nat
  BY FS_Subset, FS_CardinalityType
<1>2. PICK n \in sizes : \A m \in sizes : n <= m
  <2>1. sizes \in SUBSET Nat /\ sizes # {}
    BY <1>1
  <2> QED
    BY <2>1, LeastNat
<1>3. PICK s \in Bad : n = Cardinality(s)
  OBVIOUS
<1>4. ASSUME NEW x \in s, s \ {x} \in Bad
      PROVE  FALSE
  <2>1. Cardinality(s \ {x}) = Cardinality(s) - 1 /\ Cardinality(s) \in Nat
    BY <1>1, FS_RemoveElement
  <2>2. n <= Cardinality(s \ {x})
    BY <1>2, <1>4
  <2> QED
    BY <1>3, <2>1, <2>2
<1> QED
  BY <1>4

(* Rows that moved to another table, one to one, stand for the same.       *)
LEMMA AmountMoved ==
    ASSUME NEW table, NEW other, NEW S, IsFiniteSet(S), NEW f,
           \A r \in S : table[r].quantity \in Int /\ other[f[r]].quantity = table[r].quantity,
           \A r, s \in S : f[r] = f[s] => r = s
    PROVE  Amount(other, {f[r] : r \in S}) = Amount(table, S)
<1> DEFINE Image(s) == {f[r] : r \in s}
           Bad == {s \in SUBSET S : Amount(other, Image(s)) # Amount(table, s)}
<1>1. SUFFICES ASSUME Bad # {} PROVE FALSE
  OBVIOUS
<1>2. PICK s \in Bad : \A x \in s : s \ {x} \notin Bad
  BY <1>1, SmallestSubset
<1>3. IsFiniteSet(s) /\ s \in SUBSET S
  BY FS_Subset
<1>4. PICK x : x \in s
  <2>1. ASSUME s = {} PROVE FALSE
    <3>1. Image(s) = {}
      BY <2>1
    <3>2. Amount(other, Image(s)) = 0 /\ Amount(table, s) = 0
      BY <2>1, <3>1, AmountOfNone
    <3> QED
      BY <3>2
  <2> QED
    BY <2>1
<1>5. PICK u : u = s \ {x}
  OBVIOUS
<1>6. Amount(table, s) = Amount(table, u) + table[x].quantity
  BY <1>3, <1>4, <1>5, AmountWithout
<1>7. Amount(other, Image(u)) = Amount(table, u)
  BY <1>2, <1>3, <1>4, <1>5
<1>8. PICK image : image = Image(u)
  OBVIOUS
<1>9. Image(s) = image \cup {f[x]} /\ f[x] \notin image
  BY <1>3, <1>4, <1>5, <1>8
<1>10. IsFiniteSet(image) /\ \A y \in image : other[y].quantity \in Int
  <2>1. IsFiniteSet(u)
    BY <1>3, <1>5, FS_Subset
  <2> DEFINE g == [r \in u |-> f[r]]
  <2>2. g \in Surjection(u, image)
    BY <1>8 DEF Surjection
  <2>3. IsFiniteSet(image)
    BY <2>1, <2>2, FS_Surjection
  <2> QED
    BY <1>3, <1>5, <1>8, <2>3
<1>11. other[f[x]].quantity = table[x].quantity /\ table[x].quantity \in Int
  BY <1>3, <1>4
<1> HIDE DEF Image
<1>12. Amount(other, image \cup {f[x]}) = Amount(other, image) + other[f[x]].quantity
  BY <1>9, <1>10, <1>11, AmountOfMore
<1> QED
  BY <1>6, <1>7, <1>8, <1>9, <1>11, <1>12

(* Rows of two kinds stand for what each kind stands for.                  *)
LEMMA AmountOfBoth ==
    ASSUME NEW table, NEW S, NEW T, IsFiniteSet(S), IsFiniteSet(T), S \cap T = {},
           \A r \in S \cup T : table[r].quantity \in Int
    PROVE  Amount(table, S \cup T) = Amount(table, S) + Amount(table, T)
<1> DEFINE Bad == {s \in SUBSET T : Amount(table, S \cup s) # Amount(table, S) + Amount(table, s)}
<1>1. SUFFICES ASSUME Bad # {} PROVE FALSE
  OBVIOUS
<1>2. PICK s \in Bad : \A x \in s : s \ {x} \notin Bad
  BY <1>1, SmallestSubset
<1>3. IsFiniteSet(s) /\ s \in SUBSET T
  BY FS_Subset
<1>4. Amount(table, S) \in Int
  BY AmountWithout
<1>5. PICK x : x \in s
  <2>1. ASSUME s = {} PROVE FALSE
    <3>1. S \cup s = S
      BY <2>1
    <3>2. Amount(table, s) = 0
      BY <2>1, AmountOfNone
    <3>3. Amount(table, S \cup s) = Amount(table, S)
      BY <3>1
    <3>4. Amount(table, S) + Amount(table, s) = Amount(table, S)
      BY <1>4, <3>2
    <3> QED
      BY <3>3, <3>4
  <2> QED
    BY <2>1
<1>6. PICK u \in Bad \cup SUBSET T : u = s \ {x}
  BY <1>3
<1>7. Amount(table, S \cup u) = Amount(table, S) + Amount(table, u)
  BY <1>2, <1>5, <1>6
<1>8. Amount(table, s) = Amount(table, u) + table[x].quantity /\ Amount(table, u) \in Int
  BY <1>3, <1>5, <1>6, AmountWithout
<1>9. /\ IsFiniteSet(S \cup s) /\ S \cup u = (S \cup s) \ {x} /\ x \in S \cup s
      /\ \A r \in S \cup s : table[r].quantity \in Int
  BY <1>3, <1>5, <1>6, FS_Union
<1>10. Amount(table, S \cup s) = Amount(table, S \cup u) + table[x].quantity
  BY <1>9, AmountWithout
<1>11. table[x].quantity \in Int
  BY <1>9
<1> QED
  BY <1>4, <1>7, <1>8, <1>10, <1>11

(* Sums whose summand is not a column named quantity.                      *)
LEMMA LinesAre ==
    ASSUME NEW table, NEW S, IsFiniteSet(S),
           \A x \in S : x.quantity \in Int /\ table[x].quantity = x.quantity
    PROVE  MapThenSumSet(LAMBDA line : line.quantity, S) = Amount(table, S)
<1> DEFINE Is(g) == g = [t \in SUBSET S |->
                       IF t = {} THEN 0
                       ELSE (CHOOSE x \in t : TRUE).quantity
                              + g[t \ {CHOOSE x \in t : TRUE}]]
           it == CHOOSE g : Is(g)
<1>1. MapThenSumSet(LAMBDA line : line.quantity, S) = it[S]
  BY DEF MapThenSumSet, MapThenFoldSet
<1>2. PICK sum \in [SUBSET S -> Int] :
          Adds(sum, table, SUBSET S) /\ \A s \in SUBSET S : Amount(table, s) = sum[s]
  BY AmountAdds
<1>3. \A t \in SUBSET S : t # {} => table[First(t)].quantity = First(t).quantity
  <2>1. \A t \in SUBSET S : t # {} => First(t) \in S
    BY DEF First
  <2> QED
    BY <2>1
<1>4. Is(sum)
  BY <1>2, <1>3 DEF Adds, First
<1>5. Is(it)
  <2> HIDE DEF Is
  <2> QED
    BY <1>4, Zenon
<1> HIDE DEF it
<1>6. Adds(it, table, SUBSET S)
  BY <1>3, <1>5 DEF Adds, First
<1>7. it[S] = sum[S]
  BY <1>2, <1>6, SumUnique
<1> QED
  BY <1>1, <1>2, <1>7

LEMMA RemainsAre ==
    ASSUME NEW table, NEW S, IsFiniteSet(S),
           \A t \in S : lien[t].remaining \in Int /\ table[t].quantity = lien[t].remaining
    PROVE  MapThenSumSet(LAMBDA t : lien[t].remaining, S) = Amount(table, S)
<1> DEFINE Is(g) == g = [s \in SUBSET S |->
                       IF s = {} THEN 0
                       ELSE lien[CHOOSE x \in s : TRUE].remaining
                              + g[s \ {CHOOSE x \in s : TRUE}]]
           it == CHOOSE g : Is(g)
<1>1. MapThenSumSet(LAMBDA t : lien[t].remaining, S) = it[S]
  BY DEF MapThenSumSet, MapThenFoldSet
<1>2. PICK sum \in [SUBSET S -> Int] :
          Adds(sum, table, SUBSET S) /\ \A s \in SUBSET S : Amount(table, s) = sum[s]
  <2>1. \A t \in S : table[t].quantity \in Int
    OBVIOUS
  <2> QED
    BY <2>1, AmountAdds
<1>3. \A s \in SUBSET S : s # {} => table[First(s)].quantity = lien[First(s)].remaining
  <2>1. \A s \in SUBSET S : s # {} => First(s) \in S
    BY DEF First
  <2> QED
    BY <2>1
<1>4. Is(sum)
  BY <1>2, <1>3 DEF Adds, First
<1>5. Is(it)
  <2> HIDE DEF Is
  <2> QED
    BY <1>4, Zenon
<1> HIDE DEF it
<1>6. Adds(it, table, SUBSET S)
  BY <1>3, <1>5 DEF Adds, First
<1>7. it[S] = sum[S]
  BY <1>2, <1>6, SumUnique
<1> QED
  BY <1>1, <1>2, <1>7

-----------------------------------------------------------------------------
(* Goods and the goods split off them.                                     *)

(* Sets of receipts can be summed.                                         *)
LEMMA ReceiptsAddUp ==
    ASSUME BookingInv, NEW X \in SUBSET Minted
    PROVE  /\ IsFiniteSet(X) /\ Amount(receipt, X) \in Int
           /\ \A r \in X : receipt[r].quantity \in Int
<1>1. TypedRows
  BY MintedRows DEF BookingInv, LedgerSound, RowInv
<1>2. IsFiniteSet(Minted)
  BY <1>1, FS_Interval DEF TypedRows, Minted
<1>3. IsFiniteSet(X) /\ \A r \in X : receipt[r].quantity \in Int
  BY <1>1, <1>2, FS_Subset DEF TypedRows
<1> QED
  BY <1>3, AmountWithout

LEMMA TwoPiles ==
    ASSUME BookingInv, NEW X \in SUBSET Minted, NEW Y \in SUBSET Minted, X \cap Y = {},
           NEW Z, Z = X \cup Y
    PROVE  Amount(receipt, Z) = Amount(receipt, X) + Amount(receipt, Y)
  BY ReceiptsAddUp, AmountOfBoth

(* A receipt that was split stands for nothing but its children.           *)
LEMMA ChildrenAddUp ==
    ASSUME Scale = 1, BookingInv, NEW p \in Minted
    PROVE  /\ receipt[p].status = "SPLIT" => Amount(receipt, Children(p)) = receipt[p].quantity
           /\ receipt[p].status # "SPLIT" => Children(p) = {}
<1>1. ConservedAt(p) /\ (receipt[p].isParent <=> receipt[p].status = "SPLIT")
  BY DEF BookingInv, LedgerSound, RowInv, LedgerInv, SplitConservation, TreeShape
<1>2. \A r \in Minted : receipt[r].quantity \in Int
  BY ReceiptsAddUp
<1>3. ASSUME NEW a \in Minted
      PROVE  Amount(receipt, {a}) = receipt[a].quantity
  <2>1. Amount(receipt, {}) = 0 /\ IsFiniteSet({}) /\ {} \cup {a} = {a}
    BY AmountOfNone, FS_EmptySet
  <2>2. Amount(receipt, {} \cup {a}) = Amount(receipt, {}) + receipt[a].quantity
    BY <1>2, <2>1, AmountOfMore
  <2> QED
    BY <1>2, <2>1, <2>2
<1>4. ASSUME NEW a \in Minted, NEW b \in Minted, a # b, Children(p) = {a, b},
             receipt[a].quantity + receipt[b].quantity - receipt[p].quantity \in 0..Drift
      PROVE  Amount(receipt, Children(p)) = receipt[p].quantity
  <2>1. receipt[a].quantity + receipt[b].quantity = receipt[p].quantity
    BY <1>2, <1>4 DEF Drift
  <2>2. Amount(receipt, Children(p)) = Amount(receipt, {a}) + Amount(receipt, {b})
    BY <1>4, TwoPiles
  <2> QED
    BY <1>3, <2>1, <2>2
<1> QED
  BY <1>1, <1>3, <1>4 DEF ConservedAt

KidsOf(X) == {k \in Minted : receipt[k].parent \in X}
Unsplit(X) == {r \in X : receipt[r].status # "SPLIT"}

(* What was split off receipts, and what of them was not split, is what    *)
(* they stood for.                                                         *)
LEMMA NothingIsLost ==
    ASSUME Scale = 1, BookingInv, NEW X \in SUBSET Minted
    PROVE  Amount(receipt, X) = Amount(receipt, Unsplit(X)) + Amount(receipt, KidsOf(X))
<1> DEFINE Whole(s) == Amount(receipt, s) = Amount(receipt, Unsplit(s)) + Amount(receipt, KidsOf(s))
           Bad == {s \in SUBSET X : ~Whole(s)}
<1>1. SUFFICES ASSUME Bad # {} PROVE FALSE
  OBVIOUS
<1>2. PICK s \in Bad : \A x \in s : s \ {x} \notin Bad
  BY <1>1, ReceiptsAddUp, SmallestSubset
<1>3. PICK x : x \in s
  <2>1. ASSUME s = {} PROVE FALSE
    <3>1. Unsplit(s) = {} /\ KidsOf(s) = {}
      BY <2>1 DEF Unsplit, KidsOf
    <3>2. Amount(receipt, {}) = Amount(receipt, {}) + Amount(receipt, {})
      BY AmountOfNone
    <3> QED
      BY <2>1, <3>1, <3>2
  <2> QED
    BY <2>1
<1>4. PICK u : u = s \ {x}
  OBVIOUS
<1>5. /\ s \subseteq Minted /\ x \in Minted /\ u \subseteq Minted /\ x \notin u
      /\ s = u \cup {x} /\ u \in SUBSET X
  BY <1>3, <1>4
<1>6. Whole(u)
  BY <1>2, <1>3, <1>4, <1>5
<1> HIDE DEF Whole, Bad
<1>7. Amount(receipt, s) = Amount(receipt, u) + Amount(receipt, {x})
  BY <1>5, TwoPiles
<1>8. Amount(receipt, KidsOf(s)) = Amount(receipt, KidsOf(u)) + Amount(receipt, Children(x))
  <2>1. /\ KidsOf(s) = KidsOf(u) \cup Children(x) /\ KidsOf(u) \cap Children(x) = {}
        /\ KidsOf(u) \subseteq Minted /\ Children(x) \subseteq Minted
    BY <1>5 DEF KidsOf, Children
  <2> QED
    BY <2>1, TwoPiles
<1>9. Amount(receipt, Unsplit(s)) = Amount(receipt, Unsplit(u)) + Amount(receipt, Unsplit({x}))
  <2>1. /\ Unsplit(s) = Unsplit(u) \cup Unsplit({x}) /\ Unsplit(u) \cap Unsplit({x}) = {}
        /\ Unsplit(u) \subseteq Minted /\ Unsplit({x}) \subseteq Minted
    BY <1>5 DEF Unsplit
  <2> QED
    BY <2>1, TwoPiles
<1>10. Amount(receipt, {x}) = receipt[x].quantity
  <2>1. Amount(receipt, {}) = 0 /\ IsFiniteSet({}) /\ {} \cup {x} = {x}
    BY AmountOfNone, FS_EmptySet
  <2>2. receipt[x].quantity \in Int
    BY <1>5, ReceiptsAddUp
  <2>3. Amount(receipt, {} \cup {x}) = Amount(receipt, {}) + receipt[x].quantity
    BY <2>1, <2>2, AmountOfMore
  <2> QED
    BY <2>1, <2>2, <2>3
<1>11. Amount(receipt, {x}) = Amount(receipt, Unsplit({x})) + Amount(receipt, Children(x))
  <2>1. CASE receipt[x].status = "SPLIT"
    <3>1. Unsplit({x}) = {}
      BY <2>1 DEF Unsplit
    <3>2. Amount(receipt, Unsplit({x})) = 0
      BY <3>1, AmountOfNone
    <3>3. Amount(receipt, Children(x)) = receipt[x].quantity /\ receipt[x].quantity \in Int
      BY <1>5, <2>1, ChildrenAddUp, ReceiptsAddUp
    <3> QED
      BY <1>10, <3>2, <3>3
  <2>2. CASE receipt[x].status # "SPLIT"
    <3>1. Unsplit({x}) = {x} /\ Children(x) = {}
      BY <1>5, <2>2, ChildrenAddUp DEF Unsplit
    <3>2. Amount(receipt, Children(x)) = 0 /\ receipt[x].quantity \in Int
      BY <1>5, <3>1, AmountOfNone, ReceiptsAddUp
    <3>3. Amount(receipt, Unsplit({x})) = Amount(receipt, {x})
      BY <3>1
    <3> QED
      BY <1>10, <3>2, <3>3
  <2> QED
    BY <2>1, <2>2
<1>12. /\ Amount(receipt, u) \in Int /\ Amount(receipt, {x}) \in Int
       /\ Amount(receipt, KidsOf(u)) \in Int /\ Amount(receipt, Children(x)) \in Int
       /\ Amount(receipt, Unsplit(u)) \in Int /\ Amount(receipt, Unsplit({x})) \in Int
  <2>1. /\ {x} \subseteq Minted /\ KidsOf(u) \subseteq Minted /\ Children(x) \subseteq Minted
        /\ Unsplit(u) \subseteq Minted /\ Unsplit({x}) \subseteq Minted
    BY <1>5 DEF KidsOf, Children, Unsplit
  <2> QED
    BY <1>5, <2>1, ReceiptsAddUp
<1>13. Whole(s)
  BY <1>6, <1>7, <1>8, <1>9, <1>11, <1>12 DEF Whole
<1> QED
  BY <1>13 DEF Bad

(* Lines and rows that stand for receipts, one each.                       *)
LEMMA OneToOne ==
    ASSUME BookingInv, NEW R \in SUBSET Minted, NEW S, NEW f,
           \A x \in S : f[x] \in R, \A x, y \in S : f[x] = f[y] => x = y,
           \A r \in R : \E x \in S : f[x] = r
    PROVE  /\ IsFiniteSet(S) /\ {f[x] : x \in S} = R
           /\ Cardinality(S) = Cardinality(R)
<1> DEFINE g == [x \in S |-> f[x]]
<1>1. g \in Injection(S, R)
  BY DEF Injection, IsInjective
<1>2. g \in Surjection(S, R)
  BY DEF Surjection
<1> QED
  BY <1>1, <1>2, ReceiptsAddUp, FS_Injection

LEMMA RowsStandForReceipts ==
    ASSUME BookingInv, NEW R \in SUBSET Minted, NEW S, NEW f, NEW table,
           \A x \in S : f[x] \in R /\ receipt[f[x]].quantity = table[x].quantity,
           \A x, y \in S : f[x] = f[y] => x = y,
           \A r \in R : \E x \in S : f[x] = r
    PROVE  Amount(table, S) = Amount(receipt, R)
<1>1. IsFiniteSet(S) /\ {f[x] : x \in S} = R
  <2>1. \A x \in S : f[x] \in R
    OBVIOUS
  <2> QED
    BY <2>1, OneToOne
<1>2. \A x \in S : table[x].quantity \in Int /\ receipt[f[x]].quantity = table[x].quantity
  BY ReceiptsAddUp
<1>3. Amount(receipt, {f[x] : x \in S}) = Amount(table, S)
  BY <1>1, <1>2, AmountMoved
<1> QED
  BY <1>1, <1>3

LEMMA LinesStandForReceipts ==
    ASSUME BookingInv, NEW R \in SUBSET Minted, NEW S, NEW f,
           \A x \in S : f[x] \in R /\ receipt[f[x]].quantity = x.quantity,
           \A x, y \in S : f[x] = f[y] => x = y,
           \A r \in R : \E x \in S : f[x] = r
    PROVE  MapThenSumSet(LAMBDA line : line.quantity, S) = Amount(receipt, R)
<1>1. IsFiniteSet(S)
  <2>1. /\ \A x \in S : f[x] \in R
        /\ \A x, y \in S : f[x] = f[y] => x = y
        /\ \A r \in R : \E x \in S : f[x] = r
    OBVIOUS
  <2> QED
    BY ONLY BookingInv, <2>1, OneToOne
<1> DEFINE table == [x \in S |-> x]
<1>2. \A x \in S : x.quantity \in Int /\ table[x].quantity = x.quantity
  BY ReceiptsAddUp
<1>3. \A x \in S : f[x] \in R /\ receipt[f[x]].quantity = table[x].quantity
  BY <1>2
<1> HIDE DEF table
<1>4. Amount(table, S) = Amount(receipt, R)
  BY <1>3, RowsStandForReceipts
<1> QED
  BY <1>1, <1>2, <1>4, LinesAre

-----------------------------------------------------------------------------
(* The books.                                                              *)

LEMMA TotalIs == ASSUME NEW X PROVE Total(X) = Amount(receipt, X)
  BY DEF Total, Amount

(* Every standing lien is on a receipt of its own, for what remains of it. *)
LEMMA LiensAreReceipts ==
    ASSUME BookingInv
    PROVE  /\ \A t \in StandingLiens :
                 LET r == lien[t].receiptId
                 IN  /\ r \in In({"HELD_LIEN"}) /\ receipt[r].sourceTxn = t
                     /\ receipt[r].quantity = lien[t].remaining
           /\ \A r \in In({"HELD_LIEN"}) : \E t \in StandingLiens : lien[t].receiptId = r
<1>1. ASSUME NEW t \in StandingLiens
      PROVE  LET r == lien[t].receiptId
             IN  /\ r \in In({"HELD_LIEN"}) /\ receipt[r].sourceTxn = t
                 /\ receipt[r].quantity = lien[t].remaining
  <2>1. t \in Txn /\ Standing(t) /\ Booked(t)
    BY DEF StandingLiens, Standing, BookingInv
  <2>2. lien[t].receiptId \in Minted
    BY <2>1 DEF Booked, RowsTyped, LienRow, NoLien, Standing
  <2> QED
    BY <2>1, <2>2 DEF Booked, RowsBacked, In
<1>2. ASSUME NEW r \in In({"HELD_LIEN"})
      PROVE  \E t \in StandingLiens : lien[t].receiptId = r
  <2>1. r \in Minted /\ receipt[r].status = "HELD_LIEN" /\ IsHeld(r)
    BY StatusRoles DEF In, IsHeld
  <2>2. receipt[r].sourceTxn \in Txn
    BY <2>1 DEF BookingInv, HoldersAreTransactions
  <2>3. Holder(r, receipt[r].sourceTxn)
    BY <2>1, <2>2 DEF BookingInv, Booked, HoldsOne, HeldFor
  <2> QED
    BY <2>1, <2>2, <2>3 DEF Holder, Standing, StandingLiens
<1> QED
  BY <1>1, <1>2

LEMMA ExposureIsStock ==
    ASSUME BookingInv
    PROVE  ExposureMatchesStock
<1> DEFINE f == [t \in StandingLiens |-> lien[t].receiptId]
           table == [t \in StandingLiens |-> [quantity |-> lien[t].remaining]]
<1>1. /\ \A t \in StandingLiens : /\ f[t] = lien[t].receiptId /\ f[t] \in In({"HELD_LIEN"})
                                  /\ receipt[f[t]].sourceTxn = t
                                  /\ receipt[f[t]].quantity = table[t].quantity
                                  /\ table[t].quantity = lien[t].remaining
      /\ \A r \in In({"HELD_LIEN"}) : \E t \in StandingLiens : f[t] = r
  BY LiensAreReceipts
<1> HIDE DEF f, table
<1>2. \A t, u \in StandingLiens : f[t] = f[u] => t = u
  BY <1>1
<1>3. In({"HELD_LIEN"}) \subseteq Minted
  BY DEF In
<1>4. Cardinality(StandingLiens) = Cardinality(In({"HELD_LIEN"}))
  <2>1. \A t \in StandingLiens : f[t] \in In({"HELD_LIEN"})
    BY <1>1
  <2>2. \A r \in In({"HELD_LIEN"}) : \E t \in StandingLiens : f[t] = r
    BY <1>1
  <2> QED
    BY ONLY BookingInv, <1>2, <1>3, <2>1, <2>2, OneToOne
<1>5. ASSUME NEW place \in Lot
      PROVE  Exposure(place) = Total(Liened(place))
  <2> DEFINE S == {t \in StandingLiens : lot[receipt[lien[t].receiptId].root] = place}
  <2>1. /\ \A t \in S : f[t] \in Liened(place) /\ receipt[f[t]].quantity = table[t].quantity
        /\ \A r \in Liened(place) : \E t \in S : f[t] = r
        /\ Liened(place) \subseteq Minted
    BY <1>1, <1>3 DEF Liened, Pile
  <2>2. \A t, u \in S : f[t] = f[u] => t = u
    BY <1>2
  <2>3. \A t \in S : table[t].quantity = lien[t].remaining
    BY <1>1
  <2>4. Exposure(place) = MapThenSumSet(LAMBDA t : lien[t].remaining, S)
    BY DEF Exposure
  <2> HIDE DEF S
  <2>5. Amount(table, S) = Amount(receipt, Liened(place))
    BY ONLY BookingInv, <2>1, <2>2, RowsStandForReceipts
  <2>6. IsFiniteSet(S)
    <3>1. \A t \in S : f[t] \in Liened(place)
      BY <2>1
    <3>2. Liened(place) \subseteq Minted /\ \A r \in Liened(place) : \E t \in S : f[t] = r
      BY <2>1
    <3> QED
      BY ONLY BookingInv, <2>2, <3>1, <3>2, OneToOne
  <2>7. \A t \in S : lien[t].remaining \in Int
    <3>1. \A r \in Liened(place) : receipt[r].quantity \in Int
      BY <2>1, ReceiptsAddUp
    <3> QED
      BY <2>1, <2>3, <3>1
  <2>8. MapThenSumSet(LAMBDA t : lien[t].remaining, S) = Amount(table, S)
    BY <2>3, <2>6, <2>7, RemainsAre
  <2> QED
    BY <2>4, <2>5, <2>8, TotalIs
<1> QED
  BY <1>4, <1>5 DEF ExposureMatchesStock

(* What a receipt that was not split has become.                           *)
LEMMA Fates ==
    ASSUME BookingInv, Traced, NEW r \in Minted, receipt[r].status # "SPLIT"
    PROVE  receipt[r].status \in InWarehouse \cup {"WITHDRAWN"}
                                   \cup {"PENDING_APPROVAL", "CANCELLED"}
<1>1. receipt[r].status \in Status
  BY BookedRows DEF Row
<1>2. receipt[r].status \notin {"TRADED_OUT", "SEIZED", "EXPIRED"}
  BY DEF Traced, AllOrdinary, Ordinary
<1> QED
  BY <1>1, <1>2 DEF Status, ClosedStatus, InWarehouse

(* A completed withdrawal is of one receipt, which is of that withdrawal.  *)
LEMMA DispatchesAreReceipts ==
    ASSUME BookingInv, Traced
    PROVE  /\ \A t \in Txn : At(t, "withdrawal", "COMPLETED") =>
                 LET r == request[t].receiptId
                 IN  /\ r \in In({"WITHDRAWN"}) /\ receipt[r].sourceEvent = <<"hold", t>>
                     /\ receipt[r].quantity = request[t].quantity
                     /\ receipt[r].owner = request[t].client
           /\ \A r \in In({"WITHDRAWN"}) :
                 \E t \in Txn : At(t, "withdrawal", "COMPLETED") /\ request[t].receiptId = r
<1>1. ASSUME NEW t \in Txn, At(t, "withdrawal", "COMPLETED")
      PROVE  LET r == request[t].receiptId
             IN  /\ r \in In({"WITHDRAWN"}) /\ receipt[r].sourceEvent = <<"hold", t>>
                 /\ receipt[r].quantity = request[t].quantity
                 /\ receipt[r].owner = request[t].client
  <2>1. request[t].kind = "withdrawal" /\ request[t].status = "COMPLETED" /\ RowTraced(t)
    BY <1>1 DEF At, Traced
  <2>2. request[t].receiptId \in Minted
    BY <2>1, BookedRows
  <2> QED
    BY <2>1, <2>2 DEF RowTraced, CarvedOut, In
<1>2. ASSUME NEW r \in In({"WITHDRAWN"})
      PROVE  \E t \in Txn : At(t, "withdrawal", "COMPLETED") /\ request[t].receiptId = r
  BY DEF In, Traced, ReceiptTraced
<1> QED
  BY <1>1, <1>2

LEMMA ChartIsStock ==
    ASSUME Scale = 1, BookingInv, Traced
    PROVE  ChartMatchesStock
<1> SUFFICES ASSUME NEW place \in Lot
             PROVE  Charted(place) = StoredAt(place) + Dispatched(place)
                      + Total(Pile(In({"PENDING_APPROVAL", "CANCELLED"}), place))
  BY DEF ChartMatchesStock
<1> DEFINE X == Pile(Minted, place)
           stored == Pile(In(InWarehouse), place)
           gone == Pile(In({"WITHDRAWN"}), place)
           never == Pile(In({"PENDING_APPROVAL", "CANCELLED"}), place)
           roots == Pile(Roots, place)
           S == {t \in Filed("withdrawal") :
                      /\ request[t].status = "COMPLETED"
                      /\ lot[receipt[request[t].receiptId].root] = place}
           f == [t \in S |-> request[t].receiptId]
<1>1. /\ X \subseteq Minted /\ stored \subseteq Minted /\ gone \subseteq Minted
      /\ never \subseteq Minted /\ roots \subseteq Minted
  BY DEF Pile, In, Roots
<1>2. Descent
  BY DEF BookingInv, LedgerSound
<1>3. KidsOf(X) \subseteq Minted /\ KidsOf(X) \cap roots = {} /\ X = roots \cup KidsOf(X)
  <2>1. ASSUME NEW k \in Minted, receipt[k].parent # NoReceipt
        PROVE  k \in X <=> receipt[k].parent \in X
    BY <1>2, <2>1 DEF Descent, Pile
  <2>2. NoReceipt \notin X
    BY DEF Pile, Minted, NoReceipt
  <2>3. \A k \in KidsOf(X) : k \in Minted /\ receipt[k].parent # NoReceipt /\ k \in X
    BY <2>1, <2>2 DEF KidsOf
  <2>4. \A k \in X : receipt[k].parent # NoReceipt => k \in KidsOf(X)
    BY <1>1, <2>1 DEF KidsOf
  <2>5. \A k \in X : receipt[k].parent = NoReceipt <=> k \in roots
    BY DEF Pile, Roots
  <2>6. roots \subseteq X
    BY DEF Pile, Roots
  <2> HIDE DEF X, roots
  <2> QED
    BY <1>1, <2>3, <2>4, <2>5, <2>6
<1>4. /\ Unsplit(X) = (stored \cup gone) \cup never
      /\ stored \cap gone = {} /\ (stored \cup gone) \cap never = {}
  <2>1. \A r \in Minted : receipt[r].status # "SPLIT" =>
           receipt[r].status \in InWarehouse \cup {"WITHDRAWN"} \cup {"PENDING_APPROVAL", "CANCELLED"}
    BY Fates
  <2>2. \A s \in InWarehouse : s \notin {"WITHDRAWN", "PENDING_APPROVAL", "CANCELLED", "SPLIT"}
    BY DEF InWarehouse, HeldStatus
  <2> QED
    BY <2>1, <2>2 DEF Unsplit, Pile, In
<1>5. /\ \A t \in S : f[t] \in gone /\ receipt[f[t]].quantity = request[t].quantity
      /\ \A t, u \in S : f[t] = f[u] => t = u
      /\ \A r \in gone : \E t \in S : f[t] = r
  <2>1. \A t \in S : /\ t \in Txn /\ At(t, "withdrawal", "COMPLETED") /\ f[t] = request[t].receiptId
                     /\ lot[receipt[request[t].receiptId].root] = place
    BY DEF At, Filed
  <2>2. \A t \in S : /\ f[t] \in In({"WITHDRAWN"}) /\ receipt[f[t]].quantity = request[t].quantity
                     /\ receipt[f[t]].sourceEvent = <<"hold", t>>
                     /\ lot[receipt[f[t]].root] = place
    <3> HIDE DEF S, f
    <3> QED
      BY <2>1, DispatchesAreReceipts
  <2>3. \A t, u \in S : f[t] = f[u] => t = u
    <3> HIDE DEF S, f
    <3> QED
      BY <2>2
  <2>4. \A t \in S : f[t] \in gone
    <3> HIDE DEF S, f
    <3> QED
      BY <2>2 DEF Pile
  <2>5. ASSUME NEW r \in gone
        PROVE  \E t \in S : f[t] = r
    <3>1. r \in In({"WITHDRAWN"}) /\ lot[receipt[r].root] = place
      BY DEF Pile
    <3>2. PICK t \in Txn : At(t, "withdrawal", "COMPLETED") /\ request[t].receiptId = r
      BY <3>1, DispatchesAreReceipts
    <3>3. t \in S
      BY <3>1, <3>2 DEF At, Filed
    <3> QED
      BY <3>2, <3>3
  <2> QED
    BY <2>2, <2>3, <2>4, <2>5
<1>6. Dispatched(place) = Amount(request, S)
  BY DEF Dispatched, Amount
<1>7. /\ Charted(place) = Amount(receipt, roots) /\ StoredAt(place) = Amount(receipt, stored)
      /\ Total(never) = Amount(receipt, never)
  BY TotalIs DEF Charted, StoredAt
<1> HIDE DEF X, stored, gone, never, roots, S, f
<1>8. Amount(request, S) = Amount(receipt, gone)
  BY ONLY BookingInv, <1>1, <1>5, RowsStandForReceipts
<1>9. Amount(receipt, X) = Amount(receipt, Unsplit(X)) + Amount(receipt, KidsOf(X))
  BY <1>1, NothingIsLost
<1>10. Amount(receipt, X) = Amount(receipt, roots) + Amount(receipt, KidsOf(X))
  BY <1>1, <1>3, TwoPiles
<1>11. PICK both \in SUBSET Minted : both = stored \cup gone
  BY <1>1
<1>12. /\ Amount(receipt, both) = Amount(receipt, stored) + Amount(receipt, gone)
       /\ Amount(receipt, Unsplit(X)) = Amount(receipt, both) + Amount(receipt, never)
  BY <1>1, <1>4, <1>11, TwoPiles
<1>13. /\ Amount(receipt, roots) \in Int /\ Amount(receipt, stored) \in Int
       /\ Amount(receipt, gone) \in Int /\ Amount(receipt, never) \in Int
       /\ Amount(receipt, KidsOf(X)) \in Int
  BY <1>1, <1>3, ReceiptsAddUp
<1>14. Amount(receipt, roots)
         = Amount(receipt, stored) + Amount(request, S) + Amount(receipt, never)
  BY <1>8, <1>9, <1>10, <1>12, <1>13
<1> QED
  BY <1>6, <1>7, <1>14 DEF never

(* A settled trade is of one receipt, which is of that trade.              *)
LEMMA TradesAreReceipts ==
    ASSUME BookingInv, Traced
    PROVE  /\ \A t \in Txn : At(t, "trade", "SETTLED") =>
                 LET r == request[t].receiptId
                 IN  /\ r \in Minted /\ Sold(r) /\ receipt[r].sourceEvent = <<"hold", t>>
                     /\ receipt[r].quantity = request[t].quantity
                     /\ receipt[r].owner = request[t].buyer
                     /\ receipt[receipt[r].parent].owner = request[t].client
                     /\ request[t].buyer # request[t].client
           /\ \A r \in Minted : Sold(r) =>
                 \E t \in Txn : At(t, "trade", "SETTLED") /\ request[t].receiptId = r
<1>1. ASSUME NEW t \in Txn, At(t, "trade", "SETTLED")
      PROVE  LET r == request[t].receiptId
             IN  /\ r \in Minted /\ Sold(r) /\ receipt[r].sourceEvent = <<"hold", t>>
                 /\ receipt[r].quantity = request[t].quantity
                 /\ receipt[r].owner = request[t].buyer
                 /\ receipt[receipt[r].parent].owner = request[t].client
                 /\ request[t].buyer # request[t].client
  <2>1. request[t].kind = "trade" /\ request[t].status = "SETTLED" /\ RowTraced(t)
    BY <1>1 DEF At, Traced
  <2>2. request[t].receiptId \in Minted
    BY <2>1, BookedRows
  <2> QED
    BY <2>1, <2>2 DEF RowTraced, CarvedOut, Sold
<1>2. ASSUME NEW r \in Minted, Sold(r)
      PROVE  \E t \in Txn : At(t, "trade", "SETTLED") /\ request[t].receiptId = r
  BY <1>2 DEF Traced, ReceiptTraced
<1> QED
  BY <1>1, <1>2

(* What a line of a statement is about.                                    *)
LEMMA LinesTell ==
    ASSUME BookingInv, NEW c \in Client, NEW line \in Statement(c)
    PROVE  /\ line.type = "DEPOSIT" =>
                 line.id \in Roots \cap Own(c) /\ line = DepositLine(line.id)
           /\ line.type # "DEPOSIT" =>
                 /\ line.id \in Txn /\ c \in Parties(line.id)
                 /\ line = RequestLine(line.id, c) /\ request[line.id].kind = line.type
<1>1. CASE \E r \in Roots \cap Own(c) : line = DepositLine(r)
  BY <1>1 DEF DepositLine
<1>2. ASSUME NEW t \in {x \in Txn \ Filed("pledge") : c \in Parties(x)}, line = RequestLine(t, c)
      PROVE  /\ line.type # "DEPOSIT" /\ line.type = request[t].kind
             /\ line.id = t /\ t \in Txn /\ c \in Parties(t)
  <2>1. request[t].kind # "DEPOSIT"
    <3>1. request[t] = NoRequest \/ \E kind \in Kind : request[t] \in RequestRow(kind)
      BY DEF BookingInv, Booked, RowsTyped
    <3> QED
      BY <3>1 DEF NoRequest, RequestRow, Kind, RequestStatus
  <2> QED
    BY <1>2, <2>1 DEF RequestLine
<1>3. \/ \E r \in Roots \cap Own(c) : line = DepositLine(r)
      \/ \E t \in {x \in Txn \ Filed("pledge") : c \in Parties(x)} : line = RequestLine(t, c)
  BY DEF Statement
<1> QED
  BY <1>1, <1>2, <1>3

Lines(c, m, type, side, final) ==
    {line \in Statement(c) :
        /\ line.type = type /\ line.side = side /\ line.lot[2] = m
        /\ IF type = "DEPOSIT" THEN receipt[line.id].approval = final
           ELSE request[line.id].status = final}

LEMMA DepositLinesAdd ==
    ASSUME BookingInv, NEW c \in Client, NEW m
    PROVE  LinesOf(c, m, "DEPOSIT", "OWN", "APPROVED")
             = Amount(receipt, {r \in Own(c) : /\ receipt[r].parent = NoReceipt
                                               /\ receipt[r].approval = "APPROVED"
                                               /\ CommodityOf(r) = m})
<1> DEFINE S == Lines(c, m, "DEPOSIT", "OWN", "APPROVED")
           R == {r \in Own(c) : /\ receipt[r].parent = NoReceipt
                                /\ receipt[r].approval = "APPROVED" /\ CommodityOf(r) = m}
           f == [x \in S |-> x.id]
<1>1. LinesOf(c, m, "DEPOSIT", "OWN", "APPROVED") = MapThenSumSet(LAMBDA line : line.quantity, S)
  BY DEF LinesOf, Lines
<1>2. ASSUME NEW x \in S
      PROVE  x = DepositLine(x.id) /\ x.id \in R /\ f[x] = x.id
  <2>1. /\ x \in Statement(c) /\ x.type = "DEPOSIT" /\ x.lot[2] = m
        /\ receipt[x.id].approval = "APPROVED"
    BY DEF Lines
  <2>2. x.id \in Roots \cap Own(c) /\ x = DepositLine(x.id)
    BY <2>1, LinesTell
  <2>3. x.lot = lot[receipt[x.id].root]
    BY <2>2 DEF DepositLine
  <2> QED
    BY <2>1, <2>2, <2>3 DEF Roots, CommodityOf
<1>3. R \in SUBSET Minted
  BY DEF Own
<1>4. ASSUME NEW r \in R
      PROVE  \E x \in S : f[x] = r
  <2>1. /\ DepositLine(r).type = "DEPOSIT" /\ DepositLine(r).side = "OWN"
        /\ DepositLine(r).id = r /\ DepositLine(r).lot = lot[receipt[r].root]
    BY DEF DepositLine
  <2>2. DepositLine(r) \in Statement(c)
    BY <1>3 DEF Statement, Roots
  <2>3. DepositLine(r) \in S
    BY <2>1, <2>2 DEF Lines, CommodityOf
  <2> QED
    BY <2>1, <2>3
<1> HIDE DEF S, R, f
<1>5. \A x \in S : f[x] \in R /\ receipt[f[x]].quantity = x.quantity
  BY <1>2 DEF DepositLine
<1>6. \A x, y \in S : f[x] = f[y] => x = y
  BY <1>2
<1>7. MapThenSumSet(LAMBDA line : line.quantity, S) = Amount(receipt, R)
  BY ONLY BookingInv, <1>3, <1>4, <1>5, <1>6, LinesStandForReceipts
<1> QED
  BY <1>1, <1>7 DEF R

(* Lines of requests that moved the goods of R, each a receipt of its own. *)
Moved(c, m, kind, side, final, R) ==
    /\ \A t \in Txn :
          At(t, kind, final) =>
             LET r == request[t].receiptId
             IN  /\ receipt[r].sourceEvent = <<"hold", t>>
                 /\ receipt[r].quantity = request[t].quantity
                 /\ r \in R <=> c \in Parties(t) /\ Side(t, c) = side /\ CommodityOf(r) = m
    /\ \A r \in R : \E t \in Txn : At(t, kind, final) /\ request[t].receiptId = r

LEMMA RequestLinesAdd ==
    ASSUME BookingInv, NEW c \in Client, NEW m, NEW kind \in {"withdrawal", "trade"},
           NEW side, NEW final, NEW R \in SUBSET Minted, Moved(c, m, kind, side, final, R)
    PROVE  LinesOf(c, m, kind, side, final) = Amount(receipt, R)
<1>m. /\ \A t \in Txn :
            At(t, kind, final) =>
               LET r == request[t].receiptId
               IN  /\ receipt[r].sourceEvent = <<"hold", t>>
                   /\ receipt[r].quantity = request[t].quantity
                   /\ r \in R <=> c \in Parties(t) /\ Side(t, c) = side /\ CommodityOf(r) = m
      /\ \A r \in R : \E t \in Txn : At(t, kind, final) /\ request[t].receiptId = r
  BY DEF Moved
<1> DEFINE S == Lines(c, m, kind, side, final)
           f == [x \in S |-> request[x.id].receiptId]
<1>1. LinesOf(c, m, kind, side, final) = MapThenSumSet(LAMBDA line : line.quantity, S)
  BY DEF LinesOf, Lines
<1>2. ASSUME NEW x \in S
      PROVE  /\ x = RequestLine(x.id, c) /\ f[x] = request[x.id].receiptId
             /\ f[x] \in R /\ receipt[f[x]].quantity = x.quantity
             /\ receipt[f[x]].sourceEvent = <<"hold", x.id>>
  <2>1. /\ x \in Statement(c) /\ x.type = kind /\ x.side = side /\ x.lot[2] = m
        /\ request[x.id].status = final
    BY DEF Lines
  <2>2. /\ x.id \in Txn /\ c \in Parties(x.id) /\ x = RequestLine(x.id, c)
        /\ request[x.id].kind = kind
    BY <2>1, LinesTell
  <2>3. /\ x.side = Side(x.id, c) /\ x.quantity = ShownQuantity(x.id)
        /\ x.lot = lot[receipt[request[x.id].receiptId].root]
    <3> HIDE DEF S
    <3>1. /\ RequestLine(x.id, c).side = Side(x.id, c)
          /\ RequestLine(x.id, c).quantity = ShownQuantity(x.id)
          /\ RequestLine(x.id, c).lot = lot[receipt[request[x.id].receiptId].root]
      BY DEF RequestLine
    <3> QED
      BY <2>2, <3>1
  <2>4. x.quantity = request[x.id].quantity
    BY <2>2, <2>3 DEF ShownQuantity
  <2>5. CommodityOf(request[x.id].receiptId) = m
    BY <2>1, <2>3 DEF CommodityOf
  <2>6. At(x.id, kind, final)
    BY <2>1, <2>2 DEF At
  <2>7. f[x] = request[x.id].receiptId
    OBVIOUS
  <2> HIDE DEF S, f
  <2> QED
    BY <2>1, <2>2, <2>3, <2>4, <2>5, <2>6, <2>7, <1>m
<1>3. ASSUME NEW r \in R
      PROVE  \E x \in S : f[x] = r
  <2>1. PICK t \in Txn : At(t, kind, final) /\ request[t].receiptId = r
    BY <1>m
  <2>2. /\ c \in Parties(t) /\ Side(t, c) = side /\ CommodityOf(r) = m
        /\ request[t].kind = kind /\ request[t].status = final
    BY <2>1, <1>m DEF At
  <2>3. /\ RequestLine(t, c).type = kind /\ RequestLine(t, c).side = side
        /\ RequestLine(t, c).id = t /\ RequestLine(t, c).lot = lot[receipt[r].root]
    BY <2>1, <2>2 DEF RequestLine
  <2>4. RequestLine(t, c) \in Statement(c)
    BY <2>2 DEF Statement, Filed
  <2>5. PICK x : x = RequestLine(t, c)
    OBVIOUS
  <2>6. x \in S
    BY <2>2, <2>3, <2>4, <2>5 DEF Lines, CommodityOf
  <2> QED
    BY <2>1, <2>3, <2>5, <2>6
<1> HIDE DEF S, f
<1>4. \A x, y \in S : f[x] = f[y] => x = y
  <2>1. \A x, y \in S : f[x] = f[y] => x.id = y.id
    BY <1>2
  <2> QED
    BY <1>2, <2>1
<1>5. \A x \in S : f[x] \in R /\ receipt[f[x]].quantity = x.quantity
  BY <1>2
<1>6. MapThenSumSet(LAMBDA line : line.quantity, S) = Amount(receipt, R)
  BY ONLY BookingInv, R \in SUBSET Minted, <1>3, <1>4, <1>5, LinesStandForReceipts
<1> QED
  BY <1>1, <1>6

(* The goods of m that c has, and those of m that were bought of him.      *)
Mine(c, m) == {r \in Own(c) : CommodityOf(r) = m}
BoughtOf(c, m) == {r \in Minted : /\ Sold(r) /\ receipt[receipt[r].parent].owner = c
                                  /\ CommodityOf(r) = m}

LEMMA RequestLinesAre ==
    ASSUME BookingInv, Traced, NEW c \in Client, NEW m
    PROVE  /\ LinesOf(c, m, "withdrawal", "OWN", "COMPLETED")
                = Amount(receipt, Mine(c, m) \cap In({"WITHDRAWN"}))
           /\ LinesOf(c, m, "trade", "BUY", "SETTLED")
                = Amount(receipt, {r \in Mine(c, m) : Sold(r)})
           /\ LinesOf(c, m, "trade", "SELL", "SETTLED") = Amount(receipt, BoughtOf(c, m))
<1>1. LinesOf(c, m, "withdrawal", "OWN", "COMPLETED")
         = Amount(receipt, Mine(c, m) \cap In({"WITHDRAWN"}))
  <2> DEFINE R == Mine(c, m) \cap In({"WITHDRAWN"})
  <2>1. ASSUME NEW t \in Txn, At(t, "withdrawal", "COMPLETED")
        PROVE  LET r == request[t].receiptId
               IN  /\ receipt[r].sourceEvent = <<"hold", t>>
                   /\ receipt[r].quantity = request[t].quantity
                   /\ r \in R <=> c \in Parties(t) /\ Side(t, c) = "OWN" /\ CommodityOf(r) = m
    <3> DEFINE r == request[t].receiptId
    <3>1. /\ r \in In({"WITHDRAWN"}) /\ receipt[r].sourceEvent = <<"hold", t>>
          /\ receipt[r].quantity = request[t].quantity /\ receipt[r].owner = request[t].client
      BY <2>1, DispatchesAreReceipts
    <3>2. Parties(t) = {request[t].client} /\ Side(t, c) = "OWN"
      BY <2>1 DEF At, Parties, Side
    <3>3. r \in R <=> c = request[t].client /\ CommodityOf(r) = m
      BY <3>1 DEF Mine, Own, In
    <3> QED
      BY <3>1, <3>2, <3>3
  <2>2. \A r \in R : \E t \in Txn : At(t, "withdrawal", "COMPLETED") /\ request[t].receiptId = r
    BY DispatchesAreReceipts
  <2>3. R \in SUBSET Minted
    BY DEF In
  <2> HIDE DEF R
  <2>4. LinesOf(c, m, "withdrawal", "OWN", "COMPLETED") = Amount(receipt, R)
    <3>1. Moved(c, m, "withdrawal", "OWN", "COMPLETED", R)
      BY ONLY <2>1, <2>2 DEF Moved
    <3> QED
      BY <2>3, <3>1, RequestLinesAdd
  <2> QED
    BY <2>4 DEF R
<1>2. LinesOf(c, m, "trade", "BUY", "SETTLED") = Amount(receipt, {r \in Mine(c, m) : Sold(r)})
  <2> DEFINE R == {r \in Mine(c, m) : Sold(r)}
  <2>1. ASSUME NEW t \in Txn, At(t, "trade", "SETTLED")
        PROVE  LET r == request[t].receiptId
               IN  /\ receipt[r].sourceEvent = <<"hold", t>>
                   /\ receipt[r].quantity = request[t].quantity
                   /\ r \in R <=> c \in Parties(t) /\ Side(t, c) = "BUY" /\ CommodityOf(r) = m
    <3> DEFINE r == request[t].receiptId
    <3>1. /\ r \in Minted /\ Sold(r) /\ receipt[r].sourceEvent = <<"hold", t>>
          /\ receipt[r].quantity = request[t].quantity /\ receipt[r].owner = request[t].buyer
          /\ request[t].buyer # request[t].client
      BY <2>1, TradesAreReceipts
    <3>2. /\ Parties(t) = {request[t].client, request[t].buyer}
          /\ Side(t, c) = "BUY" <=> request[t].client # c
      BY <2>1 DEF At, Parties, Side
    <3>3. r \in R <=> c = request[t].buyer /\ CommodityOf(r) = m
      BY <3>1 DEF Mine, Own
    <3> QED
      BY <3>1, <3>2, <3>3
  <2>2. \A r \in R : \E t \in Txn : At(t, "trade", "SETTLED") /\ request[t].receiptId = r
    BY TradesAreReceipts DEF Mine, Own
  <2>3. R \in SUBSET Minted
    BY DEF Mine, Own
  <2> HIDE DEF R
  <2>4. LinesOf(c, m, "trade", "BUY", "SETTLED") = Amount(receipt, R)
    <3>1. Moved(c, m, "trade", "BUY", "SETTLED", R)
      BY ONLY <2>1, <2>2 DEF Moved
    <3> QED
      BY <2>3, <3>1, RequestLinesAdd
  <2> QED
    BY <2>4 DEF R
<1>3. LinesOf(c, m, "trade", "SELL", "SETTLED") = Amount(receipt, BoughtOf(c, m))
  <2> DEFINE R == BoughtOf(c, m)
  <2>1. ASSUME NEW t \in Txn, At(t, "trade", "SETTLED")
        PROVE  LET r == request[t].receiptId
               IN  /\ receipt[r].sourceEvent = <<"hold", t>>
                   /\ receipt[r].quantity = request[t].quantity
                   /\ r \in R <=> c \in Parties(t) /\ Side(t, c) = "SELL" /\ CommodityOf(r) = m
    <3> DEFINE r == request[t].receiptId
    <3>1. /\ r \in Minted /\ Sold(r) /\ receipt[r].sourceEvent = <<"hold", t>>
          /\ receipt[r].quantity = request[t].quantity
          /\ receipt[receipt[r].parent].owner = request[t].client
      BY <2>1, TradesAreReceipts
    <3>2. /\ Parties(t) = {request[t].client, request[t].buyer}
          /\ Side(t, c) = "SELL" <=> request[t].client = c
      BY <2>1 DEF At, Parties, Side
    <3>3. r \in R <=> c = request[t].client /\ CommodityOf(r) = m
      BY <3>1 DEF BoughtOf
    <3> QED
      BY <3>1, <3>2, <3>3
  <2>2. \A r \in R : \E t \in Txn : At(t, "trade", "SETTLED") /\ request[t].receiptId = r
    BY TradesAreReceipts DEF BoughtOf
  <2>3. R \in SUBSET Minted
    BY DEF BoughtOf
  <2> HIDE DEF R
  <2>4. LinesOf(c, m, "trade", "SELL", "SETTLED") = Amount(receipt, R)
    <3>1. Moved(c, m, "trade", "SELL", "SETTLED", R)
      BY ONLY <2>1, <2>2 DEF Moved
    <3> QED
      BY <2>3, <3>1, RequestLinesAdd
  <2> QED
    BY <2>4 DEF R
<1> QED
  BY <1>1, <1>2, <1>3

LEMMA BalanceIsHistory ==
    ASSUME Scale = 1, BookingInv, Traced
    PROVE  BalanceMatchesHistory
<1> SUFFICES ASSUME NEW c \in Client, NEW m \in Commodity
             PROVE  Available(c, m) + Locked(c, m)
                      = LinesOf(c, m, "DEPOSIT", "OWN", "APPROVED")
                          + LinesOf(c, m, "trade", "BUY", "SETTLED")
                          - LinesOf(c, m, "trade", "SELL", "SETTLED")
                          - LinesOf(c, m, "withdrawal", "OWN", "COMPLETED")
  BY DEF BalanceMatchesHistory
<1> DEFINE mine == Mine(c, m)
           free == {r \in Own(c) \cap In({"ACTIVE"}) : /\ receipt[r].approval = "APPROVED"
                                                       /\ CommodityOf(r) = m}
           held == {r \in Own(c) \cap In(HeldStatus) : CommodityOf(r) = m}
           gone == mine \cap In({"WITHDRAWN"})
           never == mine \cap In({"PENDING_APPROVAL", "CANCELLED"})
           filed == {r \in Own(c) : /\ receipt[r].parent = NoReceipt
                                    /\ receipt[r].approval = "APPROVED"
                                    /\ CommodityOf(r) = m}
           bought == {r \in mine : Sold(r)}
           kept == {r \in mine : receipt[r].parent # NoReceipt /\ ~Sold(r)}
           sold == BoughtOf(c, m)
<1>1. /\ mine \in SUBSET Minted /\ free \in SUBSET Minted /\ held \in SUBSET Minted
      /\ gone \in SUBSET Minted /\ never \in SUBSET Minted /\ filed \in SUBSET Minted
      /\ bought \in SUBSET Minted /\ kept \in SUBSET Minted /\ sold \in SUBSET Minted
  BY DEF Mine, Own, BoughtOf
<1>2. /\ Unsplit(mine) = (free \cup held) \cup (gone \cup never)
      /\ free \cap held = {} /\ gone \cap never = {}
      /\ (free \cup held) \cap (gone \cup never) = {}
  <2>1. \A r \in Minted : receipt[r].status # "SPLIT" =>
           receipt[r].status \in InWarehouse \cup {"WITHDRAWN"} \cup {"PENDING_APPROVAL", "CANCELLED"}
    BY Fates
  <2>2. \A s \in HeldStatus : s \notin {"ACTIVE", "WITHDRAWN", "PENDING_APPROVAL", "CANCELLED", "SPLIT"}
    BY DEF HeldStatus
  <2>3. \A r \in Minted : receipt[r].status = "ACTIVE" => receipt[r].approval = "APPROVED"
    BY DEF BookingInv, LedgerSound, RowInv, RowsSettled, Settled
  <2> QED
    BY <2>1, <2>2, <2>3 DEF Unsplit, Mine, Own, In, InWarehouse
<1>3. /\ mine = (filed \cup never) \cup (bought \cup kept)
      /\ filed \cap never = {} /\ bought \cap kept = {}
      /\ (filed \cup never) \cap (bought \cup kept) = {}
  <2>1. \A r \in Minted : receipt[r].status \in {"PENDING_APPROVAL", "CANCELLED"}
                             <=> receipt[r].parent = NoReceipt /\ receipt[r].approval # "APPROVED"
    BY DEF Traced, AllOrdinary, Ordinary
  <2>2. \A r \in Minted : Sold(r) => receipt[r].parent # NoReceipt
    BY DEF Sold
  <2> QED
    BY <2>1, <2>2 DEF Mine, Own, In
<1>4. KidsOf(mine) = kept \cup sold /\ kept \cap sold = {}
  <2>1. ASSUME NEW k \in Minted
        PROVE  k \in KidsOf(mine) <=> k \in kept \cup sold
    <3>1. CASE receipt[k].parent = NoReceipt
      <4>1. NoReceipt \notin mine
        BY <1>1 DEF Minted, NoReceipt
      <4> QED
        BY <3>1, <4>1 DEF KidsOf, BoughtOf, Sold
    <3>2. CASE receipt[k].parent # NoReceipt
      <4>1. /\ receipt[k].parent \in Minted
            /\ CommodityOf(receipt[k].parent) = CommodityOf(k)
        BY <3>2 DEF BookingInv, LedgerSound, Descent, CommodityOf
      <4>2. k \in KidsOf(mine) <=> receipt[receipt[k].parent].owner = c /\ CommodityOf(k) = m
        BY <4>1 DEF KidsOf, Mine, Own
      <4>3. Sold(k) <=> receipt[k].owner # receipt[receipt[k].parent].owner
        BY <3>2 DEF Sold
      <4>4. k \in sold <=> /\ Sold(k) /\ receipt[receipt[k].parent].owner = c
                           /\ CommodityOf(k) = m
        BY DEF BoughtOf
      <4>5. k \in kept <=> receipt[k].owner = c /\ CommodityOf(k) = m /\ ~Sold(k)
        BY <3>2 DEF Mine, Own
      <4> QED
        BY <4>2, <4>3, <4>4, <4>5
    <3> QED
      BY <3>1, <3>2
  <2>2. KidsOf(mine) \subseteq Minted
    BY DEF KidsOf
  <2>3. kept \cap sold = {}
    BY DEF BoughtOf
  <2> HIDE DEF mine, kept, sold
  <2> QED
    BY <1>1, <2>1, <2>2, <2>3
<1>5. /\ Available(c, m) = Amount(receipt, free) /\ Locked(c, m) = Amount(receipt, held)
      /\ LinesOf(c, m, "DEPOSIT", "OWN", "APPROVED") = Amount(receipt, filed)
      /\ LinesOf(c, m, "trade", "BUY", "SETTLED") = Amount(receipt, bought)
      /\ LinesOf(c, m, "trade", "SELL", "SETTLED") = Amount(receipt, sold)
      /\ LinesOf(c, m, "withdrawal", "OWN", "COMPLETED") = Amount(receipt, gone)
  <2>1. Available(c, m) = Amount(receipt, free) /\ Locked(c, m) = Amount(receipt, held)
    BY TotalIs DEF Available, Locked
  <2>2. LinesOf(c, m, "DEPOSIT", "OWN", "APPROVED") = Amount(receipt, filed)
    BY DepositLinesAdd
  <2> QED
    BY <2>1, <2>2, RequestLinesAre
<1> HIDE DEF mine, free, held, gone, never, filed, bought, kept, sold
<1>6. PICK stock \in SUBSET Minted, out \in SUBSET Minted :
          stock = free \cup held /\ out = gone \cup never
  BY <1>1
<1>7. PICK roots \in SUBSET Minted, kids \in SUBSET Minted :
          roots = filed \cup never /\ kids = bought \cup kept
  BY <1>1
<1>8. /\ Amount(receipt, stock) = Amount(receipt, free) + Amount(receipt, held)
      /\ Amount(receipt, out) = Amount(receipt, gone) + Amount(receipt, never)
      /\ Amount(receipt, Unsplit(mine)) = Amount(receipt, stock) + Amount(receipt, out)
  BY <1>1, <1>2, <1>6, TwoPiles
<1>9. /\ Amount(receipt, roots) = Amount(receipt, filed) + Amount(receipt, never)
      /\ Amount(receipt, kids) = Amount(receipt, bought) + Amount(receipt, kept)
      /\ Amount(receipt, mine) = Amount(receipt, roots) + Amount(receipt, kids)
  BY <1>1, <1>3, <1>7, TwoPiles
<1>10. Amount(receipt, KidsOf(mine)) = Amount(receipt, kept) + Amount(receipt, sold)
  BY <1>1, <1>4, TwoPiles
<1>11. Amount(receipt, mine) = Amount(receipt, Unsplit(mine)) + Amount(receipt, KidsOf(mine))
  BY <1>1, NothingIsLost
<1>12. /\ Amount(receipt, free) \in Int /\ Amount(receipt, held) \in Int
       /\ Amount(receipt, gone) \in Int /\ Amount(receipt, never) \in Int
       /\ Amount(receipt, filed) \in Int /\ Amount(receipt, bought) \in Int
       /\ Amount(receipt, kept) \in Int /\ Amount(receipt, sold) \in Int
  BY <1>1, ReceiptsAddUp
<1>13. PICK a \in Int, b \in Int, g \in Int, n \in Int :
           /\ a = Amount(receipt, free) /\ b = Amount(receipt, held)
           /\ g = Amount(receipt, gone) /\ n = Amount(receipt, never)
  BY <1>12
<1>14. PICK f \in Int, o \in Int, k \in Int, s \in Int :
           /\ f = Amount(receipt, filed) /\ o = Amount(receipt, bought)
           /\ k = Amount(receipt, kept) /\ s = Amount(receipt, sold)
  BY <1>12
<1>15. a + b = f + o - s - g
  <2>1. Amount(receipt, mine) = ((a + b) + (g + n)) + (k + s)
    BY <1>8, <1>10, <1>11, <1>13, <1>14
  <2>2. Amount(receipt, mine) = (f + n) + (o + k)
    BY <1>9, <1>13, <1>14
  <2>3. ((a + b) + (g + n)) + (k + s) = (f + n) + (o + k)
    BY <2>1, <2>2
  <2> QED
    BY <2>3
<1> QED
  BY <1>5, <1>13, <1>14, <1>15

(* The statement explains the balance, the charts the stock, the liens the *)
(* exposure (me, warehouse-manager, receipts, liens and financier          *)
(* services): whatever was split, held, traded, dispatched or released.    *)
THEOREM BooksAlwaysAgree ==
    ASSUME BookingAssumption, Scale = 1
    PROVE  Spec => []BooksAgree
<1>1. BookingInv /\ Traced => BooksAgree
  BY BalanceIsHistory, ChartIsStock, ExposureIsStock DEF BooksAgree
<1>2. Spec => []BookingInv
  BY BookingInvariance
<1>3. Spec => []Traced
  BY TracedInvariance
<1> QED
  BY <1>1, <1>2, <1>3, PTL

-----------------------------------------------------------------------------
(***************************************************************************)
(* The reports.  Accounted adds to the two invariants what only they rely  *)
(* on: where a deposit lies, whose goods are on hold, and that the journal *)
(* has the handlers' keys only.                                            *)
(***************************************************************************)

(* What the handlers ask of the ledger.                                    *)
TakesIn(k) == \E c \in Client, q \in Quantity, place \in Lot :
                 /\ Deposit(k, c, Exactly(q))
                 /\ lot' = [lot EXCEPT ![minted + 1] = place]

Alters(k) == \E r \in Minted : \/ ApproveReceipt(k, r) \/ RejectReceipt(k, r)
                               \/ ApproveHold(k, r) \/ Release(k, r) \/ Consume(k, r)
                               \/ TransitionPledgeToLien(k, r)

Sells(k) == \E r \in Minted, b \in Client : TransferAndRelease(k, r, b)

Frees(k) == \E r \in Minted, n \in Quantity : ReleasePartial(k, r, Exactly(n))

Holds(k) == \E r \in Minted, n \in Quantity, kind \in Kind, t \in Txn :
               /\ Hold(k, r, Exactly(n), HoldOf[kind], t)
               /\ request'[t].client = receipt[r].owner
               /\ request'[t].kind = "pledge" => request'[t].receiptId = r

Calls(k) == \/ TakesIn(k)
            \/ lot' = lot /\ (Alters(k) \/ Sells(k) \/ Frees(k) \/ Holds(k))

LEMMA RequestCalls ==
    ASSUME Scale = 1, BookingInv, Traced, NEW t \in Txn, Ask(t)
    PROVE  UNCHANGED <<ledgerVars, lot>> \/ \E k \in BookingKey : Calls(k)
<1>1. PICK r \in Minted : \/ CreateLoan(t, r) \/ CreateTrade(t, r)
                          \/ \E q \in Quantity : RequestWithdrawal(t, r, q) \/ Pledge(t, r, q)
  BY DEF Ask
<1>2. <<"hold", t>> \in BookingKey
  BY DEF BookingKey
<1>3. Kind = {"withdrawal", "loan", "trade", "pledge"} /\ HoldOf["pledge"] = "HELD_PLEDGE_PENDING"
  BY DEF Kind, RequestStatus, HoldOf
<1>4. \A row : request' = [request EXCEPT ![t] = row] => request'[t] = row
  BY PutKeeps
<1>5. CASE \E q \in Quantity : RequestWithdrawal(t, r, q)
  BY <1>5 DEF RequestWithdrawal, Alone
<1>6. CASE \E q \in Quantity : Pledge(t, r, q)
  <2>1. PICK q \in Quantity : Pledge(t, r, q)
    BY <1>6
  <2>2. Hold(<<"hold", t>>, r, Exactly(q), HoldOf["pledge"], t) /\ lot' = lot
    BY <2>1, <1>3 DEF Pledge, Alone
  <2>3. request'[t].client = receipt[r].owner /\ request'[t].receiptId = r
    BY <2>1, <1>4 DEF Pledge, Asked
  <2> QED
    BY <2>2, <2>3, <1>2, <1>3 DEF Calls, Holds
<1>7. CASE CreateLoan(t, r) \/ CreateTrade(t, r)
  <2>1. PICK kind \in {"loan", "trade"} : \E row :
            /\ Reserve(t, kind, r, receipt[r].quantity, row)
            /\ row = Asked(kind, row.status, r, receipt[r].quantity)
    BY <1>7 DEF CreateLoan, CreateTrade, Asked
  <2>2. PICK row : /\ Reserve(t, kind, r, receipt[r].quantity, row)
                   /\ row = Asked(kind, row.status, r, receipt[r].quantity)
    BY <2>1
  <2>3. receipt[r].quantity \in Quantity
    BY DEF BookingInv, LedgerSound, Sized, Quantity
  <2>4. \E held : request'[t] = [row EXCEPT !.receiptId = held]
    BY <2>2, <1>4 DEF Reserve
  <2>5. request'[t].client = receipt[r].owner /\ request'[t].kind # "pledge"
    BY <2>2, <2>4 DEF Asked
  <2>6. Hold(<<"hold", t>>, r, Exactly(receipt[r].quantity), HoldOf[kind], t) /\ lot' = lot
    BY <2>2 DEF Reserve, Alone
  <2> QED
    BY <2>3, <2>5, <2>6, <1>2, <1>3 DEF Calls, Holds
<1> QED
  BY <1>1, <1>5, <1>6, <1>7

LEMMA ClosedCalls ==
    ASSUME Scale = 1, BookingInv, Traced, NEW t \in Txn, Settle(t)
    PROVE  UNCHANGED <<ledgerVars, lot>> \/ \E k \in BookingKey : Calls(k)
<1>1. /\ <<"hold", t>> \in BookingKey /\ <<"close", t>> \in BookingKey
      /\ <<"approve", t>> \in BookingKey /\ <<"release", t>> \in BookingKey
  BY DEF BookingKey
<1>2. request[t].kind # "none" => request[t].receiptId \in Minted
  BY BookedRows
<1>3. Standing(t) => lien[t].receiptId \in Minted
  BY LienHolds
<1>4. \A s, final : At(t, "withdrawal", s) \/ At(t, "loan", s) \/ At(t, "trade", s) =>
          /\ Give(t, final) => \E k \in BookingKey : Calls(k)
          /\ Move(t, ApproveHold(<<"approve", t>>, request[t].receiptId), final) =>
                \E k \in BookingKey : Calls(k)
          /\ Move(t, Consume(<<"close", t>>, request[t].receiptId), final) =>
                \E k \in BookingKey : Calls(k)
  BY <1>1, <1>2 DEF At, Give, Move, Alone, Calls, Alters
<1>5. ASSUME ConfirmPayment(t)
      PROVE  Calls(<<"hold", t>>)
  <2> DEFINE row == [request[t] EXCEPT !.status = "PAID_PENDING_APPROVAL"]
  <2>1. /\ At(t, "withdrawal", "PENDING_PAYMENT")
        /\ Reserve(t, "withdrawal", request[t].receiptId, request[t].quantity, row)
    BY <1>5 DEF ConfirmPayment
  <2>2. /\ request[t] \in RequestRow("withdrawal") /\ request[t].receiptId \in Minted
        /\ request[t].quantity \in Quantity
        /\ receipt[request[t].receiptId].owner = request[t].client
    <3>1. request[t] \in RequestRow("withdrawal") /\ request[t].kind = "withdrawal"
      BY <2>1, BookedRows DEF At
    <3>2. RowsTyped(t) /\ RowTraced(t)
      BY DEF BookingInv, Booked, Traced
    <3> QED
      BY <3>1, <3>2, <1>2 DEF RowsTyped, RowTraced, Quantity, NoRequest
  <2>3. \E held : request'[t] = [row EXCEPT !.receiptId = held]
    BY <2>1, PutKeeps DEF Reserve
  <2>4. request'[t].client = request[t].client /\ request'[t].kind # "pledge"
    BY <2>2, <2>3 DEF RequestRow
  <2>5. /\ lot' = lot
        /\ Hold(<<"hold", t>>, request[t].receiptId, Exactly(request[t].quantity),
                HoldOf["withdrawal"], t)
    BY <2>1 DEF Reserve, Alone
  <2>6. "withdrawal" \in Kind
    BY DEF Kind, RequestStatus
  <2> QED
    BY <2>2, <2>4, <2>5, <2>6 DEF Calls, Holds
<1>6. ASSUME NEW b \in Client, SettleTrade(t, b)
      PROVE  Calls(<<"close", t>>)
  BY <1>2, <1>6 DEF SettleTrade, At, Alone, Calls, Sells
<1>7. ASSUME AcceptPledge(t) \/ DeclinePledge(t)
      PROVE  \E k \in BookingKey : Calls(k)
  BY <1>1, <1>7 DEF AcceptPledge, DeclinePledge, HeldChild, Move, Alone, Calls, Alters
<1>8. ASSUME ReleaseLien(t)
      PROVE  Calls(<<"close", t>>)
  BY <1>3, <1>8 DEF ReleaseLien, Standing, Calls, Alters
<1>9. ASSUME NEW q \in Quantity, ReleaseLienPart(t, q)
      PROVE  Calls(<<"release", t>>)
  BY <1>3, <1>9 DEF ReleaseLienPart, Standing, Calls, Frees
<1>10. ASSUME RejectWithdrawal(t)
       PROVE  UNCHANGED <<ledgerVars, lot>> \/ \E k \in BookingKey : Calls(k)
  BY <1>4, <1>10 DEF RejectWithdrawal, Move, Alone
<1>11. ASSUME \/ ApproveWithdrawal(t) \/ CompleteWithdrawal(t) \/ ApproveLoan(t)
              \/ RejectLoan(t) \/ RepayLoan(t) \/ CancelTrade(t)
       PROVE  \E k \in BookingKey : Calls(k)
  BY <1>4, <1>11 DEF ApproveWithdrawal, CompleteWithdrawal, ApproveLoan, RejectLoan, RepayLoan,
        CancelTrade
<1> QED
  BY <1>1, <1>5, <1>6, <1>7, <1>8, <1>9, <1>10, <1>11 DEF Settle

LEMMA HandlerCalls ==
    ASSUME Scale = 1, BookingInv, Traced, Handled
    PROVE  UNCHANGED <<ledgerVars, lot>> \/ \E k \in BookingKey : Calls(k)
<1>1. ASSUME NEW c \in Client, NEW q \in Quantity, NEW place \in Lot, File(c, q, place)
      PROVE  \E k \in BookingKey : Calls(k)
  <2>1. <<"deposit", minted + 1>> \in BookingKey
    BY <1>1, BoundsAssumption DEF File, Deposit, BookingKey, Receipt, BookingInv,
        LedgerSound, RowInv, LedgerInv, TableTypeOK
  <2>2. Exactly(q) = q
    BY DEF Exactly, Quantity
  <2>3. /\ Deposit(<<"deposit", minted + 1>>, c, Exactly(q))
        /\ lot' = [lot EXCEPT ![minted + 1] = place]
    BY <1>1, <2>2 DEF File
  <2>4. TakesIn(<<"deposit", minted + 1>>)
    BY <2>3 DEF TakesIn
  <2> QED
    BY <2>1, <2>4 DEF Calls
<1>2. ASSUME NEW r \in Minted, Decide(r)
      PROVE  \E k \in BookingKey : Calls(k)
  <2>1. <<"verdict", r>> \in BookingKey
    BY BoundsAssumption DEF BookingKey, Minted, Receipt, BookingInv, LedgerSound, RowInv, LedgerInv,
        TableTypeOK
  <2> QED
    BY <1>2, <2>1 DEF Decide, Calls, Alters
<1> QED
  BY <1>1, <1>2, RequestCalls, ClosedCalls DEF Handled

(* They are steps of the ledger, and the journal gets their key.           *)
LEMMA CallsAreSteps ==
    ASSUME BookingAssumption, Scale = 1, BookingInv, NEW k \in BookingKey, Calls(k)
    PROVE  LedgerStep(k) /\ \A j \in Key \ {k} : event'[j] = event[j]
<1>1. k \in Key /\ \A kind \in Kind : HoldOf[kind] \in HoldStatus
  BY KeysAndHolds DEF BookingAssumption
<1>2. \A q \in Quantity : Exactly(q) \in Request
  BY BoundsAssumption DEF Exactly, Request, Quantity
<1>3. JournalTypeOK
  BY DEF BookingInv, LedgerSound, RowInv
<1>4. \A type, r, q : Record(k, type, r, q) => \A j \in Key \ {k} : event'[j] = event[j]
  BY <1>3 DEF Record, JournalTypeOK
<1>5. CASE TakesIn(k)
  BY <1>2, <1>4, <1>5 DEF TakesIn, LedgerStep, RootStep, Deposit
<1>6. CASE Alters(k)
  BY <1>4, <1>6 DEF Alters, LedgerStep, RootStep, StatusStep, ApproveReceipt, RejectReceipt,
        ApproveHold, Release, Consume, TransitionPledgeToLien
<1>7. CASE Sells(k)
  BY <1>4, <1>7 DEF Sells, LedgerStep, OwnerStep, TransferAndRelease
<1>8. CASE Frees(k)
  BY <1>2, <1>4, <1>8 DEF Frees, LedgerStep, SplitStep, ReleasePartial
<1>9. CASE Holds(k)
  BY <1>1, <1>2, <1>4, <1>9 DEF Holds, LedgerStep, SplitStep, Hold
<1> QED
  BY <1>5, <1>6, <1>7, <1>8, <1>9 DEF Calls

LEMMA HandledIsAStep ==
    ASSUME BookingAssumption, Scale = 1, BookingInv, Traced, Handled
    PROVE  UNCHANGED <<ledgerVars, lot>> \/ \E k \in Key : LedgerStep(k)
  BY HandlerCalls, CallsAreSteps DEF BookingAssumption

(* applyDepositEdit, seen from the ledger: the quantity of one deposit     *)
(* that awaits its verdict.                                                *)
DepositCorrected ==
    \E r \in Minted, q \in Quantity :
        /\ receipt[r].status = "PENDING_APPROVAL" /\ receipt[r].parent = NoReceipt
        /\ receipt' = [receipt EXCEPT ![r].quantity = q]
        /\ UNCHANGED <<minted, event>>

(* The handlers touch the stock through the primitives of the ledger only  *)
(* (withdrawals, loans, trades, deposits, pledges and liens services call  *)
(* InventoryLedgerService in their transaction), with one exception: a     *)
(* correction writes the quantity of a deposit nobody has approved         *)
(* (editDeposit and editDepositAsAdmin).                                   *)
THEOREM HandlersUseTheLedger ==
    ASSUME BookingAssumption, Scale = 1
    PROVE  Spec => LedgerInit /\ [][LedgerNext \/ DepositCorrected]_ledgerVars
<1>1. BookingInit => LedgerInit
  BY DEF BookingInit
<1>2. BookingInv /\ Traced /\ [BookingNext]_bookingVars =>
          [LedgerNext \/ DepositCorrected]_ledgerVars
  <2>1. BookingInv /\ Traced /\ Handled => [LedgerNext]_ledgerVars
    BY HandledIsAStep DEF LedgerNext, ledgerVars
  <2>2. ASSUME BookingInv, Correction
        PROVE  DepositCorrected
    <3>1. PICK r \in Minted, q \in Quantity, place \in Lot : Correct(r, q, place)
      BY <2>2 DEF Correction
    <3>2. receipt[r].parent = NoReceipt
      BY <2>2, <3>1, CorrectIs DEF Corrects
    <3>3. Stored(q) = q
      BY WholeIsExact DEF Quantity, Exactly
    <3> QED
      BY <3>1, <3>2, <3>3 DEF Correct, DepositCorrected
  <2>3. UNCHANGED bookingVars => UNCHANGED ledgerVars
    BY DEF bookingVars
  <2> QED
    BY <2>1, <2>2, <2>3, NextIs
<1> QED
  BY <1>1, <1>2, BookingInvariance, TracedInvariance, PTL DEF Spec

(* A correction changes nothing that the journal speaks of.                *)
LEMMA CorrectionStaysExplained ==
    ASSUME Scale = 1, BookingInv, JournalInv, Correction
    PROVE  JournalInv'
<1>1. PICK r \in Minted : Corrects(r) /\ LedgerSound'
  BY CorrectIs DEF Correction
<1>2. /\ Minted' = Minted /\ event' = event
      /\ \A s \in Minted : SameButSize(receipt[s], receipt'[s])
  BY <1>1 DEF Corrects, Minted
<1>3. \A p : Children(p)' = Children(p) /\ Children(p) \subseteq Minted
  BY <1>2 DEF Children, SameButSize
<1>4. \A p : SpendingEvents(p)' = SpendingEvents(p)
  BY <1>2, <1>3 DEF SpendingEvents, EventsOf, SplittingEvents, SameButSize
<1>5. SpendInv'
  <2>1. EventsOfMinted /\ OpenIsUnspent /\ NoDoubleSpend
    BY DEF JournalInv, SpendInv
  <2>2. EventsOfMinted'
    BY <1>2, <2>1 DEF EventsOfMinted
  <2>3. OpenIsUnspent'
    BY <1>2, <1>4, <2>1 DEF OpenIsUnspent, SameButSize
  <2>4. NoDoubleSpend'
    BY <1>2, <1>4, <2>1 DEF NoDoubleSpend
  <2> QED
    BY <1>1, <2>2, <2>3, <2>4 DEF SpendInv, LedgerSound
<1>6. RowsExplained'
  BY <1>2 DEF JournalInv, RowsExplained, Explained, Admitted, SameButSize
<1> QED
  BY <1>5, <1>6 DEF JournalInv

(* What the journal of the ledger tells of the stock, it tells whatever    *)
(* the handlers do, corrections included (every primitive inserts its      *)
(* event in the transaction that updates the table).                       *)
THEOREM JournalStaysTrue ==
    ASSUME BookingAssumption, Scale = 1
    PROVE  Spec => []JournalInv
<1>1. ASSUME BookingInit
      PROVE  JournalInv
  <2>1. LedgerInit /\ Minted = {} /\ \A k \in Key : event[k] = NoEvent
    BY <1>1 DEF BookingInit, LedgerInit, Minted
  <2>2. RowInv
    BY <2>1, InitKeepsInv DEF RowInv, RowsSettled
  <2> QED
    BY <2>1, <2>2 DEF JournalInv, SpendInv, EventsOfMinted, OpenIsUnspent, NoDoubleSpend,
                      RowsExplained
<1>2. BookingInv /\ Traced /\ JournalInv /\ [BookingNext]_bookingVars => JournalInv'
  <2>1. ASSUME JournalInv, UNCHANGED ledgerVars
        PROVE  JournalInv'
    <3>1. SpendInv'
      <4>1. RowInv'
        BY <2>1 DEF ledgerVars, JournalInv, SpendInv, RowInv, LedgerInv, JournalTypeOK,
               TableTypeOK, TreeShape, SplitConservation, ConservedAt, Children, Minted,
               RowsSettled
      <4>2. Minted' = Minted /\ \A r : SpendingEvents(r)' = SpendingEvents(r)
        BY <2>1 DEF ledgerVars, Minted, SpendingEvents, EventsOf, SplittingEvents, Children
      <4> QED
        BY <2>1, <4>1, <4>2 DEF ledgerVars, JournalInv, SpendInv, EventsOfMinted,
                                OpenIsUnspent, NoDoubleSpend
    <3>2. RowsExplained'
      BY <2>1 DEF ledgerVars, JournalInv, RowsExplained, Explained, Admitted, Minted
    <3> QED
      BY <3>1, <3>2 DEF JournalInv
  <2>2. ASSUME NEW k \in Key, JournalInv, LedgerStep(k)
        PROVE  JournalInv'
    BY <2>2, StepKeepsSpendInv, StepStaysExplained DEF JournalInv
  <2>3. BookingInv /\ Traced /\ JournalInv /\ Handled => JournalInv'
    BY <2>1, <2>2, HandledIsAStep
  <2>4. UNCHANGED bookingVars => UNCHANGED ledgerVars
    BY DEF bookingVars
  <2> QED
    BY <2>1, <2>3, <2>4, NextIs, CorrectionStaysExplained
<1> QED
  BY <1>1, <1>2, BookingInvariance, TracedInvariance, PTL DEF Spec

-----------------------------------------------------------------------------
(* The third invariant.                                                    *)
OwnJournal == \A k \in Key : event[k] # NoEvent => k \in BookingKey

Placed == \A r \in Minted : receipt[r].root \in Minted /\ lot[receipt[r].root] \in Lot

(* The journal has the event that made a receipt.                          *)
Sourced ==
    \A r \in Minted :
        LET source == event[receipt[r].sourceEvent]
        IN  /\ source # NoEvent
            /\ receipt[r].parent = NoReceipt => source.from = r

(* What is on hold is the client's, out of the pile that he asked for.     *)
HeldInPlace ==
    \A r \in Minted : IsHeld(r) =>
        LET row == request[receipt[r].sourceTxn]
        IN  row.client = receipt[r].owner /\ receipt[row.receiptId].root = receipt[r].root

(* A pledge awaits its financier with the goods on hold.                   *)
PledgesBacked ==
    \A t \in Txn : At(t, "pledge", "PENDING") =>
        \E r \in HeldFor(t) : receipt[r].status = "HELD_PLEDGE_PENDING"

ReleasedIsPaid == \A t \in Txn : lien[t].status = "RELEASED" => lien[t].remaining = 0

(* Goods are asked for out of trees that have their verdict.               *)
AskedOfDecided ==
    \A t \in Txn : request[t] # NoRequest => ~Awaits(receipt[request[t].receiptId].root)

Accounted == /\ OwnJournal /\ Placed /\ Sourced
             /\ HeldInPlace /\ PledgesBacked /\ ReleasedIsPaid /\ AskedOfDecided

(* A held receipt has a request, which keeps its client.                   *)
LEMMA HeldHasARow ==
    ASSUME BookingInv, NEW r \in Minted, IsHeld(r)
    PROVE  LET u == receipt[r].sourceTxn
           IN  u \in Txn /\ Holder(r, u) /\ request[u] # NoRequest /\ request[u].kind \in Kind
<1> DEFINE u == receipt[r].sourceTxn
<1>1. u \in Txn
  BY DEF BookingInv, HoldersAreTransactions
<1>2. Holder(r, u) /\ RowsTyped(u)
  BY <1>1 DEF BookingInv, Booked, HoldsOne, HeldFor
<1>3. Standing(u) => request[u].kind = "pledge"
  BY <1>2 DEF Standing, RowsTyped, NoLien, At
<1>4. request[u].kind \in {"withdrawal", "loan", "trade", "pledge"}
  BY <1>2, <1>3 DEF Holder, At, IsHeld, HeldStatus
<1> QED
  BY <1>1, <1>2, <1>4 DEF NoRequest, Kind, RequestStatus

(* A change in place, of the status or the approval.                       *)
LEMMA AltersKeepOwners ==
    ASSUME BookingInv, NEW k, Alters(k)
    PROVE  minted' = minted /\ \A r \in Minted : receipt'[r].owner = receipt[r].owner
<1>1. PICK r \in Minted : \/ ApproveReceipt(k, r) \/ RejectReceipt(k, r)
                          \/ ApproveHold(k, r) \/ Release(k, r) \/ Consume(k, r)
                          \/ TransitionPledgeToLien(k, r)
  BY DEF Alters
<1>2. RowInv /\ receipt[r] \in Row
  BY BookedRows DEF BookingInv, LedgerSound
<1>3. \E row : Update(r, row) /\ row.owner = receipt[r].owner
  <2> DEFINE free == [receipt[r] EXCEPT !.status = "ACTIVE", !.approval = "APPROVED"]
             refused == [receipt[r] EXCEPT !.status = "CANCELLED", !.approval = "REJECTED"]
  <2>1. /\ free.owner = receipt[r].owner /\ refused.owner = receipt[r].owner
        /\ [receipt[r] EXCEPT !.approval = "APPROVED"].owner = receipt[r].owner
        /\ \A s : [receipt[r] EXCEPT !.status = s].owner = receipt[r].owner
    BY <1>2 DEF Row
  <2> QED
    <3>1. CASE ApproveReceipt(k, r) \/ RejectReceipt(k, r) \/ Release(k, r)
      <4>1. Update(r, free) \/ Update(r, refused)
        BY <3>1 DEF ApproveReceipt, RejectReceipt, Release
      <4> HIDE DEF free, refused
      <4> QED
        BY <2>1, <4>1
    <3>2. CASE ApproveHold(k, r)
      BY <2>1, <3>2 DEF ApproveHold
    <3>3. CASE Consume(k, r) \/ TransitionPledgeToLien(k, r)
      BY <2>1, <3>3 DEF Consume, TransitionPledgeToLien
    <3> QED
      BY <1>1, <3>1, <3>2, <3>3
<1>4. PICK row : Update(r, row) /\ row.owner = receipt[r].owner
  BY <1>3
<1> QED
  BY <1>2, <1>4, UpdateIs DEF Untouched

(* A held receipt is the one its row points at, but for pledges.           *)
InOwnRow ==
    \A r \in Minted : LET row == request[receipt[r].sourceTxn]
                      IN  IsHeld(r) /\ row.kind # "pledge" => row.receiptId = r

LEMMA HeldInOwnRow == BookingInv => InOwnRow
<1>1. ASSUME BookingInv, NEW r \in Minted, IsHeld(r), request[receipt[r].sourceTxn].kind # "pledge"
      PROVE  request[receipt[r].sourceTxn].receiptId = r
  <2> DEFINE u == receipt[r].sourceTxn
  <2>1. u \in Txn /\ Holder(r, u)
    BY <1>1, HeldHasARow
  <2>2. RowsTyped(u)
    BY <1>1, <2>1 DEF BookingInv, Booked
  <2>3. ~Standing(u) /\ ~At(u, "pledge", "PENDING")
    BY <1>1, <2>2 DEF Standing, RowsTyped, NoLien, At
  <2> QED
    BY <1>1, <2>1, <2>3 DEF Holder, At, IsHeld, HeldStatus
<1> QED
  BY <1>1 DEF InOwnRow

LEMMA NextHeldInOwnRow == BookingInv' => InOwnRow'
<1>1. BookingInv => InOwnRow
  BY HeldInOwnRow
<1> QED
  BY <1>1, PTL

(* Whose goods are on hold after a call of the ledger, and from where.     *)
LEMMA CallsKeepOwners ==
    ASSUME BookingAssumption, Scale = 1, BookingInv, NEW k \in BookingKey, Calls(k), Grown,
           LedgerSound', NEW r \in Minted', (IsHeld(r))'
    PROVE  \/ \E s \in Minted : /\ IsHeld(s)
                                /\ receipt'[r].owner = receipt[s].owner
                                /\ receipt'[r].sourceTxn = receipt[s].sourceTxn
                                /\ receipt'[r].root = receipt[s].root
           \/ LET row == request'[receipt'[r].sourceTxn]
              IN  /\ row.client = receipt'[r].owner
                  /\ row.kind = "pledge" => receipt'[row.receiptId].root = receipt'[r].root
<1>1. RowInv /\ k \in Key /\ \A s \in Minted : receipt[s] \in Row
  BY BookedRows DEF BookingInv, LedgerSound, BookingAssumption
<1>2. r \in Minted => /\ IsHeld(r) /\ receipt'[r].sourceTxn = receipt[r].sourceTxn
                      /\ receipt'[r].root = receipt[r].root
  BY DEF Grown, SameLineage, IsHeld
<1>3. \A s \in Minted : receipt'[s] = [receipt[s] EXCEPT !.status = "SPLIT", !.isParent = TRUE]
          => receipt'[s].owner = receipt[s].owner
  BY <1>1 DEF Row
<1>4. receipt'[r].status \in HeldStatus /\ "SPLIT" \notin HeldStatus /\ "ACTIVE" \notin HeldStatus
      /\ "PENDING_APPROVAL" \notin HeldStatus
  BY StatusRoles DEF IsHeld
<1>5. CASE TakesIn(k)
  <2>1. PICK c \in Client, q \in Quantity : Deposit(k, c, Exactly(q))
    BY <1>5 DEF TakesIn
  <2>2. minted \in Nat /\ minted + 1 \in Receipt /\ DOMAIN receipt = Receipt
    BY <1>1, <2>1, BoundsAssumption DEF Deposit, RowInv, LedgerInv, TableTypeOK, Receipt
  <2>3. receipt'[minted + 1].status = "PENDING_APPROVAL"
    BY <2>1, <2>2 DEF Deposit
  <2>4. r # minted + 1
    BY <1>4, <2>3
  <2>5. r \in Minted /\ receipt'[r] = receipt[r]
    BY <2>1, <2>2, <2>4 DEF Deposit, Minted
  <2> QED
    BY <1>2, <2>5
<1>6. CASE Alters(k)
  BY <1>2, <1>6, AltersKeepOwners DEF Minted
<1>7. CASE Sells(k)
  <2>1. PICK x \in Minted, b \in Client : TransferAndRelease(k, x, b)
    BY <1>7 DEF Sells
  <2>2. PICK row : row = [receipt[x] EXCEPT !.owner = b, !.status = "ACTIVE", !.approval = "APPROVED"]
    OBVIOUS
  <2>3. minted' = minted /\ Untouched(Minted \ {x}) /\ receipt'[x] = row
    BY <1>1, <2>1, <2>2, UpdateIs DEF TransferAndRelease
  <2>4. row.status = "ACTIVE"
    BY <1>1, <2>2 DEF Row
  <2> QED
    BY <1>2, <1>4, <2>3, <2>4 DEF Untouched, Minted
<1>8. CASE Frees(k)
  <2>1. PICK x \in Minted, n \in Quantity : ReleasePartial(k, x, Exactly(n))
    BY <1>8 DEF Frees
  <2>2. Shares(k, x, n)
    BY <1>1, <2>1, ReleasePartialIs DEF Quantity
  <2>3. r \in Minted => receipt'[r].owner = receipt[r].owner
    BY <1>3, <2>2 DEF Shares, Untouched
  <2>4. r \notin Minted => receipt'[r].owner = receipt[x].owner
    BY <2>2 DEF Shares
  <2>5. r \notin Minted => receipt'[r].sourceTxn = receipt[x].sourceTxn /\ receipt'[r].sourceEvent = k
    BY <1>4, <2>2 DEF Shares
  <2>6. IsHeld(x) /\ Writes(k, x)
    BY <2>2 DEF Shares
  <2>7. r \notin Minted => receipt'[r].root = receipt[x].root
    BY <1>1, <2>5, <2>6, BornUnder
  <2> QED
    BY <1>2, <2>3, <2>4, <2>5, <2>6, <2>7
<1>9. CASE Holds(k)
  <2>1. PICK x \in Minted, n \in Quantity, kind \in Kind, t \in Txn :
            /\ Hold(k, x, Exactly(n), HoldOf[kind], t)
            /\ request'[t].client = receipt[x].owner
            /\ request'[t].kind = "pledge" => request'[t].receiptId = x
    BY <1>9 DEF Holds
  <2>2. Reserves(k, x, n, HoldOf[kind], t)
    BY <1>1, <2>1, HoldIs, KeysAndHolds DEF Quantity
  <2>3. r \in Minted => receipt'[r].owner = receipt[r].owner
    BY <1>3, <2>2 DEF Reserves, Untouched
  <2>4. r \notin Minted => /\ receipt'[r].owner = receipt[x].owner /\ receipt'[r].sourceTxn = t
                           /\ receipt'[r].sourceEvent = k
    BY <1>4, <2>2 DEF Reserves
  <2>5. Writes(k, x)
    BY <2>2 DEF Reserves
  <2>6. r \notin Minted => receipt'[r].root = receipt[x].root
    BY <1>1, <2>4, <2>5, BornUnder
  <2>7. receipt'[x].root = receipt[x].root
    BY DEF Grown, SameLineage
  <2> QED
    BY <1>2, <2>1, <2>3, <2>4, <2>6, <2>7
<1> QED
  BY <1>5, <1>6, <1>7, <1>8, <1>9 DEF Calls

(* A receipt is new by a deposit or a split only.                          *)
LEMMA DepositsTakeIn ==
    ASSUME BookingAssumption, Scale = 1, BookingInv, NEW k \in BookingKey, Calls(k), TakenIn(k)
    PROVE  TakesIn(k)
<1>1. k \in Key /\ RowInv /\ minted \in Nat
  BY BoundsAssumption DEF BookingAssumption, BookingInv, LedgerSound, RowInv, LedgerInv, TableTypeOK
<1>2. /\ receipt'[minted + 1].parent = NoReceipt /\ minted' = minted + 1
      /\ minted' # minted /\ minted + 1 \in Minted' \ Minted
  BY <1>1 DEF TakenIn, Minted
<1>3. ~Alters(k)
  BY <1>2, AltersKeepOwners
<1>4. ~Sells(k)
  BY <1>2 DEF Sells, TransferAndRelease, Update
<1>5. ASSUME NEW x \in Minted, \A c \in Minted' \ Minted : receipt'[c].parent = x
      PROVE  FALSE
  BY <1>1, <1>2, <1>5 DEF NoReceipt, Minted
<1>6. ~Frees(k)
  <2>1. ASSUME NEW x \in Minted, NEW n \in Quantity, ReleasePartial(k, x, Exactly(n))
        PROVE  FALSE
    <3>1. Shares(k, x, n)
      BY <1>1, <2>1, ReleasePartialIs DEF Quantity
    <3> QED
      BY <1>5, <3>1 DEF Shares
  <2> QED
    BY <2>1 DEF Frees
<1>7. ~Holds(k)
  <2>1. ASSUME NEW x \in Minted, NEW n \in Quantity, NEW kind \in Kind, NEW t \in Txn,
               Hold(k, x, Exactly(n), HoldOf[kind], t)
        PROVE  FALSE
    <3>1. Reserves(k, x, n, HoldOf[kind], t)
      BY <1>1, <2>1, HoldIs, KeysAndHolds DEF Quantity
    <3> QED
      BY <1>5, <3>1 DEF Reserves
  <2> QED
    BY <2>1 DEF Holds
<1> QED
  BY <1>3, <1>4, <1>6, <1>7 DEF Calls

(* Every lot and every source is known, and none changes.                  *)
LEMMA StaysPlaced ==
    ASSUME BookingAssumption, Scale = 1, BookingInv, Placed, Sourced, Recorded,
           NEW k \in BookingKey, Calls(k)
    PROVE  Placed' /\ Sourced'
<1> DEFINE Known(r) ==
              /\ receipt'[r].root \in Minted' /\ lot'[receipt'[r].root] \in Lot
              /\ event'[receipt'[r].sourceEvent] # NoEvent
              /\ receipt'[r].parent = NoReceipt => event'[receipt'[r].sourceEvent].from = r
<1>1. /\ k \in Key /\ LedgerStep(k) /\ RowInv /\ LedgerInv /\ JournalTypeOK /\ RowsSettled
      /\ minted \in Nat
  BY CallsAreSteps, BoundsAssumption DEF BookingAssumption, BookingInv, LedgerSound,
      RowInv, LedgerInv, TableTypeOK
<1>2. Grown /\ \A r \in Minted : lot'[r] = lot[r]
  BY DEF Recorded
<1>3. ASSUME NEW r \in Minted
      PROVE  Known(r)
  <2>1. receipt[r].sourceEvent \in Key
    BY BookedRows DEF Row
  <2> QED
    BY <1>2, <2>1 DEF Grown, SameLineage, Placed, Sourced
<1>4. ASSUME NEW s \in Minted, Superseded(k, s), NEW r \in Minted' \ Minted
      PROVE  Known(r)
  <2>1. receipt'[r].root = receipt[s].root /\ receipt'[r].sourceEvent = k /\ receipt'[r].parent = s
    BY <1>4 DEF Superseded, BornOf
  <2>2. event'[k].from = s /\ s # NoReceipt
    BY <1>4 DEF Superseded, Journals, NoReceipt, Minted
  <2> QED
    BY <1>2, <2>1, <2>2 DEF Grown, Placed, NoEvent
<1>5. ASSUME NEW s \in Minted, Aged(k, s)
      PROVE  Minted' = Minted
  BY <1>5 DEF Aged, Minted
<1>6. ASSUME TakenIn(k), NEW r \in Minted' \ Minted
      PROVE  Known(r)
  <2>1. r = minted + 1 /\ receipt'[r].root = r /\ event'[k].from = r /\ r # NoReceipt
    BY <1>1, <1>6 DEF TakenIn, Minted, Journals, NoReceipt
  <2>2. TakesIn(k)
    BY <1>6, DepositsTakeIn
  <2>3. PICK place \in Lot : lot' = [lot EXCEPT ![minted + 1] = place]
    BY <2>2 DEF TakesIn
  <2>4. minted + 1 \in Receipt /\ DOMAIN lot = Receipt /\ DOMAIN receipt = Receipt
    <3>1. minted < MaxReceipts /\ MaxReceipts \in Nat
      BY <2>2, BoundsAssumption DEF TakesIn, Deposit
    <3> QED
      BY <1>1, <3>1 DEF Receipt, BookingInv, Tables, LedgerInv, TableTypeOK
  <2>5. receipt'[r].sourceEvent = k
    BY <2>1, <2>2, <2>4 DEF TakesIn, Deposit
  <2> QED
    BY <2>1, <2>3, <2>4, <2>5, <1>6 DEF NoEvent
<1>7. \A r \in Minted' : Known(r)
  BY <1>1, <1>3, <1>4, <1>5, <1>6, StepShapes
<1> QED
  BY <1>7 DEF Placed, Sourced

(* What is on hold stays its client's.                                     *)
LEMMA StaysInPlace ==
    ASSUME BookingAssumption, Scale = 1, BookingInv, HeldInPlace, Recorded, BookingInv',
           UNCHANGED <<ledgerVars, lot>> \/ \E k \in BookingKey : Calls(k)
    PROVE  HeldInPlace'
<1>1. Grown /\ \A t \in Txn : RowKept(t)
  BY DEF Recorded
<1>2. ASSUME NEW s \in Minted, IsHeld(s), NEW r \in Minted',
             receipt'[r].owner = receipt[s].owner,
             receipt'[r].sourceTxn = receipt[s].sourceTxn,
             receipt'[r].root = receipt[s].root
      PROVE  LET row == request'[receipt'[r].sourceTxn]
             IN  row.client = receipt'[r].owner /\ receipt'[row.receiptId].root = receipt'[r].root
  <2>1. RowKept(receipt[s].sourceTxn) /\ request[receipt[s].sourceTxn] # NoRequest
    BY <1>1, <1>2, HeldHasARow
  <2> QED
    BY <1>2, <2>1 DEF RowKept, HeldInPlace
<1>3. ASSUME NEW r \in Minted', (IsHeld(r))'
      PROVE  LET row == request'[receipt'[r].sourceTxn]
             IN  row.client = receipt'[r].owner /\ receipt'[row.receiptId].root = receipt'[r].root
  <2>1. CASE UNCHANGED <<ledgerVars, lot>>
    <3>1. r \in Minted /\ IsHeld(r) /\ receipt'[r] = receipt[r]
      BY <1>3, <2>1 DEF ledgerVars, Minted, IsHeld
    <3> QED
      BY <1>2, <3>1
  <2>2. ASSUME NEW k \in BookingKey, Calls(k)
        PROVE  LET row == request'[receipt'[r].sourceTxn]
               IN  row.client = receipt'[r].owner /\ receipt'[row.receiptId].root = receipt'[r].root
    <3>1. LedgerSound'
      BY DEF BookingInv
    <3>2. CASE LET row == request'[receipt'[r].sourceTxn]
               IN  /\ row.client = receipt'[r].owner
                   /\ row.kind = "pledge" => receipt'[row.receiptId].root = receipt'[r].root
      <4>1. request'[receipt'[r].sourceTxn].kind # "pledge" =>
                request'[receipt'[r].sourceTxn].receiptId = r
        BY <1>3, NextHeldInOwnRow DEF InOwnRow
      <4> QED
        BY <3>2, <4>1
    <3> QED
      BY <1>1, <1>2, <1>3, <2>2, <3>1, <3>2, CallsKeepOwners
  <2> QED
    BY <2>1, <2>2
<1> QED
  BY <1>3 DEF HeldInPlace

(* A pending pledge keeps its hold until it is decided.                    *)
LEMMA PledgeStaysHeld ==
    ASSUME BookingAssumption, Scale = 1, BookingInv, Handled, NEW t \in Txn,
           NEW x \in HeldFor(t), receipt[x].status = "HELD_PLEDGE_PENDING",
           At(t, "pledge", "PENDING")'
    PROVE  receipt'[x] = receipt[x]
<1>1. /\ x \in Minted /\ receipt[x].sourceTxn = t /\ RowInv /\ IsHeld(x)
      /\ minted \in Nat /\ receipt[x] \in Row
  BY BookedRows, BoundsAssumption DEF HeldFor, BookingInv, LedgerSound, RowInv, LedgerInv, TableTypeOK
<1>2. Holder(x, t) /\ Booked(t)
  BY DEF BookingInv, Booked, HoldsOne
<1>3. At(t, "pledge", "PENDING") /\ ~Standing(t)
  BY <1>1, <1>2 DEF Holder, Booked, RowsTyped, Standing, NoLien, At
<1>4. \A r \in Minted \ {x} : \A row : Update(r, row) => receipt'[x] = receipt[x]
  BY <1>1, UpdateIs DEF Untouched
<1>5. \A r \in Minted, n \in 1..MaxQuantity, kind \in Kind, u \in Txn :
          Hold(<<"hold", u>>, r, Exactly(n), HoldOf[kind], u) => receipt'[x] = receipt[x]
  <2>1. ASSUME NEW r \in Minted, NEW n \in 1..MaxQuantity, NEW kind \in Kind, NEW u \in Txn,
               Hold(<<"hold", u>>, r, Exactly(n), HoldOf[kind], u)
        PROVE  receipt'[x] = receipt[x]
    <3>1. Reserves(<<"hold", u>>, r, n, HoldOf[kind], u)
      BY <1>1, <2>1, HoldIs, KeysAndHolds
    <3> QED
      BY <1>1, <3>1 DEF Reserves, Untouched
  <2> QED
    BY <2>1
<1>6. Kind = {"withdrawal", "loan", "trade", "pledge"}
  BY DEF Kind, RequestStatus
<1>7. CASE UNCHANGED ledgerVars
  BY <1>7 DEF ledgerVars
<1>8. ASSUME NEW c \in Client, NEW q \in Quantity, NEW place \in Lot, File(c, q, place)
      PROVE  receipt'[x] = receipt[x]
  <2>1. \E row : receipt' = [receipt EXCEPT ![minted + 1] = row]
    BY <1>8 DEF File, Deposit
  <2> QED
    BY <1>1, <2>1 DEF Minted
<1>9. ASSUME NEW r \in Minted, Decide(r)
      PROVE  receipt'[x] = receipt[x]
  BY <1>1, <1>4, <1>9 DEF Decide, ApproveReceipt, RejectReceipt
<1>10. ASSUME NEW u \in Txn, NEW kind \in {"withdrawal", "loan", "trade"}, NEW s,
              At(u, kind, s), NEW row, Update(request[u].receiptId, row)
       PROVE  receipt'[x] = receipt[x]
  <2>1. request[u].receiptId \in Minted
    BY <1>10, BookedRows DEF At
  <2>2. ASSUME request[u].receiptId = x
        PROVE  FALSE
    <3>1. RowsBacked(u)
      BY DEF BookingInv, Booked
    <3>2. u = t
      BY <1>1, <1>10, <2>2, <3>1 DEF RowsBacked, At
    <3> QED
      BY <1>3, <1>10, <3>2 DEF At
  <2> QED
    BY <1>4, <1>10, <2>1, <2>2
<1>11. ASSUME NEW u \in Txn, NEW held \in HeldChild(u), NEW row, Update(held, row),
              NEW s \in {"ACCEPTED", "REJECTED"}, Put(u, s)
       PROVE  receipt'[x] = receipt[x]
  <2>1. ASSUME held = x
        PROVE  FALSE
    <3>1. u = t
      BY <1>1, <2>1, PledgedChild DEF HeldFor
    <3>2. request'[t] = [request[t] EXCEPT !.status = s]
      BY <1>11, <3>1, PutKeeps DEF Put
    <3>3. request[t] \in RequestRow("pledge")
      BY <1>3, PledgeRow DEF At
    <3>4. request'[t].status = s
      BY <3>2, <3>3 DEF RequestRow
    <3> QED
      BY <3>4 DEF At
  <2>2. held \in Minted
    BY DEF HeldChild
  <2> QED
    BY <1>4, <1>11, <2>1, <2>2
<1>12. ASSUME NEW u \in Txn, Standing(u)
       PROVE  /\ lien[u].receiptId \in Minted \ {x}
              /\ \A row : Update(lien[u].receiptId, row) => receipt'[x] = receipt[x]
              /\ \A k \in Key, n \in 1..MaxQuantity :
                    ReleasePartial(k, lien[u].receiptId, Exactly(n)) => receipt'[x] = receipt[x]
  <2>1. lien[u].receiptId \in Minted \ {x}
    BY <1>12, LienHolds
  <2>2. ASSUME NEW k \in Key, NEW n \in 1..MaxQuantity,
               ReleasePartial(k, lien[u].receiptId, Exactly(n))
        PROVE  receipt'[x] = receipt[x]
    <3>1. Shares(k, lien[u].receiptId, n)
      BY <1>1, <2>1, <2>2, ReleasePartialIs
    <3> QED
      BY <1>1, <2>1, <3>1 DEF Shares, Untouched
  <2> QED
    BY <1>4, <2>1, <2>2
<1>13. ASSUME NEW u \in Txn, Ask(u)
       PROVE  receipt'[x] = receipt[x]
  <2>1. PICK r \in Minted : \/ CreateLoan(u, r) \/ CreateTrade(u, r)
                            \/ \E q \in Quantity : RequestWithdrawal(u, r, q) \/ Pledge(u, r, q)
    BY <1>13 DEF Ask
  <2>2. receipt[r].quantity \in 1..MaxQuantity
    BY DEF BookingInv, LedgerSound, Sized
  <2>3. CASE CreateLoan(u, r) \/ CreateTrade(u, r)
    BY <1>5, <1>6, <2>2, <2>3 DEF CreateLoan, CreateTrade, Reserve
  <2>4. ASSUME NEW q \in Quantity, RequestWithdrawal(u, r, q) \/ Pledge(u, r, q)
        PROVE  receipt'[x] = receipt[x]
    <3>1. CASE RequestWithdrawal(u, r, q)
      BY <1>7, <3>1 DEF RequestWithdrawal
    <3>2. CASE Pledge(u, r, q)
      <4>1. Hold(<<"hold", u>>, r, Exactly(q), HoldOf["pledge"], u)
        BY <3>2 DEF Pledge, HoldOf
      <4> QED
        BY <1>5, <1>6, <4>1 DEF Quantity
    <3> QED
      BY <2>4, <3>1, <3>2
  <2> QED
    BY <2>1, <2>3, <2>4
<1>14. ASSUME NEW u \in Txn, ConfirmPayment(u)
       PROVE  receipt'[x] = receipt[x]
  <2>1. /\ At(u, "withdrawal", "PENDING_PAYMENT")
        /\ Hold(<<"hold", u>>, request[u].receiptId, Exactly(request[u].quantity),
                HoldOf["withdrawal"], u)
    BY <1>14 DEF ConfirmPayment, Reserve
  <2>2. request[u].receiptId \in Minted /\ request[u].quantity \in 1..MaxQuantity
    <3>1. RowsTyped(u) /\ request[u] # NoRequest
      BY <2>1 DEF BookingInv, Booked, At, NoRequest
    <3> QED
      BY <2>1, <3>1, BookedRows DEF RowsTyped, At
  <2> QED
    BY <1>5, <1>6, <2>1, <2>2
<1>15. ASSUME NEW u \in Txn, AcceptPledge(u) \/ DeclinePledge(u)
       PROVE  receipt'[x] = receipt[x]
  BY <1>11, <1>15 DEF AcceptPledge, DeclinePledge, Move, TransitionPledgeToLien, Release
<1>16. ASSUME NEW u \in Txn, ReleaseLien(u) \/ \E q \in Quantity : ReleaseLienPart(u, q)
       PROVE  receipt'[x] = receipt[x]
  <2>1. Standing(u) /\ <<"release", u>> \in Key
    BY <1>16, KeysAndHolds DEF ReleaseLien, ReleaseLienPart, Standing
  <2> QED
    BY <1>12, <1>16, <2>1 DEF ReleaseLien, ReleaseLienPart, Release, Quantity
<1>17. ASSUME NEW u \in Txn, RejectWithdrawal(u)
       PROVE  receipt'[x] = receipt[x]
  <2>1. CASE UNCHANGED ledgerVars
    BY <1>7, <2>1
  <2>2. ASSUME NEW s, At(u, "withdrawal", s), Give(u, "REJECTED")
        PROVE  receipt'[x] = receipt[x]
    BY <1>10, <2>2 DEF Give, Move, Release
  <2> QED
    BY <1>17, <2>1, <2>2 DEF RejectWithdrawal, Move
<1>18. ASSUME NEW u \in Txn,
              \/ ApproveWithdrawal(u) \/ CompleteWithdrawal(u) \/ ApproveLoan(u)
              \/ RejectLoan(u) \/ RepayLoan(u) \/ CancelTrade(u)
              \/ \E b \in Client : SettleTrade(u, b)
       PROVE  receipt'[x] = receipt[x]
  <2>1. PICK kind \in {"withdrawal", "loan", "trade"} : \E s : At(u, kind, s)
    BY <1>18 DEF ApproveWithdrawal, CompleteWithdrawal, ApproveLoan, RejectLoan, RepayLoan,
          CancelTrade, SettleTrade
  <2>2. \E row : Update(request[u].receiptId, row)
    BY <1>18 DEF ApproveWithdrawal, CompleteWithdrawal, ApproveLoan, RejectLoan, RepayLoan,
          CancelTrade, SettleTrade, Give, Move, ApproveHold, Consume, Release, TransferAndRelease
  <2> QED
    BY <1>10, <2>1, <2>2
<1>19. ASSUME NEW u \in Txn, Settle(u)
       PROVE  receipt'[x] = receipt[x]
  BY <1>14, <1>15, <1>16, <1>17, <1>18, <1>19 DEF Settle
<1> QED
  BY <1>8, <1>9, <1>13, <1>19 DEF Handled

(* A pledge is pending from its request only.                              *)
LEMMA PledgesBegin ==
    ASSUME BookingAssumption, Scale = 1, BookingInv, Handled, NEW t \in Txn,
           At(t, "pledge", "PENDING")', ~At(t, "pledge", "PENDING")
    PROVE  \E r \in Minted, q \in Quantity : Pledge(t, r, q)
<1>1. request' # request
  BY DEF At
<1>2. PICK u \in Txn : Ask(u) \/ Settle(u)
  BY <1>1 DEF Handled, File, Decide
<1>3. \A row : request' = [request EXCEPT ![u] = row] => u = t /\ request'[t] = row
  BY PutKeeps DEF At
<1>4. ASSUME NEW s, s # "PENDING", Put(u, s)
      PROVE  FALSE
  <2>1. u = t /\ request'[t] = [request[t] EXCEPT !.status = s]
    BY <1>3, <1>4 DEF Put
  <2>2. \E kind \in Kind : request[t] \in RequestRow(kind)
    <3>1. request[t] = NoRequest \/ \E kind \in Kind : request[t] \in RequestRow(kind)
      BY DEF BookingInv, Booked, RowsTyped
    <3>2. request[t] = NoRequest => request'[t].kind = "none"
      BY <2>1 DEF NoRequest
    <3> QED
      BY <3>1, <3>2 DEF At
  <2>3. request'[t].status = s
    BY <2>1, <2>2 DEF RequestRow
  <2> QED
    BY <1>4, <2>3 DEF At
<1>5. ASSUME Ask(u)
      PROVE  \E r \in Minted, q \in Quantity : Pledge(t, r, q)
  <2>1. PICK r \in Minted : \/ CreateLoan(u, r) \/ CreateTrade(u, r)
                            \/ \E q \in Quantity : RequestWithdrawal(u, r, q) \/ Pledge(u, r, q)
    BY <1>5 DEF Ask
  <2>2. ASSUME CreateLoan(u, r) \/ CreateTrade(u, r)
        PROVE  FALSE
    <3>1. PICK kind \in {"loan", "trade"} : \E held, s : request' = [request EXCEPT ![u] =
              [Asked(kind, s, r, receipt[r].quantity) EXCEPT !.receiptId = held]]
      BY <2>2 DEF CreateLoan, CreateTrade, Reserve
    <3>2. PICK held, s : request' = [request EXCEPT ![u] =
              [Asked(kind, s, r, receipt[r].quantity) EXCEPT !.receiptId = held]]
      BY <3>1
    <3>3. [Asked(kind, s, r, receipt[r].quantity) EXCEPT !.receiptId = held].kind = kind
      BY DEF Asked
    <3> QED
      BY <1>3, <3>2, <3>3 DEF At
  <2>3. ASSUME NEW q \in Quantity, RequestWithdrawal(u, r, q)
        PROVE  FALSE
    BY <1>3, <2>3 DEF RequestWithdrawal, Asked, At
  <2>4. ASSUME NEW q \in Quantity, Pledge(u, r, q)
        PROVE  Pledge(t, r, q)
    BY <1>3, <2>4 DEF Pledge
  <2> QED
    BY <2>1, <2>2, <2>3, <2>4
<1>6. ASSUME Settle(u)
      PROVE  FALSE
  <2>1. ASSUME ConfirmPayment(u)
        PROVE  FALSE
    <3>1. PICK held : request' = [request EXCEPT ![u] =
              [[request[u] EXCEPT !.status = "PAID_PENDING_APPROVAL"] EXCEPT !.receiptId = held]]
      BY <2>1 DEF ConfirmPayment, Reserve
    <3>2. request[u] \in RequestRow("withdrawal") /\ request[u].kind = "withdrawal"
      BY <2>1, BookedRows DEF ConfirmPayment, At
    <3> QED
      BY <1>3, <3>1, <3>2 DEF At, RequestRow
  <2>2. ASSUME NEW b \in Client, SettleTrade(u, b)
        PROVE  FALSE
    <3>1. request' = [request EXCEPT ![u] = [request[u] EXCEPT !.status = "SETTLED", !.buyer = b]]
      BY <2>2, PutKeeps DEF SettleTrade
    <3>2. request[u] \in RequestRow("trade") /\ request[u].kind = "trade"
      BY <2>2, BookedRows DEF SettleTrade, At
    <3> QED
      BY <1>3, <3>1, <3>2 DEF At, RequestRow
  <2>3. ASSUME ReleaseLien(u) \/ \E q \in Quantity : ReleaseLienPart(u, q)
        PROVE  FALSE
    BY <1>1, <2>3 DEF ReleaseLien, ReleaseLienPart
  <2>4. ASSUME \/ ApproveWithdrawal(u) \/ RejectWithdrawal(u) \/ CompleteWithdrawal(u)
               \/ ApproveLoan(u) \/ RejectLoan(u) \/ RepayLoan(u) \/ CancelTrade(u)
               \/ AcceptPledge(u) \/ DeclinePledge(u)
        PROVE  FALSE
    BY <1>4, <2>4 DEF ApproveWithdrawal, RejectWithdrawal, CompleteWithdrawal, ApproveLoan,
          RejectLoan, RepayLoan, CancelTrade, AcceptPledge, DeclinePledge, Give, Move
  <2> QED
    BY <1>6, <2>1, <2>2, <2>3, <2>4 DEF Settle
<1> QED
  BY <1>2, <1>5, <1>6

LEMMA StaysBacked ==
    ASSUME BookingAssumption, Scale = 1, BookingInv, PledgesBacked, Handled, Grown
    PROVE  PledgesBacked'
<1>1. ASSUME NEW t \in Txn, At(t, "pledge", "PENDING")', At(t, "pledge", "PENDING")
      PROVE  \E r \in HeldFor(t)' : receipt'[r].status = "HELD_PLEDGE_PENDING"
  <2>1. PICK x \in HeldFor(t) : receipt[x].status = "HELD_PLEDGE_PENDING"
    BY <1>1 DEF PledgesBacked
  <2>2. receipt'[x] = receipt[x]
    BY <1>1, <2>1, PledgeStaysHeld
  <2>3. x \in HeldFor(t)'
    BY <2>1, <2>2 DEF HeldFor, IsHeld, Grown
  <2> QED
    BY <2>1, <2>2, <2>3
<1>2. ASSUME NEW t \in Txn, At(t, "pledge", "PENDING")', ~At(t, "pledge", "PENDING")
      PROVE  \E r \in HeldFor(t)' : receipt'[r].status = "HELD_PLEDGE_PENDING"
  <2>1. PICK r \in Minted, q \in Quantity : Pledge(t, r, q)
    BY <1>2, PledgesBegin
  <2>2. HeldFor(t) = {}
    BY <2>1, NothingHeld DEF Pledge
  <2>3. PICK kind \in Kind : kind = "pledge" /\ HoldOf[kind] = "HELD_PLEDGE_PENDING"
    BY DEF Kind, RequestStatus, HoldOf
  <2>4. Hold(<<"hold", t>>, r, Exactly(q), HoldOf[kind], t) /\ q \in 1..MaxQuantity
    BY <2>1, <2>3 DEF Pledge, Quantity
  <2>5. \E a \in Minted' \ Minted : HeldFor(t)' = {a} /\ receipt'[a].status = HoldOf[kind]
    BY ONLY BookingAssumption, Scale = 1, BookingInv, t \in Txn, r \in Minted, kind \in Kind,
            <2>2, <2>4, HoldBegins
  <2> QED
    BY <2>3, <2>5
<1> QED
  BY <1>1, <1>2 DEF PledgesBacked

LEMMA StaysPaid ==
    ASSUME BookingInv, ReleasedIsPaid, Handled
    PROVE  ReleasedIsPaid'
<1>1. CASE lien' = lien
  BY <1>1 DEF ReleasedIsPaid
<1>2. ASSUME NEW u \in Txn, NEW row, lien' = [lien EXCEPT ![u] = row],
             row.status = "RELEASED" => row.remaining = 0
      PROVE  ReleasedIsPaid'
  <2>1. lien'[u] = row /\ \A t \in Txn \ {u} : lien'[t] = lien[t]
    BY <1>2 DEF BookingInv, Tables
  <2> QED
    BY <1>2, <2>1 DEF ReleasedIsPaid
<1>3. ASSUME NEW u \in Txn, ReleaseLien(u)
      PROVE  ReleasedIsPaid'
  <2> DEFINE row == [lien[u] EXCEPT !.status = "RELEASED", !.remaining = 0]
  <2>1. lien' = [lien EXCEPT ![u] = row]
    BY <1>3 DEF ReleaseLien, BookingInv, Tables
  <2>2. lien[u] \in LienRow
    BY <1>3, LienHolds DEF ReleaseLien, Standing
  <2>3. row.remaining = 0
    BY <2>2 DEF LienRow
  <2> HIDE DEF row
  <2> QED
    BY <1>2, <2>1, <2>3
<1>4. ASSUME NEW u \in Txn, NEW q \in Quantity, ReleaseLienPart(u, q)
      PROVE  ReleasedIsPaid'
  <2>1. \E kept, rest : lien' = [lien EXCEPT ![u] = [status |-> "PARTIALLY_RELEASED",
                                           receiptId |-> kept, remaining |-> rest]]
    BY <1>4 DEF ReleaseLienPart
  <2> QED
    BY <1>2, <2>1
<1>5. ASSUME NEW u \in Txn, AcceptPledge(u)
      PROVE  ReleasedIsPaid'
  <2>1. \E held, n : lien' = [lien EXCEPT ![u] = [status |-> "ACTIVE",
                                           receiptId |-> held, remaining |-> n]]
    BY <1>5 DEF AcceptPledge
  <2> QED
    BY <1>2, <2>1
<1>6. ASSUME NEW u \in Txn, Settle(u)
      PROVE  ReleasedIsPaid'
  BY <1>1, <1>3, <1>4, <1>5, <1>6 DEF Settle, ConfirmPayment, ApproveWithdrawal, RejectWithdrawal,
      CompleteWithdrawal, ApproveLoan, RejectLoan, RepayLoan, CancelTrade, SettleTrade,
      DeclinePledge, Reserve, Give, Move, Alone
<1>7. ASSUME NEW u \in Txn, Ask(u)
      PROVE  ReleasedIsPaid'
  BY <1>1, <1>7 DEF Ask, CreateLoan, CreateTrade, RequestWithdrawal, Pledge, Reserve, Alone
<1> QED
  BY <1>1, <1>6, <1>7 DEF Handled, File, Decide

(* A receipt that is available or on hold is of a tree with its verdict.   *)
LEMMA InUseIsDecided ==
    ASSUME LedgerSound, NEW r \in Minted, receipt[r].status = "ACTIVE"
    PROVE  ~Awaits(receipt[r].root)
<1>1. ~Awaits(r)
  BY DEF Awaits
<1> QED
  BY <1>1 DEF LedgerSound, Descent, AwaitingAreWhole

LEMMA InUseStaysDecided ==
    ASSUME LedgerSound', NEW r \in Minted', receipt'[r].status \in HeldStatus
    PROVE  ~(Awaits(receipt[r].root)')
<1>1. ~(Awaits(r)')
  BY StatusRoles DEF Awaits
<1> QED
  BY <1>1 DEF LedgerSound, Descent, AwaitingAreWhole

(* A request is filed by Ask: on a child just held, or on a receipt that   *)
(* was available.                                                          *)
LEMMA NewRequests ==
    ASSUME BookingInv, Handled, NEW t \in Txn,
           request[t] = NoRequest, request'[t] # NoRequest
    PROVE  LET r == request'[t].receiptId
           IN  \/ r \in Minted' /\ receipt'[r].status \in HeldStatus
               \/ r \in Minted /\ receipt[r].status = "ACTIVE"
<1>1. PICK u \in Txn : Ask(u) \/ Settle(u)
  BY DEF Handled, File, Decide
<1>2. \A row : request' = [request EXCEPT ![u] = row] => u = t /\ request'[t] = row
  BY PutKeeps
<1>3. CASE Settle(u)
  <2>1. request[u].kind # "none" \/ request' = request
    BY <1>3 DEF Settle, ConfirmPayment, ApproveWithdrawal, RejectWithdrawal, CompleteWithdrawal,
        ApproveLoan, RejectLoan, RepayLoan, CancelTrade, SettleTrade, AcceptPledge,
        DeclinePledge, ReleaseLien, ReleaseLienPart, At
  <2>2. \E row : request' = [request EXCEPT ![u] = row] \/ request' = request
    BY <1>3 DEF Settle, ConfirmPayment, ApproveWithdrawal, RejectWithdrawal, CompleteWithdrawal,
        ApproveLoan, RejectLoan, RepayLoan, CancelTrade, SettleTrade, AcceptPledge,
        DeclinePledge, ReleaseLien, ReleaseLienPart, Reserve, Give, Move, Put
  <2> QED
    BY <1>2, <2>1, <2>2 DEF NoRequest
<1>4. CASE Ask(u)
  <2>1. PICK r \in Minted : \/ CreateLoan(u, r) \/ CreateTrade(u, r)
                            \/ \E q \in Quantity : RequestWithdrawal(u, r, q) \/ Pledge(u, r, q)
    BY <1>4 DEF Ask
  <2>2. ASSUME NEW kind, NEW status,
               Reserve(u, kind, r, receipt[r].quantity,
                       Asked(kind, status, r, receipt[r].quantity))
        PROVE  LET x == request'[t].receiptId
               IN  x \in Minted' /\ receipt'[x].status \in HeldStatus
    <3>1. PICK held \in HeldChild(u)' : request' = [request EXCEPT ![u] =
              [Asked(kind, status, r, receipt[r].quantity) EXCEPT !.receiptId = held]]
      BY <2>2 DEF Reserve
    <3>2. request'[t].receiptId = held
      BY <1>2, <3>1 DEF Asked
    <3> QED
      BY <3>1, <3>2 DEF HeldChild, IsHeld
  <2>3. ASSUME NEW q \in Quantity, RequestWithdrawal(u, r, q) \/ Pledge(u, r, q)
        PROVE  request'[t].receiptId \in Minted /\ receipt[request'[t].receiptId].status = "ACTIVE"
    <3>1. receipt[r].status = "ACTIVE" /\ \E kind, status :
              request' = [request EXCEPT ![u] = Asked(kind, status, r, q)]
      BY <2>3 DEF RequestWithdrawal, Pledge, Hold
    <3>2. request'[t].receiptId = r
      BY <1>2, <3>1 DEF Asked
    <3> QED
      BY <3>1, <3>2
  <2> QED
    BY <2>1, <2>2, <2>3 DEF CreateLoan, CreateTrade
<1> QED
  BY <1>1, <1>3, <1>4

LEMMA StaysDecided ==
    ASSUME BookingAssumption, Scale = 1, BookingInv, Traced, AskedOfDecided, Handled,
           Recorded, BookingInv'
    PROVE  AskedOfDecided'
<1>1. LedgerSound /\ LedgerSound' /\ Descent
  BY DEF BookingInv, LedgerSound
<1>2. Decided
  <2>1. CASE UNCHANGED <<ledgerVars, lot>>
    BY <2>1 DEF ledgerVars, Decided, Awaits
  <2>2. ASSUME NEW k \in Key, LedgerStep(k)
        PROVE  Decided
    BY <1>1, <2>2, LedgerKeeps
  <2> QED
    BY <2>1, <2>2, HandledIsAStep
<1>3. \A s \in Minted : ~Awaits(s) => ~(Awaits(s)')
  BY <1>2 DEF Decided
<1>4. ASSUME NEW t \in Txn, request[t] # NoRequest
      PROVE  ~(Awaits(receipt[request[t].receiptId].root)')
  <2>1. request[t].receiptId \in Minted /\ RowKept(t)
    BY <1>4 DEF BookingInv, Booked, RowsTyped, RequestRow, Recorded
  <2>2. /\ receipt[request[t].receiptId].root \in Minted
        /\ receipt'[request'[t].receiptId].root = receipt[request[t].receiptId].root
    BY <1>1, <1>4, <2>1 DEF Descent, RowKept
  <2> QED
    BY <1>3, <1>4, <2>2 DEF AskedOfDecided, Awaits
<1>5. ASSUME NEW t \in Txn, request[t] = NoRequest, request'[t] # NoRequest
      PROVE  ~(Awaits(receipt[request[t].receiptId].root)')
  <2> DEFINE x == request'[t].receiptId
  <2>1. CASE x \in Minted' /\ receipt'[x].status \in HeldStatus
    BY <1>1, <2>1, InUseStaysDecided DEF Awaits
  <2>2. CASE x \in Minted /\ receipt[x].status = "ACTIVE"
    <3>1. ~Awaits(receipt[x].root) /\ receipt[x].root \in Minted
      BY <1>1, <2>2, InUseIsDecided DEF Descent
    <3>2. receipt'[x].root = receipt[x].root
      BY <2>2 DEF Recorded, Grown, SameLineage
    <3> QED
      BY <1>3, <3>1, <3>2 DEF Awaits
  <2> QED
    BY <1>5, <2>1, <2>2, NewRequests
<1> QED
  BY <1>4, <1>5 DEF AskedOfDecided

LEMMA HandledKeepsAccounts ==
    ASSUME BookingAssumption, Scale = 1, BookingInv, Traced, Accounted, Handled
    PROVE  Accounted'
<1>1. BookingInv' /\ Recorded /\ Grown
  BY HandledIsSound DEF Sound, Recorded
<1>2. UNCHANGED <<ledgerVars, lot>> \/ \E k \in BookingKey : Calls(k)
  BY HandlerCalls
<1>3. (OwnJournal /\ Placed /\ Sourced)'
  <2>1. CASE UNCHANGED <<ledgerVars, lot>>
    BY <2>1 DEF Accounted, OwnJournal, Placed, Sourced, ledgerVars, Minted
  <2>2. ASSUME NEW k \in BookingKey, Calls(k)
        PROVE  (OwnJournal /\ Placed /\ Sourced)'
    <3>1. OwnJournal'
      BY <2>2, CallsAreSteps DEF Accounted, OwnJournal
    <3> QED
      BY <1>1, <2>2, <3>1, StaysPlaced DEF Accounted
  <2> QED
    BY <1>2, <2>1, <2>2
<1>4. HeldInPlace'
  BY <1>1, <1>2, StaysInPlace DEF Accounted
<1> QED
  BY <1>1, <1>3, <1>4, StaysBacked, StaysPaid, StaysDecided DEF Accounted

(* A correction moves a deposit to another place, with nothing on hold.    *)
LEMMA CorrectionKeepsAccounts ==
    ASSUME Scale = 1, BookingInv, Accounted, Correction
    PROVE  Accounted'
<1>1. PICK r \in Minted : Corrects(r)
  BY CorrectIs DEF Correction
<1>2. /\ Minted' = Minted /\ event' = event /\ request' = request /\ lien' = lien
      /\ \A s \in Minted : SameButSize(receipt[s], receipt'[s])
      /\ \A s \in Minted : lot[s] \in Lot => lot'[s] \in Lot
  BY <1>1 DEF Corrects, Minted
<1>3. OwnJournal' /\ Placed' /\ Sourced' /\ ReleasedIsPaid'
  BY <1>2 DEF Accounted, OwnJournal, Placed, Sourced, ReleasedIsPaid, SameButSize
<1>4. HeldInPlace'
  <2>1. ASSUME NEW s \in Minted, IsHeld(s)
        PROVE  request[receipt[s].sourceTxn].receiptId \in Minted
    <3>1. receipt[s].sourceTxn \in Txn /\ request[receipt[s].sourceTxn].kind \in Kind
      BY <2>1, HeldHasARow
    <3>2. "none" \notin Kind
      BY DEF Kind, RequestStatus
    <3> QED
      BY <3>1, <3>2, BookedRows
  <2> QED
    BY <1>2, <2>1 DEF Accounted, HeldInPlace, IsHeld, SameButSize
<1>5. PledgesBacked'
  <2>1. \A t \in Txn : HeldFor(t)' = HeldFor(t) /\ HeldFor(t) \subseteq Minted
    BY <1>2 DEF HeldFor, IsHeld, SameButSize
  <2> QED
    BY <1>2, <2>1 DEF Accounted, PledgesBacked, At, SameButSize
<1>6. AskedOfDecided'
  <2>1. ASSUME NEW t \in Txn, request[t] # NoRequest
        PROVE  /\ request[t].receiptId \in Minted
               /\ receipt[request[t].receiptId].root \in Minted
    BY <2>1 DEF BookingInv, Booked, RowsTyped, RequestRow, LedgerSound, Descent
  <2> QED
    BY <1>2, <2>1 DEF Accounted, AskedOfDecided, Awaits, SameButSize
<1> QED
  BY <1>3, <1>4, <1>5, <1>6 DEF Accounted

LEMMA NextKeepsAccounts ==
    ASSUME BookingAssumption, Scale = 1, BookingInv, Traced, Accounted, BookingNext
    PROVE  Accounted'
  BY NextIs, HandledKeepsAccounts, CorrectionKeepsAccounts

(* Every receipt has a place and the event it came from, what is on hold   *)
(* is the client's, a pledge that awaits its financier has its goods on    *)
(* hold, a released lien has nothing left, and requests stand on approved  *)
(* trees (deposits, pledges and liens services, InventoryLedgerService).   *)
THEOREM AccountedInvariance ==
    ASSUME BookingAssumption, Scale = 1
    PROVE  Spec => []Accounted
<1>1. BookingInit => Accounted
  BY DEF BookingInit, LedgerInit, Accounted, OwnJournal, Placed, Sourced, HeldInPlace,
      PledgesBacked, ReleasedIsPaid, AskedOfDecided, Minted, At, NoRequest, NoLien
<1>2. BookingInv /\ Traced /\ Accounted /\ [BookingNext]_bookingVars => Accounted'
  <2>1. ASSUME Accounted, UNCHANGED bookingVars
        PROVE  Accounted'
    BY <2>1 DEF bookingVars, ledgerVars, Accounted, OwnJournal, Placed, Sourced, HeldInPlace,
        PledgesBacked, ReleasedIsPaid, AskedOfDecided, Awaits, HeldFor, Minted, IsHeld, At
  <2> QED
    BY <2>1, NextKeepsAccounts
<1> QED
  BY <1>1, <1>2, BookingInvariance, TracedInvariance, PTL DEF Spec

(* The correction of a deposit rewrites its line, which awaits a verdict,  *)
(* and no other: the requests stand on other trees.                        *)
LEMMA StatementIsCorrected ==
    ASSUME Scale = 1, BookingInv, Accounted, Correction, NEW c \in Client,
           NEW line \in Statement(c)
    PROVE  \E kept \in Statement(c)' :
              /\ kept.type = line.type /\ kept.id = line.id /\ kept.side = line.side
              /\ AwaitsVerdict(line) \/ kept = line
<1>1. PICK r \in Minted : Corrects(r)
  BY CorrectIs DEF Correction
<1>2. /\ Minted' = Minted /\ request' = request
      /\ \A s \in Minted : SameButSize(receipt[s], receipt'[s])
      /\ \A s \in Minted \ {r} : receipt'[s] = receipt[s] /\ lot'[s] = lot[s]
      /\ Awaits(r) /\ Descent
  BY <1>1 DEF Corrects, Minted, BookingInv, LedgerSound
<1>3. ASSUME NEW d \in Roots \cap Own(c), line = DepositLine(d)
      PROVE  /\ DepositLine(d)' \in Statement(c)'
             /\ d = r \/ DepositLine(d)' = line
  <2>1. d \in Minted /\ receipt[d].parent = NoReceipt /\ receipt[d].owner = c /\ receipt[d].root = d
    BY <1>2 DEF Roots, Own, Descent
  <2>2. d \in Roots' \cap Own(c)'
    BY <1>2, <2>1 DEF Roots, Own, SameButSize
  <2> QED
    BY <1>2, <1>3, <2>1, <2>2 DEF Statement, DepositLine
<1>4. ASSUME NEW t \in Txn \ Filed("pledge"), c \in Parties(t), line = RequestLine(t, c)
      PROVE  line \in Statement(c)'
  <2>1. request[t] # NoRequest
    BY <1>4, NoneAssumption DEF Parties, NoRequest
  <2> DEFINE x == request[t].receiptId
  <2>2. x \in Minted /\ receipt[x].root \in Minted /\ ~Awaits(receipt[x].root)
    BY <1>2, <2>1 DEF BookingInv, Booked, RowsTyped, RequestRow, Descent, Accounted, AskedOfDecided
  <2>3. receipt[x].root # r
    BY <1>2, <2>2
  <2>4. x # r
    BY <1>1, <1>2, <2>3 DEF Corrects, Descent
  <2>5. t \in Txn \ Filed("pledge")' /\ c \in Parties(t)'
    BY <1>2, <1>4 DEF Filed, Parties
  <2>6. RequestLine(t, c)' = RequestLine(t, c)
    BY <1>2, <2>2, <2>3, <2>4 DEF RequestLine, Side, ShownQuantity
  <2> QED
    BY <1>4, <2>5, <2>6 DEF Statement
<1>5. CASE \E d \in Roots \cap Own(c) : line = DepositLine(d)
  <2>1. PICK d \in Roots \cap Own(c) : line = DepositLine(d)
    BY <1>5
  <2>2. /\ DepositLine(d)'.type = line.type /\ DepositLine(d)'.id = line.id
        /\ DepositLine(d)'.side = line.side
    BY <2>1 DEF DepositLine
  <2>3. d = r => AwaitsVerdict(line)
    BY <1>2, <2>1 DEF DepositLine, AwaitsVerdict, Awaits
  <2> QED
    BY <1>3, <2>1, <2>2, <2>3
<1>6. CASE \E t \in Txn \ Filed("pledge") : c \in Parties(t) /\ line = RequestLine(t, c)
  BY <1>4, <1>6
<1> QED
  BY <1>5, <1>6 DEF Statement

(* A transaction once listed stays listed with the quantity and the place  *)
(* it had (me.service, warehouse-manager.service: the transaction lists of *)
(* a client); only a deposit that awaits its verdict is on record with     *)
(* figures that a correction can replace.                                  *)
THEOREM HistoryIsKept ==
    ASSUME BookingAssumption, Scale = 1
    PROVE  Spec => HistoryKept
<1> DEFINE Kept(c, line) ==
              \E kept \in Statement(c)' :
                  /\ kept.type = line.type /\ kept.id = line.id /\ kept.side = line.side
                  /\ AwaitsVerdict(line) \/ kept = line
<1>1. BookingInv /\ Accounted /\ [BookingNext]_bookingVars =>
         [\A c \in Client : \A line \in Statement(c) : Kept(c, line)]_bookingVars
  <2>1. ASSUME BookingInv, Handled, NEW c \in Client, NEW line \in Statement(c)
        PROVE  Kept(c, line)
    <3>1. Recorded
      BY <2>1, HandledIsSound DEF Sound
    <3> QED
      BY <2>1, <3>1, StatementStays
  <2>2. BookingInv /\ Accounted /\ Correction =>
            \A c \in Client : \A line \in Statement(c) : Kept(c, line)
    BY StatementIsCorrected
  <2> HIDE DEF Kept
  <2> QED
    BY <2>1, <2>2, NextIs
<1> QED
  BY <1>1, BookingInvariance, AccountedInvariance, PTL DEF Spec, HistoryKept

-----------------------------------------------------------------------------
(* Figures added up.                                                       *)

(* A figure for each element is a column of a table.                       *)
LEMMA SumOfIs ==
    ASSUME NEW f, IsFiniteSet(DOMAIN f), NEW table,
           \A x \in DOMAIN f : f[x] \in Int /\ table[x].quantity = f[x]
    PROVE  SumOf(f) = Amount(table, DOMAIN f)
<1> DEFINE S == DOMAIN f
           Is(g) == g = [s \in SUBSET S |->
                       IF s = {} THEN 0
                       ELSE f[CHOOSE x \in s : TRUE] + g[s \ {CHOOSE x \in s : TRUE}]]
           it == CHOOSE g : Is(g)
<1>1. SumOf(f) = it[S]
  BY DEF SumOf, MapThenSumSet, MapThenFoldSet
<1>2. PICK sum \in [SUBSET S -> Int] :
          Adds(sum, table, SUBSET S) /\ \A s \in SUBSET S : Amount(table, s) = sum[s]
  <2>1. \A t \in S : table[t].quantity \in Int
    OBVIOUS
  <2> QED
    BY <2>1, AmountAdds
<1>3. \A s \in SUBSET S : s # {} => table[First(s)].quantity = f[First(s)]
  <2>1. \A s \in SUBSET S : s # {} => First(s) \in S
    BY DEF First
  <2> QED
    BY <2>1
<1>4. Is(sum)
  BY <1>2, <1>3 DEF Adds, First
<1>5. Is(it)
  <2> HIDE DEF Is
  <2> QED
    BY <1>4, Zenon
<1> HIDE DEF it
<1>6. Adds(it, table, SUBSET S)
  BY <1>3, <1>5 DEF Adds, First
<1>7. it[S] = sum[S]
  BY <1>2, <1>6, SumUnique
<1> QED
  BY <1>1, <1>2, <1>7

(* What is grouped by a key is all there.                                  *)
LEMMA Grouped ==
    ASSUME NEW table, NEW X, IsFiniteSet(X), \A x \in X : table[x].quantity \in Int,
           NEW g, IsFiniteSet(DOMAIN g), NEW key, \A x \in X : key[x] \in DOMAIN g,
           \A i \in DOMAIN g : g[i] = Amount(table, {x \in X : key[x] = i})
    PROVE  SumOf(g) = Amount(table, X)
<1> DEFINE I == DOMAIN g
           sums == [i \in I |-> [quantity |-> g[i]]]
           In1(s) == {x \in X : key[x] \in s}
           Bad == {s \in SUBSET I : Amount(sums, s) # Amount(table, In1(s))}
<1>1. \A Y \in SUBSET X : /\ IsFiniteSet(Y) /\ Amount(table, Y) \in Int
                          /\ \A x \in Y : table[x].quantity \in Int
  BY FS_Subset, AmountWithout
<1>2. \A i \in I : g[i] \in Int /\ sums[i].quantity = g[i]
  BY <1>1
<1>3. SumOf(g) = Amount(sums, I)
  BY <1>2, SumOfIs
<1> HIDE DEF sums
<1>4. Bad = {}
  <2>1. SUFFICES ASSUME Bad # {} PROVE FALSE
    OBVIOUS
  <2>2. PICK s \in Bad : \A i \in s : s \ {i} \notin Bad
    BY <2>1, SmallestSubset
  <2>3. s \in SUBSET I /\ IsFiniteSet(s) /\ \A i \in s : sums[i].quantity \in Int
    BY <1>2, FS_Subset
  <2>4. PICK i : i \in s
    <3>1. ASSUME s = {} PROVE FALSE
      <4>1. In1(s) = {}
        BY <3>1
      <4>2. Amount(sums, s) = 0 /\ Amount(table, In1(s)) = 0
        BY <3>1, <4>1, AmountOfNone
      <4> QED
        BY <4>2
    <3> QED
      BY <3>1
  <2>5. PICK u \in SUBSET I : u = s \ {i}
    BY <2>3
  <2>6. Amount(sums, u) = Amount(table, In1(u))
    BY <2>2, <2>4, <2>5
  <2>7. Amount(sums, s) = Amount(sums, u) + sums[i].quantity
    BY <2>3, <2>4, <2>5, AmountWithout
  <2>8. PICK A \in SUBSET X, B \in SUBSET X : A = In1(u) /\ B = {x \in X : key[x] = i}
    OBVIOUS
  <2>9. In1(s) = A \cup B /\ A \cap B = {}
    BY <2>4, <2>5, <2>8
  <2>10. Amount(table, A \cup B) = Amount(table, A) + Amount(table, B)
    BY <1>1, <2>9, AmountOfBoth
  <2>11. sums[i].quantity = Amount(table, B)
    BY <1>2, <2>3, <2>4, <2>8
  <2> QED
    BY <2>6, <2>7, <2>8, <2>9, <2>10, <2>11
<1>5. In1(I) = X
  OBVIOUS
<1> HIDE DEF In1
<1>6. Amount(sums, I) = Amount(table, In1(I))
  BY <1>4
<1> QED
  BY <1>3, <1>5, <1>6

(* To count is to add up ones.                                             *)
LEMMA CountIs ==
    ASSUME NEW X, IsFiniteSet(X), NEW table, \A x \in X : table[x].quantity = 1
    PROVE  Amount(table, X) = Cardinality(X)
<1> DEFINE Bad == {s \in SUBSET X : Amount(table, s) # Cardinality(s)}
<1>1. SUFFICES ASSUME Bad # {} PROVE FALSE
  OBVIOUS
<1>2. PICK s \in Bad : \A x \in s : s \ {x} \notin Bad
  BY <1>1, SmallestSubset
<1>3. IsFiniteSet(s) /\ s \in SUBSET X /\ \A x \in s : table[x].quantity \in Int
  BY FS_Subset
<1>4. PICK x : x \in s
  BY AmountOfNone, FS_EmptySet
<1>5. PICK u \in SUBSET X : u = s \ {x}
  BY <1>3
<1>6. Amount(table, u) = Cardinality(u)
  BY <1>2, <1>4, <1>5
<1>7. Amount(table, s) = Amount(table, u) + table[x].quantity
  BY <1>3, <1>4, <1>5, AmountWithout
<1>8. Cardinality(u) = Cardinality(s) - 1 /\ Cardinality(s) \in Nat
  BY <1>3, <1>4, <1>5, FS_RemoveElement, FS_CardinalityType
<1> QED
  BY <1>3, <1>4, <1>6, <1>7, <1>8

LEMMA GroupedCount ==
    ASSUME NEW X, IsFiniteSet(X), NEW g, IsFiniteSet(DOMAIN g),
           NEW key, \A x \in X : key[x] \in DOMAIN g,
           \A i \in DOMAIN g : g[i] = Cardinality({x \in X : key[x] = i})
    PROVE  SumOf(g) = Cardinality(X)
<1> DEFINE table == [x \in X |-> [quantity |-> 1]]
<1>1. \A x \in X : table[x].quantity = 1 /\ table[x].quantity \in Int
  OBVIOUS
<1> HIDE DEF table
<1>2. \A Y \in SUBSET X : Amount(table, Y) = Cardinality(Y)
  <2>1. ASSUME NEW Y \in SUBSET X
        PROVE  Amount(table, Y) = Cardinality(Y)
    <3>1. IsFiniteSet(Y) /\ \A x \in Y : table[x].quantity = 1
      BY <1>1, FS_Subset
    <3> QED
      BY ONLY <3>1, CountIs
  <2> QED
    BY <2>1
<1>3. \A i \in DOMAIN g : g[i] = Amount(table, {x \in X : key[x] = i})
  <2>1. \A i : {x \in X : key[x] = i} \in SUBSET X
    OBVIOUS
  <2> QED
    BY <1>2, <2>1
<1>4. SumOf(g) = Amount(table, X)
  BY <1>1, <1>3, Grouped
<1> QED
  BY <1>2, <1>4

(* Rows that stand for nothing add nothing.                                *)
LEMMA ZerosAddNothing ==
    ASSUME NEW table, NEW X, IsFiniteSet(X), \A x \in X : table[x].quantity = 0
    PROVE  Amount(table, X) = 0
<1> DEFINE Bad == {s \in SUBSET X : Amount(table, s) # 0}
<1>1. SUFFICES ASSUME Bad # {} PROVE FALSE
  OBVIOUS
<1>2. PICK s \in Bad : \A x \in s : s \ {x} \notin Bad
  BY <1>1, SmallestSubset
<1>3. IsFiniteSet(s) /\ s \in SUBSET X /\ \A x \in s : table[x].quantity \in Int
  BY FS_Subset
<1>4. PICK x : x \in s
  BY AmountOfNone
<1>5. PICK u \in SUBSET X : u = s \ {x}
  BY <1>3
<1>6. Amount(table, u) = 0 /\ table[x].quantity = 0
  BY <1>2, <1>3, <1>4, <1>5
<1>7. Amount(table, s) = Amount(table, u) + table[x].quantity
  BY <1>3, <1>4, <1>5, AmountWithout
<1> QED
  BY <1>6, <1>7

-----------------------------------------------------------------------------
(* Receipts grouped by owner, by place, by warehouse, by commodity.        *)
Finite == IsFiniteSet(Client) /\ IsFiniteSet(Txn) /\ IsFiniteSet(Lot)

LEMMA FinitePlaces ==
    ASSUME IsFiniteSet(Lot)
    PROVE  /\ IsFiniteSet(Warehouse) /\ IsFiniteSet(Commodity)
           /\ \A m : IsFiniteSet({place \in Lot : place[2] = m})
<1> DEFINE first == [place \in Lot |-> place[1]]
           second == [place \in Lot |-> place[2]]
<1>1. first \in Surjection(Lot, Warehouse) /\ second \in Surjection(Lot, Commodity)
  BY DEF Surjection, Warehouse, Commodity
<1>2. \A m : {place \in Lot : place[2] = m} \subseteq Lot
  OBVIOUS
<1> QED
  BY <1>1, <1>2, FS_Surjection, FS_Subset

(* Every receipt lies somewhere and is somebody's.                         *)
LEMMA ReceiptsLie ==
    ASSUME BookingInv, Accounted, NEW r \in Minted
    PROVE  /\ lot[receipt[r].root] \in Lot
           /\ WarehouseOf(r) \in Warehouse /\ CommodityOf(r) \in Commodity
           /\ receipt[r].owner \in Client
<1>1. lot[receipt[r].root] \in Lot
  BY DEF Accounted, Placed
<1>2. receipt[r].owner \in Client
  BY BookedRows DEF Row
<1> QED
  BY <1>1, <1>2 DEF Warehouse, Commodity, WarehouseOf, CommodityOf

LEMMA ReceiptsGrouped ==
    ASSUME BookingInv, NEW X \in SUBSET Minted, NEW g, IsFiniteSet(DOMAIN g),
           NEW key, \A x \in X : key[x] \in DOMAIN g,
           \A i \in DOMAIN g : g[i] = Amount(receipt, {x \in X : key[x] = i})
    PROVE  SumOf(g) = Amount(receipt, X)
  BY ReceiptsAddUp, Grouped

LEMMA ByOwner ==
    ASSUME BookingInv, Accounted, IsFiniteSet(Client), NEW X \in SUBSET Minted, NEW g,
           DOMAIN g = Client, \A c \in Client : g[c] = Amount(receipt, X \cap Own(c))
    PROVE  SumOf(g) = Amount(receipt, X)
<1> DEFINE key == [x \in X |-> receipt[x].owner]
<1>1. \A x \in X : key[x] \in DOMAIN g
  BY ReceiptsLie
<1>2. \A c \in Client : {x \in X : key[x] = c} = X \cap Own(c)
  BY DEF Own
<1> HIDE DEF key
<1>3. \A c \in DOMAIN g : g[c] = Amount(receipt, {x \in X : key[x] = c})
  BY <1>2
<1> QED
  BY <1>1, <1>3, ReceiptsGrouped

LEMMA ByPlace ==
    ASSUME BookingInv, Accounted, IsFiniteSet(Lot), NEW X \in SUBSET Minted, NEW m, NEW g,
           DOMAIN g = {place \in Lot : place[2] = m},
           \A place \in DOMAIN g : g[place] = Amount(receipt, Pile(X, place))
    PROVE  SumOf(g) = Amount(receipt, OfCommodity(m, X))
<1> DEFINE Y == OfCommodity(m, X)
           key == [x \in Y |-> lot[receipt[x].root]]
<1>1. Y \in SUBSET Minted /\ \A x \in Y : key[x] \in DOMAIN g
  BY ReceiptsLie DEF OfCommodity, CommodityOf
<1>2. \A place \in DOMAIN g : {x \in Y : key[x] = place} = Pile(X, place)
  BY DEF OfCommodity, CommodityOf, Pile
<1>3. IsFiniteSet(DOMAIN g)
  BY FinitePlaces
<1> HIDE DEF Y, key
<1>4. \A place \in DOMAIN g : g[place] = Amount(receipt, {x \in Y : key[x] = place})
  BY <1>2
<1>5. SumOf(g) = Amount(receipt, Y)
  BY <1>1, <1>3, <1>4, ReceiptsGrouped
<1> QED
  BY <1>5 DEF Y

LEMMA ByWarehouse ==
    ASSUME BookingInv, Accounted, IsFiniteSet(Lot), NEW X \in SUBSET Minted, NEW g,
           DOMAIN g = Warehouse,
           \A w \in Warehouse : g[w] = Amount(receipt, {r \in X : WarehouseOf(r) = w})
    PROVE  SumOf(g) = Amount(receipt, X)
<1> DEFINE key == [x \in X |-> WarehouseOf(x)]
<1>1. \A x \in X : key[x] \in DOMAIN g
  BY ReceiptsLie
<1>2. \A w \in Warehouse : {x \in X : key[x] = w} = {r \in X : WarehouseOf(r) = w}
  OBVIOUS
<1>3. IsFiniteSet(DOMAIN g)
  BY FinitePlaces
<1> HIDE DEF key
<1>4. \A w \in DOMAIN g : g[w] = Amount(receipt, {x \in X : key[x] = w})
  BY <1>2
<1> QED
  BY <1>1, <1>3, <1>4, ReceiptsGrouped

LEMMA ByCommodity ==
    ASSUME BookingInv, Accounted, IsFiniteSet(Lot), NEW X \in SUBSET Minted, NEW g,
           DOMAIN g = Commodity,
           \A m \in Commodity : g[m] = Amount(receipt, OfCommodity(m, X))
    PROVE  SumOf(g) = Amount(receipt, X)
<1> DEFINE key == [x \in X |-> CommodityOf(x)]
<1>1. \A x \in X : key[x] \in DOMAIN g
  BY ReceiptsLie
<1>2. \A m \in Commodity : {x \in X : key[x] = m} = OfCommodity(m, X)
  BY DEF OfCommodity
<1>3. IsFiniteSet(DOMAIN g)
  BY FinitePlaces
<1> HIDE DEF key
<1>4. \A m \in DOMAIN g : g[m] = Amount(receipt, {x \in X : key[x] = m})
  BY <1>2
<1> QED
  BY <1>1, <1>3, <1>4, ReceiptsGrouped

(* A commodity that a breakdown does not list has nothing.                 *)
LEMMA EntryIs ==
    ASSUME NEW X, NEW m
    PROVE  Entry(PerCommodity(X), m) = Amount(receipt, OfCommodity(m, X))
<1>1. CASE m \in {CommodityOf(r) : r \in X}
  BY <1>1, TotalIs DEF Entry, PerCommodity
<1>2. CASE m \notin {CommodityOf(r) : r \in X}
  <2>1. OfCommodity(m, X) = {}
    BY <1>2 DEF OfCommodity
  <2>2. Amount(receipt, OfCommodity(m, X)) = 0
    BY <2>1, AmountOfNone
  <2> QED
    BY <1>2, <2>2 DEF Entry, PerCommodity
<1> QED
  BY <1>1, <1>2

(* The quantities of requests that stand for receipts, one each.           *)
LEMMA AskedIs ==
    ASSUME BookingInv, NEW R \in SUBSET Minted, NEW S, NEW f,
           \A t \in S : f[t] \in R /\ receipt[f[t]].quantity = ShownQuantity(t),
           \A t, u \in S : f[t] = f[u] => t = u,
           \A r \in R : \E t \in S : f[t] = r
    PROVE  AskedFor(S) = Amount(receipt, R)
<1> DEFINE g == [t \in S |-> ShownQuantity(t)]
           table == [t \in S |-> [quantity |-> ShownQuantity(t)]]
<1>1. \A t \in S : g[t] \in Int /\ table[t].quantity = g[t] /\ receipt[f[t]].quantity = table[t].quantity
  BY ReceiptsAddUp
<1>2. DOMAIN g = S /\ AskedFor(S) = SumOf(g)
  BY DEF AskedFor
<1> HIDE DEF g, table
<1>3. IsFiniteSet(S)
  <2>1. \A t \in S : f[t] \in R
    OBVIOUS
  <2> QED
    BY <2>1, OneToOne
<1>4. SumOf(g) = Amount(table, S)
  BY <1>1, <1>2, <1>3, SumOfIs
<1>5. Amount(table, S) = Amount(receipt, R)
  <2>1. \A t \in S : f[t] \in R /\ receipt[f[t]].quantity = table[t].quantity
    BY <1>1
  <2> QED
    BY <2>1, RowsStandForReceipts
<1> QED
  BY <1>2, <1>4, <1>5

(* What remains of liens that stand is what is under lien.                 *)
LEMMA RemainsStandForReceipts ==
    ASSUME BookingInv, NEW R \in SUBSET In({"HELD_LIEN"}), NEW S,
           S = {t \in StandingLiens : lien[t].receiptId \in R}
    PROVE  /\ MapThenSumSet(LAMBDA t : lien[t].remaining, S) = Amount(receipt, R)
           /\ IsFiniteSet(S) /\ Cardinality(S) = Cardinality(R)
<1> DEFINE f == [t \in S |-> lien[t].receiptId]
           table == [t \in S |-> [quantity |-> lien[t].remaining]]
<1>1. /\ \A t \in S : /\ f[t] \in R /\ receipt[f[t]].quantity = table[t].quantity
                      /\ table[t].quantity = lien[t].remaining
                      /\ f[t] = lien[t].receiptId /\ receipt[f[t]].sourceTxn = t
      /\ \A r \in R : \E t \in S : f[t] = r
  BY LiensAreReceipts
<1>2. R \in SUBSET Minted
  BY DEF In
<1> HIDE DEF f, table
<1>3. \A t, u \in S : f[t] = f[u] => t = u
  BY <1>1
<1>4. IsFiniteSet(S) /\ Cardinality(S) = Cardinality(R)
  <2>1. \A t \in S : f[t] \in R
    BY <1>1
  <2>2. \A r \in R : \E t \in S : f[t] = r
    BY <1>1
  <2> QED
    BY ONLY BookingInv, <1>2, <1>3, <2>1, <2>2, OneToOne
<1>5. Amount(table, S) = Amount(receipt, R)
  BY ONLY BookingInv, <1>1, <1>2, <1>3, RowsStandForReceipts
<1>6. \A t \in S : lien[t].remaining \in Int /\ table[t].quantity = lien[t].remaining
  <2>1. \A r \in R : receipt[r].quantity \in Int
    BY <1>2, ReceiptsAddUp
  <2> QED
    BY <1>1, <2>1
<1>7. MapThenSumSet(LAMBDA t : lien[t].remaining, S) = Amount(table, S)
  BY <1>4, <1>6, RemainsAre
<1> QED
  BY <1>4, <1>5, <1>7

-----------------------------------------------------------------------------
(* The wizard.                                                             *)

LEMMA ActiveIsApproved ==
    ASSUME BookingInv, NEW r \in In({"ACTIVE"})
    PROVE  receipt[r].approval = "APPROVED" /\ ~receipt[r].isParent
  BY DEF In, BookingInv, LedgerSound, RowInv, RowsSettled, Settled, LedgerInv, TreeShape

LEMMA EligibleIsOffered ==
    ASSUME Finite, BookingInv, Accounted
    PROVE  EligibleIsAvailable
<1> SUFFICES ASSUME NEW c \in Client, NEW m \in Commodity
             PROVE  LET offered == SumOf([w \in InventoryWarehouses(c) |->
                                  LET stock == InventoryCommodities(c, w)
                                  IN  IF m \in DOMAIN stock THEN stock[m] ELSE 0])
                    IN  offered = Available(c, m) /\ DashboardActive(c, m) = Available(c, m)
  BY DEF EligibleIsAvailable
<1> DEFINE X == {r \in Own(c) \cap In({"ACTIVE"}) : CommodityOf(r) = m}
           key == [x \in X |-> WarehouseOf(x)]
           g == [w \in InventoryWarehouses(c) |->
                   LET stock == InventoryCommodities(c, w)
                   IN  IF m \in DOMAIN stock THEN stock[m] ELSE 0]
<1>1. Eligible(c) = Own(c) \cap In({"ACTIVE"})
  BY ActiveIsApproved DEF Eligible
<1>2. X = {r \in Own(c) \cap In({"ACTIVE"}) : receipt[r].approval = "APPROVED" /\ CommodityOf(r) = m}
  BY ActiveIsApproved
<1>3. Available(c, m) = Amount(receipt, X) /\ DashboardActive(c, m) = Amount(receipt, X)
  BY <1>2, TotalIs DEF Available, DashboardActive
<1>4. X \in SUBSET Minted /\ \A x \in X : key[x] \in InventoryWarehouses(c) /\ key[x] = WarehouseOf(x)
  BY <1>1 DEF In, InventoryWarehouses
<1>5. IsFiniteSet(InventoryWarehouses(c))
  <2>1. InventoryWarehouses(c) \subseteq Warehouse
    BY <1>1, ReceiptsLie DEF In, InventoryWarehouses
  <2> QED
    BY <2>1, FinitePlaces, FS_Subset DEF Finite
<1>6. ASSUME NEW w \in InventoryWarehouses(c)
      PROVE  g[w] = Amount(receipt, {x \in X : key[x] = w})
  <2> DEFINE Y == {r \in Eligible(c) : WarehouseOf(r) = w /\ CommodityOf(r) = m}
             listed == {CommodityOf(r) : r \in {x \in Eligible(c) : WarehouseOf(x) = w}}
  <2>1. Y = {x \in X : key[x] = w}
    BY <1>1, <1>4
  <2>2. DOMAIN InventoryCommodities(c, w) = listed
    BY DEF InventoryCommodities
  <2>3. m \in listed => InventoryCommodities(c, w)[m] = Total(Y)
    BY DEF InventoryCommodities
  <2>4. g[w] = IF m \in listed THEN Total(Y) ELSE 0
    BY <2>2, <2>3
  <2>5. m \notin listed => Y = {}
    OBVIOUS
  <2>6. Y = {} => Amount(receipt, Y) = 0
    BY AmountOfNone
  <2> QED
    BY <2>1, <2>4, <2>5, <2>6, TotalIs
<1>7. DOMAIN g = InventoryWarehouses(c)
  OBVIOUS
<1>8. SumOf(g) = Amount(receipt, X)
  <2> HIDE DEF g, key, X
  <2> QED
    BY <1>4, <1>5, <1>6, <1>7, ReceiptsGrouped
<1> QED
  BY <1>3, <1>8

-----------------------------------------------------------------------------
(* The lists of receipts.                                                  *)
GroupOf(status) == IF status \in ClosedStatus THEN "CANCELLED"
                   ELSE IF status = "ACTIVE" THEN "ACTIVE" ELSE "LIENED"

LEMMA OneGroupEach ==
    /\ Group = {"ACTIVE", "LIENED", "CANCELLED"} /\ "ALL" \notin Group /\ IsFiniteSet(Group)
    /\ \A g \in Group : \A status \in Status :
          status \in StatusesForGroup(g) <=> g = GroupOf(status)
    /\ \A status : GroupOf(status) \in Group
<1>1. IsFiniteSet(Group)
  <2>1. Group = (({} \cup {"ACTIVE"}) \cup {"LIENED"}) \cup {"CANCELLED"}
    BY DEF Group
  <2> QED
    BY <2>1, FS_EmptySet, FS_AddElement
<1>2. Group = {"ACTIVE", "LIENED", "CANCELLED"} /\ "ALL" \notin Group
  BY DEF Group
<1>3. \A status : GroupOf(status) \in Group
  BY <1>2 DEF GroupOf
<1>4. ASSUME NEW status \in Status
      PROVE  \A g \in Group : status \in StatusesForGroup(g) <=> g = GroupOf(status)
  <2>1. /\ StatusesForGroup("ACTIVE") = {"ACTIVE"}
        /\ StatusesForGroup("LIENED") = {"PENDING_APPROVAL"} \cup HeldStatus
        /\ StatusesForGroup("CANCELLED") = ClosedStatus
    BY DEF StatusesForGroup
  <2> QED
    BY <1>2, <2>1 DEF GroupOf, Status, HeldStatus, ClosedStatus
<1> QED
  BY <1>1, <1>2, <1>3, <1>4

LEMMA ScopesAre ==
    ASSUME BookingInv, Accounted
    PROVE  /\ Received(Warehouse) = Minted
           /\ \A S \in Scopes : S \subseteq Warehouse
           /\ Warehouse \in Scopes
  BY ReceiptsLie DEF Received, Scopes

LEMMA ListsAreTheSame ==
    ASSUME Finite, BookingInv, Accounted
    PROVE  ListsAgree
<1> DEFINE rows(approval) == AdminReceipts("ALL", approval, Warehouse, Client)
<1>1. /\ OfTab("ALL") = Minted \ In({"SPLIT"})
      /\ \A g \in Group : OfTab(g) = In(StatusesForGroup(g))
  BY OneGroupEach DEF OfTab
<1>2. \A approval : rows(approval) = {r \in Minted \ In({"SPLIT"}) : approval \in {"ANY", receipt[r].approval}}
  BY <1>1, ScopesAre, ReceiptsLie DEF AdminReceipts
<1>3. ReceiptStats.totalReceipts = Cardinality(rows("ANY"))
  <2>1. rows("ANY") = Minted \ In({"SPLIT"})
    BY <1>2
  <2> QED
    BY <2>1 DEF ReceiptStats
<1>4. /\ ReceiptStats.approvedReceipts = Cardinality(rows("APPROVED"))
      /\ ReceiptStats.rejectedReceipts = Cardinality(rows("REJECTED"))
  <2>1. \A approval \in {"APPROVED", "REJECTED"} :
            rows(approval) = {r \in Minted \ In({"SPLIT"}) : receipt[r].approval = approval}
    BY <1>2
  <2> HIDE DEF rows
  <2> QED
    BY <2>1 DEF ReceiptStats
<1>5. \A approval \in Approval :
          UNION {WarehouseReceipts("ALL", approval, w) : w \in Warehouse} = rows(approval)
  BY <1>1, <1>2, ReceiptsLie DEF WarehouseReceipts, Received
<1>6. ASSUME NEW g \in Group
      PROVE  UNION {WarehouseReceipts(g, "ANY", w) : w \in Warehouse}
                = UNION {Tab(c, g) : c \in Client}
  <2>1. UNION {WarehouseReceipts(g, "ANY", w) : w \in Warehouse} = In(StatusesForGroup(g))
    BY <1>1, ReceiptsLie DEF WarehouseReceipts, Received, In
  <2>2. UNION {Tab(c, g) : c \in Client} = In(StatusesForGroup(g))
    BY ReceiptsLie DEF Tab, Own, In
  <2> QED
    BY <2>1, <2>2
<1>7. ASSUME NEW c \in Client
      PROVE  /\ AllTab(c) = ListReceipts(c, "ALL", Warehouse) \ In({"SPLIT"})
             /\ \A S \in Scopes : ClientBadges(c, S).total
                    = SumOf([g \in Group |-> Cardinality(ListReceipts(c, g, S))])
  <2>1. AllTab(c) = ListReceipts(c, "ALL", Warehouse) \ In({"SPLIT"})
    BY ScopesAre DEF AllTab, ListReceipts, Own
  <2>2. ASSUME NEW S \in Scopes
        PROVE  ClientBadges(c, S).total
                    = SumOf([g \in Group |-> Cardinality(ListReceipts(c, g, S))])
    <3> DEFINE X == Own(c) \cap Received(S)
               f == [g \in Group |-> Cardinality(ListReceipts(c, g, S))]
               key == [r \in X |-> GroupOf(receipt[r].status)]
    <3>1. ClientBadges(c, S).total = Cardinality(X)
      BY DEF ClientBadges
    <3>2. X \in SUBSET Minted
      BY DEF Received
    <3>3. \A r \in X : key[r] \in Group /\ key[r] = GroupOf(receipt[r].status)
      BY OneGroupEach
    <3>4. \A g \in Group : ListReceipts(c, g, S) = {r \in X : key[r] = g}
      <4>1. \A r \in X : receipt[r].status \in Status
        BY <3>2, BookedRows DEF Row
      <4>2. \A g \in Group : ListReceipts(c, g, S) = X \cap In(StatusesForGroup(g))
        BY OneGroupEach DEF ListReceipts
      <4> HIDE DEF key, X
      <4> QED
        BY <3>2, <3>3, <4>1, <4>2, OneGroupEach DEF In
    <3>5. DOMAIN f = Group /\ \A g \in Group : f[g] = Cardinality({r \in X : key[r] = g})
      BY <3>4
    <3>6. IsFiniteSet(X)
      BY <3>2, ReceiptsAddUp
    <3> HIDE DEF X, f, key
    <3>7. SumOf(f) = Cardinality(X)
      <4>1. IsFiniteSet(DOMAIN f) /\ \A r \in X : key[r] \in DOMAIN f
        BY <3>3, <3>5, OneGroupEach
      <4>2. \A g \in DOMAIN f : f[g] = Cardinality({r \in X : key[r] = g})
        BY <3>5
      <4> QED
        BY ONLY <3>6, <4>1, <4>2, GroupedCount
    <3> QED
      BY <3>1, <3>7 DEF f
  <2> QED
    BY <2>1, <2>2
<1> HIDE DEF rows
<1>8. ListsAgree <=>
        /\ ReceiptStats.totalReceipts = Cardinality(rows("ANY"))
        /\ ReceiptStats.approvedReceipts = Cardinality(rows("APPROVED"))
        /\ ReceiptStats.rejectedReceipts = Cardinality(rows("REJECTED"))
        /\ \A approval \in Approval :
              UNION {WarehouseReceipts("ALL", approval, w) : w \in Warehouse} = rows(approval)
        /\ \A g \in Group :
              UNION {WarehouseReceipts(g, "ANY", w) : w \in Warehouse}
                = UNION {Tab(c, g) : c \in Client}
        /\ \A c \in Client :
              /\ AllTab(c) = ListReceipts(c, "ALL", Warehouse) \ In({"SPLIT"})
              /\ \A S \in Scopes :
                    ClientBadges(c, S).total
                        = SumOf([g \in Group |-> Cardinality(ListReceipts(c, g, S))])
  BY DEF ListsAgree, rows
<1> QED
  BY <1>3, <1>4, <1>5, <1>6, <1>7, <1>8

-----------------------------------------------------------------------------
(* The trails.                                                             *)
OpenStatus == {"PAID_PENDING_APPROVAL", "APPROVED", "PENDING", "ACTIVE", "LISTED"}

(* A request that is open holds its receipt and no other.                  *)
LEMMA OpenHoldsIts ==
    ASSUME BookingInv, NEW t \in Txn, request[t].kind \in {"withdrawal", "loan", "trade"},
           request[t].status \in OpenStatus
    PROVE  LET x == request[t].receiptId
           IN  /\ HeldFor(t) = {x} /\ x \in Minted /\ receipt[x].sourceTxn = t
               /\ receipt[x].status = HoldOf[request[t].kind]
               /\ OnHold(request[t].kind, request[t].status, receipt[x].approval)
               /\ request[t].quantity \in 1..MaxQuantity
<1>1. PICK kind \in {"withdrawal", "loan", "trade"} : kind = request[t].kind
  OBVIOUS
<1>2. request[t].status \in RequestStatus[kind]
  BY <1>1 DEF BookingInv, Booked, RowsTyped, RequestRow, NoRequest
<1>3. PICK approval : OnHold(kind, request[t].status, approval)
  BY <1>2 DEF OnHold, RequestStatus, OpenStatus
<1>4. At(t, kind, request[t].status)
  BY <1>1 DEF At
<1>5. /\ request[t].receiptId \in HeldFor(t) /\ request[t].receiptId \in Minted
      /\ receipt[request[t].receiptId].status = HoldOf[kind]
      /\ receipt[request[t].receiptId].approval = approval
      /\ request[t].quantity \in 1..MaxQuantity
  BY <1>3, <1>4, OpenHolds
<1>6. \A r, s \in HeldFor(t) : r = s
  BY DEF BookingInv, Booked, HoldsOne
<1> QED
  BY <1>1, <1>3, <1>5, <1>6 DEF HeldFor

LEMMA ClosedHoldsNone ==
    ASSUME BookingInv, NEW t \in Txn, request[t].kind \in {"withdrawal", "loan", "trade"},
           request[t].status \notin OpenStatus
    PROVE  HeldFor(t) = {}
<1> SUFFICES ASSUME NEW r \in HeldFor(t) PROVE FALSE
  OBVIOUS
<1>1. Holder(r, t) /\ receipt[r].status \in HeldStatus
  BY DEF BookingInv, Booked, HoldsOne, HeldFor, IsHeld
<1>2. ~Standing(t)
  BY LienHolds
<1> QED
  BY <1>1, <1>2 DEF Holder, HeldStatus, At, OpenStatus

(* A receipt on hold was made by an event of the transaction it is for.    *)
LEMMA TrailLeadsToHeld ==
    ASSUME BookingAssumption, BookingInv, Accounted, NEW t \in Txn
    PROVE  Trail(t).held = HeldFor(t)
<1>1. ASSUME NEW r \in Minted, IsHeld(r)
      PROVE  receipt[r].sourceEvent \in EventsOfTxn(t) <=> receipt[r].sourceTxn = t
  <2>1. PICK u \in Txn : u = receipt[r].sourceTxn /\ Holder(r, u)
    BY <1>1, HeldHasARow
  <2>2. receipt[r].sourceEvent \in {<<"hold", u>>, <<"release", u>>}
    BY <2>1 DEF Holder
  <2>3. receipt[r].sourceEvent[2] = u /\ receipt[r].sourceEvent \in BookingKey
    BY <2>2 DEF BookingKey
  <2>4. event[receipt[r].sourceEvent] # NoEvent
    BY DEF Accounted, Sourced
  <2> QED
    BY <2>1, <2>3, <2>4 DEF EventsOfTxn
<1>2. Trail(t).held = {r \in Minted : receipt[r].sourceEvent \in EventsOfTxn(t)} \cap In(HeldStatus)
  BY DEF Trail
<1> QED
  BY <1>1, <1>2 DEF In, HeldFor, IsHeld

LEMMA TrailLeadsToDispatched ==
    ASSUME BookingAssumption, BookingInv, Traced, Accounted, NEW t \in Txn
    PROVE  Trail(t).terminal = IF At(t, "withdrawal", "COMPLETED")
                               THEN {request[t].receiptId} ELSE {}
<1>1. ASSUME NEW r \in In({"WITHDRAWN"})
      PROVE  \E u \in Txn : /\ At(u, "withdrawal", "COMPLETED") /\ request[u].receiptId = r
                            /\ receipt[r].sourceEvent \in EventsOfTxn(t) <=> u = t
  <2>1. PICK u \in Txn : At(u, "withdrawal", "COMPLETED") /\ request[u].receiptId = r
    BY DispatchesAreReceipts
  <2>2. receipt[r].sourceEvent = <<"hold", u>>
    BY <2>1, DispatchesAreReceipts
  <2>3. receipt[r].sourceEvent[2] = u /\ receipt[r].sourceEvent \in BookingKey
    BY <2>2 DEF BookingKey
  <2>4. event[receipt[r].sourceEvent] # NoEvent
    BY DEF Accounted, Sourced, In
  <2> QED
    BY <2>1, <2>3, <2>4 DEF EventsOfTxn
<1>2. In({"WITHDRAWN", "TRADED_OUT", "SEIZED"}) = In({"WITHDRAWN"})
  BY DEF In, Traced, AllOrdinary, Ordinary
<1>3. Trail(t).terminal = {r \in Minted : receipt[r].sourceEvent \in EventsOfTxn(t)} \cap In({"WITHDRAWN"})
  BY <1>2 DEF Trail
<1>4. At(t, "withdrawal", "COMPLETED") => request[t].receiptId \in In({"WITHDRAWN"})
  BY DispatchesAreReceipts
<1>5. In({"WITHDRAWN"}) \subseteq Minted
  BY DEF In
<1>6. ASSUME At(t, "withdrawal", "COMPLETED")
      PROVE  receipt[request[t].receiptId].sourceEvent \in EventsOfTxn(t)
  <2>1. receipt[request[t].receiptId].sourceEvent = <<"hold", t>>
    BY <1>6, DispatchesAreReceipts
  <2>2. event[receipt[request[t].receiptId].sourceEvent] # NoEvent
    BY <1>4, <1>5, <1>6 DEF Accounted, Sourced
  <2> QED
    BY <2>1, <2>2 DEF EventsOfTxn, BookingKey
<1> QED
  BY <1>1, <1>3, <1>4, <1>5, <1>6

LEMMA TrailsLeadToGoods ==
    ASSUME BookingAssumption, BookingInv, Traced, Accounted
    PROVE  TrailsAgree
<1> SUFFICES ASSUME NEW t \in Dealings(Warehouse)
             PROVE  LET goods == {request[t].receiptId}
                    IN  CASE request[t].status \in OpenStatus -> Trail(t).held = goods
                          [] request[t].status = "COMPLETED" -> Trail(t).terminal = goods
                          [] OTHER -> Trail(t).held = {} /\ Trail(t).terminal = {}
  BY DEF TrailsAgree, OpenStatus
<1>1. t \in Txn /\ request[t].kind \in {"withdrawal", "loan", "trade"}
  BY DEF Dealings, Requests, Filed
<1>2. request[t].status = "COMPLETED" => request[t].kind = "withdrawal"
  BY <1>1 DEF BookingInv, Booked, RowsTyped, RequestRow, NoRequest, RequestStatus, Kind
<1>3. request[t].status = "COMPLETED" <=> At(t, "withdrawal", "COMPLETED")
  BY <1>2 DEF At
<1>4. request[t].status \in OpenStatus => Trail(t).held = {request[t].receiptId}
  BY <1>1, OpenHoldsIts, TrailLeadsToHeld
<1>5. request[t].status = "COMPLETED" => Trail(t).terminal = {request[t].receiptId}
  BY <1>1, <1>3, TrailLeadsToDispatched
<1>6. request[t].status \notin OpenStatus => Trail(t).held = {}
  BY <1>1, ClosedHoldsNone, TrailLeadsToHeld
<1>7. request[t].status # "COMPLETED" => Trail(t).terminal = {}
  BY <1>1, <1>3, TrailLeadsToDispatched
<1>8. "COMPLETED" \notin OpenStatus
  BY DEF OpenStatus
<1> QED
  BY <1>4, <1>5, <1>6, <1>7, <1>8

-----------------------------------------------------------------------------
(* The page of a receipt.                                                  *)

(* A step of the way down a tree.                                          *)
StepTo(path, x) == IF receipt[x].parent = NoReceipt THEN <<x>>
                   ELSE Append(path[receipt[x].parent], x)

IsPaths(path, n) == path = [x \in 1..n |-> StepTo(path, x)]

(* There are such paths: a parent is older than its children.              *)
LEMMA PathsExist ==
    ASSUME BookingInv
    PROVE  \E path : IsPaths(path, minted)
<1> DEFINE Bad == {n \in 0..minted : ~\E path : IsPaths(path, n)}
<1>1. minted \in Nat
  BY MintedRows DEF BookingInv, LedgerSound, RowInv, TypedRows
<1>2. SUFFICES ASSUME Bad # {} PROVE FALSE
  BY <1>1
<1>3. PICK n \in Bad : \A k \in Bad : n <= k
  <2>1. Bad \in SUBSET Nat
    BY <1>1
  <2> QED
    BY <1>2, <2>1, LeastNat
<1>4. n \in 0..minted /\ n \in Nat /\ ~\E path : IsPaths(path, n)
  BY <1>1
<1>5. n # 0
  <2>1. ASSUME n = 0 PROVE FALSE
    <3> DEFINE none == [x \in 1..0 |-> 0]
    <3>1. none = [x \in 1..0 |-> StepTo(none, x)]
      OBVIOUS
    <3> QED
      BY <1>4, <2>1, <3>1 DEF IsPaths
  <2> QED
    BY <2>1
<1>6. PICK old : IsPaths(old, n - 1)
  <2>1. n - 1 \in 0..minted /\ ~(n <= n - 1)
    BY <1>1, <1>4, <1>5
  <2> QED
    BY <1>3, <2>1
<1> DEFINE new == [x \in 1..n |-> IF x = n THEN StepTo(old, n) ELSE old[x]]
<1>7. ASSUME NEW x \in 1..n
      PROVE  new[x] = StepTo(new, x)
  <2>1. /\ x \in Minted /\ receipt[x].parent < x
        /\ receipt[x].parent # NoReceipt => receipt[x].parent \in Minted
    BY <1>1, <1>4, BookedRows DEF Minted, BookingInv, LedgerSound, RowInv, LedgerInv, TreeShape
  <2>2. receipt[x].parent # NoReceipt => new[receipt[x].parent] = old[receipt[x].parent]
    BY <1>1, <1>4, <2>1 DEF Minted
  <2>3. StepTo(new, x) = StepTo(old, x)
    BY <2>2 DEF StepTo
  <2>4. x # n => old[x] = StepTo(old, x)
    <3>1. x # n => x \in 1..(n - 1)
      BY <1>1, <1>4
    <3> QED
      BY <1>6, <3>1 DEF IsPaths
  <2> QED
    BY <2>3, <2>4
<1>8. new = [x \in 1..n |-> StepTo(new, x)]
  <2>1. DOMAIN new = 1..n /\ new = [x \in 1..n |-> new[x]]
    OBVIOUS
  <2> HIDE DEF new
  <2> QED
    BY <1>7, <2>1
<1> HIDE DEF new
<1> QED
  BY <1>4, <1>8 DEF IsPaths

(* Where a path leads, and through what.                                   *)
LeadsTo(path, r) ==
    /\ path \in Seq(Minted) /\ Len(path) > 0
    /\ path[1] = receipt[r].root /\ path[1] \in Roots /\ path[Len(path)] = r
    /\ \A i \in 1..(Len(path) - 1) : receipt[path[i]].status = "SPLIT"

LEMMA StepLeads ==
    ASSUME BookingInv, Scale = 1, NEW p \in Minted, NEW r \in Minted, receipt[r].parent = p,
           NEW path, LeadsTo(path, p)
    PROVE  LeadsTo(Append(path, r), r)
<1>1. /\ path \in Seq(Minted) /\ Len(path) \in Nat /\ Len(path) > 0
      /\ path[1] = receipt[p].root /\ path[1] \in Roots /\ path[Len(path)] = p
      /\ \A i \in 1..(Len(path) - 1) : receipt[path[i]].status = "SPLIT"
  BY DEF LeadsTo
<1>2. receipt[p].status = "SPLIT"
  BY ChildrenAddUp DEF Children
<1>3. receipt[r].root = receipt[p].root
  BY DEF BookingInv, LedgerSound, Descent, Minted, NoReceipt
<1> DEFINE new == Append(path, r)
<1>4. /\ new \in Seq(Minted) /\ Len(new) = Len(path) + 1 /\ new[Len(path) + 1] = r
      /\ \A i \in 1..Len(path) : new[i] = path[i]
  BY <1>1
<1> HIDE DEF new
<1>5. new[1] = receipt[r].root /\ new[1] \in Roots
  BY <1>1, <1>3, <1>4
<1>6. \A i \in 1..(Len(new) - 1) : receipt[new[i]].status = "SPLIT"
  <2>1. ASSUME NEW i \in 1..(Len(new) - 1)
        PROVE  receipt[new[i]].status = "SPLIT"
    <3>1. i \in 1..Len(path) /\ (i = Len(path) \/ i \in 1..(Len(path) - 1))
      BY <1>1, <1>4
    <3> QED
      BY <1>1, <1>2, <1>4, <3>1
  <2> QED
    BY <2>1
<1>7. LeadsTo(new, r)
  BY <1>1, <1>4, <1>5, <1>6 DEF LeadsTo
<1> QED
  BY <1>7 DEF new

LEMMA PathsLead ==
    ASSUME BookingInv, Scale = 1, NEW r \in Minted
    PROVE  LeadsTo(PathToRoot(r), r)
<1> DEFINE Is(path) == path = [x \in Minted |-> IF receipt[x].parent = NoReceipt THEN <<x>>
                                                ELSE Append(path[receipt[x].parent], x)]
           path == CHOOSE p : Is(p)
<1>1. PathToRoot(r) = path[r]
  BY DEF PathToRoot
<1>2. PICK some : Is(some)
  BY PathsExist DEF IsPaths, StepTo, Minted
<1>3. Is(path)
  <2> HIDE DEF Is
  <2> QED
    BY <1>2, Zenon
<1> HIDE DEF path
<1>4. \A x \in Minted : path[x] = IF receipt[x].parent = NoReceipt THEN <<x>>
                                  ELSE Append(path[receipt[x].parent], x)
  BY <1>3
<1> DEFINE Bad == {x \in Minted : ~LeadsTo(path[x], x)}
<1>5. ASSUME Bad # {} PROVE FALSE
  <2>1. Bad \in SUBSET Nat
    BY BookedRows
  <2>2. PICK x \in Bad : \A y \in Bad : x <= y
    BY <1>5, <2>1, LeastNat
  <2>3. x \in Minted /\ x \in Nat /\ ~LeadsTo(path[x], x)
    BY BookedRows
  <2>4. CASE receipt[x].parent = NoReceipt
    <3>1. path[x] = <<x>> /\ receipt[x].root = x
      BY <1>4, <2>3, <2>4 DEF BookingInv, LedgerSound, Descent
    <3>2. LeadsTo(<<x>>, x)
      BY <2>3, <2>4, <3>1 DEF LeadsTo, Roots
    <3> QED
      BY <2>3, <3>1, <3>2
  <2>5. CASE receipt[x].parent # NoReceipt
    <3>1. PICK p \in Minted : p = receipt[x].parent /\ p < x /\ p \in Nat
      BY <2>3, <2>5, BookedRows DEF BookingInv, LedgerSound, RowInv, LedgerInv, TreeShape
    <3>2. LeadsTo(path[p], p)
      BY <2>2, <2>3, <3>1
    <3>3. LeadsTo(Append(path[p], x), x)
      BY <2>3, <3>1, <3>2, StepLeads
    <3> QED
      BY <1>4, <2>3, <2>5, <3>1, <3>3
  <2> QED
    BY <2>4, <2>5
<1> QED
  BY <1>1, <1>5

(* What the timeline says of a receipt's end is what the ledger recorded.  *)
LEMMA TimelinesTell ==
    ASSUME BookingAssumption, BookingInv, Scale = 1, Accounted, RowsExplained, NEW r \in Minted
    PROVE  LET timeline == ReceiptDetail(r).timeline
               said == {event[k].type : k \in timeline}
           IN  /\ receipt[r].sourceEvent \in timeline
               /\ receipt[r].status = "WITHDRAWN" <=> "CONSUMED" \in said
               /\ receipt[r].status = "CANCELLED" <=> "REJECTED" \in said
<1> DEFINE timeline == {k \in BookingKey : /\ event[k] # NoEvent
                                           /\ event[k].from = r \/ receipt[r].sourceEvent = k}
           said == {event[k].type : k \in timeline}
           source == receipt[r].sourceEvent
<1>1. ReceiptDetail(r).timeline = timeline
  BY DEF ReceiptDetail
<1>2. source \in Key /\ event[source] # NoEvent /\ source \in BookingKey
  BY BookedRows DEF Row, Accounted, Sourced, OwnJournal
<1>3. BookingKey \subseteq Key /\ r # 0
  BY DEF BookingAssumption, Minted
<1>4. Said(event, r) \subseteq said
  <2>1. ASSUME NEW k \in Key, event[k].from = r
        PROVE  k \in timeline
    <3>1. event[k] # NoEvent
      BY <1>3, <2>1 DEF NoEvent, NoReceipt
    <3> QED
      BY <2>1, <3>1 DEF Accounted, OwnJournal
  <2> QED
    BY <2>1 DEF Said
<1>5. said \subseteq Said(event, r) \cup {event[source].type}
  BY <1>3 DEF Said
<1>6. event[source].type \in {"CONSUMED", "REJECTED"} => event[source].type \in Said(event, r)
  <2>1. CASE receipt[r].parent = NoReceipt
    BY <1>2, <2>1 DEF Accounted, Sourced, Said
  <2>2. CASE receipt[r].parent # NoReceipt
    <3>1. PICK p \in Minted : p = receipt[r].parent
      BY <2>2, BookedRows
    <3>2. event[source].from = p
      BY <2>2, <3>1 DEF BookingInv, LedgerSound, Descent
    <3>3. receipt[p].status = "SPLIT"
      BY <3>1, ChildrenAddUp DEF Children
    <3>4. event[source].type \in Said(event, p)
      BY <1>2, <3>2 DEF Said
    <3>5. Explained(p)
      BY DEF RowsExplained
    <3> QED
      BY <3>3, <3>4, <3>5 DEF Explained
  <2> QED
    BY <2>1, <2>2
<1>7. /\ receipt[r].status = "WITHDRAWN" <=> "CONSUMED" \in Said(event, r)
      /\ receipt[r].status = "CANCELLED" <=> "REJECTED" \in Said(event, r)
  BY DEF RowsExplained, Explained
<1>8. source \in timeline
  BY <1>2
<1> HIDE DEF said
<1>9. /\ "CONSUMED" \in said <=> "CONSUMED" \in Said(event, r)
      /\ "REJECTED" \in said <=> "REJECTED" \in Said(event, r)
  BY <1>4, <1>5, <1>6
<1> QED
  BY <1>1, <1>7, <1>8, <1>9 DEF said

LEMMA DetailsAreRight ==
    ASSUME BookingAssumption, BookingInv, Scale = 1, Accounted, RowsExplained
    PROVE  DetailsAgree
<1> SUFFICES ASSUME NEW r \in Minted
             PROVE  LET page == ReceiptDetail(r)
                        path == page.pathToRoot
                        said == {event[k].type : k \in page.timeline}
                    IN  /\ path[1] = receipt[r].root /\ path[1] \in Roots /\ path[Len(path)] = r
                        /\ \A i \in 1..(Len(path) - 1) : receipt[path[i]].status = "SPLIT"
                        /\ IF receipt[r].status = "SPLIT"
                           THEN Total(page.descendants) = receipt[r].quantity
                           ELSE page.descendants = {}
                        /\ page.origin \in page.timeline
                        /\ receipt[r].status = "WITHDRAWN" <=> "CONSUMED" \in said
                        /\ receipt[r].status = "CANCELLED" <=> "REJECTED" \in said
  BY DEF DetailsAgree
<1>1. /\ ReceiptDetail(r).pathToRoot = PathToRoot(r)
      /\ ReceiptDetail(r).descendants = Children(r)
      /\ ReceiptDetail(r).origin = receipt[r].sourceEvent
  BY DEF ReceiptDetail, Children
<1>2. LeadsTo(PathToRoot(r), r)
  BY PathsLead
<1>3. IF receipt[r].status = "SPLIT" THEN Total(Children(r)) = receipt[r].quantity
                                     ELSE Children(r) = {}
  BY ChildrenAddUp, TotalIs
<1> QED
  BY <1>1, <1>2, <1>3, TimelinesTell DEF LeadsTo

-----------------------------------------------------------------------------
(* The histories.                                                          *)

(* Lines of two kinds, one for each of their subjects.                     *)
LEMMA TwoKinds ==
    ASSUME NEW X, IsFiniteSet(X), NEW f, \A x, y \in X : f[x] = f[y] => x = y,
           NEW Y, IsFiniteSet(Y), NEW g, \A x, y \in Y : g[x] = g[y] => x = y,
           \A x \in X, y \in Y : f[x] # g[y],
           NEW Z, Z = {f[x] : x \in X} \cup {g[y] : y \in Y}
    PROVE  Cardinality(Z) = Cardinality(X) + Cardinality(Y)
<1> DEFINE A == {f[x] : x \in X}
           B == {g[y] : y \in Y}
           onA == [x \in X |-> f[x]]
           onB == [y \in Y |-> g[y]]
<1>1. onA \in Injection(X, A) /\ onA \in Surjection(X, A)
  BY DEF Injection, IsInjective, Surjection
<1>2. onB \in Injection(Y, B) /\ onB \in Surjection(Y, B)
  BY DEF Injection, IsInjective, Surjection
<1>3. IsFiniteSet(A) /\ IsFiniteSet(B)
  BY <1>1, <1>2, FS_Surjection
<1>4. Cardinality(A) = Cardinality(X) /\ Cardinality(B) = Cardinality(Y)
  <2> HIDE DEF A, B, onA, onB
  <2> QED
    BY <1>1, <1>2, <1>3, FS_Surjection
<1>5. A \cap B = {} /\ Z = A \cup B
  OBVIOUS
<1> HIDE DEF A, B
<1>6. Cardinality(Z) = Cardinality(A) + Cardinality(B) - Cardinality(A \cap B)
  BY <1>3, <1>5, FS_Union
<1>7. Cardinality(A \cap B) = 0
  BY <1>5, FS_EmptySet
<1>8. Cardinality(A) \in Nat /\ Cardinality(B) \in Nat
  BY <1>3, FS_CardinalityType
<1> QED
  BY <1>4, <1>6, <1>7, <1>8

Sorts == {"withdrawal", "loan", "trade"}

LEMMA SortsAreFinite == IsFiniteSet(Sorts)
<1>1. Sorts = (({} \cup {"withdrawal"}) \cup {"loan"}) \cup {"trade"}
  BY DEF Sorts
<1> QED
  BY <1>1, FS_EmptySet, FS_AddElement

(* What a client has a part in.                                            *)
LEMMA DealingsAre ==
    ASSUME BookingInv, Accounted
    PROVE  /\ Dealings(Warehouse) = {t \in Txn : request[t].kind \in Sorts}
           /\ \A kind \in Kind : Requests(kind, Warehouse) = Filed(kind)
           /\ \A c \in Client, t \in Txn :
                 c \in Parties(t) /\ t \notin Filed("pledge") => request[t].kind \in Sorts
           /\ \A c \in Client :
                 /\ MyDealings(c) = {t \in Dealings(Warehouse) : c \in Parties(t)}
                 /\ MyDealings(c) \in SUBSET Txn
           /\ \A S : /\ Dealings(S) \in SUBSET Txn
                     /\ \A t \in Dealings(S) : request[t].kind \in Sorts
<1>1. ASSUME NEW t \in Txn, request[t].kind # "none"
      PROVE  WarehouseOf(request[t].receiptId) \in Warehouse
  BY <1>1, BookedRows, ReceiptsLie
<1>2. \A kind \in Kind : Requests(kind, Warehouse) = Filed(kind)
  BY <1>1 DEF Requests, Filed, Kind, RequestStatus
<1>3. Sorts \subseteq Kind
  BY DEF Sorts, Kind, RequestStatus
<1>4. Dealings(Warehouse) = {t \in Txn : request[t].kind \in Sorts}
  BY <1>2, <1>3 DEF Dealings, Filed, Sorts
<1>5. ASSUME NEW c \in Client, NEW t \in Txn, c \in Parties(t), t \notin Filed("pledge")
      PROVE  request[t].kind \in Sorts
  <2>1. request[t] = NoRequest \/ \E kind \in Kind : request[t] \in RequestRow(kind)
    BY DEF BookingInv, Booked, RowsTyped
  <2>2. request[t] # NoRequest
    BY <1>5, NoneAssumption DEF Parties, NoRequest
  <2> QED
    BY <1>5, <2>1, <2>2 DEF RequestRow, Filed, Kind, RequestStatus, Sorts
<1>6. \A c \in Client : MyDealings(c) = {t \in Dealings(Warehouse) : c \in Parties(t)}
  BY <1>4, <1>5 DEF MyDealings, Filed, Sorts
<1>7. \A S : /\ Dealings(S) \in SUBSET Txn
             /\ \A t \in Dealings(S) : request[t].kind \in Sorts
  BY DEF Dealings, Requests, Filed, Sorts
<1> QED
  BY <1>2, <1>4, <1>5, <1>6, <1>7

(* The statement of a client, by what it lists.                            *)
LEMMA StatementsAre ==
    ASSUME BookingInv, Accounted, NEW c \in Client
    PROVE  Statement(c) = {DepositLine(r) : r \in Roots \cap Own(c)}
                              \cup {RequestLine(t, c) : t \in MyDealings(c)}
  BY DEF Statement, MyDealings

LEMMA ListsAreStatements ==
    ASSUME BookingInv, Accounted, NEW c \in Client
    PROVE  /\ ClientTransactions(c, Warehouse) = Statement(c)
           /\ ListTransactions(c, Warehouse) = {l \in Statement(c) : l.side # "BUY"}
           /\ RecentActivities(c) = {<<l.type, l.id>> : l \in Statement(c)}
<1>1. Received(Warehouse) = Minted /\ Roots \subseteq Minted
  BY ScopesAre DEF Roots
<1>2. MyDealings(c) = {t \in Dealings(Warehouse) : c \in Parties(t)}
  BY DealingsAre
<1>3. ClientTransactions(c, Warehouse) = Statement(c)
  <2>1. Roots \cap Own(c) \cap Received(Warehouse) = Roots \cap Own(c)
    BY <1>1
  <2> QED
    BY <1>2, <2>1, StatementsAre DEF ClientTransactions
<1>4. \A r : /\ DepositLine(r).type = "DEPOSIT" /\ DepositLine(r).id = r
             /\ DepositLine(r).side = "OWN"
  BY DEF DepositLine
<1>5. \A t : /\ RequestLine(t, c).type = request[t].kind /\ RequestLine(t, c).id = t
             /\ RequestLine(t, c).side = Side(t, c)
  BY DEF RequestLine
<1> DEFINE D == Roots \cap Own(c)
           T == {t \in Dealings(Warehouse) : request[t].client = c}
<1>6. \A t \in MyDealings(c) : Side(t, c) # "BUY" <=> t \in T
  BY <1>2 DEF Parties, Side
<1>7. T \subseteq MyDealings(c)
  BY <1>2 DEF Parties
<1>8. ListTransactions(c, Warehouse)
        = {DepositLine(r) : r \in D} \cup {RequestLine(t, c) : t \in T}
  <2> DEFINE one(r) == [client |-> receipt[r].owner, line |-> DepositLine(r)]
             two(t) == [client |-> request[t].client, line |-> RequestLine(t, request[t].client)]
  <2>1. TenantTransactions(Warehouse)
          = {one(r) : r \in Roots} \cup {two(t) : t \in Dealings(Warehouse)}
    <3>1. Roots \cap Received(Warehouse) = Roots
      BY <1>1
    <3> QED
      BY <3>1 DEF TenantTransactions
  <2>2. /\ \A r : one(r).client = receipt[r].owner /\ one(r).line = DepositLine(r)
        /\ \A t : /\ two(t).client = request[t].client
                  /\ two(t).line = RequestLine(t, request[t].client)
    OBVIOUS
  <2>3. D = {r \in Roots : receipt[r].owner = c}
    BY <1>1 DEF Own
  <2> HIDE DEF one, two
  <2>4. {y \in TenantTransactions(Warehouse) : y.client = c}
          = {one(r) : r \in D} \cup {two(t) : t \in T}
    BY <2>1, <2>2, <2>3
  <2>5. \A t \in T : two(t).line = RequestLine(t, c)
    BY <2>2
  <2> HIDE DEF D, T
  <2> QED
    BY <2>2, <2>4, <2>5 DEF ListTransactions
<1>9. {l \in Statement(c) : l.side # "BUY"}
        = {DepositLine(r) : r \in D} \cup {RequestLine(t, c) : t \in T}
  <2> HIDE DEF T
  <2> QED
    BY <1>4, <1>5, <1>6, <1>7, StatementsAre
<1>10. {<<l.type, l.id>> : l \in Statement(c)}
         = {<<"DEPOSIT", r>> : r \in D} \cup {<<request[t].kind, t>> : t \in MyDealings(c)}
  BY <1>4, <1>5, StatementsAre
<1>11. MyDealings(c) = {x \in Txn : \/ /\ request[x].kind \in {"withdrawal", "loan"}
                                       /\ request[x].client = c
                                    \/ request[x].kind = "trade" /\ c \in Parties(x)}
  BY <1>2, DealingsAre DEF Sorts, Parties
<1>12. RecentActivities(c) = {<<l.type, l.id>> : l \in Statement(c)}
  BY <1>10, <1>11 DEF RecentActivities
<1> QED
  BY <1>3, <1>8, <1>9, <1>12

(* Cards are as large as the lists.                                        *)
LEMMA CardsCountStatements ==
    ASSUME Finite, BookingInv, Accounted, NEW c \in Client
    PROVE  /\ MyTransactionStats(c).totalTransactions = Cardinality(Statement(c))
           /\ MyTransactionStats(c).totalTransactions - MyTransactionStats(c).deposits
                = SumOf(MyActivity(c))
           /\ SystemStatus(c).totalDeposits = MyTransactionStats(c).deposits
           /\ SystemStatus(c).totalWithdrawals = MyActivity(c)["withdrawal"]
<1> DEFINE X == Roots \cap Own(c)
           Y == MyDealings(c)
           f == [r \in X |-> DepositLine(r)]
           g == [t \in Y |-> RequestLine(t, c)]
<1>1. IsFiniteSet(X) /\ IsFiniteSet(Y) /\ Y \in SUBSET Txn
  <2>1. X \in SUBSET Minted
    BY DEF Roots
  <2>2. Y \in SUBSET Txn
    BY DealingsAre
  <2> HIDE DEF X, Y
  <2> QED
    BY <2>1, <2>2, ReceiptsAddUp, FS_Subset DEF Finite
<1>2. Cardinality(X) \in Nat /\ Cardinality(Y) \in Nat
  BY <1>1, FS_CardinalityType
<1>3. /\ MyTransactionStats(c).totalTransactions = Cardinality(X) + Cardinality(Y)
      /\ MyTransactionStats(c).deposits = Cardinality(X)
  BY DEF MyTransactionStats
<1>4. \A r \in X : f[r].id = r /\ f[r].type = "DEPOSIT"
  BY DEF DepositLine
<1>5. \A t \in Y : g[t].id = t /\ g[t].type \in Sorts
  <2>1. \A t \in Y : request[t].kind \in Sorts
    BY DealingsAre
  <2> QED
    BY <2>1 DEF RequestLine
<1>6. Statement(c) = {f[r] : r \in X} \cup {g[t] : t \in Y}
  BY StatementsAre
<1>7. SumOf(MyActivity(c)) = Cardinality(Y)
  <2> DEFINE sum == MyActivity(c)
             key == [t \in Y |-> request[t].kind]
  <2>1. DOMAIN sum = Sorts /\ \A kind \in Sorts : sum[kind] = Cardinality(Y \cap Filed(kind))
    BY DEF MyActivity, Sorts
  <2>2. \A t \in Y : key[t] \in Sorts
    BY DealingsAre
  <2>3. \A kind \in Sorts : Y \cap Filed(kind) = {t \in Y : key[t] = kind}
    BY <1>1 DEF Filed
  <2> HIDE DEF sum, key, Y
  <2>4. \A kind \in DOMAIN sum : sum[kind] = Cardinality({t \in Y : key[t] = kind})
    BY <2>1, <2>3
  <2>5. IsFiniteSet(DOMAIN sum) /\ \A t \in Y : key[t] \in DOMAIN sum
    BY <2>1, <2>2, SortsAreFinite
  <2>6. SumOf(sum) = Cardinality(Y)
    BY ONLY <1>1, <2>4, <2>5, GroupedCount
  <2> QED
    BY <2>6 DEF sum
<1>8. SystemStatus(c).totalDeposits = Cardinality(X)
  BY DEF SystemStatus
<1>9. SystemStatus(c).totalWithdrawals = MyActivity(c)["withdrawal"]
  <2>1. Of(c, Filed("withdrawal")) = Y \cap Filed("withdrawal")
    BY DealingsAre DEF MyDealings, Of, Filed, Parties
  <2> QED
    BY <2>1 DEF SystemStatus, MyActivity
<1> HIDE DEF X, Y, f, g
<1>10. Cardinality(Statement(c)) = Cardinality(X) + Cardinality(Y)
  <2>1. \A x, y \in X : f[x] = f[y] => x = y
    BY <1>4
  <2>2. \A x, y \in Y : g[x] = g[y] => x = y
    BY <1>5
  <2>3. \A x \in X, y \in Y : f[x] # g[y]
    BY <1>4, <1>5 DEF Sorts
  <2> QED
    BY ONLY <1>1, <1>6, <2>1, <2>2, <2>3, TwoKinds
<1> QED
  BY <1>2, <1>3, <1>7, <1>8, <1>9, <1>10

LEMMA CardsCountTransactions ==
    ASSUME Finite, BookingInv, Accounted, NEW S
    PROVE  TransactionStats(S).totalTransaction = Cardinality(TenantTransactions(S))
<1> DEFINE X == Roots \cap Received(S)
           Y == Dealings(S)
           f == [r \in X |-> [client |-> receipt[r].owner, line |-> DepositLine(r)]]
           g == [t \in Y |-> [client |-> request[t].client,
                              line |-> RequestLine(t, request[t].client)]]
<1>1. IsFiniteSet(X) /\ IsFiniteSet(Y)
  <2>1. X \in SUBSET Minted
    BY DEF Roots
  <2>2. Y \in SUBSET Txn
    BY DealingsAre
  <2> HIDE DEF X, Y
  <2> QED
    BY <2>1, <2>2, ReceiptsAddUp, FS_Subset DEF Finite
<1>2. TransactionStats(S).totalTransaction = Cardinality(X) + Cardinality(Y)
  BY DEF TransactionStats
<1>3. \A r \in X : f[r].line.id = r /\ f[r].line.type = "DEPOSIT"
  BY DEF DepositLine
<1>4. \A t \in Y : g[t].line.id = t /\ g[t].line.type \in Sorts
  <2>1. \A t \in Y : request[t].kind \in Sorts
    BY DealingsAre
  <2> QED
    BY <2>1 DEF RequestLine
<1>5. TenantTransactions(S) = {f[r] : r \in X} \cup {g[t] : t \in Y}
  BY DEF TenantTransactions
<1> HIDE DEF X, Y, f, g
<1>6. \A x, y \in X : f[x] = f[y] => x = y
  BY <1>3
<1>7. \A x, y \in Y : g[x] = g[y] => x = y
  BY <1>4
<1>8. \A x \in X, y \in Y : f[x] # g[y]
  BY <1>3, <1>4 DEF Sorts
<1>9. Cardinality(TenantTransactions(S)) = Cardinality(X) + Cardinality(Y)
  BY ONLY <1>1, <1>5, <1>6, <1>7, <1>8, TwoKinds
<1> QED
  BY <1>2, <1>9

LEMMA TrendsAgree ==
    ASSUME Finite, BookingInv, Accounted
    PROVE  /\ Trend.liensPlaced <= Trend.pledgesCreated
           /\ Trend.receiptsIssued
                = SumOf([w \in Warehouse |-> WarehouseSummary(w).totalReceipts])
<1>1. Trend.liensPlaced <= Trend.pledgesCreated
  <2>1. {t \in Txn : lien[t] # NoLien} \subseteq Filed("pledge")
    BY DEF BookingInv, Booked, RowsTyped, At, Filed
  <2>2. Filed("pledge") \subseteq Txn
    BY DEF Filed
  <2>3. IsFiniteSet(Filed("pledge"))
    BY <2>2, FS_Subset DEF Finite
  <2>4. Cardinality({t \in Txn : lien[t] # NoLien}) <= Cardinality(Filed("pledge"))
    BY <2>1, <2>3, FS_Subset
  <2> QED
    BY <2>4 DEF Trend
<1>2. Trend.receiptsIssued = SumOf([w \in Warehouse |-> WarehouseSummary(w).totalReceipts])
  <2> DEFINE g == [w \in Warehouse |-> WarehouseSummary(w).totalReceipts]
             key == [r \in Roots |-> WarehouseOf(r)]
  <2>1. \A w \in Warehouse : g[w] = Cardinality(Roots \cap Received({w}))
    BY DEF WarehouseSummary
  <2>2. Roots \in SUBSET Minted
    BY DEF Roots
  <2>3. \A r \in Roots : key[r] = WarehouseOf(r) /\ key[r] \in Warehouse
    BY <2>2, ReceiptsLie
  <2>4. \A w : Roots \cap Received({w}) = {r \in Roots : key[r] = w}
    BY <2>2, <2>3 DEF Received
  <2>5. DOMAIN g = Warehouse
    OBVIOUS
  <2> HIDE DEF g, key
  <2>6. \A w \in DOMAIN g : g[w] = Cardinality({r \in Roots : key[r] = w})
    BY <2>1, <2>4, <2>5
  <2>7. IsFiniteSet(DOMAIN g) /\ \A r \in Roots : key[r] \in DOMAIN g
    BY <2>3, <2>5, FinitePlaces DEF Finite
  <2>8. IsFiniteSet(Roots)
    BY <2>2, ReceiptsAddUp
  <2>9. SumOf(g) = Cardinality(Roots)
    BY ONLY <2>6, <2>7, <2>8, GroupedCount
  <2> QED
    BY <2>9 DEF Trend, g
<1> QED
  BY <1>1, <1>2

LEMMA HistoriesAreTheSame ==
    ASSUME Finite, BookingInv, Accounted
    PROVE  HistoriesAgree
  BY ListsAreStatements, CardsCountStatements, CardsCountTransactions, TrendsAgree
     DEF HistoriesAgree

-----------------------------------------------------------------------------
(* The cards.                                                              *)

(* What is on hold for a withdrawal, a loan or a trade stands for the open *)
(* requests of its kind, one each.                                         *)
LEMMA OpenStandForHeld ==
    ASSUME BookingInv, Traced, NEW kind \in Sorts, NEW R \in SUBSET In({HoldOf[kind]}), NEW S,
           S = {t \in Filed(kind) : /\ request[t].status \in OpenStatus
                                    /\ request[t].receiptId \in R}
    PROVE  Cardinality(S) = Cardinality(R) /\ AskedFor(S) = Amount(receipt, R)
<1> DEFINE f == [t \in S |-> request[t].receiptId]
<1>1. ASSUME NEW t \in S
      PROVE  /\ f[t] \in R /\ f[t] = request[t].receiptId /\ receipt[f[t]].sourceTxn = t
             /\ receipt[f[t]].quantity = ShownQuantity(t)
  <2>1. /\ t \in Txn /\ request[t].kind = kind /\ request[t].status \in OpenStatus
        /\ request[t].receiptId \in R
    BY DEF Filed
  <2>2. /\ receipt[request[t].receiptId].sourceTxn = t
        /\ OnHold(kind, request[t].status, receipt[request[t].receiptId].approval)
    BY <2>1, OpenHoldsIts DEF Sorts
  <2>3. kind # "loan" => receipt[request[t].receiptId].quantity = request[t].quantity
    BY <2>1, <2>2 DEF Traced, RowTraced, OnHold, CarvedOut, Sorts
  <2> QED
    BY <2>1, <2>2, <2>3 DEF ShownQuantity
<1>2. ASSUME NEW r \in R
      PROVE  \E t \in S : f[t] = r
  <2>1. r \in Minted /\ receipt[r].status = HoldOf[kind] /\ IsHeld(r)
    <3>1. HoldOf[kind] \in HeldStatus
      BY DEF Sorts, HoldOf, HeldStatus
    <3> QED
      BY <3>1 DEF In, IsHeld
  <2>2. PICK t \in Txn : Holder(r, t)
    BY <2>1, HeldHasARow
  <2>3. request[t].kind = kind /\ request[t].receiptId = r /\ request[t].status \in OpenStatus
    BY <2>1, <2>2 DEF Holder, Sorts, HoldOf, OpenStatus, At
  <2> QED
    BY <2>3 DEF Filed
<1> HIDE DEF f
<1>3. R \in SUBSET Minted
  BY DEF In
<1>4. \A t, u \in S : f[t] = f[u] => t = u
  BY <1>1
<1>5. \A t \in S : f[t] \in R
  BY <1>1
<1>6. Cardinality(S) = Cardinality(R)
  BY ONLY BookingInv, <1>2, <1>3, <1>4, <1>5, OneToOne
<1>7. \A t \in S : f[t] \in R /\ receipt[f[t]].quantity = ShownQuantity(t)
  BY <1>1
<1>8. AskedFor(S) = Amount(receipt, R)
  BY ONLY BookingInv, <1>2, <1>3, <1>4, <1>7, AskedIs
<1> QED
  BY <1>6, <1>8

(* A pledge that is pending stands for what is on hold for it.             *)
LEMMA PledgesStandForHeld ==
    ASSUME BookingInv, Accounted, NEW m, NEW R, NEW S,
           \/ R = In({"HELD_PLEDGE_PENDING"}) /\ S = {t \in Txn : At(t, "pledge", "PENDING")}
           \/ /\ R = OfCommodity(m, In({"HELD_PLEDGE_PENDING"}))
              /\ S = {t \in Txn : /\ At(t, "pledge", "PENDING")
                                  /\ CommodityOf(request[t].receiptId) = m}
    PROVE  Cardinality(S) = Cardinality(R) /\ AskedFor(S) = Amount(receipt, R)
<1> DEFINE All == {t \in Txn : At(t, "pledge", "PENDING")}
           f == [t \in All |-> CHOOSE r \in HeldFor(t) : receipt[r].status = "HELD_PLEDGE_PENDING"]
<1>1. ASSUME NEW t \in All
      PROVE  /\ f[t] \in In({"HELD_PLEDGE_PENDING"}) /\ receipt[f[t]].sourceTxn = t
             /\ receipt[f[t]].quantity = ShownQuantity(t)
             /\ CommodityOf(f[t]) = CommodityOf(request[t].receiptId)
  <2>1. f[t] \in HeldFor(t) /\ receipt[f[t]].status = "HELD_PLEDGE_PENDING"
    BY DEF Accounted, PledgesBacked
  <2> HIDE DEF f
  <2>2. f[t] \in Minted /\ IsHeld(f[t]) /\ receipt[f[t]].sourceTxn = t
    BY <2>1 DEF HeldFor
  <2>3. Holder(f[t], t)
    BY <2>1 DEF BookingInv, Booked, HoldsOne
  <2>4. receipt[request[t].receiptId].root = receipt[f[t]].root
    BY <2>2 DEF Accounted, HeldInPlace
  <2> QED
    BY <2>1, <2>2, <2>3, <2>4 DEF Holder, In, At, ShownQuantity, CommodityOf
<1>2. ASSUME NEW r \in In({"HELD_PLEDGE_PENDING"})
      PROVE  \E t \in All : f[t] = r
  <2>1. r \in Minted /\ receipt[r].status = "HELD_PLEDGE_PENDING" /\ IsHeld(r)
    BY DEF In, IsHeld, HeldStatus
  <2>2. PICK t \in Txn : t = receipt[r].sourceTxn /\ Holder(r, t)
    BY <2>1, HeldHasARow
  <2>3. t \in All /\ r \in HeldFor(t)
    BY <2>1, <2>2 DEF Holder, HeldFor
  <2>4. f[t] \in HeldFor(t)
    BY <2>1, <2>3
  <2> QED
    BY <2>3, <2>4 DEF BookingInv, Booked, HoldsOne
<1> HIDE DEF f
<1>3. R \in SUBSET Minted /\ S \subseteq All
  BY DEF In, OfCommodity
<1>4. \A t \in S : f[t] \in R /\ receipt[f[t]].quantity = ShownQuantity(t)
  BY <1>1, <1>3 DEF OfCommodity
<1>5. \A t, u \in S : f[t] = f[u] => t = u
  BY <1>1, <1>3
<1>6. \A r \in R : \E t \in S : f[t] = r
  BY <1>1, <1>2 DEF OfCommodity
<1>7. \A t \in S : f[t] \in R
  BY <1>4
<1>8. Cardinality(S) = Cardinality(R)
  BY ONLY BookingInv, <1>3, <1>5, <1>6, <1>7, OneToOne
<1>9. AskedFor(S) = Amount(receipt, R)
  BY ONLY BookingInv, <1>3, <1>4, <1>5, <1>6, AskedIs
<1> QED
  BY <1>8, <1>9

(* The cards of a client.                                                  *)
LEMMA ClientCardsCount ==
    ASSUME BookingInv, Traced, Accounted, NEW c \in Client
    PROVE  /\ ClientDashboard(c).totalReceipts = Cardinality(AllTab(c))
           /\ SystemStatus(c).activeReceipts = ClientDashboard(c).active
           /\ SystemStatus(c).totalPledged
                = Cardinality(WithStatus(Of(c, Filed("loan")), {"PENDING", "ACTIVE"}))
           /\ ClientDrilldown(c).activeLoansCount
                = Cardinality({r \in Own(c) \cap In({"HELD_LOAN"}) :
                                   receipt[r].approval = "APPROVED"})
           /\ \A S \in Scopes :
                 ClientBadges(c, S).withdrawalDispatches
                    = Cardinality({r \in Own(c) \cap Received(S) \cap In({"HELD_WITHDRAWAL"}) :
                                       receipt[r].approval = "APPROVED"})
<1>1. ClientDashboard(c).totalReceipts = Cardinality(AllTab(c))
  <2>1. Own(c) \cap (Minted \ In({"SPLIT"})) = AllTab(c)
    BY DEF Own, AllTab
  <2> QED
    BY <2>1 DEF ClientDashboard
<1>2. SystemStatus(c).activeReceipts = ClientDashboard(c).active
  <2>1. Eligible(c) = Own(c) \cap In({"ACTIVE"})
    BY ActiveIsApproved DEF Eligible
  <2>2. StatusesForGroup("ACTIVE") = {"ACTIVE"}
    BY DEF StatusesForGroup
  <2> QED
    BY <2>1, <2>2 DEF ClientDashboard, SystemStatus
<1>3. ASSUME NEW t \in Txn, request[t].kind \in Sorts, request[t].status \in OpenStatus
      PROVE  /\ request[t].receiptId \in In({HoldOf[request[t].kind]})
             /\ receipt[request[t].receiptId].owner = request[t].client
             /\ OnHold(request[t].kind, request[t].status,
                       receipt[request[t].receiptId].approval)
  <2>1. /\ request[t].receiptId \in HeldFor(t) /\ receipt[request[t].receiptId].sourceTxn = t
        /\ receipt[request[t].receiptId].status = HoldOf[request[t].kind]
        /\ OnHold(request[t].kind, request[t].status, receipt[request[t].receiptId].approval)
    BY <1>3, OpenHoldsIts DEF Sorts
  <2> QED
    BY <2>1 DEF HeldFor, In, Accounted, HeldInPlace
<1>4. /\ HoldOf["loan"] = "HELD_LOAN" /\ HoldOf["withdrawal"] = "HELD_WITHDRAWAL"
      /\ "loan" \in Sorts /\ "withdrawal" \in Sorts
      /\ {"PENDING", "ACTIVE", "APPROVED"} \subseteq OpenStatus
  BY DEF HoldOf, Sorts, OpenStatus
<1>5. SystemStatus(c).totalPledged
        = Cardinality(WithStatus(Of(c, Filed("loan")), {"PENDING", "ACTIVE"}))
  <2> DEFINE R == Own(c) \cap In({"HELD_LOAN"})
             S == WithStatus(Of(c, Filed("loan")), {"PENDING", "ACTIVE"})
  <2>1. S = {t \in Filed("loan") : /\ request[t].status \in OpenStatus
                                   /\ request[t].receiptId \in R}
    <3>1. \A t \in Filed("loan") : request[t].kind = "loan" /\ t \in Txn
      BY DEF Filed
    <3>2. \A t \in Filed("loan") : request[t].status \in OpenStatus =>
              /\ request[t].receiptId \in In({"HELD_LOAN"}) /\ request[t].receiptId \in Minted
              /\ receipt[request[t].receiptId].owner = request[t].client
              /\ request[t].status \in {"PENDING", "ACTIVE"}
      BY <1>3, <1>4, <3>1 DEF OnHold, In
    <3> QED
      BY <1>4, <3>2 DEF WithStatus, Of, Own
  <2>2. R \in SUBSET In({HoldOf["loan"]})
    BY <1>4
  <2> HIDE DEF R, S
  <2>3. Cardinality(S) = Cardinality(R)
    BY <1>4, <2>1, <2>2, OpenStandForHeld
  <2> QED
    BY <2>3 DEF SystemStatus, R, S
<1>6. ClientDrilldown(c).activeLoansCount
        = Cardinality({r \in Own(c) \cap In({"HELD_LOAN"}) : receipt[r].approval = "APPROVED"})
  <2> DEFINE R == {r \in Own(c) \cap In({"HELD_LOAN"}) : receipt[r].approval = "APPROVED"}
             S == WithStatus(Of(c, Filed("loan")), {"ACTIVE"})
  <2>1. S = {t \in Filed("loan") : /\ request[t].status \in OpenStatus
                                   /\ request[t].receiptId \in R}
    <3>1. \A t \in Filed("loan") : request[t].kind = "loan" /\ t \in Txn
      BY DEF Filed
    <3>2. \A t \in Filed("loan") : request[t].status \in OpenStatus =>
              /\ request[t].receiptId \in In({"HELD_LOAN"}) /\ request[t].receiptId \in Minted
              /\ receipt[request[t].receiptId].owner = request[t].client
              /\ request[t].status = "ACTIVE" <=>
                    receipt[request[t].receiptId].approval = "APPROVED"
      BY <1>3, <1>4, <3>1 DEF OnHold, In
    <3> QED
      BY <1>4, <3>2 DEF WithStatus, Of, Own
  <2>2. R \in SUBSET In({HoldOf["loan"]})
    BY <1>4
  <2> HIDE DEF R, S
  <2>3. Cardinality(S) = Cardinality(R)
    BY <1>4, <2>1, <2>2, OpenStandForHeld
  <2> QED
    BY <2>3 DEF ClientDrilldown, R, S
<1>7. ASSUME NEW W \in Scopes
      PROVE  ClientBadges(c, W).withdrawalDispatches
               = Cardinality({r \in Own(c) \cap Received(W) \cap In({"HELD_WITHDRAWAL"}) :
                                  receipt[r].approval = "APPROVED"})
  <2> DEFINE R == {r \in Own(c) \cap Received(W) \cap In({"HELD_WITHDRAWAL"}) :
                       receipt[r].approval = "APPROVED"}
             S == WithStatus(Of(c, Requests("withdrawal", W)), {"APPROVED"})
  <2>1. S = {t \in Filed("withdrawal") : /\ request[t].status \in OpenStatus
                                         /\ request[t].receiptId \in R}
    <3>1. \A t \in Filed("withdrawal") : request[t].kind = "withdrawal" /\ t \in Txn
      BY DEF Filed
    <3>2. \A t \in Filed("withdrawal") : request[t].status \in OpenStatus =>
              /\ request[t].receiptId \in In({"HELD_WITHDRAWAL"})
              /\ request[t].receiptId \in Minted
              /\ receipt[request[t].receiptId].owner = request[t].client
              /\ request[t].status = "APPROVED" <=>
                    receipt[request[t].receiptId].approval = "APPROVED"
      BY <1>3, <1>4, <3>1 DEF OnHold, In
    <3> QED
      BY <1>4, <3>2 DEF WithStatus, Of, Own, Requests, Received
  <2>2. R \in SUBSET In({HoldOf["withdrawal"]})
    BY <1>4
  <2> HIDE DEF R, S
  <2>3. Cardinality(S) = Cardinality(R)
    BY <1>4, <2>1, <2>2, OpenStandForHeld
  <2> QED
    BY <2>3 DEF ClientBadges, R, S
<1> QED
  BY <1>1, <1>2, <1>5, <1>6, <1>7

LEMMA WithdrawalCardsCount ==
    ASSUME NEW S
    PROVE  /\ WithdrawalStats(S).pending = ManagerDashboard(S).pendingWithdrawal
           /\ \A tab \in {"all", "pending", "completed"} :
                 WithdrawalStats(S)[tab] = Cardinality(WithdrawalTab(tab, S))
<1>1. /\ WithdrawalStats(S)["all"]
            = Cardinality(WithStatus(Requests("withdrawal", S), RequestStatus["withdrawal"]))
      /\ WithdrawalStats(S)["pending"] = Cardinality(WithStatus(Requests("withdrawal", S), Unsettled))
      /\ WithdrawalStats(S)["completed"]
            = Cardinality(WithStatus(Requests("withdrawal", S), {"COMPLETED"}))
  BY DEF WithdrawalStats
<1>2. /\ WithdrawalTab("all", S) = WithStatus(Requests("withdrawal", S), RequestStatus["withdrawal"])
      /\ WithdrawalTab("pending", S) = WithStatus(Requests("withdrawal", S), Unsettled)
      /\ WithdrawalTab("completed", S) = WithStatus(Requests("withdrawal", S), {"COMPLETED"})
  BY DEF WithdrawalTab
<1>3. ManagerDashboard(S).pendingWithdrawal
        = Cardinality(WithStatus(Requests("withdrawal", S), Unsettled))
  BY DEF ManagerDashboard
<1> QED
  BY <1>1, <1>2, <1>3

LEMMA BadgesCountStock ==
    ASSUME Finite, BookingInv, Accounted
    PROVE  Overview.active + Cardinality(In({"PENDING_APPROVAL"}))
             = SumOf([c \in Client |-> ClientBadges(c, Warehouse).active
                                          + ClientBadges(c, Warehouse).liened])
<1> DEFINE X == In(InWarehouse) \cup In({"PENDING_APPROVAL"})
           key == [r \in X |-> receipt[r].owner]
           g == [c \in Client |-> ClientBadges(c, Warehouse).active
                                     + ClientBadges(c, Warehouse).liened]
<1>1. X \in SUBSET Minted /\ IsFiniteSet(X)
  <2>1. X \in SUBSET Minted
    BY DEF In
  <2> QED
    BY <2>1, ReceiptsAddUp
<1>2. \A r \in X : key[r] = receipt[r].owner /\ key[r] \in Client
  BY <1>1, ReceiptsLie
<1>3. ASSUME NEW A \in SUBSET Minted, NEW B \in SUBSET Minted, A \cap B = {}
      PROVE  Cardinality(A \cup B) = Cardinality(A) + Cardinality(B)
  <2>1. IsFiniteSet(A) /\ IsFiniteSet(B)
    BY ReceiptsAddUp
  <2>2. Cardinality(A \cup B) = Cardinality(A) + Cardinality(B) - Cardinality(A \cap B)
    BY <2>1, FS_Union
  <2>3. Cardinality(A \cap B) = 0
    BY <1>3, FS_EmptySet
  <2> QED
    BY <2>1, <2>2, <2>3, FS_CardinalityType
<1>4. Cardinality(X) = Overview.active + Cardinality(In({"PENDING_APPROVAL"}))
  <2>1. In(InWarehouse) \cap In({"PENDING_APPROVAL"}) = {}
    BY DEF In, InWarehouse, HeldStatus
  <2>2. In(InWarehouse) \in SUBSET Minted /\ In({"PENDING_APPROVAL"}) \in SUBSET Minted
    BY DEF In
  <2>3. Overview.active = Cardinality(In(InWarehouse))
    BY DEF Overview
  <2> QED
    BY <1>3, <2>1, <2>2, <2>3
<1>5. ASSUME NEW c \in Client
      PROVE  g[c] = Cardinality({r \in X : key[r] = c})
  <2> DEFINE A == Tab(c, "ACTIVE") \cap Received(Warehouse)
             B == Tab(c, "LIENED") \cap Received(Warehouse)
  <2>1. g[c] = Cardinality(A) + Cardinality(B)
    BY DEF ClientBadges
  <2>2. /\ StatusesForGroup("ACTIVE") = {"ACTIVE"}
        /\ StatusesForGroup("LIENED") = {"PENDING_APPROVAL"} \cup HeldStatus
    BY DEF StatusesForGroup
  <2>3. A = Own(c) \cap In({"ACTIVE"}) /\ B = Own(c) \cap In({"PENDING_APPROVAL"} \cup HeldStatus)
    BY <2>2, ScopesAre DEF Tab, In
  <2> HIDE DEF A, B, g
  <2>4. A \in SUBSET Minted /\ B \in SUBSET Minted /\ A \cap B = {}
    BY <2>3 DEF In, HeldStatus
  <2>5. A \cup B = {r \in X : key[r] = c}
    <3> HIDE DEF key
    <3> QED
      BY <1>2, <2>3 DEF In, InWarehouse, Own
  <2> QED
    BY <1>3, <2>1, <2>4, <2>5
<1>6. DOMAIN g = Client
  OBVIOUS
<1> HIDE DEF X, key, g
<1>7. IsFiniteSet(DOMAIN g) /\ \A r \in X : key[r] \in DOMAIN g
  BY <1>2, <1>6 DEF Finite
<1>8. \A c \in DOMAIN g : g[c] = Cardinality({r \in X : key[r] = c})
  BY <1>5, <1>6
<1>9. SumOf(g) = Cardinality(X)
  BY ONLY <1>1, <1>7, <1>8, GroupedCount
<1> QED
  BY <1>4, <1>9 DEF g

LEMMA PortfolioCounts ==
    ASSUME BookingInv, Accounted
    PROVE  /\ Overview.liened = Portfolio.lienCount
           /\ Portfolio.clientCount = Cardinality({receipt[r].owner : r \in In({"HELD_LIEN"})})
           /\ Portfolio.pendingPledges = Cardinality(In({"HELD_PLEDGE_PENDING"}))
           /\ ReceiptStats.pendingReceipts = Cardinality(PendingApprovals \ In({"SPLIT"}))
<1>1. Overview.liened = Portfolio.lienCount
  BY ExposureIsStock DEF ExposureMatchesStock, Overview, Portfolio
<1>2. ASSUME NEW t \in StandingLiens
      PROVE  request[t].client = receipt[lien[t].receiptId].owner
  <2>1. lien[t].receiptId \in In({"HELD_LIEN"}) /\ receipt[lien[t].receiptId].sourceTxn = t
    BY LiensAreReceipts
  <2> QED
    BY <2>1 DEF In, IsHeld, HeldStatus, Accounted, HeldInPlace
<1>3. {request[t].client : t \in StandingLiens} = {receipt[r].owner : r \in In({"HELD_LIEN"})}
  BY <1>2, LiensAreReceipts
<1>4. Portfolio.clientCount = Cardinality({receipt[r].owner : r \in In({"HELD_LIEN"})})
  BY <1>3 DEF Portfolio
<1>5. WithStatus(Filed("pledge"), {"PENDING"}) = {t \in Txn : At(t, "pledge", "PENDING")}
  BY DEF WithStatus, Filed, At
<1>6. Portfolio.pendingPledges = Cardinality(In({"HELD_PLEDGE_PENDING"}))
  BY <1>5, PledgesStandForHeld DEF Portfolio
<1>7. {r \in Minted \ In({"SPLIT"}) : receipt[r].approval = "PENDING"}
        = PendingApprovals \ In({"SPLIT"})
  BY DEF PendingApprovals
<1> QED
  BY <1>1, <1>4, <1>6, <1>7 DEF ReceiptStats

LEMMA MovementsCount ==
    ASSUME Finite, BookingInv, Accounted, NEW S
    PROVE  /\ SumOf([m \in Commodity |-> Movement(m, S).depositCount])
                = TransactionStats(S).totalDeposit
           /\ SumOf([m \in Commodity |-> Movement(m, S).withdrawalCount])
                = WithdrawalStats(S).all
<1>1. SumOf([m \in Commodity |-> Movement(m, S).depositCount]) = TransactionStats(S).totalDeposit
  <2> DEFINE X == Roots \cap Received(S)
             key == [r \in X |-> CommodityOf(r)]
             g == [m \in Commodity |-> Movement(m, S).depositCount]
  <2>1. X \in SUBSET Minted /\ IsFiniteSet(X)
    <3>1. X \in SUBSET Minted
      BY DEF Roots
    <3> QED
      BY <3>1, ReceiptsAddUp
  <2>2. \A r \in X : key[r] = CommodityOf(r) /\ key[r] \in Commodity
    BY <2>1, ReceiptsLie
  <2>3. DOMAIN g = Commodity /\ \A m \in Commodity : g[m] = Cardinality(OfCommodity(m, X))
    BY DEF Movement
  <2>4. TransactionStats(S).totalDeposit = Cardinality(X)
    BY DEF TransactionStats
  <2> HIDE DEF X, key, g
  <2>5. \A m : OfCommodity(m, X) = {r \in X : key[r] = m}
    BY <2>2 DEF OfCommodity
  <2>6. IsFiniteSet(DOMAIN g) /\ \A r \in X : key[r] \in DOMAIN g
    BY <2>2, <2>3, FinitePlaces DEF Finite
  <2>7. \A m \in DOMAIN g : g[m] = Cardinality({r \in X : key[r] = m})
    BY <2>3, <2>5
  <2>8. SumOf(g) = Cardinality(X)
    BY ONLY <2>1, <2>6, <2>7, GroupedCount
  <2> QED
    BY <2>4, <2>8 DEF g
<1>2. SumOf([m \in Commodity |-> Movement(m, S).withdrawalCount]) = WithdrawalStats(S).all
  <2> DEFINE X == Requests("withdrawal", S)
             key == [t \in X |-> CommodityOf(request[t].receiptId)]
             g == [m \in Commodity |-> Movement(m, S).withdrawalCount]
  <2>1. X \subseteq Txn /\ IsFiniteSet(X)
    <3>1. X \subseteq Txn
      BY DEF Requests, Filed
    <3> QED
      BY <3>1, FS_Subset DEF Finite
  <2>2. \A t \in X : request[t] \in RequestRow("withdrawal") /\ request[t].receiptId \in Minted
    BY BookedRows DEF Requests, Filed
  <2>3. \A t \in X : key[t] = CommodityOf(request[t].receiptId) /\ key[t] \in Commodity
    BY <2>2, ReceiptsLie
  <2>4. /\ DOMAIN g = Commodity
        /\ \A m \in Commodity :
              g[m] = Cardinality({t \in X : CommodityOf(request[t].receiptId) = m})
    BY DEF Movement
  <2>5. WithStatus(X, RequestStatus["withdrawal"]) = X
    BY <2>2 DEF WithStatus, RequestRow
  <2>6. WithdrawalStats(S).all = Cardinality(X)
    BY <2>5 DEF WithdrawalStats
  <2> HIDE DEF X, key, g
  <2>7. IsFiniteSet(DOMAIN g) /\ \A t \in X : key[t] \in DOMAIN g
    BY <2>3, <2>4, FinitePlaces DEF Finite
  <2>8. \A m \in DOMAIN g : g[m] = Cardinality({t \in X : key[t] = m})
    <3>1. \A m : {t \in X : CommodityOf(request[t].receiptId) = m} = {t \in X : key[t] = m}
      BY <2>3
    <3> QED
      BY <2>4, <3>1
  <2>9. SumOf(g) = Cardinality(X)
    BY ONLY <2>1, <2>7, <2>8, GroupedCount
  <2> QED
    BY <2>6, <2>9 DEF g
<1> QED
  BY <1>1, <1>2

LEMMA CountersCount ==
    ASSUME Finite, BookingInv, Traced, Accounted
    PROVE  CountersAgree
<1>1. \A c \in Client :
          LET card == ClientDashboard(c)
          IN  /\ card.totalReceipts = Cardinality(AllTab(c))
              /\ SystemStatus(c).activeReceipts = card.active
              /\ SystemStatus(c).totalPledged
                    = Cardinality(WithStatus(Of(c, Filed("loan")), {"PENDING", "ACTIVE"}))
              /\ ClientDrilldown(c).activeLoansCount
                    = Cardinality({r \in Own(c) \cap In({"HELD_LOAN"}) :
                                       receipt[r].approval = "APPROVED"})
              /\ \A S \in Scopes :
                    ClientBadges(c, S).withdrawalDispatches
                        = Cardinality({r \in Own(c) \cap Received(S) \cap In({"HELD_WITHDRAWAL"}) :
                                           receipt[r].approval = "APPROVED"})
  BY ClientCardsCount
<1> QED
  BY <1>1, WithdrawalCardsCount, BadgesCountStock, PortfolioCounts, MovementsCount DEF CountersAgree

-----------------------------------------------------------------------------
(* The volumes.                                                            *)
Within(m, statuses) == OfCommodity(m, In(statuses))

LEMMA WithinIs ==
    ASSUME BookingInv, Accounted, NEW m, NEW statuses
    PROVE  /\ Within(m, statuses) \in SUBSET Minted
           /\ Within(m, statuses) \subseteq In(statuses)
           /\ OfCommodity(m, In(statuses) \cap Received(Warehouse)) = Within(m, statuses)
           /\ \A r \in Minted : r \in Within(m, statuses) <=> /\ receipt[r].status \in statuses
                                                              /\ CommodityOf(r) = m
  BY ScopesAre DEF Within, OfCommodity, In

(* What each client has, added up.                                         *)
LEMMA ActiveVolumes ==
    ASSUME Finite, BookingInv, Accounted, NEW m
    PROVE  LET total == CommoditySummary(m, Warehouse).total
           IN  /\ total = SumOf([c \in Client |-> Available(c, m)])
               /\ total = Total(CommodityReceipts("ACTIVE", m, Warehouse))
               /\ total = ActiveVolume(m, Warehouse)
               /\ total = Entry(CommodityStats(Warehouse).totalVolume, m)
<1> DEFINE X == Within(m, {"ACTIVE"})
           g == [c \in Client |-> Available(c, m)]
<1>1. X \in SUBSET Minted /\ OfCommodity(m, In({"ACTIVE"}) \cap Received(Warehouse)) = X
  BY WithinIs
<1>2. CommoditySummary(m, Warehouse).total = Total(X)
  BY <1>1 DEF CommoditySummary
<1>3. ActiveVolume(m, Warehouse) = Total(X)
  BY <1>1 DEF ActiveVolume
<1>4. CommodityReceipts("ACTIVE", m, Warehouse) = X
  <2>1. StatusesForGroup("ACTIVE") = {"ACTIVE"}
    BY DEF StatusesForGroup
  <2> QED
    BY <1>1, <2>1 DEF CommodityReceipts
<1>5. Entry(CommodityStats(Warehouse).totalVolume, m) = Amount(receipt, X)
  <2>1. CommodityStats(Warehouse).totalVolume = PerCommodity(In({"ACTIVE"}) \cap Received(Warehouse))
    BY DEF CommodityStats
  <2> QED
    BY <1>1, <2>1, EntryIs
<1>6. ASSUME NEW c \in Client
      PROVE  g[c] = Amount(receipt, X \cap Own(c))
  <2>1. {r \in Own(c) \cap In({"ACTIVE"}) : receipt[r].approval = "APPROVED" /\ CommodityOf(r) = m}
          = X \cap Own(c)
    BY ActiveIsApproved DEF Within, OfCommodity
  <2> QED
    BY <2>1, TotalIs DEF Available
<1>7. DOMAIN g = Client
  OBVIOUS
<1> HIDE DEF X, g
<1>8. SumOf(g) = Amount(receipt, X)
  BY <1>1, <1>6, <1>7, ByOwner DEF Finite
<1> QED
  BY <1>2, <1>3, <1>4, <1>5, <1>8, TotalIs DEF g

(* Withdrawals that were completed stand for what was withdrawn.           *)
LEMMA CompletedStandForGone ==
    ASSUME BookingInv, Traced, NEW R \in SUBSET In({"WITHDRAWN"}), NEW S,
           S = {t \in Txn : At(t, "withdrawal", "COMPLETED") /\ request[t].receiptId \in R}
    PROVE  AskedFor(S) = Amount(receipt, R)
<1> DEFINE f == [t \in S |-> request[t].receiptId]
<1>1. ASSUME NEW t \in S
      PROVE  /\ f[t] \in R /\ f[t] = request[t].receiptId
             /\ receipt[f[t]].sourceEvent = <<"hold", t>>
             /\ receipt[f[t]].quantity = ShownQuantity(t)
  <2>1. t \in Txn /\ At(t, "withdrawal", "COMPLETED") /\ request[t].receiptId \in R
    OBVIOUS
  <2>2. /\ receipt[request[t].receiptId].sourceEvent = <<"hold", t>>
        /\ receipt[request[t].receiptId].quantity = request[t].quantity
    BY <2>1, DispatchesAreReceipts
  <2> QED
    BY <2>1, <2>2 DEF ShownQuantity, At
<1>2. ASSUME NEW r \in R
      PROVE  \E t \in S : f[t] = r
  <2>1. PICK t \in Txn : At(t, "withdrawal", "COMPLETED") /\ request[t].receiptId = r
    BY DispatchesAreReceipts
  <2> QED
    BY <2>1
<1> HIDE DEF f
<1>3. R \in SUBSET Minted
  BY DEF In
<1>4. \A t, u \in S : f[t] = f[u] => t = u
  <2>1. \A t, u \in S : f[t] = f[u] => <<"hold", t>> = <<"hold", u>>
    BY <1>1
  <2> QED
    BY <2>1
<1>5. \A t \in S : f[t] \in R /\ receipt[f[t]].quantity = ShownQuantity(t)
  BY <1>1
<1> QED
  BY ONLY BookingInv, <1>2, <1>3, <1>4, <1>5, AskedIs

Asking(m, kind, statuses) ==
    AskedFor({t \in WithStatus(Filed(kind), statuses) : CommodityOf(request[t].receiptId) = m})

(* Open requests stand for what is on hold for them.                       *)
LEMMA OpenVolumes ==
    ASSUME BookingInv, Traced, Accounted, NEW m, NEW kind \in Sorts, NEW statuses,
           statuses \subseteq OpenStatus,
           RequestStatus[kind] \cap OpenStatus \subseteq statuses
    PROVE  Asking(m, kind, statuses) = Amount(receipt, Within(m, {HoldOf[kind]}))
<1> DEFINE R == Within(m, {HoldOf[kind]})
           S == {t \in WithStatus(Filed(kind), statuses) : CommodityOf(request[t].receiptId) = m}
<1>1. R \in SUBSET In({HoldOf[kind]})
  BY WithinIs
<1>2. \A t \in Filed(kind) : request[t].status \in OpenStatus =>
          /\ request[t].receiptId \in Minted /\ request[t].status \in statuses
          /\ receipt[request[t].receiptId].status = HoldOf[kind]
  <2> SUFFICES ASSUME NEW t \in Filed(kind), request[t].status \in OpenStatus
               PROVE  /\ request[t].receiptId \in Minted /\ request[t].status \in statuses
                      /\ receipt[request[t].receiptId].status = HoldOf[kind]
    OBVIOUS
  <2>1. t \in Txn /\ request[t].kind = kind
    BY DEF Filed
  <2>2. /\ request[t].receiptId \in Minted
        /\ receipt[request[t].receiptId].status = HoldOf[kind]
    BY <2>1, OpenHoldsIts DEF Sorts
  <2>3. request[t].status \in RequestStatus[kind]
    BY <2>1 DEF BookingInv, Booked, RowsTyped, RequestRow, NoRequest, Sorts
  <2> QED
    BY <2>2, <2>3
<1>3. S = {t \in Filed(kind) : request[t].status \in OpenStatus /\ request[t].receiptId \in R}
  BY <1>2, WithinIs DEF WithStatus
<1> HIDE DEF R, S
<1>4. AskedFor(S) = Amount(receipt, R)
  BY <1>1, <1>3, OpenStandForHeld
<1> QED
  BY <1>4 DEF Asking, R, S

LEMMA WithdrawnVolumes ==
    ASSUME BookingInv, Traced, Accounted, NEW m
    PROVE  Asking(m, "withdrawal", {"COMPLETED"}) = Amount(receipt, Within(m, {"WITHDRAWN"}))
<1> DEFINE R == Within(m, {"WITHDRAWN"})
           S == {t \in WithStatus(Filed("withdrawal"), {"COMPLETED"}) :
                    CommodityOf(request[t].receiptId) = m}
<1>1. R \in SUBSET In({"WITHDRAWN"})
  BY WithinIs
<1>2. S = {t \in Txn : At(t, "withdrawal", "COMPLETED") /\ request[t].receiptId \in R}
  <2>1. \A t \in Txn : At(t, "withdrawal", "COMPLETED") =>
            request[t].receiptId \in In({"WITHDRAWN"})
    BY DispatchesAreReceipts
  <2> QED
    BY <2>1 DEF WithStatus, Filed, At, Within, OfCommodity
<1> HIDE DEF R, S
<1>3. AskedFor(S) = Amount(receipt, R)
  BY <1>1, <1>2, CompletedStandForGone
<1> QED
  BY <1>3 DEF Asking, R, S

LEMMA PledgedVolumes ==
    ASSUME BookingInv, Accounted, NEW m
    PROVE  Asking(m, "pledge", {"PENDING"}) = Amount(receipt, Within(m, {"HELD_PLEDGE_PENDING"}))
<1> DEFINE S == {t \in WithStatus(Filed("pledge"), {"PENDING"}) :
                    CommodityOf(request[t].receiptId) = m}
<1>1. S = {t \in Txn : At(t, "pledge", "PENDING") /\ CommodityOf(request[t].receiptId) = m}
  BY DEF WithStatus, Filed, At
<1> HIDE DEF S
<1>2. AskedFor(S) = Amount(receipt, OfCommodity(m, In({"HELD_PLEDGE_PENDING"})))
  BY <1>1, PledgesStandForHeld
<1> QED
  BY <1>2 DEF Asking, Within, S

LEMMA SummaryVolumes ==
    ASSUME BookingInv, Traced, Accounted, NEW m
    PROVE  LET summary == CommoditySummary(m, Warehouse)
           IN  /\ summary.withdrawn = Asking(m, "withdrawal", {"COMPLETED"})
               /\ summary.loaned = Asking(m, "loan", {"PENDING", "ACTIVE"})
               /\ summary.traded = Asking(m, "trade", {"LISTED"})
<1>1. /\ CommoditySummary(m, Warehouse).withdrawn = Amount(receipt, Within(m, {"WITHDRAWN"}))
      /\ CommoditySummary(m, Warehouse).loaned = Amount(receipt, Within(m, {"HELD_LOAN"}))
      /\ CommoditySummary(m, Warehouse).traded
            = Amount(receipt, Within(m, {"TRADED_OUT", "HELD_TRADE"}))
  BY WithinIs, TotalIs DEF CommoditySummary
<1>2. Within(m, {"TRADED_OUT", "HELD_TRADE"}) = Within(m, {"HELD_TRADE"})
  BY DEF Within, OfCommodity, In, Traced, AllOrdinary, Ordinary
<1>3. Asking(m, "loan", {"PENDING", "ACTIVE"}) = Amount(receipt, Within(m, {"HELD_LOAN"}))
  <2>1. /\ "loan" \in Sorts /\ HoldOf["loan"] = "HELD_LOAN" /\ {"PENDING", "ACTIVE"} \subseteq OpenStatus
        /\ RequestStatus["loan"] \cap OpenStatus \subseteq {"PENDING", "ACTIVE"}
    BY DEF Sorts, HoldOf, OpenStatus, RequestStatus
  <2>2. Asking(m, "loan", {"PENDING", "ACTIVE"}) = Amount(receipt, Within(m, {HoldOf["loan"]}))
    BY <2>1, OpenVolumes
  <2> QED
    BY <2>1, <2>2
<1>4. Asking(m, "trade", {"LISTED"}) = Amount(receipt, Within(m, {"HELD_TRADE"}))
  <2>1. /\ "trade" \in Sorts /\ HoldOf["trade"] = "HELD_TRADE" /\ {"LISTED"} \subseteq OpenStatus
        /\ RequestStatus["trade"] \cap OpenStatus \subseteq {"LISTED"}
    BY DEF Sorts, HoldOf, OpenStatus, RequestStatus
  <2>2. Asking(m, "trade", {"LISTED"}) = Amount(receipt, Within(m, {HoldOf["trade"]}))
    BY <2>1, OpenVolumes
  <2> QED
    BY <2>1, <2>2
<1> QED
  BY <1>1, <1>2, <1>3, <1>4, WithdrawnVolumes

(* What is stored, and what is only expected.                              *)
LEMMA StoredVolumes ==
    ASSUME Finite, BookingInv, Traced, Accounted, NEW m
    PROVE  Entry(Distribution.stored, m)
             = SumOf([w \in Warehouse |-> Entry(StoredIn(w), m)])
                   + Total(OfCommodity(m, In({"PENDING_APPROVAL"})))
<1> DEFINE X == Within(m, InWarehouse)
           Y == Within(m, {"PENDING_APPROVAL"})
           left == Minted \ In({"SPLIT", "WITHDRAWN", "TRADED_OUT", "SEIZED", "EXPIRED", "CANCELLED"})
           g == [w \in Warehouse |-> Entry(StoredIn(w), m)]
<1>1. X \in SUBSET Minted /\ Y \in SUBSET Minted /\ X \cap Y = {}
  <2>1. X \in SUBSET Minted /\ Y \in SUBSET Minted
    BY WithinIs
  <2>2. X \cap Y = {}
    BY DEF Within, OfCommodity, In, InWarehouse, HeldStatus
  <2> QED
    BY <2>1, <2>2
<1>2. OfCommodity(m, left) = X \cup Y
  <2>1. \A r \in Minted : r \in left <=> receipt[r].status \in InWarehouse \cup {"PENDING_APPROVAL"}
    <3>1. \A r \in Minted : receipt[r].status \in Status
      BY BookedRows DEF Row
    <3> QED
      BY <3>1 DEF In, Status, ClosedStatus, InWarehouse, HeldStatus
  <2>2. left \subseteq Minted
    OBVIOUS
  <2> HIDE DEF left, X, Y
  <2> QED
    BY <1>1, <2>1, <2>2, WithinIs DEF OfCommodity, X, Y
<1>3. Entry(Distribution.stored, m) = Amount(receipt, OfCommodity(m, left))
  BY EntryIs DEF Distribution
<1>4. ASSUME NEW w \in Warehouse
      PROVE  g[w] = Amount(receipt, {r \in X : WarehouseOf(r) = w})
  <2>1. OfCommodity(m, In(InWarehouse) \cap Received({w})) = {r \in X : WarehouseOf(r) = w}
    BY DEF Within, OfCommodity, Received, In
  <2> QED
    BY <2>1, EntryIs DEF StoredIn
<1>5. DOMAIN g = Warehouse
  OBVIOUS
<1>6. Total(OfCommodity(m, In({"PENDING_APPROVAL"}))) = Amount(receipt, Y)
  BY TotalIs DEF Within
<1> HIDE DEF X, Y, left, g
<1>7. SumOf(g) = Amount(receipt, X)
  BY <1>1, <1>4, <1>5, ByWarehouse DEF Finite
<1>8. Amount(receipt, OfCommodity(m, left)) = Amount(receipt, X) + Amount(receipt, Y)
  BY <1>1, <1>2, TwoPiles
<1> QED
  BY <1>3, <1>6, <1>7, <1>8 DEF g

LEMMA MovedVolumes ==
    ASSUME Finite, BookingInv, Accounted, NEW m
    PROVE  /\ Movement(m, Warehouse).deposits
                = SumOf([place \in {p \in Lot : p[2] = m} |-> Charted(place)])
           /\ Movement(m, Warehouse).withdrawals
                = Asking(m, "withdrawal", RequestStatus["withdrawal"])
<1>1. Movement(m, Warehouse).deposits = SumOf([place \in {p \in Lot : p[2] = m} |-> Charted(place)])
  <2> DEFINE g == [place \in {p \in Lot : p[2] = m} |-> Charted(place)]
  <2>1. Roots \in SUBSET Minted /\ Roots \cap Received(Warehouse) = Roots
    BY ScopesAre DEF Roots
  <2>2. Movement(m, Warehouse).deposits = Amount(receipt, OfCommodity(m, Roots))
    BY <2>1, TotalIs DEF Movement
  <2>3. /\ DOMAIN g = {p \in Lot : p[2] = m}
        /\ \A place \in DOMAIN g : g[place] = Amount(receipt, Pile(Roots, place))
    BY TotalIs DEF Charted
  <2> HIDE DEF g
  <2>4. SumOf(g) = Amount(receipt, OfCommodity(m, Roots))
    BY <2>1, <2>3, ByPlace DEF Finite
  <2> QED
    BY <2>2, <2>4 DEF g
<1>2. {t \in Requests("withdrawal", Warehouse) : CommodityOf(request[t].receiptId) = m}
        = {t \in WithStatus(Filed("withdrawal"), RequestStatus["withdrawal"]) :
              CommodityOf(request[t].receiptId) = m}
  <2>1. "withdrawal" \in Kind
    BY DEF Kind, RequestStatus
  <2>2. Requests("withdrawal", Warehouse) = Filed("withdrawal")
    BY <2>1, DealingsAre
  <2>3. \A t \in Filed("withdrawal") : request[t].status \in RequestStatus["withdrawal"]
    BY BookedRows DEF Filed, RequestRow
  <2> QED
    BY <2>2, <2>3 DEF WithStatus
<1>3. Movement(m, Warehouse).withdrawals
        = AskedFor({t \in Requests("withdrawal", Warehouse) : CommodityOf(request[t].receiptId) = m})
  BY DEF Movement
<1> QED
  BY <1>1, <1>2, <1>3 DEF Asking

(* What the stock reports show and what they leave out.                    *)
LEMMA ReportedVolumes ==
    ASSUME Finite, BookingInv, Accounted, NEW m
    PROVE  /\ SumOf([place \in {p \in Lot : p[2] = m} |-> StockSummary(place)])
                = Amount(receipt, OfCommodity(m, ReportedStock))
           /\ SumOf([w \in Warehouse |-> Entry(CommodityDrilldown(m), w)])
                = Amount(receipt, OfCommodity(m, ReportedStock))
           /\ SumOf([place \in {p \in Lot : p[2] = m} |-> Exposure(place)])
                = Amount(receipt, Within(m, {"HELD_LIEN"}))
           /\ SumOf([c \in Client |-> Entry(Outstanding(c, Warehouse), m)])
                = Amount(receipt, Within(m, InWarehouse))
<1> DEFINE X == OfCommodity(m, ReportedStock)
<1>1. ReportedStock \in SUBSET Minted /\ X \in SUBSET Minted
  BY DEF ReportedStock, In, OfCommodity
<1>2. SumOf([place \in {p \in Lot : p[2] = m} |-> StockSummary(place)]) = Amount(receipt, X)
  <2> DEFINE g == [place \in {p \in Lot : p[2] = m} |-> StockSummary(place)]
  <2>1. /\ DOMAIN g = {p \in Lot : p[2] = m}
        /\ \A place \in DOMAIN g : g[place] = Amount(receipt, Pile(ReportedStock, place))
    BY TotalIs DEF StockSummary
  <2> HIDE DEF g
  <2>2. SumOf(g) = Amount(receipt, OfCommodity(m, ReportedStock))
    BY <1>1, <2>1, ByPlace DEF Finite
  <2> QED
    BY <2>2 DEF g
<1>3. SumOf([w \in Warehouse |-> Entry(CommodityDrilldown(m), w)]) = Amount(receipt, X)
  <2> DEFINE g == [w \in Warehouse |-> Entry(CommodityDrilldown(m), w)]
  <2>1. ASSUME NEW w \in Warehouse
        PROVE  g[w] = Amount(receipt, {r \in X : WarehouseOf(r) = w})
    <3> DEFINE Y == {r \in X : WarehouseOf(r) = w}
    <3>1. /\ DOMAIN CommodityDrilldown(m) = {WarehouseOf(r) : r \in X}
          /\ w \in DOMAIN CommodityDrilldown(m) => CommodityDrilldown(m)[w] = Total(Y)
      BY DEF CommodityDrilldown
    <3>2. w \notin {WarehouseOf(r) : r \in X} => Y = {}
      OBVIOUS
    <3>3. Y = {} => Amount(receipt, Y) = 0
      BY AmountOfNone
    <3>4. g[w] = IF w \in {WarehouseOf(r) : r \in X} THEN Total(Y) ELSE 0
      BY <3>1 DEF Entry
    <3> QED
      BY <3>2, <3>3, <3>4, TotalIs
  <2>2. DOMAIN g = Warehouse
    OBVIOUS
  <2> HIDE DEF X, g
  <2>3. SumOf(g) = Amount(receipt, X)
    BY <1>1, <2>1, <2>2, ByWarehouse DEF Finite
  <2> QED
    BY <2>3 DEF g
<1>4. SumOf([place \in {p \in Lot : p[2] = m} |-> Exposure(place)])
        = Amount(receipt, Within(m, {"HELD_LIEN"}))
  <2> DEFINE g == [place \in {p \in Lot : p[2] = m} |-> Exposure(place)]
  <2>1. /\ DOMAIN g = {p \in Lot : p[2] = m}
        /\ \A place \in DOMAIN g : g[place] = Amount(receipt, Pile(In({"HELD_LIEN"}), place))
    BY ExposureIsStock, TotalIs DEF ExposureMatchesStock, Liened
  <2>2. In({"HELD_LIEN"}) \in SUBSET Minted
    BY DEF In
  <2> HIDE DEF g
  <2>3. SumOf(g) = Amount(receipt, OfCommodity(m, In({"HELD_LIEN"})))
    BY <2>1, <2>2, ByPlace DEF Finite
  <2> QED
    BY <2>3 DEF g, Within
<1>5. SumOf([c \in Client |-> Entry(Outstanding(c, Warehouse), m)])
        = Amount(receipt, Within(m, InWarehouse))
  <2> DEFINE g == [c \in Client |-> Entry(Outstanding(c, Warehouse), m)]
             Y == Within(m, InWarehouse)
  <2>1. ASSUME NEW c \in Client
        PROVE  g[c] = Amount(receipt, Y \cap Own(c))
    <3>1. OfCommodity(m, Own(c) \cap In(InWarehouse) \cap Received(Warehouse)) = Y \cap Own(c)
      BY ScopesAre DEF OfCommodity, Within, In
    <3> QED
      BY <3>1, EntryIs DEF Outstanding
  <2>2. DOMAIN g = Client
    OBVIOUS
  <2>3. Y \in SUBSET Minted
    BY WithinIs
  <2> HIDE DEF g, Y
  <2>4. SumOf(g) = Amount(receipt, Y)
    BY <2>1, <2>2, <2>3, ByOwner DEF Finite
  <2> QED
    BY <2>4 DEF g, Y
<1> QED
  BY <1>2, <1>3, <1>4, <1>5

LEMMA OutstandingVolumes ==
    ASSUME Finite, BookingInv, Traced, Accounted, NEW m
    PROVE  SumOf([c \in Client |-> Entry(Outstanding(c, Warehouse), m)])
             = SumOf([place \in {p \in Lot : p[2] = m} |-> StockSummary(place)])
                   + Asking(m, "withdrawal", {"PAID_PENDING_APPROVAL", "APPROVED"})
                   + Asking(m, "pledge", {"PENDING"})
                   + SumOf([place \in {p \in Lot : p[2] = m} |-> Exposure(place)])
<1> DEFINE X == OfCommodity(m, ReportedStock)
           W == Within(m, {"HELD_WITHDRAWAL"})
           P == Within(m, {"HELD_PLEDGE_PENDING"})
           L == Within(m, {"HELD_LIEN"})
           All == Within(m, InWarehouse)
<1>1. Asking(m, "withdrawal", {"PAID_PENDING_APPROVAL", "APPROVED"}) = Amount(receipt, W)
  <2>1. /\ "withdrawal" \in Sorts /\ HoldOf["withdrawal"] = "HELD_WITHDRAWAL"
        /\ {"PAID_PENDING_APPROVAL", "APPROVED"} \subseteq OpenStatus
        /\ RequestStatus["withdrawal"] \cap OpenStatus \subseteq {"PAID_PENDING_APPROVAL", "APPROVED"}
    BY DEF Sorts, HoldOf, OpenStatus, RequestStatus
  <2>2. Asking(m, "withdrawal", {"PAID_PENDING_APPROVAL", "APPROVED"})
          = Amount(receipt, Within(m, {HoldOf["withdrawal"]}))
    BY <2>1, OpenVolumes
  <2> QED
    BY <2>1, <2>2
<1>3. /\ X \in SUBSET Minted /\ W \in SUBSET Minted /\ P \in SUBSET Minted /\ L \in SUBSET Minted
      /\ All \in SUBSET Minted
  <2>1. X \in SUBSET Minted
    BY DEF OfCommodity, ReportedStock, In
  <2>2. /\ W \in SUBSET Minted /\ P \in SUBSET Minted /\ L \in SUBSET Minted
        /\ All \in SUBSET Minted
    BY WithinIs
  <2> QED
    BY <2>1, <2>2
<1>4. /\ \A r \in Minted :
            /\ r \in X <=> receipt[r].status \in {"ACTIVE", "HELD_LOAN", "HELD_TRADE"} /\ CommodityOf(r) = m
            /\ r \in W <=> receipt[r].status = "HELD_WITHDRAWAL" /\ CommodityOf(r) = m
            /\ r \in P <=> receipt[r].status = "HELD_PLEDGE_PENDING" /\ CommodityOf(r) = m
            /\ r \in L <=> receipt[r].status = "HELD_LIEN" /\ CommodityOf(r) = m
            /\ r \in All <=> receipt[r].status \in InWarehouse /\ CommodityOf(r) = m
  BY DEF Within, OfCommodity, ReportedStock, In
<1> HIDE DEF X, W, P, L, All
<1>5. PICK XW \in SUBSET Minted, XWP \in SUBSET Minted : XW = X \cup W /\ XWP = XW \cup P
  BY <1>3
<1>6. X \cap W = {} /\ XW \cap P = {} /\ XWP \cap L = {}
  BY <1>3, <1>4, <1>5
<1>7. All = XWP \cup L
  BY <1>3, <1>4, <1>5 DEF InWarehouse, HeldStatus
<1>8. /\ Amount(receipt, XW) = Amount(receipt, X) + Amount(receipt, W)
      /\ Amount(receipt, XWP) = Amount(receipt, XW) + Amount(receipt, P)
      /\ Amount(receipt, All) = Amount(receipt, XWP) + Amount(receipt, L)
  BY <1>3, <1>5, <1>6, <1>7, TwoPiles
<1>9. Asking(m, "pledge", {"PENDING"}) = Amount(receipt, P)
  BY PledgedVolumes DEF P
<1>10. /\ SumOf([place \in {p \in Lot : p[2] = m} |-> StockSummary(place)]) = Amount(receipt, X)
       /\ SumOf([place \in {p \in Lot : p[2] = m} |-> Exposure(place)]) = Amount(receipt, L)
       /\ SumOf([c \in Client |-> Entry(Outstanding(c, Warehouse), m)]) = Amount(receipt, All)
  BY ReportedVolumes DEF X, L, All
<1> QED
  BY <1>1, <1>8, <1>9, <1>10

LEMMA CommoditiesAgree ==
    ASSUME Finite, BookingInv, Traced, Accounted, NEW m \in Commodity
    PROVE  LET summary == CommoditySummary(m, Warehouse)
               places == {place \in Lot : place[2] = m}
               asked(kind, statuses) ==
                   AskedFor({t \in WithStatus(Filed(kind), statuses) :
                               CommodityOf(request[t].receiptId) = m})
               reported == SumOf([place \in places |-> StockSummary(place)])
           IN  /\ summary.total = SumOf([c \in Client |-> Available(c, m)])
               /\ summary.total = Total(CommodityReceipts("ACTIVE", m, Warehouse))
               /\ summary.total = ActiveVolume(m, Warehouse)
               /\ summary.total = Entry(CommodityStats(Warehouse).totalVolume, m)
               /\ summary.withdrawn = asked("withdrawal", {"COMPLETED"})
               /\ summary.loaned = asked("loan", {"PENDING", "ACTIVE"})
               /\ summary.traded = asked("trade", {"LISTED"})
               /\ Entry(Distribution.stored, m)
                     = SumOf([w \in Warehouse |-> Entry(StoredIn(w), m)])
                           + Total(OfCommodity(m, In({"PENDING_APPROVAL"})))
               /\ Movement(m, Warehouse).deposits
                     = SumOf([place \in places |-> Charted(place)])
               /\ Movement(m, Warehouse).withdrawals
                     = asked("withdrawal", RequestStatus["withdrawal"])
               /\ reported = SumOf([w \in Warehouse |-> Entry(CommodityDrilldown(m), w)])
               /\ SumOf([c \in Client |-> Entry(Outstanding(c, Warehouse), m)])
                     = reported
                           + asked("withdrawal", {"PAID_PENDING_APPROVAL", "APPROVED"})
                           + asked("pledge", {"PENDING"})
                           + SumOf([place \in places |-> Exposure(place)])
  BY ActiveVolumes, SummaryVolumes, StoredVolumes, MovedVolumes, ReportedVolumes,
     OutstandingVolumes DEF Asking

(* The liens of a warehouse, whoever reports them.                         *)
LEMMA WarehouseLiens ==
    ASSUME Finite, BookingInv, Accounted, NEW w \in Warehouse
    PROVE  /\ Entry(Portfolio.byWarehouse, w) = Total(In({"HELD_LIEN"}) \cap Received({w}))
           /\ NetworkWarehouse(w).liened = Total(In({"HELD_LIEN"}) \cap Received({w}))
           /\ WarehouseRollups(w).liened = Total(In({"HELD_LIEN"}) \cap Received({w}))
           /\ MapThenSumSet(LAMBDA t : lien[t].remaining,
                            FinancierLiens({"ACTIVE", "PARTIALLY_RELEASED", "RELEASED"}, w))
                = Total(In({"HELD_LIEN"}) \cap Received({w}))
<1> DEFINE R == In({"HELD_LIEN"}) \cap Received({w})
           S == LiensIn(w)
           F == FinancierLiens({"ACTIVE", "PARTIALLY_RELEASED", "RELEASED"}, w)
           B == F \ S
           table == [t \in F |-> [quantity |-> lien[t].remaining]]
<1>1. R \in SUBSET In({"HELD_LIEN"}) /\ R \in SUBSET Minted
  BY DEF In
<1>2. S = {t \in StandingLiens : lien[t].receiptId \in R}
  BY LiensAreReceipts DEF LiensIn, Received, In
<1>3. S \subseteq F /\ F \subseteq Txn
  <2>1. \A t \in S : t \in Txn /\ Standing(t) /\ WarehouseOf(lien[t].receiptId) = w
    BY DEF LiensIn, StandingLiens, Standing
  <2>2. \A t \in S : lien[t] # NoLien
    BY <2>1 DEF Standing, NoLien
  <2> HIDE DEF S
  <2> QED
    BY <2>1, <2>2 DEF FinancierLiens, Standing
<1>4. \A t \in F : t \notin S => lien[t].status = "RELEASED" /\ t \in Txn
  BY DEF FinancierLiens, LiensIn, StandingLiens
<1>5. \A t \in F : table[t].quantity = lien[t].remaining
  OBVIOUS
<1>6. \A t \in F : lien[t].remaining \in Int
  BY DEF FinancierLiens, BookingInv, Booked, RowsTyped, LienRow
<1>7. /\ Portfolio.byWarehouse = [v \in {WarehouseOf(lien[t].receiptId) : t \in StandingLiens} |->
                                    MapThenSumSet(LAMBDA t : lien[t].remaining, LiensIn(v))]
      /\ NetworkWarehouse(w).liened = MapThenSumSet(LAMBDA t : lien[t].remaining, S)
      /\ WarehouseRollups(w).liened = MapThenSumSet(LAMBDA t : lien[t].remaining, S)
  BY DEF Portfolio, NetworkWarehouse, WarehouseRollups
<1>8. w \notin {WarehouseOf(lien[t].receiptId) : t \in StandingLiens} => S = {}
  BY DEF LiensIn
<1> HIDE DEF R, F, table
<1>9. /\ MapThenSumSet(LAMBDA t : lien[t].remaining, S) = Amount(receipt, R)
      /\ IsFiniteSet(S)
  <2> HIDE DEF S
  <2> QED
    BY <1>1, <1>2, RemainsStandForReceipts
<1>10. Entry(Portfolio.byWarehouse, w) = Amount(receipt, R)
  <2>1. CASE w \in {WarehouseOf(lien[t].receiptId) : t \in StandingLiens}
    BY <1>7, <1>9, <2>1 DEF Entry
  <2>2. CASE w \notin {WarehouseOf(lien[t].receiptId) : t \in StandingLiens}
    <3>1. \A r \in R : \E t \in StandingLiens : lien[t].receiptId = r
      BY <1>1, LiensAreReceipts
    <3>2. R = {}
      BY <1>2, <1>8, <2>2, <3>1
    <3>3. Amount(receipt, R) = 0
      BY <3>2, AmountOfNone
    <3>4. Entry(Portfolio.byWarehouse, w) = 0
      BY <1>7, <2>2 DEF Entry
    <3> QED
      BY <3>3, <3>4
  <2> QED
    BY <2>1, <2>2
<1> HIDE DEF S
<1>11. /\ F = S \cup B /\ S \cap B = {} /\ B \subseteq F
  BY <1>3
<1>12. IsFiniteSet(F) /\ IsFiniteSet(B)
  BY <1>3, <1>11, FS_Subset DEF Finite
<1>13. \A t \in B : table[t].quantity = 0
  BY <1>4, <1>5 DEF Accounted, ReleasedIsPaid
<1> HIDE DEF B
<1>14. \A t \in F : table[t].quantity \in Int
  BY <1>5, <1>6
<1>15. Amount(table, F) = Amount(table, S) + Amount(table, B)
  BY <1>9, <1>11, <1>12, <1>14, AmountOfBoth
<1>16. Amount(table, B) = 0
  BY <1>12, <1>13, ZerosAddNothing
<1>17. MapThenSumSet(LAMBDA t : lien[t].remaining, F) = Amount(table, F)
  BY <1>5, <1>6, <1>12, RemainsAre
<1>18. MapThenSumSet(LAMBDA t : lien[t].remaining, S) = Amount(table, S)
  BY <1>3, <1>5, <1>6, <1>9, RemainsAre
<1>19. Amount(receipt, R) \in Int
  BY <1>1, ReceiptsAddUp
<1>20. MapThenSumSet(LAMBDA t : lien[t].remaining, F) = Amount(receipt, R)
  BY <1>9, <1>15, <1>16, <1>17, <1>18, <1>19
<1> QED
  BY <1>7, <1>9, <1>10, <1>20, TotalIs DEF R, F

LEMMA WarehousesAgree ==
    ASSUME Finite, BookingInv, Traced, Accounted, NEW w \in Warehouse
    PROVE  /\ Entry(Portfolio.byWarehouse, w) = Total(In({"HELD_LIEN"}) \cap Received({w}))
           /\ Entry(Portfolio.byWarehouse, w) = NetworkWarehouse(w).liened
           /\ WarehouseRollups(w).totalStock = NetworkWarehouse(w).stored
           /\ WarehouseSummary(w).totalCommodity
                 = SumOf([m \in Commodity |-> Entry(WarehouseRollups(w).totalStock, m)])
           /\ WarehouseRollups(w).clientCount = WarehouseSummary(w).totalClients
           /\ WarehouseRollups(w).liened
                 = MapThenSumSet(LAMBDA t : lien[t].remaining,
                                 FinancierLiens({"ACTIVE", "PARTIALLY_RELEASED", "RELEASED"}, w))
           /\ WarehouseSummary(w).billed = Total(In({"WITHDRAWN"}) \cap Received({w}))
<1> DEFINE stored == In(InWarehouse) \cap Received({w})
<1>1. /\ WarehouseRollups(w).totalStock = PerCommodity(stored)
      /\ NetworkWarehouse(w).stored = PerCommodity(stored)
  BY DEF WarehouseRollups, NetworkWarehouse, StoredIn
<1>2. /\ WarehouseRollups(w).clientCount = Cardinality({receipt[r].owner : r \in stored})
      /\ WarehouseSummary(w).totalClients = Cardinality({receipt[r].owner : r \in stored})
      /\ WarehouseSummary(w).totalCommodity = Total(stored)
  BY DEF WarehouseRollups, WarehouseSummary
<1>3. Total(stored) = SumOf([m \in Commodity |-> Entry(PerCommodity(stored), m)])
  <2> DEFINE g == [m \in Commodity |-> Entry(PerCommodity(stored), m)]
  <2>1. stored \in SUBSET Minted
    BY DEF In
  <2>2. DOMAIN g = Commodity /\ \A m \in Commodity : g[m] = Amount(receipt, OfCommodity(m, stored))
    BY EntryIs
  <2> HIDE DEF g, stored
  <2>3. SumOf(g) = Amount(receipt, stored)
    BY <2>1, <2>2, ByCommodity DEF Finite
  <2> QED
    BY <2>3, TotalIs DEF g
<1>4. WarehouseSummary(w).billed = Total(In({"WITHDRAWN"}) \cap Received({w}))
  <2> DEFINE R == In({"WITHDRAWN"}) \cap Received({w})
             S == WithStatus(Requests("withdrawal", {w}), {"COMPLETED"})
  <2>1. R \in SUBSET In({"WITHDRAWN"})
    OBVIOUS
  <2>2. S = {t \in Txn : At(t, "withdrawal", "COMPLETED") /\ request[t].receiptId \in R}
    <3>1. \A t \in Txn : At(t, "withdrawal", "COMPLETED") =>
              request[t].receiptId \in In({"WITHDRAWN"}) /\ request[t].receiptId \in Minted
      BY DispatchesAreReceipts DEF In
    <3> QED
      BY <3>1 DEF WithStatus, Requests, Filed, At, Received
  <2>3. WarehouseSummary(w).billed = AskedFor(S)
    BY DEF WarehouseSummary
  <2> HIDE DEF R, S
  <2>4. AskedFor(S) = Amount(receipt, R)
    BY <2>1, <2>2, CompletedStandForGone
  <2> QED
    BY <2>3, <2>4, TotalIs DEF R
<1> HIDE DEF stored
<1> QED
  BY <1>1, <1>2, <1>3, <1>4, WarehouseLiens

(* What is used is on offer or locked.                                     *)
LEMMA UtilizationAgrees ==
    ASSUME Finite, BookingInv, Accounted
    PROVE  Utilization = SumOf(ManagerDashboard(Warehouse).utilized)
               + SumOf([c \in Client |-> SumOf([m \in Commodity |-> Locked(c, m)])])
<1> DEFINE A == In({"ACTIVE"})
           H == In(HeldStatus)
           used == ManagerDashboard(Warehouse).utilized
           locked == [c \in Client |-> SumOf([m \in Commodity |-> Locked(c, m)])]
<1>1. /\ A \in SUBSET Minted /\ H \in SUBSET Minted /\ A \cap H = {}
      /\ In(InWarehouse) = A \cup H
  BY DEF In, InWarehouse, HeldStatus
<1>2. SumOf(used) = Amount(receipt, A)
  <2>1. A \cap Received(Warehouse) = A
    BY <1>1, ScopesAre
  <2>2. used = [w \in Warehouse |-> Total({r \in A : WarehouseOf(r) = w})]
    BY <2>1 DEF ManagerDashboard
  <2> HIDE DEF used, A
  <2>3. /\ DOMAIN used = Warehouse
        /\ \A w \in Warehouse : used[w] = Amount(receipt, {r \in A : WarehouseOf(r) = w})
    BY <2>2, TotalIs
  <2> QED
    BY <1>1, <2>3, ByWarehouse DEF Finite
<1>3. ASSUME NEW c \in Client
      PROVE  locked[c] = Amount(receipt, H \cap Own(c))
  <2> DEFINE g == [m \in Commodity |-> Locked(c, m)]
             X == H \cap Own(c)
  <2>1. \A m : {r \in Own(c) \cap In(HeldStatus) : CommodityOf(r) = m} = OfCommodity(m, X)
    BY DEF OfCommodity
  <2>2. DOMAIN g = Commodity /\ \A m \in Commodity : g[m] = Amount(receipt, OfCommodity(m, X))
    BY <2>1, TotalIs DEF Locked
  <2>3. X \in SUBSET Minted /\ locked[c] = SumOf(g)
    BY <1>1
  <2> HIDE DEF g, X, locked
  <2>4. SumOf(g) = Amount(receipt, X)
    BY <2>2, <2>3, ByCommodity DEF Finite
  <2> QED
    BY <2>3, <2>4 DEF X
<1>4. DOMAIN locked = Client
  OBVIOUS
<1>5. Utilization = Amount(receipt, In(InWarehouse))
  BY TotalIs DEF Utilization
<1> HIDE DEF A, H, used, locked
<1>6. SumOf(locked) = Amount(receipt, H)
  BY <1>1, <1>3, <1>4, ByOwner DEF Finite
<1>7. Amount(receipt, In(InWarehouse)) = Amount(receipt, A) + Amount(receipt, H)
  BY <1>1, TwoPiles
<1> QED
  BY <1>2, <1>5, <1>6, <1>7 DEF used, locked

LEMMA VolumesAreTheSame ==
    ASSUME Finite, BookingInv, Traced, Accounted
    PROVE  VolumesAgree
  BY CommoditiesAgree, WarehousesAgree, UtilizationAgrees DEF VolumesAgree

(* In every reachable state, with finitely many clients, requests and      *)
(* piles, each figure of the dashboards and reports is what the receipts   *)
(* say: the wizard, the histories, the trails and the page of a receipt,   *)
(* the cards and the lists they count, and the volumes of the reports.     *)
THEOREM FiguresAlwaysMatch ==
    ASSUME BookingAssumption, Scale = 1, Finite
    PROVE  Spec => []FiguresMatchStock
<1>1. BookingInv /\ Traced /\ Accounted /\ JournalInv => FiguresMatchStock
  <2> SUFFICES ASSUME BookingInv, Traced, Accounted, JournalInv
               PROVE  FiguresMatchStock
    OBVIOUS
  <2>1. RowsExplained
    BY DEF JournalInv
  <2> QED
    BY <2>1, EligibleIsOffered, HistoriesAreTheSame, TrailsLeadToGoods, DetailsAreRight,
       CountersCount, ListsAreTheSame, VolumesAreTheSame DEF FiguresMatchStock
<1> QED
  BY <1>1, JournalStaysTrue, BookingInvariance, TracedInvariance, AccountedInvariance, PTL
=============================================================================
