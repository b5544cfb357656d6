----------------------------- MODULE Withdrawals -----------------------------
(***************************************************************************)
(* The withdrawal flow of src/src/withdrawals over the receipt ledger.     *)
(*                                                                         *)
(* A request is handled by a method that reads the database, calls one     *)
(* ledger primitive and writes the withdrawal row: three transactions of   *)
(* their own, with nothing locked in between.  Each is an action here, and *)
(* call[c] is what handler c remembers between them: the stale snapshot it *)
(* decides on.  The clean-up cron runs beside the handlers.                *)
(*                                                                         *)
(* Not here: fees, reasons and planned dates (editWithdrawal changes only  *)
(* these), permissions, notifications.                                     *)
(***************************************************************************)
EXTENDS InventoryLedger, Handlers

CONSTANTS
    Withdrawal,   \* bound: withdrawal rows
    Pledge,       \* a transaction of another flow that wants the same stock
    Stock         \* quantity of the one approved deposit the run starts with

HoldKey(w) == <<"hold", w>>
ApproveKey(w) == <<"approveHold", w>>
ReleaseKey(w) == <<"release", w>>
ConsumeKey(w) == <<"consume", w>>
PledgeKey == <<"hold", Pledge>>
DepositKey == <<"deposit", None>>
AdmitKey == <<"admit", None>>

ASSUME WithdrawalAssumption ==
    /\ Withdrawal \cup {Pledge} \subseteq Txn
    /\ Pledge \notin Withdrawal
    /\ {"hold", "approveHold", "release", "consume"} \X Withdrawal \subseteq Key
    /\ {PledgeKey, DepositKey, AdmitKey} \subseteq Key
    /\ {"HELD_WITHDRAWAL", "HELD_PLEDGE_PENDING"} \subseteq HoldStatus
    /\ MaxReceipts > 0
    /\ Stock \in 1..MaxQuantity

WithdrawalStatus == {"PENDING_PAYMENT", "PAID_PENDING_APPROVAL", "APPROVED",
                     "COMPLETED", "REJECTED"}

VARIABLES
    row,    \* the withdrawals table
    sweep   \* the rows the clean-up cron has found and not yet rejected

vars == <<ledgerVars, row, call, sweep>>

(* live: younger than PENDING_PAYMENT_TTL_MINUTES.                         *)
WithdrawalRow == [status : WithdrawalStatus, receiptId : Minted, client : Client,
                  quantity : 1..MaxQuantity, live : BOOLEAN]

NoWithdrawal == [status |-> "NONE", receiptId |-> NoReceipt, client |-> None,
                 quantity |-> 0, live |-> FALSE]

Exists(w) == row[w].status # "NONE"

-----------------------------------------------------------------------------
Init ==
    /\ Stocked(Stock, DepositKey, AdmitKey)
    /\ row = [w \in Withdrawal |-> NoWithdrawal]
    /\ call = [c \in Call |-> Idle]
    /\ sweep = {}

-----------------------------------------------------------------------------
Abort(c) ==
    /\ Abandon(c)
    /\ UNCHANGED <<ledgerVars, row, sweep>>

(* loadWithdrawal: the handler keeps the row as it was.                    *)
Load(c, op, w, statuses, step) ==
    /\ row[w].status \in statuses
    /\ Begin(c, [op |-> op, step |-> step, w |-> w, seen |-> row[w].status,
                 receiptId |-> row[w].receiptId, quantity |-> row[w].quantity])
    /\ UNCHANGED <<ledgerVars, row, sweep>>

(* The unconditional update of the row by id.                              *)
Write(c, status, receiptId) ==
    /\ row' = [row EXCEPT ![call[c].w].status = status,
                          ![call[c].w].receiptId = receiptId]
    /\ Return(c)
    /\ UNCHANGED <<ledgerVars, sweep>>

(* One ledger call from a handler: the primitive, or the replay of a call  *)
(* that already went through under the same key.                           *)
Ledger(c, primitive, k) ==
    /\ primitive \/ Replay(k)
    /\ Continue(c, [call[c] EXCEPT !.step = "update"])
    /\ UNCHANGED <<row, sweep>>

-----------------------------------------------------------------------------
(* createWithdrawalRequest: read the receipt, look for the client's own    *)
(* live request on it, sum up the live requests of everybody, insert the   *)
(* row.  No hold is placed.                                                *)
CreateLoad(c, client, r, q) ==
    /\ receipt[r].status = "ACTIVE"
    /\ receipt[r].approval = "APPROVED"
    /\ ~receipt[r].isParent
    /\ Begin(c, [op |-> "create", step |-> "own", client |-> client,
                 receiptId |-> r, quantity |-> q])
    /\ UNCHANGED <<ledgerVars, row, sweep>>

Reservations(r) ==
    {w \in Withdrawal : /\ row[w].status = "PENDING_PAYMENT"
                        /\ row[w].receiptId = r
                        /\ row[w].live}

Reserved(r) == MapThenSumSet(LAMBDA w : row[w].quantity, Reservations(r))

CreateCheckOwn(c) ==
    /\ At(c, "create", "own")
    /\ \A w \in Reservations(call[c].receiptId) : row[w].client # call[c].client
    /\ Continue(c, [call[c] EXCEPT !.step = "available"])
    /\ UNCHANGED <<ledgerVars, row, sweep>>

(* Variant: the reservations of other clients are not subtracted.          *)
CreateCheckQuantity(c) ==
    /\ At(c, "create", "available")
    /\ call[c].quantity <= receipt[call[c].receiptId].quantity
    /\ Continue(c, [call[c] EXCEPT !.step = "insert"])
    /\ UNCHANGED <<ledgerVars, row, sweep>>

(* availableForWithdrawal.  The quantity of a receipt never changes, so it *)
(* can be read here.                                                       *)
CreateCheckAvailable(c) ==
    LET r == call[c].receiptId
    IN  /\ At(c, "create", "available")
        /\ call[c].quantity <= receipt[r].quantity - Reserved(r)
        /\ Continue(c, [call[c] EXCEPT !.step = "insert"])
        /\ UNCHANGED <<ledgerVars, row, sweep>>

CreateInsert(c, w) ==
    /\ At(c, "create", "insert")
    /\ ~Exists(w)
    /\ row' = [row EXCEPT ![w] =
          [status |-> "PENDING_PAYMENT", receiptId |-> call[c].receiptId,
           client |-> call[c].client, quantity |-> call[c].quantity,
           live |-> TRUE]]
    /\ Return(c)
    /\ UNCHANGED <<ledgerVars, sweep>>

-----------------------------------------------------------------------------
(* confirmPayment: hold the goods, then point the row at the held child.   *)
ConfirmLoad(c, w) == Load(c, "confirm", w, {"PENDING_PAYMENT"}, "hold")

(* Variant: any held receipt will do.                                      *)
HeldByAnyone(k) == {r \in Minted : IsHeld(r)}

(* The child a replayed hold finds among the children of its event.        *)
HeldBy(k) == {r \in Minted : receipt[r].sourceEvent = k /\ IsHeld(r)}

ConfirmHold(c, w) ==
    /\ At(c, "confirm", "hold") /\ call[c].w = w
    /\ \/ Hold(HoldKey(w), call[c].receiptId, Exactly(call[c].quantity),
               "HELD_WITHDRAWAL", w)
       \/ Replay(HoldKey(w))
    /\ \E held \in HeldBy(HoldKey(w))' :
          Continue(c, [call[c] EXCEPT !.step = "update", !.receiptId = held])
    /\ UNCHANGED <<row, sweep>>

(* Variant: the link to the held child is lost.                            *)
ConfirmUpdateUnlinked(c) ==
    /\ At(c, "confirm", "update")
    /\ Write(c, "PAID_PENDING_APPROVAL", NoReceipt)

(* Variant: the row keeps pointing at the receipt that was split.          *)
ConfirmUpdateNotMoved(c) ==
    /\ At(c, "confirm", "update")
    /\ Write(c, "PAID_PENDING_APPROVAL", row[call[c].w].receiptId)

ConfirmUpdate(c) ==
    /\ At(c, "confirm", "update")
    /\ Write(c, "PAID_PENDING_APPROVAL", call[c].receiptId)

-----------------------------------------------------------------------------
ApproveLoad(c, w) == Load(c, "approve", w, {"PAID_PENDING_APPROVAL"}, "approveHold")

ApproveLedger(c) ==
    /\ At(c, "approve", "approveHold")
    /\ Ledger(c, ApproveHold(ApproveKey(call[c].w), call[c].receiptId),
              ApproveKey(call[c].w))

ApproveUpdate(c) ==
    /\ At(c, "approve", "update")
    /\ Write(c, "APPROVED", row[call[c].w].receiptId)

-----------------------------------------------------------------------------
(* rejectWithdrawal: anything but COMPLETED; whether a hold has to be      *)
(* released is read from the receipt the loaded row pointed at.            *)
RejectLoad(c, w) ==
    Load(c, "reject", w, WithdrawalStatus \ {"COMPLETED"}, "readReceipt")

(* Variant: the child is looked up by the hold's key instead.              *)
RejectReadByKey(c) ==
    /\ At(c, "reject", "readReceipt")
    /\ LET held == HeldBy(HoldKey(call[c].w))
       IN  \/ /\ held = {}
              /\ Continue(c, [call[c] EXCEPT !.step = "update"])
           \/ \E r \in held :
                 Continue(c, [call[c] EXCEPT !.step = "release", !.receiptId = r])
    /\ UNCHANGED <<ledgerVars, row, sweep>>

RejectRead(c) ==
    /\ At(c, "reject", "readReceipt")
    /\ Continue(c, [call[c] EXCEPT
          !.step = IF IsHeld(call[c].receiptId) THEN "release" ELSE "update"])
    /\ UNCHANGED <<ledgerVars, row, sweep>>

RejectRelease(c) ==
    /\ At(c, "reject", "release")
    /\ Ledger(c, Release(ReleaseKey(call[c].w), call[c].receiptId),
              ReleaseKey(call[c].w))

(* A row that was loaded as REJECTED is not written again.                 *)
RejectUpdate(c) ==
    /\ At(c, "reject", "update")
    /\ IF call[c].seen = "REJECTED"
       THEN Return(c) /\ UNCHANGED <<ledgerVars, row, sweep>>
       ELSE Write(c, "REJECTED", row[call[c].w].receiptId)

-----------------------------------------------------------------------------
(* completeWithdrawal: the goods leave, the fee is computed again (which   *)
(* may fail for want of a policy: Abort), the row is closed.               *)
(* Variant: a paid request can be completed before it is approved.         *)
CompleteLoadPaid(c, w) ==
    Load(c, "complete", w, {"PAID_PENDING_APPROVAL", "APPROVED"}, "consume")

CompleteLoad(c, w) == Load(c, "complete", w, {"APPROVED"}, "consume")

CompleteLedger(c) ==
    /\ At(c, "complete", "consume")
    /\ Ledger(c, Consume(ConsumeKey(call[c].w), call[c].receiptId),
              ConsumeKey(call[c].w))

CompleteUpdate(c) ==
    /\ At(c, "complete", "update")
    /\ Write(c, "COMPLETED", row[call[c].w].receiptId)

-----------------------------------------------------------------------------
(* WithdrawalsCleanupService.expirePendingPayment: find the lapsed rows,   *)
(* then reject those that still await payment.                             *)
Lapsed(w) == row[w].status = "PENDING_PAYMENT" /\ ~row[w].live

(* Variant: the cutoff is compared the wrong way round.                    *)
SweepFindLive ==
    /\ sweep = {}
    /\ sweep' = {w \in Withdrawal : row[w].status = "PENDING_PAYMENT" /\ row[w].live}
    /\ sweep' # {}
    /\ UNCHANGED <<ledgerVars, row, call>>

SweepFind ==
    /\ sweep = {}
    /\ sweep' = {w \in Withdrawal : Lapsed(w)}
    /\ sweep' # {}
    /\ UNCHANGED <<ledgerVars, row, call>>

(* Variant: updateMany by id alone.                                        *)
SweepUpdateById ==
    /\ sweep # {}
    /\ row' = [w \in Withdrawal |->
          IF w \in sweep THEN [row[w] EXCEPT !.status = "REJECTED"] ELSE row[w]]
    /\ sweep' = {}
    /\ UNCHANGED <<ledgerVars, call>>

SweepUpdate ==
    /\ sweep # {}
    /\ row' = [w \in Withdrawal |->
          IF w \in sweep /\ row[w].status = "PENDING_PAYMENT"
          THEN [row[w] EXCEPT !.status = "REJECTED"]
          ELSE row[w]]
    /\ sweep' = {}
    /\ UNCHANGED <<ledgerVars, call>>

SweepAbort ==
    /\ sweep # {}
    /\ sweep' = {}
    /\ UNCHANGED <<ledgerVars, row, call>>

(* Thirty minutes pass.                                                    *)
Lapse(w) ==
    /\ row[w].live
    /\ row' = [row EXCEPT ![w].live = FALSE]
    /\ UNCHANGED <<ledgerVars, call, sweep>>

(* Another flow (a pledge) holds part of the same stock.                   *)
HoldElsewhere(r, q) ==
    /\ Hold(PledgeKey, r, Exactly(q), "HELD_PLEDGE_PENDING", Pledge)
    /\ UNCHANGED <<row, call, sweep>>

-----------------------------------------------------------------------------
Quantity == 1..MaxQuantity

Create(c) ==
    \/ \E client \in Client, r \in Minted, q \in Quantity : CreateLoad(c, client, r, q)
    \/ CreateCheckOwn(c)
    \/ CreateCheckAvailable(c)
    \/ \E w \in Withdrawal : CreateInsert(c, w)

Confirm(c) ==
    \/ \E w \in Withdrawal : ConfirmLoad(c, w) \/ ConfirmHold(c, w)
    \/ ConfirmUpdate(c)

Approve(c) ==
    \/ \E w \in Withdrawal : ApproveLoad(c, w)
    \/ ApproveLedger(c)
    \/ ApproveUpdate(c)

Reject(c) ==
    \/ \E w \in Withdrawal : RejectLoad(c, w)
    \/ RejectRead(c)
    \/ RejectRelease(c)
    \/ RejectUpdate(c)

Complete(c) ==
    \/ \E w \in Withdrawal : CompleteLoad(c, w)
    \/ CompleteLedger(c)
    \/ CompleteUpdate(c)

Sweep == SweepFind \/ SweepUpdate \/ SweepAbort

Next ==
    \/ \E c \in Call :
          \/ Create(c)
          \/ Confirm(c)
          \/ Approve(c)
          \/ Reject(c)
          \/ Complete(c)
          \/ Abort(c)
    \/ Sweep
    \/ \E w \in Withdrawal : Lapse(w)
    \/ \E r \in Minted, q \in Quantity : HoldElsewhere(r, q)

Spec == Init /\ [][Next]_vars

(* The cron fires every ten minutes, and not every run of it is cut short; *)
(* nothing is assumed of clients and administrators.                       *)
FairSpec == Spec /\ WF_vars(SweepFind) /\ SF_vars(SweepUpdate)

-----------------------------------------------------------------------------
(***************************************************************************)
(* What the flow promises, whatever is interleaved, aborted and retried.   *)
(***************************************************************************)

(* Type invariant.                                                         *)
TypeOK ==
    /\ LedgerTypeOK
    /\ \A w \in Withdrawal : Exists(w) => row[w] \in WithdrawalRow
    /\ sweep \subseteq {w \in Withdrawal : Exists(w)}

Did(k) == event[k] # NoEvent

(* A handler that dies between the hold and the row update can be retried: *)
(* as long as the row awaits payment, the replayed hold still finds the    *)
(* held child ("the hold (idempotent) ... self-healing on retry").         *)
ConfirmIsRetryable ==
    \A w \in Withdrawal :
        row[w].status = "PENDING_PAYMENT" /\ Did(HoldKey(w)) => HeldBy(HoldKey(w)) # {}

(* No goods leave the warehouse for a withdrawal an administrator has not  *)
(* approved, although consume itself does not look at the approval.        *)
NoRemovalWithoutApproval ==
    \A r \in Minted : receipt[r].status = "WITHDRAWN" =>
        /\ receipt[r].approval = "APPROVED"
        /\ \E w \in Withdrawal : event[ApproveKey(w)].from = r

(* What a handler does to the stock, it does to the child its own hold     *)
(* placed, whatever stale receipt id it carries: a reject that raced with  *)
(* other flows never frees or removes somebody else's goods.               *)
OwnHoldOnly ==
    \A w \in Withdrawal :
        \A k \in {ApproveKey(w), ReleaseKey(w), ConsumeKey(w)} :
            Did(k) => receipt[event[k].from].sourceTxn = w

(* The goods of a withdrawal are given back or taken out, never both.      *)
ReleasedOrRemoved ==
    \A w \in Withdrawal : ~(Did(ReleaseKey(w)) /\ Did(ConsumeKey(w)))

(* The row never runs ahead of the stock: past payment it points at the    *)
(* child that holds exactly its quantity; approved, and not released by a  *)
(* reject that raced, that child is approved and reserved or gone;         *)
(* completed, it is gone.                                                  *)
StatusIsBacked ==
    \A w \in Withdrawal :
        LET r == receipt[row[w].receiptId]
        IN  /\ row[w].status \in {"PAID_PENDING_APPROVAL", "APPROVED", "COMPLETED"} =>
                  r.sourceTxn = w /\ r.quantity = row[w].quantity
            /\ row[w].status = "APPROVED" /\ ~Did(ReleaseKey(w)) =>
                  r.approval = "APPROVED" /\ r.status \in {"HELD_WITHDRAWAL", "WITHDRAWN"}
            /\ row[w].status = "COMPLETED" => r.status = "WITHDRAWN"

(* Every handler keeps to the hold of its own withdrawal, and that hold    *)
(* ends one way.                                                           *)
HandlersKeepToTheirHold == TypeOK /\ OwnHoldOnly /\ ReleasedOrRemoved

(* What a row says of the goods, the ledger bears out.                     *)
RowsAreBacked == StatusIsBacked /\ NoRemovalWithoutApproval

(* The clean-up never rejects a row that payment was confirmed for: past   *)
(* PENDING_PAYMENT only a reject in progress does.                         *)
OnlyRejectRejectsPaid ==
    [][\A w \in Withdrawal :
          /\ row[w].status \in {"PAID_PENDING_APPROVAL", "APPROVED"}
          /\ row'[w].status = "REJECTED"
          => \E c \in Call : call[c] # Idle /\ call[c].op = "reject" /\ call[c].w = w]_vars

(* One request at a time, the soft reservation is a reservation: together, *)
(* the live unpaid requests on a leaf never ask for more than it holds.    *)
NoOverbooking ==
    \A r \in Minted : Reserved(r) <= receipt[r].quantity

(* A request that is not paid for in time leaves the queue: it is paid     *)
(* late or rejected, it does not sit there forever.                        *)
LapsedLeaveQueue ==
    \A w \in Withdrawal : Lapsed(w) ~> ~Lapsed(w)

-----------------------------------------------------------------------------
(***************************************************************************)
(* What the comments of the code promise, and the code does not do.        *)
(***************************************************************************)

(* "No ledger work is required (no hold was ever placed)": the clean-up    *)
(* only rejects rows that hold no stock.                                   *)
SweptRowsHoldNothing ==
    [][SweepUpdate =>
          \A w \in sweep : row[w].status = "PENDING_PAYMENT" => ~Did(HoldKey(w))]_vars

(* "COMPLETED is terminal - the goods are gone, nothing to undo."          *)
CompletedIsTerminal ==
    [][\A w \in Withdrawal :
          row[w].status = "COMPLETED" => row'[w].status = "COMPLETED"]_vars
=============================================================================
