------------------------------ MODULE Deposits ------------------------------
(***************************************************************************)
(* Deposits over the receipt ledger: the warehouse manager's part of       *)
(* src/src/warehouse-manager and the tenant admin's of                     *)
(* src/src/admin/services/admin-receipt.service.ts.                        *)
(*                                                                         *)
(* A manager files a deposit; while it awaits approval the manager or the  *)
(* admin may correct it; the admin approves or rejects it.  A correction   *)
(* writes the receipts table by id, outside the ledger, and goes by the    *)
(* status it read before.  What clients do with an approved deposit is in  *)
(* the other modules of the services; Custody puts them together.          *)
(*                                                                         *)
(* Only the quantity of a correction is kept: commodity, warehouse, grade  *)
(* and date are not told apart, scope and grading checks always pass.      *)
(***************************************************************************)
EXTENDS InventoryLedger, Handlers

CONSTANT Filing  \* bound: createDeposit calls, each with a random key

FileKey(d) == <<"deposit", d>>
ApproveKey(r) == <<"approve", r>>
RejectKey(r) == <<"reject", r>>

DepositKeys ==
    {"deposit"} \X Filing \cup {"approve", "reject"} \X Receipt

(* What a module that runs these actions must assume.                      *)
DepositAssumption == DepositKeys \subseteq Key

vars == <<ledgerVars, call>>

Quantity == 1..MaxQuantity

-----------------------------------------------------------------------------
(* Handlers that are one ledger call still need a handler: with a single   *)
(* one in Call, requests are served one after the other.                   *)
AtOnce ==
    /\ \E c \in Call : call[c] = Idle
    /\ UNCHANGED call

Init ==
    /\ LedgerInit
    /\ call = [c \in Call |-> Idle]

(* createDeposit: scope, linkage, commodity and grading only decide        *)
(* whether the deposit is made.                                            *)
CreateDeposit(d) ==
    /\ \E client \in Client, n \in Quantity : Deposit(FileKey(d), client, Exactly(n))
    /\ AtOnce

(* Variant: the admin's list of statuses with transactions in flight is    *)
(* the only one consulted.                                                 *)
EditLoadUnlocked(c, r, n) ==
    /\ receipt[r].status \notin HeldStatus \cup ClosedStatus
    /\ Begin(c, [op |-> "editDeposit", step |-> "update", r |-> r, quantity |-> n])
    /\ UNCHANGED ledgerVars

(* editDeposit and editDepositAsAdmin load the receipt; both accept a new  *)
(* quantity only for a deposit that awaits approval.                       *)
EditLoad(c, r, n) ==
    /\ receipt[r].status = "PENDING_APPROVAL"
    /\ Begin(c, [op |-> "editDeposit", step |-> "update", r |-> r, quantity |-> n])
    /\ UNCHANGED ledgerVars

(* Variant: the quantity is corrected down the lineage as well.            *)
EditUpdateTree(c) ==
    /\ At(c, "editDeposit", "update")
    /\ receipt' = [r \in Receipt |->
          IF r \in Minted /\ receipt[r].root = call[c].r
          THEN [receipt[r] EXCEPT !.quantity = call[c].quantity]
          ELSE receipt[r]]
    /\ Return(c)
    /\ UNCHANGED <<minted, event>>

(* applyDepositEdit: the update by id.  The stored Decimal never equals    *)
(* the number of the request, so the quantity is written even if it is the *)
(* same.                                                                   *)
EditUpdate(c) ==
    /\ At(c, "editDeposit", "update")
    /\ receipt' = [receipt EXCEPT ![call[c].r].quantity = call[c].quantity]
    /\ Return(c)
    /\ UNCHANGED <<minted, event>>

(* The admin's approveReceipt and rejectReceipt.                           *)
Approve(r) == ApproveReceipt(ApproveKey(r), r) /\ AtOnce
Reject(r) == RejectReceipt(RejectKey(r), r) /\ AtOnce

Abort(c) == Abandon(c) /\ UNCHANGED ledgerVars

Next ==
    \/ \E d \in Filing : CreateDeposit(d)
    \/ \E c \in Call, r \in Minted, n \in Quantity : EditLoad(c, r, n)
    \/ \E c \in Call : EditUpdate(c) \/ Abort(c)
    \/ \E r \in Minted : Approve(r) \/ Reject(r)

-----------------------------------------------------------------------------
(***************************************************************************)
(* What the flow promises.                                                 *)
(***************************************************************************)

Did(k) == event[k] # NoEvent

(* A deposit is approved or rejected, whoever clicks first, never both,    *)
(* and only what was approved has ever been split for a transaction.       *)
OneVerdict ==
    \A r \in Minted :
        /\ ~(Did(ApproveKey(r)) /\ Did(RejectKey(r)))
        /\ receipt[r].parent # NoReceipt =>
              Did(ApproveKey(receipt[r].root)) /\ ~Did(RejectKey(receipt[r].root))

(* However late a correction arrives, it changes the deposit it was made   *)
(* for and nothing that was split from it.                                 *)
CorrectsRootsOnly ==
    [][\A r \in Minted :
          receipt'[r].quantity # receipt[r].quantity =>
              receipt[r].parent = NoReceipt]_vars

(* One request at a time: the quantity the admin approved, as the APPROVED *)
(* event journals it, is the quantity the receipt stands for ever after.   *)
ApprovedQuantityStands ==
    \A r \in Minted :
        Did(ApproveKey(r)) => receipt[r].quantity = event[ApproveKey(r)].quantity

-----------------------------------------------------------------------------
(***************************************************************************)
(* What the comments of the code promise, and the code does not do.        *)
(***************************************************************************)

(* "The genesis DEPOSIT event must anchor the root quantity": the check    *)
(* replayVerify makes holds of every deposit, corrected or not.            *)
GenesisAnchorsRoot ==
    \A d \in Filing : Did(FileKey(d)) =>
        receipt[event[FileKey(d)].from].quantity = event[FileKey(d)].quantity

(* "The WM can only modify a deposit while it's still PENDING_APPROVAL":   *)
(* no correction changes a deposit after the verdict.                      *)
OnlyPendingIsCorrected ==
    [][\A r \in Minted :
          receipt'[r].quantity # receipt[r].quantity =>
              receipt[r].status = "PENDING_APPROVAL"]_vars
=============================================================================
