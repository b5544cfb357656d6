------------------------------ MODULE Bookings ------------------------------
(***************************************************************************)
(* Deposits and the four kinds of request, as the screens read them.       *)
(*                                                                         *)
(* The tables that the lists, dashboards and reports of the backend are    *)
(* built from: receipts, withdrawals, loans, trades, pledges and liens.    *)
(* Every handler is one action here: a ledger primitive and the write of   *)
(* the row it belongs to.  What happens between the two, when handlers     *)
(* race, stop or are retried, is in Withdrawals, Custody and Collateral;   *)
(* the question here is what the readers make of the rows.                 *)
(*                                                                         *)
(* A client asks only for what is his: that is what the request screens    *)
(* offer him.  Amounts, fees and prices are left out.  Every deposit has a *)
(* lot: the warehouse and the commodity that its tree shares.              *)
(***************************************************************************)
EXTENDS InventoryLedger

CONSTANTS
    Lot,        \* bound: pairs of a warehouse and a commodity
    MaxDeposits \* bound: deposits

BookingKey == ({"deposit", "verdict"} \X Receipt)
                 \cup ({"hold", "approve", "close", "release"} \X Txn)

VARIABLES
    lot,      \* warehouseId and commodityId of the root receipts
    request,  \* withdrawals, loans, trades and pledges, by id
    lien      \* liens, by the pledge they come from

bookingVars == <<ledgerVars, lot, request, lien>>

NoLot == <<None, None>>

RequestStatus ==
    [withdrawal |-> {"PENDING_PAYMENT", "PAID_PENDING_APPROVAL", "APPROVED",
                     "REJECTED", "COMPLETED"},
     loan |-> {"PENDING", "ACTIVE", "REPAID", "REJECTED"},
     trade |-> {"LISTED", "SETTLED", "CANCELLED"},
     pledge |-> {"PENDING", "ACCEPTED", "REJECTED"}]

Kind == DOMAIN RequestStatus

HoldOf == [withdrawal |-> "HELD_WITHDRAWAL", loan |-> "HELD_LOAN",
           trade |-> "HELD_TRADE", pledge |-> "HELD_PLEDGE_PENDING"]

(* What a module that runs these actions must assume.                      *)
BookingAssumption ==
    /\ BookingKey \subseteq Key
    /\ {HoldOf[kind] : kind \in Kind} \subseteq HoldStatus

RequestRow(k) == [kind : {k}, status : RequestStatus[k], receiptId : Minted,
                  client : Client, buyer : Client \cup {None}, quantity : Nat]

NoRequest == [kind |-> "none", status |-> "NONE", receiptId |-> NoReceipt,
              client |-> None, buyer |-> None, quantity |-> 0]

LienRow == [status : {"ACTIVE", "PARTIALLY_RELEASED", "RELEASED"},
            receiptId : Minted, remaining : Nat]

NoLien == [status |-> "NONE", receiptId |-> NoReceipt, remaining |-> 0]

Filed(kind) == {t \in Txn : request[t].kind = kind}

WarehouseOf(r) == lot[receipt[r].root][1]
CommodityOf(r) == lot[receipt[r].root][2]

BookingTypeOK ==
    /\ TableTypeOK
    /\ lot \in [Receipt -> Lot \cup {NoLot}]
    /\ \A t \in Txn : request[t] = NoRequest \/ \E k \in Kind : request[t] \in RequestRow(k)
    /\ lien \in [Txn -> LienRow \cup {NoLien}]

BookingInit ==
    /\ LedgerInit
    /\ lot = [r \in Receipt |-> NoLot]
    /\ request = [t \in Txn |-> NoRequest]
    /\ lien = [t \in Txn |-> NoLien]

-----------------------------------------------------------------------------
File(c, q, place) ==
    /\ Cardinality({r \in Minted : receipt[r].parent = NoReceipt}) < MaxDeposits
    /\ Deposit(<<"deposit", minted + 1>>, c, q)
    /\ lot' = [lot EXCEPT ![minted + 1] = place]
    /\ UNCHANGED <<request, lien>>

(* editDeposit and editDepositAsAdmin through applyDepositEdit, before the *)
(* verdict: the quantity, the warehouse and the commodity of the root, by  *)
(* id and without an event.  After it nothing on a screen can be corrected *)
(* but the grade and the date; a correction that was loaded before the     *)
(* verdict and arrives after it is in Deposits.                            *)
Correct(r, q, place) ==
    /\ receipt[r].status = "PENDING_APPROVAL"
    /\ receipt' = [receipt EXCEPT ![r].quantity = Stored(q)]
    /\ lot' = [lot EXCEPT ![r] = place]
    /\ UNCHANGED <<minted, event, request, lien>>

Decide(r) ==
    /\ ApproveReceipt(<<"verdict", r>>, r) \/ RejectReceipt(<<"verdict", r>>, r)
    /\ UNCHANGED <<lot, request, lien>>

-----------------------------------------------------------------------------
At(t, kind, status) == request[t].kind = kind /\ request[t].status = status

Put(t, status) == request' = [request EXCEPT ![t].status = status]

(* Nothing but the ledger and the row of the request.                      *)
Alone == UNCHANGED <<lot, lien>>

HeldChild(t) ==
    {r \in Minted : receipt[r].sourceEvent = <<"hold", t>> /\ IsHeld(r)}

(* Hold q of r for t and point its row at the held child.                  *)
Reserve(t, kind, r, q, row) ==
    /\ Hold(<<"hold", t>>, r, Exactly(q), HoldOf[kind], t)
    /\ \E held \in HeldChild(t)' :
          request' = [request EXCEPT ![t] = [row EXCEPT !.receiptId = held]]
    /\ Alone

Asked(kind, status, r, q) ==
    [kind |-> kind, status |-> status, receiptId |-> r,
     client |-> receipt[r].owner, buyer |-> None, quantity |-> q]

(* A primitive on the receipt of t, and the new status of its row.         *)
Move(t, primitive, status) == primitive /\ Put(t, status) /\ Alone

Give(t, status) == Move(t, Release(<<"close", t>>, request[t].receiptId), status)

-----------------------------------------------------------------------------
(* Withdrawals: nothing is held before the payment.                        *)
Unpaid(r) == {t \in Filed("withdrawal") : /\ request[t].status = "PENDING_PAYMENT"
                                          /\ request[t].receiptId = r}

RequestWithdrawal(t, r, q) ==
    /\ request[t] = NoRequest
    /\ receipt[r].status = "ACTIVE" /\ receipt[r].approval = "APPROVED"
    /\ ~receipt[r].isParent
    /\ q \in 1..receipt[r].quantity
    /\ Unpaid(r) = {}
    /\ request' = [request EXCEPT ![t] = Asked("withdrawal", "PENDING_PAYMENT", r, q)]
    /\ Alone /\ UNCHANGED ledgerVars

(* Variant: the row stays on the receipt that was split.                   *)
ConfirmPaymentUnmoved(t) ==
    /\ At(t, "withdrawal", "PENDING_PAYMENT")
    /\ Hold(<<"hold", t>>, request[t].receiptId, Exactly(request[t].quantity),
            "HELD_WITHDRAWAL", t)
    /\ Put(t, "PAID_PENDING_APPROVAL")
    /\ Alone

ConfirmPayment(t) ==
    /\ At(t, "withdrawal", "PENDING_PAYMENT")
    /\ Reserve(t, "withdrawal", request[t].receiptId, request[t].quantity,
               [request[t] EXCEPT !.status = "PAID_PENDING_APPROVAL"])

ApproveWithdrawal(t) ==
    /\ At(t, "withdrawal", "PAID_PENDING_APPROVAL")
    /\ Move(t, ApproveHold(<<"approve", t>>, request[t].receiptId), "APPROVED")

(* rejectWithdrawal releases what is held; the clean-up of requests that   *)
(* were never paid does the same to a request that holds nothing.          *)
RejectWithdrawal(t) ==
    \/ At(t, "withdrawal", "PENDING_PAYMENT") /\ Move(t, UNCHANGED ledgerVars, "REJECTED")
    \/ /\ \E s \in {"PAID_PENDING_APPROVAL", "APPROVED"} : At(t, "withdrawal", s)
       /\ Give(t, "REJECTED")

CompleteWithdrawal(t) ==
    /\ At(t, "withdrawal", "APPROVED")
    /\ Move(t, Consume(<<"close", t>>, request[t].receiptId), "COMPLETED")

-----------------------------------------------------------------------------
(* Loans, trades and pledges hold first: the whole receipt, or a part of   *)
(* it for a pledge, whose row keeps the receipt it was asked for.          *)
CreateLoan(t, r) ==
    /\ request[t] = NoRequest
    /\ Reserve(t, "loan", r, receipt[r].quantity,
               Asked("loan", "PENDING", r, receipt[r].quantity))

(* Variant: the hold stays as it was.                                      *)
ApproveLoanRowOnly(t) ==
    At(t, "loan", "PENDING") /\ Move(t, UNCHANGED ledgerVars, "ACTIVE")

ApproveLoan(t) ==
    /\ At(t, "loan", "PENDING")
    /\ Move(t, ApproveHold(<<"approve", t>>, request[t].receiptId), "ACTIVE")

RejectLoan(t) == At(t, "loan", "PENDING") /\ Give(t, "REJECTED")

RepayLoan(t) == At(t, "loan", "ACTIVE") /\ Give(t, "REPAID")

CreateTrade(t, r) ==
    /\ request[t] = NoRequest
    /\ Reserve(t, "trade", r, receipt[r].quantity,
               Asked("trade", "LISTED", r, receipt[r].quantity))

(* Variant: the goods change hands, the row does not say who bought them.  *)
SettleTradeUnsaid(t, buyer) ==
    /\ At(t, "trade", "LISTED")
    /\ buyer # request[t].client
    /\ TransferAndRelease(<<"close", t>>, request[t].receiptId, buyer)
    /\ Put(t, "SETTLED")
    /\ Alone

SettleTrade(t, buyer) ==
    /\ At(t, "trade", "LISTED")
    /\ buyer # request[t].client
    /\ TransferAndRelease(<<"close", t>>, request[t].receiptId, buyer)
    /\ request' = [request EXCEPT ![t].status = "SETTLED", ![t].buyer = buyer]
    /\ Alone

(* Variant: a status that trades do not have.                              *)
CancelTradeRejected(t) == At(t, "trade", "LISTED") /\ Give(t, "REJECTED")

CancelTrade(t) == At(t, "trade", "LISTED") /\ Give(t, "CANCELLED")

Pledge(t, r, q) ==
    /\ request[t] = NoRequest
    /\ Hold(<<"hold", t>>, r, Exactly(q), "HELD_PLEDGE_PENDING", t)
    /\ request' = [request EXCEPT ![t] = Asked("pledge", "PENDING", r, q)]
    /\ Alone

AcceptPledge(t) ==
    /\ At(t, "pledge", "PENDING")
    /\ \E held \in HeldChild(t) :
          /\ TransitionPledgeToLien(<<"approve", t>>, held)
          /\ lien' = [lien EXCEPT ![t] = [status |-> "ACTIVE", receiptId |-> held,
                                          remaining |-> request[t].quantity]]
    /\ Put(t, "ACCEPTED")
    /\ UNCHANGED lot

DeclinePledge(t) ==
    /\ At(t, "pledge", "PENDING")
    /\ \E held \in HeldChild(t) : Move(t, Release(<<"close", t>>, held), "REJECTED")

(* An approved release request, of all that remains or of a part.          *)
ReleaseLien(t) ==
    /\ lien[t].status \in {"ACTIVE", "PARTIALLY_RELEASED"}
    /\ Release(<<"close", t>>, lien[t].receiptId)
    /\ lien' = [lien EXCEPT ![t].status = "RELEASED", ![t].remaining = 0]
    /\ UNCHANGED <<lot, request>>

(* Variant: what remains under the lien is not written down.               *)
ReleaseLienPartStale(t, q) ==
    LET rest == lien[t].remaining - q
    IN  /\ lien[t].status = "ACTIVE"
        /\ q > 0 /\ rest > 0
        /\ ReleasePartial(<<"release", t>>, lien[t].receiptId, Exactly(q))
        /\ \E kept \in {r \in Minted' : /\ receipt'[r].sourceEvent = <<"release", t>>
                                        /\ receipt'[r].status = "HELD_LIEN"} :
              lien' = [lien EXCEPT ![t].status = "PARTIALLY_RELEASED",
                                   ![t].receiptId = kept]
        /\ UNCHANGED <<lot, request>>

(* One partial release of each lien: a bound.                              *)
ReleaseLienPart(t, q) ==
    LET rest == lien[t].remaining - q
    IN  /\ lien[t].status = "ACTIVE"
        /\ q > 0 /\ rest > 0
        /\ ReleasePartial(<<"release", t>>, lien[t].receiptId, Exactly(q))
        /\ \E kept \in {r \in Minted' : /\ receipt'[r].sourceEvent = <<"release", t>>
                                        /\ receipt'[r].status = "HELD_LIEN"} :
              lien' = [lien EXCEPT ![t] = [status |-> "PARTIALLY_RELEASED",
                                           receiptId |-> kept, remaining |-> rest]]
        /\ UNCHANGED <<lot, request>>

-----------------------------------------------------------------------------
Quantity == 1..MaxQuantity

Ask(t) ==
    \E r \in Minted :
        \/ CreateLoan(t, r)
        \/ CreateTrade(t, r)
        \/ \E q \in Quantity : RequestWithdrawal(t, r, q) \/ Pledge(t, r, q)

Settle(t) ==
    \/ ConfirmPayment(t) \/ ApproveWithdrawal(t)
    \/ RejectWithdrawal(t) \/ CompleteWithdrawal(t)
    \/ ApproveLoan(t) \/ RejectLoan(t) \/ RepayLoan(t)
    \/ CancelTrade(t) \/ \E b \in Client : SettleTrade(t, b)
    \/ AcceptPledge(t) \/ DeclinePledge(t) \/ ReleaseLien(t)
    \/ \E q \in Quantity : ReleaseLienPart(t, q)

BookingNext ==
    \/ \E q \in Quantity, place \in Lot :
          (\E c \in Client : File(c, q, place)) \/ (\E r \in Minted : Correct(r, q, place))
    \/ \E r \in Minted : Decide(r)
    \/ \E t \in Txn : Ask(t) \/ Settle(t)
=============================================================================
