------------------------------- MODULE Trades -------------------------------
(***************************************************************************)
(* The exchange of src/src/trades over the receipt ledger.                 *)
(*                                                                         *)
(* A seller lists a whole receipt (a hold of the quantity it had when it   *)
(* was read); the exchange settles the trade to a buyer, or the seller     *)
(* cancels it.  A settlement updates the trade inside the ledger's         *)
(* transaction; a listing and a cancellation write the row in a            *)
(* transaction of their own.                                               *)
(*                                                                         *)
(* The receipt of a request is one the seller owns when he asks: that is   *)
(* an assumption on the input, createTrade reads the receipt by id only.   *)
(* Prices, authentication and notifications are not here.  Custody runs    *)
(* the exchange beside deposits and loans.                                 *)
(***************************************************************************)
EXTENDS InventoryLedger, Handlers

CONSTANT Trade  \* bound: trade rows

HoldKey(t) == <<"hold", t>>
TransferKey(t) == <<"transfer", t>>
CancelKey(t) == <<"cancel-release", t>>

TradeKey == {"hold", "transfer", "cancel-release"} \X Trade

(* What a module that runs these actions must assume.                      *)
TradeAssumption ==
    /\ TradeKey \subseteq Key
    /\ Trade \subseteq Txn

TradeStatus == {"LISTED", "SETTLED", "CANCELLED"}

VARIABLES
    trade,  \* the trades table
    told    \* <<t, b>>: buyer b got the answer that trade t is settled to b

vars == <<ledgerVars, trade, told, call>>

TradeRow == [status : TradeStatus, receiptId : Minted,
             seller : Client, buyer : Client \cup {None}]

NoTrade == [status |-> "NONE"]

Exists(t) == trade[t] # NoTrade

-----------------------------------------------------------------------------
TradeInit ==
    /\ trade = [t \in Trade |-> NoTrade]
    /\ told = {}

Reading == UNCHANGED <<ledgerVars, trade, told>>

Abort(c) == Abandon(c) /\ Reading

-----------------------------------------------------------------------------
(* createTrade: read the receipt, hold the quantity read, insert the row.  *)
(* When a correction came in between, the ledger refuses a quantity that   *)
(* is no longer there, and of a larger one a part stays free.  The trade   *)
(* id is drawn before the hold, so no two handlers share it.               *)
CreateLoad(c, r) ==
    /\ Begin(c, [op |-> "createTrade", step |-> "hold", r |-> r,
                 quantity |-> receipt[r].quantity, seller |-> receipt[r].owner])
    /\ Reading

CreateHold(c, t) ==
    /\ At(c, "createTrade", "hold")
    /\ Hold(HoldKey(t), call[c].r, Exactly(call[c].quantity), "HELD_TRADE", t)
    /\ \E held \in Receipt :
          /\ receipt'[held].sourceEvent = HoldKey(t)
          /\ receipt'[held].status = "HELD_TRADE"
          /\ Continue(c, [op |-> "createTrade", step |-> "insert", t |-> t,
                          held |-> held, seller |-> call[c].seller])
    /\ UNCHANGED <<trade, told>>

CreateInsert(c) ==
    /\ At(c, "createTrade", "insert")
    /\ trade' = [trade EXCEPT ![call[c].t] =
          [status |-> "LISTED", receiptId |-> call[c].held,
           seller |-> call[c].seller, buyer |-> None]]
    /\ Return(c)
    /\ UNCHANGED <<ledgerVars, told>>

-----------------------------------------------------------------------------
(* settleTrade.  A trade already settled to this buyer is answered at      *)
(* once; otherwise it must be LISTED when it is loaded.                    *)
SettleLoad(c, t, b) ==
    /\ trade[t].status = "LISTED"
    /\ trade[t].seller # b
    /\ Begin(c, [op |-> "settleTrade", step |-> "transfer", t |-> t, buyer |-> b])
    /\ Reading

SettleAgain(t, b) ==
    /\ trade[t].status = "SETTLED"
    /\ trade[t].buyer = b
    /\ told' = told \cup {<<t, b>>}
    /\ UNCHANGED <<ledgerVars, trade, call>>

(* Variant: the two-step settlement's first step: a receipt changes hands  *)
(* whether it is held or not, the trade whatever its status is by then.    *)
SettleTransferUnguarded(c) ==
    LET t == call[c].t  b == call[c].buyer
    IN  /\ At(c, "settleTrade", "transfer")
        /\ TransferOwnership(TransferKey(t), trade[t].receiptId, b)
        /\ trade' = [trade EXCEPT ![t].status = "SETTLED", ![t].buyer = b]
        /\ told' = told \cup {<<t, b>>}
        /\ Return(c)

(* Variant: the trade is left for a second transaction.                    *)
SettleTransferAlone(c) ==
    LET t == call[c].t  b == call[c].buyer
    IN  /\ At(c, "settleTrade", "transfer")
        /\ TransferAndRelease(TransferKey(t), trade[t].receiptId, b)
        /\ Return(c)
        /\ UNCHANGED <<trade, told>>

(* The ledger transaction, with the guarded update of the trade in it.     *)
SettleTransfer(c) ==
    LET t == call[c].t  b == call[c].buyer
    IN  /\ At(c, "settleTrade", "transfer")
        /\ TransferAndRelease(TransferKey(t), trade[t].receiptId, b)
        /\ trade[t].status = "LISTED"
        /\ trade' = [trade EXCEPT ![t].status = "SETTLED", ![t].buyer = b]
        /\ told' = told \cup {<<t, b>>}
        /\ Return(c)

(* The key of the transfer is that of the trade, not of the buyer: a       *)
(* second settlement finds it in the journal and skips the update.         *)
SettleReplay(c) ==
    /\ At(c, "settleTrade", "transfer")
    /\ Replay(TransferKey(call[c].t))
    /\ told' = told \cup {<<call[c].t, call[c].buyer>>}
    /\ Return(c)
    /\ UNCHANGED trade

-----------------------------------------------------------------------------
CancelLoad(c, t) ==
    /\ trade[t].status = "LISTED"
    /\ Begin(c, [op |-> "cancelTrade", step |-> "release", t |-> t])
    /\ Reading

(* Variant: goods that are no longer held need no release.                 *)
CancelReleaseHeld(c) ==
    /\ At(c, "cancelTrade", "release")
    /\ LET k == CancelKey(call[c].t)  r == trade[call[c].t].receiptId
       IN  IF IsHeld(r) THEN Release(k, r) ELSE UNCHANGED ledgerVars
    /\ Continue(c, [call[c] EXCEPT !.step = "update"])
    /\ UNCHANGED <<trade, told>>

CancelRelease(c) ==
    /\ At(c, "cancelTrade", "release")
    /\ LET k == CancelKey(call[c].t)
       IN  Release(k, trade[call[c].t].receiptId) \/ Replay(k)
    /\ Continue(c, [call[c] EXCEPT !.step = "update"])
    /\ UNCHANGED <<trade, told>>

CancelUpdate(c) ==
    /\ At(c, "cancelTrade", "update")
    /\ trade' = [trade EXCEPT ![call[c].t].status = "CANCELLED"]
    /\ Return(c)
    /\ UNCHANGED <<ledgerVars, told>>

-----------------------------------------------------------------------------
Create(c) ==
    \/ \E r \in Minted : CreateLoad(c, r)
    \/ \E t \in Trade : CreateHold(c, t)
    \/ CreateInsert(c)

Settle(c) ==
    \/ \E t \in Trade, b \in Client : SettleLoad(c, t, b)
    \/ SettleTransfer(c)
    \/ SettleReplay(c)

Cancel(c) ==
    \/ \E t \in Trade : CancelLoad(c, t)
    \/ CancelRelease(c)
    \/ CancelUpdate(c)

Next ==
    \/ \E c \in Call : Create(c) \/ Settle(c) \/ Cancel(c) \/ Abort(c)
    \/ \E t \in Trade, b \in Client : SettleAgain(t, b)

-----------------------------------------------------------------------------
(***************************************************************************)
(* What the flow promises, whatever is interleaved, cut short and retried. *)
(***************************************************************************)

(* The rows of the table, and who was told what.                           *)
TradeTypeOK ==
    /\ \A t \in Trade : Exists(t) => trade[t] \in TradeRow
    /\ told \subseteq Trade \X Client

Did(k) == event[k] # NoEvent

(* The exchange and the ledger agree: a trade is settled exactly when its  *)
(* goods were transferred, and they went to the buyer on record.  A sale   *)
(* is final: neither a cancellation nor a second buyer undoes it.          *)
TradeMatchesLedger ==
    \A t \in Trade : Exists(t) =>
        /\ trade[t].status = "SETTLED" <=> Did(TransferKey(t))
        /\ trade[t].status = "SETTLED" =>
              receipt[trade[t].receiptId].owner = trade[t].buyer

(* The goods of a listing leave it once: sold or given back, not both.     *)
SoldOrReturned ==
    \A t \in Trade : ~(Did(TransferKey(t)) /\ Did(CancelKey(t)))

(* One request at a time, goods that are not sold stay with their seller:  *)
(* a sale that changes the owner leaves no open listing of the old one.    *)
(* With several requests at once it fails: createTrade holds what it       *)
(* looked up earlier, and a sale in between changes the owner.             *)
UnsoldStaysWithSeller ==
    \A t \in Trade : Exists(t) /\ trade[t].status # "SETTLED" =>
        receipt[trade[t].receiptId].owner = trade[t].seller

-----------------------------------------------------------------------------
(***************************************************************************)
(* What the comments of the code promise, and the code does not do.        *)
(***************************************************************************)

(* "Trade was settled by another buyer while this request was in flight":  *)
(* of two buyers, one is told that the trade is theirs.                    *)
ToldTheTruth ==
    \A t \in Trade, b \in Client : <<t, b>> \in told => trade[t].buyer = b
=============================================================================
