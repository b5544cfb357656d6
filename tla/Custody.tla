------------------------------ MODULE Custody ------------------------------
(***************************************************************************)
(* Deposits, loans and trades together, over one ledger and one pool of    *)
(* request handlers: the life of stock from the scale to its second owner. *)
(*                                                                         *)
(* The services do not call each other.  They meet in the receipts: a      *)
(* deposit that is approved can be corrected late, pledged for a loan and  *)
(* listed for sale, all at the same time, and what a buyer has bought he   *)
(* may pledge or sell on.                                                  *)
(***************************************************************************)
EXTENDS InventoryLedger, Handlers

CONSTANTS Filing, Loan, Principal, Financier, Trade

VARIABLES loan, trade, told

D == INSTANCE Deposits
L == INSTANCE Loans
T == INSTANCE Trades

ASSUME CustodyAssumption ==
    /\ D!DepositAssumption
    /\ L!LoanAssumption
    /\ T!TradeAssumption
    /\ Loan \cap Trade = {}

vars == <<ledgerVars, loan, trade, told, call>>

Init ==
    /\ D!Init
    /\ L!LoanInit
    /\ T!TradeInit

Next ==
    \/ D!Next /\ UNCHANGED <<loan, trade, told>>
    \/ L!Next /\ UNCHANGED <<trade, told>>
    \/ T!Next /\ UNCHANGED loan

Spec == Init /\ [][Next]_vars

-----------------------------------------------------------------------------
(* Type invariant of the ledger and of the tables of the services.         *)
TypeOK == LedgerTypeOK /\ L!LoanTypeOK /\ T!TradeTypeOK

(* A deposit is approved or rejected, never both, whoever clicks first,    *)
(* and nothing is split from one that was not approved, whatever loans and *)
(* listings are asked of it meanwhile (approveReceipt, rejectReceipt).     *)
OneVerdict == TypeOK /\ D!OneVerdict

(* However late a correction arrives, it changes the deposit it was made   *)
(* for and never a child that a loan or a trade holds (applyDepositEdit).  *)
CorrectsRootsOnly == D!CorrectsRootsOnly

(* A loan that is rejected or repaid has let go of its collateral, even if *)
(* an approval or a late correction raced with it (rejectLoan, repayLoan). *)
ClosedLoanFreesCollateral == L!ClosedLoanFreesCollateral

(* Collateral is given back once, by the rejection or by the repayment,    *)
(* and by the latter only if somebody approved the loan.                   *)
ReleasedOnce == L!ReleasedOnce

(* The collateral of a loan is let go of when it ends, and only once.      *)
LoanCollateralFreedOnce == ClosedLoanFreesCollateral /\ ReleasedOnce

(* The exchange and the ledger agree on what was sold and to whom, with    *)
(* buyers, cancellations and the lenders' handlers in flight (settleTrade, *)
(* cancelTrade).                                                           *)
TradeMatchesLedger == T!TradeMatchesLedger

(* The goods of a listing leave it once: sold or given back, not both.     *)
SoldOrReturned == T!SoldOrReturned

(* A listing ends once, and the exchange and the ledger agree how.         *)
TradesAreSettledOnce == TradeMatchesLedger /\ SoldOrReturned

(* One request at a time: the quantity the admin approved is the quantity  *)
(* the receipt stands for, after any number of loans and sales.            *)
ApprovedQuantityStands == D!ApprovedQuantityStands

(* One request at a time: the repayment schedule on record is that of the  *)
(* principal and the financier on record (createLoan, editLoan).           *)
ScheduleMatchesTerms == L!ScheduleMatchesTerms

(* One request at a time: what is listed and not sold belongs to the       *)
(* seller on record, although the stock around it is sold and pledged.     *)
UnsoldStaysWithSeller == T!UnsoldStaysWithSeller

(* What a loan or a listing holds.                                         *)
Backing(l) == {r \in Minted : L!Exists(l) /\ loan[l].receiptId = r /\ IsHeld(r)}
Listed(t) == {r \in Minted : T!Exists(t) /\ trade[t].receiptId = r /\ IsHeld(r)}

Claim ==
    [x \in Loan \cup Trade |->
        [quantity |-> Amount(receipt, IF x \in Loan THEN Backing(x) ELSE Listed(x))]]

LetIn == {r \in Minted : receipt[r].parent = NoReceipt /\ receipt[r].approval = "APPROVED"}

(* One request at a time, goods answer for one claim: the loans' collateral*)
(* and the listings together never exceed the deposits that were approved, *)
(* whoever pledges, lists, repays and sells on in whatever order.          *)
NoGoodsClaimedTwice == Amount(Claim, Loan \cup Trade) <= Amount(receipt, LetIn)

(* One request at a time, what is for sale is the seller's, and no goods   *)
(* are claimed twice.                                                      *)
SoldGoodsAreClaimedOnce == UnsoldStaysWithSeller /\ NoGoodsClaimedTwice

-----------------------------------------------------------------------------
(***************************************************************************)
(* What the comments of the code promise, and the code does not do.  The   *)
(* first needs one request at a time, the others two or a crash.           *)
(***************************************************************************)

(* "The genesis DEPOSIT event must anchor the root quantity": an ordinary  *)
(* correction of a pending deposit breaks it (applyDepositEdit).           *)
GenesisAnchorsRoot == D!GenesisAnchorsRoot

(* "The WM can only modify a deposit while it's still PENDING_APPROVAL"    *)
(* (applyDepositEdit writes by id).                                        *)
OnlyPendingIsCorrected == D!OnlyPendingIsCorrected

(* "Terminal": a rejected loan is revived by an approval that raced with   *)
(* the rejection (approveLoan writes by id).                               *)
TerminalLoans == L!TerminalLoans

(* "Only editable in PENDING": an edit arrives after the approval          *)
(* (editLoan writes by id).                                                *)
TermsFrozen == L!TermsFrozen

(* "Create = pledge the whole selected receipt as collateral": an approval *)
(* and a rejection that both stopped half-way, then an approval that       *)
(* replays its ledger call (approveLoan).                                  *)
ActiveLoanIsSecured == L!ActiveLoanIsSecured

(* "Trade was settled by another buyer while this request was in flight":  *)
(* the replayed transfer skips the check, and two buyers are told that the *)
(* goods are theirs (settleTrade).                                         *)
ToldTheTruth == T!ToldTheTruth
=============================================================================
