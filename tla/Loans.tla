------------------------------- MODULE Loans -------------------------------
(***************************************************************************)
(* Loans against receipts: src/src/loans over the receipt ledger.          *)
(*                                                                         *)
(* A client pledges a whole receipt for a loan (a hold of the quantity it  *)
(* had when it was read); an administrator approves or rejects; repayment  *)
(* releases the collateral.                                                *)
(* Every handler loads the loan, calls the ledger and updates the row by   *)
(* id, each in a transaction of its own.  The terms of a loan can be       *)
(* edited meanwhile.                                                       *)
(*                                                                         *)
(* Principals and financiers are opaque.  interestRate and tenureMonths    *)
(* are kept as the financier they come from, totalInterest and             *)
(* monthlyPayment as the principal and the rate they were computed from.   *)
(* Authentication, permissions and notes are not here.  Where the receipts *)
(* come from is in Deposits and Trades; Custody runs the three together.   *)
(***************************************************************************)
EXTENDS InventoryLedger, Handlers

CONSTANTS
    Loan,       \* bound: loan rows
    Principal,  \* principals a client asks for
    Financier

HoldKey(l) == <<"hold", l>>
ApproveKey(l) == <<"approveHold", l>>
ReleaseKey(l) == <<"release", l>>
RepayKey(l) == <<"repay-release", l>>

LoanKey == {"hold", "approveHold", "release", "repay-release"} \X Loan

(* What a module that runs these actions must assume.                      *)
LoanAssumption ==
    /\ LoanKey \subseteq Key
    /\ Loan \subseteq Txn

LoanStatus == {"PENDING", "ACTIVE", "REPAID", "REJECTED"}

VARIABLE loan  \* the loans table

vars == <<ledgerVars, loan, call>>

Terms == [amount : Principal, financier : Financier]

LoanRow == [status : LoanStatus, receiptId : Minted, amount : Principal,
            financier : Financier, rate : Financier, totals : Terms]

NoLoan == [status |-> "NONE"]

Exists(l) == loan[l] # NoLoan

-----------------------------------------------------------------------------
LoanInit == loan = [l \in Loan |-> NoLoan]

Reading == UNCHANGED <<ledgerVars, loan>>

Abort(c) == Abandon(c) /\ Reading

Load(c, op, l, status, step) ==
    /\ loan[l].status = status
    /\ Begin(c, [op |-> op, step |-> step, l |-> l])
    /\ Reading

(* A ledger call of a handler, or the replay of one that went through.     *)
(* The collateral of a loan never changes, so it can be read here.         *)
Ledger(c, primitive, k) ==
    /\ primitive \/ Replay(k)
    /\ Continue(c, [call[c] EXCEPT !.step = "update"])
    /\ UNCHANGED loan

(* The unconditional update of the status by id.                           *)
Write(c, status) ==
    /\ loan' = [loan EXCEPT ![call[c].l].status = status]
    /\ Return(c)
    /\ UNCHANGED ledgerVars

-----------------------------------------------------------------------------
(* createLoan: read the receipt, hold the quantity read, insert the row.   *)
(* When a correction came in between, the ledger refuses a quantity that   *)
(* is no longer there, and of a larger one a part stays free.  The loan id *)
(* is drawn before the hold, so no two handlers share it.                  *)
CreateLoad(c, r, terms) ==
    /\ Begin(c, [op |-> "createLoan", step |-> "hold", r |-> r,
                 quantity |-> receipt[r].quantity, terms |-> terms])
    /\ Reading

CreateHold(c, l) ==
    /\ At(c, "createLoan", "hold")
    /\ Hold(HoldKey(l), call[c].r, Exactly(call[c].quantity), "HELD_LOAN", l)
    /\ \E held \in Receipt :
          /\ receipt'[held].sourceEvent = HoldKey(l)
          /\ receipt'[held].status = "HELD_LOAN"
          /\ Continue(c, [op |-> "createLoan", step |-> "insert", l |-> l,
                          held |-> held, terms |-> call[c].terms])
    /\ UNCHANGED loan

(* Variant: the row does not point at the held child.                      *)
CreateInsertUnlinked(c) ==
    /\ At(c, "createLoan", "insert")
    /\ loan' = [loan EXCEPT ![call[c].l] =
          [status |-> "PENDING", receiptId |-> NoReceipt,
           amount |-> call[c].terms.amount, financier |-> call[c].terms.financier,
           rate |-> call[c].terms.financier, totals |-> call[c].terms]]
    /\ Return(c)
    /\ UNCHANGED ledgerVars

CreateInsert(c) ==
    /\ At(c, "createLoan", "insert")
    /\ loan' = [loan EXCEPT ![call[c].l] =
          [status |-> "PENDING", receiptId |-> call[c].held,
           amount |-> call[c].terms.amount, financier |-> call[c].terms.financier,
           rate |-> call[c].terms.financier, totals |-> call[c].terms]]
    /\ Return(c)
    /\ UNCHANGED ledgerVars

-----------------------------------------------------------------------------
ApproveLoad(c, l) == Load(c, "approveLoan", l, "PENDING", "approveHold")

ApproveLedger(c) ==
    /\ At(c, "approveLoan", "approveHold")
    /\ Ledger(c, ApproveHold(ApproveKey(call[c].l), loan[call[c].l].receiptId),
              ApproveKey(call[c].l))

ApproveUpdate(c) == At(c, "approveLoan", "update") /\ Write(c, "ACTIVE")

RejectLoad(c, l) == Load(c, "rejectLoan", l, "PENDING", "release")

(* Variant: a hold that was approved is left alone.                        *)
RejectLedgerPending(c) ==
    /\ At(c, "rejectLoan", "release")
    /\ IF receipt[loan[call[c].l].receiptId].approval = "PENDING"
       THEN Ledger(c, Release(ReleaseKey(call[c].l), loan[call[c].l].receiptId),
                   ReleaseKey(call[c].l))
       ELSE Continue(c, [call[c] EXCEPT !.step = "update"]) /\ Reading

RejectLedger(c) ==
    /\ At(c, "rejectLoan", "release")
    /\ Ledger(c, Release(ReleaseKey(call[c].l), loan[call[c].l].receiptId),
              ReleaseKey(call[c].l))

RejectUpdate(c) == At(c, "rejectLoan", "update") /\ Write(c, "REJECTED")

(* Variant: a loan can be repaid before it is active.                      *)
RepayLoadAny(c, l) ==
    \E status \in {"PENDING", "ACTIVE"} : Load(c, "repayLoan", l, status, "release")

RepayLoad(c, l) == Load(c, "repayLoan", l, "ACTIVE", "release")

RepayLedger(c) ==
    /\ At(c, "repayLoan", "release")
    /\ Ledger(c, Release(RepayKey(call[c].l), loan[call[c].l].receiptId),
              RepayKey(call[c].l))

RepayUpdate(c) == At(c, "repayLoan", "update") /\ Write(c, "REPAID")

-----------------------------------------------------------------------------
(* editLoan while PENDING (later only notes change): every column whose    *)
(* new value differs from the loaded row is written, the others are left   *)
(* alone.  The rate of an unchanged financier is the loaded one, and the   *)
(* totals are computed again from the loaded and the new values.           *)
EditLoad(c, l, terms) ==
    /\ loan[l].status = "PENDING"
    /\ terms # [amount |-> loan[l].amount, financier |-> loan[l].financier]
    /\ Begin(c, [op |-> "editLoan", step |-> "update", l |-> l, terms |-> terms,
                 seen |-> loan[l]])
    /\ Reading

Edited(old, new, current) == IF new = old THEN current ELSE new

(* Variant: only a change of the financier is worth a new computation.     *)
EditUpdateRateOnly(c) ==
    LET l == call[c].l  seen == call[c].seen  terms == call[c].terms
        rate == Edited(seen.financier, terms.financier, seen.rate)
        totals == IF rate = seen.rate THEN seen.totals
                  ELSE [amount |-> terms.amount, financier |-> rate]
    IN  /\ At(c, "editLoan", "update")
        /\ loan' = [loan EXCEPT
              ![l].amount = Edited(seen.amount, terms.amount, @),
              ![l].financier = Edited(seen.financier, terms.financier, @),
              ![l].rate = Edited(seen.rate, rate, @),
              ![l].totals = Edited(seen.totals, totals, @)]
        /\ Return(c)
        /\ UNCHANGED ledgerVars

EditUpdate(c) ==
    LET l == call[c].l  seen == call[c].seen  terms == call[c].terms
        rate == Edited(seen.financier, terms.financier, seen.rate)
        totals == [amount |-> terms.amount, financier |-> rate]
    IN  /\ At(c, "editLoan", "update")
        /\ loan' = [loan EXCEPT
              ![l].amount = Edited(seen.amount, terms.amount, @),
              ![l].financier = Edited(seen.financier, terms.financier, @),
              ![l].rate = Edited(seen.rate, rate, @),
              ![l].totals = Edited(seen.totals, totals, @)]
        /\ Return(c)
        /\ UNCHANGED ledgerVars

-----------------------------------------------------------------------------
Create(c) ==
    \/ \E r \in Minted, terms \in Terms : CreateLoad(c, r, terms)
    \/ \E l \in Loan : CreateHold(c, l)
    \/ CreateInsert(c)

Approve(c) == (\E l \in Loan : ApproveLoad(c, l)) \/ ApproveLedger(c) \/ ApproveUpdate(c)

Reject(c) == (\E l \in Loan : RejectLoad(c, l)) \/ RejectLedger(c) \/ RejectUpdate(c)

Repay(c) == (\E l \in Loan : RepayLoad(c, l)) \/ RepayLedger(c) \/ RepayUpdate(c)

Edit(c) == (\E l \in Loan, terms \in Terms : EditLoad(c, l, terms)) \/ EditUpdate(c)

Next ==
    \E c \in Call :
        Create(c) \/ Approve(c) \/ Reject(c) \/ Repay(c) \/ Edit(c) \/ Abort(c)

-----------------------------------------------------------------------------
(***************************************************************************)
(* What the flow promises, whatever is interleaved, cut short and retried. *)
(***************************************************************************)

(* The rows of the table.                                                  *)
LoanTypeOK ==
    \A l \in Loan : Exists(l) => loan[l] \in LoanRow

Did(k) == event[k] # NoEvent

(* A loan that is over holds nothing: rejected or repaid, its collateral   *)
(* was released, even if an approval raced with the rejection.             *)
ClosedLoanFreesCollateral ==
    \A l \in Loan :
        loan[l].status \in {"REJECTED", "REPAID"} => ~IsHeld(loan[l].receiptId)

(* The collateral is given back once, by the rejection or the repayment,   *)
(* never for money that was lent before anybody approved.                  *)
ReleasedOnce ==
    \A l \in Loan :
        /\ ~(Did(ReleaseKey(l)) /\ Did(RepayKey(l)))
        /\ Did(RepayKey(l)) => Did(ApproveKey(l))

(* "Recompute interest / monthlyPayment / tenureMonths when either amount  *)
(* or financier changed": the schedule on record is that of the principal  *)
(* and the financier on record.  True of one request at a time, not of     *)
(* concurrent edits.                                                       *)
ScheduleMatchesTerms ==
    \A l \in Loan : Exists(l) =>
        /\ loan[l].rate = loan[l].financier
        /\ loan[l].totals = [amount |-> loan[l].amount, financier |-> loan[l].financier]

-----------------------------------------------------------------------------
(***************************************************************************)
(* What the comments of the code promise, and the code does not do.        *)
(***************************************************************************)

(* "REPAID / DEFAULTED / REJECTED / CANCELLED: terminal": a loan that was  *)
(* rejected or repaid does not come back.                                  *)
TerminalLoans ==
    [][\A l \in Loan :
          loan[l].status \in {"REJECTED", "REPAID"} =>
              loan'[l].status = loan[l].status]_vars

(* "Create = pledge the whole selected receipt as collateral": a loan that *)
(* is active and not being repaid has its collateral, even one request at  *)
(* a time.                                                                 *)
ActiveLoanIsSecured ==
    \A l \in Loan :
        loan[l].status = "ACTIVE" /\ ~Did(RepayKey(l)) => IsHeld(loan[l].receiptId)

(* "amount + financierId are only editable in PENDING (even for admins)".  *)
TermsFrozen ==
    [][\A l \in Loan :
          Exists(l) /\ loan[l].status # "PENDING" =>
              /\ loan'[l].amount = loan[l].amount
              /\ loan'[l].financier = loan[l].financier]_vars
=============================================================================
