------------------------------ MODULE Billing ------------------------------
(***************************************************************************)
(* Storage fees: src/src/storage-fees, the fee half of                     *)
(* src/src/withdrawals (the quote of createWithdrawal, getFeeQuote, the    *)
(* bill of completeWithdrawal) and src/src/common/unit-conversion.ts.      *)
(*                                                                         *)
(* One receipt, one withdrawal.  A policy belongs to the receipt's         *)
(* warehouse or to any, and to its commodity or to any.  Policies come and *)
(* go while the withdrawal is on its way, the commodity gets another       *)
(* measure or bag weight, and an administrator corrects the date of the    *)
(* deposit, into the future too.  Withdrawals has the way itself, step by  *)
(* step: here payment and approval are one step.  Fees are in thousandths  *)
(* of a naira.  Billing frequency, grace period and penalty are columns    *)
(* that no computation reads.                                              *)
(***************************************************************************)
EXTENDS Handlers, Integers, FiniteSets, Sequences

CONSTANTS
    FeeType, Rate,  \* terms of policies
    MaxPolicy,      \* bound: rows of storage_fee_policies
    MaxChange,      \* bound: changes of policies, commodity and date of deposit
    Unit,           \* measures of a commodity
    Quantity,       \* withdrawn, in units of the measure
    Weight,         \* kilograms of a bag
    Kilo,           \* kilograms of a ton (1000 in the code)
    Instant         \* bound: half days since the deposit was filed

(* What a module that runs these actions must assume.                      *)
BillingAssumption ==
    /\ FeeType \subseteq {"PER_MT_PER_MONTH", "PER_MT_PER_DAY", "PER_BAG_PER_WEEK", "FLAT_RATE"}
    /\ Rate \subseteq Nat /\ MaxPolicy \in Nat /\ MaxChange \in Nat /\ Quantity \in Nat
    /\ Weight \subseteq Nat \ {0} /\ Kilo \in Nat \ {0}
    /\ Instant \subseteq Nat /\ 0 \in Instant

VARIABLES
    policy,         \* storage_fee_policies in order of creation
    commodity,      \* unitOfMeasure, and standardBagWeightKg or NoWeight
    now,
    withdrawal,     \* the row
    goods,          \* the receipt it points at: its state, since when, dateOfDeposit
    changes

vars == <<policy, commodity, now, withdrawal, goods, changes, call>>
tables == <<policy, commodity, now, withdrawal, goods, changes>>

NoWeight == 0
NoRow == [status |-> "none"]
NoAmount == -1  \* an exception

Scope == {"this", "any"}
CommodityRow == [unit : Unit, weight : Weight \cup {NoWeight}]
Policy == [warehouse : Scope, commodity : Scope, feeType : FeeType, rate : Rate,
           isActive : BOOLEAN]

-----------------------------------------------------------------------------
(* Variant: the commodity before the warehouse.                            *)
CandidatesSwapped ==
    <<<<"this", "this">>, <<"any", "this">>, <<"this", "any">>, <<"any", "any">>>>

(* resolvePolicy: the newest active policy of the narrowest scope.         *)
Candidates == <<<<"this", "this">>, <<"this", "any">>, <<"any", "this">>, <<"any", "any">>>>

Matching(policies, scope) ==
    {i \in DOMAIN policies : /\ policies[i].isActive
                             /\ <<policies[i].warehouse, policies[i].commodity>> = scope}

Newest(rows) == CHOOSE i \in rows : \A j \in rows : j <= i

-----------------------------------------------------------------------------
(* calculateFee.  A period that has begun counts; before the date of       *)
(* deposit the days are negative, and nothing stops there.                 *)
Ceiling(a, b) == (a + b - 1) \div b

Days(instant, deposited) == Ceiling(instant - deposited, 2)

(* toMt, in kilograms.                                                     *)
Kilograms(quantity, measure) ==
    CASE measure.unit = "METRIC_TON" -> quantity * Kilo
      [] measure.unit = "KILOGRAM" -> quantity
      [] measure.unit = "BAG" /\ measure.weight # NoWeight -> quantity * measure.weight
      [] OTHER -> NoAmount

Bags(quantity, measure) ==
    LET perBag == IF measure.weight = NoWeight THEN 1 ELSE measure.weight
    IN  CASE measure.unit = "BAG" -> quantity
          [] measure.unit = "KILOGRAM" -> Ceiling(quantity, perBag)
          [] measure.unit = "METRIC_TON" -> Ceiling(quantity * Kilo, perBag)
          [] OTHER -> NoAmount

Amount(feeType, measure) ==
    CASE feeType \in {"PER_MT_PER_MONTH", "PER_MT_PER_DAY"} -> Kilograms(Quantity, measure)
      [] feeType = "PER_BAG_PER_WEEK" -> Kilo * Bags(Quantity, measure)
      [] feeType = "FLAT_RATE" -> Kilo

Periods(feeType, days) ==
    CASE feeType = "PER_MT_PER_MONTH" -> Ceiling(days, 30)
      [] feeType = "PER_MT_PER_DAY" -> days
      [] feeType = "PER_BAG_PER_WEEK" -> Ceiling(days, 7)
      [] feeType = "FLAT_RATE" -> 1

CalculateFee(feeType, rate, measure, days) ==
    Amount(feeType, measure) * rate * Periods(feeType, days)

-----------------------------------------------------------------------------
Init ==
    /\ policy = <<>>
    /\ commodity \in CommodityRow
    /\ now = 0
    /\ withdrawal = NoRow
    /\ goods = [state |-> "stored", at |-> 0, deposited |-> 0]
    /\ changes = 0
    /\ call = [c \in Call |-> Idle]

Change ==
    /\ changes < MaxChange
    /\ changes' = changes + 1
    /\ UNCHANGED <<now, withdrawal, call>>

(* createPolicy, and createStorageFeePolicy of the older screen, which     *)
(* does not ask for the weight of a bag and may file an inactive policy.   *)
Weighed(p) == p.feeType = "PER_BAG_PER_WEEK" /\ p.commodity = "this" => commodity.weight # NoWeight

CreatePolicy(p) ==
    /\ Weighed(p) /\ p.isActive
    /\ Len(policy) < MaxPolicy
    /\ policy' = Append(policy, p)
    /\ Change
    /\ UNCHANGED <<commodity, goods>>

CreateStorageFeePolicy(p) ==
    /\ Len(policy) < MaxPolicy
    /\ policy' = Append(policy, p)
    /\ Change
    /\ UNCHANGED <<commodity, goods>>

(* updatePolicy checks nothing; activate and deactivate set one column.    *)
UpdatePolicy(i, p) ==
    /\ policy' = [policy EXCEPT ![i] = [p EXCEPT !.isActive = policy[i].isActive]]
    /\ Change
    /\ UNCHANGED <<commodity, goods>>

SetActive(i, active) ==
    /\ policy' = [policy EXCEPT ![i].isActive = active]
    /\ Change
    /\ UNCHANGED <<commodity, goods>>

UpdateCommodity(row) ==
    /\ commodity' = row
    /\ Change
    /\ UNCHANGED <<policy, goods>>

(* editDepositAsAdmin and applyDepositEdit on an ACTIVE receipt.  The hold  *)
(* of a payment copies the date to the child it makes, and a held receipt  *)
(* is refused: a write that comes after the hold reaches the parent only.  *)
CorrectDate(instant) ==
    /\ goods.state = "stored" /\ instant # goods.deposited
    /\ goods' = [goods EXCEPT !.deposited = instant]
    /\ Change
    /\ UNCHANGED <<policy, commodity>>

Pass(instant) ==
    /\ instant > now
    /\ now' = instant
    /\ UNCHANGED <<policy, commodity, withdrawal, goods, changes, call>>

-----------------------------------------------------------------------------
(* Both computations begin with the receipt and its commodity as they were *)
(* read, and look for a policy scope by scope.                             *)
Resolving(op) ==
    [op |-> op, step |-> "resolve", measure |-> commodity, deposited |-> goods.deposited,
     scope |-> 1, since |-> changes]

(* createWithdrawal: the receipt, the policy, the insert.                  *)
CreateLoad(c) ==
    /\ withdrawal = NoRow
    /\ Begin(c, Resolving("create"))
    /\ UNCHANGED tables

(* completeWithdrawal: the row, the ledger call or its replay, the         *)
(* receipt, the policy, the update.                                        *)
CompleteLoad(c) ==
    /\ withdrawal.status = "APPROVED"
    /\ Begin(c, [op |-> "complete", step |-> "consume"])
    /\ UNCHANGED tables

CompleteConsume(c) ==
    /\ At(c, "complete", "consume")
    /\ goods' = IF goods.state = "gone" THEN goods
                 ELSE [goods EXCEPT !.state = "gone", !.at = now]
    /\ Continue(c, [op |-> "complete", step |-> "read"])
    /\ UNCHANGED <<policy, commodity, now, withdrawal, changes>>

CompleteRead(c) ==
    /\ At(c, "complete", "read")
    /\ Continue(c, Resolving("complete"))
    /\ UNCHANGED tables

(* One query of resolvePolicy; with a policy the fee is computed at once.  *)
Resolve(c) ==
    LET rows == Matching(policy, Candidates[call[c].scope])
        i == Newest(rows)
        p == policy[i]
        days == Days(now, call[c].deposited)
    IN  /\ At(c, "create", "resolve") \/ At(c, "complete", "resolve")
        /\ \/ /\ rows = {} /\ call[c].scope < Len(Candidates)
              /\ Continue(c, [call[c] EXCEPT !.scope = @ + 1])
           \/ /\ rows # {} /\ Amount(p.feeType, call[c].measure) >= 0
              /\ Continue(c, [op |-> call[c].op, step |-> "write", policy |-> i,
                              since |-> call[c].since, days |-> days,
                              fee |-> CalculateFee(p.feeType, p.rate, call[c].measure, days)])
        /\ UNCHANGED tables

CreateWrite(c) ==
    /\ At(c, "create", "write")
    /\ withdrawal' = [status |-> "PENDING_PAYMENT", storageFee |-> call[c].fee,
                      since |-> call[c].since]
    /\ Return(c)
    /\ UNCHANGED <<policy, commodity, now, goods, changes>>

CompleteWrite(c) ==
    /\ At(c, "complete", "write")
    /\ withdrawal' = [withdrawal EXCEPT !.status = "COMPLETED", !.storageFee = call[c].fee]
    /\ Return(c)
    /\ UNCHANGED <<policy, commodity, now, goods, changes>>

(* confirmPayment and approveWithdrawal: Withdrawals has them in steps.    *)
PayAndApprove ==
    /\ withdrawal.status = "PENDING_PAYMENT"
    /\ withdrawal' = [withdrawal EXCEPT !.status = "APPROVED"]
    /\ goods' = [goods EXCEPT !.state = "held", !.at = now]
    /\ UNCHANGED <<policy, commodity, now, changes, call>>

Abort(c) == Abandon(c) /\ UNCHANGED tables

Next ==
    \/ \E p \in Policy :
          \/ CreatePolicy(p)
          \/ CreateStorageFeePolicy(p)
          \/ \E i \in DOMAIN policy : UpdatePolicy(i, p)
    \/ \E i \in DOMAIN policy, active \in BOOLEAN : SetActive(i, active)
    \/ \E row \in CommodityRow : UpdateCommodity(row)
    \/ \E instant \in Instant : CorrectDate(instant) \/ Pass(instant)
    \/ PayAndApprove
    \/ \E c \in Call :
          \/ CreateLoad(c) \/ CreateWrite(c)
          \/ CompleteLoad(c) \/ CompleteConsume(c) \/ CompleteRead(c) \/ CompleteWrite(c)
          \/ Resolve(c)
          \/ Abort(c)

Spec == Init /\ [][Next]_vars

-----------------------------------------------------------------------------
TypeOK ==
    /\ policy \in Seq(Policy) /\ Len(policy) <= MaxPolicy
    /\ commodity \in CommodityRow
    /\ now \in Instant
    /\ goods \in [state : {"stored", "held", "gone"}, at : Instant, deposited : Instant]
    /\ withdrawal # NoRow =>
          /\ withdrawal.status \in {"PENDING_PAYMENT", "APPROVED", "COMPLETED"}
          /\ withdrawal.storageFee \in Int
    /\ changes \in 0..MaxChange

(* The policy i is narrower than j, or as narrow and newer.                *)
Before(i, j) ==
    LET rank(k) == (IF policy[k].warehouse = "this" THEN 2 ELSE 0)
                      + (IF policy[k].commodity = "this" THEN 1 ELSE 0)
    IN  rank(i) > rank(j) \/ (rank(i) = rank(j) /\ i > j)

(* While nobody touches the policies, the commodity or the date of         *)
(* deposit, a fee is computed from the policy that comes before every      *)
(* other active one, and the bill at dispatch is never less than the quote *)
(* the client paid on (resolvePolicy, calculateFee, completeWithdrawal).   *)
ChargedNarrowest ==
    \A c \in Call :
        call[c].op # "idle" /\ call[c].step = "write" /\ call[c].since = changes =>
            \A j \in DOMAIN policy : policy[j].isActive => ~Before(j, call[c].policy)

BillCoversQuote ==
    \A c \in Call :
        At(c, "complete", "write") /\ withdrawal.since = changes =>
            call[c].fee >= withdrawal.storageFee

-----------------------------------------------------------------------------
(***************************************************************************)
(* What the comments of the code promise, and the code does not do.        *)
(***************************************************************************)

(* "Recompute the storage fee against the actual dispatch date": a         *)
(* completion that consumed the goods and stopped bills the day of its     *)
(* retry.                                                                  *)
BilledAtDispatch ==
    \A c \in Call :
        At(c, "complete", "write") => call[c].days = Days(goods.at, goods.deposited)

(* "PER_BAG_PER_WEEK fee requires the commodity to have                    *)
(* standardBagWeightKg set": one of three writers of policies asks.        *)
BagPoliciesAreWeighed ==
    \A i \in DOMAIN policy : Weighed(policy[i])
=============================================================================
