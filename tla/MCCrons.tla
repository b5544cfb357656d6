------------------------------ MODULE MCCrons ------------------------------
(***************************************************************************)
(* The two clean-up crons for TLC, each beside the handlers of its flow,   *)
(* one handler at a time: the rows of a flow that nobody comes back for.   *)
(* A behaviour follows one flow, and the tables of the other stay as they  *)
(* are: the crons meet in the ledger only, whose keys and holds keep them  *)
(* apart.                                                                  *)
(***************************************************************************)
EXTENDS Naturals

CONSTANTS alice, bob, w1, w2, p1, p2, elsewhere, c1, cron, None

VARIABLES minted, receipt, event, call,  \* shared
          row, sweep,                    \* withdrawals
          pledge, lien, request,         \* pledges
          flow                           \* whose turn this behaviour is

(* The idempotency keys of the two flows.                                  *)
Arrival == {<<"deposit", None>>, <<"admit", None>>}

WithdrawalKeys ==
    Arrival \cup {<<"hold", elsewhere>>}
        \cup ({"hold", "approveHold", "release", "consume"} \X {w1, w2})

PledgeKeys ==
    Arrival \cup ({"create", "accept", "cancel", "reject", "expire", "force"} \X {p1, p2})

ASSUME NamesAssumption ==
    /\ elsewhere \notin {w1, w2}
    /\ None \notin {alice, bob, w1, w2, p1, p2, elsewhere}
    /\ None \notin WithdrawalKeys \cup PledgeKeys

W == INSTANCE Withdrawals WITH
        MaxReceipts <- 3, MaxQuantity <- 1, Stock <- 1, Scale <- 1,
        Client <- {alice, bob}, Withdrawal <- {w1, w2}, Pledge <- elsewhere,
        Txn <- {w1, w2, elsewhere}, Call <- {c1},
        HoldStatus <- {"HELD_WITHDRAWAL", "HELD_PLEDGE_PENDING"},
        Key <- WithdrawalKeys

C == INSTANCE Collateral WITH
        MaxReceipts <- 4, MaxQuantity <- 2, Stock <- 2, Scale <- 1,
        Client <- {alice}, Pledge <- {p1, p2}, ReleaseRequest <- {}, Line <- {},
        Txn <- {p1, p2}, HoldStatus <- {"HELD_PLEDGE_PENDING"}, Call <- {c1, cron},
        Cron <- cron, Key <- PledgeKeys

-----------------------------------------------------------------------------
ledger == <<minted, receipt, event, call>>
withdrawals == <<row, sweep>>
pledges == <<pledge, lien, request>>
vars == <<ledger, withdrawals, pledges, flow>>

NoWithdrawals == row = [w \in {w1, w2} |-> W!NoWithdrawal] /\ sweep = {}

NoPledges ==
    /\ pledge = [p \in {p1, p2} |-> C!NoPledge]
    /\ lien = [p \in {p1, p2} |-> C!NoLien]
    /\ request = <<>>

Init ==
    \/ flow = "withdrawals" /\ W!Init /\ NoPledges
    \/ flow = "pledges" /\ C!Init /\ NoWithdrawals

In(f, step) == flow = f /\ step /\ UNCHANGED flow

Withdrawing(step) == In("withdrawals", step) /\ UNCHANGED pledges
Pledging(step) == In("pledges", step) /\ UNCHANGED withdrawals

Next == Withdrawing(W!Next) \/ Pledging(C!Next)

(* The fairness of Withdrawals!FairSpec and of Collateral!FairSpec; in a   *)
(* behaviour only one disjunct of each can ever be enabled.                *)
FairSpec ==
    /\ Init /\ [][Next]_vars
    /\ WF_vars(Withdrawing(W!SweepFind) \/ Pledging(C!Abort(cron)))
    /\ SF_vars(Withdrawing(W!SweepUpdate) \/ Pledging(C!ExpireFind))
    /\ \A p \in {p1, p2} : SF_vars(Pledging(C!ExpireRelease(p)))

-----------------------------------------------------------------------------
(* Withdrawals!NoOverbooking: one request at a time, the live unpaid       *)
(* requests on a receipt never ask for more than it holds (the soft        *)
(* reservation of createWithdrawalRequest).                                *)
NoOverbooking == flow = "withdrawals" => W!NoOverbooking

(* Collateral!OwnGoodsOnly: accept, cancel, reject, expiry and release     *)
(* touch the goods their own pledge holds and no other pledge's.           *)
OwnGoodsOnly == flow = "pledges" => C!OwnGoodsOnly

(* Withdrawals!LapsedLeaveQueue and Collateral!LapsedHoldsEnd: what nobody *)
(* comes back for does not stay.  A request that is not paid for in time   *)
(* leaves the queue, and a pledge nobody accepts in time frees its goods,  *)
(* whatever handlers and rounds of the crons are cut short.                *)
Reserved(p) ==
    \E r \in 1..minted :
        receipt[r].sourceTxn = p /\ receipt[r].status = "HELD_PLEDGE_PENDING"

LapsedIsCleared ==
    \A pair \in {<<w1, p1>>, <<w2, p2>>} :
        W!Lapsed(pair[1]) \/ C!Stale(pair[2])
            ~> ~W!Lapsed(pair[1]) /\ ~Reserved(pair[2])
=============================================================================
