---------------------------- MODULE CronsProofs ----------------------------
(***************************************************************************)
(* What the runs of the two crons check, proved.  The general theorems are *)
(* in WithdrawalsProofs and CollateralProofs: WP and CP are these modules, *)
(* for the same constants as W and C in MCCrons.  A behaviour of MCCrons   *)
(* follows one flow from beginning to end, so it is, seen through the      *)
(* variables of that flow, a behaviour of that flow's own specification.   *)
(***************************************************************************)
EXTENDS MCCrons, TLAPS

WP == INSTANCE WithdrawalsProofs WITH
        MaxReceipts <- 3, MaxQuantity <- 1, Stock <- 1, Scale <- 1,
        Client <- {alice, bob}, Withdrawal <- {w1, w2}, Pledge <- elsewhere,
        Txn <- {w1, w2, elsewhere}, Call <- {c1},
        HoldStatus <- {"HELD_WITHDRAWAL", "HELD_PLEDGE_PENDING"},
        Key <- WithdrawalKeys

CP == INSTANCE CollateralProofs WITH
        MaxReceipts <- 4, MaxQuantity <- 2, Stock <- 2, Scale <- 1,
        Client <- {alice}, Pledge <- {p1, p2}, ReleaseRequest <- {}, Line <- {},
        Txn <- {p1, p2}, HoldStatus <- {"HELD_PLEDGE_PENDING"}, Call <- {c1, cron},
        Cron <- cron, Key <- PledgeKeys

-----------------------------------------------------------------------------
(***************************************************************************)
(* The constants of MCCrons are as the two flows assume, so their theorems *)
(* hold here.                                                              *)
(***************************************************************************)

(* WithdrawalsProofs!SoftReservationHolds: the one handler is c1.          *)
LEMMA SoftReservation == WP!Spec => []WP!NoOverbooking
<1>1. /\ 3 \in Nat /\ 1 \in Nat \ {0} /\ 3 > 0 /\ 1 \in 1..1
      /\ {"HELD_WITHDRAWAL", "HELD_PLEDGE_PENDING"} \subseteq WP!HeldStatus
  BY DEF WP!HeldStatus
<1>2. None \notin {alice, bob} \cup WithdrawalKeys \cup {w1, w2, elsewhere}
  BY NamesAssumption
<1>3. /\ {w1, w2} \cup {elsewhere} \subseteq {w1, w2, elsewhere}
      /\ elsewhere \notin {w1, w2}
  BY NamesAssumption
<1>4. {"hold", "approveHold", "release", "consume"} \X {w1, w2} \subseteq WithdrawalKeys
  BY DEF WithdrawalKeys
<1>5. {WP!PledgeKey, WP!DepositKey, WP!AdmitKey} \subseteq WithdrawalKeys
  BY DEF WithdrawalKeys, WP!PledgeKey, WP!DepositKey, WP!AdmitKey, Arrival
<1> QED
  BY <1>1, <1>2, <1>3, <1>4, <1>5, WP!SoftReservationHolds

(* CollateralProofs!HandlersTouchTheirOwnGoods: no release requests here.  *)
LEMMA OwnGoods == CP!Spec => []CP!OwnGoodsOnly
<1>1. /\ 4 \in Nat /\ 2 \in Nat /\ 1 \in Nat \ {0} /\ 4 > 0 /\ 2 \in 1..2
      /\ {"HELD_PLEDGE_PENDING"} \subseteq CP!HeldStatus
  BY DEF CP!HeldStatus
<1>2. None \notin {alice} \cup PledgeKeys \cup {p1, p2}
  BY NamesAssumption
<1>3. CP!CollateralKey \subseteq PledgeKeys
  BY DEF CP!CollateralKey, PledgeKeys, Arrival, CP!DepositKey, CP!AdmitKey
<1> QED
  BY <1>1, <1>2, <1>3, CP!HandlersTouchTheirOwnGoods

-----------------------------------------------------------------------------
(***************************************************************************)
(* W and WP are two instances of one module: what they define is the same, *)
(* operation by operation, once it is written out.                         *)
(***************************************************************************)

(* A ledger with one approved deposit, no request, no handler.             *)
LEMMA SameWithdrawalInit == W!Init => WP!Init
  BY Zenon
     DEF W!Init, WP!Init, W!Stocked, WP!Stocked, W!DepositKey,
         WP!DepositKey, W!AdmitKey, WP!AdmitKey, W!NoWithdrawal,
         WP!NoWithdrawal, W!Idle, WP!Idle, W!Receipt, WP!Receipt,
         W!NoReceipt, WP!NoReceipt, W!NoRow, WP!NoRow, W!NoEvent,
         WP!NoEvent

(* The steps of createWithdrawalRequest are the same in both instances.    *)
LEMMA SameCreate == \A c : W!Create(c) => WP!Create(c)
  BY Zenon
     DEF W!Create, WP!Create, W!Minted, WP!Minted, W!Quantity, WP!Quantity,
         W!CreateLoad, WP!CreateLoad, W!CreateCheckOwn, WP!CreateCheckOwn,
         W!CreateCheckAvailable, WP!CreateCheckAvailable, W!CreateInsert,
         WP!CreateInsert, W!Begin, WP!Begin, W!ledgerVars, WP!ledgerVars,
         W!At, WP!At, W!Reservations, WP!Reservations, W!Continue,
         WP!Continue, W!Reserved, WP!Reserved, W!Exists, WP!Exists,
         W!Return, WP!Return, W!Idle, WP!Idle, W!MapThenSumSet,
         WP!MapThenSumSet, W!MapThenFoldSet, WP!MapThenFoldSet

(* The steps of confirmPayment.                                            *)
LEMMA SameConfirm == \A c : W!Confirm(c) => WP!Confirm(c)
  BY Zenon
     DEF W!Confirm, WP!Confirm, W!ConfirmLoad, WP!ConfirmLoad,
         W!ConfirmHold, WP!ConfirmHold, W!ConfirmUpdate, WP!ConfirmUpdate,
         W!Load, WP!Load, W!At, WP!At, W!Hold, WP!Hold, W!HoldKey,
         WP!HoldKey, W!Exactly, WP!Exactly, W!Replay, WP!Replay, W!HeldBy,
         WP!HeldBy, W!Continue, WP!Continue, W!Write, WP!Write, W!Begin,
         WP!Begin, W!ledgerVars, WP!ledgerVars, W!Record, WP!Record,
         W!Stored, WP!Stored, W!Partition, WP!Partition, W!NoEvent,
         WP!NoEvent, W!Minted, WP!Minted, W!IsHeld, WP!IsHeld, W!Return,
         WP!Return, W!Idle, WP!Idle, W!ChildOf, WP!ChildOf, W!Split,
         WP!Split, W!NoReceipt, WP!NoReceipt, W!HeldStatus, WP!HeldStatus,
         W!Receipt, WP!Receipt

(* The steps of approveWithdrawal.                                         *)
LEMMA SameApproval == \A c : W!Approve(c) => WP!Approve(c)
  BY Zenon
     DEF W!Approve, WP!Approve, W!ApproveLoad, WP!ApproveLoad,
         W!ApproveLedger, WP!ApproveLedger, W!ApproveUpdate,
         WP!ApproveUpdate, W!Load, WP!Load, W!At, WP!At, W!Ledger,
         WP!Ledger, W!ApproveHold, WP!ApproveHold, W!ApproveKey,
         WP!ApproveKey, W!Write, WP!Write, W!Begin, WP!Begin, W!ledgerVars,
         WP!ledgerVars, W!Replay, WP!Replay, W!Continue, WP!Continue,
         W!IsHeld, WP!IsHeld, W!Record, WP!Record, W!Update, WP!Update,
         W!Return, WP!Return, W!Idle, WP!Idle, W!NoEvent, WP!NoEvent,
         W!HeldStatus, WP!HeldStatus, W!NoReceipt, WP!NoReceipt

(* The steps of rejectWithdrawal.                                          *)
LEMMA SameReject == \A c : W!Reject(c) => WP!Reject(c)
  BY Zenon
     DEF W!Reject, WP!Reject, W!RejectLoad, WP!RejectLoad, W!RejectRead,
         WP!RejectRead, W!RejectRelease, WP!RejectRelease, W!RejectUpdate,
         WP!RejectUpdate, W!Load, WP!Load, W!WithdrawalStatus,
         WP!WithdrawalStatus, W!At, WP!At, W!Continue, WP!Continue,
         W!IsHeld, WP!IsHeld, W!ledgerVars, WP!ledgerVars, W!Ledger,
         WP!Ledger, W!Release, WP!Release, W!ReleaseKey, WP!ReleaseKey,
         W!Return, WP!Return, W!Write, WP!Write, W!Begin, WP!Begin,
         W!HeldStatus, WP!HeldStatus, W!Replay, WP!Replay, W!Record,
         WP!Record, W!Update, WP!Update, W!Idle, WP!Idle, W!NoEvent,
         WP!NoEvent, W!NoReceipt, WP!NoReceipt

(* The steps of completeWithdrawal.                                        *)
LEMMA SameComplete == \A c : W!Complete(c) => WP!Complete(c)
  BY Zenon
     DEF W!Complete, WP!Complete, W!CompleteLoad, WP!CompleteLoad,
         W!CompleteLedger, WP!CompleteLedger, W!CompleteUpdate,
         WP!CompleteUpdate, W!Load, WP!Load, W!At, WP!At, W!Ledger,
         WP!Ledger, W!Consume, WP!Consume, W!ConsumeKey, WP!ConsumeKey,
         W!Write, WP!Write, W!Begin, WP!Begin, W!ledgerVars, WP!ledgerVars,
         W!Replay, WP!Replay, W!Continue, WP!Continue, W!IsHeld, WP!IsHeld,
         W!Record, WP!Record, W!Update, WP!Update, W!Return, WP!Return,
         W!Idle, WP!Idle, W!NoEvent, WP!NoEvent, W!HeldStatus,
         WP!HeldStatus, W!NoReceipt, WP!NoReceipt

(* A handler of a withdrawal stops.                                        *)
LEMMA SameAbort == \A c : W!Abort(c) => WP!Abort(c)
  BY Zenon
     DEF W!Abort, WP!Abort, W!Abandon, WP!Abandon, W!ledgerVars,
         WP!ledgerVars, W!Idle, WP!Idle, W!Return, WP!Return

(* The clean-up cron of the withdrawals.                                   *)
LEMMA SameSweep == W!Sweep => WP!Sweep
  BY Zenon
     DEF W!Sweep, WP!Sweep, W!SweepFind, WP!SweepFind, W!SweepUpdate,
         WP!SweepUpdate, W!SweepAbort, WP!SweepAbort, W!Lapsed, WP!Lapsed,
         W!ledgerVars, WP!ledgerVars

(* Thirty minutes pass for a request.                                      *)
LEMMA SameLapse == \A w : W!Lapse(w) => WP!Lapse(w)
  BY Zenon
     DEF W!Lapse, WP!Lapse, W!ledgerVars, WP!ledgerVars

(* A pledge holds part of the same stock.                                  *)
LEMMA SameElsewhere == \A r, q : W!HoldElsewhere(r, q) => WP!HoldElsewhere(r, q)
<1> TAKE r, q
<1> QED
  BY Zenon
     DEF W!HoldElsewhere, WP!HoldElsewhere, W!Hold, WP!Hold, W!PledgeKey,
         WP!PledgeKey, W!Exactly, WP!Exactly, W!Record, WP!Record,
         W!Stored, WP!Stored, W!Partition, WP!Partition, W!NoEvent,
         WP!NoEvent, W!ChildOf, WP!ChildOf, W!Split, WP!Split, W!NoReceipt,
         WP!NoReceipt, W!Receipt, WP!Receipt

(* What the theorem says of the one instance holds of the other.           *)
LEMMA SameOverbooking == WP!NoOverbooking => W!NoOverbooking
  BY Zenon
     DEF W!NoOverbooking, WP!NoOverbooking, W!Minted, WP!Minted,
         W!Reserved, WP!Reserved, W!MapThenSumSet, WP!MapThenSumSet,
         W!Reservations, WP!Reservations, W!MapThenFoldSet,
         WP!MapThenFoldSet

(* Every step of the withdrawal flow.                                      *)
LEMMA SameWithdrawalNext == [W!Next]_(W!vars) => [WP!Next]_(WP!vars)
<1>1. W!vars = WP!vars /\ W!Minted = WP!Minted /\ W!Quantity = WP!Quantity
  BY DEF W!vars, WP!vars, W!ledgerVars, WP!ledgerVars, W!Minted, WP!Minted,
         W!Quantity, WP!Quantity
<1>2. W!vars' = W!vars => WP!vars' = WP!vars
  BY DEF W!vars, WP!vars, W!ledgerVars, WP!ledgerVars
<1>3. W!Next => WP!Next
  BY <1>1, SameElsewhere, SameCreate, SameConfirm, SameApproval, SameReject, SameComplete,
     SameAbort, SameSweep, SameLapse, Zenon DEF W!Next, WP!Next
<1> QED
  BY <1>2, <1>3

-----------------------------------------------------------------------------
(* The same for C and CP.                                                  *)

(* A ledger with one approved deposit, no pledge, no lien, no request.     *)
LEMMA SamePledgeInit == C!Init => CP!Init
  BY Zenon
     DEF C!Init, CP!Init, C!Stocked, CP!Stocked, C!DepositKey,
         CP!DepositKey, C!AdmitKey, CP!AdmitKey, C!NoPledge, CP!NoPledge,
         C!NoLien, CP!NoLien, C!NoRequest, CP!NoRequest, C!Idle, CP!Idle,
         C!Receipt, CP!Receipt, C!NoReceipt, CP!NoReceipt, C!NoRow,
         CP!NoRow, C!NoEvent, CP!NoEvent

(* The steps of createPledge.                                              *)
LEMMA SamePledge == \A c : C!Create(c) => CP!Create(c)
  BY Zenon
     DEF C!Create, CP!Create, C!Minted, CP!Minted, C!Quantity, CP!Quantity,
         C!PledgeLoad, CP!PledgeLoad, C!PledgeCheck, CP!PledgeCheck,
         C!PledgeHold, CP!PledgeHold, C!PledgeInsert, CP!PledgeInsert,
         C!Begin, CP!Begin, C!Reading, CP!Reading, C!At, CP!At,
         C!Available, CP!Available, C!Continue, CP!Continue, C!Hold,
         CP!Hold, C!CreateKey, CP!CreateKey, C!Exactly, CP!Exactly,
         C!HeldBy, CP!HeldBy, C!Return, CP!Return, C!ledgerVars,
         CP!ledgerVars, C!Idle, CP!Idle, C!MapThenSumSet, CP!MapThenSumSet,
         C!Record, CP!Record, C!Stored, CP!Stored, C!Partition,
         CP!Partition, C!IsHeld, CP!IsHeld, C!MapThenFoldSet,
         CP!MapThenFoldSet, C!NoEvent, CP!NoEvent, C!ChildOf, CP!ChildOf,
         C!Split, CP!Split, C!HeldStatus, CP!HeldStatus, C!NoReceipt,
         CP!NoReceipt, C!Receipt, CP!Receipt

(* The steps of cancelPledge and rejectPledge.                             *)
LEMMA SameDecline == \A c : C!Decline(c) => CP!Decline(c)
  BY Zenon
     DEF C!Decline, CP!Decline, C!DeclineLoad, CP!DeclineLoad,
         C!DeclineRelease, CP!DeclineRelease, C!DeclineUpdate,
         CP!DeclineUpdate, C!Begin, CP!Begin, C!Reading, CP!Reading, C!At,
         CP!At, C!DeclineKey, CP!DeclineKey, C!Ledger, CP!Ledger,
         C!Release, CP!Release, C!Outcome, CP!Outcome, C!Return, CP!Return,
         C!ledgerVars, CP!ledgerVars, C!Idle, CP!Idle, C!Replay, CP!Replay,
         C!Continue, CP!Continue, C!IsHeld, CP!IsHeld, C!Record, CP!Record,
         C!Update, CP!Update, C!NoEvent, CP!NoEvent, C!HeldStatus,
         CP!HeldStatus, C!NoReceipt, CP!NoReceipt

(* The steps of acceptPledge.                                              *)
LEMMA SameAccept == \A c : C!Accept(c) => CP!Accept(c)
  BY Zenon
     DEF C!Accept, CP!Accept, C!AcceptLoad, CP!AcceptLoad,
         C!AcceptTransition, CP!AcceptTransition, C!AcceptInsert,
         CP!AcceptInsert, C!Begin, CP!Begin, C!Reading, CP!Reading, C!At,
         CP!At, C!AcceptKey, CP!AcceptKey, C!Ledger, CP!Ledger,
         C!TransitionPledgeToLien, CP!TransitionPledgeToLien, C!NoLien,
         CP!NoLien, C!Return, CP!Return, C!ledgerVars, CP!ledgerVars,
         C!Idle, CP!Idle, C!Replay, CP!Replay, C!Continue, CP!Continue,
         C!Record, CP!Record, C!Update, CP!Update, C!NoReceipt,
         CP!NoReceipt, C!NoEvent, CP!NoEvent

(* The steps of createReleaseRequest.                                      *)
LEMMA SameAsk == \A c : C!Ask(c) => CP!Ask(c)
  BY Zenon
     DEF C!Ask, CP!Ask, C!Lines, CP!Lines, C!RequestLoad, CP!RequestLoad,
         C!RequestCheck, CP!RequestCheck, C!RequestInsert,
         CP!RequestInsert, C!Quantity, CP!Quantity, C!Standing,
         CP!Standing, C!Begin, CP!Begin, C!Reading, CP!Reading, C!At,
         CP!At, C!Pending, CP!Pending, C!Continue, CP!Continue,
         C!NoRequest, CP!NoRequest, C!Return, CP!Return, C!ledgerVars,
         CP!ledgerVars, C!Idle, CP!Idle, C!MapThenSumSet, CP!MapThenSumSet,
         C!PendingLines, CP!PendingLines, C!MapThenFoldSet,
         CP!MapThenFoldSet

(* The steps of cancelReleaseRequest and rejectReleaseRequest.             *)
LEMMA SameClose == \A c : C!Close(c) => CP!Close(c)
  BY Zenon
     DEF C!Close, CP!Close, C!CloseLoad, CP!CloseLoad, C!CloseUpdate,
         CP!CloseUpdate, C!Begin, CP!Begin, C!Reading, CP!Reading, C!At,
         CP!At, C!Return, CP!Return, C!ledgerVars, CP!ledgerVars, C!Idle,
         CP!Idle

(* The steps of approveReleaseRequest.                                     *)
LEMMA SameRelease == \A c : C!Approve(c) => CP!Approve(c)
  BY Zenon
     DEF C!Approve, CP!Approve, C!ApproveLoad, CP!ApproveLoad,
         C!ApproveFull, CP!ApproveFull, C!ApprovePartial,
         CP!ApprovePartial, C!ApproveLien, CP!ApproveLien, C!CloseUpdate,
         CP!CloseUpdate, C!Standing, CP!Standing, C!Begin, CP!Begin,
         C!Reading, CP!Reading, C!FullKey, CP!FullKey, C!At, CP!At,
         C!Ledger, CP!Ledger, C!Release, CP!Release, C!NoReceipt,
         CP!NoReceipt, C!PartialKey, CP!PartialKey, C!ReleasePartial,
         CP!ReleasePartial, C!Exactly, CP!Exactly, C!Replay, CP!Replay,
         C!HeldBy, CP!HeldBy, C!Continue, CP!Continue, C!ledgerVars,
         CP!ledgerVars, C!Return, CP!Return, C!Idle, CP!Idle, C!IsHeld,
         CP!IsHeld, C!Record, CP!Record, C!Update, CP!Update, C!Stored,
         CP!Stored, C!Split, CP!Split, C!ChildOf, CP!ChildOf, C!NoEvent,
         CP!NoEvent, C!Minted, CP!Minted, C!HeldStatus, CP!HeldStatus,
         C!Receipt, CP!Receipt

(* The steps of forceReleaseLien.                                          *)
LEMMA SameForceRelease == \A c : C!ForceRelease(c) => CP!ForceRelease(c)
  BY Zenon
     DEF C!ForceRelease, CP!ForceRelease, C!ForceLoad, CP!ForceLoad,
         C!ForceReleaseGoods, CP!ForceReleaseGoods, C!ForceUpdate,
         CP!ForceUpdate, C!NoLien, CP!NoLien, C!Begin, CP!Begin, C!Reading,
         CP!Reading, C!At, CP!At, C!Ledger, CP!Ledger, C!Release,
         CP!Release, C!ForceKey, CP!ForceKey, C!Return, CP!Return,
         C!ledgerVars, CP!ledgerVars, C!NoReceipt, CP!NoReceipt, C!Idle,
         CP!Idle, C!Replay, CP!Replay, C!Continue, CP!Continue, C!IsHeld,
         CP!IsHeld, C!Record, CP!Record, C!Update, CP!Update, C!NoEvent,
         CP!NoEvent, C!HeldStatus, CP!HeldStatus

(* The round of expireStalePledges.                                        *)
LEMMA SameExpireStale == C!ExpireStale => CP!ExpireStale
  BY Zenon
     DEF C!ExpireStale, CP!ExpireStale, C!ExpireFind, CP!ExpireFind,
         C!ExpireRelease, CP!ExpireRelease, C!ExpireUpdate,
         CP!ExpireUpdate, C!ExpireCatch, CP!ExpireCatch, C!Stale, CP!Stale,
         C!Begin, CP!Begin, C!Reading, CP!Reading, C!At, CP!At, C!Ledger,
         CP!Ledger, C!Release, CP!Release, C!DeclineKey, CP!DeclineKey,
         C!ExpireDone, CP!ExpireDone, C!ledgerVars, CP!ledgerVars, C!Idle,
         CP!Idle, C!Replay, CP!Replay, C!Continue, CP!Continue, C!IsHeld,
         CP!IsHeld, C!Record, CP!Record, C!Update, CP!Update, C!Return,
         CP!Return, C!NoEvent, CP!NoEvent, C!HeldStatus, CP!HeldStatus,
         C!NoReceipt, CP!NoReceipt

(* A handler of a pledge stops, or a round of the cron.                    *)
LEMMA SamePledgeAbort == \A c : C!Abort(c) => CP!Abort(c)
  BY Zenon
     DEF C!Abort, CP!Abort, C!Abandon, CP!Abandon, C!ledgerVars,
         CP!ledgerVars, C!Idle, CP!Idle, C!Return, CP!Return

(* A pledge reaches expiresAt.                                             *)
LEMMA SamePledgeLapse == \A p : C!Lapse(p) => CP!Lapse(p)
  BY Zenon
     DEF C!Lapse, CP!Lapse, C!ledgerVars, CP!ledgerVars

(* What the theorem says of the one instance holds of the other.           *)
LEMMA SameOwnGoods == CP!OwnGoodsOnly => C!OwnGoodsOnly
  BY Zenon
     DEF C!OwnGoodsOnly, CP!OwnGoodsOnly, C!Did, CP!Did, C!FullKey,
         CP!FullKey, C!PartialKey, CP!PartialKey, C!NoEvent, CP!NoEvent,
         C!NoReceipt, CP!NoReceipt

(* Every step of the pledge flow.                                          *)
LEMMA SamePledgeNext == [C!Next]_(C!vars) => [CP!Next]_(CP!vars)
<1>1. C!vars' = C!vars => CP!vars' = CP!vars
  BY DEF C!vars, CP!vars, C!ledgerVars, CP!ledgerVars
<1>2. C!Next => CP!Next
  BY SamePledge, SameDecline, SameAccept, SameAsk, SameClose, SameRelease,
     SameForceRelease, SameExpireStale, SamePledgeAbort, SamePledgeLapse, Zenon
  DEF C!Next, CP!Next
<1> QED
  BY <1>1, <1>2

-----------------------------------------------------------------------------
(***************************************************************************)
(* A behaviour stays with its flow.                                        *)
(***************************************************************************)

(* In the withdrawal flow, what happens is a step of Withdrawals or, for a *)
(* stutter of all tables, none.                                            *)
LEMMA WithdrawalsFlow ==
    flow = "withdrawals" /\ [Next]_vars =>
        (flow = "withdrawals")' /\ [W!Next]_(W!vars)
<1> SUFFICES ASSUME flow = "withdrawals", [Next]_vars
             PROVE  (flow = "withdrawals")' /\ [W!Next]_(W!vars)
  OBVIOUS
<1>1. CASE UNCHANGED vars
  BY <1>1 DEF vars, ledger, withdrawals, W!vars, W!ledgerVars
<1>2. CASE Withdrawing(W!Next)
  BY <1>2, Zenon DEF Withdrawing, In
<1>3. CASE Pledging(C!Next)
  BY <1>3 DEF Pledging, In
<1> QED
  BY <1>1, <1>2, <1>3 DEF Next

(* And in the pledge flow.                                                 *)
LEMMA PledgesFlow ==
    flow = "pledges" /\ [Next]_vars => (flow = "pledges")' /\ [C!Next]_(C!vars)
<1> SUFFICES ASSUME flow = "pledges", [Next]_vars
             PROVE  (flow = "pledges")' /\ [C!Next]_(C!vars)
  OBVIOUS
<1>1. CASE UNCHANGED vars
  BY <1>1 DEF vars, ledger, pledges, C!vars, C!ledgerVars
<1>2. CASE Pledging(C!Next)
  BY <1>2, Zenon DEF Pledging, In
<1>3. CASE Withdrawing(W!Next)
  BY <1>3 DEF Withdrawing, In
<1> QED
  BY <1>1, <1>2, <1>3 DEF Next

(* NoOverbooking: beside the clean-up cron, one request at a time, the     *)
(* live unpaid requests on a receipt never ask for more than it holds.     *)
THEOREM NeverOverbooked == FairSpec => []NoOverbooking
<1>1. Init => (flow = "withdrawals" /\ W!Init) \/ flow = "pledges"
  BY DEF Init
<1>2. flow = "pledges" /\ [Next]_vars => (flow = "pledges")'
  BY PledgesFlow
<1>3. flow = "pledges" => NoOverbooking
  BY DEF NoOverbooking
<1>4. WP!NoOverbooking => NoOverbooking
  BY SameOverbooking DEF NoOverbooking
<1> QED
  BY <1>1, <1>2, <1>3, <1>4, WithdrawalsFlow, SameWithdrawalInit, SameWithdrawalNext,
     SoftReservation, PTL
  DEF FairSpec, WP!Spec

(* OwnGoodsOnly: beside the expiry cron, accept, cancel, reject and expiry *)
(* touch the goods of their own pledge and of no other.                    *)
THEOREM PledgesTouchTheirOwnGoods == FairSpec => []OwnGoodsOnly
<1>1. Init => (flow = "pledges" /\ C!Init) \/ flow = "withdrawals"
  BY DEF Init
<1>2. flow = "withdrawals" /\ [Next]_vars => (flow = "withdrawals")'
  BY WithdrawalsFlow
<1>3. flow = "withdrawals" => OwnGoodsOnly
  BY DEF OwnGoodsOnly
<1>4. CP!OwnGoodsOnly => OwnGoodsOnly
  BY SameOwnGoods DEF OwnGoodsOnly
<1> QED
  BY <1>1, <1>2, <1>3, <1>4, PledgesFlow, SamePledgeInit, SamePledgeNext, OwnGoods, PTL
  DEF FairSpec, CP!Spec
=============================================================================
