----------------------------- MODULE Collateral -----------------------------
(***************************************************************************)
(* Pledges, liens and release requests over the receipt ledger:            *)
(* src/src/pledges, src/src/release-requests and the force release of      *)
(* src/src/admin-liens.                                                    *)
(*                                                                         *)
(* A client pledges part of a receipt (a hold), the financier accepts it   *)
(* (the hold becomes a lien) or declines it (the goods are released); the  *)
(* client asks for liened goods back in release requests, which the        *)
(* financier approves line by line; an administrator can end a lien by     *)
(* force.  Every handler reads its rows, calls the ledger and writes its   *)
(* rows by id, each in a transaction of its own.  Pledges that nobody      *)
(* decides on are expired by a cron.                                       *)
(*                                                                         *)
(* One client and one financier, so the ownership checks always pass; the  *)
(* one-time codes, the warehouse link and the valuation are not here.      *)
(***************************************************************************)
EXTENDS InventoryLedger, Handlers

CONSTANTS
    Pledge,          \* bound: pledges; a lien has the id of its pledge
    ReleaseRequest,  \* bound: release requests
    Line,            \* bound: lines of a release request
    Cron,            \* the handler that expires pledges
    Stock            \* quantity of the one approved deposit the run starts with

CreateKey(p) == <<"create", p>>
AcceptKey(p) == <<"accept", p>>
DeclineKey(op, p) == <<op, p>>
ForceKey(p) == <<"force", p>>
FullKey(q, l) == <<"full", q, l>>
PartialKey(q, l) == <<"partial", q, l>>
DepositKey == <<"deposit", None>>
AdmitKey == <<"admit", None>>

CollateralKey ==
    {DepositKey, AdmitKey}
        \cup {"create", "accept", "cancel", "reject", "expire", "force"} \X Pledge
        \cup {"full", "partial"} \X ReleaseRequest \X Line

ASSUME CollateralAssumption ==
    /\ CollateralKey \subseteq Key
    /\ Pledge \subseteq Txn
    /\ Cron \in Call
    /\ "HELD_PLEDGE_PENDING" \in HoldStatus
    /\ MaxReceipts > 0
    /\ Stock \in 1..MaxQuantity

PledgeStatus == {"PENDING", "ACCEPTED", "REJECTED", "EXPIRED", "CANCELLED"}
LienStatus == {"ACTIVE", "PARTIALLY_RELEASED", "RELEASED", "FORCE_RELEASED"}
RequestStatus == {"PENDING", "APPROVED", "REJECTED", "CANCELLED"}

VARIABLES
    pledge,   \* the pledges table
    lien,     \* the liens table, with its force release
    request   \* the release requests with their lines

vars == <<ledgerVars, pledge, lien, request, call>>

Quantity == 1..MaxQuantity

(* live: expiresAt is still to come.                                       *)
PledgeRow == [status : PledgeStatus, receiptId : Minted, held : Minted,
              quantity : 1..MaxQuantity, live : BOOLEAN]

NoPledge == [status |-> "NONE", receiptId |-> NoReceipt, held |-> NoReceipt,
             quantity |-> 0, live |-> FALSE]

LienRow == [status : LienStatus, receiptId : Minted,
            remaining : 0..MaxQuantity, forced : BOOLEAN]

NoLien == [status |-> "NONE", receiptId |-> NoReceipt, remaining |-> 0,
           forced |-> FALSE]

NoRequest == [status |-> "NONE", lines |-> <<>>]

Standing(p) == lien[p].status \in {"ACTIVE", "PARTIALLY_RELEASED"}

-----------------------------------------------------------------------------
Init ==
    /\ Stocked(Stock, DepositKey, AdmitKey)
    /\ pledge = [p \in Pledge |-> NoPledge]
    /\ lien = [p \in Pledge |-> NoLien]
    /\ request = [q \in ReleaseRequest |-> NoRequest]
    /\ call = [c \in Call |-> Idle]

Abort(c) ==
    /\ Abandon(c)
    /\ UNCHANGED <<ledgerVars, pledge, lien, request>>

(* One step of a handler that only reads.                                  *)
Reading == UNCHANGED <<ledgerVars, pledge, lien, request>>

(* The primitive, or the replay of a call that already went through.       *)
Ledger(c, primitive, k, state) ==
    /\ primitive \/ Replay(k)
    /\ Continue(c, state)
    /\ UNCHANGED <<pledge, lien, request>>

(* Variant: any held receipt will do.                                      *)
HeldByAnyone(k) == {r \in Minted : IsHeld(r)}

(* The child a replayed split finds among the children of its event.       *)
HeldBy(k) == {r \in Minted : receipt[r].sourceEvent = k /\ IsHeld(r)}

-----------------------------------------------------------------------------
(* createPledge.  The receipt may be a leaf or a superseded root; what is  *)
(* available is the sum of the ACTIVE receipts of its tree.                *)
PledgeLoad(c, r, n) ==
    /\ receipt[r].status \in {"ACTIVE", "SPLIT", "PENDING_APPROVAL"}
    /\ Begin(c, [op |-> "pledge", step |-> "available", receiptId |-> r, quantity |-> n])
    /\ Reading

Available(r) ==
    MapThenSumSet(LAMBDA x : receipt[x].quantity,
                  {x \in Minted : /\ receipt[x].root = r \/ x = r
                                  /\ receipt[x].status = "ACTIVE"})

PledgeCheck(c) ==
    /\ At(c, "pledge", "available")
    /\ call[c].quantity <= Available(call[c].receiptId)
    /\ Continue(c, [call[c] EXCEPT !.step = "hold"])
    /\ Reading

(* The pledge id is drawn before the hold, so no two handlers share it.    *)
PledgeHold(c, p) ==
    /\ At(c, "pledge", "hold")
    /\ Hold(CreateKey(p), call[c].receiptId, Exactly(call[c].quantity),
            "HELD_PLEDGE_PENDING", p)
    /\ \E held \in HeldBy(CreateKey(p))' :
          Continue(c, [op |-> "pledge", step |-> "insert", p |-> p, held |-> held,
                       receiptId |-> call[c].receiptId, quantity |-> call[c].quantity])
    /\ UNCHANGED <<pledge, lien, request>>

PledgeInsert(c) ==
    /\ At(c, "pledge", "insert")
    /\ pledge' = [pledge EXCEPT ![call[c].p] =
          [status |-> "PENDING", receiptId |-> call[c].receiptId,
           held |-> call[c].held, quantity |-> call[c].quantity, live |-> TRUE]]
    /\ Return(c)
    /\ UNCHANGED <<ledgerVars, lien, request>>

-----------------------------------------------------------------------------
(* cancelPledge and rejectPledge: release the goods, then write the row.   *)
(* heldReceiptId never changes, so it can be read when it is needed.       *)
Outcome == [cancel |-> "CANCELLED", reject |-> "REJECTED"]

DeclineLoad(c, op, p) ==
    /\ pledge[p].status = "PENDING"
    /\ Begin(c, [op |-> op, step |-> "release", p |-> p])
    /\ Reading

(* Variant: goods that are no longer pending are left alone.               *)
DeclineReleasePending(c, op) ==
    /\ At(c, op, "release")
    /\ LET p == call[c].p  k == DeclineKey(op, p)
       IN  IF receipt[pledge[p].held].status = "HELD_PLEDGE_PENDING"
           THEN Ledger(c, Release(k, pledge[p].held), k,
                       [call[c] EXCEPT !.step = "update"])
           ELSE Continue(c, [call[c] EXCEPT !.step = "update"]) /\ Reading

DeclineRelease(c, op) ==
    /\ At(c, op, "release")
    /\ LET k == DeclineKey(op, call[c].p)
       IN  Ledger(c, Release(k, pledge[call[c].p].held), k,
                  [call[c] EXCEPT !.step = "update"])

DeclineUpdate(c, op) ==
    /\ At(c, op, "update")
    /\ pledge' = [pledge EXCEPT ![call[c].p].status = Outcome[op]]
    /\ Return(c)
    /\ UNCHANGED <<ledgerVars, lien, request>>

-----------------------------------------------------------------------------
(* expireStalePledges: find the stale pledges, then release and update     *)
(* them one by one; what fails for one pledge is caught and it is left to  *)
(* the next round.                                                         *)
Stale(p) == pledge[p].status = "PENDING" /\ ~pledge[p].live

(* Variant: the cutoff is compared the wrong way round.                    *)
ExpireFindLive ==
    LET stale == {p \in Pledge : pledge[p].status = "PENDING" /\ pledge[p].live}
    IN  /\ stale # {}
        /\ Begin(Cron, [op |-> "expire", step |-> "release", todo |-> stale])
        /\ Reading

ExpireFind ==
    LET stale == {p \in Pledge : Stale(p)}
    IN  /\ stale # {}
        /\ Begin(Cron, [op |-> "expire", step |-> "release", todo |-> stale])
        /\ Reading

ExpireRelease(p) ==
    /\ At(Cron, "expire", "release") /\ p \in call[Cron].todo
    /\ Ledger(Cron, Release(DeclineKey("expire", p), pledge[p].held),
              DeclineKey("expire", p),
              [op |-> "expire", step |-> "update", todo |-> call[Cron].todo, p |-> p])

(* The loop goes on without p, or ends.                                    *)
ExpireDone(p) ==
    LET todo == call[Cron].todo \ {p}
    IN  IF todo = {}
        THEN Return(Cron)
        ELSE Continue(Cron, [op |-> "expire", step |-> "release", todo |-> todo])

ExpireUpdate(p) ==
    /\ At(Cron, "expire", "update") /\ call[Cron].p = p
    /\ pledge' = [pledge EXCEPT ![p].status = "EXPIRED"]
    /\ ExpireDone(p)
    /\ UNCHANGED <<ledgerVars, lien, request>>

ExpireCatch(p) ==
    /\ \/ At(Cron, "expire", "release") /\ p \in call[Cron].todo
       \/ At(Cron, "expire", "update") /\ call[Cron].p = p
    /\ ExpireDone(p)
    /\ Reading

-----------------------------------------------------------------------------
(* acceptPledge: the hold becomes a lien in the ledger, then the lien is   *)
(* inserted (one per pledge) and the pledge updated in one transaction.    *)
AcceptLoad(c, p) ==
    /\ pledge[p].status = "PENDING"
    /\ pledge[p].live
    /\ Begin(c, [op |-> "accept", step |-> "transition", p |-> p])
    /\ Reading

(* Variant: a receipt that is not held is taken for accepted already.      *)
AcceptTransitionLenient(c) ==
    /\ At(c, "accept", "transition")
    /\ LET k == AcceptKey(call[c].p)  r == pledge[call[c].p].held
       IN  IF IsHeld(r)
           THEN Ledger(c, TransitionPledgeToLien(k, r), k, [call[c] EXCEPT !.step = "lien"])
           ELSE Continue(c, [call[c] EXCEPT !.step = "lien"]) /\ Reading

AcceptTransition(c) ==
    /\ At(c, "accept", "transition")
    /\ LET k == AcceptKey(call[c].p)
       IN  Ledger(c, TransitionPledgeToLien(k, pledge[call[c].p].held), k,
                  [call[c] EXCEPT !.step = "lien"])

AcceptInsert(c) ==
    LET p == call[c].p
    IN  /\ At(c, "accept", "lien")
        /\ lien[p] = NoLien
        /\ lien' = [lien EXCEPT ![p] =
              [status |-> "ACTIVE", receiptId |-> pledge[p].held,
               remaining |-> pledge[p].quantity, forced |-> FALSE]]
        /\ pledge' = [pledge EXCEPT ![p].status = "ACCEPTED"]
        /\ Return(c)
        /\ UNCHANGED <<ledgerVars, request>>

-----------------------------------------------------------------------------
(* createReleaseRequest: read the liens, read what other requests already  *)
(* ask of them, check every line on its own, insert.                       *)
RequestLoad(c, lines) ==
    /\ \A l \in DOMAIN lines : Standing(lines[l].lien)
    /\ Begin(c, [op |-> "ask", step |-> "pending", lines |-> lines,
                 remaining |-> [p \in Pledge |-> lien[p].remaining]])
    /\ Reading

PendingLines(p) ==
    {x \in ReleaseRequest \X Line :
        /\ request[x[1]].status = "PENDING"
        /\ x[2] \in DOMAIN request[x[1]].lines
        /\ request[x[1]].lines[x[2]].lien = p}

Pending(p) ==
    MapThenSumSet(LAMBDA x : request[x[1]].lines[x[2]].quantity, PendingLines(p))

RequestCheck(c) ==
    /\ At(c, "ask", "pending")
    /\ \A l \in DOMAIN call[c].lines :
          LET line == call[c].lines[l]
          IN  line.quantity <= call[c].remaining[line.lien] - Pending(line.lien)
    /\ Continue(c, [call[c] EXCEPT !.step = "insert"])
    /\ Reading

RequestInsert(c, q) ==
    /\ At(c, "ask", "insert")
    /\ request[q] = NoRequest
    /\ request' = [request EXCEPT ![q] =
          [status |-> "PENDING", lines |-> call[c].lines]]
    /\ Return(c)
    /\ UNCHANGED <<ledgerVars, pledge, lien>>

(* cancelReleaseRequest and rejectReleaseRequest touch nothing but the row.*)
CloseLoad(c, op, q) ==
    /\ request[q].status = "PENDING"
    /\ Begin(c, [op |-> op, step |-> "update", q |-> q])
    /\ Reading

CloseUpdate(c, op, status) ==
    /\ At(c, op, "update")
    /\ request' = [request EXCEPT ![call[c].q].status = status]
    /\ Return(c)
    /\ UNCHANGED <<ledgerVars, pledge, lien>>

-----------------------------------------------------------------------------
(* approveReleaseRequest: the liens are read once; every line is validated *)
(* against that snapshot, then processed against it, in any order.         *)
ApproveLoad(c, q) ==
    /\ request[q].status = "PENDING"
    /\ \A l \in DOMAIN request[q].lines :
          LET line == request[q].lines[l]
          IN  Standing(line.lien) /\ line.quantity <= lien[line.lien].remaining
    /\ Begin(c, [op |-> "approve", step |-> "line", q |-> q,
                 todo |-> DOMAIN request[q].lines, seen |-> lien])
    /\ Reading

ApproveFull(c, l) ==
    LET line == request[call[c].q].lines[l]
        seen == call[c].seen[line.lien]
        k == FullKey(call[c].q, l)
    IN  /\ At(c, "approve", "line") /\ l \in call[c].todo
        /\ line.quantity = seen.remaining
        /\ Ledger(c, Release(k, seen.receiptId), k,
                  [op |-> "approve", step |-> "lien", q |-> call[c].q,
                   todo |-> call[c].todo \ {l}, seen |-> call[c].seen,
                   p |-> line.lien,
                   new |-> [status |-> "RELEASED", remaining |-> 0,
                            receiptId |-> NoReceipt]])

ApprovePartial(c, q, l) ==
    LET line == request[q].lines[l]
        seen == call[c].seen[line.lien]
        k == PartialKey(q, l)
    IN  /\ At(c, "approve", "line") /\ call[c].q = q /\ l \in call[c].todo
        /\ line.quantity # seen.remaining
        /\ ReleasePartial(k, seen.receiptId, Exactly(line.quantity)) \/ Replay(k)
        /\ \E kept \in HeldBy(PartialKey(q, l))' :
              Continue(c, [op |-> "approve", step |-> "lien", q |-> q,
                   todo |-> call[c].todo \ {l}, seen |-> call[c].seen,
                   p |-> line.lien,
                   new |-> [status |-> "PARTIALLY_RELEASED",
                            remaining |-> seen.remaining - line.quantity,
                            receiptId |-> kept]])
        /\ UNCHANGED <<pledge, lien, request>>

(* Variant: a full release clears the receipt of the lien.                 *)
ApproveLienCleared(c) ==
    LET p == call[c].p
    IN  /\ At(c, "approve", "lien")
        /\ lien' = [lien EXCEPT ![p].status = call[c].new.status,
                                ![p].remaining = call[c].new.remaining,
                                ![p].receiptId = call[c].new.receiptId]
        /\ Continue(c, [call[c] EXCEPT !.step = "line"])
        /\ UNCHANGED <<ledgerVars, pledge, request>>

(* A full release leaves the receipt of the lien alone.                    *)
ApproveLien(c) ==
    LET p == call[c].p  new == call[c].new
    IN  /\ At(c, "approve", "lien")
        /\ lien' = [lien EXCEPT ![p].status = new.status,
                                ![p].remaining = new.remaining,
                                ![p].receiptId = IF new.receiptId = NoReceipt
                                                 THEN @ ELSE new.receiptId]
        /\ Continue(c, [op |-> "approve", q |-> call[c].q, todo |-> call[c].todo,
                        seen |-> call[c].seen,
                        step |-> IF call[c].todo = {} THEN "update" ELSE "line"])
        /\ UNCHANGED <<ledgerVars, pledge, request>>

-----------------------------------------------------------------------------
(* forceReleaseLien: release the leaf, then record the override and close  *)
(* the lien in one transaction.                                            *)
ForceLoad(c, p) ==
    /\ lien[p] # NoLien
    /\ ~lien[p].forced
    /\ lien[p].status # "RELEASED"
    /\ Begin(c, [op |-> "force", step |-> "release", p |-> p,
                 receiptId |-> lien[p].receiptId])
    /\ Reading

(* Variant: the ledger's refusal is ignored.                               *)
ForceReleaseIgnored(c) ==
    /\ At(c, "force", "release")
    /\ Continue(c, [call[c] EXCEPT !.step = "lien"])
    /\ IF IsHeld(call[c].receiptId)
       THEN Release(ForceKey(call[c].p), call[c].receiptId)
       ELSE UNCHANGED ledgerVars
    /\ UNCHANGED <<pledge, lien, request>>

ForceReleaseGoods(c) ==
    /\ At(c, "force", "release")
    /\ Ledger(c, Release(ForceKey(call[c].p), call[c].receiptId),
              ForceKey(call[c].p), [call[c] EXCEPT !.step = "lien"])

ForceUpdate(c) ==
    LET p == call[c].p
    IN  /\ At(c, "force", "lien")
        /\ ~lien[p].forced
        /\ lien' = [lien EXCEPT ![p].status = "FORCE_RELEASED",
                                ![p].remaining = 0, ![p].forced = TRUE]
        /\ Return(c)
        /\ UNCHANGED <<ledgerVars, pledge, request>>

(* The pledge reaches expiresAt.                                           *)
Lapse(p) ==
    /\ pledge[p].live
    /\ pledge' = [pledge EXCEPT ![p].live = FALSE]
    /\ UNCHANGED <<ledgerVars, lien, request, call>>

-----------------------------------------------------------------------------
Lines ==
    UNION {[ls -> [lien : Pledge, quantity : Quantity]] : ls \in SUBSET Line \ {{}}}

Create(c) ==
    \/ \E r \in Minted, n \in Quantity : PledgeLoad(c, r, n)
    \/ PledgeCheck(c)
    \/ \E p \in Pledge : PledgeHold(c, p)
    \/ PledgeInsert(c)

Decline(c) ==
    \E op \in {"cancel", "reject"} :
        \/ \E p \in Pledge : DeclineLoad(c, op, p)
        \/ DeclineRelease(c, op)
        \/ DeclineUpdate(c, op)

Accept(c) ==
    \/ \E p \in Pledge : AcceptLoad(c, p)
    \/ AcceptTransition(c)
    \/ AcceptInsert(c)

Ask(c) ==
    \/ \E lines \in Lines : RequestLoad(c, lines)
    \/ RequestCheck(c)
    \/ \E q \in ReleaseRequest : RequestInsert(c, q)

Close(c) ==
    \/ \E q \in ReleaseRequest :
          CloseLoad(c, "withdraw", q) \/ CloseLoad(c, "refuse", q)
    \/ CloseUpdate(c, "withdraw", "CANCELLED")
    \/ CloseUpdate(c, "refuse", "REJECTED")

Approve(c) ==
    \/ \E q \in ReleaseRequest : ApproveLoad(c, q)
    \/ \E l \in Line : ApproveFull(c, l)
    \/ \E q \in ReleaseRequest, l \in Line : ApprovePartial(c, q, l)
    \/ ApproveLien(c)
    \/ CloseUpdate(c, "approve", "APPROVED")

ForceRelease(c) ==
    \/ \E p \in Pledge : ForceLoad(c, p)
    \/ ForceReleaseGoods(c)
    \/ ForceUpdate(c)

ExpireStale ==
    \/ ExpireFind
    \/ \E p \in Pledge : ExpireRelease(p) \/ ExpireUpdate(p) \/ ExpireCatch(p)

Next ==
    \/ \E c \in Call \ {Cron} :
          Create(c) \/ Decline(c) \/ Accept(c) \/ Ask(c) \/ Close(c)
             \/ Approve(c) \/ ForceRelease(c)
    \/ ExpireStale
    \/ \E c \in Call : Abort(c)
    \/ \E p \in Pledge : Lapse(p)

Spec == Init /\ [][Next]_vars

(* The cron fires every ten minutes; a round may fail or be cut short, but *)
(* not every one of them, and none hangs forever.  Nothing is assumed of   *)
(* what clients, financiers and administrators ask, nor of their handlers. *)
FairSpec ==
    /\ Spec
    /\ WF_vars(Abort(Cron))
    /\ SF_vars(ExpireFind)
    /\ \A p \in Pledge : SF_vars(ExpireRelease(p))

(* As fair as can be: no handler hangs, every pledge lapses, every row the *)
(* cron has released the goods of is written in the end.                   *)
FairestSpec ==
    /\ FairSpec
    /\ \A c \in Call : WF_vars(Abort(c))
    /\ \A p \in Pledge : WF_vars(Lapse(p)) /\ SF_vars(ExpireUpdate(p))

-----------------------------------------------------------------------------
(***************************************************************************)
(* What the flow promises, whatever is interleaved, cut short and retried. *)
(***************************************************************************)

(* Type invariant.                                                         *)
TypeOK ==
    /\ LedgerTypeOK
    /\ \A p \in Pledge :
          /\ pledge[p] # NoPledge => pledge[p] \in PledgeRow
          /\ lien[p] # NoLien => lien[p] \in LienRow
    /\ \A q \in ReleaseRequest : request[q] # NoRequest =>
          request[q].status \in RequestStatus /\ request[q].lines \in Lines

Did(k) == event[k] # NoEvent

HeldUnder(p) == {r \in Minted : receipt[r].sourceTxn = p /\ IsHeld(r)}

Total(rs) == MapThenSumSet(LAMBDA r : receipt[r].quantity, rs)

(* A pledge that is over keeps nothing: cancelled, rejected or expired, it *)
(* has no goods left on hold, not even when an acceptance raced with it.   *)
ClosedPledgesHoldNothing ==
    \A p \in Pledge :
        pledge[p].status \in {"CANCELLED", "REJECTED", "EXPIRED"} => HeldUnder(p) = {}

(* An accepted pledge has its lien and the ledger knows of the acceptance. *)
AcceptedIsLiened ==
    \A p \in Pledge :
        /\ pledge[p].status = "ACCEPTED" => lien[p] # NoLien
        /\ lien[p] # NoLien => event[AcceptKey(p)].from = pledge[p].held

(* A lien that is over, released in full or by force, locks nothing.       *)
EndedLiensLockNothing ==
    \A p \in Pledge : lien[p] # NoLien /\ lien[p].remaining = 0 => HeldUnder(p) = {}

(* Pledges, liens and stock agree on what is locked, and for whom.         *)
LiensMatchStock == TypeOK /\ AcceptedIsLiened /\ EndedLiensLockNothing

ReleasesOf(p) ==
    {k \in CollateralKey :
        /\ event[k].type = "HOLD_RELEASED"
        /\ receipt[event[k].from].sourceTxn = p}

(* The goods of a pledge are given back at most once, whichever of cancel, *)
(* reject, expiry, release requests and force release race to do it: what  *)
(* was freed and what is still held add up to what was pledged.            *)
FreedOnce ==
    \A p \in Pledge :
        Did(CreateKey(p)) =>
            MapThenSumSet(LAMBDA k : event[k].quantity, ReleasesOf(p))
                + Total(HeldUnder(p)) = event[CreateKey(p)].quantity

(* What a handler does to the goods of a pledge, it does to the child that *)
(* pledge's own hold placed or to what is left of it, never to the goods   *)
(* of another pledge on the same deposit.                                  *)
OwnGoodsOnly ==
    /\ \A p \in Pledge, op \in {"accept", "cancel", "reject", "expire", "force"} :
          Did(<<op, p>>) => receipt[event[<<op, p>>].from].sourceTxn = p
    /\ \A q \in ReleaseRequest, l \in Line :
          \A k \in {FullKey(q, l), PartialKey(q, l)} :
              Did(k) => receipt[event[k].from].sourceTxn = request[q].lines[l].lien

(* A lapsed pledge does not lock its goods: unless the financier accepts   *)
(* in time, the cron frees them, whatever handlers were cut short.         *)
LapsedHoldsEnd ==
    \A p \in Pledge :
        Stale(p) ~> \A r \in Minted : receipt[r].sourceTxn = p
                                    => receipt[r].status # "HELD_PLEDGE_PENDING"

-----------------------------------------------------------------------------
(***************************************************************************)
(* What the comments of the code promise, and the code does not do.        *)
(***************************************************************************)

(* "Root-level status must be SPLIT (children exist and one is ACTIVE) or  *)
(* ACTIVE": with one handler at a time, what createPledge admits can be    *)
(* held.                                                                   *)
PledgeableCanBeHeld ==
    \A c \in Call :
        call[c].op = "pledge" /\ call[c].step = "hold" =>
            receipt[call[c].receiptId].status = "ACTIVE"

(* "Only an approved ReleaseRequest (or a Global Admin force-release) can  *)
(* free this volume back to ACTIVE."                                       *)
OnlyReleaseFreesLien ==
    [][\A r \in Minted :
          receipt[r].status = "HELD_LIEN" /\ receipt'[r].status = "ACTIVE" =>
              \E c \in Call : call[c] # Idle /\ call[c].op \in {"approve", "force"}]_vars

(* "Terminal states: RELEASED (fully returned), or FORCE_RELEASED."        *)
LienTerminal ==
    [][\A p \in Pledge :
          lien[p].status \in {"RELEASED", "FORCE_RELEASED"} =>
              lien'[p].status = lien[p].status]_vars

(* "Re-invoking the approve call after a crash replays what completed and  *)
(* finishes the rest": a line gives back what it asked for, once.          *)
LineReleasedOnce ==
    \A q \in ReleaseRequest, l \in Line : ~(Did(FullKey(q, l)) /\ Did(PartialKey(q, l)))

(* The same promise, seen from the lien: what is held under it never       *)
(* exceeds what it says remains.  An approval that is cut short after it   *)
(* updated the lien and approved again takes the line off it once more.    *)
LienCoversHeld ==
    \A p \in Pledge : lien[p] # NoLien => Total(HeldUnder(p)) <= lien[p].remaining

(* "All-or-nothing": a request that is closed without approval has         *)
(* released nothing, "the lien remains fully in force".                    *)
ClosedRequestsReleasedNothing ==
    \A q \in ReleaseRequest, l \in Line :
        request[q].status \in {"CANCELLED", "REJECTED"} =>
            ~Did(FullKey(q, l)) /\ ~Did(PartialKey(q, l))

(* HELD_PLEDGE_PENDING "transitions to HELD_LIEN on accept or ACTIVE on    *)
(* reject/expire": no reservation for a pledge outlasts its time.          *)
PledgeHoldsEnd ==
    \A r \in Receipt :
        receipt[r].status = "HELD_PLEDGE_PENDING"
            ~> receipt[r].status # "HELD_PLEDGE_PENDING"

(* "Expire all PENDING pledges past expiresAt": the cron gets to each of   *)
(* them in the end ("failures will be picked up on the next cron tick").   *)
StalePledgesExpire ==
    \A p \in Pledge :
        Stale(p) ~> pledge[p].status # "PENDING"
=============================================================================
