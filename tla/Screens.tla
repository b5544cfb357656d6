------------------------------ MODULE Screens ------------------------------
(***************************************************************************)
(* What the lists, dashboards and reports show.                            *)
(*                                                                         *)
(* Each screen reads the tables with filters of its own: a client's        *)
(* receipts and statement (receipts, me), a warehouse manager's lists and  *)
(* charts (warehouse-manager), the administrators' queues and reports      *)
(* (admin, dashboard, admin-overview), the financier's portfolio (liens,   *)
(* financier, warehouse-links).  The filters are operators here, over the  *)
(* tables of Bookings, and the properties relate what different screens    *)
(* say of the same goods.                                                  *)
(*                                                                         *)
(* Left out: paging, sorting, search, names; date windows (everything is   *)
(* recent); prices, which turn the quantities of one commodity into values *)
(* by one factor.                                                          *)
(***************************************************************************)
EXTENDS Bookings

Own(c) == {r \in Minted : receipt[r].owner = c}

In(statuses) == {r \in Minted : receipt[r].status \in statuses}

Total(receipts) == MapThenSumSet(LAMBDA r : receipt[r].quantity, receipts)

(* A figure for each element of a set, added up.                           *)
SumOf(figure) == MapThenSumSet(LAMBDA x : figure[x], DOMAIN figure)

InWarehouse == {"ACTIVE"} \cup HeldStatus

-----------------------------------------------------------------------------
(* Receipt management: the tabs, the badges on them, the label on a row.   *)
Group == {"ACTIVE", "LIENED", "CANCELLED"}

StatusesForGroup(g) ==
    CASE g = "CANCELLED" -> ClosedStatus
      [] g = "LIENED" -> {"PENDING_APPROVAL"} \cup HeldStatus
      [] g = "ACTIVE" -> {"ACTIVE"}

DeriveGroup(r) ==
    IF receipt[r].status \in ClosedStatus THEN "CANCELLED"
    ELSE IF \/ receipt[r].status \in {"PENDING_APPROVAL"} \cup HeldStatus
            \/ receipt[r].approval = "PENDING"
         THEN "LIENED"
         ELSE "ACTIVE"

AllTab(c) == Own(c) \ In({"SPLIT"})

Tab(c, g) == Own(c) \cap In(StatusesForGroup(g))

Badge(c, g) == Cardinality(Tab(c, g) \ In({"SPLIT"}))

(* The requests whose row points at receipt r; pledges are not looked up.  *)
RequestsShown(r) ==
    {t \in Txn : /\ request[t].kind \in {"withdrawal", "loan", "trade"}
                 /\ request[t].receiptId = r}

PendingApprovals == {r \in Minted : receipt[r].approval = "PENDING"}

-----------------------------------------------------------------------------
(* A client's balance, his dashboard and the wizard that picks a receipt.  *)
Available(c, m) ==
    Total({r \in Own(c) \cap In({"ACTIVE"}) : /\ receipt[r].approval = "APPROVED"
                                               /\ CommodityOf(r) = m})

Locked(c, m) == Total({r \in Own(c) \cap In(HeldStatus) : CommodityOf(r) = m})

DashboardActive(c, m) == Total({r \in Own(c) \cap In({"ACTIVE"}) : CommodityOf(r) = m})

Eligible(c) ==
    {r \in Own(c) \cap In({"ACTIVE"}) : /\ receipt[r].approval = "APPROVED"
                                        /\ ~receipt[r].isParent}

InventoryWarehouses(c) == {WarehouseOf(r) : r \in Eligible(c)}

InventoryCommodities(c, w) ==
    [m \in {CommodityOf(r) : r \in {x \in Eligible(c) : WarehouseOf(x) = w}} |->
        Total({r \in Eligible(c) : WarehouseOf(r) = w /\ CommodityOf(r) = m})]

-----------------------------------------------------------------------------
(* The statement of a client: deposits, withdrawals, loans and trades.     *)

(* Variant: split receipts are hidden here as they are elsewhere.          *)
RootsUnsplit == {r \in Minted : /\ receipt[r].parent = NoReceipt
                                /\ receipt[r].status # "SPLIT"}

(* Variant: children are charted with the receipts they were split from.   *)
RootsAndChildren == Minted

Roots == {r \in Minted : receipt[r].parent = NoReceipt}

Side(t, c) == IF request[t].kind # "trade" THEN "OWN"
              ELSE IF request[t].client = c THEN "SELL" ELSE "BUY"

ShownQuantity(t) == IF request[t].kind = "loan"
                    THEN receipt[request[t].receiptId].quantity
                    ELSE request[t].quantity

DepositLine(r) == [type |-> "DEPOSIT", id |-> r, side |-> "OWN",
                   quantity |-> receipt[r].quantity, lot |-> lot[receipt[r].root]]

RequestLine(t, c) == [type |-> request[t].kind, id |-> t, side |-> Side(t, c),
                      quantity |-> ShownQuantity(t),
                      lot |-> lot[receipt[request[t].receiptId].root]]

Parties(t) == IF request[t].kind = "trade"
              THEN {request[t].client, request[t].buyer} ELSE {request[t].client}

Statement(c) ==
    {DepositLine(r) : r \in Roots \cap Own(c)}
        \cup {RequestLine(t, c) : t \in {x \in Txn \ Filed("pledge") : c \in Parties(x)}}

-----------------------------------------------------------------------------
(* Charts and reports of a warehouse, a tenant and the platform.           *)
Pile(S, place) == {r \in S : lot[receipt[r].root] = place}

Charted(place) == Total(Pile(Roots, place))

StoredAt(place) == Total(Pile(In(InWarehouse), place))

Dispatched(place) ==
    MapThenSumSet(LAMBDA t : request[t].quantity,
                  {t \in Filed("withdrawal") :
                      /\ request[t].status = "COMPLETED"
                      /\ lot[receipt[request[t].receiptId].root] = place})

CommodityBreakdown(m) ==
    Total({r \in In({"ACTIVE", "HELD_WITHDRAWAL", "HELD_LOAN", "HELD_TRADE"}) :
              CommodityOf(r) = m})

StandingLiens == {t \in Txn : lien[t].status \in {"ACTIVE", "PARTIALLY_RELEASED"}}

Exposure(place) ==
    MapThenSumSet(LAMBDA t : lien[t].remaining,
                  {t \in StandingLiens : lot[receipt[lien[t].receiptId].root] = place})

Liened(place) == Pile(In({"HELD_LIEN"}), place)

(* The withdrawals and loans that a manager or an administrator is to act  *)
(* on, by the warehouse of their receipt.                                  *)
Queue(kind, status, w) ==
    {t \in Filed(kind) : request[t].status = status /\ WarehouseOf(request[t].receiptId) = w}

Waiting(status, approval, w) ==
    {r \in In({status}) : receipt[r].approval = approval /\ WarehouseOf(r) = w}

(* What becomes of a receipt tree, for its first owner.                    *)
LeavesOf(r) == {x \in In(InWarehouse) : receipt[x].root = r \/ x = r}

Encumbrance(r) ==
    [totalQuantity |-> receipt[r].quantity,
     available |-> Total(LeavesOf(r) \cap In({"ACTIVE"})),
     pledgePending |-> Total(LeavesOf(r) \cap In({"HELD_PLEDGE_PENDING"})),
     liened |-> Total(LeavesOf(r) \cap In({"HELD_LIEN"}))]

-----------------------------------------------------------------------------
Spec == BookingInit /\ [][BookingNext]_bookingVars

Warehouse == {place[1] : place \in Lot}
Commodity == {place[2] : place \in Lot}

(* Type invariant: the rows are well formed and point at receipts that     *)
(* exist, and every request keeps a status of its kind.                    *)
TypeOK == BookingTypeOK

(* The locked filter-group contract: a row is listed on the tab that its   *)
(* own label names (list by status, label by status and approval), and the *)
(* badges count the rows of the All tab by their labels.                   *)
GroupsAgree ==
    \A c \in Client, g \in Group :
        /\ \A r \in Tab(c, g) : DeriveGroup(r) = g
        /\ Badge(c, g) = Cardinality({r \in AllTab(c) : DeriveGroup(r) = g})

(* The wizard, the balance and the dashboard offer the same goods: summed  *)
(* over the warehouses it lists, what is eligible is what is available,    *)
(* and what the dashboard counts as active.                                *)
EligibleIsAvailable ==
    \A c \in Client, m \in Commodity :
        LET offered == SumOf([w \in InventoryWarehouses(c) |->
                                  LET stock == InventoryCommodities(c, w)
                                  IN  IF m \in DOMAIN stock THEN stock[m] ELSE 0])
        IN  offered = Available(c, m) /\ DashboardActive(c, m) = Available(c, m)

LinesOf(c, m, type, side, final) ==
    MapThenSumSet(LAMBDA line : line.quantity,
        {line \in Statement(c) :
            /\ line.type = type /\ line.side = side /\ line.lot[2] = m
            /\ IF type = "DEPOSIT" THEN receipt[line.id].approval = final
               ELSE request[line.id].status = final})

(* The statement explains the balance: per commodity, approved deposits    *)
(* and settled purchases less settled sales and completed withdrawals are  *)
(* what getBalance shows as available and locked.                          *)
BalanceMatchesHistory ==
    \A c \in Client, m \in Commodity :
        Available(c, m) + Locked(c, m)
            = LinesOf(c, m, "DEPOSIT", "OWN", "APPROVED")
                + LinesOf(c, m, "trade", "BUY", "SETTLED")
                - LinesOf(c, m, "trade", "SELL", "SETTLED")
                - LinesOf(c, m, "withdrawal", "OWN", "COMPLETED")

(* A receipt held for a withdrawal, a loan or a trade shows one request:   *)
(* the one whose hold it is, still open, and paid for if a withdrawal.     *)
RequestShownIsTheHolder ==
    \A r \in In({"HELD_WITHDRAWAL", "HELD_LOAN", "HELD_TRADE"}) :
        /\ RequestsShown(r) = {receipt[r].sourceTxn}
        /\ \A t \in RequestsShown(r) :
              request[t].status \in {"PAID_PENDING_APPROVAL", "APPROVED",
                                     "PENDING", "ACTIVE", "LISTED"}

(* The queues by request and the queues by receipt are the same work: in   *)
(* every warehouse the paid withdrawals and the new loans are the receipts *)
(* awaiting approval, the approved withdrawals those awaiting dispatch.    *)
QueuesAgree ==
    \A w \in Warehouse :
        /\ {request[t].receiptId : t \in Queue("withdrawal", "PAID_PENDING_APPROVAL", w)}
              = Waiting("HELD_WITHDRAWAL", "PENDING", w)
        /\ {request[t].receiptId : t \in Queue("withdrawal", "APPROVED", w)}
              = Waiting("HELD_WITHDRAWAL", "APPROVED", w)
        /\ {request[t].receiptId : t \in Queue("loan", "PENDING", w)}
              = Waiting("HELD_LOAN", "PENDING", w)

(* The movement chart and the stock reports balance, pile by pile: the     *)
(* deposits charted are in the warehouse, dispatched, rejected or awaiting *)
(* approval.                                                               *)
ChartMatchesStock ==
    \A place \in Lot :
        Charted(place) = StoredAt(place) + Dispatched(place)
            + Total(Pile(In({"PENDING_APPROVAL", "CANCELLED"}), place))

(* The financier's exposure and the warehouse's stock under lien agree:    *)
(* as many standing liens as receipts under lien, for as much, in every    *)
(* pile.                                                                   *)
ExposureMatchesStock ==
    /\ Cardinality(StandingLiens) = Cardinality(In({"HELD_LIEN"}))
    /\ \A place \in Lot : Exposure(place) = Total(Liened(place))

(* The lists: what one screen says of a receipt or of a request, another   *)
(* does not deny.                                                          *)
ScreensAgree == TypeOK /\ GroupsAgree /\ RequestShownIsTheHolder /\ QueuesAgree

(* The books: a client's statement explains his balance, the charted       *)
(* deposits are the stock that remains, and what the financier is exposed  *)
(* to is the stock under lien.                                             *)
BooksAgree == BalanceMatchesHistory /\ ChartMatchesStock /\ ExposureMatchesStock

(* A transaction that was listed stays listed, with the quantity and the   *)
(* place it had, whatever becomes of the receipts it points at; only a     *)
(* deposit that awaits approval is on record with figures that a           *)
(* correction can still replace (getHistory against applyDepositEdit).     *)
AwaitsVerdict(line) ==
    line.type = "DEPOSIT" /\ receipt[line.id].status = "PENDING_APPROVAL"

HistoryKept ==
    [][\A c \in Client : \A line \in Statement(c) :
          \E kept \in Statement(c)' :
              /\ kept.type = line.type /\ kept.id = line.id /\ kept.side = line.side
              /\ AwaitsVerdict(line) \/ kept = line]_bookingVars

(* receipts.service: SPLIT internals never surface on the Cancelled tab.   *)
CancelledTabHidesSplits == \A c \in Client : Tab(c, "CANCELLED") \cap In({"SPLIT"}) = {}

(* dashboard.service: the breakdown counts ACTIVE and every HELD status.   *)
BreakdownIsInWarehouse ==
    \A m \in Commodity :
        CommodityBreakdown(m) = Total({r \in In(InWarehouse) : CommodityOf(r) = m})

(* admin-receipt.controller: the pending approvals await an administrator, *)
(* who approves deposits, withdrawals and loans.                           *)
PendingQueueAwaitsAdmin ==
    \A r \in PendingApprovals :
        receipt[r].status \in {"PENDING_APPROVAL", "HELD_WITHDRAWAL", "HELD_LOAN"}

(* pledges.service: available + pledgePending + liened == totalQuantity,   *)
(* of a deposit that was approved.                                         *)
EncumbranceAddsUp ==
    \A r \in Roots : receipt[r].approval = "APPROVED" =>
        LET e == Encumbrance(r)
        IN  e.available + e.pledgePending + e.liened = e.totalQuantity
=============================================================================
