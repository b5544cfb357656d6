------------------------------ MODULE Reports ------------------------------
(***************************************************************************)
(* Dashboards, transaction lists and reports, screen by screen.            *)
(*                                                                         *)
(* Screens defines the receipt lists and the balance; this module adds     *)
(* the figures that the warehouse manager, the client, the tenant's        *)
(* administrator, the platform and the financier are shown.  A manager's   *)
(* screens cover the warehouses S of his scope, an administrator's all of  *)
(* them.  A record has one field for each figure of a response.            *)
(*                                                                         *)
(* As in Screens there are no windows of time, no pages and no prices: a   *)
(* value is the quantity it is computed from, a fee the quantity it is     *)
(* charged on.                                                             *)
(***************************************************************************)
EXTENDS Screens

Received(S) == {r \in Minted : WarehouseOf(r) \in S}

Requests(kind, S) == {t \in Filed(kind) : WarehouseOf(request[t].receiptId) \in S}

Dealings(S) == UNION {Requests(kind, S) : kind \in {"withdrawal", "loan", "trade"}}

Of(c, requests) == {t \in requests : request[t].client = c}

WithStatus(requests, statuses) == {t \in requests : request[t].status \in statuses}

AskedFor(requests) == SumOf([t \in requests |-> ShownQuantity(t)])

OfCommodity(m, receipts) == {r \in receipts : CommodityOf(r) = m}

(* getCommodityBreakdown and its like: a quantity for each commodity.      *)
PerCommodity(receipts) ==
    [m \in {CommodityOf(r) : r \in receipts} |-> Total(OfCommodity(m, receipts))]

Unsettled == {"PENDING_PAYMENT", "PAID_PENDING_APPROVAL"}

-----------------------------------------------------------------------------
(* Transactions: of one client within a manager's scope, of a tenant, and  *)
(* the cards above the two lists.                                          *)
ClientTransactions(c, S) ==
    {DepositLine(r) : r \in Roots \cap Own(c) \cap Received(S)}
        \cup {RequestLine(t, c) : t \in {x \in Dealings(S) : c \in Parties(x)}}

(* A transaction of the tenant belongs to one client, a trade to its       *)
(* seller.                                                                 *)
TenantTransactions(S) ==
    {[client |-> receipt[r].owner, line |-> DepositLine(r)] : r \in Roots \cap Received(S)}
        \cup {[client |-> request[t].client, line |-> RequestLine(t, request[t].client)] :
                t \in Dealings(S)}

ListTransactions(c, S) == {x.line : x \in {y \in TenantTransactions(S) : y.client = c}}

TransactionStats(S) ==
    [totalDeposit |-> Cardinality(Roots \cap Received(S)),
     totalPledges |-> Cardinality(Requests("loan", S)),
     totalDispatches |-> Cardinality(WithStatus(Requests("withdrawal", S), {"COMPLETED"})),
     totalTransaction |-> Cardinality(Roots \cap Received(S)) + Cardinality(Dealings(S))]

MyDealings(c) == {t \in Txn \ Filed("pledge") : c \in Parties(t)}

MyTransactionStats(c) ==
    [deposits |-> Cardinality(Roots \cap Own(c)),
     pledges |-> Cardinality(Of(c, Filed("loan"))),
     dispatches |-> Cardinality(WithStatus(Of(c, Filed("withdrawal")), {"COMPLETED"})),
     totalTransactions |-> Cardinality(Roots \cap Own(c)) + Cardinality(MyDealings(c))]

MyActivity(c) == [kind \in {"withdrawal", "loan", "trade"} |->
                    Cardinality(MyDealings(c) \cap Filed(kind))]

-----------------------------------------------------------------------------
(* Receipts: the lists of the scoped roles, of a warehouse and of the      *)
(* administrator, where the All tab hides split receipts or shows them,    *)
(* and the page of one receipt.                                            *)
OfTab(g) == IF g = "ALL" THEN Minted \ In({"SPLIT"}) ELSE In(StatusesForGroup(g))

ListReceipts(c, g, S) ==
    Own(c) \cap Received(S) \cap (IF g = "ALL" THEN Minted ELSE In(StatusesForGroup(g)))

WarehouseReceipts(g, approval, w) ==
    {r \in OfTab(g) \cap Received({w}) : approval \in {"ANY", receipt[r].approval}}

AdminReceipts(g, approval, S, C) ==
    {r \in OfTab(g) \cap Received(S) : /\ approval \in {"ANY", receipt[r].approval}
                                       /\ receipt[r].owner \in C}

PathToRoot(r) ==
    LET path[x \in Minted] == IF receipt[x].parent = NoReceipt THEN <<x>>
                              ELSE Append(path[receipt[x].parent], x)
    IN  path[r]

ReceiptDetail(r) ==
    [pathToRoot |-> PathToRoot(r),
     descendants |-> {x \in Minted : receipt[x].parent = r},
     origin |-> receipt[r].sourceEvent,
     timeline |-> {k \in BookingKey : /\ event[k] # NoEvent
                                      /\ event[k].from = r \/ receipt[r].sourceEvent = k}]

-----------------------------------------------------------------------------
(* The manager's rows and cards.                                           *)

(* What the outstanding storage of a client is charged on.                 *)
Outstanding(c, S) == PerCommodity(Own(c) \cap In(InWarehouse) \cap Received(S))

ClientBadges(c, S) ==
    LET count(g) == Cardinality(Tab(c, g) \cap Received(S))
    IN  [active |-> count("ACTIVE"), liened |-> count("LIENED"),
         cancelled |-> count("CANCELLED"),
         total |-> Cardinality(Own(c) \cap Received(S)),
         withdrawalDispatches |->
            Cardinality(WithStatus(Of(c, Requests("withdrawal", S)), {"APPROVED"}))]

WithdrawalStats(S) ==
    LET count(statuses) == Cardinality(WithStatus(Requests("withdrawal", S), statuses))
    IN  [all |-> count(RequestStatus["withdrawal"]), pending |-> count(Unsettled),
         approved |-> count({"APPROVED"}), completed |-> count({"COMPLETED"}),
         rejected |-> count({"REJECTED"})]

WithdrawalTab(tab, S) ==
    WithStatus(Requests("withdrawal", S),
               CASE tab = "pending" -> Unsettled
                 [] tab = "completed" -> {"COMPLETED"}
                 [] tab = "all" -> RequestStatus["withdrawal"])

CommodityStats(S) ==
    [totalVolume |-> PerCommodity(In({"ACTIVE"}) \cap Received(S)),
     totalDeposits |-> Cardinality(Roots \cap Received(S)),
     totalWithdrawals |-> Cardinality(Requests("withdrawal", S))]

ActiveVolume(m, S) == Total(OfCommodity(m, In({"ACTIVE"}) \cap Received(S)))

CommoditySummary(m, S) ==
    LET sum(statuses) == Total(OfCommodity(m, In(statuses) \cap Received(S)))
    IN  [total |-> sum({"ACTIVE"}), withdrawn |-> sum({"WITHDRAWN"}),
         loaned |-> sum({"HELD_LOAN"}), traded |-> sum({"TRADED_OUT", "HELD_TRADE"})]

CommodityReceipts(g, m, S) == OfCommodity(m, In(StatusesForGroup(g)) \cap Received(S))

ManagerDashboard(S) ==
    LET rows(g) == Cardinality(In(StatusesForGroup(g)) \cap Received(S))
        active == In({"ACTIVE"}) \cap Received(S)
    IN  [totalCommodity |-> PerCommodity(active),
         utilized |-> [w \in S |-> Total({r \in active : WarehouseOf(r) = w})],
         underLien |-> rows("LIENED"),
         pendingWithdrawal |-> Cardinality(WithStatus(Requests("withdrawal", S), Unsettled)),
         active |-> rows("ACTIVE"), cancelled |-> rows("CANCELLED")]

(* The movement chart of the dashboard: a withdrawal moves when it is      *)
(* asked for.                                                              *)
Movement(m, S) ==
    LET deposits == OfCommodity(m, Roots \cap Received(S))
        withdrawals == {t \in Requests("withdrawal", S) :
                            CommodityOf(request[t].receiptId) = m}
    IN  [deposits |-> Total(deposits), withdrawals |-> AskedFor(withdrawals),
         depositCount |-> Cardinality(deposits),
         withdrawalCount |-> Cardinality(withdrawals)]

-----------------------------------------------------------------------------
(* The client's own dashboard, and the drill-downs.                        *)
ClientDashboard(c) ==
    LET count(receipts) == Cardinality(Own(c) \cap receipts)
    IN  [totalReceipts |-> count(Minted \ In({"SPLIT"})),
         totalCommodity |-> PerCommodity(Own(c) \cap In({"ACTIVE"})),
         underLien |-> count(In(StatusesForGroup("LIENED"))),
         pendingWithdrawal |->
            Cardinality(WithStatus(Of(c, Filed("withdrawal")), Unsettled)),
         active |-> count(In(StatusesForGroup("ACTIVE"))),
         cancelled |-> count(In(StatusesForGroup("CANCELLED")))]

SystemStatus(c) ==
    [activeReceipts |-> Cardinality(Eligible(c)),
     totalPledged |-> Cardinality(Own(c) \cap In({"HELD_LOAN"})),
     totalDeposits |-> Cardinality(Roots \cap Own(c)),
     totalWithdrawals |-> Cardinality(Of(c, Filed("withdrawal")))]

(* What the two feeds of recent activity are taken from; the newest first. *)
RecentActivities(c) ==
    {<<"DEPOSIT", r>> : r \in Roots \cap Own(c)}
        \cup {<<request[t].kind, t>> : t \in
                {x \in Txn : \/ /\ request[x].kind \in {"withdrawal", "loan"}
                                /\ request[x].client = c
                             \/ request[x].kind = "trade" /\ c \in Parties(x)}}

ReportedStock == In({"ACTIVE", "HELD_LOAN", "HELD_TRADE"})

StockSummary(place) == Total(Pile(ReportedStock, place))

ClientDrilldown(c) ==
    [totalStock |-> Total(Own(c) \cap ReportedStock),
     activeLoansCount |-> Cardinality(WithStatus(Of(c, Filed("loan")), {"ACTIVE"}))]

CommodityDrilldown(m) ==
    [w \in {WarehouseOf(r) : r \in OfCommodity(m, ReportedStock)} |->
        Total({r \in OfCommodity(m, ReportedStock) : WarehouseOf(r) = w})]

(* What an event trail says became of a request: the receipts that its     *)
(* events minted, by what they are now.                                    *)
EventsOfTxn(t) == {k \in BookingKey : k[2] = t /\ event[k] # NoEvent}

Trail(t) ==
    LET created == {r \in Minted : receipt[r].sourceEvent \in EventsOfTxn(t)}
    IN  [held |-> created \cap In(HeldStatus), remainder |-> created \cap In({"ACTIVE"}),
         terminal |-> created \cap In({"WITHDRAWN", "TRADED_OUT", "SEIZED"})]

-----------------------------------------------------------------------------
(* The tenant's administrator, the platform and the financier.             *)
Utilization == Total(In(InWarehouse))

WarehouseSummary(w) ==
    LET stored == In(InWarehouse) \cap Received({w})
    IN  [totalClients |-> Cardinality({receipt[r].owner : r \in stored}),
         totalCommodity |-> Total(stored),
         totalReceipts |-> Cardinality(Roots \cap Received({w})),
         billed |-> AskedFor(WithStatus(Requests("withdrawal", {w}), {"COMPLETED"}))]

ReceiptStats ==
    LET count(approval) == Cardinality({r \in Minted \ In({"SPLIT"}) :
                                            receipt[r].approval = approval})
    IN  [totalReceipts |-> Cardinality(Minted \ In({"SPLIT"})),
         activeReceipts |-> Cardinality(In({"ACTIVE"})),
         approvedReceipts |-> count("APPROVED"), pendingReceipts |-> count("PENDING"),
         rejectedReceipts |-> count("REJECTED")]

Overview ==
    [activeLiens |-> Cardinality(StandingLiens),
     active |-> Cardinality(In(InWarehouse)),
     liened |-> Cardinality(In({"HELD_LIEN"})),
     issued |-> Cardinality(Roots)]

Trend == [receiptsIssued |-> Cardinality(Roots),
          pledgesCreated |-> Cardinality(Filed("pledge")),
          liensPlaced |-> Cardinality({t \in Txn : lien[t] # NoLien})]

(* Stored is all that has not left: deposits that await approval too.      *)
Distribution ==
    [stored |-> PerCommodity(Minted \ In({"SPLIT", "WITHDRAWN", "TRADED_OUT", "SEIZED",
                                          "EXPIRED", "CANCELLED"})),
     liened |-> MapThenSumSet(LAMBDA t : lien[t].remaining, StandingLiens)]

LiensIn(w) == {t \in StandingLiens : WarehouseOf(lien[t].receiptId) = w}

StoredIn(w) == PerCommodity(In(InWarehouse) \cap Received({w}))

NetworkWarehouse(w) ==
    [activeReceipts |-> Cardinality(In(InWarehouse) \cap Received({w})),
     stored |-> StoredIn(w),
     liened |-> MapThenSumSet(LAMBDA t : lien[t].remaining, LiensIn(w))]

(* The row of a warehouse on the financier's screen.                       *)
WarehouseRollups(w) ==
    LET stored == In(InWarehouse) \cap Received({w})
    IN  [clientCount |-> Cardinality({receipt[r].owner : r \in stored}),
         totalStock |-> PerCommodity(stored),
         liened |-> MapThenSumSet(LAMBDA t : lien[t].remaining, LiensIn(w))]

FinancierLiens(statuses, w) ==
    {t \in Txn : /\ lien[t] # NoLien
                 /\ lien[t].status \in statuses
                 /\ WarehouseOf(lien[t].receiptId) = w}

(* A pledge and its lien are one client's, whoever holds the goods.        *)
Portfolio ==
    [lienCount |-> Cardinality(StandingLiens),
     clientCount |-> Cardinality({request[t].client : t \in StandingLiens}),
     pendingPledges |-> Cardinality(WithStatus(Filed("pledge"), {"PENDING"})),
     byWarehouse |-> [w \in {WarehouseOf(lien[t].receiptId) : t \in StandingLiens} |->
                        MapThenSumSet(LAMBDA t : lien[t].remaining, LiensIn(w))]]

-----------------------------------------------------------------------------
Scopes == {Warehouse} \cup {{w} : w \in Warehouse}

Entry(f, x) == IF x \in DOMAIN f THEN f[x] ELSE 0

(* The cards count what the lists below them show.  A client's active      *)
(* receipts can all be used; his pledged receipts are his open loans; what *)
(* awaits dispatch is a receipt held and approved; the receipts under lien *)
(* are liens that stand, of as many clients, and the pending pledges       *)
(* receipts held for a pledge; the card of pending receipts counts the     *)
(* queue of approvals, less the split ones.                                *)
CountersAgree ==
    /\ \A c \in Client :
          LET card == ClientDashboard(c)
          IN  /\ card.totalReceipts = Cardinality(AllTab(c))
              /\ SystemStatus(c).activeReceipts = card.active
              /\ SystemStatus(c).totalPledged
                    = Cardinality(WithStatus(Of(c, Filed("loan")), {"PENDING", "ACTIVE"}))
              /\ ClientDrilldown(c).activeLoansCount
                    = Cardinality({r \in Own(c) \cap In({"HELD_LOAN"}) :
                                       receipt[r].approval = "APPROVED"})
              /\ \A S \in Scopes :
                    ClientBadges(c, S).withdrawalDispatches
                        = Cardinality({r \in Own(c) \cap Received(S) \cap In({"HELD_WITHDRAWAL"}) :
                                           receipt[r].approval = "APPROVED"})
    /\ \A S \in Scopes :
          /\ WithdrawalStats(S).pending = ManagerDashboard(S).pendingWithdrawal
          /\ \A tab \in {"all", "pending", "completed"} :
                WithdrawalStats(S)[tab] = Cardinality(WithdrawalTab(tab, S))
    /\ Overview.liened = Portfolio.lienCount
    /\ Overview.active + Cardinality(In({"PENDING_APPROVAL"}))
          = SumOf([c \in Client |-> ClientBadges(c, Warehouse).active
                                       + ClientBadges(c, Warehouse).liened])
    /\ Portfolio.clientCount = Cardinality({receipt[r].owner : r \in In({"HELD_LIEN"})})
    /\ Portfolio.pendingPledges = Cardinality(In({"HELD_PLEDGE_PENDING"}))
    /\ ReceiptStats.pendingReceipts = Cardinality(PendingApprovals \ In({"SPLIT"}))
    /\ \A S \in Scopes :
          /\ SumOf([m \in Commodity |-> Movement(m, S).depositCount])
                = TransactionStats(S).totalDeposit
          /\ SumOf([m \in Commodity |-> Movement(m, S).withdrawalCount])
                = WithdrawalStats(S).all

(* The lists of receipts show the same rows: those of the warehouses make  *)
(* up the administrator's, whose approval filters the cards count, and the *)
(* tabs of the clients; and a client's own receipts, split ones apart, are *)
(* the manager's list of him.                                              *)
ListsAgree ==
    LET rows(approval) == AdminReceipts("ALL", approval, Warehouse, Client)
    IN  /\ ReceiptStats.totalReceipts = Cardinality(rows("ANY"))
        /\ ReceiptStats.approvedReceipts = Cardinality(rows("APPROVED"))
        /\ ReceiptStats.rejectedReceipts = Cardinality(rows("REJECTED"))
        /\ \A approval \in Approval :
              UNION {WarehouseReceipts("ALL", approval, w) : w \in Warehouse} = rows(approval)
        /\ \A g \in Group :
              UNION {WarehouseReceipts(g, "ANY", w) : w \in Warehouse}
                = UNION {Tab(c, g) : c \in Client}
        /\ \A c \in Client :
              /\ AllTab(c) = ListReceipts(c, "ALL", Warehouse) \ In({"SPLIT"})
              /\ \A S \in Scopes :
                    ClientBadges(c, S).total
                        = SumOf([g \in Group |-> Cardinality(ListReceipts(c, g, S))])

(* The page of a receipt: its path starts at the deposit and leads through *)
(* split receipts, its descendants hold what a split receipt held, and its *)
(* timeline has the event that made it and the one that closed it.         *)
DetailsAgree ==
    \A r \in Minted :
        LET page == ReceiptDetail(r)
            path == page.pathToRoot
            said == {event[k].type : k \in page.timeline}
        IN  /\ path[1] = receipt[r].root /\ path[1] \in Roots /\ path[Len(path)] = r
            /\ \A i \in 1..(Len(path) - 1) : receipt[path[i]].status = "SPLIT"
            /\ IF receipt[r].status = "SPLIT"
               THEN Total(page.descendants) = receipt[r].quantity
               ELSE page.descendants = {}
            /\ page.origin \in page.timeline
            /\ receipt[r].status = "WITHDRAWN" <=> "CONSUMED" \in said
            /\ receipt[r].status = "CANCELLED" <=> "REJECTED" \in said

(* Every list of transactions tells the same: the manager's list of one    *)
(* client is that client's statement, the tenant's list gives every line   *)
(* but a buyer's to its owner, and the cards are as large as the lists.    *)
HistoriesAgree ==
    /\ \A c \in Client :
          /\ ClientTransactions(c, Warehouse) = Statement(c)
          /\ ListTransactions(c, Warehouse) = {l \in Statement(c) : l.side # "BUY"}
          /\ MyTransactionStats(c).totalTransactions = Cardinality(Statement(c))
          /\ MyTransactionStats(c).totalTransactions - MyTransactionStats(c).deposits
                = SumOf(MyActivity(c))
          /\ RecentActivities(c) = {<<l.type, l.id>> : l \in Statement(c)}
          /\ SystemStatus(c).totalDeposits = MyTransactionStats(c).deposits
          /\ SystemStatus(c).totalWithdrawals = MyActivity(c)["withdrawal"]
    /\ \A S \in Scopes :
          TransactionStats(S).totalTransaction = Cardinality(TenantTransactions(S))
    /\ Trend.liensPlaced <= Trend.pledgesCreated
    /\ Trend.receiptsIssued
          = SumOf([w \in Warehouse |-> WarehouseSummary(w).totalReceipts])

(* A trail leads to the goods its request points at: held while the        *)
(* request is open, withdrawn when it is completed, else not held.  (The   *)
(* ledger writes no TRADED_OUT: a sale moves the receipt to the buyer.)    *)
TrailsAgree ==
    \A t \in Dealings(Warehouse) :
        LET goods == {request[t].receiptId}
        IN  CASE request[t].status \in {"PAID_PENDING_APPROVAL", "APPROVED", "PENDING",
                                        "ACTIVE", "LISTED"} -> Trail(t).held = goods
              [] request[t].status = "COMPLETED" -> Trail(t).terminal = goods
              [] OTHER -> Trail(t).held = {} /\ Trail(t).terminal = {}

(* The volumes of the reports agree, commodity by commodity.  A manager's  *)
(* active volume is his clients' available balance; the withdrawn, loaned  *)
(* and traded of a commodity are its completed withdrawals, open loans and *)
(* listed trades; what a tenant stores is in its warehouses or awaits      *)
(* approval; what the stock reports leave out is held for withdrawals,     *)
(* pledges and liens.                                                      *)
VolumesAgree ==
    /\ \A m \in Commodity :
          LET summary == CommoditySummary(m, Warehouse)
              places == {place \in Lot : place[2] = m}
              asked(kind, statuses) ==
                  AskedFor({t \in WithStatus(Filed(kind), statuses) :
                              CommodityOf(request[t].receiptId) = m})
              reported == SumOf([place \in places |-> StockSummary(place)])
          IN  /\ summary.total = SumOf([c \in Client |-> Available(c, m)])
              /\ summary.total = Total(CommodityReceipts("ACTIVE", m, Warehouse))
              /\ summary.total = ActiveVolume(m, Warehouse)
              /\ summary.total = Entry(CommodityStats(Warehouse).totalVolume, m)
              /\ summary.withdrawn = asked("withdrawal", {"COMPLETED"})
              /\ summary.loaned = asked("loan", {"PENDING", "ACTIVE"})
              /\ summary.traded = asked("trade", {"LISTED"})
              /\ Entry(Distribution.stored, m)
                    = SumOf([w \in Warehouse |-> Entry(StoredIn(w), m)])
                          + Total(OfCommodity(m, In({"PENDING_APPROVAL"})))
              /\ Movement(m, Warehouse).deposits
                    = SumOf([place \in places |-> Charted(place)])
              /\ Movement(m, Warehouse).withdrawals
                    = asked("withdrawal", RequestStatus["withdrawal"])
              /\ reported = SumOf([w \in Warehouse |-> Entry(CommodityDrilldown(m), w)])
              /\ SumOf([c \in Client |-> Entry(Outstanding(c, Warehouse), m)])
                    = reported
                          + asked("withdrawal", {"PAID_PENDING_APPROVAL", "APPROVED"})
                          + asked("pledge", {"PENDING"})
                          + SumOf([place \in places |-> Exposure(place)])
    /\ \A w \in Warehouse :
          /\ Entry(Portfolio.byWarehouse, w) = Total(In({"HELD_LIEN"}) \cap Received({w}))
          /\ Entry(Portfolio.byWarehouse, w) = NetworkWarehouse(w).liened
          /\ WarehouseRollups(w).totalStock = NetworkWarehouse(w).stored
          /\ WarehouseSummary(w).totalCommodity
                = SumOf([m \in Commodity |-> Entry(WarehouseRollups(w).totalStock, m)])
          /\ WarehouseRollups(w).clientCount = WarehouseSummary(w).totalClients
          /\ WarehouseRollups(w).liened
                = MapThenSumSet(LAMBDA t : lien[t].remaining,
                                FinancierLiens({"ACTIVE", "PARTIALLY_RELEASED", "RELEASED"}, w))
          /\ WarehouseSummary(w).billed
                = Total(In({"WITHDRAWN"}) \cap Received({w}))
    /\ Utilization
          = SumOf(ManagerDashboard(Warehouse).utilized)
                + SumOf([c \in Client |-> SumOf([m \in Commodity |-> Locked(c, m)])])

(* Every other figure: what the wizard offers, the histories, the trails   *)
(* and the page of a receipt, the cards and the lists they count, and the  *)
(* volumes of the reports agree with the receipts.                         *)
FiguresMatchStock == EligibleIsAvailable /\ HistoriesAgree /\ TrailsAgree /\ DetailsAgree
                         /\ CountersAgree /\ ListsAgree /\ VolumesAgree

(* admin-receipt.service: split nodes are excluded from every count, so    *)
(* that the numbers reflect what the UI actually shows.                    *)
PendingCardIsTheQueue == ReceiptStats.pendingReceipts = Cardinality(PendingApprovals)
=============================================================================
