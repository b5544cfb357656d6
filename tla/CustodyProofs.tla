--------------------------- MODULE CustodyProofs ---------------------------
(***************************************************************************)
(* Theorems about deposits, loans and trades over one ledger.  For any     *)
(* number of each and of handlers: a deposit has one verdict, a late       *)
(* correction touches no child, collateral is given back once and a        *)
(* listing is sold or returned.  For requests served one at a time, each   *)
(* possibly cut short: the approved quantity stands, the schedule of a loan*)
(* matches its terms, what is listed is the seller's, and no goods are     *)
(* claimed twice.                                                          *)
(*                                                                         *)
(* The services share nothing but receipts, so what one of them does       *)
(* reaches another only through a receipt.  The first half rests on what no*)
(* step of any of them does to a receipt: none takes hold of one in place, *)
(* and none changes the owner of one that is not held (Calm).  So a row    *)
(* whose goods were let go of stays true, whoever deals with them next.    *)
(*                                                                         *)
(* A loan or a listing asks for the quantity it read.  When a correction   *)
(* came in between that may be a part, and the receipt has two children.   *)
(* In the second half nothing comes in between, so a receipt is taken      *)
(* whole, has one child at most, and those of a deposit form a line.       *)
(* The end of a line stands for the deposit, it is held for one transaction*)
(* at a time, and its quantity is that of the deposit: a correction comes  *)
(* before the verdict, when the line is the deposit alone.                 *)
(*                                                                         *)
(* A correction writes quantities outside the ledger, so its invariant is  *)
(* not available here: only the types of the tables are.                   *)
(***************************************************************************)
EXTENDS Custody, InventoryLedgerProofs

(* The keys of the services, by what they stand for.                       *)
Did(k) == event[k] # NoEvent

HasLoan(l) == loan[l] # L!NoLoan
HasTrade(t) == trade[t] # T!NoTrade

(* What a handler remembers, operation by operation.                       *)
PickLoan == [op : {"createLoan"}, step : {"hold"}, r : Minted, quantity : Nat,
             terms : L!Terms]
BornLoan == [op : {"createLoan"}, step : {"insert"}, l : Loan, held : Minted,
             terms : L!Terms]
DecideLoan == [op : {"approveLoan", "rejectLoan", "repayLoan"},
               step : {"approveHold", "release", "update"}, l : Loan]
EditLoan == [op : {"editLoan"}, step : {"update"}, l : Loan, terms : L!Terms,
             seen : L!LoanRow]
PickTrade == [op : {"createTrade"}, step : {"hold"}, r : Minted, quantity : Nat,
              seller : Client]
BornTrade == [op : {"createTrade"}, step : {"insert"}, t : Trade, held : Minted,
              seller : Client]
SettleTrade == [op : {"settleTrade"}, step : {"transfer"}, t : Trade, buyer : Client]
CancelTrade == [op : {"cancelTrade"}, step : {"release", "update"}, t : Trade]
EditDeposit == [op : {"editDeposit"}, step : {"update"}, r : Minted, quantity : D!Quantity]

CallState == PickLoan \cup BornLoan \cup DecideLoan \cup EditLoan \cup PickTrade
                 \cup BornTrade \cup SettleTrade \cup CancelTrade \cup EditDeposit \cup {Idle}

FlowTypeOK ==
    /\ LedgerTypeOK
    /\ loan \in [Loan -> L!LoanRow \cup {L!NoLoan}]
    /\ trade \in [Trade -> T!TradeRow \cup {T!NoTrade}]
    /\ told \subseteq Trade \X Client
    /\ call \in [Call -> CallState]

-----------------------------------------------------------------------------
(* A deposit awaits its verdict or was rejected.                           *)
Unjudged == {"PENDING_APPROVAL", "CANCELLED"}

(* What the journal says of the verdicts: of any id at most one, of an id  *)
(* not yet drawn none, of a deposit that awaits one not yet.               *)
VerdictSays(r) ==
    /\ ~Did(D!ApproveKey(r)) \/ ~Did(D!RejectKey(r))
    /\ r \notin Minted => ~Did(D!ApproveKey(r)) /\ ~Did(D!RejectKey(r))
    /\ receipt[r].status = "PENDING_APPROVAL" => ~Did(D!ApproveKey(r))
    /\ Did(D!RejectKey(r)) => receipt[r].status = "CANCELLED"

(* A receipt that awaits a verdict or was rejected is a root, and any      *)
(* other comes from an approved one.                                       *)
RootSays(r) ==
    IF receipt[r].status \in Unjudged
    THEN receipt[r].parent = NoReceipt /\ receipt[r].root = r
    ELSE Did(D!ApproveKey(receipt[r].root))

(* What a loan says: whoever ended it let go of its collateral, only one   *)
(* of rejection and repayment did, and the latter after an approval.       *)
LoanSays(l) ==
    LET released == Did(L!ReleaseKey(l))
        repaid == Did(L!RepayKey(l))
        approved == Did(L!ApproveKey(l))
    IN  /\ ~released \/ ~repaid
        /\ repaid => approved
        /\ IF HasLoan(l)
           THEN /\ Did(L!HoldKey(l))
                /\ released \/ repaid => ~IsHeld(loan[l].receiptId)
                /\ loan[l].status = "ACTIVE" => approved
                /\ loan[l].status = "REJECTED" => released
                /\ loan[l].status = "REPAID" => repaid
           ELSE ~released /\ ~repaid

(* What a trade says.                                                      *)
TradeSays(t) ==
    LET sold == Did(T!TransferKey(t))
        returned == Did(T!CancelKey(t))
    IN  /\ ~sold \/ ~returned
        /\ IF HasTrade(t)
           THEN /\ Did(T!HoldKey(t))
                /\ sold \/ returned => ~IsHeld(trade[t].receiptId)
                /\ sold => /\ trade[t].status = "SETTLED"
                           /\ receipt[trade[t].receiptId].owner = trade[t].buyer
                /\ trade[t].status = "SETTLED" => sold
           ELSE ~sold /\ ~returned

(* What a handler in state s knows.                                        *)
CallSays(s) ==
    /\ s.op = "createLoan" /\ s.step = "insert" => Did(L!HoldKey(s.l)) /\ ~HasLoan(s.l)
    /\ s.op \in {"approveLoan", "rejectLoan", "repayLoan", "editLoan"} => HasLoan(s.l)
    /\ s.op = "approveLoan" /\ s.step = "update" => Did(L!ApproveKey(s.l))
    /\ s.op = "rejectLoan" /\ s.step = "update" => Did(L!ReleaseKey(s.l))
    /\ s.op = "repayLoan" => Did(L!ApproveKey(s.l))
    /\ s.op = "repayLoan" /\ s.step = "update" => Did(L!RepayKey(s.l))
    /\ s.op = "createTrade" /\ s.step = "insert" => Did(T!HoldKey(s.t)) /\ ~HasTrade(s.t)
    /\ s.op \in {"settleTrade", "cancelTrade"} => HasTrade(s.t)
    /\ s.op = "cancelTrade" /\ s.step = "update" => Did(T!CancelKey(s.t))
    /\ s.op = "editDeposit" => receipt[s.r].parent = NoReceipt

(* No two handlers insert the same row.                                    *)
Inserting(s) == s.op \in {"createLoan", "createTrade"} /\ s.step = "insert"

Apart(s, u) ==
    /\ s.op = "createLoan" /\ u.op = "createLoan" => s.l # u.l
    /\ s.op = "createTrade" /\ u.op = "createTrade" => s.t # u.t

CustodyInv ==
    /\ FlowTypeOK
    /\ \A r \in Receipt : VerdictSays(r)
    /\ \A r \in Minted : RootSays(r)
    /\ \A l \in Loan : LoanSays(l)
    /\ \A t \in Trade : TradeSays(t)
    /\ \A c \in Call : CallSays(call[c])
    /\ \A c, d \in Call :
          c # d /\ Inserting(call[c]) /\ Inserting(call[d]) => Apart(call[c], call[d])

-----------------------------------------------------------------------------
(* The keys are told apart by what they stand for.                         *)
JudgeKeys(r) == {D!ApproveKey(r), D!RejectKey(r)}
LoanKeys(l) == {L!HoldKey(l), L!ApproveKey(l), L!ReleaseKey(l), L!RepayKey(l)}
TradeKeys(t) == {T!HoldKey(t), T!TransferKey(t), T!CancelKey(t)}

LEMMA KeysKnown ==
    /\ \A d \in Filing : D!FileKey(d) \in Key
    /\ \A r \in Receipt : JudgeKeys(r) \subseteq Key
    /\ \A l \in Loan : LoanKeys(l) \subseteq Key /\ l \in Txn
    /\ \A t \in Trade : TradeKeys(t) \subseteq Key /\ t \in Txn
<1>1. /\ \A d \in Filing : <<"deposit", d>> \in Key
      /\ \A r \in D!Receipt : <<"approve", r>> \in Key /\ <<"reject", r>> \in Key
  BY CustodyAssumption DEF D!DepositAssumption, D!DepositKeys
<1>2. \A l \in Loan : /\ <<"hold", l>> \in Key /\ <<"approveHold", l>> \in Key
                      /\ <<"release", l>> \in Key /\ <<"repay-release", l>> \in Key
                      /\ l \in Txn
  BY CustodyAssumption DEF L!LoanAssumption, L!LoanKey
<1>3. \A t \in Trade : /\ <<"hold", t>> \in Key /\ <<"transfer", t>> \in Key
                       /\ <<"cancel-release", t>> \in Key /\ t \in Txn
  BY CustodyAssumption DEF T!TradeAssumption, T!TradeKey
<1> QED
  BY <1>1, <1>2, <1>3
     DEF JudgeKeys, LoanKeys, TradeKeys, D!FileKey, D!ApproveKey, D!RejectKey, D!Receipt,
         Receipt, L!HoldKey, L!ApproveKey, L!ReleaseKey, L!RepayKey, T!HoldKey,
         T!TransferKey, T!CancelKey

LEMMA KeysApart ==
    /\ \A r, s \in Receipt :
          /\ D!ApproveKey(r) # D!RejectKey(s)
          /\ D!ApproveKey(r) = D!ApproveKey(s) => r = s
          /\ D!RejectKey(r) = D!RejectKey(s) => r = s
    /\ \A d \in Filing, r \in Receipt : D!FileKey(d) \notin JudgeKeys(r)
    /\ \A d \in Filing, l \in Loan : D!FileKey(d) \notin LoanKeys(l)
    /\ \A d \in Filing, t \in Trade : D!FileKey(d) \notin TradeKeys(t)
    /\ \A r \in Receipt, l \in Loan : JudgeKeys(r) \cap LoanKeys(l) = {}
    /\ \A r \in Receipt, t \in Trade : JudgeKeys(r) \cap TradeKeys(t) = {}
    /\ \A l \in Loan, t \in Trade : LoanKeys(l) \cap TradeKeys(t) = {}
    /\ \A l, m \in Loan :
          /\ L!ReleaseKey(l) # L!RepayKey(m)
          /\ {L!HoldKey(m), L!ApproveKey(m)} \cap {L!ReleaseKey(l), L!RepayKey(l)} = {}
          /\ l # m => LoanKeys(l) \cap LoanKeys(m) = {}
    /\ \A t, u \in Trade :
          /\ T!TransferKey(t) # T!CancelKey(u)
          /\ T!HoldKey(t) \notin {T!TransferKey(u), T!CancelKey(u)}
          /\ t # u => TradeKeys(t) \cap TradeKeys(u) = {}
<1>1. \A x : /\ D!FileKey(x)[1] = "deposit" /\ D!FileKey(x)[2] = x
             /\ D!ApproveKey(x)[1] = "approve" /\ D!ApproveKey(x)[2] = x
             /\ D!RejectKey(x)[1] = "reject" /\ D!RejectKey(x)[2] = x
  BY DEF D!FileKey, D!ApproveKey, D!RejectKey
<1>2. \A x : /\ L!HoldKey(x)[1] = "hold" /\ L!HoldKey(x)[2] = x
             /\ L!ApproveKey(x)[1] = "approveHold" /\ L!ApproveKey(x)[2] = x
             /\ L!ReleaseKey(x)[1] = "release" /\ L!ReleaseKey(x)[2] = x
             /\ L!RepayKey(x)[1] = "repay-release" /\ L!RepayKey(x)[2] = x
  BY DEF L!HoldKey, L!ApproveKey, L!ReleaseKey, L!RepayKey
<1>3. \A x : /\ T!HoldKey(x)[1] = "hold" /\ T!HoldKey(x)[2] = x
             /\ T!TransferKey(x)[1] = "transfer" /\ T!TransferKey(x)[2] = x
             /\ T!CancelKey(x)[1] = "cancel-release" /\ T!CancelKey(x)[2] = x
  BY DEF T!HoldKey, T!TransferKey, T!CancelKey
<1>4. \A l \in Loan, t \in Trade : l # t
  BY CustodyAssumption
<1>5. \A r, s \in Receipt :
          /\ D!ApproveKey(r) # D!RejectKey(s)
          /\ D!ApproveKey(r) = D!ApproveKey(s) => r = s
          /\ D!RejectKey(r) = D!RejectKey(s) => r = s
  BY <1>1
<1>6. /\ \A d \in Filing, r \in Receipt : D!FileKey(d) \notin JudgeKeys(r)
      /\ \A d \in Filing, l \in Loan : D!FileKey(d) \notin LoanKeys(l)
      /\ \A d \in Filing, t \in Trade : D!FileKey(d) \notin TradeKeys(t)
  BY <1>1, <1>2, <1>3 DEF JudgeKeys, LoanKeys, TradeKeys
<1>7. /\ \A r \in Receipt, l \in Loan : JudgeKeys(r) \cap LoanKeys(l) = {}
      /\ \A r \in Receipt, t \in Trade : JudgeKeys(r) \cap TradeKeys(t) = {}
  BY <1>1, <1>2, <1>3 DEF JudgeKeys, LoanKeys, TradeKeys
<1>8. \A l \in Loan, t \in Trade : LoanKeys(l) \cap TradeKeys(t) = {}
  BY <1>2, <1>3, <1>4 DEF LoanKeys, TradeKeys
<1>9. \A l, m \in Loan :
          /\ L!ReleaseKey(l) # L!RepayKey(m)
          /\ {L!HoldKey(m), L!ApproveKey(m)} \cap {L!ReleaseKey(l), L!RepayKey(l)} = {}
          /\ l # m => LoanKeys(l) \cap LoanKeys(m) = {}
  BY <1>2 DEF LoanKeys
<1>10. \A t, u \in Trade :
          /\ T!TransferKey(t) # T!CancelKey(u)
          /\ T!HoldKey(t) \notin {T!TransferKey(u), T!CancelKey(u)}
          /\ t # u => TradeKeys(t) \cap TradeKeys(u) = {}
  BY <1>3 DEF TradeKeys
<1> QED
  BY <1>5, <1>6, <1>7, <1>8, <1>9, <1>10

-----------------------------------------------------------------------------
(* What a step does to the tables of the ledger.                           *)

(* Nothing already said is taken back: no event is removed, no receipt     *)
(* changes its lineage, none is taken hold of in place, and one that is    *)
(* not held stays with its owner.                                          *)
Calm ==
    /\ TableTypeOK' /\ JournalTypeOK'
    /\ \A k \in Key : Did(k) => Did(k)'
    /\ \A r \in Minted :
          /\ r \in Minted'
          /\ receipt'[r].parent = receipt[r].parent
          /\ receipt'[r].root = receipt[r].root
          /\ ~IsHeld(r) => ~IsHeld(r)' /\ receipt'[r].owner = receipt[r].owner

(* A ledger call of a loan or a trade under key k, or none: no deposit is  *)
(* judged, and new receipts take the place of one that was.                *)
Moves(k) ==
    /\ Calm
    /\ \A j \in Key : /\ Did(j)' => Did(j) \/ j = k
                      /\ Did(j) => event'[j] = event[j]
    /\ \A r \in Minted :
          /\ receipt'[r].quantity = receipt[r].quantity
          /\ receipt'[r].sourceTxn = receipt[r].sourceTxn
          /\ receipt'[r].sourceEvent = receipt[r].sourceEvent
          /\ receipt'[r].approval \in {receipt[r].approval, "APPROVED"}
          /\ receipt'[r].status \in Unjudged \/ receipt[r].status \in Unjudged
                => receipt'[r].status = receipt[r].status
          /\ receipt[r].status = "SPLIT" => receipt'[r].status = "SPLIT"
    /\ \A r \in Minted' \ Minted :
          /\ receipt'[r].status \notin Unjudged
          /\ receipt'[r].sourceEvent = k
          /\ \E s \in Minted : /\ receipt[s].status \notin Unjudged
                               /\ receipt[s].status # "SPLIT"
                               /\ receipt'[s].status = "SPLIT"
                               /\ receipt'[r].root = receipt[s].root

(* The call takes a whole receipt or none: one new receipt at most, with   *)
(* the root and the quantity of the one it supersedes.                     *)
Whole ==
    /\ \A r \in Minted' \ Minted :
          \E s \in Minted : /\ receipt[s].status \notin Unjudged
                            /\ receipt[s].status # "SPLIT"
                            /\ receipt'[s].status = "SPLIT"
                            /\ receipt'[r].root = receipt[s].root
                            /\ receipt'[r].quantity = receipt[s].quantity
    /\ \A r, s \in Minted' \ Minted : r = s

SameOwners == \A r \in Minted : receipt'[r].owner = receipt[r].owner

LEMMA RowTyped ==
    ASSUME TableTypeOK
    PROVE  /\ Minted \subseteq Receipt
           /\ \A r \in Receipt : r \in Minted => receipt[r] \in Row
           /\ \A r \in Receipt : r \notin Minted => receipt[r] = NoRow
  BY BoundsAssumption DEF TableTypeOK, Minted, Receipt

LEMMA StillMoves ==
    ASSUME FlowTypeOK, UNCHANGED ledgerVars
    PROVE  \A k : Moves(k)
<1>1. TableTypeOK' /\ JournalTypeOK' /\ Minted' = Minted
  BY DEF FlowTypeOK, LedgerTypeOK, ledgerVars, TableTypeOK, JournalTypeOK, Minted
<1>2. \A k : Did(k)' <=> event[k] # NoEvent
  BY DEF ledgerVars, Did
<1>3. \A r : IsHeld(r)' <=> receipt[r].status \in HeldStatus
  BY DEF ledgerVars, IsHeld
<1> QED
  BY <1>1, <1>2, <1>3 DEF ledgerVars, Moves, Calm, Did, IsHeld

(* One row of the journal is written, the others stay.                     *)
LEMMA RowRecorded ==
    ASSUME JournalTypeOK, NEW k \in Key, NEW type \in EventType, NEW r \in Receipt,
           NEW q \in Nat, Record(k, type, r, q)
    PROVE  /\ JournalTypeOK' /\ ~Did(k) /\ Did(k)'
           /\ \A j \in Key \ {k} : Did(j)' <=> event[j] # NoEvent
           /\ \A j \in Key \ {k} : event'[j] = event[j]
           /\ event'[k].quantity = q
<1>1. JournalTypeOK'
  BY RecordKeepsJournal
<1>2. /\ event[k] = NoEvent /\ \A j \in Key \ {k} : event'[j] = event[j]
      /\ event'[k] = [type |-> type, from |-> r, quantity |-> q]
  BY DEF Record, JournalTypeOK
<1>3. event'[k] # NoEvent
  BY <1>2 DEF NoEvent, EventType
<1> QED
  BY <1>1, <1>2, <1>3 DEF Did

(* One row of the receipts table is rewritten, the others stay.            *)
LEMMA RowUpdated ==
    ASSUME TableTypeOK, NEW r \in Minted, NEW row \in Row, Update(r, row)
    PROVE  /\ TableTypeOK' /\ Minted' = Minted /\ receipt'[r] = row
           /\ \A s \in Minted \ {r} : receipt'[s] = receipt[s]
<1>1. Minted' = Minted /\ r \in Receipt /\ Minted \subseteq Receipt
  BY RowTyped DEF Update, Minted
<1>2. TableTypeOK'
  BY <1>1 DEF TableTypeOK, Update
<1> QED
  BY <1>1, <1>2 DEF TableTypeOK, Update

(* A call that supersedes an available receipt by one child or two.        *)
LEMMA ChildrenMove ==
    ASSUME FlowTypeOK, NEW k \in Key, NEW type \in EventType, NEW n \in Nat, NEW r \in Minted,
           receipt[r].status = "ACTIVE", Record(k, type, r, n),
           NEW kids \in Seq(Row), Len(kids) \in 1..2, Split(r, kids),
           \A i \in 1..Len(kids) : /\ kids[i].root = receipt[r].root
                                   /\ kids[i].sourceEvent = k
                                   /\ kids[i].status \notin Unjudged
    PROVE  /\ Moves(k) /\ ~Did(k) /\ Did(k)' /\ SameOwners
           /\ receipt'[r].status = "SPLIT" /\ minted \in Nat /\ minted' = minted + Len(kids)
           /\ \A x \in Minted' \ Minted : /\ x - minted \in 1..Len(kids)
                                          /\ receipt'[x] = kids[x - minted]
<1> DEFINE old == [receipt[r] EXCEPT !.status = "SPLIT", !.isParent = TRUE]
<1>1. /\ TableTypeOK /\ JournalTypeOK /\ r \in Receipt /\ receipt[r] \in Row
      /\ Minted \subseteq Receipt /\ minted \in Nat /\ MaxReceipts \in Nat
  BY RowTyped, BoundsAssumption DEF FlowTypeOK, LedgerTypeOK, TableTypeOK
<1>2. /\ old \in Row /\ old.status = "SPLIT" /\ old.parent = receipt[r].parent
      /\ old.root = receipt[r].root /\ old.owner = receipt[r].owner
      /\ old.quantity = receipt[r].quantity /\ old.approval = receipt[r].approval
      /\ old.sourceTxn = receipt[r].sourceTxn /\ old.sourceEvent = receipt[r].sourceEvent
  BY <1>1, StatusGroups DEF Row, Status, ClosedStatus
<1>3. /\ minted + Len(kids) <= MaxReceipts /\ minted' = minted + Len(kids)
      /\ receipt' = [x \in Receipt |->
            IF x = r THEN old
            ELSE IF x \in minted + 1 .. minted + Len(kids) THEN kids[x - minted]
                 ELSE receipt[x]]
  BY DEF Split, old
<1> HIDE DEF old
<1>4. /\ Minted' \subseteq Receipt /\ Minted \subseteq Minted'
      /\ \A x \in Receipt : x \in Minted' \ Minted <=> x \in minted + 1 .. minted + Len(kids)
  BY <1>1, <1>3 DEF Receipt, Minted
<1>5. /\ receipt'[r] = old /\ \A x \in Minted \ {r} : receipt'[x] = receipt[x]
      /\ \A x \in Minted' \ Minted : receipt'[x] = kids[x - minted]
  <2>1. \A x \in Receipt : x = r => x \notin Minted' \ Minted
    OBVIOUS
  <2>2. \A x \in Minted : x \notin minted + 1 .. minted + Len(kids)
    BY <1>1, <1>4
  <2> QED
    BY <1>1, <1>3, <1>4, <2>1, <2>2
<1>6. \A x \in Minted' \ Minted : x - minted \in 1..Len(kids)
  BY <1>1, <1>4 DEF Receipt
<1>7. \A x \in Minted' \ Minted : /\ receipt'[x] \in Row
                                  /\ receipt'[x].root = receipt[r].root
                                  /\ receipt'[x].sourceEvent = k
                                  /\ receipt'[x].status \notin Unjudged
  <2> SUFFICES ASSUME NEW x \in Minted' \ Minted
               PROVE  /\ receipt'[x] \in Row
                      /\ receipt'[x].root = receipt[r].root
                      /\ receipt'[x].sourceEvent = k
                      /\ receipt'[x].status \notin Unjudged
    OBVIOUS
  <2>1. PICK i \in 1..Len(kids) : receipt'[x] = kids[i]
    BY <1>5, <1>6
  <2>2. kids[i] \in Row
    OBVIOUS
  <2> QED
    BY <2>1, <2>2
<1>8. TableTypeOK'
  <2>1. minted' \in 0..MaxReceipts
    BY <1>1, <1>3
  <2>2. \A x \in Receipt \ Minted' : receipt'[x] = receipt[x]
    BY <1>3, <1>4
  <2>3. \A x \in Receipt \ Minted' : receipt'[x] \in {NoRow} \ Row
    BY <1>4, <2>2, RowTyped, <1>1 DEF TableTypeOK
  <2>4. \A x \in Minted' : receipt'[x] \in Row
    <3>1. \A x \in Minted \ {r} : receipt[x] \in Row
      BY <1>1 DEF TableTypeOK
    <3> QED
      BY <1>2, <1>5, <1>7, <3>1
  <2>5. receipt' \in [Receipt -> Row \cup {NoRow}]
    <3>1. DOMAIN receipt' = Receipt /\ receipt' = [x \in Receipt |-> receipt'[x]]
      BY <1>3
    <3> QED
      BY <2>3, <2>4, <3>1
  <2> QED
    BY <2>1, <2>3, <2>4, <2>5 DEF TableTypeOK
<1>9. /\ JournalTypeOK' /\ ~Did(k) /\ Did(k)'
      /\ \A j \in Key \ {k} : Did(j)' <=> event[j] # NoEvent
      /\ \A j \in Key \ {k} : event'[j] = event[j]
  BY <1>1, RowRecorded
<1>10. /\ old.status \notin HeldStatus /\ old.status \notin Unjudged
       /\ "ACTIVE" \notin Unjudged
  BY <1>2 DEF HeldStatus, Unjudged
<1>11. Calm
  BY <1>2, <1>4, <1>5, <1>8, <1>9, <1>10 DEF Calm, Did, IsHeld
<1>12. \A j \in Key : /\ Did(j)' => Did(j) \/ j = k
                      /\ Did(j) => event'[j] = event[j]
  BY <1>9 DEF Did
<1>13. \A x \in Minted :
          /\ receipt'[x].quantity = receipt[x].quantity
          /\ receipt'[x].sourceTxn = receipt[x].sourceTxn
          /\ receipt'[x].sourceEvent = receipt[x].sourceEvent
          /\ receipt'[x].approval \in {receipt[x].approval, "APPROVED"}
          /\ receipt'[x].status \in Unjudged \/ receipt[x].status \in Unjudged
                => receipt'[x].status = receipt[x].status
          /\ receipt[x].status = "SPLIT" => receipt'[x].status = "SPLIT"
          /\ receipt'[x].owner = receipt[x].owner
  BY <1>2, <1>5, <1>10
<1>14. \A x \in Minted' \ Minted :
          /\ receipt'[x].status \notin Unjudged
          /\ receipt'[x].sourceEvent = k
          /\ \E y \in Minted : /\ receipt[y].status \notin Unjudged
                               /\ receipt[y].status # "SPLIT"
                               /\ receipt'[y].status = "SPLIT"
                               /\ receipt'[x].root = receipt[y].root
  <2>1. receipt[r].status # "SPLIT"
    OBVIOUS
  <2> QED
    BY <1>2, <1>5, <1>7, <1>10, <2>1
<1>15. Moves(k)
  BY <1>11, <1>12, <1>13, <1>14 DEF Moves
<1>16. SameOwners /\ receipt'[r].status = "SPLIT"
  BY <1>2, <1>5, <1>13 DEF SameOwners
<1> QED
  BY <1>1, <1>3, <1>5, <1>6, <1>9, <1>15, <1>16

(* A hold of the quantity n: the held child, and what is left of the       *)
(* receipt when n is not all of it.                                        *)
LEMMA HoldMoves ==
    ASSUME FlowTypeOK, NEW k \in Key, NEW r \in Minted, NEW n \in Nat, NEW s \in HeldStatus,
           NEW t \in Txn, Hold(k, r, Exactly(n), s, t)
    PROVE  /\ Moves(k) /\ ~Did(k) /\ Did(k)' /\ SameOwners
           /\ n = receipt[r].quantity =>
                 /\ Whole
                 /\ \A x \in Minted' \ Minted : /\ receipt'[x].sourceTxn = t
                                                /\ receipt'[x].owner = receipt[r].owner
<1> DEFINE q == Exactly(n)
           rest == Exactly(receipt[r].quantity) - q
           child == [ChildOf(r, k, q) EXCEPT !.status = s, !.approval = "PENDING",
                        !.owner = receipt[r].owner, !.sourceTxn = t]
           left == [ChildOf(r, k, rest) EXCEPT !.status = "ACTIVE", !.approval = "APPROVED"]
           kids == IF rest > 0 THEN <<child, left>> ELSE <<child>>
<1>1. /\ TableTypeOK /\ r \in Receipt /\ receipt[r] \in Row /\ receipt[r].quantity \in Nat
  BY RowTyped DEF FlowTypeOK, LedgerTypeOK, Row
<1>2. /\ Exactly(n) \in Nat /\ Stored(q) = n
      /\ Exactly(receipt[r].quantity) \in Nat
  BY <1>1, WholeIsExact
<1>3. /\ receipt[r].status = "ACTIVE" /\ Record(k, "HOLD_PLACED", r, n)
      /\ q <= Exactly(receipt[r].quantity) /\ Split(r, kids)
  BY <1>2 DEF Hold, Partition
<1>4. rest \in Nat
  BY <1>2, <1>3
<1>5. Stored(rest) \in Nat
  BY <1>4, StoredBounds
<1> HIDE DEF q, rest
<1>6. /\ child \in Row /\ child.status = s /\ child.root = receipt[r].root
      /\ child.sourceTxn = t /\ child.sourceEvent = k
      /\ child.owner = receipt[r].owner /\ child.quantity = n
  BY <1>1, <1>2, StatusGroups DEF ChildOf, Row, Approval
<1>7. /\ left \in Row /\ left.status = "ACTIVE" /\ left.root = receipt[r].root
      /\ left.sourceEvent = k
  BY <1>1, <1>5, StatusGroups DEF ChildOf, Row, Approval
<1> HIDE DEF child, left
<1>8. s \notin Unjudged /\ "ACTIVE" \notin Unjudged /\ "HOLD_PLACED" \in EventType
  BY DEF HeldStatus, Unjudged, EventType
<1>9. /\ kids \in Seq(Row) /\ Len(kids) \in 1..2
      /\ \A i \in 1..Len(kids) : /\ kids[i].root = receipt[r].root
                                 /\ kids[i].sourceEvent = k
                                 /\ kids[i].status \notin Unjudged
  <2>1. CASE rest > 0
    BY <1>6, <1>7, <1>8, <2>1
  <2>2. CASE ~(rest > 0)
    BY <1>6, <1>8, <2>2
  <2> QED
    BY <2>1, <2>2
<1>10. n = receipt[r].quantity => kids = <<child>>
  BY <1>2 DEF q, rest
<1> HIDE DEF kids
<1>11. /\ Moves(k) /\ ~Did(k) /\ Did(k)' /\ SameOwners
       /\ receipt'[r].status = "SPLIT" /\ minted \in Nat
       /\ \A x \in Minted' \ Minted : /\ x - minted \in 1..Len(kids)
                                      /\ receipt'[x] = kids[x - minted]
  BY <1>3, <1>8, <1>9, ChildrenMove
<1>12. ASSUME n = receipt[r].quantity
       PROVE  /\ Whole
              /\ \A x \in Minted' \ Minted : /\ receipt'[x].sourceTxn = t
                                             /\ receipt'[x].owner = receipt[r].owner
  <2>1. Len(kids) = 1 /\ kids[1] = child
    BY <1>10, <1>12
  <2>2. \A x \in Minted' \ Minted : x = minted + 1 /\ receipt'[x] = child
    <3>1. Minted' \subseteq Int
      BY DEF Minted
    <3> QED
      BY <1>11, <2>1, <3>1
  <2>3. receipt[r].status \notin Unjudged /\ receipt[r].status # "SPLIT"
    BY <1>3, <1>8
  <2> QED
    BY <1>6, <1>11, <1>12, <2>2, <2>3 DEF Whole
<1> QED
  BY <1>11, <1>12

(* A call that rewrites the row of a held receipt and leaves it held, or   *)
(* available.                                                              *)
LEMMA RewriteMoves ==
    ASSUME FlowTypeOK, NEW k \in Key, NEW type \in EventType, NEW r \in Minted, IsHeld(r),
           NEW row \in Row, row.quantity = receipt[r].quantity,
           row.parent = receipt[r].parent, row.root = receipt[r].root,
           row.sourceTxn = receipt[r].sourceTxn, row.sourceEvent = receipt[r].sourceEvent,
           row.approval = "APPROVED", row.status \in HeldStatus \cup {"ACTIVE"},
           Record(k, type, r, receipt[r].quantity), Update(r, row)
    PROVE  /\ Moves(k) /\ ~Did(k) /\ Did(k)'
           /\ Minted' = Minted /\ receipt'[r] = row
           /\ \A s \in Minted \ {r} : receipt'[s] = receipt[s]
<1>1. /\ TableTypeOK /\ JournalTypeOK /\ r \in Receipt /\ receipt[r].quantity \in Nat
  BY RowTyped DEF FlowTypeOK, LedgerTypeOK, Row
<1>2. /\ JournalTypeOK' /\ ~Did(k) /\ Did(k)'
      /\ \A j \in Key \ {k} : Did(j)' <=> event[j] # NoEvent
      /\ \A j \in Key \ {k} : event'[j] = event[j]
  BY <1>1, RowRecorded
<1>3. /\ TableTypeOK' /\ Minted' = Minted /\ receipt'[r] = row
      /\ \A s \in Minted \ {r} : receipt'[s] = receipt[s]
  BY <1>1, RowUpdated
<1>4. \A st \in HeldStatus \cup {"ACTIVE"} : st \notin Unjudged /\ st # "SPLIT"
  BY DEF HeldStatus, Unjudged
<1>5. receipt[r].status \in HeldStatus
  BY DEF IsHeld
<1>6. Calm
  BY <1>2, <1>3, <1>5 DEF Calm, Did, IsHeld
<1>7. \A j \in Key : /\ Did(j)' => Did(j) \/ j = k
                     /\ Did(j) => event'[j] = event[j]
  BY <1>2 DEF Did
<1>8. \A x \in Minted :
          /\ receipt'[x].quantity = receipt[x].quantity
          /\ receipt'[x].sourceTxn = receipt[x].sourceTxn
          /\ receipt'[x].sourceEvent = receipt[x].sourceEvent
          /\ receipt'[x].approval \in {receipt[x].approval, "APPROVED"}
          /\ receipt'[x].status \in Unjudged \/ receipt[x].status \in Unjudged
                => receipt'[x].status = receipt[x].status
          /\ receipt[x].status = "SPLIT" => receipt'[x].status = "SPLIT"
  BY <1>3, <1>4, <1>5
<1> QED
  BY <1>2, <1>3, <1>6, <1>7, <1>8 DEF Moves

LEMMA ApproveHoldMoves ==
    ASSUME FlowTypeOK, NEW k \in Key, NEW r \in Minted, ApproveHold(k, r)
    PROVE  Moves(k) /\ ~Did(k) /\ Did(k)' /\ SameOwners /\ Minted' = Minted
<1> DEFINE row == [receipt[r] EXCEPT !.approval = "APPROVED"]
<1>1. receipt[r] \in Row
  BY RowTyped DEF FlowTypeOK, LedgerTypeOK
<1>2. /\ row \in Row /\ row.quantity = receipt[r].quantity /\ row.parent = receipt[r].parent
      /\ row.root = receipt[r].root /\ row.status = receipt[r].status
      /\ row.sourceTxn = receipt[r].sourceTxn /\ row.sourceEvent = receipt[r].sourceEvent
      /\ row.approval = "APPROVED" /\ row.owner = receipt[r].owner
  BY <1>1 DEF Row, Approval
<1>3. /\ IsHeld(r) /\ Record(k, "APPROVED", r, receipt[r].quantity)
      /\ Update(r, row) /\ "APPROVED" \in EventType
  BY DEF ApproveHold, EventType
<1> HIDE DEF row
<1> QED
  BY <1>2, <1>3, RewriteMoves DEF IsHeld, SameOwners

LEMMA ReleaseMoves ==
    ASSUME FlowTypeOK, NEW k \in Key, NEW r \in Minted, Release(k, r)
    PROVE  /\ Moves(k) /\ ~Did(k) /\ Did(k)' /\ IsHeld(r) /\ ~IsHeld(r)'
           /\ SameOwners /\ Minted' = Minted
<1> DEFINE row == [receipt[r] EXCEPT !.status = "ACTIVE", !.approval = "APPROVED"]
<1>1. receipt[r] \in Row
  BY RowTyped DEF FlowTypeOK, LedgerTypeOK
<1>2. /\ row \in Row /\ row.quantity = receipt[r].quantity /\ row.parent = receipt[r].parent
      /\ row.root = receipt[r].root /\ row.status = "ACTIVE"
      /\ row.sourceTxn = receipt[r].sourceTxn /\ row.sourceEvent = receipt[r].sourceEvent
      /\ row.approval = "APPROVED" /\ row.owner = receipt[r].owner
  BY <1>1 DEF Row, Approval, Status
<1>3. /\ Moves(k) /\ ~Did(k) /\ Did(k)' /\ receipt'[r] = row /\ Minted' = Minted
      /\ \A s \in Minted \ {r} : receipt'[s] = receipt[s]
  <2>1. /\ IsHeld(r) /\ Record(k, "HOLD_RELEASED", r, receipt[r].quantity)
        /\ Update(r, row) /\ "HOLD_RELEASED" \in EventType
    BY DEF Release, EventType
  <2> HIDE DEF row
  <2> QED
    BY <1>2, <2>1, RewriteMoves
<1> QED
  BY <1>2, <1>3 DEF Release, IsHeld, HeldStatus, SameOwners

LEMMA TransferMoves ==
    ASSUME FlowTypeOK, NEW k \in Key, NEW r \in Minted, NEW b \in Client,
           TransferAndRelease(k, r, b)
    PROVE  /\ Moves(k) /\ ~Did(k) /\ Did(k)' /\ IsHeld(r) /\ ~IsHeld(r)'
           /\ receipt'[r].owner = b /\ Minted' = Minted
           /\ \A s \in Minted \ {r} : receipt'[s].owner = receipt[s].owner
<1> DEFINE row == [receipt[r] EXCEPT !.owner = b, !.status = "ACTIVE",
                                     !.approval = "APPROVED"]
<1>1. receipt[r] \in Row
  BY RowTyped DEF FlowTypeOK, LedgerTypeOK
<1>2. /\ row \in Row /\ row.quantity = receipt[r].quantity /\ row.parent = receipt[r].parent
      /\ row.root = receipt[r].root /\ row.status = "ACTIVE" /\ row.owner = b
      /\ row.sourceTxn = receipt[r].sourceTxn /\ row.sourceEvent = receipt[r].sourceEvent
      /\ row.approval = "APPROVED"
  BY <1>1 DEF Row, Approval, Status
<1>3. /\ Moves(k) /\ ~Did(k) /\ Did(k)' /\ receipt'[r] = row /\ Minted' = Minted
      /\ \A s \in Minted \ {r} : receipt'[s] = receipt[s]
  <2>1. /\ IsHeld(r) /\ Record(k, "TRANSFERRED_AND_RELEASED", r, receipt[r].quantity)
        /\ Update(r, row) /\ "TRANSFERRED_AND_RELEASED" \in EventType
    BY DEF TransferAndRelease, EventType
  <2> HIDE DEF row
  <2> QED
    BY <1>2, <2>1, RewriteMoves
<1> QED
  BY <1>2, <1>3 DEF TransferAndRelease, IsHeld, HeldStatus

-----------------------------------------------------------------------------
(* What goes on being true.                                                *)

(* A call of a loan or of a trade judges no deposit.                       *)
LEMMA VerdictsKept ==
    ASSUME CustodyInv, NEW k, Moves(k), \A r \in Receipt : k \notin JudgeKeys(r)
    PROVE  /\ \A r \in Receipt : VerdictSays(r)'
           /\ \A r \in Minted' : RootSays(r)'
<1>1. \A r \in Receipt : /\ JudgeKeys(r) \subseteq Key
                         /\ Did(D!ApproveKey(r))' <=> event[D!ApproveKey(r)] # NoEvent
                         /\ Did(D!RejectKey(r))' <=> event[D!RejectKey(r)] # NoEvent
  <2> SUFFICES ASSUME NEW r \in Receipt
               PROVE  /\ JudgeKeys(r) \subseteq Key
                      /\ \A j \in JudgeKeys(r) : Did(j)' <=> event[j] # NoEvent
    BY DEF JudgeKeys
  <2> QED
    BY KeysKnown DEF Moves, Calm, Did
<1>2. /\ Minted \subseteq Receipt /\ \A r \in Receipt : r \in Minted => receipt[r] \in Row
      /\ \A r \in Receipt : r \notin Minted => receipt[r] = NoRow
      /\ Minted' \subseteq Receipt
      /\ \A r \in Receipt : r \notin Minted' => receipt'[r] = NoRow
  <2>1. TableTypeOK /\ TableTypeOK'
    BY DEF CustodyInv, FlowTypeOK, LedgerTypeOK, Moves, Calm
  <2>2. Minted' \subseteq Receipt /\ \A r \in Receipt : r \notin Minted' => receipt'[r] = NoRow
    BY <2>1, BoundsAssumption DEF TableTypeOK, Minted, Receipt
  <2> QED
    BY <2>1, <2>2, RowTyped
<1>3. NoRow.status \notin Unjudged
  BY DEF NoRow, Unjudged
<1>4. ASSUME NEW r \in Receipt
      PROVE  VerdictSays(r)'
  <2>1. VerdictSays(r)
    BY DEF CustodyInv
  <2>2. r \in Minted => r \in Minted'
    BY DEF Moves, Calm
  <2>3. receipt'[r].status \in Unjudged \/ receipt[r].status \in Unjudged
            => receipt'[r].status = receipt[r].status
    <3>1. CASE r \in Minted
      BY <3>1 DEF Moves
    <3>2. CASE r \in Minted' \ Minted
      BY <1>2, <1>3, <3>2 DEF Moves
    <3>3. CASE r \notin Minted'
      BY <1>2, <2>2, <3>3
    <3> QED
      BY <3>1, <3>2, <3>3
  <2> QED
    BY <1>1, <2>1, <2>2, <2>3 DEF VerdictSays, Did, Unjudged
<1>5. ASSUME NEW r \in Minted'
      PROVE  RootSays(r)'
  <2>0. \A s \in Minted, x \in Receipt :
            receipt[s].status \notin Unjudged /\ receipt[s].root = x => Did(D!ApproveKey(x))'
    <3> SUFFICES ASSUME NEW s \in Minted, NEW x \in Receipt, receipt[s].root = x,
                        receipt[s].status \notin Unjudged
                 PROVE  Did(D!ApproveKey(x))'
      OBVIOUS
    <3>1. RootSays(s)
      BY DEF CustodyInv
    <3> QED
      BY <1>1, <3>1 DEF RootSays, Did
  <2>1. \A s \in Minted : receipt[s].root \in Receipt
    BY <1>2 DEF Row
  <2>2. CASE r \in Minted
    <3>1. /\ receipt'[r].parent = receipt[r].parent /\ receipt'[r].root = receipt[r].root
          /\ receipt'[r].status \in Unjudged \/ receipt[r].status \in Unjudged
                => receipt'[r].status = receipt[r].status
      BY <2>2 DEF Moves, Calm
    <3>2. RootSays(r)
      BY <2>2 DEF CustodyInv
    <3>3. PICK x \in Receipt : x = receipt[r].root
      BY <2>1, <2>2
    <3>4. receipt[r].status \notin Unjudged => Did(D!ApproveKey(x))'
      BY <2>0, <2>2, <3>3
    <3> QED
      BY <3>1, <3>2, <3>3, <3>4 DEF RootSays, Did
  <2>3. CASE r \in Minted' \ Minted
    <3>1. /\ receipt'[r].status \notin Unjudged
          /\ \E s \in Minted : /\ receipt[s].status \notin Unjudged
                               /\ receipt'[r].root = receipt[s].root
      BY <2>3 DEF Moves
    <3>2. PICK x \in Receipt : receipt'[r].root = x /\ Did(D!ApproveKey(x))'
      BY <2>0, <2>1, <3>1
    <3> QED
      BY <3>1, <3>2 DEF RootSays, Did
  <2> QED
    BY <2>2, <2>3
<1> QED
  BY <1>4, <1>5

(* What is known of receipt r.                                             *)
LEMMA LooseStays ==
    ASSUME Calm, NEW r \in Minted
    PROVE  /\ r \in Minted'
           /\ ~IsHeld(r) => ~IsHeld(r)' /\ receipt'[r].owner = receipt[r].owner
           /\ receipt'[r].parent = receipt[r].parent
  BY DEF Calm

(* A loan whose row is left alone says what it said, unless its collateral *)
(* is released meanwhile.                                                  *)
LEMMA LoanKept ==
    ASSUME CustodyInv, Calm, NEW l \in Loan, loan'[l] = loan[l],
           Did(L!ReleaseKey(l))' => Did(L!ReleaseKey(l)),
           Did(L!RepayKey(l))' => Did(L!RepayKey(l))
    PROVE  LoanSays(l)' /\ loan'[l] \in (L!LoanRow \cup {L!NoLoan})'
<1>1. loan[l] \in L!LoanRow \cup {L!NoLoan} /\ LoanSays(l) /\ Minted \subseteq Minted'
  BY DEF CustodyInv, FlowTypeOK, Calm
<1>2. loan'[l] \in (L!LoanRow \cup {L!NoLoan})'
  BY <1>1 DEF L!LoanRow, L!NoLoan, L!Minted, Minted
<1>3. \A k \in LoanKeys(l) : Did(k) => Did(k)'
  BY KeysKnown DEF Calm
<1>4. HasLoan(l) => (~IsHeld(loan[l].receiptId) => ~IsHeld(loan[l].receiptId)')
  <2>1. HasLoan(l) => loan[l].receiptId \in Minted
    BY <1>1 DEF HasLoan, L!LoanRow, L!Minted, Minted
  <2> QED
    BY <2>1, LooseStays
<1>5. LoanSays(l)'
  BY <1>1, <1>3, <1>4 DEF LoanSays, LoanKeys, HasLoan, Did, IsHeld
<1> QED
  BY <1>2, <1>5

LEMMA TradeKept ==
    ASSUME CustodyInv, Calm, NEW t \in Trade, trade'[t] = trade[t],
           Did(T!TransferKey(t))' => Did(T!TransferKey(t)),
           Did(T!CancelKey(t))' => Did(T!CancelKey(t))
    PROVE  TradeSays(t)' /\ trade'[t] \in (T!TradeRow \cup {T!NoTrade})'
<1>1. trade[t] \in T!TradeRow \cup {T!NoTrade} /\ TradeSays(t) /\ Minted \subseteq Minted'
  BY DEF CustodyInv, FlowTypeOK, Calm
<1>2. trade'[t] \in (T!TradeRow \cup {T!NoTrade})'
  BY <1>1 DEF T!TradeRow, T!NoTrade, T!Minted, Minted
<1>3. \A k \in TradeKeys(t) : Did(k) => Did(k)'
  BY KeysKnown DEF Calm
<1>4. HasTrade(t) =>
         (~IsHeld(trade[t].receiptId) =>
             /\ ~IsHeld(trade[t].receiptId)'
             /\ receipt'[trade[t].receiptId].owner = receipt[trade[t].receiptId].owner)
  <2>1. HasTrade(t) => trade[t].receiptId \in Minted
    BY <1>1 DEF HasTrade, T!TradeRow, T!Minted, Minted
  <2> QED
    BY <2>1, LooseStays
<1>5. TradeSays(t)'
  BY <1>1, <1>3, <1>4 DEF TradeSays, TradeKeys, HasTrade, Did, IsHeld
<1> QED
  BY <1>2, <1>5

(* Rows stay.                                                              *)
RowsStay ==
    /\ \A l \in Loan : HasLoan(l) => HasLoan(l)'
    /\ \A t \in Trade : HasTrade(t) => HasTrade(t)'

(* Which operation a handler is at tells what it remembers.                *)
LEMMA KindOf ==
    ASSUME NEW s \in CallState
    PROVE  /\ s.op = "createLoan" /\ s.step = "hold" => s \in PickLoan
           /\ s.op = "createLoan" /\ s.step = "insert" => s \in BornLoan
           /\ s.op \in {"approveLoan", "rejectLoan", "repayLoan"} => s \in DecideLoan
           /\ s.op = "editLoan" => s \in EditLoan
           /\ s.op = "createTrade" /\ s.step = "hold" => s \in PickTrade
           /\ s.op = "createTrade" /\ s.step = "insert" => s \in BornTrade
           /\ s.op = "settleTrade" => s \in SettleTrade
           /\ s.op = "cancelTrade" => s \in CancelTrade
           /\ s.op = "editDeposit" => s \in EditDeposit
  BY DEF CallState, PickLoan, BornLoan, DecideLoan, EditLoan, PickTrade, BornTrade,
         SettleTrade, CancelTrade, EditDeposit, Idle

(* A handler goes on knowing what it knew, unless somebody inserts the row *)
(* it was about to.                                                        *)
LEMMA CallKept ==
    ASSUME Calm, RowsStay, NEW s \in CallState, CallSays(s),
           s.op = "createLoan" /\ s.step = "insert" => ~HasLoan(s.l)',
           s.op = "createTrade" /\ s.step = "insert" => ~HasTrade(s.t)'
    PROVE  CallSays(s)' /\ s \in CallState'
<1>1. Minted \subseteq Minted'
  BY DEF Calm
<1>2. s \in CallState'
  <2>1. L!Minted \subseteq L!Minted' /\ L!Minted = Minted /\ L!Minted' = Minted'
    BY <1>1 DEF L!Minted, Minted
  <2> QED
    BY <1>1, <2>1 DEF CallState, PickLoan, BornLoan, DecideLoan, EditLoan, PickTrade,
                      BornTrade, SettleTrade, CancelTrade, EditDeposit, L!LoanRow, L!Terms
<1>3. \A l \in Loan : /\ \A k \in LoanKeys(l) : Did(k) => Did(k)'
                      /\ HasLoan(l) => HasLoan(l)'
  BY KeysKnown DEF Calm, RowsStay
<1>4. \A t \in Trade : /\ \A k \in TradeKeys(t) : Did(k) => Did(k)'
                       /\ HasTrade(t) => HasTrade(t)'
  BY KeysKnown DEF Calm, RowsStay
<1>5. s.op = "createLoan" /\ s.step = "insert" => (Did(L!HoldKey(s.l)) /\ ~HasLoan(s.l))'
  <2> SUFFICES ASSUME s.op = "createLoan", s.step = "insert"
               PROVE  Did(L!HoldKey(s.l))'
    BY DEF HasLoan
  <2>1. s.l \in Loan
    BY KindOf DEF BornLoan
  <2> QED
    BY <1>3, <2>1 DEF CallSays, LoanKeys
<1>6. s.op = "createTrade" /\ s.step = "insert" => (Did(T!HoldKey(s.t)) /\ ~HasTrade(s.t))'
  <2> SUFFICES ASSUME s.op = "createTrade", s.step = "insert"
               PROVE  Did(T!HoldKey(s.t))'
    BY DEF HasTrade
  <2>1. s.t \in Trade
    BY KindOf DEF BornTrade
  <2> QED
    BY <1>4, <2>1 DEF CallSays, TradeKeys
<1>7. s.op \in {"approveLoan", "rejectLoan", "repayLoan", "editLoan"} =>
         /\ HasLoan(s.l)'
         /\ Did(L!ApproveKey(s.l)) => Did(L!ApproveKey(s.l))'
         /\ Did(L!ReleaseKey(s.l)) => Did(L!ReleaseKey(s.l))'
         /\ Did(L!RepayKey(s.l)) => Did(L!RepayKey(s.l))'
  <2>1. s.op \in {"approveLoan", "rejectLoan", "repayLoan", "editLoan"} =>
           s.l \in Loan /\ HasLoan(s.l)
    BY KindOf DEF DecideLoan, EditLoan, CallSays
  <2> QED
    BY <1>3, <2>1 DEF LoanKeys
<1>8. s.op \in {"settleTrade", "cancelTrade"} =>
         /\ HasTrade(s.t)'
         /\ Did(T!CancelKey(s.t)) => Did(T!CancelKey(s.t))'
  <2>1. s.op \in {"settleTrade", "cancelTrade"} => s.t \in Trade /\ HasTrade(s.t)
    BY KindOf DEF SettleTrade, CancelTrade, CallSays
  <2> QED
    BY <1>4, <2>1 DEF TradeKeys
<1>9. s.op = "editDeposit" => receipt'[s.r].parent = receipt[s.r].parent
  BY KindOf, LooseStays DEF EditDeposit
<1>10. CallSays(s)'
  BY <1>5, <1>6, <1>7, <1>8, <1>9 DEF CallSays, Did, HasLoan, HasTrade
<1> QED
  BY <1>2, <1>10

-----------------------------------------------------------------------------
(* A step of one handler.                                                  *)

(* A row that is new was inserted by the handler that was about to.        *)
Fresh(c) ==
    /\ \A l \in Loan : HasLoan(l)' /\ ~HasLoan(l) =>
          call[c].op = "createLoan" /\ call[c].step = "insert" /\ call[c].l = l
    /\ \A t \in Trade : HasTrade(t)' /\ ~HasTrade(t) =>
          call[c].op = "createTrade" /\ call[c].step = "insert" /\ call[c].t = t

(* Only roots are corrected: what CorrectsRootsOnly says of a step.        *)
Corrects ==
    \A r \in Minted :
        receipt'[r].quantity # receipt[r].quantity => receipt[r].parent = NoReceipt

(* The invariant, service by service.                                      *)
Deposited == (\A r \in Receipt : VerdictSays(r)) /\ (\A r \in Minted : RootSays(r))

Lent ==
    /\ loan \in [Loan -> L!LoanRow \cup {L!NoLoan}]
    /\ \A l \in Loan : LoanSays(l)

Traded ==
    /\ trade \in [Trade -> T!TradeRow \cup {T!NoTrade}]
    /\ told \subseteq Trade \X Client
    /\ \A t \in Trade : TradeSays(t)

(* It keeps the invariant if its new state is true of what it did.         *)
LEMMA StepKeeps ==
    ASSUME CustodyInv, Calm, Corrects, RowsStay, Deposited', Lent', Traded',
           NEW c \in Call, NEW state, call' = [call EXCEPT ![c] = state], Fresh(c),
           state \in CallState', CallSays(state)',
           \A d \in Call \ {c} : Inserting(state) /\ Inserting(call[d]) =>
                                    Apart(state, call[d])
    PROVE  CustodyInv' /\ Corrects
<1>1. /\ call \in [Call -> CallState] /\ call'[c] = state
      /\ \A d \in Call \ {c} : call'[d] = call[d]
  BY DEF CustodyInv, FlowTypeOK
<1>2. ASSUME NEW d \in Call \ {c}
      PROVE  CallSays(call[d])' /\ call'[d] \in CallState'
  <2>1. PICK s \in CallState : s = call[d]
    BY <1>1
  <2>2. CallSays(s)
    BY <2>1 DEF CustodyInv
  <2>3. Inserting(call[c]) /\ Inserting(s) => Apart(call[c], s)
    BY <2>1 DEF CustodyInv
  <2>4. s.op = "createLoan" /\ s.step = "insert" => s.l \in Loan /\ ~HasLoan(s.l)
    BY <2>2, KindOf DEF BornLoan, CallSays
  <2>5. s.op = "createTrade" /\ s.step = "insert" => s.t \in Trade /\ ~HasTrade(s.t)
    BY <2>2, KindOf DEF BornTrade, CallSays
  <2>6. /\ s.op = "createLoan" /\ s.step = "insert" => ~HasLoan(s.l)'
        /\ s.op = "createTrade" /\ s.step = "insert" => ~HasTrade(s.t)'
    BY <2>3, <2>4, <2>5 DEF Fresh, Inserting, Apart
  <2>7. CallSays(s)' /\ s \in CallState'
    BY <2>2, <2>6, CallKept
  <2> QED
    BY <1>1, <2>1, <2>7 DEF CallSays
<1>3. CallSays(call[c])' /\ call'[c] \in CallState'
  BY <1>1 DEF CallSays
<1>4. call' \in [Call -> CallState']
  BY <1>1, <1>2, <1>3
<1>5. ASSUME NEW d \in Call, NEW e \in Call, d # e, Inserting(call'[d]), Inserting(call'[e])
      PROVE  Apart(call'[d], call'[e])
  <2>1. CASE d # c /\ e # c
    BY <1>1, <1>5, <2>1 DEF CustodyInv
  <2>2. CASE d = c
    BY <1>1, <1>5, <2>2
  <2>3. CASE e = c
    <3>1. Apart(state, call[d])
      BY <1>1, <1>5, <2>3
    <3> QED
      BY <1>1, <1>5, <2>3, <3>1 DEF Apart
  <2> QED
    BY <2>1, <2>2, <2>3
<1>6. LedgerTypeOK'
  BY DEF Calm, LedgerTypeOK
<1>7. FlowTypeOK'
  BY <1>4, <1>6 DEF FlowTypeOK, Lent, Traded
<1>8. \A d \in Call : CallSays(call[d])'
  BY <1>2, <1>3
<1>9. \A d, e \in Call :
         d # e /\ Inserting(call'[d]) /\ Inserting(call'[e]) => Apart(call'[d], call'[e])
  BY <1>5
<1> QED
  BY <1>7, <1>8, <1>9 DEF CustodyInv, Deposited, Lent, Traded, Inserting, Apart

(* Without a ledger call and without an update, everything is as it was.   *)
LEMMA NothingDone ==
    ASSUME CustodyInv, UNCHANGED <<ledgerVars, loan, trade>>
    PROVE  /\ Calm /\ Corrects /\ RowsStay /\ Deposited' /\ Lent' /\ \A c : Fresh(c)
           /\ told' \subseteq Trade \X Client => Traded'
<1>1. \A k : Moves(k)
  BY StillMoves DEF CustodyInv
<1>2. Calm /\ Corrects
  BY <1>1 DEF Moves, Corrects
<1>3. \A r \in Receipt : None \notin JudgeKeys(r)
  BY KeysKnown, NoneAssumption
<1>4. Deposited'
  BY <1>1, <1>3, VerdictsKept DEF Deposited
<1>5. \A k : Did(k)' => Did(k)
  BY DEF Did, ledgerVars
<1>6. \A l \in Loan : LoanSays(l)' /\ loan'[l] \in (L!LoanRow \cup {L!NoLoan})'
  BY <1>2, <1>5, LoanKept
<1>7. \A t \in Trade : TradeSays(t)' /\ trade'[t] \in (T!TradeRow \cup {T!NoTrade})'
  BY <1>2, <1>5, TradeKept
<1>8. /\ loan' \in [Loan -> (L!LoanRow \cup {L!NoLoan})']
      /\ trade' \in [Trade -> (T!TradeRow \cup {T!NoTrade})']
  BY <1>6, <1>7 DEF CustodyInv, FlowTypeOK
<1>9. RowsStay /\ \A c : Fresh(c)
  BY DEF RowsStay, Fresh, HasLoan, HasTrade
<1> QED
  BY <1>2, <1>4, <1>6, <1>7, <1>8, <1>9 DEF Lent, Traded

(* A step that only reads: its new state must be true of what it has read. *)
LEMMA ReadingKeeps ==
    ASSUME CustodyInv, UNCHANGED <<ledgerVars, loan, trade, told>>, NEW c \in Call, NEW state,
           call' = [call EXCEPT ![c] = state], state \in CallState, CallSays(state),
           ~Inserting(state)
    PROVE  CustodyInv' /\ Corrects
<1>1. Calm /\ Corrects /\ RowsStay /\ Deposited' /\ Lent' /\ Traded' /\ Fresh(c)
  BY NothingDone DEF CustodyInv, FlowTypeOK
<1>2. CallSays(state)' /\ state \in CallState'
  BY <1>1, CallKept DEF Inserting
<1> QED
  BY <1>1, <1>2, StepKeeps

(* A handler that is idle knows nothing.                                   *)
LEMMA IdleKnows == Idle \in CallState /\ CallSays(Idle) /\ ~Inserting(Idle)
  BY DEF CallState, CallSays, Inserting, Idle

LEMMA AbortKeeps ==
    ASSUME CustodyInv, NEW c \in Call,
           \/ D!Abort(c) /\ UNCHANGED <<loan, trade, told>>
           \/ L!Abort(c) /\ UNCHANGED <<trade, told>>
           \/ T!Abort(c) /\ UNCHANGED loan
    PROVE  CustodyInv' /\ Corrects
<1>1. /\ call' = [call EXCEPT ![c] = Idle]
      /\ UNCHANGED <<ledgerVars, loan, trade, told>>
  BY DEF D!Abort, D!Abandon, D!Return, D!Idle, D!ledgerVars,
         L!Abort, L!Abandon, L!Return, L!Idle, L!Reading, L!ledgerVars,
         T!Abort, T!Abandon, T!Return, T!Idle, T!Reading, T!ledgerVars, ledgerVars, Idle
<1> QED
  BY <1>1, IdleKnows, ReadingKeeps

(* createLoan and createTrade look up a receipt.                           *)
LEMMA CreateLoadKeeps ==
    ASSUME CustodyInv, NEW c \in Call, NEW r \in Minted,
           \/ \E terms \in L!Terms : L!CreateLoad(c, r, terms) /\ UNCHANGED <<trade, told>>
           \/ T!CreateLoad(c, r) /\ UNCHANGED loan
    PROVE  CustodyInv' /\ Corrects
<1>1. receipt[r].owner \in Client /\ receipt[r].quantity \in Nat
  BY RowTyped DEF CustodyInv, FlowTypeOK, LedgerTypeOK, Row
<1>2. PICK state \in PickLoan \cup PickTrade :
          /\ call' = [call EXCEPT ![c] = state]
          /\ UNCHANGED <<ledgerVars, loan, trade, told>>
  <2>1. CASE \E terms \in L!Terms : L!CreateLoad(c, r, terms) /\ UNCHANGED <<trade, told>>
    <3>1. PICK terms \in L!Terms : L!CreateLoad(c, r, terms) /\ UNCHANGED <<trade, told>>
      BY <2>1
    <3>2. [op |-> "createLoan", step |-> "hold", r |-> r,
           quantity |-> receipt[r].quantity, terms |-> terms] \in PickLoan
      BY <1>1 DEF PickLoan
    <3> QED
      BY <3>1, <3>2 DEF L!CreateLoad, L!Begin, L!Reading, L!ledgerVars, ledgerVars
  <2>2. CASE T!CreateLoad(c, r) /\ UNCHANGED loan
    <3>1. [op |-> "createTrade", step |-> "hold", r |-> r,
           quantity |-> receipt[r].quantity, seller |-> receipt[r].owner] \in PickTrade
      BY <1>1 DEF PickTrade
    <3> QED
      BY <2>2, <3>1 DEF T!CreateLoad, T!Begin, T!Reading, T!ledgerVars, ledgerVars
  <2> QED
    BY <2>1, <2>2
<1>3. state \in CallState /\ CallSays(state) /\ ~Inserting(state)
  BY DEF CallState, PickLoan, PickTrade, CallSays, Inserting
<1> QED
  BY <1>2, <1>3, ReadingKeeps

(* approveLoan, rejectLoan, repayLoan and editLoan load a loan.            *)
LEMMA LoanLoadKeeps ==
    ASSUME CustodyInv, NEW c \in Call, NEW l \in Loan,
           \/ L!ApproveLoad(c, l) \/ L!RejectLoad(c, l) \/ L!RepayLoad(c, l)
           \/ \E terms \in L!Terms : L!EditLoad(c, l, terms),
           UNCHANGED <<trade, told>>
    PROVE  CustodyInv' /\ Corrects
<1>1. loan[l] \in L!LoanRow \cup {L!NoLoan} /\ LoanSays(l)
  BY DEF CustodyInv, FlowTypeOK
<1>2. PICK state \in DecideLoan \cup EditLoan :
          /\ call' = [call EXCEPT ![c] = state]
          /\ UNCHANGED <<ledgerVars, loan, trade, told>>
          /\ state.step = "update" => state.op = "editLoan"
          /\ loan[l].status \in {"PENDING", "ACTIVE"}
          /\ state.op = "repayLoan" => loan[l].status = "ACTIVE"
          /\ state.l = l
  <2>1. CASE L!ApproveLoad(c, l) \/ L!RejectLoad(c, l) \/ L!RepayLoad(c, l)
    <3>1. \A op \in {"approveLoan", "rejectLoan", "repayLoan"},
             step \in {"approveHold", "release"} :
             [op |-> op, step |-> step, l |-> l] \in DecideLoan
      BY DEF DecideLoan
    <3> QED
      BY <2>1, <3>1 DEF L!ApproveLoad, L!RejectLoad, L!RepayLoad, L!Load, L!Begin,
                        L!Reading, L!ledgerVars, ledgerVars
  <2>2. CASE \E terms \in L!Terms : L!EditLoad(c, l, terms)
    <3>1. PICK terms \in L!Terms : L!EditLoad(c, l, terms)
      BY <2>2
    <3>2. loan[l] \in L!LoanRow /\ loan[l].status = "PENDING"
      BY <1>1, <3>1 DEF L!EditLoad, L!NoLoan
    <3> DEFINE edit == [op |-> "editLoan", step |-> "update", l |-> l, terms |-> terms,
                        seen |-> loan[l]]
    <3>3. edit \in EditLoan /\ edit.op = "editLoan" /\ edit.l = l
      BY <3>2 DEF EditLoan
    <3>4. /\ call' = [call EXCEPT ![c] = edit]
          /\ UNCHANGED <<ledgerVars, loan, trade, told>>
      BY <3>1 DEF L!EditLoad, L!Begin, L!Reading, L!ledgerVars, ledgerVars
    <3> HIDE DEF edit
    <3> QED
      BY <3>2, <3>3, <3>4
  <2> QED
    BY <2>1, <2>2
<1>3. HasLoan(l) /\ (loan[l].status = "ACTIVE" => Did(L!ApproveKey(l)))
  BY <1>1, <1>2 DEF HasLoan, L!NoLoan, LoanSays
<1>4. state \in CallState /\ CallSays(state) /\ ~Inserting(state)
  BY <1>2, <1>3 DEF CallState, DecideLoan, EditLoan, CallSays, Inserting
<1> QED
  BY <1>2, <1>4, ReadingKeeps

(* settleTrade and cancelTrade load a listing.                             *)
LEMMA TradeLoadKeeps ==
    ASSUME CustodyInv, NEW c \in Call, NEW t \in Trade,
           T!CancelLoad(c, t) \/ \E b \in Client : T!SettleLoad(c, t, b),
           UNCHANGED loan
    PROVE  CustodyInv' /\ Corrects
<1>1. PICK state \in SettleTrade \cup CancelTrade :
          /\ call' = [call EXCEPT ![c] = state]
          /\ UNCHANGED <<ledgerVars, loan, trade, told>>
          /\ state.t = t /\ state.step # "update"
          /\ trade[t].status = "LISTED"
  <2>1. /\ [op |-> "cancelTrade", step |-> "release", t |-> t] \in CancelTrade
        /\ \A b \in Client :
              [op |-> "settleTrade", step |-> "transfer", t |-> t, buyer |-> b] \in SettleTrade
    BY DEF CancelTrade, SettleTrade
  <2> QED
    BY <2>1 DEF T!CancelLoad, T!SettleLoad, T!Begin, T!Reading, T!ledgerVars, ledgerVars
<1>2. HasTrade(t)
  BY <1>1 DEF HasTrade, T!NoTrade
<1>3. state \in CallState /\ CallSays(state) /\ ~Inserting(state)
  BY <1>1, <1>2 DEF CallState, SettleTrade, CancelTrade, CallSays, Inserting
<1> QED
  BY <1>1, <1>3, ReadingKeeps

(* editDeposit and editDepositAsAdmin load a deposit that awaits approval: *)
(* a root.                                                                 *)
LEMMA EditLoadKeeps ==
    ASSUME CustodyInv, NEW c \in Call, NEW r \in Minted, NEW n \in D!Quantity,
           D!EditLoad(c, r, n), UNCHANGED <<loan, trade, told>>
    PROVE  CustodyInv' /\ Corrects
<1> DEFINE state == [op |-> "editDeposit", step |-> "update", r |-> r, quantity |-> n]
<1>1. state \in EditDeposit
  BY DEF EditDeposit
<1>2. /\ call' = [call EXCEPT ![c] = state] /\ UNCHANGED <<ledgerVars, loan, trade, told>>
      /\ receipt[r].status = "PENDING_APPROVAL"
  BY DEF D!EditLoad, D!Begin, D!ledgerVars, ledgerVars
<1>3. receipt[r].parent = NoReceipt
  BY <1>2 DEF CustodyInv, RootSays, Unjudged
<1>4. state.op = "editDeposit" /\ state.r = r
  OBVIOUS
<1> HIDE DEF state
<1>5. state \in CallState /\ CallSays(state) /\ ~Inserting(state)
  BY <1>1, <1>3, <1>4 DEF CallState, CallSays, Inserting
<1> QED
  BY <1>2, <1>5, ReadingKeeps

-----------------------------------------------------------------------------
(* Loans.                                                                  *)

(* The ledger calls of the loans are the ledger's.                         *)
LEMMA LoansOverLedger ==
    ASSUME NEW k, NEW r
    PROVE  /\ \A q, s, t : L!Hold(k, r, q, s, t) => Hold(k, r, q, s, t)
           /\ L!ApproveHold(k, r) => ApproveHold(k, r)
           /\ L!Release(k, r) => Release(k, r)
           /\ L!Replay(k) => UNCHANGED ledgerVars /\ Did(k)
           /\ \A n : L!Exactly(n) = Exactly(n)
           /\ L!Receipt = Receipt /\ L!Minted = Minted
<1>1. \A q, s, t : L!Hold(k, r, q, s, t) => Hold(k, r, q, s, t)
  BY DEF L!Hold, L!Record, L!NoEvent, L!NoReceipt, L!Partition, L!Split, L!ChildOf,
         L!Stored, L!Exactly, L!Receipt, Hold, Record, NoEvent, NoReceipt, Partition, Split,
         ChildOf, Stored, Exactly, Receipt
<1>2. L!ApproveHold(k, r) => ApproveHold(k, r)
  BY DEF L!ApproveHold, L!Record, L!NoEvent, L!NoReceipt, L!Update, L!IsHeld, L!HeldStatus,
         ApproveHold, Record, NoEvent, NoReceipt, Update, IsHeld, HeldStatus
<1>3. L!Release(k, r) => Release(k, r)
  BY DEF L!Release, L!Record, L!NoEvent, L!NoReceipt, L!Update, L!IsHeld, L!HeldStatus,
         Release, Record, NoEvent, NoReceipt, Update, IsHeld, HeldStatus
<1>4. L!Replay(k) => UNCHANGED ledgerVars /\ Did(k)
  BY DEF L!Replay, L!NoEvent, L!NoReceipt, L!ledgerVars, ledgerVars, Did, NoEvent, NoReceipt
<1>5. (\A n : L!Exactly(n) = Exactly(n)) /\ L!Receipt = Receipt /\ L!Minted = Minted
  BY DEF L!Exactly, Exactly, L!Receipt, Receipt, L!Minted, Minted
<1> QED
  BY <1>1, <1>2, <1>3, <1>4, <1>5

(* A step of a handler that concerns loan l.                               *)
LEMMA LoanStepKeeps ==
    ASSUME CustodyInv, UNCHANGED <<trade, told>>, NEW l \in Loan,
           NEW k \in LoanKeys(l) \cup {None}, Moves(k),
           loan' = [loan EXCEPT ![l] = loan'[l]],
           loan'[l] \in (L!LoanRow \cup {L!NoLoan})', LoanSays(l)',
           HasLoan(l) => HasLoan(l)',
           NEW c \in Call, NEW state, call' = [call EXCEPT ![c] = state],
           state \in CallState', CallSays(state)',
           HasLoan(l)' /\ ~HasLoan(l) =>
               call[c].op = "createLoan" /\ call[c].step = "insert" /\ call[c].l = l,
           \A d \in Call \ {c} : Inserting(state) /\ Inserting(call[d]) =>
                                    Apart(state, call[d])
    PROVE  CustodyInv' /\ Corrects
<1>1. Calm /\ Corrects
  BY DEF Moves, Corrects
<1>2. /\ \A r \in Receipt : k \notin JudgeKeys(r)
      /\ \A t \in Trade : k \notin TradeKeys(t)
      /\ \A m \in Loan \ {l} : k \notin LoanKeys(m)
  BY KeysApart, KeysKnown, NoneAssumption
<1>3. Deposited'
  BY <1>2, VerdictsKept DEF Deposited
<1>4. \A m \in Loan \ {l} : loan'[m] = loan[m]
  BY DEF CustodyInv, FlowTypeOK
<1>5. \A m \in Loan \ {l} : LoanSays(m)' /\ loan'[m] \in (L!LoanRow \cup {L!NoLoan})'
  <2> SUFFICES ASSUME NEW m \in Loan \ {l}
               PROVE  LoanSays(m)' /\ loan'[m] \in (L!LoanRow \cup {L!NoLoan})'
    OBVIOUS
  <2>1. \A j \in LoanKeys(m) : Did(j)' => Did(j)
    BY <1>2, KeysKnown DEF Moves
  <2>2. /\ Did(L!ReleaseKey(m))' => Did(L!ReleaseKey(m))
        /\ Did(L!RepayKey(m))' => Did(L!RepayKey(m))
    BY <2>1 DEF LoanKeys
  <2> QED
    BY <1>1, <1>4, <2>2, LoanKept
<1>6. \A t \in Trade : TradeSays(t)' /\ trade'[t] \in (T!TradeRow \cup {T!NoTrade})'
  <2> SUFFICES ASSUME NEW t \in Trade
               PROVE  TradeSays(t)' /\ trade'[t] \in (T!TradeRow \cup {T!NoTrade})'
    OBVIOUS
  <2>1. \A j \in TradeKeys(t) : Did(j)' => Did(j)
    BY <1>2, KeysKnown DEF Moves
  <2>2. /\ Did(T!TransferKey(t))' => Did(T!TransferKey(t))
        /\ Did(T!CancelKey(t))' => Did(T!CancelKey(t))
    BY <2>1 DEF TradeKeys
  <2> QED
    BY <1>1, <2>2, TradeKept
<1>7. loan' \in [Loan -> (L!LoanRow \cup {L!NoLoan})']
  BY <1>5 DEF CustodyInv, FlowTypeOK
<1>8. trade' \in [Trade -> (T!TradeRow \cup {T!NoTrade})'] /\ told' \subseteq Trade \X Client
  BY <1>6 DEF CustodyInv, FlowTypeOK
<1>9. Lent' /\ Traded'
  BY <1>5, <1>6, <1>7, <1>8 DEF Lent, Traded
<1>10. RowsStay /\ Fresh(c)
  BY <1>4 DEF RowsStay, Fresh, HasLoan, HasTrade
<1> QED
  BY <1>1, <1>3, <1>9, <1>10, StepKeeps

(* A handler that moves on after a ledger call for loan l.                 *)
LEMMA LoanCallKeeps ==
    ASSUME CustodyInv, UNCHANGED <<loan, trade, told>>, NEW l \in Loan,
           NEW k \in LoanKeys(l), Moves(k), LoanSays(l)',
           NEW c \in Call, NEW state, call' = [call EXCEPT ![c] = state],
           state \in CallState', CallSays(state)',
           \A d \in Call \ {c} : Inserting(state) /\ Inserting(call[d]) =>
                                    Apart(state, call[d])
    PROVE  CustodyInv' /\ Corrects
<1>1. loan \in [Loan -> L!LoanRow \cup {L!NoLoan}] /\ Minted \subseteq Minted'
  BY DEF CustodyInv, FlowTypeOK, Moves, Calm
<1>2. loan' = [loan EXCEPT ![l] = loan'[l]] /\ (HasLoan(l)' <=> loan[l] # L!NoLoan)
  BY <1>1 DEF HasLoan
<1>3. loan'[l] \in (L!LoanRow \cup {L!NoLoan})'
  BY <1>1 DEF L!LoanRow, L!NoLoan, L!Minted, Minted
<1> QED
  BY <1>2, <1>3, LoanStepKeeps DEF HasLoan

(* createLoan holds the receipt under a loan id of its own.                *)
LEMMA LoanHoldKeeps ==
    ASSUME CustodyInv, NEW c \in Call, NEW l \in Loan, L!CreateHold(c, l),
           UNCHANGED <<trade, told>>
    PROVE  CustodyInv' /\ Corrects
<1> DEFINE k == L!HoldKey(l)
<1>1. call[c] \in PickLoan /\ FlowTypeOK
  <2>1. call[c].op = "createLoan" /\ call[c].step = "hold" /\ call[c] \in CallState
    BY DEF L!CreateHold, L!At, CustodyInv, FlowTypeOK
  <2> QED
    BY <2>1, KindOf DEF CustodyInv
<1>2. PICK r \in Minted, n \in Nat, terms \in L!Terms :
          r = call[c].r /\ n = call[c].quantity /\ terms = call[c].terms
  BY <1>1 DEF PickLoan
<1>3. Hold(k, r, Exactly(n), "HELD_LOAN", l)
  BY <1>2, LoansOverLedger DEF L!CreateHold
<1>4. k \in Key /\ k \in LoanKeys(l) /\ l \in Txn /\ "HELD_LOAN" \in HeldStatus
  BY KeysKnown DEF LoanKeys, HeldStatus
<1> HIDE DEF k
<1>5. Moves(k) /\ ~Did(k) /\ Did(k)'
  BY <1>1, <1>3, <1>4, HoldMoves
<1>6. PICK held \in Receipt :
          /\ receipt'[held].sourceEvent = k
          /\ call' = [call EXCEPT ![c] = [op |-> "createLoan", step |-> "insert", l |-> l,
                                          held |-> held, terms |-> terms]]
          /\ UNCHANGED loan
  BY <1>2, LoansOverLedger DEF L!CreateHold, L!Continue, k
<1>7. held \in Minted'
  <2>1. TableTypeOK' /\ None \notin Key
    BY <1>5, NoneAssumption DEF Moves, Calm
  <2>2. held \notin Minted' => receipt'[held] = NoRow
    BY <2>1 DEF TableTypeOK
  <2> QED
    BY <1>4, <1>6, <2>1, <2>2 DEF NoRow
<1> DEFINE state == [op |-> "createLoan", step |-> "insert", l |-> l, held |-> held,
                     terms |-> terms]
<1>8. state \in BornLoan'
  BY <1>7 DEF BornLoan, L!Terms
<1>9. ~HasLoan(l) /\ LoanSays(l)
  BY <1>5 DEF CustodyInv, LoanSays, k
<1>10. LoanSays(l)'
  <2>1. loan'[l] = loan[l] /\ Calm
    BY <1>5, <1>6 DEF Moves
  <2>2. /\ Did(L!ReleaseKey(l))' => Did(L!ReleaseKey(l))
        /\ Did(L!RepayKey(l))' => Did(L!RepayKey(l))
    <3>1. {L!ReleaseKey(l), L!RepayKey(l)} \subseteq Key
      BY KeysKnown DEF LoanKeys
    <3>2. k \notin {L!ReleaseKey(l), L!RepayKey(l)}
      BY KeysApart DEF k
    <3> QED
      BY <1>5, <3>1, <3>2 DEF Moves
  <2> QED
    BY <2>1, <2>2, LoanKept
<1>11. \A d \in Call \ {c} : Inserting(call[d]) => Apart(state, call[d])
  <2> SUFFICES ASSUME NEW d \in Call \ {c}, call[d].op = "createLoan", call[d].step = "insert"
               PROVE  call[d].l # l
    BY DEF Inserting, Apart
  <2>1. Did(L!HoldKey(call[d].l))
    BY DEF CustodyInv, CallSays
  <2> QED
    BY <1>5, <2>1 DEF k
<1>12. CallSays(state)' /\ state \in CallState'
  <2>1. Did(L!HoldKey(l))' /\ ~HasLoan(l)'
    BY <1>5, <1>6, <1>9 DEF k, HasLoan
  <2>2. state \in CallState'
    BY <1>8 DEF CallState
  <2> QED
    BY <2>1, <2>2 DEF CallSays
<1>13. call' = [call EXCEPT ![c] = state] /\ UNCHANGED <<loan, trade, told>>
  BY <1>6
<1> HIDE DEF state
<1> QED
  BY <1>4, <1>5, <1>10, <1>11, <1>12, <1>13, LoanCallKeeps

(* createLoan inserts its row.                                             *)
LEMMA LoanInsertKeeps ==
    ASSUME CustodyInv, NEW c \in Call, L!CreateInsert(c), UNCHANGED <<trade, told>>
    PROVE  CustodyInv' /\ Corrects
<1>1. call[c] \in BornLoan /\ CallSays(call[c]) /\ FlowTypeOK
  <2>1. call[c].op = "createLoan" /\ call[c].step = "insert" /\ call[c] \in CallState
    BY DEF L!CreateInsert, L!At, CustodyInv, FlowTypeOK
  <2> QED
    BY <2>1, KindOf DEF CustodyInv
<1>2. PICK l \in Loan, held \in Minted, terms \in L!Terms :
          l = call[c].l /\ held = call[c].held /\ terms = call[c].terms
  BY <1>1 DEF BornLoan
<1> DEFINE row == [status |-> "PENDING", receiptId |-> held, amount |-> terms.amount,
                   financier |-> terms.financier, rate |-> terms.financier,
                   totals |-> terms]
<1>3. /\ loan' = [loan EXCEPT ![l] = row] /\ UNCHANGED ledgerVars
      /\ call' = [call EXCEPT ![c] = Idle]
  BY <1>2 DEF L!CreateInsert, L!Return, L!Idle, L!ledgerVars, ledgerVars, Idle
<1>4. row \in L!LoanRow /\ row.status = "PENDING"
  BY <1>2 DEF L!LoanRow, L!LoanStatus, L!Terms, L!Minted, Minted
<1> HIDE DEF row
<1>5. loan'[l] = row /\ row # L!NoLoan
  <2>1. L!NoLoan.status = "NONE"
    BY DEF L!NoLoan
  <2> QED
    BY <1>1, <1>3, <1>4, <2>1 DEF FlowTypeOK
<1>6. Moves(None) /\ Calm
  BY <1>1, <1>3, StillMoves DEF Moves
<1>7. loan'[l] \in (L!LoanRow \cup {L!NoLoan})'
  <2>1. Minted' = Minted
    BY <1>3 DEF ledgerVars, Minted
  <2> QED
    BY <1>4, <1>5, <2>1 DEF L!LoanRow, L!Minted, Minted
<1>8. /\ LoanSays(l) /\ ~HasLoan(l) /\ Did(L!HoldKey(l))
      /\ call[c].op = "createLoan" /\ call[c].step = "insert"
  BY <1>1, <1>2 DEF CustodyInv, CallSays, BornLoan
<1>9. LoanSays(l)' /\ HasLoan(l)'
  BY <1>3, <1>4, <1>5, <1>8 DEF LoanSays, HasLoan, Did, ledgerVars
<1>10. CallSays(Idle)' /\ Idle \in CallState' /\ ~Inserting(Idle)
  BY IdleKnows DEF CallState, CallSays, Idle
<1>11. loan' = [loan EXCEPT ![l] = loan'[l]]
  BY <1>3, <1>5
<1> QED
  BY <1>2, <1>3, <1>6, <1>7, <1>8, <1>9, <1>10, <1>11, LoanStepKeeps

(* What a handler that decides on a loan knows of it.                      *)
LEMMA DecidedLoan ==
    ASSUME CustodyInv, NEW c \in Call,
           call[c].op \in {"approveLoan", "rejectLoan", "repayLoan"}
    PROVE  /\ call[c] \in DecideLoan /\ CallSays(call[c]) /\ FlowTypeOK
           /\ call[c].l \in Loan /\ HasLoan(call[c].l)
           /\ loan[call[c].l] \in L!LoanRow /\ loan[call[c].l].receiptId \in Minted
           /\ LoanSays(call[c].l)
<1>1. call[c] \in DecideLoan /\ CallSays(call[c]) /\ FlowTypeOK
  BY KindOf DEF CustodyInv, FlowTypeOK
<1>2. call[c].l \in Loan /\ HasLoan(call[c].l)
  BY <1>1 DEF DecideLoan, CallSays
<1>3. loan[call[c].l] \in L!LoanRow /\ LoanSays(call[c].l)
  BY <1>1, <1>2 DEF CustodyInv, FlowTypeOK, HasLoan
<1> QED
  BY <1>1, <1>2, <1>3 DEF L!LoanRow, L!Minted, Minted

(* approveLoan, rejectLoan and repayLoan call the ledger.  The collateral  *)
(* is held when it is released, so nobody released it before, and nobody   *)
(* will again.                                                             *)
LEMMA LoanLedgerKeeps ==
    ASSUME CustodyInv, NEW c \in Call,
           L!ApproveLedger(c) \/ L!RejectLedger(c) \/ L!RepayLedger(c),
           UNCHANGED <<trade, told>>
    PROVE  CustodyInv' /\ Corrects
<1>1. call[c].op \in {"approveLoan", "rejectLoan", "repayLoan"} /\ call[c].step # "update"
  BY DEF L!ApproveLedger, L!RejectLedger, L!RepayLedger, L!At
<1>2. PICK l \in Loan, r \in Minted : l = call[c].l /\ r = loan[l].receiptId
  BY <1>1, DecidedLoan
<1>3. /\ call[c] \in DecideLoan /\ CallSays(call[c]) /\ FlowTypeOK
      /\ HasLoan(l) /\ LoanSays(l)
  BY <1>1, <1>2, DecidedLoan
<1> DEFINE done == [call[c] EXCEPT !.step = "update"]
<1>4. PICK state \in DecideLoan : state = done
  BY <1>3 DEF DecideLoan
<1>5. /\ state.op = call[c].op /\ state.step = "update" /\ state.l = l
      /\ \A d \in Call \ {c} : ~Inserting(state)
  BY <1>1, <1>2, <1>3, <1>4 DEF DecideLoan, Inserting
<1>6. /\ call' = [call EXCEPT ![c] = state] /\ UNCHANGED loan
  BY <1>4 DEF L!ApproveLedger, L!RejectLedger, L!RepayLedger, L!Ledger, L!Continue
<1> HIDE DEF done
<1> DEFINE ka == L!ApproveKey(l)
           kr == L!ReleaseKey(l)
           kp == L!RepayKey(l)
<1>7. /\ ka \in LoanKeys(l) /\ kr \in LoanKeys(l) /\ kp \in LoanKeys(l)
      /\ ka \in Key /\ kr \in Key /\ kp \in Key
      /\ ka # kr /\ ka # kp /\ kr # kp
  BY KeysKnown, KeysApart DEF LoanKeys
<1>8. /\ L!ApproveLedger(c) => /\ state.op = "approveLoan"
                               /\ ApproveHold(ka, r) \/ (UNCHANGED ledgerVars /\ Did(ka))
      /\ L!RejectLedger(c) => /\ state.op = "rejectLoan"
                              /\ Release(kr, r) \/ (UNCHANGED ledgerVars /\ Did(kr))
      /\ L!RepayLedger(c) => /\ state.op = "repayLoan" /\ Did(ka)
                             /\ Release(kp, r) \/ (UNCHANGED ledgerVars /\ Did(kp))
  BY <1>2, <1>3, <1>5, LoansOverLedger
     DEF L!ApproveLedger, L!RejectLedger, L!RepayLedger, L!Ledger, L!At, CallSays
<1>9. loan'[l] = loan[l] /\ loan'[l].receiptId = r /\ (HasLoan(l)' <=> loan[l] # L!NoLoan)
  BY <1>2, <1>6 DEF HasLoan
<1>10. /\ Did(ka)' <=> event'[ka] # NoEvent
       /\ Did(kr)' <=> event'[kr] # NoEvent
       /\ Did(kp)' <=> event'[kp] # NoEvent
       /\ Did(ka) <=> event[ka] # NoEvent
       /\ Did(kr) <=> event[kr] # NoEvent
       /\ Did(kp) <=> event[kp] # NoEvent
  BY DEF Did
<1> HIDE DEF ka, kr, kp
<1>11. CASE L!ApproveLedger(c)
  <2>1. Moves(ka) /\ Did(ka)'
    <3>1. CASE ApproveHold(ka, r)
      BY <1>3, <1>7, <3>1, ApproveHoldMoves
    <3>2. CASE UNCHANGED ledgerVars /\ Did(ka)
      BY <1>3, <1>10, <3>2, StillMoves DEF ledgerVars
    <3> QED
      BY <1>8, <1>11, <3>1, <3>2
  <2>2. (Did(kr)' => Did(kr)) /\ (Did(kp)' => Did(kp)) /\ Calm
    BY <1>7, <2>1 DEF Moves
  <2>3. LoanSays(l)'
    BY <1>9, <2>2, LoanKept DEF kr, kp
  <2>4. CallSays(state)' /\ state \in CallState'
    BY <1>3, <1>5, <1>8, <1>9, <1>11, <2>1
       DEF CallSays, CallState, DecideLoan, HasLoan, ka
  <2> QED
    BY <1>5, <1>6, <1>7, <2>1, <2>3, <2>4, LoanCallKeeps
<1>12. ASSUME NEW k \in {kr, kp}, Release(k, r) \/ (UNCHANGED ledgerVars /\ Did(k)),
              k = kp => Did(ka)
       PROVE  Moves(k) /\ Did(k)' /\ LoanSays(l)'
  <2>1. CASE Release(k, r)
    <3>1. /\ Moves(k) /\ Did(k)' /\ IsHeld(r) /\ ~IsHeld(r)'
      BY <1>3, <1>7, <2>1, ReleaseMoves
    <3>2. /\ Did(ka) => Did(ka)'
          /\ Did(L!HoldKey(l)) => Did(L!HoldKey(l))'
      BY <1>7, <3>1, KeysKnown DEF Moves, Calm, LoanKeys
    <3>3. ~Did(kr) /\ ~Did(kp) /\ Did(L!HoldKey(l))
      BY <1>2, <1>3, <3>1 DEF LoanSays, kr, kp
    <3>4. (k = kr => ~Did(kp)') /\ (k = kp => ~Did(kr)')
      BY <1>7, <3>1, <3>3 DEF Moves
    <3>5. LoanSays(l)
      BY <1>3
    <3> QED
      BY <1>3, <1>7, <1>9, <1>12, <3>1, <3>2, <3>3, <3>4, <3>5
         DEF LoanSays, HasLoan, IsHeld, Did, ka, kr, kp
  <2>2. CASE UNCHANGED ledgerVars /\ Did(k)
    <3>1. Moves(k) /\ Calm
      BY <1>3, <2>2, StillMoves DEF Moves
    <3>2. (Did(kr)' => Did(kr)) /\ (Did(kp)' => Did(kp)) /\ Did(k)'
      BY <2>2 DEF Did, ledgerVars
    <3> QED
      BY <1>9, <3>1, <3>2, LoanKept DEF kr, kp
  <2> QED
    BY <1>12, <2>1, <2>2
<1>13. CASE L!RejectLedger(c)
  <2>1. Moves(kr) /\ Did(kr)' /\ LoanSays(l)'
    BY <1>7, <1>8, <1>12, <1>13
  <2>2. CallSays(state)' /\ state \in CallState'
    BY <1>3, <1>5, <1>8, <1>9, <1>13, <2>1
       DEF CallSays, CallState, DecideLoan, HasLoan, kr
  <2> QED
    BY <1>5, <1>6, <1>7, <2>1, <2>2, LoanCallKeeps
<1>14. CASE L!RepayLedger(c)
  <2>1. Moves(kp) /\ Did(kp)' /\ LoanSays(l)'
    BY <1>7, <1>8, <1>12, <1>14
  <2>2. Did(ka)'
    BY <1>7, <1>8, <1>14, <2>1 DEF Moves, Calm
  <2>3. CallSays(state)' /\ state \in CallState'
    BY <1>3, <1>5, <1>8, <1>9, <1>14, <2>1, <2>2
       DEF CallSays, CallState, DecideLoan, HasLoan, ka, kp
  <2> QED
    BY <1>5, <1>6, <1>7, <2>1, <2>3, LoanCallKeeps
<1> QED
  BY <1>11, <1>13, <1>14

(* A row of a loan is rewritten, the ledger is not called.                 *)
LEMMA LoanWriteKeeps ==
    ASSUME CustodyInv, UNCHANGED <<ledgerVars, trade, told>>, NEW l \in Loan, HasLoan(l),
           NEW row \in L!LoanRow, loan' = [loan EXCEPT ![l] = row],
           row.receiptId = loan[l].receiptId,
           row.status = "ACTIVE" => Did(L!ApproveKey(l)),
           row.status = "REJECTED" => Did(L!ReleaseKey(l)),
           row.status = "REPAID" => Did(L!RepayKey(l)),
           NEW c \in Call, call' = [call EXCEPT ![c] = Idle]
    PROVE  CustodyInv' /\ Corrects
<1>1. FlowTypeOK /\ LoanSays(l)
  BY DEF CustodyInv
<1>2. loan'[l] = row /\ row # L!NoLoan
  <2>1. L!NoLoan.status = "NONE" /\ row.status # "NONE"
    BY DEF L!NoLoan, L!LoanRow, L!LoanStatus
  <2> QED
    BY <1>1, <2>1 DEF FlowTypeOK
<1>3. Moves(None)
  BY <1>1, StillMoves
<1>4. loan'[l] \in (L!LoanRow \cup {L!NoLoan})'
  <2>1. Minted' = Minted
    BY DEF ledgerVars, Minted
  <2> QED
    BY <1>2, <2>1 DEF L!LoanRow, L!Minted, Minted
<1>5. LoanSays(l)' /\ HasLoan(l)'
  BY <1>1, <1>2 DEF LoanSays, HasLoan, Did, IsHeld, ledgerVars
<1>6. CallSays(Idle)' /\ Idle \in CallState' /\ ~Inserting(Idle)
  BY IdleKnows DEF CallState, CallSays, Idle
<1>7. loan' = [loan EXCEPT ![l] = loan'[l]]
  BY <1>2
<1> QED
  BY <1>3, <1>4, <1>5, <1>6, <1>7, LoanStepKeeps

(* approveLoan, rejectLoan and repayLoan write what they did: whatever the *)
(* row says by then, the journal bears it out.                             *)
LEMMA LoanUpdateKeeps ==
    ASSUME CustodyInv, NEW c \in Call,
           L!ApproveUpdate(c) \/ L!RejectUpdate(c) \/ L!RepayUpdate(c),
           UNCHANGED <<trade, told>>
    PROVE  CustodyInv' /\ Corrects
<1>1. call[c].op \in {"approveLoan", "rejectLoan", "repayLoan"} /\ call[c].step = "update"
  BY DEF L!ApproveUpdate, L!RejectUpdate, L!RepayUpdate, L!At
<1>2. PICK l \in Loan : l = call[c].l
  BY <1>1, DecidedLoan
<1>3. /\ CallSays(call[c]) /\ HasLoan(l) /\ loan[l] \in L!LoanRow /\ FlowTypeOK
  BY <1>1, <1>2, DecidedLoan
<1>4. PICK status \in {"ACTIVE", "REJECTED", "REPAID"} :
          /\ loan' = [loan EXCEPT ![l].status = status]
          /\ status = "ACTIVE" => call[c].op = "approveLoan"
          /\ status = "REJECTED" => call[c].op = "rejectLoan"
          /\ status = "REPAID" => call[c].op = "repayLoan"
  BY <1>2 DEF L!ApproveUpdate, L!RejectUpdate, L!RepayUpdate, L!At, L!Write
<1>5. call' = [call EXCEPT ![c] = Idle] /\ UNCHANGED ledgerVars
  BY DEF L!ApproveUpdate, L!RejectUpdate, L!RepayUpdate, L!Write, L!Return, L!Idle, Idle,
         L!ledgerVars, ledgerVars
<1> DEFINE new == [loan[l] EXCEPT !.status = status]
<1>6. new \in L!LoanRow
  BY <1>3 DEF L!LoanRow, L!LoanStatus
<1>7. PICK row \in L!LoanRow : row = new
  BY <1>6
<1>8. row.status = status /\ row.receiptId = loan[l].receiptId
  BY <1>3, <1>7 DEF L!LoanRow
<1>9. loan' = [loan EXCEPT ![l] = row]
  BY <1>3, <1>4, <1>7 DEF FlowTypeOK
<1>10. /\ status = "ACTIVE" => Did(L!ApproveKey(l))
       /\ status = "REJECTED" => Did(L!ReleaseKey(l))
       /\ status = "REPAID" => Did(L!RepayKey(l))
  BY <1>1, <1>2, <1>3, <1>4 DEF CallSays
<1> HIDE DEF new
<1> QED
  BY <1>3, <1>5, <1>8, <1>9, <1>10, LoanWriteKeeps

(* editLoan writes terms, whatever the status is by then.                  *)
LEMMA LoanEditKeeps ==
    ASSUME CustodyInv, NEW c \in Call, L!EditUpdate(c), UNCHANGED <<trade, told>>
    PROVE  CustodyInv' /\ Corrects
<1>1. call[c] \in EditLoan /\ CallSays(call[c]) /\ FlowTypeOK
  <2>1. call[c].op = "editLoan" /\ call[c] \in CallState
    BY DEF L!EditUpdate, L!At, CustodyInv, FlowTypeOK
  <2> QED
    BY <2>1, KindOf DEF CustodyInv
<1>2. PICK l \in Loan, terms \in L!Terms, seen \in L!LoanRow :
          l = call[c].l /\ terms = call[c].terms /\ seen = call[c].seen
  BY <1>1 DEF EditLoan
<1>3. HasLoan(l) /\ loan[l] \in L!LoanRow /\ LoanSays(l)
  BY <1>1, <1>2 DEF CustodyInv, CallSays, EditLoan, FlowTypeOK, HasLoan
<1> DEFINE rate == L!Edited(seen.financier, terms.financier, seen.rate)
           totals == [amount |-> terms.amount, financier |-> rate]
<1>4. /\ terms.amount \in Principal /\ terms.financier \in Financier
      /\ rate \in Financier /\ totals \in L!Terms
  BY DEF L!Terms, L!LoanRow, L!Edited
<1>5. PICK a \in Principal, f \in Financier, x \in Financier, y \in L!Terms :
          loan' = [loan EXCEPT ![l].amount = a, ![l].financier = f, ![l].rate = x,
                               ![l].totals = y]
  <2> DEFINE a == L!Edited(seen.amount, terms.amount, loan[l].amount)
             f == L!Edited(seen.financier, terms.financier, loan[l].financier)
             x == L!Edited(seen.rate, rate, loan[l].rate)
             y == L!Edited(seen.totals, totals, loan[l].totals)
  <2>1. a \in Principal /\ f \in Financier /\ x \in Financier /\ y \in L!Terms
    BY <1>3, <1>4 DEF L!Edited, L!LoanRow
  <2>2. loan' = [loan EXCEPT ![l].amount = a, ![l].financier = f, ![l].rate = x,
                             ![l].totals = y]
    BY <1>1, <1>2, <1>3 DEF L!EditUpdate, L!Edited, FlowTypeOK, L!LoanRow
  <2> HIDE DEF a, f, x, y
  <2> QED
    BY <2>1, <2>2
<1> DEFINE new == [loan[l] EXCEPT !.amount = a, !.financier = f, !.rate = x, !.totals = y]
<1>6. new \in L!LoanRow
  BY <1>3 DEF L!LoanRow
<1>7. PICK row \in L!LoanRow : row = new
  BY <1>6
<1>8. row.status = loan[l].status /\ row.receiptId = loan[l].receiptId
  BY <1>3, <1>7 DEF L!LoanRow
<1>9. loan' = [loan EXCEPT ![l] = row]
  BY <1>1, <1>3, <1>5, <1>7 DEF FlowTypeOK, L!LoanRow
<1>10. call' = [call EXCEPT ![c] = Idle] /\ UNCHANGED ledgerVars
  BY DEF L!EditUpdate, L!Return, L!Idle, Idle, L!ledgerVars, ledgerVars
<1> HIDE DEF new
<1> QED
  BY <1>3, <1>8, <1>9, <1>10, LoanWriteKeeps DEF LoanSays

-----------------------------------------------------------------------------
(* Trades.                                                                 *)

(* The ledger calls of the exchange are the ledger's.                      *)
LEMMA TradesOverLedger ==
    ASSUME NEW k, NEW r
    PROVE  /\ \A q, s, t : T!Hold(k, r, q, s, t) => Hold(k, r, q, s, t)
           /\ T!Release(k, r) => Release(k, r)
           /\ \A b : T!TransferAndRelease(k, r, b) => TransferAndRelease(k, r, b)
           /\ T!Replay(k) => UNCHANGED ledgerVars /\ Did(k)
           /\ \A n : T!Exactly(n) = Exactly(n)
           /\ T!Receipt = Receipt /\ T!Minted = Minted
<1>1. \A q, s, t : T!Hold(k, r, q, s, t) => Hold(k, r, q, s, t)
  BY DEF T!Hold, T!Record, T!NoEvent, T!NoReceipt, T!Partition, T!Split, T!ChildOf,
         T!Stored, T!Exactly, T!Receipt, Hold, Record, NoEvent, NoReceipt, Partition, Split,
         ChildOf, Stored, Exactly, Receipt
<1>2. \A b : T!TransferAndRelease(k, r, b) => TransferAndRelease(k, r, b)
  BY DEF T!TransferAndRelease, T!Record, T!NoEvent, T!NoReceipt, T!Update, T!IsHeld,
         T!HeldStatus, TransferAndRelease, Record, NoEvent, NoReceipt, Update, IsHeld,
         HeldStatus
<1>3. T!Release(k, r) => Release(k, r)
  BY DEF T!Release, T!Record, T!NoEvent, T!NoReceipt, T!Update, T!IsHeld, T!HeldStatus,
         Release, Record, NoEvent, NoReceipt, Update, IsHeld, HeldStatus
<1>4. T!Replay(k) => UNCHANGED ledgerVars /\ Did(k)
  BY DEF T!Replay, T!NoEvent, T!NoReceipt, T!ledgerVars, ledgerVars, Did, NoEvent, NoReceipt
<1>5. (\A n : T!Exactly(n) = Exactly(n)) /\ T!Receipt = Receipt /\ T!Minted = Minted
  BY DEF T!Exactly, Exactly, T!Receipt, Receipt, T!Minted, Minted
<1> QED
  BY <1>1, <1>2, <1>3, <1>4, <1>5

(* A step of a handler that concerns trade t.                              *)
LEMMA TradeStepKeeps ==
    ASSUME CustodyInv, UNCHANGED loan, NEW t \in Trade,
           NEW k \in TradeKeys(t) \cup {None}, Moves(k),
           trade' = [trade EXCEPT ![t] = trade'[t]], told' \subseteq Trade \X Client,
           trade'[t] \in (T!TradeRow \cup {T!NoTrade})', TradeSays(t)',
           HasTrade(t) => HasTrade(t)',
           NEW c \in Call, NEW state, call' = [call EXCEPT ![c] = state],
           state \in CallState', CallSays(state)',
           HasTrade(t)' /\ ~HasTrade(t) =>
               call[c].op = "createTrade" /\ call[c].step = "insert" /\ call[c].t = t,
           \A d \in Call \ {c} : Inserting(state) /\ Inserting(call[d]) =>
                                    Apart(state, call[d])
    PROVE  CustodyInv' /\ Corrects
<1>1. Calm /\ Corrects
  BY DEF Moves, Corrects
<1>2. /\ \A r \in Receipt : k \notin JudgeKeys(r)
      /\ \A l \in Loan : k \notin LoanKeys(l)
      /\ \A u \in Trade \ {t} : k \notin TradeKeys(u)
  BY KeysApart, KeysKnown, NoneAssumption
<1>3. Deposited'
  BY <1>2, VerdictsKept DEF Deposited
<1>4. \A u \in Trade \ {t} : trade'[u] = trade[u]
  BY DEF CustodyInv, FlowTypeOK
<1>5. \A u \in Trade \ {t} : TradeSays(u)' /\ trade'[u] \in (T!TradeRow \cup {T!NoTrade})'
  <2> SUFFICES ASSUME NEW u \in Trade \ {t}
               PROVE  TradeSays(u)' /\ trade'[u] \in (T!TradeRow \cup {T!NoTrade})'
    OBVIOUS
  <2>1. \A j \in TradeKeys(u) : Did(j)' => Did(j)
    BY <1>2, KeysKnown DEF Moves
  <2>2. /\ Did(T!TransferKey(u))' => Did(T!TransferKey(u))
        /\ Did(T!CancelKey(u))' => Did(T!CancelKey(u))
    BY <2>1 DEF TradeKeys
  <2> QED
    BY <1>1, <1>4, <2>2, TradeKept
<1>6. \A l \in Loan : LoanSays(l)' /\ loan'[l] \in (L!LoanRow \cup {L!NoLoan})'
  <2> SUFFICES ASSUME NEW l \in Loan
               PROVE  LoanSays(l)' /\ loan'[l] \in (L!LoanRow \cup {L!NoLoan})'
    OBVIOUS
  <2>1. \A j \in LoanKeys(l) : Did(j)' => Did(j)
    BY <1>2, KeysKnown DEF Moves
  <2>2. /\ Did(L!ReleaseKey(l))' => Did(L!ReleaseKey(l))
        /\ Did(L!RepayKey(l))' => Did(L!RepayKey(l))
    BY <2>1 DEF LoanKeys
  <2> QED
    BY <1>1, <2>2, LoanKept
<1>7. trade' \in [Trade -> (T!TradeRow \cup {T!NoTrade})']
  BY <1>5 DEF CustodyInv, FlowTypeOK
<1>8. loan' \in [Loan -> (L!LoanRow \cup {L!NoLoan})']
  BY <1>6 DEF CustodyInv, FlowTypeOK
<1>9. Lent' /\ Traded'
  BY <1>5, <1>6, <1>7, <1>8 DEF Lent, Traded
<1>10. RowsStay /\ Fresh(c)
  BY <1>4 DEF RowsStay, Fresh, HasLoan, HasTrade
<1> QED
  BY <1>1, <1>3, <1>9, <1>10, StepKeeps

(* A handler that moves on after a ledger call for trade t.                *)
LEMMA TradeCallKeeps ==
    ASSUME CustodyInv, UNCHANGED <<loan, trade, told>>, NEW t \in Trade,
           NEW k \in TradeKeys(t), Moves(k), TradeSays(t)',
           NEW c \in Call, NEW state, call' = [call EXCEPT ![c] = state],
           state \in CallState', CallSays(state)',
           \A d \in Call \ {c} : Inserting(state) /\ Inserting(call[d]) =>
                                    Apart(state, call[d])
    PROVE  CustodyInv' /\ Corrects
<1>1. /\ trade \in [Trade -> T!TradeRow \cup {T!NoTrade}] /\ Minted \subseteq Minted'
      /\ told' \subseteq Trade \X Client
  BY DEF CustodyInv, FlowTypeOK, Moves, Calm
<1>2. trade' = [trade EXCEPT ![t] = trade'[t]] /\ (HasTrade(t)' <=> trade[t] # T!NoTrade)
  BY <1>1 DEF HasTrade
<1>3. trade'[t] \in (T!TradeRow \cup {T!NoTrade})'
  BY <1>1 DEF T!TradeRow, T!NoTrade, T!Minted, Minted
<1> QED
  BY <1>1, <1>2, <1>3, TradeStepKeeps DEF HasTrade

(* createTrade holds the receipt under a trade id of its own.              *)
LEMMA TradeHoldKeeps ==
    ASSUME CustodyInv, NEW c \in Call, NEW t \in Trade, T!CreateHold(c, t), UNCHANGED loan
    PROVE  CustodyInv' /\ Corrects
<1> DEFINE k == T!HoldKey(t)
<1>1. call[c] \in PickTrade /\ FlowTypeOK
  <2>1. call[c].op = "createTrade" /\ call[c].step = "hold" /\ call[c] \in CallState
    BY DEF T!CreateHold, T!At, CustodyInv, FlowTypeOK
  <2> QED
    BY <2>1, KindOf DEF CustodyInv
<1>2. PICK r \in Minted, n \in Nat, seller \in Client :
          r = call[c].r /\ n = call[c].quantity /\ seller = call[c].seller
  BY <1>1 DEF PickTrade
<1>3. Hold(k, r, Exactly(n), "HELD_TRADE", t)
  BY <1>2, TradesOverLedger DEF T!CreateHold
<1>4. k \in Key /\ k \in TradeKeys(t) /\ t \in Txn /\ "HELD_TRADE" \in HeldStatus
  BY KeysKnown DEF TradeKeys, HeldStatus
<1> HIDE DEF k
<1>5. Moves(k) /\ ~Did(k) /\ Did(k)'
  BY <1>1, <1>3, <1>4, HoldMoves
<1>6. PICK held \in Receipt :
          /\ receipt'[held].sourceEvent = k
          /\ call' = [call EXCEPT ![c] = [op |-> "createTrade", step |-> "insert", t |-> t,
                                          held |-> held, seller |-> seller]]
          /\ UNCHANGED <<trade, told>>
  BY <1>2, TradesOverLedger DEF T!CreateHold, T!Continue, k
<1>7. held \in Minted'
  <2>1. TableTypeOK' /\ None \notin Key
    BY <1>5, NoneAssumption DEF Moves, Calm
  <2>2. held \notin Minted' => receipt'[held] = NoRow
    BY <2>1 DEF TableTypeOK
  <2> QED
    BY <1>4, <1>6, <2>1, <2>2 DEF NoRow
<1> DEFINE state == [op |-> "createTrade", step |-> "insert", t |-> t, held |-> held,
                     seller |-> seller]
<1>8. state \in BornTrade'
  BY <1>7 DEF BornTrade
<1>9. ~HasTrade(t) /\ TradeSays(t)
  BY <1>5 DEF CustodyInv, TradeSays, k
<1>10. TradeSays(t)'
  <2>1. trade'[t] = trade[t] /\ Calm
    BY <1>5, <1>6 DEF Moves
  <2>2. /\ Did(T!TransferKey(t))' => Did(T!TransferKey(t))
        /\ Did(T!CancelKey(t))' => Did(T!CancelKey(t))
    <3>1. {T!TransferKey(t), T!CancelKey(t)} \subseteq Key
      BY KeysKnown DEF TradeKeys
    <3>2. k \notin {T!TransferKey(t), T!CancelKey(t)}
      BY KeysApart DEF k
    <3> QED
      BY <1>5, <3>1, <3>2 DEF Moves
  <2> QED
    BY <2>1, <2>2, TradeKept
<1>11. \A d \in Call \ {c} : Inserting(call[d]) => Apart(state, call[d])
  <2> SUFFICES ASSUME NEW d \in Call \ {c}, call[d].op = "createTrade", call[d].step = "insert"
               PROVE  call[d].t # t
    BY DEF Inserting, Apart
  <2>1. Did(T!HoldKey(call[d].t))
    BY DEF CustodyInv, CallSays
  <2> QED
    BY <1>5, <2>1 DEF k
<1>12. CallSays(state)' /\ state \in CallState'
  <2>1. Did(T!HoldKey(t))' /\ ~HasTrade(t)'
    BY <1>5, <1>6, <1>9 DEF k, HasTrade
  <2>2. state \in CallState'
    BY <1>8 DEF CallState
  <2> QED
    BY <2>1, <2>2 DEF CallSays
<1>13. call' = [call EXCEPT ![c] = state] /\ UNCHANGED <<loan, trade, told>>
  BY <1>6
<1> HIDE DEF state
<1> QED
  BY <1>4, <1>5, <1>10, <1>11, <1>12, <1>13, TradeCallKeeps

(* createTrade inserts its row.                                            *)
LEMMA TradeInsertKeeps ==
    ASSUME CustodyInv, NEW c \in Call, T!CreateInsert(c), UNCHANGED loan
    PROVE  CustodyInv' /\ Corrects
<1>1. call[c] \in BornTrade /\ CallSays(call[c]) /\ FlowTypeOK
  <2>1. call[c].op = "createTrade" /\ call[c].step = "insert" /\ call[c] \in CallState
    BY DEF T!CreateInsert, T!At, CustodyInv, FlowTypeOK
  <2> QED
    BY <2>1, KindOf DEF CustodyInv
<1>2. PICK t \in Trade, held \in Minted, seller \in Client :
          t = call[c].t /\ held = call[c].held /\ seller = call[c].seller
  BY <1>1 DEF BornTrade
<1> DEFINE row == [status |-> "LISTED", receiptId |-> held, seller |-> seller,
                   buyer |-> None]
<1>3. /\ trade' = [trade EXCEPT ![t] = row] /\ UNCHANGED <<ledgerVars, told>>
      /\ call' = [call EXCEPT ![c] = Idle]
  BY <1>2 DEF T!CreateInsert, T!Return, T!Idle, T!ledgerVars, ledgerVars, Idle
<1>4. row \in T!TradeRow /\ row.status = "LISTED"
  BY <1>2 DEF T!TradeRow, T!TradeStatus, T!Minted, Minted
<1> HIDE DEF row
<1>5. trade'[t] = row /\ row # T!NoTrade
  <2>1. T!NoTrade.status = "NONE"
    BY DEF T!NoTrade
  <2> QED
    BY <1>1, <1>3, <1>4, <2>1 DEF FlowTypeOK
<1>6. Moves(None) /\ Calm /\ told' \subseteq Trade \X Client
  BY <1>1, <1>3, StillMoves DEF Moves, FlowTypeOK
<1>7. trade'[t] \in (T!TradeRow \cup {T!NoTrade})'
  <2>1. Minted' = Minted
    BY <1>3 DEF ledgerVars, Minted
  <2> QED
    BY <1>4, <1>5, <2>1 DEF T!TradeRow, T!Minted, Minted
<1>8. /\ TradeSays(t) /\ ~HasTrade(t) /\ Did(T!HoldKey(t))
      /\ call[c].op = "createTrade" /\ call[c].step = "insert"
  BY <1>1, <1>2 DEF CustodyInv, CallSays, BornTrade
<1>9. TradeSays(t)' /\ HasTrade(t)'
  BY <1>3, <1>4, <1>5, <1>8 DEF TradeSays, HasTrade, Did, ledgerVars
<1>10. CallSays(Idle)' /\ Idle \in CallState' /\ ~Inserting(Idle)
  BY IdleKnows DEF CallState, CallSays, Idle
<1>11. trade' = [trade EXCEPT ![t] = trade'[t]]
  BY <1>3, <1>5
<1> QED
  BY <1>2, <1>3, <1>6, <1>7, <1>8, <1>9, <1>10, <1>11, TradeStepKeeps

(* What a handler that settles or cancels a listing knows of it.           *)
LEMMA ListedTrade ==
    ASSUME CustodyInv, NEW c \in Call, call[c].op \in {"settleTrade", "cancelTrade"}
    PROVE  /\ call[c].op = "settleTrade" => call[c] \in SettleTrade
           /\ call[c].op = "cancelTrade" => call[c] \in CancelTrade
           /\ CallSays(call[c]) /\ FlowTypeOK
           /\ call[c].t \in Trade /\ HasTrade(call[c].t)
           /\ trade[call[c].t] \in T!TradeRow /\ trade[call[c].t].receiptId \in Minted
           /\ TradeSays(call[c].t)
<1>1. /\ call[c].op = "settleTrade" => call[c] \in SettleTrade
      /\ call[c].op = "cancelTrade" => call[c] \in CancelTrade
      /\ CallSays(call[c]) /\ FlowTypeOK
  BY KindOf DEF CustodyInv, FlowTypeOK
<1>2. call[c].t \in Trade /\ HasTrade(call[c].t)
  BY <1>1 DEF SettleTrade, CancelTrade, CallSays
<1>3. trade[call[c].t] \in T!TradeRow /\ TradeSays(call[c].t)
  BY <1>1, <1>2 DEF CustodyInv, FlowTypeOK, HasTrade
<1> QED
  BY <1>1, <1>2, <1>3 DEF T!TradeRow, T!Minted, Minted

(* settleTrade hands over what is held, so nobody gave it back before, and *)
(* marks the trade in the same transaction.                                *)
LEMMA SettleTransferKeeps ==
    ASSUME CustodyInv, NEW c \in Call, T!SettleTransfer(c), UNCHANGED loan
    PROVE  CustodyInv' /\ Corrects
<1>1. call[c].op = "settleTrade"
  BY DEF T!SettleTransfer, T!At
<1>2. PICK t \in Trade, b \in Client, r \in Minted :
          t = call[c].t /\ b = call[c].buyer /\ r = trade[t].receiptId
  BY <1>1, ListedTrade DEF SettleTrade
<1>3. FlowTypeOK /\ HasTrade(t) /\ trade[t] \in T!TradeRow /\ TradeSays(t)
  BY <1>1, <1>2, ListedTrade
<1> DEFINE k == T!TransferKey(t)
           ck == T!CancelKey(t)
           new == [trade[t] EXCEPT !.status = "SETTLED", !.buyer = b]
<1>4. k \in Key /\ ck \in Key /\ k \in TradeKeys(t) /\ k # ck
  BY KeysKnown, KeysApart DEF TradeKeys
<1>5. TransferAndRelease(k, r, b)
  BY <1>2, TradesOverLedger DEF T!SettleTransfer
<1>6. /\ trade' = [trade EXCEPT ![t].status = "SETTLED", ![t].buyer = b]
      /\ told' = told \cup {<<t, b>>} /\ call' = [call EXCEPT ![c] = Idle]
  BY <1>2 DEF T!SettleTransfer, T!Return, T!Idle, Idle
<1>7. new \in T!TradeRow
  BY <1>3 DEF T!TradeRow, T!TradeStatus
<1>8. PICK row \in T!TradeRow : row = new
  BY <1>7
<1>9. row.status = "SETTLED" /\ row.buyer = b /\ row.receiptId = r
  BY <1>2, <1>3, <1>8 DEF T!TradeRow
<1>10. trade' = [trade EXCEPT ![t] = row] /\ trade'[t] = row /\ row # T!NoTrade
  <2>1. T!NoTrade.status = "NONE"
    BY DEF T!NoTrade
  <2> QED
    BY <1>3, <1>6, <1>8, <1>9, <2>1 DEF FlowTypeOK, T!TradeRow
<1> HIDE DEF new, k, ck
<1>11. /\ Moves(k) /\ Did(k)' /\ ~Did(k) /\ IsHeld(r) /\ ~IsHeld(r)'
       /\ receipt'[r].owner = b
  BY <1>3, <1>4, <1>5, TransferMoves
<1>12. ~Did(ck) /\ Did(T!HoldKey(t))
  BY <1>2, <1>3, <1>11 DEF TradeSays, k, ck
<1>13. ~Did(ck)' /\ Did(T!HoldKey(t))'
  BY <1>4, <1>11, <1>12, KeysKnown DEF Moves, Calm, TradeKeys
<1>14. TradeSays(t)' /\ HasTrade(t)'
  BY <1>9, <1>10, <1>11, <1>13 DEF TradeSays, HasTrade, IsHeld, Did, k, ck
<1>15. trade'[t] \in (T!TradeRow \cup {T!NoTrade})'
  <2>1. Minted \subseteq Minted'
    BY <1>11 DEF Moves, Calm
  <2> QED
    BY <1>10, <2>1 DEF T!TradeRow, T!Minted, Minted
<1>16. told' \subseteq Trade \X Client
  BY <1>3, <1>6 DEF FlowTypeOK
<1>17. CallSays(Idle)' /\ Idle \in CallState' /\ ~Inserting(Idle)
  BY IdleKnows DEF CallState, CallSays, Idle
<1>18. trade' = [trade EXCEPT ![t] = trade'[t]]
  BY <1>10
<1> QED
  BY <1>3, <1>4, <1>6, <1>11, <1>14, <1>15, <1>16, <1>17, <1>18, TradeStepKeeps

(* A settlement that finds its key answers and writes nothing.             *)
LEMMA SettleReplayKeeps ==
    ASSUME CustodyInv, NEW c \in Call, T!SettleReplay(c), UNCHANGED loan
    PROVE  CustodyInv' /\ Corrects
<1>1. call[c].op = "settleTrade"
  BY DEF T!SettleReplay, T!At
<1>2. call[c].t \in Trade /\ call[c].buyer \in Client
  BY <1>1, ListedTrade DEF SettleTrade
<1>3. /\ UNCHANGED <<ledgerVars, loan, trade>> /\ call' = [call EXCEPT ![c] = Idle]
      /\ told' = told \cup {<<call[c].t, call[c].buyer>>}
  BY TradesOverLedger DEF T!SettleReplay, T!Return, T!Idle, Idle
<1>4. told' \subseteq Trade \X Client
  BY <1>2, <1>3 DEF CustodyInv, FlowTypeOK
<1>5. Calm /\ Corrects /\ RowsStay /\ Deposited' /\ Lent' /\ Traded' /\ Fresh(c)
  BY <1>3, <1>4, NothingDone
<1>6. CallSays(Idle)' /\ Idle \in CallState' /\ ~Inserting(Idle)
  BY IdleKnows DEF CallState, CallSays, Idle
<1> QED
  BY <1>3, <1>5, <1>6, StepKeeps

(* cancelTrade gives back what is held, so it was not sold before.         *)
LEMMA CancelReleaseKeeps ==
    ASSUME CustodyInv, NEW c \in Call, T!CancelRelease(c), UNCHANGED loan
    PROVE  CustodyInv' /\ Corrects
<1>1. call[c].op = "cancelTrade" /\ call[c].step = "release"
  BY DEF T!CancelRelease, T!At
<1>2. PICK t \in Trade, r \in Minted : t = call[c].t /\ r = trade[t].receiptId
  BY <1>1, ListedTrade
<1>3. /\ call[c] \in CancelTrade /\ FlowTypeOK /\ HasTrade(t)
      /\ trade[t] \in T!TradeRow /\ TradeSays(t)
  BY <1>1, <1>2, ListedTrade
<1> DEFINE k == T!CancelKey(t)
           sk == T!TransferKey(t)
           done == [call[c] EXCEPT !.step = "update"]
<1>4. k \in Key /\ sk \in Key /\ k \in TradeKeys(t) /\ k # sk
  BY KeysKnown, KeysApart DEF TradeKeys
<1>5. PICK state \in CancelTrade : state = done
  BY <1>3 DEF CancelTrade
<1>6. state.op = "cancelTrade" /\ state.step = "update" /\ state.t = t /\ ~Inserting(state)
  BY <1>2, <1>3, <1>5 DEF CancelTrade, Inserting
<1>7. /\ Release(k, r) \/ (UNCHANGED ledgerVars /\ Did(k))
      /\ call' = [call EXCEPT ![c] = state] /\ UNCHANGED <<trade, told>>
  BY <1>2, <1>5, TradesOverLedger DEF T!CancelRelease, T!Continue
<1> HIDE DEF k, sk, done
<1>8. Moves(k) /\ Did(k)' /\ TradeSays(t)'
  <2>1. CASE Release(k, r)
    <3>1. Moves(k) /\ Did(k)' /\ IsHeld(r) /\ ~IsHeld(r)'
      BY <1>3, <1>4, <2>1, ReleaseMoves
    <3>2. ~Did(sk) /\ Did(T!HoldKey(t)) /\ trade[t].status # "SETTLED"
      BY <1>2, <1>3, <3>1 DEF TradeSays, sk
    <3>3. ~Did(sk)' /\ Did(T!HoldKey(t))'
      BY <1>4, <3>1, <3>2, KeysKnown DEF Moves, Calm, TradeKeys
    <3> QED
      BY <1>2, <1>3, <1>7, <3>1, <3>2, <3>3 DEF TradeSays, HasTrade, IsHeld, Did, k, sk
  <2>2. CASE UNCHANGED ledgerVars /\ Did(k)
    <3>1. Moves(k) /\ Calm
      BY <1>3, <2>2, StillMoves DEF Moves
    <3>2. (Did(k)' => Did(k)) /\ (Did(sk)' => Did(sk)) /\ Did(k)'
      BY <2>2 DEF Did, ledgerVars
    <3> QED
      BY <1>7, <3>1, <3>2, TradeKept DEF k, sk
  <2> QED
    BY <1>7, <2>1, <2>2
<1>9. CallSays(state)' /\ state \in CallState'
  BY <1>3, <1>5, <1>6, <1>7, <1>8 DEF CallSays, CallState, CancelTrade, HasTrade, k
<1> QED
  BY <1>4, <1>6, <1>7, <1>8, <1>9, TradeCallKeeps

(* cancelTrade writes what it did: goods that it gave back are not sold.   *)
LEMMA CancelUpdateKeeps ==
    ASSUME CustodyInv, NEW c \in Call, T!CancelUpdate(c), UNCHANGED loan
    PROVE  CustodyInv' /\ Corrects
<1>1. call[c].op = "cancelTrade" /\ call[c].step = "update"
  BY DEF T!CancelUpdate, T!At
<1>2. PICK t \in Trade : t = call[c].t
  BY <1>1, ListedTrade
<1>3. /\ CallSays(call[c]) /\ FlowTypeOK /\ HasTrade(t)
      /\ trade[t] \in T!TradeRow /\ TradeSays(t)
  BY <1>1, <1>2, ListedTrade
<1>4. Did(T!CancelKey(t)) /\ ~Did(T!TransferKey(t))
  BY <1>1, <1>2, <1>3 DEF CallSays, TradeSays
<1> DEFINE new == [trade[t] EXCEPT !.status = "CANCELLED"]
<1>5. new \in T!TradeRow
  BY <1>3 DEF T!TradeRow, T!TradeStatus
<1>6. PICK row \in T!TradeRow : row = new
  BY <1>5
<1>7. row.status = "CANCELLED" /\ row.receiptId = trade[t].receiptId
  BY <1>3, <1>6 DEF T!TradeRow
<1>8. /\ trade' = [trade EXCEPT ![t] = row] /\ trade'[t] = row /\ row # T!NoTrade
      /\ UNCHANGED <<ledgerVars, told>> /\ call' = [call EXCEPT ![c] = Idle]
  <2>1. T!NoTrade.status = "NONE"
    BY DEF T!NoTrade
  <2> QED
    BY <1>2, <1>3, <1>6, <1>7, <2>1
       DEF T!CancelUpdate, T!Return, T!Idle, T!ledgerVars, ledgerVars, Idle, FlowTypeOK
<1> HIDE DEF new
<1>9. Moves(None)
  BY <1>3, <1>8, StillMoves
<1>10. TradeSays(t)' /\ HasTrade(t)'
  BY <1>3, <1>4, <1>7, <1>8 DEF TradeSays, HasTrade, IsHeld, Did, ledgerVars
<1>11. trade'[t] \in (T!TradeRow \cup {T!NoTrade})'
  <2>1. Minted' = Minted
    BY <1>8 DEF ledgerVars, Minted
  <2> QED
    BY <1>8, <2>1 DEF T!TradeRow, T!Minted, Minted
<1>12. told' \subseteq Trade \X Client
  BY <1>3, <1>8 DEF FlowTypeOK
<1>13. CallSays(Idle)' /\ Idle \in CallState' /\ ~Inserting(Idle)
  BY IdleKnows DEF CallState, CallSays, Idle
<1>14. trade' = [trade EXCEPT ![t] = trade'[t]]
  BY <1>8
<1> QED
  BY <1>3, <1>8, <1>9, <1>10, <1>11, <1>12, <1>13, <1>14, TradeStepKeeps

-----------------------------------------------------------------------------
(* Deposits.                                                               *)

(* The ledger calls of the deposits are the ledger's.                      *)
LEMMA DepositsOverLedger ==
    ASSUME NEW k
    PROVE  /\ \A c, q : D!Deposit(k, c, q) => Deposit(k, c, q)
           /\ \A r : D!ApproveReceipt(k, r) => ApproveReceipt(k, r)
           /\ \A r : D!RejectReceipt(k, r) => RejectReceipt(k, r)
           /\ \A n : D!Exactly(n) = Exactly(n)
           /\ D!Receipt = Receipt /\ D!Minted = Minted
<1>1. \A c, q : D!Deposit(k, c, q) => Deposit(k, c, q)
  BY DEF D!Deposit, D!Record, D!NoEvent, D!NoReceipt, D!Stored,
         Deposit, Record, NoEvent, NoReceipt, Stored
<1>2. \A r : D!ApproveReceipt(k, r) => ApproveReceipt(k, r)
  BY DEF D!ApproveReceipt, D!Record, D!NoEvent, D!NoReceipt, D!Update,
         ApproveReceipt, Record, NoEvent, NoReceipt, Update
<1>3. \A r : D!RejectReceipt(k, r) => RejectReceipt(k, r)
  BY DEF D!RejectReceipt, D!Record, D!NoEvent, D!NoReceipt, D!Update,
         RejectReceipt, Record, NoEvent, NoReceipt, Update
<1>4. (\A n : D!Exactly(n) = Exactly(n)) /\ D!Receipt = Receipt /\ D!Minted = Minted
  BY DEF D!Exactly, Exactly, D!Receipt, Receipt, D!Minted, Minted
<1> QED
  BY <1>1, <1>2, <1>3, <1>4

(* A step of the deposits, under key k or none, is no business of the      *)
(* loans and the trades.                                                   *)
LEMMA DepositStepKeeps ==
    ASSUME CustodyInv, Calm, Corrects, Deposited', UNCHANGED <<loan, trade, told>>,
           NEW k, \A j \in Key : Did(j)' => Did(j) \/ j = k,
           \A l \in Loan : k \notin LoanKeys(l),
           \A t \in Trade : k \notin TradeKeys(t),
           NEW c \in Call, call' = [call EXCEPT ![c] = Idle]
    PROVE  CustodyInv' /\ Corrects
<1>1. \A l \in Loan : LoanSays(l)' /\ loan'[l] \in (L!LoanRow \cup {L!NoLoan})'
  <2> SUFFICES ASSUME NEW l \in Loan
               PROVE  LoanSays(l)' /\ loan'[l] \in (L!LoanRow \cup {L!NoLoan})'
    OBVIOUS
  <2>1. /\ Did(L!ReleaseKey(l))' => Did(L!ReleaseKey(l))
        /\ Did(L!RepayKey(l))' => Did(L!RepayKey(l))
    BY KeysKnown DEF LoanKeys
  <2> QED
    BY <2>1, LoanKept
<1>2. \A t \in Trade : TradeSays(t)' /\ trade'[t] \in (T!TradeRow \cup {T!NoTrade})'
  <2> SUFFICES ASSUME NEW t \in Trade
               PROVE  TradeSays(t)' /\ trade'[t] \in (T!TradeRow \cup {T!NoTrade})'
    OBVIOUS
  <2>1. /\ Did(T!TransferKey(t))' => Did(T!TransferKey(t))
        /\ Did(T!CancelKey(t))' => Did(T!CancelKey(t))
    BY KeysKnown DEF TradeKeys
  <2> QED
    BY <2>1, TradeKept
<1>3. /\ loan' \in [Loan -> (L!LoanRow \cup {L!NoLoan})']
      /\ trade' \in [Trade -> (T!TradeRow \cup {T!NoTrade})']
      /\ told' \subseteq Trade \X Client
  BY <1>1, <1>2 DEF CustodyInv, FlowTypeOK
<1>4. Lent' /\ Traded'
  BY <1>1, <1>2, <1>3 DEF Lent, Traded
<1>5. RowsStay /\ Fresh(c)
  BY DEF RowsStay, Fresh, HasLoan, HasTrade
<1>6. CallSays(Idle)' /\ Idle \in CallState' /\ ~Inserting(Idle)
  BY IdleKnows DEF CallState, CallSays, Idle
<1> QED
  BY <1>4, <1>5, <1>6, StepKeeps

(* A handler that is idle and stays so.                                    *)
LEMMA AtOnceIs ==
    ASSUME CustodyInv, D!AtOnce
    PROVE  \E c \in Call : call' = [call EXCEPT ![c] = Idle]
<1>1. PICK c \in Call : call[c] = Idle
  BY DEF D!AtOnce, D!Idle, Idle
<1> QED
  BY <1>1 DEF D!AtOnce, CustodyInv, FlowTypeOK

(* A deposit is inserted as receipt r, under key k.                        *)
Filed(k, r) ==
    /\ k \in Key /\ ~Did(k) /\ Did(k)'
    /\ \A j \in Key \ {k} : event'[j] = event[j] /\ (Did(j)' <=> event[j] # NoEvent)
    /\ r \in Receipt /\ r \notin Minted /\ Minted' = Minted \cup {r}
    /\ receipt'[r].status = "PENDING_APPROVAL" /\ receipt'[r].parent = NoReceipt
    /\ receipt'[r].root = r /\ receipt'[r].sourceEvent = k
    /\ \A s \in Receipt \ {r} : receipt'[s] = receipt[s]
    /\ TableTypeOK' /\ JournalTypeOK'

LEMMA FilingIs ==
    ASSUME FlowTypeOK, NEW d \in Filing, D!CreateDeposit(d)
    PROVE  \E r \in Receipt : Filed(D!FileKey(d), r)
<1> DEFINE k == D!FileKey(d)
<1>0. PICK id : id = minted + 1
  OBVIOUS
<1>1. PICK client \in Client, n \in D!Quantity : Deposit(k, client, Exactly(n))
  BY DepositsOverLedger DEF D!CreateDeposit
<1>2. n \in Nat /\ Stored(Exactly(n)) = n /\ FlowTypeOK /\ TableTypeOK /\ JournalTypeOK
  BY BoundsAssumption, WholeIsExact DEF D!Quantity, FlowTypeOK, LedgerTypeOK
<1>3. k \in Key
  BY KeysKnown
<1> DEFINE row == [status |-> "PENDING_APPROVAL", approval |-> "PENDING", quantity |-> n,
                   owner |-> client, parent |-> NoReceipt, root |-> id,
                   isParent |-> FALSE, sourceTxn |-> None, sourceEvent |-> k]
<1> HIDE DEF k
<1>4. /\ minted' = id /\ Record(k, "DEPOSIT", id, n) /\ minted < MaxReceipts
      /\ receipt' = [receipt EXCEPT ![id] = row]
  BY <1>0, <1>1, <1>2 DEF Deposit
<1>5. /\ Minted \subseteq Receipt /\ id \in Receipt /\ id \notin Minted
      /\ Minted' = Minted \cup {id} /\ minted' \in 0..MaxReceipts
  BY <1>0, <1>2, <1>4, BoundsAssumption DEF TableTypeOK, Minted, Receipt
<1>6. row \in Row
  BY <1>2, <1>3, <1>5 DEF Row, Status, Approval
<1>7. /\ row.status = "PENDING_APPROVAL" /\ row.parent = NoReceipt /\ row.root = id
      /\ row.sourceEvent = k
  OBVIOUS
<1> HIDE DEF row
<1>8. receipt'[id] = row /\ \A r \in Receipt \ {id} : receipt'[r] = receipt[r]
  BY <1>2, <1>4, <1>5 DEF TableTypeOK
<1>9. TableTypeOK'
  <2>1. receipt' \in [Receipt -> Row \cup {NoRow}]
    BY <1>2, <1>4, <1>5, <1>6 DEF TableTypeOK
  <2>2. \A r \in Receipt : receipt'[r] \in Row <=> r \in Minted'
    BY <1>2, <1>5, <1>6, <1>8 DEF TableTypeOK
  <2> QED
    BY <1>5, <2>1, <2>2 DEF TableTypeOK
<1>10. /\ JournalTypeOK' /\ ~Did(k) /\ Did(k)'
       /\ \A j \in Key \ {k} : event'[j] = event[j] /\ (Did(j)' <=> event[j] # NoEvent)
  BY <1>2, <1>3, <1>4, <1>5, RowRecorded DEF EventType
<1> QED
  BY <1>3, <1>5, <1>7, <1>8, <1>9, <1>10 DEF Filed, k

(* createDeposit draws an id of which nobody has said anything yet.        *)
LEMMA CreateDepositKeeps ==
    ASSUME CustodyInv, NEW d \in Filing, D!CreateDeposit(d), UNCHANGED <<loan, trade, told>>
    PROVE  CustodyInv' /\ Corrects
<1> DEFINE k == D!FileKey(d)
<1>1. FlowTypeOK /\ TableTypeOK
  BY DEF CustodyInv, FlowTypeOK, LedgerTypeOK
<1>2. PICK id \in Receipt : Filed(k, id)
  BY <1>1, FilingIs
<1>3. /\ k \in Key /\ \A r \in Receipt : JudgeKeys(r) \subseteq Key /\ k \notin JudgeKeys(r)
      /\ \A l \in Loan : k \notin LoanKeys(l)
      /\ \A t \in Trade : k \notin TradeKeys(t)
  BY KeysKnown, KeysApart
<1> HIDE DEF k
<1>5. /\ Minted \subseteq Receipt /\ id \notin Minted /\ Minted' = Minted \cup {id}
  BY <1>1, <1>2, RowTyped DEF Filed
<1>7. /\ receipt'[id].status = "PENDING_APPROVAL" /\ receipt'[id].parent = NoReceipt
      /\ receipt'[id].root = id
  BY <1>2 DEF Filed
<1>8. \A r \in Receipt \ {id} : receipt'[r] = receipt[r]
  BY <1>2 DEF Filed
<1>9. TableTypeOK'
  BY <1>2 DEF Filed
<1>10. /\ JournalTypeOK' /\ ~Did(k) /\ Did(k)'
       /\ \A j \in Key \ {k} : Did(j)' <=> event[j] # NoEvent
  BY <1>2 DEF Filed
<1>11. Calm /\ Corrects
  BY <1>5, <1>8, <1>9, <1>10 DEF Calm, Corrects, Did, IsHeld
<1>12. \A r \in Receipt : /\ Did(D!ApproveKey(r))' <=> event[D!ApproveKey(r)] # NoEvent
                          /\ Did(D!RejectKey(r))' <=> event[D!RejectKey(r)] # NoEvent
  <2> SUFFICES ASSUME NEW r \in Receipt
               PROVE  \A j \in JudgeKeys(r) : Did(j)' <=> event[j] # NoEvent
    BY DEF JudgeKeys
  <2> QED
    BY <1>3, <1>10
<1>13. \A r \in Receipt : VerdictSays(r)'
  <2> SUFFICES ASSUME NEW r \in Receipt
               PROVE  VerdictSays(r)'
    OBVIOUS
  <2>1. VerdictSays(r)
    BY DEF CustodyInv
  <2> QED
    BY <1>5, <1>8, <1>12, <2>1 DEF VerdictSays, Did
<1>14. \A r \in Minted' : RootSays(r)'
  <2>1. RootSays(id)'
    BY <1>7, <1>8 DEF RootSays, Unjudged
  <2>2. ASSUME NEW r \in Minted
        PROVE  RootSays(r)'
    <3>1. RootSays(r) /\ receipt[r].root \in Receipt /\ r \in Receipt \ {id}
      BY <1>1, <1>5, RowTyped DEF CustodyInv, Row
    <3>2. PICK x \in Receipt : x = receipt[r].root
      BY <3>1
    <3> QED
      BY <1>8, <1>12, <3>1, <3>2 DEF RootSays, Did
  <2> QED
    BY <1>5, <2>1, <2>2
<1>15. \A j \in Key : Did(j)' => Did(j) \/ j = k
  BY <1>10 DEF Did
<1>16. PICK c \in Call : call' = [call EXCEPT ![c] = Idle]
  BY AtOnceIs DEF D!CreateDeposit
<1> QED
  BY <1>3, <1>11, <1>13, <1>14, <1>15, <1>16, DepositStepKeeps DEF Deposited

(* One verdict is written on deposit r, under its key k.                   *)
Judged(k, r) ==
    /\ receipt[r].status = "PENDING_APPROVAL" /\ ~Did(k) /\ Did(k)'
    /\ event'[k].quantity = receipt[r].quantity
    /\ \A j \in Key \ {k} : event'[j] = event[j] /\ (Did(j)' <=> event[j] # NoEvent)
    /\ receipt'[r].status = IF k = D!ApproveKey(r) THEN "ACTIVE" ELSE "CANCELLED"
    /\ receipt'[r].approval = IF k = D!ApproveKey(r) THEN "APPROVED" ELSE "REJECTED"
    /\ receipt'[r].parent = receipt[r].parent /\ receipt'[r].root = receipt[r].root
    /\ receipt'[r].owner = receipt[r].owner /\ receipt'[r].quantity = receipt[r].quantity
    /\ receipt'[r].sourceTxn = receipt[r].sourceTxn
    /\ receipt'[r].sourceEvent = receipt[r].sourceEvent
    /\ \A s \in Receipt \ {r} : receipt'[s] = receipt[s]
    /\ Minted' = Minted /\ TableTypeOK' /\ JournalTypeOK'

LEMMA VerdictIs ==
    ASSUME FlowTypeOK, NEW r \in Minted, D!Approve(r) \/ D!Reject(r)
    PROVE  \E k \in JudgeKeys(r) : Judged(k, r)
<1>1. /\ TableTypeOK /\ JournalTypeOK /\ r \in Receipt /\ receipt[r] \in Row
      /\ Minted \subseteq Receipt
  BY RowTyped DEF FlowTypeOK, LedgerTypeOK
<1> DEFINE ka == D!ApproveKey(r)
           kr == D!RejectKey(r)
<1>2. ka \in Key /\ kr \in Key /\ ka # kr
  BY <1>1, KeysKnown, KeysApart DEF JudgeKeys
<1> HIDE DEF ka, kr
<1>3. PICK k \in {ka, kr}, type \in EventType, row \in Row :
          /\ receipt[r].status = "PENDING_APPROVAL"
          /\ Record(k, type, r, receipt[r].quantity) /\ Update(r, row)
          /\ row.status = IF k = ka THEN "ACTIVE" ELSE "CANCELLED"
          /\ row.parent = receipt[r].parent /\ row.root = receipt[r].root
          /\ row.owner = receipt[r].owner /\ row.quantity = receipt[r].quantity
          /\ row.sourceTxn = receipt[r].sourceTxn
          /\ row.sourceEvent = receipt[r].sourceEvent
          /\ row.approval = IF k = ka THEN "APPROVED" ELSE "REJECTED"
  <2>1. CASE D!Approve(r)
    <3> DEFINE new == [receipt[r] EXCEPT !.status = "ACTIVE", !.approval = "APPROVED"]
    <3>1. ApproveReceipt(ka, r)
      BY <2>1, DepositsOverLedger DEF D!Approve, ka
    <3>2. /\ new \in Row /\ new.status = "ACTIVE" /\ new.parent = receipt[r].parent
          /\ new.root = receipt[r].root /\ new.owner = receipt[r].owner
          /\ new.quantity = receipt[r].quantity /\ "APPROVED" \in EventType
          /\ new.sourceTxn = receipt[r].sourceTxn
          /\ new.sourceEvent = receipt[r].sourceEvent /\ new.approval = "APPROVED"
      BY <1>1 DEF Row, Status, Approval, EventType
    <3>3. /\ receipt[r].status = "PENDING_APPROVAL" /\ Update(r, new)
          /\ Record(ka, "APPROVED", r, receipt[r].quantity)
      BY <3>1 DEF ApproveReceipt
    <3> HIDE DEF new
    <3> QED
      BY <3>2, <3>3
  <2>2. CASE D!Reject(r)
    <3> DEFINE new == [receipt[r] EXCEPT !.status = "CANCELLED", !.approval = "REJECTED"]
    <3>1. RejectReceipt(kr, r)
      BY <2>2, DepositsOverLedger DEF D!Reject, kr
    <3>2. /\ new \in Row /\ new.status = "CANCELLED" /\ new.parent = receipt[r].parent
          /\ new.root = receipt[r].root /\ new.owner = receipt[r].owner
          /\ new.quantity = receipt[r].quantity /\ "REJECTED" \in EventType
          /\ new.sourceTxn = receipt[r].sourceTxn
          /\ new.sourceEvent = receipt[r].sourceEvent /\ new.approval = "REJECTED"
      BY <1>1 DEF Row, Status, ClosedStatus, Approval, EventType
    <3>3. /\ receipt[r].status = "PENDING_APPROVAL" /\ Update(r, new)
          /\ Record(kr, "REJECTED", r, receipt[r].quantity)
      BY <3>1 DEF RejectReceipt
    <3> HIDE DEF new
    <3> QED
      BY <1>2, <3>2, <3>3
  <2> QED
    BY <2>1, <2>2
<1>4. /\ JournalTypeOK' /\ ~Did(k) /\ Did(k)' /\ event'[k].quantity = receipt[r].quantity
      /\ \A j \in Key \ {k} : event'[j] = event[j] /\ (Did(j)' <=> event[j] # NoEvent)
  <2>1. receipt[r].quantity \in Nat /\ k \in Key
    BY <1>1, <1>2 DEF Row
  <2> QED
    BY <1>1, <1>3, <2>1, RowRecorded
<1>5. TableTypeOK' /\ Minted' = Minted /\ receipt'[r] = row
  BY <1>1, <1>3, RowUpdated
<1>6. \A s \in Receipt \ {r} : receipt'[s] = receipt[s]
  BY <1>1, <1>3 DEF Update, TableTypeOK
<1> QED
  BY <1>3, <1>4, <1>5, <1>6 DEF Judged, JudgeKeys, ka, kr

(* The administrator's approval or rejection of a deposit that awaits it,  *)
(* so that there is no other verdict.                                      *)
LEMMA JudgeKeeps ==
    ASSUME CustodyInv, NEW r \in Minted, D!Approve(r) \/ D!Reject(r),
           UNCHANGED <<loan, trade, told>>
    PROVE  CustodyInv' /\ Corrects
<1>1. /\ FlowTypeOK /\ TableTypeOK /\ JournalTypeOK /\ r \in Receipt /\ receipt[r] \in Row
      /\ Minted \subseteq Receipt
  BY RowTyped DEF CustodyInv, FlowTypeOK, LedgerTypeOK
<1> DEFINE ka == D!ApproveKey(r)
           kr == D!RejectKey(r)
<1>2. /\ ka \in Key /\ kr \in Key /\ ka # kr
      /\ \A s \in Receipt : JudgeKeys(s) \subseteq Key
      /\ \A s \in Receipt \ {r} : ka \notin JudgeKeys(s) /\ kr \notin JudgeKeys(s)
      /\ \A l \in Loan : ka \notin LoanKeys(l) /\ kr \notin LoanKeys(l)
      /\ \A t \in Trade : ka \notin TradeKeys(t) /\ kr \notin TradeKeys(t)
  BY <1>1, KeysKnown, KeysApart DEF JudgeKeys
<1> HIDE DEF ka, kr
<1>3. PICK k \in {ka, kr} : Judged(k, r)
  BY <1>1, VerdictIs DEF JudgeKeys, ka, kr
<1>4. /\ JournalTypeOK' /\ ~Did(k) /\ Did(k)'
      /\ \A j \in Key \ {k} : Did(j)' <=> event[j] # NoEvent
  BY <1>3 DEF Judged
<1>5. /\ TableTypeOK' /\ Minted' = Minted
      /\ \A s \in Minted \ {r} : receipt'[s] = receipt[s]
      /\ \A s \in Receipt \ {r} : receipt'[s] = receipt[s]
  BY <1>1, <1>3 DEF Judged
<1>5a. /\ receipt[r].status = "PENDING_APPROVAL"
       /\ receipt'[r].status = IF k = ka THEN "ACTIVE" ELSE "CANCELLED"
       /\ receipt'[r].parent = receipt[r].parent /\ receipt'[r].root = receipt[r].root
       /\ receipt'[r].owner = receipt[r].owner /\ receipt'[r].quantity = receipt[r].quantity
  BY <1>3 DEF Judged, ka
<1>6. Calm /\ Corrects
  <2>1. receipt'[r].status \notin HeldStatus
    BY <1>5a DEF HeldStatus
  <2> QED
    BY <1>5a, <1>4, <1>5, <2>1 DEF Calm, Corrects, Did, IsHeld
<1>7. VerdictSays(r) /\ RootSays(r) /\ Did(k)' /\ r \in Minted'
  BY <1>1, <1>4, <1>5 DEF CustodyInv
<1>8. /\ ~Did(ka) /\ ~Did(kr)
      /\ receipt[r].parent = NoReceipt /\ receipt[r].root = r
  <2>1. "PENDING_APPROVAL" # "CANCELLED"
    OBVIOUS
  <2> QED
    BY <1>5a, <1>7, <2>1 DEF VerdictSays, RootSays, Unjudged, ka, kr
<1>9. /\ k = ka => ~Did(kr)'
      /\ k = kr => ~Did(ka)'
  BY <1>2, <1>4, <1>8 DEF Did
<1>10. VerdictSays(r)' /\ RootSays(r)'
  <2>1. CASE k = ka
    BY <1>2, <1>5a, <1>4, <1>5, <1>7, <1>8, <1>9, <2>1
       DEF VerdictSays, RootSays, Unjudged, Did, ka, kr
  <2>2. CASE k = kr
    BY <1>2, <1>5a, <1>4, <1>5, <1>7, <1>8, <1>9, <2>2
       DEF VerdictSays, RootSays, Unjudged, Did, ka, kr
  <2> QED
    BY <2>1, <2>2
<1>11. \A s \in Receipt \ {r} :
          /\ Did(D!ApproveKey(s))' <=> event[D!ApproveKey(s)] # NoEvent
          /\ Did(D!RejectKey(s))' <=> event[D!RejectKey(s)] # NoEvent
  <2> SUFFICES ASSUME NEW s \in Receipt \ {r}
               PROVE  \A j \in JudgeKeys(s) : Did(j)' <=> event[j] # NoEvent
    BY DEF JudgeKeys
  <2> QED
    BY <1>2, <1>3, <1>4
<1>12. \A s \in Receipt : VerdictSays(s)'
  <2> SUFFICES ASSUME NEW s \in Receipt \ {r}
               PROVE  VerdictSays(s)'
    BY <1>10
  <2>1. VerdictSays(s)
    BY DEF CustodyInv
  <2> QED
    BY <1>5, <1>11, <2>1 DEF VerdictSays, Did
<1>13. \A s \in Minted' : RootSays(s)'
  <2> SUFFICES ASSUME NEW s \in Minted \ {r}
               PROVE  RootSays(s)'
    BY <1>5, <1>10
  <2>1. RootSays(s) /\ receipt'[s] = receipt[s] /\ receipt[s].root \in Receipt
    BY <1>1, <1>5, RowTyped DEF CustodyInv, Row
  <2>2. PICK x \in Receipt : x = receipt[s].root
    BY <2>1
  <2>3. Did(D!ApproveKey(x)) => Did(D!ApproveKey(x))'
    BY <1>2, <1>6 DEF Calm, JudgeKeys
  <2> QED
    BY <2>1, <2>2, <2>3 DEF RootSays, Did
<1>14. \A j \in Key : Did(j)' => Did(j) \/ j = k
  BY <1>4 DEF Did
<1>15. PICK c \in Call : call' = [call EXCEPT ![c] = Idle]
  BY AtOnceIs DEF D!Approve, D!Reject
<1>16. /\ \A l \in Loan : k \notin LoanKeys(l)
       /\ \A t \in Trade : k \notin TradeKeys(t)
  BY <1>2, <1>3
<1> QED
  BY <1>6, <1>12, <1>13, <1>14, <1>15, <1>16, DepositStepKeeps DEF Deposited

(* A correction writes the quantity of root r.                             *)
Corrected(r) ==
    /\ receipt[r].parent = NoReceipt
    /\ receipt'[r].status = receipt[r].status /\ receipt'[r].approval = receipt[r].approval
    /\ receipt'[r].parent = receipt[r].parent /\ receipt'[r].root = receipt[r].root
    /\ receipt'[r].owner = receipt[r].owner
    /\ receipt'[r].sourceTxn = receipt[r].sourceTxn
    /\ receipt'[r].sourceEvent = receipt[r].sourceEvent
    /\ \A s \in Receipt \ {r} : receipt'[s] = receipt[s]
    /\ Minted' = Minted /\ event' = event /\ TableTypeOK' /\ JournalTypeOK'

LEMMA CorrectionIs ==
    ASSUME CustodyInv, NEW c \in Call, D!EditUpdate(c)
    PROVE  /\ call[c] \in EditDeposit /\ call[c].r \in Minted /\ Corrected(call[c].r)
           /\ call' = [call EXCEPT ![c] = Idle]
<1>1. call[c] \in EditDeposit /\ CallSays(call[c]) /\ FlowTypeOK
  <2>1. call[c].op = "editDeposit" /\ call[c] \in CallState
    BY DEF D!EditUpdate, D!At, CustodyInv, FlowTypeOK
  <2> QED
    BY <2>1, KindOf DEF CustodyInv
<1>2. PICK r \in Minted, n \in D!Quantity : r = call[c].r /\ n = call[c].quantity
  BY <1>1 DEF EditDeposit
<1>3. /\ TableTypeOK /\ JournalTypeOK /\ r \in Receipt /\ receipt[r] \in Row
      /\ Minted \subseteq Receipt /\ n \in Nat /\ receipt[r].parent = NoReceipt
  BY <1>1, <1>2, RowTyped, BoundsAssumption
     DEF FlowTypeOK, LedgerTypeOK, D!Quantity, CallSays, EditDeposit
<1> DEFINE new == [receipt[r] EXCEPT !.quantity = n]
<1>4. /\ new \in Row /\ new.status = receipt[r].status /\ new.parent = receipt[r].parent
      /\ new.root = receipt[r].root /\ new.owner = receipt[r].owner
      /\ new.sourceTxn = receipt[r].sourceTxn /\ new.sourceEvent = receipt[r].sourceEvent
      /\ new.approval = receipt[r].approval
  BY <1>3 DEF Row
<1>5. /\ Update(r, new) /\ UNCHANGED event /\ call' = [call EXCEPT ![c] = Idle]
  BY <1>2, <1>3 DEF D!EditUpdate, D!Return, D!Idle, Idle, Update, TableTypeOK
<1> HIDE DEF new
<1>6. /\ TableTypeOK' /\ Minted' = Minted /\ receipt'[r] = new
      /\ \A s \in Minted \ {r} : receipt'[s] = receipt[s]
      /\ \A s \in Receipt \ {r} : receipt'[s] = receipt[s]
  <2>1. \A s \in Receipt \ {r} : receipt'[s] = receipt[s]
    BY <1>3, <1>5 DEF Update, TableTypeOK
  <2> QED
    BY <1>3, <1>4, <1>5, <2>1, RowUpdated
<1>7. JournalTypeOK' /\ \A k : Did(k)' <=> event[k] # NoEvent
  BY <1>3, <1>5 DEF JournalTypeOK, Did
<1> QED
  BY <1>1, <1>2, <1>3, <1>4, <1>5, <1>6, <1>7 DEF Corrected

(* applyDepositEdit writes the quantity of the deposit it was made for,    *)
(* however late.                                                           *)
LEMMA EditDepositKeeps ==
    ASSUME CustodyInv, NEW c \in Call, D!EditUpdate(c), UNCHANGED <<loan, trade, told>>
    PROVE  CustodyInv' /\ Corrects
<1>1. PICK r \in Minted : r = call[c].r /\ Corrected(r)
  BY CorrectionIs
<1>2. call' = [call EXCEPT ![c] = Idle]
  BY CorrectionIs
<1>3. Minted \subseteq Receipt /\ r \in Receipt /\ receipt[r].parent = NoReceipt
  BY <1>1, RowTyped DEF CustodyInv, FlowTypeOK, LedgerTypeOK, Corrected
<1>6. /\ TableTypeOK' /\ Minted' = Minted
      /\ \A s \in Receipt \ {r} : receipt'[s] = receipt[s]
      /\ receipt'[r].status = receipt[r].status /\ receipt'[r].parent = receipt[r].parent
      /\ receipt'[r].root = receipt[r].root /\ receipt'[r].owner = receipt[r].owner
  BY <1>1 DEF Corrected
<1>7. JournalTypeOK' /\ UNCHANGED event /\ \A k : Did(k)' <=> event[k] # NoEvent
  BY <1>1 DEF Corrected, Did
<1>8. Calm /\ Corrects
  BY <1>3, <1>6, <1>7 DEF Calm, Corrects, Did, IsHeld
<1>9. \A s \in Receipt : /\ receipt'[s].status = receipt[s].status
                         /\ receipt'[s].parent = receipt[s].parent
                         /\ receipt'[s].root = receipt[s].root
  BY <1>6
<1>10. \A s \in Receipt : VerdictSays(s)'
  BY <1>6, <1>7, <1>9 DEF CustodyInv, VerdictSays, Did
<1>11. \A s \in Minted' : RootSays(s)'
  <2> SUFFICES ASSUME NEW s \in Minted
               PROVE  RootSays(s)'
    BY <1>6
  <2>1. RootSays(s) /\ s \in Receipt
    BY <1>3 DEF CustodyInv
  <2> QED
    BY <1>7, <1>9, <2>1 DEF RootSays, Did
<1>12. \A j \in Key : Did(j)' => Did(j) \/ j = None
  BY <1>7 DEF Did
<1>13. /\ \A l \in Loan : None \notin LoanKeys(l)
       /\ \A t \in Trade : None \notin TradeKeys(t)
  BY KeysKnown, NoneAssumption
<1> QED
  BY <1>2, <1>8, <1>10, <1>11, <1>12, <1>13, DepositStepKeeps DEF Deposited

-----------------------------------------------------------------------------
(* Every step keeps the invariant.                                         *)

(* A step that leaves the handlers alone and writes no row.                *)
LEMMA SameHandlersKeep ==
    ASSUME CustodyInv, UNCHANGED <<ledgerVars, loan, trade, call>>,
           told' \subseteq Trade \X Client
    PROVE  CustodyInv' /\ Corrects
<1>1. Calm /\ Corrects /\ RowsStay /\ Deposited' /\ Lent' /\ Traded'
  BY NothingDone
<1>2. ASSUME NEW c \in Call
      PROVE  CallSays(call[c])' /\ call'[c] \in CallState'
  <2>1. PICK s \in CallState : s = call[c]
    BY DEF CustodyInv, FlowTypeOK
  <2>2. CallSays(s)
    BY <2>1 DEF CustodyInv
  <2>3. /\ s.op = "createLoan" /\ s.step = "insert" => ~HasLoan(s.l)'
        /\ s.op = "createTrade" /\ s.step = "insert" => ~HasTrade(s.t)'
    BY <2>2 DEF CallSays, HasLoan, HasTrade
  <2>4. CallSays(s)' /\ s \in CallState'
    BY <1>1, <2>2, <2>3, CallKept
  <2> QED
    BY <2>1, <2>4 DEF CallSays
<1>3. FlowTypeOK'
  <2>1. call' \in [Call -> CallState']
    BY <1>2 DEF CustodyInv, FlowTypeOK
  <2> QED
    BY <1>1, <2>1 DEF FlowTypeOK, Calm, LedgerTypeOK, Lent, Traded
<1>4. \A c, d \in Call :
         c # d /\ Inserting(call'[c]) /\ Inserting(call'[d]) => Apart(call'[c], call'[d])
  BY DEF CustodyInv
<1> QED
  BY <1>1, <1>2, <1>3, <1>4 DEF CustodyInv, Deposited, Lent, Traded, Inserting, Apart

(* A buyer who is told again what he was told before.                      *)
LEMMA SettleAgainKeeps ==
    ASSUME CustodyInv, NEW t \in Trade, NEW b \in Client, T!SettleAgain(t, b), UNCHANGED loan
    PROVE  CustodyInv' /\ Corrects
<1>1. UNCHANGED <<ledgerVars, loan, trade, call>> /\ told' = told \cup {<<t, b>>}
  BY DEF T!SettleAgain, T!ledgerVars, ledgerVars
<1>2. told' \subseteq Trade \X Client
  BY <1>1 DEF CustodyInv, FlowTypeOK
<1> QED
  BY <1>1, <1>2, SameHandlersKeep

LEMMA InitKeeps == Init => CustodyInv
<1> SUFFICES ASSUME Init
             PROVE  CustodyInv
  OBVIOUS
<1>1. LedgerInit /\ call = [c \in Call |-> Idle] /\ L!LoanInit /\ T!TradeInit
  BY DEF Init, D!Init, D!LedgerInit, LedgerInit, D!NoRow, NoRow, D!NoEvent, NoEvent,
         D!Receipt, Receipt, D!Idle, Idle, D!NoReceipt, NoReceipt
<1>2. LedgerTypeOK /\ Minted = {}
  BY <1>1, InitKeepsInv DEF LedgerInv, LedgerTypeOK, LedgerInit, Minted
<1>3. /\ \A l \in Loan : ~HasLoan(l)
      /\ \A t \in Trade : ~HasTrade(t)
      /\ \A k \in Key : ~Did(k)
  BY <1>1 DEF L!LoanInit, T!TradeInit, LedgerInit, HasLoan, HasTrade, Did
<1>4. FlowTypeOK
  BY <1>1, <1>2, IdleKnows DEF FlowTypeOK, L!LoanInit, T!TradeInit
<1>5. \A r \in Receipt : VerdictSays(r)
  <2> SUFFICES ASSUME NEW r \in Receipt
               PROVE  VerdictSays(r)
    OBVIOUS
  <2>1. ~Did(D!ApproveKey(r)) /\ ~Did(D!RejectKey(r))
    BY <1>3, KeysKnown DEF JudgeKeys
  <2> QED
    BY <2>1 DEF VerdictSays
<1>6. \A l \in Loan : LoanSays(l)
  <2> SUFFICES ASSUME NEW l \in Loan
               PROVE  LoanSays(l)
    OBVIOUS
  <2>1. ~Did(L!ReleaseKey(l)) /\ ~Did(L!RepayKey(l)) /\ ~HasLoan(l)
    BY <1>3, KeysKnown DEF LoanKeys
  <2> QED
    BY <2>1 DEF LoanSays
<1>7. \A t \in Trade : TradeSays(t)
  <2> SUFFICES ASSUME NEW t \in Trade
               PROVE  TradeSays(t)
    OBVIOUS
  <2>1. ~Did(T!TransferKey(t)) /\ ~Did(T!CancelKey(t)) /\ ~HasTrade(t)
    BY <1>3, KeysKnown DEF TradeKeys
  <2> QED
    BY <2>1 DEF TradeSays
<1>8. \A c \in Call : CallSays(call[c]) /\ ~Inserting(call[c])
  BY <1>1, IdleKnows
<1> QED
  BY <1>2, <1>4, <1>5, <1>6, <1>7, <1>8 DEF CustodyInv

LEMMA DepositNextKeeps ==
    ASSUME CustodyInv, D!Next, UNCHANGED <<loan, trade, told>>
    PROVE  CustodyInv' /\ Corrects
<1>1. CASE \E d \in Filing : D!CreateDeposit(d)
  BY <1>1, CreateDepositKeeps
<1>2. CASE \E c \in Call, r \in D!Minted, n \in D!Quantity : D!EditLoad(c, r, n)
  BY <1>2, DepositsOverLedger, EditLoadKeeps
<1>3. CASE \E c \in Call : D!EditUpdate(c) \/ D!Abort(c)
  BY <1>3, EditDepositKeeps, AbortKeeps
<1>4. CASE \E r \in D!Minted : D!Approve(r) \/ D!Reject(r)
  BY <1>4, DepositsOverLedger, JudgeKeeps
<1> QED
  BY <1>1, <1>2, <1>3, <1>4 DEF D!Next

LEMMA LoanNextKeeps ==
    ASSUME CustodyInv, L!Next, UNCHANGED <<trade, told>>
    PROVE  CustodyInv' /\ Corrects
<1>1. PICK c \in Call :
         L!Create(c) \/ L!Approve(c) \/ L!Reject(c) \/ L!Repay(c) \/ L!Edit(c) \/ L!Abort(c)
  BY DEF L!Next
<1>2. CASE L!Create(c)
  BY <1>2, LoansOverLedger, CreateLoadKeeps, LoanHoldKeeps, LoanInsertKeeps DEF L!Create
<1>3. CASE L!Approve(c)
  BY <1>3, LoanLoadKeeps, LoanLedgerKeeps, LoanUpdateKeeps DEF L!Approve
<1>4. CASE L!Reject(c)
  BY <1>4, LoanLoadKeeps, LoanLedgerKeeps, LoanUpdateKeeps DEF L!Reject
<1>5. CASE L!Repay(c)
  BY <1>5, LoanLoadKeeps, LoanLedgerKeeps, LoanUpdateKeeps DEF L!Repay
<1>6. CASE L!Edit(c)
  BY <1>6, LoanLoadKeeps, LoanEditKeeps DEF L!Edit
<1>7. CASE L!Abort(c)
  BY <1>7, AbortKeeps
<1> QED
  BY <1>1, <1>2, <1>3, <1>4, <1>5, <1>6, <1>7

LEMMA TradeNextKeeps ==
    ASSUME CustodyInv, T!Next, UNCHANGED loan
    PROVE  CustodyInv' /\ Corrects
<1>1. CASE \E t \in Trade, b \in Client : T!SettleAgain(t, b)
  BY <1>1, SettleAgainKeeps
<1>2. ASSUME NEW c \in Call, T!Create(c)
      PROVE  CustodyInv' /\ Corrects
  BY <1>2, TradesOverLedger, CreateLoadKeeps, TradeHoldKeeps, TradeInsertKeeps DEF T!Create
<1>3. ASSUME NEW c \in Call, T!Settle(c)
      PROVE  CustodyInv' /\ Corrects
  BY <1>3, TradeLoadKeeps, SettleTransferKeeps, SettleReplayKeeps DEF T!Settle
<1>4. ASSUME NEW c \in Call, T!Cancel(c)
      PROVE  CustodyInv' /\ Corrects
  BY <1>4, TradeLoadKeeps, CancelReleaseKeeps, CancelUpdateKeeps DEF T!Cancel
<1>5. ASSUME NEW c \in Call, T!Abort(c)
      PROVE  CustodyInv' /\ Corrects
  BY <1>5, AbortKeeps
<1> QED
  BY <1>1, <1>2, <1>3, <1>4, <1>5 DEF T!Next

LEMMA NextKeeps == CustodyInv /\ [Next]_vars => CustodyInv' /\ Corrects
<1> SUFFICES ASSUME CustodyInv, [Next]_vars
             PROVE  CustodyInv' /\ Corrects
  OBVIOUS
<1>1. CASE UNCHANGED vars
  <2>1. UNCHANGED <<ledgerVars, loan, trade, call>> /\ told' \subseteq Trade \X Client
    BY <1>1 DEF vars, CustodyInv, FlowTypeOK
  <2> QED
    BY <2>1, SameHandlersKeep
<1>2. CASE Next
  BY <1>2, DepositNextKeeps, LoanNextKeeps, TradeNextKeeps DEF Next
<1> QED
  BY <1>1, <1>2

-----------------------------------------------------------------------------
(* The services read one journal.                                          *)
LEMMA OneJournal ==
    /\ D!NoEvent = NoEvent /\ L!NoEvent = NoEvent /\ T!NoEvent = NoEvent
    /\ D!NoReceipt = NoReceipt
  BY DEF D!NoEvent, L!NoEvent, T!NoEvent, NoEvent, D!NoReceipt, L!NoReceipt, T!NoReceipt,
         NoReceipt

(* What the three services know together holds of every reachable state.   *)
THEOREM CustodyInvariance == Spec => []CustodyInv
  BY InitKeeps, NextKeeps, PTL DEF Spec

(* approveReceipt and rejectReceipt: of a deposit there is one verdict,    *)
(* whoever clicks first, and nothing was ever split from one that was not  *)
(* approved, with any number of loans, listings and corrections around it. *)
THEOREM DepositsHaveOneVerdict == Spec => []OneVerdict
<1>1. CustodyInv => TypeOK
  BY DEF CustodyInv, FlowTypeOK, TypeOK, L!LoanTypeOK, L!Exists, T!TradeTypeOK, T!Exists
<1>2. CustodyInv => D!OneVerdict
  <2> SUFFICES ASSUME CustodyInv, NEW r \in Minted
               PROVE  /\ ~(Did(D!ApproveKey(r)) /\ Did(D!RejectKey(r)))
                      /\ receipt[r].parent # NoReceipt =>
                            /\ Did(D!ApproveKey(receipt[r].root))
                            /\ ~Did(D!RejectKey(receipt[r].root))
    BY DepositsOverLedger, OneJournal DEF D!OneVerdict, D!Did, Did
  <2>1. /\ r \in Receipt /\ RootSays(r) /\ VerdictSays(r)
        /\ receipt[r] \in Row /\ receipt[r].root \in Receipt
    BY RowTyped DEF CustodyInv, FlowTypeOK, LedgerTypeOK, Row
  <2>2. PICK x \in Receipt : x = receipt[r].root
    BY <2>1
  <2>3. VerdictSays(x)
    BY DEF CustodyInv
  <2> QED
    BY <2>1, <2>2, <2>3 DEF RootSays, VerdictSays
<1>3. CustodyInv => OneVerdict
  BY <1>1, <1>2 DEF OneVerdict
<1> QED
  BY <1>3, CustodyInvariance, PTL

(* rejectLoan and repayLoan: a loan that was rejected or repaid has let go *)
(* of its collateral, which one of the two gave back, the repayment only   *)
(* after an approval, whatever approvals and corrections raced with them.  *)
THEOREM CollateralIsFreedOnce == Spec => []LoanCollateralFreedOnce
<1>1. CustodyInv => ClosedLoanFreesCollateral
  <2> SUFFICES ASSUME CustodyInv, NEW l \in Loan, loan[l].status \in {"REJECTED", "REPAID"}
               PROVE  ~IsHeld(loan[l].receiptId)
    BY DEF ClosedLoanFreesCollateral, L!ClosedLoanFreesCollateral, L!IsHeld, IsHeld,
           L!HeldStatus, HeldStatus
  <2>1. HasLoan(l) /\ LoanSays(l)
    BY DEF CustodyInv, HasLoan, L!NoLoan
  <2> QED
    BY <2>1 DEF LoanSays
<1>2. CustodyInv => ReleasedOnce
  <2> SUFFICES ASSUME CustodyInv, NEW l \in Loan
               PROVE  /\ ~(event[L!ReleaseKey(l)] # NoEvent /\ event[L!RepayKey(l)] # NoEvent)
                      /\ event[L!RepayKey(l)] # NoEvent => event[L!ApproveKey(l)] # NoEvent
    BY OneJournal DEF ReleasedOnce, L!ReleasedOnce, L!Did
  <2>1. LoanSays(l)
    BY DEF CustodyInv
  <2> QED
    BY <2>1 DEF LoanSays, Did
<1>3. CustodyInv => LoanCollateralFreedOnce
  BY <1>1, <1>2 DEF LoanCollateralFreedOnce
<1> QED
  BY <1>3, CustodyInvariance, PTL

(* settleTrade and cancelTrade: a trade is settled exactly when its goods  *)
(* were transferred, the buyer on record owns them ever after, and goods   *)
(* that were sold are not given back, nor the other way round.             *)
THEOREM ListingsEndOnce == Spec => []TradesAreSettledOnce
<1>1. CustodyInv => TradeMatchesLedger
  <2> SUFFICES ASSUME CustodyInv, NEW t \in Trade, HasTrade(t)
               PROVE  /\ trade[t].status = "SETTLED" <=> event[T!TransferKey(t)] # NoEvent
                      /\ trade[t].status = "SETTLED" =>
                            receipt[trade[t].receiptId].owner = trade[t].buyer
    BY OneJournal DEF TradeMatchesLedger, T!TradeMatchesLedger, T!Exists, HasTrade, T!Did
  <2>1. TradeSays(t)
    BY DEF CustodyInv
  <2> QED
    BY <2>1 DEF TradeSays, Did
<1>2. CustodyInv => SoldOrReturned
  <2> SUFFICES ASSUME CustodyInv, NEW t \in Trade
               PROVE  ~(event[T!TransferKey(t)] # NoEvent /\ event[T!CancelKey(t)] # NoEvent)
    BY OneJournal DEF SoldOrReturned, T!SoldOrReturned, T!Did
  <2>1. TradeSays(t)
    BY DEF CustodyInv
  <2> QED
    BY <2>1 DEF TradeSays, Did
<1>3. CustodyInv => TradesAreSettledOnce
  BY <1>1, <1>2 DEF TradesAreSettledOnce
<1> QED
  BY <1>3, CustodyInvariance, PTL

(* applyDepositEdit: however late a correction arrives, it writes the      *)
(* quantity of a deposit and never that of a child a loan or a trade holds.*)
THEOREM OnlyRootsAreCorrected == Spec => CorrectsRootsOnly
<1>1. CustodyInv /\ [Next]_vars =>
        [\A r \in D!Minted :
            receipt'[r].quantity # receipt[r].quantity =>
                receipt[r].parent = D!NoReceipt]_(D!vars)
  BY NextKeeps, DepositsOverLedger, OneJournal DEF Corrects
<1> QED
  BY <1>1, CustodyInvariance, PTL DEF Spec, CorrectsRootsOnly, D!CorrectsRootsOnly
-----------------------------------------------------------------------------
(* Requests served one at a time.                                          *)

(* A receipt is on the line of a deposit, which was let in unless it still *)
(* awaits its verdict or was rejected.                                     *)
LineSays(r) ==
    LET x == receipt[r].root
    IN  /\ x \in Minted
        /\ receipt[x].parent = NoReceipt /\ receipt[x].root = x
        /\ receipt[r].quantity = receipt[x].quantity
        /\ receipt[r].status \notin Unjudged => receipt[x].approval = "APPROVED"

(* A line has one end.                                                     *)
OneEnd ==
    \A r, s \in Minted :
        /\ receipt[r].root = receipt[s].root
        /\ receipt[r].status # "SPLIT" /\ receipt[s].status # "SPLIT"
        => r = s

(* A receipt comes from a call that is in the journal, and a child names   *)
(* the transaction whose hold placed it.                                   *)
SourceSays(r) ==
    /\ Did(receipt[r].sourceEvent)
    /\ \A l \in Loan : receipt[r].sourceEvent = L!HoldKey(l) => receipt[r].sourceTxn = l
    /\ \A t \in Trade : receipt[r].sourceEvent = T!HoldKey(t) => receipt[r].sourceTxn = t

JudgedSays(r) ==
    Did(D!ApproveKey(r)) => receipt[r].quantity = event[D!ApproveKey(r)].quantity

StockSays ==
    /\ \A r \in Minted : LineSays(r) /\ SourceSays(r) /\ JudgedSays(r)
    /\ OneEnd

(* The row of a loan points at the child of its own hold and has the       *)
(* schedule of its terms.                                                  *)
LoanRowSays(l) ==
    HasLoan(l) =>
        /\ receipt[loan[l].receiptId].sourceTxn = l
        /\ loan[l].rate = loan[l].financier
        /\ loan[l].totals = [amount |-> loan[l].amount, financier |-> loan[l].financier]

(* The row of a trade points at the child of its own hold, which is the    *)
(* seller's until it is sold.                                              *)
TradeRowSays(t) ==
    HasTrade(t) =>
        /\ receipt[trade[t].receiptId].sourceTxn = t
        /\ trade[t].status # "SETTLED" => receipt[trade[t].receiptId].owner = trade[t].seller

(* What the one handler has read is still so.                              *)
CallKnows(s) ==
    /\ s.op = "editDeposit" => receipt[s.r].status = "PENDING_APPROVAL"
    /\ s.op = "editLoan" => s.seen = loan[s.l]
    /\ s.op = "createLoan" /\ s.step = "insert" => receipt[s.held].sourceTxn = s.l
    /\ s.op = "createLoan" /\ s.step = "hold" => s.quantity = receipt[s.r].quantity
    /\ s.op = "createTrade" /\ s.step = "hold" =>
          s.quantity = receipt[s.r].quantity /\ receipt[s.r].owner = s.seller
    /\ s.op = "createTrade" /\ s.step = "insert" =>
          receipt[s.held].sourceTxn = s.t /\ receipt[s.held].owner = s.seller

RowsSay ==
    /\ \A l \in Loan : LoanRowSays(l)
    /\ \A t \in Trade : TradeRowSays(t)

SoloInv ==
    /\ CustodyInv
    /\ StockSays
    /\ RowsSay
    /\ \A c \in Call : CallKnows(call[c])

-----------------------------------------------------------------------------
(* The lines of the receipts.                                              *)

(* A ledger call of a loan or a trade that takes a whole receipt prolongs  *)
(* one line or none.                                                       *)
LEMMA MovesKeepStock ==
    ASSUME CustodyInv, StockSays, NEW k, Moves(k), Whole, \A r \in Receipt : k \notin JudgeKeys(r),
           \A r \in Minted' \ Minted : SourceSays(r)'
    PROVE  StockSays'
<1>1. /\ FlowTypeOK /\ Minted \subseteq Receipt
      /\ \A r \in Minted : receipt[r].root \in Minted
  BY RowTyped DEF CustodyInv, FlowTypeOK, LedgerTypeOK, StockSays, LineSays
<1>2. \A r \in Minted :
         /\ r \in Minted' /\ receipt'[r].parent = receipt[r].parent
         /\ receipt'[r].root = receipt[r].root /\ receipt'[r].quantity = receipt[r].quantity
         /\ receipt'[r].sourceTxn = receipt[r].sourceTxn
         /\ receipt'[r].sourceEvent = receipt[r].sourceEvent
         /\ receipt'[r].approval \in {receipt[r].approval, "APPROVED"}
         /\ receipt[r].status \in Unjudged => receipt'[r].status = receipt[r].status
         /\ receipt'[r].status \in Unjudged => receipt[r].status \in Unjudged
         /\ receipt[r].status = "SPLIT" => receipt'[r].status = "SPLIT"
  BY DEF Moves, Calm
<1>3. ASSUME NEW r \in Minted
      PROVE  LineSays(r)'
  <2>1. PICK x \in Minted : x = receipt[r].root
    BY <1>1
  <2>2. LineSays(r)
    BY DEF StockSays
  <2> QED
    BY <1>2, <2>1, <2>2 DEF LineSays
<1>4. ASSUME NEW r \in Minted' \ Minted
      PROVE  /\ LineSays(r)'
             /\ \E s \in Minted : /\ receipt[s].status # "SPLIT" /\ receipt'[s].status = "SPLIT"
                                  /\ receipt'[r].root = receipt[s].root
  <2>1. PICK s \in Minted :
           /\ receipt[s].status \notin Unjudged /\ receipt[s].status # "SPLIT"
           /\ receipt'[s].status = "SPLIT" /\ receipt'[r].root = receipt[s].root
           /\ receipt'[r].quantity = receipt[s].quantity
    BY DEF Whole
  <2>2. LineSays(s)' /\ receipt'[s].status \notin Unjudged
    BY <1>3, <2>1 DEF Unjudged
  <2>3. /\ receipt'[r].root = receipt'[s].root /\ receipt'[r].quantity = receipt'[s].quantity
    BY <1>2, <2>1
  <2>4. LineSays(r)'
    BY <2>2, <2>3 DEF LineSays
  <2> QED
    BY <2>1, <2>4
<1>5. \A r \in Minted' : LineSays(r)'
  BY <1>3, <1>4
<1>6. ASSUME NEW r \in Minted'
      PROVE  SourceSays(r)'
  <2>1. CASE r \in Minted
    <3>1. SourceSays(r) /\ receipt[r].sourceEvent \in Key
      BY <2>1, RowTyped, <1>1 DEF StockSays, FlowTypeOK, LedgerTypeOK, Row
    <3>2. PICK j \in Key : j = receipt[r].sourceEvent /\ j = receipt'[r].sourceEvent
      BY <1>2, <2>1, <3>1
    <3>3. Did(j)'
      BY <3>1, <3>2 DEF SourceSays, Moves, Calm
    <3> QED
      BY <1>2, <2>1, <3>1, <3>2, <3>3 DEF SourceSays, Did
  <2> QED
    BY <2>1
<1>7. \A r \in Minted' : JudgedSays(r)'
  <2> SUFFICES ASSUME NEW r \in Minted', Did(D!ApproveKey(r))'
               PROVE  receipt'[r].quantity = event'[D!ApproveKey(r)].quantity
    BY DEF JudgedSays
  <2>1. Minted' \subseteq Receipt
    BY BoundsAssumption DEF Moves, Calm, TableTypeOK, Minted, Receipt
  <2>2. PICK j \in Key : j = D!ApproveKey(r) /\ j # k
    BY <2>1, KeysKnown DEF JudgeKeys
  <2>3. Did(j) /\ event'[j] = event[j]
    BY <2>2 DEF Moves, Did
  <2>4. r \in Minted
    BY <2>1, <2>2, <2>3 DEF CustodyInv, VerdictSays
  <2> QED
    BY <1>2, <2>2, <2>3, <2>4 DEF StockSays, JudgedSays
<1>8. OneEnd'
  <2> SUFFICES ASSUME NEW r \in Minted', NEW s \in Minted', receipt'[r].root = receipt'[s].root,
                      receipt'[r].status # "SPLIT", receipt'[s].status # "SPLIT"
               PROVE  r = s
    BY DEF OneEnd
  <2>1. CASE r \in Minted /\ s \in Minted
    BY <1>2, <2>1 DEF StockSays, OneEnd
  <2>2. CASE r \notin Minted /\ s \notin Minted
    BY <2>2 DEF Whole
  <2>3. ASSUME NEW y \in Minted' \ Minted, NEW z \in Minted,
               receipt'[y].root = receipt'[z].root, receipt'[z].status # "SPLIT"
        PROVE  FALSE
    <3>1. PICK x \in Minted : /\ receipt[x].status # "SPLIT" /\ receipt'[x].status = "SPLIT"
                              /\ receipt'[y].root = receipt[x].root
      BY <1>4
    <3>2. receipt[z].status # "SPLIT" /\ receipt[z].root = receipt[x].root
      BY <1>2, <2>3, <3>1
    <3>3. z = x
      BY <3>1, <3>2 DEF StockSays, OneEnd
    <3> QED
      BY <2>3, <3>1, <3>3
  <2> QED
    BY <2>1, <2>2, <2>3
<1> QED
  BY <1>5, <1>6, <1>7, <1>8 DEF StockSays

(* A receipt that awaits its verdict is a line of its own.                 *)
LEMMA PendingIsAlone ==
    ASSUME CustodyInv, StockSays, NEW r \in Minted, receipt[r].status = "PENDING_APPROVAL"
    PROVE  /\ receipt[r].root = r /\ ~Did(D!ApproveKey(r))
           /\ \A s \in Minted : receipt[s].root = r => s = r
<1>1. /\ r \in Receipt /\ RootSays(r) /\ VerdictSays(r)
  BY RowTyped DEF CustodyInv, FlowTypeOK, LedgerTypeOK
<1>2. receipt[r].root = r /\ ~Did(D!ApproveKey(r))
  BY <1>1 DEF RootSays, VerdictSays, Unjudged
<1>3. ASSUME NEW s \in Minted, receipt[s].root = r
      PROVE  s = r
  <2>1. RootSays(s)
    BY DEF CustodyInv
  <2>2. CASE receipt[s].status \in Unjudged
    BY <1>3, <2>1, <2>2 DEF RootSays
  <2>3. CASE receipt[s].status \notin Unjudged
    BY <1>2, <1>3, <2>1, <2>3 DEF RootSays
  <2> QED
    BY <2>2, <2>3
<1> QED
  BY <1>2, <1>3

(* A new deposit starts a line of its own.                                 *)
LEMMA FiledKeepsStock ==
    ASSUME CustodyInv, StockSays, NEW d \in Filing, NEW id, Filed(D!FileKey(d), id)
    PROVE  /\ StockSays'
           /\ \A r \in Minted : r \in Minted' /\ receipt'[r] = receipt[r]
<1> DEFINE k == D!FileKey(d)
<1>1. /\ k \in Key /\ \A r \in Receipt : JudgeKeys(r) \subseteq Key /\ k \notin JudgeKeys(r)
      /\ \A l \in Loan : k # L!HoldKey(l)
      /\ \A t \in Trade : k # T!HoldKey(t)
  BY KeysKnown, KeysApart DEF LoanKeys, TradeKeys
<1> HIDE DEF k
<1>2. Filed(k, id) /\ Minted \subseteq Receipt /\ \A r \in Minted : receipt[r] \in Row
  BY RowTyped DEF CustodyInv, FlowTypeOK, LedgerTypeOK, k
<1>3. /\ id \in Receipt /\ id \notin Minted /\ Minted' = Minted \cup {id}
      /\ receipt'[id].status = "PENDING_APPROVAL" /\ receipt'[id].parent = NoReceipt
      /\ receipt'[id].root = id /\ receipt'[id].sourceEvent = k
      /\ \A r \in Minted : receipt'[r] = receipt[r]
      /\ event'[k] # NoEvent /\ \A j \in Key \ {k} : event'[j] = event[j]
      /\ event[k] = NoEvent
  BY <1>2 DEF Filed, Did
<1>4. ASSUME NEW r \in Minted'
      PROVE  LineSays(r)'
  <2>1. CASE r = id
    BY <1>3, <2>1 DEF LineSays, Unjudged
  <2>2. CASE r \in Minted
    <3>1. LineSays(r)
      BY <2>2 DEF StockSays
    <3>2. PICK x \in Minted : x = receipt[r].root
      BY <3>1 DEF LineSays
    <3> QED
      BY <1>3, <2>2, <3>1, <3>2 DEF LineSays
  <2> QED
    BY <1>3, <2>1, <2>2
<1>5. ASSUME NEW r \in Minted'
      PROVE  SourceSays(r)'
  <2>1. CASE r = id
    BY <1>1, <1>3, <2>1 DEF SourceSays, Did
  <2>2. CASE r \in Minted
    <3>1. SourceSays(r) /\ receipt[r].sourceEvent \in Key /\ receipt'[r] = receipt[r]
      BY <1>2, <1>3, <2>2 DEF StockSays, Row
    <3>2. PICK j \in Key : j = receipt[r].sourceEvent
      BY <3>1
    <3>3. event'[j] # NoEvent
      BY <1>3, <3>1, <3>2 DEF SourceSays, Did
    <3> QED
      BY <3>1, <3>2, <3>3 DEF SourceSays, Did
  <2> QED
    BY <1>3, <2>1, <2>2
<1>6. ASSUME NEW r \in Minted', Did(D!ApproveKey(r))'
      PROVE  receipt'[r].quantity = event'[D!ApproveKey(r)].quantity
  <2>1. r \in Receipt
    BY <1>2, <1>3
  <2>2. PICK j \in Key : j = D!ApproveKey(r) /\ j # k
    BY <1>1, <2>1 DEF JudgeKeys
  <2>3. event'[j] = event[j] /\ Did(D!ApproveKey(r))
    BY <1>3, <1>6, <2>2 DEF Did
  <2>4. r \in Minted
    BY <2>1, <2>3 DEF CustodyInv, VerdictSays
  <2> QED
    BY <1>3, <2>2, <2>3, <2>4 DEF StockSays, JudgedSays
<1>7. OneEnd'
  <2> SUFFICES ASSUME NEW r \in Minted', NEW s \in Minted', receipt'[r].root = receipt'[s].root,
                      receipt'[r].status # "SPLIT", receipt'[s].status # "SPLIT"
               PROVE  r = s
    BY DEF OneEnd
  <2>1. \A x \in Minted : receipt'[x].root \in Minted
    BY <1>3 DEF StockSays, LineSays
  <2> QED
    BY <1>3, <2>1 DEF StockSays, OneEnd
<1> QED
  BY <1>3, <1>4, <1>5, <1>6, <1>7 DEF StockSays, JudgedSays

(* A verdict or a correction writes one row of the table, that of a line   *)
(* of its own.                                                             *)
LEMMA OneRowKeepsStock ==
    ASSUME CustodyInv, StockSays, NEW r \in Minted, receipt[r].status = "PENDING_APPROVAL",
           receipt'[r].parent = receipt[r].parent, receipt'[r].root = receipt[r].root,
           receipt'[r].sourceTxn = receipt[r].sourceTxn,
           receipt'[r].sourceEvent = receipt[r].sourceEvent, receipt'[r].status # "SPLIT",
           receipt'[r].status \notin Unjudged => receipt'[r].approval = "APPROVED",
           Did(D!ApproveKey(r))' => receipt'[r].quantity = event'[D!ApproveKey(r)].quantity,
           \A s \in Receipt \ {r} : receipt'[s] = receipt[s], Minted' = Minted,
           \A j \in Key : Did(j) => Did(j)',
           \A s \in Receipt \ {r} : event'[D!ApproveKey(s)] = event[D!ApproveKey(s)]
    PROVE  StockSays'
<1>1. /\ Minted \subseteq Receipt /\ \A s \in Minted : receipt[s] \in Row
      /\ receipt[r].root = r /\ \A s \in Minted : receipt[s].root = r => s = r
  BY RowTyped, PendingIsAlone DEF CustodyInv, FlowTypeOK, LedgerTypeOK
<1>2. \A s \in Minted : /\ receipt'[s].root = receipt[s].root
                        /\ receipt'[s].parent = receipt[s].parent
                        /\ receipt'[s].sourceTxn = receipt[s].sourceTxn
                        /\ receipt'[s].sourceEvent = receipt[s].sourceEvent
                        /\ receipt'[s].status = "SPLIT" => receipt[s].status = "SPLIT"
                        /\ receipt[s].status = "SPLIT" => receipt'[s].status = "SPLIT"
  BY <1>1
<1>3. ASSUME NEW s \in Minted
      PROVE  LineSays(s)' /\ SourceSays(s)' /\ JudgedSays(s)'
  <2>1. LineSays(s) /\ SourceSays(s) /\ JudgedSays(s)
    BY DEF StockSays
  <2>2. LineSays(s)'
    <3>1. PICK x \in Minted : x = receipt[s].root
      BY <2>1 DEF LineSays
    <3>2. CASE s = r
      BY <1>1, <1>2, <2>1, <3>2 DEF LineSays
    <3>3. CASE s # r
      <4>1. x # r
        BY <1>1, <3>1, <3>3
      <4>2. receipt'[s] = receipt[s] /\ receipt'[x] = receipt[x]
        BY <1>1, <3>3, <4>1
      <4> QED
        BY <2>1, <3>1, <4>2 DEF LineSays
    <3> QED
      BY <3>2, <3>3
  <2>3. SourceSays(s)'
    <3>1. PICK j \in Key : j = receipt[s].sourceEvent /\ j = receipt'[s].sourceEvent
      BY <1>1, <1>2 DEF Row
    <3>2. Did(j)'
      BY <2>1, <3>1 DEF SourceSays
    <3> QED
      BY <1>2, <2>1, <3>1, <3>2 DEF SourceSays, Did
  <2>4. JudgedSays(s)'
    <3>1. CASE s = r
      BY <3>1 DEF JudgedSays
    <3>2. CASE s # r
      <4>1. receipt'[s] = receipt[s] /\ event'[D!ApproveKey(s)] = event[D!ApproveKey(s)]
        BY <1>1, <3>2
      <4> QED
        BY <2>1, <4>1 DEF JudgedSays, Did
    <3> QED
      BY <3>1, <3>2
  <2> QED
    BY <2>2, <2>3, <2>4
<1>4. OneEnd'
  BY <1>2 DEF StockSays, OneEnd
<1> QED
  BY <1>3, <1>4 DEF StockSays

LEMMA JudgedKeepsStock ==
    ASSUME CustodyInv, StockSays, NEW r \in Minted, NEW k \in JudgeKeys(r), Judged(k, r)
    PROVE  StockSays'
<1>1. /\ r \in Receipt /\ JudgeKeys(r) \subseteq Key
      /\ D!ApproveKey(r) # D!RejectKey(r) /\ ~Did(D!ApproveKey(r))
  BY RowTyped, KeysKnown, KeysApart, PendingIsAlone
     DEF CustodyInv, FlowTypeOK, LedgerTypeOK, Judged
<1>2. ASSUME NEW s \in Receipt \ {r}
      PROVE  event'[D!ApproveKey(s)] = event[D!ApproveKey(s)]
  <2>1. D!ApproveKey(s) \in Key
    BY KeysKnown DEF JudgeKeys
  <2>2. D!ApproveKey(s) \notin JudgeKeys(r)
    BY <1>1, KeysApart DEF JudgeKeys
  <2> QED
    BY <2>1, <2>2 DEF Judged
<1>3. Did(D!ApproveKey(r))' => receipt'[r].quantity = event'[D!ApproveKey(r)].quantity
  <2>1. CASE k = D!ApproveKey(r)
    BY <2>1 DEF Judged
  <2>2. CASE k # D!ApproveKey(r)
    BY <1>1, <2>2 DEF Judged, Did, JudgeKeys
  <2> QED
    BY <2>1, <2>2
<1>4. receipt'[r].status # "SPLIT" /\ (receipt'[r].status \notin Unjudged => receipt'[r].approval = "APPROVED")
  BY DEF Judged, Unjudged
<1>5. \A j \in Key : Did(j) => Did(j)'
  BY DEF Judged, Did
<1> QED
  BY <1>2, <1>3, <1>4, <1>5, OneRowKeepsStock DEF Judged

LEMMA CorrectedKeepsStock ==
    ASSUME CustodyInv, StockSays, NEW r \in Minted, receipt[r].status = "PENDING_APPROVAL",
           Corrected(r)
    PROVE  StockSays'
<1>1. ~Did(D!ApproveKey(r))
  BY PendingIsAlone
<1>2. /\ \A j : Did(j)' <=> event[j] # NoEvent
      /\ receipt'[r].status = "PENDING_APPROVAL" /\ "PENDING_APPROVAL" \in Unjudged
  BY DEF Corrected, Did, Unjudged
<1> QED
  BY <1>1, <1>2, OneRowKeepsStock DEF Corrected, Did

-----------------------------------------------------------------------------
(* What a step leaves alone.                                               *)

LEMMA StillKeepsStock ==
    ASSUME StockSays, UNCHANGED ledgerVars
    PROVE  StockSays'
<1>1. Minted' = Minted /\ UNCHANGED <<receipt, event>>
  BY DEF ledgerVars, Minted
<1> QED
  BY <1>1 DEF StockSays, LineSays, OneEnd, SourceSays, JudgedSays, Did

(* The rows of the services say what they said while the receipts they     *)
(* point at keep their transaction, and their owner unless they are sold.  *)
Steady ==
    \A r \in Minted : /\ receipt'[r].sourceTxn = receipt[r].sourceTxn
                      /\ receipt'[r].owner = receipt[r].owner

LEMMA StillSteady ==
    ASSUME UNCHANGED ledgerVars
    PROVE  Steady
  BY DEF Steady, ledgerVars

LEMMA LoanRowKept ==
    ASSUME SoloInv, \A r \in Minted : receipt'[r].sourceTxn = receipt[r].sourceTxn,
           NEW l \in Loan, loan'[l] = loan[l]
    PROVE  LoanRowSays(l)'
<1>1. LoanRowSays(l) /\ (HasLoan(l) => loan[l] \in L!LoanRow)
  BY DEF SoloInv, RowsSay, CustodyInv, FlowTypeOK, HasLoan
<1> SUFFICES ASSUME HasLoan(l)'
             PROVE  LoanRowSays(l)'
  BY DEF LoanRowSays
<1>2. HasLoan(l)
  BY DEF HasLoan
<1>3. PICK r \in Minted : r = loan[l].receiptId
  BY <1>1, <1>2 DEF L!LoanRow, L!Minted, Minted
<1> QED
  BY <1>1, <1>2, <1>3 DEF LoanRowSays

LEMMA TradeRowKept ==
    ASSUME SoloInv, NEW t \in Trade, trade'[t] = trade[t],
           HasTrade(t) => LET r == trade[t].receiptId
                          IN  /\ receipt'[r].sourceTxn = receipt[r].sourceTxn
                              /\ receipt'[r].owner = receipt[r].owner
    PROVE  TradeRowSays(t)'
<1>1. TradeRowSays(t) /\ (HasTrade(t)' <=> trade[t] # T!NoTrade)
  BY DEF SoloInv, RowsSay, HasTrade
<1>2. SUFFICES ASSUME HasTrade(t)
               PROVE  TradeRowSays(t)'
  BY <1>1 DEF TradeRowSays, HasTrade
<1>3. PICK r : r = trade[t].receiptId /\ r = trade'[t].receiptId
  OBVIOUS
<1> QED
  BY <1>1, <1>2, <1>3 DEF TradeRowSays

LEMMA TradesKept ==
    ASSUME SoloInv, Steady, NEW t \in Trade, trade'[t] = trade[t]
    PROVE  TradeRowSays(t)'
<1>1. HasTrade(t) => trade[t].receiptId \in Minted
  BY DEF SoloInv, CustodyInv, FlowTypeOK, HasTrade, T!TradeRow, T!Minted, Minted
<1> QED
  BY <1>1, TradeRowKept DEF Steady

LEMMA RowsKept ==
    ASSUME SoloInv, Steady, UNCHANGED <<loan, trade>>
    PROVE  RowsSay'
  BY LoanRowKept, TradesKept DEF Steady, RowsSay

(* The one handler goes on with what it knows now.                         *)
LEMMA SoloStep ==
    ASSUME NEW solo, Call = {solo}, SoloInv, CustodyInv', StockSays', RowsSay',
           NEW c \in Call, NEW state, call' = [call EXCEPT ![c] = state], CallKnows(state)'
    PROVE  SoloInv'
<1>1. call'[c] = state /\ \A d \in Call : d = c
  BY DEF SoloInv, CustodyInv, FlowTypeOK
<1>2. \A d \in Call : CallKnows(call[d])'
  BY <1>1 DEF CallKnows
<1> QED
  BY <1>2 DEF SoloInv

LEMMA SoloReturn ==
    ASSUME NEW solo, Call = {solo}, SoloInv, CustodyInv', StockSays', RowsSay',
           NEW c \in Call, call' = [call EXCEPT ![c] = Idle]
    PROVE  SoloInv'
<1>1. CallKnows(Idle)'
  BY DEF CallKnows, Idle
<1> QED
  BY <1>1, SoloStep

(* A step that only reads: its new state must be true of what it has read. *)
LEMMA SoloReading ==
    ASSUME NEW solo, Call = {solo}, SoloInv, CustodyInv', UNCHANGED <<ledgerVars, loan, trade>>,
           NEW c \in Call, NEW state, call' = [call EXCEPT ![c] = state], CallKnows(state)
    PROVE  SoloInv'
<1>1. StockSays' /\ RowsSay'
  BY StillKeepsStock, StillSteady, RowsKept DEF SoloInv
<1>2. CallKnows(state)'
  BY DEF CallKnows, ledgerVars
<1> QED
  BY <1>1, <1>2, SoloStep

-----------------------------------------------------------------------------
(* The deposits.                                                           *)

LEMMA SoloDeposit ==
    ASSUME NEW solo, Call = {solo}, SoloInv, CustodyInv', NEW d \in Filing,
           D!CreateDeposit(d), UNCHANGED <<loan, trade>>
    PROVE  SoloInv'
<1>1. PICK id \in Receipt : Filed(D!FileKey(d), id)
  BY FilingIs DEF SoloInv, CustodyInv
<1>2. StockSays' /\ Steady
  BY <1>1, FiledKeepsStock DEF SoloInv, Steady
<1>3. PICK c \in Call : call' = [call EXCEPT ![c] = Idle]
  BY AtOnceIs DEF SoloInv, D!CreateDeposit
<1> QED
  BY <1>2, <1>3, RowsKept, SoloReturn

LEMMA SoloVerdict ==
    ASSUME NEW solo, Call = {solo}, SoloInv, CustodyInv', NEW r \in Minted,
           D!Approve(r) \/ D!Reject(r), UNCHANGED <<loan, trade>>
    PROVE  SoloInv'
<1>1. PICK k \in JudgeKeys(r) : Judged(k, r)
  BY VerdictIs DEF SoloInv, CustodyInv
<1>2. StockSays'
  BY <1>1, JudgedKeepsStock DEF SoloInv
<1>3. Steady
  BY <1>1, RowTyped DEF SoloInv, CustodyInv, FlowTypeOK, LedgerTypeOK, Judged, Steady
<1>4. PICK c \in Call : call' = [call EXCEPT ![c] = Idle]
  BY AtOnceIs DEF SoloInv, D!Approve, D!Reject
<1> QED
  BY <1>2, <1>3, <1>4, RowsKept, SoloReturn

(* Nobody decided on the deposit since the correction was begun.           *)
LEMMA SoloCorrection ==
    ASSUME NEW solo, Call = {solo}, SoloInv, CustodyInv', NEW c \in Call,
           D!EditUpdate(c), UNCHANGED <<loan, trade>>
    PROVE  SoloInv'
<1>1. /\ call[c] \in EditDeposit /\ call[c].r \in Minted /\ Corrected(call[c].r)
      /\ call' = [call EXCEPT ![c] = Idle]
  BY CorrectionIs DEF SoloInv
<1>2. PICK r \in Minted : r = call[c].r /\ Corrected(r)
  BY <1>1
<1>3. receipt[r].status = "PENDING_APPROVAL"
  BY <1>1, <1>2 DEF SoloInv, CallKnows, EditDeposit
<1>4. StockSays'
  BY <1>2, <1>3, CorrectedKeepsStock DEF SoloInv
<1>5. Steady
  BY <1>2, RowTyped DEF SoloInv, CustodyInv, FlowTypeOK, LedgerTypeOK, Corrected, Steady
<1> QED
  BY <1>1, <1>4, <1>5, RowsKept, SoloReturn

LEMMA SoloDepositNext ==
    ASSUME NEW solo, Call = {solo}, SoloInv, CustodyInv', D!Next, UNCHANGED <<loan, trade>>
    PROVE  SoloInv'
<1>1. ASSUME NEW c \in Call, NEW r \in Minted, NEW n \in D!Quantity, D!EditLoad(c, r, n)
      PROVE  SoloInv'
  <2> DEFINE state == [op |-> "editDeposit", step |-> "update", r |-> r, quantity |-> n]
  <2>1. call' = [call EXCEPT ![c] = state] /\ UNCHANGED <<ledgerVars, loan, trade>>
    BY <1>1 DEF D!EditLoad, D!Begin, D!ledgerVars, ledgerVars
  <2>2. CallKnows(state)
    BY <1>1 DEF D!EditLoad, CallKnows
  <2> HIDE DEF state
  <2> QED
    BY <2>1, <2>2, SoloReading
<1>2. ASSUME NEW c \in Call, D!Abort(c)
      PROVE  SoloInv'
  <2>1. /\ call' = [call EXCEPT ![c] = Idle] /\ UNCHANGED <<ledgerVars, loan, trade>>
        /\ CallKnows(Idle)
    BY <1>2 DEF D!Abort, D!Abandon, D!Return, D!Idle, Idle, D!ledgerVars, ledgerVars, CallKnows
  <2> QED
    BY <2>1, SoloReading
<1>3. \/ \E d \in Filing : D!CreateDeposit(d)
      \/ \E c \in Call, r \in Minted, n \in D!Quantity : D!EditLoad(c, r, n)
      \/ \E c \in Call : D!EditUpdate(c) \/ D!Abort(c)
      \/ \E r \in Minted : D!Approve(r) \/ D!Reject(r)
  BY DepositsOverLedger DEF D!Next
<1> QED
  BY <1>1, <1>2, <1>3, SoloDeposit, SoloVerdict, SoloCorrection

-----------------------------------------------------------------------------
(* The loans.                                                              *)

(* A call of a loan or a trade that leaves the rows alone.                 *)
LEMMA SoloMoves ==
    ASSUME SoloInv, NEW k, Moves(k), Whole, \A r \in Receipt : k \notin JudgeKeys(r),
           \A r \in Minted' \ Minted : SourceSays(r)'
    PROVE  StockSays' /\ \A r \in Minted : receipt'[r].sourceTxn = receipt[r].sourceTxn
  BY MovesKeepStock DEF SoloInv, Moves

(* A hold for a transaction: the new child names it, and is the only one   *)
(* placed under its key.                                                   *)
LEMMA SoloHold ==
    ASSUME SoloInv, CustodyInv', NEW r \in Minted, NEW t \in Loan \cup Trade, NEW k,
           NEW s \in HeldStatus, Hold(k, r, Exactly(receipt[r].quantity), s, t),
           \/ t \in Loan /\ k = L!HoldKey(t)
           \/ t \in Trade /\ k = T!HoldKey(t)
    PROVE  /\ StockSays' /\ Steady
           /\ \A x \in Minted' : receipt'[x].sourceEvent = k =>
                 receipt'[x].sourceTxn = t /\ receipt'[x].owner = receipt[r].owner
<1>1. k \in Key /\ t \in Txn /\ \A x \in Receipt : k \notin JudgeKeys(x)
  BY KeysKnown, KeysApart DEF LoanKeys, TradeKeys
<1>2. /\ Moves(k) /\ ~Did(k) /\ Did(k)' /\ SameOwners /\ Whole
      /\ \A x \in Minted' \ Minted : /\ receipt'[x].sourceTxn = t
                                     /\ receipt'[x].owner = receipt[r].owner
  <2>1. FlowTypeOK /\ receipt[r].quantity \in Nat
    BY RowTyped DEF SoloInv, CustodyInv, FlowTypeOK, LedgerTypeOK, Row
  <2>2. PICK n \in Nat : n = receipt[r].quantity
    BY <2>1
  <2> QED
    BY <1>1, <2>1, <2>2, HoldMoves
<1>3. /\ \A l \in Loan : k = L!HoldKey(l) => t = l
      /\ \A u \in Trade : k = T!HoldKey(u) => t = u
  BY KeysApart DEF LoanKeys, TradeKeys
<1>4. \A x \in Minted' \ Minted : SourceSays(x)'
  BY <1>2, <1>3 DEF SourceSays, Moves, Did
<1>5. StockSays' /\ \A x \in Minted : receipt'[x].sourceTxn = receipt[x].sourceTxn
  BY <1>1, <1>2, <1>4, SoloMoves
<1>6. ASSUME NEW x \in Minted', receipt'[x].sourceEvent = k
      PROVE  x \notin Minted
  <2>1. x \in Minted => SourceSays(x) /\ receipt[x].sourceEvent = k
    BY <1>2, <1>6 DEF SoloInv, StockSays, Moves
  <2> QED
    BY <1>2, <2>1 DEF SourceSays
<1> QED
  BY <1>2, <1>5, <1>6 DEF Steady, SameOwners

LEMMA SoloLoanHold ==
    ASSUME NEW solo, Call = {solo}, SoloInv, CustodyInv', NEW c \in Call, NEW l \in Loan,
           L!CreateHold(c, l), UNCHANGED trade
    PROVE  SoloInv'
<1> DEFINE k == L!HoldKey(l)
<1>1. call[c] \in PickLoan /\ CallKnows(call[c])
  <2>1. call[c].op = "createLoan" /\ call[c].step = "hold" /\ call[c] \in CallState
    BY DEF L!CreateHold, L!At, SoloInv, CustodyInv, FlowTypeOK
  <2> QED
    BY <2>1, KindOf DEF SoloInv
<1>2. PICK r \in Minted, terms \in L!Terms : /\ r = call[c].r /\ terms = call[c].terms
                                            /\ call[c].quantity = receipt[r].quantity
  BY <1>1 DEF PickLoan, CallKnows
<1>3. Hold(k, r, Exactly(receipt[r].quantity), "HELD_LOAN", l) /\ "HELD_LOAN" \in HeldStatus
  BY <1>2, LoansOverLedger DEF L!CreateHold, HeldStatus
<1> HIDE DEF k
<1>4. /\ StockSays' /\ Steady
      /\ \A x \in Minted' : receipt'[x].sourceEvent = k => receipt'[x].sourceTxn = l
  BY <1>3, SoloHold DEF k
<1>5. PICK held \in Receipt :
          /\ receipt'[held].sourceEvent = k
          /\ call' = [call EXCEPT ![c] = [op |-> "createLoan", step |-> "insert", l |-> l,
                                          held |-> held, terms |-> terms]]
          /\ UNCHANGED loan
  BY <1>2, LoansOverLedger DEF L!CreateHold, L!Continue, k
<1> DEFINE state == [op |-> "createLoan", step |-> "insert", l |-> l, held |-> held,
                     terms |-> terms]
<1>6. held \in Minted'
  <2>1. call'[c] = state /\ call'[c] \in CallState'
    BY <1>5 DEF SoloInv, CustodyInv, FlowTypeOK
  <2>2. state \in BornLoan'
    BY <2>1 DEF CallState, PickLoan, BornLoan, DecideLoan, EditLoan, PickTrade, BornTrade,
                SettleTrade, CancelTrade, EditDeposit, Idle
  <2> QED
    BY <2>2 DEF BornLoan
<1>7. CallKnows(state)'
  BY <1>4, <1>5, <1>6 DEF CallKnows
<1>8. call' = [call EXCEPT ![c] = state]
  BY <1>5
<1> HIDE DEF state
<1> QED
  BY <1>4, <1>5, <1>7, <1>8, RowsKept, SoloStep

(* A row of a loan is written, the ledger is not called.                   *)
LEMMA SoloLoanWrite ==
    ASSUME NEW solo, Call = {solo}, SoloInv, CustodyInv', UNCHANGED <<ledgerVars, trade>>,
           NEW l \in Loan, NEW row, loan' = [loan EXCEPT ![l] = row],
           receipt[row.receiptId].sourceTxn = l, row.rate = row.financier,
           row.totals = [amount |-> row.amount, financier |-> row.financier],
           NEW c \in Call, call' = [call EXCEPT ![c] = Idle]
    PROVE  SoloInv'
<1>1. StockSays' /\ Steady
  BY StillKeepsStock, StillSteady DEF SoloInv
<1>2. loan'[l] = row /\ \A m \in Loan \ {l} : loan'[m] = loan[m]
  BY DEF SoloInv, CustodyInv, FlowTypeOK
<1>3. LoanRowSays(l)'
  BY <1>2 DEF LoanRowSays, ledgerVars
<1>4. \A m \in Loan : LoanRowSays(m)'
  BY <1>1, <1>2, <1>3, LoanRowKept DEF Steady
<1>5. \A t \in Trade : TradeRowSays(t)'
  BY <1>1, TradesKept
<1> QED
  BY <1>1, <1>4, <1>5, SoloReturn DEF RowsSay

LEMMA SoloLoanInsert ==
    ASSUME NEW solo, Call = {solo}, SoloInv, CustodyInv', NEW c \in Call,
           L!CreateInsert(c), UNCHANGED trade
    PROVE  SoloInv'
<1>1. call[c] \in BornLoan /\ CallKnows(call[c])
  <2>1. call[c].op = "createLoan" /\ call[c].step = "insert" /\ call[c] \in CallState
    BY DEF L!CreateInsert, L!At, SoloInv, CustodyInv, FlowTypeOK
  <2> QED
    BY <2>1, KindOf DEF SoloInv
<1>2. PICK l \in Loan, held \in Minted, terms \in L!Terms :
          l = call[c].l /\ held = call[c].held /\ terms = call[c].terms
  BY <1>1 DEF BornLoan
<1> DEFINE row == [status |-> "PENDING", receiptId |-> held, amount |-> terms.amount,
                   financier |-> terms.financier, rate |-> terms.financier,
                   totals |-> terms]
<1>3. /\ loan' = [loan EXCEPT ![l] = row] /\ UNCHANGED <<ledgerVars, trade>>
      /\ call' = [call EXCEPT ![c] = Idle]
  BY <1>2 DEF L!CreateInsert, L!Return, L!Idle, L!ledgerVars, ledgerVars, Idle
<1>4. receipt[row.receiptId].sourceTxn = l
  BY <1>1, <1>2 DEF CallKnows, BornLoan
<1>5. /\ row.rate = row.financier
      /\ row.totals = [amount |-> row.amount, financier |-> row.financier]
  BY DEF L!Terms
<1> HIDE DEF row
<1> QED
  BY <1>3, <1>4, <1>5, SoloLoanWrite

(* approveLoan, rejectLoan and repayLoan call the ledger.                  *)
LEMMA SoloLoanLedger ==
    ASSUME NEW solo, Call = {solo}, SoloInv, CustodyInv', NEW c \in Call,
           L!ApproveLedger(c) \/ L!RejectLedger(c) \/ L!RepayLedger(c), UNCHANGED trade
    PROVE  SoloInv'
<1>1. call[c].op \in {"approveLoan", "rejectLoan", "repayLoan"}
  BY DEF L!ApproveLedger, L!RejectLedger, L!RepayLedger, L!At
<1>2. PICK l \in Loan, r \in Minted : l = call[c].l /\ r = loan[l].receiptId
  BY <1>1, DecidedLoan DEF SoloInv
<1> DEFINE done == [call[c] EXCEPT !.step = "update"]
<1>3. PICK state \in DecideLoan : state = done
  BY <1>1, DecidedLoan DEF SoloInv, DecideLoan
<1>4. /\ call' = [call EXCEPT ![c] = state] /\ UNCHANGED loan
  BY <1>3 DEF L!ApproveLedger, L!RejectLedger, L!RepayLedger, L!Ledger, L!Continue
<1> HIDE DEF done
<1>5. CallKnows(state)'
  BY DEF CallKnows, DecideLoan
<1>6. PICK k \in LoanKeys(l) : ApproveHold(k, r) \/ Release(k, r) \/ UNCHANGED ledgerVars
  BY <1>2, LoansOverLedger
     DEF L!ApproveLedger, L!RejectLedger, L!RepayLedger, L!Ledger, LoanKeys
<1>7. k \in Key /\ \A x \in Receipt : k \notin JudgeKeys(x)
  BY KeysKnown, KeysApart
<1>8. Moves(k) /\ SameOwners /\ Minted' = Minted
  <2>1. CASE ApproveHold(k, r) \/ Release(k, r)
    BY <1>7, <2>1, ApproveHoldMoves, ReleaseMoves DEF SoloInv, CustodyInv
  <2>2. CASE UNCHANGED ledgerVars
    BY <2>2, StillMoves DEF SoloInv, CustodyInv, SameOwners, ledgerVars, Minted
  <2> QED
    BY <1>6, <2>1, <2>2
<1>9. StockSays' /\ Steady
  BY <1>7, <1>8, SoloMoves DEF Steady, SameOwners, Whole
<1> QED
  BY <1>4, <1>5, <1>9, RowsKept, SoloStep

LEMMA SoloLoanUpdate ==
    ASSUME NEW solo, Call = {solo}, SoloInv, CustodyInv', NEW c \in Call,
           L!ApproveUpdate(c) \/ L!RejectUpdate(c) \/ L!RepayUpdate(c), UNCHANGED trade
    PROVE  SoloInv'
<1>1. call[c].op \in {"approveLoan", "rejectLoan", "repayLoan"}
  BY DEF L!ApproveUpdate, L!RejectUpdate, L!RepayUpdate, L!At
<1>2. PICK l \in Loan : l = call[c].l
  BY <1>1, DecidedLoan DEF SoloInv
<1>3. HasLoan(l) /\ loan[l] \in L!LoanRow /\ FlowTypeOK
  BY <1>1, <1>2, DecidedLoan DEF SoloInv
<1>4. PICK status : loan' = [loan EXCEPT ![l].status = status]
  BY <1>2 DEF L!ApproveUpdate, L!RejectUpdate, L!RepayUpdate, L!At, L!Write
<1>5. call' = [call EXCEPT ![c] = Idle] /\ UNCHANGED <<ledgerVars, trade>>
  BY DEF L!ApproveUpdate, L!RejectUpdate, L!RepayUpdate, L!Write, L!Return, L!Idle, Idle,
         L!ledgerVars, ledgerVars
<1>6. PICK row : row = [loan[l] EXCEPT !.status = status]
  OBVIOUS
<1>7. loan' = [loan EXCEPT ![l] = row]
  BY <1>3, <1>4, <1>6 DEF FlowTypeOK
<1>8. /\ row.receiptId = loan[l].receiptId /\ row.rate = loan[l].rate
      /\ row.amount = loan[l].amount /\ row.financier = loan[l].financier
      /\ row.totals = loan[l].totals
  BY <1>3, <1>6 DEF L!LoanRow
<1>9. LoanRowSays(l)
  BY DEF SoloInv, RowsSay
<1> QED
  BY <1>3, <1>5, <1>7, <1>8, <1>9, SoloLoanWrite DEF LoanRowSays

(* Nobody wrote the row since the edit was begun, so every column gets the *)
(* value computed from the row.                                            *)
LEMMA SoloLoanEdit ==
    ASSUME NEW solo, Call = {solo}, SoloInv, CustodyInv', NEW c \in Call,
           L!EditUpdate(c), UNCHANGED trade
    PROVE  SoloInv'
<1>1. call[c] \in EditLoan /\ CallSays(call[c]) /\ CallKnows(call[c]) /\ FlowTypeOK
  <2>1. call[c].op = "editLoan" /\ call[c] \in CallState
    BY DEF L!EditUpdate, L!At, SoloInv, CustodyInv, FlowTypeOK
  <2> QED
    BY <2>1, KindOf DEF SoloInv, CustodyInv
<1>2. PICK l \in Loan, terms \in L!Terms, seen \in L!LoanRow :
          l = call[c].l /\ terms = call[c].terms /\ seen = call[c].seen
  BY <1>1 DEF EditLoan
<1>3. HasLoan(l) /\ seen = loan[l] /\ LoanRowSays(l)
  BY <1>1, <1>2 DEF SoloInv, RowsSay, CallSays, CallKnows, EditLoan
<1>4. PICK rate, totals :
          /\ rate = L!Edited(seen.financier, terms.financier, seen.rate)
          /\ totals = [amount |-> terms.amount, financier |-> rate]
  OBVIOUS
<1>5. PICK row : row = [loan[l] EXCEPT
          !.amount = L!Edited(seen.amount, terms.amount, @),
          !.financier = L!Edited(seen.financier, terms.financier, @),
          !.rate = L!Edited(seen.rate, rate, @),
          !.totals = L!Edited(seen.totals, totals, @)]
  OBVIOUS
<1>6. loan' = [loan EXCEPT ![l] = row]
  BY <1>1, <1>2, <1>3, <1>4, <1>5 DEF L!EditUpdate, FlowTypeOK, L!LoanRow
<1>7. /\ row.receiptId = seen.receiptId /\ row.amount = terms.amount
      /\ row.financier = terms.financier /\ row.rate = rate /\ row.totals = totals
  BY <1>3, <1>5 DEF L!Edited, L!LoanRow
<1>8. rate = terms.financier /\ receipt[seen.receiptId].sourceTxn = l
  BY <1>3, <1>4 DEF LoanRowSays, L!Edited
<1>9. call' = [call EXCEPT ![c] = Idle] /\ UNCHANGED <<ledgerVars, trade>>
  BY DEF L!EditUpdate, L!Return, L!Idle, Idle, L!ledgerVars, ledgerVars
<1> QED
  BY <1>4, <1>6, <1>7, <1>8, <1>9, SoloLoanWrite

LEMMA SoloAbort ==
    ASSUME NEW solo, Call = {solo}, SoloInv, CustodyInv', NEW c \in Call,
           \/ L!Abort(c) /\ UNCHANGED trade
           \/ T!Abort(c) /\ UNCHANGED loan
    PROVE  SoloInv'
<1>1. call' = [call EXCEPT ![c] = Idle] /\ UNCHANGED <<ledgerVars, loan, trade>>
  BY DEF L!Abort, L!Abandon, L!Return, L!Idle, L!Reading, L!ledgerVars, T!Abort, T!Abandon,
         T!Return, T!Idle, T!Reading, T!ledgerVars, Idle, ledgerVars
<1>2. CallKnows(Idle)
  BY DEF CallKnows, Idle
<1> QED
  BY <1>1, <1>2, SoloReading

(* A handler begins with what it reads.                                    *)
LEMMA SoloLoanLoad ==
    ASSUME NEW solo, Call = {solo}, SoloInv, CustodyInv', NEW c \in Call, UNCHANGED trade,
           \/ \E r \in Minted, terms \in L!Terms : L!CreateLoad(c, r, terms)
           \/ \E l \in Loan : L!ApproveLoad(c, l) \/ L!RejectLoad(c, l) \/ L!RepayLoad(c, l)
           \/ \E l \in Loan, terms \in L!Terms : L!EditLoad(c, l, terms)
    PROVE  SoloInv'
<1>1. UNCHANGED <<ledgerVars, loan, trade>>
  BY DEF L!CreateLoad, L!ApproveLoad, L!RejectLoad, L!RepayLoad, L!EditLoad, L!Load,
         L!Reading, L!ledgerVars, ledgerVars
<1>2. PICK state : call' = [call EXCEPT ![c] = state] /\ CallKnows(state)
  <2>1. ASSUME NEW l \in Loan, NEW op \in {"approveLoan", "rejectLoan", "repayLoan"}, NEW step
        PROVE  CallKnows([op |-> op, step |-> step, l |-> l])
    BY DEF CallKnows
  <2>2. ASSUME NEW r, NEW terms
        PROVE  CallKnows([op |-> "createLoan", step |-> "hold", r |-> r,
                          quantity |-> receipt[r].quantity, terms |-> terms])
    BY DEF CallKnows
  <2>3. ASSUME NEW l, NEW terms
        PROVE  CallKnows([op |-> "editLoan", step |-> "update", l |-> l, terms |-> terms,
                          seen |-> loan[l]])
    BY DEF CallKnows
  <2>4. CASE \E r \in Minted, terms \in L!Terms : L!CreateLoad(c, r, terms)
    BY <2>2, <2>4 DEF L!CreateLoad, L!Begin
  <2>5. CASE \E l \in Loan, terms \in L!Terms : L!EditLoad(c, l, terms)
    BY <2>3, <2>5 DEF L!EditLoad, L!Begin
  <2>6. CASE \E l \in Loan : L!ApproveLoad(c, l) \/ L!RejectLoad(c, l) \/ L!RepayLoad(c, l)
    BY <2>1, <2>6 DEF L!ApproveLoad, L!RejectLoad, L!RepayLoad, L!Load, L!Begin
  <2> QED
    BY <2>4, <2>5, <2>6
<1> QED
  BY <1>1, <1>2, SoloReading

LEMMA SoloLoanNext ==
    ASSUME NEW solo, Call = {solo}, SoloInv, CustodyInv', L!Next, UNCHANGED trade
    PROVE  SoloInv'
<1>1. PICK c \in Call :
         L!Create(c) \/ L!Approve(c) \/ L!Reject(c) \/ L!Repay(c) \/ L!Edit(c) \/ L!Abort(c)
  BY DEF L!Next
<1>2. CASE L!Create(c)
  BY <1>2, LoansOverLedger, SoloLoanLoad, SoloLoanHold, SoloLoanInsert DEF L!Create
<1>3. CASE L!Approve(c) \/ L!Reject(c) \/ L!Repay(c)
  BY <1>3, SoloLoanLoad, SoloLoanLedger, SoloLoanUpdate DEF L!Approve, L!Reject, L!Repay
<1>4. CASE L!Edit(c)
  BY <1>4, SoloLoanLoad, SoloLoanEdit DEF L!Edit
<1> QED
  BY <1>1, <1>2, <1>3, <1>4, SoloAbort

-----------------------------------------------------------------------------
(* The exchange.                                                           *)

LEMMA SoloTradeHold ==
    ASSUME NEW solo, Call = {solo}, SoloInv, CustodyInv', NEW c \in Call, NEW t \in Trade,
           T!CreateHold(c, t), UNCHANGED loan
    PROVE  SoloInv'
<1> DEFINE k == T!HoldKey(t)
<1>1. call[c] \in PickTrade /\ CallKnows(call[c])
  <2>1. call[c].op = "createTrade" /\ call[c].step = "hold" /\ call[c] \in CallState
    BY DEF T!CreateHold, T!At, SoloInv, CustodyInv, FlowTypeOK
  <2> QED
    BY <2>1, KindOf DEF SoloInv
<1>2. PICK r \in Minted, seller \in Client : /\ r = call[c].r /\ seller = call[c].seller
                                             /\ receipt[r].owner = seller
                                             /\ call[c].quantity = receipt[r].quantity
  BY <1>1 DEF PickTrade, CallKnows
<1>3. Hold(k, r, Exactly(receipt[r].quantity), "HELD_TRADE", t) /\ "HELD_TRADE" \in HeldStatus
  BY <1>2, TradesOverLedger DEF T!CreateHold, HeldStatus
<1> HIDE DEF k
<1>4. /\ StockSays' /\ Steady
      /\ \A x \in Minted' : receipt'[x].sourceEvent = k =>
            receipt'[x].sourceTxn = t /\ receipt'[x].owner = seller
  BY <1>2, <1>3, SoloHold DEF k
<1>5. PICK held \in Receipt :
          /\ receipt'[held].sourceEvent = k
          /\ call' = [call EXCEPT ![c] = [op |-> "createTrade", step |-> "insert", t |-> t,
                                          held |-> held, seller |-> seller]]
          /\ UNCHANGED trade
  BY <1>2, TradesOverLedger DEF T!CreateHold, T!Continue, k
<1> DEFINE state == [op |-> "createTrade", step |-> "insert", t |-> t, held |-> held,
                     seller |-> seller]
<1>6. held \in Minted'
  <2>1. call'[c] = state /\ call'[c] \in CallState'
    BY <1>5 DEF SoloInv, CustodyInv, FlowTypeOK
  <2>2. state \in BornTrade'
    BY <2>1 DEF CallState, PickLoan, BornLoan, DecideLoan, EditLoan, PickTrade, BornTrade,
                SettleTrade, CancelTrade, EditDeposit, Idle
  <2> QED
    BY <2>2 DEF BornTrade
<1>7. CallKnows(state)'
  BY <1>4, <1>5, <1>6 DEF CallKnows
<1>8. call' = [call EXCEPT ![c] = state]
  BY <1>5
<1> HIDE DEF state
<1> QED
  BY <1>4, <1>5, <1>7, <1>8, RowsKept, SoloStep

(* A row of a trade is written, the ledger is not called.                  *)
LEMMA SoloTradeWrite ==
    ASSUME NEW solo, Call = {solo}, SoloInv, CustodyInv', UNCHANGED <<ledgerVars, loan>>,
           NEW t \in Trade, NEW row, trade' = [trade EXCEPT ![t] = row],
           receipt[row.receiptId].sourceTxn = t, receipt[row.receiptId].owner = row.seller,
           NEW c \in Call, call' = [call EXCEPT ![c] = Idle]
    PROVE  SoloInv'
<1>1. StockSays' /\ Steady
  BY StillKeepsStock, StillSteady DEF SoloInv
<1>2. trade'[t] = row /\ \A u \in Trade \ {t} : trade'[u] = trade[u]
  BY DEF SoloInv, CustodyInv, FlowTypeOK
<1>3. TradeRowSays(t)'
  BY <1>2 DEF TradeRowSays, ledgerVars
<1>4. \A u \in Trade : TradeRowSays(u)'
  BY <1>1, <1>2, <1>3, TradesKept
<1>5. \A l \in Loan : LoanRowSays(l)'
  BY <1>1, LoanRowKept DEF Steady
<1> QED
  BY <1>1, <1>4, <1>5, SoloReturn DEF RowsSay

LEMMA SoloTradeInsert ==
    ASSUME NEW solo, Call = {solo}, SoloInv, CustodyInv', NEW c \in Call,
           T!CreateInsert(c), UNCHANGED loan
    PROVE  SoloInv'
<1>1. call[c] \in BornTrade /\ CallKnows(call[c])
  <2>1. call[c].op = "createTrade" /\ call[c].step = "insert" /\ call[c] \in CallState
    BY DEF T!CreateInsert, T!At, SoloInv, CustodyInv, FlowTypeOK
  <2> QED
    BY <2>1, KindOf DEF SoloInv
<1>2. PICK t \in Trade, held \in Minted, seller \in Client :
          t = call[c].t /\ held = call[c].held /\ seller = call[c].seller
  BY <1>1 DEF BornTrade
<1> DEFINE row == [status |-> "LISTED", receiptId |-> held, seller |-> seller, buyer |-> None]
<1>3. /\ trade' = [trade EXCEPT ![t] = row] /\ UNCHANGED <<ledgerVars, loan>>
      /\ call' = [call EXCEPT ![c] = Idle]
  BY <1>2 DEF T!CreateInsert, T!Return, T!Idle, T!ledgerVars, ledgerVars, Idle
<1>4. receipt[row.receiptId].sourceTxn = t /\ receipt[row.receiptId].owner = row.seller
  BY <1>1, <1>2 DEF CallKnows, BornTrade
<1> HIDE DEF row
<1> QED
  BY <1>3, <1>4, SoloTradeWrite

(* The goods of another listing are another receipt.                       *)
LEMMA SoloSettle ==
    ASSUME NEW solo, Call = {solo}, SoloInv, CustodyInv', NEW c \in Call,
           T!SettleTransfer(c), UNCHANGED loan
    PROVE  SoloInv'
<1>1. call[c].op = "settleTrade"
  BY DEF T!SettleTransfer, T!At
<1>2. PICK t \in Trade, b \in Client, r \in Minted :
          t = call[c].t /\ b = call[c].buyer /\ r = trade[t].receiptId
  BY <1>1, ListedTrade DEF SoloInv, SettleTrade
<1>3. FlowTypeOK /\ HasTrade(t) /\ trade[t] \in T!TradeRow
  BY <1>1, <1>2, ListedTrade DEF SoloInv
<1>4. /\ trade' = [trade EXCEPT ![t].status = "SETTLED", ![t].buyer = b]
      /\ call' = [call EXCEPT ![c] = Idle]
  BY <1>2 DEF T!SettleTransfer, T!Return, T!Idle, Idle
<1> DEFINE k == T!TransferKey(t)
<1>5. k \in Key /\ (\A x \in Receipt : k \notin JudgeKeys(x)) /\ TransferAndRelease(k, r, b)
  BY <1>2, KeysKnown, KeysApart, TradesOverLedger DEF TradeKeys, T!SettleTransfer
<1> HIDE DEF k
<1>6. /\ Moves(k) /\ Minted' = Minted
      /\ \A s \in Minted \ {r} : receipt'[s].owner = receipt[s].owner
  BY <1>3, <1>5, TransferMoves
<1>7. StockSays' /\ \A s \in Minted : receipt'[s].sourceTxn = receipt[s].sourceTxn
  BY <1>5, <1>6, SoloMoves DEF Whole
<1>8. /\ trade'[t].status = "SETTLED" /\ trade'[t].receiptId = r
      /\ \A u \in Trade \ {t} : trade'[u] = trade[u]
  BY <1>2, <1>3, <1>4 DEF FlowTypeOK, T!TradeRow
<1>9. receipt[r].sourceTxn = t
  BY <1>2, <1>3 DEF SoloInv, RowsSay, TradeRowSays
<1>10. ASSUME NEW u \in Trade \ {t}
       PROVE  TradeRowSays(u)'
  <2>1. HasTrade(u) => /\ trade[u].receiptId \in Minted
                       /\ receipt[trade[u].receiptId].sourceTxn = u
    BY <1>3 DEF SoloInv, RowsSay, TradeRowSays, HasTrade, FlowTypeOK, T!TradeRow, T!Minted,
                Minted
  <2>2. HasTrade(u) => trade[u].receiptId \in Minted \ {r}
    BY <1>9, <2>1
  <2> QED
    BY <1>6, <1>7, <1>8, <2>2, TradeRowKept
<1>11. TradeRowSays(t)'
  BY <1>7, <1>8, <1>9 DEF TradeRowSays
<1>12. \A l \in Loan : LoanRowSays(l)'
  BY <1>7, LoanRowKept
<1> QED
  BY <1>4, <1>7, <1>10, <1>11, <1>12, SoloReturn DEF RowsSay

LEMMA SoloCancelRelease ==
    ASSUME NEW solo, Call = {solo}, SoloInv, CustodyInv', NEW c \in Call,
           T!CancelRelease(c), UNCHANGED loan
    PROVE  SoloInv'
<1>1. call[c].op = "cancelTrade"
  BY DEF T!CancelRelease, T!At
<1>2. PICK t \in Trade, r \in Minted : t = call[c].t /\ r = trade[t].receiptId
  BY <1>1, ListedTrade DEF SoloInv
<1>3. PICK state \in CancelTrade : state = [call[c] EXCEPT !.step = "update"]
  BY <1>1, ListedTrade DEF SoloInv, CancelTrade
<1> DEFINE k == T!CancelKey(t)
<1>4. /\ Release(k, r) \/ UNCHANGED ledgerVars
      /\ call' = [call EXCEPT ![c] = state] /\ UNCHANGED <<loan, trade>>
  BY <1>2, <1>3, TradesOverLedger DEF T!CancelRelease, T!Continue
<1>5. k \in Key /\ \A x \in Receipt : k \notin JudgeKeys(x)
  BY KeysKnown, KeysApart DEF TradeKeys
<1> HIDE DEF k
<1>6. Moves(k) /\ SameOwners /\ Minted' = Minted
  <2>1. CASE Release(k, r)
    BY <1>5, <2>1, ReleaseMoves DEF SoloInv, CustodyInv
  <2>2. CASE UNCHANGED ledgerVars
    BY <2>2, StillMoves DEF SoloInv, CustodyInv, SameOwners, ledgerVars, Minted
  <2> QED
    BY <1>4, <2>1, <2>2
<1>7. StockSays' /\ Steady
  BY <1>5, <1>6, SoloMoves DEF Steady, SameOwners, Whole
<1>8. CallKnows(state)'
  BY DEF CallKnows, CancelTrade
<1> QED
  BY <1>4, <1>7, <1>8, RowsKept, SoloStep

(* What was given back was not sold, so it is the seller's.                *)
LEMMA SoloCancelUpdate ==
    ASSUME NEW solo, Call = {solo}, SoloInv, CustodyInv', NEW c \in Call,
           T!CancelUpdate(c), UNCHANGED loan
    PROVE  SoloInv'
<1>1. call[c].op = "cancelTrade" /\ call[c].step = "update"
  BY DEF T!CancelUpdate, T!At
<1>2. PICK t \in Trade : t = call[c].t
  BY <1>1, ListedTrade DEF SoloInv
<1>3. /\ CallSays(call[c]) /\ FlowTypeOK /\ HasTrade(t)
      /\ trade[t] \in T!TradeRow /\ TradeSays(t)
  BY <1>1, <1>2, ListedTrade DEF SoloInv
<1>4. trade[t].status # "SETTLED"
  BY <1>1, <1>2, <1>3 DEF CallSays, TradeSays
<1>5. PICK row : row = [trade[t] EXCEPT !.status = "CANCELLED"]
  OBVIOUS
<1>6. row.receiptId = trade[t].receiptId /\ row.seller = trade[t].seller
  BY <1>3, <1>5 DEF T!TradeRow
<1>7. /\ trade' = [trade EXCEPT ![t] = row] /\ UNCHANGED <<ledgerVars, loan>>
      /\ call' = [call EXCEPT ![c] = Idle]
  BY <1>2, <1>3, <1>5
     DEF T!CancelUpdate, T!Return, T!Idle, T!ledgerVars, ledgerVars, Idle, FlowTypeOK
<1>8. /\ receipt[trade[t].receiptId].sourceTxn = t
      /\ receipt[trade[t].receiptId].owner = trade[t].seller
  BY <1>3, <1>4 DEF SoloInv, RowsSay, TradeRowSays
<1> QED
  BY <1>6, <1>7, <1>8, SoloTradeWrite

LEMMA SoloTradeLoad ==
    ASSUME NEW solo, Call = {solo}, SoloInv, CustodyInv', NEW c \in Call, UNCHANGED loan,
           \/ \E r \in Minted : T!CreateLoad(c, r)
           \/ \E t \in Trade : T!CancelLoad(c, t)
           \/ \E t \in Trade, b \in Client : T!SettleLoad(c, t, b)
    PROVE  SoloInv'
<1>1. UNCHANGED <<ledgerVars, loan, trade>>
  BY DEF T!CreateLoad, T!CancelLoad, T!SettleLoad, T!Reading, T!ledgerVars, ledgerVars
<1>2. PICK state : call' = [call EXCEPT ![c] = state] /\ CallKnows(state)
  <2>1. ASSUME NEW r
        PROVE  CallKnows([op |-> "createTrade", step |-> "hold", r |-> r,
                          quantity |-> receipt[r].quantity, seller |-> receipt[r].owner])
    BY DEF CallKnows
  <2>2. ASSUME NEW t
        PROVE  CallKnows([op |-> "cancelTrade", step |-> "release", t |-> t])
    BY DEF CallKnows
  <2>3. ASSUME NEW t, NEW b
        PROVE  CallKnows([op |-> "settleTrade", step |-> "transfer", t |-> t, buyer |-> b])
    BY DEF CallKnows
  <2>4. CASE \E r \in Minted : T!CreateLoad(c, r)
    BY <2>1, <2>4 DEF T!CreateLoad, T!Begin
  <2>5. CASE \E t \in Trade : T!CancelLoad(c, t)
    BY <2>2, <2>5 DEF T!CancelLoad, T!Begin
  <2>6. CASE \E t \in Trade, b \in Client : T!SettleLoad(c, t, b)
    BY <2>3, <2>6 DEF T!SettleLoad, T!Begin
  <2> QED
    BY <2>4, <2>5, <2>6
<1> QED
  BY <1>1, <1>2, SoloReading

(* A step that leaves the ledger, the rows and the handler alone.          *)
LEMMA SoloStill ==
    ASSUME SoloInv, CustodyInv', UNCHANGED <<ledgerVars, loan, trade, call>>
    PROVE  SoloInv'
<1>1. StockSays' /\ RowsSay'
  BY StillKeepsStock, StillSteady, RowsKept DEF SoloInv
<1>2. \A c \in Call : CallKnows(call[c])'
  BY DEF SoloInv, CallKnows, ledgerVars
<1> QED
  BY <1>1, <1>2 DEF SoloInv

LEMMA SoloTradeNext ==
    ASSUME NEW solo, Call = {solo}, SoloInv, CustodyInv', T!Next, UNCHANGED loan
    PROVE  SoloInv'
<1>1. CASE \E t \in Trade, b \in Client : T!SettleAgain(t, b)
  <2>1. UNCHANGED <<ledgerVars, loan, trade, call>>
    BY <1>1 DEF T!SettleAgain, T!ledgerVars, ledgerVars
  <2> QED
    BY <2>1, SoloStill
<1>2. ASSUME NEW c \in Call, T!Create(c)
      PROVE  SoloInv'
  BY <1>2, TradesOverLedger, SoloTradeLoad, SoloTradeHold, SoloTradeInsert DEF T!Create
<1>3. ASSUME NEW c \in Call, T!Settle(c)
      PROVE  SoloInv'
  <2>1. CASE T!SettleReplay(c)
    <3>1. /\ call' = [call EXCEPT ![c] = Idle] /\ UNCHANGED <<ledgerVars, loan, trade>>
          /\ CallKnows(Idle)
      BY <2>1, TradesOverLedger DEF T!SettleReplay, T!Return, T!Idle, Idle, CallKnows
    <3> QED
      BY <3>1, SoloReading
  <2> QED
    BY <1>3, <2>1, SoloTradeLoad, SoloSettle DEF T!Settle
<1>4. ASSUME NEW c \in Call, T!Cancel(c)
      PROVE  SoloInv'
  BY <1>4, SoloTradeLoad, SoloCancelRelease, SoloCancelUpdate DEF T!Cancel
<1> QED
  BY <1>1, <1>2, <1>3, <1>4, SoloAbort DEF T!Next

-----------------------------------------------------------------------------
LEMMA SoloInit == Init => SoloInv
<1> SUFFICES ASSUME Init
             PROVE  SoloInv
  OBVIOUS
<1>1. CustodyInv /\ call = [c \in Call |-> Idle] /\ L!LoanInit /\ T!TradeInit
  BY InitKeeps DEF Init, D!Init, D!Idle, Idle
<1>2. Minted = {}
  BY DEF Init, D!Init, D!LedgerInit, Minted
<1>3. StockSays
  BY <1>2 DEF StockSays, OneEnd
<1>4. RowsSay
  BY <1>1 DEF RowsSay, LoanRowSays, TradeRowSays, HasLoan, HasTrade, L!LoanInit, T!TradeInit
<1>5. \A c \in Call : CallKnows(call[c])
  BY <1>1 DEF CallKnows, Idle
<1> QED
  BY <1>1, <1>3, <1>4, <1>5 DEF SoloInv

LEMMA SoloNext ==
    ASSUME NEW solo, Call = {solo}
    PROVE  SoloInv /\ [Next]_vars => SoloInv'
<1> SUFFICES ASSUME SoloInv, [Next]_vars
             PROVE  SoloInv'
  OBVIOUS
<1>1. CustodyInv'
  BY NextKeeps DEF SoloInv
<1>2. CASE UNCHANGED vars
  BY <1>1, <1>2, SoloStill DEF vars
<1>3. CASE Next
  BY <1>1, <1>3, SoloDepositNext, SoloLoanNext, SoloTradeNext DEF Next
<1> QED
  BY <1>2, <1>3

(* What a single handler can rely on holds of every reachable state.       *)
THEOREM SoloInvariance ==
    ASSUME NEW solo, Call = {solo}
    PROVE  Spec => []SoloInv
<1>1. Init => SoloInv
  BY SoloInit
<1>2. SoloInv /\ [Next]_vars => SoloInv'
  BY SoloNext
<1> QED
  BY <1>1, <1>2, PTL DEF Spec

(* One request at a time, each possibly cut short: the quantity that the   *)
(* administrator approved is the one the receipt stands for, whatever      *)
(* corrections, loans and sales there were (approveReceipt,                *)
(* applyDepositEdit).                                                      *)
THEOREM ApprovalSetsTheQuantity ==
    ASSUME NEW solo, Call = {solo}
    PROVE  Spec => []ApprovedQuantityStands
<1>1. SoloInv => ApprovedQuantityStands
  <2> SUFFICES ASSUME SoloInv, NEW r \in Minted, Did(D!ApproveKey(r))
               PROVE  receipt[r].quantity = event[D!ApproveKey(r)].quantity
    BY DepositsOverLedger, OneJournal
       DEF ApprovedQuantityStands, D!ApprovedQuantityStands, D!Did, Did
  <2> QED
    BY DEF SoloInv, StockSays, JudgedSays
<1> QED
  BY <1>1, SoloInvariance, PTL

(* One request at a time: the repayment schedule on record is that of the  *)
(* principal and the financier on record, after any number of edits        *)
(* (createLoan, editLoan).                                                 *)
THEOREM ScheduleFollowsTerms ==
    ASSUME NEW solo, Call = {solo}
    PROVE  Spec => []ScheduleMatchesTerms
<1>1. SoloInv => ScheduleMatchesTerms
  BY DEF SoloInv, RowsSay, LoanRowSays, HasLoan, ScheduleMatchesTerms, L!ScheduleMatchesTerms,
         L!Exists
<1> QED
  BY <1>1, SoloInvariance, PTL

-----------------------------------------------------------------------------
(* No goods are claimed twice.                                             *)

LEMMA AmountTakenOut ==
    ASSUME NEW table, NEW S, IsFiniteSet(S), \A r \in S : table[r].quantity \in Nat,
           NEW x \in S
    PROVE  /\ Amount(table, S) \in Int /\ Amount(table, S \ {x}) \in Int
           /\ Amount(table, S) = Amount(table, S \ {x}) + table[x].quantity
<1>1. \A r \in S : table[r].quantity \in Int
  OBVIOUS
<1>2. PICK U : U = S \ {x}
  OBVIOUS
<1> QED
  BY <1>1, <1>2, AmountWithout

(* Rows that answer each to a row of its own, of the same quantity, sum up *)
(* to no more than those: by induction on the number of the former.        *)
LEMMA AmountWithin ==
    ASSUME NEW s, NEW A, IsFiniteSet(A), \A x \in A : s[x].quantity \in Nat,
           NEW t, NEW B, IsFiniteSet(B), \A y \in B : t[y].quantity \in Nat,
           NEW f,
           \A x \in A : s[x].quantity # 0 => /\ f[x] \in B
                                             /\ s[x].quantity = t[f[x]].quantity,
           \A x, z \in A : s[x].quantity # 0 /\ s[z].quantity # 0 /\ f[x] = f[z] => x = z
    PROVE  Amount(s, A) <= Amount(t, B)
<1> DEFINE Good(X, Y) == \A x \in X : s[x].quantity # 0 => f[x] \in Y
           Bad == {p \in (SUBSET A) \X (SUBSET B) :
                      Good(p[1], p[2]) /\ ~(Amount(s, p[1]) <= Amount(t, p[2]))}
           sizes == {Cardinality(p[1]) : p \in Bad}
<1>1. SUFFICES ASSUME Bad # {} PROVE FALSE
  <2>1. <<A, B>> \in (SUBSET A) \X (SUBSET B) /\ Good(A, B)
    OBVIOUS
  <2> QED
    BY <1>1, <2>1
<1>2. /\ \A X \in SUBSET A : IsFiniteSet(X) /\ Cardinality(X) \in Nat
      /\ \A Y \in SUBSET B : IsFiniteSet(Y)
  BY FS_Subset, FS_CardinalityType
<1>3. PICK n \in sizes : \A m \in sizes : n <= m
  <2>1. sizes \in SUBSET Nat /\ sizes # {}
    BY <1>1, <1>2
  <2> QED
    BY <2>1, LeastNat
<1>4. PICK X \in SUBSET A, Y \in SUBSET B :
          Good(X, Y) /\ ~(Amount(s, X) <= Amount(t, Y)) /\ n = Cardinality(X)
  OBVIOUS
<1>5. /\ IsFiniteSet(X) /\ \A x \in X : s[x].quantity \in Nat /\ s[x].quantity \in Int
      /\ IsFiniteSet(Y) /\ \A y \in Y : t[y].quantity \in Nat /\ t[y].quantity \in Int
  BY <1>2
<1>6. X # {}
  BY <1>4, <1>5, AmountOfNone, AmountIsNat
<1>7. PICK x, X1 : x = First(X) /\ X1 = X \ {x}
  OBVIOUS
<1>8. /\ x \in X /\ X1 \in SUBSET A
      /\ Cardinality(X1) = Cardinality(X) - 1 /\ Cardinality(X) \in Nat
  BY <1>5, <1>6, <1>7, FirstOf
<1>9. /\ Amount(s, X) \in Int /\ Amount(s, X1) \in Int
      /\ Amount(s, X) = Amount(s, X1) + s[x].quantity
  <2>1. /\ Amount(s, X) \in Int /\ Amount(s, X \ {x}) \in Int
        /\ Amount(s, X) = Amount(s, X \ {x}) + s[x].quantity
    BY <1>5, <1>8, AmountTakenOut
  <2> QED
    BY <1>7, <2>1
<1>10. ASSUME NEW Z \in SUBSET B, Good(X1, Z)
       PROVE  Amount(s, X1) <= Amount(t, Z)
  <2>1. <<X1, Z>> \in Bad => Cardinality(X1) \in sizes
    OBVIOUS
  <2>2. <<X1, Z>> \notin Bad
    BY <1>3, <1>4, <1>8, <2>1
  <2> QED
    BY <1>8, <1>10, <2>2
<1>11. CASE s[x].quantity = 0
  <2>1. Good(X1, Y)
    BY <1>4, <1>7
  <2>2. Amount(s, X1) <= Amount(t, Y)
    BY <1>10, <2>1
  <2>3. Amount(s, X) = Amount(s, X1)
    BY <1>9, <1>11
  <2> QED
    BY <1>4, <2>2, <2>3
<1>12. CASE s[x].quantity # 0
  <2>1. PICK y : y = f[x] /\ y \in Y
    BY <1>4, <1>8, <1>12
  <2>2. PICK Y1 : Y1 \in SUBSET B /\ Y1 = Y \ {y}
    OBVIOUS
  <2>3. Good(X1, Y1)
    BY <1>4, <1>7, <1>8, <1>12, <2>1, <2>2
  <2>4. Amount(s, X1) <= Amount(t, Y1)
    BY <1>10, <2>2, <2>3
  <2>5. s[x].quantity = t[y].quantity /\ s[x].quantity \in Int
    BY <1>5, <1>8, <1>12, <2>1
  <2> HIDE DEF Good, Bad, sizes
  <2>6. /\ Amount(t, Y) \in Int /\ Amount(t, Y \ {y}) \in Int
        /\ Amount(t, Y) = Amount(t, Y \ {y}) + t[y].quantity
    BY <1>5, <2>1, AmountTakenOut
  <2> QED
    BY <1>4, <1>9, <2>2, <2>4, <2>5, <2>6
<1> QED
  BY <1>11, <1>12

(* A claim is for one receipt, of which it names the transaction, or for   *)
(* none.                                                                   *)
LEMMA ClaimIsForOne ==
    ASSUME SoloInv, NEW x \in Loan \cup Trade
    PROVE  \/ Claim[x].quantity = 0
           \/ \E r \in Minted : /\ Claim[x].quantity = receipt[r].quantity
                                /\ receipt[r].sourceTxn = x /\ IsHeld(r)
<1>1. PICK rs : rs = IF x \in Loan THEN Backing(x) ELSE Listed(x)
  OBVIOUS
<1>2. Claim[x].quantity = Amount(receipt, rs)
  BY <1>1 DEF Claim
<1>3. \A r \in rs : /\ r \in Minted /\ receipt[r].sourceTxn = x /\ IsHeld(r)
                    /\ rs = {r}
  <2>1. CASE x \in Loan
    <3>1. rs = {r \in Minted : HasLoan(x) /\ loan[x].receiptId = r /\ IsHeld(r)}
      BY <1>1, <2>1 DEF Backing, L!Exists, HasLoan
    <3>2. LoanRowSays(x)
      BY <2>1 DEF SoloInv, RowsSay
    <3> QED
      BY <3>1, <3>2 DEF LoanRowSays
  <2>2. CASE x \notin Loan
    <3>1. rs = {r \in Minted : HasTrade(x) /\ trade[x].receiptId = r /\ IsHeld(r)}
      BY <1>1, <2>2 DEF Listed, T!Exists, HasTrade
    <3>2. TradeRowSays(x)
      BY <2>2 DEF SoloInv, RowsSay
    <3> QED
      BY <3>1, <3>2 DEF TradeRowSays
  <2> QED
    BY <2>1, <2>2
<1>4. CASE rs = {}
  BY <1>2, <1>4, AmountOfNone
<1>5. ASSUME NEW r \in rs
      PROVE  Claim[x].quantity = receipt[r].quantity
  <2>1. r \in Minted /\ rs = {r}
    BY <1>3
  <2>2. IsFiniteSet({r}) /\ {r} \ {r} = {}
    BY FS_Singleton
  <2>3. receipt[r].quantity \in Nat
    BY <2>1, RowTyped DEF SoloInv, CustodyInv, FlowTypeOK, LedgerTypeOK, Row
  <2>4. Amount(receipt, {r}) = Amount(receipt, {r} \ {r}) + receipt[r].quantity
    BY <2>2, <2>3, AmountTakenOut
  <2>5. Amount(receipt, {r} \ {r}) = 0
    BY <2>2, AmountOfNone
  <2> QED
    BY <1>2, <2>1, <2>3, <2>4, <2>5
<1> QED
  BY <1>3, <1>4, <1>5

(* One request at a time: what is for sale is the seller's, and the        *)
(* collateral of the loans and the listings together never exceed the      *)
(* deposits that were approved, whoever pledges, lists, repays and sells   *)
(* on in whatever order (createLoan, createTrade, settleTrade).            *)
THEOREM NothingIsClaimedTwice ==
    ASSUME NEW solo, Call = {solo}, IsFiniteSet(Loan), IsFiniteSet(Trade)
    PROVE  Spec => []SoldGoodsAreClaimedOnce
<1>1. SoloInv => UnsoldStaysWithSeller
  BY DEF SoloInv, RowsSay, TradeRowSays, HasTrade, UnsoldStaysWithSeller,
         T!UnsoldStaysWithSeller, T!Exists
<1>2. SoloInv => NoGoodsClaimedTwice
  <2> SUFFICES ASSUME SoloInv
               PROVE  NoGoodsClaimedTwice
    OBVIOUS
  <2> DEFINE A == Loan \cup Trade
  <2>1. /\ FlowTypeOK /\ Minted \subseteq Receipt /\ \A r \in Minted : receipt[r] \in Row
    BY RowTyped DEF SoloInv, CustodyInv, FlowTypeOK, LedgerTypeOK
  <2>2. IsFiniteSet(A) /\ IsFiniteSet(LetIn)
    <3>1. MaxReceipts \in Int /\ 1 \in Int
      BY BoundsAssumption
    <3>2. IsFiniteSet(Receipt)
      BY <3>1, FS_Interval DEF Receipt
    <3>3. LetIn \subseteq Receipt
      BY <2>1 DEF LetIn
    <3> QED
      BY <3>2, <3>3, FS_Union, FS_Subset
  <2>3. \A r \in LetIn : receipt[r].quantity \in Nat
    BY <2>1 DEF LetIn, Row
  <2>4. \A x \in A : Claim[x].quantity \in Nat
    BY <2>1, ClaimIsForOne DEF Row
  <2> DEFINE Claimed(x) == {r \in Minted : /\ Claim[x].quantity = receipt[r].quantity
                                         /\ receipt[r].sourceTxn = x /\ IsHeld(r)}
             f == [x \in A |-> receipt[CHOOSE r \in Claimed(x) : TRUE].root]
  <2>5. ASSUME NEW x \in A, Claim[x].quantity # 0
        PROVE  \E r \in Minted : /\ f[x] = receipt[r].root /\ receipt[r].sourceTxn = x
                                 /\ receipt[r].status # "SPLIT"
                                 /\ f[x] \in LetIn
                                 /\ Claim[x].quantity = receipt[f[x]].quantity
    <3>1. Claimed(x) # {}
      BY <2>5, ClaimIsForOne
    <3>2. PICK r \in Claimed(x) : f[x] = receipt[r].root
      BY <3>1
    <3>3. /\ r \in Minted /\ receipt[r].sourceTxn = x
          /\ Claim[x].quantity = receipt[r].quantity
          /\ receipt[r].status # "SPLIT" /\ receipt[r].status \notin Unjudged
      BY DEF IsHeld, HeldStatus, Unjudged
    <3>4. LineSays(r)
      BY <3>3 DEF SoloInv, StockSays
    <3>5. f[x] \in LetIn /\ receipt[r].quantity = receipt[f[x]].quantity
      BY <3>2, <3>3, <3>4 DEF LineSays, LetIn
    <3> QED
      BY <3>2, <3>3, <3>5
  <2> HIDE DEF A, f, Claimed
  <2>6. ASSUME NEW x \in A, NEW z \in A, Claim[x].quantity # 0, Claim[z].quantity # 0,
               f[x] = f[z]
        PROVE  x = z
    <3>1. PICK r \in Minted : /\ f[x] = receipt[r].root /\ receipt[r].sourceTxn = x
                              /\ receipt[r].status # "SPLIT"
      BY <2>5, <2>6
    <3>2. PICK s \in Minted : /\ f[z] = receipt[s].root /\ receipt[s].sourceTxn = z
                              /\ receipt[s].status # "SPLIT"
      BY <2>5, <2>6
    <3>3. r = s
      BY <2>6, <3>1, <3>2 DEF SoloInv, StockSays, OneEnd
    <3> QED
      BY <3>1, <3>2, <3>3
  <2>7. \A x \in A : Claim[x].quantity # 0 => /\ f[x] \in LetIn
                                              /\ Claim[x].quantity = receipt[f[x]].quantity
    BY <2>5
  <2>8. PICK g, claim, table, goods :
           g = f /\ claim = Claim /\ table = receipt /\ goods = LetIn
    OBVIOUS
  <2>9. Amount(claim, A) <= Amount(table, goods)
    BY <2>2, <2>3, <2>4, <2>6, <2>7, <2>8, AmountWithin
  <2> QED
    BY <2>8, <2>9 DEF NoGoodsClaimedTwice, A
<1>3. SoloInv => SoldGoodsAreClaimedOnce
  BY <1>1, <1>2 DEF SoldGoodsAreClaimedOnce
<1> QED
  BY <1>3, SoloInvariance, PTL
=============================================================================
