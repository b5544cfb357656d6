----------------------- MODULE InventoryLedgerProofs -----------------------
(***************************************************************************)
(* Theorems about the ledger: its tables are well formed, every split      *)
(* conserves goods, what is free can be used, what is held says for whom,  *)
(* what is over stays over, and goods leave a receipt once.                *)
(*                                                                         *)
(* Rounding first, then the invariant LedgerInv and one lemma for each way *)
(* a primitive changes the tree: in place, by a split, by a deposit.  The  *)
(* second half is the life of a receipt, which rests on StepShapes: the    *)
(* primitives do one of three things, they take a deposit in, age one      *)
(* receipt in place, or supersede one leaf by new ones.  The proofs after  *)
(* StepShapes never look at a primitive again.                             *)
(*                                                                         *)
(* The third part is about amounts: the leaves of every tree hold what its *)
(* deposit brought in, and the ledger implements CustodyStock.             *)
(***************************************************************************)
EXTENDS LedgerRefinement, TLAPS, FiniteSetTheorems

-----------------------------------------------------------------------------
(* Rounding.                                                               *)

(* Integer division by a positive number: the quotient is the integer      *)
(* between x/d - 1 (excluded) and x/d.                                     *)
LEMMA DivisionBounds ==
    ASSUME NEW x \in Nat, NEW d \in Nat \ {0}
    PROVE  /\ x \div d \in Nat
           /\ d * (x \div d) <= x
           /\ x < d * (x \div d) + d
  OBVIOUS

(* A positive factor does not change which of two integers is larger.      *)
LEMMA CancelFactor ==
    ASSUME NEW d \in Nat \ {0}, NEW m \in Int, NEW n \in Int, d * m < d * n
    PROVE  m < n
  OBVIOUS

(* The stored quantity is the nearest one to the request, halves rounded   *)
(* up: what PostgreSQL does to the Decimal that partition() inserts.       *)
LEMMA StoredBounds ==
    ASSUME NEW x \in Nat
    PROVE  /\ Stored(x) \in Nat
           /\ 2 * Exactly(Stored(x)) <= 2 * x + Scale
           /\ 2 * x + Scale < 2 * Exactly(Stored(x)) + 2 * Scale
<1> DEFINE n == 2 * x + Scale
           d == 2 * Scale
<1>1. n \in Nat /\ d \in Nat \ {0}
  BY ScaleAssumption
<1>2. /\ n \div d \in Nat
      /\ d * (n \div d) <= n
      /\ n < d * (n \div d) + d
  BY <1>1, DivisionBounds
<1>3. Stored(x) = n \div d
  BY DEF Stored
<1> HIDE DEF n
<1>4. Stored(x) \in Nat /\ d * Stored(x) = 2 * Exactly(Stored(x))
  BY <1>2, <1>3, ScaleAssumption DEF Exactly
<1> QED
  BY <1>2, <1>3, <1>4 DEF n

(* A whole quantity is stored as it is: a hold of a complete receipt moves *)
(* exactly that receipt.                                                   *)
LEMMA WholeIsExact ==
    ASSUME NEW n \in Nat
    PROVE  Exactly(n) \in Nat /\ Stored(Exactly(n)) = n
<1> DEFINE s == Stored(Exactly(n))
<1>1. Exactly(n) \in Nat
  BY ScaleAssumption DEF Exactly
<1>2. /\ s \in Nat
      /\ 2 * Exactly(s) <= 2 * Exactly(n) + Scale
      /\ 2 * Exactly(n) + Scale < 2 * Exactly(s) + 2 * Scale
  BY <1>1, StoredBounds
<1> HIDE DEF s
<1>3. Scale * s < Scale * (n + 1) /\ Scale * n < Scale * (s + 1)
  BY <1>2, ScaleAssumption DEF Exactly
<1>4. s < n + 1 /\ n < s + 1
  BY <1>2, <1>3, CancelFactor, ScaleAssumption
<1> QED
  BY <1>1, <1>2, <1>4 DEF s

(* The two parts of a split receipt, rounded apart, add up to the receipt  *)
(* or to one stored unit more; to the receipt when nothing is rounded.     *)
LEMMA SplitDrift ==
    ASSUME NEW n \in Nat, NEW q \in Nat, q <= Exactly(n)
    PROVE  /\ Exactly(n) - q \in Nat
           /\ Stored(q) + Stored(Exactly(n) - q) - n \in 0..Drift
<1> DEFINE a == Stored(q)
           b == Stored(Exactly(n) - q)
<1>1. Exactly(n) - q \in Nat
  BY ScaleAssumption DEF Exactly
<1>2. /\ a \in Nat
      /\ 2 * Exactly(a) <= 2 * q + Scale
      /\ 2 * q + Scale < 2 * Exactly(a) + 2 * Scale
  BY StoredBounds
<1>3. /\ b \in Nat
      /\ 2 * Exactly(b) <= 2 * (Exactly(n) - q) + Scale
      /\ 2 * (Exactly(n) - q) + Scale < 2 * Exactly(b) + 2 * Scale
  BY <1>1, StoredBounds
<1> HIDE DEF a, b
<1>4. Scale * (a + b) < Scale * (n + 2) /\ Scale * n < Scale * (a + b + 1)
  BY <1>2, <1>3, ScaleAssumption DEF Exactly
<1>5. a + b < n + 2 /\ n < a + b + 1
  BY <1>2, <1>3, <1>4, CancelFactor, ScaleAssumption
<1>6. CASE Scale = 1
  <2>1. a = q /\ b = n - q
    BY <1>2, <1>3, <1>6 DEF Exactly
  <2> QED
    BY <1>1, <2>1, <1>6 DEF a, b, Drift
<1>7. CASE Scale # 1
  BY <1>1, <1>2, <1>3, <1>5, <1>7 DEF a, b, Drift
<1> QED
  BY <1>6, <1>7

-----------------------------------------------------------------------------
(* The inductive invariant.                                                *)

(* What mass conservation needs beside the types: a receipt is a parent    *)
(* exactly when it is SPLIT, so the status guards of the primitives keep a *)
(* receipt from being split twice, and parents are older than children, so *)
(* a receipt just minted has none.                                         *)
TreeShape ==
    \A r \in Minted :
        /\ receipt[r].isParent <=> receipt[r].status = "SPLIT"
        /\ receipt[r].parent < r

LedgerInv == TableTypeOK /\ TreeShape /\ SplitConservation

(* What a row may become in place without disturbing LedgerInv.            *)
SameNode(old, new) ==
    /\ new \in Row
    /\ new.quantity = old.quantity
    /\ new.parent = old.parent
    /\ new.isParent = old.isParent
    /\ new.status = "SPLIT" <=> old.status = "SPLIT"

(* The journal insert keeps the journal well formed.                       *)
LEMMA RecordKeepsJournal ==
    ASSUME JournalTypeOK, NEW k \in Key, NEW type \in EventType,
           NEW r \in Receipt, NEW q \in Nat, Record(k, type, r, q)
    PROVE  JournalTypeOK'
  BY DEF JournalTypeOK, Record, EventRow

(* A status-only transition keeps the tree and its quantities.             *)
LEMMA UpdateKeepsInv ==
    ASSUME LedgerInv, NEW r \in Minted, NEW row,
           SameNode(receipt[r], row), Update(r, row)
    PROVE  LedgerInv'
<1> USE DEF LedgerInv, Update, SameNode
<1>1. Minted' = Minted /\ r \in Receipt /\ Minted \subseteq Receipt
  BY BoundsAssumption DEF Minted, Receipt, TableTypeOK
<1>2. TableTypeOK'
  BY <1>1 DEF TableTypeOK
<1>3. \A s \in Minted : /\ receipt'[s].quantity = receipt[s].quantity
                        /\ receipt'[s].parent = receipt[s].parent
                        /\ receipt'[s].isParent = receipt[s].isParent
                        /\ receipt'[s].status = "SPLIT" <=> receipt[s].status = "SPLIT"
  BY <1>1 DEF TableTypeOK
<1>4. TreeShape'
  BY <1>1, <1>3 DEF TreeShape
<1>5. \A p : Children(p)' = Children(p)
  BY <1>1, <1>3 DEF Children
<1>6. SplitConservation'
  BY <1>1, <1>3, <1>5 DEF SplitConservation, ConservedAt
<1> QED
  BY <1>2, <1>4, <1>6

(* Children that may replace a receipt.                                    *)
Replaces(src, kids) ==
    /\ kids \in Seq(Row)
    /\ \A i \in 1..Len(kids) : /\ kids[i].parent = src
                               /\ ~kids[i].isParent
                               /\ kids[i].status # "SPLIT"
    /\ \/ /\ Len(kids) = 1
          /\ kids[1].quantity = receipt[src].quantity
       \/ /\ Len(kids) = 2
          /\ kids[1].quantity + kids[2].quantity - receipt[src].quantity \in 0..Drift

(* Superseding a leaf by such children keeps the tree and conserves mass.  *)
LEMMA SplitKeepsInv ==
    ASSUME LedgerInv, NEW src \in Minted, receipt[src].status # "SPLIT",
           NEW kids, Replaces(src, kids), Split(src, kids)
    PROVE  LedgerInv'
<1> DEFINE n == Len(kids)
           born == minted + 1 .. minted + n
<1> USE DEF LedgerInv
<1>1. /\ n \in {1, 2} /\ minted \in Nat /\ minted + n <= MaxReceipts
      /\ minted' = minted + n /\ src \in 1..minted /\ MaxReceipts \in Nat
  BY BoundsAssumption DEF Split, Replaces, TableTypeOK, Minted
<1>2. /\ Minted \subseteq Receipt /\ born \subseteq Receipt
      /\ Minted' = Minted \cup born /\ src \in Receipt
      /\ Minted \cap born = {}
  BY <1>1 DEF Minted, Receipt
<1>3. receipt'[src] = [receipt[src] EXCEPT !.status = "SPLIT", !.isParent = TRUE]
  BY <1>2 DEF Split
<1>4. \A r \in Receipt \ ({src} \cup born) : receipt'[r] = receipt[r]
  BY DEF Split
<1>5. \A r \in born : /\ receipt'[r] = kids[r - minted]
                     /\ r - minted \in 1..n
  BY <1>1, <1>2 DEF Split, Minted
<1>6. \A r \in born : /\ receipt'[r] \in Row
                     /\ receipt'[r].parent = src
                     /\ ~receipt'[r].isParent
                     /\ receipt'[r].status # "SPLIT"
  BY <1>5 DEF Replaces
<1>7. receipt[src] \in Row /\ receipt'[src] \in Row
  BY <1>2, <1>3 DEF TableTypeOK, Row, Status, ClosedStatus
<1>8. TableTypeOK'
  <2>1. receipt' \in [Receipt -> Row \cup {NoRow}]
    BY <1>2, <1>4, <1>6, <1>7 DEF TableTypeOK, Split
  <2>2. \A r \in Receipt : receipt'[r] \in Row <=> r \in Minted'
    BY <1>2, <1>4, <1>6, <1>7 DEF TableTypeOK
  <2> QED
    BY <1>1, <2>1, <2>2 DEF TableTypeOK
<1>9. /\ receipt'[src].isParent /\ receipt'[src].status = "SPLIT"
      /\ receipt'[src].parent = receipt[src].parent
      /\ receipt'[src].quantity = receipt[src].quantity
  BY <1>3, <1>7 DEF Row
<1>10. \A r \in Minted : /\ receipt'[r].parent = receipt[r].parent
                         /\ receipt'[r].quantity = receipt[r].quantity
                         /\ r # src => /\ receipt'[r].isParent = receipt[r].isParent
                                       /\ receipt'[r].status = receipt[r].status
  BY <1>2, <1>4, <1>9
<1>11. TreeShape'
  <2>1. \A r \in Minted : /\ receipt'[r].isParent <=> receipt'[r].status = "SPLIT"
                          /\ receipt'[r].parent < r
    BY <1>9, <1>10 DEF TreeShape
  <2>2. \A r \in born : src < r
    BY <1>1
  <2> QED
    BY <1>2, <1>6, <2>1, <2>2 DEF TreeShape
<1>12. Children(src) = {}
  BY DEF TreeShape, SplitConservation, ConservedAt
<1>13. \A p \in Minted' : Children(p)' = IF p = src THEN born ELSE Children(p)
  <2>1. \A p, c \in Minted' : receipt'[c].parent = p =>
            IF c \in born THEN p = src ELSE c \in Children(p)
    BY <1>2, <1>6, <1>10 DEF Children
  <2> QED
    BY <1>2, <1>6, <1>10, <1>12, <2>1 DEF Children
<1>14. \A p \in born : Children(p)' = {}
  <2>1. \A c \in Minted : receipt[c].parent < c /\ c <= minted
    BY <1>1 DEF TreeShape, Minted
  <2>2. \A c \in Minted : receipt[c].parent \notin born
    BY <1>1, <2>1 DEF TableTypeOK, Row, Receipt, NoReceipt, Minted
  <2> QED
    BY <1>2, <1>13, <2>2 DEF Children
<1>15. SplitConservation'
  <2> SUFFICES ASSUME NEW p \in Minted'
               PROVE  ConservedAt(p)'
    BY DEF SplitConservation
  <2>1. CASE p = src
    <3>1. CASE n = 1
      <4>1. born = {minted + 1} /\ minted + 1 \in born
        BY <1>1, <3>1
      <4>2. receipt'[minted + 1].quantity = receipt[src].quantity
        BY <1>1, <1>5, <3>1, <4>1 DEF Replaces
      <4> QED
        BY <1>2, <1>9, <1>13, <2>1, <4>1, <4>2 DEF ConservedAt
    <3>2. CASE n = 2
      <4> DEFINE a == minted + 1
                 b == minted + 2
      <4>1. born = {a, b} /\ a \in born /\ b \in born /\ a # b
        BY <1>1, <3>2
      <4>2. receipt'[a].quantity + receipt'[b].quantity
                - receipt'[src].quantity \in 0..Drift
        BY <1>1, <1>5, <1>9, <3>2, <4>1 DEF Replaces
      <4> HIDE DEF a, b
      <4> QED
        BY <1>2, <1>9, <1>13, <2>1, <4>1, <4>2 DEF ConservedAt
    <3> QED
      BY <1>1, <3>1, <3>2
  <2>2. CASE p \in Minted \ {src}
    <3>1. Children(p)' = Children(p) /\ Children(p) \subseteq Minted
      BY <1>2, <1>13, <2>2 DEF Children
    <3>2. ConservedAt(p)
      BY <2>2 DEF SplitConservation
    <3> QED
      BY <1>2, <1>10, <2>2, <3>1, <3>2 DEF ConservedAt
  <2>3. CASE p \in born
    BY <1>6, <1>14, <2>3 DEF ConservedAt
  <2> QED
    BY <1>2, <2>1, <2>2, <2>3
<1> QED
  BY <1>8, <1>11, <1>15

(* The children that partition() inserts replace the receipt it splits.    *)
LEMMA PartitionKeepsInv ==
    ASSUME LedgerInv, NEW src \in Minted, receipt[src].status # "SPLIT",
           NEW k \in Key, NEW q \in Nat \ {0}, q <= Exactly(receipt[src].quantity),
           NEW status \in Status \ {"SPLIT"}, NEW approval \in Approval,
           NEW owner \in Client, NEW txn \in Txn \cup {None},
           Partition(src, k, q, status, approval, owner, txn)
    PROVE  LedgerInv'
<1> DEFINE n == receipt[src].quantity
           rest == Exactly(n) - q
           primary == [ChildOf(src, k, q) EXCEPT !.status = status,
                          !.approval = approval, !.owner = owner, !.sourceTxn = txn]
           remainder == [ChildOf(src, k, rest) EXCEPT !.status = "ACTIVE",
                            !.approval = "APPROVED"]
           kids == IF rest > 0 THEN <<primary, remainder>> ELSE <<primary>>
<1>1. receipt[src] \in Row /\ src \in Receipt /\ n \in Nat
  BY BoundsAssumption DEF LedgerInv, TableTypeOK, Minted, Receipt, Row
<1>2. /\ rest \in Nat /\ Stored(q) \in Nat /\ Stored(rest) \in Nat
      /\ Stored(q) + Stored(rest) - n \in 0..Drift
  BY <1>1, SplitDrift, StoredBounds
<1>3. /\ primary \in Row /\ primary.parent = src /\ ~primary.isParent
      /\ primary.status # "SPLIT" /\ primary.quantity = Stored(q)
  BY <1>1, <1>2 DEF ChildOf, Row
<1>4. /\ remainder \in Row /\ remainder.parent = src /\ ~remainder.isParent
      /\ remainder.status # "SPLIT" /\ remainder.quantity = Stored(rest)
  BY <1>1, <1>2 DEF ChildOf, Row, Status, Approval
<1> HIDE DEF primary, remainder
<1>5. Replaces(src, kids)
  <2>1. CASE rest > 0
    <3>1. kids = <<primary, remainder>>
      BY <2>1
    <3> QED
      BY <1>2, <1>3, <1>4, <3>1 DEF Replaces
  <2>2. CASE ~(rest > 0)
    <3>0. Exactly(n) \in Nat
      BY <1>1, WholeIsExact
    <3>1. q = Exactly(n) /\ kids = <<primary>>
      BY <1>2, <2>2, <3>0
    <3>2. primary.quantity = n
      BY <1>1, <1>3, <3>1, WholeIsExact
    <3> QED
      BY <1>3, <3>1, <3>2 DEF Replaces
  <2> QED
    BY <2>1, <2>2
<1>6. Split(src, kids)
  BY DEF Partition, primary, remainder
<1> QED
  BY <1>5, <1>6, SplitKeepsInv

(* A deposit adds a root without children.                                 *)
LEMMA DepositKeepsInv ==
    ASSUME LedgerInv, NEW k \in Key, NEW c \in Client, NEW q \in Nat, Deposit(k, c, q)
    PROVE  LedgerInv'
<1> DEFINE id == minted + 1
<1> USE DEF LedgerInv
<1>1. /\ Minted \subseteq Receipt /\ id \in Receipt /\ id \notin Minted
      /\ Minted' = Minted \cup {id} /\ minted' = id /\ id \in 1..MaxReceipts
  BY BoundsAssumption DEF Deposit, TableTypeOK, Minted, Receipt
<1>2. /\ receipt'[id] \in Row /\ receipt'[id].parent = NoReceipt
      /\ ~receipt'[id].isParent /\ receipt'[id].status # "SPLIT"
  BY <1>1, StoredBounds DEF Deposit, TableTypeOK, Row, Status, Approval
<1>3. \A r \in Receipt \ {id} : receipt'[r] = receipt[r]
  BY <1>1 DEF Deposit, TableTypeOK
<1> HIDE DEF id
<1>4. TableTypeOK'
  <2>1. minted' \in 0..MaxReceipts
    BY <1>1, BoundsAssumption
  <2>2. receipt' \in [Receipt -> Row \cup {NoRow}]
    BY <1>2, <1>3 DEF Deposit, TableTypeOK
  <2>3. \A r \in Receipt : receipt'[r] \in Row <=> r \in Minted'
    BY <1>1, <1>2, <1>3 DEF TableTypeOK
  <2> QED
    BY <2>1, <2>2, <2>3 DEF TableTypeOK
<1>5. TreeShape'
  <2>1. NoReceipt < id
    BY <1>1, BoundsAssumption DEF NoReceipt
  <2>2. \A r \in Minted : receipt'[r] = receipt[r]
    BY <1>1, <1>3
  <2> QED
    BY <1>1, <1>2, <2>1, <2>2 DEF TreeShape
<1>6. \A p \in Minted' : Children(p)' = IF p = id THEN {} ELSE Children(p)
  <2>1. \A r \in Minted : receipt[r].parent # id
    <3> SUFFICES ASSUME NEW r \in Minted
                 PROVE  receipt[r].parent # id
      OBVIOUS
    <3>1. receipt[r] \in Row
      BY <1>1 DEF TableTypeOK
    <3>2. receipt[r].parent \in Int
      BY <3>1, BoundsAssumption DEF Row, Receipt, NoReceipt
    <3>3. receipt[r].parent < r /\ r \in Int /\ r < id /\ id \in Int
      BY BoundsAssumption DEF TreeShape, Minted, TableTypeOK, id
    <3> QED
      BY <3>2, <3>3
  <2>2. \A r \in Minted' : receipt'[r].parent # id
    <3>1. NoReceipt # id
      BY <1>1, BoundsAssumption DEF NoReceipt
    <3>2. \A r \in Minted : receipt'[r] = receipt[r]
      BY <1>1, <1>3
    <3> QED
      BY <1>1, <1>2, <2>1, <3>1, <3>2
  <2>3. \A p \in Minted : p # NoReceipt
    BY DEF Minted, NoReceipt
  <2> QED
    BY <1>1, <1>2, <1>3, <2>2, <2>3 DEF Children
<1>7. SplitConservation'
  <2> SUFFICES ASSUME NEW p \in Minted'
               PROVE  ConservedAt(p)'
    BY DEF SplitConservation
  <2>1. CASE p = id
    BY <1>2, <1>6, <2>1 DEF ConservedAt
  <2>2. CASE p \in Minted
    <3>1. Children(p)' = Children(p) /\ Children(p) \subseteq Minted /\ ConservedAt(p)
      BY <1>1, <1>6, <2>2 DEF Children, SplitConservation
    <3>2. \A r \in Minted : /\ r \in Minted'
                           /\ receipt'[r].quantity = receipt[r].quantity
                           /\ receipt'[r].isParent = receipt[r].isParent
      BY <1>1, <1>3
    <3> QED
      BY <2>2, <3>1, <3>2 DEF ConservedAt
  <2> QED
    BY <1>1, <2>1, <2>2
<1> QED
  BY <1>4, <1>5, <1>7

(* Blocked receipts: a primitive that splits finds its source unsplit.     *)
LEMMA StatusGroups ==
    /\ HeldStatus \subseteq Status \ {"SPLIT"}
    /\ ClosedStatus \subseteq Status
    /\ {"ACTIVE", "PENDING_APPROVAL", "WITHDRAWN", "SEIZED", "EXPIRED",
        "CANCELLED", "HELD_LIEN"} \subseteq Status \ {"SPLIT"}
    /\ HoldStatus \subseteq Status \ {"SPLIT"}
  BY HoldStatusAssumption DEF Status, HeldStatus, ClosedStatus

(* Every primitive preserves the invariant.                                *)
LEMMA StepKeepsInv ==
    ASSUME LedgerInv, NEW k \in Key, LedgerStep(k)
    PROVE  LedgerInv'
<1>1. \A r \in Minted : receipt[r] \in Row /\ r \in Receipt
  BY BoundsAssumption DEF LedgerInv, TableTypeOK, Minted, Receipt
<1>2. \A q \in Request : q \in Nat \ {0}
  BY BoundsAssumption, ScaleAssumption DEF Request, Exactly
<1>3. \A r \in Minted : receipt[r].status # "SPLIT" => ~receipt[r].isParent
  BY DEF LedgerInv, TreeShape
<1>4. CASE RootStep(k)
  <2>1. CASE \E c \in Client, q \in Request : Deposit(k, c, q)
    BY <1>2, <2>1, DepositKeepsInv
  <2>2. ASSUME NEW r \in Minted, ApproveReceipt(k, r)
        PROVE  LedgerInv'
    <3> DEFINE row == [receipt[r] EXCEPT !.status = "ACTIVE", !.approval = "APPROVED"]
    <3>1. SameNode(receipt[r], row)
      BY <1>1, <2>2, StatusGroups DEF ApproveReceipt, SameNode, Row, Approval
    <3> QED
      BY <2>2, <3>1, UpdateKeepsInv DEF ApproveReceipt
  <2>3. ASSUME NEW r \in Minted, RejectReceipt(k, r)
        PROVE  LedgerInv'
    <3> DEFINE row == [receipt[r] EXCEPT !.status = "CANCELLED", !.approval = "REJECTED"]
    <3>1. SameNode(receipt[r], row)
      BY <1>1, <2>3, StatusGroups DEF RejectReceipt, SameNode, Row, Approval
    <3> QED
      BY <2>3, <3>1, UpdateKeepsInv DEF RejectReceipt
  <2> QED
    BY <1>4, <2>1, <2>2, <2>3 DEF RootStep
<1>5. CASE SplitStep(k)
  <2>1. ASSUME NEW r \in Minted, NEW q \in Request, NEW s \in HoldStatus,
               NEW t \in Txn, Hold(k, r, q, s, t)
        PROVE  LedgerInv'
    <3>1. q \in Nat \ {0} /\ q <= Exactly(receipt[r].quantity)
      BY <1>2, <2>1 DEF Hold
    <3>2. receipt[r].status # "SPLIT" /\ receipt[r].owner \in Client
      BY <1>1, <2>1 DEF Hold, Row
    <3>3. s \in Status \ {"SPLIT"} /\ "PENDING" \in Approval /\ t \in Txn \cup {None}
      BY StatusGroups DEF Approval
    <3> QED
      BY <2>1, <3>1, <3>2, <3>3, PartitionKeepsInv DEF Hold
  <2>2. ASSUME NEW r \in Minted, NEW q \in Request, ReleasePartial(k, r, q)
        PROVE  LedgerInv'
    <3> DEFINE n == receipt[r].quantity
               rest == Exactly(n) - q
               freed == [ChildOf(r, k, q) EXCEPT !.status = "ACTIVE",
                                                 !.approval = "APPROVED"]
               kept == [ChildOf(r, k, rest) EXCEPT !.sourceTxn = receipt[r].sourceTxn]
    <3>1. /\ n \in Nat /\ q \in Nat /\ rest \in Nat /\ q <= Exactly(n)
          /\ receipt[r].status = "HELD_LIEN"
      <4>1. Exactly(n) \in Nat /\ n \in Nat
        BY <1>1, WholeIsExact DEF Row
      <4> QED
        BY <1>2, <2>2, <4>1 DEF ReleasePartial
    <3>2. /\ Stored(q) \in Nat /\ Stored(rest) \in Nat
          /\ Stored(q) + Stored(rest) - n \in 0..Drift
      BY <3>1, SplitDrift, StoredBounds
    <3>3. /\ freed \in Row /\ freed.parent = r /\ ~freed.isParent
          /\ freed.status # "SPLIT" /\ freed.quantity = Stored(q)
      BY <1>1, <3>1, <3>2, StatusGroups DEF ChildOf, Row, Approval
    <3>4. /\ kept \in Row /\ kept.parent = r /\ ~kept.isParent
          /\ kept.status # "SPLIT" /\ kept.quantity = Stored(rest)
      BY <1>1, <3>1, <3>2, StatusGroups DEF ChildOf, Row
    <3>5. Split(r, <<freed, kept>>)
      BY <2>2 DEF ReleasePartial
    <3> HIDE DEF freed, kept
    <3>6. Replaces(r, <<freed, kept>>)
      BY <3>2, <3>3, <3>4 DEF Replaces
    <3> QED
      BY <3>1, <3>5, <3>6, SplitKeepsInv
  <2>3. ASSUME NEW r \in Minted, NEW q \in Request, NEW c \in Client,
               SeizePartial(k, r, c, q)
        PROVE  LedgerInv'
    <3>1. Exactly(receipt[r].quantity) \in Nat /\ q \in Nat \ {0}
      BY <1>1, <1>2, WholeIsExact DEF Row
    <3>2. /\ q <= Exactly(receipt[r].quantity)
          /\ receipt[r].status # "SPLIT"
          /\ receipt[r].sourceTxn \in Txn \cup {None}
      BY <1>1, <2>3, <3>1 DEF SeizePartial, Row
    <3>3. "SEIZED" \in Status \ {"SPLIT"} /\ "APPROVED" \in Approval
      BY StatusGroups DEF Approval
    <3> QED
      BY <2>3, <3>1, <3>2, <3>3, PartitionKeepsInv DEF SeizePartial
  <2> QED
    BY <1>5, <2>1, <2>2, <2>3 DEF SplitStep
<1>6. CASE StatusStep(k)
  <2>1. ASSUME NEW r \in Minted, ApproveHold(k, r)
        PROVE  LedgerInv'
    <3> DEFINE row == [receipt[r] EXCEPT !.approval = "APPROVED"]
    <3>1. SameNode(receipt[r], row)
      BY <1>1, <2>1, StatusGroups DEF ApproveHold, SameNode, Row, Approval
    <3> QED
      BY <2>1, <3>1, UpdateKeepsInv DEF ApproveHold
  <2>2. ASSUME NEW r \in Minted, Release(k, r)
        PROVE  LedgerInv'
    <3> DEFINE row == [receipt[r] EXCEPT !.status = "ACTIVE", !.approval = "APPROVED"]
    <3>1. SameNode(receipt[r], row)
      BY <1>1, <2>2, StatusGroups DEF Release, IsHeld, SameNode, Row, Approval
    <3> QED
      BY <2>2, <3>1, UpdateKeepsInv DEF Release
  <2>3. ASSUME NEW r \in Minted, Consume(k, r)
        PROVE  LedgerInv'
    <3> DEFINE row == [receipt[r] EXCEPT !.status = "WITHDRAWN"]
    <3>1. SameNode(receipt[r], row)
      BY <1>1, <2>3, StatusGroups DEF Consume, IsHeld, SameNode, Row
    <3> QED
      BY <2>3, <3>1, UpdateKeepsInv DEF Consume
  <2>4. ASSUME NEW r \in Minted, TransitionPledgeToLien(k, r)
        PROVE  LedgerInv'
    <3> DEFINE row == [receipt[r] EXCEPT !.status = "HELD_LIEN"]
    <3>1. SameNode(receipt[r], row)
      BY <1>1, <2>4, StatusGroups DEF TransitionPledgeToLien, SameNode, Row
    <3> QED
      BY <2>4, <3>1, UpdateKeepsInv DEF TransitionPledgeToLien
  <2>5. ASSUME NEW r \in Minted, Expire(k, r)
        PROVE  LedgerInv'
    <3> DEFINE row == [receipt[r] EXCEPT !.status = "EXPIRED"]
    <3>1. SameNode(receipt[r], row)
      BY <1>1, <2>5, StatusGroups DEF Expire, SameNode, Row
    <3> QED
      BY <2>5, <3>1, UpdateKeepsInv DEF Expire
  <2> QED
    BY <1>6, <2>1, <2>2, <2>3, <2>4, <2>5 DEF StatusStep
<1>7. CASE OwnerStep(k)
  <2>1. ASSUME NEW r \in Minted, NEW c \in Client, SeizeFull(k, r, c)
        PROVE  LedgerInv'
    <3> DEFINE row == [receipt[r] EXCEPT !.status = "SEIZED", !.owner = c]
    <3>1. SameNode(receipt[r], row)
      BY <1>1, <2>1, StatusGroups DEF SeizeFull, SameNode, Row
    <3> QED
      BY <2>1, <3>1, UpdateKeepsInv DEF SeizeFull
  <2>2. ASSUME NEW r \in Minted, NEW c \in Client, TransferOwnership(k, r, c)
        PROVE  LedgerInv'
    <3> DEFINE row == [receipt[r] EXCEPT !.owner = c]
    <3>1. SameNode(receipt[r], row)
      BY <1>1 DEF SameNode, Row
    <3> QED
      BY <2>2, <3>1, UpdateKeepsInv DEF TransferOwnership
  <2>3. ASSUME NEW r \in Minted, NEW c \in Client, TransferAndRelease(k, r, c)
        PROVE  LedgerInv'
    <3> DEFINE row == [receipt[r] EXCEPT !.owner = c, !.status = "ACTIVE",
                                         !.approval = "APPROVED"]
    <3>1. SameNode(receipt[r], row)
      BY <1>1, <2>3, StatusGroups DEF TransferAndRelease, IsHeld, SameNode, Row, Approval
    <3> QED
      BY <2>3, <3>1, UpdateKeepsInv DEF TransferAndRelease
  <2> QED
    BY <1>7, <2>1, <2>2, <2>3 DEF OwnerStep
<1> QED
  BY <1>4, <1>5, <1>6, <1>7 DEF LedgerStep

(* The journal stays well formed.                                          *)
LEMMA StepKeepsJournal ==
    ASSUME LedgerInv, JournalTypeOK, NEW k \in Key, LedgerStep(k)
    PROVE  JournalTypeOK'
<1>1. \A r \in Minted : receipt[r].quantity \in Nat /\ r \in Receipt
  BY BoundsAssumption DEF LedgerInv, TableTypeOK, Minted, Receipt, Row
<1>2. \A q \in Request : Stored(q) \in Nat
  BY BoundsAssumption, ScaleAssumption, StoredBounds DEF Request, Exactly
<1>3. CASE RootStep(k)
  <2>1. ASSUME NEW c \in Client, NEW q \in Request, Deposit(k, c, q)
        PROVE  JournalTypeOK'
    <3>1. minted + 1 \in Receipt
      BY <2>1, BoundsAssumption DEF Deposit, LedgerInv, TableTypeOK, Receipt
    <3> QED
      BY <1>2, <2>1, <3>1, RecordKeepsJournal DEF Deposit, EventType
  <2>2. ASSUME NEW r \in Minted, ApproveReceipt(k, r) \/ RejectReceipt(k, r)
        PROVE  JournalTypeOK'
    BY <1>1, <2>2, RecordKeepsJournal DEF ApproveReceipt, RejectReceipt, EventType
  <2> QED
    BY <1>3, <2>1, <2>2 DEF RootStep
<1>4. CASE SplitStep(k)
  <2>1. PICK r \in Minted, q \in Request, type \in {"HOLD_PLACED", "HOLD_RELEASED", "SEIZED"} :
           \E n \in {Stored(q), receipt[r].quantity} : Record(k, type, r, n)
    BY <1>4 DEF SplitStep, Hold, ReleasePartial, SeizePartial
  <2> QED
    BY <1>1, <1>2, <2>1, RecordKeepsJournal DEF EventType
<1>5. CASE StatusStep(k)
  <2>1. PICK r \in Minted, type \in EventType : Record(k, type, r, receipt[r].quantity)
    BY <1>5 DEF StatusStep, ApproveHold, Release, Consume, TransitionPledgeToLien,
                Expire, EventType
  <2> QED
    BY <1>1, <2>1, RecordKeepsJournal
<1>6. CASE OwnerStep(k)
  <2>1. PICK r \in Minted, type \in EventType : Record(k, type, r, receipt[r].quantity)
    BY <1>6 DEF OwnerStep, SeizeFull, TransferOwnership, TransferAndRelease, EventType
  <2> QED
    BY <1>1, <2>1, RecordKeepsJournal
<1> QED
  BY <1>3, <1>4, <1>5, <1>6 DEF LedgerStep

-----------------------------------------------------------------------------
(* Empty tables satisfy the invariant.                                     *)
LEMMA InitKeepsInv == LedgerInit => LedgerInv /\ JournalTypeOK
<1> SUFFICES ASSUME LedgerInit
             PROVE  LedgerInv /\ JournalTypeOK
  OBVIOUS
<1>1. Minted = {} /\ NoRow \notin Row
  BY DEF LedgerInit, Minted, NoRow, Row, Status, HeldStatus, ClosedStatus
<1>2. TableTypeOK /\ JournalTypeOK
  BY <1>1, BoundsAssumption DEF LedgerInit, TableTypeOK, JournalTypeOK
<1>3. TreeShape /\ SplitConservation
  BY <1>1 DEF TreeShape, SplitConservation
<1> QED
  BY <1>2, <1>3 DEF LedgerInv

(* The ledger's invariant holds in every reachable state.                  *)
THEOREM LedgerInvariance == LedgerSpec => [](LedgerInv /\ JournalTypeOK)
<1>1. LedgerInv /\ JournalTypeOK /\ [LedgerNext]_ledgerVars
        => (LedgerInv /\ JournalTypeOK)'
  <2> SUFFICES ASSUME LedgerInv, JournalTypeOK, [LedgerNext]_ledgerVars
               PROVE  (LedgerInv /\ JournalTypeOK)'
    OBVIOUS
  <2>1. CASE LedgerNext
    BY <2>1, StepKeepsInv, StepKeepsJournal DEF LedgerNext
  <2>2. CASE UNCHANGED ledgerVars
    BY <2>2 DEF ledgerVars, LedgerInv, JournalTypeOK, TableTypeOK, TreeShape,
                SplitConservation, ConservedAt, Children, Minted
  <2> QED
    BY <2>1, <2>2
<1> QED
  BY <1>1, InitKeepsInv, PTL DEF LedgerSpec

(* Type correctness of the receipts and inventory_events tables.           *)
THEOREM LedgerTypeCorrect == LedgerSpec => []LedgerTypeOK
<1>1. LedgerInv /\ JournalTypeOK => LedgerTypeOK
  BY DEF LedgerInv, LedgerTypeOK
<1> QED
  BY <1>1, LedgerInvariance, PTL

(* Mass is conserved by every split, for any number of receipts, keys and  *)
(* clients and any caller precision: what verifyAll audits after the fact. *)
THEOREM MassConservation == LedgerSpec => []SplitConservation
<1>1. LedgerInv /\ JournalTypeOK => SplitConservation
  BY DEF LedgerInv
<1> QED
  BY <1>1, LedgerInvariance, PTL
-----------------------------------------------------------------------------
(* The life of a receipt.                                                  *)

(* What every receipt row satisfies whatever its neighbours: an available  *)
(* one passes the approval guard of hold, a held one names its transaction.*)
Settled(row) ==
    /\ row.status = "ACTIVE" => row.approval = "APPROVED"
    /\ row.status \in HeldStatus => row.sourceTxn # None

RowsSettled == \A r \in Minted : Settled(receipt[r])

(* The events after which a receipt stands for nothing, beside a split.    *)
ClosingType == {"CONSUMED", "SEIZED", "EXPIRED", "REJECTED"}

-----------------------------------------------------------------------------
(* The three shapes of a step.                                             *)

(* The journal gains one event, about receipt r.                           *)
Journals(k, r) ==
    /\ event[k] = NoEvent
    /\ event'[k].from = r
    /\ \A j \in Key \ {k} : event'[j] = event[j]

Untouched(rs) == \A r \in rs : receipt'[r] = receipt[r]

(* A deposit adds a root that awaits approval.                             *)
TakenIn(k) ==
    /\ minted' = minted + 1
    /\ Untouched(Minted)
    /\ Journals(k, minted + 1)
    /\ event'[k].type = "DEPOSIT"
    /\ LET root == receipt'[minted + 1]
       IN  /\ Settled(root)
           /\ root.status = "PENDING_APPROVAL"
           /\ root.parent = NoReceipt
           /\ root.root = minted + 1
           /\ root.quantity = event'[k].quantity
           /\ Scale = 1 => root.quantity \in 1..MaxQuantity

(* What an event about a receipt does to its status.                       *)
Transition(type, old, new) ==
    \/ type = "APPROVED" /\ old = "PENDING_APPROVAL" /\ new = "ACTIVE"
    \/ type = "REJECTED" /\ old = "PENDING_APPROVAL" /\ new = "CANCELLED"
    \/ type = "APPROVED" /\ old \in HeldStatus /\ new = old
    \/ type = "PLEDGE_ACCEPTED" /\ old \in HeldStatus /\ new \in HeldStatus
    \/ type = "HOLD_RELEASED" /\ old \in HeldStatus /\ new = "ACTIVE"
    \/ type = "TRANSFERRED_AND_RELEASED" /\ old \in HeldStatus /\ new = "ACTIVE"
    \/ type = "CONSUMED" /\ old \in HeldStatus /\ new = "WITHDRAWN"
    \/ type = "SEIZED" /\ old \in HeldStatus /\ new = "SEIZED"
    \/ type = "EXPIRED" /\ old = "ACTIVE" /\ new = "EXPIRED"
    \/ type = "OWNERSHIP_TRANSFERRED" /\ new = old

(* What an event splits a receipt into: a part and the rest.               *)
Carving(type, old, part, rest) ==
    \/ type = "HOLD_PLACED" /\ old = "ACTIVE" /\ part \in HeldStatus /\ rest = "ACTIVE"
    \/ type = "HOLD_RELEASED" /\ old \in HeldStatus /\ part = "ACTIVE" /\ rest = old
    \/ type = "SEIZED" /\ old \in HeldStatus /\ part = "SEIZED" /\ rest = "ACTIVE"

SameLineage(old, new) ==
    /\ new.quantity = old.quantity
    /\ new.parent = old.parent
    /\ new.root = old.root
    /\ new.sourceEvent = old.sourceEvent
    /\ new.sourceTxn = old.sourceTxn

Aged(k, r) ==
    /\ UNCHANGED minted
    /\ Untouched(Minted \ {r})
    /\ Settled(receipt'[r])
    /\ SameLineage(receipt[r], receipt'[r])
    /\ Journals(k, r)
    /\ Transition(event'[k].type, receipt[r].status, receipt'[r].status)

(* A child of r, split off under key k.                                    *)
BornOf(k, r, row) ==
    /\ Settled(row)
    /\ row.parent = r
    /\ row.root = receipt[r].root
    /\ row.sourceEvent = k
    /\ Scale = 1 => row.quantity > 0

Superseded(k, r) ==
    /\ minted < minted' /\ minted' \in Nat
    /\ Untouched(Minted \ {r})
    /\ SameLineage(receipt[r], receipt'[r])
    /\ receipt'[r].status = "SPLIT"
    /\ \A c \in Minted' \ Minted : BornOf(k, r, receipt'[c])
    /\ Journals(k, r)
    /\ \E part, rest \in Status, a \in Minted' \ Minted :
          /\ Carving(event'[k].type, receipt[r].status, part, rest)
          /\ receipt'[a].status = part
          /\ \A b \in Minted' \ (Minted \cup {a}) : receipt'[b].status = rest

(* Every status has one role.                                              *)
LEMMA StatusRoles ==
    /\ HeldStatus \cap ClosedStatus = {}
    /\ "ACTIVE" \notin HeldStatus \cup ClosedStatus
    /\ "PENDING_APPROVAL" \notin HeldStatus \cup ClosedStatus
    /\ {"WITHDRAWN", "SEIZED", "EXPIRED", "CANCELLED", "SPLIT"} \subseteq ClosedStatus
    /\ {"HELD_LOAN", "HELD_LIEN", "HELD_PLEDGE_PENDING"} \subseteq HeldStatus
    /\ HoldStatus \subseteq HeldStatus
  BY HoldStatusAssumption DEF HeldStatus, ClosedStatus

(* What the events may do: a closed receipt keeps its status, a held one   *)
(* was held before, and only an open one is closed.                        *)
LEMMA TransitionRoles ==
    ASSUME NEW type, NEW old, NEW new, Transition(type, old, new)
    PROVE  /\ old \in ClosedStatus => new = old
           /\ new \in HeldStatus => old \in HeldStatus
           /\ type \in ClosingType => old \notin ClosedStatus /\ new \in ClosedStatus
           /\ type # "DEPOSIT"
  BY StatusRoles DEF Transition, ClosingType

(* Only an open receipt is split.                                          *)
LEMMA CarvingRoles ==
    ASSUME NEW type, NEW old, NEW part, NEW rest, Carving(type, old, part, rest)
    PROVE  /\ old \notin ClosedStatus \cup {"PENDING_APPROVAL"}
           /\ part \in {"ACTIVE", "SEIZED"} \cup HeldStatus
           /\ rest \in {"ACTIVE"} \cup HeldStatus
           /\ type \in {"HOLD_PLACED", "HOLD_RELEASED", "SEIZED"}
  BY StatusRoles DEF Carving

(* The journal insert.                                                     *)
LEMMA RecordJournals ==
    ASSUME JournalTypeOK, NEW k \in Key, NEW type, NEW r, NEW q, Record(k, type, r, q)
    PROVE  Journals(k, r) /\ event'[k].type = type /\ event'[k].quantity = q
  BY DEF JournalTypeOK, Record, Journals

(* A status-only transition ages its receipt.                              *)
LEMMA UpdateAges ==
    ASSUME TableTypeOK, NEW k \in Key, NEW r \in Minted, NEW row,
           Update(r, row), Journals(k, r),
           Settled(row), SameLineage(receipt[r], row),
           Transition(event'[k].type, receipt[r].status, row.status)
    PROVE  Aged(k, r)
<1>1. Minted \subseteq Receipt /\ r \in Receipt
  BY BoundsAssumption DEF TableTypeOK, Minted, Receipt
<1>2. receipt'[r] = row /\ Untouched(Minted \ {r}) /\ minted' = minted
  BY <1>1 DEF Update, Untouched, TableTypeOK
<1> QED
  BY <1>2 DEF Aged

(* Without fractions a request is stored as it is.                         *)
LEMMA StoredExactly ==
    ASSUME Scale = 1, NEW x \in Nat
    PROVE  Stored(x) = x /\ Exactly(x) = x
<1>1. Exactly(x) = x
  BY DEF Exactly
<1> QED
  BY <1>1, WholeIsExact

(* A split supersedes its source.                                          *)
LEMMA SplitSupersedes ==
    ASSUME TableTypeOK, NEW k \in Key, NEW r \in Minted, NEW kids, Split(r, kids),
           Len(kids) \in {1, 2}, Journals(k, r),
           NEW part \in Status, NEW rest \in Status,
           Carving(event'[k].type, receipt[r].status, part, rest),
           \A i \in 1..Len(kids) : /\ BornOf(k, r, kids[i])
                                   /\ kids[i].status = IF i = 1 THEN part ELSE rest
    PROVE  Superseded(k, r)
<1> DEFINE n == Len(kids)
           born == minted + 1 .. minted + n
<1>1. /\ minted \in Nat /\ minted' = minted + n /\ minted + n <= MaxReceipts
      /\ n \in {1, 2} /\ MaxReceipts \in Nat
  BY BoundsAssumption DEF Split, TableTypeOK
<1>2. /\ Minted \subseteq Receipt /\ born \subseteq Receipt
      /\ Minted' \ Minted = born /\ Minted \cap born = {} /\ r \in Receipt
  BY <1>1 DEF Minted, Receipt
<1>3. receipt[r] \in Row
  BY <1>2 DEF TableTypeOK
<1>4. receipt'[r] = [receipt[r] EXCEPT !.status = "SPLIT", !.isParent = TRUE]
  BY <1>2 DEF Split
<1>5. SameLineage(receipt[r], receipt'[r]) /\ receipt'[r].status = "SPLIT"
  BY <1>3, <1>4 DEF SameLineage, Row
<1>6. Untouched(Minted \ {r})
  BY <1>2 DEF Split, Untouched
<1>7. \A c \in born : receipt'[c] = kids[c - minted] /\ c - minted \in 1..n
  BY <1>1, <1>2 DEF Split
<1>8. minted < minted' /\ minted' \in Nat
  <2> HIDE DEF n
  <2>1. n \in Nat /\ 0 < n
    BY <1>1
  <2> QED
    BY <1>1, <2>1
<1>9. \A c \in born : /\ BornOf(k, r, receipt'[c])
                     /\ receipt'[c].status = IF c - minted = 1 THEN part ELSE rest
  BY <1>7
<1>10. /\ minted + 1 \in born /\ receipt'[minted + 1].status = part
       /\ \A b \in born \ {minted + 1} : receipt'[b].status = rest
  <2>1. minted + 1 \in born /\ (minted + 1) - minted = 1
    <3> HIDE DEF n
    <3>1. n \in Nat /\ 1 <= n
      BY <1>1
    <3> QED
      BY <1>1, <3>1
  <2>2. \A b \in born : b - minted = 1 => b = minted + 1
    BY <1>1
  <2> HIDE DEF born
  <2> QED
    BY <1>9, <2>1, <2>2
<1>11. Minted' \ (Minted \cup {minted + 1}) = born \ {minted + 1}
  BY <1>2
<1> HIDE DEF born
<1>12. \E a \in Minted' \ Minted :
          /\ receipt'[a].status = part
          /\ \A b \in Minted' \ (Minted \cup {a}) : receipt'[b].status = rest
  BY <1>2, <1>10, <1>11
<1> QED
  BY <1>2, <1>5, <1>6, <1>8, <1>9, <1>12 DEF Superseded

(* The children partition() inserts: the part carries the status, approval *)
(* and transaction it is called with, the remainder is available.          *)
LEMMA PartitionSupersedes ==
    ASSUME TableTypeOK, NEW k \in Key, NEW r \in Minted, NEW q,
           q \in Nat \ {0},
           NEW status \in Status, NEW approval, NEW owner, NEW txn,
           Partition(r, k, q, status, approval, owner, txn), Journals(k, r),
           Carving(event'[k].type, receipt[r].status, status, "ACTIVE"),
           status = "ACTIVE" => approval = "APPROVED",
           status \in HeldStatus => txn # None
    PROVE  Superseded(k, r)
<1> DEFINE rest == Exactly(receipt[r].quantity) - q
           primary == [ChildOf(r, k, q) EXCEPT !.status = status,
                          !.approval = approval, !.owner = owner, !.sourceTxn = txn]
           remainder == [ChildOf(r, k, rest) EXCEPT !.status = "ACTIVE",
                            !.approval = "APPROVED"]
           kids == IF rest > 0 THEN <<primary, remainder>> ELSE <<primary>>
<1>1. receipt[r] \in Row
  BY BoundsAssumption DEF TableTypeOK, Minted, Receipt
<1>2. BornOf(k, r, primary) /\ primary.status = status
  BY <1>1, StoredExactly DEF ChildOf, BornOf, Settled, Row
<1>3. rest > 0 => BornOf(k, r, remainder) /\ remainder.status = "ACTIVE"
  <2>1. rest \in Int
    BY <1>1, ScaleAssumption DEF Exactly, Row
  <2> QED
    BY <1>1, <2>1, StatusRoles, StoredExactly DEF ChildOf, BornOf, Settled, Row
<1>4. Split(r, kids)
  BY DEF Partition
<1> HIDE DEF primary, remainder
<1>5. /\ Len(kids) \in {1, 2}
      /\ \A i \in 1..Len(kids) : \/ i = 1 /\ kids[i] = primary
                                 \/ i # 1 /\ kids[i] = remainder /\ rest > 0
  OBVIOUS
<1>6. "ACTIVE" \in Status
  BY DEF Status
<1> HIDE DEF kids
<1> QED
  BY <1>1, <1>2, <1>3, <1>4, <1>5, <1>6, SplitSupersedes

-----------------------------------------------------------------------------
(* Every step of the ledger has one of the three shapes.                   *)
LEMMA StepShapes ==
    ASSUME LedgerInv, JournalTypeOK, RowsSettled, NEW k \in Key, LedgerStep(k)
    PROVE  TakenIn(k) \/ \E r \in Minted : Aged(k, r) \/ Superseded(k, r)
<1>1. TableTypeOK /\ \A r \in Minted : receipt[r] \in Row /\ Settled(receipt[r])
  BY BoundsAssumption DEF LedgerInv, TableTypeOK, Minted, Receipt, RowsSettled
<1>2. \A q \in Request : q \in Nat \ {0}
  BY BoundsAssumption, ScaleAssumption DEF Request, Exactly
<1>3. CASE RootStep(k)
  <2>1. ASSUME NEW c \in Client, NEW q \in Request, Deposit(k, c, q)
        PROVE  TakenIn(k)
    <3>1. Journals(k, minted + 1) /\ event'[k].type = "DEPOSIT"
      BY <2>1, RecordJournals DEF Deposit
    <3>2. minted + 1 \in Receipt /\ Minted \subseteq Receipt /\ minted + 1 \notin Minted
      BY <1>1, <2>1, BoundsAssumption DEF Deposit, TableTypeOK, Receipt, Minted
    <3>3. Untouched(Minted)
      BY <1>1, <2>1, <3>2 DEF Deposit, TableTypeOK, Untouched
    <3>4. receipt'[minted + 1] =
             [status |-> "PENDING_APPROVAL", approval |-> "PENDING",
              quantity |-> Stored(q), owner |-> c, parent |-> NoReceipt,
              root |-> minted + 1, isParent |-> FALSE, sourceTxn |-> None,
              sourceEvent |-> k]
      BY <1>1, <2>1, <3>2 DEF Deposit, TableTypeOK
    <3>5. Settled(receipt'[minted + 1])
      BY <3>4, StatusRoles DEF Settled
    <3>6. Scale = 1 => Stored(q) \in 1..MaxQuantity
      BY BoundsAssumption, StoredExactly DEF Request
    <3>7. event'[k].quantity = Stored(q)
      BY <2>1, RecordJournals DEF Deposit
    <3> QED
      BY <2>1, <3>1, <3>3, <3>4, <3>5, <3>6, <3>7 DEF Deposit, TakenIn
  <2>2. ASSUME NEW r \in Minted, ApproveReceipt(k, r)
        PROVE  Aged(k, r)
    <3> DEFINE row == [receipt[r] EXCEPT !.status = "ACTIVE", !.approval = "APPROVED"]
    <3>1. Settled(row) /\ SameLineage(receipt[r], row) /\ row.status = "ACTIVE"
      BY <1>1, StatusRoles DEF Settled, SameLineage, Row
    <3>2. Journals(k, r) /\ event'[k].type = "APPROVED"
      BY <2>2, RecordJournals DEF ApproveReceipt
    <3> QED
      BY <1>1, <2>2, <3>1, <3>2, UpdateAges, StatusRoles DEF ApproveReceipt, Transition
  <2>3. ASSUME NEW r \in Minted, RejectReceipt(k, r)
        PROVE  Aged(k, r)
    <3> DEFINE row == [receipt[r] EXCEPT !.status = "CANCELLED", !.approval = "REJECTED"]
    <3>1. Settled(row) /\ SameLineage(receipt[r], row) /\ row.status = "CANCELLED"
      BY <1>1, StatusRoles DEF Settled, SameLineage, Row
    <3>2. Journals(k, r) /\ event'[k].type = "REJECTED"
      BY <2>3, RecordJournals DEF RejectReceipt
    <3> QED
      BY <1>1, <2>3, <3>1, <3>2, UpdateAges, StatusRoles DEF RejectReceipt, Transition
  <2> QED
    BY <1>3, <2>1, <2>2, <2>3 DEF RootStep
<1>4. CASE SplitStep(k)
  <2>1. ASSUME NEW r \in Minted, NEW q \in Request, NEW s \in HoldStatus,
               NEW t \in Txn, Hold(k, r, q, s, t)
        PROVE  Superseded(k, r)
    <3>1. Journals(k, r) /\ event'[k].type = "HOLD_PLACED"
      BY <2>1, RecordJournals DEF Hold
    <3>2. Carving(event'[k].type, receipt[r].status, s, "ACTIVE")
      BY <2>1, <3>1, StatusRoles DEF Hold, Carving
    <3>3. s \in Status /\ s # "ACTIVE" /\ t # None /\ q \in Nat \ {0}
      BY <1>2, StatusRoles, NoneAssumption DEF Status
    <3> QED
      BY <1>1, <2>1, <3>1, <3>2, <3>3, PartitionSupersedes DEF Hold
  <2>2. ASSUME NEW r \in Minted, NEW q \in Request, ReleasePartial(k, r, q)
        PROVE  Superseded(k, r)
    <3> DEFINE rest == Exactly(receipt[r].quantity) - q
               freed == [ChildOf(r, k, q) EXCEPT !.status = "ACTIVE",
                                                 !.approval = "APPROVED"]
               kept == [ChildOf(r, k, rest) EXCEPT !.sourceTxn = receipt[r].sourceTxn]
    <3>1. Journals(k, r) /\ event'[k].type = "HOLD_RELEASED"
      BY <2>2, RecordJournals DEF ReleasePartial
    <3>2. BornOf(k, r, freed) /\ freed.status = "ACTIVE"
      BY <1>1, <1>2, StatusRoles, StoredExactly DEF ChildOf, BornOf, Settled, Row
    <3>3. rest \in Nat /\ rest > 0
      <4>1. rest \in Int
        BY <1>1, <1>2, ScaleAssumption DEF Exactly, Row
      <4> QED
        BY <2>2, <4>1 DEF ReleasePartial
    <3>4. BornOf(k, r, kept) /\ kept.status = receipt[r].status
      BY <1>1, <3>3, StoredExactly DEF ChildOf, BornOf, Settled, Row
    <3>5. Split(r, <<freed, kept>>) /\ receipt[r].status = "HELD_LIEN"
      BY <2>2 DEF ReleasePartial
    <3>6. /\ Carving(event'[k].type, receipt[r].status, "ACTIVE", receipt[r].status)
          /\ "ACTIVE" \in Status /\ receipt[r].status \in Status
      BY <3>1, <3>5, StatusRoles DEF Carving, Status
    <3> HIDE DEF freed, kept
    <3>7. /\ Len(<<freed, kept>>) \in {1, 2}
          /\ \A i \in 1..Len(<<freed, kept>>) :
                \/ i = 1 /\ <<freed, kept>>[i] = freed
                \/ i # 1 /\ <<freed, kept>>[i] = kept
      OBVIOUS
    <3> QED
      BY <1>1, <3>1, <3>2, <3>4, <3>5, <3>6, <3>7, SplitSupersedes
  <2>3. ASSUME NEW r \in Minted, NEW q \in Request, NEW c \in Client,
               SeizePartial(k, r, c, q)
        PROVE  Superseded(k, r)
    <3>1. Journals(k, r) /\ event'[k].type = "SEIZED"
      BY <2>3, RecordJournals DEF SeizePartial
    <3>2. Carving(event'[k].type, receipt[r].status, "SEIZED", "ACTIVE")
      BY <2>3, <3>1, StatusRoles DEF SeizePartial, Carving
    <3>3. "SEIZED" \in Status /\ "SEIZED" \notin HeldStatus /\ q \in Nat \ {0}
      BY <1>2, StatusRoles DEF Status
    <3> QED
      BY <1>1, <2>3, <3>1, <3>2, <3>3, PartitionSupersedes DEF SeizePartial
  <2> QED
    BY <1>4, <2>1, <2>2, <2>3 DEF SplitStep
<1>5. CASE StatusStep(k)
  <2>1. ASSUME NEW r \in Minted, ApproveHold(k, r)
        PROVE  Aged(k, r)
    <3> DEFINE row == [receipt[r] EXCEPT !.approval = "APPROVED"]
    <3>1. Settled(row) /\ SameLineage(receipt[r], row) /\ row.status = receipt[r].status
      BY <1>1, <2>1, StatusRoles DEF ApproveHold, IsHeld, Settled, SameLineage, Row
    <3>2. Journals(k, r) /\ event'[k].type = "APPROVED"
      BY <2>1, RecordJournals DEF ApproveHold
    <3> QED
      BY <1>1, <2>1, <3>1, <3>2, UpdateAges, StatusRoles DEF ApproveHold, IsHeld, Transition
  <2>2. ASSUME NEW r \in Minted, Release(k, r)
        PROVE  Aged(k, r)
    <3> DEFINE row == [receipt[r] EXCEPT !.status = "ACTIVE", !.approval = "APPROVED"]
    <3>1. Settled(row) /\ SameLineage(receipt[r], row) /\ row.status = "ACTIVE"
      BY <1>1, <2>2, StatusRoles DEF Release, IsHeld, Settled, SameLineage, Row
    <3>2. Journals(k, r) /\ event'[k].type = "HOLD_RELEASED"
      BY <2>2, RecordJournals DEF Release
    <3> QED
      BY <1>1, <2>2, <3>1, <3>2, UpdateAges, StatusRoles DEF Release, IsHeld, Transition
  <2>3. ASSUME NEW r \in Minted, Consume(k, r)
        PROVE  Aged(k, r)
    <3> DEFINE row == [receipt[r] EXCEPT !.status = "WITHDRAWN"]
    <3>1. Settled(row) /\ SameLineage(receipt[r], row) /\ row.status = "WITHDRAWN"
      BY <1>1, <2>3, StatusRoles DEF Consume, IsHeld, Settled, SameLineage, Row
    <3>2. Journals(k, r) /\ event'[k].type = "CONSUMED"
      BY <2>3, RecordJournals DEF Consume
    <3> QED
      BY <1>1, <2>3, <3>1, <3>2, UpdateAges, StatusRoles DEF Consume, IsHeld, Transition
  <2>4. ASSUME NEW r \in Minted, TransitionPledgeToLien(k, r)
        PROVE  Aged(k, r)
    <3> DEFINE row == [receipt[r] EXCEPT !.status = "HELD_LIEN"]
    <3>1. Settled(row) /\ SameLineage(receipt[r], row) /\ row.status = "HELD_LIEN"
      BY <1>1, <2>4, StatusRoles DEF TransitionPledgeToLien, Settled, SameLineage, Row
    <3>2. Journals(k, r) /\ event'[k].type = "PLEDGE_ACCEPTED"
      BY <2>4, RecordJournals DEF TransitionPledgeToLien
    <3> QED
      BY <1>1, <2>4, <3>1, <3>2, UpdateAges, StatusRoles DEF TransitionPledgeToLien, Transition
  <2>5. ASSUME NEW r \in Minted, Expire(k, r)
        PROVE  Aged(k, r)
    <3> DEFINE row == [receipt[r] EXCEPT !.status = "EXPIRED"]
    <3>1. Settled(row) /\ SameLineage(receipt[r], row) /\ row.status = "EXPIRED"
      BY <1>1, <2>5, StatusRoles DEF Expire, Settled, SameLineage, Row
    <3>2. Journals(k, r) /\ event'[k].type = "EXPIRED"
      BY <2>5, RecordJournals DEF Expire
    <3> QED
      BY <1>1, <2>5, <3>1, <3>2, UpdateAges, StatusRoles DEF Expire, Transition
  <2> QED
    BY <1>5, <2>1, <2>2, <2>3, <2>4, <2>5 DEF StatusStep
<1>6. CASE OwnerStep(k)
  <2>1. ASSUME NEW r \in Minted, NEW c \in Client, SeizeFull(k, r, c)
        PROVE  Aged(k, r)
    <3> DEFINE row == [receipt[r] EXCEPT !.status = "SEIZED", !.owner = c]
    <3>1. Settled(row) /\ SameLineage(receipt[r], row) /\ row.status = "SEIZED"
      BY <1>1, <2>1, StatusRoles DEF SeizeFull, Settled, SameLineage, Row
    <3>2. Journals(k, r) /\ event'[k].type = "SEIZED"
      BY <2>1, RecordJournals DEF SeizeFull
    <3> QED
      BY <1>1, <2>1, <3>1, <3>2, UpdateAges, StatusRoles DEF SeizeFull, Transition
  <2>2. ASSUME NEW r \in Minted, NEW c \in Client, TransferOwnership(k, r, c)
        PROVE  Aged(k, r)
    <3> DEFINE row == [receipt[r] EXCEPT !.owner = c]
    <3>1. Settled(row) /\ SameLineage(receipt[r], row) /\ row.status = receipt[r].status
      BY <1>1, <2>2, StatusRoles DEF TransferOwnership, Settled, SameLineage, Row
    <3>2. Journals(k, r) /\ event'[k].type = "OWNERSHIP_TRANSFERRED"
      BY <2>2, RecordJournals DEF TransferOwnership
    <3> QED
      BY <1>1, <2>2, <3>1, <3>2, UpdateAges, StatusRoles DEF TransferOwnership, Transition
  <2>3. ASSUME NEW r \in Minted, NEW c \in Client, TransferAndRelease(k, r, c)
        PROVE  Aged(k, r)
    <3> DEFINE row == [receipt[r] EXCEPT !.owner = c, !.status = "ACTIVE",
                                         !.approval = "APPROVED"]
    <3>1. Settled(row) /\ SameLineage(receipt[r], row) /\ row.status = "ACTIVE"
      BY <1>1, <2>3, StatusRoles DEF TransferAndRelease, IsHeld, Settled, SameLineage, Row
    <3>2. Journals(k, r) /\ event'[k].type = "TRANSFERRED_AND_RELEASED"
      BY <2>3, RecordJournals DEF TransferAndRelease
    <3> QED
      BY <1>1, <2>3, <3>1, <3>2, UpdateAges, StatusRoles DEF TransferAndRelease, IsHeld, Transition
  <2> QED
    BY <1>6, <2>1, <2>2, <2>3 DEF OwnerStep
<1> QED
  BY <1>3, <1>4, <1>5, <1>6 DEF LedgerStep

-----------------------------------------------------------------------------
(* Row by row: settled rows stay settled and receipts only age.            *)

(* No step makes an available receipt unusable or a hold anonymous.        *)
LEMMA StepKeepsSettled ==
    ASSUME LedgerInv, JournalTypeOK, RowsSettled, NEW k \in Key, LedgerStep(k)
    PROVE  RowsSettled'
<1>1. minted \in Nat
  BY BoundsAssumption DEF LedgerInv, TableTypeOK
<1>2. CASE TakenIn(k)
  <2>1. Minted' = Minted \cup {minted + 1}
    BY <1>1, <1>2 DEF TakenIn, Minted
  <2> QED
    BY <1>2, <2>1 DEF TakenIn, Untouched, RowsSettled, Settled
<1>3. ASSUME NEW r \in Minted, Aged(k, r)
      PROVE  RowsSettled'
  BY <1>3 DEF Aged, Untouched, RowsSettled, Settled, Minted
<1>4. ASSUME NEW r \in Minted, Superseded(k, r)
      PROVE  RowsSettled'
  <2>1. Settled(receipt'[r])
    BY <1>4, StatusRoles DEF Superseded, Settled
  <2> QED
    BY <1>4, <2>1 DEF Superseded, BornOf, Untouched, RowsSettled, Settled
<1> QED
  BY <1>2, <1>3, <1>4, StepShapes

(* No step rewrites the quantity or lineage of a receipt, reopens a closed *)
(* one or holds an available one in place.                                 *)
LEMMA StepAgesReceipts ==
    ASSUME LedgerInv, JournalTypeOK, RowsSettled, NEW k \in Key, LedgerStep(k)
    PROVE  ReceiptsOnlyAge
<1>1. CASE TakenIn(k)
  BY <1>1 DEF TakenIn, Untouched, ReceiptsOnlyAge
<1>2. ASSUME NEW r \in Minted, Aged(k, r)
      PROVE  ReceiptsOnlyAge
  BY <1>2, TransitionRoles DEF Aged, Untouched, SameLineage, ReceiptsOnlyAge
<1>3. ASSUME NEW r \in Minted, Superseded(k, r)
      PROVE  ReceiptsOnlyAge
  BY <1>3, StatusRoles, CarvingRoles DEF Superseded, Untouched, SameLineage, ReceiptsOnlyAge
<1> QED
  BY <1>1, <1>2, <1>3, StepShapes

RowInv == LedgerInv /\ JournalTypeOK /\ RowsSettled

(* In every reachable state an ACTIVE receipt is approved and a held one   *)
(* names its transaction (the status columns partition and release write). *)
THEOREM RowInvariance == LedgerSpec => []RowInv
<1>1. LedgerInit => RowInv
  <2>1. LedgerInit => RowsSettled
    BY DEF LedgerInit, RowsSettled, Minted
  <2> QED
    BY <2>1, InitKeepsInv DEF RowInv
<1>2. RowInv /\ [LedgerNext]_ledgerVars => RowInv'
  <2> SUFFICES ASSUME RowInv, [LedgerNext]_ledgerVars
               PROVE  RowInv'
    OBVIOUS
  <2>1. CASE LedgerNext
    BY <2>1, StepKeepsInv, StepKeepsJournal, StepKeepsSettled DEF LedgerNext, RowInv
  <2>2. CASE UNCHANGED ledgerVars
    BY <2>2 DEF ledgerVars, RowInv, LedgerInv, JournalTypeOK, TableTypeOK, TreeShape,
                SplitConservation, ConservedAt, Children, Minted, RowsSettled
  <2> QED
    BY <2>1, <2>2
<1> QED
  BY <1>1, <1>2, PTL DEF LedgerSpec

(* Stock is never stranded: what counts as available passes the guards of  *)
(* hold, whatever holds and releases it went through (hold, release).      *)
THEOREM AvailableStockIsTransactable == LedgerSpec => []AvailableIsTransactable
<1>1. RowInv => AvailableIsTransactable
  BY DEF RowInv, RowsSettled, Settled, LedgerInv, TreeShape, AvailableIsTransactable
<1> QED
  BY <1>1, RowInvariance, PTL

(* Every hold says for which transaction it is, the remainder of a partial *)
(* lien release included (partition, releasePartial).                      *)
THEOREM EveryHoldIsAttributed == LedgerSpec => []HoldsAreAttributed
<1>1. RowInv => HoldsAreAttributed
  BY DEF RowInv, RowsSettled, Settled, HoldsAreAttributed, IsHeld
<1> QED
  BY <1>1, RowInvariance, PTL

(* No sequence of ledger calls rewrites what a receipt stood for, reopens  *)
(* one that is over, or holds one without a split (the whole service).     *)
THEOREM ReceiptHistoryIsFinal == LedgerSpec => HistoryIsFinal
<1>1. RowInv /\ [LedgerNext]_ledgerVars => [ReceiptsOnlyAge]_ledgerVars
  BY StepAgesReceipts DEF RowInv, LedgerNext
<1> QED
  BY <1>1, RowInvariance, PTL DEF LedgerSpec, HistoryIsFinal

-----------------------------------------------------------------------------
(* No double spend.                                                        *)

(* NoDoubleSpend alone is not inductive: a receipt that is still open must *)
(* be known to be unspent, or the next consumption could be its second;    *)
(* and no event may speak of a receipt that does not exist yet.            *)
OpenIsUnspent ==
    \A r \in Minted : receipt[r].status \notin ClosedStatus => SpendingEvents(r) = {}

EventsOfMinted == \A k \in Key : event[k] # NoEvent => event[k].from \in Minted

SpendInv == RowInv /\ EventsOfMinted /\ OpenIsUnspent /\ NoDoubleSpend

(* A step spends at most the receipt it is about.                          *)
LEMMA OthersUnspent ==
    ASSUME RowInv, NEW k \in Key, NEW r \in Receipt, Journals(k, r),
           NEW s \in Minted \ {r}, Children(s)' = Children(s),
           \A c \in Children(s) : receipt'[c].sourceEvent = receipt[c].sourceEvent
    PROVE  SpendingEvents(s)' = SpendingEvents(s)
<1>1. EventsOf(s, ClosingType)' = EventsOf(s, ClosingType)
  <2>1. NoEvent.type \notin ClosingType
    BY DEF NoEvent, ClosingType
  <2> QED
    BY <2>1 DEF Journals, EventsOf
<1>2. SplittingEvents(s)' = SplittingEvents(s)
  BY DEF SplittingEvents
<1> QED
  BY <1>1, <1>2 DEF SpendingEvents, ClosingType

(* A step in place keeps the parents of all receipts.                      *)
LEMMA AgedKeepsChildren ==
    ASSUME NEW k \in Key, NEW r \in Minted, Aged(k, r), NEW s
    PROVE  /\ Minted' = Minted /\ Children(s)' = Children(s)
           /\ \A c \in Minted : receipt'[c].sourceEvent = receipt[c].sourceEvent
<1>1. Minted' = Minted
  BY DEF Aged, Minted
<1>2. \A c \in Minted : /\ receipt'[c].parent = receipt[c].parent
                        /\ receipt'[c].sourceEvent = receipt[c].sourceEvent
  BY DEF Aged, Untouched, SameLineage
<1> QED
  BY <1>1, <1>2 DEF Children

(* Ageing: a closing event finds the receipt open, hence unspent.          *)
LEMMA AgedKeepsSpendInv ==
    ASSUME SpendInv, NEW k \in Key, NEW r \in Minted, Aged(k, r)
    PROVE  (EventsOfMinted /\ OpenIsUnspent /\ NoDoubleSpend)'
<1>1. r \in Receipt /\ Minted \subseteq Receipt
  BY BoundsAssumption DEF SpendInv, RowInv, LedgerInv, TableTypeOK, Minted, Receipt
<1>2. Minted' = Minted /\ \A s : Children(s)' = Children(s)
  BY AgedKeepsChildren
<1>3. \A c \in Minted : receipt'[c].sourceEvent = receipt[c].sourceEvent
  BY AgedKeepsChildren
<1>4. \A s \in Minted \ {r} : /\ SpendingEvents(s)' = SpendingEvents(s)
                              /\ receipt'[s] = receipt[s]
  BY <1>1, <1>2, <1>3, OthersUnspent DEF Aged, Untouched, Children, SpendInv
<1>5. SplittingEvents(r)' = SplittingEvents(r)
  BY <1>2, <1>3 DEF SplittingEvents, Children
<1>6. SpendingEvents(r)' = IF event'[k].type \in ClosingType
                           THEN SpendingEvents(r) \cup {k}
                           ELSE SpendingEvents(r)
  <2>1. EventsOf(r, ClosingType)' = IF event'[k].type \in ClosingType
                                    THEN EventsOf(r, ClosingType) \cup {k}
                                    ELSE EventsOf(r, ClosingType)
    BY DEF Aged, Journals, EventsOf, NoEvent, ClosingType
  <2> QED
    BY <1>5, <2>1 DEF SpendingEvents, ClosingType
<1>7. event'[k].type \in ClosingType => SpendingEvents(r) = {}
  BY TransitionRoles DEF Aged, SpendInv, OpenIsUnspent
<1>8. EventsOfMinted'
  BY <1>2 DEF EventsOfMinted, SpendInv, Aged, Journals
<1>9. OpenIsUnspent'
  BY <1>2, <1>4, <1>6, TransitionRoles DEF OpenIsUnspent, SpendInv, Aged
<1>10. NoDoubleSpend'
  BY <1>2, <1>4, <1>6, <1>7 DEF NoDoubleSpend, SpendInv
<1> QED
  BY <1>8, <1>9, <1>10

(* Splitting: the source was open, hence unspent, and all its children     *)
(* carry the key of the one split.                                         *)
LEMMA SupersededKeepsSpendInv ==
    ASSUME SpendInv, NEW k \in Key, NEW r \in Minted, Superseded(k, r)
    PROVE  (EventsOfMinted /\ OpenIsUnspent /\ NoDoubleSpend)'
<1> DEFINE born == Minted' \ Minted
<1>1. /\ r \in Receipt /\ Minted \subseteq Receipt /\ Minted \subseteq Minted'
      /\ \A c \in Minted, b \in born : c # b /\ receipt[c].parent # b
  <2>1. minted \in Nat /\ minted < minted' /\ minted' \in Nat
    BY BoundsAssumption DEF SpendInv, RowInv, LedgerInv, TableTypeOK, Superseded
  <2>2. r \in Receipt /\ Minted \subseteq Receipt
    BY BoundsAssumption DEF SpendInv, RowInv, LedgerInv, TableTypeOK, Minted, Receipt
  <2>3. \A c \in Minted : receipt[c].parent \in Int /\ receipt[c].parent < c
    BY <2>2, BoundsAssumption
       DEF SpendInv, RowInv, LedgerInv, TableTypeOK, TreeShape, Row, Receipt, NoReceipt
  <2> QED
    BY <2>1, <2>2, <2>3 DEF Minted
<1>2. /\ \A c \in Minted : /\ receipt'[c].parent = receipt[c].parent
                           /\ receipt'[c].sourceEvent = receipt[c].sourceEvent
      /\ \A b \in born : receipt'[b].parent = r /\ receipt'[b].sourceEvent = k
  BY DEF Superseded, BornOf, Untouched, SameLineage
<1>3. Children(r) = {}
  <2>1. ~receipt[r].isParent
    BY StatusRoles, CarvingRoles DEF Superseded, SpendInv, RowInv, LedgerInv, TreeShape
  <2> QED
    BY <2>1 DEF SpendInv, RowInv, LedgerInv, SplitConservation, ConservedAt
<1>4. Children(r)' = born /\ \A s \in Minted \ {r} : Children(s)' = Children(s)
  BY <1>1, <1>2, <1>3 DEF Children
<1>5. \A b \in born : Children(b)' = {} /\ b # r
  <2>1. \A b \in born, c \in Minted' : b # r /\ receipt'[c].parent # b
    BY <1>1, <1>2
  <2> QED
    BY <2>1 DEF Children
<1>6. \A s \in Minted \ {r} : /\ SpendingEvents(s)' = SpendingEvents(s)
                              /\ receipt'[s] = receipt[s]
  BY <1>1, <1>2, <1>4, OthersUnspent DEF Superseded, Untouched, Children, SpendInv
<1>7. SpendingEvents(r) = {}
  BY CarvingRoles DEF Superseded, SpendInv, OpenIsUnspent
<1>8. SpendingEvents(r)' \subseteq {k}
  <2>1. EventsOf(r, ClosingType) = {}
    BY <1>7 DEF SpendingEvents, ClosingType
  <2>2. EventsOf(r, ClosingType)' \subseteq {k}
    BY <2>1 DEF Superseded, Journals, EventsOf
  <2>3. SplittingEvents(r)' \subseteq {k}
    BY <1>2, <1>4 DEF SplittingEvents
  <2> QED
    BY <2>2, <2>3 DEF SpendingEvents, ClosingType
<1>9. \A b \in born : SpendingEvents(b)' = {}
  <2> SUFFICES ASSUME NEW b \in born
               PROVE  SpendingEvents(b)' = {}
    OBVIOUS
  <2>1. EventsOf(b, ClosingType)' = {}
    BY <1>5 DEF Superseded, Journals, EventsOf, EventsOfMinted, SpendInv, NoEvent, ClosingType
  <2>2. SplittingEvents(b)' = {}
    BY <1>5 DEF SplittingEvents
  <2> QED
    BY <2>1, <2>2 DEF SpendingEvents, ClosingType
<1>10. EventsOfMinted'
  BY <1>1 DEF EventsOfMinted, SpendInv, Superseded, Journals
<1>11. OpenIsUnspent'
  BY <1>6, <1>9, StatusRoles DEF OpenIsUnspent, SpendInv, Superseded
<1>12. NoDoubleSpend'
  BY <1>6, <1>8, <1>9 DEF NoDoubleSpend, SpendInv
<1> QED
  BY <1>10, <1>11, <1>12

(* A new deposit is unspent, and spends nothing.                           *)
LEMMA TakenInKeepsSpendInv ==
    ASSUME SpendInv, NEW k \in Key, TakenIn(k), NEW id \in Receipt, id = minted + 1
    PROVE  (EventsOfMinted /\ OpenIsUnspent /\ NoDoubleSpend)'
<1>1. /\ Minted \subseteq Receipt /\ id \notin Minted /\ Minted' = Minted \cup {id}
      /\ id # NoReceipt
  BY BoundsAssumption
     DEF SpendInv, RowInv, LedgerInv, TableTypeOK, TakenIn, Minted, Receipt, NoReceipt
<1>2. \A c \in Minted : receipt[c].parent # id
  <2>1. \A c \in Minted : receipt[c].parent \in Int /\ receipt[c].parent < c
    BY <1>1, BoundsAssumption
       DEF SpendInv, RowInv, LedgerInv, TableTypeOK, TreeShape, Row, Receipt, NoReceipt
  <2> QED
    BY <2>1, BoundsAssumption DEF SpendInv, RowInv, LedgerInv, TableTypeOK, Minted
<1>3. receipt'[id].parent = NoReceipt /\ \A c \in Minted : receipt'[c] = receipt[c]
  BY DEF TakenIn, Untouched
<1>4. \A s \in Minted : Children(s)' = Children(s) /\ s # NoReceipt
  BY <1>1, <1>3 DEF Children, Minted, NoReceipt
<1>5. Children(id)' = {}
  <2>1. \A c \in Minted' : receipt'[c].parent # id
    BY <1>1, <1>2, <1>3
  <2> QED
    BY <2>1 DEF Children
<1>6. \A s \in Minted : SpendingEvents(s)' = SpendingEvents(s)
  <2>1. Journals(k, id) /\ id \in Receipt
    BY DEF TakenIn
  <2> QED
    BY <1>1, <1>3, <1>4, <2>1, OthersUnspent DEF Children, SpendInv
<1>7. SpendingEvents(id)' = {}
  <2>1. EventsOf(id, ClosingType)' = {}
    <3>1. event'[k].type \notin ClosingType /\ \A j \in Key \ {k} : event'[j] = event[j]
      BY DEF TakenIn, Journals, ClosingType
    <3>2. \A j \in Key : event[j].type \in ClosingType => event[j].from # id
      BY <1>1 DEF EventsOfMinted, SpendInv, NoEvent, ClosingType
    <3> QED
      BY <3>1, <3>2 DEF EventsOf
  <2>2. SplittingEvents(id)' = {}
    BY <1>5 DEF SplittingEvents
  <2> QED
    BY <2>1, <2>2 DEF SpendingEvents, ClosingType
<1>8. EventsOfMinted'
  BY <1>1 DEF EventsOfMinted, SpendInv, TakenIn, Journals
<1>9. OpenIsUnspent'
  BY <1>1, <1>3, <1>6, <1>7 DEF OpenIsUnspent, SpendInv
<1>10. NoDoubleSpend'
  <2>1. \A s \in Minted' : \/ SpendingEvents(s)' = {}
                           \/ /\ s \in Minted
                              /\ SpendingEvents(s)' = SpendingEvents(s)
    BY <1>1, <1>6, <1>7
  <2> QED
    BY <2>1 DEF NoDoubleSpend, SpendInv
<1> QED
  BY <1>8, <1>9, <1>10

(* Whatever its shape, a step leaves every receipt spent at most once.     *)
LEMMA StepKeepsSpendInv ==
    ASSUME SpendInv, NEW k \in Key, LedgerStep(k)
    PROVE  SpendInv'
<1>1. LedgerInv /\ JournalTypeOK /\ RowsSettled
  BY DEF SpendInv, RowInv
<1>2. RowInv'
  BY <1>1, StepKeepsInv, StepKeepsJournal, StepKeepsSettled DEF RowInv
<1>3. CASE TakenIn(k)
  <2>1. minted' \in Receipt
    BY <1>1, <1>2, <1>3, BoundsAssumption
       DEF RowInv, LedgerInv, TableTypeOK, TakenIn, Receipt
  <2>2. PICK id \in Receipt : id = minted + 1
    BY <1>3, <2>1 DEF TakenIn
  <2> QED
    BY <1>2, <1>3, <2>2, TakenInKeepsSpendInv DEF SpendInv
<1>4. ASSUME NEW r \in Minted, Aged(k, r)
      PROVE  SpendInv'
  BY <1>2, <1>4, AgedKeepsSpendInv DEF SpendInv
<1>5. ASSUME NEW r \in Minted, Superseded(k, r)
      PROVE  SpendInv'
  BY <1>2, <1>5, SupersededKeepsSpendInv DEF SpendInv
<1> QED
  BY <1>1, <1>3, <1>4, <1>5, StepShapes

(* In every reachable state the journal speaks of existing receipts only   *)
(* and an open receipt is unspent (the status guards of all primitives).   *)
THEOREM SpendInvariance == LedgerSpec => []SpendInv
<1>1. LedgerInit => SpendInv
  <2> SUFFICES ASSUME LedgerInit
               PROVE  SpendInv
    OBVIOUS
  <2>1. RowInv
    BY InitKeepsInv DEF LedgerInit, RowInv, RowsSettled, Minted
  <2>2. Minted = {} /\ \A k \in Key : event[k] = NoEvent
    BY DEF LedgerInit, Minted
  <2> QED
    BY <2>1, <2>2 DEF SpendInv, EventsOfMinted, OpenIsUnspent, NoDoubleSpend
<1>2. SpendInv /\ [LedgerNext]_ledgerVars => SpendInv'
  <2>1. SpendInv /\ LedgerNext => SpendInv'
    BY StepKeepsSpendInv DEF LedgerNext
  <2>2. SpendInv /\ UNCHANGED ledgerVars => SpendInv'
    <3> SUFFICES ASSUME SpendInv, UNCHANGED ledgerVars
                 PROVE  SpendInv'
      OBVIOUS
    <3>1. RowInv'
      BY DEF ledgerVars, SpendInv, RowInv, LedgerInv, JournalTypeOK, TableTypeOK,
             TreeShape, SplitConservation, ConservedAt, Children, Minted, RowsSettled
    <3>2. Minted' = Minted /\ \A r : SpendingEvents(r)' = SpendingEvents(r)
      BY DEF ledgerVars, Minted, SpendingEvents, EventsOf, SplittingEvents, Children
    <3> QED
      BY <3>1, <3>2 DEF ledgerVars, SpendInv, EventsOfMinted, OpenIsUnspent,
                        NoDoubleSpend
  <2> QED
    BY <2>1, <2>2
<1> QED
  BY <1>1, <1>2, PTL DEF LedgerSpec

(* No double spend: whatever order the calls come in and however often     *)
(* they are retried under fresh keys, the goods of one receipt leave it at *)
(* most once (the status guards of consume, seize, expire and the splits). *)
THEOREM GoodsAreSpentOnce == LedgerSpec => []NoDoubleSpend
<1>1. SpendInv => NoDoubleSpend
  BY DEF SpendInv
<1> QED
  BY <1>1, SpendInvariance, PTL

-----------------------------------------------------------------------------
(* The journal explains the stock.                                         *)

(* The types of the events that a journal has about receipt r.             *)
Said(journal, r) == {journal[k].type : k \in {j \in Key : journal[j].from = r}}

(* What they say of its status.                                            *)
Explained(r) ==
    LET status == receipt[r].status
        said == Said(event, r)
    IN  /\ status = "WITHDRAWN" <=> "CONSUMED" \in said
        /\ status = "EXPIRED" <=> "EXPIRED" \in said
        /\ status = "CANCELLED" <=> "REJECTED" \in said
        /\ status = "PENDING_APPROVAL" <=> /\ "DEPOSIT" \in said
                                           /\ said \cap {"APPROVED", "REJECTED"} = {}
        /\ status \in HeldStatus =>
              said \cap {"TRANSFERRED_AND_RELEASED", "HOLD_RELEASED"} = {}

(* Only a deposit awaits approval, so the approval the journal records for *)
(* a receipt that becomes available is that of its tree.                   *)
Admitted(r) ==
    /\ receipt[r].root \in Receipt
    /\ receipt[r].status = "PENDING_APPROVAL" => receipt[r].root = r
    /\ receipt[r].status \notin {"PENDING_APPROVAL", "CANCELLED"} =>
          "APPROVED" \in Said(event, receipt[r].root)

RowsExplained == \A r \in Minted : Explained(r) /\ Admitted(r)

JournalInv == SpendInv /\ RowsExplained

(* One more event adds its type to what is said of its receipt.            *)
LEMMA SaidAfter ==
    ASSUME NEW k \in Key, NEW r, Journals(k, r), NEW s, s # NoReceipt
    PROVE  Said(event', s) = IF s = r THEN Said(event, s) \cup {event'[k].type}
                                      ELSE Said(event, s)
<1>1. \A j \in Key \ {k} : event'[j] = event[j]
  BY DEF Journals
<1>2. event'[k].from = r /\ event[k].from # s
  BY DEF Journals, NoEvent
<1>3. CASE s = r
  <2>1. {j \in Key : event'[j].from = s} = {j \in Key : event[j].from = s} \cup {k}
    BY <1>1, <1>2, <1>3
  <2>2. k \notin {j \in Key : event[j].from = s}
    BY <1>2
  <2> QED
    BY <1>1, <1>3, <2>1, <2>2 DEF Said
<1>4. CASE s # r
  <2>1. {j \in Key : event'[j].from = s} = {j \in Key : event[j].from = s} \ {k}
    BY <1>1, <1>2, <1>4
  <2>2. k \notin {j \in Key : event[j].from = s}
    BY <1>2
  <2> QED
    BY <1>1, <1>4, <2>1, <2>2 DEF Said
<1> QED
  BY <1>3, <1>4

(* A receipt that does not exist yet has no events.                        *)
LEMMA UnmintedIsSilent ==
    ASSUME EventsOfMinted, NEW r, r \notin Minted, r # NoReceipt
    PROVE  Said(event, r) = {}
  BY DEF EventsOfMinted, Said, NoEvent

(* A receipt is SPLIT when children were born of it.                       *)
LEMMA SplitIsExplained ==
    ASSUME LedgerInv, NEW r \in Minted
    PROVE  receipt[r].status = "SPLIT" <=> SplittingEvents(r) # {}
<1>1. SplittingEvents(r) # {} <=> Children(r) # {}
  BY DEF SplittingEvents
<1>2. receipt[r].status = "SPLIT" <=> Children(r) # {}
  BY DEF LedgerInv, TreeShape, SplitConservation, ConservedAt
<1> QED
  BY <1>1, <1>2

(* Rows the event is not about stay explained.                             *)
LEMMA OthersStayExplained ==
    ASSUME RowsExplained, NEW k \in Key, NEW r, Journals(k, r),
           NEW s \in Minted, s # r, receipt'[s] = receipt[s]
    PROVE  Explained(s)' /\ Admitted(s)'
<1>1. Explained(s) /\ Admitted(s) /\ s # NoReceipt /\ receipt[s].root # NoReceipt
  BY DEF RowsExplained, Admitted, Minted, Receipt, NoReceipt
<1>2. Said(event', s) = Said(event, s)
  BY <1>1, SaidAfter
<1>3. Said(event, receipt[s].root) \subseteq Said(event', receipt[s].root)
  BY <1>1, SaidAfter
<1> QED
  BY <1>1, <1>2, <1>3 DEF Explained, Admitted

(* Ageing: the event tells the new status of its receipt.                  *)
LEMMA AgedStaysExplained ==
    ASSUME RowsExplained, NEW k \in Key, NEW r \in Minted, Aged(k, r)
    PROVE  Explained(r)' /\ Admitted(r)'
<1>1. /\ receipt'[r].root = receipt[r].root /\ Explained(r) /\ Admitted(r)
      /\ r # NoReceipt /\ receipt[r].root # NoReceipt
  BY DEF Aged, SameLineage, RowsExplained, Admitted, Minted, Receipt, NoReceipt
<1>2. /\ Said(event', r) = Said(event, r) \cup {event'[k].type}
      /\ Said(event, receipt[r].root) \subseteq Said(event', receipt[r].root)
  BY <1>1, SaidAfter DEF Aged
<1>3. Transition(event'[k].type, receipt[r].status, receipt'[r].status)
  BY DEF Aged
<1>4. Explained(r)'
  BY <1>1, <1>2, <1>3, StatusRoles DEF Explained, Transition
<1>5. Admitted(r)'
  BY <1>1, <1>2, <1>3, StatusRoles DEF Admitted, Transition
<1> QED
  BY <1>4, <1>5

(* Splitting: the source was neither pending nor over, and its children    *)
(* have no events yet.                                                     *)
LEMMA SupersededStayExplained ==
    ASSUME RowsExplained, EventsOfMinted,
           NEW k \in Key, NEW r \in Minted, Superseded(k, r),
           NEW s \in {r} \cup (Minted' \ Minted)
    PROVE  Explained(s)' /\ Admitted(s)'
<1>1. /\ receipt'[s].root = receipt[r].root /\ receipt'[r].status = "SPLIT"
      /\ s # NoReceipt /\ r # NoReceipt
  BY DEF Superseded, BornOf, SameLineage, Minted, NoReceipt
<1>2. /\ receipt[r].status \notin ClosedStatus \cup {"PENDING_APPROVAL"}
      /\ event'[k].type \in {"HOLD_PLACED", "HOLD_RELEASED", "SEIZED"}
      /\ s # r => receipt'[s].status \in {"ACTIVE", "SEIZED"} \cup HeldStatus
  BY CarvingRoles DEF Superseded
<1>3. Explained(r) /\ Admitted(r) /\ receipt[r].root # NoReceipt
  BY DEF RowsExplained, Admitted, Receipt, NoReceipt
<1>4. Admitted(s)'
  <2>1. Said(event, receipt[r].root) \subseteq Said(event', receipt[r].root)
    BY <1>3, SaidAfter DEF Superseded
  <2> QED
    BY <1>1, <1>2, <1>3, <2>1, StatusRoles DEF Admitted
<1>5. CASE s = r
  <2>1. Said(event', r) = Said(event, r) \cup {event'[k].type}
    BY <1>1, SaidAfter DEF Superseded
  <2> QED
    BY <1>1, <1>2, <1>3, <1>4, <1>5, <2>1, StatusRoles DEF Explained
<1>6. CASE s \in Minted' \ Minted
  <2>1. s # r
    BY <1>6
  <2>2. Said(event', s) = {}
    BY <1>1, <1>6, <2>1, SaidAfter, UnmintedIsSilent DEF Superseded
  <2> QED
    BY <1>2, <1>4, <2>1, <2>2, StatusRoles DEF Explained
<1> QED
  BY <1>5, <1>6

(* A deposit awaits approval and nothing else is said of it.               *)
LEMMA TakenInIsExplained ==
    ASSUME EventsOfMinted, NEW k \in Key, TakenIn(k),
           NEW id \in Receipt, id = minted + 1, id \notin Minted
    PROVE  Explained(id)' /\ Admitted(id)'
<1>1. /\ receipt'[id].status = "PENDING_APPROVAL" /\ receipt'[id].root = id
      /\ event'[k].type = "DEPOSIT" /\ Journals(k, id) /\ id # NoReceipt
  BY DEF TakenIn, Receipt, NoReceipt
<1>2. Said(event', id) = {"DEPOSIT"}
  BY <1>1, SaidAfter, UnmintedIsSilent
<1> QED
  BY <1>1, <1>2, StatusRoles DEF Explained, Admitted

(* Whatever its shape, a step leaves the stock explained.                  *)
LEMMA StepStaysExplained ==
    ASSUME JournalInv, NEW k \in Key, LedgerStep(k)
    PROVE  RowsExplained'
<1>1. /\ LedgerInv /\ JournalTypeOK /\ RowsSettled /\ EventsOfMinted /\ RowsExplained
      /\ minted \in Nat
  BY BoundsAssumption DEF JournalInv, SpendInv, RowInv, LedgerInv, TableTypeOK
<1>2. CASE TakenIn(k)
  <2>1. minted' \in Receipt /\ minted' = minted + 1
    BY <1>1, <1>2, StepKeepsInv, BoundsAssumption
       DEF LedgerInv, TableTypeOK, TakenIn, Receipt
  <2>2. PICK id \in Receipt : id = minted + 1
    BY <2>1
  <2>3. id \notin Minted /\ Minted' = Minted \cup {id}
    BY <1>1, <2>1, <2>2 DEF Minted
  <2>4. Explained(id)' /\ Admitted(id)'
    BY <1>1, <1>2, <2>2, <2>3, TakenInIsExplained
  <2>5. \A s \in Minted : Explained(s)' /\ Admitted(s)'
    BY <1>1, <1>2, <2>2, <2>3, OthersStayExplained DEF TakenIn, Untouched
  <2> QED
    BY <2>3, <2>4, <2>5 DEF RowsExplained
<1>3. ASSUME NEW r \in Minted, Aged(k, r)
      PROVE  RowsExplained'
  <2>1. \A s \in Minted \ {r} : Explained(s)' /\ Admitted(s)'
    BY <1>1, <1>3, OthersStayExplained DEF Aged, Untouched
  <2>2. Explained(r)' /\ Admitted(r)'
    BY <1>1, <1>3, AgedStaysExplained
  <2>3. Minted' = Minted
    BY <1>3 DEF Aged, Minted
  <2> QED
    BY <2>1, <2>2, <2>3 DEF RowsExplained
<1>4. ASSUME NEW r \in Minted, Superseded(k, r)
      PROVE  RowsExplained'
  <2>1. \A s \in Minted \ {r} : Explained(s)' /\ Admitted(s)'
    BY <1>1, <1>4, OthersStayExplained DEF Superseded, Untouched
  <2>2. \A s \in {r} \cup (Minted' \ Minted) : Explained(s)' /\ Admitted(s)'
    BY <1>1, <1>4, SupersededStayExplained
  <2> QED
    BY <2>1, <2>2 DEF RowsExplained
<1> QED
  BY <1>1, <1>2, <1>3, <1>4, StepShapes

(* In every reachable state the journal tells the status of every receipt  *)
(* and names the approval of every tree whose goods moved (each primitive  *)
(* inserts its event in the transaction that updates the table).           *)
THEOREM JournalInvariance == LedgerSpec => []JournalInv
<1>1. LedgerInit => RowsExplained
  BY DEF LedgerInit, RowsExplained, Minted
<1>2. JournalInv /\ [LedgerNext]_ledgerVars => RowsExplained'
  <2>1. JournalInv /\ UNCHANGED ledgerVars => RowsExplained'
    BY DEF ledgerVars, JournalInv, RowsExplained, Explained, Admitted, Minted
  <2> QED
    BY <2>1, StepStaysExplained DEF LedgerNext
<1> QED
  BY <1>1, <1>2, SpendInvariance, PTL DEF LedgerSpec, JournalInv

(* The audit trail explains the stock: the journal alone says whether a    *)
(* receipt is gone, split, awaiting approval or still held, and no goods   *)
(* are held, traded or removed that no administrator let in.               *)
THEOREM JournalTellsTheStock == LedgerSpec => []JournalExplainsStock
<1>1. JournalInv => JournalExplainsStock
  <2> SUFFICES ASSUME JournalInv
               PROVE  JournalExplainsStatus /\ OnlyApprovedStockMoves
    BY DEF JournalExplainsStock
  <2>1. \A r, type : EventsOf(r, {type}) # {} <=> type \in Said(event, r)
    BY DEF EventsOf, Said
  <2>2. LedgerInv /\ RowsExplained
    BY DEF JournalInv, SpendInv, RowInv
  <2>3. ASSUME NEW r \in Minted
        PROVE  LET status == receipt[r].status
                   Did(type) == EventsOf(r, {type}) # {}
               IN  /\ status = "WITHDRAWN" <=> Did("CONSUMED")
                   /\ status = "EXPIRED" <=> Did("EXPIRED")
                   /\ status = "CANCELLED" <=> Did("REJECTED")
                   /\ status = "SPLIT" <=> SplittingEvents(r) # {}
                   /\ status = "PENDING_APPROVAL" <=>
                         Did("DEPOSIT") /\ ~Did("APPROVED") /\ ~Did("REJECTED")
                   /\ IsHeld(r) => /\ ~Did("TRANSFERRED_AND_RELEASED")
                                   /\ ~Did("HOLD_RELEASED")
    <3>1. Explained(r)
      BY <2>2 DEF RowsExplained
    <3>2. receipt[r].status = "SPLIT" <=> SplittingEvents(r) # {}
      BY <2>2, SplitIsExplained
    <3> QED
      BY <2>1, <3>1, <3>2 DEF Explained, IsHeld
  <2>5. JournalExplainsStatus
    BY <2>3 DEF JournalExplainsStatus
  <2>4. OnlyApprovedStockMoves
    BY <2>1, <2>2 DEF RowsExplained, Admitted, OnlyApprovedStockMoves
  <2> QED
    BY <2>4, <2>5
<1> QED
  BY <1>1, JournalInvariance, PTL

-----------------------------------------------------------------------------
(* What the services that call the ledger rely on.                         *)

(* A step never takes back what the table and the journal said.            *)
Grown ==
    /\ Minted \subseteq Minted'
    /\ \A r \in Minted :
          /\ SameLineage(receipt[r], receipt'[r])
          /\ receipt'[r].status \in HeldStatus => receipt[r].status \in HeldStatus
          /\ receipt[r].status \in ClosedStatus => receipt'[r].status = receipt[r].status
    /\ \A k \in Key : event[k] # NoEvent => event'[k] = event[k]

(* A step under key k writes that key, whose event was missing.            *)
Writes(k, r) == Journals(k, r) /\ event'[k] # NoEvent

LEMMA StepGrows ==
    ASSUME RowInv, NEW k \in Key, LedgerStep(k)
    PROVE  RowInv' /\ Grown
<1>1. LedgerInv /\ JournalTypeOK /\ RowsSettled /\ minted \in Nat
  BY BoundsAssumption DEF RowInv, LedgerInv, TableTypeOK
<1>2. RowInv'
  BY <1>1, StepKeepsInv, StepKeepsJournal, StepKeepsSettled DEF RowInv
<1>3. CASE TakenIn(k)
  <2>1. minted' = minted + 1 /\ Untouched(Minted) /\ Journals(k, minted + 1)
    BY <1>3 DEF TakenIn
  <2>2. Minted \subseteq Minted'
    BY <1>1, <2>1 DEF Minted
  <2>3. \A j \in Key : event[j] # NoEvent => event'[j] = event[j]
    BY <2>1 DEF Journals
  <2>4. \A s \in Minted : receipt'[s] = receipt[s]
    BY <2>1 DEF Untouched
  <2> QED
    BY <1>2, <2>2, <2>3, <2>4 DEF Grown, SameLineage
<1>4. ASSUME NEW r \in Minted, Aged(k, r)
      PROVE  Grown
  <2>1. \A j \in Key : event[j] # NoEvent => event'[j] = event[j]
    BY <1>4 DEF Aged, Journals
  <2>2. SameLineage(receipt[r], receipt'[r]) /\ Minted' = Minted
    BY <1>4 DEF Aged, Minted
  <2>3. \A s \in Minted \ {r} : receipt'[s] = receipt[s]
    BY <1>4 DEF Aged, Untouched
  <2>4. /\ receipt'[r].status \in HeldStatus => receipt[r].status \in HeldStatus
        /\ receipt[r].status \in ClosedStatus => receipt'[r].status = receipt[r].status
    BY <1>4, TransitionRoles DEF Aged
  <2> QED
    BY <2>1, <2>2, <2>3, <2>4 DEF Grown, SameLineage
<1>5. ASSUME NEW r \in Minted, Superseded(k, r)
      PROVE  Grown
  <2>1. \A j \in Key : event[j] # NoEvent => event'[j] = event[j]
    BY <1>5 DEF Superseded, Journals
  <2>2. SameLineage(receipt[r], receipt'[r]) /\ Minted \subseteq Minted'
    BY <1>1, <1>5 DEF Superseded, Minted
  <2>3. \A s \in Minted \ {r} : receipt'[s] = receipt[s]
    BY <1>5 DEF Superseded, Untouched
  <2>4. receipt'[r].status = "SPLIT" /\ receipt[r].status \notin ClosedStatus
    BY <1>5, CarvingRoles DEF Superseded
  <2> QED
    BY <2>1, <2>2, <2>3, <2>4, StatusRoles DEF Grown, SameLineage
<1> QED
  BY <1>1, <1>2, <1>3, <1>4, <1>5, StepShapes

(* The journal insert, seen by a caller.                                   *)
LEMMA RecordWrites ==
    ASSUME RowInv, NEW k \in Key, NEW type, NEW r \in Minted, NEW q, Record(k, type, r, q)
    PROVE  /\ Writes(k, r) /\ event'[k].type = type /\ event'[k].quantity = q
           /\ event'[k].from = r
<1>1. Journals(k, r) /\ event'[k].type = type /\ event'[k].quantity = q
  BY RecordJournals DEF RowInv
<1>2. event'[k] # NoEvent /\ event'[k].from = r
  BY <1>1 DEF Journals, NoEvent, NoReceipt, Minted
<1> QED
  BY <1>1, <1>2 DEF Writes

(* A status-only transition, seen by a caller.                             *)
Ages(k, r, new) ==
    /\ Writes(k, r)
    /\ minted' = minted
    /\ Untouched(Minted \ {r})
    /\ receipt'[r] = new

LEMMA UpdateIs ==
    ASSUME RowInv, NEW r \in Minted, NEW new, Update(r, new)
    PROVE  minted' = minted /\ Untouched(Minted \ {r}) /\ receipt'[r] = new
<1>1. TableTypeOK
  BY DEF RowInv, LedgerInv
<1>2. Minted \subseteq Receipt
  BY <1>1, BoundsAssumption DEF TableTypeOK, Minted, Receipt
<1> QED
  BY <1>1, <1>2 DEF Update, Untouched, TableTypeOK

LEMMA ReleaseIs ==
    ASSUME RowInv, NEW k \in Key, NEW r \in Minted, Release(k, r)
    PROVE  /\ RowInv' /\ Grown /\ IsHeld(r)
           /\ Ages(k, r, [receipt[r] EXCEPT !.status = "ACTIVE", !.approval = "APPROVED"])
           /\ event'[k].type = "HOLD_RELEASED" /\ event'[k].quantity = receipt[r].quantity
<1>1. LedgerStep(k)
  BY DEF LedgerStep, StatusStep
<1> QED
  BY <1>1, StepGrows, RecordWrites, UpdateIs DEF Release, Ages

LEMMA ConsumeIs ==
    ASSUME RowInv, NEW k \in Key, NEW r \in Minted, Consume(k, r)
    PROVE  /\ RowInv' /\ Grown /\ IsHeld(r)
           /\ Ages(k, r, [receipt[r] EXCEPT !.status = "WITHDRAWN"])
<1>1. LedgerStep(k)
  BY DEF LedgerStep, StatusStep
<1> QED
  BY <1>1, StepGrows, RecordWrites, UpdateIs DEF Consume, Ages

LEMMA ApproveHoldIs ==
    ASSUME RowInv, NEW k \in Key, NEW r \in Minted, ApproveHold(k, r)
    PROVE  /\ RowInv' /\ Grown /\ IsHeld(r)
           /\ Ages(k, r, [receipt[r] EXCEPT !.approval = "APPROVED"])
<1>1. LedgerStep(k)
  BY DEF LedgerStep, StatusStep
<1> QED
  BY <1>1, StepGrows, RecordWrites, UpdateIs DEF ApproveHold, Ages

(* A split, seen by a caller: the first child is the part, and there may   *)
(* be a second.                                                            *)
Parts(r, kids) ==
    /\ Untouched(Minted \ {r})
    /\ receipt'[r] = [receipt[r] EXCEPT !.status = "SPLIT", !.isParent = TRUE]
    /\ \E a \in Minted' \ Minted :
          /\ receipt'[a] = kids[1]
          /\ \A b \in Minted' \ (Minted \cup {a}) : Len(kids) = 2 /\ receipt'[b] = kids[2]
          /\ Len(kids) = 2 => Minted' # Minted \cup {a}

LEMMA SplitIs ==
    ASSUME TableTypeOK, NEW r \in Minted, NEW kids, Split(r, kids), Len(kids) \in {1, 2}
    PROVE  Parts(r, kids)
<1> DEFINE n == Len(kids)
           born == minted + 1 .. minted + n
<1>1. /\ minted \in Nat /\ minted' = minted + n /\ minted + n <= MaxReceipts
      /\ n \in {1, 2} /\ MaxReceipts \in Nat
  BY BoundsAssumption DEF Split, TableTypeOK
<1>2. /\ Minted \subseteq Receipt /\ born \subseteq Receipt
      /\ Minted' \ Minted = born /\ Minted \cap born = {} /\ r \in Receipt
  BY <1>1 DEF Minted, Receipt
<1>3. /\ Untouched(Minted \ {r})
      /\ receipt'[r] = [receipt[r] EXCEPT !.status = "SPLIT", !.isParent = TRUE]
  BY <1>2 DEF Split, Untouched
<1>4. \A c \in born : c # r /\ receipt'[c] = kids[c - minted]
  BY <1>1, <1>2 DEF Split
<1>5. CASE n = 1
  <2>1. born = {minted + 1} /\ (minted + 1) - minted = 1
    BY <1>1, <1>5
  <2> QED
    BY <1>2, <1>3, <1>4, <1>5, <2>1 DEF Parts
<1>6. CASE n = 2
  <2>1. /\ born = {minted + 1, minted + 2} /\ minted + 1 # minted + 2
        /\ (minted + 1) - minted = 1 /\ (minted + 2) - minted = 2
    BY <1>1, <1>6
  <2>2. receipt'[minted + 1] = kids[1] /\ receipt'[minted + 2] = kids[2]
    BY <1>4, <2>1
  <2>3. Minted' = Minted \cup {minted + 1, minted + 2}
    BY <1>1, <1>6 DEF Minted
  <2> HIDE DEF born
  <2> QED
    BY <1>2, <1>3, <1>6, <2>1, <2>2, <2>3 DEF Parts
<1> QED
  BY <1>1, <1>5, <1>6

(* Whole units are stored as they are.                                     *)
LEMMA WholeRequest ==
    ASSUME NEW n \in 1..MaxQuantity
    PROVE  Exactly(n) \in Request /\ Stored(Exactly(n)) = n /\ Exactly(n) \in Nat \ {0}
<1>1. Exactly(n) <= Exactly(MaxQuantity) /\ Exactly(n) \in Nat /\ 0 < Exactly(n)
  BY BoundsAssumption, ScaleAssumption DEF Exactly
<1> QED
  BY <1>1, BoundsAssumption, WholeIsExact DEF Request

(* hold, seen by a caller: a new receipt is reserved for transaction t,    *)
(* and what is left of the source is available.                            *)
Reserves(k, r, n, s, t) ==
    /\ Writes(k, r) /\ event'[k].type = "HOLD_PLACED" /\ event'[k].quantity = n
    /\ receipt[r].status = "ACTIVE"
    /\ Untouched(Minted \ {r})
    /\ receipt'[r] = [receipt[r] EXCEPT !.status = "SPLIT", !.isParent = TRUE]
    /\ \E a \in Minted' \ Minted :
          /\ receipt'[a].status = s
          /\ receipt'[a].approval = "PENDING"
          /\ receipt'[a].quantity = n
          /\ receipt'[a].sourceTxn = t
          /\ receipt'[a].sourceEvent = k
          /\ \A b \in Minted' \ (Minted \cup {a}) :
                /\ receipt'[b].status = "ACTIVE"
                /\ receipt'[b].approval = "APPROVED"
                /\ receipt'[b].sourceTxn = None
                /\ receipt'[b].sourceEvent = k
    /\ \A c \in Minted' \ Minted :
          receipt'[c].parent = r /\ receipt'[c].owner = receipt[r].owner

LEMMA HoldIs ==
    ASSUME RowInv, NEW k \in Key, NEW r \in Minted, NEW n \in 1..MaxQuantity,
           NEW s \in HoldStatus, NEW t \in Txn, Hold(k, r, Exactly(n), s, t)
    PROVE  RowInv' /\ Grown /\ Reserves(k, r, n, s, t)
<1> DEFINE q == Exactly(n)
           rest == Exactly(receipt[r].quantity) - q
           primary == [ChildOf(r, k, q) EXCEPT !.status = s,
                          !.approval = "PENDING", !.owner = receipt[r].owner,
                          !.sourceTxn = t]
           remainder == [ChildOf(r, k, rest) EXCEPT !.status = "ACTIVE",
                            !.approval = "APPROVED"]
           kids == IF rest > 0 THEN <<primary, remainder>> ELSE <<primary>>
<1>1. TableTypeOK /\ receipt[r] \in Row
  BY BoundsAssumption DEF RowInv, LedgerInv, TableTypeOK, Minted, Receipt
<1>2. q \in Request /\ Stored(q) = n
  BY WholeRequest
<1>3. RowInv' /\ Grown
  <2>1. LedgerStep(k)
    BY <1>2 DEF LedgerStep, SplitStep
  <2> QED
    BY <2>1, StepGrows
<1>4. Writes(k, r) /\ event'[k].type = "HOLD_PLACED" /\ event'[k].quantity = n
  BY <1>2, RecordWrites DEF Hold
<1>5. /\ primary.status = s /\ primary.approval = "PENDING" /\ primary.quantity = n
      /\ primary.sourceTxn = t /\ primary.sourceEvent = k
      /\ primary.parent = r /\ primary.owner = receipt[r].owner
  BY <1>1, <1>2 DEF ChildOf, Row
<1>6. /\ remainder.status = "ACTIVE" /\ remainder.approval = "APPROVED"
      /\ remainder.sourceTxn = None /\ remainder.sourceEvent = k
      /\ remainder.parent = r /\ remainder.owner = receipt[r].owner
  BY <1>1 DEF ChildOf, Row
<1>7. Split(r, kids) /\ receipt[r].status = "ACTIVE"
  BY DEF Hold, Partition
<1> HIDE DEF primary, remainder
<1>8. Len(kids) \in {1, 2} /\ kids[1] = primary /\ (Len(kids) = 2 => kids[2] = remainder)
  OBVIOUS
<1> HIDE DEF kids
<1>9. Parts(r, kids)
  BY <1>1, <1>7, <1>8, SplitIs
<1> QED
  BY <1>3, <1>4, <1>5, <1>6, <1>7, <1>8, <1>9 DEF Parts, Reserves

LEMMA TransitionIs ==
    ASSUME RowInv, NEW k \in Key, NEW r \in Minted, TransitionPledgeToLien(k, r)
    PROVE  /\ RowInv' /\ Grown /\ IsHeld(r)
           /\ Ages(k, r, [receipt[r] EXCEPT !.status = "HELD_LIEN"])
           /\ event'[k].type = "PLEDGE_ACCEPTED"
<1>1. LedgerStep(k)
  BY DEF LedgerStep, StatusStep
<1>2. IsHeld(r)
  BY StatusRoles DEF TransitionPledgeToLien, IsHeld
<1> QED
  BY <1>1, <1>2, StepGrows, RecordWrites, UpdateIs DEF TransitionPledgeToLien, Ages

(* releasePartial, seen by a caller: a part is free, the rest stays under  *)
(* the transaction it was held for.                                        *)
Shares(k, r, n) ==
    /\ Writes(k, r) /\ event'[k].type = "HOLD_RELEASED" /\ event'[k].quantity = n
    /\ IsHeld(r)
    /\ Untouched(Minted \ {r})
    /\ receipt'[r] = [receipt[r] EXCEPT !.status = "SPLIT", !.isParent = TRUE]
    /\ \E a, b \in Minted' \ Minted :
          /\ a # b /\ Minted' = Minted \cup {a, b}
          /\ receipt'[a].status = "ACTIVE"
          /\ receipt'[a].sourceTxn = None
          /\ receipt'[a].sourceEvent = k
          /\ receipt'[b].status = "HELD_LIEN"
          /\ receipt'[b].quantity = receipt[r].quantity - n
          /\ receipt'[b].sourceTxn = receipt[r].sourceTxn
          /\ receipt'[b].sourceEvent = k
    /\ \A c \in Minted' \ Minted :
          receipt'[c].parent = r /\ receipt'[c].owner = receipt[r].owner

LEMMA ReleasePartialIs ==
    ASSUME RowInv, NEW k \in Key, NEW r \in Minted, NEW n \in 1..MaxQuantity,
           ReleasePartial(k, r, Exactly(n))
    PROVE  RowInv' /\ Grown /\ Shares(k, r, n)
<1> DEFINE q == Exactly(n)
           rest == Exactly(receipt[r].quantity) - q
           part == [ChildOf(r, k, q) EXCEPT !.status = "ACTIVE", !.approval = "APPROVED"]
           kept == [ChildOf(r, k, rest) EXCEPT !.sourceTxn = receipt[r].sourceTxn]
           kids == <<part, kept>>
<1>1. TableTypeOK /\ receipt[r] \in Row
  BY BoundsAssumption DEF RowInv, LedgerInv, TableTypeOK, Minted, Receipt
<1>2. q \in Request /\ Stored(q) = n
  BY WholeRequest
<1>3. RowInv' /\ Grown
  <2>1. LedgerStep(k)
    BY <1>2 DEF LedgerStep, SplitStep
  <2> QED
    BY <2>1, StepGrows
<1>4. /\ Writes(k, r) /\ event'[k].type = "HOLD_RELEASED" /\ event'[k].quantity = n
      /\ receipt[r].status = "HELD_LIEN" /\ rest > 0 /\ Split(r, kids)
  BY <1>2, RecordWrites DEF ReleasePartial
<1>5. Stored(rest) = receipt[r].quantity - n
  <2>1. PICK m \in Nat : m = receipt[r].quantity
    BY <1>1 DEF Row
  <2>2. m * Scale - n * Scale = (m - n) * Scale
    BY <2>1, ScaleAssumption
  <2>3. (m - n) * Scale > 0
    BY <1>4, <2>1, <2>2 DEF Exactly
  <2>4. m - n \in Nat
    BY <2>1, <2>3, ScaleAssumption
  <2> QED
    BY <2>1, <2>2, <2>4, WholeIsExact DEF Exactly
<1>6. /\ part.status = "ACTIVE" /\ part.sourceTxn = None /\ part.sourceEvent = k
      /\ part.parent = r /\ part.owner = receipt[r].owner
  BY <1>1 DEF ChildOf, Row
<1>7. /\ kept.status = "HELD_LIEN" /\ kept.quantity = receipt[r].quantity - n
      /\ kept.sourceTxn = receipt[r].sourceTxn /\ kept.sourceEvent = k
      /\ kept.parent = r /\ kept.owner = receipt[r].owner
  BY <1>1, <1>4, <1>5 DEF ChildOf, Row
<1> HIDE DEF part, kept
<1>8. Len(kids) \in {1, 2} /\ kids[1] = part /\ Len(kids) = 2 /\ kids[2] = kept
  OBVIOUS
<1> HIDE DEF kids
<1>9. Parts(r, kids)
  BY <1>1, <1>4, <1>8, SplitIs
<1>10. PICK a \in Minted' \ Minted :
           /\ receipt'[a] = part
           /\ \A c \in Minted' \ (Minted \cup {a}) : receipt'[c] = kept
           /\ Minted' # Minted \cup {a}
  BY <1>8, <1>9 DEF Parts
<1>11. PICK b \in Minted' \ (Minted \cup {a}) : Minted' = Minted \cup {a, b}
  <2>1. minted' = minted + 2 /\ minted \in Nat /\ Minted \subseteq Minted'
    BY <1>1, <1>3, <1>4, <1>8, BoundsAssumption DEF Split, TableTypeOK, Grown
  <2>2. Minted' = Minted \cup {minted + 1, minted + 2}
    BY <2>1 DEF Minted
  <2>3. PICK b \in {minted + 1, minted + 2} : b # a
    BY <2>1
  <2>4. b \in Minted' \ Minted /\ a \in {minted + 1, minted + 2}
    BY <2>1, <2>2 DEF Minted
  <2> QED
    BY <2>1, <2>2, <2>3, <2>4
<1>12. receipt'[b] = kept
  BY <1>10, <1>11
<1>13. IsHeld(r)
  BY <1>4, StatusRoles DEF IsHeld
<1> QED
  BY <1>3, <1>4, <1>6, <1>7, <1>9, <1>10, <1>11, <1>12, <1>13 DEF Parts, Shares

-----------------------------------------------------------------------------
(* Where the services start: one deposit, taken in and approved.           *)
LEMMA StockedIsSound ==
    ASSUME NEW stock \in 1..MaxQuantity, NEW d \in Key, NEW a \in Key, d # a,
           0 < MaxReceipts, Stocked(stock, d, a)
    PROVE  /\ RowInv
           /\ Minted = {1}
           /\ receipt[1].status = "ACTIVE" /\ receipt[1].sourceTxn = None
           /\ receipt[1].sourceEvent = d
           /\ \A k \in Key \ {d, a} : event[k] = NoEvent
<1>1. Minted = {1} /\ 1 \in Receipt /\ minted = 1
  BY BoundsAssumption DEF Stocked, Minted, Receipt
<1>2. PICK c \in Client :
          receipt = [r \in Receipt |->
              IF r = 1
              THEN [status |-> "ACTIVE", approval |-> "APPROVED",
                    quantity |-> stock, owner |-> c, parent |-> NoReceipt,
                    root |-> 1, isParent |-> FALSE, sourceTxn |-> None,
                    sourceEvent |-> d]
              ELSE NoRow]
  BY DEF Stocked
<1>3. receipt[1] = [status |-> "ACTIVE", approval |-> "APPROVED",
                    quantity |-> stock, owner |-> c, parent |-> NoReceipt,
                    root |-> 1, isParent |-> FALSE, sourceTxn |-> None,
                    sourceEvent |-> d]
  BY <1>1, <1>2
<1>4. receipt[1] \in Row
  BY <1>1, <1>3, BoundsAssumption DEF Row, Status, Approval, NoReceipt
<1>5. NoRow \notin Row
  BY DEF NoRow, Row, Status, HeldStatus, ClosedStatus
<1>6. TableTypeOK
  <2>1. minted \in 0..MaxReceipts
    BY <1>1, BoundsAssumption
  <2>2. \A r \in Receipt : receipt[r] = IF r = 1 THEN receipt[1] ELSE NoRow
    BY <1>1, <1>2
  <2>3. \A r \in Receipt : receipt[r] \in Row <=> r = 1
    BY <1>4, <1>5, <2>2
  <2>4. receipt \in [Receipt -> Row \cup {NoRow}]
    BY <1>2, <1>3, <1>4
  <2> QED
    BY <1>1, <2>1, <2>3, <2>4 DEF TableTypeOK
<1>7. TreeShape
  BY <1>1, <1>3 DEF TreeShape, NoReceipt
<1>8. SplitConservation
  BY <1>1, <1>3 DEF SplitConservation, ConservedAt, Children, NoReceipt
<1>9. RowsSettled
  BY <1>1, <1>3, StatusRoles DEF RowsSettled, Settled
<1>10. JournalTypeOK /\ \A k \in Key \ {d, a} : event[k] = NoEvent
  <2>1. /\ [type |-> "DEPOSIT", from |-> 1, quantity |-> stock] \in EventRow
        /\ [type |-> "APPROVED", from |-> 1, quantity |-> stock] \in EventRow
    BY <1>1, BoundsAssumption DEF EventRow, EventType
  <2>2. /\ event = [k \in Key |-> event[k]]
        /\ event[d] = [type |-> "DEPOSIT", from |-> 1, quantity |-> stock]
        /\ event[a] = [type |-> "APPROVED", from |-> 1, quantity |-> stock]
        /\ \A k \in Key \ {d, a} : event[k] = NoEvent
    BY DEF Stocked
  <2>4. \A k \in Key : event[k] \in EventRow \cup {NoEvent}
    BY <2>1, <2>2
  <2> QED
    BY <2>2, <2>4 DEF JournalTypeOK
<1> QED
  BY <1>1, <1>3, <1>6, <1>7, <1>8, <1>9, <1>10 DEF RowInv, LedgerInv

-----------------------------------------------------------------------------
(***************************************************************************)
(* Amounts.                                                                *)
(*                                                                         *)
(* Sums first: MapThenSumSet is a CHOOSE over functions on the subsets of  *)
(* a set; the lemmas down to AmountOfSame say what it computes, and are    *)
(* all that the rest uses of it.                                           *)
(***************************************************************************)

(* Every nonempty set of naturals has a least element.                    *)
LEMMA LeastNat ==
    ASSUME NEW S \in SUBSET Nat, S # {}
    PROVE  \E n \in S : \A m \in S : n <= m
<1>1. PICK n \in S : \A m \in S : <<m, n>> \notin OpToRel(<, Nat)
  BY NatLessThanWellFounded, WFMin
<1>2. SUFFICES ASSUME NEW m \in S PROVE n <= m
  OBVIOUS
<1>3. ~ (m < n)
  BY <1>1 DEF OpToRel
<1> QED
  BY <1>3

(* What MapThenSumSet computes on the subsets of a set: it takes the       *)
(* elements out one by one.                                                *)
First(s) == CHOOSE x \in s : TRUE

Adds(sum, table, ss) ==
    \A s \in ss : sum[s] = IF s = {} THEN 0
                           ELSE table[First(s)].quantity + sum[s \ {First(s)}]

Smaller(S, n) == {s \in SUBSET S : Cardinality(s) <= n}

(* One element out leaves one element less.                                *)
LEMMA FirstOf ==
    ASSUME NEW s, IsFiniteSet(s), s # {}
    PROVE  /\ First(s) \in s
           /\ IsFiniteSet(s \ {First(s)})
           /\ Cardinality(s \ {First(s)}) = Cardinality(s) - 1
           /\ Cardinality(s) \in Nat \ {0}
<1>1. First(s) \in s
  BY DEF First
<1> QED
  BY <1>1, FS_RemoveElement, FS_CardinalityType, FS_EmptySet

(* There is such a sum: by induction on the size of the subsets.           *)
LEMMA SumExists ==
    ASSUME NEW table, NEW S, IsFiniteSet(S), \A r \in S : table[r].quantity \in Int
    PROVE  \E sum \in [SUBSET S -> Int] : Adds(sum, table, SUBSET S)
<1> DEFINE Upto(n) == \E sum \in [Smaller(S, n) -> Int] : Adds(sum, table, Smaller(S, n))
<1>0. \A s \in SUBSET S : IsFiniteSet(s) /\ Cardinality(s) \in Nat
  BY FS_Subset, FS_CardinalityType
<1>1. Upto(0)
  <2>1. \A s \in Smaller(S, 0) : s = {}
    BY <1>0, FS_EmptySet DEF Smaller
  <2>2. Adds([s \in Smaller(S, 0) |-> 0], table, Smaller(S, 0))
    BY <2>1 DEF Adds
  <2> QED
    BY <2>2
<1>2. ASSUME NEW n \in Nat, Upto(n) PROVE Upto(n + 1)
  <2>1. PICK sum \in [Smaller(S, n) -> Int] : Adds(sum, table, Smaller(S, n))
    BY <1>2
  <2> DEFINE wider == [s \in Smaller(S, n + 1) |->
                          IF s = {} THEN 0
                          ELSE table[First(s)].quantity + sum[s \ {First(s)}]]
  <2>2. \A s \in Smaller(S, n + 1) : s # {} =>
            /\ First(s) \in S
            /\ s \ {First(s)} \in Smaller(S, n)
    <3> SUFFICES ASSUME NEW s \in Smaller(S, n + 1), s # {}
                 PROVE  First(s) \in S /\ s \ {First(s)} \in Smaller(S, n)
      OBVIOUS
    <3>1. /\ First(s) \in s /\ Cardinality(s \ {First(s)}) = Cardinality(s) - 1
          /\ Cardinality(s) \in Nat
      BY <1>0, FirstOf DEF Smaller
    <3> QED
      BY <3>1 DEF Smaller
  <2>3. wider \in [Smaller(S, n + 1) -> Int]
    BY <2>2
  <2>4. \A s \in Smaller(S, n) : s \in Smaller(S, n + 1) /\ wider[s] = sum[s]
    BY <1>0, <2>1 DEF Smaller, Adds
  <2>5. Adds(wider, table, Smaller(S, n + 1))
    BY <2>2, <2>4 DEF Adds
  <2> QED
    BY <2>3, <2>5
<1> HIDE DEF Upto
<1>3. \A n \in Nat : Upto(n)
  <2> DEFINE Bad == {n \in Nat : ~Upto(n)}
  <2>1. SUFFICES ASSUME Bad # {} PROVE FALSE
    OBVIOUS
  <2>2. PICK n \in Bad : \A m \in Bad : n <= m
    BY <2>1, LeastNat
  <2>3. n # 0 /\ n - 1 \in Nat /\ n - 1 \notin Bad
    BY <1>1, <2>2
  <2> QED
    BY <1>2, <2>2, <2>3
<1>4. Smaller(S, Cardinality(S)) = SUBSET S
  BY <1>0, FS_Subset DEF Smaller
<1>5. Upto(Cardinality(S))
  BY <1>0, <1>3
<1> QED
  BY <1>4, <1>5 DEF Upto

(* Only the quantities of the elements matter.                             *)
LEMMA SumUnique ==
    ASSUME NEW table, NEW other, NEW S, IsFiniteSet(S),
           \A r \in S : table[r].quantity = other[r].quantity,
           NEW a, Adds(a, table, SUBSET S), NEW b, Adds(b, other, SUBSET S),
           NEW s \in SUBSET S
    PROVE  a[s] = b[s]
<1> DEFINE Differ == {t \in SUBSET S : a[t] # b[t]}
           sizes == {Cardinality(t) : t \in Differ}
<1>1. SUFFICES ASSUME Differ # {} PROVE FALSE
  OBVIOUS
<1>2. \A t \in SUBSET S : IsFiniteSet(t) /\ Cardinality(t) \in Nat
  BY FS_Subset, FS_CardinalityType
<1>3. PICK n \in sizes : \A m \in sizes : n <= m
  <2>1. sizes \in SUBSET Nat /\ sizes # {}
    BY <1>1, <1>2
  <2> QED
    BY <2>1, LeastNat
<1>4. PICK t \in Differ : n = Cardinality(t)
  OBVIOUS
<1>5. CASE t = {}
  BY <1>5 DEF Adds
<1>6. CASE t # {}
  <2>1. /\ First(t) \in t /\ Cardinality(t \ {First(t)}) = Cardinality(t) - 1
        /\ Cardinality(t) \in Nat
    BY <1>2, <1>6, FirstOf
  <2>2. Cardinality(t \ {First(t)}) \notin sizes
    BY <1>3, <1>4, <2>1
  <2>3. a[t \ {First(t)}] = b[t \ {First(t)}]
    BY <2>2
  <2>4. /\ a[t] = table[First(t)].quantity + a[t \ {First(t)}]
        /\ b[t] = other[First(t)].quantity + b[t \ {First(t)}]
    BY <1>6 DEF Adds
  <2> QED
    BY <2>1, <2>3, <2>4
<1> QED
  BY <1>5, <1>6

(* Amount is such a sum on every subset of a finite set.                   *)
LEMMA AmountAdds ==
    ASSUME NEW table, NEW S, IsFiniteSet(S), \A r \in S : table[r].quantity \in Int
    PROVE  \E sum \in [SUBSET S -> Int] :
               /\ Adds(sum, table, SUBSET S)
               /\ \A s \in SUBSET S : Amount(table, s) = sum[s]
<1>1. PICK sum \in [SUBSET S -> Int] : Adds(sum, table, SUBSET S)
  BY SumExists
<1>2. ASSUME NEW s \in SUBSET S PROVE Amount(table, s) = sum[s]
  <2> DEFINE Is(g) == g = [t \in SUBSET s |->
                         IF t = {} THEN 0
                         ELSE table[CHOOSE x \in t : TRUE].quantity
                                + g[t \ {CHOOSE x \in t : TRUE}]]
             it == CHOOSE g : Is(g)
  <2>1. Amount(table, s) = it[s]
    BY DEF Amount, MapThenSumSet, MapThenFoldSet
  <2>2. IsFiniteSet(s) /\ \A r \in s : table[r].quantity \in Int
    BY FS_Subset
  <2>3. PICK g \in [SUBSET s -> Int] : Adds(g, table, SUBSET s)
    BY <2>2, SumExists
  <2>4. Is(g)
    BY <2>3 DEF Adds, First
  <2>5. Is(it)
    BY <2>4
  <2> HIDE DEF it
  <2>6. Adds(it, table, SUBSET s)
    BY <2>5 DEF Adds, First
  <2>7. Adds(sum, table, SUBSET s)
    BY <1>1 DEF Adds
  <2>8. it[s] = sum[s]
    BY <2>2, <2>6, <2>7, SumUnique
  <2> QED
    BY <2>1, <2>8
<1> QED
  BY <1>1, <1>2

(* No rows stand for nothing.                                              *)
LEMMA AmountOfNone == ASSUME NEW table PROVE Amount(table, {}) = 0
<1>1. IsFiniteSet({})
  BY FS_EmptySet
<1> QED
  BY <1>1, AmountAdds DEF Adds

(* One more row adds its quantity, wherever CHOOSE takes it out.           *)
LEMMA AmountOfMore ==
    ASSUME NEW table, NEW S, IsFiniteSet(S), \A r \in S : table[r].quantity \in Int,
           NEW x, x \notin S, table[x].quantity \in Int
    PROVE  /\ Amount(table, S) \in Int
           /\ Amount(table, S \cup {x}) = Amount(table, S) + table[x].quantity
<1> DEFINE U == S \cup {x}
<1>1. IsFiniteSet(U) /\ \A r \in U : table[r].quantity \in Int
  BY FS_AddElement
<1>2. PICK sum \in [SUBSET U -> Int] :
               /\ Adds(sum, table, SUBSET U)
               /\ \A s \in SUBSET U : Amount(table, s) = sum[s]
  BY <1>1, AmountAdds
<1> HIDE DEF U
<1> DEFINE Good(s) == \A y \in U \ s : sum[s \cup {y}] = sum[s] + table[y].quantity
           Bad == {s \in SUBSET U : ~Good(s)}
           sizes == {Cardinality(s) : s \in Bad}
<1>3. \A s \in SUBSET U : IsFiniteSet(s) /\ Cardinality(s) \in Nat
  BY <1>1, FS_Subset, FS_CardinalityType
<1>4. ASSUME NEW s \in SUBSET U,
             \A t \in SUBSET U : Cardinality(t) < Cardinality(s) => Good(t)
      PROVE  Good(s)
  <2> SUFFICES ASSUME NEW y \in U \ s
               PROVE  sum[s \cup {y}] = sum[s] + table[y].quantity
    OBVIOUS
  <2>1. PICK w \in SUBSET U : w = s \cup {y}
    OBVIOUS
  <2>2. PICK z \in w : sum[w] = table[z].quantity + sum[w \ {z}]
    <3>1. First(w) \in w
      BY <1>3, <2>1, FirstOf
    <3> QED
      BY <1>2, <2>1, <3>1 DEF Adds
  <2>3. CASE z = y
    <3>1. w \ {z} = s
      BY <2>1, <2>3
    <3>2. sum[s] \in Int /\ table[y].quantity \in Int
      BY <1>1, <1>2
    <3>3. sum[w] = table[y].quantity + sum[s]
      BY <2>2, <2>3, <3>1
    <3> QED
      BY <2>1, <3>2, <3>3
  <2>4. CASE z # y
    <3>1. PICK t \in SUBSET U : t = s \ {z}
      OBVIOUS
    <3>2. /\ z \in s /\ z \in U \ t /\ y \in U \ t
          /\ w \ {z} = t \cup {y} /\ s = t \cup {z}
      BY <2>1, <2>4, <3>1
    <3>3. Cardinality(t) < Cardinality(s)
      <4>1. Cardinality(t) = Cardinality(s) - 1
        BY <1>3, <3>1, <3>2, FS_RemoveElement
      <4> QED
        BY <1>3, <4>1
    <3>4. Good(t)
      BY <1>4, <3>3
    <3>5. /\ sum[w \ {z}] = sum[t] + table[y].quantity
          /\ sum[s] = sum[t] + table[z].quantity
      BY <3>2, <3>4
    <3>6. sum[t] \in Int /\ table[z].quantity \in Int /\ table[y].quantity \in Int
      BY <1>1, <1>2, <3>2
    <3> QED
      BY <2>1, <2>2, <3>5, <3>6
  <2> QED
    BY <2>3, <2>4
<1> HIDE DEF Good
<1>5. \A s \in SUBSET U : Good(s)
  <2>1. SUFFICES ASSUME Bad # {} PROVE FALSE
    OBVIOUS
  <2>2. sizes \in SUBSET Nat /\ sizes # {}
    BY <1>3, <2>1
  <2>3. PICK n \in sizes : \A m \in sizes : n <= m
    BY <2>2, LeastNat
  <2>4. PICK s \in Bad : n = Cardinality(s)
    OBVIOUS
  <2>5. \A t \in SUBSET U : Cardinality(t) < Cardinality(s) => Good(t)
    <3> SUFFICES ASSUME NEW t \in SUBSET U, Cardinality(t) < Cardinality(s), ~Good(t)
                 PROVE  FALSE
      OBVIOUS
    <3>1. n <= Cardinality(t)
      BY <2>3
    <3> QED
      BY <1>3, <2>4, <3>1
  <2> QED
    BY <1>4, <2>5
<1>6. S \in SUBSET U /\ x \in U \ S /\ U = S \cup {x} /\ U \in SUBSET U
  BY DEF U
<1>7. sum[U] = sum[S] + table[x].quantity
  BY <1>5, <1>6 DEF Good
<1> QED
  BY <1>2, <1>6, <1>7

(* Rows of the same quantities stand for the same amount.                  *)
LEMMA AmountOfSame ==
    ASSUME NEW table, NEW other, NEW S, IsFiniteSet(S),
           \A r \in S : table[r].quantity \in Int /\ other[r].quantity = table[r].quantity
    PROVE  Amount(other, S) = Amount(table, S)
<1>1. PICK a \in [SUBSET S -> Int] :
           Adds(a, table, SUBSET S) /\ \A s \in SUBSET S : Amount(table, s) = a[s]
  BY AmountAdds
<1>2. PICK b \in [SUBSET S -> Int] :
           Adds(b, other, SUBSET S) /\ \A s \in SUBSET S : Amount(other, s) = b[s]
  BY AmountAdds
<1>3. a[S] = b[S]
  BY <1>1, <1>2, SumUnique
<1> QED
  BY <1>1, <1>2, <1>3

(* Taking a row out of the sum.                                            *)
LEMMA AmountWithout ==
    ASSUME NEW table, NEW S, IsFiniteSet(S), \A r \in S : table[r].quantity \in Int,
           NEW x, NEW T, T = S \ {x}
    PROVE  /\ Amount(table, S) \in Int /\ Amount(table, T) \in Int
           /\ x \in S => Amount(table, S) = Amount(table, T) + table[x].quantity
           /\ x \notin S => Amount(table, S) = Amount(table, T)
<1>1. IsFiniteSet(T) /\ \A r \in T : table[r].quantity \in Int
  BY FS_RemoveElement
<1>2. CASE x \in S
  <2>1. S = T \cup {x} /\ x \notin T /\ table[x].quantity \in Int
    BY <1>2
  <2>2. Amount(table, T) \in Int /\ Amount(table, S) = Amount(table, T) + table[x].quantity
    BY <1>1, <2>1, AmountOfMore
  <2> QED
    BY <1>2, <2>1, <2>2
<1>3. CASE x \notin S
  <2>1. PICK a \in [SUBSET S -> Int] :
             Adds(a, table, SUBSET S) /\ \A s \in SUBSET S : Amount(table, s) = a[s]
    BY AmountAdds
  <2>2. Amount(table, S) \in Int
    BY <2>1
  <2>3. T = S
    BY <1>3
  <2> QED
    BY <1>3, <2>2, <2>3
<1> QED
  BY <1>2, <1>3

(* Goods are never negative.                                               *)
LEMMA AmountIsNat ==
    ASSUME NEW table, NEW S, IsFiniteSet(S), \A r \in S : table[r].quantity \in Nat
    PROVE  Amount(table, S) \in Nat
<1> DEFINE Bad == {s \in SUBSET S : Amount(table, s) \notin Nat}
           sizes == {Cardinality(s) : s \in Bad}
<1>1. SUFFICES ASSUME Bad # {} PROVE FALSE
  OBVIOUS
<1>2. \A s \in SUBSET S : IsFiniteSet(s) /\ Cardinality(s) \in Nat
  BY FS_Subset, FS_CardinalityType
<1>3. PICK n \in sizes : \A m \in sizes : n <= m
  <2>1. sizes \in SUBSET Nat /\ sizes # {}
    BY <1>1, <1>2
  <2> QED
    BY <2>1, LeastNat
<1>4. PICK s \in Bad : n = Cardinality(s)
  OBVIOUS
<1>5. s # {}
  BY AmountOfNone
<1>6. PICK x : x = First(s)
  OBVIOUS
<1>7. /\ x \in s /\ Cardinality(s \ {x}) = Cardinality(s) - 1
      /\ Cardinality(s) \in Nat
  BY <1>2, <1>5, <1>6, FirstOf
<1>8. s \ {x} \in SUBSET S /\ s \ {x} \notin Bad
  <2>1. Cardinality(s \ {x}) \notin sizes
    BY <1>3, <1>4, <1>7
  <2> QED
    BY <2>1
<1>9. Amount(table, s) = Amount(table, s \ {x}) + table[x].quantity
  BY <1>2, <1>7, AmountWithout
<1> QED
  BY <1>7, <1>8, <1>9

-----------------------------------------------------------------------------
(* What a tree of receipts holds in a group of statuses.  The operators    *)
(* take the table as a parameter, so a step is a fact about two tables.    *)
Part(table, n, statuses, l) ==
    {r \in 1..n : /\ table[r].root = l
                  /\ ~table[r].isParent
                  /\ table[r].status \in statuses}

Worth(table, n, statuses, l) == Amount(table, Part(table, n, statuses, l))

Counted(statuses, status, q) == IF status \in statuses THEN q ELSE 0

LEMMA PartIsFinite ==
    ASSUME NEW table, NEW n \in Nat, NEW statuses, NEW l
    PROVE  IsFiniteSet(Part(table, n, statuses, l))
<1>1. Part(table, n, statuses, l) \subseteq 1..n /\ IsFiniteSet(1..n)
  BY FS_Interval DEF Part
<1> QED
  BY <1>1, FS_Subset

(* What the amounts need of the table: its rows are typed and every root   *)
(* is at most as young as the receipts of its tree.                        *)
Descent ==
    \A r \in Minted :
        /\ receipt[r].root \in Minted /\ receipt[r].root <= r
        /\ IF receipt[r].parent = NoReceipt
           THEN receipt[r].root = r
           ELSE /\ receipt[r].parent \in Minted
                /\ receipt[r].root = receipt[receipt[r].parent].root
                /\ event[receipt[r].sourceEvent].from = receipt[r].parent

(* The rows that exist are typed, and a parent is a SPLIT receipt.         *)
TypedRows ==
    /\ minted \in Nat
    /\ \A r \in Minted : /\ r \in Nat /\ r \in Receipt
                         /\ receipt[r] \in Row
                         /\ receipt[r].quantity \in Nat
                         /\ receipt[r].quantity \in Int
                         /\ receipt[r].status \in Status
                         /\ receipt[r].root \in Receipt
                         /\ receipt[r].isParent <=> receipt[r].status = "SPLIT"

LEMMA MintedRows == LedgerInv => TypedRows
<1> SUFFICES ASSUME LedgerInv
             PROVE  TypedRows
  OBVIOUS
<1>1. minted \in Nat /\ Minted \subseteq Receipt
  BY BoundsAssumption DEF LedgerInv, TableTypeOK, Minted, Receipt
<1>2. \A r \in Minted : receipt[r] \in Row
  BY <1>1 DEF LedgerInv, TableTypeOK
<1> QED
  BY <1>1, <1>2 DEF TypedRows, Row, Minted, LedgerInv, TreeShape

(* The same of the next state.                                             *)
LEMMA NextRows == LedgerInv' => TypedRows'
<1>1. LedgerInv => TypedRows
  BY MintedRows
<1> QED
  BY <1>1, PTL

LEMMA WorthIsNat ==
    ASSUME TypedRows, NEW statuses, NEW l
    PROVE  Worth(receipt, minted, statuses, l) \in Nat
<1>1. \A r \in Part(receipt, minted, statuses, l) : receipt[r].quantity \in Nat
  BY DEF Part, TypedRows, Minted
<1> QED
  BY <1>1, PartIsFinite, AmountIsNat DEF Worth, TypedRows

LEMMA NextWorthIsNat ==
    ASSUME TypedRows', NEW statuses, NEW l
    PROVE  Worth(receipt', minted', statuses, l) \in Nat
<1>1. \A r \in Part(receipt', minted', statuses, l) : receipt'[r].quantity \in Nat
  BY DEF Part, TypedRows, Minted
<1> QED
  BY <1>1, PartIsFinite, AmountIsNat DEF Worth, TypedRows

-----------------------------------------------------------------------------
(* What the shapes of a step do to the amounts.                            *)

(* A deposit adds its quantity to the goods of its tree that await         *)
(* approval; there was no such tree.                                       *)
LEMMA TakenInMoves ==
    ASSUME TypedRows, TypedRows', Descent, NEW k \in Key, TakenIn(k),
           NEW id \in Receipt, id = minted + 1, NEW statuses, NEW l
    PROVE  /\ Worth(receipt, minted, statuses, id) = 0
           /\ Worth(receipt', minted', statuses, l)
                = Worth(receipt, minted, statuses, l)
                    + IF l = id
                      THEN Counted(statuses, "PENDING_APPROVAL", receipt'[id].quantity)
                      ELSE 0
<1>1. /\ minted \in Nat /\ 1..minted' = 1..minted \cup {id} /\ id \notin 1..minted
      /\ \A r \in 1..minted : /\ receipt'[r] = receipt[r]
                              /\ receipt[r].quantity \in Int
                              /\ receipt[r].root # id
  BY DEF TypedRows, TakenIn, Untouched, Descent, Minted
<1>2. /\ receipt'[id].root = id /\ ~receipt'[id].isParent
      /\ receipt'[id].status = "PENDING_APPROVAL" /\ receipt'[id].quantity \in Int
  BY <1>1 DEF TakenIn, TypedRows, Minted
<1>3. Part(receipt, minted, statuses, id) = {}
  BY <1>1 DEF Part
<1> DEFINE new == Part(receipt', minted', statuses, l)
           old == Part(receipt, minted, statuses, l)
<1>4. /\ new \ {id} = old
      /\ id \in new <=> l = id /\ "PENDING_APPROVAL" \in statuses
  BY <1>1, <1>2 DEF Part
<1>5. IsFiniteSet(new) /\ IsFiniteSet(old)
  BY PartIsFinite DEF TypedRows
<1>6. \A r \in new : receipt'[r].quantity \in Int
  BY DEF TypedRows, Part, Minted
<1>7. Amount(receipt', old) = Amount(receipt, old)
  <2>1. \A r \in old : /\ receipt[r].quantity \in Int
                       /\ receipt'[r].quantity = receipt[r].quantity
    BY <1>1 DEF Part
  <2> HIDE DEF old
  <2> QED
    BY <1>5, <2>1, AmountOfSame
<1> HIDE DEF new, old
<1>8. /\ Amount(receipt', old) \in Int
      /\ id \in new => Amount(receipt', new) = Amount(receipt', old) + receipt'[id].quantity
      /\ id \notin new => Amount(receipt', new) = Amount(receipt', old)
  BY <1>4, <1>5, <1>6, AmountWithout
<1>9. Worth(receipt, minted, statuses, id) = 0
  BY <1>3, AmountOfNone DEF Worth
<1> QED
  BY <1>4, <1>7, <1>8, <1>9 DEF Worth, Counted, new, old

(* Ageing a leaf moves its quantity from the group of its old status to    *)
(* that of the new one.                                                    *)
LEMMA AgedMoves ==
    ASSUME TypedRows, TypedRows', NEW k \in Key, NEW r \in Minted, Aged(k, r),
           NEW statuses, NEW l
    PROVE  Worth(receipt', minted', statuses, l)
             = IF l = receipt[r].root /\ ~receipt[r].isParent
               THEN Worth(receipt, minted, statuses, l)
                      - Counted(statuses, receipt[r].status, receipt[r].quantity)
                      + Counted(statuses, receipt'[r].status, receipt[r].quantity)
               ELSE Worth(receipt, minted, statuses, l)
<1>1. /\ minted' = minted /\ r \in 1..minted
      /\ \A s \in 1..minted \ {r} : receipt'[s] = receipt[s]
      /\ receipt'[r].root = receipt[r].root
      /\ receipt'[r].quantity = receipt[r].quantity
      /\ receipt[r].quantity \in Int
  BY DEF Aged, Untouched, SameLineage, Minted, TypedRows
<1>2. receipt'[r].isParent = receipt[r].isParent
  <2>1. receipt'[r].status = "SPLIT" <=> receipt[r].status = "SPLIT"
    BY StatusRoles DEF Aged, Transition, HeldStatus
  <2>2. /\ receipt[r].isParent \in BOOLEAN /\ receipt'[r].isParent \in BOOLEAN
        /\ receipt[r].isParent <=> receipt[r].status = "SPLIT"
        /\ receipt'[r].isParent <=> receipt'[r].status = "SPLIT"
    BY <1>1 DEF TypedRows, Minted, Row
  <2> QED
    BY <2>1, <2>2
<1> DEFINE new == Part(receipt', minted', statuses, l)
           old == Part(receipt, minted, statuses, l)
           leaf == l = receipt[r].root /\ ~receipt[r].isParent
<1>3. /\ new \ {r} = old \ {r}
      /\ r \in old <=> leaf /\ receipt[r].status \in statuses
      /\ r \in new <=> leaf /\ receipt'[r].status \in statuses
  BY <1>1, <1>2 DEF Part
<1>4. /\ IsFiniteSet(old) /\ \A s \in old : receipt[s].quantity \in Int
      /\ IsFiniteSet(new) /\ \A s \in new : receipt'[s].quantity \in Int
  <2>1. IsFiniteSet(old) /\ IsFiniteSet(new)
    BY PartIsFinite DEF TypedRows
  <2>2. /\ \A s \in old : receipt[s].quantity \in Int
        /\ \A s \in new : receipt'[s].quantity \in Int
    BY DEF TypedRows, Part, Minted
  <2> QED
    BY <2>1, <2>2
<1>5. PICK kept : kept = old \ {r} /\ kept = new \ {r}
  BY <1>3
<1>6. Amount(receipt', kept) = Amount(receipt, kept)
  <2>1. \A s \in kept : /\ receipt[s].quantity \in Int
                        /\ receipt'[s].quantity = receipt[s].quantity
    BY <1>1, <1>5 DEF Part, TypedRows, Minted
  <2>2. IsFiniteSet(kept)
    BY <1>4, <1>5, FS_RemoveElement
  <2> QED
    BY <2>1, <2>2, AmountOfSame
<1> HIDE DEF new, old, leaf
<1>7. Amount(receipt', kept) \in Int
  BY <1>4, <1>5, AmountWithout
<1>8. /\ r \in new => Amount(receipt', new) = Amount(receipt', kept) + receipt'[r].quantity
      /\ r \notin new => Amount(receipt', new) = Amount(receipt', kept)
  BY <1>4, <1>5, AmountWithout
<1>9. /\ r \in old => Amount(receipt, old) = Amount(receipt, kept) + receipt[r].quantity
      /\ r \notin old => Amount(receipt, old) = Amount(receipt, kept)
  BY <1>4, <1>5, AmountWithout
<1>10. /\ Worth(receipt', minted', statuses, l) = Amount(receipt', new)
       /\ Worth(receipt, minted, statuses, l) = Amount(receipt, old)
  BY DEF Worth, new, old
<1>11. CASE leaf
  BY <1>1, <1>3, <1>6, <1>7, <1>8, <1>9, <1>10, <1>11 DEF Counted, leaf
<1>12. CASE ~leaf
  BY <1>3, <1>6, <1>8, <1>9, <1>10, <1>12 DEF leaf
<1> QED
  BY <1>11, <1>12

(* Splitting a leaf replaces it, in its tree, by its children a and b (b   *)
(* is the split receipt itself when there is one child).                   *)
LEMMA SplitMoves ==
    ASSUME TypedRows, TypedRows', NEW k \in Key, NEW r \in Minted, Superseded(k, r),
           NEW a \in Minted' \ Minted, NEW b \in {r} \cup (Minted' \ Minted),
           a # b, Minted' \ Minted \subseteq {a, b}, NEW statuses, NEW l
    PROVE  Worth(receipt', minted', statuses, l)
             = IF l = receipt[r].root
               THEN Worth(receipt, minted, statuses, l)
                      - Counted(statuses, receipt[r].status, receipt[r].quantity)
                      + Counted(statuses, receipt'[a].status, receipt'[a].quantity)
                      + (IF b = r THEN 0
                         ELSE Counted(statuses, receipt'[b].status, receipt'[b].quantity))
               ELSE Worth(receipt, minted, statuses, l)
<1>1. /\ 1..minted \subseteq 1..minted' /\ r \in 1..minted
      /\ a \in 1..minted' \ 1..minted /\ b \in 1..minted'
      /\ b # r => b \in 1..minted' \ 1..minted
      /\ 1..minted' \ 1..minted \subseteq {a, b}
  BY DEF TypedRows, Superseded, Minted
<1>2. /\ \A s \in 1..minted \ {r} : receipt'[s] = receipt[s]
      /\ ~receipt[r].isParent /\ receipt'[r].isParent
      /\ receipt[r].quantity \in Int
  BY <1>1, CarvingRoles, StatusRoles DEF Superseded, Untouched, TypedRows, Minted
<1>3. \A c \in 1..minted' \ 1..minted :
         /\ ~receipt'[c].isParent
         /\ receipt'[c].root = receipt[r].root
         /\ receipt'[c].quantity \in Int
  <2>1. \A c \in Minted' \ Minted : receipt'[c].status # "SPLIT"
    BY CarvingRoles, StatusRoles DEF Superseded
  <2> QED
    BY <2>1 DEF Superseded, BornOf, TypedRows, Minted
<1> DEFINE new == Part(receipt', minted', statuses, l)
           old == Part(receipt, minted, statuses, l)
           mine == l = receipt[r].root
<1>4. /\ IsFiniteSet(old) /\ \A s \in old : receipt[s].quantity \in Int
      /\ IsFiniteSet(new) /\ \A s \in new : receipt'[s].quantity \in Int
  <2>1. IsFiniteSet(old) /\ IsFiniteSet(new)
    BY PartIsFinite DEF TypedRows
  <2>2. /\ \A s \in old : receipt[s].quantity \in Int
        /\ \A s \in new : receipt'[s].quantity \in Int
    BY DEF TypedRows, Part, Minted
  <2> QED
    BY <2>1, <2>2
<1>5. /\ r \in old <=> mine /\ receipt[r].status \in statuses
      /\ a \in new <=> mine /\ receipt'[a].status \in statuses
      /\ b \in new <=> mine /\ receipt'[b].status \in statuses /\ b # r
  BY <1>1, <1>2, <1>3 DEF Part
<1>6. PICK twin, kept : /\ twin = new \ {a} /\ kept = twin \ {b}
                        /\ kept = old \ {r}
  <2>1. (new \ {a}) \ {b} = old \ {r}
    <3>1. \A s \in 1..minted \ {r} : s \in new <=> s \in old
      BY <1>1, <1>2 DEF Part
    <3>2. r \notin new
      BY <1>2 DEF Part
    <3>3. new \subseteq 1..minted' /\ old \subseteq 1..minted
      BY DEF Part
    <3> HIDE DEF new, old
    <3>4. a \notin 1..minted /\ (b = r \/ b \notin 1..minted)
      BY <1>1
    <3>5. \A s \in new : s = a \/ s = b \/ s \in 1..minted
      BY <1>1, <3>3
    <3> QED
      BY <3>1, <3>2, <3>3, <3>4, <3>5
  <2> QED
    BY <2>1
<1>7. Amount(receipt', kept) = Amount(receipt, kept)
  <2>1. \A s \in kept : /\ receipt[s].quantity \in Int
                        /\ receipt'[s].quantity = receipt[s].quantity
    BY <1>2, <1>6 DEF Part, TypedRows, Minted
  <2>2. IsFiniteSet(kept)
    BY <1>4, <1>6, FS_RemoveElement
  <2> QED
    BY <2>1, <2>2, AmountOfSame
<1> HIDE DEF new, old, mine
<1>8. /\ a \in new => Amount(receipt', new) = Amount(receipt', twin) + receipt'[a].quantity
      /\ a \notin new => Amount(receipt', new) = Amount(receipt', twin)
  BY <1>4, <1>6, AmountWithout
<1>9. /\ IsFiniteSet(twin) /\ \A s \in twin : receipt'[s].quantity \in Int
      /\ b \in twin <=> b \in new
  BY <1>4, <1>6, FS_RemoveElement
<1>10. /\ b \in twin => Amount(receipt', twin) = Amount(receipt', kept) + receipt'[b].quantity
       /\ b \notin twin => Amount(receipt', twin) = Amount(receipt', kept)
  BY <1>6, <1>9, AmountWithout
<1>11. Amount(receipt', kept) \in Int
  BY <1>6, <1>9, AmountWithout
<1>12. /\ r \in old => Amount(receipt, old) = Amount(receipt, kept) + receipt[r].quantity
       /\ r \notin old => Amount(receipt, old) = Amount(receipt, kept)
  <2>1. kept = old \ {r}
    BY <1>6
  <2>2. IsFiniteSet(old) /\ \A s \in old : receipt[s].quantity \in Int
    BY <1>4
  <2> QED
    BY <2>1, <2>2, AmountWithout
<1>13. /\ Worth(receipt', minted', statuses, l) = Amount(receipt', new)
       /\ Worth(receipt, minted, statuses, l) = Amount(receipt, old)
  BY DEF Worth, new, old
<1>14. CASE ~mine
  BY <1>5, <1>7, <1>8, <1>9, <1>10, <1>12, <1>13, <1>14 DEF mine
<1>15. CASE mine
  <2>1. /\ receipt'[a].quantity \in Int
        /\ b # r => receipt'[b].quantity \in Int
    BY <1>1, <1>3
  <2>2. Worth(receipt, minted, statuses, l)
           = Amount(receipt, kept)
               + Counted(statuses, receipt[r].status, receipt[r].quantity)
    BY <1>5, <1>7, <1>11, <1>12, <1>13, <1>15 DEF Counted
  <2>3. Amount(receipt', twin)
           = Amount(receipt', kept)
               + (IF b = r THEN 0
                  ELSE Counted(statuses, receipt'[b].status, receipt'[b].quantity))
    BY <1>5, <1>9, <1>10, <1>11, <1>15, <2>1 DEF Counted
  <2>4. /\ (IF b = r THEN 0
            ELSE Counted(statuses, receipt'[b].status, receipt'[b].quantity)) \in Int
        /\ Counted(statuses, receipt'[a].status, receipt'[a].quantity) \in Int
        /\ Counted(statuses, receipt[r].status, receipt[r].quantity) \in Int
    BY <1>2, <2>1 DEF Counted
  <2>5. Worth(receipt', minted', statuses, l)
           = Amount(receipt', twin)
               + Counted(statuses, receipt'[a].status, receipt'[a].quantity)
    BY <1>5, <1>8, <1>11, <1>13, <1>15, <2>3, <2>4 DEF Counted
  <2> QED
    BY <1>7, <1>11, <1>15, <2>2, <2>3, <2>4, <2>5 DEF mine
<1> QED
  BY <1>14, <1>15

(* A receipt is split into one child or two, which have its quantity, up   *)
(* to the rounding drift.                                                  *)
LEMMA TwoAtMost ==
    ASSUME LedgerInv, LedgerInv', NEW k \in Key, NEW r \in Minted, Superseded(k, r),
           NEW a \in Minted' \ Minted
    PROVE  \E b \in {r} \cup (Minted' \ Minted) :
              /\ a # b /\ Minted' \ Minted \subseteq {a, b}
              /\ b = r => receipt'[a].quantity - receipt[r].quantity \in 0..Drift
              /\ b # r => receipt'[a].quantity + receipt'[b].quantity
                             - receipt[r].quantity \in 0..Drift
<1> DEFINE born == Minted' \ Minted
<1>1. TypedRows /\ TypedRows'
  BY MintedRows, NextRows
<1>2. r \in Minted' /\ r \notin born
  BY <1>1 DEF Superseded, TypedRows, Minted
<1>3. receipt'[r].isParent /\ receipt'[r].quantity = receipt[r].quantity
  BY <1>1, <1>2 DEF Superseded, SameLineage, TypedRows
<1>4. Children(r)' = born
  <2>1. ~receipt[r].isParent
    BY <1>1, CarvingRoles, StatusRoles DEF Superseded, TypedRows
  <2>2. Children(r) = {}
    BY <2>1 DEF LedgerInv, SplitConservation, ConservedAt
  <2>3. \A c \in Minted : receipt'[c].parent # r
    BY <2>2 DEF Children, Superseded, Untouched, SameLineage
  <2>4. \A c \in born : receipt'[c].parent = r
    BY DEF Superseded, BornOf
  <2> QED
    BY <2>3, <2>4 DEF Children
<1>5. ConservedAt(r)'
  BY <1>2 DEF LedgerInv, SplitConservation
<1>6. \A c \in born : receipt'[c].quantity \in Int
  BY <1>1 DEF TypedRows
<1>7. 0 \in 0..Drift
  BY DEF Drift
<1>8. CASE \E c \in Minted' : /\ born = {c}
                             /\ receipt'[c].quantity = receipt'[r].quantity
  <2>1. born = {a} /\ receipt'[a].quantity = receipt'[r].quantity
    BY <1>8
  <2>2. receipt'[a].quantity - receipt[r].quantity = 0
    BY <1>3, <1>6, <2>1
  <2> QED
    BY <1>2, <1>7, <2>1, <2>2
<1>9. CASE \E c, d \in Minted' :
               /\ c # d /\ born = {c, d}
               /\ receipt'[c].quantity + receipt'[d].quantity
                     - receipt'[r].quantity \in 0..Drift
  <2>1. PICK c, d \in Minted' :
               /\ c # d /\ born = {c, d}
               /\ receipt'[c].quantity + receipt'[d].quantity
                     - receipt'[r].quantity \in 0..Drift
    BY <1>9
  <2>2. PICK b \in {c, d} : a # b
    BY <2>1
  <2>3. born = {a, b} /\ b # r
    BY <1>2, <2>1, <2>2
  <2>4. \/ a = c /\ b = d
        \/ a = d /\ b = c
    BY <2>1, <2>2, <2>3
  <2>5. receipt'[a].quantity + receipt'[b].quantity - receipt[r].quantity \in 0..Drift
    <3>1. receipt'[c].quantity \in Int /\ receipt'[d].quantity \in Int
      BY <1>6, <2>1
    <3>2. receipt'[c].quantity + receipt'[d].quantity - receipt[r].quantity \in 0..Drift
      BY <1>3, <2>1
    <3>3. CASE a = c /\ b = d
      BY <3>2, <3>3
    <3>4. CASE a = d /\ b = c
      <4>1. receipt'[d].quantity + receipt'[c].quantity
               = receipt'[c].quantity + receipt'[d].quantity
        BY <3>1
      <4> QED
        BY <3>1, <3>2, <3>4, <4>1, <1>1 DEF TypedRows, Drift
    <3> QED
      BY <2>4, <3>3, <3>4
  <2>6. b \in {r} \cup born /\ a # b
    BY <2>2, <2>3
  <2> QED
    BY <2>3, <2>5, <2>6
<1> QED
  BY <1>3, <1>4, <1>5, <1>8, <1>9 DEF ConservedAt

-----------------------------------------------------------------------------
(* Every receipt descends from the root of its tree.                       *)

LEMMA SourceStays ==
    ASSUME TypedRows, Descent, NEW k \in Key, NEW r, Journals(k, r),
           NEW s \in Minted, receipt[s].parent # NoReceipt
    PROVE  event'[receipt[s].sourceEvent].from = receipt[s].parent
<1>1. /\ receipt[s].sourceEvent \in Key
      /\ event[receipt[s].sourceEvent].from = receipt[s].parent
  BY DEF TypedRows, Descent, Row
<1> QED
  BY <1>1 DEF Journals, NoEvent

LEMMA StepKeepsDescent ==
    ASSUME RowInv, Descent, NEW k \in Key, LedgerStep(k)
    PROVE  Descent'
<1>1. TypedRows /\ LedgerInv /\ JournalTypeOK /\ RowsSettled
  BY MintedRows DEF RowInv
<1>2. CASE TakenIn(k)
  <2>1. /\ Minted' = Minted \cup {minted + 1} /\ minted + 1 \notin Minted
        /\ \A s \in Minted : receipt'[s] = receipt[s]
    BY <1>1, <1>2 DEF TakenIn, TypedRows, Minted, Untouched
  <2>2. \A s \in Minted : receipt[s].parent # NoReceipt =>
                             event'[receipt[s].sourceEvent].from = receipt[s].parent
    BY <1>1, <1>2, SourceStays DEF TakenIn
  <2>3. LET id == minted + 1
        IN  receipt'[id].root = id /\ receipt'[id].parent = NoReceipt /\ id <= id
    BY <1>1, <1>2 DEF TakenIn, TypedRows
  <2> QED
    BY <2>1, <2>2, <2>3 DEF Descent
<1>3. ASSUME NEW r \in Minted, Aged(k, r)
      PROVE  Descent'
  <2>1. /\ Minted' = Minted
        /\ \A s \in Minted : /\ receipt'[s].root = receipt[s].root
                             /\ receipt'[s].parent = receipt[s].parent
                             /\ receipt'[s].sourceEvent = receipt[s].sourceEvent
    BY <1>3 DEF Aged, Untouched, SameLineage, Minted
  <2>2. \A s \in Minted : receipt[s].parent # NoReceipt =>
                             event'[receipt[s].sourceEvent].from = receipt[s].parent
    BY <1>1, <1>3, SourceStays DEF Aged
  <2> QED
    BY <2>1, <2>2 DEF Descent
<1>4. ASSUME NEW r \in Minted, Superseded(k, r)
      PROVE  Descent'
  <2>1. \A s \in Minted : /\ s \in Minted'
                          /\ receipt'[s].root = receipt[s].root
                          /\ receipt'[s].parent = receipt[s].parent
                          /\ receipt'[s].sourceEvent = receipt[s].sourceEvent
    BY <1>1, <1>4 DEF Superseded, Untouched, SameLineage, Minted, TypedRows
  <2>2. \A s \in Minted : receipt[s].parent # NoReceipt =>
                             event'[receipt[s].sourceEvent].from = receipt[s].parent
    BY <1>1, <1>4, SourceStays DEF Superseded
  <2>3. \A s \in Minted :
           /\ receipt'[s].root \in Minted' /\ receipt'[s].root <= s
           /\ IF receipt'[s].parent = NoReceipt
              THEN receipt'[s].root = s
              ELSE /\ receipt'[s].parent \in Minted'
                   /\ receipt'[s].root = receipt'[receipt'[s].parent].root
                   /\ event'[receipt'[s].sourceEvent].from = receipt'[s].parent
    BY <2>1, <2>2 DEF Descent
  <2>4. \A c \in Minted' \ Minted :
           /\ receipt'[c].root = receipt[r].root /\ receipt'[c].parent = r
           /\ event'[receipt'[c].sourceEvent].from = r
           /\ receipt[r].root <= c /\ r # NoReceipt
    <3>1. \A c \in Minted' \ Minted : r < c /\ receipt[r].root <= r
                                      /\ r \in Int /\ receipt[r].root \in Int /\ c \in Int
      BY <1>1, <1>4, BoundsAssumption DEF Superseded, TypedRows, Minted, Descent, Receipt
    <3> QED
      BY <1>4, <3>1 DEF Superseded, BornOf, Journals, Minted, NoReceipt
  <2> QED
    BY <2>1, <2>3, <2>4 DEF Descent
<1> QED
  BY <1>1, <1>2, <1>3, <1>4, StepShapes

-----------------------------------------------------------------------------
(* The leaves of a tree hold what came in.                                 *)

(* A leaf is a receipt that is not SPLIT: every status counts.             *)
LEMMA LeavesAreWorth ==
    \A l : TypedRows => Amount(receipt, Leaves(l)) = Worth(receipt, minted, Status, l)
<1> SUFFICES ASSUME NEW l, TypedRows
             PROVE  Amount(receipt, Leaves(l)) = Worth(receipt, minted, Status, l)
  OBVIOUS
<1>1. Leaves(l) = Part(receipt, minted, Status, l)
  BY DEF TypedRows, Leaves, Part, Minted
<1> QED
  BY <1>1 DEF Worth

Splits(table, n, l) == {r \in 1..n : table[r].root = l /\ table[r].isParent}

(* LeavesReconcile over the operators of this module.                      *)
TreesBalance ==
    \A k \in Key : event[k].type = "DEPOSIT" =>
        Worth(receipt, minted, Status, event[k].from) - event[k].quantity
            \in 0 .. Drift * Cardinality(Splits(receipt, minted, event[k].from))

LEMMA BalanceIsReconcile == TypedRows => (TreesBalance <=> LeavesReconcile)
<1>1. \A l : Parents(l) = Splits(receipt, minted, l)
  BY DEF Parents, Splits, Minted
<1> QED
  BY <1>1, LeavesAreWorth DEF TreesBalance, LeavesReconcile

(* One more split allows one more unit of drift.                           *)
LEMMA DriftGrows ==
    ASSUME NEW x \in Int, NEW y \in Int, NEW n \in Nat,
           x \in 0 .. Drift * n, y - x \in 0..Drift
    PROVE  y \in 0 .. Drift * (n + 1)
<1>1. CASE Scale = 1
  BY <1>1 DEF Drift
<1>2. CASE Scale # 1
  BY <1>2 DEF Drift
<1> QED
  BY <1>1, <1>2

LEMMA SplitsAreFinite ==
    ASSUME NEW table, NEW n \in Nat, NEW l
    PROVE  /\ IsFiniteSet(Splits(table, n, l))
           /\ Cardinality(Splits(table, n, l)) \in Nat
<1>1. Splits(table, n, l) \subseteq 1..n /\ IsFiniteSet(1..n)
  BY FS_Interval DEF Splits
<1> QED
  BY <1>1, FS_Subset, FS_CardinalityType

(* A deposit, an update or a split of one tree keeps all trees in balance. *)
LEMMA TakenInKeepsBalance ==
    ASSUME TypedRows, TypedRows', Descent, EventsOfMinted, JournalTypeOK, TreesBalance,
           NEW k \in Key, TakenIn(k), NEW id \in Receipt, id = minted + 1
    PROVE  TreesBalance'
<1>1. /\ Minted' = Minted \cup {id} /\ id \notin Minted
      /\ \A s \in Minted : receipt'[s] = receipt[s]
      /\ receipt'[id].root = id /\ receipt'[id].status = "PENDING_APPROVAL"
      /\ ~receipt'[id].isParent
      /\ receipt'[id].quantity = event'[k].quantity /\ receipt'[id].quantity \in Int
      /\ \A s \in Minted : receipt[s].root # id
  BY DEF TakenIn, TypedRows, Untouched, Minted, Descent
<1>2. \A l : Splits(receipt', minted', l) = Splits(receipt, minted, l)
  BY <1>1 DEF Splits, Minted
<1>3. Splits(receipt, minted, id) = {}
  BY <1>1 DEF Splits, Minted
<1>4. "PENDING_APPROVAL" \in Status
  BY DEF Status
<1>5. Worth(receipt', minted', Status, id) = event'[k].quantity
  BY <1>1, <1>4, TakenInMoves DEF Counted
<1>6. \A l : l # id => Worth(receipt', minted', Status, l) = Worth(receipt, minted, Status, l)
  <2> SUFFICES ASSUME NEW l, l # id
               PROVE  Worth(receipt', minted', Status, l) = Worth(receipt, minted, Status, l)
    OBVIOUS
  <2>1. Worth(receipt, minted, Status, l) \in Int
    BY WorthIsNat
  <2> QED
    BY <2>1, TakenInMoves
<1> SUFFICES ASSUME NEW j \in Key, event'[j].type = "DEPOSIT"
             PROVE  Worth(receipt', minted', Status, event'[j].from) - event'[j].quantity
                      \in 0 .. Drift * Cardinality(Splits(receipt', minted', event'[j].from))
  BY DEF TreesBalance
<1>7. CASE j = k
  <2>1. /\ event'[j].from = id
        /\ Cardinality(Splits(receipt', minted', event'[j].from)) = 0
    BY <1>2, <1>3, <1>7, FS_EmptySet DEF TakenIn, Journals
  <2>2. Worth(receipt', minted', Status, event'[j].from) - event'[j].quantity = 0
    BY <1>1, <1>5, <1>7, <2>1
  <2>3. 0 \in 0 .. Drift * 0
    BY DEF Drift
  <2> QED
    BY <2>1, <2>2, <2>3
<1>8. CASE j # k
  <2>1. event'[j] = event[j]
    BY <1>8 DEF TakenIn, Journals
  <2>2. event[j].from \in Minted
    BY <2>1 DEF EventsOfMinted, NoEvent
  <2>3. event[j].from # id
    BY <1>1, <2>2
  <2>4. Worth(receipt, minted, Status, event[j].from) - event[j].quantity
            \in 0 .. Drift * Cardinality(Splits(receipt, minted, event[j].from))
    BY <2>1 DEF TreesBalance
  <2> QED
    BY <1>2, <1>6, <2>1, <2>3, <2>4
<1> QED
  BY <1>7, <1>8

LEMMA AgedKeepsBalance ==
    ASSUME TypedRows, TypedRows', TreesBalance,
           NEW k \in Key, NEW r \in Minted, Aged(k, r)
    PROVE  TreesBalance'
<1>1. \A l : Worth(receipt', minted', Status, l) = Worth(receipt, minted, Status, l)
  <2> SUFFICES ASSUME NEW l
               PROVE  Worth(receipt', minted', Status, l) = Worth(receipt, minted, Status, l)
    OBVIOUS
  <2>1. /\ Worth(receipt, minted, Status, l) \in Int /\ receipt[r].quantity \in Int
        /\ receipt[r].status \in Status /\ receipt'[r].status \in Status
    BY WorthIsNat DEF TypedRows, Aged, Minted
  <2> QED
    BY <2>1, AgedMoves DEF Counted
<1>2. \A l : Splits(receipt', minted', l) = Splits(receipt, minted, l)
  <2>1. receipt'[r].status = "SPLIT" <=> receipt[r].status = "SPLIT"
    BY StatusRoles DEF Aged, Transition, HeldStatus
  <2>2. /\ receipt[r].isParent <=> receipt[r].status = "SPLIT"
        /\ receipt'[r].isParent <=> receipt'[r].status = "SPLIT"
    BY DEF TypedRows, Aged, Minted
  <2>3. \A s \in Minted : /\ receipt'[s].root = receipt[s].root
                          /\ receipt'[s].isParent <=> receipt[s].isParent
    BY <2>1, <2>2 DEF Aged, Untouched, SameLineage, Minted
  <2>4. minted' = minted
    BY DEF Aged
  <2> QED
    BY <2>3, <2>4 DEF Splits, Minted
<1>3. \A j \in Key : event'[j].type = "DEPOSIT" => event'[j] = event[j]
  BY TransitionRoles DEF Aged, Journals
<1> QED
  BY <1>1, <1>2, <1>3 DEF TreesBalance

LEMMA SupersededKeepsBalance ==
    ASSUME LedgerInv, LedgerInv', JournalTypeOK, TreesBalance,
           NEW k \in Key, NEW r \in Minted, Superseded(k, r)
    PROVE  TreesBalance'
<1>0. TypedRows /\ TypedRows'
  BY MintedRows, NextRows
<1> DEFINE root == receipt[r].root
<1>1. PICK a \in Minted' \ Minted : TRUE
  BY DEF Superseded
<1>2. PICK b \in {r} \cup (Minted' \ Minted) :
              /\ a # b /\ Minted' \ Minted \subseteq {a, b}
              /\ b = r => receipt'[a].quantity - receipt[r].quantity \in 0..Drift
              /\ b # r => receipt'[a].quantity + receipt'[b].quantity
                             - receipt[r].quantity \in 0..Drift
  BY TwoAtMost
<1>3. /\ receipt[r].quantity \in Int /\ receipt[r].status \in Status
      /\ receipt'[a].quantity \in Int /\ receipt'[a].status \in Status
      /\ b # r => receipt'[b].quantity \in Int /\ receipt'[b].status \in Status
      /\ \A l : Worth(receipt, minted, Status, l) \in Int
  BY <1>0, WorthIsNat DEF TypedRows
<1>4. \A l : l # root => Worth(receipt', minted', Status, l) = Worth(receipt, minted, Status, l)
  BY <1>0, <1>2, SplitMoves
<1>5. Worth(receipt', minted', Status, root) - Worth(receipt, minted, Status, root) \in 0..Drift
  <2>1. Worth(receipt', minted', Status, root)
           = Worth(receipt, minted, Status, root) - receipt[r].quantity
               + receipt'[a].quantity
               + (IF b = r THEN 0
                  ELSE Counted(Status, receipt'[b].status, receipt'[b].quantity))
    BY <1>0, <1>2, <1>3, SplitMoves DEF Counted
  <2>2. CASE b = r
    BY <1>2, <1>3, <2>1, <2>2
  <2>3. CASE b # r
    BY <1>2, <1>3, <2>1, <2>3 DEF Counted
  <2> QED
    BY <2>2, <2>3
<1>6. /\ ~receipt[r].isParent /\ receipt'[r].isParent /\ receipt'[r].root = root
      /\ \A c \in Minted' \ Minted : ~receipt'[c].isParent
      /\ \A s \in Minted \ {r} : receipt'[s] = receipt[s]
      /\ Minted \subseteq Minted'
  <2>1. \A c \in Minted' \ Minted : receipt'[c].status # "SPLIT"
    BY CarvingRoles, StatusRoles DEF Superseded
  <2>2. Minted \subseteq Minted'
    BY <1>0 DEF Superseded, Minted, TypedRows
  <2> QED
    BY <1>0, <2>1, <2>2, CarvingRoles, StatusRoles
       DEF Superseded, TypedRows, SameLineage, Untouched
<1>7. \A l : l # root => Splits(receipt', minted', l) = Splits(receipt, minted, l)
  BY <1>6 DEF Splits, Minted
<1>8. /\ Splits(receipt', minted', root) = Splits(receipt, minted, root) \cup {r}
      /\ r \notin Splits(receipt, minted, root)
  BY <1>6 DEF Splits, Minted
<1>9. /\ Cardinality(Splits(receipt, minted, root)) \in Nat
      /\ Cardinality(Splits(receipt', minted', root))
            = Cardinality(Splits(receipt, minted, root)) + 1
  <2>1. /\ IsFiniteSet(Splits(receipt, minted, root))
        /\ Cardinality(Splits(receipt, minted, root)) \in Nat
    BY <1>0, SplitsAreFinite DEF TypedRows
  <2> HIDE DEF root
  <2> QED
    BY <1>8, <2>1, FS_AddElement
<1>10. \A j \in Key : event'[j].type = "DEPOSIT" => event'[j] = event[j]
  BY CarvingRoles DEF Superseded, Journals
<1> HIDE DEF root
<1> SUFFICES ASSUME NEW j \in Key, event'[j].type = "DEPOSIT"
             PROVE  Worth(receipt', minted', Status, event'[j].from) - event'[j].quantity
                      \in 0 .. Drift * Cardinality(Splits(receipt', minted', event'[j].from))
  BY DEF TreesBalance
<1>11. /\ event'[j] = event[j]
       /\ Worth(receipt, minted, Status, event[j].from) - event[j].quantity
              \in 0 .. Drift * Cardinality(Splits(receipt, minted, event[j].from))
  BY <1>10 DEF TreesBalance
<1>12. CASE event[j].from # root
  BY <1>4, <1>7, <1>11, <1>12
<1>13. CASE event[j].from = root
  <2> DEFINE q == event[j].quantity
             old == Worth(receipt, minted, Status, root)
             new == Worth(receipt', minted', Status, root)
             n == Cardinality(Splits(receipt, minted, root))
  <2>1. old \in Int /\ new \in Int /\ q \in Int
    <3>1. old \in Int /\ new \in Int
      BY <1>0, <1>3, NextWorthIsNat
    <3>2. q \in Int
      BY DEF JournalTypeOK, EventRow, NoEvent
    <3> QED
      BY <3>1, <3>2
  <2>2. old - q \in 0 .. Drift * n /\ new - old \in 0..Drift /\ n \in Nat
    BY <1>5, <1>9, <1>11, <1>13
  <2> HIDE DEF q, old, new, n
  <2>3. (new - q) - (old - q) \in 0..Drift /\ new - q \in Int /\ old - q \in Int
    BY <2>1, <2>2 DEF Drift
  <2>4. new - q \in 0 .. Drift * (n + 1)
    BY <2>2, <2>3, DriftGrows
  <2> QED
    BY <1>9, <1>11, <1>13, <2>4 DEF q, new, n
<1> QED
  BY <1>12, <1>13

(* The journal's invariant, the descent of the receipts and the balance of *)
(* the trees: together they survive every step.                            *)
StockInv == JournalInv /\ Descent /\ TreesBalance

LEMMA StepKeepsStock ==
    ASSUME StockInv, NEW k \in Key, LedgerStep(k)
    PROVE  Descent' /\ TreesBalance'
<1>1. /\ RowInv /\ LedgerInv /\ JournalTypeOK /\ RowsSettled /\ EventsOfMinted
      /\ Descent /\ TreesBalance
  BY DEF StockInv, JournalInv, SpendInv, RowInv
<1>2. LedgerInv' /\ Descent'
  BY <1>1, StepKeepsInv, StepKeepsDescent
<1>3. TypedRows /\ TypedRows'
  BY <1>1, <1>2, MintedRows, NextRows
<1>4. CASE TakenIn(k)
  <2>1. PICK id \in Receipt : id = minted + 1
    BY <1>2, <1>3, <1>4, BoundsAssumption
       DEF TakenIn, LedgerInv, TableTypeOK, Receipt, TypedRows
  <2> QED
    BY <1>1, <1>2, <1>3, <1>4, <2>1, TakenInKeepsBalance
<1>5. ASSUME NEW r \in Minted, Aged(k, r)
      PROVE  TreesBalance'
  BY <1>1, <1>3, <1>5, AgedKeepsBalance
<1>6. ASSUME NEW r \in Minted, Superseded(k, r)
      PROVE  TreesBalance'
  BY <1>1, <1>2, <1>6, SupersededKeepsBalance
<1> QED
  BY <1>1, <1>2, <1>4, <1>5, <1>6, StepShapes

(* In every reachable state every receipt descends from the root of its    *)
(* tree and every tree balances.                                           *)
THEOREM StockInvariance == LedgerSpec => []StockInv
<1>1. LedgerInit => Descent /\ TreesBalance
  <2> SUFFICES ASSUME LedgerInit
               PROVE  Descent /\ TreesBalance
    OBVIOUS
  <2>1. Minted = {} /\ \A k \in Key : event[k].type # "DEPOSIT"
    BY DEF LedgerInit, Minted, NoEvent
  <2> QED
    BY <2>1 DEF Descent, TreesBalance
<1>2. StockInv /\ [LedgerNext]_ledgerVars => Descent' /\ TreesBalance'
  <2>1. Descent /\ TreesBalance /\ UNCHANGED ledgerVars => Descent' /\ TreesBalance'
    BY DEF ledgerVars, Descent, TreesBalance, Minted
  <2> QED
    BY <2>1, StepKeepsStock DEF LedgerNext, StockInv
<1> QED
  BY <1>1, <1>2, JournalInvariance, PTL DEF LedgerSpec, StockInv

(* reconcileRoot, for every number of receipts, quantities and precision   *)
(* of the requests: the leaves of a tree hold what its deposit brought in, *)
(* up to one unit for each split of a rounding precision, and its lineage  *)
(* is one.                                                                 *)
THEOREM TreesAlwaysReconcile == LedgerSpec => []TreesReconcile
<1>1. StockInv => TreesReconcile
  <2> SUFFICES ASSUME StockInv
               PROVE  Lineage /\ LeavesReconcile
    BY DEF TreesReconcile
  <2>1. LedgerInv /\ Descent /\ TreesBalance
    BY DEF StockInv, JournalInv, SpendInv, RowInv
  <2>2. TypedRows
    BY <2>1, MintedRows
  <2>3. LeavesReconcile
    BY <2>1, <2>2, BalanceIsReconcile
  <2>4. \A r \in Minted : receipt[r].isParent <=> Children(r) # {}
    BY <2>1 DEF LedgerInv, SplitConservation, ConservedAt
  <2>5. Lineage
    BY <2>1, <2>2, <2>4 DEF Lineage, Descent, LedgerInv, TreeShape
  <2> QED
    BY <2>3, <2>5
<1> QED
  BY <1>1, StockInvariance, PTL

-----------------------------------------------------------------------------
(* The refinement: a part of CustodyStock is the worth of every tree in a  *)
(* group of statuses.                                                      *)

WorthOf(table, n, statuses) == [l \in Receipt |-> Worth(table, n, statuses, l)]

LEMMA PartsAreWorths ==
    \A statuses : PartOf(statuses) = WorthOf(receipt, minted, statuses)
<1>1. \A statuses, l : {r \in Leaves(l) : receipt[r].status \in statuses}
                          = Part(receipt, minted, statuses, l)
  BY DEF Leaves, Part, Minted
<1> QED
  BY <1>1 DEF PartOf, WorthOf, Worth

LEMMA NextPartsAreWorths ==
    \A statuses : PartOf(statuses)' = WorthOf(receipt', minted', statuses)
<1>1. \A statuses, l : {r \in Leaves(l)' : receipt'[r].status \in statuses}
                          = Part(receipt', minted', statuses, l)
  BY DEF Leaves, Part, Minted
<1> QED
  BY <1>1 DEF PartOf, WorthOf, Worth

LEMMA PartsAreAmounts ==
    ASSUME TypedRows, NEW statuses
    PROVE  /\ PartOf(statuses) \in [Receipt -> Nat]
           /\ \A l \in Receipt : /\ PartOf(statuses)[l] = Worth(receipt, minted, statuses, l)
                                 /\ PartOf(statuses)[l] \in Int
  BY PartsAreWorths, WorthIsNat DEF WorthOf

(* A leaf is at most what its tree holds in the group of its status.       *)
LEMMA LeafIsWithin ==
    ASSUME TypedRows, Descent, NEW r \in Minted, ~receipt[r].isParent,
           NEW statuses, receipt[r].status \in statuses
    PROVE  receipt[r].quantity <= PartOf(statuses)[receipt[r].root]
<1> DEFINE l == receipt[r].root
           part == Part(receipt, minted, statuses, l)
<1>1. r \in part /\ l \in Receipt /\ receipt[r].quantity \in Int
  BY DEF Part, TypedRows, Minted
<1>2. PICK others : others = part \ {r}
  OBVIOUS
<1>3. IsFiniteSet(part) /\ IsFiniteSet(others)
  BY <1>2, PartIsFinite, FS_RemoveElement DEF TypedRows
<1>4. \A s \in part : receipt[s].quantity \in Nat /\ receipt[s].quantity \in Int
  BY DEF Part, TypedRows, Minted
<1>5. Amount(receipt, others) \in Nat
  BY <1>2, <1>3, <1>4, AmountIsNat
<1> HIDE DEF part
<1>6. Amount(receipt, part) = Amount(receipt, others) + receipt[r].quantity
  BY <1>1, <1>2, <1>3, <1>4, AmountWithout
<1>7. PartOf(statuses)[l] = Amount(receipt, part)
  BY <1>1, PartsAreAmounts DEF Worth, part
<1> QED
  BY <1>1, <1>5, <1>6, <1>7

(* Goods that await approval are those of one deposit.                     *)
LEMMA PendingIsTheDeposit ==
    ASSUME TypedRows, RowsExplained, NEW r \in Minted,
           receipt[r].status = "PENDING_APPROVAL"
    PROVE  /\ receipt[r].root = r
           /\ PartOf({"PENDING_APPROVAL"})[r] = receipt[r].quantity
<1> DEFINE part == Part(receipt, minted, {"PENDING_APPROVAL"}, r)
<1>1. receipt[r].root = r /\ r \in Receipt /\ receipt[r].quantity \in Int
  BY DEF RowsExplained, Admitted, TypedRows
<1>2. part = {} \cup {r}
  BY <1>1 DEF Part, TypedRows, Minted, RowsExplained, Admitted
<1>3. IsFiniteSet({}) /\ Amount(receipt, {}) = 0
  BY FS_EmptySet, AmountOfNone
<1> HIDE DEF part
<1>4. Amount(receipt, part) = 0 + receipt[r].quantity
  BY <1>1, <1>2, <1>3, AmountOfMore
<1>5. PartOf({"PENDING_APPROVAL"})[r] = Amount(receipt, part)
  BY <1>1, PartsAreAmounts DEF Worth, part
<1> QED
  BY <1>1, <1>4, <1>5

(* q units more, q units less, as CustodyStock says it.                    *)
LEMMA PartMoves ==
    ASSUME TypedRows, NEW statuses, NEW l \in Receipt, NEW q \in Int,
           \A m \in Receipt \ {l} : Worth(receipt', minted', statuses, m)
                                      = Worth(receipt, minted, statuses, m)
    PROVE  /\ Worth(receipt', minted', statuses, l) = Worth(receipt, minted, statuses, l)
                => PartOf(statuses)' = PartOf(statuses)
           /\ Worth(receipt', minted', statuses, l) = Worth(receipt, minted, statuses, l) + q
                => PartOf(statuses)' = Goods!More(PartOf(statuses), l, q)
           /\ Worth(receipt', minted', statuses, l) = Worth(receipt, minted, statuses, l) - q
                => PartOf(statuses)' = Goods!Less(PartOf(statuses), l, q)
  BY PartsAreWorths, NextPartsAreWorths DEF WorthOf, Goods!More, Goods!Less

LEMMA NothingMore ==
    ASSUME TypedRows, NEW statuses, NEW l \in Receipt
    PROVE  Goods!More(PartOf(statuses), l, 0) = PartOf(statuses)
  BY PartsAreAmounts DEF Goods!More

(* Where the goods of an updated leaf go.                                  *)
LEMMA AgedParts ==
    ASSUME TypedRows, TypedRows', NEW k \in Key, NEW r \in Minted, Aged(k, r),
           NEW statuses
    PROVE  LET l == receipt[r].root
               q == receipt[r].quantity
               was == receipt[r].status \in statuses
               is == receipt'[r].status \in statuses
           IN  /\ receipt[r].isParent \/ (was /\ is) \/ (~was /\ ~is)
                     => PartOf(statuses)' = PartOf(statuses)
               /\ ~receipt[r].isParent /\ was /\ ~is
                     => PartOf(statuses)' = Goods!Less(PartOf(statuses), l, q)
               /\ ~receipt[r].isParent /\ ~was /\ is
                     => PartOf(statuses)' = Goods!More(PartOf(statuses), l, q)
<1> DEFINE l == receipt[r].root
           q == receipt[r].quantity
           was == receipt[r].status \in statuses
           is == receipt'[r].status \in statuses
<1>1. l \in Receipt /\ q \in Int /\ \A m : Worth(receipt, minted, statuses, m) \in Int
  BY WorthIsNat DEF TypedRows
<1>2. \A m \in Receipt \ {l} : Worth(receipt', minted', statuses, m)
                                 = Worth(receipt, minted, statuses, m)
  BY AgedMoves
<1>3. /\ receipt[r].isParent \/ (was /\ is) \/ (~was /\ ~is)
            => Worth(receipt', minted', statuses, l) = Worth(receipt, minted, statuses, l)
      /\ ~receipt[r].isParent /\ was /\ ~is
            => Worth(receipt', minted', statuses, l) = Worth(receipt, minted, statuses, l) - q
      /\ ~receipt[r].isParent /\ ~was /\ is
            => Worth(receipt', minted', statuses, l) = Worth(receipt, minted, statuses, l) + q
  BY <1>1, AgedMoves DEF Counted
<1> HIDE DEF l, q, was, is
<1>4. /\ receipt[r].isParent \/ (was /\ is) \/ (~was /\ ~is)
            => PartOf(statuses)' = PartOf(statuses)
      /\ ~receipt[r].isParent /\ was /\ ~is
            => PartOf(statuses)' = Goods!Less(PartOf(statuses), l, q)
      /\ ~receipt[r].isParent /\ ~was /\ is
            => PartOf(statuses)' = Goods!More(PartOf(statuses), l, q)
  BY <1>1, <1>2, <1>3, PartMoves
<1> QED
  BY <1>4 DEF l, q, was, is

(* Where the goods of a split leaf go: qa of its q units into the status   *)
(* of the part, the others into that of the rest.                          *)
LEMMA SplitParts ==
    ASSUME Scale = 1, LedgerInv, LedgerInv', NEW k \in Key, NEW r \in Minted,
           Superseded(k, r), NEW a \in Minted' \ Minted, NEW rest,
           \A b \in Minted' \ (Minted \cup {a}) : receipt'[b].status = rest,
           NEW statuses
    PROVE  LET l == receipt[r].root
               q == receipt[r].quantity
               qa == receipt'[a].quantity
               was == receipt[r].status \in statuses
               partIs == receipt'[a].status \in statuses
               restIs == rest \in statuses
           IN  /\ ~was /\ ~partIs /\ ~restIs => PartOf(statuses)' = PartOf(statuses)
               /\ was /\ ~partIs /\ restIs
                     => PartOf(statuses)' = Goods!Less(PartOf(statuses), l, qa)
               /\ was /\ ~partIs /\ ~restIs
                     => PartOf(statuses)' = Goods!Less(PartOf(statuses), l, q)
               /\ ~was /\ partIs /\ ~restIs
                     => PartOf(statuses)' = Goods!More(PartOf(statuses), l, qa)
               /\ ~was /\ ~partIs /\ restIs
                     => PartOf(statuses)' = Goods!More(PartOf(statuses), l, q - qa)
<1> DEFINE l == receipt[r].root
           q == receipt[r].quantity
           qa == receipt'[a].quantity
           was == receipt[r].status \in statuses
           partIs == receipt'[a].status \in statuses
           restIs == rest \in statuses
           old(m) == Worth(receipt, minted, statuses, m)
           new(m) == Worth(receipt', minted', statuses, m)
<1>1. TypedRows /\ TypedRows'
  BY MintedRows, NextRows
<1>2. PICK b \in {r} \cup (Minted' \ Minted) :
              /\ a # b /\ Minted' \ Minted \subseteq {a, b}
              /\ b = r => receipt'[a].quantity - receipt[r].quantity \in 0..Drift
              /\ b # r => receipt'[a].quantity + receipt'[b].quantity
                             - receipt[r].quantity \in 0..Drift
  BY TwoAtMost
<1>3. /\ l \in Receipt /\ q \in Int /\ qa \in Int
      /\ b # r => receipt'[b].quantity \in Int
      /\ \A m : old(m) \in Int
  BY <1>1, WorthIsNat DEF TypedRows
<1>4. \A m \in Receipt \ {l} : new(m) = old(m)
  BY <1>1, <1>2, SplitMoves
<1>5. new(l) = old(l) - Counted(statuses, receipt[r].status, q)
                 + Counted(statuses, receipt'[a].status, qa)
                 + (IF b = r THEN 0
                    ELSE Counted(statuses, receipt'[b].status, receipt'[b].quantity))
  BY <1>1, <1>2, SplitMoves
<1>6. (IF b = r THEN 0
       ELSE Counted(statuses, receipt'[b].status, receipt'[b].quantity))
          = IF restIs THEN q - qa ELSE 0
  <2>1. CASE b = r
    <3>1. q - qa = 0
      BY <1>2, <1>3, <2>1 DEF Drift
    <3> QED
      BY <2>1, <3>1
  <2>2. CASE b # r
    <3>1. receipt'[b].status = rest
      BY <1>2, <2>2
    <3>2. receipt'[b].quantity = q - qa
      BY <1>2, <1>3, <2>2 DEF Drift
    <3> QED
      BY <2>2, <3>1, <3>2 DEF Counted
  <2> QED
    BY <2>1, <2>2
<1> HIDE DEF l, old, new
<1>7. /\ ~was /\ ~partIs /\ ~restIs => new(l) = old(l)
      /\ was /\ ~partIs /\ restIs => new(l) = old(l) - qa
      /\ was /\ ~partIs /\ ~restIs => new(l) = old(l) - q
      /\ ~was /\ partIs /\ ~restIs => new(l) = old(l) + qa
      /\ ~was /\ ~partIs /\ restIs => new(l) = old(l) + (q - qa)
  BY <1>3, <1>5, <1>6 DEF Counted
<1>8. q - qa \in Int
  BY <1>3
<1> HIDE DEF q, qa, was, partIs, restIs
<1>9. /\ new(l) = old(l) => PartOf(statuses)' = PartOf(statuses)
      /\ \A d \in Int :
           /\ new(l) = old(l) + d => PartOf(statuses)' = Goods!More(PartOf(statuses), l, d)
           /\ new(l) = old(l) - d => PartOf(statuses)' = Goods!Less(PartOf(statuses), l, d)
  BY <1>1, <1>3, <1>4, PartMoves DEF old, new
<1>10. /\ ~was /\ ~partIs /\ ~restIs => PartOf(statuses)' = PartOf(statuses)
       /\ was /\ ~partIs /\ restIs
             => PartOf(statuses)' = Goods!Less(PartOf(statuses), l, qa)
       /\ was /\ ~partIs /\ ~restIs
             => PartOf(statuses)' = Goods!Less(PartOf(statuses), l, q)
       /\ ~was /\ partIs /\ ~restIs
             => PartOf(statuses)' = Goods!More(PartOf(statuses), l, qa)
       /\ ~was /\ ~partIs /\ restIs
             => PartOf(statuses)' = Goods!More(PartOf(statuses), l, q - qa)
  BY <1>3, <1>7, <1>8, <1>9
<1> QED
  BY <1>10 DEF l, q, qa, was, partIs, restIs

(* The groups of statuses that CustodyStock distinguishes share nothing.   *)
LEMMA GroupsAreApart ==
    ASSUME NEW status
    PROVE  /\ status = "ACTIVE" =>
                 status \notin {"PENDING_APPROVAL"} \cup HeldStatus
                     \cup {"WITHDRAWN", "SEIZED", "TRADED_OUT"} \cup {"EXPIRED", "CANCELLED"}
           /\ status = "PENDING_APPROVAL" =>
                 status \notin {"ACTIVE"} \cup HeldStatus
                     \cup {"WITHDRAWN", "SEIZED", "TRADED_OUT"} \cup {"EXPIRED", "CANCELLED"}
           /\ status \in HeldStatus =>
                 status \notin {"PENDING_APPROVAL", "ACTIVE"}
                     \cup {"WITHDRAWN", "SEIZED", "TRADED_OUT"} \cup {"EXPIRED", "CANCELLED"}
           /\ status \in {"WITHDRAWN", "SEIZED", "EXPIRED", "CANCELLED"} =>
                 status \notin {"PENDING_APPROVAL", "ACTIVE"} \cup HeldStatus
  BY DEF HeldStatus

(* Every receipt stands for something, and for no more than a deposit can. *)
Sized == \A r \in Minted : receipt[r].quantity \in 1..MaxQuantity

LEMMA StepKeepsSized ==
    ASSUME Scale = 1, RowInv, Sized, NEW k \in Key, LedgerStep(k)
    PROVE  Sized'
<1>1. LedgerInv /\ LedgerInv' /\ JournalTypeOK /\ RowsSettled
  BY StepKeepsInv DEF RowInv
<1>2. TypedRows /\ TypedRows' /\ MaxQuantity \in Nat
  BY <1>1, MintedRows, NextRows, BoundsAssumption
<1>3. CASE TakenIn(k)
  <2>1. \A s \in Minted' : s \in Minted \/ s = minted + 1
    BY <1>2, <1>3 DEF TakenIn, Minted, TypedRows
  <2> QED
    BY <1>3, <2>1 DEF TakenIn, Untouched, Sized
<1>4. ASSUME NEW r \in Minted, Aged(k, r)
      PROVE  Sized'
  BY <1>4 DEF Aged, Untouched, SameLineage, Sized, Minted
<1>5. ASSUME NEW r \in Minted, Superseded(k, r)
      PROVE  Sized'
  <2>1. \A s \in Minted : receipt'[s].quantity = receipt[s].quantity
    BY <1>5 DEF Superseded, Untouched, SameLineage
  <2>2. ASSUME NEW a \in Minted' \ Minted
        PROVE  receipt'[a].quantity \in 1..MaxQuantity
    <3>1. PICK b \in {r} \cup (Minted' \ Minted) :
              /\ a # b /\ Minted' \ Minted \subseteq {a, b}
              /\ b = r => receipt'[a].quantity - receipt[r].quantity \in 0..Drift
              /\ b # r => receipt'[a].quantity + receipt'[b].quantity
                             - receipt[r].quantity \in 0..Drift
      BY <1>1, <1>5, TwoAtMost
    <3>2. /\ receipt'[a].quantity \in Nat /\ receipt'[a].quantity > 0
          /\ b # r => receipt'[b].quantity \in Nat
          /\ receipt[r].quantity \in 1..MaxQuantity
      BY <1>2, <1>5 DEF TypedRows, Superseded, BornOf, Sized
    <3>3. receipt'[a].quantity <= receipt[r].quantity
      BY <3>1, <3>2 DEF Drift
    <3> QED
      BY <1>2, <3>2, <3>3
  <2> QED
    BY <2>1, <2>2 DEF Sized
<1> QED
  BY <1>1, <1>3, <1>4, <1>5, StepShapes

(* Each step moves goods as CustodyStock allows, or moves none.            *)
LEMMA TakenInMaps ==
    ASSUME Scale = 1, TypedRows, TypedRows', Descent, NEW k \in Key, TakenIn(k),
           NEW id \in Receipt, id = minted + 1
    PROVE  Goods!Next
<1> DEFINE q == receipt'[id].quantity
<1>1. q \in 1..MaxQuantity /\ q \in Int
  BY DEF TakenIn, TypedRows, Minted
<1>2. ASSUME NEW statuses
      PROVE  /\ PartOf(statuses)[id] = 0
             /\ "PENDING_APPROVAL" \in statuses
                   => PartOf(statuses)' = Goods!More(PartOf(statuses), id, q)
             /\ "PENDING_APPROVAL" \notin statuses => PartOf(statuses)' = PartOf(statuses)
  <2>1. PartOf(statuses)[id] = 0
    BY TakenInMoves, PartsAreAmounts
  <2>2. \A m : Worth(receipt, minted, statuses, m) \in Int
    BY WorthIsNat
  <2>3. \A m \in Receipt \ {id} : Worth(receipt', minted', statuses, m)
                                    = Worth(receipt, minted, statuses, m)
    BY <2>2, TakenInMoves
  <2>4. /\ "PENDING_APPROVAL" \in statuses
             => Worth(receipt', minted', statuses, id)
                   = Worth(receipt, minted, statuses, id) + q
        /\ "PENDING_APPROVAL" \notin statuses
             => Worth(receipt', minted', statuses, id) = Worth(receipt, minted, statuses, id)
    BY <1>1, <2>2, TakenInMoves DEF Counted
  <2> HIDE DEF q
  <2> QED
    BY <1>1, <2>1, <2>3, <2>4, PartMoves
<1> HIDE DEF q
<1>3. Goods!TakeIn(id, q)
  <2>1. Goods!Total(id) = 0
    BY <1>2 DEF Goods!Total
  <2>2. "PENDING_APPROVAL" \notin HeldStatus
    BY StatusRoles
  <2> QED
    BY <1>2, <2>1, <2>2 DEF Goods!TakeIn
<1> QED
  BY <1>1, <1>3 DEF Goods!Next, Goods!Quantity

LEMMA AgedMaps ==
    ASSUME TypedRows, TypedRows', Descent, Sized, RowsExplained,
           NEW k \in Key, NEW r \in Minted, Aged(k, r)
    PROVE  Goods!Next \/ UNCHANGED Goods!stockVars
<1> DEFINE l == receipt[r].root
           q == receipt[r].quantity
           old == receipt[r].status
           new == receipt'[r].status
<1>1. l \in Receipt /\ q \in 1..MaxQuantity /\ q \in Int
  BY DEF TypedRows, Sized
<1>2. receipt[r].isParent <=> old = "SPLIT"
  BY DEF TypedRows
<1>3. Transition(event'[k].type, old, new)
  BY DEF Aged
<1>4. CASE new = old \/ (old \in HeldStatus /\ new \in HeldStatus)
  <2>1. \A statuses \in {{"PENDING_APPROVAL"}, {"ACTIVE"}, HeldStatus,
                         {"WITHDRAWN", "SEIZED", "TRADED_OUT"}, {"EXPIRED", "CANCELLED"}} :
            PartOf(statuses)' = PartOf(statuses)
    BY <1>4, AgedParts, GroupsAreApart
  <2> QED
    BY <2>1 DEF Goods!stockVars
<1>5. CASE old = "PENDING_APPROVAL" /\ new = "ACTIVE"
  <2>1. Goods!Admit(r)
    BY <1>2, <1>5, AgedParts, PendingIsTheDeposit, GroupsAreApart DEF Goods!Admit
  <2> QED
    BY <2>1, <1>1 DEF Goods!Next, TypedRows
<1>6. CASE old = "PENDING_APPROVAL" /\ new = "CANCELLED"
  <2>1. Goods!Refuse(r)
    BY <1>2, <1>6, AgedParts, PendingIsTheDeposit, GroupsAreApart DEF Goods!Refuse
  <2> QED
    BY <2>1, <1>1 DEF Goods!Next, TypedRows
<1>7. CASE old \in HeldStatus /\ new = "ACTIVE"
  <2>1. q <= PartOf(HeldStatus)[l] /\ ~receipt[r].isParent
    BY <1>2, <1>7, LeafIsWithin DEF HeldStatus
  <2>2. q - 0 = q /\ 0 \in 0..q
    BY <1>1
  <2>3. Goods!Settle(l, q, 0)
    BY <1>1, <1>7, <2>1, <2>2, AgedParts, GroupsAreApart, NothingMore DEF Goods!Settle
  <2> QED
    BY <1>1, <2>2, <2>3 DEF Goods!Next, Goods!Quantity
<1>8. CASE old \in HeldStatus /\ new \in {"WITHDRAWN", "SEIZED"}
  <2>1. q <= PartOf(HeldStatus)[l] /\ ~receipt[r].isParent
    BY <1>2, <1>8, LeafIsWithin DEF HeldStatus
  <2>2. q - q = 0 /\ q \in 0..q
    BY <1>1
  <2>3. Goods!Settle(l, q, q)
    BY <1>1, <1>8, <2>1, <2>2, AgedParts, GroupsAreApart, NothingMore DEF Goods!Settle
  <2> QED
    BY <1>1, <2>2, <2>3 DEF Goods!Next, Goods!Quantity
<1>9. CASE old = "ACTIVE" /\ new = "EXPIRED"
  <2>1. q <= PartOf({"ACTIVE"})[l] /\ ~receipt[r].isParent
    BY <1>2, <1>9, LeafIsWithin
  <2>2. Goods!Lapse(l, q)
    BY <1>1, <1>9, <2>1, AgedParts, GroupsAreApart DEF Goods!Lapse
  <2> QED
    BY <1>1, <2>2 DEF Goods!Next, Goods!Quantity
<1> QED
  BY <1>3, <1>4, <1>5, <1>6, <1>7, <1>8, <1>9 DEF Transition

LEMMA SupersededMaps ==
    ASSUME Scale = 1, LedgerInv, LedgerInv', Descent, Sized, Sized',
           NEW k \in Key, NEW r \in Minted, Superseded(k, r)
    PROVE  Goods!Next
<1> DEFINE l == receipt[r].root
           q == receipt[r].quantity
           old == receipt[r].status
<1>1. TypedRows /\ TypedRows'
  BY MintedRows, NextRows
<1>2. PICK part \in Status, rest \in Status, a \in Minted' \ Minted :
          /\ Carving(event'[k].type, old, part, rest)
          /\ receipt'[a].status = part
          /\ \A b \in Minted' \ (Minted \cup {a}) : receipt'[b].status = rest
  BY DEF Superseded
<1> DEFINE qa == receipt'[a].quantity
<1>3. qa <= q
  BY <1>1, TwoAtMost DEF Drift, TypedRows
<1>4. /\ l \in Receipt /\ q \in 1..MaxQuantity /\ q \in Int
      /\ qa \in 1..MaxQuantity /\ qa \in Int
  BY <1>1 DEF TypedRows, Sized
<1>5. ~receipt[r].isParent
  BY <1>1, <1>2, CarvingRoles, StatusRoles DEF TypedRows
<1>6. \A statuses : old \in statuses => qa <= PartOf(statuses)[l]
                                        /\ q <= PartOf(statuses)[l]
  <2> SUFFICES ASSUME NEW statuses, old \in statuses
               PROVE  qa <= PartOf(statuses)[l] /\ q <= PartOf(statuses)[l]
    OBVIOUS
  <2>1. q <= PartOf(statuses)[l] /\ PartOf(statuses)[l] \in Int
    BY <1>1, <1>4, <1>5, LeafIsWithin, PartsAreAmounts
  <2> QED
    BY <1>3, <1>4, <2>1
<1> HIDE DEF l, q, qa, old
<1>7. \A statuses :
         /\ old \notin statuses /\ part \notin statuses /\ rest \notin statuses
               => PartOf(statuses)' = PartOf(statuses)
         /\ old \in statuses /\ part \notin statuses /\ rest \in statuses
               => PartOf(statuses)' = Goods!Less(PartOf(statuses), l, qa)
         /\ old \in statuses /\ part \notin statuses /\ rest \notin statuses
               => PartOf(statuses)' = Goods!Less(PartOf(statuses), l, q)
         /\ old \notin statuses /\ part \in statuses /\ rest \notin statuses
               => PartOf(statuses)' = Goods!More(PartOf(statuses), l, qa)
         /\ old \notin statuses /\ part \notin statuses /\ rest \in statuses
               => PartOf(statuses)' = Goods!More(PartOf(statuses), l, q - qa)
  BY <1>2, SplitParts DEF l, q, qa, old
<1>8. CASE old = "ACTIVE" /\ part \in HeldStatus /\ rest = "ACTIVE"
  <2>1. Goods!Reserve(l, qa)
    BY <1>2, <1>6, <1>7, <1>8, GroupsAreApart DEF Goods!Reserve
  <2> QED
    BY <1>4, <2>1 DEF Goods!Next, Goods!Quantity
<1>9. CASE old \in HeldStatus /\ part = "ACTIVE" /\ rest = old
  <2>1. qa - 0 = qa /\ 0 \in 0..qa
    BY <1>4
  <2>2. Goods!Settle(l, qa, 0)
    BY <1>1, <1>2, <1>4, <1>6, <1>7, <1>9, <2>1, GroupsAreApart, NothingMore
       DEF Goods!Settle
  <2> QED
    BY <1>4, <2>1, <2>2 DEF Goods!Next, Goods!Quantity
<1>10. CASE old \in HeldStatus /\ part = "SEIZED" /\ rest = "ACTIVE"
  <2>1. qa \in 0..q
    BY <1>3, <1>4
  <2>2. Goods!Settle(l, q, qa)
    BY <1>2, <1>6, <1>7, <1>10, GroupsAreApart DEF Goods!Settle
  <2> QED
    BY <1>4, <2>1, <2>2 DEF Goods!Next, Goods!Quantity
<1> QED
  BY <1>2, <1>8, <1>9, <1>10 DEF Carving

(* Receipts, splits, keys and retries implement CustodyStock when requests *)
(* carry no more digits than the column keeps: every primitive takes in,   *)
(* admits, refuses, reserves, settles or writes off goods of one lot, or   *)
(* moves none.  (With rounding a split creates goods: Drift.)              *)
THEOREM LedgerImplementsStock ==
    ASSUME Scale = 1
    PROVE  LedgerSpec => ImplementsStock
<1>1. LedgerInit => Goods!Init /\ Sized
  <2> SUFFICES ASSUME LedgerInit
               PROVE  Goods!Init /\ Sized
    OBVIOUS
  <2>1. minted = 0 /\ Minted = {}
    BY DEF LedgerInit, Minted
  <2>2. \A statuses, l : Part(receipt, minted, statuses, l) = {}
    BY <2>1 DEF Part
  <2>3. \A statuses : PartOf(statuses) = [l \in Receipt |-> 0]
    BY <2>2, PartsAreWorths, AmountOfNone DEF WorthOf, Worth
  <2> QED
    BY <2>1, <2>3 DEF Goods!Init, Sized
<1>2. StockInv /\ Sized /\ [LedgerNext]_ledgerVars
          => Sized' /\ [Goods!Next]_(Goods!stockVars)
  <2> SUFFICES ASSUME StockInv, Sized, [LedgerNext]_ledgerVars
               PROVE  Sized' /\ (Goods!Next \/ UNCHANGED Goods!stockVars)
    OBVIOUS
  <2>1. /\ RowInv /\ LedgerInv /\ JournalTypeOK /\ RowsSettled /\ RowsExplained
        /\ Descent
    BY DEF StockInv, JournalInv, SpendInv, RowInv
  <2>2. CASE UNCHANGED ledgerVars
    <3>1. receipt' = receipt /\ minted' = minted
      BY <2>2 DEF ledgerVars
    <3>2. \A statuses : PartOf(statuses)' = PartOf(statuses)
      BY <3>1, PartsAreWorths, NextPartsAreWorths
    <3> QED
      BY <3>1, <3>2 DEF Sized, Minted, Goods!stockVars
  <2>3. ASSUME NEW k \in Key, LedgerStep(k)
        PROVE  Sized' /\ (Goods!Next \/ UNCHANGED Goods!stockVars)
    <3>1. Sized' /\ LedgerInv'
      BY <2>1, <2>3, StepKeepsSized, StepKeepsInv
    <3>2. TypedRows /\ TypedRows'
      BY <2>1, <3>1, MintedRows, NextRows
    <3>3. CASE TakenIn(k)
      <4>1. PICK id \in Receipt : id = minted + 1
        BY <3>1, <3>2, <3>3, BoundsAssumption
           DEF TakenIn, LedgerInv, TableTypeOK, Receipt, TypedRows
      <4> QED
        BY <2>1, <3>1, <3>2, <3>3, <4>1, TakenInMaps
    <3>4. ASSUME NEW r \in Minted, Aged(k, r)
          PROVE  Goods!Next \/ UNCHANGED Goods!stockVars
      BY <2>1, <3>2, <3>4, AgedMaps
    <3>5. ASSUME NEW r \in Minted, Superseded(k, r)
          PROVE  Goods!Next
      BY <2>1, <3>1, <3>5, SupersededMaps
    <3> QED
      BY <2>1, <2>3, <3>1, <3>3, <3>4, <3>5, StepShapes
  <2> QED
    BY <2>2, <2>3 DEF LedgerNext
<1> QED
  BY <1>1, <1>2, StockInvariance, PTL DEF LedgerSpec, ImplementsStock, Goods!Spec
=============================================================================
