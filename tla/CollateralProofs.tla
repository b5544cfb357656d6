--------------------------- MODULE CollateralProofs ---------------------------
(***************************************************************************)
(* Theorems about pledges, liens and release requests, for any number of   *)
(* pledges, requests, lines and handlers: the goods of a pledge are given  *)
(* back once, a pledge or a lien that is over holds nothing.               *)
(*                                                                         *)
(* The proof rests on one fact of the ledger: at any time at most one      *)
(* receipt is held for a pledge, the child its hold placed or what the     *)
(* partial releases left of it.  Whoever releases that one ends the hold   *)
(* for good, and whoever finds its key in the journal knows it has ended.  *)
(***************************************************************************)
EXTENDS Collateral, InventoryLedgerProofs

RequestRow == [status : RequestStatus, lines : Lines]

(* What a handler remembers, operation by operation.                       *)
PickCall == [op : {"pledge"}, step : {"available", "hold"}, receiptId : Minted,
             quantity : Quantity]
BornCall == [op : {"pledge"}, step : {"insert"}, p : Pledge, held : Minted,
             receiptId : Minted, quantity : Quantity]
DeclineCall == [op : {"cancel", "reject"}, step : {"release", "update"}, p : Pledge]
AcceptCall == [op : {"accept"}, step : {"transition", "lien"}, p : Pledge]
RoundCall == [op : {"expire"}, step : {"release"}, todo : SUBSET Pledge]
ExpireCall == [op : {"expire"}, step : {"update"}, todo : SUBSET Pledge, p : Pledge]
AskCall == [op : {"ask"}, step : {"pending", "insert"}, lines : Lines,
            remaining : [Pledge -> 0..MaxQuantity]]
CloseCall == [op : {"withdraw", "refuse"}, step : {"update"}, q : ReleaseRequest]
LineCall == [op : {"approve"}, step : {"line", "update"}, q : ReleaseRequest,
             todo : SUBSET Line, seen : [Pledge -> LienRow \cup {NoLien}]]
NewLien == [status : LienStatus, remaining : 0..MaxQuantity,
            receiptId : Minted \cup {NoReceipt}]
LienCall == [op : {"approve"}, step : {"lien"}, q : ReleaseRequest, todo : SUBSET Line,
             seen : [Pledge -> LienRow \cup {NoLien}], p : Pledge, new : NewLien]
ForceCall == [op : {"force"}, step : {"release", "lien"}, p : Pledge, receiptId : Minted]

CallState == PickCall \cup BornCall \cup DeclineCall \cup AcceptCall \cup RoundCall
                 \cup ExpireCall \cup AskCall \cup CloseCall \cup LineCall
                 \cup LienCall \cup ForceCall \cup {Idle}

FlowTypeOK ==
    /\ pledge \in [Pledge -> PledgeRow \cup {NoPledge}]
    /\ lien \in [Pledge -> LienRow \cup {NoLien}]
    /\ request \in [ReleaseRequest -> RequestRow \cup {NoRequest}]
    /\ call \in [Call -> CallState]

-----------------------------------------------------------------------------
(* Receipt r belongs to pledge p; it is the child the hold of p placed.    *)
Own(r, p) == receipt[r].sourceTxn = p
Placed(r, p) == Own(r, p) /\ receipt[r].sourceEvent = CreateKey(p)

(* The goods of p are all given back.                                      *)
Freed(p) == Did(CreateKey(p)) /\ HeldUnder(p) = {}

Asked(p) == pledge[p] # NoPledge
HasLien(p) == lien[p] # NoLien
Wants(q, l) == request[q] # NoRequest /\ l \in DOMAIN request[q].lines
LienOf(q, l) == request[q].lines[l].lien

(* One receipt at most is held for p, and what is held and what was freed  *)
(* add up to what was pledged.                                             *)
GoodsSays(p) ==
    /\ \A r \in Minted :
          Own(r, p) \/ receipt[r].sourceEvent = CreateKey(p) => Did(CreateKey(p))
    /\ \A r, s \in Minted : Placed(r, p) /\ Placed(s, p) => r = s
    /\ \A r, s \in HeldUnder(p) : r = s
    /\ IsFiniteSet(ReleasesOf(p))
    /\ Did(CreateKey(p)) =>
          Amount(event, ReleasesOf(p)) + Amount(receipt, HeldUnder(p))
              = event[CreateKey(p)].quantity

(* What was done to a pledge was done to its own goods; all of it but the  *)
(* acceptance gave them back.                                              *)
DeedKey(op, p) == <<op, p>>

DeedSays(op, p) ==
    LET k == DeedKey(op, p)
    IN  Did(k) => /\ Asked(p)
                  /\ Own(event[k].from, p)
                  /\ op = "accept" => event[k].from = pledge[p].held
                  /\ op # "accept" => Freed(p)

Deed == {"accept", "cancel", "reject", "expire", "force"}

(* So was what was done for a line of a request, and what a partial        *)
(* release kept is still under the lien of its line.                       *)
LineSays(q, l) ==
    /\ \A k \in {FullKey(q, l), PartialKey(q, l)} :
          Did(k) => Wants(q, l) /\ Own(event[k].from, LienOf(q, l))
    /\ Did(FullKey(q, l)) => Freed(LienOf(q, l))
    /\ \A r \in HeldBy(PartialKey(q, l)) : Wants(q, l) /\ Own(r, LienOf(q, l))

(* What the rows of p say.                                                 *)
RowSays(p) ==
    /\ Asked(p) => Placed(pledge[p].held, p)
    /\ pledge[p].status \in {"CANCELLED", "REJECTED", "EXPIRED"} => Freed(p)
    /\ pledge[p].status = "ACCEPTED" => HasLien(p)
    /\ HasLien(p) =>
          /\ Asked(p) /\ Did(AcceptKey(p))
          /\ Own(lien[p].receiptId, p)
          /\ lien[p].remaining = 0 => Freed(p)

(* What a handler in state s knows.                                        *)
CallSays(s) ==
    /\ s.op = "pledge" /\ s.step = "insert" => Placed(s.held, s.p)
    /\ s.op \in {"cancel", "reject"} =>
          Asked(s.p) /\ (s.step = "update" => Did(DeedKey(s.op, s.p)))
    /\ s.op = "accept" => Asked(s.p) /\ (s.step = "lien" => Did(AcceptKey(s.p)))
    /\ s.op = "expire" =>
          /\ \A p \in s.todo : Asked(p)
          /\ s.step = "update" => Asked(s.p) /\ Did(DeedKey("expire", s.p))
    /\ s.op \in {"withdraw", "refuse", "approve"} => request[s.q] # NoRequest
    /\ s.op = "approve" =>
          /\ s.todo \subseteq DOMAIN request[s.q].lines
          /\ \A l \in DOMAIN request[s.q].lines :
                LET seen == s.seen[LienOf(s.q, l)]
                IN  /\ seen # NoLien /\ HasLien(LienOf(s.q, l))
                    /\ Own(seen.receiptId, LienOf(s.q, l))
                    /\ request[s.q].lines[l].quantity <= seen.remaining
    /\ s.op = "approve" /\ s.step = "lien" =>
          /\ HasLien(s.p)
          /\ s.new.remaining = 0 => Freed(s.p)
          /\ s.new.receiptId # NoReceipt => Own(s.new.receiptId, s.p)
    /\ s.op = "force" =>
          /\ HasLien(s.p) /\ Own(s.receiptId, s.p)
          /\ s.step = "lien" => Did(ForceKey(s.p))

CollateralInv ==
    /\ RowInv
    /\ FlowTypeOK
    /\ EventsOfMinted
    /\ \A p \in Pledge : GoodsSays(p) /\ RowSays(p)
    /\ \A p \in Pledge, op \in Deed : DeedSays(op, p)
    /\ \A q \in ReleaseRequest, l \in Line : LineSays(q, l)
    /\ \A c \in Call : CallSays(call[c])

-----------------------------------------------------------------------------
(* The keys of the flow are told apart by what they stand for.             *)
LEMMA KeysApart ==
    /\ CollateralKey \subseteq Key /\ DepositKey # AdmitKey
    /\ \A p \in Pledge :
          /\ CreateKey(p) \in CollateralKey \ {DepositKey, AdmitKey}
          /\ AcceptKey(p) = DeedKey("accept", p) /\ ForceKey(p) = DeedKey("force", p)
          /\ \A op \in Deed : DeedKey(op, p) \in CollateralKey \ {DepositKey, AdmitKey}
    /\ \A q \in ReleaseRequest, l \in Line :
          {FullKey(q, l), PartialKey(q, l)} \subseteq CollateralKey \ {DepositKey, AdmitKey}
  BY CollateralAssumption
     DEF CollateralKey, CreateKey, AcceptKey, ForceKey, DeedKey, Deed, FullKey, PartialKey,
         DepositKey, AdmitKey

LEMMA KeysDiffer ==
    /\ \A p, v \in Pledge :
          /\ CreateKey(p) = CreateKey(v) => p = v
          /\ \A op, ov \in Deed :
                /\ CreateKey(p) # DeedKey(op, v)
                /\ DeedKey(op, p) = DeedKey(ov, v) => op = ov /\ p = v
    /\ \A q, u \in ReleaseRequest, l, m \in Line :
          /\ FullKey(q, l) # PartialKey(u, m)
          /\ FullKey(q, l) = FullKey(u, m) => q = u /\ l = m
          /\ PartialKey(q, l) = PartialKey(u, m) => q = u /\ l = m
    /\ \A q \in ReleaseRequest, l \in Line, p \in Pledge :
          /\ CreateKey(p) \notin {FullKey(q, l), PartialKey(q, l)}
          /\ \A op \in Deed : DeedKey(op, p) \notin {FullKey(q, l), PartialKey(q, l)}
<1>1. \A p : CreateKey(p)[1] = "create" /\ CreateKey(p)[2] = p
  BY DEF CreateKey
<1>2. \A op, p : DeedKey(op, p)[1] = op /\ DeedKey(op, p)[2] = p
  BY DEF DeedKey
<1>3. \A q, l : /\ FullKey(q, l)[1] = "full" /\ FullKey(q, l)[2] = q /\ FullKey(q, l)[3] = l
                /\ PartialKey(q, l)[1] = "partial" /\ PartialKey(q, l)[2] = q
                /\ PartialKey(q, l)[3] = l
  BY DEF FullKey, PartialKey
<1>4. \A op \in Deed : op \notin {"create", "full", "partial"}
  BY DEF Deed
<1>5. ASSUME NEW p \in Pledge, NEW v \in Pledge
      PROVE  /\ CreateKey(p) = CreateKey(v) => p = v
             /\ \A op, ov \in Deed :
                   /\ CreateKey(p) # DeedKey(op, v)
                   /\ DeedKey(op, p) = DeedKey(ov, v) => op = ov /\ p = v
  BY <1>1, <1>2, <1>4
<1>6. ASSUME NEW q \in ReleaseRequest, NEW u \in ReleaseRequest, NEW l \in Line, NEW m \in Line
      PROVE  /\ FullKey(q, l) # PartialKey(u, m)
             /\ FullKey(q, l) = FullKey(u, m) => q = u /\ l = m
             /\ PartialKey(q, l) = PartialKey(u, m) => q = u /\ l = m
  BY <1>3
<1>7. ASSUME NEW q \in ReleaseRequest, NEW l \in Line, NEW p \in Pledge
      PROVE  /\ CreateKey(p) \notin {FullKey(q, l), PartialKey(q, l)}
             /\ \A op \in Deed : DeedKey(op, p) \notin {FullKey(q, l), PartialKey(q, l)}
  BY <1>1, <1>2, <1>3, <1>4
<1> QED
  BY <1>5, <1>6, <1>7

(* The ledger takes nothing back.                                          *)
LEMMA StillGrows == UNCHANGED ledgerVars => Grown
  BY DEF ledgerVars, Grown, SameLineage, Minted

LEMMA OwnStays ==
    ASSUME Grown, NEW r \in Minted
    PROVE  /\ r \in Minted'
           /\ \A p : (Own(r, p)' <=> Own(r, p)) /\ (Placed(r, p)' <=> Placed(r, p))
           /\ IsHeld(r)' => IsHeld(r)
           /\ receipt'[r].quantity = receipt[r].quantity
           /\ receipt'[r].sourceEvent = receipt[r].sourceEvent
  BY DEF Grown, SameLineage, Own, Placed, IsHeld

LEMMA DidStays ==
    ASSUME Grown, NEW k \in CollateralKey
    PROVE  Did(k) => Did(k)' /\ event'[k] = event[k]
  BY KeysApart DEF Grown, Did

(* Rows only age: they stay, and a pledge keeps its child, a request its   *)
(* lines.                                                                  *)
RowsAge ==
    /\ \A p \in Pledge :
          /\ Asked(p) => pledge'[p] # NoPledge /\ pledge'[p].held = pledge[p].held
          /\ HasLien(p) => lien'[p] # NoLien
    /\ \A q \in ReleaseRequest :
          request[q] # NoRequest =>
              request'[q] # NoRequest /\ request'[q].lines = request[q].lines

FreedStay == \A p \in Pledge : Freed(p) => Freed(p)'

LEMMA SameRowsAge == UNCHANGED <<pledge, lien, request>> => RowsAge
  BY DEF RowsAge, Asked, HasLien

(* Which operation a handler is at tells what it remembers.                *)
LEMMA KindOf ==
    ASSUME NEW s \in CallState
    PROVE  /\ s.op = "pledge" /\ s.step # "insert" => s \in PickCall
           /\ s.op = "pledge" /\ s.step = "insert" => s \in BornCall
           /\ s.op \in {"cancel", "reject"} => s \in DeclineCall
           /\ s.op = "accept" => s \in AcceptCall
           /\ s.op = "expire" /\ s.step = "release" => s \in RoundCall
           /\ s.op = "expire" /\ s.step = "update" => s \in ExpireCall
           /\ s.op = "expire" => s \in RoundCall \cup ExpireCall
           /\ s.op = "ask" => s \in AskCall
           /\ s.op \in {"withdraw", "refuse"} => s \in CloseCall
           /\ s.op = "approve" /\ s.step # "lien" => s \in LineCall
           /\ s.op = "approve" /\ s.step = "lien" => s \in LienCall
           /\ s.op = "force" => s \in ForceCall
  BY DEF CallState, PickCall, BornCall, DeclineCall, AcceptCall, RoundCall, ExpireCall,
         AskCall, CloseCall, LineCall, LienCall, ForceCall, Idle

(* What is known of the goods of a pledge stays known.                     *)
LEMMA KnownStays ==
    ASSUME Grown, RowsAge, FreedStay, NEW p \in Pledge
    PROVE  /\ \A r \in Minted : r \in Minted' /\ (Own(r, p) => Own(r, p)')
                                /\ (Placed(r, p) => Placed(r, p)')
           /\ \A op \in Deed : Did(DeedKey(op, p)) => Did(DeedKey(op, p))'
           /\ Did(CreateKey(p)) => Did(CreateKey(p))'
           /\ Asked(p) => Asked(p)'
           /\ HasLien(p) => HasLien(p)'
           /\ Freed(p) => Freed(p)'
<1>1. \A r \in Minted : r \in Minted' /\ (Own(r, p) => Own(r, p)')
                        /\ (Placed(r, p) => Placed(r, p)')
  BY OwnStays
<1>2. /\ \A op \in Deed : Did(DeedKey(op, p)) => Did(DeedKey(op, p))'
      /\ Did(CreateKey(p)) => Did(CreateKey(p))'
  BY DidStays, KeysApart
<1>3. (Asked(p) => Asked(p)') /\ (HasLien(p) => HasLien(p)')
  BY DEF RowsAge, Asked, HasLien
<1> QED
  BY <1>1, <1>2, <1>3 DEF FreedStay

(* A request that was made keeps its lines.                                *)
LEMMA LinesStay ==
    ASSUME FlowTypeOK, RowsAge, NEW q \in ReleaseRequest, request[q] # NoRequest
    PROVE  /\ request'[q] # NoRequest /\ request'[q].lines = request[q].lines
           /\ DOMAIN request[q].lines \subseteq Line
           /\ \A l \in DOMAIN request[q].lines :
                 LienOf(q, l) \in Pledge /\ request[q].lines[l].quantity \in Quantity
  BY DEF RowsAge, FlowTypeOK, RequestRow, Lines, LienOf

(* The receipts a handler remembers are still there.                       *)
LEMMA StateStays ==
    ASSUME Minted \subseteq Minted', NEW s \in CallState
    PROVE  s \in CallState'
<1>1. LienRow \subseteq LienRow' /\ NewLien \subseteq NewLien'
  BY DEF LienRow, NewLien
<1>2. LineCall \subseteq LineCall' /\ LienCall \subseteq LienCall'
  BY <1>1 DEF LineCall, LienCall
<1>3. PickCall \subseteq PickCall' /\ BornCall \subseteq BornCall' /\ ForceCall \subseteq ForceCall'
  BY DEF PickCall, BornCall, ForceCall
<1> QED
  BY <1>2, <1>3 DEF CallState, DeclineCall, AcceptCall, RoundCall, ExpireCall, AskCall, CloseCall

(* What a handler knows stays true while the others go on.                 *)
LEMMA SaysStay ==
    ASSUME FlowTypeOK, Grown, RowsAge, FreedStay, NEW s \in CallState, CallSays(s)
    PROVE  s \in CallState' /\ CallSays(s)'
<1>1. s \in CallState'
  BY StateStays DEF Grown
<1>2. CASE s.op = "pledge"
  <2>1. s.step = "insert" => s.held \in Minted /\ s.p \in Pledge
    BY <1>2, KindOf DEF BornCall
  <2> QED
    BY <1>1, <1>2, <2>1, KnownStays DEF CallSays
<1>3. CASE s.op \in {"cancel", "reject"}
  <2>1. s.p \in Pledge /\ s.op \in Deed
    BY <1>3, KindOf DEF DeclineCall, Deed
  <2> QED
    BY <1>1, <1>3, <2>1, KnownStays DEF CallSays
<1>4. CASE s.op = "accept"
  <2>1. s.p \in Pledge /\ "accept" \in Deed
    BY <1>4, KindOf DEF AcceptCall, Deed
  <2> QED
    BY <1>1, <1>4, <2>1, KnownStays, KeysApart DEF CallSays
<1>5. CASE s.op = "expire"
  <2>1. /\ s.todo \subseteq Pledge /\ (s.step = "update" => s.p \in Pledge)
        /\ "expire" \in Deed
    BY <1>5, KindOf DEF RoundCall, ExpireCall, Deed
  <2> QED
    BY <1>1, <1>5, <2>1, KnownStays DEF CallSays
<1>6. CASE s.op \in {"withdraw", "refuse"}
  <2>1. s.q \in ReleaseRequest
    BY <1>6, KindOf DEF CloseCall
  <2> QED
    BY <1>1, <1>6, <2>1, LinesStay DEF CallSays
<1>7. CASE s.op = "approve"
  <2>1. /\ s.q \in ReleaseRequest /\ s.seen \in [Pledge -> LienRow \cup {NoLien}]
        /\ request[s.q] # NoRequest
        /\ s.step = "lien" => s.p \in Pledge /\ s.new \in NewLien
    BY <1>7, KindOf DEF LineCall, LienCall, CallSays
  <2>2. /\ request'[s.q] # NoRequest /\ request'[s.q].lines = request[s.q].lines
        /\ \A l \in DOMAIN request[s.q].lines : LienOf(s.q, l) \in Pledge
        /\ \A l : LienOf(s.q, l)' = LienOf(s.q, l)
    BY <2>1, LinesStay DEF LienOf
  <2>3. ASSUME NEW l \in DOMAIN request[s.q].lines
        PROVE  LET seen == s.seen[LienOf(s.q, l)]
               IN  /\ seen # NoLien /\ HasLien(LienOf(s.q, l))'
                   /\ Own(seen.receiptId, LienOf(s.q, l))'
                   /\ request[s.q].lines[l].quantity <= seen.remaining
    <3>1. PICK v \in Pledge : v = LienOf(s.q, l)
      BY <2>2, <2>3
    <3>2. /\ s.seen[v] # NoLien /\ HasLien(v) /\ Own(s.seen[v].receiptId, v)
          /\ request[s.q].lines[l].quantity <= s.seen[v].remaining
      BY <1>7, <2>3, <3>1 DEF CallSays
    <3>3. s.seen[v].receiptId \in Minted
      BY <2>1, <3>2 DEF LienRow
    <3> QED
      BY <2>2, <2>3, <3>1, <3>2, <3>3, KnownStays
  <2>4. s.step = "lien" =>
          /\ HasLien(s.p)'
          /\ s.new.remaining = 0 => Freed(s.p)'
          /\ s.new.receiptId # NoReceipt => Own(s.new.receiptId, s.p)'
    <3> SUFFICES ASSUME s.step = "lien"
                 PROVE  /\ HasLien(s.p)'
                        /\ s.new.remaining = 0 => Freed(s.p)'
                        /\ s.new.receiptId # NoReceipt => Own(s.new.receiptId, s.p)'
      OBVIOUS
    <3>1. s.new.receiptId # NoReceipt => s.new.receiptId \in Minted
      BY <2>1 DEF NewLien
    <3> QED
      BY <1>7, <2>1, <3>1, KnownStays DEF CallSays
  <2>5. s.todo \subseteq DOMAIN request'[s.q].lines
    BY <1>7, <2>2 DEF CallSays
  <2> QED
    BY <1>1, <1>7, <2>2, <2>3, <2>4, <2>5 DEF CallSays
<1>8. CASE s.op = "force"
  <2>1. s.p \in Pledge /\ s.receiptId \in Minted /\ "force" \in Deed
    BY <1>8, KindOf DEF ForceCall, Deed
  <2> QED
    BY <1>1, <1>8, <2>1, KnownStays, KeysApart DEF CallSays
<1>9. CASE s.op \in {"ask", "idle"}
  BY <1>1, <1>9 DEF CallSays
<1> QED
  BY <1>1, <1>2, <1>3, <1>4, <1>5, <1>6, <1>7, <1>8, <1>9
     DEF CallState, PickCall, BornCall, DeclineCall, AcceptCall, RoundCall, ExpireCall,
         AskCall, CloseCall, LineCall, LienCall, ForceCall, Idle

-----------------------------------------------------------------------------
(* The goods of a pledge, ledger call by ledger call.                      *)

(* The releases of p, after a step under key k about receipt r.            *)
LEMMA ReleasesAfter ==
    ASSUME EventsOfMinted, Grown, NEW k \in CollateralKey, NEW r \in Minted, Writes(k, r),
           NEW p
    PROVE  /\ k \notin ReleasesOf(p)
           /\ ReleasesOf(p)' = IF event'[k].type = "HOLD_RELEASED" /\ Own(r, p)
                               THEN ReleasesOf(p) \cup {k}
                               ELSE ReleasesOf(p)
<1>1. /\ event[k] = NoEvent /\ event'[k].from = r
      /\ \A j \in CollateralKey \ {k} : event'[j] = event[j]
  BY KeysApart DEF Writes, Journals
<1>2. receipt'[r].sourceTxn = p <=> Own(r, p)
  BY OwnStays DEF Own
<1>3. ASSUME NEW j \in CollateralKey, j # k
      PROVE  j \in ReleasesOf(p)' <=> j \in ReleasesOf(p)
  <2>1. event'[j] = event[j] /\ j \in Key
    BY <1>1, <1>3, KeysApart
  <2>2. CASE event[j].type = "HOLD_RELEASED"
    <3>1. event[j].from \in Minted
      BY <2>1, <2>2 DEF EventsOfMinted, NoEvent
    <3>2. receipt'[event[j].from].sourceTxn = receipt[event[j].from].sourceTxn
      BY <3>1, OwnStays DEF Own
    <3> QED
      BY <2>1, <3>2 DEF ReleasesOf
  <2>3. CASE event[j].type # "HOLD_RELEASED"
    BY <2>1, <2>3 DEF ReleasesOf
  <2> QED
    BY <2>2, <2>3
<1>4. k \notin ReleasesOf(p)
  BY <1>1 DEF ReleasesOf, NoEvent
<1>5. k \in ReleasesOf(p)' <=> event'[k].type = "HOLD_RELEASED" /\ Own(r, p)
  BY <1>1, <1>2 DEF ReleasesOf
<1>6. ReleasesOf(p) \subseteq CollateralKey /\ ReleasesOf(p)' \subseteq CollateralKey
  BY DEF ReleasesOf
<1> QED
  BY <1>3, <1>4, <1>5, <1>6

(* Quantities are numbers, and few receipts are held.                      *)
LEMMA QuantitiesAreInt ==
    ASSUME RowInv
    PROVE  /\ \A r \in Minted : receipt[r].quantity \in Int
           /\ \A p : IsFiniteSet(HeldUnder(p)) /\ HeldUnder(p) \subseteq Minted
           /\ \A p : \A k \in ReleasesOf(p) : event[k].quantity \in Int
<1>1. \A r \in Minted : receipt[r] \in Row
  BY BoundsAssumption DEF RowInv, LedgerInv, TableTypeOK, Minted, Receipt
<1>2. minted \in Nat /\ IsFiniteSet(Minted)
  BY BoundsAssumption, FS_Interval DEF RowInv, LedgerInv, TableTypeOK, Minted
<1>3. \A p : HeldUnder(p) \subseteq Minted
  BY DEF HeldUnder
<1>4. \A p : IsFiniteSet(HeldUnder(p))
  BY <1>2, <1>3, FS_Subset
<1>5. ASSUME NEW p, NEW k \in ReleasesOf(p)
      PROVE  event[k].quantity \in Int
  <2>1. k \in Key /\ event[k] # NoEvent
    BY <1>5, KeysApart DEF ReleasesOf, NoEvent
  <2> QED
    BY <2>1 DEF RowInv, JournalTypeOK, EventRow
<1> QED
  BY <1>1, <1>3, <1>4, <1>5 DEF Row

(* The journal does not rewrite what it recorded.                          *)
LEMMA ReleasedStays ==
    ASSUME RowInv, Grown, NEW p, IsFiniteSet(ReleasesOf(p))
    PROVE  Amount(event', ReleasesOf(p)) = Amount(event, ReleasesOf(p))
<1>1. \A k \in ReleasesOf(p) : event'[k] = event[k] /\ event[k].quantity \in Int
  <2>1. \A k \in ReleasesOf(p) : k \in CollateralKey /\ Did(k)
    BY DEF ReleasesOf, Did, NoEvent
  <2> QED
    BY <2>1, DidStays, QuantitiesAreInt
<1> QED
  BY <1>1, AmountOfSame

(* The goods of a pledge that a step leaves alone.                         *)
LEMMA OthersGoods ==
    ASSUME RowInv, EventsOfMinted, Grown, NEW p \in Pledge, GoodsSays(p),
           CreateKey(p) \in CollateralKey, event'[CreateKey(p)] = event[CreateKey(p)],
           ReleasesOf(p)' = ReleasesOf(p),
           HeldUnder(p)' = HeldUnder(p),
           \A x \in Minted' \ Minted :
              ~Own(x, p)' /\ receipt'[x].sourceEvent # CreateKey(p)
    PROVE  GoodsSays(p)' /\ (Freed(p) => Freed(p)')
<1>1. Amount(event', ReleasesOf(p)) = Amount(event, ReleasesOf(p))
  BY ReleasedStays DEF GoodsSays
<1>2. Amount(receipt', HeldUnder(p)) = Amount(receipt, HeldUnder(p))
  <2>1. \A r \in HeldUnder(p) : receipt[r].quantity \in Int
                                  /\ receipt'[r].quantity = receipt[r].quantity
    BY QuantitiesAreInt, OwnStays
  <2> QED
    BY <2>1, QuantitiesAreInt, AmountOfSame
<1>3. \A x \in Minted' : Own(x, p)' \/ Placed(x, p)' =>
          x \in Minted /\ Own(x, p) /\ (Placed(x, p)' => Placed(x, p))
  BY OwnStays DEF Placed
<1>4. Did(CreateKey(p))' <=> Did(CreateKey(p))
  BY DEF Did
<1>5. (\A r \in Minted :
          Own(r, p) \/ receipt[r].sourceEvent = CreateKey(p) => Did(CreateKey(p)))'
  BY <1>3, <1>4, OwnStays DEF GoodsSays
<1>6. (\A r, s \in Minted : Placed(r, p) /\ Placed(s, p) => r = s)'
  BY <1>3 DEF GoodsSays
<1>7. (\A r, s \in HeldUnder(p) : r = s)'
  BY DEF GoodsSays
<1>8. (Did(CreateKey(p)) =>
          Amount(event, ReleasesOf(p)) + Amount(receipt, HeldUnder(p))
              = event[CreateKey(p)].quantity)'
  BY <1>1, <1>2, <1>4 DEF GoodsSays
<1>9. GoodsSays(p)'
  BY <1>5, <1>6, <1>7, <1>8 DEF GoodsSays
<1> QED
  BY <1>4, <1>9 DEF Freed

(* A sum of one.                                                           *)
LEMMA AmountOfOne ==
    ASSUME NEW table, NEW x, table[x].quantity \in Int
    PROVE  Amount(table, {x}) = table[x].quantity
<1>1. IsFiniteSet({}) /\ x \notin {} /\ {} \cup {x} = {x} /\ \A r \in {} : table[r].quantity \in Int
  BY FS_EmptySet
<1>2. Amount(table, {} \cup {x}) = Amount(table, {}) + table[x].quantity
  BY <1>1, AmountOfMore
<1> QED
  BY <1>1, <1>2, AmountOfNone

StockSays == RowInv /\ EventsOfMinted /\ \A p \in Pledge : GoodsSays(p)

(* Giving back all of the held receipt of p, or all of it but b.           *)
LEMMA GivesBack ==
    ASSUME StockSays, RowInv', Grown, NEW p \in Pledge, NEW r \in HeldUnder(p),
           NEW k \in CollateralKey, Writes(k, r), event'[k].type = "HOLD_RELEASED",
           NEW n \in Int, event'[k].quantity = n, k # CreateKey(p),
           \/ HeldUnder(p)' = {} /\ n = receipt[r].quantity
           \/ \E b \in Minted' : /\ HeldUnder(p)' = {b}
                                 /\ receipt'[b].quantity = receipt[r].quantity - n,
           \A x \in Minted' \ Minted : ~Placed(x, p)'
    PROVE  GoodsSays(p)'
<1>1. RowInv /\ EventsOfMinted /\ GoodsSays(p) /\ Own(r, p) /\ r \in Minted
  BY DEF StockSays, HeldUnder, Own
<1>2. /\ k \notin ReleasesOf(p) /\ ReleasesOf(p)' = ReleasesOf(p) \cup {k}
      /\ IsFiniteSet(ReleasesOf(p)')
  <2>1. IsFiniteSet(ReleasesOf(p)) /\ k \notin ReleasesOf(p) /\ ReleasesOf(p)' = ReleasesOf(p) \cup {k}
    BY <1>1, ReleasesAfter DEF GoodsSays
  <2> QED
    BY <2>1, FS_AddElement
<1>3. /\ Amount(event, ReleasesOf(p)) \in Int
      /\ Amount(event', ReleasesOf(p)') = Amount(event, ReleasesOf(p)) + n
  <2>1. \A j \in ReleasesOf(p) : event[j].quantity \in Int /\ event'[j].quantity \in Int
    <3>1. \A j \in ReleasesOf(p) : j \in CollateralKey /\ Did(j)
      BY DEF ReleasesOf, Did, NoEvent
    <3> QED
      BY <1>1, <3>1, QuantitiesAreInt, DidStays
  <2>2. IsFiniteSet(ReleasesOf(p))
    BY <1>1 DEF GoodsSays
  <2>3. Amount(event', ReleasesOf(p)) = Amount(event, ReleasesOf(p))
    BY <1>1, <2>2, ReleasedStays
  <2>4. /\ Amount(event', ReleasesOf(p)) \in Int
        /\ Amount(event', ReleasesOf(p) \cup {k}) = Amount(event', ReleasesOf(p)) + n
    BY <1>2, <2>1, <2>2, AmountOfMore
  <2> QED
    BY <1>2, <2>3, <2>4
<1>4. HeldUnder(p) = {r} /\ Amount(receipt, HeldUnder(p)) = receipt[r].quantity
      /\ receipt[r].quantity \in Int
  <2>1. HeldUnder(p) = {r} /\ receipt[r].quantity \in Int
    BY <1>1, QuantitiesAreInt DEF GoodsSays
  <2> QED
    BY <2>1, AmountOfOne
<1>5. Amount(receipt', HeldUnder(p)') = receipt[r].quantity - n
  <2>1. CASE HeldUnder(p)' = {} /\ n = receipt[r].quantity
    BY <1>4, <2>1, AmountOfNone
  <2>2. ASSUME NEW b \in Minted', HeldUnder(p)' = {b},
               receipt'[b].quantity = receipt[r].quantity - n
        PROVE  Amount(receipt', HeldUnder(p)') = receipt[r].quantity - n
    <3>1. receipt'[b].quantity \in Int
      BY <1>4, <2>2
    <3>2. Amount(receipt', {b}) = receipt'[b].quantity
      BY <3>1, AmountOfOne
    <3> QED
      BY <2>2, <3>2
  <2> QED
    BY <2>1, <2>2
<1>6. Did(CreateKey(p)) /\ Did(CreateKey(p))' /\ event'[CreateKey(p)] = event[CreateKey(p)]
  BY <1>1, KeysApart, DidStays DEF GoodsSays
<1>7. (Did(CreateKey(p)) =>
          Amount(event, ReleasesOf(p)) + Amount(receipt, HeldUnder(p))
              = event[CreateKey(p)].quantity)'
  <2>1. Amount(event, ReleasesOf(p)) + receipt[r].quantity = event[CreateKey(p)].quantity
    BY <1>1, <1>4, <1>6 DEF GoodsSays
  <2> QED
    BY <1>3, <1>4, <1>5, <1>6, <2>1
<1>8. (\A x, y \in HeldUnder(p) : x = y)'
  OBVIOUS
<1>9. (\A x, y \in Minted : Placed(x, p) /\ Placed(y, p) => x = y)'
  <2>1. \A x \in Minted' : Placed(x, p)' => x \in Minted /\ Placed(x, p)
    BY OwnStays
  <2> QED
    BY <1>1, <2>1 DEF GoodsSays
<1> QED
  BY <1>2, <1>6, <1>7, <1>8, <1>9 DEF GoodsSays

(* A ledger call under key k, as the flow sees it: the goods of every      *)
(* pledge still add up, and what was given back stays given back.          *)
KeepsGoods(k) ==
    /\ StockSays' /\ Grown /\ FreedStay
    /\ \A x \in Minted' \ Minted : receipt'[x].sourceEvent = k
    /\ \A j \in Key \ {k} : event'[j] = event[j]

LEMMA EventsStayMinted ==
    ASSUME EventsOfMinted, Grown, NEW k \in Key, NEW r \in Minted, Writes(k, r)
    PROVE  EventsOfMinted' /\ \A j \in Key \ {k} : event'[j] = event[j]
  BY DEF EventsOfMinted, Grown, Writes, Journals

(* release ends the hold of the pledge it releases.                        *)
LEMMA ReleaseKeepsGoods ==
    ASSUME StockSays, NEW k \in CollateralKey, NEW r \in Minted, Release(k, r),
           \A p \in Pledge : k # CreateKey(p)
    PROVE  /\ KeepsGoods(k) /\ Did(k)' /\ event'[k].from = r
           /\ Minted' = Minted
           /\ \A p \in Pledge : Own(r, p) => Freed(p)'
<1>1. /\ RowInv /\ EventsOfMinted /\ k \in Key
      /\ \A p \in Pledge : GoodsSays(p)
  BY KeysApart DEF StockSays
<1>2. /\ RowInv' /\ Grown /\ IsHeld(r)
      /\ Ages(k, r, [receipt[r] EXCEPT !.status = "ACTIVE", !.approval = "APPROVED"])
      /\ event'[k].type = "HOLD_RELEASED" /\ event'[k].quantity = receipt[r].quantity
  BY <1>1, ReleaseIs
<1>3. Writes(k, r) /\ Minted' = Minted /\ \A x \in Minted \ {r} : receipt'[x] = receipt[x]
  BY <1>2 DEF Ages, Minted, Untouched
<1>4. receipt'[r].status = "ACTIVE"
  <2>1. receipt[r] \in Row
    BY <1>1, BoundsAssumption DEF RowInv, LedgerInv, TableTypeOK, Minted, Receipt
  <2> QED
    BY <1>2, <2>1 DEF Ages, Row
<1>5. \A p : HeldUnder(p)' = HeldUnder(p) \ {r}
  BY <1>3, <1>4, StatusRoles DEF HeldUnder, IsHeld
<1>6. ASSUME NEW p \in Pledge
      PROVE  GoodsSays(p)' /\ (Freed(p) => Freed(p)') /\ (Own(r, p) => Freed(p)')
  <2>1. /\ CreateKey(p) \in CollateralKey /\ k # CreateKey(p) /\ GoodsSays(p)
        /\ event'[CreateKey(p)] = event[CreateKey(p)]
    BY <1>1, <1>3, KeysApart DEF Writes, Journals
  <2>2. CASE Own(r, p)
    <3>0. r \in HeldUnder(p)
      BY <1>2, <2>2 DEF HeldUnder, Own
    <3>1. r \in HeldUnder(p) /\ HeldUnder(p)' = {}
      BY <1>1, <1>5, <3>0 DEF GoodsSays
    <3>2. GoodsSays(p)'
      BY <1>2, <1>3, <2>1, <3>1, GivesBack, QuantitiesAreInt DEF StockSays
    <3>3. Did(CreateKey(p)) /\ Did(CreateKey(p))'
      BY <2>1, <2>2 DEF GoodsSays, Did
    <3> QED
      BY <3>1, <3>2, <3>3 DEF Freed
  <2>3. CASE ~Own(r, p)
    <3>1. HeldUnder(p)' = HeldUnder(p)
      BY <1>5, <2>3 DEF HeldUnder, Own
    <3>2. ReleasesOf(p)' = ReleasesOf(p)
      BY <1>1, <1>2, <1>3, <2>3, ReleasesAfter
    <3> QED
      BY <1>1, <1>2, <1>3, <2>1, <2>3, <3>1, <3>2, OthersGoods
  <2> QED
    BY <2>2, <2>3
<1>7. EventsOfMinted' /\ \A j \in Key \ {k} : event'[j] = event[j]
  BY <1>1, <1>2, <1>3, EventsStayMinted
<1>8. Did(k)' /\ event'[k].from = r
  BY <1>3 DEF Writes, Journals, Did
<1> QED
  BY <1>2, <1>3, <1>6, <1>7, <1>8 DEF KeepsGoods, StockSays, FreedStay

(* An acceptance moves nothing.                                            *)
LEMMA TransitionKeepsGoods ==
    ASSUME StockSays, NEW k \in CollateralKey, NEW r \in Minted, TransitionPledgeToLien(k, r),
           \A p \in Pledge : k # CreateKey(p)
    PROVE  KeepsGoods(k) /\ Did(k)' /\ event'[k].from = r /\ Minted' = Minted
<1>1. /\ RowInv /\ EventsOfMinted /\ k \in Key
      /\ \A p \in Pledge : GoodsSays(p)
  BY KeysApart DEF StockSays
<1>2. /\ RowInv' /\ Grown /\ IsHeld(r)
      /\ Ages(k, r, [receipt[r] EXCEPT !.status = "HELD_LIEN"])
      /\ event'[k].type = "PLEDGE_ACCEPTED"
  BY <1>1, TransitionIs
<1>3. Writes(k, r) /\ Minted' = Minted /\ \A x \in Minted \ {r} : receipt'[x] = receipt[x]
  BY <1>2 DEF Ages, Minted, Untouched
<1>4. receipt'[r].status = "HELD_LIEN" /\ receipt'[r].sourceTxn = receipt[r].sourceTxn
  <2>1. receipt[r] \in Row
    BY <1>1, BoundsAssumption DEF RowInv, LedgerInv, TableTypeOK, Minted, Receipt
  <2> QED
    BY <1>2, <2>1 DEF Ages, Row
<1>5. \A p : HeldUnder(p)' = HeldUnder(p)
  BY <1>2, <1>3, <1>4, StatusRoles DEF HeldUnder, IsHeld
<1>6. ASSUME NEW p \in Pledge
      PROVE  GoodsSays(p)' /\ (Freed(p) => Freed(p)')
  <2>1. /\ CreateKey(p) \in CollateralKey /\ GoodsSays(p)
        /\ event'[CreateKey(p)] = event[CreateKey(p)]
    BY <1>1, <1>3, KeysApart DEF Writes, Journals
  <2>2. ReleasesOf(p)' = ReleasesOf(p)
    BY <1>1, <1>2, <1>3, ReleasesAfter
  <2> QED
    BY <1>1, <1>2, <1>3, <1>5, <2>1, <2>2, OthersGoods
<1>7. EventsOfMinted' /\ \A j \in Key \ {k} : event'[j] = event[j]
  BY <1>1, <1>2, <1>3, EventsStayMinted
<1>8. Did(k)' /\ event'[k].from = r
  BY <1>3 DEF Writes, Journals, Did
<1> QED
  BY <1>2, <1>3, <1>6, <1>7, <1>8 DEF KeepsGoods, StockSays, FreedStay

(* releasePartial frees a part and keeps the rest under the same pledge.   *)
LEMMA PartialKeepsGoods ==
    ASSUME StockSays, NEW k \in CollateralKey, NEW r \in Minted, NEW n \in Quantity,
           ReleasePartial(k, r, Exactly(n)), NEW v \in Pledge, Own(r, v),
           \A p \in Pledge : k # CreateKey(p)
    PROVE  /\ KeepsGoods(k) /\ Did(k)' /\ event'[k].from = r
           /\ \A x \in Minted' \ Minted : IsHeld(x)' => Own(x, v)'
<1>1. /\ RowInv /\ EventsOfMinted /\ k \in Key
      /\ \A p \in Pledge : GoodsSays(p)
  BY KeysApart DEF StockSays
<1>2. RowInv' /\ Grown /\ Shares(k, r, n)
  BY <1>1, ReleasePartialIs DEF Quantity
<1>3. Writes(k, r) /\ IsHeld(r) /\ event'[k].type = "HOLD_RELEASED" /\ event'[k].quantity = n
  BY <1>2 DEF Shares
<1>4. PICK a \in Minted' \ Minted, b \in Minted' \ Minted :
          /\ a # b /\ Minted' = Minted \cup {a, b}
          /\ receipt'[a].status = "ACTIVE"
          /\ receipt'[a].sourceTxn = None
          /\ receipt'[a].sourceEvent = k
          /\ receipt'[b].status = "HELD_LIEN"
          /\ receipt'[b].quantity = receipt[r].quantity - n
          /\ receipt'[b].sourceTxn = receipt[r].sourceTxn
          /\ receipt'[b].sourceEvent = k
  BY <1>2 DEF Shares
<1>5. \A p \in Pledge : p # None
  BY CollateralAssumption, NoneAssumption
<1>6. /\ ~IsHeld(r)' /\ ~IsHeld(a)' /\ IsHeld(b)'
      /\ \A p \in Pledge : ~Own(a, p)'
      /\ \A p : Own(b, p)' <=> Own(r, p)
  <2>1. receipt[r] \in Row
    BY <1>1, BoundsAssumption DEF RowInv, LedgerInv, TableTypeOK, Minted, Receipt
  <2>2. receipt'[r].status = "SPLIT"
    BY <1>2, <2>1 DEF Shares, Row
  <2> QED
    BY <1>4, <1>5, <2>2, StatusRoles DEF IsHeld, Own
<1>7. ASSUME NEW p \in Pledge
      PROVE  HeldUnder(p)' = (HeldUnder(p) \ {r}) \cup (IF Own(r, p) THEN {b} ELSE {})
  <2>1. ASSUME NEW x \in Minted, x # r
        PROVE  x \in HeldUnder(p)' <=> x \in HeldUnder(p)
    <3>1. receipt'[x] = receipt[x] /\ x \in Minted'
      BY <1>2, <1>4, <2>1 DEF Shares, Untouched
    <3> QED
      BY <2>1, <3>1 DEF HeldUnder, IsHeld
  <2>2. /\ r \notin HeldUnder(p)' /\ a \notin HeldUnder(p)'
        /\ b \in HeldUnder(p)' <=> Own(r, p)
    BY <1>4, <1>6 DEF HeldUnder, Own
  <2>3. HeldUnder(p)' \subseteq Minted \cup {a, b} /\ HeldUnder(p) \subseteq Minted
    BY <1>4 DEF HeldUnder
  <2> QED
    BY <1>4, <2>1, <2>2, <2>3
<1>8. ASSUME NEW p \in Pledge
      PROVE  GoodsSays(p)' /\ (Freed(p) => Freed(p)')
  <2>1. /\ CreateKey(p) \in CollateralKey /\ k # CreateKey(p) /\ GoodsSays(p)
        /\ event'[CreateKey(p)] = event[CreateKey(p)]
    BY <1>1, <1>3, KeysApart DEF Writes, Journals
  <2>2. CASE Own(r, p)
    <3>1. r \in HeldUnder(p)
      BY <1>3, <2>2 DEF HeldUnder, Own
    <3>2. HeldUnder(p)' = {b}
      BY <1>7, <2>1, <2>2, <3>1 DEF GoodsSays
    <3>3. \A x \in Minted' \ Minted : ~Placed(x, p)'
      BY <1>4, <2>1 DEF Placed
    <3>4. n \in Int
      BY BoundsAssumption DEF Quantity
    <3>5. GoodsSays(p)'
      BY <1>2, <1>3, <1>4, <2>1, <3>1, <3>2, <3>3, <3>4, GivesBack
    <3> QED
      BY <3>1, <3>5 DEF Freed
  <2>3. CASE ~Own(r, p)
    <3>1. HeldUnder(p)' = HeldUnder(p)
      BY <1>7, <2>3 DEF HeldUnder, Own
    <3>2. ReleasesOf(p)' = ReleasesOf(p)
      BY <1>1, <1>2, <1>3, <2>3, ReleasesAfter
    <3>3. \A x \in Minted' \ Minted :
              ~Own(x, p)' /\ receipt'[x].sourceEvent # CreateKey(p)
      BY <1>4, <1>6, <2>1, <2>3
    <3> QED
      BY <1>1, <1>2, <2>1, <3>1, <3>2, <3>3, OthersGoods
  <2> QED
    BY <2>2, <2>3
<1>9. EventsOfMinted' /\ \A j \in Key \ {k} : event'[j] = event[j]
  BY <1>1, <1>2, <1>3, EventsStayMinted
<1>10. Did(k)' /\ event'[k].from = r
  BY <1>3 DEF Writes, Journals, Did
<1>11. \A x \in Minted' \ Minted : receipt'[x].sourceEvent = k /\ (IsHeld(x)' => Own(x, v)')
  BY <1>4, <1>6
<1> QED
  BY <1>2, <1>8, <1>9, <1>10, <1>11 DEF KeepsGoods, StockSays, FreedStay

(* hold reserves goods for a pledge that had none.                         *)
LEMMA HoldKeepsGoods ==
    ASSUME StockSays, NEW v \in Pledge, NEW r \in Minted, NEW n \in Quantity,
           Hold(CreateKey(v), r, Exactly(n), "HELD_PLEDGE_PENDING", v)
    PROVE  /\ KeepsGoods(CreateKey(v)) /\ Did(CreateKey(v))'
           /\ \A x \in HeldBy(CreateKey(v))' : Placed(x, v)'
<1> DEFINE k == CreateKey(v)
<1>1. /\ RowInv /\ EventsOfMinted /\ k \in Key /\ k \in CollateralKey
      /\ \A p \in Pledge : GoodsSays(p)
  BY KeysApart DEF StockSays
<1>2. RowInv' /\ Grown /\ Reserves(k, r, n, "HELD_PLEDGE_PENDING", v)
  BY <1>1, HoldIs, CollateralAssumption DEF Quantity
<1>3. /\ Writes(k, r) /\ event'[k].type = "HOLD_PLACED" /\ event'[k].quantity = n
      /\ receipt[r].status = "ACTIVE" /\ ~Did(k)
  BY <1>2 DEF Reserves, Writes, Journals, Did
<1>4. PICK a \in Minted' \ Minted :
          /\ receipt'[a].status = "HELD_PLEDGE_PENDING"
          /\ receipt'[a].quantity = n
          /\ receipt'[a].sourceTxn = v
          /\ receipt'[a].sourceEvent = k
          /\ \A b \in Minted' \ (Minted \cup {a}) :
                /\ receipt'[b].status = "ACTIVE"
                /\ receipt'[b].sourceTxn = None
                /\ receipt'[b].sourceEvent = k
  BY <1>2 DEF Reserves
<1>5. \A p \in Pledge : p # None
  BY CollateralAssumption, NoneAssumption
<1>6. /\ ~IsHeld(r) /\ ~IsHeld(r)' /\ IsHeld(a)' /\ Own(a, v)' /\ Placed(a, v)'
      /\ \A b \in Minted' \ (Minted \cup {a}) :
            ~IsHeld(b)' /\ \A p \in Pledge : ~Own(b, p)'
      /\ \A p \in Pledge : p # v => ~Own(a, p)'
  <2>1. receipt[r] \in Row
    BY <1>1, BoundsAssumption DEF RowInv, LedgerInv, TableTypeOK, Minted, Receipt
  <2>2. receipt'[r].status = "SPLIT"
    BY <1>2, <2>1 DEF Reserves, Row
  <2> QED
    BY <1>3, <1>4, <1>5, <2>2, StatusRoles DEF IsHeld, Own, Placed
<1>7. \A x \in Minted : ~Own(x, v)
  BY <1>1, <1>3 DEF GoodsSays
<1>8. ASSUME NEW p \in Pledge
      PROVE  HeldUnder(p)' = IF p = v THEN {a} ELSE HeldUnder(p)
  <2>1. ASSUME NEW x \in Minted
        PROVE  x \in HeldUnder(p)' <=> x \in HeldUnder(p)
    <3>1. x \in Minted' /\ (x # r => receipt'[x] = receipt[x])
      BY <1>2, <2>1 DEF Reserves, Untouched, Grown
    <3> QED
      BY <1>6, <2>1, <3>1 DEF HeldUnder, IsHeld
  <2>2. a \in HeldUnder(p)' <=> p = v
    BY <1>4, <1>6 DEF HeldUnder, Own
  <2>3. \A b \in Minted' \ (Minted \cup {a}) : b \notin HeldUnder(p)'
    BY <1>6 DEF HeldUnder
  <2>4. /\ HeldUnder(p)' \subseteq Minted' /\ HeldUnder(p) \subseteq Minted
        /\ p = v => HeldUnder(p) = {}
    BY <1>7 DEF HeldUnder, Own
  <2>5. CASE p = v
    BY <2>1, <2>2, <2>3, <2>4, <2>5
  <2>6. CASE p # v
    BY <2>1, <2>2, <2>3, <2>4, <2>6
  <2> QED
    BY <2>5, <2>6
<1>9. \A p : ReleasesOf(p)' = ReleasesOf(p)
  BY <1>1, <1>2, <1>3, ReleasesAfter
<1>10. GoodsSays(v)'
  <2>1. ReleasesOf(v) = {}
    <3>1. ASSUME NEW j \in ReleasesOf(v) PROVE FALSE
      <4>1. j \in Key /\ event[j] # NoEvent /\ receipt[event[j].from].sourceTxn = v
        BY <3>1, KeysApart DEF ReleasesOf, NoEvent
      <4> QED
        BY <1>1, <1>7, <4>1 DEF EventsOfMinted, Own
    <3> QED
      BY <3>1
  <2>2. Amount(event', ReleasesOf(v)') = 0 /\ IsFiniteSet(ReleasesOf(v)')
    BY <1>9, <2>1, AmountOfNone, FS_EmptySet
  <2>3. Amount(receipt', HeldUnder(v)') = n /\ n \in Int
    <3>1. n \in Int
      BY BoundsAssumption DEF Quantity
    <3> QED
      BY <1>4, <1>8, <3>1, AmountOfOne
  <2>4. \A x \in Minted' : Own(x, v)' => x = a
    BY <1>6, <1>7, OwnStays, <1>2
  <2>5. (Did(CreateKey(v)) =>
            Amount(event, ReleasesOf(v)) + Amount(receipt, HeldUnder(v))
                = event[CreateKey(v)].quantity)'
    BY <1>3, <2>2, <2>3
  <2>6. (\A x, y \in HeldUnder(v) : x = y)'
    BY <1>8
  <2>7. Did(CreateKey(v))'
    BY <1>3 DEF Writes, Did
  <2> QED
    BY <2>2, <2>4, <2>5, <2>6, <2>7 DEF GoodsSays, Placed
<1>11. ASSUME NEW p \in Pledge, p # v
       PROVE  GoodsSays(p)' /\ (Freed(p) => Freed(p)')
  <2>1. /\ CreateKey(p) \in CollateralKey /\ k # CreateKey(p) /\ GoodsSays(p)
        /\ event'[CreateKey(p)] = event[CreateKey(p)]
    BY <1>1, <1>3, <1>11, KeysApart, KeysDiffer DEF Writes, Journals
  <2>2. \A x \in Minted' \ Minted :
            ~Own(x, p)' /\ receipt'[x].sourceEvent # CreateKey(p)
    BY <1>4, <1>6, <1>11, <2>1
  <2> QED
    BY <1>1, <1>2, <1>8, <1>9, <1>11, <2>1, <2>2, OthersGoods
<1>12. EventsOfMinted' /\ \A j \in Key \ {k} : event'[j] = event[j]
  BY <1>1, <1>2, <1>3, EventsStayMinted
<1>13. Did(k)' /\ ~Freed(v)
  BY <1>3 DEF Writes, Did, Freed
<1>14. \A x \in Minted' \ Minted : receipt'[x].sourceEvent = k
  BY <1>4
<1>15. \A x \in HeldBy(k)' : Placed(x, v)'
  <2> SUFFICES ASSUME NEW x \in HeldBy(k)'
               PROVE  Placed(x, v)'
    OBVIOUS
  <2>1. x \in Minted' /\ receipt'[x].sourceEvent = k /\ IsHeld(x)'
    BY DEF HeldBy
  <2>2. CASE x \in Minted
    <3>1. receipt[x].sourceEvent = k
      BY <1>2, <2>1, <2>2, OwnStays
    <3> QED
      BY <1>1, <1>3, <2>2, <3>1 DEF GoodsSays
  <2> QED
    BY <1>6, <2>1, <2>2
<1> QED
  BY <1>2, <1>10, <1>11, <1>12, <1>13, <1>14, <1>15 DEF KeepsGoods, StockSays, FreedStay

-----------------------------------------------------------------------------
(* The invariant, step by step.  First what every step has in common.      *)

(* The rows of a pledge that a step leaves alone say nothing new.          *)
LEMMA RowKept ==
    ASSUME CollateralInv, Grown, RowsAge, FreedStay, NEW p \in Pledge,
           pledge'[p] = pledge[p], lien'[p] = lien[p]
    PROVE  RowSays(p)'
<1>1. /\ RowSays(p) /\ (Asked(p)' <=> Asked(p)) /\ (HasLien(p)' <=> HasLien(p))
      /\ "accept" \in Deed
  BY DEF CollateralInv, Asked, HasLien, Deed
<1>2. Asked(p) => pledge[p].held \in Minted
  BY DEF CollateralInv, FlowTypeOK, Asked, PledgeRow
<1>3. HasLien(p) => lien[p].receiptId \in Minted
  BY DEF CollateralInv, FlowTypeOK, HasLien, LienRow
<1> QED
  BY <1>1, <1>2, <1>3, KnownStays, KeysApart DEF RowSays

(* The journal and the table of a ledger that does not move.               *)
LEMMA StockStill ==
    ASSUME CollateralInv, UNCHANGED ledgerVars, RowsAge
    PROVE  /\ StockSays' /\ Grown /\ FreedStay
           /\ \A p \in Pledge, op \in Deed : DeedSays(op, p)'
           /\ \A q \in ReleaseRequest, l \in Line : LineSays(q, l)'
<1>1. RowInv' /\ EventsOfMinted'
  BY DEF CollateralInv, ledgerVars, RowInv, LedgerInv, JournalTypeOK, TableTypeOK,
         TreeShape, SplitConservation, ConservedAt, Children, Minted, RowsSettled, EventsOfMinted
<1>2. /\ Minted' = Minted /\ receipt' = receipt /\ event' = event
      /\ \A p : HeldUnder(p)' = HeldUnder(p) /\ ReleasesOf(p)' = ReleasesOf(p)
      /\ \A k : HeldBy(k)' = HeldBy(k)
      /\ \A p : Freed(p)' <=> Freed(p)
  BY DEF ledgerVars, Minted, HeldUnder, ReleasesOf, HeldBy, IsHeld, Freed, Did
<1>3. ASSUME NEW p \in Pledge
      PROVE  GoodsSays(p)'
  BY <1>2 DEF CollateralInv, GoodsSays, Own, Placed, Did
<1>4. ASSUME NEW p \in Pledge, NEW op \in Deed
      PROVE  DeedSays(op, p)'
  <2>1. DeedSays(op, p) /\ (Asked(p) => Asked(p)' /\ pledge'[p].held = pledge[p].held)
    BY DEF CollateralInv, RowsAge, Asked
  <2> QED
    BY <1>2, <2>1 DEF DeedSays, Own, Did
<1>5. ASSUME NEW q \in ReleaseRequest, NEW l \in Line
      PROVE  LineSays(q, l)'
  <2>1. /\ LineSays(q, l)
        /\ Wants(q, l) => Wants(q, l)' /\ LienOf(q, l)' = LienOf(q, l)
    BY DEF CollateralInv, RowsAge, Wants, LienOf
  <2>2. Freed(LienOf(q, l)) /\ Wants(q, l) => Freed(LienOf(q, l))'
    BY <1>2, <2>1
  <2> QED
    BY <1>2, <2>1, <2>2 DEF LineSays, Own, Did
<1>6. Grown
  BY StillGrows
<1> QED
  BY <1>1, <1>2, <1>3, <1>4, <1>5, <1>6 DEF StockSays, FreedStay

(* A step of one handler that reads or writes rows.                        *)
LEMMA RowStepKeeps ==
    ASSUME CollateralInv, UNCHANGED ledgerVars, RowsAge,
           pledge' \in [Pledge -> PledgeRow \cup {NoPledge}],
           lien' \in [Pledge -> LienRow \cup {NoLien}],
           request' \in [ReleaseRequest -> RequestRow \cup {NoRequest}],
           \A p \in Pledge : RowSays(p)',
           NEW c \in Call, NEW s \in CallState, call' = [call EXCEPT ![c] = s],
           CallSays(s)'
    PROVE  CollateralInv'
<1>1. /\ StockSays' /\ Grown /\ FreedStay
      /\ \A p \in Pledge, op \in Deed : DeedSays(op, p)'
      /\ \A q \in ReleaseRequest, l \in Line : LineSays(q, l)'
  BY StockStill
<1>2. FlowTypeOK /\ \A d \in Call : call[d] \in CallState /\ CallSays(call[d])
  BY DEF CollateralInv, FlowTypeOK
<1>3. /\ Minted' = Minted /\ PledgeRow' = PledgeRow /\ LienRow' = LienRow
  BY DEF ledgerVars, Minted, PledgeRow, LienRow
<1>4. \A d \in Call : (call[d] \in CallState /\ CallSays(call[d]))'
  <2>1. call'[c] = s /\ \A d \in Call \ {c} : call'[d] = call[d]
    BY <1>2 DEF FlowTypeOK
  <2>2. s \in CallState'
    BY <1>1, StateStays DEF Grown
  <2>3. ASSUME NEW d \in Call, d # c
        PROVE  (call[d] \in CallState /\ CallSays(call[d]))'
    <3>1. PICK t \in CallState : t = call[d] /\ CallSays(t)
      BY <1>2
    <3>2. t \in CallState' /\ CallSays(t)'
      BY <1>1, <1>2, <3>1, SaysStay
    <3>3. call'[d] = t
      BY <2>1, <2>3, <3>1
    <3> QED
      BY <3>2, <3>3
  <2>4. (call[c] \in CallState /\ CallSays(call[c]))'
    BY <2>1, <2>2
  <2> QED
    BY <2>3, <2>4
<1>5. FlowTypeOK'
  BY <1>2, <1>3, <1>4 DEF FlowTypeOK
<1> QED
  BY <1>1, <1>4, <1>5 DEF CollateralInv, StockSays

(* A handler that only reads.                                              *)
LEMMA ReadingKeeps ==
    ASSUME CollateralInv, Reading, NEW c \in Call, NEW s \in CallState,
           call' = [call EXCEPT ![c] = s], CallSays(s)
    PROVE  CollateralInv'
<1>1. UNCHANGED ledgerVars /\ UNCHANGED <<pledge, lien, request>> /\ FlowTypeOK
  BY DEF Reading, CollateralInv
<1>2. RowsAge /\ Grown /\ FreedStay
  BY <1>1, SameRowsAge, StockStill
<1>3. \A p \in Pledge : RowSays(p)'
  BY <1>1, <1>2, RowKept
<1>4. CallSays(s)'
  BY <1>1, <1>2, SaysStay
<1> QED
  BY <1>1, <1>2, <1>3, <1>4, RowStepKeeps DEF FlowTypeOK

(* What was done under other keys was done, and to the same goods.         *)
LEMMA OtherDeeds ==
    ASSUME CollateralInv, NEW k \in CollateralKey, KeepsGoods(k),
           UNCHANGED <<pledge, lien, request>>
    PROVE  /\ \A p \in Pledge, op \in Deed : DeedKey(op, p) # k => DeedSays(op, p)'
           /\ \A q \in ReleaseRequest, l \in Line :
                 k \notin {FullKey(q, l), PartialKey(q, l)} => LineSays(q, l)'
<1>1. Grown /\ FreedStay /\ RowsAge /\ FlowTypeOK /\ EventsOfMinted
  BY SameRowsAge DEF KeepsGoods, CollateralInv
<1>2. ASSUME NEW p \in Pledge, NEW op \in Deed, DeedKey(op, p) # k
      PROVE  DeedSays(op, p)'
  <2>1. DeedSays(op, p) /\ event'[DeedKey(op, p)] = event[DeedKey(op, p)]
        /\ DeedKey(op, p) \in Key
    BY <1>2, KeysApart DEF CollateralInv, KeepsGoods
  <2>2. Asked(p)' <=> Asked(p)
    BY DEF Asked
  <2>3. Did(DeedKey(op, p)) => event[DeedKey(op, p)].from \in Minted
    BY <1>1, <2>1 DEF EventsOfMinted, Did
  <2>4. Did(DeedKey(op, p)) /\ Own(event[DeedKey(op, p)].from, p)
            => receipt'[event[DeedKey(op, p)].from].sourceTxn = p
    BY <1>1, <2>3, OwnStays DEF Own
  <2> QED
    BY <1>1, <2>1, <2>2, <2>4 DEF DeedSays, FreedStay, Did, Own
<1>3. ASSUME NEW q \in ReleaseRequest, NEW l \in Line, k \notin {FullKey(q, l), PartialKey(q, l)}
      PROVE  LineSays(q, l)'
  <2>1. LineSays(q, l)
    BY DEF CollateralInv
  <2>2. \A j \in {FullKey(q, l), PartialKey(q, l)} : j \in Key /\ event'[j] = event[j]
    BY <1>3, KeysApart DEF KeepsGoods
  <2>3. /\ Wants(q, l)' <=> Wants(q, l)
        /\ LienOf(q, l)' = LienOf(q, l)
    BY DEF Wants, LienOf
  <2>4. \A j \in {FullKey(q, l), PartialKey(q, l)} :
            Did(j) /\ Own(event[j].from, LienOf(q, l))
                => receipt'[event[j].from].sourceTxn = LienOf(q, l)
    BY <1>1, <2>2, OwnStays DEF EventsOfMinted, Did, Own
  <2>5. ASSUME NEW r \in HeldBy(PartialKey(q, l))'
        PROVE  r \in HeldBy(PartialKey(q, l)) /\ r \in Minted
               /\ (Own(r, LienOf(q, l)) => receipt'[r].sourceTxn = LienOf(q, l))
    <3>1. r \in Minted' /\ receipt'[r].sourceEvent = PartialKey(q, l) /\ IsHeld(r)'
      BY <2>5 DEF HeldBy
    <3>2. r \in Minted
      BY <1>3, <3>1 DEF KeepsGoods
    <3>3. receipt[r].sourceEvent = PartialKey(q, l) /\ IsHeld(r)
      BY <1>1, <3>1, <3>2, OwnStays
    <3> QED
      BY <1>1, <3>2, <3>3, OwnStays DEF HeldBy, Own
  <2>6. Wants(q, l) => LienOf(q, l) \in Pledge
    BY <1>1, LinesStay DEF Wants
  <2>7. Did(FullKey(q, l)) => Wants(q, l) /\ Freed(LienOf(q, l))
    BY <2>1 DEF LineSays
  <2>8. Did(FullKey(q, l)) => Freed(LienOf(q, l))'
    <3> SUFFICES ASSUME Did(FullKey(q, l))
                 PROVE  Freed(LienOf(q, l))'
      OBVIOUS
    <3>1. PICK p \in Pledge : p = LienOf(q, l)
      BY <2>6, <2>7
    <3>2. Freed(p)'
      BY <1>1, <2>7, <3>1 DEF FreedStay
    <3> QED
      BY <2>3, <3>1, <3>2
  <2>9. (\A j \in {FullKey(q, l), PartialKey(q, l)} :
            Did(j) => Wants(q, l) /\ Own(event[j].from, LienOf(q, l)))'
    BY <2>1, <2>2, <2>3, <2>4 DEF LineSays, Did, Own
  <2>10. (Did(FullKey(q, l)) => Freed(LienOf(q, l)))'
    BY <2>2, <2>8 DEF Did
  <2>11. (\A r \in HeldBy(PartialKey(q, l)) : Wants(q, l) /\ Own(r, LienOf(q, l)))'
    BY <2>1, <2>3, <2>5 DEF LineSays, Own
  <2> QED
    BY <2>9, <2>10, <2>11 DEF LineSays
<1> QED
  BY <1>2, <1>3

(* A step of one handler that calls the ledger: it must be right about its *)
(* own key, and about what it remembers of the answer.                     *)
LEMMA LedgerStepKeeps ==
    ASSUME CollateralInv, NEW k \in CollateralKey, KeepsGoods(k),
           UNCHANGED <<pledge, lien, request>>,
           NEW c \in Call, NEW s \in CallState', call' = [call EXCEPT ![c] = s],
           CallSays(s)',
           \A p \in Pledge, op \in Deed : DeedKey(op, p) = k => DeedSays(op, p)',
           \A q \in ReleaseRequest, l \in Line :
              k \in {FullKey(q, l), PartialKey(q, l)} => LineSays(q, l)'
    PROVE  CollateralInv'
<1>1. StockSays' /\ Grown /\ FreedStay /\ RowsAge
  BY SameRowsAge DEF KeepsGoods
<1>2. FlowTypeOK /\ \A d \in Call : call[d] \in CallState /\ CallSays(call[d])
  BY DEF CollateralInv, FlowTypeOK
<1>3. /\ \A p \in Pledge, op \in Deed : DeedSays(op, p)'
      /\ \A q \in ReleaseRequest, l \in Line : LineSays(q, l)'
  BY OtherDeeds
<1>4. \A p \in Pledge : RowSays(p)'
  BY <1>1, RowKept
<1>5. \A d \in Call : (call[d] \in CallState /\ CallSays(call[d]))'
  <2>1. call'[c] = s /\ \A d \in Call \ {c} : call'[d] = call[d]
    BY <1>2 DEF FlowTypeOK
  <2>2. ASSUME NEW d \in Call, d # c
        PROVE  (call[d] \in CallState /\ CallSays(call[d]))'
    <3>1. PICK t \in CallState : t = call[d] /\ CallSays(t)
      BY <1>2
    <3>2. t \in CallState' /\ CallSays(t)'
      BY <1>1, <1>2, <3>1, SaysStay
    <3>3. call'[d] = t
      BY <2>1, <2>2, <3>1
    <3> QED
      BY <3>2, <3>3
  <2>3. (call[c] \in CallState /\ CallSays(call[c]))'
    BY <2>1
  <2> QED
    BY <2>2, <2>3
<1>6. FlowTypeOK'
  <2>1. PledgeRow \subseteq PledgeRow' /\ LienRow \subseteq LienRow'
    BY <1>1 DEF Grown, PledgeRow, LienRow
  <2>2. /\ pledge' \in [Pledge -> (PledgeRow \cup {NoPledge})']
        /\ lien' \in [Pledge -> (LienRow \cup {NoLien})']
        /\ request' \in [ReleaseRequest -> RequestRow \cup {NoRequest}]
    BY <1>2, <2>1 DEF FlowTypeOK, NoPledge, NoLien
  <2>3. call' \in [Call -> CallState']
    BY <1>2, <1>5 DEF FlowTypeOK
  <2> QED
    BY <2>2, <2>3 DEF FlowTypeOK
<1> QED
  BY <1>1, <1>3, <1>4, <1>5, <1>6 DEF CollateralInv, StockSays

-----------------------------------------------------------------------------
(* Handlers that only read.                                                *)

LEMMA AbortKeeps ==
    ASSUME CollateralInv, NEW c \in Call, Abort(c)
    PROVE  CollateralInv'
<1>1. Idle \in CallState /\ CallSays(Idle)
  BY DEF CallState, CallSays, Idle
<1> QED
  BY <1>1, ReadingKeeps DEF Abort, Abandon, Return, Reading

LEMMA CallTyped ==
    ASSUME CollateralInv, NEW c \in Call
    PROVE  call[c] \in CallState /\ CallSays(call[c]) /\ FlowTypeOK
  BY DEF CollateralInv, FlowTypeOK

(* A handler that takes the next step of its operation.                    *)
LEMMA StepsOn ==
    ASSUME NEW s \in CallState
    PROVE  /\ s \in PickCall => [s EXCEPT !.step = "hold"] \in PickCall
           /\ s \in DeclineCall => [s EXCEPT !.step = "update"] \in DeclineCall
           /\ s \in AcceptCall => [s EXCEPT !.step = "lien"] \in AcceptCall
           /\ s \in AskCall => [s EXCEPT !.step = "insert"] \in AskCall
           /\ s \in ForceCall => [s EXCEPT !.step = "lien"] \in ForceCall
<1>1. ASSUME s \in PickCall PROVE [s EXCEPT !.step = "hold"] \in PickCall
  BY <1>1 DEF PickCall
<1>2. ASSUME s \in DeclineCall PROVE [s EXCEPT !.step = "update"] \in DeclineCall
  BY <1>2 DEF DeclineCall
<1>3. ASSUME s \in AcceptCall PROVE [s EXCEPT !.step = "lien"] \in AcceptCall
  BY <1>3 DEF AcceptCall
<1>4. ASSUME s \in AskCall PROVE [s EXCEPT !.step = "insert"] \in AskCall
  BY <1>4 DEF AskCall
<1>5. ASSUME s \in ForceCall PROVE [s EXCEPT !.step = "lien"] \in ForceCall
  BY <1>5 DEF ForceCall
<1> QED
  BY <1>1, <1>2, <1>3, <1>4, <1>5

LEMMA PledgeReadsKeep ==
    ASSUME CollateralInv, NEW c \in Call,
           \/ \E r \in Minted, n \in Quantity : PledgeLoad(c, r, n)
           \/ PledgeCheck(c)
    PROVE  CollateralInv'
<1>1. ASSUME NEW r \in Minted, NEW n \in Quantity, PledgeLoad(c, r, n)
      PROVE  CollateralInv'
  <2>1. PICK s \in CallState :
            s = [op |-> "pledge", step |-> "available", receiptId |-> r, quantity |-> n]
    BY DEF CallState, PickCall
  <2>2. CallSays(s)
    BY <2>1 DEF CallSays
  <2> QED
    BY <1>1, <2>1, <2>2, ReadingKeeps DEF PledgeLoad, Begin
<1>2. ASSUME PledgeCheck(c)
      PROVE  CollateralInv'
  <2>1. call[c] \in PickCall
    BY <1>2, CallTyped, KindOf DEF PledgeCheck, At
  <2>2. PICK s \in PickCall : s = [call[c] EXCEPT !.step = "hold"]
    BY <2>1, StepsOn, CallTyped
  <2>3. s \in CallState /\ CallSays(s)
    BY <2>2 DEF CallSays, CallState, PickCall
  <2> QED
    BY <1>2, <2>2, <2>3, ReadingKeeps DEF PledgeCheck, Continue
<1> QED
  BY <1>1, <1>2

(* A pledge that is somebody's to decide on exists.                        *)
LEMMA PledgeLoadsKeep ==
    ASSUME CollateralInv, NEW c \in Call, NEW p \in Pledge,
           \/ \E op \in {"cancel", "reject"} : DeclineLoad(c, op, p)
           \/ AcceptLoad(c, p)
    PROVE  CollateralInv'
<1>1. ASSUME NEW op \in {"cancel", "reject"}, DeclineLoad(c, op, p)
      PROVE  CollateralInv'
  <2>1. PICK s \in CallState : s = [op |-> op, step |-> "release", p |-> p]
    BY DEF CallState, DeclineCall
  <2>2. Asked(p)
    BY <1>1 DEF DeclineLoad, Asked, NoPledge
  <2>3. CallSays(s)
    BY <2>1, <2>2 DEF CallSays
  <2> QED
    BY <1>1, <2>1, <2>3, ReadingKeeps DEF DeclineLoad, Begin
<1>2. ASSUME AcceptLoad(c, p)
      PROVE  CollateralInv'
  <2>1. PICK s \in CallState : s = [op |-> "accept", step |-> "transition", p |-> p]
    BY DEF CallState, AcceptCall
  <2>2. Asked(p)
    BY <1>2 DEF AcceptLoad, Asked, NoPledge
  <2>3. CallSays(s)
    BY <2>1, <2>2 DEF CallSays
  <2> QED
    BY <1>2, <2>1, <2>3, ReadingKeeps DEF AcceptLoad, Begin
<1> QED
  BY <1>1, <1>2

LEMMA RequestReadsKeep ==
    ASSUME CollateralInv, NEW c \in Call,
           (\E lines \in Lines : RequestLoad(c, lines)) \/ RequestCheck(c)
    PROVE  CollateralInv'
<1>1. ASSUME NEW lines \in Lines, RequestLoad(c, lines)
      PROVE  CollateralInv'
  <2>1. \A p \in Pledge : lien[p].remaining \in 0..MaxQuantity
    BY BoundsAssumption DEF CollateralInv, FlowTypeOK, LienRow, NoLien
  <2>2. PICK s \in CallState :
            s = [op |-> "ask", step |-> "pending", lines |-> lines,
                 remaining |-> [p \in Pledge |-> lien[p].remaining]]
    BY <2>1 DEF CallState, AskCall
  <2>3. CallSays(s)
    BY <2>2 DEF CallSays
  <2> QED
    BY <1>1, <2>2, <2>3, ReadingKeeps DEF RequestLoad, Begin
<1>2. ASSUME RequestCheck(c)
      PROVE  CollateralInv'
  <2>1. call[c] \in AskCall
    BY <1>2, CallTyped, KindOf DEF RequestCheck, At
  <2>2. PICK s \in AskCall : s = [call[c] EXCEPT !.step = "insert"]
    BY <2>1, StepsOn, CallTyped
  <2>3. s \in CallState /\ CallSays(s)
    BY <2>2 DEF CallSays, CallState, AskCall
  <2> QED
    BY <1>2, <2>2, <2>3, ReadingKeeps DEF RequestCheck, Continue
<1> QED
  BY <1>1, <1>2

LEMMA CloseLoadKeeps ==
    ASSUME CollateralInv, NEW c \in Call, NEW q \in ReleaseRequest,
           NEW op \in {"withdraw", "refuse"}, CloseLoad(c, op, q)
    PROVE  CollateralInv'
<1>1. PICK s \in CallState : s = [op |-> op, step |-> "update", q |-> q]
  BY DEF CallState, CloseCall
<1>2. CallSays(s)
  BY <1>1 DEF CallSays, CloseLoad, NoRequest
<1> QED
  BY <1>1, <1>2, ReadingKeeps DEF CloseLoad, Begin

(* Every line of a request that can be approved is on a lien with enough   *)
(* left, in the snapshot the approval takes.                               *)
LEMMA ApproveLoadKeeps ==
    ASSUME CollateralInv, NEW c \in Call, NEW q \in ReleaseRequest, ApproveLoad(c, q)
    PROVE  CollateralInv'
<1>1. request[q] # NoRequest /\ FlowTypeOK
  BY DEF ApproveLoad, NoRequest, CollateralInv
<1>2. request[q].lines \in Lines /\ DOMAIN request[q].lines \subseteq Line
  BY <1>1 DEF FlowTypeOK, RequestRow, Lines
<1>3. PICK s \in CallState :
          s = [op |-> "approve", step |-> "line", q |-> q,
               todo |-> DOMAIN request[q].lines, seen |-> lien]
  BY <1>1, <1>2 DEF CallState, LineCall, FlowTypeOK
<1>4. ASSUME NEW l \in DOMAIN request[q].lines
      PROVE  LET seen == lien[LienOf(q, l)]
             IN  /\ seen # NoLien /\ HasLien(LienOf(q, l))
                 /\ Own(seen.receiptId, LienOf(q, l))
                 /\ request[q].lines[l].quantity <= seen.remaining
  <2>1. LienOf(q, l) \in Pledge
    BY <1>2, <1>4 DEF Lines, LienOf
  <2>2. HasLien(LienOf(q, l)) /\ request[q].lines[l].quantity <= lien[LienOf(q, l)].remaining
    BY <1>4 DEF ApproveLoad, LienOf, Standing, HasLien, NoLien
  <2> QED
    BY <2>1, <2>2 DEF CollateralInv, RowSays, HasLien
<1>5. CallSays(s)
  BY <1>1, <1>3, <1>4 DEF CallSays
<1> QED
  BY <1>3, <1>5, ReadingKeeps DEF ApproveLoad, Begin

LEMMA ForceLoadKeeps ==
    ASSUME CollateralInv, NEW c \in Call, NEW p \in Pledge, ForceLoad(c, p)
    PROVE  CollateralInv'
<1>1. HasLien(p) /\ RowSays(p) /\ lien[p].receiptId \in Minted
  BY DEF ForceLoad, HasLien, CollateralInv, FlowTypeOK, LienRow
<1>2. PICK s \in CallState :
          s = [op |-> "force", step |-> "release", p |-> p, receiptId |-> lien[p].receiptId]
  BY <1>1 DEF CallState, ForceCall
<1>3. CallSays(s)
  BY <1>1, <1>2 DEF CallSays, RowSays
<1> QED
  BY <1>2, <1>3, ReadingKeeps DEF ForceLoad, Begin

(* The clean-up lists pledges that exist, and skips one that fails.        *)
LEMMA ExpireReadsKeep ==
    ASSUME CollateralInv, ExpireFind \/ \E p \in Pledge : ExpireCatch(p)
    PROVE  CollateralInv'
<1>0. Cron \in Call
  BY CollateralAssumption
<1>1. ASSUME ExpireFind
      PROVE  CollateralInv'
  <2>1. PICK s \in CallState :
            s = [op |-> "expire", step |-> "release", todo |-> {p \in Pledge : Stale(p)}]
    BY DEF CallState, RoundCall
  <2>2. \A p \in Pledge : Stale(p) => Asked(p)
    BY DEF Stale, Asked, NoPledge
  <2>3. CallSays(s)
    BY <2>1, <2>2 DEF CallSays
  <2> QED
    BY <1>0, <1>1, <2>1, <2>3, ReadingKeeps DEF ExpireFind, Begin
<1>2. ASSUME NEW p \in Pledge, ExpireCatch(p)
      PROVE  CollateralInv'
  <2>1. call[Cron].op = "expire" /\ ExpireDone(p) /\ Reading
    BY <1>2 DEF ExpireCatch, At
  <2>2. /\ call[Cron].todo \subseteq Pledge
        /\ \A v \in call[Cron].todo : Asked(v)
    BY <1>0, <2>1, CallTyped, KindOf DEF CallSays, RoundCall, ExpireCall
  <2>3. PICK s \in CallState : /\ call' = [call EXCEPT ![Cron] = s]
                               /\ s = Idle \/ s = [op |-> "expire", step |-> "release",
                                                   todo |-> call[Cron].todo \ {p}]
    BY <2>1, <2>2 DEF ExpireDone, Return, Continue, CallState, RoundCall
  <2>4. CallSays(s)
    BY <2>2, <2>3 DEF CallSays, Idle
  <2> QED
    BY <1>0, <2>1, <2>3, <2>4, ReadingKeeps
<1> QED
  BY <1>1, <1>2

-----------------------------------------------------------------------------
(* Handlers that call the ledger.                                          *)

(* The hold of a new pledge.                                               *)
LEMMA PledgeHoldKeeps ==
    ASSUME CollateralInv, NEW c \in Call, NEW p \in Pledge, PledgeHold(c, p)
    PROVE  CollateralInv'
<1>1. PICK t \in CallState : t = call[c] /\ t \in PickCall
  BY CallTyped, KindOf DEF PledgeHold, At
<1>2. t.receiptId \in Minted /\ t.quantity \in Quantity
  BY <1>1 DEF PickCall
<1>3. /\ KeepsGoods(CreateKey(p))
      /\ \A x \in HeldBy(CreateKey(p))' : Placed(x, p)'
  BY <1>1, <1>2, HoldKeepsGoods DEF CollateralInv, StockSays, PledgeHold
<1>4. PICK held \in HeldBy(CreateKey(p))' :
          call' = [call EXCEPT ![c] =
              [op |-> "pledge", step |-> "insert", p |-> p, held |-> held,
               receiptId |-> t.receiptId, quantity |-> t.quantity]]
  BY <1>1 DEF PledgeHold, Continue
<1>5. held \in Minted' /\ Minted \subseteq Minted' /\ Placed(held, p)'
  BY <1>3, <1>4 DEF HeldBy, KeepsGoods, Grown
<1>6. PICK s \in CallState' :
          s = [op |-> "pledge", step |-> "insert", p |-> p, held |-> held,
               receiptId |-> t.receiptId, quantity |-> t.quantity]
  BY <1>2, <1>5 DEF CallState, BornCall
<1>7. CallSays(s)'
  BY <1>5, <1>6 DEF CallSays
<1>8. CreateKey(p) \in CollateralKey /\ UNCHANGED <<pledge, lien, request>>
  BY KeysApart DEF PledgeHold
<1>9. /\ \A v \in Pledge, op \in Deed : DeedKey(op, v) # CreateKey(p)
      /\ \A q \in ReleaseRequest, l \in Line :
            CreateKey(p) \notin {FullKey(q, l), PartialKey(q, l)}
  BY KeysDiffer
<1> QED
  BY <1>3, <1>4, <1>6, <1>7, <1>8, <1>9, LedgerStepKeeps

(* cancel, reject, expire and force release give back the goods of the     *)
(* pledge, or find that they did.                                          *)
LEMMA DeedKeeps ==
    ASSUME CollateralInv, NEW c \in Call, NEW op \in Deed, op # "accept",
           NEW p \in Pledge, Asked(p), NEW r \in Minted, Own(r, p), NEW s \in CallState,
           Ledger(c, Release(DeedKey(op, p), r), DeedKey(op, p), s),
           Grown /\ Did(DeedKey(op, p))' => CallSays(s)'
    PROVE  CollateralInv'
<1> DEFINE k == DeedKey(op, p)
<1>0. k \in CollateralKey /\ UNCHANGED <<pledge, lien, request>>
      /\ call' = [call EXCEPT ![c] = s] /\ FlowTypeOK
  BY KeysApart DEF Ledger, Continue, CollateralInv
<1>1. CASE Release(k, r)
  <2>1. \A v \in Pledge : k # CreateKey(v)
    BY KeysDiffer
  <2>2. KeepsGoods(k) /\ Did(k)' /\ event'[k].from = r /\ Freed(p)'
    BY <1>0, <1>1, <2>1, ReleaseKeepsGoods DEF CollateralInv, StockSays
  <2>3. s \in CallState' /\ CallSays(s)' /\ Own(r, p)' /\ Asked(p)'
    BY <1>0, <2>2, StateStays, OwnStays DEF KeepsGoods, Grown, Asked
  <2>4. DeedSays(op, p)'
    BY <2>2, <2>3 DEF DeedSays, Own
  <2>5. \A v \in Pledge, ov \in Deed : DeedKey(ov, v) = k => DeedSays(ov, v)'
    <3> SUFFICES ASSUME NEW v \in Pledge, NEW ov \in Deed, DeedKey(ov, v) = k
                 PROVE  DeedSays(ov, v)'
      OBVIOUS
    <3>1. ov = op /\ v = p
      BY KeysDiffer
    <3> QED
      BY <2>4, <3>1
  <2>6. \A q \in ReleaseRequest, l \in Line : k \notin {FullKey(q, l), PartialKey(q, l)}
    BY KeysDiffer
  <2> HIDE DEF k
  <2> QED
    BY <1>0, <2>2, <2>3, <2>5, <2>6, LedgerStepKeeps
<1>2. CASE Replay(k)
  <2>1. UNCHANGED ledgerVars /\ Did(k)'
    BY <1>2 DEF Replay, Did, ledgerVars
  <2>2. Grown /\ RowsAge /\ FreedStay
    BY <1>0, <2>1, StillGrows, SameRowsAge, StockStill
  <2>3. \A v \in Pledge : RowSays(v)'
    BY <1>0, <2>2, RowKept
  <2>4. CallSays(s)'
    BY <2>1, <2>2
  <2> QED
    BY <1>0, <2>1, <2>2, <2>3, <2>4, RowStepKeeps DEF FlowTypeOK
<1> QED
  BY <1>1, <1>2 DEF Ledger

LEMMA DeclineReleaseKeeps ==
    ASSUME CollateralInv, NEW c \in Call, NEW op \in {"cancel", "reject"}, DeclineRelease(c, op)
    PROVE  CollateralInv'
<1>1. PICK t \in CallState : t = call[c] /\ t \in DeclineCall /\ CallSays(t) /\ t.op = op
  BY CallTyped, KindOf DEF DeclineRelease, At
<1>2. PICK p \in Pledge : p = t.p /\ Asked(p)
  BY <1>1 DEF DeclineCall, CallSays
<1>3. pledge[p].held \in Minted /\ Own(pledge[p].held, p)
  BY <1>2 DEF CollateralInv, RowSays, Placed, FlowTypeOK, PledgeRow, Asked
<1>4. PICK s \in DeclineCall : s = [t EXCEPT !.step = "update"]
  BY <1>1, StepsOn
<1>5. s \in CallState /\ s.op = op /\ s.p = p /\ op \in Deed /\ op # "accept"
  BY <1>1, <1>2, <1>4 DEF CallState, DeclineCall, Deed
<1>6. Ledger(c, Release(DeedKey(op, p), pledge[p].held), DeedKey(op, p), s)
  BY <1>1, <1>2, <1>4 DEF DeclineRelease, DeclineKey, DeedKey
<1>7. Asked(p)'
  BY <1>2, <1>6 DEF Ledger, Asked
<1>8. Did(DeedKey(op, p))' => CallSays(s)'
  BY <1>5, <1>7 DEF CallSays
<1> QED
  BY <1>2, <1>3, <1>5, <1>6, <1>8, DeedKeeps

LEMMA ExpireReleaseKeeps ==
    ASSUME CollateralInv, NEW p \in Pledge, ExpireRelease(p)
    PROVE  CollateralInv'
<1>0. Cron \in Call
  BY CollateralAssumption
<1>1. PICK t \in CallState : t = call[Cron] /\ t \in RoundCall /\ CallSays(t) /\ p \in t.todo
  BY <1>0, CallTyped, KindOf DEF ExpireRelease, At
<1>2. t.todo \subseteq Pledge /\ \A v \in t.todo : Asked(v)
  BY <1>1 DEF RoundCall, CallSays
<1>3. pledge[p].held \in Minted /\ Own(pledge[p].held, p) /\ Asked(p)
  BY <1>1, <1>2 DEF CollateralInv, RowSays, Placed, FlowTypeOK, PledgeRow, Asked
<1>4. PICK s \in CallState :
          s = [op |-> "expire", step |-> "update", todo |-> t.todo, p |-> p]
  BY <1>2 DEF CallState, ExpireCall
<1>5. Ledger(Cron, Release(DeedKey("expire", p), pledge[p].held), DeedKey("expire", p), s)
  BY <1>1, <1>4 DEF ExpireRelease, DeclineKey, DeedKey
<1>6. \A v \in t.todo : Asked(v)'
  BY <1>2, <1>5 DEF Ledger, Asked
<1>7. Did(DeedKey("expire", p))' => CallSays(s)'
  BY <1>1, <1>4, <1>6 DEF CallSays
<1>8. "expire" \in Deed
  BY DEF Deed
<1> QED
  BY <1>0, <1>3, <1>5, <1>7, <1>8, DeedKeeps

LEMMA ForceReleaseKeeps ==
    ASSUME CollateralInv, NEW c \in Call, ForceReleaseGoods(c)
    PROVE  CollateralInv'
<1>1. PICK t \in CallState : t = call[c] /\ t \in ForceCall /\ CallSays(t)
  BY CallTyped, KindOf DEF ForceReleaseGoods, At
<1>2. PICK p \in Pledge : p = t.p
  BY <1>1 DEF ForceCall
<1>3. t.op = "force" /\ t.receiptId \in Minted /\ Own(t.receiptId, p) /\ HasLien(p)
  BY <1>1, <1>2 DEF ForceCall, CallSays
<1>4. Asked(p)
  BY <1>3 DEF CollateralInv, RowSays
<1>5. PICK s \in ForceCall : s = [t EXCEPT !.step = "lien"]
  BY <1>1, StepsOn
<1>6. s \in CallState /\ s.op = "force" /\ s.p = p /\ s.receiptId = t.receiptId
  BY <1>1, <1>2, <1>5 DEF CallState, ForceCall
<1>7. ForceKey(p) = DeedKey("force", p) /\ "force" \in Deed
  BY KeysApart DEF Deed
<1>8. Ledger(c, Release(DeedKey("force", p), t.receiptId), DeedKey("force", p), s)
  BY <1>1, <1>2, <1>5, <1>7 DEF ForceReleaseGoods
<1>9. HasLien(p)'
  BY <1>3, <1>8 DEF Ledger, HasLien
<1>10. Grown => Own(t.receiptId, p)'
  BY <1>3, OwnStays
<1>11. Did(DeedKey("force", p))' => Did(ForceKey(p))'
  BY <1>7
<1>12. Grown /\ Did(DeedKey("force", p))' => CallSays(s)'
  BY <1>6, <1>9, <1>10, <1>11 DEF CallSays
<1> QED
  BY <1>3, <1>4, <1>6, <1>7, <1>8, <1>12, DeedKeeps

(* An acceptance marks the child its pledge's hold placed, once.           *)
LEMMA AcceptTransitionKeeps ==
    ASSUME CollateralInv, NEW c \in Call, AcceptTransition(c)
    PROVE  CollateralInv'
<1>1. PICK t \in CallState : t = call[c] /\ t \in AcceptCall /\ CallSays(t)
  BY CallTyped, KindOf DEF AcceptTransition, At
<1>2. PICK p \in Pledge : p = t.p
  BY <1>1 DEF AcceptCall
<1>3. t.op = "accept" /\ Asked(p)
  BY <1>1, <1>2 DEF AcceptCall, CallSays
<1>4. PICK r \in Minted : r = pledge[p].held /\ Own(r, p)
  BY <1>2, <1>3 DEF CollateralInv, RowSays, Placed, FlowTypeOK, PledgeRow, Asked
<1>5. PICK s \in AcceptCall : s = [t EXCEPT !.step = "lien"]
  BY <1>1, StepsOn
<1>6. s \in CallState /\ s.op = "accept" /\ s.p = p
  BY <1>1, <1>2, <1>5 DEF CallState, AcceptCall
<1> DEFINE k == AcceptKey(p)
<1>7. Ledger(c, TransitionPledgeToLien(k, r), k, s)
  BY <1>1, <1>2, <1>4, <1>5 DEF AcceptTransition
<1>8. /\ k \in CollateralKey /\ k = DeedKey("accept", p) /\ "accept" \in Deed
      /\ UNCHANGED <<pledge, lien, request>> /\ call' = [call EXCEPT ![c] = s]
  BY <1>7, KeysApart DEF Ledger, Continue, Deed
<1>9. Asked(p)' /\ (Did(k)' => CallSays(s)')
  <2>1. Asked(p)'
    BY <1>3, <1>8 DEF Asked
  <2> QED
    BY <1>6, <2>1 DEF CallSays
<1>10. CASE TransitionPledgeToLien(k, r)
  <2>1. \A v \in Pledge : k # CreateKey(v)
    BY <1>8, KeysDiffer
  <2>2. KeepsGoods(k) /\ Did(k)' /\ event'[k].from = r
    BY <1>8, <1>10, <2>1, TransitionKeepsGoods DEF CollateralInv, StockSays
  <2>3. s \in CallState' /\ Own(r, p)'
    BY <1>4, <1>6, <2>2, StateStays, OwnStays DEF KeepsGoods, Grown
  <2>4. DeedSays("accept", p)'
    BY <1>4, <1>8, <1>9, <2>2, <2>3 DEF DeedSays, Own
  <2>5. \A v \in Pledge, op \in Deed : DeedKey(op, v) = k => DeedSays(op, v)'
    <3> SUFFICES ASSUME NEW v \in Pledge, NEW op \in Deed, DeedKey(op, v) = k
                 PROVE  DeedSays(op, v)'
      OBVIOUS
    <3>1. op = "accept" /\ v = p
      BY <1>8, KeysDiffer
    <3> QED
      BY <2>4, <3>1
  <2>6. \A q \in ReleaseRequest, l \in Line : k \notin {FullKey(q, l), PartialKey(q, l)}
    BY <1>8, KeysDiffer
  <2> HIDE DEF k
  <2> QED
    BY <1>8, <1>9, <2>2, <2>3, <2>5, <2>6, LedgerStepKeeps
<1>11. CASE Replay(k)
  <2>1. UNCHANGED ledgerVars /\ Did(k)' /\ Did(k)
    BY <1>11 DEF Replay, Did, ledgerVars
  <2>2. CallSays(s)
    BY <1>3, <1>6, <2>1 DEF CallSays
  <2> QED
    BY <1>6, <1>8, <2>1, <2>2, ReadingKeeps DEF Reading
<1> QED
  BY <1>7, <1>10, <1>11 DEF Ledger

-----------------------------------------------------------------------------
(* Handlers that write rows.                                               *)

(* The row of an existing pledge is rewritten; it keeps its child.         *)
LEMMA PledgeWriteKeeps ==
    ASSUME CollateralInv, UNCHANGED ledgerVars, UNCHANGED <<lien, request>>,
           NEW p \in Pledge, NEW row \in PledgeRow, pledge' = [pledge EXCEPT ![p] = row],
           Placed(row.held, p),
           row.status \in {"CANCELLED", "REJECTED", "EXPIRED"} => Freed(p),
           row.status = "ACCEPTED" => HasLien(p),
           NEW c \in Call, NEW s \in CallState, call' = [call EXCEPT ![c] = s], CallSays(s)
    PROVE  CollateralInv'
<1>1. /\ FlowTypeOK /\ Grown /\ GoodsSays(p) /\ row # NoPledge
      /\ \A v \in Pledge : RowSays(v)
  BY StillGrows DEF CollateralInv, PledgeRow, PledgeStatus, NoPledge
<1>2. pledge'[p] = row /\ \A v \in Pledge \ {p} : pledge'[v] = pledge[v]
  BY <1>1 DEF FlowTypeOK
<1>3. RowsAge
  <2>1. Asked(p) => pledge[p].held = row.held
    <3> SUFFICES ASSUME Asked(p)
                 PROVE  pledge[p].held = row.held
      OBVIOUS
    <3>1. pledge[p].held \in Minted /\ row.held \in Minted
      BY <1>1 DEF Asked, FlowTypeOK, PledgeRow
    <3> QED
      BY <1>1, <3>1 DEF RowSays, GoodsSays
  <2> QED
    BY <1>1, <1>2, <2>1 DEF RowsAge, Asked, HasLien
<1>4. StockSays' /\ FreedStay
  BY <1>3, StockStill
<1>5. RowSays(p)'
  <2>1. row.held \in Minted /\ (HasLien(p) => lien[p].receiptId \in Minted)
    BY <1>1 DEF PledgeRow, HasLien, FlowTypeOK, LienRow
  <2>2. /\ Asked(p)' /\ Placed(row.held, p)'
        /\ Freed(p) => Freed(p)'
        /\ HasLien(p)' <=> HasLien(p)
        /\ HasLien(p) => Own(lien[p].receiptId, p)'
        /\ Did(AcceptKey(p)) => Did(AcceptKey(p))'
    <3>1. "accept" \in Deed
      BY DEF Deed
    <3>2. Asked(p)' /\ (HasLien(p)' <=> HasLien(p))
      BY <1>1, <1>2 DEF Asked, HasLien
    <3>3. HasLien(p) => Own(lien[p].receiptId, p)
      BY <1>1 DEF RowSays
    <3> QED
      BY <1>1, <1>3, <1>4, <2>1, <3>1, <3>2, <3>3, KnownStays, KeysApart
  <2> QED
    BY <1>1, <1>2, <2>2 DEF RowSays
<1>6. \A v \in Pledge : RowSays(v)'
  <2>1. ASSUME NEW v \in Pledge, v # p
        PROVE  RowSays(v)'
    <3>1. pledge'[v] = pledge[v] /\ lien'[v] = lien[v]
      BY <1>2, <2>1
    <3> QED
      BY <1>1, <1>3, <1>4, <3>1, RowKept
  <2> QED
    BY <1>5, <2>1
<1>7. CallSays(s)'
  BY <1>1, <1>3, <1>4, SaysStay
<1>8. /\ pledge' \in [Pledge -> PledgeRow \cup {NoPledge}]
      /\ lien' \in [Pledge -> LienRow \cup {NoLien}]
      /\ request' \in [ReleaseRequest -> RequestRow \cup {NoRequest}]
  BY <1>1 DEF FlowTypeOK
<1> QED
  BY <1>3, <1>6, <1>7, <1>8, RowStepKeeps

LEMMA NothingInHand == Idle \in CallState /\ CallSays(Idle)
  BY DEF CallState, CallSays, Idle

(* The row is written after the hold: with the child it placed.            *)
LEMMA PledgeInsertKeeps ==
    ASSUME CollateralInv, NEW c \in Call, PledgeInsert(c)
    PROVE  CollateralInv'
<1>1. PICK t \in CallState : t = call[c] /\ t \in BornCall /\ CallSays(t)
  BY CallTyped, KindOf DEF PledgeInsert, At
<1>2. PICK p \in Pledge : p = t.p
  BY <1>1 DEF BornCall
<1>3. Placed(t.held, p)
  BY <1>1, <1>2 DEF BornCall, CallSays
<1>4. PICK row \in PledgeRow :
          row = [status |-> "PENDING", receiptId |-> t.receiptId, held |-> t.held,
                 quantity |-> t.quantity, live |-> TRUE]
  BY <1>1 DEF PledgeRow, BornCall, PledgeStatus, Quantity
<1>5. /\ pledge' = [pledge EXCEPT ![p] = row] /\ call' = [call EXCEPT ![c] = Idle]
      /\ UNCHANGED ledgerVars /\ UNCHANGED <<lien, request>>
  BY <1>1, <1>2, <1>4 DEF PledgeInsert, Return
<1> QED
  BY <1>3, <1>4, <1>5, NothingInHand, PledgeWriteKeeps

(* A pledge that gets a status keeps the rest of its row.                  *)
LEMMA StatusRow ==
    ASSUME CollateralInv, NEW p \in Pledge, Asked(p), NEW status \in PledgeStatus
    PROVE  /\ [pledge[p] EXCEPT !.status = status] \in PledgeRow
           /\ [pledge[p] EXCEPT !.status = status].status = status
           /\ Placed([pledge[p] EXCEPT !.status = status].held, p)
           /\ [pledge EXCEPT ![p].status = status]
                  = [pledge EXCEPT ![p] = [pledge[p] EXCEPT !.status = status]]
<1>1. PICK row \in PledgeRow : row = pledge[p]
  BY DEF CollateralInv, FlowTypeOK, Asked
<1>2. Placed(row.held, p)
  BY <1>1 DEF CollateralInv, RowSays
<1>3. /\ [row EXCEPT !.status = status] \in PledgeRow
      /\ [row EXCEPT !.status = status].status = status
      /\ [row EXCEPT !.status = status].held = row.held
  BY DEF PledgeRow
<1> QED
  BY <1>1, <1>2, <1>3

(* cancel, reject and expire close the row when the goods are back.        *)
LEMMA DeclineUpdateKeeps ==
    ASSUME CollateralInv, NEW c \in Call, NEW op \in {"cancel", "reject"}, DeclineUpdate(c, op)
    PROVE  CollateralInv'
<1>1. PICK t \in CallState : t = call[c] /\ t \in DeclineCall /\ CallSays(t) /\ t.op = op
                               /\ t.step = "update"
  BY CallTyped, KindOf DEF DeclineUpdate, At
<1>2. PICK p \in Pledge : p = t.p /\ Asked(p) /\ Did(DeedKey(op, p))
  BY <1>1 DEF DeclineCall, CallSays
<1>3. Freed(p)
  <2>1. op \in Deed /\ op # "accept"
    BY DEF Deed
  <2> QED
    BY <1>2, <2>1 DEF CollateralInv, DeedSays
<1>4. Outcome[op] \in {"CANCELLED", "REJECTED"} /\ Outcome[op] \in PledgeStatus
  BY DEF Outcome, PledgeStatus
<1>5. /\ pledge' = [pledge EXCEPT ![p].status = Outcome[op]]
      /\ call' = [call EXCEPT ![c] = Idle]
      /\ UNCHANGED ledgerVars /\ UNCHANGED <<lien, request>>
  BY <1>1, <1>2 DEF DeclineUpdate, Return
<1>6. PICK row \in PledgeRow : /\ row.status = Outcome[op] /\ Placed(row.held, p)
                               /\ pledge' = [pledge EXCEPT ![p] = row]
  BY <1>2, <1>4, <1>5, StatusRow
<1> QED
  BY <1>3, <1>4, <1>5, <1>6, NothingInHand, PledgeWriteKeeps

LEMMA ExpireUpdateKeeps ==
    ASSUME CollateralInv, NEW p \in Pledge, ExpireUpdate(p)
    PROVE  CollateralInv'
<1>0. Cron \in Call
  BY CollateralAssumption
<1>1. PICK t \in CallState : /\ t = call[Cron] /\ t \in ExpireCall /\ CallSays(t)
                             /\ t.step = "update" /\ t.p = p
  BY <1>0, CallTyped, KindOf DEF ExpireUpdate, At
<1>2. /\ t.todo \subseteq Pledge /\ \A v \in t.todo : Asked(v)
      /\ Asked(p) /\ Did(DeedKey("expire", p))
  BY <1>1 DEF ExpireCall, CallSays
<1>3. Freed(p)
  <2>1. "expire" \in Deed
    BY DEF Deed
  <2> QED
    BY <1>2, <2>1 DEF CollateralInv, DeedSays
<1>4. PICK s \in CallState : /\ call' = [call EXCEPT ![Cron] = s]
                             /\ s = Idle \/ s = [op |-> "expire", step |-> "release",
                                                 todo |-> t.todo \ {p}]
  BY <1>1, <1>2 DEF ExpireUpdate, ExpireDone, Return, Continue, CallState, RoundCall
<1>5. CallSays(s)
  BY <1>2, <1>4 DEF CallSays, Idle
<1>6. /\ pledge' = [pledge EXCEPT ![p].status = "EXPIRED"] /\ "EXPIRED" \in PledgeStatus
      /\ UNCHANGED ledgerVars /\ UNCHANGED <<lien, request>>
  BY DEF ExpireUpdate, PledgeStatus
<1>7. PICK row \in PledgeRow : /\ row.status = "EXPIRED" /\ Placed(row.held, p)
                               /\ pledge' = [pledge EXCEPT ![p] = row]
  BY <1>2, <1>6, StatusRow
<1> QED
  BY <1>0, <1>3, <1>4, <1>5, <1>6, <1>7, PledgeWriteKeeps

(* Time passes for a pledge; no handler moves.                             *)
LEMMA LapseKeeps ==
    ASSUME CollateralInv, NEW p \in Pledge, Lapse(p)
    PROVE  CollateralInv'
<1>0. Cron \in Call
  BY CollateralAssumption
<1>1. PICK row \in PledgeRow : row = pledge[p]
  BY DEF CollateralInv, FlowTypeOK, Lapse, NoPledge
<1>2. Asked(p)
  BY <1>1 DEF Asked, PledgeRow, PledgeStatus, NoPledge
<1>3. PICK new \in PledgeRow : new = [row EXCEPT !.live = FALSE]
  BY DEF PledgeRow
<1>4. new.status = row.status /\ new.held = row.held
  BY <1>3 DEF PledgeRow
<1>5. pledge' = [pledge EXCEPT ![p] = new]
  BY <1>1, <1>3 DEF Lapse
<1>6. PICK s \in CallState : s = call[Cron] /\ CallSays(s)
  BY <1>0, CallTyped
<1>7. call' = [call EXCEPT ![Cron] = s]
  BY <1>0, <1>6 DEF Lapse, CollateralInv, FlowTypeOK
<1>8. UNCHANGED ledgerVars /\ UNCHANGED <<lien, request>> /\ RowSays(p)
  BY DEF Lapse, CollateralInv
<1>9. /\ Placed(new.held, p)
      /\ new.status \in {"CANCELLED", "REJECTED", "EXPIRED"} => Freed(p)
      /\ new.status = "ACCEPTED" => HasLien(p)
  BY <1>1, <1>2, <1>4, <1>8 DEF RowSays
<1> QED
  BY <1>0, <1>3, <1>5, <1>6, <1>7, <1>8, <1>9, PledgeWriteKeeps

(* The lien of a pledge is inserted once, with the child of the pledge.    *)
LEMMA AcceptInsertKeeps ==
    ASSUME CollateralInv, NEW c \in Call, AcceptInsert(c)
    PROVE  CollateralInv'
<1>1. PICK t \in CallState : t = call[c] /\ t \in AcceptCall /\ CallSays(t) /\ t.step = "lien"
  BY CallTyped, KindOf DEF AcceptInsert, At
<1>2. PICK p \in Pledge : p = t.p /\ Asked(p) /\ Did(AcceptKey(p))
  BY <1>1 DEF AcceptCall, CallSays
<1>3. PICK row \in PledgeRow : row = pledge[p] /\ Placed(row.held, p)
  BY <1>2 DEF CollateralInv, FlowTypeOK, RowSays, Asked
<1>4. PICK new \in PledgeRow : /\ new = [row EXCEPT !.status = "ACCEPTED"]
                               /\ new.held = row.held /\ new.status = "ACCEPTED"
  <2>1. "ACCEPTED" \in PledgeStatus
    BY DEF PledgeStatus
  <2>2. /\ [row EXCEPT !.status = "ACCEPTED"] \in PledgeRow
        /\ [row EXCEPT !.status = "ACCEPTED"].held = row.held
        /\ [row EXCEPT !.status = "ACCEPTED"].status = "ACCEPTED"
    BY <2>1 DEF PledgeRow
  <2> QED
    BY <2>2
<1>5. PICK ln \in LienRow : ln = [status |-> "ACTIVE", receiptId |-> row.held,
                                  remaining |-> row.quantity, forced |-> FALSE]
  <2>1. row.held \in Minted /\ row.quantity \in 0..MaxQuantity /\ "ACTIVE" \in LienStatus
    BY BoundsAssumption DEF PledgeRow, LienStatus
  <2> QED
    BY <2>1 DEF LienRow
<1>6. ln.remaining # 0 /\ ln.receiptId = row.held /\ row.held \in Minted
  BY <1>5, BoundsAssumption DEF PledgeRow
<1>7. /\ lien[p] = NoLien
      /\ lien' = [lien EXCEPT ![p] = ln] /\ pledge' = [pledge EXCEPT ![p] = new]
      /\ call' = [call EXCEPT ![c] = Idle]
      /\ UNCHANGED ledgerVars /\ request' = request
  BY <1>1, <1>2, <1>3, <1>4, <1>5 DEF AcceptInsert, Return
<1>8. FlowTypeOK /\ Grown
  BY <1>7, StillGrows DEF CollateralInv
<1>9. /\ pledge'[p] = new /\ lien'[p] = ln
      /\ \A v \in Pledge \ {p} : pledge'[v] = pledge[v] /\ lien'[v] = lien[v]
  BY <1>7, <1>8 DEF FlowTypeOK
<1>10. new # NoPledge /\ ln # NoLien
  BY DEF PledgeRow, PledgeStatus, NoPledge, LienRow, LienStatus, NoLien
<1>11. RowsAge
  <2>1. \A v \in Pledge :
            /\ Asked(v) => pledge'[v] # NoPledge /\ pledge'[v].held = pledge[v].held
            /\ HasLien(v) => lien'[v] # NoLien
    BY <1>3, <1>4, <1>9, <1>10 DEF Asked, HasLien
  <2> QED
    BY <1>7, <2>1 DEF RowsAge
<1>12. StockSays' /\ FreedStay
  BY <1>7, <1>11, StockStill
<1>13. RowSays(p)'
  <2>1. Placed(row.held, p)' /\ Own(row.held, p)' /\ Did(AcceptKey(p))'
    <3>1. "accept" \in Deed /\ Own(row.held, p)
      BY <1>3 DEF Deed, Placed
    <3> QED
      BY <1>2, <1>3, <1>6, <1>8, <1>11, <1>12, <3>1, KnownStays, KeysApart
  <2>2. Asked(p)' /\ HasLien(p)'
    BY <1>9, <1>10 DEF Asked, HasLien
  <2> QED
    BY <1>4, <1>6, <1>9, <2>1, <2>2 DEF RowSays
<1>14. \A v \in Pledge : RowSays(v)'
  <2>1. ASSUME NEW v \in Pledge, v # p
        PROVE  RowSays(v)'
    BY <1>8, <1>9, <1>11, <1>12, <2>1, RowKept
  <2> QED
    BY <1>13, <2>1
<1>15. CallSays(Idle)'
  BY DEF CallSays, Idle
<1>16. /\ pledge' \in [Pledge -> PledgeRow \cup {NoPledge}]
       /\ lien' \in [Pledge -> LienRow \cup {NoLien}]
       /\ request' \in [ReleaseRequest -> RequestRow \cup {NoRequest}]
  BY <1>7, <1>8 DEF FlowTypeOK
<1> QED
  BY <1>7, <1>11, <1>14, <1>15, <1>16, NothingInHand, RowStepKeeps

(* A lien is rewritten: with a receipt of its pledge, and nothing left on  *)
(* it only when the goods are back.                                        *)
LEMMA LienWriteKeeps ==
    ASSUME CollateralInv, UNCHANGED ledgerVars, UNCHANGED <<pledge, request>>,
           NEW p \in Pledge, HasLien(p), NEW row \in LienRow,
           lien' = [lien EXCEPT ![p] = row],
           Own(row.receiptId, p), row.remaining = 0 => Freed(p),
           NEW c \in Call, NEW s \in CallState, call' = [call EXCEPT ![c] = s], CallSays(s)
    PROVE  CollateralInv'
<1>1. FlowTypeOK /\ Grown /\ row # NoLien /\ RowSays(p)
  BY StillGrows DEF CollateralInv, LienRow, LienStatus, NoLien
<1>2. lien'[p] = row /\ \A v \in Pledge \ {p} : lien'[v] = lien[v]
  BY <1>1 DEF FlowTypeOK
<1>3. RowsAge
  BY <1>1, <1>2 DEF RowsAge, Asked, HasLien
<1>4. StockSays' /\ FreedStay
  BY <1>3, StockStill
<1>5. RowSays(p)'
  <2>1. /\ Asked(p) /\ Did(AcceptKey(p)) /\ Placed(pledge[p].held, p)
        /\ pledge[p].held \in Minted /\ row.receiptId \in Minted
        /\ pledge[p].status \in {"CANCELLED", "REJECTED", "EXPIRED"} => Freed(p)
    BY <1>1 DEF RowSays, FlowTypeOK, PledgeRow, LienRow, Asked
  <2>2. /\ Placed(pledge[p].held, p)' /\ Own(row.receiptId, p)' /\ Did(AcceptKey(p))'
        /\ Freed(p) => Freed(p)'
    <3>1. "accept" \in Deed
      BY DEF Deed
    <3>2. PICK h \in Minted : h = pledge[p].held /\ Placed(h, p)
      BY <2>1
    <3>3. Placed(h, p)' /\ pledge'[p].held = h
      BY <1>1, <1>3, <1>4, <3>2, KnownStays
    <3> QED
      BY <1>1, <1>3, <1>4, <2>1, <3>1, <3>3, KnownStays, KeysApart
  <2>3. Asked(p)' /\ HasLien(p)'
    BY <1>1, <1>2, <2>1 DEF Asked, HasLien
  <2> QED
    BY <1>2, <2>1, <2>2, <2>3 DEF RowSays
<1>6. \A v \in Pledge : RowSays(v)'
  <2>1. ASSUME NEW v \in Pledge, v # p
        PROVE  RowSays(v)'
    <3>1. pledge'[v] = pledge[v] /\ lien'[v] = lien[v]
      BY <1>2, <2>1
    <3> QED
      BY <1>1, <1>3, <1>4, <3>1, RowKept
  <2> QED
    BY <1>5, <2>1
<1>7. CallSays(s)'
  BY <1>1, <1>3, <1>4, SaysStay
<1>8. /\ pledge' \in [Pledge -> PledgeRow \cup {NoPledge}]
      /\ lien' \in [Pledge -> LienRow \cup {NoLien}]
      /\ request' \in [ReleaseRequest -> RequestRow \cup {NoRequest}]
  BY <1>1 DEF FlowTypeOK
<1> QED
  BY <1>3, <1>6, <1>7, <1>8, RowStepKeeps

(* An approval writes what its ledger call left under the lien.            *)
LEMMA ApproveLienKeeps ==
    ASSUME CollateralInv, NEW c \in Call, ApproveLien(c)
    PROVE  CollateralInv'
<1>1. PICK t \in CallState : t = call[c] /\ t \in LienCall /\ CallSays(t)
  BY CallTyped, KindOf DEF ApproveLien, At
<1>2. PICK p \in Pledge, new \in NewLien : p = t.p /\ new = t.new
  BY <1>1 DEF LienCall
<1>3. /\ HasLien(p) /\ (new.remaining = 0 => Freed(p))
      /\ new.receiptId # NoReceipt => Own(new.receiptId, p)
  BY <1>1, <1>2 DEF LienCall, CallSays
<1>4. PICK old \in LienRow : old = lien[p] /\ Own(old.receiptId, p)
  BY <1>3 DEF CollateralInv, FlowTypeOK, RowSays, HasLien
<1> DEFINE id == IF new.receiptId = NoReceipt THEN old.receiptId ELSE new.receiptId
<1>5. PICK row \in LienRow :
          row = [old EXCEPT !.status = new.status, !.remaining = new.remaining, !.receiptId = id]
  BY DEF LienRow, NewLien
<1>6. Own(row.receiptId, p) /\ (row.remaining = 0 => Freed(p))
  <2>1. row.receiptId = id /\ row.remaining = new.remaining
    BY <1>5 DEF LienRow
  <2> QED
    BY <1>3, <1>4, <2>1
<1>7. lien' = [lien EXCEPT ![p] = row]
  <2>1. lien' = [lien EXCEPT ![p].status = new.status,
                             ![p].remaining = new.remaining,
                             ![p].receiptId = IF new.receiptId = NoReceipt
                                              THEN @ ELSE new.receiptId]
    BY <1>1, <1>2 DEF ApproveLien
  <2> QED
    BY <1>4, <1>5, <2>1 DEF LienRow, CollateralInv, FlowTypeOK
<1>8. PICK s \in CallState :
          s = [op |-> "approve", q |-> t.q, todo |-> t.todo, seen |-> t.seen,
               step |-> IF t.todo = {} THEN "update" ELSE "line"]
  BY <1>1 DEF CallState, LineCall, LienCall
<1>9. CallSays(s)
  BY <1>1, <1>8 DEF CallSays, LienCall
<1>10. /\ call' = [call EXCEPT ![c] = s]
       /\ UNCHANGED ledgerVars /\ UNCHANGED <<pledge, request>>
  BY <1>1, <1>8 DEF ApproveLien, Continue
<1> QED
  BY <1>3, <1>6, <1>7, <1>9, <1>10, LienWriteKeeps

LEMMA ForceUpdateKeeps ==
    ASSUME CollateralInv, NEW c \in Call, ForceUpdate(c)
    PROVE  CollateralInv'
<1>1. PICK t \in CallState : t = call[c] /\ t \in ForceCall /\ CallSays(t) /\ t.step = "lien"
  BY CallTyped, KindOf DEF ForceUpdate, At
<1>2. PICK p \in Pledge : p = t.p
  BY <1>1 DEF ForceCall
<1>3. HasLien(p) /\ Did(ForceKey(p))
  BY <1>1, <1>2 DEF ForceCall, CallSays
<1>4. Freed(p)
  <2>1. "force" \in Deed /\ ForceKey(p) = DeedKey("force", p)
    BY KeysApart DEF Deed
  <2> QED
    BY <1>3, <2>1 DEF CollateralInv, DeedSays
<1>5. PICK old \in LienRow : old = lien[p] /\ Own(old.receiptId, p)
  BY <1>3 DEF CollateralInv, FlowTypeOK, RowSays, HasLien
<1>6. PICK row \in LienRow :
          row = [old EXCEPT !.status = "FORCE_RELEASED", !.remaining = 0, !.forced = TRUE]
  <2>1. 0 \in 0..MaxQuantity /\ "FORCE_RELEASED" \in LienStatus
    BY BoundsAssumption DEF LienStatus
  <2>2. [old EXCEPT !.status = "FORCE_RELEASED", !.remaining = 0, !.forced = TRUE] \in LienRow
    BY <2>1 DEF LienRow
  <2> QED
    BY <2>2
<1>7. row.receiptId = old.receiptId
  BY <1>6 DEF LienRow
<1>8. /\ lien' = [lien EXCEPT ![p] = row] /\ call' = [call EXCEPT ![c] = Idle]
      /\ UNCHANGED ledgerVars /\ UNCHANGED <<pledge, request>>
  BY <1>1, <1>2, <1>5, <1>6 DEF ForceUpdate, Return, CollateralInv, FlowTypeOK
<1> QED
  BY <1>3, <1>4, <1>5, <1>7, <1>8, NothingInHand, LienWriteKeeps

(* A request is inserted once; its lines are never rewritten.              *)
LEMMA RequestWriteKeeps ==
    ASSUME CollateralInv, UNCHANGED ledgerVars, UNCHANGED <<pledge, lien>>,
           NEW q \in ReleaseRequest, NEW row \in RequestRow,
           request[q] # NoRequest => row.lines = request[q].lines,
           request' = [request EXCEPT ![q] = row],
           NEW c \in Call, call' = [call EXCEPT ![c] = Idle]
    PROVE  CollateralInv'
<1>1. FlowTypeOK /\ Grown /\ row # NoRequest
  BY StillGrows DEF CollateralInv, RequestRow, RequestStatus, NoRequest
<1>2. RowsAge
  BY <1>1 DEF RowsAge, Asked, HasLien, FlowTypeOK
<1>3. FreedStay
  BY <1>2, StockStill
<1>4. \A p \in Pledge : RowSays(p)'
  BY <1>1, <1>2, <1>3, RowKept
<1>5. CallSays(Idle)'
  BY DEF CallSays, Idle
<1> QED
  BY <1>1, <1>2, <1>4, <1>5, NothingInHand, RowStepKeeps DEF FlowTypeOK

LEMMA RequestWritesKeep ==
    ASSUME CollateralInv, NEW c \in Call,
           \/ \E q \in ReleaseRequest : RequestInsert(c, q)
           \/ CloseUpdate(c, "withdraw", "CANCELLED")
           \/ CloseUpdate(c, "refuse", "REJECTED")
           \/ CloseUpdate(c, "approve", "APPROVED")
    PROVE  CollateralInv'
<1>1. ASSUME NEW q \in ReleaseRequest, RequestInsert(c, q)
      PROVE  CollateralInv'
  <2>1. PICK t \in CallState : t = call[c] /\ t \in AskCall
    BY <1>1, CallTyped, KindOf DEF RequestInsert, At
  <2>2. PICK row \in RequestRow : row = [status |-> "PENDING", lines |-> t.lines]
    BY <2>1 DEF RequestRow, RequestStatus, AskCall
  <2> QED
    BY <1>1, <2>1, <2>2, RequestWriteKeeps DEF RequestInsert, Return
<1>2. ASSUME NEW op \in {"withdraw", "refuse", "approve"}, NEW status \in RequestStatus,
             CloseUpdate(c, op, status)
      PROVE  CollateralInv'
  <2>1. PICK t \in CallState : t = call[c] /\ CallSays(t) /\ t \in CloseCall \cup LineCall
                               /\ t.op = op
    BY <1>2, CallTyped, KindOf DEF CloseUpdate, At
  <2>2. PICK q \in ReleaseRequest : q = t.q /\ request[q] # NoRequest
    BY <2>1 DEF CloseCall, LineCall, CallSays
  <2>3. PICK old \in RequestRow : old = request[q]
    BY <2>2 DEF CollateralInv, FlowTypeOK
  <2>4. PICK row \in RequestRow : row = [old EXCEPT !.status = status] /\ row.lines = old.lines
    <3>1. /\ [old EXCEPT !.status = status] \in RequestRow
          /\ [old EXCEPT !.status = status].lines = old.lines
      BY DEF RequestRow
    <3> QED
      BY <3>1
  <2>5. request' = [request EXCEPT ![q] = row]
    BY <1>2, <2>1, <2>2, <2>3, <2>4 DEF CloseUpdate
  <2> QED
    BY <1>2, <2>3, <2>4, <2>5, RequestWriteKeeps DEF CloseUpdate, Return
<1> QED
  BY <1>1, <1>2 DEF RequestStatus

(* What an approval knows when it turns to line l.                         *)
LEMMA AtLine ==
    ASSUME CollateralInv, NEW c \in Call, At(c, "approve", "line"), NEW l \in call[c].todo
    PROVE  \E t \in LineCall, q \in ReleaseRequest, p \in Pledge, seen \in LienRow :
              /\ t = call[c] /\ CallSays(t) /\ t.q = q
              /\ l \in Line /\ Wants(q, l) /\ p = LienOf(q, l) /\ HasLien(p)
              /\ seen = t.seen[p] /\ Own(seen.receiptId, p)
              /\ request[q].lines[l].quantity \in Quantity
              /\ request[q].lines[l].quantity <= seen.remaining
<1>1. PICK t \in LineCall : t = call[c] /\ CallSays(t) /\ FlowTypeOK
  BY CallTyped, KindOf DEF At
<1>2. PICK q \in ReleaseRequest : q = t.q
  BY <1>1 DEF LineCall
<1>3. request[q] # NoRequest /\ l \in DOMAIN request[q].lines
  BY <1>1, <1>2 DEF LineCall, CallSays
<1>4. l \in Line /\ LienOf(q, l) \in Pledge /\ request[q].lines[l].quantity \in Quantity
  BY <1>1, <1>3 DEF FlowTypeOK, RequestRow, Lines, LienOf
<1>5. PICK p \in Pledge : p = LienOf(q, l)
  BY <1>4
<1>6. /\ t.seen[p] # NoLien /\ HasLien(p) /\ Own(t.seen[p].receiptId, p)
      /\ request[q].lines[l].quantity <= t.seen[p].remaining
  BY <1>1, <1>2, <1>3, <1>5 DEF LineCall, CallSays
<1>7. t.seen[p] \in LienRow
  BY <1>6 DEF LineCall
<1> QED
  BY <1>1, <1>2, <1>3, <1>4, <1>5, <1>6, <1>7 DEF Wants

(* The approval goes on to write the lien, with what it remembered.        *)
LEMMA ToTheLien ==
    ASSUME FlowTypeOK, Grown, RowsAge, FreedStay, Minted \subseteq Minted',
           NEW t \in LineCall, CallSays(t), NEW l \in t.todo, NEW p \in Pledge,
           NEW new \in NewLien', NEW s,
           s = [op |-> "approve", step |-> "lien", q |-> t.q, todo |-> t.todo \ {l},
                seen |-> t.seen, p |-> p, new |-> new],
           HasLien(p)', new.remaining = 0 => Freed(p)',
           new.receiptId # NoReceipt => Own(new.receiptId, p)'
    PROVE  s \in CallState' /\ CallSays(s)'
<1>1. t \in CallState
  BY DEF CallState
<1>2. t \in CallState' /\ CallSays(t)'
  BY <1>1, SaysStay
<1>3. t.op = "approve" /\ t.q \in ReleaseRequest /\ t.todo \subseteq Line
      /\ t.seen \in [Pledge -> (LienRow \cup {NoLien})']
  <2>1. (LienRow \cup {NoLien}) \subseteq (LienRow \cup {NoLien})'
    BY DEF LienRow, NoLien
  <2> QED
    BY <2>1 DEF LineCall
<1>4. s \in LienCall'
  BY <1>3 DEF LienCall
<1>5. /\ request'[t.q] # NoRequest
      /\ t.todo \subseteq DOMAIN request'[t.q].lines
      /\ \A m \in DOMAIN request'[t.q].lines :
            /\ t.seen[LienOf(t.q, m)'] # NoLien /\ HasLien(LienOf(t.q, m))'
            /\ Own(t.seen[LienOf(t.q, m)].receiptId, LienOf(t.q, m))'
            /\ request'[t.q].lines[m].quantity <= t.seen[LienOf(t.q, m)'].remaining
  BY <1>2, <1>3 DEF CallSays
<1>6. CallSays(s)'
  BY <1>5 DEF CallSays
<1> QED
  BY <1>4, <1>6 DEF CallState

(* A line that asks for all that is left gives back the goods of its lien. *)
LEMMA ApproveFullKeeps ==
    ASSUME CollateralInv, NEW c \in Call, NEW l \in Line, ApproveFull(c, l)
    PROVE  CollateralInv'
<1>1. PICK t \in LineCall, q \in ReleaseRequest, p \in Pledge, seen \in LienRow :
          /\ t = call[c] /\ CallSays(t) /\ t.q = q
          /\ l \in t.todo /\ Wants(q, l) /\ p = LienOf(q, l) /\ HasLien(p)
          /\ seen = t.seen[p] /\ Own(seen.receiptId, p)
  <2>1. At(c, "approve", "line") /\ l \in call[c].todo
    BY DEF ApproveFull
  <2> QED
    BY <2>1, AtLine
<1> DEFINE k == FullKey(q, l)
           r == seen.receiptId
           new == [status |-> "RELEASED", remaining |-> 0, receiptId |-> NoReceipt]
           s == [op |-> "approve", step |-> "lien", q |-> t.q, todo |-> t.todo \ {l},
                 seen |-> t.seen, p |-> p, new |-> new]
<1>2. Ledger(c, Release(k, r), k, s)
  BY <1>1 DEF ApproveFull, LienOf
<1>3. /\ k \in CollateralKey /\ r \in Minted /\ FlowTypeOK
      /\ UNCHANGED <<pledge, lien, request>> /\ call' = [call EXCEPT ![c] = s]
      /\ RowsAge /\ HasLien(p)' /\ LienOf(q, l)' = p /\ Wants(q, l)'
  <2>1. UNCHANGED <<pledge, lien, request>> /\ call' = [call EXCEPT ![c] = s]
    BY <1>2 DEF Ledger, Continue
  <2>2. k \in CollateralKey /\ r \in Minted
    BY KeysApart DEF LienRow
  <2> QED
    BY <1>1, <2>1, <2>2, SameRowsAge DEF CollateralInv, HasLien, LienOf, Wants
<1>4. new \in NewLien'
  BY BoundsAssumption DEF NewLien, LienStatus
<1>5. CASE Release(k, r)
  <2>1. \A v \in Pledge : k # CreateKey(v)
    BY KeysDiffer
  <2>2. KeepsGoods(k) /\ Did(k)' /\ event'[k].from = r /\ Freed(p)' /\ Minted' = Minted
    BY <1>1, <1>3, <1>5, <2>1, ReleaseKeepsGoods DEF CollateralInv, StockSays
  <2>3. Grown /\ FreedStay /\ Own(r, p)'
    BY <1>1, <1>3, <2>2, OwnStays DEF KeepsGoods
  <2>4. s \in CallState' /\ CallSays(s)'
    BY <1>1, <1>3, <1>4, <2>2, <2>3, ToTheLien
  <2>5. LineSays(q, l)'
    <3>1. LineSays(q, l) /\ PartialKey(q, l) \in Key /\ PartialKey(q, l) # k
      BY <1>1, KeysApart, KeysDiffer DEF CollateralInv
    <3>2. event'[PartialKey(q, l)] = event[PartialKey(q, l)]
      BY <3>1, <2>2 DEF KeepsGoods
    <3>3. Did(PartialKey(q, l)) => Own(event[PartialKey(q, l)].from, p)'
      <4>1. Did(PartialKey(q, l)) => event[PartialKey(q, l)].from \in Minted
                                       /\ Own(event[PartialKey(q, l)].from, p)
        BY <1>1, <3>1 DEF LineSays, CollateralInv, EventsOfMinted, Did
      <4>2. \A x \in Minted : Own(x, p) => receipt'[x].sourceTxn = p
        BY <2>3, OwnStays DEF Own
      <4> QED
        BY <3>2, <4>1, <4>2 DEF Own
    <3>4. ASSUME NEW x \in HeldBy(PartialKey(q, l))'
          PROVE  Own(x, p)'
      <4>1. x \in Minted /\ receipt[x].sourceEvent = PartialKey(q, l) /\ IsHeld(x)
        BY <2>2, <2>3, <3>4, OwnStays DEF HeldBy
      <4>2. Own(x, p)
        BY <1>1, <3>1, <4>1 DEF LineSays, HeldBy
      <4> QED
        BY <2>3, <4>1, <4>2, OwnStays
    <3>5. (\A j \in {FullKey(q, l), PartialKey(q, l)} :
              Did(j) => Wants(q, l) /\ Own(event[j].from, LienOf(q, l)))'
      BY <1>3, <2>2, <2>3, <3>2, <3>3 DEF Did, Own
    <3>6. Freed(LienOf(q, l))' /\ (\A x \in HeldBy(PartialKey(q, l)) : Own(x, LienOf(q, l)))'
      BY <1>3, <2>2, <3>4
    <3> QED
      BY <1>3, <3>5, <3>6 DEF LineSays
  <2>6. /\ \A v \in Pledge, op \in Deed : DeedKey(op, v) # k
        /\ \A u \in ReleaseRequest, m \in Line :
              k \in {FullKey(u, m), PartialKey(u, m)} => u = q /\ m = l
    BY KeysDiffer
  <2>7. \A u \in ReleaseRequest, m \in Line :
            k \in {FullKey(u, m), PartialKey(u, m)} => LineSays(u, m)'
    BY <2>5, <2>6
  <2> HIDE DEF k, s
  <2> QED
    BY <1>3, <2>2, <2>4, <2>6, <2>7, LedgerStepKeeps
<1>6. CASE Replay(k)
  <2>1. UNCHANGED ledgerVars /\ Did(k) /\ Minted' = Minted
    BY <1>6 DEF Replay, Did, ledgerVars, Minted
  <2>2. Grown /\ FreedStay
    BY <1>3, <2>1, StillGrows, StockStill
  <2>3. Freed(p)'
    BY <1>1, <2>1, <2>2 DEF CollateralInv, LineSays, FreedStay
  <2>4. s \in CallState' /\ CallSays(s)'
    BY <1>1, <1>3, <1>4, <2>1, <2>2, <2>3, ToTheLien
  <2>5. \A v \in Pledge : RowSays(v)'
    BY <1>3, <2>2, RowKept
  <2>6. s \in CallState
    BY <2>1, <2>4 DEF CallState, PickCall, BornCall, LineCall, LienCall, LienRow, NewLien,
       ForceCall, DeclineCall, AcceptCall, RoundCall, ExpireCall, AskCall, CloseCall
  <2> HIDE DEF k, s
  <2> QED
    BY <1>3, <2>1, <2>4, <2>5, <2>6, RowStepKeeps DEF FlowTypeOK
<1> QED
  BY <1>2, <1>5, <1>6 DEF Ledger

(* A line that asks for a part leaves the rest under its lien.             *)
LEMMA ApprovePartialKeeps ==
    ASSUME CollateralInv, NEW c \in Call, NEW q \in ReleaseRequest, NEW l \in Line,
           ApprovePartial(c, q, l)
    PROVE  CollateralInv'
<1>1. PICK t \in LineCall, p \in Pledge, seen \in LienRow, n \in Quantity :
          /\ t = call[c] /\ CallSays(t) /\ t.q = q
          /\ l \in t.todo /\ Wants(q, l) /\ p = LienOf(q, l) /\ HasLien(p)
          /\ seen = t.seen[p] /\ Own(seen.receiptId, p)
          /\ n = request[q].lines[l].quantity /\ n <= seen.remaining
  <2>1. At(c, "approve", "line") /\ l \in call[c].todo /\ call[c].q = q
    BY DEF ApprovePartial
  <2> QED
    BY <2>1, AtLine
<1> DEFINE k == PartialKey(q, l)
           r == seen.receiptId
           rest == seen.remaining - n
<1>2. /\ ReleasePartial(k, r, Exactly(n)) \/ Replay(k)
      /\ n # seen.remaining
      /\ UNCHANGED <<pledge, lien, request>>
  BY <1>1 DEF ApprovePartial, LienOf
<1>3. PICK kept \in HeldBy(k)' :
          call' = [call EXCEPT ![c] =
              [op |-> "approve", step |-> "lien", q |-> t.q, todo |-> t.todo \ {l},
               seen |-> t.seen, p |-> p,
               new |-> [status |-> "PARTIALLY_RELEASED", remaining |-> rest,
                        receiptId |-> kept]]]
  BY <1>1 DEF ApprovePartial, LienOf, Continue
<1> DEFINE s == [op |-> "approve", step |-> "lien", q |-> t.q, todo |-> t.todo \ {l},
                 seen |-> t.seen, p |-> p,
                 new |-> [status |-> "PARTIALLY_RELEASED", remaining |-> rest,
                          receiptId |-> kept]]
<1>4. rest \in 0..MaxQuantity /\ rest # 0 /\ n \in Quantity
  BY <1>1, <1>2, BoundsAssumption DEF LienRow, Quantity
<1>5. /\ k \in CollateralKey /\ r \in Minted /\ FlowTypeOK
      /\ call' = [call EXCEPT ![c] = s]
      /\ RowsAge /\ HasLien(p)' /\ LienOf(q, l)' = p /\ Wants(q, l)'
  <2>1. k \in CollateralKey /\ r \in Minted
    BY KeysApart DEF LienRow
  <2>2. call' = [call EXCEPT ![c] = s]
    BY <1>3
  <2> HIDE DEF s
  <2> QED
    BY <1>1, <1>2, <2>1, <2>2, SameRowsAge DEF CollateralInv, HasLien, LienOf, Wants
<1>6. ASSUME NEW x \in Minted, receipt[x].sourceEvent = k, IsHeld(x)
      PROVE  Own(x, p)
  BY <1>1, <1>6 DEF CollateralInv, LineSays, HeldBy
<1>7. ASSUME Grown, FreedStay, Own(kept, p)'
      PROVE  s \in CallState' /\ CallSays(s)'
  <2>1. kept \in Minted' /\ Minted \subseteq Minted'
    BY <1>3, <1>7 DEF HeldBy, Grown
  <2>2. PICK new \in NewLien' : new = [status |-> "PARTIALLY_RELEASED", remaining |-> rest,
                                       receiptId |-> kept]
    <3>1. "PARTIALLY_RELEASED" \in LienStatus
      BY DEF LienStatus
    <3> QED
      BY <1>4, <2>1, <3>1 DEF NewLien
  <2>3. new.remaining # 0 /\ new.receiptId = kept
    BY <1>4, <2>2
  <2>4. s = [op |-> "approve", step |-> "lien", q |-> t.q, todo |-> t.todo \ {l},
             seen |-> t.seen, p |-> p, new |-> new]
    BY <2>2
  <2> HIDE DEF rest, s
  <2> QED
    BY <1>1, <1>5, <1>7, <2>1, <2>3, <2>4, ToTheLien
<1>8. CASE ReleasePartial(k, r, Exactly(n))
  <2>1. \A v \in Pledge : k # CreateKey(v)
    BY KeysDiffer
  <2>2. /\ KeepsGoods(k) /\ Did(k)' /\ event'[k].from = r
        /\ \A x \in Minted' \ Minted : IsHeld(x)' => Own(x, p)'
    BY <1>1, <1>4, <1>5, <1>8, <2>1, PartialKeepsGoods DEF CollateralInv, StockSays
  <2>3. Grown /\ FreedStay /\ Own(r, p)'
    BY <1>1, <1>5, <2>2, OwnStays DEF KeepsGoods
  <2>4. ASSUME NEW x \in HeldBy(k)'
        PROVE  Own(x, p)'
    <3>1. x \in Minted' /\ receipt'[x].sourceEvent = k /\ IsHeld(x)'
      BY <2>4 DEF HeldBy
    <3>2. CASE x \in Minted
      <4>1. receipt[x].sourceEvent = k /\ IsHeld(x)
        BY <2>3, <3>1, <3>2, OwnStays
      <4>2. Own(x, p)
        BY <1>6, <3>2, <4>1
      <4> QED
        BY <2>3, <3>2, <4>2, OwnStays
    <3> QED
      BY <2>2, <3>1, <3>2
  <2>5. s \in CallState' /\ CallSays(s)'
    BY <1>3, <1>7, <2>3, <2>4
  <2>6. LineSays(q, l)'
    <3>1. LineSays(q, l) /\ FullKey(q, l) \in Key /\ FullKey(q, l) # k
      BY KeysApart, KeysDiffer DEF CollateralInv
    <3>2. event'[FullKey(q, l)] = event[FullKey(q, l)]
      BY <3>1, <2>2 DEF KeepsGoods
    <3>3. Did(FullKey(q, l)) => Own(event[FullKey(q, l)].from, p)' /\ Freed(p)'
      <4>1. Did(FullKey(q, l)) => /\ event[FullKey(q, l)].from \in Minted
                                  /\ Own(event[FullKey(q, l)].from, p) /\ Freed(p)
        BY <1>1, <3>1 DEF LineSays, CollateralInv, EventsOfMinted, Did
      <4>2. \A x \in Minted : Own(x, p) => receipt'[x].sourceTxn = p
        BY <2>3, OwnStays DEF Own
      <4> QED
        BY <2>3, <3>2, <4>1, <4>2 DEF Own, FreedStay
    <3>4. (\A j \in {FullKey(q, l), PartialKey(q, l)} :
              Did(j) => Wants(q, l) /\ Own(event[j].from, LienOf(q, l)))'
      BY <1>5, <2>2, <2>3, <3>2, <3>3 DEF Did, Own
    <3>5. (Did(FullKey(q, l)) => Freed(LienOf(q, l)))'
      BY <1>5, <3>2, <3>3 DEF Did
    <3>6. (\A x \in HeldBy(PartialKey(q, l)) : Wants(q, l) /\ Own(x, LienOf(q, l)))'
      BY <1>5, <2>4
    <3> QED
      BY <3>4, <3>5, <3>6 DEF LineSays
  <2>7. /\ \A v \in Pledge, op \in Deed : DeedKey(op, v) # k
        /\ \A u \in ReleaseRequest, m \in Line :
              k \in {FullKey(u, m), PartialKey(u, m)} => u = q /\ m = l
    BY KeysDiffer
  <2>8. \A u \in ReleaseRequest, m \in Line :
            k \in {FullKey(u, m), PartialKey(u, m)} => LineSays(u, m)'
    BY <2>6, <2>7
  <2> HIDE DEF k, s
  <2> QED
    BY <1>2, <1>3, <1>5, <2>2, <2>5, <2>7, <2>8, LedgerStepKeeps
<1>9. CASE Replay(k)
  <2>1. UNCHANGED ledgerVars /\ Minted' = Minted /\ HeldBy(k)' = HeldBy(k)
    BY <1>9 DEF Replay, ledgerVars, Minted, HeldBy, IsHeld
  <2>2. Grown /\ FreedStay
    BY <1>5, <2>1, StillGrows, StockStill
  <2>3. kept \in Minted /\ receipt[kept].sourceEvent = k /\ IsHeld(kept)
    BY <1>3, <2>1 DEF HeldBy
  <2>4. Own(kept, p)'
    BY <1>6, <2>2, <2>3, OwnStays
  <2>5. s \in CallState' /\ CallSays(s)'
    BY <1>7, <2>2, <2>4
  <2>6. \A v \in Pledge : RowSays(v)'
    BY <1>2, <1>5, <2>2, RowKept
  <2>7. CallState' = CallState
    BY <2>1 DEF CallState, PickCall, BornCall, LineCall, LienCall, LienRow, NewLien,
       ForceCall, DeclineCall, AcceptCall, RoundCall, ExpireCall, AskCall, CloseCall
  <2> HIDE DEF k, s
  <2> QED
    BY <1>2, <1>3, <1>5, <2>1, <2>5, <2>6, <2>7, RowStepKeeps DEF FlowTypeOK
<1> QED
  BY <1>2, <1>8, <1>9

-----------------------------------------------------------------------------
(* All together.                                                           *)

LEMMA CollateralStart == Init => CollateralInv
<1> SUFFICES ASSUME Init
             PROVE  CollateralInv
  OBVIOUS
<1>1. /\ RowInv /\ Minted = {1} /\ receipt[1].sourceTxn = None
      /\ receipt[1].sourceEvent = DepositKey /\ receipt[1].status = "ACTIVE"
      /\ \A k \in Key \ {DepositKey, AdmitKey} : event[k] = NoEvent
  <2>1. Stock \in 1..MaxQuantity /\ 0 < MaxReceipts /\ Stocked(Stock, DepositKey, AdmitKey)
    BY CollateralAssumption, BoundsAssumption DEF Init
  <2>2. DepositKey \in Key /\ AdmitKey \in Key /\ DepositKey # AdmitKey
    BY KeysApart, CollateralAssumption DEF CollateralKey
  <2> QED
    BY <2>1, <2>2, StockedIsSound
<1>2. \A k \in CollateralKey \ {DepositKey, AdmitKey} : ~Did(k)
  BY <1>1, KeysApart DEF Did
<1>3. EventsOfMinted
  BY <1>1 DEF EventsOfMinted, Init, Stocked
<1>4. /\ \A p \in Pledge : ~Asked(p) /\ ~HasLien(p) /\ pledge[p].status = "NONE"
      /\ \A q \in ReleaseRequest : request[q] = NoRequest
      /\ \A c \in Call : call[c] = Idle
  BY DEF Init, Asked, HasLien, NoPledge
<1>5. FlowTypeOK
  BY DEF Init, FlowTypeOK, CallState
<1>6. \A r \in Minted : /\ ~IsHeld(r)
                        /\ \A p \in Pledge : ~Own(r, p) /\ receipt[r].sourceEvent # CreateKey(p)
  <2>1. \A p \in Pledge : p # None /\ CreateKey(p) # DepositKey
    BY CollateralAssumption, NoneAssumption, KeysApart
  <2> QED
    BY <1>1, <2>1, StatusRoles DEF IsHeld, Own
<1>7. ASSUME NEW p \in Pledge
      PROVE  GoodsSays(p) /\ RowSays(p)
  <2>1. ~Did(CreateKey(p)) /\ CreateKey(p) \in CollateralKey
    BY <1>2, KeysApart
  <2>2. ReleasesOf(p) = {}
    <3>2. ASSUME NEW k \in ReleasesOf(p) PROVE FALSE
      <4>1. k \in Key /\ event[k] # NoEvent /\ receipt[event[k].from].sourceTxn = p
        BY <3>2, KeysApart DEF ReleasesOf, NoEvent
      <4> QED
        BY <1>3, <1>6, <4>1 DEF EventsOfMinted, Own
    <3> QED
      BY <3>2
  <2>3. GoodsSays(p)
    BY <1>6, <2>1, <2>2, FS_EmptySet DEF GoodsSays, HeldUnder, Placed
  <2> QED
    BY <1>4, <2>3 DEF RowSays
<1>8. \A p \in Pledge, op \in Deed : DeedSays(op, p)
  BY <1>2, KeysApart DEF DeedSays
<1>9. \A q \in ReleaseRequest, l \in Line : LineSays(q, l)
  BY <1>2, <1>6, KeysApart DEF LineSays, HeldBy
<1>10. \A c \in Call : CallSays(call[c])
  BY <1>4, NothingInHand
<1> QED
  BY <1>1, <1>3, <1>5, <1>7, <1>8, <1>9, <1>10 DEF CollateralInv

LEMMA CollateralStill == CollateralInv /\ UNCHANGED vars => CollateralInv'
<1> SUFFICES ASSUME CollateralInv, UNCHANGED vars
             PROVE  CollateralInv'
  OBVIOUS
<1>0. Cron \in Call
  BY CollateralAssumption
<1>1. PICK s \in CallState : s = call[Cron] /\ CallSays(s)
  BY <1>0, CallTyped
<1>2. call' = [call EXCEPT ![Cron] = s] /\ Reading
  BY <1>0, <1>1 DEF vars, Reading, CollateralInv, FlowTypeOK
<1> QED
  BY <1>0, <1>1, <1>2, ReadingKeeps

LEMMA CollateralStep == CollateralInv /\ Next => CollateralInv'
<1> SUFFICES ASSUME CollateralInv, Next
             PROVE  CollateralInv'
  OBVIOUS
<1>1. ASSUME NEW c \in Call, Create(c) \/ Decline(c) \/ Accept(c)
      PROVE  CollateralInv'
  <2>1. CASE Create(c)
    BY <2>1, PledgeReadsKeep, PledgeHoldKeeps, PledgeInsertKeeps DEF Create
  <2>2. CASE Decline(c)
    BY <2>2, PledgeLoadsKeep, DeclineReleaseKeeps, DeclineUpdateKeeps DEF Decline
  <2>3. CASE Accept(c)
    BY <2>3, PledgeLoadsKeep, AcceptTransitionKeeps, AcceptInsertKeeps DEF Accept
  <2> QED
    BY <1>1, <2>1, <2>2, <2>3
<1>2. ASSUME NEW c \in Call, Ask(c) \/ Close(c)
      PROVE  CollateralInv'
  <2>1. CASE Ask(c)
    BY <2>1, RequestReadsKeep, RequestWritesKeep DEF Ask
  <2>2. CASE Close(c)
    BY <2>2, CloseLoadKeeps, RequestWritesKeep DEF Close
  <2> QED
    BY <1>2, <2>1, <2>2
<1>3. ASSUME NEW c \in Call, Approve(c) \/ ForceRelease(c)
      PROVE  CollateralInv'
  <2>1. CASE Approve(c)
    BY <2>1, ApproveLoadKeeps, ApproveFullKeeps, ApprovePartialKeeps, ApproveLienKeeps,
       RequestWritesKeep DEF Approve
  <2>2. CASE ForceRelease(c)
    BY <2>2, ForceLoadKeeps, ForceReleaseKeeps, ForceUpdateKeeps DEF ForceRelease
  <2> QED
    BY <1>3, <2>1, <2>2
<1>4. CASE ExpireStale
  BY <1>4, ExpireReadsKeep, ExpireReleaseKeeps, ExpireUpdateKeeps DEF ExpireStale
<1> QED
  BY <1>1, <1>2, <1>3, <1>4, AbortKeeps, LapseKeeps DEF Next

(* The flow keeps its invariant: whatever handlers are interleaved, cut    *)
(* short and retried, each pledge has at most one receipt held, what was   *)
(* done under its keys was done to its own goods, and every row agrees     *)
(* with the journal.                                                       *)
THEOREM CollateralInvariance == Spec => []CollateralInv
<1>1. CollateralInv /\ [Next]_vars => CollateralInv'
  BY CollateralStep, CollateralStill
<1> QED
  BY CollateralStart, <1>1, PTL DEF Spec

-----------------------------------------------------------------------------
(* createPledge, cancelPledge, rejectPledge, expireStalePledges: a pledge  *)
(* that is cancelled, rejected or expired has no goods left on hold.       *)
THEOREM ClosedPledgesAreReleased == Spec => []ClosedPledgesHoldNothing
<1>1. CollateralInv => ClosedPledgesHoldNothing
  BY DEF CollateralInv, RowSays, Freed, ClosedPledgesHoldNothing
<1> QED
  BY CollateralInvariance, <1>1, PTL

(* acceptPledge, approveReleaseRequest, forceReleaseLien: the rows have    *)
(* their type, an accepted pledge has its lien, whose acceptance is in the *)
(* journal and about the child of its pledge, and a lien with nothing left *)
(* on it holds nothing.                                                    *)
THEOREM LiensAgreeWithTheStock == Spec => []LiensMatchStock
<1>1. CollateralInv => LiensMatchStock
  <2> SUFFICES ASSUME CollateralInv
               PROVE  LiensMatchStock
    OBVIOUS
  <2>1. LedgerTypeOK
    BY DEF CollateralInv, RowInv, LedgerInv, LedgerTypeOK
  <2>2. TypeOK
    BY <2>1 DEF CollateralInv, FlowTypeOK, RequestRow, TypeOK
  <2>3. AcceptedIsLiened
    <3>1. "accept" \in Deed
      BY DEF Deed
    <3> QED
      BY <3>1, KeysApart DEF CollateralInv, RowSays, DeedSays, HasLien, AcceptedIsLiened, Did
  <2>4. EndedLiensLockNothing
    BY DEF CollateralInv, RowSays, Freed, HasLien, EndedLiensLockNothing
  <2> QED
    BY <2>2, <2>3, <2>4 DEF LiensMatchStock
<1> QED
  BY CollateralInvariance, <1>1, PTL

(* cancel, reject, expiry, release requests and force release race for the *)
(* goods of a pledge: they are given back at most once.  What was freed    *)
(* and what is still held add up to what was pledged.                      *)
THEOREM GoodsAreFreedOnce == Spec => []FreedOnce
<1>1. CollateralInv => FreedOnce
  BY DEF CollateralInv, GoodsSays, FreedOnce, Total, Amount
<1> QED
  BY CollateralInvariance, <1>1, PTL

(* A handler that acts on a pledge acts on the goods of that pledge, never *)
(* on those of another pledge on the same deposit.                         *)
THEOREM HandlersTouchTheirOwnGoods == Spec => []OwnGoodsOnly
<1>1. CollateralInv => OwnGoodsOnly
  <2> SUFFICES ASSUME CollateralInv
               PROVE  OwnGoodsOnly
    OBVIOUS
  <2>1. ASSUME NEW p \in Pledge, NEW op \in Deed, Did(<<op, p>>)
        PROVE  receipt[event[<<op, p>>].from].sourceTxn = p
    BY <2>1 DEF CollateralInv, DeedSays, DeedKey, Own
  <2>2. ASSUME NEW q \in ReleaseRequest, NEW l \in Line,
               NEW k \in {FullKey(q, l), PartialKey(q, l)}, Did(k)
        PROVE  receipt[event[k].from].sourceTxn = request[q].lines[l].lien
    BY <2>2 DEF CollateralInv, LineSays, Own, LienOf
  <2> QED
    BY <2>1, <2>2 DEF OwnGoodsOnly, Deed
<1> QED
  BY CollateralInvariance, <1>1, PTL
=============================================================================
