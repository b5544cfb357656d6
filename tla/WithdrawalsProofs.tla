-------------------------- MODULE WithdrawalsProofs --------------------------
(***************************************************************************)
(* Theorems about the withdrawal flow, for any number of withdrawals and   *)
(* handlers: whatever is interleaved, aborted and retried, every handler   *)
(* keeps to the receipt its own hold placed, and what a row says of the    *)
(* goods, the ledger bears out; and with one handler, for any number of    *)
(* withdrawals, the soft reservation is a reservation.                     *)
(*                                                                         *)
(* A handler acts on what it read before.  The proof rests on what remains *)
(* true of it: the ledger only grows (Grown) and a row only ages (RowsAge),*)
(* so a receipt that was the withdrawal's own stays its own, and one that  *)
(* was not held is never held again.                                       *)
(***************************************************************************)
EXTENDS Withdrawals, InventoryLedgerProofs

RowOp == {"confirm", "approve", "reject", "complete"}

RowStep == {"hold", "approveHold", "readReceipt", "release", "consume", "update"}

(* What a handler remembers.                                               *)
CreateCall == [op : {"create"}, step : {"own", "available", "insert"},
               client : Client, receiptId : Minted, quantity : Quantity]

RowCall == [op : RowOp, step : RowStep, w : Withdrawal, seen : WithdrawalStatus,
            receiptId : Minted, quantity : Quantity]

FlowTypeOK ==
    /\ row \in [Withdrawal -> WithdrawalRow \cup {NoWithdrawal}]
    /\ call \in [Call -> CreateCall \cup RowCall \cup {Idle}]
    /\ sweep \subseteq {w \in Withdrawal : Exists(w)}

(* Receipt r was born of the hold of withdrawal w.                         *)
Own(r, w) == receipt[r].sourceTxn = w

(* What a handler of w may act upon.                                       *)
Harmless(r, w) == ~IsHeld(r) \/ Own(r, w)

(* The hold of w has one child, which has the quantity of w and leaves its *)
(* hold by the release or the removal of w.                                *)
HoldSays(w) ==
    /\ Did(HoldKey(w)) => \E r \in Minted : Own(r, w)
    /\ \A r, s \in Minted : Own(r, w) /\ Own(s, w) => r = s
    /\ \A r \in Minted : Own(r, w) =>
          /\ Did(HoldKey(w)) /\ receipt[r].sourceEvent = HoldKey(w)
          /\ Exists(w) /\ receipt[r].quantity = row[w].quantity
          /\ Did(ReleaseKey(w)) \/ receipt[r].status \in {"HELD_WITHDRAWAL", "WITHDRAWN"}
    /\ \A r \in Minted : receipt[r].sourceEvent = HoldKey(w) =>
          receipt[r].sourceTxn \in {w, None}

(* What the journal says was done for w was done to its child, and only    *)
(* one thing ended its hold.                                               *)
JournalSays(w) ==
    /\ \A k \in {ApproveKey(w), ReleaseKey(w), ConsumeKey(w)} :
          Did(k) => event[k].from \in Minted /\ Own(event[k].from, w)
    /\ Did(ApproveKey(w)) => receipt[event[ApproveKey(w)].from].approval = "APPROVED"
    /\ Did(ReleaseKey(w)) => ~IsHeld(event[ReleaseKey(w)].from)
    /\ Did(ConsumeKey(w)) => receipt[event[ConsumeKey(w)].from].status = "WITHDRAWN"
    /\ ~Did(ReleaseKey(w)) \/ ~Did(ConsumeKey(w))

(* What the row of w says.                                                 *)
RowSays(w) ==
    LET r == row[w].receiptId  status == row[w].status
    IN  Exists(w) =>
          /\ Harmless(r, w)
          /\ status = "PENDING_PAYMENT" =>
                /\ ~IsHeld(r)
                /\ ~Did(ApproveKey(w)) /\ ~Did(ReleaseKey(w)) /\ ~Did(ConsumeKey(w))
          /\ status \in {"PAID_PENDING_APPROVAL", "APPROVED", "COMPLETED"} => Own(r, w)
          /\ status = "APPROVED" => Did(ApproveKey(w))
          /\ status = "COMPLETED" => Did(ConsumeKey(w))

(* What a handler knows.                                                   *)
CallSays(c) ==
    LET r == call[c].receiptId  w == call[c].w  op == call[c].op  step == call[c].step
    IN  /\ op = "create" => ~IsHeld(r)
        /\ op \in RowOp =>
              /\ Exists(w) /\ call[c].quantity = row[w].quantity
              /\ Harmless(r, w)
              /\ row[w].status = "PENDING_PAYMENT" =>
                    op = "confirm" \/ (op = "reject" /\ step # "release" /\ ~IsHeld(r))
              /\ op \in {"approve", "complete"} => Own(r, w) /\ Own(row[w].receiptId, w)
              /\ op = "confirm" /\ step = "update" => Own(r, w)
              /\ op = "reject" /\ step = "release" => Own(r, w)
              /\ op = "complete" \/ (op = "approve" /\ step = "update") => Did(ApproveKey(w))
              /\ op = "complete" /\ step = "update" => Did(ConsumeKey(w))

WithdrawalInv ==
    /\ RowInv
    /\ FlowTypeOK
    /\ \A w \in Withdrawal : HoldSays(w) /\ JournalSays(w) /\ RowSays(w)
    /\ NoRemovalWithoutApproval
    /\ \A c \in Call : CallSays(c)

-----------------------------------------------------------------------------
(* The keys of the flow are told apart by what they stand for.             *)
FlowKeys(w) == {ApproveKey(w), ReleaseKey(w), ConsumeKey(w)}

LEMMA KeysApart ==
    /\ \A w \in Withdrawal :
          /\ HoldKey(w) \in Key /\ FlowKeys(w) \subseteq Key
          /\ HoldKey(w) \notin {PledgeKey, DepositKey, AdmitKey}
          /\ FlowKeys(w) \cap {PledgeKey, DepositKey, AdmitKey} = {}
          /\ ApproveKey(w) # ReleaseKey(w)
          /\ ApproveKey(w) # ConsumeKey(w)
          /\ ReleaseKey(w) # ConsumeKey(w)
    /\ \A v, w \in Withdrawal :
          /\ HoldKey(v) \notin FlowKeys(w)
          /\ v # w => HoldKey(v) # HoldKey(w) /\ FlowKeys(v) \cap FlowKeys(w) = {}
    /\ PledgeKey \in Key /\ DepositKey \in Key /\ AdmitKey \in Key /\ DepositKey # AdmitKey
<1>1. \A w \in Withdrawal :
          /\ <<"hold", w>> \in Key /\ <<"approveHold", w>> \in Key
          /\ <<"release", w>> \in Key /\ <<"consume", w>> \in Key
  BY WithdrawalAssumption
<1> QED
  BY <1>1, WithdrawalAssumption
     DEF HoldKey, ApproveKey, ReleaseKey, ConsumeKey, PledgeKey, DepositKey, AdmitKey, FlowKeys

(* The transactions of the flow.                                           *)
LEMMA TxnsApart ==
    /\ \A w \in Withdrawal : w \in Txn /\ w # None /\ w # Pledge
    /\ Pledge \in Txn
    /\ "HELD_WITHDRAWAL" \in HoldStatus /\ "HELD_PLEDGE_PENDING" \in HoldStatus
    /\ "HELD_WITHDRAWAL" \in HeldStatus
  BY WithdrawalAssumption, NoneAssumption DEF HeldStatus

(* Rows only age: they stay, keep their quantity, never await payment      *)
(* again, and move to no receipt but their own.                            *)
RowsAge ==
    \A w \in Withdrawal : Exists(w) =>
        /\ row'[w].status # "NONE"
        /\ row'[w].quantity = row[w].quantity
        /\ row'[w].status = "PENDING_PAYMENT" => row[w].status = "PENDING_PAYMENT"
        /\ row'[w].receiptId = row[w].receiptId \/ Own(row[w].receiptId, w)'

LEMMA StillGrows == UNCHANGED ledgerVars => Grown
  BY DEF ledgerVars, Grown, SameLineage, Minted

LEMMA SameRowsAge == UNCHANGED row => RowsAge
  BY DEF RowsAge, Exists

(* What is known of receipt r stays true while the ledger grows.           *)
LEMMA OwnStays ==
    ASSUME Grown, NEW r \in Minted
    PROVE  /\ \A w : Own(r, w)' <=> Own(r, w)
           /\ ~IsHeld(r) => ~IsHeld(r)'
           /\ \A w : Harmless(r, w) => Harmless(r, w)'
  BY DEF Grown, SameLineage, Own, IsHeld, Harmless

LEMMA DidStays ==
    ASSUME Grown, NEW k \in Key
    PROVE  Did(k) => Did(k)' /\ event'[k] = event[k]
  BY DEF Grown, Did

(* A handler that does nothing goes on knowing what it knew.               *)
LEMMA CallKept ==
    ASSUME WithdrawalInv, Grown, RowsAge, NEW c \in Call, call'[c] = call[c]
    PROVE  CallSays(c)' /\ call'[c] \in (CreateCall \cup RowCall \cup {Idle})'
<1>1. /\ call[c] \in CreateCall \cup RowCall \cup {Idle} /\ CallSays(c)
      /\ Minted \subseteq Minted'
  BY DEF WithdrawalInv, FlowTypeOK, Grown
<1>2. call'[c] \in (CreateCall \cup RowCall \cup {Idle})'
  BY <1>1 DEF CreateCall, RowCall
<1>3. CASE call[c].op = "create"
  <2>1. call[c].receiptId \in Minted
    BY <1>1, <1>3 DEF CreateCall, RowCall, RowOp, Idle
  <2> QED
    BY <1>1, <1>2, <1>3, <2>1, OwnStays DEF CallSays, RowOp
<1>4. CASE call[c].op \in RowOp
  <2> DEFINE r == call[c].receiptId
             w == call[c].w
  <2>1. r \in Minted /\ w \in Withdrawal /\ Exists(w)
    BY <1>1, <1>4 DEF CreateCall, RowCall, RowOp, Idle, CallSays
  <2>2. row[w].receiptId \in Minted
    BY <2>1 DEF WithdrawalInv, FlowTypeOK, Exists, WithdrawalRow, NoWithdrawal
  <2>3. /\ row'[w].status # "NONE" /\ row'[w].quantity = row[w].quantity
        /\ row'[w].status = "PENDING_PAYMENT" => row[w].status = "PENDING_PAYMENT"
        /\ row'[w].receiptId = row[w].receiptId \/ Own(row[w].receiptId, w)'
    BY <2>1 DEF RowsAge
  <2>4. Own(row[w].receiptId, w) => Own(row[w].receiptId, w)'
    BY <2>2, <2>3, OwnStays DEF Own
  <2>5. /\ Own(r, w)' <=> Own(r, w)
        /\ ~IsHeld(r) => ~IsHeld(r)'
        /\ Harmless(r, w) => Harmless(r, w)'
    BY <2>1, OwnStays
  <2>6. \A k \in FlowKeys(w) : Did(k) => Did(k)'
    BY <2>1, KeysApart, DidStays
  <2> QED
    BY <1>1, <1>2, <1>4, <2>3, <2>4, <2>5, <2>6
       DEF CallSays, RowOp, Exists, Own, IsHeld, Harmless, FlowKeys
<1> QED
  BY <1>1, <1>2, <1>3, <1>4 DEF CreateCall, RowCall, RowOp, Idle, CallSays

(* Nor does a row that is left alone say anything new.                     *)
LEMMA RowKept ==
    ASSUME WithdrawalInv, Grown, NEW w \in Withdrawal, row'[w] = row[w],
           row[w].status = "PENDING_PAYMENT" => \A k \in FlowKeys(w) : event'[k] = event[k]
    PROVE  /\ RowSays(w)'
           /\ row'[w] \in (WithdrawalRow \cup {NoWithdrawal})'
<1>1. /\ row[w] \in WithdrawalRow \cup {NoWithdrawal} /\ RowSays(w)
      /\ Minted \subseteq Minted'
  BY DEF WithdrawalInv, FlowTypeOK, Grown
<1>2. row'[w] \in (WithdrawalRow \cup {NoWithdrawal})'
  BY <1>1 DEF WithdrawalRow
<1>3. CASE Exists(w)
  <2> DEFINE r == row[w].receiptId
  <2>1. r \in Minted
    BY <1>1, <1>3 DEF Exists, WithdrawalRow, NoWithdrawal
  <2>2. /\ Own(r, w)' <=> Own(r, w)
        /\ ~IsHeld(r) => ~IsHeld(r)'
        /\ Harmless(r, w) => Harmless(r, w)'
    BY <2>1, OwnStays
  <2>3. \A k \in FlowKeys(w) : Did(k) => Did(k)'
    BY KeysApart, DidStays
  <2>4. row[w].status = "PENDING_PAYMENT" => \A k \in FlowKeys(w) : ~Did(k) => ~Did(k)'
    BY DEF Did
  <2> QED
    BY <1>1, <1>2, <1>3, <2>2, <2>3, <2>4
       DEF RowSays, Exists, Own, IsHeld, Harmless, FlowKeys
<1> QED
  BY <1>1, <1>2, <1>3 DEF RowSays, Exists

(* Without a ledger call, the receipts and the journal say what they said. *)
LEMMA StockKept ==
    ASSUME WithdrawalInv, UNCHANGED ledgerVars, RowsAge
    PROVE  /\ RowInv'
           /\ \A w \in Withdrawal : HoldSays(w)' /\ JournalSays(w)'
           /\ NoRemovalWithoutApproval'
<1>1. RowInv'
  BY DEF WithdrawalInv, ledgerVars, RowInv, LedgerInv, JournalTypeOK, TableTypeOK,
         TreeShape, SplitConservation, ConservedAt, Children, Minted, RowsSettled
<1>2. ASSUME NEW w \in Withdrawal
      PROVE  HoldSays(w)' /\ JournalSays(w)'
  <2>1. HoldSays(w) /\ JournalSays(w)
    BY DEF WithdrawalInv
  <2>2. Exists(w) => row'[w].status # "NONE" /\ row'[w].quantity = row[w].quantity
    BY DEF RowsAge
  <2>3. HoldSays(w)'
    BY <2>1, <2>2 DEF ledgerVars, HoldSays, Own, Did, Exists, Minted
  <2>4. JournalSays(w)'
    BY <2>1 DEF ledgerVars, JournalSays, Own, Did, IsHeld, Minted
  <2> QED
    BY <2>3, <2>4
<1>3. NoRemovalWithoutApproval'
  BY DEF WithdrawalInv, ledgerVars, NoRemovalWithoutApproval, Minted
<1> QED
  BY <1>1, <1>2, <1>3

(* A step of one handler that only reads: its new state must be true of    *)
(* what it has read.                                                       *)
LEMMA ReadingKeeps ==
    ASSUME WithdrawalInv, UNCHANGED <<ledgerVars, row, sweep>>, NEW c \in Call, NEW state,
           call' = [call EXCEPT ![c] = state],
           state \in CreateCall \cup RowCall \cup {Idle},
           CallSays(c)'
    PROVE  WithdrawalInv'
<1>1. Grown /\ RowsAge
  BY StillGrows, SameRowsAge
<1>2. /\ RowInv'
      /\ \A w \in Withdrawal : HoldSays(w)' /\ JournalSays(w)'
      /\ NoRemovalWithoutApproval'
  BY <1>1, StockKept
<1>3. \A w \in Withdrawal : RowSays(w)'
  BY <1>1, RowKept DEF ledgerVars
<1>4. \A d \in Call \ {c} : CallSays(d)'
  BY <1>1, CallKept DEF WithdrawalInv, FlowTypeOK
<1>5. FlowTypeOK'
  BY DEF WithdrawalInv, FlowTypeOK, ledgerVars, WithdrawalRow, CreateCall, RowCall,
         Minted, Exists
<1> QED
  BY <1>2, <1>3, <1>4, <1>5 DEF WithdrawalInv

-----------------------------------------------------------------------------
(* The steps that only read.                                               *)

LEMMA AbortKeeps ==
    ASSUME WithdrawalInv, NEW c \in Call, Abort(c)
    PROVE  WithdrawalInv'
<1>1. call'[c] = Idle /\ call' = [call EXCEPT ![c] = Idle]
  BY DEF Abort, Abandon, Return, WithdrawalInv, FlowTypeOK
<1>2. CallSays(c)'
  BY <1>1 DEF CallSays, Idle, RowOp
<1> QED
  BY <1>1, <1>2, ReadingKeeps DEF Abort

LEMMA CreateLoadKeeps ==
    ASSUME WithdrawalInv, NEW c \in Call, NEW client \in Client, NEW r \in Minted,
           NEW q \in Quantity, CreateLoad(c, client, r, q)
    PROVE  WithdrawalInv'
<1> DEFINE state == [op |-> "create", step |-> "own", client |-> client,
                     receiptId |-> r, quantity |-> q]
<1>1. state \in CreateCall
  BY DEF CreateCall
<1>2. call'[c] = state /\ call' = [call EXCEPT ![c] = state]
  BY DEF CreateLoad, Begin, WithdrawalInv, FlowTypeOK
<1>3. ~IsHeld(r)'
  BY StatusRoles DEF CreateLoad, IsHeld, ledgerVars
<1>4. CallSays(c)'
  BY <1>2, <1>3 DEF CallSays, RowOp, IsHeld
<1> QED
  BY <1>1, <1>2, <1>4, ReadingKeeps DEF CreateLoad

(* The checks of a creation only move it on.                               *)
LEMMA CreateCheckKeeps ==
    ASSUME WithdrawalInv, NEW c \in Call, CreateCheckOwn(c) \/ CreateCheckAvailable(c)
    PROVE  WithdrawalInv'
<1>1. call[c].op = "create" /\ UNCHANGED <<ledgerVars, row, sweep>>
  BY DEF CreateCheckOwn, CreateCheckAvailable, At
<1>2. call[c] \in CreateCall /\ ~IsHeld(call[c].receiptId)
  BY <1>1 DEF WithdrawalInv, FlowTypeOK, RowCall, RowOp, Idle, CallSays
<1>3. PICK step \in {"available", "insert"} : call' = [call EXCEPT ![c] = [call[c] EXCEPT !.step = step]]
  BY DEF CreateCheckOwn, CreateCheckAvailable, Continue
<1> DEFINE state == [call[c] EXCEPT !.step = step]
<1>4. state \in CreateCall /\ state.op = "create" /\ state.receiptId = call[c].receiptId
  BY <1>2 DEF CreateCall
<1>5. call'[c] = state
  BY <1>3 DEF WithdrawalInv, FlowTypeOK
<1>6. CallSays(c)'
  BY <1>1, <1>2, <1>4, <1>5 DEF CallSays, RowOp, IsHeld, ledgerVars
<1> QED
  BY <1>1, <1>3, <1>4, <1>6, ReadingKeeps

(* A row in a status of the flow is a row.                                 *)
LEMMA LoadedRow ==
    ASSUME WithdrawalInv, NEW w \in Withdrawal, row[w].status \in WithdrawalStatus
    PROVE  row[w] \in WithdrawalRow /\ Exists(w) /\ row[w].receiptId \in Minted
  BY DEF WithdrawalInv, FlowTypeOK, NoWithdrawal, WithdrawalStatus, WithdrawalRow, Exists

LEMMA LoadKeeps ==
    ASSUME WithdrawalInv, NEW c \in Call, NEW w \in Withdrawal, NEW op \in RowOp,
           NEW step \in RowStep \ {"release", "update"},
           NEW statuses \in SUBSET WithdrawalStatus, Load(c, op, w, statuses, step),
           op = "approve" => statuses = {"PAID_PENDING_APPROVAL"},
           op = "complete" => statuses = {"APPROVED"}
    PROVE  WithdrawalInv'
<1> DEFINE state == [op |-> op, step |-> step, w |-> w, seen |-> row[w].status,
                     receiptId |-> row[w].receiptId, quantity |-> row[w].quantity]
           r == row[w].receiptId
<1>1. row[w] \in WithdrawalRow /\ Exists(w) /\ r \in Minted /\ row[w].status \in statuses
  BY LoadedRow DEF Load
<1>2. state \in RowCall
  BY <1>1 DEF RowCall, WithdrawalRow, Quantity
<1>3. call'[c] = state /\ call' = [call EXCEPT ![c] = state]
      /\ UNCHANGED <<ledgerVars, row, sweep>>
  BY DEF Load, Begin, WithdrawalInv, FlowTypeOK
<1>4. RowSays(w)
  BY DEF WithdrawalInv
<1>5. /\ Harmless(r, w)
      /\ row[w].status = "PENDING_PAYMENT" => ~IsHeld(r) /\ op \notin {"approve", "complete"}
      /\ op \in {"approve", "complete"} => Own(r, w)
      /\ op = "complete" => Did(ApproveKey(w))
  BY <1>1, <1>4 DEF RowSays
<1> HIDE DEF state
<1>6. /\ state.op = op /\ state.step = step /\ state.w = w /\ state.receiptId = r
      /\ state.quantity = row[w].quantity
  BY DEF state
<1>7. CallSays(c)'
  BY <1>1, <1>3, <1>5, <1>6
     DEF CallSays, RowOp, IsHeld, Own, Harmless, Did, Exists, ledgerVars
<1> QED
  BY <1>2, <1>3, <1>7, ReadingKeeps

(* What a call says of its row and receipt.                                *)
LEMMA CallKnows ==
    ASSUME WithdrawalInv, NEW c \in Call, call[c].op \in RowOp
    PROVE  /\ call[c] \in RowCall /\ call[c].w \in Withdrawal /\ call[c].receiptId \in Minted
           /\ Exists(call[c].w)
           /\ row[call[c].w] \in WithdrawalRow /\ row[call[c].w].receiptId \in Minted
<1>1. call[c] \in RowCall /\ call[c].w \in Withdrawal /\ call[c].receiptId \in Minted
  BY DEF WithdrawalInv, FlowTypeOK, CreateCall, RowCall, RowOp, Idle
<1>2. Exists(call[c].w)
  BY DEF WithdrawalInv, CallSays
<1> QED
  BY <1>1, <1>2 DEF WithdrawalInv, FlowTypeOK, Exists, WithdrawalRow, NoWithdrawal

LEMMA RejectReadKeeps ==
    ASSUME WithdrawalInv, NEW c \in Call, RejectRead(c)
    PROVE  WithdrawalInv'
<1> DEFINE r == call[c].receiptId
           state == [call[c] EXCEPT !.step = IF IsHeld(r) THEN "release" ELSE "update"]
<1>1. call[c].op = "reject" /\ call[c].step = "readReceipt"
  BY DEF RejectRead, At
<1>2. call[c] \in RowCall /\ CallSays(c)
  BY <1>1, CallKnows DEF RowOp, WithdrawalInv
<1>3. /\ state \in RowCall /\ state.op = "reject" /\ state.w = call[c].w
      /\ state.receiptId = r /\ state.quantity = call[c].quantity
      /\ state.step = IF IsHeld(r) THEN "release" ELSE "update"
  BY <1>1, <1>2 DEF RowCall, RowStep
<1>4. call'[c] = state /\ call' = [call EXCEPT ![c] = state]
      /\ UNCHANGED <<ledgerVars, row, sweep>>
  BY DEF RejectRead, Continue, WithdrawalInv, FlowTypeOK
<1> HIDE DEF state
<1>5. CallSays(c)'
  BY <1>1, <1>2, <1>3, <1>4
     DEF CallSays, RowOp, IsHeld, Own, Harmless, Did, Exists, ledgerVars
<1> QED
  BY <1>3, <1>4, <1>5, ReadingKeeps

-----------------------------------------------------------------------------
(* The steps that write a row.                                             *)

(* A handler returns with the rows changed and the ledger as it was.       *)
LEMMA RowsKeep ==
    ASSUME WithdrawalInv, UNCHANGED ledgerVars, RowsAge,
           row' \in [Withdrawal -> WithdrawalRow \cup {NoWithdrawal}],
           \A w \in Withdrawal : RowSays(w)',
           sweep' \subseteq {w \in Withdrawal : Exists(w)},
           \A c \in Call : call'[c] \in {call[c], Idle},
           DOMAIN call' = DOMAIN call, call' = [c \in DOMAIN call' |-> call'[c]]
    PROVE  WithdrawalInv'
<1>1. Grown
  BY StillGrows
<1>2. /\ RowInv'
      /\ \A w \in Withdrawal : HoldSays(w)' /\ JournalSays(w)'
      /\ NoRemovalWithoutApproval'
  BY StockKept
<1>3. \A c \in Call : CallSays(c)' /\ call'[c] \in (CreateCall \cup RowCall \cup {Idle})'
  <2>1. ASSUME NEW c \in Call, call'[c] = Idle
        PROVE  CallSays(c)' /\ call'[c] \in (CreateCall \cup RowCall \cup {Idle})'
    BY <2>1 DEF CallSays, RowOp, Idle
  <2> QED
    BY <1>1, <2>1, CallKept
<1>4. FlowTypeOK'
  <2>1. row' \in [Withdrawal -> (WithdrawalRow \cup {NoWithdrawal})']
    BY DEF ledgerVars, Minted, WithdrawalRow
  <2>2. sweep' \subseteq {w \in Withdrawal : Exists(w)'}
    BY DEF WithdrawalInv, FlowTypeOK, RowsAge, Exists
  <2>3. call' \in [Call -> (CreateCall \cup RowCall \cup {Idle})']
    BY <1>3 DEF WithdrawalInv, FlowTypeOK
  <2> QED
    BY <2>1, <2>2, <2>3 DEF FlowTypeOK
<1> QED
  BY <1>2, <1>3, <1>4 DEF WithdrawalInv

LEMMA CreateInsertKeeps ==
    ASSUME WithdrawalInv, NEW c \in Call, NEW w \in Withdrawal, CreateInsert(c, w)
    PROVE  WithdrawalInv'
<1> DEFINE new == [status |-> "PENDING_PAYMENT", receiptId |-> call[c].receiptId,
                   client |-> call[c].client, quantity |-> call[c].quantity,
                   live |-> TRUE]
<1>1. call[c].op = "create"
  BY DEF CreateInsert, At
<1>2. call[c] \in CreateCall /\ ~IsHeld(call[c].receiptId)
  BY <1>1 DEF WithdrawalInv, FlowTypeOK, RowCall, RowOp, Idle, CallSays
<1>3. new \in WithdrawalRow /\ new.status = "PENDING_PAYMENT"
  BY <1>2 DEF CreateCall, WithdrawalRow, WithdrawalStatus, Quantity
<1>4. /\ row' = [row EXCEPT ![w] = new] /\ ~Exists(w)
      /\ call' = [call EXCEPT ![c] = Idle] /\ UNCHANGED <<ledgerVars, sweep>>
  BY DEF CreateInsert, Return
<1>5. row'[w] = new /\ \A v \in Withdrawal \ {w} : row'[v] = row[v]
  BY <1>4 DEF WithdrawalInv, FlowTypeOK
<1>6. RowsAge
  BY <1>4, <1>5 DEF RowsAge, Exists
<1>7. \A v \in Withdrawal \ {w} : RowSays(v)'
  BY <1>4, <1>5, RowKept, StillGrows DEF ledgerVars
<1>8. RowSays(w)'
  <2>1. \A k \in FlowKeys(w) : ~Did(k)
    BY <1>4 DEF WithdrawalInv, JournalSays, HoldSays, FlowKeys
  <2> QED
    BY <1>2, <1>4, <1>5, <2>1
       DEF RowSays, Harmless, IsHeld, Did, FlowKeys, ledgerVars
<1>9. row' \in [Withdrawal -> WithdrawalRow \cup {NoWithdrawal}]
  BY <1>3, <1>4 DEF WithdrawalInv, FlowTypeOK
<1> QED
  BY <1>4, <1>6, <1>7, <1>8, <1>9, RowsKeep DEF WithdrawalInv, FlowTypeOK

LEMMA WriteKeeps ==
    ASSUME WithdrawalInv, NEW c \in Call, call[c].op \in RowOp,
           NEW status \in WithdrawalStatus \ {"PENDING_PAYMENT"},
           NEW r \in Minted, Write(c, status, r),
           Harmless(r, call[c].w),
           r = row[call[c].w].receiptId \/ Own(r, call[c].w),
           status \in {"PAID_PENDING_APPROVAL", "APPROVED", "COMPLETED"} => Own(r, call[c].w),
           status = "APPROVED" => Did(ApproveKey(call[c].w)),
           status = "COMPLETED" => Did(ConsumeKey(call[c].w))
    PROVE  WithdrawalInv'
<1> PICK w \in Withdrawal : w = call[c].w
  BY CallKnows
<1> DEFINE new == [row[w] EXCEPT !.status = status, !.receiptId = r]
<1>1. row[w] \in WithdrawalRow /\ Exists(w)
  BY CallKnows
<1>2. /\ new \in WithdrawalRow /\ new.status = status /\ new.receiptId = r
      /\ new.quantity = row[w].quantity
  BY <1>1 DEF WithdrawalRow
<1>3. /\ row' = [row EXCEPT ![w] = new] /\ call' = [call EXCEPT ![c] = Idle]
      /\ UNCHANGED <<ledgerVars, sweep>>
  BY DEF Write, Return
<1>4. row'[w] = new /\ \A v \in Withdrawal \ {w} : row'[v] = row[v]
  BY <1>1, <1>3 DEF WithdrawalInv, FlowTypeOK
<1> HIDE DEF new
<1>5. RowsAge
  BY <1>1, <1>2, <1>3, <1>4 DEF RowsAge, Exists, WithdrawalStatus, Own, ledgerVars
<1>6. \A v \in Withdrawal \ {w} : RowSays(v)'
  BY <1>3, <1>4, RowKept, StillGrows DEF ledgerVars
<1>7. RowSays(w)'
  BY <1>2, <1>3, <1>4 DEF RowSays, Harmless, IsHeld, Own, Did, ledgerVars
<1>8. row' \in [Withdrawal -> WithdrawalRow \cup {NoWithdrawal}]
  BY <1>2, <1>3 DEF WithdrawalInv, FlowTypeOK
<1> QED
  BY <1>3, <1>5, <1>6, <1>7, <1>8, RowsKeep DEF WithdrawalInv, FlowTypeOK

LEMMA ConfirmUpdateKeeps ==
    ASSUME WithdrawalInv, NEW c \in Call, ConfirmUpdate(c)
    PROVE  WithdrawalInv'
<1>1. call[c].op = "confirm" /\ call[c].step = "update"
  BY DEF ConfirmUpdate, At
<1>2. Own(call[c].receiptId, call[c].w) /\ call[c].receiptId \in Minted
  BY <1>1, CallKnows DEF RowOp, WithdrawalInv, CallSays
<1> QED
  BY <1>1, <1>2, WriteKeeps DEF ConfirmUpdate, RowOp, WithdrawalStatus, Harmless

LEMMA ApproveUpdateKeeps ==
    ASSUME WithdrawalInv, NEW c \in Call, ApproveUpdate(c)
    PROVE  WithdrawalInv'
<1>1. call[c].op = "approve" /\ call[c].step = "update"
  BY DEF ApproveUpdate, At
<1>2. /\ Own(row[call[c].w].receiptId, call[c].w) /\ row[call[c].w].receiptId \in Minted
      /\ Did(ApproveKey(call[c].w))
  BY <1>1, CallKnows DEF RowOp, WithdrawalInv, CallSays
<1> QED
  BY <1>1, <1>2, WriteKeeps DEF ApproveUpdate, RowOp, WithdrawalStatus, Harmless

LEMMA CompleteUpdateKeeps ==
    ASSUME WithdrawalInv, NEW c \in Call, CompleteUpdate(c)
    PROVE  WithdrawalInv'
<1>1. call[c].op = "complete" /\ call[c].step = "update"
  BY DEF CompleteUpdate, At
<1>2. /\ Own(row[call[c].w].receiptId, call[c].w) /\ row[call[c].w].receiptId \in Minted
      /\ Did(ConsumeKey(call[c].w))
  BY <1>1, CallKnows DEF RowOp, WithdrawalInv, CallSays
<1> QED
  BY <1>1, <1>2, WriteKeeps DEF CompleteUpdate, RowOp, WithdrawalStatus, Harmless

LEMMA RejectUpdateKeeps ==
    ASSUME WithdrawalInv, NEW c \in Call, RejectUpdate(c)
    PROVE  WithdrawalInv'
<1>1. call[c].op = "reject"
  BY DEF RejectUpdate, At
<1>2. CASE call[c].seen = "REJECTED"
  <2>1. call' = [call EXCEPT ![c] = Idle] /\ call'[c] = Idle
        /\ UNCHANGED <<ledgerVars, row, sweep>>
    BY <1>2 DEF RejectUpdate, Return, WithdrawalInv, FlowTypeOK
  <2>2. CallSays(c)'
    BY <2>1 DEF CallSays, Idle, RowOp
  <2> QED
    BY <2>1, <2>2, ReadingKeeps
<1>3. CASE call[c].seen # "REJECTED"
  <2> DEFINE w == call[c].w
  <2>1. w \in Withdrawal /\ Exists(w) /\ row[w].receiptId \in Minted
    BY <1>1, CallKnows DEF RowOp
  <2>2. Harmless(row[w].receiptId, w)
    BY <2>1 DEF WithdrawalInv, RowSays
  <2>3. Write(c, "REJECTED", row[w].receiptId)
    BY <1>3 DEF RejectUpdate
  <2> QED
    BY <1>1, <2>1, <2>2, <2>3, WriteKeeps DEF RowOp, WithdrawalStatus
<1> QED
  BY <1>2, <1>3

-----------------------------------------------------------------------------
(* The clean-up cron, and time.                                            *)

LEMMA RowsOnlyKeep ==
    ASSUME WithdrawalInv, UNCHANGED <<ledgerVars, call>>, RowsAge,
           row' \in [Withdrawal -> WithdrawalRow \cup {NoWithdrawal}],
           \A w \in Withdrawal : RowSays(w)',
           sweep' \subseteq {w \in Withdrawal : Exists(w)}
    PROVE  WithdrawalInv'
  BY RowsKeep DEF WithdrawalInv, FlowTypeOK

LEMMA SweepKeeps ==
    ASSUME WithdrawalInv, Sweep
    PROVE  WithdrawalInv'
<1>1. CASE SweepFind \/ SweepAbort
  <2>1. UNCHANGED <<ledgerVars, row, call>> /\ sweep' \subseteq {w \in Withdrawal : Exists(w)}
    BY <1>1 DEF SweepFind, SweepAbort, Lapsed, Exists
  <2>2. \A w \in Withdrawal : RowSays(w)'
    BY <2>1, RowKept, StillGrows DEF ledgerVars
  <2> QED
    BY <2>1, <2>2, SameRowsAge, RowsOnlyKeep DEF WithdrawalInv, FlowTypeOK
<1>2. CASE SweepUpdate
  <2>1. /\ UNCHANGED <<ledgerVars, call>> /\ sweep' = {}
        /\ row' = [w \in Withdrawal |->
              IF w \in sweep /\ row[w].status = "PENDING_PAYMENT"
              THEN [row[w] EXCEPT !.status = "REJECTED"]
              ELSE row[w]]
    BY <1>2 DEF SweepUpdate
  <2>2. ASSUME NEW w \in Withdrawal, row[w].status = "PENDING_PAYMENT"
        PROVE  LET new == [row[w] EXCEPT !.status = "REJECTED"]
               IN  /\ new \in WithdrawalRow /\ new.status = "REJECTED"
                   /\ new.receiptId = row[w].receiptId /\ new.quantity = row[w].quantity
    <3>1. row[w] \in WithdrawalRow
      BY <2>2, LoadedRow DEF WithdrawalStatus
    <3> QED
      BY <3>1 DEF WithdrawalRow, WithdrawalStatus
  <2>3. row' \in [Withdrawal -> WithdrawalRow \cup {NoWithdrawal}]
    BY <2>1, <2>2 DEF WithdrawalInv, FlowTypeOK
  <2>4. RowsAge
    BY <2>1, <2>2 DEF RowsAge, Exists
  <2>5. ASSUME NEW w \in Withdrawal
        PROVE  RowSays(w)'
    <3>1. CASE row'[w] = row[w]
      BY <2>1, <3>1, RowKept, StillGrows DEF ledgerVars
    <3>2. CASE row'[w] # row[w]
      <4>1. /\ row[w].status = "PENDING_PAYMENT" /\ row'[w].status = "REJECTED"
            /\ row'[w].receiptId = row[w].receiptId
        BY <2>1, <2>2, <3>2
      <4>2. Harmless(row[w].receiptId, w)
        BY <4>1 DEF WithdrawalInv, RowSays, Exists
      <4> QED
        BY <2>1, <4>1, <4>2 DEF RowSays, Harmless, IsHeld, Own, ledgerVars
    <3> QED
      BY <3>1, <3>2
  <2> QED
    BY <2>1, <2>3, <2>4, <2>5, RowsOnlyKeep
<1> QED
  BY <1>1, <1>2 DEF Sweep

LEMMA LapseKeeps ==
    ASSUME WithdrawalInv, NEW w \in Withdrawal, Lapse(w)
    PROVE  WithdrawalInv'
<1> DEFINE new == [row[w] EXCEPT !.live = FALSE]
<1>1. row[w] \in WithdrawalRow
  BY DEF Lapse, WithdrawalInv, FlowTypeOK, NoWithdrawal
<1>2. /\ new \in WithdrawalRow /\ new.status = row[w].status
      /\ new.receiptId = row[w].receiptId /\ new.quantity = row[w].quantity
  BY <1>1 DEF WithdrawalRow
<1>3. /\ row' = [row EXCEPT ![w] = new] /\ UNCHANGED <<ledgerVars, call, sweep>>
      /\ row'[w] = new /\ \A v \in Withdrawal \ {w} : row'[v] = row[v]
  BY DEF Lapse, WithdrawalInv, FlowTypeOK
<1> HIDE DEF new
<1>4. RowsAge
  BY <1>2, <1>3 DEF RowsAge, Exists
<1>5. \A v \in Withdrawal \ {w} : RowSays(v)'
  BY <1>3, RowKept, StillGrows DEF ledgerVars
<1>6. RowSays(w)'
  BY <1>2, <1>3 DEF WithdrawalInv, RowSays, Exists, Harmless, IsHeld, Own, Did, ledgerVars
<1>7. row' \in [Withdrawal -> WithdrawalRow \cup {NoWithdrawal}]
  BY <1>2, <1>3 DEF WithdrawalInv, FlowTypeOK
<1> QED
  BY <1>3, <1>4, <1>5, <1>6, <1>7, RowsOnlyKeep DEF WithdrawalInv, FlowTypeOK

-----------------------------------------------------------------------------
(* The steps that call the ledger.                                         *)

(* The rows stay, the ledger grows, and the journal gains nothing about a  *)
(* withdrawal that awaits payment.                                         *)
Spares ==
    \A w \in Withdrawal : row[w].status = "PENDING_PAYMENT" =>
        \A k \in FlowKeys(w) : event'[k] = event[k]

LEMMA LedgerKeeps ==
    ASSUME WithdrawalInv, RowInv', Grown, Spares, UNCHANGED <<row, sweep>>,
           \A w \in Withdrawal : HoldSays(w)' /\ JournalSays(w)',
           NoRemovalWithoutApproval',
           call' \in [Call -> (CreateCall \cup RowCall \cup {Idle})'],
           \A c \in Call : CallSays(c)'
    PROVE  WithdrawalInv'
<1>1. ASSUME NEW w \in Withdrawal
      PROVE  RowSays(w)' /\ row'[w] \in (WithdrawalRow \cup {NoWithdrawal})'
  BY RowKept DEF Spares
<1>2. row' \in [Withdrawal -> (WithdrawalRow \cup {NoWithdrawal})']
  BY <1>1 DEF WithdrawalInv, FlowTypeOK
<1>3. FlowTypeOK'
  BY <1>2 DEF WithdrawalInv, FlowTypeOK, Exists
<1> QED
  BY <1>1, <1>3 DEF WithdrawalInv

(* One handler goes on, the others go on knowing what they knew.           *)
LEMMA CallsKeep ==
    ASSUME WithdrawalInv, Grown, UNCHANGED row, NEW c \in Call, NEW state,
           call' = [call EXCEPT ![c] = state], state \in RowCall', CallSays(c)'
    PROVE  /\ call' \in [Call -> (CreateCall \cup RowCall \cup {Idle})']
           /\ \A d \in Call : CallSays(d)'
<1>1. \A d \in Call \ {c} :
          CallSays(d)' /\ call'[d] \in (CreateCall \cup RowCall \cup {Idle})'
  BY CallKept, SameRowsAge DEF WithdrawalInv, FlowTypeOK
<1>2. call'[c] = state /\ state \in (CreateCall \cup RowCall \cup {Idle})'
  BY DEF WithdrawalInv, FlowTypeOK
<1> QED
  BY <1>1, <1>2 DEF WithdrawalInv, FlowTypeOK

(* What a handler of w does to the receipt of w.                           *)
Handles(w, k, old, new) ==
    \/ k = ApproveKey(w) /\ new = [old EXCEPT !.approval = "APPROVED"]
    \/ k = ReleaseKey(w) /\ new = [old EXCEPT !.status = "ACTIVE", !.approval = "APPROVED"]
    \/ k = ConsumeKey(w) /\ new = [old EXCEPT !.status = "WITHDRAWN"] /\ Did(ApproveKey(w))

LEMMA AgesKeepsStock ==
    ASSUME WithdrawalInv, Grown, UNCHANGED row, NEW w \in Withdrawal,
           NEW k \in FlowKeys(w), NEW r \in Minted, Own(r, w), IsHeld(r),
           NEW new, Ages(k, r, new), Handles(w, k, receipt[r], new)
    PROVE  /\ \A v \in Withdrawal : HoldSays(v)' /\ JournalSays(v)'
           /\ NoRemovalWithoutApproval'
<1>1. /\ Minted' = Minted /\ receipt'[r] = new
      /\ \A s \in Minted \ {r} : receipt'[s] = receipt[s]
      /\ \A j \in Key \ {k} : event'[j] = event[j]
      /\ event'[k].from = r /\ event'[k] # NoEvent /\ event[k] = NoEvent
  BY DEF Ages, Writes, Journals, Untouched, Minted
<1>2. receipt[r] \in Row
  BY BoundsAssumption DEF WithdrawalInv, RowInv, LedgerInv, TableTypeOK, Minted, Receipt
<1>3. /\ new.quantity = receipt[r].quantity /\ new.sourceTxn = receipt[r].sourceTxn
      /\ new.sourceEvent = receipt[r].sourceEvent
      /\ k = ApproveKey(w) => new.approval = "APPROVED" /\ new.status = receipt[r].status
      /\ k = ReleaseKey(w) => new.approval = "APPROVED" /\ new.status = "ACTIVE"
      /\ k = ConsumeKey(w) => /\ new.approval = receipt[r].approval
                              /\ new.status = "WITHDRAWN" /\ Did(ApproveKey(w))
  BY <1>2, KeysApart DEF Handles, Row
<1>4. \A v \in Withdrawal : /\ HoldKey(v) # k
                           /\ v # w => k \notin FlowKeys(v) /\ receipt[r].sourceTxn # v
  BY KeysApart DEF Own
<1>5. \A v \in Withdrawal : HoldSays(v) /\ JournalSays(v)
  BY DEF WithdrawalInv
<1>6. k \in Key /\ receipt[r].status \in HeldStatus /\ receipt[r].status # "WITHDRAWN"
  BY KeysApart, StatusRoles DEF IsHeld
<1>7. ASSUME NEW v \in Withdrawal
      PROVE  HoldSays(v)'
  <2>1. \A s \in Minted : /\ receipt'[s].sourceTxn = receipt[s].sourceTxn
                          /\ receipt'[s].sourceEvent = receipt[s].sourceEvent
                          /\ receipt'[s].quantity = receipt[s].quantity
    BY <1>1, <1>3
  <2>2. HoldKey(v) \in Key /\ event'[HoldKey(v)] = event[HoldKey(v)]
    BY <1>1, <1>4, KeysApart
  <2>3. Did(ReleaseKey(v)) => Did(ReleaseKey(v))'
    BY KeysApart, DidStays DEF FlowKeys
  <2>4. \A s \in Minted : Own(s, v) =>
           Did(ReleaseKey(v))' \/ receipt'[s].status \in {"HELD_WITHDRAWAL", "WITHDRAWN"}
    <3>1. ASSUME NEW s \in Minted, Own(s, v), s # r
          PROVE  Did(ReleaseKey(v))' \/ receipt'[s].status \in {"HELD_WITHDRAWAL", "WITHDRAWN"}
      BY <1>1, <1>5, <2>3, <3>1 DEF HoldSays
    <3>2. ASSUME Own(r, v)
          PROVE  Did(ReleaseKey(v))' \/ receipt'[r].status \in {"HELD_WITHDRAWAL", "WITHDRAWN"}
      <4>1. v = w
        BY <1>4, <3>2 DEF Own
      <4>2. k = ReleaseKey(w) => Did(ReleaseKey(v))'
        BY <1>1, <4>1 DEF Did
      <4> QED
        BY <1>1, <1>3, <1>5, <2>3, <4>1, <4>2 DEF HoldSays, FlowKeys
    <3> QED
      BY <3>1, <3>2
  <2> QED
    BY <1>1, <1>5, <2>1, <2>2, <2>4 DEF HoldSays, Own, Exists, Did
<1>8. ASSUME NEW v \in Withdrawal \ {w}
      PROVE  JournalSays(v)'
  <2>1. \A j \in FlowKeys(v) : event'[j] = event[j]
    BY <1>1, <1>4, KeysApart
  <2>2. \A j \in FlowKeys(v) : Did(j) =>
           event[j].from \in Minted /\ receipt'[event[j].from] = receipt[event[j].from]
    BY <1>1, <1>4, <1>5 DEF JournalSays, FlowKeys, Own
  <2> QED
    BY <1>1, <1>5, <2>1, <2>2 DEF JournalSays, FlowKeys, Did, Own, IsHeld
<1>9. JournalSays(w)'
  <2>1. \A j \in FlowKeys(w) : Did(j)' => j = k \/ (Did(j) /\ event'[j] = event[j])
    <3>1. FlowKeys(w) \subseteq Key
      BY KeysApart
    <3> QED
      BY <1>1, <3>1 DEF Did
  <2>2. \A j \in FlowKeys(w) : Did(j) => event[j].from = r
    BY <1>5 DEF JournalSays, HoldSays, FlowKeys
  <2>3. \A j \in FlowKeys(w) : Did(j)' => event'[j].from = r
    BY <1>1, <2>1, <2>2
  <2>4. Did(ApproveKey(w))' => new.approval = "APPROVED"
    BY <1>3, <1>5, <2>1, <2>2 DEF JournalSays, FlowKeys
  <2>5. Did(ReleaseKey(w))' => new.status \notin HeldStatus
    BY <1>3, <1>5, <1>6, <2>1, <2>2, StatusRoles DEF JournalSays, FlowKeys, IsHeld
  <2>6. Did(ConsumeKey(w))' => new.status = "WITHDRAWN"
    BY <1>3, <1>5, <1>6, <2>1, <2>2 DEF JournalSays, FlowKeys
  <2>7. Own(r, w)'
    BY <1>1, <1>3 DEF Own
  <2>8. Did(ReleaseKey(w)) => receipt[r].status \notin HeldStatus
    BY <1>5, <2>2 DEF JournalSays, FlowKeys, IsHeld
  <2>9. Did(ConsumeKey(w)) => receipt[r].status = "WITHDRAWN"
    BY <1>5, <2>2 DEF JournalSays, FlowKeys
  <2>10. ReleaseKey(w) # ConsumeKey(w)
    BY KeysApart
  <2>11. ~Did(ReleaseKey(w))' \/ ~Did(ConsumeKey(w))'
    BY <1>6, <2>1, <2>8, <2>9, <2>10 DEF FlowKeys
  <2> QED
    BY <1>1, <2>3, <2>4, <2>5, <2>6, <2>7, <2>11 DEF JournalSays, FlowKeys, IsHeld, Own
<1>10. NoRemovalWithoutApproval'
  <2> SUFFICES ASSUME NEW s \in Minted, receipt'[s].status = "WITHDRAWN"
               PROVE  /\ receipt'[s].approval = "APPROVED"
                      /\ \E v \in Withdrawal : event'[ApproveKey(v)].from = s
    BY <1>1 DEF NoRemovalWithoutApproval
  <2>1. CASE s # r
    <3>1. receipt'[s] = receipt[s]
      BY <1>1, <2>1
    <3>2. PICK v \in Withdrawal : event[ApproveKey(v)].from = s /\ receipt[s].approval = "APPROVED"
      BY <3>1 DEF WithdrawalInv, NoRemovalWithoutApproval
    <3>3. ApproveKey(v) \in Key /\ event[ApproveKey(v)] # NoEvent
      BY <3>2, KeysApart DEF NoEvent, NoReceipt, Minted, FlowKeys
    <3>4. event'[ApproveKey(v)] = event[ApproveKey(v)]
      BY <1>1, <3>3
    <3> QED
      BY <3>1, <3>2, <3>4
  <2>2. CASE s = r
    <3>1. k = ConsumeKey(w)
      BY <1>1, <1>3, <1>6, <2>2 DEF FlowKeys
    <3>2. Did(ApproveKey(w)) /\ new.approval = receipt[r].approval /\ ApproveKey(w) # k
      BY <1>3, <3>1, KeysApart
    <3>3. event[ApproveKey(w)].from = r /\ receipt[r].approval = "APPROVED"
      BY <1>5, <3>2 DEF JournalSays, HoldSays
    <3>4. event'[ApproveKey(w)] = event[ApproveKey(w)]
      BY <1>1, <3>2, KeysApart DEF FlowKeys
    <3> QED
      BY <1>1, <2>2, <3>2, <3>3, <3>4
  <2> QED
    BY <2>1, <2>2
<1> QED
  BY <1>7, <1>8, <1>9, <1>10

(* A reservation, by a confirmed payment or by another flow.               *)
Reservation(k, t, n, s) ==
    \/ /\ t \in Withdrawal /\ k = HoldKey(t) /\ Exists(t)
       /\ n = row[t].quantity /\ s = "HELD_WITHDRAWAL"
    \/ t = Pledge /\ k = PledgeKey

LEMMA ReservesKeepStock ==
    ASSUME WithdrawalInv, Grown, UNCHANGED row, NEW k \in Key, NEW r \in Minted, NEW n,
           NEW s \in HeldStatus, NEW t, Reserves(k, r, n, s, t), Reservation(k, t, n, s)
    PROVE  /\ \A v \in Withdrawal : HoldSays(v)' /\ JournalSays(v)'
           /\ NoRemovalWithoutApproval'
<1>1. PICK a \in Minted' \ Minted :
          /\ receipt'[a].status = s /\ receipt'[a].quantity = n
          /\ receipt'[a].sourceTxn = t /\ receipt'[a].sourceEvent = k
          /\ \A b \in Minted' \ (Minted \cup {a}) :
                /\ receipt'[b].status = "ACTIVE" /\ receipt'[b].sourceTxn = None
                /\ receipt'[b].sourceEvent = k
  BY DEF Reserves
<1>2. receipt[r] \in Row
  BY BoundsAssumption DEF WithdrawalInv, RowInv, LedgerInv, TableTypeOK, Minted, Receipt
<1>3. /\ \A x \in Minted \ {r} : receipt'[x] = receipt[x]
      /\ receipt[r].status = "ACTIVE" /\ receipt'[r].status = "SPLIT"
      /\ receipt'[r].approval = receipt[r].approval
      /\ \A j \in Key \ {k} : event'[j] = event[j]
      /\ event'[k] # NoEvent /\ event[k] = NoEvent
      /\ Minted \subseteq Minted'
  BY <1>2 DEF Reserves, Writes, Journals, Untouched, Row, Grown
<1>4. \A x \in Minted :
          /\ receipt'[x].sourceTxn = receipt[x].sourceTxn
          /\ receipt'[x].sourceEvent = receipt[x].sourceEvent
          /\ receipt'[x].quantity = receipt[x].quantity
          /\ receipt'[x].approval = receipt[x].approval
  BY <1>3 DEF Grown, SameLineage
<1>5. \A v \in Withdrawal : HoldSays(v) /\ JournalSays(v) /\ v # None /\ v # Pledge
  BY TxnsApart DEF WithdrawalInv
<1>6. \A v \in Withdrawal :
          /\ FlowKeys(v) \subseteq Key /\ k \notin FlowKeys(v) /\ HoldKey(v) \in Key
          /\ HoldKey(v) = k => t = v
          /\ v = t => HoldKey(v) = k /\ Exists(v) /\ n = row[v].quantity /\ s = "HELD_WITHDRAWAL"
  BY <1>5, KeysApart DEF Reservation
<1>7. \A v \in Withdrawal : \A j \in FlowKeys(v) : event'[j] = event[j]
  BY <1>3, <1>6
<1>8. ASSUME NEW v \in Withdrawal
      PROVE  HoldSays(v)'
  <2>1. \A x \in Minted' : receipt'[x].sourceTxn = v =>
           \/ x \in Minted /\ receipt[x].sourceTxn = v
           \/ x = a /\ t = v
    BY <1>1, <1>4, <1>5
  <2>2. t = v => \A x \in Minted : receipt[x].sourceTxn # v
    BY <1>3, <1>5, <1>6 DEF HoldSays, Own, Did
  <2>3. \A x, y \in Minted' : Own(x, v)' /\ Own(y, v)' => x = y
    BY <1>5, <2>1, <2>2 DEF HoldSays, Own
  <2>4. Did(HoldKey(v)) => Did(HoldKey(v))'
    BY <1>6, DidStays
  <2>5. Did(HoldKey(v))' => \E x \in Minted' : Own(x, v)'
    <3>1. CASE HoldKey(v) = k
      BY <1>1, <1>6, <3>1 DEF Own
    <3>2. CASE HoldKey(v) # k
      <4>1. Did(HoldKey(v))' => Did(HoldKey(v))
        BY <1>3, <1>6, <3>2 DEF Did
      <4> QED
        BY <1>3, <1>4, <1>5, <4>1 DEF HoldSays, Own
    <3> QED
      BY <3>1, <3>2
  <2>6. ASSUME NEW x \in Minted', receipt'[x].sourceTxn = v
        PROVE  /\ Did(HoldKey(v))' /\ receipt'[x].sourceEvent = HoldKey(v)
               /\ row[v].status # "NONE" /\ receipt'[x].quantity = row[v].quantity
               /\ \/ Did(ReleaseKey(v))'
                  \/ receipt'[x].status \in {"HELD_WITHDRAWAL", "WITHDRAWN"}
    <3>1. CASE x \in Minted /\ receipt[x].sourceTxn = v
      <4>1. /\ Did(HoldKey(v)) /\ receipt[x].sourceEvent = HoldKey(v)
            /\ row[v].status # "NONE" /\ receipt[x].quantity = row[v].quantity
            /\ Did(ReleaseKey(v)) \/ receipt[x].status \in {"HELD_WITHDRAWAL", "WITHDRAWN"}
        BY <1>5, <3>1 DEF HoldSays, Own, Exists
      <4>2. Did(ReleaseKey(v)) => Did(ReleaseKey(v))'
        BY <1>7 DEF FlowKeys, Did
      <4>3. x = r => Did(ReleaseKey(v))
        BY <1>3, <4>1
      <4> QED
        BY <1>3, <1>4, <2>4, <3>1, <4>1, <4>2, <4>3
    <3>2. CASE x = a /\ t = v
      <4>1. Did(HoldKey(v))'
        BY <1>3, <1>6, <3>2 DEF Did
      <4> QED
        BY <1>1, <1>6, <3>2, <4>1 DEF Exists
    <3> QED
      BY <2>1, <2>6, <3>1, <3>2
  <2>7. \A x \in Minted' : receipt'[x].sourceEvent = HoldKey(v) =>
           receipt'[x].sourceTxn \in {v, None}
    <3>1. ASSUME NEW x \in Minted, receipt'[x].sourceEvent = HoldKey(v)
          PROVE  receipt'[x].sourceTxn \in {v, None}
      BY <1>4, <1>5, <3>1 DEF HoldSays
    <3>2. ASSUME NEW x \in Minted' \ Minted, receipt'[x].sourceEvent = HoldKey(v)
          PROVE  receipt'[x].sourceTxn \in {v, None}
      <4>1. receipt'[x].sourceEvent = k /\ receipt'[x].sourceTxn \in {t, None}
        BY <1>1
      <4> QED
        BY <1>6, <3>2, <4>1
    <3> QED
      BY <3>1, <3>2
  <2> QED
    BY <2>3, <2>5, <2>6, <2>7 DEF HoldSays, Own, Exists
<1>9. ASSUME NEW v \in Withdrawal
      PROVE  JournalSays(v)'
  <2>1. \A j \in FlowKeys(v) : Did(j)' => Did(j) /\ event'[j] = event[j]
    BY <1>7 DEF Did
  <2>2. \A x \in Minted :
           /\ receipt[x].status = "WITHDRAWN" => receipt'[x].status = "WITHDRAWN"
           /\ receipt[x].status \notin HeldStatus => receipt'[x].status \notin HeldStatus
    BY <1>3, StatusRoles
  <2>3. \A x \in Minted : x \in Minted' /\ (Own(x, v) => Own(x, v)')
    BY <1>3, <1>4 DEF Own
  <2>4. \A j \in FlowKeys(v) : Did(j) => event[j].from \in Minted /\ Own(event[j].from, v)
    BY <1>5 DEF JournalSays, FlowKeys
  <2>5. \A j \in FlowKeys(v) : Did(j)' =>
           /\ event'[j].from \in Minted'
           /\ receipt'[event'[j].from].sourceTxn = v
    BY <2>1, <2>3, <2>4 DEF Own
  <2>6. Did(ApproveKey(v))' => receipt'[event'[ApproveKey(v)].from].approval = "APPROVED"
    BY <1>4, <1>5, <2>1, <2>4 DEF JournalSays, FlowKeys
  <2>7. Did(ReleaseKey(v))' => receipt'[event'[ReleaseKey(v)].from].status \notin HeldStatus
    <3>1. Did(ReleaseKey(v))' => /\ Did(ReleaseKey(v))
                               /\ event'[ReleaseKey(v)] = event[ReleaseKey(v)]
      BY <2>1 DEF FlowKeys
    <3>2. Did(ReleaseKey(v)) => /\ event[ReleaseKey(v)].from \in Minted
                              /\ receipt[event[ReleaseKey(v)].from].status \notin HeldStatus
      BY <1>5, <2>4 DEF JournalSays, FlowKeys, IsHeld
    <3> QED
      BY <2>2, <3>1, <3>2
  <2>8. Did(ConsumeKey(v))' => receipt'[event'[ConsumeKey(v)].from].status = "WITHDRAWN"
    <3>1. Did(ConsumeKey(v))' => /\ Did(ConsumeKey(v))
                               /\ event'[ConsumeKey(v)] = event[ConsumeKey(v)]
      BY <2>1 DEF FlowKeys
    <3>2. Did(ConsumeKey(v)) => /\ event[ConsumeKey(v)].from \in Minted
                              /\ receipt[event[ConsumeKey(v)].from].status = "WITHDRAWN"
      BY <1>5, <2>4 DEF JournalSays, FlowKeys, IsHeld
    <3> QED
      BY <2>2, <3>1, <3>2
  <2>9. ~Did(ReleaseKey(v))' \/ ~Did(ConsumeKey(v))'
    BY <1>5, <2>1 DEF JournalSays, FlowKeys
  <2> QED
    BY <2>5, <2>6, <2>7, <2>8, <2>9 DEF JournalSays, FlowKeys, IsHeld, Own
<1>10. NoRemovalWithoutApproval'
  <2> SUFFICES ASSUME NEW x \in Minted', receipt'[x].status = "WITHDRAWN"
               PROVE  /\ receipt'[x].approval = "APPROVED"
                      /\ \E v \in Withdrawal : event'[ApproveKey(v)].from = x
    BY DEF NoRemovalWithoutApproval
  <2>1. x \in Minted /\ x # r
    BY <1>1, <1>3, StatusRoles
  <2>2. PICK v \in Withdrawal : event[ApproveKey(v)].from = x /\ receipt[x].approval = "APPROVED"
    BY <1>3, <2>1 DEF WithdrawalInv, NoRemovalWithoutApproval
  <2> QED
    BY <1>4, <1>7, <2>1, <2>2 DEF FlowKeys
<1> QED
  BY <1>8, <1>9, <1>10

(* A handler that calls the ledger for its own receipt under its own key,  *)
(* or finds that the call was made before.                                 *)
LEMMA OwnCallKeeps ==
    ASSUME WithdrawalInv, NEW c \in Call, call[c].op \in {"approve", "reject", "complete"},
           NEW w \in Withdrawal, w = call[c].w, NEW r \in Minted, r = call[c].receiptId,
           Own(r, w), row[w].status # "PENDING_PAYMENT",
           NEW k \in FlowKeys(w), NEW new,
           \/ Replay(k)
           \/ /\ RowInv' /\ Grown /\ IsHeld(r)
              /\ Ages(k, r, new) /\ Handles(w, k, receipt[r], new),
           Continue(c, [call[c] EXCEPT !.step = "update"]),
           UNCHANGED <<row, sweep>>,
           call[c].op = "approve" => k = ApproveKey(w),
           call[c].op = "complete" => k = ConsumeKey(w)
    PROVE  WithdrawalInv'
<1> DEFINE state == [call[c] EXCEPT !.step = "update"]
<1>1. k \in Key /\ \A v \in Withdrawal \ {w} : k \notin FlowKeys(v)
  BY KeysApart
<1>2. /\ RowInv' /\ Grown /\ event'[k] # NoEvent
      /\ \A j \in Key \ {k} : event'[j] = event[j]
      /\ \A v \in Withdrawal : HoldSays(v)' /\ JournalSays(v)'
      /\ NoRemovalWithoutApproval'
  <2>1. CASE Replay(k)
    <3>1. UNCHANGED ledgerVars /\ event'[k] # NoEvent /\ event' = event
      BY <2>1 DEF Replay, ledgerVars
    <3> QED
      BY <3>1, StillGrows, SameRowsAge, StockKept
  <2>2. CASE RowInv' /\ Grown /\ IsHeld(r) /\ Ages(k, r, new) /\ Handles(w, k, receipt[r], new)
    <3>1. event'[k] # NoEvent /\ \A j \in Key \ {k} : event'[j] = event[j]
      BY <2>2 DEF Ages, Writes, Journals
    <3> QED
      BY <2>2, <3>1, AgesKeepsStock
  <2> QED
    BY <2>1, <2>2
<1>3. Spares
  <2>1. \A v \in Withdrawal : FlowKeys(v) \subseteq Key
    BY KeysApart
  <2> QED
    BY <1>1, <1>2, <2>1 DEF Spares
<1>4. call[c] \in RowCall /\ CallSays(c) /\ Exists(w) /\ row[w].receiptId \in Minted
  BY CallKnows DEF RowOp, WithdrawalInv
<1>5. /\ state \in RowCall' /\ state.op = call[c].op /\ state.w = w
      /\ state.receiptId = r /\ state.quantity = call[c].quantity /\ state.step = "update"
  BY <1>2, <1>4 DEF RowCall, RowStep, Grown
<1>6. call'[c] = state /\ call' = [call EXCEPT ![c] = state]
  BY DEF Continue, WithdrawalInv, FlowTypeOK
<1> HIDE DEF state
<1>7. CallSays(c)'
  <2>1. Own(r, w)' /\ (Own(row[w].receiptId, w) => receipt'[row[w].receiptId].sourceTxn = w)
    BY <1>2, <1>4, OwnStays DEF Own
  <2>2. Did(ApproveKey(w)) => Did(ApproveKey(w))'
    BY <1>2, KeysApart, DidStays DEF FlowKeys
  <2>3. call[c].op = "approve" => Did(ApproveKey(w))'
    BY <1>2 DEF Did
  <2>4. call[c].op = "complete" => Did(ConsumeKey(w))'
    BY <1>2 DEF Did
  <2> QED
    BY <1>4, <1>5, <1>6, <2>1, <2>2, <2>3, <2>4
       DEF CallSays, RowOp, Exists, Harmless, IsHeld, Own
<1>8. /\ call' \in [Call -> (CreateCall \cup RowCall \cup {Idle})']
      /\ \A d \in Call : CallSays(d)'
  BY <1>2, <1>5, <1>6, <1>7, CallsKeep
<1> QED
  BY <1>2, <1>3, <1>8, LedgerKeeps

LEMMA ApproveLedgerKeeps ==
    ASSUME WithdrawalInv, NEW c \in Call, ApproveLedger(c)
    PROVE  WithdrawalInv'
<1>1. call[c].op = "approve" /\ call[c].op \in RowOp
  BY DEF ApproveLedger, At, RowOp
<1>2. PICK w \in Withdrawal, r \in Minted : w = call[c].w /\ r = call[c].receiptId
  BY <1>1, CallKnows
<1>3. Own(r, w) /\ row[w].status # "PENDING_PAYMENT"
  BY <1>1, <1>2 DEF WithdrawalInv, CallSays
<1>4. PICK k \in FlowKeys(w) : k = ApproveKey(w) /\ k \in Key
  BY KeysApart DEF FlowKeys
<1>5. /\ ApproveHold(k, r) \/ Replay(k)
      /\ Continue(c, [call[c] EXCEPT !.step = "update"]) /\ UNCHANGED <<row, sweep>>
  BY <1>2, <1>4 DEF ApproveLedger, Ledger
<1> DEFINE new == [receipt[r] EXCEPT !.approval = "APPROVED"]
<1>6. Handles(w, k, receipt[r], new)
  BY <1>4 DEF Handles
<1>7. ApproveHold(k, r) => RowInv' /\ Grown /\ IsHeld(r) /\ Ages(k, r, new)
  BY <1>4, ApproveHoldIs DEF WithdrawalInv
<1> HIDE DEF new
<1> QED
  BY <1>1, <1>2, <1>3, <1>4, <1>5, <1>6, <1>7, OwnCallKeeps

LEMMA RejectReleaseKeeps ==
    ASSUME WithdrawalInv, NEW c \in Call, RejectRelease(c)
    PROVE  WithdrawalInv'
<1>1. call[c].op = "reject" /\ call[c].step = "release" /\ call[c].op \in RowOp
  BY DEF RejectRelease, At, RowOp
<1>2. PICK w \in Withdrawal, r \in Minted : w = call[c].w /\ r = call[c].receiptId
  BY <1>1, CallKnows
<1>3. Own(r, w) /\ row[w].status # "PENDING_PAYMENT"
  BY <1>1, <1>2 DEF WithdrawalInv, CallSays
<1>4. PICK k \in FlowKeys(w) : k = ReleaseKey(w) /\ k \in Key
  BY KeysApart DEF FlowKeys
<1>5. /\ Release(k, r) \/ Replay(k)
      /\ Continue(c, [call[c] EXCEPT !.step = "update"]) /\ UNCHANGED <<row, sweep>>
  BY <1>2, <1>4 DEF RejectRelease, Ledger
<1> DEFINE new == [receipt[r] EXCEPT !.status = "ACTIVE", !.approval = "APPROVED"]
<1>6. Handles(w, k, receipt[r], new)
  BY <1>4 DEF Handles
<1>7. Release(k, r) => RowInv' /\ Grown /\ IsHeld(r) /\ Ages(k, r, new)
  BY <1>4, ReleaseIs DEF WithdrawalInv
<1> HIDE DEF new
<1> QED
  BY <1>1, <1>2, <1>3, <1>4, <1>5, <1>6, <1>7, OwnCallKeeps

LEMMA CompleteLedgerKeeps ==
    ASSUME WithdrawalInv, NEW c \in Call, CompleteLedger(c)
    PROVE  WithdrawalInv'
<1>1. call[c].op = "complete" /\ call[c].op \in RowOp
  BY DEF CompleteLedger, At, RowOp
<1>2. PICK w \in Withdrawal, r \in Minted : w = call[c].w /\ r = call[c].receiptId
  BY <1>1, CallKnows
<1>3. Own(r, w) /\ row[w].status # "PENDING_PAYMENT" /\ Did(ApproveKey(w))
  BY <1>1, <1>2 DEF WithdrawalInv, CallSays
<1>4. PICK k \in FlowKeys(w) : k = ConsumeKey(w) /\ k \in Key
  BY KeysApart DEF FlowKeys
<1>5. /\ Consume(k, r) \/ Replay(k)
      /\ Continue(c, [call[c] EXCEPT !.step = "update"]) /\ UNCHANGED <<row, sweep>>
  BY <1>2, <1>4 DEF CompleteLedger, Ledger
<1> DEFINE new == [receipt[r] EXCEPT !.status = "WITHDRAWN"]
<1>6. Handles(w, k, receipt[r], new)
  BY <1>3, <1>4 DEF Handles
<1>7. Consume(k, r) => RowInv' /\ Grown /\ IsHeld(r) /\ Ages(k, r, new)
  BY <1>4, ConsumeIs DEF WithdrawalInv
<1> HIDE DEF new
<1> QED
  BY <1>1, <1>2, <1>3, <1>4, <1>5, <1>6, <1>7, OwnCallKeeps

LEMMA ConfirmHoldKeeps ==
    ASSUME WithdrawalInv, NEW c \in Call, NEW w \in Withdrawal, ConfirmHold(c, w)
    PROVE  WithdrawalInv'
<1>1. /\ call[c].op = "confirm" /\ call[c].op \in RowOp /\ call[c].w = w
      /\ UNCHANGED <<row, sweep>>
  BY DEF ConfirmHold, At, RowOp
<1>2. PICK r \in Minted : r = call[c].receiptId
  BY <1>1, CallKnows
<1>3. call[c] \in RowCall /\ CallSays(c) /\ Exists(w) /\ row[w].receiptId \in Minted
  BY <1>1, CallKnows DEF WithdrawalInv
<1>4. PICK n \in 1..MaxQuantity : n = call[c].quantity /\ n = row[w].quantity
  BY <1>1, <1>3 DEF RowCall, Quantity, CallSays
<1>5. PICK k \in Key : k = HoldKey(w)
  BY KeysApart
<1>6. /\ RowInv' /\ Grown /\ event'[k] # NoEvent
      /\ \A j \in Key \ {k} : event'[j] = event[j]
      /\ \A v \in Withdrawal : HoldSays(v)' /\ JournalSays(v)'
      /\ NoRemovalWithoutApproval'
  <2>1. CASE Replay(k)
    <3>1. UNCHANGED ledgerVars /\ event'[k] # NoEvent /\ event' = event
      BY <2>1 DEF Replay, ledgerVars
    <3> QED
      BY <1>1, <3>1, StillGrows, SameRowsAge, StockKept
  <2>2. CASE Hold(k, r, Exactly(n), "HELD_WITHDRAWAL", w)
    <3>1. "HELD_WITHDRAWAL" \in HoldStatus /\ "HELD_WITHDRAWAL" \in HeldStatus /\ w \in Txn
      BY TxnsApart
    <3>2. RowInv' /\ Grown /\ Reserves(k, r, n, "HELD_WITHDRAWAL", w)
      BY <2>2, <3>1, HoldIs DEF WithdrawalInv
    <3>3. event'[k] # NoEvent /\ \A j \in Key \ {k} : event'[j] = event[j]
      BY <3>2 DEF Reserves, Writes, Journals
    <3>4. Reservation(k, w, n, "HELD_WITHDRAWAL")
      BY <1>3, <1>4, <1>5 DEF Reservation
    <3> QED
      BY <1>1, <3>1, <3>2, <3>3, <3>4, ReservesKeepStock
  <2>3. Hold(k, r, Exactly(n), "HELD_WITHDRAWAL", w) \/ Replay(k)
    BY <1>1, <1>2, <1>4, <1>5 DEF ConfirmHold
  <2> QED
    BY <2>1, <2>2, <2>3
<1>7. PICK held \in HeldBy(k)' :
          Continue(c, [call[c] EXCEPT !.step = "update", !.receiptId = held])
  BY <1>5 DEF ConfirmHold
<1>8. held \in Minted' /\ receipt'[held].sourceTxn = w
  <2>1. held \in Minted' /\ receipt'[held].sourceEvent = k /\ receipt'[held].status \in HeldStatus
    BY DEF HeldBy, IsHeld
  <2>2. receipt'[held].sourceTxn \in {w, None}
    BY <1>5, <1>6, <2>1 DEF HoldSays
  <2>3. receipt'[held].sourceTxn # None
    BY <1>6, <2>1 DEF RowInv, RowsSettled, Settled
  <2> QED
    BY <2>1, <2>2, <2>3
<1> DEFINE state == [call[c] EXCEPT !.step = "update", !.receiptId = held]
<1>9. /\ state \in RowCall' /\ state.op = "confirm" /\ state.w = w
      /\ state.receiptId = held /\ state.quantity = n /\ state.step = "update"
  BY <1>1, <1>3, <1>4, <1>8 DEF RowCall, RowStep
<1>10. call'[c] = state /\ call' = [call EXCEPT ![c] = state]
  BY <1>7 DEF Continue, WithdrawalInv, FlowTypeOK
<1> HIDE DEF state
<1>11. CallSays(c)'
  BY <1>1, <1>3, <1>4, <1>8, <1>9, <1>10
     DEF CallSays, RowOp, Exists, Harmless, IsHeld, Own
<1>12. /\ call' \in [Call -> (CreateCall \cup RowCall \cup {Idle})']
       /\ \A d \in Call : CallSays(d)'
  BY <1>1, <1>6, <1>9, <1>10, <1>11, CallsKeep
<1>13. Spares
  <2>1. \A v \in Withdrawal : FlowKeys(v) \subseteq Key /\ k \notin FlowKeys(v)
    BY <1>5, KeysApart
  <2> QED
    BY <1>6, <2>1 DEF Spares
<1> QED
  BY <1>1, <1>6, <1>12, <1>13, LedgerKeeps

LEMMA HoldElsewhereKeeps ==
    ASSUME WithdrawalInv, NEW r \in Minted, NEW n \in Quantity, HoldElsewhere(r, n)
    PROVE  WithdrawalInv'
<1>1. /\ Hold(PledgeKey, r, Exactly(n), "HELD_PLEDGE_PENDING", Pledge)
      /\ UNCHANGED <<row, call, sweep>>
  BY DEF HoldElsewhere
<1>2. /\ "HELD_PLEDGE_PENDING" \in HoldStatus /\ "HELD_PLEDGE_PENDING" \in HeldStatus
      /\ Pledge \in Txn /\ PledgeKey \in Key /\ n \in 1..MaxQuantity
  BY TxnsApart, KeysApart, StatusRoles DEF Quantity
<1>3. RowInv' /\ Grown /\ Reserves(PledgeKey, r, n, "HELD_PLEDGE_PENDING", Pledge)
  BY <1>1, <1>2, HoldIs DEF WithdrawalInv
<1>4. /\ \A v \in Withdrawal : HoldSays(v)' /\ JournalSays(v)'
      /\ NoRemovalWithoutApproval'
  BY <1>1, <1>2, <1>3, ReservesKeepStock DEF Reservation
<1>5. Spares
  <2>1. \A j \in Key \ {PledgeKey} : event'[j] = event[j]
    BY <1>3 DEF Reserves, Writes, Journals
  <2>2. \A v \in Withdrawal : FlowKeys(v) \subseteq Key /\ PledgeKey \notin FlowKeys(v)
    BY KeysApart
  <2> QED
    BY <2>1, <2>2 DEF Spares
<1>6. \A c \in Call : CallSays(c)' /\ call'[c] \in (CreateCall \cup RowCall \cup {Idle})'
  BY <1>1, <1>3, CallKept, SameRowsAge
<1>7. call' \in [Call -> (CreateCall \cup RowCall \cup {Idle})']
  BY <1>1, <1>6 DEF WithdrawalInv, FlowTypeOK
<1> QED
  BY <1>1, <1>3, <1>4, <1>5, <1>6, <1>7, LedgerKeeps

-----------------------------------------------------------------------------
(* The flow.                                                               *)

LEMMA FlowStarts == Init => WithdrawalInv
<1> SUFFICES ASSUME Init
             PROVE  WithdrawalInv
  OBVIOUS
<1>1. /\ RowInv /\ Minted = {1}
      /\ receipt[1].status = "ACTIVE" /\ receipt[1].sourceTxn = None
      /\ receipt[1].sourceEvent = DepositKey
      /\ \A k \in Key \ {DepositKey, AdmitKey} : event[k] = NoEvent
  BY StockedIsSound, KeysApart, WithdrawalAssumption DEF Init
<1>2. FlowTypeOK
  BY DEF Init, FlowTypeOK
<1>3. ASSUME NEW w \in Withdrawal
      PROVE  HoldSays(w) /\ JournalSays(w) /\ RowSays(w)
  <2>1. \A k \in FlowKeys(w) \cup {HoldKey(w)} : ~Did(k)
    BY <1>1, KeysApart DEF Did
  <2>2. ~Exists(w)
    BY DEF Init, Exists, NoWithdrawal
  <2>3. w # None /\ HoldKey(w) # DepositKey
    BY TxnsApart, KeysApart
  <2> QED
    BY <1>1, <2>1, <2>2, <2>3 DEF HoldSays, JournalSays, RowSays, Own, FlowKeys
<1>4. NoRemovalWithoutApproval
  BY <1>1 DEF NoRemovalWithoutApproval
<1>5. \A c \in Call : CallSays(c)
  BY DEF Init, CallSays, Idle, RowOp
<1> QED
  BY <1>1, <1>2, <1>3, <1>4, <1>5 DEF WithdrawalInv

LEMMA FlowStepKeeps ==
    ASSUME WithdrawalInv, Next
    PROVE  WithdrawalInv'
<1>1. ASSUME NEW c \in Call, Create(c)
      PROVE  WithdrawalInv'
  BY <1>1, CreateLoadKeeps, CreateCheckKeeps, CreateInsertKeeps DEF Create
<1>2. ASSUME NEW c \in Call, Confirm(c)
      PROVE  WithdrawalInv'
  <2>1. ASSUME NEW w \in Withdrawal, ConfirmLoad(c, w)
        PROVE  WithdrawalInv'
    BY <2>1, LoadKeeps DEF ConfirmLoad, RowOp, RowStep, WithdrawalStatus
  <2> QED
    BY <1>2, <2>1, ConfirmHoldKeeps, ConfirmUpdateKeeps DEF Confirm
<1>3. ASSUME NEW c \in Call, Approve(c)
      PROVE  WithdrawalInv'
  <2>1. ASSUME NEW w \in Withdrawal, ApproveLoad(c, w)
        PROVE  WithdrawalInv'
    BY <2>1, LoadKeeps DEF ApproveLoad, RowOp, RowStep, WithdrawalStatus
  <2> QED
    BY <1>3, <2>1, ApproveLedgerKeeps, ApproveUpdateKeeps DEF Approve
<1>4. ASSUME NEW c \in Call, Reject(c)
      PROVE  WithdrawalInv'
  <2>1. ASSUME NEW w \in Withdrawal, RejectLoad(c, w)
        PROVE  WithdrawalInv'
    BY <2>1, LoadKeeps DEF RejectLoad, RowOp, RowStep
  <2> QED
    BY <1>4, <2>1, RejectReadKeeps, RejectReleaseKeeps, RejectUpdateKeeps DEF Reject
<1>5. ASSUME NEW c \in Call, Complete(c)
      PROVE  WithdrawalInv'
  <2>1. ASSUME NEW w \in Withdrawal, CompleteLoad(c, w)
        PROVE  WithdrawalInv'
    BY <2>1, LoadKeeps DEF CompleteLoad, RowOp, RowStep, WithdrawalStatus
  <2> QED
    BY <1>5, <2>1, CompleteLedgerKeeps, CompleteUpdateKeeps DEF Complete
<1> QED
  BY <1>1, <1>2, <1>3, <1>4, <1>5, AbortKeeps, SweepKeeps, LapseKeeps, HoldElsewhereKeeps
     DEF Next

(* In every reachable state each handler, row and journal entry of a       *)
(* withdrawal speaks of the one receipt its hold placed                    *)
(* (src/src/withdrawals/withdrawals.service.ts, all of its handlers).      *)
THEOREM WithdrawalInvariance == Spec => []WithdrawalInv
<1>1. WithdrawalInv /\ UNCHANGED vars => WithdrawalInv'
  <2> SUFFICES ASSUME WithdrawalInv, UNCHANGED vars
               PROVE  WithdrawalInv'
    OBVIOUS
  <2>1. UNCHANGED <<ledgerVars, call>> /\ UNCHANGED row /\ UNCHANGED sweep
    BY DEF vars
  <2>2. \A w \in Withdrawal : RowSays(w)'
    BY <2>1, RowKept, StillGrows DEF ledgerVars
  <2> QED
    BY <2>1, <2>2, SameRowsAge, RowsOnlyKeep DEF WithdrawalInv, FlowTypeOK
<1>2. WithdrawalInv /\ [Next]_vars => WithdrawalInv'
  BY <1>1, FlowStepKeeps
<1> QED
  BY <1>2, FlowStarts, PTL DEF Spec

(* Every handler keeps to the hold of its own withdrawal, whatever stale   *)
(* receipt id it carries, and that hold ends one way: released or removed. *)
THEOREM HandlersKeepTheirHold == Spec => []HandlersKeepToTheirHold
<1>1. WithdrawalInv => HandlersKeepToTheirHold
  <2> SUFFICES ASSUME WithdrawalInv
               PROVE  HandlersKeepToTheirHold
    OBVIOUS
  <2>1. TypeOK
    BY DEF WithdrawalInv, RowInv, LedgerInv, FlowTypeOK, TypeOK, LedgerTypeOK,
           Exists, NoWithdrawal
  <2>2. OwnHoldOnly
    BY DEF WithdrawalInv, JournalSays, Own, OwnHoldOnly
  <2>3. ReleasedOrRemoved
    BY DEF WithdrawalInv, JournalSays, ReleasedOrRemoved
  <2> QED
    BY <2>1, <2>2, <2>3 DEF HandlersKeepToTheirHold
<1> QED
  BY <1>1, WithdrawalInvariance, PTL

(* What the row of a withdrawal says of the goods, the ledger bears out:   *)
(* past payment it points at the child that holds its quantity, approved   *)
(* at the child that was approved, completed at goods that are gone; and   *)
(* no goods leave before an administrator has approved it.                 *)
THEOREM RowsAreAlwaysBacked == Spec => []RowsAreBacked
<1>1. WithdrawalInv => RowsAreBacked
  <2> SUFFICES ASSUME WithdrawalInv
               PROVE  StatusIsBacked
    BY DEF RowsAreBacked, WithdrawalInv
  <2> SUFFICES ASSUME NEW w \in Withdrawal,
                      row[w].status \in {"PAID_PENDING_APPROVAL", "APPROVED", "COMPLETED"}
               PROVE  LET r == receipt[row[w].receiptId]
                      IN  /\ r.sourceTxn = w /\ r.quantity = row[w].quantity
                          /\ row[w].status = "APPROVED" /\ ~Did(ReleaseKey(w)) =>
                                /\ r.approval = "APPROVED"
                                /\ r.status \in {"HELD_WITHDRAWAL", "WITHDRAWN"}
                          /\ row[w].status = "COMPLETED" => r.status = "WITHDRAWN"
    BY DEF StatusIsBacked
  <2> DEFINE r == row[w].receiptId
  <2>1. HoldSays(w) /\ JournalSays(w) /\ RowSays(w) /\ Exists(w) /\ r \in Minted
    BY LoadedRow DEF WithdrawalInv, WithdrawalStatus
  <2>2. Own(r, w)
    BY <2>1 DEF RowSays
  <2>3. \A s \in Minted : Own(s, w) => s = r
    BY <2>1, <2>2 DEF HoldSays
  <2>4. /\ receipt[r].quantity = row[w].quantity
        /\ Did(ReleaseKey(w)) \/ receipt[r].status \in {"HELD_WITHDRAWAL", "WITHDRAWN"}
    BY <2>1, <2>2 DEF HoldSays
  <2>5. row[w].status = "APPROVED" => receipt[r].approval = "APPROVED"
    BY <2>1, <2>3 DEF RowSays, JournalSays
  <2>6. row[w].status = "COMPLETED" => receipt[r].status = "WITHDRAWN"
    BY <2>1, <2>3 DEF RowSays, JournalSays
  <2> QED
    BY <2>2, <2>4, <2>5, <2>6 DEF Own
<1> QED
  BY <1>1, WithdrawalInvariance, PTL

(* A handler that dies between the hold and the row update can be retried: *)
(* while the row awaits payment, its child is still held, for nothing but  *)
(* an approval of this same withdrawal lets its goods leave.               *)
THEOREM ConfirmIsAlwaysRetryable == Spec => []ConfirmIsRetryable
<1>1. WithdrawalInv => ConfirmIsRetryable
  <2> SUFFICES ASSUME WithdrawalInv, NEW w \in Withdrawal,
                      row[w].status = "PENDING_PAYMENT", Did(HoldKey(w))
               PROVE  HeldBy(HoldKey(w)) # {}
    BY DEF ConfirmIsRetryable
  <2>1. HoldSays(w) /\ RowSays(w) /\ Exists(w) /\ \A v \in Withdrawal : JournalSays(v)
    BY DEF WithdrawalInv, Exists
  <2>2. PICK r \in Minted : Own(r, w)
    BY <2>1 DEF HoldSays
  <2>3. ~Did(ApproveKey(w)) /\ ~Did(ReleaseKey(w))
    BY <2>1 DEF RowSays
  <2>4. /\ receipt[r].sourceEvent = HoldKey(w)
        /\ receipt[r].status \in {"HELD_WITHDRAWAL", "WITHDRAWN"}
    BY <2>1, <2>2, <2>3 DEF HoldSays
  <2>5. ASSUME receipt[r].status = "WITHDRAWN"
        PROVE  FALSE
    <3>1. PICK v \in Withdrawal : event[ApproveKey(v)].from = r
      BY <2>5 DEF WithdrawalInv, NoRemovalWithoutApproval
    <3>2. Did(ApproveKey(v))
      BY <3>1 DEF Did, NoEvent, NoReceipt, Minted
    <3>3. Own(r, v)
      BY <2>1, <3>1, <3>2 DEF JournalSays
    <3> QED
      BY <2>2, <2>3, <3>2, <3>3 DEF Own
  <2>6. IsHeld(r)
    BY <2>4, <2>5, TxnsApart DEF IsHeld
  <2> QED
    BY <2>4, <2>6 DEF HeldBy
<1> QED
  BY <1>1, WithdrawalInvariance, PTL

(* Past payment, only a reject in progress for that very withdrawal turns  *)
(* its row down: the clean-up, whose list of lapsed rows may be stale when *)
(* it writes, looks at the status again.                                   *)
THEOREM OnlyRejectsRejectPaid == Spec => OnlyRejectRejectsPaid
<1> DEFINE Fair ==
             \A w \in Withdrawal :
                /\ row[w].status \in {"PAID_PENDING_APPROVAL", "APPROVED"}
                /\ row'[w].status = "REJECTED"
                => \E c \in Call : call[c] # Idle /\ call[c].op = "reject" /\ call[c].w = w
<1>1. UNCHANGED row => Fair
  OBVIOUS
<1>2. ASSUME WithdrawalInv, NEW c \in Call, NEW status \in WithdrawalStatus, NEW r,
             call[c].op \in RowOp, Write(c, status, r),
             status = "REJECTED" => call[c].op = "reject"
      PROVE  Fair
  <2>1. call[c] # Idle
    BY <1>2 DEF Idle, RowOp
  <2>2. ASSUME NEW w \in Withdrawal, w # call[c].w
        PROVE  row'[w] = row[w]
    BY <1>2, <2>2 DEF Write, WithdrawalInv, FlowTypeOK
  <2>3. ASSUME NEW w \in Withdrawal, w = call[c].w
        PROVE  row'[w].status = status
    BY <1>2, <2>3, LoadedRow DEF Write, WithdrawalInv, FlowTypeOK, WithdrawalRow, NoWithdrawal
  <2> QED
    BY <1>2, <2>1, <2>2, <2>3
<1> HIDE DEF Fair
<1>3. ASSUME WithdrawalInv, Next
      PROVE  Fair
  <2>1. ASSUME NEW c \in Call, Create(c)
        PROVE  Fair
    <3>1. ASSUME NEW w \in Withdrawal, CreateInsert(c, w)
          PROVE  Fair
      <4>1. row[w].status = "NONE" /\ \A v \in Withdrawal \ {w} : row'[v] = row[v]
        BY <3>1 DEF CreateInsert, Exists, WithdrawalInv, FlowTypeOK
      <4> QED
        BY <4>1 DEF Fair
    <3> QED
      BY <1>1, <2>1, <3>1 DEF Create, CreateLoad, CreateCheckOwn, CreateCheckAvailable
  <2>2. ASSUME NEW c \in Call, Confirm(c)
        PROVE  Fair
    <3>1. UNCHANGED row \/ (call[c].op = "confirm" /\ Write(c, "PAID_PENDING_APPROVAL", call[c].receiptId))
      BY <2>2 DEF Confirm, ConfirmLoad, Load, ConfirmHold, ConfirmUpdate, At
    <3> QED
      BY <1>1, <1>2, <1>3, <3>1 DEF RowOp, WithdrawalStatus
  <2>3. ASSUME NEW c \in Call, Approve(c)
        PROVE  Fair
    <3>1. UNCHANGED row \/ (call[c].op = "approve" /\ Write(c, "APPROVED", row[call[c].w].receiptId))
      BY <2>3 DEF Approve, ApproveLoad, Load, ApproveLedger, Ledger, ApproveUpdate, At
    <3> QED
      BY <1>1, <1>2, <1>3, <3>1 DEF RowOp, WithdrawalStatus
  <2>4. ASSUME NEW c \in Call, Reject(c)
        PROVE  Fair
    <3>1. UNCHANGED row \/ (call[c].op = "reject" /\ Write(c, "REJECTED", row[call[c].w].receiptId))
      BY <2>4 DEF Reject, RejectLoad, Load, RejectRead, RejectRelease, Ledger, RejectUpdate, At
    <3> QED
      BY <1>1, <1>2, <1>3, <3>1 DEF RowOp, WithdrawalStatus
  <2>5. ASSUME NEW c \in Call, Complete(c)
        PROVE  Fair
    <3>1. UNCHANGED row \/ (call[c].op = "complete" /\ Write(c, "COMPLETED", row[call[c].w].receiptId))
      BY <2>5 DEF Complete, CompleteLoad, Load, CompleteLedger, Ledger, CompleteUpdate, At
    <3> QED
      BY <1>1, <1>2, <1>3, <3>1 DEF RowOp, WithdrawalStatus
  <2>6. ASSUME SweepUpdate
        PROVE  Fair
    BY <2>6 DEF SweepUpdate, Fair
  <2>7. ASSUME NEW w \in Withdrawal, Lapse(w)
        PROVE  Fair
    <3>1. \A v \in Withdrawal : row'[v].status = row[v].status
      BY <1>3, <2>7 DEF Lapse, WithdrawalInv, FlowTypeOK, WithdrawalRow, NoWithdrawal
    <3> QED
      BY <3>1 DEF Fair
  <2> QED
    BY <1>1, <1>3, <2>1, <2>2, <2>3, <2>4, <2>5, <2>6, <2>7
       DEF Next, Abort, Sweep, SweepFind, SweepAbort, HoldElsewhere
<1>4. WithdrawalInv /\ [Next]_vars => [Fair]_vars
  BY <1>3
<1> USE DEF Fair
<1> QED
  BY <1>4, WithdrawalInvariance, PTL DEF Spec, OnlyRejectRejectsPaid
-----------------------------------------------------------------------------
(* The soft reservation.  What clients ask for is counted, nothing is held *)
(* before payment, so it takes the requests to come one at a time.         *)

(* A part of the rows holds no more than all of them.                      *)
LEMMA AmountOfPart ==
    ASSUME NEW table, NEW S, IsFiniteSet(S), \A r \in S : table[r].quantity \in Nat,
           NEW T \in SUBSET S
    PROVE  Amount(table, T) <= Amount(table, S)
<1> DEFINE Bad == {s \in SUBSET S : ~(Amount(table, s) <= Amount(table, S))}
           gaps == {Cardinality(S \ s) : s \in Bad}
<1>1. SUFFICES ASSUME Bad # {} PROVE FALSE
  OBVIOUS
<1>2. /\ \A s \in SUBSET S : IsFiniteSet(s) /\ Cardinality(s) \in Nat
      /\ \A s \in SUBSET S : Amount(table, s) \in Nat
  BY FS_Subset, FS_CardinalityType, AmountIsNat
<1>3. PICK n \in gaps : \A m \in gaps : n <= m
  <2>1. \A s \in SUBSET S : S \ s \in SUBSET S
    OBVIOUS
  <2>2. gaps \in SUBSET Nat /\ gaps # {}
    BY <1>1, <1>2, <2>1
  <2> QED
    BY <2>2, LeastNat
<1>4. PICK s \in Bad : n = Cardinality(S \ s)
  OBVIOUS
<1>5. PICK x \in S : x \notin s
  <2>1. s # S
    BY <1>2
  <2> QED
    BY <2>1
<1> DEFINE more == s \cup {x}
<1>6. Amount(table, more) = Amount(table, s) + table[x].quantity
  BY <1>2, <1>5, AmountOfMore
<1>7. more \in Bad
  BY <1>2, <1>5, <1>6
<1>8. Cardinality(S \ more) = Cardinality(S \ s) - 1
  <2>1. S \ more = (S \ s) \ {x} /\ x \in S \ s /\ S \ s \in SUBSET S
    BY <1>5
  <2>2. IsFiniteSet(S \ s)
    BY <1>2, <2>1
  <2>3. PICK R : R = S \ s
    OBVIOUS
  <2>4. Cardinality(R \ {x}) = Cardinality(R) - 1
    BY <2>1, <2>2, <2>3, FS_RemoveElement
  <2> QED
    BY <2>1, <2>3, <2>4
<1>9. Cardinality(S \ more) \in Nat /\ Cardinality(S \ s) \in Nat
  <2>1. S \ more \in SUBSET S /\ S \ s \in SUBSET S
    OBVIOUS
  <2> QED
    BY <1>2, <2>1
<1>10. Cardinality(S \ more) \in gaps
  BY <1>7
<1> HIDE DEF gaps, Bad, more
<1> QED
  BY <1>3, <1>4, <1>8, <1>9, <1>10

(* Nobody asks for more than before: a row that still awaits payment did,  *)
(* for the same goods.                                                     *)
Thins ==
    \A w \in Withdrawal :
        /\ Exists(w)' => Exists(w)
        /\ row'[w].status = "PENDING_PAYMENT" /\ row'[w].live =>
              /\ row[w].status = "PENDING_PAYMENT" /\ row[w].live
              /\ row'[w].receiptId = row[w].receiptId
              /\ row'[w].quantity = row[w].quantity

(* Every step lets the ledger grow only.                                   *)
LEMMA FlowGrows ==
    ASSUME WithdrawalInv, [Next]_vars
    PROVE  Grown
<1>1. UNCHANGED ledgerVars => Grown
  BY StillGrows
<1>2. ASSUME NEW k \in Key, Replay(k)
      PROVE  Grown
  BY <1>1, <1>2 DEF Replay
<1>3. ASSUME NEW c \in Call, NEW w \in Withdrawal, ConfirmHold(c, w)
      PROVE  Grown
  <2>1. call[c].op \in RowOp /\ call[c].w = w
    BY <1>3 DEF ConfirmHold, At, RowOp
  <2>2. PICK r \in Minted, n \in 1..MaxQuantity : r = call[c].receiptId /\ n = call[c].quantity
    BY <2>1, CallKnows DEF RowCall, Quantity
  <2>3. PICK k \in Key : k = HoldKey(w)
    BY KeysApart
  <2>4. Hold(k, r, Exactly(n), "HELD_WITHDRAWAL", w) \/ Replay(k)
    BY <1>3, <2>2, <2>3 DEF ConfirmHold
  <2>5. "HELD_WITHDRAWAL" \in HoldStatus /\ w \in Txn
    BY TxnsApart
  <2> QED
    BY <1>2, <2>4, <2>5, HoldIs DEF WithdrawalInv
<1>4. ASSUME NEW c \in Call, ApproveLedger(c) \/ RejectRelease(c) \/ CompleteLedger(c)
      PROVE  Grown
  <2>1. call[c].op \in RowOp
    BY <1>4 DEF ApproveLedger, RejectRelease, CompleteLedger, At, RowOp
  <2>2. PICK r \in Minted, w \in Withdrawal : r = call[c].receiptId /\ w = call[c].w
    BY <2>1, CallKnows
  <2>3. FlowKeys(w) \subseteq Key
    BY KeysApart
  <2>4. PICK k \in FlowKeys(w) : ApproveHold(k, r) \/ Release(k, r) \/ Consume(k, r) \/ Replay(k)
    BY <1>4, <2>2 DEF ApproveLedger, RejectRelease, CompleteLedger, Ledger, FlowKeys
  <2> QED
    BY <1>2, <2>3, <2>4, ApproveHoldIs, ReleaseIs, ConsumeIs DEF WithdrawalInv
<1>5. ASSUME NEW r \in Minted, NEW n \in Quantity, HoldElsewhere(r, n)
      PROVE  Grown
  <2>1. Hold(PledgeKey, r, Exactly(n), "HELD_PLEDGE_PENDING", Pledge)
    BY <1>5 DEF HoldElsewhere
  <2>2. /\ "HELD_PLEDGE_PENDING" \in HoldStatus /\ Pledge \in Txn /\ PledgeKey \in Key
        /\ n \in 1..MaxQuantity
    BY TxnsApart, KeysApart DEF Quantity
  <2> QED
    BY <2>1, <2>2, HoldIs DEF WithdrawalInv
<1>6. ASSUME NEW c \in Call, Create(c) \/ Abort(c)
      PROVE  UNCHANGED ledgerVars
  BY <1>6 DEF Create, CreateLoad, CreateCheckOwn, CreateCheckAvailable, CreateInsert, Abort
<1>7. ASSUME NEW c \in Call, Confirm(c) \/ Approve(c) \/ Reject(c) \/ Complete(c)
      PROVE  Grown
  BY <1>1, <1>3, <1>4, <1>7
     DEF Confirm, Approve, Reject, Complete, ConfirmLoad, ApproveLoad, RejectLoad, CompleteLoad,
         Load, ConfirmUpdate, ApproveUpdate, RejectRead, RejectUpdate, CompleteUpdate, Write
<1>8. Sweep \/ (\E w \in Withdrawal : Lapse(w)) => UNCHANGED ledgerVars
  BY DEF Sweep, SweepFind, SweepUpdate, SweepAbort, Lapse
<1>9. UNCHANGED vars => UNCHANGED ledgerVars
  BY DEF vars
<1> QED
  BY <1>1, <1>5, <1>6, <1>7, <1>8, <1>9 DEF Next

(* Only an insert asks for more.                                           *)
LEMMA FlowThins ==
    ASSUME WithdrawalInv, [Next]_vars
    PROVE  Thins \/ \E c \in Call, w \in Withdrawal : CreateInsert(c, w)
<1>1. UNCHANGED row => Thins
  BY DEF Thins, Exists
<1>2. row \in [Withdrawal -> WithdrawalRow \cup {NoWithdrawal}]
  BY DEF WithdrawalInv, FlowTypeOK
<1>3. ASSUME NEW c \in Call, call[c].op \in RowOp, NEW status \in WithdrawalStatus, NEW r,
             status # "PENDING_PAYMENT", Write(c, status, r)
      PROVE  Thins
  <2>1. PICK v \in Withdrawal : v = call[c].w /\ Exists(v)
    BY <1>3, CallKnows
  <2>2. row' = [row EXCEPT ![v].status = status, ![v].receiptId = r]
    BY <1>3, <2>1 DEF Write
  <2>3. row'[v].status = status /\ \A w \in Withdrawal \ {v} : row'[w] = row[w]
    BY <1>2, <2>2 DEF WithdrawalRow, NoWithdrawal
  <2> QED
    BY <1>3, <2>1, <2>3 DEF Thins, Exists
<1>4. ASSUME NEW c \in Call, Create(c)
      PROVE  UNCHANGED row \/ \E w \in Withdrawal : CreateInsert(c, w)
  BY <1>4 DEF Create, CreateLoad, CreateCheckOwn, CreateCheckAvailable
<1>5. ASSUME NEW c \in Call, Confirm(c)
      PROVE  Thins
  <2>1. UNCHANGED row \/ (call[c].op = "confirm" /\ Write(c, "PAID_PENDING_APPROVAL", call[c].receiptId))
    BY <1>5 DEF Confirm, ConfirmLoad, Load, ConfirmHold, ConfirmUpdate, At
  <2> QED
    BY <1>1, <1>3, <2>1 DEF RowOp, WithdrawalStatus
<1>6. ASSUME NEW c \in Call, Approve(c)
      PROVE  Thins
  <2>1. UNCHANGED row \/ (call[c].op = "approve" /\ Write(c, "APPROVED", row[call[c].w].receiptId))
    BY <1>6 DEF Approve, ApproveLoad, Load, ApproveLedger, Ledger, ApproveUpdate, At
  <2> QED
    BY <1>1, <1>3, <2>1 DEF RowOp, WithdrawalStatus
<1>7. ASSUME NEW c \in Call, Reject(c)
      PROVE  Thins
  <2>1. UNCHANGED row \/ (call[c].op = "reject" /\ Write(c, "REJECTED", row[call[c].w].receiptId))
    BY <1>7 DEF Reject, RejectLoad, Load, RejectRead, RejectRelease, Ledger, RejectUpdate, At
  <2> QED
    BY <1>1, <1>3, <2>1 DEF RowOp, WithdrawalStatus
<1>8. ASSUME NEW c \in Call, Complete(c)
      PROVE  Thins
  <2>1. UNCHANGED row \/ (call[c].op = "complete" /\ Write(c, "COMPLETED", row[call[c].w].receiptId))
    BY <1>8 DEF Complete, CompleteLoad, Load, CompleteLedger, Ledger, CompleteUpdate, At
  <2> QED
    BY <1>1, <1>3, <2>1 DEF RowOp, WithdrawalStatus
<1>9. ASSUME SweepUpdate
      PROVE  Thins
  <2>1. ASSUME NEW w \in Withdrawal
        PROVE  \/ row'[w] = row[w]
               \/ /\ row'[w] = [row[w] EXCEPT !.status = "REJECTED"]
                  /\ row[w].status = "PENDING_PAYMENT"
    BY <1>9 DEF SweepUpdate
  <2>2. ASSUME NEW w \in Withdrawal, row[w].status = "PENDING_PAYMENT"
        PROVE  [row[w] EXCEPT !.status = "REJECTED"].status = "REJECTED"
    BY <1>2 DEF WithdrawalRow, NoWithdrawal
  <2> QED
    BY <2>1, <2>2 DEF Thins, Exists
<1>10. ASSUME NEW v \in Withdrawal, Lapse(v)
       PROVE  Thins
  <2> DEFINE new == [row[v] EXCEPT !.live = FALSE]
  <2>1. row' = [row EXCEPT ![v] = new] /\ new.live = FALSE /\ new.status = row[v].status
    BY <1>2, <1>10 DEF Lapse, WithdrawalRow, NoWithdrawal
  <2> HIDE DEF new
  <2>2. /\ row'[v].live = FALSE /\ row'[v].status = row[v].status
        /\ \A w \in Withdrawal \ {v} : row'[w] = row[w]
    BY <1>2, <2>1
  <2> QED
    BY <2>2 DEF Thins, Exists
<1>11. SweepFind \/ SweepAbort \/ (\E c \in Call : Abort(c)) \/ UNCHANGED vars
          \/ (\E r \in Minted, q \in Quantity : HoldElsewhere(r, q)) => UNCHANGED row
  BY DEF SweepFind, SweepAbort, Abort, HoldElsewhere, vars
<1> QED
  BY <1>1, <1>4, <1>5, <1>6, <1>7, <1>8, <1>9, <1>10, <1>11 DEF Next, Sweep

(* One handler that is about to insert has just counted, or waited since.  *)
LEMMA CountedOrWaited ==
    ASSUME WithdrawalInv, NEW c, Call = {c}, [Next]_vars, At(c, "create", "insert")'
    PROVE  UNCHANGED call \/ CreateCheckAvailable(c)
<1>1. DOMAIN call = {c} /\ call[c] \in CreateCall \cup RowCall \cup {Idle}
  BY DEF WithdrawalInv, FlowTypeOK
<1>2. call'[c].op = "create" /\ call'[c].step = "insert"
  BY DEF At
<1>3. ASSUME Abort(c) PROVE FALSE
  BY <1>1, <1>2, <1>3 DEF Abort, Abandon, Return, Idle
<1>4. ASSUME NEW w, NEW op \in RowOp, NEW statuses, NEW step, Load(c, op, w, statuses, step)
      PROVE  FALSE
  BY <1>1, <1>2, <1>4 DEF Load, Begin, RowOp
<1>5. ASSUME NEW status, NEW r, Write(c, status, r) PROVE FALSE
  BY <1>1, <1>2, <1>5 DEF Write, Return, Idle
<1>7. ASSUME Create(c) PROVE CreateCheckAvailable(c)
  <2>1. ASSUME NEW client, NEW r, NEW q, CreateLoad(c, client, r, q) PROVE FALSE
    BY <1>1, <1>2, <2>1 DEF CreateLoad, Begin
  <2>2. ASSUME CreateCheckOwn(c) PROVE FALSE
    <3>1. call[c].op = "create" /\ call'[c] = [call[c] EXCEPT !.step = "available"]
      BY <1>1, <2>2 DEF CreateCheckOwn, Continue, At
    <3> QED
      BY <1>1, <1>2, <3>1 DEF CreateCall, RowCall, RowOp, Idle
  <2>3. ASSUME NEW w, CreateInsert(c, w) PROVE FALSE
    BY <1>1, <1>2, <2>3 DEF CreateInsert, Return, Idle
  <2> QED
    BY <1>7, <2>1, <2>2, <2>3 DEF Create
<1>8. ASSUME Confirm(c) PROVE FALSE
  <2>1. ASSUME NEW w, ConfirmHold(c, w) PROVE FALSE
    <3>1. PICK held : call'[c] = [call[c] EXCEPT !.step = "update", !.receiptId = held]
      BY <1>1, <2>1 DEF ConfirmHold, Continue
    <3>2. call[c].op = "confirm"
      BY <2>1 DEF ConfirmHold, At
    <3> QED
      BY <1>1, <1>2, <3>1, <3>2 DEF CreateCall, RowCall, Idle
  <2> QED
    BY <1>4, <1>5, <1>8, <2>1 DEF Confirm, ConfirmLoad, ConfirmUpdate, RowOp
<1>9. ASSUME Approve(c) PROVE FALSE
  <2>1. ASSUME ApproveLedger(c) PROVE FALSE
    <3>1. call[c].op = "approve" /\ call'[c] = [call[c] EXCEPT !.step = "update"]
      BY <1>1, <2>1 DEF ApproveLedger, Ledger, Continue, At
    <3> QED
      BY <1>1, <1>2, <3>1 DEF CreateCall, RowCall, Idle
  <2> QED
    BY <1>4, <1>5, <1>9, <2>1 DEF Approve, ApproveLoad, ApproveUpdate, RowOp
<1>10. ASSUME Reject(c) PROVE FALSE
  <2>1. ASSUME RejectRead(c) PROVE FALSE
    <3>1. PICK step : step \in {"release", "update"} /\ call'[c] = [call[c] EXCEPT !.step = step]
      BY <1>1, <2>1 DEF RejectRead, Continue
    <3> QED
      BY <1>1, <1>2, <3>1 DEF CreateCall, RowCall, Idle
  <2>2. ASSUME RejectRelease(c) PROVE FALSE
    <3>1. call[c].op = "reject" /\ call'[c] = [call[c] EXCEPT !.step = "update"]
      BY <1>1, <2>2 DEF RejectRelease, Ledger, Continue, At
    <3> QED
      BY <1>1, <1>2, <3>1 DEF CreateCall, RowCall, Idle
  <2>3. ASSUME RejectUpdate(c) PROVE FALSE
    BY <1>1, <1>2, <1>5, <2>3 DEF RejectUpdate, Return, Idle
  <2> QED
    BY <1>4, <1>10, <2>1, <2>2, <2>3 DEF Reject, RejectLoad, RowOp
<1>11. ASSUME Complete(c) PROVE FALSE
  <2>1. ASSUME CompleteLedger(c) PROVE FALSE
    <3>1. call[c].op = "complete" /\ call'[c] = [call[c] EXCEPT !.step = "update"]
      BY <1>1, <2>1 DEF CompleteLedger, Ledger, Continue, At
    <3> QED
      BY <1>1, <1>2, <3>1 DEF CreateCall, RowCall, Idle
  <2> QED
    BY <1>4, <1>5, <1>11, <2>1 DEF Complete, CompleteLoad, CompleteUpdate, RowOp
<1>12. Sweep \/ (\E w \in Withdrawal : Lapse(w)) \/ UNCHANGED vars
          \/ (\E r \in Minted, q \in Quantity : HoldElsewhere(r, q)) => UNCHANGED call
  BY DEF Sweep, SweepFind, SweepUpdate, SweepAbort, Lapse, HoldElsewhere, vars
<1> QED
  BY <1>3, <1>7, <1>8, <1>9, <1>10, <1>11, <1>12 DEF Next

(* One handler at a time: there are so many rows as were inserted, no leaf *)
(* is asked for more than it holds, and a request that is about to be      *)
(* inserted fits beside the others.                                        *)
Fits(x) == x.quantity + Reserved(x.receiptId) <= receipt[x.receiptId].quantity

BookedInv ==
    /\ IsFiniteSet({w \in Withdrawal : Exists(w)})
    /\ NoOverbooking
    /\ \A c \in Call : At(c, "create", "insert") => Fits(call[c])

(* A reservation adds up quantities of the table.                          *)
LEMMA ReservedAdds == \A r : Reserved(r) = Amount(row, Reservations(r))
  BY DEF Reserved, Amount

(* And so it does after a step.                                            *)
LEMMA NextReservedAdds == \A r : Reserved(r)' = Amount(row', Reservations(r)')
<1>1. (\A r : Reserved(r) = Amount(row, Reservations(r)))'
  BY ReservedAdds, PTL
<1> QED
  BY <1>1

(* A reservation counts rows that exist, and their quantities are numbers. *)
LEMMA ReservationsCount ==
    ASSUME FlowTypeOK, IsFiniteSet({w \in Withdrawal : Exists(w)}), NEW r
    PROVE  /\ IsFiniteSet(Reservations(r))
           /\ \A w \in Reservations(r) : row[w].quantity \in Nat
           /\ Reserved(r) = Amount(row, Reservations(r))
           /\ Reserved(r) \in Nat
<1>1. \A w \in Reservations(r) : row[w].quantity \in Nat /\ Exists(w) /\ w \in Withdrawal
  BY BoundsAssumption
     DEF Reservations, FlowTypeOK, WithdrawalRow, NoWithdrawal, Exists
<1>2. IsFiniteSet(Reservations(r))
  <2>1. Reservations(r) \subseteq {w \in Withdrawal : Exists(w)}
    BY <1>1
  <2> QED
    BY <2>1, FS_Subset
<1>3. Reserved(r) = Amount(row, Reservations(r))
  BY ReservedAdds
<1> QED
  BY <1>1, <1>2, <1>3, AmountIsNat

(* Where nobody asks for more, no reservation grows.                       *)
LEMMA ReservedShrinks ==
    ASSUME WithdrawalInv, WithdrawalInv', Thins, IsFiniteSet({w \in Withdrawal : Exists(w)})
    PROVE  /\ IsFiniteSet({w \in Withdrawal : Exists(w)})'
           /\ \A r : Reserved(r) \in Nat /\ Reserved(r)' \in Nat /\ Reserved(r)' <= Reserved(r)
<1>1. FlowTypeOK /\ FlowTypeOK'
  BY DEF WithdrawalInv
<1>2. IsFiniteSet({w \in Withdrawal : Exists(w)})'
  <2>1. {w \in Withdrawal : Exists(w)'} \subseteq {w \in Withdrawal : Exists(w)}
    BY DEF Thins
  <2> QED
    BY <2>1, FS_Subset
<1>3. ASSUME NEW r
      PROVE  Reserved(r) \in Nat /\ Reserved(r)' \in Nat /\ Reserved(r)' <= Reserved(r)
  <2>1. /\ IsFiniteSet(Reservations(r)) /\ Reserved(r) = Amount(row, Reservations(r))
        /\ \A w \in Reservations(r) : row[w].quantity \in Nat
        /\ Reserved(r) \in Nat
    BY <1>1, ReservationsCount
  <2>2. PICK S, T : S = Reservations(r) /\ T = Reservations(r)'
    OBVIOUS
  <2>3. T \in SUBSET S /\ \A w \in T : row'[w].quantity = row[w].quantity
    BY <2>2 DEF Reservations, Thins
  <2>4. IsFiniteSet(T)
    BY <2>1, <2>2, <2>3, FS_Subset
  <2>5. Amount(row', T) = Amount(row, T)
    <3>1. \A w \in T : row[w].quantity \in Int /\ row'[w].quantity = row[w].quantity
      BY <2>1, <2>2, <2>3
    <3> QED
      BY <2>4, <3>1, AmountOfSame
  <2>6. Reserved(r)' = Amount(row', T)
    BY <2>2, NextReservedAdds
  <2>7. Amount(row, T) <= Amount(row, S) /\ Amount(row, T) \in Nat
    BY <2>1, <2>2, <2>3, <2>4, AmountOfPart, AmountIsNat
  <2> QED
    BY <2>1, <2>2, <2>5, <2>6, <2>7
<1> QED
  BY <1>2, <1>3

(* The rows that exist ask for receipts that exist.                        *)
LEMMA NothingAskedOfNew ==
    ASSUME FlowTypeOK, NEW r, r \notin Minted
    PROVE  Reserved(r) = 0
<1>1. Reservations(r) = {}
  BY DEF Reservations, FlowTypeOK, WithdrawalRow, NoWithdrawal
<1> QED
  BY <1>1, AmountOfNone, ReservedAdds

(* An insert adds what it asks for to one reservation.                     *)
LEMMA InsertReserves ==
    ASSUME WithdrawalInv, WithdrawalInv', IsFiniteSet({w \in Withdrawal : Exists(w)}),
           NEW c \in Call, NEW w \in Withdrawal, CreateInsert(c, w)
    PROVE  /\ IsFiniteSet({v \in Withdrawal : Exists(v)})'
           /\ call[c].receiptId \in Minted /\ call[c].quantity \in Nat
           /\ \A r : Reserved(r) \in Nat
           /\ \A r : Reserved(r)' = Reserved(r)
                        + (IF r = call[c].receiptId THEN call[c].quantity ELSE 0)
<1> DEFINE old == {v \in Withdrawal : Exists(v)}
           new == [status |-> "PENDING_PAYMENT", receiptId |-> call[c].receiptId,
                   client |-> call[c].client, quantity |-> call[c].quantity,
                   live |-> TRUE]
<1>1. /\ FlowTypeOK /\ row \in [Withdrawal -> WithdrawalRow \cup {NoWithdrawal}]
      /\ call[c] \in CreateCall \cup RowCall \cup {Idle}
  BY DEF WithdrawalInv, FlowTypeOK
<1>2. /\ call[c].op = "create" /\ ~Exists(w) /\ row' = [row EXCEPT ![w] = new]
      /\ UNCHANGED ledgerVars
  BY DEF CreateInsert, At
<1>3. call[c].receiptId \in Minted /\ call[c].quantity \in Nat
  BY <1>1, <1>2, BoundsAssumption DEF CreateCall, RowCall, RowOp, Idle, Quantity
<1>4. /\ row'[w] = new /\ \A v \in Withdrawal \ {w} : row'[v] = row[v]
  BY <1>1, <1>2
<1>5. IsFiniteSet(old)'
  <2>1. \A v \in Withdrawal : Exists(v)' => v \in old \cup {w}
    BY <1>4 DEF Exists
  <2>2. IsFiniteSet(old \cup {w})
    BY FS_AddElement
  <2>3. {v \in Withdrawal : Exists(v)'} \subseteq old \cup {w}
    BY <2>1
  <2> QED
    BY <2>2, <2>3, FS_Subset
<1>6. ASSUME NEW r
      PROVE  /\ Reserved(r) \in Nat
             /\ Reserved(r)' = Amount(row', Reservations(r)')
             /\ Reserved(r) = Amount(row, Reservations(r))
             /\ Amount(row', Reservations(r)) = Amount(row, Reservations(r))
             /\ IsFiniteSet(Reservations(r)) /\ w \notin Reservations(r)
             /\ \A v \in Reservations(r) : row'[v].quantity \in Int
  <2>1. /\ IsFiniteSet(Reservations(r)) /\ Reserved(r) = Amount(row, Reservations(r))
        /\ \A v \in Reservations(r) : row[v].quantity \in Nat
        /\ Reserved(r) \in Nat
    BY <1>1, ReservationsCount
  <2>2. w \notin Reservations(r)
    BY <1>2 DEF Reservations, Exists
  <2>3. \A v \in Reservations(r) : row[v].quantity \in Int /\ row'[v].quantity = row[v].quantity
    BY <1>4, <2>1, <2>2 DEF Reservations
  <2>4. Amount(row', Reservations(r)) = Amount(row, Reservations(r))
    BY <2>1, <2>3, AmountOfSame
  <2>5. Reserved(r)' = Amount(row', Reservations(r)')
    BY NextReservedAdds
  <2> QED
    BY <2>1, <2>2, <2>3, <2>4, <2>5
<1>7. ASSUME NEW r, r # call[c].receiptId
      PROVE  Reserved(r)' = Reserved(r)
  <2>1. Reservations(r)' = Reservations(r)
    BY <1>2, <1>4, <1>7 DEF Reservations, Exists
  <2> QED
    BY <1>6, <2>1
<1>8. ASSUME NEW r, r = call[c].receiptId
      PROVE  Reserved(r)' = Reserved(r) + call[c].quantity
  <2>1. Reservations(r)' = Reservations(r) \cup {w}
    BY <1>2, <1>4, <1>8 DEF Reservations, Exists
  <2>2. row'[w].quantity = call[c].quantity /\ row'[w].quantity \in Int
    BY <1>3, <1>4
  <2>3. Amount(row', Reservations(r) \cup {w}) = Amount(row', Reservations(r)) + row'[w].quantity
    BY <1>6, <2>2, AmountOfMore
  <2> QED
    BY <1>6, <2>1, <2>2, <2>3
<1> QED
  BY <1>3, <1>5, <1>6, <1>7, <1>8

(* A handler alone keeps what it has counted.                              *)
LEMMA BookedStep ==
    ASSUME WithdrawalInv, WithdrawalInv', BookedInv, NEW c, Call = {c}, [Next]_vars
    PROVE  BookedInv'
<1>1. Grown /\ FlowTypeOK /\ FlowTypeOK'
  BY FlowGrows DEF WithdrawalInv
<1>2. /\ \A r \in Minted : r \in Minted' /\ receipt'[r].quantity = receipt[r].quantity
      /\ \A r \in Minted : receipt[r].quantity \in Nat
      /\ \A r \in Minted' : receipt'[r].quantity \in Nat
  <2>1. TypedRows /\ TypedRows'
    BY MintedRows, NextRows DEF WithdrawalInv, RowInv
  <2> QED
    BY <1>1, <2>1 DEF Grown, SameLineage, TypedRows
<1>3. ASSUME NEW r \in Minted', r \notin Minted
      PROVE  Reserved(r) = 0
  BY <1>1, <1>3, NothingAskedOfNew
<1>4. CASE Thins
  <2>1. /\ IsFiniteSet({w \in Withdrawal : Exists(w)})'
        /\ \A r : Reserved(r) \in Nat /\ Reserved(r)' \in Nat /\ Reserved(r)' <= Reserved(r)
    BY <1>4, ReservedShrinks DEF BookedInv
  <2>2. NoOverbooking'
    <3>1. \A r \in Minted : Reserved(r) <= receipt[r].quantity
      BY DEF BookedInv, NoOverbooking
    <3>2. ASSUME NEW r \in Minted'
          PROVE  Reserved(r)' <= receipt'[r].quantity
      BY <1>2, <1>3, <2>1, <3>1
    <3> QED
      BY <3>2 DEF NoOverbooking
  <2>3. ASSUME At(c, "create", "insert")'
        PROVE  Fits(call[c])'
    <3>1. call'[c].op = "create" /\ call'[c].step = "insert"
      BY <2>3 DEF At
    <3>2. call'[c] \in CreateCall'
      BY <1>1, <3>1 DEF FlowTypeOK, RowCall, RowOp, Idle
    <3>3. UNCHANGED call \/ CreateCheckAvailable(c)
      BY <2>3, CountedOrWaited
    <3>4. PICK r, q : r = call'[c].receiptId /\ q = call'[c].quantity
      OBVIOUS
    <3>5. r \in Minted' /\ q \in Nat
      BY <3>2, <3>4, BoundsAssumption DEF CreateCall, Quantity
    <3>6. r \in Minted /\ q + Reserved(r) <= receipt[r].quantity
      <4>1. CASE UNCHANGED call
        <5>1. /\ At(c, "create", "insert") /\ call[c] \in CreateCall
              /\ r = call[c].receiptId /\ q = call[c].quantity
          BY <1>1, <3>1, <3>4, <4>1 DEF At, FlowTypeOK, RowCall, RowOp, Idle
        <5>2. Fits(call[c])
          BY <5>1 DEF BookedInv
        <5> QED
          BY <5>1, <5>2 DEF Fits, CreateCall
      <4>2. CASE CreateCheckAvailable(c)
        <5>1. /\ call[c].op = "create" /\ call'[c] = [call[c] EXCEPT !.step = "insert"]
              /\ call[c] \in CreateCall
          BY <1>1, <4>2 DEF CreateCheckAvailable, At, Continue, FlowTypeOK, RowCall, RowOp, Idle
        <5>2. call[c].receiptId = r /\ call[c].quantity = q
          BY <3>4, <5>1 DEF CreateCall
        <5>3. q <= receipt[r].quantity - Reserved(r)
          BY <4>2, <5>2 DEF CreateCheckAvailable
        <5>4. r \in Minted
          BY <5>1, <5>2 DEF CreateCall
        <5> QED
          BY <1>2, <2>1, <3>5, <5>3, <5>4
      <4> QED
        BY <3>3, <4>1, <4>2
    <3>7. q + Reserved(r)' <= receipt'[r].quantity
      BY <1>2, <2>1, <3>5, <3>6
    <3> QED
      BY <3>4, <3>7 DEF Fits
  <2> QED
    BY <2>1, <2>2, <2>3 DEF BookedInv
<1>5. ASSUME NEW w \in Withdrawal, CreateInsert(c, w)
      PROVE  BookedInv'
  <2>1. /\ IsFiniteSet({v \in Withdrawal : Exists(v)})'
        /\ call[c].receiptId \in Minted /\ call[c].quantity \in Nat
        /\ \A r : Reserved(r) \in Nat
        /\ \A r : Reserved(r)' = Reserved(r)
                      + (IF r = call[c].receiptId THEN call[c].quantity ELSE 0)
    BY <1>5, InsertReserves DEF BookedInv
  <2>2. Fits(call[c])
    BY <1>5 DEF CreateInsert, BookedInv
  <2>3. UNCHANGED ledgerVars
    BY <1>5 DEF CreateInsert
  <2>4. ASSUME NEW r \in Minted
        PROVE  Reserved(r)' <= receipt[r].quantity
    <3>1. CASE r = call[c].receiptId
      <4>1. call[c].quantity + Reserved(r) <= receipt[r].quantity
        BY <2>2, <3>1 DEF Fits
      <4> QED
        BY <1>2, <2>1, <3>1, <4>1
    <3>2. CASE r # call[c].receiptId
      <4>1. Reserved(r) <= receipt[r].quantity
        BY DEF BookedInv, NoOverbooking
      <4> QED
        BY <1>2, <2>1, <3>2, <4>1
    <3> QED
      BY <3>1, <3>2
  <2>5. NoOverbooking'
    BY <2>3, <2>4 DEF NoOverbooking, ledgerVars, Minted
  <2>6. ~At(c, "create", "insert")'
    BY <1>1, <1>5 DEF CreateInsert, Return, At, Idle, FlowTypeOK
  <2> QED
    BY <2>1, <2>5, <2>6 DEF BookedInv
<1> QED
  BY <1>4, <1>5, FlowThins

(* One request at a time, the soft reservation of createWithdrawalRequest  *)
(* is a reservation: the live unpaid requests on a receipt never ask for   *)
(* more than it holds, whatever is confirmed, rejected, swept or pledged   *)
(* in between and however many clients and rows there are.                 *)
THEOREM SoftReservationHolds ==
    ASSUME NEW c, Call = {c}
    PROVE  Spec => []NoOverbooking
<1>1. WithdrawalInv /\ Init => BookedInv
  <2> SUFFICES ASSUME WithdrawalInv, Init
               PROVE  BookedInv
    OBVIOUS
  <2>1. {w \in Withdrawal : Exists(w)} = {}
    BY DEF Init, Exists, NoWithdrawal
  <2>2. IsFiniteSet({w \in Withdrawal : Exists(w)})
    BY <2>1, FS_EmptySet
  <2>3. ASSUME NEW r \in Minted
        PROVE  Reserved(r) <= receipt[r].quantity
    <3>1. Reservations(r) = {}
      BY <2>1 DEF Reservations, Exists
    <3>2. Reserved(r) = 0
      BY <3>1, AmountOfNone, ReservedAdds
    <3>3. receipt[r].quantity \in Nat
      BY MintedRows DEF WithdrawalInv, RowInv, TypedRows
    <3> QED
      BY <3>2, <3>3
  <2>4. ~At(c, "create", "insert")
    BY DEF Init, At, Idle
  <2> QED
    BY <2>2, <2>3, <2>4 DEF BookedInv, NoOverbooking
<1>2. WithdrawalInv /\ WithdrawalInv' /\ BookedInv /\ [Next]_vars => BookedInv'
  BY BookedStep
<1>3. BookedInv => NoOverbooking
  BY DEF BookedInv
<1> QED
  BY <1>1, <1>2, <1>3, WithdrawalInvariance, FlowStarts, PTL DEF Spec
=============================================================================
