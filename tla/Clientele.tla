----------------------------- MODULE Clientele -----------------------------
(***************************************************************************)
(* Whose clients a warehouse serves: src/src/warehouse-manager (the list   *)
(* of clients, lookup, attach, detach, the checks before a deposit is      *)
(* filed or moved) and the commodities a warehouse accepts                 *)
(* (src/src/admin/services/admin-warehouse.service.ts).                    *)
(*                                                                         *)
(* A client belongs to a warehouse through an attachment that is ended,    *)
(* never deleted, through receipts filed there, or through the manager who *)
(* registered the client.  Quantities, grades and what the ledger does     *)
(* with a receipt are in InventoryLedger and Deposits; here a receipt is a *)
(* place, a commodity and a coarse status.                                 *)
(*                                                                         *)
(* Requests that only read and then write one row at once are one step,    *)
(* taken when no handler of this module is between two steps (AtOnce).     *)
(***************************************************************************)
EXTENDS Handlers, Naturals, FiniteSets

CONSTANTS
    Warehouse, Manager, Client, Commodity,
    Attachment, Receipt,   \* bound: row ids
    LookupLimit            \* LOOKUP_RATE_LIMIT_PER_MIN (10 in the code)

VARIABLES
    assigned,   \* <<manager, warehouse>>: active assignments
    registrar,  \* client_profiles: who registered the client
    attach,     \* client_warehouse_attachments
    accepts,    \* <<warehouse, commodity>>: warehouse_commodities
    receipt,    \* receipts
    lookups     \* lookups of a manager in the last minute

vars == <<assigned, registrar, attach, accepts, receipt, lookups, call>>
tables == <<assigned, registrar, attach, accepts, receipt, lookups>>

NoRow == [state |-> "none"]
InWarehouse == {"PENDING", "ACTIVE", "HELD"}

Attached == [state : {"active", "ended"}, client : Client, w : Warehouse]
Stored == [state : InWarehouse \cup {"CLOSED"}, client : Client, w : Warehouse,
           g : Commodity]

Rows(table) == {x \in DOMAIN table : table[x] # NoRow}
Fresh(table, x) == table[x] = NoRow

ActiveAttachments(k, w) ==
    {a \in Rows(attach) : attach[a].state = "active" /\ attach[a].client = k /\ attach[a].w = w}

ReceiptsAt(k, w) == {r \in Rows(receipt) : receipt[r].client = k /\ receipt[r].w = w}

(* The linkage guard of createDeposit, but for the registrar.              *)
Linked(k, w) == ActiveAttachments(k, w) # {} \/ ReceiptsAt(k, w) # {}

InScope(m, w) == <<m, w>> \in assigned

(* clientScopeWhere: the clients on a manager's list.                      *)
Visible(m, k) ==
    \/ registrar[k] = m
    \/ \E w \in Warehouse : InScope(m, w) /\ Linked(k, w)

AtOnce ==
    /\ \A c \in Call : call[c] = Idle
    /\ UNCHANGED call

-----------------------------------------------------------------------------
Init ==
    /\ assigned = {}
    /\ registrar = [k \in Client |-> "none"]
    /\ attach = [a \in Attachment |-> NoRow]
    /\ accepts = {}
    /\ receipt = [r \in Receipt |-> NoRow]
    /\ lookups = [m \in Manager |-> 0]
    /\ call = [c \in Call |-> Idle]

(* Assignments come and go (Roster) and clients are registered             *)
(* (Enrolment).                                                            *)
Assign(m, w) ==
    /\ assigned' = IF InScope(m, w) THEN assigned \ {<<m, w>>} ELSE assigned \cup {<<m, w>>}
    /\ AtOnce
    /\ UNCHANGED <<registrar, attach, accepts, receipt, lookups>>

Register(m, k) ==
    /\ registrar[k] = "none"
    /\ registrar' = [registrar EXCEPT ![k] = m]
    /\ AtOnce
    /\ UNCHANGED <<assigned, attach, accepts, receipt, lookups>>

(* addCommodity is an upsert; removeCommodity looks for ACTIVE receipts.   *)
AddCommodity(w, g) ==
    /\ accepts' = accepts \cup {<<w, g>>}
    /\ AtOnce
    /\ UNCHANGED <<assigned, registrar, attach, receipt, lookups>>

RemoveCommodity(w, g) ==
    /\ <<w, g>> \in accepts
    /\ ~\E r \in Rows(receipt) :
          receipt[r].w = w /\ receipt[r].g = g /\ receipt[r].state = "ACTIVE"
    /\ accepts' = accepts \ {<<w, g>>}
    /\ AtOnce
    /\ UNCHANGED <<assigned, registrar, attach, receipt, lookups>>

(* What the ledger makes of a receipt: approved, held, freed, gone.        *)
LedgerStep(r) ==
    /\ receipt[r] # NoRow
    /\ \E s \in InWarehouse \cup {"CLOSED"} :
          /\ <<receipt[r].state, s>> \in {<<"PENDING", "ACTIVE">>, <<"PENDING", "CLOSED">>,
                <<"ACTIVE", "HELD">>, <<"HELD", "ACTIVE">>, <<"HELD", "CLOSED">>}
          /\ receipt' = [receipt EXCEPT ![r].state = s]
    /\ AtOnce
    /\ UNCHANGED <<assigned, registrar, attach, accepts, lookups>>

-----------------------------------------------------------------------------
(* lookupClientByIdentifier: the bucket is a field of the service, and the *)
(* service, like the warehouse scope it is given, lives for one request.   *)
Bucket == 0

Lookup(m) ==
    /\ Bucket < LookupLimit
    /\ lookups[m] <= LookupLimit  \* bound: one lookup past the limit
    /\ lookups' = [lookups EXCEPT ![m] = @ + 1]
    /\ AtOnce
    /\ UNCHANGED <<assigned, registrar, attach, accepts, receipt>>

MinutePasses(m) ==
    /\ lookups[m] > 0
    /\ lookups' = [lookups EXCEPT ![m] = 0]
    /\ AtOnce
    /\ UNCHANGED <<assigned, registrar, attach, accepts, receipt>>

(* Variant: an attachment that is there already is not looked for.         *)
AttachLoadUnchecked(c, m, w, k) ==
    /\ InScope(m, w) /\ registrar[k] # "none"
    /\ Begin(c, [op |-> "attach", step |-> "insert", w |-> w, k |-> k])
    /\ UNCHANGED tables

(* attachClientToWarehouse                                                 *)
AttachLoad(c, m, w, k) ==
    /\ InScope(m, w) /\ registrar[k] # "none"
    /\ ActiveAttachments(k, w) = {}
    /\ Begin(c, [op |-> "attach", step |-> "insert", w |-> w, k |-> k])
    /\ UNCHANGED tables

AttachRow(a, k, w) ==
    /\ Fresh(attach, a)
    /\ attach' = [attach EXCEPT ![a] = [state |-> "active", client |-> k, w |-> w]]

AttachInsert(c, a) ==
    /\ At(c, "attach", "insert")
    /\ AttachRow(a, call[c].k, call[c].w)
    /\ Return(c)
    /\ UNCHANGED <<assigned, registrar, accepts, receipt, lookups>>

(* detachClientFromWarehouse: the active row, then the update by id.       *)
DetachLoad(c, m, a) ==
    /\ attach[a] # NoRow /\ attach[a].state = "active"
    /\ InScope(m, attach[a].w)
    /\ Begin(c, [op |-> "detach", step |-> "write", a |-> a])
    /\ UNCHANGED tables

(* Variant: the row is only marked as leaving.                             *)
DetachWriteMarked(c) ==
    /\ At(c, "detach", "write")
    /\ attach' = [attach EXCEPT ![call[c].a].state = "leaving"]
    /\ Return(c)
    /\ UNCHANGED <<assigned, registrar, accepts, receipt, lookups>>

DetachWrite(c) ==
    /\ At(c, "detach", "write")
    /\ attach' = [attach EXCEPT ![call[c].a].state = "ended"]
    /\ Return(c)
    /\ UNCHANGED <<assigned, registrar, accepts, receipt, lookups>>

-----------------------------------------------------------------------------
(* createDeposit: scope, linkage (which may attach), commodity, filing.    *)
DepositLoad(c, m, w, k, g) ==
    /\ InScope(m, w) /\ registrar[k] # "none"
    /\ Begin(c, [op |-> "createDeposit", step |-> "link", m |-> m, w |-> w, k |-> k, g |-> g])
    /\ UNCHANGED tables

DepositLinked(c) ==
    /\ At(c, "createDeposit", "link")
    /\ Linked(call[c].k, call[c].w)
    /\ Continue(c, [call[c] EXCEPT !.step = "commodity"])
    /\ UNCHANGED tables

(* Variant: the registrar deposits without an attachment.                  *)
DepositAutoAttachSkipped(c, a) ==
    /\ At(c, "createDeposit", "link")
    /\ ~Linked(call[c].k, call[c].w)
    /\ registrar[call[c].k] = call[c].m
    /\ Fresh(attach, a)
    /\ Continue(c, [call[c] EXCEPT !.step = "commodity"])
    /\ UNCHANGED tables

DepositAutoAttach(c, a) ==
    /\ At(c, "createDeposit", "link")
    /\ ~Linked(call[c].k, call[c].w)
    /\ registrar[call[c].k] = call[c].m
    /\ AttachRow(a, call[c].k, call[c].w)
    /\ Continue(c, [call[c] EXCEPT !.step = "commodity"])
    /\ UNCHANGED <<assigned, registrar, accepts, receipt, lookups>>

DepositCommodity(c) ==
    /\ At(c, "createDeposit", "commodity")
    /\ <<call[c].w, call[c].g>> \in accepts
    /\ Continue(c, [call[c] EXCEPT !.step = "file"])
    /\ UNCHANGED tables

DepositFile(c, r) ==
    /\ At(c, "createDeposit", "file")
    /\ Fresh(receipt, r)
    /\ receipt' = [receipt EXCEPT ![r] =
         [state |-> "PENDING", client |-> call[c].k, w |-> call[c].w, g |-> call[c].g]]
    /\ Return(c)
    /\ UNCHANGED <<assigned, registrar, attach, accepts, lookups>>

(* editDeposit by a manager, who must have both warehouses in scope, or    *)
(* editDepositAsAdmin; then applyDepositEdit.                              *)
EditLoad(c, r, w, g) ==
    /\ receipt[r] # NoRow /\ receipt[r].state = "PENDING"
    /\ Begin(c, [op |-> "editDeposit", step |-> "check", r |-> r,
                 old |-> receipt[r], w |-> w, g |-> g])
    /\ UNCHANGED tables

EditLoadByManager(c, m, r, w, g) ==
    /\ receipt[r] # NoRow /\ InScope(m, receipt[r].w) /\ InScope(m, w)
    /\ EditLoad(c, r, w, g)

EditLoadByAdmin(c, r, w, g) == EditLoad(c, r, w, g)

(* Variant: the warehouse is asked about the commodity that was replaced.  *)
EditCheckOld(c) ==
    /\ At(c, "editDeposit", "check")
    /\ call[c].w # call[c].old.w => <<call[c].w, call[c].old.g>> \in accepts
    /\ Continue(c, [call[c] EXCEPT !.step = "write"])
    /\ UNCHANGED tables

(* The commodity is checked only when the warehouse changes, the client's  *)
(* link never.                                                             *)
EditCheck(c) ==
    /\ At(c, "editDeposit", "check")
    /\ call[c].w # call[c].old.w => <<call[c].w, call[c].g>> \in accepts
    /\ Continue(c, [call[c] EXCEPT !.step = "write"])
    /\ UNCHANGED tables

EditWrite(c) ==
    /\ At(c, "editDeposit", "write")
    /\ receipt' = [receipt EXCEPT ![call[c].r].w = call[c].w, ![call[c].r].g = call[c].g]
    /\ Return(c)
    /\ UNCHANGED <<assigned, registrar, attach, accepts, lookups>>

-----------------------------------------------------------------------------
Elsewhere ==
    \/ \E m \in Manager, w \in Warehouse : Assign(m, w)
    \/ \E m \in Manager, k \in Client : Register(m, k)
    \/ \E w \in Warehouse, g \in Commodity : AddCommodity(w, g) \/ RemoveCommodity(w, g)
    \/ \E r \in Receipt : LedgerStep(r)
    \/ \E m \in Manager : Lookup(m) \/ MinutePasses(m)

Linking(c) ==
    \/ \E m \in Manager, w \in Warehouse, k \in Client : AttachLoad(c, m, w, k)
    \/ \E m \in Manager, a \in Attachment : DetachLoad(c, m, a)
    \/ \E a \in Attachment : AttachInsert(c, a)
    \/ DetachWrite(c)

Depositing(c) ==
    \/ \E m \in Manager, w \in Warehouse, k \in Client, g \in Commodity : DepositLoad(c, m, w, k, g)
    \/ \E m \in Manager, r \in Receipt, w \in Warehouse, g \in Commodity :
          EditLoadByManager(c, m, r, w, g)
    \/ \E r \in Receipt, w \in Warehouse, g \in Commodity : EditLoadByAdmin(c, r, w, g)
    \/ \E a \in Attachment : DepositAutoAttach(c, a)
    \/ \E r \in Receipt : DepositFile(c, r)
    \/ DepositLinked(c) \/ DepositCommodity(c) \/ EditCheck(c) \/ EditWrite(c)

Next ==
    \/ Elsewhere
    \/ \E c \in Call : Linking(c) \/ Depositing(c)
    \/ \E c \in Call : Abandon(c) /\ UNCHANGED tables

Spec == Init /\ [][Next]_vars

-----------------------------------------------------------------------------
(* Every row is a row of the schema.                                       *)
TypeOK ==
    /\ assigned \subseteq Manager \X Warehouse
    /\ registrar \in [Client -> Manager \cup {"none"}]
    /\ attach \in [Attachment -> Attached \cup {NoRow}]
    /\ accepts \subseteq Warehouse \X Commodity
    /\ receipt \in [Receipt -> Stored \cup {NoRow}]
    /\ \A m \in Manager : lookups[m] \in 0..LookupLimit + 1

(* A client has one active attachment to a warehouse, whether a manager    *)
(* attached it or the first deposit did (attachClientToWarehouse and the   *)
(* registrar's auto-attach).  With two handlers: refuted.                  *)
OneActiveAttachment ==
    \A k \in Client, w \in Warehouse : Cardinality(ActiveAttachments(k, w)) <= 1

(* When a deposit is filed, the client is linked to the warehouse, by an   *)
(* attachment or by earlier receipts, the registrar's own first deposit    *)
(* included (the linkage guard of createDeposit).                          *)
FiledUnderLink ==
    \A r \in Receipt :
      receipt[r] = NoRow /\ receipt'[r] # NoRow =>
         Linked(receipt'[r].client, receipt'[r].w)

(* Goods that are filed or moved to another warehouse go where their       *)
(* commodity, as corrected by the same call, is accepted (createDeposit,   *)
(* applyDepositEdit).                                                      *)
PlacedWhereAccepted ==
    \A r \in Receipt :
      receipt'[r] # NoRow /\ (receipt[r] = NoRow \/ receipt'[r].w # receipt[r].w) =>
         <<receipt'[r].w, receipt'[r].g>> \in accepts

(* A detached client is off the list of the warehouse's managers.  Refuted:*)
(* receipts and registration keep the client there.                        *)
DetachedIsHidden ==
    \A m \in Manager, k \in Client :
        /\ \E a \in Rows(attach) : attach[a].client = k /\ InScope(m, attach[a].w)
        /\ \A w \in Warehouse : InScope(m, w) => ActiveAttachments(k, w) = {}
        => ~Visible(m, k)

(* A client is linked to a warehouse before goods of theirs are there.     *)
(* Refuted by a deposit that is moved while it awaits approval.            *)
StoredUnderLink ==
    [][\A r \in Receipt :
         receipt'[r] # NoRow /\ (receipt[r] = NoRow \/ receipt'[r].w # receipt[r].w) =>
            Linked(receipt'[r].client, receipt'[r].w)]_vars

(* What is stored and transactable at a warehouse is accepted there.       *)
(* Refuted: removeCommodity overlooks deposits that await approval and     *)
(* held receipts, and a correction may change the commodity alone.         *)
ActiveStockAccepted ==
    \A r \in Rows(receipt) :
        receipt[r].state = "ACTIVE" => <<receipt[r].w, receipt[r].g>> \in accepts

(* A manager makes at most so many lookups a minute.  Refuted: every       *)
(* request counts in a bucket of its own.                                  *)
LookupsLimited == \A m \in Manager : lookups[m] <= LookupLimit
=============================================================================
