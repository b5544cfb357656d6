------------------------------ MODULE Roster ------------------------------
(***************************************************************************)
(* Who works at which warehouse, and the sign-in that asks for it:         *)
(* src/src/managers, src/src/admin/services/admin-warehouse.service.ts,    *)
(* src/src/admin-users and src/src/auth/warehouse-auth.service.ts.         *)
(*                                                                         *)
(* A warehouse has one password its staff share.  An assignment is a row   *)
(* per warehouse and manager that is ended, never deleted, under a unique  *)
(* index.  Signing in takes two or three requests that carry a short-lived *)
(* token from one to the next.                                             *)
(*                                                                         *)
(* Passwords are known by who chose them.  Names, codes, e-mail addresses, *)
(* permissions and hashes are not here.                                    *)
(***************************************************************************)
EXTENDS Handlers, FiniteSets

CONSTANTS Warehouse, Manager

VARIABLES
    assign,     \* warehouse_manager_assignments: the row of a pair
    staff,      \* status of a manager's account
    house,      \* warehouses: status and credentials
    changeTok,  \* warehouses whose staff were told to choose a password
    selectTok,  \* warehouses whose staff are asked who they are
    session     \* managers signed in at a warehouse

vars == <<assign, staff, house, changeTok, selectTok, session, call>>

Post == Warehouse \X Manager

UserStatus == {"ABSENT", "ACTIVE", "INACTIVE", "DEACTIVATED", "SUSPENDED"}

House == [status : {"ABSENT", "ACTIVE", "INACTIVE"},
          password : {"none", "initial", "own"},
          mustChange : BOOLEAN]

tokens == <<changeTok, selectTok, session>>

StaffOf(w) == {m \in Manager : assign[w, m] = "active"}

Batch(S) == (SUBSET S) \ {{}}

-----------------------------------------------------------------------------
Init ==
    /\ assign = [p \in Post |-> "none"]
    /\ staff = [m \in Manager |-> "ABSENT"]
    /\ house = [w \in Warehouse |->
                  [status |-> "ABSENT", password |-> "none", mustChange |-> FALSE]]
    /\ changeTok = {} /\ selectTok = {} /\ session = {}
    /\ call = [c \in Call |-> Idle]

Assign(posts, status) ==
    assign' = [p \in Post |-> IF p \in posts THEN status ELSE assign[p]]

(* createMany without skipDuplicates: a row that exists fails the batch.   *)
Free(posts) == \A p \in posts : assign[p] = "none"

-----------------------------------------------------------------------------
(* createWarehouse and createManager: the row and its assignments in one   *)
(* transaction.                                                            *)
CreateWarehouse(w, ms) ==
    /\ house[w].status = "ABSENT"
    /\ \A m \in ms : staff[m] # "ABSENT"
    /\ house' = [house EXCEPT ![w].status = "ACTIVE"]
    /\ Assign({w} \X ms, "active")
    /\ UNCHANGED <<staff, tokens, call>>

CreateManager(m, ws) ==
    /\ staff[m] = "ABSENT"
    /\ \A w \in ws : house[w].status # "ABSENT"
    /\ staff' = [staff EXCEPT ![m] = "ACTIVE"]
    /\ Assign(ws \X {m}, "active")
    /\ UNCHANGED <<house, tokens, call>>

UpdateWarehouse(w, status) ==
    /\ house[w].status \notin {"ABSENT", status}
    /\ house' = [house EXCEPT ![w].status = status]
    /\ UNCHANGED <<assign, staff, tokens, call>>

(* activate, deactivate and suspend by the tenant; disable and enable by   *)
(* the platform.  Each is an update by id, whatever the status was.        *)
SetStatus(m, status) ==
    /\ staff[m] \notin {"ABSENT", status}
    /\ staff' = [staff EXCEPT ![m] = status]
    /\ UNCHANGED <<assign, house, tokens, call>>

-----------------------------------------------------------------------------
(* assignManagers: the posts that are not active, the batch, the flag.     *)
NewPosts(posts) == {p \in posts : assign[p] # "active"}

AssignLoad(c, op, posts) ==
    /\ NewPosts(posts) # {}
    /\ \A p \in posts : house[p[1]].status # "ABSENT" /\ staff[p[2]] # "ABSENT"
    /\ Begin(c, [op |-> op, step |-> "insert", new |-> NewPosts(posts)])
    /\ UNCHANGED <<assign, staff, house, tokens>>

AssignManagersLoad(c, w, ms) == AssignLoad(c, "assignManagers", {w} \X ms)

AssignManagersInsert(c) ==
    /\ At(c, "assignManagers", "insert")
    /\ Free(call[c].new)
    /\ Assign(call[c].new, "active")
    /\ Continue(c, [call[c] EXCEPT !.step = "rotate"])
    /\ UNCHANGED <<staff, house, tokens>>

AssignManagersRotate(c) ==
    /\ At(c, "assignManagers", "rotate")
    /\ house' = [w \in Warehouse |->
                   [house[w] EXCEPT !.mustChange = @ \/ \E p \in call[c].new : p[1] = w]]
    /\ Return(c)
    /\ UNCHANGED <<assign, staff, tokens>>

(* assignWarehouses: the same from the manager's side, without the flag.   *)
AssignWarehousesLoad(c, m, ws) == AssignLoad(c, "assignWarehouses", ws \X {m})

AssignWarehousesInsert(c) ==
    /\ At(c, "assignWarehouses", "insert")
    /\ Free(call[c].new)
    /\ Assign(call[c].new, "active")
    /\ Return(c)
    /\ UNCHANGED <<staff, house, tokens>>

(* unassignWarehouse: the active row, then the update by id.               *)
UnassignLoad(c, p) ==
    /\ assign[p] = "active"
    /\ Begin(c, [op |-> "unassign", step |-> "write", p |-> p])
    /\ UNCHANGED <<assign, staff, house, tokens>>

UnassignWrite(c) ==
    /\ At(c, "unassign", "write")
    /\ Assign({call[c].p}, "ended")
    /\ Return(c)
    /\ UNCHANGED <<staff, house, tokens>>

-----------------------------------------------------------------------------
(* setWarehouseCredentials                                                 *)
SetCredentials(w) ==
    /\ house[w].status # "ABSENT"
    /\ house' = [house EXCEPT ![w].password = "initial", ![w].mustChange = TRUE]
    /\ UNCHANGED <<assign, staff, tokens, call>>

(* Variant: the password is replaced but need not be changed.              *)
ResetPasswordKept(w) ==
    /\ house[w].password # "none"
    /\ house' = [house EXCEPT ![w].password = "initial"]
    /\ UNCHANGED <<assign, staff, tokens, call>>

(* resetWarehousePassword asks for an e-mail address, and so for a         *)
(* password that was set before.                                           *)
ResetPassword(w) ==
    /\ house[w].password # "none"
    /\ house' = [house EXCEPT ![w].password = "initial", ![w].mustChange = TRUE]
    /\ UNCHANGED <<assign, staff, tokens, call>>

-----------------------------------------------------------------------------
Login(w) ==
    /\ house[w].status = "ACTIVE"
    /\ house[w].password # "none"
    /\ IF house[w].mustChange
       THEN changeTok' = changeTok \cup {w} /\ UNCHANGED selectTok
       ELSE selectTok' = selectTok \cup {w} /\ UNCHANGED changeTok
    /\ UNCHANGED <<assign, staff, house, session, call>>

(* The token is not consumed: it lasts until it expires.                   *)
ChangePassword(w) ==
    /\ w \in changeTok
    /\ house' = [house EXCEPT ![w].password = "own", ![w].mustChange = FALSE]
    /\ selectTok' = selectTok \cup {w}
    /\ UNCHANGED <<assign, staff, changeTok, session, call>>

(* The chosen manager is looked up again.                                  *)
SelectManager(w, m) ==
    /\ w \in selectTok
    /\ assign[w, m] = "active"
    /\ staff[m] = "ACTIVE"
    /\ session' = session \cup {<<w, m>>}
    /\ UNCHANGED <<assign, staff, house, changeTok, selectTok, call>>

Expire ==
    /\ \/ \E w \in changeTok : changeTok' = changeTok \ {w} /\ UNCHANGED <<selectTok, session>>
       \/ \E w \in selectTok : selectTok' = selectTok \ {w} /\ UNCHANGED <<changeTok, session>>
       \/ \E s \in session : session' = session \ {s} /\ UNCHANGED <<changeTok, selectTok>>
    /\ UNCHANGED <<assign, staff, house, call>>

-----------------------------------------------------------------------------
Administer ==
    \/ \E w \in Warehouse : \/ \E ms \in SUBSET Manager : CreateWarehouse(w, ms)
                            \/ \E s \in {"ACTIVE", "INACTIVE"} : UpdateWarehouse(w, s)
                            \/ SetCredentials(w) \/ ResetPassword(w)
    \/ \E m \in Manager : \/ \E ws \in SUBSET Warehouse : CreateManager(m, ws)
                          \/ \E s \in UserStatus \ {"ABSENT"} : SetStatus(m, s)

SignIn ==
    \/ \E w \in Warehouse : Login(w) \/ ChangePassword(w)
                            \/ \E m \in Manager : SelectManager(w, m)
    \/ Expire

Staffing(c) ==
    \/ \E w \in Warehouse, ms \in Batch(Manager) : AssignManagersLoad(c, w, ms)
    \/ \E m \in Manager, ws \in Batch(Warehouse) : AssignWarehousesLoad(c, m, ws)
    \/ \E p \in Post : UnassignLoad(c, p)
    \/ AssignManagersInsert(c) \/ AssignManagersRotate(c)
    \/ AssignWarehousesInsert(c) \/ UnassignWrite(c)
    \/ Abandon(c) /\ UNCHANGED <<assign, staff, house, tokens>>

Next == Administer \/ SignIn \/ \E c \in Call : Staffing(c)

Spec == Init /\ [][Next]_vars

-----------------------------------------------------------------------------
(* Every row is a row of the schema.                                       *)
TypeOK ==
    /\ assign \in [Post -> {"none", "active", "ended"}]
    /\ staff \in [Manager -> UserStatus]
    /\ house \in [Warehouse -> House]
    /\ changeTok \in SUBSET Warehouse /\ selectTok \in SUBSET Warehouse
    /\ session \in SUBSET Post

(* The password an administrator chose is good for one thing: choosing     *)
(* another.  However sign-in, resets and assignments overlap,              *)
(* changeWarehousePassword is the only way to clear mustChangePassword.    *)
InitialPasswordIsTemporary ==
    \A w \in Warehouse : house[w].password = "initial" => house[w].mustChange

(* A batch of assignments leaves out the ones that exist, so it can be     *)
(* created (assignWarehouses: additive and idempotent).  Refuted: the row  *)
(* of a manager who was unassigned still holds the unique index.           *)
AssignmentGoesThrough ==
    \A c \in Call : call[c] # Idle /\ call[c].step = "insert" => Free(call[c].new)

(* Every new member of a team that has its own password makes the next     *)
(* sign-in choose another (assignManagers: every new inheritance triggers  *)
(* a rotation).  Refuted: not when the manager is assigned from the        *)
(* manager's side, nor when it is created with the assignment.             *)
InheritanceRotates ==
    [][\A p \in Post :
         assign[p] # "active" /\ assign'[p] = "active" /\ house[p[1]].password = "own" =>
            \/ house'[p[1]].mustChange
            \/ \E c \in Call : call'[c] # Idle /\ call'[c].step = "rotate"]_vars
=============================================================================
