---------------------------- MODULE Partnership ----------------------------
(***************************************************************************)
(* Financiers, the warehouses they onboard, and the pledges that need      *)
(* both: src/src/warehouse-links, src/src/financier-orgs and the gate in   *)
(* createPledge and acceptPledge.                                          *)
(*                                                                         *)
(* A financier asks to onboard a warehouse, a tenant administrator decides,*)
(* the financier may leave again once it holds no lien there; a global     *)
(* administrator suspends, reactivates and finally offboards the financier.*)
(* Every handler reads rows, decides, and updates by id in a statement of  *)
(* its own; no unique index stands behind the duplicate check.             *)
(*                                                                         *)
(* The goods are left to Collateral: a pledge that closes and a lien that  *)
(* is released are single steps here.  Documents, names, notifications and *)
(* the activity log are not here.                                          *)
(***************************************************************************)
EXTENDS Handlers, Naturals, FiniteSets

CONSTANTS
    Org, Warehouse,
    Link,    \* bound: link rows
    Pledge   \* bound: pledge rows

VARIABLES
    org,        \* financier_orgs
    warehouse,  \* status of a warehouse
    link,       \* warehouse_links
    pledge,     \* pledges
    lien        \* status of the lien of a pledge

vars == <<org, warehouse, link, pledge, lien, call>>

OrgStatus == {"ABSENT", "ACTIVE", "SUSPENDED", "OFFBOARDED"}
WarehouseStatus == {"ACTIVE", "INACTIVE"}
LinkStatus == {"PENDING", "ACTIVE", "OFFBOARDED"}
PledgeStatus == {"PENDING", "ACCEPTED", "CLOSED"}
LienStatus == {"NONE", "ACTIVE", "PARTIALLY_RELEASED", "RELEASED"}

LinkRow == [org : Org, wh : Warehouse, status : LinkStatus,
            signed : BOOLEAN, reason : BOOLEAN]
PledgeRow == [org : Org, wh : Warehouse, status : PledgeStatus]

NoLink == [status |-> "ABSENT"]
NoPledge == [status |-> "ABSENT"]

LinksOf(o, w) == {l \in Link : link[l] # NoLink /\ link[l].org = o /\ link[l].wh = w}
PledgesTo(o) == {p \in Pledge : pledge[p] # NoPledge /\ pledge[p].org = o}
PledgesAt(o, w) == {p \in PledgesTo(o) : pledge[p].wh = w}

Engaged(l) == link[l].status \in {"PENDING", "ACTIVE"}

Live(p) == lien[p] \in {"ACTIVE", "PARTIALLY_RELEASED"}

(* requireFinancierOrg: only a suspended organisation is turned away.      *)
MayAct(o) == org[o] \in {"ACTIVE", "OFFBOARDED"}

-----------------------------------------------------------------------------
Init ==
    /\ org = [o \in Org |-> "ABSENT"]
    /\ warehouse = [w \in Warehouse |-> "ACTIVE"]
    /\ link = [l \in Link |-> NoLink]
    /\ pledge = [p \in Pledge |-> NoPledge]
    /\ lien = [p \in Pledge |-> "NONE"]
    /\ call = [c \in Call |-> Idle]

rows == <<org, warehouse, link, pledge, lien>>

Reading == UNCHANGED rows
LinkOnly == UNCHANGED <<org, warehouse, pledge, lien>>

Proceed(c, step) == Continue(c, [call[c] EXCEPT !.step = step]) /\ Reading

-----------------------------------------------------------------------------
(* The organisation: one transaction creates it, three verbs move it.      *)
CreateFinancierOrg(o) ==
    /\ org[o] = "ABSENT"
    /\ org' = [org EXCEPT ![o] = "ACTIVE"]
    /\ UNCHANGED <<warehouse, link, pledge, lien, call>>

(* Asking for the status the organisation already has writes nothing.      *)
OrgLoad(c, op, o, from) ==
    /\ org[o] \in from
    /\ Begin(c, [op |-> op, step |-> "write", o |-> o])
    /\ Reading

SuspendLoad(c, o) == OrgLoad(c, "SUSPENDED", o, {"ACTIVE"})

(* Variant: a financier that left can come back.                           *)
ReactivateLoadAny(c, o) == OrgLoad(c, "ACTIVE", o, {"SUSPENDED", "OFFBOARDED"})

ReactivateLoad(c, o) == OrgLoad(c, "ACTIVE", o, {"SUSPENDED"})

OffboardOrgLoad(c, o) ==
    /\ org[o] \in {"ACTIVE", "SUSPENDED"}
    /\ Begin(c, [op |-> "OFFBOARDED", step |-> "count", o |-> o])
    /\ Reading

OffboardOrgCount(c) ==
    /\ At(c, "OFFBOARDED", "count")
    /\ \A p \in PledgesTo(call[c].o) : ~Live(p)
    /\ Proceed(c, "write")

(* The update by id, whatever the row says by now.                         *)
OrgWrite(c) ==
    \E status \in OrgStatus :
        /\ At(c, status, "write")
        /\ org' = [org EXCEPT ![call[c].o] = status]
        /\ Return(c)
        /\ UNCHANGED <<warehouse, link, pledge, lien>>

(* updateWarehouse                                                         *)
SetWarehouse(w, status) ==
    /\ warehouse[w] # status
    /\ warehouse' = [warehouse EXCEPT ![w] = status]
    /\ UNCHANGED <<org, link, pledge, lien, call>>

-----------------------------------------------------------------------------
(* onboardWarehouse: the caller, the warehouse, the clash, the insert.     *)
OnboardLoad(c, o, w) ==
    /\ MayAct(o)
    /\ warehouse[w] = "ACTIVE"
    /\ Begin(c, [op |-> "onboard", step |-> "clash", o |-> o, w |-> w])
    /\ Reading

(* Variant: a request that still waits does not clash.                     *)
OnboardCheckActive(c) ==
    /\ At(c, "onboard", "clash")
    /\ ~\E l \in LinksOf(call[c].o, call[c].w) : link[l].status = "ACTIVE"
    /\ Proceed(c, "insert")

OnboardCheck(c) ==
    /\ At(c, "onboard", "clash")
    /\ \A l \in LinksOf(call[c].o, call[c].w) : ~Engaged(l)
    /\ Proceed(c, "insert")

OnboardInsert(c, l) ==
    /\ At(c, "onboard", "insert")
    /\ link[l] = NoLink
    /\ link' = [link EXCEPT ![l] = [org |-> call[c].o, wh |-> call[c].w,
                                    status |-> "PENDING",
                                    signed |-> FALSE, reason |-> FALSE]]
    /\ Return(c)
    /\ LinkOnly

(* approveWarehouseLink and rejectWarehouseLink                            *)
(* Variant: a decided link can be decided again.                           *)
DecideLoadEngaged(c, l, op) ==
    /\ Engaged(l)
    /\ Begin(c, [op |-> op, step |-> "write", l |-> l])
    /\ Reading

DecideLoad(c, l, op) ==
    /\ link[l].status = "PENDING"
    /\ Begin(c, [op |-> op, step |-> "write", l |-> l])
    /\ Reading

ApproveWrite(c) ==
    /\ At(c, "approveLink", "write")
    /\ link' = [link EXCEPT ![call[c].l].status = "ACTIVE", ![call[c].l].signed = TRUE]
    /\ Return(c)
    /\ LinkOnly

(* Variant: a status of its own, which the schema does not have.           *)
RejectWriteRejected(c) ==
    /\ At(c, "rejectLink", "write")
    /\ link' = [link EXCEPT ![call[c].l].status = "REJECTED", ![call[c].l].reason = TRUE]
    /\ Return(c)
    /\ LinkOnly

RejectWrite(c) ==
    /\ At(c, "rejectLink", "write")
    /\ link' = [link EXCEPT ![call[c].l].status = "OFFBOARDED", ![call[c].l].reason = TRUE]
    /\ Return(c)
    /\ LinkOnly

(* offboardWarehouse: the link, the live liens behind it, the update.      *)
OffboardLinkLoad(c, l) ==
    /\ link[l].status = "ACTIVE"
    /\ MayAct(link[l].org)
    /\ Begin(c, [op |-> "offboardLink", step |-> "count", l |-> l])
    /\ Reading

(* Variant: a lien that was released in part is not counted.               *)
OffboardLinkCountActive(c) ==
    /\ At(c, "offboardLink", "count")
    /\ LET row == link[call[c].l]
       IN \A p \in PledgesAt(row.org, row.wh) : lien[p] # "ACTIVE"
    /\ Proceed(c, "write")

OffboardLinkCount(c) ==
    /\ At(c, "offboardLink", "count")
    /\ LET row == link[call[c].l] IN \A p \in PledgesAt(row.org, row.wh) : ~Live(p)
    /\ Proceed(c, "write")

OffboardLinkWrite(c) ==
    /\ At(c, "offboardLink", "write")
    /\ link' = [link EXCEPT ![call[c].l].status = "OFFBOARDED"]
    /\ Return(c)
    /\ LinkOnly

-----------------------------------------------------------------------------
(* createPledge: the gate, then (after the hold) the insert.               *)
(* Variant: a request that still waits will do.                            *)
PartnerEngaged(o, w) == \E l \in LinksOf(o, w) : Engaged(l)

Partner(o, w) == \E l \in LinksOf(o, w) : link[l].status = "ACTIVE"

(* Variant: the status of the financier is not asked for.                  *)
AdmitsAnyStatus(o, w) == Partner(o, w)

Admits(o, w) == Partner(o, w) /\ org[o] = "ACTIVE"

PledgeGate(c, o, w) ==
    /\ Admits(o, w)
    /\ Begin(c, [op |-> "createPledge", step |-> "insert", o |-> o, w |-> w])
    /\ Reading

PledgeInsert(c, p) ==
    /\ At(c, "createPledge", "insert")
    /\ pledge[p] = NoPledge
    /\ pledge' = [pledge EXCEPT ![p] = [org |-> call[c].o, wh |-> call[c].w,
                                        status |-> "PENDING"]]
    /\ Return(c)
    /\ UNCHANGED <<org, warehouse, link, lien>>

(* acceptPledge asks for the organisation again but not for the link.      *)
AcceptLoad(c, p) ==
    /\ pledge[p].status = "PENDING"
    /\ MayAct(pledge[p].org)
    /\ Begin(c, [op |-> "acceptPledge", step |-> "insert", p |-> p])
    /\ Reading

(* The ledger lets through only goods that are still held for the pledge.  *)
AcceptInsert(c) ==
    LET p == call[c].p IN
    /\ At(c, "acceptPledge", "insert")
    /\ pledge[p].status = "PENDING"
    /\ pledge' = [pledge EXCEPT ![p].status = "ACCEPTED"]
    /\ lien' = [lien EXCEPT ![p] = "ACTIVE"]
    /\ Return(c)
    /\ UNCHANGED <<org, warehouse, link>>

(* Cancelled, rejected or expired.                                         *)
ClosePledge(p) ==
    /\ pledge[p].status = "PENDING"
    /\ pledge' = [pledge EXCEPT ![p].status = "CLOSED"]
    /\ UNCHANGED <<org, warehouse, link, lien, call>>

(* Part of the goods, or all of them, by release request or by force.      *)
ReleaseLien(p, status) ==
    /\ Live(p)
    /\ status \in {"PARTIALLY_RELEASED", "RELEASED"}
    /\ lien' = [lien EXCEPT ![p] = status]
    /\ UNCHANGED <<org, warehouse, link, pledge, call>>

-----------------------------------------------------------------------------
OrgStep(c, o) ==
    \/ SuspendLoad(c, o)
    \/ ReactivateLoad(c, o)
    \/ OffboardOrgLoad(c, o)
    \/ \E w \in Warehouse : OnboardLoad(c, o, w) \/ PledgeGate(c, o, w)

LinkStep(c, l) ==
    \/ OnboardInsert(c, l)
    \/ \E op \in {"approveLink", "rejectLink"} : DecideLoad(c, l, op)
    \/ OffboardLinkLoad(c, l)

HandlerStep(c) ==
    \/ OffboardOrgCount(c) \/ OrgWrite(c)
    \/ OnboardCheck(c) \/ ApproveWrite(c) \/ RejectWrite(c)
    \/ OffboardLinkCount(c) \/ OffboardLinkWrite(c)
    \/ AcceptInsert(c)
    \/ Abandon(c) /\ Reading

Elsewhere ==
    \/ \E o \in Org : CreateFinancierOrg(o)
    \/ \E w \in Warehouse, s \in WarehouseStatus : SetWarehouse(w, s)
    \/ \E p \in Pledge : ClosePledge(p) \/ \E s \in LienStatus : ReleaseLien(p, s)

Next ==
    \/ Elsewhere
    \/ \E c \in Call :
        \/ HandlerStep(c)
        \/ \E o \in Org : OrgStep(c, o)
        \/ \E l \in Link : LinkStep(c, l)
        \/ \E p \in Pledge : PledgeInsert(c, p) \/ AcceptLoad(c, p)

Spec == Init /\ [][Next]_vars

-----------------------------------------------------------------------------
(* Every row is a row of the schema.                                       *)
TypeOK ==
    /\ org \in [Org -> OrgStatus]
    /\ warehouse \in [Warehouse -> WarehouseStatus]
    /\ link \in [Link -> LinkRow \cup {NoLink}]
    /\ pledge \in [Pledge -> PledgeRow \cup {NoPledge}]
    /\ lien \in [Pledge -> LienStatus]

(* No goods are pledged to a financier whose agreement with that warehouse *)
(* was never signed, however the handlers overlap: createPledge reads an   *)
(* ACTIVE link, only approveWarehouseLink makes one, and nothing erases    *)
(* signedAt.                                                               *)
PledgedUnderSignature ==
    \A p \in Pledge : pledge[p] # NoPledge =>
        \E l \in LinksOf(pledge[p].org, pledge[p].wh) : link[l].signed

(* One request at a time: a financier and a warehouse have one link that   *)
(* is pending or active (the duplicate check of onboardWarehouse).         *)
OneEngagement ==
    \A o \in Org, w \in Warehouse :
        Cardinality({l \in LinksOf(o, w) : Engaged(l)}) <= 1

(* One request at a time: a link with a reason is a rejected request, so   *)
(* nothing was ever signed under it (rejectWarehouseLink's note to the     *)
(* front end).                                                             *)
ReasonMeansRejected ==
    \A l \in Link : link[l] # NoLink /\ link[l].reason =>
        link[l].status = "OFFBOARDED" /\ ~link[l].signed

(* Offboarding a financier is terminal.                                    *)
OffboardingIsTerminal ==
    \A o \in Org : org[o] = "OFFBOARDED" => org'[o] = "OFFBOARDED"

(* One request at a time: no link and no financier leaves with a live lien *)
(* behind it (the counts of offboardWarehouse and offboardFinancierOrg).   *)
NothingStranded ==
    /\ \A l \in Link : link[l].status = "ACTIVE" /\ link'[l].status = "OFFBOARDED" =>
         \A p \in PledgesAt(link[l].org, link[l].wh) : ~Live(p)
    /\ \A o \in Org : org[o] # "OFFBOARDED" /\ org'[o] = "OFFBOARDED" =>
         \A p \in PledgesTo(o) : ~Live(p)

(* One request at a time: goods are pledged only to an active financier    *)
(* with an active link to their warehouse (the gate of createPledge).      *)
PledgedToPartner ==
    \A p \in Pledge : pledge[p] = NoPledge /\ pledge'[p] # NoPledge =>
     /\ org[pledge'[p].org] = "ACTIVE"
     /\ \E l \in LinksOf(pledge'[p].org, pledge'[p].wh) : link[l].status = "ACTIVE"

(* Liens of an offboarded financier would be commitments nobody answers    *)
(* for: the comment over the count of offboardFinancierOrg says they       *)
(* cannot be orphaned.  Refuted: a pledge that was pending when its        *)
(* financier was offboarded can still be accepted.                         *)
NoOrphanedLien ==
    \A o \in Org : org[o] = "OFFBOARDED" => \A p \in PledgesTo(o) : ~Live(p)

(* The number of liens an administrator sees of a financier.               *)
LienCount(o) == Cardinality({p \in PledgesTo(o) : lien[p] = "ACTIVE"})

(* The projection says it counts the liens that are not released.          *)
(* Refuted: a partially released lien is not counted, and still blocks the *)
(* offboarding the count is read for.                                      *)
LienCountIsLive ==
    \A o \in Org : LienCount(o) = Cardinality({p \in PledgesTo(o) : Live(p)})
=============================================================================
