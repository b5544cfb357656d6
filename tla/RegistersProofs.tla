-------------------------- MODULE RegistersProofs --------------------------
(***************************************************************************)
(* Proofs about the registers around the ledger, for every value of the    *)
(* bounds that MCRegisters leaves open.                                    *)
(*                                                                         *)
(* Each register has an inductive invariant: its tables (TypeOK and what   *)
(* its service module keeps of them) and, handler by handler, what a       *)
(* request carries from one step to the next (...Knows) and, when it runs  *)
(* alone, what it has read and is still so (...Sees).  The ...Init and     *)
(* ...Step lemmas show that Init makes it true and that every action keeps *)
(* it; where the step itself is promised something, the ...Step lemma says *)
(* so beside it.  Registers that share no table then compose: SceneInv     *)
(* picks the invariant of the register a behaviour follows.                *)
(***************************************************************************)
EXTENDS MCRegisters, Sequences, TLAPS, FiniteSetTheorems, WellFoundedInduction

(* A set whose elements are all the same has one at most.                  *)
LEMMA AtMostOne ==
    ASSUME NEW S, \A k, l \in S : k = l
    PROVE  Cardinality(S) <= 1
<1>1. CASE S = {}
    BY <1>1, FS_EmptySet
<1>2. ASSUME NEW l \in S
      PROVE  Cardinality(S) <= 1
    <2>1. S = {l}
        BY <1>2
    <2>2. Cardinality({l}) = 1
        BY FS_Singleton
    <2>. QED  BY <2>1, <2>2
<1>. QED  BY <1>1, <1>2

(* A set of natural numbers that is not empty has a least one.             *)
LEMMA LeastExists ==
    ASSUME NEW S \in SUBSET Nat, S # {}
    PROVE  \E n \in S : \A m \in S : n <= m
<1>1. PICK n \in S : \A m \in S : <<m, n>> \notin OpToRel(<, Nat)
    BY NatLessThanWellFounded, WFMin
<1>2. \A m \in S : ~(m < n)
    BY <1>1 DEF OpToRel
<1>. QED  BY <1>2

(* A set of numbers up to n that is not empty has a greatest one.          *)
LEMMA GreatestExists ==
    ASSUME NEW n \in Nat, NEW S \in SUBSET (1..n), S # {}
    PROVE  \E i \in S : \A j \in S : j <= i
<1>. DEFINE D == {n - i : i \in S}
<1>1. D \in SUBSET Nat /\ D # {}
    <2>1. \A i \in S : i \in 1..n /\ n - i \in Nat
        OBVIOUS
    <2>. QED  BY <2>1
<1>2. PICK d \in D : \A e \in D : d <= e
    BY <1>1, LeastExists
<1>3. PICK i \in S : d = n - i
    BY <1>2
<1>4. ASSUME NEW j \in S PROVE j <= i
    <2>1. n - j \in D
        OBVIOUS
    <2>2. n - i <= n - j
        BY <1>2, <1>3, <2>1
    <2>3. i \in 1..n /\ j \in 1..n
        OBVIOUS
    <2>. HIDE DEF D
    <2>. QED  BY <2>2, <2>3
<1>. QED  BY <1>4
-----------------------------------------------------------------------------
(* Partnership, with pledge rows P and handlers H.  What a handler carries *)
(* from one step to the next is of the schema, the link it decides on      *)
(* exists, and a pledge that passed the gate has its signature.            *)
PartnerKnows(P, H, x) ==
    /\ x.op \in Partners(P, H)!OrgStatus => x.o \in Org
    /\ x.op \in {"onboard", "createPledge"} => x.o \in Org /\ x.w \in Warehouse
    /\ x.op \in {"approveLink", "rejectLink", "offboardLink"} =>
          x.l \in Pact /\ link[x.l] # Partners(P, H)!NoLink
    /\ x.op = "createPledge" => \E l \in Partners(P, H)!LinksOf(x.o, x.w) : link[l].signed
    /\ x.op = "acceptPledge" => x.p \in P

PartnersCalls(P, H) == DOMAIN call = H /\ \A c \in H : PartnerKnows(P, H, call[c])

ActiveIsSigned == \A l \in Pact : link[l].status = "ACTIVE" => link[l].signed

PartnersInv(P, H) ==
    /\ Partners(P, H)!TypeOK
    /\ PartnersCalls(P, H)
    /\ ActiveIsSigned
    /\ Partners(P, H)!PledgedUnderSignature

(* What a step may do to the links: nothing moves one to other partners or *)
(* erases its signature.                                                   *)
LinksKeep(P, H) ==
    \A l \in Pact :
        link[l] # Partners(P, H)!NoLink =>
            /\ link'[l] # Partners(P, H)!NoLink
            /\ link'[l].org = link[l].org /\ link'[l].wh = link[l].wh
            /\ link[l].signed => link'[l].signed

(* Nothing erases a signature: what was signed stays so.                   *)
LEMMA SignaturesLast ==
    ASSUME NEW P, NEW H, LinksKeep(P, H), NEW o, NEW w,
           \E l \in Partners(P, H)!LinksOf(o, w) : link[l].signed
    PROVE  \E l \in Partners(P, H)!LinksOf(o, w)' : link'[l].signed
BY DEF LinksKeep, Partners!LinksOf, Partners!NoLink

(* What a handler carries stays of the schema while the links keep their   *)
(* signatures.                                                             *)
LEMMA PartnerKnowsStill ==
    ASSUME NEW P, NEW H, LinksKeep(P, H), NEW x, PartnerKnows(P, H, x)
    PROVE  PartnerKnows(P, H, x)'
<1>1. x.op = "createPledge" => \E l \in Partners(P, H)!LinksOf(x.o, x.w)' : link'[l].signed
    BY SignaturesLast DEF PartnerKnows
<1>2. x.op \in {"approveLink", "rejectLink", "offboardLink"} =>
          x.l \in Pact /\ link'[x.l] # Partners(P, H)!NoLink'
    BY DEF PartnerKnows, LinksKeep, Partners!NoLink
<1>. QED  BY <1>1, <1>2 DEF PartnerKnows, Partners!OrgStatus, Partners!NoLink

(* Handlers other than the one that moves know what they knew.             *)
LEMMA PartnerCallsStep ==
    ASSUME NEW P, NEW H, PartnersCalls(P, H), LinksKeep(P, H), NEW c \in H,
           NEW x, PartnerKnows(P, H, x), call' = [call EXCEPT ![c] = x]
    PROVE  PartnersCalls(P, H)'
<1>1. DOMAIN call' = H /\ call'[c] = x /\ \A d \in H \ {c} : call'[d] = call[d]
    BY DEF PartnersCalls
<1>2. PartnerKnows(P, H, x)'
    BY PartnerKnowsStill
<1>3. ASSUME NEW d \in H PROVE PartnerKnows(P, H, call[d])'
    <2>1. PICK y : y = call'[d]
        OBVIOUS
    <2>2. PartnerKnows(P, H, y)'
        <3>1. CASE d = c
            BY <1>1, <1>2, <2>1, <3>1
        <3>2. CASE d # c
            <4>1. PartnerKnows(P, H, y)
                BY <1>1, <2>1, <3>2 DEF PartnersCalls
            <4>. QED  BY <4>1, PartnerKnowsStill
        <3>. QED  BY <3>1, <3>2
    <2>. QED  BY <2>1, <2>2 DEF PartnerKnows
<1>. QED  BY <1>1, <1>3 DEF PartnersCalls

(* The partners' tables start under the invariant.                         *)
LEMMA PartnersInit ==
    ASSUME NEW P, NEW H, Partners(P, H)!Init
    PROVE  PartnersInv(P, H)
<1>. USE DEF Partners!Init, Partners!NoLink, Partners!NoPledge, Partners!Idle
<1>1. Partners(P, H)!TypeOK
    BY DEF Partners!TypeOK, Partners!OrgStatus, Partners!WarehouseStatus, Partners!LienStatus
<1>2. PartnersCalls(P, H)
    BY DEF PartnersCalls, PartnerKnows, Partners!OrgStatus
<1>3. ActiveIsSigned /\ Partners(P, H)!PledgedUnderSignature
    BY DEF ActiveIsSigned, Partners!PledgedUnderSignature
<1>. QED  BY <1>1, <1>2, <1>3 DEF PartnersInv

(* However handlers overlap, every handler keeps the invariant of the      *)
(* partners.                                                               *)
LEMMA PartnersStep ==
    ASSUME NEW P, NEW H, PartnersInv(P, H),
           [Partners(P, H)!Next]_(Partners(P, H)!vars)
    PROVE  PartnersInv(P, H)'
<1>. USE DEF PartnersInv
<1>t. /\ link \in [Pact -> Partners(P, H)!LinkRow \cup {Partners(P, H)!NoLink}]
      /\ pledge \in [P -> Partners(P, H)!PledgeRow \cup {Partners(P, H)!NoPledge}]
      /\ org \in [Org -> Partners(P, H)!OrgStatus]
      /\ warehouse \in [Warehouse -> Partners(P, H)!WarehouseStatus]
      /\ lien \in [P -> Partners(P, H)!LienStatus]
    BY DEF Partners!TypeOK
<1>a. ASSUME UNCHANGED link
      PROVE  LinksKeep(P, H) /\ ActiveIsSigned'
    BY <1>a DEF LinksKeep, ActiveIsSigned
<1>b. ASSUME UNCHANGED pledge, LinksKeep(P, H)
      PROVE  Partners(P, H)!PledgedUnderSignature'
    <2>1. ASSUME NEW p \in P, pledge[p] # Partners(P, H)!NoPledge
          PROVE  \E l \in Partners(P, H)!LinksOf(pledge[p].org, pledge[p].wh)' : link'[l].signed
        <3>1. PICK o, w : o = pledge[p].org /\ w = pledge[p].wh
            OBVIOUS
        <3>2. \E l \in Partners(P, H)!LinksOf(o, w) : link[l].signed
            BY <2>1, <3>1 DEF Partners!PledgedUnderSignature
        <3>3. \E l \in Partners(P, H)!LinksOf(o, w)' : link'[l].signed
            BY <1>b, <3>2, SignaturesLast
        <3>. QED  BY <1>b, <3>1, <3>3 DEF Partners!LinksOf
    <2>. QED  BY <1>b, <2>1 DEF Partners!PledgedUnderSignature, Partners!NoPledge
(* Only the handlers move: c takes up x. *)
<1>c. ASSUME NEW c \in H, NEW x, PartnerKnows(P, H, x), call' = [call EXCEPT ![c] = x],
             Partners(P, H)!Reading
      PROVE  PartnersInv(P, H)'
    <2>1. UNCHANGED <<org, warehouse, link, pledge, lien>>
        BY <1>c DEF Partners!Reading, Partners!rows
    <2>2. Partners(P, H)!TypeOK'
        BY <2>1, <1>t DEF Partners!TypeOK, Partners!LinkRow, Partners!PledgeRow, Partners!NoLink,
            Partners!NoPledge, Partners!OrgStatus, Partners!WarehouseStatus, Partners!LienStatus,
            Partners!LinkStatus, Partners!PledgeStatus
    <2>. QED  BY <1>c, <1>a, <1>b, <2>1, <2>2, PartnerCallsStep
<1>. USE DEF Partners!Idle
<1>1. ASSUME NEW o \in Org, Partners(P, H)!CreateFinancierOrg(o)
      PROVE  PartnersInv(P, H)'
    <2>1. Partners(P, H)!TypeOK'
        BY <1>1, <1>t DEF Partners!CreateFinancierOrg, Partners!TypeOK, Partners!OrgStatus
    <2>2. PartnersCalls(P, H)'
        BY <1>1 DEF Partners!CreateFinancierOrg, PartnersCalls, PartnerKnows, Partners!LinksOf
    <2>. QED  BY <1>1, <1>a, <1>b, <2>1, <2>2 DEF Partners!CreateFinancierOrg
<1>2. ASSUME NEW w \in Warehouse, NEW s \in Partners(P, H)!WarehouseStatus,
             Partners(P, H)!SetWarehouse(w, s)
      PROVE  PartnersInv(P, H)'
    <2>1. Partners(P, H)!TypeOK'
        BY <1>2, <1>t DEF Partners!SetWarehouse, Partners!TypeOK
    <2>2. PartnersCalls(P, H)'
        BY <1>2 DEF Partners!SetWarehouse, PartnersCalls, PartnerKnows, Partners!LinksOf
    <2>. QED  BY <1>2, <1>a, <1>b, <2>1, <2>2 DEF Partners!SetWarehouse
<1>3. ASSUME NEW p \in P, Partners(P, H)!ClosePledge(p)
      PROVE  PartnersInv(P, H)'
    <2>. USE DEF Partners!ClosePledge, Partners!NoPledge, Partners!PledgeRow, Partners!PledgeStatus
    <2>1. Partners(P, H)!TypeOK'
        BY <1>3, <1>t DEF Partners!TypeOK
    <2>2. PartnersCalls(P, H)'
        BY <1>3 DEF PartnersCalls, PartnerKnows, Partners!LinksOf
    <2>3. Partners(P, H)!PledgedUnderSignature'
        BY <1>3, <1>t DEF Partners!PledgedUnderSignature, Partners!LinksOf
    <2>. QED  BY <1>3, <1>a, <2>1, <2>2, <2>3
<1>4. ASSUME NEW p \in P, NEW s \in Partners(P, H)!LienStatus, Partners(P, H)!ReleaseLien(p, s)
      PROVE  PartnersInv(P, H)'
    <2>1. Partners(P, H)!TypeOK'
        BY <1>4, <1>t DEF Partners!ReleaseLien, Partners!TypeOK
    <2>2. PartnersCalls(P, H)'
        BY <1>4 DEF Partners!ReleaseLien, PartnersCalls, PartnerKnows, Partners!LinksOf
    <2>. QED  BY <1>4, <1>a, <1>b, <2>1, <2>2 DEF Partners!ReleaseLien
<1>5. ASSUME NEW c \in H, NEW o \in Org, Partners(P, H)!OrgStep(c, o)
      PROVE  PartnersInv(P, H)'
    <2>1. ASSUME NEW op \in {"SUSPENDED", "ACTIVE"}, NEW from, Partners(P, H)!OrgLoad(c, op, o, from)
          PROVE  PartnersInv(P, H)'
        <3>. DEFINE x == [op |-> op, step |-> "write", o |-> o]
        <3>1. PartnerKnows(P, H, x)
            BY DEF PartnerKnows
        <3>. QED  BY <2>1, <3>1, <1>c DEF Partners!OrgLoad, Partners!Begin
    <2>2. ASSUME Partners(P, H)!OffboardOrgLoad(c, o)
          PROVE  PartnersInv(P, H)'
        <3>. DEFINE x == [op |-> "OFFBOARDED", step |-> "count", o |-> o]
        <3>1. PartnerKnows(P, H, x)
            BY DEF PartnerKnows
        <3>. QED  BY <2>2, <3>1, <1>c DEF Partners!OffboardOrgLoad, Partners!Begin
    <2>3. ASSUME NEW w \in Warehouse, Partners(P, H)!OnboardLoad(c, o, w)
          PROVE  PartnersInv(P, H)'
        <3>. DEFINE x == [op |-> "onboard", step |-> "clash", o |-> o, w |-> w]
        <3>1. PartnerKnows(P, H, x)
            BY DEF PartnerKnows, Partners!OrgStatus
        <3>. QED  BY <2>3, <3>1, <1>c DEF Partners!OnboardLoad, Partners!Begin
    <2>4. ASSUME NEW w \in Warehouse, Partners(P, H)!PledgeGate(c, o, w)
          PROVE  PartnersInv(P, H)'
        <3>. DEFINE x == [op |-> "createPledge", step |-> "insert", o |-> o, w |-> w]
        <3>1. \E l \in Partners(P, H)!LinksOf(o, w) : link[l].signed
            BY <2>4 DEF Partners!PledgeGate, Partners!Admits, Partners!Partner, Partners!LinksOf,
                ActiveIsSigned
        <3>2. PartnerKnows(P, H, x)
            BY <3>1 DEF PartnerKnows, Partners!OrgStatus
        <3>. QED  BY <2>4, <3>2, <1>c DEF Partners!PledgeGate, Partners!Begin
    <2>. QED  BY <1>5, <2>1, <2>2, <2>3, <2>4
              DEF Partners!OrgStep, Partners!SuspendLoad, Partners!ReactivateLoad
<1>6. ASSUME NEW c \in H, NEW l \in Pact, Partners(P, H)!LinkStep(c, l)
      PROVE  PartnersInv(P, H)'
    <2>1. ASSUME Partners(P, H)!OnboardInsert(c, l)
          PROVE  PartnersInv(P, H)'
        <3>. USE DEF Partners!OnboardInsert, Partners!LinkOnly, Partners!Return, Partners!At,
                     Partners!NoLink
        <3>. DEFINE row == [org |-> call[c].o, wh |-> call[c].w, status |-> "PENDING",
                            signed |-> FALSE, reason |-> FALSE]
        <3>1. row \in Partners(P, H)!LinkRow
            BY <2>1 DEF PartnersCalls, PartnerKnows, Partners!LinkRow, Partners!LinkStatus
        <3>2. LinksKeep(P, H) /\ ActiveIsSigned' /\ Partners(P, H)!TypeOK'
            BY <2>1, <3>1, <1>t DEF LinksKeep, ActiveIsSigned, Partners!TypeOK
        <3>3. PartnerKnows(P, H, Partners(P, H)!Idle)
            BY DEF PartnerKnows, Partners!OrgStatus
        <3>. QED  BY <2>1, <3>2, <3>3, <1>b, PartnerCallsStep
    <2>2. ASSUME NEW op \in {"approveLink", "rejectLink"}, Partners(P, H)!DecideLoad(c, l, op)
          PROVE  PartnersInv(P, H)'
        <3>. DEFINE x == [op |-> op, step |-> "write", l |-> l]
        <3>1. PartnerKnows(P, H, x)
            BY <2>2 DEF PartnerKnows, Partners!OrgStatus, Partners!DecideLoad, Partners!NoLink
        <3>. QED  BY <2>2, <3>1, <1>c DEF Partners!DecideLoad, Partners!Begin
    <2>3. ASSUME Partners(P, H)!OffboardLinkLoad(c, l)
          PROVE  PartnersInv(P, H)'
        <3>. DEFINE x == [op |-> "offboardLink", step |-> "count", l |-> l]
        <3>1. PartnerKnows(P, H, x)
            BY <2>3 DEF PartnerKnows, Partners!OrgStatus, Partners!OffboardLinkLoad,
                Partners!NoLink
        <3>. QED  BY <2>3, <3>1, <1>c DEF Partners!OffboardLinkLoad, Partners!Begin
    <2>. QED  BY <1>6, <2>1, <2>2, <2>3 DEF Partners!LinkStep
(* A link that exists gets another status. *)
<1>l. ASSUME NEW c \in H, NEW s \in Partners(P, H)!LinkStatus, NEW row, call[c].l \in Pact,
             link[call[c].l] # Partners(P, H)!NoLink,
             row \in Partners(P, H)!LinkRow, row.org = link[call[c].l].org,
             row.wh = link[call[c].l].wh, link[call[c].l].signed => row.signed,
             row.status = "ACTIVE" => row.signed,
             link' = [link EXCEPT ![call[c].l] = row],
             Partners(P, H)!Return(c), Partners(P, H)!LinkOnly
      PROVE  PartnersInv(P, H)'
    <2>. USE DEF Partners!LinkOnly, Partners!Return, Partners!NoLink
    <2>1. row # Partners(P, H)!NoLink
        BY <1>l DEF Partners!LinkRow
    <2>2. LinksKeep(P, H) /\ ActiveIsSigned' /\ Partners(P, H)!TypeOK'
        BY <1>l, <2>1, <1>t DEF LinksKeep, ActiveIsSigned, Partners!TypeOK
    <2>3. PartnerKnows(P, H, Partners(P, H)!Idle)
        BY DEF PartnerKnows, Partners!OrgStatus
    <2>. QED  BY <1>l, <2>2, <2>3, <1>b, PartnerCallsStep
<1>7. ASSUME NEW c \in H,
             Partners(P, H)!ApproveWrite(c) \/ Partners(P, H)!RejectWrite(c)
                \/ Partners(P, H)!OffboardLinkWrite(c)
      PROVE  PartnersInv(P, H)'
    <2>. DEFINE l == call[c].l
    <2>1. l \in Pact /\ link[l] \in Partners(P, H)!LinkRow /\ link[l] # Partners(P, H)!NoLink
        BY <1>7, <1>t DEF PartnersCalls, PartnerKnows, Partners!At, Partners!ApproveWrite,
            Partners!RejectWrite, Partners!OffboardLinkWrite
    <2>. USE DEF Partners!LinkRow, Partners!LinkStatus
    <2>2. CASE Partners(P, H)!ApproveWrite(c)
        <3>. DEFINE row == [link[l] EXCEPT !.status = "ACTIVE", !.signed = TRUE]
        <3>1. link' = [link EXCEPT ![l] = row]
            BY <2>1, <2>2, <1>t DEF Partners!ApproveWrite
        <3>2. row \in Partners(P, H)!LinkRow /\ row.org = link[l].org /\ row.wh = link[l].wh
              /\ row.signed
            BY <2>1
        <3>. QED  BY <2>1, <2>2, <3>1, <3>2, <1>l DEF Partners!ApproveWrite
    <2>3. CASE Partners(P, H)!RejectWrite(c)
        <3>. DEFINE row == [link[l] EXCEPT !.status = "OFFBOARDED", !.reason = TRUE]
        <3>1. link' = [link EXCEPT ![l] = row]
            BY <2>1, <2>3, <1>t DEF Partners!RejectWrite
        <3>2. row \in Partners(P, H)!LinkRow /\ row.org = link[l].org /\ row.wh = link[l].wh
              /\ row.signed = link[l].signed /\ row.status = "OFFBOARDED"
            BY <2>1
        <3>. QED  BY <2>1, <2>3, <3>1, <3>2, <1>l DEF Partners!RejectWrite
    <2>4. CASE Partners(P, H)!OffboardLinkWrite(c)
        <3>. DEFINE row == [link[l] EXCEPT !.status = "OFFBOARDED"]
        <3>1. link' = [link EXCEPT ![l] = row]
            BY <2>1, <2>4, <1>t DEF Partners!OffboardLinkWrite
        <3>2. row \in Partners(P, H)!LinkRow /\ row.org = link[l].org /\ row.wh = link[l].wh
              /\ row.signed = link[l].signed /\ row.status = "OFFBOARDED"
            BY <2>1
        <3>. QED  BY <2>1, <2>4, <3>1, <3>2, <1>l DEF Partners!OffboardLinkWrite
    <2>. QED  BY <1>7, <2>2, <2>3, <2>4
<1>8. ASSUME NEW c \in H, Partners(P, H)!OrgWrite(c)
      PROVE  PartnersInv(P, H)'
    <2>. USE DEF Partners!OrgWrite, Partners!Return, Partners!At
    <2>1. Partners(P, H)!TypeOK'
        BY <1>8, <1>t DEF Partners!TypeOK, PartnersCalls, PartnerKnows
    <2>2. PartnerKnows(P, H, Partners(P, H)!Idle)
        BY DEF PartnerKnows, Partners!OrgStatus
    <2>3. UNCHANGED <<link, pledge>> /\ call' = [call EXCEPT ![c] = Partners(P, H)!Idle]
        BY <1>8
    <2>. QED  BY <2>1, <2>2, <2>3, <1>a, <1>b, PartnerCallsStep
<1>9. ASSUME NEW c \in H,
             Partners(P, H)!OffboardOrgCount(c) \/ Partners(P, H)!OnboardCheck(c)
                \/ Partners(P, H)!OffboardLinkCount(c)
      PROVE  PartnersInv(P, H)'
    <2>1. PICK step : call' = [call EXCEPT ![c] = [call[c] EXCEPT !.step = step]]
                      /\ Partners(P, H)!Reading
        BY <1>9 DEF Partners!OffboardOrgCount, Partners!OnboardCheck, Partners!OffboardLinkCount,
            Partners!Proceed, Partners!Continue
    <2>2. PartnerKnows(P, H, [call[c] EXCEPT !.step = step])
        BY DEF PartnersCalls, PartnerKnows
    <2>. QED  BY <2>1, <2>2, <1>c
<1>10. ASSUME NEW c \in H, Partners(P, H)!Abandon(c), Partners(P, H)!Reading
       PROVE  PartnersInv(P, H)'
    <2>1. PartnerKnows(P, H, Partners(P, H)!Idle)
        BY DEF PartnerKnows, Partners!OrgStatus
    <2>. QED  BY <1>10, <2>1, <1>c DEF Partners!Abandon, Partners!Return
<1>11. ASSUME NEW c \in H, NEW p \in P, Partners(P, H)!PledgeInsert(c, p)
       PROVE  PartnersInv(P, H)'
    <2>. USE DEF Partners!PledgeInsert, Partners!Return, Partners!At, Partners!NoPledge
    <2>. DEFINE row == [org |-> call[c].o, wh |-> call[c].w, status |-> "PENDING"]
    <2>1. row \in Partners(P, H)!PledgeRow
          /\ \E l \in Partners(P, H)!LinksOf(row.org, row.wh) : link[l].signed
        BY <1>11 DEF PartnersCalls, PartnerKnows, Partners!PledgeRow, Partners!PledgeStatus
    <2>2. Partners(P, H)!TypeOK'
        BY <1>11, <2>1, <1>t DEF Partners!TypeOK
    <2>3. Partners(P, H)!PledgedUnderSignature'
        BY <1>11, <2>1, <1>t DEF Partners!PledgedUnderSignature, Partners!LinksOf
    <2>4. PartnerKnows(P, H, Partners(P, H)!Idle)
        BY DEF PartnerKnows, Partners!OrgStatus
    <2>. QED  BY <1>11, <2>2, <2>3, <2>4, <1>a, PartnerCallsStep
<1>12. ASSUME NEW c \in H, NEW p \in P, Partners(P, H)!AcceptLoad(c, p)
       PROVE  PartnersInv(P, H)'
    <2>. DEFINE x == [op |-> "acceptPledge", step |-> "insert", p |-> p]
    <2>1. PartnerKnows(P, H, x)
        BY DEF PartnerKnows, Partners!OrgStatus
    <2>. QED  BY <1>12, <2>1, <1>c DEF Partners!AcceptLoad, Partners!Begin
<1>13. ASSUME NEW c \in H, Partners(P, H)!AcceptInsert(c)
       PROVE  PartnersInv(P, H)'
    <2>. USE DEF Partners!AcceptInsert, Partners!Return, Partners!At, Partners!NoPledge,
                 Partners!PledgeRow, Partners!PledgeStatus
    <2>. DEFINE p == call[c].p
    <2>1. p \in P /\ pledge[p].status = "PENDING" /\ UNCHANGED link
          /\ pledge' = [pledge EXCEPT ![p].status = "ACCEPTED"]
        BY <1>13 DEF PartnersCalls, PartnerKnows
    <2>2. Partners(P, H)!TypeOK'
        BY <1>13, <2>1, <1>t DEF Partners!TypeOK, Partners!LienStatus
    <2>3. Partners(P, H)!PledgedUnderSignature'
        BY <2>1, <1>t DEF Partners!PledgedUnderSignature, Partners!LinksOf
    <2>4. PartnerKnows(P, H, Partners(P, H)!Idle)
        BY DEF PartnerKnows, Partners!OrgStatus
    <2>. QED  BY <1>13, <2>1, <2>2, <2>3, <2>4, <1>a, PartnerCallsStep
<1>14. CASE UNCHANGED Partners(P, H)!vars
    BY <1>14 DEF Partners!vars, Partners!TypeOK, PartnersCalls, PartnerKnows, ActiveIsSigned,
        Partners!PledgedUnderSignature, Partners!LinksOf, Partners!NoLink, Partners!NoPledge,
        Partners!OrgStatus
<1>. QED  BY <1>1, <1>2, <1>3, <1>4, <1>5, <1>6, <1>7, <1>8, <1>9, <1>10, <1>11, <1>12, <1>13,
             <1>14 DEF Partners!Next, Partners!Elsewhere, Partners!HandlerStep

-----------------------------------------------------------------------------
(* One handler: what it has read is still so.                              *)
PartnerSees(P, x) ==
    LET noneLive(pledges) == \A p \in pledges : ~Partners(P, {solo})!Live(p)
    IN  /\ x.op # "ABSENT"
        /\ x.op = "SUSPENDED" => org[x.o] = "ACTIVE"
        /\ x.op = "ACTIVE" => org[x.o] = "SUSPENDED"
        /\ x.op = "OFFBOARDED" =>
              /\ org[x.o] \in {"ACTIVE", "SUSPENDED"}
              /\ x.step = "write" => noneLive(Partners(P, {solo})!PledgesTo(x.o))
        /\ x.op = "onboard" /\ x.step = "insert" =>
              \A l \in Partners(P, {solo})!LinksOf(x.o, x.w) : ~Partners(P, {solo})!Engaged(l)
        /\ x.op \in {"approveLink", "rejectLink"} => link[x.l].status = "PENDING"
        /\ x.op = "offboardLink" =>
              /\ link[x.l].status = "ACTIVE"
              /\ x.step = "write" =>
                    noneLive(Partners(P, {solo})!PledgesAt(link[x.l].org, link[x.l].wh))
        /\ x.op = "createPledge" => Partners(P, {solo})!Admits(x.o, x.w)

LinksTell ==
    \A l \in Pact :
        /\ link[l].status = "PENDING" => ~link[l].signed
        /\ link[l].status \in {"PENDING", "ACTIVE"} => ~link[l].reason

OneEngaged(P) ==
    \A k, l \in Pact :
        /\ Partners(P, {solo})!Engaged(k) /\ Partners(P, {solo})!Engaged(l)
        /\ link[k].org = link[l].org /\ link[k].wh = link[l].wh
        => k = l

(* What the tables promise while one handler moves them.                   *)
LinksFit(P) == LinksTell /\ Partners(P, {solo})!ReasonMeansRejected /\ OneEngaged(P)

PartnersHonour(P) ==
    /\ Partners(P, {solo})!OffboardingIsTerminal
    /\ Partners(P, {solo})!NothingStranded
    /\ Partners(P, {solo})!PledgedToPartner

PartnersSolo(P) ==
    /\ PartnersInv(P, {solo})
    /\ PartnerSees(P, call[solo])
    /\ LinksFit(P)

(* The partners' tables start under the invariant of one handler.          *)
LEMMA PartnersSoloInit ==
    ASSUME NEW P, Partners(P, {solo})!Init
    PROVE  PartnersSolo(P)
<1>. USE DEF Partners!Init, Partners!NoLink, Partners!NoPledge, Partners!Idle
<1>1. PartnerSees(P, call[solo])
    BY DEF PartnerSees
<1>2. LinksFit(P)
    BY DEF LinksFit, LinksTell, Partners!ReasonMeansRejected, OneEngaged, Partners!Engaged
<1>. QED  BY <1>1, <1>2, PartnersInit DEF PartnersSolo

(* A step that leaves the links alone, creates no pledge and revives no    *)
(* lien keeps true what the handler has read.                              *)
LEMMA PartnerSeesStill ==
    ASSUME NEW P, NEW x, PartnerKnows(P, {solo}, x), PartnerSees(P, x), UNCHANGED link,
           \A o \in Org : org[o] # "ABSENT" => org'[o] = org[o],
           \A p \in P : pledge'[p] # Partners(P, {solo})!NoPledge =>
               /\ pledge[p] # Partners(P, {solo})!NoPledge
               /\ pledge'[p].org = pledge[p].org /\ pledge'[p].wh = pledge[p].wh,
           \A p \in P : Partners(P, {solo})!Live(p)' => Partners(P, {solo})!Live(p)
    PROVE  PartnerSees(P, x)'
<1>. DEFINE noneLive(pledges) == \A p \in pledges : ~Partners(P, {solo})!Live(p)
<1>1. \A o : Partners(P, {solo})!PledgesTo(o)' \subseteq Partners(P, {solo})!PledgesTo(o)
    BY DEF Partners!PledgesTo, Partners!NoPledge
<1>2. \A o, w : Partners(P, {solo})!PledgesAt(o, w)' \subseteq Partners(P, {solo})!PledgesAt(o, w)
    BY DEF Partners!PledgesAt, Partners!PledgesTo, Partners!NoPledge
<1>3. \A S, T \in SUBSET P : noneLive(S) /\ T \subseteq S => noneLive(T)'
    OBVIOUS
<1>4. \A o : /\ Partners(P, {solo})!PledgesTo(o) \subseteq P
             /\ Partners(P, {solo})!PledgesTo(o)' \subseteq P
    BY DEF Partners!PledgesTo
<1>5. \A o, w : /\ Partners(P, {solo})!PledgesAt(o, w) \subseteq P
                /\ Partners(P, {solo})!PledgesAt(o, w)' \subseteq P
    BY DEF Partners!PledgesAt, Partners!PledgesTo
<1>6. /\ x.op # "ABSENT"
      /\ x.op = "SUSPENDED" => org'[x.o] = "ACTIVE"
      /\ x.op = "ACTIVE" => org'[x.o] = "SUSPENDED"
    BY DEF PartnerSees, PartnerKnows, Partners!OrgStatus
<1>7. x.op = "OFFBOARDED" =>
        /\ org'[x.o] \in {"ACTIVE", "SUSPENDED"}
        /\ x.step = "write" => noneLive(Partners(P, {solo})!PledgesTo(x.o))'
    <2>1. x.op = "OFFBOARDED" /\ x.step = "write" => noneLive(Partners(P, {solo})!PledgesTo(x.o))
        BY DEF PartnerSees
    <2>2. x.op = "OFFBOARDED" => org'[x.o] \in {"ACTIVE", "SUSPENDED"}
        BY DEF PartnerSees, PartnerKnows, Partners!OrgStatus
    <2>. QED  BY <2>1, <2>2, <1>1, <1>3, <1>4
<1>8. x.op = "onboard" /\ x.step = "insert" =>
          \A l \in Partners(P, {solo})!LinksOf(x.o, x.w)' : ~Partners(P, {solo})!Engaged(l)'
    BY DEF PartnerSees, Partners!LinksOf, Partners!Engaged, Partners!NoLink
<1>9. x.op = "offboardLink" /\ x.step = "write" =>
          noneLive(Partners(P, {solo})!PledgesAt(link[x.l].org, link[x.l].wh))'
    <2>1. PICK o, w : o = link[x.l].org /\ w = link[x.l].wh
        OBVIOUS
    <2>2. x.op = "offboardLink" /\ x.step = "write" =>
              noneLive(Partners(P, {solo})!PledgesAt(o, w))
        BY <2>1 DEF PartnerSees
    <2>3. x.op = "offboardLink" /\ x.step = "write" =>
              noneLive(Partners(P, {solo})!PledgesAt(o, w))'
        BY <2>2, <1>2, <1>3, <1>5
    <2>4. link'[x.l].org = o /\ link'[x.l].wh = w
        BY <2>1
    <2>. QED  BY <2>3, <2>4
<1>10. x.op = "createPledge" => Partners(P, {solo})!Admits(x.o, x.w)'
    BY DEF PartnerSees, PartnerKnows, Partners!Admits, Partners!Partner, Partners!LinksOf,
        Partners!NoLink
<1>11. /\ x.op \in {"approveLink", "rejectLink"} => link'[x.l].status = "PENDING"
       /\ x.op = "offboardLink" => link'[x.l].status = "ACTIVE"
    BY DEF PartnerSees
<1>. QED  BY <1>6, <1>7, <1>8, <1>9, <1>10, <1>11 DEF PartnerSees

(* One step under PartnersSolo, from what it does to the tables.           *)
LEMMA PartnersSoloStep ==
    ASSUME NEW P, PartnersSolo(P),
           [Partners(P, {solo})!Next]_(Partners(P, {solo})!vars)
    PROVE  PartnersSolo(P)' /\ PartnersHonour(P)
<1>. DEFINE x == call[solo]
<1>k. /\ DOMAIN call = {solo} /\ PartnerKnows(P, {solo}, x) /\ PartnerSees(P, x)
      /\ LinksFit(P)
    BY DEF PartnersSolo, PartnersInv, PartnersCalls
<1>t. /\ link \in [Pact -> Partners(P, {solo})!LinkRow \cup {Partners(P, {solo})!NoLink}]
      /\ pledge \in [P -> Partners(P, {solo})!PledgeRow \cup {Partners(P, {solo})!NoPledge}]
      /\ org \in [Org -> Partners(P, {solo})!OrgStatus]
      /\ lien \in [P -> Partners(P, {solo})!LienStatus]
    BY DEF PartnersSolo, PartnersInv, Partners!TypeOK
<1>i. PartnersInv(P, {solo})'
    BY PartnersStep DEF PartnersSolo
<1>s. SUFFICES PartnerSees(P, call[solo])' /\ LinksFit(P)' /\ PartnersHonour(P)
    BY <1>i DEF PartnersSolo
<1>c. ASSUME NEW y, call' = [call EXCEPT ![solo] = y]
      PROVE  call'[solo] = y
    BY <1>c, <1>k
<1>f. ASSUME UNCHANGED link
      PROVE  LinksFit(P)' /\ \A l \in Pact : link'[l] = link[l]
    BY <1>f, <1>k DEF LinksFit, LinksTell, Partners!ReasonMeansRejected, OneEngaged,
        Partners!Engaged, Partners!NoLink
(* The handler goes home. *)
<1>h. ASSUME call' = [call EXCEPT ![solo] = Partners(P, {solo})!Idle]
      PROVE  PartnerSees(P, call[solo])'
    <2>1. call'[solo] = Partners(P, {solo})!Idle
        BY <1>h, <1>c
    <2>. QED  BY <2>1 DEF PartnerSees, Partners!Idle
(* Only the handler moves: it takes up y. *)
<1>r. ASSUME NEW y, call' = [call EXCEPT ![solo] = y], Partners(P, {solo})!Reading,
             PartnerSees(P, y)
      PROVE  PartnerSees(P, call[solo])' /\ LinksFit(P)' /\ PartnersHonour(P)
    <2>1. UNCHANGED <<org, warehouse, link, pledge, lien>> /\ call'[solo] = y
        BY <1>r, <1>c DEF Partners!Reading, Partners!rows
    <2>2. PartnerSees(P, call[solo])'
        BY <1>r, <2>1 DEF PartnerSees, Partners!Live, Partners!PledgesTo, Partners!PledgesAt,
            Partners!LinksOf, Partners!Engaged, Partners!Admits, Partners!Partner,
            Partners!NoLink, Partners!NoPledge
    <2>3. PartnersHonour(P)
        BY <2>1 DEF PartnersHonour, Partners!OffboardingIsTerminal, Partners!NothingStranded,
            Partners!PledgedToPartner, Partners!NoPledge
    <2>. QED  BY <2>1, <2>2, <2>3, <1>f
(* A step outside the handler, which the handler need not notice. *)
<1>e. ASSUME UNCHANGED <<link, call>>,
             \A o \in Org : org[o] # "ABSENT" => org'[o] = org[o],
             \A o \in Org : org'[o] = "OFFBOARDED" => org[o] = "OFFBOARDED",
             \A p \in P : pledge'[p] # Partners(P, {solo})!NoPledge =>
                 /\ pledge[p] # Partners(P, {solo})!NoPledge
                 /\ pledge'[p].org = pledge[p].org /\ pledge'[p].wh = pledge[p].wh,
             \A p \in P : Partners(P, {solo})!Live(p)' => Partners(P, {solo})!Live(p)
      PROVE  PartnerSees(P, call[solo])' /\ LinksFit(P)' /\ PartnersHonour(P)
    <2>1. PICK y : y = call[solo]
        OBVIOUS
    <2>2. PartnerSees(P, y)'
        BY <1>e, <1>k, <2>1, PartnerSeesStill
    <2>3. PartnersHonour(P)
        BY <1>e DEF PartnersHonour, Partners!OffboardingIsTerminal, Partners!NothingStranded,
            Partners!PledgedToPartner
    <2>. QED  BY <2>1, <2>2, <2>3, <1>e, <1>f DEF PartnerSees
<1>1. ASSUME NEW o \in Org, Partners(P, {solo})!CreateFinancierOrg(o)
      PROVE  PartnerSees(P, call[solo])' /\ LinksFit(P)' /\ PartnersHonour(P)
    BY <1>1, <1>e, <1>t DEF Partners!CreateFinancierOrg, Partners!Live
<1>2. ASSUME NEW w \in Warehouse, NEW s, Partners(P, {solo})!SetWarehouse(w, s)
      PROVE  PartnerSees(P, call[solo])' /\ LinksFit(P)' /\ PartnersHonour(P)
    BY <1>2, <1>e DEF Partners!SetWarehouse, Partners!Live
<1>3. ASSUME NEW p \in P, Partners(P, {solo})!ClosePledge(p)
      PROVE  PartnerSees(P, call[solo])' /\ LinksFit(P)' /\ PartnersHonour(P)
    <2>1. \A q \in P : pledge'[q] # Partners(P, {solo})!NoPledge =>
              /\ pledge[q] # Partners(P, {solo})!NoPledge
              /\ pledge'[q].org = pledge[q].org /\ pledge'[q].wh = pledge[q].wh
        BY <1>3, <1>t DEF Partners!ClosePledge, Partners!PledgeRow, Partners!NoPledge
    <2>. QED  BY <1>3, <1>e, <2>1 DEF Partners!ClosePledge, Partners!Live
<1>4. ASSUME NEW p \in P, NEW s, Partners(P, {solo})!ReleaseLien(p, s)
      PROVE  PartnerSees(P, call[solo])' /\ LinksFit(P)' /\ PartnersHonour(P)
    <2>1. \A q \in P : Partners(P, {solo})!Live(q)' => Partners(P, {solo})!Live(q)
        BY <1>4, <1>t DEF Partners!ReleaseLien, Partners!Live
    <2>. QED  BY <1>4, <1>e, <2>1 DEF Partners!ReleaseLien
<1>5. ASSUME NEW o \in Org, Partners(P, {solo})!OrgStep(solo, o)
      PROVE  PartnerSees(P, call[solo])' /\ LinksFit(P)' /\ PartnersHonour(P)
    <2>1. ASSUME NEW op \in {"SUSPENDED", "ACTIVE"},
                 Partners(P, {solo})!OrgLoad(solo, op, o,
                     IF op = "ACTIVE" THEN {"SUSPENDED"} ELSE {"ACTIVE"})
          PROVE  PartnerSees(P, call[solo])' /\ LinksFit(P)' /\ PartnersHonour(P)
        <3>. DEFINE y == [op |-> op, step |-> "write", o |-> o]
        <3>1. PartnerSees(P, y)
            BY <2>1 DEF PartnerSees, Partners!OrgLoad
        <3>. QED  BY <2>1, <3>1, <1>r DEF Partners!OrgLoad, Partners!Begin
    <2>2. ASSUME Partners(P, {solo})!OffboardOrgLoad(solo, o)
          PROVE  PartnerSees(P, call[solo])' /\ LinksFit(P)' /\ PartnersHonour(P)
        <3>. DEFINE y == [op |-> "OFFBOARDED", step |-> "count", o |-> o]
        <3>1. PartnerSees(P, y)
            BY <2>2 DEF PartnerSees, Partners!OffboardOrgLoad
        <3>. QED  BY <2>2, <3>1, <1>r DEF Partners!OffboardOrgLoad, Partners!Begin
    <2>3. ASSUME NEW w \in Warehouse, Partners(P, {solo})!OnboardLoad(solo, o, w)
          PROVE  PartnerSees(P, call[solo])' /\ LinksFit(P)' /\ PartnersHonour(P)
        <3>. DEFINE y == [op |-> "onboard", step |-> "clash", o |-> o, w |-> w]
        <3>1. PartnerSees(P, y)
            BY DEF PartnerSees
        <3>. QED  BY <2>3, <3>1, <1>r DEF Partners!OnboardLoad, Partners!Begin
    <2>4. ASSUME NEW w \in Warehouse, Partners(P, {solo})!PledgeGate(solo, o, w)
          PROVE  PartnerSees(P, call[solo])' /\ LinksFit(P)' /\ PartnersHonour(P)
        <3>. DEFINE y == [op |-> "createPledge", step |-> "insert", o |-> o, w |-> w]
        <3>1. PartnerSees(P, y)
            BY <2>4 DEF PartnerSees, Partners!PledgeGate
        <3>. QED  BY <2>4, <3>1, <1>r DEF Partners!PledgeGate, Partners!Begin
    <2>5. CASE Partners(P, {solo})!SuspendLoad(solo, o)
        <3>1. Partners(P, {solo})!OrgLoad(solo, "SUSPENDED", o, {"ACTIVE"})
            BY <2>5 DEF Partners!SuspendLoad
        <3>. QED  BY <3>1, <2>1
    <2>6. CASE Partners(P, {solo})!ReactivateLoad(solo, o)
        <3>1. Partners(P, {solo})!OrgLoad(solo, "ACTIVE", o, {"SUSPENDED"})
            BY <2>6 DEF Partners!ReactivateLoad
        <3>. QED  BY <3>1, <2>1
    <2>. QED  BY <1>5, <2>2, <2>3, <2>4, <2>5, <2>6 DEF Partners!OrgStep
<1>6. ASSUME NEW l \in Pact, Partners(P, {solo})!LinkStep(solo, l)
      PROVE  PartnerSees(P, call[solo])' /\ LinksFit(P)' /\ PartnersHonour(P)
    <2>1. ASSUME Partners(P, {solo})!OnboardInsert(solo, l)
          PROVE  PartnerSees(P, call[solo])' /\ LinksFit(P)' /\ PartnersHonour(P)
        <3>. USE DEF Partners!NoLink
        <3>. DEFINE row == [org |-> x.o, wh |-> x.w, status |-> "PENDING",
                            signed |-> FALSE, reason |-> FALSE]
        <3>1. /\ link[l] = Partners(P, {solo})!NoLink /\ link'[l] = row
              /\ \A k \in Pact \ {l} : link'[k] = link[k]
              /\ UNCHANGED <<org, pledge, lien>>
              /\ call' = [call EXCEPT ![solo] = Partners(P, {solo})!Idle]
            BY <2>1, <1>t DEF Partners!OnboardInsert, Partners!LinkOnly, Partners!Return
        <3>2. \A k \in Pact : link[k].org = x.o /\ link[k].wh = x.w =>
                  ~Partners(P, {solo})!Engaged(k)
            BY <2>1, <1>k DEF PartnerSees, Partners!OnboardInsert, Partners!At,
                Partners!LinksOf, Partners!Engaged
        <3>3. LinksTell' /\ Partners(P, {solo})!ReasonMeansRejected'
            BY <3>1, <1>k DEF LinksFit, LinksTell, Partners!ReasonMeansRejected
        <3>4. OneEngaged(P)'
            BY <3>1, <3>2, <1>k DEF LinksFit, OneEngaged, Partners!Engaged
        <3>5. PartnersHonour(P)
            BY <3>1 DEF PartnersHonour, Partners!OffboardingIsTerminal,
                Partners!NothingStranded, Partners!PledgedToPartner
        <3>. QED  BY <3>1, <3>3, <3>4, <3>5, <1>h DEF LinksFit
    <2>2. ASSUME NEW op \in {"approveLink", "rejectLink"},
                 Partners(P, {solo})!DecideLoad(solo, l, op)
          PROVE  PartnerSees(P, call[solo])' /\ LinksFit(P)' /\ PartnersHonour(P)
        <3>. DEFINE y == [op |-> op, step |-> "write", l |-> l]
        <3>1. PartnerSees(P, y)
            BY <2>2 DEF PartnerSees, Partners!DecideLoad
        <3>. QED  BY <2>2, <3>1, <1>r DEF Partners!DecideLoad, Partners!Begin
    <2>3. ASSUME Partners(P, {solo})!OffboardLinkLoad(solo, l)
          PROVE  PartnerSees(P, call[solo])' /\ LinksFit(P)' /\ PartnersHonour(P)
        <3>. DEFINE y == [op |-> "offboardLink", step |-> "count", l |-> l]
        <3>1. PartnerSees(P, y)
            BY <2>3 DEF PartnerSees, Partners!OffboardLinkLoad
        <3>. QED  BY <2>3, <3>1, <1>r DEF Partners!OffboardLinkLoad, Partners!Begin
    <2>. QED  BY <1>6, <2>1, <2>2, <2>3 DEF Partners!LinkStep
(* A link that exists gets another row, of the same partners, which is not *)
(* engaged unless the old one was.                                         *)
<1>l. ASSUME NEW row, link' = [link EXCEPT ![x.l] = row], x.l \in Pact,
             row.org = link[x.l].org, row.wh = link[x.l].wh,
             row.status \in {"PENDING", "ACTIVE"} => Partners(P, {solo})!Engaged(x.l),
             row.status = "PENDING" => ~row.signed,
             row.status \in {"PENDING", "ACTIVE"} => ~row.reason,
             row.reason => row.status = "OFFBOARDED" /\ ~row.signed,
             link[x.l].status = "ACTIVE" /\ row.status = "OFFBOARDED" =>
                 \A p \in Partners(P, {solo})!PledgesAt(link[x.l].org, link[x.l].wh) :
                     ~Partners(P, {solo})!Live(p),
             call' = [call EXCEPT ![solo] = Partners(P, {solo})!Idle],
             Partners(P, {solo})!LinkOnly
      PROVE  PartnerSees(P, call[solo])' /\ LinksFit(P)' /\ PartnersHonour(P)
    <2>1. /\ link'[x.l] = row /\ \A k \in Pact \ {x.l} : link'[k] = link[k]
          /\ UNCHANGED <<org, pledge, lien>>
        BY <1>l, <1>t DEF Partners!LinkOnly
    <2>2. LinksTell' /\ Partners(P, {solo})!ReasonMeansRejected'
        BY <1>l, <2>1, <1>k DEF LinksFit, LinksTell, Partners!ReasonMeansRejected,
            Partners!NoLink
    <2>3. OneEngaged(P)'
        BY <1>l, <2>1, <1>k DEF LinksFit, OneEngaged, Partners!Engaged
    <2>4. Partners(P, {solo})!NothingStranded
        BY <1>l, <2>1 DEF Partners!NothingStranded
    <2>5. Partners(P, {solo})!OffboardingIsTerminal /\ Partners(P, {solo})!PledgedToPartner
        BY <2>1 DEF Partners!OffboardingIsTerminal, Partners!PledgedToPartner
    <2>. QED  BY <1>h, <1>l, <2>2, <2>3, <2>4, <2>5 DEF LinksFit, PartnersHonour
<1>7. ASSUME Partners(P, {solo})!ApproveWrite(solo) \/ Partners(P, {solo})!RejectWrite(solo)
                \/ Partners(P, {solo})!OffboardLinkWrite(solo)
      PROVE  PartnerSees(P, call[solo])' /\ LinksFit(P)' /\ PartnersHonour(P)
    <2>1. /\ x.l \in Pact /\ link[x.l] \in Partners(P, {solo})!LinkRow
          /\ link[x.l] # Partners(P, {solo})!NoLink
        BY <1>7, <1>t, <1>k DEF PartnerKnows, Partners!At, Partners!ApproveWrite,
            Partners!RejectWrite, Partners!OffboardLinkWrite
    <2>m. /\ link[x.l].status = "PENDING" => ~link[x.l].signed
          /\ link[x.l].status \in {"PENDING", "ACTIVE"} => ~link[x.l].reason
        BY <1>k, <2>1 DEF LinksFit, LinksTell
    <2>. USE DEF Partners!LinkRow, Partners!Return, Partners!Engaged
    <2>2. CASE Partners(P, {solo})!ApproveWrite(solo)
        <3>. DEFINE row == [link[x.l] EXCEPT !.status = "ACTIVE", !.signed = TRUE]
        <3>1. link' = [link EXCEPT ![x.l] = row] /\ link[x.l].status = "PENDING"
            BY <2>1, <2>2, <1>t, <1>k DEF Partners!ApproveWrite, Partners!At, PartnerSees
        <3>2. /\ row.org = link[x.l].org /\ row.wh = link[x.l].wh
              /\ row.status = "ACTIVE" /\ row.reason = FALSE
            BY <2>1, <2>m, <3>1
        <3>. QED  BY <2>1, <2>2, <3>1, <3>2, <1>l DEF Partners!ApproveWrite
    <2>3. CASE Partners(P, {solo})!RejectWrite(solo)
        <3>. DEFINE row == [link[x.l] EXCEPT !.status = "OFFBOARDED", !.reason = TRUE]
        <3>1. link' = [link EXCEPT ![x.l] = row] /\ link[x.l].status = "PENDING"
            BY <2>1, <2>3, <1>t, <1>k DEF Partners!RejectWrite, Partners!At, PartnerSees
        <3>2. /\ row.org = link[x.l].org /\ row.wh = link[x.l].wh
              /\ row.status = "OFFBOARDED" /\ row.signed = FALSE
            BY <2>1, <2>m, <3>1
        <3>. QED  BY <2>1, <2>3, <3>1, <3>2, <1>l DEF Partners!RejectWrite
    <2>4. CASE Partners(P, {solo})!OffboardLinkWrite(solo)
        <3>. DEFINE row == [link[x.l] EXCEPT !.status = "OFFBOARDED"]
        <3>1. link' = [link EXCEPT ![x.l] = row] /\ link[x.l].status = "ACTIVE"
            BY <2>1, <2>4, <1>t, <1>k DEF Partners!OffboardLinkWrite, Partners!At, PartnerSees
        <3>2. /\ row.org = link[x.l].org /\ row.wh = link[x.l].wh
              /\ row.status = "OFFBOARDED" /\ row.reason = FALSE
            BY <2>1, <2>m, <3>1
        <3>3. \A p \in Partners(P, {solo})!PledgesAt(link[x.l].org, link[x.l].wh) :
                  ~Partners(P, {solo})!Live(p)
            BY <2>4, <1>k DEF Partners!OffboardLinkWrite, Partners!At, PartnerSees
        <3>. QED  BY <2>1, <2>4, <3>1, <3>2, <3>3, <1>l DEF Partners!OffboardLinkWrite
    <2>. QED  BY <1>7, <2>2, <2>3, <2>4
<1>8. ASSUME Partners(P, {solo})!OrgWrite(solo)
      PROVE  PartnerSees(P, call[solo])' /\ LinksFit(P)' /\ PartnersHonour(P)
    <2>1. PICK s \in Partners(P, {solo})!OrgStatus :
              /\ x.op = s /\ x.step = "write" /\ org' = [org EXCEPT ![x.o] = s]
              /\ UNCHANGED <<link, pledge, lien>>
              /\ call' = [call EXCEPT ![solo] = Partners(P, {solo})!Idle]
        BY <1>8 DEF Partners!OrgWrite, Partners!At, Partners!Return
    <2>2. x.o \in Org /\ org'[x.o] = s /\ \A o \in Org \ {x.o} : org'[o] = org[o]
        BY <2>1, <1>k, <1>t DEF PartnerKnows
    <2>3. Partners(P, {solo})!OffboardingIsTerminal
        BY <2>1, <2>2, <1>k DEF PartnerSees, Partners!OffboardingIsTerminal, Partners!OrgStatus
    <2>4. Partners(P, {solo})!NothingStranded
        BY <2>1, <2>2, <1>k DEF PartnerSees, Partners!NothingStranded
    <2>5. Partners(P, {solo})!PledgedToPartner
        BY <2>1 DEF Partners!PledgedToPartner
    <2>. QED  BY <2>1, <2>3, <2>4, <2>5, <1>f, <1>h DEF PartnersHonour
<1>9. ASSUME Partners(P, {solo})!OffboardOrgCount(solo) \/ Partners(P, {solo})!OnboardCheck(solo)
                \/ Partners(P, {solo})!OffboardLinkCount(solo)
      PROVE  PartnerSees(P, call[solo])' /\ LinksFit(P)' /\ PartnersHonour(P)
    <2>. USE DEF Partners!Proceed, Partners!Continue, Partners!At
    <2>1. CASE Partners(P, {solo})!OffboardOrgCount(solo)
        <3>1. PartnerSees(P, [x EXCEPT !.step = "write"])
            BY <2>1, <1>k DEF PartnerSees, Partners!OffboardOrgCount
        <3>. QED  BY <2>1, <3>1, <1>r DEF Partners!OffboardOrgCount
    <2>2. CASE Partners(P, {solo})!OnboardCheck(solo)
        <3>1. PartnerSees(P, [x EXCEPT !.step = "insert"])
            BY <2>2, <1>k DEF PartnerSees, Partners!OnboardCheck
        <3>. QED  BY <2>2, <3>1, <1>r DEF Partners!OnboardCheck
    <2>3. CASE Partners(P, {solo})!OffboardLinkCount(solo)
        <3>1. PartnerSees(P, [x EXCEPT !.step = "write"])
            BY <2>3, <1>k DEF PartnerSees, Partners!OffboardLinkCount
        <3>. QED  BY <2>3, <3>1, <1>r DEF Partners!OffboardLinkCount
    <2>. QED  BY <1>9, <2>1, <2>2, <2>3
<1>10. ASSUME Partners(P, {solo})!Abandon(solo), Partners(P, {solo})!Reading
       PROVE  PartnerSees(P, call[solo])' /\ LinksFit(P)' /\ PartnersHonour(P)
    <2>1. PartnerSees(P, Partners(P, {solo})!Idle)
        BY DEF PartnerSees, Partners!Idle
    <2>. QED  BY <1>10, <2>1, <1>r DEF Partners!Abandon, Partners!Return
<1>11. ASSUME NEW p \in P, Partners(P, {solo})!PledgeInsert(solo, p)
       PROVE  PartnerSees(P, call[solo])' /\ LinksFit(P)' /\ PartnersHonour(P)
    <2>. DEFINE row == [org |-> x.o, wh |-> x.w, status |-> "PENDING"]
    <2>1. /\ x.op = "createPledge" /\ pledge'[p] = row
          /\ \A q \in P \ {p} : pledge'[q] = pledge[q]
          /\ UNCHANGED <<org, link, lien>>
          /\ call' = [call EXCEPT ![solo] = Partners(P, {solo})!Idle]
        BY <1>11, <1>t DEF Partners!PledgeInsert, Partners!At, Partners!Return
    <2>2. Partners(P, {solo})!Admits(row.org, row.wh)
        BY <2>1, <1>k DEF PartnerSees
    <2>3. Partners(P, {solo})!PledgedToPartner
        BY <2>1, <2>2 DEF Partners!PledgedToPartner, Partners!Admits, Partners!Partner
    <2>4. Partners(P, {solo})!OffboardingIsTerminal /\ Partners(P, {solo})!NothingStranded
        BY <2>1 DEF Partners!OffboardingIsTerminal, Partners!NothingStranded
    <2>. QED  BY <2>1, <2>3, <2>4, <1>f, <1>h DEF PartnersHonour
<1>12. ASSUME NEW p \in P, Partners(P, {solo})!AcceptLoad(solo, p)
       PROVE  PartnerSees(P, call[solo])' /\ LinksFit(P)' /\ PartnersHonour(P)
    <2>. DEFINE y == [op |-> "acceptPledge", step |-> "insert", p |-> p]
    <2>1. PartnerSees(P, y)
        BY DEF PartnerSees
    <2>. QED  BY <1>12, <2>1, <1>r DEF Partners!AcceptLoad, Partners!Begin
<1>13. ASSUME Partners(P, {solo})!AcceptInsert(solo)
       PROVE  PartnerSees(P, call[solo])' /\ LinksFit(P)' /\ PartnersHonour(P)
    <2>. USE DEF Partners!NoPledge
    <2>1. /\ x.p \in P /\ pledge[x.p].status = "PENDING" /\ UNCHANGED <<org, link>>
          /\ pledge' = [pledge EXCEPT ![x.p].status = "ACCEPTED"]
          /\ call' = [call EXCEPT ![solo] = Partners(P, {solo})!Idle]
        BY <1>13, <1>k DEF Partners!AcceptInsert, Partners!At, PartnerKnows, Partners!Return
    <2>2. \A p \in P : pledge'[p] # Partners(P, {solo})!NoPledge =>
              pledge[p] # Partners(P, {solo})!NoPledge
        BY <2>1, <1>t
    <2>3. PartnersHonour(P)
        BY <2>1, <2>2 DEF PartnersHonour, Partners!OffboardingIsTerminal,
            Partners!NothingStranded, Partners!PledgedToPartner
    <2>. QED  BY <2>1, <2>3, <1>f, <1>h
<1>14. CASE UNCHANGED Partners(P, {solo})!vars
    BY <1>14, <1>e DEF Partners!vars, Partners!Live
<1>. QED  BY <1>1, <1>2, <1>3, <1>4, <1>5, <1>6, <1>7, <1>8, <1>9, <1>10, <1>11, <1>12, <1>13,
             <1>14 DEF Partners!Next, Partners!Elsewhere, Partners!HandlerStep

(* Links that engage a financier and a warehouse once can be counted.      *)
LEMMA EngagedOnce ==
    ASSUME NEW P, OneEngaged(P)
    PROVE  Partners(P, {solo})!OneEngagement
<1>1. ASSUME NEW S, \A k, l \in S : k = l
      PROVE  Partners(P, {solo})!Cardinality(S) <= 1
    <2>1. Partners(P, {solo})!Cardinality(S) = Cardinality(S)
        BY DEF Partners!Cardinality, Cardinality
    <2>. QED  BY <1>1, <2>1, AtMostOne
<1>2. ASSUME NEW o \in Org, NEW w \in Warehouse
      PROVE  \A k, l \in {l \in Partners(P, {solo})!LinksOf(o, w) : Partners(P, {solo})!Engaged(l)} :
                 k = l
    BY DEF OneEngaged, Partners!LinksOf
<1>. QED  BY <1>1, <1>2 DEF Partners!OneEngagement

-----------------------------------------------------------------------------
(* Roster.  What a handler carries does not matter: assignments are written*)
(* post by post, and the one write to the houses only adds demands.        *)
RosterInv == Staffing!TypeOK /\ Staffing!InitialPasswordIsTemporary

(* The roster starts under its invariant.                                  *)
LEMMA RosterInit ==
    ASSUME Staffing!Init
    PROVE  RosterInv
BY DEF Staffing!Init, RosterInv, Staffing!TypeOK, Staffing!House, Staffing!UserStatus,
    Staffing!Post, Staffing!InitialPasswordIsTemporary

(* However handlers overlap, the roster keeps its invariant.               *)
LEMMA RosterStep ==
    ASSUME RosterInv, [Staffing!Next]_(Staffing!vars)
    PROVE  RosterInv'
<1>. USE DEF RosterInv, Staffing!tokens
<1>t. /\ assign \in [Staffing!Post -> {"none", "active", "ended"}]
      /\ staff \in [Agent -> Staffing!UserStatus]
      /\ house \in [Depot -> Staffing!House]
      /\ changeTok \in SUBSET Depot /\ selectTok \in SUBSET Depot
      /\ session \in SUBSET Staffing!Post
    BY DEF Staffing!TypeOK
<1>a. ASSUME NEW posts, NEW s \in {"active", "ended"}, Staffing!Assign(posts, s)
      PROVE  assign' \in [Staffing!Post -> {"none", "active", "ended"}]
    BY <1>a, <1>t DEF Staffing!Assign
(* The houses and the sessions are left alone. *)
<1>u. ASSUME UNCHANGED <<house, session>>,
             assign' \in [Staffing!Post -> {"none", "active", "ended"}],
             staff' \in [Agent -> Staffing!UserStatus],
             changeTok' \in SUBSET Depot, selectTok' \in SUBSET Depot
      PROVE  RosterInv'
    BY <1>u, <1>t DEF Staffing!TypeOK, Staffing!InitialPasswordIsTemporary
(* One house gets another row. *)
<1>h. ASSUME NEW w \in Depot, NEW row \in Staffing!House, house' = [house EXCEPT ![w] = row],
             row.password = "initial" => row.mustChange,
             assign' \in [Staffing!Post -> {"none", "active", "ended"}],
             selectTok' \in SUBSET Depot, UNCHANGED <<staff, changeTok, session>>
      PROVE  RosterInv'
    <2>1. house' \in [Depot -> Staffing!House]
        BY <1>h, <1>t
    <2>2. Staffing!InitialPasswordIsTemporary'
        BY <1>h, <1>t DEF Staffing!InitialPasswordIsTemporary
    <2>. QED  BY <1>h, <1>t, <2>1, <2>2 DEF Staffing!TypeOK
<1>1. CASE Staffing!Administer
    <2>1. ASSUME NEW w \in Depot, NEW ms, Staffing!CreateWarehouse(w, ms)
          PROVE  RosterInv'
        <3>1. house' = [house EXCEPT ![w] = [house[w] EXCEPT !.status = "ACTIVE"]]
            BY <2>1, <1>t DEF Staffing!CreateWarehouse
        <3>2. /\ [house[w] EXCEPT !.status = "ACTIVE"] \in Staffing!House
              /\ house[w].password = "initial" => house[w].mustChange
            BY <1>t DEF Staffing!House, Staffing!InitialPasswordIsTemporary
        <3>. QED  BY <2>1, <3>1, <3>2, <1>a, <1>h, <1>t DEF Staffing!CreateWarehouse, Staffing!House
    <2>2. ASSUME NEW w \in Depot, NEW s \in {"ACTIVE", "INACTIVE"}, Staffing!UpdateWarehouse(w, s)
          PROVE  RosterInv'
        <3>1. house' = [house EXCEPT ![w] = [house[w] EXCEPT !.status = s]]
            BY <2>2, <1>t DEF Staffing!UpdateWarehouse
        <3>2. /\ [house[w] EXCEPT !.status = s] \in Staffing!House
              /\ house[w].password = "initial" => house[w].mustChange
            BY <1>t DEF Staffing!House, Staffing!InitialPasswordIsTemporary
        <3>. QED  BY <2>2, <3>1, <3>2, <1>h, <1>t DEF Staffing!UpdateWarehouse, Staffing!House
    <2>3. ASSUME NEW w \in Depot, Staffing!SetCredentials(w) \/ Staffing!ResetPassword(w)
          PROVE  RosterInv'
        <3>. DEFINE row == [house[w] EXCEPT !.password = "initial", !.mustChange = TRUE]
        <3>1. house' = [house EXCEPT ![w] = row]
            BY <2>3, <1>t DEF Staffing!SetCredentials, Staffing!ResetPassword
        <3>2. row \in Staffing!House /\ row.mustChange
            BY <1>t DEF Staffing!House
        <3>. QED  BY <2>3, <3>1, <3>2, <1>h, <1>t DEF Staffing!SetCredentials, Staffing!ResetPassword
    <2>4. ASSUME NEW m \in Agent, NEW ws, Staffing!CreateManager(m, ws)
          PROVE  RosterInv'
        BY <2>4, <1>a, <1>u, <1>t DEF Staffing!CreateManager, Staffing!UserStatus
    <2>5. ASSUME NEW m \in Agent, NEW s \in Staffing!UserStatus, Staffing!SetStatus(m, s)
          PROVE  RosterInv'
        BY <2>5, <1>u, <1>t DEF Staffing!SetStatus
    <2>. QED  BY <1>1, <2>1, <2>2, <2>3, <2>4, <2>5 DEF Staffing!Administer
<1>2. CASE Staffing!SignIn
    <2>1. ASSUME NEW w \in Depot, Staffing!Login(w)
          PROVE  RosterInv'
        BY <2>1, <1>u, <1>t DEF Staffing!Login
    <2>2. ASSUME NEW w \in Depot, Staffing!ChangePassword(w)
          PROVE  RosterInv'
        <3>. DEFINE row == [house[w] EXCEPT !.password = "own", !.mustChange = FALSE]
        <3>1. house' = [house EXCEPT ![w] = row]
            BY <2>2, <1>t DEF Staffing!ChangePassword
        <3>2. row \in Staffing!House /\ row.password = "own"
            BY <1>t DEF Staffing!House
        <3>3. selectTok' \in SUBSET Depot /\ UNCHANGED <<assign, staff, changeTok, session>>
            BY <2>2, <1>t DEF Staffing!ChangePassword
        <3>. QED  BY <3>1, <3>2, <3>3, <1>h, <1>t
    <2>3. ASSUME NEW w \in Depot, NEW m \in Agent, Staffing!SelectManager(w, m)
          PROVE  RosterInv'
        <3>1. PICK p : p = <<w, m>>
            OBVIOUS
        <3>2. /\ p \in Staffing!Post /\ p[2] = m /\ assign[p] = "active" /\ staff[m] = "ACTIVE"
              /\ session' = session \cup {p}
              /\ UNCHANGED <<assign, staff, house, changeTok, selectTok>>
            BY <2>3, <3>1 DEF Staffing!SelectManager, Staffing!Post
        <3>. QED  BY <3>2, <1>t DEF Staffing!TypeOK, Staffing!InitialPasswordIsTemporary
    <2>4. CASE Staffing!Expire
        BY <2>4, <1>t DEF Staffing!Expire, Staffing!TypeOK,
            Staffing!InitialPasswordIsTemporary
    <2>. QED  BY <1>2, <2>1, <2>2, <2>3, <2>4 DEF Staffing!SignIn
<1>3. ASSUME NEW c \in Pair, Staffing!Staffing(c)
      PROVE  RosterInv'
    <2>1. CASE Staffing!AssignManagersRotate(c)
        <3>1. house' \in [Depot -> Staffing!House]
            BY <2>1, <1>t DEF Staffing!AssignManagersRotate, Staffing!House
        <3>2. Staffing!InitialPasswordIsTemporary'
            BY <2>1, <1>t DEF Staffing!AssignManagersRotate, Staffing!InitialPasswordIsTemporary,
                Staffing!House
        <3>. QED  BY <2>1, <3>1, <3>2, <1>t
                  DEF Staffing!AssignManagersRotate, Staffing!TypeOK
    <2>2. CASE \/ Staffing!AssignManagersInsert(c) \/ Staffing!AssignWarehousesInsert(c)
               \/ Staffing!UnassignWrite(c)
        BY <2>2, <1>a, <1>u, <1>t DEF Staffing!AssignManagersInsert,
            Staffing!AssignWarehousesInsert, Staffing!UnassignWrite
    <2>3. CASE UNCHANGED <<assign, staff, house, changeTok, selectTok, session>>
        BY <2>3, <1>u, <1>t
    <2>. QED  BY <1>3, <2>1, <2>2, <2>3
              DEF Staffing!Staffing, Staffing!AssignManagersLoad, Staffing!AssignWarehousesLoad,
                  Staffing!AssignLoad, Staffing!UnassignLoad
<1>4. CASE UNCHANGED Staffing!vars
    BY <1>4, <1>u, <1>t DEF Staffing!vars
<1>. QED  BY <1>1, <1>2, <1>3, <1>4 DEF Staffing!Next

-----------------------------------------------------------------------------
(* Account security, with s codes and links and handlers H.  A handler     *)
(* that decided on a code or a link has the number of a row, and a code    *)
(* that is still good has answers left.                                    *)
Purposes == {"TRADE", "DISABLE_2FA", "CHANGE_PASSWORD"}

SecurityKnows(s, H, x) ==
    /\ x.op = "requestOtp" => x.p \in Purposes
    /\ x.op = "confirm" /\ x.step \in {"use", "miss"} =>
          /\ x.i \in Security(s, H)!Code /\ otp[x.i] # Security(s, H)!NoRow
          /\ x.attempts \in Nat /\ x.attempts < MaxAttempts
    /\ x.op = "resetPassword" =>
          x.i \in Security(s, H)!Link /\ mailed[x.i] # Security(s, H)!NoRow

SecurityCalls(s, H) == DOMAIN call = H /\ \A c \in H : SecurityKnows(s, H, call[c])

AnswersLeft(s, H) ==
    \A i \in Security(s, H)!Code : otp[i].state = "unused" => otp[i].attempts < MaxAttempts

SecurityInv(s, H) ==
    Security(s, H)!TypeOK /\ SecurityCalls(s, H) /\ AnswersLeft(s, H)

(* Rows are never deleted.                                                 *)
RowsStay(s, H) ==
    /\ \A i \in Security(s, H)!Code :
          otp[i] # Security(s, H)!NoRow => otp'[i] # Security(s, H)!NoRow
    /\ \A i \in Security(s, H)!Link :
          mailed[i] # Security(s, H)!NoRow => mailed'[i] # Security(s, H)!NoRow

(* What the handlers carry stays right when one of them takes a step and   *)
(* no row is lost.                                                         *)
LEMMA SecurityCallsStep ==
    ASSUME NEW s, NEW H, SecurityCalls(s, H), RowsStay(s, H), NEW c \in H,
           NEW x, SecurityKnows(s, H, x), call' = [call EXCEPT ![c] = x]
    PROVE  SecurityCalls(s, H)'
<1>1. DOMAIN call' = H /\ call'[c] = x /\ \A d \in H \ {c} : call'[d] = call[d]
    BY DEF SecurityCalls
<1>2. ASSUME NEW y, SecurityKnows(s, H, y)
      PROVE  SecurityKnows(s, H, y)'
    BY <1>2 DEF SecurityKnows, RowsStay, Security!NoRow, Security!Code, Security!Link
<1>3. ASSUME NEW d \in H PROVE SecurityKnows(s, H, call[d])'
    <2>1. PICK y : y = call'[d]
        OBVIOUS
    <2>2. SecurityKnows(s, H, y)
        BY <1>1, <2>1 DEF SecurityCalls
    <2>3. SecurityKnows(s, H, y)'
        BY <1>2, <2>2
    <2>. QED  BY <2>1, <2>3 DEF SecurityKnows
<1>. QED  BY <1>1, <1>3 DEF SecurityCalls

(* A set of row numbers that is not empty has a greatest one.              *)
LEMMA NewestIsOne ==
    ASSUME NEW s, NEW H, NEW n \in Nat, NEW S \in SUBSET (1..n), S # {}
    PROVE  Security(s, H)!Newest(S) \in S
BY GreatestExists DEF Security!Newest

(* Account security starts under its invariant.                            *)
LEMMA SecurityInit ==
    ASSUME NEW s, NEW H, MaxAttempts \in Nat \ {0}, Security(s, H)!Init
    PROVE  SecurityInv(s, H)
BY DEF Security!Init, SecurityInv, Security!TypeOK, SecurityCalls, SecurityKnows, AnswersLeft,
    Security!NoRow, Security!Idle

(* However handlers overlap, account security keeps its invariant, and a   *)
(* reset ends every link.                                                  *)
LEMMA SecurityStep ==
    ASSUME NEW s, NEW H, MaxAttempts \in Nat \ {0}, s.codes \in Nat, s.links \in Nat,
           SecurityInv(s, H), [Security(s, H)!Next]_(Security(s, H)!vars)
    PROVE  SecurityInv(s, H)' /\ Security(s, H)!ResetEndsLinks
<1>. DEFINE Code == Security(s, H)!Code
            Mail == Security(s, H)!Link
            NoRow == Security(s, H)!NoRow
            Otp == Security(s, H)!Otp
            Reset == Security(s, H)!Reset
<1>t. /\ otp \in [Code -> Otp \cup {NoRow}] /\ mailed \in [Mail -> Reset \cup {NoRow}]
      /\ pin \in BOOLEAN /\ twoFactor \in BOOLEAN
      /\ DOMAIN call = H /\ \A c \in H : SecurityKnows(s, H, call[c])
      /\ AnswersLeft(s, H)
    BY DEF SecurityInv, Security!TypeOK, SecurityCalls
<1>n. /\ SecurityKnows(s, H, Security(s, H)!Idle)
      /\ NoRow = [state |-> "none"] /\ Code = 1..s.codes /\ Mail = 1..s.links
    BY DEF SecurityKnows, Security!Idle, Security!NoRow, Security!Code, Security!Link
<1>h. /\ Otp = [state : {"unused", "used"}, purpose : Purposes, expired : BOOLEAN,
                attempts : 0..MaxAttempts]
      /\ Reset = [state : {"unused", "used"}, expired : BOOLEAN]
    BY DEF Security!Otp, Security!Reset, Purposes
<1>v. NoRow \notin Otp /\ NoRow \notin Reset
    BY <1>n, <1>h
<1>. HIDE DEF Code, Mail, NoRow, Otp, Reset
(* A handler moves, or none, and the links stay. *)
<1>a. ASSUME NEW c \in H, NEW x, SecurityKnows(s, H, x), call' = [call EXCEPT ![c] = x],
             pin' \in BOOLEAN, twoFactor' \in BOOLEAN,
             UNCHANGED mailed, otp' \in [Code -> Otp \cup {NoRow}], AnswersLeft(s, H)',
             \A i \in Code : otp[i] # NoRow => otp'[i] # NoRow
      PROVE  SecurityInv(s, H)' /\ Security(s, H)!ResetEndsLinks
    <2>1. RowsStay(s, H)
        BY <1>a DEF RowsStay, Code, NoRow
    <2>2. SecurityCalls(s, H)'
        BY <1>a, <1>t, <2>1, SecurityCallsStep DEF SecurityCalls
    <2>3. Security(s, H)!TypeOK'
        BY <1>a, <1>t DEF Security!TypeOK, Code, NoRow, Mail, Otp, Reset
    <2>. QED  BY <1>a, <2>2, <2>3 DEF SecurityInv, Security!ResetEndsLinks
<1>b. ASSUME NEW c \in H, NEW x, SecurityKnows(s, H, x), call' = [call EXCEPT ![c] = x],
             pin' \in BOOLEAN, twoFactor' \in BOOLEAN, UNCHANGED <<otp, mailed>>
      PROVE  SecurityInv(s, H)' /\ Security(s, H)!ResetEndsLinks
    <2>1. AnswersLeft(s, H)'
        BY <1>b, <1>t DEF AnswersLeft
    <2>. QED  BY <1>a, <1>b, <1>t, <2>1
<1>c. ASSUME NEW c \in H, NEW x, SecurityKnows(s, H, x), call[c] = Security(s, H)!Idle,
             call' = [call EXCEPT ![c] = x],
             UNCHANGED <<pin, twoFactor, otp, mailed, tried, spent>>
      PROVE  SecurityInv(s, H)' /\ Security(s, H)!ResetEndsLinks
    BY <1>b, <1>c, <1>t
(* Nobody moves: rows age. *)
<1>d. ASSUME UNCHANGED <<pin, twoFactor, call>>,
             otp' \in [Code -> Otp \cup {NoRow}], mailed' \in [Mail -> Reset \cup {NoRow}],
             AnswersLeft(s, H)',
             \A i \in Code : otp[i] # NoRow => otp'[i] # NoRow,
             \A i \in Mail : mailed[i] # NoRow => mailed'[i] # NoRow
      PROVE  SecurityInv(s, H)' /\ Security(s, H)!ResetEndsLinks
    <2>1. ASSUME NEW x, SecurityKnows(s, H, x)
          PROVE  SecurityKnows(s, H, x)'
        BY <1>d, <2>1 DEF SecurityKnows, Code, Mail, NoRow
    <2>2. ASSUME NEW c \in H PROVE SecurityKnows(s, H, call[c])'
        <3>1. PICK x : x = call[c]
            OBVIOUS
        <3>2. SecurityKnows(s, H, x)'
            BY <1>t, <2>1, <3>1
        <3>. QED  BY <1>d, <3>1, <3>2 DEF SecurityKnows
    <2>3. Security(s, H)!TypeOK'
        BY <1>d, <1>t DEF Security!TypeOK, Code, NoRow, Mail, Otp, Reset
    <2>4. Security(s, H)!ResetEndsLinks
        BY <1>d, <1>t DEF Security!ResetEndsLinks, Security!At, Security!Idle
    <2>. QED  BY <1>d, <1>t, <2>2, <2>3, <2>4 DEF SecurityInv, SecurityCalls
<1>. USE DEF Security!account, Security!codes, Security!Begin, Security!Return, Security!At,
             Security!Continue
<1>1. ASSUME NEW c \in H,
             Security(s, H)!SetPinLoad(c) \/ Security(s, H)!ChangePinLoad(c)
                \/ Security(s, H)!ClearPinLoad(c) \/ Security(s, H)!EnableLoad(c)
      PROVE  SecurityInv(s, H)' /\ Security(s, H)!ResetEndsLinks
    <2>1. ASSUME NEW op \in {"setPin", "changePin", "clearPin", "enable2FA"},
                 Security(s, H)!Begin(c, [op |-> op, step |-> "write"]),
                 UNCHANGED <<pin, twoFactor, otp, mailed, tried, spent>>
          PROVE  SecurityInv(s, H)' /\ Security(s, H)!ResetEndsLinks
        <3>. DEFINE x == [op |-> op, step |-> "write"]
        <3>1. SecurityKnows(s, H, x)
            BY DEF SecurityKnows
        <3>. QED  BY <1>c, <2>1, <3>1
    <2>2. CASE Security(s, H)!SetPinLoad(c)
        BY <2>1, <2>2 DEF Security!SetPinLoad
    <2>3. CASE Security(s, H)!ChangePinLoad(c)
        BY <2>1, <2>3 DEF Security!ChangePinLoad
    <2>4. CASE Security(s, H)!ClearPinLoad(c)
        BY <2>1, <2>4 DEF Security!ClearPinLoad
    <2>5. CASE Security(s, H)!EnableLoad(c)
        BY <2>1, <2>5 DEF Security!EnableLoad
    <2>. QED  BY <1>1, <2>2, <2>3, <2>4, <2>5
<1>2. ASSUME NEW c \in H,
             Security(s, H)!PinWrite(c) \/ Security(s, H)!ClearPinWrite(c)
                \/ Security(s, H)!EnableWrite(c) \/ Security(s, H)!ConfirmedWrite(c)
      PROVE  SecurityInv(s, H)' /\ Security(s, H)!ResetEndsLinks
    <2>1. /\ call' = [call EXCEPT ![c] = Security(s, H)!Idle]
          /\ pin' \in BOOLEAN /\ twoFactor' \in BOOLEAN
          /\ UNCHANGED <<otp, mailed>>
        BY <1>2, <1>t DEF Security!PinWrite, Security!ClearPinWrite, Security!EnableWrite,
            Security!ConfirmedWrite
    <2>. QED  BY <1>b, <1>n, <2>1
<1>3. ASSUME NEW c \in H, NEW p \in Purposes,
             Security(s, H)!RequestLoad(c, p) \/ Security(s, H)!Confirm(c, p)
      PROVE  SecurityInv(s, H)' /\ Security(s, H)!ResetEndsLinks
    <2>1. PICK x : /\ x.op = "requestOtp" \/ (x.op = "confirm" /\ x.step = "find")
                   /\ x.p = p
                   /\ call[c] = Security(s, H)!Idle /\ call' = [call EXCEPT ![c] = x]
                   /\ UNCHANGED <<pin, twoFactor, otp, mailed, tried, spent>>
        BY <1>3 DEF Security!RequestLoad, Security!Confirm
    <2>2. SecurityKnows(s, H, x)
        BY <2>1 DEF SecurityKnows
    <2>. QED  BY <1>c, <2>1, <2>2
<1>4. ASSUME NEW c \in H, Security(s, H)!ConfirmOnBehalf(c)
      PROVE  SecurityInv(s, H)' /\ Security(s, H)!ResetEndsLinks
    <2>. DEFINE x == [op |-> "confirm", step |-> "find", p |-> "TRADE"]
    <2>1. SecurityKnows(s, H, x)
        BY DEF SecurityKnows
    <2>. QED  BY <1>4, <1>c, <2>1 DEF Security!ConfirmOnBehalf
<1>5. ASSUME NEW c \in H, Security(s, H)!RequestIssue(c)
      PROVE  SecurityInv(s, H)' /\ Security(s, H)!ResetEndsLinks
    <2>. DEFINE p == call[c].p
                new == [state |-> "unused", purpose |-> p, expired |-> FALSE, attempts |-> 0]
                kept == [i \in Code |-> IF i \in Security(s, H)!Voided(p)
                                        THEN [otp[i] EXCEPT !.state = "used"] ELSE otp[i]]
                next == Security(s, H)!Next1(otp)
    <2>1. /\ next \in Code /\ otp' = [kept EXCEPT ![next] = new]
          /\ call' = [call EXCEPT ![c] = Security(s, H)!Idle]
          /\ UNCHANGED <<pin, twoFactor, mailed>>
        BY <1>5 DEF Security!RequestIssue, Code
    <2>2. new \in Otp /\ new.state = "unused" /\ new.attempts = 0
        BY <1>5, <1>t, <1>h DEF Security!RequestIssue, SecurityKnows
    <2>3. \A i \in Code :
              /\ otp[i] \in Otp => [otp[i] EXCEPT !.state = "used"] \in Otp
              /\ otp[i] \in Otp => [otp[i] EXCEPT !.state = "used"].state = "used"
        BY <1>h
    <2>4. \A i \in Code : i \in Security(s, H)!Voided(p) => otp[i] \in Otp
        BY <1>t DEF Security!Voided, Security!LiveFor, Security!Live, Security!Unused,
            Security!Issued, NoRow
    <2>5. kept \in [Code -> Otp \cup {NoRow}]
          /\ \A i \in Code : /\ kept[i].state = "unused" => kept[i] = otp[i]
                             /\ otp[i] # NoRow => kept[i] # NoRow
        BY <1>t, <1>v, <2>3, <2>4
    <2>. HIDE DEF kept, new, next
    <2>6. otp' \in [Code -> Otp \cup {NoRow}]
          /\ \A i \in Code : otp[i] # NoRow => otp'[i] # NoRow
        BY <1>v, <2>1, <2>2, <2>5
    <2>7. \A i \in Code : otp'[i].state = "unused" => otp'[i] = new \/ otp'[i] = otp[i]
        BY <2>1, <2>5
    <2>8. AnswersLeft(s, H)'
        BY <1>t, <2>2, <2>7 DEF AnswersLeft, Code
    <2>. QED  BY <1>a, <1>n, <1>t, <2>1, <2>6, <2>8
<1>6. ASSUME NEW c \in H, Security(s, H)!ConsumeFind(c)
      PROVE  SecurityInv(s, H)' /\ Security(s, H)!ResetEndsLinks
    <2>. DEFINE S == Security(s, H)!UnusedFor(call[c].p)
                i == Security(s, H)!Newest(S)
    <2>1. S # {} /\ S \in SUBSET (1..s.codes)
        BY <1>6, <1>t, <1>n DEF Security!ConsumeFind, Security!UnusedFor, Security!Unused,
            Security!Issued
    <2>. HIDE DEF S
    <2>2. i \in S
        BY <2>1, NewestIsOne
    <2>3. i \in Code /\ otp[i] # NoRow /\ otp[i].state = "unused"
        BY <1>t, <2>2 DEF S, Security!UnusedFor, Security!Unused, Security!Issued, NoRow
    <2>4. otp[i].attempts \in Nat /\ otp[i].attempts < MaxAttempts
        BY <1>t, <1>h, <2>3 DEF AnswersLeft, Code
    <2>5. PICK right \in BOOLEAN :
              call' = [call EXCEPT ![c] =
                         [op |-> "confirm", step |-> IF right THEN "use" ELSE "miss",
                          p |-> call[c].p, i |-> i, attempts |-> otp[i].attempts]]
        BY <1>6 DEF Security!ConsumeFind, S
    <2>. HIDE DEF i
    <2>. DEFINE x == [op |-> "confirm", step |-> IF right THEN "use" ELSE "miss",
                      p |-> call[c].p, i |-> i, attempts |-> otp[i].attempts]
    <2>6. SecurityKnows(s, H, x)
        BY <2>3, <2>4 DEF SecurityKnows, Code, NoRow
    <2>7. UNCHANGED <<pin, twoFactor, otp, mailed>>
        BY <1>6 DEF Security!ConsumeFind
    <2>. QED  BY <1>b, <1>t, <2>5, <2>6, <2>7
<1>7. ASSUME NEW c \in H, Security(s, H)!ConsumeMiss(c) \/ Security(s, H)!ConsumeUse(c)
      PROVE  SecurityInv(s, H)' /\ Security(s, H)!ResetEndsLinks
    <2>. DEFINE i == call[c].i
    <2>1. i \in Code /\ otp[i] \in Otp /\ call[c].attempts \in Nat /\ call[c].attempts < MaxAttempts
        BY <1>7, <1>t DEF SecurityKnows, Security!ConsumeMiss, Security!ConsumeUse, Code, NoRow
    <2>2. ASSUME NEW row \in Otp, otp' = [otp EXCEPT ![i] = row],
                 row.state = "unused" => row.attempts < MaxAttempts
          PROVE  /\ otp' \in [Code -> Otp \cup {NoRow}] /\ AnswersLeft(s, H)'
                 /\ \A j \in Code : otp[j] # NoRow => otp'[j] # NoRow
        BY <1>t, <1>v, <2>1, <2>2 DEF AnswersLeft, Code
    <2>3. CASE Security(s, H)!ConsumeMiss(c)
        <3>. DEFINE n == call[c].attempts + 1
                    row == [otp[i] EXCEPT !.attempts = n,
                              !.state = IF Security(s, H)!Burned(n) THEN "used" ELSE @]
        <3>1. otp' = [otp EXCEPT ![i] = row]
            BY <1>t, <2>1, <2>3 DEF Security!ConsumeMiss
        <3>2. row \in Otp /\ (row.state = "unused" => row.attempts < MaxAttempts)
            <4>1. n \in 0..MaxAttempts /\ (~Security(s, H)!Burned(n) => n < MaxAttempts)
                BY <2>1 DEF Security!Burned
            <4>2. PICK st : st = IF Security(s, H)!Burned(n) THEN "used" ELSE otp[i].state
                OBVIOUS
            <4>3. row = [otp[i] EXCEPT !.attempts = n, !.state = st]
                BY <4>2
            <4>4. st \in {"unused", "used"} /\ (st = "unused" => n < MaxAttempts)
                BY <1>h, <2>1, <4>1, <4>2
            <4>. HIDE DEF n
            <4>. QED  BY <1>h, <2>1, <4>1, <4>3, <4>4
        <3>. HIDE DEF row
        <3>3. /\ otp' \in [Code -> Otp \cup {NoRow}] /\ AnswersLeft(s, H)'
              /\ \A j \in Code : otp[j] # NoRow => otp'[j] # NoRow
            BY <2>2, <3>1, <3>2
        <3>. QED  BY <1>a, <1>n, <1>t, <2>3, <3>3 DEF Security!ConsumeMiss
    <2>4. CASE Security(s, H)!ConsumeUse(c)
        <3>. DEFINE row == [otp[i] EXCEPT !.state = "used"]
                    x == [op |-> "confirmed", step |-> "write", p |-> call[c].p]
        <3>1. otp' = [otp EXCEPT ![i] = row]
            BY <1>t, <2>1, <2>4 DEF Security!ConsumeUse
        <3>2. row \in Otp /\ row.state = "used"
            BY <1>h, <2>1
        <3>. HIDE DEF row
        <3>3. /\ otp' \in [Code -> Otp \cup {NoRow}] /\ AnswersLeft(s, H)'
              /\ \A j \in Code : otp[j] # NoRow => otp'[j] # NoRow
            BY <2>2, <3>1, <3>2
        <3>4. SecurityKnows(s, H, x)
            BY DEF SecurityKnows
        <3>. QED  BY <1>a, <1>t, <2>4, <3>3, <3>4 DEF Security!ConsumeUse
    <2>. QED  BY <1>7, <2>3, <2>4
<1>8. ASSUME NEW c \in H, NEW i \in Mail, Security(s, H)!ResetLoad(c, i)
      PROVE  SecurityInv(s, H)' /\ Security(s, H)!ResetEndsLinks
    <2>. DEFINE x == [op |-> "resetPassword", step |-> "write", i |-> i]
    <2>1. SecurityKnows(s, H, x)
        BY <1>8 DEF SecurityKnows, Security!ResetLoad, Security!Live, Security!Unused,
            Security!Issued, Mail
    <2>. QED  BY <1>8, <1>c, <2>1 DEF Security!ResetLoad
<1>9. ASSUME NEW c \in H, Security(s, H)!ResetWrite(c)
      PROVE  SecurityInv(s, H)' /\ Security(s, H)!ResetEndsLinks
    <2>. DEFINE i == call[c].i
                gone == Security(s, H)!SpentLinks(i)
    <2>1. i \in Mail /\ mailed[i] # NoRow
        BY <1>9, <1>t DEF Security!ResetWrite, SecurityKnows, Mail, NoRow
    <2>2. mailed' = [j \in Mail |-> IF j \in gone THEN [mailed[j] EXCEPT !.state = "used"]
                                                  ELSE mailed[j]]
        BY <1>9 DEF Security!ResetWrite, Mail
    <2>3. \A j \in Mail : j \in gone => mailed[j] \in Reset
        BY <1>t, <2>1 DEF Security!SpentLinks, Security!Unused, Security!Issued, NoRow
    <2>4. \A j \in Mail : mailed[j] \in Reset =>
              /\ [mailed[j] EXCEPT !.state = "used"] \in Reset
              /\ [mailed[j] EXCEPT !.state = "used"].state = "used"
        BY <1>h
    <2>5. \A j \in Mail : j \notin gone => mailed[j].state # "unused"
        BY <1>t, <1>n DEF Security!SpentLinks, Security!Unused, Security!Issued, NoRow
    <2>. HIDE DEF gone
    <2>6. /\ mailed' \in [Mail -> Reset \cup {NoRow}]
          /\ \A j \in Mail : mailed[j] # NoRow => mailed'[j] # NoRow
          /\ \A j \in Mail : mailed'[j].state # "unused"
        BY <1>t, <1>v, <2>2, <2>3, <2>4, <2>5
    <2>7. RowsStay(s, H)
        BY <1>9, <2>6 DEF RowsStay, Mail, NoRow, Security!ResetWrite
    <2>8. SecurityCalls(s, H)'
        BY <1>9, <1>t, <1>n, <2>7, SecurityCallsStep DEF SecurityCalls, Security!ResetWrite
    <2>9. Security(s, H)!TypeOK' /\ AnswersLeft(s, H)'
        BY <1>9, <1>t, <2>6 DEF Security!TypeOK, AnswersLeft, Code, NoRow, Mail, Otp, Reset,
            Security!ResetWrite
    <2>10. Security(s, H)!ResetEndsLinks
        BY <2>6 DEF Security!ResetEndsLinks, Security!Unused, Security!Issued, Mail
    <2>. QED  BY <2>8, <2>9, <2>10 DEF SecurityInv
<1>10. ASSUME NEW c \in H, Security(s, H)!Abandon(c),
              UNCHANGED <<pin, twoFactor, otp, mailed, tried, spent>>
       PROVE  SecurityInv(s, H)' /\ Security(s, H)!ResetEndsLinks
    BY <1>10, <1>b, <1>n, <1>t DEF Security!Abandon
<1>11. CASE Security(s, H)!Forgot
    <2>. DEFINE kept == [i \in Mail |-> IF i \in Security(s, H)!Live(mailed)
                                        THEN [mailed[i] EXCEPT !.state = "used"] ELSE mailed[i]]
                new == [state |-> "unused", expired |-> FALSE]
                next == Security(s, H)!Next1(mailed)
    <2>1. /\ next \in Mail /\ mailed' = [kept EXCEPT ![next] = new]
          /\ UNCHANGED <<pin, twoFactor, otp, call>>
        BY <1>11 DEF Security!Forgot, Mail
    <2>2. \A i \in Mail : i \in Security(s, H)!Live(mailed) => mailed[i] \in Reset
        BY <1>t DEF Security!Live, Security!Unused, Security!Issued, NoRow
    <2>3. \A i \in Mail : mailed[i] \in Reset => [mailed[i] EXCEPT !.state = "used"] \in Reset
        BY <1>h
    <2>4. kept \in [Mail -> Reset \cup {NoRow}] /\ \A i \in Mail : mailed[i] # NoRow => kept[i] # NoRow
        BY <1>t, <1>v, <2>2, <2>3
    <2>5. new \in Reset
        BY <1>h
    <2>. HIDE DEF kept, new, next
    <2>6. /\ mailed' \in [Mail -> Reset \cup {NoRow}]
          /\ \A i \in Mail : mailed[i] # NoRow => mailed'[i] # NoRow
        BY <1>v, <2>1, <2>4, <2>5
    <2>7. AnswersLeft(s, H)'
        BY <1>t, <2>1 DEF AnswersLeft
    <2>. QED  BY <1>d, <1>t, <2>1, <2>6, <2>7
<1>12. CASE Security(s, H)!Expire
    <2>1. ASSUME NEW i \in Security(s, H)!Live(otp), otp' = [otp EXCEPT ![i].expired = TRUE],
                 UNCHANGED <<pin, twoFactor, call, mailed>>
          PROVE  SecurityInv(s, H)' /\ Security(s, H)!ResetEndsLinks
        <3>. DEFINE row == [otp[i] EXCEPT !.expired = TRUE]
        <3>1. i \in Code /\ otp[i] \in Otp /\ otp' = [otp EXCEPT ![i] = row]
            BY <1>t, <2>1 DEF Security!Live, Security!Unused, Security!Issued, NoRow
        <3>2. row \in Otp /\ row.state = otp[i].state /\ row.attempts = otp[i].attempts
            BY <1>h, <3>1
        <3>. HIDE DEF row
        <3>3. otp' \in [Code -> Otp \cup {NoRow}]
              /\ \A j \in Code : otp[j] # NoRow => otp'[j] # NoRow
            BY <1>t, <1>v, <3>1, <3>2
        <3>4. AnswersLeft(s, H)'
            BY <1>t, <3>1, <3>2 DEF AnswersLeft, Code
        <3>. QED  BY <1>d, <1>t, <2>1, <3>3, <3>4
    <2>2. ASSUME NEW i \in Security(s, H)!Live(mailed),
                 mailed' = [mailed EXCEPT ![i].expired = TRUE],
                 UNCHANGED <<pin, twoFactor, call, otp>>
          PROVE  SecurityInv(s, H)' /\ Security(s, H)!ResetEndsLinks
        <3>. DEFINE row == [mailed[i] EXCEPT !.expired = TRUE]
        <3>1. i \in Mail /\ mailed[i] \in Reset /\ mailed' = [mailed EXCEPT ![i] = row]
            BY <1>t, <2>2 DEF Security!Live, Security!Unused, Security!Issued, NoRow
        <3>2. row \in Reset
            BY <1>h, <3>1
        <3>. HIDE DEF row
        <3>3. mailed' \in [Mail -> Reset \cup {NoRow}]
              /\ \A j \in Mail : mailed[j] # NoRow => mailed'[j] # NoRow
            BY <1>t, <1>v, <3>1, <3>2
        <3>4. AnswersLeft(s, H)'
            BY <1>t, <2>2 DEF AnswersLeft
        <3>. QED  BY <1>d, <1>t, <2>2, <3>3, <3>4
    <2>. QED  BY <1>12, <2>1, <2>2 DEF Security!Expire
<1>13. CASE UNCHANGED Security(s, H)!vars
    <2>1. UNCHANGED <<pin, twoFactor, otp, mailed, call>> /\ AnswersLeft(s, H)'
        BY <1>13, <1>t DEF Security!vars, AnswersLeft
    <2>. QED  BY <1>d, <1>t, <2>1
<1>. QED  BY <1>1, <1>2, <1>3, <1>4, <1>5, <1>6, <1>7, <1>8, <1>9, <1>10, <1>11, <1>12, <1>13
          DEF Security!Next, Purposes, Mail

(* One handler: codes are issued one after the other, only the newest of a *)
(* purpose is good, and what is answered to a code is on its row while it  *)
(* is good.                                                                *)
IssuedInARow(s) == \E n \in Nat : Security(s, {solo})!Issued(otp) = 1..n

GoodOnce(s) ==
    \A i, j \in Security(s, {solo})!Live(otp) : otp[i].purpose = otp[j].purpose => i = j

AnswersOnRecord(s) ==
    /\ spent \in [Security(s, {solo})!Code -> {0, 1}]
    /\ tried \in [Security(s, {solo})!Code -> 0..MaxAttempts]
    /\ \A i \in Security(s, {solo})!Code :
          /\ otp[i] = Security(s, {solo})!NoRow => spent[i] = 0 /\ tried[i] = 0
          /\ otp[i].state = "unused" => spent[i] = 0 /\ tried[i] = otp[i].attempts

(* What the handler has read is still so.                                  *)
SecuritySees(x) ==
    /\ x.op = "clearPin" => ~twoFactor
    /\ x.op = "enable2FA" => pin
    /\ x.op = "confirm" /\ x.step \in {"use", "miss"} =>
          otp[x.i].state = "unused" /\ otp[x.i].attempts = x.attempts

SecuritySolo(s) ==
    /\ SecurityInv(s, {solo})
    /\ SecuritySees(call[solo])
    /\ IssuedInARow(s) /\ GoodOnce(s) /\ AnswersOnRecord(s)
    /\ Security(s, {solo})!TwoFactorHasPin

(* Account security starts under the invariant of one handler.             *)
LEMMA SecuritySoloInit ==
    ASSUME NEW s, MaxAttempts \in Nat \ {0}, Security(s, {solo})!Init
    PROVE  SecuritySolo(s)
<1>1. SecurityInv(s, {solo})
    BY SecurityInit
<1>2. Security(s, {solo})!Issued(otp) = {} /\ Security(s, {solo})!Live(otp) = {}
    BY DEF Security!Init, Security!Issued, Security!Unused, Security!Live, Security!NoRow
<1>3. 1..0 = {}
    OBVIOUS
<1>4. IssuedInARow(s) /\ GoodOnce(s)
    BY <1>2, <1>3 DEF IssuedInARow, GoodOnce
<1>5. AnswersOnRecord(s)
    BY DEF Security!Init, AnswersOnRecord, Security!NoRow
<1>6. SecuritySees(call[solo]) /\ Security(s, {solo})!TwoFactorHasPin
    BY DEF Security!Init, SecuritySees, Security!Idle, Security!TwoFactorHasPin
<1>. QED  BY <1>1, <1>4, <1>5, <1>6 DEF SecuritySolo

(* Counting the rows finds the first free number.                          *)
LEMMA NextIsFree ==
    ASSUME NEW s, NEW n \in Nat, Security(s, {solo})!Issued(otp) = 1..n
    PROVE  Security(s, {solo})!Next1(otp) = n + 1
<1>1. Cardinality(1..n) = n
    BY FS_Interval
<1>2. \A S : Security(s, {solo})!Cardinality(S) = Cardinality(S)
    BY DEF Security!Cardinality, Cardinality
<1>. QED  BY <1>1, <1>2 DEF Security!Next1

(* Codes that are good once can be counted.                                *)
LEMMA GoodIsCountedOnce ==
    ASSUME NEW s, GoodOnce(s)
    PROVE  Security(s, {solo})!OneLiveCode
<1>1. ASSUME NEW S, \A k, l \in S : k = l
      PROVE  Security(s, {solo})!Cardinality(S) <= 1
    <2>1. Security(s, {solo})!Cardinality(S) = Cardinality(S)
        BY DEF Security!Cardinality, Cardinality
    <2>. QED  BY <1>1, <2>1, AtMostOne
<1>2. \A p : \A k, l \in Security(s, {solo})!LiveFor(p) : k = l
    BY DEF GoodOnce, Security!LiveFor
<1>. QED  BY <1>1, <1>2 DEF Security!OneLiveCode

(* What is recorded of the answers to a code stays within its limits.      *)
LEMMA AnswersStayFew ==
    ASSUME NEW s, MaxAttempts \in Nat \ {0}, AnswersOnRecord(s)
    PROVE  Security(s, {solo})!CodeIsSpentOnce
<1>1. ASSUME NEW i \in Security(s, {solo})!Code
      PROVE  spent[i] <= 1 /\ tried[i] <= MaxAttempts
    <2>1. spent[i] \in {0, 1} /\ tried[i] \in 0..MaxAttempts
        BY DEF AnswersOnRecord
    <2>. QED  BY <2>1
<1>. QED  BY <1>1 DEF Security!CodeIsSpentOnce

(* One handler at a time keeps codes and answers as its invariant says.    *)
LEMMA SecuritySoloStep ==
    ASSUME NEW s, MaxAttempts \in Nat \ {0}, s.codes \in Nat, s.links \in Nat,
           SecuritySolo(s), [Security(s, {solo})!Next]_(Security(s, {solo})!vars)
    PROVE  SecuritySolo(s)'
<1>. DEFINE x == call[solo]
            Code == Security(s, {solo})!Code
            NoRow == Security(s, {solo})!NoRow
            Otp == Security(s, {solo})!Otp
            Rest == /\ SecuritySees(call[solo])
                    /\ IssuedInARow(s) /\ GoodOnce(s) /\ AnswersOnRecord(s)
                    /\ Security(s, {solo})!TwoFactorHasPin
<1>i. SecurityInv(s, {solo})'
    BY SecurityStep DEF SecuritySolo
<1>s. SUFFICES Rest'
    BY <1>i DEF SecuritySolo
<1>k. /\ DOMAIN call = {solo} /\ SecurityKnows(s, {solo}, x) /\ SecuritySees(x)
      /\ IssuedInARow(s) /\ GoodOnce(s) /\ AnswersOnRecord(s)
      /\ Security(s, {solo})!TwoFactorHasPin /\ AnswersLeft(s, {solo})
    BY DEF SecuritySolo, SecurityInv, SecurityCalls
<1>t. /\ otp \in [Code -> Otp \cup {NoRow}] /\ otp' \in [Code -> Otp \cup {NoRow}]
      /\ pin \in BOOLEAN /\ twoFactor \in BOOLEAN
    BY <1>i DEF SecuritySolo, SecurityInv, Security!TypeOK, Security!Code, Security!NoRow,
        Security!Otp
<1>n. NoRow = [state |-> "none"] /\ Code = 1..s.codes
    BY DEF Security!NoRow, Security!Code
<1>h. Otp = [state : {"unused", "used"}, purpose : Purposes, expired : BOOLEAN,
             attempts : 0..MaxAttempts]
    BY DEF Security!Otp, Purposes
<1>l. /\ Security(s, {solo})!Issued(otp) = {i \in Code : otp[i] # NoRow}
      /\ Security(s, {solo})!Issued(otp)' = {i \in Code : otp'[i] # NoRow}
      /\ Security(s, {solo})!Live(otp) =
            {i \in Code : otp[i].state = "unused" /\ ~otp[i].expired}
      /\ Security(s, {solo})!Live(otp)' =
            {i \in Code : otp'[i].state = "unused" /\ ~otp'[i].expired}
    BY <1>t, <1>n DEF Security!Issued, Security!Live, Security!Unused, Security!NoRow
<1>. HIDE DEF Code, NoRow, Otp
<1>v. NoRow \notin Otp
    <2>1. \A row \in Otp : row.state # "none"
        BY <1>h
    <2>. QED  BY <1>n, <2>1
<1>c. ASSUME NEW y, call' = [call EXCEPT ![solo] = y]
      PROVE  call'[solo] = y
    BY <1>c, <1>k
<1>q. \A i \in Code : otp[i].state = "unused" => otp[i] \in Otp
    <2>1. NoRow.state = "none"
        BY <1>n
    <2>. QED  BY <1>t, <2>1
(* The codes are left alone. *)
<1>u. ASSUME UNCHANGED <<otp, tried, spent>>
      PROVE  IssuedInARow(s)' /\ GoodOnce(s)' /\ AnswersOnRecord(s)'
    BY <1>u, <1>k, <1>l DEF IssuedInARow, GoodOnce, AnswersOnRecord
<1>o. SecuritySees(Security(s, {solo})!Idle)'
    BY DEF SecuritySees, Security!Idle
<1>b. ASSUME NEW y, SecuritySees(y), call' = [call EXCEPT ![solo] = y],
             UNCHANGED <<pin, twoFactor, otp, tried, spent>>
      PROVE  Rest'
    BY <1>b, <1>c, <1>k, <1>u DEF SecuritySees, Security!TwoFactorHasPin
<1>w. ASSUME call' = [call EXCEPT ![solo] = Security(s, {solo})!Idle],
             twoFactor' => pin', UNCHANGED <<otp, tried, spent>>
      PROVE  Rest'
    <2>1. SecuritySees(call[solo])'
        BY <1>w, <1>c, <1>o DEF SecuritySees
    <2>. QED  BY <1>w, <1>u, <2>1 DEF Security!TwoFactorHasPin
<1>. USE DEF Security!account, Security!codes, Security!Begin, Security!Return, Security!At,
             Security!Continue
<1>1. CASE \/ Security(s, {solo})!SetPinLoad(solo) \/ Security(s, {solo})!ChangePinLoad(solo)
           \/ Security(s, {solo})!ClearPinLoad(solo) \/ Security(s, {solo})!EnableLoad(solo)
    <2>1. ASSUME NEW op \in {"setPin", "changePin", "clearPin", "enable2FA"},
                 op = "clearPin" => ~twoFactor, op = "enable2FA" => pin,
                 Security(s, {solo})!Begin(solo, [op |-> op, step |-> "write"]),
                 UNCHANGED <<pin, twoFactor, otp, mailed, tried, spent>>
          PROVE  Rest'
        <3>. DEFINE y == [op |-> op, step |-> "write"]
        <3>1. SecuritySees(y)
            BY <2>1 DEF SecuritySees
        <3>. QED  BY <1>b, <2>1, <3>1
    <2>2. CASE Security(s, {solo})!SetPinLoad(solo)
        BY <2>1, <2>2 DEF Security!SetPinLoad
    <2>3. CASE Security(s, {solo})!ChangePinLoad(solo)
        BY <2>1, <2>3 DEF Security!ChangePinLoad
    <2>4. CASE Security(s, {solo})!ClearPinLoad(solo)
        BY <2>1, <2>4 DEF Security!ClearPinLoad
    <2>5. CASE Security(s, {solo})!EnableLoad(solo)
        BY <2>1, <2>5 DEF Security!EnableLoad
    <2>. QED  BY <1>1, <2>2, <2>3, <2>4, <2>5
<1>2. CASE \/ Security(s, {solo})!PinWrite(solo) \/ Security(s, {solo})!ClearPinWrite(solo)
           \/ Security(s, {solo})!EnableWrite(solo) \/ Security(s, {solo})!ConfirmedWrite(solo)
    <2>1. twoFactor' => pin'
        BY <1>2, <1>k, <1>t DEF SecuritySees, Security!TwoFactorHasPin, Security!PinWrite,
            Security!ClearPinWrite, Security!EnableWrite, Security!ConfirmedWrite
    <2>. QED  BY <1>2, <1>w, <2>1 DEF Security!PinWrite, Security!ClearPinWrite,
            Security!EnableWrite, Security!ConfirmedWrite
<1>3. ASSUME NEW p, Security(s, {solo})!RequestLoad(solo, p) \/ Security(s, {solo})!Confirm(solo, p)
      PROVE  Rest'
    <2>1. PICK y : /\ y.op = "requestOtp" \/ (y.op = "confirm" /\ y.step = "find")
                   /\ call' = [call EXCEPT ![solo] = y]
                   /\ UNCHANGED <<pin, twoFactor, otp, mailed, tried, spent>>
        BY <1>3 DEF Security!RequestLoad, Security!Confirm
    <2>2. SecuritySees(y)
        BY <2>1 DEF SecuritySees
    <2>. QED  BY <1>b, <2>1, <2>2
<1>4. CASE Security(s, {solo})!ConfirmOnBehalf(solo)
    <2>. DEFINE y == [op |-> "confirm", step |-> "find", p |-> "TRADE"]
    <2>1. SecuritySees(y)
        BY DEF SecuritySees
    <2>. QED  BY <1>4, <1>b, <2>1 DEF Security!ConfirmOnBehalf
<1>5. CASE Security(s, {solo})!RequestIssue(solo)
    <2>. DEFINE p == x.p
                new == [state |-> "unused", purpose |-> p, expired |-> FALSE, attempts |-> 0]
                gone == Security(s, {solo})!Voided(p)
                kept == [i \in Code |-> IF i \in gone THEN [otp[i] EXCEPT !.state = "used"]
                                                      ELSE otp[i]]
                next == Security(s, {solo})!Next1(otp)
    <2>1. PICK n \in Nat : Security(s, {solo})!Issued(otp) = 1..n
        BY <1>k DEF IssuedInARow
    <2>2. next = n + 1
        BY <2>1, NextIsFree
    <2>3. /\ next \in Code /\ otp' = [kept EXCEPT ![next] = new]
          /\ call' = [call EXCEPT ![solo] = Security(s, {solo})!Idle]
          /\ UNCHANGED <<pin, twoFactor, tried, spent>>
        BY <1>5 DEF Security!RequestIssue, Code
    <2>4. \A i \in Code : i \in gone <=>
              otp[i].state = "unused" /\ ~otp[i].expired /\ otp[i].purpose = p
        BY <1>l DEF Security!Voided, Security!LiveFor
    <2>5. /\ otp'[next] = new
          /\ \A i \in Code \ {next} :
                otp'[i] = IF i \in gone THEN [otp[i] EXCEPT !.state = "used"] ELSE otp[i]
        BY <2>3
    <2>6. \A i \in Code : i \in gone => otp[i] \in Otp
        BY <1>q, <2>4
    <2>7. \A i \in Code : otp[i] \in Otp => [otp[i] EXCEPT !.state = "used"].state = "used"
        BY <1>h
    <2>. HIDE DEF gone, next
    <2>8. new # NoRow /\ new.state = "unused" /\ new.purpose = p /\ new.attempts = 0
        BY <1>n
    <2>. HIDE DEF new
    <2>9. \A i \in Code \ {next} : otp'[i] = NoRow <=> otp[i] = NoRow
        <3>1. NoRow.state = "none"
            BY <1>n
        <3>. QED  BY <1>v, <2>5, <2>6, <2>7, <3>1
    <2>10. otp[next] = NoRow
        <3>1. next \notin 1..n
            BY <2>2
        <3>. QED  BY <1>l, <2>1, <2>3, <3>1
    <2>11. Security(s, {solo})!Issued(otp)' = 1..(n + 1)
        <3>1. \A i \in Code : i \in 1..n <=> otp[i] # NoRow
            BY <1>l, <2>1
        <3>2. 1..n \subseteq Code /\ n + 1 \in Code
            BY <1>l, <2>1, <2>2, <2>3
        <3>3. \A i \in Code : i \in 1..(n + 1) <=> otp'[i] # NoRow
            BY <1>n, <2>2, <2>5, <2>8, <2>9, <3>1
        <3>4. 1..(n + 1) \subseteq Code
            BY <1>n, <3>2
        <3>. QED  BY <1>l, <3>3, <3>4
    <2>12. IssuedInARow(s)'
        BY <2>11 DEF IssuedInARow
    <2>13. \A i \in Code : otp'[i].state = "unused" => i = next \/ (otp'[i] = otp[i] /\ i \notin gone)
        BY <2>5, <2>6, <2>7
    <2>14. GoodOnce(s)'
        <3>1. SUFFICES ASSUME NEW i \in Code, NEW j \in Code,
                              otp'[i].state = "unused", otp'[j].state = "unused",
                              ~otp'[i].expired, ~otp'[j].expired,
                              otp'[i].purpose = otp'[j].purpose
                       PROVE  i = j
            BY <1>l DEF GoodOnce
        <3>2. ASSUME NEW k \in Code, k # next, otp'[k].state = "unused", ~otp'[k].expired
              PROVE  otp'[k] = otp[k] /\ otp[k].purpose # p
            BY <2>4, <2>13, <3>2
        <3>3. otp'[next].purpose = p
            BY <2>5, <2>8
        <3>4. CASE i # next /\ j # next
            <4>1. otp'[i] = otp[i] /\ otp'[j] = otp[j]
                BY <3>1, <3>2, <3>4
            <4>. QED  BY <1>k, <1>l, <3>1, <4>1 DEF GoodOnce
        <3>. QED  BY <3>1, <3>2, <3>3, <3>4
    <2>15. AnswersOnRecord(s)'
        BY <1>k, <2>3, <2>5, <2>8, <2>9, <2>10, <2>13 DEF AnswersOnRecord, Code, NoRow
    <2>16. SecuritySees(call[solo])'
        BY <1>c, <1>o, <2>3 DEF SecuritySees
    <2>. QED  BY <1>k, <2>3, <2>12, <2>14, <2>15, <2>16 DEF Security!TwoFactorHasPin
<1>6. CASE Security(s, {solo})!ConsumeFind(solo)
    <2>. DEFINE S == Security(s, {solo})!UnusedFor(x.p)
                i == Security(s, {solo})!Newest(S)
    <2>1. S # {} /\ S \in SUBSET (1..s.codes)
        BY <1>6, <1>t, <1>n DEF Security!ConsumeFind, Security!UnusedFor, Security!Unused,
            Security!Issued
    <2>. HIDE DEF S
    <2>2. i \in S
        BY <2>1, NewestIsOne
    <2>3. otp[i].state = "unused"
        BY <2>2 DEF S, Security!UnusedFor, Security!Unused
    <2>4. PICK right \in BOOLEAN :
              call' = [call EXCEPT ![solo] =
                         [op |-> "confirm", step |-> IF right THEN "use" ELSE "miss",
                          p |-> x.p, i |-> i, attempts |-> otp[i].attempts]]
        BY <1>6 DEF Security!ConsumeFind, S
    <2>. HIDE DEF i
    <2>. DEFINE y == [op |-> "confirm", step |-> IF right THEN "use" ELSE "miss",
                      p |-> x.p, i |-> i, attempts |-> otp[i].attempts]
    <2>5. SecuritySees(y)
        BY <2>3 DEF SecuritySees
    <2>6. UNCHANGED <<pin, twoFactor, otp, tried, spent>>
        BY <1>6 DEF Security!ConsumeFind
    <2>. QED  BY <1>b, <2>4, <2>5, <2>6
(* A good code gets another row, not better than it was. *)
<1>m. ASSUME NEW i \in Code, NEW row \in Otp, otp' = [otp EXCEPT ![i] = row],
             otp[i].state = "unused", row.purpose = otp[i].purpose,
             row.expired = FALSE => otp[i].expired = FALSE,
             spent' \in [Code -> {0, 1}], tried' \in [Code -> 0..MaxAttempts],
             \A j \in Code \ {i} : spent'[j] = spent[j] /\ tried'[j] = tried[j],
             row.state = "unused" => spent'[i] = 0 /\ tried'[i] = row.attempts
      PROVE  IssuedInARow(s)' /\ GoodOnce(s)' /\ AnswersOnRecord(s)'
    <2>1. otp'[i] = row /\ \A j \in Code \ {i} : otp'[j] = otp[j]
        BY <1>m, <1>t
    <2>2. otp[i] # NoRow /\ row # NoRow
        BY <1>m, <1>n, <1>v
    <2>3. Security(s, {solo})!Issued(otp)' = Security(s, {solo})!Issued(otp)
        BY <1>l, <2>1, <2>2
    <2>4. row.expired \in BOOLEAN /\ otp[i].expired \in BOOLEAN
        BY <1>h, <1>m, <1>t, <2>2
    <2>5. GoodOnce(s)'
        <3>1. \A j \in Code : otp'[j].state = "unused" /\ ~otp'[j].expired =>
                  /\ otp[j].state = "unused" /\ ~otp[j].expired
                  /\ otp'[j].purpose = otp[j].purpose
            BY <1>m, <2>1, <2>4
        <3>. QED  BY <1>k, <1>l, <3>1 DEF GoodOnce
    <2>6. AnswersOnRecord(s)'
        BY <1>k, <1>m, <2>1, <2>2 DEF AnswersOnRecord, Code, NoRow
    <2>. QED  BY <1>k, <2>3, <2>5, <2>6 DEF IssuedInARow
<1>7. CASE Security(s, {solo})!ConsumeMiss(solo) \/ Security(s, {solo})!ConsumeUse(solo)
    <2>. DEFINE i == x.i
    <2>1. /\ i \in Code /\ otp[i] \in Otp /\ otp[i].state = "unused"
          /\ x.attempts = otp[i].attempts /\ x.attempts \in Nat /\ x.attempts < MaxAttempts
        BY <1>7, <1>t, <1>k DEF SecurityKnows, SecuritySees, Security!ConsumeMiss,
            Security!ConsumeUse, Code, NoRow
    <2>2. /\ spent \in [Code -> {0, 1}] /\ tried \in [Code -> 0..MaxAttempts]
          /\ spent[i] = 0 /\ tried[i] = otp[i].attempts
        BY <1>k, <2>1 DEF AnswersOnRecord, Code
    <2>3. CASE Security(s, {solo})!ConsumeMiss(solo)
        <3>. DEFINE n == x.attempts + 1
                    st == IF Security(s, {solo})!Burned(n) THEN "used" ELSE otp[i].state
                    row == [otp[i] EXCEPT !.attempts = n, !.state = st]
        <3>1. otp' = [otp EXCEPT ![i] = row]
            BY <1>t, <2>1, <2>3 DEF Security!ConsumeMiss
        <3>2. n \in 0..MaxAttempts /\ st \in {"unused", "used"}
            BY <1>h, <2>1
        <3>3. tried' = [tried EXCEPT ![i] = n] /\ UNCHANGED <<pin, twoFactor, spent>>
            BY <2>1, <2>2, <2>3 DEF Security!ConsumeMiss
        <3>. HIDE DEF st, n
        <3>4. /\ row \in Otp /\ row.purpose = otp[i].purpose /\ row.expired = otp[i].expired
              /\ row.attempts = n
            BY <1>h, <2>1, <3>2
        <3>. HIDE DEF row
        <3>5. tried' \in [Code -> 0..MaxAttempts] /\ tried'[i] = n
              /\ \A j \in Code \ {i} : tried'[j] = tried[j]
            BY <2>1, <2>2, <3>2, <3>3
        <3>6. IssuedInARow(s)' /\ GoodOnce(s)' /\ AnswersOnRecord(s)'
            BY <1>m, <2>1, <2>2, <3>1, <3>3, <3>4, <3>5
        <3>7. call' = [call EXCEPT ![solo] = Security(s, {solo})!Idle]
            BY <2>3 DEF Security!ConsumeMiss
        <3>. QED  BY <1>c, <1>k, <1>o, <3>3, <3>6, <3>7 DEF SecuritySees, Security!TwoFactorHasPin
    <2>4. CASE Security(s, {solo})!ConsumeUse(solo)
        <3>. DEFINE row == [otp[i] EXCEPT !.state = "used"]
                    y == [op |-> "confirmed", step |-> "write", p |-> x.p]
        <3>1. otp' = [otp EXCEPT ![i] = row] /\ UNCHANGED <<pin, twoFactor, tried>>
            BY <1>t, <2>1, <2>4 DEF Security!ConsumeUse
        <3>2. row \in Otp /\ row.purpose = otp[i].purpose /\ row.expired = otp[i].expired
              /\ row.state = "used"
            BY <1>h, <2>1
        <3>. HIDE DEF row
        <3>3. spent' = [spent EXCEPT ![i] = 1]
            BY <2>1, <2>2, <2>4 DEF Security!ConsumeUse
        <3>4. spent' \in [Code -> {0, 1}] /\ \A j \in Code \ {i} : spent'[j] = spent[j]
            BY <2>1, <2>2, <3>3
        <3>5. IssuedInARow(s)' /\ GoodOnce(s)' /\ AnswersOnRecord(s)'
            BY <1>m, <2>1, <2>2, <3>1, <3>2, <3>4
        <3>6. call' = [call EXCEPT ![solo] = y]
            BY <2>4 DEF Security!ConsumeUse
        <3>7. SecuritySees(y)'
            BY DEF SecuritySees
        <3>. QED  BY <1>c, <1>k, <3>1, <3>5, <3>6, <3>7 DEF SecuritySees, Security!TwoFactorHasPin
    <2>. QED  BY <1>7, <2>3, <2>4
<1>8. ASSUME NEW i, Security(s, {solo})!ResetLoad(solo, i)
      PROVE  Rest'
    <2>. DEFINE y == [op |-> "resetPassword", step |-> "write", i |-> i]
    <2>1. SecuritySees(y)
        BY DEF SecuritySees
    <2>. QED  BY <1>8, <1>b, <2>1 DEF Security!ResetLoad
<1>9. CASE Security(s, {solo})!ResetWrite(solo)
    BY <1>9, <1>w, <1>k DEF Security!ResetWrite, Security!TwoFactorHasPin
<1>10. CASE Security(s, {solo})!Abandon(solo)
            /\ UNCHANGED <<pin, twoFactor, otp, mailed, tried, spent>>
    BY <1>10, <1>w, <1>k DEF Security!Abandon, Security!TwoFactorHasPin
<1>e. ASSUME UNCHANGED <<pin, twoFactor, otp, tried, spent, call>>
      PROVE  Rest'
    BY <1>e, <1>u, <1>k DEF SecuritySees, Security!TwoFactorHasPin
<1>11. CASE Security(s, {solo})!Forgot
    BY <1>11, <1>e DEF Security!Forgot
<1>12. CASE Security(s, {solo})!Expire
    <2>1. ASSUME NEW i \in Security(s, {solo})!Live(otp), otp' = [otp EXCEPT ![i].expired = TRUE],
                 UNCHANGED <<pin, twoFactor, tried, spent, call>>
          PROVE  Rest'
        <3>. DEFINE row == [otp[i] EXCEPT !.expired = TRUE]
        <3>1. /\ i \in Code /\ otp[i] \in Otp /\ otp[i].state = "unused"
              /\ otp' = [otp EXCEPT ![i] = row]
            BY <1>t, <1>l, <1>q, <2>1
        <3>2. /\ row \in Otp /\ row.purpose = otp[i].purpose /\ row.expired = TRUE
              /\ row.state = "unused" /\ row.attempts = otp[i].attempts
            BY <1>h, <3>1
        <3>. HIDE DEF row
        <3>3. /\ spent \in [Code -> {0, 1}] /\ tried \in [Code -> 0..MaxAttempts]
              /\ spent[i] = 0 /\ tried[i] = otp[i].attempts
            BY <1>k, <3>1 DEF AnswersOnRecord, Code
        <3>4. IssuedInARow(s)' /\ GoodOnce(s)' /\ AnswersOnRecord(s)'
            BY <1>m, <2>1, <3>1, <3>2, <3>3
        <3>5. \A j \in Code : otp'[j].state = otp[j].state /\ otp'[j].attempts = otp[j].attempts
            BY <1>t, <3>1, <3>2
        <3>6. SecuritySees(call[solo])'
            BY <1>k, <2>1, <3>5 DEF SecuritySees, SecurityKnows, Code
        <3>. QED  BY <1>k, <2>1, <3>4, <3>6 DEF Security!TwoFactorHasPin
    <2>. QED  BY <1>12, <1>e, <2>1 DEF Security!Expire
<1>13. CASE UNCHANGED Security(s, {solo})!vars
    BY <1>13, <1>e DEF Security!vars
<1>. QED  BY <1>1, <1>2, <1>3, <1>4, <1>5, <1>6, <1>7, <1>8, <1>9, <1>10, <1>11, <1>12, <1>13
          DEF Security!Next

-----------------------------------------------------------------------------
(* Clientele, with one handler.  A request decides on rows that exist, and *)
(* what it has found of attachments and commodities is still so.           *)
ClientsKnow(x) ==
    /\ x.op = "attach" =>
          x.w \in Site /\ x.k \in Client /\ Clients!ActiveAttachments(x.k, x.w) = {}
    /\ x.op = "detach" => x.a \in Attachment /\ attach[x.a] # Clients!NoRow
    /\ x.op = "createDeposit" =>
          /\ x.w \in Site /\ x.k \in Client /\ x.g \in Commodity
          /\ x.step \in {"commodity", "file"} => Clients!Linked(x.k, x.w)
          /\ x.step = "file" => <<x.w, x.g>> \in accepts
    /\ x.op = "editDeposit" =>
          /\ x.r \in Deposit /\ receipt[x.r] # Clients!NoRow /\ receipt[x.r] = x.old
          /\ x.w \in Site /\ x.g \in Commodity
          /\ x.step = "write" /\ x.w # x.old.w => <<x.w, x.g>> \in accepts

AttachedOnce ==
    \A a, b \in Attachment :
        /\ attach[a].state = "active" /\ attach[b].state = "active"
        /\ attach[a].client = attach[b].client /\ attach[a].w = attach[b].w
        => a = b

ClientsInv ==
    /\ Clients!TypeOK
    /\ lookups \in [Manager -> 0..LookupLimit + 1]
    /\ DOMAIN call = {solo} /\ ClientsKnow(call[solo])
    /\ AttachedOnce

ClientsHonour == Clients!FiledUnderLink /\ Clients!PlacedWhereAccepted

(* Attachments that are active once can be counted.                        *)
LEMMA AttachmentsCountedOnce ==
    ASSUME Clients!TypeOK, AttachedOnce
    PROVE  Clients!OneActiveAttachment
<1>1. \A S : Clients!Cardinality(S) = Cardinality(S)
    BY DEF Clients!Cardinality, Cardinality
<1>2. ASSUME NEW k \in Client, NEW w \in Site
      PROVE  \A a, b \in Clients!ActiveAttachments(k, w) : a = b
    <2>1. DOMAIN attach = Attachment
        BY DEF Clients!TypeOK
    <2>. QED  BY <2>1 DEF AttachedOnce, Clients!ActiveAttachments, Clients!Rows
<1>. QED  BY <1>1, <1>2, AtMostOne DEF Clients!OneActiveAttachment

(* The client register starts under its invariant.                         *)
LEMMA ClientsInit ==
    ASSUME Clients!Init
    PROVE  ClientsInv
<1>. USE DEF Clients!Init, Clients!NoRow
<1>1. Clients!TypeOK /\ lookups \in [Manager -> 0..LookupLimit + 1]
    BY LookupAssumption DEF Clients!TypeOK
<1>2. DOMAIN call = {solo} /\ ClientsKnow(call[solo])
    BY DEF ClientsKnow, Clients!Idle
<1>3. AttachedOnce
    BY DEF AttachedOnce
<1>. QED  BY <1>1, <1>2, <1>3 DEF ClientsInv

(* One handler at a time keeps the client register under its invariant,    *)
(* and files and places deposits as links allow.                           *)
LEMMA ClientsStep ==
    ASSUME ClientsInv, [Clients!Next]_(Clients!vars)
    PROVE  ClientsInv' /\ ClientsHonour
<1>. DEFINE x == call[solo]
<1>t. /\ assigned \subseteq Manager \X Site
      /\ registrar \in [Client -> Manager \cup {"none"}]
      /\ attach \in [Attachment -> Clients!Attached \cup {Clients!NoRow}]
      /\ accepts \subseteq Site \X Commodity
      /\ receipt \in [Deposit -> Clients!Stored \cup {Clients!NoRow}]
      /\ lookups \in [Manager -> 0..LookupLimit + 1]
    BY DEF ClientsInv, Clients!TypeOK
<1>k. DOMAIN call = {solo} /\ ClientsKnow(x) /\ AttachedOnce
    BY DEF ClientsInv
<1>o. \A y : y.op = "idle" => ClientsKnow(y)
    BY DEF ClientsKnow
<1>i. Clients!Idle.op = "idle"
    BY DEF Clients!Idle
<1>c. ASSUME NEW y, call' = [call EXCEPT ![solo] = y]
      PROVE  DOMAIN call' = {solo} /\ call'[solo] = y
    BY <1>c, <1>k
<1>p. ASSUME NEW y, UNCHANGED <<attach, accepts, receipt>>, ClientsKnow(y)
      PROVE  ClientsKnow(y)'
    BY <1>p DEF ClientsKnow, Clients!ActiveAttachments, Clients!Rows, Clients!Linked,
        Clients!ReceiptsAt, Clients!NoRow
<1>. USE DEF Clients!tables, Clients!Begin, Clients!Return, Clients!Continue, Clients!At,
             Clients!Fresh
(* Only the handler moves: it takes up y. *)
<1>r. ASSUME NEW y, ClientsKnow(y), call' = [call EXCEPT ![solo] = y], UNCHANGED Clients!tables
      PROVE  ClientsInv' /\ ClientsHonour
    <2>1. ClientsKnow(y)' /\ call'[solo] = y /\ DOMAIN call' = {solo}
        BY <1>c, <1>p, <1>r
    <2>2. ClientsKnow(call[solo])'
        BY <2>1 DEF ClientsKnow
    <2>3. AttachedOnce' /\ ClientsHonour
        BY <1>k, <1>r DEF AttachedOnce, ClientsHonour, Clients!FiledUnderLink,
            Clients!PlacedWhereAccepted
    <2>4. Clients!TypeOK' /\ lookups' \in [Manager -> 0..LookupLimit + 1]
        BY <1>r, <1>t DEF Clients!TypeOK
    <2>. QED  BY <2>1, <2>2, <2>3, <2>4 DEF ClientsInv
(* Nobody is at work: the rows of one table change. *)
<1>e. ASSUME Clients!AtOnce, UNCHANGED attach,
             assigned' \subseteq Manager \X Site,
             registrar' \in [Client -> Manager \cup {"none"}],
             accepts' \subseteq Site \X Commodity,
             receipt' \in [Deposit -> Clients!Stored \cup {Clients!NoRow}],
             lookups' \in [Manager -> 0..LookupLimit + 1],
             \A r \in Deposit : /\ receipt'[r] # Clients!NoRow => receipt[r] # Clients!NoRow
                                /\ receipt'[r] # Clients!NoRow => receipt'[r].w = receipt[r].w
      PROVE  ClientsInv' /\ ClientsHonour
    <2>1. DOMAIN call' = {solo} /\ call'[solo] = Clients!Idle
        BY <1>e, <1>k DEF Clients!AtOnce
    <2>2. ClientsKnow(call[solo])'
        BY <1>i, <2>1 DEF ClientsKnow
    <2>3. AttachedOnce' /\ ClientsHonour
        BY <1>e, <1>k DEF AttachedOnce, ClientsHonour, Clients!FiledUnderLink,
            Clients!PlacedWhereAccepted
    <2>4. Clients!TypeOK' /\ lookups' \in [Manager -> 0..LookupLimit + 1]
        BY <1>e, <1>t DEF Clients!TypeOK
    <2>. QED  BY <2>1, <2>2, <2>3, <2>4 DEF ClientsInv
<1>1. CASE Clients!Elsewhere
    <2>1. ASSUME NEW m \in Manager, NEW w \in Site, Clients!Assign(m, w)
          PROVE  ClientsInv' /\ ClientsHonour
        BY <2>1, <1>e, <1>t DEF Clients!Assign
    <2>2. ASSUME NEW m \in Manager, NEW k \in Client, Clients!Register(m, k)
          PROVE  ClientsInv' /\ ClientsHonour
        BY <2>2, <1>e, <1>t DEF Clients!Register
    <2>3. ASSUME NEW w \in Site, NEW g \in Commodity,
                 Clients!AddCommodity(w, g) \/ Clients!RemoveCommodity(w, g)
          PROVE  ClientsInv' /\ ClientsHonour
        BY <2>3, <1>e, <1>t DEF Clients!AddCommodity, Clients!RemoveCommodity
    <2>4. ASSUME NEW r \in Deposit, Clients!LedgerStep(r)
          PROVE  ClientsInv' /\ ClientsHonour
        <3>1. PICK s \in Clients!InWarehouse \cup {"CLOSED"} :
                  receipt' = [receipt EXCEPT ![r] = [receipt[r] EXCEPT !.state = s]]
            BY <2>4, <1>t DEF Clients!LedgerStep
        <3>. DEFINE row == [receipt[r] EXCEPT !.state = s]
        <3>2. receipt[r] \in Clients!Stored
            BY <2>4, <1>t DEF Clients!LedgerStep
        <3>3. row \in Clients!Stored /\ row.w = receipt[r].w
            BY <3>2 DEF Clients!Stored
        <3>. HIDE DEF row
        <3>4. /\ receipt' \in [Deposit -> Clients!Stored \cup {Clients!NoRow}]
              /\ receipt'[r] = row /\ \A q \in Deposit \ {r} : receipt'[q] = receipt[q]
            BY <1>t, <3>1, <3>3 DEF row
        <3>. QED  BY <2>4, <1>e, <1>t, <3>3, <3>4 DEF Clients!LedgerStep
    <2>5. ASSUME NEW m \in Manager, Clients!Lookup(m) \/ Clients!MinutePasses(m)
          PROVE  ClientsInv' /\ ClientsHonour
        <3>1. lookups' \in [Manager -> 0..LookupLimit + 1]
            BY <2>5, <1>t, LookupAssumption DEF Clients!Lookup, Clients!MinutePasses
        <3>. QED  BY <2>5, <1>e, <1>t, <3>1 DEF Clients!Lookup, Clients!MinutePasses
    <2>. QED  BY <1>1, <2>1, <2>2, <2>3, <2>4, <2>5 DEF Clients!Elsewhere
(* A client is attached where it was not. *)
<1>a. ASSUME NEW a \in Attachment, NEW k \in Client, NEW w \in Site, Clients!AttachRow(a, k, w),
             Clients!ActiveAttachments(k, w) = {},
             NEW y, call' = [call EXCEPT ![solo] = y], ClientsKnow(y)',
             UNCHANGED <<assigned, registrar, accepts, receipt, lookups>>
      PROVE  ClientsInv' /\ ClientsHonour
    <2>. DEFINE row == [state |-> "active", client |-> k, w |-> w]
    <2>1. row \in Clients!Attached
        BY DEF Clients!Attached
    <2>2. /\ attach' \in [Attachment -> Clients!Attached \cup {Clients!NoRow}]
          /\ attach'[a] = row /\ \A b \in Attachment \ {a} : attach'[b] = attach[b]
        BY <1>a, <1>t, <2>1 DEF Clients!AttachRow
    <2>3. \A b \in Attachment : attach[b].state = "active" /\ attach[b].client = k => attach[b].w # w
        BY <1>a, <1>t DEF Clients!ActiveAttachments, Clients!Rows, Clients!NoRow
    <2>4. AttachedOnce'
        BY <1>k, <2>2, <2>3 DEF AttachedOnce
    <2>5. ClientsHonour
        BY <1>a DEF ClientsHonour, Clients!FiledUnderLink, Clients!PlacedWhereAccepted
    <2>6. ClientsKnow(call[solo])' /\ DOMAIN call' = {solo}
        BY <1>a, <1>c DEF ClientsKnow
    <2>7. Clients!TypeOK' /\ lookups' \in [Manager -> 0..LookupLimit + 1]
        BY <1>a, <1>t, <2>2 DEF Clients!TypeOK
    <2>. QED  BY <2>4, <2>5, <2>6, <2>7 DEF ClientsInv
(* A receipt gets another row, of a place where its goods are accepted. *)
<1>f. ASSUME NEW r \in Deposit, NEW row \in Clients!Stored, receipt' = [receipt EXCEPT ![r] = row],
             call' = [call EXCEPT ![solo] = Clients!Idle],
             UNCHANGED <<assigned, registrar, attach, accepts, lookups>>,
             receipt[r] = Clients!NoRow => Clients!Linked(row.client, row.w),
             receipt[r] = Clients!NoRow \/ row.w # receipt[r].w => <<row.w, row.g>> \in accepts
      PROVE  ClientsInv' /\ ClientsHonour
    <2>1. /\ receipt' \in [Deposit -> Clients!Stored \cup {Clients!NoRow}]
          /\ receipt'[r] = row /\ \A q \in Deposit \ {r} : receipt'[q] = receipt[q]
        BY <1>f, <1>t
    <2>2. ClientsHonour
        BY <1>f, <2>1 DEF ClientsHonour, Clients!FiledUnderLink, Clients!PlacedWhereAccepted
    <2>3. ClientsKnow(call[solo])' /\ DOMAIN call' = {solo}
        BY <1>c, <1>f, <1>i DEF ClientsKnow
    <2>4. Clients!TypeOK' /\ lookups' \in [Manager -> 0..LookupLimit + 1] /\ AttachedOnce'
        BY <1>f, <1>t, <1>k, <2>1 DEF Clients!TypeOK, AttachedOnce
    <2>. QED  BY <2>2, <2>3, <2>4 DEF ClientsInv
<1>2. CASE Clients!Linking(solo)
    <2>1. ASSUME NEW m, NEW w \in Site, NEW k \in Client, Clients!AttachLoad(solo, m, w, k)
          PROVE  ClientsInv' /\ ClientsHonour
        <3>. DEFINE y == [op |-> "attach", step |-> "insert", w |-> w, k |-> k]
        <3>1. ClientsKnow(y)
            BY <2>1 DEF ClientsKnow, Clients!AttachLoad
        <3>. QED  BY <2>1, <3>1, <1>r DEF Clients!AttachLoad
    <2>2. ASSUME NEW m, NEW a \in Attachment, Clients!DetachLoad(solo, m, a)
          PROVE  ClientsInv' /\ ClientsHonour
        <3>. DEFINE y == [op |-> "detach", step |-> "write", a |-> a]
        <3>1. ClientsKnow(y)
            BY <2>2 DEF ClientsKnow, Clients!DetachLoad
        <3>. QED  BY <2>2, <3>1, <1>r DEF Clients!DetachLoad
    <2>3. ASSUME NEW a \in Attachment, Clients!AttachInsert(solo, a)
          PROVE  ClientsInv' /\ ClientsHonour
        <3>1. /\ x.k \in Client /\ x.w \in Site /\ Clients!ActiveAttachments(x.k, x.w) = {}
              /\ Clients!AttachRow(a, x.k, x.w) /\ call' = [call EXCEPT ![solo] = Clients!Idle]
              /\ UNCHANGED <<assigned, registrar, accepts, receipt, lookups>>
            BY <2>3, <1>k DEF ClientsKnow, Clients!AttachInsert
        <3>2. ClientsKnow(Clients!Idle)'
            BY DEF ClientsKnow, Clients!Idle
        <3>. QED  BY <3>1, <3>2, <1>a
    <2>4. CASE Clients!DetachWrite(solo)
        <3>. DEFINE row == [attach[x.a] EXCEPT !.state = "ended"]
        <3>1. x.a \in Attachment /\ attach[x.a] \in Clients!Attached
            BY <2>4, <1>k, <1>t DEF ClientsKnow, Clients!DetachWrite
        <3>2. row \in Clients!Attached /\ row.state = "ended"
            BY <3>1 DEF Clients!Attached
        <3>3. attach' = [attach EXCEPT ![x.a] = row]
            BY <2>4, <3>1, <1>t DEF Clients!DetachWrite
        <3>. HIDE DEF row
        <3>4. /\ attach' \in [Attachment -> Clients!Attached \cup {Clients!NoRow}]
              /\ attach'[x.a] = row /\ \A b \in Attachment \ {x.a} : attach'[b] = attach[b]
            BY <1>t, <3>1, <3>2, <3>3
        <3>5. AttachedOnce'
            BY <1>k, <3>2, <3>4 DEF AttachedOnce
        <3>6. UNCHANGED <<assigned, registrar, accepts, receipt, lookups>>
            BY <2>4 DEF Clients!DetachWrite
        <3>7. ClientsKnow(call[solo])' /\ DOMAIN call' = {solo}
            BY <2>4, <1>c, <1>i DEF ClientsKnow, Clients!DetachWrite
        <3>8. Clients!TypeOK' /\ lookups' \in [Manager -> 0..LookupLimit + 1]
            BY <3>4, <3>6, <1>t DEF Clients!TypeOK
        <3>9. ClientsHonour
            BY <3>6 DEF ClientsHonour, Clients!FiledUnderLink, Clients!PlacedWhereAccepted
        <3>. QED  BY <3>5, <3>7, <3>8, <3>9 DEF ClientsInv
    <2>. QED  BY <1>2, <2>1, <2>2, <2>3, <2>4 DEF Clients!Linking
<1>3. CASE Clients!Depositing(solo)
    <2>1. ASSUME NEW m, NEW w \in Site, NEW k \in Client, NEW g \in Commodity,
                 Clients!DepositLoad(solo, m, w, k, g)
          PROVE  ClientsInv' /\ ClientsHonour
        <3>. DEFINE y == [op |-> "createDeposit", step |-> "link", m |-> m, w |-> w,
                          k |-> k, g |-> g]
        <3>1. ClientsKnow(y)
            BY DEF ClientsKnow
        <3>. QED  BY <2>1, <3>1, <1>r DEF Clients!DepositLoad
    <2>2. ASSUME NEW r \in Deposit, NEW w \in Site, NEW g \in Commodity,
                 Clients!EditLoad(solo, r, w, g)
          PROVE  ClientsInv' /\ ClientsHonour
        <3>. DEFINE y == [op |-> "editDeposit", step |-> "check", r |-> r,
                          old |-> receipt[r], w |-> w, g |-> g]
        <3>1. ClientsKnow(y)
            BY <2>2 DEF ClientsKnow, Clients!EditLoad
        <3>. QED  BY <2>2, <3>1, <1>r DEF Clients!EditLoad
    <2>3. ASSUME NEW a \in Attachment, Clients!DepositAutoAttach(solo, a)
          PROVE  ClientsInv' /\ ClientsHonour
        <3>0. PICK y : y = [x EXCEPT !.step = "commodity"]
            OBVIOUS
        <3>1. /\ x.op = "createDeposit" /\ x.k \in Client /\ x.w \in Site /\ x.g \in Commodity
              /\ Clients!ActiveAttachments(x.k, x.w) = {}
              /\ Clients!AttachRow(a, x.k, x.w) /\ call' = [call EXCEPT ![solo] = y]
              /\ UNCHANGED <<assigned, registrar, accepts, receipt, lookups>>
            BY <2>3, <3>0, <1>k DEF ClientsKnow, Clients!DepositAutoAttach, Clients!Linked
        <3>2. /\ attach'[a].state = "active" /\ attach'[a].client = x.k /\ attach'[a].w = x.w
              /\ a \in DOMAIN attach'
            BY <3>1, <1>t DEF Clients!AttachRow
        <3>3. attach'[a] # Clients!NoRow
            BY <3>2 DEF Clients!NoRow
        <3>4. /\ y.op = "createDeposit" /\ y.step # "file"
              /\ y.k = x.k /\ y.w = x.w /\ y.g = x.g
            BY <2>3, <3>0, <3>1 DEF Clients!DepositAutoAttach
        <3>5. a \in Clients!ActiveAttachments(y.k, y.w)'
            <4>1. PICK k, w : k = y.k /\ w = y.w
                OBVIOUS
            <4>2. a \in Clients!ActiveAttachments(k, w)'
                BY <3>2, <3>3, <3>4, <4>1 DEF Clients!ActiveAttachments, Clients!Rows, Clients!NoRow
            <4>. QED  BY <4>1, <4>2
        <3>6. Clients!Linked(y.k, y.w)'
            BY <3>5 DEF Clients!Linked
        <3>7. ClientsKnow(y)'
            BY <3>1, <3>4, <3>6 DEF ClientsKnow
        <3>. QED  BY <3>1, <3>7, <1>a
    <2>4. ASSUME NEW r \in Deposit, Clients!DepositFile(solo, r)
          PROVE  ClientsInv' /\ ClientsHonour
        <3>. DEFINE row == [state |-> "PENDING", client |-> x.k, w |-> x.w, g |-> x.g]
        <3>1. /\ row \in Clients!Stored /\ Clients!Linked(row.client, row.w)
              /\ <<row.w, row.g>> \in accepts
            BY <2>4, <1>k DEF Clients!DepositFile, ClientsKnow, Clients!Stored,
                Clients!InWarehouse
        <3>2. receipt' = [receipt EXCEPT ![r] = row]
            BY <2>4 DEF Clients!DepositFile
        <3>. HIDE DEF row
        <3>. QED  BY <2>4, <3>1, <3>2, <1>f DEF Clients!DepositFile
    <2>5. CASE Clients!DepositLinked(solo)
        <3>1. ClientsKnow([x EXCEPT !.step = "commodity"])
            BY <2>5, <1>k DEF ClientsKnow, Clients!DepositLinked
        <3>. QED  BY <2>5, <3>1, <1>r DEF Clients!DepositLinked
    <2>6. CASE Clients!DepositCommodity(solo)
        <3>1. ClientsKnow([x EXCEPT !.step = "file"])
            BY <2>6, <1>k DEF ClientsKnow, Clients!DepositCommodity
        <3>. QED  BY <2>6, <3>1, <1>r DEF Clients!DepositCommodity
    <2>7. CASE Clients!EditCheck(solo)
        <3>1. ClientsKnow([x EXCEPT !.step = "write"])
            BY <2>7, <1>k DEF ClientsKnow, Clients!EditCheck
        <3>. QED  BY <2>7, <3>1, <1>r DEF Clients!EditCheck
    <2>8. CASE Clients!EditWrite(solo)
        <3>. DEFINE row == [receipt[x.r] EXCEPT !.w = x.w, !.g = x.g]
        <3>1. /\ x.r \in Deposit /\ receipt[x.r] # Clients!NoRow /\ receipt[x.r] \in Clients!Stored
              /\ x.w \in Site /\ x.g \in Commodity
              /\ x.w # receipt[x.r].w => <<x.w, x.g>> \in accepts
            BY <2>8, <1>k, <1>t DEF ClientsKnow, Clients!EditWrite
        <3>2. row \in Clients!Stored /\ row.w = x.w /\ row.g = x.g
            BY <3>1 DEF Clients!Stored
        <3>3. receipt' = [receipt EXCEPT ![x.r] = row]
            BY <2>8, <3>1, <1>t DEF Clients!EditWrite
        <3>. HIDE DEF row
        <3>. QED  BY <2>8, <3>1, <3>2, <3>3, <1>f DEF Clients!EditWrite
    <2>. QED  BY <1>3, <2>1, <2>2, <2>3, <2>4, <2>5, <2>6, <2>7, <2>8
              DEF Clients!Depositing, Clients!EditLoadByManager, Clients!EditLoadByAdmin
<1>4. CASE Clients!Abandon(solo) /\ UNCHANGED Clients!tables
    BY <1>4, <1>i, <1>o, <1>r DEF Clients!Abandon
<1>5. CASE UNCHANGED Clients!vars
    <2>1. UNCHANGED <<assigned, registrar, attach, accepts, receipt, lookups, call>>
        BY <1>5 DEF Clients!vars
    <2>2. PICK y : y = x
        OBVIOUS
    <2>3. ClientsKnow(y)'
        BY <1>k, <1>p, <2>1, <2>2
    <2>4. ClientsKnow(call[solo])'
        BY <2>1, <2>2, <2>3 DEF ClientsKnow
    <2>5. Clients!TypeOK' /\ AttachedOnce' /\ ClientsHonour
        BY <2>1, <1>t, <1>k DEF Clients!TypeOK, AttachedOnce, ClientsHonour,
            Clients!FiledUnderLink, Clients!PlacedWhereAccepted
    <2>. QED  BY <2>1, <2>4, <2>5, <1>k DEF ClientsInv
<1>. QED  BY <1>1, <1>2, <1>3, <1>4, <1>5 DEF Clients!Next

-----------------------------------------------------------------------------
(* Enrolment, for a registry s and handlers H.                             *)
RegistryOK(s) ==
    /\ IsFiniteSet(s.name) /\ MaxSuffix \in Nat \ {0} /\ s.directors \in Nat
    /\ "null" \in Photo

(* Both registries have the bounds the proofs need.                        *)
LEMMA RegistriesOK == RegistryOK(Registry) /\ RegistryOK(RacingRegistry)
BY EnrolmentAssumption DEF RegistryOK, Registry, RacingRegistry

(* The login is one a name can have, and the ones before it are taken.     *)
LoginInOrder(s, H, login) ==
    \E name \in s.name, n \in 1..MaxSuffix :
        /\ login = <<name, n>>
        /\ \A k \in 1..(n - 1) : account[<<name, k>>] # Enrolling(s, H)!NoRow

(* What a handler carries, operation by operation.                         *)
EnrolmentKnows(s, H, x) ==
    /\ x.op \in {"createClient", "createManager", "createTenant", "createFinancierOrg",
                 "inviteFinancierUser"} =>
          x.t \in s.tenant /\ LoginInOrder(s, H, x.login)
    /\ x.op = "createClient" =>
          /\ x.nin \in s.nin \cup {"null"} /\ x.photo \in Photo /\ x.n \in {0, 1}
          /\ x.step \in {"check", "insert"} => x.code \in Nat \ {0}
    /\ x.op = "updateClient" =>
          /\ x.l \in Enrolling(s, H)!Login /\ profile[x.l] # Enrolling(s, H)!NoRow
          /\ x.p \in Enrolling(s, H)!Patch
    /\ x.op = "createManager" /\ x.step = "insert" => x.code \in Nat
    /\ x.op = "createTenant" => x.slug \in {s.slug[x.t]} \X (1..MaxSuffix)
    /\ x.op \in {"createFinancierOrg", "updateFinancierOrg"} => x.o \in s.org /\ x.n \in s.brand

EnrolmentCalls(s, H) == DOMAIN call = H /\ \A c \in H : EnrolmentKnows(s, H, call[c])

(* A client's profile has its account.                                     *)
ProfilesHaveAccounts(s, H) ==
    \A l \in Enrolling(s, H)!Login :
        profile[l] # Enrolling(s, H)!NoRow => account[l] # Enrolling(s, H)!NoRow

EnrolmentTables(s, H) ==
    /\ Enrolling(s, H)!TypeOK /\ tenant = [t \in s.tenant |-> tenant[t]]
    /\ ProfilesHaveAccounts(s, H)
    /\ Enrolling(s, H)!SuffixesContiguous /\ Enrolling(s, H)!CodesIssuedOnce

EnrolmentInv(s, H) == EnrolmentTables(s, H) /\ EnrolmentCalls(s, H)

(* Accounts and profiles are never deleted.                                *)
RecordsStay(s, H) ==
    \A l \in Enrolling(s, H)!Login :
        /\ account[l] # Enrolling(s, H)!NoRow => account'[l] # Enrolling(s, H)!NoRow
        /\ profile[l] # Enrolling(s, H)!NoRow => profile'[l] # Enrolling(s, H)!NoRow

(* A login that is in order stays so while accounts are only added.        *)
LEMMA LoginStaysInOrder ==
    ASSUME NEW s, NEW H, RecordsStay(s, H), NEW login, LoginInOrder(s, H, login)
    PROVE  LoginInOrder(s, H, login)'
<1>1. PICK name \in s.name, n \in 1..MaxSuffix :
          /\ login = <<name, n>>
          /\ \A k \in 1..(n - 1) : account[<<name, k>>] # Enrolling(s, H)!NoRow
    BY DEF LoginInOrder
<1>2. \A k \in 1..(n - 1) : k \in 1..MaxSuffix
    <2>1. n \in Int /\ MaxSuffix \in Int
        BY EnrolmentAssumption
    <2>. QED  BY <2>1
<1>3. ASSUME NEW k \in 1..(n - 1) PROVE account'[<<name, k>>] # Enrolling(s, H)!NoRow
    <2>1. PICK l : l = <<name, k>>
        OBVIOUS
    <2>2. l \in Enrolling(s, H)!Login
        BY <1>2, <2>1 DEF Enrolling!Login
    <2>. QED  BY <1>1, <2>1, <2>2 DEF RecordsStay
<1>. QED  BY <1>1, <1>3 DEF LoginInOrder, Enrolling!NoRow

(* What a handler carries stays right while accounts and profiles are only *)
(* added.                                                                  *)
LEMMA KnowledgeStays ==
    ASSUME NEW s, NEW H, RecordsStay(s, H), NEW y, EnrolmentKnows(s, H, y)
    PROVE  EnrolmentKnows(s, H, y)'
<1>1. \A login : LoginInOrder(s, H, login) => LoginInOrder(s, H, login)'
    BY LoginStaysInOrder
<1>2. y.op = "updateClient" => profile'[y.l] # Enrolling(s, H)!NoRow
    BY DEF EnrolmentKnows, RecordsStay
<1>3. y.op \in {"createClient", "createManager", "createTenant", "createFinancierOrg",
                "inviteFinancierUser"} =>
         y.t \in s.tenant /\ LoginInOrder(s, H, y.login)'
    BY <1>1 DEF EnrolmentKnows
<1>. QED  BY <1>2, <1>3 DEF EnrolmentKnows, Enrolling!NoRow, Enrolling!Patch,
              Enrolling!Login, Enrolling!Director

(* What the handlers carry stays right when one of them takes a step and   *)
(* no record is lost.                                                      *)
LEMMA EnrolmentCallsStep ==
    ASSUME NEW s, NEW H, EnrolmentCalls(s, H), RecordsStay(s, H), NEW c \in H,
           NEW x, EnrolmentKnows(s, H, x), call' = [call EXCEPT ![c] = x]
    PROVE  EnrolmentCalls(s, H)'
<1>1. DOMAIN call' = H /\ call'[c] = x /\ \A d \in H \ {c} : call'[d] = call[d]
    BY DEF EnrolmentCalls
<1>2. ASSUME NEW d \in H PROVE EnrolmentKnows(s, H, call[d])'
    <2>1. PICK y : y = call'[d]
        OBVIOUS
    <2>2. EnrolmentKnows(s, H, y)
        BY <1>1, <2>1 DEF EnrolmentCalls
    <2>3. EnrolmentKnows(s, H, y)'
        BY <2>2, KnowledgeStays
    <2>. QED  BY <2>1, <2>3 DEF EnrolmentKnows
<1>. QED  BY <1>1, <1>2 DEF EnrolmentCalls

(* What the handlers carry stays right when a step touches no call.        *)
LEMMA EnrolmentCallsKept ==
    ASSUME NEW s, NEW H, EnrolmentCalls(s, H), RecordsStay(s, H), UNCHANGED call
    PROVE  EnrolmentCalls(s, H)'
<1>1. ASSUME NEW d \in H PROVE EnrolmentKnows(s, H, call[d])'
    <2>1. PICK y : y = call[d]
        OBVIOUS
    <2>2. EnrolmentKnows(s, H, y)'
        BY <2>1, KnowledgeStays DEF EnrolmentCalls
    <2>. QED  BY <2>1, <2>2 DEF EnrolmentKnows
<1>. QED  BY <1>1 DEF EnrolmentCalls

(* The suffix that a service picks is the first that is free.              *)
LEMMA LeastIsFirst ==
    ASSUME NEW s, NEW H, NEW S \in SUBSET (1..MaxSuffix), S # {}
    PROVE  /\ Enrolling(s, H)!Least(S) \in S
           /\ \A k \in 1..(Enrolling(s, H)!Least(S) - 1) : k \notin S
<1>1. S \in SUBSET Nat
    OBVIOUS
<1>2. \E n \in S : \A m \in S : n <= m
    BY <1>1, LeastExists
<1>3. /\ Enrolling(s, H)!Least(S) \in S
      /\ \A m \in S : Enrolling(s, H)!Least(S) <= m
    BY <1>2 DEF Enrolling!Least
<1>4. PICK n : n = Enrolling(s, H)!Least(S)
    OBVIOUS
<1>5. n \in S /\ n \in Nat /\ \A m \in S : n <= m
    BY <1>1, <1>3, <1>4
<1>6. \A k \in 1..(n - 1) : k \notin S
    BY <1>5
<1>. QED  BY <1>4, <1>5, <1>6

(* The login that deriveLoginEmail picks is in order.                      *)
LEMMA FreeLoginIsInOrder ==
    ASSUME NEW s, NEW H, RegistryOK(s), NEW name \in s.name,
           Enrolling(s, H)!FreeLogin(name) # Enrolling(s, H)!NoKey
    PROVE  /\ LoginInOrder(s, H, Enrolling(s, H)!FreeLogin(name))
           /\ account[Enrolling(s, H)!FreeLogin(name)] = Enrolling(s, H)!NoRow
<1>. DEFINE free == {n \in 1..MaxSuffix : account[<<name, n>>] = Enrolling(s, H)!NoRow}
            n == Enrolling(s, H)!Least(free)
<1>1. free # {} /\ free \in SUBSET (1..MaxSuffix)
    BY DEF Enrolling!FreeLogin
<1>2. n \in free /\ \A k \in 1..(n - 1) : k \notin free
    <2>. HIDE DEF free
    <2>. QED  BY <1>1, LeastIsFirst
<1>3. Enrolling(s, H)!FreeLogin(name) = <<name, n>>
    BY <1>1 DEF Enrolling!FreeLogin
<1>4. n \in 1..MaxSuffix /\ \A k \in 1..(n - 1) : k \in 1..MaxSuffix
    <2>1. n \in 1..MaxSuffix
        BY <1>2
    <2>2. MaxSuffix \in Int
        BY DEF RegistryOK
    <2>. HIDE DEF n
    <2>. QED  BY <2>1, <2>2
<1>5. account[<<name, n>>] = Enrolling(s, H)!NoRow
      /\ \A k \in 1..(n - 1) : account[<<name, k>>] # Enrolling(s, H)!NoRow
    BY <1>2, <1>4
<1>. HIDE DEF n, free
<1>. QED  BY <1>3, <1>4, <1>5 DEF LoginInOrder

(* The slug that createTenant picks is one of the tenant's, and free.      *)
LEMMA FreeSlugIsFree ==
    ASSUME NEW s, NEW H, NEW t, Enrolling(s, H)!FreeSlug(t) # Enrolling(s, H)!NoKey
    PROVE  /\ Enrolling(s, H)!FreeSlug(t) \in {s.slug[t]} \X (1..MaxSuffix)
           /\ ~Enrolling(s, H)!SlugTaken(Enrolling(s, H)!FreeSlug(t))
<1>. DEFINE free == {n \in 1..MaxSuffix : ~Enrolling(s, H)!SlugTaken(<<s.slug[t], n>>)}
<1>1. free # {} /\ free \in SUBSET (1..MaxSuffix)
    BY DEF Enrolling!FreeSlug
<1>2. Enrolling(s, H)!FreeSlug(t) = <<s.slug[t], Enrolling(s, H)!Least(free)>>
    BY <1>1 DEF Enrolling!FreeSlug
<1>3. Enrolling(s, H)!Least(free) \in free
    <2>. HIDE DEF free
    <2>. QED  BY <1>1, LeastIsFirst
<1>4. PICK n : n = Enrolling(s, H)!Least(free)
    OBVIOUS
<1>5. n \in 1..MaxSuffix /\ ~Enrolling(s, H)!SlugTaken(<<s.slug[t], n>>)
    BY <1>3, <1>4
<1>. QED  BY <1>2, <1>4, <1>5

(* The tables that are counted are finite.                                 *)
LEMMA CountsAreNumbers ==
    ASSUME NEW s, NEW H, RegistryOK(s), Enrolling(s, H)!TypeOK
    PROVE  /\ \A t : Enrolling(s, H)!ClientCode(t) \in Nat \ {0}
           /\ IsFiniteSet(Enrolling(s, H)!Managers)
           /\ Enrolling(s, H)!ManagerCode = Cardinality(Enrolling(s, H)!Managers) + 1
           /\ Cardinality(Enrolling(s, H)!Managers) \in Nat
<1>1. IsFiniteSet(Enrolling(s, H)!Login)
    <2>1. IsFiniteSet(1..MaxSuffix)
        BY FS_Interval DEF RegistryOK
    <2>. QED  BY <2>1, FS_Product DEF RegistryOK, Enrolling!Login
<1>2. /\ Enrolling(s, H)!Managers \subseteq Enrolling(s, H)!Login
      /\ \A t : Enrolling(s, H)!ClientsOf(t) \subseteq Enrolling(s, H)!Login
    BY DEF Enrolling!TypeOK, Enrolling!Managers, Enrolling!ClientsOf, Enrolling!Rows
<1>3. \A S : S \subseteq Enrolling(s, H)!Login => IsFiniteSet(S) /\ Cardinality(S) \in Nat
    BY <1>1, FS_Subset, FS_CardinalityType
<1>4. \A S : Enrolling(s, H)!Cardinality(S) = Cardinality(S)
    BY DEF Enrolling!Cardinality, Cardinality
<1>. QED  BY <1>2, <1>3, <1>4 DEF Enrolling!ClientCode, Enrolling!ManagerCode

(* A row is not the empty row, a login not the empty key.                  *)
LEMMA RowsAreRows ==
    ASSUME NEW s, NEW H
    PROVE  /\ Enrolling(s, H)!NoRow \notin Enrolling(s, H)!Account
           /\ Enrolling(s, H)!NoRow \notin Enrolling(s, H)!Profile
           /\ Enrolling(s, H)!NoKey \notin Enrolling(s, H)!Login
<1>1. DOMAIN Enrolling(s, H)!NoRow = {"row"}
    BY DEF Enrolling!NoRow
<1>2. \A r \in Enrolling(s, H)!Account : "role" \in DOMAIN r
    BY DEF Enrolling!Account
<1>3. \A r \in Enrolling(s, H)!Profile : "docs" \in DOMAIN r
    BY DEF Enrolling!Profile
<1>4. Enrolling(s, H)!NoKey \notin Enrolling(s, H)!Login
    BY DEF Enrolling!NoKey, Enrolling!Login
<1>. QED  BY <1>1, <1>2, <1>3, <1>4

(* An account is added under the first free login, and a profile with it.  *)
LEMMA RecordsAreAdded ==
    ASSUME NEW s, NEW H, EnrolmentTables(s, H), NEW login, LoginInOrder(s, H, login),
           NEW row \in Enrolling(s, H)!Account, account[login] = Enrolling(s, H)!NoRow,
           account' = [account EXCEPT ![login] = row],
           row.role = "MANAGER" =>
               \A l \in Enrolling(s, H)!Managers : account[l].code # row.code,
           \/ profile' = profile
           \/ \E r \in Enrolling(s, H)!Profile :
                  ~Enrolling(s, H)!CodeTaken(r.code) /\ profile' = [profile EXCEPT ![login] = r],
           tenant' = [t \in s.tenant |-> tenant'[t]],
           \A t \in s.tenant :
               tenant'[t] \in ({s.slug[t]} \X (1..MaxSuffix)) \cup {Enrolling(s, H)!NoKey},
           bearer' \in [s.org -> s.brand \cup {"none"}], issued' \in 0..s.directors
    PROVE  EnrolmentTables(s, H)' /\ RecordsStay(s, H)
<1>. USE RowsAreRows
<1>n. Enrolling(s, H)!NoRow' = Enrolling(s, H)!NoRow
    BY DEF Enrolling!NoRow
<1>l. PICK name \in s.name, n \in 1..MaxSuffix :
          /\ login = <<name, n>>
          /\ \A k \in 1..(n - 1) : account[<<name, k>>] # Enrolling(s, H)!NoRow
    BY DEF LoginInOrder
<1>m. login \in Enrolling(s, H)!Login
    BY <1>l DEF Enrolling!Login
<1>t. /\ account \in [Enrolling(s, H)!Login ->
                          Enrolling(s, H)!Account \cup {Enrolling(s, H)!NoRow}]
      /\ profile \in [Enrolling(s, H)!Login ->
                          Enrolling(s, H)!Profile \cup {Enrolling(s, H)!NoRow}]
    BY DEF EnrolmentTables, Enrolling!TypeOK
<1>a. /\ account' \in [Enrolling(s, H)!Login ->
                           Enrolling(s, H)!Account \cup {Enrolling(s, H)!NoRow}]
      /\ account'[login] = row /\ row # Enrolling(s, H)!NoRow
      /\ \A l \in Enrolling(s, H)!Login \ {login} : account'[l] = account[l]
    BY <1>m, <1>t
<1>p. profile[login] = Enrolling(s, H)!NoRow
    BY <1>m DEF EnrolmentTables, ProfilesHaveAccounts
<1>q. /\ profile' \in [Enrolling(s, H)!Login ->
                           Enrolling(s, H)!Profile \cup {Enrolling(s, H)!NoRow}]
      /\ \A l \in Enrolling(s, H)!Login \ {login} : profile'[l] = profile[l]
      /\ profile'[login] # Enrolling(s, H)!NoRow => ~Enrolling(s, H)!CodeTaken(profile'[login].code)
    BY <1>m, <1>t, <1>p
<1>1. Enrolling(s, H)!TypeOK'
    BY <1>a, <1>q DEF Enrolling!TypeOK, Enrolling!NoRow, Enrolling!NoKey, Enrolling!Login,
        Enrolling!Account, Enrolling!Profile, Enrolling!Director
<1>2. RecordsStay(s, H)
    BY <1>a, <1>p, <1>q DEF RecordsStay
<1>3. ProfilesHaveAccounts(s, H)'
    <2>1. \A l \in Enrolling(s, H)!Login :
              profile'[l] # Enrolling(s, H)!NoRow => account'[l] # Enrolling(s, H)!NoRow
        BY <1>a, <1>q DEF EnrolmentTables, ProfilesHaveAccounts
    <2>. QED  BY <2>1 DEF ProfilesHaveAccounts, Enrolling!Login, Enrolling!NoRow
<1>4. Enrolling(s, H)!SuffixesContiguous'
    <2>1. ASSUME NEW m \in s.name, NEW i \in 2..MaxSuffix,
                 account'[<<m, i>>] # Enrolling(s, H)!NoRow
          PROVE  account'[<<m, i - 1>>] # Enrolling(s, H)!NoRow
        <3>0. i \in Nat /\ i - 1 \in 1..(i - 1) /\ i - 1 \in 1..MaxSuffix
            BY EnrolmentAssumption
        <3>1. <<m, i>> \in Enrolling(s, H)!Login /\ <<m, i - 1>> \in Enrolling(s, H)!Login
            BY <3>0 DEF Enrolling!Login
        <3>2. CASE <<m, i>> = login
            <4>1. m = name /\ i = n
                BY <3>2, <1>l
            <4>2. account[<<m, i - 1>>] # Enrolling(s, H)!NoRow
                BY <1>l, <3>0, <4>1
            <4>. QED  BY <3>1, <4>2, <1>a
        <3>3. CASE <<m, i>> # login
            <4>1. account[<<m, i>>] # Enrolling(s, H)!NoRow
                BY <2>1, <3>1, <3>3, <1>a
            <4>2. account[<<m, i - 1>>] # Enrolling(s, H)!NoRow
                BY <4>1 DEF EnrolmentTables, Enrolling!SuffixesContiguous
            <4>. QED  BY <3>1, <4>2, <1>a
        <3>. QED  BY <3>2, <3>3
    <2>. QED  BY <2>1 DEF Enrolling!SuffixesContiguous, Enrolling!NoRow
<1>5. Enrolling(s, H)!CodesIssuedOnce'
    <2>1. ASSUME NEW k \in Enrolling(s, H)!Login, NEW l \in Enrolling(s, H)!Login,
                 profile'[k] # Enrolling(s, H)!NoRow, profile'[l] # Enrolling(s, H)!NoRow,
                 profile'[k].code = profile'[l].code
          PROVE  k = l
        <3>1. \A i \in Enrolling(s, H)!Login : profile[i] # Enrolling(s, H)!NoRow =>
                  profile'[i] = profile[i] /\ i # login
            BY <1>p, <1>q
        <3>2. \A i \in Enrolling(s, H)!Login :
                  profile[i] # Enrolling(s, H)!NoRow /\ profile'[login] # Enrolling(s, H)!NoRow =>
                      profile[i].code # profile'[login].code
            BY <1>q, <1>t DEF Enrolling!CodeTaken, Enrolling!Rows
        <3>3. \A i, j \in Enrolling(s, H)!Login :
                  /\ profile[i] # Enrolling(s, H)!NoRow /\ profile[j] # Enrolling(s, H)!NoRow
                  /\ profile[i].code = profile[j].code
                  => i = j
            BY <1>t DEF EnrolmentTables, Enrolling!CodesIssuedOnce, Enrolling!Rows
        <3>. QED  BY <2>1, <3>1, <3>2, <3>3, <1>q
    <2>2. ASSUME NEW k \in Enrolling(s, H)!Login, NEW l \in Enrolling(s, H)!Login,
                 account'[k] # Enrolling(s, H)!NoRow, account'[l] # Enrolling(s, H)!NoRow,
                 account'[k].role = "MANAGER", account'[l].role = "MANAGER",
                 account'[k].code = account'[l].code
          PROVE  k = l
        <3>1. \A i \in Enrolling(s, H)!Login :
                  account[i] # Enrolling(s, H)!NoRow /\ account[i].role = "MANAGER" =>
                      i \in Enrolling(s, H)!Managers
            BY <1>t DEF Enrolling!Managers, Enrolling!Rows
        <3>2. \A i, j \in Enrolling(s, H)!Managers : account[i].code = account[j].code => i = j
            BY DEF EnrolmentTables, Enrolling!CodesIssuedOnce
        <3>. QED  BY <2>2, <3>1, <3>2, <1>a
    <2>. QED  BY <1>a, <1>q, <2>1, <2>2 DEF Enrolling!CodesIssuedOnce, Enrolling!Rows,
                  Enrolling!Managers, Enrolling!NoRow
<1>. QED  BY <1>1, <1>2, <1>3, <1>4, <1>5 DEF EnrolmentTables

(* Rows are corrected in place: codes, roles and tenants stay.             *)
LEMMA RecordsAreCorrected ==
    ASSUME NEW s, NEW H, EnrolmentTables(s, H), UNCHANGED <<tenant, bearer>>,
           account' \in [Enrolling(s, H)!Login ->
                             Enrolling(s, H)!Account \cup {Enrolling(s, H)!NoRow}],
           profile' \in [Enrolling(s, H)!Login ->
                             Enrolling(s, H)!Profile \cup {Enrolling(s, H)!NoRow}],
           issued' \in 0..s.directors,
           \A l \in Enrolling(s, H)!Login :
               /\ account'[l] = Enrolling(s, H)!NoRow <=> account[l] = Enrolling(s, H)!NoRow
               /\ profile'[l] = Enrolling(s, H)!NoRow <=> profile[l] = Enrolling(s, H)!NoRow
               /\ account[l] # Enrolling(s, H)!NoRow =>
                      account'[l].code = account[l].code /\ account'[l].role = account[l].role
               /\ profile[l] # Enrolling(s, H)!NoRow => profile'[l].code = profile[l].code
    PROVE  EnrolmentTables(s, H)' /\ RecordsStay(s, H)
<1>t. /\ account \in [Enrolling(s, H)!Login ->
                          Enrolling(s, H)!Account \cup {Enrolling(s, H)!NoRow}]
      /\ profile \in [Enrolling(s, H)!Login ->
                          Enrolling(s, H)!Profile \cup {Enrolling(s, H)!NoRow}]
    BY DEF EnrolmentTables, Enrolling!TypeOK
<1>1. Enrolling(s, H)!TypeOK' /\ tenant' = [t \in s.tenant |-> tenant'[t]]
    BY DEF EnrolmentTables, Enrolling!TypeOK, Enrolling!NoRow, Enrolling!NoKey, Enrolling!Login,
        Enrolling!Account, Enrolling!Profile, Enrolling!Director
<1>2. RecordsStay(s, H)
    BY DEF RecordsStay
<1>3. ProfilesHaveAccounts(s, H)'
    <2>1. \A l \in Enrolling(s, H)!Login :
              profile'[l] # Enrolling(s, H)!NoRow => account'[l] # Enrolling(s, H)!NoRow
        BY DEF EnrolmentTables, ProfilesHaveAccounts
    <2>. QED  BY <2>1 DEF ProfilesHaveAccounts, Enrolling!Login, Enrolling!NoRow
<1>4. Enrolling(s, H)!SuffixesContiguous'
    <2>1. ASSUME NEW m \in s.name, NEW i \in 2..MaxSuffix,
                 account'[<<m, i>>] # Enrolling(s, H)!NoRow
          PROVE  account'[<<m, i - 1>>] # Enrolling(s, H)!NoRow
        <3>0. i \in Nat /\ i \in 1..MaxSuffix /\ i - 1 \in 1..MaxSuffix
            BY EnrolmentAssumption
        <3>1. <<m, i>> \in Enrolling(s, H)!Login /\ <<m, i - 1>> \in Enrolling(s, H)!Login
            BY <3>0 DEF Enrolling!Login
        <3>2. account[<<m, i>>] # Enrolling(s, H)!NoRow
            BY <2>1, <3>1
        <3>3. account[<<m, i - 1>>] # Enrolling(s, H)!NoRow
            BY <3>2 DEF EnrolmentTables, Enrolling!SuffixesContiguous
        <3>. QED  BY <3>1, <3>3
    <2>. QED  BY <2>1 DEF Enrolling!SuffixesContiguous, Enrolling!NoRow
<1>5. Enrolling(s, H)!CodesIssuedOnce'
    <2>1. \A k, l \in Enrolling(s, H)!Login :
              /\ profile'[k] # Enrolling(s, H)!NoRow /\ profile'[l] # Enrolling(s, H)!NoRow
              /\ profile'[k].code = profile'[l].code
              => k = l
        BY <1>t DEF EnrolmentTables, Enrolling!CodesIssuedOnce, Enrolling!Rows
    <2>2. \A k, l \in Enrolling(s, H)!Login :
              /\ account'[k] # Enrolling(s, H)!NoRow /\ account'[l] # Enrolling(s, H)!NoRow
              /\ account'[k].role = "MANAGER" /\ account'[l].role = "MANAGER"
              /\ account'[k].code = account'[l].code
              => k = l
        BY <1>t DEF EnrolmentTables, Enrolling!CodesIssuedOnce, Enrolling!Managers, Enrolling!Rows
    <2>. QED  BY <2>1, <2>2 DEF Enrolling!CodesIssuedOnce, Enrolling!Rows,
                  Enrolling!Managers, Enrolling!NoRow
<1>. QED  BY <1>1, <1>2, <1>3, <1>4, <1>5 DEF EnrolmentTables

(* The registry starts under the invariant.                                *)
LEMMA EnrolmentInit ==
    ASSUME NEW s, NEW H, RegistryOK(s), Enrolling(s, H)!Init
    PROVE  EnrolmentInv(s, H)
<1>. USE DEF Enrolling!Init, Enrolling!NoRow, Enrolling!NoKey
<1>1. Enrolling(s, H)!TypeOK /\ tenant = [t \in s.tenant |-> tenant[t]]
    BY DEF Enrolling!TypeOK, RegistryOK
<1>2. EnrolmentCalls(s, H)
    BY DEF EnrolmentCalls, EnrolmentKnows, Enrolling!Idle
<1>3. ProfilesHaveAccounts(s, H)
    BY DEF ProfilesHaveAccounts
<1>4. Enrolling(s, H)!SuffixesContiguous
    <2>1. \A name \in s.name, n \in 2..MaxSuffix : <<name, n>> \in Enrolling(s, H)!Login
        BY EnrolmentAssumption DEF Enrolling!Login
    <2>. QED  BY <2>1 DEF Enrolling!SuffixesContiguous
<1>5. Enrolling(s, H)!CodesIssuedOnce
    BY DEF Enrolling!CodesIssuedOnce, Enrolling!Rows, Enrolling!Managers
<1>. QED  BY <1>1, <1>2, <1>3, <1>4, <1>5 DEF EnrolmentInv, EnrolmentTables

(* A handler that is idle carries nothing.                                 *)
LEMMA IdleKnows == ASSUME NEW s, NEW H PROVE EnrolmentKnows(s, H, Enrolling(s, H)!Idle)
BY DEF EnrolmentKnows, Enrolling!Idle

(* However the handlers overlap, the invariant is kept; no row is lost.    *)
LEMMA EnrolmentStep ==
    ASSUME NEW s, NEW H, RegistryOK(s), EnrolmentInv(s, H),
           [Enrolling(s, H)!Next]_(Enrolling(s, H)!vars)
    PROVE  EnrolmentInv(s, H)'
<1>t. /\ account \in [Enrolling(s, H)!Login ->
                          Enrolling(s, H)!Account \cup {Enrolling(s, H)!NoRow}]
      /\ profile \in [Enrolling(s, H)!Login ->
                          Enrolling(s, H)!Profile \cup {Enrolling(s, H)!NoRow}]
      /\ tenant = [t \in s.tenant |-> tenant[t]]
      /\ \A t \in s.tenant :
             tenant[t] \in ({s.slug[t]} \X (1..MaxSuffix)) \cup {Enrolling(s, H)!NoKey}
      /\ bearer \in [s.org -> s.brand \cup {"none"}] /\ issued \in 0..s.directors
      /\ EnrolmentTables(s, H) /\ Enrolling(s, H)!TypeOK
    BY DEF EnrolmentInv, EnrolmentTables, Enrolling!TypeOK
<1>k. \A c \in H : EnrolmentKnows(s, H, call[c])
    BY DEF EnrolmentInv, EnrolmentCalls
<1>f. /\ \A n \in s.name : Enrolling(s, H)!FreeLogin(n) # Enrolling(s, H)!NoKey =>
             LoginInOrder(s, H, Enrolling(s, H)!FreeLogin(n))
      /\ \A t : Enrolling(s, H)!ClientCode(t) \in Nat \ {0}
      /\ Enrolling(s, H)!ManagerCode \in Nat
    BY <1>t, FreeLoginIsInOrder, CountsAreNumbers
<1>n. issued \in Nat /\ s.directors \in Nat
    BY <1>t DEF RegistryOK
<1>. USE DEF Enrolling!Begin, Enrolling!Continue, Enrolling!Return, Enrolling!At
(* Only a handler moves: it takes up y. *)
<1>r. ASSUME NEW c \in H, NEW y, EnrolmentKnows(s, H, y), call' = [call EXCEPT ![c] = y],
             UNCHANGED Enrolling(s, H)!tables
      PROVE  EnrolmentInv(s, H)'
    <2>1. EnrolmentTables(s, H)' /\ RecordsStay(s, H)
        BY <1>r, <1>t, RecordsAreCorrected DEF Enrolling!tables
    <2>. QED  BY <1>r, <2>1, EnrolmentCallsStep DEF EnrolmentInv
(* A handler is done: the tables changed for the better. *)
<1>d. ASSUME NEW c \in H, call' = [call EXCEPT ![c] = Enrolling(s, H)!Idle],
             EnrolmentTables(s, H)', RecordsStay(s, H)
      PROVE  EnrolmentInv(s, H)'
    BY <1>d, IdleKnows, EnrolmentCallsStep DEF EnrolmentInv
<1>1. ASSUME NEW c \in H, Enrolling(s, H)!Clients(c)
      PROVE  EnrolmentInv(s, H)'
    <2>1. ASSUME NEW t \in s.tenant, NEW name \in s.name, NEW nin \in s.nin \cup {"null"},
                 NEW photo \in Photo \ {"empty"}, NEW hasDirector \in BOOLEAN,
                 Enrolling(s, H)!CreateClientLoad(c, t, name, nin, photo, hasDirector)
          PROVE  EnrolmentInv(s, H)'
        <3>. DEFINE y == [op |-> "createClient", step |-> "code", t |-> t,
                          login |-> Enrolling(s, H)!FreeLogin(name), code |-> 0, nin |-> nin,
                          photo |-> photo, n |-> IF hasDirector THEN 1 ELSE 0]
        <3>1. EnrolmentKnows(s, H, y)
            BY <2>1, <1>f DEF EnrolmentKnows, Enrolling!CreateClientLoad
        <3>. QED  BY <2>1, <3>1, <1>r DEF Enrolling!CreateClientLoad
    <2>2. CASE Enrolling(s, H)!CreateClientCode(c)
        <3>1. PICK y : y = [call[c] EXCEPT !.step = "check",
                                           !.code = Enrolling(s, H)!ClientCode(call[c].t)]
            OBVIOUS
        <3>2. EnrolmentKnows(s, H, y)
            BY <2>2, <3>1, <1>f, <1>k DEF EnrolmentKnows, Enrolling!CreateClientCode
        <3>. QED  BY <2>2, <3>1, <3>2, <1>r DEF Enrolling!CreateClientCode
    <2>3. CASE Enrolling(s, H)!CreateClientCheck(c)
        <3>1. PICK y : y = [call[c] EXCEPT !.step = "insert"]
            OBVIOUS
        <3>2. EnrolmentKnows(s, H, y)
            BY <2>3, <3>1, <1>k DEF EnrolmentKnows, Enrolling!CreateClientCheck
        <3>. QED  BY <2>3, <3>1, <3>2, <1>r DEF Enrolling!CreateClientCheck
    <2>4. CASE Enrolling(s, H)!CreateClientInsert(c)
        <3>. DEFINE x == call[c]
                    fresh == (issued + 1)..(issued + x.n)
                    row == [tenant |-> x.t, role |-> "CLIENT", code |-> 0, photo |-> x.photo]
                    prow == [tenant |-> x.t, code |-> x.code, nin |-> x.nin, photo |-> x.photo,
                             directors |-> fresh, docs |-> fresh]
        <3>1. /\ x.t \in s.tenant /\ LoginInOrder(s, H, x.login) /\ x.n \in {0, 1}
              /\ x.nin \in s.nin \cup {"null"} /\ x.photo \in Photo /\ x.code \in Nat \ {0}
            BY <2>4, <1>k DEF EnrolmentKnows, Enrolling!CreateClientInsert
        <3>2. fresh \subseteq 1..s.directors /\ issued + x.n \in 0..s.directors
            BY <2>4, <3>1, <1>n DEF Enrolling!CreateClientInsert
        <3>3. row \in Enrolling(s, H)!Account /\ prow \in Enrolling(s, H)!Profile
            BY <3>1, <3>2 DEF Enrolling!Account, Enrolling!Profile, Enrolling!Director
        <3>4. /\ account[x.login] = Enrolling(s, H)!NoRow
              /\ ~Enrolling(s, H)!CodeTaken(prow.code) /\ row.role # "MANAGER"
              /\ account' = [account EXCEPT ![x.login] = row]
              /\ profile' = [profile EXCEPT ![x.login] = prow]
              /\ issued' = issued + x.n /\ UNCHANGED <<tenant, bearer>>
              /\ call' = [call EXCEPT ![c] = Enrolling(s, H)!Idle]
            BY <2>4 DEF Enrolling!CreateClientInsert
        <3>. HIDE DEF row, prow, fresh, x
        <3>5. EnrolmentTables(s, H)' /\ RecordsStay(s, H)
            BY <3>1, <3>2, <3>3, <3>4, <1>t, RecordsAreAdded
        <3>. QED  BY <3>4, <3>5, <1>d
    <2>5. ASSUME NEW l \in Enrolling(s, H)!Rows(profile), NEW p \in Enrolling(s, H)!Patch,
                 Enrolling(s, H)!UpdateClientLoad(c, l, p)
          PROVE  EnrolmentInv(s, H)'
        <3>. DEFINE y == [op |-> "updateClient", step |-> "check", l |-> l, p |-> p]
        <3>1. l \in Enrolling(s, H)!Login /\ profile[l] # Enrolling(s, H)!NoRow
            BY <1>t DEF Enrolling!Rows
        <3>2. EnrolmentKnows(s, H, y)
            BY <3>1 DEF EnrolmentKnows
        <3>. QED  BY <2>5, <3>2, <1>r DEF Enrolling!UpdateClientLoad
    <2>6. CASE Enrolling(s, H)!UpdateClientCheck(c)
        <3>1. PICK y : y = [call[c] EXCEPT !.step = "write"]
            OBVIOUS
        <3>2. EnrolmentKnows(s, H, y)
            BY <2>6, <3>1, <1>k DEF EnrolmentKnows, Enrolling!UpdateClientCheck
        <3>. QED  BY <2>6, <3>1, <3>2, <1>r DEF Enrolling!UpdateClientCheck
    <2>7. CASE Enrolling(s, H)!UpdateClientWrite(c)
        <3>0. PICK l, p : l = call[c].l /\ p = call[c].p
            OBVIOUS
        <3>. DEFINE old == profile[l]
                    fresh == IF p.directors = "replace" THEN {issued + 1} ELSE {}
                    row == [account[l] EXCEPT !.photo = IF p.photo = "keep" THEN @
                                                       ELSE Enrolling(s, H)!Normal(p.photo)]
                    prow == [old EXCEPT
                       !.nin = IF p.nin = "keep" THEN @ ELSE p.nin,
                       !.photo = IF p.photo = "keep" THEN @ ELSE p.photo,
                       !.directors = IF p.directors = "keep" THEN @ ELSE fresh,
                       !.docs = Enrolling(s, H)!DocsAfter(old, p, fresh)]
        <3>1. /\ l \in Enrolling(s, H)!Login /\ profile[l] # Enrolling(s, H)!NoRow
              /\ p \in Enrolling(s, H)!Patch
            BY <2>7, <3>0, <1>k DEF EnrolmentKnows, Enrolling!UpdateClientWrite
        <3>2. /\ issued + Enrolling(s, H)!Cardinality(fresh) <= s.directors
              /\ account' = [account EXCEPT ![l].photo =
                    IF p.photo = "keep" THEN @ ELSE Enrolling(s, H)!Normal(p.photo)]
              /\ profile' = [profile EXCEPT ![l] = prow]
              /\ issued' = issued + Enrolling(s, H)!Cardinality(fresh)
              /\ UNCHANGED <<tenant, bearer>>
              /\ call' = [call EXCEPT ![c] = Enrolling(s, H)!Idle]
            BY <2>7, <3>0 DEF Enrolling!UpdateClientWrite
        <3>3. fresh \subseteq 1..s.directors /\ issued' \in 0..s.directors
            <4>1. \A S : Enrolling(s, H)!Cardinality(S) = Cardinality(S)
                BY DEF Enrolling!Cardinality, Cardinality
            <4>2. Cardinality(fresh) = IF p.directors = "replace" THEN 1 ELSE 0
                BY FS_Singleton, FS_EmptySet
            <4>3. issued + (IF p.directors = "replace" THEN 1 ELSE 0) <= s.directors
                  /\ issued' = issued + (IF p.directors = "replace" THEN 1 ELSE 0)
                BY <3>2, <4>1, <4>2
            <4>. QED  BY <4>3, <1>n
        <3>4. account[l] \in Enrolling(s, H)!Account /\ old \in Enrolling(s, H)!Profile
            BY <3>1, <1>t DEF EnrolmentTables, ProfilesHaveAccounts
        <3>5. row \in Enrolling(s, H)!Account /\ row.code = account[l].code
              /\ row.role = account[l].role
            BY <3>1, <3>4 DEF Enrolling!Account, Enrolling!Normal, Enrolling!Patch, RegistryOK
        <3>6. Enrolling(s, H)!DocsAfter(old, p, fresh) \in SUBSET Enrolling(s, H)!Director
            BY <3>1, <3>3, <3>4 DEF Enrolling!DocsAfter, Enrolling!Patch, Enrolling!Profile,
                Enrolling!Director
        <3>7. prow \in Enrolling(s, H)!Profile /\ prow.code = old.code
            BY <3>1, <3>3, <3>4, <3>6 DEF Enrolling!Profile, Enrolling!Patch, Enrolling!Director
        <3>8. account' = [account EXCEPT ![l] = row]
            BY <3>2
        <3>. HIDE DEF row, prow, fresh
        <3>9. /\ account' \in [Enrolling(s, H)!Login ->
                                   Enrolling(s, H)!Account \cup {Enrolling(s, H)!NoRow}]
              /\ profile' \in [Enrolling(s, H)!Login ->
                                   Enrolling(s, H)!Profile \cup {Enrolling(s, H)!NoRow}]
              /\ account'[l] = row /\ profile'[l] = prow
              /\ \A k \in Enrolling(s, H)!Login \ {l} :
                     account'[k] = account[k] /\ profile'[k] = profile[k]
            BY <3>1, <3>2, <3>5, <3>7, <3>8, <1>t
        <3>10. EnrolmentTables(s, H)' /\ RecordsStay(s, H)
            <4>1. \A k \in Enrolling(s, H)!Login :
                     /\ account'[k] = Enrolling(s, H)!NoRow <=> account[k] = Enrolling(s, H)!NoRow
                     /\ profile'[k] = Enrolling(s, H)!NoRow <=> profile[k] = Enrolling(s, H)!NoRow
                     /\ account[k] # Enrolling(s, H)!NoRow =>
                            account'[k].code = account[k].code /\ account'[k].role = account[k].role
                     /\ profile[k] # Enrolling(s, H)!NoRow => profile'[k].code = profile[k].code
                BY <3>1, <3>4, <3>5, <3>7, <3>9, RowsAreRows
            <4>. QED  BY <3>2, <3>3, <3>9, <4>1, <1>t, RecordsAreCorrected
        <3>. QED  BY <3>2, <3>10, <1>d
    <2>. QED  BY <1>1, <2>1, <2>2, <2>3, <2>4, <2>5, <2>6, <2>7 DEF Enrolling!Clients
(* An account without a profile. *)
<1>a. ASSUME NEW c \in H, NEW role \in {"STAFF", "MANAGER", "FINANCIER"}, NEW code \in Nat,
             call[c].t \in s.tenant, LoginInOrder(s, H, call[c].login),
             Enrolling(s, H)!NewAccount(call[c], role, code),
             role = "MANAGER" => \A l \in Enrolling(s, H)!Managers : account[l].code # code,
             call' = [call EXCEPT ![c] = Enrolling(s, H)!Idle], UNCHANGED <<profile, issued>>,
             tenant' = [t \in s.tenant |-> tenant'[t]],
             \A t \in s.tenant :
                 tenant'[t] \in ({s.slug[t]} \X (1..MaxSuffix)) \cup {Enrolling(s, H)!NoKey},
             bearer' \in [s.org -> s.brand \cup {"none"}]
      PROVE  EnrolmentInv(s, H)'
    <2>. DEFINE row == [tenant |-> call[c].t, role |-> role, code |-> code, photo |-> "null"]
    <2>1. row \in Enrolling(s, H)!Account
        BY <1>a DEF Enrolling!Account, RegistryOK
    <2>2. /\ account' = [account EXCEPT ![call[c].login] = row]
          /\ account[call[c].login] = Enrolling(s, H)!NoRow /\ row.role = role /\ row.code = code
        BY <1>a DEF Enrolling!NewAccount
    <2>3. PICK login : login = call[c].login
        OBVIOUS
    <2>. HIDE DEF row
    <2>4. EnrolmentTables(s, H)' /\ RecordsStay(s, H)
        BY <1>a, <1>t, <2>1, <2>2, <2>3, RecordsAreAdded
    <2>. QED  BY <1>a, <1>d, <2>4
<1>2. ASSUME NEW c \in H, Enrolling(s, H)!Staff(c)
      PROVE  EnrolmentInv(s, H)'
    <2>1. ASSUME NEW t \in s.tenant, NEW name \in s.name,
                 Enrolling(s, H)!CreateManagerLoad(c, t, name)
          PROVE  EnrolmentInv(s, H)'
        <3>. DEFINE y == [op |-> "createManager", step |-> "code", t |-> t,
                          login |-> Enrolling(s, H)!FreeLogin(name), code |-> 0]
        <3>1. EnrolmentKnows(s, H, y)
            BY <2>1, <1>f DEF EnrolmentKnows, Enrolling!CreateManagerLoad
        <3>. QED  BY <2>1, <3>1, <1>r DEF Enrolling!CreateManagerLoad
    <2>2. ASSUME NEW t \in s.tenant, NEW name \in s.name,
                 Enrolling(s, H)!CreateTenantLoad(c, t, name)
          PROVE  EnrolmentInv(s, H)'
        <3>. DEFINE y == [op |-> "createTenant", step |-> "insert", t |-> t,
                          slug |-> Enrolling(s, H)!FreeSlug(t),
                          login |-> Enrolling(s, H)!FreeLogin(name)]
        <3>1. Enrolling(s, H)!FreeSlug(t) \in {s.slug[t]} \X (1..MaxSuffix)
            BY <2>2, FreeSlugIsFree DEF Enrolling!CreateTenantLoad
        <3>2. EnrolmentKnows(s, H, y)
            BY <2>2, <3>1, <1>f DEF EnrolmentKnows, Enrolling!CreateTenantLoad
        <3>. QED  BY <2>2, <3>2, <1>r DEF Enrolling!CreateTenantLoad
    <2>3. CASE Enrolling(s, H)!CreateManagerCode(c)
        <3>1. PICK y : y = [call[c] EXCEPT !.step = "insert", !.code = Enrolling(s, H)!ManagerCode]
            OBVIOUS
        <3>2. EnrolmentKnows(s, H, y)
            BY <2>3, <3>1, <1>f, <1>k DEF EnrolmentKnows, Enrolling!CreateManagerCode
        <3>. QED  BY <2>3, <3>1, <3>2, <1>r DEF Enrolling!CreateManagerCode
    <2>4. CASE Enrolling(s, H)!CreateManagerInsert(c)
        <3>1. call[c].t \in s.tenant /\ LoginInOrder(s, H, call[c].login) /\ call[c].code \in Nat
            BY <2>4, <1>k DEF EnrolmentKnows, Enrolling!CreateManagerInsert
        <3>. QED  BY <2>4, <3>1, <1>a, <1>t DEF Enrolling!CreateManagerInsert
    <2>5. CASE Enrolling(s, H)!CreateTenantInsert(c)
        <3>1. /\ call[c].t \in s.tenant /\ LoginInOrder(s, H, call[c].login)
              /\ call[c].slug \in {s.slug[call[c].t]} \X (1..MaxSuffix)
            BY <2>5, <1>k DEF EnrolmentKnows, Enrolling!CreateTenantInsert
        <3>2. /\ tenant' = [t \in s.tenant |-> tenant'[t]]
              /\ \A t \in s.tenant :
                     tenant'[t] \in ({s.slug[t]} \X (1..MaxSuffix)) \cup {Enrolling(s, H)!NoKey}
            BY <2>5, <3>1, <1>t DEF Enrolling!CreateTenantInsert
        <3>3. Enrolling(s, H)!NewAccount(call[c], "STAFF", 0) /\ UNCHANGED <<bearer, profile, issued>>
              /\ call' = [call EXCEPT ![c] = Enrolling(s, H)!Idle]
            BY <2>5 DEF Enrolling!CreateTenantInsert
        <3>. QED  BY <3>1, <3>2, <3>3, <1>a, <1>t
    <2>. QED  BY <1>2, <2>1, <2>2, <2>3, <2>4, <2>5 DEF Enrolling!Staff
<1>3. ASSUME NEW c \in H, Enrolling(s, H)!Financiers(c)
      PROVE  EnrolmentInv(s, H)'
    <2>1. ASSUME NEW o \in s.org, NEW n \in s.brand, Enrolling(s, H)!RenameOrgLoad(c, o, n)
          PROVE  EnrolmentInv(s, H)'
        <3>. DEFINE y == [op |-> "updateFinancierOrg", step |-> "write", o |-> o, n |-> n]
        <3>1. EnrolmentKnows(s, H, y)
            BY DEF EnrolmentKnows
        <3>. QED  BY <2>1, <3>1, <1>r DEF Enrolling!RenameOrgLoad
    <2>2. ASSUME NEW o \in s.org, NEW n \in s.brand, NEW name \in s.name, NEW t \in s.tenant,
                 Enrolling(s, H)!CreateOrgLoad(c, o, n, name, t)
          PROVE  EnrolmentInv(s, H)'
        <3>. DEFINE y == [op |-> "createFinancierOrg", step |-> "insert", o |-> o, n |-> n,
                          login |-> Enrolling(s, H)!FreeLogin(name), t |-> t]
        <3>1. EnrolmentKnows(s, H, y)
            BY <2>2, <1>f DEF EnrolmentKnows, Enrolling!CreateOrgLoad
        <3>. QED  BY <2>2, <3>1, <1>r DEF Enrolling!CreateOrgLoad
    <2>3. ASSUME NEW o \in s.org, NEW name \in s.name, NEW t \in s.tenant,
                 Enrolling(s, H)!InviteLoad(c, o, name, t)
          PROVE  EnrolmentInv(s, H)'
        <3>. DEFINE y == [op |-> "inviteFinancierUser", step |-> "insert",
                          login |-> Enrolling(s, H)!FreeLogin(name), t |-> t]
        <3>1. EnrolmentKnows(s, H, y)
            BY <2>3, <1>f DEF EnrolmentKnows, Enrolling!InviteLoad
        <3>. QED  BY <2>3, <3>1, <1>r DEF Enrolling!InviteLoad
    <2>4. CASE Enrolling(s, H)!CreateOrgInsert(c)
        <3>1. /\ call[c].t \in s.tenant /\ LoginInOrder(s, H, call[c].login)
              /\ call[c].o \in s.org /\ call[c].n \in s.brand
            BY <2>4, <1>k DEF EnrolmentKnows, Enrolling!CreateOrgInsert
        <3>2. bearer' \in [s.org -> s.brand \cup {"none"}]
            BY <2>4, <3>1, <1>t DEF Enrolling!CreateOrgInsert
        <3>3. Enrolling(s, H)!NewAccount(call[c], "FINANCIER", 0)
              /\ UNCHANGED <<tenant, profile, issued>>
              /\ call' = [call EXCEPT ![c] = Enrolling(s, H)!Idle]
            BY <2>4 DEF Enrolling!CreateOrgInsert
        <3>. QED  BY <3>1, <3>2, <3>3, <1>a, <1>t
    <2>5. CASE Enrolling(s, H)!RenameOrgWrite(c)
        <3>1. call[c].o \in s.org /\ call[c].n \in s.brand
            BY <2>5, <1>k DEF EnrolmentKnows, Enrolling!RenameOrgWrite
        <3>2. /\ bearer' \in [s.org -> s.brand \cup {"none"}]
              /\ UNCHANGED <<tenant, account, profile, issued>>
              /\ call' = [call EXCEPT ![c] = Enrolling(s, H)!Idle]
            BY <2>5, <3>1, <1>t DEF Enrolling!RenameOrgWrite
        <3>3. Enrolling(s, H)!TypeOK'
            BY <3>2, <1>t DEF Enrolling!TypeOK, Enrolling!NoRow, Enrolling!NoKey,
                Enrolling!Login, Enrolling!Account, Enrolling!Profile, Enrolling!Director
        <3>4. EnrolmentTables(s, H)' /\ RecordsStay(s, H)
            BY <3>2, <3>3, <1>t DEF EnrolmentTables, ProfilesHaveAccounts,
                Enrolling!SuffixesContiguous, Enrolling!CodesIssuedOnce, RecordsStay,
                Enrolling!NoRow, Enrolling!NoKey, Enrolling!Login, Enrolling!Rows,
                Enrolling!Managers
        <3>. QED  BY <3>2, <3>4, <1>d
    <2>6. CASE Enrolling(s, H)!InviteInsert(c)
        <3>1. call[c].t \in s.tenant /\ LoginInOrder(s, H, call[c].login)
            BY <2>6, <1>k DEF EnrolmentKnows, Enrolling!InviteInsert
        <3>2. Enrolling(s, H)!NewAccount(call[c], "FINANCIER", 0)
              /\ UNCHANGED <<tenant, bearer, profile, issued>>
              /\ call' = [call EXCEPT ![c] = Enrolling(s, H)!Idle]
            BY <2>6 DEF Enrolling!InviteInsert
        <3>. QED  BY <3>1, <3>2, <1>a, <1>t
    <2>. QED  BY <1>3, <2>1, <2>2, <2>3, <2>4, <2>5, <2>6 DEF Enrolling!Financiers
<1>4. ASSUME NEW c \in H, Enrolling(s, H)!Abandon(c), UNCHANGED Enrolling(s, H)!tables
      PROVE  EnrolmentInv(s, H)'
    BY <1>4, <1>r, IdleKnows DEF Enrolling!Abandon
<1>5. ASSUME NEW l \in Enrolling(s, H)!Rows(account), NEW photo \in Photo,
             Enrolling(s, H)!UpdateMe(l, photo)
      PROVE  EnrolmentInv(s, H)'
    <2>. DEFINE row == [account[l] EXCEPT !.photo = Enrolling(s, H)!Normal(photo)]
                prow == [profile[l] EXCEPT !.photo = Enrolling(s, H)!Normal(photo)]
    <2>1. /\ l \in Enrolling(s, H)!Login /\ account[l] # Enrolling(s, H)!NoRow
          /\ account[l] \in Enrolling(s, H)!Account
          /\ profile[l] \in Enrolling(s, H)!Profile \cup {Enrolling(s, H)!NoRow}
        BY <1>t DEF Enrolling!Rows
    <2>2. /\ row \in Enrolling(s, H)!Account /\ row.code = account[l].code
          /\ row.role = account[l].role
        BY <2>1 DEF Enrolling!Account, Enrolling!Normal, RegistryOK
    <2>3. profile[l] # Enrolling(s, H)!NoRow =>
              prow \in Enrolling(s, H)!Profile /\ prow.code = profile[l].code
        BY <2>1 DEF Enrolling!Profile, Enrolling!Normal, RegistryOK
    <2>4. /\ account' = [account EXCEPT ![l] = row]
          /\ profile' = IF profile[l] = Enrolling(s, H)!NoRow THEN profile
                        ELSE [profile EXCEPT ![l] = prow]
          /\ UNCHANGED <<tenant, bearer, issued, call>>
        BY <1>5 DEF Enrolling!UpdateMe
    <2>. HIDE DEF row, prow
    <2>5. /\ account' \in [Enrolling(s, H)!Login ->
                               Enrolling(s, H)!Account \cup {Enrolling(s, H)!NoRow}]
          /\ profile' \in [Enrolling(s, H)!Login ->
                               Enrolling(s, H)!Profile \cup {Enrolling(s, H)!NoRow}]
          /\ account'[l] = row
          /\ profile'[l] = IF profile[l] = Enrolling(s, H)!NoRow THEN profile[l] ELSE prow
          /\ \A k \in Enrolling(s, H)!Login \ {l} :
                 account'[k] = account[k] /\ profile'[k] = profile[k]
        BY <2>1, <2>2, <2>3, <2>4, <1>t
    <2>6. EnrolmentTables(s, H)' /\ RecordsStay(s, H)
        <3>1. \A k \in Enrolling(s, H)!Login :
                 /\ account'[k] = Enrolling(s, H)!NoRow <=> account[k] = Enrolling(s, H)!NoRow
                 /\ profile'[k] = Enrolling(s, H)!NoRow <=> profile[k] = Enrolling(s, H)!NoRow
                 /\ account[k] # Enrolling(s, H)!NoRow =>
                        account'[k].code = account[k].code /\ account'[k].role = account[k].role
                 /\ profile[k] # Enrolling(s, H)!NoRow => profile'[k].code = profile[k].code
            BY <2>1, <2>2, <2>3, <2>5, RowsAreRows
        <3>2. issued' \in 0..s.directors /\ UNCHANGED <<tenant, bearer>>
            BY <2>4, <1>t
        <3>. QED  BY <2>5, <3>1, <3>2, <1>t, RecordsAreCorrected
    <2>7. EnrolmentCalls(s, H)'
        BY <2>4, <2>6, EnrolmentCallsKept DEF EnrolmentInv
    <2>. QED  BY <2>6, <2>7 DEF EnrolmentInv
<1>6. CASE UNCHANGED Enrolling(s, H)!vars
    <2>1. UNCHANGED <<tenant, bearer, account, profile, issued, call>>
        BY <1>6 DEF Enrolling!vars
    <2>2. EnrolmentTables(s, H)' /\ RecordsStay(s, H)
        BY <2>1, <1>t, RecordsAreCorrected
    <2>3. EnrolmentCalls(s, H)'
        BY <2>1, <2>2, EnrolmentCallsKept DEF EnrolmentInv
    <2>. QED  BY <2>2, <2>3 DEF EnrolmentInv
<1>. QED  BY <1>1, <1>2, <1>3, <1>4, <1>5, <1>6 DEF Enrolling!Next

(* With one handler, what it has read is still so when it writes.          *)
EnrolmentSees(s, x) ==
    /\ "login" \in DOMAIN x => account[x.login] = Enrolling(s, {solo})!NoRow
    /\ "slug" \in DOMAIN x => ~Enrolling(s, {solo})!SlugTaken(x.slug)
    /\ "o" \in DOMAIN x /\ "n" \in DOMAIN x => ~Enrolling(s, {solo})!OrgNameTaken(x.o, x.n)
    /\ x.op = "createManager" /\ x.step # "code" =>
          x.code = Cardinality(Enrolling(s, {solo})!Managers) + 1
    /\ x.op = "createClient" /\ x.step = "insert" =>
          ~Enrolling(s, {solo})!NinClash(x.t, x.nin, Enrolling(s, {solo})!NoKey)
    /\ x.op = "updateClient" /\ x.step = "write" =>
          \/ x.p.nin = "keep"
          \/ ~Enrolling(s, {solo})!NinClash(profile[x.l].tenant, x.p.nin, x.l)

(* No manager's code exceeds their number.                                 *)
ManagersInCount(s) ==
    \A l \in Enrolling(s, {solo})!Managers :
        account[l].code <= Cardinality(Enrolling(s, {solo})!Managers)

EnrolmentSolo(s) ==
    /\ EnrolmentInv(s, {solo}) /\ EnrolmentSees(s, call[solo])
    /\ ManagersInCount(s) /\ Enrolling(s, {solo})!NinRegisteredOnce

(* With one handler, what was picked before the insert is still free at    *)
(* the insert.                                                             *)
LEMMA SoloRowFits ==
    ASSUME NEW s, RegistryOK(s), EnrolmentSolo(s)
    PROVE  Enrolling(s, {solo})!PreparedRowFits
<1>1. Cardinality(Enrolling(s, {solo})!Managers) \in Nat
    BY CountsAreNumbers DEF EnrolmentSolo, EnrolmentInv, EnrolmentTables
<1>2. ASSUME NEW l \in Enrolling(s, {solo})!Managers
      PROVE  account[l].code # Cardinality(Enrolling(s, {solo})!Managers) + 1
    <2>1. account[l].code \in Nat
        <3>1. account \in [Enrolling(s, {solo})!Login ->
                               Enrolling(s, {solo})!Account \cup {Enrolling(s, {solo})!NoRow}]
            BY DEF EnrolmentSolo, EnrolmentInv, EnrolmentTables, Enrolling!TypeOK
        <3>2. account[l] \in Enrolling(s, {solo})!Account
            BY <3>1 DEF Enrolling!Managers, Enrolling!Rows
        <3>. QED  BY <3>2 DEF Enrolling!Account
    <2>2. account[l].code <= Cardinality(Enrolling(s, {solo})!Managers)
        BY DEF EnrolmentSolo, ManagersInCount
    <2>. QED  BY <1>1, <2>1, <2>2
<1>. QED  BY <1>2 DEF EnrolmentSolo, EnrolmentSees, Enrolling!PreparedRowFits

(* The registry starts under the invariant of one handler.                 *)
LEMMA EnrolmentSoloInit ==
    ASSUME NEW s, RegistryOK(s), Enrolling(s, {solo})!Init
    PROVE  EnrolmentSolo(s)
<1>1. EnrolmentInv(s, {solo})
    BY EnrolmentInit
<1>2. EnrolmentSees(s, call[solo])
    BY DEF Enrolling!Init, EnrolmentSees, Enrolling!Idle
<1>3. ManagersInCount(s) /\ Enrolling(s, {solo})!NinRegisteredOnce
    BY DEF Enrolling!Init, ManagersInCount, Enrolling!NinRegisteredOnce, Enrolling!Managers,
        Enrolling!Rows
<1>. QED  BY <1>1, <1>2, <1>3 DEF EnrolmentSolo

(* The managers are the same, with the same codes.                         *)
LEMMA ManagersKept ==
    ASSUME NEW s, Enrolling(s, {solo})!TypeOK, Enrolling(s, {solo})!TypeOK',
           ManagersInCount(s),
           \A l \in Enrolling(s, {solo})!Login :
               /\ account'[l] # Enrolling(s, {solo})!NoRow /\ account'[l].role = "MANAGER"
                    <=> account[l] # Enrolling(s, {solo})!NoRow /\ account[l].role = "MANAGER"
               /\ account[l] # Enrolling(s, {solo})!NoRow => account'[l].code = account[l].code
    PROVE  /\ Enrolling(s, {solo})!Managers' = Enrolling(s, {solo})!Managers
           /\ ManagersInCount(s)'
<1>1. /\ DOMAIN account = Enrolling(s, {solo})!Login
      /\ DOMAIN account' = Enrolling(s, {solo})!Login
    BY DEF Enrolling!TypeOK, Enrolling!Login
<1>2. Enrolling(s, {solo})!Managers' = Enrolling(s, {solo})!Managers
    BY <1>1 DEF Enrolling!Managers, Enrolling!Rows, Enrolling!NoRow
<1>3. \A l \in Enrolling(s, {solo})!Managers : account'[l].code = account[l].code
    BY <1>1 DEF Enrolling!Managers, Enrolling!Rows
<1>. QED  BY <1>2, <1>3 DEF ManagersInCount

(* One handler at a time keeps the registry.                               *)
LEMMA EnrolmentSoloStep ==
    ASSUME NEW s, RegistryOK(s), EnrolmentSolo(s),
           [Enrolling(s, {solo})!Next]_(Enrolling(s, {solo})!vars)
    PROVE  EnrolmentSolo(s)'
<1>. DEFINE x == call[solo]
<1>. USE RowsAreRows
<1>i. EnrolmentInv(s, {solo}) /\ EnrolmentInv(s, {solo})'
    BY EnrolmentStep DEF EnrolmentSolo
<1>t. /\ account \in [Enrolling(s, {solo})!Login ->
                          Enrolling(s, {solo})!Account \cup {Enrolling(s, {solo})!NoRow}]
      /\ profile \in [Enrolling(s, {solo})!Login ->
                          Enrolling(s, {solo})!Profile \cup {Enrolling(s, {solo})!NoRow}]
      /\ Enrolling(s, {solo})!TypeOK /\ Enrolling(s, {solo})!TypeOK'
      /\ ProfilesHaveAccounts(s, {solo})
      /\ DOMAIN call = {solo} /\ EnrolmentKnows(s, {solo}, x)
    BY <1>i DEF EnrolmentInv, EnrolmentTables, EnrolmentCalls, Enrolling!TypeOK
<1>k. /\ EnrolmentSees(s, x) /\ ManagersInCount(s) /\ Enrolling(s, {solo})!NinRegisteredOnce
    BY DEF EnrolmentSolo
<1>n. /\ \A k \in Enrolling(s, {solo})!Login, l \in Enrolling(s, {solo})!Login :
             /\ profile[k] # Enrolling(s, {solo})!NoRow /\ profile[l] # Enrolling(s, {solo})!NoRow
             /\ profile[k].tenant = profile[l].tenant
             /\ profile[k].nin = profile[l].nin /\ profile[k].nin # "null"
             => k = l
    BY <1>k, <1>t DEF Enrolling!NinRegisteredOnce, Enrolling!Rows
<1>f. \A n \in s.name :
          Enrolling(s, {solo})!FreeLogin(n) # Enrolling(s, {solo})!NoKey =>
              account[Enrolling(s, {solo})!FreeLogin(n)] = Enrolling(s, {solo})!NoRow
    BY FreeLoginIsInOrder
<1>. USE DEF Enrolling!Begin, Enrolling!Continue, Enrolling!Return, Enrolling!At
(* Only the handler moves: it takes up y. *)
<1>u. ASSUME NEW y, EnrolmentSees(s, y), call'[solo] = y,
             UNCHANGED Enrolling(s, {solo})!tables
      PROVE  EnrolmentSolo(s)'
    <2>1. call'[solo] = y /\ UNCHANGED <<tenant, bearer, account, profile, issued>>
        BY <1>u DEF Enrolling!tables
    <2>2. EnrolmentSees(s, y)'
        BY <1>u, <2>1 DEF EnrolmentSees, Enrolling!NoRow, Enrolling!NoKey, Enrolling!SlugTaken,
            Enrolling!OrgNameTaken, Enrolling!Managers, Enrolling!Rows, Enrolling!NinClash,
            Enrolling!ClientsOf, Enrolling!Patch
    <2>3. EnrolmentSees(s, call[solo])'
        BY <2>1, <2>2 DEF EnrolmentSees
    <2>4. ManagersInCount(s)' /\ Enrolling(s, {solo})!NinRegisteredOnce'
        BY <1>k, <2>1 DEF ManagersInCount, Enrolling!NinRegisteredOnce, Enrolling!Managers,
            Enrolling!Rows, Enrolling!NoRow
    <2>. QED  BY <1>i, <2>3, <2>4 DEF EnrolmentSolo
<1>r. ASSUME NEW y, EnrolmentSees(s, y), call' = [call EXCEPT ![solo] = y],
             UNCHANGED Enrolling(s, {solo})!tables
      PROVE  EnrolmentSolo(s)'
    <2>1. call'[solo] = y
        BY <1>r, <1>t
    <2>. QED  BY <1>r, <1>u, <2>1
(* The handler is done. *)
<1>d. ASSUME call' = [call EXCEPT ![solo] = Enrolling(s, {solo})!Idle],
             ManagersInCount(s)', Enrolling(s, {solo})!NinRegisteredOnce'
      PROVE  EnrolmentSolo(s)'
    <2>1. call'[solo] = Enrolling(s, {solo})!Idle
        BY <1>d, <1>t
    <2>2. EnrolmentSees(s, call[solo])'
        BY <2>1 DEF EnrolmentSees, Enrolling!Idle
    <2>. QED  BY <1>d, <1>i, <2>2 DEF EnrolmentSolo
(* An account of somebody who is not a manager. *)
<1>a. ASSUME NEW login \in Enrolling(s, {solo})!Login, NEW row \in Enrolling(s, {solo})!Account,
             account[login] = Enrolling(s, {solo})!NoRow,
             account' = [account EXCEPT ![login] = row], row.role # "MANAGER"
      PROVE  ManagersInCount(s)'
    <2>1. /\ account'[login] = row
          /\ \A k \in Enrolling(s, {solo})!Login \ {login} : account'[k] = account[k]
        BY <1>a, <1>t
    <2>. QED  BY <1>a, <1>t, <1>k, <2>1, ManagersKept
<1>e. ASSUME UNCHANGED profile
      PROVE  Enrolling(s, {solo})!NinRegisteredOnce'
    BY <1>e, <1>k DEF Enrolling!NinRegisteredOnce, Enrolling!Rows, Enrolling!NoRow
<1>g. \A login : LoginInOrder(s, {solo}, login) => login \in Enrolling(s, {solo})!Login
    BY DEF LoginInOrder, Enrolling!Login
<1>1. CASE Enrolling(s, {solo})!Clients(solo)
    <2>1. ASSUME NEW t \in s.tenant, NEW name \in s.name, NEW nin \in s.nin \cup {"null"},
                 NEW photo \in Photo \ {"empty"}, NEW hasDirector \in BOOLEAN,
                 Enrolling(s, {solo})!CreateClientLoad(solo, t, name, nin, photo, hasDirector)
          PROVE  EnrolmentSolo(s)'
        <3>. DEFINE y == [op |-> "createClient", step |-> "code", t |-> t,
                          login |-> Enrolling(s, {solo})!FreeLogin(name), code |-> 0, nin |-> nin,
                          photo |-> photo, n |-> IF hasDirector THEN 1 ELSE 0]
        <3>1. EnrolmentSees(s, y)
            BY <2>1, <1>f DEF EnrolmentSees, Enrolling!CreateClientLoad
        <3>. QED  BY <2>1, <3>1, <1>r DEF Enrolling!CreateClientLoad
    <2>2. CASE Enrolling(s, {solo})!CreateClientCode(solo)
        <3>1. PICK y : y = [x EXCEPT !.step = "check",
                                     !.code = Enrolling(s, {solo})!ClientCode(x.t)]
            OBVIOUS
        <3>2. EnrolmentSees(s, y)
            BY <2>2, <3>1, <1>k DEF EnrolmentSees, Enrolling!CreateClientCode
        <3>. QED  BY <2>2, <3>1, <3>2, <1>r DEF Enrolling!CreateClientCode
    <2>3. CASE Enrolling(s, {solo})!CreateClientCheck(solo)
        <3>1. PICK y : y = [x EXCEPT !.step = "insert"]
            OBVIOUS
        <3>2. EnrolmentSees(s, y)
            BY <2>3, <3>1, <1>k DEF EnrolmentSees, Enrolling!CreateClientCheck
        <3>. QED  BY <2>3, <3>1, <3>2, <1>r DEF Enrolling!CreateClientCheck
    <2>4. CASE Enrolling(s, {solo})!CreateClientInsert(solo)
        <3>. DEFINE fresh == (issued + 1)..(issued + x.n)
                    row == [tenant |-> x.t, role |-> "CLIENT", code |-> 0, photo |-> x.photo]
                    prow == [tenant |-> x.t, code |-> x.code, nin |-> x.nin, photo |-> x.photo,
                             directors |-> fresh, docs |-> fresh]
        <3>1. /\ x.t \in s.tenant /\ x.photo \in Photo /\ x.login \in Enrolling(s, {solo})!Login
              /\ ~Enrolling(s, {solo})!NinClash(x.t, x.nin, Enrolling(s, {solo})!NoKey)
            BY <2>4, <1>t, <1>k, <1>g DEF EnrolmentKnows, EnrolmentSees,
                Enrolling!CreateClientInsert
        <3>2. row \in Enrolling(s, {solo})!Account /\ row.role # "MANAGER"
            BY <3>1 DEF Enrolling!Account
        <3>3. prow.tenant = x.t /\ prow.nin = x.nin
            OBVIOUS
        <3>4. /\ account[x.login] = Enrolling(s, {solo})!NoRow
              /\ account' = [account EXCEPT ![x.login] = row]
              /\ profile' = [profile EXCEPT ![x.login] = prow]
              /\ call' = [call EXCEPT ![solo] = Enrolling(s, {solo})!Idle]
              /\ x.op = "createClient"
            BY <2>4 DEF Enrolling!CreateClientInsert
        <3>. HIDE DEF row, prow, fresh
        <3>5. ManagersInCount(s)'
            BY <3>1, <3>2, <3>4, <1>a
        <3>6. /\ DOMAIN profile' = Enrolling(s, {solo})!Login /\ profile'[x.login] = prow
              /\ \A l \in Enrolling(s, {solo})!Login \ {x.login} : profile'[l] = profile[l]
            BY <3>1, <3>4, <1>t
        <3>7. \A l \in Enrolling(s, {solo})!Login :
                  profile[l] # Enrolling(s, {solo})!NoRow /\ profile[l].tenant = x.t
                      => x.nin = "null" \/ profile[l].nin # x.nin
            BY <3>1, <1>t DEF Enrolling!NinClash, Enrolling!ClientsOf, Enrolling!Rows
        <3>8. Enrolling(s, {solo})!NinRegisteredOnce'
            <4>1. ASSUME NEW j \in Enrolling(s, {solo})!Login, NEW k \in Enrolling(s, {solo})!Login,
                         profile'[j] # Enrolling(s, {solo})!NoRow,
                         profile'[k] # Enrolling(s, {solo})!NoRow,
                         profile'[j].tenant = profile'[k].tenant,
                         profile'[j].nin = profile'[k].nin, profile'[j].nin # "null"
                  PROVE  j = k
                BY <4>1, <3>3, <3>6, <3>7, <1>n
            <4>. QED  BY <4>1, <3>6 DEF Enrolling!NinRegisteredOnce, Enrolling!Rows,
                          Enrolling!NoRow
        <3>. QED  BY <3>4, <3>5, <3>8, <1>d
    <2>5. ASSUME NEW l \in Enrolling(s, {solo})!Rows(profile),
                 NEW p \in Enrolling(s, {solo})!Patch,
                 Enrolling(s, {solo})!UpdateClientLoad(solo, l, p)
          PROVE  EnrolmentSolo(s)'
        <3>. DEFINE y == [op |-> "updateClient", step |-> "check", l |-> l, p |-> p]
        <3>1. EnrolmentSees(s, y)
            BY DEF EnrolmentSees
        <3>. QED  BY <2>5, <3>1, <1>r DEF Enrolling!UpdateClientLoad
    <2>6. CASE Enrolling(s, {solo})!UpdateClientCheck(solo)
        <3>1. PICK y : y = [x EXCEPT !.step = "write"]
            OBVIOUS
        <3>2. EnrolmentSees(s, y)
            BY <2>6, <3>1, <1>k DEF EnrolmentSees, Enrolling!UpdateClientCheck
        <3>. QED  BY <2>6, <3>1, <3>2, <1>r DEF Enrolling!UpdateClientCheck
    <2>7. CASE Enrolling(s, {solo})!UpdateClientWrite(solo)
        <3>0. PICK l, p : l = x.l /\ p = x.p
            OBVIOUS
        <3>. DEFINE old == profile[l]
                    fresh == IF p.directors = "replace" THEN {issued + 1} ELSE {}
                    row == [account[l] EXCEPT !.photo = IF p.photo = "keep" THEN @
                                        ELSE Enrolling(s, {solo})!Normal(p.photo)]
                    prow == [old EXCEPT
                       !.nin = IF p.nin = "keep" THEN @ ELSE p.nin,
                       !.photo = IF p.photo = "keep" THEN @ ELSE p.photo,
                       !.directors = IF p.directors = "keep" THEN @ ELSE fresh,
                       !.docs = Enrolling(s, {solo})!DocsAfter(old, p, fresh)]
        <3>1. /\ l \in Enrolling(s, {solo})!Login /\ profile[l] # Enrolling(s, {solo})!NoRow
              /\ p.nin = "keep" \/ ~Enrolling(s, {solo})!NinClash(old.tenant, p.nin, l)
            BY <2>7, <3>0, <1>t, <1>k DEF EnrolmentKnows, EnrolmentSees,
                Enrolling!UpdateClientWrite
        <3>2. /\ account' = [account EXCEPT ![l].photo =
                    IF p.photo = "keep" THEN @ ELSE Enrolling(s, {solo})!Normal(p.photo)]
              /\ profile' = [profile EXCEPT ![l] = prow]
              /\ call' = [call EXCEPT ![solo] = Enrolling(s, {solo})!Idle]
            BY <2>7, <3>0 DEF Enrolling!UpdateClientWrite
        <3>3. account[l] \in Enrolling(s, {solo})!Account /\ old \in Enrolling(s, {solo})!Profile
            BY <3>1, <1>t DEF ProfilesHaveAccounts
        <3>4. row.code = account[l].code /\ row.role = account[l].role
              /\ "role" \in DOMAIN row
            BY <3>3 DEF Enrolling!Account
        <3>5. account' = [account EXCEPT ![l] = row]
            BY <3>2
        <3>6. /\ prow.tenant = old.tenant
              /\ prow.nin = IF p.nin = "keep" THEN old.nin ELSE p.nin
              /\ prow.directors = IF p.directors = "keep" THEN old.directors ELSE fresh
              /\ prow.docs = Enrolling(s, {solo})!DocsAfter(old, p, fresh)
            BY <3>3 DEF Enrolling!Profile
        <3>. HIDE DEF row, prow, fresh
        <3>8. /\ account'[l] = row /\ profile'[l] = prow /\ DOMAIN profile' = Enrolling(s, {solo})!Login
              /\ \A k \in Enrolling(s, {solo})!Login \ {l} :
                     account'[k] = account[k] /\ profile'[k] = profile[k]
            BY <3>1, <3>2, <3>5, <1>t
        <3>9. ManagersInCount(s)'
            <4>1. row # Enrolling(s, {solo})!NoRow
                BY <3>4 DEF Enrolling!NoRow
            <4>2. account[l] # Enrolling(s, {solo})!NoRow
                BY <3>3
            <4>. QED  BY <3>1, <3>4, <3>8, <4>1, <4>2, <1>t, <1>k, ManagersKept
        <3>10. \A k \in Enrolling(s, {solo})!Login \ {l} :
                  profile[k] # Enrolling(s, {solo})!NoRow /\ profile[k].tenant = old.tenant =>
                      \/ p.nin = "keep" \/ p.nin = "null" \/ profile[k].nin # p.nin
            BY <3>1, <1>t DEF Enrolling!NinClash, Enrolling!ClientsOf, Enrolling!Rows
        <3>11. Enrolling(s, {solo})!NinRegisteredOnce'
            <4>1. ASSUME NEW j \in Enrolling(s, {solo})!Login, NEW k \in Enrolling(s, {solo})!Login,
                         profile'[j] # Enrolling(s, {solo})!NoRow,
                         profile'[k] # Enrolling(s, {solo})!NoRow,
                         profile'[j].tenant = profile'[k].tenant,
                         profile'[j].nin = profile'[k].nin, profile'[j].nin # "null"
                  PROVE  j = k
                <5>1. CASE p.nin = "keep"
                    <6>1. profile'[l].tenant = old.tenant /\ profile'[l].nin = old.nin
                        BY <3>6, <3>8, <5>1
                    <6>2. \A i \in Enrolling(s, {solo})!Login :
                              profile'[i] # Enrolling(s, {solo})!NoRow =>
                                  /\ profile[i] # Enrolling(s, {solo})!NoRow
                                  /\ profile'[i].tenant = profile[i].tenant
                                  /\ profile'[i].nin = profile[i].nin
                        BY <3>1, <3>8, <6>1
                    <6>. QED  BY <4>1, <6>2, <1>n
                <5>2. CASE p.nin # "keep"
                    <6>1. profile'[l].tenant = old.tenant /\ profile'[l].nin = p.nin
                        BY <3>6, <3>8, <5>2
                    <6>. QED  BY <4>1, <6>1, <3>8, <3>10, <5>2, <1>n
                <5>. QED  BY <5>1, <5>2
            <4>. QED  BY <4>1, <3>8 DEF Enrolling!NinRegisteredOnce, Enrolling!Rows,
                          Enrolling!NoRow
        <3>. QED  BY <3>2, <3>9, <3>11, <1>d
    <2>. QED  BY <1>1, <2>1, <2>2, <2>3, <2>4, <2>5, <2>6, <2>7 DEF Enrolling!Clients
<1>2. CASE Enrolling(s, {solo})!Staff(solo)
    <2>1. ASSUME NEW t \in s.tenant, NEW name \in s.name,
                 Enrolling(s, {solo})!CreateManagerLoad(solo, t, name)
          PROVE  EnrolmentSolo(s)'
        <3>. DEFINE y == [op |-> "createManager", step |-> "code", t |-> t,
                          login |-> Enrolling(s, {solo})!FreeLogin(name), code |-> 0]
        <3>1. EnrolmentSees(s, y)
            BY <2>1, <1>f DEF EnrolmentSees, Enrolling!CreateManagerLoad
        <3>. QED  BY <2>1, <3>1, <1>r DEF Enrolling!CreateManagerLoad
    <2>2. ASSUME NEW t \in s.tenant, NEW name \in s.name,
                 Enrolling(s, {solo})!CreateTenantLoad(solo, t, name)
          PROVE  EnrolmentSolo(s)'
        <3>. DEFINE y == [op |-> "createTenant", step |-> "insert", t |-> t,
                          slug |-> Enrolling(s, {solo})!FreeSlug(t),
                          login |-> Enrolling(s, {solo})!FreeLogin(name)]
        <3>1. ~Enrolling(s, {solo})!SlugTaken(Enrolling(s, {solo})!FreeSlug(t))
            BY <2>2, FreeSlugIsFree DEF Enrolling!CreateTenantLoad
        <3>2. EnrolmentSees(s, y)
            BY <2>2, <3>1, <1>f DEF EnrolmentSees, Enrolling!CreateTenantLoad
        <3>. QED  BY <2>2, <3>2, <1>r DEF Enrolling!CreateTenantLoad
    <2>3. CASE Enrolling(s, {solo})!CreateManagerCode(solo)
        <3>1. PICK y : y = [x EXCEPT !.step = "insert", !.code = Enrolling(s, {solo})!ManagerCode]
            OBVIOUS
        <3>2. Enrolling(s, {solo})!ManagerCode = Cardinality(Enrolling(s, {solo})!Managers) + 1
            BY <1>t, CountsAreNumbers
        <3>3. EnrolmentSees(s, y)
            BY <2>3, <3>1, <3>2, <1>t, <1>k DEF EnrolmentSees, EnrolmentKnows,
                Enrolling!CreateManagerCode
        <3>. QED  BY <2>3, <3>1, <3>3, <1>r DEF Enrolling!CreateManagerCode
    <2>4. CASE Enrolling(s, {solo})!CreateManagerInsert(solo)
        <3>. DEFINE row == [tenant |-> x.t, role |-> "MANAGER", code |-> x.code, photo |-> "null"]
        <3>1. /\ x.t \in s.tenant /\ x.code \in Nat /\ x.login \in Enrolling(s, {solo})!Login
              /\ x.code = Cardinality(Enrolling(s, {solo})!Managers) + 1
            BY <2>4, <1>t, <1>k, <1>g DEF EnrolmentKnows, EnrolmentSees,
                Enrolling!CreateManagerInsert
        <3>2. row.role = "MANAGER" /\ row.code = x.code /\ "role" \in DOMAIN row
            OBVIOUS
        <3>3. /\ account[x.login] = Enrolling(s, {solo})!NoRow
              /\ account' = [account EXCEPT ![x.login] = row] /\ UNCHANGED profile
              /\ call' = [call EXCEPT ![solo] = Enrolling(s, {solo})!Idle]
            BY <2>4 DEF Enrolling!CreateManagerInsert, Enrolling!NewAccount
        <3>. HIDE DEF row
        <3>4. row # Enrolling(s, {solo})!NoRow
            BY <3>2 DEF Enrolling!NoRow
        <3>5. /\ account'[x.login] = row /\ DOMAIN account' = Enrolling(s, {solo})!Login
              /\ \A l \in Enrolling(s, {solo})!Login \ {x.login} : account'[l] = account[l]
            BY <3>1, <3>3, <1>t
        <3>6. /\ Enrolling(s, {solo})!Managers' = Enrolling(s, {solo})!Managers \cup {x.login}
              /\ x.login \notin Enrolling(s, {solo})!Managers
            BY <3>1, <3>2, <3>3, <3>4, <3>5, <1>t DEF Enrolling!Managers, Enrolling!Rows,
                Enrolling!NoRow
        <3>7. /\ IsFiniteSet(Enrolling(s, {solo})!Managers)
              /\ Cardinality(Enrolling(s, {solo})!Managers) \in Nat
            BY <1>t, CountsAreNumbers
        <3>8. Cardinality(Enrolling(s, {solo})!Managers') =
                  Cardinality(Enrolling(s, {solo})!Managers) + 1
            BY <3>6, <3>7, FS_AddElement
        <3>9. ASSUME NEW l \in Enrolling(s, {solo})!Managers'
              PROVE  account'[l].code <= Cardinality(Enrolling(s, {solo})!Managers')
            <4>1. CASE l = x.login
                BY <3>1, <3>2, <3>5, <3>7, <3>8, <4>1
            <4>2. CASE l # x.login
                <5>1. l \in Enrolling(s, {solo})!Managers /\ l \in Enrolling(s, {solo})!Login
                    BY <3>6, <4>2, <1>t DEF Enrolling!Managers, Enrolling!Rows
                <5>2. account'[l].code <= Cardinality(Enrolling(s, {solo})!Managers)
                    BY <3>5, <4>2, <5>1, <1>k DEF ManagersInCount
                <5>3. account'[l].code \in Nat
                    <6>1. account[l] \in Enrolling(s, {solo})!Account
                        BY <5>1, <1>t DEF Enrolling!Managers, Enrolling!Rows
                    <6>. QED  BY <3>5, <4>2, <5>1, <6>1 DEF Enrolling!Account
                <5>. QED  BY <3>7, <3>8, <5>2, <5>3
            <4>. QED  BY <4>1, <4>2
        <3>10. ManagersInCount(s)'
            BY <3>9 DEF ManagersInCount
        <3>. QED  BY <3>3, <3>10, <1>d, <1>e
    <2>5. CASE Enrolling(s, {solo})!CreateTenantInsert(solo)
        <3>1. x.t \in s.tenant /\ x.login \in Enrolling(s, {solo})!Login
            BY <2>5, <1>t, <1>g DEF EnrolmentKnows, Enrolling!CreateTenantInsert
        <3>2. Enrolling(s, {solo})!NewAccount(x, "STAFF", 0) /\ UNCHANGED profile
              /\ call' = [call EXCEPT ![solo] = Enrolling(s, {solo})!Idle]
            BY <2>5 DEF Enrolling!CreateTenantInsert
        <3>3. [tenant |-> x.t, role |-> "STAFF", code |-> 0, photo |-> "null"]
                  \in Enrolling(s, {solo})!Account
            BY <3>1 DEF Enrolling!Account, RegistryOK
        <3>. QED  BY <3>1, <3>2, <3>3, <1>a, <1>d, <1>e DEF Enrolling!NewAccount
    <2>. QED  BY <1>2, <2>1, <2>2, <2>3, <2>4, <2>5 DEF Enrolling!Staff
<1>3. CASE Enrolling(s, {solo})!Financiers(solo)
    <2>1. ASSUME NEW o \in s.org, NEW n \in s.brand, Enrolling(s, {solo})!RenameOrgLoad(solo, o, n)
          PROVE  EnrolmentSolo(s)'
        <3>. DEFINE y == [op |-> "updateFinancierOrg", step |-> "write", o |-> o, n |-> n]
        <3>1. EnrolmentSees(s, y)
            BY <2>1 DEF EnrolmentSees, Enrolling!RenameOrgLoad
        <3>. QED  BY <2>1, <3>1, <1>r DEF Enrolling!RenameOrgLoad
    <2>2. ASSUME NEW o \in s.org, NEW n \in s.brand, NEW name \in s.name, NEW t \in s.tenant,
                 Enrolling(s, {solo})!CreateOrgLoad(solo, o, n, name, t)
          PROVE  EnrolmentSolo(s)'
        <3>. DEFINE y == [op |-> "createFinancierOrg", step |-> "insert", o |-> o, n |-> n,
                          login |-> Enrolling(s, {solo})!FreeLogin(name), t |-> t]
        <3>1. EnrolmentSees(s, y)
            BY <2>2, <1>f DEF EnrolmentSees, Enrolling!CreateOrgLoad
        <3>. QED  BY <2>2, <3>1, <1>r DEF Enrolling!CreateOrgLoad
    <2>3. ASSUME NEW o \in s.org, NEW name \in s.name, NEW t \in s.tenant,
                 Enrolling(s, {solo})!InviteLoad(solo, o, name, t)
          PROVE  EnrolmentSolo(s)'
        <3>. DEFINE y == [op |-> "inviteFinancierUser", step |-> "insert",
                          login |-> Enrolling(s, {solo})!FreeLogin(name), t |-> t]
        <3>1. EnrolmentSees(s, y)
            BY <2>3, <1>f DEF EnrolmentSees, Enrolling!InviteLoad
        <3>. QED  BY <2>3, <3>1, <1>r DEF Enrolling!InviteLoad
    <2>4. CASE Enrolling(s, {solo})!CreateOrgInsert(solo) \/ Enrolling(s, {solo})!InviteInsert(solo)
        <3>1. x.t \in s.tenant /\ x.login \in Enrolling(s, {solo})!Login
            BY <2>4, <1>t, <1>g DEF EnrolmentKnows, Enrolling!CreateOrgInsert,
                Enrolling!InviteInsert
        <3>2. Enrolling(s, {solo})!NewAccount(x, "FINANCIER", 0) /\ UNCHANGED profile
              /\ call' = [call EXCEPT ![solo] = Enrolling(s, {solo})!Idle]
            BY <2>4 DEF Enrolling!CreateOrgInsert, Enrolling!InviteInsert
        <3>3. [tenant |-> x.t, role |-> "FINANCIER", code |-> 0, photo |-> "null"]
                  \in Enrolling(s, {solo})!Account
            BY <3>1 DEF Enrolling!Account, RegistryOK
        <3>. QED  BY <3>1, <3>2, <3>3, <1>a, <1>d, <1>e DEF Enrolling!NewAccount
    <2>5. CASE Enrolling(s, {solo})!RenameOrgWrite(solo)
        <3>1. UNCHANGED <<account, profile>>
              /\ call' = [call EXCEPT ![solo] = Enrolling(s, {solo})!Idle]
            BY <2>5 DEF Enrolling!RenameOrgWrite
        <3>2. ManagersInCount(s)'
            BY <3>1, <1>t, <1>k, ManagersKept
        <3>. QED  BY <3>1, <3>2, <1>d, <1>e
    <2>. QED  BY <1>3, <2>1, <2>2, <2>3, <2>4, <2>5 DEF Enrolling!Financiers
<1>4. CASE Enrolling(s, {solo})!Abandon(solo) /\ UNCHANGED Enrolling(s, {solo})!tables
    <2>1. EnrolmentSees(s, Enrolling(s, {solo})!Idle)
        BY DEF EnrolmentSees, Enrolling!Idle
    <2>. QED  BY <1>4, <2>1, <1>r DEF Enrolling!Abandon
<1>5. ASSUME NEW l \in Enrolling(s, {solo})!Rows(account), NEW photo \in Photo,
             Enrolling(s, {solo})!UpdateMe(l, photo)
      PROVE  EnrolmentSolo(s)'
    <2>. DEFINE row == [account[l] EXCEPT !.photo = Enrolling(s, {solo})!Normal(photo)]
                prow == [profile[l] EXCEPT !.photo = Enrolling(s, {solo})!Normal(photo)]
    <2>1. /\ l \in Enrolling(s, {solo})!Login /\ account[l] # Enrolling(s, {solo})!NoRow
          /\ account[l] \in Enrolling(s, {solo})!Account
          /\ profile[l] \in Enrolling(s, {solo})!Profile \cup {Enrolling(s, {solo})!NoRow}
        BY <1>t DEF Enrolling!Rows
    <2>2. /\ row.code = account[l].code /\ row.role = account[l].role /\ "role" \in DOMAIN row
        BY <2>1 DEF Enrolling!Account
    <2>3. profile[l] # Enrolling(s, {solo})!NoRow =>
              /\ prow.tenant = profile[l].tenant /\ prow.nin = profile[l].nin
              /\ prow.directors = profile[l].directors /\ "docs" \in DOMAIN prow
        BY <2>1 DEF Enrolling!Profile
    <2>4. /\ account' = [account EXCEPT ![l] = row]
          /\ profile' = IF profile[l] = Enrolling(s, {solo})!NoRow THEN profile
                        ELSE [profile EXCEPT ![l] = prow]
          /\ UNCHANGED <<tenant, bearer, issued, call>>
        BY <1>5 DEF Enrolling!UpdateMe
    <2>. HIDE DEF row, prow
    <2>5. /\ account'[l] = row /\ DOMAIN profile' = Enrolling(s, {solo})!Login
          /\ profile'[l] = IF profile[l] = Enrolling(s, {solo})!NoRow THEN profile[l] ELSE prow
          /\ \A k \in Enrolling(s, {solo})!Login \ {l} :
                 account'[k] = account[k] /\ profile'[k] = profile[k]
        BY <2>1, <2>4, <1>t
    <2>6. row # Enrolling(s, {solo})!NoRow
          /\ (profile[l] # Enrolling(s, {solo})!NoRow => prow # Enrolling(s, {solo})!NoRow)
        BY <2>2, <2>3 DEF Enrolling!NoRow
    <2>7. \A k \in Enrolling(s, {solo})!Login :
             /\ account'[k] = Enrolling(s, {solo})!NoRow <=> account[k] = Enrolling(s, {solo})!NoRow
             /\ account[k] # Enrolling(s, {solo})!NoRow =>
                    account'[k].code = account[k].code /\ account'[k].role = account[k].role
             /\ profile'[k] = Enrolling(s, {solo})!NoRow <=> profile[k] = Enrolling(s, {solo})!NoRow
             /\ profile[k] # Enrolling(s, {solo})!NoRow =>
                    /\ profile'[k].tenant = profile[k].tenant /\ profile'[k].nin = profile[k].nin
                    /\ profile'[k].directors = profile[k].directors
        BY <2>1, <2>2, <2>3, <2>5, <2>6
    <2>8. Enrolling(s, {solo})!Managers' = Enrolling(s, {solo})!Managers /\ ManagersInCount(s)'
        BY <2>7, <1>t, <1>k, ManagersKept
    <2>9. Enrolling(s, {solo})!NinRegisteredOnce'
        <3>1. \A k \in Enrolling(s, {solo})!Rows(profile)' :
                 /\ k \in Enrolling(s, {solo})!Login
                 /\ profile[k] # Enrolling(s, {solo})!NoRow
                 /\ profile'[k].tenant = profile[k].tenant /\ profile'[k].nin = profile[k].nin
            BY <2>5, <2>7, <1>t DEF Enrolling!Rows, Enrolling!NoRow
        <3>2. ASSUME NEW k \in Enrolling(s, {solo})!Rows(profile)',
                     NEW j \in Enrolling(s, {solo})!Rows(profile)',
                     profile'[k].tenant = profile'[j].tenant,
                     profile'[k].nin = profile'[j].nin, profile'[k].nin # "null"
              PROVE  k = j
            BY <3>1, <3>2, <1>n
        <3>. QED  BY <3>2 DEF Enrolling!NinRegisteredOnce
    <2>11. EnrolmentSees(s, call[solo])'
        <3>1. PICK y : y = x
            OBVIOUS
        <3>2. "login" \in DOMAIN y => account'[y.login] = Enrolling(s, {solo})!NoRow
            <4>1. "login" \in DOMAIN y => y.login # l /\ account[y.login] = Enrolling(s, {solo})!NoRow
                BY <3>1, <2>1, <1>k DEF EnrolmentSees
            <4>. QED  BY <2>4, <4>1
        <3>3. ASSUME NEW t, NEW nin, NEW k,
                     ~Enrolling(s, {solo})!NinClash(t, nin, k)
              PROVE  ~Enrolling(s, {solo})!NinClash(t, nin, k)'
            BY <3>3, <2>5, <2>7, <1>t DEF Enrolling!NinClash, Enrolling!ClientsOf, Enrolling!Rows,
                Enrolling!NoRow
        <3>4. y.op = "updateClient" =>
                  y.l \in Enrolling(s, {solo})!Login /\ profile[y.l] # Enrolling(s, {solo})!NoRow
            BY <3>1, <1>t DEF EnrolmentKnows
        <3>5. y.op = "updateClient" =>
                  profile'[y.l].tenant = profile[y.l].tenant
            BY <3>1, <3>4, <2>7
        <3>6. /\ "slug" \in DOMAIN y => ~Enrolling(s, {solo})!SlugTaken(y.slug)'
              /\ "o" \in DOMAIN y /\ "n" \in DOMAIN y =>
                     ~Enrolling(s, {solo})!OrgNameTaken(y.o, y.n)'
            BY <3>1, <2>4, <1>k DEF EnrolmentSees, Enrolling!SlugTaken, Enrolling!OrgNameTaken
        <3>7. y.op = "createClient" /\ y.step = "insert" =>
                  ~Enrolling(s, {solo})!NinClash(y.t, y.nin, Enrolling(s, {solo})!NoKey)'
            BY <3>1, <3>3, <1>k DEF EnrolmentSees, Enrolling!NoKey
        <3>8. y.op = "updateClient" /\ y.step = "write" =>
                  \/ y.p.nin = "keep"
                  \/ ~Enrolling(s, {solo})!NinClash(profile[y.l].tenant, y.p.nin, y.l)
            BY <3>1, <1>k DEF EnrolmentSees
        <3>9. y.op = "updateClient" /\ y.step = "write" =>
                  \/ y.p.nin = "keep"
                  \/ ~Enrolling(s, {solo})!NinClash(profile[y.l].tenant, y.p.nin, y.l)'
            <4>1. PICK t : t = profile[y.l].tenant
                OBVIOUS
            <4>2. y.op = "updateClient" => profile'[y.l].tenant = t
                BY <3>5, <4>1
            <4>3. y.op = "updateClient" /\ y.step = "write" =>
                      y.p.nin = "keep" \/ ~Enrolling(s, {solo})!NinClash(t, y.p.nin, y.l)'
                BY <3>3, <3>8, <4>1
            <4>. QED  BY <4>2, <4>3
        <3>10. y.op = "createManager" /\ y.step # "code" =>
                   y.code = Cardinality(Enrolling(s, {solo})!Managers)' + 1
            BY <3>1, <2>8, <1>k DEF EnrolmentSees
        <3>11. EnrolmentSees(s, y)'
            BY <3>2, <3>5, <3>6, <3>7, <3>9, <3>10 DEF EnrolmentSees, Enrolling!NoRow
        <3>12. y = call'[solo]
            BY <3>1, <2>4
        <3>. QED  BY <3>11, <3>12 DEF EnrolmentSees
    <2>. QED  BY <1>i, <2>8, <2>9, <2>11 DEF EnrolmentSolo
<1>6. CASE UNCHANGED Enrolling(s, {solo})!vars
    <2>1. UNCHANGED <<tenant, bearer, account, profile, issued, call>>
        BY <1>6 DEF Enrolling!vars
    <2>2. UNCHANGED Enrolling(s, {solo})!tables /\ call'[solo] = x
        BY <2>1 DEF Enrolling!tables
    <2>3. PICK y : y = x
        OBVIOUS
    <2>. QED  BY <2>2, <2>3, <1>k, <1>u
<1>. QED  BY <1>1, <1>2, <1>3, <1>4, <1>5, <1>6 DEF Enrolling!Next

-----------------------------------------------------------------------------
(* Storage fees, with one handler.  The policy i comes before every other  *)
(* active one.                                                             *)
Foremost(i) ==
    /\ i \in DOMAIN policy /\ policy[i].isActive
    /\ \A j \in DOMAIN policy : policy[j].isActive => ~Fees!Before(j, i)

FeeOf(i, days) ==
    Fees!CalculateFee(policy[i].feeType, policy[i].rate, commodity, days)

(* What a computation that began at the current policies has found.        *)
FeesKnow(x) ==
    /\ x.op \in {"idle", "create", "complete"}
    /\ x.op = "create" => withdrawal = Fees!NoRow
    /\ x.op = "complete" =>
          /\ withdrawal # Fees!NoRow /\ withdrawal.status = "APPROVED"
          /\ x.step \in {"resolve", "write"} => withdrawal.since <= x.since
    /\ x.op # "idle" /\ x.step = "resolve" =>
          /\ "scope" \in DOMAIN x /\ x.scope \in 1..4
          /\ x.since \in 0..changes
          /\ x.measure \in Fees!CommodityRow /\ x.deposited \in Instant
          /\ x.since = changes =>
                /\ x.measure = commodity /\ x.deposited = goods.deposited
                /\ \A k \in 1..(x.scope - 1) :
                      Fees!Matching(policy, Fees!Candidates[k]) = {}
    /\ x.op # "idle" /\ x.step = "write" =>
          /\ x.since \in 0..changes /\ x.fee \in Int /\ x.days \in Int
          /\ x.since = changes =>
                /\ Foremost(x.policy) /\ x.fee = FeeOf(x.policy, x.days)
                /\ x.days <= Fees!Days(now, goods.deposited)
          /\ x.op = "complete" /\ withdrawal.since = changes => x.fee >= withdrawal.storageFee

(* A fee that the foremost policy asks for the days that have begun.       *)
QuoteOf(fee) ==
    \E i \in DOMAIN policy, days \in Int :
        Foremost(i) /\ days <= Fees!Days(now, goods.deposited) /\ fee = FeeOf(i, days)

(* The quote on the row, while it is one.                                  *)
Quoted ==
    withdrawal # Fees!NoRow =>
        /\ withdrawal \in [status : {"PENDING_PAYMENT", "APPROVED", "COMPLETED"},
                           storageFee : Int, since : 0..changes]
        /\ withdrawal.status # "COMPLETED" /\ withdrawal.since = changes =>
              QuoteOf(withdrawal.storageFee)

BillingInv ==
    /\ Fees!TypeOK /\ DOMAIN call = {solo} /\ FeesKnow(call[solo]) /\ Quoted

(* A product grows with its second factor, when the first is natural.      *)
LEMMA ProductGrows ==
    ASSUME NEW m \in Nat, NEW p \in Int, NEW q \in Int
    PROVE  m * p \in Int /\ (p <= q => m * p <= m * q)
<1>1. m * p \in Int
    OBVIOUS
<1>2. ASSUME p <= q PROVE m * p <= m * q
    <2>1. PICK d \in Nat : q = p + d
        <3>1. q - p \in Nat /\ q = p + (q - p)
            BY <1>2
        <3>. QED  BY <3>1
    <2>2. m * q = m * p + m * d /\ m * d \in Nat
        BY <2>1
    <2>. QED  BY <1>1, <2>2
<1>. QED  BY <1>1, <1>2

(* A rounded-up quotient of a natural number is one.                       *)
LEMMA CeilingIsNatural ==
    ASSUME NEW a \in Nat, NEW n \in Nat \ {0}
    PROVE  Fees!Ceiling(a, n) \in Nat
<1>1. a + n - 1 \in Nat
    OBVIOUS
<1>2. PICK b \in Nat : b = a + n - 1
    BY <1>1
<1>3. b \div n \in Nat
    OBVIOUS
<1>. QED  BY <1>2, <1>3 DEF Fees!Ceiling

(* A rounded-up quotient grows with its dividend.                          *)
LEMMA CeilingGrows ==
    ASSUME NEW a \in Int, NEW b \in Int, a <= b
    PROVE  /\ Fees!Ceiling(a, 2) \in Int /\ Fees!Ceiling(a, 2) <= Fees!Ceiling(b, 2)
           /\ Fees!Ceiling(a, 7) \in Int /\ Fees!Ceiling(a, 7) <= Fees!Ceiling(b, 7)
           /\ Fees!Ceiling(a, 30) \in Int /\ Fees!Ceiling(a, 30) <= Fees!Ceiling(b, 30)
BY DEF Fees!Ceiling

(* What is charged for is an amount, unless the measure has none.          *)
LEMMA AmountsCount ==
    ASSUME NEW type \in FeeType, NEW measure \in Fees!CommodityRow
    PROVE  Fees!Amount(type, measure) \in Int
<1>a. /\ measure.weight \in Nat /\ Kilo \in Nat /\ Kilo # 0 /\ Quantity \in Nat
      /\ type \in {"PER_MT_PER_MONTH", "PER_MT_PER_DAY", "PER_BAG_PER_WEEK", "FLAT_RATE"}
    BY FeesAssumption DEF Fees!BillingAssumption, Fees!CommodityRow, Fees!NoWeight
<1>1. PICK weight \in Nat : weight = measure.weight
    BY <1>a
<1>2. Quantity * Kilo \in Nat /\ Quantity * weight \in Nat
    BY <1>a, ProductGrows
<1>3. Fees!Kilograms(Quantity, measure) \in Int
    BY <1>a, <1>1, <1>2 DEF Fees!Kilograms, Fees!NoAmount
<1>4. Fees!Bags(Quantity, measure) \in Int
    <2>. DEFINE perBag == IF measure.weight = Fees!NoWeight THEN 1 ELSE measure.weight
    <2>1. perBag \in Nat \ {0}
        BY <1>a DEF Fees!NoWeight
    <2>2. Fees!Ceiling(Quantity, perBag) \in Nat /\ Fees!Ceiling(Quantity * Kilo, perBag) \in Nat
        BY <1>a, <1>2, <2>1, CeilingIsNatural
    <2>. QED  BY <1>a, <2>2 DEF Fees!Bags, Fees!NoAmount
<1>5. PICK bags \in Int : bags = Fees!Bags(Quantity, measure)
    BY <1>4
<1>6. Kilo * bags \in Int
    BY <1>a, ProductGrows
<1>. QED  BY <1>a, <1>3, <1>5, <1>6 DEF Fees!Amount

(* Periods grow with the days.                                             *)
LEMMA PeriodsGrow ==
    ASSUME NEW type \in FeeType, NEW d \in Int, NEW e \in Int, d <= e
    PROVE  /\ Fees!Periods(type, d) \in Int /\ Fees!Periods(type, e) \in Int
           /\ Fees!Periods(type, d) <= Fees!Periods(type, e)
<1>1. type \in {"PER_MT_PER_MONTH", "PER_MT_PER_DAY", "PER_BAG_PER_WEEK", "FLAT_RATE"}
    BY FeesAssumption DEF Fees!BillingAssumption
<1>2. \A n \in {7, 30} :
          /\ Fees!Ceiling(d, n) \in Int /\ Fees!Ceiling(e, n) \in Int
          /\ Fees!Ceiling(d, n) <= Fees!Ceiling(e, n)
    BY CeilingGrows
<1>. QED  BY <1>1, <1>2 DEF Fees!Periods

(* A fee grows with the days it is charged for, even before the date of    *)
(* deposit, where they are negative.                                       *)
LEMMA FeeGrows ==
    ASSUME NEW type \in FeeType, NEW rate \in Rate, NEW measure \in Fees!CommodityRow,
           Fees!Amount(type, measure) >= 0, NEW d \in Int, NEW e \in Int, d <= e
    PROVE  /\ Fees!CalculateFee(type, rate, measure, d) \in Int
           /\ Fees!CalculateFee(type, rate, measure, d)
                  <= Fees!CalculateFee(type, rate, measure, e)
<1>1. PICK amount \in Nat : amount = Fees!Amount(type, measure)
    BY AmountsCount
<1>2. rate \in Nat
    BY FeesAssumption DEF Fees!BillingAssumption
<1>3. PICK m \in Nat : m = amount * rate
    BY <1>2, ProductGrows
<1>4. PICK p \in Int, q \in Int :
          p = Fees!Periods(type, d) /\ q = Fees!Periods(type, e) /\ p <= q
    BY PeriodsGrow
<1>5. m * p \in Int /\ m * p <= m * q
    BY <1>4, ProductGrows
<1>. QED  BY <1>1, <1>3, <1>4, <1>5 DEF Fees!CalculateFee

(* The newest of some policies.                                            *)
LEMMA NewestIsGreatest ==
    ASSUME NEW n \in Nat, NEW S \in SUBSET (1..n), S # {}
    PROVE  Fees!Newest(S) \in S /\ \A j \in S : j <= Fees!Newest(S)
BY GreatestExists DEF Fees!Newest

(* When the narrower scopes have no active policy, the newest of a scope   *)
(* is the foremost of all.                                                 *)
LEMMA NewestIsForemost ==
    ASSUME Fees!TypeOK, NEW scope \in 1..4,
           \A k \in 1..(scope - 1) : Fees!Matching(policy, Fees!Candidates[k]) = {},
           Fees!Matching(policy, Fees!Candidates[scope]) # {}
    PROVE  Foremost(Fees!Newest(Fees!Matching(policy, Fees!Candidates[scope])))
<1>. DEFINE rows == Fees!Matching(policy, Fees!Candidates[scope])
<1>0. /\ policy \in Seq(Fees!Policy) /\ Len(policy) \in Nat /\ DOMAIN policy = 1..Len(policy)
      /\ \A j \in DOMAIN policy : policy[j] \in Fees!Policy
    BY DEF Fees!TypeOK
<1>1. rows \in SUBSET (1..Len(policy)) /\ rows # {}
    BY <1>0 DEF Fees!Matching
<1>2. PICK i : i = Fees!Newest(rows)
    OBVIOUS
<1>3. i \in rows /\ \A j \in rows : j <= i
    <2>. HIDE DEF rows
    <2>. QED  BY <1>0, <1>1, <1>2, NewestIsGreatest
<1>4. /\ i \in DOMAIN policy /\ policy[i].isActive
      /\ <<policy[i].warehouse, policy[i].commodity>> = Fees!Candidates[scope]
    BY <1>3 DEF Fees!Matching
<1>5. ASSUME NEW j \in DOMAIN policy, policy[j].isActive PROVE ~Fees!Before(j, i)
    <2>1. \A k \in 1..(scope - 1) :
              <<policy[j].warehouse, policy[j].commodity>> # Fees!Candidates[k]
        BY <1>5 DEF Fees!Matching
    <2>2. <<policy[j].warehouse, policy[j].commodity>> = Fees!Candidates[scope] => j <= i
        BY <1>3, <1>5 DEF Fees!Matching
    <2>3. policy[j].warehouse \in {"this", "any"} /\ policy[j].commodity \in {"this", "any"}
        BY <1>0, <1>5 DEF Fees!Policy, Fees!Scope
    <2>4. i \in Nat /\ j \in Nat
        BY <1>0, <1>4, <1>5
    <2>5. /\ Fees!Candidates[1] = <<"this", "this">> /\ Fees!Candidates[2] = <<"this", "any">>
          /\ Fees!Candidates[3] = <<"any", "this">> /\ Fees!Candidates[4] = <<"any", "any">>
        BY DEF Fees!Candidates
    <2>6. scope = 1 \/ scope = 2 \/ scope = 3 \/ scope = 4
        OBVIOUS
    <2>7. CASE scope = 1
        <3>1. policy[i].warehouse = "this" /\ policy[i].commodity = "this"
            BY <1>4, <2>5, <2>7
        <3>. QED  BY <3>1, <2>2, <2>3, <2>4, <2>5, <2>7 DEF Fees!Before
    <2>8. CASE scope = 2
        <3>1. /\ policy[i].warehouse = "this" /\ policy[i].commodity = "any"
              /\ policy[j].warehouse = "this" => policy[j].commodity # "this"
            BY <1>4, <2>1, <2>5, <2>8
        <3>. QED  BY <3>1, <2>2, <2>3, <2>4, <2>5, <2>8 DEF Fees!Before
    <2>9. CASE scope = 3
        <3>1. /\ policy[i].warehouse = "any" /\ policy[i].commodity = "this"
              /\ policy[j].warehouse # "this"
            <4>1. policy[j].warehouse = "this" => policy[j].commodity \notin {"this", "any"}
                BY <2>1, <2>5, <2>9
            <4>. QED  BY <1>4, <2>3, <2>5, <2>9, <4>1
        <3>. QED  BY <3>1, <2>2, <2>3, <2>4, <2>5, <2>9 DEF Fees!Before
    <2>10. CASE scope = 4
        <3>1. /\ policy[i].warehouse = "any" /\ policy[i].commodity = "any"
              /\ policy[j].warehouse # "this" /\ policy[j].commodity # "this"
            <4>1. /\ policy[j].warehouse = "this" => policy[j].commodity \notin {"this", "any"}
                  /\ policy[j].warehouse = "any" => policy[j].commodity # "this"
                BY <2>1, <2>5, <2>10
            <4>. QED  BY <1>4, <2>3, <2>5, <2>10, <4>1
        <3>. QED  BY <3>1, <2>2, <2>3, <2>4, <2>5, <2>10 DEF Fees!Before
    <2>. QED  BY <2>6, <2>7, <2>8, <2>9, <2>10
<1>. QED  BY <1>2, <1>4, <1>5 DEF Foremost

(* There is one foremost policy.                                           *)
LEMMA ForemostIsOne ==
    ASSUME Fees!TypeOK, NEW i, NEW j, Foremost(i), Foremost(j)
    PROVE  i = j
<1>1. i \in Nat /\ j \in Nat
    BY DEF Fees!TypeOK, Foremost
<1>2. ~Fees!Before(i, j) /\ ~Fees!Before(j, i)
    BY DEF Foremost
<1>3. PICK p, q : /\ p = (IF policy[i].warehouse = "this" THEN 2 ELSE 0)
                           + (IF policy[i].commodity = "this" THEN 1 ELSE 0)
                  /\ q = (IF policy[j].warehouse = "this" THEN 2 ELSE 0)
                           + (IF policy[j].commodity = "this" THEN 1 ELSE 0)
    OBVIOUS
<1>4. p \in Nat /\ q \in Nat
    BY <1>3
<1>5. ~(p > q \/ (p = q /\ i > j)) /\ ~(q > p \/ (q = p /\ j > i))
    BY <1>2, <1>3 DEF Fees!Before
<1>. QED  BY <1>1, <1>4, <1>5

(* What the invariant says of the fee is what BillsFollowPolicies asks.    *)
LEMMA BillsAreHonest ==
    ASSUME BillingInv
    PROVE  Fees!ChargedNarrowest /\ Fees!BillCoversQuote
<1>1. FeesKnow(call[solo])
    BY DEF BillingInv
<1>2. Fees!ChargedNarrowest
    BY <1>1 DEF Fees!ChargedNarrowest, FeesKnow, Foremost
<1>3. Fees!BillCoversQuote
    BY <1>1 DEF Fees!BillCoversQuote, FeesKnow, Fees!At
<1>. QED  BY <1>2, <1>3

(* The fees start under the invariant.                                     *)
LEMMA BillingInit ==
    ASSUME Fees!Init
    PROVE  BillingInv
<1>. USE DEF Fees!Init
<1>1. Fees!TypeOK
    BY FeesAssumption DEF Fees!TypeOK, Fees!BillingAssumption, Fees!NoRow
<1>2. DOMAIN call = {solo} /\ FeesKnow(call[solo])
    BY DEF FeesKnow, Fees!Idle
<1>. QED  BY <1>1, <1>2 DEF BillingInv, Quoted

(* A fee has the same terms while nobody touches the policies or the       *)
(* commodity.                                                              *)
LEMMA TermsStay ==
    ASSUME UNCHANGED <<policy, commodity>>, NEW i, NEW days
    PROVE  Foremost(i)' = Foremost(i) /\ FeeOf(i, days)' = FeeOf(i, days)
<1>1. Foremost(i)' = Foremost(i)
    BY DEF Foremost, Fees!Before
<1>2. FeeOf(i, days)' = FeeOf(i, days)
    BY DEF FeeOf
<1>. QED  BY <1>1, <1>2

(* Days go by.                                                             *)
LEMMA DaysPass ==
    ASSUME NEW a \in Nat, NEW b \in Nat, a <= b, NEW d \in Nat
    PROVE  /\ Fees!Days(a, d) \in Int /\ Fees!Days(b, d) \in Int
           /\ Fees!Days(a, d) <= Fees!Days(b, d)
<1>1. a - d \in Int /\ b - d \in Int /\ a - d <= b - d
    OBVIOUS
<1>. QED  BY <1>1, CeilingGrows DEF Fees!Days

(* A quote stays one while time passes and the terms stay.                 *)
LEMMA QuoteStays ==
    ASSUME UNCHANGED <<policy, commodity>>, goods'.deposited = goods.deposited,
           now \in Nat, now' \in Nat, now <= now', goods.deposited \in Nat,
           NEW fee, QuoteOf(fee)
    PROVE  QuoteOf(fee)'
<1>1. PICK i \in DOMAIN policy, days \in Int :
          Foremost(i) /\ days <= Fees!Days(now, goods.deposited) /\ fee = FeeOf(i, days)
    BY DEF QuoteOf
<1>2. PICK k \in Int, l \in Int : /\ k = Fees!Days(now, goods.deposited)
                                  /\ l = Fees!Days(now', goods.deposited) /\ k <= l
    BY DaysPass
<1>3. Fees!Days(now, goods.deposited)' = l
    BY <1>2 DEF Fees!Days
<1>4. Foremost(i)' /\ fee = FeeOf(i, days)'
    BY <1>1, TermsStay
<1>5. days <= Fees!Days(now, goods.deposited)'
    BY <1>1, <1>2, <1>3
<1>. QED  BY <1>1, <1>4, <1>5 DEF QuoteOf

(* One handler at a time keeps the fees under the invariant.               *)
LEMMA BillingStep ==
    ASSUME BillingInv, [Fees!Next]_(Fees!vars)
    PROVE  BillingInv'
<1>. DEFINE x == call[solo]
<1>t. /\ policy \in Seq(Fees!Policy) /\ Len(policy) <= MaxPolicy
      /\ commodity \in Fees!CommodityRow /\ now \in Instant
      /\ goods \in [state : {"stored", "held", "gone"}, at : Instant, deposited : Instant]
      /\ changes \in 0..MaxChange /\ Quoted /\ Fees!TypeOK
    BY DEF BillingInv, Fees!TypeOK
<1>k. DOMAIN call = {solo} /\ FeesKnow(x)
    BY DEF BillingInv
<1>n. /\ changes \in Nat /\ now \in Nat /\ Instant \subseteq Nat /\ MaxChange \in Nat
      /\ goods.deposited \in Nat
    <2>1. changes \in Nat /\ now \in Nat /\ Instant \subseteq Nat /\ MaxChange \in Nat
        BY <1>t, FeesAssumption DEF Fees!BillingAssumption
    <2>2. goods.deposited \in Instant
        BY <1>t
    <2>. QED  BY <2>1, <2>2
<1>i. FeesKnow(Fees!Idle)
    BY DEF FeesKnow, Fees!Idle
<1>. USE DEF Fees!tables, Fees!Begin, Fees!Return, Fees!Continue, Fees!At
(* Only the handler moves: it takes up y. *)
<1>u. ASSUME NEW y, FeesKnow(y), call'[solo] = y, DOMAIN call' = {solo}, UNCHANGED Fees!tables
      PROVE  BillingInv'
    <2>1. UNCHANGED <<policy, commodity, now, withdrawal, goods, changes>>
        BY <1>u
    <2>2. FeesKnow(y)'
        BY <1>u, <2>1 DEF FeesKnow, Foremost, FeeOf, Fees!Before, Fees!Matching,
            Fees!Candidates, Fees!CalculateFee, Fees!Days, Fees!NoRow
    <2>3. FeesKnow(call[solo])'
        BY <1>u, <2>2 DEF FeesKnow
    <2>4. Quoted'
        BY <1>t, <1>n, <2>1, QuoteStays DEF Quoted, Fees!NoRow
    <2>5. Fees!TypeOK'
        BY <1>t, <2>1 DEF Fees!TypeOK, Fees!NoRow, Fees!CommodityRow, Fees!Policy, Fees!Scope
    <2>. QED  BY <1>u, <2>3, <2>4, <2>5 DEF BillingInv
<1>r. ASSUME NEW y, FeesKnow(y), call' = [call EXCEPT ![solo] = y], UNCHANGED Fees!tables
      PROVE  BillingInv'
    <2>1. call'[solo] = y /\ DOMAIN call' = {solo}
        BY <1>r, <1>k
    <2>. QED  BY <1>r, <1>u, <2>1
(* The terms change: what was read counts for nothing. *)
<1>c. ASSUME Fees!Change, policy' \in Seq(Fees!Policy), Len(policy') <= MaxPolicy,
             commodity' \in Fees!CommodityRow,
             goods' \in [state : {"stored", "held", "gone"}, at : Instant, deposited : Instant]
      PROVE  BillingInv'
    <2>1. /\ changes < MaxChange /\ changes' = changes + 1
          /\ UNCHANGED <<now, withdrawal, call>>
        BY <1>c DEF Fees!Change
    <2>2. changes' \in 0..MaxChange /\ \A n \in 0..changes : n \in 0..changes' /\ n # changes'
        BY <2>1, <1>n
    <2>3. withdrawal # Fees!NoRow => withdrawal.since \in 0..changes
        BY <1>t DEF Quoted
    <2>4. PICK y : y = x
        OBVIOUS
    <2>5. FeesKnow(y)'
        <3>1. /\ y.op # "idle" /\ y.step \in {"resolve", "write"} =>
                    y.since \in 0..changes' /\ y.since # changes'
              /\ y.op = "complete" => withdrawal.since # changes'
            BY <1>k, <2>2, <2>3, <2>4 DEF FeesKnow
        <3>. QED  BY <1>k, <2>1, <2>4, <3>1 DEF FeesKnow, Fees!NoRow
    <2>6. FeesKnow(call[solo])'
        BY <2>1, <2>4, <2>5 DEF FeesKnow
    <2>7. Quoted'
        <3>1. withdrawal # Fees!NoRow =>
                  /\ withdrawal \in [status : {"PENDING_PAYMENT", "APPROVED", "COMPLETED"},
                                     storageFee : Int, since : 0..changes']
                  /\ withdrawal.since # changes'
            BY <1>t, <2>2, <2>3 DEF Quoted
        <3>. QED  BY <2>1, <3>1 DEF Quoted, Fees!NoRow
    <2>8. Fees!TypeOK'
        BY <1>c, <1>t, <2>1, <2>2 DEF Fees!TypeOK, Fees!NoRow, Fees!CommodityRow, Fees!Policy,
            Fees!Scope
    <2>. QED  BY <1>k, <2>1, <2>6, <2>7, <2>8 DEF BillingInv
<1>1. ASSUME NEW p \in Fees!Policy,
             \/ Fees!CreatePolicy(p) \/ Fees!CreateStorageFeePolicy(p)
             \/ \E i \in DOMAIN policy : Fees!UpdatePolicy(i, p)
      PROVE  BillingInv'
    <2>1. CASE Fees!CreatePolicy(p) \/ Fees!CreateStorageFeePolicy(p)
        <3>1. /\ policy' = Append(policy, p) /\ Len(policy) < MaxPolicy
              /\ Fees!Change /\ UNCHANGED <<commodity, goods>>
            BY <2>1 DEF Fees!CreatePolicy, Fees!CreateStorageFeePolicy
        <3>2. policy' \in Seq(Fees!Policy) /\ Len(policy') = Len(policy) + 1
            BY <1>t, <3>1
        <3>3. Len(policy') <= MaxPolicy
            BY <1>t, <3>1, <3>2, FeesAssumption DEF Fees!BillingAssumption
        <3>. QED  BY <3>1, <3>2, <3>3, <1>c, <1>t
    <2>2. ASSUME NEW i \in DOMAIN policy, Fees!UpdatePolicy(i, p)
          PROVE  BillingInv'
        <3>. DEFINE row == [p EXCEPT !.isActive = policy[i].isActive]
        <3>1. policy[i] \in Fees!Policy
            BY <1>t
        <3>2. row \in Fees!Policy
            BY <3>1 DEF Fees!Policy
        <3>3. policy' = [policy EXCEPT ![i] = row] /\ Fees!Change /\ UNCHANGED <<commodity, goods>>
            BY <2>2 DEF Fees!UpdatePolicy
        <3>. HIDE DEF row
        <3>4. policy' \in Seq(Fees!Policy) /\ Len(policy') = Len(policy)
            BY <1>t, <3>2, <3>3
        <3>. QED  BY <3>3, <3>4, <1>c, <1>t
    <2>. QED  BY <1>1, <2>1, <2>2
<1>2. ASSUME NEW i \in DOMAIN policy, NEW active \in BOOLEAN, Fees!SetActive(i, active)
      PROVE  BillingInv'
    <2>. DEFINE row == [policy[i] EXCEPT !.isActive = active]
    <2>1. policy[i] \in Fees!Policy
        BY <1>t
    <2>2. row \in Fees!Policy
        BY <2>1 DEF Fees!Policy
    <2>3. policy' = [policy EXCEPT ![i] = row] /\ Fees!Change /\ UNCHANGED <<commodity, goods>>
        BY <1>2 DEF Fees!SetActive
    <2>. HIDE DEF row
    <2>4. policy' \in Seq(Fees!Policy) /\ Len(policy') = Len(policy)
        BY <1>t, <2>2, <2>3
    <2>. QED  BY <2>3, <2>4, <1>c, <1>t
<1>3. ASSUME NEW row \in Fees!CommodityRow, Fees!UpdateCommodity(row)
      PROVE  BillingInv'
    BY <1>3, <1>c, <1>t DEF Fees!UpdateCommodity
<1>d. ASSUME NEW instant \in Instant, Fees!CorrectDate(instant)
      PROVE  BillingInv'
    BY <1>d, <1>c, <1>t DEF Fees!CorrectDate
<1>4. ASSUME NEW instant \in Instant, Fees!Pass(instant)
      PROVE  BillingInv'
    <2>1. /\ now' = instant /\ now <= instant
          /\ UNCHANGED <<policy, commodity, withdrawal, goods, changes, call>>
        BY <1>4, <1>n DEF Fees!Pass
    <2>2. PICK y : y = x
        OBVIOUS
    <2>3. PICK k \in Int, l \in Int : /\ k = Fees!Days(now, goods.deposited)
                                      /\ l = Fees!Days(now', goods.deposited) /\ k <= l
        BY <1>n, <2>1, DaysPass
    <2>4. Fees!Days(now, goods.deposited)' = l
        BY <2>1, <2>3 DEF Fees!Days
    <2>5. \A d \in Int : d <= Fees!Days(now, goods.deposited) => d <= Fees!Days(now, goods.deposited)'
        BY <2>3, <2>4
    <2>6. FeesKnow(y)'
        BY <1>k, <2>1, <2>2, <2>5, TermsStay DEF FeesKnow, Fees!Matching, Fees!Candidates,
            Fees!CommodityRow, Fees!NoRow
    <2>7. FeesKnow(call[solo])'
        BY <2>1, <2>2, <2>6 DEF FeesKnow
    <2>8. Quoted'
        BY <1>t, <1>n, <2>1, QuoteStays DEF Quoted, Fees!NoRow
    <2>9. Fees!TypeOK'
        BY <1>t, <2>1 DEF Fees!TypeOK, Fees!NoRow, Fees!CommodityRow, Fees!Policy, Fees!Scope
    <2>. QED  BY <1>k, <2>1, <2>7, <2>8, <2>9 DEF BillingInv
(* The row of the withdrawal changes, and nothing else but the handler. *)
<1>w. ASSUME UNCHANGED <<policy, commodity, now, changes>>,
             goods' \in [state : {"stored", "held", "gone"}, at : Instant, deposited : Instant],
             goods'.deposited = goods.deposited,
             withdrawal' \in [status : {"PENDING_PAYMENT", "APPROVED", "COMPLETED"},
                              storageFee : Int, since : 0..changes],
             withdrawal'.status # "COMPLETED" /\ withdrawal'.since = changes =>
                 QuoteOf(withdrawal'.storageFee),
             call'[solo].op = "idle", DOMAIN call' = {solo}
      PROVE  BillingInv'
    <2>1. FeesKnow(call[solo])'
        BY <1>w DEF FeesKnow
    <2>2. PICK row : row = withdrawal'
        OBVIOUS
    <2>3. row.status # "COMPLETED" /\ row.since = changes => QuoteOf(row.storageFee)'
        BY <1>n, <1>w, <2>2, QuoteStays
    <2>4. Quoted'
        BY <1>w, <2>2, <2>3 DEF Quoted
    <2>5. Fees!TypeOK'
        BY <1>t, <1>w DEF Fees!TypeOK, Fees!CommodityRow, Fees!Policy, Fees!Scope
    <2>. QED  BY <1>w, <2>1, <2>4, <2>5 DEF BillingInv
<1>5. CASE Fees!PayAndApprove
    <2>1. /\ withdrawal.status = "PENDING_PAYMENT"
          /\ withdrawal' = [withdrawal EXCEPT !.status = "APPROVED"]
          /\ goods' = [goods EXCEPT !.state = "held", !.at = now]
          /\ UNCHANGED <<policy, commodity, now, changes, call>>
        BY <1>5 DEF Fees!PayAndApprove
    <2>2. withdrawal # Fees!NoRow
        BY <2>1 DEF Fees!NoRow
    <2>3. withdrawal \in [status : {"PENDING_PAYMENT", "APPROVED", "COMPLETED"},
                          storageFee : Int, since : 0..changes]
        BY <1>t, <2>2 DEF Quoted
    <2>4. /\ withdrawal' \in [status : {"PENDING_PAYMENT", "APPROVED", "COMPLETED"},
                              storageFee : Int, since : 0..changes]
          /\ withdrawal'.storageFee = withdrawal.storageFee
          /\ withdrawal'.since = withdrawal.since
        BY <2>1, <2>3
    <2>5. x.op = "idle"
        BY <1>k, <2>1, <2>2 DEF FeesKnow
    <2>6. withdrawal'.since = changes => QuoteOf(withdrawal'.storageFee)
        BY <1>t, <2>1, <2>2, <2>4 DEF Quoted
    <2>7. /\ goods' \in [state : {"stored", "held", "gone"}, at : Instant, deposited : Instant]
          /\ goods'.deposited = goods.deposited
        BY <1>t, <2>1
    <2>. QED  BY <1>k, <1>w, <2>1, <2>4, <2>5, <2>6, <2>7
<1>6. CASE Fees!CreateLoad(solo)
    <2>1. FeesKnow(Fees!Resolving("create"))
        BY <1>6, <1>t, <1>n DEF FeesKnow, Fees!Resolving, Fees!CreateLoad
    <2>. QED  BY <1>6, <2>1, <1>r DEF Fees!CreateLoad
<1>7. CASE Fees!CompleteLoad(solo)
    <2>1. FeesKnow([op |-> "complete", step |-> "consume"])
        BY <1>7 DEF FeesKnow, Fees!CompleteLoad, Fees!NoRow
    <2>. QED  BY <1>7, <2>1, <1>r DEF Fees!CompleteLoad
<1>8. CASE Fees!CompleteConsume(solo)
    <2>. DEFINE y == [op |-> "complete", step |-> "read"]
    <2>1. /\ goods' \in [state : {"stored", "held", "gone"}, at : Instant, deposited : Instant]
          /\ goods'.deposited = goods.deposited
          /\ call' = [call EXCEPT ![solo] = y] /\ x.op = "complete"
          /\ UNCHANGED <<policy, commodity, now, withdrawal, changes>>
        BY <1>8, <1>t DEF Fees!CompleteConsume
    <2>2. call'[solo] = y /\ DOMAIN call' = {solo}
        BY <1>k, <2>1
    <2>3. FeesKnow(y)'
        BY <1>k, <2>1 DEF FeesKnow, Fees!NoRow
    <2>4. FeesKnow(call[solo])'
        BY <2>2, <2>3 DEF FeesKnow
    <2>5. Quoted'
        BY <1>t, <1>n, <2>1, QuoteStays DEF Quoted, Fees!NoRow
    <2>6. Fees!TypeOK'
        BY <1>t, <2>1 DEF Fees!TypeOK, Fees!NoRow, Fees!CommodityRow, Fees!Policy, Fees!Scope
    <2>. QED  BY <2>2, <2>4, <2>5, <2>6 DEF BillingInv
<1>9. CASE Fees!CompleteRead(solo)
    <2>1. withdrawal # Fees!NoRow => withdrawal.since <= changes
        BY <1>t, <1>n DEF Quoted
    <2>2. FeesKnow(Fees!Resolving("complete"))
        BY <1>9, <1>k, <1>t, <1>n, <2>1 DEF FeesKnow, Fees!Resolving, Fees!CompleteRead
    <2>. QED  BY <1>9, <2>2, <1>r DEF Fees!CompleteRead
<1>10. CASE Fees!Resolve(solo)
    <2>0. /\ x.op \in {"create", "complete"} /\ x.step = "resolve"
          /\ UNCHANGED Fees!tables
        BY <1>10 DEF Fees!Resolve
    <2>s. PICK scope : scope = x.scope
        OBVIOUS
    <2>. DEFINE rows == Fees!Matching(policy, Fees!Candidates[scope])
    <2>1. CASE /\ rows = {} /\ scope < Len(Fees!Candidates)
               /\ call' = [call EXCEPT ![solo] = [x EXCEPT !.scope = @ + 1]]
        <3>1. PICK y : y = [x EXCEPT !.scope = @ + 1]
            OBVIOUS
        <3>2. Len(Fees!Candidates) = 4
            BY DEF Fees!Candidates
        <3>3. scope \in 1..4
            BY <2>0, <2>s, <1>k DEF FeesKnow
        <3>4. scope + 1 \in 1..4 /\ \A k \in 1..((scope + 1) - 1) : k \in 1..(scope - 1) \/ k = scope
            BY <2>1, <3>2, <3>3
        <3>5. /\ y.op = x.op /\ y.step = "resolve" /\ y.since = x.since
              /\ y.measure = x.measure /\ y.deposited = x.deposited
              /\ "scope" \in DOMAIN x => y.scope = scope + 1
            BY <3>1, <2>0, <2>s
        <3>6. "scope" \in DOMAIN x
            BY <2>0, <1>k DEF FeesKnow
        <3>7. "scope" \in DOMAIN y /\ y.scope = scope + 1
            BY <3>1, <3>5, <3>6
        <3>8. /\ x.since \in 0..changes
              /\ x.measure \in Fees!CommodityRow /\ x.deposited \in Instant
              /\ x.since = changes =>
                    /\ x.measure = commodity /\ x.deposited = goods.deposited
                    /\ \A k \in 1..(scope - 1) : Fees!Matching(policy, Fees!Candidates[k]) = {}
            BY <2>0, <2>s, <1>k DEF FeesKnow
        <3>9. x.since = changes =>
                  \A k \in 1..(y.scope - 1) : Fees!Matching(policy, Fees!Candidates[k]) = {}
            BY <3>4, <3>7, <3>8, <2>1
        <3>10. /\ x.op \in {"idle", "create", "complete"}
               /\ x.op = "create" => withdrawal = Fees!NoRow
               /\ x.op = "complete" =>
                     /\ withdrawal # Fees!NoRow /\ withdrawal.status = "APPROVED"
                     /\ withdrawal.since <= x.since
            BY <2>0, <1>k DEF FeesKnow
        <3>11. FeesKnow(y)
            BY <3>4, <3>5, <3>7, <3>8, <3>9, <3>10, <2>0 DEF FeesKnow
        <3>. QED  BY <2>0, <2>1, <3>1, <3>11, <1>r
    <2>2. CASE rows # {}
        <3>0. PICK i : i = Fees!Newest(rows)
            OBVIOUS
        <3>1. PICK days, fee :
                  /\ days = Fees!Days(now, x.deposited)
                  /\ fee = Fees!CalculateFee(policy[i].feeType, policy[i].rate, x.measure, days)
            OBVIOUS
        <3>. DEFINE y == [op |-> x.op, step |-> "write", policy |-> i,
                          since |-> x.since, days |-> days, fee |-> fee]
        <3>2. Fees!Amount(policy[i].feeType, x.measure) >= 0 /\ call' = [call EXCEPT ![solo] = y]
            BY <1>10, <2>2, <2>s, <3>0, <3>1 DEF Fees!Resolve
        <3>3. /\ scope \in 1..4 /\ x.since \in 0..changes
              /\ x.measure \in Fees!CommodityRow /\ x.deposited \in Instant
              /\ x.since = changes =>
                    /\ x.measure = commodity /\ x.deposited = goods.deposited
                    /\ \A k \in 1..(scope - 1) : Fees!Matching(policy, Fees!Candidates[k]) = {}
            BY <2>0, <2>s, <1>k DEF FeesKnow
        <3>4. i \in DOMAIN policy
            <4>1. Len(policy) \in Nat /\ rows \in SUBSET (1..Len(policy))
                BY <1>t DEF Fees!Matching
            <4>2. i \in rows
                <5>. HIDE DEF rows
                <5>. QED  BY <2>2, <3>0, <4>1, NewestIsGreatest
            <4>. QED  BY <4>2 DEF Fees!Matching
        <3>5. policy[i].feeType \in FeeType /\ policy[i].rate \in Rate
            <4>1. policy[i] \in Fees!Policy
                BY <1>t, <3>4
            <4>. QED  BY <4>1 DEF Fees!Policy
        <3>d. days \in Int
            <4>1. PICK d \in Nat : d = x.deposited
                BY <3>3, <1>n
            <4>2. Fees!Days(now, d) \in Int
                BY <1>n, DaysPass
            <4>. QED  BY <3>1, <4>1, <4>2
        <3>6. fee \in Int
            BY <3>d, <3>1, <3>2, <3>3, <3>5, FeeGrows
        <3>7. x.since = changes =>
                  /\ Foremost(i) /\ fee = FeeOf(i, days)
                  /\ days <= Fees!Days(now, goods.deposited)
            <4>1. x.since = changes => Foremost(i)
                BY <1>t, <2>2, <3>0, <3>3, NewestIsForemost
            <4>2. x.since = changes => fee = FeeOf(i, days)
                BY <3>1, <3>3 DEF FeeOf
            <4>3. x.since = changes => days = Fees!Days(now, goods.deposited)
                BY <3>1, <3>3
            <4>. QED  BY <3>d, <4>1, <4>2, <4>3
        <3>8. x.op = "complete" /\ withdrawal.since = changes => fee >= withdrawal.storageFee
            <4>. SUFFICES ASSUME x.op = "complete", withdrawal.since = changes
                          PROVE  fee >= withdrawal.storageFee
                OBVIOUS
            <4>1. /\ withdrawal # Fees!NoRow /\ withdrawal.status = "APPROVED"
                  /\ withdrawal.since <= x.since
                BY <2>0, <1>k DEF FeesKnow
            <4>2. x.since = changes
                BY <4>1, <3>3, <1>n
            <4>3. QuoteOf(withdrawal.storageFee)
                BY <4>1, <1>t DEF Quoted
            <4>4. PICK j \in DOMAIN policy, d \in Int :
                      /\ Foremost(j) /\ d <= Fees!Days(now, goods.deposited)
                      /\ withdrawal.storageFee = FeeOf(j, d)
                BY <4>3 DEF QuoteOf
            <4>5. j = i
                BY <3>7, <4>2, <4>4, <1>t, ForemostIsOne
            <4>6. /\ withdrawal.storageFee = Fees!CalculateFee(policy[i].feeType, policy[i].rate, x.measure, d)
                  /\ d <= days
                BY <3>1, <3>3, <4>2, <4>4, <4>5 DEF FeeOf
            <4>7. withdrawal.storageFee <= fee /\ withdrawal.storageFee \in Int
                BY <3>d, <3>1, <3>2, <3>3, <3>5, <4>6, FeeGrows
            <4>. QED  BY <3>6, <4>7
        <3>10. FeesKnow(y)
            <4>1. /\ x.op = "create" => withdrawal = Fees!NoRow
                  /\ x.op = "complete" =>
                        /\ withdrawal # Fees!NoRow /\ withdrawal.status = "APPROVED"
                        /\ withdrawal.since <= x.since
                BY <2>0, <1>k DEF FeesKnow
            <4>. QED  BY <4>1, <2>0, <3>3, <3>d, <3>6, <3>7, <3>8 DEF FeesKnow
        <3>. HIDE DEF y
        <3>. QED  BY <2>0, <3>2, <3>10, <1>r
    <2>. QED  BY <1>10, <2>1, <2>2, <2>s DEF Fees!Resolve
<1>11. CASE Fees!CreateWrite(solo)
    <2>1. /\ x.op = "create" /\ x.step = "write"
          /\ withdrawal' = [status |-> "PENDING_PAYMENT", storageFee |-> x.fee, since |-> x.since]
          /\ call' = [call EXCEPT ![solo] = Fees!Idle]
          /\ UNCHANGED <<policy, commodity, now, goods, changes>>
        BY <1>11 DEF Fees!CreateWrite
    <2>2. /\ x.since \in 0..changes /\ x.fee \in Int /\ x.days \in Int
          /\ x.since = changes =>
                /\ Foremost(x.policy) /\ x.fee = FeeOf(x.policy, x.days)
                /\ x.days <= Fees!Days(now, goods.deposited)
        BY <2>1, <1>k DEF FeesKnow
    <2>3. /\ withdrawal' \in [status : {"PENDING_PAYMENT", "APPROVED", "COMPLETED"},
                              storageFee : Int, since : 0..changes]
          /\ withdrawal'.since = x.since /\ withdrawal'.storageFee = x.fee
        BY <2>1, <2>2
    <2>4. call'[solo].op = "idle" /\ DOMAIN call' = {solo}
        BY <2>1, <1>k DEF Fees!Idle
    <2>5. x.since = changes => QuoteOf(x.fee)
        <3>1. x.since = changes => x.policy \in DOMAIN policy
            BY <2>2 DEF Foremost
        <3>. QED  BY <2>2, <3>1 DEF QuoteOf
    <2>. QED  BY <2>1, <2>2, <2>3, <2>4, <2>5, <1>t, <1>w
<1>12. CASE Fees!CompleteWrite(solo)
    <2>1. /\ x.op = "complete" /\ x.step = "write"
          /\ withdrawal' = [withdrawal EXCEPT !.status = "COMPLETED", !.storageFee = x.fee]
          /\ call' = [call EXCEPT ![solo] = Fees!Idle]
          /\ UNCHANGED <<policy, commodity, now, goods, changes>>
        BY <1>12 DEF Fees!CompleteWrite
    <2>2. x.fee \in Int /\ withdrawal # Fees!NoRow
        BY <2>1, <1>k DEF FeesKnow
    <2>3. withdrawal \in [status : {"PENDING_PAYMENT", "APPROVED", "COMPLETED"},
                          storageFee : Int, since : 0..changes]
        BY <1>t, <2>2 DEF Quoted
    <2>4. /\ withdrawal' \in [status : {"PENDING_PAYMENT", "APPROVED", "COMPLETED"},
                              storageFee : Int, since : 0..changes]
          /\ withdrawal'.status = "COMPLETED"
        BY <2>1, <2>2, <2>3
    <2>5. call'[solo].op = "idle" /\ DOMAIN call' = {solo}
        BY <2>1, <1>k DEF Fees!Idle
    <2>. QED  BY <2>1, <2>4, <2>5, <1>t, <1>w
<1>13. CASE Fees!Abort(solo)
    BY <1>13, <1>i, <1>r DEF Fees!Abort, Fees!Abandon
<1>14. CASE UNCHANGED Fees!vars
    <2>1. UNCHANGED <<policy, commodity, now, withdrawal, goods, changes, call>>
        BY <1>14 DEF Fees!vars
    <2>2. PICK y : y = x
        OBVIOUS
    <2>. QED  BY <1>k, <1>u, <2>1, <2>2
<1>. QED  BY <1>1, <1>2, <1>3, <1>d, <1>4, <1>5, <1>6, <1>7, <1>8, <1>9, <1>10, <1>11,
             <1>12, <1>13, <1>14 DEF Fees!Next

-----------------------------------------------------------------------------
(* Grading, with one handler, from its own theorems.                       *)
Graded == INSTANCE GradingProofs WITH Call <- {solo}

GradesInv == Graded!ReceiptTyped /\ Graded!Explained

(* The grading starts under its invariant.                                 *)
LEMMA GradesInit ==
    ASSUME Grades!Init
    PROVE  GradesInv
<1>1. Graded!Init /\ Graded!GradingAssumption
    BY GradesAssumption DEF Grades!Init, Graded!Init, Grades!Grade, Graded!Grade,
        Grades!NoParameter, Graded!NoParameter, Grades!NoDeposit, Graded!NoDeposit,
        Grades!Idle, Graded!Idle, Grades!GradingAssumption, Graded!GradingAssumption
<1>2. Graded!ReceiptTyped
    BY <1>1, Graded!TypesInit
<1>3. Graded!Explained
    BY <1>1 DEF Graded!Init, Graded!Explained, Graded!GradesExplained, Graded!Idle
<1>. QED  BY <1>2, <1>3 DEF GradesInv

(* Grading with its theorems is the grading of the registers.              *)
LEMMA GradesSame ==
    /\ Grades!Next <=> Graded!Next
    /\ Grades!vars = Graded!vars
    /\ Grades!TypeOK <=> Graded!TypeOK
    /\ Grades!WorseNeverGradesBetter <=> Graded!WorseNeverGradesBetter
    /\ Grades!GradesExplained <=> Graded!GradesExplained
<1>1. Grades!Next <=> Graded!Next
    BY DEF Grades!Next, Grades!AddLoad, Grades!Upsert, Grades!Update, Grades!Rename,
        Grades!Delete, Grades!UpdateCommodity, Grades!CreateLoad, Grades!EditLoad,
        Grades!AddCreate, Grades!CreateDeposit, Grades!EditWrite, Grades!Abort, Grades!Abandon,
        Grades!Begin, Grades!Return, Grades!At, Grades!Idle, Grades!Change, Grades!config,
        Grades!Passing, Grades!Sample, Grades!PerParameter, Grades!AssignedGrade,
        Grades!Admitting, Grades!Best, Grades!Worst, Grades!ComputedGrade, Grades!Configured,
        Grades!Given, Grades!Chosen, Grades!Blank, Grades!NextGrade, Grades!NextComputed,
        Grades!NoGrade, Grades!NoScores,
        Grades!NoParameter, Grades!NoDeposit, Grades!Rejected, Grades!Thresholds,
        Grades!Measure, Grades!Grade,
        Graded!Next, Graded!AddLoad, Graded!Upsert, Graded!Update, Graded!Rename,
        Graded!Delete, Graded!UpdateCommodity, Graded!CreateLoad, Graded!EditLoad,
        Graded!AddCreate, Graded!CreateDeposit, Graded!EditWrite, Graded!Abort, Graded!Abandon,
        Graded!Begin, Graded!Return, Graded!At, Graded!Idle, Graded!Change, Graded!config,
        Graded!Passing, Graded!Sample, Graded!PerParameter, Graded!AssignedGrade,
        Graded!Admitting, Graded!Best, Graded!Worst, Graded!ComputedGrade, Graded!Configured,
        Graded!Given, Graded!Chosen, Graded!Blank, Graded!NextGrade, Graded!NextComputed,
        Graded!NoGrade, Graded!NoScores,
        Graded!NoParameter, Graded!NoDeposit, Graded!Rejected, Graded!Thresholds,
        Graded!Measure, Graded!Grade
<1>2. Grades!vars = Graded!vars
    BY DEF Grades!vars, Graded!vars
<1>3. Grades!TypeOK <=> Graded!TypeOK
    BY DEF Grades!TypeOK, Grades!Grade, Grades!Row, Grades!NoParameter, Grades!Receipt,
        Grades!NoDeposit, Grades!Scores, Grades!Thresholds, Grades!Measure, Grades!Blank,
        Graded!TypeOK, Graded!Grade, Graded!Row, Graded!NoParameter, Graded!Receipt,
        Graded!NoDeposit, Graded!Scores, Graded!Thresholds, Graded!Measure, Graded!Blank
<1>4. Grades!WorseNeverGradesBetter <=> Graded!WorseNeverGradesBetter
    BY DEF Grades!WorseNeverGradesBetter, Grades!Sample, Grades!Configured,
        Grades!NoParameter, Grades!NoBetter, Grades!Rejected, Grades!ComputedGrade,
        Grades!PerParameter, Grades!AssignedGrade, Grades!Admitting, Grades!Best,
        Grades!Worst, Grades!Measure,
        Graded!WorseNeverGradesBetter, Graded!Sample, Graded!Configured,
        Graded!NoParameter, Graded!NoBetter, Graded!Rejected, Graded!ComputedGrade,
        Graded!PerParameter, Graded!AssignedGrade, Graded!Admitting, Graded!Best,
        Graded!Worst, Graded!Measure
<1>5. Grades!GradesExplained <=> Graded!GradesExplained
    BY DEF Grades!GradesExplained, Grades!NoDeposit, Grades!ComputedGrade, Grades!Rejected,
        Grades!Worst, Grades!Blank, Graded!GradesExplained, Graded!NoDeposit,
        Graded!ComputedGrade, Graded!Rejected, Graded!Worst, Graded!Blank
<1>. QED  BY <1>1, <1>2, <1>3, <1>4, <1>5

(* A step of the grading keeps its invariant.                              *)
LEMMA GradesStep ==
    ASSUME GradesInv, [Grades!Next]_(Grades!vars)
    PROVE  GradesInv'
<1>1. [Graded!Next]_(Graded!vars) /\ Graded!GradingAssumption
    BY GradesSame, GradesAssumption DEF Grades!GradingAssumption, Graded!GradingAssumption,
        Grades!vars, Graded!vars
<1>2. Graded!ReceiptTyped'
    BY <1>1, Graded!TypesStep DEF GradesInv
<1>3. Graded!Explained'
    BY <1>1, Graded!ExplainedStep DEF GradesInv
<1>. QED  BY <1>2, <1>3 DEF GradesInv

(* The invariant of the grading gives its promises.                        *)
LEMMA GradesFair ==
    ASSUME GradesInv
    PROVE  Grades!TypeOK /\ Grades!WorseNeverGradesBetter /\ Grades!GradesExplained
<1>1. Graded!GradingAssumption /\ Graded!Config
    BY GradesAssumption DEF GradesInv, Graded!ReceiptTyped, Grades!GradingAssumption,
        Graded!GradingAssumption
<1>2. Graded!WorseNeverGradesBetter
    BY <1>1, Graded!ConfigGradesFairly
<1>3. Graded!TypeOK /\ Graded!GradesExplained
    BY DEF GradesInv, Graded!ReceiptTyped, Graded!Explained
<1>. QED  BY <1>2, <1>3, GradesSame

-----------------------------------------------------------------------------
(* The registers together: a behaviour follows one scene, and keeps the    *)
(* invariant of its register.                                              *)
SceneInv ==
    /\ scene = "partners" => PartnersSolo(Pledge)
    /\ scene = "racing partners" => PartnersInv(RacingPledge, Pair)
    /\ scene = "staffing" => RosterInv
    /\ scene = "enrolling" => EnrolmentSolo(Registry)
    /\ scene = "racing enrolment" => EnrolmentInv(RacingRegistry, Pair)
    /\ scene = "clients" => ClientsInv
    /\ scene = "security" => SecuritySolo(Issue)
    /\ scene = "racing security" => SecurityInv(RacingIssue, Pair)
    /\ scene = "grading" => GradesInv
    /\ scene = "billing" => BillingInv

(* The bounds of account security are numbers.                             *)
LEMMA IssuesAreNumbers ==
    /\ MaxAttempts \in Nat \ {0}
    /\ Issue.codes \in Nat /\ Issue.links \in Nat
    /\ RacingIssue.codes \in Nat /\ RacingIssue.links \in Nat
BY SecurityAssumption DEF Security!SecurityAssumption, Issue, RacingIssue

(* The tables of the chosen register start as its module says.             *)
LEMMA SceneStarts ==
    ASSUME Init
    PROVE  SceneInv
<1>1. /\ scene = "partners" => Partners(Pledge, {solo})!Init
      /\ scene = "racing partners" => Partners(RacingPledge, Pair)!Init
      /\ scene = "staffing" => Staffing!Init
      /\ scene = "enrolling" => Enrolling(Registry, {solo})!Init
      /\ scene = "racing enrolment" => Enrolling(RacingRegistry, Pair)!Init
      /\ scene = "clients" => Clients!Init
      /\ scene = "security" => Security(Issue, {solo})!Init
      /\ scene = "racing security" => Security(RacingIssue, Pair)!Init
      /\ scene = "grading" => Grades!Init
      /\ scene = "billing" => Fees!Init
    BY DEF Init
<1>2. /\ scene = "partners" => PartnersSolo(Pledge)
      /\ scene = "racing partners" => PartnersInv(RacingPledge, Pair)
    BY <1>1, PartnersSoloInit, PartnersInit
<1>3. /\ scene = "enrolling" => EnrolmentSolo(Registry)
      /\ scene = "racing enrolment" => EnrolmentInv(RacingRegistry, Pair)
    BY <1>1, RegistriesOK, EnrolmentSoloInit, EnrolmentInit
<1>4. /\ scene = "security" => SecuritySolo(Issue)
      /\ scene = "racing security" => SecurityInv(RacingIssue, Pair)
    BY <1>1, IssuesAreNumbers, SecuritySoloInit, SecurityInit
<1>5. /\ scene = "staffing" => RosterInv
      /\ scene = "clients" => ClientsInv
      /\ scene = "grading" => GradesInv
      /\ scene = "billing" => BillingInv
    BY <1>1, RosterInit, ClientsInit, GradesInit, BillingInit
<1>. QED  BY <1>2, <1>3, <1>4, <1>5 DEF SceneInv

(* A step of the registers is a step of the register of the scene.         *)
LEMMA SceneMoves ==
    ASSUME [Next]_vars
    PROVE  /\ scene' = scene
           /\ scene = "partners" =>
                 [Partners(Pledge, {solo})!Next]_(Partners(Pledge, {solo})!vars)
           /\ scene = "racing partners" =>
                 [Partners(RacingPledge, Pair)!Next]_(Partners(RacingPledge, Pair)!vars)
           /\ scene = "staffing" => [Staffing!Next]_(Staffing!vars)
           /\ scene = "enrolling" =>
                 [Enrolling(Registry, {solo})!Next]_(Enrolling(Registry, {solo})!vars)
           /\ scene = "racing enrolment" =>
                 [Enrolling(RacingRegistry, Pair)!Next]_(Enrolling(RacingRegistry, Pair)!vars)
           /\ scene = "clients" => [Clients!Next]_(Clients!vars)
           /\ scene = "security" =>
                 [Security(Issue, {solo})!Next]_(Security(Issue, {solo})!vars)
           /\ scene = "racing security" =>
                 [Security(RacingIssue, Pair)!Next]_(Security(RacingIssue, Pair)!vars)
           /\ scene = "grading" => [Grades!Next]_(Grades!vars)
           /\ scene = "billing" => [Fees!Next]_(Fees!vars)
<1>1. CASE Next
    BY <1>1 DEF Next
<1>2. CASE UNCHANGED vars
    <2>1. UNCHANGED <<scene, call, changes, partners, roster, enrolment, clientele, security,
                      grading, billing>>
        BY <1>2 DEF vars
    <2>2. /\ UNCHANGED Partners(Pledge, {solo})!vars
          /\ UNCHANGED Partners(RacingPledge, Pair)!vars
        BY <2>1 DEF partners, Partners!vars
    <2>3. UNCHANGED Staffing!vars
        BY <2>1 DEF roster, Staffing!vars
    <2>4. /\ UNCHANGED Enrolling(Registry, {solo})!vars
          /\ UNCHANGED Enrolling(RacingRegistry, Pair)!vars
        BY <2>1 DEF enrolment, Enrolling!vars
    <2>5. UNCHANGED Clients!vars
        BY <2>1 DEF clientele, Clients!vars
    <2>6. /\ UNCHANGED Security(Issue, {solo})!vars
          /\ UNCHANGED Security(RacingIssue, Pair)!vars
        BY <2>1 DEF security, Security!vars
    <2>7. UNCHANGED Grades!vars /\ UNCHANGED Fees!vars
        BY <2>1 DEF grading, billing, Grades!vars, Fees!vars
    <2>. QED  BY <2>1, <2>2, <2>3, <2>4, <2>5, <2>6, <2>7
<1>. QED  BY <1>1, <1>2

(* What a step of the scene's register honours.                            *)
SceneHonours ==
    /\ scene = "partners" => PartnersHonour(Pledge)
    /\ scene = "clients" => ClientsHonour
    /\ scene = "racing security" => Security(RacingIssue, Pair)!ResetEndsLinks

(* A step of the scene's register keeps the invariant of that register.    *)
LEMMA SceneStep ==
    ASSUME SceneInv, [Next]_vars
    PROVE  SceneInv' /\ SceneHonours
<1>1. scene' = scene
    BY SceneMoves
<1>2. scene = "partners" => PartnersSolo(Pledge)' /\ PartnersHonour(Pledge)
    BY SceneMoves, PartnersSoloStep DEF SceneInv
<1>3. scene = "racing partners" => PartnersInv(RacingPledge, Pair)'
    BY SceneMoves, PartnersStep DEF SceneInv
<1>4. scene = "staffing" => RosterInv'
    BY SceneMoves, RosterStep DEF SceneInv
<1>5. scene = "enrolling" => EnrolmentSolo(Registry)'
    BY SceneMoves, RegistriesOK, EnrolmentSoloStep DEF SceneInv
<1>6. scene = "racing enrolment" => EnrolmentInv(RacingRegistry, Pair)'
    BY SceneMoves, RegistriesOK, EnrolmentStep DEF SceneInv
<1>7. scene = "clients" => ClientsInv' /\ ClientsHonour
    BY SceneMoves, ClientsStep DEF SceneInv
<1>8. scene = "security" => SecuritySolo(Issue)'
    BY SceneMoves, IssuesAreNumbers, SecuritySoloStep DEF SceneInv
<1>9. scene = "racing security" =>
          SecurityInv(RacingIssue, Pair)' /\ Security(RacingIssue, Pair)!ResetEndsLinks
    BY SceneMoves, IssuesAreNumbers, SecurityStep DEF SceneInv
<1>10. scene = "grading" => GradesInv'
    BY SceneMoves, GradesStep DEF SceneInv
<1>11. scene = "billing" => BillingInv'
    BY SceneMoves, BillingStep DEF SceneInv
<1>. QED  BY <1>1, <1>2, <1>3, <1>4, <1>5, <1>6, <1>7, <1>8, <1>9, <1>10, <1>11
           DEF SceneInv, SceneHonours

(* Whatever register a behaviour follows and however many handlers are in  *)
(* it, its tables and what its handlers carry stay as that register's      *)
(* invariant says: every service module around the ledger, from its Init.  *)
THEOREM RegistersInvariance == Spec => []SceneInv
<1>1. Init => SceneInv
    BY SceneStarts
<1>2. SceneInv /\ [Next]_vars => SceneInv'
    BY SceneStep
<1>. QED  BY <1>1, <1>2, PTL DEF Spec

-----------------------------------------------------------------------------
(* The promises of the registers.                                          *)

(* However requests overlap, no goods are pledged to a financier whose     *)
(* agreement with the warehouse was never signed (createPledge,            *)
(* approveWarehouseLink); one request at a time, a financier and a         *)
(* warehouse have one engagement, a link with a reason was never signed    *)
(* and a client has one active attachment (onboardWarehouse,               *)
(* rejectWarehouseLink, attachClientToWarehouse, createDeposit).           *)
THEOREM LinksAreAlwaysSigned == Spec => []OneSignedLink
<1>1. ASSUME SceneInv
      PROVE  OneSignedLink
    <2>1. scene = "racing partners" =>
              /\ Partners(RacingPledge, Pair)!TypeOK
              /\ Partners(RacingPledge, Pair)!PledgedUnderSignature
        BY <1>1 DEF SceneInv, PartnersInv
    <2>2. scene = "partners" =>
              /\ Partners(Pledge, {solo})!TypeOK
              /\ Partners(Pledge, {solo})!OneEngagement
              /\ Partners(Pledge, {solo})!ReasonMeansRejected
        BY <1>1, EngagedOnce DEF SceneInv, PartnersSolo, PartnersInv, LinksFit
    <2>3. scene = "clients" => Clients!TypeOK /\ Clients!OneActiveAttachment
        BY <1>1, AttachmentsCountedOnce DEF SceneInv, ClientsInv
    <2>. QED  BY <2>1, <2>2, <2>3 DEF OneSignedLink
<1>. QED  BY <1>1, RegistersInvariance, PTL

(* One request at a time, an offboarded financier stays out, nothing is    *)
(* offboarded with a live lien behind it, goods are pledged to an active   *)
(* financier with an active link and a deposit is filed under a link that  *)
(* takes its commodity (offboardFinancierOrg, offboardWarehouse,           *)
(* createPledge, createDeposit, applyDepositEdit).                         *)
THEOREM LinksAreAlwaysHonoured == Spec => LinksAreHonoured
<1>. DEFINE Honoured ==
        /\ scene = "partners" =>
              /\ Partners(Pledge, {solo})!OffboardingIsTerminal
              /\ Partners(Pledge, {solo})!NothingStranded
              /\ Partners(Pledge, {solo})!PledgedToPartner
        /\ scene = "clients" => Clients!FiledUnderLink /\ Clients!PlacedWhereAccepted
<1>1. SceneInv /\ [Next]_vars => [Honoured]_vars
    BY SceneStep DEF SceneHonours, PartnersHonour, ClientsHonour
<1>. QED  BY <1>1, RegistersInvariance, PTL DEF Spec, LinksAreHonoured

(* However sign-ins, resets and assignments overlap, the password an       *)
(* administrator chose is only good for choosing another                   *)
(* (changeWarehousePassword alone clears mustChangePassword).              *)
THEOREM InitialPasswordsStayTemporary == Spec => []InitialPasswordIsTemporary
<1>1. SceneInv => InitialPasswordIsTemporary
    BY DEF SceneInv, RosterInv, InitialPasswordIsTemporary
<1>. QED  BY <1>1, RegistersInvariance, PTL

(* However enrolments overlap, the logins of one name are numbered without *)
(* a gap and no code is issued twice; one request at a time, nobody is     *)
(* registered twice with a tenant and what a service picked is free when   *)
(* it writes (deriveLoginEmail, generateClientCode, generateManagerCode,   *)
(* assertIdentifiersUnique, createTenant, createFinancierOrg).             *)
THEOREM IdentifiersAlwaysFit == Spec => []IdentifiersFit
<1>1. ASSUME SceneInv
      PROVE  IdentifiersFit
    <2>1. scene = "racing enrolment" =>
              /\ Enrolling(RacingRegistry, Pair)!TypeOK
              /\ Enrolling(RacingRegistry, Pair)!SuffixesContiguous
              /\ Enrolling(RacingRegistry, Pair)!CodesIssuedOnce
        BY <1>1 DEF SceneInv, EnrolmentInv, EnrolmentTables
    <2>2. scene = "enrolling" =>
              /\ Enrolling(Registry, {solo})!TypeOK
              /\ Enrolling(Registry, {solo})!NinRegisteredOnce
              /\ Enrolling(Registry, {solo})!PreparedRowFits
        BY <1>1, SoloRowFits, RegistriesOK DEF SceneInv, EnrolmentSolo, EnrolmentInv,
            EnrolmentTables
    <2>. QED  BY <2>1, <2>2 DEF IdentifiersFit
<1>. QED  BY <1>1, RegistersInvariance, PTL

(* One request at a time, an account that confirms with codes has a PIN,   *)
(* only the newest code of a purpose is good, and a code confirms one      *)
(* action and takes so many wrong answers (enableTwoFactor,                *)
(* clearTransactionPin, requestTransactionOtp, consumeOtp).                *)
THEOREM CodesAreSpentOnce == Spec => []CodeIsSpentOnce
<1>1. ASSUME SceneInv
      PROVE  CodeIsSpentOnce
    <2>1. CASE scene = "security"
        <3>1. SecuritySolo(Issue)
            BY <1>1, <2>1 DEF SceneInv
        <3>2. /\ Security(Issue, {solo})!TypeOK
              /\ Security(Issue, {solo})!TwoFactorHasPin
              /\ Security(Issue, {solo})!OneLiveCode
            BY <3>1, GoodIsCountedOnce DEF SecuritySolo, SecurityInv
        <3>3. Security(Issue, {solo})!CodeIsSpentOnce
            BY <3>1, IssuesAreNumbers, AnswersStayFew DEF SecuritySolo
        <3>. QED  BY <2>1, <3>2, <3>3 DEF CodeIsSpentOnce
    <2>2. CASE scene = "racing security"
        BY <1>1, <2>2 DEF SceneInv, SecurityInv, CodeIsSpentOnce
    <2>. QED  BY <2>1, <2>2 DEF CodeIsSpentOnce
<1>. QED  BY <1>1, RegistersInvariance, PTL

(* Once a password was reset, no link mailed before works, not even one    *)
(* that forgotPassword issued in between (resetPassword).                  *)
THEOREM ResetsAlwaysEndLinks == Spec => ResetEndsLinks
<1>. DEFINE Ended ==
        scene = "racing security" => Security(RacingIssue, Pair)!ResetEndsLinks
<1>1. SceneInv /\ [Next]_vars => [Ended]_vars
    BY SceneStep DEF SceneHonours
<1>. QED  BY <1>1, RegistersInvariance, PTL DEF Spec, ResetEndsLinks

(* Whatever the configuration of a commodity has become, goods that        *)
(* measure worse are never graded better (scoreSample), and the tables of  *)
(* the grading stay rows of the schema.                                    *)
THEOREM WorseIsNeverGradedBetter == Spec => []WorseNeverGradesBetter
<1>1. SceneInv => WorseNeverGradesBetter
    BY GradesFair DEF SceneInv, WorseNeverGradesBetter
<1>. QED  BY <1>1, RegistersInvariance, PTL

(* One request at a time, the computed grade of a receipt is the worst of  *)
(* its stored scores, through every correction, and another grade has an   *)
(* author unless it is blank (createDeposit, applyDepositEdit).            *)
THEOREM GradesAreAlwaysExplained == Spec => []GradesExplained
<1>1. SceneInv => GradesExplained
    BY GradesFair DEF SceneInv, GradesExplained
<1>. QED  BY <1>1, RegistersInvariance, PTL

(* While nobody touches the policies, the commodity or the date of         *)
(* deposit, the fee is that of the narrowest policy and the bill is never  *)
(* less than the quote, wherever the date lies (resolvePolicy,             *)
(* calculateFee, completeWithdrawal).                                      *)
THEOREM BillsAlwaysFollowPolicies == Spec => []BillsFollowPolicies
<1>1. SceneInv => BillsFollowPolicies
    BY BillsAreHonest DEF SceneInv, BillingInv, BillsFollowPolicies
<1>. QED  BY <1>1, RegistersInvariance, PTL
=============================================================================
