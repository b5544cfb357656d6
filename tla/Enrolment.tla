----------------------------- MODULE Enrolment -----------------------------
(***************************************************************************)
(* Putting people and organisations on the platform: createClient and      *)
(* updateClient of src/src/warehouse-manager, createManager, createTenant, *)
(* createFinancierOrg, updateFinancierOrg, inviteFinancierUser and the     *)
(* profile half of src/src/users.                                          *)
(*                                                                         *)
(* Every row gets names that unique indexes guard: a login, a slug, a      *)
(* code.  A service picks them from what it reads and inserts later; an    *)
(* insert that an index refuses is an exception.                           *)
(*                                                                         *)
(* A login is <<name, n>>: the n-th account of people with one name.  A    *)
(* slug is <<base, n>>.  One calendar year.  Passwords, addresses, bank    *)
(* details and focus commodities are not here.                             *)
(***************************************************************************)
EXTENDS Handlers, Naturals, FiniteSets

CONSTANTS
    Tenant,             \* institutions, each known by its name
    Org, Brand,         \* financier organisations and the names they can bear
    Name,               \* first and last name, lower-cased and joined
    SlugBase,           \* the slug a tenant's name gives before suffixes
    Nin,                \* national identification numbers
    Photo,              \* photo columns: "null", "empty", "url"
    MaxSuffix,          \* bound: accounts with one name (99 in the code)
    MaxDirector         \* bound: director rows ever created

VARIABLES
    tenant,     \* tenants: slug of an existing tenant
    org,        \* financier_orgs: the name each organisation bears
    account,    \* users by login
    profile,    \* client_profiles by login of the client
    issued      \* directors created so far

vars == <<tenant, org, account, profile, issued, call>>
tables == <<tenant, org, account, profile, issued>>

NoRow == [row |-> "none"]
NoKey == <<>>  \* no login, no slug
Login == Name \X (1..MaxSuffix)
Director == 1..MaxDirector

Account == [tenant : Tenant, role : {"CLIENT", "STAFF", "MANAGER", "FINANCIER"},
            code : Nat, photo : Photo]
Profile == [tenant : Tenant, code : Nat \ {0}, nin : Nin \cup {"null"},
            photo : Photo, directors : SUBSET Director, docs : SUBSET Director]

Rows(table) == {k \in DOMAIN table : table[k] # NoRow}
ClientsOf(t) == {l \in Rows(profile) : profile[l].tenant = t}
Managers == {l \in Rows(account) : account[l].role = "MANAGER"}

Least(S) == CHOOSE n \in S : \A k \in S : n <= k

Normal(photo) == IF photo = "empty" THEN "null" ELSE photo

-----------------------------------------------------------------------------
Init ==
    /\ \E first \in Tenant :
          tenant = [t \in Tenant |-> IF t = first THEN <<SlugBase[t], 1>> ELSE NoKey]
    /\ org = [o \in Org |-> "none"]
    /\ account = [l \in Login |-> NoRow]
    /\ profile = [l \in Login |-> NoRow]
    /\ issued = 0
    /\ call = [c \in Call |-> Idle]

(* Variant: a login has a suffix even when the plain name is free.         *)
FreeLoginSkipping(name) ==
    LET free == {n \in 2..MaxSuffix : account[<<name, n>>] = NoRow}
    IN  IF free = {} THEN NoKey ELSE <<name, Least(free)>>

(* deriveLoginEmail, four copies: the plain name, then 2, 3, ...           *)
FreeLogin(name) ==
    LET free == {n \in 1..MaxSuffix : account[<<name, n>>] = NoRow}
    IN  IF free = {} THEN NoKey ELSE <<name, Least(free)>>

(* deriveSlug                                                              *)
SlugTaken(slug) == \E t \in Tenant : tenant[t] = slug

FreeSlug(t) ==
    LET free == {n \in 1..MaxSuffix : ~SlugTaken(<<SlugBase[t], n>>)}
    IN  IF free = {} THEN NoKey ELSE <<SlugBase[t], Least(free)>>

(* Variant: the count itself.                                              *)
ClientCodeUncounted(t) == Cardinality(ClientsOf(t))

(* generateClientCode counts the clients of the tenant.                    *)
ClientCode(t) == Cardinality(ClientsOf(t)) + 1

(* generateManagerCode counts the managers of the platform.                *)
ManagerCode == Cardinality(Managers) + 1

NinClash(t, nin, except) ==
    /\ nin # "null"
    /\ \E l \in ClientsOf(t) \ {except} : profile[l].nin = nin

-----------------------------------------------------------------------------
(* createClient: login, code, identifier check, then one transaction.      *)
CreateClientLoad(c, t, name, nin, photo, hasDirector) ==
    /\ tenant[t] # NoKey
    /\ FreeLogin(name) # NoKey
    /\ Begin(c, [op |-> "createClient", step |-> "code", t |-> t,
                 login |-> FreeLogin(name), code |-> 0, nin |-> nin,
                 photo |-> photo, n |-> IF hasDirector THEN 1 ELSE 0])
    /\ UNCHANGED tables

CreateClientCode(c) ==
    /\ At(c, "createClient", "code")
    /\ Continue(c, [call[c] EXCEPT !.step = "check", !.code = ClientCode(call[c].t)])
    /\ UNCHANGED tables

(* assertIdentifiersUnique on a new client.                                *)
CreateClientCheck(c) ==
    /\ At(c, "createClient", "check")
    /\ ~NinClash(call[c].t, call[c].nin, NoKey)
    /\ Continue(c, [call[c] EXCEPT !.step = "insert"])
    /\ UNCHANGED tables

(* Variant: no index on the code.                                          *)
CodeTakenNever(code) == FALSE

CodeTaken(code) == \E l \in Rows(profile) : profile[l].code = code

CreateClientInsert(c) ==
    /\ At(c, "createClient", "insert")
    /\ account[call[c].login] = NoRow /\ ~CodeTaken(call[c].code)
    /\ issued + call[c].n <= MaxDirector
    /\ LET x == call[c]
           fresh == (issued + 1)..(issued + x.n)
       IN  /\ account' = [account EXCEPT ![x.login] =
                [tenant |-> x.t, role |-> "CLIENT", code |-> 0, photo |-> x.photo]]
           /\ profile' = [profile EXCEPT ![x.login] =
                [tenant |-> x.t, code |-> x.code, nin |-> x.nin, photo |-> x.photo,
                 directors |-> fresh, docs |-> fresh]]
           /\ issued' = issued + x.n
    /\ Return(c)
    /\ UNCHANGED <<tenant, org>>

-----------------------------------------------------------------------------
(* updateClient.  A patch leaves a part alone ("keep") or replaces it: the *)
(* directors by newcomers, the documents by ones about the newcomers of    *)
(* the same call or, when the directors stay, about whatever directors     *)
(* they name: those references nobody looks up.                            *)
Patch ==
    {p \in [nin : {"keep"} \cup Nin, photo : {"keep"} \cup Photo,
            directors : {"keep", "clear", "replace"},
            docs : {"keep", "new", "named"}, about : SUBSET Director] :
        /\ p.docs # "named" => p.about = {}
        /\ p.docs = "new" => p.directors = "replace"
        /\ p.docs = "named" => p.directors = "keep" \/ p.about = {}}

UpdateClientLoad(c, l, p) ==
    /\ profile[l] # NoRow
    /\ Begin(c, [op |-> "updateClient", step |-> "check", l |-> l, p |-> p])
    /\ UNCHANGED tables

(* Variant: only new clients are checked.                                  *)
UpdateClientCheckSkipped(c) ==
    /\ At(c, "updateClient", "check")
    /\ Continue(c, [call[c] EXCEPT !.step = "write"])
    /\ UNCHANGED tables

UpdateClientCheck(c) ==
    /\ At(c, "updateClient", "check")
    /\ \/ call[c].p.nin = "keep"
       \/ ~NinClash(profile[call[c].l].tenant, call[c].p.nin, call[c].l)
    /\ Continue(c, [call[c] EXCEPT !.step = "write"])
    /\ UNCHANGED tables

DocsAfter(old, p, fresh) ==
    CASE p.docs = "keep" -> old.docs
      [] p.docs = "new" -> fresh
      [] p.docs = "named" -> p.about

(* The photo goes to the account without the empty string and to the       *)
(* profile as it came.                                                     *)
UpdateClientWrite(c) ==
    /\ At(c, "updateClient", "write")
    /\ LET l == call[c].l
           p == call[c].p
           old == profile[l]
           fresh == IF p.directors = "replace" THEN {issued + 1} ELSE {}
       IN  /\ issued + Cardinality(fresh) <= MaxDirector
           /\ account' = [account EXCEPT ![l].photo =
                            IF p.photo = "keep" THEN @ ELSE Normal(p.photo)]
           /\ profile' = [profile EXCEPT ![l] =
                [old EXCEPT
                   !.nin = IF p.nin = "keep" THEN @ ELSE p.nin,
                   !.photo = IF p.photo = "keep" THEN @ ELSE p.photo,
                   !.directors = IF p.directors = "keep" THEN @ ELSE fresh,
                   !.docs = DocsAfter(old, p, fresh)]]
           /\ issued' = issued + Cardinality(fresh)
    /\ Return(c)
    /\ UNCHANGED <<tenant, org>>

(* updateMe: both copies in one transaction.                               *)
UpdateMe(l, photo) ==
    /\ account[l] # NoRow
    /\ account' = [account EXCEPT ![l].photo = Normal(photo)]
    /\ profile' = IF profile[l] = NoRow THEN profile
                  ELSE [profile EXCEPT ![l].photo = Normal(photo)]
    /\ UNCHANGED <<tenant, org, issued, call>>

-----------------------------------------------------------------------------
NewAccount(x, role, code) ==
    /\ account[x.login] = NoRow
    /\ account' = [account EXCEPT ![x.login] =
         [tenant |-> x.t, role |-> role, code |-> code, photo |-> "null"]]

(* createManager                                                           *)
CreateManagerLoad(c, t, name) ==
    /\ tenant[t] # NoKey
    /\ FreeLogin(name) # NoKey
    /\ Begin(c, [op |-> "createManager", step |-> "code", t |-> t,
                 login |-> FreeLogin(name), code |-> 0])
    /\ UNCHANGED tables

CreateManagerCode(c) ==
    /\ At(c, "createManager", "code")
    /\ Continue(c, [call[c] EXCEPT !.step = "insert", !.code = ManagerCode])
    /\ UNCHANGED tables

CreateManagerInsert(c) ==
    /\ At(c, "createManager", "insert")
    /\ \A l \in Managers : account[l].code # call[c].code
    /\ NewAccount(call[c], "MANAGER", call[c].code)
    /\ Return(c)
    /\ UNCHANGED <<tenant, org, profile, issued>>

(* createTenant: the name, a slug, a login for the first administrator.    *)
CreateTenantLoad(c, t, name) ==
    /\ tenant[t] = NoKey
    /\ FreeSlug(t) # NoKey /\ FreeLogin(name) # NoKey
    /\ Begin(c, [op |-> "createTenant", step |-> "insert", t |-> t,
                 slug |-> FreeSlug(t), login |-> FreeLogin(name)])
    /\ UNCHANGED tables

CreateTenantInsert(c) ==
    /\ At(c, "createTenant", "insert")
    /\ tenant[call[c].t] = NoKey /\ ~SlugTaken(call[c].slug)
    /\ tenant' = [tenant EXCEPT ![call[c].t] = call[c].slug]
    /\ NewAccount(call[c], "STAFF", 0)
    /\ Return(c)
    /\ UNCHANGED <<org, profile, issued>>

(* createFinancierOrg and inviteFinancierUser: their users are anchored to *)
(* the oldest tenant, whichever that is.                                   *)
OrgNameTaken(o, n) == \E x \in Org \ {o} : org[x] = n

CreateOrgLoad(c, o, n, name, t) ==
    /\ org[o] = "none" /\ ~OrgNameTaken(o, n)
    /\ tenant[t] # NoKey
    /\ FreeLogin(name) # NoKey
    /\ Begin(c, [op |-> "createFinancierOrg", step |-> "insert", o |-> o, n |-> n,
                 login |-> FreeLogin(name), t |-> t])
    /\ UNCHANGED tables

CreateOrgInsert(c) ==
    /\ At(c, "createFinancierOrg", "insert")
    /\ org[call[c].o] = "none" /\ ~OrgNameTaken(call[c].o, call[c].n)
    /\ org' = [org EXCEPT ![call[c].o] = call[c].n]
    /\ NewAccount(call[c], "FINANCIER", 0)
    /\ Return(c)
    /\ UNCHANGED <<tenant, profile, issued>>

(* Variant: a rename is not checked against the other organisations.       *)
RenameOrgLoadUnchecked(c, o, n) ==
    /\ org[o] \notin {"none", n}
    /\ Begin(c, [op |-> "updateFinancierOrg", step |-> "write", o |-> o, n |-> n])
    /\ UNCHANGED tables

RenameOrgLoad(c, o, n) ==
    /\ org[o] \notin {"none", n}
    /\ ~OrgNameTaken(o, n)
    /\ Begin(c, [op |-> "updateFinancierOrg", step |-> "write", o |-> o, n |-> n])
    /\ UNCHANGED tables

RenameOrgWrite(c) ==
    /\ At(c, "updateFinancierOrg", "write")
    /\ ~OrgNameTaken(call[c].o, call[c].n)
    /\ org' = [org EXCEPT ![call[c].o] = call[c].n]
    /\ Return(c)
    /\ UNCHANGED <<tenant, account, profile, issued>>

InviteLoad(c, o, name, t) ==
    /\ org[o] # "none" /\ tenant[t] # NoKey
    /\ FreeLogin(name) # NoKey
    /\ Begin(c, [op |-> "inviteFinancierUser", step |-> "insert",
                 login |-> FreeLogin(name), t |-> t])
    /\ UNCHANGED tables

InviteInsert(c) ==
    /\ At(c, "inviteFinancierUser", "insert")
    /\ NewAccount(call[c], "FINANCIER", 0)
    /\ Return(c)
    /\ UNCHANGED <<tenant, org, profile, issued>>

-----------------------------------------------------------------------------
Clients(c) ==
    \/ \E t \in Tenant, name \in Name, nin \in Nin \cup {"null"}, photo \in Photo \ {"empty"},
          hasDirector \in BOOLEAN : CreateClientLoad(c, t, name, nin, photo, hasDirector)
    \/ CreateClientCode(c) \/ CreateClientCheck(c) \/ CreateClientInsert(c)
    \/ \E l \in Rows(profile), p \in Patch : UpdateClientLoad(c, l, p)
    \/ UpdateClientCheck(c) \/ UpdateClientWrite(c)

Staff(c) ==
    \/ \E t \in Tenant, name \in Name :
          CreateManagerLoad(c, t, name) \/ CreateTenantLoad(c, t, name)
    \/ CreateManagerCode(c) \/ CreateManagerInsert(c) \/ CreateTenantInsert(c)

Financiers(c) ==
    \/ \E o \in Org, n \in Brand : RenameOrgLoad(c, o, n)
    \/ \E o \in Org, n \in Brand, name \in Name, t \in Tenant : CreateOrgLoad(c, o, n, name, t)
    \/ \E o \in Org, name \in Name, t \in Tenant : InviteLoad(c, o, name, t)
    \/ CreateOrgInsert(c) \/ RenameOrgWrite(c) \/ InviteInsert(c)

Next ==
    \/ \E c \in Call : \/ Clients(c) \/ Staff(c) \/ Financiers(c)
                       \/ Abandon(c) /\ UNCHANGED tables
    \/ \E l \in Rows(account), photo \in Photo : UpdateMe(l, photo)

Spec == Init /\ [][Next]_vars

-----------------------------------------------------------------------------
(* Every row is a row of the schema.                                       *)
TypeOK ==
    /\ \A t \in Tenant : tenant[t] \in ({SlugBase[t]} \X (1..MaxSuffix)) \cup {NoKey}
    /\ org \in [Org -> Brand \cup {"none"}]
    /\ account \in [Login -> Account \cup {NoRow}]
    /\ profile \in [Login -> Profile \cup {NoRow}]
    /\ issued \in 0..MaxDirector

(* The accounts of people with one name are numbered without a gap, in     *)
(* whatever order the services that create them interleave: a number is    *)
(* tried only when the ones before it are taken, and no account is ever    *)
(* deleted (deriveLoginEmail).                                             *)
SuffixesContiguous ==
    \A name \in Name, n \in 2..MaxSuffix :
        account[<<name, n>>] # NoRow => account[<<name, n - 1>>] # NoRow

(* A client code and a manager code are never issued twice, although both  *)
(* are counted before the insert (generateClientCode, generateManagerCode).*)
CodesIssuedOnce ==
    /\ \A k, l \in Rows(profile) : profile[k].code = profile[l].code => k = l
    /\ \A k, l \in Managers : account[k].code = account[l].code => k = l

(* Nobody is registered twice with a tenant, whether by registration or by *)
(* correction (assertIdentifiersUnique).  With two handlers: refuted, no   *)
(* index backs the check.                                                  *)
NinRegisteredOnce ==
    \A k, l \in Rows(profile) :
        /\ profile[k].tenant = profile[l].tenant
        /\ profile[k].nin = profile[l].nin /\ profile[k].nin # "null"
        => k = l

(* What a service prepared is accepted when nothing else ran: the slug,    *)
(* the login, the manager code and the organisation's name it picked are   *)
(* free when it writes.                                                    *)
PreparedRowFits ==
    \A c \in Call : call[c] # Idle /\ call[c].step \in {"insert", "write"} =>
        /\ "login" \in DOMAIN call[c] => account[call[c].login] = NoRow
        /\ "slug" \in DOMAIN call[c] => ~SlugTaken(call[c].slug)
        /\ "o" \in DOMAIN call[c] /\ "n" \in DOMAIN call[c] =>
              ~OrgNameTaken(call[c].o, call[c].n)
        /\ call[c].op = "createManager" => \A l \in Managers : account[l].code # call[c].code

(* The same of the client code.  Refuted once a second tenant registers a  *)
(* client: the count is per tenant and the index is not.                   *)
ClientCodeFits ==
    \A c \in Call : At(c, "createClient", "insert") => ~CodeTaken(call[c].code)

(* A document is about an existing director and never outlives it (a       *)
(* director row can be replaced without orphaning its documents; documents *)
(* patched alone must use real existing director ids).  Refuted by a patch *)
(* of the directors alone, and by one of the documents alone.              *)
DocsResolve ==
    \A l \in Rows(profile) : profile[l].docs \subseteq profile[l].directors

(* The account and the profile of a client show one photo (updateMe and    *)
(* updateClient keep both surfaces in sync).  Refuted by a manager who     *)
(* clears it.                                                              *)
PhotosAgree ==
    \A l \in Rows(profile) : profile[l].photo = account[l].photo
=============================================================================
