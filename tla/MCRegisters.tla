---------------------------- MODULE MCRegisters ----------------------------
(***************************************************************************)
(* The registers around the ledger for TLC: partners, staff, enrolment,    *)
(* clients and account security.  They share no table, so no step of one   *)
(* can depend on another and a behaviour follows one of them: the scene,   *)
(* chosen at the start.  A scene is a register at bounds of its own, with  *)
(* one handler (solo) where a promise needs the requests to come one at a  *)
(* time, and with a pair of them where it does not.                        *)
(***************************************************************************)
EXTENDS Naturals, FiniteSets, TLC

CONSTANTS
    solo, Pair,                                         \* handlers
    Org, Warehouse, Pact, Pledge, RacingPledge,         \* Partnership
    Depot, Agent,                                       \* Roster
    Tenant, Bearer, Brand, Name, Nin, MaxDirector,      \* Enrolment
    RacingTenant, RacingName, Photo, MaxSuffix,
    Site, Manager, Client, Commodity,                   \* Clientele
    Attachment, Deposit, LookupLimit,
    MaxCode, MaxLink, RacingCode, RacingLink,           \* AccountSecurity
    MaxAttempts,
    Parameter, MaxGrades, MaxMeasure, MaxChange,        \* Grading
    FeeType, Rate, MaxPolicy, Unit, Quantity,           \* Billing
    Weight, Kilo, Instant

VARIABLES
    scene, call,
    org, warehouse, link, pledge, lien,                       \* Partnership
    assign, staff, house, changeTok, selectTok, session,      \* Roster
    tenant, bearer, account, profile, issued,                 \* Enrolment
    assigned, registrar, attach, accepts, receipt, lookups,   \* Clientele
    pin, twoFactor, otp, mailed, tried, spent,                \* AccountSecurity
    numberOfGrades, template, deposit, log,                   \* Grading
    policy, commodity, now, withdrawal, goods,                \* Billing
    changes                                                   \* Grading or Billing

(* A register that has a scene with one handler and a scene with a pair of *)
(* them is an instance for its handlers H and the bounds that differ.      *)
Partners(P, H) == INSTANCE Partnership WITH Link <- Pact, Pledge <- P, Call <- H

Staffing == INSTANCE Roster WITH Warehouse <- Depot, Manager <- Agent, Call <- Pair

Enrolling(s, H) == INSTANCE Enrolment WITH
    Tenant <- s.tenant, SlugBase <- s.slug, Org <- s.org, Brand <- s.brand,
    Name <- s.name, Nin <- s.nin, MaxDirector <- s.directors, org <- bearer, Call <- H

Clients == INSTANCE Clientele WITH Warehouse <- Site, Receipt <- Deposit, Call <- {solo}

Security(s, H) == INSTANCE AccountSecurity WITH
    Purpose <- {"TRADE", "DISABLE_2FA", "CHANGE_PASSWORD"}, StepUp <- {"CHANGE_PASSWORD"},
    MaxCode <- s.codes, MaxLink <- s.links, link <- mailed, Call <- H

Grades == INSTANCE Grading WITH Call <- {solo}

Fees == INSTANCE Billing WITH Call <- {solo}

(* All tenants have one name, so that their slugs collide.                 *)
Registry ==
    [tenant |-> Tenant, slug |-> [t \in Tenant |-> "slug"], org |-> Bearer, brand |-> Brand,
     name |-> Name, nin |-> Nin, directors |-> MaxDirector]

RacingRegistry ==
    [tenant |-> RacingTenant, slug |-> [t \in RacingTenant |-> "slug"], org |-> {},
     brand |-> {}, name |-> RacingName, nin |-> {}, directors |-> 0]

Issue == [codes |-> MaxCode, links |-> MaxLink]
RacingIssue == [codes |-> RacingCode, links |-> RacingLink]

ASSUME SecurityAssumption ==
    Security(Issue, {solo})!SecurityAssumption /\ Security(RacingIssue, Pair)!SecurityAssumption
(* A row has a photo column to leave empty.                                *)
ASSUME EnrolmentAssumption ==
    /\ IsFiniteSet(Name) /\ IsFiniteSet(RacingName)
    /\ MaxSuffix \in Nat \ {0} /\ MaxDirector \in Nat /\ "null" \in Photo
ASSUME LookupAssumption == LookupLimit \in Nat
ASSUME GradesAssumption == Grades!GradingAssumption
ASSUME FeesAssumption == Fees!BillingAssumption

-----------------------------------------------------------------------------
partners == <<org, warehouse, link, pledge, lien>>
roster == <<assign, staff, house, changeTok, selectTok, session>>
enrolment == <<tenant, bearer, account, profile, issued>>
clientele == <<assigned, registrar, attach, accepts, receipt, lookups>>
security == <<pin, twoFactor, otp, mailed, tried, spent>>
grading == <<numberOfGrades, template, deposit, log>>
billing == <<policy, commodity, now, withdrawal, goods>>
vars == <<scene, call, partners, roster, enrolment, clientele, security, grading, billing,
          changes>>

(* The registers a scene is not about stay empty.                          *)
NoPartners == org = {} /\ warehouse = {} /\ link = {} /\ pledge = {} /\ lien = {}
NoRoster == /\ assign = {} /\ staff = {} /\ house = {}
            /\ changeTok = {} /\ selectTok = {} /\ session = {}
NoEnrolment == tenant = {} /\ bearer = {} /\ account = {} /\ profile = {} /\ issued = 0
NoClientele == /\ assigned = {} /\ registrar = {} /\ attach = {}
               /\ accepts = {} /\ receipt = {} /\ lookups = {}
NoSecurity == /\ pin = FALSE /\ twoFactor = FALSE /\ otp = {}
              /\ mailed = {} /\ tried = {} /\ spent = {}
NoGrading == numberOfGrades = 0 /\ template = {} /\ deposit = {} /\ log = {}
NoBilling == policy = {} /\ commodity = {} /\ now = 0 /\ withdrawal = {} /\ goods = {}
NoChanges == NoGrading /\ NoBilling /\ changes = 0

Init ==
    \/ /\ \/ scene = "partners" /\ Partners(Pledge, {solo})!Init
          \/ scene = "racing partners" /\ Partners(RacingPledge, Pair)!Init
       /\ NoRoster /\ NoEnrolment /\ NoClientele /\ NoSecurity /\ NoChanges
    \/ /\ scene = "staffing" /\ Staffing!Init
       /\ NoPartners /\ NoEnrolment /\ NoClientele /\ NoSecurity /\ NoChanges
    \/ /\ \/ scene = "enrolling" /\ Enrolling(Registry, {solo})!Init
          \/ scene = "racing enrolment" /\ Enrolling(RacingRegistry, Pair)!Init
       /\ NoPartners /\ NoRoster /\ NoClientele /\ NoSecurity /\ NoChanges
    \/ /\ scene = "clients" /\ Clients!Init
       /\ NoPartners /\ NoRoster /\ NoEnrolment /\ NoSecurity /\ NoChanges
    \/ /\ \/ scene = "security" /\ Security(Issue, {solo})!Init
          \/ scene = "racing security" /\ Security(RacingIssue, Pair)!Init
       /\ NoPartners /\ NoRoster /\ NoEnrolment /\ NoClientele /\ NoChanges
    \/ /\ \/ scene = "grading" /\ Grades!Init /\ NoBilling
          \/ scene = "billing" /\ Fees!Init /\ NoGrading
       /\ NoPartners /\ NoRoster /\ NoEnrolment /\ NoClientele /\ NoSecurity

Next ==
    /\ UNCHANGED scene
    /\ \/ /\ \/ scene = "partners" /\ Partners(Pledge, {solo})!Next
             \/ scene = "racing partners" /\ Partners(RacingPledge, Pair)!Next
          /\ UNCHANGED <<roster, enrolment, clientele, security, grading, billing, changes>>
       \/ /\ scene = "staffing" /\ Staffing!Next
          /\ UNCHANGED <<partners, enrolment, clientele, security, grading, billing, changes>>
       \/ /\ \/ scene = "enrolling" /\ Enrolling(Registry, {solo})!Next
             \/ scene = "racing enrolment" /\ Enrolling(RacingRegistry, Pair)!Next
          /\ UNCHANGED <<partners, roster, clientele, security, grading, billing, changes>>
       \/ /\ scene = "clients" /\ Clients!Next
          /\ UNCHANGED <<partners, roster, enrolment, security, grading, billing, changes>>
       \/ /\ \/ scene = "security" /\ Security(Issue, {solo})!Next
             \/ scene = "racing security" /\ Security(RacingIssue, Pair)!Next
          /\ UNCHANGED <<partners, roster, enrolment, clientele, grading, billing, changes>>
       \/ /\ \/ scene = "grading" /\ Grades!Next /\ UNCHANGED billing
             \/ scene = "billing" /\ Fees!Next /\ UNCHANGED grading
          /\ UNCHANGED <<partners, roster, enrolment, clientele, security>>

Spec == Init /\ [][Next]_vars

Crew == Permutations(Pair)

-----------------------------------------------------------------------------
(* Every register's rows are rows of the schema (its TypeOK), and:         *)

(* However requests overlap, no goods are pledged to a financier whose     *)
(* agreement with the warehouse was never signed: createPledge reads an    *)
(* ACTIVE link, only approveWarehouseLink makes one, and nothing erases    *)
(* signedAt.  One request at a time, a financier and a warehouse have one  *)
(* engagement, a link with a reason was never signed, and a client has one *)
(* active attachment to a warehouse, whoever made it (onboardWarehouse,    *)
(* rejectWarehouseLink, attachClientToWarehouse, createDeposit).           *)
OneSignedLink ==
    /\ scene = "racing partners" =>
          Partners(RacingPledge, Pair)!TypeOK /\ Partners(RacingPledge, Pair)!PledgedUnderSignature
    /\ scene = "partners" =>
          /\ Partners(Pledge, {solo})!TypeOK
          /\ Partners(Pledge, {solo})!OneEngagement
          /\ Partners(Pledge, {solo})!ReasonMeansRejected
    /\ scene = "clients" => Clients!TypeOK /\ Clients!OneActiveAttachment

(* One request at a time, links govern what is done under them: an         *)
(* offboarded financier stays out, nothing is offboarded with a live lien  *)
(* behind it, goods are pledged to an active financier with an active link *)
(* only and a deposit is filed under a link between client and warehouse,  *)
(* where its commodity is accepted (offboardFinancierOrg,                  *)
(* offboardWarehouse, createPledge, createDeposit, applyDepositEdit).      *)
LinksAreHonoured ==
    [][/\ scene = "partners" =>
             /\ Partners(Pledge, {solo})!OffboardingIsTerminal
             /\ Partners(Pledge, {solo})!NothingStranded
             /\ Partners(Pledge, {solo})!PledgedToPartner
       /\ scene = "clients" => Clients!FiledUnderLink /\ Clients!PlacedWhereAccepted]_vars

(* However sign-ins, resets and assignments overlap, the password an       *)
(* administrator chose is only good for choosing another                   *)
(* (changeWarehousePassword alone clears mustChangePassword).              *)
InitialPasswordIsTemporary ==
    scene = "staffing" => Staffing!TypeOK /\ Staffing!InitialPasswordIsTemporary

(* However enrolments overlap, the logins of one name are numbered without *)
(* a gap and no client or manager code is issued twice, although all are   *)
(* counted before the insert.  One request at a time, nobody is registered *)
(* twice with a tenant, and the slug, login, code and name a service       *)
(* picked are free when it writes (deriveLoginEmail, generateClientCode,   *)
(* generateManagerCode, assertIdentifiersUnique, createTenant,             *)
(* createManager, createFinancierOrg).                                     *)
IdentifiersFit ==
    /\ scene = "racing enrolment" =>
          /\ Enrolling(RacingRegistry, Pair)!TypeOK
          /\ Enrolling(RacingRegistry, Pair)!SuffixesContiguous
          /\ Enrolling(RacingRegistry, Pair)!CodesIssuedOnce
    /\ scene = "enrolling" =>
          /\ Enrolling(Registry, {solo})!TypeOK
          /\ Enrolling(Registry, {solo})!NinRegisteredOnce
          /\ Enrolling(Registry, {solo})!PreparedRowFits

(* One request at a time, an account that confirms with codes has a PIN,   *)
(* only the newest code of a purpose is good, and a code confirms one      *)
(* action and takes so many wrong answers (enableTwoFactor,                *)
(* clearTransactionPin, requestTransactionOtp, consumeOtp).                *)
CodeIsSpentOnce ==
    /\ scene = "security" =>
          /\ Security(Issue, {solo})!TypeOK
          /\ Security(Issue, {solo})!TwoFactorHasPin
          /\ Security(Issue, {solo})!OneLiveCode
          /\ Security(Issue, {solo})!CodeIsSpentOnce
    /\ scene = "racing security" => Security(RacingIssue, Pair)!TypeOK

(* Once a password was reset, no link mailed before works, not even one    *)
(* that forgotPassword issued in between (resetPassword).                  *)
ResetEndsLinks == [][scene = "racing security" => Security(RacingIssue, Pair)!ResetEndsLinks]_vars

(* Whatever the configuration of a commodity has become, goods that        *)
(* measure worse are never graded better (scoreSample).                    *)
WorseNeverGradesBetter ==
    scene = "grading" => Grades!TypeOK /\ Grades!WorseNeverGradesBetter

(* One request at a time, the computed grade of a receipt is the worst of  *)
(* its stored scores, through every correction, and another grade has an   *)
(* author unless it is the empty string (createDeposit, applyDepositEdit). *)
GradesExplained == scene = "grading" => Grades!GradesExplained

(* While nobody touches the policies, the commodity or the date of         *)
(* deposit, the fee is that of the narrowest policy and the bill is never  *)
(* less than the quote (resolvePolicy, calculateFee, completeWithdrawal).  *)
BillsFollowPolicies ==
    scene = "billing" => Fees!TypeOK /\ Fees!ChargedNarrowest /\ Fees!BillCoversQuote
=============================================================================
