# A verification project for secure-store-backend

secure-store-backend runs a commodity exchange: farmers and traders deposit goods
in warehouses, and the *warehouse receipts* they get can be withdrawn, pledged to
a financier, lent against, sold and transferred. It is a NestJS application over
PostgreSQL. This directory holds TLA+ modules of it, TLC configurations that
check them on small instances, and proofs for every instance that TLAPS checks.

Paths are relative to the repository; `S/` is short for `src/src/`.

## 1. The system

### The ledger and its clients

Everything that owns or moves goods goes through `InventoryLedgerService`
(`S/inventory/inventory-ledger.service.ts`). It keeps two tables:

* `receipts`: a forest. A deposit mints a root, and an operation on *part* of a
  leaf splits it: the leaf becomes `SPLIT` for good and one or two children
  carry its goods on. Only leaves stand for goods.
* `inventory_events`: an append-only journal with a unique idempotency key per
  call. A call whose key is already there answers from the journal and writes
  nothing.

Each ledger call is one SERIALIZABLE transaction that locks the receipt row and
reads it again (`inventory.tx.ts`). The services above are not one transaction:
a handler reads its own table, makes a ledger call (a transaction of its own),
then updates its row, usually by id without looking at it again. Nothing is
locked in between. The hard behaviour of the system is in these gaps: other
handlers, cron jobs, crashes and retries run there.

| component | state it keeps | operations | what is hard | what makes it correct |
|---|---|---|---|---|
| Inventory ledger `S/inventory` | receipts, inventory_events | deposit, approveReceipt, rejectReceipt, hold, approveHold, release, releasePartial, consume, transitionPledgeToLien, seize, transferOwnership, transferAndRelease, expire | splits of splits, retries under old and new keys, rounding to three decimals | goods are conserved and spent once; the journal explains the table; available stock can be used |
| Reconciliation `inventory.recon.ts` | none | reconcileRoot, replayVerify, verifyAll | must hold after any history | is itself a statement of correctness |
| Withdrawals `S/withdrawals` | withdrawals | create (soft reservation), confirmPayment (hold), approve, reject, complete, clean-up cron | the cron and rejections race with payments; retries after a crash | no goods leave unapproved; released or removed, never both; unpaid requests leave the queue |
| Pledges `S/pledges` | pledges | create (hold), cancel, reject, accept, expiry cron | acceptance races with cancellation and expiry | a closed pledge holds nothing; an accepted one has a lien |
| Liens `S/liens`, `S/admin-liens` | liens | force release | races with release requests | the lien covers what is held |
| Release requests `S/release-requests` | requests and lines | create, cancel, reject, approve line by line | one transaction per line; retried half-way | each unit is given back once |
| Loans `S/loans` | loans | create (hold), approve, reject, repay, edit | every decision is made on a loaded row | a closed loan frees its collateral; schedule matches terms |
| Trades `S/trades` | trades | list (hold), settle, cancel | two buyers, buyer against cancellation | exchange and ledger agree |
| Deposits `S/warehouse-manager`, `S/admin/services/admin-receipt.service.ts` | receipts only | create, edit, approve, reject | corrections bypass the ledger | one verdict; a correction touches no child |

### The registers around the ledger

They gate what the services do, and share no table with one another.

| component | state it keeps | operations | what is hard | what makes it correct |
|---|---|---|---|---|
| Partners `S/warehouse-links`, `S/financier-orgs` | links, organisations | onboard, sign, reject, offboard, suspend | check, then insert; the liens counted for an offboarding | goods are pledged under a signed link only; nobody leaves with a live lien behind |
| Staff `S/managers`, `S/admin-users`, `S/auth/warehouse-auth.service.ts` | assignments, shared passwords, sign-in tokens | assign, suspend, reset, sign in in two or three requests | the roster changes between two requests of a sign-in | an initial password is temporary; a sign-in goes through the roster of the moment |
| Enrolment (clients, managers, tenants, organisations) | users, profiles, slugs, codes | create, correct, rename | identifiers counted before the insert | no code twice; what was prepared fits |
| Clients of a warehouse `S/warehouse-manager` | attachments, accepted commodities | look up, attach, detach, file, move | links end while deposits are under way | deposits are filed under a link, where the commodity is accepted |
| Account security `S/security`, `S/auth` | PIN, codes, reset links | set, switch, issue, confirm, reset | read-modify-write of attempts; codes re-issued in between | a code confirms one action; a reset ends all links |
| Grading `S/grading` | grading parameters, grades on receipts | configure, score, correct | rules change under what was graded by them | worse goods are never graded better; a grade is explained by its scores |
| Storage fees `S/storage-fees` | fee policies | configure, switch, resolve, charge | scope by scope look-up; period boundaries; goods gone before the bill | the narrowest policy is charged; while nobody changes what it is computed from, the bill covers the quote |

### The readers

A dozen services (`S/receipts`, `S/me`, `S/dashboard`, `S/admin-overview`,
`S/warehouse-manager`, `S/admin`, `S/financier`, `S/liens`) show the same tables as
tabs, badges, queues, statements, cards, charts and reports, each with filters of
its own. They change nothing. What can go wrong is that two of them disagree, or
that a figure no longer corresponds to goods.

Everything else (notifications, e-mail, file storage, prices, unit conversion,
roles, seeds) is in `PROJECT.json` with the reason it is left out; see section 6.

## 2. The modules

```
 CustodyStock      what a depositor is promised, without receipts or keys
      ^ refinement (LedgerRefinement, checked by run ledger)
 InventoryLedger   the ledger
      ^ EXTENDS
 Withdrawals   Collateral   Deposits  Loans  Trades   Bookings <-- Screens <-- Reports
        ^ INSTANCE ^             ^ INSTANCE
          MCCrons                 Custody

 Partnership  Roster  Enrolment  Clientele  AccountSecurity  Grading  Billing
                         ^ INSTANCE
                      MCRegisters
```

The proofs are in modules of their own, each of which EXTENDS the module it is about
(arrows: EXTENDS, except where INSTANCE is written):

```
                      InventoryLedgerProofs
      ^                ^                 ^             ^
 WithdrawalsProofs  CollateralProofs  CustodyProofs  ScreensProofs     GradingProofs
      ^ INSTANCE       ^ INSTANCE                                      RegistersProofs
            CronsProofs
```

All but the ledger's own modules and the readers EXTEND `Handlers`. The `MC` modules
add what TLC needs: key sets, symmetry, and the bounds of what they instantiate.

**InventoryLedger.** `minted` and `receipt` are the receipts table, `event` the
journal as a function of its unique key. One action per primitive, with the
primitive's guards as conjuncts and an exception as "not enabled". Since the
transaction is serializable and the row locked, one action per call is what the
database gives. `Partition` is the private `partition`: it supersedes the leaf
and inserts the part and, when something is left, the remainder; `ChildOf` says
which columns a child inherits. Receipt ids are numbers in creation order.
Receipt *numbers* (`A`, `AB`, ...), grade and metadata are left out. Quantities are
counted in stored units of `numeric(18,3)`. A request is counted in units of
`1/Scale` of that, because some DTOs accept more decimals than the column keeps;
`Stored` is PostgreSQL's rounding (half up). `TransferAndRelease` writes two journal
rows that always come together: one entry here.

**CustodyStock / LedgerRefinement.** A lot is a tree; its goods are pending, free,
reserved, removed or written off. Every ledger step must move goods between these
parts as `CustodyStock` allows, or move none: unreserved goods never leave, nothing
is reserved beyond what is free, nothing appears or vanishes.

**Handlers.** `call[c]` is a request handler between two awaits: the operation, the
step it is about to take and everything it has read. `Abandon` stops it at any
point: exception, lost connection, restart of the process. A retry is a new
handler that loads the row again, as in the code, where keys are derived from the
row's id.

**Withdrawals, Collateral, Loans, Trades.** One action per stretch of code between two
awaits that touch the database: `ConfirmLoad`, `ConfirmHold`, `ConfirmUpdate` and
so on. What a handler decided on a stale row stays in `call[c]`. `Ledger(c,
primitive, key)` is the primitive or its replay. The crons are actions of their
own: `SweepFind`/`SweepUpdate` (findMany, updateMany) and `ExpireFind` to
`ExpireCatch` (one pledge after another, each with its try/catch). Time is one bit
per row: `live` turns false when the payment window or the pledge has run out.

`createLoan` and `createTrade` hold the quantity they read with the receipt, some
awaits earlier. A correction in between makes the ledger refuse the hold (less is
left) or split the receipt (there is more, and the rest stays `ACTIVE`); `CreateLoad`
therefore takes the quantity along.

**Deposits.** Create, approve and reject are one ledger call each; an edit is a
load and a later write by id, which is how it can arrive after the verdict.

**Custody.** Deposits, loans and trades over one ledger and one pool of handlers, so
that a corrected deposit is pledged, sold in parts and pledged again by its buyer.

**Partnership.** Links and organisations with the loads and writes of every handler
apart. Pledges and liens are rows with a status: how goods follow them is in
`Collateral`.

**Roster.** Assignments (one row per post, ended and never deleted, under a unique
index), staff, the shared password of a warehouse and the tokens that carry a
sign-in from one request to the next. Passwords are known by who chose them.

**Enrolment.** Rows and the unique indexes that guard them; a service picks a login,
slug or code from what it reads and inserts later, and an insert that an index
refuses is an exception. A login is a name and a number. A patch of a client's
documents without the directors may name any director: `updateClient` compares
references with the directors of the same payload, and looks up none.

**Clientele.** Attachments, accepted commodities and the place of a deposit: the checks
before a deposit is filed or moved. The `lookups` counter models that the rate
limiter's bucket belongs to a request-scoped service.

**AccountSecurity.** One account: PIN, two-factor switch, codes and links as numbered
rows that are voided or used up. Secrets are right or wrong, not compared.

**Grading.** One commodity: thresholds are functions from some of the grades, as the
JSON allows, and `ComputedGrade` is `scoreSample`: the first grade whose threshold
admits a measurement, the worst over the parameters. A correction carries the
receipt it read to its diff-driven write. A request names a grade, none, or the
empty string (`Blank`), which the DTO lets through. Two tests treat it differently:
for `dto.grade ?? ...` it is a grade (`Given`), for `!!dto.grade` it is none (`Chosen`).

**Billing.** Policies as a sequence in order of creation, `resolvePolicy` one query a
step, `CalculateFee` in integers (thousandths of the currency), and the two
computations of `withdrawals` that bill by it. Both take the measure and bag weight
of the commodity and the date of deposit from what they have just read:
`UpdateCommodity` changes the first two at any time, `CorrectDate` the date of a receipt
that is `ACTIVE`, into the future too, where days and fee are negative. The hold of a
payment copies the date to the child that is billed. Time is half days, so that a
period can be begun.

**Bookings, Screens, Reports.** `Bookings` is the write side the readers see: each
handler one action, a ledger call and its row together, over two lots (a warehouse
and a commodity each). `Correct` is the one action that is no ledger call: until the
verdict a correction rewrites quantity, warehouse and commodity of a deposit that the
client's statement lists already. `Screens` has the receipt lists, queues, statements, charts
and exposure, `Reports` the cards, dashboards, transaction lists, drill-downs and
reports, one operator per response with a field per figure. There are no windows
of time, pages or prices: a value is the quantity it is computed from.

Inputs are those the DTOs and the scope checks let through. One assumption is
made on them: a seller lists a receipt he owns when he asks (createTrade reads it
by id only). Definitions marked "Variant" are plausible wrong versions of the
definition that follows; no specification uses them. They are the mutants of
`PROJECT.json`: each property is known to fail when its definition is replaced by
the variant.

## 3. The runs

Every passing run is exhaustive for its constants. `CHECK_DEADLOCK FALSE` is set
everywhere: a ledger whose bounded keys are used up, or whose goods have all left,
has nothing to do, and so has a register whose rows are all drawn.

| run | what is in it | properties |
|---|---|---|
| `ledger` | all primitives in any order; 5 receipts, deposits up to 3 units, 6 calls under fresh keys | type; mass conservation per split and per tree, with lineage (`TreesReconcile`); no double spend; the journal explains statuses and only approved stock moves (`JournalExplainsStock`); available stock passes the guards of hold; holds name their transaction; closed receipts stay closed; implements CustodyStock |
| `withdrawals_race` | 3 handlers, cron, a competing hold, crashes; 1 withdrawal of part of 2 units | a crashed confirmation can be retried; a handler touches only its own child, which is released or removed, not both (`HandlersKeepToTheirHold`); a row never runs ahead of the stock and nothing leaves unapproved (`RowsAreBacked`); only a rejection rejects what was paid |
| `crons` | either 2 clients and 2 withdrawals of one receipt, or 2 pledges on one deposit; 1 handler beside the cron, crashes; fairness | the soft reservation never overbooks; a handler touches only its own pledge's child; lapsed requests and pledges are cleared (`LapsedIsCleared`, liveness) |
| `collateral_race` | 2 handlers, cron, crashes; 1 pledge, 2 release requests of a line | a closed pledge holds nothing; accepted means liened, and a lien of which nothing remains locks nothing (`LiensMatchStock`); freed and held add up to what was pledged |
| `custody_race` | 2 handlers, crashes; a deposit that is corrected, a loan, 2 listings, 2 clients | one verdict per deposit; late corrections touch no child; a closed loan frees its collateral, once; exchange and ledger agree, sold or returned (`TradesAreSettledOnce`) |
| `custody_sequential` | 1 request at a time, crashes; a deposit, 2 loans over 2 amounts and 2 financiers, 1 listing | the approved quantity stands; schedule matches terms; unsold goods stay with the seller and answer for one claim (`SoldGoodsAreClaimedOnce`) |
| `registers` | seven registers, one scene per behaviour, with 1 handler or 2 | see below |
| `screens` | every client of the ledger, a handler a step; 6 receipts, 2 deposits up to 2 units in 2 lots, 2 clients, 2 requests of any kind | see below |

`registers` checks, with two handlers: goods are pledged under a signed link
(`OneSignedLink`), an initial password only serves to choose another
(`InitialPasswordIsTemporary`), logins are numbered without gaps and no code is issued
twice (`IdentifiersFit`), a reset ends all links (`ResetEndsLinks`). With one: one
engagement per financier and warehouse, a rejection reason only on unsigned links
and one active attachment per client (`OneSignedLink`); no offboarding strands a lien
or is undone, deposits are filed and placed where links and acceptance allow
(`LinksAreHonoured`); nobody is registered twice, and what was picked is still free
at the insert (`IdentifiersFit`); a code confirms one action (`CodeIsSpentOnce`); worse
goods are never graded better (`WorseNeverGradesBetter`); the grade of a receipt is
explained by its scores or by whoever chose another, the empty string excepted, which
a request can store in its place and nobody answers for (`GradesExplained`); while
nobody touches policies, commodity or date of deposit, the narrowest policy is charged
and the bill is never less than the quote (`BillsFollowPolicies`).

`screens` checks that what is shown twice is shown alike: tabs and badges cover the
receipts once, the request shown on a receipt is the one that holds it, and queues
list exactly what their handlers accept (`ScreensAgree`); a client's balance is what
his statement leaves him, charted deposits are the stock that remains and the
exposure is the stock under lien (`BooksAgree`); every other figure, namely what the
wizard offers, histories, trails, the page of a receipt, cards, lists and volumes,
agrees with the receipts (`FiguresMatchStock`); a transaction that a statement lists
stays on it with its quantity and its place, unless it is a deposit that still awaits
its verdict: that line a correction rewrites (`HistoryKept`).

Where a property is a conjunction, the comment at its definition names the parts
and the code each is about.

**Bounds and why they are enough.** With five receipts a root is split, a child of it
is split again and the remainder is still there: every shape in which a split,
its parent and its sibling are told apart. Six calls suffice to deposit, approve,
hold, release and hold again or to split twice and spend each part. With one
client, `ledger` cannot tell owners apart; owners matter in the exchange, and
`custody_*` has two. Two units are the least that can be split; three (in
`ledger`) make two halves of different size. In the service runs one row and two
or three handlers give every race over that row; two rows with one handler give
every order of whole requests, cut short anywhere. `withdrawals_race` starts three
handlers because a retry, a rejection and a completion can meet. The HoldStatus
sets name only the statuses the flow at hand places holds with; the lien status
comes from `TransitionPledgeToLien`. In the custody runs a loan or a trade that read the
quantity before a correction splits the deposit, otherwise it takes all of its
receipt. The four receipts are a root, its part and remainder and a claim on one of
them; or a root, its hold, and two more holds of that after it was given back or sold.

`crons` follows one flow per behaviour. The two crons meet in the ledger only, where
keys and holds keep them apart; a behaviour with both would ask nothing new.
Likewise `registers`: the registers share no table, so no step of one can depend on
another. Two links of one financier and one warehouse, two attachments of a client
or two namesakes are the least that can be told apart or mixed up. `registers` grades
with two parameters, two grades and two changes of the rules: a receipt graded under
rules that were replaced, twice. Billing has
monthly and weekly policies, a measure in tons and one in bags, and three instants:
the deposit, half a day later (a day, week and month begun) and a day of another
month; the same instants serve as dates of deposit, so a date can lie before, at
or after the day that is billed. In `screens` a request is one handler at a
time, since a reader sees the tables between two statements anyway in the race
runs and no screen promises to be right within a handler; six receipts let each of
two requests split one of two deposits. Symmetry is used for handlers, clients
and requests, and in `screens` for exchanging warehouse and commodity of one lot with
the other's, never in a run with liveness. `screens` has a view besides: states that
differ only in the quantities of events are one (`Shown`). No action and no property of
`Bookings`, `Screens` or `Reports` reads that quantity, and only a correction leaves it
apart from the receipt's.

**Why some properties hold for one request at a time only.** `NoOverbooking`,
`ScheduleMatchesTerms`, `SoldGoodsAreClaimedOnce`, `ApprovedQuantityStands` and the
one-handler parts of `registers` are true when requests come one after the other,
each possibly cut short, and false when two interleave: the check and the write
they depend on are separate statements in the code. They are checked where they
hold and said here to fail elsewhere; section 4 names the most instructive cases.

**Fairness.** Only `crons` assumes any, and only of the crons, which the scheduler fires
every ten minutes: a sweep starts (weak fairness of `SweepFind`) and an expiry round
does not hang (weak fairness of `Abort(cron)`: it goes on, fails or dies); rounds may
fail, but not every one forever (strong fairness of `SweepUpdate` and of `ExpireFind`,
which is disabled while a round is running); and a pledge whose release is tried
again and again is released once (strong fairness of `ExpireRelease`, for each
pledge). Nothing is assumed of clients, financiers or administrators: no request is
ever bound to be made, retried or finished. `FairestSpec` of `Collateral` adds what
one could at most hope for (no handler hangs, every pledge lapses, every expired
row is written); it serves only two refutations of section 4. The registers and
readers have no background job, hence nothing that is bound to happen.

## 4. Where the code parts from its comments

Four runs expect a violation; each checks one sentence of the repository.

| run | property | sentence | what happens |
|---|---|---|---|
| `withdrawals_swept_hold` | `SweptRowsHoldNothing` | `withdrawals.cleanup.service.ts:32` "no hold was ever placed" | a confirmation that placed its hold and stopped is swept: the goods stay reserved for a rejected row |
| `collateral_lien_freed` | `OnlyReleaseFreesLien` | `schema.prisma:36` "only an approved ReleaseRequest (or a Global Admin force-release) can free this volume" | a cancellation that loaded the pledge before its acceptance frees the goods of the lien |
| `collateral_retry` | `LineReleasedOnce` | `release-requests.service.ts:355` "replays what completed and finishes the rest" | an approval of half a lien that stops after the lien update releases the other half when retried |
| `enrolment_second_tenant` | `ClientCodeFits` | `warehouse-manager.controller.ts:262` and `schema.prisma:810` | codes are counted within a tenant and unique over all: the first client of a second tenant cannot be enrolled |

More statements are refuted by configurations kept here that are not among the runs.

| configuration | property | source of the statement | what happens |
|---|---|---|---|
| `LedgerRoundedExact.cfg` | `ExactConservation` | `inventory.recon.ts:48` | part and remainder of a split at half a stored unit are both rounded up |
| `CustodyGenesis.cfg` | `GenesisAnchorsRoot` | `inventory.recon.ts:47` | a correction of a pending deposit changes the receipt, not the event |
| `PartnershipOrphan.cfg` | `NoOrphanedLien` | `financier-orgs.service.ts:457` | a pledge that was pending when its financier was offboarded is accepted later |
| `RosterReassign.cfg` | `AssignmentGoesThrough` | `managers.service.ts:599` | a manager sent back to an earlier post meets the unique index of the ended row |
| `EnrolmentDocuments.cfg` | `DocsResolve` | `schema.prisma:949`, `warehouse-manager.service.ts:2964` | a patch of the directors alone drops one that documents still name; a patch of the documents alone names one that does not exist |
| `ClienteleDetached.cfg` | `DetachedIsHidden` | `schema.prisma:1262` | receipts and registration keep a detached client on the list |
| `ClienteleMoved.cfg` | `StoredUnderLink` | `warehouse-manager.service.ts:3281` | a correction moves a deposit to a warehouse its owner has no link to |
| `AccountSecurityNoPin.cfg` | `TwoFactorHasPin` | `security.service.ts:124` | clearing the PIN and enabling 2FA both pass their checks (two handlers) |
| `GradingMixed.cfg` | `GradesExplained` | `warehouse-manager.service.ts:3640` | two corrections that loaded one receipt leave a grade no scores give |
| `BillingDispatch.cfg` | `BilledAtDispatch` | `withdrawals.service.ts:843` | a completion that consumed the goods and stopped bills the day of its retry |

The next ones are stated in the modules too; put one into the configuration named
in place of its properties (with the change of constants given) and TLC refutes it.

| property | source | what happens | configuration |
|---|---|---|---|
| `CompletedIsTerminal` | `withdrawals.service.ts:751` | a rejection that loaded the APPROVED row overwrites COMPLETED | `WithdrawalsRace.cfg` |
| `LienCoversHeld` | `release-requests.service.ts:355` | an approval of a part that stops after the lien update and is repeated takes the part off the lien twice, and two units stay locked under a lien of one | `CollateralRace.cfg`, 1 handler, `Stock` and `MaxQuantity` 3, 1 request |
| `LienTerminal` | `schema.prisma:1556` | an approval in flight writes PARTIALLY_RELEASED over FORCE_RELEASED | `CollateralRace.cfg` |
| `ClosedRequestsReleasedNothing` | `release-requests.service.ts:341` | an approval that stopped after a line, then a cancellation | `CollateralRace.cfg` |
| `PledgeableCanBeHeld` | `pledges.service.ts:374` | createPledge admits a SPLIT root and the hold always refuses it | `CollateralRace.cfg`, 1 handler, 2 pledges of 2 units, no requests |
| `PledgeHoldsEnd` | `schema.prisma:33` | createPledge stops between the hold and the insert: no row, so no cron | the same, 1 pledge, `FairestSpec` |
| `StalePledgesExpire` | `pledges.service.ts:833` | a cancellation that released the goods and stopped: every tick is refused by the ledger | the same, 1 pledge, `FairestSpec` |
| `OnlyPendingIsCorrected` | `warehouse-manager.service.ts:3463` | the approval comes between load and write of a correction | `CustodyRace.cfg` |
| `TerminalLoans` | `loans.service.ts:297` | an approval in flight writes ACTIVE over REJECTED | `CustodyRace.cfg` |
| `TermsFrozen` | `loans.service.ts:367` | the approval comes between load and write of an edit | `CustodyRace.cfg`, 2 amounts |
| `ActiveLoanIsSecured` | `loans.service.ts:91` | approval and rejection stop after their ledger calls; the next approval replays its ledger call | `CustodyRace.cfg` |
| `ScheduleMatchesTerms` | `loans.service.ts:415` | an edit of the amount and one of the financier loaded the same row | `CustodyRace.cfg`, 2 amounts, 2 financiers |
| `ToldTheTruth` | `trades.service.ts:251` | the replay skips the guarded update: two buyers are told SETTLED | `CustodyRace.cfg`, 3 clients |
| `CancelledTabHidesSplits` | `receipts.service.ts:17` | the filter of the Cancelled tab includes SPLIT | `Screens.cfg` |
| `BreakdownIsInWarehouse` | `dashboard.service.ts:109` | the comment says every held status; pledged and liened goods are not counted | `Screens.cfg` |
| `PendingQueueAwaitsAdmin` | `admin-receipt.controller.ts:74` | the queue also lists what no administrator approves, such as pledges and trades | `Screens.cfg` |
| `EncumbranceAddsUp` | `pledges.service.ts:97` | goods that were withdrawn, sold or held for something else are in the total only | `Screens.cfg` |
| `PendingCardIsTheQueue` | `admin-receipt.service.ts:370` | the card leaves out superseded receipts, the queue lists them | `Screens.cfg` |
| `OverridesAreRecorded` | `warehouse-manager.service.ts:3471` | the empty string replaces the computed grade, and the log says that nothing was overridden | `GradingMixed.cfg`, 1 handler |
| `ThresholdsMatchGrades` | `grading.service.ts:93` | the number of grades is changed below a configured parameter | `GradingMixed.cfg` |
| `BagPoliciesAreWeighed` | `storage-fees.service.ts:50` | two of three writers of policies do not ask for the bag weight | `BillingDispatch.cfg` |
| `OneEngagement`, `OffboardingIsTerminal` | `warehouse-links.service.ts:320`, `financier-orgs.service.ts:369` | check and write of two requests interleave | `PartnershipOrphan.cfg`, 2 handlers (the second as `[][...]_vars`) |
| `LienCountIsLive` | `financier-orgs.service.ts:606` | a partially released lien is not counted, and still blocks the offboarding | `PartnershipOrphan.cfg` |
| `InheritanceRotates` | `admin-warehouse.service.ts:529` | a manager assigned from the manager's side, or created with the assignment, is told the old password | `RosterReassign.cfg` (as a PROPERTY) |
| `ActiveStockAccepted` | `admin-warehouse.service.ts:493` | removal overlooks deposits that await approval and held receipts; a correction may change the commodity alone | `ClienteleDetached.cfg` |
| `LookupsLimited` | `warehouse-manager.service.ts:614` | the limiter's bucket lives as long as one request | `ClienteleDetached.cfg`, `LookupLimit` 3 |
| `PhotosAgree` | `warehouse-manager.dto.ts:276` | a manager clears the photo of one surface only | `EnrolmentDocuments.cfg`, `Photo` {"null", "empty", "url"} |
| `NinRegisteredOnce` | `schema.prisma:828` | two enrolments check before either inserts | `EnrolmentDocuments.cfg`, 2 handlers |
| `OneActiveAttachment` | `warehouse-manager.service.ts:884` | two attachments check before either inserts | `ClienteleDetached.cfg`, 2 handlers, 2 attachments |

Observed while modelling: `resolvePolicy` asks four times, so switches in between
can leave it with no policy although one was in force throughout; nothing in the
code writes `TRADED_OUT`; the stored figure of the distribution chart includes
deposits awaiting approval and that of the network's warehouses does not; the
recent activities of the dashboard call every loan approved and every trade
settled.

## 5. The proofs

`InventoryLedgerProofs` proves, for every bound, every caller precision `Scale`, and
any sets of clients, keys and transactions:

* `LedgerTypeCorrect`: `LedgerSpec => []LedgerTypeOK`.
* `MassConservation`: `LedgerSpec => []SplitConservation`. A superseded receipt has one
  child with its quantity or two that add up to it, exactly for `Scale = 1`, with
  a surplus of at most one stored unit otherwise. No run with a coarser precision
  is needed for it; `LedgerRoundedExact.cfg` shows that the surplus is real.

For the same constants, about history:

* `AvailableStockIsTransactable`: `LedgerSpec => []AvailableIsTransactable`. Whatever
  holds and releases it went through, an `ACTIVE` receipt passes the guards of
  `hold`.
* `EveryHoldIsAttributed`: `LedgerSpec => []HoldsAreAttributed`.
* `ReceiptHistoryIsFinal`: `LedgerSpec => HistoryIsFinal`, the action property: no call
  rewrites quantity or lineage, reopens a closed receipt or holds one in place.
* `GoodsAreSpentOnce`: `LedgerSpec => []NoDoubleSpend`. However calls are interleaved
  and retried under fresh keys, at most one event takes the goods of a receipt.

*Assumptions*: the bounds are naturals and `Scale` a positive one (`BoundsAssumption`,
`ScaleAssumption`), holds are placed with held statuses (`HoldStatusAssumption`), and
`None` is not a client, key or transaction (`NoneAssumption`).

*Argument*: neither of the first two is inductive alone. `LedgerInv` joins the typing of the
table, `SplitConservation` and `TreeShape` (a parent is older than its child; `isParent`
is the same as status `SPLIT`). A split must not touch another family: new ids
exceed all old ones, so no existing receipt points at them, and the source,
whose guard says it is not `SPLIT`, has no children yet by `SplitConservation`
itself. `UpdateKeepsInv` handles the ten status steps at once: a change in place
that keeps quantity, lineage and the split flag (`SameNode`). `SplitKeepsInv` handles
the three splits, `PartitionKeepsInv` feeds it. Arithmetic sits in lemmas of its
own: `StoredBounds` (rounding is within half a unit), `WholeIsExact`, and `SplitDrift`
(a part and its remainder, both rounded, exceed the whole by 0, or by 1 if
`Scale` allows).

From there on no proof looks at a primitive again. `StepShapes` shows that each
of them does one of three things: `TakenIn` (a root is minted), `Aged` (one receipt
changes in place) or `Superseded` (one open leaf is split). Each shape says what
happens to statuses, lineage and the journal, and the invariants are proved
from the shapes. `RowsSettled`, the status columns row by row, is inductive on its
own. `NoDoubleSpend` is not: a receipt spent once must be known to be closed, or the
next consumption could be its second. `SpendInv` therefore adds `OpenIsUnspent` and
`EventsOfMinted` (no event speaks of a receipt still to be minted, so that a new
one starts unspent). For a split it also uses `SplitConservation`, which says that
the source has no children yet, and `TreeShape`, by which no older receipt has one
of the new ids as its parent.

* `JournalTellsTheStock`: `LedgerSpec => []JournalExplainsStock`. The journal alone says
  whether a receipt is gone, split, pending or still held, and nothing is held,
  split or removed in a tree whose deposit no administrator approved. `JournalInv`
  adds to `SpendInv` what the journal says of each row (`Explained`) and that what is
  no longer pending comes from a deposit the journal says was approved (`Admitted`).

About amounts:

* `TreesAlwaysReconcile`: `LedgerSpec => []TreesReconcile`, the three checks of
  `reconcileRoot` after any history: leaves add up to the deposit, with a surplus of
  at most one unit per split when requests are rounded; every receipt descends
  from its root.
* `LedgerImplementsStock`: `LedgerSpec => ImplementsStock` when `Scale = 1`. With rounding the
  implementation is false (a split creates up to one unit), which is why the
  theorem has that hypothesis and `TreesReconcile` a surplus.

`Amount` is a fold, which the provers cannot unfold. The first lemmas say once what
it computes: nothing for no receipts, one row more for one receipt more, the same
for tables that agree. Each is shown by a least counterexample, ordered by
cardinality, since no induction theorem can be instantiated here. `StockInv`
then joins `Descent` (every receipt is below the root it names) and `TreesBalance`
to `JournalInv`; a step moves goods of one tree only, and the sum over the others
stays. For the refinement every shape becomes one action of `CustodyStock`:
`TakenInMaps`, `AgedMaps` and `SupersededMaps`, with `Sized` (quantities are positive and
bounded), which rounding would break.

`WithdrawalsProofs` proves the four properties of `withdrawals_race` for any number of
withdrawals and handlers, and the soft reservation for one handler:

* `HandlersKeepTheirHold`: `Spec => []HandlersKeepToTheirHold`;
* `RowsAreAlwaysBacked`: `Spec => []RowsAreBacked`;
* `ConfirmIsAlwaysRetryable`: `Spec => []ConfirmIsRetryable`;
* `OnlyRejectsRejectPaid`: `Spec => OnlyRejectRejectsPaid`, the action property;
* `SoftReservationHolds`: `Spec => []NoOverbooking` when `Call` has one element: any
  number of withdrawals of one receipt, unpaid and paid, never ask for more than it
  holds, with the clean-up cron at work and a crash possible anywhere.

A handler acts on what it read some steps ago. `WithdrawalInv` says of every
handler in flight what is left of its reading (`CallSays`). That this stays true
while others act is shown once, by `CallKept`, from two facts about every step: the
ledger only grows (`Grown`: no receipt changes the transaction it was held for, none
is held in place, no key leaves the journal) and rows only age (`RowsAge`). `HoldSays` is the heart:
the hold of a withdrawal has one child, whatever was aborted and retried, because
its key is in the journal once. The reservation needs `BookedInv` beside it: a
request about to be inserted still fits beside those that are there (`Fits`), and
there are finitely many rows to add up.

`CollateralProofs` does the same for pledges, liens and release requests:

* `ClosedPledgesAreReleased`, `LiensAgreeWithTheStock`, `GoodsAreFreedOnce`: the three
  invariants of `collateral_race`;
* `HandlersTouchTheirOwnGoods`: no handler makes a ledger call on what another
  pledge has on hold (`OwnGoodsOnly`, which `crons` checks with a cron at work).

Here a hold may be released in parts, and each part leaves a new held child.
`GoodsSays` says that at most one receipt is held for a pledge, and that it and
what the journal says was released add up to what was pledged. Hence whoever
releases all of that one ends the hold (`Freed`), and
the key of a cancellation, rejection, expiry, force release or full line release in
the journal means that nothing is held any more, whoever wrote it. That carries over a crash between a ledger call
and its row: the retry finds the key and may write the row. The sums rest on
`Amount` of the ledger's proofs.

`CustodyProofs` is about the composition of deposits, loans and trades:

* `DepositsHaveOneVerdict`, `CollateralIsFreedOnce`, `ListingsEndOnce`: the invariants
  `OneVerdict`, `LoanCollateralFreedOnce`, `TradesAreSettledOnce`;
* `OnlyRootsAreCorrected`: `Spec => CorrectsRootsOnly`, the action property.

A correction writes `quantity` outside the ledger, so `SplitConservation` is false in
`Custody` and none of the ledger's invariants but typing is available. For the same
reason a hold can be of a part: `ChildrenMove` covers a receipt superseded by one
child or two. The proof rests on what no step of any of the three services does to a receipt (`Calm`): none takes
hold of one in place, and none changes the owner of one that is not held. So a
row whose goods were let go of keeps them let go of, and the buyer of record
remains the owner, whatever the other services do with the same receipt.
`CustodyInv` adds what the journal says of verdicts (`VerdictSays`, `RootSays`), of
each loan and listing (`LoanSays`, `TradeSays`), of each handler (`CallSays`), and that
no two handlers are about to insert the same row.

The last part of the module has what holds of `Custody` when `Call` has one element, as in
`custody_sequential`: requests one after the other, each possibly cut short between two
steps, any number of filings, loans and listings.

* `ApprovalSetsTheQuantity`: `Spec => []ApprovedQuantityStands`;
* `ScheduleFollowsTerms`: `Spec => []ScheduleMatchesTerms`;
* `NothingIsClaimedTwice`: `Spec => []SoldGoodsAreClaimedOnce`, for finitely many loans and
  listings, over which it sums.

The hypothesis is needed: with `CustodySequential.cfg` given two handlers TLC refutes each of the three.
`SoloInv` adds to `CustodyInv` that what the handler has read is still so
(`CallKnows`), that a row points at the child of its own hold (`LoanRowSays`,
`TradeRowSays`), and the shape of the stock (`StockSays`). With one request at a time a
loan or a listing still finds the quantity it read and takes the whole receipt
(`Whole`), so the receipts of a deposit form a line with one end (`OneEnd`), each
with the quantity of the deposit (`LineSays`): a correction comes while the line
is the deposit alone (`PendingIsAlone`). Held receipts are ends and name their
transaction, hence every claim answers for a deposit of its own, of the same
quantity, and `AmountWithin` compares the two sums.

*Assumptions* of the three are those of the ledger and the ones named in the modules
themselves (`WithdrawalAssumption`, `CollateralAssumption`, `CustodyAssumption`): the keys
the services build exist and rows of different services have different ids,
the statuses they hold with are held statuses, there is room for the first receipt.

`GradingProofs` proves, for any parameters, number of grades, measures and bound on
changes:

* `GradingIsMonotone`: `Spec => []WorseNeverGradesBetter`. Whatever the configuration has
  become, goods that measure worse in every parameter are never graded better.
  It rests on `Config`, the typing of what `addParameter`, `updateParameter` and
  `updateCommodity` leave behind (a threshold for some of the grades, in any order), and on
  the best and worst grade of a nonempty set being its least and greatest element
  (`BestIsLeast`, `WorstIsGreatest`, by well-foundedness of the naturals).
* `ReceiptGradesAreExplained`: `Spec => []GradesExplained` when `Call` has one element. The
  invariant adds that a correction in flight knows the receipt as it is, which is
  what a second handler destroys (`GradingMixed.cfg`). Requests with an empty grade are
  among those it is about: the theorem says that this one grade is the only
  one that a receipt can bear without scores or a person behind it.

`GradingTypes` (`Spec => []TypeOK`) is what the composition below takes from it.

`CronsProofs` transfers two of these theorems to the run `crons`: `NeverOverbooked` and
`PledgesTouchTheirOwnGoods`. A behaviour of `MCCrons` follows one flow from beginning to
end (`flow` never changes), so it is a behaviour of that flow's own specification, for
whose constants `SoftReservationHolds` and `HandlersTouchTheirOwnGoods` hold. The one
assumption is that the run's names differ (`NamesAssumption`).

`RegistersProofs` proves all nine properties of `registers`, for every value of the bounds
that `MCRegisters` leaves open: any sets of partners, managers, tenants, clients,
policies and receipts, any number of codes, links and grades, and any racing
handlers.

* `RegistersInvariance`: `Spec => []SceneInv`, the inductive invariant;
* invariants: `LinksAreAlwaysSigned`, `InitialPasswordsStayTemporary`,
  `IdentifiersAlwaysFit`, `CodesAreSpentOnce`, `WorseIsNeverGradedBetter`,
  `GradesAreAlwaysExplained`, `BillsAlwaysFollowPolicies`;
* action properties: `LinksAreAlwaysHonoured`, `ResetsAlwaysEndLinks`.

Each register has an invariant of its own. It has two parts: what its tables keep
whoever writes them, and what a handler carries from one step to the next. With
racing handlers only facts that no other handler can take back are carried
(`...Knows`: a token is of one who was on the staff when it was issued, a login that
was picked has all lower numbers taken). A handler that runs alone is also known to
see the tables as they are (`...Sees`), which is why more is promised in those
scenes. `SceneInv` picks the invariant of the register that a behaviour follows:
registers share no table. Billing is the exception to the pattern: its properties are about
arithmetic over whole days, periods and rates, and its lemmas say when the bill of a
later instant covers the quote of an earlier one, days before the date of deposit
included, as long as policies, commodity and date are those of the quote. *Assumptions*: those named in
`MCRegisters`, such as that there is a positive number of attempts at a code or that
a column of photographs may be empty.

`ScreensProofs` is about the readers, for any clients, requests, lots and receipts,
given the keys the services build (`BookingAssumption`) and `Scale = 1`, since handlers
and screens see the quantities the ledger keeps:

* `ScreensAlwaysAgree`: `Spec => []ScreensAgree`, from `RowsAreTyped`, `GroupsAlwaysAgree`,
  `RequestsShownAreHolders`, `QueuesAlwaysAgree`;
* `HistoryIsKept`: `Spec => HistoryKept`, the action property;
* `BooksAlwaysAgree`: `Spec => []BooksAgree`;
* `FiguresAlwaysMatch`: `Spec => []FiguresMatchStock`, for finitely many clients, requests
  and lots (`Finite`: a database has no others, and a sum over an infinite set is
  not defined);
* `HandlersUseTheLedger`: `Spec => LedgerInit /\ [][LedgerNext \/ DepositCorrected]_ledgerVars`.
  Every step of the handlers is one of `InventoryLedger`, or writes the quantity of a
  deposit that awaits its verdict: there is no third way to the tables.
* `JournalStaysTrue`: `Spec => []JournalInv`. Theorems about the ledger do not carry over
  as they are, since a correction is none of its steps (after one the DEPOSIT event no
  longer matches, as `CustodyGenesis.cfg` shows). What the journal tells of each
  receipt does carry over; the trails of a receipt need it.

Most handlers are shown to be steps of the ledger once (`Handled`) and inherit what its
steps preserve; the correction (`Correction`) has a lemma per invariant. It is harmless
because of `AwaitingAreWhole`: a receipt that awaits its verdict is a root with
no descendants, so no split has to add up to it. And `AskedOfDecided` says that
no request stands on such a tree, so no line of a statement but its own moves;
`HistoryIsKept` follows from that together with `Accounted`.

The lists need `BookingInv` (`BookingInvariance`): what an open request or a standing lien
says of the stock is so, and a receipt on hold has exactly one row that speaks of
it. Each handler has a lemma; `Recorded` says what a handler does to the
rows that are there already. The books need the history of the goods: `Traced`
(`TracedInvariance`) says that goods that left did so by one completed withdrawal, and
that goods whose owner differs from that of the receipt they were split off were
sold by one settled trade. A statement's sum over lines is therefore a sum over
receipts (`OneToOne`, `RowsStandForReceipts`, `LinesStandForReceipts`), the children of a
split add up to it (`NothingIsLost`), and the balance follows by arithmetic.

The figures need a third invariant, `Accounted` (`AccountedInvariance`): receipts descend
from a deposit that has a lot (a warehouse and a commodity), the journal has the
event each came from and none of another key than the handlers', what is on hold
belongs to the client whose request holds it and came out of the pile he asked for, a
pledge that awaits its financier has its goods on hold, and a released lien has
nothing left. `FiguresMatchStock` is some sixty equations between sums and
cardinalities. Most are split into the fact that the groups of one side (by
warehouse, commodity, client, status) partition the receipts or requests of the
other, and a lemma about sums over a partition or a union of disjoint sets.

*Model-checked only*: liveness (`LapsedIsCleared`) and everything about ENABLED, which the
prover does not treat.

## 6. Not modelled

Receipt numbers and their suffix allocation. Prices and interest (amounts are
opaque). Permissions, roles and the 2FA gates of the flows, which only decide
whether a request goes on; the gates themselves are in `AccountSecurity`.
Notifications, e-mail and file storage: best effort, and no modelled state depends
on them. Unit conversion of the utilisation meter, percentages of defects.
Paging, searches and windows of time of the readers. Tenant suspension and
branding, profile edits, JWT refresh. Seeds and the backfill, which run offline.
The serialization retry loop of `withSerializableTx`: a failure is an abandoned
handler. `editWithdrawal` changes no modelled column. A hold whose replay finds no
held child makes the caller throw; here the step is not enabled and the handler
can only stop.

## 7. Plan

Done: the ledger, its abstract specification and proofs; withdrawals, collateral,
deposits, loans and trades, and the composition of the last three; the crons with
liveness; seven registers; the readers; proofs of every safety property that a
passing run checks (section 5).

Next, modules: receipt numbers (suffix allocation and the parsing of legacy
numbers, `inventory.tx.ts:83`); withdrawals, collateral and custody over one ledger:
a receipt that is partly withdrawn, partly pledged and partly sold, step by step.
