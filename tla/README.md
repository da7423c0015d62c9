# A verification of the LM² farmer portal (Farmday)

This directory holds TLA+ models of the portal in `src/`: an ASP.NET MVC / EPiServer site (`Gro`),
its data access (`Gro.Infrastructure.Data`), its domain types (`Gro.Core`,
`Gro.Core.ContentTypes`) and its browser code (`Gro/React`, `Gro/Static/scripts/src`). Farmers
log in, act for a customer (their farm), and see and change what back-end systems hold about it:
users and roles, deliveries, agreements, machines, messages, booked times. The site keeps almost
no data of its own. What it does keep, and where it can go wrong, is between the requests: a
cache, sessions, snapshots taken before a slow call, two requests that should have been one.

Contents: 1 inventory; 2 modules and what became of the plan; 3 to 8 the six modelled components; 9 findings;
10 bounds, proofs and what is only model-checked; 11 what is not modelled.

`PROJECT.json` is the index: components, runs, mutants, the map from definitions to source
lines, findings, hazards and theorems. This text explains them.

## 1. Inventory

| component | state it keeps | operations | what is hard | correct when |
|---|---|---|---|---|
| **Interceptors and cache** (`Interceptors/*`, `GroRuntimeCache`) | one region of `HttpRuntime.Cache` for each repository | cached reads, writes that name the keys they invalidate, masking of failures | no lock between lookup, call, fill and removal; tasks that fail or are cancelled | an entry is what the service says or is known to be otherwise; every call returns |
| **Cache keys** (`MethodParameterFormatter`, `CacheInterceptor`) | none | a template and the arguments give a key | arguments without a text of their own | different questions have different keys |
| **Dependency wiring** (`Business/Initialization`) | none | chooses per repository which exceptions pass | | |
| **Organisation membership** (`OrganizationUserRepository`, `WsRequestModule`, three page controllers) | the person record in IAM: `lmorg`, `lmorgroles`; requests under way; the cached customer list | add, update, remove | read, modify, write of whole lists; asynchronous requests that are polled ten times; failures half way | no role without membership; a change has its effect and no other; the owner stays |
| **Delivery assurance wizard** (`DeliveryAssurancePageController`) | drafts and the list to approve in the session and in TempData | list, create, copy, change, approve one or several, overview, save, delete | tabs that share the session, back, reload, double click, changes made elsewhere | what is saved is what was shown, once, for what was chosen |
| **Tickets** (`TicketProvider`, `SecurityRepository`) | a ticket and an IAM session in the cache | get, log in, renew | expiration; two logins at once; fields read before they are filled | a call has a valid ticket |
| **Account creation, activation** (`AccountRepository`, `AccountActivationController`) | the user in IAM | look up, create, suspend, give roles, mail, accept terms | check then create; failure between the calls | an activation is complete or can be repeated |
| **Login, password reset** (`LoginController`, `JwtTokenGenerator`) | the encrypted link, the guid in the back end | send a link, follow it, activate, set the password | a link followed twice or late | a link works once |
| **Site user, profile, terms** (`UsersManagementService`, `UserManagementController`, `MyProfile/*`) | cookie and session copy of the user; accepted versions | active customer, accept, update | copies that are not refreshed; retry | the active customer is one of the user's |
| **Page access** (`PageAccess`, `CustomerRoleAttribute`) | none | roles against access lists | roles are cached | |
| **Booking contacts** (`BookingContactRepository`) | starred garage (back end) | star, list | the write names one of two keys | |
| **Customer support** (`CustomerSupportRepository`, internal pages) | customers (back end) | search, save | the same | |
| **Delivery addresses** (`OrganizationRepository`, `HandleDeliveryAddressesController`) | address and its receivers (back end) | update, add, remove | three calls for one form | the receivers are the chosen ones |
| **Purchasing agreements, hedges, alerts** | forms | order, price alert | dates at the turn of the (harvest) year | |
| **Machines** | back-end list | add, picture | | |
| **Messages, server** (`UserMessagingController`, `UserMessageRepository`) | state of each message | read, star, trash, restore, delete | two tabs; a step that overwrites the state it did not look at | |
| **Messages, React pages** (`React/MessageHubClient/userMessages`) | a store for each tab, counters | load, select, star, trash | answers in any order | the page shows its own tab |
| **Message administration** | drafts | validate, save, send | double submit | |
| **React organisation clients** | list of users | add, change, remove | | |
| **Time booking** (`time-booking.js`, `BokaRepository`) | bookings (back end), search results (page) | search, check, reserve, change, delete | check then act; late results; double click | no order booked twice |
| **Search transport, read-only repositories, PDF, role providers, content types, generated code** | none of their own | queries, rendering | | |

The components meet in four ways. Controllers call repositories through the interceptors (a call,
which fails by exception or by a masked default). Repositories call web services and wait (an
await, during which other requests run). Requests of one browser share the session, which ASP.NET
locks for a whole request, and requests of all browsers share the cache, which nothing locks. And
the pages call the API controllers from scripts (messages, answered in any order).

## 2. Modules and plan

| module | models | with | proofs |
|---|---|---|---|
| `RepositoryCache`, implementing `ReadThrough` | interceptors and cache | `MCRepositoryCache` | `RepositoryCacheProofs` |
| `OrgMembership`, implementing `Membership` | changes of a user's customers and roles | `MCOrgMembership` | `OrgMembershipProofs` |
| `DeliveryAssurance`, implementing `Submissions` | the wizard and its session | `MCDeliveryAssurance` | `DeliveryAssuranceProofs` |
| `TimeBooking`, implementing `BookingLedger` | two browser pages and the bookings | `MCTimeBooking` | `TimeBookingProofs` |
| `MessageInbox`, implementing `Mailbox` | three tabs, their store, the message hub | `MCMessageInbox` | `MessageInboxProofs` |
| `DeliveryAddresses` | who is notified of deliveries to an address | `MCDeliveryAddresses` | `DeliveryAddressesProofs` |

The order was that of importance: first the cache, through which everything else reads; then who may do what; then
the one multi-page transaction; then the two browser clients with several requests under way; then the one form that is
saved by several calls. `ReadThrough`, `Membership`, `Submissions`, `BookingLedger` and `Mailbox` are abstract specifications: what a
component promises, without its requests, pages and keys. Each is a property of a run and the subject of a theorem. `DeliveryAddresses` has
none: what it promises is about single saves that overlap (`SaveTakesEffect`), and an abstract save would be the same formula again. What the plan had further
(activation of accounts, reset of passwords, tickets, key templates, periods) was dropped for the reasons of section 11.

Every module takes its sets and bounds as CONSTANTS with named assumptions, has one action for each
operation and no recursive operator, so that it can be proved about. `MCx.tla` and the `.cfg` files give the
instances; `xProofs.tla` holds the theorems. An operator whose comment says *Variant* is a plausible slip in the operator it
stands before; nothing but the mutants of `PROJECT.json` uses it.

## 3. RepositoryCache

One instance is one repository: its proxies, made for each HTTP context, share one region of the
cache. `cache[k]` is the entry of key `k`, `db[k]` the version of what the back end would answer now;
a version is raised by every write that changes it. Contents do not matter except whether the
service answers them with null or an empty list (`EmptyVersions`). A request `c` calls one method
at a time: `pc[c]`.

| action | code |
|---|---|
| `ReadHit`, `ReadMiss` | the lookup of `HandleReadMethod` and `HandleAsyncReadMethod`, with the refresh parameter |
| `ServiceAnswers`, `ReadMasked`, `ReadThrows`, `ReadCancelled` | the service call through `ErrorInterceptor`; what becomes of each kind of failure, on a task and without |
| `Fill` | `AddCache`, which stores no null and no empty enumerable |
| `StartWrite`, `RemoveKey`, `Commit`, `WriteFails` | `HandleWriteMethod`: the keys go first, one attribute after the other, then `Proceed` |
| `Expire` | 20 minutes, or memory pressure |

History variables: `raced` (reads that overlapped a write of their key), `dirty` (keys filled by
such a read) and `fault` (how the service call of a request failed). They guard nothing.

*Refinement.* `ReadThrough` knows no requests, failures half way or invalidation attributes: an entry is learnt whole from the back end as it is at that
moment, forgotten at any time, and forgotten before what it was learnt from changes; only a suspect entry may be out of date, until the next thing
learnt or forgotten under its key. `RepositoryCache` implements it (`ImplementsReadThrough`), seen from the keys that every write to them invalidates (`Covered`), with `db` as the value, `cache` as what is known and the `dirty` keys as
suspect. The interesting step is `Fill`: what it stores was answered earlier, and it
is nevertheless a step of learning as of now unless the read was raced.

*Runs.* `cache_safety`: two requests, two keys (one of a value type, one with a refresh parameter),
two kinds of writes (one of them by another system, which removes nothing), every kind of failure, under `FairSpec`. Two requests let a read overlap a write
at every point; two writes let an entry be one and two versions behind; one of the versions is blank. A system whose requests have
all lost their continuation has stopped, so deadlock is not checked here. `cache_stale_after_write` is a violation, see section 9.

*Liveness.* `EveryCallReturns` says that every call comes back, but after two failures (`LeftWaiting`): the service's task was cancelled, or an asynchronous
read with an entry to fill failed with an exception that is let through. `ErrorInterceptor` never completes its task when the service's was cancelled, and the continuation in
`CacheInterceptor` throws the exception of a failed read inside a task nobody observes. A masked failure, an answer, a write and every method without a task come back. `StaleEntriesDieOut`: once the writes stop, what a race left in the cache goes.

*Fairness* (`FairSpec`): a request that is served goes on (the thread pool runs it and every service call ends, if
only by its WCF timeout), and an entry reaches its absolute expiration. Nothing is assumed about who calls.

*Proved* (`RepositoryCacheProofs`), for any keys, requests and writes: `TypeOK`,
`StaleOnlyByRace`, `EntriesNeverGoBack`, `NoBlankEntry`. `StaleOnlyByRace` speaks about entries at rest and
says nothing of the answer a read is bringing, so it is not inductive. `RaceInv` adds, for each key all of
whose writes invalidate it: an undisturbed answer on its way is current (`FreshAnswer`); while an undisturbed
read is under way no write is (`NoWriteDuringRead`); and a write that has removed the key finds
it empty, unless a raced read has filled it (`EmptyOnceRemoved`). `EntriesNeverGoBack` needs besides that no entry and no
answer is newer than the back end (`PastInv`), and `NoBlankEntry`, which excludes null and every empty answer, that a masked default is on its way only for a value
type in a repository that masks (`ZeroInv`). The refinement (`CacheImplementsReadThrough`) rests on the first two: `FreshAnswer` makes a fill that is not raced
a `Learn` (`FillIsLearning`), `EmptyOnceRemoved` gives a commit the empty entries that `Change` asks for (`CommitIsChange`).

## 4. OrgMembership and Membership

The memberships of one user. `lmorg` and `lmorgroles` are the two attributes of its record in the IAM system; a
change (`op[a]`, made by request `a`) reads both once (`person[a]`), and replaces first one and then
the other, by requests that IAM puts into `pending` and executes in any order and at any time
(`Execute`). `cachedOrgs` is the cached answer of `GetOrganizationsOfUser`.

| action | code |
|---|---|
| `Check` | the pages: `HandleOrganizationPageController` and `AddUserToOrganizationController` check against the cached customers of the user, `CustomerCardPageController` does not |
| `Start`, `RefuseOwner` | `AddUserToOrganizationAsync`, `UpdateUserCustomerRolesAsync`, `RemoveUserFromOrganizationsAsync`: invalidation, owner check, search, first request |
| `Poll`, `Waited` | `WaitForCompletion`, which returns as if completed after ten polls |
| `Continue`, `Complete` | the second request, computed from the first snapshot; the end |
| `Fail` | an exception of any service call; nothing is undone |
| `ListOrgs`, `Expire` | other pages that fill or refresh the cached list; its expiration |

Overlapping changes do undo each other: that is what the code does and `disturbed` records when it may have
(changes or left-over requests overlap, a wait is given up, roles are set where the user is no
member). `NoOrphanRoles` and `CompletedChangeTookEffect` speak about undisturbed changes, with every failure
at every point: they are about the order of the two requests and about what is computed from the
snapshot. `OwnerStays` holds disturbed or not.

*Refinement.* `Membership` knows no requests, snapshots or polls: a user joins a customer, is given roles there and leaves it, one
customer at a time, and leaves only without roles; after an interference the record may be
replaced, but never without the customers to keep. `OrgMembership` implements it (`ImplementsMembership`, the whole specification as a property)
with `members` mapped to the customers in `lmorg`, `grants` to the roles `lmorgroles` holds at each, `interfered` to
`disturbed`, and `Kept` to the owned customers where only the portal makes changes.

*Runs.* `membership_portal`: two requests, two customers of which the user owns one, two changes, one poll: enough for
every pair of changes to overlap at every point, and for a request to be left behind. It runs under fairness, and `ChangeEnds` says that every
change ends although IAM need not execute anything. `membership_card_removes_owner` is a violation.
Deadlock is checked: the list may always be read.

*Fairness*: a change that can take a step takes one (the awaited calls return or throw). Nothing is assumed of `Execute`.

*Proved* (`OrgMembershipProofs`): `TypeOK`, `NoOrphanRoles`, `CompletedChangeTookEffect`, `OwnerStays`, and
the refinement (`Implementation`). The strengthening is `TrackInv`: until disturbed there is at most one change and one
pending request, the record is either the snapshot or the snapshot with the change's first attribute replaced, depending on what is pending (`OnTrack`), and
whatever is pending is safe to execute now (`Safe`). `OneOrgInv` says of a pending request that it concerns one customer only, also
after its change has failed and left it: this makes its execution a step of `Membership`. `OwnerInv` is about all requests: every pending value and every
snapshot in use contains the owned customers, and a removal past its owner check is not of one.

## 5. DeliveryAssurance

One session and the tabs that share it. A tab shows the list, waits to follow a redirect, or shows a form, an overview or a
confirmation (`page[t]`). An assurance is a line of an order: `Lines`, each with the `Number` of its order (`IONumber` and `LineNumber` in the code). `draft` is the part of the session under keys made of the action and the
number, so that all lines of a number share a place for each action; a draft remembers its own line. `approving` and `following` are `Session["MultiApprove"]` and `TempData["MultiApprove"]`. Terms stand
for article, date and pickup, which must be equal to approve together.

| action | code |
|---|---|
| `ShowList` | `Index`, and every redirect to it |
| `MultiApprove`, `FollowRedirect`, `ApproveOne` | `MultiApprove` and `Approve`: TempData replaces the list of the session, no TempData removes it |
| `Create`, `Change`, `BuildForm` | the forms, filled from the draft if there is one, which they take away |
| `Submit` | `Submit`: the draft into the session, the overview to the tab |
| `SaveDraft`, `SaveNothing` | `Save`: draft and list are removed, then the update is sent, which may fail with or without effect; the answer may be lost |
| `Delete`, `Plan`, `ChangedElsewhere` | deletion here or elsewhere; what others do to the assurances (external) |

ASP.NET holds the session for the whole of a request, awaited calls included, so a handler is one step. The form of a
copy does not post the number of the copied assurance (`DeliveryAssuranceForm.cshtml:50`): `SaveKey` and `FormKey` differ
there, and the user's own changes do not come back to the form of a copy. The form of one line takes the draft of another line of its number, and is then the form of that other line
(`FormLine`), because the draft's own line number is posted.

What a save sends is therefore not always what its overview shows. `SavesWhatItShows` says that the only way is that another tab has submitted since, for the same action under the
same number (perhaps for another line of it): never what was submitted before the overview, for another action, or under another number.

*Refinement.* `Submissions` knows no tabs, pages, keys and requests: a submission has a purpose (an action on an assurance) and a place; it is held until it is sent, taken back into a form, or replaced by
one for the same place; it is sent once, accepted or not, for assurances its own purpose allows; nothing else changes an assurance but
others. `DeliveryAssurance` implements it (`ImplementsSubmissions`) with the drafts of the session as the submissions held, and the action and the number as the place: a change of one line may lose its
place to another line of its number, and is never recorded for another.

*Runs.* `wizard_two_tabs`: two tabs, two lines of one order, two submits: enough for two drafts under one key, of one line or of two, and for an approval
between the overview and the save of another. Three lines of two numbers are beyond TLC here (drafts under the keys of two numbers multiply the states); that numbers do not disturb each other rests on the proofs, which are for any lines and numbers.
`wizard_elsewhere`: one tab, two terms, and one assurance changed, planned or deleted elsewhere while it is handled; two tabs with such changes are more than TLC finishes in five minutes, and are covered by the proofs.
`wizard_approves_unlike` is a violation. Not checked, because it is what the code does: an approval form of another tab replaces or removes the list, and an overview that announced several approvals (`DeliveryAssurance_SV.xml:20`) then saves one, or others; `ApprovesWhatWasChosen` excepts it (`chooser`). There is no liveness: nothing obliges a user to go on. Tabs, terms and the lines of one number
are symmetric. Deadlock is checked: the list can always be opened.

*Proved* (`DeliveryAssuranceProofs`): `TypeOK` with the statement that a draft lies under the key of what it is for, `SentOnce`,
`SavesWhatItShows`, `ApprovesWhatWasChosen`, `EditsComeBack`. `SendInv`: a draft in the session was submitted and not sent, and no two keys
hold the same. `ShownInv`: the draft a tab itself left under the key of its overview is the one the overview shows.
`ChoiceInv`: while a tab is the latest chooser, the session's list is its choice, or is empty and the choice is the one assurance.
`HeldInv`: what an overview shows was submitted and lies in the session nowhere but under its own key; with `FormsAreBuilt`,
which says that a step that brings a tab to a form builds that form, it gives `EditsComeBack`. The refinement (`WizardImplementsSubmissions`) needs `SendInv`, that every draft lies under the key that names it
(`TypeOK`), that whoever changes or approves does it to an assurance (`NamedInv`), and that clearing a key is taking one submission away (`TakenAway`).

## 6. TimeBooking

The scripts of the two booking pages (`TimeBookingPage` and `ListingBookingPage` in `time-booking.js`), the controllers behind
them, and the bookings of the back end. `page[p]` holds the fields of a form, the table of times and bookings, the checked boxes and the button that is
shown; `lookups`, `searches`, `reservations` and `changes` are the requests under way. A customer (`who`), a contact, a load and a line are named by the order they
were looked up with.

| action | code |
|---|---|
| `TypeOrder`, `ChangeDay`, `Check` | what the user types and clicks, with the handlers that clear or keep parts of the form |
| `SearchCustomer`, `CustomerAnswered`, `CustomerFailed` | the lookup of an order; a closed one fills half of the form, because its handler ends in a call of a function that does not exist; an answer without customers (`named = FALSE`: another supplier's order, or one without contacts) leaves the customer and contact of the order before |
| `ShowTimes`, `DoSearch`, `ExecuteSearch`, `SearchAnswered`, `SearchFailed` | the searches of both pages |
| `MakeReservation` | the synchronous check for an existing booking (`ExistBooking`), whose failure is only announced, and the request |
| `ExecuteReservation`, `ReservationAnswered`, `ReservationFailed` | the back end books what is free (external); the answer, whatever was booked |
| `EditBooking`, `UpdateReservation`, `DeleteReservation` | the buttons in the rows |
| `ExecuteChange`, `ChangeAnswered`, `ChangeFailed` | `changes` executed, refused, answered, lost |

`OneBookingUnlessRaced` says that two bookings of one order on one day come from one request, or from the gap between check and execution, or after a
check that failed (`clear` records it). `ReservesWhatTheFormShows`: late answers fill the form a user is working in, and yet what is reserved has the line of the order its load is of, and the contact
of the customer the form shows. Whose customer that is has two exceptions, which the property names: a closed order fills the customer and not the load, and an answer without customers the load and not the customer (`unnamed`), so
that the code does reserve the load of one order for the contact of another. The order that is booked is the text of the search field at the press of the button (`time-booking.js` 893), which nothing ties to the form; no property says
that it is the order of the load, because it need not be. `ListUpdatesWhatWasOpened`: no late answer replaces what the list page sends. No such promise holds for the booking page, where the
contact is replaced by the answer of a lookup while a booking is open to be changed; and changing the day leaves the table of the
day before, so that a reservation may take a time under a day it was not shown for. Neither text nor test of the repository says otherwise, so
these are remarks and hazards here, not findings.

*Refinement.* `BookingLedger` knows no pages and requests: a request books once, for one order and day, times that are free; if it is careful the order has no
booking on that day; a booking keeps its time and order until it is cancelled. `TimeBooking` implements it (`ImplementsLedger`), careful
being the bookings of requests that were `clear`, which history records with each booking.

*Runs.* `booking_orders`: one page, an open and a closed order, two slots, two reservations: two bookings by one request and by two,
and partial success; the two slots are symmetric. `booking_pages`: a page of each kind, two days, bookings made elsewhere. A page sends while fewer than `MaxWaiting` requests
are under way, a reservation while fewer than `MaxReserved` were sent. No fairness: nothing obliges a user, and the back end may be slow. Deadlock is checked.

*Proved* (`TimeBookingProofs`): all five properties. `Good(p)` relates the parts of a form by where they came from: the save button is
shown only with the contact of the customer looked up; a form with a load has the line of the same order, and the customer of that order or of a closed one, unless its answer named none;
the update button of a list page stands beside the contact that was opened. Every handler keeps it (`HandlersGood`). `Clear` relates bookings and requests: a
reservation that is clear and not yet executed finds no booking of its order and day. The refinement (`BookingsAreALedger`) adds `Numbered`: bookings and reservations
have numbers of their own, and a reservation not yet executed has made no booking; so its execution is one `Book` (`ReservationIsBooking`), and a change, which
may rewrite everything else of a booking, is a `Cancel` or no step of the ledger (`ChangeIsCancelling`).

## 7. MessageInbox

One page of the React client with its tabs inbox, starred and trash (`React/MessageHubClient`), and the handlers of `UserMessagingController`.

| variable | code |
|---|---|
| `status` | the message hub |
| `tab`, `loaded`, `view`, `disabled` | props and state of `MessageTabContent` and `MessageList` |
| `page`, `remembered` | `globalStore`: for each tab, its page and the messages selected |
| `sent` | requests under way, in the places `Slots`: executed and answered in any order, or lost |
| `acts`, `fails` | bounds |
| `lost`, `unseen`, `raced` | history: a request was lost; an operation was done of which the page is told nothing; clicks have overtaken the page |

| action | code |
|---|---|
| `OpenTab`, `TurnPage` | `getMessages` for another tab or page |
| `Toggle`, `SelectAll` | the boxes, and the store |
| `MarkToStarred`, `Move`, `RemoveMessages` | the requests that change messages, with what the list does at once |
| `ReadMessages`, `CountMessages` | the controller asks the hub for the messages, then for their number, in two calls of which each may fail |
| `Execute`, `Refuse` | the controller has the hub change messages: done and answered so, done and answered as not done, or not done |
| `LoadAnswered`, `NotDone`, `StarAnswered`, `TrashAnswered`, `TrashLeft` | the callbacks; the tab of the click may not be the tab of now |
| `Fail` | `messageServices.tsx`: a request that fails is never heard of again, whether it was executed or not |

`UserMessageRepository` is registered to mask every failure (`DependencyResolverInitialization.cs` 159). A failed reading or counting of messages reaches the page as an ordinary empty list (`masked` in the answer, a history field), and an operation whose
answer from the hub was lost as one that was not done. Removing a star is the exception: the controller uses the masked null (line 446), and the request fails. `MaxFails` bounds lost requests and failing calls together.

`ShowsTheHub` says what all the reloading is for: when nothing is under way, the inbox and the trash show exactly their page of what the hub holds, whatever was lost, unless clicks overtook the
page (`raced`), the reading of that very list failed unnoticed, or an operation was done of which the page was told nothing (`unseen`, until it asks again). It does not hold of the starred list: starring a message from another tab does not ask for the list again, so one asked for
while the star was on its way lacks the message until the next visit. `ActsFitStatus`: the server does not look at the status of a message before it changes it, so only the page keeps a deleted message deleted; it does as long as the user acts on the latest rows, one operation at a time, none of them unknown.

*Refinement.* `Mailbox` knows no rows, tabs, pages and answers: operations are asked for one after the other, for messages in a folder they are meant for; each is carried out once, on the messages it was asked for, or never; a
message leaves the trash for good or for the inbox. Once the clicks have overtaken the page, an operation may find its messages in any folder, and several may wait. `MessageInbox` implements it
(`ImplementsMailbox`) with the hub's status as the folder and the requests not yet served as the operations asked for. It says more than `ActsFitStatus`, which is about the moment of execution: that nothing is done twice, to other messages, or unasked, whether the request was lost or not.

*Runs.* `inbox_races`: one message, two requests at once, two that change something, one failure (of a request or of a call of the hub); the two places are symmetric. Two messages on two pages with races are beyond TLC in five minutes; a second page is met by
`inbox_empty_page`, a violation, and by the proofs, which are for any messages and page size. Deadlock is checked: one request may fail, and then another place is free or another tab is opened. No fairness: a
lost request is never repeated, which is why `SpinnerWaits` is stated as "there is an answer to wait for, or one has been lost".

*Proved* (`MessageInboxProofs`): all properties of `inbox_races`, for any messages, page size and number of requests. The invariant `Inv` is `TypeOK`, `ShowsItsTab`,
`SelectionRemembered` and `SpinnerWaits`, with two parts they need: the latest request for messages, if there is one, is for the tab shown (`LoadsForTab`), and
while the list still has the buttons of another tab, a request for messages is under way or was lost (`TabAhead`). `ActsFitStatus` rests on `Fitting`, which holds as long as clicks have not overtaken the page (`Calm`), failures or not: rows shown have a status that fits
their tab (`RowsFit`), so do the rows that are on their way, read before they are counted (`LoadsFit`), except while the page has yet to hear of an operation or never will (`Told`); and
the one operation under way fits the status of its messages (`OneAct`, `ActsFit`). The refinement (`PageIsMailbox`) follows from it, one step of the hub at a time.
`ShowsTheHub` (`PageShowsTheHub`) needs `Current`, under the same conditions: rows are those of the hub's page (`RowsCurrent`), and so are
loads on their way (`LoadsCurrent`), the ones read and not yet counted included. `FirstPageTellsEmptiness` draws the line of
the finding `inbox_empty_page`: on its first page, the inbox says that there are no messages only when there are none, if no call of the hub failed when it was read.

## 8. DeliveryAddresses

Who is notified of deliveries to an address (`HandleDeliveryAddressesController`, `OrganizationRepository`). Saving the form asks again who is notified and sends the difference by
two calls; several users of a customer may do so at once, and nothing locks the address.

| action | code |
|---|---|
| `ShowList`, `OpenForm` | the list; `EditDeliveryAddress` |
| `ReadReceivers`, `ReadUsers` | the two questions whose answers make ticks and boxes |
| `Toggle` | the boxes |
| `UpdateAddress`, `ReadPrevious`, `DeleteReceivers`, `CreateReceivers` | `SaveDeliveryAddress`, call by call |
| `AddAddress`, `RemoveAddress` | customer service, by hand (external) |

The repository masks failures: a question that failed is answered by null, which the handlers take for nobody, and a change that failed is not noticed. So
both answers and effects are choices in the model. A form made while the question for users failed has no box, and saving it drops everybody; one made while
the question for receivers failed has no tick, and saving it drops whoever is not ticked by hand. `DroppedByChoice` states precisely these exceptions:
nobody else is dropped but by a user who took the tick away; whom the exceptions drop, the code does drop. `SaveTakesEffect` says that a save has its whole effect and no other for every user about
whom nothing disturbed it (`contested`, a history variable). `unseen` is a history variable too.

*Run.* `delivery_receivers`: two pages, one address, two users; the model is finite without bounds. Two pages are enough for two differences computed from one state,
two users for one to be dropped and one to be added. No fairness. Deadlock is checked.

*Proved* (`DeliveryAddressesProofs`): all three properties. `DroppedByChoice` follows from `KnowsReceivers`: whoever is notified is shown by the form, has no box in it, or
is not known to it (`unseen`). `SaveTakesEffect` needs `SaveInv`: two saves of one address under way agree about every user not contested (`Agreed`), a save of an address that is gone has everybody contested (`Present`), and
for every user not contested the receivers are, at each step of the save, what that step and the ones to come assume (`OnTrack`).

## 9. What the code does that its texts deny

* `cache_stale_after_write`: a read between the removal of a key and the service call of the write caches what the write
  replaces, against the unit test's "write, then the key is gone". Removing the keys after the call would leave the smaller
  window of a read that was answered before.
* `membership_card_removes_owner`: the customer card removes the owner of a customer, which the repository refuses, because the
  record it passes names no owner.
* `wizard_approves_unlike`: a list left in TempData is taken by the next approval form, of an assurance with other terms.
* `inbox_empty_page`: a message moved to the trash from the starred tab leaves the inbox on a page it may no longer have, and the
  inbox then says that there are no messages.

## 10. Bounds, proofs, and what is left to the model checker

| run | distinct states | time |
|---|---|---|
| `cache_safety` | 297 000 | 105 s |
| `membership_portal` | 293 000 | 60 s |
| `wizard_two_tabs` | 379 000 | 150 s |
| `wizard_elsewhere` | 384 000 | 70 s |
| `booking_orders` | 2 840 000 | 150 s |
| `booking_pages` | 627 000 | 30 s |
| `inbox_races` | 3 430 000 | 185 s |
| `delivery_receivers` | 558 000 | 28 s |

`MaxWrites`, `MaxOps`, `MaxPolls`, `MaxSubmits`, `MaxMoves`, `MaxReserved`, `MaxWaiting`, `MaxActs` and `MaxFails` are in the guards and are constants of the modules, so the
theorems hold for every value of them that the named assumptions allow. The runs' values are the least with which the cases named above happen; every action fires in a passing run, and for
every property a mutant of the code (a variant defined next to the definition it replaces) violates it under the same bounds.

Every safety invariant, every action property and every refinement of the passing runs is proved, for all values of the constants (`OwnerStays` for the portal pages). Liveness
under fairness (`EveryCallReturns`, `StaleEntriesDieOut`, `ChangeEnds`) is checked and not proved: the prover handles neither ENABLED nor
fairness. Nor can it instantiate induction theorems, so what recursive definitions compute would be left to TLC; the
modules have none. That a set of numbers has a least one (`LeastNumber`) comes from the library's theorem that the order of the numbers is well-founded. The proofs assume only the named assumptions of the modules (some element is outside a set, bounds are numbers).

## 11. What is not modelled

| part | why |
|---|---|
| cache keys, price periods, harvest years | text and calendar arithmetic on one call's arguments, without state: a model would repeat the formatting. The keys are constants of `RepositoryCache`, which lets any write miss any key |
| tickets, login, password reset, activation of accounts, terms of use | one call after the other to services that decide what a second attempt or an old link means; the code has no retry and no repair whose order could be wrong, and what the services do is not in the repository |
| page access, search, prices, read-only repositories, customer support, booking contacts, machines, agreements | queries, or forms with one call; their caching is `RepositoryCache` with other keys |
| React clients of organisations, administration of messages | their requests are inputs of `OrgMembership`, or save one draft; their lists are asked for again after each |
| PDF, content types, views, navigation, role providers | rendering and adapters |
| `src/Gro/lib` (ABCpdf with XULRunner), `Gro/Static/dist`, service proxies, libraries | third-party or generated code |

The last row is most of the lines of the repository: of its JavaScript and TypeScript, about 136 000 of 147 000 lines belong to the vendored XULRunner
alone. What is modelled is the C# under `Gro` and `Gro.Infrastructure.Data`, and of the site's own scripts (some 11 000 lines, most of them layout, validation and
DOM updates) those that keep requests under way.

Within the modelled components: mails and page texts are left out; of an assurance only what the
properties tell apart is kept, and not warehouses, harvest periods, the number of copies or the PDF; of a booking not what the user types over the looked up fields, and no
search by other numbers than an order's; of the messages no categories, read marks, archive or phone layout; of an address only its receivers. What the back ends decide is a
choice. The clock is not modelled: expirations and polls happen at any time.
