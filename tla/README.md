# Formal model of the AWS Global Notes backend

TLA+ modules, TLC configurations and TLAPS proofs for the NestJS backend in
`src/`. The models are written from the code; the lines each definition stands
for are listed in `PROJECT.json` under `map`.

    tlc -workers 2 -config su_safety.cfg MCSystemUpdates.tla
    tlapm SystemUpdatesProofs.tla

## 1. Inventory

All state lives in one PostgreSQL database reached through Prisma, plus the
socket rooms of each instance. A request is one `async` handler: it awaits a
query, decides, awaits a write, awaits the notifications. Nothing is locked
between two awaits, up to ten instances share the database
(`cloudbuild.yaml`), and the isolation level is the default READ COMMITTED, so
any two handlers interleave at every await. A `$transaction` is atomic.

| Component (source) | State | Operations | Hard behaviour | What makes it correct |
| --- | --- | --- | --- | --- |
| System updates (`system-updates/`) | `SystemUpdate`, `SystemUpdateComment`, `ChangelogEntry` | create, devReview, adminReview, complete, addComment, softDelete, list, byId | every write is `where: { id }` after a separate read: stale decisions, two completions at once, deletion racing a review, death between commit and notification | one changelog entry per completion, rejections are explained, nobody is told what did not happen, a deleted request is frozen, the inbox agrees with the guards, the README's state machine |
| Notes (`notes/`) | `Note` with mentions, recipients, citations; `NoteSubNote` | create, approve, reject, addSubNote, softDelete, list, byId, searchCitable | the same stale decisions; two checks before `create` writes; visibility spelled out in four places | only the right people hear of a note, once; the visibility rules agree; a rejection has a reason; what a note cites its author can read until it is deleted |
| Notification delivery (`notifications/`) | `Notification` | createMany, notifyRoles, notifyUsersWithPermission, broadcast, emitNoteSync, list, markRead | five awaits in a row, audience read early, each call awaited after the other | rows before events before e-mails; no call is lost because an earlier one's e-mail failed |
| E-mail (`email/`) | none | sendForNotifications | any subset of a batch may fail | failures stay inside the batch |
| Realtime gateway (`notifications.gateway.ts`) | socket rooms per instance | handleConnection, emitToUser | rooms are local to an instance; clients reconnect | what reaches a room is stored |
| Inbox (`notifications.service.ts`, `notifications.gateway.ts`) | `Notification.isRead`, rooms | handshake, emit, list, markRead, markAllRead | a handshake of three awaits races a batch of two; events are lost between poll and join | a client that joined and polled misses nothing; only its owner reads a row |
| Users, roles, permissions (`users/`, `roles/`) | `User`, `Role`, `RolePermission` | create, update, softDelete, setRolePermissions | count-then-delete, delete-and-recreate, codes derived from names, writes of columns read earlier | codes are unique and follow the names; no user on a deleted role; partial updates are partial |
| Sessions (`auth/`) | `RefreshToken` | login, refresh, logout | check, revoke and issue in three queries, with crashes and deactivation in between | revocation comes first; what is revoked or switched off yields no more |
| Modules and manual (`modules/`, `manual/`) | `Module`, `FeatureDocument` | create, update, remove, createDoc, updateDoc, publish, unpublish, listDocs, getDoc, search | check-then-insert on slugs, partial edits racing one another and publication, a slug that is another module's id | slugs are unique and a path shows one document; no edit brings back words that another has replaced; only publishers publish |
| Guards, JWT strategy (`common/guards`, `auth/strategies`) | none | canActivate, validate | permissions are read once, before the handler | a handler starts only for an active, permitted user |
| Seed (`prisma/seed.ts`) | rows of all tables | runSeed | no transaction, reruns over a database in use | it reaches what the file says, a rerun renews dates only, it keeps off other rows |
| Text codes (`normalizeRoleCode`, `slugify`) | none | pure functions | order of trimming, folding and cutting | stable, blind to spelling, accepted where an address is |

Components talk by direct calls: the two domain services call
NotificationsService, which calls the gateway and EmailService. The guards run
before every handler. `PROJECT.json` lists every hazard at its line.

## 2. Modules

| Module | What it is |
| --- | --- |
| `Notifications` | NotificationsService and EmailService as a handler sees them. `work[c]` is the queue of notification calls handler `c` still has to await; the head goes through `resolve`, `create`, `push`, `address`, `send` (or `broadcast`, `emit`), one action per await. Also what other services see of a user being switched off or on. |
| `SystemUpdates` | EXTENDS `Notifications`. The tables, `pc[c]` and `args[c]` for every HTTP call, one action per read and one per write of each handler, `list()` as `Listed`. |
| `Notes` | EXTENDS `Notifications`. The same for NotesService. `args[c].seen` keeps the status that softDelete read, because the lists it tells clients to drop follow from it; `args[c].updated` the status and reviewer its write has committed and returned, which is what it may announce. |
| `NoteLists` | EXTENDS `Notes` with clients that keep the lists of `GET /notes` up to date from the `note:sync` events alone (`noteListScopesForSync`), and reload. |
| `Inbox` | The user's side of notifications: the handshake of a socket, rooms per instance, a batch's commit and its events, polls, marks. A mark is asked for (`AskToMark`, the guard) by any user for any row and carried out later; `marks` keeps who asked for what. |
| `AccountTables` | The tables of roles, grants and users and the frame of a call on them; the guard reads those very tables. |
| `Roles`, `UserAccounts` | EXTEND `AccountTables`: RolesService and UsersService, one action per query. |
| `Accounts` | Composes the two: the services share tables, so their races are between them. |
| `Seed` | EXTENDS `Accounts`: `runSeed` as the script of its queries, crashes and reruns, with the API's calls in between. `dated` is the column `publishedAt`: which run, or that a route, last set it. |
| `Sessions` | AuthService over `RefreshToken`, with expiry, failures and users being switched off. |
| `Manual` | ModulesService and ManualService: modules, documents, publication, search. A search term is a member of `Terms`, and `Holding` says which titles and texts contain it. |
| `TextCodes` | `normalizeRoleCode` and `slugify` over texts of abstracted characters. |
| `BoundedSystemUpdates`, `BoundedNotes`, `BoundedAccounts` | EXTEND `SystemUpdates`, `NoteLists` and `Accounts` with the settings a behaviour draws, and state what holds while calls do not overlap. `BoundedAccounts` also draws the text that is converted. |
| `CompletionLedger` | Abstract: what `complete` promises in spite of any concurrency. `SystemUpdates` implements it (`LedgerKept`). |
| `ReviewLifecycle`, `NoteLifecycle` | Abstract: the README's state machines, with deletion and, for notes, who may be told. Implemented when calls do not overlap (`LifecycleFollowed`). |
| `MC...` | Constants and settings for TLC. |
| `...Proofs` | Lemmas and theorems, one module per component; `SystemUpdatesProofs`, `NotesProofs` and `AccountsProofs` are about the bounded modules, whose behaviours are those TLC runs. |

How the code maps to actions, on the example of `devReview`
(system-updates.service.ts:139-214):

* `Start`: `JwtStrategy.validate` finds the caller active, PermissionsGuard
  finds the route's permissions. Both read before the handler does, so a user
  switched off later still finishes.
* `LoadUpdate`: `findFirst`, the status check and the check for a reason. The
  last two are synchronous with the return of the query, hence one action. The
  reason check comes before any write, so it is folded in; a request without a
  reason never changes anything.
* `ApproveAsDev` / `RejectAsDev`: the `update` or the `$transaction`, by id
  alone, with nothing checked again; the same action queues the notification
  calls, which cannot run before.
* `Deliver`: one await of the current notification call.
* `Respond`: the handler returns. `Fail`: a query raises or the instance dies;
  what is committed stays, the rest never runs.

The other services have the same shape. A call is `started`, has `read` or
`checked`, and is `done`, `refused` or `failed`; `seen[c]` keeps what it has
read and still uses, so that a write-back of a stale column is visible as one
(`Updated` of `Roles` takes both the row at the time and the row read).
`setRolePermissions` is a transaction whose delete has a READ COMMITTED snapshot
of its own: `BeginReplace` takes it, `ReplacePermissions` commits. Grants carry
the request that inserted them, since a row deleted and inserted again is
another row.

Abstractions. Text, titles, priorities and timestamps are left out, except that
a reason is empty or not. A notification row carries the call that made it
(`by`) in place of its cuid, and the service call (`via`), because one handler
may write two rows that differ in nothing else. `pushed` and `emails` are what
was emitted to a room and what the provider accepted: not what a client got
(that is `Inbox`). With e-mail off the recipients' query of `dispatchEmails`
still runs, but nothing is done with its answer, so the model skips it.
`note:sync` events that come with a row share the row's event; the others are
rows of type `SYNC_...` that are only pushed. A fresh cuid is any unused id.
`CodeOf` and `SlugOf` are constants in `Roles` and `Manual`; `TextCodes` models
the functions they stand for. It gives what `replace` leaves by the positions
that stand in the text, in order, and not by recursion: a run of other
characters stands as its first. `contentJson` and `contentText` of a document are
two columns that the server does not derive from each other: `createDoc` needs
both, `updateDoc` takes either alone. `Matching` is what `search` finds; it answers
with twenty of them at most, in no stated order, as `searchCitable` does with
twelve. `updatedAt` is left out everywhere.
A Prisma `upsert` by a unique column is taken for atomic.

## 3. Runs

Every bound is a constant or a field of `bounds`. One run covers several
settings: its MC or `Bounded...` module adds the variable `bounds`, a behaviour
draws a record from `Settings` at its start and keeps it, and the disjuncts of
`Next` are conjoined with it. A setting says how many calls are made, how many at the same
time, whether one may fail, what administrators toggle. Properties that hold
only while calls do not overlap are stated as `Serial => P`, where `Serial` is
the setting with one call in flight; that is said in their comments, and the
violations below show the overlap that breaks them. `ClientsAgree` asks for more
(`Attended`): clients are there from the start, no call fails on the way to
telling them, and no approver is switched off, for one who is gets no events.

| Run | Settings | Checks |
| --- | --- | --- |
| `su_safety` | 3 at once with a failure; 3, two at a time, a user toggled; 2 with user and module toggled; 4, two at a time; 4 in a row with a failure | `TypeOK`, `NoticesOnRecord`, `CompletionRecord`, `RejectionHasReason`, `InboxIsActionable`, `DeletedIsFrozen`, refinement `LedgerKept`; serially `FinalNoticesStandSerially`, refinement `LifecycleFollowed` |
| `su_liveness` | 3, two at a time, a failure, e-mail on, two users | `DeliveryFollowsStorage`, `Answered`, `RequesterLearns` |
| `su_final_word` | 3, two at a time | `AdminHasFinalWord`: violated |
| `notes_safety` | 3 at once on two notes; 2 with a failure and a toggled reader; 4 on one note, three at a time; 4 and 3 in a row; 3 in a row with listening clients | `TypeOK`, `NoticesOnRecord`, `VisibilityAgrees`, `RejectionHasReason`, `DeletedIsFrozen`; serially `CitationsStandSerially`, `ClientsAgree`, refinement `LifecycleFollowed` |
| `notes_liveness` | 3, two at a time, a failure, one note | `ReadersLearn` |
| `inbox_one_instance` | two sockets, two batches, lists of one row, a failure, a user toggled, who asks for any row or all to be marked, two such requests at a time | `NothingMissed`, `ReadByOwner` |
| `inbox_two_instances` | two instances, one socket, one batch, one request to mark at a time | `NothingMissed`: violated |
| `accounts_safety` | 3 at once, 4 in a row, a failure; every text of up to four characters | `CodesStand`, `UserPatchIsPartial`, `CodeIsStable`, `CodeIgnoresSpelling`, `SlugIsAddress`; serially `NoUserOnDeletedRoleSerially` |
| `accounts_permission_union` | 2 at once | `OneListPerRole`: violated |
| `sessions_safety` | 4 calls on three tokens and two users, three at a time or one by one, a failure | `TypeOK`, `PredecessorRevoked`, `RevokedYieldsNoMore`, `SwitchedOffGainsNothing`; serially `ExchangedOnceSerially` |
| `manual_concurrent` | 4 calls, two at a time, a failure; two spellings of one slug, a title with an empty one, a module that may get another's id as its slug | `PathsAreUnique`, `SearchFollowsEdits`, `PublishersDecide` |
| `seed_reruns` | three runs of the seed, crashes anywhere, two API calls and one edit in between | `SeededWhenUndisturbed`, `RerunRenewsDatesOnly`, `OthersUntouched` |

Why the bounds are enough. Two in flight reach every race between one read and
one write; three are used where a third party (a deletion, a second reviewer)
matters. Four calls are what the deepest cases need: create, two reviews and a
completion; a login and two exchanges of one token after another; creating a
document, two edits and a publication. One request or note is enough where
properties speak of one row; two notes are used where notes cite each other.
Roles are the two seeded ones and a free row, names contain two spellings of one
code and one without a code. Three tokens hold a chain of two exchanges or a
branch of two. `Take` is one, so that a list overflows with the second row. Two requests to mark
at a time let a stranger's and the owner's be carried out in any order. The
eight kinds of characters are what the patterns of the two functions tell
apart; `SlugLen` is three, so that the cut falls inside a text.

Calls are interchangeable, so runs without temporal liveness use symmetry over
them. Deadlock is checked in the two inbox runs, where clients come and go for
ever; in the others the system stops when all calls are made and answered.

### What the violations show

* `su_final_word`: create; a developer and an administrator both read PENDING;
  the administrator's decision is written, then the developer's over it. The
  README says the administrator has the final word (README.md:89).
* `inbox_two_instances`: a notification committed on one instance is emitted to
  the room of that instance; the user's socket is on the other, has joined and
  polled before. Nothing tells the client until it polls again. README.md:94
  says the event goes to the user's room.
* `accounts_permission_union`: two `setRolePermissions` of one role take their
  snapshots before either commits; each deletes the rows both have seen and
  inserts its own list. The role has the union, which nobody asked for; the
  route says it replaces the set.

### What else the interleavings do

These follow from the same kind of gap; the models contain the steps, and the
serial properties above say what holds without them.

* A second administrator's decision that was read before the first can land on
  a request that has been completed: the changelog entry stays, and the
  request reads approved or rejected (system-updates.service.ts:228).
* A rejection of a note that read PENDING can be written over an approval whose
  readers have been told (notes.service.ts:371).
* An approval between softDelete's read and its write leaves the deleted note
  in the readers' lists until they reload (notes.service.ts:449).
* A user given a role between the count and the deletion stays on the deleted
  role (roles.service.ts:173), and the guard still takes its permissions.
* Two overlapping exchanges of a refresh token give two sessions
  (auth.service.ts:70).

And without any overlap: `logout` answers success when its query has failed
(auth.service.ts:85); a recipient who is also mentioned finds a note under
`received` on reloading that no event has put there, and so does an approver who
files a note that awaits review under `pending`, being the one approver that
`create` leaves out (notes.service.ts:324; both are `Unannounced` of
`NoteLists`); a title without a digit or a letter that NFKD brings down to a-z
has an empty slug (manual.service.ts:71), which no path names. A module may be
given the id of another as its slug, for a cuid matches `/^[a-z0-9-]+$/`
(module.dto.ts:16); such a key finds either module, and a path through it either
of two documents (`Ambiguous` of `Manual`, which `PathsAreUnique` leaves out; the
run reaches it). An `updateDoc` with `contentJson` alone leaves the old
`contentText`, so search goes on finding the document by words it no longer
shows (manual.service.ts:100). A rerun of the seed gives every document of its
file a new `publishedAt` (seed.ts:176) and what it upserts a new `updatedAt`, by
which the manual is listed, so "idempotent" (README.md:123) holds of the rest.

What survives every race: completion stays recorded once thanks to the unique
index on `ChangelogEntry.systemUpdateId`; rejections stay explained because
status and reason share a transaction; codes and paths stay unique thanks to the
indexes although every check comes too early; an exchanged token is revoked
before its successor exists, at the price that a crash in between costs the
session.

### Fairness

`Fairness` is weak fairness of each handler's own steps: the event loop resumes
a handler whose query has answered, the database answers, and `allSettled`
waits for promises that settle. Nothing obliges a client to call, an
administrator to toggle or a query to fail. A handler that is running is always
enabled until it ends, so weak fairness is enough. The liveness properties
allow a call that fails on the way: the code does not resume it, and this loss
is real.

## 4. Proofs

Every safety property that a passing run checks, invariant, action property or
refinement, is also a theorem. Types are `TypeCorrect`, the inductive invariant
of a module is `InvariantHolds`.

`SystemUpdatesProofs` proves for any sets of users, modules and updates, any
finite set of calls, any roles and permissions, e-mail on or off and any bounds:

* `TypeCorrect`: `Spec => []TypeOK`.
* `CompletionIsRecorded`: `Spec => []CompletionRecord`.
* `RejectionIsExplained`: `Spec => []RejectionHasReason`.
* `NoticesAreTrue`: `Spec => []NoticesOnRecord`.
* `InvariantHolds`: `Spec => []IInv`, from which the last three follow.
* `DeletedStaysFrozen`: `Spec => DeletedIsFrozen`, from the typing part of `IInv`.
* `DeliveryIsOrdered`: `Spec => []DeliveryFollowsStorage`.
* `InboxAgrees`: `Spec => []InboxIsActionable`; this one follows from the
  statuses and permissions the handlers and `list()` name, in any state.
* `LedgerIsImplemented`: `Spec => LedgerKept`, the refinement of
  `CompletionLedger`.
* `FinalNoticesStandAlone`: `MCSpec => []FinalNoticesStandSerially`.
* `FollowsLifecycle`: `MCSpec => LifecycleFollowed`, the refinement of
  `ReviewLifecycle`.

They assume only `NotificationsAssumption` and `SystemUpdatesAssumption`: NULL
is no user, update or module, the calls are finitely many (so that those in
flight can be counted) and the bounds are numbers.

`IInv` conjoins the properties with what makes them inductive:

* `CallsWellFormed`: a loaded call holds the id of a row that exists, and no
  rejection without a reason; only a notifying call has jobs. Without it a
  write could hit an absent row, and a rejection could be filed with nothing.
* `NoticesOwned`: a row in a handler's hand carries that handler's id, and no
  stored row comes from a call that has not started. Without it `Start` could
  overwrite the `args` a stored notification refers to.

The proof of `NoticesOnRecord` goes through `Grows`: no step takes back a row, a
recorded reviewer, a comment, a changelog entry or who a call belongs to, so
what is on record stays on record (`StepGrows`, `OnRecordStays`); the rows a
write queues are on record at that moment (`StepNotices`), and delivery only
moves rows that are in hand (`NotifyStepKeeps` of `NotificationsProofs`).

`DeliveryFollowsStorage` is inductive only with `Delivery`, which says in
addition that no job behind the head of a queue has begun and that what is
broadcast or emitted is a bare `note:sync`. The lemmas about it
(`QueueReturns`, `QueueAdvances`, `NotifyStepDelivers`) are in
`NotificationsProofs` and do not depend on the domain.

`DeletedIsFrozen` rests on one fact per write: the row written is the row the
call has read (`WriteRespectsDeletion`), and a call cannot have read a deleted
row after its deletion (`StepFreezes`).

The refinement needs `LInv`: `IInv` and `AnnouncedOnce`, which says that a
completion still to be announced is the only row its handler has in hand, and
that while the row is not stored the handler has stored none. The unique entry
of `CompletionRecord` then gives that no other call can have announced the same
update. `CompletionPublishes` maps the transaction of `complete` to `Publish`,
`StoringAnnounces` maps `CreateRows` to `Announce`, and every other step leaves
the three abstract variables alone (`StepLedger`).

The last two hold while calls do not overlap, and rest on `SerialInv`. One call
is in flight (`OneAtATime`), so what it has checked still stands when it writes
(`ChecksStand`): its own read left the tables alone, and nobody else moved. What
is stored or in hand of a final decision agrees with the status of its request
(`FinalNoticesHold`), because the checks let a status change only while no final
notice has been given of it. For the lifecycle each write is then one step
of the abstract machine, taken from a status it allows.

`SessionsProofs` proves, for any users, tokens, calls and bounds and from
`SessionsAssumption` alone:

* `TypeCorrect`: `Spec => []TypeOK`.
* `ExchangeRevokesFirst`: `Spec => []PredecessorRevoked`.
* `RevocationHolds`: `Spec => RevokedYieldsNoMore`.
* `SwitchingOffHolds`: `Spec => SwitchedOffGainsNothing`.
* `ExchangedOnceAlone`: `MCSpec => []ExchangedOnceSerially`.

Its `IInv` is `TypeOK`, `PredecessorRevoked` and two more parts. `HandlersKnow`:
a handler past its check holds a token of the table that belongs to its user,
and one that has revoked it finds it revoked, for no row is deleted and nothing
clears `revokedAt`. `RowsRecorded`: the call that inserted a row is past the
insertion, so a later one cannot claim the row. `RevocationHolds` and
`SwitchingOffHolds` count: the sessions that came of a token (of a user) and
the calls past their check that may still add one are together no more after a
step than before it, unless a call passes the check in it (`NoMoreTogether`,
`QuietStep`, `InsertingStep`). `ExchangedOnceAlone` needs `ExchangesAlone`: a
token has one successor at most, and while a handler has one in hand to exchange
it has none.

`NotesProofs` proves, from `NotesAssumption` and `NotificationsAssumption`:

* `TypeCorrect`: `Spec => []TypeOK`.
* `RejectionIsExplained`: `Spec => []RejectionHasReason`.
* `NoticesAreTrue`: `Spec => []NoticesOnRecord`.
* `VisibilityIsOne`: `Spec => []VisibilityAgrees`; typing is enough.
* `DeletedStaysFrozen`: `Spec => DeletedIsFrozen`.
* `CitationsStandAlone`: `MCSpec => CitationsStandSerially`.
* `FollowsLifecycle`: `MCSpec => LifecycleFollowed`, the refinement of
  `NoteLifecycle`.
* `ClientsAlwaysAgree`: `MCSpec => []ClientsAgree`.

`IInv` adds `CallsKnow` (the note a call has read is there, and only a notifying
call has jobs) and `NoticesOwned`. The argument is that of `SystemUpdates`:
`Grows` and `OnRecordStays` keep what is on record there; `Justified` says what
makes a row true at the moment it is queued, and `RowsOnRecord` that the rows of
`approve`, `reject` and `create` are (`ReaderRowsOnRecord` for the two lists of
readers, which must not meet). What such a row claims is compared with
`args[c].updated`, the status and reviewer its own call has written, so a call
that announces before or without its write breaks it. `WritingStep` and `NoteWritten` are the frame of
a step that writes a note.

What holds of calls one after the other starts from the same `SerialInv`. For
`CitationsStandAlone` the check of `create` still stands at the insert, and a later
write leaves author and body of a note and, as it decides pending notes only,
takes nothing from its readers but by deleting it (`WriteKeepsReaders`,
`CitationStep`). The refinement adds `ToldOnce`: whose readers have been
told is approved, and a handler about to tell them is the first and tells them
in one of its jobs, so that storing those rows is one step of the abstract
machine. `ClientsAgree` speaks of moments when nothing is on its way, and
becomes inductive with what is: `ListsInv` says of every client, note and list
that what the client shows is listed or about to be taken away, that what is
listed it shows or is about to be told, and that the events still to come say
what is listed. What a queue has yet to emit is a set of events (`Outgoing`);
`NotifyStepEmits` of `NotificationsProofs` says that a delivery step takes from
it exactly what it emits and adds nothing, `WriteAgrees` that a write is sound
if the events it queues tell the difference it makes to the list, and one lemma
per handler that they do. `softDelete` derives the lists to clear from the
status it has read (`SeenStands`). The attempt to prove it without the third
case of `Unannounced` fails at `create`, and TLC then shows the behaviour.

`AccountsProofs` proves, from `AccountsAssumption` (seeded roles have codes of
their own, a custom one that of its name; nobody starts on a deleted role; calls
are finitely many), `SettingsAssumption` (what is typed is a text, of any length)
and `TextAssumption` (the limit of a slug is a positive number):

* `CodesAlwaysStand`: `Spec => []CodesStand`.
* `UserPatchesArePartial`: `Spec => UserPatchIsPartial`.
* `NobodyOnDeletedRoleAlone`: `MCSpec => []NoUserOnDeletedRoleSerially`.
* `CodesAreStable`, `SpellingMakesNoRole`, `SlugsAreAddresses`:
  `MCSpec => []CodeIsStable`, `[]CodeIgnoresSpelling` and `[]SlugIsAddress`.

An update of a role writes a code computed from a row it read earlier, so
`CodesStand` is inductive only with what is still true of that stale row
(`UpdateKnows`): it is a system role if and only if the row is, and its code is
the one of its own name, or for a system role the one it has always had. That
is why writing it back does no harm although other updates came in between.
`NobodyOnDeletedRoleAlone` says of a call past its checks that the role it
deletes has no users and the role it gives is not deleted (`ChecksStand`).

The three about texts hold of a text of any length, and without induction. A set
of positions has one list in order (`OneOrder`), and counting gives it
(`RankIsOrder`, `OrderIsRank`); what is left of a text after separating and
stripping is the list of the characters kept and of what stands between two of
them (`SpeltInOrder`). Two texts that keep the same characters at the same
distances are therefore spelt alike (`SameSpelling`): case, blanks and what
surrounds a name change none of that. What is spelt has one form
(`SpeltIsInForm`), and a text in that form is spelt as it is (`FormIsSpelt`).

`ManualProofs` proves, from `ManualAssumption` (NULL is no module or slug, slugs of
titles are slugs, seeded ones are unique; an id may well be a slug):

* `TypeCorrect`: `Spec => []TypeOK`.
* `PathsStayUnique`: `Spec => []PathsAreUnique`.
* `SearchFollows`: `Spec => SearchFollowsEdits`.
* `OnlyPublishersDecide`: `Spec => PublishersDecide`.

`IInv` has the unique indexes (`TablesKeyed`), that a published document is dated
(`PublishedDated`), and that a call past its checks had the permission of its
route and finds the rows it looked up (`CallsKnow`). A key that is not ambiguous
finds the module it names (`KeyResolved`). A document changes only by the answer
of the three routes that write it, and appears as a draft (`WhoWrites`); for
each of these the two action properties are read off the columns it writes.

`InboxProofs` proves, from `InboxAssumption`:

* `OwnersRead`: `Spec => ReadByOwner`, on any number of instances.
* `OneInstanceMissesNothing`: `Spec => []NothingMissed` if there is one instance;
  with two `inbox_two_instances` refutes it.

`IInv` says whose rows a batch has stored and that a client knows only stored
rows of its user. A row is due once its batch has emitted: either the socket was
in the room, or it polled afterwards and the list had it, or the list was full
of newer rows, and newer rows only get more (`RowsAppended`, `StillKnown`). For
`OwnersRead` the step that marks a row carries out, and takes off `marks`, a
request whose maker is the row's user, since both routes name the caller in the
where-clause.

`SeedProofs` proves, from `SeedAssumption` (the lists of the file are as it has
them, and the database is empty or one that earlier runs and the API have left):

* `RunLeavesWhatTheFileSays`: `SeedSpec => []SeededWhenUndisturbed`.
* `RunLeavesOthersAlone`: `SeedSpec => OthersUntouched`.
* `RerunsRenewDatesOnly`: `SeedSpec => RerunRenewsDatesOnly`.

`Sound` is the invariant of the tables with the administrator's row and the
position in the script; it holds whatever the API does in between. `Reached`
says of each position what the statements before it have established, statement
by statement (`RoleStands`, `GrantsStand`, `AdminSeeded` and so on), as long as
nobody else has written since the run began. `LastRunStands` compares the
database with what the last complete run left: it is the same, but for the
grants between a `deleteMany` and its `createMany`. A crash is a step of the
script like the others, so reruns start from any prefix.

Only model-checked: what holds under fairness (`Answered`, `RequesterLearns`,
`ReadersLearn`), for TLAPS 1.4.5 has no rule for ENABLED; and the three
properties the code does not have, which the runs refute.

## 5. Not modelled

* Configuration, bootstrap, the error filter and the health probe: they read the
  environment once, wire modules and format answers; no handler changes a state
  there. That an error ends a request is `Fail` in each module.
* Deployment and shell scripts. What they decide for the models is that several
  instances run on one database.
* Text, HTML and wording of e-mails (`notification-email.ts`): how a message is
  put together changes nothing; who gets one is in `Notifications`.
* The `AUTH_DISABLED` bypass of guards and gateway, a setting for development.
* `extractCitedNoteIds`: the cited ids are a field of a note's body; the walk
  over the editor's tree that collects them is not modelled.
* Spelling of login addresses; `unreadCount`, which counts the rows of `list`.
* Ordinary reads without a later write (`byId` of an update, lists of users,
  roles, modules, the documents of a module and the changelog): they show what
  the tables hold.

## 6. What is left of the plan

* `extractCitedNoteIds` over bounded trees against a reference definition.
* A room shared by all instances (a Socket.IO adapter) does not exist in the
  code; should one be added, `Room` changes and `OneInstance` can be dropped.
