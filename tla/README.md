# FastFeet in TLA+

A verification project for the FastFeet delivery API (`src/`): TLA+ modules of
its core, TLC runs on small instances, and TLAPS proofs. Paths below are
relative to the repository's `src/` directory, so `core/events/domain-events.ts`
is that file under it.

## The system

FastFeet is a NestJS application: HTTP controllers call use cases, use cases
call repositories, repositories talk to PostgreSQL (through Prisma) and to a
Redis cache. One Node process serves all requests, so code runs without
interruption from one `await` to the next, and everything else interleaves.

| Component | State | Operations | Interacts with |
|---|---|---|---|
| Domain event registry (`core/events/domain-events.ts`, `core/entities/aggregate-root.ts`) | static `markedAggregates`, `handlersMap`; `_domainEvents` of every aggregate object | `addDomainEvent`, `markAggregateForDispatch`, `dispatchEventsForAggregate`, `register`, `clearHandlers`, `clearMarkedAggregates` | called by entities (raise) and by the `create`/`save` of repositories (dispatch); calls the subscribers, without awaiting them |
| Watched list (`core/entities/watched-list.ts`) | `currentItems`, `initial`, `new`, `removed` | constructor, `add`, `remove`, `update` | built by `EditOrderUseCase` and `UpdateOrderStatusUseCase`, read by `PrismaOrdersRepository.save` |
| Order use cases | none of their own; an `Order` object per request | create, edit, update status, delete, get | authorization, orders, attachments, couriers and recipients repositories |
| Orders repository, mapper, cache | table `orders`; Redis keys `order:<id>:details` that expire after 15 minutes | `findById` (through the cache), `create`, `save`, `delete`, list queries | registry, attachments repository, Redis |
| Order attachments repository | table `attachments` (`order_id`) | `createMany` (one UPDATE), `findManyByOrderId` | use cases, orders repository |
| Notifications | table `notifications` | subscriber `OnOrderStatusChanged`, `SendNotificationUseCase` (inserts), `ReadNotificationUseCase` (updates) | registry |
| Authorization | none | `verifyRole` | users |
| User accounts, couriers, recipients | tables `users`, `user_roles` (three repositories over one table) | create, register, edit, delete, change password, authenticate, list | registry (registration and password events), orders (foreign keys) |
| Uploads | R2 bucket, table `attachments` | upload and create: a file, then a row | - |
| Paged lists | none; read `orders`, `users` | orders, orders nearby, couriers, recipients, deliveries of a user | authorization, registry (mapping a courier raises an event) |
| Value objects | the digits, the slug | `CPF.create`, `Slug.createFromText` | accounts, orders |
| HTTP controllers, guard | signed tokens, in the hands of clients | one handler per endpoint (24) | every use case; users, through the role check |
| Startup, env, API documentation | none after the start | - | - |

What is hard: overlapping requests that load one row into two objects; an event
registry shared by all of them that knows aggregates by id; a cache filled and
emptied by different requests; `save` as a sequence of commands without a
transaction; subscribers nobody awaits; a crash that takes the events with it.

What makes each part correct:

- registry: an id is marked once, a mark means events are owed, a dispatch
  empties what it dispatched, nothing is delivered twice or out of order;
- watched list: `new` and `removed` agree with the current items and, after the
  one update a use case makes, are exactly the difference with the loaded ones;
- orders: what an answered request set stays until a later request sets it, unless
  another request overlapped it (then a stale copy written back may undo it, a
  courier assignment too); a delivery in the name of a courier leaves him on the
  row, a delivered order has a photo, every call is answered, the cache comes to
  agree with the table;
- notifications: none without a saved change, one for every saved change unless
  it was lost to a crash or a rival change; read only by the recipient, and once
  answered it stays read;
- uploads: the url of an attachment leads to its file, a failure leaves files
  without attachments and never the reverse;
- paged lists: a walk through the pages misses or repeats a row only for a
  reason; a page of deliveries holds those of the user who has, by then, the CPF
  that was looked up, which an edit in between may have given to another user;
- values: a CPF is accepted exactly when its check digits follow the official
  rule and comes back unchanged from both of its printed forms; a slug is its own
  slug;
- HTTP: only an admin of that moment gets past the role check, an answer about a
  user was true while the request ran, and its status is one the documentation
  of the endpoint names, but for six known omissions and the 500 of a failure;
- accounts: one account for a CPF however it was typed, of overlapping creations
  one succeeds, nobody gets a role he was not given, a changed password is lost
  only to a rival write, what was deleted stays deleted.

## Modules

| Module | What it is |
|---|---|
| `EventDelivery` | what the registry promises: boxes of owed events, delivered whole |
| `DomainEvents` | the registry as a state machine; one action per public call |
| `WatchedLists` | the list operations as functions on a record |
| `WatchedList` | one list object under every sequence of calls |
| `Orders` | the order use cases, repositories, cache, attachments, registry (an `INSTANCE` of `DomainEvents`) and notifications, composed |
| `Accounts` | creation, registration, editing, deletion, password changes and logins over `users` and `user_roles`, with the registry |
| `Lists` | walks through the five paged lists while other requests write the tables |
| `Notifications` | reading notifications from several devices |
| `Uploads` | the two commands of an upload |
| `Cpf` | a CPF typed, cleaned, checked, printed and typed again |
| `Slugs` | the slug of an order whose title grows |
| `Http` | every endpoint: routing, guard, pipes, role check, lookups, answer |
| `MCDomainEvents`, `MCOrders`, `MCAccounts`, `MCHttp` | values of the constants for TLC |
| `MCValues`, `MCServices` | the same for `WatchedList`, `Cpf`, `Slugs`, and for these with `Lists`, `Notifications`, `Uploads`; one of them is chosen at the start |
| `DomainEventsProofs`, `OrdersProofs`, `AccountsProofs`, `ListsProofs`, `HttpProofs` | theorems about the module each is named after |
| `ValuesProofs` | theorems about `WatchedList`, `Cpf` and `Slugs` |
| `ServicesProofs` | theorems about `Notifications`, `Uploads` and the composition `MCServices` |
| `SequenceLemmas` | induction over numbers and sequences, and what `FlattenSeq` computes |

### DomainEvents

`markedAggregates`, `domainEvents` and `handlersMap` are the code's fields;
`raised` and `called` are history variables that number events and record
deliveries. An aggregate is an object: two objects with one `IdOf` are two loads
of one row. `Mark` and `FirstMarked` compare ids as `findMarkedAggregateByID`
does. A dispatch is one action because the callbacks are only started in it.
`addDomainEvent` calls with no await between them (`assignCourier` followed by
`updateStatus`) are one `AddDomainEvents`. `Restart` is a new process.

`EventDelivery` knows no marks, ids or handler map: an aggregate has a box of
owed events, `Raise` appends to it, `Deliver` empties the box of one aggregate
into callbacks, `Lose` empties all. `DeliverySpec` says that the registry
implements it, with `owed <- domainEvents`. What may go wrong in the registry
and cannot in `EventDelivery` is a dispatch that finds the object of one copy and
clears the events of another, delivers part of a box, or delivers it and keeps it.

### WatchedLists, WatchedList

The arrays are sets, since items are compared by `compareItems` alone and no
caller looks at their order. `shared` records that the constructor stores the
caller's one array as both `currentItems` and `initial`, so a push reaches both
until `filter` or an update replaces one. The consequence is visible in the
model: an item added to such a list, removed and added again is not new, though
it was never loaded. Nothing in the application makes that sequence: its use cases
construct a list and update it, and `add` and `remove` are called nowhere.

### Orders

A request is a program counter (`pc`) over the places where it awaits:

| `pc` | waits for | action that leaves it |
|---|---|---|
| `auth` | the user row | `VerifyRole` |
| `get`, `find`, `fill` | GET, SELECT, SET of `findById` | `CacheGet`, `FindRow`, `CacheSet` |
| `loaded` | nothing: the use case continues | `ChangeStatus`, `StartDelivery`, `EditFields`, `GetOrder`, `DeleteOrder` |
| `attach`, `check`, `raise` | proof of delivery | `AttachProof`, `CheckPhotos`, `MarkDelivered` |
| `new`, `removed`, `row`, `saved` | commands of `save` | `AttachNew`, `AttachRemoved`, `SaveRow`, `AfterSave` |
| `recipient`, `courier`, `insert` | create | `FindRecipient`, `FindCourier`, `InsertRow` |
| `user`, `remove` | deletion of a courier | `FindUser`, `RemoveUser` |

`order[r]` is the `Order` object of request `r` (before `CacheSet`, the raw
row), `inserting` the notifications whose INSERT is under way, `cache` the Redis
keys. `CacheExpire`, `InsertNotification`, `InsertRefused` and `ProcessDown`
happen beside the requests. `ToDomain` drops the status as the mapper does,
`Written` keeps the column of a courier that is `undefined` as Prisma does,
`Accepts` is the unique and foreign keys of `prisma/schema.prisma`. Redis
commands travel over one connection in order, so the `DEL` that `save` does not
await takes effect in `AfterSave`. A rejected subscriber is an unhandled
rejection, which ends the process under the Node version of the workflows (18).

Abstracted: titles are their slugs, descriptions, coordinates and dates are left
out (written back like the slug), the body of a request is a record, ids that
name nothing are left out where an existing user or order that has been deleted
behaves the same.

`save` writes every column of a copy read several awaits earlier, with no
transaction, no lock and no version column. Of two overlapping requests the later
save therefore undoes what the earlier one set: with a pick-up by Ana saved, an edit
that has loaded her, and a pick-up by Bia saved in between, the edit puts Ana back on
the row. The model has these behaviours, and no property excludes them.
`UpdateLossNeedsRival` says that they are the only ones: a column that an answered
status change or edit set (`Sets`) keeps its value until a later request sets it,
unless a `Rival` overlapped that request, that is, another request for the order, not
over when it arrived, which changes the column itself (`Overwrites`: an edit resets the
status besides what it sets, as the mapper drops it) or had read the order before it
was answered. A request that comes later and changes the column is a rival in that sense
too. What would break this without any overlap is a stale entry in the cache: an edit
that loads it writes the old column back, which is what the `DEL` of `save` prevents.
The deletion of a courier takes him off the row.

`finished` is a history variable that tells overlapping requests from successive ones:
`finished[r]` are the requests that were over when `r` arrived. No guard reads it.

### Accounts

Three repositories (users, couriers, recipients) write the same two tables, each
through a mapper of its own. A request is again a program counter:

| `pc` | waits for | action that leaves it |
|---|---|---|
| `auth` | the caller and his roles | `VerifyRole` |
| `cpf`, `email` | the lookups of a creation; the one lookup of a login | `FindByCpf`, `FindByEmail`, `FindSameCpf`, `Login` |
| `hash` | the hash of the password | `CreateUser`, `Register`, `ChangePassword` |
| `insert` | the INSERT | `InsertUser`, `InsertRegistered`, `InsertRefused` |
| `find` | `findById` | `NotFound`, `GetUser`, `Edit`, `Delete`, `FindUser` |
| `update`, `remove` | the UPDATE, the DELETE | `SaveEdited`, `SaveUser`, `SaveRefused`, `Remove` |
| `written` | nothing: `create` or `save` goes on to dispatch | `Dispatch` |

`copy[r]` is the entity a request loaded and will write back. A CPF is a text:
its characters and how they were typed; `WithCpf` compares texts as the lookups
do, `Clean` is what `CPF.create` and `getRaw` make of one, and `Accepts` is the
two unique indexes. `LoadKind` is a mapper: `PrismaCourierMapper.toDomain` calls
`Courier.create`, which raises an event on every read. `roles` counts the rows of
`user_roles` because every write nests new ones and nothing removes one; Prisma
runs a nested write in a transaction. `POST /users` and `POST /sessions` take
eleven characters, so a valid CPF reaches them as digits alone; the other bodies
are refused before the use case unless `CPF.create` accepts them
(`CallsAssumption`). A creation gets an id nobody has, as `randomUUID` gives one.

What the properties do not say, because the code does not do it: an answered edit
survives. A password change that loaded the user before it writes the old CPF and
e-mail back, and an edit that loaded the user before a password change writes the
old password back. `PasswordLossNeedsRival` says that this is the only way to
lose a password. The event of a password change is never dispatched, as
`PrismaUsersRepository.save` does not; the mark it leaves is taken by the next
dispatch of a courier or recipient of that id.

Abstracted: names and dates (written back like the e-mail), hashing and comparing
(a hash is its password), tokens. The awaits of a login after its one read see
nothing of the tables and are one action with it.

### Lists

A reader asks for page 1, 2, ... of one list until a page is not full; `at` is
where its request waits (`auth` for the caller's row, `user` for the user of a
deliveries request, `query` for the SELECT). `Query` is the SELECT and what is
made of its rows: `Listed` is the WHERE, `NewestFirst` the ORDER BY (rows of one
Date come in any order; the deliveries state no order, so their pages are cut
out of any), `PageOf` LIMIT and OFFSET, `ItemsOf` the mapper and the use case.
`during` is a history variable: whether rows came into the list or left it since
page 1, and which stayed. The writers (`PutOrder`, `RemoveOrder`, `PutUser`,
`RemoveUser`) stand for all the requests of the other modules by what they leave
in the columns a list reads, foreign keys included; that is why they are looser
than `Orders` and `Accounts`, whose steps they cover.

What the model shows of the code besides the properties: the lists of couriers
and of recipients select every user, whatever his roles; each row of the list of
couriers, and of that list only, raises an event and marks its id (`marked`);
the raw SQL of the nearby list returns `recipient_id` where the mapper reads
`recipientId`, so an answered order names a recipient that is nobody (the run
`ListsNearby`); the deliveries of a user are looked up by the CPF he had one query
before, and are another user's when the CPF has gone to him meanwhile.
`DeliveriesFollowCpf` says just that, and that a page which suffices is complete; what
several pages hold together no property says, since their query states no order.

Abstracted: an order is near or not (the distance is floating point in SQL);
dates are numbers; the number of rows of a page is a constant. A page number
below 1 is refused before the use case and changes nothing. `createOrUpdate` of
couriers and `findManyByCourierId` of orders have no caller.

### Notifications

`step` is where a device's request waits. `FindNotification` is `findById`, the
rules and `read()`, with no await between them; `SaveNotification` writes the
whole object back. `Send` is what `Orders` does in detail. Nothing deletes a
notification. Two devices may save in the opposite order of their reads, so the
date may go back; it never becomes null again, which `AnsweredIsRead` says.

### Uploads

`Put` stores the file under `<uuid>-<name>`, `InsertAttachment` adds the row;
`UploadFails` is an error or a crash at either command, carried out or not.
`bucket` says whose file is under a key. The pipe of the controller searches its
pattern in the type and so lets `image/jpg` through, which the use case refuses.

### Cpf, Slugs

A CPF text is a sequence of characters: digits, or one of the three sorts of
character that `\D` matches. `CreateCpf` is `CPF.create`; `PrintCpf` gives the
digits (`getRaw`, which `toJSON` calls and the mappers write) or the dotted form
(`getFormatted`, which `toString` calls) back as the text of a next request.
`CpfFollowsRules` compares with the official rule (`Official`), which multiplies
the weighted sum by ten instead of subtracting a remainder from eleven.

A title is a sequence of one character of each sort the replacements tell apart;
`CreateFromText` is the chain of `Slug.createFromText`, in its order. A slug
keeps a dash at its start, since only `/-$/` is dropped, and the slug of a title
without letters or digits is empty, so that the second order with such a title meets the
unique index. `SlugIsCanonical` compares with `SlugOf`, a definition by letters
and the gaps between them, and says that a slug is its own slug.

### Http

A controller is a record: its method and path, whether it is public, has
validation pipes, begins with `verifyRole`, looks up the user of its path, what
it writes, the errors its `switch` tells apart, the status of success and the
statuses its `ApiResponse` decorators name (`successResponse` always names 201).
`Controllers` is the order of the modules and of the controllers in them, which
is the order in which routes are tried.

| `pc` | waits for | action that leaves it |
|---|---|---|
| `guard` | the JWT guard, then the pipes | `Admit` |
| `auth` | the caller's row | `VerifyRole` |
| `find`, `findCourier` | the rows of the users the call names | `FindUser`, `FindCourier` |
| `act` | the command the use case ends with | `Read`, `WriteRow`, `SignToken`, `AddOrder`, `AddUser`, `WriteUser`, `RemoveUser`, `Refuse`, `CommandFails` |

`users` holds what the role check sees. A token names a user and nothing else,
is never revoked and does not expire, so `tokens` only grows and outlives its
users. `result` is the error a request was answered with and `Status` the number
it becomes. `seen` is a history variable: what held of the users of a request in
the states it ran through. A creation gets an id nobody has.

What `Http` leaves to the other modules is a choice here: whether the pipes
accept a body (`valid`), whether a use case refuses by a rule of its own
(`Refuse`), whether the database accepts a write (`CommandFails`), and what is
written to tables other than users.

What the model shows of the code besides the properties, and what `Undocumented`
excepts from `AnswersAreDocumented`: a password change documents 204 nowhere, and
answers a caller who is no admin with 400 although it documents 401; the
deliveries of a user are answered with 200 where 201 is documented, to any
caller; the nearby list, uploads and read notifications document no 401, and the
nearby list no 400. A write the database refuses is caught nowhere and answered
with 500. `courierId` is part of the documented body of an edit of an order and
is never read.

## Runs

| Run | Instance | Properties | Result |
|---|---|---|---|
| `DomainEvents` | three aggregates, two of one id; two classes, one handler; two events each | `TypeOK`, `OneMarkPerId`, `MarkedOwesEvents`, `NoRedelivery`, `DispatchUnmarks`, `DeliverySpec` | hold (210,100 states) |
| `OrdersBusy` | three overlapping requests on one order, symmetric | `TypeOK`, `SuccessUnmarks`, `LossNeedsRival`, `NotifiedAfterSave`, `DeliveredHasPhoto`, `UpdateLossNeedsRival`, `DeliveredByItsCourier` | hold (517,732 states) |
| `OrdersLifecycle` | two at once of three: return, create, delete, delete the recipient; one crash | `CacheSettles`, `EveryCallAnswered`, `NotifiedUnlessLost`, `RegistrySpec` | hold |
| `Accounts` | three overlapping requests, symmetric; an admin, a courier, two new ids; 19 calls | `TypeOK`, `OneAccountPerCpf`, `OneCreationPerCpf`, `RolesAreGiven`, `PasswordLossNeedsRival`, `DeletedStaysDeleted`, `RegistrySpec` | hold |
| `Services` | one reader, pages of two, three to five orders, two writes; three devices, two notifications, three times; two uploads, two names; three items; 51,213 CPF texts; titles of up to five characters | `ServicesTypeOK`, `MissNeedsDeletion`, `RepeatNeedsInsertion`, `AnsweredIsRead`, `ReadByRecipient`, `AttachmentHasItsFile`, `OrphansAreFailures`, `DifferenceIsConsistent`, `OneUpdateIsExact`, `CpfFollowsRules`, `SlugIsCanonical`, `DeliveriesFollowCpf` | hold (484,892 states) |
| `Http` | three overlapping requests, symmetric; two admins, a courier, a new id; every endpoint, 40 calls | `HttpTypeOK`, `OnlyAdminsAct`, `AnswersMatchRows`, `AnswersAreDocumented` | hold (1,874,866 states) |
| `ListsNearby` | as `Services` | `OrdersNameRecipients` | violated: the nearby list names nobody |
| `OrdersEdit` | two requests; the order is PICKED_UP at the start | `EditKeepsStatus` | violated: one edit stores PENDING |
| `OrdersEditPhotos` | two requests | `EditSyncsPhotos` | violated: dropped attachments stay |
| `OrdersDeliver` | one request | `OnlyItsCourierDelivers` | violated: no `courierId`, no check |
| `OrdersStaleCache` | two at once | `SaveResetsCache` | violated: a late fill |
| `OrdersLostEvent` | two at once | `EveryChangeNotified` | violated: the second object is never marked |

Bounds. `MaxEvents` = 2 is what one `Order` object can raise (`CourierAssigned`
and `OrderStatusChanged` in one call; no request raises twice). Two concurrent
copies are enough for every race between a reader and a writer of one row or
between two marks of one id; `OrdersBusy` takes three so that a failed save, a
successful one and a reader overlap. One order suffices for everything but slug
conflicts, for which `OrdersLifecycle` creates a second. One crash reaches every
state a crash can leave, since nothing in memory survives it. With several
copies of the process there would be several registries; the code has one.

`OrdersLostEvent` checks the promise as the documentation states it, that every
change of status is notified; `NotifiedUnlessLost` in `OrdersLifecycle` is what
is kept of it, and `LossNeedsRival` in `OrdersBusy` says that an overlapping
change is what takes the events of a saved one.

`Services`: the services and values share no table, object or event, so one of
them is chosen at the start and their states do not multiply. Three orders at pages of
two make a walk of two pages and a row on the border; two writes shift it both
ways; two of the five dates are equal. Three devices let two reads of one
notification cross while a third refuses or reads another. Two uploads of one
name are all that can meet at a key. Three items are one loaded, one added and
one removed. The CPF texts are all eleven-digit sequences whose first nine digits
are zeros and ones, with every pair of last digits: their weighted sums have every
remainder modulo eleven. Five characters put two separators of different sorts
between two letters and one at either end.

`Http`: three requests let one delete a user, one create or edit one, and one be
between its role check and its answer. `boss` is an admin who can be deleted, by
`root`; `new` an account that can be created, logged in to and used.

`Accounts` takes three requests so that two overlap and a third (an edit, a
deletion) acts between them; its calls include a duplicate CPF typed with dots,
a duplicate e-mail, a CPF that is not valid, a user that orders name (`Named`)
and a caller who is no admin.

Requests stop arriving when all have been used, so the runs of `Orders`,
`Accounts` and `Http` and the run `Services` do not check for deadlock; `EveryCallAnswered`
takes its place in `Orders`. The others state safety only and assume no fairness.

Fairness (`Orders!Fairness`): every command sent to the database or Redis is
answered, and the event loop resumes the request (`Step(r)`); the INSERT of a
started callback is carried out or refused; Redis expires a key with `EX`; the
server boots. No
fairness is assumed of arrivals or crashes.

## Proofs

`DomainEventsProofs` proves for all aggregates, ids, classes, handlers and
bounds, from `IdOfAssumption` and `MaxEventsAssumption` alone:

- `RegistryInvariant`: `TypeOK`, `OneMarkPerId`, `MarkedOwesEvents`,
  `BacklogIsLatest` and `NoRedelivery`. Their conjunction is inductive:
  `MarkedOwesEvents` needs `OneMarkPerId` (a dispatch that clears the events of
  an aggregate must remove its only mark), `NoRedelivery` needs
  `BacklogIsLatest` (a delivered event is older than every event still on the
  list), and all need `TypeOK`. The lemmas `AddDomainEventsPreserves`,
  `DispatchPreserves` and `RestartPreserves` do one operation each, on
  `RemoveAtElements` and `ConcatElements` about the library's sequences.
- `DispatchUnmarksId`: the action property `DispatchUnmarks`, from
  `OneMarkPerId`.
- `DeliveryIsKept`: the registry implements `EventDelivery`. Initial states are
  the same; each action maps to `Raise`, `Deliver`, `Lose` or a stutter. A
  dispatch is a `Deliver` of the object it found because `MarkedOwesEvents` makes
  that box nonempty; a restart is a `Lose`.

The conjuncts of `RegistryInvariant` that a run checks, and likewise those of the
invariants below, are corollaries of their own (`MarksAreUnique` and so on).

`OrdersProofs` proves about `Orders`, for any requests, orders, users, photos
and calls, from the named assumptions of the module (ids of orders and users
differ, nulls are no values, the initial tables are consistent):

- `OrdersInvariant`: `TypeOK`, `SuccessUnmarks`, `LossNeedsRival` and
  `NotifiedAfterSave`;
- `DeliveryKeepsItsCourier`: the action property `DeliveredByItsCourier`;
- `SavesClearNoCourier`: no save takes the courier off a row (`CourierIsCleared`);
  that a stale copy may put another one there is what `UpdatesSurvive` is about;
- `UpdatesSurvive`: `UpdateLossNeedsRival`;
- `OrdersUseRegistry`: every step is a step of `DomainEvents` or leaves the
  registry alone, so `RegistryInvariant` holds of the composed system;
- `AnsweredAreAnnounced`: the safety half of `NotifiedUnlessLost`;
- `StalenessIsCaused`: why a cached order may differ from its row;
- `PhotoLossNeedsClaim` and `DeliveriesHavePhotos`: which delivered orders have a
  photo.

`OrdersInvariant`, `DeliveryKeepsItsCourier`, `SavesClearNoCourier` and
`OrdersUseRegistry` rest on one inductive invariant, `OrdersInv`:

| Part | What it says | Why it is needed |
|---|---|---|
| `TableTypes`, `RequestTypes` | types | everything |
| `RegistryProofs!IInv` | the invariant proved in `DomainEventsProofs`, with the constants `Orders` gives it | an object that never raised is not marked |
| `ControlOf` | which operation can be at which `pc`, and that it holds a row there | the copy a save writes is a row |
| `DeliveryOf` | a delivery past its check holds a copy with the courier it names | `DeliveredByItsCourier` |
| `FreshIds` | the id of a pending creation names no row | an INSERT never overwrites, for `SavesClearNoCourier` |
| `RaisedBySetStatus` | an order object that raised belongs to a status change that reached `save` | a successful edit unmarks nothing of its own; a notification is built from a row |
| `OnlyOrdersAreHeard` | callbacks are registered for status changes alone, and those are events of orders | a dispatch starts no notification for a courier's event |
| `BacklogMarkedOrShadowed` | an order object with events is marked or another copy has raised | `LossNeedsRival` |
| `OwnUnmarked` | a request answered with success leaves its own object of the order unmarked | `LossNeedsRival`; with `RaisedBySetStatus`, which says that a marked copy of an order is the copy its request works on, `SuccessUnmarks` |
| `NotifiedAfterSave` | the property | a successful save precedes every dispatch |

Most actions neither raise nor dispatch: `QuietPreserves` does those once, with
`Advance` and `Answer` for a request that goes on or is answered. `RaisePreserves`
does the actions that raise, on `AddDomainEventsEffect`, and `AfterSavePreserves`
the one that dispatches, on `DispatchEffect`; both lemmas are of
`DomainEventsProofs`, as is the preservation of the registry's own invariant.

`AnsweredAreAnnounced` says that at every moment a status change that was answered
with success has its notification stored or an INSERT of it under way, unless the
process went down or another request changed the status of the order; that the
INSERT is carried out is all that `NotifiedUnlessLost` adds. `LossNeedsRival` is
about events that stay; this is about those that were dispatched, by whichever
copy. Its invariant, `HeardInv` on top of `OrdersInv`:

| Part of `HeardInv` | What it says | Why it is needed |
|---|---|---|
| `SavesHaveRaised` | a status change at its save, or answered, has raised its event | there is an event to follow |
| `ServedAreHeard` | requests are served only once the subscriber has registered | a dispatch before that would drop the event |
| `RaisedIsAnnounced` | what was raised is still owed or was announced | a dispatch of one copy by another's save announces it too |

The last two hold until the first restart. `DispatchDelivers` of
`DomainEventsProofs` gives the step: what a dispatch takes off a list, it calls
every callback for, and for the first time.

`StalenessIsCaused` lists what can make a cached order differ from its row
(`StaleHasCause`): the order or its courier was deleted, neither of which touches
the cache; the process went down, perhaps between an UPDATE and its DEL; a DEL is to
come; or one request read the order and another one saved it, as in
`OrdersStaleCache`. One request after the other, with no deletion and no crash,
leaves no stale row behind; in the other cases expiry alone repairs it, which is
what `CacheSettles` needs its fairness for. Its invariant, `CacheInv` on top of
`OrdersInv`:

| Part of `CacheInv` | What it says | Why it is needed |
|---|---|---|
| `StaleHasCause` | the theorem | |
| `FillHasCause` | the same of a row a request has read and is about to cache | the row may change between the SELECT and the SET |
| `CachedIsCalled` | who filled the cache of an order was a request for that order | the UPDATE of another request makes two of them |
| `NewIsUncached` | nobody has read the order of a pending creation | an INSERT changes no row that was cached |

`UpdatesSurvive` has the invariant `SurvivalInv` on top of `OrdersInv`. A column
stands (`Standing`) when its request has saved it or was answered, no rival overlapped
it and its courier, if it is one, is still there.

| Part of `SurvivalInv` | What it says | Why it is needed |
|---|---|---|
| `HistoryOK` | who was over when another arrived stays over | a request still waiting with the order is a rival, or came after the answer |
| `MeantBy` | a copy about to be saved holds what its request sets | the save starts the standing of its columns |
| `Survives` | while a column stands, the row keeps it, the cached row too once the request is answered, and so do the copies others hold, except for the status, and nobody is about to create the order | a later save writes its copy back, a later read takes it from the row or the cache |

The save establishes `Survives` because nobody else waits with the order then
(`SaveStands`); it is kept by the row (`RowStands`), by the cache (`CachedStands`,
where the answer's `DEL` is needed) and by the copies (`CopiesStand`).

`createMany` moves any attachment it is given, also one of another order, so
`DeliveredHasPhoto` does not hold of every instance: when two orders are named with
one photo, the second takes it from the first. `PhotoLossNeedsClaim` says that
this is the only way: for any instance whose initial deliveries have photos
(`InitialDeliveriesHavePhotos`), a delivered order has a photo or is `Claimed`, that
is, a request has arrived that gives photos to another order sharing one with it.
`DeliveriesHavePhotos` is `DeliveredHasPhoto` itself, where no photo has two
homes (`PhotosHaveOneHome`: its first order and those of the calls that name it are
one), which the instance of `OrdersBusy` satisfies. Both rest on `PhotoInv`, on top
of `OrdersInv`:

| Part of `PhotoInv` | What it says | Why it is needed |
|---|---|---|
| `NamedCalls` | a request carries one of the calls | `HomesOf` is about calls |
| `PhotosAtHome` | a photo belongs to one of its homes | who loses a photo is a home of it, and so is who takes it |
| `EditsStayHome` | an edit attaches what its call names and re-attaches what its order had | its two UPDATEs take photos from homes alone |
| `LoadedAsPending` | a loaded order is PENDING, as the mapper makes it | an edit saves no delivery |
| `CheckedIsCovered` | after the look at the photos, until the row is saved, the order has a photo, is claimed, or is deleted | the check and the save are awaits apart |

`PhotoInv` was first checked by TLC on instances with two orders that share photos,
`HeardInv` on the instances of `OrdersBusy` and `OrdersLifecycle`, `SurvivalInv` on
the first of these, `CacheInv` on both and on that of `OrdersStaleCache`.

`AccountsProofs` proves about `Accounts`, for any requests, users, CPFs and calls,
from `CallsAssumption`, `NullsAssumption` and `InitialAssumption`:

- `AccountsInvariant`: every invariant the run checks;
- `AccountsUseRegistry`: every step is a step of `DomainEvents` or leaves the
  registry alone.

| Part of `AccountsInv` | What it says | Why it is needed |
|---|---|---|
| `TableTypes`, `RequestTypes` | types | everything |
| `ControlOf` | which operation can be at which `pc`; a copy that will be written is a row with a clean CPF, and a password change writes its own password | a save writes a row; `PasswordLossNeedsRival` |
| `FreshIds` | the id of a pending creation names no row, no other creation has it, and no request has found such a user | an INSERT undoes nobody's deletion or password |
| `CleanAndUnique` | columns hold digits alone, and differ | `OneAccountPerCpf`: distinct texts are distinct CPFs only when clean |
| `CopiesGiven` | a copy holds roles that were given | a save inserts the roles of its copy, `RolesAreGiven` |
| `CreationHolds` | a created account keeps its CPF, in its row and in the copies of password changes, until an edit or a deletion | `OneCreationPerCpf` |

`QuietPreserves` does the steps that leave the tables alone, `InsertPreserves`,
`UpdatePreserves` and `RemovePreserves` the writes; what they share (a request
moves, what was written stays written) is `MovesPreserves` and `WrittenStays`.
The registry's own invariant comes from `DomainEventsProofs` through
`UseOfRegistry`.

`ServicesProofs` proves `NotificationsInvariant` (any devices, notifications and
times) and `UploadsInvariant` (any uploads, names and uuids). The first is
strengthened by `NoticesOfRecipients`: an object that will be saved has a date
and was fetched for its recipient, so that no save, however late, takes either
away. The second by `KeysAreOwn`, `FilesUnderTheirKeys` and `RowsOfUploads`:
because no two accepted uploads share a key, a `Put` replaces nothing, and a row
is written only after its file.

`ServicesRunTheirParts` says that the composition of `MCServices` adds nothing:
its behaviours are behaviours of `Lists`, `Notifications`, `Uploads`, `WatchedList`
and `Slugs`, so that the theorems about those hold of the run. `ServicesTypes` is
its type invariant, from theirs; a CPF has its own step there (`CpfStepKeeps`),
since without a text to type `CpfSpec` does not hold of the other services.

`ListsProofs` proves `ListsTypes`, `MissesNeedDeletions`, `RepeatsNeedInsertions` and
`DeliveriesFollow` about `Lists`, for any tables, any number of readers, pages of any
size and any writes, from `ListRowsAssumption`, `ListTablesAssumption` (the tables
are finite, CPFs are unique, and a courier can leave a row),
`ListNullsAssumption` and `ListBoundsAssumption`. Positions are counts: a row is on
the page at which the number of rows newer than it falls (`Newer`), give or take
the rows of its own date (`Tied`), whose order the query leaves open. The inductive
invariant is `ListsInv`:

| Part of `ListsInv` | What it says | Why it is needed |
|---|---|---|
| `ListsTypeOK`, `TablesOK` | types; the tables stay finite and consistent | a list has a number of rows |
| `WayThere` | what a request carries to each await | `DeliveriesFollowCpf` |
| `HistoryHolds` | the list lies between the rows that stayed and the rows ever in it | relates the history to the tables of now |
| `GotAreBefore` | while no row came in, what was answered lies before the next page | `RepeatNeedsInsertion`: the next page cannot repeat it |
| `OthersAreBehind` | while no row left, what was not answered is still to come | `MissNeedsDeletion`: at the end nothing is to come |
| `RepeatsAreTied` | rows answered twice are of one date with another | `RepeatNeedsInsertion` |

`ValuesProofs` proves about the three values:

- `WatchedListInvariant`, for any set of items, strengthened by `FreshIsUntouched`:
  until the first call the current items are the loaded ones, which `update`
  silently relies on;
- `ValidIsOfficial` for every eleven digits: with `11 * q + r` for the sum, `11 - r`
  and `(10 * r) % 11` are one digit unless `r` is 0 or 1, where both give 0;
- `CpfsFollowRules`: `CpfFollowsRules` for texts of any length. That cleaning drops
  exactly what is no digit goes by induction over the text; cleaning a printed
  form gives its digits back;
- `SlugsAreCanonical`: `SlugIsCanonical` for titles of any length. `Shape` goes
  by induction over the title: the text before the last squeeze ends in a dash
  exactly while a separator is `Pending`, and squeezed it is the letters with
  their dashes (`Gapped`), and a dash more while one is. From it
  `CreateFromTextIsGapped` (the chain of replacements is the definition by gaps)
  and `SlugsAreTheirOwn` (a second pass changes nothing).

`SequenceLemmas` has what these need. The library's induction theorems take an
operator as a parameter, which no installed prover can instantiate, so
`NumberInduction` and `SequenceInduction` are stated for a set of numbers or of
sequences and proved from the library's fact that the finite sets are well
founded under strict inclusion. `Squeezed`, `Kept` and `Clean` are written with
`FlattenSeq` over a piece for each character, and the lemmas about it
(`FlattenAppend` and others) give one step of the induction.

`HttpProofs` proves `HttpTypes`, `OnlyAdminsGetPast`, `AnswersWereTrue` and
`StatusesDocumented` about `Http` for any requests, users, calls and tokens. The inductive invariant is
`HttpInv`: the types, and for each request what it carries from one await to the
next (`Claims`): past `auth` the caller was seen as an admin (`AdminSeen`), past
`find` the user was seen (`UserSeen`), past the guard of a controller that is not
public the caller is known (`CallerKnown`). `Look` records in every step what
held before it, so a check and what it saw are one step, and no later write takes
it back (`LookGrows`). `EndpointsRegular` is about the 24 records: their types, that those
for admins are not public, and that those which look up a user have no other
reason to answer "not found". `StatusesDocumented` adds
what a request was routed to: of the controllers that match its path the first is
its own (`RoutesToOwn`, which `GET /orders/nearby` meets because it precedes
`GET /orders/:id`), and its result is one that controller can give, each of which
is documented or among `Undocumented` (`EndpointsDocumented`).

Only model-checked: liveness under fairness (`CacheSettles`, `EveryCallAnswered` and
`NotifiedUnlessLost` in `OrdersLifecycle`), which the proof system does not reach;
of the last `AnsweredAreAnnounced` is what needs no fairness, of the first
`StalenessIsCaused` says what there is to settle.
Every other property of a passing run is stated by a theorem. Of the runs that
expect a violation nothing is proved: each shows one counterexample.

## Not modelled

The subscribers `OnCourierAssigned`, `OnCourierRegistered` and
`OnUserPasswordChanged` are provided by no Nest module, so they never register:
`Orders` and `Accounts` raise their events, and drop them as the program does.
The environment schema, the bootstrap and the generation of the Swagger document
run once, before the first request, and keep no state. `deleteMany` and
`deleteManyByOrderId` of the order attachments, `createOrUpdate` of the couriers'
deliveries and `findManyByCourierId` of orders have no caller in the application.
`createMany` moves any attachment it is given, also one that belongs to another
order; the model does too, and that is why `OrdersBusy` has one order with
photos. What several orders can take from each other is proved (above).

## Plan

Done: the registry and what it promises, the watched list, the orders, the
accounts, the paged lists, the reading of notifications, the uploads, the value
objects and the HTTP layer; proofs of every safety and action property of the
passing runs. Left:

1. `Http` over `Orders` and `Accounts` instead of over choices: the same program
   counters with a guard before them, too many states for one run today.
