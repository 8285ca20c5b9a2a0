# TLA+ verification of owprov

owprov is the provisioning service of the OpenWiFi cloud: it keeps the entities
and venues of operators, the inventory of their devices, subscribers, device
configurations and access rights, and tells the gateway what each device should
run. These modules model the parts of it that carry state and rules, TLC checks
them on small instances and TLAPS proves most of the safety properties, and one
refinement, for all sizes.
Paths below are relative to the repository.

- [1. The system](#1-the-system)
- [2. Modules](#2-modules)
- [3. Runs and bounds](#3-runs-and-bounds)
- [4. Where the code differs from its documentation](#4-where-the-code-differs-from-its-documentation)
- [5. Fairness](#5-fairness)
- [6. Proofs](#6-proofs)
- [7. Not modelled](#7-not-modelled)
- [8. Plan](#8-plan)

## 1. The system

One process. A REST server runs each request on a thread of its own
(`framework/RESTAPI_*`), the subsystems started by `Daemon.cpp` have threads of
their own, and all of them share one SQL database through `framework/orm.h`.
**No transaction, lock or database constraint spans two statements**: a handler
is a sequence of separately committed reads and writes. Other services (owsec
for accounts, owgw for devices, owfms for firmware, owanalytics for boards) are
called over HTTP and found through a Kafka event bus.

| Component | State | Operations | Interacts with |
|---|---|---|---|
| Entities, venues, inventory tags, configurations (`RESTAPI_{entity,venue,inventory,configurations}_handler`, `RESTAPI_db_helpers.h`) | four tables; every relation is stored twice, as a reference in one row and as a list in the other | POST, PUT, DELETE; `removeSubscriber`; discovery | roles, subscribers, jobs, gateway push |
| Startup check (`StorageService.cpp`) | the same tables | one pass per table | runs before the REST server |
| Subscribers (`RESTAPI_subscriber_handler`) and their devices (`RESTAPI_sub_devices_handler`) | `SignupDB`, `SubscriberDeviceDB`, the subscriber's venue, the tag's subscriber | POST (and resend), PUT from owsec, DELETE | owsec, inventory, venues, analytics |
| Roles, policies, `AuthCache` (`RESTAPI_management*_handler`, `framework/RESTAPI_Handler`) | two tables and a cache in memory | POST, PUT, DELETE, the automatic role of a creator, cache fill and clear | every handler authorizes from the cache |
| Job controller and venue jobs (`JobController`, `Tasks/Venue*`) | list of jobs, thread pools, flags | queue, start, collect, delete | venue PUT, owgw, owfms |
| Authorization and lists (`framework/RESTAPI_Handler.cpp`, `RESTAPI_*_list_handler`) | none of their own | decide a request, choose the rows of a list, build the tree | roles, places, every record's place |
| Operators, service classes | two tables, an entity per operator | POST creates an entity and a default class, DELETE removes them | entities, subscribers |
| Contacts, locations, maps, variable blocks | a table each, `inUse` lists, a list in their owner | POST, PUT, DELETE, inline creation by an inventory request | entities, venues, tags, configurations, policies |
| Configuration assembly and device rules (`APConfig`, `EvaluateDeviceRules`) | none | walk from a device up to the root | venues, entities, blocks, RADIUS endpoints |
| Records, tables, REST objects (`RESTObjects/`, `storage/`, `framework/orm.h`) | a row per record | JSON to object to row and back, table upgrades | every handler, every other service |
| Discovery (`AutoDiscovery`), serial number cache | queue, two sorted vectors | message, add, delete, search | Kafka, inventory, gateway |
| Registry and event bus (`MicroService`, `EventBusManager`) | `Services_` by end point | JOIN, KEEP_ALIVE, LEAVE, expiry | Kafka, calls to other services |
| Token validation (`AuthClient`) | two caches | validate, REMOVE_TOKEN, expiry | owsec, every request |
| RADIUS endpoints, OpenRoaming accounts and certificates | four tables, a status file with two times | POST, PUT, DELETE, push to the gateway | owgw, the Global Reach service |
| Rate limiter, web sockets, overrides | maps and a table | | |

What is hard here, and what would make each part correct:

- **Two copies of every relation.** The guard of a deletion looks at the list of
  the row being deleted and never at the references of the others, so references
  stay valid only because every path that moves a row keeps both copies. This is
  a property of all handlers together and of long sequences of requests.
- **Check, then act.** A rule is checked against the tables, other calls follow,
  and the write comes later. With one request at a time the rules must hold, also
  when any step fails or the process dies between two of them; with two requests
  some of them do not (section 4).
- **Whole-record writes.** `UpdateRecord` writes every column of a copy read
  earlier. A late write must not bring a deleted row back, nor move a role.
- **A cache without expiry.** Whoever changes roles or policies must clear it,
  after the change, and on the error paths as well.
- **Objects polled and deleted by another thread.** A job or a task is deleted
  when its flag is seen; nothing may be deleted under the thread that runs it and
  every queued job must finish.

- **Rights worked out in many places.** A single read, each list and the tree
  each derive what a user may see from the roles; they must agree for every set of
  roles and in any order of them.
- **Messages and calls that cross.** A LEAVE overtaken by a JOIN, a token revoked
  while it is being fetched, an owner pushed after the tag moved, a change of an
  endpoint during a push: each leaves something stale that has to be corrected
  later, or must be known not to be.
- **Half an upgrade, two releases.** Tables are upgraded by statements without a
  transaction, and services of different releases exchange objects whose
  conversions are written by hand, twice per class.

`PROJECT.json` lists each of these hazards with its line and its properties.

## 2. Modules

| Module | Models | Uses |
|---|---|---|
| `Relations` | `AddMembership`, `RemoveMembership`, `ManageMembership`, `MoveUsage` on the list columns | |
| `Hierarchy` | entities, venues, tags, configurations, and what subscribers and their devices do to them; every request atomic | `Relations` |
| `Hierarchy_proofs` | theorems about `Hierarchy` | `Hierarchy`, TLAPS |
| `HandlerSteps` | inventory and venue handlers statement by statement, threads, crashes, the passes of the startup check; shown to implement `Hierarchy` | `Relations`, `INSTANCE Hierarchy` |
| `References` | contacts, locations, maps, variable blocks: owners, policies, holders | `Relations` |
| `Operators` | operators, their entity and service classes, write by write | |
| `RadiusEndpoints` | endpoints, accounts, certificates, the push to the gateway and its status file | |
| `Subscribers` | signup, subscriber devices, `removeSubscriber`, with owsec as an external service | |
| `AccessControl` | roles, policies, `AuthCache`, and the deletions that touch roles | |
| `Authorization` | `RoleIsAuthorized` with all it calls, and the role a creator is given | |
| `Listings` | the lists shown to a user who is not root, and the tree of entities and venues, role by role | `Authorization` |
| `VenueJobs` | `JobController` and the three kinds of venue job | |
| `JsonCodec` | the two directions of a class's JSON conversion | |
| `ProvObjects`, `SecurityObjects`, `GWObjects`, `FMSObjects`, `AnalyticsObjects`, `SubObjects`, `PeerObjects` | members and conversions of every class of `RESTObjects/` | `JsonCodec` |
| `StorageTables` | columns, conversions and upgrade scripts of the tables | |
| `Records` | one record of any kind from request to row, upgrades and crashes | `ProvObjects`, `StorageTables` |
| `Messages` | one object sent between services of different releases | the object modules by `INSTANCE` |
| `Lines` | a place and everything above it | |
| `APConfig`, `DeviceRules` | the configuration and the rules of a device | `Lines` |
| `ServiceRegistry` | service events, the registry, expiry | |
| `TokenCache` | validation and revocation of tokens and API keys | |
| `Discovery` | messages, worker, inventory handler, gateway | |
| `SerialNumberCache` | the two vectors and the searches | |
| `HandlerSteps_proofs`, `Subscribers_proofs`, `VenueJobs_proofs` | theorems about the module of that name | that module, TLAPS |
| `AccessControl_proofs` | theorems about `AccessControl`, `Authorization` and `Listings` | these, TLAPS |
| `References_proofs` | theorems about `References` and `Operators` | these, TLAPS |
| `Configuration_proofs` | theorems about `DeviceRules`, `APConfig` and the vector of `SerialNumberCache` | these, TLAPS |
| `Services_proofs` | theorems about `TokenCache`, `RadiusEndpoints` and `Discovery` | these, TLAPS |
| `…MC` | instances for TLC; those of several modules let a behaviour follow one of them | |

Correspondence with the code:

- **`Relations`.** A table is the set of its live identifiers and one function
  per column. A list column is a vector that `ManipulateVectorMember` keeps
  sorted and free of repetitions, hence a set. The empty string is `NoId`.
- **`Hierarchy`.** The columns `eParent`, `vEntity`, `tVenue`, `cInUse`, … have
  the names of the fields of `RESTAPI_ProvObjects.h` with the letter of their
  table. `EntityPost`, `VenuePut`, `InventoryDelete`, … are `DoPost`, `DoPut` and
  `DoDelete` of the handlers, including the rollback when the creator's role
  cannot be stored (`roleStored`), which deletes the row and leaves the lists
  naming it. A PUT distinguishes a field that is absent (`Keep`) from one that is
  empty. `CreateObjects` is a configuration created inline by an inventory
  request. `DeviceDiscovered` is `CreateFromConnection` for an unknown device:
  which entity or venue `sourceIP` selects is any of them, or none.
  `Restart` is the consistency check. Operator entities exist from the start;
  `Operators` creates and deletes them.
  PUT of an entity changes no relation and is not an action. `SubscriberDelete` takes
  the subscriber's venues along and looks at their devices only; a venue keeps its
  `vSubscriber` after that, to tell whose it was. Subscriber devices
  (`DeviceStore`, `DeviceClear`, `DeviceDelete`) are here as far as they write tags and
  configurations: `deviceConfigs` is a history of the configurations they have named,
  and a device naming any of them may exist. `EntityPost` and `VenuePost` store the
  `devices` and `configurations` of the body as sent.
- **`HandlerSteps`.** A request reads and validates and fixes its list of
  statements `todo[p]`; `Execute` takes the next one. `addDevice` and
  `removeDevice` are the read half of `ManipulateVectorMember` and turn into an
  `updateVenue` with the list that was read. `Crash` drops all threads; the check
  then runs pass by pass and can be interrupted again.
- **`Subscribers`.** `job[p]` is what a handler found and is about to do. Every
  step after the first may fail (`Fails`), as the calls to owsec and the database
  may; owsec is marked external. A subscriber's venue lists exactly the tags that
  name it, which `Hierarchy` establishes.
- **`AccessControl`.** A scope is an entity, or a venue in its entity: the pair
  the code compares (`ScopeMatches`). Reading a table, filling the cache, writing
  and clearing are separate steps. A policy's content is one of a few values.
- **`VenueJobs`.** A pass of the controller over `jobs_` holds its mutex and is
  cut into visits only where other threads' flags can change in between. A task's
  calls to the gateway or the firmware service are one step that ends with some
  outcome or throws (`TaskThrows`): the task never sets its flag, so the job neither
  counts nor deletes it.
- **`References`.** Four handlers, one set of actions and a record per handler for
  the decisions in which they differ (which owner is listed, whether DELETE looks
  at `inUse`, which policy row it frees). The kind of each record is chosen at the
  start. Holders are tags, venues and configurations. Entities and venues are created
  with the lists of the request's body, remembered in `presented`. `HolderDropped` is a
  holder deleted by the DELETE of something else (a tag, a subscriber, a subscriber's
  device), which leaves the usages behind.
- **`Operators`.** One request under way; every write of POST and DELETE is a step
  that may fail or be the last before a crash. `disturbed` remembers the operators
  to whom that happened.
- **`RadiusEndpoints`.** `status` is the file, the gateway's pools are what
  `SetConfiguration` sent. `blurred` is set by a change the two times cannot tell
  from an update: in the same second, during a push, or cut short by a crash.
- **`Authorization`.** Places, parents and operators are constants, which of them
  exist and which roles the one user has change. A venue may be below any venue, itself
  too, or below none, and in any entity, as PUTs leave it; a tag may be in an entity and
  in a venue of another, because only POST refuses that
  (`RESTAPI_inventory_handler.cpp:261`). But a place does not move during a behaviour:
  roles given before a move, which keep the old entity, are not reached, nor are
  roles on a venue that a subscriber's DELETE took away. A request is a method, a path, an
  identifier, a query and a body; `ResolveTargetContext` finds the place it is
  about, path by path, as the code does. The branch for the resource `user` cannot
  be reached (no path maps to it) and is left out.
- **`Listings`.** A list is a set of rows. The handler of the tree takes
  the roles one by one (`LookAt`), any of those left, because the database may return
  them in any order and the order matters to the code. What is above or below a place
  is a least closed set (`Reached`), for which the code recurses. It recurses for ever
  where venues form a circle (`Endless`, `AncestorsEndless`); such a request has no
  answer and lets nothing through.
- **Records.** A member's value is opaque; an enumeration that is converted to text
  and back is modelled where it loses something (a contact's type). Letter case is
  not distinguished. `NotKept` and `NotCarried` list, with the reason at each, the
  members that get lost. The classes of the certificate, subscriber, analytics and
  location services are compiled in and only exchanged, not stored.
- **`APConfig`.** `Get` step by step on any records, and again on the same object: the
  walk (`walk`) from the device up the line of its place adds one element after the
  other to `Config_`, then the elements are expanded in their order. A section's
  content is the element it came from, so that the result tells where it was taken
  from. `GoesAfter` says where `std::lower_bound` puts an element; zero weights, which
  the code appends, come out at the end by the same rule.
- **`DeviceRules`.** The tag and each place are read by one query each, and PUTs change
  rules or move the device in between; `changed` remembers what. A rule's value is the
  place that sets it.
- **`ServiceRegistry`, `TokenCache`.** The topic is a bounded queue; time is counted
  in periods of the bus timer, or left to an event that may happen at any time.
- **`Discovery`.** The worker and a REST thread execute statement by statement on
  table, cache, lists and gateway; a place stands for what owns a tag. A body may
  have any text as `state`: as a bound, a POST stores a claim and a PUT what the worker
  cannot read (`unreadable`), after which every connection of the device ends in
  `StateThrows`; `OwnerSettles` excepts it.
- **`SerialNumberCache`.** `Base`, `Digits` and `WordDigits` are 16, 12 and 16 in the
  code; the vectors are sequences and the searches are those of the code.

## 3. Runs and bounds

| Run | Checks | Instance |
|---|---|---|
| `hierarchy` | `TagsPlaced`, `VenuesPlaced`, `ConfigurationsHeld`, `NothingOrphaned`, `RestartRepairs` | root, an operator's entity and another, two venues, a tag, a configuration, a subscriber; see below |
| `handlers_sequential` | `ImplementsAtomicRequests` (refinement) | one thread, two venues, two tags |
| `handlers_concurrent` | `NoResurrection`, `StartsConsistent` | two threads, two venues, one tag, two crashes |
| `references` | `ListsExact`, `HeldRecordsKept`; `OperatorsWhole`; `UpdateDueShown` | two records of the kinds that meet (`MCKinds`: a kind with itself, contact and location, map and variable block) and one row of each other table; two operators besides the default, three classes; one endpoint, account, certificate, three seconds |
| `subscribers` | `OneGateway`, `DevicesHaveAccount`, `TagsInExistingVenues`, `VerifiedStaysVerified` | one thread, two addresses, two devices, any step failing, any number of crashes, requests that leave the subscriber empty |
| `two_gateways` | violates `OneGateway` | two threads, one address |
| `access_sequential` | `OneRolePerScope`, `CachedRolesExist`, `CachedPoliciesCurrent`; `CreatorKeepsAccess`, `RecordsFollowTheirPlace` | one thread, two users, two venues, three roles, one policy with two contents; root, an operator's entity, an entity below it and five venues: one below another, one below a venue of another entity, two below each other; a record of each kind and a tag in two places; at most six places and three roles |
| `access_concurrent` | `RolesKeepScope`; `ListsShowReadable`, `TreeShowsSeen` | two threads, one user, an entity and its venue, two roles; the same places, at most five of them, and three policies that differ in what may be read, the roles of the tree in every order |
| `venue_jobs` | `DeletedWhenFinished`, `EveryDeviceReported`, `JobsFinish` | two jobs of two devices each, any task throwing, a pool that runs one job at a time |
| `records` | `StoredAsSent`, `PutChangesOneMember`; `ReceivedAsSent`; `HeaviestNearestWins`; `NearestRuleApplies` | every one of 21 kinds of record, two PUTs; every class of message; two entities and two venues, two configurations of up to two elements, at most two places that list some; two rules, one change during the walk |
| `micro_service` | `ZombiesRemoved`, `LiveServiceListed`; `RemovedStaysOut`, `RevokedForgotten` | three instances on two end points, two messages on the topic; two threads, a token and an API key |
| `discovery` | `StoredCachedListed`, `ConnectedDevicesDiscovered`, `OwnerSettles`; `SearchesExact` | one serial number, two places, readable and unreadable states, one REST thread and the worker, two requests; every set of numbers of three binary digits |

A semicolon separates the modules of a run. Their behaviours never mix: a variable
of the MC module (`follows`, `part`, `group`) picks the module that moves and the
others keep their initial state, so the state spaces add up instead of
multiplying. In `HierarchyMC` the first step marks some identifiers as handed out
earlier (`spent`, one of the sets `Spent`), which makes the instance the union of
smaller ones: both venues with the second entity, both with the subscriber, either one
with the configuration, and the configuration with the second entity and the subscriber.
The root, the operator's entity and the tag are in each.

What holds by the shape of an action is not among the properties: the type
invariants (`TypeOK`) are defined for the proofs and take part in no run. Deadlock
is not an error where a service without requests may stand still or identifiers
are used up; `micro_service` and `records` check it, because timers, messages and
requests never end there.

What the less obvious ones show:

- `VenuesPlaced`, `ConfigurationsHeld` and `NothingOrphaned` hold with the exceptions
  of two deletions that do not look at what refers to the row. DELETE of a subscriber
  removes its venue with children below it (`RESTAPI_subscriber_handler.cpp:353`), so a
  venue's parent may be gone, but only one that was a subscriber's. DELETE of a
  subscriber's device, or its PUT with an empty `configuration`, deletes a configuration
  whoever else uses it (`RESTAPI_sub_devices_handler.cpp:25`), so a tag or a venue may
  name a missing configuration, but only one that such a device, or a tag deleted with
  one, has named, or a subscriber-only one. A tag's venue and entity never go
  (`TagsPlaced` has no exception).
- `ListsExact` and `HeldRecordsKept` hold with exceptions that are the code's: DELETE
  of a contact or a location frees the policy row named by the record's own
  identifier (`RESTAPI_contact_handler.cpp:72`, `RESTAPI_location_handler.cpp:70`); a
  location created inline by an inventory request is not entered into its policy;
  the body of an entity's or a venue's POST may list records (for an entity
  `maps` and `variables`, `RESTAPI_ProvObjects.cpp:122`, which
  `RESTAPI_entity_handler.cpp:127` does not clear); DELETE with `force` does not look.
- `EveryDeviceReported` excepts the devices whose task threw: they are in no list of the
  job's report (section 4).
- `RecordsFollowTheirPlace`: a tag in an entity and in a venue of another is governed by
  the role on the venue if there is one, and otherwise by those on its own entity,
  while a request that names the venue asks the venue's entity.
- `UpdateDueShown`: an administrator who looks at the two times sees that a push is
  due, unless a change fell into the push or into its second.
- `StoredCachedListed` and `OperatorsWhole` except the serial numbers and operators
  on which two threads overlapped or a request broke off: without the exception TLC
  finds two tags of one serial number, two default classes, half an operator.
- `RemovedStaysOut`: only a fetch that was under way can put a revoked token back,
  and by `RevokedForgotten` not for good.
- `LiveServiceListed`: the entry of a new instance that the LEAVE of its predecessor
  erased comes back with the next keep-alive.
- `ListsShowReadable`: of the tags in one place a list shows what a single GET allows,
  over every set of roles, except that a tag in no place is readable and never listed. A
  tag in two places is listed at least when it is readable; it is also listed through its
  entity when the role on its venue refuses it (`RESTAPI_inventory_list_handler.cpp:273`).
  The venue list also has the venues below one of another entity, which
  `GET /venue/{id}` decides by their own entity and refuses. About roles on entities
  whose venues form no circle; with a circle no answer comes (`Finite`).
  In the behaviours of this run that follow lists and tree, root makes the places and
  gives the roles: a place the user creates adds no other places or roles, only the
  record that `CreatorKeepsAccess` uses.
- `TreeShowsSeen`: nothing that is seen drops out of the tree, whatever the order of
  the roles, but what is on a circle of venues or below one, which no root leads to; and
  everything in it is there for a role. A venue the user may read can
  be missing from it: an entity already shown for one venue is not expanded
  (`RESTAPI_entity_list_handler.cpp:72`).
- `HeaviestNearestWins` says both who provides a section and that none is missing,
  unless something threw; a section that is neither an array nor an object hides the
  same section of lighter elements.
- `NearestRuleApplies` states what the code does for a device in an entity: its own
  rules or the service's, never the entity's, because the look-up uses the tag's
  venue (`storage_inventory.cpp:235`). A place that was changed during the walk may
  count as it was or as it is; it does not affect what the others say.

Why these sizes: moving a row needs two possible owners, releasing a shared
configuration needs two holders (the venue and the tag), a cycle of venues needs
two of them, and a write of a stale copy needs two threads. Two devices are a
gateway and a mesh node, two addresses let a device move. Two crashes include
one during the startup check after the first. `PoolSize = 2` runs one job at a
time because the controller starts jobs only while less than half of the pool
is in use; the second job then waits for the first. Identifiers are fresh UUIDs in
`Hierarchy`, `HandlerSteps` and `References` (never reused, `issued`), and bound the
number of creations; the other modules reuse the identifier of a deleted row, which bounds
the rows alive at a time and not the length of a behaviour. `MaxCrashes` bounds
the crashes of `HandlerSteps`; those of `Subscribers` need no bound. A UUID of
`Subscribers` that no row and no handler holds is as good as a new one, so its
identifiers may be permuted although one is chosen. Symmetry is used where
identifiers are only compared for equality, and never with the liveness property.

## 4. Where the code differs from its documentation

`two_gateways` is a run that TLC ends with a counterexample: `README.md:115` allows
one gateway per subscriber, and the rows are counted before the insert
(`RESTAPI_sub_devices_handler.cpp:379`). The same rule holds in the run
`subscribers`, with one request at a time. The models reach more states that the
documentation excludes, without a run of their own:

- a comment at `RESTAPI_entity_handler.cpp:97` says that a new entity has no
  relation but its parent; `devices` and `configurations` of the body are stored as
  sent (`EntityPost` of `Hierarchy`);
- `RESTAPI_subscriber_handler.cpp:28` lets no POST change a verified signup; a resend
  writes back the row it read before its call to owsec (`VerifiedStaysVerified` with
  a second thread);
- `tests/rbac_tests/rbac_advanced_matrix_test.go:54` expects that a referenced
  policy cannot be deleted; `DoDelete` does not look
  (`RESTAPI_managementPolicy_handler.cpp:65`);
- `README.md:82` asks for a non-root entity; discovery stores a tag in the root
  entity when the address is in the root's `sourceIP` (`storage_inventory.cpp:121`).
- `README.md:83` asks for an existing venue; it is checked many statements before
  the insert (`RESTAPI_inventory_handler.cpp:246`), and a venue DELETE may come in
  between. The next start clears the reference (`StartsConsistent`).
- `README.md:114` makes the first device the gateway; a PUT may turn it into a
  mesh node (`RESTAPI_sub_devices_handler.cpp:428`).
- `README.md:119` lets a subscriber go only without devices; `removeSubscriber`
  on one of its tags deletes the signup (`RESTAPI_inventory_handler.cpp:368`), and
  with two threads `DevicesHaveAccount` fails because the devices are counted
  before three deletions (`RESTAPI_subscriber_handler.cpp:341`).
- `tests/rbac_tests/rbac_resource_matrix_test.go:87` allows one role per user and
  scope; with two threads `OneRolePerScope` fails because lookup and creation are
  separate statements (`RESTAPI_managementRole_handler.cpp:373`).

The ones with two threads can be seen by giving the run `subscribers` or
`access_sequential` a second thread.

Besides, noticed while translating and without a statement of the repository to
set against it:

- `AuthClient.cpp:136` answers from the API key cache when the key's date has
  *passed* (`ExpiresOn < Now`) and asks owsec otherwise; `TokenCache` has it so.
- The paths of variables, of a single RADIUS endpoint and of `system` map to no
  resource, so that only root gets through; contacts and locations of an operator
  are governed as the operator and looked up in its table.
- A configuration, map or policy in a venue names no entity, so the roles on the
  entity do not reach it (`RESTAPI_Handler.cpp:265`).
- `POST` of a contact tests `entity.empty() && !Exists` (`RESTAPI_contact_handler.cpp:93`):
  an unknown entity passes.
- `APConfig::Get` answers `true` with part of a configuration when a block does not
  parse (`APConfig.cpp:366`), and a variable block that names itself recurses for
  ever. A venue below a venue carries the entity as well, so the walk goes there and
  the parent venue's configurations never apply (`APConfig.cpp:458`).
- A role on an entity that allows to read entities and not venues shows the entity's
  venues in the tree (`RESTAPI_entity_list_handler.cpp:95`), which `GET /venue` refuses;
  met when the proof of `TreeShowsSeen` did not go through without that case.
- DELETE of a subscriber deletes its venue after a look at the venue's devices, not at
  the venues below it; their `parent` then names no row. The list of the venue's own
  parent and the `inUse` of its configurations keep it
  (`RESTAPI_subscriber_handler.cpp:353`).
- DELETE of a subscriber's device deletes the configuration of the device and of its tag
  without a look at `inUse`; the tags and venues that share it keep naming it
  (`RESTAPI_sub_devices_handler.cpp:25`).
- An upgrade or reboot task catches nothing. An answer of the gateway without `status`
  (`sdks/SDK_gw.cpp:95`) or of the firmware service without `firmwares`
  (`sdks/SDK_fms.cpp:46`) ends it, and its device is in none of the lists of the job's
  report (`VenueUpgrade.h:147`).
- A tag whose stored `state` is not JSON, or is a claim without a date, makes every
  discovery of the device throw before the row is written and the owner pushed
  (`storage_inventory.cpp:161`); POST and PUT store any text there.
- Inventory PUT may put a tag into an entity and a venue, which POST refuses
  (`RESTAPI_inventory_handler.cpp:261`, `:416`); lists and single reads then differ.
- A venue PUT may move a venue to an entity other than its parent venue's
  (`RESTAPI_venue_handler.cpp:459`); the list of venues then also shows it to who has a
  role on the parent's entity and is refused the venue itself. It may also close a
  circle of venues, on which the list of venues, the tree and a decision by a role on
  the entity recurse for ever.
- A push reads at most 500 RADIUS endpoints (`RadiusEndpointUpdater.h:73`) of the 510
  whose index is valid (`storage_radius_endpoints.h:36`).
- A rejected POST of a Global Reach account has already replaced the private key in
  memory (`GlobalReach.cpp:190`).

## 5. Fairness

- `VenueJobs` (`FairSpec`): weak fairness of the controller's loop, of each started
  job and of each task. The loop has no exit but `Stop`; a job's thread runs until it
  returns; a task's calls to other services have timeouts (`sdks/`), so it ends with
  some outcome or throws, and in both cases its thread is free again. It is also
  assumed that a task's computation of the configuration ends, which the walk up the
  venues does only while the parents form no cycle.
- `RegistryFairness`: weak fairness of the dispatcher, which blocks only while there
  is nothing to consume, and of time; strong fairness of each instance's keep-alive,
  because its timer fires again and again while a full topic only delays a post.
- `TokenFairness`: a thread finishes the call it is in (requests to owsec have a
  timeout), the bus is consumed; an entry of a Poco cache reaches its age, however
  often it was renewed before (strong fairness of `CacheExpires`).
- `DiscoveryFairness`: weak fairness of the worker and of a request under way.
  `OwnerSettles` says itself what else it needs: a device that keeps connecting and
  a gateway that does not refuse every push.

Requests, messages of devices, crashes, revocations and `Stop` have no fairness:
nothing forces them to happen. Fairness of a module whose state never moves in a
behaviour asks for nothing, since none of its actions is enabled there.

## 6. Proofs

TLAPS checks every theorem below for every value of the constants that satisfies
the assumption named after the module (`HierarchyAssumption`,
`HandlerStepsAssumption`, …). The assumptions say that the identifiers of different
tables differ and are not the empty string, and that bounds are natural numbers;
those of `Authorization` also say which columns a row of each table can have set.
`APConfigAssumption` and `DeviceRulesAssumption` say that no place is above itself (see
the cycles in section 7). `TreeAssumption` says so of entities only, whose parent is
set by POST to one that exists and never changed; of venues nothing is assumed but that
what is above a venue is a venue. `ListingsAssumption` adds that an operator has one
entity. `RowsAssumption` lets a tag be in an entity, in a venue and in both.
Bounds such as `MaxCrashes` or `MaxTags` are constants like any other: the theorems
hold whatever they are, so that they bound nothing that a behaviour can reach.

| Module | Theorem | States |
|---|---|---|
| `Hierarchy_proofs` | `TypeCorrect` | `TypeOK` |
| | `TagsAlwaysPlaced`, `HierarchyAlwaysPlaced`, `ConfigurationsAlwaysHeld` | `TagsPlaced`, `VenuesPlaced` with `EntitiesPlaced`, `ConfigurationsHeld`, with all ways to delete a venue or a configuration |
| | `NothingIsOrphaned`, `RestartRepairsLists` | the action properties `NothingOrphaned`, `RestartRepairs` |
| `HandlerSteps_proofs` | `NoResurrectionTheorem`, `StartsConsistentTheorem` | for any threads and crashes |
| | `ImplementsAtomicRequestsTheorem` | the refinement of `Hierarchy`, for one thread without crashes |
| `AccessControl_proofs` | `TypeCorrect`, `RolesKeepScopeTheorem` | for any threads |
| | `OneRolePerScopeTheorem`, `CachedRolesExistTheorem`, `CachedPoliciesCurrentTheorem` | for one thread |
| | `CreatorKeepsAccessTheorem`, `RecordsFollowTheirPlaceTheorem` | decisions of `Authorization`, for any places, records and policies |
| | `ListsShowReadableTheorem`, `TreeShowsSeenTheorem` | `Listings`, for any arrangement of the venues, circles included, any roles and policies and any order of the roles |
| `Subscribers_proofs` | `OneGatewayTheorem`, `DevicesHaveAccountTheorem`, `TagsInExistingVenuesTheorem`, `VerifiedStaysVerifiedTheorem` | for one thread, with failures and crashes |
| `References_proofs` | `TypeCorrect`, `HeldRecordsKeptTheorem`, `ListsExactTheorem` | `References` |
| | `OperatorsWholeTheorem` | `Operators` |
| `VenueJobs_proofs` | `DeletedWhenFinishedTheorem`, `EveryDeviceReportedTheorem` | for any jobs, devices and pools |
| `Configuration_proofs` | `NearestRuleAppliesTheorem` (`DeviceRules`), `HeaviestNearestWinsTheorem` (`APConfig`) | for any hierarchy, rules, configurations and weights |
| | `SerialsInOrderTheorem` (`SerialNumberCache`) | the vector of serial numbers is ascending and implements the set `Discovery` has for it |
| `Services_proofs` | `RemovedStaysOutTheorem` (`TokenCache`), `UpdateDueShownTheorem` (`RadiusEndpoints`), `StoredCachedListedTheorem` (`Discovery`) | for any threads |

**One thread.** The theorems marked so have the hypothesis `Threads = {h}`, because
they are false without it: two handlers check before either writes
(`two_gateways`; two roles on a scope), a late fill puts the roles of yesterday into
the cache, and two list updates lose one entry, so that the tables no longer are
what any order of atomic requests leaves. The refinement also needs
`MaxCrashes = 0`: a crash between two statements of a handler leaves half a request.
What crashes can leave is the subject of `StartsConsistentTheorem`.

The arguments, by the inductive invariant of each:

- **`Hierarchy`.** The three invariants are not inductive one by one. A venue may be
  deleted when its list of devices is empty; that no tag refers to it follows from
  `TagsPlaced`, for a subscriber's venue too, and that no venue does from
  `VenuesPlaced`, unless it is a subscriber's. A venue PUT moves
  usages of configurations and a tag PUT moves both. And a creation must not
  inherit references to an earlier row with its identifier, hence `LiveRowsIssued`:
  every live row's identifier was handed out, so a fresh one belongs to no live row; and
  `NamesIssued`: so was that of a row that is gone while something still names it.
  The conjunction `Consistent` is inductive. Lemmas on `ManageMembership` say that
  moving a member puts it into its new owner's list and disturbs no other member;
  `PutKeepsPlaced` lifts this to one reference column and its list, and is used for
  each relation of each PUT. One lemma per action follows. `NothingIsOrphaned` comes
  from `Consistent` and the guards of the deletions, but for a subscriber's venue and
  the configurations of a `DeviceStep`, which have none; `RestartRepairsLists` adds
  `NoRowNoPlace` (a tag without a row has no place) so that the check, which reads
  the lists, moves no tag. Not claimed: a list may name rows that do not exist (a
  rolled back creation leaves some) until the next start.
- **`HandlerSteps`.** `StepsInv` describes the statements that are still to come: an
  INSERT is the first statement of its handler and of a row no table has seen, no two
  handlers insert the same row, and a DELETE names a row that was there. Hence no
  statement in flight can bring a row back. `NoHandler` (nothing runs during the
  check) and `CheckedSoFar` (what the first pass has repaired) carry
  `StartsConsistent` through the passes.
- **The refinement.** The mapping completes the statements of the handler at once:
  the mapped tables are those after the last statement. `AtomicInv` says that the
  remaining statements are ordered by kind, at most one of each, that the venues they
  write exist, and that a pending DELETE of a venue stands alone and finds it empty.
  Then the first step of a handler maps to the request of `Hierarchy`, and each
  statement maps to a stutter, since performing it changes nothing of the completed
  tables. `MappedPlaced` gives the guard of the venue DELETE.
- **`AccessControl`, any threads.** `CopiesAgree`: two records with one identifier,
  in the table, in the cache or held by any handler, have one user and scope. A write
  of an old copy can therefore not move a role; that the table alone keeps its scopes
  is not inductive, since the copies are what gets written.
- **`AccessControl`, one thread.** `CacheNames` and `PoliciesNamed` say what the
  cache holds *during* a request: what the tables hold but for the roles of an
  unfinished batch, or it is about to be cleared. `JobTrue` says that what the
  handler read is still so.
- **`Authorization`.** `AuthInv`: the roles are on existing places, one per place, and
  on a place the user made it is the role it was made with. The theorems then follow
  `RoleIsAuthorized` branch by branch; the second is about one state, and its proof
  is that `ResolveTargetContext` arrives at the same scope from a record as from a
  query naming the record's place.
- **`Listings`.** `ListsShowReadable` is about one state and follows from `AuthInv`. The
  scopes a list handler works out are compared with `RoleIsAuthorized` on the same row:
  one role per place makes "the role on the venue, or else the one on its entity" the
  same as "allowed and not denied". A venue that is listed and refused is reached from
  an entity that is not its own.
- **The tree.** `SeenInv` says which roles account for what is seen so far, and
  that what the roles already looked at show is in it. What an entity's expansion adds
  is reached from its venues (`Reached` is the least closed set, so an induction over
  the walk is not needed). A seen place that is not in the tree has a seen parent that
  is not in it either; upwards without end would contradict `TreeAssumption`, so such a
  place is a venue, and so is everything missing above it.
- **`DeviceRules`.** `RulesInv`: a settled rule is set where it says, and open at every
  place read before (`Settled`); an open one is open at all of them; a changed place is
  exempt. `AboveStep` gives the line of a place as the place and the line above it.
- **`APConfig`.** `AssemblyInv`. During the walk an element that applies is in `Config_`
  exactly if the walk has passed it (`Met`), and `WalkOK` keeps the walk above all
  places it has left, so that what is passed is nearer (`MetIsNearer`): inserting after
  everything as heavy keeps the order (`Ordered`, with `InsertedAt` on the sequence).
  The end of the walk has met everything. `NamesOK` and `SectionsOK` say that each name
  was taken by the first element that defines it (`FirstAt`), which by the order is the
  one to provide it (`FirstProvides`).
- **`SerialNumberCache`.** In an ascending vector the numbers smaller than n are exactly
  those before `LowerBound` (`LowerBoundSeparates`, from the cardinality of an interval
  and no induction), so that inserting there keeps the order.
- **`Subscribers`.** `ChecksHold`: each check a handler made still holds when its
  result is used, whatever steps of its own came in between.
- **`References`.** As in `Hierarchy`; besides, a row that exists, and a record in a
  policy's `inUse`, was handed out (`Handed`), and a row that does not exist has empty
  columns (`Blank`), so that a new entity or venue is listed by no record and lists
  what its body presented.
- **`VenueJobs`.** `JobOK` ties the program counter of a job to its tasks: before the
  devices are found there is none; then there is one for each device the loop has
  passed; a completed job has freed all but those that threw, and reported each of the
  freed with its task's outcome.
- **`Operators`.** `Halfway` says which of the four rows an operator has at each
  write of its request, forwards and when undoing.
- **`TokenCache`.** A thread that returns with "ok" for a credential whose removal was
  consumed meanwhile is in `raced` (`AnswersRaced`).
- **`RadiusEndpoints`.** `Covers` relates the pools the updater built, and later the
  gateway's, to the endpoints as they are now; `NamesIssued` keeps a new account or
  certificate from making an endpoint usable that nobody changed; `TimesOrdered`
  orders the times read and written.
- **`Discovery`.** `Halfway` says for each program counter which of the row, the cache
  entry and the list entry of the serial number exist, as long as one thread alone
  works on it; `AllWhole` says that they agree when no one does.

Only model-checked:

- liveness under fairness: `JobsFinish`, `ZombiesRemoved`, `LiveServiceListed`,
  `RevokedForgotten`, `ConnectedDevicesDiscovered`, `OwnerSettles`;
- `SearchesExact`: that the digits of a number, reversed or padded, order the numbers as
  the pattern does takes induction over the digits. The order of the vector it searches
  is proved; that of the reversed one rests on the same induction;
- `StoredAsSent`, `ReceivedAsSent` and `PutChangesOneMember`: they are about the
  tables of members and conversions of the particular classes, which TLC goes
  through one by one; there is nothing to generalise over.

## 7. Not modelled

`PROJECT.json` gives the reason for each part. In short:

- SQL text, the embedded configuration schema, the asset server, the dashboard, file
  downloads and country look-up are data or I/O without control of their own; so are
  the utilities of `framework/utils.cpp` but for the serial numbers.
- Web sockets and the rate limiter: calls around a library, on which no table and no
  rule depends.
- The monitoring boards of subscriber devices. A DELETE whose first stop fails leaves
  stopped boards listed (`RESTAPI_sub_devices_handler.cpp:743`); what follows depends
  on what owanalytics answers for a board that is gone, which is not in the
  repository. Also the push of a subscriber device's configuration to the gateway.
- The application of overrides to a configuration, and the handler that merges them
  by source: two requests that read one record and write it back lose one of the two
  (`RESTAPI_overrides_handler.cpp:28`).
- Start and stop of the subsystems: `Running_` of the job controller and of the Kafka
  threads is set by the new thread, so that a `Stop` that comes first does not join.
- Cycles of venues in `APConfig` and `DeviceRules`, whose walk up the venues would not
  end: reachable in `Hierarchy`, part of `Authorization` and `Listings`, excluded there.
- Lost list updates and late cache fills are reachable in `HandlerSteps` and
  `AccessControl` with two threads; no statement of the repository excludes them, so
  no run is about them.

## 8. Plan

1. Two threads in `AccessControl`: what remains true of the cache with concurrent
   fills (an entry differs from the table only for a user whose roles were being read
   when they changed).
2. Overrides and the operators' contacts and locations as holders in `References`;
   monitoring boards next to `Subscribers`.
