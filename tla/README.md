# WarehouseLens: a verification project

WarehouseLens is a multi-tenant warehouse system: a FastAPI backend over PostgreSQL
(`backend/app`), a worker process beside it (`backend/app/worker.py`), Keycloak for
identities, and a Next.js frontend (`frontend/src`) whose server keeps the sessions and
proxies every call. This directory holds TLA+ modules that model the state-changing code
of all of these, TLC configurations that check them on small instances, and proofs,
checked by TLAPS, that hold for every value of the constants.

There are four groups: the warehouse's documents and their stock; who administers whom;
the server between browser and backend (sessions, token refresh, proxy, rate limit); and
the forms, tables and dialogs of the browser that decide what is sent. Everything is
translated from the source; `PROJECT.json` maps each definition to the lines it stands for.

## 1. Inventory

| Component | State it keeps | Operations | Interacts with | What is hard | What makes it correct |
|---|---|---|---|---|---|
| Outbound workflow (`services/outbound_service.py`) | outbound requests, pick lists, shipments | create sales order or transfer, generate pick list, record pick, complete, ship, deliver | stock rows, ledger, worker | status checks on copies that other sessions replace; quantities recomputed at three moments | one list and shipment per request, statuses agree, what leaves is what was picked and what arrives |
| Inventory (`services/inventory_service.py`) | `warehouse_stock`, `inventory_transactions` | `apply_movement`, row on demand, manual transactions | every service that moves goods | absolute writes of values read earlier; missing rows inserted by two sessions; manual rows that name any document | stock never negative, equal to the ledger |
| Procurement (`services/procurement_service.py`) | purchase orders, suppliers | create, receive | inventory | two receipts of one order; partial receipts | received quantities are what the ledger booked |
| Warehouses (`services/warehouse_service.py`) | warehouses, `is_active` | create, update | transfers, tenants | deactivation around a transfer | transfers start between active warehouses; no warehouse without its tenant |
| Database sessions (`core/database.py`) | one session and transaction per request | load, flush, commit, rollback | all handlers | READ COMMITTED, no locks, no versions | a failed call changes nothing; overlap is visible only through stale values |
| Worker (`worker.py`) | nothing of its own; writes `quantity_reserved`, `daily_metrics` | `recalculate_reservations`, `aggregate_daily_metrics`, the `main` loop | stock rows, pick lists | a pass races with requests; ticks fail | reservations become exact again |
| IAM (`services/iam_service.py`) | users, roles, permissions, assignments | create, update, delete users and roles; assign, revoke | Keycloak, sessions | lockout checks that count others before they delete; several paths to the same loss; addresses and system roles that may be edited | assignments are backed by members; every tenant keeps a manager |
| Platform (`services/platform_service.py`) | tenants, their administrators, platform administrators | create, update, delete tenants; create, assign, revoke administrators | Keycloak, IAM's tables | two systems, one commit; users who belong to several tenants; deletions that overlap; administrators known by an address | no half-provisioned tenant, no live user without a tenant, always a platform administrator |
| Request scope (`core/security.py`, `services/permission_service.py`) | key cache; users and memberships on first sign-in | verify token, find tenant, bootstrap, resolve permissions | every router | first requests that write | the right person gets the right tenant, once |
| Keycloak client (`core/keycloak_admin.py`) | accounts, outside the database | find, provision, enable or disable, reset | platform, IAM | a call succeeds and the commit fails | every local user has an account |
| Daily metrics and forecasts (`worker.py`, `forecasting/`) | `daily_metrics`, forecast points | upsert per day, refresh a series | ledger | repeated and overlapping passes | every movement counted once |
| Session, token refresh and proxy (`lib/authOptions.ts`, `lib/tokenRefresh.ts`, `app/api/v1/[...path]/route.ts`, `app/(app)/layout.tsx`) | one session cookie per browser with a pair of tokens, the map of refreshes in flight | sign in, read a session, refresh, forward, time out, poll, log out | Keycloak, backend, every page | concurrent calls with one refresh token; a call that times out and still runs | one refresh per token; honest answers; every call is answered |
| Rate limiter (`proxy.ts`) | a bucket of counts per key and window | count, refuse | all calls to `/api/v1` | keys made of a cookie that is split and rewritten | one user's calls do not use up another's quota |
| Tables (`hooks/useTableData.ts` and the five tables) | search, debounce, page, fetches, the last answer | type, filter, turn pages, refresh | list endpoints | answers in any order; rows that go away | what is shown is what was asked for |
| Forms that create (eleven) | what is filled in, whether open, an error | open, fill in, submit, close | server actions, backend | closing during a submission; a lost answer | created once |
| Forms that edit (four) | field values, props of the last render | open, edit, save | server actions, a row others edit | stale fields written back | only what was edited changes |
| Delete confirmation (`ConfirmDeleteDialog.tsx`) | interval timers, the ref to one | press, release, close | deletions of users and roles | a timer nobody can clear | confirmed by a full hold |
| Role permissions editor (`EditRoleModal.tsx`, `PermissionSelector.tsx`) | ticked boxes, search, page | open, tick, save | roles | permissions that arrive late | untouched permissions stay |
| Temporary passwords (`PlatformAdminsList.tsx` and others) | the dialog's row, the password shown | reset, revoke, provision, dismiss | Keycloak's one-time answer | closing and reopening during a call | each password stands under its own account |
| Outbound request page (`OutboundWorkflow.tsx`) | what was rendered, typed quantities, "Saved" marks | press a step, type, save a row, reload | the outbound handlers | several clerks on one request | page and backend agree on the workflow |
| Other pages, dashboards, copilot, Redis stub, migrations | none, or nothing a rule reads | queries, rendering, scripts | | | |

The hazards these lead to are listed one by one, each at its line, in `PROJECT.json`.

## 2. Modules

```
Sums --- WarehouseData --- WarehouseProps -+- WarehouseOps -+- MCWarehouse
                                           |   (refines     +- OutboundScreen --+
                                           |    GoodsFlow)                      |
                                           +- SessionOps ----- MCSessions       |
TableView, Forms, EditForms, HoldToConfirm, RoleEditor, Credentials ------------+- MCConsole

AccessData -+- Iam ------------+- Access --- MCAccess
            +- PlatformAdmins -+

Gateway -------------+- MCGateway
RateLimit (on Sums) -+

Proofs, each over the modules in brackets:

SumsProofs (Sums) -+- StockProofs --- GoodsProofs ---+- SessionProofs (SessionOps)
                   |  (WarehouseOps)                 +- ScreenProofs --- ConsoleProofs
                   |                                    (OutboundScreen) (MCConsole)
                   +- GatewayProofs (MCGateway)
AccessProofs (Access)
```

* **WarehouseData**: the tables as variables (`onHand`, `reserved`, `ledger`, `moved`,
  `request`, `pickList`, `shipment`, `order`), the queries and status checks that
  several handlers share, and the creation of documents. **WarehouseProps**: what must be
  true of the tables, stated once for both models below.
* **WarehouseOps**: every handler and the worker's pass as one atomic action: the
  workflow when requests do not overlap.
* **SessionOps**: the same handlers as the database sees them. A request runs in a thread
  with a session: `Load...` reads the documents and checks their status, `ReadStock`,
  `MissStock` and `InsertStock` follow `get_or_create_stock_row` line by line, `Commit...`
  writes the changed columns as absolute values. Any other commit may fall in between.
  `WorkerCount`, `WorkerScan` and `WorkerCommit` are the worker's transaction.
* **GoodsFlow**: the abstract promise. A unit of goods is in a warehouse or on one trip; a
  trip takes what was there and brings the same goods to the one destination, once. There
  are no statuses, lists, reservations or ledger in it. `WarehouseOps` implements it
  (`ImplementsGoodsFlow`): a shipment is a trip, its load the ledger rows of `ship`, its
  unloading those of `deliver`; a manual transaction adjusts what a warehouse has, whatever
  document its row names.
* **AccessData**: users, memberships, roles, assignments, tenants and Keycloak accounts with
  their addresses; how a request finds its tenant and permissions; bootstraps. **Iam** and
  **PlatformAdmins**: the handlers of the two services. **Access**: their composition, the
  properties, and the environment.
* **Gateway**: the Next.js server. Calls of several browsers read their cookie, lead or
  join a refresh, are forwarded, time out, and are answered, while tokens expire, Keycloak
  sessions end and users log out. **RateLimit**: the buckets in front of it.
* **TableView**, **Forms**, **EditForms**, **HoldToConfirm**, **RoleEditor**,
  **Credentials**: one component of the browser each, together with the server actions it
  calls and what it needs of the backend.
* **OutboundScreen**: the page of one request in the browsers of several clerks, composed
  with the handlers of `WarehouseOps`: a button pressed on a stale page calls the real
  handler, which accepts or refuses.
* **MC...**: instances for TLC. `MCGateway` and `MCConsole` hold components that share no
  state; their variable `part` chooses the one a behaviour explores. **...Proofs**:
  theorems.

A definition named `Faulty...` is a plausible mistake in the definition that follows it.
No specification uses one: they serve to confirm that each property notices the mistake.

### How the models correspond to the code

Warehouse:

* An identifier that has no row yet has status `"absent"`; handlers that insert take an
  absent one. A stock column is a function from warehouses to vectors of quantities, and a
  missing stock row counts as zeros; `SessionOps.rows` says which exist.
* Order status `confirmed` is only ever seeded and behaves as `pending`; `cancelled` is
  never set by the code. Neither appears.
* `record_pick` copies the lines of the request into the pick list; lines never change,
  so the model looks them up in the request.
* `moved` are the ledger rows that carry a `reference_id`, per document, and `ledger` all
  rows, per stock row: the two views the properties compare. A manual transaction takes
  `reference_id` from the client, and no foreign key checks it: its row may name any
  document or none (`BookManually`). Nothing in a row tells it from one that a handler wrote
  (the client chooses `type` as well, and no rule reads it, so that the model leaves it out).
  `manualOut` and `manualIn` are history variables that keep the manual part apart:
  `ShippedUnder` and `ReceivedUnder` are what the handlers themselves booked, and what
  the ledger as a whole says of a document may be anything.
* A request rejected with 409 changes nothing and is no step. In `SessionOps` a check that
  fails after reads, an integrity error, a crash and a lost connection are all `Rollback`.
* Loading the documents of a call is one step, and so is its commit: row locks taken by
  the flush make the writes of one commit appear together.
* `Written(loaded, new, current)` is SQLAlchemy's unit of work: a column whose value did
  not change in the session is not written.
* `stale` records that some commit was computed from values no longer current. It is a
  history variable: it appears in no guard. What holds while it is false is what the
  handlers themselves guarantee, and everything that can go wrong afterwards comes from
  the missing lock or version check.

Access:

* A user is the `sub` of a Keycloak account, which is also the primary key of the local
  row. Account and row each carry an address, and `update_user`, `update_platform_admin`
  and the upsert at sign-in change them one at a time. A token carries the address its
  account has, or one it had before (`former`; a token lives for minutes only, so that the
  model allows more than the code). Addresses are in lower case, `email_verified` holds.
* A caller may act if they have an account (tokens outlive disabling, and `deleted_at` is
  not looked at), exactly one membership (`scalar_one_or_none` raises for more) and the
  permission.
* Every handler is one action, except the two revocations and `delete_tenant`. What they
  count (the other holders of a role, the memberships the members have left) and their
  commit are separate steps, with anything in between. `lapses` is a history variable: it
  names what was committed although its check no longer held (`revoke_role`,
  `revoke_platform_admin`, `delete_tenant`), and the removal of a platform administrator's
  role by the user administration of the platform tenant itself (`demotion`), which has
  no check for it.
* Keycloak is called before the commit. The calls whose commit never came are actions of
  their own: `AccountAppears`, `DisabledInVain` and `RenamedInVain`. `Disable` succeeds for
  any subset, because its failures are logged and ignored; `delete_tenant` disables
  accounts while it counts, which the model does at the commit, and earlier with
  `DisabledInVain`.
* Roles are rows that all tenants share. `update_role` takes any of them, the system roles
  included; new permissions are chosen from `PermissionSets`.
* `delete_role` for the two system roles is refused before its other guards are reached.

Gateway:

* A pair of access and refresh token is an identifier. One that nobody holds any more may
  be issued again, which keeps the set finite and changes nothing a call can see.
* A call carries the cookie its browser had when it was sent, however late it is read: a
  page or an API call cannot write the cookie (only the poll of NextAuth's session
  endpoint and logout can), so a call that refreshed leaves the old pair in it.
* `oneTime` is Keycloak's setting that revokes a refresh token when it is used. The code
  says that Keycloak may or may not rotate (`tokenRefresh.ts:80`); both are explored.
* `getMe` reads the session a second time when the first reading found no token
  (`reading`).
* A timed-out or broken call may still be carried out: `backend` stays `"busy"` after the
  answer. `trouble` is a history variable: the browsers one of whose refreshes got lost,
  whose Keycloak session ended, or who logged out.

* The limiter counts a browser under its session cookie if that travels under its own name,
  and under the address otherwise. `Chunked` are the browsers whose session is split,
  which the tokens in it make the ordinary case (`logout/route.ts:33-37`): together they
  are one asker, `"address"`, with the smaller quota. `QuotasHold` speaks of askers.

Browser:

* React state and the effect it triggers are one step, and so is the closure a handler was
  rendered with; a server action is sent, carried out and answered in three.
* The components that are several times in the code (tables, forms, editors, screens) are
  one module each with a record of what they differ in (`TableOf`, `FormOf`, `EditorOf`,
  `ScreenOf`), read off each component; the initial state chooses one of them.
* Field values matter only where properties compare them (`EditForms`); elsewhere a form's
  content is the set of its fields that are filled in.
* `unanswered`, `busy`, `wiped`, `overtaken`, `rerendered`, `doubled`, `early`, `unheard`,
  `handedOver`, `lost` and `blind` are history variables. Each property names with them
  the one circumstance in which the code breaks its promise, so that it holds, and says
  something, everywhere else.

## 3. What the runs check

Symmetry is used in `workflow` and the `SessionOps` runs except `heal`, which checks
liveness. Deadlock is checked unless noted.

| Run | Instance | States | What it shows |
|---|---|---|---|
| `workflow` | 2 warehouses, 1 product, 2 requests, 2 lists, 2 shipments, 1 order, quantities up to 2, 1 manual transaction that may name any document | 491,366 | All invariants and step properties of `WarehouseProps`, and the refinement of `GoodsFlow`, for handlers that do not overlap |
| `sessions` | 2 threads and the worker, 1 request, 2 lists, 2 shipments | 578,523 | Every interleaving of reads and commits: stock is never negative, and as long as nothing was stale the database moves by steps of `WarehouseOps` (`SerialUnlessStale`) and keeps its invariants (`SafeUnlessStale`) |
| `receipts` | 3 threads, 2 products without rows, 1 order, 1 manual transaction that may name it, a warehouse that is deactivated | 281,876 | Two sessions never insert one stock row (`RowsInsertedOnce`); a receipt that fails between two of its lines leaves nothing behind, and receipts are serial unless stale (`SerialUnlessStale`) |
| `heal` | 2 threads and the worker, with a correction, under fairness | 185,047 | Once the API is quiet, reservations become exact and stay so |
| `access` | 2 people and the placeholder, 2 addresses, 3 tenants, 1 custom role, a revocation or deletion with anything between its check and its commit, one address edited or the permissions of a system role replaced | 279,772 | The tables of identity and access stay consistent; a tenant keeps the person made its administrator, the platform a holder of its role |
| `gateway` | 2 browsers, 2 calls at once (API call or logout, beside a poll or another browser's page), 4 pairs each; limiter: 3 browsers behind one address, two with their sessions in chunks | 400,442 | One refresh per token and no mix-up of browsers, no lost session without trouble, honest answers, every call answered; quotas per cookie, or per address for sessions in chunks |
| `console` | 3 rows in pages of 1; each of the 11 forms, 4 editors, 5 tables and the password screens; 2 clerks on one request | 516,062 | The promises of the browser's components, and that the outbound page and the backend agree |
| the runs and configurations of section 5 | the smallest instance that shows it | few | See section 5 |

Why the bounds are enough. Conflicts over stock need two requests, two units and one
product. Every race in `SessionOps` is between two sessions, as rows hold absolute values
and are last written by one of them; the second list and the second shipment are there so
that the wrong one could be created. `receipts` has three threads so that an insert can
wait for one session and lose to another. In `access` one person can be the owner and the
other the administrator of anything; the third tenant is the one created and deleted
through the platform; `FewRows` limits histories to three memberships and three
assignments, which includes two holders of one role with a third assignment elsewhere.
`MaxOpen = 1` leaves one revocation or deletion open while everything else happens. One
edit is followed (`OneEdit`), up to the first lapse, and at most two of an edit, an open
request and a tenant with warehouses at a time. The theorems of section 4 have none of
these bounds. In `receipts` an order has two lines, and a failure may end the call
(`Rollback`) after any of its reads and inserts: a check that fails at the second line is
that same step.

In `gateway` a flight has a leader and one that joins, or one that comes too late; slots
are used again without limit, so that a call meets what earlier ones left behind. Four
pairs of one browser are the cookie's, two held by calls, and a new one. In `console` the
inputs of each component are bounded (`MaxInputs`, `MaxFormInputs`, `MaxEdits`,
`MaxPresses`, `MaxRoleInputs`, `MaxDialogs`, `MaxClicks`) at what the longest scenario of
its property takes: for instance fill in, submit, close, reopen, type, submit again and
the two answers. Three rows in pages of one make a first, a middle and a last page.

Deadlock is not checked in the access runs, where everyone may lose the means to act, and
in `console`, where a user who has used up the inputs stops.

`SafeUnlessStale` and `SerialUnlessStale` are as strong as the code allows: `lost_update`
shows that without `~stale` the ledger falls out of step, `double_ship` and
`status_reverts` that the documents no longer agree. They say nothing of what overlapping
calls do to each other's data: that two `generate_pick_list` calls make two lists, that a
late `record_pick` changes a completed one, that two `deliver` or two `receive` calls book
twice are exactly the stale commits they except. The hazards in `PROJECT.json` name no
property for these.

Fairness. The worker is fair. `main` sleeps, runs a tick, logs a failure and goes on
for ever: `WF` on `WorkerCount`. A tick may fail at any point, but not every tick fails at
the same one: `SF` on `WorkerScan` and `WorkerCommit`. Nothing is assumed of clients, and
`ReservationsHeal` is conditional on their silence. In the gateway each call has `WF` on
`ServerStep`: the server runs what is ready, the request to Keycloak ends one way or
another and the timers fire. Neither the backend nor Keycloak need ever answer;
`CallsAreAnswered` rests on the proxy's own timeout. A table's debounce timer fires and a
fetch ends in an answer or a failure (`WF` on `DebounceFires` and on the arrival of some
request); the user need do nothing, and `Settles` says that the table comes to rest when
the user does.

## 4. What is proved

For any sets of documents (finitely many pick lists), products, threads, people, clerks,
browsers, calls and numbers of inputs, from the named assumptions of the modules alone
(`ConstantsAssumption`, `ThreadsAssumption`, `AccessAssumption`, `GatewayAssumption`,
`LimitAssumption`, `ScreenAssumption` and those of the browser's components):

| Theorem | States |
|---|---|
| `StockProofs!TypeCorrect`, `DocumentsCorrect`, `NeverNegativeCorrect`, `LedgerCorrect` | `TypeOK`, `DocumentsAgree`, `NeverNegative`, `LedgerInSync` are invariants of `WarehouseOps!Spec` |
| `StockProofs!ReservationsCorrect`, `CoveredCorrect` | so are `ReservationsExact` and `ReservedCovered` |
| `GoodsProofs!ShipmentsCorrect`, `ReceiptsCorrect`, `PickedWithinCorrect` | so are `ShipmentsMoveWhatWasPicked`, `ReceiptsBooked` and `PickedWithinOrdered` |
| `GoodsProofs!FrozenCorrect`, `StatusCorrect` | its steps satisfy `CompletedListsAreFrozen` and `StatusNeverReverts` |
| `GoodsProofs!GoodsFlowImplemented` | `WarehouseOps!Spec` implements `GoodsFlow!FlowSpec` under the mapping of `ImplementsGoodsFlow` |
| `SessionProofs!OverlapNeverNegative`, `OverlapInsertsOnce`, `OverlapSafe` | `NeverNegative`, `RowsInsertedOnce`, `SafeUnlessStale` are invariants of `SessionOps!SessSpec` |
| `SessionProofs!OverlapSerial` | until a commit is stale, `SessSpec` implements `WarehouseOps` (`SerialUnlessStale`) |
| `AccessProofs!AccessTypeCorrect`, `GrantsBackedCorrect`, `LiveUsersCorrect`, `RowsHaveAccountsCorrect`, `TenantAdminsCorrect`, `StockedTenantsCorrect`, `PlatformAdminCorrect` | the seven invariants of the `access` run are invariants of `Access!AccessSpec` |
| `GatewayProofs!OneFlightCorrect`, `UntroubledCorrect`, `AnswersCorrect` | `OneFlightPerToken`, `NobodyLoggedOutUntroubled`, `AnswersAreHonest` are invariants of `Gateway!GatewaySpec` |
| `GatewayProofs!QuotasHoldCorrect` | `QuotasHold` is an invariant of `RateLimit!LimitSpec` |
| `GatewayProofs!ComposedImplements`, `ComposedTypeCorrect` | the specification of the `gateway` run is one of `Gateway` and one of `RateLimit`, and keeps its types |
| `ConsoleProofs!CreatesOnceCorrect`, `HoldingCorrect`, `PasswordsCorrect`, `ShowsWhatWasAskedCorrect` | `CreatesOnce`, `ConfirmedByHolding`, `PasswordsReachTheirAccount`, `ShowsWhatWasAsked` are invariants of their components |
| `ConsoleProofs!SavesWhatWasEditedCorrect`, `RoleKeepsPermissionsCorrect` | every step of the editors satisfies `SavesWhatWasEdited`, `RoleKeepsPermissions` |
| `ScreenProofs!SavedMeansStoredCorrect`, `OffersCorrect` | `SavedMeansStored` and `OffersMatchTheBackend` are invariants of `OutboundScreen!ScreenSpec` |
| `ConsoleProofs!ConsoleImplements`, `ConsoleTypeCorrect` | the specification of the `console` run is one of each of its seven components, and keeps their types |

The arguments.

* **Sums.** Quantities over several pick lists are added by `Total`, defined as the number
  of units, a cardinality, so that its laws (`TotalType`, `TotalSplit`, `TotalSingleton`)
  follow from the library's theorems about finite sets. A fold or a recursive sum would
  need an induction this prover cannot instantiate. The rate limiter counts the requests
  of a window the same way; `TotalUnion`, `TotalParts` and `TotalShift` say what a tick,
  which makes every request one tick older, does to the sum.
* **Documents.** `TypeOK` is not inductive alone: a handler follows references from row to
  row, and only `DocumentsAgree` says that the row at the other end is there. `StockInv`
  is their conjunction with `NeverNegative` and `LedgerInSync`. Each handler has an effect
  lemma and the step has one case per action.
* **Reservations.** `complete_pick_list` adds to a column what the worker would later add
  to its sum, and `ship` takes it away. With one list per request (`DocumentsAgree`), the
  set of reserving lists gains or loses exactly one list, and `TotalSplit` does the rest.
  That `max(0, ...)` never cuts anything off follows as well.
* **Coverage.** `ReservedCovered` needs `ReservationsExact`: the worker overwrites the
  column, and this is harmless only because it writes what is there.
* **Access.** `AccessInv` adds two facts to the properties. `RowsArePresent`: memberships,
  system roles and deletions under way refer to rows that exist. `KeycloakOK`: whoever has an
  account has an address; accounts are never deleted and `former` only grows
  (`KeycloakGrows`), which is why an edit of an address leaves `TenantsHaveTheirAdmin`
  true. `PlatformKeepsAdmin` follows as only four handlers take the role: the bootstrap
  gives it to the owner, a revocation by the platform left another holder or was committed
  on an outdated check, and what the user administration of the platform tenant takes is a
  `demotion`. Roles may have any permissions throughout. Each action has a lemma, and
  `AccessInvStep` puts them together.
* **Goods.** `GoodsInv` adds to `StockInv` that what the handlers booked for a shipment is
  what its lists say, and nothing for one that does not exist
  (`ShipmentsMoveWhatWasPicked`), that a transfer leads elsewhere (`TransfersLeave`), and
  `ReceiptsBooked`. A manual transaction adds the same to what the ledger says of a
  document and to the manual part of it (`ManualSame`), whichever document its row names.
  Steps are of three kinds: they leave the
  shipments and the lists they were picked from alone, they ship, or they deliver; that a
  completed list never changes is what carries the first kind. For the refinement each
  kind has a lemma: `AdjustStep`, `DepartStep` and `ArriveStep` show which step of
  `GoodsFlow` it is, and here the invariant is needed: that what arrives is what left is
  not in the guard of `deliver`, which counts the lists again.
* **Overlapping requests.** `SystemInv` has two halves. `SessionInv` holds however stale
  the values are: what a session is to move follows from the copies it loaded, and those
  passed the status check of its handler (`Job`); the documents and the stock rows it read
  still exist, requests with the lines they had (`There`; nothing is deleted); what it would
  write is not negative, because `apply_movement` refuses and `ship` clips on the session's
  own copies (`Allowed`); each new stock row belongs to one session (`RowsInsertedOnce`);
  and the manual transactions of open sessions are within their bound (`ManualsBounded`). `SafeInv` is the invariant of the handlers without overlap and is
  claimed only while `~stale`. Each commit then has two lemmas. `...Keeps`: whatever it
  read, it leaves `SessionInv`. `Fresh...`: if what it would overwrite is what it read
  (`Fresh`), its absolute writes are the increments of the handler of the same name, so the
  step is a step of `WarehouseOps`, and `SafeInv` is kept by the proofs of `StockProofs` and
  `GoodsProofs` as they stand. Loads, reads, inserts and roll-backs change no table.
  `WarehouseOps` and `SessionOps` both define the workflow's data, and `SerialNext` proves
  that the one `SessionOps` instantiates as `Serial` is the one the other proofs are about.
* **Gateway.** `Flights` is the heart: the keys of the map are exactly the pairs that one
  leader each is refreshing. `RowOK` keeps, per call, whose pair it holds and how often
  the backend has run, and `Untroubled` that without one-time tokens a refused pair
  belongs to a browser in trouble. That a new pair exists when Keycloak issues one is a
  count: `MaxPairs` exceeds what one cookie and all calls can hold.
* **Rate limiter.** `QuotasHold` speaks of any window and `checkRateLimit` of fixed ones.
  `BucketOK` cuts the window of an asker (a browser whose cookie is found, or the address
  with all others behind it) at the moment the bucket was opened: what came since
  is what it granted, what came before, in what is left of the window, is at most one quota
  for this cookie and one for each cookie before it. A tick past the end moves the first
  part into the second. `FutureFree` says that a cookie not yet written has no bucket.
* **Browser.** `FormsInv`: there is at most one submission and it stands for what is
  filled in unless `busy`. For the held button: while nobody pressed twice, the only timer
  is the one the ref names, and it has measured exactly how long the button has been down.
  For the role editor: what is ticked differs from the permissions it was read from in
  clicked boxes only. For the other editors (`EditInv`): what the screen shows is what is
  stored unless the row was overtaken, and untouched fields show the screen. For passwords:
  at most one call per component, and while it is under way the dialog is on the row it was
  made for. For tables (`TableInv`): every request that may still be shown asks what is
  asked now, the totals on the screen are at least those of the rows that are left, so that
  a click on a page number they offer stays in range, and only rows that went or a click
  under other totals break that. `PagesGrow` is the arithmetic of the division.
* **Outbound page.** `ScreenInv` is `StockInv` and what the pages rely on: lists a page has
  rendered are still the request's (`ListsStay`); a save under way carries the quantity of
  its row unless the clerk typed on, and one that is done left it stored unless another clerk
  wrote since (`SaveOK`); "Saved" beside a row means what `SavedMeansStored` says.
  `OffersMatchTheBackend` then compares, per step, the condition of its button with the
  guard of its handler, and needs `DocumentsAgree`: the page looks at the request's status
  where the handler looks at the list's or the shipment's.
* **The runs' compositions.** `MCGateway` and `MCConsole` explore one component at a time.
  `ComposedSteps` and `ConsoleSteps` show that each of their steps is a step of that
  component and a stutter of the others; what is proved of the components is therefore true
  of what TLC explores.

Attempts that failed changed the models. `OffersMatchTheBackend` ranged over the lists and
shipments of every request, while the page only ever offers those of the one it shows: with
the single request of the run the difference is invisible, with two the property is false.
It now ranges over the steps of the viewed request. `QuotasHold` needs that a user is never
the key under which callers without a cookie are counted, which the prefixes `u:` and `ip:`
in `proxy.ts` ensure and `LimitAssumption` now says.

Only model-checked: liveness (`ReservationsHeal`, `CallsAreAnswered`, `TableSettles`), which
is outside the prover's reach, and what the runs of section 5 refute. Every invariant
and every action property of a passing run is the subject of a theorem.

## 5. Where the code differs from what it says

| Run | Code | What the run shows |
|---|---|---|
| `lost_update` | `inventory_service.py:111` | Two overlapping movements of one stock row: the second commit overwrites the first, the ledger keeps both |
| `double_ship` | `outbound_service.py:237` | Two overlapping `ship` calls create two shipments; the model's comment says there is one per request |
| `tenant_lockout` | `iam_service.py:476` | `update_user` (and `delete_user`) take the last manager of a tenant away without the check `revoke_role` makes |
| `platform_lockout` | `iam_service.py:281` | A tenant's administrator may edit the role `platform_admin`; the document confines them to their tenant |
| `shared_quota` | `proxy.ts:76` | Signed-in browsers behind one address whose sessions are in chunks, the ordinary case, share one quota |

Each `PROJECT.json` finding quotes the sentence of the documentation or the comment that the
run refutes. More such disagreements have a configuration beside the modules, with which
`tlc -config <name>.cfg <module>` finds the counterexample within seconds:

| Configuration | Module | Property | Code | What it shows, and what it refutes |
|---|---|---|---|---|
| `status_reverts.cfg` | `MCSessions` | `StatusNeverReverts` | `outbound_service.py:225` | A completion sent twice takes a shipped request back to `packed`. `models/outbound.py:82`: "status can't revert to PACKED to ship again" |
| `partial_receipt.cfg` | `MCWarehouse` | `PartialReceiptStaysOpen` | `procurement_service.py:115` | A partial receipt closes the order. `docs/journeys.md:35`: "accumulates across repeated partial receives against the same PO" |
| `promoted.cfg` | `MCAccess` | `MembersCanSignIn` | `core/security.py:147` | A second membership makes the tenant lookup raise. `core/security.py:11`: "every user belongs to one or more tenants" |
| `renamed_admin.cfg` | `MCAccess` | `AdminEmailNamesAMember` | `iam_service.py:456` | An edited address leaves `tenants.admin_email` naming nobody, and the reset of the administrator's password answers that the address must be set again, which `update_tenant` skips as unchanged. `docs/platform-admin.md:107`: "Reissue the admin's temporary password" |
| `overlapping_deletions.cfg` | `MCAccess` | `UsersLeftAreDeleted` | `platform_service.py:354` | Two tenants deleted at once leave their common member live without a tenant. `docs/platform-admin.md:152`: "Users left without any tenant are soft-deleted" |
| `forced_login.cfg` | `MCGateway` | `DeadSessionsGoToSignIn` | `app/(app)/layout.tsx:26` | A failed refresh leaves a session without tokens; pages show nobody's dashboard and do not send the user to sign in. `authOptions.ts:57`: "invalidate session, force re-login" |
| `random_logout.cfg` | `MCGateway` | `NobodyLoggedOutAtRandom` | `lib/tokenRefresh.ts:30` | With refresh tokens that can be used once, a poll after a call's refresh repeats it with the used token and loses the session: the lock only covers refreshes that overlap. `tokenRefresh.ts:9`: it "prevents the race condition where parallel widget requests [...] consume the one-time refresh token, and cause random logouts" |
| `brief_press.cfg` | `HoldToConfirm` | `HeldBeforeConfirming` | `ConfirmDeleteDialog.tsx:50` | A second press leaves the first timer running, which confirms without a hold. `ConfirmDeleteDialog.tsx:116`: "Press and hold the button below for 2.5 seconds to confirm." |

`NobodyLoggedOutUntroubled` speaks of reusable refresh tokens only, for the reason
`random_logout.cfg` shows: reusable is Keycloak's default, and no configuration in the
repository changes it.

Some other behaviour is surprising, and we found no sentence that it contradicts. The models
contain it and the properties except it by name:

* Two `generate_pick_list` calls make two pick lists, two `deliver` calls and two `receive`
  calls book the goods twice, a late `record_pick` changes a completed list (`stale`).
* A manual transaction may carry the id of a shipment or an order, so that the ledger of a
  document is not what its handlers moved; `ReceiptsBooked` and
  `ShipmentsMoveWhatWasPicked` speak of the handlers' part.
* A manual transaction may take goods that are reserved (`ReservedCovered` excepts it).
* The user administration of the platform tenant, once one of its members holds a role that
  may assign roles, can take the last platform administrator's role (`demotion`); so can two
  revocations at once, and in a tenant two revocations the last manager's (`lapses`).
* A user deleted with one tenant and named administrator of another is live in the
  database and disabled in Keycloak.
* A pick list completed with nothing picked packs a request that can never be shipped.
* A dialog closed and reopened during a password reset shows the answer under the new
  row's address (`early`).
* What is typed into a form during its submission is emptied by the answer (`busy`), and a
  submission repeated after its answer was lost creates twice (`unanswered`).
* The outbound and purchase order tables receive the filter of the page's URL and do not
  use it: `url` appears in no query of `TableView`.
* A role saved before its permissions have arrived loses them (`RoleKeepsPermissions`
  compares with what the save was based on).

## 6. Not modelled

* Read-only code: list and get queries, the dashboards, the copilot's tools and its chat,
  the landing page, navigation, profile and list pages. They keep no state a rule reads.
* Daily metrics: sums recomputed for a window of days by every tick. Forecasts: statistics
  over floats that replace one another. No unique key protects a series, so two
  refreshes at once may leave every point twice until the next one.
* Creation of products, suppliers and warehouses in the backend beyond what section 2
  says: single inserts that no rule depends on.
* Audit rows, warehouse assignments and scope, user names, names of tenants and warehouses,
  resets of passwords in the backend, `email_verified`. `type` of a ledger row, which
  the forecasting data set and the backtest read and no handler does.
* The cache of Keycloak's signing keys, correlation ids, headers, the size guard of the
  proxy and the retries of a server component. The Redis stub, whose lock is always
  granted.
* Sorting of tables, field formats, printed details, JSON, HTTP, rendering; migrations and
  seed data.

## 7. Plan

Order of the remaining work:

1. **Warehouse scope**: `assign_warehouse`, `revoke_warehouse` and
   `scope_filter_warehouse_ids`, joined to `Access`; the key cache of `core/security.py`.
2. **Metrics**: `aggregate_daily_metrics` as a transaction over the ledger of a day, with
   repeated and overlapping passes; the refresh of a forecast series.
3. **Audit**: the second commit of a receipt and its loss.
4. **Proofs** follow their modules: the inductive invariant of each addition, and for the
   metrics that a pass over a closed day counts every movement of it once.
