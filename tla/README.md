# Vector8 in TLA+

Vector8 plans truck trips: a dispatcher uploads a shipment, the program picks a
vehicle, routes it, optimizes where it buys fuel, and hands the trip to a driver.
It is a FastAPI + SQLModel backend over PostgreSQL/PostGIS (`backend/app`), a
Celery worker with beat for periodic imports, and a React client
(`frontend/src`).

This directory holds TLA+ modules for the parts of both whose behaviour is hard to
test, the TLC configurations that check them on small instances, and proofs
(TLAPS) that carry the most important properties to every instance.
`PROJECT.json` lists the components, the runs, the hazards, and for every modelling
definition the source lines it stands for. Paths here are relative to
`backend/app/` in sections 3 to 5 and to `frontend/src/` in sections 6 to 9.

    tlc -workers 2 -config TripPlansRace.cfg MCTripPlans
    tlapm TripPlansProofs.tla

## 1. The system

### Components, their state and their operations

| Component | State | Operations that change it | Talks to |
|---|---|---|---|
| Trip plans (`trip_plans/`) | table `trip_plans`: status, vehicle, shipment, refined route, refine error, driver, share token | create, refine, assign/unassign, status, share/revoke, delete | routing (awaits the provider), shipments, positions |
| Shipment planning (`shipments/planning.py`) | column `shipments.planning_status` | plan (creates a trip), completion, deletion of the last trip, a dispatcher's correction | trip plans, fleet, optimizer |
| Trip snapshot and export | a stored copy inside a trip | export renders it | trip plans |
| Shipment intake (`shipments/service.py`, `extraction/`) | tables `shipments`, stops, stored files | upload, parse, reparse, manual update, geocode, delete | LLM clients, geocoding |
| Fleet and positions (`fleet/`) | tables `vehicles`, `vehicle_positions` | vehicle CRUD, position reports by sensor, dispatcher and trips | trip plans |
| Fuel optimizer (`fuel_optimization/domain.py`) | the local state of one optimization | `optimize` | nothing: pure |
| Fuel optimization service (`fuel_optimization/service.py`) | stored plans | collects stations along a route, calls the optimizer | map, routing |
| Fuel price import (`fuel/`, `tasks/`) | table of fuel stations, Redis queue and result backend, advisory lock, `_mobile_api_key` of each process | the Celery task, enqueueing it, the synchronous imports | PumpPrice over HTTP, map's repository |
| Routing and its cache (`routing/`) | table `route_calculations` | calculate, reuse, replace an expired route | providers |
| Map overview (`map/`) | layer caches | overview of all layers at once | providers, one shared session |
| Geocoding (`geocoding/`) | cache tables | geocode, reverse | providers |
| Provider adapters (`providers/`) | HTTP clients | requests with retries | HERE, TomTom, ... |
| LLM clients (`llm/`) | none | completion with fallbacks | models over HTTP |
| Users, login, drivers (`api/routes/`, `drivers/`) | tables `user`, driver profiles | CRUD, login | trip plans (foreign keys) |
| Items template | one table | CRUD | - |
| Map page (`routes/_layout/map.tsx`) | the route, plan and trip on screen, the vehicle with its reserve, requests in flight | calculate, optimize, create and recalculate a trip, switches | map, optimizer and trip endpoints |
| Address form (same file, `useResolvedPoint.ts`) | three fields with selection, suggestion and geocoded point | typing, suggestions, the vehicle's position, a shipment's stops | geocoding, positions, shipments |
| Plan walkthrough and chat (`OptimizationWalkthrough.tsx`, `AiExplainDialog.tsx`) | steps of a plan, the step shown, a conversation | moving on, questions, retries | the explain endpoint |
| Map layers (`components/Map/layers/`) | sources, layers, images, handlers and popups on one MapLibre map | mounting, data, zoom, clicks, retry timers | the map (external) |
| Session and navigation (`useAuth.ts`, `main.tsx`, the routes' guards) | the token in localStorage, the current-user query, the page | sign in and out, guards, error handlers | login and user endpoints, other tabs |
| Desk pages and the query cache (the list, detail and form pages) | react-query's cache | queries, 19 mutations, their invalidations | every CRUD endpoint |
| How it works (`FuelDemo.tsx`, `fuelSim.ts`) | a stepper over three strategies | next, back, replay | nothing |
| User interface kit; migrations and deployment | - | - | - |

Every HTTP request runs in a handler with its own SQLAlchemy session
(`api/deps.py`): READ COMMITTED, objects expired on commit, an UPDATE naming only
the columns whose value changed. Nothing is locked for update and no row carries a
version. An `async` handler gives way to others whenever it awaits a provider, and
synchronous ones run in a thread pool. In the browser one thread runs effects,
timers and callbacks one at a time, in any order that the network and the user
produce.

### What is hard about it

- **Load, await, commit.** A handler decides on a row as it was loaded. Between
  its load and its commit any other request may commit, for a refinement during
  seconds of a provider's answer.
- **Two tables that must agree.** A shipment's planning status follows from the
  trips that refer to it, but seven code paths write one or the other, partly in
  two commits, one of them a correction that takes any status a dispatcher sends, and
  foreign keys delete rows without passing through any of them.
- **Links given to outsiders.** A share token must open one trip and be dead for
  good once revoked, while every writer of the row may hold an older copy of it.
- **A background task that is delivered at least once**, retried by its own
  messages, killed by time limits, and guarded only by a lock that lives in a
  database session; plus two endpoints that run the same import without the lock.
- **A greedy algorithm with many boundaries** (reserve, tank, minimum and maximum
  purchase, detours) whose choices are never revised.
- **Answers that come late.** The pages have no request ids except in the chat;
  what an answer may touch is decided by effects' cleanups, disabled buttons and
  keys of the query cache.
- **Components that share one imperative map**, which may not be ready, with
  timers that look for it and handlers that must be taken off again.
- **One token for all tabs**, dropped by whichever error comes first.
- **Rights written twice**: the menu, the guards and the buttons in the client,
  the dependencies in the backend.

### What makes each component correct

| Component | Correctness | Where |
|---|---|---|
| Trip plans | a completed trip is recorded in the vehicle's positions; status `refined` has a route; links keep their promise | `TripPlans`, checked and proved |
| Shipment planning | the queue lists exactly the shipments without trips, but for statuses set by hand; a delivered shipment is reopened only by a dispatcher | `TripPlans`, checked, proved for requests one at a time |
| Fuel optimizer | reserve and limits are respected; a failure is genuine and says where; without detours the plan is the cheapest; it terminates | `FuelOptimizer`, `FuelPlanCost`, checked, proved but for the last step of termination |
| Fuel price import | one locked run at a time; an accepted task is never lost and settles; a stored row comes from one import and only moves forward | `ImportTask`, checked, the safety part proved |
| Map page | a plan is asked for the route on the map; a run of the optimizer becomes one trip | `MapPage`, checked and proved |
| Address form | suggestions and markers are those of the text in the field; searching ends | `RouteForm`, checked, the safety part proved, the end of a search for a field at rest |
| Walkthrough and chat | steps stay in route order, panel and map show the same step and the same ranges; no answer joins another conversation; thinking ends | `Walkthrough`, checked, the safety part proved |
| Map layers | the map shows what was rendered, at the present zoom; handlers have markers; what was rendered before the map loaded appears | `MapScene`, checked and proved |
| Session | a visitor is left alone; refused tabs leave; checks do not circle; the menu opens | `Session`, checked and proved, the checks' end once the token stays |
| Desk pages | what the user was told is done is shown; what is offered is permitted | `Desk`, checked and proved |
| How it works | a step looks the same however it is reached; the comparison is fair | `FuelDemo`, checked and proved |

## 2. Modules

| Module | Is | Composes |
|---|---|---|
| `TripPlans`, `TripPlansProofs` | concurrent requests on trips, shipments, fleet, readings | implements `PublicLinks`, the abstract promise of shared links |
| `FuelOptimizer`, `FuelOptimizerProofs` | the greedy strategy | `FuelPlanCost`, the reference definition of the cheapest plan |
| `FuelDemo`, `FuelDemoProofs` | its demonstration in the browser | run beside it by `MCFuelOptimizer` |
| `ImportTask`, `ImportTaskProofs` | queue, lock, workers, synchronous imports | - |
| `MapPage`, `RouteForm` | route, plan and trip of the map page; its address fields | `ReserveRules` |
| `Walkthrough` | a plan shown step by step | `RouteSteps` (its steps and spans), `ExplainChat` (its chat) |
| `MapPageProofs` | the proofs of these three | - |
| `MapScene`, `MapSceneProofs` | the layers on the map | `MapLayers`, the table of layer components |
| `Session`, `SessionProofs` | one tab and the token | `Navigation` (pages, guards, menu), `Api` (the generated client) |
| `Desk`, `DeskProofs` | the query cache | `DeskOps` (queries and mutations), `Navigation`, `Api` |

`MC*` modules give the constants their values. `MCMapPage` extends `MapPage`,
`RouteForm` and `Walkthrough`, which share no state of the models, and runs one of
them (`page`, `form`, `walk`) per behaviour.

Written first and kept as planned: trips, optimizer, import. The plan's second half
(shipment intake, provider caches, the overview's layers) gave way to the client,
where the program has more of its concurrency; what remains of it is under "Not
modelled".

| Run | Expect | Module | Properties |
|---|---|---|---|
| `trip_lifecycle` | pass | `MCTripPlans` | `CompletedIsRecorded`, `RefinedHasRoute` |
| `share_links` | pass | `MCTripPlans` | `DeadTokenStaysDead`, `LinksImplemented` |
| `shipment_queue` | pass | `MCTripPlans` | `QueueAgreesWithTrips`, `OnlyPlanReopens` |
| `fuel_plans` | pass | `MCFuelOptimizer` | `ReserveKept`, `PurchasesWithinLimits`, `FailureHasTarget`, `InfeasibleOnlyAtGap`, `OptimalWithoutDetours`, `ShownIsSnapshot`, `ComparisonIsFair`, `Terminates` |
| `import_queue` | pass | `MCImportTask` | `RunsNeverOverlap`, `AcceptedIsNotLost`, `Settles` |
| `import_catalogue` | pass | `MCImportTask` | `OnlyRequestsOverlap`, `RowIsOneImport`, `ImportsMoveForward` |
| `map_page` | pass | `MCMapPage` | `OneTripPerRun`, `OptimizesShownRoute`, `SuggestionFits`, `MarkerFits`, `SearchEnds`, `PanelMatchesMap`, `PickupKeepsOrder`, `SpanIsDrawn`, `ConversationIsCurrent`, `ThinkingEnds` |
| `map_scene` | pass | `MCMapScene` | `MapShowsProps`, `VisibilityFollowsZoom`, `HandlersHaveMarkers`, `InitialLayersAppear` |
| `session` | pass | `MCSession` | `MenuOpens`, `VisitorStays`, `RefusedTabsLeave`, `ChecksEnd` |
| `desk` | pass | `MCDesk` | `ReadYourWrites`, `OffersArePermitted` |
| `reissued_link` | violation | `MCTripPlans` | `ReissueKeepsToken` |
| `session_drop` | violation | `MCSession` | `OnlyRefusedTokensAreDropped` |

Deadlock is not checked where the system may really stop: with every trip deleted
and nothing in flight, with a user who does nothing, or at a bound.

## 3. Trip plans (`TripPlans`, `PublicLinks`)

**State.** `trips` is the table `trip_plans` by id, each row with the columns that
handlers decide on; a row that does not exist yet or any more has a status of its
own (`unborn`, `deleted`). `planning` is `shipments.planning_status`, `fleet` the
vehicles that exist, `recorded` the trips with a `TRIP` row in `vehicle_positions`,
`issued` the tokens ever drawn (history), `corrected` the shipments whose status was
last written by hand (history: no handler reads it). `req` holds what each request
in flight has loaded: where it stands (`pc`), its trip, the row as loaded (`snap`)
and what else it read (`seen`).

**Actions.** An endpoint is two or more actions: `XStart` loads, `XStore` commits,
and other requests act in between. `Commit` writes, through `Flush`, only the
columns that differ from the loaded row, which is what the ORM's UPDATE does; this
is the heart of the module, and the mutant that writes every column revives dead
links. `CreateStore` and `MarkPlanned` are create's two commits, `ForcePlanned` is
plan's third one. `RouteReturns` distinguishes a cache hit (the loaded row stays)
from a miss (the cache's commit expires the row and it is read again). A flushed
DELETE holds its row (`Unlocked`). `UpdateShipment` is `PATCH /shipments/{id}`:
`planning_status` is one of the fields a dispatcher may correct, and
`ShipmentService.update` stores what he sends, whatever trips the shipment has. It
is one step, because what it writes depends on nothing it has loaded; a status equal
to the loaded one is not written at all, and an explicit null breaks the column's
NOT NULL. The client's own form sends no status. `Rejected` is the request whose
statement finds no row or breaks a foreign key, `Fault` the worker that dies between
two steps.

| Run | Instance | Shows |
|---|---|---|
| `trip_lifecycle` | one trip, two overlapping requests of any kind, two routes, faults | `CompletedIsRecorded`, `RefinedHasRoute` |
| `share_links` | two trips, two requests, three tokens, a vehicle that is deleted | the table implements `PublicLinks`; dead tokens stay dead |
| `shipment_queue` | one shipment, two trips that may carry it and a third completed before readings were recorded, statuses set by hand, one request at a time | queue and trips agree but where the status was set by hand; only a dispatcher, who plans it or sets its status, reopens a delivered shipment |
| `reissued_link` (violation) | one trip, two requests | re-issuing may replace a link already handed out |

*Why these bounds.* All conflicts of trips are between two writers of one row, so
one trip and two requests meet all of them; a third request only repeats what one of
the two could do after its first commit. Two routes tell a replaced route from a
kept one. Links need a second trip, because a token must not move to another one,
and three tokens, so that one can be drawn after one was replaced. The proofs then
drop the bounds. `shipment_queue` is serial on purpose: the code does not protect
the counting of a shipment's trips against a concurrent deletion (each of two
deletions counts the other's row and neither returns the shipment), nor create's two
commits against a crash between them (the shipment stays unplanned with a trip), nor
the cascade of a vehicle's deletion (it stays planned without one); all three are in
the hazard list. Nor does it check a status set by hand against the trips (section
10): the property leaves out the shipments in `corrected` and takes them in again
when a request writes their status of its own accord, so what it says of all others
holds whatever was corrected before. Within one request at a time the property is
about the right order of counting, deleting and marking. Deadlock is not checked in
these runs.

**Proved** (`TripPlansProofs`, for any numbers of trips, requests, tokens, with or
without faults): `TypeCorrect`; `CompletedAlwaysRecorded`, `NeverBackToDraft` and
`RefinedAlwaysHasRoute` from the inductive invariant `LifecycleInv`; `LinksRefined`
(`Spec => Links!Spec`, step by step) and `DeadTokensStayDead` with `TokensHold`.
None of the three state properties is inductive by itself, since a commit
is computed from an older row. The strengthening says what a request may still rely
on: the row it loaded was explained, and a route the loaded row had is still
there (`LoadedRowsFollow`: routes are replaced, never removed); the id of a plan
under construction belongs to one request (`ClaimsHold`). `UnassignedStatus`
therefore may decide on an old row: what it finds, the current row has too.
For links the invariant is that a token is drawn before any row holds it and no
two rows hold the same; net-change writes then cannot bring an old token back,
because a handler that does not change the token does not write it.

`QueueAlwaysAgrees` is proved under `Serial`: one request at a time, no worker that
dies, no vehicle deleted. The hypothesis is the one `shipment_queue` runs under, and it
is needed: without any one of the three the code breaks the property (see the bounds
above and the hazard list). Under it the numbers of trips and shipments are free,
dispatchers set statuses by hand whenever no other request runs, and the request's steps
still commit one by one, so the proof is about the order inside a request. `QueueInv`
says when trips and queue may differ: only for a shipment corrected by hand, or the one
whose planner is between its commits (`AboutToMark`); what that planner has read of the
shipment's status is still so (`PlannerAgrees`), and a deleter that saw the last trip
go has nobody else's trip left to count (`DeleterAgrees`).

`DeliveredStaysDelivered` needs `OneAtATime` alone: workers may die and vehicles may be
deleted with their trips. It rests on `ReadsHold`: a lone request that writes a status
because of the one it read (`MarkPlanned`, the deletion of the last trip) still finds
that status, or no shipment. Two requests break it: a request that read `unplanned`
before another completed the trip would take the delivered shipment back to planned.

**Left out.** Answers that change nothing (403, 404, 422, the pre-checks of refine);
the trip's snapshot and export; who may report on which trip, beyond the check on
the loaded row; the deletion of users, which unassigns a driver's trips (SET NULL) but
deletes an owner's trips and shipments with him (CASCADE; since `POST /trip-plans` does not
ask whose shipment it is given, another owner's shipment may be left planned without a
trip); the deletion of routes by cleanup.

## 4. Fuel optimizer (`FuelOptimizer`, `FuelPlanCost`)

**State.** The local variables of `optimize`: `offset`, `station`, `fuel`,
`target`, the totals, `stops`, `reached` and the failure. `ctx`, chosen by Init
from the constant `Contexts` and never changed, is the optimization context.

**Arithmetic.** A distance is counted by the fuel it burns, fuel in grains, of
which `Quantum` make the 0.0001 gallon to which the code rounds. The strategy's own
arithmetic is then exact over naturals, except the one rounding that decides
something: what is bought is rounded up (`RoundUp`). Ratios (effective price per
gallon) are compared by cross-multiplication (`Cheaper`). Rounded figures that are
only reported are left out, and so are candidates, comparisons and traces recorded
for explanation.

**Actions.** One per exit or branch of the loop: `Succeed`, `DriveToFirstStation`
or `NoFirstStation` at the origin, `Refuel` with the look-ahead for a cheaper
station (`CheaperAhead`) and the purchase, then `Continue`, `ChooseNext` or
`NoContinuation`, and `Depart` or `PlannedStationUnreachable`. Selections are the
sorted choices of the code as sets with one element (`Cheapest`, `Nearest`), the
order of ids as the final tie-break.

| Run | Instance | Shows |
|---|---|---|
| `fuel_plans` | all placings of three stations at three offsets (also coinciding ones), with and without detour, two prices, with and without a charge, with and without minimum and maximum, setting out below, above and at the limits | the reserve is kept, purchases respect limits, failures are named and (without limits) genuine, the loop ends |
| the same run | all placings on seven offsets and all pricings from three prices, no detours | the plan costs what the cheapest of all plans costs |
| the same run | the browser's demonstration, stepped beside one of these plans | a step looks the same however it is reached, the comparison is fair |

*Why these bounds.* A decision of the strategy involves the place it stands at, the
station it prefers and at most one that it passes over: three stations give each
role to each of them. The numbers are chosen so that every comparison meets its
equality as well as both sides: a leg of exactly the tank, a purchase of exactly
the maximum, a minimum that does not fit, reserve zero.

**Fairness.** `Terminates` assumes WF(Next): the loop runs in one thread and nothing
blocks it.

**What the runs say about the documents.** `FUEL_OPTIMIZATION_ALGORITHM.md` suspects
false failures, because a choice is never revised (A5). `InfeasibleOnlyAtGap`, with
its theorem, refutes it where purchases have no limits: a failure means a stretch
of the route that no choice of stops crosses. With a minimum or a maximum there are
false failures (A4 of the same document), and the property says nothing of them.
Stations at offset zero, or at the offset the truck stands at, are never considered
(B8); with two stations at one place the plan need not be the cheapest. Its A3 says that
the greedy scheme is optimal on a line and only detours spoil it. The code keeps that,
as `OptimalWithoutDetours` says, where it can: stations at places of their own after
the origin, no limits on a purchase, a start with the reserve in the tank (below it the
first station need not be the best), and quantities that need no rounding (what is
rounded up was perhaps cheaper farther on). `NoPlan` bounds the costs that the
reference tells apart; every other number is free in the theorem.

**Proved** (`FuelOptimizerProofs`, for any stations and contexts): `TypeCorrect`
(differences never go below zero), `ReserveIsKept`, `FuelIsBalanced`,
`PurchasesAreLimited`, `FailureNamesTarget` (the `RuntimeError` of `_build_failure`
is dead code) and `GreedyIsComplete`. The invariant `PlanInv` needs, beyond the
properties, where the truck stands in each step (`Standing`) and what a purchase
without limits has ensured (`Prepared`: after refuelling the tank is full or the
destination is in reach, and the planned station is reached with the reserve).
Completeness then follows where a failure is declared: all that is
ahead is out of reach of a full tank here, and everything behind is farther away.

`GreedyIsOptimal` is `OptimalWithoutDetours` for every layout, price and tank. The
reference `LeastCost` is a recursive function over all plans; that its recursion has
a solution, and facts about it, are proved from a least counterexample (`NatMin`) on
the distance that remains (`Rank`), without the library's induction. Two bounds meet.
`NoPlanBeatsTheRates`: give each grain of the way the least price among the stations
that can have sold it (`Rate`, summed by `Accrues`); from any place, what any plan
still pays plus the worth of the fuel above the reserve is at least what the rest of
the way costs at these rates. `GreedyInv`: the strategy pays exactly these rates
(`PaysTheRates`), because the cheaper stations it has passed cannot reach as far as
the fuel it has (`CheaperSpent`, `CheaperThanTargetSpent`) and those ahead are heard
by the look-ahead (`PaysOffOnTheLine`, `NearestPays`); and `LeastCost` is never more
than what is paid plus the least cost from here (`CheapestSoFar`). It quantifies over
all functions, so TLC checks what it implies and not the invariant itself.

That the strategy ends is proved up to its last step. `NeverStuck`: at every turn some
branch can be taken, because each choice among stations, the search for a failure's
target included, is made among at least one (stations are assumed to be finitely many;
`CanGoOn` is what each action needs, written out, since the prover does not reason
about ENABLED). `EveryTurnShortens`: each turn makes a natural number smaller, `Work`,
five for each unit of distance still to go and up to four for what is left to decide at
this place;
a drive costs five because a chosen station always lies ahead. `WorkIsBounded` says how
large it is at first. **Model-checked only:** `Terminates` itself, which these give by
induction on `Work` over a temporal formula. **Left out:** detour kilometres in the
report, alternatives and savings shown to the user.

### The demonstration of the strategy (`FuelDemo`)

`fuelSim.ts` runs three strategies (fill up, the greedy one, just enough for the
next station) over five fixed stations; `FuelDemo.tsx` steps through them, with an
animation the first time a step is reached and a jump afterwards. `Target`,
`PurchaseAt` and `FuelAfter` are the simulation in exact integers (tenths of a mile;
a gallon is 68 of them). `HandleNext`, `Arrive`, `Fill`, `HandleBack`,
`HandleReplay` are the buttons and the two timers. `ShownIsSnapshot` compares the
two ways a step is computed, by animation and by snapshot; `ComparisonIsFair` is
what the page says of itself, that the strategies arrive with the same fuel and
only the purchases differ.

**Proved** (`FuelDemoProofs`, for runs of any length over the page's own stations and
prices): `SameHoweverReached` and `FairComparison`. `DemoInv` adds to the first what is
on the page during an animation: trucks and tanks are already where they arrive, and
once tanks are filled the marks are those of the snapshot. That leaving out a purchase
too small to show changes nothing needs `NoHiddenPurchase`: on this route every purchase
is either nothing or worth showing. The second rests on the table of tanks and costs
(`Purchases`, `Costs`), derived leg by leg from the recursive `FuelAfter`.

Its arithmetic is not that of the backend's optimizer,
and nothing ties the two together but the idea; the run therefore steps it beside
one plan only.

## 5. Fuel price import (`ImportTask`)

**State.** `queue` counts messages by task and the retries behind them, `result` is
the task's state in the result backend, `run` what each worker process and each
synchronous request is doing and has read, `lock` the holder of the advisory lock
(a process, or `Orphan`: the session of a process that is gone), `key` the processes
with a cached mobile key, `row` one station of the catalogue, `clock` the time.
`overlapped` and a row's `fetched` are history: whether two imports ever
ran together, and the price that came with the row's stamp.

**Actions.** `Receive`, `Conclude`, `Ack` are Celery with late acknowledgement and
one message at a time; `Conclude` publishes the retry of a provider's error.
`Crash` loses a worker's process and its message goes back; `TimeLimit` is the hard
limit, which fails and acknowledges the task. `TakeLock`, `SkipRunning`, `Unlock` are
`advisory_lock`. `Authenticate`, `KeyRejected`, `Fetch`, `Read`, `Write`,
`ImportFails` are the import, shared by the task and by the endpoints
(`RequestMobile`, and `RequestDesktop`, which has its own cookie and no second
attempt). `Write` is the upsert's UPDATE: it writes the columns that differ from
what `Read` saw, so a price that looks unchanged is not written although another
import may have changed it in between.

*One row stands for the catalogue*: an import commits all its stations at once,
and conflicts are between two imports of the same station. The backoff between
retries and beat's calendar are left to nondeterminism: a message may be received at
any time after it was put.

| Run | Instance | Shows |
|---|---|---|
| `import_queue` | two tasks, two workers, one retry, one lost process, no requests, weak fairness | `RunsNeverOverlap`, `AcceptedIsNotLost`, and `Settles`: in the end everything accepted is answered and the queue is empty |
| `import_catalogue` | one task that may be retried and delivered again, one synchronous request, two prices | the task alone never overlaps itself; until imports overlap a row is one import's and moves forward |

*Why these bounds.* The lock is a matter of two workers. A task that is retried
once meets the first attempt, the last attempt, and a redelivery of each; more
retries repeat the first. Two prices tell the imports' writes apart. A second
crash repeats the first with a fresh process; the proofs have no such bounds.

**Fairness.** WF of each worker's own steps: its process runs, its HTTP requests
have timeouts (`providers/http.py`) and the task a time limit, so each step ends.
Nothing is assumed of beat, of the endpoints, of crashes, nor of the database
noticing a dead session: `Settles` holds even if it never does, since later tasks
are then skipped, which is an answer. That it is the wrong answer is under
"Disagreements without a run".

**Proved** (`ImportTaskProofs`, for any numbers of tasks, workers, requests, retries
and crashes): `TypeCorrect`, `LockExcludes`, `NothingIsLost`,
`TaskAloneNeverOverlaps`, `RowsAreWhole`, `CatalogueMovesForward`, all from
`ImportInv`. Its parts: a worker inside the locked block is the lock's holder
(`LockIsHeld`, from which exclusion follows); an unanswered task is queued or with
a worker that has not concluded it (`Carried`; a worker about to acknowledge does
not count, otherwise its acknowledgement would lose the task); and while imports
have not overlapped there is at most one, its stamp is later than the row's, and
what it read is still in the row when it writes (`Catalogue`).

**What is conditional, and why.** `RowIsOneImport` and `ImportsMoveForward` are
stated up to the first overlap. Once the synchronous endpoints run beside the task
neither holds: the import that began first may commit last, and the net-change
UPDATE may leave one import's price under another's stamp. `OnlyRequestsOverlap`
says that it takes such an endpoint. `advisory_lock` promises no overlap for the
job only, and keeps that promise.

**Left out.** A database restart that takes the lock's session from a living worker
(the code does not notice); normalising, deduplicating and merging the stations of
one answer; the wording of results.

## 6. The map page

Three modules, one per concern, checked together by `map_page`. An answer of the
backend may come at any time after its request, in any order with the others.

### Route, plan and trip (`MapPage`, `ReserveRules`)

**State.** The page's `useState` values that requests and answers read and write:
vehicle, `constrained`, `reserve`, `routeId`, `drawn` (the route with what its
request asked for), `calculatedWith`, `result`, `trip`, and the requests in flight
(`overview`, `optimizing`, `creating`, `recalculating`; `tracked` is the one that
the mounted refine control waits for). `made` counts the trips acknowledged for a run.

**Actions.** One per handler and per answer. What makes them hard: react-query runs
the callbacks of the last render, so a handler of an answer reads the page of
today; the refine control is unmounted with its plan and forgets that it waits,
while its request goes on; `ResetLayers` clears what an answer in flight may put
back. `ReserveRules` has the limits of a reserve, which the selection proposes and
the optimize button checks, in integers (quarter gallons).

**Shown.** `OptimizesShownRoute`: no order of routes, failures and resets leads to
an optimization of another route than the one drawn, or with a reserve the tank
refuses. `OneTripPerRun`: although the control forgets, a run becomes at most one
trip. That holds because a trip of any plan on the page turns "create" into
"recalculate", and because a plan's arrival is the only thing that takes the trip
away while leaving a result, with a new run.

*Bounds.* One vehicle, whose tank is so small that its limits cut the default
reserve; one reserve below it; two routes and two runs, so that a plan and a trip
can be late for their successor.

**Proved** (`MapPageProofs`): `TypeCorrect`; `DefaultReserveAllowed`, for every
tank; `ShownRouteOptimized`, from `RouteIsDrawn` (an id and its geometry come and
go together); `OneTripOfEveryRun`, from `TripInv`: runs beyond the last have
nothing (`RunsSoFar`), a run is being created or made, never twice (`CreatedOnce`),
a creation in flight for the present plan is waited for by the control
(`CreationAwaited`), and a run whose trip is made and whose plan is still shown has
a trip on the page (`TripRemembered`).

### The address form (`RouteForm`)

**State.** For each of the three fields: its text, the selection with its place,
whether it was edited, the suggestion, whether it is searching, and the two effects
(`search`, `resolve`) that wait for a timer or an answer; the vehicles and shipments
being fetched.

**Actions.** An input changes a field and `Rendered` runs the effects whose
dependencies changed, with their cleanups: the suggestion's (300 ms) and
`useResolvedPoint`'s (400 ms). A vehicle's position and a shipment's stops arrive
late and fill fields of their own; `RestoreSearch` is the link of an infeasible plan.

**Shown.** A suggestion on offer is one for the text in the field
(`SuggestionFits`), a marker is where that text is (`MarkerFits`), searching ends
(`SearchEnds`, under fairness of the timers and of the answers, each of which ends
in a result or an error).

*Bounds.* Three texts: one too short to search, one, and the address that the
second is found at (applying a suggestion changes the text into one that matches
another); two inputs; a vehicle without a position and a shipment without a
pickup. Its own initial addresses are chosen in Init.

**Proved** (`MapPageProofs`): `SuggestionAlwaysFits` and `MarkerAlwaysFits` for
all texts and inputs, from `FormInv`: what an effect searches or geocodes is the
text that the field holds now, since any change of it runs the effect again, and a
selection's address names its place. The proof assumes that a missing value is no
search (`Distinct`). `SearchesEndAtRest`: a search shown ends once what it depends on
(text, selection, `edited`) stays the same. `AllSearch` is why: whatever the effects
cancel, a field that shows "Searching" has a timer or a request behind it, so that it
goes from the one to the other and to its end. **Model-checked only:** `SearchEnds`,
the same without the condition, which holds because the inputs of a run are bounded.

### The walkthrough and its chat (`Walkthrough`, `RouteSteps`, `ExplainChat`)

**State.** The route shown (`coordinates`), the plan, the pickup, `activeStepIndex`,
the target of the chat; the chat's subject, messages, timer and requests with their
ids; at most one request is current. `RouteSteps` are the pure functions: the
itinerary into steps, the pickup among them, the span of route that a step reaches
on its fuel and on its reserve, and the line drawn for it. A route that arrives
replaces the one shown and keeps plan, pickup and index (`RouteDrawn`), so steps may
be those of another route; a plan that arrives shows its first step (`PlanShown`),
also on a route drawn after it was asked for; a reset takes both away. The panel
looks its step up with a fallback to the first (`ActiveStep`), the map without
(`MapStep`, only if `MapHasStep`).

**Shown.** A pickup leaves every other step with its number and the offsets in order
(`PickupKeepsOrder`); panel and map, each with its own step and its own figures, show
the same step and the same ranges (`PanelMatchesMap`); a drawn line covers exactly its
span (`SpanIsDrawn`); an answer
joins only the conversation that asked (`ConversationIsCurrent`); the chat does not
think forever (`ThinkingEnds`, under fairness of its timer and answers).

`PanelMatchesMap` has one exception, which the code makes and the property names: the
pickup is taken off the plan while the last step is shown. The index is then beyond the
last step, the panel shows the first one and its ranges, and the map no line (section
10). No other sequence of routes, plans, pickups and steps brings the two apart: a new
plan that kept the index would, as its mutant shows. Ranges are compared for steps on
the route shown. A step of an older, longer route may lie beyond the end of the new
one: the map draws nothing for it, while the panel names a range and a negative
distance to the destination.

*Bounds.* Three plans: one that arrives, one that fails before its goal, one of an
older backend without itinerary; two routes, the longer with a vertex twice, the shorter
so short that points of the plans lie beyond its end; pickups on the route, between
vertices and beyond the end; five choices of the user and the backend (a route, a plan,
a pickup, a step and one more: what it takes to lose the step shown), one question.

**Proved** (`MapPageProofs`): `ConversationAlwaysCurrent`, from `ChatInv`: a
request still looked at asked about the present subject. And the geometry, for
every route and every plan that `WalkthroughAssumption` describes:

- `SpanAlwaysDrawn`: the line drawn covers its span, wherever the span ends between
  vertices, on a vertex or on one that the route passes twice.
- `PanelAlwaysMatchesMap`: the index leaves the steps only in the one exception, and
  the figures of a step on the route shown are its lines.
- `PickupAlwaysKeepsOrder`: for every place of the pickup.

The invariant `WalkInv` says that the plan shown is one of the backend's and the
pickup one the page places, the route shown none or one of `Polylines`, and the
index below the number of steps, the pickup's counted whether or not it is there
(`StepCount`; a new route keeps that number, a new plan resets the index).
Everything else is about functions of these: the steps of an itinerary are numbered
without gaps by their offsets, and inserting a pickup behind the last step that is
not beyond it keeps both; the walk along the route (`NextReaches`) reaches the first
vertex at or after an offset, and the slice between two such vertices with its two
cut ends is the span. That a walk defined by recursion is a function at all
(`LinesExist`) follows by the least counterexample in Nat, without the induction
theorems.

`WalkthroughAssumption` is what the backend's `_build_itinerary`
(`backend/app/fuel_optimization/service.py:759`) returns: as many points as it
counts, numbered along sorted offsets, none negative. Of how these offsets compare with
the page's route nothing is assumed, because the code promises nothing: PostGIS measures
them along the route's geometry, capped by the provider's length (`service.py:137`), the
page measures its polyline with turf, and the route shown may be another one. Where it
matters the properties say so. Steps of an itinerary are in order on any route; in a plan
without one the destination is the page's own end of the route, and comes last only if
no stop lies beyond it (`EndIsLast`, a condition of `PickupKeepsOrder`).

**Model-checked only:** `ThinkingEnds`: any number of disowned requests may be answered
before the one that counts, and an induction on their number is out of reach.

## 7. The map's layers (`MapScene`, `MapLayers`)

**State.** `MapLayers` is one record for each of the fifteen layer components:
layers with the zoom modes that show them, images, which items they draw, and how
popups' handlers get attached. `MapScene` has the life of a component: `mounted`
and `data` are what React rendered, `onMap`, `visible`, `images` what MapLibre
has, `attached`, `waiting`, `orphans`, `leaked`, `popup` the handlers with their
retry timers, those of dead effects included.

**Actions.** `Mount`, `Unmount`, `Render` with the effects' cleanups in React's
order; `LoadEvent`, `StyleDataEvent`, `TilesFinish`, ... are the map (external); images
load or fail; `RetryAttach` and `OrphanRetries` are the 100 ms timers.

**Shown.** `MapShowsProps`, `VisibilityFollowsZoom`, `HandlersHaveMarkers` in every
order of these; `InitialLayersAppear`: what is rendered before the map has loaded
appears. Fairness: the style arrives, tiles finish, frames are drawn (strong, for
"load" and "styledata" need the style idle at the moment), timers fire.

*Bounds.* One component at a time, all fifteen in turn: components share nothing
but the style's state and the images, which other users of the map are
represented by (`TilesStart`, `StyleChanges`). Two retries instead of five tell
giving up from trying again; one leaked handler, one orphan, one failed image.

**What the code does beyond these.** The fuel and rest-area layers do not cancel
their timer on cleanup: its handlers stay for good, and a click opens two popups
(`leaked` and `popup` keep them apart, and `HandlersHaveMarkers` speaks of the live
ones only). They give up after five attempts, the rejected stations after one.
Images are asked for only when "styledata" finds the style idle.

**Proved** (`MapSceneProofs`, for every set of components, whatever the server
answers and in whatever order everything comes): `MapAlwaysShowsProps`,
`VisibilityAlwaysFollowsZoom` and `HandlersAlwaysHaveMarkers`, from `SceneInv`. The
three are inductive together with `HandlersAreClickable`: only a component with
clickable markers has handlers or a popup, and only a rendered one waits to attach
them.

`InitialLayersAlwaysAppear` is `InitialLayersAppear` for these sets, with one condition
on them: a component that tries for ever to attach its handlers is alone in its scene
(`Alone`), as `TripStops` is on the trip's page. The argument has two halves. The map
loads (`MapLoads`): the style comes, its tiles finish again and again, and the load event
that waits for such a moment gets its turn. Then what was rendered is on the map and
stays (`OnMapStays`), and a timer finds the layer (`ToAttachStep`), for until the
handlers are attached the next timer is set (`RetriesGoOn`).

## 8. Session and navigation (`Session`, `Navigation`, `Api`)

**State.** `stored` is the token in localStorage, which belongs to all tabs; `owner`
and `valid` the tokens the backend issued and accepts; `tab` one tab: page, the
guard under way (`going`), the current-user query (`user`, `status`, `fetching` with
the token it carries) and the request of the page (`call`).

**Actions.** Loading a page, following a link, the answers of the query, of a guard
and of a page's request, signing in and out, deleting the account, what other tabs
do to the token, expiry. `Show` and `GoTo` are the router with the guards of
`Navigation` (from each route's `beforeLoad`); `SignInAgain` is the handler of the
query and mutation caches in `main.tsx`. `Api` is the generated client, reduced to
which operations carry the token.

**Shown.** `VisitorStays`, `RefusedTabsLeave`, `ChecksEnd` (guards that redirect do
not circle), `MenuOpens` (menu and guards agree). Fairness: the current-user
request and the guards' are answered; nothing else has to happen.

*Bounds.* A driver and a superuser, whose rights differ in every guard; two tokens,
so that an answer can be about a token that another has replaced; the pages
`login`, `signup`, `shared`, `newVehicle` and `settings` to open, redirections lead to
others.

**Proved** (`SessionProofs`, any users, roles and tokens): `TypeCorrect`,
`MenuAlwaysOpens`, `VisitorAlwaysStays`. The last needs `VisitorInv`: a tab on the
shared page has no subscriber of the current user, no guard under way and no
request that leads elsewhere.

`RefusedTabsAlwaysLeave` is `RefusedTabsLeave` for any tokens: the question about a
refused token is still under way (`RefusedGoesOn`) until its answer signs the tab out
(`AnswerSignsOut`), unless the tab leaves or has a token that is valid before.
It needs `Issued`, that what is in storage the backend has issued. `ChecksAlwaysEnd`
is `ChecksEnd` where the token stays the same: a guard under way ends or sends the tab
on to a page that its own guard lets in (`OneRedirect`), so two answers are
enough. **Model-checked only:** `ChecksEnd` as the run states it, where the token may
go on changing; every change may send the tab round once more, and an induction on
their number is out of reach.

**Noticed.** A late error about the token of an earlier session drops the present
one (finding 2); an error kept in the query throws away the next sign-in once; a
fetch joined by the next session can bring its predecessor's user.

## 9. The desk pages (`Desk`, `DeskOps`)

**State.** For each query what it last brought (`seen`, as versions of the things it
shows), its request on the way (`fetch`), whether it is `fresh`; the page and the
dialog; mutations under way (`calls`); at the backend a version of each thing
(`stored`). `due` is history: the versions the user has been told of.

**Actions.** `Open`, the dialog, `Refocus`, `Submit`; the backend reads and writes;
answers and failures; `Succeeds` invalidates the keys that the mutation names and takes
the user to its page, wherever he is by then. `DeskOps` is the table: 15 queries by
key and content, 19 mutations by page, request, rights, invalidated keys.
`Permits` is the backend's side of rights (`require_roles`, the superuser flag).

**Shown.** `ReadYourWrites`: a page at rest shows what the application has told its
user is done, unless the query joined a first request of before the write. That
exception is what react-query does, and `Owes` states it. `OffersArePermitted`: no
button offers what the backend refuses.

*Bounds.* Thirteen scopes: a user, a few pages, the mutations whose keys can miss one
another's queries, and the two queries in question; two events (writes and
failures); two mutations at once where two buttons are enabled together. The last
scope has every page and mutation with every kind of user.

**Proved** (`DeskProofs`): `OffersAlwaysPermitted` for every role and flag, a superuser
of any role included, and `PagesLetTheUserStay`, both from `DeskInv`: the user is on a
page whose guard admits him, and what is under way he may do and may land where it
leads. And `OwnWritesAlwaysRead`, which is `ReadYourWrites` for any number of users,
writes and mutations under way, from `CacheInv`: what the user has been told of is
stored; an answer on its way was read late enough for what its query owed when it was
asked for; what is fresh shows what it owes. The lemma that makes it true is `Covered`:
whatever a mutation changes on its own page, or in a query that joins first requests,
lies under a key that the mutation invalidates. Both proofs go through the table row
by row.

**Noticed.** Saving a shipment does not invalidate its validation (`Desk`'s
`ReviewShowsWhatToFix`, below), planning one invalidates a key no query has
(`trip-plans`), the suggestions of an open dialog stay after a reparse, a status set
in the list leaves an open trip page as it was, and a late success takes the user away
from the page he has gone to.

## 10. Findings

Each is a run that expects a violation, and an entry in `PROJECT.json` with both
lines quoted.

1. `set_share` may replace a link it has already returned, although its docstring
   says re-issuing keeps it (`reissued_link`).
2. The effect of `useAuth` drops the token on any error of the current-user request,
   although its comment speaks of invalid tokens (`session_drop`).

### Disagreements without a run

Met while modelling; where a definition is named, it states the claim that the code
does not keep, in a form that a configuration of the module's run refutes when it is
listed there.

- A failed refinement takes an assigned, running or completed trip back to
  `refine_failed` (`trip_plans/repository.py:235`) against the lifecycle of
  `TRIP_PLANS.md:30` (`TripPlans`, `RollsBackOnlyWhenUnassigned`).
- `PATCH /shipments/{id}` stores any planning status, whatever trips there are
  (`shipments/service.py:177`), against "creating a trip plan moves a shipment to
  PLANNED and deleting that trip plan moves it back" (`shipments/domain.py:24`).
- Deleting a vehicle cascades to its trips (`models.py:57`) and leaves their
  shipments `PLANNED` without a trip (`shipments/domain.py:24`).
- A task delivered again after a crash is skipped as already running while the dead
  session holds the lock (`fuel/tasks.py:39`), against `BACKGROUND_TASKS.md:58` and
  `:332` (`ImportTask`, `SkippedOnlyWhileRunning`).
- The review of a shipment "can show a dispatcher exactly what to fix"
  (`shipments/service.py:279`), except after he saved it (`Desk`,
  `ReviewShowsWhatToFix`).
- A component rendered after the map's "load" while the style is busy may never
  appear (`useGeoJsonLayer.ts:42`; `MapScene`, `LayersAppear`).
- What "the last calculated route was built with" (`map.tsx:235`) is read when the
  answer comes, not when it was asked (`MapPage`, `CalculatedWithRequest`).
- A position that comes late makes the start the place of a vehicle no longer
  selected (`map.tsx:718`; `RouteForm`, `StartFollowsVehicle`).
- A new route leaves the plan and the trip of the old one on the page (`map.tsx:446`);
  steps, ranges and distances are then those of one route on another.
- When the pickup is taken off a plan at its last step, the header says "4/3", the panel
  shows the first step, and the map draws no reach "from the active walkthrough step"
  (`ReachableRouteLayer.tsx:4`).
- A pickup beyond the destination is listed after it.

## 11. Proofs, and the limits of the method

Eight modules hold theorems; `PROJECT.json` lists the results, the lemmas are beside
them. The pattern is the same everywhere: an inductive invariant that names what a
request in flight may still rely on, one lemma per action, and a temporal step at
the end.

Liveness is proved where each step of the argument is one of the fair actions:
`RefusedTabsAlwaysLeave`, `InitialLayersAlwaysAppear`, and for a system at rest
`ChecksAlwaysEnd` and `SearchesEndAtRest`. Since the prover does not reason about
ENABLED, each of these has as a hypothesis that a fair action can be taken where its
guard holds (`CanBeAnswered`, `StepsArePossible`, `CheckCanBeAnswered`,
`SearchesCanGoOn`); the guards can be read off the actions, and TLC confirms each
hypothesis as an invariant on the runs' instances. An argument that takes a
number of steps not fixed in advance needs an induction over a temporal formula, which
the prover's library cannot express: so `Terminates` (though all its premises are
proved, section 4), `Settles`, `ThinkingEnds`, and `SearchEnds` and `ChecksEnd` in full
are checked by TLC only.

What a recursive definition computes for every input cannot be proved with the library's
induction theorems; where a measure can be named, a least counterexample takes their
place (`LeastCost`, section 4), and where the inputs are few, as in the demonstration,
the definition is unfolded. TLC's symmetry sets are used only in runs without liveness,
over values that no definition tells apart.

The proofs assume what the modules' ASSUMEs say, which TLC evaluates in the runs:
for trips and the map page, that the markers of missing values are none of the ids;
for the optimizer, that contexts have their type, stations are naturals (their order
is the order of ids) and a quantum is positive; for the import, that workers and
requests are different processes and the number of retries is a natural; for the map
page, that tanks are positive; for the session, that the bound is a number, the mark
of a missing token is none of the tokens, and the pages exist; for the desk, that
roles are the three of `UserRole`, the queries a scope names exist, and the marks of
a request that has no answer are no answers; for the walkthrough, what
`WalkthroughAssumption` says of routes and plans (section 6). Some theorems have a
hypothesis more, which is stated in them and which the code does not promise
everywhere: `Serial` and `OneAtATime` (the queue, section 3);
`OptimalWithoutDetours` states its own (section 4). Three more describe how the
constants stand for the code: `Distinct` (section 6), `Alone` (section 7) and the
finite set of stations (`NeverStuck`). The proofs trust the correspondence between
modules and code, which `map` in `PROJECT.json` lays open line by line, and the
semantics given to the surroundings: READ COMMITTED, UPDATE of changed columns, late
acknowledgement, one session per request; in the browser, effects with cleanups
after a render, react-query's joining and invalidation, MapLibre's "load",
"styledata" and `isStyleLoaded`.

## 12. Not modelled

- **Shipment intake**: parsing by an LLM and geocoding of stops; documents in, rows
  out. What remains of interest is that geocoding commits the caller's
  half-written shipment and that two uploads of one document may both find no
  duplicate; both are in the hazard list.
- **Routing and geocoding caches, map overview**: a lookup with an insert behind it;
  the loser of two inserts answers 500 and rolls back. The overview's layers run
  on one SQLAlchemy session at once, which its library leaves undefined, so any model
  of it would be a guess.
- **Fuel optimization service, trip export, LLM and provider clients**: collecting,
  translating and rendering, without state between calls.
- **Fleet's positions**: a ranking in one ORDER BY.
- **Users and items**: CRUD; the user endpoints appear in `DeskOps` by what they write
  and permit.
- **User interface kit, generated types, navigator links, forms' fields, dragging,
  wording**: rendering, or pure functions with unit tests of their own.
- **Confirmation dialogs of bulk deletion** (their pending rows, Escape, the selection
  left after failed rows): the requests are in `DeskOps`, the dialogs are left out.
- **Migrations and deployment**: configuration.
