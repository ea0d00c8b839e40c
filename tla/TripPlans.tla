------------------------------ MODULE TripPlans ------------------------------
(***************************************************************************)
(* Trip plans, the shipments they carry out and the requests that change   *)
(* them (backend/app/trip_plans, shipments/planning.py).                   *)
(*                                                                         *)
(* Every HTTP request owns one SQLAlchemy session on a READ COMMITTED      *)
(* Postgres connection.  A handler first loads a trip plan, then (for a    *)
(* refinement) awaits the routing provider, then assigns attributes and    *)
(* commits.  Nothing is locked or versioned between the load and the       *)
(* commit, so other requests' commits fall in between: each request keeps  *)
(* the row as it was loaded (snap) and its commit writes only the columns  *)
(* whose value the handler changed.                                        *)
(***************************************************************************)
EXTENDS Naturals, FiniteSets

CONSTANTS
  Trips,        \* trip plan ids (uuid4: never reused)
  Shipments,    \* shipments that intake has already stored
  Vehicles,
  Drivers,      \* users with the role DRIVER
  Routes,       \* ids of refined route calculations
  Errors,       \* non-empty texts of routing errors
  Tokens,       \* share tokens secrets.token_urlsafe can return
  Requests,     \* requests that can be in flight at once
  Endpoints,    \* the endpoints the instance exercises
  Retirable,    \* vehicles an administrator may delete
  Legacy,       \* trips completed before position readings were recorded
  Faults,       \* whether a request may die between two steps
  None

AllEndpoints ==
  {"create", "plan", "refine", "assign", "status", "share", "delete",
   "update_shipment", "delete_shipment", "delete_vehicle"}

ASSUME TripPlansAssumption ==
  /\ Endpoints \subseteq AllEndpoints
  /\ Retirable \subseteq Vehicles
  /\ Legacy \subseteq Trips
  /\ Faults \in BOOLEAN
  /\ {"unused", "dead"} \cap Trips = {}
  /\ None \notin Trips \cup Shipments \cup Vehicles \cup Drivers
             \cup Routes \cup Errors \cup Tokens

VARIABLES
  trips,      \* table trip_plans
  planning,   \* column shipments.planning_status, "gone" once deleted
  corrected,  \* shipments whose status was last written by hand (history)
  fleet,      \* table vehicles
  recorded,   \* trips that have a TRIP row in vehicle_positions
  issued,     \* share tokens drawn so far
  req         \* the requests in flight

vars == <<trips, planning, corrected, fleet, recorded, issued, req>>

-----------------------------------------------------------------------------
(* Rows *)

TripPlanStatus ==
  {"draft", "refined", "refine_failed", "assigned", "in_progress",
   "completed", "cancelled"}

DRIVER_STATUSES == {"in_progress", "completed"}
DISPATCHER_STATUSES == {"assigned", "in_progress", "completed", "cancelled"}

PlanningStatus == {"unplanned", "planned", "completed", "archived"}

\* status also tells a row not inserted yet from one already deleted.
Row == [status   : TripPlanStatus \cup {"unborn", "deleted"},
        vehicle  : Vehicles \cup {None},
        shipment : Shipments \cup {None},
        route    : Routes \cup {None},     \* refined_route_id
        error    : Errors \cup {None},     \* refine_error
        driver   : Drivers \cup {None},    \* assigned_driver_id
        token    : Tokens \cup {None}]     \* share_token

EmptyRow(status) ==
  [status |-> status, vehicle |-> None, shipment |-> None, route |-> None,
   error |-> None, driver |-> None, token |-> None]

Stored(t) == trips[t].status \in TripPlanStatus

\* What a flush leaves in a column: the ORM's UPDATE names only the columns
\* whose assigned value differs from the value it loaded.
Net(current, loaded, assigned) == IF assigned = loaded THEN current ELSE assigned

FlushEveryColumn(current, loaded, assigned) == assigned

Flush(current, loaded, assigned) ==
  [status   |-> Net(current.status, loaded.status, assigned.status),
   vehicle  |-> Net(current.vehicle, loaded.vehicle, assigned.vehicle),
   shipment |-> Net(current.shipment, loaded.shipment, assigned.shipment),
   route    |-> Net(current.route, loaded.route, assigned.route),
   error    |-> Net(current.error, loaded.error, assigned.error),
   driver   |-> Net(current.driver, loaded.driver, assigned.driver),
   token    |-> Net(current.token, loaded.token, assigned.token)]

-----------------------------------------------------------------------------
(* Requests.  pc says where the handler stands:                            *)
(*   creating, planning   awaiting the route of a new trip                 *)
(*   created, planned     its row is committed, its shipment not yet read  *)
(*   marking, plan_marking  read UNPLANNED, about to write PLANNED         *)
(*   forcing              plan's own unconditional write of PLANNED        *)
(*   refining, routed     awaiting the route; the route came back          *)
(*   assigning, reporting, overseeing, sharing   the trip is loaded        *)
(*   deleting, deleted    trip and shipment are loaded; DELETE is flushed  *)
(* seen is what the handler read besides the trip.                         *)

Steps ==
  {"idle", "creating", "planning", "created", "planned", "marking",
   "plan_marking", "forcing", "refining", "routed", "assigning", "reporting",
   "overseeing", "sharing", "deleting", "deleted"}

Seen == PlanningStatus \cup {"nothing", "gone", "reading", "last_trip"}

Idle == [pc |-> "idle", trip |-> None, snap |-> EmptyRow("unborn"), seen |-> "nothing"]

Start(r, pc, t, snap, seen) ==
  /\ req[r].pc = "idle"
  /\ req' = [req EXCEPT ![r] = [pc |-> pc, trip |-> t, snap |-> snap, seen |-> seen]]

Goto(r, pc) == req' = [req EXCEPT ![r].pc = pc]

End(r) == req' = [req EXCEPT ![r] = Idle]

\* A flushed DELETE holds the row until its transaction ends: every other
\* writer of that row waits.
Unlocked(t) == \A r \in Requests : req[r].pc = "deleted" => req[r].trip # t

\* The commit of a handler that loaded a trip and assigned it attributes.
Commit(r, assigned) ==
  LET t == req[r].trip IN
  /\ Stored(t)
  /\ Unlocked(t)
  /\ trips' = [trips EXCEPT ![t] = Flush(trips[t], req[r].snap, assigned)]
  /\ End(r)

\* The column planning_status, written by a handler of its own accord.
Write(s, status) ==
  /\ planning' = [planning EXCEPT ![s] = status]
  /\ corrected' = corrected \ {s}

-----------------------------------------------------------------------------
(* POST /trip-plans/ and POST /shipments/{id}/plan *)

Unclaimed(t) ==
  /\ trips[t].status = "unborn"
  /\ \A r \in Requests : req[r].trip # t

\* TripPlanService.create up to its await: the plan is built in memory, as a
\* draft, and is not in the session yet.
CreateStart(r, t) ==
  /\ "create" \in Endpoints
  /\ Unclaimed(t)
  /\ \E v \in fleet, s \in Shipments \cup {None} :
       Start(r, "creating", t,
             [EmptyRow("draft") EXCEPT !.vehicle = v, !.shipment = s], "nothing")
  /\ UNCHANGED <<trips, planning, corrected, fleet, recorded, issued>>

\* ShipmentPlanningService.plan up to the await inside create.  Nothing looks
\* at the shipment's planning status.
PlanStart(r, t) ==
  /\ "plan" \in Endpoints
  /\ Unclaimed(t)
  /\ \E v \in fleet, s \in Shipments :
       /\ planning[s] # "gone"
       /\ Start(r, "planning", t,
                [EmptyRow("draft") EXCEPT !.vehicle = v, !.shipment = s], "nothing")
  /\ UNCHANGED <<trips, planning, corrected, fleet, recorded, issued>>

\* The columns set_refined_route and set_refine_error assign.
Refined(row, g) ==
  [row EXCEPT !.route = g, !.error = None,
              !.status = IF @ \in {"draft", "refine_failed"} THEN "refined" ELSE @]

RefineFailedDroppingRoute(row, e) ==
  [row EXCEPT !.status = "refine_failed", !.error = e, !.route = None]

RefineFailed(row, e) == [row EXCEPT !.status = "refine_failed", !.error = e]

Insertable(row) ==
  /\ row.vehicle \in fleet
  /\ row.shipment # None => planning[row.shipment] # "gone"

CarriesShipment(row) == row.shipment # None

\* The route of a new trip came back, or the provider refused it: the row is
\* inserted and committed, before the shipment is touched.
CreateStore(r) ==
  LET row == req[r].snap
      t == req[r].trip
  IN
  /\ req[r].pc \in {"creating", "planning"}
  /\ Insertable(row)
  /\ \/ \E g \in Routes : trips' = [trips EXCEPT ![t] = Refined(row, g)]
     \/ \E e \in Errors : trips' = [trips EXCEPT ![t] = RefineFailed(row, e)]
  /\ IF CarriesShipment(row)
       THEN Goto(r, IF req[r].pc = "creating" THEN "created" ELSE "planned")
       ELSE End(r)
  /\ UNCHANGED <<planning, corrected, fleet, recorded, issued>>

\* create moves only an UNPLANNED shipment; plan then writes PLANNED unless
\* that is what its session already holds.
NextAfterReadingLoosely(pc, status) ==
  IF status \in {"gone", "planned"} THEN "idle"
  ELSE IF pc = "created" THEN "marking" ELSE "plan_marking"

NextAfterReading(pc, status) ==
  CASE status = "gone" -> "idle"
    [] status = "unplanned" -> IF pc = "created" THEN "marking" ELSE "plan_marking"
    [] status = "planned" -> "idle"
    [] OTHER -> IF pc = "created" THEN "idle" ELSE "forcing"

\* The shipment is read again after the trip's commit.
ReadShipment(r) ==
  LET next == NextAfterReading(req[r].pc, planning[req[r].snap.shipment]) IN
  /\ req[r].pc \in {"created", "planned"}
  /\ IF next = "idle" THEN End(r) ELSE Goto(r, next)
  /\ UNCHANGED <<trips, planning, corrected, fleet, recorded, issued>>

\* create's second commit.
MarkPlanned(r) ==
  LET s == req[r].snap.shipment IN
  /\ req[r].pc \in {"marking", "plan_marking"}
  /\ planning[s] # "gone"
  /\ Write(s, "planned")
  /\ IF req[r].pc = "marking" THEN End(r) ELSE Goto(r, "forcing")
  /\ UNCHANGED <<trips, fleet, recorded, issued>>

\* plan's own commit: the session expired the shipment, so PLANNED is written
\* whatever the column holds by now.
ForcePlanned(r) ==
  LET s == req[r].snap.shipment IN
  /\ req[r].pc = "forcing"
  /\ planning[s] # "gone"
  /\ Write(s, "planned")
  /\ End(r)
  /\ UNCHANGED <<trips, fleet, recorded, issued>>

-----------------------------------------------------------------------------
(* POST /trip-plans/{id}/refine *)

RefineStart(r, t) ==
  /\ "refine" \in Endpoints
  /\ Stored(t)
  /\ Start(r, "refining", t, trips[t], "nothing")
  /\ UNCHANGED <<trips, planning, corrected, fleet, recorded, issued>>

\* calculate_route answered.  A cache hit leaves the loaded trip as it is; a
\* miss commits the new route, which expires the trip, and its row is read
\* again.
RouteReturns(r) ==
  /\ req[r].pc = "refining"
  /\ \/ Goto(r, "routed")
     \/ /\ Stored(req[r].trip)
        /\ req' = [req EXCEPT ![r].pc = "routed", ![r].snap = trips[req[r].trip]]
  /\ UNCHANGED <<trips, planning, corrected, fleet, recorded, issued>>

RefineStore(r) ==
  /\ req[r].pc = "routed"
  /\ \E g \in Routes : Commit(r, Refined(req[r].snap, g))
  /\ UNCHANGED <<planning, corrected, fleet, recorded, issued>>

\* A RoutingError, or an answer without routes.
RefineError(r) ==
  /\ req[r].pc \in {"refining", "routed"}
  /\ \E e \in Errors : Commit(r, RefineFailed(req[r].snap, e))
  /\ UNCHANGED <<planning, corrected, fleet, recorded, issued>>

-----------------------------------------------------------------------------
(* POST /trip-plans/{id}/assign *)

AssignStart(r, t) ==
  /\ "assign" \in Endpoints
  /\ Stored(t)
  /\ Start(r, "assigning", t, trips[t], "nothing")
  /\ UNCHANGED <<trips, planning, corrected, fleet, recorded, issued>>

UnassignedStatus(row) ==
  IF row.route # None THEN "refined"
  ELSE IF row.error # None THEN "refine_failed" ELSE "draft"

Assigned(row, d) == [row EXCEPT !.driver = d, !.status = "assigned"]

Unassigned(row) == [row EXCEPT !.driver = None, !.status = UnassignedStatus(row)]

AssignStore(r) ==
  /\ req[r].pc = "assigning"
  /\ \/ \E d \in Drivers : Commit(r, Assigned(req[r].snap, d))
     \/ Commit(r, Unassigned(req[r].snap))
  /\ UNCHANGED <<planning, corrected, fleet, recorded, issued>>

-----------------------------------------------------------------------------
(* PATCH /trip-plans/{id}/status *)

\* A driver may open the trip only while it is assigned to that driver; the
\* check is made on the row as loaded.  The handler also asks whether the trip
\* has a TRIP reading.
StatusStart(r, t) ==
  /\ "status" \in Endpoints
  /\ Stored(t)
  /\ \E pc \in {"reporting", "overseeing"} :
       /\ pc = "reporting" => trips[t].driver # None
       /\ Start(r, pc, t, trips[t], IF t \in recorded THEN "reading" ELSE "nothing")
  /\ UNCHANGED <<trips, planning, corrected, fleet, recorded, issued>>

Allowed(pc) == IF pc = "reporting" THEN DRIVER_STATUSES ELSE DISPATCHER_STATUSES

NeedsRecordingOnceDriven(row, seen, status) ==
  status = "completed" /\ row.status = "in_progress"

NeedsRecording(row, seen, status) ==
  status = "completed" /\ (row.status # "completed" \/ seen # "reading")

\* One commit: the status, the TRIP reading and the shipment's completion.
StatusStore(r) ==
  LET row == req[r].snap
      s == row.shipment
  IN
  /\ req[r].pc \in {"reporting", "overseeing"}
  /\ \E status \in Allowed(req[r].pc) :
       /\ Commit(r, [row EXCEPT !.status = status])
       /\ IF NeedsRecording(row, req[r].seen, status)
            THEN /\ recorded' = recorded \cup {req[r].trip}
                 /\ IF s = None \/ planning[s] = "gone"
                      THEN UNCHANGED <<planning, corrected>>
                      ELSE Write(s, "completed")
            ELSE UNCHANGED <<recorded, planning, corrected>>
  /\ UNCHANGED <<fleet, issued>>

-----------------------------------------------------------------------------
(* POST /trip-plans/{id}/share *)

ShareStart(r, t) ==
  /\ "share" \in Endpoints
  /\ Stored(t)
  /\ Start(r, "sharing", t, trips[t], "nothing")
  /\ UNCHANGED <<trips, planning, corrected, fleet, recorded, issued>>

\* token_urlsafe never repeats itself; a token derived from the trip would.
DerivedTokens == Tokens \ {trips[t].token : t \in Trips}

FreshTokens == Tokens \ issued

\* Issuing returns the token the loaded row has, and draws one when it has
\* none; revoking clears it.
ShareStore(r) ==
  LET row == req[r].snap IN
  /\ req[r].pc = "sharing"
  /\ \/ /\ row.token # None
        /\ End(r)
        /\ UNCHANGED <<trips, issued>>
     \/ \E k \in FreshTokens :
          /\ row.token = None
          /\ Commit(r, [row EXCEPT !.token = k])
          /\ issued' = issued \cup {k}
     \/ /\ Commit(r, [row EXCEPT !.token = None])
        /\ UNCHANGED issued
  /\ UNCHANGED <<planning, corrected, fleet, recorded>>

-----------------------------------------------------------------------------
(* DELETE /trip-plans/{id} *)

DeleteStart(r, t) ==
  LET s == trips[t].shipment IN
  /\ "delete" \in Endpoints
  /\ Stored(t)
  /\ Start(r, "deleting", t, trips[t], IF s = None THEN "gone" ELSE planning[s])
  /\ UNCHANGED <<trips, planning, corrected, fleet, recorded, issued>>

\* The trips the count query finds: committed rows of the shipment but this one.
OthersCountingItself(t, s) == {u \in Trips : Stored(u) /\ trips[u].shipment = s}

Others(t, s) == {u \in Trips \ {t} : Stored(u) /\ trips[u].shipment = s}

\* DELETE is flushed by the count query, which runs for a PLANNED shipment.
DeleteFlush(r) ==
  LET t == req[r].trip
      lastTrip == /\ req[r].seen = "planned"
                  /\ Others(t, req[r].snap.shipment) = {}
  IN
  /\ req[r].pc = "deleting"
  /\ Unlocked(t)
  /\ req' = [req EXCEPT ![r].pc = "deleted",
                        ![r].seen = IF lastTrip THEN "last_trip" ELSE "nothing"]
  /\ UNCHANGED <<trips, planning, corrected, fleet, recorded, issued>>

\* Deleting a row that another request deleted first is not an error.
DeleteCommit(r) ==
  LET t == req[r].trip
      s == req[r].snap.shipment
  IN
  /\ req[r].pc = "deleted"
  /\ \/ /\ req[r].seen = "last_trip"
        /\ planning[s] # "gone"
        /\ Write(s, "unplanned")
     \/ /\ req[r].seen # "last_trip"
        /\ UNCHANGED <<planning, corrected>>
  /\ trips' = [trips EXCEPT ![t] = EmptyRow("deleted")]
  /\ recorded' = recorded \ {t}
  /\ End(r)
  /\ UNCHANGED <<fleet, issued>>

-----------------------------------------------------------------------------
(* Requests elsewhere that write a shipment's status, or reach trip plans     *)
(* through foreign keys                                                    *)

\* PATCH /shipments/{id}: planning_status is one of the fields a dispatcher may
\* correct, and it is stored as given, whatever trips the shipment has.  What
\* is written depends on nothing the handler loaded (a status equal to the
\* loaded one is not written at all), so load and commit are one step.
UpdateShipment(r, s) ==
  /\ "update_shipment" \in Endpoints
  /\ req[r].pc = "idle"
  /\ planning[s] # "gone"
  /\ \E status \in PlanningStatus \ {planning[s]} :
       planning' = [planning EXCEPT ![s] = status]
  /\ corrected' = corrected \cup {s}
  /\ UNCHANGED <<trips, fleet, recorded, issued, req>>

\* DELETE /shipments/{id}: trip_plans.shipment_id is ON DELETE SET NULL.
DeleteShipment(s) ==
  /\ "delete_shipment" \in Endpoints
  /\ planning[s] # "gone"
  /\ \A t \in Trips : trips[t].shipment = s => Unlocked(t)
  /\ planning' = [planning EXCEPT ![s] = "gone"]
  /\ trips' = [t \in Trips |->
                 IF trips[t].shipment = s
                   THEN [trips[t] EXCEPT !.shipment = None] ELSE trips[t]]
  /\ UNCHANGED <<corrected, fleet, recorded, issued, req>>

\* DELETE /fleet/vehicles/{id}: trip_plans.vehicle_id and the positions are
\* ON DELETE CASCADE.
DeleteVehicle(v) ==
  /\ "delete_vehicle" \in Endpoints
  /\ v \in fleet \cap Retirable
  /\ \A t \in Trips : trips[t].vehicle = v => Unlocked(t)
  /\ fleet' = fleet \ {v}
  /\ trips' = [t \in Trips |->
                 IF trips[t].vehicle = v THEN EmptyRow("deleted") ELSE trips[t]]
  /\ recorded' = {t \in recorded : trips[t].vehicle # v}
  /\ UNCHANGED <<planning, corrected, issued, req>>

-----------------------------------------------------------------------------
(* Requests that end with an error *)

\* The statement of the pending commit finds no row (StaleDataError) or breaks
\* a foreign key (IntegrityError): 500, everything rolled back.
Rejected(r) ==
  LET row == req[r].snap IN
  /\ CASE req[r].pc \in {"creating", "planning"} -> ~Insertable(row)
       [] req[r].pc \in {"refining", "routed", "assigning", "reporting",
                         "overseeing", "sharing"} -> ~Stored(req[r].trip)
       [] req[r].pc \in {"marking", "plan_marking", "forcing"} ->
            planning[row.shipment] = "gone"
       [] req[r].pc = "deleted" ->
            req[r].seen = "last_trip" /\ planning[row.shipment] = "gone"
       [] OTHER -> FALSE
  /\ End(r)
  /\ UNCHANGED <<trips, planning, corrected, fleet, recorded, issued>>

\* The worker dies, or an exception no handler expects escapes: the open
\* transaction is rolled back, what was committed stays.
Fault(r) ==
  /\ Faults
  /\ req[r].pc # "idle"
  /\ End(r)
  /\ UNCHANGED <<trips, planning, corrected, fleet, recorded, issued>>

-----------------------------------------------------------------------------
InitialRow(t, v, g) ==
  IF t \in Legacy THEN [EmptyRow("completed") EXCEPT !.vehicle = v, !.route = g]
                  ELSE EmptyRow("unborn")

Init ==
  /\ \E v \in Vehicles, g \in Routes : trips = [t \in Trips |-> InitialRow(t, v, g)]
  /\ planning = [s \in Shipments |-> "unplanned"]
  /\ corrected = {}
  /\ fleet = Vehicles
  /\ recorded = {}
  /\ issued = {}
  /\ req = [r \in Requests |-> Idle]

Begin(r, t) ==
  \/ CreateStart(r, t)
  \/ PlanStart(r, t)
  \/ RefineStart(r, t)
  \/ AssignStart(r, t)
  \/ StatusStart(r, t)
  \/ ShareStart(r, t)
  \/ DeleteStart(r, t)

Continue(r) ==
  \/ CreateStore(r)
  \/ ReadShipment(r)
  \/ MarkPlanned(r)
  \/ ForcePlanned(r)
  \/ RouteReturns(r)
  \/ RefineStore(r)
  \/ RefineError(r)
  \/ AssignStore(r)
  \/ StatusStore(r)
  \/ ShareStore(r)
  \/ DeleteFlush(r)
  \/ DeleteCommit(r)
  \/ Rejected(r)

Next ==
  \/ \E r \in Requests, t \in Trips : Begin(r, t)
  \/ \E r \in Requests : Continue(r) \/ Fault(r)
  \/ \E r \in Requests, s \in Shipments : UpdateShipment(r, s)
  \/ \E s \in Shipments : DeleteShipment(s)
  \/ \E v \in Vehicles : DeleteVehicle(v)

Spec == Init /\ [][Next]_vars

-----------------------------------------------------------------------------
(* Properties *)

RequestRecord ==
  [pc : Steps, trip : Trips \cup {None}, snap : Row, seen : Seen]

HoldsShipment(q) ==
  \/ q.pc \in {"created", "planned", "marking", "plan_marking", "forcing"}
  \/ q.pc \in {"deleting", "deleted"} /\ q.seen \in {"planned", "last_trip"}

\* Every table and every request holds values of its type, and a request that
\* wrote or will write a shipment's status has a shipment.
TypeOK ==
  /\ trips \in [Trips -> Row]
  /\ planning \in [Shipments -> PlanningStatus \cup {"gone"}]
  /\ corrected \subseteq Shipments
  /\ fleet \subseteq Vehicles
  /\ recorded \subseteq Trips
  /\ issued \subseteq Tokens
  /\ req \in [Requests -> RequestRecord]
  /\ \A r \in Requests :
       /\ req[r].pc # "idle" => req[r].trip \in Trips
       /\ HoldsShipment(req[r]) => req[r].snap.shipment \in Shipments

\* _record_completion commits with the status: whatever loads and commits
\* interleave, no trip is completed without its TRIP reading, so the vehicle's
\* last known position never misses a finished trip.
CompletedIsRecorded ==
  \A t \in Trips : trips[t].status = "completed" => t \in recorded \cup Legacy

\* "Back to draft is impossible": a stored plan is never a draft, because it
\* always keeps a refined route or the error that explains why it has none,
\* whatever refinements and unassignments overlap.
NeverDraft ==
  \A t \in Trips :
    Stored(t) => /\ trips[t].status # "draft"
                 /\ trips[t].route # None \/ trips[t].error # None

\* A plan shown as refined has a refined route, also when an unassignment
\* decided on a row loaded before other refinements were committed.
RefinedHasRoute ==
  \A t \in Trips : trips[t].status = "refined" => trips[t].route # None

LiveTokens == {trips[t].token : t \in Trips} \ {None}

\* get_shared: the trip a token opens.
Opens(k) ==
  IF k \notin issued THEN "unused"
  ELSE IF k \in LiveTokens THEN CHOOSE t \in Trips : trips[t].token = k
  ELSE "dead"

Links == INSTANCE PublicLinks WITH
           Unused <- "unused", Dead <- "dead", opens <- [k \in Tokens |-> Opens(k)]

\* set_share and get_shared keep the promise of PublicLinks: a token opens the
\* one trip it was issued for and is never revived, though every writer of the
\* row may have loaded it before the link was issued, replaced or revoked.
LinksImplemented == Links!Spec

\* set_share: revoking "permanently invalidates every copy of the old link".
\* No commit of any handler, however old the row it loaded, brings a token
\* back that has stopped resolving.
DeadTokenStaysDead ==
  [][\A k \in issued : k \notin LiveTokens => k \notin LiveTokens']_vars

Quiet == \A r \in Requests : req[r].pc = "idle"

TripsOf(s) == {t \in Trips : Stored(t) /\ trips[t].shipment = s}

\* PlanningStatus's docstring, between requests: the planning queue lists
\* exactly the shipments without a trip, a planned shipment has a trip.  A
\* dispatcher may overrule it by hand; the next request that writes the status
\* of its own accord makes queue and trips agree again.
QueueAgreesWithTrips ==
  Quiet => \A s \in Shipments \ corrected :
             /\ planning[s] = "unplanned" => TripsOf(s) = {}
             /\ planning[s] = "planned" => TripsOf(s) # {}

\* A delivered shipment goes back to the queue or to planned only because a
\* dispatcher planned it again or set its status himself; saving, deleting or
\* unassigning trips does not.
OnlyPlanReopens ==
  [][\A s \in Shipments :
       /\ planning[s] = "completed"
       /\ planning'[s] \notin {"completed", "gone"}
       => \/ \E r \in Requests : req[r].pc = "forcing"
          \/ s \in corrected']_vars

\* TRIP_PLANS.md: the lifecycle runs from refined through assigned and
\* in_progress to completed or cancelled, and it is removing the driver that
\* rolls the status back.
RollsBackOnlyWhenUnassigned ==
  [][\A t \in Trips :
       /\ trips[t].status \in {"assigned", "in_progress", "completed", "cancelled"}
       /\ trips'[t].status \in {"refined", "refine_failed"}
       => trips'[t].driver = None]_vars

\* set_share: "Re-issuing keeps the existing token so a link already handed to
\* a contractor does not silently stop working".
ReissueKeepsToken ==
  [][\A t \in Trips :
       trips[t].token # None /\ trips'[t].token # None
       => trips'[t].token = trips[t].token]_vars

-----------------------------------------------------------------------------
(* Why the rows stay explained: what a request knows of the row it holds *)

Explained(row) == row.route # None \/ row.error # None

RowFine(row) ==
  /\ row.status # "draft"
  /\ Explained(row)
  /\ row.status = "refined" => row.route # None

\* A loaded row may be outdated, but it was explained when it was loaded, and a
\* refined route is replaced, never removed.
Follows(current, loaded) ==
  /\ Explained(loaded)
  /\ loaded.route # None => current.route # None

HoldsRow(q) ==
  q.pc \in {"refining", "routed", "assigning", "reporting", "overseeing", "sharing"}

\* The id of a plan that is still being built belongs to one request, which
\* holds an unshared draft.
Claimed(q) == q.pc \in {"creating", "planning"}

ClaimsHold ==
  \A r \in Requests :
    Claimed(req[r]) =>
      /\ trips[req[r].trip].status = "unborn"
      /\ req[r].snap.status = "draft"
      /\ req[r].snap.token = None
      /\ \A p \in Requests \ {r} : req[p].trip # req[r].trip

RowsFine ==
  \A t \in Trips :
    /\ Stored(t) => RowFine(trips[t])
    /\ trips[t].status = "unborn" => trips[t].vehicle = None

LoadedRowsFollow ==
  \A r \in Requests :
    HoldsRow(req[r]) /\ Stored(req[r].trip) =>
      Follows(trips[req[r].trip], req[r].snap)

\* The inductive invariant behind NeverDraft, RefinedHasRoute and
\* CompletedIsRecorded.
LifecycleInv == ClaimsHold /\ RowsFine /\ LoadedRowsFollow /\ CompletedIsRecorded

\* The inductive invariant behind LinksImplemented: a token was drawn before a
\* row can hold it, and no two rows hold the same one.
TokensHold ==
  /\ \A t \in Trips : trips[t].token \in issued \cup {None}
  /\ \A t, u \in Trips :
       trips[t].token = trips[u].token /\ trips[t].token # None => t = u

\* Requests that run one at a time, as a single dispatcher's do ...
OneAtATime == \A r, p \in Requests : r = p

\* ... and to their end, on vehicles that stay.
Serial == OneAtATime /\ ~Faults /\ Retirable = {}

\* What a lone request read of its shipment's status still holds when it writes
\* it: the inductive invariant behind OnlyPlanReopens.
ReadsHold ==
  \A r \in Requests :
    LET status == planning[req[r].snap.shipment] IN
    /\ req[r].pc \in {"marking", "plan_marking"} => status \in {"unplanned", "gone"}
    /\ \/ req[r].pc = "deleting" /\ req[r].seen = "planned"
       \/ req[r].pc = "deleted" /\ req[r].seen = "last_trip"
       => status \in {"planned", "gone"}

Planned(s) == planning[s] = "planned"

AboutToMark(q) == q.pc \in {"created", "planned", "marking", "plan_marking"}

\* What a request knows of the shipment it plans: its trip is there, and what
\* it read of the shipment's status still holds.
PlannerAgrees(q) ==
  LET s == q.snap.shipment IN
  /\ AboutToMark(q) \/ q.pc = "forcing" =>
       planning[s] = "gone" \/ q.trip \in TripsOf(s)
  /\ q.pc \in {"marking", "plan_marking"} => planning[s] \in {"unplanned", "gone"}
  /\ q.pc = "forcing" => planning[s] # "unplanned"

\* And of the shipment whose trip it deletes: whether that is the last one.
DeleterAgrees(q) ==
  LET s == q.snap.shipment
      current == s \in Shipments /\ Planned(s)
  IN
  /\ q.pc \in {"deleting", "deleted"} => trips[q.trip].shipment \in {s, None}
  /\ q.pc = "deleting" =>
       /\ current => q.seen = "planned"
       /\ q.seen = "planned" => planning[s] \in {"planned", "gone"}
  /\ q.pc = "deleted" =>
       /\ current => (q.seen = "last_trip" <=> Others(q.trip, s) = {})
       /\ q.seen = "last_trip" =>
            planning[s] \in {"planned", "gone"} /\ Others(q.trip, s) = {}

\* The inductive invariant behind QueueAgreesWithTrips.
QueueInv ==
  /\ \A s \in Shipments \ corrected :
       /\ Planned(s) => TripsOf(s) # {}
       /\ planning[s] = "unplanned" /\ TripsOf(s) # {} =>
            \E r \in Requests : AboutToMark(req[r]) /\ req[r].snap.shipment = s
  /\ \A r \in Requests : PlannerAgrees(req[r]) /\ DeleterAgrees(req[r])
=============================================================================
