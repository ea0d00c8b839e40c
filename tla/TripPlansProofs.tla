--------------------------- MODULE TripPlansProofs ---------------------------
(***************************************************************************)
(* Proofs about TripPlans for every number of trips, shipments, vehicles,  *)
(* tokens and requests in flight.                                          *)
(***************************************************************************)
EXTENDS TripPlans, TLAPS

-----------------------------------------------------------------------------
(* Rows and requests keep their types *)

LEMMA EmptyRowType ==
  ASSUME NEW status \in TripPlanStatus \cup {"unborn", "deleted"}
  PROVE  EmptyRow(status) \in Row
BY DEF EmptyRow, Row

\* A commit merges two rows column by column.
LEMMA FlushType ==
  ASSUME NEW current \in Row, NEW loaded \in Row, NEW assigned \in Row
  PROVE  Flush(current, loaded, assigned) \in Row
BY DEF Flush, Net, Row

LEMMA RowEdits ==
  ASSUME NEW row \in Row
  PROVE  /\ \A g \in Routes : Refined(row, g) \in Row
         /\ \A e \in Errors : RefineFailed(row, e) \in Row
         /\ \A d \in Drivers : Assigned(row, d) \in Row
         /\ Unassigned(row) \in Row
         /\ \A status \in TripPlanStatus : [row EXCEPT !.status = status] \in Row
         /\ \A k \in Tokens \cup {None} : [row EXCEPT !.token = k] \in Row
<1>1. \A g \in Routes : Refined(row, g) \in Row
  BY DEF Refined, Row, TripPlanStatus
<1>2. \A e \in Errors : RefineFailed(row, e) \in Row
  BY DEF RefineFailed, Row, TripPlanStatus
<1>3. \A d \in Drivers : Assigned(row, d) \in Row
  BY DEF Assigned, Row, TripPlanStatus
<1>4. Unassigned(row) \in Row
  BY DEF Unassigned, UnassignedStatus, Row, TripPlanStatus
<1>5. \A status \in TripPlanStatus : [row EXCEPT !.status = status] \in Row
  BY DEF Row
<1>6. \A k \in Tokens \cup {None} : [row EXCEPT !.token = k] \in Row
  BY DEF Row
<1> QED BY <1>1, <1>2, <1>3, <1>4, <1>5, <1>6

\* The part of TypeOK about requests.
RequestsOK ==
  /\ req \in [Requests -> RequestRecord]
  /\ \A r \in Requests :
       /\ req[r].pc # "idle" => req[r].trip \in Trips
       /\ HoldsShipment(req[r]) => req[r].snap.shipment \in Shipments

LEMMA IdleType ==
  /\ Idle \in RequestRecord
  /\ Idle.pc = "idle"
  /\ ~HoldsShipment(Idle)
BY EmptyRowType DEF Idle, RequestRecord, Steps, Seen, HoldsShipment

LEMMA EndType ==
  ASSUME RequestsOK, NEW r \in Requests, End(r)
  PROVE  RequestsOK'
<1>1. req' = [req EXCEPT ![r] = Idle]
  BY DEF End
<1> QED BY <1>1, IdleType DEF RequestsOK

LEMMA StartType ==
  ASSUME RequestsOK, NEW r \in Requests, NEW pc \in Steps, NEW t \in Trips,
         NEW snap \in Row, NEW seen \in Seen,
         HoldsShipment([pc |-> pc, trip |-> t, snap |-> snap, seen |-> seen])
           => snap.shipment \in Shipments,
         Start(r, pc, t, snap, seen)
  PROVE  RequestsOK'
<1> DEFINE q == [pc |-> pc, trip |-> t, snap |-> snap, seen |-> seen]
<1>1. req' = [req EXCEPT ![r] = q]
  BY DEF Start
<1>2. q \in RequestRecord /\ q.trip \in Trips /\ q.snap = snap
  BY DEF RequestRecord
<1>3. HoldsShipment(q) => q.snap.shipment \in Shipments
  BY <1>2
<1> HIDE DEF q
<1> QED BY <1>1, <1>2, <1>3 DEF RequestsOK

\* A request that moves on keeps its trip, so it only has to show that it has
\* a shipment where its next step needs one.
LEMMA GotoType ==
  ASSUME RequestsOK, NEW r \in Requests, NEW pc \in Steps,
         req[r].pc # "idle", req[r].snap.shipment \in Shipments,
         Goto(r, pc)
  PROVE  RequestsOK'
<1>1. req' = [req EXCEPT ![r].pc = pc]
  BY DEF Goto
<1> QED BY <1>1 DEF RequestsOK, RequestRecord

LEMMA CommitType ==
  ASSUME TypeOK, NEW r \in Requests, NEW assigned \in Row,
         req[r].pc # "idle", Commit(r, assigned)
  PROVE  trips' \in [Trips -> Row] /\ RequestsOK'
<1> DEFINE t == req[r].trip
<1>1. t \in Trips /\ trips[t] \in Row /\ req[r].snap \in Row
  BY DEF TypeOK, RequestRecord
<1>2. Flush(trips[t], req[r].snap, assigned) \in Row
  BY <1>1, FlushType
<1>3. trips' = [trips EXCEPT ![t] = Flush(trips[t], req[r].snap, assigned)]
  BY DEF Commit
<1>4. trips' \in [Trips -> Row]
  BY <1>1, <1>2, <1>3 DEF TypeOK
<1>5. RequestsOK /\ End(r)
  BY DEF TypeOK, RequestsOK, Commit
<1> QED BY <1>4, <1>5, EndType

-----------------------------------------------------------------------------
(* Type correctness *)

LEMMA InitType == Init => TypeOK
<1> SUFFICES ASSUME Init PROVE TypeOK
  OBVIOUS
<1>1. trips \in [Trips -> Row]
  <2>1. PICK v \in Vehicles, g \in Routes : trips = [t \in Trips |-> InitialRow(t, v, g)]
    BY DEF Init
  <2>2. ASSUME NEW t \in Trips PROVE InitialRow(t, v, g) \in Row
    <3>1. EmptyRow("completed") \in Row /\ EmptyRow("unborn") \in Row
      BY EmptyRowType DEF TripPlanStatus
    <3> QED BY <3>1 DEF InitialRow, Row
  <2> QED BY <2>1, <2>2
<1>2. \A r \in Requests : req[r] = Idle
  BY DEF Init
<1>3. req \in [Requests -> RequestRecord]
  BY IdleType DEF Init
<1> QED
  BY <1>1, <1>2, <1>3, IdleType DEF Init, TypeOK, PlanningStatus

\* Every handler starts from a row that is stored or, for a new trip, from a
\* draft it builds in memory.
LEMMA BeginType ==
  ASSUME TypeOK, NEW r \in Requests, NEW t \in Trips, Begin(r, t)
  PROVE  TypeOK'
<1>1. RequestsOK /\ trips[t] \in Row
  BY DEF TypeOK, RequestsOK
<1>2. /\ Steps = {"idle", "creating", "planning", "created", "planned", "marking",
                  "plan_marking", "forcing", "refining", "routed", "assigning",
                  "reporting", "overseeing", "sharing", "deleting", "deleted"}
      /\ {"nothing", "gone", "reading"} \subseteq Seen
      /\ PlanningStatus \subseteq Seen
  BY DEF Steps, Seen
<1>3. ASSUME NEW v \in fleet, NEW s \in Shipments \cup {None}
      PROVE  [EmptyRow("draft") EXCEPT !.vehicle = v, !.shipment = s] \in Row
  <2>1. v \in Vehicles
    BY DEF TypeOK
  <2>2. EmptyRow("draft") \in Row
    BY EmptyRowType DEF TripPlanStatus
  <2> QED BY <2>1, <2>2 DEF Row
<1>4. UNCHANGED <<trips, planning, corrected, fleet, recorded, issued>> /\ RequestsOK'
  <2>1. CASE CreateStart(r, t)
    BY <2>1, <1>1, <1>2, <1>3, StartType DEF CreateStart, HoldsShipment
  <2>2. CASE PlanStart(r, t)
    BY <2>2, <1>1, <1>2, <1>3, StartType DEF PlanStart, HoldsShipment
  <2>3. CASE RefineStart(r, t)
    BY <2>3, <1>1, <1>2, StartType DEF RefineStart, HoldsShipment
  <2>4. CASE AssignStart(r, t)
    BY <2>4, <1>1, <1>2, StartType DEF AssignStart, HoldsShipment
  <2>5. CASE StatusStart(r, t)
    BY <2>5, <1>1, <1>2, StartType DEF StatusStart, HoldsShipment
  <2>6. CASE ShareStart(r, t)
    BY <2>6, <1>1, <1>2, StartType DEF ShareStart, HoldsShipment
  <2>7. CASE DeleteStart(r, t)
    <3> DEFINE s == trips[t].shipment
               seen == IF s = None THEN "gone" ELSE planning[s]
    <3>1. s \in Shipments \cup {None}
      BY <1>1 DEF Row
    <3>2. seen \in Seen /\ (seen = "planned" => s \in Shipments) /\ seen # "last_trip"
      BY <3>1, <1>2 DEF TypeOK, PlanningStatus
    <3>3. Start(r, "deleting", t, trips[t], seen)
      BY <2>7 DEF DeleteStart
    <3> HIDE DEF seen
    <3>4. RequestsOK'
      BY <3>2, <3>3, <1>1, <1>2, StartType DEF HoldsShipment
    <3> QED BY <3>4, <2>7 DEF DeleteStart
  <2> QED
    BY <2>1, <2>2, <2>3, <2>4, <2>5, <2>6, <2>7 DEF Begin
<1> QED
  BY <1>4 DEF TypeOK, RequestsOK

\* The handlers that write a trip, and what is left of the state around it.
LEMMA TripWriteType ==
  ASSUME TypeOK, NEW r \in Requests,
         \/ CreateStore(r) \/ RefineStore(r) \/ RefineError(r) \/ AssignStore(r)
         \/ StatusStore(r) \/ ShareStore(r) \/ DeleteCommit(r)
  PROVE  TypeOK'
<1> DEFINE q == req[r]
<1>1. RequestsOK /\ q \in RequestRecord /\ q.snap \in Row
  BY DEF TypeOK, RequestsOK, RequestRecord
<1>2. q.pc # "idle" => q.trip \in Trips
  BY DEF TypeOK
<1>3. CASE CreateStore(r)
  <2>1. q.trip \in Trips
    BY <1>2, <1>3 DEF CreateStore
  <2>2. \E row \in Row : trips' = [trips EXCEPT ![q.trip] = row]
    BY <1>1, <1>3, RowEdits DEF CreateStore
  <2>3. trips' \in [Trips -> Row]
    BY <2>1, <2>2 DEF TypeOK
  <2>4. CASE CarriesShipment(q.snap)
    <3>1. q.snap.shipment \in Shipments
      BY <1>1, <2>4 DEF CarriesShipment, Row
    <3>2. \E pc \in {"created", "planned"} : Goto(r, pc)
      BY <1>3, <2>4 DEF CreateStore
    <3>3. q.pc # "idle"
      BY <1>3 DEF CreateStore
    <3>4. RequestsOK'
      BY <1>1, <3>1, <3>2, <3>3, GotoType DEF Steps
    <3> QED BY <2>3, <3>4, <1>3 DEF TypeOK, RequestsOK, CreateStore
  <2>5. CASE ~CarriesShipment(q.snap)
    <3>1. RequestsOK'
      BY <1>1, <1>3, <2>5, EndType DEF CreateStore
    <3> QED BY <2>3, <3>1, <1>3 DEF TypeOK, RequestsOK, CreateStore
  <2> QED BY <2>4, <2>5
<1>4. CASE RefineStore(r)
  <2>1. PICK g \in Routes : Commit(r, Refined(q.snap, g))
    BY <1>4 DEF RefineStore
  <2>2. trips' \in [Trips -> Row] /\ RequestsOK'
    BY <2>1, <1>1, <1>4, CommitType, RowEdits DEF RefineStore
  <2> QED BY <2>2, <1>4 DEF TypeOK, RequestsOK, RefineStore
<1>5. CASE RefineError(r)
  <2>1. PICK e \in Errors : Commit(r, RefineFailed(q.snap, e))
    BY <1>5 DEF RefineError
  <2>2. trips' \in [Trips -> Row] /\ RequestsOK'
    BY <2>1, <1>1, <1>5, CommitType, RowEdits DEF RefineError
  <2> QED BY <2>2, <1>5 DEF TypeOK, RequestsOK, RefineError
<1>6. CASE AssignStore(r)
  <2>1. PICK row \in Row : Commit(r, row)
    BY <1>1, <1>6, RowEdits DEF AssignStore
  <2>2. trips' \in [Trips -> Row] /\ RequestsOK'
    BY <2>1, <1>6, CommitType DEF AssignStore
  <2> QED BY <2>2, <1>6 DEF TypeOK, RequestsOK, AssignStore
<1>7. CASE StatusStore(r)
  <2>1. PICK status \in Allowed(q.pc) : Commit(r, [q.snap EXCEPT !.status = status])
    BY <1>7 DEF StatusStore
  <2>2. status \in TripPlanStatus
    BY <2>1 DEF Allowed, DRIVER_STATUSES, DISPATCHER_STATUSES, TripPlanStatus
  <2>3. [q.snap EXCEPT !.status = status] \in Row
    BY <1>1, <2>2, RowEdits
  <2>4. trips' \in [Trips -> Row] /\ RequestsOK'
    BY <2>1, <2>3, <1>7, CommitType DEF StatusStore
  <2>5. recorded' \subseteq Trips
    BY <1>2, <1>7 DEF StatusStore, TypeOK
  <2>6. /\ planning' \in [Shipments -> PlanningStatus \cup {"gone"}]
        /\ corrected' \subseteq Shipments
    BY <1>7 DEF StatusStore, Write, TypeOK, PlanningStatus
  <2> QED BY <2>4, <2>5, <2>6, <1>7 DEF TypeOK, RequestsOK, StatusStore
<1>8. CASE ShareStore(r)
  <2>1. CASE End(r) /\ UNCHANGED <<trips, issued>>
    <3>1. RequestsOK'
      BY <1>1, <2>1, EndType
    <3> QED BY <3>1, <2>1, <1>8 DEF TypeOK, RequestsOK, ShareStore
  <2>2. CASE ~(End(r) /\ UNCHANGED <<trips, issued>>)
    <3>1. PICK k \in Tokens \cup {None} : Commit(r, [q.snap EXCEPT !.token = k])
      BY <1>8, <2>2 DEF ShareStore, FreshTokens
    <3>2. [q.snap EXCEPT !.token = k] \in Row
      BY <1>1, RowEdits
    <3>3. trips' \in [Trips -> Row] /\ RequestsOK'
      BY <3>1, <3>2, <1>8, CommitType DEF ShareStore
    <3>4. issued' \subseteq Tokens
      BY <1>8 DEF ShareStore, TypeOK, FreshTokens
    <3> QED BY <3>3, <3>4, <1>8 DEF TypeOK, RequestsOK, ShareStore
  <2> QED BY <2>1, <2>2
<1>9. CASE DeleteCommit(r)
  <2>1. q.trip \in Trips /\ EmptyRow("deleted") \in Row
    BY <1>2, <1>9, EmptyRowType DEF DeleteCommit
  <2>2. trips' \in [Trips -> Row]
    BY <2>1, <1>9 DEF DeleteCommit, TypeOK
  <2>3. /\ planning' \in [Shipments -> PlanningStatus \cup {"gone"}]
        /\ corrected' \subseteq Shipments
    BY <1>9 DEF DeleteCommit, Write, TypeOK, PlanningStatus
  <2>4. RequestsOK'
    BY <1>1, <1>9, EndType DEF DeleteCommit
  <2> QED BY <2>2, <2>3, <2>4, <1>9 DEF TypeOK, RequestsOK, DeleteCommit
<1> QED
  BY <1>3, <1>4, <1>5, <1>6, <1>7, <1>8, <1>9

\* The handlers' other steps: reads, the shipment's own commits, and endings.
LEMMA OtherStepType ==
  ASSUME TypeOK, NEW r \in Requests,
         \/ ReadShipment(r) \/ MarkPlanned(r) \/ ForcePlanned(r)
         \/ RouteReturns(r) \/ DeleteFlush(r) \/ Rejected(r) \/ Fault(r)
  PROVE  TypeOK'
<1> DEFINE q == req[r]
<1>1. RequestsOK /\ q \in RequestRecord /\ q.snap \in Row
  BY DEF TypeOK, RequestsOK, RequestRecord
<1>2. CASE ReadShipment(r)
  <2>1. q.snap.shipment \in Shipments /\ q.pc # "idle"
    BY <1>2 DEF ReadShipment, TypeOK, HoldsShipment
  <2>2. NextAfterReading(q.pc, planning[q.snap.shipment])
          \in {"idle", "marking", "plan_marking", "forcing"}
    BY <2>1 DEF NextAfterReading, TypeOK, PlanningStatus
  <2>3. RequestsOK'
    <3> DEFINE next == NextAfterReading(q.pc, planning[q.snap.shipment])
    <3>1. CASE next = "idle"
      BY <3>1, <1>1, <1>2, EndType DEF ReadShipment
    <3>2. CASE next # "idle"
      <4>1. Goto(r, next) /\ next \in Steps
        BY <3>2, <2>2, <1>2 DEF ReadShipment, Steps
      <4> HIDE DEF next
      <4> QED BY <4>1, <1>1, <2>1, GotoType
    <3> QED BY <3>1, <3>2
  <2> QED BY <2>3, <1>2 DEF TypeOK, RequestsOK, ReadShipment
<1>3. CASE MarkPlanned(r) \/ ForcePlanned(r)
  <2>1. q.snap.shipment \in Shipments /\ q.pc # "idle"
    BY <1>3 DEF MarkPlanned, ForcePlanned, TypeOK, HoldsShipment
  <2>2. End(r) \/ Goto(r, "forcing")
    BY <1>3 DEF MarkPlanned, ForcePlanned
  <2>3. RequestsOK'
    BY <2>1, <2>2, <1>1, EndType, GotoType DEF Steps
  <2>4. /\ planning' \in [Shipments -> PlanningStatus \cup {"gone"}]
        /\ corrected' \subseteq Shipments
    BY <1>3 DEF MarkPlanned, ForcePlanned, Write, TypeOK, PlanningStatus
  <2> QED BY <2>3, <2>4, <1>3 DEF TypeOK, RequestsOK, MarkPlanned, ForcePlanned
<1>4. CASE RouteReturns(r)
  <2>1. q.pc = "refining" /\ q.trip \in Trips
    BY <1>4 DEF RouteReturns, TypeOK
  <2>2. PICK row \in Row :
          req' = [req EXCEPT ![r] = [q EXCEPT !.pc = "routed", !.snap = row]]
    BY <2>1, <1>1, <1>4 DEF RouteReturns, Goto, TypeOK, RequestRecord
  <2>3. [q EXCEPT !.pc = "routed", !.snap = row] \in RequestRecord
    BY <1>1 DEF RequestRecord, Steps
  <2>4. ~HoldsShipment([q EXCEPT !.pc = "routed", !.snap = row])
    BY <1>1 DEF HoldsShipment, RequestRecord
  <2>5. RequestsOK'
    BY <2>1, <2>2, <2>3, <2>4, <1>1 DEF RequestsOK, RequestRecord
  <2> QED BY <2>5, <1>4 DEF TypeOK, RequestsOK, RouteReturns
<1>5. CASE DeleteFlush(r)
  <2>1. q.pc = "deleting" /\ q.trip \in Trips
    BY <1>5 DEF DeleteFlush, TypeOK
  <2>2. PICK seen \in {"last_trip", "nothing"} :
          /\ seen = "last_trip" => q.seen = "planned"
          /\ req' = [req EXCEPT ![r] = [q EXCEPT !.pc = "deleted", !.seen = seen]]
    BY <2>1, <1>1, <1>5 DEF DeleteFlush, TypeOK, RequestRecord
  <2>3. [q EXCEPT !.pc = "deleted", !.seen = seen] \in RequestRecord
    BY <1>1, <2>2 DEF RequestRecord, Steps, Seen
  <2>4. seen = "last_trip" => q.snap.shipment \in Shipments
    BY <2>1, <2>2 DEF TypeOK, HoldsShipment
  <2>5. RequestsOK'
    BY <2>1, <2>2, <2>3, <2>4, <1>1 DEF RequestsOK, RequestRecord, HoldsShipment
  <2> QED BY <2>5, <1>5 DEF TypeOK, RequestsOK, DeleteFlush
<1>6. CASE Rejected(r) \/ Fault(r)
  <2>1. RequestsOK'
    BY <1>1, <1>6, EndType DEF Rejected, Fault
  <2> QED BY <2>1, <1>6 DEF TypeOK, RequestsOK, Rejected, Fault
<1> QED
  BY <1>2, <1>3, <1>4, <1>5, <1>6

\* Corrections of a shipment, and deletions that reach trips through foreign keys.
LEMMA CascadeType ==
  ASSUME TypeOK,
         \/ \E r \in Requests, s \in Shipments : UpdateShipment(r, s)
         \/ \E s \in Shipments : DeleteShipment(s)
         \/ \E v \in Vehicles : DeleteVehicle(v)
  PROVE  TypeOK'
<1>1. CASE \E s \in Shipments : DeleteShipment(s)
  <2>1. PICK s \in Shipments : DeleteShipment(s)
    BY <1>1
  <2>2. trips' \in [Trips -> Row]
    BY <2>1 DEF DeleteShipment, TypeOK, Row
  <2>3. planning' \in [Shipments -> PlanningStatus \cup {"gone"}]
    BY <2>1 DEF DeleteShipment, TypeOK
  <2> QED BY <2>1, <2>2, <2>3 DEF DeleteShipment, TypeOK
<1>2. CASE \E v \in Vehicles : DeleteVehicle(v)
  <2>1. PICK v \in Vehicles : DeleteVehicle(v)
    BY <1>2
  <2>2. EmptyRow("deleted") \in Row
    BY EmptyRowType
  <2>3. trips' \in [Trips -> Row]
    BY <2>1, <2>2 DEF DeleteVehicle, TypeOK
  <2> QED BY <2>1, <2>3 DEF DeleteVehicle, TypeOK
<1>3. CASE \E r \in Requests, s \in Shipments : UpdateShipment(r, s)
  <2>1. PICK r \in Requests, s \in Shipments : UpdateShipment(r, s)
    BY <1>3
  <2>2. planning' \in [Shipments -> PlanningStatus \cup {"gone"}]
    BY <2>1 DEF UpdateShipment, TypeOK
  <2> QED BY <2>1, <2>2 DEF UpdateShipment, TypeOK
<1> QED BY <1>1, <1>2, <1>3

LEMMA StepType == TypeOK /\ [Next]_vars => TypeOK'
<1> SUFFICES ASSUME TypeOK, [Next]_vars PROVE TypeOK'
  OBVIOUS
<1>1. CASE \E r \in Requests, t \in Trips : Begin(r, t)
  BY <1>1, BeginType
<1>2. CASE \E r \in Requests : Continue(r) \/ Fault(r)
  BY <1>2, TripWriteType, OtherStepType DEF Continue
<1>3. CASE \/ \E r \in Requests, s \in Shipments : UpdateShipment(r, s)
           \/ \E s \in Shipments : DeleteShipment(s)
           \/ \E v \in Vehicles : DeleteVehicle(v)
  BY <1>3, CascadeType
<1>4. CASE UNCHANGED vars
  BY <1>4 DEF vars, TypeOK
<1> QED BY <1>1, <1>2, <1>3, <1>4 DEF Next

\* Whatever requests are in flight, every row and every request keeps its type,
\* and a request that still has to write a shipment's status has a shipment.
THEOREM TypeCorrect == Spec => []TypeOK
BY InitType, StepType, PTL DEF Spec

-----------------------------------------------------------------------------
(* The lifecycle: no draft, no refined plan without a route, no unrecorded   *)
(* completion                                                                *)

\* What a handler may assign to a row it loaded, however old the row is.
Sound(loaded, assigned) ==
  /\ assigned.route = loaded.route \/ assigned.route # None
  /\ \/ assigned.error = loaded.error
     \/ assigned.error # None
     \/ assigned.route # None
  /\ \/ assigned.status = loaded.status
     \/ /\ assigned.status \in TripPlanStatus \ {"draft"}
        /\ assigned.status = "refined" => assigned.route # None

\* A sound assignment to an outdated row leaves the current row fine, because
\* the flush leaves alone what the handler did not change.
LEMMA FlushFine ==
  ASSUME NEW current \in Row, NEW loaded \in Row, NEW assigned \in Row,
         current.status \in TripPlanStatus, RowFine(current),
         Follows(current, loaded), Sound(loaded, assigned)
  PROVE  LET row == Flush(current, loaded, assigned) IN
         /\ row.status \in TripPlanStatus
         /\ RowFine(row)
         /\ current.route # None => row.route # None
         /\ row.status = "completed" =>
              \/ current.status = "completed"
              \/ assigned.status = "completed" /\ loaded.status # "completed"
<1> DEFINE row == Flush(current, loaded, assigned)
<1>1. /\ row.status = IF assigned.status = loaded.status THEN current.status
                                                       ELSE assigned.status
      /\ row.route = IF assigned.route = loaded.route THEN current.route
                                                     ELSE assigned.route
      /\ row.error = IF assigned.error = loaded.error THEN current.error
                                                     ELSE assigned.error
  BY DEF Flush, Net
<1> HIDE DEF row
<1>2. current.route # None => row.route # None
  BY <1>1 DEF Sound
<1>3. assigned.route # None => row.route # None
  BY <1>1 DEF Follows
<1>4. Explained(row)
  BY <1>1, <1>2, <1>3 DEF Sound, RowFine, Explained
<1>5. row.status \in TripPlanStatus /\ row.status # "draft"
  BY <1>1 DEF Sound, RowFine
<1>6. row.status = "refined" => row.route # None
  BY <1>1, <1>2, <1>3 DEF Sound, RowFine
<1>7. row.status = "completed" =>
        \/ current.status = "completed"
        \/ assigned.status = "completed" /\ loaded.status # "completed"
  BY <1>1
<1> QED BY <1>2, <1>4, <1>5, <1>6, <1>7 DEF row, RowFine

LEMMA EditsSound ==
  ASSUME NEW loaded \in Row, Explained(loaded)
  PROVE  /\ \A g \in Routes : Sound(loaded, Refined(loaded, g))
         /\ \A e \in Errors : Sound(loaded, RefineFailed(loaded, e))
         /\ \A d \in Drivers : Sound(loaded, Assigned(loaded, d))
         /\ Sound(loaded, Unassigned(loaded))
         /\ \A status \in DISPATCHER_STATUSES :
              Sound(loaded, [loaded EXCEPT !.status = status])
         /\ \A k \in Tokens \cup {None} : Sound(loaded, [loaded EXCEPT !.token = k])
<1>0. None \notin Routes \cup Errors
  BY TripPlansAssumption DEF TripPlansAssumption
<1>1. \A g \in Routes : Sound(loaded, Refined(loaded, g))
  BY <1>0 DEF Sound, Refined, Row, TripPlanStatus
<1>2. \A e \in Errors : Sound(loaded, RefineFailed(loaded, e))
  BY <1>0 DEF Sound, RefineFailed, Row, TripPlanStatus
<1>3. \A d \in Drivers : Sound(loaded, Assigned(loaded, d))
  BY DEF Sound, Assigned, Row, TripPlanStatus
<1>4. Sound(loaded, Unassigned(loaded))
  BY DEF Sound, Unassigned, UnassignedStatus, Explained, Row, TripPlanStatus
<1>5. \A status \in DISPATCHER_STATUSES :
        Sound(loaded, [loaded EXCEPT !.status = status])
  BY DEF Sound, DISPATCHER_STATUSES, Row, TripPlanStatus
<1>6. \A k \in Tokens \cup {None} : Sound(loaded, [loaded EXCEPT !.token = k])
  BY DEF Sound, Row
<1> QED BY <1>1, <1>2, <1>3, <1>4, <1>5, <1>6

\* The parts of LifecycleInv about rows and requests.
Lifecycle == ClaimsHold /\ RowsFine /\ LoadedRowsFollow

LEMMA IdleHoldsNothing ==
  ~HoldsRow(Idle) /\ ~Claimed(Idle) /\ Idle.trip = None
BY DEF Idle, HoldsRow, Claimed

\* A step that leaves the table alone and ends the request, or moves it to a
\* step that neither holds a loaded row nor claims an id.
LEMMA QuietStep ==
  ASSUME TypeOK, Lifecycle, NEW r \in Requests, NEW q \in RequestRecord,
         q.trip \in {req[r].trip, None}, ~HoldsRow(q), ~Claimed(q),
         req' = [req EXCEPT ![r] = q], UNCHANGED trips
  PROVE  Lifecycle'
<1>1. \A p \in Requests : req'[p] = IF p = r THEN q ELSE req[p]
  BY DEF TypeOK
<1>2. None \notin Trips
  BY TripPlansAssumption DEF TripPlansAssumption
<1>3. \A p \in Requests : Claimed(req[p]) => req[p].trip \in Trips
  BY DEF TypeOK, Claimed
<1>4. ClaimsHold'
  BY <1>1, <1>2, <1>3 DEF Lifecycle, ClaimsHold
<1>5. RowsFine'
  BY DEF Lifecycle, RowsFine, Stored, RowFine, Explained
<1>6. LoadedRowsFollow'
  BY <1>1 DEF Lifecycle, LoadedRowsFollow, Stored, Follows
<1> QED BY <1>4, <1>5, <1>6 DEF Lifecycle

\* A handler loads a stored row.
LEMMA LoadStep ==
  ASSUME TypeOK, Lifecycle, NEW r \in Requests, NEW t \in Trips, Stored(t),
         NEW pc \in Steps \ {"creating", "planning"}, NEW seen,
         Start(r, pc, t, trips[t], seen), UNCHANGED trips
  PROVE  Lifecycle'
<1> DEFINE q == [pc |-> pc, trip |-> t, snap |-> trips[t], seen |-> seen]
<1>1. \A p \in Requests : req'[p] = IF p = r THEN q ELSE req[p]
  BY DEF TypeOK, Start
<1>2. ~Claimed(q) /\ q.trip = t /\ q.snap = trips[t]
  BY DEF Claimed
<1>3. trips[t].status # "unborn"
  BY DEF Stored, TripPlanStatus
<1> HIDE DEF q
<1>4. ClaimsHold'
  BY <1>1, <1>2, <1>3 DEF Lifecycle, ClaimsHold
<1>5. RowsFine'
  BY DEF Lifecycle, RowsFine, Stored, RowFine, Explained
<1>6. Follows(trips[t], trips[t])
  BY DEF Lifecycle, RowsFine, RowFine, Follows
<1>7. LoadedRowsFollow'
  BY <1>1, <1>2, <1>6 DEF Lifecycle, LoadedRowsFollow, Stored, Follows
<1> QED BY <1>4, <1>5, <1>7 DEF Lifecycle

\* A new plan claims an id nobody has heard of.
LEMMA ClaimStep ==
  ASSUME TypeOK, Lifecycle, NEW r \in Requests, NEW t \in Trips, Unclaimed(t),
         NEW pc \in {"creating", "planning"}, NEW v, NEW s, NEW seen,
         Start(r, pc, t, [EmptyRow("draft") EXCEPT !.vehicle = v, !.shipment = s], seen),
         UNCHANGED trips
  PROVE  Lifecycle'
<1> DEFINE snap == [EmptyRow("draft") EXCEPT !.vehicle = v, !.shipment = s]
           q == [pc |-> pc, trip |-> t, snap |-> snap, seen |-> seen]
<1>1. \A p \in Requests : req'[p] = IF p = r THEN q ELSE req[p]
  BY DEF TypeOK, Start
<1>2. ~HoldsRow(q) /\ q.trip = t /\ q.snap.status = "draft" /\ q.snap.token = None
  BY DEF HoldsRow, EmptyRow
<1>3. trips[t].status = "unborn" /\ \A p \in Requests : req[p].trip # t
  BY DEF Unclaimed
<1> HIDE DEF q
<1>4. ClaimsHold'
  BY <1>1, <1>2, <1>3 DEF Lifecycle, ClaimsHold
<1>5. RowsFine'
  BY DEF Lifecycle, RowsFine, Stored, RowFine, Explained
<1>6. LoadedRowsFollow'
  BY <1>1, <1>2 DEF Lifecycle, LoadedRowsFollow, Stored, Follows
<1> QED BY <1>4, <1>5, <1>6 DEF Lifecycle

\* A handler commits what it assigned to the row it loaded.
LEMMA CommitStep ==
  ASSUME TypeOK, Lifecycle, NEW r \in Requests, NEW assigned \in Row,
         HoldsRow(req[r]), Sound(req[r].snap, assigned), Commit(r, assigned)
  PROVE  /\ Lifecycle'
         /\ \A t \in Trips : trips'[t].status = "completed" =>
              \/ trips[t].status = "completed"
              \/ /\ t = req[r].trip
                 /\ assigned.status = "completed"
                 /\ req[r].snap.status # "completed"
<1> DEFINE t == req[r].trip
           row == Flush(trips[t], req[r].snap, assigned)
<1>1. t \in Trips /\ trips[t] \in Row /\ req[r].snap \in Row /\ Stored(t)
  BY DEF TypeOK, HoldsRow, RequestRecord, Commit
<1>2. RowFine(trips[t]) /\ Follows(trips[t], req[r].snap)
  BY <1>1 DEF Lifecycle, RowsFine, LoadedRowsFollow
<1>3. /\ row.status \in TripPlanStatus
      /\ RowFine(row)
      /\ trips[t].route # None => row.route # None
      /\ row.status = "completed" =>
           \/ trips[t].status = "completed"
           \/ assigned.status = "completed" /\ req[r].snap.status # "completed"
  BY <1>1, <1>2, FlushFine DEF Stored
<1>4. \A u \in Trips : trips'[u] = IF u = t THEN row ELSE trips[u]
  BY <1>1 DEF Commit, TypeOK
<1>5. \A p \in Requests : req'[p] = IF p = r THEN Idle ELSE req[p]
  BY DEF Commit, End, TypeOK
<1> HIDE DEF row
<1>6. trips[t].status # "unborn"
  BY <1>1 DEF Stored, TripPlanStatus
<1>7. \A p \in Requests : Claimed(req[p]) => req[p].trip \in Trips
  BY DEF TypeOK, Claimed
<1>8. None \notin Trips
  BY TripPlansAssumption DEF TripPlansAssumption
<1>9. ClaimsHold'
  BY <1>4, <1>5, <1>6, <1>7, <1>8, IdleHoldsNothing DEF Lifecycle, ClaimsHold
<1>10. RowsFine'
  BY <1>3, <1>4 DEF Lifecycle, RowsFine, Stored, RowFine, Explained, TripPlanStatus
<1>11. LoadedRowsFollow'
  <2> SUFFICES ASSUME NEW p \in Requests, HoldsRow(req[p])', Stored(req[p].trip)'
               PROVE  Follows(trips[req[p].trip], req[p].snap)'
    BY DEF LoadedRowsFollow
  <2>1. p # r /\ req'[p] = req[p] /\ HoldsRow(req[p])
    BY <1>5, IdleHoldsNothing DEF HoldsRow
  <2>2. req[p].trip \in Trips
    BY <2>1 DEF TypeOK, HoldsRow
  <2>3. Stored(req[p].trip)
    BY <2>1, <2>2, <1>1, <1>4 DEF Stored
  <2>4. Follows(trips[req[p].trip], req[p].snap)
    BY <2>1, <2>3 DEF Lifecycle, LoadedRowsFollow
  <2> QED BY <2>1, <2>2, <2>4, <1>3, <1>4 DEF Follows
<1> QED BY <1>3, <1>4, <1>9, <1>10, <1>11 DEF Lifecycle

\* Rows are deleted, or lose their shipment; no request learns of it.
LEMMA EraseStep ==
  ASSUME TypeOK, Lifecycle,
         trips' \in [Trips -> Row],
         \A u \in Trips :
           \/ /\ trips'[u].status = trips[u].status
              /\ trips'[u].route = trips[u].route
              /\ trips'[u].error = trips[u].error
              /\ trips'[u].vehicle = trips[u].vehicle
           \/ /\ trips'[u] = EmptyRow("deleted")
              /\ \A p \in Requests : Claimed(req[p]) => req[p].trip # u,
         \A p \in Requests : req'[p] \in {req[p], Idle}
  PROVE  Lifecycle'
<1>1. \A u \in Trips : EmptyRow("deleted") = trips'[u] => trips'[u].status = "deleted"
  BY DEF EmptyRow
<1>2. \A p \in Requests : HoldsRow(req[p]) \/ Claimed(req[p]) => req[p].trip \in Trips
  BY DEF TypeOK, HoldsRow, Claimed
<1>3. None \notin Trips
  BY TripPlansAssumption DEF TripPlansAssumption
<1>4. ClaimsHold'
  BY <1>2, <1>3, IdleHoldsNothing DEF Lifecycle, ClaimsHold
<1>5. RowsFine'
  BY <1>1 DEF Lifecycle, RowsFine, Stored, RowFine, Explained, TripPlanStatus
<1>6. LoadedRowsFollow'
  BY <1>1, <1>2, IdleHoldsNothing
     DEF Lifecycle, LoadedRowsFollow, Stored, Follows, TripPlanStatus
<1> QED BY <1>4, <1>5, <1>6 DEF Lifecycle

\* The row of a new plan is inserted: nobody else knows its id yet.
LEMMA InsertStep ==
  ASSUME TypeOK, Lifecycle, NEW r \in Requests, CreateStore(r)
  PROVE  /\ Lifecycle'
         /\ \A t \in Trips : trips'[t].status = "completed" => trips'[t] = trips[t]
<1> DEFINE t == req[r].trip
           snap == req[r].snap
<1>1. Claimed(req[r]) /\ t \in Trips /\ snap \in Row
  BY DEF CreateStore, Claimed, TypeOK, RequestRecord
<1>2. /\ snap.status = "draft"
      /\ \A p \in Requests \ {r} : req[p].trip # t
  BY <1>1 DEF Lifecycle, ClaimsHold
<1>3. None \notin Routes \cup Errors \cup Trips
  BY TripPlansAssumption DEF TripPlansAssumption
<1>4. PICK row \in Row :
        /\ trips' = [trips EXCEPT ![t] = row]
        /\ RowFine(row)
        /\ row.status \in {"refined", "refine_failed"}
  <2>1. ASSUME NEW g \in Routes
        PROVE  /\ Refined(snap, g) \in Row
               /\ RowFine(Refined(snap, g))
               /\ Refined(snap, g).status = "refined"
    <3>1. Refined(snap, g) \in Row
      BY <1>1, RowEdits
    <3>2. Refined(snap, g).status = "refined" /\ Refined(snap, g).route = g
      BY <1>1, <1>2 DEF Refined, Row
    <3> QED BY <3>1, <3>2, <1>3 DEF RowFine, Explained
  <2>2. ASSUME NEW e \in Errors
        PROVE  /\ RefineFailed(snap, e) \in Row
               /\ RowFine(RefineFailed(snap, e))
               /\ RefineFailed(snap, e).status = "refine_failed"
    <3>1. RefineFailed(snap, e) \in Row
      BY <1>1, RowEdits
    <3>2. /\ RefineFailed(snap, e).status = "refine_failed"
          /\ RefineFailed(snap, e).error = e
      BY <1>1 DEF RefineFailed, Row
    <3> QED BY <3>1, <3>2, <1>3 DEF RowFine, Explained
  <2> QED BY <2>1, <2>2 DEF CreateStore
<1>5. \A u \in Trips : trips'[u] = IF u = t THEN row ELSE trips[u]
  BY <1>1, <1>4 DEF TypeOK
<1>6. PICK q \in RequestRecord :
        /\ req' = [req EXCEPT ![r] = q]
        /\ ~HoldsRow(q) /\ ~Claimed(q) /\ q.trip \in {t, None}
  <2>1. CASE End(r)
    BY <2>1, IdleHoldsNothing, IdleType DEF End
  <2>2. CASE \E pc \in {"created", "planned"} : Goto(r, pc)
    <3>1. PICK pc \in {"created", "planned"} : Goto(r, pc)
      BY <2>2
    <3>2. req[r] \in RequestRecord
      BY DEF TypeOK
    <3> DEFINE next == [req[r] EXCEPT !.pc = pc]
    <3>3. req' = [req EXCEPT ![r] = next]
      BY <3>1 DEF Goto
    <3>4. next \in RequestRecord /\ next.pc = pc /\ next.trip = t
      BY <3>1, <3>2 DEF RequestRecord, Steps
    <3>5. ~HoldsRow(next) /\ ~Claimed(next)
      BY <3>1, <3>4 DEF HoldsRow, Claimed
    <3> HIDE DEF next
    <3> QED BY <3>3, <3>4, <3>5
  <2> QED BY <2>1, <2>2 DEF CreateStore
<1>7. \A p \in Requests : req'[p] = IF p = r THEN q ELSE req[p]
  BY <1>6 DEF TypeOK
<1>8. ClaimsHold'
  <2> SUFFICES ASSUME NEW p \in Requests, Claimed(req'[p])
               PROVE  /\ trips'[req'[p].trip].status = "unborn"
                      /\ req'[p].snap.status = "draft"
                      /\ req'[p].snap.token = None
                      /\ \A o \in Requests \ {p} : req'[o].trip # req'[p].trip
    BY DEF ClaimsHold, Claimed
  <2>1. p # r /\ req'[p] = req[p]
    BY <1>6, <1>7
  <2>2. req[p].trip \in Trips /\ req[p].trip # t
    BY <1>2, <2>1 DEF TypeOK, Claimed
  <2> QED BY <2>1, <2>2, <1>3, <1>5, <1>6, <1>7 DEF Lifecycle, ClaimsHold
<1>9. RowsFine'
  BY <1>4, <1>5 DEF Lifecycle, RowsFine, Stored, RowFine, Explained
<1>10. LoadedRowsFollow'
  BY <1>2, <1>5, <1>6, <1>7 DEF Lifecycle, LoadedRowsFollow, Stored, Follows,
                               TypeOK, HoldsRow
<1> QED BY <1>4, <1>5, <1>8, <1>9, <1>10 DEF Lifecycle

LEMMA InitLifecycle == Init => Lifecycle /\ CompletedIsRecorded
<1> SUFFICES ASSUME Init PROVE Lifecycle /\ CompletedIsRecorded
  OBVIOUS
<1>1. None \notin Routes \cup Trips
  BY TripPlansAssumption DEF TripPlansAssumption
<1>2. PICK v \in Vehicles, g \in Routes : trips = [t \in Trips |-> InitialRow(t, v, g)]
  BY DEF Init
<1>3. ASSUME NEW t \in Trips
      PROVE  \/ trips[t].status = "unborn" /\ trips[t].vehicle = None
             \/ /\ trips[t].status = "completed" /\ t \in Legacy
                /\ trips[t].route # None
  BY <1>1, <1>2 DEF InitialRow, EmptyRow
<1>4. RowsFine /\ CompletedIsRecorded
  BY <1>3 DEF RowsFine, RowFine, Explained, CompletedIsRecorded, Stored, TripPlanStatus
<1>5. \A r \in Requests : req[r] = Idle
  BY DEF Init
<1> QED BY <1>4, <1>5, IdleHoldsNothing DEF Lifecycle, ClaimsHold, LoadedRowsFollow

\* The first step of a handler.
LEMMA BeginLifecycle ==
  ASSUME TypeOK, Lifecycle, NEW r \in Requests, NEW t \in Trips, Begin(r, t)
  PROVE  Lifecycle' /\ UNCHANGED <<trips, recorded>>
<1>1. UNCHANGED <<trips, recorded>>
  BY DEF Begin, CreateStart, PlanStart, RefineStart, AssignStart, StatusStart,
         ShareStart, DeleteStart
<1>2. CASE CreateStart(r, t)
  BY <1>1, <1>2, ClaimStep DEF CreateStart
<1>3. CASE PlanStart(r, t)
  BY <1>1, <1>3, ClaimStep DEF PlanStart
<1>4. CASE DeleteStart(r, t)
  BY <1>1, <1>4, LoadStep DEF DeleteStart, Steps
<1>5. CASE StatusStart(r, t)
  BY <1>1, <1>5, LoadStep DEF StatusStart, Steps
<1>6. CASE RefineStart(r, t) \/ AssignStart(r, t) \/ ShareStart(r, t)
  BY <1>1, <1>6, LoadStep DEF RefineStart, AssignStart, ShareStart, Steps
<1> QED BY <1>1, <1>2, <1>3, <1>4, <1>5, <1>6 DEF Begin

\* The commit of a handler that loaded its trip.
LEMMA WriteLifecycle ==
  ASSUME TypeOK, Lifecycle, CompletedIsRecorded, NEW r \in Requests,
         RefineStore(r) \/ RefineError(r) \/ AssignStore(r) \/ StatusStore(r)
  PROVE  Lifecycle' /\ CompletedIsRecorded'
<1> DEFINE snap == req[r].snap
<1>1. HoldsRow(req[r]) /\ snap \in Row
  BY DEF RefineStore, RefineError, AssignStore, StatusStore, HoldsRow, TypeOK, RequestRecord
<1>2. ASSUME NEW row \in Row, Commit(r, row) PROVE Explained(snap)
  BY <1>1, <1>2 DEF Commit, Lifecycle, LoadedRowsFollow, Follows
<1>3. CASE RefineStore(r)
  <2>1. PICK g \in Routes : Commit(r, Refined(snap, g))
    BY <1>3 DEF RefineStore
  <2>2. /\ Refined(snap, g) \in Row
        /\ Refined(snap, g).status = "completed" => snap.status = "completed"
    <3>1. Refined(snap, g) \in Row
      BY <1>1, RowEdits
    <3>2. Refined(snap, g).status = "completed" => snap.status = "completed"
      BY <1>1 DEF Refined, Row
    <3> QED BY <3>1, <3>2
  <2>3. Sound(snap, Refined(snap, g))
    BY <1>1, <1>2, <2>1, <2>2, EditsSound
  <2> QED BY <2>1, <2>2, <2>3, <1>1, <1>3, CommitStep DEF RefineStore, CompletedIsRecorded
<1>4. CASE RefineError(r)
  <2>1. PICK e \in Errors : Commit(r, RefineFailed(snap, e))
    BY <1>4 DEF RefineError
  <2>2. RefineFailed(snap, e) \in Row /\ RefineFailed(snap, e).status # "completed"
    BY <1>1, RowEdits DEF RefineFailed, Row
  <2>3. Sound(snap, RefineFailed(snap, e))
    BY <1>1, <1>2, <2>1, <2>2, EditsSound
  <2> QED BY <2>1, <2>2, <2>3, <1>1, <1>4, CommitStep DEF RefineError, CompletedIsRecorded
<1>5. CASE AssignStore(r)
  <2>1. PICK row \in Row :
          /\ Commit(r, row)
          /\ row.status # "completed"
          /\ Explained(snap) => Sound(snap, row)
    <3>1. ASSUME NEW d \in Drivers
          PROVE  Assigned(snap, d) \in Row /\ Assigned(snap, d).status # "completed"
      <4>1. Assigned(snap, d).status # "completed"
        BY <1>1 DEF Assigned, Row
      <4> QED BY <4>1, <1>1, RowEdits
    <3>2. Unassigned(snap) \in Row /\ Unassigned(snap).status # "completed"
      <4>1. Unassigned(snap).status # "completed"
        BY <1>1 DEF Unassigned, UnassignedStatus, Row
      <4> QED BY <4>1, <1>1, RowEdits
    <3> QED BY <3>1, <3>2, <1>1, <1>5, EditsSound DEF AssignStore
  <2> QED BY <2>1, <1>1, <1>2, <1>5, CommitStep DEF AssignStore, CompletedIsRecorded
<1>6. CASE StatusStore(r)
  <2>1. PICK status \in Allowed(req[r].pc) :
          /\ Commit(r, [snap EXCEPT !.status = status])
          /\ NeedsRecording(snap, req[r].seen, status) =>
               recorded' = recorded \cup {req[r].trip}
          /\ recorded \subseteq recorded'
    BY <1>6 DEF StatusStore
  <2>2. status \in DISPATCHER_STATUSES /\ status \in TripPlanStatus
    BY <2>1 DEF Allowed, DRIVER_STATUSES, DISPATCHER_STATUSES, TripPlanStatus
  <2> DEFINE row == [snap EXCEPT !.status = status]
  <2>3. row \in Row /\ row.status = status
    BY <1>1, <2>2, RowEdits DEF Row
  <2>4. Sound(snap, row)
    BY <1>1, <1>2, <2>1, <2>2, <2>3, EditsSound
  <2> HIDE DEF row
  <2>5. /\ Lifecycle'
        /\ \A t \in Trips : trips'[t].status = "completed" =>
             \/ trips[t].status = "completed"
             \/ /\ t = req[r].trip
                /\ row.status = "completed"
                /\ snap.status # "completed"
    <3>1. Commit(r, row)
      BY <2>1 DEF row
    <3> QED BY <3>1, <2>3, <2>4, <1>1, CommitStep
  <2>6. CompletedIsRecorded'
    BY <2>1, <2>3, <2>5 DEF CompletedIsRecorded, NeedsRecording
  <2> QED BY <2>5, <2>6
<1> QED BY <1>3, <1>4, <1>5, <1>6

LEMMA ShareLifecycle ==
  ASSUME TypeOK, Lifecycle, CompletedIsRecorded, NEW r \in Requests, ShareStore(r)
  PROVE  Lifecycle' /\ CompletedIsRecorded'
<1> DEFINE snap == req[r].snap
<1>1. HoldsRow(req[r]) /\ snap \in Row /\ recorded' = recorded
  BY DEF ShareStore, HoldsRow, TypeOK, RequestRecord
<1>2. CASE End(r) /\ UNCHANGED trips
  <2>1. \A p \in Requests : req'[p] \in {req[p], Idle}
    BY <1>2 DEF End, TypeOK
  <2>2. Lifecycle'
    BY <2>1, <1>2, EraseStep DEF TypeOK
  <2> QED BY <2>2, <1>1, <1>2 DEF CompletedIsRecorded
<1>3. CASE ~(End(r) /\ UNCHANGED trips)
  <2>1. PICK k \in Tokens \cup {None} : Commit(r, [snap EXCEPT !.token = k])
    BY <1>3 DEF ShareStore, FreshTokens
  <2> DEFINE row == [snap EXCEPT !.token = k]
  <2>2. row \in Row /\ row.status = snap.status
    BY <1>1, RowEdits DEF Row
  <2>3. Explained(snap)
    BY <1>1, <2>1 DEF Commit, Lifecycle, LoadedRowsFollow, Follows
  <2>4. Sound(snap, row) /\ Commit(r, row)
    BY <1>1, <2>1, <2>3, EditsSound
  <2> HIDE DEF row
  <2> QED BY <2>2, <2>4, <1>1, CommitStep DEF CompletedIsRecorded
<1> QED BY <1>2, <1>3

\* Everything else a request does.
LEMMA RestLifecycle ==
  ASSUME TypeOK, Lifecycle, CompletedIsRecorded, NEW r \in Requests,
         \/ CreateStore(r) \/ ReadShipment(r) \/ MarkPlanned(r) \/ ForcePlanned(r)
         \/ RouteReturns(r) \/ DeleteFlush(r) \/ DeleteCommit(r)
         \/ Rejected(r) \/ Fault(r)
  PROVE  Lifecycle' /\ CompletedIsRecorded'
<1>1. req[r] \in RequestRecord
  BY DEF TypeOK
<1>2. CASE CreateStore(r)
  <2>1. recorded' = recorded
    BY <1>2 DEF CreateStore
  <2> QED BY <2>1, <1>2, InsertStep DEF CompletedIsRecorded
<1>3. CASE End(r) /\ UNCHANGED <<trips, recorded>>
  <2>1. \A p \in Requests : req'[p] \in {req[p], Idle}
    BY <1>3 DEF End, TypeOK
  <2>2. Lifecycle'
    BY <2>1, <1>3, EraseStep DEF TypeOK
  <2> QED BY <2>2, <1>3 DEF CompletedIsRecorded
<1>4. ASSUME NEW pc \in {"marking", "plan_marking", "forcing"},
             Goto(r, pc), UNCHANGED <<trips, recorded>>
      PROVE  Lifecycle' /\ CompletedIsRecorded'
  <2> DEFINE q == [req[r] EXCEPT !.pc = pc]
  <2>1. req' = [req EXCEPT ![r] = q]
    BY <1>4 DEF Goto
  <2>2. q \in RequestRecord /\ q.pc = pc /\ q.trip = req[r].trip
    BY <1>1 DEF RequestRecord, Steps
  <2>3. ~HoldsRow(q) /\ ~Claimed(q)
    BY <2>2 DEF HoldsRow, Claimed
  <2> HIDE DEF q
  <2> QED BY <2>1, <2>2, <2>3, <1>4, QuietStep DEF CompletedIsRecorded
<1>5. CASE ReadShipment(r)
  <2> DEFINE next == NextAfterReading(req[r].pc, planning[req[r].snap.shipment])
  <2>1. next \in {"idle", "marking", "plan_marking", "forcing"}
    BY DEF NextAfterReading
  <2>2. IF next = "idle" THEN End(r) ELSE Goto(r, next)
    BY <1>5 DEF ReadShipment
  <2>3. UNCHANGED <<trips, recorded>>
    BY <1>5 DEF ReadShipment
  <2> HIDE DEF next
  <2> QED BY <2>1, <2>2, <2>3, <1>3, <1>4
<1>6. CASE MarkPlanned(r) \/ ForcePlanned(r)
  BY <1>3, <1>4, <1>6 DEF MarkPlanned, ForcePlanned
<1>7. CASE RouteReturns(r)
  <2> DEFINE t == req[r].trip
  <2>1. HoldsRow(req[r]) /\ t \in Trips /\ UNCHANGED <<trips, recorded>>
    BY <1>7 DEF RouteReturns, HoldsRow, TypeOK
  <2>2. PICK q \in RequestRecord :
          /\ req' = [req EXCEPT ![r] = q]
          /\ q.pc = "routed" /\ q.trip = t
          /\ q.snap = req[r].snap \/ (q.snap = trips[t] /\ Stored(t))
    <3>1. CASE Goto(r, "routed")
      <4> DEFINE next == [req[r] EXCEPT !.pc = "routed"]
      <4>1. req' = [req EXCEPT ![r] = next]
        BY <3>1 DEF Goto
      <4>2. /\ next \in RequestRecord
            /\ next.pc = "routed" /\ next.trip = t /\ next.snap = req[r].snap
        BY <1>1 DEF RequestRecord, Steps
      <4> HIDE DEF next
      <4> QED BY <4>1, <4>2
    <3>2. CASE /\ Stored(t)
               /\ req' = [req EXCEPT ![r].pc = "routed", ![r].snap = trips[t]]
      <4> DEFINE next == [req[r] EXCEPT !.pc = "routed", !.snap = trips[t]]
      <4>1. req' = [req EXCEPT ![r] = next]
        BY <3>2, <1>1 DEF TypeOK, RequestRecord
      <4>2. trips[t] \in Row
        BY <2>1 DEF TypeOK
      <4>3. /\ next \in RequestRecord
            /\ next.pc = "routed" /\ next.trip = t /\ next.snap = trips[t]
        BY <4>2, <1>1 DEF RequestRecord, Steps
      <4> HIDE DEF next
      <4> QED BY <3>2, <4>1, <4>3
    <3> QED BY <3>1, <3>2, <1>7 DEF RouteReturns
  <2>4. \A p \in Requests : req'[p] = IF p = r THEN q ELSE req[p]
    BY <2>2 DEF TypeOK
  <2>5. Stored(t) => Follows(trips[t], q.snap)
    BY <2>1, <2>2 DEF Lifecycle, LoadedRowsFollow, RowsFine, RowFine, Follows
  <2>6. ClaimsHold'
    BY <2>1, <2>2, <2>4 DEF Lifecycle, ClaimsHold, Claimed
  <2>7. RowsFine'
    BY <2>1 DEF Lifecycle, RowsFine, Stored, RowFine, Explained
  <2>8. LoadedRowsFollow'
    BY <2>1, <2>2, <2>4, <2>5 DEF Lifecycle, LoadedRowsFollow, Stored, Follows
  <2> QED BY <2>1, <2>6, <2>7, <2>8 DEF Lifecycle, CompletedIsRecorded
<1>8. CASE DeleteFlush(r)
  <2>1. UNCHANGED <<trips, recorded>> /\ \E seen \in Seen :
          req' = [req EXCEPT ![r] = [req[r] EXCEPT !.pc = "deleted", !.seen = seen]]
    BY <1>1, <1>8 DEF DeleteFlush, Seen, RequestRecord
  <2>2. PICK seen \in Seen :
          req' = [req EXCEPT ![r] = [req[r] EXCEPT !.pc = "deleted", !.seen = seen]]
    BY <2>1
  <2> DEFINE q == [req[r] EXCEPT !.pc = "deleted", !.seen = seen]
  <2>3. q \in RequestRecord /\ q.pc = "deleted" /\ q.trip = req[r].trip
    BY <1>1 DEF RequestRecord, Steps
  <2>4. ~HoldsRow(q) /\ ~Claimed(q) /\ req' = [req EXCEPT ![r] = q]
    BY <2>2, <2>3 DEF HoldsRow, Claimed
  <2> HIDE DEF q
  <2> QED BY <2>1, <2>3, <2>4, QuietStep DEF CompletedIsRecorded
<1>9. CASE DeleteCommit(r)
  <2> DEFINE t == req[r].trip
  <2>1. t \in Trips /\ ~Claimed(req[r])
    BY <1>9 DEF DeleteCommit, TypeOK, Claimed
  <2>2. /\ trips' = [trips EXCEPT ![t] = EmptyRow("deleted")]
        /\ recorded' = recorded \ {t}
        /\ req' = [req EXCEPT ![r] = Idle]
    BY <1>9 DEF DeleteCommit, End
  <2>3. \A p \in Requests : Claimed(req[p]) => req[p].trip # t
    BY <2>1 DEF Lifecycle, ClaimsHold
  <2>4. EmptyRow("deleted") \in Row /\ EmptyRow("deleted").status # "completed"
    BY EmptyRowType DEF EmptyRow
  <2>5. Lifecycle'
    BY <2>1, <2>2, <2>3, <2>4, EraseStep DEF TypeOK
  <2> QED BY <2>1, <2>2, <2>4, <2>5 DEF CompletedIsRecorded, TypeOK
<1>10. CASE Rejected(r) \/ Fault(r)
  BY <1>3, <1>10 DEF Rejected, Fault
<1> QED BY <1>2, <1>5, <1>6, <1>7, <1>8, <1>9, <1>10

LEMMA CascadeLifecycle ==
  ASSUME TypeOK, Lifecycle, CompletedIsRecorded,
         \/ \E r \in Requests, s \in Shipments : UpdateShipment(r, s)
         \/ \E s \in Shipments : DeleteShipment(s)
         \/ \E v \in Vehicles : DeleteVehicle(v)
  PROVE  Lifecycle' /\ CompletedIsRecorded'
<1>1. None \notin Vehicles
  BY TripPlansAssumption DEF TripPlansAssumption
<1>2. trips' \in [Trips -> Row]
  BY CascadeType DEF TypeOK
<1>3. CASE \E s \in Shipments : DeleteShipment(s)
  <2>1. PICK s \in Shipments : DeleteShipment(s)
    BY <1>3
  <2>2. req' = req /\ recorded' = recorded
    BY <2>1 DEF DeleteShipment
  <2>3. \A u \in Trips : /\ trips'[u].status = trips[u].status
                        /\ trips'[u].route = trips[u].route
                        /\ trips'[u].error = trips[u].error
                        /\ trips'[u].vehicle = trips[u].vehicle
    BY <2>1 DEF DeleteShipment, TypeOK, Row
  <2>4. Lifecycle'
    BY <1>2, <2>2, <2>3, EraseStep
  <2> QED BY <2>2, <2>3, <2>4 DEF CompletedIsRecorded
<1>4. CASE \E v \in Vehicles : DeleteVehicle(v)
  <2>1. PICK v \in Vehicles : DeleteVehicle(v)
    BY <1>4
  <2>2. req' = req /\ recorded' = {t \in recorded : trips[t].vehicle # v}
    BY <2>1 DEF DeleteVehicle
  <2>3. \A u \in Trips : trips'[u] = IF trips[u].vehicle = v THEN EmptyRow("deleted")
                                                           ELSE trips[u]
    BY <2>1 DEF DeleteVehicle
  <2>4. \A u \in Trips : trips[u].vehicle = v =>
          \A p \in Requests : Claimed(req[p]) => req[p].trip # u
    BY <1>1 DEF Lifecycle, ClaimsHold, RowsFine
  <2>5. Lifecycle'
    BY <1>2, <2>2, <2>3, <2>4, EraseStep
  <2>6. EmptyRow("deleted").status # "completed"
    BY DEF EmptyRow
  <2> QED BY <2>2, <2>3, <2>5, <2>6 DEF CompletedIsRecorded
<1>5. CASE \E r \in Requests, s \in Shipments : UpdateShipment(r, s)
  <2>1. UNCHANGED <<trips, recorded, req>>
    BY <1>5 DEF UpdateShipment
  <2> QED BY <2>1 DEF Lifecycle, ClaimsHold, RowsFine, LoadedRowsFollow, Stored,
                      RowFine, Explained, Follows, CompletedIsRecorded
<1> QED BY <1>3, <1>4, <1>5

LEMMA StepLifecycle ==
  TypeOK /\ LifecycleInv /\ [Next]_vars => LifecycleInv'
<1> SUFFICES ASSUME TypeOK, Lifecycle, CompletedIsRecorded, [Next]_vars
             PROVE  Lifecycle' /\ CompletedIsRecorded'
  BY DEF LifecycleInv, Lifecycle
<1>1. CASE \E r \in Requests, t \in Trips : Begin(r, t)
  <2>1. Lifecycle' /\ UNCHANGED <<trips, recorded>>
    BY <1>1, BeginLifecycle
  <2> QED BY <2>1 DEF CompletedIsRecorded
<1>2. CASE \E r \in Requests : Continue(r) \/ Fault(r)
  BY <1>2, WriteLifecycle, ShareLifecycle, RestLifecycle DEF Continue
<1>3. CASE \/ \E r \in Requests, s \in Shipments : UpdateShipment(r, s)
           \/ \E s \in Shipments : DeleteShipment(s)
           \/ \E v \in Vehicles : DeleteVehicle(v)
  BY <1>3, CascadeLifecycle
<1>4. CASE UNCHANGED vars
  BY <1>4 DEF vars, Lifecycle, ClaimsHold, RowsFine, LoadedRowsFollow, Stored,
              RowFine, Explained, Follows, CompletedIsRecorded
<1> QED BY <1>1, <1>2, <1>3, <1>4 DEF Next

LEMMA LifecycleInvariant == Spec => []LifecycleInv
<1>1. Init => LifecycleInv
  BY InitLifecycle DEF LifecycleInv, Lifecycle
<1> QED BY <1>1, StepLifecycle, TypeCorrect, PTL DEF Spec

\* update_status and _record_completion: however many requests overlap, and
\* however old the rows they loaded, a completed trip has its TRIP reading.
THEOREM CompletedAlwaysRecorded == Spec => []CompletedIsRecorded
<1>1. LifecycleInv => CompletedIsRecorded
  BY DEF LifecycleInv
<1> QED BY <1>1, LifecycleInvariant, PTL

\* set_refined_route, set_refine_error and _unassigned_status: a stored plan
\* always keeps a refined route or an error, so it never falls back to draft.
THEOREM NeverBackToDraft == Spec => []NeverDraft
<1>1. LifecycleInv => NeverDraft
  BY DEF LifecycleInv, RowsFine, RowFine, Explained, NeverDraft
<1> QED BY <1>1, LifecycleInvariant, PTL

\* A plan that claims to be refined has a refined route.
THEOREM RefinedAlwaysHasRoute == Spec => []RefinedHasRoute
<1>1. LifecycleInv => RefinedHasRoute
  BY DEF LifecycleInv, RowsFine, RowFine, RefinedHasRoute, Stored, TripPlanStatus
<1> QED BY <1>1, LifecycleInvariant, PTL

-----------------------------------------------------------------------------
(* Public links *)

\* What a step may do to the tokens in the rows: keep them, clear some ...
KeepsTokens ==
  /\ \A t \in Trips : trips'[t].token \in {trips[t].token, None}
  /\ issued' = issued

\* ... or give one row a token nobody has drawn before.
DrawsToken(k, t) ==
  /\ k \notin issued
  /\ issued' = issued \cup {k}
  /\ \A u \in Trips : trips'[u].token = IF u = t THEN k ELSE trips[u].token

\* Only set_share assigns the token, so every other commit leaves the column
\* as it is, whatever token the loaded row had.
LEMMA CommitTokens ==
  ASSUME TypeOK, NEW r \in Requests, NEW assigned, Commit(r, assigned),
         req[r].trip \in Trips
  PROVE  \A u \in Trips :
           trips'[u].token = IF u = req[r].trip
                               THEN Net(trips[u].token, req[r].snap.token, assigned.token)
                               ELSE trips[u].token
BY DEF Commit, Flush, TypeOK

LEMMA RequestTokens ==
  ASSUME TypeOK, ClaimsHold, NEW r \in Requests, Continue(r) \/ Fault(r)
  PROVE  KeepsTokens \/ \E k \in Tokens, t \in Trips : DrawsToken(k, t)
<1> DEFINE t == req[r].trip
           snap == req[r].snap
<1>1. req[r].pc # "idle" => t \in Trips
  BY DEF TypeOK
<1>2. snap \in Row
  BY DEF TypeOK, RequestRecord
<1>3. CASE CreateStore(r)
  <2>1. t \in Trips /\ snap.token = None
    BY <1>1, <1>3 DEF CreateStore, ClaimsHold, Claimed
  <2>2. /\ \A g \in Routes : Refined(snap, g).token = None
        /\ \A e \in Errors : RefineFailed(snap, e).token = None
    BY <1>2, <2>1 DEF Refined, RefineFailed, Row
  <2>3. \A u \in Trips : trips'[u].token \in {trips[u].token, None}
    BY <1>3, <2>1, <2>2 DEF CreateStore, TypeOK
  <2> QED BY <2>3, <1>3 DEF CreateStore, KeepsTokens
<1>4. CASE RefineStore(r)
  <2>1. PICK g \in Routes : Commit(r, Refined(snap, g))
    BY <1>4 DEF RefineStore
  <2>2. Refined(snap, g).token = snap.token
    BY <1>2 DEF Refined, Row
  <2> QED BY <2>1, <2>2, <1>1, <1>4, CommitTokens DEF RefineStore, KeepsTokens, Net
<1>5. CASE RefineError(r)
  <2>1. PICK e \in Errors : Commit(r, RefineFailed(snap, e))
    BY <1>5 DEF RefineError
  <2>2. RefineFailed(snap, e).token = snap.token
    BY <1>2 DEF RefineFailed, Row
  <2> QED BY <2>1, <2>2, <1>1, <1>5, CommitTokens DEF RefineError, KeepsTokens, Net
<1>6. CASE AssignStore(r)
  <2>1. /\ \A d \in Drivers : Assigned(snap, d).token = snap.token
        /\ Unassigned(snap).token = snap.token
    BY <1>2 DEF Assigned, Unassigned, Row
  <2>2. PICK row : Commit(r, row) /\ row.token = snap.token
    BY <2>1, <1>6 DEF AssignStore
  <2> QED BY <2>2, <1>1, <1>6, CommitTokens DEF AssignStore, KeepsTokens, Net
<1>7. CASE StatusStore(r)
  <2>1. PICK status \in Allowed(req[r].pc) : Commit(r, [snap EXCEPT !.status = status])
    BY <1>7 DEF StatusStore
  <2>2. [snap EXCEPT !.status = status].token = snap.token
    BY <1>2 DEF Row
  <2> QED BY <2>1, <2>2, <1>1, <1>7, CommitTokens DEF StatusStore, KeepsTokens, Net
<1>8. CASE ShareStore(r)
  <2>1. CASE End(r) /\ UNCHANGED <<trips, issued>>
    BY <2>1 DEF KeepsTokens
  <2>2. ASSUME NEW k \in Tokens \ issued, snap.token = None,
               Commit(r, [snap EXCEPT !.token = k]), issued' = issued \cup {k}
        PROVE  DrawsToken(k, t)
    <3>1. [snap EXCEPT !.token = k].token = k /\ k # None
      BY <1>2, TripPlansAssumption DEF Row, TripPlansAssumption
    <3>2. t \in Trips
      BY <1>1, <1>8 DEF ShareStore
    <3> QED BY <2>2, <3>1, <3>2, CommitTokens DEF DrawsToken, Net
  <2>3. CASE Commit(r, [snap EXCEPT !.token = None]) /\ UNCHANGED issued
    <3>1. [snap EXCEPT !.token = None].token = None
      BY <1>2 DEF Row
    <3>2. t \in Trips
      BY <1>1, <1>8 DEF ShareStore
    <3> DEFINE row == [snap EXCEPT !.token = None]
    <3>3. Commit(r, row) /\ row.token = None
      BY <2>3, <3>1
    <3> HIDE DEF row
    <3>4. \A u \in Trips :
            trips'[u].token = IF u = t THEN Net(trips[u].token, snap.token, row.token)
                                       ELSE trips[u].token
      BY <3>2, <3>3, CommitTokens
    <3> QED BY <2>3, <3>3, <3>4 DEF KeepsTokens, Net
  <2>4. t \in Trips
    BY <1>1, <1>8 DEF ShareStore
  <2> QED BY <2>1, <2>2, <2>3, <2>4, <1>8 DEF ShareStore, FreshTokens
<1>9. CASE DeleteCommit(r)
  <2>1. EmptyRow("deleted").token = None
    BY DEF EmptyRow
  <2> QED BY <2>1, <1>9 DEF DeleteCommit, KeepsTokens, TypeOK
<1>10. CASE \/ ReadShipment(r) \/ MarkPlanned(r) \/ ForcePlanned(r)
            \/ RouteReturns(r) \/ DeleteFlush(r) \/ Rejected(r) \/ Fault(r)
  BY <1>10 DEF ReadShipment, MarkPlanned, ForcePlanned, RouteReturns, DeleteFlush,
               Rejected, Fault, KeepsTokens
<1> QED BY <1>3, <1>4, <1>5, <1>6, <1>7, <1>8, <1>9, <1>10 DEF Continue

LEMMA StepTokens ==
  ASSUME TypeOK, ClaimsHold, [Next]_vars
  PROVE  KeepsTokens \/ \E k \in Tokens, t \in Trips : DrawsToken(k, t)
<1>1. CASE \E r \in Requests, t \in Trips : Begin(r, t)
  BY <1>1 DEF Begin, CreateStart, PlanStart, RefineStart, AssignStart, StatusStart,
              ShareStart, DeleteStart, KeepsTokens
<1>2. CASE \E r \in Requests : Continue(r) \/ Fault(r)
  BY <1>2, RequestTokens
<1>3. CASE \E s \in Shipments : DeleteShipment(s)
  <2>1. \A t \in Trips : trips[t] \in Row
    BY DEF TypeOK
  <2> QED BY <2>1, <1>3 DEF DeleteShipment, KeepsTokens, Row
<1>4. CASE \E v \in Vehicles : DeleteVehicle(v)
  <2>1. EmptyRow("deleted").token = None
    BY DEF EmptyRow
  <2> QED BY <2>1, <1>4 DEF DeleteVehicle, KeepsTokens
<1>5. CASE \E r \in Requests, s \in Shipments : UpdateShipment(r, s)
  BY <1>5 DEF UpdateShipment, KeepsTokens
<1>6. CASE UNCHANGED vars
  BY <1>6 DEF vars, KeepsTokens
<1> QED BY <1>1, <1>2, <1>3, <1>4, <1>5, <1>6 DEF Next

LEMMA InitTokens == Init => TokensHold
<1> SUFFICES ASSUME Init PROVE TokensHold
  OBVIOUS
<1>1. \A t \in Trips : trips[t].token = None
  BY DEF Init, InitialRow, EmptyRow
<1> QED BY <1>1 DEF TokensHold

LEMMA StepTokensHold ==
  TypeOK /\ LifecycleInv /\ TokensHold /\ [Next]_vars => TokensHold'
<1> SUFFICES ASSUME TypeOK, ClaimsHold, TokensHold, [Next]_vars
             PROVE  TokensHold'
  BY DEF LifecycleInv
<1>1. CASE KeepsTokens
  BY <1>1 DEF KeepsTokens, TokensHold
<1>2. CASE \E k \in Tokens, t \in Trips : DrawsToken(k, t)
  <2>1. PICK k \in Tokens, t \in Trips : DrawsToken(k, t)
    BY <1>2
  <2>2. k # None
    BY TripPlansAssumption DEF TripPlansAssumption
  <2> QED BY <2>1, <2>2 DEF DrawsToken, TokensHold
<1> QED BY <1>1, <1>2, StepTokens

LEMMA TokensInvariant == Spec => []TokensHold
BY InitTokens, StepTokensHold, LifecycleInvariant, TypeCorrect, PTL DEF Spec

\* What a token opens, without the CHOOSE.
LEMMA OpensKnown ==
  TokensHold =>
    \A k \in Tokens :
      /\ k \notin issued => Opens(k) = "unused"
      /\ k \in issued /\ (\A t \in Trips : trips[t].token # k) => Opens(k) = "dead"
      /\ \A t \in Trips : trips[t].token = k => k \in issued /\ Opens(k) = t
<1> SUFFICES ASSUME TokensHold, NEW k \in Tokens
             PROVE  /\ k \notin issued => Opens(k) = "unused"
                    /\ k \in issued /\ (\A t \in Trips : trips[t].token # k)
                         => Opens(k) = "dead"
                    /\ \A t \in Trips : trips[t].token = k =>
                         k \in issued /\ Opens(k) = t
  OBVIOUS
<1>1. k # None
  BY TripPlansAssumption DEF TripPlansAssumption
<1>2. k \in LiveTokens <=> \E t \in Trips : trips[t].token = k
  BY <1>1 DEF LiveTokens
<1>3. ASSUME NEW t \in Trips, trips[t].token = k
      PROVE  k \in issued /\ Opens(k) = t
  <2>1. k \in issued
    BY <1>1, <1>3 DEF TokensHold
  <2>2. Opens(k) = CHOOSE u \in Trips : trips[u].token = k
    BY <2>1, <1>2, <1>3 DEF Opens
  <2>3. \A u \in Trips : trips[u].token = k => u = t
    BY <1>1, <1>3 DEF TokensHold
  <2> QED BY <2>1, <2>2, <2>3, <1>3
<1> QED BY <1>2, <1>3 DEF Opens

LEMMA StepLinks ==
  TypeOK /\ ClaimsHold /\ TokensHold /\ TokensHold' /\ [Next]_vars
    => [Links!Next]_[k \in Tokens |-> Opens(k)]
<1> SUFFICES ASSUME TypeOK, ClaimsHold, TokensHold, TokensHold', [Next]_vars
             PROVE  Links!Next
  BY DEF Links!Next
<1>1. {"unused", "dead"} \cap Trips = {}
  BY TripPlansAssumption DEF TripPlansAssumption
<1>2. \A k \in Tokens :
        /\ k \notin issued => Opens(k) = "unused"
        /\ k \in issued /\ (\A t \in Trips : trips[t].token # k) => Opens(k) = "dead"
        /\ \A t \in Trips : trips[t].token = k => k \in issued /\ Opens(k) = t
  BY OpensKnown
<1>3. \A k \in Tokens :
        /\ k \notin issued' => Opens(k)' = "unused"
        /\ k \in issued' /\ (\A t \in Trips : trips'[t].token # k) => Opens(k)' = "dead"
        /\ \A t \in Trips : trips'[t].token = k => k \in issued' /\ Opens(k)' = t
  <2>1. (TokensHold =>
          \A k \in Tokens :
            /\ k \notin issued => Opens(k) = "unused"
            /\ k \in issued /\ (\A t \in Trips : trips[t].token # k) => Opens(k) = "dead"
            /\ \A t \in Trips : trips[t].token = k => k \in issued /\ Opens(k) = t)'
    BY OpensKnown, PTL
  <2> QED BY <2>1
<1>4. CASE KeepsTokens
  <2> DEFINE gone == {t \in Trips : trips'[t].token # trips[t].token}
  <2>1. ASSUME NEW k \in Tokens
        PROVE  Opens(k)' = IF Opens(k) \in gone THEN "dead" ELSE Opens(k)
    <3>1. CASE k \notin issued
      BY <3>1, <1>1, <1>2, <1>3, <1>4 DEF KeepsTokens
    <3>2. CASE k \in issued /\ \A t \in Trips : trips[t].token # k
      <4>1. \A t \in Trips : trips'[t].token # k
        BY <3>2, <1>4, TripPlansAssumption DEF KeepsTokens, TripPlansAssumption
      <4> QED BY <3>2, <4>1, <1>1, <1>2, <1>3, <1>4 DEF KeepsTokens
    <3>3. ASSUME NEW t \in Trips, trips[t].token = k
          PROVE  Opens(k)' = IF Opens(k) \in gone THEN "dead" ELSE Opens(k)
      <4>1. Opens(k) = t /\ k \in issued /\ k \in issued'
        BY <3>3, <1>2, <1>4 DEF KeepsTokens
      <4>2. CASE trips'[t].token = k
        BY <4>1, <4>2, <3>3, <1>3
      <4>3. CASE trips'[t].token # k
        <5>1. \A u \in Trips : trips'[u].token # k
          BY <4>3, <3>3, <1>4, TripPlansAssumption
             DEF KeepsTokens, TokensHold, TripPlansAssumption
        <5> QED BY <4>1, <4>3, <5>1, <3>3, <1>3
      <4> QED BY <4>2, <4>3
    <3> QED BY <3>1, <3>2, <3>3
  <2>2. Links!Kill(gone)
    BY <2>1 DEF Links!Kill
  <2> QED BY <2>2 DEF Links!Next
<1>5. CASE \E k \in Tokens, t \in Trips : DrawsToken(k, t)
  <2>1. PICK k \in Tokens, t \in Trips : DrawsToken(k, t)
    BY <1>5
  <2>2. ASSUME NEW j \in Tokens
        PROVE  Opens(j)' = IF j = k THEN t ELSE IF Opens(j) = t THEN "dead" ELSE Opens(j)
    <3>1. CASE j = k
      BY <3>1, <2>1, <1>3 DEF DrawsToken
    <3>2. CASE j # k /\ j \notin issued
      BY <3>2, <2>1, <1>1, <1>2, <1>3 DEF DrawsToken
    <3>3. CASE j # k /\ j \in issued /\ \A u \in Trips : trips[u].token # j
      <4>1. \A u \in Trips : trips'[u].token # j
        BY <3>3, <2>1 DEF DrawsToken
      <4> QED BY <3>3, <4>1, <2>1, <1>1, <1>2, <1>3 DEF DrawsToken
    <3>4. ASSUME NEW u \in Trips, trips[u].token = j, j # k
          PROVE  Opens(j)' = IF Opens(j) = t THEN "dead" ELSE Opens(j)
      <4>1. Opens(j) = u /\ j \in issued /\ j \in issued'
        BY <3>4, <2>1, <1>2 DEF DrawsToken
      <4>2. CASE u = t
        <5>1. j # None
          BY TripPlansAssumption DEF TripPlansAssumption
        <5>2. \A v \in Trips : trips'[v].token # j
          BY <5>1, <4>2, <3>4, <2>1 DEF DrawsToken, TokensHold
        <5> QED BY <4>1, <4>2, <5>2, <1>3
      <4>3. CASE u # t
        BY <4>1, <4>3, <3>4, <2>1, <1>3 DEF DrawsToken
      <4> QED BY <4>2, <4>3
    <3> QED BY <3>1, <3>2, <3>3, <3>4
  <2>3. Opens(k) = "unused"
    BY <2>1, <1>2 DEF DrawsToken
  <2>4. Links!Issue(k, t)
    BY <2>2, <2>3 DEF Links!Issue
  <2> QED BY <2>4 DEF Links!Next
<1> QED BY <1>4, <1>5, StepTokens

\* set_share and get_shared implement PublicLinks: whatever commits overlap, a
\* token opens the one trip it was issued for until it is dead, for good.
THEOREM LinksRefined == Spec => LinksImplemented
<1>1. Init => Links!Init
  <2> SUFFICES ASSUME Init PROVE Links!Init
    OBVIOUS
  <2>1. \A k \in Tokens : k \notin issued
    BY DEF Init
  <2>2. \A k \in Tokens : Opens(k) = "unused"
    BY <2>1 DEF Opens
  <2> QED BY <2>2 DEF Links!Init
<1>2. LifecycleInv => ClaimsHold
  BY DEF LifecycleInv
<1> QED
  BY <1>1, <1>2, StepLinks, TypeCorrect, LifecycleInvariant, TokensInvariant, PTL
     DEF Spec, Links!Spec, LinksImplemented

\* Revoking "permanently invalidates every copy of the old link".
THEOREM DeadTokensStayDead == Spec => DeadTokenStaysDead
<1>1. TypeOK /\ ClaimsHold /\ [Next]_vars =>
        [\A k \in issued : k \notin LiveTokens => k \notin LiveTokens']_vars
  <2> SUFFICES ASSUME TypeOK, ClaimsHold, [Next]_vars,
                      NEW k \in issued, k \notin LiveTokens
               PROVE  k \notin LiveTokens'
    OBVIOUS
  <2>1. k # None
    BY TripPlansAssumption DEF TypeOK, TripPlansAssumption
  <2>2. \A t \in Trips : trips[t].token # k
    BY <2>1 DEF LiveTokens
  <2>3. \A t \in Trips : trips'[t].token # k
    <3>1. CASE KeepsTokens
      BY <3>1, <2>1, <2>2 DEF KeepsTokens
    <3>2. CASE \E j \in Tokens, t \in Trips : DrawsToken(j, t)
      BY <3>2, <2>2 DEF DrawsToken
    <3> QED BY <3>1, <3>2, StepTokens
  <2> QED BY <2>3 DEF LiveTokens
<1>2. LifecycleInv => ClaimsHold
  BY DEF LifecycleInv
<1> QED
  BY <1>1, <1>2, TypeCorrect, LifecycleInvariant, PTL DEF Spec, DeadTokenStaysDead

-----------------------------------------------------------------------------
(* One request at a time: the planning queue agrees with the trips           *)

TripsStay ==
  \A t \in Trips : /\ trips'[t].shipment = trips[t].shipment
                   /\ Stored(t)' <=> Stored(t)

LEMMA StayingTrips ==
  ASSUME TripsStay
  PROVE  /\ \A s : TripsOf(s)' = TripsOf(s)
         /\ \A t, s : Others(t, s)' = Others(t, s)
BY DEF TripsStay, TripsOf, Others

\* No handler writes the column shipment_id of a trip it loaded.
LEMMA CommitStays ==
  ASSUME TypeOK, NEW r \in Requests, req[r].pc # "idle", NEW assigned \in Row,
         assigned.shipment = req[r].snap.shipment,
         assigned.status \in TripPlanStatus \cup {req[r].snap.status},
         Commit(r, assigned)
  PROVE  TripsStay
<1> DEFINE t == req[r].trip
           row == Flush(trips[t], req[r].snap, assigned)
<1>1. t \in Trips /\ Stored(t)
  BY DEF TypeOK, Commit
<1>2. /\ row.shipment = trips[t].shipment
      /\ row.status \in {trips[t].status, assigned.status}
      /\ assigned.status = req[r].snap.status => row.status = trips[t].status
  BY DEF Flush, Net
<1>3. \A u \in Trips : trips'[u] = IF u = t THEN row ELSE trips[u]
  BY <1>1 DEF Commit, TypeOK
<1> HIDE DEF row
<1> QED BY <1>1, <1>2, <1>3 DEF TripsStay, Stored

LEMMA WritesStay ==
  ASSUME TypeOK, NEW r \in Requests,
         RefineStore(r) \/ RefineError(r) \/ AssignStore(r) \/ StatusStore(r) \/ ShareStore(r)
  PROVE  TripsStay /\ End(r)
<1> DEFINE snap == req[r].snap
<1>1. snap \in Row /\ req[r].pc # "idle"
  BY DEF RefineStore, RefineError, AssignStore, StatusStore, ShareStore, TypeOK, RequestRecord
<1>2. ASSUME NEW row \in Row, Commit(r, row), row.shipment = snap.shipment,
             row.status \in TripPlanStatus \cup {snap.status}
      PROVE  TripsStay /\ End(r)
  BY <1>1, <1>2, CommitStays DEF Commit
<1>3. CASE RefineStore(r)
  <2>1. PICK g \in Routes : Commit(r, Refined(snap, g))
    BY <1>3 DEF RefineStore
  <2>2. Refined(snap, g) \in Row
    BY <1>1, RowEdits
  <2>3. /\ Refined(snap, g).shipment = snap.shipment
        /\ Refined(snap, g).status \in {"refined", snap.status}
    BY <1>1 DEF Refined, Row
  <2> QED BY <1>2, <2>1, <2>2, <2>3 DEF TripPlanStatus
<1>4. CASE RefineError(r)
  <2>1. PICK e \in Errors : Commit(r, RefineFailed(snap, e))
    BY <1>4 DEF RefineError
  <2>2. RefineFailed(snap, e) \in Row
    BY <1>1, RowEdits
  <2>3. /\ RefineFailed(snap, e).shipment = snap.shipment
        /\ RefineFailed(snap, e).status = "refine_failed"
    BY <1>1 DEF RefineFailed, Row
  <2> QED BY <1>2, <2>1, <2>2, <2>3 DEF TripPlanStatus
<1>5. CASE AssignStore(r)
  <2>1. ASSUME NEW d \in Drivers, Commit(r, Assigned(snap, d)) PROVE TripsStay /\ End(r)
    <3>1. Assigned(snap, d) \in Row
      BY <1>1, RowEdits
    <3>2. Assigned(snap, d).shipment = snap.shipment /\ Assigned(snap, d).status = "assigned"
      BY <1>1 DEF Assigned, Row
    <3> QED BY <1>2, <2>1, <3>1, <3>2 DEF TripPlanStatus
  <2>2. ASSUME Commit(r, Unassigned(snap)) PROVE TripsStay /\ End(r)
    <3>1. Unassigned(snap) \in Row
      BY <1>1, RowEdits
    <3>2. /\ Unassigned(snap).shipment = snap.shipment
          /\ Unassigned(snap).status \in {"refined", "refine_failed", "draft"}
      BY <1>1 DEF Unassigned, UnassignedStatus, Row
    <3> QED BY <1>2, <2>2, <3>1, <3>2 DEF TripPlanStatus
  <2> QED BY <1>5, <2>1, <2>2 DEF AssignStore
<1>6. CASE StatusStore(r)
  <2>1. PICK status \in Allowed(req[r].pc) : Commit(r, [snap EXCEPT !.status = status])
    BY <1>6 DEF StatusStore
  <2>2. status \in TripPlanStatus
    BY <2>1 DEF Allowed, DRIVER_STATUSES, DISPATCHER_STATUSES, TripPlanStatus
  <2> DEFINE row == [snap EXCEPT !.status = status]
  <2>3. row \in Row
    BY <1>1, <2>2, RowEdits
  <2>4. row.shipment = snap.shipment /\ row.status = status
    BY <1>1 DEF Row
  <2> HIDE DEF row
  <2>5. Commit(r, row)
    BY <2>1 DEF row
  <2> QED BY <1>2, <2>2, <2>3, <2>4, <2>5
<1>7. CASE ShareStore(r)
  <2>1. CASE End(r) /\ UNCHANGED trips
    BY <2>1 DEF TripsStay, Stored
  <2>2. ASSUME NEW k \in Tokens \cup {None}, Commit(r, [snap EXCEPT !.token = k])
        PROVE  TripsStay /\ End(r)
    <3> DEFINE row == [snap EXCEPT !.token = k]
    <3>1. row \in Row
      BY <1>1, RowEdits
    <3>2. row.shipment = snap.shipment /\ row.status = snap.status
      BY <1>1 DEF Row
    <3> HIDE DEF row
    <3>3. Commit(r, row)
      BY <2>2 DEF row
    <3> QED BY <1>2, <3>1, <3>2, <3>3
  <2> QED BY <1>7, <2>1, <2>2 DEF ShareStore, FreshTokens
<1> QED BY <1>3, <1>4, <1>5, <1>6, <1>7

LEMMA IdleAgrees == ~AboutToMark(Idle) /\ PlannerAgrees(Idle) /\ DeleterAgrees(Idle)
BY DEF Idle, AboutToMark, PlannerAgrees, DeleterAgrees

\* The only request ends, and leaves the shipments' statuses agreeing with the
\* trips.
LEMMA QueueAtEnd ==
  ASSUME Serial, TypeOK, NEW r \in Requests, End(r),
         \A s \in Shipments \ corrected' :
           /\ Planned(s)' => TripsOf(s)' # {}
           /\ planning'[s] = "unplanned" => TripsOf(s)' = {}
  PROVE  QueueInv'
<1>1. \A p \in Requests : req'[p] = Idle
  BY DEF Serial, OneAtATime, End, TypeOK
<1>2. (PlannerAgrees(Idle) /\ DeleterAgrees(Idle))'
  BY DEF Idle, AboutToMark, PlannerAgrees, DeleterAgrees
<1> QED BY <1>1, <1>2 DEF QueueInv, PlannerAgrees, DeleterAgrees

\* The only request moves on.
LEMMA QueueOnwards ==
  ASSUME Serial, TypeOK, NEW r \in Requests, NEW q, req' = [req EXCEPT ![r] = q],
         (PlannerAgrees(q) /\ DeleterAgrees(q))',
         \A s \in Shipments \ corrected' :
           /\ Planned(s)' => TripsOf(s)' # {}
           /\ planning'[s] = "unplanned" /\ TripsOf(s)' # {} =>
                AboutToMark(q) /\ q.snap.shipment = s
  PROVE  QueueInv'
<1>1. \A p \in Requests : p = r /\ req'[p] = q
  BY DEF Serial, OneAtATime, TypeOK
<1> QED BY <1>1 DEF QueueInv, PlannerAgrees, DeleterAgrees, AboutToMark

\* The first step of a handler: nothing is in flight, so queue and trips agree
\* and what the handler reads is what it will find.
LEMMA BeginQueue ==
  ASSUME Serial, TypeOK, QueueInv, NEW r \in Requests, NEW t \in Trips, Begin(r, t)
  PROVE  QueueInv'
<1>1. UNCHANGED <<trips, planning, corrected>>
  BY DEF Begin, CreateStart, PlanStart, RefineStart, AssignStart, StatusStart,
         ShareStart, DeleteStart
<1>2. TripsStay
  BY <1>1 DEF TripsStay, Stored
<1>3. \A s \in Shipments \ corrected' :
        /\ Planned(s)' => TripsOf(s)' # {}
        /\ planning'[s] = "unplanned" => TripsOf(s)' = {}
  <2>1. \A p \in Requests : req[p].pc = "idle"
    BY DEF Serial, OneAtATime, Begin, CreateStart, PlanStart, RefineStart, AssignStart,
           StatusStart, ShareStart, DeleteStart, Start
  <2> QED BY <2>1, <1>1, <1>2, StayingTrips DEF QueueInv, AboutToMark, Planned
<1>4. ASSUME NEW pc \in {"creating", "planning", "refining", "assigning", "reporting",
                         "overseeing", "sharing"},
             NEW snap, NEW seen, Start(r, pc, t, snap, seen)
      PROVE  QueueInv'
  <2>0. PICK q : q = [pc |-> pc, trip |-> t, snap |-> snap, seen |-> seen]
    OBVIOUS
  <2>1. req' = [req EXCEPT ![r] = q] /\ q.pc = pc
    BY <1>4, <2>0 DEF Start
  <2>2. (PlannerAgrees(q) /\ DeleterAgrees(q))'
    BY <2>1 DEF AboutToMark, PlannerAgrees, DeleterAgrees
  <2>3. \A s \in Shipments \ corrected' :
           /\ Planned(s)' => TripsOf(s)' # {}
           /\ planning'[s] = "unplanned" /\ TripsOf(s)' # {} =>
                AboutToMark(q) /\ q.snap.shipment = s
    BY <1>3
  <2> QED BY <2>1, <2>2, <2>3, QueueOnwards
<1>5. CASE CreateStart(r, t) \/ PlanStart(r, t)
  BY <1>4, <1>5 DEF CreateStart, PlanStart
<1>6. CASE RefineStart(r, t) \/ AssignStart(r, t) \/ StatusStart(r, t) \/ ShareStart(r, t)
  BY <1>4, <1>6 DEF RefineStart, AssignStart, StatusStart, ShareStart
<1>7. CASE DeleteStart(r, t)
  <2> DEFINE seen == IF trips[t].shipment = None THEN "gone" ELSE planning[trips[t].shipment]
  <2>1. \E n : n = [pc |-> "deleting", trip |-> t, snap |-> trips[t], seen |-> seen]
    OBVIOUS
  <2>2. None \notin Shipments
    BY TripPlansAssumption DEF TripPlansAssumption
  <2>3. PICK q : req' = [req EXCEPT ![r] = q] /\ (PlannerAgrees(q) /\ DeleterAgrees(q))'
    <3>1. PICK n : n = [pc |-> "deleting", trip |-> t, snap |-> trips[t], seen |-> seen]
      BY <2>1
    <3>2. req' = [req EXCEPT ![r] = n]
      BY <1>7, <3>1 DEF DeleteStart, Start
    <3>3. (PlannerAgrees(n) /\ DeleterAgrees(n))'
      BY <1>1, <2>2, <3>1 DEF AboutToMark, PlannerAgrees, DeleterAgrees, Planned
    <3> QED BY <3>2, <3>3
  <2>4. \A x \in Shipments \ corrected' :
           /\ Planned(x)' => TripsOf(x)' # {}
           /\ planning'[x] = "unplanned" /\ TripsOf(x)' # {} =>
                AboutToMark(q) /\ q.snap.shipment = x
    BY <1>3
  <2> QED BY <1>1, <2>3, <2>4, QueueOnwards
<1> QED BY <1>1, <1>5, <1>6, <1>7 DEF Begin

\* The row of a new trip is inserted: until its shipment is marked, the request
\* is the one that will mark it.
LEMMA StoreQueue ==
  ASSUME Serial, TypeOK, ClaimsHold, QueueInv, NEW r \in Requests, CreateStore(r)
  PROVE  QueueInv'
<1> DEFINE t == req[r].trip
           snap == req[r].snap
           s == snap.shipment
<1>1. /\ t \in Trips /\ trips[t].status = "unborn"
      /\ snap \in Row /\ req[r] \in RequestRecord
      /\ snap.status = "draft"
  BY DEF CreateStore, Claimed, ClaimsHold, TypeOK, RequestRecord
<1>2. PICK row : /\ trips' = [trips EXCEPT ![t] = row]
                 /\ row.shipment = s
                 /\ row.status \in {"refined", "refine_failed"}
  <2>1. ASSUME NEW g \in Routes
        PROVE  Refined(snap, g).shipment = s /\ Refined(snap, g).status = "refined"
    BY <1>1 DEF Refined, Row
  <2>2. ASSUME NEW e \in Errors
        PROVE  /\ RefineFailed(snap, e).shipment = s
               /\ RefineFailed(snap, e).status = "refine_failed"
    BY <1>1 DEF RefineFailed, Row
  <2> QED BY <2>1, <2>2 DEF CreateStore
<1>3. \A u \in Trips : trips'[u] = IF u = t THEN row ELSE trips[u]
  BY <1>1, <1>2 DEF TypeOK
<1>4. \A x : TripsOf(x)' = IF x = s THEN TripsOf(x) \cup {t} ELSE TripsOf(x)
  <2>1. ~Stored(t) /\ trips'[t].status \in TripPlanStatus
    BY <1>1, <1>2, <1>3 DEF Stored, TripPlanStatus
  <2>2. \A u \in Trips : Stored(u)' <=> u = t \/ Stored(u)
    BY <1>3, <2>1 DEF Stored
  <2> QED BY <1>1, <1>2, <1>3, <2>1, <2>2 DEF TripsOf
<1>5. UNCHANGED <<planning, corrected>> /\ ~AboutToMark(req[r])
  BY DEF CreateStore, AboutToMark
<1>6. \A x \in Shipments \ corrected :
        /\ Planned(x) => TripsOf(x) # {}
        /\ planning[x] = "unplanned" => TripsOf(x) = {}
  BY <1>5 DEF QueueInv, Serial, OneAtATime
<1>7. CASE ~CarriesShipment(snap)
  <2>1. s \notin Shipments
    BY <1>7, TripPlansAssumption DEF CarriesShipment, TripPlansAssumption
  <2>2. End(r)
    BY <1>7 DEF CreateStore
  <2>3. \A x \in Shipments \ corrected' :
          /\ Planned(x)' => TripsOf(x)' # {}
          /\ planning'[x] = "unplanned" => TripsOf(x)' = {}
    BY <1>4, <1>5, <1>6, <2>1 DEF Planned
  <2> QED BY <1>5, <2>2, <2>3, QueueAtEnd
<1>8. CASE CarriesShipment(snap)
  <2>1. PICK pc \in {"created", "planned"} : Goto(r, pc)
    BY <1>8 DEF CreateStore
  <2>2. PICK q : q = [req[r] EXCEPT !.pc = pc]
    OBVIOUS
  <2>3. /\ req' = [req EXCEPT ![r] = q]
        /\ q.pc = pc /\ q.trip = t /\ q.snap = snap
    BY <1>1, <2>1, <2>2 DEF Goto, RequestRecord
  <2>4. (PlannerAgrees(q) /\ DeleterAgrees(q))' /\ AboutToMark(q)
    BY <1>4, <2>1, <2>3 DEF AboutToMark, PlannerAgrees, DeleterAgrees
  <2>5. \A x \in Shipments \ corrected' :
           /\ Planned(x)' => TripsOf(x)' # {}
           /\ planning'[x] = "unplanned" /\ TripsOf(x)' # {} =>
                AboutToMark(q) /\ q.snap.shipment = x
    BY <1>4, <1>5, <1>6, <2>3, <2>4 DEF Planned
  <2> QED BY <1>5, <2>3, <2>4, <2>5, QueueOnwards
<1> QED BY <1>7, <1>8

\* The steps between the commit of a new trip and the end of its request.
LEMMA MarkQueue ==
  ASSUME Serial, TypeOK, QueueInv, NEW r \in Requests,
         ReadShipment(r) \/ MarkPlanned(r) \/ ForcePlanned(r)
  PROVE  QueueInv'
<1> DEFINE q == req[r]
           s == q.snap.shipment
           t == q.trip
<1>1. /\ s \in Shipments /\ q \in RequestRecord
      /\ planning[s] = "gone" \/ t \in TripsOf(s)
  BY DEF ReadShipment, MarkPlanned, ForcePlanned, TypeOK, HoldsShipment, QueueInv,
         PlannerAgrees, AboutToMark
<1>2. trips' = trips /\ TripsStay
  BY DEF ReadShipment, MarkPlanned, ForcePlanned, TripsStay, Stored
<1>3. \A x : TripsOf(x)' = TripsOf(x)
  BY <1>2, StayingTrips
<1>4. \A x \in Shipments \ (corrected \cup {s}) :
        /\ Planned(x) => TripsOf(x) # {}
        /\ planning[x] = "unplanned" => TripsOf(x) = {}
  BY DEF QueueInv, Serial, OneAtATime
<1>5. ASSUME End(r), planning' \in [Shipments -> PlanningStatus \cup {"gone"}],
             corrected' \cup {s} = corrected \cup {s},
             \A x \in Shipments \ {s} : planning'[x] = planning[x],
             planning'[s] # "unplanned", planning'[s] = "planned" => t \in TripsOf(s)
      PROVE  QueueInv'
  <2>1. \A x \in Shipments \ corrected' :
          /\ Planned(x)' => TripsOf(x)' # {}
          /\ planning'[x] = "unplanned" => TripsOf(x)' = {}
    BY <1>3, <1>4, <1>5 DEF Planned
  <2> QED BY <1>5, <2>1, QueueAtEnd
<1>6. ASSUME NEW pc \in {"marking", "plan_marking", "forcing"}, Goto(r, pc),
             corrected' \cup {s} = corrected \cup {s},
             \A x \in Shipments \ {s} : planning'[x] = planning[x],
             pc = "forcing" => planning'[s] # "unplanned",
             pc # "forcing" => planning'[s] = "unplanned",
             planning'[s] # "gone" => t \in TripsOf(s)
      PROVE  QueueInv'
  <2>1. PICK n : n = [q EXCEPT !.pc = pc]
    OBVIOUS
  <2>2. /\ req' = [req EXCEPT ![r] = n]
        /\ n.pc = pc /\ n.trip = t /\ n.snap = q.snap
    BY <1>1, <1>6, <2>1 DEF Goto, RequestRecord
  <2>3. (PlannerAgrees(n) /\ DeleterAgrees(n))'
    BY <1>3, <1>6, <2>2 DEF AboutToMark, PlannerAgrees, DeleterAgrees
  <2>4. \A x \in Shipments \ corrected' :
           /\ Planned(x)' => TripsOf(x)' # {}
           /\ planning'[x] = "unplanned" /\ TripsOf(x)' # {} =>
                AboutToMark(n) /\ n.snap.shipment = x
    BY <1>1, <1>3, <1>4, <1>6, <2>2 DEF Planned, AboutToMark
  <2> QED BY <2>2, <2>3, <2>4, QueueOnwards
<1>7. CASE ReadShipment(r)
  <2> DEFINE next == NextAfterReading(q.pc, planning[s])
  <2>1. UNCHANGED <<planning, corrected>> /\ q.pc \in {"created", "planned"}
    BY <1>7 DEF ReadShipment
  <2>2. CASE next = "idle"
    <3>1. planning[s] # "unplanned"
      BY <2>1, <2>2 DEF NextAfterReading
    <3>2. End(r)
      BY <1>7, <2>2 DEF ReadShipment
    <3> QED BY <1>1, <1>5, <2>1, <3>1, <3>2 DEF TypeOK
  <2>3. CASE next # "idle"
    <3>1. /\ next \in {"marking", "plan_marking", "forcing"}
          /\ next = "forcing" => planning[s] # "unplanned"
          /\ next # "forcing" => planning[s] = "unplanned"
      BY <2>1, <2>3, <1>1 DEF NextAfterReading, TypeOK, PlanningStatus
    <3>2. Goto(r, next)
      BY <1>7, <2>3 DEF ReadShipment
    <3> HIDE DEF next
    <3> QED BY <1>1, <1>6, <2>1, <3>1, <3>2
  <2> QED BY <2>1, <2>2, <2>3
<1>8. CASE MarkPlanned(r)
  <2>1. /\ planning[s] = "unplanned" /\ t \in TripsOf(s)
        /\ planning' = [planning EXCEPT ![s] = "planned"]
        /\ corrected' = corrected \ {s}
    BY <1>1, <1>8 DEF MarkPlanned, Write, QueueInv, PlannerAgrees
  <2>2. /\ planning' \in [Shipments -> PlanningStatus \cup {"gone"}]
        /\ \A x \in Shipments : planning'[x] = IF x = s THEN "planned" ELSE planning[x]
    BY <1>1, <2>1 DEF TypeOK, PlanningStatus
  <2>3. End(r) \/ Goto(r, "forcing")
    BY <1>8 DEF MarkPlanned
  <2> QED BY <1>1, <1>5, <1>6, <2>1, <2>2, <2>3
<1>9. CASE ForcePlanned(r)
  <2>1. /\ t \in TripsOf(s) /\ End(r) /\ q.pc = "forcing"
        /\ planning' = [planning EXCEPT ![s] = "planned"]
        /\ corrected' = corrected \ {s}
    BY <1>1, <1>9 DEF ForcePlanned, Write
  <2>2. /\ planning' \in [Shipments -> PlanningStatus \cup {"gone"}]
        /\ \A x \in Shipments : planning'[x] = IF x = s THEN "planned" ELSE planning[x]
    BY <1>1, <2>1 DEF TypeOK, PlanningStatus
  <2> QED BY <1>1, <1>5, <2>1, <2>2
<1> QED BY <1>7, <1>8, <1>9

\* A handler commits what it assigned to a trip, and may complete its shipment.
LEMMA WriteQueue ==
  ASSUME Serial, TypeOK, QueueInv, NEW r \in Requests,
         \/ RefineStore(r) \/ RefineError(r) \/ AssignStore(r) \/ StatusStore(r)
         \/ ShareStore(r)
  PROVE  QueueInv'
<1>1. TripsStay /\ End(r)
  BY WritesStay
<1>2. \A s \in Shipments : \/ /\ planning'[s] = planning[s]
                              /\ s \in corrected' <=> s \in corrected
                           \/ planning'[s] = "completed"
  BY DEF RefineStore, RefineError, AssignStore, StatusStore, ShareStore, Write, TypeOK
<1>3. ~AboutToMark(req[r])
  BY DEF RefineStore, RefineError, AssignStore, StatusStore, ShareStore, AboutToMark
<1>4. \A s \in Shipments \ corrected' :
        /\ Planned(s)' => TripsOf(s)' # {}
        /\ planning'[s] = "unplanned" => TripsOf(s)' = {}
  BY <1>1, <1>2, <1>3, StayingTrips DEF QueueInv, Planned, Serial, OneAtATime
<1> QED BY <1>1, <1>2, <1>4, QueueAtEnd

\* The last trip of a planned shipment gives it back to the queue.
LEMMA DeleteQueue ==
  ASSUME Serial, TypeOK, QueueInv, NEW r \in Requests, DeleteFlush(r) \/ DeleteCommit(r)
  PROVE  QueueInv'
<1>0. PICK t, s : t = req[r].trip /\ s = req[r].snap.shipment
  OBVIOUS
<1>1. /\ t \in Trips /\ req[r] \in RequestRecord
      /\ DeleterAgrees(req[r]) /\ ~AboutToMark(req[r])
      /\ trips[t].shipment \in {s, None}
  BY <1>0 DEF DeleteFlush, DeleteCommit, TypeOK, AboutToMark, QueueInv, DeleterAgrees
<1>2. \A x \in Shipments \ corrected :
        /\ Planned(x) => TripsOf(x) # {}
        /\ planning[x] = "unplanned" => TripsOf(x) = {}
  BY <1>1 DEF QueueInv, Serial, OneAtATime
<1>3. CASE DeleteFlush(r)
  <2>1. UNCHANGED <<trips, planning, corrected>> /\ req[r].pc = "deleting"
    BY <1>3 DEF DeleteFlush
  <2>2. TripsStay
    BY <2>1 DEF TripsStay, Stored
  <2> DEFINE seen == IF req[r].seen = "planned" /\ Others(t, s) = {}
                       THEN "last_trip" ELSE "nothing"
  <2>3. PICK q : q = [req[r] EXCEPT !.pc = "deleted", !.seen = seen]
    OBVIOUS
  <2>4. /\ req' = [req EXCEPT ![r] = q]
        /\ q.pc = "deleted" /\ q.trip = t /\ q.snap.shipment = s /\ q.seen = seen
    BY <1>0, <1>1, <1>3, <2>3 DEF DeleteFlush, RequestRecord
  <2>5. \A x : TripsOf(x)' = TripsOf(x) /\ Others(t, x)' = Others(t, x)
    BY <2>2, StayingTrips
  <2>6. (PlannerAgrees(q) /\ DeleterAgrees(q))'
    BY <1>0, <1>1, <2>1, <2>4, <2>5
       DEF AboutToMark, PlannerAgrees, DeleterAgrees, Planned
  <2>7. \A x \in Shipments \ corrected' :
           /\ Planned(x)' => TripsOf(x)' # {}
           /\ planning'[x] = "unplanned" /\ TripsOf(x)' # {} =>
                AboutToMark(q) /\ q.snap.shipment = x
    BY <1>2, <2>1, <2>5 DEF Planned
  <2> QED BY <2>4, <2>6, <2>7, QueueOnwards
<1>4. CASE DeleteCommit(r)
  <2>1. /\ End(r) /\ req[r].pc = "deleted"
        /\ trips' = [trips EXCEPT ![t] = EmptyRow("deleted")]
    BY <1>0, <1>4 DEF DeleteCommit
  <2>2. \A u \in Trips : /\ Stored(u)' <=> Stored(u) /\ u # t
                         /\ u # t => trips'[u] = trips[u]
    BY <2>1 DEF Stored, EmptyRow, TypeOK, TripPlanStatus
  <2>3. \A x : TripsOf(x)' = Others(t, x)
    BY <2>2 DEF TripsOf, Others
  <2>4. None \notin Shipments
    BY TripPlansAssumption DEF TripPlansAssumption
  <2>5. \A x \in Shipments \ {s} : Others(t, x) = TripsOf(x)
    BY <1>1, <2>4 DEF TripsOf, Others
  <2>6. CASE req[r].seen = "last_trip"
    <3>1. s \in Shipments
      BY <1>0, <2>1, <2>6 DEF TypeOK, HoldsShipment
    <3>2. planning[s] = "planned" /\ Others(t, s) = {}
      BY <1>0, <1>1, <1>4, <2>1, <2>6 DEF DeleterAgrees, DeleteCommit
    <3>3. /\ \A x \in Shipments : planning'[x] = IF x = s THEN "unplanned" ELSE planning[x]
          /\ corrected' = corrected \ {s}
      BY <1>0, <1>4, <2>6, <3>1 DEF DeleteCommit, Write, TypeOK
    <3>4. \A x \in Shipments \ corrected' :
            /\ Planned(x)' => TripsOf(x)' # {}
            /\ planning'[x] = "unplanned" => TripsOf(x)' = {}
      BY <1>2, <2>3, <2>5, <3>2, <3>3 DEF Planned
    <3> QED BY <2>1, <3>4, QueueAtEnd
  <2>7. CASE req[r].seen # "last_trip"
    <3>1. UNCHANGED <<planning, corrected>>
      BY <1>4, <2>7 DEF DeleteCommit
    <3>2. s \in Shipments /\ Planned(s) => Others(t, s) # {}
      BY <1>0, <1>1, <2>1, <2>7 DEF DeleterAgrees
    <3>3. \A x : Others(t, x) \subseteq TripsOf(x)
      BY DEF TripsOf, Others
    <3>4. \A x \in Shipments \ corrected' :
            /\ Planned(x)' => TripsOf(x)' # {}
            /\ planning'[x] = "unplanned" => TripsOf(x)' = {}
      BY <1>2, <2>3, <2>5, <3>1, <3>2, <3>3 DEF Planned
    <3> QED BY <2>1, <3>4, QueueAtEnd
  <2> QED BY <2>6, <2>7
<1> QED BY <1>3, <1>4

\* A request ends with an error, or waits for its route.
LEMMA OtherQueue ==
  ASSUME Serial, TypeOK, QueueInv, NEW r \in Requests, RouteReturns(r) \/ Rejected(r)
  PROVE  QueueInv'
<1>1. UNCHANGED <<trips, planning, corrected>>
  BY DEF RouteReturns, Rejected
<1>2. TripsStay
  BY <1>1 DEF TripsStay, Stored
<1>3. AboutToMark(req[r]) =>
        Rejected(r) /\ planning[req[r].snap.shipment] = "gone"
  BY DEF RouteReturns, Rejected, AboutToMark
<1>4. \A s \in Shipments \ corrected' :
        /\ Planned(s)' => TripsOf(s)' # {}
        /\ planning'[s] = "unplanned" => TripsOf(s)' = {}
  BY <1>1, <1>2, <1>3, StayingTrips DEF QueueInv, Planned, Serial, OneAtATime
<1>5. CASE Rejected(r)
  BY <1>1, <1>4, <1>5, QueueAtEnd DEF Rejected
<1>6. CASE RouteReturns(r)
  <2>1. req[r] \in RequestRecord
    BY DEF TypeOK
  <2>2. PICK q : req' = [req EXCEPT ![r] = q] /\ q.pc = "routed"
    <3>1. PICK snap : \/ Goto(r, "routed") /\ snap = req[r].snap
                      \/ req' = [req EXCEPT ![r].pc = "routed", ![r].snap = snap]
      BY <1>6 DEF RouteReturns
    <3>2. PICK n : n = [req[r] EXCEPT !.pc = "routed", !.snap = snap]
      OBVIOUS
    <3>3. PICK m : m = [req[r] EXCEPT !.pc = "routed"]
      OBVIOUS
    <3>4. n.pc = "routed" /\ m.pc = "routed"
      BY <2>1, <3>2, <3>3 DEF RequestRecord
    <3>5. req' = [req EXCEPT ![r] = n] \/ req' = [req EXCEPT ![r] = m]
      BY <2>1, <3>1, <3>2, <3>3 DEF Goto, TypeOK, RequestRecord
    <3> QED BY <3>4, <3>5
  <2>3. (PlannerAgrees(q) /\ DeleterAgrees(q))'
    BY <2>2 DEF AboutToMark, PlannerAgrees, DeleterAgrees
  <2>4. \A s \in Shipments \ corrected' :
           /\ Planned(s)' => TripsOf(s)' # {}
           /\ planning'[s] = "unplanned" /\ TripsOf(s)' # {} =>
                AboutToMark(q) /\ q.snap.shipment = s
    BY <1>4
  <2> QED BY <2>2, <2>3, <2>4, QueueOnwards
<1> QED BY <1>5, <1>6

\* A deleted shipment is on no list, and its trips carry it no longer.
LEMMA ShipmentGoneQueue ==
  ASSUME TypeOK, QueueInv, NEW s \in Shipments, DeleteShipment(s)
  PROVE  QueueInv'
<1>1. None \notin Shipments
  BY TripPlansAssumption DEF TripPlansAssumption
<1>2. /\ req' = req /\ corrected' = corrected
      /\ \A x \in Shipments : planning'[x] = IF x = s THEN "gone" ELSE planning[x]
  BY DEF DeleteShipment, TypeOK
<1>3. \A u \in Trips :
        /\ Stored(u)' <=> Stored(u)
        /\ trips'[u].shipment = IF trips[u].shipment = s THEN None ELSE trips[u].shipment
  BY DEF DeleteShipment, TypeOK, Row, Stored
<1>4. \A x \in Shipments \ {s} :
        TripsOf(x)' = TripsOf(x) /\ \A u : Others(u, x)' = Others(u, x)
  BY <1>1, <1>3 DEF TripsOf, Others
<1>5. \A u : TripsOf(s)' = {} /\ Others(u, s)' = {}
  BY <1>1, <1>3 DEF TripsOf, Others
<1>6. ASSUME NEW r \in Requests PROVE (PlannerAgrees(req[r]) /\ DeleterAgrees(req[r]))'
  <2>1. PICK q : q = req[r]
    OBVIOUS
  <2>2. PlannerAgrees(q) /\ DeleterAgrees(q)
    BY <2>1 DEF QueueInv
  <2>3. /\ HoldsShipment(q) => q.snap.shipment \in Shipments
        /\ q.pc # "idle" => q.trip \in Trips
    BY <2>1 DEF TypeOK
  <2>4. PlannerAgrees(q)'
    BY <1>2, <1>4, <1>5, <2>2, <2>3 DEF PlannerAgrees, AboutToMark, HoldsShipment
  <2>5. DeleterAgrees(q)'
    BY <1>2, <1>3, <1>4, <1>5, <2>2, <2>3 DEF DeleterAgrees, HoldsShipment, Planned
  <2> QED BY <2>1, <2>4, <2>5, <1>2
<1>7. ASSUME NEW x \in Shipments \ corrected
      PROVE  /\ Planned(x)' => TripsOf(x)' # {}
             /\ planning'[x] = "unplanned" /\ TripsOf(x)' # {} =>
                  \E r \in Requests : AboutToMark(req'[r]) /\ req'[r].snap.shipment = x
  BY <1>2, <1>4, <1>5 DEF QueueInv, Planned
<1> QED BY <1>2, <1>6, <1>7 DEF QueueInv, AboutToMark

\* A dispatcher sets the status while nothing is in flight; from then on that
\* shipment is excused.
LEMMA CorrectedQueue ==
  ASSUME Serial, TypeOK, QueueInv, NEW r \in Requests, NEW s \in Shipments,
         UpdateShipment(r, s)
  PROVE  QueueInv'
<1>1. /\ UNCHANGED <<trips, req>> /\ corrected' = corrected \cup {s}
      /\ \A x \in Shipments \ {s} : planning'[x] = planning[x]
  BY DEF UpdateShipment, TypeOK
<1>2. TripsStay
  BY <1>1 DEF TripsStay, Stored
<1>3. \A p \in Requests : req[p].pc = "idle"
  BY DEF UpdateShipment, Serial, OneAtATime
<1>4. \A x \in Shipments \ corrected' :
        /\ Planned(x)' => TripsOf(x)' # {}
        /\ planning'[x] = "unplanned" => TripsOf(x)' = {}
  BY <1>1, <1>2, <1>3, StayingTrips DEF QueueInv, AboutToMark, Planned
<1>5. \A p \in Requests : (PlannerAgrees(req[p]) /\ DeleterAgrees(req[p]))'
  BY <1>1, <1>3 DEF PlannerAgrees, DeleterAgrees, AboutToMark
<1> QED BY <1>4, <1>5 DEF QueueInv

LEMMA InitQueue == Init => QueueInv
<1> SUFFICES ASSUME Init PROVE QueueInv
  OBVIOUS
<1>1. \A r \in Requests : PlannerAgrees(req[r]) /\ DeleterAgrees(req[r])
  BY IdleAgrees DEF Init
<1>2. None \notin Shipments
  BY TripPlansAssumption DEF TripPlansAssumption
<1>3. \A t \in Trips : trips[t].shipment = None
  <2>1. PICK v \in Vehicles, g \in Routes : trips = [t \in Trips |-> InitialRow(t, v, g)]
    BY DEF Init
  <2> QED BY <2>1 DEF InitialRow, EmptyRow
<1>4. \A s \in Shipments : planning[s] = "unplanned" /\ TripsOf(s) = {}
  BY <1>2, <1>3 DEF Init, TripsOf
<1> QED BY <1>1, <1>4 DEF QueueInv, Planned

LEMMA StepQueue ==
  ASSUME Serial, TypeOK, ClaimsHold, QueueInv, [Next]_vars
  PROVE  QueueInv'
<1>1. CASE \E r \in Requests, t \in Trips : Begin(r, t)
  BY <1>1, BeginQueue
<1>2. CASE \E r \in Requests : Continue(r) \/ Fault(r)
  <2>1. PICK r \in Requests : Continue(r)
    BY <1>2 DEF Serial, Fault
  <2>2. CASE CreateStore(r)
    BY <2>2, StoreQueue
  <2>3. CASE ReadShipment(r) \/ MarkPlanned(r) \/ ForcePlanned(r)
    BY <2>3, MarkQueue
  <2>4. CASE \/ RefineStore(r) \/ RefineError(r) \/ AssignStore(r) \/ StatusStore(r)
             \/ ShareStore(r)
    BY <2>4, WriteQueue
  <2>5. CASE DeleteFlush(r) \/ DeleteCommit(r)
    BY <2>5, DeleteQueue
  <2>6. CASE RouteReturns(r) \/ Rejected(r)
    BY <2>6, OtherQueue
  <2> QED BY <2>1, <2>2, <2>3, <2>4, <2>5, <2>6 DEF Continue
<1>3. CASE \E s \in Shipments : DeleteShipment(s)
  BY <1>3, ShipmentGoneQueue
<1>4. CASE \E v \in Vehicles : DeleteVehicle(v)
  BY <1>4 DEF DeleteVehicle, Serial
<1>5. CASE \E r \in Requests, s \in Shipments : UpdateShipment(r, s)
  BY <1>5, CorrectedQueue
<1>6. CASE UNCHANGED vars
  <2>1. UNCHANGED <<trips, planning, corrected, req>>
    BY <1>6 DEF vars
  <2>2. TripsStay
    BY <2>1 DEF TripsStay, Stored
  <2>3. \A s : TripsOf(s)' = TripsOf(s) /\ \A t : Others(t, s)' = Others(t, s)
    BY <2>2, StayingTrips
  <2> QED BY <2>1, <2>3 DEF QueueInv, PlannerAgrees, DeleterAgrees, Planned, AboutToMark
<1> QED BY <1>1, <1>2, <1>3, <1>4, <1>5, <1>6 DEF Next

LEMMA QueueInvariant == ASSUME Serial PROVE Spec => []QueueInv
<1>1. TypeOK /\ ClaimsHold /\ QueueInv /\ [Next]_vars => QueueInv'
  BY StepQueue
<1>2. LifecycleInv => ClaimsHold
  BY DEF LifecycleInv
<1> QED BY <1>1, <1>2, InitQueue, TypeCorrect, LifecycleInvariant, PTL DEF Spec

\* When requests run one after the other, none dies halfway and no vehicle is
\* deleted, then whenever no request is in flight the planning queue lists exactly
\* the shipments without a trip and a planned shipment has one, save a shipment
\* whose status a dispatcher set by hand and no request has written since: for any
\* number of trips and shipments, shipments being corrected and deleted meanwhile.
THEOREM QueueAlwaysAgrees == ASSUME Serial PROVE Spec => []QueueAgreesWithTrips
<1>1. QueueInv => QueueAgreesWithTrips
  BY DEF QueueInv, QueueAgreesWithTrips, Quiet, AboutToMark, Planned
<1> QED BY <1>1, QueueInvariant, PTL

-----------------------------------------------------------------------------
(* One request at a time, dying halfway or not: what is delivered stays so   *)

LEMMA StepReads ==
  ASSUME OneAtATime, TypeOK, ReadsHold, [Next]_vars
  PROVE  ReadsHold'
<1> DEFINE Holds(q, status) ==
      /\ q.pc \in {"marking", "plan_marking"} => status[q.snap.shipment] \in {"unplanned", "gone"}
      /\ \/ q.pc = "deleting" /\ q.seen = "planned"
         \/ q.pc = "deleted" /\ q.seen = "last_trip"
         => status[q.snap.shipment] \in {"planned", "gone"}
<1>1. \A r \in Requests : Holds(req[r], planning)
  BY DEF ReadsHold
<1>2. SUFFICES \A r \in Requests : Holds(req'[r], planning')
  BY DEF ReadsHold
<1>3. \A status : Holds(Idle, status)
  BY DEF Idle
<1>4. ASSUME NEW r \in Requests, NEW q, req' = [req EXCEPT ![r] = q],
             Holds(q, planning')
      PROVE  \A p \in Requests : Holds(req'[p], planning')
  <2>1. \A p \in Requests : p = r /\ req'[p] = q
    BY <1>4 DEF OneAtATime, TypeOK
  <2> HIDE DEF Holds
  <2> QED BY <2>1, <1>4
<1>5. ASSUME NEW r \in Requests, End(r)
      PROVE  \A p \in Requests : Holds(req'[p], planning')
  <2> HIDE DEF Holds
  <2> QED BY <1>3, <1>4, <1>5 DEF End
<1>6. CASE \E r \in Requests, t \in Trips : Begin(r, t)
  <2>1. PICK r \in Requests, t \in Trips : Begin(r, t)
    BY <1>6
  <2>2. planning' = planning
    BY <2>1 DEF Begin, CreateStart, PlanStart, RefineStart, AssignStart, StatusStart,
                ShareStart, DeleteStart
  <2>3. PICK pc, snap, seen :
          /\ Start(r, pc, t, snap, seen)
          /\ pc \notin {"marking", "plan_marking", "deleted"}
          /\ pc = "deleting" /\ seen = "planned" => planning[snap.shipment] = "planned"
    <3>1. CASE DeleteStart(r, t)
      <4>1. PICK seen : /\ Start(r, "deleting", t, trips[t], seen)
                        /\ seen = IF trips[t].shipment = None THEN "gone"
                                  ELSE planning[trips[t].shipment]
        BY <3>1 DEF DeleteStart
      <4>2. seen = "planned" => planning[trips[t].shipment] = "planned"
        BY <4>1
      <4> QED BY <4>1, <4>2
    <3>2. ASSUME NEW pc \in {"creating", "planning"}, NEW v, NEW s,
                 Start(r, pc, t, [EmptyRow("draft") EXCEPT !.vehicle = v, !.shipment = s],
                       "nothing")
          PROVE  \E snap : Start(r, pc, t, snap, "nothing")
      BY <3>2
    <3>3. CASE CreateStart(r, t)
      <4>1. \E snap : Start(r, "creating", t, snap, "nothing")
        BY <3>2, <3>3 DEF CreateStart
      <4> QED BY <4>1
    <3>4. CASE PlanStart(r, t)
      <4>1. \E snap : Start(r, "planning", t, snap, "nothing")
        BY <3>2, <3>4 DEF PlanStart
      <4> QED BY <4>1
    <3>5. CASE RefineStart(r, t) \/ AssignStart(r, t) \/ StatusStart(r, t) \/ ShareStart(r, t)
      BY <3>5 DEF RefineStart, AssignStart, StatusStart, ShareStart
    <3> QED BY <2>1, <3>1, <3>3, <3>4, <3>5 DEF Begin
  <2>4. PICK q : q = [pc |-> pc, trip |-> t, snap |-> snap, seen |-> seen]
    OBVIOUS
  <2>5. Holds(q, planning')
    BY <2>2, <2>3, <2>4
  <2>6. req' = [req EXCEPT ![r] = q]
    BY <2>3, <2>4 DEF Start
  <2> HIDE DEF Holds
  <2> QED BY <1>4, <2>5, <2>6
<1>7. CASE \E r \in Requests : Continue(r) \/ Fault(r)
  <2>1. PICK r \in Requests : Continue(r) \/ Fault(r)
    BY <1>7
  <2>2. /\ req[r] \in RequestRecord
        /\ req[r].snap.shipment \in Shipments => planning[req[r].snap.shipment] \in PlanningStatus \cup {"gone"}
    BY DEF TypeOK
  <2>3. ASSUME NEW pc, Goto(r, pc), pc \notin {"deleting", "deleted"},
               pc \in {"marking", "plan_marking"} =>
                 planning'[req[r].snap.shipment] \in {"unplanned", "gone"}
        PROVE  \A p \in Requests : Holds(req'[p], planning')
    <3>1. PICK q : q = [req[r] EXCEPT !.pc = pc]
      OBVIOUS
    <3>2. q.pc = pc /\ q.snap = req[r].snap
      BY <2>2, <3>1 DEF RequestRecord
    <3>3. Holds(q, planning')
      BY <2>3, <3>2
    <3>4. req' = [req EXCEPT ![r] = q]
      BY <2>3, <3>1 DEF Goto
    <3> HIDE DEF Holds
    <3> QED BY <1>4, <3>3, <3>4
  <2>4. CASE CreateStore(r)
    <3>1. End(r) \/ Goto(r, "created") \/ Goto(r, "planned")
      BY <2>4 DEF CreateStore
    <3> HIDE DEF Holds
    <3> QED BY <1>5, <2>3, <3>1
  <2>5. CASE ReadShipment(r)
    <3> DEFINE next == NextAfterReading(req[r].pc, planning[req[r].snap.shipment])
    <3>1. /\ next \in {"idle", "marking", "plan_marking", "forcing"}
          /\ next \in {"marking", "plan_marking"} =>
               planning[req[r].snap.shipment] = "unplanned"
      BY DEF NextAfterReading
    <3>2. /\ IF next = "idle" THEN End(r) ELSE Goto(r, next)
          /\ planning' = planning
      BY <2>5 DEF ReadShipment
    <3> HIDE DEF Holds, next
    <3> QED BY <1>5, <2>3, <3>1, <3>2
  <2>6. CASE MarkPlanned(r) \/ ForcePlanned(r)
    <3>1. End(r) \/ Goto(r, "forcing")
      BY <2>6 DEF MarkPlanned, ForcePlanned
    <3> HIDE DEF Holds
    <3> QED BY <1>5, <2>3, <3>1
  <2>7. CASE RouteReturns(r)
    <3>1. PICK q : req' = [req EXCEPT ![r] = q] /\ q.pc = "routed"
      <4>1. PICK snap : \/ Goto(r, "routed") /\ snap = req[r].snap
                        \/ req' = [req EXCEPT ![r].pc = "routed", ![r].snap = snap]
        BY <2>7 DEF RouteReturns
      <4>2. PICK n : n = [req[r] EXCEPT !.pc = "routed", !.snap = snap]
        OBVIOUS
      <4>3. PICK m : m = [req[r] EXCEPT !.pc = "routed"]
        OBVIOUS
      <4>4. n.pc = "routed" /\ m.pc = "routed"
        BY <2>2, <4>2, <4>3 DEF RequestRecord
      <4>5. req' = [req EXCEPT ![r] = n] \/ req' = [req EXCEPT ![r] = m]
        BY <2>2, <4>1, <4>2, <4>3 DEF Goto, TypeOK, RequestRecord
      <4> QED BY <4>4, <4>5
    <3>2. Holds(q, planning')
      BY <3>1
    <3> HIDE DEF Holds
    <3> QED BY <1>4, <3>1, <3>2
  <2>8. CASE DeleteFlush(r)
    <3>1. PICK q : /\ req' = [req EXCEPT ![r] = q]
                   /\ q.pc = "deleted" /\ q.snap = req[r].snap
                   /\ q.seen = "last_trip" => req[r].seen = "planned"
      <4> DEFINE seen == IF /\ req[r].seen = "planned"
                            /\ Others(req[r].trip, req[r].snap.shipment) = {}
                           THEN "last_trip" ELSE "nothing"
      <4>1. PICK n : n = [req[r] EXCEPT !.pc = "deleted", !.seen = seen]
        OBVIOUS
      <4>2. req' = [req EXCEPT ![r] = n]
        BY <4>1, <2>2, <2>8 DEF DeleteFlush, RequestRecord
      <4>3. n.pc = "deleted" /\ n.snap = req[r].snap /\ n.seen = seen
        BY <4>1, <2>2 DEF RequestRecord
      <4> QED BY <4>2, <4>3
    <3>2. planning' = planning /\ req[r].pc = "deleting"
      BY <2>8 DEF DeleteFlush
    <3>3. Holds(q, planning')
      BY <1>1, <3>1, <3>2
    <3> HIDE DEF Holds
    <3> QED BY <1>4, <3>1, <3>3
  <2>9. CASE \/ RefineStore(r) \/ RefineError(r) \/ AssignStore(r) \/ StatusStore(r)
             \/ ShareStore(r) \/ DeleteCommit(r) \/ Rejected(r) \/ Fault(r)
    <3>1. End(r)
      BY <2>9 DEF RefineStore, RefineError, AssignStore, StatusStore, ShareStore,
                  DeleteCommit, Rejected, Fault, Commit
    <3> HIDE DEF Holds
    <3> QED BY <1>5, <3>1
  <2> QED BY <2>1, <2>4, <2>5, <2>6, <2>7, <2>8, <2>9 DEF Continue
<1>8. CASE \E r \in Requests, s \in Shipments : UpdateShipment(r, s)
  <2>1. \A r \in Requests : req'[r] = req[r] /\ req[r].pc = "idle"
    BY <1>8 DEF UpdateShipment, OneAtATime
  <2> QED BY <2>1
<1>9. CASE \E s \in Shipments : DeleteShipment(s)
  <2>1. PICK s \in Shipments : DeleteShipment(s)
    BY <1>9
  <2>2. req' = req /\ \A x : planning'[x] \in {planning[x], "gone"} \/ x \notin Shipments
    BY <2>1 DEF DeleteShipment, TypeOK
  <2>3. \A r \in Requests : HoldsShipment(req[r]) => req[r].snap.shipment \in Shipments
    BY DEF TypeOK
  <2> QED BY <1>1, <2>2, <2>3 DEF HoldsShipment
<1>10. CASE (\E v \in Vehicles : DeleteVehicle(v)) \/ UNCHANGED vars
  <2>1. UNCHANGED <<planning, req>>
    BY <1>10 DEF DeleteVehicle, vars
  <2> QED BY <1>1, <2>1
<1> QED BY <1>6, <1>7, <1>8, <1>9, <1>10 DEF Next

\* Who may change the status of a shipment, and from what to what.
LEMMA StatusChanges ==
  ASSUME TypeOK, ReadsHold, [Next]_vars, NEW s \in Shipments, planning'[s] # planning[s]
  PROVE  \/ \E r \in Requests : req[r].pc = "forcing"
         \/ s \in corrected'
         \/ planning[s] # "completed"
         \/ planning'[s] \in {"completed", "gone"}
<1>1. CASE \E r \in Requests, t \in Trips : Begin(r, t)
  BY <1>1 DEF Begin, CreateStart, PlanStart, RefineStart, AssignStart, StatusStart,
              ShareStart, DeleteStart
<1>2. CASE \E r \in Requests : Continue(r) \/ Fault(r)
  <2>1. PICK r \in Requests : Continue(r) \/ Fault(r)
    BY <1>2
  <2>2. CASE MarkPlanned(r)
    <3>1. /\ planning[req[r].snap.shipment] = "unplanned"
          /\ planning' = [planning EXCEPT ![req[r].snap.shipment] = "planned"]
      BY <2>2 DEF MarkPlanned, Write, ReadsHold
    <3> QED BY <3>1 DEF TypeOK
  <2>3. CASE ForcePlanned(r)
    BY <2>3 DEF ForcePlanned
  <2>4. CASE StatusStore(r)
    BY <2>4 DEF StatusStore, Write, TypeOK
  <2>5. CASE DeleteCommit(r)
    <3>1. \/ planning' = planning
          \/ /\ planning[req[r].snap.shipment] = "planned"
             /\ planning' = [planning EXCEPT ![req[r].snap.shipment] = "unplanned"]
      BY <2>5 DEF DeleteCommit, Write, ReadsHold
    <3> QED BY <3>1 DEF TypeOK
  <2> QED BY <2>1, <2>2, <2>3, <2>4, <2>5
        DEF Continue, CreateStore, ReadShipment, RouteReturns, RefineStore, RefineError,
            AssignStore, ShareStore, DeleteFlush, Rejected, Fault
<1>3. CASE \E r \in Requests, x \in Shipments : UpdateShipment(r, x)
  BY <1>3 DEF UpdateShipment, TypeOK
<1>4. CASE \E x \in Shipments : DeleteShipment(x)
  BY <1>4 DEF DeleteShipment, TypeOK
<1>5. CASE (\E v \in Vehicles : DeleteVehicle(v)) \/ UNCHANGED vars
  BY <1>5 DEF DeleteVehicle, vars
<1> QED BY <1>1, <1>2, <1>3, <1>4, <1>5 DEF Next

\* When requests run one after the other, a delivered shipment is reopened by a
\* dispatcher's plan or by his own correction of the status and by nothing else,
\* whether requests die halfway or not and whatever is deleted meanwhile.
THEOREM DeliveredStaysDelivered == ASSUME OneAtATime PROVE Spec => OnlyPlanReopens
<1>1. Init => ReadsHold
  BY DEF Init, ReadsHold, Idle
<1>2. TypeOK /\ ReadsHold /\ [Next]_vars => ReadsHold'
  BY StepReads
<1>3. TypeOK /\ ReadsHold /\ [Next]_vars =>
        [\A s \in Shipments :
           /\ planning[s] = "completed"
           /\ planning'[s] \notin {"completed", "gone"}
           => \/ \E r \in Requests : req[r].pc = "forcing"
              \/ s \in corrected']_vars
  BY StatusChanges
<1> QED
  BY <1>1, <1>2, <1>3, TypeCorrect, PTL DEF Spec, OnlyPlanReopens
=============================================================================
