---------------------------- MODULE FuelOptimizer ----------------------------
(***************************************************************************)
(* GreedyFuelOptimizationStrategy.optimize (fuel_optimization/domain.py):  *)
(* a truck drives one route, buys fuel where the strategy stops, and may   *)
(* not fall below its reserve.                                             *)
(*                                                                         *)
(* Fuel is counted in grains, Quantum of them to the 0.0001 gallon the     *)
(* code rounds to; a distance is given by the grains it burns, so that     *)
(* fuel_required is the distance itself.  A price is money for one grain.  *)
(***************************************************************************)
EXTENDS Naturals, Sequences

CONSTANTS
  Stations,   \* ids; their order stands for the order of the ids as strings
  Contexts,   \* the optimization contexts to consider
  Quantum,    \* grains in 0.0001 gallon
  None

\* An optimization context as the use case assembles it.  No minimum is least
\* = 0, no maximum is most = usable: neither then changes a purchase.
ContextType ==
  [total   : Nat,               \* total_distance_meters
   usable  : Nat,               \* usable_tank_capacity_gallons
   reserve : Nat,
   initial : Nat,
   least   : Nat,               \* min_refuel_gallons
   most    : Nat,               \* max_refuel_gallons
   at      : [Stations -> Nat], \* route_offset_meters
   detour  : [Stations -> Nat], \* detour.distance_meters
   price   : [Stations -> Nat],
   charge  : [Stations -> Nat]] \* stop_time_cost + fixed_stop_cost

\* _validate_reserve keeps an explicit reserve within a quarter of the tank,
\* optimize refuses an initial fuel above the tank.
FitsTank(c) == 4 * c.reserve <= c.usable /\ c.initial <= c.usable

ASSUME FuelOptimizerAssumption ==
  /\ Stations \subseteq Nat
  /\ Quantum \in Nat \ {0}
  /\ Contexts \subseteq ContextType
  /\ None \notin Stations

VARIABLES
  ctx,        \* the context, fixed
  pc,
  offset,     \* current_offset
  station,    \* current_station
  fuel,       \* current_fuel
  target,     \* next_target
  consumed,   \* total_consumed
  purchased,  \* total_purchased
  cost,       \* total_cost_precise
  stops,
  reached,    \* reached_stations
  failure     \* the failure's reason and primary target

vars == <<ctx, pc, offset, station, fuel, target, consumed, purchased, cost,
          stops, reached, failure>>

FailureReason ==
  {"no_reachable_station", "no_reachable_continuation",
   "planned_station_unreachable", "destination_unreachable"}

FailureTarget == [kind : {"station", "destination", "missing"},
                  station : Stations \cup {None}]

NoFailure == [reason |-> None, target |-> [kind |-> "missing", station |-> None]]

-----------------------------------------------------------------------------
(* Distances and reachability *)

FuelBetween(from, to, detour) == (IF from < to THEN to - from ELSE 0) + detour

FuelTo(s) == FuelBetween(offset, ctx.at[s], ctx.detour[s])

FuelToDestination == FuelBetween(offset, ctx.total, 0)

DestinationReachableWithMore == fuel > FuelToDestination + ctx.reserve

DestinationReachable == fuel >= FuelToDestination + ctx.reserve

Ahead == {s \in Stations : offset < ctx.at[s] /\ ctx.at[s] <= ctx.total}

Reachable(tank, arrival) == {s \in Ahead : tank >= FuelTo(s) + arrival}

\* From the origin a truck that is already below its reserve may run dry.
OriginArrival == IF fuel >= ctx.reserve THEN ctx.reserve ELSE 0

-----------------------------------------------------------------------------
(* _select_cheapest_reachable *)

Volume(s) == ctx.usable + FuelTo(s) - fuel

\* effective_price_per_gallon is Payment / Delivered, or absent when the detour
\* swallows the purchase.
Payment(s) == Volume(s) * ctx.price[s] + ctx.charge[s]

Delivered(s) == Volume(s) - ctx.detour[s]

Priced(s) == Volume(s) > ctx.detour[s]

Cheaper(s, u) == Payment(s) * Delivered(u) < Payment(u) * Delivered(s)

Farther(s, u) == ctx.at[s] > ctx.at[u] \/ (ctx.at[s] = ctx.at[u] /\ s > u)

Nearest(candidates) ==
  {s \in candidates : \A u \in candidates \ {s} : Farther(u, s)}

\* max() over (priced, lowest effective price, farthest, highest id).
Beats(s, u) ==
  \/ Priced(s) /\ (Priced(u) => Cheaper(s, u))
  \/ /\ Priced(s) = Priced(u)
     /\ Priced(s) => ~Cheaper(s, u) /\ ~Cheaper(u, s)
     /\ Farther(s, u)

Cheapest(candidates) ==
  {s \in candidates : \A u \in candidates \ {s} : Beats(s, u)}

-----------------------------------------------------------------------------
(* _select_cheaper_station_ahead *)

Least2(a, b) == IF a < b THEN a ELSE b

FillHere == Least2(ctx.usable, FuelToDestination + ctx.reserve)

NextStopIsMandatory == ctx.usable < FuelToDestination + ctx.reserve

Shifted(s) ==
  IF FillHere > FuelTo(s) + ctx.reserve
    THEN FillHere - (FuelTo(s) + ctx.reserve) ELSE 0

Overhead(s) ==
  IF NextStopIsMandatory THEN 0
  ELSE ctx.charge[s] + ctx.detour[s] * ctx.price[s]

PaysOff(s) ==
  /\ ctx.price[s] < ctx.price[station]
  /\ (ctx.price[station] - ctx.price[s]) * Shifted(s) > Overhead(s)

PayingAhead == {s \in Reachable(ctx.usable, ctx.reserve) : PaysOff(s)}

FarthestCheaperAhead ==
  {s \in PayingAhead : \A u \in PayingAhead \ {s} : Farther(s, u)}

\* The first in the order of (offset, id) that pays off, of those a full tank
\* reaches.
CheaperAhead == Nearest(PayingAhead)

-----------------------------------------------------------------------------
(* How much to buy *)

RoundDown(x) == (x \div Quantum) * Quantum

RoundUp(x) == ((x + Quantum - 1) \div Quantum) * Quantum

DesiredFuel(next) ==
  Least2(ctx.usable,
         RoundUp(ctx.reserve + IF next = None THEN FuelToDestination ELSE FuelTo(next)))

Missing(next) == IF DesiredFuel(next) > fuel THEN DesiredFuel(next) - fuel ELSE 0

AtLeastMinimumWhateverTheRoom(added) ==
  IF added = 0 THEN 0 ELSE IF added < ctx.least THEN ctx.least ELSE added

\* A minimum that does not fit the tank skips the stop.
AtLeastMinimum(added) ==
  IF added = 0 \/ ctx.usable - fuel < ctx.least THEN 0
  ELSE IF added < ctx.least THEN ctx.least ELSE added

Purchase(next) == Least2(AtLeastMinimum(Missing(next)), ctx.most)

-----------------------------------------------------------------------------
(* _build_failure: the first station ahead that is out of reach, else the  *)
(* destination; with neither the code raises a RuntimeError.               *)

OutOfReach == {s \in Ahead : fuel < FuelTo(s) + ctx.reserve}

PrimaryTarget ==
  IF OutOfReach # {}
    THEN {[kind |-> "station", station |-> s] : s \in Nearest(OutOfReach)}
  ELSE {[kind |-> IF fuel < FuelToDestination + ctx.reserve
                    THEN "destination" ELSE "missing",
         station |-> None]}

-----------------------------------------------------------------------------
(* The loop *)

Fail(reason) ==
  /\ pc' = "infeasible"
  /\ \E t \in PrimaryTarget : failure' = [reason |-> reason, target |-> t]
  /\ UNCHANGED <<ctx, offset, station, fuel, target, consumed, purchased, cost,
                 stops, reached>>

Travel(s) ==
  /\ fuel' = fuel - FuelTo(s)
  /\ consumed' = consumed + FuelTo(s)
  /\ offset' = ctx.at[s]
  /\ station' = s
  /\ reached' = Append(reached, [station |-> s, fuel |-> fuel'])
  /\ target' = None
  /\ pc' = "evaluate"
  /\ UNCHANGED <<ctx, purchased, cost, stops, failure>>

\* The destination is reachable with the reserve intact.
Succeed ==
  /\ pc = "evaluate"
  /\ DestinationReachable
  /\ pc' = "success"
  /\ fuel' = fuel - FuelToDestination
  /\ consumed' = consumed + FuelToDestination
  /\ UNCHANGED <<ctx, offset, station, target, purchased, cost, stops, reached,
                 failure>>

DriveToFirstStation ==
  /\ pc = "evaluate"
  /\ ~DestinationReachable
  /\ station = None
  /\ \E s \in Cheapest(Reachable(fuel, OriginArrival)) : Travel(s)

NoFirstStation ==
  /\ pc = "evaluate"
  /\ ~DestinationReachable
  /\ station = None
  /\ Reachable(fuel, OriginArrival) = {}
  /\ Fail(IF Ahead # {} THEN "no_reachable_station" ELSE "destination_unreachable")

Buy(added) ==
  /\ fuel' = fuel + added
  /\ purchased' = purchased + added
  /\ cost' = cost + added * ctx.price[station]
  /\ stops' = IF added = 0 THEN stops
              ELSE Append(stops, [station |-> station, before |-> fuel, added |-> added])

\* At a station: look ahead, then buy the minimum for a cheaper station or what
\* the destination or the tank takes.
Refuel ==
  /\ pc = "evaluate"
  /\ ~DestinationReachable
  /\ station # None
  /\ \E next \in IF CheaperAhead = {} THEN {None} ELSE CheaperAhead :
       /\ Buy(Purchase(next))
       /\ target' = next
       /\ pc' = IF next = None THEN "refuelled" ELSE "depart"
  /\ UNCHANGED <<ctx, offset, station, consumed, reached, failure>>

ContinueUnchecked ==
  /\ pc = "refuelled"
  /\ pc' = "evaluate"
  /\ UNCHANGED <<ctx, offset, station, fuel, target, consumed, purchased, cost,
                 stops, reached, failure>>

Continue ==
  /\ pc = "refuelled"
  /\ DestinationReachable
  /\ pc' = "evaluate"
  /\ UNCHANGED <<ctx, offset, station, fuel, target, consumed, purchased, cost,
                 stops, reached, failure>>

ChooseNext ==
  /\ pc = "refuelled"
  /\ ~DestinationReachable
  /\ target' \in Cheapest(Reachable(fuel, ctx.reserve))
  /\ pc' = "depart"
  /\ UNCHANGED <<ctx, offset, station, fuel, consumed, purchased, cost, stops,
                 reached, failure>>

NoContinuation ==
  /\ pc = "refuelled"
  /\ ~DestinationReachable
  /\ Reachable(fuel, ctx.reserve) = {}
  /\ Fail(IF Ahead # {} THEN "no_reachable_continuation" ELSE "destination_unreachable")

DepartOnEmpty ==
  /\ pc = "depart"
  /\ fuel >= FuelTo(target)
  /\ Travel(target)

Depart ==
  /\ pc = "depart"
  /\ fuel >= FuelTo(target) + ctx.reserve
  /\ Travel(target)

PlannedStationUnreachable ==
  /\ pc = "depart"
  /\ fuel < FuelTo(target) + ctx.reserve
  /\ Fail("planned_station_unreachable")

Init ==
  /\ ctx \in {c \in Contexts : FitsTank(c)}
  /\ pc = "evaluate"
  /\ offset = 0
  /\ station = None
  /\ fuel = ctx.initial
  /\ target = None
  /\ consumed = 0
  /\ purchased = 0
  /\ cost = 0
  /\ stops = <<>>
  /\ reached = <<>>
  /\ failure = NoFailure

Next ==
  \/ Succeed
  \/ DriveToFirstStation
  \/ NoFirstStation
  \/ Refuel
  \/ Continue
  \/ ChooseNext
  \/ NoContinuation
  \/ Depart
  \/ PlannedStationUnreachable

Spec == Init /\ [][Next]_vars

\* The loop runs on its own: nothing but a step of it can be waited for.
FairSpec == Spec /\ WF_vars(Next)

-----------------------------------------------------------------------------
(* Properties *)

TypeOK ==
  /\ ctx \in Contexts /\ FitsTank(ctx)
  /\ pc \in {"evaluate", "refuelled", "depart", "success", "infeasible"}
  /\ offset \in Nat
  /\ station \in Stations \cup {None}
  /\ fuel \in Nat
  /\ target \in Stations \cup {None}
  /\ consumed \in Nat
  /\ purchased \in Nat
  /\ cost \in Nat
  /\ stops \in Seq([station : Stations, before : Nat, added : Nat])
  /\ reached \in Seq([station : Stations, fuel : Nat])
  /\ failure \in [reason : FailureReason \cup {None}, target : FailureTarget]

\* The tank is never overfilled, and the reserve is never touched on the way or
\* at the destination, whatever limits the purchases have; only a truck that
\* sets out below its reserve may be below it, until it leaves its first station.
ReserveKept ==
  /\ fuel <= ctx.usable
  /\ ctx.initial >= ctx.reserve \/ Len(reached) > 1 \/ pc = "success"
       => fuel >= ctx.reserve

\* What the plan reports balances: initial fuel and purchases are what was
\* burnt and what remains.
FuelBalances == ctx.initial + purchased = fuel + consumed

\* Every stop of the plan respects the limits the caller set: at most the
\* maximum, and at least the minimum unless the maximum is lower.
PurchasesWithinLimits ==
  \A i \in 1 .. Len(stops) :
    /\ stops[i].added > 0
    /\ stops[i].added <= ctx.most
    /\ stops[i].added >= ctx.least \/ stops[i].added = ctx.most
    /\ stops[i].before + stops[i].added <= ctx.usable

\* _build_failure's comment, "All infeasible branches must have at least one
\* unreachable target": its RuntimeError is never raised.
FailureHasTarget == pc = "infeasible" => failure.target.kind # "missing"

Unlimited == ctx.least = 0 /\ ctx.most >= ctx.usable

Behind == {s \in Stations : 0 < ctx.at[s] /\ ctx.at[s] <= offset}

\* No leg leads from a place the truck has passed to one it has not: neither
\* from the origin with the initial fuel nor from a station with a full tank.
Gap ==
  /\ ctx.initial < ctx.total + ctx.reserve
  /\ \A p \in Behind : ctx.usable < FuelBetween(ctx.at[p], ctx.total, 0) + ctx.reserve
  /\ \A s \in Ahead :
       /\ ctx.initial < FuelBetween(0, ctx.at[s], ctx.detour[s]) + ctx.reserve
       /\ \A p \in Behind :
            ctx.usable < FuelBetween(ctx.at[p], ctx.at[s], ctx.detour[s]) + ctx.reserve

\* FUEL_OPTIMIZATION_ALGORITHM.md expects false failures because the strategy
\* never goes back on a choice (A5).  Without limits on a purchase there are
\* none: a plan is infeasible only when some stretch of the route ahead of the
\* origin cannot be crossed from any place before it.
InfeasibleOnlyAtGap == pc = "infeasible" /\ Unlimited => Gap

\* Where the truck stands, and what a purchase without limits has ensured.
Standing ==
  /\ pc = "evaluate" /\ station = None =>
       offset = 0 /\ fuel = ctx.initial /\ reached = <<>>
  /\ pc = "refuelled" => station # None
  /\ pc = "depart" => station # None /\ target \in Ahead
  /\ station # None => 0 < offset

Prepared ==
  Unlimited =>
    /\ pc = "refuelled" => fuel = ctx.usable \/ DestinationReachable
    /\ pc = "depart" => fuel >= FuelTo(target) + ctx.reserve

\* The inductive invariant behind the safety properties.
PlanInv ==
  /\ Standing
  /\ Prepared
  /\ ReserveKept
  /\ FailureHasTarget
  /\ InfeasibleOnlyAtGap

\* Every optimization ends, for every layout of stations.
Terminates == <>(pc \in {"success", "infeasible"})
=============================================================================
