------------------------- MODULE FuelOptimizerProofs -------------------------
(***************************************************************************)
(* Proofs about FuelOptimizer for every set of stations and every context: *)
(* types, safety and completeness first, then that on a line of stations   *)
(* the greedy plan is a cheapest one, and last that the loop can always go *)
(* on and comes to an end.                                                 *)
(***************************************************************************)
EXTENDS FuelPlanCost, FiniteSetTheorems, WellFoundedInduction, TLAPS

-----------------------------------------------------------------------------
(* Operators *)

LEMMA ContextFields ==
  ASSUME TypeOK
  PROVE  /\ ctx \in ContextType
         /\ FitsTank(ctx)
         /\ ctx.total \in Nat /\ ctx.usable \in Nat /\ ctx.reserve \in Nat
         /\ ctx.initial \in Nat /\ ctx.least \in Nat /\ ctx.most \in Nat
         /\ \A s \in Stations :
              ctx.at[s] \in Nat /\ ctx.detour[s] \in Nat /\ ctx.price[s] \in Nat
         /\ ctx.reserve <= ctx.usable /\ ctx.initial <= ctx.usable
<1>1. ctx \in ContextType /\ FitsTank(ctx)
  BY FuelOptimizerAssumption DEF TypeOK
<1> QED BY <1>1 DEF ContextType, FitsTank

LEMMA DistanceType ==
  ASSUME TypeOK
  PROVE  /\ \A s \in Stations : FuelTo(s) \in Nat
         /\ FuelToDestination \in Nat
<1>1. offset \in Nat
  BY DEF TypeOK
<1>2. \A from, to, detour \in Nat : FuelBetween(from, to, detour) \in Nat
  BY DEF FuelBetween
<1> QED BY <1>1, <1>2, ContextFields DEF FuelTo, FuelToDestination

\* _q4_ceil never rounds down.
LEMMA RoundUpBound ==
  ASSUME NEW x \in Nat
  PROVE  RoundUp(x) \in Nat /\ RoundUp(x) >= x
<1> DEFINE y == x + Quantum - 1
           q == y \div Quantum
           r == y % Quantum
<1>1. Quantum \in Nat /\ Quantum > 0
  BY FuelOptimizerAssumption
<1>2. y \in Nat
  BY <1>1
<1>3. q \in Nat /\ r \in Nat /\ r < Quantum /\ y = Quantum * q + r
  BY <1>1, <1>2
<1>4. q * Quantum \in Nat /\ q * Quantum = Quantum * q
  BY <1>1, <1>3
<1>5. q * Quantum >= x
  <2> DEFINE p == q * Quantum
  <2>1. x + Quantum - 1 = p + r
    BY <1>3, <1>4
  <2>2. p \in Nat
    BY <1>4
  <2> HIDE DEF p, q, r, y
  <2>3. p >= x
    BY <2>1, <2>2, <1>1, <1>3
  <2> QED BY <2>3 DEF p
<1> QED BY <1>4, <1>5 DEF RoundUp

LEMMA DesiredFuelBound ==
  ASSUME TypeOK, NEW next \in Stations \cup {None}
  PROVE  LET need == ctx.reserve + IF next = None THEN FuelToDestination ELSE FuelTo(next)
         IN  /\ DesiredFuel(next) \in Nat
             /\ DesiredFuel(next) <= ctx.usable
             /\ DesiredFuel(next) = ctx.usable \/ DesiredFuel(next) >= need
<1> DEFINE need == ctx.reserve + IF next = None THEN FuelToDestination ELSE FuelTo(next)
<1>1. need \in Nat
  BY DistanceType, ContextFields
<1>2. RoundUp(need) \in Nat /\ RoundUp(need) >= need
  BY <1>1, RoundUpBound
<1>3. DesiredFuel(next) = Least2(ctx.usable, RoundUp(need))
  BY DEF DesiredFuel
<1> HIDE DEF need
<1>4. /\ DesiredFuel(next) \in Nat
      /\ DesiredFuel(next) <= ctx.usable
      /\ DesiredFuel(next) = ctx.usable \/ DesiredFuel(next) >= need
  BY <1>1, <1>2, <1>3, ContextFields DEF Least2
<1> QED BY <1>4 DEF need

\* Whatever the caller's limits, a purchase respects them and fits the tank.
LEMMA PurchaseBound ==
  ASSUME TypeOK, fuel <= ctx.usable, NEW next \in Stations \cup {None}
  PROVE  /\ Purchase(next) \in Nat
         /\ fuel + Purchase(next) <= ctx.usable
         /\ Purchase(next) <= ctx.most
         /\ \/ Purchase(next) = 0
            \/ Purchase(next) >= ctx.least
            \/ Purchase(next) = ctx.most
<1>1. /\ DesiredFuel(next) \in Nat
      /\ DesiredFuel(next) <= ctx.usable
  BY DesiredFuelBound
<1>2. fuel \in Nat
  BY DEF TypeOK
<1>3. Missing(next) \in Nat /\ fuel + Missing(next) <= ctx.usable
  BY <1>1, <1>2, ContextFields DEF Missing
<1>4. /\ AtLeastMinimum(Missing(next)) \in Nat
      /\ fuel + AtLeastMinimum(Missing(next)) <= ctx.usable
      /\ AtLeastMinimum(Missing(next)) = 0 \/ AtLeastMinimum(Missing(next)) >= ctx.least
  BY <1>2, <1>3, ContextFields DEF AtLeastMinimum
<1> QED BY <1>2, <1>4, ContextFields DEF Purchase, Least2

\* Without limits the truck leaves the pump with what it wanted.
LEMMA UnlimitedPurchase ==
  ASSUME TypeOK, fuel <= ctx.usable, Unlimited, NEW next \in Stations \cup {None}
  PROVE  fuel + Purchase(next) >= DesiredFuel(next)
<1>1. /\ DesiredFuel(next) \in Nat
      /\ DesiredFuel(next) <= ctx.usable
  BY DesiredFuelBound
<1>2. fuel \in Nat
  BY DEF TypeOK
<1>3. /\ Missing(next) \in Nat
      /\ fuel + Missing(next) >= DesiredFuel(next)
      /\ Missing(next) <= ctx.usable
  BY <1>1, <1>2, ContextFields DEF Missing
<1>4. AtLeastMinimum(Missing(next)) = Missing(next)
  BY <1>2, <1>3, ContextFields DEF AtLeastMinimum, Unlimited
<1> QED BY <1>2, <1>3, <1>4, ContextFields DEF Purchase, Least2, Unlimited

\* What the selections choose is within reach.
LEMMA Selected ==
  /\ \A tank, arrival : \A s \in Cheapest(Reachable(tank, arrival)) :
       s \in Ahead /\ s \in Stations /\ tank >= FuelTo(s) + arrival
  /\ \A s \in CheaperAhead :
       s \in Ahead /\ s \in Stations /\ ctx.usable >= FuelTo(s) + ctx.reserve
BY DEF Cheapest, CheaperAhead, Nearest, PayingAhead, Reachable, Ahead

LEMMA AheadType ==
  ASSUME TypeOK, NEW s \in Ahead
  PROVE  s \in Stations /\ s # None /\ ctx.at[s] \in Nat /\ offset < ctx.at[s]
BY ContextFields, FuelOptimizerAssumption DEF Ahead

\* What can be out of reach names the failure's target.
LEMMA TargetType ==
  ASSUME NEW t \in PrimaryTarget
  PROVE  /\ t \in FailureTarget
         /\ OutOfReach # {} \/ fuel < FuelToDestination + ctx.reserve
              => t.kind # "missing"
<1>1. CASE OutOfReach # {}
  <2>1. PICK s \in Nearest(OutOfReach) : t = [kind |-> "station", station |-> s]
    BY <1>1 DEF PrimaryTarget
  <2>2. s \in Stations
    BY DEF Nearest, OutOfReach, Ahead
  <2> QED BY <2>1, <2>2 DEF FailureTarget
<1>2. CASE OutOfReach = {}
  <2>1. t = [kind |-> IF fuel < FuelToDestination + ctx.reserve
                        THEN "destination" ELSE "missing",
             station |-> None]
    BY <1>2 DEF PrimaryTarget
  <2> QED BY <2>1, <1>2 DEF FailureTarget
<1> QED BY <1>1, <1>2

LEMMA ProductType == ASSUME NEW a \in Nat, NEW b \in Nat PROVE a * b \in Nat
OBVIOUS

-----------------------------------------------------------------------------
(* Type correctness.  The tank is part of it: a purchase is a natural      *)
(* number because what it fills is not above the tank.                     *)

Typed == TypeOK /\ fuel <= ctx.usable

LEMMA FailType ==
  ASSUME Typed, NEW reason \in FailureReason, Fail(reason)
  PROVE  Typed'
<1>1. PICK t \in PrimaryTarget : failure' = [reason |-> reason, target |-> t]
  BY DEF Fail
<1>2. failure' \in [reason : FailureReason \cup {None}, target : FailureTarget]
  BY <1>1, TargetType
<1> QED BY <1>2 DEF Fail, Typed, TypeOK

LEMMA TravelType ==
  ASSUME Typed, NEW s \in Ahead, fuel >= FuelTo(s), Travel(s)
  PROVE  Typed'
<1>1. s \in Stations /\ s # None /\ ctx.at[s] \in Nat
  BY AheadType DEF Typed
<1>2. FuelTo(s) \in Nat /\ fuel \in Nat /\ consumed \in Nat /\ ctx.usable \in Nat
  BY <1>1, DistanceType, ContextFields DEF Typed, TypeOK
<1>3. fuel' \in Nat /\ fuel' <= ctx.usable /\ consumed' \in Nat
  BY <1>2 DEF Travel, Typed
<1>4. reached' \in Seq([station : Stations, fuel : Nat])
  <2>1. [station |-> s, fuel |-> fuel'] \in [station : Stations, fuel : Nat]
    BY <1>1, <1>3
  <2>2. reached \in Seq([station : Stations, fuel : Nat])
    BY DEF Typed, TypeOK
  <2> QED BY <2>1, <2>2 DEF Travel
<1> QED BY <1>1, <1>3, <1>4 DEF Travel, Typed, TypeOK

LEMMA BuyType ==
  ASSUME Typed, station \in Stations, NEW added \in Nat,
         fuel + added <= ctx.usable, Buy(added)
  PROVE  /\ fuel' \in Nat /\ fuel' <= ctx.usable
         /\ purchased' \in Nat /\ cost' \in Nat
         /\ stops' \in Seq([station : Stations, before : Nat, added : Nat])
<1>1. fuel \in Nat /\ purchased \in Nat /\ cost \in Nat /\ ctx.price[station] \in Nat
  BY ContextFields DEF Typed, TypeOK
<1>2. added * ctx.price[station] \in Nat
  BY <1>1, ProductType
<1>3. cost' \in Nat
  BY <1>1, <1>2 DEF Buy
<1>4. stops' \in Seq([station : Stations, before : Nat, added : Nat])
  <2>1. [station |-> station, before |-> fuel, added |-> added]
          \in [station : Stations, before : Nat, added : Nat]
    BY <1>1
  <2>2. stops \in Seq([station : Stations, before : Nat, added : Nat])
    BY DEF Typed, TypeOK
  <2>3. CASE added = 0
    BY <2>2, <2>3 DEF Buy
  <2>4. CASE added # 0
    BY <2>1, <2>2, <2>4 DEF Buy
  <2> QED BY <2>3, <2>4
<1> QED BY <1>1, <1>3, <1>4 DEF Buy

LEMMA InitType == Init => Typed
<1> SUFFICES ASSUME Init PROVE Typed
  OBVIOUS
<1>1. ctx \in Contexts /\ FitsTank(ctx) /\ ctx \in ContextType
  BY FuelOptimizerAssumption DEF Init
<1>2. fuel \in Nat /\ fuel <= ctx.usable
  BY <1>1 DEF Init, ContextType, FitsTank
<1>3. failure \in [reason : FailureReason \cup {None}, target : FailureTarget]
  BY DEF Init, NoFailure, FailureTarget
<1>4. /\ stops \in Seq([station : Stations, before : Nat, added : Nat])
      /\ reached \in Seq([station : Stations, fuel : Nat])
  BY DEF Init
<1> QED BY <1>1, <1>2, <1>3, <1>4 DEF Init, Typed, TypeOK

\* A departure needs a target ahead, the only part of Standing types need.
LEMMA NextType ==
  ASSUME Typed, Standing, [Next]_vars
  PROVE  Typed'
<1>1. ASSUME Succeed PROVE Typed'
  <2>1. FuelToDestination \in Nat /\ ctx.reserve \in Nat /\ ctx.usable \in Nat
    BY DistanceType, ContextFields DEF Typed
  <2> QED BY <1>1, <2>1 DEF Succeed, DestinationReachable, Typed, TypeOK
<1>2. ASSUME DriveToFirstStation PROVE Typed'
  <2>1. PICK s \in Cheapest(Reachable(fuel, OriginArrival)) : Travel(s)
    BY <1>2 DEF DriveToFirstStation
  <2>2. s \in Ahead /\ fuel >= FuelTo(s) + OriginArrival
    BY Selected
  <2>3. OriginArrival \in Nat /\ FuelTo(s) \in Nat /\ fuel \in Nat
    BY <2>2, AheadType, DistanceType, ContextFields DEF OriginArrival, Typed, TypeOK
  <2>4. fuel >= FuelTo(s)
    BY <2>2, <2>3
  <2> QED BY <2>1, <2>2, <2>4, TravelType
<1>3. ASSUME NoFirstStation PROVE Typed'
  BY <1>3, FailType DEF NoFirstStation, FailureReason
<1>4. ASSUME Refuel PROVE Typed'
  <2>1. PICK next \in IF CheaperAhead = {} THEN {None} ELSE CheaperAhead :
          /\ Buy(Purchase(next))
          /\ target' = next
          /\ pc' = IF next = None THEN "refuelled" ELSE "depart"
    BY <1>4 DEF Refuel
  <2>2. next \in Stations \cup {None}
    BY <2>1, Selected
  <2>3. station \in Stations
    BY <1>4 DEF Refuel, Typed, TypeOK
  <2>4. Purchase(next) \in Nat /\ fuel + Purchase(next) <= ctx.usable
    BY <2>2, PurchaseBound DEF Typed
  <2>5. /\ fuel' \in Nat /\ fuel' <= ctx.usable
        /\ purchased' \in Nat /\ cost' \in Nat
        /\ stops' \in Seq([station : Stations, before : Nat, added : Nat])
    BY <2>1, <2>3, <2>4, BuyType
  <2> QED BY <1>4, <2>1, <2>2, <2>5 DEF Refuel, Typed, TypeOK
<1>5. ASSUME Continue PROVE Typed'
  BY <1>5 DEF Continue, Typed, TypeOK
<1>6. ASSUME ChooseNext PROVE Typed'
  <2>1. target' \in Stations
    BY <1>6, Selected DEF ChooseNext
  <2> QED BY <1>6, <2>1 DEF ChooseNext, Typed, TypeOK
<1>7. ASSUME NoContinuation PROVE Typed'
  BY <1>7, FailType DEF NoContinuation, FailureReason
<1>8. ASSUME Depart PROVE Typed'
  <2>1. target \in Ahead /\ Travel(target) /\ fuel >= FuelTo(target) + ctx.reserve
    BY <1>8 DEF Depart, Standing
  <2>2. ctx.reserve \in Nat /\ FuelTo(target) \in Nat /\ fuel \in Nat
    BY <2>1, AheadType, DistanceType, ContextFields DEF Typed, TypeOK
  <2>3. fuel >= FuelTo(target)
    BY <2>1, <2>2
  <2> QED BY <2>1, <2>3, TravelType
<1>9. ASSUME PlannedStationUnreachable PROVE Typed'
  BY <1>9, FailType DEF PlannedStationUnreachable, FailureReason
<1>10. ASSUME UNCHANGED vars PROVE Typed'
  BY <1>10 DEF vars, Typed, TypeOK
<1> QED
  BY <1>1, <1>2, <1>3, <1>4, <1>5, <1>6, <1>7, <1>8, <1>9, <1>10 DEF Next

-----------------------------------------------------------------------------
(* The inductive invariant.  Each of its parts is preserved on its own:    *)
(* Standing says where the truck is, Prepared that a purchase without      *)
(* limits was enough, and the properties follow from the two.              *)

LEMMA InitPlan == Init => PlanInv
<1> SUFFICES ASSUME Init PROVE PlanInv
  OBVIOUS
<1>1. Len(reached) = 0 /\ fuel = ctx.initial /\ pc = "evaluate" /\ station = None
  BY DEF Init
<1>2. fuel \in Nat /\ ctx.reserve \in Nat /\ fuel <= ctx.usable
  BY InitType, ContextFields DEF Typed, TypeOK
<1>3. ReserveKept
  BY <1>1, <1>2 DEF ReserveKept
<1>4. Standing
  BY <1>1 DEF Init, Standing
<1> QED
  BY <1>1, <1>3, <1>4 DEF PlanInv, Prepared, FailureHasTarget, InfeasibleOnlyAtGap

LEMMA NextStanding ==
  ASSUME Typed, Standing, [Next]_vars
  PROVE  Standing'
<1>1. ASSUME NEW s \in Ahead, Travel(s) PROVE Standing'
  <2>1. s \in Stations /\ s # None /\ ctx.at[s] \in Nat /\ offset < ctx.at[s]
    BY AheadType DEF Typed
  <2>2. offset \in Nat
    BY DEF Typed, TypeOK
  <2>3. station' = s /\ offset' > 0 /\ pc' = "evaluate"
    BY <1>1, <2>1, <2>2 DEF Travel
  <2> QED BY <2>1, <2>3 DEF Standing
<1>2. ASSUME Succeed PROVE Standing'
  BY <1>2 DEF Succeed, Standing
<1>3. ASSUME DriveToFirstStation PROVE Standing'
  BY <1>1, <1>3, Selected DEF DriveToFirstStation
<1>4. ASSUME NEW reason, Fail(reason) PROVE Standing'
  BY <1>4 DEF Fail, Standing
<1>5. ASSUME Refuel PROVE Standing'
  <2>1. PICK next \in IF CheaperAhead = {} THEN {None} ELSE CheaperAhead :
          target' = next /\ pc' = IF next = None THEN "refuelled" ELSE "depart"
    BY <1>5 DEF Refuel
  <2>2. next # None => next \in Ahead
    BY <2>1, Selected
  <2>3. Ahead' = Ahead
    BY <1>5 DEF Refuel, Ahead
  <2> QED BY <1>5, <2>1, <2>2, <2>3 DEF Refuel, Standing
<1>6. ASSUME Continue PROVE Standing'
  BY <1>6 DEF Continue, Standing
<1>7. ASSUME ChooseNext PROVE Standing'
  <2>1. target' \in Ahead /\ Ahead' = Ahead
    BY <1>7, Selected DEF ChooseNext, Ahead
  <2> QED BY <1>7, <2>1 DEF ChooseNext, Standing
<1>8. ASSUME Depart PROVE Standing'
  BY <1>1, <1>8 DEF Depart, Standing
<1>9. ASSUME UNCHANGED vars PROVE Standing'
  BY <1>9 DEF vars, Standing, Ahead
<1> QED
  BY <1>2, <1>3, <1>4, <1>5, <1>6, <1>7, <1>8, <1>9
  DEF Next, NoFirstStation, NoContinuation, PlannedStationUnreachable

LEMMA NextPrepared ==
  ASSUME Typed, Standing, Prepared, [Next]_vars
  PROVE  Prepared'
<1> SUFFICES ASSUME Unlimited'
             PROVE  /\ pc' = "refuelled" => fuel' = ctx'.usable \/ DestinationReachable'
                    /\ pc' = "depart" => fuel' >= FuelTo(target)' + ctx'.reserve
  BY DEF Prepared
<1>1. ctx' = ctx /\ Unlimited
  BY DEF Next, Succeed, DriveToFirstStation, NoFirstStation, Refuel, Continue,
         ChooseNext, NoContinuation, Depart, PlannedStationUnreachable, Travel, Fail,
         vars, Unlimited
<1>2. ASSUME Refuel
      PROVE  /\ pc' = "refuelled" => fuel' = ctx'.usable \/ DestinationReachable'
             /\ pc' = "depart" => fuel' >= FuelTo(target)' + ctx'.reserve
  <2>1. PICK next \in IF CheaperAhead = {} THEN {None} ELSE CheaperAhead :
          /\ Buy(Purchase(next))
          /\ target' = next
          /\ pc' = IF next = None THEN "refuelled" ELSE "depart"
    BY <1>2 DEF Refuel
  <2>2. next \in Stations \cup {None}
    BY <2>1, Selected
  <2>3. /\ Purchase(next) \in Nat
        /\ fuel + Purchase(next) <= ctx.usable
        /\ fuel + Purchase(next) >= DesiredFuel(next)
    BY <1>1, <2>2, PurchaseBound, UnlimitedPurchase DEF Typed
  <2>4. /\ DesiredFuel(next) \in Nat
        /\ \/ DesiredFuel(next) = ctx.usable
           \/ DesiredFuel(next)
                >= ctx.reserve + IF next = None THEN FuelToDestination ELSE FuelTo(next)
    BY <2>2, DesiredFuelBound DEF Typed
  <2>5. fuel' = fuel + Purchase(next) /\ fuel' \in Nat /\ offset' = offset
    BY <1>2, <2>1, <2>3 DEF Refuel, Buy, Typed, TypeOK
  <2>6. FuelToDestination' = FuelToDestination /\ FuelToDestination \in Nat
    BY <1>1, <2>5, DistanceType DEF FuelToDestination, Typed
  <2>7. ctx.usable \in Nat /\ ctx.reserve \in Nat
    BY ContextFields DEF Typed
  <2>8. CASE next = None
    <3>1. fuel' = ctx.usable \/ fuel' >= FuelToDestination + ctx.reserve
      BY <2>3, <2>4, <2>5, <2>6, <2>7, <2>8
    <3> QED BY <1>1, <2>1, <2>6, <2>8, <3>1 DEF DestinationReachable
  <2>9. CASE next # None
    <3>1. next \in CheaperAhead /\ next \in Stations
      BY <2>1, <2>2, <2>9
    <3>2. FuelTo(next) \in Nat /\ ctx.usable >= FuelTo(next) + ctx.reserve
      BY <3>1, Selected, DistanceType DEF Typed
    <3>3. fuel' >= FuelTo(next) + ctx.reserve
      BY <2>3, <2>4, <2>5, <2>7, <2>9, <3>2
    <3>4. FuelTo(target)' = FuelTo(next)
      BY <1>1, <2>1, <2>5 DEF FuelTo
    <3> QED BY <1>1, <2>1, <2>9, <3>3, <3>4
  <2> QED BY <2>8, <2>9
<1>3. ASSUME ChooseNext
      PROVE  pc' = "depart" /\ fuel' >= FuelTo(target)' + ctx'.reserve
  <2>1. fuel >= FuelTo(target') + ctx.reserve
    BY <1>3, Selected DEF ChooseNext
  <2>2. FuelTo(target)' = FuelTo(target')
    BY <1>1, <1>3 DEF ChooseNext, FuelTo
  <2> QED BY <1>1, <1>3, <2>1, <2>2 DEF ChooseNext
<1>4. ASSUME \/ Succeed \/ DriveToFirstStation \/ NoFirstStation \/ Continue
             \/ NoContinuation \/ Depart \/ PlannedStationUnreachable
      PROVE  pc' \notin {"refuelled", "depart"}
  BY <1>4
  DEF Succeed, DriveToFirstStation, NoFirstStation, Continue, NoContinuation, Depart,
      PlannedStationUnreachable, Travel, Fail
<1>5. ASSUME UNCHANGED vars PROVE Prepared'
  BY <1>5
  DEF vars, Prepared, Unlimited, DestinationReachable, FuelToDestination, FuelTo
<1> QED BY <1>2, <1>3, <1>4, <1>5 DEF Next, Prepared

LEMMA NextReserve ==
  ASSUME Typed, Standing, ReserveKept, [Next]_vars
  PROVE  ReserveKept'
<1>0. Typed'
  BY NextType
<1>1. /\ fuel \in Nat /\ ctx.reserve \in Nat /\ ctx.initial \in Nat
      /\ fuel' <= ctx'.usable
      /\ reached \in Seq([station : Stations, fuel : Nat])
  BY <1>0, ContextFields DEF Typed, TypeOK
<1> DEFINE Full == ctx.initial >= ctx.reserve \/ Len(reached) > 1 \/ pc = "success"
<1>2. ReserveKept' <=> (Full' => fuel' >= ctx'.reserve)
  BY <1>1 DEF ReserveKept
<1>3. Full => fuel >= ctx.reserve
  BY DEF ReserveKept
<1>4. ASSUME Succeed PROVE fuel' >= ctx'.reserve
  <2>1. FuelToDestination \in Nat
    BY DistanceType DEF Typed
  <2> QED BY <1>1, <1>4, <2>1 DEF Succeed, DestinationReachable
<1>5. ASSUME NEW s \in Ahead, Travel(s), fuel >= FuelTo(s) + ctx.reserve
      PROVE  fuel' >= ctx'.reserve
  <2>1. FuelTo(s) \in Nat
    BY AheadType, DistanceType DEF Typed
  <2> QED BY <1>1, <1>5, <2>1 DEF Travel
<1>6. ASSUME DriveToFirstStation PROVE Full' => fuel' >= ctx'.reserve
  <2>1. PICK s \in Cheapest(Reachable(fuel, OriginArrival)) : Travel(s)
    BY <1>6 DEF DriveToFirstStation
  <2>2. s \in Ahead /\ fuel >= FuelTo(s) + OriginArrival
    BY Selected
  <2>3. CASE fuel >= ctx.reserve
    BY <1>5, <2>1, <2>2, <2>3 DEF OriginArrival
  <2>4. CASE fuel < ctx.reserve
    <3>1. fuel = ctx.initial /\ reached = <<>> /\ ctx' = ctx
      BY <1>6, <2>1 DEF DriveToFirstStation, Standing, Travel
    <3>2. Len(reached') = 1 /\ pc' = "evaluate"
      BY <2>1, <3>1 DEF Travel
    <3> QED BY <1>1, <2>4, <3>1, <3>2
  <2> QED BY <1>1, <2>3, <2>4
<1>7. ASSUME Refuel PROVE Full' => fuel' >= ctx'.reserve
  <2>1. PICK next \in IF CheaperAhead = {} THEN {None} ELSE CheaperAhead :
          Buy(Purchase(next)) /\ pc' = IF next = None THEN "refuelled" ELSE "depart"
    BY <1>7 DEF Refuel
  <2>2. next \in Stations \cup {None}
    BY <2>1, Selected
  <2>3. Purchase(next) \in Nat
    BY <2>2, PurchaseBound DEF Typed
  <2>4. fuel' >= fuel
    BY <1>1, <2>1, <2>3 DEF Buy
  <2>5. Full' => Full
    BY <1>7, <2>1 DEF Refuel
  <2>6. fuel' \in Nat /\ ctx' = ctx
    BY <1>0, <1>7 DEF Typed, TypeOK, Refuel
  <2> QED BY <1>1, <1>3, <2>4, <2>5, <2>6
<1>8. ASSUME Depart PROVE fuel' >= ctx'.reserve
  BY <1>5, <1>8 DEF Depart, Standing
<1>9. ASSUME \/ \E reason : Fail(reason)
             \/ Continue \/ ChooseNext \/ UNCHANGED vars
      PROVE  Full' => fuel' >= ctx'.reserve
  <2>1. ctx' = ctx /\ fuel' = fuel /\ reached' = reached /\ (pc' = "success" => pc = "success")
    BY <1>9 DEF Fail, Continue, ChooseNext, vars
  <2> QED BY <1>3, <2>1
<1> QED
  BY <1>2, <1>4, <1>6, <1>7, <1>8, <1>9
  DEF Next, NoFirstStation, NoContinuation, PlannedStationUnreachable

\* Only the three failing actions end in a failure, and a failure stays.
LEMMA OnlyFailuresFail ==
  ASSUME [Next]_vars, pc' = "infeasible"
  PROVE  \/ NoFirstStation
         \/ NoContinuation
         \/ PlannedStationUnreachable
         \/ UNCHANGED vars
BY DEF Next, Succeed, DriveToFirstStation, Refuel, Continue, ChooseNext, Depart, Travel

\* Whichever way it fails, what it could not reach is there to be named.
LEMMA NextFailureHasTarget ==
  ASSUME Typed, Standing, FailureHasTarget, [Next]_vars
  PROVE  FailureHasTarget'
<1> SUFFICES ASSUME pc' = "infeasible" PROVE failure'.target.kind # "missing"
  BY DEF FailureHasTarget
<1> DEFINE Unreached == OutOfReach # {} \/ fuel < FuelToDestination + ctx.reserve
<1>1. ASSUME NEW reason, Fail(reason), Unreached
      PROVE  failure'.target.kind # "missing"
  BY <1>1, TargetType DEF Fail
<1>2. /\ fuel \in Nat /\ ctx.reserve \in Nat /\ FuelToDestination \in Nat
      /\ \A s \in Ahead : FuelTo(s) \in Nat
  BY AheadType, DistanceType, ContextFields DEF Typed, TypeOK
<1>3. ASSUME NoFirstStation \/ NoContinuation PROVE Unreached
  BY <1>2, <1>3 DEF NoFirstStation, NoContinuation, DestinationReachable
<1>4. ASSUME PlannedStationUnreachable PROVE Unreached
  <2>1. target \in OutOfReach
    BY <1>4 DEF PlannedStationUnreachable, Standing, OutOfReach
  <2> QED BY <2>1
<1>5. ASSUME UNCHANGED vars PROVE failure'.target.kind # "missing"
  BY <1>5 DEF vars, FailureHasTarget
<1> HIDE DEF Unreached
<1> QED
  BY <1>1, <1>3, <1>4, <1>5, OnlyFailuresFail
  DEF NoFirstStation, NoContinuation, PlannedStationUnreachable

\* A place behind the truck is no closer to what lies ahead than the truck.
LEMMA GapFromHere ==
  ASSUME Typed, NEW tank \in Nat,
         tank < FuelToDestination + ctx.reserve,
         \A s \in Ahead : tank < FuelTo(s) + ctx.reserve,
         tank = ctx.usable \/ (tank = ctx.initial /\ offset = 0)
  PROVE  Gap
<1>1. /\ offset \in Nat /\ ctx.total \in Nat /\ ctx.reserve \in Nat
      /\ ctx.usable \in Nat /\ ctx.initial \in Nat /\ ctx.initial <= ctx.usable
      /\ ctx.reserve <= ctx.usable
  BY ContextFields DEF Typed, TypeOK
<1>2. ASSUME NEW a \in Nat, NEW b \in Nat, NEW d \in Nat, a <= offset
      PROVE  FuelBetween(offset, b, d) <= FuelBetween(a, b, d)
  BY <1>1, <1>2 DEF FuelBetween
<1>3. \A a, b, d \in Nat : FuelBetween(a, b, d) \in Nat
  BY DEF FuelBetween
<1>4. \A s \in Ahead : ctx.at[s] \in Nat /\ ctx.detour[s] \in Nat
  BY AheadType, ContextFields DEF Typed
<1>5. \A p \in Behind : ctx.at[p] \in Nat /\ ctx.at[p] <= offset /\ tank = ctx.usable
  <2>1. \A p \in Behind : ctx.at[p] \in Nat /\ 0 < ctx.at[p] /\ ctx.at[p] <= offset
    BY ContextFields DEF Typed, Behind
  <2> QED BY <1>1, <2>1
<1>6. ctx.initial <= tank
  BY <1>1
<1>7. ctx.initial < ctx.total + ctx.reserve
  <2>1. FuelToDestination <= FuelBetween(0, ctx.total, 0)
    BY <1>1, <1>2 DEF FuelToDestination
  <2>2. FuelBetween(0, ctx.total, 0) = ctx.total
    BY <1>1 DEF FuelBetween
  <2> QED BY <1>1, <1>6, <2>1, <2>2, DistanceType DEF Typed
<1>8. \A p \in Behind : ctx.usable < FuelBetween(ctx.at[p], ctx.total, 0) + ctx.reserve
  <2> TAKE p \in Behind
  <2> DEFINE there == FuelBetween(ctx.at[p], ctx.total, 0)
  <2>1. FuelToDestination <= there
    BY <1>1, <1>2, <1>5 DEF FuelToDestination
  <2>2. there \in Nat /\ FuelToDestination \in Nat /\ tank = ctx.usable
    BY <1>1, <1>3, <1>5, DistanceType DEF Typed
  <2> HIDE DEF there
  <2>3. ctx.usable < there + ctx.reserve
    BY <1>1, <2>1, <2>2
  <2> QED BY <2>3 DEF there
<1>9. ASSUME NEW s \in Ahead
      PROVE  ctx.initial < FuelBetween(0, ctx.at[s], ctx.detour[s]) + ctx.reserve
  <2> DEFINE there == FuelBetween(0, ctx.at[s], ctx.detour[s])
  <2>1. FuelTo(s) <= there
    BY <1>1, <1>2, <1>4 DEF FuelTo
  <2>2. tank < FuelTo(s) + ctx.reserve /\ FuelTo(s) \in Nat /\ there \in Nat
    BY <1>3, <1>4, AheadType, DistanceType DEF Typed
  <2> HIDE DEF there
  <2>3. ctx.initial < there + ctx.reserve
    BY <1>1, <1>6, <2>1, <2>2
  <2> QED BY <2>3 DEF there
<1>10. ASSUME NEW s \in Ahead, NEW p \in Behind
       PROVE  ctx.usable < FuelBetween(ctx.at[p], ctx.at[s], ctx.detour[s]) + ctx.reserve
  <2> DEFINE there == FuelBetween(ctx.at[p], ctx.at[s], ctx.detour[s])
  <2>1. FuelTo(s) <= there
    BY <1>1, <1>2, <1>4, <1>5 DEF FuelTo
  <2>2. tank < FuelTo(s) + ctx.reserve /\ FuelTo(s) \in Nat /\ there \in Nat
    BY <1>3, <1>4, <1>5, AheadType, DistanceType DEF Typed
  <2>3. tank = ctx.usable
    BY <1>5
  <2> HIDE DEF there
  <2>4. ctx.usable < there + ctx.reserve
    BY <1>1, <2>1, <2>2, <2>3
  <2> QED BY <2>4 DEF there
<1> QED BY <1>7, <1>8, <1>9, <1>10 DEF Gap

LEMMA NextInfeasible ==
  ASSUME Typed, Standing, Prepared, InfeasibleOnlyAtGap, [Next]_vars
  PROVE  InfeasibleOnlyAtGap'
<1> SUFFICES ASSUME pc' = "infeasible", Unlimited' PROVE Gap'
  BY DEF InfeasibleOnlyAtGap
<1>1. /\ fuel \in Nat /\ ctx.reserve \in Nat /\ FuelToDestination \in Nat
      /\ \A s \in Ahead : FuelTo(s) \in Nat
  BY AheadType, DistanceType, ContextFields DEF Typed, TypeOK
<1>2. ASSUME ctx' = ctx, offset' = offset PROVE Unlimited /\ (Gap => Gap')
  BY <1>2 DEF Unlimited, Gap, Ahead, Behind
<1>3. CASE NoFirstStation
  <2>1. fuel = ctx.initial /\ offset = 0
    BY <1>3 DEF NoFirstStation, Standing
  <2>2. fuel < FuelToDestination + ctx.reserve
    BY <1>1, <1>3 DEF NoFirstStation, DestinationReachable
  <2>3. \A s \in Ahead : fuel < FuelTo(s) + ctx.reserve
    BY <1>1, <1>3 DEF NoFirstStation, Reachable, OriginArrival
  <2> QED BY <1>1, <1>2, <1>3, <2>1, <2>2, <2>3, GapFromHere DEF NoFirstStation, Fail
<1>4. CASE NoContinuation
  <2>1. ctx' = ctx /\ offset' = offset
    BY <1>4 DEF NoContinuation, Fail
  <2>2. fuel = ctx.usable
    BY <1>2, <1>4, <2>1 DEF NoContinuation, Prepared
  <2>3. fuel < FuelToDestination + ctx.reserve
    BY <1>1, <1>4 DEF NoContinuation, DestinationReachable
  <2>4. \A s \in Ahead : fuel < FuelTo(s) + ctx.reserve
    BY <1>1, <1>4 DEF NoContinuation, Reachable
  <2> QED BY <1>1, <1>2, <2>1, <2>2, <2>3, <2>4, GapFromHere
<1>5. ASSUME PlannedStationUnreachable PROVE FALSE
  <2>1. fuel >= FuelTo(target) + ctx.reserve
    BY <1>2, <1>5 DEF PlannedStationUnreachable, Fail, Prepared
  <2>2. FuelTo(target) \in Nat
    BY <1>1, <1>5 DEF PlannedStationUnreachable, Standing
  <2> QED BY <1>1, <1>5, <2>1, <2>2 DEF PlannedStationUnreachable
<1>6. CASE UNCHANGED vars
  BY <1>2, <1>6 DEF vars, InfeasibleOnlyAtGap
<1> QED BY <1>3, <1>4, <1>5, <1>6, OnlyFailuresFail

\* PlanInv and the types together are inductive.
THEOREM PlanInvariant == Spec => [](Typed /\ PlanInv)
<1>1. Init => Typed /\ PlanInv
  BY InitType, InitPlan
<1>2. Typed /\ PlanInv /\ [Next]_vars => (Typed /\ PlanInv)'
  <2> SUFFICES ASSUME Typed, PlanInv, [Next]_vars PROVE Typed' /\ PlanInv'
    OBVIOUS
  <2>1. Typed'
    BY NextType DEF PlanInv
  <2>2. Standing' /\ Prepared' /\ ReserveKept'
    BY NextStanding, NextPrepared, NextReserve DEF PlanInv
  <2>3. FailureHasTarget' /\ InfeasibleOnlyAtGap'
    BY NextFailureHasTarget, NextInfeasible DEF PlanInv
  <2> QED BY <2>1, <2>2, <2>3 DEF PlanInv
<1> QED BY <1>1, <1>2, PTL DEF Spec

\* Every variable keeps its type; subtractions of fuel never go below zero.
THEOREM TypeCorrect == Spec => []TypeOK
BY PlanInvariant, PTL DEF Typed

\* The tank is never overfilled and the reserve is untouched on every leg.
THEOREM ReserveIsKept == Spec => []ReserveKept
BY PlanInvariant, PTL DEF PlanInv

\* No failure is reported without a target, so the code's RuntimeError is dead.
THEOREM FailureNamesTarget == Spec => []FailureHasTarget
BY PlanInvariant, PTL DEF PlanInv

\* Without limits on a purchase the greedy strategy is complete: it gives up
\* only where no choice of stops could have gone on.
THEOREM GreedyIsComplete == Spec => []InfeasibleOnlyAtGap
BY PlanInvariant, PTL DEF PlanInv

-----------------------------------------------------------------------------
(* Bookkeeping *)

LEMMA NextBalances ==
  ASSUME Typed, Standing, FuelBalances, [Next]_vars
  PROVE  FuelBalances'
<1>1. /\ fuel \in Nat /\ consumed \in Nat /\ purchased \in Nat /\ ctx.initial \in Nat
      /\ ctx.reserve \in Nat /\ FuelToDestination \in Nat
      /\ \A s \in Ahead : FuelTo(s) \in Nat
  BY AheadType, DistanceType, ContextFields DEF Typed, TypeOK
<1>2. ASSUME NEW s \in Ahead, fuel >= FuelTo(s), Travel(s) PROVE FuelBalances'
  BY <1>1, <1>2 DEF Travel, FuelBalances
<1>3. ASSUME Succeed PROVE FuelBalances'
  <2>1. fuel >= FuelToDestination
    BY <1>1, <1>3 DEF Succeed, DestinationReachable
  <2> QED BY <1>1, <1>3, <2>1 DEF Succeed, FuelBalances
<1>4. ASSUME DriveToFirstStation PROVE FuelBalances'
  <2>1. PICK s \in Cheapest(Reachable(fuel, OriginArrival)) : Travel(s)
    BY <1>4 DEF DriveToFirstStation
  <2>2. s \in Ahead /\ fuel >= FuelTo(s) + OriginArrival
    BY Selected
  <2>3. OriginArrival \in Nat
    BY <1>1 DEF OriginArrival
  <2>4. fuel >= FuelTo(s)
    BY <1>1, <2>2, <2>3
  <2> QED BY <1>2, <2>1, <2>2, <2>4
<1>5. ASSUME Refuel PROVE FuelBalances'
  <2>1. PICK next \in IF CheaperAhead = {} THEN {None} ELSE CheaperAhead :
          Buy(Purchase(next))
    BY <1>5 DEF Refuel
  <2>2. Purchase(next) \in Nat
    BY <2>1, Selected, PurchaseBound DEF Typed
  <2>3. /\ fuel' = fuel + Purchase(next) /\ purchased' = purchased + Purchase(next)
        /\ consumed' = consumed /\ ctx' = ctx
    BY <1>5, <2>1 DEF Refuel, Buy
  <2> QED BY <1>1, <2>2, <2>3 DEF FuelBalances
<1>6. ASSUME Depart PROVE FuelBalances'
  <2>1. target \in Ahead /\ fuel >= FuelTo(target)
    BY <1>1, <1>6 DEF Depart, Standing
  <2> QED BY <1>2, <1>6, <2>1 DEF Depart
<1>7. ASSUME \/ \E reason : Fail(reason)
             \/ Continue \/ ChooseNext \/ UNCHANGED vars
      PROVE  FuelBalances'
  BY <1>7 DEF Fail, Continue, ChooseNext, vars, FuelBalances
<1> QED
  BY <1>3, <1>4, <1>5, <1>6, <1>7
  DEF Next, NoFirstStation, NoContinuation, PlannedStationUnreachable

LEMMA NextLimits ==
  ASSUME Typed, PurchasesWithinLimits, [Next]_vars
  PROVE  PurchasesWithinLimits'
<1> DEFINE Within(stop) ==
             /\ stop.added > 0
             /\ stop.added <= ctx.most
             /\ stop.added >= ctx.least \/ stop.added = ctx.most
             /\ stop.before + stop.added <= ctx.usable
<1>1. ASSUME Refuel PROVE PurchasesWithinLimits'
  <2>1. PICK next \in IF CheaperAhead = {} THEN {None} ELSE CheaperAhead :
          Buy(Purchase(next))
    BY <1>1 DEF Refuel
  <2> DEFINE stop == [station |-> station, before |-> fuel, added |-> Purchase(next)]
  <2>2. /\ Purchase(next) \in Nat
        /\ fuel + Purchase(next) <= ctx.usable
        /\ Purchase(next) <= ctx.most
        /\ \/ Purchase(next) = 0
           \/ Purchase(next) >= ctx.least
           \/ Purchase(next) = ctx.most
    BY <2>1, Selected, PurchaseBound DEF Typed
  <2>3. stops \in Seq([station : Stations, before : Nat, added : Nat])
    BY DEF Typed, TypeOK
  <2>4. ctx' = ctx
    BY <1>1 DEF Refuel
  <2>5. CASE Purchase(next) = 0
    <3>1. stops' = stops
      BY <2>1, <2>5 DEF Buy
    <3> QED BY <2>4, <3>1 DEF PurchasesWithinLimits
  <2>6. CASE Purchase(next) # 0
    <3>1. stops' = Append(stops, stop)
      BY <2>1, <2>6 DEF Buy
    <3>2. Within(stop)
      BY <2>2, <2>6
    <3>3. \A i \in 1 .. Len(stops) : Within(stops[i])
      BY DEF PurchasesWithinLimits
    <3> HIDE DEF stop
    <3>4. \A i \in 1 .. Len(stops') :
            stops'[i] = stop \/ \E j \in 1 .. Len(stops) : stops'[i] = stops[j]
      BY <2>3, <3>1
    <3>5. \A i \in 1 .. Len(stops') : Within(stops'[i])
      BY <3>2, <3>3, <3>4
    <3> QED BY <2>4, <3>5 DEF PurchasesWithinLimits
  <2> QED BY <2>5, <2>6
<1>2. ASSUME UNCHANGED <<ctx, stops>> PROVE PurchasesWithinLimits'
  BY <1>2 DEF PurchasesWithinLimits
<1> QED
  BY <1>1, <1>2
  DEF Next, Succeed, DriveToFirstStation, NoFirstStation, Continue, ChooseNext,
      NoContinuation, Depart, PlannedStationUnreachable, Travel, Fail, vars

\* What was in the tank and what was bought is what was burnt and what is left.
THEOREM FuelIsBalanced == Spec => []FuelBalances
<1>1. Init => FuelBalances
  <2> SUFFICES ASSUME Init PROVE FuelBalances
    OBVIOUS
  <2>1. fuel \in Nat
    BY InitType DEF Typed, TypeOK
  <2> QED BY <2>1 DEF Init, FuelBalances
<1>2. Typed /\ PlanInv /\ FuelBalances /\ [Next]_vars => FuelBalances'
  BY NextBalances DEF PlanInv
<1> QED BY <1>1, <1>2, PlanInvariant, PTL DEF Spec

\* No plan holds a purchase outside the caller's limits or above the tank.
THEOREM PurchasesAreLimited == Spec => []PurchasesWithinLimits
<1>1. Init => PurchasesWithinLimits
  BY DEF Init, PurchasesWithinLimits
<1>2. Typed /\ PurchasesWithinLimits /\ [Next]_vars => PurchasesWithinLimits'
  BY NextLimits
<1> QED BY <1>1, <1>2, PlanInvariant, PTL DEF Spec

-----------------------------------------------------------------------------
(* The cheapest plan                                                       *)

\* A set of natural numbers that is not empty has a least one.
LEMMA NatMin ==
  ASSUME NEW T, T \subseteq Nat, T # {}
  PROVE  \E m \in T : \A n \in T : m <= n
<1> DEFINE R == OpToRel(<, Nat)
<1>1. \A n, m \in Nat : n < m => <<n, m>> \in R
  BY DEF OpToRel
<1>2. IsWellFoundedOn(R, Nat)
  BY NatLessThanWellFounded
<1> HIDE DEF R
<1>3. PICK m \in T : \A n \in T : ~(<<n, m>> \in R)
  BY <1>2, WFMin, Zenon
<1>4. ASSUME NEW n \in T PROVE m <= n
  <2>1. ~(<<n, m>> \in R)
    BY <1>3
  <2>2. n \in Nat /\ m \in Nat
    OBVIOUS
  <2>3. ~(n < m)
    BY <1>1, <2>1, <2>2, Zenon
  <2>4. QED
    BY <2>2, <2>3
<1>5. QED
  BY <1>4

LEMMA MinOf ==
  ASSUME NEW T, T \subseteq Nat, T # {}
  PROVE  /\ Min(T) \in T
         /\ \A n \in T : Min(T) <= n
<1>1. \E m \in T : \A n \in T : m =< n
  BY NatMin
<1>2. QED
  BY <1>1 DEF Min

\* The context of a truck with a tank for its reserve, on a line of stations.
Sound(c) == c \in ContextType /\ FitsTank(c)

LEMMA SoundFields ==
  ASSUME NEW c, Sound(c)
  PROVE  /\ c.total \in Nat /\ c.usable \in Nat /\ c.reserve \in Nat /\ c.initial \in Nat
         /\ c.initial <= c.usable /\ c.reserve <= c.usable
         /\ \A s \in Stations : c.at[s] \in Nat /\ c.detour[s] \in Nat /\ c.price[s] \in Nat
BY DEF Sound, ContextType, FitsTank

\* Where a place is, and what a leg from it burns.
PlaceAt(c, p) == IF p = None THEN 0 ELSE c.at[p]

LEMMA LegOnTheLine ==
  ASSUME NEW c, Sound(c), OnTheLine(c), NEW p \in Places, PlaceAt(c, p) <= c.total
  PROVE  /\ PlaceAt(c, p) \in Nat
         /\ Leg(c, p, None) = c.total - PlaceAt(c, p)
         /\ \A s \in Onward(c, p) :
              /\ s \in Places /\ s # None
              /\ PlaceAt(c, p) < PlaceAt(c, s) /\ PlaceAt(c, s) <= c.total
              /\ Leg(c, p, s) = PlaceAt(c, s) - PlaceAt(c, p)
<1>1. PlaceAt(c, p) \in Nat
  BY SoundFields DEF PlaceAt, Places
<1>2. Leg(c, p, None) = c.total - PlaceAt(c, p)
  BY <1>1, SoundFields DEF Leg, PlaceAt, FuelBetween
<1>3. ASSUME NEW s \in Onward(c, p)
      PROVE  /\ s \in Places /\ s # None
             /\ PlaceAt(c, p) < PlaceAt(c, s) /\ PlaceAt(c, s) <= c.total
             /\ Leg(c, p, s) = PlaceAt(c, s) - PlaceAt(c, p)
  <2>1. /\ s \in Stations /\ s # None /\ c.at[s] <= c.total
        /\ p = None \/ c.at[p] < c.at[s]
    BY FuelOptimizerAssumption DEF Onward
  <2>2. c.at[s] \in Nat /\ c.at[s] > 0 /\ c.detour[s] = 0
    BY <2>1, SoundFields DEF OnTheLine
  <2>3. PlaceAt(c, s) = c.at[s] /\ PlaceAt(c, p) < c.at[s]
    BY <2>1, <2>2 DEF PlaceAt
  <2>4. Leg(c, p, s) = c.at[s] - PlaceAt(c, p)
    BY <1>1, <2>1, <2>2, <2>3 DEF Leg, FuelBetween, PlaceAt
  <2>5. QED
    BY <2>1, <2>3, <2>4 DEF Places
<1>4. QED
  BY <1>1, <1>2, <1>3

\* How far a place is from the end; farther on is always less.
Rank(c, p) ==
  IF p = None THEN c.total + 1 ELSE IF c.at[p] <= c.total THEN c.total - c.at[p] ELSE 0

LEMMA RankFalls ==
  ASSUME NEW c, Sound(c), NEW p \in Places
  PROVE  /\ Rank(c, p) \in 0 .. c.total + 1
         /\ \A s \in Onward(c, p) : s \in Places /\ Rank(c, s) < Rank(c, p)
<1>1. \A q \in Places : Rank(c, q) \in 0 .. c.total + 1
  BY SoundFields DEF Rank, Places
<1>2. ASSUME NEW s \in Onward(c, p) PROVE s \in Places /\ Rank(c, s) < Rank(c, p)
  <2>1. /\ s \in Stations /\ s # None /\ c.at[s] <= c.total
        /\ p = None \/ c.at[p] < c.at[s]
    BY FuelOptimizerAssumption DEF Onward
  <2>2. Rank(c, s) = c.total - c.at[s]
    BY <2>1 DEF Rank
  <2>3. CASE p = None
    BY <2>1, <2>2, <2>3, SoundFields DEF Rank, Places
  <2>4. CASE p # None
    BY <2>1, <2>2, <2>4, SoundFields DEF Rank, Places
  <2>5. QED
    BY <2>1, <2>3, <2>4 DEF Places
<1>3. QED
  BY <1>1, <1>2

\* What the rest of the way can cost depends on the places ahead only.
LEMMA CostsAhead ==
  ASSUME NEW c, NEW best, NEW other, NEW p, NEW f,
         \A s \in Onward(c, p) : best[s] = other[s]
  PROVE  Costs(c, best, p, f) = Costs(c, other, p, f)
<1>1. \A s \in Onward(c, p) :
        {b * Price(c, p) + best[s][f + b - Leg(c, p, s)] : b \in Amounts(c, p, f, s)}
          = {b * Price(c, p) + other[s][f + b - Leg(c, p, s)] : b \in Amounts(c, p, f, s)}
  OBVIOUS
<1>2. QED
  BY <1>1 DEF Costs

\* The recursion of LeastCost, and a function that satisfies it for the places
\* of a rank below k.
BestOf(c, best, p) == [f \in 0 .. c.usable |-> Min(Costs(c, best, p, f))]

SolvesUpTo(c, best, k) ==
  /\ best = [p \in Places |-> best[p]]
  /\ \A p \in Places : Rank(c, p) < k => best[p] = BestOf(c, best, p)

LEMMA SolutionExists ==
  ASSUME NEW c, Sound(c), NEW k \in Nat
  PROVE  \E best : SolvesUpTo(c, best, k)
<1> DEFINE bad == {n \in Nat : ~ \E best : SolvesUpTo(c, best, n)}
<1>1. SUFFICES ASSUME bad # {} PROVE FALSE
  OBVIOUS
<1>2. PICK n \in bad : \A m \in bad : n <= m
  <2> HIDE DEF bad
  <2>1. QED
    BY <1>1, NatMin DEF bad
<1>3. CASE n = 0
  <2>1. SolvesUpTo(c, [p \in Places |-> 0], 0)
    BY RankFalls DEF SolvesUpTo
  <2>2. QED
    BY <1>2, <1>3, <2>1
<1>4. CASE n # 0
  <2>1. n \in Nat /\ n - 1 \in Nat /\ n - 1 \notin bad
    BY <1>2, <1>4
  <2>2. PICK best : SolvesUpTo(c, best, n - 1)
    BY <2>1
  <2>3. PICK more : more = [p \in Places |-> IF Rank(c, p) < n - 1 THEN best[p]
                                             ELSE BestOf(c, best, p)]
    OBVIOUS
  <2>4. ASSUME NEW p \in Places, Rank(c, p) < n PROVE more[p] = BestOf(c, more, p)
    <3>1. \A s \in Onward(c, p) : best[s] = more[s]
      BY <2>1, <2>3, <2>4, RankFalls
    <3>2. \A f : Costs(c, best, p, f) = Costs(c, more, p, f)
      BY <3>1, CostsAhead
    <3>3. BestOf(c, best, p) = BestOf(c, more, p)
      BY <3>2 DEF BestOf
    <3>4. more[p] = BestOf(c, best, p)
      BY <2>2, <2>3 DEF SolvesUpTo
    <3>5. QED
      BY <3>3, <3>4
  <2>5. SolvesUpTo(c, more, n)
    BY <2>3, <2>4 DEF SolvesUpTo
  <2>6. QED
    BY <1>2, <2>1, <2>5
<1>5. QED
  BY <1>2, <1>3, <1>4

\* LeastCost is the value of a function that satisfies the recursion.
Best(c, best) == best = [p \in Places |-> BestOf(c, best, p)]

LEMMA LeastCostIsBest ==
  ASSUME NEW c, Sound(c)
  PROVE  \E best : Best(c, best) /\ LeastCost(c) = best[None][c.initial]
<1> DEFINE body(best) == [p \in Places |-> [f \in 0 .. c.usable |-> Min(Costs(c, best, p, f))]]
           least == CHOOSE best : best = body(best)
<1>1. c.total + 2 \in Nat /\ \A p \in Places : Rank(c, p) < c.total + 2
  BY RankFalls, SoundFields
<1>2. PICK best : SolvesUpTo(c, best, c.total + 2)
  BY <1>1, SolutionExists
<1>3. \A p \in Places : best[p] = BestOf(c, best, p)
  BY <1>1, <1>2 DEF SolvesUpTo
<1>4. best = body(best)
  BY <1>2, <1>3 DEF SolvesUpTo, BestOf
<1>5. least = body(least)
  BY <1>4
<1>6. Best(c, least)
  BY <1>5 DEF Best, BestOf
<1>7. LeastCost(c) = least[None][c.initial]
  BY DEF LeastCost
<1>8. QED
  BY <1>6, <1>7

-----------------------------------------------------------------------------
(* No plan costs less than the cheapest fuel that can have been bought for *)
(* each grain of the way                                                   *)

\* The stations where a truck can have bought the grain that it burns y grains
\* from the origin, its reserve left aside, and the least price there.
Sellers(c, y) == {s \in Stations : c.at[s] <= y /\ y < c.at[s] + (c.usable - c.reserve)}

Rate(c, y) ==
  IF y < c.total /\ Sellers(c, y) # {} THEN Min({c.price[s] : s \in Sellers(c, y)}) ELSE 0

LEMMA RateBounds ==
  ASSUME NEW c, Sound(c), NEW y \in Nat
  PROVE  /\ Rate(c, y) \in Nat
         /\ \A s \in Sellers(c, y) : Rate(c, y) <= c.price[s]
         /\ y >= c.total => Rate(c, y) = 0
         /\ \A s \in Sellers(c, y) :
              y < c.total /\ (\A u \in Sellers(c, y) : c.price[s] <= c.price[u])
                => Rate(c, y) = c.price[s]
<1> DEFINE prices == {c.price[s] : s \in Sellers(c, y)}
<1>1. \A s \in Sellers(c, y) : c.price[s] \in Nat /\ c.price[s] \in prices
  BY SoundFields DEF Sellers
<1>2. prices \subseteq Nat
  BY <1>1
<1>3. c.total \in Nat
  BY SoundFields
<1>4. Sellers(c, y) # {} => Min(prices) \in prices /\ \A n \in prices : Min(prices) <= n
  <2>1. Sellers(c, y) # {} => prices # {}
    OBVIOUS
  <2> HIDE DEF prices
  <2>2. QED
    BY <1>2, <2>1, MinOf
<1>5. Rate(c, y) = IF y < c.total /\ Sellers(c, y) # {} THEN Min(prices) ELSE 0
  BY DEF Rate
<1>6. \A s \in Sellers(c, y) :
        (\A u \in Sellers(c, y) : c.price[s] <= c.price[u]) => Min(prices) = c.price[s]
  <2>1. ASSUME NEW s \in Sellers(c, y), \A u \in Sellers(c, y) : c.price[s] <= c.price[u]
        PROVE  Min(prices) = c.price[s]
    <3>1. Min(prices) \in prices /\ Min(prices) <= c.price[s]
      BY <1>1, <1>4, <2>1
    <3>2. c.price[s] <= Min(prices) /\ Min(prices) \in Nat
      BY <1>2, <2>1, <3>1
    <3> HIDE DEF prices
    <3>3. QED
      BY <1>1, <2>1, <3>1, <3>2
  <2>2. QED
    BY <2>1
<1> HIDE DEF prices
<1>7. CASE y < c.total /\ Sellers(c, y) # {}
  <2>1. Rate(c, y) = Min(prices) /\ Rate(c, y) \in Nat
    BY <1>2, <1>4, <1>5, <1>7
  <2>2. \A s \in Sellers(c, y) : Rate(c, y) <= c.price[s]
    BY <1>1, <1>4, <1>7, <2>1
  <2>3. ~(y >= c.total)
    BY <1>3, <1>7
  <2>4. QED
    BY <1>6, <2>1, <2>2, <2>3
<1>8. CASE ~(y < c.total /\ Sellers(c, y) # {})
  <2>1. Rate(c, y) = 0
    BY <1>5, <1>8
  <2>2. \A s \in Sellers(c, y) : 0 <= c.price[s]
    BY <1>1
  <2>3. QED
    BY <1>8, <2>1, <2>2
<1>9. QED
  BY <1>7, <1>8

\* What the way up to each grain costs at these rates.
Accrues(c, w) ==
  /\ w \in [Nat -> Nat]
  /\ \A y \in Nat : w[y + 1] = w[y] + Rate(c, y)
  /\ \A y \in Nat : y >= c.total => w[y] = w[c.total]

LEMMA AccruesSoFar ==
  ASSUME NEW c, Sound(c), NEW k \in Nat
  PROVE  \E w \in [Nat -> Nat] : \A y \in Nat : y < k => w[y + 1] = w[y] + Rate(c, y)
<1> DEFINE So(w, n) == \A y \in Nat : y < n => w[y + 1] = w[y] + Rate(c, y)
           bad == {n \in Nat : ~ \E w \in [Nat -> Nat] : So(w, n)}
<1>1. SUFFICES ASSUME bad # {} PROVE FALSE
  BY Zenon
<1>2. PICK n \in bad : \A m \in bad : n <= m
  <2> HIDE DEF bad
  <2>1. QED
    BY <1>1, NatMin DEF bad
<1>3. CASE n = 0
  <2>1. [y \in Nat |-> 0] \in [Nat -> Nat] /\ So([y \in Nat |-> 0], 0)
    OBVIOUS
  <2>2. QED
    BY <1>2, <1>3, <2>1
<1>4. CASE n # 0
  <2>1. n \in Nat /\ n - 1 \in Nat /\ n - 1 \notin bad
    BY <1>2, <1>4
  <2>2. PICK w \in [Nat -> Nat] : So(w, n - 1)
    BY <2>1
  <2>3. PICK v : v = [y \in Nat |-> IF y = n THEN w[n - 1] + Rate(c, n - 1) ELSE w[y]]
    OBVIOUS
  <2>4. w[n - 1] \in Nat /\ Rate(c, n - 1) \in Nat
    BY <2>1, RateBounds
  <2>5. v \in [Nat -> Nat]
    BY <2>1, <2>3, <2>4
  <2>6. So(v, n)
    <3>1. ASSUME NEW y \in Nat, y < n PROVE v[y + 1] = v[y] + Rate(c, y)
      <4>1. CASE y = n - 1
        BY <2>1, <2>3, <4>1
      <4>2. CASE y # n - 1
        <5>1. y < n - 1 /\ y + 1 # n /\ y + 1 \in Nat /\ y # n
          BY <2>1, <3>1, <4>2
        <5>2. w[y + 1] = w[y] + Rate(c, y)
          BY <2>2, <5>1
        <5>3. QED
          BY <2>3, <5>1, <5>2
      <4>3. QED
        BY <4>1, <4>2
    <3>2. QED
      BY <3>1
  <2>7. QED
    BY <1>2, <2>5, <2>6
<1>5. QED
  BY <1>2, <1>3, <1>4

LEMMA AccruesExists ==
  ASSUME NEW c, Sound(c)
  PROVE  \E w : Accrues(c, w)
<1>1. c.total \in Nat
  BY SoundFields
<1>2. PICK w \in [Nat -> Nat] : \A y \in Nat : y < c.total => w[y + 1] = w[y] + Rate(c, y)
  BY <1>1, AccruesSoFar
<1>3. PICK v : v = [y \in Nat |-> IF y < c.total THEN w[y] ELSE w[c.total]]
  OBVIOUS
<1>4. v \in [Nat -> Nat] /\ \A y \in Nat : y >= c.total => v[y] = v[c.total]
  BY <1>1, <1>3
<1>5. ASSUME NEW y \in Nat PROVE v[y + 1] = v[y] + Rate(c, y)
  <2>1. CASE y < c.total
    <3>1. v[y] = w[y] /\ v[y + 1] = w[y + 1]
      BY <1>1, <1>3, <2>1
    <3>2. QED
      BY <1>2, <2>1, <3>1
  <2>2. CASE ~(y < c.total)
    <3>1. y >= c.total /\ y + 1 \in Nat /\ y + 1 >= c.total
      BY <1>1, <2>2
    <3>2. Rate(c, y) = 0 /\ v[y + 1] = v[y] /\ v[y] \in Nat
      BY <1>4, <3>1, RateBounds
    <3>3. QED
      BY <3>2
  <2>3. QED
    BY <2>1, <2>2
<1>6. QED
  BY <1>4, <1>5 DEF Accrues

\* Over a stretch where the rate is at most a price, or is the price.
LEMMA Stretch ==
  ASSUME NEW c, Sound(c), NEW w, Accrues(c, w), NEW y \in Nat, NEW price \in Nat,
         NEW n \in Nat
  PROVE  /\ (\A i \in Nat : y <= i /\ i < y + n => Rate(c, i) <= price)
              => w[y + n] <= w[y] + n * price
         /\ (\A i \in Nat : y <= i /\ i < y + n => Rate(c, i) = price)
              => w[y + n] = w[y] + n * price
         /\ w[y] <= w[y + n]
<1> DEFINE Under(k) == \A i \in Nat : y <= i /\ i < y + k => Rate(c, i) <= price
           Equal(k) == \A i \in Nat : y <= i /\ i < y + k => Rate(c, i) = price
           Good(k) == /\ Under(k) => w[y + k] <= w[y] + k * price
                      /\ Equal(k) => w[y + k] = w[y] + k * price
                      /\ w[y] <= w[y + k]
           bad == {k \in Nat : ~ Good(k)}
<1>1. SUFFICES ASSUME bad # {} PROVE FALSE
  OBVIOUS
<1>2. PICK k \in bad : \A m \in bad : k <= m
  <2> HIDE DEF bad
  <2>1. QED
    BY <1>1, NatMin DEF bad
<1>3. w[y] \in Nat
  BY DEF Accrues
<1>4. CASE k = 0
  <2>1. Good(0)
    BY <1>3
  <2>2. QED
    BY <1>2, <1>4, <2>1
<1>5. CASE k # 0
  <2>1. k \in Nat /\ k - 1 \in Nat /\ k - 1 \notin bad
    BY <1>2, <1>5
  <2>2. Good(k - 1)
    BY <2>1
  <2>3. PICK z \in Nat : z = y + (k - 1)
    BY <2>1
  <2>4. /\ z + 1 = y + k /\ y <= z /\ z < y + k
        /\ w[z + 1] = w[z] + Rate(c, z)
        /\ w[z] \in Nat /\ Rate(c, z) \in Nat
    BY <2>1, <2>3, RateBounds DEF Accrues
  <2>5. k * price = (k - 1) * price + price
    BY <2>1
  <2>6. (k - 1) * price \in Nat
    BY <2>1
  <2>7. PICK less \in Nat : less = (k - 1) * price
    BY <2>6
  <2>8. /\ Under(k) => Under(k - 1) /\ Rate(c, z) <= price
        /\ Equal(k) => Equal(k - 1) /\ Rate(c, z) = price
    BY <2>1, <2>4
  <2>9. /\ Under(k) => w[z] <= w[y] + less
        /\ Equal(k) => w[z] = w[y] + less
        /\ w[y] <= w[z]
    BY <2>2, <2>3, <2>7, <2>8
  <2> HIDE DEF Under, Equal
  <2>10. Good(k)
    BY <1>3, <2>4, <2>5, <2>7, <2>8, <2>9
  <2>11. QED
    BY <1>2, <2>10
<1>6. QED
  BY <1>2, <1>4, <1>5

-----------------------------------------------------------------------------
(* The least cost of the rest of the way                                   *)

LEMMA LegType ==
  ASSUME NEW c, Sound(c), NEW p \in Places, NEW q \in Places
  PROVE  Leg(c, p, q) \in Nat
<1>1. \A from, to, detour \in Nat : FuelBetween(from, to, detour) \in Nat
  BY DEF FuelBetween
<1>2. \A s \in Places : s # None => c.at[s] \in Nat /\ c.detour[s] \in Nat
  BY SoundFields DEF Places
<1>3. c.total \in Nat /\ 0 \in Nat
  BY SoundFields
<1>4. PICK from \in Nat : from = IF p = None THEN 0 ELSE c.at[p]
  BY <1>2
<1>5. PICK to \in Nat : to = IF q = None THEN c.total ELSE c.at[q]
  BY <1>2, <1>3
<1>6. PICK detour \in Nat : detour = IF q = None THEN 0 ELSE c.detour[q]
  BY <1>2
<1>7. QED
  BY <1>1, <1>4, <1>5, <1>6 DEF Leg

\* A purchase fits the tank, and what is left on arrival is a level of it.
LEMMA AmountsFit ==
  ASSUME NEW c, Sound(c), NEW p \in Places, NEW f \in 0 .. c.usable,
         NEW q \in Places, NEW b \in Amounts(c, p, f, q)
  PROVE  /\ b \in Nat /\ Price(c, p) \in Nat /\ b * Price(c, p) \in Nat
         /\ f + b <= c.usable
         /\ f + b - Leg(c, p, q) \in c.reserve .. c.usable
         /\ f + b - Leg(c, p, q) \in 0 .. c.usable
<1>1. Leg(c, p, q) \in Nat /\ c.usable \in Nat /\ c.reserve \in Nat
  BY LegType, SoundFields
<1>2. b \in Nat /\ f + b <= c.usable /\ f + b >= Leg(c, p, q) + c.reserve
  BY <1>1 DEF Amounts
<1>3. Price(c, p) \in Nat
  BY SoundFields DEF Price, Places
<1>4. b * Price(c, p) \in Nat
  BY <1>2, <1>3, ProductType
<1>5. QED
  BY <1>1, <1>2, <1>3, <1>4

LEMMA BestType ==
  ASSUME NEW c, Sound(c), NEW best, Best(c, best), NEW p \in Places,
         NEW f \in 0 .. c.usable
  PROVE  /\ best[p][f] \in Nat
         /\ best[p][f] \in Costs(c, best, p, f)
         /\ \A n \in Costs(c, best, p, f) : best[p][f] <= n
<1> DEFINE Typed1(q) == \A e \in 0 .. c.usable : best[q][e] \in Nat
           bad == {Rank(c, q) : q \in {r \in Places : ~Typed1(r)}}
<1>1. ASSUME NEW q \in Places, \A s \in Onward(c, q) : Typed1(s), NEW e \in 0 .. c.usable
      PROVE  /\ best[q][e] \in Nat
             /\ best[q][e] \in Costs(c, best, q, e)
             /\ \A n \in Costs(c, best, q, e) : best[q][e] <= n
  <2>1. NoPlan \in Nat
    BY DEF NoPlan
  <2>2. None \in Places /\ \A s \in Onward(c, q) : s \in Places
    BY RankFalls DEF Places
  <2>3. \A b \in Amounts(c, q, e, None) : b * Price(c, q) \in Nat
    BY <2>2, AmountsFit
  <2>4. \A s \in Onward(c, q) : \A b \in Amounts(c, q, e, s) :
          b * Price(c, q) + best[s][e + b - Leg(c, q, s)] \in Nat
    <3>1. ASSUME NEW s \in Onward(c, q), NEW b \in Amounts(c, q, e, s)
          PROVE  b * Price(c, q) + best[s][e + b - Leg(c, q, s)] \in Nat
      <4>1. /\ b * Price(c, q) \in Nat
            /\ e + b - Leg(c, q, s) \in 0 .. c.usable
        BY <2>2, AmountsFit
      <4>2. best[s][e + b - Leg(c, q, s)] \in Nat
        BY <1>1, <4>1
      <4>3. QED
        BY <4>1, <4>2
    <3>2. QED
      BY <3>1
  <2>5. Costs(c, best, q, e) \subseteq Nat
    BY <2>1, <2>3, <2>4 DEF Costs
  <2>6. Costs(c, best, q, e) # {}
    BY DEF Costs
  <2>7. best[q][e] = Min(Costs(c, best, q, e))
    <3>1. best[q] = BestOf(c, best, q)
      BY Zenon DEF Best
    <3>2. BestOf(c, best, q)[e] = Min(Costs(c, best, q, e))
      BY DEF BestOf
    <3>3. QED
      BY <3>1, <3>2, Zenon
  <2>8. PICK costs : costs = Costs(c, best, q, e)
    OBVIOUS
  <2>9. Min(costs) \in costs /\ \A n \in costs : Min(costs) <= n
    BY <2>5, <2>6, <2>8, MinOf
  <2>10. QED
    BY <2>5, <2>7, <2>8, <2>9
<1>2. \A r \in Places : Typed1(r)
  <2>1. SUFFICES ASSUME bad # {} PROVE FALSE
    OBVIOUS
  <2>2. bad \subseteq Nat
    BY RankFalls, SoundFields
  <2>3. PICK n \in bad : \A m \in bad : n <= m
    <3> HIDE DEF bad
    <3>1. QED
      BY <2>1, <2>2, NatMin
  <2>4. PICK q \in Places : n = Rank(c, q) /\ ~Typed1(q)
    BY <2>3
  <2>5. \A s \in Onward(c, q) : Typed1(s)
    <3>1. ASSUME NEW s \in Onward(c, q), ~Typed1(s) PROVE FALSE
      <4>1. s \in Places /\ Rank(c, s) < Rank(c, q) /\ Rank(c, s) \in bad
        BY <3>1, RankFalls
      <4>2. Rank(c, q) <= Rank(c, s)
        BY <2>3, <2>4, <4>1
      <4>3. Rank(c, s) \in Nat /\ Rank(c, q) \in Nat
        BY <2>2, <2>3, <2>4, <4>1
      <4>4. QED
        BY <4>1, <4>2, <4>3
    <3>2. QED
      BY <3>1
  <2>6. Typed1(q)
    BY <1>1, <2>5
  <2>7. QED
    BY <2>4, <2>6
<1>3. \A s \in Onward(c, p) : Typed1(s)
  BY <1>2, RankFalls
<1>4. QED
  BY <1>1, <1>3

\* Where the costs come from, one fact per way to go on.
LEMMA CostCases ==
  ASSUME NEW c, NEW best, NEW p, NEW f
  PROVE  /\ NoPlan \in Costs(c, best, p, f)
         /\ \A b \in Amounts(c, p, f, None) : b * Price(c, p) \in Costs(c, best, p, f)
         /\ \A s \in Onward(c, p) : \A b \in Amounts(c, p, f, s) :
              b * Price(c, p) + best[s][f + b - Leg(c, p, s)] \in Costs(c, best, p, f)
         /\ \A n \in Costs(c, best, p, f) :
              \/ n = NoPlan
              \/ \E b \in Amounts(c, p, f, None) : n = b * Price(c, p)
              \/ \E s \in Onward(c, p) : \E b \in Amounts(c, p, f, s) :
                   n = b * Price(c, p) + best[s][f + b - Leg(c, p, s)]
BY DEF Costs

\* What is bought at a place is sold there for every grain it lasts for.
LEMMA BoughtAtRate ==
  ASSUME NEW c, Sound(c), OnTheLine(c), NEW w, Accrues(c, w),
         NEW p \in Places, PlaceAt(c, p) <= c.total,
         NEW f \in c.reserve .. c.usable, NEW q \in Places, NEW b \in Amounts(c, p, f, q)
  PROVE  /\ PlaceAt(c, p) + f - c.reserve \in Nat
         /\ w[PlaceAt(c, p) + f - c.reserve + b]
              <= w[PlaceAt(c, p) + f - c.reserve] + b * Price(c, p)
<1>1. /\ PlaceAt(c, p) \in Nat /\ c.reserve \in Nat /\ c.usable \in Nat /\ f \in Nat
      /\ f \in 0 .. c.usable
  BY LegOnTheLine, SoundFields
<1>2. b \in Nat /\ Price(c, p) \in Nat /\ f + b <= c.usable
  BY <1>1, AmountsFit
<1>3. PICK y \in Nat : y = PlaceAt(c, p) + f - c.reserve
  BY <1>1
<1>4. \A i \in Nat : y <= i /\ i < y + b => Rate(c, i) <= Price(c, p)
  <2>1. CASE p = None
    <3>1. b = 0
      BY <2>1 DEF Amounts
    <3>2. QED
      BY <1>3, <3>1
  <2>2. CASE p # None
    <3>1. p \in Stations /\ PlaceAt(c, p) = c.at[p] /\ Price(c, p) = c.price[p]
      BY <2>2 DEF PlaceAt, Price, Places
    <3>2. ASSUME NEW i \in Nat, y <= i, i < y + b PROVE p \in Sellers(c, i)
      BY <1>1, <1>2, <1>3, <3>1, <3>2 DEF Sellers
    <3>3. QED
      BY <3>1, <3>2, RateBounds
  <2>3. QED
    BY <2>1, <2>2
<1>5. w[y + b] <= w[y] + b * Price(c, p)
  BY <1>2, <1>4, Stretch
<1>6. QED
  BY <1>3, <1>5

\* From any place, whatever the rest of the way costs and the tank's fuel above
\* the reserve is worth as much as the way costs at its rates.
LEMMA NoPlanBeatsTheRates ==
  ASSUME NEW c, Sound(c), OnTheLine(c), NEW best, Best(c, best), NEW w, Accrues(c, w),
         NEW p \in Places, PlaceAt(c, p) <= c.total, NEW f \in c.reserve .. c.usable
  PROVE  \/ best[p][f] >= NoPlan
         \/ best[p][f] + w[PlaceAt(c, p) + f - c.reserve] >= w[c.total]
<1> DEFINE Holds(q) ==
             PlaceAt(c, q) <= c.total =>
               \A e \in c.reserve .. c.usable :
                 \/ best[q][e] >= NoPlan
                 \/ best[q][e] + w[PlaceAt(c, q) + e - c.reserve] >= w[c.total]
           bad == {Rank(c, q) : q \in {r \in Places : ~Holds(r)}}
<1>1. SUFFICES ASSUME bad # {} PROVE FALSE
  OBVIOUS
<1>2. bad \subseteq Nat
  BY RankFalls, SoundFields
<1>3. PICK n \in bad : \A m \in bad : n <= m
  <2> HIDE DEF bad
  <2>1. QED
    BY <1>1, <1>2, NatMin
<1>4. PICK q \in Places : n = Rank(c, q) /\ ~Holds(q)
  BY <1>3
<1>5. \A s \in Onward(c, q) : Holds(s)
  <2>1. ASSUME NEW s \in Onward(c, q), ~Holds(s) PROVE FALSE
    <3>1. s \in Places /\ Rank(c, s) < Rank(c, q) /\ Rank(c, s) \in bad
      BY <2>1, RankFalls
    <3>2. Rank(c, q) <= Rank(c, s)
      BY <1>3, <1>4, <3>1
    <3>3. Rank(c, s) \in Nat /\ Rank(c, q) \in Nat
      BY <1>2, <1>3, <1>4, <3>1
    <3>4. QED
      BY <3>1, <3>2, <3>3
  <2>2. QED
    BY <2>1
<1>6. PICK e \in c.reserve .. c.usable :
        /\ PlaceAt(c, q) <= c.total
        /\ ~(best[q][e] >= NoPlan)
        /\ ~(best[q][e] + w[PlaceAt(c, q) + e - c.reserve] >= w[c.total])
  BY <1>4
<1>7. /\ PlaceAt(c, q) \in Nat /\ c.reserve \in Nat /\ c.usable \in Nat /\ c.total \in Nat
      /\ e \in Nat /\ e \in 0 .. c.usable /\ c.reserve <= e
  BY <1>6, LegOnTheLine, SoundFields
<1>8. best[q][e] \in Nat /\ best[q][e] \in Costs(c, best, q, e)
  BY <1>7, BestType
<1>9. PICK y \in Nat : y = PlaceAt(c, q) + e - c.reserve
  BY <1>7
<1>10. /\ w[y] \in Nat /\ w[c.total] \in Nat
       /\ \A i \in Nat : w[i] \in Nat /\ (i >= c.total => w[i] = w[c.total])
  BY <1>7 DEF Accrues
<1> HIDE DEF bad
<1>11. CASE best[q][e] = NoPlan
  BY <1>6, <1>8, <1>11 DEF NoPlan
<1>12. CASE \E b \in Amounts(c, q, e, None) : best[q][e] = b * Price(c, q)
  <2>1. PICK b \in Amounts(c, q, e, None) : best[q][e] = b * Price(c, q)
    BY <1>12
  <2>2. None \in Places
    BY DEF Places
  <2>3. b \in Nat /\ e + b - Leg(c, q, None) \in c.reserve .. c.usable
    BY <1>7, <2>2, AmountsFit
  <2>4. Leg(c, q, None) = c.total - PlaceAt(c, q)
    BY <1>6, LegOnTheLine
  <2>5. y + b \in Nat /\ y + b >= c.total
    BY <1>6, <1>7, <1>9, <2>3, <2>4
  <2>6. w[y + b] = w[c.total]
    BY <1>10, <2>5
  <2>7. w[y + b] <= w[y] + b * Price(c, q)
    BY <1>6, <1>9, <2>2, BoughtAtRate
  <2>8. QED
    BY <1>6, <1>8, <1>9, <1>10, <2>1, <2>6, <2>7
<1>13. CASE \E s \in Onward(c, q) : \E b \in Amounts(c, q, e, s) :
              best[q][e] = b * Price(c, q) + best[s][e + b - Leg(c, q, s)]
  <2>1. PICK s \in Onward(c, q) : \E b \in Amounts(c, q, e, s) :
              best[q][e] = b * Price(c, q) + best[s][e + b - Leg(c, q, s)]
    BY <1>13
  <2>2. PICK b \in Amounts(c, q, e, s) :
              best[q][e] = b * Price(c, q) + best[s][e + b - Leg(c, q, s)]
    BY <2>1
  <2>3. /\ s \in Places /\ PlaceAt(c, s) <= c.total
        /\ PlaceAt(c, q) < PlaceAt(c, s)
        /\ Leg(c, q, s) = PlaceAt(c, s) - PlaceAt(c, q)
    BY <1>6, LegOnTheLine
  <2>4. PlaceAt(c, s) \in Nat
    BY <2>3, LegOnTheLine
  <2>5. /\ b \in Nat /\ b * Price(c, q) \in Nat
        /\ e + b - Leg(c, q, s) \in c.reserve .. c.usable
        /\ e + b - Leg(c, q, s) \in 0 .. c.usable
    BY <1>7, <2>3, AmountsFit
  <2>6. PICK g \in c.reserve .. c.usable : g = e + b - Leg(c, q, s)
    BY <2>5
  <2>7. PICK paid \in Nat : paid = b * Price(c, q)
    BY <2>5
  <2>8. best[s][g] \in Nat /\ best[q][e] = paid + best[s][g]
    BY <2>2, <2>3, <2>5, <2>6, <2>7, BestType
  <2>9. PlaceAt(c, s) + g - c.reserve = y + b
    BY <1>7, <1>9, <2>3, <2>4, <2>5, <2>6
  <2>10. best[s][g] >= NoPlan \/ best[s][g] + w[y + b] >= w[c.total]
    BY <1>5, <2>3, <2>9
  <2>11. w[y + b] <= w[y] + paid /\ w[y + b] \in Nat
    BY <1>6, <1>9, <1>10, <2>3, <2>5, <2>7, BoughtAtRate
  <2>12. NoPlan \in Nat
    BY DEF NoPlan
  <2>13. QED
    BY <1>6, <1>8, <1>9, <1>10, <2>7, <2>8, <2>10, <2>11, <2>12
<1>14. QED
  BY <1>8, <1>11, <1>12, <1>13, CostCases

\* What a place offers is no cheaper than the least cost from there.
LEMMA ArriveCosts ==
  ASSUME NEW c, Sound(c), NEW best, Best(c, best), NEW p \in Places,
         NEW f \in 0 .. c.usable, f >= Leg(c, p, None) + c.reserve
  PROVE  best[p][f] = 0
<1>1. None \in Places /\ f \in Nat /\ c.usable \in Nat
  BY SoundFields DEF Places
<1>2. 0 \in Amounts(c, p, f, None)
  BY <1>1 DEF Amounts
<1>3. Price(c, p) \in Nat /\ 0 * Price(c, p) = 0
  BY <1>1, <1>2, AmountsFit
<1>4. 0 \in Costs(c, best, p, f)
  BY <1>2, <1>3, CostCases
<1>5. QED
  BY <1>4, BestType

LEMMA DriveCosts ==
  ASSUME NEW c, Sound(c), NEW best, Best(c, best), NEW p \in Places,
         NEW f \in 0 .. c.usable, NEW s \in Onward(c, p), f >= Leg(c, p, s) + c.reserve
  PROVE  best[p][f] <= best[s][f - Leg(c, p, s)]
<1>1. f \in Nat /\ c.usable \in Nat /\ s \in Places
  BY SoundFields, RankFalls
<1>2. 0 \in Amounts(c, p, f, s)
  BY <1>1 DEF Amounts
<1>3. /\ Price(c, p) \in Nat /\ 0 * Price(c, p) = 0 /\ Leg(c, p, s) \in Nat
      /\ f + 0 - Leg(c, p, s) \in 0 .. c.usable
  BY <1>1, <1>2, AmountsFit, LegType
<1>4. 0 * Price(c, p) + best[s][f + 0 - Leg(c, p, s)] \in Costs(c, best, p, f)
  BY <1>2, CostCases
<1>5. best[p][f] <= 0 * Price(c, p) + best[s][f + 0 - Leg(c, p, s)]
  BY <1>4, BestType
<1>6. f + 0 - Leg(c, p, s) = f - Leg(c, p, s)
  BY <1>1, <1>3
<1>7. best[s][f - Leg(c, p, s)] \in Nat
  BY <1>1, <1>3, <1>6, BestType
<1>8. QED
  BY <1>3, <1>5, <1>6, <1>7

LEMMA BuyCosts ==
  ASSUME NEW c, Sound(c), NEW best, Best(c, best), NEW p \in Stations,
         NEW f \in Nat, NEW a \in Nat, f + a <= c.usable
  PROVE  best[p][f] <= a * c.price[p] + best[p][f + a]
<1>1. /\ c.usable \in Nat /\ p \in Places /\ p # None /\ Price(c, p) = c.price[p]
      /\ c.price[p] \in Nat
  BY SoundFields, FuelOptimizerAssumption DEF Price, Places
<1>2. PICK g \in 0 .. c.usable : g = f + a
  BY <1>1
<1>3. f \in 0 .. c.usable
  BY <1>1
<1>4. PICK paid \in Nat : paid = a * c.price[p]
  BY <1>1, ProductType
<1>5. best[p][f] \in Nat /\ best[p][g] \in Nat /\ best[p][g] \in Costs(c, best, p, g)
  BY <1>1, <1>3, BestType
<1>6. ASSUME NEW q \in Places, NEW b \in Amounts(c, p, g, q)
      PROVE  /\ a + b \in Amounts(c, p, f, q)
             /\ (a + b) * c.price[p] = paid + b * c.price[p]
             /\ b * c.price[p] \in Nat
             /\ f + (a + b) - Leg(c, p, q) = g + b - Leg(c, p, q)
             /\ g + b - Leg(c, p, q) \in 0 .. c.usable
  <2>1. b \in Nat /\ Leg(c, p, q) \in Nat /\ g + b <= c.usable
    BY <1>1, <1>6, AmountsFit, LegType
  <2>2. (a + b) * c.price[p] = paid + b * c.price[p] /\ b * c.price[p] \in Nat
    BY <1>1, <1>4, <2>1
  <2>3. a + b \in Amounts(c, p, f, q)
    BY <1>1, <1>2, <1>6, <2>1 DEF Amounts
  <2>4. QED
    BY <1>1, <1>2, <1>6, <2>1, <2>2, <2>3, AmountsFit
<1>7. NoPlan \in Nat /\ best[p][f] <= NoPlan
  BY <1>3, <1>1, BestType, CostCases DEF NoPlan
<1>8. CASE best[p][g] = NoPlan
  BY <1>2, <1>4, <1>5, <1>7, <1>8
<1>9. ASSUME NEW b \in Amounts(c, p, g, None), best[p][g] = b * Price(c, p)
      PROVE  best[p][f] <= paid + best[p][g]
  <2>1. None \in Places
    BY DEF Places
  <2>2. a + b \in Amounts(c, p, f, None) /\ (a + b) * Price(c, p) = paid + best[p][g]
    BY <1>1, <1>6, <1>9, <2>1
  <2>3. (a + b) * Price(c, p) \in Costs(c, best, p, f)
    BY <2>2, CostCases
  <2>4. QED
    BY <1>1, <1>3, <2>2, <2>3, BestType
<1>10. ASSUME NEW s \in Onward(c, p), NEW b \in Amounts(c, p, g, s),
              best[p][g] = b * Price(c, p) + best[s][g + b - Leg(c, p, s)]
       PROVE  best[p][f] <= paid + best[p][g]
  <2>1. s \in Places
    BY <1>1, RankFalls
  <2>2. /\ a + b \in Amounts(c, p, f, s)
        /\ (a + b) * Price(c, p) = paid + b * Price(c, p)
        /\ b * Price(c, p) \in Nat
        /\ f + (a + b) - Leg(c, p, s) = g + b - Leg(c, p, s)
        /\ g + b - Leg(c, p, s) \in 0 .. c.usable
    BY <1>1, <1>6, <2>1
  <2>3. best[s][g + b - Leg(c, p, s)] \in Nat
    BY <2>1, <2>2, BestType
  <2>4. (a + b) * Price(c, p) + best[s][f + (a + b) - Leg(c, p, s)]
          \in Costs(c, best, p, f)
    BY <2>2, CostCases
  <2>5. best[p][f] <= (a + b) * Price(c, p) + best[s][f + (a + b) - Leg(c, p, s)]
    BY <1>1, <1>3, <2>4, BestType
  <2>6. QED
    BY <1>4, <1>5, <1>10, <2>2, <2>3, <2>5
<1>11. QED
  BY <1>2, <1>4, <1>5, <1>8, <1>9, <1>10, CostCases

-----------------------------------------------------------------------------
(* Nothing is rounded                                                      *)

Whole(x) == x \in Nat /\ x % Quantum = 0

LEMMA Division ==
  ASSUME NEW x \in Nat
  PROVE  \E q, r \in Nat : x % Quantum = r /\ r < Quantum /\ x = Quantum * q + r
<1>1. Quantum \in Nat /\ Quantum > 0
  BY FuelOptimizerAssumption
<1> DEFINE q == x \div Quantum
           r == x % Quantum
<1>2. q \in Nat /\ r \in Nat /\ r < Quantum /\ x = Quantum * q + r
  BY <1>1
<1>3. QED
  BY <1>2

LEMMA WholeMultiple ==
  ASSUME NEW x
  PROVE  Whole(x) <=> \E k \in Nat : x = k * Quantum
<1>1. Quantum \in Nat /\ Quantum > 0
  BY FuelOptimizerAssumption
<1>2. ASSUME Whole(x) PROVE \E k \in Nat : x = k * Quantum
  <2>1. PICK q \in Nat, r \in Nat : x % Quantum = r /\ x = Quantum * q + r
    BY <1>2, Division DEF Whole
  <2>2. x = q * Quantum
    BY <1>1, <1>2, <2>1 DEF Whole
  <2>3. QED
    BY <2>2
<1>3. ASSUME NEW k \in Nat, x = k * Quantum PROVE Whole(x)
  <2>1. x \in Nat
    BY <1>1, <1>3
  <2>2. PICK q \in Nat, r \in Nat : x % Quantum = r /\ r < Quantum /\ x = Quantum * q + r
    BY <2>1, Division
  <2>3. PICK d \in Int : d = k - q
    BY <1>3
  <2>4. Quantum * d = r
    BY <1>1, <1>3, <2>2, <2>3
  <2>5. d >= 1 => Quantum * d >= Quantum
    BY <1>1
  <2>6. d < 0 => Quantum * d < 0
    BY <1>1
  <2>7. d = 0
    BY <1>1, <2>2, <2>4, <2>5, <2>6
  <2>8. r = 0
    BY <1>1, <2>4, <2>7
  <2>9. QED
    BY <2>1, <2>2, <2>8 DEF Whole
<1>4. QED
  BY <1>2, <1>3

LEMMA WholeSums ==
  ASSUME NEW x, NEW y, Whole(x), Whole(y)
  PROVE  Whole(x + y) /\ (x >= y => Whole(x - y))
<1>1. Quantum \in Nat /\ Quantum > 0
  BY FuelOptimizerAssumption
<1>2. PICK k \in Nat : x = k * Quantum
  BY WholeMultiple
<1>3. PICK m \in Nat : y = m * Quantum
  BY WholeMultiple
<1>4. x + y = (k + m) * Quantum
  BY <1>1, <1>2, <1>3
<1>5. ASSUME x >= y PROVE Whole(x - y)
  <2>1. k >= m
    BY <1>1, <1>2, <1>3, <1>5
  <2>2. x - y = (k - m) * Quantum /\ k - m \in Nat
    BY <1>1, <1>2, <1>3, <2>1
  <2>3. QED
    BY <2>2, WholeMultiple
<1>6. QED
  BY <1>4, <1>5, WholeMultiple

LEMMA RoundUpWhole ==
  ASSUME NEW x, Whole(x)
  PROVE  RoundUp(x) = x
<1>1. Quantum \in Nat /\ Quantum > 0
  BY FuelOptimizerAssumption
<1>2. PICK k \in Nat : x = k * Quantum
  BY WholeMultiple
<1>3. (k * Quantum + Quantum - 1) \div Quantum = k
  BY <1>1
<1>4. QED
  BY <1>2, <1>3 DEF RoundUp

-----------------------------------------------------------------------------
(* What the truck chooses and buys on such a line                          *)

\* The contexts of which OptimalWithoutDetours speaks.
Simple ==
  /\ Unlimited
  /\ OnTheLine(ctx) /\ NeedsNoRounding(ctx)
  /\ ctx.initial >= ctx.reserve

\* The truck is at its station, and on the route.
Placed == offset = PlaceAt(ctx, station) /\ offset <= ctx.total

LEMMA Way ==
  ASSUME Typed, ReserveKept, Simple, Placed
  PROVE  /\ Sound(ctx)
         /\ ctx.total \in Nat /\ ctx.usable \in Nat /\ ctx.reserve \in Nat
         /\ offset \in Nat /\ offset <= ctx.total
         /\ station \in Places /\ (station # None => station \in Stations)
         /\ fuel \in Nat /\ ctx.reserve <= fuel /\ fuel <= ctx.usable
         /\ FuelToDestination = ctx.total - offset
         /\ Leg(ctx, station, None) = ctx.total - offset
         /\ \A s \in Stations : ctx.at[s] \in Nat /\ ctx.price[s] \in Nat
         /\ \A s \in Ahead :
              /\ s \in Stations /\ s # None /\ s \in Onward(ctx, station)
              /\ offset < ctx.at[s] /\ ctx.at[s] <= ctx.total
              /\ FuelTo(s) = ctx.at[s] - offset
              /\ Leg(ctx, station, s) = ctx.at[s] - offset
<1>1. Sound(ctx)
  BY ContextFields DEF Sound, Typed
<1>2. PICK c : c = ctx
  OBVIOUS
<1>3. PICK p : p = station
  OBVIOUS
<1>4. p \in Places /\ (p # None => p \in Stations)
  BY <1>3 DEF Typed, TypeOK, Places
<1>5. Sound(c) /\ OnTheLine(c) /\ PlaceAt(c, p) <= c.total /\ offset = PlaceAt(c, p)
  BY <1>1, <1>2, <1>3 DEF Simple, Placed
<1>6. /\ PlaceAt(c, p) \in Nat
      /\ Leg(c, p, None) = c.total - PlaceAt(c, p)
      /\ \A s \in Onward(c, p) :
           /\ PlaceAt(c, p) < PlaceAt(c, s) /\ PlaceAt(c, s) <= c.total
           /\ Leg(c, p, s) = PlaceAt(c, s) - PlaceAt(c, p)
  BY <1>4, <1>5, LegOnTheLine
<1>7. /\ ctx.total \in Nat /\ ctx.usable \in Nat /\ ctx.reserve \in Nat
      /\ offset \in Nat /\ fuel \in Nat /\ fuel <= ctx.usable /\ ctx.reserve <= fuel
      /\ \A s \in Stations : ctx.at[s] \in Nat /\ ctx.price[s] \in Nat
  BY ContextFields DEF Typed, TypeOK, ReserveKept, Simple
<1>8. FuelToDestination = ctx.total - offset
  BY <1>7 DEF FuelToDestination, FuelBetween, Placed
<1>9. ASSUME NEW s \in Ahead
      PROVE  /\ s \in Stations /\ s # None /\ s \in Onward(ctx, station)
             /\ offset < ctx.at[s] /\ ctx.at[s] <= ctx.total
             /\ FuelTo(s) = ctx.at[s] - offset
             /\ Leg(ctx, station, s) = ctx.at[s] - offset
  <2>1. /\ s \in Stations /\ s # None /\ ctx.at[s] \in Nat
        /\ offset < ctx.at[s] /\ ctx.at[s] <= ctx.total
    BY <1>7, FuelOptimizerAssumption DEF Ahead
  <2>2. p = None \/ c.at[p] < c.at[s]
    BY <1>2, <1>5, <2>1 DEF PlaceAt
  <2>3. s \in Onward(c, p)
    BY <1>2, <2>1, <2>2 DEF Onward
  <2>4. ctx.detour[s] = 0
    BY <2>1 DEF Simple, OnTheLine
  <2>5. FuelTo(s) = ctx.at[s] - offset
    BY <1>7, <2>1, <2>4 DEF FuelTo, FuelBetween
  <2>6. PlaceAt(c, s) = ctx.at[s]
    BY <1>2, <2>1 DEF PlaceAt
  <2>7. QED
    BY <1>2, <1>3, <1>5, <1>6, <2>1, <2>3, <2>5, <2>6
<1>10. QED
  BY <1>1, <1>2, <1>3, <1>4, <1>5, <1>6, <1>7, <1>8, <1>9 DEF Placed

\* Without detours and charges the effective price is the price.
LEMMA EffectivePrice ==
  ASSUME NEW a \in Nat, NEW b \in Nat, NEW p \in Nat, NEW q \in Nat, a > 0, b > 0
  PROVE  (a * p + 0) * (b - 0) < (b * q + 0) * (a - 0) <=> p < q
<1>1. PICK v \in Nat : v = a * b
  OBVIOUS
<1>2. v > 0
  BY <1>1
<1>3. (a * p + 0) * (b - 0) = v * p
  BY <1>1
<1>4. (b * q + 0) * (a - 0) = v * q
  BY <1>1
<1>5. p < q => v * p < v * q
  BY <1>2
<1>6. q <= p => v * q <= v * p
  BY <1>2
<1>7. v * p \in Nat /\ v * q \in Nat
  OBVIOUS
<1>8. QED
  BY <1>3, <1>4, <1>5, <1>6, <1>7

\* Of the stations within reach none before the chosen one is cheaper.
LEMMA ChosenIsCheap ==
  ASSUME Typed, ReserveKept, Simple, Placed,
         NEW t \in Cheapest(Reachable(fuel, ctx.reserve)), NEW s \in Ahead,
         ctx.at[s] < ctx.at[t]
  PROVE  ctx.price[t] <= ctx.price[s]
<1>1. /\ ctx.usable \in Nat /\ ctx.reserve \in Nat /\ offset \in Nat
      /\ fuel \in Nat /\ fuel <= ctx.usable
  BY Way
<1>2. \A u \in Ahead : /\ u \in Stations /\ ctx.at[u] \in Nat /\ ctx.price[u] \in Nat
                       /\ offset < ctx.at[u] /\ FuelTo(u) = ctx.at[u] - offset
                       /\ ctx.detour[u] = 0 /\ ctx.charge[u] = 0
  BY Way DEF Simple, OnTheLine
<1>3. t \in Ahead /\ fuel >= FuelTo(t) + ctx.reserve
  BY Selected
<1>4. s \in Reachable(fuel, ctx.reserve) /\ s # t
  BY <1>1, <1>2, <1>3 DEF Reachable
<1>5. Beats(t, s)
  BY <1>4 DEF Cheapest
<1>6. \A u \in Ahead : /\ Volume(u) \in Nat /\ Volume(u) > 0
                       /\ Priced(u)
                       /\ Payment(u) = Volume(u) * ctx.price[u] + 0
                       /\ Delivered(u) = Volume(u) - 0
  BY <1>1, <1>2 DEF Volume, Priced, Payment, Delivered
<1>7. Cheaper(s, t) <=> ctx.price[s] < ctx.price[t]
  <2>1. PICK a \in Nat : a = Volume(s) /\ a > 0
    BY <1>6
  <2>2. PICK b \in Nat : b = Volume(t) /\ b > 0
    BY <1>3, <1>6
  <2>3. PICK p \in Nat : p = ctx.price[s]
    BY <1>2
  <2>4. PICK q \in Nat : q = ctx.price[t]
    BY <1>2, <1>3
  <2>5. Cheaper(s, t) <=> (a * p + 0) * (b - 0) < (b * q + 0) * (a - 0)
    BY <1>3, <1>6, <2>1, <2>2, <2>3, <2>4 DEF Cheaper
  <2>6. QED
    BY <2>1, <2>2, <2>3, <2>4, <2>5, EffectivePrice
<1>8. Cheaper(t, s) <=> ctx.price[t] < ctx.price[s]
  <2>1. PICK a \in Nat : a = Volume(t) /\ a > 0
    BY <1>3, <1>6
  <2>2. PICK b \in Nat : b = Volume(s) /\ b > 0
    BY <1>6
  <2>3. PICK p \in Nat : p = ctx.price[t]
    BY <1>2, <1>3
  <2>4. PICK q \in Nat : q = ctx.price[s]
    BY <1>2
  <2>5. Cheaper(t, s) <=> (a * p + 0) * (b - 0) < (b * q + 0) * (a - 0)
    BY <1>3, <1>6, <2>1, <2>2, <2>3, <2>4 DEF Cheaper
  <2>6. QED
    BY <2>1, <2>2, <2>3, <2>4, <2>5, EffectivePrice
<1>9. Cheaper(t, s) \/ ~Cheaper(s, t)
  BY <1>3, <1>5, <1>6 DEF Beats
<1>10. QED
  BY <1>2, <1>3, <1>7, <1>8, <1>9

\* A cheaper station pays off exactly if some fuel that would be bought here
\* can be bought there.
LEMMA PaysOffOnTheLine ==
  ASSUME Typed, ReserveKept, Simple, Placed, station # None, NEW s \in Ahead
  PROVE  s \in PayingAhead
           <=> ctx.price[s] < ctx.price[station] /\ ctx.at[s] - offset + ctx.reserve < FillHere
<1>1. /\ ctx.usable \in Nat /\ ctx.reserve \in Nat /\ offset \in Nat /\ ctx.total \in Nat
      /\ offset <= ctx.total /\ station \in Stations
      /\ FuelToDestination = ctx.total - offset
  BY Way
<1>2. /\ s \in Stations /\ ctx.at[s] \in Nat /\ ctx.price[s] \in Nat
      /\ ctx.price[station] \in Nat
      /\ offset < ctx.at[s] /\ FuelTo(s) = ctx.at[s] - offset
      /\ ctx.detour[s] = 0 /\ ctx.charge[s] = 0
  BY <1>1, Way DEF Simple, OnTheLine
<1>3. FillHere \in Nat /\ FillHere <= ctx.usable
  BY <1>1 DEF FillHere, Least2
<1>4. Overhead(s) = 0
  BY <1>2 DEF Overhead
<1>5. PICK more \in Nat : more = Shifted(s)
  BY <1>1, <1>2, <1>3 DEF Shifted
<1>6. more > 0 <=> ctx.at[s] - offset + ctx.reserve < FillHere
  BY <1>1, <1>2, <1>3, <1>5 DEF Shifted
<1>7. ASSUME ctx.price[s] < ctx.price[station]
      PROVE  (ctx.price[station] - ctx.price[s]) * Shifted(s) > 0 <=> more > 0
  <2>1. PICK gain \in Nat : gain = ctx.price[station] - ctx.price[s] /\ gain > 0
    BY <1>2, <1>7
  <2>2. gain * more > 0 <=> more > 0
    BY <2>1
  <2>3. QED
    BY <1>5, <2>1, <2>2
<1>8. PaysOff(s)
        <=> ctx.price[s] < ctx.price[station] /\ ctx.at[s] - offset + ctx.reserve < FillHere
  BY <1>4, <1>6, <1>7 DEF PaysOff
<1>9. ctx.at[s] - offset + ctx.reserve < FillHere => s \in Reachable(ctx.usable, ctx.reserve)
  BY <1>1, <1>2, <1>3 DEF Reachable
<1>10. QED
  BY <1>8, <1>9 DEF PayingAhead

\* The truck heads for the nearest station that pays off, if there is one.
LEMMA NearestPays ==
  ASSUME Typed, ReserveKept, Simple, Placed
  PROVE  /\ PayingAhead # {} => CheaperAhead # {}
         /\ \A t \in CheaperAhead :
              t \in PayingAhead /\ t \in Ahead /\ \A s \in PayingAhead : ctx.at[t] <= ctx.at[s]
<1> DEFINE places == {ctx.at[s] : s \in PayingAhead}
<1>1. \A s \in PayingAhead : s \in Ahead /\ s \in Stations /\ ctx.at[s] \in Nat
  BY Way DEF PayingAhead, Reachable
<1>2. ASSUME PayingAhead # {} PROVE CheaperAhead # {}
  <2>1. places \subseteq Nat /\ places # {}
    BY <1>1, <1>2
  <2>2. PICK z : z = places
    OBVIOUS
  <2>3. \E m \in z : \A n \in z : m <= n
    BY <2>1, <2>2, NatMin
  <2>4. PICK t \in PayingAhead : \A s \in PayingAhead : ctx.at[t] <= ctx.at[s]
    BY <2>2, <2>3
  <2>5. ASSUME NEW u \in PayingAhead \ {t} PROVE Farther(u, t)
    <3>1. ctx.at[u] # ctx.at[t]
      BY <1>1, <2>4, <2>5 DEF Simple, OnTheLine
    <3>2. ctx.at[u] > ctx.at[t]
      BY <1>1, <2>4, <2>5, <3>1
    <3>3. QED
      BY <3>2 DEF Farther
  <2>6. t \in CheaperAhead
    BY <2>4, <2>5 DEF CheaperAhead, Nearest
  <2>7. QED
    BY <2>6
<1>3. ASSUME NEW t \in CheaperAhead, NEW s \in PayingAhead
      PROVE  t \in PayingAhead /\ ctx.at[t] <= ctx.at[s]
  <2>1. t \in PayingAhead /\ (s = t \/ Farther(s, t))
    BY <1>3 DEF CheaperAhead, Nearest
  <2>2. QED
    BY <1>1, <1>3, <2>1 DEF Farther
<1>4. \A t \in CheaperAhead : t \in PayingAhead
  BY DEF CheaperAhead, Nearest
<1>5. QED
  BY <1>1, <1>2, <1>3, <1>4

\* What it takes to the next stop is not rounded, and is bought without limits.
LEMMA PlainPurchase ==
  ASSUME Typed, ReserveKept, Simple, Placed, station # None,
         NEW next \in IF CheaperAhead = {} THEN {None} ELSE CheaperAhead
  PROVE  /\ FillHere \in Nat /\ FillHere <= ctx.usable
         /\ FillHere <= ctx.total - offset + ctx.reserve
         /\ DesiredFuel(next) = IF next = None THEN FillHere
                                ELSE ctx.at[next] - offset + ctx.reserve
         /\ DesiredFuel(next) \in Nat /\ DesiredFuel(next) <= FillHere
         /\ Purchase(next) = Missing(next)
<1>1. /\ ctx.usable \in Nat /\ ctx.reserve \in Nat /\ offset \in Nat /\ ctx.total \in Nat
      /\ offset <= ctx.total /\ station \in Stations
      /\ fuel \in Nat /\ fuel <= ctx.usable
      /\ FuelToDestination = ctx.total - offset
  BY Way
<1>2. Whole(offset) /\ Whole(ctx.total) /\ Whole(ctx.reserve)
  <2>1. offset = ctx.at[station]
    BY DEF Placed, PlaceAt
  <2>2. QED
    BY <1>1, <2>1 DEF Simple, NeedsNoRounding, Whole
<1>3. /\ FillHere = Least2(ctx.usable, ctx.total - offset + ctx.reserve)
      /\ FillHere \in Nat /\ FillHere <= ctx.usable
      /\ FillHere <= ctx.total - offset + ctx.reserve
  BY <1>1 DEF FillHere, Least2
<1>4. ASSUME next = None
      PROVE  /\ DesiredFuel(next) = IF next = None THEN FillHere
                                ELSE ctx.at[next] - offset + ctx.reserve
             /\ DesiredFuel(next) \in Nat /\ DesiredFuel(next) <= FillHere
  <2>1. PICK x \in Nat : x = ctx.total - offset
    BY <1>1
  <2>2. Whole(x)
    BY <1>1, <1>2, <2>1, WholeSums
  <2>3. RoundUp(ctx.reserve + x) = ctx.reserve + x
    BY <1>2, <2>2, WholeSums, RoundUpWhole
  <2>4. DesiredFuel(next) = Least2(ctx.usable, ctx.reserve + x)
    BY <1>1, <1>4, <2>1, <2>3 DEF DesiredFuel
  <2>5. DesiredFuel(next) = FillHere
    BY <1>1, <1>3, <2>1, <2>4 DEF Least2
  <2>6. QED
    BY <1>3, <1>4, <2>5
<1>5. ASSUME next # None
      PROVE  /\ DesiredFuel(next) = IF next = None THEN FillHere
                                ELSE ctx.at[next] - offset + ctx.reserve
             /\ DesiredFuel(next) \in Nat /\ DesiredFuel(next) <= FillHere
  <2>1. next \in CheaperAhead /\ next \in PayingAhead /\ next \in Ahead
    BY <1>5, NearestPays
  <2>2. /\ next \in Stations /\ ctx.at[next] \in Nat /\ offset < ctx.at[next]
        /\ FuelTo(next) = ctx.at[next] - offset
    BY <2>1, Way
  <2>3. ctx.at[next] - offset + ctx.reserve < FillHere
    BY <2>1, PaysOffOnTheLine
  <2>4. Whole(ctx.at[next])
    BY <2>2 DEF Simple, NeedsNoRounding, Whole
  <2>5. PICK x \in Nat : x = ctx.at[next] - offset
    BY <1>1, <2>2
  <2>6. Whole(x)
    BY <1>1, <1>2, <2>2, <2>4, <2>5, WholeSums
  <2>7. RoundUp(ctx.reserve + x) = ctx.reserve + x
    BY <1>2, <2>6, WholeSums, RoundUpWhole
  <2>8. DesiredFuel(next) = Least2(ctx.usable, ctx.reserve + x)
    BY <1>5, <2>2, <2>5, <2>7 DEF DesiredFuel
  <2>9. DesiredFuel(next) = ctx.reserve + x
    BY <1>1, <1>3, <2>3, <2>5, <2>8 DEF Least2
  <2>10. QED
    BY <1>1, <1>3, <1>5, <2>3, <2>5, <2>9
<1>6. Purchase(next) = Missing(next)
  <2>1. ctx.least = 0 /\ ctx.most \in Nat /\ ctx.most >= ctx.usable
    BY ContextFields DEF Simple, Unlimited, Typed
  <2>2. DesiredFuel(next) \in Nat /\ DesiredFuel(next) <= ctx.usable
    BY <1>1, <1>3, <1>4, <1>5
  <2>3. Missing(next) \in Nat /\ Missing(next) <= ctx.most
    BY <1>1, <2>1, <2>2 DEF Missing
  <2>4. AtLeastMinimum(Missing(next)) = Missing(next)
    BY <1>1, <2>1, <2>3 DEF AtLeastMinimum
  <2>5. QED
    BY <2>1, <2>3, <2>4 DEF Purchase, Least2
<1>7. QED
  BY <1>3, <1>4, <1>5, <1>6

\* Cheaper stations behind cannot have sold what is still to be bought here.
CheaperSpent ==
  pc \in {"evaluate", "refuelled"} /\ station # None =>
    \A s \in Stations :
      ctx.at[s] < offset /\ ctx.price[s] < ctx.price[station]
        => ctx.at[s] + ctx.usable <= offset + fuel

\* Nor what is to be bought at the target.
CheaperThanTargetSpent ==
  pc = "depart" =>
    \A s \in Stations :
      ctx.at[s] < ctx.at[target] /\ ctx.price[s] < ctx.price[target]
        => ctx.at[s] + ctx.usable <= offset + fuel

\* Every grain is bought where it is cheapest.
LEMMA BoughtWhereCheapest ==
  ASSUME Typed, ReserveKept, Simple, Placed, CheaperSpent,
         pc = "evaluate", ~DestinationReachable, station # None,
         NEW next \in IF CheaperAhead = {} THEN {None} ELSE CheaperAhead,
         NEW i \in Nat, offset + fuel - ctx.reserve <= i,
         i < offset + fuel - ctx.reserve + Purchase(next)
  PROVE  Rate(ctx, i) = ctx.price[station]
<1>1. /\ ctx.usable \in Nat /\ ctx.reserve \in Nat /\ offset \in Nat /\ ctx.total \in Nat
      /\ offset <= ctx.total /\ station \in Stations
      /\ fuel \in Nat /\ fuel <= ctx.usable /\ ctx.reserve <= fuel
      /\ ctx.at[station] = offset
      /\ \A s \in Stations : ctx.at[s] \in Nat /\ ctx.price[s] \in Nat
  BY Way DEF Placed, PlaceAt
<1>2. /\ FillHere \in Nat /\ FillHere <= ctx.usable
      /\ FillHere <= ctx.total - offset + ctx.reserve
      /\ DesiredFuel(next) \in Nat /\ DesiredFuel(next) <= FillHere
      /\ DesiredFuel(next) = IF next = None THEN FillHere
                             ELSE ctx.at[next] - offset + ctx.reserve
      /\ Purchase(next) = Missing(next)
  BY PlainPurchase
<1>3. fuel + Purchase(next) = DesiredFuel(next) /\ Purchase(next) \in Nat
  <2>1. Missing(next) > 0 /\ Missing(next) \in Nat
    BY <1>1, <1>2 DEF Missing
  <2>2. QED
    BY <1>1, <1>2, <2>1 DEF Missing
<1>4. i < offset + DesiredFuel(next) - ctx.reserve
  BY <1>1, <1>2, <1>3
<1>5. i < ctx.total
  BY <1>1, <1>2, <1>4
<1>6. station \in Sellers(ctx, i)
  BY <1>1, <1>2, <1>4 DEF Sellers
<1>7. ASSUME NEW u \in Sellers(ctx, i), ctx.price[u] < ctx.price[station]
      PROVE  FALSE
  <2>1. /\ u \in Stations /\ ctx.at[u] \in Nat /\ ctx.at[u] <= i
        /\ i < ctx.at[u] + (ctx.usable - ctx.reserve)
    BY <1>1 DEF Sellers
  <2>2. CASE ctx.at[u] < offset
    <3>1. ctx.at[u] + ctx.usable <= offset + fuel
      BY <1>7, <2>1, <2>2 DEF CheaperSpent
    <3>2. QED
      BY <1>1, <2>1, <3>1
  <2>3. CASE ctx.at[u] = offset
    <3>1. u = station
      BY <1>1, <2>1, <2>3 DEF Simple, OnTheLine
    <3>2. QED
      BY <1>1, <1>7, <3>1
  <2>4. CASE offset < ctx.at[u]
    <3>1. u \in Ahead
      BY <1>1, <1>5, <2>1, <2>4 DEF Ahead
    <3>2. ctx.at[u] - offset + ctx.reserve < FillHere
      BY <1>1, <1>2, <1>4, <2>1
    <3>3. u \in PayingAhead
      BY <1>7, <3>1, <3>2, PaysOffOnTheLine
    <3>4. next # None /\ next \in CheaperAhead
      BY <3>3, NearestPays, Selected, FuelOptimizerAssumption
    <3>5. ctx.at[next] <= ctx.at[u] /\ next \in Ahead
      BY <3>3, <3>4, NearestPays
    <3>6. ctx.at[next] \in Nat
      BY <1>1, <3>5, Way
    <3>7. QED
      BY <1>1, <1>2, <1>4, <2>1, <3>4, <3>5, <3>6
  <2>5. QED
    BY <1>1, <2>1, <2>2, <2>3, <2>4
<1>8. \A u \in Sellers(ctx, i) : ctx.price[station] <= ctx.price[u]
  <2>1. \A u \in Sellers(ctx, i) : u \in Stations
    BY DEF Sellers
  <2>2. QED
    BY <1>1, <1>7, <2>1
<1>9. PICK c : c = ctx
  OBVIOUS
<1>10. PICK p : p = station
  OBVIOUS
<1>11. Sound(c) /\ p \in Sellers(c, i) /\ i < c.total
  BY <1>5, <1>6, <1>9, <1>10, Way
<1>12. \A u \in Sellers(c, i) : c.price[p] <= c.price[u]
  BY <1>8, <1>9, <1>10
<1>13. Rate(c, i) = c.price[p]
  BY <1>11, <1>12, RateBounds
<1>14. QED
  BY <1>9, <1>10, <1>13

-----------------------------------------------------------------------------
(* The invariant behind the greedy strategy's optimality.  No plan is      *)
(* cheaper than to go on from here at the least cost, and what has been    *)
(* paid is what the way costs at the rates, as far as the fuel lasts.      *)

OnTheWay == pc \in {"evaluate", "refuelled", "depart"}

CheapestSoFar ==
  \A best : Best(ctx, best) =>
    /\ OnTheWay => best[None][ctx.initial] <= cost + best[station][fuel]
    /\ pc = "success" => best[None][ctx.initial] <= cost

PaysTheRates ==
  \A w : Accrues(ctx, w) =>
    /\ OnTheWay =>
         cost + w[ctx.initial - ctx.reserve] = w[offset + fuel - ctx.reserve]
    /\ pc = "success" => cost + w[ctx.initial - ctx.reserve] = w[ctx.total]

GreedyInv ==
  Simple =>
    /\ Placed
    /\ CheaperSpent
    /\ CheaperThanTargetSpent
    /\ CheapestSoFar
    /\ PaysTheRates

LEMMA InitGreedy == Init => GreedyInv
<1> SUFFICES ASSUME Init, Simple
             PROVE  Placed /\ CheaperSpent /\ CheaperThanTargetSpent /\ CheapestSoFar
                      /\ PaysTheRates
  BY DEF GreedyInv
<1>1. /\ pc = "evaluate" /\ station = None /\ offset = 0 /\ fuel = ctx.initial /\ cost = 0
  BY DEF Init
<1>2. Typed
  BY InitType
<1>3. /\ ctx.total \in Nat /\ ctx.reserve \in Nat /\ ctx.initial \in Nat /\ ctx.usable \in Nat
      /\ ctx.initial <= ctx.usable /\ ctx.initial >= ctx.reserve
  BY <1>2, ContextFields DEF Typed, Simple
<1>4. Placed
  BY <1>1, <1>3 DEF Placed, PlaceAt
<1>5. CheaperSpent /\ CheaperThanTargetSpent
  BY <1>1 DEF CheaperSpent, CheaperThanTargetSpent
<1>6. CheapestSoFar
  <2>1. PICK c : c = ctx
    OBVIOUS
  <2>2. Sound(c) /\ None \in Places /\ c.initial \in 0 .. c.usable
    BY <1>2, <1>3, <2>1, ContextFields DEF Sound, Typed, Places
  <2>3. \A best : Best(c, best) => best[None][c.initial] \in Nat
    BY <2>2, BestType
  <2>4. ASSUME NEW best, Best(ctx, best)
        PROVE  best[None][ctx.initial] <= cost + best[station][fuel]
    BY <1>1, <2>1, <2>3, <2>4
  <2>5. QED
    BY <1>1, <2>4 DEF CheapestSoFar
<1>7. PaysTheRates
  <2>1. ASSUME NEW w, Accrues(ctx, w)
        PROVE  cost + w[ctx.initial - ctx.reserve] = w[offset + fuel - ctx.reserve]
    <3>1. ctx.initial - ctx.reserve \in Nat
      BY <1>3
    <3>2. w[ctx.initial - ctx.reserve] \in Nat
      BY <2>1, <3>1 DEF Accrues
    <3>3. offset + fuel - ctx.reserve = ctx.initial - ctx.reserve
      BY <1>1, <1>3
    <3>4. QED
      BY <1>1, <3>2, <3>3
  <2>2. QED
    BY <1>1, <2>1 DEF PaysTheRates
<1>8. QED
  BY <1>4, <1>5, <1>6, <1>7

\* A leg to a station before which nothing cheaper is left.
LEMMA TravelGreedy ==
  ASSUME Typed, ReserveKept, Simple, GreedyInv, OnTheWay, NEW t \in Ahead,
         fuel >= FuelTo(t) + ctx.reserve, Travel(t),
         \A s \in Stations : ctx.at[s] < ctx.at[t] /\ ctx.price[s] < ctx.price[t]
                               => ctx.at[s] + ctx.usable <= offset + fuel
  PROVE  GreedyInv'
<1>1. Placed /\ CheapestSoFar /\ PaysTheRates
  BY DEF GreedyInv
<1>2. /\ Sound(ctx) /\ ctx.total \in Nat /\ ctx.usable \in Nat /\ ctx.reserve \in Nat
      /\ offset \in Nat /\ fuel \in Nat /\ fuel <= ctx.usable /\ cost \in Nat
      /\ station \in Places
      /\ t \in Stations /\ t # None /\ t \in Onward(ctx, station)
      /\ ctx.at[t] \in Nat /\ offset < ctx.at[t] /\ ctx.at[t] <= ctx.total
      /\ FuelTo(t) = ctx.at[t] - offset
      /\ Leg(ctx, station, t) = ctx.at[t] - offset
  BY <1>1, Way DEF Typed, TypeOK
<1>3. /\ ctx' = ctx /\ pc' = "evaluate" /\ station' = t /\ offset' = ctx.at[t]
      /\ cost' = cost /\ fuel' = fuel - (ctx.at[t] - offset)
  BY <1>2 DEF Travel
<1>4. offset' + fuel' = offset + fuel /\ fuel' \in Nat
  BY <1>2, <1>3
<1>5. Placed'
  BY <1>2, <1>3 DEF Placed, PlaceAt
<1>6. CheaperSpent' /\ CheaperThanTargetSpent'
  BY <1>3, <1>4 DEF CheaperSpent, CheaperThanTargetSpent
<1>7. ASSUME NEW best, Best(ctx, best)
      PROVE  best[None][ctx.initial] <= cost + best[t][fuel - (ctx.at[t] - offset)]
  <2>1. PICK c, p, f, s : c = ctx /\ p = station /\ f = fuel /\ s = t
    OBVIOUS
  <2>2. /\ Sound(c) /\ Best(c, best) /\ p \in Places /\ f \in 0 .. c.usable
        /\ s \in Onward(c, p) /\ f >= Leg(c, p, s) + c.reserve
    BY <1>2, <1>7, <2>1
  <2>3. best[p][f] <= best[s][f - Leg(c, p, s)]
    BY <2>2, DriveCosts
  <2>4. s \in Places /\ Leg(c, p, s) \in Nat
    BY <2>2, RankFalls, LegType
  <2>5. f - Leg(c, p, s) \in 0 .. c.usable /\ None \in Places /\ c.initial \in 0 .. c.usable
    BY <1>2, <2>1, <2>2, <2>4, SoundFields DEF Places
  <2>6. /\ best[p][f] \in Nat /\ best[s][f - Leg(c, p, s)] \in Nat
        /\ best[None][c.initial] \in Nat
    BY <2>2, <2>4, <2>5, BestType
  <2>7. best[None][c.initial] <= cost + best[p][f]
    BY <1>1, <2>1, <2>2 DEF CheapestSoFar
  <2>8. f - Leg(c, p, s) = fuel - (ctx.at[t] - offset)
    BY <1>2, <2>1
  <2>9. best[None][c.initial] <= cost + best[s][f - Leg(c, p, s)]
    BY <1>2, <2>3, <2>6, <2>7
  <2>10. QED
    BY <2>1, <2>8, <2>9
<1>8. CheapestSoFar'
  BY <1>3, <1>7 DEF CheapestSoFar
<1>9. PaysTheRates'
  <2>1. offset' + fuel' - ctx.reserve = offset + fuel - ctx.reserve
    BY <1>2, <1>3, <1>4
  <2>2. QED
    BY <1>1, <1>3, <2>1, Zenon DEF PaysTheRates
<1>10. QED
  BY <1>5, <1>6, <1>8, <1>9 DEF GreedyInv

LEMMA SucceedGreedy ==
  ASSUME Typed, ReserveKept, Simple, GreedyInv, Succeed
  PROVE  GreedyInv'
<1>1. Placed /\ CheapestSoFar /\ PaysTheRates /\ OnTheWay
  BY DEF GreedyInv, OnTheWay, Succeed
<1>2. /\ Sound(ctx) /\ ctx.total \in Nat /\ ctx.usable \in Nat /\ ctx.reserve \in Nat
      /\ offset \in Nat /\ offset <= ctx.total
      /\ fuel \in Nat /\ fuel <= ctx.usable /\ cost \in Nat
      /\ station \in Places
      /\ FuelToDestination = ctx.total - offset
      /\ Leg(ctx, station, None) = ctx.total - offset
  BY <1>1, Way DEF Typed, TypeOK
<1>3. /\ ctx' = ctx /\ pc' = "success" /\ station' = station /\ offset' = offset
      /\ cost' = cost /\ fuel >= ctx.total - offset + ctx.reserve
  BY <1>2 DEF Succeed, DestinationReachable
<1>4. Placed' /\ CheaperSpent' /\ CheaperThanTargetSpent'
  BY <1>1, <1>3 DEF Placed, CheaperSpent, CheaperThanTargetSpent
<1>5. ASSUME NEW best, Best(ctx, best) PROVE best[None][ctx.initial] <= cost
  <2>1. PICK c, p, f : c = ctx /\ p = station /\ f = fuel
    OBVIOUS
  <2>2. /\ Sound(c) /\ Best(c, best) /\ p \in Places /\ f \in 0 .. c.usable
        /\ f >= Leg(c, p, None) + c.reserve
    BY <1>2, <1>3, <1>5, <2>1
  <2>3. best[p][f] = 0
    BY <2>2, ArriveCosts
  <2>4. best[None][c.initial] <= cost + best[p][f]
    BY <1>1, <2>1, <2>2 DEF CheapestSoFar
  <2>5. QED
    BY <1>2, <2>1, <2>3, <2>4
<1>6. CheapestSoFar'
  BY <1>3, <1>5 DEF CheapestSoFar, OnTheWay
<1>7. ASSUME NEW w, Accrues(ctx, w)
      PROVE  cost + w[ctx.initial - ctx.reserve] = w[ctx.total]
  <2>1. offset + fuel - ctx.reserve \in Nat /\ offset + fuel - ctx.reserve >= ctx.total
    BY <1>2, <1>3
  <2>2. w[offset + fuel - ctx.reserve] = w[ctx.total]
    BY <1>7, <2>1 DEF Accrues
  <2>3. QED
    BY <1>1, <1>7, <2>2 DEF PaysTheRates
<1>8. PaysTheRates'
  BY <1>3, <1>7 DEF PaysTheRates, OnTheWay
<1>9. QED
  BY <1>4, <1>6, <1>8 DEF GreedyInv

LEMMA FirstStationGreedy ==
  ASSUME Typed, Standing, ReserveKept, Simple, GreedyInv, DriveToFirstStation
  PROVE  GreedyInv'
<1>1. Placed /\ OnTheWay /\ station = None /\ offset = 0
  BY DEF GreedyInv, OnTheWay, DriveToFirstStation, Standing
<1>2. PICK t \in Cheapest(Reachable(fuel, OriginArrival)) : Travel(t)
  BY DEF DriveToFirstStation
<1>3. OriginArrival = ctx.reserve
  BY <1>1, Way DEF OriginArrival
<1>4. t \in Ahead /\ fuel >= FuelTo(t) + ctx.reserve
  BY <1>2, <1>3, Selected
<1>5. ASSUME NEW s \in Stations, ctx.at[s] < ctx.at[t], ctx.price[s] < ctx.price[t]
      PROVE  FALSE
  <2>1. /\ ctx.at[s] \in Nat /\ ctx.at[s] > 0 /\ ctx.total \in Nat
        /\ ctx.at[t] \in Nat /\ ctx.at[t] <= ctx.total
        /\ ctx.price[s] \in Nat /\ ctx.price[t] \in Nat
    BY <1>1, <1>4, Way DEF Simple, OnTheLine
  <2>2. s \in Ahead
    BY <1>1, <1>5, <2>1 DEF Ahead
  <2>3. ctx.price[t] <= ctx.price[s]
    BY <1>1, <1>2, <1>3, <1>5, <2>2, ChosenIsCheap
  <2>4. QED
    BY <1>5, <2>1, <2>3
<1>6. QED
  BY <1>1, <1>2, <1>4, <1>5, TravelGreedy

LEMMA DepartGreedy ==
  ASSUME Typed, Standing, ReserveKept, Simple, GreedyInv, Depart
  PROVE  GreedyInv'
<1>1. /\ OnTheWay /\ target \in Ahead /\ fuel >= FuelTo(target) + ctx.reserve
      /\ Travel(target) /\ CheaperThanTargetSpent /\ pc = "depart"
  BY DEF Depart, Standing, OnTheWay, GreedyInv
<1>2. \A s \in Stations : ctx.at[s] < ctx.at[target] /\ ctx.price[s] < ctx.price[target]
                            => ctx.at[s] + ctx.usable <= offset + fuel
  BY <1>1 DEF CheaperThanTargetSpent
<1>3. QED
  BY <1>1, <1>2, TravelGreedy

\* With a full tank nothing that a station behind sells is still to be bought.
LEMMA ChooseGreedy ==
  ASSUME Typed, Standing, Prepared, ReserveKept, Simple, GreedyInv, ChooseNext
  PROVE  GreedyInv'
<1>1. Placed /\ CheapestSoFar /\ PaysTheRates /\ OnTheWay
  BY DEF GreedyInv, OnTheWay, ChooseNext
<1>2. /\ ctx' = ctx /\ pc' = "depart" /\ station' = station /\ offset' = offset
      /\ cost' = cost /\ fuel' = fuel
  BY DEF ChooseNext
<1>3. fuel = ctx.usable /\ station # None
  BY DEF ChooseNext, Prepared, Simple, Standing
<1>4. target' \in Cheapest(Reachable(fuel, ctx.reserve))
  BY DEF ChooseNext
<1>5. PICK t : t = target'
  OBVIOUS
<1>6. t \in Ahead /\ t \in Cheapest(Reachable(fuel, ctx.reserve))
  BY <1>4, <1>5, Selected
<1>7. ASSUME NEW s \in Stations, ctx.at[s] < ctx.at[t], ctx.price[s] < ctx.price[t]
      PROVE  ctx.at[s] + ctx.usable <= offset + fuel
  <2>1. /\ ctx.at[s] \in Nat /\ ctx.total \in Nat /\ offset \in Nat /\ ctx.usable \in Nat
        /\ ctx.at[t] \in Nat /\ ctx.at[t] <= ctx.total
        /\ ctx.price[s] \in Nat /\ ctx.price[t] \in Nat
    BY <1>1, <1>6, Way
  <2>2. ASSUME offset < ctx.at[s] PROVE FALSE
    <3>1. s \in Ahead
      BY <1>7, <2>1, <2>2 DEF Ahead
    <3>2. ctx.price[t] <= ctx.price[s]
      BY <1>1, <1>6, <1>7, <3>1, ChosenIsCheap
    <3>3. QED
      BY <1>7, <2>1, <3>2
  <2>3. QED
    BY <1>3, <2>1, <2>2
<1>8. CheaperThanTargetSpent'
  BY <1>2, <1>5, <1>7 DEF CheaperThanTargetSpent
<1>9. Placed' /\ CheaperSpent' /\ CheapestSoFar' /\ PaysTheRates'
  BY <1>1, <1>2 DEF Placed, CheaperSpent, CheapestSoFar, PaysTheRates, OnTheWay
<1>10. QED
  BY <1>8, <1>9 DEF GreedyInv

LEMMA RefuelGreedy ==
  ASSUME Typed, Standing, ReserveKept, Simple, GreedyInv, Refuel
  PROVE  GreedyInv'
<1>1. /\ Placed /\ CheaperSpent /\ CheapestSoFar /\ PaysTheRates /\ OnTheWay
      /\ pc = "evaluate" /\ ~DestinationReachable /\ station # None
  BY DEF GreedyInv, OnTheWay, Refuel
<1>2. PICK next \in IF CheaperAhead = {} THEN {None} ELSE CheaperAhead :
        /\ Buy(Purchase(next))
        /\ target' = next
        /\ pc' = IF next = None THEN "refuelled" ELSE "depart"
  BY DEF Refuel
<1>3. next \in Stations \cup {None}
  BY <1>2, Selected
<1>4. /\ Sound(ctx) /\ ctx.total \in Nat /\ ctx.usable \in Nat /\ ctx.reserve \in Nat
      /\ offset \in Nat /\ fuel \in Nat /\ ctx.reserve <= fuel /\ cost \in Nat
      /\ station \in Stations /\ ctx.price[station] \in Nat /\ ctx.at[station] = offset
      /\ \A s \in Stations : ctx.at[s] \in Nat /\ ctx.price[s] \in Nat
  BY <1>1, Way DEF Typed, TypeOK, Placed, PlaceAt
<1>5. PICK a \in Nat : a = Purchase(next) /\ fuel + a <= ctx.usable
  BY <1>3, PurchaseBound DEF Typed
<1>6. PICK price \in Nat : price = ctx.price[station]
  BY <1>4
<1>7. PICK paid \in Nat : paid = a * price
  BY ProductType
<1>8. /\ ctx' = ctx /\ station' = station /\ offset' = offset
      /\ fuel' = fuel + a /\ cost' = cost + paid /\ pc' \in {"refuelled", "depart"}
  BY <1>2, <1>5, <1>6, <1>7 DEF Refuel, Buy
<1>9. Placed'
  BY <1>1, <1>8 DEF Placed
<1>10. ASSUME NEW s \in Stations, ctx.at[s] < offset, ctx.price[s] < ctx.price[station]
       PROVE  ctx.at[s] + ctx.usable <= offset + (fuel + a)
  <2>1. ctx.at[s] + ctx.usable <= offset + fuel
    BY <1>1, <1>10 DEF CheaperSpent
  <2>2. QED
    BY <1>4, <2>1
<1>11. CheaperSpent'
  BY <1>8, <1>10 DEF CheaperSpent
<1>12. CheaperThanTargetSpent'
  <2>1. ASSUME next # None, NEW s \in Stations,
               ctx.at[s] < ctx.at[next], ctx.price[s] < ctx.price[next]
        PROVE  ctx.at[s] + ctx.usable <= offset + (fuel + a)
    <3>1. next \in CheaperAhead /\ next \in PayingAhead /\ next \in Ahead
      BY <1>1, <1>2, <2>1, NearestPays
    <3>2. /\ next \in Stations /\ offset < ctx.at[next] /\ ctx.at[next] <= ctx.total
          /\ ctx.price[next] < ctx.price[station]
          /\ ctx.at[next] - offset + ctx.reserve < FillHere
      BY <1>1, <3>1, Way, PaysOffOnTheLine
    <3>3. FillHere \in Nat
      BY <1>1, <1>2, PlainPurchase
    <3>4. ctx.price[s] < ctx.price[station]
      BY <1>4, <2>1, <3>2
    <3>5. CASE ctx.at[s] < offset
      BY <1>10, <3>4, <3>5
    <3>6. CASE ctx.at[s] = offset
      <4>1. s = station
        BY <1>4, <3>6 DEF Simple, OnTheLine
      <4>2. QED
        BY <1>4, <3>4, <4>1
    <3>7. CASE offset < ctx.at[s]
      <4>1. s \in Ahead
        BY <1>4, <2>1, <3>2, <3>7 DEF Ahead
      <4>2. ctx.at[s] - offset + ctx.reserve < FillHere
        BY <1>4, <2>1, <3>2, <3>3
      <4>3. s \in PayingAhead
        BY <1>1, <3>4, <4>1, <4>2, PaysOffOnTheLine
      <4>4. ctx.at[next] <= ctx.at[s]
        BY <1>1, <3>1, <4>3, NearestPays
      <4>5. QED
        BY <1>4, <2>1, <3>2, <4>4
    <3>8. QED
      BY <1>4, <3>5, <3>6, <3>7
  <2>2. pc' = "depart" => next # None
    BY <1>2
  <2>3. QED
    BY <1>2, <1>8, <2>1, <2>2 DEF CheaperThanTargetSpent
<1>13. CheapestSoFar'
  <2>1. ASSUME NEW best, Best(ctx, best)
        PROVE  best[None][ctx.initial] <= cost + paid + best[station][fuel + a]
    <3>1. PICK c, p, f : c = ctx /\ p = station /\ f = fuel
      OBVIOUS
    <3>2. /\ Sound(c) /\ Best(c, best) /\ p \in Stations /\ p \in Places /\ f \in Nat
          /\ f + a <= c.usable /\ c.price[p] = price
      BY <1>4, <1>5, <1>6, <2>1, <3>1 DEF Places
    <3>3. best[p][f] <= paid + best[p][f + a]
      BY <1>7, <3>2, BuyCosts
    <3>4. /\ f \in 0 .. c.usable /\ f + a \in 0 .. c.usable /\ None \in Places
          /\ c.initial \in 0 .. c.usable
      BY <3>2, SoundFields DEF Places
    <3>5. /\ best[p][f] \in Nat /\ best[p][f + a] \in Nat
          /\ best[None][c.initial] \in Nat
      BY <3>2, <3>4, BestType
    <3>6. best[None][c.initial] <= cost + best[p][f]
      BY <1>1, <3>1, <3>2 DEF CheapestSoFar
    <3>7. best[None][c.initial] <= cost + paid + best[p][f + a]
      BY <1>4, <3>3, <3>5, <3>6
    <3>8. QED
      BY <3>1, <3>7
  <2>2. QED
    BY <1>8, <2>1 DEF CheapestSoFar
<1>14. PaysTheRates'
  <2>1. ASSUME NEW w, Accrues(ctx, w)
        PROVE  cost + paid + w[ctx.initial - ctx.reserve]
                 = w[offset + fuel - ctx.reserve + a]
    <3>1. PICK c : c = ctx
      OBVIOUS
    <3>2. PICK y \in Nat : y = offset + fuel - ctx.reserve
      BY <1>4
    <3>3. \A i \in Nat : y <= i /\ i < y + a => Rate(c, i) = price
      <4>1. ASSUME NEW i \in Nat, y <= i, i < y + a PROVE Rate(c, i) = price
        <5>1. Rate(ctx, i) = ctx.price[station]
          BY <1>1, <1>2, <1>5, <3>2, <4>1, BoughtWhereCheapest
        <5>2. QED
          BY <1>6, <3>1, <5>1
      <4>2. QED
        BY <4>1
    <3>4. w[y + a] = w[y] + paid
      BY <1>4, <1>7, <2>1, <3>1, <3>3, Stretch
    <3>5. cost + w[ctx.initial - ctx.reserve] = w[y]
      BY <1>1, <2>1, <3>2 DEF PaysTheRates
    <3>6. ctx.initial - ctx.reserve \in Nat
      BY <1>4, ContextFields DEF Simple, Typed
    <3>7. w[ctx.initial - ctx.reserve] \in Nat
      BY <2>1, <3>6 DEF Accrues
    <3>8. cost + paid + w[ctx.initial - ctx.reserve] = w[y + a]
      BY <1>4, <3>4, <3>5, <3>7
    <3>9. QED
      BY <3>2, <3>8
  <2>2. offset' + fuel' - ctx.reserve = offset + fuel - ctx.reserve + a
    BY <1>4, <1>8
  <2>3. pc' # "success"
    BY <1>8
  <2>4. QED
    BY <1>8, <2>1, <2>2, <2>3, Zenon DEF PaysTheRates
<1>15. QED
  BY <1>9, <1>11, <1>12, <1>13, <1>14 DEF GreedyInv

LEMMA NextGreedy ==
  ASSUME Typed, PlanInv, GreedyInv, [Next]_vars
  PROVE  GreedyInv'
<1>1. Standing /\ Prepared /\ ReserveKept
  BY DEF PlanInv
<1>2. ctx' = ctx
  BY DEF Next, Succeed, DriveToFirstStation, NoFirstStation, Refuel, Continue,
         ChooseNext, NoContinuation, Depart, PlannedStationUnreachable, Travel, Fail, vars
<1>3. CASE ~Simple
  BY <1>2, <1>3 DEF GreedyInv, Simple, Unlimited
<1>4. ASSUME Simple PROVE GreedyInv'
  <2>1. Placed /\ CheaperSpent /\ CheaperThanTargetSpent /\ CheapestSoFar /\ PaysTheRates
    BY <1>4 DEF GreedyInv
  <2>2. ASSUME NEW reason, Fail(reason) PROVE GreedyInv'
    <3>1. offset' = offset /\ station' = station /\ pc' = "infeasible"
      BY <2>2 DEF Fail
    <3>2. QED
      BY <1>2, <2>1, <3>1
      DEF GreedyInv, Placed, CheaperSpent, CheaperThanTargetSpent, CheapestSoFar,
          PaysTheRates, OnTheWay
  <2>3. ASSUME Continue PROVE GreedyInv'
    <3>1. /\ pc = "refuelled" /\ pc' = "evaluate" /\ offset' = offset
          /\ station' = station /\ fuel' = fuel /\ cost' = cost
      BY <2>3 DEF Continue
    <3>2. QED
      BY <1>2, <2>1, <3>1
      DEF GreedyInv, Placed, CheaperSpent, CheaperThanTargetSpent, CheapestSoFar,
          PaysTheRates, OnTheWay
  <2>4. ASSUME UNCHANGED vars PROVE GreedyInv'
    BY <2>1, <2>4
    DEF vars, GreedyInv, Placed, CheaperSpent, CheaperThanTargetSpent, CheapestSoFar,
        PaysTheRates, OnTheWay
  <2>5. QED
    BY <1>1, <1>4, <2>2, <2>3, <2>4, SucceedGreedy, FirstStationGreedy, RefuelGreedy,
       ChooseGreedy, DepartGreedy
    DEF Next, NoFirstStation, NoContinuation, PlannedStationUnreachable
<1>5. QED
  BY <1>3, <1>4

\* The two bounds meet.
LEMMA GreedyCostsLeast == Typed /\ GreedyInv => OptimalWithoutDetours
<1> SUFFICES ASSUME Typed, GreedyInv, pc = "success", cost < NoPlan, Simple
             PROVE  cost = LeastCost(ctx)
  BY DEF OptimalWithoutDetours, Simple
<1>1. PICK c : c = ctx
  OBVIOUS
<1>2. Sound(c) /\ OnTheLine(c) /\ c.initial >= c.reserve
  BY <1>1, ContextFields DEF Sound, Typed, Simple
<1>3. PICK best : Best(c, best) /\ LeastCost(c) = best[None][c.initial]
  BY <1>2, LeastCostIsBest
<1>4. PICK w : Accrues(c, w)
  BY <1>2, AccruesExists
<1>5. /\ best[None][c.initial] <= cost
      /\ cost + w[c.initial - c.reserve] = w[c.total]
  BY <1>1, <1>3, <1>4 DEF GreedyInv, CheapestSoFar, PaysTheRates
<1>6. /\ None \in Places /\ PlaceAt(c, None) = 0 /\ c.total \in Nat /\ c.reserve \in Nat
      /\ c.initial \in Nat /\ c.initial \in c.reserve .. c.usable
      /\ c.initial \in 0 .. c.usable
  BY <1>2, SoundFields DEF Places, PlaceAt
<1>7. \/ best[None][c.initial] >= NoPlan
      \/ best[None][c.initial] + w[PlaceAt(c, None) + c.initial - c.reserve] >= w[c.total]
  BY <1>2, <1>3, <1>4, <1>6, NoPlanBeatsTheRates
<1>8. PlaceAt(c, None) + c.initial - c.reserve = c.initial - c.reserve
  BY <1>6
<1>9. /\ best[None][c.initial] \in Nat /\ cost \in Nat /\ NoPlan \in Nat
      /\ w[c.initial - c.reserve] \in Nat
  <2>1. c.initial - c.reserve \in Nat
    BY <1>2, <1>6
  <2>2. w[c.initial - c.reserve] \in Nat
    BY <1>4, <2>1 DEF Accrues
  <2>3. best[None][c.initial] \in Nat
    BY <1>2, <1>3, <1>6, BestType
  <2>4. QED
    BY <2>2, <2>3 DEF Typed, TypeOK, NoPlan
<1>10. cost = best[None][c.initial]
  BY <1>5, <1>7, <1>8, <1>9
<1>11. QED
  BY <1>1, <1>3, <1>10

\* FUEL_OPTIMIZATION_ALGORITHM.md, A3: on a line of stations without detours or
\* charges no choice of stops and purchases costs less than the greedy one, for
\* every layout of them, every price and every tank.
THEOREM GreedyIsOptimal == Spec => []OptimalWithoutDetours
<1>1. Init => GreedyInv
  BY InitGreedy
<1>2. Typed /\ PlanInv /\ GreedyInv /\ [Next]_vars => GreedyInv'
  BY NextGreedy
<1>3. Typed /\ GreedyInv => OptimalWithoutDetours
  BY GreedyCostsLeast
<1> QED BY <1>1, <1>2, <1>3, PlanInvariant, PTL DEF Spec

-----------------------------------------------------------------------------
(* The loop ends.  ENABLED and fairness are out of the prover's reach; what   *)
(* makes the loop end is proved without them: it can always go on, and every  *)
(* turn leaves less to do.                                                    *)

\* Of finitely many candidates that are compared with each other, one, and no
\* more than one, beats the others: max() and min() over a list that is not
\* empty have one answer.
LEMMA SomeoneBeatsAll ==
  ASSUME NEW C, IsFiniteSet(C), C # {}, NEW R,
         \A s \in C : <<s, s>> \notin R,
         \A s, u, v \in C : <<s, u>> \in R /\ <<u, v>> \in R => <<s, v>> \in R,
         \A s, u \in C : s # u => <<s, u>> \in R \/ <<u, s>> \in R
  PROVE  \E s \in C : {v \in C : \A u \in C \ {v} : <<v, u>> \in R} = {s}
<1> DEFINE better(s) == {u \in C : <<u, s>> \in R}
           counts == {Cardinality(better(s)) : s \in C}
<1>1. \A s \in C : IsFiniteSet(better(s)) /\ Cardinality(better(s)) \in Nat
  <2> TAKE s \in C
  <2>1. better(s) \in SUBSET C
    OBVIOUS
  <2> HIDE DEF better
  <2>2. IsFiniteSet(better(s))
    BY <2>1, FS_Subset
  <2>3. QED
    BY <2>2, FS_CardinalityType
<1>2. counts \subseteq Nat /\ counts # {}
  <2> HIDE DEF better
  <2> QED
    BY <1>1
<1>3. PICK m \in counts : \A n \in counts : m <= n
  <2> HIDE DEF counts
  <2> QED
    BY <1>2, NatMin
<1>4. PICK s \in C : m = Cardinality(better(s))
  OBVIOUS
<1>5. \A u \in C : Cardinality(better(s)) <= Cardinality(better(u))
  <2> HIDE DEF better
  <2> QED
    BY <1>3, <1>4
<1>6. ASSUME NEW u \in better(s) PROVE FALSE
  <2>1. u \in C /\ better(u) \in SUBSET better(s) /\ u \notin better(u)
    OBVIOUS
  <2>2. /\ Cardinality(better(u)) <= Cardinality(better(s))
        /\ Cardinality(better(s)) = Cardinality(better(u)) => better(s) = better(u)
    <3> HIDE DEF better
    <3> QED
      BY <1>1, <2>1, FS_Subset
  <2>3. Cardinality(better(s)) = Cardinality(better(u))
    <3> HIDE DEF better
    <3> QED
      BY <1>1, <1>5, <2>1, <2>2
  <2>4. QED
    BY <1>6, <2>1, <2>2, <2>3
<1>7. \A u \in C \ {s} : <<s, u>> \in R
  BY <1>6
<1>8. ASSUME NEW v \in C, \A u \in C \ {v} : <<v, u>> \in R PROVE v = s
  <2>1. CASE v # s
    <3>1. <<v, s>> \in R /\ <<s, v>> \in R
      BY <1>7, <1>8, <2>1
    <3>2. <<v, v>> \in R
      BY <3>1
    <3>3. QED
      BY <3>2
  <2>2. QED
    BY <2>1
<1>9. QED
  BY <1>7, <1>8

\* The order of the places on the route, and of the ids at the same place.
LEMMA FartherOrders ==
  ASSUME TypeOK
  PROVE  /\ \A s \in Stations : ~Farther(s, s)
         /\ \A s, u, v \in Stations : Farther(s, u) /\ Farther(u, v) => Farther(s, v)
         /\ \A s, u \in Stations : s # u => Farther(s, u) \/ Farther(u, s)
BY ContextFields, FuelOptimizerAssumption DEF Farther

LEMMA SellerType ==
  ASSUME Typed, NEW s \in Stations
  PROVE  /\ Volume(s) \in Nat /\ Payment(s) \in Nat /\ Delivered(s) \in Int
         /\ Priced(s) => Delivered(s) \in Nat /\ Delivered(s) > 0
<1>1. /\ TypeOK /\ fuel \in Nat /\ fuel <= ctx.usable /\ ctx.usable \in Nat
      /\ FuelTo(s) \in Nat /\ ctx.detour[s] \in Nat /\ ctx.price[s] \in Nat
  BY ContextFields, DistanceType DEF Typed, TypeOK
<1>2. ctx.charge[s] \in Nat
  BY <1>1, ContextFields DEF ContextType
<1>3. Volume(s) \in Nat
  BY <1>1 DEF Volume
<1>4. Volume(s) * ctx.price[s] \in Nat
  BY <1>1, <1>3, ProductType
<1>5. Payment(s) \in Nat
  BY <1>2, <1>4 DEF Payment
<1>6. Delivered(s) \in Int /\ (Priced(s) => Delivered(s) \in Nat /\ Delivered(s) > 0)
  BY <1>1, <1>3 DEF Delivered, Priced
<1>7. QED
  BY <1>3, <1>5, <1>6

\* Comparing the effective prices by their cross products is an order.
Alike(s, u) == ~Cheaper(s, u) /\ ~Cheaper(u, s)

LEMMA CheaperOrders ==
  ASSUME Typed, NEW s \in Stations, NEW u \in Stations, NEW v \in Stations,
         Priced(s), Priced(u), Priced(v)
  PROVE  /\ ~Cheaper(s, s)
         /\ ~(Cheaper(s, u) /\ Cheaper(u, s))
         /\ Cheaper(s, u) /\ Cheaper(u, v) => Cheaper(s, v)
         /\ Cheaper(s, u) /\ Alike(u, v) => Cheaper(s, v)
         /\ Alike(s, u) /\ Cheaper(u, v) => Cheaper(s, v)
         /\ Alike(s, u) /\ Alike(u, v) => Alike(s, v)
<1>1. PICK p \in Nat, d \in Nat, q \in Nat, e \in Nat, r \in Nat, f \in Nat :
        /\ p = Payment(s) /\ d = Delivered(s) /\ d > 0
        /\ q = Payment(u) /\ e = Delivered(u) /\ e > 0
        /\ r = Payment(v) /\ f = Delivered(v) /\ f > 0
  BY SellerType
<1>2. /\ Cheaper(s, u) <=> p * e < q * d
      /\ Cheaper(u, s) <=> q * d < p * e
      /\ Cheaper(u, v) <=> q * f < r * e
      /\ Cheaper(v, u) <=> r * e < q * f
      /\ Cheaper(s, v) <=> p * f < r * d
      /\ Cheaper(v, s) <=> r * d < p * f
      /\ Cheaper(s, s) <=> p * d < p * d
  BY <1>1 DEF Cheaper
<1>3. /\ p * e < q * d /\ q * f < r * e => p * f < r * d
      /\ p * e < q * d /\ q * f = r * e => p * f < r * d
      /\ p * e = q * d /\ q * f < r * e => p * f < r * d
      /\ p * e = q * d /\ q * f = r * e => p * f = r * d
  <2>1. \A x, y, z \in Nat : z > 0 /\ x * z < y * z => x < y
    OBVIOUS
  <2>2. \A x, y, z \in Nat : z > 0 /\ x * z = y * z => x = y
    OBVIOUS
  <2>3. \A x, y, z \in Nat : z > 0 /\ x < y => x * z < y * z
    OBVIOUS
  <2>4. PICK a, b, c, g, h, k \in Nat : /\ a = p * e /\ b = q * d
                                        /\ c = q * f /\ g = r * e /\ h = p * f /\ k = r * d
    BY ProductType
  <2>5. a * f = h * e /\ b * f = c * d /\ g * d = k * e
    BY <2>4
  <2>6. d > 0 /\ e > 0 /\ f > 0
    BY <1>1
  <2>7. QED
    BY <2>1, <2>2, <2>3, <2>4, <2>5, <2>6
<1>4. PICK pe \in Nat, qd \in Nat, qf \in Nat, re \in Nat, pf \in Nat, rd \in Nat, pd \in Nat :
        /\ pe = p * e /\ qd = q * d /\ qf = q * f /\ re = r * e
        /\ pf = p * f /\ rd = r * d /\ pd = p * d
  BY ProductType
<1>5. QED
  BY <1>2, <1>3, <1>4 DEF Alike

LEMMA BeatsOrders ==
  ASSUME Typed
  PROVE  /\ \A s \in Stations : ~Beats(s, s)
         /\ \A s, u, v \in Stations : Beats(s, u) /\ Beats(u, v) => Beats(s, v)
         /\ \A s, u \in Stations : s # u => Beats(s, u) \/ Beats(u, s)
<1>1. /\ \A s \in Stations : ~Farther(s, s)
      /\ \A s, u, v \in Stations : Farther(s, u) /\ Farther(u, v) => Farther(s, v)
      /\ \A s, u \in Stations : s # u => Farther(s, u) \/ Farther(u, s)
  BY FartherOrders DEF Typed
<1>2. \A s, u \in Stations :
        Beats(s, u) <=> \/ Priced(s) /\ (Priced(u) => Cheaper(s, u))
                        \/ /\ Priced(s) <=> Priced(u)
                           /\ Priced(s) => Alike(s, u)
                           /\ Farther(s, u)
  BY DEF Beats, Alike, Priced
<1>3. ASSUME NEW s \in Stations PROVE ~Beats(s, s)
  BY <1>1, <1>2, CheaperOrders
<1>4. ASSUME NEW s \in Stations, NEW u \in Stations, NEW v \in Stations,
             Beats(s, u), Beats(u, v)
      PROVE  Beats(s, v)
  <2>1. CASE Priced(s) /\ Priced(u) /\ Priced(v)
    BY <1>1, <1>2, <1>4, <2>1, CheaperOrders
  <2>2. CASE ~(Priced(s) /\ Priced(u) /\ Priced(v))
    BY <1>1, <1>2, <1>4, <2>2
  <2>3. QED
    BY <2>1, <2>2
<1>5. ASSUME NEW s \in Stations, NEW u \in Stations, s # u
      PROVE  Beats(s, u) \/ Beats(u, s)
  <2>1. Farther(s, u) \/ Farther(u, s)
    BY <1>1, <1>5
  <2>2. Cheaper(s, u) \/ Cheaper(u, s) \/ (Alike(s, u) /\ Alike(u, s))
    BY DEF Alike
  <2>3. QED
    BY <1>2, <2>1, <2>2
<1>6. QED
  BY <1>3, <1>4, <1>5

\* Of candidates to choose from, the choice of the nearest and that of the
\* cheapest, whatever their prices and places, find exactly one: the plan does
\* not depend on the order in which the stations were listed.
LEMMA ChoiceIsMade ==
  ASSUME Typed, IsFiniteSet(Stations), NEW C, C \subseteq Stations, C # {}
  PROVE  (\E s \in C : Nearest(C) = {s}) /\ (\E s \in C : Cheapest(C) = {s})
<1>1. IsFiniteSet(C)
  BY FS_Subset
<1>2. \E s \in C : Nearest(C) = {s}
  <2>1. PICK R : R = {p \in C \X C : Farther(p[2], p[1])}
    OBVIOUS
  <2>2. \A s, u \in C : <<s, u>> \in R <=> Farther(u, s)
    BY <2>1
  <2>3. /\ \A s \in C : <<s, s>> \notin R
        /\ \A s, u, v \in C : <<s, u>> \in R /\ <<u, v>> \in R => <<s, v>> \in R
        /\ \A s, u \in C : s # u => <<s, u>> \in R \/ <<u, s>> \in R
    BY <2>2, FartherOrders DEF Typed
  <2>4. \E s \in C : {v \in C : \A u \in C \ {v} : <<v, u>> \in R} = {s}
    BY <1>1, <2>3, SomeoneBeatsAll
  <2>5. Nearest(C) = {v \in C : \A u \in C \ {v} : <<v, u>> \in R}
    BY <2>2 DEF Nearest
  <2>6. QED
    BY <2>4, <2>5
<1>3. \E s \in C : Cheapest(C) = {s}
  <2>1. PICK R : R = {p \in C \X C : Beats(p[1], p[2])}
    OBVIOUS
  <2>2. \A s, u \in C : <<s, u>> \in R <=> Beats(s, u)
    BY <2>1
  <2>3. /\ \A s \in C : <<s, s>> \notin R
        /\ \A s, u, v \in C : <<s, u>> \in R /\ <<u, v>> \in R => <<s, v>> \in R
        /\ \A s, u \in C : s # u => <<s, u>> \in R \/ <<u, s>> \in R
    BY <2>2, BeatsOrders
  <2>4. \E s \in C : {v \in C : \A u \in C \ {v} : <<v, u>> \in R} = {s}
    BY <1>1, <2>3, SomeoneBeatsAll
  <2>5. Cheapest(C) = {v \in C : \A u \in C \ {v} : <<v, u>> \in R}
    BY <2>2 DEF Cheapest
  <2>6. QED
    BY <2>4, <2>5
<1>4. QED
  BY <1>2, <1>3

LEMMA FailureHasTargets ==
  ASSUME Typed, IsFiniteSet(Stations)
  PROVE  PrimaryTarget # {}
<1>1. OutOfReach \subseteq Stations
  BY DEF OutOfReach, Ahead
<1>2. OutOfReach # {} => Nearest(OutOfReach) # {}
  BY <1>1, ChoiceIsMade
<1>3. QED
  BY <1>2 DEF PrimaryTarget

\* What each action needs to be taken: its guard, and something to choose where
\* it chooses.  At a station, one that is worth waiting for is chosen.
Chosen(C) == C # {} => Cheapest(C) # {}

CanGoOn ==
  /\ pc = "evaluate" /\ ~DestinationReachable /\ station = None =>
       /\ Chosen(Reachable(fuel, OriginArrival))
       /\ Reachable(fuel, OriginArrival) = {} => PrimaryTarget # {}
  /\ pc = "evaluate" /\ ~DestinationReachable /\ station # None =>
       (PayingAhead # {} => CheaperAhead # {})
  /\ pc = "refuelled" /\ ~DestinationReachable =>
       /\ Chosen(Reachable(fuel, ctx.reserve))
       /\ Reachable(fuel, ctx.reserve) = {} => PrimaryTarget # {}
  /\ pc = "depart" =>
       \/ fuel >= FuelTo(target) + ctx.reserve
       \/ fuel < FuelTo(target) + ctx.reserve /\ PrimaryTarget # {}

\* The loop is never stuck: whichever turn it is at, one of its branches can be
\* taken, since max() over the stations in reach, min() over those that pay off
\* and the search for a failure's target all find one.  Stations are a list in
\* the code, hence finitely many.
THEOREM NeverStuck ==
  ASSUME IsFiniteSet(Stations)
  PROVE  Spec => []CanGoOn
<1>1. ASSUME Typed, PlanInv PROVE CanGoOn
  <2>1. PrimaryTarget # {}
    BY <1>1, FailureHasTargets
  <2>2. \A tank, arrival : Chosen(Reachable(tank, arrival))
    <3> TAKE tank, arrival
    <3>1. Reachable(tank, arrival) \subseteq Stations
      BY DEF Reachable, Ahead
    <3>2. QED
      BY <1>1, <3>1, ChoiceIsMade DEF Chosen
  <2>3. PayingAhead # {} => CheaperAhead # {}
    <3>1. PayingAhead \subseteq Stations
      BY DEF PayingAhead, Reachable, Ahead
    <3>2. QED
      BY <1>1, <3>1, ChoiceIsMade DEF CheaperAhead
  <2>4. pc = "depart" => \/ fuel >= FuelTo(target) + ctx.reserve
                         \/ fuel < FuelTo(target) + ctx.reserve
    <3>1. ASSUME pc = "depart" PROVE target \in Stations
      BY <1>1, <3>1 DEF PlanInv, Standing, Ahead
    <3>2. /\ fuel \in Nat /\ ctx.reserve \in Nat
          /\ \A s \in Stations : FuelTo(s) \in Nat
      BY <1>1, ContextFields, DistanceType DEF Typed, TypeOK
    <3>3. QED
      BY <3>1, <3>2
  <2>5. QED
    BY <2>1, <2>2, <2>3, <2>4 DEF CanGoOn
<1>2. QED
  BY <1>1, PlanInvariant, PTL

\* What is left to do: the way still to go, and the turns at one place.
TurnsHere ==
  CASE pc = "evaluate" /\ ~DestinationReachable -> 4
    [] pc = "refuelled" -> 3
    [] pc = "depart" -> 2
    [] pc = "evaluate" /\ DestinationReachable -> 1
    [] OTHER -> 0

Work == 5 * FuelToDestination + TurnsHere

LEMMA TurnsBound ==
  /\ TurnsHere \in 0 .. 4
  /\ TurnsHere' \in 0 .. 4
BY DEF TurnsHere

LEMMA TravelShortens ==
  ASSUME Typed, NEW s \in Ahead, Travel(s), Typed'
  PROVE  Work' \in Nat /\ Work' < Work
<1>1. /\ offset \in Nat /\ ctx.total \in Nat /\ ctx.at[s] \in Nat
      /\ offset < ctx.at[s] /\ ctx.at[s] <= ctx.total
  BY ContextFields, AheadType DEF Typed, TypeOK, Ahead
<1>2. offset' = ctx.at[s] /\ ctx' = ctx
  BY DEF Travel
<1>3. FuelToDestination = ctx.total - offset
  BY <1>1 DEF FuelToDestination, FuelBetween
<1>4. FuelToDestination' = ctx.total - ctx.at[s]
  BY <1>1, <1>2 DEF FuelToDestination, FuelBetween
<1>5. PICK now \in 0 .. 4, next \in 0 .. 4 : now = TurnsHere /\ next = TurnsHere'
  BY TurnsBound
<1>6. /\ Work = 5 * (ctx.total - offset) + now
      /\ Work' = 5 * (ctx.total - ctx.at[s]) + next
  BY <1>3, <1>4, <1>5 DEF Work
<1>7. QED
  BY <1>1, <1>5, <1>6

\* A turn that stays where it is leaves the way as it is.
LEMMA TurnShortens ==
  ASSUME Typed, UNCHANGED <<ctx, offset>>, TurnsHere' < TurnsHere
  PROVE  Work' \in Nat /\ Work' < Work
<1>1. FuelToDestination' = FuelToDestination
  BY DEF FuelToDestination, FuelBetween
<1>2. PICK way \in Nat : way = FuelToDestination
  BY DistanceType DEF Typed
<1>3. PICK now \in 0 .. 4, next \in 0 .. 4 : now = TurnsHere /\ next = TurnsHere'
  BY TurnsBound
<1>4. Work = 5 * way + now /\ Work' = 5 * way + next
  BY <1>1, <1>2, <1>3 DEF Work
<1>5. next < now
  BY <1>3
<1>6. 5 * way + next \in Nat /\ 5 * way + next < 5 * way + now
  BY <1>5
<1>7. QED
  BY <1>4, <1>6

\* Every turn of the loop leaves less to do than there was, a natural number
\* of things: an optimization takes at most 5 * total_distance + 4 of them, and
\* after success or failure there is none.
StepsShortenWork == [][Work' \in Nat /\ Work' < Work]_vars

LEMMA NextShortens ==
  ASSUME Typed, Standing, Next, Typed'
  PROVE  Work' \in Nat /\ Work' < Work
<1>1. ASSUME Succeed PROVE Work' \in Nat /\ Work' < Work
  <2>1. TurnsHere = 1 /\ TurnsHere' = 0
    BY <1>1 DEF Succeed, TurnsHere
  <2>2. QED
    BY <1>1, <2>1, TurnShortens DEF Succeed
<1>2. ASSUME DriveToFirstStation PROVE Work' \in Nat /\ Work' < Work
  <2>1. PICK s \in Cheapest(Reachable(fuel, OriginArrival)) : Travel(s)
    BY <1>2 DEF DriveToFirstStation
  <2>2. s \in Ahead
    BY Selected
  <2>3. QED
    BY <2>1, <2>2, TravelShortens
<1>3. ASSUME NoFirstStation \/ NoContinuation \/ PlannedStationUnreachable
      PROVE  Work' \in Nat /\ Work' < Work
  <2>1. /\ TurnsHere \in {2, 3, 4}
        /\ \E reason : Fail(reason)
    BY <1>3 DEF NoFirstStation, NoContinuation, PlannedStationUnreachable, TurnsHere
  <2>2. TurnsHere' = 0 /\ UNCHANGED <<ctx, offset>>
    BY <2>1 DEF Fail, TurnsHere
  <2>3. QED
    BY <2>1, <2>2, TurnShortens
<1>4. ASSUME Refuel PROVE Work' \in Nat /\ Work' < Work
  <2>1. TurnsHere = 4 /\ pc' \in {"refuelled", "depart"} /\ UNCHANGED <<ctx, offset>>
    BY <1>4 DEF Refuel, TurnsHere
  <2>2. TurnsHere' \in {2, 3}
    BY <2>1 DEF TurnsHere
  <2>3. QED
    BY <2>1, <2>2, TurnShortens
<1>5. ASSUME Continue PROVE Work' \in Nat /\ Work' < Work
  <2>1. /\ TurnsHere = 3 /\ pc' = "evaluate" /\ DestinationReachable
        /\ UNCHANGED <<ctx, offset, fuel>>
    BY <1>5 DEF Continue, TurnsHere
  <2>2. DestinationReachable'
    BY <2>1 DEF DestinationReachable, FuelToDestination, FuelBetween
  <2>3. TurnsHere' = 1
    BY <2>1, <2>2 DEF TurnsHere
  <2>4. QED
    BY <2>1, <2>3, TurnShortens
<1>6. ASSUME ChooseNext PROVE Work' \in Nat /\ Work' < Work
  <2>1. TurnsHere = 3 /\ TurnsHere' = 2 /\ UNCHANGED <<ctx, offset>>
    BY <1>6 DEF ChooseNext, TurnsHere
  <2>2. QED
    BY <2>1, TurnShortens
<1>7. ASSUME Depart PROVE Work' \in Nat /\ Work' < Work
  <2>1. target \in Ahead /\ Travel(target)
    BY <1>7 DEF Depart, Standing
  <2>2. PICK s : s = target
    OBVIOUS
  <2>3. s \in Ahead /\ Travel(s)
    BY <2>1, <2>2
  <2>4. QED
    BY <2>3, TravelShortens
<1>8. QED
  BY <1>1, <1>2, <1>3, <1>4, <1>5, <1>6, <1>7 DEF Next

\* Every turn of the loop leaves less work, for all routes, stations, prices and
\* vehicles: the plan is built in finitely many turns, since CanGoOn holds too.
THEOREM EveryTurnShortens == Spec => StepsShortenWork
<1>1. Typed /\ PlanInv /\ Typed' /\ [Next]_vars => [Work' \in Nat /\ Work' < Work]_vars
  BY NextShortens DEF PlanInv
<1>2. QED
  BY <1>1, PlanInvariant, PTL DEF Spec, StepsShortenWork

\* At the start of an optimization the turns left are bounded by the route's length.
THEOREM WorkIsBounded == Init => Work \in 0 .. 5 * ctx.total + 4
<1> SUFFICES ASSUME Init PROVE Work \in 0 .. 5 * ctx.total + 4
  OBVIOUS
<1>1. ctx.total \in Nat /\ offset = 0
  BY InitType, ContextFields DEF Typed, Init
<1>2. FuelToDestination = ctx.total
  BY <1>1 DEF FuelToDestination, FuelBetween
<1>3. PICK now \in 0 .. 4 : now = TurnsHere
  BY TurnsBound
<1>4. Work = 5 * ctx.total + now
  BY <1>2, <1>3 DEF Work
<1>5. QED
  BY <1>1, <1>3, <1>4
=============================================================================
