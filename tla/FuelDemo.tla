------------------------------- MODULE FuelDemo -------------------------------
(* The demonstration on the page "How it works": one truck, one route and     *)
(* three strategies of buying fuel (frontend/src/lib/fuelSim.ts), stepped      *)
(* through side by side (components/HowItWorks/FuelDemo.tsx).  A step is        *)
(* animated the first time it is reached and jumped to afterwards.              *)
(*                                                                             *)
(* Distances are in tenths of a mile and so is fuel, by how far it takes the   *)
(* truck: at 6.8 miles to the gallon, a gallon is 68.  Prices are in cents.    *)
EXTENDS Integers, FiniteSets, FiniteSetsExt

Gallon == 68
Capacity == 150 * Gallon
Reserve == 20 * Gallon
StartFuel == 62 * Gallon

\* The stations along the route, with the destination after the last.
At == <<1400, 2600, 4300, 5900, 7600, 8600>>
PriceAt == <<519, 629, 615, 499, 609>>
STATIONS == DOMAIN PriceAt
Destination == Cardinality(STATIONS) + 1

Between(i, j) == At[j] - At[i]

\* The cheapest of the cheaper stations that a full tank reaches, or the
\* destination.
Target(i) ==
  LET cheaper == {j \in STATIONS : /\ j > i /\ PriceAt[j] < PriceAt[i]
                                   /\ Between(i, j) <= Capacity - Reserve}
  IN  IF cheaper = {} THEN Destination
      ELSE Min({j \in cheaper : \A k \in cheaper : PriceAt[j] <= PriceAt[k]})

Strategies == {"full", "greedy", "jit"}

\* The next station that the fuel bought at station i has to last to.
computeGreedy(i) == Target(i)
computeNaive(i) == i + 1
computeNaiveFull(i) == Destination

Towards(s, i) ==
  CASE s = "greedy" -> computeGreedy(i)
    [] s = "jit" -> computeNaive(i)
    [] s = "full" -> computeNaiveFull(i)

PurchaseOnReserve(s, i, fuel) ==
  Max({0, Min({Capacity - fuel, Between(i, Towards(s, i)) - fuel})})

\* What is bought at station i by a truck that arrives there with `fuel`.
PurchaseAt(s, i, fuel) ==
  Max({0, Min({Capacity - fuel, Between(i, Towards(s, i)) + Reserve - fuel})})

\* The distance of station i from the one before, or from the start.
LegTo(i) == At[i] - IF i = 1 THEN 0 ELSE At[i - 1]

Refuelled(s, i, arrival) == arrival + PurchaseAt(s, i, arrival)

\* The fuel a strategy leaves each station with; it starts from station 0.
FuelAfter(s) ==
  LET after[i \in 0 .. Destination - 1] ==
        IF i = 0 THEN StartFuel ELSE Refuelled(s, i, after[i - 1] - LegTo(i))
  IN  after

FuelOnArrival(s, i) == FuelAfter(s)[i - 1] - LegTo(i)
Bought(s, i) == FuelAfter(s)[i] - FuelOnArrival(s, i)
Cost(s) ==
  LET paid[i \in 0 .. Destination - 1] ==
        IF i = 0 THEN 0 ELSE paid[i - 1] + Bought(s, i) * PriceAt[i]
  IN  paid[Destination - 1]

\* Purchases below a twentieth of a gallon are not shown as such.
ShowsPurchase(s, i) == i \in STATIONS /\ 20 * Bought(s, i) > Gallon

-----------------------------------------------------------------------------
VARIABLES
  idx,       \* the step shown, 0 before the first
  maxIdx,    \* the last step revealed so far
  busy,      \* "no", or what the animation waits for: "driving", "filling"
  truckDist, \* where the trucks are drawn
  fuels,     \* what each tank is drawn with
  decision,  \* the step whose decision is described
  visited,   \* the stations marked as visited
  bought     \* and, for each strategy, as bought at

shown == <<truckDist, fuels, decision, visited, bought>>
demoVars == <<idx, maxIdx, busy, shown>>

BoughtUpTo(s, i) == {j \in STATIONS : j <= i /\ ShowsPurchase(s, j)}

\* What the page shows of a step without any animation.
Snapshot(i) ==
  [truckDist |-> IF i = 0 THEN 0 ELSE At[i],
   fuels |-> [s \in Strategies |-> IF i = Destination THEN FuelOnArrival(s, i)
                                   ELSE FuelAfter(s)[i]],
   decision |-> i,
   visited |-> {j \in STATIONS : j <= i},
   bought |-> [s \in Strategies |-> BoughtUpTo(s, i)]]

Shows(snapshot) ==
  /\ truckDist = snapshot.truckDist
  /\ fuels = snapshot.fuels
  /\ decision = snapshot.decision
  /\ visited = snapshot.visited
  /\ bought = snapshot.bought

Show(snapshot) ==
  /\ truckDist' = snapshot.truckDist
  /\ fuels' = snapshot.fuels
  /\ decision' = snapshot.decision
  /\ visited' = snapshot.visited
  /\ bought' = snapshot.bought

DemoInit ==
  /\ idx = 0
  /\ maxIdx = 0
  /\ busy = "no"
  /\ Shows(Snapshot(0))

JumpTo(i) ==
  /\ idx' = i
  /\ Show(Snapshot(i))
  /\ UNCHANGED <<maxIdx, busy>>

\* The trucks set off with the fuel they will arrive with.
AnimateTo(i) ==
  /\ busy' = "driving"
  /\ truckDist' = At[i]
  /\ fuels' = [s \in Strategies |-> FuelOnArrival(s, i)]
  /\ UNCHANGED <<idx, maxIdx, decision, visited, bought>>

HandleNext ==
  /\ busy = "no"
  /\ idx < Destination
  /\ IF idx + 1 > maxIdx THEN AnimateTo(idx + 1) ELSE JumpTo(idx + 1)

\* The step is revealed.
Revealed(i) ==
  /\ idx' = i
  /\ maxIdx' = Max({maxIdx, i})
  /\ busy' = "no"

ArriveUnmarked ==
  /\ busy = "driving"
  /\ LET i == idx + 1
     IN  /\ decision' = i
         /\ IF \E s \in Strategies : ShowsPurchase(s, i)
            THEN busy' = "filling" /\ UNCHANGED <<idx, maxIdx>>
            ELSE Revealed(i)
  /\ UNCHANGED <<truckDist, fuels, visited, bought>>

\* After 0.92 s the trucks are there; the destination marks nothing new.
Arrive ==
  /\ busy = "driving"
  /\ LET i == idx + 1
         upto == IF i = Destination THEN i - 1 ELSE i
     IN  /\ visited' = {j \in STATIONS : j <= upto}
         /\ bought' = [s \in Strategies |-> BoughtUpTo(s, upto)]
         /\ decision' = i
         /\ IF \E s \in Strategies : ShowsPurchase(s, i)
            THEN busy' = "filling" /\ UNCHANGED <<idx, maxIdx>>
            ELSE Revealed(i)
  /\ UNCHANGED <<truckDist, fuels>>

\* After another 0.3 s the tanks of those that buy are filled.
Fill ==
  /\ busy = "filling"
  /\ fuels' = [s \in Strategies |-> IF ShowsPurchase(s, idx + 1) THEN FuelAfter(s)[idx + 1]
                                    ELSE fuels[s]]
  /\ Revealed(idx + 1)
  /\ UNCHANGED <<truckDist, decision, visited, bought>>

HandleBack ==
  /\ busy = "no"
  /\ idx > 0
  /\ JumpTo(idx - 1)

HandleReplay ==
  /\ busy = "no"
  /\ idx > 0
  /\ idx' = 0
  /\ maxIdx' = 0
  /\ Show(Snapshot(0))
  /\ UNCHANGED busy

DemoNext == HandleNext \/ Arrive \/ Fill \/ HandleBack \/ HandleReplay

DemoSpec == DemoInit /\ [][DemoNext]_demoVars

\* The timers of an animation run out.
Fairness == WF_demoVars(Arrive) /\ WF_demoVars(Fill)

-----------------------------------------------------------------------------
(* Properties. *)

\* However a step was reached, by its animation, by going back to it or by a
\* replay, the page shows the same of it: animateTo and jumpTo compute trucks,
\* tanks and marks each in a way of its own.
ShownIsSnapshot == busy = "no" => Shows(Snapshot(idx))

\* The page never shows a tank below the reserve, and at the end "only where
\* they're bought differs, which is what makes the cost comparison fair": the
\* strategies arrive with the same fuel, and the greedy one has paid the least.
ComparisonIsFair ==
  /\ \A s \in Strategies : fuels[s] >= Reserve
  /\ idx = Destination =>
       \A s \in Strategies :
         /\ fuels[s] = fuels["greedy"]
         /\ Cost("greedy") <= Cost(s)
=============================================================================
