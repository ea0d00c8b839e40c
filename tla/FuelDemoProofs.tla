---------------------------- MODULE FuelDemoProofs ----------------------------
(* The demonstration shows the same of a step however it is reached, and its  *)
(* comparison of the strategies is fair.                                      *)
EXTENDS FuelDemo, FiniteSetTheorems, TLAPS

-----------------------------------------------------------------------------
(* The route *)

LEMMA Route ==
  /\ STATIONS = 1 .. 5 /\ Destination = 6
  /\ At[1] = 1400 /\ At[2] = 2600 /\ At[3] = 4300
  /\ At[4] = 5900 /\ At[5] = 7600 /\ At[6] = 8600
  /\ PriceAt[1] = 519 /\ PriceAt[2] = 629 /\ PriceAt[3] = 615
  /\ PriceAt[4] = 499 /\ PriceAt[5] = 609
  /\ Capacity = 10200 /\ Reserve = 1360 /\ StartFuel = 4216 /\ Gallon = 68
<1>1. STATIONS = 1 .. 5
  BY DEF STATIONS, PriceAt
<1>2. Cardinality(1 .. 5) = 5
  <2>1. PICK a \in Int, b \in Int : a = 1 /\ b = 5
    OBVIOUS
  <2>2. Cardinality(a .. b) = IF a > b THEN 0 ELSE b - a + 1
    BY FS_Interval
  <2>3. QED
    BY <2>1, <2>2
<1>3. Destination = 6
  BY <1>1, <1>2 DEF Destination
<1>4. /\ At[1] = 1400 /\ At[2] = 2600 /\ At[3] = 4300
      /\ At[4] = 5900 /\ At[5] = 7600 /\ At[6] = 8600
  BY DEF At
<1>5. /\ PriceAt[1] = 519 /\ PriceAt[2] = 629 /\ PriceAt[3] = 615
      /\ PriceAt[4] = 499 /\ PriceAt[5] = 609
  BY DEF PriceAt
<1>6. Capacity = 10200 /\ Reserve = 1360 /\ StartFuel = 4216 /\ Gallon = 68
  BY DEF Capacity, Reserve, StartFuel, Gallon
<1>7. QED
  BY <1>1, <1>3, <1>4, <1>5, <1>6

LEMMA TwoNumbers ==
  ASSUME NEW a \in Int, NEW b \in Int
  PROVE  /\ Min({a, b}) = IF a <= b THEN a ELSE b
         /\ Max({a, b}) = IF a <= b THEN b ELSE a
BY DEF Min, Max

\* A purchase takes the tank up to what is needed, if that fits.
LEMMA PurchaseFills ==
  ASSUME NEW s, NEW i, NEW fuel \in Int, NEW need \in Int,
         Between(i, Towards(s, i)) = need, need <= 8840
  PROVE  PurchaseAt(s, i, fuel) = IF fuel <= need + 1360 THEN need + 1360 - fuel ELSE 0
<1>1. PICK room \in Int, lack \in Int : room = 10200 - fuel /\ lack = need + 1360 - fuel
  OBVIOUS
<1>2. PurchaseAt(s, i, fuel) = Max({0, Min({room, lack})})
  BY <1>1, Route DEF PurchaseAt
<1>3. Min({room, lack}) = lack
  BY <1>1, TwoNumbers
<1>4. Max({0, lack}) = IF 0 <= lack THEN lack ELSE 0
  BY TwoNumbers
<1>5. QED
  BY <1>1, <1>2, <1>3, <1>4

\* Where each strategy drives from each station before it buys again.
LEMMA GreedyTargets ==
  /\ Target(1) = 4 /\ Target(2) = 4 /\ Target(3) = 4
  /\ Target(4) = Destination /\ Target(5) = Destination
<1> DEFINE cheaper(i) == {j \in STATIONS : /\ j > i /\ PriceAt[j] < PriceAt[i]
                                           /\ Between(i, j) <= Capacity - Reserve}
           least(i) == {j \in cheaper(i) : \A k \in cheaper(i) : PriceAt[j] <= PriceAt[k]}
<1>1. /\ cheaper(1) = {4} /\ cheaper(2) = {3, 4, 5} /\ cheaper(3) = {4, 5}
      /\ cheaper(4) = {} /\ cheaper(5) = {}
  BY Route DEF Between
<1>2. least(1) = {4} /\ least(2) = {4} /\ least(3) = {4}
  BY <1>1, Route
<1>3. Min({4}) = 4
  BY DEF Min
<1>4. QED
  BY <1>1, <1>2, <1>3 DEF Target

\* How far the fuel bought at each station has to last.
LEMMA Distances ==
  /\ /\ Between(1, Towards("full", 1)) = 7200 /\ Between(2, Towards("full", 2)) = 6000
     /\ Between(3, Towards("full", 3)) = 4300 /\ Between(4, Towards("full", 4)) = 2700
     /\ Between(5, Towards("full", 5)) = 1000
  /\ /\ Between(1, Towards("greedy", 1)) = 4500 /\ Between(2, Towards("greedy", 2)) = 3300
     /\ Between(3, Towards("greedy", 3)) = 1600 /\ Between(4, Towards("greedy", 4)) = 2700
     /\ Between(5, Towards("greedy", 5)) = 1000
  /\ /\ Between(1, Towards("jit", 1)) = 1200 /\ Between(2, Towards("jit", 2)) = 1700
     /\ Between(3, Towards("jit", 3)) = 1600 /\ Between(4, Towards("jit", 4)) = 1700
     /\ Between(5, Towards("jit", 5)) = 1000
<1>1. \A i : Towards("full", i) = 6
  BY Route DEF Towards, computeNaiveFull
<1>2. \A i : Towards("greedy", i) = Target(i)
  BY DEF Towards, computeGreedy
<1>3. \A i : Towards("jit", i) = i + 1
  BY DEF Towards, computeNaive
<1>4. /\ Towards("jit", 1) = 2 /\ Towards("jit", 2) = 3 /\ Towards("jit", 3) = 4
      /\ Towards("jit", 4) = 5 /\ Towards("jit", 5) = 6
  BY <1>3
<1>5. /\ Towards("greedy", 1) = 4 /\ Towards("greedy", 2) = 4 /\ Towards("greedy", 3) = 4
      /\ Towards("greedy", 4) = 6 /\ Towards("greedy", 5) = 6
  BY <1>2, GreedyTargets, Route
<1>6. QED
  BY <1>1, <1>4, <1>5, Route DEF Between

\* The fuel after each station follows from the fuel after the one before.
LEMMA FuelAfterUnfolds ==
  ASSUME NEW s
  PROVE  /\ FuelAfter(s)[0] = StartFuel
         /\ \A i \in 1 .. 5 :
              FuelAfter(s)[i] = Refuelled(s, i, FuelAfter(s)[i - 1] - LegTo(i))
<1> DEFINE a1 == Refuelled(s, 1, StartFuel - LegTo(1))
           a2 == Refuelled(s, 2, a1 - LegTo(2))
           a3 == Refuelled(s, 3, a2 - LegTo(3))
           a4 == Refuelled(s, 4, a3 - LegTo(4))
           a5 == Refuelled(s, 5, a4 - LegTo(5))
           f == [i \in 0 .. 5 |->
                   CASE i = 0 -> StartFuel [] i = 1 -> a1 [] i = 2 -> a2
                     [] i = 3 -> a3 [] i = 4 -> a4 [] i = 5 -> a5]
           Unfolds(g) == g = [i \in 0 .. Destination - 1 |-> IF i = 0 THEN StartFuel
                                               ELSE Refuelled(s, i, g[i - 1] - LegTo(i))]
<1>1. FuelAfter(s) = CHOOSE g : Unfolds(g)
  BY Zenon DEF FuelAfter
<1>2. Unfolds(f)
  <2>1. /\ f[0] = StartFuel /\ f[1] = a1 /\ f[2] = a2 /\ f[3] = a3 /\ f[4] = a4
        /\ f[5] = a5
    <3> HIDE DEF a1, a2, a3, a4, a5
    <3> QED
      OBVIOUS
  <2>2. f[1] = Refuelled(s, 1, f[0] - LegTo(1)) /\ f[2] = Refuelled(s, 2, f[1] - LegTo(2))
        /\ f[3] = Refuelled(s, 3, f[2] - LegTo(3)) /\ f[4] = Refuelled(s, 4, f[3] - LegTo(4))
        /\ f[5] = Refuelled(s, 5, f[4] - LegTo(5))
    <3> HIDE DEF f
    <3> QED
      BY <2>1
  <2>3. f = [i \in 0 .. 5 |-> f[i]]
    <3> HIDE DEF a1, a2, a3, a4, a5
    <3> QED
      OBVIOUS
  <2>4. \A i \in 0 .. 5 : f[i] = IF i = 0 THEN StartFuel
                                 ELSE Refuelled(s, i, f[i - 1] - LegTo(i))
    <3> HIDE DEF f, a1, a2, a3, a4, a5
    <3> QED
      BY <2>1, <2>2
  <2>5. QED
    <3> HIDE DEF f
    <3> QED
      BY <2>3, <2>4, Route
<1>3. Unfolds(FuelAfter(s))
  <2> HIDE DEF Unfolds, f
  <2> QED
    BY <1>1, <1>2
<1>4. QED
  BY <1>3, Route

LEMMA Legs ==
  /\ LegTo(1) = 1400 /\ LegTo(2) = 1200 /\ LegTo(3) = 1700
  /\ LegTo(4) = 1600 /\ LegTo(5) = 1700 /\ LegTo(6) = 1000
BY Route DEF LegTo

\* A truck leaves a station with what it came with, or with what it has to.
LEMMA Leaves ==
  ASSUME NEW s, NEW i \in 1 .. 5, NEW before \in Int, NEW leg \in Int, NEW need \in Int,
         FuelAfter(s)[i - 1] = before, LegTo(i) = leg,
         Between(i, Towards(s, i)) = need, need <= 8840
  PROVE  /\ FuelOnArrival(s, i) = before - leg
         /\ FuelAfter(s)[i] = IF before - leg <= need + 1360 THEN need + 1360
                              ELSE before - leg
<1>1. PICK arrival \in Int : arrival = before - leg
  OBVIOUS
<1>2. FuelOnArrival(s, i) = arrival
  BY <1>1 DEF FuelOnArrival
<1>3. FuelAfter(s)[i] = Refuelled(s, i, arrival)
  BY <1>1, FuelAfterUnfolds
<1>4. PurchaseAt(s, i, arrival) = IF arrival <= need + 1360 THEN need + 1360 - arrival ELSE 0
  BY PurchaseFills
<1>5. Refuelled(s, i, arrival) = IF arrival <= need + 1360 THEN need + 1360 ELSE arrival
  BY <1>4 DEF Refuelled
<1>6. QED
  BY <1>1, <1>2, <1>3, <1>5

\* The tanks of each strategy, in tenths of a mile, on the way.
LEMMA FullTanks ==
  /\ FuelAfter("full")[0] = 4216
  /\ FuelOnArrival("full", 1) = 2816 /\ FuelAfter("full")[1] = 8560
  /\ FuelOnArrival("full", 2) = 7360 /\ FuelAfter("full")[2] = 7360
  /\ FuelOnArrival("full", 3) = 5660 /\ FuelAfter("full")[3] = 5660
  /\ FuelOnArrival("full", 4) = 4060 /\ FuelAfter("full")[4] = 4060
  /\ FuelOnArrival("full", 5) = 2360 /\ FuelAfter("full")[5] = 2360
  /\ FuelOnArrival("full", 6) = 1360
<1>0. FuelAfter("full")[0] = 4216
  BY FuelAfterUnfolds, Route
<1>1. FuelOnArrival("full", 1) = 2816 /\ FuelAfter("full")[1] = 8560
  BY <1>0, Leaves, Legs, Distances
<1>2. FuelOnArrival("full", 2) = 7360 /\ FuelAfter("full")[2] = 7360
  BY <1>1, Leaves, Legs, Distances
<1>3. FuelOnArrival("full", 3) = 5660 /\ FuelAfter("full")[3] = 5660
  BY <1>2, Leaves, Legs, Distances
<1>4. FuelOnArrival("full", 4) = 4060 /\ FuelAfter("full")[4] = 4060
  BY <1>3, Leaves, Legs, Distances
<1>5. FuelOnArrival("full", 5) = 2360 /\ FuelAfter("full")[5] = 2360
  BY <1>4, Leaves, Legs, Distances
<1>6. FuelOnArrival("full", 6) = 1360
  BY <1>5, Legs DEF FuelOnArrival
<1>7. QED
  BY <1>0, <1>1, <1>2, <1>3, <1>4, <1>5, <1>6

LEMMA GreedyTanks ==
  /\ FuelAfter("greedy")[0] = 4216
  /\ FuelOnArrival("greedy", 1) = 2816 /\ FuelAfter("greedy")[1] = 5860
  /\ FuelOnArrival("greedy", 2) = 4660 /\ FuelAfter("greedy")[2] = 4660
  /\ FuelOnArrival("greedy", 3) = 2960 /\ FuelAfter("greedy")[3] = 2960
  /\ FuelOnArrival("greedy", 4) = 1360 /\ FuelAfter("greedy")[4] = 4060
  /\ FuelOnArrival("greedy", 5) = 2360 /\ FuelAfter("greedy")[5] = 2360
  /\ FuelOnArrival("greedy", 6) = 1360
<1>0. FuelAfter("greedy")[0] = 4216
  BY FuelAfterUnfolds, Route
<1>1. FuelOnArrival("greedy", 1) = 2816 /\ FuelAfter("greedy")[1] = 5860
  BY <1>0, Leaves, Legs, Distances
<1>2. FuelOnArrival("greedy", 2) = 4660 /\ FuelAfter("greedy")[2] = 4660
  BY <1>1, Leaves, Legs, Distances
<1>3. FuelOnArrival("greedy", 3) = 2960 /\ FuelAfter("greedy")[3] = 2960
  BY <1>2, Leaves, Legs, Distances
<1>4. FuelOnArrival("greedy", 4) = 1360 /\ FuelAfter("greedy")[4] = 4060
  BY <1>3, Leaves, Legs, Distances
<1>5. FuelOnArrival("greedy", 5) = 2360 /\ FuelAfter("greedy")[5] = 2360
  BY <1>4, Leaves, Legs, Distances
<1>6. FuelOnArrival("greedy", 6) = 1360
  BY <1>5, Legs DEF FuelOnArrival
<1>7. QED
  BY <1>0, <1>1, <1>2, <1>3, <1>4, <1>5, <1>6

LEMMA JitTanks ==
  /\ FuelAfter("jit")[0] = 4216
  /\ FuelOnArrival("jit", 1) = 2816 /\ FuelAfter("jit")[1] = 2816
  /\ FuelOnArrival("jit", 2) = 1616 /\ FuelAfter("jit")[2] = 3060
  /\ FuelOnArrival("jit", 3) = 1360 /\ FuelAfter("jit")[3] = 2960
  /\ FuelOnArrival("jit", 4) = 1360 /\ FuelAfter("jit")[4] = 3060
  /\ FuelOnArrival("jit", 5) = 1360 /\ FuelAfter("jit")[5] = 2360
  /\ FuelOnArrival("jit", 6) = 1360
<1>0. FuelAfter("jit")[0] = 4216
  BY FuelAfterUnfolds, Route
<1>1. FuelOnArrival("jit", 1) = 2816 /\ FuelAfter("jit")[1] = 2816
  BY <1>0, Leaves, Legs, Distances
<1>2. FuelOnArrival("jit", 2) = 1616 /\ FuelAfter("jit")[2] = 3060
  BY <1>1, Leaves, Legs, Distances
<1>3. FuelOnArrival("jit", 3) = 1360 /\ FuelAfter("jit")[3] = 2960
  BY <1>2, Leaves, Legs, Distances
<1>4. FuelOnArrival("jit", 4) = 1360 /\ FuelAfter("jit")[4] = 3060
  BY <1>3, Leaves, Legs, Distances
<1>5. FuelOnArrival("jit", 5) = 1360 /\ FuelAfter("jit")[5] = 2360
  BY <1>4, Leaves, Legs, Distances
<1>6. FuelOnArrival("jit", 6) = 1360
  BY <1>5, Legs DEF FuelOnArrival
<1>7. QED
  BY <1>0, <1>1, <1>2, <1>3, <1>4, <1>5, <1>6

-----------------------------------------------------------------------------
(* What is bought *)

LEMMA Purchases ==
  /\ /\ Bought("full", 1) = 5744 /\ Bought("full", 2) = 0 /\ Bought("full", 3) = 0
     /\ Bought("full", 4) = 0 /\ Bought("full", 5) = 0
  /\ /\ Bought("greedy", 1) = 3044 /\ Bought("greedy", 2) = 0 /\ Bought("greedy", 3) = 0
     /\ Bought("greedy", 4) = 2700 /\ Bought("greedy", 5) = 0
  /\ /\ Bought("jit", 1) = 0 /\ Bought("jit", 2) = 1444 /\ Bought("jit", 3) = 1600
     /\ Bought("jit", 4) = 1700 /\ Bought("jit", 5) = 1000
<1>1. /\ Bought("full", 1) = 5744 /\ Bought("full", 2) = 0 /\ Bought("full", 3) = 0
      /\ Bought("full", 4) = 0 /\ Bought("full", 5) = 0
  BY FullTanks DEF Bought
<1>2. /\ Bought("greedy", 1) = 3044 /\ Bought("greedy", 2) = 0 /\ Bought("greedy", 3) = 0
      /\ Bought("greedy", 4) = 2700 /\ Bought("greedy", 5) = 0
  BY GreedyTanks DEF Bought
<1>3. /\ Bought("jit", 1) = 0 /\ Bought("jit", 2) = 1444 /\ Bought("jit", 3) = 1600
      /\ Bought("jit", 4) = 1700 /\ Bought("jit", 5) = 1000
  BY JitTanks DEF Bought
<1>4. QED
  BY <1>1, <1>2, <1>3

\* The cost is the sum of the purchases at the prices of their stations.
LEMMA CostUnfolds ==
  ASSUME NEW s,
         \A i \in 1 .. 5 : Bought(s, i) \in Int
  PROVE  Cost(s) = Bought(s, 1) * 519 + Bought(s, 2) * 629 + Bought(s, 3) * 615
                   + Bought(s, 4) * 499 + Bought(s, 5) * 609
<1> DEFINE c1 == 0 + Bought(s, 1) * PriceAt[1]
           c2 == c1 + Bought(s, 2) * PriceAt[2]
           c3 == c2 + Bought(s, 3) * PriceAt[3]
           c4 == c3 + Bought(s, 4) * PriceAt[4]
           c5 == c4 + Bought(s, 5) * PriceAt[5]
           f == [i \in 0 .. 5 |->
                   CASE i = 0 -> 0 [] i = 1 -> c1 [] i = 2 -> c2
                     [] i = 3 -> c3 [] i = 4 -> c4 [] i = 5 -> c5]
           Sums(g) == g = [i \in 0 .. Destination - 1 |->
                             IF i = 0 THEN 0 ELSE g[i - 1] + Bought(s, i) * PriceAt[i]]
           paid == CHOOSE g : Sums(g)
<1>1. Cost(s) = paid[Destination - 1]
  BY Zenon DEF Cost
<1>2. Sums(f)
  <2>1. /\ f[0] = 0 /\ f[1] = c1 /\ f[2] = c2 /\ f[3] = c3 /\ f[4] = c4 /\ f[5] = c5
    <3> HIDE DEF c1, c2, c3, c4, c5
    <3> QED
      OBVIOUS
  <2>2. /\ f[1] = f[0] + Bought(s, 1) * PriceAt[1] /\ f[2] = f[1] + Bought(s, 2) * PriceAt[2]
        /\ f[3] = f[2] + Bought(s, 3) * PriceAt[3] /\ f[4] = f[3] + Bought(s, 4) * PriceAt[4]
        /\ f[5] = f[4] + Bought(s, 5) * PriceAt[5]
    <3> HIDE DEF f
    <3> QED
      BY <2>1
  <2>3. f = [i \in 0 .. 5 |-> f[i]]
    <3> HIDE DEF c1, c2, c3, c4, c5
    <3> QED
      OBVIOUS
  <2>4. \A i \in 0 .. 5 : f[i] = IF i = 0 THEN 0 ELSE f[i - 1] + Bought(s, i) * PriceAt[i]
    <3> HIDE DEF f, c1, c2, c3, c4, c5
    <3> QED
      BY <2>1, <2>2
  <2>5. QED
    <3> HIDE DEF f
    <3> QED
      BY <2>3, <2>4, Route
<1>3. Sums(paid)
  <2> HIDE DEF Sums, f
  <2> QED
    BY <1>2
<1>4. /\ paid[0] = 0 /\ paid[1] = paid[0] + Bought(s, 1) * 519
      /\ paid[2] = paid[1] + Bought(s, 2) * 629 /\ paid[3] = paid[2] + Bought(s, 3) * 615
      /\ paid[4] = paid[3] + Bought(s, 4) * 499 /\ paid[5] = paid[4] + Bought(s, 5) * 609
  <2> HIDE DEF paid
  <2> QED
    BY <1>3, Route
<1>5. QED
  <2> HIDE DEF paid
  <2> QED
    BY <1>1, <1>4, Route

\* What each strategy pays, in tenths of a mile times cents a gallon.
LEMMA Costs ==
  Cost("full") = 2981136 /\ Cost("greedy") = 2927136 /\ Cost("jit") = 3349576
<1>1. \A i \in 1 .. 5 : i = 1 \/ i = 2 \/ i = 3 \/ i = 4 \/ i = 5
  OBVIOUS
<1>2. \A s \in Strategies : \A i \in 1 .. 5 : Bought(s, i) \in Int
  BY <1>1, Purchases DEF Strategies
<1>3. Cost("full") = 2981136
  BY <1>2, Purchases, CostUnfolds DEF Strategies
<1>4. Cost("greedy") = 2927136
  BY <1>2, Purchases, CostUnfolds DEF Strategies
<1>5. Cost("jit") = 3349576
  BY <1>2, Purchases, CostUnfolds DEF Strategies
<1>6. QED
  BY <1>3, <1>4, <1>5

\* A purchase that is not shown is none at all.
LEMMA NoHiddenPurchase ==
  ASSUME NEW s \in Strategies, NEW i \in 1 .. 5, ~ShowsPurchase(s, i)
  PROVE  FuelAfter(s)[i] = FuelOnArrival(s, i)
<1>1. \A n \in Int : n >= 1000 => 20 * n > 68
  OBVIOUS
<1>2. Bought(s, i) = 0 \/ ShowsPurchase(s, i)
  BY <1>1, Purchases, Route DEF Strategies, ShowsPurchase
<1>3. FuelAfter(s)[i] \in Int /\ FuelOnArrival(s, i) \in Int
  BY FullTanks, GreedyTanks, JitTanks DEF Strategies
<1>4. QED
  BY <1>2, <1>3 DEF Bought

\* No tank is ever below the reserve.
LEMMA AboveReserve ==
  ASSUME NEW s \in Strategies
  PROVE  /\ \A i \in 0 .. 5 : FuelAfter(s)[i] >= Reserve
         /\ \A i \in 1 .. 6 : FuelOnArrival(s, i) >= Reserve
         /\ FuelOnArrival(s, 6) = FuelOnArrival("greedy", 6)
<1>1. \A i \in 0 .. 5 : i = 0 \/ i = 1 \/ i = 2 \/ i = 3 \/ i = 4 \/ i = 5
  OBVIOUS
<1>2. \A i \in 1 .. 6 : i = 1 \/ i = 2 \/ i = 3 \/ i = 4 \/ i = 5 \/ i = 6
  OBVIOUS
<1>3. CASE s = "full"
  BY <1>1, <1>2, <1>3, FullTanks, GreedyTanks, Route
<1>4. CASE s = "greedy"
  BY <1>1, <1>2, <1>4, GreedyTanks, Route
<1>5. CASE s = "jit"
  BY <1>1, <1>2, <1>5, JitTanks, GreedyTanks, Route
<1>6. QED
  BY <1>3, <1>4, <1>5 DEF Strategies

-----------------------------------------------------------------------------
(* The page *)

\* Between two steps the trucks and the tanks are already where and as they
\* arrive; once the tanks are being filled, the rest is as the snapshot has it.
UnderWay(i) ==
  /\ truckDist = At[i]
  /\ fuels = [s \in Strategies |-> FuelOnArrival(s, i)]

Marked(i) ==
  /\ \E s \in Strategies : ShowsPurchase(s, i)
  /\ decision = i
  /\ visited = Snapshot(i).visited
  /\ bought = Snapshot(i).bought

DemoInv ==
  /\ idx \in 0 .. 6
  /\ busy \in {"no", "driving", "filling"}
  /\ busy = "no" => Shows(Snapshot(idx))
  /\ busy # "no" => idx + 1 \in 1 .. 6 /\ UnderWay(idx + 1)
  /\ busy = "filling" => Marked(idx + 1)

LEMMA SnapshotAt ==
  ASSUME NEW i \in 0 .. 6
  PROVE  /\ Snapshot(i).truckDist = IF i = 0 THEN 0 ELSE At[i]
         /\ Snapshot(i).fuels = [s \in Strategies |-> IF i = 6 THEN FuelOnArrival(s, i)
                                                      ELSE FuelAfter(s)[i]]
         /\ Snapshot(i).decision = i
         /\ Snapshot(i).visited = {j \in STATIONS : j <= i}
         /\ Snapshot(i).bought = [s \in Strategies |-> BoughtUpTo(s, i)]
BY Route DEF Snapshot

\* The destination marks nothing new: there is no station at it.
LEMMA NothingAtDestination ==
  /\ {j \in STATIONS : j <= 5} = {j \in STATIONS : j <= 6}
  /\ \A s : BoughtUpTo(s, 5) = BoughtUpTo(s, 6)
  /\ \A s : ~ShowsPurchase(s, 6)
<1>1. {j \in STATIONS : j <= 5} = {j \in STATIONS : j <= 6}
  BY Route
<1>2. \A s : BoughtUpTo(s, 5) = BoughtUpTo(s, 6)
  BY Route DEF BoughtUpTo
<1>3. \A s : ~ShowsPurchase(s, 6)
  BY Route DEF ShowsPurchase
<1>4. QED
  BY <1>1, <1>2, <1>3

\* What Arrive marks is what the snapshot has.
LEMMA MarksOfSnapshot ==
  ASSUME NEW i \in 1 .. 6, NEW upto, upto = IF i = Destination THEN i - 1 ELSE i
  PROVE  /\ {j \in STATIONS : j <= upto} = Snapshot(i).visited
         /\ [s \in Strategies |-> BoughtUpTo(s, upto)] = Snapshot(i).bought
<1>1. upto = i \/ (upto = 5 /\ i = 6)
  BY Route
<1>2. CASE upto = i
  BY <1>2, SnapshotAt
<1>3. CASE upto = 5 /\ i = 6
  BY <1>3, SnapshotAt, NothingAtDestination
<1>4. QED
  BY <1>1, <1>2, <1>3

\* A truck that buys nothing worth showing has the fuel the snapshot has.
LEMMA TanksOfSnapshot ==
  ASSUME NEW i \in 1 .. 6
  PROVE  Snapshot(i).fuels
           = [s \in Strategies |-> IF ShowsPurchase(s, i) THEN FuelAfter(s)[i]
                                   ELSE FuelOnArrival(s, i)]
<1>1. CASE i = 6
  BY <1>1, SnapshotAt, NothingAtDestination
<1>2. CASE i \in 1 .. 5
  <2>1. \A s \in Strategies :
          (IF ShowsPurchase(s, i) THEN FuelAfter(s)[i] ELSE FuelOnArrival(s, i))
            = FuelAfter(s)[i]
    BY <1>2, NoHiddenPurchase
  <2>2. Snapshot(i).fuels = [s \in Strategies |-> FuelAfter(s)[i]]
    BY <1>2, SnapshotAt
  <2>3. QED
    BY <2>1, <2>2
<1>3. QED
  BY <1>1, <1>2

LEMMA DemoInvInit == DemoInit => DemoInv
<1> SUFFICES ASSUME DemoInit PROVE DemoInv
  OBVIOUS
<1>1. idx = 0 /\ busy = "no" /\ Shows(Snapshot(0))
  BY DEF DemoInit
<1>2. QED
  BY <1>1 DEF DemoInv

\* Going to a step at once shows its snapshot by definition.
LEMMA JumpKeeps ==
  ASSUME NEW i \in 0 .. 6, busy = "no", JumpTo(i)
  PROVE  DemoInv'
<1>1. idx' = i /\ busy' = "no" /\ Show(Snapshot(i))
  BY DEF JumpTo
<1>2. Shows(Snapshot(idx))'
  BY <1>1 DEF Show, Shows
<1>3. QED
  BY <1>1, <1>2 DEF DemoInv

LEMMA DemoInvStep ==
  ASSUME DemoInv, [DemoNext]_demoVars
  PROVE  DemoInv'
<1>1. ASSUME HandleNext PROVE DemoInv'
  <2>1. busy = "no" /\ idx \in 0 .. 5
    BY <1>1, Route DEF HandleNext, DemoInv
  <2>2. PICK i \in 1 .. 6 : i = idx + 1
    BY <2>1
  <2>3. CASE AnimateTo(i)
    <3>1. /\ busy' = "driving" /\ idx' = idx /\ truckDist' = At[i]
          /\ fuels' = [s \in Strategies |-> FuelOnArrival(s, i)]
      BY <2>3 DEF AnimateTo
    <3>2. UnderWay(idx + 1)'
      BY <2>2, <3>1 DEF UnderWay
    <3>3. QED
      BY <2>1, <2>2, <3>1, <3>2 DEF DemoInv
  <2>4. CASE JumpTo(i)
    BY <2>1, <2>4, JumpKeeps
  <2>5. QED
    BY <1>1, <2>2, <2>3, <2>4 DEF HandleNext
<1>2. ASSUME Arrive PROVE DemoInv'
  <2>1. busy = "driving" /\ idx \in 0 .. 6 /\ idx + 1 \in 1 .. 6 /\ UnderWay(idx + 1)
    BY <1>2 DEF Arrive, DemoInv
  <2>2. PICK i \in 1 .. 6 : i = idx + 1
    BY <2>1
  <2>3. PICK upto : upto = IF i = Destination THEN i - 1 ELSE i
    OBVIOUS
  <2>4. /\ visited' = {j \in STATIONS : j <= upto}
        /\ bought' = [s \in Strategies |-> BoughtUpTo(s, upto)]
        /\ decision' = i
        /\ IF \E s \in Strategies : ShowsPurchase(s, i)
           THEN busy' = "filling" /\ UNCHANGED <<idx, maxIdx>>
           ELSE Revealed(i)
        /\ truckDist' = truckDist /\ fuels' = fuels
    BY <1>2, <2>2, <2>3, Zenon DEF Arrive
  <2>5. visited' = Snapshot(i).visited /\ bought' = Snapshot(i).bought
    BY <2>3, <2>4, MarksOfSnapshot
  <2>6. CASE \E s \in Strategies : ShowsPurchase(s, i)
    <3>1. busy' = "filling" /\ idx' = idx
      BY <2>4, <2>6
    <3>2. Marked(idx + 1)'
      BY <2>2, <2>4, <2>5, <2>6, <3>1 DEF Marked
    <3>3. UnderWay(idx + 1)'
      BY <2>1, <2>4, <3>1 DEF UnderWay
    <3>4. QED
      BY <2>1, <3>1, <3>2, <3>3 DEF DemoInv
  <2>7. CASE ~\E s \in Strategies : ShowsPurchase(s, i)
    <3>1. busy' = "no" /\ idx' = i
      BY <2>4, <2>7 DEF Revealed
    <3>2. fuels' = [s \in Strategies |-> FuelOnArrival(s, i)] /\ truckDist' = At[i]
      BY <2>1, <2>2, <2>4 DEF UnderWay
    <3>3. Snapshot(i).fuels = [s \in Strategies |-> FuelOnArrival(s, i)]
      BY <2>7, TanksOfSnapshot
    <3>4. Snapshot(i).truckDist = At[i] /\ Snapshot(i).decision = i
      BY SnapshotAt
    <3>5. Shows(Snapshot(idx))'
      BY <2>4, <2>5, <3>1, <3>2, <3>3, <3>4 DEF Shows
    <3>6. QED
      BY <3>1, <3>5 DEF DemoInv
  <2>8. QED
    BY <2>6, <2>7
<1>3. ASSUME Fill PROVE DemoInv'
  <2>1. /\ busy = "filling" /\ idx \in 0 .. 6 /\ idx + 1 \in 1 .. 6
        /\ UnderWay(idx + 1) /\ Marked(idx + 1)
    BY <1>3 DEF Fill, DemoInv
  <2>2. PICK i \in 1 .. 6 : i = idx + 1
    BY <2>1
  <2>3. /\ fuels' = [s \in Strategies |-> IF ShowsPurchase(s, i) THEN FuelAfter(s)[i]
                                          ELSE fuels[s]]
        /\ busy' = "no" /\ idx' = i
        /\ truckDist' = truckDist /\ decision' = decision
        /\ visited' = visited /\ bought' = bought
    BY <1>3, <2>2 DEF Fill, Revealed
  <2>4. fuels' = Snapshot(i).fuels
    BY <2>1, <2>2, <2>3, TanksOfSnapshot DEF UnderWay
  <2>5. Snapshot(i).truckDist = At[i] /\ Snapshot(i).decision = i
    BY SnapshotAt
  <2>6. Shows(Snapshot(idx))'
    BY <2>1, <2>2, <2>3, <2>4, <2>5 DEF Shows, UnderWay, Marked
  <2>7. QED
    BY <2>3, <2>6 DEF DemoInv
<1>4. ASSUME HandleBack PROVE DemoInv'
  <2>1. PICK i \in 0 .. 6 : i = idx - 1
    BY <1>4 DEF HandleBack, DemoInv
  <2>2. QED
    BY <1>4, <2>1, JumpKeeps DEF HandleBack
<1>5. ASSUME HandleReplay PROVE DemoInv'
  <2>1. idx' = 0 /\ busy' = "no" /\ Show(Snapshot(0))
    BY <1>5 DEF HandleReplay
  <2>2. Shows(Snapshot(idx))'
    BY <2>1 DEF Show, Shows
  <2>3. QED
    BY <2>1, <2>2 DEF DemoInv
<1>6. ASSUME UNCHANGED demoVars PROVE DemoInv'
  BY <1>6 DEF demoVars, shown, DemoInv, Shows, UnderWay, Marked
<1>7. QED
  BY <1>1, <1>2, <1>3, <1>4, <1>5, <1>6 DEF DemoNext

\* Between, during and after the animations, the page shows of each strategy what
\* its plan says of the step it is at or on the way to (FuelDemo.tsx).
THEOREM DemoInvHolds == DemoSpec => []DemoInv
BY DemoInvInit, DemoInvStep, PTL DEF DemoSpec

\* However a step of the demonstration was reached, by its animation, by going
\* back to it or by a replay, the page shows the same of it (FuelDemo.tsx:
\* animateTo and jumpTo).
THEOREM SameHoweverReached == DemoSpec => []ShownIsSnapshot
<1>1. DemoInv => ShownIsSnapshot
  BY DEF DemoInv, ShownIsSnapshot
<1>2. QED
  BY <1>1, DemoInvHolds, PTL

\* No tank is ever drawn below the reserve; at the end all strategies have the
\* same fuel left, and the greedy one has paid the least (fuelSim.ts, with
\* the stations and prices of the page).
THEOREM FairComparison == DemoSpec => []ComparisonIsFair
<1>1. ASSUME DemoInv PROVE ComparisonIsFair
  <2>1. "greedy" \in Strategies
    BY DEF Strategies
  <2>2. \A s \in Strategies : Cost("greedy") <= Cost(s)
    BY Costs DEF Strategies
  <2>3. CASE busy = "no"
    <3>1. PICK i \in 0 .. 6 : i = idx
      BY <1>1 DEF DemoInv
    <3>2. fuels = [s \in Strategies |-> IF i = 6 THEN FuelOnArrival(s, i)
                                        ELSE FuelAfter(s)[i]]
      BY <1>1, <2>3, <3>1, SnapshotAt DEF DemoInv, Shows
    <3>3. CASE i = 6
      BY <2>1, <2>2, <3>1, <3>2, <3>3, AboveReserve, Route DEF ComparisonIsFair
    <3>4. CASE i \in 0 .. 5
      BY <3>1, <3>2, <3>4, AboveReserve, Route DEF ComparisonIsFair
    <3>5. QED
      BY <3>3, <3>4
  <2>4. CASE busy # "no"
    <3>1. PICK i \in 1 .. 6 : i = idx + 1 /\ fuels = [s \in Strategies |-> FuelOnArrival(s, i)]
      BY <1>1, <2>4 DEF DemoInv, UnderWay
    <3>2. idx # 6
      BY <1>1, <3>1 DEF DemoInv
    <3>3. QED
      BY <3>1, <3>2, AboveReserve, Route DEF ComparisonIsFair
  <2>5. QED
    BY <2>3, <2>4
<1>2. QED
  BY <1>1, DemoInvHolds, PTL
=============================================================================
