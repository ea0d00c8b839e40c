----------------------------- MODULE FuelPlanCost -----------------------------
(***************************************************************************)
(* What the cheapest plan of a context costs, computed from its definition *)
(* over every choice of stops and purchases, to compare the strategy of    *)
(* FuelOptimizer with.                                                     *)
(***************************************************************************)
EXTENDS FuelOptimizer, FiniteSetsExt

\* Bound on the costs that are told apart.
NoPlan == 1000000

\* A truck at a place (a station, or None at the origin) with f in the tank
\* buys any amount and drives on, to any station ahead or to the destination,
\* arriving with its reserve.
Places == Stations \cup {None}

Onward(c, p) ==
  {s \in Stations : c.at[s] <= c.total /\ (p = None \/ c.at[p] < c.at[s])}

Leg(c, p, q) ==
  FuelBetween(IF p = None THEN 0 ELSE c.at[p],
              IF q = None THEN c.total ELSE c.at[q],
              IF q = None THEN 0 ELSE c.detour[q])

Amounts(c, p, f, q) ==
  {b \in IF p = None THEN {0} ELSE 0 .. c.usable - f :
     f + b >= Leg(c, p, q) + c.reserve}

Price(c, p) == IF p = None THEN 0 ELSE c.price[p]

\* What the rest of the way can cost, if `best` is its least cost farther on.
Costs(c, best, p, f) ==
  {NoPlan} \cup
  {b * Price(c, p) : b \in Amounts(c, p, f, None)} \cup
  UNION {{b * Price(c, p) + best[s][f + b - Leg(c, p, s)] : b \in Amounts(c, p, f, s)} :
         s \in Onward(c, p)}

LeastCost(c) ==
  LET Best[p \in Places] == [f \in 0 .. c.usable |-> Min(Costs(c, Best, p, f))]
  IN  Best[None][c.initial]

\* Stations are points of the line, each at a place of its own after the
\* origin, without costs of their own.
OnTheLine(c) ==
  /\ \A s \in Stations : c.detour[s] = 0 /\ c.charge[s] = 0 /\ c.at[s] > 0
  /\ \A s, u \in Stations : c.at[s] = c.at[u] => s = u

\* No purchase needs rounding.
NeedsNoRounding(c) ==
  \A x \in {c.total, c.reserve} \cup {c.at[s] : s \in Stations} : x % Quantum = 0

\* FUEL_OPTIMIZATION_ALGORITHM.md, A3: the greedy scheme is optimal when a
\* station is a point on the line without costs of its own, for a truck that
\* sets out with its reserve and may buy what it wants.
OptimalWithoutDetours ==
  /\ pc = "success" /\ cost < NoPlan
  /\ Unlimited
  /\ OnTheLine(ctx) /\ NeedsNoRounding(ctx)
  /\ ctx.initial >= ctx.reserve
  => cost = LeastCost(ctx)
=============================================================================
