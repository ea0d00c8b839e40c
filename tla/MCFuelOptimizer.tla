--------------------------- MODULE MCFuelOptimizer ---------------------------
(* Instances of FuelOptimizer on a short route: layouts of a few stations     *)
(* beside it, and every placing and pricing of stations directly on it, where *)
(* the cheapest plan is known from its definition.  The demonstration of the  *)
(* strategy (FuelDemo) is independent of it; it runs after one kind of plan   *)
(* rather than in every interleaving.                                         *)
EXTENDS FuelPlanCost, FuelDemo, TLC

Direct == [s \in Stations |-> 0]

Beside ==
  [total : {12}, usable : {9}, reserve : {0, 2}, initial : {1, 6, 9},
   least : {0, 4}, most : {2, 9},
   at     : [Stations -> {3, 6, 10}],
   detour : [Stations -> {0, 1}] \ {Direct},
   price  : [Stations -> {1, 3}],
   charge : {[s \in Stations |-> c] : c \in {0, 2}}]

OnRoute ==
  [total : {16}, usable : {10}, reserve : {0, 2}, initial : {4, 10},
   least : {0}, most : {10},
   at     : [Stations -> {2 * m : m \in 1 .. 7}],
   detour : {Direct},
   price  : [Stations -> {1, 2, 3}],
   charge : {Direct}]

MCContexts == Beside \cup OnRoute

DemoShown ==
  /\ pc = "success"
  /\ ctx \in OnRoute
  /\ ctx.price = [s \in Stations |-> 1] /\ ctx.at = [s \in Stations |-> 4 * s]

Optimize == Next /\ UNCHANGED demoVars
Demonstrate == DemoShown /\ DemoNext /\ UNCHANGED vars

MCInit == Init /\ DemoInit
MCSpec == MCInit /\ [][Optimize \/ Demonstrate]_<<vars, demoVars>> /\ WF_vars(Optimize)
=============================================================================
