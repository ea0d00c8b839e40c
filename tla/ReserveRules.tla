----------------------------- MODULE ReserveRules -----------------------------
(* The reserve the map page proposes for a tank and the range it accepts      *)
(* (frontend/src/lib/fuelOptimizationWalkthrough.ts).  A tank is counted in   *)
(* gallons and a reserve in quarter gallons, so a quarter of any tank is a    *)
(* whole number of units.                                                     *)
EXTENDS Integers

Least(a, b) == IF a <= b THEN a ELSE b
Most(a, b) == IF a >= b THEN a ELSE b

\* Five gallons.
MinDefaultReserve == 20

\* 25% of a tank of `tank` gallons, in quarter gallons.
MaxReserve(tank) == tank

\* Math.round(tank * 0.1) gallons, in quarter gallons.
TenthRounded(tank) == 4 * ((tank + 5) \div 10)

\* 10% of the tank, at least five gallons and at most a quarter of the tank.
GetDefaultReserve(tank) ==
  Least(Most(MinDefaultReserve, TenthRounded(tank)), MaxReserve(tank))

GetReserveLimits(tank) ==
  [min |-> Least(MinDefaultReserve, MaxReserve(tank)), max |-> MaxReserve(tank)]

\* What handleOptimizeFuel lets through.
WithinLimits(reserve, tank) ==
  /\ reserve >= GetReserveLimits(tank).min
  /\ reserve <= GetReserveLimits(tank).max
=============================================================================
