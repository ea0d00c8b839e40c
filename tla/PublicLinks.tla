----------------------------- MODULE PublicLinks -----------------------------
(***************************************************************************)
(* What the share endpoint promises the holders of public links: a token   *)
(* opens one trip, the one it was issued for, until it is dead, and a dead *)
(* token never opens anything again.  One trip has at most one live link.  *)
(* Whether a second issue may replace a live link is left open: set_share  *)
(* says it does not, and TripPlans!ReissueKeepsToken shows that it can.    *)
(***************************************************************************)
CONSTANTS Trips, Tokens, Unused, Dead     \* the last two are no trips

VARIABLE opens     \* what a holder of the token gets to see

Init == opens = [k \in Tokens |-> Unused]

\* A fresh token for trip t; a link t still had dies with it.
Issue(k, t) ==
  /\ opens[k] = Unused
  /\ opens' = [j \in Tokens |->
                 IF j = k THEN t ELSE IF opens[j] = t THEN Dead ELSE opens[j]]

\* Revoking, deleting the trip, deleting its vehicle with all its trips.
Kill(gone) ==
  opens' = [j \in Tokens |-> IF opens[j] \in gone THEN Dead ELSE opens[j]]

Next ==
  \/ \E k \in Tokens, t \in Trips : Issue(k, t)
  \/ \E gone \in SUBSET Trips : Kill(gone)

Spec == Init /\ [][Next]_opens
=============================================================================
