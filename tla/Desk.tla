-------------------------------- MODULE Desk ---------------------------------
(* One tab working through the query cache (react-query): a page shows what    *)
(* its queries last brought, a mutation writes at the backend, and when it is  *)
(* acknowledged the queries under the keys it names are read again.  Answers   *)
(* come late and in any order, the user moves on meanwhile, and others write   *)
(* the same things.  The tables of queries and mutations are in DeskOps.       *)
EXTENDS DeskOps, Naturals, FiniteSets, SequencesExt

CONSTANTS
  Scopes,        \* who may be signed in, the pages he moves between, what he does
                 \* there, how much of it at once, and the queries looked at
  MaxEvents,     \* bound: writes at the backend and requests that fail
  Idle, Asked,   \* a query that is not fetched; whose request is on its way
  None

\* UserRole; a superuser may have any role.  No answer is taken for the mark of
\* a request that is not there or not answered.
ASSUME DeskAssumption ==
  /\ Role \in [Users -> {"admin", "dispatcher", "driver"}]
  /\ \A s \in Scopes : s.users \subseteq Users /\ s.queries \subseteq DOMAIN Query
  /\ Idle # Asked
  /\ \A q \in DOMAIN Query : {Idle, Asked} \cap [Query[q].of -> Nat] = {}

VARIABLES
  who, scope,  \* the user and the pages of this run
  page,        \* the page on screen
  dialog,      \* PlanTripDialog is open
  stored,      \* version of each thing at the backend
  seen,        \* what each query has brought, None before it has
  fetch,       \* Idle, Asked, or the answer that is on its way back
  fresh,       \* suspense queries whose data is less than a second old
  failed,      \* queries whose last fetch failed
  calls,       \* mutations under way: 0, or the version the backend has written
  due,         \* for each query, the versions the user has been told of
  events       \* writes and failures so far

cache == <<seen, fetch, fresh, failed>>
vars == <<who, scope, page, dialog, stored, cache, calls, due, events>>

Kept == scope.queries

\* The queries that page p observes when `known` is what has been brought.
Observed(p, open, known) ==
  LET ordered == PageQueries(p)
      brought(i) == \A j \in 1 .. (i - 1) : ordered[j] \in Kept => known[ordered[j]] # None
  IN  (Kept \cap {ordered[i] : i \in {j \in DOMAIN ordered : brought(j)}})
        \cup (Kept \cap SideQueries(p))
        \cup (Kept \cap IF p = "shipment" /\ open THEN {"suggestions"} ELSE {})

Here == Observed(page, dialog, seen)

\* What page p starts to observe: all of its own when it replaces another.  The
\* sidebar stays, but many pages ask for the current user once more.
Started(p, open, known) ==
  LET now == Observed(p, open, known)
  IN  IF p = page THEN now \ Here
      ELSE IF p \in UsesAuth THEN now ELSE now \ {"currentUser"}

\* A render: what it starts to observe is fetched, unless it is fresh or its
\* fetch is under way, which is joined.
Render(p, open, known, fetching, young) ==
  /\ page' = p
  /\ dialog' = open
  /\ seen' = known
  /\ fresh' = young
  /\ fetch' = [q \in Kept |-> IF /\ q \in Started(p, open, known)
                                 /\ fetching[q] = Idle
                                 /\ ~(q \in young)
                              THEN Asked ELSE fetching[q]]

Init ==
  /\ scope \in Scopes
  /\ who \in scope.users
  /\ page \in {p \in scope.pages : Landing(p, who) = p}
  /\ dialog = FALSE
  /\ stored = [t \in Things |-> 0]
  /\ seen = [q \in Kept |-> None]
  /\ fetch = [q \in Kept |-> IF q \in Observed(page, FALSE, seen) THEN Asked ELSE Idle]
  /\ fresh = {}
  /\ failed = {}
  /\ calls = {}
  /\ due = [q \in Kept |-> [t \in Query[q].of |-> 0]]
  /\ events = 0

-----------------------------------------------------------------------------
(* The user. *)

Open(p) ==
  /\ p \in scope.pages \ {page}
  /\ Landing(p, who) = p
  /\ Render(p, FALSE, seen, fetch, fresh)
  /\ UNCHANGED <<who, scope, stored, failed, calls, due, events>>

OpenPlanDialog ==
  /\ page = "shipment"
  /\ "shipment" \in Kept => seen["shipment"] # None
  /\ ~dialog
  /\ Render(page, TRUE, seen, fetch, fresh)
  /\ UNCHANGED <<who, scope, stored, failed, calls, due, events>>

ClosePlanDialog ==
  /\ dialog
  /\ Render(page, FALSE, seen, fetch, fresh)
  /\ UNCHANGED <<who, scope, stored, failed, calls, due, events>>

\* The window gets the focus: what is on screen and stale is fetched.
Refocus ==
  /\ \E q \in Here : fetch[q] = Idle /\ q \notin fresh
  /\ fetch' = [q \in Kept |-> IF q \in Here \ fresh /\ fetch[q] = Idle THEN Asked
                              ELSE fetch[q]]
  /\ UNCHANGED <<who, scope, page, dialog, stored, seen, fresh, failed, calls, due, events>>

\* A mutation has its button where its component is rendered.
Ready(op) ==
  /\ op \notin {"uploadShipment", "addUser", "newVehicle", "userInformation"} =>
       \A q \in Kept \cap {PageQueries(page)[1]} : seen[q] # None
  /\ op = "planTrip" =>
       dialog /\ \A q \in Kept \cap {"suggestions"} : seen[q] # None

\* Its button is disabled while it is pending.
Submit(op) ==
  /\ op \in scope.mutations
  /\ Mutation[op].page = page
  /\ Ready(op)
  /\ Offered(Mutation[op], who)
  /\ op \notin {c.op : c \in calls}
  /\ Cardinality(calls) < scope.atOnce
  /\ calls' = calls \cup {[op |-> op, written |-> 0]}
  /\ UNCHANGED <<who, scope, page, dialog, stored, cache, due, events>>

-----------------------------------------------------------------------------
(* The backend. *)

Write(ts) ==
  /\ events < MaxEvents
  /\ events' = events + 1
  /\ stored' = [t \in Things |-> IF t \in ts THEN stored[t] + 1 ELSE stored[t]]

BackendWrites(c) ==
  /\ c \in calls
  /\ c.written = 0
  /\ Write(Mutation[c.op].writes)
  /\ calls' = (calls \ {c}) \cup {[c EXCEPT !.written = 1]}
  /\ UNCHANGED <<who, scope, page, dialog, cache, due>>

\* Another user, or another tab.
OthersWrite(t) ==
  /\ Write({t})
  /\ UNCHANGED <<who, scope, page, dialog, cache, calls, due>>

BackendReads(q) ==
  /\ fetch[q] = Asked
  /\ fetch' = [fetch EXCEPT ![q] = [t \in Query[q].of |-> stored[t]]]
  /\ UNCHANGED <<who, scope, page, dialog, stored, seen, fresh, failed, calls, due, events>>

-----------------------------------------------------------------------------
(* Answers. *)

FetchAnswers(q) ==
  /\ fetch[q] \notin {Idle, Asked}
  /\ Render(page, dialog, [seen EXCEPT ![q] = fetch[q]], [fetch EXCEPT ![q] = Idle],
            IF Query[q].suspense THEN fresh \cup {q} ELSE fresh)
  /\ failed' = failed \ {q}
  /\ UNCHANGED <<who, scope, stored, calls, due, events>>

\* The data of before stays; its retries are not told apart.
FetchFails(q) ==
  /\ fetch[q] # Idle
  /\ events < MaxEvents
  /\ events' = events + 1
  /\ fetch' = [fetch EXCEPT ![q] = Idle]
  /\ failed' = failed \cup {q}
  /\ UNCHANGED <<who, scope, page, dialog, stored, seen, fresh, calls, due>>

\* A second has passed.
Ages(q) ==
  /\ q \in fresh
  /\ fresh' = fresh \ {q}
  /\ UNCHANGED <<who, scope, page, dialog, stored, seen, fetch, failed, calls, due, events>>

\* invalidateQueries: what is on screen is fetched again and a fetch that would
\* refresh its data is given up; a first fetch is joined.  What is off screen
\* only ceases to be fresh.
Under(keys, q) == \E k \in keys : IsPrefix(k, Query[q].key)
Refetched(keys) ==
  [q \in Kept |-> IF q \in Here /\ Under(keys, q) /\ (seen[q] # None \/ fetch[q] = Idle)
                  THEN Asked ELSE fetch[q]]
NoLongerFresh(keys) == {q \in fresh : ~Under(keys, q)}

\* A query that has to show what the mutation wrote: it is on the screen the
\* mutation was made on, or will be fetched when it gets on a screen, and it
\* joins no request of before the write.
Owes(q, op) ==
  IF q \in Here THEN page = op.page /\ (seen[q] # None \/ fetch[q] = Idle)
  ELSE fetch[q] = Idle

\* Success: the keys are invalidated and the user is taken to the next page,
\* wherever he is by then.
Succeeds(c) ==
  /\ c \in calls
  /\ c.written = 1
  /\ calls' = calls \ {c}
  /\ LET op == Mutation[c.op]
         keys == op.again \cup op.settled
         goes == op.to # op.page
     IN  /\ Render(IF goes THEN op.to ELSE page, dialog /\ ~goes, seen,
                   Refetched(keys), NoLongerFresh(keys))
         /\ due' = [q \in Kept |-> [t \in Query[q].of |->
                      IF t \in op.writes /\ Owes(q, op) THEN stored[t] ELSE due[q][t]]]
  /\ UNCHANGED <<who, scope, stored, failed, events>>

\* An error, or an answer that is lost after the write.
Fails(c) ==
  /\ c \in calls
  /\ events < MaxEvents
  /\ events' = events + 1
  /\ calls' = calls \ {c}
  /\ Render(page, dialog, seen, Refetched(Mutation[c.op].settled), NoLongerFresh(Mutation[c.op].settled))
  /\ UNCHANGED <<who, scope, stored, failed, due>>

-----------------------------------------------------------------------------
Next ==
  \/ \E p \in Layout : Open(p)
  \/ OpenPlanDialog \/ ClosePlanDialog \/ Refocus
  \/ \E op \in DOMAIN Mutation : Submit(op)
  \/ \E c \in calls : BackendWrites(c) \/ Succeeds(c) \/ Fails(c)
  \/ \E t \in UNION {Query[q].of : q \in Kept} : OthersWrite(t)
  \/ \E q \in Kept : BackendReads(q) \/ FetchAnswers(q) \/ FetchFails(q) \/ Ages(q)

Spec == Init /\ [][Next]_vars

-----------------------------------------------------------------------------
(* Properties. *)

\* A query on screen that is quiet shows every write the user was told of.
Shows(q) ==
  q \in Here /\ fetch[q] = Idle /\ q \notin failed /\ seen[q] # None =>
    \A t \in Query[q].of : seen[q][t] >= due[q][t]

\* A page that is quiet shows the user what the application has told him it
\* has done, on that page or before he came to it, whatever was being fetched
\* and written meanwhile: except by a query that could join a request of before
\* the write, and in what the shipment page derives from the load.
ReadYourWrites == \A q \in Kept \ {"validation", "suggestions"} : Shows(q)

\* The same of the validation: "the review screen can show a dispatcher exactly
\* what to fix".
ReviewShowsWhatToFix == "validation" \in Kept => Shows("validation")

\* What a page offers a user, the backend lets that user do: two lists of roles
\* kept in two programs.
OffersArePermitted == \A c \in calls : Permits(Mutation[c.op].request, who)
=============================================================================
