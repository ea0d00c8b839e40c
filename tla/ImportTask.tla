------------------------------ MODULE ImportTask ------------------------------
(***************************************************************************)
(* The background import of fuel prices (fuel/tasks.py, tasks/base.py,     *)
(* fuel/service.py): a Celery task that beat and the async endpoint        *)
(* enqueue, workers that run it under a Postgres advisory lock, and the    *)
(* synchronous endpoints that run the same import without it.              *)
(*                                                                         *)
(* The queue delivers at least once: a message is acknowledged when its    *)
(* task ends, and goes back when its worker process is lost.               *)
(***************************************************************************)
EXTENDS Naturals, FiniteSets

CONSTANTS
  Tasks,       \* task ids
  Workers,     \* worker processes
  Requests,    \* synchronous import requests
  Prices,      \* what the provider can answer
  MaxRetries,  \* max_retries of the task, 3 in the code
  MaxCrashes,  \* bound on lost worker processes
  Orphan,      \* the lock's session of a lost process
  Api,         \* the API process
  None

Importers == Workers \cup Requests

ASSUME ImportTaskAssumption ==
  /\ Workers \cap Requests = {}
  /\ {Orphan, None} \cap Workers = {}
  /\ Api \notin Workers
  /\ MaxRetries \in Nat
  /\ None \notin Tasks \cup Prices

VARIABLES
  configured, \* the provider's credentials are set
  queue,      \* messages, by task and the retries it has behind it
  result,     \* the task's state in the result backend
  run,        \* what each worker process and each request is doing
  lock,       \* who holds the advisory lock
  key,        \* the processes with a value in _mobile_api_key
  clock,      \* the latest time an import has read
  row,        \* a station of the catalogue
  overlapped, \* whether two imports have ever run at the same time: history
  crashes

vars == <<configured, queue, result, run, lock, key, clock, row, overlapped, crashes>>

\* A stored station; fetched, the price that came with the answer of the import
\* the row is stamped with, is history and not in the table.
Row == [price : Prices, at : Nat, fetched : Prices]

WorkerSteps == {"idle", "received", "unlock", "conclude", "ack"}

RequestSteps == {"new", "done"}

Importing == {"authenticate", "fetch", "reauthenticate", "refetch", "read", "write"}

Outcome == {"ok", "skipped", "provider_error", "failed"}

Answered == {"ok", "skipped", "failed"}

Run == [pc      : WorkerSteps \cup RequestSteps \cup Importing,
        task    : Tasks \cup {None},
        retries : 0 .. MaxRetries,
        at      : Nat,                   \* imported_at
        price   : Prices \cup {None},
        seen    : Prices \cup {None},    \* the stored price upsert_many read
        outcome : Outcome]

\* What a process that has not begun anything remembers.
Blank(pc) == [pc |-> pc, task |-> None, retries |-> 0, at |-> 0, price |-> None,
              seen |-> None, outcome |-> "ok"]

Process(p) == IF p \in Workers THEN p ELSE Api

Goto(p, pc) == run' = [run EXCEPT ![p].pc = pc]

\* The with statements unwind: a worker releases the lock before its task ends.
Leave(p) == IF p \in Workers THEN "unlock" ELSE "done"

EndImport(p, outcome) ==
  run' = [run EXCEPT ![p] =
            [Blank(Leave(p)) EXCEPT !.task = run[p].task, !.retries = run[p].retries,
                                    !.outcome = outcome]]

-----------------------------------------------------------------------------
(* The queue *)

Put(t, n) == queue' = [queue EXCEPT ![t][n] = @ + 1]

\* Beat at its hour, or POST .../mobile/async; with the broker down the endpoint
\* answers 503 and changes nothing.
Enqueue(t) ==
  /\ result[t] = "absent"
  /\ result' = [result EXCEPT ![t] = "pending"]
  /\ Put(t, 0)
  /\ UNCHANGED <<configured, run, lock, key, clock, row, overlapped, crashes>>

\* One message at a time: the prefetch multiplier is one, the ack is late.
Receive(w, t, n) ==
  /\ run[w].pc = "idle"
  /\ queue[t][n] > 0
  /\ queue' = [queue EXCEPT ![t][n] = @ - 1]
  /\ result' = [result EXCEPT ![t] = "started"]
  /\ run' = [run EXCEPT ![w] = [Blank("received") EXCEPT !.task = t, !.retries = n]]
  /\ UNCHANGED <<configured, lock, key, clock, row, overlapped, crashes>>

\* A provider's error is retried by a new message, while there are retries left;
\* anything else is the task's result.
Conclude(w) ==
  LET t == run[w].task
      n == run[w].retries
      again == run[w].outcome = "provider_error" /\ n < MaxRetries
  IN  /\ run[w].pc = "conclude"
      /\ IF again THEN Put(t, n + 1) ELSE UNCHANGED queue
      /\ result' = [result EXCEPT ![t] =
                      IF again THEN "retry"
                      ELSE IF run[w].outcome = "provider_error" THEN "failed"
                      ELSE run[w].outcome]
      /\ Goto(w, "ack")
      /\ UNCHANGED <<configured, lock, key, clock, row, overlapped, crashes>>

Ack(w) ==
  /\ run[w].pc = "ack"
  /\ run' = [run EXCEPT ![w] = Blank("idle")]
  /\ UNCHANGED <<configured, queue, result, lock, key, clock, row, overlapped, crashes>>

\* The process is gone: a fresh one takes its place, with no key, while its
\* session may keep the lock until the database notices.
Vanish(w) ==
  /\ run' = [run EXCEPT ![w] = Blank("idle")]
  /\ lock' = IF lock = w THEN Orphan ELSE lock
  /\ key' = key \ {w}

CrashAckedEarly(w) ==
  /\ run[w].pc # "idle"
  /\ crashes < MaxCrashes
  /\ crashes' = crashes + 1
  /\ Vanish(w)
  /\ UNCHANGED <<configured, queue, result, clock, row, overlapped>>

\* task_reject_on_worker_lost: the unacknowledged message is delivered again.
Crash(w) ==
  /\ run[w].pc # "idle"
  /\ crashes < MaxCrashes
  /\ crashes' = crashes + 1
  /\ Vanish(w)
  /\ Put(run[w].task, run[w].retries)
  /\ UNCHANGED <<configured, result, clock, row, overlapped>>

\* task_time_limit: the task has failed, its message is acknowledged and its
\* process killed.  The soft limit before it is one of an import's failures.
TimeLimit(w) ==
  /\ run[w].pc \in Importing \cup {"received", "unlock"}
  /\ result' = [result EXCEPT ![run[w].task] = "failed"]
  /\ Vanish(w)
  /\ UNCHANGED <<configured, queue, clock, row, overlapped, crashes>>

SessionEndsWhenIdle ==
  /\ lock # None
  /\ lock' = None
  /\ UNCHANGED <<configured, queue, result, run, key, clock, row, overlapped, crashes>>

\* The database closes the session of a lost process.
SessionEnds ==
  /\ lock = Orphan
  /\ lock' = None
  /\ UNCHANGED <<configured, queue, result, run, key, clock, row, overlapped, crashes>>

-----------------------------------------------------------------------------
(* The task takes the lock *)

Skip(w) == run' = [run EXCEPT ![w].pc = "conclude", ![w].outcome = "skipped"]

SkipUnconfigured(w) ==
  /\ run[w].pc = "received"
  /\ ~configured
  /\ Skip(w)
  /\ UNCHANGED <<configured, queue, result, lock, key, clock, row, overlapped, crashes>>

SkipRunningRequeued(w) ==
  /\ run[w].pc = "received"
  /\ configured
  /\ lock # None
  /\ Put(run[w].task, run[w].retries)
  /\ run' = [run EXCEPT ![w] = Blank("idle")]
  /\ UNCHANGED <<configured, result, lock, key, clock, row, overlapped, crashes>>

SkipRunning(w) ==
  /\ run[w].pc = "received"
  /\ configured
  /\ lock # None
  /\ Skip(w)
  /\ UNCHANGED <<configured, queue, result, lock, key, clock, row, overlapped, crashes>>

BeginAtLoadTime(p, first) ==
  /\ clock' = clock + 1
  /\ overlapped' = (overlapped \/ \E q \in Importers \ {p} : run[q].pc \in Importing)
  /\ run' = [run EXCEPT ![p].pc = first, ![p].at = 1]

\* import_prices_mobile: the stamp is read before anything is fetched.
Begin(p, first) ==
  /\ clock' = clock + 1
  /\ overlapped' = (overlapped \/ \E q \in Importers \ {p} : run[q].pc \in Importing)
  /\ run' = [run EXCEPT ![p].pc = first, ![p].at = clock + 1]

FirstMobileStep(p) == IF Process(p) \in key THEN "fetch" ELSE "authenticate"

TakeLockUnchecked(w) ==
  /\ run[w].pc = "received"
  /\ configured
  /\ lock' = w
  /\ Begin(w, FirstMobileStep(w))
  /\ UNCHANGED <<configured, queue, result, key, row, crashes>>

TakeLock(w) ==
  /\ run[w].pc = "received"
  /\ configured
  /\ lock = None
  /\ lock' = w
  /\ Begin(w, FirstMobileStep(w))
  /\ UNCHANGED <<configured, queue, result, key, row, crashes>>

Unlock(w) ==
  /\ run[w].pc = "unlock"
  /\ lock' = None
  /\ Goto(w, "conclude")
  /\ UNCHANGED <<configured, queue, result, key, clock, row, overlapped, crashes>>

\* POST /fuel/import/pumpprice/mobile imports at once, in the API process.
RequestMobile(r) ==
  /\ run[r].pc = "new"
  /\ Begin(r, FirstMobileStep(r))
  /\ UNCHANGED <<configured, queue, result, lock, key, row, crashes>>

\* POST /fuel/import/pumpprice carries its own cookie: one request, and a
\* rejection is final.
RequestDesktop(r) ==
  /\ run[r].pc = "new"
  /\ Begin(r, "refetch")
  /\ UNCHANGED <<configured, queue, result, lock, key, row, crashes>>

-----------------------------------------------------------------------------
(* The import *)

Authenticate(p) ==
  /\ run[p].pc \in {"authenticate", "reauthenticate"}
  /\ key' = key \cup {Process(p)}
  /\ Goto(p, IF run[p].pc = "authenticate" THEN "fetch" ELSE "refetch")
  /\ UNCHANGED <<configured, queue, result, lock, clock, row, overlapped, crashes>>

\* The key the process cached has expired: it is replaced, once.
KeyRejected(p) ==
  /\ run[p].pc = "fetch"
  /\ key' = key \ {Process(p)}
  /\ Goto(p, "reauthenticate")
  /\ UNCHANGED <<configured, queue, result, lock, clock, row, overlapped, crashes>>

Fetch(p) ==
  /\ run[p].pc \in {"fetch", "refetch"}
  /\ \E price \in Prices :
       run' = [run EXCEPT ![p].pc = "read", ![p].price = price]
  /\ UNCHANGED <<configured, queue, result, lock, key, clock, row, overlapped, crashes>>

\* Nothing usable in the answer: nothing to write.
FetchNothing(p) ==
  /\ run[p].pc \in {"fetch", "refetch"}
  /\ EndImport(p, "ok")
  /\ UNCHANGED <<configured, queue, result, lock, key, clock, row, overlapped, crashes>>

\* upsert_many reads the stations it is about to change ...
Read(p) ==
  /\ run[p].pc = "read"
  /\ run' = [run EXCEPT ![p].pc = "write",
                        ![p].seen = IF row = None THEN None ELSE row.price]
  /\ UNCHANGED <<configured, queue, result, lock, key, clock, row, overlapped, crashes>>

WriteStampOnly(p) ==
  /\ run[p].pc = "write"
  /\ run[p].seen = None => row = None
  /\ row' = [price   |-> IF run[p].seen # None THEN row.price ELSE run[p].price,
             at      |-> run[p].at,
             fetched |-> run[p].price]
  /\ EndImport(p, "ok")
  /\ UNCHANGED <<configured, queue, result, lock, key, clock, overlapped, crashes>>

\* ... and commits the columns that differ from what it read: a price that looks
\* unchanged is not written.
Write(p) ==
  /\ run[p].pc = "write"
  /\ run[p].seen = None => row = None
  /\ row' = [price   |-> IF row # None /\ run[p].seen = run[p].price
                           THEN row.price ELSE run[p].price,
             at      |-> run[p].at,
             fetched |-> run[p].price]
  /\ EndImport(p, "ok")
  /\ UNCHANGED <<configured, queue, result, lock, key, clock, overlapped, crashes>>

\* Any step may fail: HTTP errors and timeouts, a second rejection, the soft
\* time limit; a write also when another import has inserted the station
\* (uq_fuel_provider_external).  The transaction rolls back.
ImportFails(p) ==
  /\ run[p].pc \in Importing
  /\ \E outcome \in IF run[p].pc \in {"read", "write"}
                      THEN {"failed"} ELSE {"provider_error", "failed"} :
       EndImport(p, outcome)
  /\ UNCHANGED <<configured, queue, result, lock, key, clock, row, overlapped, crashes>>

-----------------------------------------------------------------------------

Init ==
  /\ configured \in BOOLEAN
  /\ queue = [t \in Tasks |-> [n \in 0 .. MaxRetries |-> 0]]
  /\ result = [t \in Tasks |-> "absent"]
  /\ run = [p \in Importers |-> Blank(IF p \in Workers THEN "idle" ELSE "new")]
  /\ lock = None
  /\ key = {}
  /\ clock = 0
  /\ row \in {None} \cup {[price |-> p, at |-> 0, fetched |-> p] : p \in Prices}
  /\ overlapped = FALSE
  /\ crashes = 0

Import(p) ==
  \/ Authenticate(p) \/ KeyRejected(p)
  \/ Fetch(p) \/ FetchNothing(p)
  \/ Read(p) \/ Write(p)
  \/ ImportFails(p)

Work(w) ==
  \/ \E t \in Tasks, n \in 0 .. MaxRetries : Receive(w, t, n)
  \/ SkipUnconfigured(w) \/ SkipRunning(w) \/ TakeLock(w)
  \/ Import(w)
  \/ Unlock(w) \/ Conclude(w) \/ Ack(w)

Request(r) == RequestMobile(r) \/ RequestDesktop(r) \/ Import(r)

Next ==
  \/ \E t \in Tasks : Enqueue(t)
  \/ \E w \in Workers : Work(w) \/ Crash(w) \/ TimeLimit(w)
  \/ \E r \in Requests : Request(r)
  \/ SessionEnds

Spec == Init /\ [][Next]_vars

\* Worker processes keep running; every request they make has a timeout.
FairSpec == Spec /\ \A w \in Workers : WF_vars(Work(w))

-----------------------------------------------------------------------------
(* Properties *)

TypeOK ==
  /\ configured \in BOOLEAN
  /\ queue \in [Tasks -> [0 .. MaxRetries -> Nat]]
  /\ result \in [Tasks -> Answered \cup {"absent", "pending", "started", "retry"}]
  /\ run \in [Importers -> Run]
  /\ \A w \in Workers :
       /\ run[w].pc \in WorkerSteps \cup Importing
       /\ run[w].pc # "idle" => run[w].task \in Tasks
  /\ \A r \in Requests : run[r].pc \in RequestSteps \cup Importing
  /\ \A p \in Importers : run[p].pc \in {"read", "write"} => run[p].price \in Prices
  /\ lock \in Workers \cup {Orphan, None}
  /\ key \subseteq Workers \cup {Api}
  /\ clock \in Nat
  /\ row \in Row \cup {None}
  /\ overlapped \in BOOLEAN
  /\ crashes \in Nat

Locked(w) == run[w].pc \in Importing \cup {"unlock"}

\* advisory_lock: "concurrent runs of the same job ... never overlap", whatever
\* crashes, retries and redeliveries do; a lost process's lock may only be idle.
RunsNeverOverlap ==
  \A v, w \in Workers : Locked(v) /\ Locked(w) => v = w

\* A task that was accepted and has no result yet is in the queue or in the
\* hands of a worker: no crash between an acknowledgement, a result and a
\* retry's message loses it.
AcceptedIsNotLost ==
  \A t \in Tasks :
    result[t] \notin Answered \cup {"absent"} =>
      \/ \E n \in 0 .. MaxRetries : queue[t][n] > 0
      \/ \E w \in Workers : run[w].task = t

\* Imports overlap only once a synchronous one has begun: the task alone, however
\* often it is enqueued, delivered again or retried, never does.
OnlyRequestsOverlap == overlapped => \E r \in Requests : run[r].pc # "new"

\* A stored price came with the import its row is stamped with, unless imports
\* have overlapped.
RowIsOneImport == ~overlapped /\ row # None => row.price = row.fetched

\* The catalogue never goes back to an older import, unless imports have
\* overlapped.
ImportsMoveForward ==
  [][~overlapped /\ row # None /\ row' # row => row'.at > row.at]_vars

\* BACKGROUND_TASKS.md on "already_running": the previous run is still going.
SkippedOnlyWhileRunning ==
  [][\A w \in Workers : SkipRunning(w) => \E v \in Workers : Locked(v)]_vars

\* Everything accepted is answered in the end and the queue drains, with
\* redeliveries and retries bounded.
Settles ==
  <>[](\A t \in Tasks :
         /\ result[t] \in Answered \cup {"absent"}
         /\ \A n \in 0 .. MaxRetries : queue[t][n] = 0)

-----------------------------------------------------------------------------
(* The inductive invariant behind them *)

LockIsHeld == \A w \in Workers : Locked(w) => lock = w

\* A worker that only has to acknowledge no longer counts: what it leaves behind
\* is already in the result or in the queue.
Carried ==
  /\ \A t \in Tasks :
       result[t] \notin Answered \cup {"absent"} =>
         \/ \E n \in 0 .. MaxRetries : queue[t][n] > 0
         \/ \E w \in Workers : run[w].task = t /\ run[w].pc \notin {"idle", "ack"}
  /\ \A w \in Workers : run[w].pc = "idle" => run[w].task = None

\* Until imports overlap there is one at a time, its stamp is later than the
\* row's, and what it read is still there when it writes.
Catalogue ==
  ~overlapped =>
    /\ row # None => row.price = row.fetched /\ row.at <= clock
    /\ \A p \in Importers : run[p].pc \in Importing =>
         /\ \A q \in Importers : run[q].pc \in Importing => p = q
         /\ run[p].at <= clock
         /\ row # None => row.at < run[p].at
         /\ run[p].pc = "write" =>
              run[p].seen = IF row = None THEN None ELSE row.price

ImportInv == LockIsHeld /\ Carried /\ OnlyRequestsOverlap /\ Catalogue
=============================================================================
