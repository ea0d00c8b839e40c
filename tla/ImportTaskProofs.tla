--------------------------- MODULE ImportTaskProofs ---------------------------
(***************************************************************************)
(* Proofs about ImportTask for every number of tasks, workers, synchronous *)
(* requests, retries and lost processes.                                   *)
(***************************************************************************)
EXTENDS ImportTask, TLAPS

-----------------------------------------------------------------------------
(* Type correctness *)

\* The part of TypeOK about one process.
ProcessOK(p, r) ==
  /\ r \in Run
  /\ p \in Workers =>
       r.pc \in WorkerSteps \cup Importing /\ (r.pc # "idle" => r.task \in Tasks)
  /\ p \in Requests => r.pc \in RequestSteps \cup Importing
  /\ r.pc \in {"read", "write"} => r.price \in Prices

RunsOK == run \in [Importers -> Run] /\ \A p \in Importers : ProcessOK(p, run[p])

\* The rest of it.
TablesOK ==
  /\ configured \in BOOLEAN
  /\ queue \in [Tasks -> [0 .. MaxRetries -> Nat]]
  /\ result \in [Tasks -> Answered \cup {"absent", "pending", "started", "retry"}]
  /\ lock \in Workers \cup {Orphan, None}
  /\ key \subseteq Workers \cup {Api}
  /\ clock \in Nat
  /\ row \in Row \cup {None}
  /\ overlapped \in BOOLEAN
  /\ crashes \in Nat

LEMMA TypeParts ==
  /\ TypeOK <=> RunsOK /\ TablesOK
  /\ TypeOK' <=> RunsOK' /\ TablesOK'
<1>1. TypeOK <=> RunsOK /\ TablesOK
  BY DEF TypeOK, RunsOK, ProcessOK, TablesOK, Importers
<1>2. TypeOK' <=> RunsOK' /\ TablesOK'
  BY DEF TypeOK, RunsOK, ProcessOK, TablesOK, Importers
<1> QED BY <1>1, <1>2

LEMMA StepType ==
  ASSUME RunsOK, NEW p \in Importers, NEW r, ProcessOK(p, r),
         run' = [run EXCEPT ![p] = r]
  PROVE  RunsOK'
BY DEF RunsOK, ProcessOK

LEMMA BlankType ==
  ASSUME NEW pc \in WorkerSteps \cup RequestSteps
  PROVE  /\ Blank(pc) \in Run
         /\ Blank(pc).pc = pc /\ Blank(pc).task = None
         /\ \A t \in Tasks, n \in 0 .. MaxRetries, outcome \in Outcome :
              LET r == [Blank(pc) EXCEPT !.task = t, !.retries = n, !.outcome = outcome]
              IN  r \in Run /\ r.pc = pc /\ r.task = t
<1>1. 0 \in 0 .. MaxRetries
  BY ImportTaskAssumption
<1> QED BY <1>1 DEF Blank, Run, Outcome

\* Every import ends the same way.
LEMMA EndType ==
  ASSUME RunsOK, NEW p \in Importers, run[p].pc \in Importing,
         NEW outcome \in Outcome, EndImport(p, outcome)
  PROVE  /\ RunsOK'
         /\ \A q \in Importers \ {p} : run'[q] = run[q]
         /\ p \in Workers => run'[p].pc = "unlock"
         /\ p \in Requests => run'[p].pc = "done"
         /\ run'[p].task = run[p].task
<1> DEFINE r == [Blank(Leave(p)) EXCEPT !.task = run[p].task, !.retries = run[p].retries,
                                        !.outcome = outcome]
<1>1. run' = [run EXCEPT ![p] = r]
  BY DEF EndImport
<1>2. /\ run[p] \in Run
      /\ p \in Workers => run[p].task \in Tasks
  BY DEF RunsOK, ProcessOK, Importing
<1>3. Leave(p) \in WorkerSteps \cup RequestSteps
  BY DEF Leave, WorkerSteps, RequestSteps
<1>4. r \in Run /\ r.pc = Leave(p) /\ r.task = run[p].task
  <2>1. Blank(Leave(p)) \in Run /\ Blank(Leave(p)).pc = Leave(p)
    BY <1>3, BlankType
  <2>2. run[p].task \in Tasks \cup {None} /\ run[p].retries \in 0 .. MaxRetries
    BY <1>2 DEF Run
  <2> HIDE DEF Blank, Leave
  <2> QED BY <2>1, <2>2 DEF Run
<1>5. (p \in Workers => Leave(p) = "unlock") /\ (p \in Requests => Leave(p) = "done")
  BY ImportTaskAssumption DEF Leave
<1> HIDE DEF r
<1>6. ProcessOK(p, r)
  BY <1>2, <1>4, <1>5 DEF ProcessOK, WorkerSteps, RequestSteps, Importers
<1>7. RunsOK'
  BY <1>1, <1>6, StepType
<1> QED BY <1>1, <1>4, <1>5, <1>7 DEF RunsOK

\* A step inside an import that keeps the process importing.
LEMMA GotoType ==
  ASSUME RunsOK, NEW p \in Importers, run[p].pc \in Importing,
         NEW pc \in Importing \ {"read", "write"}, Goto(p, pc)
  PROVE  RunsOK'
<1> DEFINE r == [run[p] EXCEPT !.pc = pc]
<1>1. run' = [run EXCEPT ![p] = r]
  BY DEF Goto, RunsOK
<1>2. run[p] \in Run /\ (p \in Workers => run[p].task \in Tasks)
  BY DEF RunsOK, ProcessOK, Importing
<1>3. ProcessOK(p, r)
  BY <1>2 DEF ProcessOK, Run, Importing, Importers
<1> HIDE DEF r
<1> QED BY <1>1, <1>3, StepType

\* A worker's step between imports that keeps its task.
LEMMA WorkerGotoType ==
  ASSUME RunsOK, NEW w \in Workers, run[w].pc # "idle",
         NEW pc \in WorkerSteps, NEW outcome \in Outcome,
         run' = [run EXCEPT ![w].pc = pc, ![w].outcome = outcome] \/ Goto(w, pc)
  PROVE  RunsOK' /\ run'[w].pc = pc /\ run'[w].task = run[w].task
<1>1. w \in Importers /\ run[w] \in Run /\ run[w].task \in Tasks
  BY DEF RunsOK, ProcessOK, Importers
<1>2. PICK r : /\ r \in {[run[w] EXCEPT !.pc = pc, !.outcome = outcome],
                         [run[w] EXCEPT !.pc = pc]}
               /\ run' = [run EXCEPT ![w] = r]
  BY <1>1 DEF Goto, RunsOK
<1>3. r \in Run /\ r.pc = pc /\ r.task = run[w].task
  BY <1>1, <1>2 DEF Run
<1>4. ProcessOK(w, r)
  BY <1>1, <1>3, ImportTaskAssumption DEF ProcessOK, WorkerSteps
<1> QED BY <1>1, <1>2, <1>3, <1>4, StepType DEF RunsOK

LEMMA BeginType ==
  ASSUME RunsOK, clock \in Nat, NEW p \in Importers,
         NEW pc \in Importing \ {"read", "write"},
         p \in Workers => run[p].pc # "idle", Begin(p, pc)
  PROVE  /\ RunsOK' /\ clock' \in Nat /\ overlapped' \in BOOLEAN
         /\ run'[p].pc = pc /\ run'[p].at = clock + 1 /\ run'[p].task = run[p].task
<1> DEFINE r == [run[p] EXCEPT !.pc = pc, !.at = clock + 1]
<1>1. run' = [run EXCEPT ![p] = r]
  BY DEF Begin, RunsOK
<1>2. run[p] \in Run /\ (p \in Workers => run[p].task \in Tasks)
  BY DEF RunsOK, ProcessOK
<1>3. r \in Run /\ r.pc = pc /\ r.at = clock + 1 /\ r.task = run[p].task
  <2>1. pc \in Importing /\ clock + 1 \in Nat
    OBVIOUS
  <2> QED BY <1>2, <2>1 DEF Run
<1>4. ProcessOK(p, r)
  BY <1>2, <1>3 DEF ProcessOK, Importing, Importers
<1> HIDE DEF r
<1>5. RunsOK' /\ run'[p] = r
  BY <1>1, <1>4, StepType DEF RunsOK
<1> QED BY <1>3, <1>5 DEF Begin

LEMMA VanishType ==
  ASSUME TypeOK, NEW w \in Workers, Vanish(w)
  PROVE  /\ RunsOK'
         /\ lock' \in Workers \cup {Orphan, None}
         /\ key' \subseteq Workers \cup {Api}
         /\ run'[w].pc = "idle" /\ run'[w].task = None
<1>1. RunsOK /\ w \in Importers
  BY TypeParts DEF Importers
<1>2. Blank("idle") \in Run /\ Blank("idle").pc = "idle" /\ Blank("idle").task = None
  BY BlankType DEF WorkerSteps
<1>3. ProcessOK(w, Blank("idle"))
  BY <1>2, ImportTaskAssumption DEF ProcessOK, WorkerSteps
<1>4. RunsOK' /\ run'[w] = Blank("idle")
  BY <1>1, <1>3, StepType DEF Vanish, RunsOK
<1> QED BY <1>2, <1>4 DEF Vanish, TypeOK

LEMMA PutType ==
  ASSUME TypeOK, NEW t \in Tasks, NEW n \in 0 .. MaxRetries, Put(t, n)
  PROVE  /\ queue' \in [Tasks -> [0 .. MaxRetries -> Nat]]
         /\ queue'[t][n] > 0
         /\ \A u \in Tasks, k \in 0 .. MaxRetries : queue[u][k] > 0 => queue'[u][k] > 0
<1> DEFINE counts == [queue[t] EXCEPT ![n] = queue[t][n] + 1]
<1>1. queue \in [Tasks -> [0 .. MaxRetries -> Nat]]
  BY DEF TypeOK
<1>2. queue[t] \in [0 .. MaxRetries -> Nat] /\ queue[t][n] \in Nat
  BY <1>1
<1>3. queue' = [queue EXCEPT ![t] = counts]
  BY DEF Put
<1>4. /\ counts \in [0 .. MaxRetries -> Nat] /\ counts[n] > 0
      /\ \A k \in 0 .. MaxRetries : queue[t][k] > 0 => counts[k] > 0
  <2> DEFINE box == queue[t]
  <2>1. box \in [0 .. MaxRetries -> Nat] /\ box[n] \in Nat /\ counts = [box EXCEPT ![n] = box[n] + 1]
    BY <1>2
  <2> HIDE DEF box, counts
  <2>2. counts \in [0 .. MaxRetries -> Nat] /\ counts[n] = box[n] + 1
    BY <2>1
  <2>3. \A k \in 0 .. MaxRetries : k = n \/ counts[k] = box[k]
    BY <2>1
  <2> QED BY <2>1, <2>2, <2>3 DEF box
<1> HIDE DEF counts
<1> QED BY <1>1, <1>3, <1>4

LEMMA InitType == Init => TypeOK
<1> SUFFICES ASSUME Init PROVE TypeOK
  OBVIOUS
<1>1. ASSUME NEW p \in Importers PROVE ProcessOK(p, run[p])
  <2> DEFINE pc == IF p \in Workers THEN "idle" ELSE "new"
  <2>1. run[p] = Blank(pc) /\ pc \in WorkerSteps \cup RequestSteps
    BY DEF Init, WorkerSteps, RequestSteps
  <2>2. run[p] \in Run /\ run[p].pc = pc
    BY <2>1, BlankType
  <2> QED BY <2>2, ImportTaskAssumption DEF ProcessOK, WorkerSteps, RequestSteps
<1>2. RunsOK
  BY <1>1 DEF Init, RunsOK, ProcessOK
<1>3. row \in Row \cup {None}
  BY DEF Init, Row
<1> QED BY <1>2, <1>3, ImportTaskAssumption, TypeParts DEF Init, TablesOK

LEMMA ImportType ==
  ASSUME TypeOK, NEW p \in Importers, Import(p)
  PROVE  TypeOK'
<1>0. RunsOK /\ Process(p) \in Workers \cup {Api}
  BY TypeParts DEF Process
<1>1. ASSUME Authenticate(p) PROVE TypeOK'
  <2>1. RunsOK'
    BY <1>0, <1>1, GotoType DEF Authenticate, Importing
  <2> QED BY <1>0, <1>1, <2>1, TypeParts DEF Authenticate, TablesOK
<1>2. ASSUME KeyRejected(p) PROVE TypeOK'
  <2>1. RunsOK'
    BY <1>0, <1>2, GotoType DEF KeyRejected, Importing
  <2> QED BY <1>2, <2>1, TypeParts DEF KeyRejected, TablesOK
<1>3. ASSUME Fetch(p) PROVE TypeOK'
  <2>1. PICK price \in Prices : run' = [run EXCEPT ![p].pc = "read", ![p].price = price]
    BY <1>3 DEF Fetch
  <2> DEFINE r == [run[p] EXCEPT !.pc = "read", !.price = price]
  <2>2. run' = [run EXCEPT ![p] = r]
    BY <1>0, <2>1 DEF RunsOK
  <2>3. run[p] \in Run /\ (p \in Workers => run[p].task \in Tasks)
    BY <1>0, <1>3 DEF RunsOK, ProcessOK, Fetch
  <2>4. ProcessOK(p, r)
    BY <2>3 DEF ProcessOK, Run, Importing, Importers
  <2> HIDE DEF r
  <2>5. RunsOK'
    BY <1>0, <2>2, <2>4, StepType
  <2> QED BY <1>3, <2>5, TypeParts DEF Fetch, TablesOK
<1>4. ASSUME FetchNothing(p) PROVE TypeOK'
  <2>1. RunsOK'
    BY <1>0, <1>4, EndType DEF FetchNothing, Importing, Outcome
  <2> QED BY <1>4, <2>1, TypeParts DEF FetchNothing, TablesOK
<1>5. ASSUME Read(p) PROVE TypeOK'
  <2> DEFINE seen == IF row = None THEN None ELSE row.price
             r == [run[p] EXCEPT !.pc = "write", !.seen = seen]
  <2>1. run' = [run EXCEPT ![p] = r]
    BY <1>0, <1>5 DEF Read, RunsOK
  <2>2. /\ run[p] \in Run /\ (p \in Workers => run[p].task \in Tasks)
        /\ run[p].price \in Prices
    BY <1>0, <1>5 DEF RunsOK, ProcessOK, Read
  <2>3. seen \in Prices \cup {None}
    BY DEF TypeOK, Row
  <2> HIDE DEF seen
  <2>4. ProcessOK(p, r)
    BY <2>2, <2>3 DEF ProcessOK, Run, Importing, Importers
  <2> HIDE DEF r
  <2>5. RunsOK'
    BY <1>0, <2>1, <2>4, StepType
  <2> QED BY <1>5, <2>5, TypeParts DEF Read, TablesOK
<1>6. ASSUME Write(p) PROVE TypeOK'
  <2>1. RunsOK'
    BY <1>0, <1>6, EndType DEF Write, Importing, Outcome
  <2>2. run[p] \in Run /\ run[p].price \in Prices
    BY <1>0, <1>6 DEF Write, RunsOK, ProcessOK
  <2>3. row # None => row.price \in Prices
    BY DEF TypeOK, Row
  <2>4. row' \in Row
    BY <1>6, <2>2, <2>3 DEF Write, Row, Run
  <2> QED BY <1>6, <2>1, <2>4, TypeParts DEF Write, TablesOK
<1>7. ASSUME ImportFails(p) PROVE TypeOK'
  <2>1. RunsOK'
    BY <1>0, <1>7, EndType DEF ImportFails, Outcome
  <2> QED BY <1>7, <2>1, TypeParts DEF ImportFails, TablesOK
<1> QED BY <1>1, <1>2, <1>3, <1>4, <1>5, <1>6, <1>7 DEF Import

LEMMA NextType ==
  ASSUME TypeOK, [Next]_vars
  PROVE  TypeOK'
<1>0. RunsOK /\ TablesOK
  BY TypeParts
<1>1. ASSUME NEW t \in Tasks, Enqueue(t) PROVE TypeOK'
  <2>1. queue' \in [Tasks -> [0 .. MaxRetries -> Nat]]
    BY <1>1, PutType, ImportTaskAssumption DEF Enqueue
  <2>2. RunsOK'
    BY <1>0, <1>1 DEF Enqueue, RunsOK
  <2> QED BY <1>0, <1>1, <2>1, <2>2, TypeParts DEF Enqueue, TablesOK
<1>2. ASSUME NEW w \in Workers, NEW t \in Tasks, NEW n \in 0 .. MaxRetries, Receive(w, t, n)
      PROVE  TypeOK'
  <2>1. queue' \in [Tasks -> [0 .. MaxRetries -> Nat]]
    <3>1. queue[t] \in [0 .. MaxRetries -> Nat] /\ queue[t][n] \in Nat /\ queue[t][n] > 0
      BY <1>0, <1>2 DEF TablesOK, Receive
    <3>2. queue[t][n] - 1 \in Nat
      BY <3>1
    <3> QED BY <1>0, <1>2, <3>1, <3>2 DEF TablesOK, Receive
  <2> DEFINE r == [Blank("received") EXCEPT !.task = t, !.retries = n]
  <2>2. ProcessOK(w, r)
    <3>1. Blank("received") \in Run /\ Blank("received").pc = "received"
      BY BlankType DEF WorkerSteps
    <3>2. r \in Run /\ r.pc = "received" /\ r.task = t
      BY <3>1 DEF Run
    <3> HIDE DEF r
    <3> QED BY <3>2, ImportTaskAssumption DEF ProcessOK, WorkerSteps
  <2> HIDE DEF r
  <2>3. w \in Importers /\ run' = [run EXCEPT ![w] = r]
    BY <1>2 DEF Receive, Importers, r
  <2>4. RunsOK'
    BY <1>0, <2>2, <2>3, StepType
  <2> QED BY <1>0, <1>2, <2>1, <2>4, TypeParts DEF Receive, TablesOK
<1>3. ASSUME NEW w \in Workers, SkipUnconfigured(w) \/ SkipRunning(w) PROVE TypeOK'
  <2>1. RunsOK'
    BY <1>0, <1>3, WorkerGotoType
    DEF SkipUnconfigured, SkipRunning, Skip, WorkerSteps, Outcome
  <2> QED BY <1>0, <1>3, <2>1, TypeParts DEF SkipUnconfigured, SkipRunning, TablesOK
<1>4. ASSUME NEW p \in Importers
      PROVE  FirstMobileStep(p) \in Importing \ {"read", "write"}
  BY DEF FirstMobileStep, Importing
<1>5. ASSUME NEW w \in Workers, TakeLock(w) PROVE TypeOK'
  <2>1. w \in Importers /\ run[w].pc # "idle" /\ clock \in Nat
    BY <1>0, <1>5 DEF TakeLock, Importers, TablesOK
  <2>2. RunsOK' /\ clock' \in Nat /\ overlapped' \in BOOLEAN
    BY <1>0, <1>4, <1>5, <2>1, BeginType DEF TakeLock
  <2> QED BY <1>0, <1>5, <2>2, TypeParts DEF TakeLock, TablesOK
<1>6. ASSUME NEW r \in Requests, RequestMobile(r) \/ RequestDesktop(r) PROVE TypeOK'
  <2>1. r \in Importers /\ r \notin Workers /\ clock \in Nat
    BY <1>0, ImportTaskAssumption DEF Importers, TablesOK
  <2>2. PICK pc \in Importing \ {"read", "write"} : Begin(r, pc)
    BY <1>4, <1>6, <2>1 DEF RequestMobile, RequestDesktop, Importing
  <2>3. RunsOK' /\ clock' \in Nat /\ overlapped' \in BOOLEAN
    BY <1>0, <2>1, <2>2, BeginType
  <2> QED BY <1>0, <1>6, <2>3, TypeParts DEF RequestMobile, RequestDesktop, TablesOK
<1>7. ASSUME NEW p \in Importers, Import(p) PROVE TypeOK'
  BY <1>7, ImportType
<1>8. ASSUME NEW w \in Workers, Unlock(w) PROVE TypeOK'
  <2>1. RunsOK'
    BY <1>0, <1>8, WorkerGotoType DEF Unlock, WorkerSteps, Outcome
  <2> QED BY <1>0, <1>8, <2>1, TypeParts DEF Unlock, TablesOK
<1>9. ASSUME NEW w \in Workers, Conclude(w) PROVE TypeOK'
  <2>1. RunsOK'
    BY <1>0, <1>9, WorkerGotoType DEF Conclude, WorkerSteps, Outcome
  <2>2. /\ run[w].task \in Tasks /\ run[w].retries \in 0 .. MaxRetries
        /\ run[w].outcome \in Outcome
    BY <1>0, <1>9 DEF RunsOK, ProcessOK, Conclude, Run, Importers
  <2>3. queue' \in [Tasks -> [0 .. MaxRetries -> Nat]]
    <3>1. CASE run[w].outcome = "provider_error" /\ run[w].retries < MaxRetries
      <4>1. run[w].retries + 1 \in 0 .. MaxRetries
        BY <2>2, <3>1, ImportTaskAssumption
      <4> QED BY <1>9, <2>2, <3>1, <4>1, PutType DEF Conclude
    <3>2. CASE ~(run[w].outcome = "provider_error" /\ run[w].retries < MaxRetries)
      BY <1>0, <1>9, <3>2 DEF Conclude, TablesOK
    <3> QED BY <3>1, <3>2
  <2>4. result' \in [Tasks -> Answered \cup {"absent", "pending", "started", "retry"}]
    BY <1>0, <1>9, <2>2 DEF Conclude, TablesOK, Answered, Outcome
  <2> QED BY <1>0, <1>9, <2>1, <2>3, <2>4, TypeParts DEF Conclude, TablesOK
<1>10. ASSUME NEW w \in Workers, Ack(w) PROVE TypeOK'
  <2>1. Blank("idle") \in Run /\ Blank("idle").pc = "idle"
    BY BlankType DEF WorkerSteps
  <2>2. w \in Importers /\ ProcessOK(w, Blank("idle"))
    BY <2>1, ImportTaskAssumption DEF ProcessOK, WorkerSteps, Importers
  <2>3. RunsOK'
    BY <1>0, <1>10, <2>2, StepType DEF Ack
  <2> QED BY <1>0, <1>10, <2>3, TypeParts DEF Ack, TablesOK
<1>11. ASSUME NEW w \in Workers, Crash(w) PROVE TypeOK'
  <2>1. /\ RunsOK'
        /\ lock' \in Workers \cup {Orphan, None} /\ key' \subseteq Workers \cup {Api}
    BY <1>11, VanishType DEF Crash
  <2>2. run[w].task \in Tasks /\ run[w].retries \in 0 .. MaxRetries
    BY <1>0, <1>11 DEF RunsOK, ProcessOK, Crash, Run, Importers
  <2>3. queue' \in [Tasks -> [0 .. MaxRetries -> Nat]]
    BY <1>11, <2>2, PutType DEF Crash
  <2> QED BY <1>0, <1>11, <2>1, <2>3, TypeParts DEF Crash, TablesOK
<1>12. ASSUME NEW w \in Workers, TimeLimit(w) PROVE TypeOK'
  <2>1. /\ RunsOK'
        /\ lock' \in Workers \cup {Orphan, None} /\ key' \subseteq Workers \cup {Api}
    BY <1>12, VanishType DEF TimeLimit
  <2>2. result' \in [Tasks -> Answered \cup {"absent", "pending", "started", "retry"}]
    BY <1>0, <1>12 DEF TimeLimit, TablesOK, Answered
  <2> QED BY <1>0, <1>12, <2>1, <2>2, TypeParts DEF TimeLimit, TablesOK
<1>13. ASSUME SessionEnds PROVE TypeOK'
  BY <1>0, <1>13, TypeParts DEF SessionEnds, RunsOK, TablesOK
<1>14. ASSUME UNCHANGED vars PROVE TypeOK'
  BY <1>0, <1>14, TypeParts DEF vars, RunsOK, TablesOK
<1> QED
  BY <1>1, <1>2, <1>3, <1>5, <1>6, <1>7, <1>8, <1>9, <1>10, <1>11, <1>12, <1>13, <1>14
  DEF Next, Work, Request, Importers

\* Every variable keeps its type, and every worker that is busy has a task.
THEOREM TypeCorrect == Spec => []TypeOK
<1>1. TypeOK /\ [Next]_vars => TypeOK'
  BY NextType
<1> QED BY <1>1, InitType, PTL DEF Spec

-----------------------------------------------------------------------------
(* The lock *)

\* What a step of an import leaves alone, and what it does to the one that
\* takes it: it goes on with its stamp, or it leaves.
LEMMA ImportEffect ==
  ASSUME TypeOK, NEW p \in Importers, Import(p)
  PROVE  /\ run[p].pc \in Importing
         /\ UNCHANGED <<queue, result, lock, clock, overlapped>>
         /\ \A q \in Importers \ {p} : run'[q] = run[q]
         /\ run'[p].task = run[p].task
         /\ \/ /\ run'[p].pc \in Importing
               /\ run'[p].at = run[p].at
               /\ row' = row
               /\ run'[p].pc = "write" =>
                    run'[p].seen = IF row = None THEN None ELSE row.price
            \/ /\ run'[p].pc = Leave(p)
               /\ row' = row \/ Write(p)
<1>0. RunsOK /\ run \in [Importers -> Run] /\ run[p] \in Run
  BY TypeParts DEF RunsOK
<1>1. CASE Authenticate(p) \/ KeyRejected(p)
  BY <1>0, <1>1 DEF Authenticate, KeyRejected, Goto, Importing, Run
<1>2. CASE Fetch(p)
  BY <1>0, <1>2 DEF Fetch, Importing, Run
<1>3. CASE Read(p)
  <2> DEFINE seen == IF row = None THEN None ELSE row.price
  <2>1. run' = [run EXCEPT ![p].pc = "write", ![p].seen = seen] /\ run[p].pc = "read"
    BY <1>3 DEF Read
  <2> HIDE DEF seen
  <2>2. /\ run'[p].pc = "write" /\ run'[p].seen = seen
        /\ run'[p].at = run[p].at /\ run'[p].task = run[p].task
        /\ \A q \in Importers \ {p} : run'[q] = run[q]
    BY <1>0, <2>1 DEF Run
  <2> QED BY <1>3, <2>1, <2>2 DEF Read, Importing, seen
<1>4. CASE FetchNothing(p) \/ Write(p) \/ ImportFails(p)
  <2>1. /\ run[p].pc \in Importing
        /\ UNCHANGED <<queue, result, lock, clock, overlapped>>
        /\ row' = row \/ Write(p)
    BY <1>4 DEF FetchNothing, Write, ImportFails, Importing
  <2>2. PICK outcome \in Outcome : EndImport(p, outcome)
    BY <1>4 DEF FetchNothing, Write, ImportFails, Outcome
  <2>3. run'[p].pc = Leave(p)
    BY <1>0, <2>1, <2>2, EndType, ImportTaskAssumption DEF Leave, Importers
  <2> QED BY <1>0, <2>1, <2>2, <2>3, EndType
<1> QED BY <1>1, <1>2, <1>3, <1>4 DEF Import

\* Whatever begins an import changes no other run.
LEMMA BeginEffect ==
  ASSUME TypeOK, NEW p \in Importers, NEW pc, Begin(p, pc)
  PROVE  /\ \A q \in Importers \ {p} : run'[q] = run[q]
         /\ run'[p].pc = pc /\ run'[p].at = clock + 1 /\ run'[p].task = run[p].task
         /\ clock' = clock + 1
         /\ overlapped' <=> overlapped \/ \E q \in Importers \ {p} : run[q].pc \in Importing
<1>1. run \in [Importers -> Run] /\ run[p] \in Run /\ overlapped \in BOOLEAN
  BY TypeParts DEF RunsOK, TablesOK
<1>2. run' = [run EXCEPT ![p].pc = pc, ![p].at = clock + 1]
  BY DEF Begin
<1>3. /\ \A q \in Importers \ {p} : run'[q] = run[q]
      /\ run'[p].pc = pc /\ run'[p].at = clock + 1 /\ run'[p].task = run[p].task
  BY <1>1, <1>2 DEF Run
<1> QED BY <1>1, <1>3 DEF Begin

\* A worker's steps outside an import change no other run, and leave it outside.
LEMMA WorkerEffect ==
  ASSUME TypeOK, NEW w \in Workers,
         \/ \E t \in Tasks, n \in 0 .. MaxRetries : Receive(w, t, n)
         \/ SkipUnconfigured(w) \/ SkipRunning(w)
         \/ Unlock(w) \/ Conclude(w) \/ Ack(w)
         \/ Crash(w) \/ TimeLimit(w)
  PROVE  /\ \A q \in Importers \ {w} : run'[q] = run[q]
         /\ run'[w].pc \in {"idle", "received", "conclude", "ack"}
         /\ UNCHANGED <<clock, row, overlapped>>
<1>0. run \in [Importers -> Run] /\ w \in Importers /\ run[w] \in Run
  BY TypeParts DEF RunsOK, Importers
<1>1. ASSUME NEW t \in Tasks, NEW n \in 0 .. MaxRetries, Receive(w, t, n)
      PROVE  /\ \A q \in Importers \ {w} : run'[q] = run[q]
             /\ run'[w].pc = "received"
  BY <1>0, <1>1 DEF Receive, Blank
<1>2. CASE SkipUnconfigured(w) \/ SkipRunning(w) \/ Unlock(w) \/ Conclude(w)
  <2>1. /\ \A q \in Importers \ {w} : run'[q] = run[q]
        /\ run'[w].pc \in {"conclude", "ack"}
    BY <1>0, <1>2 DEF SkipUnconfigured, SkipRunning, Skip, Unlock, Conclude, Goto, Run
  <2> QED BY <1>2, <2>1 DEF SkipUnconfigured, SkipRunning, Unlock, Conclude
<1>3. CASE Ack(w) \/ Crash(w) \/ TimeLimit(w)
  BY <1>0, <1>3 DEF Ack, Crash, TimeLimit, Vanish, Blank
<1> QED BY <1>1, <1>2, <1>3 DEF Receive

LEMMA LockStep ==
  ASSUME TypeOK, LockIsHeld, [Next]_vars
  PROVE  LockIsHeld'
<1>0. Workers \subseteq Importers /\ None \notin Workers /\ Orphan \notin Workers
  BY ImportTaskAssumption DEF Importers
<1>1. ASSUME NEW t \in Tasks, Enqueue(t) PROVE LockIsHeld'
  BY <1>1 DEF Enqueue, LockIsHeld, Locked
<1>2. ASSUME NEW w \in Workers,
             \/ \E t \in Tasks, n \in 0 .. MaxRetries : Receive(w, t, n)
             \/ SkipUnconfigured(w) \/ SkipRunning(w) \/ Conclude(w) \/ Ack(w)
      PROVE  LockIsHeld'
  <2>1. lock' = lock
    BY <1>2 DEF Receive, SkipUnconfigured, SkipRunning, Conclude, Ack
  <2> QED BY <1>0, <1>2, <2>1, WorkerEffect DEF LockIsHeld, Locked, Importing
<1>3. ASSUME NEW w \in Workers, TakeLock(w) PROVE LockIsHeld'
  <2>1. \A q \in Importers \ {w} : run'[q] = run[q]
    BY <1>0, <1>3, BeginEffect DEF TakeLock
  <2>2. \A v \in Workers : ~Locked(v)
    BY <1>0, <1>3 DEF TakeLock, LockIsHeld
  <2>3. lock' = w
    BY <1>3 DEF TakeLock
  <2> QED BY <1>0, <2>1, <2>2, <2>3 DEF LockIsHeld, Locked
<1>4. ASSUME NEW p \in Importers, Import(p) PROVE LockIsHeld'
  BY <1>0, <1>4, ImportEffect DEF LockIsHeld, Locked
<1>5. ASSUME NEW w \in Workers, Unlock(w) PROVE LockIsHeld'
  <2>1. lock = w
    BY <1>5 DEF Unlock, LockIsHeld, Locked
  <2> QED BY <1>0, <1>5, <2>1, WorkerEffect DEF LockIsHeld, Locked, Importing
<1>6. ASSUME NEW w \in Workers, Crash(w) \/ TimeLimit(w) PROVE LockIsHeld'
  <2>1. lock # w => lock' = lock
    BY <1>6 DEF Crash, TimeLimit, Vanish
  <2>2. run'[w].pc = "idle"
    BY <1>6, VanishType DEF Crash, TimeLimit
  <2> QED BY <1>0, <1>6, <2>1, <2>2, WorkerEffect DEF LockIsHeld, Locked, Importing
<1>7. ASSUME SessionEnds PROVE LockIsHeld'
  BY <1>0, <1>7 DEF SessionEnds, LockIsHeld, Locked
<1>8. ASSUME NEW r \in Requests, RequestMobile(r) \/ RequestDesktop(r) PROVE LockIsHeld'
  <2>1. r \in Importers /\ r \notin Workers
    BY ImportTaskAssumption DEF Importers
  <2>2. PICK pc : Begin(r, pc)
    BY <1>8 DEF RequestMobile, RequestDesktop
  <2>3. lock' = lock /\ \A q \in Importers \ {r} : run'[q] = run[q]
    BY <1>8, <2>1, <2>2, BeginEffect DEF RequestMobile, RequestDesktop
  <2> QED BY <1>0, <2>1, <2>3 DEF LockIsHeld, Locked
<1>9. ASSUME UNCHANGED vars PROVE LockIsHeld'
  BY <1>9 DEF vars, LockIsHeld, Locked
<1> QED
  BY <1>1, <1>2, <1>3, <1>4, <1>5, <1>6, <1>7, <1>8, <1>9
  DEF Next, Work, Request, Importers

LEMMA OverlapStep ==
  ASSUME TypeOK, LockIsHeld, OnlyRequestsOverlap, [Next]_vars
  PROVE  OnlyRequestsOverlap'
<1>0. /\ Workers \subseteq Importers /\ Requests \subseteq Importers
      /\ Workers \cap Requests = {} /\ None \notin Workers
  BY ImportTaskAssumption DEF Importers
<1>1. ASSUME overlapped' <=> overlapped,
             \A r \in Requests : run'[r] = run[r] \/ run'[r].pc # "new"
      PROVE  OnlyRequestsOverlap'
  BY <1>1 DEF OnlyRequestsOverlap
<1>2. ASSUME NEW t \in Tasks, Enqueue(t) PROVE OnlyRequestsOverlap'
  BY <1>1, <1>2 DEF Enqueue
<1>3. ASSUME NEW w \in Workers,
             \/ \E t \in Tasks, n \in 0 .. MaxRetries : Receive(w, t, n)
             \/ SkipUnconfigured(w) \/ SkipRunning(w)
             \/ Unlock(w) \/ Conclude(w) \/ Ack(w)
             \/ Crash(w) \/ TimeLimit(w)
      PROVE  OnlyRequestsOverlap'
  BY <1>0, <1>1, <1>3, WorkerEffect
<1>4. ASSUME NEW w \in Workers, TakeLock(w) PROVE OnlyRequestsOverlap'
  <2>1. /\ \A q \in Importers \ {w} : run'[q] = run[q]
        /\ overlapped' <=> overlapped \/ \E q \in Importers \ {w} : run[q].pc \in Importing
    BY <1>0, <1>4, BeginEffect DEF TakeLock
  <2>2. \A v \in Workers : run[v].pc \notin Importing
    BY <1>0, <1>4 DEF TakeLock, LockIsHeld, Locked
  <2>3. ASSUME NEW q \in Importers, run[q].pc \in Importing
        PROVE  q \in Requests /\ run[q].pc # "new"
    BY <2>2, <2>3 DEF Importers, Importing
  <2> QED BY <1>0, <2>1, <2>3 DEF OnlyRequestsOverlap
<1>5. ASSUME NEW p \in Importers, Import(p) PROVE OnlyRequestsOverlap'
  <2>1. Leave(p) # "new" /\ "new" \notin Importing
    BY DEF Leave, Importing
  <2> QED BY <1>0, <1>1, <1>5, <2>1, ImportEffect
<1>6. ASSUME SessionEnds PROVE OnlyRequestsOverlap'
  BY <1>1, <1>6 DEF SessionEnds
<1>7. ASSUME NEW r \in Requests, RequestMobile(r) \/ RequestDesktop(r)
      PROVE  OnlyRequestsOverlap'
  <2>1. PICK pc \in Importing : Begin(r, pc)
    BY <1>7 DEF RequestMobile, RequestDesktop, FirstMobileStep, Importing
  <2>2. run'[r].pc # "new"
    BY <1>0, <2>1, BeginEffect DEF Importing
  <2> QED BY <2>2 DEF OnlyRequestsOverlap
<1>8. ASSUME UNCHANGED vars PROVE OnlyRequestsOverlap'
  BY <1>1, <1>8 DEF vars
<1> QED
  BY <1>2, <1>3, <1>4, <1>5, <1>6, <1>7, <1>8
  DEF Next, Work, Request, Importers

-----------------------------------------------------------------------------
(* The catalogue *)

\* What Catalogue says of one importing process.
OnlyOne(p) ==
  /\ \A q \in Importers : run[q].pc \in Importing => p = q
  /\ run[p].at <= clock
  /\ row # None => row.at < run[p].at
  /\ run[p].pc = "write" => run[p].seen = IF row = None THEN None ELSE row.price

\* Steps that begin and continue no import cannot disturb it.
LEMMA QuietCatalogue ==
  ASSUME Catalogue, UNCHANGED <<clock, row>>, overlapped' <=> overlapped,
         \A q \in Importers : run'[q].pc \in Importing => run'[q] = run[q]
  PROVE  Catalogue'
<1> SUFFICES ASSUME ~overlapped' PROVE Catalogue'
  BY DEF Catalogue
<1>1. row # None => row.price = row.fetched /\ row.at <= clock
  BY DEF Catalogue
<1>2. ASSUME NEW p \in Importers, run'[p].pc \in Importing PROVE OnlyOne(p)'
  BY <1>2 DEF Catalogue, OnlyOne
<1> QED BY <1>1, <1>2 DEF Catalogue, OnlyOne

\* An import that begins alone has a stamp later than every earlier one.
LEMMA BeginCatalogue ==
  ASSUME TypeOK, Catalogue, NEW p \in Importers, NEW pc \in Importing \ {"write"},
         Begin(p, pc), UNCHANGED row
  PROVE  Catalogue'
<1> SUFFICES ASSUME ~overlapped' PROVE Catalogue'
  BY DEF Catalogue
<1>1. /\ \A q \in Importers \ {p} : run'[q] = run[q] /\ run[q].pc \notin Importing
      /\ run'[p].pc = pc /\ run'[p].at = clock + 1 /\ clock' = clock + 1
      /\ ~overlapped
  BY BeginEffect
<1>2. clock \in Nat /\ (row # None => row.at \in Nat)
  BY DEF TypeOK, Row
<1>3. row # None => row.price = row.fetched /\ row.at <= clock
  BY <1>1 DEF Catalogue
<1>4. row' # None => row'.price = row'.fetched /\ row'.at <= clock'
  BY <1>1, <1>2, <1>3
<1>5. ASSUME NEW q \in Importers, run'[q].pc \in Importing PROVE OnlyOne(q)'
  <2>1. q = p
    BY <1>1, <1>5
  <2> QED BY <1>1, <1>2, <1>3, <2>1 DEF OnlyOne
<1> QED BY <1>4, <1>5 DEF Catalogue, OnlyOne

\* The step of an import that is alone keeps its stamp and what it read, and its
\* write leaves a row of that one import.
LEMMA ImportCatalogue ==
  ASSUME TypeOK, Catalogue, NEW p \in Importers, Import(p)
  PROVE  Catalogue'
<1> SUFFICES ASSUME ~overlapped' PROVE Catalogue'
  BY DEF Catalogue
<1>1. /\ run[p].pc \in Importing /\ ~overlapped
      /\ UNCHANGED <<clock, overlapped>>
      /\ \A q \in Importers \ {p} : run'[q] = run[q]
  BY ImportEffect
<1>2. OnlyOne(p) /\ \A q \in Importers \ {p} : run'[q].pc \notin Importing
  BY <1>1 DEF Catalogue, OnlyOne
<1>3. row # None => row.price = row.fetched /\ row.at <= clock
  BY <1>1 DEF Catalogue
<1>4. CASE run'[p].pc \in Importing
  <2>1. Leave(p) \notin Importing
    BY DEF Leave, Importing
  <2>2. /\ run'[p].at = run[p].at /\ row' = row
        /\ run'[p].pc = "write" =>
             run'[p].seen = IF row = None THEN None ELSE row.price
    BY <1>4, <2>1, ImportEffect
  <2>3. OnlyOne(p)'
    BY <1>1, <1>2, <2>2 DEF OnlyOne
  <2> QED BY <1>1, <1>2, <1>3, <2>2, <2>3 DEF Catalogue, OnlyOne
<1>5. CASE run'[p].pc \notin Importing
  <2>1. row' # None => row'.price = row'.fetched /\ row'.at <= clock
    <3>1. CASE row' = row
      BY <1>3, <3>1
    <3>2. CASE Write(p)
      <4>1. /\ row'.at = run[p].at /\ row'.fetched = run[p].price
            /\ row'.price = IF row # None /\ run[p].seen = run[p].price
                              THEN row.price ELSE run[p].price
            /\ run[p].pc = "write"
        BY <3>2 DEF Write
      <4> QED BY <1>2, <4>1 DEF OnlyOne
    <3> QED BY <1>5, <3>1, <3>2, ImportEffect
  <2> QED BY <1>1, <1>2, <1>5, <2>1 DEF Catalogue
<1> QED BY <1>4, <1>5

LEMMA CatalogueStep ==
  ASSUME TypeOK, Catalogue, [Next]_vars
  PROVE  Catalogue'
<1>0. Workers \subseteq Importers /\ Requests \subseteq Importers
  BY DEF Importers
<1>1. ASSUME NEW t \in Tasks, Enqueue(t) PROVE Catalogue'
  BY <1>1, QuietCatalogue DEF Enqueue
<1>2. ASSUME NEW w \in Workers,
             \/ \E t \in Tasks, n \in 0 .. MaxRetries : Receive(w, t, n)
             \/ SkipUnconfigured(w) \/ SkipRunning(w)
             \/ Unlock(w) \/ Conclude(w) \/ Ack(w)
             \/ Crash(w) \/ TimeLimit(w)
      PROVE  Catalogue'
  BY <1>0, <1>2, WorkerEffect, QuietCatalogue DEF Importing
<1>3. ASSUME NEW p \in Importers
      PROVE  FirstMobileStep(p) \in Importing \ {"write"}
  BY DEF FirstMobileStep, Importing
<1>4. ASSUME NEW w \in Workers, TakeLock(w) PROVE Catalogue'
  BY <1>0, <1>3, <1>4, BeginCatalogue DEF TakeLock
<1>5. ASSUME NEW p \in Importers, Import(p) PROVE Catalogue'
  BY <1>5, ImportCatalogue
<1>6. ASSUME SessionEnds PROVE Catalogue'
  BY <1>6, QuietCatalogue DEF SessionEnds
<1>7. ASSUME NEW r \in Requests, RequestMobile(r) \/ RequestDesktop(r) PROVE Catalogue'
  <2>1. PICK pc \in Importing \ {"write"} : Begin(r, pc) /\ row' = row
    BY <1>0, <1>3, <1>7 DEF RequestMobile, RequestDesktop, Importing
  <2> QED BY <1>0, <2>1, BeginCatalogue
<1>8. ASSUME UNCHANGED vars PROVE Catalogue'
  BY <1>8, QuietCatalogue DEF vars
<1> QED
  BY <1>1, <1>2, <1>4, <1>5, <1>6, <1>7, <1>8
  DEF Next, Work, Request, Importers

-----------------------------------------------------------------------------
(* Accepted tasks *)

Open(t) == result[t] \notin Answered \cup {"absent"}

Queued(t) == \E n \in 0 .. MaxRetries : queue[t][n] > 0

Busy(w) == run[w].pc \notin {"idle", "ack"}

\* A step that answers or requeues what worker w lets go of, and takes nothing
\* else from the queue or from the others, loses no task.
LEMMA KeepCarried ==
  ASSUME TypeOK, Carried, NEW w \in Workers,
         \A v \in Workers \ {w} : run'[v] = run[v],
         run'[w].pc = "idle" => run'[w].task = None,
         \A t \in Tasks : Open(t)' =>
           \/ Queued(t)'
           \/ run'[w].task = t /\ Busy(w)'
           \/ /\ Open(t)
              /\ Queued(t) => Queued(t)'
              /\ run[w].task = t /\ Busy(w) => FALSE
  PROVE  Carried'
<1>1. \A t \in Tasks : Open(t)' =>
        Queued(t)' \/ \E v \in Workers : run'[v].task = t /\ Busy(v)'
  <2> SUFFICES ASSUME NEW t \in Tasks, Open(t)', ~Queued(t)',
                      ~(run'[w].task = t /\ Busy(w)')
               PROVE  \E v \in Workers : run'[v].task = t /\ Busy(v)'
    OBVIOUS
  <2>1. PICK v \in Workers : run[v].task = t /\ Busy(v)
    BY DEF Carried, Open, Queued, Busy
  <2> QED BY <2>1 DEF Busy
<1> QED BY <1>1 DEF Carried, Open, Queued, Busy

\* A step after which every worker still has what it had loses none either.
LEMMA QuietCarried ==
  ASSUME Carried, UNCHANGED <<queue, result>>,
         \A v \in Workers :
           run'[v] = run[v] \/ (run'[v].task = run[v].task /\ Busy(v)')
  PROVE  Carried'
<1>1. \A t \in Tasks : Open(t)' =>
        Queued(t)' \/ \E v \in Workers : run'[v].task = t /\ Busy(v)'
  BY DEF Carried, Open, Queued, Busy
<1> QED BY <1>1 DEF Carried, Open, Queued, Busy

LEMMA CarriedStep ==
  ASSUME TypeOK, Carried, [Next]_vars
  PROVE  Carried'
<1>0. /\ Workers \subseteq Importers /\ 0 \in 0 .. MaxRetries
      /\ RunsOK /\ run \in [Importers -> Run]
      /\ result \in [Tasks -> Answered \cup {"absent", "pending", "started", "retry"}]
      /\ queue \in [Tasks -> [0 .. MaxRetries -> Nat]]
  BY TypeParts, ImportTaskAssumption DEF Importers, RunsOK, TablesOK
<1>1. ASSUME NEW t \in Tasks, Enqueue(t) PROVE Carried'
  <2>1. queue'[t][0] > 0 /\ \A u \in Tasks : Queued(u) => Queued(u)'
    BY <1>0, <1>1, PutType DEF Enqueue, Queued
  <2>2. \A u \in Tasks \ {t} : result'[u] = result[u]
    BY <1>0, <1>1 DEF Enqueue
  <2>3. run' = run
    BY <1>1 DEF Enqueue
  <2>4. Queued(t)'
    BY <1>0, <2>1 DEF Queued
  <2>5. \A u \in Tasks : Open(u)' =>
          Queued(u)' \/ \E v \in Workers : run'[v].task = u /\ Busy(v)'
    BY <2>1, <2>2, <2>3, <2>4 DEF Carried, Open, Queued, Busy
  <2> QED BY <2>3, <2>5 DEF Carried, Open, Queued, Busy
<1>2. ASSUME NEW w \in Workers, NEW t \in Tasks, NEW n \in 0 .. MaxRetries, Receive(w, t, n)
      PROVE  Carried'
  <2>1. run'[w].pc = "received" /\ run'[w].task = t /\ run[w].pc = "idle"
    <3>1. Blank("received") \in Run /\ Blank("received").pc = "received"
      BY BlankType DEF WorkerSteps
    <3> QED BY <1>0, <1>2, <3>1 DEF Receive, Run
  <2>2. \A u \in Tasks \ {t} : queue'[u] = queue[u] /\ result'[u] = result[u]
    BY <1>0, <1>2 DEF Receive
  <2>3. Busy(w)' /\ ~Busy(w)
    BY <2>1 DEF Busy
  <2>4. \A v \in Workers \ {w} : run'[v] = run[v]
    BY <1>0, <1>2, WorkerEffect
  <2>5. \A u \in Tasks \ {t} : (Open(u)' => Open(u)) /\ (Queued(u) => Queued(u)')
    BY <2>2 DEF Open, Queued
  <2> QED BY <2>1, <2>3, <2>4, <2>5, KeepCarried
<1>3. ASSUME NEW w \in Workers, SkipUnconfigured(w) \/ SkipRunning(w) \/ Unlock(w)
      PROVE  Carried'
  <2>1. UNCHANGED <<queue, result>>
    BY <1>3 DEF SkipUnconfigured, SkipRunning, Unlock
  <2>2. run[w].pc # "idle"
    BY <1>3 DEF SkipUnconfigured, SkipRunning, Unlock
  <2>3. run'[w].pc = "conclude" /\ run'[w].task = run[w].task
    BY <1>0, <1>3, <2>2, WorkerGotoType
    DEF SkipUnconfigured, SkipRunning, Unlock, Skip, WorkerSteps, Outcome
  <2>4. \A v \in Workers \ {w} : run'[v] = run[v]
    BY <1>0, <1>3, WorkerEffect
  <2> QED BY <2>1, <2>3, <2>4, QuietCarried DEF Busy
<1>4. ASSUME NEW w \in Workers, TakeLock(w) PROVE Carried'
  <2>1. /\ \A v \in Workers \ {w} : run'[v] = run[v]
        /\ run'[w].pc = FirstMobileStep(w) /\ run'[w].task = run[w].task
    BY <1>0, <1>4, BeginEffect DEF TakeLock
  <2> QED BY <1>4, <2>1, QuietCarried DEF TakeLock, Busy, FirstMobileStep
<1>5. ASSUME NEW p \in Importers, Import(p) PROVE Carried'
  <2>1. /\ UNCHANGED <<queue, result>>
        /\ \A q \in Importers \ {p} : run'[q] = run[q]
        /\ run'[p].task = run[p].task
        /\ run'[p].pc \in Importing \/ run'[p].pc = Leave(p)
    BY <1>5, ImportEffect
  <2>2. p \in Workers => Busy(p)'
    BY <2>1 DEF Busy, Importing, Leave
  <2> QED BY <1>0, <2>1, <2>2, QuietCarried
<1>6. ASSUME NEW w \in Workers, Conclude(w) PROVE Carried'
  <2> DEFINE again == run[w].outcome = "provider_error" /\ run[w].retries < MaxRetries
  <2>0. PICK t \in Tasks : t = run[w].task
    BY <1>0, <1>6 DEF RunsOK, ProcessOK, Conclude
  <2>1. /\ run[w].retries \in 0 .. MaxRetries
        /\ run[w].outcome \in Outcome /\ run[w].pc = "conclude"
    BY <1>0, <1>6 DEF RunsOK, ProcessOK, Conclude, Run, Importers
  <2>2. \A v \in Workers \ {w} : run'[v] = run[v]
    BY <1>0, <1>6, WorkerEffect
  <2>3. run'[w].pc = "ack"
    BY <1>0, <1>6, <2>1, WorkerGotoType DEF Conclude, WorkerSteps, Outcome
  <2>4. \A u \in Tasks \ {t} : result'[u] = result[u]
    BY <1>0, <1>6, <2>0 DEF Conclude
  <2>5. CASE again
    <3>1. run[w].retries + 1 \in 0 .. MaxRetries
      BY <2>1, <2>5, ImportTaskAssumption
    <3>2. Put(t, run[w].retries + 1)
      BY <1>6, <2>0, <2>5 DEF Conclude
    <3>3. Queued(t)' /\ \A u \in Tasks : Queued(u) => Queued(u)'
      BY <2>1, <3>1, <3>2, PutType DEF Queued
    <3>4. \A u \in Tasks \ {t} : Open(u)' => Open(u)
      BY <2>4 DEF Open
    <3> QED BY <2>0, <2>2, <2>3, <3>3, <3>4, KeepCarried
  <2>6. CASE ~again
    <3>1. result'[t] \in Answered
      BY <1>0, <1>6, <2>0, <2>1, <2>6 DEF Conclude, Outcome, Answered
    <3>2. queue' = queue
      BY <1>6, <2>6 DEF Conclude
    <3>3. ~Open(t)' /\ \A u \in Tasks \ {t} : Open(u)' => Open(u)
      BY <2>4, <3>1 DEF Open
    <3>4. \A u \in Tasks : Queued(u) => Queued(u)'
      BY <3>2 DEF Queued
    <3> QED BY <2>0, <2>2, <2>3, <3>3, <3>4, KeepCarried
  <2> QED BY <2>5, <2>6
<1>7. ASSUME NEW w \in Workers, Ack(w) PROVE Carried'
  <2>1. run'[w].pc = "idle" /\ run'[w].task = None /\ run[w].pc = "ack"
    <3>1. Blank("idle").pc = "idle" /\ Blank("idle").task = None
      BY BlankType DEF WorkerSteps
    <3> QED BY <1>0, <1>7, <3>1 DEF Ack
  <2>2. \A v \in Workers \ {w} : run'[v] = run[v]
    BY <1>0, <1>7, WorkerEffect
  <2>3. \A u \in Tasks : (Open(u)' <=> Open(u)) /\ (Queued(u)' <=> Queued(u))
    BY <1>7 DEF Ack, Open, Queued
  <2> QED BY <2>1, <2>2, <2>3, KeepCarried DEF Busy
<1>8. ASSUME NEW w \in Workers, Crash(w) PROVE Carried'
  <2>0. PICK t \in Tasks : t = run[w].task
    BY <1>0, <1>8 DEF RunsOK, ProcessOK, Crash
  <2>1. run[w].retries \in 0 .. MaxRetries
    BY <1>0, <1>8 DEF RunsOK, ProcessOK, Crash, Run, Importers
  <2>2. /\ \A v \in Workers \ {w} : run'[v] = run[v]
        /\ run'[w].pc = "idle" /\ run'[w].task = None
    BY <1>0, <1>8, WorkerEffect, VanishType DEF Crash
  <2>3. Queued(t)' /\ \A u \in Tasks : Queued(u) => Queued(u)'
    BY <1>8, <2>0, <2>1, PutType DEF Crash, Queued
  <2>4. \A u \in Tasks : Open(u)' <=> Open(u)
    BY <1>8 DEF Crash, Open
  <2> QED BY <2>0, <2>2, <2>3, <2>4, KeepCarried
<1>9. ASSUME NEW w \in Workers, TimeLimit(w) PROVE Carried'
  <2>1. PICK t \in Tasks : t = run[w].task
    BY <1>0, <1>9 DEF RunsOK, ProcessOK, TimeLimit, Importing
  <2>2. /\ \A v \in Workers \ {w} : run'[v] = run[v]
        /\ run'[w].pc = "idle" /\ run'[w].task = None
    BY <1>0, <1>9, WorkerEffect, VanishType DEF TimeLimit
  <2>3. ~Open(t)' /\ \A u \in Tasks \ {t} : Open(u)' => Open(u)
    BY <1>0, <1>9, <2>1 DEF TimeLimit, Open, Answered
  <2>4. \A u \in Tasks : Queued(u) => Queued(u)'
    BY <1>9 DEF TimeLimit, Queued
  <2> QED BY <2>1, <2>2, <2>3, <2>4, KeepCarried
<1>10. ASSUME SessionEnds PROVE Carried'
  BY <1>10, QuietCarried DEF SessionEnds
<1>11. ASSUME NEW r \in Requests, RequestMobile(r) \/ RequestDesktop(r) PROVE Carried'
  <2>1. r \in Importers /\ r \notin Workers
    BY ImportTaskAssumption DEF Importers
  <2>2. PICK pc : Begin(r, pc)
    BY <1>11 DEF RequestMobile, RequestDesktop
  <2>3. \A v \in Workers : run'[v] = run[v]
    BY <1>0, <2>1, <2>2, BeginEffect
  <2> QED BY <1>11, <2>3, QuietCarried DEF RequestMobile, RequestDesktop
<1>12. ASSUME UNCHANGED vars PROVE Carried'
  BY <1>12, QuietCarried DEF vars
<1> QED
  BY <1>1, <1>2, <1>3, <1>4, <1>5, <1>6, <1>7, <1>8, <1>9, <1>10, <1>11, <1>12
  DEF Next, Work, Request, Importers

-----------------------------------------------------------------------------
(* The theorems *)

LEMMA InitInv == Init => ImportInv
<1> SUFFICES ASSUME Init PROVE ImportInv
  OBVIOUS
<1>1. \A p \in Importers :
        /\ run[p].pc = IF p \in Workers THEN "idle" ELSE "new"
        /\ run[p].task = None
  BY DEF Init, Blank
<1>2. LockIsHeld
  BY <1>1 DEF LockIsHeld, Locked, Importing, Importers
<1>3. Carried
  BY <1>1 DEF Init, Carried, Importers
<1>4. OnlyRequestsOverlap
  BY DEF Init, OnlyRequestsOverlap
<1>5. Catalogue
  <2>1. \A p \in Importers : run[p].pc \notin Importing
    BY <1>1 DEF Importing
  <2>2. row # None => row.price = row.fetched /\ row.at <= clock
    BY DEF Init
  <2> QED BY <2>1, <2>2 DEF Catalogue
<1> QED BY <1>2, <1>3, <1>4, <1>5 DEF ImportInv

\* The inductive invariant: the lock's holder is the worker that is locked, what
\* is open is carried, and a lone import's stamp is the latest.
THEOREM ImportInvariant == Spec => [](TypeOK /\ ImportInv)
<1>1. TypeOK /\ ImportInv /\ [Next]_vars => ImportInv'
  BY LockStep, OverlapStep, CatalogueStep, CarriedStep DEF ImportInv
<1> QED BY <1>1, InitType, InitInv, NextType, PTL DEF Spec

\* advisory_lock: no two workers are inside the locked block together, for any
\* number of workers, retries, redeliveries and lost processes.
THEOREM LockExcludes == Spec => []RunsNeverOverlap
<1>1. ImportInv => RunsNeverOverlap
  BY DEF ImportInv, LockIsHeld, RunsNeverOverlap
<1> QED BY <1>1, ImportInvariant, PTL

\* Late acknowledgement: a task that was accepted and is unanswered is in the
\* queue or in a worker's hands.
THEOREM NothingIsLost == Spec => []AcceptedIsNotLost
<1>1. ImportInv => AcceptedIsNotLost
  BY DEF ImportInv, Carried, AcceptedIsNotLost
<1> QED BY <1>1, ImportInvariant, PTL

\* The lock protects the task from itself: imports overlap only when one of the
\* synchronous endpoints, which do not take it, was called.
THEOREM TaskAloneNeverOverlaps == Spec => []OnlyRequestsOverlap
<1>1. ImportInv => OnlyRequestsOverlap
  BY DEF ImportInv
<1> QED BY <1>1, ImportInvariant, PTL

\* upsert_many: while imports have not overlapped, a stored price is the one that
\* came with the row's stamp.
THEOREM RowsAreWhole == Spec => []RowIsOneImport
<1>1. ImportInv => RowIsOneImport
  BY DEF ImportInv, Catalogue, RowIsOneImport
<1> QED BY <1>1, ImportInvariant, PTL

\* And the catalogue is only ever replaced by a later import.
THEOREM CatalogueMovesForward == Spec => ImportsMoveForward
<1>1. ASSUME TypeOK, ImportInv, [Next]_vars, ~overlapped, row # None, row' # row
      PROVE  row'.at > row.at
  <2>1. PICK p \in Importers : Import(p)
    BY <1>1, WorkerEffect
    DEF Next, Work, Request, Importers, Enqueue, TakeLock, SessionEnds,
        RequestMobile, RequestDesktop, vars
  <2>2. run[p].pc \in Importing /\ Write(p)
    BY <1>1, <2>1, ImportEffect
  <2>3. row.at < run[p].at /\ row'.at = run[p].at
    BY <1>1, <2>2 DEF ImportInv, Catalogue, Write
  <2>4. row.at \in Nat /\ run[p].at \in Nat
    BY <1>1, TypeParts DEF TypeOK, Row, RunsOK, Run
  <2> QED BY <2>3, <2>4
<1>2. TypeOK /\ ImportInv /\ [Next]_vars
        => [~overlapped /\ row # None /\ row' # row => row'.at > row.at]_vars
  BY <1>1
<1> QED BY <1>2, ImportInvariant, PTL DEF Spec, ImportsMoveForward
=============================================================================
