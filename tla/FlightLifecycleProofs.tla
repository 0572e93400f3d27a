----------------------- MODULE FlightLifecycleProofs -----------------------
(* Safety of the flight lifecycle, for any number of flights, API processes *)
(* and workers, any retry limit and any number of faults.                   *)
EXTENDS FlightLifecycle, TLAPS

\* A process that is not idle acts for a flight that exists.
Engaged ==
    /\ \A r \in Replicas : api[r].pc # "idle" => api[r].flight \in Flights
    /\ \A w \in Workers : worker[w].pc # "idle" => worker[w].flight \in Flights

Typed == TypeOK /\ Engaged

LEMMA IdleTyped == IdleApi \in Handlers /\ IdleWorker \in Tasks
  BY FlightAssumption DEF IdleApi, Handlers, IdleWorker, Tasks, WorkerPcs, Attempts

LEMMA InitTyped == Init => Typed
<1> SUFFICES ASSUME Init PROVE Typed
  OBVIOUS
<1>1. TypeOK
  BY IdleTyped, FlightAssumption
     DEF Init, TypeOK, Statuses, Artefacts, Contents, Attempts, Causes, GivenUp, Unpushed
<1>2. Engaged
  BY DEF Init, Engaged, IdleApi, IdleWorker
<1> QED BY <1>1, <1>2 DEF Typed

-----------------------------------------------------------------------------
\* A handler that goes on with flight f, and one that returns.
LEMMA HandleFacts ==
  ASSUME Typed, NEW r \in Replicas, NEW f \in Flights,
         NEW pc \in {"checked", "received", "unknown", "committed"}, Handle(r, pc, f)
  PROVE  /\ api' \in [Replicas -> Handlers]
         /\ api'[r].pc = pc /\ api'[r].flight = f
         /\ \A q \in Replicas \ {r} : api'[q] = api[q]
         /\ \A q \in Replicas : api'[q].pc # "idle" => api'[q].flight \in Flights
<1>1. api \in [Replicas -> Handlers]
  BY DEF Typed, TypeOK
<1>2. [pc |-> pc, flight |-> f] \in Handlers
  BY DEF Handlers
<1> QED BY <1>1, <1>2 DEF Handle, Typed, Engaged

LEMMA ReturnFacts ==
  ASSUME Typed, NEW r \in Replicas, Return(r)
  PROVE  /\ api' \in [Replicas -> Handlers]
         /\ api'[r].pc = "idle"
         /\ \A q \in Replicas \ {r} : api'[q] = api[q]
         /\ \A q \in Replicas : api'[q].pc # "idle" => api'[q].flight \in Flights
  BY IdleTyped DEF Typed, TypeOK, Engaged, Return, IdleApi

-----------------------------------------------------------------------------
\* A task that moves to another point of its program keeps its other fields.
LEMMA GotoFacts ==
  ASSUME Typed, NEW w \in Workers, worker[w].pc # "idle", NEW pc \in WorkerPcs, Goto(w, pc)
  PROVE  /\ worker' \in [Workers -> Tasks]
         /\ worker'[w] = [worker[w] EXCEPT !.pc = pc]
         /\ worker'[w].pc = pc
         /\ worker'[w].flight = worker[w].flight
         /\ \A v \in Workers \ {w} : worker'[v] = worker[v]
         /\ \A v \in Workers : worker'[v].pc # "idle" => worker'[v].flight \in Flights
<1>1. worker \in [Workers -> Tasks] /\ worker[w] \in Tasks
  BY DEF Typed, TypeOK
<1>2. worker' = [worker EXCEPT ![w] = [worker[w] EXCEPT !.pc = pc]]
  BY <1>1 DEF Goto
<1>3. [worker[w] EXCEPT !.pc = pc] \in Tasks
  BY <1>1 DEF Tasks
<1> QED BY <1>1, <1>2, <1>3 DEF Typed, Engaged, Tasks

\* A pool slot that becomes free, and one that takes a message.
LEMMA ReleaseFacts ==
  ASSUME Typed, NEW w \in Workers, Release(w)
  PROVE  /\ worker' \in [Workers -> Tasks]
         /\ worker'[w].pc = "idle"
         /\ \A v \in Workers \ {w} : worker'[v] = worker[v]
         /\ \A v \in Workers : worker'[v].pc # "idle" => worker'[v].flight \in Flights
  BY IdleTyped DEF Typed, TypeOK, Engaged, Release, IdleWorker

LEMMA StartFacts ==
  ASSUME Typed, NEW w \in Workers, NEW f \in Flights, NEW n \in Attempts,
         StartParse(w, f, n)
  PROVE  /\ worker' \in [Workers -> Tasks]
         /\ worker'[w].pc = "fetch" /\ worker'[w].flight = f
         /\ \A v \in Workers \ {w} : worker'[v] = worker[v]
         /\ \A v \in Workers : worker'[v].pc # "idle" => worker'[v].flight \in Flights
<1>1. worker \in [Workers -> Tasks]
  BY DEF Typed, TypeOK
<1>2. [pc |-> "fetch", flight |-> f, retries |-> n, hashed |-> FALSE, view |-> "whole"]
        \in Tasks
  BY DEF Tasks, WorkerPcs, PipelinePcs
<1> QED BY <1>1, <1>2 DEF StartParse, Typed, Engaged

\* A step that also records what the task learned.
LEMMA LearnFacts ==
  ASSUME Typed, NEW w \in Workers, worker[w].pc # "idle", NEW pc \in WorkerPcs,
         NEW h \in BOOLEAN, NEW v \in {"hollow", "whole"},
         \/ worker' = [worker EXCEPT ![w].pc = pc, ![w].hashed = h]
         \/ worker' = [worker EXCEPT ![w].pc = pc, ![w].view = v]
  PROVE  /\ worker' \in [Workers -> Tasks]
         /\ worker'[w].pc = pc
         /\ worker'[w].flight = worker[w].flight
         /\ \A u \in Workers \ {w} : worker'[u] = worker[u]
         /\ \A u \in Workers : worker'[u].pc # "idle" => worker'[u].flight \in Flights
<1>1. worker \in [Workers -> Tasks] /\ worker[w] \in Tasks
  BY DEF Typed, TypeOK
<1>2. /\ [worker[w] EXCEPT !.pc = pc, !.hashed = h] \in Tasks
      /\ [worker[w] EXCEPT !.pc = pc, !.view = v] \in Tasks
  BY <1>1 DEF Tasks
<1>3. \/ worker' = [worker EXCEPT ![w] = [worker[w] EXCEPT !.pc = pc, !.hashed = h]]
      \/ worker' = [worker EXCEPT ![w] = [worker[w] EXCEPT !.pc = pc, !.view = v]]
  BY <1>1
<1> QED BY <1>1, <1>2, <1>3 DEF Typed, Engaged, Tasks
-----------------------------------------------------------------------------
(* Typed is inductive. *)

LEMMA ApiTyped ==
  ASSUME Typed, NEW r \in Replicas, ApiStep(r) \/ ApiFails(r)
  PROVE  Typed'
<1> USE DEF Typed, TypeOK, Engaged
<1>a. api[r] \in Handlers /\ (api[r].pc # "idle" => api[r].flight \in Flights)
  OBVIOUS
<1>1. CASE \E f \in Flights : InitUpload(r, f)
  BY <1>1 DEF InitUpload, Statuses
<1>2. CASE \E f \in Flights : ProcessCheck(r, f)
  BY <1>2, HandleFacts DEF ProcessCheck
<1>3. CASE \E f \in Flights : DirectReceive(r, f)
  BY <1>3, HandleFacts DEF DirectReceive
<1>4. CASE ProcessCommit(r)
  BY <1>4, <1>a, HandleFacts DEF ProcessCommit, Statuses
<1>5. CASE DirectDedupe(r)
  BY <1>5, <1>a, HandleFacts, ReturnFacts DEF DirectDedupe
<1>6. CASE DirectCreate(r)
  <2>1. CASE KnownHash(api[r].flight)
    BY <1>6, <2>1, <1>a, ReturnFacts DEF DirectCreate
  <2>2. CASE ~KnownHash(api[r].flight)
    <3>1. /\ status' = [status EXCEPT ![api[r].flight] = "uploaded"]
          /\ sha' = [sha EXCEPT ![api[r].flight] = LogOf[api[r].flight]]
          /\ Handle(r, "committed", api[r].flight)
          /\ UNCHANGED <<landed, store, queue, worker, dlq, dropped, faults>>
      BY <1>6, <2>2 DEF DirectCreate
    <3>2. api[r].flight \in Flights /\ LogOf[api[r].flight] \in Logs
      BY <1>6, <1>a, FlightAssumption DEF DirectCreate
    <3> QED BY <3>1, <3>2, HandleFacts DEF Statuses
  <2> QED BY <2>1, <2>2
<1>7. CASE Enqueue(r)
  BY <1>7, <1>a, ReturnFacts, FlightAssumption DEF Enqueue, Attempts
<1>8. CASE ApiFails(r)
  BY <1>8, <1>a, ReturnFacts DEF ApiFails, Causes, GivenUp, Unpushed
<1> QED BY <1>1, <1>2, <1>3, <1>4, <1>5, <1>6, <1>7, <1>8 DEF ApiStep

LEMMA TaskTyped ==
  ASSUME Typed, NEW w \in Workers, TaskStep(w)
  PROVE  Typed'
<1> USE DEF Typed, TypeOK, Engaged, Progress
<1>a. /\ worker[w] \in Tasks /\ (worker[w].pc # "idle" => worker[w].flight \in Flights)
      /\ worker[w].retries \in Attempts /\ worker[w].view \in {"hollow", "whole"}
      /\ worker[w].hashed \in BOOLEAN
  BY DEF Tasks
<1>b. PipelinePcs \cup {"dead_letter", "acking"} \subseteq WorkerPcs
  BY DEF WorkerPcs
<1>c. "idle" \notin PipelinePcs
  BY DEF PipelinePcs
<1>d. {"parse", "upload", "uploading", "extract", "save_timeline", "saving_timeline",
       "save_phases", "saving_phases", "detect", "save_anomalies",
       "saving_anomalies", "complete", "publish"} \subseteq PipelinePcs
  BY DEF PipelinePcs
<1>1. ASSUME NEW f \in Flights, NEW n \in Attempts, StartParse(w, f, n)
      PROVE  Typed'
  <2>1. status' \in [Flights -> Statuses]
    BY <1>1 DEF StartParse, Statuses
  <2>2. queue' \in [Flights -> [Attempts -> Nat]]
    <3>1. queue[f][n] \in Nat /\ queue[f][n] > 0
      BY <1>1 DEF StartParse
    <3>2. queue' = [queue EXCEPT ![f] = [queue[f] EXCEPT ![n] = queue[f][n] - 1]]
      BY <1>1 DEF StartParse
    <3> QED BY <3>1, <3>2
  <2>3. UNCHANGED <<sha, landed, store, api, dlq, dropped, faults>>
    BY <1>1 DEF StartParse
  <2> QED BY <1>1, <2>1, <2>2, <2>3, StartFacts
<1>2. CASE Fetch(w)
  <2>1. PICK h \in BOOLEAN : worker' = [worker EXCEPT ![w].pc = "parse", ![w].hashed = h]
    BY <1>2 DEF Fetch
  <2>2. worker[w].pc # "idle" /\ "parse" \in WorkerPcs
    BY <1>2, <1>b, <1>d DEF Fetch
  <2>3. status' \in [Flights -> Statuses]
    BY <1>2, <1>a, <2>2 DEF Fetch, Statuses
  <2>4. UNCHANGED <<sha, landed, store, api, queue, dlq, dropped, faults>>
    BY <1>2 DEF Fetch
  <2> QED BY <2>1, <2>2, <2>3, <2>4, LearnFacts
<1>3. CASE Parse(w)
  BY <1>3, <1>a, <1>b, <1>d, GotoFacts DEF Parse, Statuses
<1>4. ASSUME NEW a \in Artefacts, BeginSave(w, a)
      PROVE  Typed'
  <2>1. SavingAt[a] \in WorkerPcs /\ worker[w].pc # "idle"
    BY <1>4, <1>b, <1>d DEF BeginSave, SavingAt, SaveAt, Artefacts
  <2>2. WhileWriting(a, store[worker[w].flight][a]) \in Contents
    BY <1>a, <2>1 DEF WhileWriting, Contents
  <2> QED BY <1>4, <1>a, <2>1, <2>2, GotoFacts DEF BeginSave, Statuses
<1>5. ASSUME NEW a \in Artefacts, EndSave(w, a)
      PROVE  Typed'
  <2>1. SavedAt[a] \in WorkerPcs /\ worker[w].pc # "idle"
    BY <1>5, <1>b, <1>d DEF EndSave, SavingAt, SavedAt, Artefacts
  <2>2. Goto(w, SavedAt[a]) /\ UNCHANGED <<landed, sha, api, queue, dlq, dropped, faults>>
    BY <1>5 DEF EndSave
  <2>3. worker[w].flight \in Flights /\ store' \in [Flights -> [Artefacts -> Contents]]
    BY <1>5, <1>a, <2>1 DEF EndSave, Contents
  <2>4. status' \in [Flights -> Statuses]
    BY <1>5 DEF EndSave
  <2> QED BY <2>1, <2>2, <2>3, <2>4, GotoFacts
<1>6. CASE Extract(w)
  <2>1. PICK v \in {"hollow", "whole"} :
            worker' = [worker EXCEPT ![w].pc = "save_timeline", ![w].view = v]
    BY <1>6 DEF Extract, ReadBack
  <2>2. worker[w].pc # "idle" /\ "save_timeline" \in WorkerPcs
    BY <1>6, <1>b, <1>d DEF Extract, ReadBack
  <2>3. status' \in [Flights -> Statuses]
    BY <1>6, <1>a, <2>2 DEF Extract, ReadBack, Statuses
  <2>4. UNCHANGED <<sha, landed, store, api, queue, dlq, dropped, faults>>
    BY <1>6 DEF Extract, ReadBack
  <2> QED BY <2>1, <2>2, <2>3, <2>4, LearnFacts
<1>7. CASE Detect(w)
  <2>1. PICK v \in {"hollow", "whole"} :
            worker' = [worker EXCEPT ![w].pc = "save_anomalies", ![w].view = v]
    BY <1>7 DEF Detect, ReadBack
  <2>2. worker[w].pc # "idle" /\ "save_anomalies" \in WorkerPcs
    BY <1>7, <1>b, <1>d DEF Detect, ReadBack
  <2>3. status' \in [Flights -> Statuses]
    BY <1>7, <1>a, <2>2 DEF Detect, ReadBack, Statuses
  <2>4. UNCHANGED <<sha, landed, store, api, queue, dlq, dropped, faults>>
    BY <1>7 DEF Detect, ReadBack
  <2> QED BY <2>1, <2>2, <2>3, <2>4, LearnFacts
<1>8. CASE Complete(w)
  BY <1>8, <1>a, <1>b, <1>d, GotoFacts DEF Complete, Statuses
<1>9. CASE MarkReady(w)
  <2>1. CASE worker[w].hashed /\ TakenHash(worker[w].flight)
    <3>1. /\ worker[w].pc # "idle"
          /\ status' = [status EXCEPT ![worker[w].flight] = "error"]
          /\ Goto(w, "dead_letter")
          /\ UNCHANGED <<sha, landed, store, api, queue, dlq, dropped, faults>>
      BY <1>9, <2>1 DEF MarkReady, Fail
    <3>2. status' \in [Flights -> Statuses] /\ "dead_letter" \in WorkerPcs
      BY <3>1, <1>b DEF Statuses
    <3> QED BY <3>1, <3>2, GotoFacts
  <2>2. CASE ~(worker[w].hashed /\ TakenHash(worker[w].flight))
    <3>1. /\ status' = [status EXCEPT ![worker[w].flight] = "ready"]
          /\ \/ sha' = [sha EXCEPT ![worker[w].flight] = LogOf[worker[w].flight]]
             \/ sha' = sha
          /\ Goto(w, "acking")
          /\ UNCHANGED <<landed, store, api, queue, dlq, dropped, faults>>
      BY <1>9, <2>2 DEF MarkReady
    <3>2. worker[w].flight \in Flights /\ LogOf[worker[w].flight] \in Logs
      BY <1>9, <1>a, FlightAssumption DEF MarkReady
    <3>3. worker[w].pc # "idle"
      BY <1>9 DEF MarkReady
    <3> QED BY <3>1, <3>2, <3>3, <1>b, GotoFacts DEF Statuses
  <2> QED BY <2>1, <2>2
<1>10. CASE PermanentError(w)
  BY <1>10, <1>a, <1>b, <1>c, GotoFacts DEF PermanentError, Fail, Statuses
<1>11. CASE TransientError(w)
  <2>1. worker[w].pc # "idle" /\ worker[w].flight \in Flights
    BY <1>11, <1>a, <1>c DEF TransientError
  <2>2. worker[w].retries < MaxRetries => worker[w].retries + 1 \in Attempts
    BY <1>a, FlightAssumption DEF Attempts
  <2>3. queue' \in [Flights -> [Attempts -> Nat]]
    <3>1. \/ queue' = queue
          \/ /\ worker[w].retries < MaxRetries
             /\ queue' = [queue EXCEPT ![worker[w].flight][worker[w].retries + 1] = @ + 1]
      BY <1>11 DEF TransientError
    <3>2. ASSUME NEW n \in Attempts
          PROVE  [queue EXCEPT ![worker[w].flight][n] = @ + 1] \in [Flights -> [Attempts -> Nat]]
      BY <2>1
    <3>3. CASE worker[w].retries < MaxRetries
      <4>1. PICK n \in Attempts : n = worker[w].retries + 1
        BY <2>2, <3>3
      <4>2. queue' = queue \/ queue' = [queue EXCEPT ![worker[w].flight][n] = @ + 1]
        BY <3>1, <4>1
      <4>3. [queue EXCEPT ![worker[w].flight][n] = @ + 1] \in [Flights -> [Attempts -> Nat]]
        BY <3>2
      <4>4. queue \in [Flights -> [Attempts -> Nat]]
        OBVIOUS
      <4> QED BY ONLY <4>2, <4>3, <4>4
    <3> QED BY <3>1, <3>3
  <2>4. dropped' \in [Flights -> SUBSET Causes]
    <3>1. \/ dropped' = dropped
          \/ dropped' = [dropped EXCEPT ![worker[w].flight] =
                             dropped[worker[w].flight] \cup {"retries"}]
      BY <1>11 DEF TransientError
    <3>2. dropped[worker[w].flight] \cup {"retries"} \in SUBSET Causes
      BY <2>1 DEF Causes, GivenUp, Unpushed
    <3> QED BY <3>1, <3>2, <2>1
  <2>5. Goto(w, "acking")
        /\ UNCHANGED <<status, sha, landed, store, api, dlq, faults>>
    BY <1>11 DEF TransientError
  <2> QED BY <2>1, <2>3, <2>4, <2>5, <1>b, GotoFacts
<1>12. CASE SendToDlq(w)
  BY <1>12, <1>a, <1>b, GotoFacts DEF SendToDlq
<1>13. CASE Ack(w)
  BY <1>13, ReleaseFacts DEF Ack
<1> QED BY <1>1, <1>2, <1>3, <1>4, <1>5, <1>6, <1>7, <1>8, <1>9, <1>10,
           <1>11, <1>12, <1>13 DEF TaskStep

\* The faults of a worker.
WorkerFault(w) ==
    \/ WorkerLost(w) \/ HardTimeLimit(w) \/ HandlerFails(w)
    \/ CutOff(w) \/ DlqWriteFails(w)

LEMMA FaultTyped ==
  ASSUME Typed, NEW w \in Workers, WorkerFault(w)
  PROVE  Typed'
<1> USE DEF Typed, TypeOK, Engaged
<1>a. /\ worker[w] \in Tasks /\ (worker[w].pc # "idle" => worker[w].flight \in Flights)
      /\ worker[w].retries \in Attempts
  BY DEF Tasks
<1>b. "acking" \in WorkerPcs /\ "idle" \notin PipelinePcs
  BY DEF WorkerPcs, PipelinePcs
<1>1. CASE WorkerLost(w)
  <2>1. queue' = [queue EXCEPT ![worker[w].flight][worker[w].retries] = @ + 1]
    BY <1>1 DEF WorkerLost
  <2> QED BY <1>1, <2>1, <1>a, ReleaseFacts DEF WorkerLost
<1>2. ASSUME NEW pcs, "idle" \notin pcs, NEW c \in Causes, Abandon(w, pcs, c)
      PROVE  Typed'
  BY <1>2, <1>a, <1>b, ReleaseFacts DEF Abandon
<1>3. CASE HardTimeLimit(w) \/ HandlerFails(w) \/ CutOff(w)
  BY <1>b, <1>2, <1>3 DEF HardTimeLimit, HandlerFails, CutOff, Causes, GivenUp, Unpushed
<1>4. CASE DlqWriteFails(w)
  <2>1. worker[w].pc # "idle" /\ worker[w].flight \in Flights
    BY <1>4, <1>a DEF DlqWriteFails
  <2>2. dropped' = [dropped EXCEPT ![worker[w].flight] = @ \cup {"dlq_write"}]
    BY <1>4 DEF DlqWriteFails
  <2>3. dropped' \in [Flights -> SUBSET Causes]
    BY <2>1, <2>2 DEF Causes, GivenUp, Unpushed
  <2>4. Goto(w, "acking") /\ faults' \in Nat
        /\ UNCHANGED <<status, sha, landed, store, api, queue, dlq>>
    BY <1>4 DEF DlqWriteFails
  <2> QED BY <1>b, <2>1, <2>3, <2>4, GotoFacts
<1> QED BY <1>1, <1>3, <1>4 DEF WorkerFault

\* Next, by the process that takes the step.
LEMMA StepCases ==
  ASSUME Next
  PROVE  \/ \E r \in Replicas : ApiStep(r) \/ ApiFails(r)
         \/ \E f \in Flights : ClientPut(f)
         \/ \E w \in Workers : TaskStep(w) \/ WorkerFault(w)
  BY DEF Next, Fault, WorkerFault

LEMMA NextTyped == Typed /\ [Next]_vars => Typed'
<1> SUFFICES ASSUME Typed, [Next]_vars PROVE Typed'
  OBVIOUS
<1>1. CASE \E f \in Flights : ClientPut(f)
  BY <1>1 DEF ClientPut, Typed, TypeOK, Engaged
<1>2. CASE UNCHANGED vars
  BY <1>2 DEF vars, Typed, TypeOK, Engaged
<1> QED BY <1>1, <1>2, StepCases, ApiTyped, TaskTyped, FaultTyped

\* Every variable keeps its type (TypeOK), and no process acts for a flight
\* that does not exist.
THEOREM FlightTypeCorrect == Spec => []TypeOK
<1>1. Typed => TypeOK
  BY DEF Typed
<1> QED BY InitTyped, NextTyped, <1>1, PTL DEF Spec

LEMMA AlwaysTyped == Spec => []Typed
  BY InitTyped, NextTyped, PTL DEF Spec
-----------------------------------------------------------------------------
(* What a step does to the reasons for which a flight is accounted for. *)

LEMMA Frames ==
  /\ UNCHANGED api => \A f \in Flights : Enqueuing(f)' = Enqueuing(f)
  /\ UNCHANGED queue => \A f \in Flights : Queued(f)' = Queued(f)
  /\ UNCHANGED worker => \A f \in Flights : /\ Running(f)' = Running(f)
                                            /\ DeadLettering(f)' = DeadLettering(f)
  BY DEF Enqueuing, Queued, Running, DeadLettering

LEMMA OneHandlerMoves ==
  ASSUME NEW r \in Replicas, \A q \in Replicas \ {r} : api'[q] = api[q],
         NEW f \in Flights, Enqueuing(f)
  PROVE  Enqueuing(f)' \/ (api[r].pc = "committed" /\ api[r].flight = f)
  BY DEF Enqueuing

LEMMA OneTaskMoves ==
  ASSUME NEW w \in Workers, \A v \in Workers \ {w} : worker'[v] = worker[v],
         NEW f \in Flights
  PROVE  /\ Running(f) => Running(f)' \/ (worker[w].pc \in PipelinePcs /\ worker[w].flight = f)
         /\ worker'[w].pc \in PipelinePcs /\ worker'[w].flight = f => Running(f)'
         /\ DeadLettering(f) =>
               DeadLettering(f)' \/ (worker[w].pc = "dead_letter" /\ worker[w].flight = f)
         /\ worker'[w].pc = "dead_letter" /\ worker'[w].flight = f => DeadLettering(f)'
  BY DEF Running, DeadLettering

LEMMA MessageAdded ==
  ASSUME Typed, NEW g \in Flights, NEW n \in Attempts,
         queue' = [queue EXCEPT ![g][n] = @ + 1]
  PROVE  Queued(g)' /\ \A f \in Flights : Queued(f) => Queued(f)'
<1>1. queue \in [Flights -> [Attempts -> Nat]]
  BY DEF Typed, TypeOK
<1>2. queue'[g][n] > 0
  BY <1>1
<1>3. ASSUME NEW f \in Flights, NEW m \in Attempts PROVE queue'[f][m] >= queue[f][m]
  BY <1>1
<1>4. ASSUME NEW f \in Flights, NEW m \in Attempts, queue[f][m] > 0
      PROVE  queue'[f][m] > 0
  <2>1. queue' \in [Flights -> [Attempts -> Nat]]
    BY <1>1
  <2> QED BY <1>1, <1>3, <1>4, <2>1
<1> QED BY <1>2, <1>4 DEF Queued

LEMMA MessageTaken ==
  ASSUME Typed, NEW w \in Workers, NEW g \in Flights, NEW n \in Attempts, StartParse(w, g, n)
  PROVE  \A f \in Flights : f # g /\ Queued(f) => Queued(f)'
  BY DEF Queued, StartParse, Typed, TypeOK

LEMMA CauseAdded ==
  ASSUME Typed, NEW g \in Flights, NEW c \in Causes,
         dropped' = [dropped EXCEPT ![g] = @ \cup {c}]
  PROVE  /\ c \in dropped'[g]
         /\ \A f \in Flights : dropped[f] \subseteq dropped'[f]
  BY DEF Typed, TypeOK

LEMMA StatusSet ==
  ASSUME Typed, NEW g \in Flights, NEW s, status' = [status EXCEPT ![g] = s]
  PROVE  status'[g] = s /\ \A f \in Flights \ {g} : status'[f] = status[f]
  BY DEF Typed, TypeOK

\* The programs's points, and who acts at each.
LEMMA PcFacts ==
  /\ PipelinePcs \cup {"dead_letter", "acking"} \subseteq WorkerPcs
  /\ "idle" \notin PipelinePcs /\ "dead_letter" \notin PipelinePcs
  /\ "acking" \notin PipelinePcs
  /\ {"fetch", "parse", "upload", "uploading", "extract", "save_timeline",
      "saving_timeline", "save_phases", "saving_phases", "detect", "save_anomalies",
      "saving_anomalies", "complete", "publish"} \subseteq PipelinePcs
  BY DEF PipelinePcs, WorkerPcs

\* A step inside the pipeline moves one task and may mark its flight as being
\* parsed; queue, handlers, dead letters and dropped messages are left alone.
Onward(w) ==
    /\ worker[w].pc \in PipelinePcs /\ worker[w].flight \in Flights
    /\ worker'[w].pc \in PipelinePcs /\ worker'[w].flight = worker[w].flight
    /\ \A v \in Workers \ {w} : worker'[v] = worker[v]
    /\ UNCHANGED status \/ Progress(w)
    /\ UNCHANGED <<sha, landed, api, queue, dlq, dropped, faults>>

LEMMA PipelineSteps ==
  ASSUME Typed, NEW w \in Workers,
         \/ Fetch(w) \/ Parse(w) \/ Extract(w) \/ Detect(w) \/ Complete(w)
         \/ \E a \in Artefacts : BeginSave(w, a) \/ EndSave(w, a)
  PROVE  Onward(w)
<1>a. worker[w].pc # "idle" => worker[w].flight \in Flights
  BY DEF Typed, Engaged
<1>1. CASE Fetch(w)
  <2>1. PICK h \in BOOLEAN : worker' = [worker EXCEPT ![w].pc = "parse", ![w].hashed = h]
    BY <1>1 DEF Fetch
  <2>2. worker[w].pc \in PipelinePcs /\ worker[w].pc # "idle" /\ "parse" \in WorkerPcs \cap PipelinePcs
    BY <1>1, PcFacts DEF Fetch
  <2>3. /\ worker'[w].pc = "parse" /\ worker'[w].flight = worker[w].flight
        /\ \A v \in Workers \ {w} : worker'[v] = worker[v]
    BY <2>1, <2>2, LearnFacts
  <2> QED BY <1>1, <2>2, <2>3, <1>a DEF Fetch, Onward
<1>2. CASE Parse(w)
  <2>1. worker[w].pc \in PipelinePcs /\ worker[w].pc # "idle" /\ "upload" \in WorkerPcs \cap PipelinePcs
    BY <1>2, PcFacts DEF Parse
  <2> QED BY <1>2, <2>1, <1>a, GotoFacts DEF Parse, Onward
<1>3. CASE Complete(w)
  BY <1>3, <1>a, PcFacts, GotoFacts DEF Complete, Onward
<1>4. ASSUME NEW from, NEW to \in PipelinePcs, from \in PipelinePcs, ReadBack(w, from, to)
      PROVE  Onward(w)
  <2>1. PICK v \in {"hollow", "whole"} :
           worker' = [worker EXCEPT ![w].pc = to, ![w].view = v]
    BY <1>4 DEF ReadBack
  <2>2. worker[w].pc \in PipelinePcs /\ worker[w].pc # "idle" /\ to \in WorkerPcs
    BY <1>4, PcFacts DEF ReadBack
  <2>3. /\ worker'[w].pc = to /\ worker'[w].flight = worker[w].flight
        /\ \A u \in Workers \ {w} : worker'[u] = worker[u]
    BY <2>1, <2>2, LearnFacts
  <2> QED BY <1>4, <2>2, <2>3, <1>a DEF ReadBack, Onward
<1>5. CASE Extract(w) \/ Detect(w)
  BY <1>4, <1>5, PcFacts DEF Extract, Detect
<1>6. ASSUME NEW a \in Artefacts, BeginSave(w, a)
      PROVE  Onward(w)
  <2>1. worker[w].pc \in PipelinePcs /\ SavingAt[a] \in PipelinePcs
    BY <1>6, PcFacts DEF BeginSave, SaveAt, SavingAt, Artefacts
  <2>2. /\ Goto(w, SavingAt[a])
        /\ Progress(w) \/ UNCHANGED status
        /\ UNCHANGED <<sha, landed, api, queue, dlq, dropped, faults>>
    BY <1>6 DEF BeginSave
  <2>3. worker[w].pc # "idle" /\ SavingAt[a] \in WorkerPcs
    BY <2>1, PcFacts
  <2>4. /\ worker'[w].pc \in PipelinePcs /\ worker'[w].flight = worker[w].flight
        /\ \A v \in Workers \ {w} : worker'[v] = worker[v]
    BY <2>1, <2>2, <2>3, GotoFacts
  <2> QED BY <2>1, <2>2, <2>3, <2>4, <1>a DEF Onward
<1>7. ASSUME NEW a \in Artefacts, EndSave(w, a)
      PROVE  Onward(w)
  <2>1. worker[w].pc \in PipelinePcs /\ SavedAt[a] \in PipelinePcs
    BY <1>7, PcFacts DEF EndSave, SavingAt, SavedAt, Artefacts
  <2> QED BY <1>7, <2>1, <1>a, PcFacts, GotoFacts DEF EndSave, Onward
<1> QED BY <1>1, <1>2, <1>3, <1>5, <1>6, <1>7

\* The verdict of a task: the row is updated, the task leaves the pipeline.
Verdict(w) ==
    /\ worker[w].pc \in PipelinePcs /\ worker[w].flight \in Flights
    /\ \/ /\ status' = [status EXCEPT ![worker[w].flight] = "ready"]
          /\ worker[w].pc = "publish"
          /\ worker'[w].pc = "acking"
       \/ /\ status' = [status EXCEPT ![worker[w].flight] = "error"]
          /\ worker'[w].pc = "dead_letter"
    /\ worker'[w].flight = worker[w].flight
    /\ \A v \in Workers \ {w} : worker'[v] = worker[v]
    /\ UNCHANGED <<landed, store, api, queue, dlq, dropped, faults>>

LEMMA VerdictSteps ==
  ASSUME Typed, NEW w \in Workers, MarkReady(w) \/ PermanentError(w)
  PROVE  Verdict(w)
<1>a. worker[w].pc # "idle" => worker[w].flight \in Flights
  BY DEF Typed, Engaged
<1>1. CASE MarkReady(w)
  BY <1>1, <1>a, PcFacts, GotoFacts DEF MarkReady, Fail, Verdict
<1>2. CASE PermanentError(w)
  BY <1>2, <1>a, PcFacts, GotoFacts DEF PermanentError, Fail, Verdict
<1> QED BY <1>1, <1>2
-----------------------------------------------------------------------------
(* Accounted and ErrorIsDeadLettered are inductive, given Typed: what speaks *)
(* for a flight is taken away only by a step that puts something else in its *)
(* place.                                                                    *)

\* An API step takes nothing away that is not the handler's own.
LEMMA ApiKeeps ==
  ASSUME Typed, NEW r \in Replicas, ApiStep(r) \/ ApiFails(r), NEW f \in Flights
  PROVE  /\ Running(f) => Running(f)'
         /\ DeadLettering(f) => DeadLettering(f)'
         /\ Queued(f) => Queued(f)'
         /\ dropped[f] \subseteq dropped'[f]
         /\ UNCHANGED dlq
         /\ status'[f] \in {status[f], "pending_upload", "uploaded"}
<1>a. api[r].pc # "idle" => api[r].flight \in Flights
  BY DEF Typed, Engaged
<1>1. UNCHANGED <<worker, dlq>>
  BY DEF ApiStep, InitUpload, ProcessCheck, DirectReceive, ProcessCommit, DirectDedupe,
         DirectCreate, Enqueue, ApiFails
<1>2. Queued(f) => Queued(f)'
  <2>1. CASE Enqueue(r)
    <3>1. /\ api[r].flight \in Flights /\ 0 \in Attempts
          /\ queue' = [queue EXCEPT ![api[r].flight][0] = @ + 1]
      BY <1>a, <2>1, FlightAssumption DEF Enqueue, Attempts
    <3> QED BY <3>1, MessageAdded
  <2>2. CASE ~Enqueue(r)
    <3>1. UNCHANGED queue
      BY <2>2 DEF ApiStep, InitUpload, ProcessCheck, DirectReceive, ProcessCommit,
                  DirectDedupe, DirectCreate, ApiFails
    <3> QED BY <3>1, Frames
  <2> QED BY <2>1, <2>2
<1>3. dropped[f] \subseteq dropped'[f]
  <2>1. CASE ApiFails(r) /\ api[r].pc = "committed"
    <3>1. /\ api[r].flight \in Flights /\ "enqueue" \in Causes
          /\ dropped' = [dropped EXCEPT ![api[r].flight] = @ \cup {"enqueue"}]
      BY <1>a, <2>1 DEF ApiFails, Causes, GivenUp, Unpushed
    <3> QED BY <3>1, CauseAdded
  <2>2. CASE ~(ApiFails(r) /\ api[r].pc = "committed")
    BY <2>2 DEF ApiStep, InitUpload, ProcessCheck, DirectReceive, ProcessCommit,
                DirectDedupe, DirectCreate, Enqueue, ApiFails
  <2> QED BY <2>1, <2>2
<1>4. status'[f] \in {status[f], "pending_upload", "uploaded"}
  BY StatusSet DEF ApiStep, InitUpload, ProcessCheck, DirectReceive, ProcessCommit,
       DirectDedupe, DirectCreate, Enqueue, ApiFails, Typed, TypeOK
<1> QED BY <1>1, <1>2, <1>3, <1>4, Frames

LEMMA ApiAccounted ==
  ASSUME Typed, Accounted, NEW r \in Replicas, ApiStep(r) \/ ApiFails(r)
  PROVE  Accounted'
<1> SUFFICES ASSUME NEW f \in Flights, status'[f] \in {"uploaded", "parsing"}
             PROVE  Enqueuing(f)' \/ Queued(f)' \/ Running(f)' \/ dropped'[f] \cap GivenUp # {}
  BY DEF Accounted
<1>a. api[r].pc # "idle" => api[r].flight \in Flights
  BY DEF Typed, Engaged
<1>b. ASSUME status'[f] = status[f], Enqueuing(f) => Enqueuing(f)'
      PROVE  Enqueuing(f)' \/ Queued(f)' \/ Running(f)' \/ dropped'[f] \cap GivenUp # {}
  BY <1>b, ApiKeeps DEF Accounted
<1>c. ASSUME api'[r].pc = "committed", api'[r].flight = f
      PROVE  Enqueuing(f)'
  BY <1>c DEF Enqueuing
<1>1. CASE \E g \in Flights : InitUpload(r, g)
  <2>1. UNCHANGED api /\ status'[f] = status[f]
    BY <1>1, StatusSet DEF InitUpload
  <2> QED BY <1>b, <2>1, Frames
<1>2. CASE \E g \in Flights : ProcessCheck(r, g) \/ DirectReceive(r, g)
  <2>1. UNCHANGED status /\ api[r].pc = "idle" /\ \A q \in Replicas \ {r} : api'[q] = api[q]
    BY <1>2, HandleFacts DEF ProcessCheck, DirectReceive
  <2> QED BY <1>b, <2>1, OneHandlerMoves
<1>3. CASE DirectDedupe(r)
  <2>1. UNCHANGED status /\ api[r].pc = "received" /\ \A q \in Replicas \ {r} : api'[q] = api[q]
    BY <1>3, <1>a, HandleFacts, ReturnFacts DEF DirectDedupe
  <2> QED BY <1>b, <2>1, OneHandlerMoves
<1>4. CASE ProcessCommit(r) \/ (DirectCreate(r) /\ ~UNCHANGED status)
  <2> DEFINE g == api[r].flight
  <2>1. /\ g \in Flights /\ api[r].pc \in {"checked", "unknown"} /\ Handle(r, "committed", g)
        /\ status' = [status EXCEPT ![g] = "uploaded"]
    BY <1>4, <1>a DEF ProcessCommit, DirectCreate
  <2>2. /\ api'[r].pc = "committed" /\ api'[r].flight = g
        /\ \A q \in Replicas \ {r} : api'[q] = api[q]
    BY <2>1, HandleFacts
  <2>3. CASE f = g
    BY <1>c, <2>2, <2>3
  <2>4. CASE f # g
    BY <1>b, <2>1, <2>2, <2>4, StatusSet, OneHandlerMoves
  <2> QED BY <2>3, <2>4
<1>5. CASE DirectCreate(r) /\ UNCHANGED status
  <2>1. api[r].pc = "unknown" /\ api[r].flight \in Flights
    BY <1>5, <1>a DEF DirectCreate
  <2>2. \A q \in Replicas \ {r} : api'[q] = api[q]
    BY <1>5, <2>1, HandleFacts, ReturnFacts DEF DirectCreate
  <2> QED BY <1>b, <1>5, <2>1, <2>2, OneHandlerMoves
<1>6. CASE Enqueue(r)
  <2>1. PICK g \in Flights : g = api[r].flight
    BY <1>6, <1>a DEF Enqueue
  <2>2. /\ UNCHANGED status /\ 0 \in Attempts /\ queue' = [queue EXCEPT ![g][0] = @ + 1]
        /\ \A q \in Replicas \ {r} : api'[q] = api[q]
    BY <1>6, <2>1, ReturnFacts, FlightAssumption DEF Enqueue, Attempts
  <2>3. Queued(g)'
    BY <2>2, MessageAdded
  <2> QED BY <1>b, <2>1, <2>2, <2>3, OneHandlerMoves
<1>7. CASE ApiFails(r)
  <2>1. UNCHANGED status /\ api[r].flight \in Flights /\ \A q \in Replicas \ {r} : api'[q] = api[q]
    BY <1>7, <1>a, ReturnFacts DEF ApiFails
  <2>2. CASE api[r].pc = "committed" /\ f = api[r].flight
    <3>1. "enqueue" \in Causes /\ dropped' = [dropped EXCEPT ![f] = @ \cup {"enqueue"}]
      BY <1>7, <2>2 DEF ApiFails, Causes, GivenUp, Unpushed
    <3> QED BY <3>1, CauseAdded DEF Causes, GivenUp
  <2>3. CASE ~(api[r].pc = "committed" /\ f = api[r].flight)
    BY <1>b, <2>1, <2>3, OneHandlerMoves
  <2> QED BY <2>2, <2>3
<1> QED BY <1>1, <1>2, <1>3, <1>4, <1>5, <1>6, <1>7 DEF ApiStep
-----------------------------------------------------------------------------
LEMMA TaskAccounted ==
  ASSUME Typed, Accounted, NEW w \in Workers, TaskStep(w)
  PROVE  Accounted'
<1> SUFFICES ASSUME NEW f \in Flights, status'[f] \in {"uploaded", "parsing"}
             PROVE  Enqueuing(f)' \/ Queued(f)' \/ Running(f)' \/ dropped'[f] \cap GivenUp # {}
  BY DEF Accounted
<1>a. worker[w].pc # "idle" => worker[w].flight \in Flights
  BY DEF Typed, Engaged
<1>1. CASE \E g \in Flights, n \in Attempts : StartParse(w, g, n)
  <2>1. PICK g \in Flights, n \in Attempts : StartParse(w, g, n)
    BY <1>1
  <2>2. /\ worker'[w].pc \in PipelinePcs /\ worker'[w].flight = g
        /\ \A v \in Workers \ {w} : worker'[v] = worker[v]
    BY <2>1, StartFacts, PcFacts
  <2>3. CASE f = g
    BY <2>2, <2>3, OneTaskMoves
  <2>4. CASE f # g
    <3>1. worker[w].pc = "idle" /\ status'[f] = status[f] /\ UNCHANGED <<api, dropped>>
      BY <2>1, <2>4, StatusSet DEF StartParse
    <3>2. (Queued(f) => Queued(f)') /\ (Running(f) => Running(f)')
      BY <2>1, <2>2, <2>4, <3>1, MessageTaken, OneTaskMoves, PcFacts
    <3> QED BY <3>1, <3>2, Frames DEF Accounted
  <2> QED BY <2>3, <2>4
<1>2. CASE Onward(w)
  <2>1. CASE f = worker[w].flight
    BY <1>2, <2>1, OneTaskMoves DEF Onward
  <2>2. CASE f # worker[w].flight
    <3>1. status'[f] = status[f] /\ UNCHANGED <<api, queue, dropped>>
      BY <1>2, <2>2, StatusSet DEF Onward, Progress
    <3>2. Running(f) => Running(f)'
      BY <1>2, <2>2, OneTaskMoves DEF Onward
    <3> QED BY <3>1, <3>2, Frames DEF Accounted
  <2> QED BY <2>1, <2>2
<1>3. CASE Verdict(w)
  <2>1. f # worker[w].flight
    BY <1>3, StatusSet DEF Verdict
  <2>2. status'[f] = status[f] /\ UNCHANGED <<api, queue, dropped>>
    BY <1>3, <2>1, StatusSet DEF Verdict
  <2>3. Running(f) => Running(f)'
    BY <1>3, <2>1, OneTaskMoves DEF Verdict
  <2> QED BY <2>2, <2>3, Frames DEF Accounted
<1>4. CASE TransientError(w)
  <2>1. PICK g \in Flights : g = worker[w].flight /\ worker[w].pc \in PipelinePcs
    BY <1>4, <1>a, PcFacts DEF TransientError
  <2>2. UNCHANGED <<status, api>> /\ \A v \in Workers \ {w} : worker'[v] = worker[v]
    BY <1>4, <2>1, GotoFacts, PcFacts DEF TransientError
  <2>3. f # g => (Running(f) => Running(f)')
    BY <2>1, <2>2, OneTaskMoves
  <2>4. CASE worker[w].retries < MaxRetries
    <3>1. PICK n \in Attempts : n = worker[w].retries + 1
      BY <2>4, FlightAssumption DEF Typed, TypeOK, Tasks, Attempts
    <3>2. queue' = [queue EXCEPT ![g][n] = @ + 1] /\ UNCHANGED dropped
      BY <1>4, <2>1, <2>4, <3>1 DEF TransientError
    <3>3. Queued(g)' /\ (Queued(f) => Queued(f)')
      BY <3>2, MessageAdded
    <3> QED BY <2>2, <2>3, <3>2, <3>3, Frames DEF Accounted
  <2>5. CASE ~(worker[w].retries < MaxRetries)
    <3>1. dropped' = [dropped EXCEPT ![g] = @ \cup {"retries"}] /\ UNCHANGED queue
      BY <1>4, <2>1, <2>5 DEF TransientError
    <3>2. "retries" \in dropped'[g] /\ dropped[f] \subseteq dropped'[f]
      BY <3>1, CauseAdded DEF Causes, GivenUp, Unpushed
    <3> QED BY <2>2, <2>3, <3>1, <3>2, Frames DEF Accounted, GivenUp
  <2> QED BY <2>4, <2>5
<1>5. CASE SendToDlq(w) \/ Ack(w)
  <2>1. worker[w].pc \notin PipelinePcs /\ UNCHANGED <<status, api, queue, dropped>>
    BY <1>5, PcFacts DEF SendToDlq, Ack
  <2>2. \A v \in Workers \ {w} : worker'[v] = worker[v]
    BY <1>5, GotoFacts, ReleaseFacts, PcFacts DEF SendToDlq, Ack
  <2> QED BY <2>1, <2>2, OneTaskMoves, Frames DEF Accounted
<1> QED BY <1>1, <1>2, <1>3, <1>4, <1>5, PipelineSteps, VerdictSteps DEF TaskStep

LEMMA FaultAccounted ==
  ASSUME Typed, Accounted, NEW w \in Workers, WorkerFault(w)
  PROVE  Accounted'
<1> SUFFICES ASSUME NEW f \in Flights, status'[f] \in {"uploaded", "parsing"}
             PROVE  Enqueuing(f)' \/ Queued(f)' \/ Running(f)' \/ dropped'[f] \cap GivenUp # {}
  BY DEF Accounted
<1>a. worker[w].pc # "idle" => worker[w].flight \in Flights /\ worker[w].retries \in Attempts
  BY DEF Typed, TypeOK, Tasks, Engaged
<1>b. UNCHANGED <<status, api>> /\ worker[w].pc # "idle"
  BY PcFacts DEF WorkerFault, WorkerLost, HardTimeLimit, HandlerFails, CutOff, Abandon, DlqWriteFails
<1>c. \A v \in Workers \ {w} : worker'[v] = worker[v]
  BY <1>b, GotoFacts, ReleaseFacts, PcFacts
     DEF WorkerFault, WorkerLost, HardTimeLimit, HandlerFails, CutOff, Abandon, DlqWriteFails
<1>d. PICK g \in Flights : g = worker[w].flight
  BY <1>a, <1>b
<1>e. Running(f) => Running(f)' \/ f = g
  BY <1>c, <1>d, OneTaskMoves
<1>1. CASE WorkerLost(w)
  <2>1. PICK n \in Attempts : n = worker[w].retries
    BY <1>a, <1>b
  <2>2. queue' = [queue EXCEPT ![g][n] = @ + 1] /\ UNCHANGED dropped
    BY <1>1, <1>d, <2>1 DEF WorkerLost
  <2>3. Queued(g)' /\ (Queued(f) => Queued(f)')
    BY <2>2, MessageAdded
  <2> QED BY <1>b, <1>e, <2>2, <2>3, Frames DEF Accounted
<1>2. CASE HardTimeLimit(w) \/ HandlerFails(w)
  <2>1. PICK c \in GivenUp : dropped' = [dropped EXCEPT ![g] = @ \cup {c}]
    BY <1>2, <1>d DEF HardTimeLimit, HandlerFails, Abandon, GivenUp
  <2>2. dropped'[g] \cap GivenUp # {} /\ dropped[f] \subseteq dropped'[f]
    BY <2>1, CauseAdded DEF Causes
  <2>3. UNCHANGED queue
    BY <1>2 DEF HardTimeLimit, HandlerFails, Abandon
  <2> QED BY <1>b, <1>e, <2>2, <2>3, Frames DEF Accounted
<1>3. CASE CutOff(w) \/ DlqWriteFails(w)
  <2>1. PICK c \in Unpushed : dropped' = [dropped EXCEPT ![g] = @ \cup {c}]
    BY <1>3, <1>d DEF CutOff, Abandon, DlqWriteFails, Unpushed
  <2>2. dropped[f] \subseteq dropped'[f]
    BY <2>1, CauseAdded DEF Causes
  <2>3. UNCHANGED queue /\ worker[w].pc \notin PipelinePcs
    BY <1>3, PcFacts DEF CutOff, Abandon, DlqWriteFails
  <2>4. Running(f) => Running(f)'
    BY <1>c, <2>3, OneTaskMoves
  <2> QED BY <1>b, <2>2, <2>3, <2>4, Frames DEF Accounted
<1> QED BY <1>1, <1>2, <1>3 DEF WorkerFault

\* Late acknowledgement loses no flight (Accounted): one shown as under way is
\* the job of a handler, a message or a task, unless it was dropped.
THEOREM FlightsAccounted == Spec => []Accounted
<1>1. Init => Accounted
  BY DEF Init, Accounted
<1>2. Typed /\ Accounted /\ [Next]_vars => Accounted'
  <2> SUFFICES ASSUME Typed, Accounted, [Next]_vars PROVE Accounted'
    OBVIOUS
  <2>1. CASE UNCHANGED vars
    BY <2>1, Frames DEF vars, Accounted
  <2>2. CASE \E f \in Flights : ClientPut(f)
    BY <2>2, Frames DEF ClientPut, Accounted
  <2> QED BY <2>1, <2>2, StepCases, ApiAccounted, TaskAccounted, FaultAccounted
<1> QED BY <1>1, <1>2, AlwaysTyped, PTL DEF Spec
-----------------------------------------------------------------------------
LEMMA TaskDeadLettered ==
  ASSUME Typed, ErrorIsDeadLettered, NEW w \in Workers, TaskStep(w)
  PROVE  ErrorIsDeadLettered'
<1> SUFFICES ASSUME NEW f \in Flights, status'[f] = "error"
             PROVE  \/ f \in dlq' \/ DeadLettering(f)' \/ Queued(f)'
                    \/ dropped'[f] \cap Unpushed # {}
  BY DEF ErrorIsDeadLettered
<1>a. worker[w].pc # "idle" => worker[w].flight \in Flights
  BY DEF Typed, Engaged
<1>1. CASE \E g \in Flights, n \in Attempts : StartParse(w, g, n)
  <2>1. PICK g \in Flights, n \in Attempts : StartParse(w, g, n)
    BY <1>1
  <2>2. \A v \in Workers \ {w} : worker'[v] = worker[v]
    BY <2>1, StartFacts
  <2>a. worker[w].pc = "idle" /\ UNCHANGED <<dlq, dropped>>
    BY <2>1 DEF StartParse
  <2>b. status' = [status EXCEPT ![g] = "parsing"]
    BY <2>1 DEF StartParse
  <2>c. f # g /\ status'[f] = status[f]
    BY <2>b, StatusSet
  <2>3. f # g /\ status'[f] = status[f] /\ worker[w].pc = "idle" /\ UNCHANGED <<dlq, dropped>>
    BY <2>a, <2>c
  <2>4. Queued(f) => Queued(f)'
    BY <2>1, <2>3, MessageTaken
  <2> QED BY <2>2, <2>3, <2>4, OneTaskMoves DEF ErrorIsDeadLettered
<1>2. CASE Onward(w)
  <2>1. status'[f] = status[f] /\ UNCHANGED <<queue, dlq, dropped>>
    BY <1>2, StatusSet DEF Onward, Progress
  <2>2. DeadLettering(f) => DeadLettering(f)'
    BY <1>2, OneTaskMoves, PcFacts DEF Onward
  <2> QED BY <2>1, <2>2, Frames DEF ErrorIsDeadLettered
<1>3. CASE Verdict(w)
  <2>1. DeadLettering(f) => DeadLettering(f)'
    BY <1>3, OneTaskMoves, PcFacts DEF Verdict
  <2>2. CASE f = worker[w].flight
    <3>1. worker'[w].pc = "dead_letter" /\ worker'[w].flight = f
      BY <1>3, <2>2, StatusSet DEF Verdict
    <3> QED BY <1>3, <3>1, OneTaskMoves DEF Verdict
  <2>3. CASE f # worker[w].flight
    <3>1. status'[f] = status[f] /\ UNCHANGED <<queue, dlq, dropped>>
      BY <1>3, <2>3, StatusSet DEF Verdict
    <3> QED BY <2>1, <3>1, Frames DEF ErrorIsDeadLettered
  <2> QED BY <2>2, <2>3
<1>4. CASE TransientError(w)
  <2>1. PICK g \in Flights : g = worker[w].flight /\ worker[w].pc \in PipelinePcs
    BY <1>4, <1>a, PcFacts DEF TransientError
  <2>2. UNCHANGED <<status, dlq>> /\ \A v \in Workers \ {w} : worker'[v] = worker[v]
    BY <1>4, <2>1, GotoFacts, PcFacts DEF TransientError
  <2>3. DeadLettering(f) => DeadLettering(f)'
    BY <2>1, <2>2, OneTaskMoves, PcFacts
  <2>4. CASE worker[w].retries < MaxRetries
    <3>1. PICK n \in Attempts : n = worker[w].retries + 1
      BY <2>4, FlightAssumption DEF Typed, TypeOK, Tasks, Attempts
    <3>2. queue' = [queue EXCEPT ![g][n] = @ + 1] /\ UNCHANGED dropped
      BY <1>4, <2>1, <2>4, <3>1 DEF TransientError
    <3> QED BY <2>2, <2>3, <3>2, MessageAdded DEF ErrorIsDeadLettered
  <2>5. CASE ~(worker[w].retries < MaxRetries)
    <3>1. dropped' = [dropped EXCEPT ![g] = @ \cup {"retries"}] /\ UNCHANGED queue
      BY <1>4, <2>1, <2>5 DEF TransientError
    <3>2. dropped[f] \subseteq dropped'[f]
      BY <3>1, CauseAdded DEF Causes, GivenUp, Unpushed
    <3> QED BY <2>2, <2>3, <3>1, <3>2, Frames DEF ErrorIsDeadLettered
  <2> QED BY <2>4, <2>5
<1>5. CASE SendToDlq(w)
  <2>1. \A v \in Workers \ {w} : worker'[v] = worker[v]
    BY <1>5, GotoFacts, PcFacts DEF SendToDlq
  <2>2. UNCHANGED <<status, queue, dropped>> /\ dlq' = dlq \cup {worker[w].flight}
    BY <1>5 DEF SendToDlq
  <2> QED BY <2>1, <2>2, OneTaskMoves, Frames DEF ErrorIsDeadLettered
<1>6. CASE Ack(w)
  <2>1. worker[w].pc = "acking" /\ UNCHANGED <<status, queue, dlq, dropped>>
    BY <1>6 DEF Ack
  <2>2. \A v \in Workers \ {w} : worker'[v] = worker[v]
    BY <1>6, ReleaseFacts DEF Ack
  <2> QED BY <2>1, <2>2, OneTaskMoves, Frames DEF ErrorIsDeadLettered
<1> QED BY <1>1, <1>2, <1>3, <1>4, <1>5, <1>6, PipelineSteps, VerdictSteps DEF TaskStep

LEMMA FaultDeadLettered ==
  ASSUME Typed, ErrorIsDeadLettered, NEW w \in Workers, WorkerFault(w)
  PROVE  ErrorIsDeadLettered'
<1> SUFFICES ASSUME NEW f \in Flights, status'[f] = "error"
             PROVE  \/ f \in dlq' \/ DeadLettering(f)' \/ Queued(f)'
                    \/ dropped'[f] \cap Unpushed # {}
  BY DEF ErrorIsDeadLettered
<1>a. worker[w].pc # "idle" => worker[w].flight \in Flights /\ worker[w].retries \in Attempts
  BY DEF Typed, TypeOK, Tasks, Engaged
<1>b. UNCHANGED <<status, dlq>> /\ worker[w].pc # "idle"
  BY PcFacts DEF WorkerFault, WorkerLost, HardTimeLimit, HandlerFails, CutOff, Abandon, DlqWriteFails
<1>c. \A v \in Workers \ {w} : worker'[v] = worker[v]
  BY <1>b, GotoFacts, ReleaseFacts, PcFacts
     DEF WorkerFault, WorkerLost, HardTimeLimit, HandlerFails, CutOff, Abandon, DlqWriteFails
<1>d. PICK g \in Flights : g = worker[w].flight
  BY <1>a, <1>b
<1>1. CASE WorkerLost(w)
  <2>1. PICK n \in Attempts : n = worker[w].retries
    BY <1>a, <1>b
  <2>2. queue' = [queue EXCEPT ![g][n] = @ + 1] /\ UNCHANGED dropped
    BY <1>1, <1>d, <2>1 DEF WorkerLost
  <2>3. Queued(g)' /\ (Queued(f) => Queued(f)')
    BY <2>2, MessageAdded
  <2>4. DeadLettering(f) => DeadLettering(f)' \/ f = g
    BY <1>c, <1>d, OneTaskMoves
  <2> QED BY <1>b, <2>2, <2>3, <2>4 DEF ErrorIsDeadLettered
<1>2. CASE HardTimeLimit(w) \/ HandlerFails(w)
  <2>1. PICK c \in Causes : dropped' = [dropped EXCEPT ![g] = @ \cup {c}]
    BY <1>2, <1>d DEF HardTimeLimit, HandlerFails, Abandon, Causes, GivenUp, Unpushed
  <2>2. UNCHANGED queue /\ worker[w].pc \in PipelinePcs
    BY <1>2 DEF HardTimeLimit, HandlerFails, Abandon
  <2>3. DeadLettering(f) => DeadLettering(f)'
    BY <1>c, <2>2, OneTaskMoves, PcFacts
  <2> QED BY <1>b, <2>1, <2>2, <2>3, CauseAdded, Frames DEF ErrorIsDeadLettered
<1>3. CASE CutOff(w) \/ DlqWriteFails(w)
  <2>1. /\ \E c \in Unpushed : dropped' = [dropped EXCEPT ![g] = @ \cup {c}]
        /\ UNCHANGED queue
    BY <1>3, <1>d DEF CutOff, Abandon, DlqWriteFails, Unpushed
  <2>2. dropped'[g] \cap Unpushed # {} /\ dropped[f] \subseteq dropped'[f]
    BY <2>1, CauseAdded DEF Causes
  <2>3. DeadLettering(f) => DeadLettering(f)' \/ f = g
    BY <1>c, <1>d, OneTaskMoves
  <2> QED BY <1>b, <2>1, <2>2, <2>3, Frames DEF ErrorIsDeadLettered
<1> QED BY <1>1, <1>2, <1>3 DEF WorkerFault

\* A flight in "error" has its entry in the dead-letter queue, or a task or a
\* redelivered message still owes it, or writing it failed, or a time limit or
\* an exception ended the task between the commit of "error" and the push.
THEOREM ErrorsDeadLettered == Spec => []ErrorIsDeadLettered
<1>1. Init => ErrorIsDeadLettered
  BY DEF Init, ErrorIsDeadLettered
<1>2. Typed /\ ErrorIsDeadLettered /\ [Next]_vars => ErrorIsDeadLettered'
  <2> SUFFICES ASSUME Typed, ErrorIsDeadLettered, [Next]_vars PROVE ErrorIsDeadLettered'
    OBVIOUS
  <2>1. CASE UNCHANGED vars
    BY <2>1, Frames DEF vars, ErrorIsDeadLettered
  <2>2. CASE \E f \in Flights : ClientPut(f)
    BY <2>2, Frames DEF ClientPut, ErrorIsDeadLettered
  <2>3. ASSUME NEW r \in Replicas, ApiStep(r) \/ ApiFails(r)
        PROVE  ErrorIsDeadLettered'
    BY <2>3, ApiKeeps DEF ErrorIsDeadLettered
  <2> QED BY <2>1, <2>2, <2>3, StepCases, TaskDeadLettered, FaultDeadLettered
<1> QED BY <1>1, <1>2, AlwaysTyped, PTL DEF Spec
-----------------------------------------------------------------------------
(* The column sha256 holds the hash of the flight's own content or nothing,  *)
(* and no two flights hold the same one.                                     *)
HashSound ==
    /\ \A f \in Flights : sha[f] \in {NoHash, LogOf[f]}
    /\ \A f, g \in Flights : f # g /\ sha[f] = sha[g] => sha[f] = NoHash

\* Recording the hash of a content that no other flight holds.
LEMMA HashRecorded ==
  ASSUME Typed, HashSound, NEW f \in Flights, \A g \in Flights \ {f} : sha[g] # LogOf[f],
         sha' = [sha EXCEPT ![f] = LogOf[f]]
  PROVE  HashSound'
<1>1. sha'[f] = LogOf[f] /\ \A g \in Flights \ {f} : sha'[g] = sha[g]
  BY DEF Typed, TypeOK
<1> QED BY <1>1 DEF HashSound

LEMMA HashKept == Typed /\ HashSound /\ [Next]_vars => HashSound'
<1> SUFFICES ASSUME Typed, HashSound, [Next]_vars PROVE HashSound'
  OBVIOUS
<1>1. CASE UNCHANGED sha
  BY <1>1 DEF HashSound
<1>2. ASSUME NEW r \in Replicas, DirectCreate(r)
      PROVE  HashSound'
  <2>1. PICK f \in Flights : f = api[r].flight
    BY <1>2 DEF DirectCreate, Typed, Engaged
  <2>2. CASE KnownHash(f)
    BY <1>1, <1>2, <2>1, <2>2 DEF DirectCreate
  <2>3. CASE ~KnownHash(f)
    BY <1>2, <2>1, <2>3, HashRecorded DEF DirectCreate, KnownHash
  <2> QED BY <2>2, <2>3
<1>3. ASSUME NEW w \in Workers, MarkReady(w)
      PROVE  HashSound'
  <2>1. PICK f \in Flights : f = worker[w].flight
    BY <1>3 DEF MarkReady, Typed, Engaged
  <2>2. CASE worker[w].hashed /\ ~TakenHash(f)
    BY <1>3, <2>1, <2>2, HashRecorded DEF MarkReady, TakenHash
  <2>3. CASE ~(worker[w].hashed /\ ~TakenHash(f))
    BY <1>1, <1>3, <2>1, <2>3 DEF MarkReady
  <2> QED BY <2>2, <2>3
<1>4. ASSUME NEW r \in Replicas, ApiStep(r) \/ ApiFails(r), ~DirectCreate(r)
      PROVE  UNCHANGED sha
  BY <1>4 DEF ApiStep, InitUpload, ProcessCheck, DirectReceive, ProcessCommit,
              DirectDedupe, Enqueue, ApiFails
<1>5. ASSUME NEW w \in Workers, TaskStep(w) \/ WorkerFault(w), ~MarkReady(w)
      PROVE  UNCHANGED sha
  <2>1. CASE WorkerFault(w)
    BY <2>1 DEF WorkerFault, WorkerLost, HardTimeLimit, HandlerFails, CutOff, Abandon, DlqWriteFails
  <2>2. CASE TransientError(w) \/ SendToDlq(w) \/ Ack(w)
    BY <2>2 DEF TransientError, SendToDlq, Ack
  <2>3. CASE \E f \in Flights, n \in Attempts : StartParse(w, f, n)
    BY <2>3 DEF StartParse
  <2>4. CASE PermanentError(w)
    BY <2>4 DEF PermanentError
  <2> QED BY <1>5, <2>1, <2>2, <2>3, <2>4, PipelineSteps DEF TaskStep, Onward
<1>6. CASE \E f \in Flights : ClientPut(f)
  BY <1>1, <1>6 DEF ClientPut
<1>7. CASE UNCHANGED vars
  BY <1>1, <1>7 DEF vars
<1> QED BY <1>1, <1>2, <1>3, <1>4, <1>5, <1>6, <1>7, StepCases

\* One content is never ready under two flights with a hash (ReadyOnce):
\* whichever of the racing uploads commits second is refused.
THEOREM ContentReadyOnce == Spec => []ReadyOnce
<1>1. Init => HashSound
  BY DEF Init, HashSound
<1>2. Typed /\ HashSound => ReadyOnce
  BY FlightAssumption DEF HashSound, ReadyOnce
<1> QED BY <1>1, <1>2, HashKept, AlwaysTyped, PTL DEF Spec
-----------------------------------------------------------------------------
(* The artefacts of a flight. *)

\* The points at which a task has saved an artefact.
PastSave ==
    LET end == {"complete", "publish"}
        scan == {"detect", "save_anomalies", "saving_anomalies"} \cup end
        phases == {"save_phases", "saving_phases"} \cup scan
    IN  [parsed |-> {"extract", "save_timeline", "saving_timeline"} \cup phases,
         timeline |-> phases, phases |-> scan, anomalies_fast |-> end]

\* What a running task has saved stays readable, whatever other tasks do to it.
Saved ==
    \A w \in Workers, a \in Artefacts :
        worker[w].pc \in PastSave[a] => Readable(store[worker[w].flight][a])

ReadableKept ==
    \A f \in Flights, a \in Artefacts : Readable(store[f][a]) => Readable(store'[f][a])

\* An artefact that is being replaced: a bucket object stays until the new one
\* is there, and a local file is there.
LEMMA SaveKeeps ==
  ASSUME Typed, NEW w \in Workers, NEW a \in Artefacts, BeginSave(w, a) \/ EndSave(w, a)
  PROVE  /\ ReadableKept
         /\ EndSave(w, a) => Readable(store'[worker[w].flight][a])
<1>1. PICK f \in Flights : f = worker[w].flight
  BY DEF Typed, Engaged, BeginSave, EndSave, SaveAt, SavingAt, Artefacts
<1>2. worker[w].view \in {"hollow", "whole"}
  BY DEF Typed, TypeOK, Tasks
<1>3. PICK c : /\ store' = [store EXCEPT ![f][a] = c]
               /\ Readable(store[f][a]) => Readable(c)
               /\ EndSave(w, a) => Readable(c)
  <2>1. CASE BeginSave(w, a)
    <3>1. worker[w].pc # SavingAt[a]
      BY <2>1 DEF BeginSave, SaveAt, SavingAt, Artefacts
    <3>2. store' = [store EXCEPT ![f][a] = WhileWriting(a, store[f][a])]
      BY <1>1, <2>1 DEF BeginSave
    <3>3. Readable(store[f][a]) => Readable(WhileWriting(a, store[f][a]))
      BY DEF Readable, WhileWriting
    <3> QED BY <3>1, <3>2, <3>3 DEF EndSave
  <2>2. CASE EndSave(w, a)
    <3> DEFINE c == IF a = "parsed" THEN "whole" ELSE worker[w].view
    <3>1. store' = [store EXCEPT ![f][a] = c] /\ Readable(c)
      BY <1>1, <1>2, <2>2 DEF EndSave, Readable
    <3> QED BY <3>1
  <2> QED BY <2>1, <2>2
<1>4. \A g \in Flights, b \in Artefacts :
         store'[g][b] = IF g = f /\ b = a THEN c ELSE store[g][b]
  BY <1>3 DEF Typed, TypeOK
<1> QED BY <1>1, <1>3, <1>4 DEF ReadableKept

\* A task comes past a save only by saving.
LEMMA PastSaved ==
  ASSUME Typed, NEW w \in Workers, NEW a \in Artefacts,
         TaskStep(w) \/ WorkerFault(w), worker'[w].pc \in PastSave[a]
  PROVE  /\ worker'[w].flight = worker[w].flight
         /\ worker[w].pc \in PastSave[a] \/ EndSave(w, a)
<1>a. Artefacts = {"parsed", "timeline", "phases", "anomalies_fast"}
  BY DEF Artefacts
<1>b. {"parse", "upload", "acking", "publish"} \subseteq WorkerPcs
  BY DEF WorkerPcs, PipelinePcs
<1> USE <1>a DEF PastSave
<1>1. CASE \E f \in Flights, n \in Attempts : StartParse(w, f, n)
  BY <1>1, StartFacts
<1>2. CASE WorkerLost(w) \/ HardTimeLimit(w) \/ HandlerFails(w) \/ CutOff(w) \/ Ack(w)
  BY <1>2, ReleaseFacts DEF WorkerLost, HardTimeLimit, HandlerFails, CutOff, Abandon, Ack
<1>3. CASE DlqWriteFails(w) \/ SendToDlq(w) \/ TransientError(w)
  <2>1. worker[w].pc # "idle" /\ Goto(w, "acking")
    BY <1>3 DEF DlqWriteFails, SendToDlq, TransientError, PipelinePcs
  <2>2. worker'[w].pc = "acking"
    BY <1>b, <2>1, GotoFacts
  <2> QED BY <2>2
<1>4. CASE MarkReady(w) \/ PermanentError(w)
  BY <1>4, VerdictSteps DEF Verdict
<1>5. CASE Fetch(w)
  <2>1. PICK h \in BOOLEAN : worker' = [worker EXCEPT ![w].pc = "parse", ![w].hashed = h]
    BY <1>5 DEF Fetch
  <2>2. worker[w].pc # "idle"
    BY <1>5 DEF Fetch
  <2>3. worker'[w].pc = "parse"
    BY <1>b, <2>1, <2>2, LearnFacts
  <2> QED BY <2>3
<1>6. CASE Parse(w)
  <2>1. worker'[w].pc = "upload"
    BY <1>b, <1>6, GotoFacts DEF Parse
  <2> QED BY <2>1
<1>7. CASE Complete(w)
  <2>1. worker[w].pc = "complete" /\ Goto(w, "publish")
    BY <1>7 DEF Complete
  <2>2. worker'[w].pc = "publish" /\ worker'[w].flight = worker[w].flight
    BY <1>b, <2>1, GotoFacts
  <2> QED BY <2>1, <2>2
<1>8. ASSUME NEW from \in PipelinePcs, NEW to \in PipelinePcs, ReadBack(w, from, to)
      PROVE  worker[w].pc = from /\ worker'[w].pc = to /\ worker'[w].flight = worker[w].flight
  <2>1. worker[w].pc = from /\ worker[w].pc # "idle" /\ to \in WorkerPcs
    BY <1>8, PcFacts DEF ReadBack
  <2> QED BY <1>8, <2>1, LearnFacts DEF ReadBack
<1>9. CASE Extract(w) \/ Detect(w)
  BY <1>8, <1>9, PcFacts DEF Extract, Detect
<1>10. ASSUME NEW b \in Artefacts, BeginSave(w, b)
       PROVE  worker[w].pc \in PastSave[a] /\ worker'[w].flight = worker[w].flight
  <2>1. worker[w].pc = SaveAt[b] /\ Goto(w, SavingAt[b])
    BY <1>10 DEF BeginSave
  <2>2. SaveAt[b] # "idle" /\ SavingAt[b] \in WorkerPcs
    BY PcFacts DEF SaveAt, SavingAt
  <2>3. worker'[w].pc = SavingAt[b] /\ worker'[w].flight = worker[w].flight
    BY <2>1, <2>2, GotoFacts
  <2> QED BY <2>1, <2>3 DEF SaveAt, SavingAt
<1>11. ASSUME NEW b \in Artefacts, EndSave(w, b)
       PROVE  /\ worker[w].pc \in PastSave[a] \/ EndSave(w, a)
              /\ worker'[w].flight = worker[w].flight
  <2>1. worker[w].pc = SavingAt[b] /\ Goto(w, SavedAt[b])
    BY <1>11 DEF EndSave
  <2>2. SavingAt[b] # "idle" /\ SavedAt[b] \in WorkerPcs
    BY PcFacts DEF SavingAt, SavedAt
  <2>3. worker'[w].pc = SavedAt[b] /\ worker'[w].flight = worker[w].flight
    BY <2>1, <2>2, GotoFacts
  <2>4. a = b \/ SavingAt[b] \in PastSave[a]
    BY <2>3 DEF SavingAt, SavedAt
  <2> QED BY <1>11, <2>1, <2>3, <2>4
<1> QED BY <1>1, <1>2, <1>3, <1>4, <1>5, <1>6, <1>7, <1>9, <1>10, <1>11 DEF TaskStep, WorkerFault

\* A step of one task leaves the others where they are.
LEMMA OneTaskSteps ==
  ASSUME Typed, NEW v \in Workers, TaskStep(v) \/ WorkerFault(v), NEW w \in Workers \ {v}
  PROVE  worker'[w] = worker[w]
<1> USE DEF Typed, TypeOK, Goto, Release
<1>1. CASE WorkerFault(v)
  BY <1>1 DEF WorkerFault, WorkerLost, HardTimeLimit, HandlerFails, CutOff, Abandon, DlqWriteFails
<1>2. CASE \E f \in Flights, n \in Attempts : StartParse(v, f, n)
  BY <1>2 DEF StartParse
<1>3. CASE MarkReady(v) \/ PermanentError(v)
  BY <1>3, VerdictSteps DEF Verdict
<1>4. CASE TransientError(v) \/ SendToDlq(v) \/ Ack(v)
  BY <1>4 DEF TransientError, SendToDlq, Ack
<1> QED BY <1>1, <1>2, <1>3, <1>4, PipelineSteps DEF TaskStep, Onward

\* A step that is not a task's, a save's or a verdict's leaves artefacts alone
\* and makes no flight ready.
LEMMA OthersKeep ==
  ASSUME Typed, [Next]_vars, \A w \in Workers : ~MarkReady(w),
         \A w \in Workers, a \in Artefacts : ~BeginSave(w, a) /\ ~EndSave(w, a)
  PROVE  UNCHANGED store /\ \A f \in Flights : status'[f] = "ready" => status[f] = "ready"
<1> USE DEF Typed, TypeOK
<1>1. CASE \E f \in Flights : ClientPut(f)
  BY <1>1 DEF ClientPut
<1>2. CASE UNCHANGED vars
  BY <1>2 DEF vars
<1>3. ASSUME NEW r \in Replicas, ApiStep(r) \/ ApiFails(r)
      PROVE  UNCHANGED store /\ \A f \in Flights : status'[f] = "ready" => status[f] = "ready"
  BY <1>3 DEF ApiStep, InitUpload, ProcessCheck, DirectReceive, ProcessCommit, DirectDedupe,
              DirectCreate, Enqueue, ApiFails
<1>4. ASSUME NEW w \in Workers, TaskStep(w) \/ WorkerFault(w)
      PROVE  UNCHANGED store /\ \A f \in Flights : status'[f] = "ready" => status[f] = "ready"
  BY <1>4 DEF TaskStep, WorkerFault, StartParse, Fetch, Parse, Extract, Detect, ReadBack,
              Complete, Progress, PermanentError, Fail, TransientError, SendToDlq, Ack,
              WorkerLost, HardTimeLimit, HandlerFails, CutOff, Abandon, DlqWriteFails
<1> QED BY <1>1, <1>2, <1>3, <1>4, StepCases

LEMMA SavedKept == Typed /\ Saved /\ ReadyComplete /\ [Next]_vars => Saved' /\ ReadyComplete'
<1> SUFFICES ASSUME Typed, Saved, ReadyComplete, [Next]_vars PROVE Saved' /\ ReadyComplete'
  OBVIOUS
<1>1. ReadableKept
  <2>1. CASE \E w \in Workers, a \in Artefacts : BeginSave(w, a) \/ EndSave(w, a)
    BY <2>1, SaveKeeps
  <2>2. CASE \E w \in Workers : MarkReady(w)
    BY <2>2 DEF MarkReady, ReadableKept
  <2>3. CASE ~\E w \in Workers : MarkReady(w) \/ \E a \in Artefacts : BeginSave(w, a) \/ EndSave(w, a)
    BY <2>3, OthersKeep DEF ReadableKept
  <2> QED BY <2>1, <2>2, <2>3
<1>2. ASSUME NEW w \in Workers, NEW a \in Artefacts, worker'[w].pc \in PastSave[a]
      PROVE  Readable(store'[worker'[w].flight][a])
  <2>1. CASE worker'[w] = worker[w]
    <3>1. worker[w].flight \in Flights
      BY <1>2, <2>1 DEF Typed, Engaged, PastSave, Artefacts
    <3> QED BY <1>1, <1>2, <2>1, <3>1 DEF Saved, ReadableKept
  <2>2. CASE TaskStep(w) \/ WorkerFault(w)
    <3>1. /\ worker'[w].flight = worker[w].flight
          /\ worker[w].pc \in PastSave[a] \/ EndSave(w, a)
      BY <1>2, <2>2, PastSaved
    <3>2. CASE EndSave(w, a)
      BY <3>1, <3>2, SaveKeeps
    <3>3. CASE worker[w].pc \in PastSave[a]
      <4>1. worker[w].flight \in Flights
        BY <3>3 DEF Typed, Engaged, PastSave, Artefacts
      <4> QED BY <1>1, <3>1, <3>3, <4>1 DEF Saved, ReadableKept
    <3> QED BY <3>1, <3>2, <3>3
  <2>3. worker'[w] = worker[w] \/ TaskStep(w) \/ WorkerFault(w)
    <3>1. ASSUME NEW v \in Workers, v # w, TaskStep(v) \/ WorkerFault(v)
          PROVE  worker'[w] = worker[w]
      BY <3>1, OneTaskSteps
    <3>2. CASE UNCHANGED worker
      BY <3>2
    <3>3. CASE ~UNCHANGED worker
      <4>1. ASSUME NEW r \in Replicas, ApiStep(r) \/ ApiFails(r) PROVE UNCHANGED worker
        BY <4>1 DEF ApiStep, InitUpload, ProcessCheck, DirectReceive, ProcessCommit,
                    DirectDedupe, DirectCreate, Enqueue, ApiFails
      <4>2. ASSUME NEW f \in Flights, ClientPut(f) PROVE UNCHANGED worker
        BY <4>2 DEF ClientPut
      <4>3. Next
        BY <3>3 DEF vars
      <4> QED BY <3>1, <3>3, <4>1, <4>2, <4>3, StepCases
    <3> QED BY <3>2, <3>3
  <2> QED BY <2>1, <2>2, <2>3
<1>3. ASSUME NEW f \in Flights, status'[f] = "ready", NEW a \in Artefacts
      PROVE  Readable(store'[f][a])
  <2>1. CASE status[f] = "ready"
    BY <1>1, <2>1 DEF ReadyComplete, ReadableKept
  <2>2. CASE status[f] # "ready"
    <3>1. PICK w \in Workers : MarkReady(w) \/ \E b \in Artefacts : BeginSave(w, b) \/ EndSave(w, b)
      BY <1>3, <2>2, OthersKeep
    <3>2. CASE \E b \in Artefacts : BeginSave(w, b) \/ EndSave(w, b)
      BY <1>3, <2>2, <3>2 DEF BeginSave, EndSave, Progress, Typed, TypeOK
    <3>3. CASE MarkReady(w)
      <4>1. worker[w].pc = "publish" /\ worker[w].flight \in Flights /\ UNCHANGED store
        BY <3>3 DEF MarkReady, Typed, Engaged
      <4>2. f = worker[w].flight
        BY <1>3, <2>2, <3>3 DEF MarkReady, Fail, Typed, TypeOK
      <4>3. "publish" \in PastSave[a]
        BY DEF PastSave, Artefacts
      <4> QED BY <4>1, <4>2, <4>3 DEF Saved
    <3> QED BY <3>1, <3>2, <3>3
  <2> QED BY <2>1, <2>2
<1>4. Saved'
  BY <1>2 DEF Saved
<1>5. ReadyComplete'
  BY <1>3 DEF ReadyComplete
<1> QED BY <1>4, <1>5

\* However many tasks parse one flight again, are cut off or die while they
\* write: a flight that is ready has all its artefacts, and with a bucket none
\* is half written (pipeline/ingestion.py, storage/parquet_store.py).
THEOREM ReadyFlightsComplete == Spec => []ReadyComplete
<1>1. Init => Saved /\ ReadyComplete
  BY DEF Init, Saved, ReadyComplete, IdleWorker, PastSave, Artefacts
<1> QED BY <1>1, SavedKept, AlwaysTyped, PTL DEF Spec

-----------------------------------------------------------------------------
(* The flight lifecycle implements FlightContract where nothing fails and the  *)
(* check and the commit of a request cannot be interleaved with another's: for *)
(* any numbers of flights, contents and pool slots, and any retry limit.       *)

\* Nothing fails; with a bucket there is one API process. With local files there
\* may be any number, for a flight id is known only to the request that made it.
Reliable == MaxFaults = 0 /\ (GcsMode => \A q, r \in Replicas : q = r)

\* A request, and a task, at work on a flight.
Handling(r, f) == api[r].pc # "idle" /\ api[r].flight = f
Parses(w, f)   == worker[w].pc \in PipelinePcs /\ worker[w].flight = f

\* A flight is in one place at a time, ...
Solo(f) ==
    /\ \A q, r \in Replicas : Handling(q, f) /\ Handling(r, f) => q = r
    /\ \A v, w \in Workers : Parses(v, f) /\ Parses(w, f) => v = w
    /\ \A n, m \in Attempts :
          queue[f][n] > 0 /\ queue[f][m] > 0 => n = m /\ queue[f][n] = 1
    /\ Queued(f) => \A w \in Workers : ~Parses(w, f)

\* ... and its status says where.
Synced(f) ==
    /\ \A r \in Replicas : Handling(r, f) =>
          \/ api[r].pc \in {"received", "unknown"} /\ status[f] = "absent"
          \/ api[r].pc = "checked" /\ status[f] = "pending_upload"
          \/ api[r].pc = "committed" /\ status[f] = "uploaded" /\ ~Queued(f)
    /\ Queued(f) => status[f] \in {"uploaded", "parsing"}
    /\ \A w \in Workers : Parses(w, f) => status[f] = "parsing"

Placed == \A f \in Flights : Solo(f) /\ Synced(f)

Refines == [Contract!Next]_(Contract!vars)

-----------------------------------------------------------------------------
\* A flight on which a step does not work.
LEMMA Elsewhere ==
  ASSUME NEW f \in Flights, Solo(f), Synced(f),
         status'[f] = status[f], queue'[f] = queue[f],
         \A r \in Replicas : Handling(r, f)' => Handling(r, f) /\ api'[r].pc = api[r].pc,
         \A w \in Workers : Parses(w, f)' => Parses(w, f)
  PROVE  Solo(f)' /\ Synced(f)'
<1>1. Queued(f)' <=> Queued(f)
  BY DEF Queued
<1> QED BY <1>1 DEF Solo, Synced

\* A step that clients do not see.
LEMMA Unseen == UNCHANGED <<status, sha>> => Refines
  BY DEF Refines, Contract!vars

\* A flight whose hash is recorded owns its content.
Owners == {f \in Flights : sha[f] # NoHash}

LEMMA OwnersGrow ==
  ASSUME Typed, NEW f \in Flights,
         UNCHANGED sha \/ sha' = [sha EXCEPT ![f] = LogOf[f]]
  PROVE  Owners' \in {Owners, Owners \cup {f}}
<1>1. CASE UNCHANGED sha
  BY <1>1 DEF Owners
<1>2. CASE sha' = [sha EXCEPT ![f] = LogOf[f]]
  <2>1. sha'[f] # NoHash /\ \A g \in Flights \ {f} : sha'[g] = sha[g]
    <3>1. LogOf[f] \in Logs /\ LogOf[f] # NoHash
      BY FlightAssumption
    <3>2. sha \in [Flights -> Logs \cup {NoHash}]
      BY DEF Typed, TypeOK
    <3>3. sha'[f] = LogOf[f] /\ \A g \in Flights \ {f} : sha'[g] = sha[g]
      BY <1>2, <3>2
    <3> QED BY <3>1, <3>3
  <2>2. Owners' = Owners \cup {f}
    BY <2>1 DEF Owners
  <2> QED BY <2>2
<1> QED BY <1>1, <1>2

\* The first message of a flight is the only one.
LEMMA OneMessage ==
  ASSUME Typed, NEW f \in Flights, ~Queued(f), NEW k \in Attempts,
         queue' = [queue EXCEPT ![f][k] = @ + 1]
  PROVE  \A n, m \in Attempts :
            queue'[f][n] > 0 /\ queue'[f][m] > 0 => n = m /\ queue'[f][n] = 1
<1>1. queue \in [Flights -> [Attempts -> Nat]]
  BY DEF Typed, TypeOK
<1>2. \A n \in Attempts : queue[f][n] = 0
  BY <1>1 DEF Queued
<1>3. \A n \in Attempts : queue'[f][n] = IF n = k THEN 1 ELSE 0
  BY <1>1, <1>2
<1> QED BY <1>3

\* No two flights own one content.
LEMMA OwnersDiffer ==
  ASSUME HashSound'
  PROVE  Contract!OneOwner'
  BY DEF HashSound, Contract!OneOwner

\* Without faults nothing is lost.
LEMMA NoFaults ==
  ASSUME Typed, Reliable
  PROVE  /\ \A r \in Replicas : ~ApiFails(r)
         /\ \A w \in Workers : ~WorkerFault(w)
<1>1. ~(faults < MaxFaults)
  BY DEF Typed, TypeOK, Reliable
<1> QED BY <1>1 DEF ApiFails, WorkerFault, WorkerLost, HardTimeLimit, HandlerFails, CutOff, Abandon,
                    DlqWriteFails
-----------------------------------------------------------------------------
(* The steps of a request. *)

\* A request turns to another point, or to another flight, and no other does.
LEMMA HandlerMoves ==
  ASSUME Placed, NEW r \in Replicas, NEW f \in Flights,
         \A q \in Replicas \ {r} : api'[q] = api[q],
         api[r].pc # "idle" => api[r].flight = f,
         api'[r].pc # "idle" => api'[r].flight = f,
         UNCHANGED worker,
         \A g \in Flights \ {f} : status'[g] = status[g] /\ queue'[g] = queue[g],
         Solo(f)', Synced(f)'
  PROVE  Placed'
<1>1. ASSUME NEW g \in Flights \ {f}
      PROVE  Solo(g)' /\ Synced(g)'
  <2>1. \A q \in Replicas : Handling(q, g)' => Handling(q, g) /\ api'[q].pc = api[q].pc
    BY DEF Handling
  <2>2. \A w \in Workers : Parses(w, g)' => Parses(w, g)
    BY DEF Parses
  <2> QED BY <2>1, <2>2, Elsewhere DEF Placed
<1> QED BY <1>1 DEF Placed

\* A flight that its request has, when neither a message nor a task has it.
LEMMA HandlerHas ==
  ASSUME Placed, NEW r \in Replicas, NEW f \in Flights,
         \A q \in Replicas \ {r} : api'[q] = api[q] /\ ~Handling(q, f),
         ~Queued(f), \A w \in Workers : ~Parses(w, f),
         UNCHANGED <<worker, queue>>,
         \/ api'[r].pc = "idle"
         \/ api'[r].pc \in {"received", "unknown"} /\ status'[f] = "absent"
         \/ api'[r].pc = "checked" /\ status'[f] = "pending_upload"
         \/ api'[r].pc = "committed" /\ status'[f] = "uploaded"
  PROVE  Solo(f)' /\ Synced(f)'
<1>1. ~Queued(f)' /\ \A w \in Workers : ~Parses(w, f)'
  BY DEF Queued, Parses
<1>2. \A q \in Replicas \ {r} : ~Handling(q, f)'
  BY DEF Handling
<1>3. \A n \in Attempts : ~(queue'[f][n] > 0)
  BY <1>1 DEF Queued
<1>4. Solo(f)'
  BY <1>1, <1>2, <1>3 DEF Solo
<1>5. Synced(f)'
  BY <1>1, <1>2 DEF Synced, Handling
<1> QED BY <1>4, <1>5

\* Before its upload is accepted a flight has neither.
LEMMA NotYet ==
  ASSUME Placed, NEW f \in Flights,
         \/ status[f] \in {"absent", "pending_upload"}
         \/ \E r \in Replicas : Handling(r, f)
  PROVE  /\ \A w \in Workers : ~Parses(w, f)
         /\ status[f] # "uploaded" => ~Queued(f)
         /\ (\E r \in Replicas : Handling(r, f)) => ~Queued(f)
  BY DEF Placed, Synced

\* The request that has a flight is the only one.
LEMMA OnlyHandler ==
  ASSUME Typed, Placed, NEW r \in Replicas, api[r].pc # "idle"
  PROVE  /\ api[r].flight \in Flights
         /\ \A q \in Replicas \ {r} : ~Handling(q, api[r].flight)
         /\ ~Queued(api[r].flight)
         /\ \A w \in Workers : ~Parses(w, api[r].flight)
         /\ api[r].pc \in {"received", "unknown"} => status[api[r].flight] = "absent"
         /\ api[r].pc = "checked" => status[api[r].flight] = "pending_upload"
         /\ api[r].pc = "committed" => status[api[r].flight] = "uploaded"
<1>1. PICK f \in Flights : f = api[r].flight
  BY DEF Typed, Engaged
<1>2. Handling(r, f)
  BY <1>1 DEF Handling
<1>3. Solo(f) /\ Synced(f)
  BY DEF Placed
<1>4. \A q \in Replicas \ {r} : ~Handling(q, f)
  BY <1>2, <1>3 DEF Solo
<1>5. ~Queued(f) /\ \A w \in Workers : ~Parses(w, f)
  BY <1>2, <1>3 DEF Synced
<1>6. /\ api[r].pc \in {"received", "unknown"} => status[f] = "absent"
      /\ api[r].pc = "checked" => status[f] = "pending_upload"
      /\ api[r].pc = "committed" => status[f] = "uploaded"
  BY <1>2, <1>3 DEF Synced
<1> QED BY <1>1, <1>4, <1>5, <1>6

\* A request for a new upload, or for the parse of one.
LEMMA InitPlaced ==
  ASSUME Typed, Reliable, Placed, HashSound', NEW r \in Replicas, NEW f \in Flights,
         InitUpload(r, f)
  PROVE  Placed' /\ Refines
<1>1. \A q \in Replicas : q = r /\ api[q].pc = "idle"
  BY DEF InitUpload, Reliable
<1>2. ~Queued(f) /\ \A w \in Workers : ~Parses(w, f)
  BY NotYet DEF InitUpload
<1>3. Solo(f)' /\ Synced(f)'
  BY <1>1, <1>2, HandlerHas DEF InitUpload
<1>4. \A g \in Flights \ {f} : status'[g] = status[g]
  BY StatusSet DEF InitUpload
<1>5. Placed'
  BY <1>1, <1>3, <1>4, HandlerMoves DEF InitUpload
<1>6. Contract!Announce(f)
  BY DEF InitUpload, Contract!Announce, Contract!Move
<1> QED BY <1>5, <1>6, OwnersDiffer DEF Refines, Contract!Next

LEMMA TakenUpPlaced ==
  ASSUME Typed, Reliable, Placed, NEW r \in Replicas, NEW f \in Flights,
         ProcessCheck(r, f) \/ DirectReceive(r, f)
  PROVE  Placed' /\ Refines
<1>1. /\ api[r].pc = "idle" /\ UNCHANGED <<status, sha, queue, worker>>
      /\ \A q \in Replicas \ {r} : api'[q] = api[q]
      /\ api'[r].flight = f
      /\ \/ status[f] = "pending_upload" /\ api'[r].pc = "checked"
         \/ status[f] = "absent" /\ api'[r].pc = "received"
  BY HandleFacts DEF ProcessCheck, DirectReceive
<1>2. \A q \in Replicas \ {r} : ~Handling(q, f)
  BY DEF ProcessCheck, DirectReceive, Reliable, Handling
<1>3. ~Queued(f) /\ \A w \in Workers : ~Parses(w, f)
  BY <1>1, NotYet
<1>4. Solo(f)' /\ Synced(f)'
  BY <1>1, <1>2, <1>3, HandlerHas
<1>5. Placed'
  BY <1>1, <1>4, HandlerMoves
<1> QED BY <1>1, <1>5, Unseen

\* The row is moved to, or created in, "uploaded".
LEMMA CommitPlaced ==
  ASSUME Typed, Placed, HashSound', NEW r \in Replicas,
         ProcessCommit(r) \/ DirectDedupe(r) \/ DirectCreate(r)
  PROVE  Placed' /\ Refines
<1>1. api[r].pc # "idle" /\ UNCHANGED <<queue, worker>>
  BY DEF ProcessCommit, DirectDedupe, DirectCreate
<1>2. PICK f \in Flights :
         /\ f = api[r].flight
         /\ \A q \in Replicas \ {r} : ~Handling(q, f)
         /\ ~Queued(f) /\ \A w \in Workers : ~Parses(w, f)
         /\ api[r].pc \in {"received", "unknown"} => status[f] = "absent"
         /\ api[r].pc = "checked" => status[f] = "pending_upload"
  BY <1>1, OnlyHandler
<1>3. CASE UNCHANGED <<status, sha>> /\ ~ProcessCommit(r)
  <2>1. \/ Return(r)
        \/ Handle(r, "unknown", f) /\ status[f] = "absent"
        \/ Handle(r, "committed", f) /\ status' = [status EXCEPT ![f] = "uploaded"]
    BY <1>2, <1>3 DEF DirectDedupe, DirectCreate
  <2>2. /\ \A q \in Replicas \ {r} : api'[q] = api[q]
        /\ \/ api'[r].pc = "idle"
           \/ api'[r].pc = "unknown" /\ api'[r].flight = f /\ status'[f] = "absent"
           \/ api'[r].pc = "committed" /\ api'[r].flight = f /\ status'[f] = "uploaded"
    <3>1. CASE Return(r)
      BY <3>1, ReturnFacts
    <3>2. CASE Handle(r, "unknown", f) /\ status[f] = "absent"
      BY <1>3, <3>2, HandleFacts
    <3>3. CASE Handle(r, "committed", f) /\ status' = [status EXCEPT ![f] = "uploaded"]
      BY <3>3, HandleFacts, StatusSet
    <3> QED BY <2>1, <3>1, <3>2, <3>3
  <2>3. Solo(f)' /\ Synced(f)'
    BY <1>1, <1>2, <2>2, HandlerHas
  <2>4. Placed'
    BY <1>1, <1>2, <1>3, <2>2, <2>3, HandlerMoves
  <2> QED BY <1>3, <2>4, Unseen
<1>4. CASE ~UNCHANGED <<status, sha>> \/ ProcessCommit(r)
  <2>1. /\ Handle(r, "committed", f)
        /\ status' = [status EXCEPT ![f] = "uploaded"]
        /\ status[f] \in {"absent", "pending_upload"}
        /\ UNCHANGED sha \/ sha' = [sha EXCEPT ![f] = LogOf[f]]
    BY <1>2, <1>4 DEF ProcessCommit, DirectDedupe, DirectCreate
  <2>2. /\ \A q \in Replicas \ {r} : api'[q] = api[q]
        /\ api'[r].pc = "committed" /\ api'[r].flight = f /\ status'[f] = "uploaded"
        /\ \A g \in Flights \ {f} : status'[g] = status[g]
    BY <2>1, HandleFacts, StatusSet
  <2>3. Solo(f)' /\ Synced(f)'
    BY <1>1, <1>2, <2>2, HandlerHas
  <2>4. Placed'
    BY <1>1, <1>2, <2>2, <2>3, HandlerMoves
  <2>5. Owners' \in {Owners, Owners \cup {f}}
    BY <2>1, OwnersGrow
  <2>6. Contract!Submit(f)
    BY <2>1, <2>5 DEF Contract!Submit, Contract!Move, Owners
  <2> QED BY <2>4, <2>6, OwnersDiffer DEF Refines, Contract!Next
<1> QED BY <1>3, <1>4

\* The parse is requested.
LEMMA EnqueuePlaced ==
  ASSUME Typed, Placed, NEW r \in Replicas, Enqueue(r)
  PROVE  Placed' /\ Refines
<1>1. PICK f \in Flights :
         /\ f = api[r].flight
         /\ \A q \in Replicas \ {r} : ~Handling(q, f)
         /\ ~Queued(f) /\ \A w \in Workers : ~Parses(w, f)
         /\ status[f] = "uploaded"
  BY OnlyHandler DEF Enqueue
<1>2. /\ queue' = [queue EXCEPT ![f][0] = @ + 1]
      /\ UNCHANGED <<status, sha, worker>>
      /\ api'[r].pc = "idle" /\ \A q \in Replicas \ {r} : api'[q] = api[q]
  BY <1>1, ReturnFacts DEF Enqueue
<1>3. 0 \in Attempts
  BY FlightAssumption DEF Attempts
<1>4. \A g \in Flights \ {f} : queue'[g] = queue[g]
  BY <1>2 DEF Typed, TypeOK
<1>5. Solo(f)' /\ Synced(f)'
  <2>1. \A n, m \in Attempts : queue'[f][n] > 0 /\ queue'[f][m] > 0 => n = m /\ queue'[f][n] = 1
    BY <1>1, <1>2, <1>3, OneMessage
  <2>2. \A q \in Replicas : ~Handling(q, f)'
    BY <1>1, <1>2 DEF Handling
  <2>3. \A w \in Workers : ~Parses(w, f)'
    BY <1>1, <1>2 DEF Parses
  <2> QED BY <1>1, <1>2, <2>1, <2>2, <2>3 DEF Solo, Synced
<1>6. Placed'
  BY <1>1, <1>2, <1>4, <1>5, HandlerMoves DEF Enqueue
<1> QED BY <1>2, <1>6, Unseen
-----------------------------------------------------------------------------
(* The steps of a task. *)

\* What is known of the flight that a task parses.
LEMMA OnlyTask ==
  ASSUME Typed, Placed, NEW w \in Workers, worker[w].pc \in PipelinePcs
  PROVE  /\ worker[w].flight \in Flights
         /\ status[worker[w].flight] = "parsing"
         /\ ~Queued(worker[w].flight)
         /\ \A v \in Workers \ {w} : ~Parses(v, worker[w].flight)
         /\ \A r \in Replicas : ~Handling(r, worker[w].flight)
<1>1. PICK f \in Flights : f = worker[w].flight
  BY PcFacts DEF Typed, Engaged
<1>2. Parses(w, f)
  BY <1>1 DEF Parses
<1>3. Solo(f) /\ Synced(f)
  BY DEF Placed
<1>4. status[f] = "parsing" /\ ~Queued(f)
  BY <1>2, <1>3 DEF Solo, Synced
<1>5. \A v \in Workers \ {w} : ~Parses(v, f)
  BY <1>2, <1>3 DEF Solo
<1>6. \A r \in Replicas : ~Handling(r, f)
  BY <1>3, <1>4 DEF Synced
<1> QED BY <1>1, <1>4, <1>5, <1>6

\* A task that works on no other flight than before leaves the others alone.
LEMMA TaskMoves ==
  ASSUME Placed, NEW w \in Workers, NEW f \in Flights,
         \A v \in Workers \ {w} : worker'[v] = worker[v],
         worker'[w].pc \in PipelinePcs => worker'[w].flight = f,
         UNCHANGED api,
         \A g \in Flights \ {f} : status'[g] = status[g] /\ queue'[g] = queue[g],
         Solo(f)', Synced(f)'
  PROVE  Placed'
<1>1. ASSUME NEW g \in Flights \ {f}
      PROVE  Solo(g)' /\ Synced(g)'
  <2>1. \A r \in Replicas : Handling(r, g)' => Handling(r, g) /\ api'[r].pc = api[r].pc
    BY DEF Handling
  <2>2. \A v \in Workers : Parses(v, g)' => Parses(v, g)
    BY DEF Parses
  <2> QED BY <2>1, <2>2, Elsewhere DEF Placed
<1> QED BY <1>1 DEF Placed

\* A pool slot takes the only message of a flight.
LEMMA StartPlaced ==
  ASSUME Typed, Placed, HashSound', NEW w \in Workers, NEW f \in Flights,
         NEW n \in Attempts, StartParse(w, f, n)
  PROVE  Placed' /\ Refines
<1>1. /\ worker'[w].pc \in PipelinePcs /\ worker'[w].flight = f
      /\ \A v \in Workers \ {w} : worker'[v] = worker[v]
  BY StartFacts, PcFacts
<1>2. queue \in [Flights -> [Attempts -> Nat]] /\ queue[f][n] > 0 /\ Queued(f)
  BY DEF Typed, TypeOK, StartParse, Queued
<1>3. Solo(f) /\ Synced(f)
  BY DEF Placed
<1>4. /\ \A v \in Workers : ~Parses(v, f)
      /\ \A r \in Replicas : ~Handling(r, f)
      /\ status[f] \in {"uploaded", "parsing"}
  <2>1. (\A v \in Workers : ~Parses(v, f)) /\ status[f] \in {"uploaded", "parsing"}
    BY <1>2, <1>3 DEF Solo, Synced
  <2>2. \A r \in Replicas : ~Handling(r, f)
    BY <1>2, <1>3, <2>1 DEF Synced
  <2> QED BY <2>1, <2>2
<1>5. \A m \in Attempts : queue'[f][m] = 0
  <2>1. \A m \in Attempts : queue[f][m] = IF m = n THEN 1 ELSE 0
    BY <1>2, <1>3 DEF Solo
  <2>2. \A m \in Attempts : queue'[f][m] = IF m = n THEN queue[f][n] - 1 ELSE queue[f][m]
    BY <1>2 DEF StartParse
  <2> QED BY <2>1, <2>2
<1>6. \A g \in Flights \ {f} : status'[g] = status[g] /\ queue'[g] = queue[g]
  BY <1>2, StatusSet DEF StartParse
<1>7. status'[f] = "parsing" /\ UNCHANGED <<sha, api>>
  BY StatusSet DEF StartParse
<1>8. ~Queued(f)' /\ \A r \in Replicas : ~Handling(r, f)'
  BY <1>4, <1>5, <1>7 DEF Queued, Handling
<1>9. \A v \in Workers : Parses(v, f)' => v = w
  BY <1>1, <1>4 DEF Parses
<1>10. Solo(f)' /\ Synced(f)'
  BY <1>5, <1>7, <1>8, <1>9 DEF Solo, Synced
<1>11. Placed'
  BY <1>1, <1>6, <1>7, <1>10, TaskMoves
<1>12. CASE status[f] = "parsing"
  <2>1. UNCHANGED status
    BY <1>12 DEF StartParse, Typed, TypeOK
  <2> QED BY <1>7, <1>11, <2>1, Unseen
<1>13. CASE status[f] = "uploaded"
  <2>1. Contract!Start(f)
    BY <1>7, <1>13 DEF StartParse, Contract!Start, Contract!Move
  <2> QED BY <1>11, <2>1, OwnersDiffer DEF Refines, Contract!Next
<1> QED BY <1>4, <1>11, <1>12, <1>13

LEMMA OnwardPlaced ==
  ASSUME Typed, Placed, NEW w \in Workers, Onward(w)
  PROVE  Placed' /\ Refines
<1>1. UNCHANGED status
  <2>1. status[worker[w].flight] = "parsing" /\ worker[w].flight \in Flights
    BY OnlyTask DEF Onward
  <2> QED BY <2>1 DEF Onward, Progress, Typed, TypeOK
<1>2. \A f \in Flights, v \in Workers : Parses(v, f)' => Parses(v, f)
  BY DEF Parses, Onward
<1>3. \A f \in Flights, r \in Replicas :
         Handling(r, f)' => Handling(r, f) /\ api'[r].pc = api[r].pc
  BY DEF Handling, Onward
<1>4. Placed'
  BY <1>1, <1>2, <1>3, Elsewhere DEF Placed, Onward
<1> QED BY <1>1, <1>4, Unseen DEF Onward

\* A verdict takes the flight out of the hands of its only task.
LEMMA VerdictPlaced ==
  ASSUME Typed, Placed, HashSound', NEW w \in Workers, MarkReady(w) \/ PermanentError(w)
  PROVE  Placed' /\ Refines
<1>1. Verdict(w)
  BY VerdictSteps
<1>2. PICK f \in Flights :
         /\ f = worker[w].flight /\ status[f] = "parsing" /\ ~Queued(f)
         /\ \A v \in Workers \ {w} : ~Parses(v, f)
         /\ \A r \in Replicas : ~Handling(r, f)
  BY <1>1, OnlyTask DEF Verdict
<1>3. /\ worker'[w].pc \notin PipelinePcs /\ UNCHANGED <<api, queue>>
      /\ \A v \in Workers \ {w} : worker'[v] = worker[v]
  BY <1>1, PcFacts DEF Verdict
<1>4. /\ \A v \in Workers : ~Parses(v, f)'
      /\ \A r \in Replicas : ~Handling(r, f)'
      /\ ~Queued(f)'
  BY <1>2, <1>3 DEF Parses, Handling, Queued
<1>5. Solo(f)' /\ Synced(f)'
  <2>1. \A n \in Attempts : ~(queue'[f][n] > 0)
    BY <1>4 DEF Queued
  <2> QED BY <1>4, <2>1 DEF Solo, Synced
<1>6. \A g \in Flights \ {f} : status'[g] = status[g]
  BY <1>1, <1>2, StatusSet DEF Verdict
<1>7. Placed'
  BY <1>3, <1>5, <1>6, TaskMoves
<1>8. Contract!Accept(f) \/ Contract!Reject(f)
  <2>1. \/ status' = [status EXCEPT ![f] = "error"] /\ UNCHANGED sha
        \/ /\ status' = [status EXCEPT ![f] = "ready"]
           /\ UNCHANGED sha \/ sha' = [sha EXCEPT ![f] = LogOf[f]]
    BY <1>2 DEF MarkReady, PermanentError, Fail
  <2>2. CASE status' = [status EXCEPT ![f] = "error"] /\ UNCHANGED sha
    BY <1>2, <2>2 DEF Contract!Reject, Contract!Move
  <2>3. CASE /\ status' = [status EXCEPT ![f] = "ready"]
             /\ UNCHANGED sha \/ sha' = [sha EXCEPT ![f] = LogOf[f]]
    <3>1. Owners' \in {Owners, Owners \cup {f}}
      BY <2>3, OwnersGrow
    <3> QED BY <1>2, <2>3, <3>1 DEF Contract!Accept, Contract!Move, Owners
  <2> QED BY <2>1, <2>2, <2>3
<1> QED BY <1>7, <1>8, OwnersDiffer DEF Refines, Contract!Next

\* A retry puts the flight back into the queue, or leaves it to nobody.
LEMMA TransientPlaced ==
  ASSUME Typed, Placed, NEW w \in Workers, TransientError(w)
  PROVE  Placed' /\ Refines
<1>1. PICK f \in Flights :
         /\ f = worker[w].flight /\ status[f] = "parsing" /\ ~Queued(f)
         /\ \A v \in Workers \ {w} : ~Parses(v, f)
         /\ \A r \in Replicas : ~Handling(r, f)
  BY OnlyTask DEF TransientError
<1>2. /\ worker'[w].pc \notin PipelinePcs /\ UNCHANGED <<status, sha, api>>
      /\ \A v \in Workers \ {w} : worker'[v] = worker[v]
  BY PcFacts, GotoFacts DEF TransientError
<1>3. /\ \A v \in Workers : ~Parses(v, f)'
      /\ \A r \in Replicas : ~Handling(r, f)'
  BY <1>1, <1>2 DEF Parses, Handling
<1>4. /\ \A g \in Flights \ {f} : queue'[g] = queue[g]
      /\ \A n, m \in Attempts : queue'[f][n] > 0 /\ queue'[f][m] > 0 => n = m /\ queue'[f][n] = 1
  <2>1. CASE worker[w].retries < MaxRetries
    <3>1. PICK k \in Attempts : k = worker[w].retries + 1
      BY <2>1, FlightAssumption DEF Typed, TypeOK, Tasks, Attempts
    <3>2. queue' = [queue EXCEPT ![f][k] = @ + 1]
      BY <1>1, <2>1, <3>1 DEF TransientError
    <3> QED BY <1>1, <3>2, OneMessage DEF Typed, TypeOK
  <2>2. CASE ~(worker[w].retries < MaxRetries)
    <3>1. UNCHANGED queue
      BY <2>2 DEF TransientError
    <3> QED BY <1>1, <3>1 DEF Queued
  <2> QED BY <2>1, <2>2
<1>5. Solo(f)' /\ Synced(f)'
  BY <1>1, <1>2, <1>3, <1>4 DEF Solo, Synced
<1>6. Placed'
  BY <1>2, <1>4, <1>5, TaskMoves
<1> QED BY <1>2, <1>6, Unseen

LEMMA EndPlaced ==
  ASSUME Typed, Placed, NEW w \in Workers, SendToDlq(w) \/ Ack(w)
  PROVE  Placed' /\ Refines
<1>1. /\ worker'[w].pc \notin PipelinePcs /\ UNCHANGED <<status, sha, api, queue>>
      /\ \A v \in Workers \ {w} : worker'[v] = worker[v]
  BY PcFacts, GotoFacts, ReleaseFacts DEF SendToDlq, Ack
<1>2. \A f \in Flights, v \in Workers : Parses(v, f)' => Parses(v, f)
  BY <1>1 DEF Parses
<1>3. \A f \in Flights, r \in Replicas :
         Handling(r, f)' => Handling(r, f) /\ api'[r].pc = api[r].pc
  BY <1>1 DEF Handling
<1>4. Placed'
  BY <1>1, <1>2, <1>3, Elsewhere DEF Placed
<1> QED BY <1>1, <1>4, Unseen
-----------------------------------------------------------------------------
LEMMA InitRefines == Init => Placed /\ Contract!Init
<1> SUFFICES ASSUME Init PROVE Placed /\ Contract!Init
  OBVIOUS
<1>1. ASSUME NEW f \in Flights
      PROVE  Solo(f) /\ Synced(f)
  <2>1. \A n \in Attempts : queue[f][n] = 0
    BY DEF Init
  <2>2. \A r \in Replicas : ~Handling(r, f)
    BY DEF Init, Handling, IdleApi
  <2>3. \A w \in Workers : ~Parses(w, f)
    <3>1. \A w \in Workers : worker[w].pc = "idle"
      BY DEF Init, IdleWorker
    <3> QED BY <3>1, PcFacts DEF Parses
  <2> QED BY <2>1, <2>2, <2>3 DEF Solo, Synced, Queued
<1>2. Contract!Init
  BY DEF Init, Contract!Init
<1> QED BY <1>1, <1>2 DEF Placed

LEMMA NextRefines ==
  Typed /\ HashSound /\ Reliable /\ Placed /\ [Next]_vars => Placed' /\ Refines
<1> SUFFICES ASSUME Typed, HashSound, Reliable, Placed, [Next]_vars PROVE Placed' /\ Refines
  OBVIOUS
<1>1. HashSound'
  BY HashKept
<1>2. ASSUME NEW r \in Replicas, ApiStep(r)
      PROVE  Placed' /\ Refines
  BY <1>1, <1>2, InitPlaced, TakenUpPlaced, CommitPlaced, EnqueuePlaced DEF ApiStep
<1>3. ASSUME NEW w \in Workers, TaskStep(w)
      PROVE  Placed' /\ Refines
  BY <1>1, <1>3, StartPlaced, PipelineSteps, OnwardPlaced, VerdictPlaced, TransientPlaced,
     EndPlaced DEF TaskStep
<1>4. CASE UNCHANGED vars \/ \E f \in Flights : ClientPut(f)
  <2>1. UNCHANGED <<status, sha, api, queue, worker>>
    BY <1>4 DEF vars, ClientPut
  <2>2. Placed'
    BY <2>1 DEF Placed, Solo, Synced, Handling, Parses, Queued
  <2> QED BY <2>1, <2>2, Unseen
<1> QED BY <1>2, <1>3, <1>4, StepCases, NoFaults

\* Racing requests, duplicate uploads and retries: the status only moves forward,
\* the parse is done once, its verdict is final and a content has one owner, as
\* long as nothing fails, with local files for any number of API processes, with
\* a bucket for one (process_flight commits a check made in another transaction).
THEOREM FlightImplementsContract == Reliable /\ Spec => ContractKept
<1>1. Reliable => Reliable'
  BY DEF Reliable
<1>2. Init => HashSound
  BY DEF Init, HashSound
<1> QED BY <1>1, <1>2, InitRefines, NextRefines, HashKept, AlwaysTyped, PTL
        DEF Spec, ContractKept, Refines, Contract!Spec
=============================================================================
