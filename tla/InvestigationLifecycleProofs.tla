-------------------- MODULE InvestigationLifecycleProofs --------------------
(* Safety of the life of an investigation, for any number of investigations, *)
(* pool slots and streams, any retry limit and any number of faults.         *)
EXTENDS InvestigationLifecycle, FiniteSetTheorems, TLAPS

Task == [pc : WorkerPcs, inv : Investigations \cup {NoInv},
         retries : Attempts, degraded : BOOLEAN, limited : BOOLEAN,
         verdict : Failed \cup {"none"}]

\* A task is about an investigation, and retries only while a retry is left.
Engaged ==
    \A w \in Workers :
        /\ worker[w].pc # "idle" => worker[w].inv \in Investigations
        /\ worker[w].pc = "retry" => worker[w].retries < MaxRetries

Typed == TypeOK /\ Engaged

\* What is announced has happened.
Announced(w) ==
    LET i == worker[w].inv IN
    /\ worker[w].pc = "publish" => result[i] # "none"
    /\ worker[w].pc = "publish_error" => i \in dlq \/ "dlq_write" \in dropped[i]

\* What a stream was told is so.
Told(c) ==
    LET i == stream[c].inv IN
    /\ stream[c].state \in {"complete", "error"} => i \in Investigations
    /\ stream[c].state = "complete" => result[i] # "none"
    /\ stream[c].state = "error" => i \in dlq \/ "dlq_write" \in dropped[i]

Truthful == (\A c \in Clients : Told(c)) /\ \A w \in Workers : Announced(w)

\* A task that has written its outcome no longer accounts for the status, which
\* another may have written since.
Active == {"queued", "running", "retrying"}

Busy == (TaskPcs \ {"publish"}) \cup {"winding_up", "retry"}

HeldBy(i) == i \in creating \/ Queued(i) \/ At(i, Busy)

Held ==
    \A i \in Investigations :
        status[i] \in Active => HeldBy(i) \/ GivenUp(i)

Inv == Typed /\ Truthful /\ Held

\* What was recorded or found is not taken back, ...
Recorded ==
    /\ dlq \subseteq dlq'
    /\ \A i \in Investigations :
          /\ dropped[i] \subseteq dropped'[i]
          /\ result[i] # "none" => result'[i] # "none"

\* ... and neither is what was queued.
Grows ==
    /\ Recorded
    /\ creating \subseteq creating'
    /\ \A i \in Investigations, n \in Attempts : queue[i][n] > 0 => queue'[i][n] > 0

-----------------------------------------------------------------------------
LEMMA Parameters ==
  /\ MaxRetries \in Nat /\ MaxFaults \in Nat
  /\ 0 \in Attempts /\ \A n \in Attempts : n < MaxRetries => n + 1 \in Attempts
  /\ IdleWorker \in Task /\ IdleWorker.pc = "idle"
<1>1. /\ MaxRetries \in Nat /\ MaxFaults \in Nat
      /\ 0 \in Attempts /\ \A n \in Attempts : n < MaxRetries => n + 1 \in Attempts
  BY InvestigationAssumption DEF Attempts
<1>2. IdleWorker \in Task /\ IdleWorker.pc = "idle"
  BY <1>1 DEF IdleWorker, Task, WorkerPcs
<1> QED BY <1>1, <1>2

\* One task moves: what a step has to show for it.
LEMMA Move ==
  ASSUME Typed, NEW w \in Workers, NEW q \in Task, worker' = [worker EXCEPT ![w] = q],
         q.pc # "idle" => q.inv \in Investigations,
         q.pc = "retry" => q.retries < MaxRetries
  PROVE  /\ worker' \in [Workers -> Task]
         /\ worker'[w] = q
         /\ \A v \in Workers : v # w => worker'[v] = worker[v]
         /\ Engaged'
<1>1. worker \in [Workers -> Task]
  BY DEF Typed, TypeOK, Task
<1>2. /\ worker' \in [Workers -> Task] /\ worker'[w] = q
      /\ \A v \in Workers : v # w => worker'[v] = worker[v]
  BY <1>1
<1> QED BY <1>2 DEF Typed, Engaged

LEMMA WorkerFacts ==
  ASSUME Typed, NEW w \in Workers
  PROVE  /\ worker \in [Workers -> Task] /\ worker[w] \in Task
         /\ worker[w].pc \in WorkerPcs /\ worker[w].retries \in Attempts
         /\ worker[w].pc # "idle" => worker[w].inv \in Investigations
  BY DEF Typed, TypeOK, Engaged, Task

\* A task that goes to another point of its program ...
LEMMA GotoFacts ==
  ASSUME Typed, NEW w \in Workers, worker[w].pc # "idle",
         NEW pc \in WorkerPcs \ {"idle"}, Goto(w, pc),
         pc = "retry" => worker[w].retries < MaxRetries
  PROVE  /\ worker' \in [Workers -> Task] /\ Engaged'
         /\ worker'[w].pc = pc /\ worker'[w].inv = worker[w].inv
         /\ \A v \in Workers : v # w => worker'[v] = worker[v]
<1> DEFINE q == [worker[w] EXCEPT !.pc = pc]
<1>1. /\ worker \in [Workers -> Task] /\ worker[w] \in Task
      /\ worker[w].inv \in Investigations
  BY WorkerFacts
<1>2. q \in Task /\ q.pc = pc /\ q.inv = worker[w].inv /\ q.retries = worker[w].retries
  BY <1>1 DEF Task
<1>3. worker' = [worker EXCEPT ![w] = q]
  BY <1>1 DEF Goto
<1> HIDE DEF q
<1>4. /\ q.pc # "idle" => q.inv \in Investigations
      /\ q.pc = "retry" => q.retries < MaxRetries
  BY <1>1, <1>2
<1>5. /\ worker' \in [Workers -> Task] /\ worker'[w] = q /\ Engaged'
      /\ \A v \in Workers : v # w => worker'[v] = worker[v]
  BY <1>2, <1>3, <1>4, Move
<1> QED BY <1>2, <1>5

\* ... with a verdict, ...
LEMMA GiveUpFacts ==
  ASSUME Typed, NEW w \in Workers, worker[w].pc # "idle", NEW s \in Failed, GiveUp(w, s)
  PROVE  /\ worker' \in [Workers -> Task] /\ Engaged'
         /\ worker'[w].pc = "dead_letter" /\ worker'[w].inv = worker[w].inv
         /\ \A v \in Workers : v # w => worker'[v] = worker[v]
<1> DEFINE q == [worker[w] EXCEPT !.pc = "dead_letter", !.verdict = s]
<1>1. /\ worker \in [Workers -> Task] /\ worker[w] \in Task
      /\ worker[w].inv \in Investigations /\ "dead_letter" \in WorkerPcs
  BY WorkerFacts DEF WorkerPcs
<1>2. q \in Task /\ q.pc = "dead_letter" /\ q.inv = worker[w].inv
  BY <1>1 DEF Task
<1>3. worker' = [worker EXCEPT ![w] = q]
  BY <1>1 DEF GiveUp
<1> HIDE DEF q
<1>4. /\ q.pc # "idle" => q.inv \in Investigations
      /\ q.pc = "retry" => q.retries < MaxRetries
  BY <1>1, <1>2
<1>5. /\ worker' \in [Workers -> Task] /\ worker'[w] = q /\ Engaged'
      /\ \A v \in Workers : v # w => worker'[v] = worker[v]
  BY <1>2, <1>3, <1>4, Move
<1> QED BY <1>2, <1>5

\* ... or with what has happened in a node.
LEMMA NodeFacts ==
  ASSUME Typed, NEW w \in Workers, worker[w].pc # "idle",
         NEW pc \in WorkerPcs \ {"idle", "retry"}, NEW b \in BOOLEAN, NEW d \in BOOLEAN,
         \/ worker' = [worker EXCEPT ![w].pc = pc, ![w].limited = b]
         \/ worker' = [worker EXCEPT ![w].pc = pc, ![w].limited = b, ![w].degraded = d]
  PROVE  /\ worker' \in [Workers -> Task] /\ Engaged'
         /\ worker'[w].pc = pc /\ worker'[w].inv = worker[w].inv
         /\ \A v \in Workers : v # w => worker'[v] = worker[v]
<1>1. /\ worker \in [Workers -> Task] /\ worker[w] \in Task
      /\ worker[w].inv \in Investigations
  BY WorkerFacts
<1>2. PICK q \in Task : /\ q.pc = pc /\ q.inv = worker[w].inv
                        /\ worker' = [worker EXCEPT ![w] = q]
  <2> DEFINE q1 == [worker[w] EXCEPT !.pc = pc, !.limited = b]
             q2 == [worker[w] EXCEPT !.pc = pc, !.limited = b, !.degraded = d]
  <2>1. /\ q1 \in Task /\ q1.pc = pc /\ q1.inv = worker[w].inv
        /\ q2 \in Task /\ q2.pc = pc /\ q2.inv = worker[w].inv
    BY <1>1 DEF Task
  <2>2. worker' = [worker EXCEPT ![w] = q1] \/ worker' = [worker EXCEPT ![w] = q2]
    BY <1>1
  <2> HIDE DEF q1, q2
  <2> QED BY <2>1, <2>2
<1>3. /\ q.pc # "idle" => q.inv \in Investigations
      /\ q.pc = "retry" => q.retries < MaxRetries
  BY <1>1, <1>2
<1>4. /\ worker' \in [Workers -> Task] /\ worker'[w] = q /\ Engaged'
      /\ \A v \in Workers : v # w => worker'[v] = worker[v]
  BY <1>2, <1>3, Move
<1> QED BY <1>2, <1>4

\* A pool slot that becomes free, and one that takes a message.
LEMMA ReleaseFacts ==
  ASSUME Typed, NEW w \in Workers, Release(w)
  PROVE  /\ worker' \in [Workers -> Task] /\ Engaged' /\ worker'[w].pc = "idle"
         /\ \A v \in Workers : v # w => worker'[v] = worker[v]
<1>1. /\ worker' \in [Workers -> Task] /\ worker'[w] = IdleWorker /\ Engaged'
      /\ \A v \in Workers : v # w => worker'[v] = worker[v]
  BY Parameters, Move DEF Release
<1> QED BY <1>1, Parameters

LEMMA StartFacts ==
  ASSUME Typed, NEW w \in Workers, NEW i \in Investigations, NEW n \in Attempts, Start(w, i, n)
  PROVE  /\ worker' \in [Workers -> Task] /\ Engaged'
         /\ worker'[w].pc = "build" /\ worker'[w].inv = i
         /\ \A v \in Workers : v # w => worker'[v] = worker[v]
<1> DEFINE q == [pc |-> "build", inv |-> i, retries |-> n, degraded |-> FALSE,
                 limited |-> FALSE, verdict |-> "none"]
<1>1. q \in Task /\ q.pc = "build" /\ q.inv = i
  BY DEF Task, WorkerPcs, TaskPcs
<1>2. worker' = [worker EXCEPT ![w] = q]
  BY DEF Start
<1> HIDE DEF q
<1>3. /\ worker' \in [Workers -> Task] /\ worker'[w] = q /\ Engaged'
      /\ \A v \in Workers : v # w => worker'[v] = worker[v]
  BY <1>1, <1>2, Move
<1> QED BY <1>1, <1>3
-----------------------------------------------------------------------------
(* Typed is inductive. *)

LEMMA InitTyped == Init => Typed
<1> SUFFICES ASSUME Init PROVE Typed
  OBVIOUS
<1>1. \A w \in Workers : worker[w] = IdleWorker
  BY DEF Init
<1>2. worker \in [Workers -> Task]
  BY Parameters DEF Init
<1>3. TypeOK
  BY <1>2, Parameters DEF Init, TypeOK, Task, Statuses, Results, NoStream
<1>4. Engaged
  BY <1>1, Parameters DEF Engaged
<1> QED BY <1>3, <1>4 DEF Typed

\* Events reach streams.
LEMMA DeliverFacts ==
  ASSUME Typed, NEW i \in Investigations, NEW event \in {"complete", "error"}, Deliver(i, event)
  PROVE  /\ stream' \in [Clients -> [state : {"none", "open", "complete", "error"},
                                     inv : Investigations \cup {NoInv}]]
         /\ \A c \in Clients : stream'[c] = [state |-> event, inv |-> i] \/ stream'[c] = stream[c]
  BY DEF Typed, TypeOK, Deliver

-----------------------------------------------------------------------------
\* What an event makes of the streams.
LEMMA DeliverTold ==
  ASSUME Typed, Truthful, NEW i \in Investigations, NEW event \in {"complete", "error"},
         Deliver(i, event), UNCHANGED <<result, dlq, dropped>>,
         event = "complete" => result[i] # "none",
         event = "error" => i \in dlq \/ "dlq_write" \in dropped[i]
  PROVE  \A c \in Clients : Told(c)'
<1> SUFFICES ASSUME NEW c \in Clients PROVE Told(c)'
  OBVIOUS
<1>1. stream'[c] = [state |-> event, inv |-> i] \/ stream'[c] = stream[c]
  BY DeliverFacts
<1>2. CASE stream'[c] = [state |-> event, inv |-> i]
  BY <1>2 DEF Told
<1>3. CASE stream'[c] = stream[c]
  BY <1>3 DEF Truthful, Told
<1> QED BY <1>1, <1>2, <1>3

\* And what becomes of them when there is none.
LEMMA UntoldTold ==
  ASSUME Typed, Truthful, Recorded, UNCHANGED stream
  PROVE  \A c \in Clients : Told(c)'
<1> SUFFICES ASSUME NEW c \in Clients PROVE Told(c)'
  OBVIOUS
<1>1. Told(c) /\ stream'[c] = stream[c]
  BY DEF Truthful
<1> QED BY <1>1 DEF Told, Recorded

\* One task moves; those who do not move account for what they did before.
LEMMA TruthMove ==
  ASSUME Typed, Truthful, Recorded, NEW w \in Workers,
         \A v \in Workers : v # w => worker'[v] = worker[v],
         Announced(w)', \A c \in Clients : Told(c)'
  PROVE  Truthful'
<1>1. ASSUME NEW v \in Workers, v # w PROVE Announced(v)'
  <2>1. worker'[v] = worker[v] /\ Announced(v)
    BY <1>1 DEF Truthful
  <2>2. worker[v].pc # "idle" => worker[v].inv \in Investigations
    BY WorkerFacts
  <2> QED BY <2>1, <2>2 DEF Announced, Recorded
<1> QED BY <1>1 DEF Truthful

LEMMA HeldMove ==
  ASSUME Typed, Held, Grows, NEW w \in Workers,
         \A v \in Workers : v # w => worker'[v] = worker[v],
         \A j \in Investigations : status'[j] \in Active => status[j] \in Active \/ HeldBy(j)',
         \A j \in Investigations :
             worker[w].pc \in Busy /\ worker[w].inv = j /\ status'[j] \in Active =>
                 HeldBy(j)' \/ GivenUp(j)'
  PROVE  Held'
<1> SUFFICES ASSUME NEW j \in Investigations, status'[j] \in Active
             PROVE  HeldBy(j)' \/ GivenUp(j)'
  BY DEF Held, Active
<1>1. CASE HeldBy(j)'
  BY <1>1
<1>2. CASE status[j] \in Active
  <2>1. HeldBy(j) \/ GivenUp(j)
    BY <1>2 DEF Held
  <2>2. GivenUp(j) => GivenUp(j)'
    BY DEF GivenUp, Grows, Recorded
  <2>3. j \in creating => HeldBy(j)'
    BY DEF HeldBy, Grows
  <2>4. Queued(j) => HeldBy(j)'
    BY DEF HeldBy, Queued, Grows
  <2>5. ASSUME At(j, Busy) PROVE HeldBy(j)' \/ GivenUp(j)'
    <3>1. PICK v \in Workers : worker[v].pc \in Busy /\ worker[v].inv = j
      BY <2>5 DEF At
    <3>2. CASE v = w
      BY <3>1, <3>2
    <3>3. CASE v # w
      BY <3>1, <3>3 DEF HeldBy, At
    <3> QED BY <3>2, <3>3
  <2> QED BY <2>1, <2>2, <2>3, <2>4, <2>5 DEF HeldBy
<1> QED BY <1>1, <1>2

\* A step of a task that keeps its investigation, ends it, or gives it up in a
\* recorded way.
LEMMA TaskInv ==
  ASSUME Inv, TypeOK', Engaged', Grows,
         NEW w \in Workers, \A v \in Workers : v # w => worker'[v] = worker[v],
         Announced(w)', UNCHANGED stream \/ \A c \in Clients : Told(c)',
         NEW i \in Investigations, i = worker[w].inv,
         \A j \in Investigations : j # i => status'[j] = status[j],
         \/ status'[i] \notin Active
         \/ HeldBy(i)'
         \/ status'[i] = status[i] /\ (worker[w].pc \notin Busy \/ GivenUp(i)')
  PROVE  Inv'
<1>1. \A c \in Clients : Told(c)'
  BY UntoldTold DEF Inv, Grows
<1>2. Truthful'
  BY <1>1, TruthMove DEF Inv, Grows
<1>3. \A j \in Investigations : status'[j] \in Active => status[j] \in Active \/ HeldBy(j)'
  OBVIOUS
<1>4. \A j \in Investigations :
          worker[w].pc \in Busy /\ worker[w].inv = j /\ status'[j] \in Active =>
              HeldBy(j)' \/ GivenUp(j)'
  OBVIOUS
<1>5. Held'
  BY <1>3, <1>4, HeldMove DEF Inv
<1> QED BY <1>2, <1>5 DEF Inv, Typed

\* A task at work holds its investigation.
LEMMA AtWork ==
  ASSUME NEW w \in Workers, NEW i \in Investigations, worker'[w].inv = i, worker'[w].pc \in Busy
  PROVE  HeldBy(i)'
  BY DEF HeldBy, At
-----------------------------------------------------------------------------
(* The steps of a task preserve the invariant. *)

LEMMA BuildInv ==
  ASSUME Inv, NEW w \in Workers, Build(w)
  PROVE  Inv'
<1>1. PICK i \in Investigations : i = worker[w].inv
  BY WorkerFacts DEF Inv, Build
<1>2. /\ worker' \in [Workers -> Task] /\ Engaged'
      /\ worker'[w].pc = "timeline" /\ worker'[w].inv = i
      /\ \A v \in Workers : v # w => worker'[v] = worker[v]
  BY <1>1, GotoFacts DEF Inv, Build, WorkerPcs, TaskPcs, Nodes
<1>3. TypeOK' /\ Grows
  BY <1>2 DEF Inv, Typed, TypeOK, Task, Build, Grows, Recorded
<1>4. Announced(w)' /\ HeldBy(i)'
  BY <1>2, AtWork DEF Announced, Busy, TaskPcs, Nodes
<1> QED BY <1>1, <1>2, <1>3, <1>4, TaskInv DEF Build

LEMMA RunNodeInv ==
  ASSUME Inv, NEW w \in Workers, NEW node \in Nodes, RunNode(w, node)
  PROVE  Inv'
<1>1. PICK i \in Investigations : i = worker[w].inv
  BY WorkerFacts DEF Inv, RunNode, Nodes
<1>2. PICK pc \in Busy \ {"retry"} : pc = NodeAfter[node] /\ pc \in WorkerPcs \ {"idle", "retry"}
  BY DEF NodeAfter, Nodes, Busy, TaskPcs, WorkerPcs
<1>3. PICK b \in BOOLEAN, d \in BOOLEAN :
         worker' = [worker EXCEPT ![w].pc = pc, ![w].limited = b, ![w].degraded = d]
  <2>1. PICK fails \in BOOLEAN, b \in {worker[w].limited, TRUE} :
           worker' = [worker EXCEPT ![w].pc = pc, ![w].limited = b,
                                    ![w].degraded = worker[w].degraded \/ fails]
    BY <1>2 DEF RunNode
  <2>2. b \in BOOLEAN
    BY <2>1, WorkerFacts DEF Inv, Task
  <2> QED BY <2>1, <2>2
<1>4. /\ worker' \in [Workers -> Task] /\ Engaged'
      /\ worker'[w].pc = pc /\ worker'[w].inv = i
      /\ \A v \in Workers : v # w => worker'[v] = worker[v]
  <2>1. Typed /\ worker[w].pc # "idle"
    BY DEF Inv, RunNode, Nodes
  <2> QED BY <1>1, <1>2, <1>3, <2>1, NodeFacts
<1>5. TypeOK' /\ Grows
  BY <1>4 DEF Inv, Typed, TypeOK, Task, RunNode, Grows, Recorded
<1>6. pc # "publish" /\ pc # "publish_error"
  BY <1>2 DEF Busy, TaskPcs, Nodes
<1>7. Announced(w)' /\ HeldBy(i)'
  BY <1>2, <1>4, <1>6, AtWork DEF Announced
<1> QED BY <1>1, <1>4, <1>5, <1>7, TaskInv DEF RunNode

LEMMA SaveAnomaliesInv ==
  ASSUME Inv, NEW w \in Workers, SaveAnomalies(w)
  PROVE  Inv'
<1>1. PICK i \in Investigations : i = worker[w].inv
  BY WorkerFacts DEF Inv, SaveAnomalies
<1>2. /\ worker' \in [Workers -> Task] /\ Engaged'
      /\ worker'[w].pc = "complete" /\ worker'[w].inv = i
      /\ \A v \in Workers : v # w => worker'[v] = worker[v]
  BY <1>1, GotoFacts DEF Inv, SaveAnomalies, WorkerPcs, TaskPcs
<1>3. inserted' \in [Investigations -> Nat]
  BY <1>1 DEF Inv, Typed, TypeOK, SaveAnomalies
<1>4. TypeOK' /\ Grows
  BY <1>2, <1>3 DEF Inv, Typed, TypeOK, Task, SaveAnomalies, Grows, Recorded
<1>5. Announced(w)' /\ HeldBy(i)'
  BY <1>2, AtWork DEF Announced, Busy, TaskPcs
<1> QED BY <1>1, <1>2, <1>4, <1>5, TaskInv DEF SaveAnomalies

LEMMA CompleteInv ==
  ASSUME Inv, NEW w \in Workers, Complete(w)
  PROVE  Inv'
<1>1. PICK i \in Investigations : i = worker[w].inv
  BY WorkerFacts DEF Inv, Complete
<1>2. /\ worker' \in [Workers -> Task] /\ Engaged'
      /\ worker'[w].pc = "publish" /\ worker'[w].inv = i
      /\ \A v \in Workers : v # w => worker'[v] = worker[v]
  BY <1>1, GotoFacts DEF Inv, Complete, WorkerPcs, TaskPcs
<1>3. /\ status' \in [Investigations -> Statuses] /\ status'[i] \notin Active
      /\ \A j \in Investigations : j # i => status'[j] = status[j]
  BY <1>1 DEF Inv, Typed, TypeOK, Complete, SetStatus, Statuses, Active
<1>4. /\ result' \in [Investigations -> Results] /\ result'[i] # "none"
      /\ \A j \in Investigations : j # i => result'[j] = result[j]
  BY <1>1 DEF Inv, Typed, TypeOK, Complete, Results
<1>5. TypeOK' /\ Grows
  BY <1>2, <1>3, <1>4 DEF Inv, Typed, TypeOK, Task, Complete, Grows, Recorded
<1>6. Announced(w)'
  BY <1>2, <1>4 DEF Announced
<1> QED BY <1>1, <1>2, <1>3, <1>5, <1>6, TaskInv DEF Complete

LEMMA PublishCompleteInv ==
  ASSUME Inv, NEW w \in Workers, PublishComplete(w)
  PROVE  Inv'
<1>1. PICK i \in Investigations : i = worker[w].inv
  BY WorkerFacts DEF Inv, PublishComplete
<1>2. /\ worker' \in [Workers -> Task] /\ Engaged'
      /\ worker'[w].pc = "acking" /\ worker'[w].inv = i
      /\ \A v \in Workers : v # w => worker'[v] = worker[v]
  BY <1>1, GotoFacts DEF Inv, PublishComplete, WorkerPcs
<1>3. Deliver(i, "complete") /\ result[i] # "none"
  BY <1>1 DEF PublishComplete, Inv, Truthful, Announced
<1>4. TypeOK' /\ Grows
  BY <1>2, <1>3, DeliverFacts DEF Inv, Typed, TypeOK, Task, PublishComplete, Grows, Recorded
<1>5. \A c \in Clients : Told(c)'
  BY <1>3, DeliverTold DEF Inv, PublishComplete
<1>6. Announced(w)' /\ worker[w].pc \notin Busy
  BY <1>2 DEF Announced, PublishComplete, Busy
<1> QED BY <1>1, <1>2, <1>4, <1>5, <1>6, TaskInv DEF PublishComplete

LEMMA GiveUpInv ==
  ASSUME Inv, NEW w \in Workers, worker[w].pc # "idle", NEW s \in Failed, GiveUp(w, s),
         faults' \in Nat
  PROVE  Inv'
<1>1. PICK i \in Investigations : i = worker[w].inv
  BY WorkerFacts DEF Inv
<1>2. /\ worker' \in [Workers -> Task] /\ Engaged'
      /\ worker'[w].pc = "dead_letter" /\ worker'[w].inv = i
      /\ \A v \in Workers : v # w => worker'[v] = worker[v]
  BY <1>1, GiveUpFacts DEF Inv
<1>3. /\ status' \in [Investigations -> Statuses] /\ status'[i] \notin Active
      /\ \A j \in Investigations : j # i => status'[j] = status[j]
  BY <1>1 DEF Inv, Typed, TypeOK, GiveUp, SetStatus, Statuses, Failed, Active
<1>4. TypeOK' /\ Grows
  BY <1>2, <1>3 DEF Inv, Typed, TypeOK, Task, GiveUp, Grows, Recorded
<1>5. Announced(w)'
  BY <1>2 DEF Announced
<1> QED BY <1>1, <1>2, <1>3, <1>4, <1>5, TaskInv DEF GiveUp

LEMMA RaisesFacts ==
  ASSUME Inv, NEW w \in Workers, NEW pcs \in SUBSET TaskPcs, Raises(w, pcs)
  PROVE  faults' \in Nat /\ worker[w].pc \in TaskPcs /\ worker[w].pc # "idle"
<1>1. faults \in Nat
  BY DEF Inv, Typed, TypeOK
<1>2. faults' = faults + 1 \/ faults' = faults
  BY DEF Raises
<1>3. worker[w].pc \in TaskPcs
  BY DEF Raises
<1> QED BY <1>1, <1>2, <1>3 DEF TaskPcs, Nodes

LEMMA SoftTimeLimitInv ==
  ASSUME Inv, NEW w \in Workers, SoftTimeLimit(w)
  PROVE  Inv'
<1>1. faults' \in Nat /\ worker[w].pc # "idle"
  BY RaisesFacts DEF SoftTimeLimit
<1>2. CASE worker[w].pc # "domain"
  BY <1>1, <1>2, GiveUpInv DEF SoftTimeLimit, Failed
<1>3. CASE worker[w].pc = "domain"
  <2>1. PICK i \in Investigations : i = worker[w].inv
    BY <1>1, WorkerFacts DEF Inv
  <2>2. /\ worker' = [worker EXCEPT ![w].pc = "winding_up", ![w].limited = TRUE]
        /\ UNCHANGED <<status, result, inserted, creating, queue, stream, dlq, dropped>>
    BY <1>3 DEF SoftTimeLimit
  <2>3. /\ worker' \in [Workers -> Task] /\ Engaged'
        /\ worker'[w].pc = "winding_up" /\ worker'[w].inv = i
        /\ \A v \in Workers : v # w => worker'[v] = worker[v]
    <3>1. Typed /\ "winding_up" \in WorkerPcs \ {"idle", "retry"}
      BY DEF Inv, WorkerPcs
    <3> QED BY <1>1, <2>1, <2>2, <3>1, NodeFacts
  <2>4. TypeOK' /\ Grows
    BY <1>1, <2>2, <2>3 DEF Inv, Typed, TypeOK, Task, Grows, Recorded
  <2>5. Announced(w)' /\ HeldBy(i)'
    BY <2>3, AtWork DEF Announced, Busy
  <2> QED BY <2>1, <2>2, <2>3, <2>4, <2>5, TaskInv
<1> QED BY <1>2, <1>3

LEMMA WindUpInv ==
  ASSUME Inv, NEW w \in Workers, WindUp(w)
  PROVE  Inv'
<1>1. faults' \in Nat /\ worker[w].pc # "idle"
  BY DEF Inv, Typed, TypeOK, WindUp
<1> QED BY <1>1, GiveUpInv DEF WindUp, Failed

LEMMA TransientErrorInv ==
  ASSUME Inv, NEW w \in Workers, TransientError(w)
  PROVE  Inv'
<1>1. faults' \in Nat /\ worker[w].pc # "idle"
  BY RaisesFacts DEF TransientError, TaskPcs, Nodes, Late
<1>2. CASE ~(worker[w].retries < MaxRetries)
  BY <1>1, <1>2, GiveUpInv DEF TransientError, Failed
<1>3. CASE worker[w].retries < MaxRetries
  <2>1. PICK i \in Investigations : i = worker[w].inv
    BY <1>1, WorkerFacts DEF Inv
  <2>2. /\ SetStatus(w, "retrying") /\ Goto(w, "retry")
        /\ UNCHANGED <<result, inserted, creating, queue, stream, dlq, dropped>>
    BY <1>3 DEF TransientError
  <2>3. /\ worker' \in [Workers -> Task] /\ Engaged'
        /\ worker'[w].pc = "retry" /\ worker'[w].inv = i
        /\ \A v \in Workers : v # w => worker'[v] = worker[v]
    BY <1>1, <1>3, <2>1, <2>2, GotoFacts DEF Inv, WorkerPcs
  <2>4. /\ status' \in [Investigations -> Statuses]
        /\ \A j \in Investigations : j # i => status'[j] = status[j]
    BY <2>1, <2>2 DEF Inv, Typed, TypeOK, SetStatus, Statuses
  <2>5. TypeOK' /\ Grows
    BY <1>1, <2>2, <2>3, <2>4 DEF Inv, Typed, TypeOK, Task, Grows, Recorded
  <2>6. Announced(w)' /\ HeldBy(i)'
    BY <2>3, AtWork DEF Announced, Busy
  <2> QED BY <2>1, <2>2, <2>3, <2>4, <2>5, <2>6, TaskInv
<1> QED BY <1>2, <1>3

LEMMA PermanentErrorInv ==
  ASSUME Inv, NEW w \in Workers, PermanentError(w)
  PROVE  Inv'
<1>1. faults' \in Nat /\ worker[w].pc # "idle"
  BY RaisesFacts DEF PermanentError, TaskPcs, Nodes, Late
<1> QED BY <1>1, GiveUpInv DEF PermanentError, Failed

\* A message more in the queue.
LEMMA Requeue ==
  ASSUME Inv, NEW i \in Investigations, NEW n \in Attempts,
         queue' = [queue EXCEPT ![i][n] = @ + 1]
  PROVE  /\ queue' \in [Investigations -> [Attempts -> Nat]] /\ Queued(i)'
         /\ \A j \in Investigations, m \in Attempts : queue[j][m] > 0 => queue'[j][m] > 0
<1>1. queue \in [Investigations -> [Attempts -> Nat]]
  BY DEF Inv, Typed, TypeOK
<1>2. /\ queue' \in [Investigations -> [Attempts -> Nat]]
      /\ \A j \in Investigations, m \in Attempts :
            queue'[j][m] = IF j = i /\ m = n THEN queue[j][m] + 1 ELSE queue[j][m]
  BY <1>1
<1>3. \A j \in Investigations, m \in Attempts : queue[j][m] \in Nat
  BY <1>1
<1>4. /\ queue'[i][n] > 0
      /\ \A j \in Investigations, m \in Attempts : queue[j][m] > 0 => queue'[j][m] > 0
  BY <1>2, <1>3
<1> QED BY <1>2, <1>4 DEF Queued

LEMMA RetryInv ==
  ASSUME Inv, NEW w \in Workers, Retry(w)
  PROVE  Inv'
<1>1. PICK i \in Investigations : i = worker[w].inv
  BY WorkerFacts DEF Inv, Retry
<1>2. PICK n \in Attempts : n = worker[w].retries + 1
  BY WorkerFacts, Parameters DEF Inv, Typed, Engaged, Retry
<1>3. /\ worker' \in [Workers -> Task] /\ Engaged'
      /\ worker'[w].pc = "acking" /\ worker'[w].inv = i
      /\ \A v \in Workers : v # w => worker'[v] = worker[v]
  BY <1>1, GotoFacts DEF Inv, Retry, WorkerPcs
<1>4. /\ queue' \in [Investigations -> [Attempts -> Nat]] /\ Queued(i)'
      /\ \A j \in Investigations, m \in Attempts : queue[j][m] > 0 => queue'[j][m] > 0
  BY <1>1, <1>2, Requeue DEF Retry
<1>5. TypeOK' /\ Grows
  BY <1>3, <1>4 DEF Inv, Typed, TypeOK, Task, Retry, Grows, Recorded
<1>6. Announced(w)' /\ HeldBy(i)'
  BY <1>3, <1>4 DEF Announced, HeldBy
<1> QED BY <1>1, <1>3, <1>5, <1>6, TaskInv DEF Retry

LEMMA SendToDlqInv ==
  ASSUME Inv, NEW w \in Workers, SendToDlq(w)
  PROVE  Inv'
<1>1. PICK i \in Investigations : i = worker[w].inv
  BY WorkerFacts DEF Inv, SendToDlq
<1>2. /\ worker' \in [Workers -> Task] /\ Engaged'
      /\ worker'[w].pc = "publish_error" /\ worker'[w].inv = i
      /\ \A v \in Workers : v # w => worker'[v] = worker[v]
  BY <1>1, GotoFacts DEF Inv, SendToDlq, WorkerPcs
<1>3. dlq' = dlq \cup {i}
  BY <1>1 DEF SendToDlq
<1>4. TypeOK' /\ Grows
  BY <1>2, <1>3 DEF Inv, Typed, TypeOK, Task, SendToDlq, Grows, Recorded
<1>5. Announced(w)'
  BY <1>2, <1>3 DEF Announced
<1>6. worker[w].pc \notin Busy
  BY DEF SendToDlq, Busy, TaskPcs, Nodes
<1> QED BY <1>1, <1>2, <1>4, <1>5, <1>6, TaskInv DEF SendToDlq

LEMMA PublishErrorInv ==
  ASSUME Inv, NEW w \in Workers, PublishError(w)
  PROVE  Inv'
<1>1. PICK i \in Investigations : i = worker[w].inv
  BY WorkerFacts DEF Inv, PublishError
<1>2. /\ worker' \in [Workers -> Task] /\ Engaged'
      /\ worker'[w].pc = "acking" /\ worker'[w].inv = i
      /\ \A v \in Workers : v # w => worker'[v] = worker[v]
  BY <1>1, GotoFacts DEF Inv, PublishError, WorkerPcs
<1>3. Announced(w)' /\ worker[w].pc \notin Busy
  BY <1>2 DEF Announced, PublishError, Busy, TaskPcs, Nodes
<1>4. CASE Deliver(i, "error") /\ UNCHANGED dropped
  <2>1. i \in dlq \/ "dlq_write" \in dropped[i]
    BY <1>1 DEF PublishError, Inv, Truthful, Announced
  <2>2. TypeOK' /\ Grows
    BY <1>2, <1>4, DeliverFacts DEF Inv, Typed, TypeOK, Task, PublishError, Grows, Recorded
  <2>3. \A c \in Clients : Told(c)'
    BY <1>4, <2>1, DeliverTold DEF Inv, PublishError
  <2> QED BY <1>1, <1>2, <1>3, <2>2, <2>3, TaskInv DEF PublishError
<1>5. CASE dropped' = [dropped EXCEPT ![i] = @ \cup {"garbled"}] /\ UNCHANGED stream
  <2>1. TypeOK' /\ Grows
    BY <1>2, <1>5 DEF Inv, Typed, TypeOK, Task, Causes, PublishError, Grows, Recorded
  <2> QED BY <1>1, <1>2, <1>3, <1>5, <2>1, TaskInv DEF PublishError
<1> QED BY <1>1, <1>4, <1>5 DEF PublishError

LEMMA AckInv ==
  ASSUME Inv, NEW w \in Workers, Ack(w)
  PROVE  Inv'
<1>1. PICK i \in Investigations : i = worker[w].inv
  BY WorkerFacts DEF Inv, Ack
<1>2. /\ worker' \in [Workers -> Task] /\ Engaged' /\ worker'[w].pc = "idle"
      /\ \A v \in Workers : v # w => worker'[v] = worker[v]
  BY ReleaseFacts DEF Inv, Ack
<1>3. TypeOK' /\ Grows
  BY <1>2 DEF Inv, Typed, TypeOK, Task, Ack, Grows, Recorded
<1>4. Announced(w)' /\ worker[w].pc \notin Busy
  BY <1>2 DEF Announced, Ack, Busy, TaskPcs, Nodes
<1> QED BY <1>1, <1>2, <1>3, <1>4, TaskInv DEF Ack

\* A message is taken from the queue: its investigation is now the task's.
LEMMA StartInv ==
  ASSUME Inv, NEW w \in Workers, NEW i \in Investigations, NEW n \in Attempts, Start(w, i, n)
  PROVE  Inv'
<1>1. /\ worker' \in [Workers -> Task] /\ Engaged'
      /\ worker'[w].pc = "build" /\ worker'[w].inv = i
      /\ \A v \in Workers : v # w => worker'[v] = worker[v]
  BY StartFacts DEF Inv
<1>2. /\ queue' \in [Investigations -> [Attempts -> Nat]]
      /\ \A j \in Investigations : j # i => queue'[j] = queue[j]
  <2>1. queue \in [Investigations -> [Attempts -> Nat]] /\ queue[i][n] > 0
    BY DEF Inv, Typed, TypeOK, Start
  <2>2. queue[i][n] - 1 \in Nat
    BY <2>1
  <2>3. queue' = [queue EXCEPT ![i] = [queue[i] EXCEPT ![n] = queue[i][n] - 1]]
    BY DEF Start
  <2> QED BY <2>1, <2>2, <2>3
<1>3. /\ status' \in [Investigations -> Statuses]
      /\ \A j \in Investigations : j # i => status'[j] = status[j]
  BY DEF Inv, Typed, TypeOK, Start, Statuses
<1>4. TypeOK' /\ Recorded
  BY <1>1, <1>2, <1>3 DEF Inv, Typed, TypeOK, Task, Start, Recorded
<1>5. Truthful'
  <2>1. Announced(w)'
    BY <1>1 DEF Announced
  <2>2. \A c \in Clients : Told(c)'
    BY <1>4, UntoldTold DEF Inv, Start
  <2> QED BY <1>1, <1>4, <2>1, <2>2, TruthMove DEF Inv
<1>6. HeldBy(i)'
  BY <1>1, AtWork DEF Busy, TaskPcs
<1>7. ASSUME NEW j \in Investigations, j # i, status'[j] \in Active
      PROVE  HeldBy(j)' \/ GivenUp(j)'
  <2>1. HeldBy(j) \/ GivenUp(j)
    BY <1>3, <1>7 DEF Inv, Held
  <2>2. (GivenUp(j) => GivenUp(j)') /\ (j \in creating => HeldBy(j)')
    BY DEF Start, GivenUp, HeldBy
  <2>3. Queued(j) => HeldBy(j)'
    BY <1>2, <1>7 DEF Queued, HeldBy
  <2>4. At(j, Busy) => HeldBy(j)'
    BY <1>1 DEF At, HeldBy, Start, Busy, TaskPcs, Nodes
  <2> QED BY <2>1, <2>2, <2>3, <2>4 DEF HeldBy
<1>8. Held'
  BY <1>6, <1>7 DEF Held
<1> QED BY <1>1, <1>4, <1>5, <1>8 DEF Inv, Typed
-----------------------------------------------------------------------------
(* So do its failures. *)

LEMMA WorkerLostInv ==
  ASSUME Inv, NEW w \in Workers, WorkerLost(w)
  PROVE  Inv'
<1>1. PICK i \in Investigations : i = worker[w].inv
  BY WorkerFacts DEF Inv, WorkerLost
<1>2. PICK n \in Attempts : n = worker[w].retries
  BY WorkerFacts DEF Inv
<1>3. /\ worker' \in [Workers -> Task] /\ Engaged' /\ worker'[w].pc = "idle"
      /\ \A v \in Workers : v # w => worker'[v] = worker[v]
  BY ReleaseFacts DEF Inv, WorkerLost
<1>4. /\ queue' \in [Investigations -> [Attempts -> Nat]] /\ Queued(i)'
      /\ \A j \in Investigations, m \in Attempts : queue[j][m] > 0 => queue'[j][m] > 0
  BY <1>1, <1>2, Requeue DEF WorkerLost
<1>5. TypeOK' /\ Grows
  BY <1>3, <1>4 DEF Inv, Typed, TypeOK, Task, WorkerLost, Grows, Recorded
<1>6. Announced(w)' /\ HeldBy(i)'
  BY <1>3, <1>4 DEF Announced, HeldBy
<1> QED BY <1>1, <1>3, <1>5, <1>6, TaskInv DEF WorkerLost

LEMMA AbandonInv ==
  ASSUME Inv, NEW w \in Workers, NEW pcs, "idle" \notin pcs,
         NEW cause \in {"retry", "hard_limit", "handler", "cut_off"}, Abandon(w, pcs, cause),
         cause = "cut_off" => pcs \cap Busy = {}
  PROVE  Inv'
<1>1. PICK i \in Investigations : i = worker[w].inv
  BY WorkerFacts DEF Inv, Abandon
<1>2. /\ worker' \in [Workers -> Task] /\ Engaged' /\ worker'[w].pc = "idle"
      /\ \A v \in Workers : v # w => worker'[v] = worker[v]
  BY ReleaseFacts DEF Inv, Abandon
<1>3. /\ dropped' \in [Investigations -> SUBSET Causes] /\ cause \in dropped'[i]
      /\ \A j \in Investigations : dropped[j] \subseteq dropped'[j]
  BY <1>1 DEF Inv, Typed, TypeOK, Abandon, Causes
<1>4. TypeOK' /\ Grows
  BY <1>2, <1>3 DEF Inv, Typed, TypeOK, Task, Abandon, Grows, Recorded
<1>5. Announced(w)' /\ (cause # "cut_off" => GivenUp(i)')
  BY <1>2, <1>3 DEF Announced, GivenUp
<1>6. worker[w].pc \notin Busy \/ GivenUp(i)'
  BY <1>5 DEF Abandon
<1> QED BY <1>1, <1>2, <1>4, <1>5, <1>6, TaskInv DEF Abandon

LEMMA AbandonedInv ==
  ASSUME Inv, NEW w \in Workers,
         HardTimeLimit(w) \/ HandlerFails(w) \/ RetryFails(w) \/ CutOff(w)
  PROVE  Inv'
<1>1. "idle" \notin TaskPcs \cup {"winding_up"}
  BY DEF TaskPcs, Nodes
<1>2. CASE HardTimeLimit(w)
  BY <1>1, <1>2, AbandonInv DEF HardTimeLimit
<1>3. CASE HandlerFails(w)
  BY <1>1, <1>3, AbandonInv DEF HandlerFails
<1>4. CASE RetryFails(w)
  BY <1>4, AbandonInv DEF RetryFails
<1>5. CASE CutOff(w)
  <2>1. {"dead_letter", "publish_error"} \cap Busy = {}
    BY DEF Busy, TaskPcs, Nodes
  <2> QED BY <1>5, <2>1, AbandonInv DEF CutOff
<1> QED BY <1>2, <1>3, <1>4, <1>5

LEMMA SwallowInv ==
  ASSUME Inv, NEW w \in Workers, DlqWriteFails(w) \/ PublishErrorFails(w)
  PROVE  Inv'
<1>1. PICK from \in {"dead_letter", "publish_error"}, to \in {"publish_error", "acking"},
           cause \in {"dlq_write", "publish"} :
              /\ Swallow(w, from, to, cause)
              /\ to = "publish_error" => cause = "dlq_write"
  BY DEF DlqWriteFails, PublishErrorFails
<1>2. worker[w].pc # "idle" /\ worker[w].pc \notin Busy
  BY <1>1 DEF Swallow, Busy, TaskPcs, Nodes
<1>3. PICK i \in Investigations : i = worker[w].inv
  BY <1>2, WorkerFacts DEF Inv
<1>4. /\ worker' \in [Workers -> Task] /\ Engaged'
      /\ worker'[w].pc = to /\ worker'[w].inv = i
      /\ \A v \in Workers : v # w => worker'[v] = worker[v]
  BY <1>1, <1>2, <1>3, GotoFacts DEF Inv, Swallow, WorkerPcs
<1>5. /\ dropped' \in [Investigations -> SUBSET Causes] /\ cause \in dropped'[i]
      /\ \A j \in Investigations : dropped[j] \subseteq dropped'[j]
  BY <1>1, <1>3 DEF Inv, Typed, TypeOK, Swallow, Causes
<1>6. TypeOK' /\ Grows
  BY <1>1, <1>4, <1>5 DEF Inv, Typed, TypeOK, Task, Swallow, Grows, Recorded
<1>7. Announced(w)'
  BY <1>1, <1>4, <1>5 DEF Announced
<1> QED BY <1>1, <1>2, <1>3, <1>4, <1>6, <1>7, TaskInv DEF Swallow
-----------------------------------------------------------------------------
(* And so does what happens outside the tasks. *)

LEMMA OutsideTruth ==
  ASSUME Typed, Truthful, Recorded, UNCHANGED worker, \A c \in Clients : Told(c)'
  PROVE  Truthful'
<1> SUFFICES ASSUME NEW w \in Workers PROVE Announced(w)'
  BY DEF Truthful
<1>1. Announced(w) /\ (worker[w].pc # "idle" => worker[w].inv \in Investigations)
  BY WorkerFacts DEF Truthful
<1> QED BY <1>1 DEF Announced, Recorded

LEMMA OutsideHeld ==
  ASSUME Held, UNCHANGED worker, NEW i \in Investigations,
         HeldBy(i)' \/ GivenUp(i)' \/ status'[i] \notin Active,
         \A j \in Investigations : j # i =>
             /\ status'[j] = status[j] /\ queue'[j] = queue[j] /\ dropped'[j] = dropped[j]
             /\ j \in creating => j \in creating'
  PROVE  Held'
<1> SUFFICES ASSUME NEW j \in Investigations, j # i, status'[j] \in Active
             PROVE  HeldBy(j)' \/ GivenUp(j)'
  BY DEF Held
<1>1. HeldBy(j) \/ GivenUp(j)
  BY DEF Held
<1> QED BY <1>1 DEF HeldBy, GivenUp, Queued, At

LEMMA CreateInv ==
  ASSUME Inv, NEW i \in Investigations, Create(i)
  PROVE  Inv'
<1>1. status' \in [Investigations -> Statuses]
  BY DEF Inv, Typed, TypeOK, Create, Statuses
<1>2. Typed' /\ Recorded
  BY <1>1 DEF Inv, Typed, TypeOK, Engaged, Create, Recorded
<1>3. Truthful'
  BY <1>2, UntoldTold, OutsideTruth DEF Inv, Create
<1>4. HeldBy(i)'
  BY DEF HeldBy, Create
<1>5. \A j \in Investigations : j # i => status'[j] = status[j]
  BY DEF Inv, Typed, TypeOK, Create
<1>6. Held'
  BY <1>4, <1>5, OutsideHeld DEF Inv, Create
<1> QED BY <1>2, <1>3, <1>6 DEF Inv

LEMMA EnqueueInv ==
  ASSUME Inv, NEW i \in Investigations, Enqueue(i)
  PROVE  Inv'
<1>1. /\ queue' \in [Investigations -> [Attempts -> Nat]] /\ Queued(i)'
      /\ \A j \in Investigations : j # i => queue'[j] = queue[j]
  <2>1. /\ queue' \in [Investigations -> [Attempts -> Nat]] /\ Queued(i)'
    BY Parameters, Requeue DEF Enqueue
  <2> QED BY <2>1 DEF Inv, Typed, TypeOK, Enqueue
<1>2. Typed' /\ Recorded
  BY <1>1 DEF Inv, Typed, TypeOK, Engaged, Enqueue, Recorded
<1>3. Truthful'
  BY <1>2, UntoldTold, OutsideTruth DEF Inv, Enqueue
<1>4. Held'
  BY <1>1, OutsideHeld DEF Inv, Enqueue, HeldBy
<1> QED BY <1>2, <1>3, <1>4 DEF Inv

LEMMA EnqueueFailsInv ==
  ASSUME Inv, NEW i \in Investigations, EnqueueFails(i)
  PROVE  Inv'
<1>1. /\ dropped' \in [Investigations -> SUBSET Causes] /\ GivenUp(i)'
      /\ \A j \in Investigations : j # i => dropped'[j] = dropped[j]
      /\ \A j \in Investigations : dropped[j] \subseteq dropped'[j]
  BY DEF Inv, Typed, TypeOK, EnqueueFails, Causes, GivenUp
<1>2. Typed' /\ Recorded
  BY <1>1 DEF Inv, Typed, TypeOK, Engaged, EnqueueFails, Recorded
<1>3. Truthful'
  BY <1>2, UntoldTold, OutsideTruth DEF Inv, EnqueueFails
<1>4. Held'
  BY <1>1, OutsideHeld DEF Inv, EnqueueFails
<1> QED BY <1>2, <1>3, <1>4 DEF Inv

LEMMA SubscribeInv ==
  ASSUME Inv, NEW c \in Clients, NEW i \in Investigations, Subscribe(c, i)
  PROVE  Inv'
<1>1. /\ stream' \in [Clients -> [state : {"none", "open", "complete", "error"},
                                  inv : Investigations \cup {NoInv}]]
      /\ stream'[c].state = "open"
      /\ \A d \in Clients : d # c => stream'[d] = stream[d]
  BY DEF Inv, Typed, TypeOK, Subscribe
<1>2. Typed' /\ Recorded
  BY <1>1 DEF Inv, Typed, TypeOK, Engaged, Subscribe, Recorded
<1>3. ASSUME NEW d \in Clients PROVE Told(d)'
  <2>1. CASE d = c
    BY <1>1, <2>1 DEF Told
  <2>2. CASE d # c
    BY <1>1, <2>2 DEF Inv, Truthful, Told, Subscribe
  <2> QED BY <2>1, <2>2
<1>4. Truthful'
  BY <1>2, <1>3, OutsideTruth DEF Inv, Subscribe
<1>5. Held'
  BY DEF Inv, Held, Subscribe, HeldBy, GivenUp, Queued, At
<1> QED BY <1>2, <1>4, <1>5 DEF Inv
-----------------------------------------------------------------------------
LEMMA InitInv == Init => Inv
<1> SUFFICES ASSUME Init PROVE Inv
  OBVIOUS
<1>1. \A w \in Workers : worker[w].pc = "idle"
  BY Parameters DEF Init
<1>2. \A c \in Clients : stream[c].state = "none"
  BY DEF Init, NoStream
<1>3. Truthful
  BY <1>1, <1>2 DEF Truthful, Told, Announced
<1>4. Held
  BY DEF Init, Held, Active
<1> QED BY <1>3, <1>4, InitTyped DEF Inv

LEMMA NextInv == Inv /\ [Next]_vars => Inv'
<1> SUFFICES ASSUME Inv, [Next]_vars PROVE Inv'
  OBVIOUS
<1>1. CASE \E i \in Investigations : Create(i) \/ Enqueue(i)
  BY <1>1, CreateInv, EnqueueInv
<1>2. CASE \E c \in Clients, i \in Investigations : Subscribe(c, i)
  BY <1>2, SubscribeInv
<1>3. ASSUME NEW w \in Workers, TaskStep(w) PROVE Inv'
  BY <1>3, StartInv, BuildInv, RunNodeInv, SaveAnomaliesInv, CompleteInv, PublishCompleteInv,
     SoftTimeLimitInv, WindUpInv, TransientErrorInv, PermanentErrorInv, RetryInv,
     SendToDlqInv, PublishErrorInv, AckInv DEF TaskStep
<1>4. CASE Fault
  BY <1>4, EnqueueFailsInv, WorkerLostInv, AbandonedInv, SwallowInv DEF Fault
<1>5. CASE UNCHANGED vars
  BY <1>5 DEF vars, Inv, Typed, TypeOK, Engaged, Truthful, Told, Announced, Held, HeldBy,
              GivenUp, Queued, At
<1> QED BY <1>1, <1>2, <1>3, <1>4, <1>5 DEF Next

LEMMA SpecInv == Spec => []Inv
<1> QED BY InitInv, NextInv, PTL DEF Spec

\* Rows, queues, tasks and streams keep their form; in particular a retry never
\* goes beyond max_retries, and a task never runs for no investigation.
THEOREM InvestigationTypeCorrect == Spec => []TypeOK
<1>1. Inv => TypeOK
  BY DEF Inv, Typed
<1> QED BY <1>1, SpecInv, PTL

\* However many tasks run, crash, are killed and are redelivered: a row that
\* says queued, running or retrying is some process's job, unless the
\* investigation was given up in one of the recorded ways.
THEOREM InvestigationsAccounted == Spec => []Accounted
<1>1. Inv => Accounted
  <2> SUFFICES ASSUME Held PROVE Accounted
    BY DEF Inv
  <2>1. Busy \subseteq TaskPcs \cup {"winding_up", "retry"}
    BY DEF Busy
  <2> QED BY <2>1 DEF Held, Active, HeldBy, Accounted, At
<1> QED BY <1>1, SpecInv, PTL

\* A stream that reported completion stands for findings in the row, one that
\* reported a failure for an entry in the dead-letter queue.
THEOREM StreamsTruthful == Spec => []StreamTruthful
<1>1. Inv => StreamTruthful
  BY DEF Inv, Truthful, Told, StreamTruthful
<1> QED BY <1>1, SpecInv, PTL

-----------------------------------------------------------------------------
(* How the runs of an investigation relate, for any number of investigations   *)
(* and pool slots, any retry limit and any number of faults: how often they    *)
(* insert anomalies, and that without faults there is one run at a time, so    *)
(* that the lifecycle implements InvestigationContract.                        *)

\* The points from which a task may still come to insert, itself or by a retry.
Before == Nodes \cup {"build", "save", "retry"}

\* The runs an investigation may still see: those that have begun, and those
\* that a message, or the handler that has created the row, will begin.
Runs(i)     == {w \in Workers : worker[w].pc \in Before /\ worker[w].inv = i}
Messages(i) == {m \in Attempts \X Nat : 1 <= m[2] /\ m[2] <= queue[i][m[1]]}
Begun(i)    == IF i \in creating THEN 1 ELSE 0

\* What has been inserted and what may yet be is one insertion more than faults.
Count(i) ==
    /\ IsFiniteSet(Runs(i)) /\ IsFiniteSet(Messages(i))
    /\ inserted[i] + Begun(i) + Cardinality(Messages(i)) + Cardinality(Runs(i)) <= 1 + faults

\* Before it has a row, nobody knows of an investigation.
Untouched(i) ==
    status[i] = "absent" =>
        /\ inserted[i] = 0 /\ i \notin creating /\ \A n \in Attempts : queue[i][n] = 0
        /\ \A w \in Workers : worker[w].pc # "idle" => worker[w].inv # i

Counted == \A i \in Investigations : Count(i) /\ Untouched(i)

-----------------------------------------------------------------------------
LEMMA Sizes ==
  ASSUME Typed, NEW i \in Investigations, Count(i)
  PROVE  /\ inserted[i] \in Nat /\ Begun(i) \in Nat /\ faults \in Nat
         /\ Cardinality(Messages(i)) \in Nat /\ Cardinality(Runs(i)) \in Nat
  BY FS_CardinalityType DEF Typed, TypeOK, Count, Begun

\* One task moves: it comes to the runs, leaves them, or neither.
LEMMA RunsMove ==
  ASSUME NEW w \in Workers, \A v \in Workers : v # w => worker'[v] = worker[v],
         NEW i, IsFiniteSet(Runs(i))
  PROVE  /\ IsFiniteSet(Runs(i)') /\ Cardinality(Runs(i)') \in Nat
         /\ w \in Runs(i)' /\ w \notin Runs(i) =>
               Cardinality(Runs(i)') = Cardinality(Runs(i)) + 1
         /\ w \notin Runs(i)' /\ w \in Runs(i) =>
               Cardinality(Runs(i)) = Cardinality(Runs(i)') + 1
         /\ (w \in Runs(i)' <=> w \in Runs(i)) => Runs(i)' = Runs(i)
<1>1. \A v \in Workers : v # w => (v \in Runs(i)' <=> v \in Runs(i))
  BY DEF Runs
<1>2. Runs(i) \subseteq Workers /\ Runs(i)' \subseteq Workers
  BY DEF Runs
<1>3. CASE w \in Runs(i)' <=> w \in Runs(i)
  <2>1. Runs(i)' = Runs(i)
    BY <1>1, <1>2, <1>3
  <2> QED BY <1>3, <2>1, FS_CardinalityType
<1>4. CASE w \in Runs(i)' /\ w \notin Runs(i)
  <2>1. Runs(i)' = Runs(i) \cup {w}
    BY <1>1, <1>2, <1>4
  <2> QED BY <1>4, <2>1, FS_AddElement, FS_CardinalityType
<1>5. CASE w \notin Runs(i)' /\ w \in Runs(i)
  <2>1. Runs(i)' = Runs(i) \ {w}
    BY <1>1, <1>2, <1>5
  <2>2. /\ IsFiniteSet(Runs(i)') /\ Cardinality(Runs(i)') = Cardinality(Runs(i)) - 1
        /\ Cardinality(Runs(i)) \in Nat /\ Cardinality(Runs(i)') \in Nat
    BY <1>5, <2>1, FS_RemoveElement, FS_CardinalityType
  <2> QED BY <1>5, <2>2
<1> QED BY <1>3, <1>4, <1>5

\* One message more, or one less, is one element more or less.
LEMMA MessageAdded ==
  ASSUME Inv, NEW i \in Investigations, IsFiniteSet(Messages(i)), NEW n \in Attempts,
         queue' = [queue EXCEPT ![i][n] = @ + 1]
  PROVE  /\ IsFiniteSet(Messages(i)')
         /\ Cardinality(Messages(i)') = Cardinality(Messages(i)) + 1
         /\ \A j \in Investigations : j # i => queue'[j] = queue[j]
<1>1. queue \in [Investigations -> [Attempts -> Nat]]
  BY DEF Inv, Typed, TypeOK
<1>2. /\ queue[i][n] \in Nat
      /\ \A m \in Attempts : queue'[i][m] = IF m = n THEN queue[i][n] + 1 ELSE queue[i][m]
      /\ \A j \in Investigations : j # i => queue'[j] = queue[j]
  BY <1>1
<1> DEFINE new == <<n, queue[i][n] + 1>>
<1>3. new \notin Messages(i)
  BY <1>2 DEF Messages
<1>4. Messages(i)' = Messages(i) \cup {new}
  <2>1. ASSUME NEW m \in Attempts \X Nat PROVE m \in Messages(i)' <=> m \in Messages(i) \/ m = new
    BY <1>2 DEF Messages
  <2>2. new \in Attempts \X Nat /\ Messages(i) \subseteq Attempts \X Nat
        /\ Messages(i)' \subseteq Attempts \X Nat
    BY <1>2 DEF Messages
  <2> QED BY <2>1, <2>2
<1> QED BY <1>2, <1>3, <1>4, FS_AddElement

LEMMA MessageTaken ==
  ASSUME Inv, NEW i \in Investigations, IsFiniteSet(Messages(i)), NEW n \in Attempts,
         queue[i][n] > 0, queue' = [queue EXCEPT ![i][n] = @ - 1]
  PROVE  /\ IsFiniteSet(Messages(i)') /\ Cardinality(Messages(i)') \in Nat
         /\ Cardinality(Messages(i)) = Cardinality(Messages(i)') + 1
         /\ \A j \in Investigations : j # i => queue'[j] = queue[j]
<1>1. queue \in [Investigations -> [Attempts -> Nat]]
  BY DEF Inv, Typed, TypeOK
<1>2. /\ queue[i][n] \in Nat \ {0}
      /\ \A m \in Attempts : queue'[i][m] = IF m = n THEN queue[i][n] - 1 ELSE queue[i][m]
      /\ \A j \in Investigations : j # i => queue'[j] = queue[j]
  BY <1>1
<1> DEFINE old == <<n, queue[i][n]>>
<1>3. old \in Messages(i)
  BY <1>2 DEF Messages
<1>4. Messages(i)' = Messages(i) \ {old}
  <2>1. ASSUME NEW m \in Attempts \X Nat PROVE m \in Messages(i)' <=> m \in Messages(i) /\ m # old
    BY <1>2 DEF Messages
  <2>2. Messages(i) \subseteq Attempts \X Nat /\ Messages(i)' \subseteq Attempts \X Nat
    BY DEF Messages
  <2> QED BY <2>1, <2>2
<1>5. /\ IsFiniteSet(Messages(i)') /\ Cardinality(Messages(i)') = Cardinality(Messages(i)) - 1
      /\ Cardinality(Messages(i)') \in Nat /\ Cardinality(Messages(i)) \in Nat
  BY <1>3, <1>4, FS_RemoveElement, FS_CardinalityType
<1> QED BY <1>2, <1>5

\* What is not touched keeps its count.
LEMMA Aside ==
  ASSUME Counted, NEW j \in Investigations, Runs(j)' = Runs(j),
         status'[j] = status[j], queue'[j] = queue[j], inserted'[j] = inserted[j],
         j \in creating' <=> j \in creating, Typed, faults' \in Nat, faults <= faults'
  PROVE  Count(j)'
<1>1. Messages(j)' = Messages(j) /\ Begun(j)' = Begun(j)
  BY DEF Messages, Begun
<1>2. Count(j)
  BY DEF Counted
<1> QED BY <1>1, <1>2, Sizes DEF Count

\* A step of a task on its own investigation.
LEMMA TaskCount ==
  ASSUME Inv, Counted, NEW w \in Workers, NEW i \in Investigations, i = worker[w].inv,
         worker[w].pc # "idle", worker'[w].pc # "idle" => worker'[w].inv = i,
         \A v \in Workers : v # w => worker'[v] = worker[v],
         UNCHANGED creating, status'[i] # "absent" \/ status'[i] = status[i],
         \A j \in Investigations : j # i =>
             status'[j] = status[j] /\ queue'[j] = queue[j] /\ inserted'[j] = inserted[j],
         faults' \in Nat, faults <= faults', Count(i)'
  PROVE  Counted'
<1>1. status[i] # "absent"
  BY DEF Counted, Untouched
<1>2. ASSUME NEW j \in Investigations, j # i PROVE Count(j)' /\ Untouched(j)'
  <2>1. w \notin Runs(j) /\ w \notin Runs(j)'
    BY <1>2 DEF Runs, Before, Nodes
  <2>2. Runs(j)' = Runs(j)
    BY <2>1, <1>2, RunsMove DEF Counted, Count
  <2>3. Count(j)'
    BY <1>2, <2>2, Aside DEF Inv
  <2>4. Untouched(j)'
    BY <1>2 DEF Counted, Untouched
  <2> QED BY <2>3, <2>4
<1>3. Untouched(i)'
  BY <1>1 DEF Untouched
<1> QED BY <1>2, <1>3 DEF Counted

\* One that inserts nothing and sends nothing, and is not a new run or is a fault.
LEMMA QuietCount ==
  ASSUME Inv, Counted, NEW w \in Workers, NEW i \in Investigations, i = worker[w].inv,
         worker[w].pc # "idle", worker'[w].pc # "idle" => worker'[w].inv = i,
         \A v \in Workers : v # w => worker'[v] = worker[v],
         status'[i] # "absent" \/ status'[i] = status[i],
         \A j \in Investigations : j # i => status'[j] = status[j],
         UNCHANGED <<creating, queue, inserted>>,
         faults' \in {faults, faults + 1},
         worker'[w].pc \notin Before \/ worker[w].pc \in Before \/ faults' = faults + 1
  PROVE  Counted'
<1>1. Count(i) /\ faults \in Nat
  BY DEF Counted, Inv, Typed, TypeOK
<1>2. Messages(i)' = Messages(i) /\ Begun(i)' = Begun(i)
  BY DEF Messages, Begun
<1>3. w \in Runs(i)' => w \in Runs(i) \/ faults' = faults + 1
  BY DEF Runs
<1>4. /\ IsFiniteSet(Runs(i)') /\ Cardinality(Runs(i)') \in Nat
      /\ w \in Runs(i)' /\ w \notin Runs(i) =>
            Cardinality(Runs(i)') = Cardinality(Runs(i)) + 1
      /\ w \notin Runs(i)' /\ w \in Runs(i) =>
            Cardinality(Runs(i)) = Cardinality(Runs(i)') + 1
      /\ (w \in Runs(i)' <=> w \in Runs(i)) => Runs(i)' = Runs(i)
  BY <1>1, RunsMove DEF Count
<1>5. /\ inserted[i] \in Nat /\ Begun(i) \in Nat
      /\ Cardinality(Messages(i)) \in Nat /\ Cardinality(Runs(i)) \in Nat
      /\ inserted[i] + Begun(i) + Cardinality(Messages(i)) + Cardinality(Runs(i)) <= 1 + faults
      /\ inserted'[i] = inserted[i]
  BY <1>1, Sizes DEF Inv, Count
<1>6. \/ faults' = faults + 1 /\ Cardinality(Runs(i)') <= Cardinality(Runs(i)) + 1
      \/ faults' = faults /\ Cardinality(Runs(i)') <= Cardinality(Runs(i))
  BY <1>3, <1>4, <1>5
<1>7. Count(i)'
  BY <1>1, <1>2, <1>4, <1>5, <1>6 DEF Count
<1> QED BY <1>1, <1>7, TaskCount
-----------------------------------------------------------------------------
(* The steps of a task. *)

\* Where a step leads that only moves the task.
LEMMA GotoCount ==
  ASSUME Inv, Counted, NEW w \in Workers, worker[w].pc # "idle",
         NEW pc \in WorkerPcs \ {"idle", "retry"}, Goto(w, pc),
         pc \notin Before \/ worker[w].pc \in Before,
         UNCHANGED <<creating, queue, inserted>>, faults' \in {faults, faults + 1},
         \/ UNCHANGED status
         \/ status' = [status EXCEPT ![worker[w].inv] = "complete"]
  PROVE  Counted'
<1>1. PICK i \in Investigations : i = worker[w].inv
  BY WorkerFacts DEF Inv
<1>2. /\ worker'[w].pc = pc /\ worker'[w].inv = i
      /\ \A v \in Workers : v # w => worker'[v] = worker[v]
  BY <1>1, GotoFacts DEF Inv
<1>3. /\ status'[i] # "absent" \/ status'[i] = status[i]
      /\ \A j \in Investigations : j # i => status'[j] = status[j]
  BY <1>1 DEF Inv, Typed, TypeOK
<1> QED BY <1>1, <1>2, <1>3, QuietCount

LEMMA GiveUpCount ==
  ASSUME Inv, Counted, NEW w \in Workers, worker[w].pc # "idle", NEW s \in Failed, GiveUp(w, s),
         faults' \in {faults, faults + 1}
  PROVE  Counted'
<1>1. PICK i \in Investigations : i = worker[w].inv
  BY WorkerFacts DEF Inv
<1>2. /\ worker'[w].pc = "dead_letter" /\ worker'[w].inv = i
      /\ \A v \in Workers : v # w => worker'[v] = worker[v]
  BY <1>1, GiveUpFacts DEF Inv
<1>3. /\ status'[i] # "absent" /\ worker'[w].pc \notin Before
      /\ \A j \in Investigations : j # i => status'[j] = status[j]
  BY <1>1, <1>2 DEF Inv, Typed, TypeOK, GiveUp, SetStatus, Failed, Before, Nodes
<1> QED BY <1>1, <1>2, <1>3, QuietCount DEF GiveUp

LEMMA RaisesCount ==
  ASSUME Inv, NEW w \in Workers, NEW pcs \in SUBSET TaskPcs, Raises(w, pcs)
  PROVE  /\ worker[w].pc # "idle" /\ faults' \in {faults, faults + 1}
         /\ worker[w].pc \in Before \/ faults' = faults + 1
  BY DEF Raises, TaskPcs, Late, Before, Nodes

LEMMA SoftTimeLimitCount ==
  ASSUME Inv, Counted, NEW w \in Workers, SoftTimeLimit(w)
  PROVE  Counted'
<1>1. worker[w].pc # "idle" /\ faults' \in {faults, faults + 1}
  BY RaisesCount DEF SoftTimeLimit
<1>2. CASE worker[w].pc # "domain"
  BY <1>1, <1>2, GiveUpCount DEF SoftTimeLimit, Failed
<1>3. CASE worker[w].pc = "domain"
  <2>1. PICK i \in Investigations : i = worker[w].inv
    BY <1>1, WorkerFacts DEF Inv
  <2>2. /\ worker' = [worker EXCEPT ![w].pc = "winding_up", ![w].limited = TRUE]
        /\ UNCHANGED <<status, creating, queue, inserted>>
    BY <1>3 DEF SoftTimeLimit
  <2>3. /\ worker'[w].pc = "winding_up" /\ worker'[w].inv = i
        /\ \A v \in Workers : v # w => worker'[v] = worker[v]
    <3>1. Typed /\ "winding_up" \in WorkerPcs \ {"idle", "retry"}
      BY DEF Inv, WorkerPcs
    <3> QED BY <1>1, <2>1, <2>2, <3>1, NodeFacts
  <2>4. worker'[w].pc \notin Before
    BY <2>3 DEF Before, Nodes
  <2> QED BY <1>1, <2>1, <2>2, <2>3, <2>4, QuietCount
<1> QED BY <1>2, <1>3

LEMMA TransientErrorCount ==
  ASSUME Inv, Counted, NEW w \in Workers, TransientError(w)
  PROVE  Counted'
<1>1. /\ worker[w].pc # "idle" /\ faults' \in {faults, faults + 1}
      /\ worker[w].pc \in Before \/ faults' = faults + 1
  BY RaisesCount DEF TransientError, TaskPcs, Late, Nodes
<1>2. CASE ~(worker[w].retries < MaxRetries)
  BY <1>1, <1>2, GiveUpCount DEF TransientError, Failed
<1>3. CASE worker[w].retries < MaxRetries
  <2>1. PICK i \in Investigations : i = worker[w].inv
    BY <1>1, WorkerFacts DEF Inv
  <2>2. /\ SetStatus(w, "retrying") /\ Goto(w, "retry")
        /\ UNCHANGED <<creating, queue, inserted>>
    BY <1>3 DEF TransientError
  <2>3. /\ worker'[w].pc = "retry" /\ worker'[w].inv = i
        /\ \A v \in Workers : v # w => worker'[v] = worker[v]
    BY <1>1, <1>3, <2>1, <2>2, GotoFacts DEF Inv, WorkerPcs
  <2>4. /\ status'[i] # "absent"
        /\ \A j \in Investigations : j # i => status'[j] = status[j]
    BY <2>1, <2>2 DEF Inv, Typed, TypeOK, SetStatus
  <2> QED BY <1>1, <2>1, <2>2, <2>3, <2>4, QuietCount
<1> QED BY <1>2, <1>3

LEMMA RunNodeCount ==
  ASSUME Inv, Counted, NEW w \in Workers, NEW node \in Nodes, RunNode(w, node)
  PROVE  Counted'
<1>1. PICK i \in Investigations : i = worker[w].inv
  BY WorkerFacts DEF Inv, RunNode, Nodes
<1>2. worker[w].pc # "idle" /\ worker[w].pc \in Before
  BY DEF RunNode, Nodes, Before
<1>3. /\ worker'[w].pc # "idle" => worker'[w].inv = i
      /\ \A v \in Workers : v # w => worker'[v] = worker[v]
  BY <1>1 DEF RunNode, Inv, Typed, TypeOK
<1> QED BY <1>1, <1>2, <1>3, QuietCount DEF RunNode

\* A task that ends.
LEMMA ReleaseCount ==
  ASSUME Inv, Counted, NEW w \in Workers, worker[w].pc # "idle", Release(w),
         UNCHANGED <<status, creating, queue, inserted>>, faults' \in {faults, faults + 1}
  PROVE  Counted'
<1>1. PICK i \in Investigations : i = worker[w].inv
  BY WorkerFacts DEF Inv
<1>2. /\ worker'[w].pc = "idle" /\ worker'[w].pc \notin Before
      /\ \A v \in Workers : v # w => worker'[v] = worker[v]
  <2>1. /\ worker'[w].pc = "idle"
        /\ \A v \in Workers : v # w => worker'[v] = worker[v]
    BY ReleaseFacts DEF Inv
  <2> QED BY <2>1 DEF Before, Nodes
<1> QED BY <1>1, <1>2, QuietCount

\* The steps that insert nothing and send nothing.
LEMMA QuietSteps ==
  ASSUME Inv, Counted, NEW w \in Workers,
         \/ Build(w) \/ Complete(w) \/ PublishComplete(w) \/ WindUp(w) \/ PermanentError(w)
         \/ SendToDlq(w) \/ PublishError(w) \/ Ack(w) \/ HardTimeLimit(w) \/ HandlerFails(w)
         \/ RetryFails(w) \/ CutOff(w) \/ DlqWriteFails(w) \/ PublishErrorFails(w)
  PROVE  Counted'
<1>a. {"timeline", "publish", "acking", "publish_error"} \subseteq WorkerPcs \ {"idle", "retry"}
  BY DEF WorkerPcs, TaskPcs, Nodes
<1>b. "build" \in Before /\ {"publish", "acking", "publish_error"} \cap Before = {}
  BY DEF Before, Nodes
<1>1. CASE Build(w)
  BY <1>1, <1>a, <1>b, GotoCount DEF Build
<1>2. CASE Complete(w)
  BY <1>2, <1>a, <1>b, GotoCount DEF Complete, SetStatus
<1>3. CASE PublishComplete(w)
  BY <1>3, <1>a, <1>b, GotoCount DEF PublishComplete
<1>4. CASE SendToDlq(w)
  BY <1>4, <1>a, <1>b, GotoCount DEF SendToDlq
<1>5. CASE PublishError(w)
  BY <1>5, <1>a, <1>b, GotoCount DEF PublishError
<1>6. CASE DlqWriteFails(w) \/ PublishErrorFails(w)
  BY <1>6, <1>a, <1>b, GotoCount DEF DlqWriteFails, PublishErrorFails, Swallow
<1>7. CASE WindUp(w)
  BY <1>7, GiveUpCount DEF WindUp, Failed
<1>8. CASE PermanentError(w)
  <2>1. worker[w].pc # "idle" /\ faults' \in {faults, faults + 1}
    BY <1>8, RaisesCount DEF PermanentError, TaskPcs, Late, Nodes
  <2> QED BY <1>8, <2>1, GiveUpCount DEF PermanentError, Failed
<1>9. CASE Ack(w)
  BY <1>9, ReleaseCount DEF Ack
<1>10. ASSUME NEW pcs, "idle" \notin pcs, NEW cause, Abandon(w, pcs, cause)
       PROVE  Counted'
  BY <1>10, ReleaseCount DEF Abandon
<1>11. CASE HardTimeLimit(w) \/ HandlerFails(w) \/ RetryFails(w) \/ CutOff(w)
  <2>1. "idle" \notin TaskPcs \cup {"winding_up"}
    BY DEF TaskPcs, Nodes
  <2> QED BY <1>10, <1>11, <2>1 DEF HardTimeLimit, HandlerFails, RetryFails, CutOff
<1> QED BY <1>1, <1>2, <1>3, <1>4, <1>5, <1>6, <1>7, <1>8, <1>9, <1>11

\* An insertion uses up the run that makes it.
LEMMA SaveAnomaliesCount ==
  ASSUME Inv, Counted, NEW w \in Workers, SaveAnomalies(w)
  PROVE  Counted'
<1>1. PICK i \in Investigations : i = worker[w].inv
  BY WorkerFacts DEF Inv, SaveAnomalies
<1>2. /\ worker'[w].pc = "complete" /\ worker'[w].inv = i
      /\ \A v \in Workers : v # w => worker'[v] = worker[v]
  BY <1>1, GotoFacts DEF Inv, SaveAnomalies, WorkerPcs, TaskPcs
<1>3. /\ inserted'[i] \in {inserted[i], inserted[i] + 1}
      /\ \A j \in Investigations : j # i => inserted'[j] = inserted[j]
  BY <1>1 DEF Inv, Typed, TypeOK, SaveAnomalies
<1>4. Count(i) /\ faults \in Nat
  BY DEF Counted, Inv, Typed, TypeOK
<1>5. w \in Runs(i) /\ w \notin Runs(i)'
  BY <1>1, <1>2 DEF Runs, Before, Nodes, SaveAnomalies
<1>6. /\ IsFiniteSet(Runs(i)') /\ Cardinality(Runs(i)') \in Nat
      /\ Cardinality(Runs(i)) = Cardinality(Runs(i)') + 1
  BY <1>2, <1>4, <1>5, RunsMove DEF Count
<1>7. Messages(i)' = Messages(i) /\ Begun(i)' = Begun(i)
  BY DEF Messages, Begun, SaveAnomalies
<1>8. /\ inserted[i] \in Nat /\ Begun(i) \in Nat /\ Cardinality(Messages(i)) \in Nat
      /\ inserted[i] + Begun(i) + Cardinality(Messages(i)) + Cardinality(Runs(i)) <= 1 + faults
  BY <1>4, Sizes DEF Inv, Count
<1>9. inserted'[i] + Begun(i)' + Cardinality(Messages(i)') + Cardinality(Runs(i)') <= 1 + faults
  BY <1>3, <1>4, <1>6, <1>7, <1>8
<1>10. Count(i)'
  BY <1>4, <1>6, <1>7, <1>9 DEF Count, SaveAnomalies
<1> QED BY <1>1, <1>2, <1>3, <1>4, <1>10, TaskCount DEF SaveAnomalies

\* A message that a task leaves behind replaces its run, or is a fault's.
LEMMA RequeueCount ==
  ASSUME Inv, Counted, NEW w \in Workers, NEW i \in Investigations, i = worker[w].inv,
         worker[w].pc # "idle", worker'[w].pc \notin Before,
         worker'[w].pc # "idle" => worker'[w].inv = i,
         \A v \in Workers : v # w => worker'[v] = worker[v],
         NEW n \in Attempts, queue' = [queue EXCEPT ![i][n] = @ + 1],
         (worker[w].pc \in Before /\ UNCHANGED faults) \/ faults' = faults + 1,
         UNCHANGED <<status, inserted, creating>>
  PROVE  Counted'
<1>1. Count(i) /\ faults \in Nat
  BY DEF Counted, Inv, Typed, TypeOK
<1>2. /\ IsFiniteSet(Messages(i)')
      /\ Cardinality(Messages(i)') = Cardinality(Messages(i)) + 1
      /\ \A j \in Investigations : j # i => queue'[j] = queue[j]
  BY <1>1, MessageAdded DEF Count
<1>3. w \notin Runs(i)' /\ (w \in Runs(i) <=> worker[w].pc \in Before)
  BY DEF Runs
<1>4. /\ IsFiniteSet(Runs(i)') /\ Cardinality(Runs(i)') \in Nat
      /\ w \in Runs(i) => Cardinality(Runs(i)) = Cardinality(Runs(i)') + 1
      /\ w \notin Runs(i) => Runs(i)' = Runs(i)
  BY <1>1, <1>3, RunsMove DEF Count
<1>5. /\ inserted[i] \in Nat /\ Begun(i) \in Nat /\ Cardinality(Messages(i)) \in Nat
      /\ Cardinality(Runs(i)) \in Nat
      /\ inserted[i] + Begun(i) + Cardinality(Messages(i)) + Cardinality(Runs(i)) <= 1 + faults
      /\ inserted'[i] = inserted[i] /\ Begun(i)' = Begun(i)
  BY <1>1, Sizes DEF Inv, Count, Begun
<1>6. \/ faults' = faults + 1 /\ Cardinality(Runs(i)') <= Cardinality(Runs(i))
      \/ faults' = faults /\ Cardinality(Runs(i)) = Cardinality(Runs(i)') + 1
  BY <1>3, <1>4, <1>5
<1>7. Count(i)'
  BY <1>1, <1>2, <1>4, <1>5, <1>6 DEF Count
<1>8. faults' \in Nat /\ faults <= faults'
  BY <1>1
<1> QED BY <1>2, <1>7, <1>8, TaskCount

LEMMA RetryCount ==
  ASSUME Inv, Counted, NEW w \in Workers, Retry(w)
  PROVE  Counted'
<1>1. PICK i \in Investigations : i = worker[w].inv
  BY WorkerFacts DEF Inv, Retry
<1>2. PICK n \in Attempts : n = worker[w].retries + 1
  BY WorkerFacts, Parameters DEF Inv, Typed, Engaged, Retry
<1>3. /\ worker'[w].pc = "acking" /\ worker'[w].inv = i
      /\ \A v \in Workers : v # w => worker'[v] = worker[v]
  BY <1>1, GotoFacts DEF Inv, Retry, WorkerPcs
<1>4. worker[w].pc \in Before /\ worker'[w].pc \notin Before /\ worker[w].pc # "idle"
  BY <1>3 DEF Retry, Before, Nodes
<1> QED BY <1>1, <1>2, <1>3, <1>4, RequeueCount DEF Retry

LEMMA WorkerLostCount ==
  ASSUME Inv, Counted, NEW w \in Workers, WorkerLost(w)
  PROVE  Counted'
<1>1. PICK i \in Investigations : i = worker[w].inv
  BY WorkerFacts DEF Inv, WorkerLost
<1>2. PICK n \in Attempts : n = worker[w].retries
  BY WorkerFacts DEF Inv
<1>3. /\ worker'[w].pc = "idle"
      /\ \A v \in Workers : v # w => worker'[v] = worker[v]
  BY ReleaseFacts DEF Inv, WorkerLost
<1>4. worker'[w].pc \notin Before
  BY <1>3 DEF Before, Nodes
<1> QED BY <1>1, <1>2, <1>3, <1>4, RequeueCount DEF WorkerLost

\* A message becomes a run.
LEMMA StartCount ==
  ASSUME Inv, Counted, NEW w \in Workers, NEW i \in Investigations, NEW n \in Attempts,
         Start(w, i, n)
  PROVE  Counted'
<1>1. /\ worker'[w].pc = "build" /\ worker'[w].inv = i
      /\ \A v \in Workers : v # w => worker'[v] = worker[v]
  BY StartFacts DEF Inv
<1>2. Count(i) /\ faults \in Nat
  BY DEF Counted, Inv, Typed, TypeOK
<1>3. /\ IsFiniteSet(Messages(i)') /\ Cardinality(Messages(i)') \in Nat
      /\ Cardinality(Messages(i)) = Cardinality(Messages(i)') + 1
      /\ \A j \in Investigations : j # i => queue'[j] = queue[j]
  BY <1>2, MessageTaken DEF Start, Count
<1>4. /\ status'[i] = "running"
      /\ \A j \in Investigations : j # i => status'[j] = status[j]
  BY DEF Start, Inv, Typed, TypeOK
<1>5. Count(i)'
  <2>1. w \in Runs(i)' /\ w \notin Runs(i)
    BY <1>1 DEF Runs, Before, Nodes, Start
  <2>2. /\ IsFiniteSet(Runs(i)') /\ Cardinality(Runs(i)') = Cardinality(Runs(i)) + 1
    BY <1>1, <1>2, <2>1, RunsMove DEF Count
  <2>3. /\ inserted[i] \in Nat /\ Begun(i) \in Nat /\ Cardinality(Runs(i)) \in Nat
        /\ inserted[i] + Begun(i) + Cardinality(Messages(i)) + Cardinality(Runs(i)) <= 1 + faults
        /\ inserted' = inserted /\ Begun(i)' = Begun(i) /\ faults' = faults
    BY <1>2, Sizes DEF Inv, Count, Begun, Start
  <2> QED BY <1>2, <1>3, <2>2, <2>3 DEF Count
<1>6. ASSUME NEW j \in Investigations, j # i PROVE Count(j)' /\ Untouched(j)'
  <2>1. w \notin Runs(j) /\ w \notin Runs(j)'
    BY <1>1, <1>6 DEF Runs, Before, Nodes, Start
  <2>2. Runs(j)' = Runs(j)
    BY <2>1, <1>1, RunsMove DEF Counted, Count
  <2>3. Count(j)'
    BY <1>2, <1>3, <1>4, <1>6, <2>2, Aside DEF Inv, Start
  <2>4. Untouched(j)'
    BY <1>1, <1>3, <1>4, <1>6 DEF Counted, Untouched, Start
  <2> QED BY <2>3, <2>4
<1>7. Untouched(i)'
  BY <1>4 DEF Untouched
<1> QED BY <1>5, <1>6, <1>7 DEF Counted
-----------------------------------------------------------------------------
(* What happens outside the tasks. *)

LEMMA OutsideCount ==
  ASSUME Inv, Counted, NEW i \in Investigations, UNCHANGED <<worker, inserted>>,
         \A j \in Investigations : j # i =>
             /\ status'[j] = status[j] /\ queue'[j] = queue[j]
             /\ j \in creating' <=> j \in creating,
         faults' \in {faults, faults + 1}, status'[i] # "absent",
         IsFiniteSet(Messages(i)'),
         inserted[i] + Begun(i)' + Cardinality(Messages(i)') + Cardinality(Runs(i)) <= 1 + faults'
  PROVE  Counted'
<1>1. \A j \in Investigations : Runs(j)' = Runs(j)
  BY DEF Runs
<1>2. faults' \in Nat /\ faults <= faults'
  BY DEF Inv, Typed, TypeOK
<1>3. Count(i)' /\ Untouched(i)'
  BY <1>1 DEF Counted, Count, Untouched
<1>4. ASSUME NEW j \in Investigations, j # i PROVE Count(j)' /\ Untouched(j)'
  <2>1. Count(j)'
    BY <1>1, <1>2, <1>4, Aside DEF Inv
  <2>2. Untouched(j)'
    BY <1>4 DEF Counted, Untouched
  <2> QED BY <2>1, <2>2
<1> QED BY <1>3, <1>4 DEF Counted

LEMMA OutsideSizes ==
  ASSUME Inv, Counted, NEW i \in Investigations
  PROVE  /\ inserted[i] \in Nat /\ Begun(i) \in Nat /\ faults \in Nat
         /\ Cardinality(Messages(i)) \in Nat /\ Cardinality(Runs(i)) \in Nat
         /\ IsFiniteSet(Messages(i))
         /\ inserted[i] + Begun(i) + Cardinality(Messages(i)) + Cardinality(Runs(i)) <= 1 + faults
  BY Sizes DEF Inv, Counted, Count

LEMMA CreateCount ==
  ASSUME Inv, Counted, NEW i \in Investigations, Create(i)
  PROVE  Counted'
<1>1. /\ inserted[i] = 0 /\ Messages(i) = {} /\ Runs(i) = {}
  BY DEF Create, Counted, Untouched, Messages, Runs, Before, Nodes
<1>2. Messages(i)' = Messages(i) /\ Begun(i)' = 1
  BY DEF Create, Messages, Begun
<1>3. /\ status'[i] # "absent"
      /\ \A j \in Investigations : j # i => status'[j] = status[j]
  BY DEF Create, Inv, Typed, TypeOK
<1>4. Cardinality(Messages(i)) = 0 /\ Cardinality(Runs(i)) = 0 /\ IsFiniteSet(Messages(i))
  BY <1>1, FS_EmptySet
<1>5. faults \in Nat
  BY OutsideSizes
<1>6. inserted[i] + Begun(i)' + Cardinality(Messages(i)') + Cardinality(Runs(i)) <= 1 + faults
  BY <1>1, <1>2, <1>4, <1>5
<1> QED BY <1>2, <1>3, <1>4, <1>6, OutsideCount DEF Create

LEMMA EnqueueCount ==
  ASSUME Inv, Counted, NEW i \in Investigations, Enqueue(i)
  PROVE  Counted'
<1>1. /\ IsFiniteSet(Messages(i)')
      /\ Cardinality(Messages(i)') = Cardinality(Messages(i)) + 1
      /\ \A j \in Investigations : j # i => queue'[j] = queue[j]
  BY OutsideSizes, MessageAdded, Parameters DEF Enqueue
<1>2. Begun(i) = 1 /\ Begun(i)' = 0
  BY DEF Enqueue, Begun
<1>3. inserted[i] + Begun(i)' + Cardinality(Messages(i)') + Cardinality(Runs(i)) <= 1 + faults
  BY <1>1, <1>2, OutsideSizes
<1>4. status[i] # "absent"
  BY DEF Enqueue, Counted, Untouched
<1> QED BY <1>1, <1>3, <1>4, OutsideCount DEF Enqueue

LEMMA EnqueueFailsCount ==
  ASSUME Inv, Counted, NEW i \in Investigations, EnqueueFails(i)
  PROVE  Counted'
<1>1. Messages(i)' = Messages(i)
  BY DEF EnqueueFails, Messages
<1>2. Begun(i) = 1 /\ Begun(i)' = 0 /\ faults' = faults + 1
  BY DEF EnqueueFails, Begun
<1>3. inserted[i] + Begun(i)' + Cardinality(Messages(i)') + Cardinality(Runs(i)) <= 1 + faults'
  BY <1>1, <1>2, OutsideSizes
<1>4. status[i] # "absent"
  BY DEF EnqueueFails, Counted, Untouched
<1> QED BY <1>1, <1>2, <1>3, <1>4, OutsideSizes, OutsideCount DEF EnqueueFails
-----------------------------------------------------------------------------
LEMMA InitCount == Init => Counted
<1> SUFFICES ASSUME Init, NEW i \in Investigations PROVE Count(i) /\ Untouched(i)
  BY DEF Counted
<1>1. \A w \in Workers : worker[w].pc = "idle"
  BY Parameters DEF Init
<1>2. Messages(i) = {} /\ Runs(i) = {} /\ Begun(i) = 0
  BY <1>1 DEF Init, Messages, Runs, Begun, Before, Nodes
<1>3. Count(i)
  BY <1>2, FS_EmptySet DEF Init, Count
<1>4. Untouched(i)
  BY <1>1 DEF Init, Untouched
<1> QED BY <1>3, <1>4

LEMMA NextCount == Inv /\ Counted /\ [Next]_vars => Counted'
<1> SUFFICES ASSUME Inv, Counted, [Next]_vars PROVE Counted'
  OBVIOUS
<1>1. CASE \E i \in Investigations : Create(i) \/ Enqueue(i)
  BY <1>1, CreateCount, EnqueueCount
<1>2. CASE (\E c \in Clients, i \in Investigations : Subscribe(c, i)) \/ UNCHANGED vars
  <2>1. UNCHANGED <<status, inserted, creating, queue, worker, faults>>
    BY <1>2 DEF Subscribe, vars
  <2> QED BY <2>1 DEF Counted, Count, Untouched, Runs, Messages, Begun
<1>3. ASSUME NEW w \in Workers, TaskStep(w) PROVE Counted'
  BY <1>3, StartCount, RunNodeCount, SaveAnomaliesCount, SoftTimeLimitCount,
     TransientErrorCount, RetryCount, QuietSteps DEF TaskStep
<1>4. CASE Fault
  BY <1>4, EnqueueFailsCount, WorkerLostCount, QuietSteps DEF Fault
<1> QED BY <1>1, <1>2, <1>3, <1>4 DEF Next

\* Plain inserts, at-least-once delivery, retries: the anomalies of an
\* investigation are still inserted at most once more than there were faults
\* (save_anomalies of metadata_db.py, called by every run that gets that far).
THEOREM InsertedOnceHeld == Spec => []InsertedOnce
<1>1. Inv /\ Counted => InsertedOnce
  <2> SUFFICES ASSUME Inv, Counted, NEW i \in Investigations PROVE inserted[i] <= 1 + faults
    BY DEF InsertedOnce
  <2> QED BY OutsideSizes
<1>2. Spec => []Counted
  BY InitCount, NextCount, SpecInv, PTL DEF Spec
<1> QED BY <1>1, <1>2, SpecInv, PTL
-----------------------------------------------------------------------------
(* Without faults an investigation is in one place at a time. *)

Engages(w, i) == worker[w].pc \notin {"idle", "acking"} /\ worker[w].inv = i

Solo ==
    \A i \in Investigations :
        /\ \A w, v \in Workers : Engages(w, i) /\ Engages(v, i) => w = v
        /\ \A w \in Workers : Engages(w, i) => i \notin creating /\ ~Queued(i)
        /\ i \in creating => ~Queued(i)
        /\ \A n, m \in Attempts :
              queue[i][n] > 0 /\ queue[i][m] > 0 => n = m /\ queue[i][n] = 1

\* And the status says where.
StatusFits(w) ==
    LET s == status[worker[w].inv] IN
    /\ worker[w].pc \in Before \cup {"winding_up", "complete"} => s \in Active
    /\ worker[w].pc = "publish" => s = "complete"
    /\ worker[w].pc \in {"dead_letter", "publish_error"} => s \in Failed

Synced ==
    /\ \A w \in Workers : StatusFits(w)
    /\ \A i \in Investigations : i \in creating \/ Queued(i) => status[i] \in Active

Fine == faults = 0 => Solo /\ Synced

\* A client follows nothing or an investigation.
Following ==
    \A c \in Clients : IF stream[c].state = "none" THEN stream[c].inv = NoInv
                        ELSE stream[c].inv \in Investigations

\* A task on its own investigation, when it leaves the queue alone.
LEMMA SoloMove ==
  ASSUME Inv, Solo, Synced, NEW w \in Workers, NEW i \in Investigations, i = worker[w].inv,
         worker[w].pc \notin {"idle", "acking"},
         worker'[w].pc \notin {"idle", "acking"} => worker'[w].inv = i,
         \A v \in Workers : v # w => worker'[v] = worker[v],
         UNCHANGED <<creating, queue>>,
         \A j \in Investigations : j # i => status'[j] = status[j],
         StatusFits(w)'
  PROVE  Solo' /\ Synced'
<1>1. /\ i \notin creating /\ ~Queued(i)
      /\ \A v \in Workers : Engages(v, i) => v = w
  BY DEF Solo, Engages
<1>2. \A v \in Workers, j \in Investigations : Engages(v, j)' => Engages(v, j)
  BY DEF Engages
<1>3. \A j \in Investigations : Queued(j)' <=> Queued(j)
  BY DEF Queued
<1>4. Solo'
  BY <1>2, <1>3 DEF Solo
<1>5. ASSUME NEW v \in Workers, v # w PROVE StatusFits(v)'
  <2>1. StatusFits(v) /\ worker'[v] = worker[v]
    BY <1>5 DEF Synced
  <2>2. worker[v].pc \notin {"idle", "acking"} =>
            worker[v].inv \in Investigations /\ worker[v].inv # i
    BY <1>1, <1>5, WorkerFacts DEF Inv, Engages
  <2> QED BY <2>1, <2>2 DEF StatusFits, Before, Nodes
<1>6. Synced'
  BY <1>1, <1>3, <1>5 DEF Synced
<1> QED BY <1>4, <1>6

\* A task that is over.
LEMMA AckSolo ==
  ASSUME Inv, Solo, Synced, NEW w \in Workers, Ack(w)
  PROVE  Solo' /\ Synced'
<1>1. /\ worker'[w].pc = "idle"
      /\ \A v \in Workers : v # w => worker'[v] = worker[v]
  BY ReleaseFacts DEF Inv, Ack
<1>2. \A v \in Workers, j \in Investigations : Engages(v, j)' => Engages(v, j)
  BY <1>1 DEF Engages
<1>3. \A j \in Investigations : Queued(j)' <=> Queued(j)
  BY DEF Queued, Ack
<1>4. Solo'
  BY <1>2, <1>3 DEF Solo, Ack
<1>5. StatusFits(w)'
  BY <1>1 DEF StatusFits, Before, Nodes
<1>6. \A v \in Workers : v # w => StatusFits(v)'
  BY <1>1 DEF Synced, StatusFits, Ack
<1>7. Synced'
  BY <1>3, <1>5, <1>6 DEF Synced, Ack
<1> QED BY <1>4, <1>7

\* A message is put into the queue by the only one who could.
LEMMA SendSolo ==
  ASSUME Inv, Solo, Synced, NEW i \in Investigations, NEW n \in Attempts,
         queue' = [queue EXCEPT ![i][n] = @ + 1], ~Queued(i), i \notin creating',
         creating' \subseteq creating, UNCHANGED status, status[i] \in Active,
         \A v \in Workers : ~Engages(v, i)',
         \A v \in Workers : worker'[v] = worker[v] \/ worker'[v].pc = "acking"
  PROVE  Solo' /\ Synced'
<1>1. queue \in [Investigations -> [Attempts -> Nat]]
  BY DEF Inv, Typed, TypeOK
<1>2. /\ \A m \in Attempts : queue'[i][m] = IF m = n THEN queue[i][n] + 1 ELSE queue[i][m]
      /\ \A j \in Investigations : j # i => queue'[j] = queue[j]
  BY <1>1
<1>3. \A m \in Attempts : queue[i][m] = 0
  BY <1>1 DEF Queued
<1>4. \A m \in Attempts : queue'[i][m] = IF m = n THEN 1 ELSE 0
  BY <1>2, <1>3
<1>5. \A v \in Workers, j \in Investigations : Engages(v, j)' => Engages(v, j)
  BY DEF Engages
<1>6. \A j \in Investigations : j # i => (Queued(j)' <=> Queued(j))
  BY <1>2 DEF Queued
<1>7. ASSUME NEW j \in Investigations, j # i
      PROVE  /\ \A w, v \in Workers : Engages(w, j)' /\ Engages(v, j)' => w = v
             /\ \A w \in Workers : Engages(w, j)' => j \notin creating' /\ ~Queued(j)'
             /\ j \in creating' => ~Queued(j)'
             /\ \A m, k \in Attempts :
                   queue'[j][m] > 0 /\ queue'[j][k] > 0 => m = k /\ queue'[j][m] = 1
  BY <1>2, <1>5, <1>6, <1>7 DEF Solo
<1>8. \A m, k \in Attempts :
         queue'[i][m] > 0 /\ queue'[i][k] > 0 => m = k /\ queue'[i][m] = 1
  BY <1>4
<1>9. Solo'
  BY <1>7, <1>8 DEF Solo
<1>10. \A v \in Workers : StatusFits(v)'
  BY DEF Synced, StatusFits, Before, Nodes
<1>11. Synced'
  BY <1>6, <1>10 DEF Synced
<1> QED BY <1>9, <1>11

LEMMA RetrySolo ==
  ASSUME Inv, Solo, Synced, NEW w \in Workers, Retry(w)
  PROVE  Solo' /\ Synced'
<1>1. PICK i \in Investigations : i = worker[w].inv
  BY WorkerFacts DEF Inv, Retry
<1>2. PICK n \in Attempts : n = worker[w].retries + 1
  BY WorkerFacts, Parameters DEF Inv, Typed, Engaged, Retry
<1>3. /\ worker'[w].pc = "acking"
      /\ \A v \in Workers : v # w => worker'[v] = worker[v]
  BY <1>1, GotoFacts DEF Inv, Retry, WorkerPcs
<1>4. Engages(w, i) /\ status[i] \in Active
  BY <1>1 DEF Engages, Retry, Synced, StatusFits, Before
<1>5. /\ ~Queued(i) /\ i \notin creating
      /\ \A v \in Workers : v # w => ~Engages(v, i)
  BY <1>4 DEF Solo
<1>6. \A v \in Workers : ~Engages(v, i)'
  BY <1>3, <1>5 DEF Engages
<1> QED BY <1>1, <1>2, <1>3, <1>4, <1>5, <1>6, SendSolo DEF Retry

LEMMA EnqueueSolo ==
  ASSUME Inv, Solo, Synced, NEW i \in Investigations, Enqueue(i)
  PROVE  Solo' /\ Synced'
<1>1. ~Queued(i) /\ status[i] \in Active /\ \A v \in Workers : ~Engages(v, i)
  BY DEF Solo, Synced, Enqueue
<1>2. \A v \in Workers : ~Engages(v, i)'
  BY <1>1 DEF Engages, Enqueue
<1> QED BY <1>1, <1>2, SendSolo, Parameters DEF Enqueue

LEMMA StartSolo ==
  ASSUME Inv, Solo, Synced, NEW w \in Workers, NEW i \in Investigations, NEW n \in Attempts,
         Start(w, i, n)
  PROVE  Solo' /\ Synced' /\ status[i] \in Active
<1>1. /\ worker'[w].pc = "build" /\ worker'[w].inv = i
      /\ \A v \in Workers : v # w => worker'[v] = worker[v]
  BY StartFacts DEF Inv
<1>2. queue \in [Investigations -> [Attempts -> Nat]] /\ queue[i][n] > 0 /\ Queued(i)
  BY DEF Inv, Typed, TypeOK, Start, Queued
<1>3. \A j \in Investigations : j # i => queue'[j] = queue[j] /\ status'[j] = status[j]
  BY DEF Inv, Typed, TypeOK, Start
<1>4. ~Queued(i)'
  <2>1. \A m \in Attempts : queue[i][m] = IF m = n THEN 1 ELSE 0
    BY <1>2 DEF Solo
  <2>2. \A m \in Attempts : queue'[i][m] = IF m = n THEN queue[i][n] - 1 ELSE queue[i][m]
    BY <1>2 DEF Start
  <2>3. \A m \in Attempts : queue'[i][m] = 0
    BY <2>1, <2>2
  <2> QED BY <2>3 DEF Queued
<1>5. i \notin creating' /\ \A v \in Workers : v # w => ~Engages(v, i) /\ ~Engages(v, i)'
  BY <1>1, <1>2 DEF Solo, Engages, Start
<1>6. \A v \in Workers, j \in Investigations : j # i /\ Engages(v, j)' => Engages(v, j)
  BY <1>1 DEF Engages
<1>7. \A j \in Investigations : j # i => (Queued(j)' <=> Queued(j))
  BY <1>3 DEF Queued
<1>8. ASSUME NEW j \in Investigations, j # i
      PROVE  /\ \A u, v \in Workers : Engages(u, j)' /\ Engages(v, j)' => u = v
             /\ \A v \in Workers : Engages(v, j)' => j \notin creating' /\ ~Queued(j)'
             /\ j \in creating' => ~Queued(j)'
             /\ \A m, k \in Attempts :
                   queue'[j][m] > 0 /\ queue'[j][k] > 0 => m = k /\ queue'[j][m] = 1
  BY <1>3, <1>6, <1>7, <1>8 DEF Solo, Start
<1>9. /\ \A u, v \in Workers : Engages(u, i)' /\ Engages(v, i)' => u = v
      /\ \A m, k \in Attempts :
            queue'[i][m] > 0 /\ queue'[i][k] > 0 => m = k /\ queue'[i][m] = 1
  BY <1>4, <1>5 DEF Queued
<1>10. Solo'
  BY <1>4, <1>5, <1>8, <1>9 DEF Solo
<1>11. status'[i] = "running" /\ status[i] \in Active
  BY <1>2 DEF Start, Inv, Typed, TypeOK, Synced
<1>12. ASSUME NEW v \in Workers PROVE StatusFits(v)'
  <2>1. CASE v = w
    BY <1>1, <1>11, <2>1 DEF StatusFits, Active
  <2>2. CASE v # w
    <3>1. StatusFits(v) /\ worker'[v] = worker[v]
      BY <1>1, <2>2 DEF Synced
    <3>2. worker[v].pc \notin {"idle", "acking"} =>
              worker[v].inv \in Investigations /\ worker[v].inv # i
      BY <1>5, <2>2, WorkerFacts DEF Inv, Engages
    <3> QED BY <1>3, <3>1, <3>2 DEF StatusFits, Before, Nodes
  <2> QED BY <2>1, <2>2
<1>13. Synced'
  BY <1>3, <1>4, <1>5, <1>7, <1>12 DEF Synced, Start
<1> QED BY <1>10, <1>11, <1>13
-----------------------------------------------------------------------------
(* What the steps are to those who only see outcomes and streams. *)

OutcomeOf(s) == CASE s = "complete" -> "complete" [] s \in Failed -> "failed" [] OTHER -> "none"
NewsOf(r) ==
    [inv |-> r.inv,
     event |-> CASE r.state = "complete" -> "complete"
                 [] r.state = "error" -> "failed"
                 [] OTHER -> "none"]

Outcome == [i \in Investigations |-> OutcomeOf(status[i])]
News    == [c \in Clients |-> NewsOf(stream[c])]

Refines == Contract!Next \/ (Outcome' = Outcome /\ News' = News)

LEMMA OutcomeFacts ==
  /\ OutcomeOf("complete") = "complete"
  /\ \A s \in Failed : OutcomeOf(s) = "failed"
  /\ \A s \in Active \cup {"absent"} : OutcomeOf(s) = "none"
  BY DEF OutcomeOf, Failed, Active

LEMMA SameStep ==
  ASSUME UNCHANGED <<status, stream>>
  PROVE  Refines
  BY DEF Refines, Outcome, News

\* A status is written over one that is no outcome.
LEMMA StatusStep ==
  ASSUME Inv, NEW i \in Investigations, NEW s, status' = [status EXCEPT ![i] = s],
         status[i] \in Active \cup {"absent"}, s \in {"complete"} \cup Failed \cup Active,
         UNCHANGED stream
  PROVE  Refines
<1>1. status \in [Investigations -> Statuses]
  BY DEF Inv, Typed, TypeOK
<1>2. Outcome' = [Outcome EXCEPT ![i] = OutcomeOf(s)] /\ Outcome[i] = "none" /\ News' = News
  BY <1>1, OutcomeFacts DEF Outcome, News
<1>3. CASE s \in Active
  <2>1. OutcomeOf(s) = "none"
    BY <1>3, OutcomeFacts
  <2>2. Outcome' = Outcome
    BY <1>2, <2>1 DEF Outcome
  <2> QED BY <1>2, <2>2 DEF Refines
<1>4. CASE s \in {"complete"} \cup Failed
  <2>1. OutcomeOf(s) \in {"complete", "failed"}
    BY <1>4, OutcomeFacts
  <2>2. Contract!Decide(i)
    BY <1>2, <2>1 DEF Contract!Decide, Contract!Outcomes, Outcome, News, OutcomeOf, NewsOf
  <2> QED BY <2>2 DEF Refines, Contract!Next
<1> QED BY <1>3, <1>4

\* Streams are told an outcome that there is.
LEMMA DeliverStep ==
  ASSUME Inv, Following, NEW i \in Investigations, NEW event \in {"complete", "error"},
         Deliver(i, event), UNCHANGED status,
         event = "complete" => status[i] = "complete",
         event = "error" => status[i] \in Failed
  PROVE  Refines /\ Following'
<1>1. Outcome[i] = IF event = "complete" THEN "complete" ELSE "failed"
  BY OutcomeFacts DEF Outcome
<1>2. Outcome' = Outcome
  BY DEF Outcome
<1>3. ASSUME NEW c \in Clients
      PROVE  /\ News[c] = [inv |-> i, event |-> "none"] <=> stream[c] = [state |-> "open", inv |-> i]
             /\ stream'[c] = IF stream[c] = [state |-> "open", inv |-> i]
                             THEN [state |-> event, inv |-> i] ELSE stream[c]
  <2>1. /\ stream[c] \in [state : {"none", "open", "complete", "error"},
                           inv : Investigations \cup {NoInv}]
        /\ stream[c].state = "none" => stream[c].inv = NoInv
    BY DEF Inv, Typed, TypeOK, Following
  <2>2. i # NoInv
    BY InvestigationAssumption
  <2>3. News[c] = NewsOf(stream[c])
    BY DEF News
  <2>4. News[c] = [inv |-> i, event |-> "none"] =>
            stream[c].inv = i /\ stream[c].state \notin {"complete", "error"}
    BY <2>3 DEF NewsOf
  <2>5. stream[c] = [state |-> "open", inv |-> i] => News[c] = [inv |-> i, event |-> "none"]
    BY <2>3 DEF NewsOf
  <2> QED BY <2>1, <2>2, <2>4, <2>5 DEF Deliver
<1>4. NewsOf([state |-> event, inv |-> i]) = [inv |-> i, event |-> Outcome[i]]
  BY <1>1 DEF NewsOf
<1>5. News' = [c \in Clients |-> IF News[c] = [inv |-> i, event |-> "none"]
                                 THEN [inv |-> i, event |-> Outcome[i]] ELSE News[c]]
  BY <1>3, <1>4 DEF News
<1>6. Contract!Tell(i)
  BY <1>1, <1>2, <1>5 DEF Contract!Tell, Outcome, News, OutcomeOf, NewsOf
<1>7. Refines
  BY <1>6 DEF Refines, Contract!Next
<1>8. Following'
  BY <1>3 DEF Following
<1> QED BY <1>7, <1>8

LEMMA SubscribeStep ==
  ASSUME Inv, Following, NEW c \in Clients, NEW i \in Investigations, Subscribe(c, i)
  PROVE  Refines /\ Following'
<1>1. stream' = [stream EXCEPT ![c] = [state |-> "open", inv |-> i]]
  BY DEF Subscribe
<1>2. Following'
  BY <1>1 DEF Following, Inv, Typed, TypeOK
<1>3. News[c].inv = NoInv
  BY DEF News, NewsOf, Subscribe, NoStream
<1>4. NewsOf([state |-> "open", inv |-> i]) = [inv |-> i, event |-> "none"]
  BY DEF NewsOf
<1>5. News' = [News EXCEPT ![c] = [inv |-> i, event |-> "none"]]
  BY <1>1, <1>4 DEF News, Inv, Typed, TypeOK
<1>6. Outcome' = Outcome
  BY DEF Outcome, Subscribe
<1>7. Contract!Watch(c, i)
  BY <1>3, <1>5, <1>6 DEF Contract!Watch, Outcome, News, OutcomeOf, NewsOf
<1> QED BY <1>2, <1>7 DEF Refines, Contract!Next
-----------------------------------------------------------------------------
(* The steps that are not faults, while there has been none. *)

Stays == Solo' /\ Synced' /\ Following' /\ Refines

LEMMA MoveStays ==
  ASSUME Inv, Solo, Synced, Following, NEW w \in Workers,
         worker[w].pc \notin {"idle", "acking"},
         NEW pc \in WorkerPcs \ {"idle", "retry"}, Goto(w, pc),
         UNCHANGED <<creating, queue, status, stream>>,
         \/ pc = "acking"
         \/ pc = "publish_error" /\ worker[w].pc = "dead_letter"
         \/ pc \in Before \cup {"complete"} /\ worker[w].pc \in Before
  PROVE  Stays
<1>1. PICK i \in Investigations : i = worker[w].inv
  BY WorkerFacts DEF Inv
<1>2. /\ worker'[w].pc = pc /\ worker'[w].inv = i
      /\ \A v \in Workers : v # w => worker'[v] = worker[v]
  BY <1>1, GotoFacts DEF Inv
<1>3. StatusFits(w)'
  BY <1>1, <1>2 DEF Synced, StatusFits, Before, Nodes
<1>4. Solo' /\ Synced'
  BY <1>1, <1>2, <1>3, SoloMove
<1> QED BY <1>4, SameStep DEF Stays, Following

LEMMA RunNodeStays ==
  ASSUME Inv, Solo, Synced, Following, NEW w \in Workers, NEW node \in Nodes, RunNode(w, node)
  PROVE  Stays
<1>1. PICK i \in Investigations : i = worker[w].inv
  BY WorkerFacts DEF Inv, RunNode, Nodes
<1>2. /\ worker[w].pc \notin {"idle", "acking"} /\ worker[w].pc \in Before
      /\ worker'[w].inv = i /\ worker'[w].pc \in Before
      /\ \A v \in Workers : v # w => worker'[v] = worker[v]
  BY <1>1 DEF RunNode, Inv, Typed, TypeOK, Nodes, NodeAfter, Before
<1>3. StatusFits(w)'
  BY <1>1, <1>2 DEF Synced, StatusFits, Before, Nodes, RunNode
<1>4. Solo' /\ Synced'
  BY <1>1, <1>2, <1>3, SoloMove DEF RunNode
<1> QED BY <1>4, SameStep DEF Stays, Following, RunNode

\* A task decides, by completing or by giving up, or it lets its row wait.
LEMMA DecideStays ==
  ASSUME Inv, Solo, Synced, Following, NEW w \in Workers,
         worker[w].pc \in Before \cup {"winding_up", "complete"},
         NEW s \in {"complete", "retrying"} \cup Failed, SetStatus(w, s),
         worker'[w].inv = worker[w].inv, \A v \in Workers : v # w => worker'[v] = worker[v],
         worker'[w].pc = (CASE s = "complete" -> "publish" [] s = "retrying" -> "retry"
                            [] OTHER -> "dead_letter"),
         UNCHANGED <<creating, queue, stream>>
  PROVE  Stays
<1>1. worker[w].pc \notin {"idle", "acking"}
  BY DEF Before, Nodes
<1>2. PICK i \in Investigations : i = worker[w].inv
  BY <1>1, WorkerFacts DEF Inv
<1>3. /\ status' = [status EXCEPT ![i] = s] /\ status'[i] = s
      /\ \A j \in Investigations : j # i => status'[j] = status[j]
  BY <1>2 DEF SetStatus, Inv, Typed, TypeOK
<1>4. \/ s = "complete" /\ worker'[w].pc = "publish"
      \/ s = "retrying" /\ worker'[w].pc = "retry"
      \/ s \in Failed /\ worker'[w].pc = "dead_letter"
  BY DEF Failed
<1>5. StatusFits(w)'
  BY <1>2, <1>3, <1>4 DEF StatusFits, Before, Nodes, Active
<1>6. Solo' /\ Synced'
  BY <1>1, <1>2, <1>3, <1>5, SoloMove
<1>7. status[i] \in Active
  BY <1>2 DEF Synced, StatusFits
<1>8. Refines
  BY <1>3, <1>7, StatusStep DEF Active
<1> QED BY <1>6, <1>8 DEF Stays, Following

LEMMA GiveUpStays ==
  ASSUME Inv, Solo, Synced, Following, NEW w \in Workers, NEW s \in Failed, GiveUp(w, s),
         worker[w].pc \in Before \cup {"winding_up", "complete"}
  PROVE  Stays
<1>1. worker[w].pc # "idle"
  BY DEF Before, Nodes
<1>2. /\ worker'[w].pc = "dead_letter" /\ worker'[w].inv = worker[w].inv
      /\ \A v \in Workers : v # w => worker'[v] = worker[v]
  BY <1>1, GiveUpFacts DEF Inv
<1>3. s # "complete" /\ s # "retrying"
  BY DEF Failed
<1> QED BY <1>2, <1>3, DecideStays DEF GiveUp

\* An exception that is no fault comes from a node or from their construction.
LEMMA EarlyRaise ==
  ASSUME Inv, NEW w \in Workers, NEW pcs \in SUBSET TaskPcs, Raises(w, pcs), faults' = 0
  PROVE  worker[w].pc \in Nodes \cup {"build"} /\ worker[w].pc \in Before /\ worker[w].pc # "idle"
<1>1. faults \in Nat
  BY DEF Inv, Typed, TypeOK
<1>2. worker[w].pc \notin Late
  BY <1>1 DEF Raises
<1> QED BY <1>2 DEF Raises, TaskPcs, Late, Before, Nodes

LEMMA RaiseStays ==
  ASSUME Inv, Solo, Synced, Following, NEW w \in Workers, faults' = 0,
         SoftTimeLimit(w) \/ TransientError(w) \/ PermanentError(w) \/ WindUp(w)
  PROVE  Stays
<1>1. CASE WindUp(w)
  BY <1>1, GiveUpStays DEF WindUp, Failed
<1>2. CASE PermanentError(w)
  <2>1. worker[w].pc \in Before
    BY <1>2, EarlyRaise DEF PermanentError, TaskPcs, Late, Nodes
  <2> QED BY <1>2, <2>1, GiveUpStays DEF PermanentError, Failed
<1>3. CASE TransientError(w)
  <2>1. worker[w].pc \in Before /\ worker[w].pc # "idle"
    BY <1>3, EarlyRaise DEF TransientError, TaskPcs, Late, Nodes
  <2>2. CASE ~(worker[w].retries < MaxRetries)
    BY <1>3, <2>1, <2>2, GiveUpStays DEF TransientError, Failed
  <2>3. CASE worker[w].retries < MaxRetries
    <3>1. /\ SetStatus(w, "retrying") /\ Goto(w, "retry")
          /\ UNCHANGED <<creating, queue, stream>>
      BY <1>3, <2>3 DEF TransientError
    <3>2. /\ worker'[w].pc = "retry" /\ worker'[w].inv = worker[w].inv
          /\ \A v \in Workers : v # w => worker'[v] = worker[v]
      BY <2>1, <2>3, <3>1, GotoFacts DEF Inv, WorkerPcs
    <3> QED BY <2>1, <3>1, <3>2, DecideStays
  <2> QED BY <2>2, <2>3
<1>4. CASE SoftTimeLimit(w)
  <2>1. worker[w].pc \in Before /\ worker[w].pc # "idle"
    BY <1>4, EarlyRaise DEF SoftTimeLimit
  <2>2. CASE worker[w].pc # "domain"
    BY <1>4, <2>1, <2>2, GiveUpStays DEF SoftTimeLimit, Failed
  <2>3. CASE worker[w].pc = "domain"
    <3>1. PICK i \in Investigations : i = worker[w].inv
      BY <2>1, WorkerFacts DEF Inv
    <3>2. /\ worker' = [worker EXCEPT ![w].pc = "winding_up", ![w].limited = TRUE]
          /\ UNCHANGED <<status, creating, queue, stream>>
      BY <1>4, <2>3 DEF SoftTimeLimit
    <3>3. /\ worker'[w].pc = "winding_up" /\ worker'[w].inv = i
          /\ \A v \in Workers : v # w => worker'[v] = worker[v]
      <4>1. Typed /\ "winding_up" \in WorkerPcs \ {"idle", "retry"}
        BY DEF Inv, WorkerPcs
      <4> QED BY <2>1, <3>1, <3>2, <4>1, NodeFacts
    <3>4. StatusFits(w)'
      BY <2>1, <3>1, <3>2, <3>3 DEF Synced, StatusFits, Before, Nodes
    <3>5. Solo' /\ Synced'
      BY <2>3, <3>1, <3>2, <3>3, <3>4, SoloMove
    <3> QED BY <3>2, <3>5, SameStep DEF Stays, Following
  <2> QED BY <2>2, <2>3
<1> QED BY <1>1, <1>2, <1>3, <1>4

LEMMA PublishStays ==
  ASSUME Inv, Solo, Synced, Following, NEW w \in Workers, PublishComplete(w) \/ PublishError(w)
  PROVE  Stays
<1>1. worker[w].pc \notin {"idle", "acking"}
  BY DEF PublishComplete, PublishError
<1>2. PICK i \in Investigations : i = worker[w].inv
  BY <1>1, WorkerFacts DEF Inv
<1>3. /\ worker'[w].pc = "acking"
      /\ \A v \in Workers : v # w => worker'[v] = worker[v]
  BY <1>1, GotoFacts DEF Inv, PublishComplete, PublishError, WorkerPcs
<1>4. StatusFits(w)'
  BY <1>3 DEF StatusFits, Before, Nodes
<1>5. Solo' /\ Synced'
  BY <1>1, <1>2, <1>3, <1>4, SoloMove DEF PublishComplete, PublishError
<1>6. CASE PublishComplete(w)
  <2>1. status[i] = "complete"
    BY <1>2, <1>6 DEF PublishComplete, Synced, StatusFits
  <2> QED BY <1>2, <1>5, <1>6, <2>1, DeliverStep DEF PublishComplete, Stays
<1>7. CASE PublishError(w)
  <2>1. status[i] \in Failed
    BY <1>2, <1>7 DEF PublishError, Synced, StatusFits
  <2>2. CASE Deliver(i, "error")
    BY <1>5, <1>7, <2>1, <2>2, DeliverStep DEF PublishError, Stays
  <2>3. CASE UNCHANGED stream
    BY <1>5, <1>7, <2>3, SameStep DEF PublishError, Stays, Following
  <2> QED BY <1>2, <1>7, <2>2, <2>3 DEF PublishError
<1> QED BY <1>6, <1>7

LEMMA TaskStays ==
  ASSUME Inv, Solo, Synced, Following, NEW w \in Workers, TaskStep(w), faults' = 0
  PROVE  Stays
<1>a. {"timeline", "complete", "acking", "publish_error"} \subseteq WorkerPcs \ {"idle", "retry"}
  BY DEF WorkerPcs, TaskPcs, Nodes
<1>b. {"build", "save", "timeline"} \subseteq Before
  BY DEF Before, Nodes
<1>1. CASE \E i \in Investigations, n \in Attempts : Start(w, i, n)
  <2>1. PICK i \in Investigations, n \in Attempts : Start(w, i, n)
    BY <1>1
  <2>2. Solo' /\ Synced' /\ status[i] \in Active
    BY <2>1, StartSolo
  <2>3. Refines
    BY <2>1, <2>2, StatusStep DEF Start, Active
  <2> QED BY <2>1, <2>2, <2>3 DEF Start, Stays, Following
<1>2. CASE Build(w)
  BY <1>2, <1>a, <1>b, MoveStays DEF Build
<1>3. CASE SaveAnomalies(w)
  BY <1>3, <1>a, <1>b, MoveStays DEF SaveAnomalies
<1>4. CASE SendToDlq(w)
  BY <1>4, <1>a, <1>b, MoveStays DEF SendToDlq
<1>5. CASE Complete(w)
  <2>1. worker[w].pc = "complete" /\ worker[w].pc # "idle" /\ "publish" \in WorkerPcs \ {"idle"}
    BY <1>5 DEF Complete, WorkerPcs, TaskPcs
  <2>2. /\ worker'[w].pc = "publish" /\ worker'[w].inv = worker[w].inv
        /\ \A v \in Workers : v # w => worker'[v] = worker[v]
    BY <1>5, <2>1, GotoFacts DEF Inv, Complete
  <2> QED BY <1>5, <2>1, <2>2, DecideStays DEF Complete
<1>6. CASE Retry(w)
  BY <1>6, RetrySolo, SameStep DEF Retry, Stays, Following
<1>7. CASE Ack(w)
  BY <1>7, AckSolo, SameStep DEF Ack, Stays, Following
<1>8. CASE SoftTimeLimit(w) \/ TransientError(w) \/ PermanentError(w) \/ WindUp(w)
  BY <1>8, RaiseStays
<1>9. CASE PublishComplete(w) \/ PublishError(w)
  BY <1>9, PublishStays
<1>10. CASE \E node \in Nodes : RunNode(w, node)
  BY <1>10, RunNodeStays
<1> QED BY <1>1, <1>2, <1>3, <1>4, <1>5, <1>6, <1>7, <1>8, <1>9, <1>10 DEF TaskStep

LEMMA CreateStays ==
  ASSUME Inv, Counted, Solo, Synced, Following, NEW i \in Investigations, Create(i)
  PROVE  Stays
<1>1. /\ i \notin creating /\ ~Queued(i)
      /\ \A w \in Workers : worker[w].pc # "idle" => worker[w].inv # i
  BY DEF Create, Counted, Untouched, Queued
<1>2. /\ status'[i] = "queued"
      /\ \A j \in Investigations : j # i => status'[j] = status[j]
  BY DEF Create, Inv, Typed, TypeOK
<1>3. /\ \A j \in Investigations : Queued(j)' <=> Queued(j)
      /\ \A w \in Workers, j \in Investigations : Engages(w, j)' <=> Engages(w, j)
  BY DEF Queued, Engages, Create
<1>4. Solo'
  BY <1>1, <1>3 DEF Solo, Create, Engages
<1>5. ASSUME NEW w \in Workers PROVE StatusFits(w)'
  <2>1. StatusFits(w) /\ worker' = worker
    BY DEF Synced, Create
  <2>2. worker[w].pc # "idle" => worker[w].inv \in Investigations /\ worker[w].inv # i
    BY <1>1, WorkerFacts DEF Inv
  <2> QED BY <1>2, <2>1, <2>2 DEF StatusFits, Before, Nodes
<1>6. Synced'
  BY <1>2, <1>3, <1>5 DEF Synced, Create, Active
<1>7. Refines
  BY StatusStep DEF Create, Active
<1> QED BY <1>4, <1>6, <1>7 DEF Stays, Following, Create
-----------------------------------------------------------------------------
LEMMA InitFine == Init => Fine /\ Following /\ Contract!Init
<1> SUFFICES ASSUME Init PROVE Fine /\ Following /\ Contract!Init
  OBVIOUS
<1>1. \A w \in Workers : worker[w].pc = "idle"
  BY Parameters DEF Init
<1>2. Solo /\ Synced
  BY <1>1 DEF Init, Solo, Synced, Engages, Queued, StatusFits, Before, Nodes
<1>3. Following
  BY DEF Init, Following, NoStream
<1>4. Contract!Init
  BY DEF Init, NoStream, Contract!Init, Failed
<1> QED BY <1>2, <1>3, <1>4 DEF Fine

LEMMA NextFine ==
  Inv /\ Counted /\ Fine /\ Following /\ [Next]_vars =>
      Fine' /\ Following' /\ (faults' = 0 => Refines)
<1> SUFFICES ASSUME Inv, Counted, Fine, Following, [Next]_vars
             PROVE  Fine' /\ Following' /\ (faults' = 0 => Refines)
  OBVIOUS
<1>1. faults \in Nat
  BY DEF Inv, Typed, TypeOK
<1>2. CASE faults' = 0
  <2>1. faults = 0 /\ ~Fault
    <3>1. ~Fault
      <4>1. ASSUME NEW i \in Investigations, EnqueueFails(i) PROVE faults' = faults + 1
        BY <4>1 DEF EnqueueFails
      <4>2. ASSUME NEW w \in Workers, WorkerLost(w) PROVE faults' = faults + 1
        BY <4>2 DEF WorkerLost
      <4>3. ASSUME NEW w \in Workers,
                   HardTimeLimit(w) \/ HandlerFails(w) \/ RetryFails(w) \/ CutOff(w)
            PROVE  faults' = faults + 1
        BY <4>3 DEF HardTimeLimit, HandlerFails, RetryFails, CutOff, Abandon
      <4>4. ASSUME NEW w \in Workers, DlqWriteFails(w) \/ PublishErrorFails(w)
            PROVE  faults' = faults + 1
        BY <4>4 DEF DlqWriteFails, PublishErrorFails, Swallow
      <4>5. Fault => faults' = faults + 1
        BY <4>1, <4>2, <4>3, <4>4 DEF Fault
      <4> QED BY <1>1, <1>2, <4>5
    <3>2. ASSUME NEW w \in Workers, TaskStep(w) PROVE faults' \in {faults, faults + 1}
      BY <3>2 DEF TaskStep, Start, Build, RunNode, SaveAnomalies, Complete, PublishComplete,
                  SoftTimeLimit, WindUp, TransientError, PermanentError, Raises, Retry, SendToDlq,
                  PublishError, Ack
    <3>3. faults' \in {faults, faults + 1}
      BY <3>1, <3>2 DEF Next, Create, Enqueue, Subscribe, vars
    <3> QED BY <1>1, <1>2, <3>1, <3>3
  <2>2. Solo /\ Synced
    BY <2>1 DEF Fine
  <2>3. CASE \E w \in Workers : TaskStep(w)
    BY <1>2, <2>2, <2>3, TaskStays DEF Stays, Fine
  <2>4. CASE \E i \in Investigations : Create(i)
    BY <2>2, <2>4, CreateStays DEF Stays, Fine
  <2>5. CASE \E i \in Investigations : Enqueue(i)
    BY <2>2, <2>5, EnqueueSolo, SameStep DEF Enqueue, Fine, Following
  <2>6. CASE \E c \in Clients, i \in Investigations : Subscribe(c, i)
    <3>1. Refines /\ Following'
      BY <2>6, SubscribeStep
    <3>2. UNCHANGED <<status, creating, queue, worker>>
      BY <2>6 DEF Subscribe
    <3>3. Solo' /\ Synced'
      BY <2>2, <3>2 DEF Solo, Synced, Engages, Queued, StatusFits
    <3> QED BY <3>1, <3>3 DEF Fine
  <2>7. CASE UNCHANGED vars
    <3>1. Solo' /\ Synced' /\ Following'
      BY <2>2, <2>7 DEF vars, Solo, Synced, Engages, Queued, StatusFits, Following
    <3> QED BY <2>7, <3>1, SameStep DEF vars, Fine
  <2> QED BY <2>1, <2>3, <2>4, <2>5, <2>6, <2>7 DEF Next
<1>3. CASE faults' # 0
  <2>1. Following'
    <3>1. ASSUME NEW w \in Workers, NEW event \in {"complete", "error"}, Deliver(worker[w].inv, event),
                 worker[w].pc # "idle"
          PROVE  Following'
      <4>1. PICK i \in Investigations : i = worker[w].inv
        BY <3>1, WorkerFacts DEF Inv
      <4>2. Typed /\ Deliver(i, event)
        BY <3>1, <4>1 DEF Inv
      <4>3. \A c \in Clients : stream'[c] = [state |-> event, inv |-> i] \/ stream'[c] = stream[c]
        BY <4>2, DeliverFacts
      <4>4. ASSUME NEW c \in Clients
            PROVE  IF stream'[c].state = "none" THEN stream'[c].inv = NoInv
                                                ELSE stream'[c].inv \in Investigations
        BY <4>3 DEF Following
      <4> QED BY <4>4 DEF Following
    <3>2. CASE \E w \in Workers : PublishComplete(w) \/ PublishError(w)
      BY <3>1, <3>2 DEF PublishComplete, PublishError, Following
    <3>3. CASE \E c \in Clients, i \in Investigations : Subscribe(c, i)
      BY <3>3, SubscribeStep
    <3>4. CASE UNCHANGED stream
      BY <3>4 DEF Following
    <3>5. ASSUME NEW w \in Workers, TaskStep(w) PROVE UNCHANGED stream \/ PublishComplete(w) \/ PublishError(w)
      BY <3>5 DEF TaskStep, Start, Build, RunNode, SaveAnomalies, Complete, SoftTimeLimit, WindUp,
                  TransientError, PermanentError, GiveUp, Retry, SendToDlq, Ack
    <3>6. Fault => UNCHANGED stream
      BY DEF Fault, EnqueueFails, WorkerLost, HardTimeLimit, HandlerFails, RetryFails, CutOff, Abandon,
             DlqWriteFails, PublishErrorFails, Swallow
    <3> QED BY <3>2, <3>3, <3>4, <3>5, <3>6 DEF Next, Create, Enqueue, vars
  <2> QED BY <1>3, <2>1 DEF Fine
<1> QED BY <1>2, <1>3

\* Without faults an investigation gets one outcome, for good, and every stream
\* that ends reports it: retries, the soft time limit and streams that open at any
\* moment included (run_investigation_task, stream_investigation).
THEOREM InvestigationImplementsContract == Spec => ContractKept
<1>1. (faults' = 0 => Refines) => (faults' = 0 => [Contract!Next]_(Contract!vars))
  BY DEF Refines, Outcome, News, OutcomeOf, NewsOf, Contract!vars
<1>2. Spec => []Counted
  BY InitCount, NextCount, SpecInv, PTL DEF Spec
<1>3. Inv /\ Counted /\ Fine /\ Following /\ [Next]_vars =>
         Fine' /\ Following' /\ [faults' = 0 => [Contract!Next]_(Contract!vars)]_vars
  BY <1>1, NextFine
<1> QED BY <1>2, <1>3, InitFine, SpecInv, PTL DEF Spec, ContractKept
=============================================================================
