----------------------- MODULE InvestigationLifecycle -----------------------
(***************************************************************************)
(* The life of an investigation: POST /investigations (api/main.py), the   *)
(* Celery queue 'investigate', run_investigation_task (api/workers/        *)
(* tasks.py), the agent graph it runs (orchestrator/graph.py), the row and *)
(* the anomalies it stores (storage/metadata_db.py), and the live streams  *)
(* of GET /investigations/{id}/stream over Redis pub/sub.                  *)
(*                                                                         *)
(* Every database transaction, queue operation and publication is a step   *)
(* of its own.  The agents are steps that succeed or fail; what they find  *)
(* is left out.                                                            *)
(***************************************************************************)
EXTENDS Naturals

CONSTANTS
    Investigations, \* investigation ids (fresh uuids, one per POST)
    Workers,        \* pool slots that consume the 'investigate' queue
    Clients,        \* live streams
    MaxRetries,     \* max_retries of run_investigation_task
    MaxFaults,      \* BOUND on crashes, kills and late failures
    NoInv

ASSUME InvestigationAssumption ==
    /\ MaxRetries \in Nat
    /\ MaxFaults \in Nat
    /\ NoInv \notin Investigations

VARIABLES
    status,    \* Investigation.status, "absent" before the row exists
    result,    \* the findings in the row: none, "partial" when an agent failed
    inserted,  \* how often the anomalies found were inserted into the table
    creating,  \* investigations whose handler is about to enqueue them
    queue,     \* messages of the 'investigate' queue per retry count
    worker,    \* the task each pool slot executes
    stream,    \* the live stream of each client
    dlq,       \* investigations with an entry in celery.investigate.dlq
    dropped,   \* history: ways in which an investigation, or its announcement,
               \* was given up
    faults     \* number of faults so far

vars == <<status, result, inserted, creating, queue, worker, stream, dlq, dropped, faults>>

Statuses == {"absent", "queued", "running", "retrying", "complete", "timeout", "error"}
Failed   == {"timeout", "error"}
Results  == {"none", "partial", "full"}
Attempts == 0 .. MaxRetries
Causes   == {"enqueue", "retry", "hard_limit", "handler", "dlq_write", "publish", "garbled",
             "cut_off"}

\* The nodes of the agent graph.  Nothing ever sets needs_more_evidence, so
\* the conditional edge after "domain" always goes on.
Nodes     == {"timeline", "domain", "comparative", "crash", "report"}
NodeAfter == [timeline |-> "domain", domain |-> "comparative",
              comparative |-> "crash", crash |-> "report", report |-> "save"]
TaskPcs   == Nodes \cup {"build", "save", "complete", "publish"}
WorkerPcs == TaskPcs \cup {"idle", "winding_up", "retry", "dead_letter", "publish_error", "acking"}

IdleWorker == [pc |-> "idle", inv |-> NoInv, retries |-> 0,
               degraded |-> FALSE, limited |-> FALSE, verdict |-> "none"]
NoStream   == [state |-> "none", inv |-> NoInv]

TypeOK ==
    /\ status \in [Investigations -> Statuses]
    /\ result \in [Investigations -> Results]
    /\ inserted \in [Investigations -> Nat]
    /\ creating \in SUBSET Investigations
    /\ queue \in [Investigations -> [Attempts -> Nat]]
    /\ worker \in [Workers -> [pc : WorkerPcs, inv : Investigations \cup {NoInv},
                               retries : Attempts, degraded : BOOLEAN, limited : BOOLEAN,
                               verdict : Failed \cup {"none"}]]
    /\ stream \in [Clients -> [state : {"none", "open", "complete", "error"},
                               inv : Investigations \cup {NoInv}]]
    /\ dlq \in SUBSET Investigations
    /\ dropped \in [Investigations -> SUBSET Causes]
    /\ faults \in Nat

Init ==
    /\ status = [i \in Investigations |-> "absent"]
    /\ result = [i \in Investigations |-> "none"]
    /\ inserted = [i \in Investigations |-> 0]
    /\ creating = {}
    /\ queue = [i \in Investigations |-> [n \in Attempts |-> 0]]
    /\ worker = [w \in Workers |-> IdleWorker]
    /\ stream = [c \in Clients |-> NoStream]
    /\ dlq = {}
    /\ dropped = [i \in Investigations |-> {}]
    /\ faults = 0

-----------------------------------------------------------------------------
\* POST /investigations: quota and flight are in order, the row is created ...
Create(i) ==
    /\ status[i] = "absent"
    /\ status' = [status EXCEPT ![i] = "queued"]
    /\ creating' = creating \cup {i}
    /\ UNCHANGED <<result, inserted, queue, worker, stream, dlq, dropped, faults>>

\* ... and the task is enqueued.
Enqueue(i) ==
    /\ i \in creating
    /\ creating' = creating \ {i}
    /\ queue' = [queue EXCEPT ![i][0] = @ + 1]
    /\ UNCHANGED <<status, result, inserted, worker, stream, dlq, dropped, faults>>

\* The process stops, or apply_async cannot reach the broker.
EnqueueFails(i) ==
    /\ faults < MaxFaults
    /\ i \in creating
    /\ creating' = creating \ {i}
    /\ dropped' = [dropped EXCEPT ![i] = @ \cup {"enqueue"}]
    /\ faults' = faults + 1
    /\ UNCHANGED <<status, result, inserted, queue, worker, stream, dlq>>

\* GET /investigations/{id}/stream: subscribes whatever the status is; what was
\* published before is gone.
Subscribe(c, i) ==
    /\ status[i] # "absent"
    /\ stream[c] = NoStream
    /\ stream' = [stream EXCEPT ![c] = [state |-> "open", inv |-> i]]
    /\ UNCHANGED <<status, result, inserted, creating, queue, worker, dlq, dropped, faults>>

\* Variant for mutation: one channel for all investigations.
DeliverToAll(i, event) ==
    stream' = [c \in Clients |-> IF stream[c].state = "open"
                                 THEN [stream[c] EXCEPT !.state = event] ELSE stream[c]]

\* A terminal event reaches the streams that are open on the channel.
Deliver(i, event) ==
    stream' = [c \in Clients |-> IF stream[c] = [state |-> "open", inv |-> i]
                                 THEN [state |-> event, inv |-> i] ELSE stream[c]]
-----------------------------------------------------------------------------
(***************************************************************************)
(* run_investigation_task                                                  *)
(***************************************************************************)

Goto(w, pc)    == worker' = [worker EXCEPT ![w].pc = pc]
Release(w)     == worker' = [worker EXCEPT ![w] = IdleWorker]
SetStatus(w, s) == status' = [status EXCEPT ![worker[w].inv] = s]

Start(w, i, n) ==
    /\ worker[w].pc = "idle"
    /\ queue[i][n] > 0
    /\ queue' = [queue EXCEPT ![i][n] = @ - 1]
    /\ worker' = [worker EXCEPT ![w] = [pc |-> "build", inv |-> i, retries |-> n,
                                        degraded |-> FALSE, limited |-> FALSE,
                                        verdict |-> "none"]]
    /\ status' = [status EXCEPT ![i] = "running"]
    /\ UNCHANGED <<result, inserted, creating, stream, dlq, dropped, faults>>

\* Variant for mutation: the parse-phase anomalies are inserted as well.
BuildSeeding(w) ==
    /\ worker[w].pc = "build"
    /\ inserted' = [inserted EXCEPT ![worker[w].inv] = @ + 1]
    /\ Goto(w, "timeline")
    /\ UNCHANGED <<status, result, creating, queue, stream, dlq, dropped, faults>>

\* The graph is built, with the agents outside the domain step.
Build(w) ==
    /\ worker[w].pc = "build"
    /\ Goto(w, "timeline")
    /\ UNCHANGED <<status, result, inserted, creating, queue, stream, dlq, dropped, faults>>

\* A node: an agent that raises (a provider error, or the soft time limit, which
\* strikes once) leaves a note in the state and the graph goes on without its
\* findings.
RunNode(w, node) ==
    /\ worker[w].pc = node
    /\ \E fails \in BOOLEAN, limited \in {worker[w].limited, TRUE} :
         /\ limited # worker[w].limited => fails
         /\ worker' = [worker EXCEPT ![w].pc = NodeAfter[node], ![w].limited = limited,
                                     ![w].degraded = @ \/ fails]
    /\ UNCHANGED <<status, result, inserted, creating, queue, stream, dlq, dropped, faults>>

\* save_anomalies: plain inserts, skipped when nothing was found.
SaveAnomalies(w) ==
    /\ worker[w].pc = "save"
    /\ \E found \in BOOLEAN :
         inserted' = IF found THEN [inserted EXCEPT ![worker[w].inv] = @ + 1] ELSE inserted
    /\ Goto(w, "complete")
    /\ UNCHANGED <<status, result, creating, queue, stream, dlq, dropped, faults>>

\* The outcome and the findings are written in one transaction ...
Complete(w) ==
    /\ worker[w].pc = "complete"
    /\ SetStatus(w, "complete")
    /\ result' = [result EXCEPT ![worker[w].inv] =
                      IF worker[w].degraded THEN "partial" ELSE "full"]
    /\ Goto(w, "publish")
    /\ UNCHANGED <<inserted, creating, queue, stream, dlq, dropped, faults>>

\* ... and announced.
PublishComplete(w) ==
    /\ worker[w].pc = "publish"
    /\ Deliver(worker[w].inv, "complete")
    /\ Goto(w, "acking")
    /\ UNCHANGED <<status, result, inserted, creating, queue, dlq, dropped, faults>>

\* An exception reaches the task from the construction of the agents or from
\* its own calls; one after the graph has finished needs a failing database or
\* broker, or a soft time limit within milliseconds, and is a fault.
Late == {"save", "complete", "publish"}

Raises(w, pcs) ==
    /\ worker[w].pc \in pcs
    /\ IF worker[w].pc \in Late
       THEN faults < MaxFaults /\ faults' = faults + 1
       ELSE UNCHANGED faults

\* Variants for mutation: a misspelt status; no dead-letter entry.
GiveUpFailed(w, s) ==
    /\ SetStatus(w, "failed")
    /\ Goto(w, "dead_letter")
    /\ UNCHANGED <<result, inserted, creating, queue, stream, dlq, dropped>>

GiveUpUnsent(w, s) ==
    /\ SetStatus(w, s)
    /\ Goto(w, "publish_error")
    /\ UNCHANGED <<result, inserted, creating, queue, stream, dlq, dropped>>

GiveUp(w, s) ==
    /\ SetStatus(w, s)
    /\ worker' = [worker EXCEPT ![w].pc = "dead_letter", ![w].verdict = s]
    /\ UNCHANGED <<result, inserted, creating, queue, stream, dlq, dropped>>

\* SoftTimeLimitExceeded, raised where no agent catches it.  In the domain step
\* it leaves the loop over the agents' threads, and the thread pool waits for
\* all of them before it lets the exception pass.
SoftTimeLimit(w) ==
    /\ ~worker[w].limited
    /\ Raises(w, TaskPcs)
    /\ IF worker[w].pc = "domain"
       THEN /\ worker' = [worker EXCEPT ![w].pc = "winding_up", ![w].limited = TRUE]
            /\ UNCHANGED <<status, result, inserted, creating, queue, stream, dlq, dropped>>
       ELSE GiveUp(w, "timeout")

\* except SoftTimeLimitExceeded, after that wait
WindUp(w) ==
    /\ worker[w].pc = "winding_up"
    /\ GiveUp(w, "timeout")
    /\ UNCHANGED faults

\* except Exception, with an error that _is_transient_error recognises
TransientError(w) ==
    /\ Raises(w, {"build", "domain"} \cup Late)
    /\ IF worker[w].retries < MaxRetries
       THEN /\ SetStatus(w, "retrying")
            /\ Goto(w, "retry")
            /\ UNCHANGED <<result, inserted, creating, queue, stream, dlq, dropped>>
       ELSE GiveUp(w, "error")

PermanentError(w) == Raises(w, {"build", "domain"} \cup Late) /\ GiveUp(w, "error")

\* Variants for mutation: the retry, or the announcement, is forgotten.
RetryForgotten(w) ==
    /\ worker[w].pc = "retry"
    /\ Goto(w, "acking")
    /\ UNCHANGED <<status, result, inserted, creating, queue, stream, dlq, dropped, faults>>

SendToDlqSilently(w) ==
    /\ worker[w].pc = "dead_letter"
    /\ dlq' = dlq \cup {worker[w].inv}
    /\ Goto(w, "acking")
    /\ UNCHANGED <<status, result, inserted, creating, queue, stream, dropped, faults>>

\* self.retry publishes the next attempt.
Retry(w) ==
    /\ worker[w].pc = "retry"
    /\ queue' = [queue EXCEPT ![worker[w].inv][worker[w].retries + 1] = @ + 1]
    /\ Goto(w, "acking")
    /\ UNCHANGED <<status, result, inserted, creating, stream, dlq, dropped, faults>>

SendToDlq(w) ==
    /\ worker[w].pc = "dead_letter"
    /\ dlq' = dlq \cup {worker[w].inv}
    /\ Goto(w, "publish_error")
    /\ UNCHANGED <<status, result, inserted, creating, queue, stream, dropped, faults>>

\* The announcement of a failure. The text of an exception is pasted into the
\* JSON as it is: a quote or a line break in it spoils the message, and the
\* stream passes it on as an update and stays open.
PublishError(w) ==
    LET i == worker[w].inv IN
    /\ worker[w].pc = "publish_error"
    /\ \/ Deliver(i, "error") /\ UNCHANGED dropped
       \/ /\ worker[w].verdict = "error"
          /\ dropped' = [dropped EXCEPT ![i] = @ \cup {"garbled"}]
          /\ UNCHANGED stream
    /\ Goto(w, "acking")
    /\ UNCHANGED <<status, result, inserted, creating, queue, dlq, faults>>

Ack(w) ==
    /\ worker[w].pc = "acking"
    /\ Release(w)
    /\ UNCHANGED <<status, result, inserted, creating, queue, stream, dlq, dropped, faults>>
-----------------------------------------------------------------------------
\* task_reject_on_worker_lost: the message of a dead worker is delivered again.
WorkerLost(w) ==
    /\ faults < MaxFaults
    /\ worker[w].pc # "idle"
    /\ queue' = [queue EXCEPT ![worker[w].inv][worker[w].retries] = @ + 1]
    /\ Release(w)
    /\ faults' = faults + 1
    /\ UNCHANGED <<status, result, inserted, creating, stream, dlq, dropped>>

\* The task ends and its message is acknowledged, but work is left undone: it is
\* killed, or its exception handler loses the database or the broker.
Abandon(w, pcs, cause) ==
    /\ faults < MaxFaults
    /\ worker[w].pc \in pcs
    /\ dropped' = [dropped EXCEPT ![worker[w].inv] = @ \cup {cause}]
    /\ Release(w)
    /\ faults' = faults + 1
    /\ UNCHANGED <<status, result, inserted, creating, queue, stream, dlq>>

\* The hard limit comes five minutes after the soft one.
HardTimeLimit(w) ==
    /\ worker[w].limited
    /\ Abandon(w, TaskPcs \cup {"winding_up"}, "hard_limit")

HandlerFails(w)  == Abandon(w, TaskPcs \cup {"winding_up"}, "handler")
RetryFails(w)    == Abandon(w, {"retry"}, "retry")

\* A time limit, or an exception no clause catches, between the commit of the
\* failure and its announcement.
CutOff(w) == Abandon(w, {"dead_letter", "publish_error"}, "cut_off")

\* _send_to_dlq and the error announcement swallow their own failures.
Swallow(w, from, to, cause) ==
    /\ faults < MaxFaults
    /\ worker[w].pc = from
    /\ dropped' = [dropped EXCEPT ![worker[w].inv] = @ \cup {cause}]
    /\ Goto(w, to)
    /\ faults' = faults + 1
    /\ UNCHANGED <<status, result, inserted, creating, queue, stream, dlq>>

DlqWriteFails(w)     == Swallow(w, "dead_letter", "publish_error", "dlq_write")
PublishErrorFails(w) == Swallow(w, "publish_error", "acking", "publish")

TaskStep(w) ==
    \/ \E i \in Investigations, n \in Attempts : Start(w, i, n)
    \/ Build(w) \/ \E node \in Nodes : RunNode(w, node)
    \/ SaveAnomalies(w) \/ Complete(w) \/ PublishComplete(w)
    \/ SoftTimeLimit(w) \/ WindUp(w) \/ TransientError(w) \/ PermanentError(w)
    \/ Retry(w) \/ SendToDlq(w) \/ PublishError(w) \/ Ack(w)

Fault ==
    \/ \E i \in Investigations : EnqueueFails(i)
    \/ \E w \in Workers : \/ WorkerLost(w) \/ HardTimeLimit(w) \/ HandlerFails(w)
                          \/ RetryFails(w) \/ CutOff(w)
                          \/ DlqWriteFails(w) \/ PublishErrorFails(w)

Next ==
    \/ \E i \in Investigations : Create(i) \/ Enqueue(i)
    \/ \E c \in Clients, i \in Investigations : Subscribe(c, i)
    \/ \E w \in Workers : TaskStep(w)
    \/ Fault

Spec == Init /\ [][Next]_vars

\* A handler that has created the row goes on, and so does a pool slot.
FairSpec ==
    /\ Spec
    /\ \A i \in Investigations : WF_vars(Enqueue(i))
    /\ \A w \in Workers : WF_vars(TaskStep(w))
-----------------------------------------------------------------------------
Queued(i) == \E n \in Attempts : queue[i][n] > 0
GivenUp(i) == dropped[i] \cap {"enqueue", "retry", "hard_limit", "handler"} # {}
At(i, pcs) == \E w \in Workers : worker[w].pc \in pcs /\ worker[w].inv = i

\* An investigation the row shows as under way is somebody's job, unless it
\* was given up in one of the recorded ways.
Accounted ==
    \A i \in Investigations :
        status[i] \in {"queued", "running", "retrying"} =>
            \/ i \in creating \/ Queued(i) \/ At(i, TaskPcs \cup {"winding_up", "retry"})
            \/ GivenUp(i)

\* A client whose stream ended knows what it needs to know: after "complete"
\* the findings can be read, whatever happens to the status later; after
\* "error" the investigation is in the dead-letter queue.
StreamTruthful ==
    \A c \in Clients :
        LET i == stream[c].inv IN
        /\ stream[c].state = "complete" => result[i] # "none"
        /\ stream[c].state = "error" => i \in dlq \/ "dlq_write" \in dropped[i]

\* The anomalies of an investigation are inserted again only by a run that a
\* crash or a late failure has made necessary: one run more per fault.
InsertedOnce ==
    \A i \in Investigations : inserted[i] <= 1 + faults

\* Every investigation gets an outcome, unless it was given up.
Settles ==
    \A i \in Investigations :
        status[i] \in {"queued", "running", "retrying"} ~>
            status[i] \in {"complete"} \cup Failed \/ GivenUp(i)

\* A stream opened before a run begins ends, although pub/sub keeps nothing:
\* every way out of the task publishes, unless the announcement was spoilt.
EarlyStreamsEnd ==
    \A c \in Clients, i \in Investigations :
        stream[c] = [state |-> "open", inv |-> i] /\ status[i] \in {"queued", "retrying"} ~>
            stream[c].state # "open" \/ dropped[i] # {}

\* As long as no fault has happened the lifecycle implements
\* InvestigationContract: one outcome, and streams that report it.
Contract == INSTANCE InvestigationContract
    WITH outcome <- [i \in Investigations |->
                        CASE status[i] = "complete" -> "complete"
                          [] status[i] \in Failed -> "failed"
                          [] OTHER -> "none"],
         told <- [c \in Clients |->
                     [inv |-> stream[c].inv,
                      event |-> CASE stream[c].state = "complete" -> "complete"
                                  [] stream[c].state = "error" -> "failed"
                                  [] OTHER -> "none"]]

ContractKept ==
    Contract!Init /\ [][faults' = 0 => [Contract!Next]_(Contract!vars)]_vars

\* celery_app.py: "Soft limit sends SIGTERM so the task can clean up DB state":
\* a task that is killed by the hard limit does not leave its row "running".
HardLimitCleanedUp ==
    \A i \in Investigations :
        "hard_limit" \in dropped[i] /\ ~At(i, TaskPcs) /\ ~Queued(i) => status[i] # "running"
=============================================================================
