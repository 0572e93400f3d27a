-------------------------- MODULE FlightLifecycle --------------------------
(***************************************************************************)
(* The life of an uploaded flight log: the API handlers that register it   *)
(* (api/main.py), the Celery queue 'parse' with late acknowledgement       *)
(* (api/workers/celery_app.py), the parse task (api/workers/tasks.py) and   *)
(* the ingestion pipeline it drives (pipeline/ingestion.py), down to the   *)
(* flight row (storage/metadata_db.py) and the stored artefacts            *)
(* (storage/parquet_store.py).                                             *)
(*                                                                         *)
(* Every database transaction, queue operation and artefact write is a     *)
(* step of its own; any of the processes may stop between two of them.     *)
(***************************************************************************)
EXTENDS Naturals

CONSTANTS
    Flights,     \* flight ids (fresh uuids)
    Logs,        \* contents a client may upload; SHA-256 is taken as injective
    LogOf,       \* the content uploaded under each flight id
    Replicas,    \* API processes
    Workers,     \* pool slots that consume the 'parse' queue
    GcsMode,     \* settings.gcs_data_bucket is set
    MaxRetries,  \* max_retries of parse_log_task
    MaxFaults,   \* BOUND on crashes, kills and lost broker or database calls
    NoFlight, NoHash

ASSUME FlightAssumption ==
    /\ LogOf \in [Flights -> Logs]
    /\ GcsMode \in BOOLEAN
    /\ MaxRetries \in Nat
    /\ MaxFaults \in Nat
    /\ NoFlight \notin Flights
    /\ NoHash \notin Logs

VARIABLES
    status,   \* Flight.status, "absent" before the row exists
    sha,      \* Flight.sha256 (UNIQUE, nullable)
    landed,   \* flights whose raw blob the client has PUT into the bucket
    store,    \* what readers find under flights/<id>/
    api,      \* the handler each API process is in
    queue,    \* messages of the 'parse' queue per flight and retry count
    worker,   \* the task each pool slot executes
    dlq,      \* flights with an entry in celery.parse.dlq
    dropped,  \* history: ways in which a message of the flight was never
              \* sent, or was acknowledged before its task was done
    faults    \* number of faults so far

vars == <<status, sha, landed, store, api, queue, worker, dlq, dropped, faults>>

Statuses  == {"absent", "pending_upload", "uploaded", "parsing", "ready", "error"}
Verdicts  == {"ready", "error"}
Artefacts == {"parsed", "timeline", "phases", "anomalies_fast"}

\* "partial": some files missing (upload of a directory) or truncated (a local
\* file being rewritten); "hollow": complete, but computed from data that
\* could not be read back.
Contents  == {"absent", "partial", "hollow", "whole"}
Attempts  == 0 .. MaxRetries

\* No verdict is in the row; or one is, and no dead-letter entry.
GivenUp  == {"retries", "hard_limit", "handler", "enqueue"}
Unpushed == {"dlq_write", "cut_off"}
Causes   == GivenUp \cup Unpushed

\* The points at which the task saves an artefact: the pc before the write,
\* the pc during it, and the pc after it.
SaveAt  == [parsed |-> "upload", timeline |-> "save_timeline",
            phases |-> "save_phases", anomalies_fast |-> "save_anomalies"]
SavingAt == [parsed |-> "uploading", timeline |-> "saving_timeline",
             phases |-> "saving_phases", anomalies_fast |-> "saving_anomalies"]
\* Variant for mutation: the anomaly scan is skipped.
SavedAtSkippingDetect ==
    [parsed |-> "extract", timeline |-> "save_phases",
     phases |-> "complete", anomalies_fast |-> "complete"]
SavedAt == [parsed |-> "extract", timeline |-> "save_phases",
            phases |-> "detect", anomalies_fast |-> "complete"]

PipelinePcs == {"fetch", "parse", "upload", "uploading", "extract",
                "save_timeline", "saving_timeline", "save_phases",
                "saving_phases", "detect", "save_anomalies",
                "saving_anomalies", "complete", "publish"}
WorkerPcs   == PipelinePcs \cup {"idle", "dead_letter", "acking"}

IdleApi    == [pc |-> "idle", flight |-> NoFlight]
IdleWorker == [pc |-> "idle", flight |-> NoFlight, retries |-> 0,
               hashed |-> FALSE, view |-> "whole"]

Handlers == [pc : {"idle", "checked", "received", "unknown", "committed"},
             flight : Flights \cup {NoFlight}]
Tasks    == [pc : WorkerPcs, flight : Flights \cup {NoFlight}, retries : Attempts,
             hashed : BOOLEAN, view : {"hollow", "whole"}]

TypeOK ==
    /\ status \in [Flights -> Statuses]
    /\ sha \in [Flights -> Logs \cup {NoHash}]
    /\ landed \in SUBSET Flights
    /\ store \in [Flights -> [Artefacts -> Contents]]
    /\ api \in [Replicas -> Handlers]
    /\ queue \in [Flights -> [Attempts -> Nat]]
    /\ worker \in [Workers -> Tasks]
    /\ dlq \in SUBSET Flights
    /\ dropped \in [Flights -> SUBSET Causes]
    /\ faults \in Nat

Init ==
    /\ status = [f \in Flights |-> "absent"]
    /\ sha = [f \in Flights |-> NoHash]
    /\ landed = {}
    /\ store = [f \in Flights |-> [a \in Artefacts |-> "absent"]]
    /\ api = [r \in Replicas |-> IdleApi]
    /\ queue = [f \in Flights |-> [n \in Attempts |-> 0]]
    /\ worker = [w \in Workers |-> IdleWorker]
    /\ dlq = {}
    /\ dropped = [f \in Flights |-> {}]
    /\ faults = 0

-----------------------------------------------------------------------------
(***************************************************************************)
(* The API.  Handlers are async functions without an await between the     *)
(* steps below, so one process runs them one at a time; several processes  *)
(* interleave.                                                             *)
(***************************************************************************)

Handle(r, pc, f) == api' = [api EXCEPT ![r] = [pc |-> pc, flight |-> f]]
Return(r)        == api' = [api EXCEPT ![r] = IdleApi]

\* POST /flights/upload/init
InitUpload(r, f) ==
    /\ GcsMode
    /\ api[r].pc = "idle"
    /\ status[f] = "absent"
    /\ status' = [status EXCEPT ![f] = "pending_upload"]
    /\ UNCHANGED <<sha, landed, store, api, queue, worker, dlq, dropped, faults>>

\* The client's PUT to the resumable upload URL completes.
ClientPut(f) ==
    /\ GcsMode
    /\ status[f] # "absent"
    /\ f \notin landed
    /\ landed' = landed \cup {f}
    /\ UNCHANGED <<status, sha, store, api, queue, worker, dlq, dropped, faults>>

\* Variant for mutation: no 409 for a flight that is past pending_upload.
ProcessCheckAnyStatus(r, f) ==
    /\ GcsMode
    /\ api[r].pc = "idle"
    /\ f \in landed
    /\ Handle(r, "checked", f)
    /\ UNCHANGED <<status, sha, landed, store, queue, worker, dlq, dropped, faults>>

\* POST /flights/{id}/process: the checks (404, 409, 422) have passed ...
ProcessCheck(r, f) ==
    /\ GcsMode
    /\ api[r].pc = "idle"
    /\ status[f] = "pending_upload"
    /\ f \in landed
    /\ Handle(r, "checked", f)
    /\ UNCHANGED <<status, sha, landed, store, queue, worker, dlq, dropped, faults>>

\* ... and the row is moved to "uploaded" in a transaction of its own.
ProcessCommit(r) ==
    /\ api[r].pc = "checked"
    /\ status' = [status EXCEPT ![api[r].flight] = "uploaded"]
    /\ Handle(r, "committed", api[r].flight)
    /\ UNCHANGED <<sha, landed, store, queue, worker, dlq, dropped, faults>>

\* POST /flights/upload: the body is on disk under a fresh flight id and hashed.
DirectReceive(r, f) ==
    /\ ~GcsMode
    /\ api[r].pc = "idle"
    /\ status[f] = "absent"
    /\ \A q \in Replicas : api[q].flight # f
    /\ Handle(r, "received", f)
    /\ UNCHANGED <<status, sha, landed, store, queue, worker, dlq, dropped, faults>>

KnownHash(f) == \E g \in Flights : sha[g] = LogOf[f]

\* get_flight_by_hash: a known content is answered with the existing flight.
DirectDedupe(r) ==
    /\ api[r].pc = "received"
    /\ IF KnownHash(api[r].flight)
       THEN Return(r)
       ELSE Handle(r, "unknown", api[r].flight)
    /\ UNCHANGED <<status, sha, landed, store, queue, worker, dlq, dropped, faults>>

\* Variant for mutation: no UNIQUE index.
DirectCreateUnchecked(r) ==
    /\ api[r].pc = "unknown"
    /\ LET f == api[r].flight IN
         /\ status' = [status EXCEPT ![f] = "uploaded"]
         /\ sha' = [sha EXCEPT ![f] = LogOf[f]]
         /\ Handle(r, "committed", f)
    /\ UNCHANGED <<landed, store, queue, worker, dlq, dropped, faults>>

\* create_flight: the UNIQUE index rejects a content registered meanwhile.
DirectCreate(r) ==
    /\ api[r].pc = "unknown"
    /\ LET f == api[r].flight IN
         IF KnownHash(f)
         THEN /\ Return(r)
              /\ UNCHANGED <<status, sha>>
         ELSE /\ status' = [status EXCEPT ![f] = "uploaded"]
              /\ sha' = [sha EXCEPT ![f] = LogOf[f]]
              /\ Handle(r, "committed", f)
    /\ UNCHANGED <<landed, store, queue, worker, dlq, dropped, faults>>

\* parse_log_task.apply_async
Enqueue(r) ==
    /\ api[r].pc = "committed"
    /\ queue' = [queue EXCEPT ![api[r].flight][0] = @ + 1]
    /\ Return(r)
    /\ UNCHANGED <<status, sha, landed, store, worker, dlq, dropped, faults>>

\* The process stops, or apply_async cannot reach the broker.
ApiFails(r) ==
    /\ faults < MaxFaults
    /\ api[r].pc # "idle"
    /\ dropped' = IF api[r].pc = "committed"
                  THEN [dropped EXCEPT ![api[r].flight] = @ \cup {"enqueue"}]
                  ELSE dropped
    /\ Return(r)
    /\ faults' = faults + 1
    /\ UNCHANGED <<status, sha, landed, store, queue, worker, dlq>>

ApiStep(r) ==
    \/ \E f \in Flights : InitUpload(r, f) \/ ProcessCheck(r, f) \/ DirectReceive(r, f)
    \/ ProcessCommit(r) \/ DirectDedupe(r) \/ DirectCreate(r) \/ Enqueue(r)
-----------------------------------------------------------------------------
(***************************************************************************)
(* parse_log_task                                                          *)
(***************************************************************************)

Goto(w, pc) == worker' = [worker EXCEPT ![w].pc = pc]
Release(w)  == worker' = [worker EXCEPT ![w] = IdleWorker]

\* The progress callback writes "parsing" to the row, whatever it holds.
Progress(w) == status' = [status EXCEPT ![worker[w].flight] = "parsing"]

\* A pool slot takes a message and the task marks the row.
StartParse(w, f, n) ==
    /\ worker[w].pc = "idle"
    /\ queue[f][n] > 0
    /\ queue' = [queue EXCEPT ![f][n] = @ - 1]
    /\ worker' = [worker EXCEPT ![w] = [pc |-> "fetch", flight |-> f, retries |-> n,
                                        hashed |-> FALSE, view |-> "whole"]]
    /\ status' = [status EXCEPT ![f] = "parsing"]
    /\ UNCHANGED <<sha, landed, store, api, dlq, dropped, faults>>

\* _fetch_raw: download and hash; the hash is None when the file cannot be read.
Fetch(w) ==
    /\ worker[w].pc = "fetch"
    /\ Progress(w)
    /\ \E h \in BOOLEAN :
         worker' = [worker EXCEPT ![w].pc = "parse", ![w].hashed = h]
    /\ UNCHANGED <<sha, landed, store, api, queue, dlq, dropped, faults>>

\* get_parser, parse_metadata and parse_to_dataframes into a temporary directory.
Parse(w) ==
    /\ worker[w].pc = "parse"
    /\ Progress(w)
    /\ Goto(w, "upload")
    /\ UNCHANGED <<sha, landed, store, api, queue, dlq, dropped, faults>>

\* What readers see while artefact a of a flight, now c, is being written: a
\* local file is truncated first; a bucket object is replaced atomically, but
\* the parsed files are many objects and at first only some of them exist.
WhileWriting(a, c) ==
    IF ~GcsMode THEN "partial"
    ELSE IF a = "parsed" /\ c = "absent" THEN "partial" ELSE c

\* The phases are written straight after the timeline, with no progress call.
BeginSave(w, a) ==
    LET f == worker[w].flight IN
    /\ worker[w].pc = SaveAt[a]
    /\ IF a \in {"parsed", "timeline"} THEN Progress(w) ELSE UNCHANGED status
    /\ store' = [store EXCEPT ![f][a] = WhileWriting(a, @)]
    /\ Goto(w, SavingAt[a])
    /\ UNCHANGED <<sha, landed, api, queue, dlq, dropped, faults>>

EndSave(w, a) ==
    /\ worker[w].pc = SavingAt[a]
    /\ store' = [store EXCEPT ![worker[w].flight][a] =
                     IF a = "parsed" THEN "whole" ELSE worker[w].view]
    /\ Goto(w, SavedAt[a])
    /\ UNCHANGED <<status, sha, landed, api, queue, dlq, dropped, faults>>

\* Reading back the parsed files: ParquetStore.load answers an empty frame
\* when a read fails, for whatever reason, and FastAnomalyDetector skips a
\* rule that raises (the soft time limit included), so a failure of the read
\* leaves a hollow result and no error.
ReadBack(w, from, to) ==
    /\ worker[w].pc = from
    /\ Progress(w)
    /\ \E v \in {"hollow", "whole"} :
         worker' = [worker EXCEPT ![w].pc = to, ![w].view = v]
    /\ UNCHANGED <<sha, landed, store, api, queue, dlq, dropped, faults>>

\* Variant for mutation: the result of the scan is not saved.
DetectUnsaved(w) == ReadBack(w, "detect", "complete")

Extract(w) == ReadBack(w, "extract", "save_timeline")
Detect(w)  == ReadBack(w, "detect", "save_anomalies")

Complete(w) ==
    /\ worker[w].pc = "complete"
    /\ Progress(w)
    /\ Goto(w, "publish")
    /\ UNCHANGED <<sha, landed, store, api, queue, dlq, dropped, faults>>

\* Variant for mutation: the status an investigation takes.
FailAsTimeout(w) ==
    /\ status' = [status EXCEPT ![worker[w].flight] = "timeout"]
    /\ Goto(w, "dead_letter")

\* The status "error" is committed; the dead-letter entry follows.
Fail(w) ==
    /\ status' = [status EXCEPT ![worker[w].flight] = "error"]
    /\ Goto(w, "dead_letter")

\* Another row holds the hash, which the UNIQUE index refuses.
TakenHash(f) == \E g \in Flights \ {f} : sha[g] = LogOf[f]

\* The final update: status and hash in one transaction, which the UNIQUE
\* index on the hash refuses when another flight has the same content.
MarkReady(w) ==
    /\ worker[w].pc = "publish"
    /\ LET f == worker[w].flight IN
         IF worker[w].hashed /\ TakenHash(f)
         THEN Fail(w) /\ UNCHANGED sha
         ELSE /\ status' = [status EXCEPT ![f] = "ready"]
              /\ sha' = IF worker[w].hashed THEN [sha EXCEPT ![f] = LogOf[f]] ELSE sha
              /\ Goto(w, "acking")
    /\ UNCHANGED <<landed, store, api, queue, dlq, dropped, faults>>

\* Variant for mutation: no call of _send_to_dlq.
PermanentErrorUnsent(w) ==
    /\ worker[w].pc \in PipelinePcs
    /\ status' = [status EXCEPT ![worker[w].flight] = "error"]
    /\ Goto(w, "acking")
    /\ UNCHANGED <<sha, landed, store, api, queue, dlq, dropped, faults>>

\* except SoftTimeLimitExceeded / except Exception, raised by any step.
PermanentError(w) ==
    /\ worker[w].pc \in PipelinePcs
    /\ Fail(w)
    /\ UNCHANGED <<sha, landed, store, api, queue, dlq, dropped, faults>>

\* Variant for mutation: the retry is not published.
TransientErrorForgotten(w) ==
    /\ worker[w].pc \in PipelinePcs \ {"publish"}
    /\ Goto(w, "acking")
    /\ UNCHANGED <<status, sha, landed, store, api, queue, dlq, dropped, faults>>

\* except (MemoryError, OSError): self.retry publishes the next attempt, and
\* raises the error itself when there is none left.
TransientError(w) ==
    LET f == worker[w].flight
        n == worker[w].retries
    IN
    /\ worker[w].pc \in PipelinePcs \ {"publish"}
    /\ IF n < MaxRetries
       THEN /\ queue' = [queue EXCEPT ![f][n + 1] = @ + 1]
            /\ UNCHANGED dropped
       ELSE /\ dropped' = [dropped EXCEPT ![f] = @ \cup {"retries"}]
            /\ UNCHANGED queue
    /\ Goto(w, "acking")
    /\ UNCHANGED <<status, sha, landed, store, api, dlq, faults>>

\* _send_to_dlq
SendToDlq(w) ==
    /\ worker[w].pc = "dead_letter"
    /\ dlq' = dlq \cup {worker[w].flight}
    /\ Goto(w, "acking")
    /\ UNCHANGED <<status, sha, landed, store, api, queue, dropped, faults>>

\* task_acks_late: the message is acknowledged when the task has returned or
\* raised.
Ack(w) ==
    /\ worker[w].pc = "acking"
    /\ Release(w)
    /\ UNCHANGED <<status, sha, landed, store, api, queue, dlq, dropped, faults>>
-----------------------------------------------------------------------------
(***************************************************************************)
(* Faults of a worker                                                      *)
(***************************************************************************)

\* Variant for mutation: early acknowledgement.
WorkerLostEarlyAck(w) ==
    /\ faults < MaxFaults
    /\ worker[w].pc # "idle"
    /\ Release(w)
    /\ faults' = faults + 1
    /\ UNCHANGED <<status, sha, landed, store, api, queue, dlq, dropped>>

\* task_reject_on_worker_lost: the message of a dead worker is delivered again.
WorkerLost(w) ==
    /\ faults < MaxFaults
    /\ worker[w].pc # "idle"
    /\ queue' = [queue EXCEPT ![worker[w].flight][worker[w].retries] = @ + 1]
    /\ Release(w)
    /\ faults' = faults + 1
    /\ UNCHANGED <<status, sha, landed, store, api, dlq, dropped>>

\* A message that is acknowledged although the task is not done.
Abandon(w, pcs, cause) ==
    /\ faults < MaxFaults
    /\ worker[w].pc \in pcs
    /\ dropped' = [dropped EXCEPT ![worker[w].flight] = @ \cup {cause}]
    /\ Release(w)
    /\ faults' = faults + 1
    /\ UNCHANGED <<status, sha, landed, store, api, queue, dlq>>

\* The hard time limit kills the task in the pipeline, and its message is
\* acknowledged (acks_on_failure_or_timeout).
HardTimeLimit(w) == Abandon(w, PipelinePcs, "hard_limit")

\* The exception handler itself loses the database before "error" is committed.
HandlerFails(w) == Abandon(w, PipelinePcs, "handler")

\* Between the commit of "error" and the push: the soft limit raised inside an
\* except clause is caught by no sibling clause, and the hard limit may come
\* while the push hangs.
CutOff(w) == Abandon(w, {"dead_letter"}, "cut_off")

\* _send_to_dlq swallows its own failure.
DlqWriteFails(w) ==
    /\ faults < MaxFaults
    /\ worker[w].pc = "dead_letter"
    /\ dropped' = [dropped EXCEPT ![worker[w].flight] = @ \cup {"dlq_write"}]
    /\ Goto(w, "acking")
    /\ faults' = faults + 1
    /\ UNCHANGED <<status, sha, landed, store, api, queue, dlq>>

TaskStep(w) ==
    \/ \E f \in Flights, n \in Attempts : StartParse(w, f, n)
    \/ \E a \in Artefacts : BeginSave(w, a) \/ EndSave(w, a)
    \/ Fetch(w) \/ Parse(w) \/ Extract(w) \/ Detect(w) \/ Complete(w)
    \/ MarkReady(w) \/ PermanentError(w) \/ TransientError(w)
    \/ SendToDlq(w) \/ Ack(w)

Fault ==
    \/ \E r \in Replicas : ApiFails(r)
    \/ \E w \in Workers : WorkerLost(w) \/ HardTimeLimit(w) \/ HandlerFails(w)
                          \/ CutOff(w) \/ DlqWriteFails(w)

Next ==
    \/ \E r \in Replicas : ApiStep(r)
    \/ \E f \in Flights : ClientPut(f)
    \/ \E w \in Workers : TaskStep(w)
    \/ Fault

Spec == Init /\ [][Next]_vars

\* A handler that has committed goes on to enqueue, and a pool slot with
\* something to do goes on; clients need not come.
FairSpec ==
    /\ Spec
    /\ \A r \in Replicas : WF_vars(Enqueue(r))
    /\ \A w \in Workers : WF_vars(TaskStep(w))
-----------------------------------------------------------------------------
\* Somebody still has to act for the flight: a handler that is about to
\* enqueue, a queued message, or a task that has not come to its end.
Enqueuing(f) == \E r \in Replicas : api[r].pc = "committed" /\ api[r].flight = f
Queued(f)    == \E n \in Attempts : queue[f][n] > 0
Running(f)   == \E w \in Workers : worker[w].pc \in PipelinePcs /\ worker[w].flight = f
DeadLettering(f) == \E w \in Workers : worker[w].pc = "dead_letter" /\ worker[w].flight = f

\* A flight the row shows as under way is somebody's job: late acknowledgement
\* and redelivery lose no flight when workers die at any point, except in the
\* ways listed in GivenUp.
Accounted ==
    \A f \in Flights :
        status[f] \in {"uploaded", "parsing"} =>
            Enqueuing(f) \/ Queued(f) \/ Running(f) \/ dropped[f] \cap GivenUp # {}

\* The row is moved to "error" before the dead-letter entry is written, so the
\* two can come apart: a flight left in "error" has its entry in parse.dlq, or
\* a worker or a redelivered message still owes it.  Two things alone leave it
\* without one: the push failed, or a time limit or an exception ended the
\* task between the commit and the push.  The loss of a worker there does not.
ErrorIsDeadLettered ==
    \A f \in Flights :
        status[f] = "error" =>
            \/ f \in dlq \/ DeadLettering(f) \/ Queued(f)
            \/ dropped[f] \cap Unpushed # {}

\* Readable by the API and by an investigation: with a bucket no reader of a
\* ready flight sees a missing or half-written artefact, although duplicate
\* and redelivered tasks overwrite them; with local files one may be in the
\* middle of being rewritten, but none is missing.
Readable(c) == c # "absent" /\ (GcsMode => c # "partial")

ReadyComplete ==
    \A f \in Flights :
        status[f] = "ready" => \A a \in Artefacts : Readable(store[f][a])

\* One content is ready under two flights only when the hash of one of them
\* could not be computed.
ReadyOnce ==
    \A f, g \in Flights :
        f # g /\ LogOf[f] = LogOf[g] /\ status[f] = "ready" /\ status[g] = "ready"
            => sha[f] = NoHash \/ sha[g] = NoHash

\* Every flight whose processing was requested gets a verdict, unless it was
\* given up.
Settles ==
    \A f \in Flights :
        status[f] \in {"uploaded", "parsing"} ~>
            status[f] \in Verdicts \/ dropped[f] \cap GivenUp # {}

\* Without faults and with one API process the lifecycle implements the
\* contract of FlightContract; with local files, with any number of processes.
Contract == INSTANCE FlightContract
                WITH owner <- {f \in Flights : sha[f] # NoHash}

ContractKept == Contract!Spec

\* celery_app.py: "Dead letter queue: failed tasks go to {queue}.dlq after
\* max_retries exhausted".
DeadLetterAfterMaxRetries ==
    \A f \in Flights : "retries" \in dropped[f] => f \in dlq
=============================================================================
