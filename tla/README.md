# Forensic Flight AI: TLA+ models and proofs

The program receives the log of a drone's flight, parses it into columns, runs
detection rules over them, and lets a graph of agents (some of which ask
language models) find out what went wrong. This directory models the parts of
it in which order, failure and evidence matter, checks them with TLC, and proves
what it can with TLAPS.

## 1. The system

| Component | State | Operations | Talks to |
|---|---|---|---|
| API (`api/main.py`) | none of its own; several processes | `init_upload`, `process_flight`, `upload_flight`, `start_investigation`, stream, follow-up query, reads | rows, bucket, Celery queues, Redis pub/sub, LLM client |
| Celery delivery (`api/workers/celery_app.py`) | queues `parse` and `investigate`, unacknowledged messages | late acknowledgement, redelivery after the loss of a worker, soft and hard time limits | tasks |
| Parse task (`api/workers/tasks.py`) | retry count of its message | status updates, retry, dead-letter entry | ingestion, rows, `parse.dlq` |
| Ingestion (`pipeline/ingestion.py`) | a temporary directory | fetch, parse, upload, extract, detect, save | store, rules |
| Artefact store (`storage/parquet_store.py`) | parsed channels, `timeline`, `phases`, `anomalies_fast`, reports | write, load, read | files or bucket |
| Rows (`storage/metadata_db.py`) | flights, investigations, anomalies | create, update, look up by hash, insert | PostgreSQL |
| Investigation task (`api/workers/tasks.py`) | retry count of its message | run the graph, save, announce, retry, give up | graph, rows, pub/sub, `investigate.dlq` |
| Agent graph (`orchestrator/graph.py`) | `InvestigationState` | sequential nodes, parallel domain node and its merge | agents |
| Agents (`agents/`) | a copy of the state each | read telemetry, run rules, ask a model | store, LLM client |
| Crash investigator, report writer, validators | root cause, factors, report | ground, anchor, classify, gate | evidence tables |
| LLM client (`llm/`) | one client per process, semaphores, call counts | route, call, fall back, count | providers |
| Detection rules, event extractor, phase detector | none | pure functions of telemetry | store |
| Keys and quotas (`api/middleware/auth.py`) | counters in Redis, per key, action and fixed window | `require_api_key`, `_check_rate_limit` (INCR, EXPIRE) | API |
| Upload validation (`api/middleware/upload_validation.py`) | none | whitelist of suffixes, comparison of the beginning | API |
| Log parsers (`parsers/`) | buffers and files of one attempt, in a temporary directory | detect the format, stream, flush in chunks, sort, write | ingestion, store |
| Vector store, signal analysis, migrations, deployment | see `PROJECT.json` | | |

What is hard here:

* a row, a message and an artefact change in separate transactions, and any
  process may stop between two of them (API, worker, broker);
* messages are delivered at least once, and a retry is published before the
  failed attempt is acknowledged, so tasks run twice, in parallel too;
* statuses are overwritten without a check (the progress callback);
* failures are swallowed at several levels (store reads, rules, graph nodes,
  announcements) and time limits arrive as exceptions;
* agents complete in any order and their results are merged first come first kept;
* what a language model says must not enter the report without evidence;
* providers have concurrency limits and fall back to one another, and the tokens of a
  call are read from a cell that its provider shares between threads;
* a quota is counted in two calls to Redis, before the request is checked, by
  handlers that may stall between reading the clock and counting, and fails open;
* a log is parsed in chunks that are sorted into files, and the files are copied one
  by one to a place that readers use at the same time;
* the rules and the event extractor scan the same frames separately, each with
  its own thresholds and its own treatment of the ends of a log.

What makes each part correct: no accepted flight or investigation is forgotten;
a failed one is in the dead-letter queue; a ready flight can be read in full; a
content has one owner; a stream that ends tells the truth; the merge loses
nothing whatever the order; factors, causes, classifications and summaries stay
within the evidence; permits are conserved and every call ends; a window admits no
more than its quota and its counter goes away; no row of a log is lost or doubled,
and a reader finds a whole frame or none; a scan reports every episode that is in
the log, and what the rules find is in the timeline. `PROJECT.json`
lists the hazards line by line with the properties that would catch them.

## 2. Modules

| Module | Models | Composes / refines |
|---|---|---|
| `FlightLifecycle` | upload handlers, `parse` queue, parse task, ingestion, artefacts, flight rows | implements `FlightContract` |
| `FlightContract` | what a client may rely on: statuses move forward, one parse, one owner | |
| `FlightLifecycleProofs` | theorems about `FlightLifecycle`, and that it implements its contract | extends it |
| `InvestigationLifecycle` | `POST /investigations`, `investigate` queue, the task, live streams | implements `InvestigationContract` |
| `InvestigationContract` | one outcome for good; a stream reports it | |
| `InvestigationLifecycleProofs` | theorems about `InvestigationLifecycle`, and that it implements its contract | extends it |
| `InferenceClient` | shared client, routing, fallback, semaphores, accounting of calls and tokens | |
| `InferenceClientProofs` | theorems about `InferenceClient` | extends it |
| `Admission` | key, quota and state of the flight before an upload or an investigation | beside `FlightLifecycle` and `InvestigationLifecycle`, which take over from the created row |
| `AdmissionProofs` | theorems about `Admission` | extends it |
| `Parsing` | from the offered file over the chosen parser to the frames readers load | what `FlightLifecycle` abstracts to one artefact `parsed` |
| `ParsingProofs` | theorems about `Parsing` | extends it |
| `Ordering` | Python's sort by a key, and subsequences | |
| `OrderingProofs` | what sorting, subsequences, scans and joins do, for every sequence | extends it |
| `Grounding` | evidence tables, validators, safety gate, deduplication and sort keys, as operators | extends `Ordering` |
| `InvestigationGraph` | one run of the agent graph over the anomalies of a flight | extends `Grounding` |
| `InvestigationGraphProofs` | theorems about `InvestigationGraph` | extends it and `OrderingProofs` |
| `FlightLog` | the parsed log that a vehicle may have written | |
| `Rules` | the detection rules, as operators over the log | extends `FlightLog` |
| `Timeline` | event extraction, the event horizon, phases | extends `Rules` and `Ordering` |
| `TelemetryProofs` | theorems about `Rules` and `Timeline` | extends `Timeline` and `OrderingProofs` |
| `MC*` | values of the constants for TLC | |

### FlightLifecycle

`status` and `sha` are the columns of the flight row, `store[f][a]` is what a
reader finds of artefact `a`, `queue[f][n]` counts the messages of attempt `n`,
`api[r]` is the handler that an API process is in and `worker[w]` the task of a
pool slot (`pc` names the stage of `IngestionPipeline._run`). `dropped` is a
history variable: the ways in which a message was acknowledged, or never sent,
without a verdict. Handlers are `async` functions with no `await` between their
steps, so one process runs them one at a time and several processes interleave.

Each database transaction, queue operation and artefact write is one action:
`ProcessCheck`/`ProcessCommit`/`Enqueue` are the three steps of
`process_flight`; `DirectReceive`/`DirectDedupe`/`DirectCreate`/`Enqueue` those of
`upload_flight`; `Fetch`, `Parse`, `BeginSave`/`EndSave` (per artefact), `Extract`,
`Detect`, `Complete`, `MarkReady` the pipeline and the final update;
`PermanentError`, `TransientError`, `SendToDlq` and `Ack` the handlers of the task.
A local file that is being rewritten is `partial`; a bucket object is replaced
atomically, but the parsed channels are many objects. `hollow` content was
computed from reads that failed and were swallowed. `WorkerLost`,
`HardTimeLimit`, `HandlerFails`, `CutOff`, `DlqWriteFails` and `ApiFails` are faults,
bounded by `MaxFaults`. `CutOff` is a time limit, or an exception, that ends a task
after `error` is committed and before the push to the dead-letter queue
(`tasks.py:70` and 86): no sibling handler catches it, the message is acknowledged and
there is no entry. `dropped` records each way a flight can be lost: `GivenUp` are those
after which it stays in `uploaded` or `parsing`, `Unpushed` (the push failed or was cut
off) those after which it is in `error` without an entry. A property is exempted by the
causes that concern it only.

### InvestigationLifecycle

The same style: `creating` holds the handlers between row and queue, `worker[w].pc`
goes through the nodes of the graph and the steps of the task, `stream[c]` is a
client's subscription. A node may fail without the task noticing (`RunNode`);
the soft limit is swallowed by a node, or waits for the thread pool
(`winding_up`); the error announcement may be garbled, since the text of the
exception is pasted into JSON unescaped. `CutOff` ends a task between its final status,
the dead-letter entry and the announcement.

### InferenceClient

A process is a Celery worker (`warm`: the main thread builds the client while
it builds the graph, before the agents' threads begin) or the API, where health
requests and the event loop race for the client and only the event loop calls
models. `permits[c][p]` belongs to client `c`: two clients would mean two
semaphores. `usage[c][p]` is the provider's `_last_usage`, by the number of the answer
whose tokens it holds. Between the call and `_track`, `mine` is the number of a thread's
own answer and `told` whether it came with its usage, so that one can say whose tokens
are booked. A provider may answer without usage (`openai_provider.py:96`, 137); then the
cell keeps an earlier call's, and `_track` books them again.

### Admission

`request[r]` is the handler of a request: `pc` is its next step or its answer,
`read` the time that `_check_rate_limit` took, `got` what INCR answered, `by` whether
the quota or its failure let it through. `count` and `expires` are Redis: INCR makes a
counter without a time to live, EXPIRE gives it one of two windows, `Tick` drops
the counters that are due. `_check_rate_limit` swallows every exception
(`RedisFails`, `AnswerLost`); a retrying client library sends INCR twice. A handler
may wait up to `MaxStall` between the clock and INCR. `Lookup`, `Create` and `Enqueue`
are the steps of `start_investigation`, with the flight going on meanwhile (`Parse`,
and `ParseAgain` for the redelivered message).

### Parsing

`upload` is the offered file: its kind (what it is), its suffix (what it is called),
how it begins, and its messages, of which a row keeps its position and its time.
`Admits` is the validation of the two ways of uploading, `Detect` is `detect_format`
with `get_parser`, `Legible` says which of the files so routed the reader behind the
parser can read. `worker[w]` is an attempt with a temporary directory of its own:
`Read` puts a row into the buffer of its type and, for ArduPilot, flushes a
full one (`Flush`: the rows of the file and of the buffer, sorted and written again);
`FlushRest` and `WriteFrame` do so at the end of the log, `ParseTable` reads a table at
once. `Put` replaces a bucket object, `Open` and `Close` rewrite a local file. `store` is
what `ParquetStore.load` answers. A copier that opens the file empties it, under another
copier too, and that one goes on at its own offset: `torn` has the types whose file was
opened by one copier while another had it open, or whose last copy was cut off, until
one opens it alone. What a copy leaves in a torn file (`Overlapped`) is either
unreadable or whole. That it is nothing else is an assumption: Parquet has its index at
the end, and two attempts at one log write the same rows with the same code.

### Grounding and InvestigationGraph

A text is the set of domains whose keywords it uses; the prefix tables of the
two validators are expanded over the rules and agents that exist. A flight
(`log`) says what each agent's rules emit. The parse phase may have been hollow;
an agent may raise, or read nothing because the store swallowed the failure
(`blind`). The models' answers are inputs: any cause, any factor with any
citation, any classification, any sentence. The report's root cause is the
investigator's, or the writing model's own where the investigation raised or returned an
empty one (`RootsFrom`, `report_writer.py:106`). `SummaryContained` is about what the
summary claims without evidence after the safety gate (`Beyond`).

### FlightLog, Rules and Timeline

Rules, event extractor and phase detector are functions of the frames that the
parsers wrote, so the only process is the vehicle: `Record` appends one row, `Stamped`
with its time, to one message type, and the analyses are operators on the log so far. TLC thus visits
every prefix of every log that a vehicle of `MCTelemetry` can write. Times are
tenths of a second, and volts, ratios and HDOP are in tenths; a row has the fields
that some rule compares.
A boolean column is the set of the indices at which it holds, a result the set
of findings or events. Scans with a memory (`SustainedRuns`, `KeptDrops`) are
recursive functions over the prefix, as the loops in the code; groupings
(`Groups`, for `np.split`) are sets of ends. `Ordering` defines the stable sort
without recursion, by how many elements each one has before it.

A log is one that the parsers can produce. The clock starts above 0 (time since
boot). Only rows of equal time are excluded for the battery, where the derivative
would be NaN. Parsers give every MODE row a name other than
`INITIALISING` (`ardupilot_bin.py:350`, `px4_ulog.py:249`, `schema.py:269`), except the
telemetry-log parser, whose rows carry none (`unnamed`), all of them or none; so the
branches for `INITIALISING`, and with them disarming, are
translated but no log reaches them. `VehiclesAssumption` says this, and that steps,
lengths and volts are numbers.

## 3. Runs

| Run | Bounds | Shows |
|---|---|---|
| `flight_gcs` | 1 flight, 2 API processes, 2 slots, 1 retry, 1 fault | type; no flight forgotten; errors dead-lettered; ready is readable |
| `flight_contract` | 2 flights of one log, 1 API process, 2 slots, 1 retry, no fault | `FlightContract` is implemented: statuses move forward, one parse, one owner of a content |
| `flight_direct` | 2 flights of one log, 2 API processes, 1 slot, 1 retry, 1 fault, fair | the same with files rewritten in place and racing uploads; every flight settles |
| `flight_dead_letter` | 1 flight, 1 slot, 2 retries, no fault | **violated**: exhausted retries reach no dead-letter queue |
| `investigation` | 1 investigation, 2 slots, 2 streams, 1 retry, 2 faults | type; not forgotten; streams truthful; anomalies inserted once per needed run |
| `investigation_live` | 2 investigations, 1 slot, 1 stream, 1 retry, 1 fault, fair | outcomes and ends of streams; `InvestigationContract` until the first fault |
| `investigation_hard_limit` | 1 investigation, 1 slot, 1 fault | **violated**: the hard limit leaves `running` |
| `inference` | 3 threads, 2 calls each, 3 providers of which 2 registered | permits, limits, accounting of calls and tokens, fallback, end of calls |
| `admission` | 3 requests, 2 clients (one with a key), quotas of 1, 3 ticks, windows of 1 and 2, 1 flight, 1 fault | a window's quota holds; counters go away; rows are justified |
| `parsing` | 2 slots, 3 attempts, chunks of 2, logs of up to 3 messages, every kind, suffix and beginning | no row lost or doubled; readers find whole frames; files find their parser |
| `graph` | 3 domain agents, 4 flights, 3 texts, 3 citation sets, 1 factor | merge, grounding, anchoring, classification, summary |
| `telemetry` | 10 vehicles, 1 to 4 message types each, logs of 4 to 7 rows | scans against reference definitions; horizon; phases; rules and timeline agree |

Why the bounds are enough. Interference in the lifecycles is between two actors
on one row: two API processes that both pass the check, two slots with
duplicate messages, a crash between two writes. Two flights matter only when
they share a content. One retry distinguishes "a retry is left" from "none is".
A second fault matters for streams (a crash after the announcement and a
failing announcement), so `investigation` has two. `graph` needs two agents to
race, one rule at two severities at one time, one agent outside the parse phase,
a crash that no rule sees, and a flight with nothing. `admission` needs two
requests for one slot of which the second counts late, when the counter of a shorter
life would have been dropped (three ticks, with windows of one and two), and a third
that is refused. `parsing` needs a chunk that is full and a rest (three messages, chunks of
two), a chunk that reaches back before the one before, a copy cut off, another
attempt beside it, and one after both. `telemetry` needs a run that is
closed by a sample and one that is closed by the end of the log, durations on
both sides of each limit, groups that are joined and groups that are not (the
gap is three rows, so seven rows), more asymmetry than one report covers, and events of
several channels at one time: the steps of each vehicle are chosen on and around
the limits of the rules that read it. `EveryRunReported` quantifies over every
boolean column, so it does not depend on which rows the vehicles log.

Symmetry is used in `flight_gcs`, `investigation`, `admission` and `parsing` only, which
check invariants and no liveness. `CHECK_DEADLOCK FALSE` is set everywhere because the systems
really stop: all flights settled, all calls made, the report written.

Fairness. A handler that has committed a row continues to the queue, and a pool
slot with something to do goes on: weak fairness of `Enqueue(r)` and of
`TaskStep(w)`. Nothing is assumed of clients, of faults, or of a particular way
out of a stage; retries are bounded by `MaxRetries`, redeliveries by `MaxFaults`.
For LLM calls, weak fairness of each thread's step stands for the scheduler and
for the providers' timeouts. A semaphore need not be fair, because each thread
makes finitely many calls (`MaxCalls`).

Each property of a passing run has a mutant of the code in `PROJECT.json`: a
definition marked "Variant for mutation" in the module replaces the one it
precedes, and TLC then finds the property violated.

## 4. Where code and documentation differ

The two violated runs are divergences, each quoted in `PROJECT.json`
"findings": exhausted parse retries and the dead-letter queue; the soft limit
that should let the task clean up. Seen while reading and not run:

* `narrative_validator.py:265` calls the fallback narrative "guaranteed
  domain-clean" because it is made from "pre-validated structured outputs". It repeats
  the root cause, which is the writing model's own text if no cause was named
  (`report_writer.py:106`), the investigating model's if nothing was detected to anchor
  it to, and otherwise may speak of POWER, which the checks of cause and factors do not
  know, or of what the description of the anomaly it is anchored to speaks of
  (`SummaryContained` names these cases and shows that there is no other). Its causal
  chain is the model's text with no further check (`narrative_validator.py:282`);
* `failsafe_rules.py:43` takes the ERR row that ends a failsafe (code 0) for a failsafe
  that was triggered; the event extractor knows it as "ERROR CLEARED"
  (`event_extractor.py:94`);
* `tasks.py:29` promises that transient failures are retried, but
  `ParquetStore.load` answers an empty frame when a read fails and
  `run_all_rules` skips a rule that raises: such a flight becomes ready with derived
  data computed from nothing (`hollow` in `FlightLifecycle`);
* `tasks.py:110` promises a retry after a provider's timeout, but every agent
  runs in a node that swallows exceptions: the investigation completes without
  the findings of that agent (`degraded` in `InvestigationLifecycle`);
* `PhaseDetector.detect` "returns ordered list of phase dicts": a tilt beyond 60
  degrees before the last MODE row makes the last phase end before it starts, and
  the CRASH phase overlap it (the precondition of `PhasesTile`);
* `FailsafeTriggerVerification` says 2 seconds and allows 3;
* `EKFLaneSwitch` says subsystem 19 and tests 16, 17 and 24; it looks for lane
  changes in NKF4 only, never in XKF4;
* `BrownoutSignature` "uses cell_count if available", and never does;
* `GPSSatCountDrop` compares consecutive samples only, so that four satellites
  lost in two samples are no drop;
* a single VIBE sample makes `IMUClipping` raise, which is swallowed;
* `_check_rate_limit` calls itself a sliding window and is a fixed one, so that twice
  the limit pass across a boundary (`SpanHeld` proves that no more do). It fails open,
  so that a limit of 0 admits everybody while Redis is down
  (`deploy/go_no_go_checklist.md:155`);
* `Upload.tsx` starts an investigation as soon as the upload has been answered; the
  409 it gets while the flight is being parsed has used up one of the quota;
* `inference_client.py:18` "InferenceClient is thread-safe": the tokens booked for a
  call may be those of a later one; and `providers/base.py:124` "Token usage from the
  most recent call" answers an earlier one's if that call's answer had no usage, which
  then is booked twice (`CallsCounted` says when either can happen);
* a routing warning says that a model "will fall back to ollama", but `_resolve_provider`
  may take the provider that the name's prefix points at, and Ollama is asked for a
  model name that it does not have;
* `detect_format` works "from magic bytes, not extension", but TLOG, `.log` and `.csv`
  are told by the suffix; a TLOG or a text log with a comma in its first 32 bytes goes to
  the table parser (`FormatRecognised` states what does hold). The whitelist has
  `.ulg`, the map of suffixes `.ulog`. pymavlink and `_load_df` choose their reader by
  the name of the file;
* `csv_json.py:1` "microseconds or ISO8601": times below 1e12 are taken for seconds, and
  `parse_metadata` raises on an ISO string, so that such tables never parse;
* ArduPilot's BAT maps both `Volt` and `VoltR` to `voltage_v`; instances of a sensor are
  merged into one frame; a TLOG takes MODE rows from every HEARTBEAT, that of the ground
  station too;
* `load_for_plot` loses all channels of a type if one column is missing;
  `downsample` may return up to twice `max_points`, less one; `DuckDBQueryEngine`, which
  nobody uses, keeps the views of earlier flights;
* `get_llm_client` calls itself thread-safe; two API threads can build a client
  each (`InferenceClient` models it; since only the event loop calls models
  there, `Serialized` still holds);
* `compare_to_baselines` answers `metric_deviations`, `ComparativeAnalystAgent`
  reads `z_scores`, so no metric is ever reported as outside the baseline;
* `_extract_crash_indicator`: "and no recovery" is not checked;
* `narrative_validator` "mirrors" the domain rules, but the factor validator has no
  POWER domain;
* `ParameterDriftAgent` gives all violations one rule name and one time, and the
  merge keeps the first.

## 5. Proofs

`FlightLifecycleProofs` proves, for any sets of flights, contents, API processes
and pool slots, any `MaxRetries` and `MaxFaults`, and both storage modes (only
`FlightAssumption` is assumed):

* `FlightTypeCorrect`: `Spec => []TypeOK`;
* `FlightsAccounted`: `Spec => []Accounted`;
* `ErrorsDeadLettered`: `Spec => []ErrorIsDeadLettered`;
* `ContentReadyOnce`: `Spec => []ReadyOnce`;
* `ReadyFlightsComplete`: `Spec => []ReadyComplete`.

The type invariant is not inductive alone: an action writes `status[worker[w].flight]`,
and the type of `worker` allows `NoFlight`. `Typed` adds `Engaged` (a process that is
not idle acts for a flight that exists), and is shown inductive action by action
from lemmas on the helpers (`HandleFacts`, `GotoFacts`, `ReleaseFacts`, ...).

`Accounted` and `ErrorIsDeadLettered` are inductive over `Typed`: both are about
who still acts for a flight (a handler, a message, a running or dead-lettering
task), so the proof follows, for each action, how the actor hands the flight on:
slot to message (retry, redelivery), message to slot, handler to message, slot to
`dropped` or to a verdict. The cause that `dropped` gets must be one that the
property exempts: `CutOff` excuses a missing entry and never a flight left in
`parsing`.

`ReadyOnce` needs `HashSound`: a hash in a row is the hash of that flight's own
content, and two rows never hold the same hash. Only `DirectCreate` and `MarkReady`
write hashes, and both are guarded by the UNIQUE index.

`ReadyComplete` needs `Saved`: what a running task has saved (`PastSave` lists the points
past each save) is readable. No other task can take it away (`ReadableKept`): a bucket
object is there until the new one replaces it, and a local file is at worst being
rewritten, which is all `Readable` asks of one. A task reaches the point where it
writes "ready" only past all four saves.

It also proves `FlightImplementsContract`: `Reliable /\ Spec => ContractKept`.
`Reliable` is what the contract is claimed for: no fault (`MaxFaults = 0`), and with a
bucket one API process, because two of them can pass the check of `process_flight` side
by side; with local files there may be any number. A flight is then in one place
(`Solo`: one request, or one message, or one task in the pipeline) and its status says
which (`Synced`), so every write of a status finds the one it moves on from; the owners
differ by `HashSound`.

`InvestigationLifecycleProofs` proves, for any investigations, pool slots, streams,
`MaxRetries` and `MaxFaults`:

* `InvestigationTypeCorrect`: `Spec => []TypeOK`;
* `InvestigationsAccounted`: `Spec => []Accounted`;
* `StreamsTruthful`: `Spec => []StreamTruthful`.

Beside `Engaged` as above (and that a task at `retry` has a retry left), the invariant
has two parts. `Held` is stronger than `Accounted`: a task that has written its outcome
and is about to publish it does not count, because a redelivered run of the same
investigation may have written "running" since; whoever makes a status active again
must hold the investigation itself. `Truthful` joins what streams were told with what
tasks are about to announce (`Announced`: findings in the row before "complete", an
entry in the dead-letter queue, or its recorded failure, before "error"), which no step
takes back (`Recorded`).

The same module goes on with how the runs of one investigation relate:

* `InsertedOnceHeld`: `Spec => []InsertedOnce`;
* `InvestigationImplementsContract`: `Spec => ContractKept`.

For the first, `Count` bounds what has been inserted and everything that may still
insert (the handler about to enqueue, the messages, the tasks not past the insertion or
about to retry) by one more than the faults: a fault puts a message back and pays for it,
and every other step only hands the run on. Messages are counted as a finite set of
pairs of a retry count and a number, so no sum over a function is needed. `Untouched`
says that nobody knows of an investigation before its row, from where the count begins.

For the second, as long as `faults` is 0 an investigation is in one place (`Solo`: the
handler, one message, or one task that does more than acknowledge), the status says
where (`Synced`), and a stream follows nothing or an investigation (`Following`). Each
step then maps to a step of `InvestigationContract` or leaves all of its variables as
they are. After a fault nothing is claimed, and the run `investigation` shows why.

`OrderingProofs` holds the facts about sequences that the next two modules need.
`Ranked` puts a finite set that is strictly ordered in that order: the rank of a
member is the cardinality of what is before it, so ranks are distinct, and being as many
as there are members they are 1 to their number (`RankedOrders`). From this come
`SortKeeps` (a sort is a permutation, by key, stable), `SubsequenceKeeps` and
`FlattenJoins`. What a recursive function over a frame computes is shown by induction
over the numbers up to its length. The library's induction theorems take an
operator as a parameter and cannot be used, so `Induction` is stated with a set: one
that holds 0 and the successors of its members holds every number. A proof then defines
the set of the indices at which the claim holds.

`InvestigationGraphProofs` proves, for any agents, flights, texts and citations
(`GraphAssumption`), every invariant that the run `graph` checks: `GraphTypeCorrect`,
`MergeCompleteHeld`, `SeverestKeptHeld`, `CauseAnchoredHeld`, `FactorsGroundedHeld`,
`CrashJustifiedHeld`, `SummaryContainedHeld`. The inductive invariant is `GraphInv` with `FactorInv`:

* `TypeInv`: types, and that an agent that has completed no longer runs;
* `EvidenceInv`: the keys of the state's anomalies are those of what was detected, after
  the merge each once and by time, and the parse phase's severest of a rule and time
  comes first;
* `ReportInv`: the registry holds the elements of the merged anomalies, and the
  classification and the summary follow from them;
* `CauseInv`: a cause that claims too much is anchored, and there is none before its node;
* `Sorted`: what the crash investigator has accepted is covered by evidence, and each
  factor offered was accepted or became a question. It survives the later nodes because
  evidence is only added (`MoreEvidence`);
* `Pending`: nothing is there before the node that makes it.

For `SummaryContained`, a summary that passed the gate claims nothing beyond the
evidence, and one that was replaced belongs to a report marked invalid. The replacement
claims what the root cause and the factors claim; the factors are grounded, POWER apart
(`FactorsWithin`), and so is the root cause unless it is one of the cases named
(`CauseWorded`).

`SeverestFirst` is why severities survive: deduplication keeps the first of each key, so
a list sorted with the severer first keeps that one (`Parses`), and what later
agents append comes after it (`AppendKeeps`, `JoinKeeps`). The report writer deduplicates
again, but by then keys are distinct and nothing is lost (`RegistryKeeps`).

`TelemetryProofs` proves, for any set of vehicles that satisfies `VehiclesAssumption` and
logs of any length, every invariant that the run `telemetry` checks. `LogSorted`
(`Spec => []LogInv`) is the one induction over behaviours: frames stay sorted by time and
hold rows of the vehicle. The rest holds of every such log:

* `EveryRunReportedHeld`: up to each index the scan has found the runs that ended before
  it and has open the one that goes on (`RunsBefore`, `Opened`, `RunsExact`), for every
  boolean column and limit;
* `SagWarnedTooHeld`: the indices below the severe limit are among those below the mild
  one, and a group of a subset lies in a group of the whole, for gaps that are the same
  (`GroupsNest`);
* `DropsReportedHeld`: the times kept so far are at least five seconds apart, and every
  drop scanned is less than that after one of them (`Kept`, `KeptDropsSpaced`);
* `HorizonExactHeld`: the events are all events, sorted (`EventsSorted`), so the first
  serious one of the list is the earliest, and the last nominal one before it the latest;
* `PhasesTileHeld`: the arming phase before the first mode cannot exist (`NoPreArm`, from
  the parsers' names of modes), and a phase begins where the one before it ends
  (`ModePhasesAre`);
* `FindingsInTimelineHeld`: rule by rule, the rule and the extractor read one frame with one
  condition (`SatellitesInTimeline`, `FailsafesInTimeline`, `ArmingInTimeline`).

`AdmissionProofs` proves, for any requests, keys, clients, flights, limits, windows,
horizon and number of faults, and any stall of at most a window:

* `AdmissionTypeCorrect`: `Spec => []TypeOK`;
* `QuotaHeld`: `Spec => []QuotaBound`, and `SpanHeld`, its consequence for a span across
  a boundary;
* `CountersExpireHeld`: `Spec => []CountersExpire`;
* `RowsJustifiedHeld`: `Spec => []RowsJustified`.

The bound rests on the answers of INCR being distinct: of the requests that passed
by the count of one slot, each got another number between 1 and the limit, so there
are at most that many. They are distinct as long as the counter is not begun anew,
which is what `Counting` says beside `TypeOK`: requests that still have to count are
at most `MaxStall` behind the clock (`InTime`), a slot nobody has read the time for has no
counter (`Known`), a counter is at least every number it has answered while someone may
still use it (`Remembered`), answers differ (`Distinct`), and a time to live never
ends before the slot's last possible user (`TtlSafe`): the doubled window is just enough.
`RowsJustified` needs that a handler at `create` has seen its flight ready.

`InferenceClientProofs` proves, for any threads, providers, models, limits, routing and
numbers of calls:

* `InferenceTypeCorrect`: `Spec => []TypeOK`;
* `PermitsHeld`: `Spec => []PermitsConserved`;
* `SerializedHeld`: `Spec => []Serialized`;
* `CallsCountedHeld`: `Spec => []CallsCounted`.

The invariant `Inv` adds to `TypeOK` what each thread holds at each point of a call
(`Located`); that there is a number left for every client under construction
(`Numbered`, without which the race of `get_llm_client` could outgrow the type); that a
worker has one client and in the API one thread calls (`OneCaller`, which together with
`PermitsConserved` gives `Serialized`); and that answers are booked or about to be
(`Accounts`), with a cell no older than the answer if that came with usage, and no newer
where one thread calls (`Booked`). Each action takes or gives
one thread to one of the sets that are counted (`ThreadSets`, `Replace`).

`ParsingProofs` proves, for any log, message types, chunk size, pool slots and number of
attempts:

* `RowsKeptHeld`: `Spec => []RowsKept`;
* `StoredWholeHeld`: `Spec => []StoredWhole`;
* `FormatRecognisedHeld`: `Spec => []FormatRecognised`.

The invariant says of each attempt, per type (`Holds`): its file is a sorted frame, its
buffer has no row twice, the two share none, and together they are exactly the rows
read so far; parsers that write once have no file before they do, and nothing is left in
a buffer once the copying begins (`Kept`). Of the stored frames it says (`Copied`) that
one is whole, or being copied, or torn
(`Landed`). The step from a set of rows
to a frame is `FrameFacts`: an injective sequence over a finite set, as long as the set
is large, holds exactly that set. `FormatRecognised` is about every file there may be and
is shown kind by kind.

Every invariant and every action property that a passing run checks is thus a theorem,
and both contracts are implemented. Left to TLC, because `ENABLED` and fairness are out of
this prover's reach: `Settles` (of both lifecycles), `EarlyStreamsEnd` and `CallsEnd`. The two
properties that are violated have no theorem.

## 6. Not modelled

Contents of prompts and of answers; four rules (MOTOR_IMBALANCE,
BAT_CURRENT_SPIKE, BAT_HIGH_R_INT: statistics over whole flights; RTL_BEHAVIOR),
titles, descriptions and raw values of findings, names and notes of phases; how
many tokens a call took; embeddings; timestamps in rows; read-only endpoints; the
decoding of binary formats, the maps of fields and units and the metadata in the
parsers, tables without a time column; the checks of the size and of the characters of a
name at upload; FFT and statistics (floating point); the vector store; deployment. Celery's delivery and
Redis pub/sub are modelled from the options and calls in `src/`: a visibility
timeout that redelivers the message of a task that still runs is covered only as
far as the lost worker is. A soft time limit that strikes after `ready` is committed and before
the task returns is not modelled: its handler would write `error` over `ready`.
`delete_flight` is used by tests only.

Modelled, and covered by no property, because the code promises nothing: derived data
computed from a read that failed (`hollow`, `blind`: the properties exempt what it left
out); a local artefact that a reader meets half written (`ReadyComplete` allows it);
phases when the crash indicator precedes the last mode (the precondition of
`PhasesTile`); the quota that a refused request has used up; a crash that the timeline
agent has not seen.

## 7. Plan

Order of work, the most important behaviour first:

1. done: `FlightLifecycle` with contract and first proofs; `InvestigationLifecycle`
   with contract; `InferenceClient`; `Grounding` and `InvestigationGraph`.
2. done: the detection rules, the event timeline and the phases. Left: the
   `RTL_BEHAVIOR` rule, the phase a mode is mapped to.
3. done: `Admission`: the Redis counter with stops between INCR and EXPIRE, the quota
   consumed before the checks, an investigation of a flight that is parsed again; with
   proofs.
4. done: `Parsing`: validation, format detection, chunks, copies. Left: a running
   investigation that reads frames while they are rewritten.
5. done: whose tokens are booked (`last_usage`) in `InferenceClient`; with proofs.
6. Proofs. Done: every invariant and action property of a passing run, and both
   contracts. Left: what the extensions above will state.
