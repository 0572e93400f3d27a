------------------------------ MODULE Admission ------------------------------
(***************************************************************************)
(* Who is let in: the API key, the quota and the state of the flight that  *)
(* stand before an upload and an investigation (api/middleware/auth.py and *)
(* the head of upload_flight, init_upload and start_investigation in       *)
(* api/main.py).  The quota is a counter in Redis per key, action and      *)
(* window; every call to Redis is a step, several API processes and their  *)
(* threads run the handlers side by side, and a process may stop or Redis  *)
(* may fail at any of them.  Time is discrete; the clocks of the API       *)
(* processes and of Redis agree.                                           *)
(*                                                                         *)
(* Flights are those of FlightContract, plus the parse that is delivered   *)
(* again (FlightLifecycle); what follows the creation of a row is in       *)
(* FlightLifecycle and InvestigationLifecycle.                             *)
(***************************************************************************)
EXTENDS Integers, FiniteSets

CONSTANTS
    Requests,    \* the requests that arrive, each handled by a thread
    Keys,        \* keys that API_KEYS may list
    Clients,     \* callers
    KeyOf,       \* the X-API-Key header a client sends, NoKey if none
    NoKey,
    Flights,
    NoFlight,
    Limit,       \* RATE_LIMIT_* per action
    Window,      \* window_seconds per action
    MaxStall,    \* bound: time between reading the clock and INCR
    MaxTime,     \* bound: the horizon of the clock
    MaxFaults    \* bound: processes that stop, calls to Redis that fail

Actions   == {"uploads", "investigations"}
Anonymous == "unauthenticated"   \* the key of everybody when API_KEYS is empty
Payers    == Keys \cup {Anonymous}

ASSUME AdmissionAssumption ==
    /\ IsFiniteSet(Requests)
    /\ Anonymous \notin Keys /\ NoFlight \notin Flights
    /\ KeyOf \in [Clients -> Keys \cup {NoKey}] /\ NoKey \notin Keys
    /\ Limit \in [Actions -> Nat]
    /\ Window \in [Actions -> Nat \ {0}]
    /\ MaxStall \in Nat /\ \A a \in Actions : MaxStall <= Window[a]
    /\ MaxTime \in Nat /\ MaxFaults \in Nat

VARIABLES
    apiKeys,    \* _valid_keys(), read once
    now,
    count,      \* the counters in Redis; 0: there is no such key
    expires,    \* when Redis drops a counter; Never: it has no time to live
    orphaned,   \* history: counters whose first caller was lost before EXPIRE
    request,    \* where each handler is, and what it has read
    status,     \* of the flight rows
    parsed,     \* history: flights that have been ready, whose artefacts exist
    rows,       \* investigation rows, as the requests that created them
    queue,      \* messages of the queue "investigate"
    faults

vars == <<apiKeys, now, count, expires, orphaned, request, status, parsed, rows, queue, faults>>

Never == -1
Slots == Payers \X Actions \X (0..MaxTime)

\* pc: the next step of the handler, or its answer.
Running  == {"incr", "expire", "admitted", "create", "enqueue"}
Answered == {"forbidden", "too_many", "not_found", "conflict", "invalid", "accepted"}

\* by: how it passed the quota; got: what INCR answered.
Request == [pc : {"new", "lost"} \cup Running \cup Answered,
            key : Payers, action : Actions, flight : Flights \cup {NoFlight}, read : 0..MaxTime,
            got : Nat, by : {"nobody", "quota", "failure"}]

Slot(r) == <<request[r].key, request[r].action,
             request[r].read \div Window[request[r].action]>>

StatusValues == {"absent", "uploaded", "parsing", "ready", "error"}

TypeOK ==
    /\ apiKeys \in SUBSET Keys
    /\ now \in 0..MaxTime
    /\ count \in [Slots -> Nat]
    /\ expires \in [Slots -> Nat \cup {Never}]
    /\ orphaned \in SUBSET Slots
    /\ request \in [Requests -> Request]
    /\ status \in [Flights -> StatusValues]
    /\ parsed \in SUBSET Flights
    /\ rows \in SUBSET Requests
    /\ queue \in SUBSET Requests
    /\ faults \in 0..MaxFaults

Init ==
    /\ apiKeys \in SUBSET Keys
    /\ now = 0
    /\ count = [s \in Slots |-> 0]
    /\ expires = [s \in Slots |-> Never]
    /\ orphaned = {}
    /\ request = [r \in Requests |->
           [pc |-> "new", key |-> Anonymous, action |-> "uploads", flight |-> NoFlight,
            read |-> 0, got |-> 0, by |-> "nobody"]]
    /\ status = [f \in Flights |-> "absent"]
    /\ parsed = {}
    /\ rows = {}
    /\ queue = {}
    /\ faults = 0

-----------------------------------------------------------------------------
flightVars == <<status, parsed, rows, queue>>
redisVars  == <<count, expires, orphaned>>

Goto(r, pc) == request' = [request EXCEPT ![r].pc = pc]

\* require_api_key: 401 and 403.
Forbid(r, c) ==
    /\ request[r].pc = "new"
    /\ apiKeys # {} /\ KeyOf[c] \notin apiKeys
    /\ Goto(r, "forbidden")
    /\ UNCHANGED <<apiKeys, now, redisVars, flightVars, faults>>

\* Variant for mutation: the header is taken even when authentication is disabled.
PayerByHeader(c) == KeyOf[c]

\* What require_api_key returns.
Payer(c) == IF apiKeys = {} THEN Anonymous ELSE KeyOf[c]

\* An authenticated request; _check_rate_limit reads the clock.
Arrive(r, c, a, f) ==
    /\ request[r].pc = "new"
    /\ apiKeys = {} \/ KeyOf[c] \in apiKeys
    /\ (a = "uploads") <=> (f = NoFlight)
    /\ request' = [request EXCEPT
           ![r] = [@ EXCEPT !.pc = "incr", !.action = a, !.flight = f, !.read = now,
                            !.key = Payer(c)]]
    /\ UNCHANGED <<apiKeys, now, redisVars, flightVars, faults>>

\* q with the verdict of _check_rate_limit, or passed because Redis failed.
Judged(q, n) ==
    IF n > Limit[q.action] THEN [q EXCEPT !.pc = "too_many"]
    ELSE [q EXCEPT !.pc = "admitted", !.by = "quota"]

FailedOpen(q) == [q EXCEPT !.pc = "admitted", !.by = "failure"]

Counted(s) == count' = [count EXCEPT ![s] = @ + 1]

\* Variant for mutation: only a counter that exists is given a time to live.
IncrNoExpire(r) ==
    LET s == Slot(r)
        q == [request[r] EXCEPT !.got = count[s] + 1]
    IN  /\ request[r].pc = "incr"
        /\ Counted(s)
        /\ request' = [request EXCEPT ![r] = Judged(q, q.got)]
        /\ UNCHANGED <<apiKeys, now, expires, orphaned, flightVars, faults>>

\* INCR makes the counter when there is none; its first caller goes on to EXPIRE.
Incr(r) ==
    LET s == Slot(r)
        q == [request[r] EXCEPT !.got = count[s] + 1]
    IN  /\ request[r].pc = "incr"
        /\ Counted(s)
        /\ request' = [request EXCEPT
               ![r] = IF q.got = 1 THEN [q EXCEPT !.pc = "expire"] ELSE Judged(q, q.got)]
        /\ UNCHANGED <<apiKeys, now, expires, orphaned, flightVars, faults>>

\* Variant for mutation: the counter lives for one window.
TimeToLiveOneWindow(s) == Window[s[2]]

\* "2x window for safety"
TimeToLive(s) == 2 * Window[s[2]]

WithExpiry(s) == [expires EXCEPT ![s] = IF count[s] > 0 THEN now + TimeToLive(s) ELSE @]

Expire(r) ==
    /\ request[r].pc = "expire"
    /\ expires' = WithExpiry(Slot(r))
    /\ request' = [request EXCEPT ![r] = Judged(@, @.got)]
    /\ UNCHANGED <<apiKeys, now, count, orphaned, flightVars, faults>>

Fault == faults < MaxFaults /\ faults' = faults + 1

\* A call that raises, having done nothing: the request is let through.
RedisFails(r) ==
    /\ Fault
    /\ request[r].pc \in {"incr", "expire"}
    /\ request' = [request EXCEPT ![r] = FailedOpen(@)]
    /\ orphaned' = IF request[r].pc = "expire" THEN orphaned \cup {Slot(r)} ELSE orphaned
    /\ UNCHANGED <<apiKeys, now, count, expires, flightVars>>

\* A call that is carried out, but whose answer is lost: it raises, or, if the
\* version of the client library retries, INCR is sent once more.
AnswerLost(r) ==
    LET s == Slot(r) IN
    /\ Fault
    /\ \/ /\ request[r].pc = "incr"
          /\ Counted(s)
          /\ orphaned' = IF count[s] = 0 THEN orphaned \cup {s} ELSE orphaned
          /\ request' \in {request, [request EXCEPT ![r] = FailedOpen(@)]}
          /\ UNCHANGED expires
       \/ /\ request[r].pc = "expire"
          /\ expires' = WithExpiry(s)
          /\ request' = [request EXCEPT ![r] = FailedOpen(@)]
          /\ UNCHANGED <<count, orphaned>>
    /\ UNCHANGED <<apiKeys, now, flightVars>>

\* validate_upload and the creation of the flight: the quota is consumed by then.
\* A log that is known already keeps its flight.
Upload(r) ==
    /\ request[r].pc = "admitted" /\ request[r].action = "uploads"
    /\ \/ Goto(r, "invalid") /\ UNCHANGED status
       \/ /\ \E f \in Flights : status[f] # "absent"
          /\ Goto(r, "accepted") /\ UNCHANGED status
       \/ \E f \in Flights :
             /\ status[f] = "absent"
             /\ status' = [status EXCEPT ![f] = "uploaded"]
             /\ Goto(r, "accepted")
    /\ UNCHANGED <<apiKeys, now, redisVars, parsed, rows, queue, faults>>

\* Variant for mutation: only the existence of the flight is checked.
LookupExisting(r) ==
    /\ request[r].pc = "admitted" /\ request[r].action = "investigations"
    /\ Goto(r, IF status[request[r].flight] = "absent" THEN "not_found" ELSE "create")
    /\ UNCHANGED <<apiKeys, now, redisVars, flightVars, faults>>

\* start_investigation: 404 and 409 come after the quota was consumed.
Lookup(r) ==
    /\ request[r].pc = "admitted" /\ request[r].action = "investigations"
    /\ LET found == status[request[r].flight]
       IN  Goto(r, IF found = "absent" THEN "not_found"
                   ELSE IF found # "ready" THEN "conflict" ELSE "create")
    /\ UNCHANGED <<apiKeys, now, redisVars, flightVars, faults>>

\* create_investigation, whatever has become of the flight since.
Create(r) ==
    /\ request[r].pc = "create"
    /\ rows' = rows \cup {r}
    /\ Goto(r, "enqueue")
    /\ UNCHANGED <<apiKeys, now, redisVars, status, parsed, queue, faults>>

\* apply_async
Enqueue(r) ==
    /\ request[r].pc = "enqueue"
    /\ queue' = queue \cup {r}
    /\ Goto(r, "accepted")
    /\ UNCHANGED <<apiKeys, now, redisVars, status, parsed, rows, faults>>

\* The API process stops.
Stop(r) ==
    /\ Fault
    /\ request[r].pc \in Running
    /\ Goto(r, "lost")
    /\ orphaned' = IF request[r].pc = "expire" THEN orphaned \cup {Slot(r)} ELSE orphaned
    /\ UNCHANGED <<apiKeys, now, count, expires, flightVars>>

\* The parse task, and its message that is delivered again after the loss of a worker.
Parse(f) ==
    /\ \/ status[f] = "uploaded"
          /\ status' = [status EXCEPT ![f] = "parsing"] /\ UNCHANGED parsed
       \/ /\ status[f] = "parsing"
          /\ \/ status' = [status EXCEPT ![f] = "ready"] /\ parsed' = parsed \cup {f}
             \/ status' = [status EXCEPT ![f] = "error"] /\ UNCHANGED parsed
    /\ UNCHANGED <<apiKeys, now, redisVars, request, rows, queue, faults>>

ParseAgain(f) ==
    /\ Fault
    /\ status[f] \in {"ready", "error"}
    /\ status' = [status EXCEPT ![f] = "parsing"]
    /\ UNCHANGED <<apiKeys, now, redisVars, request, parsed, rows, queue>>

\* Time passes, and Redis drops the counters whose time has come.
Tick ==
    /\ now < MaxTime
    /\ \A r \in Requests : request[r].pc = "incr" => now < request[r].read + MaxStall
    /\ now' = now + 1
    /\ LET gone == {s \in Slots : expires[s] = now'}
       IN  /\ count' = [s \in Slots |-> IF s \in gone THEN 0 ELSE count[s]]
           /\ expires' = [s \in Slots |-> IF s \in gone THEN Never ELSE expires[s]]
    /\ UNCHANGED <<apiKeys, orphaned, request, flightVars, faults>>

Next ==
    \/ \E r \in Requests :
          \/ \E c \in Clients :
                \/ Forbid(r, c)
                \/ \E a \in Actions, f \in Flights \cup {NoFlight} : Arrive(r, c, a, f)
          \/ Incr(r) \/ Expire(r) \/ RedisFails(r) \/ AnswerLost(r)
          \/ Upload(r) \/ Lookup(r) \/ Create(r) \/ Enqueue(r) \/ Stop(r)
    \/ \E f \in Flights : Parse(f) \/ ParseAgain(f)
    \/ Tick

Spec == Init /\ [][Next]_vars

-----------------------------------------------------------------------------
\* The requests of a slot that passed because their count was within the limit.
Passed(s) == {r \in Requests : request[r].by = "quota" /\ Slot(r) = s}

\* "2x window for safety": however late a handler counts the request it took
\* the time for, at most Limit requests of one key, action and window pass;
\* the counter is not dropped, and begun anew, while a handler may still use it.
QuotaBound == \A s \in Slots : Cardinality(Passed(s)) <= Limit[s[2]]

\* The window is fixed, where auth.py says "sliding": in a span as long as a
\* window, which may lie across a boundary, up to twice the limit pass.
PassedWithin(k, a, span) ==
    {r \in Requests : /\ request[r].by = "quota" /\ request[r].key = k
                      /\ request[r].action = a /\ request[r].read \in span}

SpanBound ==
    \A k \in Payers, a \in Actions, t \in 0..MaxTime :
        Cardinality(PassedWithin(k, a, t..(t + Window[a] - 1))) <= 2 * Limit[a]

\* INCR and EXPIRE are two calls: a counter without a time to live has a handler
\* that is about to give it one, or was orphaned by a fault.
CountersExpire ==
    \A s \in Slots : count[s] > 0 =>
        \/ expires[s] # Never
        \/ s \in orphaned
        \/ \E r \in Requests : Slot(r) = s /\ request[r].pc = "expire"

\* Of a flight checked, counted and created in three steps: every investigation
\* row was let in by the quota or by its failure, and is about a flight whose
\* artefacts exist, even if that flight is being parsed again by now; nothing
\* is enqueued without its row.
RowsJustified ==
    /\ queue \subseteq rows
    /\ \A r \in rows :
          request[r].action = "investigations" /\ request[r].by # "nobody"
              /\ request[r].flight \in parsed
=============================================================================
