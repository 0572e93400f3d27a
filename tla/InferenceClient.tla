--------------------------- MODULE InferenceClient ---------------------------
(***************************************************************************)
(* The LLM clients of one process: the shared client of llm/client.py, the *)
(* routing, fallback and usage accounting of llm/inference_client.py, and  *)
(* the semaphores of llm/providers/openai_provider.py. The process is a    *)
(* Celery worker, whose main thread has built the client (in building the  *)
(* graph) before the agents' threads begin to call models; or the API,     *)
(* where health requests, on threads of their own, and follow-up queries,  *)
(* on the event loop, may be the first to ask for it, and where only the   *)
(* event loop calls models.                                                *)
(*                                                                         *)
(* What a model answers is left out: a call to a provider succeeds or      *)
(* raises. Of the tokens it took, whose they are is kept, in the number of *)
(* the answer: each provider has one cell for the usage of its last call,  *)
(* which its caller reads after the call.                                  *)
(***************************************************************************)
EXTENDS Naturals, FiniteSets

CONSTANTS
    Threads,
    EventLoop,         \* the one of them that calls models, in the API
    Providers,         \* provider ids
    Registered,        \* the providers that _build_providers could construct
    Ollama,            \* always registered
    Limit,             \* max_concurrency of each provider; 0: no semaphore
    Models,            \* model names
    ModelOf,           \* the model each thread asks for
    CriticalModel, CriticalProvider, DomainModel, DomainProvider, FallbackProvider,
    Family,            \* the provider a model's name prefix points at, or Nobody
    MaxCalls,          \* BOUND on the calls of a thread
    Nobody

ASSUME InferenceAssumption ==
    /\ IsFiniteSet(Threads) /\ EventLoop \in Threads
    /\ Registered \subseteq Providers /\ Ollama \in Registered
    /\ Limit \in [Providers -> Nat]
    /\ ModelOf \in [Threads -> Models]
    /\ {CriticalModel, DomainModel} \subseteq Models
    /\ {CriticalProvider, DomainProvider, FallbackProvider} \subseteq Providers
    /\ Family \in [Models -> Providers \cup {Nobody}]
    /\ MaxCalls \in Nat
    /\ Nobody \notin Providers \cup Threads

VARIABLES
    warm,     \* the process is a worker, and its main thread has built the client
    current,  \* llm.client._client: a client's number, 0 for None
    made,     \* number of clients constructed so far
    thread,   \* what each thread does
    permits,  \* free permits of each client's semaphores
    usage,    \* _last_usage of each client's providers: whose answer's it is, 0 at first
    counted,  \* _call_count_by_provider of each client
    answers   \* history: calls answered by each client's providers

vars == <<warm, current, made, thread, permits, usage, counted, answers>>

Clients == 1 .. Cardinality(Threads) + 1

Pcs == {"start", "building", "returning", "ready", "waiting", "calling",
        "tracking", "raised"}

\* failed: the provider that the call was sent to first, when it has failed.
\* mine, told: history, the number of the answer the thread has yet to account
\* for, and whether it came with its usage.
Idle == [pc |-> "start", client |-> 0, provider |-> Nobody, failed |-> Nobody,
         calls |-> 0, mine |-> 0, told |-> FALSE]

TypeOK ==
    /\ warm \in BOOLEAN
    /\ current \in Clients \cup {0}
    /\ made \in Clients \cup {0}
    /\ thread \in [Threads -> [pc : Pcs, client : Clients \cup {0},
                               provider : Registered \cup {Nobody},
                               failed : Registered \cup {Nobody}, calls : 0 .. MaxCalls,
                               mine : Nat, told : BOOLEAN]]
    /\ permits \in [Clients -> [Providers -> Nat]]
    /\ usage \in [Clients -> [Providers -> Nat]]
    /\ counted \in [Clients -> [Providers -> Nat]]
    /\ answers \in [Clients -> [Providers -> Nat]]

Init ==
    /\ warm \in BOOLEAN
    /\ current = IF warm THEN 1 ELSE 0
    /\ made = current
    /\ thread = [t \in Threads |-> Idle]
    /\ permits = [c \in Clients |-> Limit]
    /\ usage = [c \in Clients |-> [p \in Providers |-> 0]]
    /\ counted = [c \in Clients |-> [p \in Providers |-> 0]]
    /\ answers = [c \in Clients |-> [p \in Providers |-> 0]]

-----------------------------------------------------------------------------
(* get_llm_client: an unguarded check, a construction, and a second read of *)
(* the global variable.                                                     *)

\* Variant for mutation: a client for everybody.
GetClientUncached(t) ==
    /\ thread[t].pc = "start"
    /\ thread' = [thread EXCEPT ![t].pc = "building"]
    /\ UNCHANGED <<warm, current, made, permits, usage, counted, answers>>

GetClient(t) ==
    /\ thread[t].pc = "start"
    /\ thread' = [thread EXCEPT ![t].pc = IF current = 0 THEN "building" ELSE "returning"]
    /\ UNCHANGED <<warm, current, made, permits, usage, counted, answers>>

BuildClient(t) ==
    /\ thread[t].pc = "building"
    /\ made' = made + 1
    /\ current' = made + 1
    /\ thread' = [thread EXCEPT ![t].pc = "returning"]
    /\ UNCHANGED <<warm, permits, usage, counted, answers>>

ReturnClient(t) ==
    /\ thread[t].pc = "returning"
    /\ thread' = [thread EXCEPT ![t].pc = "ready", ![t].client = current]
    /\ UNCHANGED <<warm, current, made, permits, usage, counted, answers>>
-----------------------------------------------------------------------------
\* Variant for mutation: the tier's provider, registered or not.
ResolveUnregistered(m) ==
    CASE m = CriticalModel -> CriticalProvider
      [] m = DomainModel /\ m # CriticalModel -> DomainProvider
      [] OTHER -> IF Family[m] \in Registered THEN Family[m] ELSE Ollama

\* _resolve_provider: the tier's provider, else the one the name points at,
\* else Ollama.
Resolve(m) ==
    CASE m = CriticalModel /\ CriticalProvider \in Registered -> CriticalProvider
      [] m = DomainModel /\ DomainProvider \in Registered
             /\ ~(m = CriticalModel /\ CriticalProvider \in Registered) -> DomainProvider
      [] OTHER -> IF Family[m] \in Registered THEN Family[m] ELSE Ollama

\* _fallback_provider: the configured one, else Ollama, unless it is the one
\* that failed.
FallbackOf(failed) ==
    IF FallbackProvider \in Registered \ {failed} THEN FallbackProvider
    ELSE IF failed # Ollama THEN Ollama ELSE Nobody

\* An agent keeps the client that it was built with; a request asks anew.
AfterCall == IF warm THEN "ready" ELSE "start"

\* structured or complete is called ...
BeginCall(t) ==
    /\ thread[t].pc = "ready"
    /\ thread[t].calls < MaxCalls
    /\ warm \/ t = EventLoop
    /\ LET p == Resolve(ModelOf[t]) IN
         thread' = [thread EXCEPT ![t].pc = "waiting", ![t].provider = p,
                                  ![t].failed = Nobody, ![t].calls = @ + 1]
    /\ UNCHANGED <<warm, current, made, permits, usage, counted, answers>>

\* ... and waits for a permit of the provider.
Acquire(t) ==
    LET c == thread[t].client
        p == thread[t].provider
    IN
    /\ thread[t].pc = "waiting"
    /\ IF Limit[p] = 0
       THEN UNCHANGED permits
       ELSE permits[c][p] > 0 /\ permits' = [permits EXCEPT ![c][p] = @ - 1]
    /\ thread' = [thread EXCEPT ![t].pc = "calling"]
    /\ UNCHANGED <<warm, current, made, usage, counted, answers>>

\* finally: self._release()
Release(t) ==
    LET c == thread[t].client
        p == thread[t].provider
    IN  permits' = IF Limit[p] = 0 THEN permits ELSE [permits EXCEPT ![c][p] = @ + 1]

\* The provider answers, with the tokens it took or without: then its cell keeps
\* those of the last answer that had them.
Answer(t) ==
    LET c == thread[t].client
        p == thread[t].provider
    IN
    /\ thread[t].pc = "calling"
    /\ Release(t)
    /\ answers' = [answers EXCEPT ![c][p] = @ + 1]
    /\ \E told \in BOOLEAN :
          /\ usage' = IF told THEN [usage EXCEPT ![c][p] = answers'[c][p]] ELSE usage
          /\ thread' = [thread EXCEPT ![t].pc = "tracking", ![t].mine = answers'[c][p],
                                      ![t].told = told]
    /\ UNCHANGED <<warm, current, made, counted>>

\* Variant for mutation: the call is counted for the provider first asked.
TrackResolved(t) ==
    /\ thread[t].pc = "tracking"
    /\ counted' = [counted EXCEPT ![thread[t].client][Resolve(ModelOf[t])] = @ + 1]
    /\ thread' = [thread EXCEPT ![t].pc = AfterCall, ![t].mine = 0, ![t].told = FALSE]
    /\ UNCHANGED <<warm, current, made, permits, usage, answers>>

\* _track, of the provider that answered.
Track(t) ==
    LET c == thread[t].client
        p == thread[t].provider
    IN
    /\ thread[t].pc = "tracking"
    /\ counted' = [counted EXCEPT ![c][p] = @ + 1]
    /\ thread' = [thread EXCEPT ![t].pc = AfterCall, ![t].mine = 0, ![t].told = FALSE]
    /\ UNCHANGED <<warm, current, made, permits, usage, answers>>

\* Variant for mutation: the permit is kept when the provider raises.
FailKeepingPermit(t) ==
    /\ thread[t].pc = "calling"
    /\ LET fb == IF thread[t].failed = Nobody
                 THEN FallbackOf(thread[t].provider) ELSE Nobody
       IN  thread' = IF fb = Nobody
                     THEN [thread EXCEPT ![t].pc = "raised"]
                     ELSE [thread EXCEPT ![t].pc = "waiting", ![t].provider = fb,
                                         ![t].failed = thread[t].provider]
    /\ UNCHANGED <<warm, current, made, permits, usage, counted, answers>>

\* The provider raises, whatever the exception: once, the fallback is tried.
Fail(t) ==
    /\ thread[t].pc = "calling"
    /\ Release(t)
    /\ LET fb == IF thread[t].failed = Nobody
                 THEN FallbackOf(thread[t].provider) ELSE Nobody
       IN  thread' = IF fb = Nobody
                     THEN [thread EXCEPT ![t].pc = "raised"]
                     ELSE [thread EXCEPT ![t].pc = "waiting", ![t].provider = fb,
                                         ![t].failed = thread[t].provider]
    /\ UNCHANGED <<warm, current, made, usage, counted, answers>>

\* The agent has seen the exception; the thread may go on to another call.
Recover(t) ==
    /\ thread[t].pc = "raised"
    /\ thread' = [thread EXCEPT ![t].pc = AfterCall]
    /\ UNCHANGED <<warm, current, made, permits, usage, counted, answers>>

Step(t) ==
    \/ GetClient(t) \/ BuildClient(t) \/ ReturnClient(t)
    \/ BeginCall(t) \/ Acquire(t) \/ Answer(t) \/ Track(t) \/ Fail(t) \/ Recover(t)

Next == \E t \in Threads : Step(t)

Spec == Init /\ [][Next]_vars

\* Threads are scheduled, and a provider answers or times out; a semaphore
\* wakes somebody, and every thread makes finitely many calls.
FairSpec == Spec /\ \A t \in Threads : WF_vars(Step(t))
-----------------------------------------------------------------------------
InCall(c, p) ==
    {t \in Threads : thread[t].pc = "calling" /\ thread[t].client = c
                         /\ thread[t].provider = p}

\* No path out of a call, and no fallback from one provider to another, loses
\* or invents a permit.
PermitsConserved ==
    \A c \in Clients, p \in Providers :
        Limit[p] # 0 => permits[c][p] + Cardinality(InCall(c, p)) = Limit[p]

\* "Ollama: one request at a time": a provider's limit holds for the whole
\* process, although each client has semaphores of its own and threads may race
\* to build one.
Serialized ==
    \A p \in Providers :
        Limit[p] # 0 => Cardinality(UNION {InCall(c, p) : c \in Clients}) <= Limit[p]

\* However calls and fallbacks interleave, the dashboard counts each call once,
\* for the provider that answered it. The tokens it books with the call are read
\* from the provider's one cell. They are of an earlier call, booked a second
\* time, only when the call's own answer came without its usage, and of a later
\* one only among the agents' threads: an answer with its usage is never booked
\* with older tokens, and in the API it is booked with its own.
CallsCounted ==
    /\ \A t \in Threads : thread[t].pc = "tracking" =>
          LET cell == usage[thread[t].client][thread[t].provider] IN
          /\ cell < thread[t].mine => ~thread[t].told
          /\ cell > thread[t].mine => warm
    /\ \A c \in Clients, p \in Providers :
          counted[c][p]
              + Cardinality({t \in Threads : thread[t].pc = "tracking"
                                 /\ thread[t].client = c /\ thread[t].provider = p})
          = answers[c][p]

\* Every call comes to an end: no thread waits for a permit for ever, although
\* a fallback waits for another provider's semaphore.
CallsEnd ==
    \A t \in Threads : thread[t].pc = "waiting" ~> thread[t].pc \in {"tracking", "raised"}
=============================================================================
