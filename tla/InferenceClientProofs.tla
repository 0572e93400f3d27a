----------------------- MODULE InferenceClientProofs -----------------------
(* Safety of the clients, the semaphores and the accounting, for any number *)
(* of threads, providers and calls, any limits and any routing.             *)
EXTENDS InferenceClient, FiniteSetTheorems, TLAPS

Record == [pc : Pcs, client : Clients \cup {0},
           provider : Registered \cup {Nobody},
           failed : Registered \cup {Nobody}, calls : 0 .. MaxCalls,
           mine : Nat, told : BOOLEAN]

Building == {t \in Threads : thread[t].pc = "building"}

Tracking(c, p) ==
    {t \in Threads : thread[t].pc = "tracking"
        /\ thread[t].client = c /\ thread[t].provider = p}

Occupied == {"waiting", "calling", "tracking", "raised"}

\* What a thread holds at each point of a call.
Located ==
    \A t \in Threads :
        /\ thread[t].pc \in Occupied \cup {"ready"} => thread[t].client \in Clients
        /\ thread[t].pc \in {"waiting", "calling", "tracking"} => thread[t].provider \in Registered
        /\ thread[t].pc = "returning" => current # 0
        /\ thread[t].mine > 0 => thread[t].pc = "tracking"

\* There is a number left for every client under construction.
Numbered ==
    /\ made + Cardinality(Building) <= Cardinality(Threads) + 1
    /\ current = 0 <=> made = 0

\* A worker has one client; in the API one thread calls.
OneCaller ==
    IF warm
    THEN /\ current = 1
         /\ \A t \in Threads : thread[t].pc # "building" /\ thread[t].client \in {0, 1}
    ELSE \A t \in Threads : thread[t].pc \in Occupied => t = EventLoop

\* Calls that are answered are booked, or about to be.
Accounts ==
    \A c \in Clients, p \in Providers :
        counted[c][p] + Cardinality(Tracking(c, p)) = answers[c][p]

\* The cell holds an answer that was given, and no earlier one than is booked
\* with its usage.
Booked ==
    /\ \A c \in Clients, p \in Providers : usage[c][p] <= answers[c][p]
    /\ \A t \in Threads : thread[t].pc = "tracking" =>
          LET cell == usage[thread[t].client][thread[t].provider] IN
          /\ cell < thread[t].mine => ~thread[t].told
          /\ cell > thread[t].mine => warm

Inv ==
    /\ TypeOK /\ Located /\ Numbered /\ OneCaller
    /\ PermitsConserved /\ Accounts /\ Booked

-----------------------------------------------------------------------------
\* A set of threads is finite, and one thread more or less counts one.
LEMMA ThreadSets ==
  ASSUME NEW S \in SUBSET Threads, NEW t \in Threads
  PROVE  /\ IsFiniteSet(S) /\ Cardinality(S) \in Nat
         /\ Cardinality(S) <= Cardinality(Threads)
         /\ Cardinality(Threads) \in Nat
         /\ t \notin S => Cardinality(S \cup {t}) = Cardinality(S) + 1
         /\ t \in S => Cardinality(S \ {t}) = Cardinality(S) - 1
<1>1. IsFiniteSet(Threads)
  BY InferenceAssumption
<1>2. IsFiniteSet(S) /\ Cardinality(S) <= Cardinality(Threads)
  BY <1>1, FS_Subset
<1>3. Cardinality(S) \in Nat /\ Cardinality(Threads) \in Nat
  BY <1>1, <1>2, FS_CardinalityType
<1>4. t \notin S => Cardinality(S \cup {t}) = Cardinality(S) + 1
  BY <1>2, FS_AddElement
<1>5. t \in S => Cardinality(S \ {t}) = Cardinality(S) - 1
  BY <1>2, FS_RemoveElement
<1> QED BY <1>2, <1>3, <1>4, <1>5

\* Routing and fallback name providers that exist.
LEMMA Routes ==
  /\ \A m \in Models : Resolve(m) \in Registered
  /\ \A p : FallbackOf(p) \in Registered \cup {Nobody}
  /\ Nobody \notin Registered
  /\ Registered \subseteq Providers
<1>1. Ollama \in Registered /\ Nobody \notin Registered /\ Registered \subseteq Providers
  BY InferenceAssumption
<1>2. \A m \in Models : Resolve(m) \in Registered
  BY <1>1 DEF Resolve
<1>3. \A p : FallbackOf(p) \in Registered \cup {Nobody}
  BY <1>1 DEF FallbackOf
<1> QED BY <1>1, <1>2, <1>3

\* What replacing the record of one thread does.
LEMMA Replace ==
  ASSUME thread \in [Threads -> Record], NEW t \in Threads, NEW q \in Record,
         thread' = [thread EXCEPT ![t] = q]
  PROVE  /\ thread' \in [Threads -> Record]
         /\ thread'[t] = q
         /\ \A x \in Threads : x # t => thread'[x] = thread[x]
         /\ Building' = IF q.pc = "building" THEN Building \cup {t} ELSE Building \ {t}
<1>1. /\ thread' \in [Threads -> Record]
      /\ thread'[t] = q
      /\ \A x \in Threads : x # t => thread'[x] = thread[x]
  OBVIOUS
<1>2. Building' = IF q.pc = "building" THEN Building \cup {t} ELSE Building \ {t}
  BY <1>1 DEF Building
<1> QED BY <1>1, <1>2

LEMMA TypeFacts ==
  ASSUME TypeOK
  PROVE  /\ thread \in [Threads -> Record]
         /\ Cardinality(Threads) \in Nat
         /\ current \in Nat /\ made \in Nat
         /\ \A t \in Threads : thread[t] \in Record
<1>1. thread \in [Threads -> Record]
  BY DEF TypeOK, Record
<1>2. Cardinality(Threads) \in Nat
  BY InferenceAssumption, FS_CardinalityType
<1>3. current \in Nat /\ made \in Nat
  BY <1>2 DEF TypeOK, Clients
<1> QED BY <1>1, <1>2, <1>3

-----------------------------------------------------------------------------
LEMMA InitInv == Init => Inv
<1> SUFFICES ASSUME Init PROVE Inv
  OBVIOUS
<1>0. Cardinality(Threads) \in Nat /\ Limit \in [Providers -> Nat] /\ MaxCalls \in Nat
  BY InferenceAssumption, FS_CardinalityType
<1>1. /\ Idle \in Record
      /\ Idle.pc = "start" /\ Idle.client = 0 /\ Idle.mine = 0
      /\ thread = [t \in Threads |-> Idle]
  BY <1>0 DEF Init, Idle, Record, Pcs
<1>2. TypeOK
  <2>1. thread \in [Threads -> Record]
    BY <1>1
  <2>2. current \in Clients \cup {0} /\ made \in Clients \cup {0} /\ warm \in BOOLEAN
    BY <1>0 DEF Init, Clients
  <2>3. permits \in [Clients -> [Providers -> Nat]]
    BY <1>0 DEF Init
  <2>4. /\ usage \in [Clients -> [Providers -> Nat]]
        /\ counted \in [Clients -> [Providers -> Nat]]
        /\ answers \in [Clients -> [Providers -> Nat]]
    BY DEF Init
  <2> QED BY <2>1, <2>2, <2>3, <2>4 DEF TypeOK, Record
<1>3. Located /\ OneCaller
  BY <1>1 DEF Located, OneCaller, Occupied, Init
<1>4. /\ Building = {}
      /\ \A c, p : InCall(c, p) = {} /\ Tracking(c, p) = {}
      /\ Cardinality({}) = 0
  BY <1>1, FS_EmptySet DEF Building, InCall, Tracking
<1>5. Numbered
  BY <1>0, <1>4 DEF Numbered, Init
<1>6. PermitsConserved
  BY <1>0, <1>4 DEF PermitsConserved, Init
<1>7. Accounts
  BY <1>4 DEF Accounts, Init
<1>8. Booked
  BY <1>1 DEF Booked, Init
<1> QED BY <1>2, <1>3, <1>5, <1>6, <1>7, <1>8 DEF Inv

-----------------------------------------------------------------------------
\* A step that neither begins nor ends a provider's turn touches no permit.
LEMMA PermitsQuiet ==
  ASSUME Inv, NEW t \in Threads, NEW q \in Record, thread' = [thread EXCEPT ![t] = q],
         thread[t].pc # "calling", q.pc # "calling", UNCHANGED permits
  PROVE  PermitsConserved'
<1>1. /\ thread'[t] = q
      /\ \A x \in Threads : x # t => thread'[x] = thread[x]
  BY TypeFacts, Replace DEF Inv
<1>2. \A c, p : InCall(c, p)' = InCall(c, p)
  BY <1>1 DEF InCall
<1> QED BY <1>2 DEF Inv, PermitsConserved

\* And one that neither answers nor books touches no account.
LEMMA AccountsQuiet ==
  ASSUME Inv, NEW t \in Threads, NEW q \in Record, thread' = [thread EXCEPT ![t] = q],
         thread[t].pc # "tracking", q.pc # "tracking", q.mine = 0,
         UNCHANGED <<warm, usage, counted, answers>>
  PROVE  Accounts' /\ Booked'
<1>1. /\ thread'[t] = q
      /\ \A x \in Threads : x # t => thread'[x] = thread[x]
  BY TypeFacts, Replace DEF Inv
<1>2. \A c, p : Tracking(c, p)' = Tracking(c, p)
  BY <1>1 DEF Tracking
<1>3. Accounts'
  BY <1>2 DEF Inv, Accounts
<1>4. Booked'
  BY <1>1 DEF Inv, Booked
<1> QED BY <1>3, <1>4

\* A step outside the calls touches neither.
LEMMA QuietMove ==
  ASSUME Inv, NEW t \in Threads, NEW q \in Record, thread' = [thread EXCEPT ![t] = q],
         thread[t].pc \notin {"calling", "tracking"}, q.pc \notin {"calling", "tracking"},
         q.mine = 0, UNCHANGED <<warm, permits, usage, counted, answers>>
  PROVE  PermitsConserved' /\ Accounts' /\ Booked'
<1>1. PermitsConserved'
  BY PermitsQuiet
<1>2. Accounts' /\ Booked'
  BY AccountsQuiet
<1> QED BY <1>1, <1>2

\* Located is about each thread by itself.
LEMMA LocatedMove ==
  ASSUME Inv, NEW t \in Threads, NEW q \in Record, thread' = [thread EXCEPT ![t] = q],
         q.pc \in Occupied \cup {"ready"} => q.client \in Clients,
         q.pc \in {"waiting", "calling", "tracking"} => q.provider \in Registered,
         q.pc = "returning" => current' # 0,
         q.mine > 0 => q.pc = "tracking",
         current' = current \/ current' # 0
  PROVE  Located'
<1>1. /\ thread'[t] = q
      /\ \A x \in Threads : x # t => thread'[x] = thread[x]
  BY TypeFacts, Replace DEF Inv
<1> QED BY <1>1 DEF Inv, Located

\* So is OneCaller, while nothing is built.
LEMMA OneCallerMove ==
  ASSUME Inv, NEW t \in Threads, NEW q \in Record, thread' = [thread EXCEPT ![t] = q],
         UNCHANGED <<warm, current>>,
         warm => q.pc # "building" /\ q.client \in {0, 1},
         ~warm /\ q.pc \in Occupied => t = EventLoop
  PROVE  OneCaller'
<1>1. /\ thread'[t] = q
      /\ \A x \in Threads : x # t => thread'[x] = thread[x]
  BY TypeFacts, Replace DEF Inv
<1> QED BY <1>1 DEF Inv, OneCaller

\* And so is Numbered, for a thread that neither begins nor ends a construction.
LEMMA NumberedMove ==
  ASSUME Inv, NEW t \in Threads, NEW q \in Record, thread' = [thread EXCEPT ![t] = q],
         UNCHANGED <<made, current>>,
         thread[t].pc # "building", q.pc # "building"
  PROVE  Numbered'
<1>1. Building' = Building \ {t}
  BY TypeFacts, Replace DEF Inv
<1>2. t \notin Building
  BY DEF Building
<1>3. Building' = Building
  BY <1>1, <1>2
<1> QED BY <1>3 DEF Inv, Numbered

\* Records that the steps write are records.
LEMMA Updates ==
  ASSUME NEW r \in Record
  PROVE  /\ \A pc \in Pcs : LET q == [r EXCEPT !.pc = pc] IN
              /\ q \in Record /\ q.pc = pc /\ q.client = r.client /\ q.provider = r.provider
              /\ q.failed = r.failed /\ q.calls = r.calls /\ q.mine = r.mine /\ q.told = r.told
         /\ \A c \in Clients \cup {0} : LET q == [r EXCEPT !.client = c] IN
              /\ q \in Record /\ q.pc = r.pc /\ q.client = c /\ q.provider = r.provider
              /\ q.failed = r.failed /\ q.calls = r.calls /\ q.mine = r.mine /\ q.told = r.told
         /\ \A n \in Nat : LET q == [r EXCEPT !.mine = n] IN
              /\ q \in Record /\ q.pc = r.pc /\ q.client = r.client /\ q.provider = r.provider
              /\ q.failed = r.failed /\ q.calls = r.calls /\ q.mine = n /\ q.told = r.told
         /\ \A b \in BOOLEAN : LET q == [r EXCEPT !.told = b] IN
              /\ q \in Record /\ q.pc = r.pc /\ q.client = r.client /\ q.provider = r.provider
              /\ q.failed = r.failed /\ q.calls = r.calls /\ q.mine = r.mine /\ q.told = b
  BY DEF Record

-----------------------------------------------------------------------------
LEMMA GetClientInv == ASSUME Inv, NEW t \in Threads, GetClient(t) PROVE Inv'
<1> DEFINE pc == IF current = 0 THEN "building" ELSE "returning"
           q == [thread[t] EXCEPT !.pc = pc]
<1>1. /\ thread \in [Threads -> Record] /\ thread[t] \in Record /\ thread[t].pc = "start"
      /\ Cardinality(Threads) \in Nat /\ made \in Nat
  BY TypeFacts DEF Inv, GetClient
<1>2. /\ q \in Record /\ q.pc = pc /\ q.client = thread[t].client /\ q.mine = thread[t].mine
  <2>1. pc \in Pcs
    BY DEF Pcs
  <2> QED BY <1>1, <2>1, Updates
<1>3. thread' = [thread EXCEPT ![t] = q]
  BY <1>1 DEF GetClient
<1>4. q.mine = 0
  BY <1>1, <1>2 DEF Inv, Located, Record
<1> HIDE DEF q
<1>5. PermitsConserved' /\ Accounts' /\ Booked'
  BY <1>1, <1>2, <1>3, <1>4, QuietMove DEF GetClient
<1>6. Located'
  <2>1. current' = current
    BY DEF GetClient
  <2>2. /\ q.pc \notin {"waiting", "calling", "tracking"}
        /\ q.pc \in Occupied \cup {"ready"} => q.client \in Clients
        /\ q.pc = "returning" => current' # 0
    BY <1>1, <1>2, <2>1 DEF Occupied
  <2>3. ~(q.mine > 0)
    BY <1>4
  <2> QED BY <1>2, <1>3, <2>1, <2>2, <2>3, LocatedMove, Zenon
<1>7. OneCaller'
  <2>1. warm => current = 1 /\ thread[t].client \in {0, 1}
    BY DEF Inv, OneCaller
  <2>2. UNCHANGED <<warm, current>>
    BY DEF GetClient
  <2>3. /\ warm => q.pc # "building" /\ q.client \in {0, 1}
        /\ ~warm /\ q.pc \in Occupied => t = EventLoop
    BY <1>2, <2>1 DEF Occupied
  <2> QED BY <1>2, <1>3, <2>2, <2>3, OneCallerMove, Zenon
<1>8. Numbered'
  <2>1. CASE current = 0
    <3>1. made' = 0 /\ current' = 0
      BY <2>1 DEF Inv, Numbered, GetClient
    <3>2. Building' \in SUBSET Threads
      BY DEF Building
    <3>3. Cardinality(Building') \in Nat /\ Cardinality(Building') <= Cardinality(Threads)
      BY <3>2, ThreadSets
    <3> QED BY <1>1, <3>1, <3>3 DEF Numbered
  <2>2. CASE current # 0
    BY <1>1, <1>2, <1>3, <2>2, NumberedMove DEF GetClient
  <2> QED BY <2>1, <2>2
<1>9. TypeOK'
  <2>1. thread' \in [Threads -> Record]
    BY <1>1, <1>2, <1>3, Replace
  <2> QED BY <2>1 DEF Inv, TypeOK, GetClient, Record, Clients
<1> QED BY <1>5, <1>6, <1>7, <1>8, <1>9 DEF Inv

LEMMA BuildClientInv == ASSUME Inv, NEW t \in Threads, BuildClient(t) PROVE Inv'
<1> DEFINE q == [thread[t] EXCEPT !.pc = "returning"]
<1>1. /\ thread \in [Threads -> Record] /\ thread[t] \in Record /\ thread[t].pc = "building"
      /\ Cardinality(Threads) \in Nat /\ made \in Nat
  BY TypeFacts DEF Inv, BuildClient
<1>2. /\ q \in Record /\ q.pc = "returning" /\ q.client = thread[t].client
      /\ q.mine = thread[t].mine
  <2>1. "returning" \in Pcs
    BY DEF Pcs
  <2> QED BY <1>1, <2>1, Updates
<1>3. thread' = [thread EXCEPT ![t] = q]
  BY <1>1 DEF BuildClient
<1>4. q.mine = 0
  BY <1>1, <1>2 DEF Inv, Located, Record
<1> HIDE DEF q
<1>5. PermitsConserved' /\ Accounts' /\ Booked'
  BY <1>1, <1>2, <1>3, <1>4, QuietMove DEF BuildClient
<1>6. Located'
  <2>1. current' # 0
    BY <1>1 DEF BuildClient
  <2>2. /\ q.pc \notin {"waiting", "calling", "tracking"}
        /\ q.pc \in Occupied \cup {"ready"} => q.client \in Clients
        /\ q.pc = "returning" => current' # 0
    BY <1>1, <1>2, <2>1 DEF Occupied
  <2>3. ~(q.mine > 0)
    BY <1>4
  <2> QED BY <1>2, <1>3, <2>1, <2>2, <2>3, LocatedMove, Zenon
<1>7. ~warm /\ OneCaller'
  <2>1. ~warm
    BY <1>1 DEF Inv, OneCaller
  <2>2. /\ thread'[t] = q
        /\ \A x \in Threads : x # t => thread'[x] = thread[x]
    BY <1>1, <1>2, <1>3, Replace
  <2> QED BY <1>2, <2>1, <2>2 DEF Inv, OneCaller, BuildClient, Occupied
<1>8. Numbered' /\ made' \in Clients /\ current' \in Clients
  <2>1. Building' = Building \ {t}
    BY <1>1, <1>2, <1>3, Replace
  <2>2. Building \in SUBSET Threads /\ t \in Building
    BY <1>1 DEF Building
  <2>3. Cardinality(Building') = Cardinality(Building) - 1 /\ Cardinality(Building) \in Nat
    BY <2>1, <2>2, ThreadSets
  <2>4. Cardinality(Building') \in Nat
    <3>1. Building' \in SUBSET Threads
      BY <2>1, <2>2
    <3> QED BY <3>1, ThreadSets
  <2>5. made' = made + 1 /\ current' = made + 1
    BY DEF BuildClient
  <2>6. made + Cardinality(Building) <= Cardinality(Threads) + 1
    BY DEF Inv, Numbered
  <2> QED BY <1>1, <2>3, <2>4, <2>5, <2>6 DEF Numbered, Clients
<1>9. TypeOK'
  <2>1. thread' \in [Threads -> Record]
    BY <1>1, <1>2, <1>3, Replace
  <2> QED BY <1>8, <2>1 DEF Inv, TypeOK, BuildClient, Record, Clients
<1> QED BY <1>5, <1>6, <1>7, <1>8, <1>9 DEF Inv

LEMMA ReturnClientInv == ASSUME Inv, NEW t \in Threads, ReturnClient(t) PROVE Inv'
<1> DEFINE q0 == [thread[t] EXCEPT !.pc = "ready"]
           q == [q0 EXCEPT !.client = current]
<1>1. /\ thread \in [Threads -> Record] /\ thread[t] \in Record /\ thread[t].pc = "returning"
      /\ current \in Clients
  BY TypeFacts DEF Inv, ReturnClient, Located, TypeOK
<1>2. /\ q \in Record /\ q.pc = "ready" /\ q.client = current
      /\ q.mine = thread[t].mine
  <2>1. "ready" \in Pcs
    BY DEF Pcs
  <2>2. /\ q0 \in Record /\ q0.pc = "ready" /\ q0.mine = thread[t].mine
    BY <1>1, <2>1, Updates
  <2> HIDE DEF q0
  <2> QED BY <1>1, <2>2, Updates
<1>3. thread' = [thread EXCEPT ![t] = q]
  BY <1>1 DEF ReturnClient
<1>4. q.mine = 0
  BY <1>1, <1>2 DEF Inv, Located, Record
<1> HIDE DEF q
<1>5. PermitsConserved' /\ Accounts' /\ Booked'
  BY <1>1, <1>2, <1>3, <1>4, QuietMove DEF ReturnClient
<1>6. Located'
  <2>1. current' = current
    BY DEF ReturnClient
  <2>2. /\ q.pc \notin {"waiting", "calling", "tracking"}
        /\ q.pc \in Occupied \cup {"ready"} => q.client \in Clients
        /\ q.pc = "returning" => current' # 0
    BY <1>1, <1>2, <2>1 DEF Occupied
  <2>3. ~(q.mine > 0)
    BY <1>4
  <2> QED BY <1>2, <1>3, <2>1, <2>2, <2>3, LocatedMove, Zenon
<1>7. OneCaller'
  <2>1. warm => current = 1
    BY DEF Inv, OneCaller
  <2> QED BY <1>2, <1>3, <2>1, OneCallerMove DEF ReturnClient, Occupied
<1>8. Numbered'
  BY <1>1, <1>2, <1>3, NumberedMove DEF ReturnClient
<1>9. TypeOK'
  <2>1. thread' \in [Threads -> Record]
    BY <1>1, <1>2, <1>3, Replace
  <2> QED BY <2>1 DEF Inv, TypeOK, ReturnClient, Record, Clients
<1> QED BY <1>5, <1>6, <1>7, <1>8, <1>9 DEF Inv

LEMMA RecoverInv == ASSUME Inv, NEW t \in Threads, Recover(t) PROVE Inv'
<1> DEFINE q == [thread[t] EXCEPT !.pc = AfterCall]
<1>1. /\ thread \in [Threads -> Record] /\ thread[t] \in Record /\ thread[t].pc = "raised"
      /\ thread[t].client \in Clients
  BY TypeFacts DEF Inv, Recover, Located, Occupied
<1>2. /\ q \in Record /\ q.pc \in {"ready", "start"} /\ q.client = thread[t].client
      /\ q.mine = thread[t].mine
  <2>1. AfterCall \in Pcs /\ AfterCall \in {"ready", "start"}
    BY DEF AfterCall, Pcs
  <2> QED BY <1>1, <2>1, Updates
<1>3. thread' = [thread EXCEPT ![t] = q]
  BY <1>1 DEF Recover
<1>4. q.mine = 0
  BY <1>1, <1>2 DEF Inv, Located, Record
<1> HIDE DEF q
<1>5. PermitsConserved' /\ Accounts' /\ Booked'
  BY <1>1, <1>2, <1>3, <1>4, QuietMove DEF Recover
<1>6. Located'
  <2>1. current' = current
    BY DEF Recover
  <2>2. q.client \in Clients /\ q.pc \notin {"waiting", "calling", "tracking"} /\ q.pc # "returning"
    BY <1>1, <1>2
  <2>3. ~(q.mine > 0)
    BY <1>4
  <2> QED BY <1>2, <1>3, <2>1, <2>2, <2>3, LocatedMove, Zenon
<1>7. OneCaller'
  <2>1. warm => thread[t].client \in {0, 1}
    BY DEF Inv, OneCaller
  <2> QED BY <1>2, <1>3, <2>1, OneCallerMove DEF Recover, Occupied
<1>8. Numbered'
  BY <1>1, <1>2, <1>3, NumberedMove DEF Recover
<1>9. TypeOK'
  <2>1. thread' \in [Threads -> Record]
    BY <1>1, <1>2, <1>3, Replace
  <2> QED BY <2>1 DEF Inv, TypeOK, Recover, Record, Clients
<1> QED BY <1>5, <1>6, <1>7, <1>8, <1>9 DEF Inv

LEMMA BeginCallInv == ASSUME Inv, NEW t \in Threads, BeginCall(t) PROVE Inv'
<1> DEFINE p == Resolve(ModelOf[t])
           q == [thread[t] EXCEPT !.pc = "waiting", !.provider = p,
                                  !.failed = Nobody, !.calls = @ + 1]
<1>1. /\ thread \in [Threads -> Record] /\ thread[t] \in Record /\ thread[t].pc = "ready"
      /\ thread[t].client \in Clients /\ thread[t].calls < MaxCalls
      /\ warm \/ t = EventLoop
  BY TypeFacts DEF Inv, BeginCall, Located
<1>2. p \in Registered
  <2>1. ModelOf[t] \in Models
    BY InferenceAssumption
  <2> QED BY <2>1, Routes
<1>3. thread' = [thread EXCEPT ![t] = q]
  BY <1>1 DEF BeginCall
<1> HIDE DEF p
<1>4. /\ q \in Record /\ q.pc = "waiting" /\ q.client = thread[t].client
      /\ q.mine = thread[t].mine /\ q.provider = p
  <2>1. thread[t].calls + 1 \in 0 .. MaxCalls
    BY <1>1, InferenceAssumption DEF Record
  <2> QED BY <1>1, <1>2, <2>1 DEF Record, Pcs
<1>5. q.mine = 0
  BY <1>1, <1>4 DEF Inv, Located, Record
<1> HIDE DEF q
<1>6. PermitsConserved' /\ Accounts' /\ Booked'
  BY <1>1, <1>3, <1>4, <1>5, QuietMove DEF BeginCall
<1>7. Located'
  <2>1. current' = current
    BY DEF BeginCall
  <2>2. q.client \in Clients /\ q.provider \in Registered /\ q.pc # "returning"
    BY <1>1, <1>2, <1>4
  <2>3. ~(q.mine > 0)
    BY <1>5
  <2> QED BY <1>3, <1>4, <2>1, <2>2, <2>3, LocatedMove, Zenon
<1>8. OneCaller'
  <2>1. warm => thread[t].client \in {0, 1}
    BY DEF Inv, OneCaller
  <2> QED BY <1>1, <1>3, <1>4, <2>1, OneCallerMove DEF BeginCall
<1>9. Numbered'
  BY <1>1, <1>3, <1>4, NumberedMove DEF BeginCall
<1>10. TypeOK'
  <2>1. thread' \in [Threads -> Record]
    BY <1>1, <1>3, <1>4, Replace
  <2> QED BY <2>1 DEF Inv, TypeOK, BeginCall, Record, Clients
<1> QED BY <1>6, <1>7, <1>8, <1>9, <1>10 DEF Inv

-----------------------------------------------------------------------------
\* What a thread in a call holds.
LEMMA CallFacts ==
  ASSUME Inv, NEW t \in Threads, thread[t].pc \in {"waiting", "calling", "tracking"}
  PROVE  LET c == thread[t].client  p == thread[t].provider IN
         /\ thread \in [Threads -> Record] /\ thread[t] \in Record
         /\ c \in Clients /\ p \in Registered /\ p \in Providers
         /\ warm => c = 1
         /\ ~warm => t = EventLoop
         /\ Limit \in [Providers -> Nat]
         /\ permits \in [Clients -> [Providers -> Nat]]
<1>1. /\ thread \in [Threads -> Record] /\ thread[t] \in Record
      /\ permits \in [Clients -> [Providers -> Nat]]
  BY TypeFacts DEF Inv, TypeOK
<1>2. thread[t].client \in Clients /\ thread[t].provider \in Registered
  BY DEF Inv, Located, Occupied
<1>3. Registered \subseteq Providers /\ Limit \in [Providers -> Nat]
  BY InferenceAssumption
<1>4. 0 \notin Clients
  BY DEF Clients
<1>5. /\ warm => thread[t].client = 1
      /\ ~warm => t = EventLoop
  BY <1>2, <1>4 DEF Inv, OneCaller, Occupied
<1> QED BY <1>1, <1>2, <1>3, <1>5

\* The steps of a call neither construct nor choose a client.
LEMMA CallMove ==
  ASSUME Inv, NEW t \in Threads, NEW q \in Record, thread' = [thread EXCEPT ![t] = q],
         thread[t].pc \in {"waiting", "calling", "tracking"},
         q.pc \in Occupied \cup {"ready", "start"}, q.client = thread[t].client,
         q.pc \in {"waiting", "calling", "tracking"} => q.provider \in Registered,
         q.mine > 0 => q.pc = "tracking",
         UNCHANGED <<warm, current, made>>
  PROVE  Located' /\ OneCaller' /\ Numbered' /\ thread' \in [Threads -> Record]
<1>1. /\ thread[t].client \in Clients
      /\ thread \in [Threads -> Record]
      /\ warm => thread[t].client = 1
      /\ ~warm => t = EventLoop
  BY CallFacts
<1>2. q.pc # "returning" /\ q.pc # "building"
  BY DEF Occupied
<1>3. Located'
  <2>1. current' = current
    OBVIOUS
  <2>2. q.pc \in Occupied \cup {"ready"} => q.client \in Clients
    BY <1>1
  <2> QED BY <1>2, <2>1, <2>2, LocatedMove, Zenon
<1>4. OneCaller'
  <2>1. UNCHANGED <<warm, current>>
    OBVIOUS
  <2>2. /\ warm => q.pc # "building" /\ q.client \in {0, 1}
        /\ ~warm /\ q.pc \in Occupied => t = EventLoop
    BY <1>1, <1>2
  <2> QED BY <2>1, <2>2, OneCallerMove, Zenon
<1>5. Numbered'
  BY <1>1, NumberedMove DEF Occupied
<1>6. thread' \in [Threads -> Record]
  BY <1>1, Replace
<1> QED BY <1>3, <1>4, <1>5, <1>6

LEMMA AcquireInv == ASSUME Inv, NEW t \in Threads, Acquire(t) PROVE Inv'
<1> DEFINE c == thread[t].client
           p == thread[t].provider
           q == [thread[t] EXCEPT !.pc = "calling"]
<1>1. /\ thread \in [Threads -> Record] /\ thread[t] \in Record /\ thread[t].pc = "waiting"
      /\ c \in Clients /\ p \in Registered /\ p \in Providers
      /\ Limit \in [Providers -> Nat] /\ permits \in [Clients -> [Providers -> Nat]]
  BY CallFacts DEF Acquire
<1>2. /\ q \in Record /\ q.pc = "calling" /\ q.client = c /\ q.provider = p
      /\ q.mine = thread[t].mine
  <2>1. "calling" \in Pcs
    BY DEF Pcs
  <2> QED BY <1>1, <2>1, Updates
<1>3. thread' = [thread EXCEPT ![t] = q]
  BY <1>1 DEF Acquire
<1>4. q.mine = 0
  BY <1>1, <1>2 DEF Inv, Located, Record
<1> HIDE DEF q
<1>5. IF Limit[p] = 0 THEN UNCHANGED permits
      ELSE permits[c][p] > 0 /\ permits' = [permits EXCEPT ![c][p] = @ - 1]
  BY DEF Acquire
<1> HIDE DEF c, p
<1>6. /\ permits' \in [Clients -> [Providers -> Nat]]
      /\ thread'[t] = q
      /\ \A x \in Threads : x # t => thread'[x] = thread[x]
  <2>1. permits' \in [Clients -> [Providers -> Nat]]
    BY <1>1, <1>5
  <2>2. /\ thread'[t] = q
        /\ \A x \in Threads : x # t => thread'[x] = thread[x]
    BY <1>1, <1>2, <1>3, Replace
  <2> QED BY <2>1, <2>2
<1>7. PermitsConserved'
  <2> SUFFICES ASSUME NEW d \in Clients, NEW r \in Providers, Limit[r] # 0
               PROVE  permits'[d][r] + Cardinality(InCall(d, r)') = Limit[r]
    BY DEF PermitsConserved
  <2>1. permits[d][r] + Cardinality(InCall(d, r)) = Limit[r]
    BY DEF Inv, PermitsConserved
  <2>2. t \notin InCall(d, r) /\ InCall(d, r) \in SUBSET Threads
    BY <1>1 DEF InCall
  <2>3. InCall(d, r)' = IF c = d /\ p = r THEN InCall(d, r) \cup {t} ELSE InCall(d, r) \ {t}
    BY <1>2, <1>6 DEF InCall
  <2>4. CASE d = c /\ r = p
    <3>1. Cardinality(InCall(d, r)') = Cardinality(InCall(d, r)) + 1
      BY <2>2, <2>3, <2>4, ThreadSets
    <3>2. permits'[d][r] = permits[d][r] - 1
      BY <1>1, <1>5, <2>4
    <3>3. Cardinality(InCall(d, r)) \in Nat
      BY <2>2, ThreadSets
    <3>4. permits[d][r] \in Nat /\ Limit[r] \in Nat
      BY <1>1
    <3> QED BY <2>1, <3>1, <3>2, <3>3, <3>4
  <2>5. CASE ~(d = c /\ r = p)
    <3>1. InCall(d, r)' = InCall(d, r)
      BY <2>2, <2>3, <2>5
    <3>2. permits'[d][r] = permits[d][r]
      BY <1>1, <1>5, <2>5
    <3> QED BY <2>1, <3>1, <3>2
  <2> QED BY <2>4, <2>5
<1>8. Accounts' /\ Booked'
  BY <1>1, <1>2, <1>3, <1>4, AccountsQuiet DEF Acquire
<1>9. Located' /\ OneCaller' /\ Numbered' /\ thread' \in [Threads -> Record]
  <2>1. UNCHANGED <<warm, current, made>>
    BY DEF Acquire
  <2>2. /\ q.pc \in Occupied \cup {"ready", "start"}
        /\ q.client = thread[t].client
        /\ q.provider \in Registered
        /\ ~(q.mine > 0)
    BY <1>1, <1>2, <1>4 DEF Occupied, c
  <2> QED BY <1>1, <1>2, <1>3, <2>1, <2>2, CallMove
<1>10. TypeOK'
  BY <1>6, <1>9 DEF Inv, TypeOK, Acquire, Record, Clients
<1> QED BY <1>7, <1>8, <1>9, <1>10 DEF Inv

\* A provider's turn ends with its permit given back.
LEMMA ReleaseMove ==
  ASSUME Inv, NEW t \in Threads, NEW q \in Record, thread' = [thread EXCEPT ![t] = q],
         thread[t].pc = "calling", q.pc # "calling", Release(t)
  PROVE  PermitsConserved' /\ permits' \in [Clients -> [Providers -> Nat]]
<1> DEFINE c == thread[t].client
           p == thread[t].provider
<1>1. /\ thread \in [Threads -> Record] /\ thread[t] \in Record
      /\ c \in Clients /\ p \in Providers
      /\ Limit \in [Providers -> Nat] /\ permits \in [Clients -> [Providers -> Nat]]
  BY CallFacts
<1>2. permits' = IF Limit[p] = 0 THEN permits ELSE [permits EXCEPT ![c][p] = @ + 1]
  BY DEF Release
<1>3. \A d, r : t \in InCall(d, r) <=> d = c /\ r = p
  BY DEF InCall
<1>4. /\ thread'[t] = q
      /\ \A x \in Threads : x # t => thread'[x] = thread[x]
  BY <1>1, Replace
<1> HIDE DEF c, p
<1>5. permits' \in [Clients -> [Providers -> Nat]]
  BY <1>1, <1>2
<1>6. PermitsConserved'
  <2> SUFFICES ASSUME NEW d \in Clients, NEW r \in Providers, Limit[r] # 0
               PROVE  permits'[d][r] + Cardinality(InCall(d, r)') = Limit[r]
    BY DEF PermitsConserved
  <2>1. permits[d][r] + Cardinality(InCall(d, r)) = Limit[r]
    BY DEF Inv, PermitsConserved
  <2>2. InCall(d, r) \in SUBSET Threads
    BY DEF InCall
  <2>3. Cardinality(InCall(d, r)) \in Nat
    BY <2>2, ThreadSets
  <2>4. permits[d][r] \in Nat /\ Limit[r] \in Nat
    BY <1>1
  <2>7. InCall(d, r)' = InCall(d, r) \ {t}
    BY <1>4 DEF InCall
  <2>5. CASE d = c /\ r = p
    <3>1. Cardinality(InCall(d, r) \ {t}) = Cardinality(InCall(d, r)) - 1
      BY <1>3, <2>2, <2>5, ThreadSets
    <3>2. permits'[d][r] = permits[d][r] + 1
      BY <1>1, <1>2, <2>5
    <3> QED BY <2>1, <2>3, <2>4, <2>7, <3>1, <3>2
  <2>6. CASE ~(d = c /\ r = p)
    <3>1. InCall(d, r)' = InCall(d, r)
      BY <1>3, <2>6, <2>7
    <3>2. permits'[d][r] = permits[d][r]
      BY <1>1, <1>2, <2>6
    <3> QED BY <2>1, <3>1, <3>2
  <2> QED BY <2>5, <2>6
<1> QED BY <1>5, <1>6

LEMMA FailInv == ASSUME Inv, NEW t \in Threads, Fail(t) PROVE Inv'
<1> DEFINE p == thread[t].provider
           fb == IF thread[t].failed = Nobody THEN FallbackOf(p) ELSE Nobody
           q == IF fb = Nobody THEN [thread[t] EXCEPT !.pc = "raised"]
                ELSE [thread[t] EXCEPT !.pc = "waiting", !.provider = fb, !.failed = p]
<1>1. /\ thread \in [Threads -> Record] /\ thread[t] \in Record /\ thread[t].pc = "calling"
      /\ p \in Registered
  BY CallFacts DEF Fail
<1>2. thread' = [thread EXCEPT ![t] = q]
  BY <1>1 DEF Fail
<1>3. fb = Nobody \/ fb \in Registered
  BY Routes
<1> HIDE DEF fb
<1>4. /\ q \in Record /\ q.pc \in {"raised", "waiting"} /\ q.client = thread[t].client
      /\ q.mine = thread[t].mine
      /\ q.pc = "waiting" => q.provider \in Registered
  <2>1. CASE fb = Nobody
    BY <1>1, <2>1 DEF Record, Pcs
  <2>2. CASE fb # Nobody
    BY <1>1, <1>3, <2>2 DEF Record, Pcs
  <2> QED BY <2>1, <2>2
<1>5. q.mine = 0
  BY <1>1, <1>4 DEF Inv, Located, Record
<1> HIDE DEF q
<1>6. PermitsConserved' /\ permits' \in [Clients -> [Providers -> Nat]]
  BY <1>1, <1>2, <1>4, ReleaseMove DEF Fail
<1>7. Accounts' /\ Booked'
  BY <1>1, <1>2, <1>4, <1>5, AccountsQuiet DEF Fail
<1>8. Located' /\ OneCaller' /\ Numbered' /\ thread' \in [Threads -> Record]
  <2>1. UNCHANGED <<warm, current, made>>
    BY DEF Fail
  <2>2. /\ q.pc \in Occupied \cup {"ready", "start"}
        /\ q.pc \in {"waiting", "calling", "tracking"} => q.provider \in Registered
        /\ ~(q.mine > 0)
    BY <1>4, <1>5 DEF Occupied
  <2> QED BY <1>1, <1>2, <1>4, <2>1, <2>2, CallMove
<1>9. TypeOK'
  BY <1>6, <1>8 DEF Inv, TypeOK, Fail, Record, Clients
<1> QED BY <1>6, <1>7, <1>8, <1>9 DEF Inv

LEMMA TrackInv == ASSUME Inv, NEW t \in Threads, Track(t) PROVE Inv'
<1> DEFINE c == thread[t].client
           p == thread[t].provider
           q0 == [thread[t] EXCEPT !.pc = AfterCall]
           q1 == [q0 EXCEPT !.mine = 0]
           q == [q1 EXCEPT !.told = FALSE]
<1>1. /\ thread \in [Threads -> Record] /\ thread[t] \in Record /\ thread[t].pc = "tracking"
      /\ c \in Clients /\ p \in Registered /\ p \in Providers
  BY CallFacts DEF Track
<1>2. /\ q \in Record /\ q.pc \in {"ready", "start"} /\ q.client = thread[t].client
      /\ q.mine = 0
  <2>1. AfterCall \in Pcs /\ AfterCall \in {"ready", "start"}
    BY DEF AfterCall, Pcs
  <2>2. q0 \in Record /\ q0.pc = AfterCall /\ q0.client = thread[t].client
    BY <1>1, <2>1, Updates
  <2> HIDE DEF q0
  <2>3. q1 \in Record /\ q1.pc = AfterCall /\ q1.client = thread[t].client /\ q1.mine = 0
    BY <2>2, Updates
  <2> HIDE DEF q1
  <2> QED BY <2>1, <2>3, Updates
<1>3. thread' = [thread EXCEPT ![t] = q]
  BY <1>1 DEF Track
<1>4. /\ counted' = [counted EXCEPT ![c][p] = @ + 1]
      /\ counted \in [Clients -> [Providers -> Nat]]
      /\ answers \in [Clients -> [Providers -> Nat]]
  BY DEF Track, Inv, TypeOK
<1>5. \A d, r : t \in Tracking(d, r) <=> d = c /\ r = p
  BY <1>1 DEF Tracking
<1> HIDE DEF c, p, q
<1>6. counted' \in [Clients -> [Providers -> Nat]]
  BY <1>1, <1>4
<1>7. /\ thread'[t] = q
      /\ \A x \in Threads : x # t => thread'[x] = thread[x]
  BY <1>1, <1>2, <1>3, Replace
<1>8. Accounts'
  <2> SUFFICES ASSUME NEW d \in Clients, NEW r \in Providers
               PROVE  counted'[d][r] + Cardinality(Tracking(d, r)') = answers[d][r]
    BY DEF Accounts, Track
  <2>1. counted[d][r] + Cardinality(Tracking(d, r)) = answers[d][r]
    BY DEF Inv, Accounts
  <2>2. Tracking(d, r) \in SUBSET Threads
    BY DEF Tracking
  <2>3. Cardinality(Tracking(d, r)) \in Nat
    BY <2>2, ThreadSets
  <2>4. counted[d][r] \in Nat /\ answers[d][r] \in Nat
    BY <1>4
  <2>7. Tracking(d, r)' = Tracking(d, r) \ {t}
    BY <1>2, <1>7 DEF Tracking
  <2>5. CASE d = c /\ r = p
    <3>1. Cardinality(Tracking(d, r) \ {t}) = Cardinality(Tracking(d, r)) - 1
      BY <1>5, <2>2, <2>5, ThreadSets
    <3>2. counted'[d][r] = counted[d][r] + 1
      BY <1>1, <1>4, <2>5
    <3> QED BY <2>1, <2>3, <2>4, <2>7, <3>1, <3>2
  <2>6. CASE ~(d = c /\ r = p)
    <3>1. Tracking(d, r)' = Tracking(d, r)
      BY <1>5, <2>6, <2>7
    <3>2. counted'[d][r] = counted[d][r]
      BY <1>1, <1>4, <2>6
    <3> QED BY <2>1, <3>1, <3>2
  <2> QED BY <2>5, <2>6
<1>9. Booked'
  <2>1. \A x \in Threads : thread'[x].pc = "tracking" => thread'[x] = thread[x]
    BY <1>2, <1>7
  <2> QED BY <2>1 DEF Inv, Booked, Track
<1>10. PermitsConserved'
  BY <1>1, <1>2, <1>3, PermitsQuiet DEF Track
<1>11. Located' /\ OneCaller' /\ Numbered' /\ thread' \in [Threads -> Record]
  <2>1. UNCHANGED <<warm, current, made>>
    BY DEF Track
  <2>2. /\ q.pc \in Occupied \cup {"ready", "start"}
        /\ q.pc \notin {"waiting", "calling", "tracking"}
        /\ ~(q.mine > 0)
    BY <1>2 DEF Occupied
  <2> QED BY <1>1, <1>2, <1>3, <2>1, <2>2, CallMove
<1>12. TypeOK'
  BY <1>6, <1>11 DEF Inv, TypeOK, Track, Record, Clients
<1> QED BY <1>8, <1>9, <1>10, <1>11, <1>12 DEF Inv

LEMMA AnswerInv == ASSUME Inv, NEW t \in Threads, Answer(t) PROVE Inv'
<1> DEFINE c == thread[t].client
           p == thread[t].provider
           n == answers[c][p] + 1
<1>1. /\ thread \in [Threads -> Record] /\ thread[t] \in Record /\ thread[t].pc = "calling"
      /\ c \in Clients /\ p \in Registered /\ p \in Providers
      /\ ~warm => t = EventLoop
  BY CallFacts DEF Answer
<1>2. /\ usage \in [Clients -> [Providers -> Nat]]
      /\ counted \in [Clients -> [Providers -> Nat]]
      /\ answers \in [Clients -> [Providers -> Nat]]
  BY DEF Inv, TypeOK
<1>3. /\ answers' = [answers EXCEPT ![c][p] = n]
      /\ answers'[c][p] = n
      /\ n \in Nat
  BY <1>1, <1>2 DEF Answer
<1>4. PICK told \in BOOLEAN :
        /\ usage' = IF told THEN [usage EXCEPT ![c][p] = n] ELSE usage
        /\ thread' = [thread EXCEPT ![t].pc = "tracking", ![t].mine = n, ![t].told = told]
  BY <1>3 DEF Answer
<1> DEFINE q0 == [thread[t] EXCEPT !.pc = "tracking"]
           q1 == [q0 EXCEPT !.mine = n]
           q == [q1 EXCEPT !.told = told]
<1>5. /\ q \in Record /\ q.pc = "tracking" /\ q.client = c /\ q.provider = p
      /\ q.mine = n /\ q.told = told
  <2>1. "tracking" \in Pcs /\ n \in Nat
    BY <1>3 DEF Pcs
  <2>2. q0 \in Record /\ q0.pc = "tracking" /\ q0.client = c /\ q0.provider = p
    BY <1>1, <2>1, Updates
  <2> HIDE DEF q0, n
  <2>3. /\ q1 \in Record /\ q1.pc = "tracking" /\ q1.client = c /\ q1.provider = p
        /\ q1.mine = n
    BY <2>1, <2>2, Updates
  <2> HIDE DEF q1
  <2> QED BY <2>3, Updates
<1>6. thread' = [thread EXCEPT ![t] = q]
  BY <1>1, <1>4
<1> HIDE DEF q
<1>7. PermitsConserved' /\ permits' \in [Clients -> [Providers -> Nat]]
  BY <1>1, <1>5, <1>6, ReleaseMove DEF Answer
<1>8. Located' /\ OneCaller' /\ Numbered' /\ thread' \in [Threads -> Record]
  <2>1. UNCHANGED <<warm, current, made>>
    BY DEF Answer
  <2>2. /\ q.pc \in Occupied \cup {"ready", "start"}
        /\ q.client = thread[t].client /\ q.provider \in Registered
    BY <1>1, <1>5 DEF Occupied
  <2> QED BY <1>1, <1>5, <1>6, <2>1, <2>2, CallMove
<1>9. t \notin Tracking(c, p) /\ \A d, r : t \notin Tracking(d, r)
  BY <1>1 DEF Tracking
<1>10. /\ thread'[t] = q
       /\ \A x \in Threads : x # t => thread'[x] = thread[x]
  BY <1>1, <1>5, <1>6, Replace
<1>11. \A x \in Threads : thread[x].pc = "tracking" =>
         /\ thread[x].client \in Clients /\ thread[x].provider \in Providers
         /\ thread[x].mine \in Nat
         /\ x # t => warm
  <2> SUFFICES ASSUME NEW x \in Threads, thread[x].pc = "tracking"
               PROVE  /\ thread[x].client \in Clients /\ thread[x].provider \in Providers
                      /\ thread[x].mine \in Nat
                      /\ x # t => warm
    OBVIOUS
  <2>2. /\ thread[x].client \in Clients /\ thread[x].provider \in Providers
        /\ thread[x] \in Record
        /\ ~warm => x = EventLoop
    BY CallFacts
  <2> QED BY <1>1, <2>2 DEF Record
<1> HIDE DEF c, p, n
<1>12. answers' \in [Clients -> [Providers -> Nat]] /\ usage' \in [Clients -> [Providers -> Nat]]
  <2>1. CASE told
    BY <1>1, <1>2, <1>3, <1>4, <2>1
  <2>2. CASE ~told
    BY <1>1, <1>2, <1>3, <1>4, <2>2
  <2> QED BY <2>1, <2>2
<1>13. Accounts'
  <2> SUFFICES ASSUME NEW d \in Clients, NEW r \in Providers
               PROVE  counted[d][r] + Cardinality(Tracking(d, r)') = answers'[d][r]
    BY DEF Accounts, Answer
  <2>1. counted[d][r] + Cardinality(Tracking(d, r)) = answers[d][r]
    BY DEF Inv, Accounts
  <2>2. Tracking(d, r) \in SUBSET Threads
    BY DEF Tracking
  <2>3. Cardinality(Tracking(d, r)) \in Nat
    BY <2>2, ThreadSets
  <2>4. counted[d][r] \in Nat /\ answers[d][r] \in Nat
    BY <1>2
  <2>7. Tracking(d, r)' = IF c = d /\ p = r THEN Tracking(d, r) \cup {t} ELSE Tracking(d, r)
    BY <1>5, <1>9, <1>10 DEF Tracking
  <2>5. CASE d = c /\ r = p
    <3>1. Cardinality(Tracking(d, r) \cup {t}) = Cardinality(Tracking(d, r)) + 1
      BY <1>9, <2>2, ThreadSets
    <3>2. answers'[d][r] = answers[d][r] + 1
      BY <1>3, <2>5 DEF n
    <3> QED BY <2>1, <2>3, <2>4, <2>5, <2>7, <3>1, <3>2
  <2>6. CASE ~(d = c /\ r = p)
    <3>1. Tracking(d, r)' = Tracking(d, r)
      BY <2>6, <2>7
    <3>2. answers'[d][r] = answers[d][r]
      BY <1>1, <1>2, <1>3, <2>6
    <3> QED BY <2>1, <3>1, <3>2
  <2> QED BY <2>5, <2>6
<1>14. \A d \in Clients, r \in Providers :
         /\ usage'[d][r] <= answers'[d][r]
         /\ usage[d][r] <= usage'[d][r]
         /\ ~(d = c /\ r = p) => usage'[d][r] = usage[d][r]
  <2> SUFFICES ASSUME NEW d \in Clients, NEW r \in Providers
               PROVE  /\ usage'[d][r] <= answers'[d][r]
                      /\ usage[d][r] <= usage'[d][r]
                      /\ ~(d = c /\ r = p) => usage'[d][r] = usage[d][r]
    OBVIOUS
  <2>1. usage[d][r] <= answers[d][r]
    BY DEF Inv, Booked
  <2>2. usage[d][r] \in Nat /\ answers[d][r] \in Nat
    BY <1>2
  <2>3. answers'[d][r] = IF d = c /\ r = p THEN answers[d][r] + 1 ELSE answers[d][r]
    BY <1>1, <1>2, <1>3 DEF n
  <2>4. usage'[d][r] = IF told /\ d = c /\ r = p THEN answers[d][r] + 1 ELSE usage[d][r]
    <3>1. CASE told
      BY <1>1, <1>2, <1>4, <3>1 DEF n
    <3>2. CASE ~told
      BY <1>4, <3>2
    <3> QED BY <3>1, <3>2
  <2> QED BY <2>1, <2>2, <2>3, <2>4
<1>15. Booked'
  <2> SUFFICES ASSUME NEW x \in Threads, thread'[x].pc = "tracking"
               PROVE  LET cell == usage'[thread'[x].client][thread'[x].provider] IN
                      /\ cell < thread'[x].mine => ~thread'[x].told
                      /\ cell > thread'[x].mine => warm
    BY <1>14 DEF Booked, Answer
  <2>1. CASE x = t
    <3>1. usage'[c][p] <= n /\ (told => usage'[c][p] = n) /\ usage'[c][p] \in Nat
      <4>1. usage'[c][p] <= answers'[c][p]
        BY <1>1, <1>14
      <4> QED BY <1>1, <1>2, <1>3, <1>4, <1>12, <4>1
    <3> QED BY <1>3, <1>5, <1>10, <2>1, <3>1
  <2>2. CASE x # t
    <3>1. thread'[x] = thread[x] /\ thread[x].pc = "tracking"
      BY <1>10, <2>2
    <3>2. /\ thread[x].client \in Clients /\ thread[x].provider \in Providers
          /\ thread[x].mine \in Nat /\ warm
      BY <1>11, <2>2, <3>1
    <3>3. usage[thread[x].client][thread[x].provider] < thread[x].mine => ~thread[x].told
      BY <3>1 DEF Inv, Booked
    <3>4. /\ usage[thread[x].client][thread[x].provider] \in Nat
          /\ usage'[thread[x].client][thread[x].provider] \in Nat
      BY <1>2, <1>12, <3>2
    <3>5. usage[thread[x].client][thread[x].provider]
            <= usage'[thread[x].client][thread[x].provider]
      BY <1>14, <3>2
    <3> QED BY <3>1, <3>2, <3>3, <3>4, <3>5
  <2> QED BY <2>1, <2>2
<1>16. TypeOK'
  BY <1>7, <1>8, <1>12 DEF Inv, TypeOK, Answer, Record, Clients
<1> QED BY <1>7, <1>8, <1>13, <1>15, <1>16 DEF Inv

-----------------------------------------------------------------------------
LEMMA NextInv == Inv /\ [Next]_vars => Inv'
<1> SUFFICES ASSUME Inv, [Next]_vars PROVE Inv'
  OBVIOUS
<1>1. CASE Next
  <2>1. PICK t \in Threads : Step(t)
    BY <1>1 DEF Next
  <2> QED BY <2>1, GetClientInv, BuildClientInv, ReturnClientInv, BeginCallInv, AcquireInv,
             AnswerInv, TrackInv, FailInv, RecoverInv DEF Step
<1>2. CASE UNCHANGED vars
  <2>1. TypeOK' /\ Located' /\ OneCaller' /\ Booked'
    BY <1>2 DEF vars, Inv, TypeOK, Located, OneCaller, Booked
  <2>2. Building' = Building /\ \A c, p : InCall(c, p)' = InCall(c, p)
    BY <1>2 DEF vars, Building, InCall
  <2>3. \A c, p : Tracking(c, p)' = Tracking(c, p)
    BY <1>2 DEF vars, Tracking
  <2>4. Numbered' /\ PermitsConserved' /\ Accounts'
    BY <1>2, <2>2, <2>3 DEF vars, Inv, Numbered, PermitsConserved, Accounts
  <2> QED BY <2>1, <2>4 DEF Inv
<1> QED BY <1>1, <1>2

\* The inductive invariant implies what the client promises: the permits of a
\* worker's one client serialise its calls; in the API there is one caller.
LEMMA InvConsequences == Inv => Serialized /\ CallsCounted
<1> SUFFICES ASSUME Inv PROVE Serialized /\ CallsCounted
  OBVIOUS
<1>1. ASSUME NEW p \in Providers, NEW U, Limit[p] # 0,
             \A t : t \in U <=> \E c \in Clients : t \in InCall(c, p)
      PROVE  Cardinality(U) <= Limit[p]
  <2>1. Limit[p] \in Nat /\ permits \in [Clients -> [Providers -> Nat]]
    BY InferenceAssumption DEF Inv, TypeOK
  <2>2. CASE warm
    <3>1. 1 \in Clients
      BY TypeFacts DEF Inv, Clients
    <3>2. \A c \in Clients : c # 1 => InCall(c, p) = {}
      <4>1. 0 \notin Clients
        BY DEF Clients
      <4> QED BY <2>2, <4>1 DEF Inv, OneCaller, InCall
    <3>3. U = InCall(1, p)
      BY <1>1, <3>1, <3>2
    <3>4. permits[1][p] + Cardinality(InCall(1, p)) = Limit[p] /\ permits[1][p] \in Nat
      BY <1>1, <2>1, <3>1 DEF Inv, PermitsConserved
    <3>5. Cardinality(InCall(1, p)) \in Nat
      <4>1. InCall(1, p) \in SUBSET Threads /\ EventLoop \in Threads
        BY InferenceAssumption DEF InCall
      <4> QED BY <4>1, ThreadSets
    <3> QED BY <2>1, <3>3, <3>4, <3>5
  <2>3. CASE ~warm
    <3>1. U \subseteq {EventLoop}
      BY <1>1, <2>3 DEF Inv, OneCaller, InCall, Occupied
    <3>2. IsFiniteSet({EventLoop}) /\ Cardinality({EventLoop}) = 1
      BY FS_Singleton
    <3>3. IsFiniteSet(U) /\ Cardinality(U) <= Cardinality({EventLoop})
      BY <3>1, <3>2, FS_Subset
    <3>4. Cardinality(U) \in Nat
      BY <3>3, FS_CardinalityType
    <3> QED BY <1>1, <2>1, <3>2, <3>3, <3>4
  <2> QED BY <2>2, <2>3
<1>2. Serialized
  <2> SUFFICES ASSUME NEW p \in Providers, Limit[p] # 0
               PROVE  Cardinality(UNION {InCall(c, p) : c \in Clients}) <= Limit[p]
    BY DEF Serialized
  <2>1. \A t : t \in UNION {InCall(c, p) : c \in Clients}
                <=> \E c \in Clients : t \in InCall(c, p)
    OBVIOUS
  <2> QED BY <1>1, <2>1
<1>3. CallsCounted
  BY DEF Inv, Booked, Accounts, Tracking, CallsCounted
<1> QED BY <1>2, <1>3

LEMMA SpecInv == Spec => []Inv
<1> QED BY InitInv, NextInv, PTL DEF Spec

\* Every variable keeps its type: no counter of permits becomes negative, and no
\* race to construct a client makes more clients than there are threads and one
\* (llm/client.py, openai_provider.py).
THEOREM InferenceTypeCorrect == Spec => []TypeOK
<1>1. Inv => TypeOK
  BY DEF Inv
<1> QED BY SpecInv, <1>1, PTL

\* However calls fail and fall back, free permits and calls in flight add up to
\* each provider's limit (_acquire and _release of openai_provider.py).
THEOREM PermitsHeld == Spec => []PermitsConserved
<1>1. Inv => PermitsConserved
  BY DEF Inv
<1> QED BY SpecInv, <1>1, PTL

\* A provider's limit holds for the whole process: threads that race to build a
\* client do not call models, and those that do share one (llm/client.py).
THEOREM SerializedHeld == Spec => []Serialized
<1> QED BY SpecInv, InvConsequences, PTL

\* Each answered call is booked once, for the provider that answered. Tokens of an
\* earlier call are booked with it only when its answer came without its usage,
\* and tokens of a later call only in a worker (_track of inference_client.py).
THEOREM CallsCountedHeld == Spec => []CallsCounted
<1> QED BY SpecInv, InvConsequences, PTL
=============================================================================
