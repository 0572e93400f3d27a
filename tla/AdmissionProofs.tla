-------------------------- MODULE AdmissionProofs --------------------------
(* Safety of the quota and of admission, for any number of requests, keys,  *)
(* flights and faults, any limits and windows, and any horizon of the clock. *)
EXTENDS Admission, FiniteSetTheorems, FunctionTheorems, TLAPS

\* Two windows after the beginning of the window of a slot.
Deadline(s) == s[3] * Window[s[2]] + 2 * Window[s[2]]

\* A handler read the clock no later than now, and counts in time.
InTime ==
    \A r \in Requests :
        /\ request[r].read <= now
        /\ request[r].pc = "incr" => now <= request[r].read + MaxStall

\* What a handler knows at each point.
Known ==
    \A r \in Requests :
        /\ request[r].pc \in {"new", "incr"} => request[r].got = 0 /\ request[r].by = "nobody"
        /\ request[r].pc = "expire" => request[r].got = 1 /\ request[r].by = "nobody"
        /\ request[r].by = "quota" => request[r].got \in 1..Limit[request[r].action]

\* Until the deadline the counter is there and has counted everybody.
Remembered ==
    \A r \in Requests :
        request[r].got > 0 /\ now < Deadline(Slot(r)) => request[r].got <= count[Slot(r)]

\* No two requests of a slot got the same number.
Distinct ==
    \A r, q \in Requests :
        r # q /\ request[r].got > 0 /\ Slot(r) = Slot(q) => request[r].got # request[q].got

\* Redis drops a counter after the deadline only.
TtlSafe ==
    \A s \in Slots : expires[s] # Never => expires[s] >= Deadline(s) /\ expires[s] > now

Counting == InTime /\ Known /\ Remembered /\ Distinct /\ TtlSafe

-----------------------------------------------------------------------------
\* Facts about windows.
LEMMA DivBounds ==
  ASSUME NEW t \in Nat, NEW w \in Nat \ {0}
  PROVE  /\ t \div w \in Nat
         /\ t \div w <= t
         /\ (t \div w) * w <= t
         /\ t < (t \div w) * w + w
<1>1. /\ t \div w \in Nat
      /\ (t \div w) * w <= t
      /\ t < (t \div w) * w + w
  BY SMT
<1>2. ASSUME NEW q \in Nat PROVE q <= q * w
  BY SMT
<1> QED BY <1>1, <1>2

LEMMA SlotFacts ==
  ASSUME TypeOK, NEW r \in Requests
  PROVE  /\ Slot(r) \in Slots
         /\ Window[request[r].action] \in Nat \ {0}
         /\ Slot(r)[2] = request[r].action
         /\ Deadline(Slot(r)) \in Nat
         /\ request[r].read + Window[request[r].action] < Deadline(Slot(r))
         /\ Deadline(Slot(r)) <= request[r].read + 2 * Window[request[r].action]
<1> DEFINE w == Window[request[r].action]
           t == request[r].read
<1>0. request[r] \in Request
  BY DEF TypeOK
<1>1. /\ request[r].action \in Actions /\ request[r].key \in Payers /\ t \in 0..MaxTime
      /\ w \in Nat \ {0} /\ MaxTime \in Nat
  BY <1>0, AdmissionAssumption DEF Request
<1>2. /\ t \div w \in Nat /\ t \div w <= t
      /\ (t \div w) * w <= t /\ t < (t \div w) * w + w
  <2>1. t \in Nat /\ w \in Nat \ {0}
    BY <1>1
  <2> HIDE DEF t, w
  <2> QED BY <2>1, DivBounds, Zenon
<1>3. Slot(r) \in Slots /\ Slot(r)[2] = request[r].action /\ Slot(r)[3] = t \div w
  BY <1>1, <1>2 DEF Slot, Slots
<1>4. (t \div w) * w \in Nat
  BY <1>1, <1>2
<1> QED BY <1>1, <1>2, <1>3, <1>4 DEF Deadline

-----------------------------------------------------------------------------
\* What replacing the record of one request does.
LEMMA ReplaceFacts ==
  ASSUME TypeOK, NEW r \in Requests, NEW q \in Request,
         request' = [request EXCEPT ![r] = q]
  PROVE  /\ request' \in [Requests -> Request]
         /\ request'[r] = q
         /\ \A x \in Requests : x # r => request'[x] = request[x] /\ Slot(x)' = Slot(x)
         /\ q.key = request[r].key /\ q.action = request[r].action /\ q.read = request[r].read
               => \A x \in Requests : Slot(x)' = Slot(x)
<1>1. request \in [Requests -> Request]
  BY DEF TypeOK
<1>2. /\ request' \in [Requests -> Request]
      /\ request'[r] = q
      /\ \A x \in Requests : x # r => request'[x] = request[x]
  BY <1>1
<1> QED BY <1>2 DEF Slot

\* The records that the steps write.
LEMMA RecordFacts ==
  ASSUME NEW q \in Request
  PROVE  /\ \A pc \in {"new", "lost"} \cup Running \cup Answered :
               LET x == [q EXCEPT !.pc = pc] IN
               /\ x \in Request /\ x.pc = pc
               /\ x.key = q.key /\ x.action = q.action /\ x.read = q.read
               /\ x.got = q.got /\ x.by = q.by /\ x.flight = q.flight
         /\ LET x == FailedOpen(q) IN
               /\ x \in Request /\ x.pc = "admitted" /\ x.by = "failure"
               /\ x.key = q.key /\ x.action = q.action /\ x.read = q.read
               /\ x.got = q.got /\ x.flight = q.flight
         /\ \A n \in Nat : LET x == Judged(q, n) IN
               /\ x \in Request
               /\ x.pc \in {"too_many", "admitted"}
               /\ x.by = q.by \/ (x.by = "quota" /\ n <= Limit[q.action])
               /\ x.pc = "admitted" => x.by = "quota"
               /\ x.key = q.key /\ x.action = q.action /\ x.read = q.read
               /\ x.got = q.got /\ x.flight = q.flight
         /\ \A n \in Nat : LET x == [q EXCEPT !.got = n] IN
               /\ x \in Request /\ x.got = n /\ x.pc = q.pc /\ x.by = q.by
               /\ x.key = q.key /\ x.action = q.action /\ x.read = q.read
               /\ x.flight = q.flight
<1>1. \A pc \in {"new", "lost"} \cup Running \cup Answered :
        LET x == [q EXCEPT !.pc = pc] IN
        /\ x \in Request /\ x.pc = pc
        /\ x.key = q.key /\ x.action = q.action /\ x.read = q.read
        /\ x.got = q.got /\ x.by = q.by /\ x.flight = q.flight
  BY DEF Request
<1>2. LET x == FailedOpen(q) IN
        /\ x \in Request /\ x.pc = "admitted" /\ x.by = "failure"
        /\ x.key = q.key /\ x.action = q.action /\ x.read = q.read
        /\ x.got = q.got /\ x.flight = q.flight
  BY DEF Request, FailedOpen, Running
<1>3. ASSUME NEW n \in Nat
      PROVE  LET x == Judged(q, n) IN
               /\ x \in Request
               /\ x.pc \in {"too_many", "admitted"}
               /\ x.by = q.by \/ (x.by = "quota" /\ n <= Limit[q.action])
               /\ x.pc = "admitted" => x.by = "quota"
               /\ x.key = q.key /\ x.action = q.action /\ x.read = q.read
               /\ x.got = q.got /\ x.flight = q.flight
  <2>1. Limit[q.action] \in Nat
    BY AdmissionAssumption DEF Request
  <2>2. CASE n > Limit[q.action]
    <3>1. Judged(q, n) = [q EXCEPT !.pc = "too_many"]
      BY <2>2 DEF Judged
    <3>2. /\ Judged(q, n) \in Request
          /\ Judged(q, n).pc = "too_many" /\ Judged(q, n).by = q.by
          /\ Judged(q, n).key = q.key /\ Judged(q, n).action = q.action
          /\ Judged(q, n).read = q.read
          /\ Judged(q, n).got = q.got /\ Judged(q, n).flight = q.flight
      BY <3>1 DEF Request, Answered
    <3> QED BY <3>2
  <2>3. CASE ~(n > Limit[q.action])
    <3>1. Judged(q, n) = [q EXCEPT !.pc = "admitted", !.by = "quota"]
      BY <2>3 DEF Judged
    <3>2. n <= Limit[q.action]
      BY <2>1, <2>3
    <3>3. /\ Judged(q, n) \in Request
          /\ Judged(q, n).pc = "admitted" /\ Judged(q, n).by = "quota"
          /\ Judged(q, n).key = q.key /\ Judged(q, n).action = q.action
          /\ Judged(q, n).read = q.read
          /\ Judged(q, n).got = q.got /\ Judged(q, n).flight = q.flight
      BY <3>1 DEF Request, Running
    <3> QED BY <3>2, <3>3
  <2> QED BY <2>2, <2>3
<1>4. \A n \in Nat : LET x == [q EXCEPT !.got = n] IN
        /\ x \in Request /\ x.got = n /\ x.pc = q.pc /\ x.by = q.by
        /\ x.key = q.key /\ x.action = q.action /\ x.read = q.read
        /\ x.flight = q.flight
  BY DEF Request
<1> QED BY <1>1, <1>2, <1>3, <1>4

\* The counters only grow.
Grown == count' \in [Slots -> Nat] /\ \A s \in Slots : count'[s] >= count[s]

LEMMA SameGrown == ASSUME TypeOK, count' = count PROVE Grown
  BY DEF TypeOK, Grown

\* A step that does not touch the clock and gets no number from a counter.
LEMMA QuietStep ==
  ASSUME TypeOK, Counting, NEW r \in Requests, NEW q \in Request,
         request' = [request EXCEPT ![r] = q],
         q.key = request[r].key, q.action = request[r].action, q.read = request[r].read,
         q.got = request[r].got, q.pc \notin {"new", "incr", "expire"},
         q.by = "quota" => q.got \in 1..Limit[q.action],
         now' = now, Grown
  PROVE  InTime' /\ Known' /\ Remembered' /\ Distinct'
<1>1. /\ request'[r] = q
      /\ \A x \in Requests : x # r => request'[x] = request[x]
      /\ \A x \in Requests : Slot(x)' = Slot(x)
  BY ReplaceFacts
<1>2. \A x \in Requests : Deadline(Slot(x))' = Deadline(Slot(x))
  BY <1>1 DEF Deadline
<1>3. InTime'
  BY <1>1 DEF Counting, InTime
<1>4. Known'
  BY <1>1 DEF Counting, Known
<1>5. ASSUME NEW x \in Requests, request'[x].got > 0, now' < Deadline(Slot(x))'
      PROVE  request'[x].got <= count'[Slot(x)']
  <2>1. request'[x].got = request[x].got /\ Slot(x)' = Slot(x) /\ now < Deadline(Slot(x))
    BY <1>1, <1>2, <1>5
  <2>2. request[x].got <= count[Slot(x)]
    BY <1>5, <2>1 DEF Counting, Remembered
  <2>3. /\ Slot(x) \in Slots /\ request[x] \in Request
        /\ count[Slot(x)] \in Nat /\ count'[Slot(x)] \in Nat
        /\ count'[Slot(x)] >= count[Slot(x)]
    BY SlotFacts DEF Grown, TypeOK
  <2>4. request[x].got \in Nat
    BY <2>3 DEF Request
  <2> QED BY <2>1, <2>2, <2>3, <2>4
<1>6. Remembered'
  BY <1>5 DEF Remembered
<1>7. Distinct'
  BY <1>1 DEF Counting, Distinct
<1> QED BY <1>3, <1>4, <1>6, <1>7

-----------------------------------------------------------------------------
IInv == TypeOK /\ Counting

LEMMA InitIInv == Init => IInv
<1> SUFFICES ASSUME Init PROVE IInv
  OBVIOUS
<1>1. [pc |-> "new", key |-> Anonymous, action |-> "uploads", flight |-> NoFlight,
       read |-> 0, got |-> 0, by |-> "nobody"] \in Request
  BY AdmissionAssumption DEF Request, Payers, Actions
<1>2. TypeOK
  BY <1>1, AdmissionAssumption DEF Init, TypeOK, StatusValues
<1>3. InTime /\ Known /\ Remembered /\ Distinct
  BY AdmissionAssumption DEF Init, InTime, Known, Remembered, Distinct
<1>4. TtlSafe
  BY DEF Init, TtlSafe
<1> QED BY <1>2, <1>3, <1>4 DEF IInv, Counting

\* A handler that goes on, or answers, without counting.
LEMMA QuietGoto ==
  ASSUME IInv, NEW r \in Requests,
         NEW pc \in {"lost", "create", "enqueue"} \cup Answered, Goto(r, pc),
         now' = now, count' = count
  PROVE  /\ request' \in [Requests -> Request]
         /\ InTime' /\ Known' /\ Remembered' /\ Distinct'
<1> DEFINE q == [request[r] EXCEPT !.pc = pc]
<1>1. request[r] \in Request /\ request' = [request EXCEPT ![r] = q]
  BY DEF IInv, TypeOK, Goto
<1>2. pc \in {"new", "lost"} \cup Running \cup Answered /\ pc \notin {"new", "incr", "expire"}
  BY DEF Running, Answered
<1>3. /\ q \in Request /\ q.pc = pc
      /\ q.key = request[r].key /\ q.action = request[r].action /\ q.read = request[r].read
      /\ q.got = request[r].got /\ q.by = request[r].by
  BY <1>1, <1>2, RecordFacts
<1>4. q.by = "quota" => q.got \in 1..Limit[q.action]
  BY <1>3 DEF IInv, Counting, Known
<1> HIDE DEF q
<1>5. request' \in [Requests -> Request]
  BY <1>1, <1>3, ReplaceFacts DEF IInv
<1>6. InTime' /\ Known' /\ Remembered' /\ Distinct'
  BY <1>1, <1>2, <1>3, <1>4, QuietStep, SameGrown DEF IInv
<1> QED BY <1>5, <1>6

LEMMA ForbidInv == ASSUME IInv, NEW r \in Requests, NEW c \in Clients, Forbid(r, c) PROVE IInv'
<1>1. /\ request' \in [Requests -> Request]
      /\ InTime' /\ Known' /\ Remembered' /\ Distinct'
  BY QuietGoto DEF Forbid, Answered, redisVars
<1>2. TypeOK'
  BY <1>1 DEF IInv, TypeOK, Forbid, redisVars, flightVars
<1>3. TtlSafe'
  BY DEF IInv, Counting, TtlSafe, Forbid, redisVars, Deadline
<1> QED BY <1>1, <1>2, <1>3 DEF IInv, Counting

LEMMA UploadInv == ASSUME IInv, NEW r \in Requests, Upload(r) PROVE IInv'
<1>1. /\ request' \in [Requests -> Request]
      /\ InTime' /\ Known' /\ Remembered' /\ Distinct'
  BY QuietGoto DEF Upload, Answered, redisVars
<1>2. status' \in [Flights -> StatusValues]
  BY DEF IInv, TypeOK, Upload, StatusValues
<1>3. TypeOK'
  BY <1>1, <1>2 DEF IInv, TypeOK, Upload, redisVars
<1>4. TtlSafe'
  BY DEF IInv, Counting, TtlSafe, Upload, redisVars, Deadline
<1> QED BY <1>1, <1>3, <1>4 DEF IInv, Counting

LEMMA LookupInv == ASSUME IInv, NEW r \in Requests, Lookup(r) PROVE IInv'
<1>1. PICK pc \in {"not_found", "conflict", "create"} : Goto(r, pc)
  BY DEF Lookup
<1>2. /\ request' \in [Requests -> Request]
      /\ InTime' /\ Known' /\ Remembered' /\ Distinct'
  BY <1>1, QuietGoto DEF Lookup, Answered, redisVars
<1>3. TypeOK'
  BY <1>2 DEF IInv, TypeOK, Lookup, redisVars, flightVars
<1>4. TtlSafe'
  BY DEF IInv, Counting, TtlSafe, Lookup, redisVars, Deadline
<1> QED BY <1>2, <1>3, <1>4 DEF IInv, Counting

LEMMA CreateInv == ASSUME IInv, NEW r \in Requests, Create(r) PROVE IInv'
<1>1. /\ request' \in [Requests -> Request]
      /\ InTime' /\ Known' /\ Remembered' /\ Distinct'
  BY QuietGoto DEF Create, redisVars
<1>2. TypeOK'
  BY <1>1 DEF IInv, TypeOK, Create, redisVars
<1>3. TtlSafe'
  BY DEF IInv, Counting, TtlSafe, Create, redisVars, Deadline
<1> QED BY <1>1, <1>2, <1>3 DEF IInv, Counting

LEMMA EnqueueInv == ASSUME IInv, NEW r \in Requests, Enqueue(r) PROVE IInv'
<1>1. /\ request' \in [Requests -> Request]
      /\ InTime' /\ Known' /\ Remembered' /\ Distinct'
  BY QuietGoto DEF Enqueue, Answered, redisVars
<1>2. TypeOK'
  BY <1>1 DEF IInv, TypeOK, Enqueue, redisVars
<1>3. TtlSafe'
  BY DEF IInv, Counting, TtlSafe, Enqueue, redisVars, Deadline
<1> QED BY <1>1, <1>2, <1>3 DEF IInv, Counting

LEMMA FaultFacts == ASSUME TypeOK, Fault PROVE faults' \in 0..MaxFaults
  BY AdmissionAssumption DEF TypeOK, Fault

LEMMA StopInv == ASSUME IInv, NEW r \in Requests, Stop(r) PROVE IInv'
<1>1. /\ request' \in [Requests -> Request]
      /\ InTime' /\ Known' /\ Remembered' /\ Distinct'
  BY QuietGoto DEF Stop
<1>2. orphaned' \in SUBSET Slots
  BY SlotFacts DEF IInv, TypeOK, Stop
<1>3. TypeOK'
  BY <1>1, <1>2, FaultFacts DEF IInv, TypeOK, Stop, flightVars
<1>4. TtlSafe'
  BY DEF IInv, Counting, TtlSafe, Stop, Deadline
<1> QED BY <1>1, <1>3, <1>4 DEF IInv, Counting

\* Passing because a call to Redis raised.
LEMMA QuietFailOpen ==
  ASSUME IInv, NEW r \in Requests, request' = [request EXCEPT ![r] = FailedOpen(@)],
         now' = now, Grown
  PROVE  /\ request' \in [Requests -> Request]
         /\ InTime' /\ Known' /\ Remembered' /\ Distinct'
<1> DEFINE q == FailedOpen(request[r])
<1>1. request[r] \in Request /\ request' = [request EXCEPT ![r] = q]
  BY DEF IInv, TypeOK
<1>2. /\ q \in Request /\ q.pc = "admitted" /\ q.by = "failure"
      /\ q.key = request[r].key /\ q.action = request[r].action /\ q.read = request[r].read
      /\ q.got = request[r].got
  BY <1>1, RecordFacts
<1> HIDE DEF q
<1>3. request' \in [Requests -> Request]
  BY <1>1, <1>2, ReplaceFacts DEF IInv
<1>4. InTime' /\ Known' /\ Remembered' /\ Distinct'
  BY <1>1, <1>2, QuietStep DEF IInv
<1> QED BY <1>3, <1>4

LEMMA RedisFailsInv == ASSUME IInv, NEW r \in Requests, RedisFails(r) PROVE IInv'
<1>1. /\ request' \in [Requests -> Request]
      /\ InTime' /\ Known' /\ Remembered' /\ Distinct'
  BY QuietFailOpen, SameGrown DEF IInv, RedisFails
<1>2. orphaned' \in SUBSET Slots
  BY SlotFacts DEF IInv, TypeOK, RedisFails
<1>3. TypeOK'
  BY <1>1, <1>2, FaultFacts DEF IInv, TypeOK, RedisFails, flightVars
<1>4. TtlSafe'
  BY DEF IInv, Counting, TtlSafe, RedisFails, Deadline
<1> QED BY <1>1, <1>3, <1>4 DEF IInv, Counting

\* The handler of a slot gives its counter a time to live that ends no earlier
\* than two windows after the beginning of the slot's window.
LEMMA ExpiryFacts ==
  ASSUME IInv, NEW r \in Requests, expires' = WithExpiry(Slot(r)), now' = now
  PROVE  expires' \in [Slots -> Nat \cup {Never}] /\ TtlSafe'
<1> DEFINE s == Slot(r)
           w == Window[request[r].action]
<1>1. /\ s \in Slots /\ w \in Nat \ {0} /\ s[2] = request[r].action
      /\ Deadline(s) \in Nat /\ Deadline(s) <= request[r].read + 2 * w
  BY SlotFacts DEF IInv
<1>2. /\ now \in Nat /\ request[r].read \in Nat /\ request[r].read <= now
      /\ expires \in [Slots -> Nat \cup {Never}]
  <2>1. request[r] \in Request /\ now \in 0..MaxTime /\ MaxTime \in Nat
    BY AdmissionAssumption DEF IInv, TypeOK
  <2>2. request[r].read \in Nat
    BY <2>1 DEF Request
  <2> QED BY <2>1, <2>2 DEF IInv, Counting, InTime, TypeOK
<1>3. now + TimeToLive(s) \in Nat /\ now + TimeToLive(s) >= Deadline(s)
      /\ now + TimeToLive(s) > now
  BY <1>1, <1>2 DEF TimeToLive
<1>4. expires' = [expires EXCEPT ![s] = IF count[s] > 0 THEN now + TimeToLive(s) ELSE @]
  BY DEF WithExpiry
<1> HIDE DEF s, w
<1>5. expires' \in [Slots -> Nat \cup {Never}]
  BY <1>1, <1>2, <1>3, <1>4
<1>6. \A x \in Slots : expires'[x] = expires[x] \/ (x = s /\ expires'[x] = now + TimeToLive(s))
  BY <1>1, <1>2, <1>4
<1>7. \A x \in Slots : Deadline(x)' = Deadline(x)
  BY DEF Deadline
<1>8. TtlSafe'
  BY <1>3, <1>6, <1>7 DEF IInv, Counting, TtlSafe
<1> QED BY <1>5, <1>8

LEMMA ExpireInv == ASSUME IInv, NEW r \in Requests, Expire(r) PROVE IInv'
<1> DEFINE q == Judged(request[r], request[r].got)
<1>1. request[r] \in Request /\ request' = [request EXCEPT ![r] = q] /\ request[r].got = 1
  BY DEF IInv, TypeOK, Counting, Known, Expire
<1>2. /\ q \in Request /\ q.pc \in {"too_many", "admitted"}
      /\ q.by = request[r].by \/ (q.by = "quota" /\ 1 <= Limit[q.action])
      /\ q.key = request[r].key /\ q.action = request[r].action /\ q.read = request[r].read
      /\ q.got = request[r].got
  BY <1>1, RecordFacts
<1>3. request[r].by = "nobody" /\ Limit[q.action] \in Nat
  BY <1>1, <1>2, AdmissionAssumption DEF IInv, Counting, Known, Expire, Request
<1> HIDE DEF q
<1>4. q.by = "quota" => q.got \in 1..Limit[q.action]
  BY <1>1, <1>2, <1>3
<1>5. InTime' /\ Known' /\ Remembered' /\ Distinct'
  BY <1>1, <1>2, <1>4, QuietStep, SameGrown DEF IInv, Expire
<1>6. request' \in [Requests -> Request]
  BY <1>1, <1>2, ReplaceFacts DEF IInv
<1>7. expires' \in [Slots -> Nat \cup {Never}] /\ TtlSafe'
  BY ExpiryFacts DEF Expire
<1>8. TypeOK'
  BY <1>6, <1>7 DEF IInv, TypeOK, Expire, flightVars
<1> QED BY <1>5, <1>7, <1>8 DEF IInv, Counting

LEMMA CountedFacts ==
  ASSUME TypeOK, NEW r \in Requests, Counted(Slot(r))
  PROVE  /\ Grown
         /\ count[Slot(r)] \in Nat
         /\ count'[Slot(r)] = count[Slot(r)] + 1
  BY SlotFacts DEF TypeOK, Counted, Grown

LEMMA AnswerLostInv == ASSUME IInv, NEW r \in Requests, AnswerLost(r) PROVE IInv'
<1> USE DEF IInv
<1>1. Slot(r) \in Slots /\ faults' \in 0..MaxFaults
  BY SlotFacts, FaultFacts DEF AnswerLost
<1>2. CASE /\ Counted(Slot(r))
           /\ orphaned' = IF count[Slot(r)] = 0 THEN orphaned \cup {Slot(r)} ELSE orphaned
           /\ request' \in {request, [request EXCEPT ![r] = FailedOpen(@)]}
           /\ UNCHANGED expires
  <2>1. Grown /\ now' = now
    BY <1>2, CountedFacts DEF AnswerLost
  <2>2. request' \in [Requests -> Request] /\ InTime' /\ Known' /\ Remembered' /\ Distinct'
    <3>1. CASE request' = request
      <4>1. [request EXCEPT ![r] = request[r]] = request /\ request[r] \in Request
        BY DEF TypeOK
      <4>2. InTime' /\ Known' /\ Distinct'
        BY <2>1, <3>1 DEF Counting, InTime, Known, Distinct, Slot
      <4>3. ASSUME NEW x \in Requests, request'[x].got > 0, now' < Deadline(Slot(x))'
            PROVE  request'[x].got <= count'[Slot(x)']
        <5>1. /\ request'[x].got = request[x].got /\ Slot(x)' = Slot(x)
              /\ now < Deadline(Slot(x))
          BY <2>1, <3>1, <4>3 DEF Slot, Deadline
        <5>2. request[x].got <= count[Slot(x)]
          BY <4>3, <5>1 DEF Counting, Remembered
        <5>3. /\ Slot(x) \in Slots /\ request[x] \in Request
              /\ count[Slot(x)] \in Nat /\ count'[Slot(x)] \in Nat
              /\ count'[Slot(x)] >= count[Slot(x)]
          BY <2>1, SlotFacts DEF Grown, TypeOK
        <5>4. request[x].got \in Nat
          BY <5>3 DEF Request
        <5> QED BY <5>1, <5>2, <5>3, <5>4
      <4>4. Remembered'
        BY <4>3 DEF Remembered
      <4> QED BY <3>1, <4>2, <4>4 DEF TypeOK
    <3>2. CASE request' = [request EXCEPT ![r] = FailedOpen(@)]
      BY <2>1, <3>2, QuietFailOpen
    <3> QED BY <1>2, <3>1, <3>2
  <2>3. orphaned' \in SUBSET Slots
    BY <1>1, <1>2 DEF TypeOK
  <2>4. TypeOK'
    BY <1>1, <1>2, <2>1, <2>2, <2>3 DEF TypeOK, AnswerLost, Grown, flightVars
  <2>5. TtlSafe'
    BY <1>2 DEF Counting, TtlSafe, AnswerLost, Deadline
  <2> QED BY <2>2, <2>4, <2>5 DEF Counting
<1>3. CASE /\ expires' = WithExpiry(Slot(r))
           /\ request' = [request EXCEPT ![r] = FailedOpen(@)]
           /\ UNCHANGED <<count, orphaned>>
  <2>1. /\ request' \in [Requests -> Request]
        /\ InTime' /\ Known' /\ Remembered' /\ Distinct'
    BY <1>3, QuietFailOpen, SameGrown DEF AnswerLost
  <2>2. expires' \in [Slots -> Nat \cup {Never}] /\ TtlSafe'
    BY <1>3, ExpiryFacts DEF AnswerLost
  <2>3. TypeOK'
    BY <1>1, <1>3, <2>1, <2>2 DEF TypeOK, AnswerLost, flightVars
  <2> QED BY <2>1, <2>2, <2>3 DEF Counting
<1> QED BY <1>2, <1>3 DEF AnswerLost

\* The number a request gets is larger than all those of its slot: it counts
\* before the deadline, so that the counter has not been dropped.
LEMMA IncrInv == ASSUME IInv, NEW r \in Requests, Incr(r) PROVE IInv'
<1> USE DEF IInv
<1> DEFINE s == Slot(r)
           n == count[s] + 1
           w == Window[request[r].action]
           p == [request[r] EXCEPT !.got = n]
           q == IF n = 1 THEN [p EXCEPT !.pc = "expire"] ELSE Judged(p, n)
<1>1. /\ request[r] \in Request /\ request[r].pc = "incr"
      /\ Grown /\ count[s] \in Nat /\ n \in Nat /\ n > 0 /\ count'[s] = n
      /\ s \in Slots
  BY CountedFacts, SlotFacts DEF TypeOK, Incr
<1>2. /\ p \in Request /\ p.got = n /\ p.by = request[r].by
      /\ p.key = request[r].key /\ p.action = request[r].action /\ p.read = request[r].read
  <2> HIDE DEF n
  <2> QED BY <1>1 DEF Request
<1>3. request[r].by = "nobody" /\ request[r].got = 0
  BY <1>1 DEF Counting, Known
<1>4. /\ q \in Request /\ q.got = n /\ q.pc \in {"expire", "too_many", "admitted"}
      /\ q.key = request[r].key /\ q.action = request[r].action /\ q.read = request[r].read
      /\ q.pc = "expire" => n = 1 /\ q.by = "nobody"
      /\ q.by = "quota" => n <= Limit[q.action]
  <2> HIDE DEF n, p
  <2>1. CASE n = 1
    <3>1. "expire" \in {"new", "lost"} \cup Running \cup Answered
      BY DEF Running
    <3> QED BY <1>2, <1>3, <2>1, <3>1, RecordFacts
  <2>2. CASE n # 1
    <3>1. q = Judged(p, n)
      BY <2>2
    <3> QED BY <1>1, <1>2, <1>3, <2>2, <3>1, RecordFacts
  <2> QED BY <2>1, <2>2
<1>5. request' = [request EXCEPT ![r] = q]
  BY <1>2 DEF Incr
<1>6. now < Deadline(s)
  <2>1. /\ now <= request[r].read + MaxStall /\ MaxStall <= w
        /\ MaxStall \in Nat /\ w \in Nat /\ request[r].read \in Nat /\ now \in Nat
    BY <1>1, AdmissionAssumption, SlotFacts DEF Counting, InTime, Request, TypeOK
  <2>2. request[r].read + w < Deadline(s) /\ Deadline(s) \in Nat
    BY SlotFacts
  <2> QED BY <2>1, <2>2
<1> HIDE DEF q, p, n, s, w
<1>7. /\ request' \in [Requests -> Request]
      /\ request'[r] = q
      /\ \A x \in Requests : x # r => request'[x] = request[x]
      /\ \A x \in Requests : Slot(x)' = Slot(x)
  BY <1>4, <1>5, ReplaceFacts
<1>8. InTime'
  BY <1>4, <1>7 DEF Counting, InTime, Incr
<1>9. Known'
  <2>1. q.by = "quota" => q.got \in 1..Limit[q.action]
    BY <1>1, <1>4, AdmissionAssumption DEF Request
  <2> QED BY <1>1, <1>4, <1>7, <2>1 DEF Counting, Known
<1>10. \A x \in Requests : request[x].got > 0 /\ Slot(x) = s => request[x].got < n
  <2> SUFFICES ASSUME NEW x \in Requests, request[x].got > 0, Slot(x) = s
               PROVE  request[x].got < n
    OBVIOUS
  <2>1. request[x].got <= count[s]
    BY <1>6 DEF Counting, Remembered
  <2>2. request[x] \in Request
    BY DEF TypeOK
  <2>3. request[x].got \in Nat
    BY <2>2 DEF Request
  <2> QED BY <1>1, <2>1, <2>3 DEF n
<1>11. Distinct'
  <2> SUFFICES ASSUME NEW x \in Requests, NEW y \in Requests, x # y, request'[x].got > 0,
                      Slot(x)' = Slot(y)'
               PROVE  request'[x].got # request'[y].got
    BY DEF Distinct
  <2>1. CASE x = r
    BY <1>1, <1>4, <1>7, <1>10, <2>1 DEF s
  <2>2. CASE y = r
    BY <1>1, <1>4, <1>7, <1>10, <2>2 DEF s
  <2>3. CASE x # r /\ y # r
    BY <1>7, <2>3 DEF Counting, Distinct
  <2> QED BY <2>1, <2>2, <2>3
<1>12. Remembered'
  <2> SUFFICES ASSUME NEW x \in Requests, request'[x].got > 0, now' < Deadline(Slot(x))'
               PROVE  request'[x].got <= count'[Slot(x)']
    BY DEF Remembered
  <2>1. Slot(x)' = Slot(x) /\ now < Deadline(Slot(x))
    BY <1>7 DEF Deadline, Incr
  <2>2. CASE x = r
    BY <1>1, <1>4, <1>7, <2>1, <2>2 DEF s
  <2>3. CASE x # r
    <3>1. request'[x] = request[x] /\ request[x].got <= count[Slot(x)]
      BY <1>7, <2>1, <2>3 DEF Counting, Remembered
    <3>2. /\ Slot(x) \in Slots /\ count[Slot(x)] \in Nat /\ count'[Slot(x)] \in Nat
          /\ count'[Slot(x)] >= count[Slot(x)] /\ request[x].got \in Nat
      BY <1>1, SlotFacts DEF Grown, TypeOK, Request
    <3> QED BY <2>1, <3>1, <3>2
  <2> QED BY <2>2, <2>3
<1>13. TtlSafe'
  BY DEF Counting, TtlSafe, Incr, Deadline
<1>14. TypeOK'
  BY <1>1, <1>7 DEF TypeOK, Incr, Grown, flightVars
<1> QED BY <1>8, <1>9, <1>11, <1>12, <1>13, <1>14 DEF Counting

\* A request that has counted nothing yet may change its slot.
LEMMA ArriveInv ==
  ASSUME IInv, NEW r \in Requests, NEW c \in Clients, NEW a \in Actions,
         NEW f \in Flights \cup {NoFlight}, Arrive(r, c, a, f)
  PROVE  IInv'
<1> USE DEF IInv
<1> DEFINE q == [request[r] EXCEPT !.pc = "incr", !.action = a, !.flight = f,
                                   !.read = now, !.key = Payer(c)]
<1>1. /\ request[r] \in Request /\ request[r].pc = "new"
      /\ request[r].got = 0 /\ request[r].by = "nobody"
  BY DEF TypeOK, Counting, Known, Arrive
<1>2. Payer(c) \in Payers
  BY AdmissionAssumption DEF Payer, Payers, Arrive, TypeOK
<1>3. now \in 0..MaxTime /\ now \in Nat /\ MaxStall \in Nat
  BY AdmissionAssumption DEF TypeOK
<1>4. /\ q \in Request /\ q.pc = "incr" /\ q.read = now
      /\ q.got = 0 /\ q.by = "nobody"
  BY <1>1, <1>2, <1>3 DEF Request, Running
<1>5. request' = [request EXCEPT ![r] = q]
  BY DEF Arrive
<1> HIDE DEF q
<1>6. /\ request' \in [Requests -> Request]
      /\ request'[r] = q
      /\ \A x \in Requests : x # r => request'[x] = request[x] /\ Slot(x)' = Slot(x)
  BY <1>4, <1>5, ReplaceFacts
<1>7. InTime'
  BY <1>3, <1>4, <1>6 DEF Counting, InTime, Arrive
<1>8. Known'
  BY <1>4, <1>6 DEF Counting, Known
<1>9. Remembered'
  <2> SUFFICES ASSUME NEW x \in Requests, request'[x].got > 0, now' < Deadline(Slot(x))'
               PROVE  request'[x].got <= count'[Slot(x)']
    BY DEF Remembered
  <2>1. x # r
    BY <1>4, <1>6
  <2>2. request'[x] = request[x] /\ Slot(x)' = Slot(x) /\ now < Deadline(Slot(x))
    BY <1>6, <2>1 DEF Deadline, Arrive
  <2> QED BY <2>2 DEF Counting, Remembered, Arrive, redisVars
<1>10. Distinct'
  <2> SUFFICES ASSUME NEW x \in Requests, NEW y \in Requests, x # y, request'[x].got > 0,
                      Slot(x)' = Slot(y)'
               PROVE  request'[x].got # request'[y].got
    BY DEF Distinct
  <2>1. x # r
    BY <1>4, <1>6
  <2>2. CASE y = r
    BY <1>4, <1>6, <2>2
  <2>3. CASE y # r
    BY <1>6, <2>1, <2>3 DEF Counting, Distinct
  <2> QED BY <2>2, <2>3
<1>11. TtlSafe'
  BY DEF Counting, TtlSafe, Arrive, redisVars, Deadline
<1>12. TypeOK'
  BY <1>6 DEF TypeOK, Arrive, redisVars, flightVars
<1> QED BY <1>7, <1>8, <1>9, <1>10, <1>11, <1>12 DEF Counting

\* A step that touches neither the requests nor the counters nor the clock.
LEMMA SameCounting ==
  ASSUME Counting, UNCHANGED <<now, count, expires, request>>
  PROVE  Counting'
  BY DEF Counting, InTime, Known, Remembered, Distinct, TtlSafe, Slot, Deadline

LEMMA ParseInv ==
  ASSUME IInv, NEW f \in Flights, Parse(f) \/ ParseAgain(f)
  PROVE  IInv'
<1>1. Counting'
  BY SameCounting DEF IInv, Parse, ParseAgain, redisVars
<1>2. status' \in [Flights -> StatusValues] /\ parsed' \in SUBSET Flights
  BY DEF IInv, TypeOK, Parse, ParseAgain, StatusValues
<1>3. faults' \in 0..MaxFaults
  BY FaultFacts DEF IInv, TypeOK, Parse, ParseAgain
<1>4. TypeOK'
  BY <1>2, <1>3 DEF IInv, TypeOK, Parse, ParseAgain, redisVars
<1> QED BY <1>1, <1>4 DEF IInv

\* Time passes: what Redis drops is beyond its deadline.
LEMMA TickInv == ASSUME IInv, Tick PROVE IInv'
<1> USE DEF IInv
<1> DEFINE gone == {s \in Slots : expires[s] = now'}
<1>1. /\ now \in Nat /\ now' = now + 1 /\ now' \in 0..MaxTime
  BY AdmissionAssumption DEF TypeOK, Tick
<1>2. /\ count' = [s \in Slots |-> IF s \in gone THEN 0 ELSE count[s]]
      /\ expires' = [s \in Slots |-> IF s \in gone THEN Never ELSE expires[s]]
      /\ request' = request
  BY DEF Tick
<1>3. TypeOK'
  BY <1>1, <1>2 DEF TypeOK, Tick, flightVars
<1>4. \A x \in Requests : Slot(x)' = Slot(x) /\ Deadline(Slot(x))' = Deadline(Slot(x))
  BY <1>2 DEF Slot, Deadline
<1>5. InTime'
  <2> SUFFICES ASSUME NEW x \in Requests
               PROVE  /\ request[x].read <= now'
                      /\ request[x].pc = "incr" => now' <= request[x].read + MaxStall
    BY <1>2 DEF InTime
  <2>1. request[x].read \in Nat /\ MaxStall \in Nat
    BY AdmissionAssumption DEF TypeOK, Request
  <2> QED BY <1>1, <2>1 DEF Counting, InTime, Tick
<1>6. Known' /\ Distinct'
  BY <1>2, <1>4 DEF Counting, Known, Distinct
<1>7. TtlSafe'
  <2> SUFFICES ASSUME NEW s \in Slots, expires'[s] # Never
               PROVE  expires'[s] >= Deadline(s) /\ expires'[s] > now'
    BY DEF TtlSafe, Deadline
  <2>1. s \notin gone /\ expires'[s] = expires[s] /\ expires[s] # now'
    BY <1>2
  <2>2. expires[s] \in Nat /\ expires[s] >= Deadline(s) /\ expires[s] > now
    BY <2>1 DEF Counting, TtlSafe, TypeOK
  <2> QED BY <1>1, <2>1, <2>2
<1>8. Remembered'
  <2> SUFFICES ASSUME NEW x \in Requests, request[x].got > 0, now' < Deadline(Slot(x))
               PROVE  request[x].got <= count'[Slot(x)]
    BY <1>2, <1>4 DEF Remembered
  <2>1. Slot(x) \in Slots /\ Deadline(Slot(x)) \in Nat
    BY SlotFacts
  <2>2. Slot(x) \notin gone
    <3> SUFFICES ASSUME expires[Slot(x)] = now' PROVE FALSE
      OBVIOUS
    <3>1. expires[Slot(x)] # Never
      BY <1>1 DEF Never
    <3>2. expires[Slot(x)] >= Deadline(Slot(x))
      BY <2>1, <3>1 DEF Counting, TtlSafe
    <3> QED BY <1>1, <2>1, <3>2
  <2>3. request[x].got <= count[Slot(x)]
    BY <1>1, <2>1 DEF Counting, Remembered
  <2> QED BY <1>2, <2>1, <2>2, <2>3
<1> QED BY <1>3, <1>5, <1>6, <1>7, <1>8 DEF Counting

LEMMA StutterInv == ASSUME IInv, UNCHANGED vars PROVE IInv'
<1>1. Counting'
  BY SameCounting DEF IInv, vars
<1>2. TypeOK'
  BY DEF IInv, TypeOK, vars
<1> QED BY <1>1, <1>2 DEF IInv

LEMMA NextIInv == IInv /\ [Next]_vars => IInv'
<1> SUFFICES ASSUME IInv, [Next]_vars PROVE IInv'
  OBVIOUS
<1>1. ASSUME NEW r \in Requests, NEW c \in Clients, Forbid(r, c) PROVE IInv'
  BY <1>1, ForbidInv
<1>2. ASSUME NEW r \in Requests, NEW c \in Clients, NEW a \in Actions,
             NEW f \in Flights \cup {NoFlight}, Arrive(r, c, a, f)
      PROVE  IInv'
  BY <1>2, ArriveInv
<1>3. ASSUME NEW r \in Requests,
             \/ Incr(r) \/ Expire(r) \/ RedisFails(r) \/ AnswerLost(r)
             \/ Upload(r) \/ Lookup(r) \/ Create(r) \/ Enqueue(r) \/ Stop(r)
      PROVE  IInv'
  BY <1>3, IncrInv, ExpireInv, RedisFailsInv, AnswerLostInv, UploadInv, LookupInv,
     CreateInv, EnqueueInv, StopInv
<1>4. ASSUME NEW f \in Flights, Parse(f) \/ ParseAgain(f) PROVE IInv'
  BY <1>4, ParseInv
<1>5. CASE Tick
  BY <1>5, TickInv
<1>6. CASE UNCHANGED vars
  BY <1>6, StutterInv
<1> QED BY <1>1, <1>2, <1>3, <1>4, <1>5, <1>6 DEF Next

\* The inductive invariant holds in every state.
THEOREM CountingInvariant == Spec => []IInv
  BY InitIInv, NextIInv, PTL DEF Spec

\* Every variable of admission keeps its type, whatever the limits, windows,
\* requests and faults.
THEOREM AdmissionTypeCorrect == Spec => []TypeOK
  BY CountingInvariant, PTL DEF IInv

-----------------------------------------------------------------------------
\* The numbers that the requests of a slot got are different ones of 1..Limit.
LEMMA PassedBound ==
  ASSUME IInv, NEW k \in Payers, NEW a \in Actions, NEW b
  PROVE  /\ IsFiniteSet(Passed(<<k, a, b>>))
         /\ Cardinality(Passed(<<k, a, b>>)) <= Limit[a]
<1> DEFINE P == Passed(<<k, a, b>>)
           g == [r \in P |-> request[r].got]
<1>1. Limit[a] \in Nat
  BY AdmissionAssumption
<1>2. ASSUME NEW r \in P
      PROVE  /\ r \in Requests /\ Slot(r) = <<k, a, b>> /\ request[r].action = a
             /\ request[r].got \in 1..Limit[a] /\ request[r].got > 0
  <2>1. r \in Requests /\ request[r].by = "quota" /\ Slot(r) = <<k, a, b>>
    BY DEF Passed
  <2>2. request[r].action = a
    BY <2>1 DEF Slot
  <2> QED BY <1>1, <2>1, <2>2 DEF IInv, Counting, Known
<1>3. g \in [P -> 1..Limit[a]]
  BY <1>2
<1>4. \A r, q \in P : g[r] = g[q] => r = q
  <2> SUFFICES ASSUME NEW r \in P, NEW q \in P, r # q PROVE request[r].got # request[q].got
    OBVIOUS
  <2> QED BY <1>2 DEF IInv, Counting, Distinct
<1>5. g \in Injection(P, 1..Limit[a])
  <2> HIDE DEF g, P
  <2> QED BY <1>3, <1>4 DEF Injection, IsInjective
<1>6. IsFiniteSet(1..Limit[a]) /\ Cardinality(1..Limit[a]) = Limit[a]
  BY <1>1, FS_Interval
<1> HIDE DEF g, P
<1>7. IsFiniteSet(P) /\ Cardinality(P) <= Cardinality(1..Limit[a])
  BY <1>5, <1>6, FS_Injection
<1> QED BY <1>6, <1>7 DEF P

\* At most Limit requests of a key, action and window pass, however many handlers
\* and processes count at once and however late each counts, as long as a handler
\* counts within one window of reading the clock.
THEOREM QuotaHeld == Spec => []QuotaBound
<1>1. IInv => QuotaBound
  <2> SUFFICES ASSUME IInv, NEW s \in Slots PROVE Cardinality(Passed(s)) <= Limit[s[2]]
    BY DEF QuotaBound
  <2>1. PICK k \in Payers, a \in Actions, b \in 0..MaxTime : s = <<k, a, b>>
    BY DEF Slots
  <2> QED BY <2>1, PassedBound
<1> QED BY <1>1, CountingInvariant, PTL

\* A span of one window touches two windows at most.
LEMMA SpanWindows ==
  ASSUME NEW t \in Nat, NEW w \in Nat \ {0}, NEW x \in t..(t + w - 1)
  PROVE  x \div w = t \div w \/ x \div w = t \div w + 1
<1> DEFINE b == t \div w
           c == x \div w
<1>1. x \in Nat /\ t <= x /\ x < t + w
  OBVIOUS
<1>2. /\ b \in Nat /\ b * w <= t /\ t < b * w + w
      /\ c \in Nat /\ c * w <= x /\ x < c * w + w
  BY <1>1, DivBounds
<1> HIDE DEF b, c
<1>3. \A i, j \in Nat : i < j => i * w + w <= j * w
  <2> SUFFICES ASSUME NEW i \in Nat, NEW j \in Nat, i < j PROVE i * w + w <= j * w
    OBVIOUS
  <2>1. PICK d \in Nat : j = i + 1 + d
    <3>1. j - i - 1 \in Nat /\ j = i + 1 + (j - i - 1)
      OBVIOUS
    <3> QED BY <3>1
  <2>2. (i + 1 + d) * w = i * w + w + d * w /\ d * w \in Nat /\ i * w \in Nat
    BY SMT
  <2> QED BY <2>1, <2>2
<1>4. b * w \in Nat /\ c * w \in Nat
  BY <1>2
<1>5. ~(c < b)
  BY <1>1, <1>2, <1>3, <1>4
<1>6. ~(b + 1 < c)
  <2> SUFFICES ASSUME b + 1 < c PROVE FALSE
    OBVIOUS
  <2>1. (b + 1) * w = b * w + w
    BY <1>2
  <2>2. b + 1 \in Nat /\ (b + 1) * w + w <= c * w
    BY <1>2, <1>3
  <2> QED BY <1>1, <1>2, <1>4, <2>1, <2>2
<1> QED BY <1>2, <1>5, <1>6 DEF b, c

\* In any span of one window at most twice the limit pass.
THEOREM SpanHeld == Spec => []SpanBound
<1>1. IInv => SpanBound
  <2> SUFFICES ASSUME IInv, NEW k \in Payers, NEW a \in Actions, NEW t \in 0..MaxTime
               PROVE  Cardinality(PassedWithin(k, a, t..(t + Window[a] - 1))) <= 2 * Limit[a]
    BY DEF SpanBound
  <2> DEFINE w == Window[a]
             b == t \div w
             A == Passed(<<k, a, b>>)
             B == Passed(<<k, a, b + 1>>)
             S == PassedWithin(k, a, t..(t + w - 1))
  <2>1. t \in Nat /\ w \in Nat \ {0} /\ Limit[a] \in Nat
    BY AdmissionAssumption
  <2>2. S \subseteq A \cup B
    <3> SUFFICES ASSUME NEW r \in S PROVE r \in A \cup B
      OBVIOUS
    <3>1. /\ r \in Requests /\ request[r].by = "quota" /\ request[r].key = k
          /\ request[r].action = a /\ request[r].read \in t..(t + w - 1)
      BY DEF PassedWithin
    <3>2. request[r].read \div w = b \/ request[r].read \div w = b + 1
      <4> HIDE DEF w
      <4> QED BY <2>1, <3>1, SpanWindows DEF b
    <3> QED BY <3>1, <3>2 DEF Passed, Slot
  <2>3. /\ IsFiniteSet(A) /\ Cardinality(A) <= Limit[a]
        /\ IsFiniteSet(B) /\ Cardinality(B) <= Limit[a]
    BY PassedBound
  <2> HIDE DEF S, A, B
  <2>4. /\ IsFiniteSet(A \cup B)
        /\ Cardinality(A \cup B) = Cardinality(A) + Cardinality(B) - Cardinality(A \cap B)
    BY <2>3, FS_Union
  <2>5. /\ Cardinality(A) \in Nat /\ Cardinality(B) \in Nat
        /\ Cardinality(A \cup B) \in Nat /\ Cardinality(A \cap B) \in Nat
    <3>1. A \cap B \in SUBSET A
      OBVIOUS
    <3>2. IsFiniteSet(A \cap B)
      BY <2>3, <3>1, FS_Subset
    <3> QED BY <2>3, <2>4, <3>2, FS_CardinalityType
  <2>6. S \in SUBSET (A \cup B)
    BY <2>2
  <2>7. Cardinality(S) <= Cardinality(A \cup B) /\ IsFiniteSet(S)
    BY <2>4, <2>6, FS_Subset
  <2>8. Cardinality(S) \in Nat
    BY <2>7, FS_CardinalityType
  <2>9. Cardinality(S) <= 2 * Limit[a]
    BY <2>1, <2>3, <2>4, <2>5, <2>7, <2>8
  <2> QED BY <2>9 DEF S
<1> QED BY <1>1, CountingInvariant, PTL

-----------------------------------------------------------------------------
\* A step that leaves the counters alone, and a handler at EXPIRE where it is
\* unless it orphans its counter.
LEMMA KeepsExpiry ==
  ASSUME CountersExpire, UNCHANGED <<count, expires>>, orphaned \subseteq orphaned',
         \A x \in Requests : request[x].pc = "expire" =>
             \/ request'[x].pc = "expire" /\ Slot(x)' = Slot(x)
             \/ Slot(x) \in orphaned'
  PROVE  CountersExpire'
<1> SUFFICES ASSUME NEW s \in Slots, count'[s] > 0
             PROVE  \/ expires'[s] # Never
                    \/ s \in orphaned'
                    \/ \E r \in Requests : Slot(r)' = s /\ request'[r].pc = "expire"
  BY DEF CountersExpire, Never
<1>1. \/ expires[s] # Never
      \/ s \in orphaned
      \/ \E r \in Requests : Slot(r) = s /\ request[r].pc = "expire"
  BY DEF CountersExpire
<1> QED BY <1>1

\* A step of one handler that leaves the counters alone, and does not come from EXPIRE.
LEMMA MovesElsewhere ==
  ASSUME TypeOK, CountersExpire, NEW r \in Requests, request[r].pc # "expire",
         NEW q \in Request, request' = [request EXCEPT ![r] = q],
         UNCHANGED <<count, expires, orphaned>>
  PROVE  CountersExpire'
<1>1. \A x \in Requests : request[x].pc = "expire" =>
         request'[x].pc = "expire" /\ Slot(x)' = Slot(x)
  BY ReplaceFacts
<1> QED BY <1>1, KeepsExpiry

LEMMA IncrExpiry ==
  ASSUME TypeOK, CountersExpire, NEW r \in Requests, Incr(r)
  PROVE  CountersExpire'
<1> DEFINE s == Slot(r)
           n == count[s] + 1
           p == [request[r] EXCEPT !.got = n]
           q == IF n = 1 THEN [p EXCEPT !.pc = "expire"] ELSE Judged(p, n)
<1>1. /\ request[r] \in Request /\ request[r].pc = "incr"
      /\ s \in Slots /\ count[s] \in Nat /\ n \in Nat
      /\ \A x \in Slots : x # s => count'[x] = count[x]
  BY SlotFacts DEF TypeOK, Incr, Counted
<1>2. /\ p \in Request /\ p.got = n
      /\ p.key = request[r].key /\ p.action = request[r].action /\ p.read = request[r].read
  <2> HIDE DEF n
  <2> QED BY <1>1 DEF Request
<1>3. /\ q \in Request
      /\ q.key = request[r].key /\ q.action = request[r].action /\ q.read = request[r].read
  <2> HIDE DEF n, p
  <2>1. CASE n = 1
    <3>1. "expire" \in {"new", "lost"} \cup Running \cup Answered
      BY DEF Running
    <3> QED BY <1>2, <2>1, <3>1, RecordFacts
  <2>2. CASE n # 1
    <3>1. q = Judged(p, n)
      BY <2>2
    <3> QED BY <1>1, <1>2, <2>2, <3>1, RecordFacts
  <2> QED BY <2>1, <2>2
<1>4. request' = [request EXCEPT ![r] = q]
  BY <1>2 DEF Incr
<1>5. expires' = expires /\ orphaned' = orphaned
  BY DEF Incr
<1>6. n = 1 => q.pc = "expire"
  BY <1>2
<1>7. n = 1 \/ count[s] > 0
  BY <1>1
<1> HIDE DEF q, p, n, s
<1>8. /\ request'[r] = q
      /\ \A x \in Requests : x # r => request'[x] = request[x]
      /\ \A x \in Requests : Slot(x)' = Slot(x)
  BY <1>3, <1>4, ReplaceFacts
<1> SUFFICES ASSUME NEW t \in Slots, count'[t] > 0
             PROVE  \/ expires'[t] # Never
                    \/ t \in orphaned'
                    \/ \E x \in Requests : Slot(x)' = t /\ request'[x].pc = "expire"
  BY DEF CountersExpire, Never
<1>9. CASE t = s /\ n = 1
  <2>1. request'[r].pc = "expire" /\ Slot(r)' = t
    BY <1>8, <1>9, <1>6 DEF s
  <2> QED BY <2>1
<1>10. CASE ~(t = s /\ n = 1)
  <2>1. count[t] > 0
    BY <1>1, <1>7, <1>10
  <2>2. \/ expires[t] # Never
        \/ t \in orphaned
        \/ \E x \in Requests : Slot(x) = t /\ request[x].pc = "expire"
    BY <2>1 DEF CountersExpire
  <2>3. \A x \in Requests : request[x].pc = "expire" => request'[x].pc = "expire"
    BY <1>1, <1>8
  <2> QED BY <1>5, <1>8, <2>2, <2>3
<1> QED BY <1>9, <1>10

\* EXPIRE gives the counter of its slot a time to live, if it is there.
LEMMA WithExpiryCovers ==
  ASSUME TypeOK, CountersExpire, NEW r \in Requests, NEW q \in Request,
         q.key = request[r].key, q.action = request[r].action, q.read = request[r].read,
         request' = [request EXCEPT ![r] = q], expires' = WithExpiry(Slot(r)),
         UNCHANGED <<count, orphaned>>
  PROVE  CountersExpire'
<1> DEFINE s == Slot(r)
<1>1. /\ s \in Slots /\ now \in Nat /\ Window[s[2]] \in Nat
      /\ expires \in [Slots -> Nat \cup {Never}]
  BY SlotFacts, AdmissionAssumption DEF TypeOK
<1>2. TimeToLive(s) \in Nat
  BY <1>1 DEF TimeToLive
<1>3. expires' = [expires EXCEPT ![s] = IF count[s] > 0 THEN now + TimeToLive(s) ELSE @]
  BY DEF WithExpiry
<1> HIDE DEF s
<1>4. /\ count[s] > 0 => expires'[s] # Never
      /\ \A t \in Slots : t # s => expires'[t] = expires[t]
  BY <1>1, <1>2, <1>3 DEF Never
<1>5. \A x \in Requests : x # r => request'[x] = request[x] /\ Slot(x)' = Slot(x)
  BY ReplaceFacts
<1> SUFFICES ASSUME NEW t \in Slots, t # s, count[t] > 0
             PROVE  \/ expires'[t] # Never
                    \/ t \in orphaned'
                    \/ \E x \in Requests : Slot(x)' = t /\ request'[x].pc = "expire"
  BY <1>4 DEF CountersExpire, Never
<1>6. \/ expires[t] # Never
      \/ t \in orphaned
      \/ \E x \in Requests : Slot(x) = t /\ request[x].pc = "expire"
  BY DEF CountersExpire
<1> QED BY <1>4, <1>5, <1>6 DEF s

\* The record that a handler at EXPIRE, or one let through, goes on with.
LEMMA OnwardFacts ==
  ASSUME TypeOK, NEW r \in Requests,
         NEW q \in {Judged(request[r], request[r].got), FailedOpen(request[r])}
  PROVE  /\ q \in Request
         /\ q.key = request[r].key /\ q.action = request[r].action /\ q.read = request[r].read
<1>1. request[r] \in Request /\ request[r].got \in Nat
  BY DEF TypeOK, Request
<1> QED BY <1>1, RecordFacts

LEMMA AnswerLostExpiry ==
  ASSUME TypeOK, CountersExpire, NEW r \in Requests, AnswerLost(r)
  PROVE  CountersExpire'
<1> DEFINE s == Slot(r)
           q == FailedOpen(request[r])
<1>1. CASE /\ request[r].pc = "incr"
           /\ Counted(s)
           /\ orphaned' = IF count[s] = 0 THEN orphaned \cup {s} ELSE orphaned
           /\ request' \in {request, [request EXCEPT ![r] = FailedOpen(@)]}
           /\ UNCHANGED expires
  <2>1. /\ s \in Slots /\ count[s] \in Nat
        /\ \A t \in Slots : t # s => count'[t] = count[t]
    BY <1>1, SlotFacts DEF TypeOK, Counted
  <2>2. \A x \in Requests : request[x].pc = "expire" =>
           request'[x].pc = "expire" /\ Slot(x)' = Slot(x)
    <3>1. CASE request' = request
      BY <3>1 DEF Slot
    <3>2. CASE request' = [request EXCEPT ![r] = q]
      <4>1. q \in Request
        BY OnwardFacts
      <4> HIDE DEF q
      <4> QED BY <1>1, <3>2, <4>1, ReplaceFacts
    <3> QED BY <1>1, <3>1, <3>2
  <2> HIDE DEF s
  <2> SUFFICES ASSUME NEW t \in Slots, count'[t] > 0
               PROVE  \/ expires'[t] # Never
                      \/ t \in orphaned'
                      \/ \E x \in Requests : Slot(x)' = t /\ request'[x].pc = "expire"
    BY DEF CountersExpire, Never
  <2>3. CASE t = s /\ count[s] = 0
    BY <1>1, <2>3
  <2>4. CASE ~(t = s /\ count[s] = 0)
    <3>1. count[t] > 0
      BY <2>1, <2>4
    <3>2. \/ expires[t] # Never
          \/ t \in orphaned
          \/ \E x \in Requests : Slot(x) = t /\ request[x].pc = "expire"
      BY <3>1 DEF CountersExpire
    <3> QED BY <1>1, <2>2, <3>2
  <2> QED BY <2>3, <2>4
<1>2. CASE /\ expires' = WithExpiry(s)
           /\ request' = [request EXCEPT ![r] = FailedOpen(@)]
           /\ UNCHANGED <<count, orphaned>>
  <2>1. /\ q \in Request
        /\ q.key = request[r].key /\ q.action = request[r].action /\ q.read = request[r].read
    BY OnwardFacts
  <2>2. request' = [request EXCEPT ![r] = q]
    BY <1>2
  <2> HIDE DEF q
  <2> QED BY <1>2, <2>1, <2>2, WithExpiryCovers
<1> QED BY <1>1, <1>2 DEF AnswerLost

LEMMA TickExpiry == ASSUME TypeOK, CountersExpire, Tick PROVE CountersExpire'
<1> DEFINE gone == {s \in Slots : expires[s] = now'}
<1>1. /\ count' = [s \in Slots |-> IF s \in gone THEN 0 ELSE count[s]]
      /\ expires' = [s \in Slots |-> IF s \in gone THEN Never ELSE expires[s]]
      /\ request' = request /\ orphaned' = orphaned
  BY DEF Tick
<1> SUFFICES ASSUME NEW t \in Slots, count'[t] > 0
             PROVE  \/ expires'[t] # Never
                    \/ t \in orphaned'
                    \/ \E x \in Requests : Slot(x)' = t /\ request'[x].pc = "expire"
  BY DEF CountersExpire, Never
<1>2. t \notin gone /\ count'[t] = count[t] /\ expires'[t] = expires[t]
  BY <1>1
<1>3. \/ expires[t] # Never
      \/ t \in orphaned
      \/ \E x \in Requests : Slot(x) = t /\ request[x].pc = "expire"
  BY <1>2 DEF CountersExpire
<1> QED BY <1>1, <1>2, <1>3 DEF Slot

\* The steps of one handler that replace its record, and leave Redis alone.
LEMMA ReplacedRecord ==
  ASSUME TypeOK, NEW r \in Requests,
         \/ \E c \in Clients : \/ Forbid(r, c)
                              \/ \E a \in Actions, f \in Flights \cup {NoFlight} : Arrive(r, c, a, f)
         \/ Upload(r) \/ Lookup(r) \/ Create(r) \/ Enqueue(r)
  PROVE  /\ \E q : request' = [request EXCEPT ![r] = q]
         /\ request[r].pc # "expire"
         /\ UNCHANGED <<count, expires, orphaned>>
<1>1. ASSUME NEW c \in Clients, NEW a \in Actions, NEW f \in Flights \cup {NoFlight},
             Arrive(r, c, a, f)
      PROVE  \E q : request' = [request EXCEPT ![r] = q]
  BY <1>1 DEF Arrive
<1>2. ASSUME NEW pc, Goto(r, pc) PROVE \E q : request' = [request EXCEPT ![r] = q]
  BY <1>2 DEF Goto
<1> QED BY <1>1, <1>2 DEF Forbid, Arrive, Upload, Lookup, Create, Enqueue, redisVars

\* Of the two calls INCR and EXPIRE: no counter is left without a time to live but
\* by a fault, whatever the interleaving of the handlers.
THEOREM CountersExpireHeld == Spec => []CountersExpire
<1>1. Init => CountersExpire
  BY DEF Init, CountersExpire
<1>2. ASSUME TypeOK, CountersExpire, [Next]_vars PROVE CountersExpire'
  <2>1. ASSUME NEW r \in Requests,
               \/ \E c \in Clients : \/ Forbid(r, c)
                                    \/ \E a \in Actions, f \in Flights \cup {NoFlight} : Arrive(r, c, a, f)
               \/ Upload(r) \/ Lookup(r) \/ Create(r) \/ Enqueue(r)
        PROVE  CountersExpire'
    <3>1. /\ \E q : request' = [request EXCEPT ![r] = q]
          /\ request[r].pc # "expire"
          /\ UNCHANGED <<count, expires, orphaned>>
      BY <1>2, <2>1, ReplacedRecord
    <3>2. \A x \in Requests : x # r => request'[x] = request[x]
      BY <1>2, <3>1 DEF TypeOK
    <3>3. \A x \in Requests : request[x].pc = "expire" =>
             request'[x].pc = "expire" /\ Slot(x)' = Slot(x)
      BY <3>1, <3>2 DEF Slot
    <3> QED BY <1>2, <3>1, <3>3, KeepsExpiry
  <2>2. ASSUME NEW r \in Requests, Incr(r) PROVE CountersExpire'
    BY <1>2, <2>2, IncrExpiry
  <2>3. ASSUME NEW r \in Requests, Expire(r) PROVE CountersExpire'
    <3> DEFINE q == Judged(request[r], request[r].got)
    <3>1. /\ q \in Request
          /\ q.key = request[r].key /\ q.action = request[r].action /\ q.read = request[r].read
      BY <1>2, OnwardFacts
    <3>2. /\ request' = [request EXCEPT ![r] = q] /\ expires' = WithExpiry(Slot(r))
          /\ UNCHANGED <<count, orphaned>>
      BY <2>3 DEF Expire
    <3> HIDE DEF q
    <3> QED BY <1>2, <3>1, <3>2, WithExpiryCovers
  <2>4. ASSUME NEW r \in Requests, RedisFails(r) \/ Stop(r) PROVE CountersExpire'
    <3>1. /\ UNCHANGED <<count, expires>> /\ orphaned \subseteq orphaned'
          /\ request[r].pc = "expire" => Slot(r) \in orphaned'
          /\ \A x \in Requests : x # r => request'[x] = request[x]
      BY <1>2, <2>4 DEF RedisFails, Stop, Goto, TypeOK
    <3>2. \A x \in Requests : request[x].pc = "expire" =>
             \/ request'[x].pc = "expire" /\ Slot(x)' = Slot(x)
             \/ Slot(x) \in orphaned'
      BY <3>1 DEF Slot
    <3> QED BY <1>2, <3>1, <3>2, KeepsExpiry
  <2>5. ASSUME NEW r \in Requests, AnswerLost(r) PROVE CountersExpire'
    BY <1>2, <2>5, AnswerLostExpiry
  <2>6. CASE Tick
    BY <1>2, <2>6, TickExpiry
  <2>7. CASE UNCHANGED vars \/ \E f \in Flights : Parse(f) \/ ParseAgain(f)
    <3>1. UNCHANGED <<count, expires, orphaned, request>>
      BY <2>7 DEF vars, Parse, ParseAgain, redisVars
    <3>2. \A x \in Requests : Slot(x)' = Slot(x)
      BY <3>1 DEF Slot
    <3> QED BY <1>2, <3>1, <3>2, KeepsExpiry
  <2> QED BY <1>2, <2>1, <2>2, <2>3, <2>4, <2>5, <2>6, <2>7 DEF Next
<1> QED BY <1>1, <1>2, AdmissionTypeCorrect, PTL DEF Spec

-----------------------------------------------------------------------------
\* What a handler of start_investigation knows on its way to the row.
OnTheWay(r) ==
    /\ request[r].action = "investigations" => request[r].flight \in Flights
    /\ request[r].pc = "admitted" => request[r].by # "nobody"
    /\ request[r].pc \in {"create", "enqueue"} \/ r \in rows =>
          /\ request[r].action = "investigations" /\ request[r].by # "nobody"
          /\ request[r].flight \in parsed
    /\ request[r].pc = "enqueue" => r \in rows
    /\ r \in rows => request[r].pc \in {"enqueue", "accepted", "lost"}

Admitted ==
    /\ queue \subseteq rows
    /\ \A f \in Flights : status[f] = "ready" => f \in parsed
    /\ \A r \in Requests : OnTheWay(r)

\* A step of one handler leaves the others on their way.
LEMMA OneOnTheWay ==
  ASSUME Admitted, NEW r \in Requests,
         \A x \in Requests : x # r => request'[x] = request[x] /\ (x \in rows' <=> x \in rows),
         parsed \subseteq parsed', OnTheWay(r)'
  PROVE  \A x \in Requests : OnTheWay(x)'
<1> SUFFICES ASSUME NEW x \in Requests, x # r PROVE OnTheWay(x)'
  OBVIOUS
<1>1. OnTheWay(x)
  BY DEF Admitted
<1>2. request'[x] = request[x] /\ (x \in rows' <=> x \in rows)
  OBVIOUS
<1> QED BY <1>1, <1>2 DEF OnTheWay

\* A step that counts, or passes without having counted.
LEMMA CountingAdmitted ==
  ASSUME TypeOK, Admitted, NEW r \in Requests,
         Incr(r) \/ Expire(r) \/ RedisFails(r) \/ AnswerLost(r)
  PROVE  Admitted'
<1>1. request[r] \in Request /\ request[r].pc \in {"incr", "expire"} /\ r \notin rows
  BY DEF TypeOK, Incr, Expire, RedisFails, AnswerLost, Admitted, OnTheWay
<1> DEFINE Fits(q) == /\ q.action = request[r].action /\ q.flight = request[r].flight
                      /\ q.pc \in {"incr", "expire", "too_many", "admitted"}
                      /\ q.pc = "admitted" => q.by # "nobody"
<1>2. PICK q : request' = [request EXCEPT ![r] = q] /\ Fits(q)
  <2> DEFINE p == [request[r] EXCEPT !.got = count[Slot(r)] + 1]
             u == IF p.got = 1 THEN [p EXCEPT !.pc = "expire"] ELSE Judged(p, p.got)
             v == Judged(request[r], request[r].got)
             w == FailedOpen(request[r])
  <2>1. CASE Incr(r)
    <3>1. count[Slot(r)] + 1 \in Nat
      BY SlotFacts DEF TypeOK
    <3>2. p \in Request /\ p.got \in Nat
          /\ p.action = request[r].action /\ p.flight = request[r].flight
      <4> DEFINE n == count[Slot(r)] + 1
      <4> HIDE DEF n
      <4>1. p = [request[r] EXCEPT !.got = n]
        BY DEF n
      <4>2. n \in Nat
        BY <3>1 DEF n
      <4> HIDE DEF p
      <4> QED BY <1>1, <4>1, <4>2, RecordFacts
    <3>3. request' = [request EXCEPT ![r] = u]
      BY <2>1 DEF Incr
    <3> HIDE DEF p
    <3>4. CASE p.got = 1
      <4>1. u = [p EXCEPT !.pc = "expire"]
        BY <3>4
      <4>2. "expire" \in {"new", "lost"} \cup Running \cup Answered
        BY DEF Running
      <4> HIDE DEF u
      <4>3. /\ u.action = p.action /\ u.flight = p.flight /\ u.pc = "expire"
        BY <3>2, <4>1, <4>2, RecordFacts
      <4>4. Fits(u)
        BY <3>2, <4>3
      <4> HIDE DEF Fits
      <4> QED BY <3>3, <4>4
    <3>5. CASE p.got # 1
      <4>1. u = Judged(p, p.got)
        BY <3>5
      <4> HIDE DEF u
      <4>2. /\ u.action = p.action /\ u.flight = p.flight
            /\ u.pc \in {"too_many", "admitted"}
            /\ u.pc = "admitted" => u.by = "quota"
        BY <3>2, <4>1, RecordFacts
      <4>3. Fits(u)
        BY <3>2, <4>2
      <4> HIDE DEF Fits
      <4> QED BY <3>3, <4>3
    <3> QED BY <3>4, <3>5
  <2>2. CASE Expire(r)
    <3>1. request' = [request EXCEPT ![r] = v] /\ request[r].got \in Nat
      BY <1>1, <2>2 DEF Expire, Request
    <3>2. /\ v.action = request[r].action /\ v.flight = request[r].flight
          /\ v.pc \in {"too_many", "admitted"}
          /\ v.pc = "admitted" => v.by = "quota"
      BY <1>1, <3>1, RecordFacts
    <3> HIDE DEF v
    <3>3. Fits(v)
      BY <3>2
    <3> HIDE DEF Fits
    <3> QED BY <3>1, <3>3
  <2>3. CASE request' = request
    BY <1>1, <2>3 DEF TypeOK
  <2>4. CASE request' = [request EXCEPT ![r] = w]
    <3>1. /\ w.action = request[r].action /\ w.flight = request[r].flight
          /\ w.pc = "admitted" /\ w.by = "failure"
      BY <1>1, RecordFacts
    <3> HIDE DEF w
    <3>2. Fits(w)
      BY <3>1
    <3> HIDE DEF Fits
    <3> QED BY <2>4, <3>2
  <2>5. RedisFails(r) \/ AnswerLost(r)
           => request' = request \/ request' = [request EXCEPT ![r] = w]
    BY DEF RedisFails, AnswerLost
  <2> HIDE DEF w
  <2> QED BY <2>1, <2>2, <2>3, <2>4, <2>5
<1>3. /\ request'[r] = q
      /\ \A x \in Requests : x # r => request'[x] = request[x]
  BY <1>2 DEF TypeOK
<1>4. UNCHANGED <<status, parsed, rows, queue>>
  BY DEF Incr, Expire, RedisFails, AnswerLost, flightVars
<1>5. OnTheWay(r)'
  BY <1>1, <1>2, <1>3, <1>4 DEF Admitted, OnTheWay
<1>6. \A x \in Requests : OnTheWay(x)'
  BY <1>3, <1>4, <1>5, OneOnTheWay
<1> QED BY <1>4, <1>6 DEF Admitted

\* A step that only moves the handler on.
LEMMA MovedOn ==
  ASSUME TypeOK, NEW r \in Requests, NEW pc, Goto(r, pc)
  PROVE  /\ request'[r].pc = pc
         /\ request'[r].action = request[r].action /\ request'[r].flight = request[r].flight
         /\ request'[r].by = request[r].by
         /\ \A x \in Requests : x # r => request'[x] = request[x]
<1>1. request \in [Requests -> Request] /\ request[r] \in Request
  BY DEF TypeOK
<1>2. request' = [request EXCEPT ![r] = [request[r] EXCEPT !.pc = pc]]
  BY DEF Goto
<1>3. request'[r] = [request[r] EXCEPT !.pc = pc]
  BY <1>1, <1>2
<1>4. \A x \in Requests : x # r => request'[x] = request[x]
  BY <1>1, <1>2
<1> QED BY <1>1, <1>3, <1>4 DEF Request

LEMMA LookupAdmitted ==
  ASSUME TypeOK, Admitted, NEW r \in Requests, Lookup(r)
  PROVE  Admitted'
<1>1. /\ request[r].pc = "admitted" /\ request[r].action = "investigations"
      /\ OnTheWay(r) /\ UNCHANGED <<status, parsed, rows, queue>>
  BY DEF Lookup, flightVars, Admitted
<1>2. PICK pc \in {"not_found", "conflict", "create"} :
         /\ Goto(r, pc)
         /\ pc = "create" => status[request[r].flight] = "ready"
  BY DEF Lookup
<1>3. /\ request'[r].pc = pc
      /\ request'[r].action = request[r].action /\ request'[r].flight = request[r].flight
      /\ request'[r].by = request[r].by
      /\ \A x \in Requests : x # r => request'[x] = request[x]
  BY <1>2, MovedOn
<1>4. r \notin rows /\ request[r].flight \in Flights /\ request[r].by # "nobody"
  BY <1>1 DEF OnTheWay
<1>5. pc = "create" => request[r].flight \in parsed
  BY <1>2, <1>4 DEF Admitted
<1>6. OnTheWay(r)'
  BY <1>1, <1>2, <1>3, <1>4, <1>5 DEF OnTheWay
<1>7. \A x \in Requests : OnTheWay(x)'
  BY <1>1, <1>3, <1>6, OneOnTheWay
<1> QED BY <1>1, <1>7 DEF Admitted

LEMMA HandlerAdmitted ==
  ASSUME TypeOK, Admitted, NEW r \in Requests,
         Upload(r) \/ Create(r) \/ Enqueue(r) \/ Stop(r) \/ \E c \in Clients : Forbid(r, c)
  PROVE  Admitted'
<1>1. PICK pc \in {"forbidden", "invalid", "accepted", "enqueue", "lost"} :
         /\ Goto(r, pc)
         /\ pc = "enqueue" => Create(r)
         /\ pc = "accepted" => (Upload(r) \/ Enqueue(r))
         /\ Create(r) => pc = "enqueue"
  <2>1. ASSUME Upload(r) PROVE \E pc \in {"invalid", "accepted"} : Goto(r, pc)
    BY <2>1 DEF Upload
  <2>2. Create(r) => Goto(r, "enqueue")
    BY DEF Create
  <2>3. Enqueue(r) => Goto(r, "accepted") /\ ~Create(r)
    BY DEF Enqueue, Create
  <2>4. Stop(r) => Goto(r, "lost") /\ (Create(r) => FALSE)
    BY DEF Stop, Create, Fault, Goto, TypeOK
  <2> QED BY <2>1, <2>2, <2>3, <2>4 DEF Forbid, Upload, Create
<1>2. /\ request'[r].pc = pc
      /\ request'[r].action = request[r].action /\ request'[r].flight = request[r].flight
      /\ request'[r].by = request[r].by
      /\ \A x \in Requests : x # r => request'[x] = request[x]
  BY <1>1, MovedOn
<1>3. OnTheWay(r)
  BY DEF Admitted
<1>4. /\ UNCHANGED parsed
      /\ \A f \in Flights : status'[f] = "ready" => status[f] = "ready"
      /\ rows' = IF Create(r) THEN rows \cup {r} ELSE rows
      /\ queue' = IF Enqueue(r) THEN queue \cup {r} ELSE queue
  BY DEF TypeOK, Forbid, Upload, Create, Enqueue, Stop, flightVars
<1>5. Enqueue(r) => r \in rows'
  BY <1>3, <1>4 DEF Enqueue, OnTheWay
<1>6. OnTheWay(r)'
  <2>1. CASE Create(r)
    BY <1>1, <1>2, <1>3, <1>4, <2>1 DEF OnTheWay, Create
  <2>2. CASE ~Create(r)
    <3>1. pc \in {"forbidden", "invalid", "accepted", "lost"} /\ rows' = rows
      BY <1>1, <1>4, <2>2
    <3>2. r \in rows => request'[r].pc \in {"accepted", "lost"}
      <4>1. CASE Enqueue(r) \/ Stop(r)
        <5>1. \E p \in {"accepted", "lost"} : Goto(r, p)
          BY <4>1 DEF Enqueue, Stop
        <5> QED BY <1>2, <5>1, MovedOn
      <4>2. CASE Upload(r) \/ \E c \in Clients : Forbid(r, c)
        BY <1>3, <4>2 DEF OnTheWay, Upload, Forbid
      <4> QED BY <2>2, <4>1, <4>2
    <3> QED BY <1>2, <1>3, <1>4, <3>1, <3>2 DEF OnTheWay
  <2> QED BY <2>1, <2>2
<1>7. \A x \in Requests : OnTheWay(x)'
  BY <1>2, <1>4, <1>6, OneOnTheWay
<1> QED BY <1>4, <1>5, <1>7 DEF Admitted

\* Every investigation row was let in by the quota, or by the failure of Redis, and
\* is about a flight whose artefacts exist; what is enqueued has its row.
THEOREM RowsJustifiedHeld == Spec => []RowsJustified
<1>1. Init => Admitted
  BY DEF Init, Admitted, OnTheWay
<1>2. ASSUME TypeOK, Admitted, [Next]_vars PROVE Admitted'
  <2>1. ASSUME NEW r \in Requests, NEW c \in Clients, NEW a \in Actions,
               NEW f \in Flights \cup {NoFlight}, Arrive(r, c, a, f)
        PROVE  Admitted'
    <3>1. /\ request'[r].pc = "incr" /\ request'[r].action = a /\ request'[r].flight = f
          /\ \A x \in Requests : x # r => request'[x] = request[x]
      BY <1>2, <2>1 DEF Arrive, TypeOK, Request
    <3>2. r \notin rows /\ UNCHANGED <<status, parsed, rows, queue>>
      BY <1>2, <2>1 DEF Arrive, flightVars, Admitted, OnTheWay
    <3>3. a = "investigations" => f \in Flights
      BY <2>1 DEF Arrive
    <3>4. OnTheWay(r)'
      BY <3>1, <3>2, <3>3 DEF OnTheWay
    <3>5. \A x \in Requests : OnTheWay(x)'
      BY <1>2, <3>1, <3>2, <3>4, OneOnTheWay
    <3> QED BY <1>2, <3>2, <3>5 DEF Admitted
  <2>2. ASSUME NEW r \in Requests,
               Upload(r) \/ Create(r) \/ Enqueue(r) \/ Stop(r) \/ \E c \in Clients : Forbid(r, c)
        PROVE  Admitted'
    BY <1>2, <2>2, HandlerAdmitted
  <2>3. ASSUME NEW r \in Requests, Incr(r) \/ Expire(r) \/ RedisFails(r) \/ AnswerLost(r)
        PROVE  Admitted'
    BY <1>2, <2>3, CountingAdmitted
  <2>4. ASSUME NEW r \in Requests, Lookup(r) PROVE Admitted'
    BY <1>2, <2>4, LookupAdmitted
  <2>5. ASSUME NEW f \in Flights, Parse(f) \/ ParseAgain(f) PROVE Admitted'
    <3>1. /\ UNCHANGED <<request, rows, queue>> /\ parsed \subseteq parsed'
          /\ \A g \in Flights : status'[g] = "ready" => status[g] = "ready" \/ g \in parsed'
      BY <1>2, <2>5 DEF Parse, ParseAgain, TypeOK
    <3> QED BY <1>2, <3>1 DEF Admitted, OnTheWay
  <2>6. CASE Tick
    BY <1>2, <2>6 DEF Tick, flightVars, Admitted, OnTheWay
  <2>7. CASE UNCHANGED vars
    BY <1>2, <2>7 DEF vars, Admitted, OnTheWay
  <2> QED BY <1>2, <2>1, <2>2, <2>3, <2>4, <2>5, <2>6, <2>7 DEF Next
<1>3. Admitted /\ TypeOK => RowsJustified
  BY DEF Admitted, OnTheWay, RowsJustified, TypeOK
<1> QED BY <1>1, <1>2, <1>3, AdmissionTypeCorrect, PTL DEF Spec
=============================================================================
