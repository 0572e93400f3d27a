-------------------------- MODULE TelemetryProofs --------------------------
(* What the rules and the event timeline make of a flight's log, for every   *)
(* vehicle and every length of its log.                                      *)
EXTENDS Timeline, OrderingProofs

-----------------------------------------------------------------------------
(* The log. *)

\* A row that a vehicle may have logged, at any time.
LoggedRows(v, c) == {Stamped(time, row) : time \in Nat, row \in v.rows[c]}

\* A frame sorted by time, the clock being above 0.
Timed(frame) ==
    /\ Len(frame) \in Nat /\ DOMAIN frame = 1..Len(frame)
    /\ \A i \in DOMAIN frame : frame[i].t \in Nat \ {0}
    /\ \A i, j \in DOMAIN frame : i <= j => frame[i].t <= frame[j].t

LogInv ==
    /\ vehicle \in Vehicles /\ now \in Nat \ {0}
    /\ DOMAIN log = DOMAIN vehicle.rows
    /\ \A c \in DOMAIN log :
          /\ log[c] \in Seq(LoggedRows(vehicle, c)) /\ Timed(log[c])
          /\ \A i \in DOMAIN log[c] : log[c][i].t <= now

LEMMA RowFields ==
  ASSUME NEW row, NEW time
  PROVE  /\ Stamped(time, row).t = time
         /\ \A field \in DOMAIN row \ {"t"} : Stamped(time, row)[field] = row[field]
  BY DEF Stamped

LEMMA LogGrows ==
  ASSUME LogInv, Record
  PROVE  LogInv'
<1>0. PICK c \in DOMAIN log, step \in vehicle.steps :
         /\ now' = now + step
         /\ \E row \in vehicle.rows[c] :
                log' = [log EXCEPT ![c] = Append(log[c], Stamped(now', row))]
  BY DEF Record
<1>1. PICK row \in vehicle.rows[c] :
         log' = [log EXCEPT ![c] = Append(log[c], Stamped(now', row))]
  BY <1>0
<1>2. vehicle' = vehicle /\ vehicle \in Vehicles /\ step \in Nat
  BY VehiclesAssumption DEF Record, LogInv
<1>3. now \in Nat \ {0} /\ now' \in Nat \ {0} /\ now <= now'
  BY <1>0, <1>2 DEF LogInv
<1> DEFINE new == Stamped(now', row)
           longer == Append(log[c], new)
<1>4. new.t = now' /\ new \in LoggedRows(vehicle, c)
  BY <1>3, RowFields DEF LoggedRows
<1> HIDE DEF new
<1>5. /\ log[c] \in Seq(LoggedRows(vehicle, c)) /\ Timed(log[c])
      /\ \A i \in DOMAIN log[c] : log[c][i].t <= now
  BY DEF LogInv
<1>6. /\ longer \in Seq(LoggedRows(vehicle, c))
      /\ Len(longer) = Len(log[c]) + 1 /\ DOMAIN longer = 1..(Len(log[c]) + 1)
      /\ \A i \in DOMAIN log[c] : longer[i] = log[c][i]
      /\ longer[Len(log[c]) + 1] = new
  BY <1>4, <1>5
<1> HIDE DEF longer
<1>7. Len(log[c]) \in Nat /\ DOMAIN log[c] = 1..Len(log[c])
  BY <1>5 DEF Timed
<1>8. \A i \in DOMAIN longer : i \in DOMAIN log[c] \/ i = Len(log[c]) + 1
  BY <1>6, <1>7
<1>9. \A i \in DOMAIN longer : longer[i].t \in Nat \ {0} /\ longer[i].t <= now'
  BY <1>3, <1>4, <1>5, <1>6, <1>8 DEF Timed
<1>10. ASSUME NEW i \in DOMAIN longer, NEW j \in DOMAIN longer, i <= j
       PROVE  longer[i].t <= longer[j].t
  <2>1. CASE j = Len(log[c]) + 1
    BY <1>4, <1>6, <1>9, <2>1
  <2>2. CASE j \in DOMAIN log[c]
    <3>1. i \in DOMAIN log[c]
      BY <1>6, <1>7, <1>10, <2>2
    <3> QED BY <1>5, <1>6, <1>10, <2>2, <3>1 DEF Timed
  <2> QED BY <1>8, <2>1, <2>2
<1>11. Timed(longer)
  BY <1>6, <1>7, <1>9, <1>10 DEF Timed
<1>12. log'[c] = longer /\ DOMAIN log' = DOMAIN log /\ \A d \in DOMAIN log : d # c => log'[d] = log[d]
  BY <1>1 DEF longer, new
<1>13. ASSUME NEW d \in DOMAIN log
       PROVE  /\ log'[d] \in Seq(LoggedRows(vehicle, d)) /\ Timed(log'[d])
              /\ \A i \in DOMAIN log'[d] : log'[d][i].t <= now'
  <2>1. CASE d = c
    BY <1>6, <1>9, <1>11, <1>12, <2>1
  <2>2. CASE d # c
    <3>1. /\ log[d] \in Seq(LoggedRows(vehicle, d)) /\ Timed(log[d])
          /\ \A i \in DOMAIN log[d] : log[d][i].t <= now /\ log[d][i].t \in Nat
      BY DEF LogInv, Timed
    <3> QED BY <1>3, <1>12, <2>2, <3>1
  <2> QED BY <2>1, <2>2
<1> QED BY <1>2, <1>3, <1>12, <1>13 DEF LogInv

\* The frames of a log stay sorted by time, and in each the rows are those the
\* vehicle logs there.
THEOREM LogSorted == Spec => []LogInv
<1>1. Init => LogInv
  BY DEF Init, LogInv, Timed
<1>2. LogInv /\ [Next]_vars => LogInv'
  <2> SUFFICES ASSUME LogInv, [Next]_vars PROVE LogInv'
    OBVIOUS
  <2>1. CASE Record
    BY <2>1, LogGrows
  <2>2. CASE UNCHANGED vars
    BY <2>2 DEF vars, LogInv
  <2> QED BY <2>1, <2>2 DEF Next
<1> QED BY <1>1, <1>2, PTL DEF Spec

\* What a rule loads is a frame, empty if nothing of its type was logged.
LEMMA RowsTimed ==
  ASSUME LogInv, NEW c
  PROVE  Timed(Rows(c))
<1>1. Timed(<<>>)
  BY DEF Timed
<1> QED BY <1>1 DEF Rows, LogInv

-----------------------------------------------------------------------------
(* The scan for sustained violations. *)

\* The maximal runs of a mask that end before the i-th sample, and what is
\* reported of some runs.
RunsBefore(n, mask, i) ==
    {ab \in mask \X mask : Maximal(n, mask, ab[1], ab[2]) /\ ab[2] < i}

Report(frame, runs, least) ==
    {<<frame[r[1]].t, frame[r[2]].t>> :
        r \in {ab \in runs : frame[ab[2]].t - frame[ab[1]].t >= least}}

\* The run that is open after the i-th sample.
Opened(mask, i, open) ==
    /\ open \in 0..i /\ (open = 0 <=> i \notin mask)
    /\ open # 0 => open..i \subseteq mask /\ open - 1 \notin mask

LEMMA ReportClosed ==
  ASSUME NEW frame, NEW least, NEW runs, NEW open, NEW last
  PROVE  Report(frame, runs \cup (IF open = 0 THEN {} ELSE {<<open, last>>}), least)
           = Report(frame, runs, least) \cup Close(frame, open, last, least)
<1>1. CASE open = 0
  BY <1>1 DEF Report, Close
<1>2. CASE open # 0
  <2> DEFINE one == <<open, last>>
  <2>1. one[1] = open /\ one[2] = last
    OBVIOUS
  <2>2. Close(frame, open, last, least) =
          IF frame[one[2]].t - frame[one[1]].t >= least
          THEN {<<frame[one[1]].t, frame[one[2]].t>>} ELSE {}
    BY <1>2, <2>1 DEF Close
  <2> HIDE DEF one
  <2>3. Report(frame, runs \cup {one}, least)
          = Report(frame, runs, least) \cup Close(frame, open, last, least)
    BY <2>2, Zenon DEF Report
  <2> QED BY <1>2, <2>3 DEF one
<1> QED BY <1>1, <1>2

\* A sample that violates ends no run.
LEMMA RunContinues ==
  ASSUME NEW n \in Nat, NEW mask \in SUBSET (1..n), NEW i \in 1..n, i \in mask
  PROVE  RunsBefore(n, mask, i) = RunsBefore(n, mask, i - 1)
<1>1. ASSUME NEW a \in mask, NEW b \in mask, Maximal(n, mask, a, b)
      PROVE  b < i <=> b < i - 1
  <2>1. b # i - 1
    BY <1>1 DEF Maximal
  <2> QED BY <2>1
<1> QED BY <1>1 DEF RunsBefore

\* One that does not ends the open run, and no other.
LEMMA RunEnds ==
  ASSUME NEW n \in Nat, NEW mask \in SUBSET (1..n), NEW i \in 1..(n + 1), i \notin mask,
         NEW open, Opened(mask, i - 1, open)
  PROVE  RunsBefore(n, mask, i) =
           RunsBefore(n, mask, i - 1) \cup (IF open = 0 THEN {} ELSE {<<open, i - 1>>})
<1>1. i - 1 \in 0..n /\ open \in 0..(i - 1)
  BY DEF Opened
<1>2. ASSUME NEW a \in mask, NEW b \in mask, Maximal(n, mask, a, b), b = i - 1
      PROVE  open # 0 /\ a = open
  <2>1. open # 0 /\ open..b \subseteq mask /\ open - 1 \notin mask
    BY <1>2 DEF Opened
  <2>2. a <= b /\ a..b \subseteq mask /\ a - 1 \notin mask
    BY <1>2 DEF Maximal
  <2>3. a \in Int /\ b \in Int /\ open \in Int /\ open <= b
    BY <1>1, <1>2
  <2>4. ~(a < open)
    <3> SUFFICES ASSUME a < open PROVE FALSE
      OBVIOUS
    <3>1. open - 1 \in a..b
      BY <2>3
    <3> QED BY <2>1, <2>2, <3>1
  <2>5. ~(open < a)
    <3> SUFFICES ASSUME open < a PROVE FALSE
      OBVIOUS
    <3>1. a - 1 \in open..b
      BY <2>2, <2>3
    <3> QED BY <2>1, <2>2, <3>1
  <2> QED BY <2>1, <2>3, <2>4, <2>5
<1>3. ASSUME open # 0
      PROVE  <<open, i - 1>> \in mask \X mask /\ Maximal(n, mask, open, i - 1)
  <2>1. open..(i - 1) \subseteq mask /\ open - 1 \notin mask /\ open \in 1..(i - 1)
    BY <1>1, <1>3 DEF Opened
  <2>2. open \in mask /\ i - 1 \in mask
    BY <1>1, <2>1
  <2>3. i - 1 = n \/ (i - 1) + 1 \notin mask
    OBVIOUS
  <2> QED BY <1>1, <2>1, <2>2, <2>3 DEF Maximal
<1>4. ASSUME NEW a \in mask, NEW b \in mask
      PROVE  b < i <=> b < i - 1 \/ b = i - 1
  OBVIOUS
<1>5. CASE open = 0
  <2>1. RunsBefore(n, mask, i) = RunsBefore(n, mask, i - 1)
    BY <1>2, <1>4, <1>5 DEF RunsBefore
  <2> QED BY <1>5, <2>1
<1>6. CASE open # 0
  <2>1. ASSUME NEW ab \in mask \X mask
        PROVE  ab \in RunsBefore(n, mask, i)
                 <=> ab \in RunsBefore(n, mask, i - 1) \/ ab = <<open, i - 1>>
    <3>1. PICK a \in mask, b \in mask : ab = <<a, b>>
      <4>1. ab[1] \in mask /\ ab[2] \in mask /\ ab = <<ab[1], ab[2]>>
        OBVIOUS
      <4> QED BY <4>1, Zenon
    <3>2. ab = <<open, i - 1>> <=> a = open /\ b = i - 1
      BY <3>1
    <3>3. \A j \in Int : ab \in RunsBefore(n, mask, j) <=> Maximal(n, mask, a, b) /\ b < j
      BY <3>1 DEF RunsBefore
    <3>4. Maximal(n, mask, a, b) /\ b = i - 1 <=> a = open /\ b = i - 1
      BY <1>2, <1>3, <1>6
    <3>5. b < i - 1 => b # i - 1
      OBVIOUS
    <3> QED BY <1>4, <3>2, <3>3, <3>4, <3>5
  <2>2. \A j \in Int : RunsBefore(n, mask, j) \subseteq mask \X mask
    BY DEF RunsBefore
  <2>3. i \in Int /\ i - 1 \in Int
    OBVIOUS
  <2>4. <<open, i - 1>> \in mask \X mask
    BY <1>3, <1>6
  <2>5. RunsBefore(n, mask, i) = RunsBefore(n, mask, i - 1) \cup {<<open, i - 1>>}
    BY <2>1, <2>2, <2>3, <2>4, Zenon
  <2> QED BY <1>6, <2>5
<1> QED BY <1>5, <1>6

\* So does the end of the log.
LEMMA LogEndsRun ==
  ASSUME NEW n \in Nat, NEW mask \in SUBSET (1..n), NEW open, Opened(mask, n, open)
  PROVE  RunsBefore(n, mask, n + 1) =
           RunsBefore(n, mask, n) \cup (IF open = 0 THEN {} ELSE {<<open, n>>})
<1> DEFINE i == n + 1
<1>1. i \in 1..(n + 1) /\ i - 1 = n /\ i \notin mask
  OBVIOUS
<1> HIDE DEF i
<1>2. Opened(mask, i - 1, open)
  BY <1>1
<1>3. RunsBefore(n, mask, i) =
        RunsBefore(n, mask, i - 1) \cup (IF open = 0 THEN {} ELSE {<<open, i - 1>>})
  BY <1>1, <1>2, RunEnds
<1> QED BY <1>1, <1>3 DEF i

LEMMA RunsExact ==
  ASSUME NEW frame, Timed(frame), NEW mask \in SUBSET DOMAIN frame, NEW least
  PROVE  SustainedRuns(frame, mask, least)
           = Report(frame, RunsBefore(Len(frame), mask, Len(frame) + 1), least)
<1> DEFINE n == Len(frame)
           U == {<<frame[a].t, frame[b].t>> : a \in 0..n, b \in 0..n}
           V == [open : 0..n, found : SUBSET U]
           base == [open |-> 0, found |-> {}]
           next(i, before) ==
               IF i \in mask THEN [before EXCEPT !.open = IF @ = 0 THEN i ELSE @]
               ELSE [open |-> 0,
                     found |-> before.found \cup Close(frame, before.open, i - 1, least)]
           step == [p \in (1..n) \X V |-> next(p[1], p[2])]
           Scan(f) == f = [i \in 0..n |-> IF i = 0 THEN base
                              ELSE LET before == f[i - 1] IN
                                   IF i \in mask
                                   THEN [before EXCEPT !.open = IF @ = 0 THEN i ELSE @]
                                   ELSE [open |-> 0,
                                         found |-> before.found
                                                   \cup Close(frame, before.open, i - 1, least)]]
           scan == CHOOSE f : Scan(f)
<1>1. SustainedRuns(frame, mask, least) = scan[n].found \cup Close(frame, scan[n].open, n, least)
  BY DEF SustainedRuns
<1>2. n \in Nat /\ mask \in SUBSET (1..n) /\ 0 \notin mask /\ n + 1 \notin mask
  BY DEF Timed
<1> HIDE DEF n
<1>3. base \in V
  BY <1>2
<1>4. ASSUME NEW i \in 1..n, NEW before \in V PROVE next(i, before) \in V
  <2>1. before = [open |-> before.open, found |-> before.found]
        /\ before.open \in 0..n /\ before.found \subseteq U
    OBVIOUS
  <2>2. i \in 0..n /\ i - 1 \in 0..n
    BY <1>2
  <2>3. CASE i \in mask
    BY <2>1, <2>2, <2>3
  <2>4. CASE i \notin mask
    <3>1. Close(frame, before.open, i - 1, least) \subseteq U
      BY <2>1, <2>2 DEF Close
    <3> QED BY <1>2, <2>1, <2>4, <3>1
  <2> QED BY <2>3, <2>4
<1> HIDE DEF next, base, V
<1>5. step \in [(1..n) \X V -> V]
  BY <1>4
<1>6. PICK found \in [0..n -> V] : Scans(found, n, base, step)
  <2> HIDE DEF step
  <2> QED BY <1>2, <1>3, <1>5, ScanExists
<1>7. found[0] = base /\ \A i \in 1..n : found[i] = next(i, found[i - 1])
  <2>1. ASSUME NEW i \in 1..n
        PROVE  found[i] = next(i, found[i - 1])
    <3>1. i - 1 \in 0..n /\ found[i - 1] \in V
      BY <1>2
    <3>2. found[i] = step[<<i, found[i - 1]>>]
      BY <1>6 DEF Scans
    <3>3. step[<<i, found[i - 1]>>] = next(i, found[i - 1])
      BY <3>1
    <3> QED BY <3>2, <3>3
  <2> QED BY <1>6, <2>1 DEF Scans
<1>8. Scan(found)
  <2>1. ASSUME NEW i \in 0..n
        PROVE  found[i] = IF i = 0 THEN base
                          ELSE LET before == found[i - 1] IN
                               IF i \in mask
                               THEN [before EXCEPT !.open = IF @ = 0 THEN i ELSE @]
                               ELSE [open |-> 0,
                                     found |-> before.found
                                               \cup Close(frame, before.open, i - 1, least)]
    <3>1. CASE i = 0
      BY <1>7, <3>1
    <3>2. CASE i # 0
      <4>1. i \in 1..n
        BY <1>2, <3>2
      <4> QED BY <1>7, <3>2, <4>1 DEF next
    <3> QED BY <3>1, <3>2
  <2> QED BY <2>1
<1>9. Scan(scan)
  <2> HIDE DEF Scan
  <2> QED BY <1>8
<1> HIDE DEF scan
<1>10. scan[0] = base
  BY <1>2, <1>9
<1>11. \A i \in 1..n : scan[i] = next(i, scan[i - 1])
  <2>1. \A i \in 1..n : i \in 0..n /\ i # 0
    BY <1>2
  <2> QED BY <1>9, <2>1 DEF next
<1> HIDE DEF Scan
<1> DEFINE Found(i, s) == /\ s = [open |-> s.open, found |-> s.found]
                          /\ Opened(mask, i, s.open)
                          /\ s.found = Report(frame, RunsBefore(n, mask, i), least)
           S == {i \in Nat : Found(i, scan[i])}
<1>12. 0 \in S
  <2>1. RunsBefore(n, mask, 0) = {}
    BY <1>2 DEF RunsBefore
  <2>2. Report(frame, RunsBefore(n, mask, 0), least) = {}
    BY <2>1 DEF Report
  <2>3. scan[0] = [open |-> 0, found |-> {}]
    BY <1>10 DEF base
  <2>4. Opened(mask, 0, 0)
    BY <1>2 DEF Opened
  <2> QED BY <2>2, <2>3, <2>4
<1>13. ASSUME NEW i \in 1..n, i - 1 \in S
       PROVE  i \in S
  <2> DEFINE before == scan[i - 1]
  <2>1. /\ before = [open |-> before.open, found |-> before.found]
        /\ Opened(mask, i - 1, before.open)
        /\ before.found = Report(frame, RunsBefore(n, mask, i - 1), least)
    BY <1>13
  <2>2. scan[i] = next(i, before) /\ i \in Nat
    BY <1>2, <1>11
  <2> HIDE DEF before
  <2>3. CASE i \in mask
    <3> DEFINE open == IF before.open = 0 THEN i ELSE before.open
    <3>1. scan[i] = [open |-> open, found |-> before.found]
      BY <2>1, <2>2, <2>3 DEF next
    <3>2. Opened(mask, i, open)
      <4>1. CASE before.open = 0
        <5>1. i - 1 \notin mask /\ i..i = {i}
          BY <1>2, <2>1, <4>1 DEF Opened
        <5> QED BY <1>2, <2>3, <4>1, <5>1 DEF Opened
      <4>2. CASE before.open # 0
        <5>1. /\ before.open \in 0..(i - 1) /\ before.open..(i - 1) \subseteq mask
              /\ before.open - 1 \notin mask
          BY <2>1, <4>2 DEF Opened
        <5>2. before.open..i \subseteq (before.open..(i - 1)) \cup {i}
          BY <1>2, <5>1
        <5> QED BY <1>2, <2>3, <4>2, <5>1, <5>2 DEF Opened
      <4> QED BY <4>1, <4>2
    <3>3. RunsBefore(n, mask, i) = RunsBefore(n, mask, i - 1)
      BY <1>2, <2>3, RunContinues
    <3> HIDE DEF open
    <3> QED BY <2>1, <2>2, <3>1, <3>2, <3>3
  <2>4. CASE i \notin mask
    <3>1. scan[i] = [open |-> 0,
                     found |-> before.found \cup Close(frame, before.open, i - 1, least)]
      BY <2>2, <2>4 DEF next
    <3>2. Opened(mask, i, 0)
      BY <1>2, <2>4 DEF Opened
    <3>3. RunsBefore(n, mask, i) = RunsBefore(n, mask, i - 1)
            \cup (IF before.open = 0 THEN {} ELSE {<<before.open, i - 1>>})
      <4>1. i \in 1..(n + 1)
        BY <1>2
      <4> QED BY <1>2, <2>1, <2>4, <4>1, RunEnds
    <3>4. Report(frame, RunsBefore(n, mask, i), least)
            = before.found \cup Close(frame, before.open, i - 1, least)
      <4> DEFINE runs == RunsBefore(n, mask, i - 1)
                 open == before.open
                 last == i - 1
      <4>1. RunsBefore(n, mask, i) = runs \cup (IF open = 0 THEN {} ELSE {<<open, last>>})
        BY <3>3
      <4>2. before.found = Report(frame, runs, least)
        BY <2>1
      <4> HIDE DEF runs, open, last
      <4>3. Report(frame, runs \cup (IF open = 0 THEN {} ELSE {<<open, last>>}), least)
              = Report(frame, runs, least) \cup Close(frame, open, last, least)
        BY ReportClosed
      <4>4. Report(frame, RunsBefore(n, mask, i), least)
              = before.found \cup Close(frame, open, last, least)
        BY <4>1, <4>2, <4>3
      <4> QED BY <4>4 DEF open, last
    <3> DEFINE s == scan[i]
    <3>5. /\ s.open = 0 /\ s = [open |-> s.open, found |-> s.found]
          /\ s.found = Report(frame, RunsBefore(n, mask, i), least)
      BY <3>1, <3>4
    <3>6. Found(i, s)
      BY <3>2, <3>5
    <3> QED BY <2>2, <3>6
  <2> QED BY <2>3, <2>4
<1>14. n \in S
  <2> HIDE DEF S
  <2>1. 0..n \subseteq S
    BY <1>2, <1>12, <1>13, InductionUpTo
  <2> QED BY <1>2, <2>1
<1>15. Opened(mask, n, scan[n].open) /\ scan[n].found = Report(frame, RunsBefore(n, mask, n), least)
  BY <1>14
<1>16. RunsBefore(n, mask, n + 1) = RunsBefore(n, mask, n)
         \cup (IF scan[n].open = 0 THEN {} ELSE {<<scan[n].open, n>>})
  <2> HIDE DEF S, scan, n
  <2>1. n \in Nat /\ mask \in SUBSET (1..n) /\ Opened(mask, n, scan[n].open)
    BY <1>2, <1>15
  <2> QED BY <2>1, LogEndsRun
<1>17. Report(frame, RunsBefore(n, mask, n + 1), least)
         = scan[n].found \cup Close(frame, scan[n].open, n, least)
  BY <1>15, <1>16, ReportClosed
<1> QED BY <1>1, <1>17 DEF n

\* The scan reports exactly the maximal runs that last long enough, of whatever
\* boolean column.
THEOREM EveryRunReportedHeld == Spec => []EveryRunReported
<1>1. LogInv => EveryRunReported
  <2> SUFFICES ASSUME LogInv PROVE EveryRunReported
    OBVIOUS
  <2>1. ASSUME NEW c \in DOMAIN log, NEW mask \in SUBSET DOMAIN log[c], NEW least
        PROVE  SustainedRuns(log[c], mask, least) =
                 {<<log[c][r[1]].t, log[c][r[2]].t>> :
                     r \in {ab \in {ab \in mask \X mask :
                                       Maximal(Len(log[c]), mask, ab[1], ab[2])} :
                               log[c][ab[2]].t - log[c][ab[1]].t >= least}}
    <3> DEFINE frame == log[c]
               runs == {ab \in mask \X mask : Maximal(Len(frame), mask, ab[1], ab[2])}
    <3>1. Timed(frame)
      BY DEF LogInv
    <3>2. runs = RunsBefore(Len(frame), mask, Len(frame) + 1)
      BY <3>1 DEF RunsBefore, Timed
    <3>3. SustainedRuns(frame, mask, least) = Report(frame, runs, least)
      BY <3>1, <3>2, RunsExact
    <3> QED BY <3>3 DEF Report
  <2> QED BY <2>1 DEF EveryRunReported
<1> QED BY <1>1, LogSorted, PTL

-----------------------------------------------------------------------------
(* BAT_VOLTAGE_SAG. *)

Starts(indices, gap) == {i \in indices : \A j \in indices : j >= i \/ i - j > gap}
Ends(indices, gap) == {i \in indices : \A j \in indices : j <= i \/ j - i > gap}

\* A group ends at the first end that follows its start.
LEMMA GroupEnds ==
  ASSUME NEW n \in Nat, NEW J \in SUBSET (1..n), NEW gap \in Nat, NEW s \in J
  PROVE  LET e == Min({x \in Ends(J, gap) : x >= s})
         IN  /\ e \in Ends(J, gap) /\ e >= s
             /\ \A x \in Ends(J, gap) : x >= s => e <= x
<1> DEFINE after == {x \in Ends(J, gap) : x >= s}
<1>1. PICK g \in J : \A m \in J : m <= g
  <2>1. J \in SUBSET (0..n) /\ J # {}
    OBVIOUS
  <2> QED BY <2>1, GreatestExists
<1>2. g \in Ends(J, gap) /\ g >= s
  BY <1>1 DEF Ends
<1>3. after \in SUBSET Nat /\ after # {}
  <2>1. after \subseteq J /\ J \subseteq Nat
    BY DEF Ends
  <2>2. g \in after
    BY <1>2
  <2> QED BY <2>1, <2>2
<1>4. Min(after) \in after /\ \A x \in after : Min(after) <= x
  <2> HIDE DEF after
  <2> QED BY <1>3, MinLeast
<1> QED BY <1>4

\* Of fewer samples each group lies within a group of all of them.
LEMMA GroupsNest ==
  ASSUME NEW n \in Nat, NEW J \in SUBSET (1..n), NEW I \in SUBSET J, NEW gap \in Nat,
         NEW g \in Groups(I, gap)
  PROVE  /\ g[1] \in 1..n /\ g[2] \in 1..n
         /\ \E w \in Groups(J, gap) :
               w[1] \in 1..n /\ w[2] \in 1..n /\ w[1] <= g[1] /\ g[2] <= w[2]
<1>1. PICK s \in Starts(I, gap) : g = <<s, Min({x \in Ends(I, gap) : x >= s})>>
  BY DEF Groups, Starts, Ends
<1> DEFINE e == Min({x \in Ends(I, gap) : x >= s})
<1>2. I \in SUBSET (1..n) /\ s \in I /\ s \in 1..n
  BY DEF Starts
<1>3. e \in Ends(I, gap) /\ e >= s /\ \A x \in Ends(I, gap) : x >= s => e <= x
  BY <1>2, GroupEnds
<1>4. g[1] = s /\ g[2] = e
  BY <1>1
<1> HIDE DEF e
<1>5. e \in I /\ e \in 1..n
  BY <1>2, <1>3 DEF Ends
<1> DEFINE before == {x \in Starts(J, gap) : x <= s}
<1>6. before # {}
  <2>1. PICK l \in J : \A m \in J : l <= m
    <3>1. J \in SUBSET Nat /\ J # {}
      BY <1>2
    <3> QED BY <3>1, LeastExists
  <2>2. l \in Starts(J, gap) /\ l <= s
    BY <1>2, <2>1 DEF Starts
  <2> QED BY <2>2
<1>7. PICK start \in before : \A m \in before : m <= start
  <2>1. before \in SUBSET (0..n)
    <3>1. before \subseteq J /\ J \subseteq 0..n
      BY DEF Starts
    <3> QED BY <3>1
  <2> HIDE DEF before
  <2> QED BY <1>6, <2>1, GreatestExists
<1>8. start \in Starts(J, gap) /\ start \in J /\ start \in 1..n /\ start <= s
  BY DEF Starts
<1> DEFINE end == Min({x \in Ends(J, gap) : x >= start})
<1>9. end \in Ends(J, gap) /\ end >= start
  BY <1>8, GroupEnds
<1>10. <<start, end>> \in Groups(J, gap)
  BY <1>8 DEF Groups, Starts, Ends
<1> HIDE DEF end
<1>11. end \in J /\ end \in 1..n /\ \A j \in J : j <= end \/ j - end > gap
  BY <1>9 DEF Ends
<1>12. ASSUME end < s PROVE FALSE
  <2> DEFINE later == {j \in J : j > end}
  <2>1. PICK j \in later : \A m \in later : j <= m
    <3>1. later \in SUBSET Nat /\ later # {}
      <4>1. later \subseteq J /\ J \subseteq Nat
        OBVIOUS
      <4>2. s \in later
        BY <1>2, <1>11, <1>12
      <4> QED BY <4>1, <4>2
    <3> HIDE DEF later
    <3> QED BY <3>1, LeastExists
  <2>2. j \in J /\ j \in 1..n /\ j > end /\ j <= s /\ j - end > gap
    BY <1>2, <1>11, <1>12, <2>1
  <2>3. ASSUME NEW k \in J
        PROVE  k >= j \/ j - k > gap
    <3>1. k \in Int /\ j \in Int /\ end \in Int
      BY <1>11, <2>2
    <3>2. CASE k > end
      BY <2>1, <3>1, <3>2
    <3>3. CASE k <= end
      BY <2>2, <3>1, <3>3
    <3> QED BY <3>1, <3>2, <3>3
  <2>4. j \in before
    BY <2>2, <2>3 DEF Starts
  <2>5. j <= start
    BY <1>7, <2>4
  <2> QED BY <1>8, <1>9, <1>11, <2>2, <2>5
<1>13. ASSUME s <= end, end < e PROVE FALSE
  <2> DEFINE earlier == {i \in I : i <= end}
  <2>1. PICK m \in earlier : \A k \in earlier : k <= m
    <3>1. earlier \in SUBSET (0..n) /\ earlier # {}
      <4>1. earlier \subseteq I
        OBVIOUS
      <4>2. s \in earlier
        BY <1>2, <1>13
      <4>3. I \subseteq 0..n
        BY <1>2
      <4> QED BY <4>1, <4>2, <4>3
    <3> HIDE DEF earlier
    <3> QED BY <3>1, GreatestExists
  <2>2. m \in I /\ m \in 1..n /\ m <= end /\ s <= m
    BY <1>2, <1>13, <2>1
  <2>3. ASSUME NEW k \in I
        PROVE  k <= m \/ k - m > gap
    <3>1. k \in Int /\ k \in J /\ m \in Int /\ end \in Int
      BY <1>11, <2>2
    <3>2. CASE k <= end
      BY <2>1, <3>2
    <3>3. CASE ~(k <= end)
      <4>1. k - end > gap
        BY <1>11, <3>1, <3>3
      <4> QED BY <2>2, <3>1, <4>1
    <3> QED BY <3>2, <3>3
  <2>4. m \in Ends(I, gap)
    BY <2>2, <2>3 DEF Ends
  <2>5. e <= m
    BY <1>2, <1>3, <2>2, <2>4
  <2> QED BY <1>5, <1>11, <1>13, <2>2, <2>5
<1>14. e <= end
  BY <1>2, <1>5, <1>11, <1>12, <1>13
<1> DEFINE w == <<start, end>>
<1>15. w[1] = start /\ w[2] = end
  OBVIOUS
<1> QED BY <1>2, <1>4, <1>5, <1>8, <1>10, <1>11, <1>14, <1>15

\* The battery's rows are in order and carry a voltage.
LEMMA BatteryRows ==
  ASSUME LogInv
  PROVE  Timed(Battery) /\ \A i \in DOMAIN Battery : Battery[i].volt \in Int
<1>1. Timed(Battery)
  BY RowsTimed DEF Battery, Either
<1>2. ASSUME NEW c \in {"BAT", "CURR"}, NEW i \in DOMAIN Rows(c)
      PROVE  Rows(c)[i].volt \in Int
  <2>1. c \in DOMAIN log /\ Rows(c) = log[c]
    BY DEF Rows
  <2>2. log[c][i] \in LoggedRows(vehicle, c)
    BY <2>1 DEF LogInv
  <2>3. PICK time \in Nat, row \in vehicle.rows[c] : log[c][i] = Stamped(time, row)
    BY <2>2 DEF LoggedRows
  <2>4. "volt" \in DOMAIN row /\ row.volt \in Int
    BY <2>1, VehiclesAssumption DEF LogInv
  <2>5. Stamped(time, row).volt = row.volt
    BY <2>4, RowFields
  <2> QED BY <2>1, <2>3, <2>4, <2>5
<1> QED BY <1>1, <1>2 DEF Battery, Either

LEMMA Product == ASSUME NEW a \in Nat, NEW b \in Nat PROVE a * b \in Nat
  OBVIOUS

\* A slope is a quotient of integers, its denominator not negative.
LEMMA GradientTyped ==
  ASSUME LogInv, NEW i \in DOMAIN Battery, Len(Battery) >= 3
  PROVE  Gradient(i).num \in Int /\ Gradient(i).den \in Nat
<1> DEFINE v(j) == Battery[j].volt
           n == Len(Battery)
           dt(j) == Battery[j + 1].t - Battery[j].t
<1>1. n \in Nat /\ n >= 3 /\ DOMAIN Battery = 1..n /\ \A j \in 1..n : v(j) \in Int
  BY BatteryRows DEF Timed
<1>2. ASSUME NEW j \in 1..(n - 1)
      PROVE  dt(j) \in Nat
  <2>1. j \in 1..n /\ j + 1 \in 1..n /\ j <= j + 1
    BY <1>1
  <2>2. /\ Battery[j].t \in Nat /\ Battery[j + 1].t \in Nat
        /\ Battery[j].t <= Battery[j + 1].t
    BY <1>1, <2>1, BatteryRows DEF Timed
  <2> QED BY <2>2
<1> HIDE DEF v, n, dt
<1>3. CASE i = 1
  <2>1. Gradient(i).num = v(2) - v(1) /\ Gradient(i).den = dt(1)
    BY <1>3 DEF Gradient, v, dt
  <2> QED BY <1>1, <1>2, <2>1
<1>4. CASE i # 1 /\ i = n
  <2>1. n - 1 \in 1..(n - 1) /\ n - 1 \in 1..n /\ (n - 1) + 1 = n /\ n \in 1..n
    BY <1>1
  <2>2. Gradient(i).num = v((n - 1) + 1) - v(n - 1) /\ Gradient(i).den = dt(n - 1)
    BY <1>4 DEF Gradient, v, dt, n
  <2>3. v((n - 1) + 1) \in Int /\ v(n - 1) \in Int /\ dt(n - 1) \in Nat
    BY <1>1, <1>2, <2>1
  <2> QED BY <2>2, <2>3
<1>5. CASE i # 1 /\ i # n
  <2> DEFINE s == dt(i - 1)
             d == dt(i)
  <2>1. i - 1 \in 1..(n - 1) /\ i \in 1..(n - 1) /\ i - 1 \in 1..n /\ i + 1 \in 1..n /\ i \in 1..n
    BY <1>1, <1>5
  <2>2. s \in Nat /\ d \in Nat /\ v(i - 1) \in Int /\ v(i) \in Int /\ v(i + 1) \in Int
    BY <1>1, <1>2, <2>1
  <2>3. /\ Gradient(i).num = s * s * v(i + 1) + (d * d - s * s) * v(i) - d * d * v(i - 1)
        /\ Gradient(i).den = s * d * (s + d)
    BY <1>5 DEF Gradient, v, dt, n
  <2> HIDE DEF s, d
  <2>4. s * d \in Nat /\ s + d \in Nat
    BY <2>2, Product
  <2>5. s * d * (s + d) \in Nat
    BY <2>4, Product
  <2> QED BY <2>2, <2>3, <2>5
<1> QED BY <1>3, <1>4, <1>5

LEMMA SevereSags ==
  ASSUME LogInv, Len(Battery) >= 3
  PROVE  Sags(3) \subseteq Sags(1) /\ Sags(1) \subseteq 1..Len(Battery)
<1>1. DOMAIN Battery = 1..Len(Battery)
  BY BatteryRows DEF Timed
<1>2. ASSUME NEW i \in DOMAIN Battery, Gradient(i).num < -3 * Gradient(i).den
      PROVE  Gradient(i).num < -1 * Gradient(i).den
  <2>1. Gradient(i).num \in Int /\ Gradient(i).den \in Nat
    BY GradientTyped
  <2> QED BY <1>2, <2>1
<1> QED BY <1>1, <1>2 DEF Sags

\* A sag reported as CRITICAL is also reported as a WARNING that spans it.
THEOREM SagWarnedTooHeld == Spec => []SagWarnedToo
<1>1. LogInv => SagWarnedToo
  <2> SUFFICES ASSUME LogInv, NEW f \in BatteryVoltageSag, f.severity = "CRITICAL"
               PROVE  \E g \in BatteryVoltageSag :
                         g.severity = "WARNING" /\ g.time <= f.time /\ f.until <= g.until
    BY DEF SagWarnedToo
  <2> DEFINE n == Len(Battery)
             At(severity, w) ==
                 Finding("BAT_VOLTAGE_SAG", severity, Battery[w[1]].t, Battery[w[2]].t)
  <2>1. ~(n < 3)
    BY DEF BatteryVoltageSag
  <2>2. n \in Nat /\ n >= 3
    BY <2>1, BatteryRows DEF Timed
  <2>3. BatteryVoltageSag =
          {At("WARNING", w) : w \in Groups(Sags(1), 3)}
            \cup {At("CRITICAL", w) : w \in Groups(Sags(3), 3)}
    BY <2>1 DEF BatteryVoltageSag, Episodes
  <2>4. \A severity, w : /\ At(severity, w).severity = severity
                         /\ At(severity, w).time = Battery[w[1]].t
                         /\ At(severity, w).until = Battery[w[2]].t
    BY DEF Finding
  <2> HIDE DEF At, n
  <2>5. PICK g \in Groups(Sags(3), 3) : f = At("CRITICAL", g)
    <3>1. "CRITICAL" # "WARNING"
      OBVIOUS
    <3> QED BY <2>3, <2>4, <3>1
  <2>6. Sags(3) \in SUBSET Sags(1) /\ Sags(1) \in SUBSET (1..n)
    BY <2>2, SevereSags DEF n
  <2>7. /\ g[1] \in 1..n /\ g[2] \in 1..n
        /\ \E w \in Groups(Sags(1), 3) :
              w[1] \in 1..n /\ w[2] \in 1..n /\ w[1] <= g[1] /\ g[2] <= w[2]
    BY <2>2, <2>6, GroupsNest
  <2>8. PICK w \in Groups(Sags(1), 3) :
           w[1] \in 1..n /\ w[2] \in 1..n /\ w[1] <= g[1] /\ g[2] <= w[2]
    BY <2>7
  <2>9. Battery[w[1]].t <= Battery[g[1]].t /\ Battery[g[2]].t <= Battery[w[2]].t
    BY <2>7, <2>8, BatteryRows DEF Timed, n
  <2> QED BY <2>3, <2>4, <2>5, <2>8, <2>9
<1> QED BY <1>1, LogSorted, PTL

-----------------------------------------------------------------------------
(* MOTOR_OUTPUT_DROP. *)

LEMMA Within ==
  ASSUME NEW a \in Int, NEW b \in Int
  PROVE  a - b \in 0..50 <=> b <= a /\ a <= b + 50
  OBVIOUS

\* The times of a frame.
Times(frame) == [i \in DOMAIN frame |-> frame[i].t]

\* What the filter remembers after the first i samples: of the samples it kept,
\* the last one's time is remembered, every asymmetric sample so far is within
\* five seconds after one of them, and no two of them are as close as that.
Kept(time, i, seen) ==
    /\ seen.last \in Int /\ seen.kept \subseteq Asymmetric
    /\ \/ seen.kept = {} /\ seen.last = -5 * Second
       \/ \E k \in seen.kept : time[k] = seen.last
    /\ \A k \in seen.kept : k <= i /\ time[k] <= seen.last
    /\ \A j \in Asymmetric : j <= i =>
          \E k \in seen.kept : time[k] <= time[j] /\ time[j] <= time[k] + 5 * Second
    /\ \A k, l \in seen.kept : time[k] < time[l] => time[l] > time[k] + 5 * Second

LEMMA KeptDropsSpaced ==
  ASSUME Timed(Rows("RCOU"))
  PROVE  \E seen : KeptDrops = seen.kept /\ Kept(Times(Rows("RCOU")), Len(Rows("RCOU")), seen)
<1> DEFINE frame == Rows("RCOU")
           n == Len(frame)
           time == Times(frame)
           V == [last : Int, kept : SUBSET Nat]
           base == [last |-> -5 * Second, kept |-> {}]
           next(i, before) ==
               IF i \in Asymmetric /\ Keep(before.last, time[i])
               THEN [last |-> time[i], kept |-> before.kept \cup {i}] ELSE before
           step == [p \in (1..n) \X V |-> next(p[1], p[2])]
           Scan(f) == f = [i \in 0..n |-> IF i = 0 THEN base
                              ELSE LET before == f[i - 1] IN
                                   IF i \in Asymmetric /\ Keep(before.last, frame[i].t)
                                   THEN [last |-> frame[i].t, kept |-> before.kept \cup {i}]
                                   ELSE before]
           scan == CHOOSE f : Scan(f)
<1>1. KeptDrops = scan[n].kept
  BY DEF KeptDrops
<1>2. /\ n \in Nat /\ DOMAIN frame = 1..n
      /\ time \in [1..n -> Nat \ {0}]
      /\ \A i \in 1..n : frame[i].t = time[i]
      /\ \A i, j \in 1..n : i <= j => time[i] <= time[j]
  BY DEF Timed, Times
<1>3. Asymmetric \subseteq 1..n /\ Asymmetric \subseteq Nat
  BY <1>2 DEF Asymmetric
<1> HIDE DEF frame, n, time
<1>4. base \in V
  BY DEF Second
<1>5. \A i \in 1..n, before \in V : next(i, before) \in V
  BY <1>2
<1> HIDE DEF next, base
<1>6. step \in [(1..n) \X V -> V]
  BY <1>5
<1>7. PICK found \in [0..n -> V] : Scans(found, n, base, step)
  <2> HIDE DEF V, step
  <2> QED BY <1>2, <1>4, <1>6, ScanExists
<1>8. found[0] = base /\ \A i \in 1..n : found[i] = next(i, found[i - 1]) /\ found[i - 1] \in V
  <2>1. ASSUME NEW i \in 1..n
        PROVE  found[i] = next(i, found[i - 1]) /\ found[i - 1] \in V
    <3>1. i - 1 \in 0..n /\ found[i - 1] \in V
      BY <1>2
    <3>2. found[i] = step[<<i, found[i - 1]>>]
      BY <1>7 DEF Scans
    <3>3. step[<<i, found[i - 1]>>] = next(i, found[i - 1])
      BY <3>1
    <3> QED BY <3>1, <3>2, <3>3
  <2> QED BY <1>7, <2>1 DEF Scans
<1>9. Scan(found)
  <2>1. ASSUME NEW i \in 0..n
        PROVE  found[i] = IF i = 0 THEN base
                          ELSE LET before == found[i - 1] IN
                               IF i \in Asymmetric /\ Keep(before.last, frame[i].t)
                               THEN [last |-> frame[i].t, kept |-> before.kept \cup {i}]
                               ELSE before
    <3>1. CASE i = 0
      BY <1>8, <3>1
    <3>2. CASE i # 0
      <4>1. i \in 1..n
        BY <1>2, <3>2
      <4>2. frame[i].t = time[i]
        BY <1>2, <4>1
      <4> QED BY <1>8, <3>2, <4>1, <4>2 DEF next
    <3> QED BY <3>1, <3>2
  <2> QED BY <2>1
<1>10. Scan(scan)
  <2> HIDE DEF Scan
  <2> QED BY <1>9
<1> HIDE DEF scan
<1>11. scan[0] = base
  BY <1>2, <1>10
<1>12. \A i \in 1..n : scan[i] = next(i, scan[i - 1])
  <2>1. ASSUME NEW i \in 1..n
        PROVE  scan[i] = next(i, scan[i - 1])
    <3>1. frame[i].t = time[i] /\ i \in 0..n /\ i # 0
      BY <1>2
    <3> QED BY <1>10, <3>1 DEF next
  <2> QED BY <2>1
<1> HIDE DEF Scan
<1> DEFINE S == {i \in Nat : Kept(time, i, scan[i])}
<1>13. 0 \in S
  BY <1>3, <1>11 DEF Kept, base, Second
<1>14. ASSUME NEW i \in 1..n, i - 1 \in S
       PROVE  i \in S
  <2> DEFINE before == scan[i - 1]
             seen == scan[i]
  <2>1. Kept(time, i - 1, before) /\ i \in Nat
    BY <1>2, <1>14
  <2>2. seen = next(i, before)
    BY <1>12
  <2> HIDE DEF before, seen
  <2>3. /\ before.last \in Int /\ before.kept \subseteq Asymmetric
        /\ \A k \in before.kept : k \in 1..n /\ k <= i - 1 /\ time[k] <= before.last
    BY <1>3, <2>1 DEF Kept
  <2>4. CASE i \in Asymmetric /\ Keep(before.last, time[i])
    <3>1. seen.last = time[i] /\ seen.kept = before.kept \cup {i}
      BY <2>2, <2>4 DEF next
    <3>2. seen.last \in Int /\ seen.kept \subseteq Asymmetric
      BY <1>2, <2>3, <2>4, <3>1
    <3>3. time[i] - before.last > 50 /\ time[i] \in Nat
      BY <1>2, <2>4 DEF Keep, Second
    <3>4. \A k \in seen.kept : k <= i /\ time[k] <= seen.last
      BY <1>2, <2>3, <3>1, <3>3
    <3>5. ASSUME NEW j \in Asymmetric, j <= i
          PROVE  \E k \in seen.kept : time[k] <= time[j] /\ time[j] <= time[k] + 50
      <4>1. CASE j = i
        <5>1. time[i] <= time[i] /\ time[i] <= time[i] + 50 /\ i \in seen.kept
          BY <3>1, <3>3
        <5> QED BY <4>1, <5>1
      <4>2. CASE j # i
        <5>1. j <= i - 1
          BY <1>3, <3>5, <4>2
        <5> QED BY <2>1, <3>1, <5>1 DEF Kept, Second
      <4> QED BY <4>1, <4>2
    <3>6. ASSUME NEW k \in seen.kept, NEW l \in seen.kept, time[k] < time[l]
          PROVE  time[l] > time[k] + 50
      <4>1. CASE l = i
        <5>1. k \in before.kept /\ time[k] \in Nat
          BY <1>2, <1>3, <2>3, <3>1, <3>3, <3>6, <4>1
        <5> QED BY <2>3, <3>3, <4>1, <5>1
      <4>2. CASE l # i
        <5>1. l \in before.kept /\ k \in 1..n /\ l \in 1..n
          BY <1>3, <3>1, <3>2, <4>2
        <5>2. CASE k = i
          <6>1. time[l] <= before.last /\ time[l] \in Nat
            BY <1>2, <2>3, <5>1
          <6> QED BY <2>3, <3>3, <3>6, <5>2, <6>1
        <5>3. CASE k # i
          BY <2>1, <3>1, <3>6, <5>1, <5>3 DEF Kept, Second
        <5> QED BY <5>2, <5>3
      <4> QED BY <4>1, <4>2
    <3>7. Kept(time, i, seen)
      BY <3>1, <3>2, <3>4, <3>5, <3>6 DEF Kept, Second
    <3> QED BY <2>1, <3>7 DEF seen
  <2>5. CASE ~(i \in Asymmetric /\ Keep(before.last, time[i]))
    <3>1. seen = before
      BY <2>2, <2>5 DEF next
    <3>2. ASSUME NEW j \in Asymmetric, j <= i
          PROVE  \E k \in before.kept : time[k] <= time[j] /\ time[j] <= time[k] + 50
      <4>1. CASE j = i
        <5>1. time[i] \in Nat \ {0} /\ ~(time[i] - before.last > 50)
          BY <1>2, <2>5, <4>1 DEF Keep, Second
        <5>2. ~(before.kept = {} /\ before.last = -50)
          BY <5>1
        <5>3. PICK k \in before.kept : time[k] = before.last
          BY <2>1, <5>2 DEF Kept, Second
        <5>4. time[k] <= time[i] /\ time[k] \in Nat
          BY <1>2, <2>3
        <5> QED BY <4>1, <5>1, <5>3, <5>4
      <4>2. CASE j # i
        <5>1. j <= i - 1
          BY <1>3, <3>2, <4>2
        <5> QED BY <2>1, <5>1 DEF Kept, Second
      <4> QED BY <4>1, <4>2
    <3>3. \A k \in before.kept : k <= i
      BY <1>2, <2>3
    <3>4. Kept(time, i, seen)
      BY <2>1, <3>1, <3>2, <3>3 DEF Kept, Second
    <3> QED BY <2>1, <3>4 DEF seen
  <2> QED BY <2>4, <2>5
<1>15. n \in S
  <2> HIDE DEF S
  <2>1. 0..n \subseteq S
    BY <1>2, <1>13, <1>14, InductionUpTo
  <2> QED BY <1>2, <2>1
<1> QED BY <1>1, <1>15 DEF frame, n, time

\* No five seconds of asymmetry go unreported, and no two reports are closer.
THEOREM DropsReportedHeld == Spec => []DropsReported
<1>1. LogInv => DropsReported
  <2> SUFFICES ASSUME LogInv PROVE DropsReported
    OBVIOUS
  <2> DEFINE frame == Rows("RCOU")
  <2>1. Timed(frame)
    BY RowsTimed
  <2>2. PICK seen : KeptDrops = seen.kept /\ Kept(Times(frame), Len(frame), seen)
    BY <2>1, KeptDropsSpaced
  <2>3. MotorOutputDrop = {Finding("MOTOR_OUTPUT_DROP", "CRITICAL", frame[i].t, Instant) : i \in KeptDrops}
    BY DEF MotorOutputDrop, Instantaneous
  <2>4. \A i \in KeptDrops : Finding("MOTOR_OUTPUT_DROP", "CRITICAL", frame[i].t, Instant).time = frame[i].t
    BY DEF Finding
  <2>5. /\ \A j \in Asymmetric : j <= Len(frame)
        /\ \A j \in Asymmetric : Times(frame)[j] = frame[j].t /\ frame[j].t \in Nat
        /\ KeptDrops \subseteq Asymmetric
    BY <2>1, <2>2 DEF Timed, Times, Asymmetric, Kept
  <2> HIDE DEF frame
  <2> DEFINE time == Times(frame)
  <2>6. /\ \A j \in Asymmetric : \E k \in KeptDrops : time[k] <= time[j] /\ time[j] <= time[k] + 50
        /\ \A k, l \in KeptDrops : time[k] < time[l] => time[l] > time[k] + 50
    <3>1. 5 * Second = 50
      BY DEF Second
    <3> QED BY <2>2, <2>5, <3>1 DEF Kept
  <2>7. \A j \in Asymmetric : time[j] = frame[j].t
    BY <2>5
  <2> HIDE DEF time
  <2>8. ASSUME NEW j \in Asymmetric
        PROVE  \E f \in MotorOutputDrop : frame[j].t - f.time \in 0..(5 * Second)
    <3>1. PICK k \in KeptDrops : frame[k].t <= frame[j].t /\ frame[j].t <= frame[k].t + 50
      BY <2>5, <2>6, <2>7
    <3>2. frame[j].t \in Int /\ frame[k].t \in Int /\ 5 * Second = 50
      BY <2>5 DEF Second
    <3>3. frame[j].t - frame[k].t \in 0..(5 * Second)
      BY <3>1, <3>2, Within
    <3> QED BY <2>3, <2>4, <3>1, <3>3
  <2>9. ASSUME NEW f \in MotorOutputDrop, NEW g \in MotorOutputDrop, f.time < g.time
        PROVE  g.time - f.time > 5 * Second
    <3>1. PICK k \in KeptDrops, l \in KeptDrops : f.time = frame[k].t /\ g.time = frame[l].t
      BY <2>3, <2>4
    <3>2. frame[l].t > frame[k].t + 50
      <4>1. k \in Asymmetric /\ l \in Asymmetric
        BY <2>5
      <4>2. time[k] = frame[k].t /\ time[l] = frame[l].t
        BY <2>7, <4>1
      <4>3. frame[k].t < frame[l].t
        BY <2>9, <3>1
      <4>4. time[l] > time[k] + 50
        BY <2>6, <4>2, <4>3
      <4> QED BY <4>2, <4>4
    <3> QED BY <2>5, <3>1, <3>2 DEF Second
  <2> QED BY <2>8, <2>9 DEF DropsReported, frame
<1> QED BY <1>1, LogSorted, PTL

-----------------------------------------------------------------------------
(* The events and the horizon. *)

\* Finitely many events, each with the time of a sample.
Stamps(events) == IsFiniteSet(events) /\ \A e \in events : e.time \in Nat \ {0}

LEMMA StampsOf ==
  ASSUME NEW frame, Timed(frame), NEW indices \in SUBSET DOMAIN frame,
         NEW at, DOMAIN at = indices, \A i \in indices : at[i].time = frame[i].t
  PROVE  Stamps({at[i] : i \in indices})
<1> DEFINE events == {at[i] : i \in indices}
<1>1. IsFiniteSet(indices)
  <2>1. Len(frame) \in Nat /\ indices \in SUBSET (1..Len(frame))
    BY DEF Timed
  <2>2. IsFiniteSet(1..Len(frame))
    BY <2>1, FS_Interval
  <2> QED BY <2>1, <2>2, FS_Subset
<1>2. [i \in indices |-> at[i]] \in Surjection(indices, events)
  BY DEF Surjection
<1>3. IsFiniteSet(events)
  BY <1>1, <1>2, FS_Surjection
<1> QED BY <1>3 DEF Stamps, Timed

LEMMA StampsJoin ==
  ASSUME NEW a, NEW b, Stamps(a), Stamps(b)
  PROVE  Stamps(a \cup b)
  BY FS_Union DEF Stamps

LEMMA AllStamped ==
  ASSUME LogInv
  PROVE  Stamps(AllEvents)
<1>1. Stamps(ModeChanges)
  <2> DEFINE indices == {j \in 2..Len(Mode) : Mode[j].mode # Mode[j - 1].mode}
             at == [i \in indices |-> Event(Mode[i].t, "MODE_CHANGE",
                       IF Mode[i].reason \in {1, 2} THEN "INFO" ELSE "WARNING")]
  <2>1. Timed(Mode) /\ indices \in SUBSET DOMAIN Mode
    BY RowsTimed DEF Mode, Timed
  <2>2. DOMAIN at = indices /\ \A i \in indices : at[i].time = Mode[i].t
    BY DEF Event
  <2>3. ModeChanges = {at[i] : i \in indices}
    BY DEF ModeChanges
  <2> HIDE DEF at, indices
  <2> QED BY <2>1, <2>2, <2>3, StampsOf
<1>2. Stamps(Errors)
  <2> DEFINE frame == Rows("ERR")
             at == [i \in DOMAIN frame |-> Event(frame[i].t, "ERROR", ErrorSeverity(frame[i]))]
  <2>1. Timed(frame)
    BY RowsTimed
  <2>2. DOMAIN at = DOMAIN frame /\ \A i \in DOMAIN frame : at[i].time = frame[i].t
    BY DEF Event
  <2>3. Errors = {at[i] : i \in DOMAIN frame}
    BY DEF Errors
  <2> HIDE DEF at, frame
  <2> QED BY <2>1, <2>2, <2>3, StampsOf
<1>3. Stamps(ArmEvents)
  <2> DEFINE on == {j \in DOMAIN Mode : IsArmed(j) /\ ~IsArmed(j - 1)}
             off == {j \in DOMAIN Mode : ~IsArmed(j) /\ IsArmed(j - 1)}
             arm == [i \in on |-> Event(Mode[i].t, "ARM", "INFO")]
             disarm == [i \in off |-> Event(Mode[i].t, "DISARM", "INFO")]
  <2>1. Timed(Mode) /\ on \in SUBSET DOMAIN Mode /\ off \in SUBSET DOMAIN Mode
    BY RowsTimed DEF Mode
  <2>2. /\ DOMAIN arm = on /\ \A i \in on : arm[i].time = Mode[i].t
        /\ DOMAIN disarm = off /\ \A i \in off : disarm[i].time = Mode[i].t
    BY DEF Event
  <2>3. ArmEvents = {arm[i] : i \in on} \cup {disarm[i] : i \in off}
    BY DEF ArmEvents
  <2> HIDE DEF arm, disarm, on, off
  <2>4. Stamps({arm[i] : i \in on}) /\ Stamps({disarm[i] : i \in off})
    BY <2>1, <2>2, StampsOf
  <2> QED BY <2>3, <2>4, StampsJoin
<1>4. Stamps(GpsEvents)
  <2> DEFINE fix == {j \in 2..Len(GPS) : GPS[j].fix < GPS[j - 1].fix}
             sats == {j \in 2..Len(GPS) : ManyLost(GPS[j - 1].sats - GPS[j].sats)}
             hdop == {j \in 2..Len(GPS) : GPS[j].hdop > 20 /\ GPS[j - 1].hdop <= 20}
             degraded == [i \in fix |-> Event(GPS[i].t, "GPS_FIX_DEGRADED",
                             IF GPS[i].fix < 2 THEN "CRITICAL" ELSE "WARNING")]
             drop == [i \in sats |-> Event(GPS[i].t, "GPS_SAT_DROP", "CRITICAL")]
             spike == [i \in hdop |-> Event(GPS[i].t, "GPS_HDOP_SPIKE", "WARNING")]
  <2>1. Timed(GPS) /\ 2..Len(GPS) \subseteq DOMAIN GPS
    BY RowsTimed DEF GPS, Timed
  <2>2. fix \in SUBSET DOMAIN GPS /\ sats \in SUBSET DOMAIN GPS /\ hdop \in SUBSET DOMAIN GPS
    BY <2>1
  <2>3. /\ DOMAIN degraded = fix /\ \A i \in fix : degraded[i].time = GPS[i].t
        /\ DOMAIN drop = sats /\ \A i \in sats : drop[i].time = GPS[i].t
        /\ DOMAIN spike = hdop /\ \A i \in hdop : spike[i].time = GPS[i].t
    BY DEF Event
  <2>4. GpsEvents = ({degraded[i] : i \in fix} \cup {drop[i] : i \in sats}) \cup {spike[i] : i \in hdop}
    BY DEF GpsEvents
  <2> HIDE DEF degraded, drop, spike, fix, sats, hdop
  <2>5. Stamps({degraded[i] : i \in fix}) /\ Stamps({drop[i] : i \in sats})
    BY <2>1, <2>2, <2>3, StampsOf
  <2>6. Stamps({spike[i] : i \in hdop})
    BY <2>1, <2>2, <2>3, StampsOf
  <2> QED BY <2>4, <2>5, <2>6, StampsJoin
<1>5. Stamps(CrashIndicator)
  <2> DEFINE att == Rows("ATT")
             extreme == {i \in DOMAIN att : att[i].tilt > 60}
             first == Min(extreme)
             at == [i \in {first} |-> Event(att[i].t, "CRASH_DETECTED", "FATAL")]
  <2>1. Timed(att)
    BY RowsTimed
  <2>2. CASE extreme = {}
    <3>1. CrashIndicator = {}
      BY <2>2 DEF CrashIndicator
    <3> QED BY <3>1, FS_EmptySet DEF Stamps
  <2>3. CASE extreme # {}
    <3>1. extreme \in SUBSET Nat /\ extreme \subseteq DOMAIN att
      BY <2>1 DEF Timed
    <3>2. first \in extreme
      <4> HIDE DEF extreme
      <4> QED BY <2>3, <3>1, MinLeast
    <3>3. CrashIndicator = {Event(att[first].t, "CRASH_DETECTED", "FATAL")}
      BY <2>3 DEF CrashIndicator
    <3> HIDE DEF first, extreme, att
    <3>4. CrashIndicator = {at[i] : i \in {first}}
      BY <3>3
    <3>5. DOMAIN at = {first} /\ \A i \in {first} : at[i].time = att[i].t
      BY DEF Event
    <3> HIDE DEF at
    <3> QED BY <2>1, <3>1, <3>2, <3>4, <3>5, StampsOf, {first} \in SUBSET DOMAIN att
  <2> QED BY <2>2, <2>3
<1>6. Stamps(ParameterChanges)
  <2> DEFINE parm == Rows("PARM")
             indices == {j \in DOMAIN parm : parm[j].t > parm[1].t + 10 * Second}
             at == [i \in indices |-> Event(parm[i].t, "PARAM_CHANGE", "INFO")]
  <2>1. Timed(parm) /\ indices \in SUBSET DOMAIN parm
    BY RowsTimed
  <2>2. DOMAIN at = indices /\ \A i \in indices : at[i].time = parm[i].t
    BY DEF Event
  <2>3. ParameterChanges = {at[i] : i \in indices}
    BY DEF ParameterChanges
  <2> HIDE DEF at, indices, parm
  <2> QED BY <2>1, <2>2, <2>3, StampsOf
<1>7. AllEvents = ((((ModeChanges \cup Errors) \cup ArmEvents) \cup GpsEvents) \cup CrashIndicator)
                    \cup ParameterChanges
  BY DEF AllEvents
<1>8. Stamps((ModeChanges \cup Errors) \cup ArmEvents)
  BY <1>1, <1>2, <1>3, StampsJoin
<1>9. Stamps(((ModeChanges \cup Errors) \cup ArmEvents) \cup GpsEvents)
  BY <1>4, <1>8, StampsJoin
<1>10. Stamps((((ModeChanges \cup Errors) \cup ArmEvents) \cup GpsEvents) \cup CrashIndicator)
  BY <1>5, <1>9, StampsJoin
<1> QED BY <1>6, <1>7, <1>10, StampsJoin

\* What the extractor returns: every event, sorted by time.
LEMMA EventsSorted ==
  ASSUME LogInv
  PROVE  /\ Events \in Seq(AllEvents)
         /\ Len(Events) \in Nat /\ DOMAIN Events = 1..Len(Events)
         /\ \A i \in DOMAIN Events : Events[i] \in AllEvents /\ Events[i].time \in Nat \ {0}
         /\ \A e \in AllEvents : \E i \in DOMAIN Events : Events[i] = e
         /\ \A i, j \in DOMAIN Events : i <= j => Events[i].time <= Events[j].time
<1> DEFINE s == SetToSeq(AllEvents)
           key == [i \in DOMAIN s |-> TimeOf(s[i])]
<1>1. IsFiniteSet(AllEvents) /\ \A e \in AllEvents : e.time \in Nat \ {0}
  BY AllStamped DEF Stamps
<1>2. s \in Seq(AllEvents) /\ \A e \in AllEvents : \E i \in DOMAIN s : s[i] = e
  BY <1>1, SetToSeqKeeps
<1>3. Events = Rearranged(s, key)
  BY DEF Events, Sorted, SortBy
<1> HIDE DEF s
<1>4. \A i \in DOMAIN s : s[i] \in AllEvents /\ s[i].time \in Nat \ {0}
  BY <1>1, <1>2
<1>5. \A i \in DOMAIN s : key[i] = <<s[i].time, 0>> /\ key[i][1] = s[i].time
  BY DEF TimeOf
<1>6. key \in [DOMAIN s -> Int \X Int]
  BY <1>4, <1>5
<1> HIDE DEF key
<1>7. PICK place \in [DOMAIN s -> DOMAIN s] :
         /\ Events \in Seq(AllEvents)
         /\ Events = [k \in DOMAIN s |-> s[place[k]]]
         /\ \A i \in DOMAIN s : \E k \in DOMAIN s : place[k] = i
         /\ \A k, l \in DOMAIN s : k <= l => key[place[k]][1] <= key[place[l]][1]
  <2> DEFINE V == AllEvents
             sorted == Rearranged(s, key)
  <2>1. s \in Seq(V) /\ Events = sorted
    BY <1>2, <1>3
  <2> HIDE DEF V
  <2>2. \E place \in [DOMAIN s -> DOMAIN s] :
           /\ sorted \in Seq(V)
           /\ sorted = [k \in DOMAIN s |-> s[place[k]]]
           /\ \A i \in DOMAIN s : \E k \in DOMAIN s : place[k] = i
           /\ \A k, l \in DOMAIN s : k <= l => key[place[k]][1] <= key[place[l]][1]
    BY <1>6, <2>1, SortOrders
  <2> HIDE DEF sorted
  <2> QED BY <2>1, <2>2 DEF V
<1>8. DOMAIN Events = DOMAIN s /\ \A k \in DOMAIN s : Events[k] = s[place[k]] /\ place[k] \in DOMAIN s
  BY <1>7
<1>9. Len(Events) \in Nat /\ DOMAIN Events = 1..Len(Events)
  BY <1>7
<1>10. \A k \in DOMAIN Events : Events[k] \in AllEvents /\ Events[k].time \in Nat \ {0}
  BY <1>4, <1>8
<1>11. \A e \in AllEvents : \E k \in DOMAIN Events : Events[k] = e
  BY <1>2, <1>7, <1>8
<1>12. \A k, l \in DOMAIN Events : k <= l => Events[k].time <= Events[l].time
  BY <1>5, <1>7, <1>8
<1> QED BY <1>7, <1>9, <1>10, <1>11, <1>12

\* The horizon is the latest nominal moment before anything went wrong in any
\* channel.
THEOREM HorizonExactHeld == Spec => []HorizonExact
<1>1. LogInv => HorizonExact
  <2> SUFFICES ASSUME LogInv PROVE HorizonExact
    OBVIOUS
  <2> DEFINE ev == Events
             bad == {i \in DOMAIN ev : ev[i].severity \in Serious}
             first == Subsequence(ev, bad)
             good == {i \in DOMAIN ev : ev[i].severity = "INFO" /\ ev[i].time < first[1].time}
             before == Subsequence(ev, good)
             serious == {e.time : e \in {f \in AllEvents : f.severity \in Serious}}
             nominal == {e.time : e \in {f \in AllEvents :
                            f.severity = "INFO" /\ \A t \in serious : f.time < t}}
  <2>1. EventHorizon = IF first = <<>> \/ before = <<>> THEN NoTime ELSE Last(before).time
    BY DEF EventHorizon
  <2>2. /\ ev \in Seq(AllEvents) /\ DOMAIN ev = 1..Len(ev) /\ Len(ev) \in Nat
        /\ \A i \in DOMAIN ev : ev[i] \in AllEvents /\ ev[i].time \in Nat \ {0}
        /\ \A e \in AllEvents : \E i \in DOMAIN ev : ev[i] = e
        /\ \A i, j \in DOMAIN ev : i <= j => ev[i].time <= ev[j].time
    BY EventsSorted
  <2> HIDE DEF ev
  <2>3. serious = {ev[i].time : i \in bad}
    BY <2>2
  <2>4. bad \in SUBSET DOMAIN ev /\ good \in SUBSET DOMAIN ev
    OBVIOUS
  <2>5. /\ first = <<>> <=> bad = {}
        /\ bad # {} => \E a, z \in bad : /\ \A i \in bad : a <= i /\ i <= z
                                         /\ first[1] = ev[a] /\ Last(first) = ev[z]
    <3> HIDE DEF bad
    <3> QED BY <2>2, <2>4, SubsequenceEnds
  <2>6. /\ before = <<>> <=> good = {}
        /\ good # {} => \E a, z \in good : /\ \A i \in good : a <= i /\ i <= z
                                           /\ before[1] = ev[a] /\ Last(before) = ev[z]
    <3> HIDE DEF good
    <3> QED BY <2>2, <2>4, SubsequenceEnds
  <2>7. CASE bad = {}
    <3>1. serious = {} /\ first = <<>>
      BY <2>3, <2>5, <2>7
    <3> HIDE DEF serious, nominal, first, before
    <3>2. EventHorizon = NoTime
      BY <2>1, <3>1
    <3> QED BY <3>1, <3>2 DEF HorizonExact, serious, nominal
  <2>8. CASE bad # {}
    <3>1. PICK a \in bad : (\A i \in bad : a <= i) /\ first[1] = ev[a]
      BY <2>5, <2>8
    <3> HIDE DEF first
    <3>2. ev[a].time \in serious /\ \A t \in serious : ev[a].time <= t
      BY <2>2, <2>3, <2>4, <3>1
    <3>3. serious \subseteq Nat /\ ev[a].time \in Nat
      BY <2>2, <2>3, <2>4
    <3>4. ASSUME NEW i \in DOMAIN ev
          PROVE  (\A t \in serious : ev[i].time < t) <=> ev[i].time < first[1].time
      <4>1. ev[i].time \in Nat
        BY <2>2
      <4> HIDE DEF serious
      <4> QED BY <3>1, <3>2, <3>3, <4>1
    <3>5. nominal = {ev[i].time : i \in good}
      <4> HIDE DEF serious
      <4> QED BY <2>2, <3>4
    <3> HIDE DEF serious, nominal
    <3>6. serious # {} /\ first # <<>>
      BY <2>5, <2>8, <3>2
    <3>7. CASE good = {}
      <4>1. nominal = {} /\ EventHorizon = NoTime
        BY <2>1, <2>6, <3>5, <3>7
      <4> QED BY <4>1 DEF HorizonExact, serious, nominal
    <3>8. CASE good # {}
      <4>1. PICK z \in good : (\A i \in good : i <= z) /\ Last(before) = ev[z]
        BY <2>6, <3>8
      <4> HIDE DEF before
      <4>2. EventHorizon = ev[z].time
        BY <2>1, <2>6, <3>6, <3>8, <4>1
      <4>3. ev[z].time \in nominal /\ \A t \in nominal : t <= ev[z].time
        BY <2>2, <2>4, <3>5, <4>1
      <4>4. nominal \in SUBSET Int
        BY <2>2, <2>4, <3>5
      <4>5. Max(nominal) = ev[z].time /\ nominal # {}
        BY <4>3, <4>4, MaxIs
      <4> QED BY <3>6, <4>2, <4>5 DEF HorizonExact, serious, nominal
    <3> QED BY <3>7, <3>8
  <2> QED BY <2>7, <2>8
<1> QED BY <1>1, LogSorted, PTL

-----------------------------------------------------------------------------
(* The phases. *)

\* The first time of a type of event, none if there is no such event.
LEMMA FirstTimeIs ==
  ASSUME LogInv, NEW type
  PROVE  \/ FirstTime(type) = NoTime /\ \A e \in AllEvents : e.type # type
         \/ /\ FirstTime(type) \in Nat \ {0}
            /\ \E e \in AllEvents : e.type = type
            /\ \A e \in AllEvents : e.type = type => FirstTime(type) <= e.time
<1> DEFINE ev == Events
           indices == {i \in DOMAIN ev : ev[i].type = type}
           found == Subsequence(ev, indices)
<1>1. FirstTime(type) = IF found = <<>> THEN NoTime ELSE found[1].time
  BY DEF FirstTime
<1>2. /\ ev \in Seq(AllEvents) /\ DOMAIN ev = 1..Len(ev) /\ Len(ev) \in Nat
      /\ \A i \in DOMAIN ev : ev[i] \in AllEvents /\ ev[i].time \in Nat \ {0}
      /\ \A e \in AllEvents : \E i \in DOMAIN ev : ev[i] = e
      /\ \A i, j \in DOMAIN ev : i <= j => ev[i].time <= ev[j].time
  BY EventsSorted
<1> HIDE DEF ev
<1>3. /\ found = <<>> <=> indices = {}
      /\ indices # {} => \E a, z \in indices : /\ \A i \in indices : a <= i /\ i <= z
                                               /\ found[1] = ev[a] /\ Last(found) = ev[z]
  <2>1. indices \in SUBSET DOMAIN ev
    OBVIOUS
  <2> HIDE DEF indices
  <2> QED BY <1>2, <2>1, SubsequenceEnds
<1>4. CASE indices = {}
  BY <1>1, <1>2, <1>3, <1>4
<1>5. CASE indices # {}
  <2>1. PICK a \in indices : (\A i \in indices : a <= i) /\ found[1] = ev[a]
    BY <1>3, <1>5
  <2> HIDE DEF found
  <2>2. FirstTime(type) = ev[a].time
    BY <1>1, <1>3, <1>5, <2>1
  <2> QED BY <1>2, <2>1, <2>2
<1> QED BY <1>4, <1>5

\* The parsers name every mode or none.
LEMMA ModesNamed ==
  ASSUME LogInv, NEW i \in DOMAIN Mode
  PROVE  /\ Mode[i].mode # "INITIALISING"
         /\ \A j \in DOMAIN Mode : Mode[i].mode = "unnamed" => Mode[j].mode = "unnamed"
<1>1. "MODE" \in DOMAIN log /\ Mode = log["MODE"] /\ "MODE" \in DOMAIN vehicle.rows
  BY DEF Mode, Rows, LogInv
<1>2. /\ \A row \in vehicle.rows["MODE"] : "mode" \in DOMAIN row /\ row.mode # "INITIALISING"
      /\ \A row, other \in vehicle.rows["MODE"] :
            row.mode = "unnamed" => other.mode = "unnamed"
  BY <1>1, VehiclesAssumption DEF LogInv
<1>3. \A j \in DOMAIN Mode : \E row \in vehicle.rows["MODE"] : Mode[j].mode = row.mode
  <2>1. ASSUME NEW j \in DOMAIN Mode
        PROVE  \E row \in vehicle.rows["MODE"] : Mode[j].mode = row.mode
    <3>1. Mode[j] \in LoggedRows(vehicle, "MODE")
      BY <1>1 DEF LogInv
    <3>2. PICK time \in Nat, row \in vehicle.rows["MODE"] : Mode[j] = Stamped(time, row)
      BY <3>1 DEF LoggedRows
    <3>3. "mode" \in DOMAIN row
      BY <1>2
    <3>4. Stamped(time, row).mode = row.mode
      BY <3>3, RowFields
    <3> QED BY <3>2, <3>4
  <2> QED BY <2>1
<1> QED BY <1>2, <1>3

LEMMA OnlyArmsArm ==
  ASSUME NEW e \in AllEvents, e.type = "ARM"
  PROVE  \E j \in DOMAIN Mode : IsArmed(j)
<1>1. e \in ArmEvents
  BY DEF AllEvents, ModeChanges, Errors, GpsEvents, CrashIndicator, ParameterChanges, Event
<1> QED BY <1>1 DEF ArmEvents, Event

\* The vehicle counts as armed from the first MODE row on, or never.
LEMMA NoPreArm ==
  ASSUME LogInv, Mode # <<>>
  PROVE  PreArm = <<>>
<1>1. DOMAIN Mode = 1..Len(Mode) /\ Len(Mode) \in Nat /\ \A i \in DOMAIN Mode : Mode[i].t \in Nat \ {0}
  BY RowsTimed DEF Mode, Timed
<1>2. Len(Mode) # 0
  <2>1. Mode \in Seq({Mode[i] : i \in 1..Len(Mode)})
    <3>1. "MODE" \in DOMAIN log /\ Mode = log["MODE"]
      BY DEF Mode, Rows
    <3>2. Mode \in Seq(LoggedRows(vehicle, "MODE"))
      BY <3>1 DEF LogInv
    <3> QED BY <3>2
  <2> QED BY <2>1
<1>3. 1 \in DOMAIN Mode
  BY <1>1, <1>2
<1>4. ~(FirstTime("ARM") > Mode[1].t)
  <2>1. CASE Mode[1].mode = "unnamed"
    <3>1. \A j \in DOMAIN Mode : ~IsArmed(j)
      BY <1>3, <2>1, ModesNamed DEF IsArmed
    <3>2. \A e \in AllEvents : e.type # "ARM"
      BY <3>1, OnlyArmsArm
    <3>3. FirstTime("ARM") = NoTime
      BY <3>2, FirstTimeIs
    <3> QED BY <1>1, <1>3, <3>3 DEF NoTime
  <2>2. CASE Mode[1].mode # "unnamed"
    <3>1. IsArmed(1) /\ ~IsArmed(1 - 1)
      BY <1>3, <2>2, ModesNamed DEF IsArmed
    <3>2. Event(Mode[1].t, "ARM", "INFO") \in AllEvents
      BY <1>3, <3>1 DEF ArmEvents, AllEvents
    <3>3. Event(Mode[1].t, "ARM", "INFO").type = "ARM" /\ Event(Mode[1].t, "ARM", "INFO").time = Mode[1].t
      BY DEF Event
    <3>4. FirstTime("ARM") \in Nat /\ FirstTime("ARM") <= Mode[1].t
      BY <3>2, <3>3, FirstTimeIs
    <3> QED BY <1>1, <1>3, <3>4
  <2> QED BY <2>1, <2>2
<1> QED BY <1>4 DEF PreArm

\* One phase per MODE row, in their order.
LEMMA ModePhasesAre ==
  ASSUME LogInv
  PROVE  \E at \in [DOMAIN ModePhases -> DOMAIN Mode] :
            /\ ModePhases \in Seq({ModePhases[k] : k \in DOMAIN ModePhases})
            /\ \A k \in DOMAIN ModePhases :
                  ModePhases[k] = Phase(Mode[at[k]].mode, Mode[at[k]].t, PhaseEnd(at[k]))
            /\ \A k, l \in DOMAIN ModePhases : k < l => at[k] < at[l]
            /\ \A i \in DOMAIN Mode : \E k \in DOMAIN ModePhases : at[k] = i
<1> DEFINE n == Len(Mode)
           phase(i) == Phase(Mode[i].mode, Mode[i].t, PhaseEnd(i))
           V == {phase(i) : i \in DOMAIN Mode}
           seqs == [i \in DOMAIN Mode |->
                       IF Mode[i].mode = "INITIALISING" THEN <<>> ELSE <<phase(i)>>]
           joined == ModePhases
<1>1. n \in Nat /\ DOMAIN Mode = 1..n
  BY RowsTimed DEF Mode, Timed
<1>2. joined = FlattenSeq(seqs)
  BY DEF ModePhases
<1> HIDE DEF phase, joined
<1>3. \A i \in DOMAIN Mode : seqs[i] = <<phase(i)>>
  BY ModesNamed
<1> HIDE DEF n
<1>4. seqs \in Seq(Seq(V)) /\ Len(seqs) = n
  <2>1. ASSUME NEW i \in 1..n
        PROVE  seqs[i] \in Seq(V)
    <3>1. phase(i) \in V /\ seqs[i] = <<phase(i)>>
      BY <1>1, <1>3
    <3> HIDE DEF V, seqs
    <3>2. <<phase(i)>> \in Seq(V)
      BY <3>1
    <3> QED BY <3>1, <3>2
  <2>2. seqs \in [1..n -> Seq(V)]
    BY <1>1, <2>1
  <2> HIDE DEF seqs, V
  <2> QED BY <1>1, <2>2
<1>5. joined \in Seq(V) /\ \E at : Joins(seqs, n, joined, at)
  <2> HIDE DEF seqs, V
  <2> QED BY <1>2, <1>4, FlattenJoins
<1> HIDE DEF seqs, V
<1>6. PICK at : Joins(seqs, n, joined, at)
  BY <1>5
<1> DEFINE row == [k \in DOMAIN joined |-> at[k][1]]
<1>7. ASSUME NEW k \in DOMAIN joined
      PROVE  /\ at[k][1] \in 1..n /\ at[k][2] = 1 /\ joined[k] = phase(at[k][1])
  <2>1. /\ at[k] \in (1..n) \X Nat
        /\ at[k][2] \in DOMAIN seqs[at[k][1]] /\ joined[k] = seqs[at[k][1]][at[k][2]]
    BY <1>6 DEF Joins
  <2>2. at[k][1] \in 1..n
    BY <2>1
  <2>3. seqs[at[k][1]] = <<phase(at[k][1])>>
    BY <1>1, <1>3, <2>2
  <2> QED BY <2>1, <2>2, <2>3
<1>8. row \in [DOMAIN joined -> DOMAIN Mode]
  BY <1>1, <1>7
<1>9. \A k \in DOMAIN joined : joined[k] = phase(row[k])
  BY <1>7
<1>10. ASSUME NEW k \in DOMAIN joined, NEW l \in DOMAIN joined, k < l
       PROVE  row[k] < row[l]
  <2>1. Below(at[k], at[l])
    BY <1>6, <1>10 DEF Joins
  <2>2. ~(at[k][2] < at[l][2])
    BY <1>7
  <2> QED BY <2>1, <2>2 DEF Below
<1>11. ASSUME NEW i \in DOMAIN Mode
       PROVE  \E k \in DOMAIN joined : row[k] = i
  <2>1. 1 \in DOMAIN seqs[i] /\ i \in 1..n
    <3> DEFINE one == <<phase(i)>>
    <3>1. seqs[i] = one /\ i \in 1..n
      BY <1>1, <1>3
    <3>2. 1 \in DOMAIN one
      OBVIOUS
    <3> QED BY <3>1, <3>2
  <2>2. PICK k \in DOMAIN joined : at[k] = <<i, 1>>
    BY <1>6, <2>1 DEF Joins
  <2> QED BY <2>2
<1>12. joined \in Seq({joined[k] : k \in DOMAIN joined})
  <2>1. DOMAIN joined = 1..Len(joined) /\ Len(joined) \in Nat
    BY <1>5
  <2>2. joined \in [1..Len(joined) -> {joined[k] : k \in DOMAIN joined}]
    BY <1>5, <2>1
  <2> QED BY <2>1, <2>2
<1> HIDE DEF row
<1> QED BY <1>8, <1>9, <1>10, <1>11, <1>12 DEF phase, joined

\* As long as no attitude extreme precedes the last MODE row, the phases follow
\* one another and every mode segment lies in one.
THEOREM PhasesTileHeld == Spec => []PhasesTile
<1>1. LogInv => PhasesTile
  <2> DEFINE crash == FirstTime("CRASH_DETECTED")
             phases == Phases
             n == Len(Mode)
             time(i) == Mode[i].t
  <2> SUFFICES ASSUME LogInv, Mode # <<>>, crash = NoTime \/ crash >= Last(Mode).t
               PROVE  /\ \A k \in DOMAIN phases : phases[k].start <= phases[k].end
                      /\ \A j, k \in DOMAIN phases : j < k => phases[j].end <= phases[k].start
                      /\ \A i \in 1..(Len(Mode) - 1) :
                            \E k \in DOMAIN phases :
                                phases[k].start <= Mode[i].t /\ Mode[i + 1].t <= phases[k].end
    BY DEF PhasesTile
  <2>1. /\ n \in Nat /\ DOMAIN Mode = 1..n
        /\ \A i \in 1..n : time(i) \in Nat \ {0}
        /\ \A i, j \in 1..n : i <= j => time(i) <= time(j)
    BY RowsTimed DEF Mode, Timed
  <2>2. crash = NoTime \/ (crash \in Nat \ {0} /\ crash >= time(n))
    BY FirstTimeIs DEF Last
  <2>3. PICK at \in [DOMAIN ModePhases -> DOMAIN Mode] :
           /\ ModePhases \in Seq({ModePhases[k] : k \in DOMAIN ModePhases})
           /\ \A k \in DOMAIN ModePhases :
                 ModePhases[k] = Phase(Mode[at[k]].mode, Mode[at[k]].t, PhaseEnd(at[k]))
           /\ \A k, l \in DOMAIN ModePhases : k < l => at[k] < at[l]
           /\ \A i \in DOMAIN Mode : \E k \in DOMAIN ModePhases : at[k] = i
    BY ModePhasesAre
  <2> DEFINE m == Len(ModePhases)
  <2>4. m \in Nat /\ DOMAIN ModePhases = 1..m
    BY <2>3
  <2>5. /\ \A i \in 1..n : i < n => PhaseEnd(i) = time(i + 1)
        /\ PhaseEnd(n) = IF crash # NoTime THEN crash ELSE time(n)
    BY <2>1 DEF PhaseEnd
  <2>6. phases = ModePhases \o CrashPhase
    BY <2>3, NoPreArm DEF Phases
  <2>7. CrashPhase = IF crash = NoTime THEN <<>> ELSE <<Phase("CRASH", crash, crash + 50)>>
    BY DEF CrashPhase, Second
  <2> HIDE DEF time, n, m, crash, phases
  <2>8. ASSUME NEW i \in 1..n
        PROVE  /\ PhaseEnd(i) \in Nat /\ time(i) <= PhaseEnd(i)
               /\ crash # NoTime => PhaseEnd(i) <= crash
               /\ \A j \in 1..n : i < j => PhaseEnd(i) <= time(j)
    <3>1. CASE i < n
      <4>1. i + 1 \in 1..n /\ n \in 1..n /\ i <= i + 1 /\ i + 1 <= n
        BY <2>1, <3>1
      <4>2. PhaseEnd(i) = time(i + 1)
        BY <2>5, <3>1
      <4>3. time(i) <= time(i + 1) /\ time(i + 1) <= time(n) /\ time(i + 1) \in Nat /\ time(n) \in Nat
        BY <2>1, <4>1
      <4>4. \A j \in 1..n : i < j => time(i + 1) <= time(j)
        BY <2>1, <4>1
      <4> QED BY <2>2, <4>2, <4>3, <4>4
    <3>2. CASE i = n
      <4>1. PhaseEnd(i) = IF crash # NoTime THEN crash ELSE time(i)
        BY <2>5, <3>2
      <4>2. time(i) \in Nat /\ \A j \in 1..n : ~(i < j)
        BY <2>1, <3>2
      <4> QED BY <2>2, <3>2, <4>1, <4>2
    <3> QED BY <2>1, <3>1, <3>2
  <2>9. \A k \in 1..m : /\ at[k] \in 1..n
                        /\ ModePhases[k].start = time(at[k])
                        /\ ModePhases[k].end = PhaseEnd(at[k])
    <3>1. \A name, from, to : Phase(name, from, to).start = from /\ Phase(name, from, to).end = to
      BY DEF Phase
    <3>2. ASSUME NEW k \in 1..m
          PROVE  /\ at[k] \in 1..n
                 /\ ModePhases[k].start = time(at[k])
                 /\ ModePhases[k].end = PhaseEnd(at[k])
      <4>1. ModePhases[k] = Phase(Mode[at[k]].mode, Mode[at[k]].t, PhaseEnd(at[k]))
        BY <2>3, <2>4
      <4>2. at[k] \in 1..n
        BY <2>1, <2>3, <2>4
      <4> QED BY <3>1, <4>1, <4>2 DEF time
    <3> QED BY <3>2
  <2>10. /\ DOMAIN phases = IF crash = NoTime THEN 1..m ELSE 1..(m + 1)
         /\ \A k \in 1..m : phases[k] = ModePhases[k]
         /\ crash # NoTime => /\ phases[m + 1].start = crash
                              /\ phases[m + 1].end = crash + 50
    <3> DEFINE V == {ModePhases[k] : k \in DOMAIN ModePhases} \cup {Phase("CRASH", crash, crash + 50)}
    <3>1. ModePhases \in Seq(V)
      BY <2>3
    <3>2. CASE crash = NoTime
      <4>1. phases = ModePhases
        BY <2>3, <2>6, <2>7, <3>2
      <4> QED BY <2>4, <3>2, <4>1
    <3>3. CASE crash # NoTime
      <4> DEFINE last == Phase("CRASH", crash, crash + 50)
      <4>1. phases = ModePhases \o <<last>>
        BY <2>6, <2>7, <3>3
      <4>2. last.start = crash /\ last.end = crash + 50
        BY DEF Phase
      <4> HIDE DEF last
      <4>3. DOMAIN phases = 1..(m + 1) /\ phases[m + 1] = last
            /\ \A k \in 1..m : phases[k] = ModePhases[k]
        BY <2>3, <2>4, <4>1 DEF m
      <4> QED BY <3>3, <4>2, <4>3
    <3> QED BY <3>2, <3>3
  <2>11. ASSUME NEW k \in DOMAIN phases
         PROVE  k \in 1..m \/ (crash # NoTime /\ k = m + 1)
    BY <2>4, <2>10
  <2>12. ASSUME NEW k \in DOMAIN phases
         PROVE  phases[k].start <= phases[k].end
    <3>1. CASE k \in 1..m
      BY <2>8, <2>9, <2>10, <3>1
    <3>2. CASE crash # NoTime /\ k = m + 1
      BY <2>2, <2>10, <3>2
    <3> QED BY <2>11, <3>1, <3>2
  <2>13. ASSUME NEW j \in DOMAIN phases, NEW k \in DOMAIN phases, j < k
         PROVE  phases[j].end <= phases[k].start
    <3>1. CASE j \in 1..m /\ k \in 1..m
      <4>1. at[j] < at[k] /\ at[j] \in 1..n /\ at[k] \in 1..n
        BY <2>3, <2>4, <2>9, <2>13, <3>1
      <4>2. PhaseEnd(at[j]) <= time(at[k])
        BY <2>8, <4>1
      <4> QED BY <2>9, <2>10, <3>1, <4>2
    <3>2. CASE j \in 1..m /\ crash # NoTime /\ k = m + 1
      <4>1. PhaseEnd(at[j]) <= crash
        BY <2>8, <2>9, <3>2
      <4> QED BY <2>9, <2>10, <3>2, <4>1
    <3>3. CASE j = m + 1
      BY <2>4, <2>11, <2>13, <3>3
    <3> QED BY <2>11, <3>1, <3>2, <3>3
  <2>14. ASSUME NEW i \in 1..(n - 1)
         PROVE  \E k \in DOMAIN phases :
                   phases[k].start <= Mode[i].t /\ Mode[i + 1].t <= phases[k].end
    <3>1. i \in 1..n /\ i < n /\ i + 1 \in 1..n
      BY <2>1
    <3>2. PICK k \in 1..m : at[k] = i
      BY <2>1, <2>3, <2>4, <3>1
    <3>3. k \in DOMAIN phases
      BY <2>4, <2>10
    <3>4. phases[k].start = time(i) /\ phases[k].end = time(i + 1)
      BY <2>5, <2>9, <2>10, <3>1, <3>2
    <3>5. time(i) <= time(i) /\ time(i + 1) <= time(i + 1)
      BY <2>1, <3>1
    <3> QED BY <3>3, <3>4, <3>5 DEF time
  <2> QED BY <2>12, <2>13, <2>14 DEF n
<1> QED BY <1>1, LogSorted, PTL

-----------------------------------------------------------------------------
(* The rules and the timeline. *)

\* What a rule returns has its name, and the time of a sample in its mask when
\* it reports single samples.
LEMMA NamedInstantaneous ==
  ASSUME NEW rule, NEW severity, NEW frame, NEW mask,
         NEW f \in Instantaneous(rule, severity, frame, mask)
  PROVE  f.rule = rule /\ \E i \in mask : f.time = frame[i].t
  BY DEF Instantaneous, Finding

LEMMA NamedSustained ==
  ASSUME NEW rule, NEW severity, NEW frame, NEW mask, NEW least,
         NEW f \in Sustained(rule, severity, frame, mask, least)
  PROVE  f.rule = rule
  BY DEF Sustained, Finding

LEMMA NamedEpisodes ==
  ASSUME NEW rule, NEW severity, NEW frame, NEW mask, NEW gap,
         NEW f \in Episodes(rule, severity, frame, mask, gap)
  PROVE  f.rule = rule
  BY DEF Episodes, Finding

Witnessed == {"GPS_SAT_COUNT_DROP", "FAILSAFE_VERIFY", "UNSAFE_ARM"}

LEMMA EstimatorRules ==
  ASSUME NEW f \in UNION {EKFInnovationVelocity, EKFInnovationPosition, EKFLaneSwitch,
           EKFMagneticInnovation, EKFHeightInnovation, EKFVelocityInnovationSpike,
           EKFPositionOffsetGrowth}
  PROVE  f.rule \notin Witnessed
<1>1. CASE f \in EKFInnovationVelocity
  BY <1>1, NamedSustained DEF EKFInnovationVelocity, Witnessed
<1>2. CASE f \in EKFInnovationPosition
  BY <1>2, NamedSustained DEF EKFInnovationPosition, Witnessed
<1>3. CASE f \in EKFLaneSwitch
  BY <1>3, NamedInstantaneous DEF EKFLaneSwitch, Witnessed
<1>4. CASE f \in EKFMagneticInnovation
  BY <1>4, NamedSustained DEF EKFMagneticInnovation, Witnessed
<1>5. CASE f \in EKFHeightInnovation
  BY <1>5, NamedSustained DEF EKFHeightInnovation, Witnessed
<1>6. CASE f \in EKFVelocityInnovationSpike
  BY <1>6, NamedInstantaneous DEF EKFVelocityInnovationSpike, Witnessed
<1>7. CASE f \in EKFPositionOffsetGrowth
  BY <1>7, NamedSustained DEF EKFPositionOffsetGrowth, Witnessed
<1> QED BY <1>1, <1>2, <1>3, <1>4, <1>5, <1>6, <1>7

LEMMA PositionRules ==
  ASSUME NEW f \in UNION {GPSHDOPDegradation, GPSPositionGlitch, GPSLowSatelliteCount,
           GPSSpoofingIndicator, GPSFixTypeDrop}
  PROVE  f.rule \notin Witnessed
<1>1. CASE f \in GPSHDOPDegradation
  BY <1>1, NamedSustained DEF GPSHDOPDegradation, Witnessed
<1>2. CASE f \in GPSPositionGlitch
  BY <1>2, NamedInstantaneous DEF GPSPositionGlitch, Witnessed
<1>3. CASE f \in GPSLowSatelliteCount
  BY <1>3, NamedSustained DEF GPSLowSatelliteCount, Witnessed
<1>4. CASE f \in GPSSpoofingIndicator
  BY <1>4, NamedInstantaneous DEF GPSSpoofingIndicator, Witnessed
<1>5. CASE f \in GPSFixTypeDrop
  BY <1>5, NamedSustained DEF GPSFixTypeDrop, Witnessed
<1> QED BY <1>1, <1>2, <1>3, <1>4, <1>5

LEMMA VehicleRules ==
  ASSUME NEW f \in UNION {BatteryVoltageSag, BrownoutSignature, LowBatteryCapacity,
           IMUClipping, VibrationRMS, IMURawClipping,
           ESCDesync, MotorOutputSaturation, MotorOutputDrop, UnexpectedModeChange}
  PROVE  f.rule \notin Witnessed
<1>1. CASE f \in BatteryVoltageSag
  BY <1>1, NamedEpisodes DEF BatteryVoltageSag, Witnessed
<1>2. CASE f \in BrownoutSignature
  BY <1>2, NamedSustained DEF BrownoutSignature, Witnessed
<1>3. CASE f \in LowBatteryCapacity
  BY <1>3, NamedSustained DEF LowBatteryCapacity, Witnessed
<1>4. CASE f \in IMUClipping
  BY <1>4, NamedEpisodes DEF IMUClipping, Witnessed
<1>5. CASE f \in VibrationRMS
  BY <1>5, NamedSustained DEF VibrationRMS, Witnessed
<1>6. CASE f \in IMURawClipping
  BY <1>6, NamedInstantaneous DEF IMURawClipping, Witnessed
<1>7. CASE f \in ESCDesync
  BY <1>7, NamedInstantaneous DEF ESCDesync, Witnessed
<1>8. CASE f \in MotorOutputSaturation
  BY <1>8, NamedSustained DEF MotorOutputSaturation, Witnessed
<1>9. CASE f \in MotorOutputDrop
  BY <1>9, NamedInstantaneous DEF MotorOutputDrop, Witnessed
<1>10. CASE f \in UnexpectedModeChange
  BY <1>10, NamedInstantaneous DEF UnexpectedModeChange, Witnessed
<1> QED BY <1>1, <1>2, <1>3, <1>4, <1>5, <1>6, <1>7, <1>8, <1>9, <1>10

LEMMA SatellitesInTimeline ==
  ASSUME NEW f \in GPSSatCountDrop
  PROVE  f.rule = "GPS_SAT_COUNT_DROP"
         /\ \E e \in AllEvents : e.type = "GPS_SAT_DROP" /\ e.time = f.time
<1> DEFINE lost(i) == GPS[i - 1].sats - GPS[i].sats
           drops == {i \in Steps(GPS, 10 * Second) : lost(i) >= 4}
<1>1. \/ f \in Instantaneous("GPS_SAT_COUNT_DROP", "WARNING", GPS, {i \in drops : lost(i) < 6})
      \/ f \in Instantaneous("GPS_SAT_COUNT_DROP", "CRITICAL", GPS, {i \in drops : lost(i) >= 6})
  BY DEF GPSSatCountDrop
<1>2. f.rule = "GPS_SAT_COUNT_DROP" /\ \E i \in drops : f.time = GPS[i].t
  <2> HIDE DEF drops, lost
  <2> QED BY <1>1, NamedInstantaneous
<1>3. PICK i \in drops : f.time = GPS[i].t
  BY <1>2
<1>4. i \in 2..Len(GPS) /\ ManyLost(lost(i))
  BY DEF Steps, ManyLost
<1>5. Event(GPS[i].t, "GPS_SAT_DROP", "CRITICAL") \in GpsEvents
  BY <1>4 DEF GpsEvents
<1> QED BY <1>2, <1>3, <1>5 DEF AllEvents, Event

LEMMA FailsafesInTimeline ==
  ASSUME NEW f \in FailsafeTriggerVerification
  PROVE  f.rule = "FAILSAFE_VERIFY"
         /\ \E e \in AllEvents : e.type = "ERROR" /\ e.time = f.time
<1> DEFINE err == Rows("ERR")
<1>1. f.rule = "FAILSAFE_VERIFY" /\ \E i \in DOMAIN err : f.time = err[i].t
  <2> DEFINE failsafe == {i \in DOMAIN err : err[i].subsys \in Failsafes}
             silent   == {i \in failsafe : Responses(err[i].t) = {}}
             wrong    == {i \in failsafe \ silent :
                             \A j \in Responses(err[i].t) :
                                 Mode[j].mode \notin ExpectedModes(err[i].subsys)}
  <2>1. \/ f \in Instantaneous("FAILSAFE_VERIFY", "CRITICAL", err, silent)
        \/ f \in Instantaneous("FAILSAFE_VERIFY", "WARNING", err, wrong)
    BY DEF FailsafeTriggerVerification
  <2>2. silent \subseteq DOMAIN err /\ wrong \subseteq DOMAIN err
    OBVIOUS
  <2> HIDE DEF silent, wrong, err
  <2> QED BY <2>1, <2>2, NamedInstantaneous
<1>2. PICK i \in DOMAIN err : f.time = err[i].t
  BY <1>1
<1>3. Event(err[i].t, "ERROR", ErrorSeverity(err[i])) \in Errors
  BY DEF Errors
<1> QED BY <1>1, <1>2, <1>3 DEF AllEvents, Event

LEMMA ArmingInTimeline ==
  ASSUME LogInv, NEW f \in ArmingInUnsafeCondition
  PROVE  f.rule = "UNSAFE_ARM"
         /\ \E e \in AllEvents : e.type = "ARM" /\ e.time = f.time
<1> DEFINE named == {i \in DOMAIN Mode : Mode[i].mode \notin {"INITIALISING", "unnamed"}}
           arm == Min(named)
<1>1. named # {} /\ f \in Instantaneous("UNSAFE_ARM", "WARNING", Mode, {arm})
  BY DEF ArmingInUnsafeCondition
<1>2. f.rule = "UNSAFE_ARM" /\ f.time = Mode[arm].t
  BY <1>1, NamedInstantaneous
<1>3. DOMAIN Mode = 1..Len(Mode) /\ Len(Mode) \in Nat
  BY RowsTimed DEF Mode, Timed
<1>4. arm \in named /\ \A m \in named : arm <= m
  <2>1. named \in SUBSET Nat
    BY <1>3
  <2> HIDE DEF named
  <2> QED BY <1>1, <2>1, MinLeast
<1> HIDE DEF arm
<1>5. arm \in DOMAIN Mode /\ IsArmed(arm) /\ ~IsArmed(arm - 1)
  <2>1. arm \in 1..Len(Mode) /\ Mode[arm].mode \notin {"INITIALISING", "unnamed"}
    BY <1>3, <1>4
  <2>2. arm - 1 \notin named
    <3>1. ~(arm <= arm - 1)
      BY <1>3, <2>1
    <3> HIDE DEF named
    <3> QED BY <1>4, <3>1
  <2>3. arm - 1 > 0 => arm - 1 \in DOMAIN Mode
    BY <1>3, <2>1
  <2> QED BY <1>3, <2>1, <2>2, <2>3 DEF IsArmed
<1>6. Event(Mode[arm].t, "ARM", "INFO") \in ArmEvents
  BY <1>5 DEF ArmEvents
<1> DEFINE e == Event(Mode[arm].t, "ARM", "INFO")
<1>7. e \in AllEvents
  BY <1>6 DEF AllEvents
<1>8. e.type = "ARM" /\ e.time = f.time
  BY <1>2 DEF Event
<1> HIDE DEF e
<1> QED BY <1>2, <1>7, <1>8

\* What the rules find about satellites, failsafes and arming is in the event
\* timeline at the same time.
THEOREM FindingsInTimelineHeld == Spec => []FindingsInTimeline
<1>1. LogInv => FindingsInTimeline
  <2> SUFFICES ASSUME LogInv, NEW f \in Findings, f.rule \in DOMAIN Witness
               PROVE  \E e \in AllEvents : e.type = Witness[f.rule] /\ e.time = f.time
    BY DEF FindingsInTimeline
  <2>1. /\ DOMAIN Witness = Witnessed
        /\ Witness["GPS_SAT_COUNT_DROP"] = "GPS_SAT_DROP"
        /\ Witness["FAILSAFE_VERIFY"] = "ERROR" /\ Witness["UNSAFE_ARM"] = "ARM"
    BY DEF Witness, Witnessed
  <2>2. \/ f \in UNION {EKFInnovationVelocity, EKFInnovationPosition, EKFLaneSwitch,
                        EKFMagneticInnovation, EKFHeightInnovation, EKFVelocityInnovationSpike,
                        EKFPositionOffsetGrowth}
        \/ f \in UNION {GPSHDOPDegradation, GPSPositionGlitch, GPSLowSatelliteCount,
                        GPSSpoofingIndicator, GPSFixTypeDrop}
        \/ f \in UNION {BatteryVoltageSag, BrownoutSignature, LowBatteryCapacity,
                        IMUClipping, VibrationRMS, IMURawClipping,
                        ESCDesync, MotorOutputSaturation, MotorOutputDrop, UnexpectedModeChange}
        \/ f \in GPSSatCountDrop \/ f \in FailsafeTriggerVerification
        \/ f \in ArmingInUnsafeCondition
    BY DEF Findings
  <2>3. f \in GPSSatCountDrop \/ f \in FailsafeTriggerVerification \/ f \in ArmingInUnsafeCondition
    BY <2>1, <2>2, EstimatorRules, PositionRules, VehicleRules
  <2>4. CASE f \in GPSSatCountDrop
    BY <2>1, <2>4, SatellitesInTimeline
  <2>5. CASE f \in FailsafeTriggerVerification
    BY <2>1, <2>5, FailsafesInTimeline
  <2>6. CASE f \in ArmingInUnsafeCondition
    BY <2>1, <2>6, ArmingInTimeline
  <2> QED BY <2>3, <2>4, <2>5, <2>6
<1> QED BY <1>1, LogSorted, PTL
=============================================================================
