---------------------------- MODULE ParsingProofs ----------------------------
(* No row is lost or doubled on the way from a log to the frames that readers *)
(* load, for any file, any size of the chunks and any number of attempts.     *)
EXTENDS Parsing, FiniteSetTheorems, SequenceTheorems, TLAPS

\* The rows and frames of an upload, as functions of it: it never changes.
IsRow(u, t, i) == Legible(u) /\ u.messages[i].type = t /\ u.messages[i].time > 0
Rows(u, t, n) == {i \in 1..n : IsRow(u, t, i)}
SortedFrames(u, S) ==
    {s \in [1..Cardinality(S) -> S] :
        /\ IsInjective(s)
        /\ \A i, j \in DOMAIN s : i < j => u.messages[s[i]].time <= u.messages[s[j]].time}
Whole(u, t) == SortedFrames(u, Rows(u, t, Len(u.messages)))

Attempt == [pc : {"idle", "streaming", "uploading"}, next : Nat, todo : SUBSET Types,
            copying : Types \cup {NoType}, buffers : [Types -> Seq(Nat)],
            files : [Types -> Seq(Nat)]]

\* What an attempt has of one type.
Holds(u, a, t) ==
    /\ a.files[t] \in SortedFrames(u, Range(a.files[t]))
    /\ IsInjective(a.buffers[t])
    /\ Range(a.buffers[t]) \cap Range(a.files[t]) = {}
    /\ Range(a.buffers[t]) \cup Range(a.files[t]) = Rows(u, t, a.next - 1)

Once(u, a) ==
    Detect(u) \in {"px4", "mavlink"} => \A t \in Types :
        a.files[t] = <<>> \/ (a.buffers[t] = <<>> /\ a.next > Len(u.messages))

\* A table is never buffered, the parsers that write once do so at the end of the
\* log, and buffers are empty when files are copied.
Kept(u, a) ==
    /\ a \in Attempt
    /\ a.next \in 1..Len(u.messages) + 1
    /\ \A t \in Types : Holds(u, a, t)
    /\ Detect(u) = "table" => \A t \in Types : a.buffers[t] = <<>>
    /\ Once(u, a)
    /\ IF a.pc = "uploading"
       THEN /\ a.next = Len(u.messages) + 1
            /\ \A t \in Types : a.buffers[t] = <<>>
            /\ a.copying \in (IF u.bucket THEN {} ELSE a.todo) \cup {NoType}
       ELSE a.copying = NoType

\* A copy has been made, is being made, was cut off or was made beside another.
Landed(t) == store[t] \in Whole(upload, t) \/ Copying(t) # {} \/ t \in torn

Copied ==
    /\ store \in [Types -> Seq(Nat)] /\ torn \subseteq Types
    /\ \A t \in Types : store[t] \in Whole(upload, t) \cup {<<>>}
    /\ finished => \A t \in Types : Landed(t)
    /\ \A w \in Workers : worker[w].pc = "uploading" =>
          \A t \in Types \ worker[w].todo : Landed(t)

Attempts ==
    /\ upload \in Uploads /\ Admits(upload)
    /\ DOMAIN worker = Workers
    /\ \A w \in Workers : Kept(upload, worker[w])

Inv == Attempts /\ Copied

-----------------------------------------------------------------------------
LEMMA UploadFacts ==
  ASSUME NEW u \in Uploads
  PROVE  /\ u.messages \in Seq(Messages)
         /\ Len(u.messages) \in Nat
         /\ \A i \in 1..Len(u.messages) : u.messages[i] \in Messages
<1>1. u.messages \in Seq(Messages)
  BY ParsingAssumption
<1> QED BY <1>1

\* Rows are positions, and finitely many.
LEMMA RowFacts ==
  ASSUME NEW u, NEW t, NEW n \in Nat
  PROVE  Rows(u, t, n) \subseteq 1..n /\ Rows(u, t, n) \subseteq Nat /\ IsFiniteSet(Rows(u, t, n))
<1>1. Rows(u, t, n) \subseteq 1..n /\ 1..n \subseteq Nat
  BY DEF Rows
<1>2. IsFiniteSet(1..n)
  BY FS_Interval
<1> QED BY <1>1, <1>2, FS_Subset

\* A frame holds exactly its rows.
LEMMA FrameFacts ==
  ASSUME NEW u, NEW S \in SUBSET Nat, IsFiniteSet(S), NEW f \in SortedFrames(u, S)
  PROVE  f \in Seq(Nat) /\ Range(f) = S
<1> DEFINE n == Cardinality(S)
<1>1. n \in Nat
  BY FS_CardinalityType
<1>2. f \in [1..n -> S] /\ f \in Injection(1..n, S)
  BY DEF SortedFrames, Injection
<1>3. Cardinality(1..n) = n
  BY <1>1, FS_Interval
<1>4. f \in Surjection(1..n, S)
  BY <1>2, <1>3, FS_Injection
<1>5. Range(f) = S
  BY <1>2, <1>4 DEF Range, Surjection
<1>6. f \in Seq(Nat)
  <2>1. f \in [1..n -> Nat]
    BY <1>2
  <2> HIDE DEF n
  <2> QED BY <1>1, <2>1, SeqDef
<1> QED BY <1>5, <1>6

LEMMA EmptyFrame ==
  ASSUME NEW u
  PROVE  /\ <<>> \in SortedFrames(u, {})
         /\ Range(<<>>) = {} /\ IsInjective(<<>>)
         /\ \A t : Rows(u, t, 0) = {}
<1>1. Cardinality({}) = 0
  BY FS_EmptySet
<1>2. <<>> \in [1..0 -> {}] /\ DOMAIN <<>> = {}
  OBVIOUS
<1>3. Range(<<>>) = {} /\ IsInjective(<<>>)
  BY <1>2 DEF Range, IsInjective
<1>4. <<>> \in SortedFrames(u, {})
  BY <1>1, <1>2, <1>3 DEF SortedFrames
<1>5. \A t : Rows(u, t, 0) = {}
  BY DEF Rows
<1> QED BY <1>3, <1>4, <1>5

\* A buffer with a new row.
LEMMA AppendFacts ==
  ASSUME NEW s \in Seq(Nat), NEW n \in Nat
  PROVE  /\ Append(s, n) \in Seq(Nat)
         /\ Range(Append(s, n)) = Range(s) \cup {n}
         /\ IsInjective(s) /\ n \notin Range(s) => IsInjective(Append(s, n))
<1>1. /\ Append(s, n) \in Seq(Nat) /\ Len(Append(s, n)) = Len(s) + 1
      /\ \A i \in 1..Len(s) : Append(s, n)[i] = s[i]
      /\ Append(s, n)[Len(s) + 1] = n
      /\ Len(s) \in Nat
      /\ DOMAIN s = 1..Len(s) /\ DOMAIN Append(s, n) = 1..(Len(s) + 1)
  BY AppendProperties
<1>2. \A i \in 1..(Len(s) + 1) : i \in 1..Len(s) \/ i = Len(s) + 1
  BY <1>1
<1>3. Range(Append(s, n)) = Range(s) \cup {n}
  BY <1>1, <1>2 DEF Range
<1>4. IsInjective(s) /\ n \notin Range(s) => IsInjective(Append(s, n))
  BY <1>1, <1>2 DEF Range, IsInjective
<1> QED BY <1>1, <1>3, <1>4

\* The range of a file or a buffer is a finite set of positions.
LEMMA HoldsFacts ==
  ASSUME NEW u \in Uploads, NEW a, Kept(u, a), NEW t \in Types
  PROVE  /\ IsFiniteSet(Range(a.files[t]) \cup Range(a.buffers[t]))
         /\ Range(a.files[t]) \cup Range(a.buffers[t]) \in SUBSET Nat
         /\ Range(a.files[t]) \cup Range(a.buffers[t]) = Rows(u, t, a.next - 1)
<1>1. Holds(u, a, t) /\ a.next \in 1..Len(u.messages) + 1
  BY DEF Kept
<1>2. Range(a.files[t]) \cup Range(a.buffers[t]) = Rows(u, t, a.next - 1)
  BY <1>1 DEF Holds
<1>3. a.next - 1 \in Nat
  BY <1>1, UploadFacts
<1> QED BY <1>2, <1>3, RowFacts
-----------------------------------------------------------------------------
\* What each step makes of an attempt keeps every row.
LEMMA KeptIdle ==
  ASSUME NEW u \in Uploads
  PROVE  Kept(u, Idle) /\ Kept(u, [Idle EXCEPT !.pc = "streaming"])
<1> DEFINE streaming == [Idle EXCEPT !.pc = "streaming"]
<1>1. /\ Idle.next = 1 /\ Idle.copying = NoType /\ Idle.pc = "idle"
      /\ \A t \in Types : Idle.files[t] = <<>> /\ Idle.buffers[t] = <<>>
      /\ streaming.next = 1 /\ streaming.copying = NoType /\ streaming.pc = "streaming"
      /\ \A t \in Types : streaming.files[t] = <<>> /\ streaming.buffers[t] = <<>>
  BY DEF Idle
<1>2. Idle \in Attempt /\ streaming \in Attempt
  <2>1. <<>> \in Seq(Nat)
    BY EmptySeq
  <2> QED BY <2>1 DEF Idle, Attempt
<1> HIDE DEF streaming
<1>3. \A t \in Types : Holds(u, Idle, t) /\ Holds(u, streaming, t)
  <2>1. /\ <<>> \in SortedFrames(u, {}) /\ Range(<<>>) = {} /\ IsInjective(<<>>)
    BY EmptyFrame
  <2>2. \A t \in Types : Rows(u, t, Idle.next - 1) = {} /\ Rows(u, t, streaming.next - 1) = {}
    <3>1. Idle.next - 1 = 0 /\ streaming.next - 1 = 0
      BY <1>1
    <3>2. \A t : Rows(u, t, 0) = {}
      BY EmptyFrame
    <3> QED BY <3>1, <3>2
  <2>3. \A t \in Types : Holds(u, Idle, t)
    BY <1>1, <2>1, <2>2 DEF Holds
  <2>4. \A t \in Types : Holds(u, streaming, t)
    BY <1>1, <2>1, <2>2 DEF Holds
  <2> QED BY <2>3, <2>4
<1>4. 1 \in 1..Len(u.messages) + 1
  BY UploadFacts
<1>5. Kept(u, Idle)
  BY <1>1, <1>2, <1>3, <1>4 DEF Kept, Once
<1>6. Kept(u, streaming)
  BY <1>1, <1>2, <1>3, <1>4 DEF Kept, Once
<1> QED BY <1>5, <1>6 DEF streaming

LEMMA KeptFlush ==
  ASSUME NEW u \in Uploads, NEW a, Kept(u, a), NEW t \in Types, a.pc = "streaming",
         Detect(u) = "ardupilot" \/ a.next > Len(u.messages),
         NEW frame \in SortedFrames(u, Range(a.files[t]) \cup Range(a.buffers[t])),
         NEW b, b = [a EXCEPT !.buffers[t] = <<>>, !.files[t] = frame]
  PROVE  Kept(u, b)
<1>1. /\ a \in Attempt /\ a.next \in 1..Len(u.messages) + 1 /\ a.copying = NoType
      /\ \A x \in Types : Holds(u, a, x)
      /\ Detect(u) = "table" => \A x \in Types : a.buffers[x] = <<>>
  BY DEF Kept
<1>2. /\ frame \in Seq(Nat)
      /\ Range(frame) = Range(a.files[t]) \cup Range(a.buffers[t])
      /\ Range(a.files[t]) \cup Range(a.buffers[t]) = Rows(u, t, a.next - 1)
  BY HoldsFacts, FrameFacts
<1>3. <<>> \in Seq(Nat) /\ Range(<<>>) = {} /\ IsInjective(<<>>)
  BY EmptySeq, EmptyFrame
<1>4. /\ b \in Attempt /\ b.pc = "streaming" /\ b.next = a.next /\ b.copying = NoType
      /\ b.files[t] = frame /\ b.buffers[t] = <<>>
      /\ \A x \in Types : x # t => b.files[x] = a.files[x] /\ b.buffers[x] = a.buffers[x]
  BY <1>1, <1>2, <1>3 DEF Attempt
<1>5. \A x \in Types : Holds(u, b, x)
  <2>1. Holds(u, b, t)
    BY <1>2, <1>3, <1>4 DEF Holds
  <2>2. \A x \in Types : x # t => Holds(u, b, x)
    BY <1>1, <1>4 DEF Holds
  <2> QED BY <2>1, <2>2
<1>6. Once(u, b)
  BY <1>4 DEF Kept, Once
<1> QED BY <1>1, <1>4, <1>5, <1>6 DEF Kept

\* The next message is no row ...
LEMMA KeptSkip ==
  ASSUME NEW u \in Uploads, NEW a, Kept(u, a), a.pc = "streaming",
         a.next <= Len(u.messages), \A t \in Types : ~IsRow(u, t, a.next),
         NEW b, b = [a EXCEPT !.next = a.next + 1]
  PROVE  Kept(u, b)
<1>1. /\ a \in Attempt /\ a.next \in 1..Len(u.messages) + 1 /\ a.copying = NoType
      /\ \A t \in Types : Holds(u, a, t)
      /\ Detect(u) = "table" => \A t \in Types : a.buffers[t] = <<>>
      /\ Len(u.messages) \in Nat
  BY UploadFacts DEF Kept
<1>2. /\ b \in Attempt /\ b.pc = "streaming" /\ b.next = a.next + 1 /\ b.copying = NoType
      /\ b.files = a.files /\ b.buffers = a.buffers
      /\ b.next \in 1..Len(u.messages) + 1
  <2>1. a.next + 1 \in 1..Len(u.messages) + 1 /\ a.next + 1 \in Nat
    BY <1>1
  <2> QED BY <1>1, <2>1 DEF Attempt
<1>3. \A t \in Types : Rows(u, t, b.next - 1) = Rows(u, t, a.next - 1)
  BY <1>1, <1>2 DEF Rows
<1>4. \A t \in Types : Holds(u, b, t)
  BY <1>1, <1>2, <1>3 DEF Holds
<1>5. Once(u, b)
  BY <1>1, <1>2 DEF Kept, Once
<1> QED BY <1>1, <1>2, <1>4, <1>5 DEF Kept

\* ... or one of a type.
LEMMA KeptAppend ==
  ASSUME NEW u \in Uploads, NEW a, Kept(u, a), a.pc = "streaming", Detect(u) # "table",
         a.next <= Len(u.messages), NEW t \in Types, IsRow(u, t, a.next),
         NEW b, b = [a EXCEPT !.next = a.next + 1, !.buffers[t] = Append(@, a.next)]
  PROVE  Kept(u, b)
<1> DEFINE n == a.next
<1>1. /\ a \in Attempt /\ n \in 1..Len(u.messages) + 1 /\ a.copying = NoType
      /\ \A x \in Types : Holds(u, a, x)
      /\ Len(u.messages) \in Nat /\ n \in Nat /\ n - 1 \in Nat
  BY UploadFacts DEF Kept
<1>2. a.buffers[t] \in Seq(Nat)
  BY <1>1 DEF Attempt
<1>3. Range(a.files[t]) \cup Range(a.buffers[t]) = Rows(u, t, n - 1)
  BY HoldsFacts
<1>4. n \notin Rows(u, t, n - 1)
  BY <1>1 DEF Rows
<1>5. /\ Append(a.buffers[t], n) \in Seq(Nat)
      /\ Range(Append(a.buffers[t], n)) = Range(a.buffers[t]) \cup {n}
      /\ IsInjective(Append(a.buffers[t], n))
  BY <1>1, <1>2, <1>3, <1>4, AppendFacts DEF Holds
<1>6. /\ b \in Attempt /\ b.pc = "streaming" /\ b.next = n + 1 /\ b.copying = NoType
      /\ b.files = a.files /\ b.buffers[t] = Append(a.buffers[t], n)
      /\ \A x \in Types : x # t => b.buffers[x] = a.buffers[x]
      /\ b.next \in 1..Len(u.messages) + 1 /\ b.next - 1 = n
  <2>1. n + 1 \in 1..Len(u.messages) + 1 /\ n + 1 \in Nat /\ (n + 1) - 1 = n
    BY <1>1
  <2>2. b = [a EXCEPT !.next = n + 1, !.buffers[t] = Append(a.buffers[t], n)]
    BY <1>1 DEF Attempt
  <2> DEFINE s == Append(a.buffers[t], n)
  <2> HIDE DEF n, s
  <2>3. b = [a EXCEPT !.next = n + 1, !.buffers[t] = s] /\ s \in Seq(Nat)
    BY <1>5, <2>2 DEF s
  <2>5. a.buffers \in [Types -> Seq(Nat)]
    BY <1>1 DEF Attempt
  <2>4. /\ b \in Attempt /\ b.pc = "streaming" /\ b.next = n + 1 /\ b.copying = NoType
        /\ b.files = a.files /\ b.buffers = [a.buffers EXCEPT ![t] = s]
    <3>1. a \in Attempt /\ a.copying = NoType /\ n + 1 \in Nat
      BY <1>1, <2>1
    <3>2. b = [a EXCEPT !.next = n + 1, !.buffers = [a.buffers EXCEPT ![t] = s]]
      BY <2>3, <3>1 DEF Attempt
    <3>3. [a.buffers EXCEPT ![t] = s] \in [Types -> Seq(Nat)]
      BY <2>3, <2>5
    <3> QED BY <3>1, <3>2, <3>3 DEF Attempt
  <2> QED BY <2>1, <2>4, <2>5 DEF s
<1>7. Rows(u, t, n) = Rows(u, t, n - 1) \cup {n}
  BY <1>1 DEF Rows
<1>8. \A x \in Types : x # t => Rows(u, x, n) = Rows(u, x, n - 1)
  BY <1>1 DEF Rows, IsRow
<1> HIDE DEF n
<1>9. Holds(u, b, t)
  BY <1>1, <1>3, <1>4, <1>5, <1>6, <1>7 DEF Holds
<1>10. \A x \in Types : x # t => Holds(u, b, x)
  BY <1>1, <1>6, <1>8 DEF Holds, n
<1>11. Once(u, b)
  BY <1>1, <1>6 DEF Kept, Once, n
<1> QED BY <1>6, <1>9, <1>10, <1>11 DEF Kept

\* A table is read at once.
LEMMA KeptTable ==
  ASSUME NEW u \in Uploads, NEW a, Kept(u, a), a.pc = "streaming", Detect(u) = "table",
         NEW files, DOMAIN files = Types, files = [t \in Types |-> files[t]],
         \A t \in Types : files[t] \in Whole(u, t),
         NEW b, b = [a EXCEPT !.next = Len(u.messages) + 1, !.files = files]
  PROVE  Kept(u, b)
<1>1. /\ a \in Attempt /\ a.copying = NoType /\ Len(u.messages) \in Nat
      /\ \A t \in Types : a.buffers[t] = <<>>
  BY UploadFacts DEF Kept
<1>2. \A t \in Types : files[t] \in Seq(Nat) /\ Range(files[t]) = Rows(u, t, Len(u.messages))
  BY <1>1, RowFacts, FrameFacts DEF Whole
<1>3. files \in [Types -> Seq(Nat)]
  BY <1>2
<1>4. /\ b \in Attempt /\ b.pc = "streaming" /\ b.next = Len(u.messages) + 1
      /\ b.copying = NoType /\ b.files = files /\ b.buffers = a.buffers
      /\ b.next \in 1..Len(u.messages) + 1 /\ b.next - 1 = Len(u.messages)
  <2> DEFINE m == Len(u.messages)
  <2>1. m + 1 \in 1..m + 1 /\ m + 1 \in Nat /\ (m + 1) - 1 = m
    BY <1>1
  <2> HIDE DEF m
  <2>2. /\ b \in Attempt /\ b.pc = "streaming" /\ b.next = m + 1
        /\ b.copying = NoType /\ b.files = files /\ b.buffers = a.buffers
    BY <1>1, <1>3, <2>1 DEF Attempt, m
  <2> QED BY <2>1, <2>2 DEF m
<1>5. \A t \in Types : Holds(u, b, t)
  <2>1. IsInjective(<<>>) /\ Range(<<>>) = {}
    BY EmptyFrame
  <2> QED BY <1>1, <1>2, <1>4, <2>1 DEF Holds, Whole
<1> QED BY <1>1, <1>4, <1>5 DEF Kept, Once

\* When it copies, an attempt has the whole frames.
LEMMA KeptWhole ==
  ASSUME NEW u \in Uploads, NEW a, Kept(u, a), a.next = Len(u.messages) + 1,
         \A t \in Types : a.buffers[t] = <<>>
  PROVE  /\ \A t \in Types : a.files[t] \in Whole(u, t)
         /\ a.files \in [Types -> Seq(Nat)]
<1>1. a.next - 1 = Len(u.messages)
  BY UploadFacts
<1>2. \A t \in Types : Holds(u, a, t) /\ Range(a.buffers[t]) = {}
  BY EmptyFrame DEF Kept
<1>3. \A t \in Types : Range(a.files[t]) = Rows(u, t, Len(u.messages))
  BY <1>1, <1>2 DEF Holds
<1> QED BY <1>2, <1>3 DEF Holds, Whole, Kept, Attempt
-----------------------------------------------------------------------------
LEMMA Same ==
  /\ \A t, i : Row(t, i) <=> IsRow(upload, t, i)
  /\ \A t, n : RowsOf(t, n) = Rows(upload, t, n)
  /\ \A S : Frames(S) = SortedFrames(upload, S)
<1>1. \A t, i : Row(t, i) <=> IsRow(upload, t, i)
  BY DEF Row, IsRow
<1>2. \A t, n : RowsOf(t, n) = Rows(upload, t, n)
  BY <1>1 DEF RowsOf, Rows
<1>3. \A S : Frames(S) = SortedFrames(upload, S)
  BY DEF Frames, SortedFrames, Time
<1> QED BY <1>1, <1>2, <1>3

\* One attempt moves.
LEMMA Move ==
  ASSUME Attempts, NEW w \in Workers, upload' = upload, NEW b, Kept(upload, b),
         worker' = [worker EXCEPT ![w] = b]
  PROVE  /\ Attempts'
         /\ worker'[w] = b
         /\ \A x \in Workers : x # w => worker'[x] = worker[x]
<1>1. /\ worker'[w] = b /\ DOMAIN worker' = Workers
      /\ \A x \in Workers : x # w => worker'[x] = worker[x]
  BY DEF Attempts
<1>2. \A x \in Workers : Kept(upload', worker'[x])
  BY <1>1 DEF Attempts
<1> QED BY <1>1, <1>2 DEF Attempts

\* It copies nothing: what readers find stays as it is.
LEMMA QuietMove ==
  ASSUME Inv, NEW w \in Workers, upload' = upload, NEW b, Kept(upload, b),
         worker' = [worker EXCEPT ![w] = b], UNCHANGED <<store, torn>>,
         b.copying = worker[w].copying,
         b.pc = "uploading" => \A t \in Types \ b.todo : Landed(t),
         finished' => finished \/ \A t \in Types : Landed(t)
  PROVE  Inv'
<1>1. /\ Attempts' /\ worker'[w] = b
      /\ \A x \in Workers : x # w => worker'[x] = worker[x]
  BY Move DEF Inv
<1>2. \A t : Landed(t) <=> Landed(t)'
  BY <1>1 DEF Landed, Copying
<1>3. Copied'
  <2>1. /\ store' \in [Types -> Seq(Nat)] /\ torn' \subseteq Types
        /\ \A t \in Types : store'[t] \in Whole(upload', t) \cup {<<>>}
    BY DEF Inv, Copied
  <2>2. finished' => \A t \in Types : Landed(t)'
    BY <1>2 DEF Inv, Copied
  <2>3. \A x \in Workers : worker'[x].pc = "uploading" =>
           \A t \in Types \ worker'[x].todo : Landed(t)'
    BY <1>1, <1>2 DEF Inv, Copied
  <2> QED BY <2>1, <2>2, <2>3 DEF Copied
<1> QED BY <1>1, <1>3 DEF Inv
LEMMA InitInv == Init => Inv
<1> SUFFICES ASSUME Init PROVE Inv
  OBVIOUS
<1>1. upload \in Uploads /\ Admits(upload) /\ worker = [w \in Workers |-> Idle]
      /\ store = [t \in Types |-> <<>>] /\ torn = {} /\ finished = FALSE
  BY DEF Init
<1>2. Attempts
  BY <1>1, KeptIdle DEF Attempts
<1>3. Copied
  <2>1. <<>> \in Seq(Nat) /\ Idle.pc # "uploading"
    BY EmptySeq DEF Idle
  <2> QED BY <1>1, <2>1 DEF Copied
<1> QED BY <1>2, <1>3 DEF Inv

LEMMA BeginInv == ASSUME Inv, NEW w \in Workers, Begin(w) PROVE Inv'
<1> DEFINE b == [Idle EXCEPT !.pc = "streaming"]
<1>1. /\ Kept(upload, b) /\ b.pc = "streaming" /\ b.copying = NoType
  BY KeptIdle DEF Inv, Attempts, Idle
<1>2. worker[w].copying = NoType
  BY DEF Inv, Attempts, Kept, Begin
<1>3. /\ worker' = [worker EXCEPT ![w] = b] /\ UNCHANGED <<upload, store, torn, finished>>
  BY DEF Begin
<1> HIDE DEF b
<1> QED BY <1>1, <1>2, <1>3, QuietMove

LEMMA FlushMove ==
  ASSUME Inv, NEW w \in Workers, NEW b, Kept(upload, b), b.pc = "streaming",
         b.copying = NoType, worker[w].pc = "streaming",
         worker' = [worker EXCEPT ![w] = b], UNCHANGED <<upload, store, finished, torn>>
  PROVE  Inv'
<1>1. worker[w].copying = NoType
  BY DEF Inv, Attempts, Kept
<1> QED BY <1>1, QuietMove

LEMMA ReadInv == ASSUME Inv, NEW w \in Workers, Read(w) PROVE Inv'
<1> DEFINE a == worker[w]
           n == a.next
<1>1. /\ upload \in Uploads /\ Kept(upload, a) /\ a.pc = "streaming"
      /\ Detect(upload) # "table" /\ n <= Len(upload.messages) /\ a \in Attempt
      /\ a.copying = NoType
      /\ DOMAIN worker = Workers
  BY DEF Inv, Attempts, Read, Kept
<1>2. UNCHANGED <<upload, store, finished, torn>>
  BY DEF Read
<1>3. CASE /\ \A t \in Types : ~Row(t, n)
           /\ worker' = [worker EXCEPT ![w].next = n + 1]
  <2> DEFINE b == [a EXCEPT !.next = n + 1]
  <2>1. worker' = [worker EXCEPT ![w] = b]
    BY <1>1, <1>3
  <2>2. b.pc = "streaming" /\ b.copying = NoType
    BY <1>1 DEF Attempt
  <2>3. \A t \in Types : ~IsRow(upload, t, n)
    BY <1>3, Same
  <2>4. Kept(upload, b)
    BY <1>1, <2>3, KeptSkip
  <2> HIDE DEF b
  <2> QED BY <1>1, <1>2, <2>1, <2>2, <2>4, FlushMove
<1>4. ASSUME NEW t \in Types, Row(t, n),
             LET b == [a EXCEPT !.next = n + 1, !.buffers[t] = Append(@, n)] IN
             IF Detect(upload) = "ardupilot" /\ Len(b.buffers[t]) >= Chunk
             THEN \E c \in Flush(b, t) : worker' = [worker EXCEPT ![w] = c]
             ELSE worker' = [worker EXCEPT ![w] = b]
      PROVE  Inv'
  <2> DEFINE b == [a EXCEPT !.next = n + 1, !.buffers[t] = Append(@, n)]
  <2>1. IsRow(upload, t, n)
    BY <1>4, Same
  <2>2. Kept(upload, b)
    BY <1>1, <2>1, KeptAppend
  <2>3. b.pc = "streaming" /\ b.copying = NoType
    BY <1>1 DEF Attempt
  <2>4. IF Detect(upload) = "ardupilot" /\ Len(b.buffers[t]) >= Chunk
        THEN \E c \in Flush(b, t) : worker' = [worker EXCEPT ![w] = c]
        ELSE worker' = [worker EXCEPT ![w] = b]
    BY <1>4
  <2> HIDE DEF b
  <2>5. CASE worker' = [worker EXCEPT ![w] = b]
    BY <1>1, <1>2, <2>2, <2>3, <2>5, FlushMove
  <2>6. CASE /\ Detect(upload) = "ardupilot"
             /\ \E c \in Flush(b, t) : worker' = [worker EXCEPT ![w] = c]
    <3>1. PICK c \in Flush(b, t) : worker' = [worker EXCEPT ![w] = c]
      BY <2>6
    <3>2. PICK frame \in Frames(Range(b.files[t]) \cup Range(b.buffers[t])) :
             c = [b EXCEPT !.buffers[t] = <<>>, !.files[t] = frame]
      BY DEF Flush
    <3>3. frame \in SortedFrames(upload, Range(b.files[t]) \cup Range(b.buffers[t]))
      BY Same
    <3>4. Kept(upload, c)
      BY <1>1, <2>2, <2>3, <2>6, <3>2, <3>3, KeptFlush
    <3>5. c.pc = "streaming" /\ c.copying = NoType
      BY <2>2, <2>3, <3>2 DEF Kept, Attempt
    <3> QED BY <1>1, <1>2, <3>1, <3>4, <3>5, FlushMove
  <2> QED BY <2>4, <2>5, <2>6
<1> QED BY <1>3, <1>4 DEF Read

LEMMA WriteInv ==
  ASSUME Inv, NEW w \in Workers, NEW t \in Types, FlushRest(w, t) \/ WriteFrame(w, t)
  PROVE  Inv'
<1> DEFINE a == worker[w]
<1>1. /\ upload \in Uploads /\ Kept(upload, a) /\ a.pc = "streaming"
      /\ a.next > Len(upload.messages) /\ a \in Attempt /\ a.copying = NoType
      /\ DOMAIN worker = Workers
      /\ UNCHANGED <<upload, store, finished, torn>>
  BY DEF Inv, Attempts, FlushRest, WriteFrame, Kept
<1>2. PICK frame, b :
        /\ frame \in SortedFrames(upload, Range(a.files[t]) \cup Range(a.buffers[t]))
        /\ b = [a EXCEPT !.buffers[t] = <<>>, !.files[t] = frame]
        /\ worker' = [worker EXCEPT ![w] = b]
  <2>1. CASE FlushRest(w, t)
    <3>1. PICK c \in Flush(a, t) : worker' = [worker EXCEPT ![w] = c]
      BY <2>1 DEF FlushRest
    <3>2. PICK frame \in Frames(Range(a.files[t]) \cup Range(a.buffers[t])) :
             c = [a EXCEPT !.buffers[t] = <<>>, !.files[t] = frame]
      BY DEF Flush
    <3> QED BY <3>1, <3>2, Same
  <2>2. CASE WriteFrame(w, t)
    <3>1. PICK frame \in Frames(Range(a.buffers[t])) :
             worker' = [worker EXCEPT ![w].buffers[t] = <<>>, ![w].files[t] = frame]
      BY <2>2 DEF WriteFrame
    <3>2. worker' = [worker EXCEPT ![w] = [a EXCEPT !.buffers[t] = <<>>, !.files[t] = frame]]
      BY <1>1, <3>1
    <3>3. a.files[t] = <<>>
      BY <1>1, <2>2 DEF WriteFrame, Kept, Once
    <3>4. Range(a.files[t]) \cup Range(a.buffers[t]) = Range(a.buffers[t])
      BY <3>3, EmptyFrame
    <3> QED BY <3>1, <3>2, <3>4, Same
  <2> QED BY <2>1, <2>2
<1>3. Kept(upload, b)
  BY <1>1, <1>2, KeptFlush
<1>4. b.pc = "streaming" /\ b.copying = NoType
  BY <1>1, <1>2 DEF Attempt
<1> QED BY <1>1, <1>2, <1>3, <1>4, FlushMove

LEMMA ParseTableInv == ASSUME Inv, NEW w \in Workers, ParseTable(w) PROVE Inv'
<1> DEFINE a == worker[w]
           n == Len(upload.messages)
<1>1. /\ upload \in Uploads /\ Kept(upload, a) /\ a.pc = "streaming"
      /\ Detect(upload) = "table" /\ a \in Attempt /\ a.copying = NoType
      /\ DOMAIN worker = Workers
      /\ UNCHANGED <<upload, store, finished, torn>>
  BY DEF Inv, Attempts, ParseTable, Kept
<1>2. PICK files \in [Types -> UNION {Frames(RowsOf(t, n)) : t \in Types}] :
          /\ \A t \in Types : files[t] \in Frames(RowsOf(t, n))
          /\ worker' = [worker EXCEPT ![w].next = n + 1, ![w].files = files]
  BY DEF ParseTable
<1> DEFINE b == [a EXCEPT !.next = n + 1, !.files = files]
<1>3. worker' = [worker EXCEPT ![w] = b]
  BY <1>1, <1>2
<1>4. b.pc = "streaming" /\ b.copying = NoType
  BY <1>1 DEF Attempt
<1>5. \A t \in Types : files[t] \in Whole(upload, t)
  BY <1>2, Same DEF Whole
<1>6. DOMAIN files = Types /\ files = [t \in Types |-> files[t]]
  BY <1>2
<1>7. Kept(upload, b)
  BY <1>1, <1>5, <1>6, KeptTable
<1> HIDE DEF b
<1> QED BY <1>1, <1>3, <1>4, <1>7, FlushMove

LEMMA ParsedInv == ASSUME Inv, NEW w \in Workers, Parsed(w) PROVE Inv'
<1> DEFINE a == worker[w]
           todo == {t \in Types : a.files[t] # <<>>}
           b == [a EXCEPT !.pc = "uploading", !.todo = todo]
<1>1. /\ upload \in Uploads /\ Kept(upload, a) /\ a.pc = "streaming" /\ a \in Attempt
      /\ a.next > Len(upload.messages) /\ a.next \in 1..Len(upload.messages) + 1
      /\ a.copying = NoType /\ DOMAIN worker = Workers
      /\ \A t \in Types : a.buffers[t] = <<>>
      /\ UNCHANGED <<upload, store, finished, torn>>
  BY DEF Inv, Attempts, Parsed, Kept
<1>2. worker' = [worker EXCEPT ![w] = b]
  BY <1>1 DEF Parsed
<1>3. a.next = Len(upload.messages) + 1
  BY <1>1, UploadFacts
<1>4. \A t \in Types : a.files[t] \in Whole(upload, t)
  BY <1>1, <1>3, KeptWhole
<1>5. \A t \in Types \ todo : Landed(t)
  BY <1>4 DEF Inv, Copied, Landed
<1> HIDE DEF todo
<1>6. /\ b \in Attempt /\ b.pc = "uploading" /\ b.todo = todo /\ b.copying = NoType
      /\ b.next = a.next /\ b.files = a.files /\ b.buffers = a.buffers
  BY <1>1 DEF Attempt, todo
<1> HIDE DEF b
<1>7. Kept(upload, b)
  BY <1>1, <1>3, <1>6 DEF Kept, Holds, Once
<1> QED BY <1>1, <1>2, <1>5, <1>6, <1>7, QuietMove

LEMMA FinishInv == ASSUME Inv, NEW w \in Workers, Finish(w) PROVE Inv'
<1>1. /\ upload \in Uploads /\ worker[w].copying = NoType
      /\ \A t \in Types : Landed(t)
  BY DEF Inv, Attempts, Copied, Kept, Finish
<1>2. Kept(upload, Idle) /\ Idle.pc = "idle" /\ Idle.copying = NoType
  BY <1>1, KeptIdle DEF Idle
<1>3. /\ worker' = [worker EXCEPT ![w] = Idle] /\ UNCHANGED <<upload, store, torn>>
  BY DEF Finish
<1> QED BY <1>1, <1>2, <1>3, QuietMove
\* An attempt copies, or is cut off: what has landed stays so.
LEMMA CopyMove ==
  ASSUME Inv, NEW w \in Workers, upload' = upload, finished' = finished,
         NEW b, Kept(upload, b), worker' = [worker EXCEPT ![w] = b],
         store' \in [Types -> Seq(Nat)], torn' \subseteq Types,
         \A t \in Types : store'[t] \in Whole(upload, t) \cup {<<>>},
         \A t \in Types : Landed(t) => Landed(t)',
         b.pc = "uploading" => \A t \in Types \ b.todo : Landed(t)'
  PROVE  Inv'
<1>1. /\ Attempts' /\ worker'[w] = b
      /\ \A x \in Workers : x # w => worker'[x] = worker[x]
  BY Move DEF Inv
<1>2. finished' => \A t \in Types : Landed(t)'
  BY DEF Inv, Copied
<1>3. \A x \in Workers : worker'[x].pc = "uploading" =>
         \A t \in Types \ worker'[x].todo : Landed(t)'
  BY <1>1 DEF Inv, Copied
<1>4. Copied'
  BY <1>2, <1>3 DEF Copied
<1> QED BY <1>1, <1>4 DEF Inv

LEMMA FailInv == ASSUME Inv, NEW w \in Workers, Fail(w) PROVE Inv'
<1> DEFINE a == worker[w]
           t == a.copying
<1>1. /\ upload \in Uploads /\ DOMAIN worker = Workers /\ Kept(upload, a)
      /\ \A x \in Types : store[x] \in Whole(upload, x) \cup {<<>>}
      /\ store \in [Types -> Seq(Nat)] /\ torn \subseteq Types
      /\ t \in Types \cup {NoType}
  BY DEF Inv, Attempts, Copied, Kept, Attempt
<1>2. Kept(upload, Idle) /\ Idle.pc # "uploading" /\ Idle.copying = NoType
  BY <1>1, KeptIdle DEF Idle
<1>3. /\ worker' = [worker EXCEPT ![w] = Idle] /\ UNCHANGED <<upload, finished>>
      /\ torn' = torn \cup ({t} \ {NoType})
  BY DEF Fail
<1>4. t \in torn \/ UNCHANGED store
  BY DEF Fail
<1>5. ASSUME t \in torn
      PROVE  /\ \E left \in Whole(upload, t) \cup {<<>>} : store' = [store EXCEPT ![t] = left]
             /\ t \in Types /\ store' \in [Types -> Seq(Nat)]
  <2>1. t \in Types /\ t # NoType
    BY <1>1, <1>5, ParsingAssumption
  <2>2. a.next = Len(upload.messages) + 1 /\ \A x \in Types : a.buffers[x] = <<>>
    BY <1>1, <2>1 DEF Kept
  <2>3. /\ \A x \in Types : a.files[x] \in Whole(upload, x)
        /\ a.files \in [Types -> Seq(Nat)]
    BY <1>1, <2>2, KeptWhole
  <2>4. \E left \in {<<>>, a.files[t]} : store' = [store EXCEPT ![t] = left]
    BY <1>5 DEF Fail, Overlapped
  <2>5. store' \in [Types -> Seq(Nat)]
    <3>1. PICK left \in Seq(Nat) : store' = [store EXCEPT ![t] = left]
      <4>1. a.files[t] \in Seq(Nat) /\ <<>> \in Seq(Nat)
        BY <2>1, <2>3, EmptySeq
      <4> QED BY <2>4, <4>1
    <3> HIDE DEF t
    <3> QED BY <1>1, <3>1
  <2> QED BY <2>1, <2>3, <2>4, <2>5
<1> HIDE DEF t
<1>6. /\ store' \in [Types -> Seq(Nat)] /\ torn' \subseteq Types
      /\ \A x \in Types : store'[x] \in Whole(upload, x) \cup {<<>>}
      /\ \A x \in Types : x # t => store'[x] = store[x]
  BY <1>1, <1>3, <1>4, <1>5
<1>7. ASSUME NEW x \in Types, Landed(x)
      PROVE  Landed(x)'
  <2>1. x # NoType
    BY ParsingAssumption
  <2>2. \A y \in Workers : y # w => worker'[y] = worker[y]
    BY <1>1, <1>3
  <2>3. CASE t = x
    BY <1>3, <2>1, <2>3 DEF Landed
  <2>4. CASE t # x
    <3>1. store'[x] = store[x]
      BY <1>6, <2>4
    <3>2. Copying(x) \subseteq Copying(x)'
      BY <2>2, <2>4 DEF Copying, t
    <3> QED BY <1>3, <1>7, <3>1, <3>2 DEF Landed
  <2> QED BY <2>3, <2>4
<1> QED BY <1>1, <1>2, <1>3, <1>6, <1>7, CopyMove

LEMMA PutInv == ASSUME Inv, NEW w \in Workers, NEW t \in Types, Put(w, t) PROVE Inv'
<1> DEFINE a == worker[w]
           b == [a EXCEPT !.todo = @ \ {t}]
<1>1. /\ upload \in Uploads /\ Kept(upload, a) /\ a.pc = "uploading" /\ a \in Attempt
      /\ a.next = Len(upload.messages) + 1 /\ DOMAIN worker = Workers
      /\ a.copying = NoType /\ \A x \in Types : a.buffers[x] = <<>>
  BY DEF Inv, Attempts, Put, Kept
<1>2. /\ \A x \in Types : a.files[x] \in Whole(upload, x)
      /\ a.files \in [Types -> Seq(Nat)]
  BY <1>1, KeptWhole
<1>3. /\ worker' = [worker EXCEPT ![w] = b] /\ UNCHANGED <<upload, finished>>
      /\ store' = [store EXCEPT ![t] = a.files[t]] /\ torn' = torn
  BY <1>1 DEF Put
<1>4. /\ b.pc = "uploading" /\ b.todo = a.todo \ {t} /\ b.copying = a.copying
      /\ b.next = a.next /\ b.files = a.files /\ b.buffers = a.buffers /\ b \in Attempt
  BY <1>1 DEF Attempt
<1> HIDE DEF b
<1>5. Kept(upload, b)
  BY <1>1, <1>4 DEF Kept, Holds, Once
<1>6. /\ store' \in [Types -> Seq(Nat)] /\ torn' \subseteq Types /\ store'[t] \in Whole(upload, t)
      /\ \A x \in Types : x # t => store'[x] = store[x]
      /\ \A x \in Types : store'[x] \in Whole(upload, x) \cup {<<>>}
  BY <1>2, <1>3 DEF Inv, Copied
<1>7. Landed(t)' /\ \A x \in Types : Landed(x) => Landed(x)'
  <2>1. Landed(t)'
    BY <1>3, <1>6 DEF Landed
  <2>2. \A y \in Workers : worker'[y].copying = worker[y].copying
    BY <1>1, <1>3, <1>4
  <2>3. \A x \in Types : x # t /\ Landed(x) => Landed(x)'
    BY <1>3, <1>6, <2>2 DEF Landed, Copying
  <2> QED BY <2>1, <2>3
<1>8. \A x \in Types \ b.todo : Landed(x)'
  BY <1>1, <1>4, <1>7 DEF Inv, Copied
<1> QED BY <1>3, <1>5, <1>6, <1>7, <1>8, CopyMove

LEMMA OpenInv == ASSUME Inv, NEW w \in Workers, NEW t \in Types, Open(w, t) PROVE Inv'
<1> DEFINE a == worker[w]
           b == [a EXCEPT !.copying = t]
<1>1. /\ upload \in Uploads /\ Kept(upload, a) /\ a.pc = "uploading" /\ a \in Attempt
      /\ ~upload.bucket /\ t \in a.todo /\ DOMAIN worker = Workers
      /\ a.copying = NoType
  BY DEF Inv, Attempts, Open, Kept
<1>2. /\ worker' = [worker EXCEPT ![w] = b] /\ UNCHANGED <<upload, finished>>
      /\ store' = [store EXCEPT ![t] = <<>>]
      /\ torn' = torn \ {t} \/ torn' = torn \cup {t}
  BY <1>1 DEF Open
<1>3. /\ b.pc = "uploading" /\ b.todo = a.todo /\ b.copying = t
      /\ b.next = a.next /\ b.files = a.files /\ b.buffers = a.buffers /\ b \in Attempt
  BY <1>1 DEF Attempt
<1> HIDE DEF b
<1>4. Kept(upload, b)
  BY <1>1, <1>3 DEF Kept, Holds, Once
<1>5. /\ store' \in [Types -> Seq(Nat)] /\ torn' \subseteq Types
      /\ \A x \in Types : x # t => store'[x] = store[x]
      /\ \A x \in Types : store'[x] \in Whole(upload, x) \cup {<<>>}
  BY <1>2, EmptySeq DEF Inv, Copied
<1>6. \A x \in Types : Landed(x) => Landed(x)'
  <2>1. worker'[w].copying = t
    BY <1>1, <1>2, <1>3
  <2>2. Landed(t)'
    BY <2>1 DEF Landed, Copying
  <2>3. \A y \in Workers : y # w => worker'[y] = worker[y]
    BY <1>1, <1>2
  <2>4. t # NoType /\ \A x \in Types : x # NoType
    BY ParsingAssumption
  <2>5. \A x \in Types : x # t /\ Landed(x) => Landed(x)'
    BY <1>1, <1>2, <1>5, <2>3, <2>4 DEF Landed, Copying
  <2> QED BY <2>2, <2>5
<1>7. \A x \in Types \ b.todo : Landed(x)'
  BY <1>1, <1>3, <1>6 DEF Inv, Copied
<1> QED BY <1>2, <1>4, <1>5, <1>6, <1>7, CopyMove

LEMMA CloseInv == ASSUME Inv, NEW w \in Workers, Close(w) PROVE Inv'
<1> DEFINE a == worker[w]
<1>0. PICK t \in Types : t = a.copying
  BY DEF Inv, Attempts, Close, Kept, Attempt
<1> DEFINE b == [a EXCEPT !.todo = @ \ {t}, !.copying = NoType]
<1>1. /\ upload \in Uploads /\ Kept(upload, a) /\ a.pc = "uploading" /\ a \in Attempt
      /\ a.next = Len(upload.messages) + 1 /\ DOMAIN worker = Workers
      /\ t # NoType /\ \A x \in Types : a.buffers[x] = <<>>
  BY <1>0 DEF Inv, Attempts, Close, Kept, Attempt
<1>2. /\ \A x \in Types : a.files[x] \in Whole(upload, x)
      /\ a.files \in [Types -> Seq(Nat)]
  BY <1>1, KeptWhole
<1>3. /\ worker' = [worker EXCEPT ![w] = b] /\ UNCHANGED <<upload, finished, torn>>
      /\ \E left \in {<<>>, a.files[t]} : store' = [store EXCEPT ![t] = left]
      /\ t \notin torn => store' = [store EXCEPT ![t] = a.files[t]]
  BY <1>0, <1>1 DEF Close, Overlapped
<1>4. /\ b.pc = "uploading" /\ b.todo = a.todo \ {t} /\ b.copying = NoType
      /\ b.next = a.next /\ b.files = a.files /\ b.buffers = a.buffers /\ b \in Attempt
  BY <1>1 DEF Attempt
<1> HIDE DEF b
<1>5. Kept(upload, b)
  BY <1>1, <1>4 DEF Kept, Holds, Once
<1>6. worker'[w] = b /\ \A y \in Workers : y # w => worker'[y] = worker[y]
  BY <1>1, <1>3
<1>7. /\ store' \in [Types -> Seq(Nat)] /\ torn' \subseteq Types
      /\ t \notin torn => store'[t] \in Whole(upload, t)
      /\ \A x \in Types : x # t => store'[x] = store[x]
      /\ \A x \in Types : store'[x] \in Whole(upload, x) \cup {<<>>}
  <2>1. PICK left \in {<<>>, a.files[t]} :
          /\ store' = [store EXCEPT ![t] = left]
          /\ t \notin torn => store' = [store EXCEPT ![t] = a.files[t]]
    BY <1>3
  <2>2. /\ left \in Seq(Nat) /\ left \in Whole(upload, t) \cup {<<>>}
        /\ a.files[t] \in Whole(upload, t)
    BY <1>2, <2>1, EmptySeq
  <2>3. /\ store \in [Types -> Seq(Nat)] /\ torn \subseteq Types
        /\ \A x \in Types : store[x] \in Whole(upload, x) \cup {<<>>}
    BY DEF Inv, Copied
  <2> HIDE DEF a
  <2> QED BY <1>3, <2>1, <2>2, <2>3
<1>8. Landed(t)'
  BY <1>3, <1>7 DEF Landed
<1>9. \A x \in Types : Landed(x) => Landed(x)'
  <2>1. \A x \in Types : x # t /\ Landed(x) => Landed(x)'
    BY <1>0, <1>3, <1>6, <1>7 DEF Landed, Copying
  <2> QED BY <1>8, <2>1
<1>10. \A x \in Types \ b.todo : Landed(x)'
  BY <1>1, <1>4, <1>8, <1>9 DEF Inv, Copied
<1> QED BY <1>3, <1>5, <1>7, <1>9, <1>10, CopyMove

-----------------------------------------------------------------------------
LEMMA NextInv == Inv /\ [Next]_vars => Inv'
<1> SUFFICES ASSUME Inv, [Next]_vars PROVE Inv'
  OBVIOUS
<1>1. CASE Next
  BY <1>1, BeginInv, ReadInv, ParseTableInv, ParsedInv, CloseInv, FinishInv, FailInv,
     WriteInv, PutInv, OpenInv DEF Next
<1>2. CASE UNCHANGED vars
  <2>1. UNCHANGED <<upload, worker, store, finished, torn>>
    BY <1>2 DEF vars
  <2>2. Attempts'
    BY <2>1 DEF Inv, Attempts
  <2>3. \A t : Landed(t) <=> Landed(t)'
    BY <2>1 DEF Landed, Copying
  <2>4. Copied'
    BY <2>1, <2>3 DEF Inv, Copied
  <2> QED BY <2>2, <2>4 DEF Inv
<1> QED BY <1>1, <1>2

LEMMA SpecInv == Spec => []Inv
<1> QED BY InitInv, NextInv, PTL DEF Spec

LEMMA InvRows == Inv => RowsKept
<1> SUFFICES ASSUME Inv, NEW w \in Workers, NEW t \in Types
             PROVE  LET a == worker[w] IN
                    /\ a.files[t] \in Frames(Range(a.files[t]))
                    /\ IsInjective(a.buffers[t])
                    /\ Range(a.buffers[t]) \cap Range(a.files[t]) = {}
                    /\ Range(a.buffers[t]) \cup Range(a.files[t]) = RowsOf(t, a.next - 1)
  BY DEF RowsKept
<1>1. Holds(upload, worker[w], t)
  BY DEF Inv, Attempts, Kept
<1> QED BY <1>1, Same DEF Holds

LEMMA InvStored == Inv => StoredWhole
<1> SUFFICES ASSUME Inv, NEW t \in Types
             PROVE  /\ store[t] \in Whole(upload, t) \cup {<<>>}
                    /\ finished /\ Copying(t) = {} /\ t \notin torn => store[t] \in Whole(upload, t)
  BY Same DEF StoredWhole, Whole
<1> QED BY DEF Inv, Copied, Landed

LEMMA InvFormat == Inv => FormatRecognised
<1> SUFFICES ASSUME NEW u \in Uploads, Admits(u)
             PROVE  /\ u.kind \in {"dataflash", "ulog"} => Detect(u) = ParserOf(u.kind)
                    /\ u.suffix = OwnSuffix(u.kind) =>
                          Legible(u) \/ (u.kind \in {"tlog", "textlog"} /\ u.comma)
                    /\ ~u.bucket /\ u.suffix \in {".bin", ".ulg", ".json"} =>
                          Legible(u) /\ u.suffix = OwnSuffix(u.kind)
  BY DEF Inv, Attempts, FormatRecognised
<1>1. /\ u.kind \in Kinds /\ u.suffix \in Suffixes /\ u.begins \in BeginsOf(u.kind)
      /\ u.comma \in BOOLEAN /\ u.bucket \in BOOLEAN
  BY ParsingAssumption
<1>2. CASE u.kind = "dataflash"
  BY <1>1, <1>2 DEF BeginsOf, Detect, BySuffix, ParserOf, Legible, OwnSuffix, Admits, Tables
<1>3. CASE u.kind = "ulog"
  BY <1>1, <1>3 DEF BeginsOf, Detect, BySuffix, ParserOf, Legible, OwnSuffix, Admits, Tables
<1>4. CASE u.kind = "tlog"
  BY <1>1, <1>4 DEF BeginsOf, Detect, BySuffix, ParserOf, Legible, OwnSuffix, Admits, Tables
<1>5. CASE u.kind = "table"
  BY <1>1, <1>5 DEF BeginsOf, Detect, BySuffix, ParserOf, Legible, OwnSuffix, Admits, Tables
<1>6. CASE u.kind = "json"
  BY <1>1, <1>6 DEF BeginsOf, Detect, BySuffix, ParserOf, Legible, OwnSuffix, Admits, Tables
<1>7. CASE u.kind = "textlog"
  BY <1>1, <1>7 DEF BeginsOf, Detect, BySuffix, ParserOf, Legible, OwnSuffix, Admits, Tables
<1> QED BY <1>1, <1>2, <1>3, <1>4, <1>5, <1>6, <1>7 DEF Kinds

\* Whatever the size of the chunks, the order of the messages and the place where
\* an attempt is cut off: each row it has read is in a buffer or in a sorted file,
\* once (_flush_chunk of ardupilot_bin.py, and the other parsers).
THEOREM RowsKeptHeld == Spec => []RowsKept
<1> QED BY SpecInv, InvRows, PTL

\* However many attempts copy side by side or are cut off, readers find nothing or
\* the whole frame, and after a finished attempt the whole frame unless a local copy
\* is in progress, was cut off, or was made beside another (upload_parsed of
\* parquet_store.py, whose copies empty a file under one another).
THEOREM StoredWholeHeld == Spec => []StoredWhole
<1> QED BY SpecInv, InvStored, PTL

\* Of every file that validation admits: which of them the parser chosen by
\* detect_format can read (parsers/base.py, upload_validation.py).
THEOREM FormatRecognisedHeld == Spec => []FormatRecognised
<1> QED BY SpecInv, InvFormat, PTL
=============================================================================
