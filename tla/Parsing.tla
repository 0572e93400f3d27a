------------------------------ MODULE Parsing ------------------------------
(***************************************************************************)
(* From an uploaded file to the frames that the analyses load: what upload *)
(* validation admits (api/middleware/upload_validation.py), which parser   *)
(* gets it (parsers/base.py), how the parser turns a stream of messages    *)
(* into one file per message type in a directory of its own                *)
(* (parsers/ardupilot_bin.py, which writes in chunks, and px4_ulog.py,     *)
(* mavlink_tlog.py, csv_json.py, which write once), and how those files    *)
(* are copied one by one to the place that readers know                    *)
(* (storage/parquet_store.py).  An attempt may be cut off anywhere and     *)
(* made again, by another worker and beside the first (FlightLifecycle).   *)
(*                                                                         *)
(* A row is the position of its message in the log; of its fields only the *)
(* time is kept.                                                           *)
(***************************************************************************)
EXTENDS Integers, Sequences, FiniteSets, Functions

CONSTANTS
    Uploads,      \* the files that a client may offer; comma: among the first 32
                  \* bytes; bucket: uploaded to it and kept there, not on the disk
    Types,        \* the frames that the parsers know: ATT, GPS, BAT, ...
    NoType,       \* a message that belongs to none of them
    Workers,      \* pool slots
    Chunk,        \* parquet_chunk_rows
    MaxAttempts   \* bound: on attempts begun

Kinds == {"dataflash", "ulog", "tlog", "table", "json", "textlog"}

\* One frame, "CSV"; those without a time column, which keep their order, are
\* left out.
Tables == {"table", "json"}

OwnSuffix(kind) ==
    CASE kind = "dataflash" -> ".bin"
      [] kind = "ulog" -> ".ulg"
      [] kind = "tlog" -> ".tlog"
      [] kind = "json" -> ".json"
      [] kind = "table" -> ".csv"
      [] kind = "textlog" -> ".log"

\* How the content of a kind may begin; a TLOG begins with a time stamp, whose
\* first byte is never the "magic" of MAVLink, 0xFE or 0xFD.
BeginsOf(kind) ==
    CASE kind = "dataflash" -> {"A395"}
      [] kind = "ulog" -> {"ULog"}
      [] kind = "tlog" -> {"stamp"}
      [] kind = "json" -> {"brace", "blank"}
      [] OTHER -> {"text"}

\* The whitelist.
Suffixes == {".bin", ".ulg", ".tlog", ".log", ".csv", ".json"}

\* A message's time is 0 if it has none.  The messages of a file are in the order
\* in which its parser meets them: a ULog's are read data set after data set.
Messages == [type : Types \cup {NoType}, time : Nat]

ASSUME ParsingAssumption ==
    /\ NoType \notin Types
    /\ IsFiniteSet(Types)
    /\ Chunk \in Nat \ {0}
    /\ MaxAttempts \in Nat
    /\ \A u \in Uploads :
          /\ u.kind \in Kinds /\ u.suffix \in Suffixes
          /\ u.begins \in BeginsOf(u.kind)
          /\ u.comma \in BOOLEAN /\ u.bucket \in BOOLEAN
          /\ u.messages \in Seq(Messages)
          /\ u.kind \in Tables => \E t \in Types :
                \A i \in DOMAIN u.messages : u.messages[i].type = t /\ u.messages[i].time > 0

\* validate_upload_init of the bucket upload sees no content; validate_upload
\* compares the beginning for three of the suffixes.
Admits(u) ==
    \/ u.bucket
    \/ /\ u.suffix = ".bin" => u.begins = "A395"
       /\ u.suffix = ".ulg" => u.begins = "ULog"
       /\ u.suffix = ".json" => u.begins = "brace"

BySuffix(suffix) ==
    CASE suffix = ".tlog" -> "mavlink"
      [] suffix \in {".csv", ".json"} -> "table"
      [] OTHER -> "ardupilot"

\* Variant for mutation: text is recognised first.
DetectTextFirst(u) ==
    CASE u.begins = "blank" \/ u.comma -> "table"
      [] u.begins = "A395" -> "ardupilot"
      [] u.begins = "ULog" -> "px4"
      [] u.begins = "magic" -> "mavlink"
      [] u.begins = "brace" -> "table"
      [] OTHER -> BySuffix(u.suffix)

\* detect_format and get_parser; CSV and JSON have one parser.
Detect(u) ==
    CASE u.begins = "A395" -> "ardupilot"
      [] u.begins = "ULog" -> "px4"
      [] u.begins = "magic" -> "mavlink"
      [] u.begins \in {"brace", "blank"} -> "table"
      [] OTHER -> IF u.comma THEN "table" ELSE BySuffix(u.suffix)

ParserOf(kind) ==
    CASE kind \in {"dataflash", "textlog"} -> "ardupilot"
      [] kind = "ulog" -> "px4"
      [] kind = "tlog" -> "mavlink"
      [] OTHER -> "table"

VARIABLES
    upload,     \* the file
    worker,     \* the attempt of each pool slot
    store,      \* what ParquetStore.load returns; empty if it cannot read
    finished,   \* history: an attempt has returned its result
    torn,       \* history: types whose file, since a copier last opened it alone,
                \* others have opened beside it, or whose last copy was cut off
    attempts    \* number of attempts begun

vars == <<upload, worker, store, finished, torn, attempts>>

\* What the parser can read.  Behind detect_format, pymavlink (external) and
\* _load_df choose a reader by the name of the file.
Legible(u) ==
    /\ Detect(u) = ParserOf(u.kind)
    /\ Detect(u) = "ardupilot" => u.suffix = OwnSuffix(u.kind)
    /\ Detect(u) = "table" => (u.suffix = ".json" <=> u.kind = "json")

\* Messages that become rows of t: those of a type it knows, with a time.  In
\* what it cannot read a parser finds none, or fails.
Row(t, i) ==
    /\ Legible(upload)
    /\ upload.messages[i].type = t /\ upload.messages[i].time > 0

\* The rows of t among the first n messages.
RowsOf(t, n) == {i \in 1..n : Row(t, i)}

Time(i) == upload.messages[i].time

\* The frames that hold a set of rows: sorted by time, equal times in any order.
Frames(S) ==
    {s \in [1..Cardinality(S) -> S] :
        /\ IsInjective(s)
        /\ \A i, j \in DOMAIN s : i < j => Time(s[i]) <= Time(s[j])}

Idle == [pc |-> "idle", next |-> 1, todo |-> {}, copying |-> NoType,
         buffers |-> [t \in Types |-> <<>>], files |-> [t \in Types |-> <<>>]]

Init ==
    /\ upload \in {u \in Uploads : Admits(u)}
    /\ worker = [w \in Workers |-> Idle]
    /\ store = [t \in Types |-> <<>>]
    /\ finished = FALSE
    /\ torn = {}
    /\ attempts = 0

-----------------------------------------------------------------------------
\* run: a temporary directory for every attempt.
Begin(w) ==
    /\ worker[w].pc = "idle" /\ attempts < MaxAttempts
    /\ attempts' = attempts + 1
    /\ worker' = [worker EXCEPT ![w] = [Idle EXCEPT !.pc = "streaming"]]
    /\ UNCHANGED <<upload, store, finished, torn>>

\* Variant for mutation: the chunk is sorted and appended.
FlushAppending(a, t) ==
    {[a EXCEPT !.buffers[t] = <<>>, !.files[t] = @ \o frame] : frame \in Frames(Range(a.buffers[t]))}

\* _flush_chunk: the file and the chunk, sorted and written again.
Flush(a, t) ==
    {[a EXCEPT !.buffers[t] = <<>>, !.files[t] = frame] :
        frame \in Frames(Range(a.files[t]) \cup Range(a.buffers[t]))}

\* stream_messages of the log formats, and the buffer of the row's type.
Read(w) ==
    LET a == worker[w]
        n == a.next
    IN
    /\ Detect(upload) # "table"
    /\ a.pc = "streaming" /\ n <= Len(upload.messages)
    /\ \/ /\ \A t \in Types : ~Row(t, n)
          /\ worker' = [worker EXCEPT ![w].next = n + 1]
       \/ \E t \in Types :
             LET b == [a EXCEPT !.next = n + 1, !.buffers[t] = Append(@, n)] IN
             /\ Row(t, n)
             /\ IF Detect(upload) = "ardupilot" /\ Len(b.buffers[t]) >= Chunk
                THEN \E c \in Flush(b, t) : worker' = [worker EXCEPT ![w] = c]
                ELSE worker' = [worker EXCEPT ![w] = b]
    /\ UNCHANGED <<upload, store, finished, torn, attempts>>

\* The log is over: what is left in the buffers is flushed, type after type.
FlushRest(w, t) ==
    /\ Detect(upload) = "ardupilot"
    /\ worker[w].pc = "streaming" /\ worker[w].next > Len(upload.messages)
    /\ worker[w].buffers[t] # <<>>
    /\ \E c \in Flush(worker[w], t) : worker' = [worker EXCEPT ![w] = c]
    /\ UNCHANGED <<upload, store, finished, torn, attempts>>

\* PX4 and MAVLink: nothing is written before the log is over.
WriteFrame(w, t) ==
    /\ Detect(upload) \in {"px4", "mavlink"}
    /\ worker[w].pc = "streaming" /\ worker[w].next > Len(upload.messages)
    /\ worker[w].buffers[t] # <<>>
    /\ \E frame \in Frames(Range(worker[w].buffers[t])) :
          worker' = [worker EXCEPT ![w].buffers[t] = <<>>, ![w].files[t] = frame]
    /\ UNCHANGED <<upload, store, finished, torn, attempts>>

\* A table is loaded, sorted and written at once.
ParseTable(w) ==
    LET n == Len(upload.messages) IN
    /\ Detect(upload) = "table"
    /\ worker[w].pc = "streaming" /\ worker[w].next <= n
    /\ \E files \in [Types -> UNION {Frames(RowsOf(t, n)) : t \in Types}] :
          /\ \A t \in Types : files[t] \in Frames(RowsOf(t, n))
          /\ worker' = [worker EXCEPT ![w].next = n + 1, ![w].files = files]
    /\ UNCHANGED <<upload, store, finished, torn, attempts>>

\* Variant for mutation: no flush at the end of the log.
ParsedUnflushed(w) ==
    /\ worker[w].pc = "streaming" /\ worker[w].next > Len(upload.messages)
    /\ worker' = [worker EXCEPT
           ![w].pc = "uploading", ![w].todo = {t \in Types : worker[w].files[t] # <<>>}]
    /\ UNCHANGED <<upload, store, finished, torn, attempts>>

Parsed(w) ==
    /\ worker[w].pc = "streaming" /\ worker[w].next > Len(upload.messages)
    /\ \A t \in Types : worker[w].buffers[t] = <<>>
    /\ worker' = [worker EXCEPT
           ![w].pc = "uploading", ![w].todo = {t \in Types : worker[w].files[t] # <<>>}]
    /\ UNCHANGED <<upload, store, finished, torn, attempts>>

\* upload_parsed: a bucket object is replaced at once ...
Put(w, t) ==
    /\ upload.bucket
    /\ worker[w].pc = "uploading" /\ t \in worker[w].todo
    /\ store' = [store EXCEPT ![t] = worker[w].files[t]]
    /\ worker' = [worker EXCEPT ![w].todo = @ \ {t}]
    /\ UNCHANGED <<upload, finished, torn, attempts>>

Copying(t) == {w \in Workers : worker[w].copying = t}

\* ... a local file is opened, hence empty, and filled.
Open(w, t) ==
    /\ ~upload.bucket
    /\ worker[w].pc = "uploading" /\ t \in worker[w].todo /\ worker[w].copying = NoType
    /\ store' = [store EXCEPT ![t] = <<>>]
    /\ torn' = IF Copying(t) = {} THEN torn \ {t} ELSE torn \cup {t}
    /\ worker' = [worker EXCEPT ![w].copying = t]
    /\ UNCHANGED <<upload, finished, attempts>>

\* Copiers side by side: each has emptied the file under those before it and
\* writes on at its own place. When one of them ends there may be a hole, or bytes
\* of two attempts, and no reader can open it; or all is there.
Overlapped(w, t) == {<<>>, worker[w].files[t]}

Close(w) ==
    LET t == worker[w].copying IN
    /\ worker[w].pc = "uploading" /\ t # NoType
    /\ \E left \in IF t \in torn THEN Overlapped(w, t) ELSE {worker[w].files[t]} :
          store' = [store EXCEPT ![t] = left]
    /\ worker' = [worker EXCEPT ![w].todo = @ \ {t}, ![w].copying = NoType]
    /\ UNCHANGED <<upload, finished, torn, attempts>>

\* The temporary directory goes; the rest of the pipeline is in FlightLifecycle.
Finish(w) ==
    /\ worker[w].pc = "uploading" /\ worker[w].todo = {}
    /\ worker' = [worker EXCEPT ![w] = Idle]
    /\ finished' = TRUE
    /\ UNCHANGED <<upload, store, torn, attempts>>

\* An exception, a time limit or the loss of the worker: the directory goes, too.
Fail(w) ==
    LET t == worker[w].copying IN
    /\ worker[w].pc # "idle"
    /\ torn' = torn \cup ({t} \ {NoType})
    /\ IF t \in torn THEN \E left \in Overlapped(w, t) : store' = [store EXCEPT ![t] = left]
                    ELSE UNCHANGED store
    /\ worker' = [worker EXCEPT ![w] = Idle]
    /\ UNCHANGED <<upload, finished, attempts>>

Next ==
    \E w \in Workers :
        \/ Begin(w) \/ Read(w) \/ ParseTable(w) \/ Parsed(w) \/ Close(w) \/ Finish(w) \/ Fail(w)
        \/ \E t \in Types : FlushRest(w, t) \/ WriteFrame(w, t) \/ Put(w, t) \/ Open(w, t)

Spec == Init /\ [][Next]_vars

-----------------------------------------------------------------------------
\* Whatever the size of the chunks: every row that an attempt has read is in its
\* buffer or in its file, once, and the file is sorted although each chunk of a
\* log may reach back before the one before.
RowsKept ==
    \A w \in Workers, t \in Types :
        LET a == worker[w]
            inBuffer == Range(a.buffers[t])
            inFile == Range(a.files[t])
        IN  /\ a.files[t] \in Frames(inFile)
            /\ IsInjective(a.buffers[t]) /\ inBuffer \cap inFile = {}
            /\ a.pc # "idle" => inBuffer \cup inFile = RowsOf(t, a.next - 1)

\* Whichever attempts are cut off, repeated or run side by side, a reader finds
\* nothing or the whole frame, never a part of it or rows twice; and once an
\* attempt has finished it finds the whole frame, unless a local copy is being
\* made, was cut off, or was made beside another.
StoredWhole ==
    \A t \in Types :
        LET whole == Frames(RowsOf(t, Len(upload.messages)))
        IN  /\ store[t] \in whole \cup {<<>>}
            /\ finished /\ Copying(t) = {} /\ t \notin torn => store[t] \in whole

\* Of detect_format, "from magic bytes, not extension": the two binary formats
\* with a signature find their parser under any name, whatever their first bytes
\* hold.  A file of any format is read under the name of the format, but for a
\* TLOG, whose signature is behind a time stamp, and a text log with a comma
\* among their first bytes.  What is admitted with a look at its content is of
\* the kind its name says, and is read.
FormatRecognised ==
    /\ upload.kind \in {"dataflash", "ulog"} => Detect(upload) = ParserOf(upload.kind)
    /\ upload.suffix = OwnSuffix(upload.kind) =>
          Legible(upload) \/ (upload.kind \in {"tlog", "textlog"} /\ upload.comma)
    /\ ~upload.bucket /\ upload.suffix \in {".bin", ".ulg", ".json"} =>
          Legible(upload) /\ upload.suffix = OwnSuffix(upload.kind)
=============================================================================
