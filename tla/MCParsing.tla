------------------------------ MODULE MCParsing ------------------------------
(* Two small families of files: every log of up to three messages, in the     *)
(* format that is written in chunks and in one that is not, on both backends; *)
(* and every beginning, suffix and way of uploading, with two messages.       *)
EXTENDS Parsing, TLC

CONSTANTS att, gps, w1, w2, MaxMessages

TypesDef == {att, gps}

Offered(kind, begins, comma, suffix, bucket, messages) ==
    [kind |-> kind, begins |-> begins, comma |-> comma, suffix |-> suffix,
     bucket |-> bucket, messages |-> messages]

MessagesDef ==
    [type : TypesDef, time : {1, 2}] \cup {[type |-> NoType, time |-> 1], [type |-> att, time |-> 0]}

Logs == UNION {[1..n -> MessagesDef] : n \in 0..MaxMessages}

Two(kind) ==
    <<[type |-> att, time |-> 2],
      [type |-> IF kind \in Tables THEN att ELSE gps, time |-> 1]>>

UploadsDef ==
    {Offered("dataflash", "A395", FALSE, ".bin", b, log) : b \in BOOLEAN, log \in Logs}
        \cup {Offered("ulog", "ULog", FALSE, ".ulg", b, log) : b \in BOOLEAN, log \in Logs}
        \cup UNION {{Offered(k, h, c, s, b, Two(k)) :
                        c \in BOOLEAN, s \in Suffixes, b \in BOOLEAN, h \in BeginsOf(k)} :
                    k \in Kinds}

Symmetry == Permutations({w1, w2})
=============================================================================
