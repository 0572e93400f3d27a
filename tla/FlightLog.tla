----------------------------- MODULE FlightLog -----------------------------
(***************************************************************************)
(* The parsed log of one flight: per message type a data frame sorted by   *)
(* time, as the parsers write it and ParquetStore.load returns it.  The    *)
(* vehicle is the environment: it logs a row of one of its message types   *)
(* at a time, and the analyses (Rules, Timeline) are operators on the log  *)
(* so far.  Times are tenths of a second since boot; a row carries the     *)
(* fields of its message that a rule or an event compares.                 *)
(***************************************************************************)
EXTENDS Integers, Sequences, FiniteSets, Functions

CONSTANTS
    Vehicles   \* what a vehicle may log: rows per message type, time steps,
               \* and the length of its log

\* Numbers are numbers.  The parsers name every flight mode, none of them
\* INITIALISING; only that of telemetry logs names none.
ASSUME VehiclesAssumption ==
    \A v \in Vehicles :
        /\ v.steps \subseteq Nat /\ v.length \in Nat
        /\ \A c \in {"BAT", "CURR"} \cap DOMAIN v.rows : \A row \in v.rows[c] :
              "volt" \in DOMAIN row /\ row.volt \in Int
        /\ "MODE" \in DOMAIN v.rows =>
              /\ \A row \in v.rows["MODE"] : "mode" \in DOMAIN row /\ row.mode # "INITIALISING"
              /\ \A row, other \in v.rows["MODE"] :
                    row.mode = "unnamed" => other.mode = "unnamed"

Second == 10

VARIABLES vehicle, log, now

vars == <<vehicle, log, now>>

Init ==
    /\ vehicle \in Vehicles
    /\ log = [c \in DOMAIN vehicle.rows |-> <<>>]
    /\ now = 1

\* A message type that was not logged reads as an empty frame.
Rows(c) == IF c \in DOMAIN log THEN log[c] ELSE <<>>

\* BAT or else CURR, NKF3 or else XKF3, NKF4 or else XKF4.
Either(c, d) == IF Rows(c) # <<>> THEN Rows(c) ELSE Rows(d)

Logged == SumFunction([c \in DOMAIN log |-> Len(log[c])])

\* A row that is logged carries its time.
Stamped(time, row) ==
    [field \in {"t"} \cup DOMAIN row |-> IF field = "t" THEN time ELSE row[field]]

Record ==
    /\ Logged < vehicle.length
    /\ \E c \in DOMAIN log, step \in vehicle.steps :
           /\ now' = now + step
           /\ \E row \in vehicle.rows[c] :
                  log' = [log EXCEPT ![c] = Append(@, Stamped(now', row))]
    /\ UNCHANGED vehicle

Next == Record

Spec == Init /\ [][Next]_vars
=============================================================================
