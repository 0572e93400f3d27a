--------------------------- MODULE FlightContract ---------------------------
(***************************************************************************)
(* What a client of the API may rely on while nothing crashes: the status  *)
(* of a flight only moves forward (storage/metadata_db.py: "uploaded |     *)
(* pending_upload | parsing | ready | error"), the parse starts only after *)
(* the upload, is done once, and its verdict is final.  One log has one    *)
(* owner: of the flights that hold the same content at most one owns its   *)
(* hash.                                                                   *)
(***************************************************************************)
CONSTANTS Flights, LogOf

VARIABLES
    status,   \* as in the flight row
    owner     \* the flights that own their content

vars == <<status, owner>>

Move(f, from, to) ==
    /\ status[f] \in from
    /\ status' = [status EXCEPT ![f] = to]

Init ==
    /\ status = [f \in Flights |-> "absent"]
    /\ owner = {}

\* The client announces an upload.
Announce(f) == Move(f, {"absent"}, "pending_upload") /\ UNCHANGED owner

\* The file is there and its parse is requested.
Submit(f) ==
    /\ Move(f, {"absent", "pending_upload"}, "uploaded")
    /\ owner' \in {owner, owner \cup {f}}

Start(f) == Move(f, {"uploaded"}, "parsing") /\ UNCHANGED owner

\* The verdict; the flight may become the owner of its content.
Accept(f) ==
    /\ Move(f, {"parsing"}, "ready")
    /\ owner' \in {owner, owner \cup {f}}

Reject(f) == Move(f, {"parsing"}, "error") /\ UNCHANGED owner

OneOwner == \A f, g \in owner : LogOf[f] = LogOf[g] => f = g

Next ==
    /\ \E f \in Flights : Announce(f) \/ Submit(f) \/ Start(f) \/ Accept(f) \/ Reject(f)
    /\ OneOwner'

Spec == Init /\ [][Next]_vars
=============================================================================
