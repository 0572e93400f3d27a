----------------------- MODULE InvestigationContract -----------------------
(***************************************************************************)
(* What an investigation promises its caller and the people who watch it:  *)
(* it gets one outcome, for good, and a live stream that ends reports that *)
(* outcome.                                                                *)
(***************************************************************************)
CONSTANTS Investigations, Clients, NoInv

VARIABLES
    outcome,  \* of each investigation: "none" until it is decided
    told      \* of each client: the investigation followed, and what it was told

vars == <<outcome, told>>

Outcomes == {"complete", "failed"}

Init ==
    /\ outcome = [i \in Investigations |-> "none"]
    /\ told = [c \in Clients |-> [inv |-> NoInv, event |-> "none"]]

Decide(i) ==
    /\ outcome[i] = "none"
    /\ \E o \in Outcomes : outcome' = [outcome EXCEPT ![i] = o]
    /\ UNCHANGED told

Watch(c, i) ==
    /\ told[c].inv = NoInv
    /\ told' = [told EXCEPT ![c] = [inv |-> i, event |-> "none"]]
    /\ UNCHANGED outcome

\* Everybody who watches investigation i learns its outcome at once.
Tell(i) ==
    /\ outcome[i] # "none"
    /\ told' = [c \in Clients |->
                   IF told[c] = [inv |-> i, event |-> "none"]
                   THEN [inv |-> i, event |-> outcome[i]] ELSE told[c]]
    /\ UNCHANGED outcome

Next ==
    \E i \in Investigations : Decide(i) \/ Tell(i) \/ \E c \in Clients : Watch(c, i)

Spec == Init /\ [][Next]_vars
=============================================================================
