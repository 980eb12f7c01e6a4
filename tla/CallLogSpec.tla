---------------------------- MODULE CallLogSpec ----------------------------
(***************************************************************************)
(* What logging a call promises, whatever the network and the processes    *)
(* do: the row of a call goes from absent to open (status NULL) to the     *)
(* outcome the handler reported and never back, and a call is charged only *)
(* when its row says it was paid, in the same transaction or a later one.  *)
(* It does not promise that a row is ever written.                         *)
(***************************************************************************)
CONSTANT Requests

VARIABLES outcome,   \* outcome[r] : "pending", then what the handler reports
          rows,      \* rows[r] : "absent", "none", then the outcome
          charged    \* the calls that have been charged

vars == <<outcome, rows, charged>>

Outcomes == {"paid", "unpaid"}

Init ==
    /\ outcome = [r \in Requests |-> "pending"]
    /\ rows = [r \in Requests |-> "absent"]
    /\ charged = {}

Report(r, o) ==
    /\ outcome[r] = "pending"
    /\ outcome' = [outcome EXCEPT ![r] = o]
    /\ UNCHANGED <<rows, charged>>

(* Where the row of r may go in one transaction. *)
Onward(r) ==
    {rows[r]} \cup (IF rows[r] \in Outcomes THEN {}
                    ELSE {"none"} \cup ({outcome[r]} \ {"pending"}))

(* A transaction writes the rows of some calls, and charges some of them.  *)
Log ==
    /\ rows' \in [Requests -> {"absent", "none"} \cup Outcomes]
    /\ \A r \in Requests : rows'[r] \in Onward(r)
    /\ charged \subseteq charged'
    /\ \A r \in charged' \ charged : r \in Requests /\ rows'[r] = "paid"
    /\ UNCHANGED outcome

Next == Log \/ \E r \in Requests, o \in Outcomes : Report(r, o)

Spec == Init /\ [][Next]_vars
=============================================================================
