---------------------------- MODULE ScanLedger -----------------------------
(***************************************************************************)
(* What the queue and its workers promise together, without locks, ids or  *)
(* crashes: a release that is submitted gets an outcome, its alerts go out *)
(* at least once, and an outcome that calls for alerts comes after them.   *)
(* It does not promise that an alert goes out once, nor that the outcome   *)
(* stays: a second scan of the same row writes its own over it.            *)
(***************************************************************************)
CONSTANTS
    Rows, Sinks,
    Outcomes,       \* what a scan may end with
    AlertOutcomes,  \* those every sink has to hear of first
    Open            \* no outcome yet

VARIABLES known, alerted, outcome

ledgerVars == <<known, alerted, outcome>>

Init ==
    /\ known = {}
    /\ alerted = {}
    /\ outcome = [j \in Rows |-> Open]

Submit(j) ==
    /\ known' = known \union {j}
    /\ UNCHANGED <<alerted, outcome>>

Alert(j, s) ==
    /\ j \in known
    /\ alerted' = alerted \union {<<j, s>>}
    /\ UNCHANGED <<known, outcome>>

Settle(j, o) ==
    /\ j \in known
    /\ o \in AlertOutcomes => \A s \in Sinks : <<j, s>> \in alerted
    /\ outcome' = [outcome EXCEPT ![j] = o]
    /\ UNCHANGED <<known, alerted>>

Next ==
    \E j \in Rows :
        \/ Submit(j)
        \/ \E s \in Sinks : Alert(j, s)
        \/ \E o \in Outcomes : Settle(j, o)

Spec == Init /\ [][Next]_ledgerVars
============================================================================
