-------------------------- MODULE MCRuntimeIntel --------------------------
(***************************************************************************)
(* Instances of RuntimeIntel for TLC: two server processes with a handler  *)
(* each and two alerts of Falco, both about a host name asked for.  The    *)
(* indicators and the drafts of the alerts are those of AlertIntake.       *)
(***************************************************************************)
EXTENDS RuntimeIntel, TLC

Intake == INSTANCE AlertIntake

CONSTANTS h1, h2, p1, p2, r1, r2, a, b

MCHandlers == {h1, h2}
MCProcesses == {p1, p2}
MCProcessOf == (h1 :> p1) @@ (h2 :> p2)
MCRequests == {r1, r2}
MCSentAt == (r1 :> 0) @@ (r2 :> 1)
MCPackageOf == (r1 :> a) @@ (r2 :> b)

\* A DNS query, and a DNS query of a host whose text holds a hash as well.
MCEvent ==
    LET query == [source |-> "falco", reads |-> FALSE, writes |-> FALSE, connect |-> "none",
                  dns |-> "external", exec |-> FALSE, hash |-> FALSE]
    IN  (r1 :> query) @@ (r2 :> [query EXCEPT !.hash = TRUE])

MCIocsOf == [r \in MCRequests |-> Intake!ExtractIocs(MCEvent[r])]
MCIocs == UNION {{MCIocsOf[r][n] : n \in 1..Len(MCIocsOf[r])} : r \in MCRequests}
MCConfidenceOf == [i \in MCIocs |-> Intake!confidence[i.type]]
MCDraftsOf == [r \in MCRequests |->
    IF r = r1 THEN <<>> ELSE SubSeq(Intake!GenerateDrafts(MCEvent[r]), 1, 1)]

\* Exchanging the processes exchanges their handlers.
Symmetry == {(h1 :> h2) @@ (h2 :> h1) @@ (p1 :> p2) @@ (p2 :> p1),
             (h1 :> h1) @@ (h2 :> h2) @@ (p1 :> p1) @@ (p2 :> p2)}
============================================================================
