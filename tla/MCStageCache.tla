---------------------------- MODULE MCStageCache ----------------------------
(***************************************************************************)
(* An instance of StageCache for TLC: two processes; a harmless archive    *)
(* and one with a risky call and a dangerous dependency.                   *)
(***************************************************************************)
EXTENDS StageCache, TLC

CONSTANTS p1, p2, plain, risky

MCProcesses == {p1, p2}
MCArchives == {plain, risky}

Release(apis, deps) ==
    [files |-> [f \in {"index"} |-> apis], entry |-> {"index"}, shell |-> {},
     deps |-> [d \in deps |-> "*"]]

MCContents ==
    (plain :> Release({"getenv"}, {"left-pad"}))
    @@ (risky :> Release({"getenv", "send"}, {"paramiko"}))

\* No definition tells the processes apart.
Symmetry == Permutations(MCProcesses)
============================================================================
