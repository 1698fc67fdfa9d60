--------------------------- MODULE MCPypiWatcher ---------------------------
(* Small instances of PypiWatcher: one poll at a time, or two that overlap. *)
EXTENDS PypiWatcher, TLC

CONSTANTS x1, x2, v1, v2, v3

MCPollers == {x1, x2}
MCReleases == {v1, v2}
MCThreeReleases == {v1, v2, v3}
Symmetry == Permutations(MCPollers) \union Permutations(MCReleases)
============================================================================
