---------------------------- MODULE MCNpmWatcher ----------------------------
(* A small instance of NpmWatcher: two polls that may overlap.              *)
EXTENDS NpmWatcher

CONSTANTS n1, n2, k1, k2

MCPollers == {n1, n2}
MCPackages == {k1, k2}
============================================================================
