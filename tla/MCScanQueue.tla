---------------------------- MODULE MCScanQueue ----------------------------
(* Small instances of the scan queue: which rows, workers and deployments.  *)
EXTENDS ScanQueue, TLC

CONSTANTS w1, w2

MCWorkers == {w1, w2}
\* One verdict that is reported and one that is not.
MCVerdicts == {"MALICIOUS", "CLEAN"}
MCPriorities == {0, 200}
Symmetry == Permutations(MCWorkers)
============================================================================
