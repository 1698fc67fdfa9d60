-------------------------- MODULE MCAnalysisCache --------------------------
(***************************************************************************)
(* Instances of AnalysisCache for TLC: two processes, two archives, two    *)
(* versions of the rules, one advisory spelt as the requests and one not.  *)
(***************************************************************************)
EXTENDS AnalysisCache, TLC

CONSTANTS p1, p2, a1, a2, r1, r2, m1, m2

MCProcesses == {p1, p2}
MCArchives == {a1, a2}
MCRules == {r1, r2}
MCAdvisories == {m1, m2}
MCSameSpelling == {m1}
MCModes == {"strict", "paranoid"}

\* No definition tells these values apart.
Symmetry == Permutations(MCProcesses) \union Permutations(MCArchives)
            \union Permutations(MCRules)
============================================================================
