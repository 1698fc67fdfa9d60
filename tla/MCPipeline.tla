----------------------------- MODULE MCPipeline -----------------------------
EXTENDS Pipeline

\* Either side of, and at, each threshold the rules compare with.
MCSimilarities == {75, 100}
MCNameSims == {60, 85}
MCConfidences == {60, 85}
=============================================================================
