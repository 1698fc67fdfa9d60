---------------------------- MODULE VerdictRules ----------------------------
(***************************************************************************)
(* How evidence becomes a verdict: decide_verdict, the agents' consensus   *)
(* on one TTP match, and the converters that turn what a stage found into  *)
(* Evidence.  Pure operators; Pipeline composes them with the stages.      *)
(*                                                                         *)
(* Evidence keeps the five fields decide_verdict reads; similarity and     *)
(* confidence are percentages.  An evidence list is a sequence, but the    *)
(* rules only ask which evidence is in it, so they take any function.      *)
(***************************************************************************)
EXTENDS Integers, Sequences, FiniteSets, Folds, Functions

Severities == {"LOW", "MEDIUM", "HIGH"}
LLMVerdicts == {"BENIGN", "SUSPICIOUS", "MALICIOUS"}
Percent == 0..100
NoDiff == "absent"      \* version_diff is None

Evidence == [sev : Severities, sim : Percent, llm : LLMVerdicts, conf : Percent,
             diff : Severities \union {NoDiff}]

Required == {"stage_2", "stage_4", "stage_5"}

\* Verdicts decide_verdict gives to evidence, ordered by how alarming they are.
Rank == [v \in {"CLEAN", "SUSPICIOUS", "HIGH_RISK", "MALICIOUS"} |->
            CASE v = "CLEAN" -> 0 [] v = "SUSPICIOUS" -> 1
              [] v = "HIGH_RISK" -> 2 [] v = "MALICIOUS" -> 3]
Verdicts == DOMAIN Rank \union {"AGENTIC", "ERROR", "CANNOT_ANALYZE"}

-----------------------------------------------------------------------------
(* decide_verdict *)

StrongMatch(e) == e.sim >= 85 /\ e.llm # "BENIGN" /\ e.sev # "LOW"
TTPMatch(e) == e.sim >= 70 /\ e.llm # "BENIGN"
Suspect(e) == e.llm # "BENIGN" /\ e.conf >= 50
CriticalDiff(e) == e.diff = "HIGH"
AnyDiff(e) == e.diff \in {"MEDIUM", "HIGH"}

\* A plausible bug: MALICIOUS gated by the mean confidence, as it once was.
BugIsMalicious(E) ==
    /\ \E i \in DOMAIN E : E[i].sev = "HIGH"
    /\ \E i \in DOMAIN E : E[i].llm = "MALICIOUS"
    /\ FoldFunction(+, 0, [i \in DOMAIN E |-> E[i].conf]) >= 85 * Cardinality(DOMAIN E)

IsMalicious(E) ==
    /\ \E i \in DOMAIN E : E[i].sev = "HIGH"
    /\ \E i \in DOMAIN E : E[i].llm = "MALICIOUS" /\ E[i].conf >= 85

IsHighRisk(E) ==
    /\ \E i \in DOMAIN E : StrongMatch(E[i]) \/ CriticalDiff(E[i])
    /\ \E i \in DOMAIN E : Suspect(E[i])

\* LLM_SUSPICIOUS_QUORUM is 2.
IsSuspicious(E) ==
    \/ \E i \in DOMAIN E : TTPMatch(E[i]) \/ AnyDiff(E[i])
    \/ \E i, j \in DOMAIN E : i # j /\ Suspect(E[i]) /\ Suspect(E[j])

Judge(E) == IF IsMalicious(E) THEN "MALICIOUS"
            ELSE IF IsHighRisk(E) THEN "HIGH_RISK"
            ELSE IF IsSuspicious(E) THEN "SUSPICIOUS" ELSE "CLEAN"

\* passed and failed: the required stages with a successful or failed result.
Decide(E, passed, failed) ==
    IF failed # {} \/ (E = <<>> /\ passed # Required) THEN "ERROR" ELSE Judge(E)

-----------------------------------------------------------------------------
(* Stage 5: three agents review a match *)

Agents == {"semantic", "diff", "dependency"}
Voting(votes, v) == Cardinality({a \in Agents : votes[a] = v})

\* A plausible bug: only an absolute majority for one verdict counts.
BugConsensus(votes) ==
    CASE Voting(votes, "MALICIOUS") >= 2 -> "MALICIOUS"
      [] Voting(votes, "SUSPICIOUS") >= 2 -> "SUSPICIOUS"
      [] OTHER -> "BENIGN"

Consensus(votes) ==
    CASE \/ Voting(votes, "MALICIOUS") >= 2
         \/ Voting(votes, "MALICIOUS") >= 1 /\ Voting(votes, "SUSPICIOUS") >= 1 -> "MALICIOUS"
      [] Voting(votes, "MALICIOUS") = 0 /\ Voting(votes, "SUSPICIOUS") >= 2 -> "SUSPICIOUS"
      [] Voting(votes, "MALICIOUS") = 1 /\ Voting(votes, "SUSPICIOUS") = 0 -> "SUSPICIOUS"
      [] OTHER -> "BENIGN"

\* A plausible bug: the raised confidence is not capped at 1.0.
BugMatchConfidence(sim, llm) ==
    CASE llm = "MALICIOUS" -> sim + 10 [] llm = "SUSPICIOUS" -> sim + 5 [] llm = "BENIGN" -> sim - 5

\* match_confidence.
MatchConfidence(sim, llm) ==
    CASE llm = "MALICIOUS" -> IF sim > 90 THEN 100 ELSE sim + 10
      [] llm = "SUSPICIOUS" -> IF sim > 95 THEN 100 ELSE sim + 5
      [] llm = "BENIGN" -> IF sim < 5 THEN 0 ELSE sim - 5

-----------------------------------------------------------------------------
(* What the stages report, as evidence *)

Ev(sev, sim, llm, conf) == [sev |-> sev, sim |-> sim, llm |-> llm, conf |-> conf, diff |-> NoDiff]

\* Stage 0A: a name close to a popular or a malicious one.
LooksLike(sim) == Ev(IF sim >= 85 THEN "MEDIUM" ELSE "LOW", sim, "SUSPICIOUS",
                     IF sim > 90 THEN 90 ELSE sim)

\* Stages 0A and 0B: the package itself is on the list; 0B: a similar name is.
KnownBad == Ev("HIGH", 100, "MALICIOUS", 99)
NameNear(sim) == Ev("LOW", sim, "BENIGN", 30)

\* Stage 1C: one evidence for the class of an agentic package, one per rule hit.
AgenticClass(class) ==
    CASE class \in {"MALICIOUS", "HIGH_RISK"} -> Ev("HIGH", 100, "MALICIOUS", 90)
      [] class = "SUSPICIOUS" -> Ev("MEDIUM", 100, "SUSPICIOUS", 60)
      [] class = "AGENTIC" -> Ev("LOW", 100, "SUSPICIOUS", 60)
AgenticRule(sev) ==
    CASE sev = "MALICIOUS" -> Ev("HIGH", 100, "MALICIOUS", 90)
      [] sev = "HIGH_RISK" -> Ev("HIGH", 100, "SUSPICIOUS", 75)
      [] sev = "SUSPICIOUS" -> Ev("MEDIUM", 100, "SUSPICIOUS", 55)

\* Stage 2B: a suspicious string, decoded or not.
StringFound(decoded) ==
    IF decoded THEN Ev("MEDIUM", 100, "SUSPICIOUS", 80) ELSE Ev("LOW", 100, "BENIGN", 40)

\* Stage 4B.
Anomaly == Ev("MEDIUM", 100, "SUSPICIOUS", 75)

\* Stage 4C: weak is a standalone-weak indicator without a risk combination.
Indicator(sev, conf, weak) ==
    IF weak THEN Ev("LOW", 100, "BENIGN", IF conf > 40 THEN 40 ELSE conf)
            ELSE Ev(sev, 100, CASE sev = "HIGH" /\ conf >= 80 -> "MALICIOUS"
                                [] ~(sev = "HIGH" /\ conf >= 80) /\ sev # "LOW" /\ conf >= 50
                                    -> "SUSPICIOUS"
                                [] OTHER -> "BENIGN", conf)

\* Stage 4E: a sequential pattern.
Pattern(sev) == CASE sev = "HIGH" -> Ev("HIGH", 100, "MALICIOUS", 85)
                  [] sev = "MEDIUM" -> Ev("MEDIUM", 100, "SUSPICIOUS", 65)
                  [] sev = "LOW" -> Ev("LOW", 100, "BENIGN", 40)

\* Stage 5: a reviewed match, and a risky version diff no match carries.
Reviewed(m, llm, diff) ==
    [sev |-> m.sev, sim |-> m.sim, llm |-> llm, conf |-> MatchConfidence(m.sim, llm), diff |-> diff]
DiffOnly(sev) == [sev |-> sev, sim |-> 100, llm |-> "SUSPICIOUS",
                  conf |-> IF sev = "HIGH" THEN 85 ELSE 60, diff |-> sev]

\* Stage 6: a dependency with a record of attacks; stage 7: a native binary;
\* stage 8: runtime activity, with or without network requests.
DependencyResults == {"MALICIOUS", "SUSPICIOUS", "INFO", "CLEAN", "SKIPPED"}
DependencyFinds == {IF r = "MALICIOUS" THEN Ev("HIGH", 100, "MALICIOUS", 90)
                                       ELSE Ev("MEDIUM", 100, "SUSPICIOUS", 70) :
                        r \in DependencyResults \ {"CLEAN", "SKIPPED"}}
NativeBinary == Ev("HIGH", 100, "SUSPICIOUS", 70)
Sandboxed(network) == Ev(IF network THEN "HIGH" ELSE "LOW", 100, "SUSPICIOUS", 85)
=============================================================================
