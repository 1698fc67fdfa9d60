------------------------------ MODULE Pipeline ------------------------------
(***************************************************************************)
(* run_pipeline: the stages one call goes through for a package version,   *)
(* the evidence they gather, the ways a call ends early, and what a call   *)
(* leaves for the next one - the report of the analysis cache and the      *)
(* version diff of the stage cache.                                        *)
(*                                                                         *)
(* What a stage finds is chosen freely from what its converter can make.   *)
(* A stage that is not required may stop at any point of its findings:     *)
(* run_pipeline records the failure and goes on with those it has.  Stages *)
(* 0C, 0D, 4D and SSDF change neither evidence nor control and are left    *)
(* out.  When a stored report still counts is AnalysisCache's matter.      *)
(***************************************************************************)
EXTENDS VerdictRules

CONSTANTS
    Similarities,   \* of TTP matches: at least the matcher's threshold
    NameSims,       \* of similar package names
    Confidences,    \* of indicator hits
    MaxNear,        \* bound: similar names stage 0A reports at once
    MaxFindings,    \* bound: findings of the stages that are not required
    MaxMatches,     \* bound: TTP matches in a call
    MaxFaults,      \* bound: failures of required stages, agents and the diff
    MaxCalls        \* bound: calls of run_pipeline

ASSUME PipelineAssumption ==
    /\ Similarities \subseteq 70..100
    /\ NameSims \subseteq Percent /\ Confidences \subseteq Percent
    /\ MaxNear \in 1..3 /\ MaxFindings \in Nat /\ MaxMatches \in Nat /\ MaxFaults \in Nat /\ MaxCalls \in Nat

Stages == {"registry", "filter", "history", "archive", "cache", "extract", "agentic", "behavior",
           "strings", "diff", "match", "anomalies", "indicators", "patterns", "review",
           "dependencies", "binary", "sandbox", "decide", "store"}
Ends == {"preflight", "registry", "filter", "archive", "cache", "failed", "agentic", "decided"}
Diffs == Severities \union {"none", "error"}
Options == {o \in [cache : BOOLEAN, force : BOOLEAN, multi : BOOLEAN] : o.force => o.cache}

VARIABLES
    risk,       \* how the version differs from the previous one, or "error": nothing to compare
    stored,     \* the stored report: no element or one
    kept,       \* the cached stage 3B result: no element or one
    pc,
    opts,
    evidence,
    matches,    \* TTP matches not yet reviewed
    diff,       \* ctx.diff: none, an error, or a severity
    passed, failed,     \* results of the required stages
    verdict,
    via,        \* how the call ended
    heard,      \* history: matches that two agents called suspicious or worse
    missed,     \* history: stage 3B failed in this call
    findings, faults, calls

call == <<opts, evidence, matches, diff, passed, failed, verdict, via, heard, missed>>
bounds == <<findings, faults, calls>>
vars == <<risk, stored, kept, pc, call, bounds>>

TypeOK ==
    /\ risk \in Severities \union {"error"}
    /\ stored \in SUBSET [verdict : Verdicts, passed : SUBSET Required]
    /\ kept \in SUBSET (Diffs \ {"none"})
    /\ pc \in Stages \union {"idle"}
    /\ opts \in Options
    /\ evidence \in Seq(Evidence)
    /\ matches \in Seq([sev : Severities, sim : Similarities])
    /\ diff \in Diffs
    /\ passed \subseteq Required /\ failed \subseteq Required
    /\ verdict \in Verdicts \union {"none"}
    /\ via \in Ends \union {"none"}
    /\ heard \subseteq [sev : Severities, sim : Similarities, malicious : BOOLEAN]
    /\ missed \in BOOLEAN
    /\ findings \in 0..MaxFindings /\ faults \in 0..MaxFaults /\ calls \in 0..MaxCalls

Init ==
    /\ risk \in Severities \union {"error"}
    /\ stored = {} /\ kept = {}
    /\ pc = "idle"
    /\ opts = [cache |-> FALSE, force |-> FALSE, multi |-> FALSE]
    /\ evidence = <<>> /\ matches = <<>> /\ diff = "none"
    /\ passed = {} /\ failed = {} /\ verdict = "none" /\ via = "none"
    /\ heard = {} /\ missed = FALSE
    /\ findings = 0 /\ faults = 0 /\ calls = 0

-----------------------------------------------------------------------------
(* Steps shared by the stages *)

Goto(stage) == pc' = stage

Fault == faults < MaxFaults /\ faults' = faults + 1
NoFault == UNCHANGED faults

Report(v, E, how) ==
    /\ verdict' = v /\ evidence' = E /\ via' = how /\ pc' = "idle"

\* The rest of the call stays as it is.
Silent == UNCHANGED <<opts, matches, diff, heard, missed>>
NotReported == UNCHANGED <<verdict, via>>
Caches == UNCHANGED <<stored, kept>>
Results == UNCHANGED <<passed, failed>>

\* A stage that adds what it finds, one list at a time, and never stops a call.
Optional(stage, found, next) ==
    /\ pc = stage
    /\ \/ /\ findings < MaxFindings /\ findings' = findings + 1
          /\ \E list \in found : evidence' = evidence \o list
          /\ UNCHANGED pc
       \/ Goto(next) /\ UNCHANGED <<evidence, findings>>
    /\ Silent /\ NotReported /\ Caches /\ Results /\ NoFault /\ UNCHANGED <<risk, calls>>

Each(S) == {<<e>> : e \in S}

Unchanged == Silent /\ Caches /\ UNCHANGED <<risk, findings, calls>>

-----------------------------------------------------------------------------
(* The call *)

\* A call begins; without an API key in claude mode it ends at once.
Begin ==
    /\ pc = "idle" /\ calls < MaxCalls
    /\ calls' = calls + 1
    /\ opts' \in Options
    /\ matches' = <<>> /\ diff' = "none" /\ heard' = {} /\ missed' = FALSE
    /\ passed' = {} /\ failed' = {}
    /\ \/ evidence' = <<>> /\ verdict' = "none" /\ via' = "none" /\ Goto("registry")
       \/ Report("ERROR", <<>>, "preflight")
    /\ Caches /\ NoFault /\ UNCHANGED <<risk, findings>>

\* Stage 0.
Registry ==
    /\ pc = "registry"
    /\ \/ Goto("filter") /\ NotReported /\ NoFault /\ UNCHANGED evidence
       \/ Report("CANNOT_ANALYZE", <<>>, "registry") /\ NoFault
       \/ Fault /\ Report("ERROR", <<>>, "failed")
    /\ Results /\ Unchanged

\* Stage 0A reports its similar names together.
FilterFinds == UNION {[1..n -> {LooksLike(s) : s \in NameSims}] : n \in 1..MaxNear}

\* Stage 0A, if the package is listed: the call ends with what the filter found.
ThreatFilterGate ==
    /\ pc = "filter"
    /\ \E near \in {<<>>} \union FilterFinds :
            Report("MALICIOUS", evidence \o <<KnownBad>> \o near, "filter")
    /\ NoFault /\ Results /\ Unchanged

\* Stage 0A otherwise, and stage 0B.
ThreatFilter ==
    /\ pc = "filter" /\ Goto("history")
    /\ \/ UNCHANGED <<evidence, findings>>
       \/ /\ findings < MaxFindings /\ findings' = findings + 1
          /\ \E near \in FilterFinds : evidence' = evidence \o near
    /\ Silent /\ NotReported /\ Caches /\ Results /\ NoFault /\ UNCHANGED <<risk, calls>>

HistoryFinds == Each({KnownBad} \union {NameNear(s) : s \in NameSims})
AttackHistory == Optional("history", HistoryFinds, "archive")

\* Without an archive URL the verdict is decided on the evidence so far.
Archive ==
    /\ pc = "archive"
    /\ \/ Goto("cache") /\ NotReported /\ UNCHANGED evidence
       \/ Report(Decide(evidence, passed, failed), evidence, "archive")
    /\ NoFault /\ Results /\ Unchanged

\* Stage 0E: a hit restores the stored verdict, and none of the evidence.
CacheLookup ==
    /\ pc = "cache"
    /\ \/ /\ opts.cache /\ ~opts.force
          /\ \E r \in stored : Report(r.verdict, <<>>, "cache")
       \/ Goto("extract") /\ NotReported /\ UNCHANGED evidence
    /\ NoFault /\ Results /\ Unchanged

\* Stage 1B.
Extract ==
    /\ pc = "extract"
    /\ \/ Goto("agentic") /\ NotReported /\ NoFault
       \/ Fault /\ Report("ERROR", evidence, "failed")
    /\ UNCHANGED evidence /\ Results /\ Unchanged

\* Stage 1C: rule hits an agentic package of each class may come with.
RuleHits(class) ==
    CASE class = "MALICIOUS" -> {<<>>, <<AgenticRule("MALICIOUS")>>}
      [] class = "HIGH_RISK" -> {<<AgenticRule("HIGH_RISK")>>,
                                 <<AgenticRule("SUSPICIOUS"), AgenticRule("SUSPICIOUS")>>}
      [] class = "SUSPICIOUS" -> {<<AgenticRule("SUSPICIOUS")>>}
      [] class = "AGENTIC" -> {<<>>}

AgenticEvidence(class) == {evidence \o <<AgenticClass(class)>> \o hits : hits \in RuleHits(class)}

\* MALICIOUS and HIGH_RISK end the call; SUSPICIOUS and AGENTIC add evidence.
Agentic ==
    /\ pc = "agentic"
    /\ \/ Goto("behavior") /\ NotReported /\ UNCHANGED evidence
       \/ \E class \in {"MALICIOUS", "HIGH_RISK"} :
            \E E \in AgenticEvidence(class) : Report(class, E, "agentic")
       \/ /\ \E class \in {"SUSPICIOUS", "AGENTIC"} : evidence' \in AgenticEvidence(class)
          /\ Goto("behavior") /\ NotReported
    /\ NoFault /\ Results /\ Unchanged

\* A required stage succeeds, or fails and the call ends.
Passes(stage) == passed' = passed \union {stage} /\ UNCHANGED failed /\ NotReported
Fails(stage) ==
    /\ Fault
    /\ failed' = failed \union {stage} /\ UNCHANGED passed
    /\ Report("ERROR", evidence, "failed")

\* Stage 2.
Behavior ==
    /\ pc = "behavior"
    /\ \/ Passes("stage_2") /\ Goto("strings") /\ NoFault /\ UNCHANGED evidence
       \/ Fails("stage_2")
    /\ Unchanged

\* Stage 2B.
StringFinds == Each({StringFound(d) : d \in BOOLEAN})
Strings == Optional("strings", StringFinds, "diff")

\* Stage 3B: the cached result, or a comparison with the previous version,
\* whose result, an error too, is then cached.  Restoring the cached result or
\* caching the new one may fail, and the stage may raise.
Diff ==
    /\ pc = "diff" /\ Goto("match")
    /\ \/ /\ opts.cache /\ ~opts.force /\ kept # {}
          /\ diff' \in kept
          /\ NoFault /\ UNCHANGED <<kept, missed>>
       \/ /\ kept = {} \/ ~opts.cache \/ opts.force
          /\ \/ diff' = risk /\ NoFault /\ UNCHANGED missed
             \/ diff' = "error" /\ Fault /\ missed' = TRUE
          /\ kept' = IF opts.cache THEN {diff'} ELSE kept
       \/ diff' = risk /\ Fault /\ UNCHANGED <<kept, missed>>
       \/ Fault /\ missed' = TRUE /\ UNCHANGED <<diff, kept>>
    /\ UNCHANGED <<risk, stored, opts, evidence, matches, heard, findings, calls>>
    /\ NotReported /\ Results

\* Stage 4.
Match ==
    /\ pc = "match"
    /\ \/ /\ \E n \in 0..MaxMatches :
                matches' \in [1..n -> [sev : Severities, sim : Similarities]]
          /\ Passes("stage_4") /\ Goto("anomalies") /\ NoFault /\ UNCHANGED evidence
       \/ Fails("stage_4") /\ UNCHANGED matches
    /\ Caches /\ UNCHANGED <<risk, opts, diff, heard, missed, findings, calls>>

\* Stages 4B, 4C and 4E.
AnomalyFinds == Each({Anomaly})
Anomalies == Optional("anomalies", AnomalyFinds, "indicators")

IndicatorFinds == Each({Indicator(s, c, w) : s \in Severities, c \in Confidences, w \in BOOLEAN})
Indicators == Optional("indicators", IndicatorFinds, "patterns")

PatternFinds == Each({Pattern(s) : s \in Severities})
Patterns == Optional("patterns", PatternFinds, "review")

-----------------------------------------------------------------------------
(* Stage 5 *)

Carried == IF diff \in Severities THEN diff ELSE NoDiff

\* One match reviewed.  An agent whose call fails counts as BENIGN.
Review ==
    /\ pc = "review" /\ matches # <<>>
    /\ matches' = Tail(matches)
    /\ \/ /\ opts.multi
          /\ \E votes \in [Agents -> LLMVerdicts \union {"failed"}] :
                LET counted == [a \in Agents |-> IF votes[a] = "failed" THEN "BENIGN" ELSE votes[a]]
                    m == Head(matches)
                IN  /\ IF "failed" \in Range(votes) THEN Fault ELSE NoFault
                    /\ evidence' = Append(evidence, Reviewed(m, Consensus(counted), Carried))
                    /\ heard' = IF Voting(votes, "MALICIOUS") + Voting(votes, "SUSPICIOUS") >= 2
                                THEN heard \union {[sev |-> m.sev, sim |-> m.sim,
                                        malicious |-> Voting(votes, "MALICIOUS") >= 2]}
                                ELSE heard
       \/ /\ ~opts.multi
          /\ \E llm \in LLMVerdicts :
                evidence' = Append(evidence, Reviewed(Head(matches), llm, Carried))
          /\ NoFault /\ UNCHANGED heard
    /\ UNCHANGED pc /\ NotReported /\ Results /\ Caches
    /\ UNCHANGED <<risk, opts, diff, missed, findings, calls>>

\* A plausible bug: the failure is recorded and the call goes on.
BugReviewFails ==
    /\ pc = "review" /\ matches # <<>> /\ ~opts.multi
    /\ Fault /\ failed' = failed \union {"stage_5"} /\ Goto("dependencies")
    /\ UNCHANGED <<passed, evidence>> /\ NotReported /\ Unchanged

\* The single reviewer's call or answer fails, and with it stage 5.
ReviewFails ==
    /\ pc = "review" /\ matches # <<>> /\ ~opts.multi
    /\ Fails("stage_5") /\ Unchanged

\* A plausible bug: the diff becomes evidence only if there is no other.
BugReviewDone ==
    /\ pc = "review" /\ matches = <<>>
    /\ evidence' = IF diff \in {"MEDIUM", "HIGH"} /\ evidence = <<>>
                   THEN <<DiffOnly(diff)>> ELSE evidence
    /\ Passes("stage_5") /\ Goto("dependencies") /\ NoFault /\ Unchanged

\* All matches reviewed: a risky diff that no evidence carries becomes evidence.
ReviewDone ==
    /\ pc = "review" /\ matches = <<>>
    /\ evidence' = IF /\ diff \in {"MEDIUM", "HIGH"}
                      /\ \A i \in DOMAIN evidence : evidence[i].diff = NoDiff
                   THEN Append(evidence, DiffOnly(diff)) ELSE evidence
    /\ Passes("stage_5") /\ Goto("dependencies") /\ NoFault /\ Unchanged

\* Stages 6, 7 and 8.
DependencyLists == Each(DependencyFinds)
Dependencies == Optional("dependencies", DependencyLists, "binary")

BinaryFinds == Each({NativeBinary})
Binaries == Optional("binary", BinaryFinds, "sandbox")

SandboxFinds == Each({Sandboxed(n) : n \in BOOLEAN})
Sandbox == Optional("sandbox", SandboxFinds, "decide")

\* Stage 9.
DecideVerdict ==
    /\ pc = "decide" /\ Goto("store")
    /\ verdict' = Decide(evidence, passed, failed) /\ via' = "decided"
    /\ UNCHANGED evidence /\ NoFault /\ Results /\ Unchanged

\* The report is stored, if caching is on and it works, and returned.
Store ==
    /\ pc = "store" /\ Goto("idle")
    /\ \/ opts.cache /\ stored' = {[verdict |-> verdict, passed |-> passed]}
       \/ UNCHANGED stored
    /\ UNCHANGED <<risk, kept, call, bounds>>

Next ==
    \/ Begin \/ Registry \/ ThreatFilterGate \/ ThreatFilter \/ AttackHistory \/ Archive
    \/ CacheLookup \/ Extract \/ Agentic \/ Behavior \/ Strings \/ Diff \/ Match
    \/ Anomalies \/ Indicators \/ Patterns \/ Review \/ ReviewFails \/ ReviewDone
    \/ Dependencies \/ Binaries \/ Sandbox \/ DecideVerdict \/ Store

Spec == Init /\ [][Next]_vars

-----------------------------------------------------------------------------
(* Properties *)

\* A verdict decided on evidence is never below what any part of that evidence
\* would have given: no finding can be talked down by more findings, whatever
\* stages they come from (decide_verdict, verdict_rules.py).
EvidenceDecides ==
    via \in {"decided", "archive"} /\ verdict # "ERROR" =>
        \A S \in SUBSET DOMAIN evidence :
            Rank[verdict] >= Rank[Judge([i \in S |-> evidence[i]])]

\* A stored report comes from a call in which stages 2, 4 and 5 all succeeded,
\* so that no later call is answered with an error or a partial judgement.
StoredIsComplete ==
    \A r \in stored : r.passed = Required /\ r.verdict \in DOMAIN Rank

\* Two agents that call a match suspicious or worse are heard in the verdict:
\* it is at least SUSPICIOUS, at least HIGH_RISK if the match is strong, and
\* MALICIOUS if both say so of a close enough match of a severe technique,
\* whatever the third agent says or fails at and whatever other stages found
\* (consensus, match_confidence and decide_verdict together).
AgentsHeard ==
    via = "decided" => \A m \in heard :
        /\ Rank[verdict] >= 1
        /\ m.sim >= 85 /\ m.sev # "LOW" => Rank[verdict] >= 2
        /\ m.sim >= 75 /\ m.sev = "HIGH" /\ m.malicious => verdict = "MALICIOUS"

\* A release that differs dangerously from its predecessor is called CLEAN only
\* if stage 3B failed, in this call or in the earlier one that left its error in
\* the stage cache (diff-only evidence, pipeline.py stage 5).
RiskyUpdateReported ==
    via = "decided" /\ risk \in {"MEDIUM", "HIGH"} /\ verdict = "CLEAN" =>
        missed \/ (kept = {"error"} /\ opts.cache /\ ~opts.force)
=============================================================================
