--------------------------- MODULE PipelineProofs ---------------------------
(***************************************************************************)
(* run_pipeline reports what its evidence demands, for any number of       *)
(* calls, findings, matches and failures and any similarities.             *)
(***************************************************************************)
EXTENDS Pipeline, TLAPS, FiniteSetTheorems

-----------------------------------------------------------------------------
(* decide_verdict and the consensus *)

\* decide_verdict is monotone: evidence only ever raises the verdict, since
\* every rule asks for the presence of evidence (verdict_rules.py, rule 4).
THEOREM JudgeMonotone ==
  ASSUME NEW E, NEW S \in SUBSET DOMAIN E
  PROVE  Rank[Judge(E)] >= Rank[Judge([i \in S |-> E[i]])]
  <1> DEFINE F == [i \in S |-> E[i]]
  <1>1. DOMAIN F = S /\ \A i \in S : F[i] = E[i] /\ i \in DOMAIN E
    OBVIOUS
  <1> HIDE DEF F
  <1>2. IsMalicious(F) => IsMalicious(E)
    BY <1>1 DEF IsMalicious
  <1>3. IsHighRisk(F) => IsHighRisk(E)
    BY <1>1 DEF IsHighRisk
  <1>4. IsSuspicious(F) => IsSuspicious(E)
    BY <1>1 DEF IsSuspicious
  <1>5. Rank[Judge(E)] >= Rank[Judge(F)]
    BY <1>2, <1>3, <1>4 DEF Judge, Rank
  <1>6. QED
    BY <1>5 DEF F

LEMMA JudgeRank == ASSUME NEW E PROVE Judge(E) \in DOMAIN Rank
  BY DEF Judge, Rank

\* Agents that fail count as BENIGN, which takes no vote from the others.
Counted(votes) == [a \in Agents |-> IF votes[a] = "failed" THEN "BENIGN" ELSE votes[a]]

LEMMA VotingNat ==
  ASSUME NEW votes, NEW v
  PROVE  Voting(votes, v) \in Nat
  <1>1. IsFiniteSet({"semantic"})
    BY FS_Singleton
  <1>2. IsFiniteSet({"semantic"} \union {"diff"})
    BY <1>1, FS_AddElement
  <1>3. IsFiniteSet({"semantic"} \union {"diff"} \union {"dependency"})
    BY <1>2, FS_AddElement
  <1>4. IsFiniteSet(Agents)
    <2>1. Agents = {"semantic"} \union {"diff"} \union {"dependency"}
      BY DEF Agents
    <2>2. QED
      BY <1>3, <2>1
  <1>5. IsFiniteSet({a \in Agents : votes[a] = v})
    BY <1>4, FS_Subset
  <1>6. QED
    BY <1>5, FS_CardinalityType DEF Voting

LEMMA ConsensusHears ==
  ASSUME NEW votes,
         Voting(votes, "MALICIOUS") + Voting(votes, "SUSPICIOUS") >= 2
  PROVE  /\ Consensus(Counted(votes)) \in {"SUSPICIOUS", "MALICIOUS"}
         /\ Voting(votes, "MALICIOUS") >= 2 => Consensus(Counted(votes)) = "MALICIOUS"
  <1>1. \A v \in {"MALICIOUS", "SUSPICIOUS"} : Voting(Counted(votes), v) = Voting(votes, v)
    BY DEF Voting, Counted
  <1>2. Voting(votes, "MALICIOUS") \in Nat /\ Voting(votes, "SUSPICIOUS") \in Nat
    BY VotingNat
  <1>3. QED
    BY <1>1, <1>2 DEF Consensus

LEMMA ConsensusType == ASSUME NEW votes PROVE Consensus(votes) \in LLMVerdicts
  BY VotingNat DEF Consensus, LLMVerdicts

-----------------------------------------------------------------------------
(* The inductive invariant *)

BeforeDiff == {"registry", "filter", "history", "archive", "cache", "extract", "agentic",
               "behavior", "strings", "diff"}
BeforeReview == BeforeDiff \union {"match", "anomalies", "indicators", "patterns"}
AfterReview == {"dependencies", "binary", "sandbox", "decide", "store"}

\* The required stages behind a call have succeeded, and none has failed.
Progress ==
    /\ pc # "idle" => failed = {}
    /\ pc \in Stages \ (BeforeDiff \ {"strings", "diff"}) => "stage_2" \in passed
    /\ pc \in Stages \ (BeforeDiff \union {"match"}) => "stage_4" \in passed
    /\ pc \in AfterReview => "stage_5" \in passed

\* Only a call that went through all stages has decided.
Ended ==
    /\ pc \in Stages \ {"store"} => via = "none"
    /\ pc = "store" => via = "decided"
    /\ via = "decided" => passed = Required /\ failed = {}
    /\ via \in {"decided", "archive"} => verdict = Decide(evidence, passed, failed)

\* A match two agents are alarmed about has evidence that says so.
Backs(e, m) ==
    /\ e.sev = m.sev /\ e.sim = m.sim /\ e.conf = MatchConfidence(e.sim, e.llm)
    /\ e.llm \in {"SUSPICIOUS", "MALICIOUS"} /\ (m.malicious => e.llm = "MALICIOUS")

HeardIsBacked ==
    /\ pc \in BeforeReview => heard = {}
    /\ \A m \in heard : \E i \in DOMAIN evidence : Backs(evidence[i], m)

\* The diff of this call is the real one, unless stage 3B failed or its cached
\* error was used; evidence carries it or none, and does once reviewed.
Stale == kept = {"error"} /\ opts.cache /\ ~opts.force
DiffIsCarried ==
    /\ kept \subseteq {risk, "error"}
    /\ \A a, b \in kept : a = b
    /\ \A i \in DOMAIN evidence : evidence[i].diff \in {NoDiff, diff}
    /\ pc \in BeforeDiff => \A i \in DOMAIN evidence : evidence[i].diff = NoDiff
    /\ pc \in Stages \ BeforeDiff \/ via = "decided" => diff = risk \/ missed \/ Stale
    /\ (pc \in AfterReview \/ via = "decided") /\ diff \in {"MEDIUM", "HIGH"} =>
           \E i \in DOMAIN evidence : evidence[i].diff = diff

IInv == TypeOK /\ Progress /\ Ended /\ HeardIsBacked /\ DiffIsCarried /\ StoredIsComplete

-----------------------------------------------------------------------------
(* Types of evidence *)

Plain == {e \in Evidence : e.diff = NoDiff}

LEMMA EvType ==
  ASSUME NEW sev \in Severities, NEW sim \in Percent, NEW llm \in LLMVerdicts,
         NEW conf \in Percent
  PROVE  Ev(sev, sim, llm, conf) \in Plain
  BY DEF Ev, Plain, Evidence

LEMMA ConfidenceType ==
  ASSUME NEW sim \in Percent, NEW llm \in LLMVerdicts
  PROVE  MatchConfidence(sim, llm) \in Percent
  BY DEF MatchConfidence, Percent, LLMVerdicts

\* A converter's evidence, once its cases are told apart.
LEMMA RuleType ==
  /\ \A c \in {"MALICIOUS", "HIGH_RISK", "SUSPICIOUS", "AGENTIC"} : AgenticClass(c) \in Plain
  /\ \A s \in {"MALICIOUS", "HIGH_RISK", "SUSPICIOUS"} : AgenticRule(s) \in Plain
  <1> USE DEF Severities, LLMVerdicts, Percent
  <1>1. ASSUME NEW c \in {"MALICIOUS", "HIGH_RISK", "SUSPICIOUS", "AGENTIC"}
        PROVE  AgenticClass(c) \in Plain
    <2>1. AgenticClass(c) \in {Ev("HIGH", 100, "MALICIOUS", 90), Ev("MEDIUM", 100, "SUSPICIOUS", 60),
                               Ev("LOW", 100, "SUSPICIOUS", 60)}
      BY DEF AgenticClass
    <2>2. QED
      BY <2>1 DEF Ev, Plain, Evidence
  <1>2. ASSUME NEW s \in {"MALICIOUS", "HIGH_RISK", "SUSPICIOUS"}
        PROVE  AgenticRule(s) \in Plain
    <2>1. AgenticRule(s) \in {Ev("HIGH", 100, "MALICIOUS", 90), Ev("HIGH", 100, "SUSPICIOUS", 75),
                              Ev("MEDIUM", 100, "SUSPICIOUS", 55)}
      BY DEF AgenticRule
    <2>2. QED
      BY <2>1 DEF Ev, Plain, Evidence
  <1>3. QED
    BY <1>1, <1>2

LEMMA FoundType ==
  /\ KnownBad \in Plain /\ Anomaly \in Plain /\ NativeBinary \in Plain
  /\ \A s \in NameSims : LooksLike(s) \in Plain /\ NameNear(s) \in Plain
  /\ \A d \in BOOLEAN : StringFound(d) \in Plain /\ Sandboxed(d) \in Plain
  /\ \A s \in Severities : Pattern(s) \in Plain
  /\ DependencyFinds \subseteq Plain
  <1> USE DEF Severities, LLMVerdicts, Percent
  <1>1. KnownBad \in Plain /\ Anomaly \in Plain /\ NativeBinary \in Plain
    BY DEF Ev, Plain, Evidence, KnownBad, Anomaly, NativeBinary
  <1>2. \A s \in NameSims : LooksLike(s) \in Plain /\ NameNear(s) \in Plain
    <2>1. ASSUME NEW s \in NameSims PROVE LooksLike(s) \in Plain
      <3> DEFINE sev == IF s >= 85 THEN "MEDIUM" ELSE "LOW"
                 conf == IF s > 90 THEN 90 ELSE s
      <3>1. s \in Percent /\ conf \in Percent /\ sev \in Severities /\ "SUSPICIOUS" \in LLMVerdicts
        BY PipelineAssumption
      <3> HIDE DEF sev, conf
      <3>2. Ev(sev, s, "SUSPICIOUS", conf) \in Plain
        BY <3>1, EvType
      <3>3. QED
        BY <3>2 DEF LooksLike, sev, conf
    <2>2. ASSUME NEW s \in NameSims PROVE NameNear(s) \in Plain
      <3>1. s \in Percent /\ "LOW" \in Severities /\ "BENIGN" \in LLMVerdicts /\ 30 \in Percent
        BY PipelineAssumption
      <3>2. QED
        BY ONLY <3>1, EvType DEF NameNear
    <2>3. QED
      BY <2>1, <2>2
  <1>3. ASSUME NEW d \in BOOLEAN PROVE StringFound(d) \in Plain /\ Sandboxed(d) \in Plain
    <2>1. StringFound(d) \in {Ev("MEDIUM", 100, "SUSPICIOUS", 80), Ev("LOW", 100, "BENIGN", 40)}
      BY DEF StringFound
    <2>2. Sandboxed(d) \in {Ev("HIGH", 100, "SUSPICIOUS", 85), Ev("LOW", 100, "SUSPICIOUS", 85)}
      BY DEF Sandboxed
    <2>3. QED
      BY <2>1, <2>2 DEF Ev, Plain, Evidence
  <1>4. ASSUME NEW s \in Severities PROVE Pattern(s) \in Plain
    <2>1. Pattern(s) \in {Ev("HIGH", 100, "MALICIOUS", 85), Ev("MEDIUM", 100, "SUSPICIOUS", 65),
                          Ev("LOW", 100, "BENIGN", 40)}
      BY DEF Pattern
    <2>2. QED
      BY <2>1 DEF Ev, Plain, Evidence
  <1>5. DependencyFinds \subseteq Plain
    <2>1. DependencyFinds \subseteq {Ev("HIGH", 100, "MALICIOUS", 90), Ev("MEDIUM", 100, "SUSPICIOUS", 70)}
      BY DEF DependencyFinds
    <2>2. QED
      BY <2>1 DEF Ev, Plain, Evidence
  <1>6. QED
    BY <1>1, <1>2, <1>3, <1>4, <1>5

LEMMA IndicatorType ==
  ASSUME NEW s \in Severities, NEW c \in Confidences, NEW w \in BOOLEAN
  PROVE  Indicator(s, c, w) \in Plain
  <1> DEFINE llm == CASE s = "HIGH" /\ c >= 80 -> "MALICIOUS"
                      [] ~(s = "HIGH" /\ c >= 80) /\ s # "LOW" /\ c >= 50 -> "SUSPICIOUS"
                      [] OTHER -> "BENIGN"
  <1>1. c \in Percent
    BY PipelineAssumption
  <1>2. llm \in LLMVerdicts
    BY DEF LLMVerdicts
  <1> HIDE DEF llm
  <1>3. Ev(s, 100, llm, c) \in Plain
    BY <1>1, <1>2 DEF Ev, Plain, Evidence, Percent
  <1>4. Ev("LOW", 100, "BENIGN", IF c > 40 THEN 40 ELSE c) \in Plain
    BY <1>1 DEF Ev, Plain, Evidence, Percent, Severities, LLMVerdicts
  <1>5. QED
    BY <1>3, <1>4 DEF Indicator, llm

\* Whatever a stage adds to the list of evidence is evidence without a diff.
LEMMA FindsType ==
  /\ FilterFinds \subseteq Seq(Plain)
  /\ HistoryFinds \subseteq Seq(Plain)
  /\ StringFinds \subseteq Seq(Plain)
  /\ AnomalyFinds \subseteq Seq(Plain)
  /\ IndicatorFinds \subseteq Seq(Plain)
  /\ PatternFinds \subseteq Seq(Plain)
  /\ DependencyLists \subseteq Seq(Plain)
  /\ BinaryFinds \subseteq Seq(Plain)
  /\ SandboxFinds \subseteq Seq(Plain)
  <1>1. ASSUME NEW S, S \subseteq Plain
        PROVE  Each(S) \subseteq Seq(Plain)
    <2>1. ASSUME NEW e \in S PROVE <<e>> \in Seq(Plain)
      <3>1. e \in Plain
        BY <1>1
      <3>2. QED
        BY <3>1
    <2>2. QED
      BY <2>1 DEF Each
  <1>2. FilterFinds \subseteq Seq(Plain)
    BY FoundType, PipelineAssumption DEF FilterFinds
  <1>3. HistoryFinds \subseteq Seq(Plain)
    BY <1>1, FoundType DEF HistoryFinds
  <1>4. StringFinds \subseteq Seq(Plain) /\ SandboxFinds \subseteq Seq(Plain)
    BY <1>1, FoundType DEF StringFinds, SandboxFinds
  <1>5. AnomalyFinds \subseteq Seq(Plain) /\ BinaryFinds \subseteq Seq(Plain)
    BY <1>1, FoundType DEF AnomalyFinds, BinaryFinds
  <1>6. IndicatorFinds \subseteq Seq(Plain)
    BY <1>1, IndicatorType DEF IndicatorFinds
  <1>7. PatternFinds \subseteq Seq(Plain) /\ DependencyLists \subseteq Seq(Plain)
    BY <1>1, FoundType DEF PatternFinds, DependencyLists
  <1>8. QED
    BY <1>2, <1>3, <1>4, <1>5, <1>6, <1>7

\* The evidence of a call is kept and added to.
Grows ==
    /\ evidence' \in Seq(Evidence)
    /\ \A i \in DOMAIN evidence : i \in DOMAIN evidence' /\ evidence'[i] = evidence[i]
    /\ \A i \in DOMAIN evidence' : i \in DOMAIN evidence \/ evidence'[i].diff = NoDiff

LEMMA AddingGrows ==
  ASSUME evidence \in Seq(Evidence), NEW list \in Seq(Plain), evidence' = evidence \o list
  PROVE  Grows
  BY DEF Grows, Plain

LEMMA KeepingGrows ==
  ASSUME evidence \in Seq(Evidence), evidence' = evidence
  PROVE  Grows
  BY DEF Grows

LEMMA AgenticGrows ==
  ASSUME evidence \in Seq(Evidence),
         NEW class \in {"MALICIOUS", "HIGH_RISK", "SUSPICIOUS", "AGENTIC"},
         evidence' \in AgenticEvidence(class)
  PROVE  Grows
  <1>1. AgenticClass(class) \in Plain
    BY RuleType
  <1>2. \A s \in {"MALICIOUS", "HIGH_RISK", "SUSPICIOUS"} : AgenticRule(s) \in Plain
    BY RuleType
  <1>3. RuleHits(class) \subseteq Seq(Plain)
    <2>1. RuleHits(class) \subseteq
              {<<>>, <<AgenticRule("MALICIOUS")>>, <<AgenticRule("HIGH_RISK")>>,
               <<AgenticRule("SUSPICIOUS")>>, <<AgenticRule("SUSPICIOUS"), AgenticRule("SUSPICIOUS")>>}
      BY DEF RuleHits
    <2>2. \A e \in Plain : <<e>> \in Seq(Plain) /\ <<e, e>> \in Seq(Plain)
      OBVIOUS
    <2>3. <<>> \in Seq(Plain)
      OBVIOUS
    <2>4. /\ <<AgenticRule("MALICIOUS")>> \in Seq(Plain)
          /\ <<AgenticRule("HIGH_RISK")>> \in Seq(Plain)
          /\ <<AgenticRule("SUSPICIOUS")>> \in Seq(Plain)
          /\ <<AgenticRule("SUSPICIOUS"), AgenticRule("SUSPICIOUS")>> \in Seq(Plain)
      BY <1>2, <2>2, Zenon
    <2>5. QED
      BY <2>1, <2>3, <2>4, Zenon
  <1>4. PICK hits \in RuleHits(class) : evidence' = evidence \o <<AgenticClass(class)>> \o hits
    BY DEF AgenticEvidence
  <1>5. evidence' = evidence \o (<<AgenticClass(class)>> \o hits)
    BY <1>1, <1>3, <1>4 DEF Plain
  <1>6. <<AgenticClass(class)>> \o hits \in Seq(Plain)
    BY <1>1, <1>3, <1>4
  <1>7. QED
    BY <1>5, <1>6, AddingGrows

-----------------------------------------------------------------------------
(* What every step does to the matches heard, the diff and the stored report *)

\* A step that adds evidence without a diff, and does not move past stage 3B or 5.
LEMMA Carries ==
  ASSUME IInv, Grows,
         UNCHANGED <<risk, stored, kept, opts, diff, heard, missed>>,
         pc' \in BeforeDiff => pc \in BeforeDiff,
         pc' \in BeforeReview => pc \in BeforeReview,
         pc' \in Stages \ BeforeDiff \/ via' = "decided" => pc \in Stages \ BeforeDiff,
         pc' \in AfterReview \/ via' = "decided" => pc \in AfterReview
  PROVE  HeardIsBacked' /\ DiffIsCarried' /\ StoredIsComplete'
  <1>1. HeardIsBacked'
    BY DEF IInv, Grows, HeardIsBacked, Backs
  <1>2. DiffIsCarried'
    <2>1. \A i \in DOMAIN evidence' : evidence'[i].diff \in {NoDiff, diff}
      BY DEF IInv, Grows, DiffIsCarried
    <2>2. pc' \in BeforeDiff => \A i \in DOMAIN evidence' : evidence'[i].diff = NoDiff
      BY DEF IInv, Grows, DiffIsCarried
    <2>3. (pc' \in AfterReview \/ via' = "decided") /\ diff \in {"MEDIUM", "HIGH"} =>
              \E i \in DOMAIN evidence' : evidence'[i].diff = diff
      BY DEF IInv, Grows, DiffIsCarried
    <2>4. pc' \in Stages \ BeforeDiff \/ via' = "decided" => diff = risk \/ missed \/ Stale
      BY DEF IInv, DiffIsCarried
    <2>5. QED
      BY <2>1, <2>2, <2>3, <2>4 DEF IInv, DiffIsCarried, Stale
  <1>3. StoredIsComplete'
    BY DEF IInv, StoredIsComplete
  <1>4. QED
    BY <1>1, <1>2, <1>3

\* A call that begins, or ends without evidence.
LEMMA Empties ==
  ASSUME IInv, evidence' = <<>>, heard' = {},
         UNCHANGED <<risk, stored, kept>>,
         pc' \in {"idle", "registry"}, via' # "decided"
  PROVE  HeardIsBacked' /\ DiffIsCarried' /\ StoredIsComplete'
  <1>1. DOMAIN evidence' = {}
    OBVIOUS
  <1>2. QED
    BY <1>1 DEF IInv, HeardIsBacked, DiffIsCarried, StoredIsComplete, BeforeDiff, AfterReview, Stages

LEMMA DecideType ==
  ASSUME NEW E, NEW p, NEW f
  PROVE  /\ Decide(E, p, f) \in Verdicts
         /\ p = Required /\ f = {} => Decide(E, p, f) = Judge(E)
  BY JudgeRank DEF Decide, Verdicts

-----------------------------------------------------------------------------
(* The stages that are not required *)

\* Where they are, and which stage comes after each.
Follows == {<<"history", "archive">>, <<"strings", "diff">>, <<"anomalies", "indicators">>,
            <<"indicators", "patterns">>, <<"patterns", "review">>, <<"dependencies", "binary">>,
            <<"binary", "sandbox">>, <<"sandbox", "decide">>}

LEMMA OptionalStep ==
  ASSUME IInv, NEW stage, NEW next, <<stage, next>> \in Follows,
         NEW found, found \subseteq Seq(Plain), Optional(stage, found, next)
  PROVE  IInv'
  <1>1. pc = stage /\ pc' \in {stage, next}
    BY DEF Optional, Goto
  <1>2. UNCHANGED <<risk, stored, kept, opts, matches, diff, passed, failed, verdict, via, heard,
                    missed, faults, calls>>
    BY DEF Optional, Silent, NotReported, Caches, Results, NoFault
  <1>3. Grows
    <2>1. evidence \in Seq(Evidence)
      BY DEF IInv, TypeOK
    <2>2. evidence' = evidence \/ \E list \in found : evidence' = evidence \o list
      BY DEF Optional
    <2>3. QED
      BY <2>1, <2>2, AddingGrows, KeepingGrows
  <1>4. findings' \in 0..MaxFindings
    BY PipelineAssumption DEF Optional, IInv, TypeOK
  <1>5. stage \in Stages /\ next \in Stages
    BY DEF Follows, Stages
  <1>6. TypeOK'
    BY <1>1, <1>2, <1>3, <1>4, <1>5 DEF IInv, TypeOK, Grows
  <1>7. via = "none" /\ via' = "none" /\ pc' # "store"
    BY <1>1, <1>2 DEF IInv, Ended, Follows, Stages
  <1>8. Progress' /\ Ended'
    BY <1>1, <1>2, <1>7
    DEF IInv, Progress, Ended, Follows, Stages, BeforeDiff, AfterReview
  <1>9. HeardIsBacked' /\ DiffIsCarried' /\ StoredIsComplete'
    BY <1>1, <1>2, <1>3, <1>7, Carries
    DEF Follows, Stages, BeforeDiff, BeforeReview, AfterReview
  <1>10. QED
    BY <1>6, <1>8, <1>9 DEF IInv

-----------------------------------------------------------------------------
(* The call up to stage 2 *)

LEMMA InitIInv == Init => IInv
  <1> SUFFICES ASSUME Init PROVE IInv
    OBVIOUS
  <1>1. TypeOK
    <2>1. opts \in Options
      BY DEF Init, Options
    <2>2. evidence \in Seq(Evidence) /\ matches \in Seq([sev : Severities, sim : Similarities])
      BY DEF Init
    <2>3. findings \in 0..MaxFindings /\ faults \in 0..MaxFaults /\ calls \in 0..MaxCalls
      BY PipelineAssumption DEF Init
    <2>4. QED
      BY <2>1, <2>2, <2>3 DEF Init, TypeOK, Diffs
  <1>2. DOMAIN evidence = {}
    BY DEF Init
  <1>3. QED
    BY <1>1, <1>2
    DEF Init, IInv, Progress, Ended, HeardIsBacked, DiffIsCarried, StoredIsComplete, Stages,
        BeforeDiff, AfterReview

LEMMA BeginStep == IInv /\ Begin => IInv'
  <1> SUFFICES ASSUME IInv, Begin PROVE IInv'
    OBVIOUS
  <1>1. evidence' = <<>> /\ heard' = {} /\ pc' \in {"idle", "registry"} /\ via' # "decided"
    BY DEF Begin, Goto, Report
  <1>2. TypeOK'
    <2>1. calls' \in 0..MaxCalls
      BY PipelineAssumption DEF Begin, IInv, TypeOK
    <2>2. evidence' \in Seq(Evidence) /\ matches' \in Seq([sev : Severities, sim : Similarities])
      BY <1>1 DEF Begin
    <2>3. /\ pc' \in Stages \union {"idle"} /\ diff' \in Diffs
          /\ verdict' \in Verdicts \union {"none"} /\ via' \in Ends \union {"none"}
      BY DEF Begin, Goto, Report, Stages, Diffs, Verdicts, Ends
    <2>4. UNCHANGED <<risk, stored, kept, findings, faults>>
      BY DEF Begin, Caches, NoFault
    <2>5. QED
      BY <1>1, <2>1, <2>2, <2>3, <2>4 DEF Begin, IInv, TypeOK
  <1>3. Progress' /\ Ended'
    BY DEF Begin, Goto, Report, Progress, Ended, Stages, BeforeDiff, AfterReview
  <1>4. HeardIsBacked' /\ DiffIsCarried' /\ StoredIsComplete'
    BY <1>1, Empties DEF Begin, Caches
  <1>5. QED
    BY <1>2, <1>3, <1>4 DEF IInv

\* A stage before stage 2 goes on to the next one with the evidence it adds.
LEMMA Advances ==
  ASSUME IInv, Grows, pc \in BeforeDiff, pc' \in BeforeDiff,
         UNCHANGED <<risk, stored, kept, opts, matches, diff, passed, failed, verdict, via, heard,
                     missed, calls>>,
         findings' \in 0..MaxFindings, faults' \in 0..MaxFaults,
         pc \in {"strings", "diff"} <=> pc' \in {"strings", "diff"}
  PROVE  IInv'
  <1>1. TypeOK'
    BY DEF IInv, TypeOK, Grows, BeforeDiff, Stages
  <1>2. via = "none" /\ failed = {}
    BY DEF IInv, Ended, Progress, BeforeDiff, Stages
  <1>3. Progress' /\ Ended'
    BY <1>2 DEF IInv, Progress, Ended, BeforeDiff, Stages, AfterReview
  <1>4. HeardIsBacked' /\ DiffIsCarried' /\ StoredIsComplete'
    BY <1>2, Carries DEF BeforeDiff, BeforeReview, AfterReview, Stages
  <1>5. QED
    BY <1>1, <1>3, <1>4 DEF IInv

\* A stage ends the call with a report on the evidence it has or adds.
LEMMA EndsWith ==
  ASSUME IInv, Grows, pc' = "idle", verdict' \in Verdicts, via' \in Ends \ {"decided"},
         via' = "archive" => verdict' = Decide(evidence', passed', failed'),
         passed' = passed, failed' \subseteq Required,
         UNCHANGED <<risk, stored, kept, opts, matches, diff, heard, missed, findings, calls>>,
         faults' \in 0..MaxFaults
  PROVE  IInv'
  <1>1. TypeOK'
    BY DEF IInv, TypeOK, Grows
  <1>2. Progress' /\ Ended'
    BY DEF IInv, Progress, Ended, BeforeDiff, Stages, AfterReview, TypeOK
  <1>3. HeardIsBacked' /\ DiffIsCarried' /\ StoredIsComplete'
    BY Carries DEF BeforeDiff, BeforeReview, AfterReview, Stages
  <1>4. QED
    BY <1>1, <1>2, <1>3 DEF IInv

\* A stage ends the call with a report on no evidence.
LEMMA EndsEmpty ==
  ASSUME IInv, pc \in BeforeReview, evidence' = <<>>, pc' = "idle", verdict' \in Verdicts,
         via' \in Ends \ {"decided", "archive"},
         UNCHANGED <<risk, stored, kept, opts, matches, diff, passed, failed, heard, missed,
                     findings, calls>>,
         faults' \in 0..MaxFaults
  PROVE  IInv'
  <1>1. TypeOK'
    BY DEF IInv, TypeOK
  <1>2. Progress' /\ Ended'
    BY DEF IInv, Progress, Ended, BeforeDiff, Stages, AfterReview
  <1>3. HeardIsBacked' /\ DiffIsCarried' /\ StoredIsComplete'
    BY Empties DEF IInv, HeardIsBacked
  <1>4. QED
    BY <1>1, <1>2, <1>3 DEF IInv

LEMMA Bounded ==
  ASSUME IInv
  PROVE  /\ NoFault => faults' \in 0..MaxFaults
         /\ Fault => faults' \in 0..MaxFaults
         /\ UNCHANGED findings => findings' \in 0..MaxFindings
         /\ findings < MaxFindings /\ findings' = findings + 1 => findings' \in 0..MaxFindings
         /\ evidence \in Seq(Evidence)
  BY PipelineAssumption DEF IInv, TypeOK, NoFault, Fault

LEMMA RegistryStep == IInv /\ Registry => IInv'
  <1> SUFFICES ASSUME IInv, Registry PROVE IInv'
    OBVIOUS
  <1>1. /\ pc = "registry"
        /\ UNCHANGED <<risk, stored, kept, opts, matches, diff, passed, failed, heard, missed,
                       findings, calls>>
        /\ faults' \in 0..MaxFaults
    BY Bounded DEF Registry, Unchanged, Silent, Caches, Results
  <1>2. CASE pc' = "filter" /\ UNCHANGED <<verdict, via, evidence>>
    <2>1. Grows
      BY <1>2, Bounded, KeepingGrows
    <2>2. QED
      BY <1>1, <1>2, <2>1, Bounded, Advances DEF BeforeDiff
  <1>3. CASE /\ pc' = "idle" /\ evidence' = <<>> /\ verdict' \in {"CANNOT_ANALYZE", "ERROR"}
             /\ via' \in {"registry", "failed"}
    BY <1>1, <1>3, EndsEmpty DEF Verdicts, Ends, BeforeReview, BeforeDiff
  <1>4. QED
    BY <1>2, <1>3 DEF Registry, Goto, Report, NotReported

LEMMA ThreatFilterGateStep == IInv /\ ThreatFilterGate => IInv'
  <1> SUFFICES ASSUME IInv, ThreatFilterGate PROVE IInv'
    OBVIOUS
  <1>1. PICK near \in {<<>>} \union FilterFinds :
            Report("MALICIOUS", evidence \o <<KnownBad>> \o near, "filter")
    BY DEF ThreatFilterGate
  <1>2. near \in Seq(Plain) /\ KnownBad \in Plain
    <2>1. <<>> \in Seq(Plain)
      OBVIOUS
    <2>2. QED
      BY <2>1, FindsType, FoundType, Zenon
  <1>3. <<KnownBad>> \o near \in Seq(Plain)
    BY <1>2
  <1>4. evidence' = evidence \o (<<KnownBad>> \o near)
    BY <1>1, <1>2, Bounded DEF Report, Plain
  <1>5. Grows
    BY <1>3, <1>4, Bounded, AddingGrows
  <1>6. /\ UNCHANGED <<risk, stored, kept, opts, matches, diff, passed, failed, heard, missed,
                       findings, calls>>
        /\ faults' \in 0..MaxFaults
    BY Bounded DEF ThreatFilterGate, Unchanged, Silent, Caches, Results
  <1>7. pc' = "idle" /\ verdict' \in Verdicts /\ via' \in Ends \ {"decided", "archive"}
    BY <1>1 DEF Report, Verdicts, Ends, Rank
  <1>8. failed' \subseteq Required
    BY <1>6 DEF IInv, TypeOK
  <1>9. QED
    BY <1>5, <1>6, <1>7, <1>8, EndsWith

LEMMA ThreatFilterStep == IInv /\ ThreatFilter => IInv'
  <1> SUFFICES ASSUME IInv, ThreatFilter PROVE IInv'
    OBVIOUS
  <1>1. Grows
    BY Bounded, FindsType, AddingGrows, KeepingGrows DEF ThreatFilter
  <1>2. /\ UNCHANGED <<risk, stored, kept, opts, matches, diff, passed, failed, verdict, via, heard,
                       missed, calls>>
        /\ findings' \in 0..MaxFindings /\ faults' \in 0..MaxFaults
    BY Bounded DEF ThreatFilter, Silent, NotReported, Caches, Results
  <1>3. pc = "filter" /\ pc' = "history"
    BY DEF ThreatFilter, Goto
  <1>4. QED
    BY <1>1, <1>2, <1>3, Advances DEF BeforeDiff

LEMMA ArchiveStep == IInv /\ Archive => IInv'
  <1> SUFFICES ASSUME IInv, Archive PROVE IInv'
    OBVIOUS
  <1>1. /\ pc = "archive" /\ evidence' = evidence
        /\ UNCHANGED <<risk, stored, kept, opts, matches, diff, passed, failed, heard, missed,
                       findings, calls>>
        /\ faults' \in 0..MaxFaults
    BY Bounded DEF Archive, Unchanged, Silent, Caches, Results, Report
  <1>2. Grows
    BY <1>1, Bounded, KeepingGrows
  <1>3. CASE pc' = "cache" /\ UNCHANGED <<verdict, via>>
    BY <1>1, <1>2, <1>3, Bounded, Advances DEF BeforeDiff
  <1>4. CASE pc' = "idle" /\ verdict' = Decide(evidence, passed, failed) /\ via' = "archive"
    <2>1. failed' \subseteq Required
      BY <1>1 DEF IInv, TypeOK
    <2>2. QED
      BY <1>1, <1>2, <1>4, <2>1, DecideType, EndsWith DEF Ends
  <1>5. QED
    BY <1>3, <1>4 DEF Archive, Goto, Report, NotReported

LEMMA CacheLookupStep == IInv /\ CacheLookup => IInv'
  <1> SUFFICES ASSUME IInv, CacheLookup PROVE IInv'
    OBVIOUS
  <1>1. /\ pc = "cache"
        /\ UNCHANGED <<risk, stored, kept, opts, matches, diff, passed, failed, heard, missed,
                       findings, calls>>
        /\ faults' \in 0..MaxFaults
    BY Bounded DEF CacheLookup, Unchanged, Silent, Caches, Results
  <1>2. CASE pc' = "extract" /\ UNCHANGED <<verdict, via, evidence>>
    <2>1. Grows
      BY <1>2, Bounded, KeepingGrows
    <2>2. QED
      BY <1>1, <1>2, <2>1, Bounded, Advances DEF BeforeDiff
  <1>3. CASE \E r \in stored : Report(r.verdict, <<>>, "cache")
    <2>1. verdict' \in Verdicts
      BY <1>3 DEF Report, IInv, TypeOK
    <2>2. QED
      BY <1>1, <1>3, <2>1, EndsEmpty DEF Report, Ends, BeforeReview, BeforeDiff
  <1>4. QED
    BY <1>2, <1>3 DEF CacheLookup, Goto, NotReported

LEMMA ExtractStep == IInv /\ Extract => IInv'
  <1> SUFFICES ASSUME IInv, Extract PROVE IInv'
    OBVIOUS
  <1>1. /\ pc = "extract" /\ evidence' = evidence
        /\ UNCHANGED <<risk, stored, kept, opts, matches, diff, passed, failed, heard, missed,
                       findings, calls>>
        /\ faults' \in 0..MaxFaults
    BY Bounded DEF Extract, Unchanged, Silent, Caches, Results, Report
  <1>2. Grows
    BY <1>1, Bounded, KeepingGrows
  <1>3. CASE pc' = "agentic" /\ UNCHANGED <<verdict, via>>
    BY <1>1, <1>2, <1>3, Bounded, Advances DEF BeforeDiff
  <1>4. CASE pc' = "idle" /\ verdict' = "ERROR" /\ via' = "failed"
    <2>1. failed' \subseteq Required
      BY <1>1 DEF IInv, TypeOK
    <2>2. QED
      BY <1>1, <1>2, <1>4, <2>1, EndsWith DEF Ends, Verdicts
  <1>5. QED
    BY <1>3, <1>4 DEF Extract, Goto, Report, NotReported

LEMMA AgenticStep == IInv /\ Agentic => IInv'
  <1> SUFFICES ASSUME IInv, Agentic PROVE IInv'
    OBVIOUS
  <1>1. /\ pc = "agentic"
        /\ UNCHANGED <<risk, stored, kept, opts, matches, diff, passed, failed, heard, missed,
                       findings, calls>>
        /\ faults' \in 0..MaxFaults
    BY Bounded DEF Agentic, Unchanged, Silent, Caches, Results
  <1>2. Grows
    <2>1. \/ evidence' = evidence
          \/ \E class \in {"MALICIOUS", "HIGH_RISK", "SUSPICIOUS", "AGENTIC"} :
                evidence' \in AgenticEvidence(class)
      BY DEF Agentic, Report
    <2>2. QED
      BY <2>1, Bounded, KeepingGrows, AgenticGrows
  <1>3. CASE pc' = "behavior" /\ UNCHANGED <<verdict, via>>
    BY <1>1, <1>2, <1>3, Bounded, Advances DEF BeforeDiff
  <1>4. CASE pc' = "idle" /\ verdict' \in {"MALICIOUS", "HIGH_RISK"} /\ via' = "agentic"
    <2>1. failed' \subseteq Required
      BY <1>1 DEF IInv, TypeOK
    <2>2. verdict' \in Verdicts
      BY <1>4 DEF Verdicts, Rank
    <2>3. QED
      BY <1>1, <1>2, <1>4, <2>1, <2>2, EndsWith DEF Ends
  <1>5. QED
    BY <1>3, <1>4 DEF Agentic, Goto, Report, NotReported

-----------------------------------------------------------------------------
(* The required stages and the version diff *)

\* Nothing found when a required stage fails is lost.
LEMMA FailsStep ==
  ASSUME IInv, NEW stage \in Required, Fails(stage),
         UNCHANGED <<risk, stored, kept, opts, matches, diff, heard, missed, findings, calls>>
  PROVE  IInv'
  <1>1. Grows
    BY Bounded, KeepingGrows DEF Fails, Report
  <1>2. failed' \subseteq Required /\ passed' = passed /\ faults' \in 0..MaxFaults
    BY Bounded DEF Fails, IInv, TypeOK
  <1>3. pc' = "idle" /\ verdict' \in Verdicts /\ via' \in Ends \ {"decided", "archive"}
    BY DEF Fails, Report, Verdicts, Ends
  <1>4. QED
    BY <1>1, <1>2, <1>3, EndsWith

LEMMA BehaviorStep == IInv /\ Behavior => IInv'
  <1> SUFFICES ASSUME IInv, Behavior PROVE IInv'
    OBVIOUS
  <1>1. /\ pc = "behavior"
        /\ UNCHANGED <<risk, stored, kept, opts, matches, diff, heard, missed, findings, calls>>
    BY DEF Behavior, Unchanged, Silent, Caches
  <1>2. CASE Fails("stage_2")
    BY <1>1, <1>2, FailsStep DEF Required
  <1>3. CASE Passes("stage_2") /\ Goto("strings") /\ NoFault /\ UNCHANGED evidence
    <2>1. Grows
      BY <1>3, Bounded, KeepingGrows
    <2>2. /\ pc' = "strings" /\ passed' = passed \union {"stage_2"}
          /\ UNCHANGED <<failed, verdict, via, faults>>
      BY <1>3 DEF Passes, Goto, NotReported, NoFault
    <2>3. TypeOK'
      BY <1>1, <2>1, <2>2 DEF IInv, TypeOK, Grows, Stages, Required
    <2>4. via = "none" /\ failed = {}
      BY <1>1 DEF IInv, Ended, Progress, Stages
    <2>5. Progress' /\ Ended'
      BY <2>2, <2>4 DEF Progress, Ended, BeforeDiff, Stages, AfterReview
    <2>6. HeardIsBacked' /\ DiffIsCarried' /\ StoredIsComplete'
      BY <1>1, <2>1, <2>2, <2>4, Carries DEF BeforeDiff, BeforeReview, AfterReview, Stages
    <2>7. QED
      BY <2>3, <2>5, <2>6 DEF IInv
  <1>4. QED
    BY <1>2, <1>3 DEF Behavior

LEMMA DiffStep == IInv /\ Diff => IInv'
  <1> SUFFICES ASSUME IInv, Diff PROVE IInv'
    OBVIOUS
  <1>1. /\ pc = "diff" /\ pc' = "match"
        /\ UNCHANGED <<risk, stored, opts, evidence, matches, passed, failed, verdict, via, heard,
                       findings, calls>>
    BY DEF Diff, Goto, NotReported, Results
  <1>2. kept \subseteq {risk, "error"} /\ (\A a, b \in kept : a = b)
    BY DEF IInv, DiffIsCarried
  <1>3. faults' \in 0..MaxFaults
    BY Bounded DEF Diff
  <1>4. /\ kept' \subseteq {risk, "error"} /\ (\A a, b \in kept' : a = b)
        /\ diff' = risk \/ missed' \/ Stale'
    <2>1. CASE opts.cache /\ ~opts.force /\ diff' \in kept /\ UNCHANGED kept
      <3>1. CASE diff' = risk
        BY <1>2, <2>1, <3>1
      <3>2. CASE diff' # risk
        <4>1. kept = {"error"}
          BY <1>2, <2>1, <3>2
        <4>2. QED
          BY <1>1, <1>2, <2>1, <4>1 DEF Stale
      <3>3. QED
        BY <3>1, <3>2
    <2>2. CASE (diff' = risk \/ (diff' = "error" /\ missed')) /\ kept' \in {kept, {diff'}}
      BY <1>2, <2>2
    <2>3. CASE missed' /\ UNCHANGED kept
      BY <1>2, <2>3
    <2>4. QED
      BY <2>1, <2>2, <2>3 DEF Diff
  <1>5. diff' \in Diffs /\ kept' \subseteq Diffs \ {"none"} /\ missed' \in BOOLEAN
    <2>1. risk \in Diffs \ {"none"} /\ "error" \in Diffs \ {"none"}
      BY DEF IInv, TypeOK, Diffs, Severities
    <2>2. kept' \subseteq Diffs \ {"none"}
      BY <1>4, <2>1
    <2>3. diff' \in Diffs /\ missed' \in BOOLEAN
      BY <2>1 DEF Diff, IInv, TypeOK
    <2>4. QED
      BY <2>2, <2>3
  <1>6. TypeOK'
    BY <1>1, <1>3, <1>5 DEF IInv, TypeOK, Stages
  <1>7. via = "none"
    BY <1>1 DEF IInv, Ended, Stages
  <1>8. Progress' /\ Ended'
    BY <1>1, <1>7 DEF IInv, Progress, Ended, BeforeDiff, Stages, AfterReview
  <1>9. HeardIsBacked' /\ StoredIsComplete'
    BY <1>1 DEF IInv, HeardIsBacked, StoredIsComplete, BeforeReview, BeforeDiff
  <1>10. DiffIsCarried'
    <2>1. \A i \in DOMAIN evidence : evidence[i].diff = NoDiff
      BY <1>1 DEF IInv, DiffIsCarried, BeforeDiff
    <2>2. QED
      BY <1>1, <1>4, <1>7, <2>1 DEF DiffIsCarried, BeforeDiff, AfterReview
  <1>11. QED
    BY <1>6, <1>8, <1>9, <1>10 DEF IInv

LEMMA ListIsSeq == ASSUME NEW S, NEW n \in Nat, NEW f \in [1..n -> S] PROVE f \in Seq(S)
  OBVIOUS

LEMMA MatchStep == IInv /\ Match => IInv'
  <1> SUFFICES ASSUME IInv, Match PROVE IInv'
    OBVIOUS
  <1>1. /\ pc = "match"
        /\ UNCHANGED <<risk, stored, kept, opts, diff, heard, missed, findings, calls>>
    BY DEF Match, Caches
  <1>2. CASE Fails("stage_4") /\ UNCHANGED matches
    BY <1>1, <1>2, FailsStep DEF Required
  <1>3. CASE /\ \E n \in 0..MaxMatches :
                   matches' \in [1..n -> [sev : Severities, sim : Similarities]]
             /\ Passes("stage_4") /\ Goto("anomalies") /\ NoFault /\ UNCHANGED evidence
    <2>1. Grows
      BY <1>3, Bounded, KeepingGrows
    <2>2. /\ pc' = "anomalies" /\ passed' = passed \union {"stage_4"}
          /\ UNCHANGED <<failed, verdict, via, faults>>
      BY <1>3 DEF Passes, Goto, NotReported, NoFault
    <2>3. matches' \in Seq([sev : Severities, sim : Similarities])
      <3>1. PICK n \in 0..MaxMatches : matches' \in [1..n -> [sev : Severities, sim : Similarities]]
        BY <1>3
      <3>2. n \in Nat
        BY PipelineAssumption
      <3>3. QED
        BY <3>1, <3>2, ListIsSeq
    <2>4. TypeOK'
      BY <1>1, <2>1, <2>2, <2>3 DEF IInv, TypeOK, Grows, Stages, Required
    <2>5. via = "none" /\ failed = {} /\ "stage_2" \in passed
      BY <1>1 DEF IInv, Ended, Progress, Stages, BeforeDiff
    <2>6. Progress' /\ Ended'
      BY <2>2, <2>5 DEF Progress, Ended, BeforeDiff, Stages, AfterReview
    <2>7. HeardIsBacked' /\ DiffIsCarried' /\ StoredIsComplete'
      BY <1>1, <2>1, <2>2, <2>5, Carries DEF BeforeDiff, BeforeReview, AfterReview, Stages
    <2>8. QED
      BY <2>4, <2>6, <2>7 DEF IInv
  <1>4. QED
    BY <1>2, <1>3 DEF Match

-----------------------------------------------------------------------------
(* Stage 5 *)

\* A reviewed match, whoever reviews it, is evidence with the diff of the call.
LEMMA ReviewedType ==
  ASSUME IInv, NEW m \in [sev : Severities, sim : Similarities], NEW llm \in LLMVerdicts
  PROVE  /\ Reviewed(m, llm, Carried) \in Evidence
         /\ Reviewed(m, llm, Carried).diff \in {NoDiff, diff}
         /\ diff \in {"MEDIUM", "HIGH"} => Reviewed(m, llm, Carried).diff = diff
  <1>1. m.sev \in Severities /\ m.sim \in Percent
    <2>1. m.sev \in Severities /\ m.sim \in Similarities
      OBVIOUS
    <2>2. m.sim \in 70..100
      BY <2>1, PipelineAssumption
    <2>3. QED
      BY <2>1, <2>2 DEF Percent
  <1>2. MatchConfidence(m.sim, llm) \in Percent
    BY <1>1, ConfidenceType
  <1>3. Carried \in Severities \union {NoDiff} /\ Carried \in {NoDiff, diff}
    BY DEF Carried
  <1>4. diff \in {"MEDIUM", "HIGH"} => Carried = diff
    BY DEF Carried, Severities
  <1>5. QED
    BY <1>1, <1>2, <1>3, <1>4 DEF Reviewed, Evidence

\* Appending evidence keeps what was found and adds the new one.
LEMMA Appended ==
  ASSUME evidence \in Seq(Evidence), NEW e \in Evidence, evidence' = Append(evidence, e)
  PROVE  /\ evidence' \in Seq(Evidence)
         /\ \A i \in DOMAIN evidence : i \in DOMAIN evidence' /\ evidence'[i] = evidence[i]
         /\ \A i \in DOMAIN evidence' : i \in DOMAIN evidence \/ evidence'[i] = e
         /\ \E i \in DOMAIN evidence' : evidence'[i] = e
  <1>1. Len(evidence) + 1 \in DOMAIN evidence' /\ evidence'[Len(evidence) + 1] = e
    OBVIOUS
  <1>2. QED
    BY <1>1

LEMMA HeadTail ==
  ASSUME NEW S, NEW q \in Seq(S), q # <<>>
  PROVE  Head(q) \in S /\ Tail(q) \in Seq(S)
  OBVIOUS

\* One reviewed match: what is true of any way to review it.
LEMMA ReviewOne ==
  ASSUME IInv, pc = "review", matches # <<>>, NEW llm \in LLMVerdicts,
         matches' = Tail(matches),
         evidence' = Append(evidence, Reviewed(Head(matches), llm, Carried)),
         NEW malicious \in BOOLEAN, malicious => llm = "MALICIOUS",
         \/ heard' = heard
         \/ /\ heard' = heard \union {[sev |-> Head(matches).sev, sim |-> Head(matches).sim,
                                      malicious |-> malicious]}
            /\ llm \in {"SUSPICIOUS", "MALICIOUS"},
         UNCHANGED <<risk, stored, kept, pc, opts, diff, passed, failed, verdict, via, missed,
                     findings, calls>>,
         faults' \in 0..MaxFaults
  PROVE  IInv'
  <1> DEFINE m == Head(matches)
             e == Reviewed(m, llm, Carried)
  <1>1. m \in [sev : Severities, sim : Similarities]
    BY HeadTail DEF IInv, TypeOK
  <1>2. matches' \in Seq([sev : Severities, sim : Similarities])
    BY HeadTail DEF IInv, TypeOK
  <1>3. /\ e \in Evidence /\ e.diff \in {NoDiff, diff}
    BY <1>1, ReviewedType
  <1>4. e.sev = m.sev /\ e.sim = m.sim /\ e.llm = llm /\ e.conf = MatchConfidence(e.sim, e.llm)
    BY DEF Reviewed
  <1> HIDE DEF e
  <1>5. /\ evidence' \in Seq(Evidence)
        /\ \A i \in DOMAIN evidence : i \in DOMAIN evidence' /\ evidence'[i] = evidence[i]
        /\ \A i \in DOMAIN evidence' : i \in DOMAIN evidence \/ evidence'[i] = e
        /\ \E i \in DOMAIN evidence' : evidence'[i] = e
    BY <1>3, Appended, Bounded DEF e
  <1>6. \A h \in heard' : \/ h \in heard
                           \/ /\ h \in [sev : Severities, sim : Similarities, malicious : BOOLEAN]
                              /\ Backs(e, h)
    <2>1. TAKE h \in heard'
    <2>2. CASE h \notin heard
      <3>1. /\ h = [sev |-> m.sev, sim |-> m.sim, malicious |-> malicious]
            /\ llm \in {"SUSPICIOUS", "MALICIOUS"}
        BY <2>2
      <3>2. h \in [sev : Severities, sim : Similarities, malicious : BOOLEAN]
        BY <1>1, <3>1
      <3>3. QED
        BY <1>4, <3>1, <3>2 DEF Backs
    <2>3. QED
      BY <2>2
  <1>7. TypeOK'
    BY <1>2, <1>5, <1>6 DEF IInv, TypeOK
  <1>8. via = "none"
    BY DEF IInv, Ended, Stages
  <1>9. Progress' /\ Ended' /\ StoredIsComplete'
    BY <1>8 DEF IInv, Progress, Ended, StoredIsComplete, BeforeDiff, Stages, AfterReview
  <1>10. HeardIsBacked'
    BY <1>5, <1>6 DEF IInv, HeardIsBacked, BeforeReview, BeforeDiff
  <1>11. DiffIsCarried'
    <2>1. \A i \in DOMAIN evidence' : evidence'[i].diff \in {NoDiff, diff}
      BY <1>3, <1>5 DEF IInv, DiffIsCarried
    <2>2. QED
      BY <1>8, <2>1 DEF IInv, DiffIsCarried, Stale, BeforeDiff, AfterReview
  <1>12. QED
    BY <1>7, <1>9, <1>10, <1>11 DEF IInv

LEMMA ReviewStep == IInv /\ Review => IInv'
  <1> SUFFICES ASSUME IInv, Review PROVE IInv'
    OBVIOUS
  <1>1. /\ pc = "review" /\ matches # <<>> /\ matches' = Tail(matches)
        /\ UNCHANGED <<risk, stored, kept, pc, opts, diff, passed, failed, verdict, via, missed,
                       findings, calls>>
    BY DEF Review, NotReported, Results, Caches
  <1>2. ASSUME NEW votes \in [Agents -> LLMVerdicts \union {"failed"}],
               IF "failed" \in Range(votes) THEN Fault ELSE NoFault,
               evidence' = Append(evidence, Reviewed(Head(matches), Consensus(Counted(votes)), Carried)),
               heard' = IF Voting(votes, "MALICIOUS") + Voting(votes, "SUSPICIOUS") >= 2
                        THEN heard \union {[sev |-> Head(matches).sev, sim |-> Head(matches).sim,
                                           malicious |-> Voting(votes, "MALICIOUS") >= 2]}
                        ELSE heard
        PROVE  IInv'
    <2> DEFINE llm == Consensus(Counted(votes))
               malicious == Voting(votes, "MALICIOUS") >= 2
    <2>1. llm \in LLMVerdicts /\ malicious \in BOOLEAN
      BY ConsensusType
    <2>2. Voting(votes, "MALICIOUS") \in Nat /\ Voting(votes, "SUSPICIOUS") \in Nat
      BY VotingNat
    <2>3. CASE Voting(votes, "MALICIOUS") + Voting(votes, "SUSPICIOUS") >= 2
      <3>1. llm \in {"SUSPICIOUS", "MALICIOUS"} /\ (malicious => llm = "MALICIOUS")
        BY <2>3, ConsensusHears
      <3>2. heard' = heard \union {[sev |-> Head(matches).sev, sim |-> Head(matches).sim,
                                   malicious |-> malicious]}
        BY <1>2, <2>3
      <3>3. faults' \in 0..MaxFaults
        BY <1>2, Bounded
      <3> HIDE DEF llm, malicious
      <3>4. QED
        BY <1>1, <1>2, <2>1, <3>1, <3>2, <3>3, ReviewOne DEF llm
    <2>4. CASE ~(Voting(votes, "MALICIOUS") + Voting(votes, "SUSPICIOUS") >= 2)
      <3>1. heard' = heard
        BY <1>2, <2>4
      <3>2. faults' \in 0..MaxFaults
        BY <1>2, Bounded
      <3> HIDE DEF llm, malicious
      <3>3. QED
        BY <1>1, <1>2, <2>1, <3>1, <3>2, ReviewOne DEF llm
    <2>5. QED
      BY <2>3, <2>4
  <1>3. ASSUME NEW llm \in LLMVerdicts,
               evidence' = Append(evidence, Reviewed(Head(matches), llm, Carried)),
               NoFault, UNCHANGED heard
        PROVE  IInv'
    <2>1. faults' \in 0..MaxFaults
      BY <1>3, Bounded
    <2>2. QED
      BY <1>1, <1>3, <2>1, ReviewOne
  <1>4. QED
    BY <1>2, <1>3 DEF Review, Counted

LEMMA ReviewFailsStep == IInv /\ ReviewFails => IInv'
  BY FailsStep DEF ReviewFails, Required, Unchanged, Silent, Caches

LEMMA ReviewDoneStep == IInv /\ ReviewDone => IInv'
  <1> SUFFICES ASSUME IInv, ReviewDone PROVE IInv'
    OBVIOUS
  <1>1. /\ pc = "review" /\ pc' = "dependencies" /\ passed' = passed \union {"stage_5"}
        /\ UNCHANGED <<risk, stored, kept, opts, matches, diff, failed, verdict, via, heard,
                       missed, findings, faults, calls>>
    BY DEF ReviewDone, Passes, Goto, NoFault, Unchanged, Silent, Caches, NotReported
  <1>2. evidence \in Seq(Evidence) /\ \A i \in DOMAIN evidence : evidence[i].diff \in {NoDiff, diff}
    BY Bounded DEF IInv, DiffIsCarried
  <1>3. /\ evidence' \in Seq(Evidence)
        /\ \A i \in DOMAIN evidence : i \in DOMAIN evidence' /\ evidence'[i] = evidence[i]
        /\ \A i \in DOMAIN evidence' : evidence'[i].diff \in {NoDiff, diff}
        /\ diff \in {"MEDIUM", "HIGH"} => \E i \in DOMAIN evidence' : evidence'[i].diff = diff
    <2>1. CASE diff \in {"MEDIUM", "HIGH"} /\ \A i \in DOMAIN evidence : evidence[i].diff = NoDiff
      <3>1. DiffOnly(diff) \in Evidence /\ DiffOnly(diff).diff = diff
        BY <2>1 DEF DiffOnly, Evidence, Severities, Percent, LLMVerdicts
      <3>2. evidence' = Append(evidence, DiffOnly(diff))
        BY <2>1 DEF ReviewDone
      <3>3. QED
        BY <1>2, <3>1, <3>2, Appended
    <2>2. CASE ~(diff \in {"MEDIUM", "HIGH"} /\ \A i \in DOMAIN evidence : evidence[i].diff = NoDiff)
      BY <1>2, <2>2 DEF ReviewDone
    <2>3. QED
      BY <2>1, <2>2
  <1>4. TypeOK'
    BY <1>1, <1>3 DEF IInv, TypeOK, Stages, Required
  <1>5. via = "none" /\ failed = {} /\ "stage_2" \in passed /\ "stage_4" \in passed
    BY <1>1 DEF IInv, Ended, Progress, Stages, BeforeDiff
  <1>6. Progress' /\ Ended'
    BY <1>1, <1>5 DEF Progress, Ended, BeforeDiff, Stages, AfterReview
  <1>7. HeardIsBacked' /\ StoredIsComplete'
    BY <1>1, <1>3 DEF IInv, HeardIsBacked, Backs, StoredIsComplete, BeforeReview, BeforeDiff
  <1>8. DiffIsCarried'
    BY <1>1, <1>3 DEF IInv, DiffIsCarried, Stale, BeforeDiff, Stages
  <1>9. QED
    BY <1>4, <1>6, <1>7, <1>8 DEF IInv

-----------------------------------------------------------------------------
(* The verdict and the stored report *)

LEMMA DecideStep == IInv /\ DecideVerdict => IInv'
  <1> SUFFICES ASSUME IInv, DecideVerdict PROVE IInv'
    OBVIOUS
  <1>1. /\ pc = "decide" /\ pc' = "store" /\ via' = "decided"
        /\ verdict' = Decide(evidence, passed, failed)
        /\ UNCHANGED <<risk, stored, kept, opts, evidence, matches, diff, passed, failed, heard,
                       missed, findings, faults, calls>>
    BY DEF DecideVerdict, Goto, NoFault, Results, Unchanged, Silent, Caches
  <1>2. passed = Required /\ failed = {}
    BY <1>1 DEF IInv, TypeOK, Progress, Stages, BeforeDiff, AfterReview, Required
  <1>3. TypeOK'
    BY <1>1, DecideType DEF IInv, TypeOK, Stages, Ends
  <1>4. Progress' /\ Ended'
    BY <1>1, <1>2 DEF Progress, Ended, Required
  <1>5. Grows
    BY <1>1, Bounded, KeepingGrows
  <1>6. HeardIsBacked' /\ DiffIsCarried' /\ StoredIsComplete'
    BY <1>1, <1>5, Carries DEF BeforeDiff, BeforeReview, AfterReview, Stages
  <1>7. QED
    BY <1>3, <1>4, <1>6 DEF IInv

LEMMA StoreStep == IInv /\ Store => IInv'
  <1> SUFFICES ASSUME IInv, Store PROVE IInv'
    OBVIOUS
  <1>1. /\ pc = "store" /\ pc' = "idle"
        /\ UNCHANGED <<risk, kept, opts, evidence, matches, diff, passed, failed, verdict, via,
                       heard, missed, findings, faults, calls>>
    BY DEF Store, Goto, call, bounds
  <1>2. stored' \subseteq stored \union {[verdict |-> verdict, passed |-> passed]}
    BY DEF Store
  <1>3. /\ via = "decided" /\ passed = Required /\ failed = {}
        /\ verdict = Decide(evidence, passed, failed)
    BY <1>1 DEF IInv, Ended
  <1>4. verdict \in DOMAIN Rank /\ verdict \in Verdicts
    BY <1>3, DecideType, JudgeRank
  <1>5. StoredIsComplete'
    BY <1>2, <1>3, <1>4 DEF IInv, StoredIsComplete
  <1>6. TypeOK'
    <2>1. [verdict |-> verdict, passed |-> passed] \in [verdict : Verdicts, passed : SUBSET Required]
      BY <1>3, <1>4
    <2>2. stored' \subseteq [verdict : Verdicts, passed : SUBSET Required]
      BY <1>2, <2>1 DEF IInv, TypeOK
    <2>3. QED
      BY <1>1, <2>2 DEF IInv, TypeOK
  <1>7. Progress' /\ Ended' /\ HeardIsBacked'
    BY <1>1, <1>3
    DEF IInv, Progress, Ended, HeardIsBacked, Backs, Stages, BeforeDiff, BeforeReview, AfterReview
  <1>8. DiffIsCarried'
    BY <1>1, <1>3 DEF IInv, DiffIsCarried, Stale, Stages, BeforeDiff, AfterReview
  <1>9. QED
    BY <1>5, <1>6, <1>7, <1>8 DEF IInv

LEMMA OptionalSteps ==
  IInv /\ (AttackHistory \/ Strings \/ Anomalies \/ Indicators \/ Patterns \/ Dependencies \/ Binaries
            \/ Sandbox) => IInv'
  BY OptionalStep, FindsType
  DEF AttackHistory, Strings, Anomalies, Indicators, Patterns, Dependencies, Binaries, Sandbox, Follows

LEMMA StutterStep == IInv /\ UNCHANGED vars => IInv'
  BY DEF vars, call, bounds, IInv, TypeOK, Progress, Ended, HeardIsBacked, Backs, DiffIsCarried,
         Stale, StoredIsComplete

-----------------------------------------------------------------------------
(* Theorems *)

\* IInv holds in every state run_pipeline reaches.
THEOREM Inductive == Spec => []IInv
  <1>1. IInv /\ [Next]_vars => IInv'
    <2> SUFFICES ASSUME IInv, [Next]_vars PROVE IInv'
      OBVIOUS
    <2>1. CASE Begin
      BY <2>1, BeginStep
    <2>2. CASE Registry \/ ThreatFilterGate \/ ThreatFilter \/ Archive
      BY <2>2, RegistryStep, ThreatFilterGateStep, ThreatFilterStep, ArchiveStep
    <2>3. CASE CacheLookup \/ Extract \/ Agentic \/ Behavior
      BY <2>3, CacheLookupStep, ExtractStep, AgenticStep, BehaviorStep
    <2>4. CASE Diff \/ Match
      BY <2>4, DiffStep, MatchStep
    <2>5. CASE Review \/ ReviewFails \/ ReviewDone
      BY <2>5, ReviewStep, ReviewFailsStep, ReviewDoneStep
    <2>6. CASE DecideVerdict \/ Store
      BY <2>6, DecideStep, StoreStep
    <2>7. CASE UNCHANGED vars
      BY <2>7, StutterStep
    <2>8. QED
      BY <2>1, <2>2, <2>3, <2>4, <2>5, <2>6, <2>7, OptionalSteps DEF Next
  <1>2. QED
    BY InitIInv, <1>1, PTL DEF Spec

\* The state of a call has its type, an evidence's confidence at most 1.0 included.
THEOREM TypeCorrect == Spec => []TypeOK
  <1>1. IInv => TypeOK
    BY DEF IInv
  <1>2. QED
    BY <1>1, Inductive, PTL

\* A verdict decided on evidence is at least what any part of it would have given.
THEOREM VerdictIsDemanded == Spec => []EvidenceDecides
  <1>1. IInv => EvidenceDecides
    <2> SUFFICES ASSUME IInv, via \in {"decided", "archive"}, verdict # "ERROR",
                        NEW S \in SUBSET DOMAIN evidence
                 PROVE  Rank[verdict] >= Rank[Judge([i \in S |-> evidence[i]])]
      BY DEF EvidenceDecides
    <2>1. verdict = Judge(evidence)
      BY DEF IInv, Ended, Decide
    <2>2. QED
      BY <2>1, JudgeMonotone
  <1>2. QED
    BY <1>1, Inductive, PTL

\* Only complete judgements are ever stored for later calls.
THEOREM StoredComplete == Spec => []StoredIsComplete
  <1>1. IInv => StoredIsComplete
    BY DEF IInv
  <1>2. QED
    BY <1>1, Inductive, PTL

LEMMA DecidedByEvidence ==
  ASSUME IInv, via = "decided"
  PROVE  verdict = Judge(evidence)
  BY DEF IInv, Ended, Decide

\* Two agents alarmed about a match are heard in the verdict, for any number of
\* other matches and findings.
THEOREM AgentsAreHeard == Spec => []AgentsHeard
  <1>1. IInv => AgentsHeard
    <2> SUFFICES ASSUME IInv, via = "decided", NEW m \in heard
                 PROVE  /\ Rank[verdict] >= 1
                        /\ m.sim >= 85 /\ m.sev # "LOW" => Rank[verdict] >= 2
                        /\ m.sim >= 75 /\ m.sev = "HIGH" /\ m.malicious => verdict = "MALICIOUS"
      BY DEF AgentsHeard
    <2>1. PICK i \in DOMAIN evidence : Backs(evidence[i], m)
      BY DEF IInv, HeardIsBacked
    <2> DEFINE e == evidence[i]
    <2>2. m.sim \in 70..100
      <3>1. m.sim \in Similarities
        BY DEF IInv, TypeOK
      <3>2. QED
        BY <3>1, PipelineAssumption
    <2>3. /\ e.sev = m.sev /\ e.sim = m.sim /\ e.llm \in {"SUSPICIOUS", "MALICIOUS"}
          /\ (m.malicious => e.llm = "MALICIOUS")
          /\ e.conf = MatchConfidence(m.sim, e.llm)
      BY <2>1 DEF Backs
    <2> HIDE DEF e
    <2>4. /\ e.conf >= 50
          /\ m.sim >= 75 /\ e.llm = "MALICIOUS" => e.conf >= 85
      BY <2>2, <2>3 DEF MatchConfidence
    <2>5. IsSuspicious(evidence)
      <3>1. TTPMatch(e)
        BY <2>2, <2>3 DEF TTPMatch
      <3>2. QED
        BY <3>1 DEF IsSuspicious, e
    <2>6. m.sim >= 85 /\ m.sev # "LOW" => IsHighRisk(evidence)
      <3>1. m.sim >= 85 /\ m.sev # "LOW" => StrongMatch(e) /\ Suspect(e)
        BY <2>3, <2>4 DEF StrongMatch, Suspect
      <3>2. QED
        BY <3>1 DEF IsHighRisk, e
    <2>7. m.sim >= 75 /\ m.sev = "HIGH" /\ m.malicious => IsMalicious(evidence)
      BY <2>3, <2>4 DEF IsMalicious, e
    <2>8. QED
      BY <2>5, <2>6, <2>7, DecidedByEvidence DEF Judge, Rank
  <1>2. QED
    BY <1>1, Inductive, PTL

\* A dangerous difference from the previous version is never called CLEAN, unless
\* stage 3B failed now or left its error in the stage cache before.
THEOREM RiskyUpdatesAreReported == Spec => []RiskyUpdateReported
  <1>1. IInv => RiskyUpdateReported
    <2> SUFFICES ASSUME IInv, via = "decided", risk \in {"MEDIUM", "HIGH"}, ~missed, ~Stale
                 PROVE  verdict # "CLEAN"
      BY DEF RiskyUpdateReported, Stale
    <2>1. diff = risk
      BY DEF IInv, DiffIsCarried
    <2>2. PICK i \in DOMAIN evidence : evidence[i].diff = diff
      BY <2>1 DEF IInv, DiffIsCarried
    <2>3. IsSuspicious(evidence)
      BY <2>1, <2>2 DEF IsSuspicious, AnyDiff
    <2>4. QED
      BY <2>3, DecidedByEvidence DEF Judge
  <1>2. QED
    BY <1>1, Inductive, PTL
=============================================================================
