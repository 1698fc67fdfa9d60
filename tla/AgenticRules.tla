---------------------------- MODULE AgenticRules ----------------------------
(***************************************************************************)
(* Stage 1C: is a package an agent, what can it do, what does its manifest *)
(* say it can do, and which of the rules R1 to R4 does it break?  Pure     *)
(* operators on a package.                                                 *)
(*                                                                         *)
(* A file is what the detectors see of it: its place in the archive, its   *)
(* language, whether it parses, the capabilities its calls have, the       *)
(* traits its text matches, and of each function what its name and         *)
(* docstring sound like and what its body does.  A metadata file has the   *)
(* classes of the dependencies it lists, its table "agentic" (block says   *)
(* whether it is there and not empty), and its misfits: of the keys of     *)
(* either, those whose value has a type the code does not expect, be it a  *)
(* number for a table or a table in a list of names.                       *)
(***************************************************************************)
EXTENDS Integers, Sequences, FiniteSets, SequencesExt, FiniteSetsExt

Dangerous == {"shell", "code-exec", "credential-paths"}
Medium == {"network", "filesystem-write", "env-secrets", "db-access", "mcp-server",
           "dynamic-tool-load"}
Minor == {"filesystem-read", "mcp-client", "llm-call", "tool-loop", "memory-persistent",
          "agent-to-agent"}
Capabilities == Dangerous \union Medium \union Minor

\* The capabilities that give outside input, private data, an effect outside.
grants == [A |-> {"filesystem-read", "network", "db-access", "mcp-client", "mcp-server",
                  "llm-call", "dynamic-tool-load", "agent-to-agent"},
           B |-> {"filesystem-read", "env-secrets", "credential-paths", "db-access",
                  "memory-persistent"},
           C |-> {"filesystem-write", "shell", "network", "code-exec", "db-access",
                  "mcp-client", "mcp-server", "memory-persistent", "agent-to-agent"}]

MapToAbc(caps) == {property \in DOMAIN grants : grants[property] \intersect caps # {}}

----------------------------------------------------------------------------
(* What the stage takes from the archive *)

\* The sources by path: of two members with one path the later counts.
Sources(p) ==
    {p.files[n] : n \in {k \in DOMAIN p.files :
        /\ p.files[k].language = p.language
        /\ \A later \in DOMAIN p.files :
               (later > k /\ p.files[later].language = p.language)
                   => p.files[later].path # p.files[k].path}}

ManifestName(p) == IF p.language = "python" THEN "pyproject.toml" ELSE "package.json"

\* The first metadata file of that name, at whatever depth of the archive.
ManifestText(p) == SelectSeq(p.files, LAMBDA f : f.basename = ManifestName(p))

----------------------------------------------------------------------------
(* The manifest *)

NoManifest == [present |-> FALSE, agentic |-> FALSE, capabilities |-> {}, satisfies |-> {},
               isolation |-> FALSE, patterns |-> {}]

Value(block, key, default) == IF key \in DOMAIN block THEN block[key] ELSE default

\* pyproject.toml spells keys in snake case; package.json may also use camel case,
\* and then an empty table counts as none.
Table(block, camel, snake, language) ==
    IF language = "javascript" /\ DOMAIN Value(block, camel, <<>>) # {} THEN block[camel]
    ELSE Value(block, snake, <<>>)

\* _normalize_keys makes one key of both spellings, of which the later counts: a
\* table is taken to have one of them.
Isolation(rules, language) ==
    \/ language = "javascript" /\ Value(rules, "sessionIsolation", FALSE)
    \/ Value(rules, "session_isolation", FALSE)

\* _from_dict and declared_set: unknown capabilities do not count.
FromBlock(block, language) ==
    LET rules == Table(block, "ruleOfTwo", "rule_of_two", language)
        design == Table(block, "designPatterns", "design_patterns", language)
    IN  [present |-> TRUE,
         agentic |-> Value(block, "agentic", FALSE),
         capabilities |-> Value(block, "capabilities", {}) \intersect Capabilities,
         satisfies |-> Value(rules, "satisfies", {}) \intersect {"A", "B", "C"},
         isolation |-> Isolation(rules, language),
         patterns |-> Value(design, "applied", {})]

\* parse_manifest: none when there is no text, when it does not parse, when it has
\* no block.
ParseManifest(texts, language) ==
    IF texts = <<>> THEN NoManifest
    ELSE IF ~Head(texts).parses \/ ~Head(texts).block THEN NoManifest
    ELSE FromBlock(Head(texts).agentic, language)

\* What the two parsers of a metadata file take for granted of it: its tables are
\* tables, its lists lists, the names in them strings.  (JSON may be no object at
\* all; a "dependencies" of package.json that is no object is passed over.)
Trusted(language) ==
    {"agentic", "capabilities", "rule_of_two", "satisfies", "design_patterns", "applied",
     "tool_registry", "trusted_tool_sources"}
    \union IF language = "python" THEN {"tool", "project", "dependencies"} ELSE {"document"}

\* A misfit is an exception in the parser: the stage fails and the pipeline goes on
\* without it.
Fails(p) ==
    LET texts == ManifestText(p)
    IN  /\ texts # <<>>
        /\ Head(texts).parses
        /\ Head(texts).misfits \intersect Trusted(p.language) # {}

----------------------------------------------------------------------------
(* Is it an agent? *)

strong == {"named_agent", "described_agent", "react", "mcp_server", "agent_loop"}
medium == {"llm_sdk", "agent_framework", "tool_definition", "agent_class", "schema"}
weak(language) == IF language = "python" THEN {"vector_store", "memory_import"}
                  ELSE {"vector_store"}
Threshold == 5

Traits(p) == UNION {f.traits : f \in Sources(p)}

\* _extract_deps_from_pyproject, _extract_deps_from_package_json.
ListedDependencies(texts) ==
    IF texts = <<>> THEN {}
    ELSE IF Head(texts).parses THEN Head(texts).dependencies ELSE {}

\* What is known of the package: its name, its description (which the pipeline looks
\* for where PyPI keeps it, and npm does not), the dependencies the dependency stage
\* found and those of the manifest, the traits of its sources.
Signals(p) ==
    (IF p.language = "python" THEN p.about ELSE p.about \ {"described_agent"})
    \union Traits(p) \union p.dependencies \union ListedDependencies(ManifestText(p))

Score(p) == 3 * Cardinality(Signals(p) \intersect strong)
            + 2 * Cardinality(Signals(p) \intersect medium)
            + Cardinality(Signals(p) \intersect weak(p.language))

IsAgentic(p, manifest) == manifest.agentic \/ Score(p) >= Threshold

----------------------------------------------------------------------------
(* What can it do? *)

\* Traits that show a capability, by language.  (A remote list of tools is one of
\* the traits rule R1-2 is about as well.)
shows == [mcp_client |-> "mcp-client", mcp_server |-> "mcp-server", llm_import |-> "llm-call",
          memory_import |-> "memory-persistent", agents_import |-> "agent-to-agent",
          credential_path |-> "credential-paths", tool_loop |-> "tool-loop",
          lists_remote_tools |-> "dynamic-tool-load", extends_tools |-> "dynamic-tool-load"]

\* Python calls are read off the syntax tree: a file that does not parse shows
\* none.  JavaScript calls are text.
CapabilitiesOf(f) ==
    (IF f.language = "python" /\ ~f.parses THEN {} ELSE f.calls)
    \union {shows[t] : t \in f.traits \intersect DOMAIN shows}

Detected(p) == UNION {CapabilitiesOf(f) : f \in Sources(p)}

----------------------------------------------------------------------------
(* The rules: a hit has a rule, a place and a severity *)

Hit(rule, place, severity) == [rule |-> rule, place |-> place, severity |-> severity]

\* A hit per source that shows one of the traits.
HitsIn(p, traits, rule, severity) ==
    {Hit(rule, f.path, severity) : f \in {g \in Sources(p) : g.traits \intersect traits # {}}}

\* verify_design_patterns: a declared pattern counts when the code has its signature.
Verified(p, manifest) == manifest.patterns \intersect Traits(p)
    \intersect {"dual-llm", "llm-map-reduce", "plan-then-execute", "context-minimization",
                "action-selector", "code-then-execute"}

Unless(excused) == IF excused THEN "SUSPICIOUS" ELSE "HIGH_RISK"

R1(p, manifest) ==
    LET verified == Verified(p, manifest)
    IN  HitsIn(p, {"untrusted_prompt"}, "R1-1",
               Unless(verified \intersect {"dual-llm", "llm-map-reduce"} # {}))
        \union HitsIn(p, {"lists_remote_tools", "binds_remote_tools"}, "R1-2", "HIGH_RISK")
        \union HitsIn(p, {"fetched_context"}, "R1-3", "SUSPICIOUS")
        \union HitsIn(p, {"free_execution"}, "R1-4",
                      Unless(verified \intersect {"action-selector", "code-then-execute"} # {}))

Undeclared(p, manifest) == Detected(p) \ manifest.capabilities

UnderDeclares(p, manifest) ==
    manifest.present /\ Undeclared(p, manifest) \intersect Dangerous # {}

\* detect_human_in_the_loop; of no use to a package that declares too little.
AsksHuman(p, manifest) == "asks_human" \in Traits(p) /\ ~UnderDeclares(p, manifest)

\* A declared isolation of sessions counts when the code resets something.
Isolated(p, manifest) == manifest.isolation /\ "resets_session" \in Traits(p)

LethalTrifecta(p) == MapToAbc(Detected(p)) = {"A", "B", "C"}

R2(p, manifest) ==
    {h \in {Hit("R2-1", "capabilities", Unless(AsksHuman(p, manifest) \/ Isolated(p, manifest)))} :
        LethalTrifecta(p)}
    \union HitsIn(p, {"escalates"}, "R2-2", "MALICIOUS")
    \union HitsIn(p, {"escapes"}, "R2-3", "MALICIOUS")
    \union {Hit("R2-4", f.path, IF "llm_driven" \in f.traits THEN "MALICIOUS" ELSE "HIGH_RISK") :
               f \in {g \in Sources(p) : "installs" \in g.traits}}

\* Without a manifest nothing was under-declared.
R3(p, manifest) ==
    {h \in {Hit("R3-dangerous", "capabilities",
                IF manifest.present THEN "MALICIOUS" ELSE "SUSPICIOUS")} :
        Undeclared(p, manifest) \intersect Dangerous # {}}
    \union {h \in {Hit("R3-medium", "capabilities", "SUSPICIOUS")} :
               Undeclared(p, manifest) \intersect Medium # {}}
    \union {h \in {Hit("R3-minor", "capabilities", "SUSPICIOUS")} :
               Undeclared(p, manifest) \intersect Minor # {} /\ ~manifest.present}

\* The declared properties against those of the capabilities found.
RuleOfTwo(p, manifest) ==
    IF ~manifest.present THEN {}
    ELSE IF manifest.satisfies = {"A", "B", "C"} THEN
        {Hit("R3-rot-forbidden", "rule-of-two", "HIGH_RISK")}
    ELSE {h \in {Hit("R3-rot-mismatch", "rule-of-two", "SUSPICIOUS")} :
             /\ manifest.satisfies # {}
             /\ ~(MapToAbc(Detected(p)) \subseteq manifest.satisfies)}

\* Functions named after logging that post to the outside, functions named after a
\* harmless verb that run something or post.
FunctionHits(p, sound, deeds, rule, severity) ==
    {Hit(rule, f.path, severity) : f \in {g \in Sources(p) :
        \E fn \in g.functions : sound \in fn.sounds /\ fn.does \intersect deeds # {}}}

R4(p) ==
    FunctionHits(p, "logging", {"posts"}, "R4-1", "MALICIOUS")
    \union FunctionHits(p, "harmless", {"posts", "runs"}, "R4-5", "HIGH_RISK")
    \union HitsIn(p, {"poisons_memory"}, "R4-2", "HIGH_RISK")
    \union HitsIn(p, {"trusts_peers"}, "R4-4", "SUSPICIOUS")
    \union {h \in {Hit("R4-3", "provenance", "SUSPICIOUS")} :
               "memory-persistent" \in Detected(p) /\ "provenance" \notin Traits(p)}

RunAllRules(p, manifest) ==
    R1(p, manifest) \union R2(p, manifest) \union R3(p, manifest)
    \union RuleOfTwo(p, manifest) \union R4(p)

----------------------------------------------------------------------------
(* The classification *)

Severe(hits, severity) == \E h \in hits : h.severity = severity

\* The patterns looked at here are the declared ones, verified or not.
ManyInjections(p, manifest) == Cardinality(R1(p, manifest)) >= 2 /\ manifest.patterns = {}

ClassifyAs(p, manifest) ==
    LET hits == RunAllRules(p, manifest)
    IN  IF ~IsAgentic(p, manifest) THEN "CLEAN"
        ELSE IF UnderDeclares(p, manifest) \/ Severe(hits, "MALICIOUS") THEN "MALICIOUS"
        ELSE IF Severe(hits, "HIGH_RISK") \/ ManyInjections(p, manifest) THEN "HIGH_RISK"
        ELSE IF hits # {} THEN "SUSPICIOUS"
        ELSE "AGENTIC"

Manifest(p) == ParseManifest(ManifestText(p), p.language)
Classify(p) == ClassifyAs(p, Manifest(p))

rank == [CLEAN |-> 0, AGENTIC |-> 1, SUSPICIOUS |-> 2, HIGH_RISK |-> 3, MALICIOUS |-> 4]

\* What the stage hands on: a verdict that ends the pipeline, and evidence - the
\* classification and each hit - that it keeps.
EndsPipeline(p) == ~Fails(p) /\ Classify(p) \in {"MALICIOUS", "HIGH_RISK"}

LlmVerdict(class) == CASE class \in {"MALICIOUS", "HIGH_RISK"} -> "MALICIOUS"
                       [] class = "CLEAN" -> "BENIGN"
                       [] OTHER -> "SUSPICIOUS"

TtpSeverity(class) == CASE class \in {"MALICIOUS", "HIGH_RISK"} -> "HIGH"
                        [] class = "SUSPICIOUS" -> "MEDIUM"
                        [] OTHER -> "LOW"

Evidence(p) ==
    IF Fails(p) \/ Classify(p) = "CLEAN" THEN {}
    ELSE {[ttp |-> "AGENTIC-CLS", severity |-> TtpSeverity(Classify(p)),
           llm |-> LlmVerdict(Classify(p))]}
         \union {[ttp |-> h.rule, severity |-> TtpSeverity(h.severity),
                  llm |-> IF h.severity = "MALICIOUS" THEN "MALICIOUS" ELSE "SUSPICIOUS"] :
                    h \in RunAllRules(p, Manifest(p))}
=============================================================================
