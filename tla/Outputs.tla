------------------------------- MODULE Outputs -------------------------------
(***************************************************************************)
(* What others are told of a report: install policies (pmg), threat        *)
(* intelligence (STIX, pushed over TAXII), runtime policies (Falco and     *)
(* Tetragon), a bill of materials with exploitability (CycloneDX VEX), a   *)
(* signed webhook, and what the sinks' log keeps of it.  Pure operators.   *)
(*                                                                         *)
(* A report is its package, version and verdict with the evidence - of     *)
(* each piece the TTP, the confidence, the agents' verdict ("none" when    *)
(* not reviewed), the hosts and commands found in its snippet - and the    *)
(* hosts named in the summary of an advisory, when there is one.  A host   *)
(* is a number, its place in the alphabet.                                 *)
(***************************************************************************)
EXTENDS Integers, Sequences, FiniteSets

AllVerdicts == {"MALICIOUS", "HIGH_RISK", "SUSPICIOUS", "AGENTIC", "CLEAN", "ERROR",
                "CANNOT_ANALYZE"}

\* _should_emit: what the monitor's worker hands to the sinks.
ShouldEmit(report) == report.verdict \in {"MALICIOUS", "HIGH_RISK", "SUSPICIOUS"}

----------------------------------------------------------------------------
(* pmg *)

PolicyAction(verdict) == CASE verdict \in {"MALICIOUS", "HIGH_RISK"} -> "deny"
                           [] verdict \in {"SUSPICIOUS", "AGENTIC"} -> "warn"
                           [] OTHER -> "none"

\* to_pmg_policy: at most one rule.  Without a version, it is about all.
VersionsOf(report) == IF report.version = "" THEN "*" ELSE report.version
PmgPolicy(report) == {[action |-> a, package |-> report.package, versions |-> VersionsOf(report)] :
                         a \in {PolicyAction(report.verdict)} \ {"none"}}

Denied(report, version) ==
    \E rule \in PmgPolicy(report) : rule.action = "deny" /\ rule.versions \in {version, "*"}

----------------------------------------------------------------------------
(* STIX and TAXII *)

Labels(verdict) == CASE verdict = "MALICIOUS" -> {"malicious-activity", "supply-chain-compromise"}
                     [] verdict = "HIGH_RISK" -> {"malicious-activity"}
                     [] verdict = "CLEAN" -> {"benign"}
                     [] OTHER -> {"anomalous-activity"}

\* The technique named: that of the first of the most confident pieces.
TopEvidence(evidence) ==
    CHOOSE n \in DOMAIN evidence :
        /\ \A m \in DOMAIN evidence : evidence[m].confidence <= evidence[n].confidence
        /\ \A m \in 1..(n - 1) : evidence[m].confidence < evidence[n].confidence
Technique(evidence) ==
    IF evidence = <<>> THEN "T1195.002" ELSE evidence[TopEvidence(evidence)].ttp

\* An object of a bundle; a modification is its time stamp in STIX terms.
Object(id, created, modified, content) ==
    [id |-> id, created |-> created, modified |-> modified, content |-> content]

\* Identifiers are derived from the package, and that of an indicator from the
\* verdict as well.
PackageId(type, report) == <<type, report.package, report.version>>
IndicatorId(report) == <<"indicator", report.package, report.version, report.verdict>>
RelationshipId(source, kind, target) == <<"relationship", source, kind, target>>

\* The tool itself, created on a fixed day (0), and the package, which as an
\* observable has no stamps.
Identity(now) == Object(<<"identity">>, 0, now, "pkgsentinel")
Software(report) == Object(PackageId("software", report), 0, 0, <<report.package, report.version>>)

\* Everything else is created, modified and valid from now, sent for the first time
\* or not.  (The readings of the clock in one bundle are taken as one.)
Indicator(report, now) ==
    Object(IndicatorId(report), now, now,
           [labels |-> Labels(report.verdict), technique |-> Technique(report.evidence),
            confidence |-> IF report.evidence = <<>> THEN 0
                           ELSE report.evidence[TopEvidence(report.evidence)].confidence,
            pieces |-> Len(report.evidence), validFrom |-> now])

Malware(report, now) ==
    {m \in {Object(PackageId("malware", report), now, now, <<report.package, report.version>>)} :
        report.verdict \in {"MALICIOUS", "HIGH_RISK"}}

Relationship(source, kind, target, now) ==
    Object(RelationshipId(source.id, kind, target.id), now, now,
           [source |-> source.id, target |-> target.id])

Relationships(report, now) ==
    {Relationship(Indicator(report, now), "indicates", Software(report), now)}
    \union {Relationship(Indicator(report, now), "indicates", m, now) : m \in Malware(report, now)}
    \union {Relationship(m, "uses", Software(report), now) : m \in Malware(report, now)}

\* to_stix_bundle; the bundle itself has an identifier of its own every time.
Bundle(report, now) ==
    {Identity(now), Software(report), Indicator(report, now)}
    \union Malware(report, now) \union Relationships(report, now)

Ids(objects) == {o.id : o \in objects}

\* The endpoint of a TAXII collection, if configured: by its URL or by the API root
\* and the collection.
Endpoint(taxii) == IF "url" \in DOMAIN taxii THEN {taxii.url}
                   ELSE IF {"root", "collection"} \subseteq DOMAIN taxii
                   THEN {<<taxii.root, taxii.collection>>} ELSE {}

\* A bearer token wins over a user and password.
Authorization(taxii) == IF "bearer" \in DOMAIN taxii THEN "bearer"
                        ELSE IF {"user", "password"} \subseteq DOMAIN taxii THEN "basic"
                        ELSE "none"

\* post_bundle: an answer is an HTTP status, or 0 when there was none.  It never raises.
Push(taxii, answer) ==
    IF Endpoint(taxii) = {} THEN [ok |-> FALSE, status |-> 0]
    ELSE [ok |-> answer \in 200..299, status |-> answer]

----------------------------------------------------------------------------
(* Falco and Tetragon *)

\* _extract_iocs, from the snippets and the advisory.
Hosts(report) == (UNION {report.evidence[n].hosts : n \in DOMAIN report.evidence})
                 \union report.advisoryHosts
Commands(report) == UNION {report.evidence[n].commands : n \in DOMAIN report.evidence}

\* The alerts: one for the hosts found, one for four well-known commands when any
\* command was found.
FalcoRules(report) ==
    {r \in {"known-bad domains", "suspicious exec"} :
        IF r = "known-bad domains" THEN Hosts(report) # {} ELSE Commands(report) # {}}

\* The hosts the policies name: of many, the first 50.
NamedHosts(report) == {h \in Hosts(report) : Cardinality({g \in Hosts(report) : g < h}) < 50}

\* What the tracing policy kills: connections to those, and curl, wget, powershell
\* and bash whatever the report says.
Kills(report) == [connect |-> NamedHosts(report), execute |-> {"/curl", "/wget", "/powershell", "/bash"}]

\* The files of a package's policies are named after it, by 60 characters at most in
\* which anything but letters and digits is a dash: safe maps names to these.
PolicyFile(report, safe) == safe[<<report.package, report.version>>]

\* What a report leaves of the policies written before.
EmitFalco(files, report, safe) ==
    [name \in DOMAIN files \union {PolicyFile(report, safe)} |->
        IF name = PolicyFile(report, safe) THEN report ELSE files[name]]

\* The strict policies, the same whatever was reported: they kill installers that
\* read credentials or connect to the outside, the registries included, and alert
\* on shells and on what survives a restart.
Strict == [kill |-> {"credential", "connect"},
           alert |-> {"credential", "connect", "shell", "persistence"}]

----------------------------------------------------------------------------
(* CycloneDX VEX *)

VerdictState(verdict) == CASE verdict \in {"MALICIOUS", "HIGH_RISK"} -> "exploitable"
                           [] verdict = "CLEAN" -> "not_affected"
                           [] OTHER -> "in_triage"

\* The state of a piece of evidence is that of its review, or the report's.
EvidenceState(report, piece) ==
    CASE piece.llm = "none" -> VerdictState(report.verdict)
      [] piece.llm = "MALICIOUS" -> "exploitable"
      [] piece.llm = "BENIGN" -> "not_affected"
      [] OTHER -> "in_triage"

Vulnerabilities(report) ==
    {[ttp |-> report.evidence[n].ttp, state |-> EvidenceState(report, report.evidence[n])] :
        n \in DOMAIN report.evidence}

\* The OWASP items cited, and what the text report adds to a CLEAN with evidence.
Owasp(verdict) == CASE verdict \in {"MALICIOUS", "HIGH_RISK", "CANNOT_ANALYZE"} -> {"LLM05", "LLM09"}
                    [] verdict = "SUSPICIOUS" -> {"LLM05"}
                    [] OTHER -> {}
Noisy(report) == report.verdict = "CLEAN" /\ report.evidence # <<>>

----------------------------------------------------------------------------
(* The webhook *)

\* The signature is over time and body: HMAC is taken to have no collisions.
Sign(secret, at, body) == <<secret, at, body>>

\* hmac_verify, the receiver's part; times are in milliseconds.
Verify(secret, message, now) ==
    /\ message.signature = Sign(secret, message.at, message.body)
    /\ now - message.at <= 300 * 1000 /\ message.at - now <= 300 * 1000

\* emit: delivered when the answer is no error (a status of 400 and more raises).
Delivered(answer) == answer \in 200..399

----------------------------------------------------------------------------
(* What sink_log keeps of each sink a report was handed to *)

\* Whether it went well: a sink that raises (a full disk) is logged as failed, a
\* push over TAXII that was refused as a success with its status.
SinkLog(cfg, answers) ==
    {[kind |-> "stix", success |-> ~("stix" \in cfg /\ answers.disk)] :
        k \in cfg \intersect {"stix", "taxii"}}
    \union {[kind |-> "webhook", success |-> Delivered(answers.webhook)] : k \in cfg \intersect {"webhook"}}
    \union {[kind |-> k, success |-> ~answers.disk] : k \in cfg \intersect {"falco", "pmg"}}
============================================================================
