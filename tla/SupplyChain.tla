----------------------------- MODULE SupplyChain -----------------------------
(***************************************************************************)
(* What is reported of a package's supply chain, without a say in the      *)
(* verdict: the OpenSSF Scorecard of its repository (stage 0C), the level  *)
(* of SLSA its registry entry suggests (0D), and the practices of the NIST *)
(* SSDF it shows.  Pure operators.                                         *)
(*                                                                         *)
(* Metadata is what the registry says: the repository slugs that the URLs  *)
(* under each of its keys yield, the files of the release with what they   *)
(* carry, and what the latest version of an npm package carries.  Scores   *)
(* are whole, rounded down: every threshold is.                            *)
(***************************************************************************)
EXTENDS Integers, Sequences, FiniteSets, SequencesExt

----------------------------------------------------------------------------
(* Scorecard *)

\* The keys whose URLs may name the repository, in the order they are tried.
Places(ecosystem) ==
    IF ecosystem = "PyPI"
    THEN <<"home_page", "project_url", "package_url", "docs_url", "project_urls">>
    ELSE <<"homepage", "bugs", "repository", "latest_repository", "latest_homepage">>

\* find_github_repo_in_metadata: none or one slug, the first.
FindRepo(metadata, ecosystem) ==
    IF ~metadata.present THEN {}
    ELSE LET places == SelectSeq(Places(ecosystem), LAMBDA k : metadata.slugs[k] # <<>>)
         IN  IF places = <<>> THEN {} ELSE {Head(metadata.slugs[Head(places)])}

\* A report that could not be had and one that could not be read (a score that is
\* not a number is an exception, and the pipeline goes on without a report) are
\* alike to all that follows.
NoReport == [available |-> FALSE, checks |-> <<>>]

\* fetch_for_package; answer is that of the service about the repository: an
\* error, or checks [name, score] of which some may be malformed.
Fetch(metadata, ecosystem, answer) ==
    IF FindRepo(metadata, ecosystem) = {} \/ answer.error THEN NoReport
    ELSE IF \E n \in DOMAIN answer.checks : answer.checks[n].score = "malformed" THEN NoReport
    ELSE [available |-> TRUE, checks |-> answer.checks]

risk == [Maintained |-> 3, Code_Review |-> 5, Branch_Protection |-> 3, Token_Permissions |-> 5,
         Vulnerabilities |-> 7, Pinned_Dependencies |-> 3, Dangerous_Workflow |-> 7]

\* extract_risk_signals, the checks they are about.  (A negative score is none.)
RiskSignals(report) ==
    {report.checks[n] : n \in {k \in DOMAIN report.checks :
        /\ report.available
        /\ report.checks[k].name \in DOMAIN risk
        /\ 0 <= report.checks[k].score /\ report.checks[k].score < risk[report.checks[k].name]}}

----------------------------------------------------------------------------
(* SSDF *)

pass == [Security_Policy |-> 7, Signed_Releases |-> 5, Maintained |-> 5, Code_Review |-> 5,
         SAST |-> 5, Fuzzing |-> 5, Vulnerabilities |-> 7]

Named(report, name) == {n \in DOMAIN report.checks : report.checks[n].name = name}
FirstNamed(report, name) == report.checks[CHOOSE n \in Named(report, name) :
                                \A m \in Named(report, name) : n <= m]

ScorecardStatus(report, name) ==
    IF ~report.available \/ Named(report, name) = {} THEN "UNKNOWN"
    ELSE IF FirstNamed(report, name).score < 0 THEN "UNKNOWN"
    ELSE IF FirstNamed(report, name).score >= pass[name] THEN "PASS" ELSE "FAIL"

\* What the archive holds: files named after a security policy, a change log, a
\* bill of materials.  What the registry says of the integrity of the release: a
\* digest of one of its files, the latest version's integrity field.
Shown(yes, otherwise) == IF yes THEN "PASS" ELSE otherwise

Integrity(metadata, ecosystem) ==
    /\ metadata.present
    /\ IF ecosystem = "PyPI" THEN \E f \in metadata.files : "sha256" \in f
       ELSE "integrity" \in metadata.latest

Automation(sast, fuzzing) ==
    IF "PASS" \in {sast, fuzzing} THEN "PASS"
    ELSE IF {sast, fuzzing} = {"FAIL"} THEN "FAIL" ELSE "UNKNOWN"

\* evaluate: the status of each practice.  The pipeline asks about packages found
\* in the registry only.
Ssdf(ecosystem, found, metadata, archive, report) ==
    [PO_4_1 |-> Shown("security" \in archive, ScorecardStatus(report, "Security_Policy")),
     PS_1_1 |-> ScorecardStatus(report, "Signed_Releases"),
     PS_2_1 |-> Shown("changelog" \in archive, "UNKNOWN"),
     PS_3_1 |-> Shown("sbom" \in archive, "FAIL"),
     PW_4_1 |-> ScorecardStatus(report, "Maintained"),
     PW_4_4 |-> Shown(found, "FAIL"),
     PW_4_5 |-> Shown(Integrity(metadata, ecosystem), "UNKNOWN"),
     PW_7_1 |-> ScorecardStatus(report, "Code_Review"),
     PW_8_1 |-> Automation(ScorecardStatus(report, "SAST"), ScorecardStatus(report, "Fuzzing")),
     RV_1_1 |-> ScorecardStatus(report, "Vulnerabilities"),
     RV_2_1 |-> Shown(\/ "security" \in archive
                      \/ \E n \in Named(report, "Security_Policy") : report.checks[n].score >= 7,
                      "UNKNOWN")]

----------------------------------------------------------------------------
(* SLSA *)

\* What speaks for a provenance, and a signature, which PyPI never shows.
Provenance(metadata, ecosystem) ==
    IF ecosystem = "PyPI"
    THEN \E f \in metadata.files : f \intersect {"provenance", "has_attestations", "attestations"} # {}
    ELSE "attestations" \in metadata.latest
Signature(metadata, ecosystem) == ecosystem = "npm" /\ "signatures" \in metadata.latest

\* Malformed metadata is an exception, and the level unknown.
SlsaLevel(metadata, ecosystem) ==
    IF ~metadata.present \/ metadata.malformed THEN "UNKNOWN"
    ELSE LET shown == {kind \in {"provenance", "signature"} :
                          IF kind = "provenance" THEN Provenance(metadata, ecosystem)
                          ELSE Signature(metadata, ecosystem)}
         IN  IF shown = {"provenance", "signature"} \/ (ecosystem = "PyPI" /\ shown # {}) THEN "L2"
             ELSE IF shown # {} THEN "L1" ELSE "L0"
============================================================================
