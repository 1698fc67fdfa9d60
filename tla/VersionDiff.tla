----------------------------- MODULE VersionDiff -----------------------------
(***************************************************************************)
(* How a release is compared with its predecessors: file by file with the  *)
(* previous one, dependencies included (stage3b_full_diff.py, the stage    *)
(* the pipeline runs), and package-wide with up to three earlier ones      *)
(* (stage3_version_diff.py, which it replaced).  Pure operators.           *)
(*                                                                         *)
(* A release is a record: files, the APIs of the catalog each source file  *)
(* calls; entry, those files an install or an import runs first; shell,    *)
(* the keywords found in its install scripts; deps, the declared           *)
(* dependencies with their version specifiers.                             *)
(***************************************************************************)
EXTENDS Integers, Sequences, FiniteSets, SequencesExt

Dimensions == {"INFORMATION_READING", "ENCODING", "PAYLOAD_EXECUTION", "DATA_TRANSMISSION"}

\* The APIs of one dimension are alike to every rule: one of each is enough.
dimension == [getenv |-> "INFORMATION_READING", b64 |-> "ENCODING",
              exec |-> "PAYLOAD_EXECUTION", send |-> "DATA_TRANSMISSION"]
Apis == DOMAIN dimension

\* What the package-wide comparison takes a shell keyword for (nc, a transmission
\* to stage 2, falls under "else" here).
keyword == [curl |-> "DATA_TRANSMISSION", wget |-> "DATA_TRANSMISSION",
            base64 |-> "ENCODING", nc |-> "PAYLOAD_EXECUTION", eval |-> "PAYLOAD_EXECUTION"]

DimensionsOf(apis) == {dimension[api] : api \in apis}

----------------------------------------------------------------------------
(* Severity of the dimensions a release adds *)

HighCombos == {{"DATA_TRANSMISSION", "ENCODING"}, {"PAYLOAD_EXECUTION", "ENCODING"},
               {"PAYLOAD_EXECUTION", "DATA_TRANSMISSION"},
               {"INFORMATION_READING", "DATA_TRANSMISSION"}}

ClassifySeverity(dims) ==
    IF \E combo \in HighCombos : combo \subseteq dims THEN "HIGH"
    ELSE IF dims \intersect {"PAYLOAD_EXECUTION", "DATA_TRANSMISSION"} # {} THEN "MEDIUM"
    ELSE "LOW"

\* The older comparison names the combinations in pairs.
ClassifyRisk(dims) ==
    IF \E pair \in {<<"DATA_TRANSMISSION", "INFORMATION_READING">>,
                    <<"DATA_TRANSMISSION", "ENCODING">>,
                    <<"PAYLOAD_EXECUTION", "ENCODING">>,
                    <<"PAYLOAD_EXECUTION", "DATA_TRANSMISSION">>} :
            pair[1] \in dims /\ pair[2] \in dims THEN "HIGH"
    ELSE IF "PAYLOAD_EXECUTION" \in dims \/ "DATA_TRANSMISSION" \in dims THEN "MEDIUM"
    ELSE "LOW"

order == [LOW |-> 0, MEDIUM |-> 1, HIGH |-> 2]

----------------------------------------------------------------------------
(* The releases compared with: one, three and five before, when there are any. *)

PickPrevious(versions, current) ==
    IF ~Contains(versions, current) THEN <<>>
    ELSE LET at == CHOOSE n \in DOMAIN versions :
                       versions[n] = current /\ \A m \in 1..(n - 1) : versions[m] # current
             picks == IF at >= 6 THEN 3 ELSE at \div 2
         IN [n \in 1..picks |-> versions[at - (2 * n - 1)]]

----------------------------------------------------------------------------
(* The file-by-file comparison with the previous release *)

FilesOf(release) == DOMAIN release.files
CallsOf(release, path) == IF path \in FilesOf(release) THEN release.files[path] ELSE {}

NewApisIn(prev, cur, path) == cur.files[path] \ CallsOf(prev, path)
NewApis(prev, cur) == UNION {NewApisIn(prev, cur, path) : path \in FilesOf(cur)}

\* FileDiff entries: a file the previous release has not, or one with more calls.
FileDiffs(prev, cur) ==
    {[path |-> path, kind |-> IF path \in FilesOf(prev) THEN "api_added" ELSE "new_file"] :
        path \in {f \in FilesOf(cur) : f \notin FilesOf(prev) \/ NewApisIn(prev, cur, f) # {}}}

\* Dependencies of interest: one of HIGH_RISK_NEW_DEPS, one that is only in
\* DANGEROUS_NEW_DEPS, any other.
DangerousDependencies == {"paramiko", "requests"}
DiffDependencies(old, new) ==
    {[kind |-> "added", name |-> d, dangerous |-> d \in DangerousDependencies] :
        d \in DOMAIN new \ DOMAIN old}
    \union {[kind |-> "removed", name |-> d, dangerous |-> FALSE] : d \in DOMAIN old \ DOMAIN new}
    \union {[kind |-> "version_changed", name |-> d, dangerous |-> FALSE] :
        d \in {e \in DOMAIN old \intersect DOMAIN new : old[e] # new[e]}}

AddsDangerous(changes) == \E c \in changes : c.kind = "added" /\ c.dangerous

Raised(severity) == IF severity = "LOW" THEN "MEDIUM" ELSE "HIGH"

\* overall_severity; without the manifests (the previous release comes from the
\* stage cache, which keeps its calls only) no dependency is compared.
OverallSeverity(prev, cur, manifests) ==
    LET severity == ClassifySeverity(DimensionsOf(NewApis(prev, cur)))
    IN  IF manifests /\ AddsDangerous(DiffDependencies(prev.deps, cur.deps))
        THEN Raised(severity) ELSE severity

----------------------------------------------------------------------------
(* The package-wide comparison with the earlier releases picked *)

EntryApis(release) == UNION {release.files[path] : path \in release.entry}

\* earlier: those releases that could be downloaded and analysed.
PackageWideDims(earlier, cur) ==
    DimensionsOf(EntryApis(cur) \ UNION {EntryApis(r) : r \in earlier})
    \union {keyword[k] : k \in cur.shell \ UNION {r.shell : r \in earlier}}

PackageWideRisk(earlier, cur) == ClassifyRisk(PackageWideDims(earlier, cur))

----------------------------------------------------------------------------
\* The file-by-file comparison that runs today loses nothing the one it replaced
\* would have reported of the source code: its severity is at least as high,
\* whichever other releases the older one looked at and even when the previous
\* release comes from the cache - unless an install script says more, or a file
\* that was there becomes an entry file, two things only the older one noticed.
FilesDominatePackage(prev, earlier, cur, manifests) ==
    (/\ prev \in earlier /\ cur.shell = {}
     /\ cur.entry \intersect FilesOf(prev) \subseteq prev.entry)
    => order[PackageWideRisk(earlier, cur)] <= order[OverallSeverity(prev, cur, manifests)]
============================================================================
