--------------------------- MODULE DependencyWalk ---------------------------
(***************************************************************************)
(* Stage 6: the dependencies a project's manifests declare, and those of   *)
(* the dependencies down to a depth, are resolved to a version each and    *)
(* looked up in the attack history.  One process walks several projects,   *)
(* one after the other, and what it once heard from the registry - or did  *)
(* not hear, when a request failed - it keeps in memory.                   *)
(*                                                                         *)
(* Versions are numbers.  A requirement has what its specifier accepts and  *)
(* what the code makes of it, which is not always the same.                *)
(***************************************************************************)
EXTENDS Integers, Sequences, FiniteSets, SequencesExt, FiniteSetsExt

CONSTANTS
    Names,          \* of packages, each of one ecosystem, in lower case
    Versions,       \* positive numbers
    Projects,       \* manifests of the projects analysed
    First,          \* what the registry has of each package at the start
    Requires,       \* for each package, the dependencies of each of its versions
    Affected,       \* affected_versions of the listed names: all versions when empty
    LookAlikes,     \* names close to a listed one
    MaxDepth,       \* max_depth (the pipeline's call leaves it at 1)
    MaxPackages,    \* max_packages
    MaxGroupDepth,  \* includes followed in dependency-groups: 10
    MaxFailures,    \* bound: failing requests
    MaxWalks,       \* bound: projects analysed
    MaxPublished    \* bound: versions published or withdrawn

Unknown == 0        \* None: no version is known
Loose == -1         \* a text with a version's beginning that is none: "1.x", "1.*", "==1"

\* What a specifier accepts (spec) and what is made of it: the text taken for the
\* one version it pins, if any, and the versions that the part of it which is kept
\* and can be read accepts (read).  Of a Python specifier the first clause is kept;
\* an empty one, and an npm one of an unknown form, accepts nothing.
Dependency == [name : Names, spec : SUBSET Versions,
               pin : Versions \union {Loose, Unknown}, read : SUBSET Versions]

\* The registry's answer on a name: its versions and the one it calls the latest.
Listing == [list : SUBSET Versions, latest : Versions \union {Unknown}]
Unanswered == [list |-> {}, latest |-> Unknown]

----------------------------------------------------------------------------
(* The dependencies a project declares *)

\* An item of a dependency group: a requirement or the inclusion of a group.
Includes(item) == "include" \in DOMAIN item

Add(out, items) == out \o SelectSeq(items, LAMBDA i : ~Contains(out, i))

Stacks(groups) == {s \in BoundedSeq(DOMAIN groups, Cardinality(DOMAIN groups)) :
                       s # <<>> /\ IsInjective(s)}

\* _expand_pep735_groups: includes are followed but for a cycle, an unknown group
\* and too long a chain.
ExpandGroups(groups) ==
    LET Expand[stack \in Stacks(groups)] ==
            FoldLeft(LAMBDA out, i :
                         IF ~Includes(i) THEN Add(out, <<i>>)
                         ELSE IF \/ Contains(stack, i.include) \/ Len(stack) >= MaxGroupDepth
                                 \/ i.include \notin DOMAIN groups THEN out
                         ELSE Add(out, Expand[Append(stack, i.include)]),
                     <<>>, groups[Last(stack)])
    IN  [g \in DOMAIN groups |-> Expand[<<g>>]]

\* All groups of a table, in some order.
Flattened(groups) == FlattenSeq(SetToSeq({ExpandGroups(groups)[g] : g \in DOMAIN groups}))

\* Python: pyproject.toml, then setup.py (as text when its syntax tree shows
\* nothing), then requirements.txt.  What is not direct is for development.
DirectPython(m) == m.dependencies \o (IF m.setup_ast # <<>> THEN m.setup_ast ELSE m.setup_text)
                   \o m.requirements
DevPython(m) == m.optional \o Flattened(m.groups)

\* npm: the four blocks of package.json.
DirectNpm(m) == m.dependencies \o m.peer \o m.optional
DevNpm(m) == m.dev

ExtractDependencies(m) ==
    IF m.ecosystem = "PyPI" THEN DirectPython(m) \o DevPython(m) ELSE DirectNpm(m) \o DevNpm(m)

\* Everything the manifests declare, included groups resolved or not.
Declared(m) ==
    IF m.ecosystem = "npm" THEN ToSet(ExtractDependencies(m))
    ELSE ToSet(ExtractDependencies([m EXCEPT !.groups = <<>>]))
         \union UNION {{i \in ToSet(m.groups[g]) : ~Includes(i)} : g \in DOMAIN m.groups}

ASSUME WalkAssumption ==
    /\ \E latest \in Versions : Versions \subseteq 1..latest
    /\ First \in [Names -> Listing]
    /\ Requires \in [Names -> [Versions -> Seq(Dependency)]]
    /\ \A m \in Projects : ExtractDependencies(m) \in Seq(Dependency)
    /\ DOMAIN Affected \subseteq Names
    /\ {MaxDepth, MaxPackages, MaxGroupDepth, MaxWalks} \subseteq Nat \ {0}
    /\ {MaxFailures, MaxPublished} \subseteq Nat

\* Cutting an include short loses nothing: every group is expanded from its own
\* name as well.
ASSUME ManifestAssumption ==
    \A m \in Projects : ToSet(ExtractDependencies(m)) = Declared(m)

----------------------------------------------------------------------------
VARIABLES
    registry,       \* what the registry has
    versions,       \* _REGISTRY_VERSIONS_CACHE, _REGISTRY_LATEST_CACHE: of the names asked for
    children,       \* _REGISTRY_DEPS_CACHE: of the versions asked for
    project,        \* the project being walked
    worklist, visited, results,
    index,          \* the attack index as this walk finds it
    failed,         \* history: names of which a request failed in this process
    nameless,       \* history: names for which the registry answered without a latest version
    walks, failures, publications

cache == <<versions, children>>
budget == <<walks, failures, publications>>
heard == <<failed, nameless>>
walkVars == <<registry, cache, project, worklist, visited, results, index, heard, budget>>

Item == [dep : Dependency, path : Seq(Names)]
Result == [name : Names, version : Versions \union {Loose, Unknown}, path : Seq(Names),
           verdict : {"MALICIOUS", "INFO", "SUSPICIOUS", "CLEAN", "SKIPPED"}]

WalkTypeOK ==
    /\ registry \in [Names -> Listing]
    /\ versions \in [Names -> [asked : BOOLEAN, says : Listing]]
    /\ DOMAIN children \subseteq Names \X (Versions \union {Loose})
    /\ children \in [DOMAIN children -> Seq(Dependency)]
    /\ project \in Projects
    /\ worklist \in Seq(Item) /\ visited \subseteq Names /\ results \in Seq(Result)
    /\ index \in {"loaded", "missing", "unreadable"}
    /\ failed \subseteq Names /\ nameless \subseteq Names
    /\ walks \in 0..MaxWalks /\ failures \in 0..MaxFailures /\ publications \in 0..MaxPublished

\* The worklist of a walk: what is declared, at depth one.
Walk(m) == LET deps == ExtractDependencies(m)
           IN  [n \in 1..Len(deps) |-> [dep |-> deps[n], path |-> <<>>]]

WalkInit ==
    /\ registry = First
    /\ versions = [n \in Names |-> [asked |-> FALSE, says |-> Unanswered]]
    /\ children = <<>>
    /\ project \in Projects /\ worklist = Walk(project) /\ visited = {} /\ results = <<>>
    /\ index \in {"loaded", "missing", "unreadable"}
    /\ failed = {} /\ nameless = {} /\ walks = 1 /\ failures = 0 /\ publications = 0

----------------------------------------------------------------------------
(* One dependency *)

\* A plausible bug: the latest version, whatever the specifier accepts.
BugResolve(dep, says) == IF dep.pin # Unknown THEN dep.pin ELSE says.latest

\* _resolve_dep_version: the pinned text, else the largest of the listed versions
\* that what is read of the specifier accepts, else the latest - which may be none.
Resolve(dep, says) ==
    IF dep.pin # Unknown THEN dep.pin
    ELSE IF dep.read \intersect says.list # {} THEN Max(dep.read \intersect says.list)
    ELSE says.latest

\* An advisory without versions is on all of them.
Condemned(name, v) ==
    name \in DOMAIN Affected /\ (Affected[name] = {} \/ v \in Affected[name])

\* A plausible bug: a name with versions on the list is bad in all of them.
BugHistory(name, v) ==
    IF name \in DOMAIN Affected THEN "MALICIOUS"
    ELSE IF name \in LookAlikes THEN "SUSPICIOUS" ELSE "CLEAN"

\* check_attack_history and the verdict on its result.  Without a version every
\* advisory on the name counts as exact.
History(name, v) ==
    IF name \in DOMAIN Affected
    THEN IF v = Unknown \/ Condemned(name, v) THEN "MALICIOUS" ELSE "INFO"
    ELSE IF name \in LookAlikes THEN "SUSPICIOUS" ELSE "CLEAN"

\* A plausible bug: a stack, so that the walk goes into the depth first.
BugQueued(rest, items) == items \o rest

\* The dependencies with a name not seen yet, in their order.
Unseen(deps, seen) ==
    LET at == {k \in DOMAIN deps : deps[k].name \notin seen}
    IN  [i \in 1..Cardinality(at) |->
            deps[CHOOSE k \in at : Cardinality({j \in at : j <= k}) = i]]

\* The dependencies of a dependency wait behind all that is nearer.
Queued(rest, items) == rest \o items

\* A plausible bug: a dependency is expanded without knowing its version.
BugExpands(v, path) == index # "unreadable" /\ Len(path) + 1 < MaxDepth

\* Whether the dependencies of a dependency are looked up: above the depth, at a
\* version that is known, and when the advisories could be read at all.
Expands(v, path) == index # "unreadable" /\ Len(path) + 1 < MaxDepth /\ v # Unknown

Ended == worklist = <<>> \/ Len(results) >= MaxPackages

\* A name is visited once, whatever its specifier.
Skip ==
    /\ ~Ended /\ Head(worklist).dep.name \in visited
    /\ worklist' = Tail(worklist)
    /\ UNCHANGED <<registry, cache, project, visited, results, index, heard, budget>>

Visit ==
    /\ ~Ended /\ Head(worklist).dep.name \notin visited
    /\ \E answered, told \in BOOLEAN :
        LET dep == Head(worklist).dep
            n == dep.name
            path == Head(worklist).path
            asksVersions == dep.pin = Unknown /\ ~versions[n].asked
            says == IF versions[n].asked THEN versions[n].says
                    ELSE IF answered THEN registry[n] ELSE Unanswered
            v == Resolve(dep, says)
            asksChildren == Expands(v, path) /\ <<n, v>> \notin DOMAIN children
            found == IF <<n, v>> \in DOMAIN children /\ Expands(v, path)
                     THEN children[<<n, v>>]
                     ELSE IF asksChildren /\ told /\ v \in registry[n].list THEN Requires[n][v] ELSE <<>>
            unseen == Unseen(found, visited \union {n})
            missed == (IF answered THEN 0 ELSE 1) + (IF told THEN 0 ELSE 1)
        IN  /\ ~answered => asksVersions
            /\ ~told => asksChildren
            /\ failures + missed <= MaxFailures /\ failures' = failures + missed
            /\ failed' = IF missed > 0 THEN failed \union {n} ELSE failed
            /\ nameless' = IF asksVersions /\ answered /\ says.latest = Unknown
                           THEN nameless \union {n} ELSE nameless
            /\ visited' = visited \union {n}
            /\ versions' = IF asksVersions
                           THEN [versions EXCEPT ![n] = [asked |-> TRUE, says |-> says]]
                           ELSE versions
            /\ children' = IF asksChildren
                           THEN [a \in DOMAIN children \union {<<n, v>>} |->
                                    IF a = <<n, v>> THEN found ELSE children[a]]
                           ELSE children
            /\ results' = Append(results, [name |-> n, path |-> path,
                   version |-> IF index = "loaded" THEN v ELSE Unknown,
                   verdict |-> IF index = "loaded" THEN History(n, v) ELSE "SKIPPED"])
            /\ worklist' = Queued(Tail(worklist),
                   [k \in 1..Len(unseen) |-> [dep |-> unseen[k], path |-> Append(path, n)]])
    /\ UNCHANGED <<registry, project, index, walks, publications>>

\* The process goes on to another project.
NextProject ==
    /\ Ended /\ walks < MaxWalks /\ walks' = walks + 1
    /\ project' \in Projects /\ worklist' = Walk(project')
    /\ visited' = {} /\ results' = <<>>
    /\ index' \in {"loaded", "missing", "unreadable"}
    /\ UNCHANGED <<registry, cache, heard, failures, publications>>

\* A version is published, as the latest one or not.
Release ==
    /\ publications < MaxPublished /\ publications' = publications + 1
    /\ \E n \in Names : \E v \in Versions \ registry[n].list :
           \E latest \in {v, registry[n].latest} :
               registry' = [registry EXCEPT ![n] = [list |-> @.list \union {v}, latest |-> latest]]
    /\ UNCHANGED <<cache, project, worklist, visited, results, index, heard, walks, failures>>

\* A version is taken back, and the latest is one of the others or none.
Withdraw ==
    /\ publications < MaxPublished /\ publications' = publications + 1
    /\ \E n \in Names : \E v \in registry[n].list :
           \E latest \in (registry[n].list \ {v}) \union {Unknown} :
               registry' = [registry EXCEPT ![n] = [list |-> @.list \ {v}, latest |-> latest]]
    /\ UNCHANGED <<cache, project, worklist, visited, results, index, heard, walks, failures>>

WalkNext == Skip \/ Visit \/ NextProject \/ Release \/ Withdraw

WalkSpec == WalkInit /\ [][WalkNext]_walkVars

----------------------------------------------------------------------------
(* Properties *)

Fit(d) == d.spec \intersect registry[d.name].list

\* What is meant by some dependencies: of each, the largest published version that
\* its specifier accepts.
Installed(deps) == {<<d.name, Max(Fit(d))>> : d \in {e \in deps : Fit(e) # {}}}

\* Chains of dependencies, by name and version, from the project on.
LeadsOn(chain) ==
    /\ chain[1] \in Installed(Declared(project))
    /\ \A k \in 2..Len(chain) :
           chain[k] \in Installed(ToSet(Requires[chain[k - 1][1]][chain[k - 1][2]]))

\* The dependencies at the end of a chain no longer than a depth.
Within(depth) ==
    {chain[Len(chain)] :
        chain \in {c \in UNION {[1..k -> Names \X Versions] : k \in 1..depth} : LeadsOn(c)}}

Tree == Within(MaxDepth)

\* What is required within the depth.
Wanted == Declared(project)
          \union UNION {ToSet(Requires[a[1]][a[2]]) : a \in Within(MaxDepth - 1)}

\* What keeps a walk from being complete: the limit, the index, a request that
\* failed (in this walk or, kept in memory, in an earlier one), an answer in memory
\* that the registry has outgrown, a name required in two versions or in one that
\* is not published (it is walked at another version then, or at that one).
Hindered ==
    \/ worklist # <<>> \/ index # "loaded" \/ failed # {}
    \/ \E n \in Names : versions[n].asked /\ versions[n].says # registry[n]
    \/ \E a \in DOMAIN children : /\ a[2] \in registry[a[1]].list
                                 /\ children[a] # Requires[a[1]][a[2]]
    \/ \E a, b \in Tree : a[1] = b[1] /\ a[2] # b[2]
    \/ \E d \in Wanted : Fit(d) = {}

\* A specifier is understood when a pin is all it accepts, when nothing is read of
\* it but the latest version is the one meant, or when it is read for what it says.
Understood(d) ==
    IF d.pin # Unknown THEN d.spec = {d.pin}
    ELSE IF d.read = {} THEN registry[d.name].latest = Max(Fit(d))
    ELSE d.read = d.spec

\* Every dependency within the depth, declared in whichever manifest, group or
\* included group, that is listed at the version meant is reported, and at it.
AllReported(tree) ==
    \A a \in tree : Condemned(a[1], a[2]) =>
        \E k \in DOMAIN results : /\ results[k].name = a[1] /\ results[k].version = a[2]
                                  /\ results[k].verdict = "MALICIOUS"

\* A walk that nothing hindered, over specifiers that are all understood, has
\* reported every listed dependency within the depth.
AffectedIsReported ==
    (Ended /\ ~Hindered /\ \A d \in Wanted : Understood(d)) => AllReported(Tree)

\* A dependency is called malicious when the version it was resolved to is listed,
\* or because none could be had: a request failed, now or in an earlier walk of the
\* process, or the registry named no latest version.  Either turns a note on the
\* past into an accusation; a specifier that is not understood never does.
BlameHasCause ==
    \A k \in DOMAIN results : results[k].verdict = "MALICIOUS" =>
        LET n == results[k].name
        IN  \/ Condemned(n, results[k].version)
            \/ results[k].version = Unknown /\ n \in failed \union nameless

\* The path of a result is a chain of dependencies visited before it, and no result
\* comes before one nearer to the project: a name found in two places is reported
\* where it is nearest.
NearestFirst ==
    \A j, k \in DOMAIN results :
        /\ j < k => Len(results[j].path) <= Len(results[k].path)
        /\ \A x \in DOMAIN results[k].path :
               \E i \in 1..(k - 1) : /\ results[i].name = results[k].path[x]
                                     /\ results[i].path = SubSeq(results[k].path, 1, x - 1)
============================================================================
