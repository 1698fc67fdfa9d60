--------------------------- MODULE AnalysisCache ---------------------------
(***************************************************************************)
(* The report cache of one package version (table analyses, class          *)
(* AnalysisCache) and the processes that use it: run_pipeline, which looks *)
(* a report up, analyses on a miss and stores the report, and the analyze  *)
(* API, which looks up first and only then calls run_pipeline.             *)
(*                                                                         *)
(* Around them the registry may serve another archive under the same URL,  *)
(* a feed refresh may list an advisory (a trigger then writes to the       *)
(* invalidation log), the rule modules on disk may be replaced under       *)
(* running processes, and a row may be altered outside put.  A report is   *)
(* abstracted to what it was made from.                                    *)
(***************************************************************************)
EXTENDS Integers, FiniteSets

CONSTANTS
    Processes,      \* worker, CLI and server processes sharing the database
    Archives,       \* contents the registry may serve for the version
    NoArchive,      \* archive_sha256 IS NULL
    Rules,          \* versions of the detection rule modules on disk
    Advisories,     \* advisories that may be listed in known_malicious
    SameSpelling,   \* those that spell the package as the requests do
    Modes,          \* integrity modes the callers use
    DayLength,      \* ticks in a day
    TTL,            \* ttl_days, in ticks
    MaxTime,        \* bound: the clock
    MaxChanges,     \* bound: changes made around the processes
    MaxCalls        \* bound: calls of the API and of run_pipeline

ASSUME CacheAssumption ==
    /\ NoArchive \notin Archives
    /\ SameSpelling \subseteq Advisories
    /\ Modes \subseteq {"fast", "strict", "paranoid"} /\ "strict" \in Modes
    /\ DayLength \in Nat \ {0} /\ TTL \in Nat
    /\ MaxTime \in Nat /\ MaxChanges \in Nat /\ MaxCalls \in Nat

Times == 0..MaxTime

\* IntegrityMode, weakest first.
rank == [m \in {"fast", "strict", "paranoid"} |->
            CASE m = "fast" -> 0 [] m = "strict" -> 1 [] m = "paranoid" -> 2]

VARIABLES
    now,
    served,     \* what the registry serves at archive_url
    disk,       \* the rule modules on disk
    listed,     \* advisories of this package in known_malicious
    listedAt,   \* when each was inserted
    log,        \* cache_invalidation_log of this package
    rows,       \* the analyses row of this key: no element or one
    clearing,   \* invalidate has deleted and has not logged yet
    pc,
    mode,       \* integrity_mode of the call
    url,        \* was get given archive_url
    loaded,     \* the rules in the memory of each process
    cand,       \* the row get has fetched
    saw,        \* advisories listed when get read the log
    draft,      \* what the report being made is made from
    fp,         \* archive_sha256 that put has computed
    answer,     \* the hit being answered: no element or one
    moved,      \* history: served changed since this analysis extracted
    under,      \* history: disk changed since this process started
    changes, calls

world == <<now, served, disk, listed, listedAt, changes, calls>>
table == <<log, rows, clearing>>
call == <<mode, url, loaded, cand, saw, draft, fp, answer>>
history == <<moved, under>>
vars == <<world, table, pc, call, history>>

\* What a report is made from: the archive extracted, and when stage 0A looked
\* for advisories (looked is FALSE when the stage failed and was skipped).
Drafts == [of : Archives \union {NoArchive}, since : Times, looked : BOOLEAN]
NoDraft == [of |-> NoArchive, since |-> 0, looked |-> FALSE]

\* A row: what its report was made from and by which rules, with the history of
\* the analysis (moved, under) and of the row (altered: a column the row HMAC covers
\* was written by other means than put), then the columns; hmac says whether there
\* is one in the row.
Row == [report : Drafts, by : Rules, moved : BOOLEAN, under : BOOLEAN, altered : BOOLEAN,
        sha : Archives \union {NoArchive}, rules : Rules, mode : Modes, hmac : BOOLEAN,
        at : Times]

\* The two formats of invalidated_at: strftime with T and Z, or CURRENT_TIMESTAMP.
Entry == [at : Times, sql : BOOLEAN]

\* A hit, with what was true of the world when get checked it.
Hits == [row : Row, served : Archives, listed : SUBSET Advisories]

TypeOK ==
    /\ now \in Times /\ served \in Archives /\ disk \in Rules
    /\ listed \subseteq Advisories /\ listedAt \in [Advisories -> Times]
    /\ log \subseteq Entry /\ rows \subseteq Row /\ clearing \in BOOLEAN
    /\ \A r, s \in rows : r = s
    /\ pc \in [Processes -> {"idle", "fetch", "log", "archive", "filter", "extract",
                              "analyze", "store", "answer"}]
    /\ mode \in [Processes -> Modes]
    /\ url \in [Processes -> BOOLEAN]
    /\ loaded \in [Processes -> Rules]
    /\ cand \in [Processes -> SUBSET Row]
    /\ saw \in [Processes -> SUBSET Advisories]
    /\ draft \in [Processes -> Drafts]
    /\ fp \in [Processes -> Archives \union {NoArchive}]
    /\ answer \in [Processes -> SUBSET Hits]
    /\ moved \in [Processes -> BOOLEAN] /\ under \in [Processes -> BOOLEAN]
    /\ changes \in 0..MaxChanges /\ calls \in 0..MaxCalls

Init ==
    /\ now = 0 /\ served \in Archives /\ disk \in Rules
    /\ listed = {} /\ listedAt = [a \in Advisories |-> 0]
    /\ log = {} /\ rows = {} /\ clearing = FALSE
    /\ pc = [p \in Processes |-> "idle"]
    /\ mode = [p \in Processes |-> "strict"]
    /\ url = [p \in Processes |-> TRUE]
    /\ loaded = [p \in Processes |-> disk]
    /\ cand = [p \in Processes |-> {}]
    /\ saw = [p \in Processes |-> {}]
    /\ draft = [p \in Processes |-> NoDraft]
    /\ fp = [p \in Processes |-> NoArchive]
    /\ answer = [p \in Processes |-> {}]
    /\ moved = [p \in Processes |-> FALSE]
    /\ under = [p \in Processes |-> FALSE]
    /\ changes = 0 /\ calls = 0

----------------------------------------------------------------------------
(* Around the processes *)

Changed ==
    /\ changes < MaxChanges /\ changes' = changes + 1
    /\ UNCHANGED calls

Tick ==
    /\ now < MaxTime /\ now' = now + 1
    /\ UNCHANGED <<served, disk, listed, listedAt, changes, calls, table, pc, call, history>>

\* The registry replaces the archive under the same URL.
Republish(a) ==
    /\ a # served /\ Changed
    /\ served' = a
    /\ moved' = [p \in Processes |-> moved[p] \/ pc[p] = "analyze"]
    /\ UNCHANGED <<now, disk, listed, listedAt, table, pc, call, under>>

\* pip install --upgrade: the files change, what processes have imported stays.
Upgrade(r) ==
    /\ r # disk /\ Changed
    /\ disk' = r
    /\ under' = [p \in Processes |-> TRUE]
    /\ UNCHANGED <<now, served, listed, listedAt, table, pc, call, moved>>

\* Bug: the trigger is missing.
BugListAdvisory(a) ==
    /\ a \notin listed /\ Changed
    /\ listed' = listed \union {a}
    /\ listedAt' = [listedAt EXCEPT ![a] = now]
    /\ UNCHANGED <<now, served, disk, table, pc, call, history>>

\* INSERT INTO known_malicious and its trigger, which logs the package as the
\* advisory spells it.  An upsert of a known advisory fires no trigger.
ListAdvisory(a) ==
    /\ a \notin listed /\ Changed
    /\ listed' = listed \union {a}
    /\ listedAt' = [listedAt EXCEPT ![a] = now]
    /\ log' = IF a \in SameSpelling THEN log \union {[at |-> now, sql |-> FALSE]} ELSE log
    /\ UNCHANGED <<now, served, disk, rows, clearing, pc, call, history>>

\* The row changes by other means than put, one edit after the other: another
\* analyzed_at, which the row HMAC leaves out, or another report, hash, rules version
\* or mode, with the HMAC as it was or with none.
Restamped(r, at) == [r EXCEPT !.at = at]

Rewritten(r, sha, by, m, hmac) ==
    [r EXCEPT !.altered = TRUE, !.sha = sha, !.rules = by, !.mode = m, !.hmac = hmac]

Alter ==
    /\ Changed
    /\ \E r \in rows :
          \/ \E at \in Times : rows' = {Restamped(r, at)}
          \/ \E sha \in Archives \union {NoArchive}, by \in Rules, m \in Modes,
                hmac \in {r.hmac, FALSE} : rows' = {Rewritten(r, sha, by, m, hmac)}
    /\ UNCHANGED <<now, served, disk, listed, listedAt, log, clearing, pc, call, history>>

\* invalidate: a DELETE and an INSERT, each committed on its own.
DeleteRow ==
    /\ ~clearing /\ Changed
    /\ rows' = {} /\ clearing' = TRUE
    /\ UNCHANGED <<now, served, disk, listed, listedAt, log, pc, call, history>>

LogManual ==
    /\ clearing /\ clearing' = FALSE
    /\ log' = log \union {[at |-> now, sql |-> TRUE]}
    /\ UNCHANGED <<world, rows, pc, call, history>>

----------------------------------------------------------------------------
(* AnalysisCache.get *)

Goto(p, label) == pc' = [pc EXCEPT ![p] = label]

\* Back to idle, the locals of the call gone.
Finish(p) ==
    /\ Goto(p, "idle")
    /\ mode' = [mode EXCEPT ![p] = "strict"]
    /\ url' = [url EXCEPT ![p] = TRUE]
    /\ cand' = [cand EXCEPT ![p] = {}]
    /\ saw' = [saw EXCEPT ![p] = {}]
    /\ draft' = [draft EXCEPT ![p] = NoDraft]
    /\ fp' = [fp EXCEPT ![p] = NoArchive]
    /\ answer' = [answer EXCEPT ![p] = {}]
    /\ moved' = [moved EXCEPT ![p] = FALSE]
    /\ UNCHANGED <<loaded, under>>

\* A miss: run_pipeline goes on to extract, the API to run_pipeline.
Miss(p) ==
    /\ Goto(p, IF url[p] THEN "extract" ELSE "filter")
    /\ cand' = [cand EXCEPT ![p] = {}]
    /\ saw' = [saw EXCEPT ![p] = {}]
    /\ UNCHANGED <<mode, url, loaded, draft, fp, answer>>

Hit(p, r, known) ==
    /\ Goto(p, "answer")
    /\ answer' = [answer EXCEPT ![p] = {[row |-> r, served |-> served, listed |-> known]}]
    /\ cand' = [cand EXCEPT ![p] = {}]
    /\ saw' = [saw EXCEPT ![p] = {}]
    /\ draft' = [draft EXCEPT ![p] = NoDraft]
    /\ UNCHANGED <<mode, url, loaded, fp>>

\* Bug: get forgets the rules version.
BugUsableRules(p, r) == rank[r.mode] >= rank[mode[p]] /\ now - r.at =< TTL

\* Bug: get forgets the strength of the mode.
BugUsableMode(p, r) == r.rules = disk /\ now - r.at =< TTL

\* The rules version, the strength of the mode and the age of the row.
Usable(p, r) ==
    /\ r.rules = disk
    /\ rank[r.mode] >= rank[mode[p]]
    /\ now - r.at =< TTL

Fetch(p) ==
    /\ pc[p] = "fetch"
    /\ \/ /\ \E r \in rows : Usable(p, r)
          /\ cand' = [cand EXCEPT ![p] = rows]
          /\ Goto(p, "log")
          /\ UNCHANGED <<mode, url, loaded, saw, draft, fp, answer>>
       \/ (\A r \in rows : ~Usable(p, r)) /\ Miss(p)
    /\ UNCHANGED <<world, table, history>>

\* invalidated_at > analyzed_at, compared as text: on one day the blank of
\* CURRENT_TIMESTAMP sorts before the T of analyzed_at.
After(e, t) == IF e.sql THEN e.at \div DayLength > t \div DayLength ELSE e.at > t

CheckLog(p) ==
    /\ pc[p] = "log"
    /\ \E r \in cand[p] :
          IF \E e \in log : After(e, r.at) THEN Miss(p)
          ELSE IF url[p]
               THEN /\ saw' = [saw EXCEPT ![p] = listed]
                    /\ Goto(p, "archive")
                    /\ UNCHANGED <<mode, url, loaded, cand, draft, fp, answer>>
               ELSE Hit(p, r, listed)
    /\ UNCHANGED <<world, table, history>>

\* Bug: any row with a hash matches.
BugMatches(p, r) == mode[p] # "fast" /\ r.sha # NoArchive

\* A row keeps no ETag, so a fingerprint of mode fast matches none.
Matches(p, r) == mode[p] # "fast" /\ r.sha = served

\* The archive is downloaded again (or fails to be) and compared, then the row
\* HMAC, if there is one; a mismatch of the HMAC is logged.
CheckArchive(p) ==
    /\ pc[p] = "archive"
    /\ \E r \in cand[p] :
          \/ Miss(p) /\ UNCHANGED log
          \/ /\ Matches(p, r)
             /\ IF mode[p] = "paranoid" /\ r.hmac /\ r.altered
                THEN Miss(p) /\ log' = log \union {[at |-> now, sql |-> TRUE]}
                ELSE Hit(p, r, saw[p]) /\ UNCHANGED log
    /\ UNCHANGED <<world, rows, clearing, history>>

Return(p) == pc[p] = "answer" /\ Finish(p) /\ UNCHANGED <<world, table>>

----------------------------------------------------------------------------
(* The callers *)

Called ==
    /\ calls < MaxCalls /\ calls' = calls + 1
    /\ UNCHANGED <<now, served, disk, listed, listedAt, changes>>

\* handle_analyze with a version: get in mode strict, no archive_url.
CallAPI(p) ==
    /\ pc[p] = "idle" /\ Called
    /\ Goto(p, "fetch")
    /\ url' = [url EXCEPT ![p] = FALSE]
    /\ UNCHANGED <<table, mode, loaded, cand, saw, draft, fp, answer, history>>

CallPipeline(p, m) ==
    /\ pc[p] = "idle" /\ Called
    /\ Goto(p, "filter")
    /\ mode' = [mode EXCEPT ![p] = m]
    /\ UNCHANGED <<table, url, loaded, cand, saw, draft, fp, answer, history>>

\* Stages 0 to 0E.  A listed package is MALICIOUS at once; a filter that fails
\* is skipped; force_rescan skips get; a package not found ends the call.
Filter(p) ==
    /\ pc[p] = "filter"
    /\ \/ Finish(p)
       \/ /\ \E looked \in BOOLEAN :
                /\ looked => listed = {}
                /\ draft' = [draft EXCEPT ![p] =
                    [NoDraft EXCEPT !.since = IF looked THEN now ELSE 0, !.looked = looked]]
          /\ \E label \in {"fetch", "extract"} : Goto(p, label)
          /\ url' = [url EXCEPT ![p] = TRUE]
          /\ UNCHANGED <<mode, loaded, cand, saw, fp, answer, history>>
    /\ UNCHANGED <<world, table>>

\* Stage 1B, or its failure, which ends the call with ERROR.
Extract(p) ==
    /\ pc[p] = "extract"
    /\ \/ Finish(p)
       \/ /\ draft' = [draft EXCEPT ![p].of = served]
          /\ Goto(p, "analyze")
          /\ UNCHANGED <<mode, url, loaded, cand, saw, fp, answer, history>>
    /\ UNCHANGED <<world, table>>

\* The stages up to the report, where an agentic verdict ends the call without
\* put; then put's fingerprint: another download, whose failure leaves NULL.
Analyze(p) ==
    /\ pc[p] = "analyze"
    /\ \/ Finish(p)
       \/ /\ \E a \in IF mode[p] = "fast" THEN {NoArchive} ELSE {served, NoArchive} :
                fp' = [fp EXCEPT ![p] = a]
          /\ Goto(p, "store")
          /\ UNCHANGED <<mode, url, loaded, cand, saw, draft, answer, history>>
    /\ UNCHANGED <<world, table>>

\* Bug: the upsert inserts beside the row that is there.
BugStore(p) ==
    /\ pc[p] = "store"
    /\ rows' = rows \union {[report |-> draft[p], by |-> loaded[p], moved |-> moved[p],
                    under |-> under[p], altered |-> FALSE, sha |-> fp[p],
                    rules |-> disk, mode |-> mode[p], hmac |-> mode[p] = "paranoid",
                    at |-> now]}
    /\ Finish(p)
    /\ UNCHANGED <<world, log, clearing>>

\* put, the upsert with the rules hash read from disk, or its failure.
Store(p) ==
    /\ pc[p] = "store"
    /\ \/ rows' = rows
       \/ rows' = {[report |-> draft[p], by |-> loaded[p], moved |-> moved[p],
                    under |-> under[p], altered |-> FALSE, sha |-> fp[p],
                    rules |-> disk, mode |-> mode[p], hmac |-> mode[p] = "paranoid",
                    at |-> now]}
    /\ Finish(p)
    /\ UNCHANGED <<world, log, clearing>>

\* The process dies, or ends, and another starts and imports what is on disk.
Restart(p) ==
    /\ Goto(p, "idle")
    /\ mode' = [mode EXCEPT ![p] = "strict"]
    /\ url' = [url EXCEPT ![p] = TRUE]
    /\ loaded' = [loaded EXCEPT ![p] = disk]
    /\ cand' = [cand EXCEPT ![p] = {}]
    /\ saw' = [saw EXCEPT ![p] = {}]
    /\ draft' = [draft EXCEPT ![p] = NoDraft]
    /\ fp' = [fp EXCEPT ![p] = NoArchive]
    /\ answer' = [answer EXCEPT ![p] = {}]
    /\ moved' = [moved EXCEPT ![p] = FALSE]
    /\ under' = [under EXCEPT ![p] = FALSE]
    /\ UNCHANGED <<world, table>>

Get(p) == Fetch(p) \/ CheckLog(p) \/ CheckArchive(p) \/ Return(p)

Run(p) ==
    \/ CallAPI(p)
    \/ \E m \in Modes : CallPipeline(p, m)
    \/ Filter(p) \/ Extract(p) \/ Analyze(p) \/ Store(p)

Around ==
    \/ Tick
    \/ \E a \in Archives : Republish(a)
    \/ \E r \in Rules : Upgrade(r)
    \/ \E a \in Advisories : ListAdvisory(a)
    \/ Alter \/ DeleteRow \/ LogManual

Next == Around \/ \E p \in Processes : Get(p) \/ Run(p) \/ Restart(p)

Spec == Init /\ [][Next]_vars

----------------------------------------------------------------------------
(* Properties *)

\* A lookup that verifies the archive answers with a report made from the
\* archive the registry serves, except that a put whose analysis saw the archive
\* replaced between extraction and fingerprint stores a row that lies about it, as
\* does a row that was altered.
FreshUnlessMoved ==
    \A p \in Processes : \A h \in answer[p] :
        url[p] /\ h.row.report.of # h.served => h.row.moved \/ h.row.altered

\* A hit hides a listed advisory only if the advisory came while the report was
\* being made (no later than the stamp of the row), stage 0A was skipped, or the
\* advisory spells the package in another case.
HiddenAdvisoryHasCause ==
    \A p \in Processes : \A h \in answer[p], a \in SameSpelling :
        a \in h.listed /\ h.row.report.looked =>
            listedAt[a] \in h.row.report.since..h.row.at

\* A hit was made by the rules now on disk, unless the modules were replaced
\* under the process that made it or under the one that answers with it, or the
\* row was altered.
RulesUnlessUpgraded ==
    \A p \in Processes : \A h \in answer[p] :
        h.row.by # disk => h.row.under \/ under[p] \/ h.row.altered

\* What a lookup in mode paranoid answers with is as put wrote it, or it carries no
\* HMAC: get verifies one only if the row has one.  And it is never a row of a weaker
\* mode as put wrote it, which has none either.
ParanoidSeesAlteration ==
    \A p \in Processes : \A h \in answer[p] :
        mode[p] = "paranoid" => (h.row.altered <=> ~h.row.hmac)

\* The docstring of analysis_cache.py (:15): an advisory inserted in
\* known_malicious invalidates the report at the next get.  Left aside: a report
\* whose stage 0A was skipped, and an advisory of the very instant of put.
AdvisoryInvalidates ==
    \A p \in Processes : \A h \in answer[p] : \A a \in h.listed :
        h.row.report.looked => listedAt[a] = h.row.at
============================================================================
