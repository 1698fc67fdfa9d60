----------------------------- MODULE StageCache -----------------------------
(***************************************************************************)
(* The cache of stage results (table stage_cache, class StageCache) and    *)
(* the calls of run_pipeline that share it: stage 2 (behaviour), stage 3B  *)
(* (diff with the previous release) and a later stage that works like 2B,  *)
(* 4, 4C, 4D and 4E.  Two releases of one package are analysed, the later  *)
(* one compared with the earlier.                                          *)
(*                                                                         *)
(* A row is found by the hash of some module files, read from the disk at  *)
(* every get and at every put; the code that computes is the code loaded   *)
(* when the process started.  Around the calls the registry may republish  *)
(* a release, the files may be upgraded, processes die and start again.    *)
(***************************************************************************)
EXTENDS VersionDiff

CONSTANTS
    Processes,
    Archives,       \* source trees the registry may serve
    Contents,       \* what each of them contains: a release of VersionDiff
    NoArchive,
    MaxCalls,       \* bound: calls of run_pipeline that reach stage 2
    MaxEvents       \* bound: republications, upgrades, failures, invalidations

ASSUME StageCacheAssumption ==
    /\ NoArchive \notin Archives
    /\ DOMAIN Contents = Archives
    /\ MaxCalls \in Nat /\ MaxEvents \in Nat

Releases == <<"previous", "current">>      \* all_versions, oldest first
ReleaseSet == {"previous", "current"}

Stages == {"behavior", "diff", "indicators"}

\* Groups of module files, and those whose hash makes up a stage_version.
Modules == {"stage2", "stage3b", "matcher"}
StageDeps == [behavior |-> {"stage2"}, diff |-> {"stage3b"}, indicators |-> {"matcher"}]

Codes == [Modules -> 1..(MaxEvents + 1)]

VARIABLES
    served,     \* the archive the registry serves of each release
    disk,       \* the code on disk
    rows,       \* stage_cache
    pc,
    call,       \* release, option and archive of the call of each process
    loaded,     \* the code each process runs
    used,       \* the stage results the call goes on with: none or one each
    analysed,   \* history: releases whose behaviour was stored
    moved,      \* history: the previous release was republished
    failed,     \* history: a download of the previous release failed
    calls, events

history == <<analysed, moved, failed>>
budget == <<calls, events>>
vars == <<served, disk, rows, pc, call, loaded, used, history, budget>>

\* A stage result, by what it was made from: the archive, for a diff the archive
\* compared with (none if the comparison failed) and whether manifests were
\* compared too; by is the code that made it.
Result == [of : Archives, with : Archives \union {NoArchive}, manifests : BOOLEAN, by : Codes]

Row == [release : ReleaseSet, stage : Stages, version : Codes, archive : Archives,
        payload : Result]

Options == {"cached", "force_rescan", "no_cache"}

TypeOK ==
    /\ served \in [ReleaseSet -> Archives] /\ disk \in Codes
    /\ rows \subseteq Row
    /\ \A r, s \in rows : r # s => <<r.release, r.stage, r.version>> # <<s.release, s.stage, s.version>>
    /\ pc \in [Processes -> {"idle", "get_behavior", "put_behavior", "get_diff", "load_previous",
                              "put_diff", "get_indicators", "put_indicators", "done"}]
    /\ call \in [Processes -> [release : ReleaseSet, option : Options, archive : Archives]]
    /\ loaded \in [Processes -> Codes]
    /\ used \in [Processes -> [Stages -> SUBSET [result : Result, outlived : BOOLEAN]]]
    /\ analysed \subseteq ReleaseSet /\ moved \in BOOLEAN /\ failed \in BOOLEAN
    /\ calls \in 0..MaxCalls /\ events \in 0..MaxEvents

Nothing == [s \in Stages |-> {}]

Init ==
    /\ served \in [ReleaseSet -> Archives]
    /\ disk = [m \in Modules |-> 1]
    /\ rows = {}
    /\ pc = [p \in Processes |-> "idle"]
    /\ call = [p \in Processes |-> [release |-> "current", option |-> "cached",
                                    archive |-> served["current"]]]
    /\ loaded = [p \in Processes |-> disk]
    /\ used = [p \in Processes |-> Nothing]
    /\ analysed = {} /\ moved = FALSE /\ failed = FALSE
    /\ calls = 0 /\ events = 0

----------------------------------------------------------------------------
(* StageCache.get, put and invalidate *)

\* Something out of the ordinary happens.
Event == events < MaxEvents /\ events' = events + 1

\* stage_version_for: the hash of the files a stage depends on, as on disk now.
StageVersion(stage) == [m \in Modules |-> IF m \in StageDeps[stage] THEN disk[m] ELSE 1]

\* A plausible bug: a row made by other code counts.
BugFound(release, stage, archive) ==
    {r \in rows : r.release = release /\ r.stage = stage /\ archive \in {NoArchive, r.archive}}

\* The row get returns, if any; NoArchive stands for archive_sha256=None.
Found(release, stage, archive) ==
    {r \in rows : /\ r.release = release /\ r.stage = stage /\ r.version = StageVersion(stage)
                  /\ archive \in {NoArchive, r.archive}}

\* INSERT ... ON CONFLICT DO UPDATE.
Stored(row) ==
    {r \in rows : <<r.release, r.stage, r.version>> # <<row.release, row.stage, row.version>>}
    \union {row}

RowFor(p, stage, result) ==
    [release |-> call[p].release, stage |-> stage, version |-> StageVersion(stage),
     archive |-> call[p].archive, payload |-> result]

\* Rows are deleted by any combination of release and stage.
Invalidate ==
    \E releases \in {{r} : r \in ReleaseSet} \union {ReleaseSet},
       stages \in {{s} : s \in Stages} \union {Stages} :
        /\ \E r \in rows : r.release \in releases /\ r.stage \in stages
        /\ rows' = {r \in rows : r.release \notin releases \/ r.stage \notin stages}
        /\ Event
        /\ UNCHANGED <<served, disk, pc, call, loaded, used, history, calls>>

----------------------------------------------------------------------------
(* One call of run_pipeline *)

Goto(p, where) == pc' = [pc EXCEPT ![p] = where]


\* The call goes on with a result.  A history notes whether the code that made it,
\* or the code that uses it, is older than the files hashed at that moment.
Older(code, version, stage) == \E m \in StageDeps[stage] : code[m] # version[m]
Use(p, stage, result, outlived) ==
    used' = [used EXCEPT ![p][stage] = {[result |-> result, outlived |-> outlived]}]

Start(p) ==
    /\ pc[p] \in {"idle", "done"} /\ calls < MaxCalls /\ calls' = calls + 1
    /\ \E release \in ReleaseSet, option \in Options :
           call' = [call EXCEPT ![p] = [release |-> release, option |-> option,
                                        archive |-> served[release]]]
    /\ used' = [used EXCEPT ![p] = Nothing]
    /\ Goto(p, "get_behavior")
    /\ UNCHANGED <<served, disk, rows, loaded, history, events>>

\* The lookup every cached stage begins with.  force_rescan and use_cache=False
\* skip it.
Lookup(p, stage) ==
    IF call[p].option = "cached" THEN Found(call[p].release, stage, call[p].archive) ELSE {}

Get(p, stage, hit, miss) ==
    /\ \/ \E r \in Lookup(p, stage) :
              /\ Use(p, stage, r.payload, \/ Older(r.payload.by, r.version, stage)
                                          \/ Older(loaded[p], disk, stage))
              /\ Goto(p, hit)
       \/ Lookup(p, stage) = {} /\ Goto(p, miss) /\ UNCHANGED used
    /\ UNCHANGED <<served, disk, rows, call, loaded, history, budget>>

\* A statement of a stage fails and the call goes on, without its result if it had none.
Broken(p, next) ==
    /\ call[p].option # "no_cache" /\ Event /\ Goto(p, next)
    /\ UNCHANGED <<served, disk, rows, call, loaded, used, history, calls>>

Computed(p) == [of |-> call[p].archive, with |-> NoArchive, manifests |-> FALSE, by |-> loaded[p]]

\* Stage 2: a database failure ends the call with ERROR.
GetBehavior(p) ==
    /\ pc[p] = "get_behavior"
    /\ \/ Get(p, "behavior", "get_diff", "put_behavior")
       \/ call[p].option = "cached" /\ Broken(p, "done")

PutBehavior(p) ==
    /\ pc[p] = "put_behavior"
    /\ \/ /\ Use(p, "behavior", Computed(p), FALSE) /\ Goto(p, "get_diff")
          /\ IF call[p].option = "no_cache" THEN UNCHANGED <<rows, analysed>>
             ELSE /\ rows' = Stored(RowFor(p, "behavior", Computed(p)))
                  /\ analysed' = analysed \union {call[p].release}
          /\ UNCHANGED <<served, disk, call, loaded, moved, failed, budget>>
       \/ Broken(p, "done")

\* Stage 3B: a failing get leaves the call without a diff.
GetDiff(p) ==
    /\ pc[p] = "get_diff"
    /\ \/ Get(p, "diff", "get_indicators", "load_previous")
       \/ call[p].option = "cached" /\ Broken(p, "get_indicators")

\* A plausible bug: the cached behaviour is that of the release under analysis.
BugCachedPrevious(release) == Found("current", "behavior", NoArchive)

\* _try_load_cached_prev: its behaviour, of whatever archive it was.
CachedPrevious(release) == Found(release, "behavior", NoArchive)

Compared(p, with, manifests) ==
    Use(p, "diff", [Computed(p) EXCEPT !.with = with, !.manifests = manifests], FALSE)

\* analyze_full_diff: the previous release from the cache, or downloaded (also when
\* reading the cache fails), or an error that is a result like any other.
LoadPrevious(p) ==
    /\ pc[p] = "load_previous" /\ Goto(p, "put_diff")
    /\ LET earlier == PickPrevious(Releases, call[p].release)
           cached == CachedPrevious(earlier[1])
           Download == Compared(p, served[earlier[1]], TRUE) /\ UNCHANGED failed
       IN  \/ earlier = <<>> /\ Compared(p, NoArchive, FALSE) /\ UNCHANGED <<failed, events>>
           \/ /\ earlier # <<>> /\ UNCHANGED <<failed, events>>
              /\ \E r \in cached : Compared(p, r.payload.of, FALSE)
           \/ earlier # <<>> /\ cached = {} /\ Download /\ UNCHANGED events
           \/ earlier # <<>> /\ cached # {} /\ Event /\ Download
           \/ /\ earlier # <<>> /\ cached = {} /\ Event
              /\ Compared(p, NoArchive, FALSE) /\ failed' = TRUE
    /\ UNCHANGED <<served, disk, rows, call, loaded, analysed, moved, calls>>

\* The put of any later stage: a failure is ignored.
Put(p, stage, result, next) ==
    /\ Goto(p, next)
    /\ \/ call[p].option = "no_cache" /\ UNCHANGED <<rows, events>>
       \/ /\ call[p].option # "no_cache" /\ UNCHANGED events
          /\ rows' = Stored(RowFor(p, stage, result))
       \/ call[p].option # "no_cache" /\ Event /\ UNCHANGED rows
    /\ UNCHANGED <<served, disk, call, loaded, history, calls>>

PutDiff(p) ==
    /\ pc[p] = "put_diff" /\ UNCHANGED used
    /\ \E u \in used[p]["diff"] : Put(p, "diff", u.result, "get_indicators")

GetIndicators(p) ==
    /\ pc[p] = "get_indicators"
    /\ \/ Get(p, "indicators", "done", "put_indicators")
       \/ call[p].option = "cached" /\ Broken(p, "done")

PutIndicators(p) ==
    /\ pc[p] = "put_indicators" /\ Use(p, "indicators", Computed(p), FALSE)
    /\ Put(p, "indicators", Computed(p), "done")

----------------------------------------------------------------------------
(* Around the calls *)

Restart(p) ==
    /\ pc[p] # "idle" \/ loaded[p] # disk
    /\ loaded' = [loaded EXCEPT ![p] = disk]
    /\ Goto(p, "idle")
    /\ used' = [used EXCEPT ![p] = Nothing]
    /\ UNCHANGED <<served, disk, rows, call, history, budget>>

Upgrade ==
    /\ Event
    /\ \E m \in Modules : disk' = [disk EXCEPT ![m] = @ + 1]
    /\ UNCHANGED <<served, rows, pc, call, loaded, used, history, calls>>

Republish ==
    /\ Event
    /\ \E release \in ReleaseSet, a \in Archives :
           /\ a # served[release]
           /\ served' = [served EXCEPT ![release] = a]
           /\ moved' = (moved \/ release = "previous")
    /\ UNCHANGED <<disk, rows, pc, call, loaded, used, analysed, failed, calls>>

Next ==
    \/ \E p \in Processes : \/ Start(p) \/ GetBehavior(p) \/ PutBehavior(p) \/ GetDiff(p)
                            \/ LoadPrevious(p) \/ PutDiff(p) \/ GetIndicators(p)
                            \/ PutIndicators(p) \/ Restart(p)
    \/ Invalidate \/ Upgrade \/ Republish

Spec == Init /\ [][Next]_vars

----------------------------------------------------------------------------
(* Properties *)

\* Whatever was stored, replaced, republished or upgraded meanwhile, a call works
\* with results of the archive it downloaded itself, made by the code it runs -
\* unless the process that stored one, or this one, outlived an upgrade of it.
ResultsAreOwn ==
    \A p \in Processes, stage \in Stages : \A u \in used[p][stage] :
        /\ u.result.of = call[p].archive
        /\ u.outlived \/ ~Older(u.result.by, loaded[p], stage)

Severity(result) ==
    OverallSeverity(Contents[result.with], Contents[result.of], result.manifests)
FreshSeverity(p, manifests) ==
    OverallSeverity(Contents[served["previous"]], Contents[call[p].archive], manifests)

\* The diff of a release, cached or not, says of it what a comparison with the
\* previous release as the registry serves it would say.  It does not when a
\* download failed (the error is cached), when the previous release was
\* republished, and - its dependencies then count for nothing - when the previous
\* release was itself analysed before.
DiffAsIfFresh ==
    \A p \in Processes : \A u \in used[p]["diff"] :
        call[p].release = "current" =>
            \/ moved
            \/ failed /\ u.result.with = NoArchive
            \/ /\ u.result.with # NoArchive
               /\ \/ Severity(u.result) = FreshSeverity(p, TRUE)
                  \/ "previous" \in analysed /\ Severity(u.result) = FreshSeverity(p, FALSE)
============================================================================
