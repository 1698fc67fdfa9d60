# TLA+ development of pkgSentinel

pkgSentinel scans packages of PyPI and npm for supply-chain attacks: a monitor
watches the registries and queues new releases, workers take them from the queue
and run an analysis pipeline over them, the pipeline gathers evidence and decides
a verdict, caches answer repeated questions, and sinks and an HTTP API carry the
verdicts away. This directory holds TLA+ models of the parts in which order,
failure and concurrency decide whether the result is right, the TLC
configurations that check them on small instances, and TLAPS proofs for every
value of the constants. Everything is translated from the Python sources under
`src/pkgsentinel`; paths below are relative to that directory unless they name
another top-level directory. `PROJECT.json` maps each definition to its lines.

## 1. Inventory

| Component | State | Operations | What is hard | What makes it correct |
|---|---|---|---|---|
| scan queue, `monitor/priority_queue.py` | table `scan_queue`: priority, `locked_by`, `locked_at`, `completed_at`, `result` | enqueue, lock_next, complete, abandon, reset_stuck, stats (fail and purge_completed have no caller) | several processes, one autocommitted statement each; locks that time out; ids that return | a row is in one hand unless its lock was reset; completed is final; a result is an outcome exactly when completed |
| worker, `monitor/worker.py` | the job in hand, its verdict, how far the sinks are | run_worker, process_one, _emit_sinks | kills between alerts and completion, slow analyses, sinks and statements that raise, exit on an empty queue | alerts precede the OK; duplicates have a cause; every row is completed |
| PyPI watcher, `monitor/pypi_watcher.py` | cursor `watcher.pypi.last_serial` | poll_once: changelog, RSS, enqueue | overlapping polls, cursor saved first, truncation | a release is lost or doubled only for a known cause |
| npm watcher, `monitor/npm_watcher.py` | cursor `watcher.npm.last_seq` | poll_once: changes, metadata, enqueue | overlapping polls, kills, pages | the cursor passes nothing that is not covered |
| `monitor/cron_main.py`, systemd units | none | start watchers, workers, refreshes | which processes are started again | see fairness |
| threat database, `db/threat_db.py` | all tables, triggers, autocommit | cursor, get_meta, set_meta | pseudo-transactions, triggers | (carried by its users) |
| analysis cache, `db/analysis_cache.py`, `db/integrity.py` | table `analyses`, `cache_invalidation_log` | get, put, invalidate | the archive, the advisories and the rules change while a report is made or looked up | a hit is of the archive, the advisories and the rules of now, or there is a known reason |
| stage cache, `db/stage_cache.py` | table `stage_cache`, the code each process has loaded | get, put, invalidate | errors are cached too; upgrades under running processes; rows of two releases | a cached result is of the archive and the code of the call |
| pipeline, `pipeline.py` | evidence, diff, matches, stage results of a call | run_pipeline, stages 0 to 9 | many early returns, failing stages, two caches | no partial judgement is given or stored; findings reach the verdict |
| verdict rules, `verdict_rules.py`, `schema.py`, `evidence/*` | none (pure) | decide_verdict, converters | thresholds, dilution by weak findings | monotone in the evidence |
| LLM review, `stages/stage5_*.py` | votes | review, review_multi, consensus | agents fail one by one | two alarmed agents are heard |
| agentic classification, `agentic/*`, `stages/stage_agentic.py` | none (pure) | signals, capabilities, manifest, rules R1 to R5, classify | a manifest that excuses findings; ends a call early | no manifest excuses what the code does; declaring less never pays |
| filters, stages 0A and 0B, `knowledge/attack_index.py` | in-memory index, known lists | run, lookup | names in several spellings, live updates | a listed package is reported |
| version diff, `stages/stage3b_full_diff.py`, `stages/stage3_version_diff.py` | none, rows of the stage cache | pick the previous release, compare files, entry points, dependencies | what came from the cache has no manifest | at least as severe as the comparison it replaced |
| taint slicer, `stages/taint_slicer.py` | tainted names, exports of the files read | analyze_python, cross-file analyses for Python and JavaScript | order of statements and imports, reassignment, ambiguous names | a leak along followed steps is reported; a report was true once |
| stages 4 to 4E, `stages/stage4_*.py`, `stages/indicator_matcher.py`, `stages/sequence_patterns.py`, `knowledge/anomaly_baseline.py`, `knowledge/malicious_indicators.py` | none (pure) | techniques, anomalies, indicators, call patterns | greedy matching, one failing match fails all | no pattern is missed; evidence of a file is of that file |
| other stages 1 to 2B | none | extraction, behaviour, strings | each may raise | a required one that raises ends in ERROR |
| dependency walk, `stages/stage_dependency.py` | work list, visited names, process-wide registry cache | analyze_dependencies | cycles, limits, failed requests remembered for ever | affected dependencies are reported, nearest first; blame has a cause |
| runtime intelligence, `db/runtime_intel.py`, `api/runtime_alert.py`, `api/auth.py`, `api/iocs_export.py`, `intel/*` | observations, learned IOCs, rule drafts, nonces of each process, watermark of a client | alert handler, upsert_ioc, auto_promote, approvals, export | concurrent alerts, partial failure, retries, clocks | counters are those of the observations; approved means due; nothing doubled or missed without a cause |
| feeds, `feeds/*` | `known_malicious`, `known_popular`, `feed_meta` | ingest, run_all | row by row, crashes, limits, failed downloads, two processes | what is skipped as unchanged is in the table; the tables catch up |
| supply-chain reports, `stages/stage_scorecard.py`, `stage_slsa.py`, `stage_ssdf.py`, `stage_vex.py` | none (pure) | scorecard, level, practices, VEX | missing answers | the reports do not contradict each other |
| sinks and reporting, `realtime/sinks/*`, `reporting/*` | `sink_log` | policies, STIX bundles, Falco and Tetragon rules, webhook, bill of materials | several consumers of one verdict, repeated emission | consumers agree; bundles are closed; a report sent again supersedes itself |
| HTTP server, command line, adapter, clients, benchmarks, master key | small or none | formatting, I/O, cryptography | little | not modelled |

Interactions. Watchers write `scan_queue` through the queue and their cursors
through `schema_meta`; workers read the queue, call `run_pipeline`, then the
sinks, then the queue again; the analyze API asks the analysis cache and calls
`run_pipeline` on a miss; `run_pipeline` asks the analysis cache (with the
archive URL) and the stage cache, and fills both; feed refreshes insert into
`known_malicious`, whose trigger writes the invalidation log that the cache reads.
All of them are separate processes over one SQLite file, opened with
`isolation_level=None` (`db/threat_db.py:370`): each statement is a transaction.
Hence the grain of the models: one action per statement or external call.

The behaviours that are hard to test are listed, each at its line, under
`hazards` in `PROJECT.json`.

## 2. Modules

| Module | Models | Proofs |
|---|---|---|
| `ScanLedger` | the abstract promise of queue and workers: outcomes come after the alerts they call for | |
| `ScanQueue` | `scan_queue`, the worker loop, kills, restarts | `ScanQueueProofs` |
| `AnalysisCache` | the report cache of one package version, its two callers, the changing world | `AnalysisCacheProofs` |
| `PypiWatcher` | `poll_once` of PyPI with overlapping polls | `PypiWatcherProofs` |
| `NpmWatcher` | `poll_once` of npm with overlapping polls | `NpmWatcherProofs` |
| `VerdictRules` | decide_verdict, the consensus, the converters, as pure operators | in `PipelineProofs` |
| `Pipeline` | run_pipeline over `VerdictRules`, with the report and the diff kept between calls | `PipelineProofs` |
| `AlertIntake` | what an alert is turned into: indicators, pattern, drafts, as pure operators | |
| `RuntimeIntel` | alert handlers over the shared store, operators, the exporting client; composed with `AlertIntake` | `RuntimeIntelProofs` |
| `VersionDiff` | the two comparisons of releases, as pure operators | in `StageCacheProofs` |
| `StageCache` | the stage cache under concurrent calls and upgrades, over `VersionDiff` | `StageCacheProofs` |
| `FeedRefresh` | the refresh of the feeds, by timer and by hand | in `RuleProofs` |
| `DependencyWalk` | the walk over dependencies, with what a process remembers of the registry | in `RuleProofs` |
| `TaintSlicer` | the taint analyses beside what the program really does | in `RuleProofs` |
| `AgenticRules` | stage 1C, as pure operators | in `RuleProofs` |
| `Indicators` | stages 4, 4B, 4C and 4E, as pure operators over `VerdictRules` | in `RuleProofs` |
| `SupplyChain` | stages 0C, 0D and SSDF, as pure operators | in `RuleProofs` |
| `Outputs` | what each consumer of a report is told, as pure operators | in `RuleProofs` |
| `MC...` | the instances TLC checks | |

Operators named `Bug...` are plausible bugs of the definition they precede. The
specifications do not use them; substituted for that definition they break a
property, which shows that the property depends on the code.

### ScanQueue

A row is its columns: `prio`, `lockedBy` (`locked_at` is NULL exactly when it is
`NoWorker`), `age` (ticks since `locked_at`), `completed`, `result`. A worker is a
program counter through `run_worker` and `process_one`:
`top` (reset_stuck) - `lock` (lock_next: `Resume`, `Take` or `Idle`) - `scan`
(run_pipeline) - `emit` (one step per sink) - `complete` or `abandon` - `top`.
`ResetStuck` unlocks whatever is old, alive or not; `Settle` writes by id only,
as `complete` and `abandon` do. `CompleteRaises` is the handler that abandons a
row after its alerts have gone out. `Crash` may come at any step; the lock stays.
`Start` brings a worker back under the same id. `sent`, `wasReset` and `dropped`
are history. `Loop` and `RestartClean` say how the worker is deployed: cron
(`--max N`, started again), the daemon of `deploy/systemd` (`--loop`), or
`examples/systemd` (`--max 50`, restarted only on failure).

`KeepsLedger` shows that all this implements `ScanLedger`, with
`alerted = {<<j, s>> : sent[j][s] >= 1}`. The ledger promises at-least-once alerts
before the outcome and, deliberately, no more: a reset row may be reported twice
and have its outcome overwritten.

### AnalysisCache

One package version. A report is abstracted to what it was made from: the
archive, the rules, and when stage 0A looked for advisories. `get` is `Fetch`
(version, mode, TTL), `CheckLog` (the invalidation log), `CheckArchive` (download,
compare, and in mode paranoid the HMAC), and either a miss or an `answer`; `put` is the
fingerprint (another download, at the end of `Analyze`) and `Store`. The HMAC is a column
of the row: put fills it in mode paranoid, and a lookup verifies it only where it is
present. Around them the registry republishes, advisories are listed (in the spelling of
the requests or in another), rules are upgraded under running processes, any column of a
row is altered (`Alter`, its HMAC and `analyzed_at` included), and `invalidate` runs in
its two statements. Log entries carry the format of their
time stamp, since the comparison is of texts: an entry written with
CURRENT_TIMESTAMP is later than `analyzed_at` only on a later day.

### PypiWatcher, NpmWatcher

One action per call: read the cursor, fetch, save, cut, one INSERT at a time. The
two differ in the order: PyPI saves the cursor before enqueueing, npm after. Polls
are started by timers that do not exclude each other. Entries of the feed are
named by their serial. `lost` and `excused` are history: what a cut, a failing
lookup or insert, or a kill has cost.

### VerdictRules, Pipeline

`Evidence` keeps the five fields decide_verdict reads; confidences and
similarities are percentages. Each converter is an operator that gives the
evidence it makes. `Pipeline` takes a call through the stages in order; what a
stage finds is chosen freely from what its converter can make, a stage that is
not required may stop anywhere, a required one that fails ends the call with
ERROR. `stored` is the report the analysis cache keeps, `kept` the stage-3B
result of the stage cache, errors included. The validity of `stored` is the
matter of `AnalysisCache` and chosen freely here. Stages 0C, 0D, 4D and SSDF
change neither evidence nor control and are left out.

### RuntimeIntel, AlertIntake

A handler is a program counter through the checks of `api/auth.py` and the
statements of `handle_runtime_alert`: look for the nonce, record the observation,
then for each indicator read the row, write it, read it again to judge it,
approve it, then the drafts, then the index in memory. Each statement may fail,
which ends the request with what it has done so far, and the sensor may deliver
again. Nonces and index are of a process and go with it. `upsert_ioc` and
`auto_promote` read in one transaction and write in another: that is where two
handlers meet. A row keeps `sources`, the observations its count stands for;
`learned`, `overlapped`, `orphaned`, `manual`, `late`, `cut` and `forgot` are
history. The client takes from an export the largest stamp as its next watermark.

`AlertIntake` gives for each event a parser can produce the indicators, their
confidence, the pattern and the drafts; `MCRuntimeIntel` takes the alerts from it.

### VersionDiff, StageCache

A release is the APIs each of its files calls, the files that run first, shell
keywords, and dependencies. `OverallSeverity` is the stage the pipeline runs,
`PackageWideRisk` the one it replaced. `StageCache` runs calls through stage 2, stage
3B and a later stage over the shared rows: get and put read the hash of the files
on *disk*, results are made by the code *loaded* at the start of the process. The
diff takes the previous release from the rows of stage 2 if it can (then without a
manifest), else downloads it; an error is stored like a result. `used` is what each
call works with; `outlived`, `moved`, `failed`, `analysed` are history.

### FeedRefresh

One action per download, row and record of the digest; `run_all` goes through the
feeds in order (`Now` is the first of those left), and an unreadable archive ends it. A
dump is a sequence of rows, of an advisory archive each with its sizes, packed and not:
`refused` are those the unzip skips as oversized or too dense (`PassedOver`), fails to
parse, or never reaches because the total has grown too large (`Unpacked`). `Kept` is the
rest, and `ToLoad` the places in it that one load upserts, in order, up to the limit. The
digest is that of the whole dump, refused rows or not, and written last. Crashes leave what has been
written. `dirty`, `disturbed` and `spoilt` remember overlapping loads, limits and
interrupted reloads.

### DependencyWalk

`ExtractDependencies` turns the manifests of a project into dependencies, in the order of
the code, groups and included groups flattened. A requirement has what its specifier
accepts (`spec`) beside what the code makes of it: the text taken for a pin (`pin`, which
is `Loose` for "1.x") and what the part that is kept and can be read accepts (`read`).
The registry has of each name a list of versions and the one it calls the latest, and
either may be empty. The walk takes the head of the work list, resolves a version (asking
the registry, or remembering), judges it against the advisories, and appends the
dependencies of that version with a name not seen yet (`Expands`, `Unseen`). Answers, and
failures, are kept by name for the life of the process, while the registry goes on
publishing and withdrawing (`Release`, `Withdraw`); `failed` and `nameless` remember whose
request failed and who had no latest version. The property compares the results with what
is meant: `Declared` is all that the manifests name, `Installed` the largest published
version that a specifier accepts (what pip takes; npm takes the latest instead when that
is in the range), `Tree` the ends of the chains of such versions (`LeadsOn`) within the
depth. `Hindered` and `Understood` name what the property excepts: faults and
conflicts in one, specifiers that the code cuts, misreads or cannot read in the other.

### TaintSlicer

The program is built statement by statement by the actions, and read by the slicer
at the same time: `tainted`, `exports` and `flows` are its variables; `leaks`
(sinks reached through followed steps) and `ever` (what a name may have held, in any
scope) are what the program really does. The order of statements is the order of
the text; the three analyses (Python, JavaScript, JavaScript across files) differ
in which steps they take. `Route` says where a call takes its taint from: a method call
from its receiver, a transformation from its arguments. Hence `Recode`, `x = y.encode()`
or `.decode()`, passes data on in the program and nothing in the slicer: it is a
step of its own, and none of those followed.

### AgenticRules, Indicators, SupplyChain, Outputs

These components compute once and keep no state: there is nothing to run, and the
modules are pure operators with theorems for all inputs instead of instances
(section 4). `AgenticRules` abstracts a file to its capabilities, traits and
functions; `Indicators` to the sequence of its calls and the text patterns in it;
`SupplyChain` takes metadata, archive and Scorecard answer; `Outputs` takes a report.
The regular expressions and syntax-tree visits that find a trait or a text are
outside; everything decided from them is inside.

## 3. What the runs show

| Run | Instance | Shows |
|---|---|---|
| `scan_queue` | 2 looping workers, 2 rows, 2 priorities, 2 sinks, 1 kill, locks stuck after 1 tick; symmetry in the workers; 1.3 million states | `ExclusiveUnlessReset`, `AlertedBeforeOK`, `DuplicateAlertHasFault`, `OutcomeIffCompleted`, `CompletedIsFinal`, `KeepsLedger` |
| `scan_queue_cron` | workers that take one job and are started again, 1 sink, fair | `EveryRowCompletes` |
| `analysis_cache` | 2 processes, 2 archives, 2 rule versions, an advisory in either spelling, strict and paranoid, 3 calls, 1 change around them, 3 instants on 2 days, rows altered in any column; 4.1 million states | `FreshUnlessMoved`, `HiddenAdvisoryHasCause`, `RulesUnlessUpgraded`, `ParanoidSeesAlteration` |
| `analysis_cache_advisory` | one advisory, spelt as the requests | violated: `AdvisoryInvalidates` |
| `pypi_watcher` | 2 polls, 3 entries about 2 releases or something else, 1 event per poll, 1 fault | `LossHasCause`, `AtMostOnce`, `MovesBackByOverlap` |
| `npm_watcher` | 2 polls, 2 packages, 3 entries, pages of 1, 1 fault, fair | `NothingSkipped`, `CatchesUp` |
| `pipeline` | 2 calls, 1 fault, 1 match, 1 optional finding, values at and on either side of each threshold; 10 million states | `EvidenceDecides`, `StoredIsComplete`, `AgentsHeard`, `RiskyUpdateReported` |
| `runtime_intel` | 2 server processes with a handler each, 2 alerts, 2 indicators, 1 draft, 3 alerts, failures, restarts or approvals, 3 instants | `RowIsItsSources`, `CountedUnlessOverlapped`, `ApprovedIffDue`, `DuplicateHasCause`, `MissHasCause` |
| `stage_cache` | 2 processes, a harmless and a risky archive of 2 releases, 2 calls, 2 republications, upgrades, failures or invalidations; 4.9 million states | `ResultsAreOwn`, `DiffAsIfFresh` |
| `feed_refresh` | the timer's process and one by hand, 2 feeds, dumps that are unreadable, cut, have entries that are refused or name a key twice, 1 crash, fair | `SkipHidesOnlyTheRefused`, `CatchesUp` |
| `dependency_walk` | 8 projects of both ecosystems, with pins (one on a version that was never published), ranges and specifiers that are cut, misread or not read; 6 names in 3 versions with a cycle and a name without versions; depth 2, 3 packages, 2 walks, 2 failed requests, 1 version published or withdrawn | `AffectedIsReported`, `BlameHasCause`, `NearestFirst` |
| `taint` | every program of up to 5 statements over 2 names in 4 files, each analysis | `LeaksAreReported`, `FlowsWereReal` |

Six runs (`analysis_cache`, `pypi_watcher`, `pipeline`, `runtime_intel`,
`feed_refresh`, `dependency_walk`) check their type invariant too (`TypeOK`, in the last
two `FeedTypeOK` and `WalkTypeOK`); it is proved for every specification.

Why the bounds are enough. The hazards of the queue need a slow or dead worker,
another to take its row, and a second row to show that order matters: two of
each. Two sinks tell "all" from "the first". One kill is the worst a single row
meets before it is finished; the proofs hold for any number. The cache needs a
writer and a reader, an old and a new value of each thing that changes, and a
third call that reads what the second wrote; two days are needed because of the
stamps of two formats. Three feed entries with a limit of one let a poll be cut
while another moves on. Two calls of the pipeline are one that fills the caches and
one that reads them; two optional findings come from stage 0A, which reports
several at once. Two alerts that share an indicator, in two processes, are what a
lost update needs; three events allow an alert, its retry and a failure, restart or
approval between them; a nonce table of one entry overflows with the second alert. A
stage result needs one call that stores it and one that finds it, and two events put
an upgrade or a republication on either side. The first refresh, an unreadable dump
and a reload are three dumps of one feed; a second feed shows that the first may
hold it up. A cycle, a name at two depths and an unlisted chain to a listed name
fit into three names, three more are of the other ecosystem; two walks are one that fails and one that remembers it. Five
statements are a source in an imported file, an import, a copy, an overwriting
assignment and a sink.

Deadlock checking is off where the system ends: the calls of the pipeline and of the
stage cache, the walks and the statements of a program are bounded. Every other run
checks for deadlock.

### Fairness

- A process that runs gets its turns (`WF` on the steps of each worker, poll or
  refresh): the operating system schedules it, and every call has a timeout or
  returns.
- Time passes while it matters (`WF(Tick)`).
- Cron or the supervisor starts workers again (`WF` on `Start`), as far as the
  deployment does: `Start` after a clean exit needs `RestartClean`. It is fairness
  on "some worker", not on each.
- Timers keep starting polls and refreshes (`WF(Start(p))`, `WF(Daily)`,
  `deploy/systemd/*.timer`).
- A download that is tried again and again succeeds again and again, of each feed
  (`SF` in `FeedRefresh`): otherwise the feed is never refreshed, whatever the code
  does.

Kills and failures are bounded and never fair: nothing forces them, and after the
last one the system must recover.

### Disagreements with the documentation

The violation run states what a comment says and finds the code doing otherwise: a
new advisory "invalidates at the next get" (`db/analysis_cache.py:15`), but not one
inserted while the report was being made, since the row is stamped at put.
`HiddenAdvisoryHasCause` is the exact promise that remains. `findings` in
`PROJECT.json` quotes the lines.

The others met while modelling, by component, have no run of their own: for most the
checked properties say what remains true.

Queue and watchers.

- "N workers are safe" (`docs/architecture.md:503`): a worker slower than the limit of
  reset_stuck shares its row with another (`ExclusiveUnlessReset` is what holds).
- The example systemd unit is described as long-running
  (`docs/architecture.md:497`), and leaves for good when the queue is empty:
  `EveryRowCompletes` needs `Loop` or `RestartClean`.
- What a poll of PyPI misses is caught up by the next
  (`deploy/systemd/pkgsentinel-watch-pypi.service:27`), except what `--max` cuts off
  after the cursor is saved. `LossHasCause` is the promise that remains. The RSS feed
  is polled on quiet polls too, not only on failures.
- `sink_log` records a push that the TAXII server refused as a success
  (`monitor/worker.py:111`).

Verdict and caches.

- "No partial judgement" (`verdict_rules.py:7`), except for a release without an
  archive URL (`pipeline.py:348`).
- AGENTIC is a documented verdict (`README.md:28` of the repository) that a package
  classified so does not get (`pipeline.py:492`); so the `warn` of the pmg policy for
  it is never written.
- The stored archive hash is that of a second download at put, not of the analysis
  (`db/threat_db.py:154`). A row stored in mode fast never matches an archive, as it
  keeps no ETag. Mode paranoid verifies the HMAC of a row only if there is one
  (`db/analysis_cache.py:211`): an altered row without it is answered
  (`ParanoidSeesAlteration`). The rules version omits `verdict_rules`, stages 4 and 5, the agentic
  rules and the attack index. The cache key does not hold the LLM mode
  (`docs/architecture.md:69`).
- INFO results of dependencies become evidence although the converter says only
  SUSPICIOUS and up (`evidence/converters.py:270`). `verdict_rules.py:12-13` says a
  strong match counts whatever the LLM says, the code asks for a verdict other than
  BENIGN. The consensus makes a single MALICIOUS vote SUSPICIOUS, a case its docstring
  does not list (`stages/stage5_multi_agent.py:374`). `docs/architecture.md:123`
  speaks of an average confidence where the code takes the maximum. Stage 0A ignores
  the version of an advisory.
- The key of a cached diff covers `stage3b` and `stage1b` only, and stage 4C depends on
  the registry's description and author and on the dependency extractor, which are in
  no key (`db/stage_cache.py:41`). The triggers delete rows of stages 0A and 0B, which
  are never stored. A diff that failed is kept like one that succeeded.
- A previous release taken from the cache has no manifest although
  `stages/stage3b_full_diff.py:370` says otherwise; the note that it came from the cache
  is overwritten (line 557); a file that grows by more than half is never compared for
  size. Stage 3 takes `nc` for execution, stage 2 for transmission.

Detectors.

- `agentic/classifier.py` uses the *declared* patterns where `agentic/rules.py:74` speaks
  of verified ones; the claim that declaring at least what is detected is required does
  not hold for minor capabilities. Without a manifest a package is AGENTIC only if no
  capability was detected. The manifest is the first file of that name anywhere in the
  archive; an `agentic` key that is no table makes the stage fail and the pipeline go
  on. The npm description is never read.
- `stages/taint_slicer.py:430` says module level only, the visitor descends into
  functions. An import matched by its suffix may be of the wrong module and loses the
  mark of a cross-file flow; the slice for the LLM uses a line number of the other file;
  the JavaScript cross-file analysis ignores sources of the file itself. The pipeline
  calls only `analyze_python`.
- `encode` and `decode` are listed among the steps that propagate taint, and the result
  of a method of a tainted receiver is said to be tainted (`stages/taint_slicer.py:66`,
  `290`), but a secret that is encoded by its own method and sent is not reported: the
  branch for transformations comes first and looks at arguments only (line 280). Without
  its condition on the route, `LeaksAreReported` is violated by `x = secret.encode()`.
- The "module-level call" of EXS-001 is any call in `__init__.py`. A `package.json` that
  is no object makes stage 4C fail. Stage 4 needs the embedding index even for its
  rules. The self-check of `knowledge/malicious_indicators.py` expects 47 indicators, of
  49.
- The dependency walk remembers a failed request for the life of the process, and without
  a version every advisory counts (`stages/stage_dependency.py:337`); a process that goes
  on never sees newer versions. `BlameHasCause` is what holds. Of a Python specifier only
  the first clause is kept (line 50), and an npm range of an unknown form falls to the
  latest version (line 650). "1.x", which line 529 describes as a range, is taken for a
  pinned version by line 331, and no advisory lists a version "1.x". `AffectedIsReported`
  holds of specifiers that are `Understood`; without that condition the walk over the
  project with "1.x" violates it.

Feeds, intelligence, outputs.

- A limited load records the digest of the whole dump, so the rest is skipped until the
  next dump; so do the entries that the unzip refuses (`feeds/osv.py:280`, `313`), and
  `SkipHidesOnlyTheRefused` is what holds. An unreadable archive ends `run_all` for the feeds after it. An advisory that
  names a package twice keeps the last. Rows are never deleted, and an update fires no
  trigger of the caches.
- The watermark an export suggests skips indicators approved after they were last seen
  (`MissHasCause`). `osv_export` files every package under npm. A webhook replayed within
  five minutes is accepted.
- A known-bad domain is not filtered by the trusted ones in Falco policies, whose list of
  trusted domains for strict mode is declared and not used; policy names are cut and
  folded, so that two may overwrite each other; the tracing policy kills shells and `curl`
  for any report. A cached answer has no evidence, hence no indicators and no
  vulnerabilities. Policies name the first fifty hosts of a report. Every emission stamps
  its STIX objects anew under the same ids; a new verdict is a new indicator, and the old
  one is neither renewed nor revoked (`SentAgainSupersedes`).

## 4. What is proved

Eight proof modules. Those about a specification hold for any values of the constants
that satisfy the assumption declared in the model (`QueueAssumption`, `CacheAssumption`,
`PypiAssumption`, `NpmAssumption`, `PipelineAssumption`, `IntelAssumption`,
`StageCacheAssumption`, `SlicerAssumption`, `FeedAssumption`, `WalkAssumption`,
`ManifestAssumption`: numbers are naturals, bounds are positive where zero makes no sense, the value for "none" is not a
worker or an archive, the integrity modes are those of the code, thresholds lie within
0..100, module paths are not empty and differ). Three conjuncts say more than a type, as
the code does: an alert names an indicator once (`api/runtime_alert.py` upserts the
extractor's deduplicated list); a signature expires before its nonce is swept
(`Window <= NonceTTL`); and what is extracted from
the manifests are dependencies, and all that are declared (`ManifestAssumption`:
`ExtractDependencies` is built on folds over the groups, of which the prover knows
nothing; TLC evaluates the assumption on the projects of the run, with groups that include
each other in a cycle. It holds for any groups because each group is expanded from its own
name too, so an include that is cut short loses nothing).

**ScanQueueProofs.** `TypeCorrect`, `Exclusion`, `AlertsComeFirst`,
`OutcomesOnCompleted`, `DuplicatesHaveCause`, `CompletedStays` and
`ImplementsLedger`. None of the safety properties is inductive alone. `IInv` adds
that a worker has a row exactly while it is in process_one and that the row was
inserted (`JobsArePresent`); that the sinks before the next one have been tried,
and all of them before complete (`AlertsInOrder`); and that an alert of an
undisturbed row was sent once, by the worker that still has the row or has
completed it (`AlertsAccounted`), which carries `DuplicateAlertHasFault` through
the step that takes a row. There is one lemma per action. The refinement is
proved step by step: `Enqueue` is Submit, `Emit` is Alert, `Complete` and `Abandon`
are Settle, everything else stutters.

**AnalysisCacheProofs.** `TypeCorrect`, `Fresh`, `HiddenHasCause`, `RulesAreThose` and
`ParanoidSees`: the invariants of the cache. The invariant follows a report from the
draft of an analysis (`Drafted`: it is of the archive now served, or the archive moved;
stage 0A looked before any advisory now listed came) to the row, if nobody altered it
(`Sound`: its hash is absent, or that of the report, or the archive moved; its rules are those of its maker,
or the modules were replaced), to the copy a lookup has fetched (`Fetched`) and to the
answer (`Answered`). `Logged` says that every listed advisory in the spelling of the
requests has an entry of its time in the log: it is what lets a lookup conclude from
a silent log. `AsideKeeps` shows once that no step of the world or of another process
breaks what holds of a process; there is one lemma per operation of a process. The
copies matter: a row that is replaced after `Fetch` is still the one that is checked.

**PypiWatcherProofs.** `TypeCorrect`, `LossesHaveCause`, `QueuedOnce` and `CursorMovesOn`.
The account is by serial: every entry the cursor has passed, or a poll has started from,
is `Safe` (its release is queued, lost for a cause, covered by RSS, or in the hands of a
poll that has saved its cursor), and every entry a poll is about to pass is safe or in
its batch (`Owes`). For a poll that was never overlapped, `Alone` and `InStep` add that
it starts where the cursor is and that nothing of its batch is queued before it puts
it. `Events` says that batches are about releases. `OldestAreFew` and
`NewestAreFew` bound what a cut keeps; `FirstIsThere` shows that the removal of
duplicates never takes a release's oldest entry.

**NpmWatcherProofs.** `TypeCorrect` and `NpmSkipsNothing`. The strengthening is an
account for each poll: every entry up to the cursor it will save is covered,
still to be looked up, or has a version in the batch. Covered entries stay covered
while feed and queue grow, whatever the other polls do, so saving cursors in any
order does no harm.

**PipelineProofs.** `JudgeMonotone`: the verdict of a set of evidence is at least
that of each subset. From it `VerdictIsDemanded`. Then `StoredComplete`,
`AgentsAreHeard` (with a lemma on what the consensus hears, over all votes of
three agents, and the arithmetic of match_confidence) and
`RiskyUpdatesAreReported`. `IInv` says which stage results a stage may rely on
(`Progress`, `Ended`), that each match two agents were alarmed about is backed by a
piece of evidence (`HeardIsBacked`), and that the diff of the call is the real
one unless stage 3B failed, and is carried by evidence once reviewed
(`DiffIsCarried`).

**RuntimeIntelProofs.** `TypeCorrect`, `RowsAreTheirSources`, `LostUpsertOverlapped`,
`ApprovedWhenDue`, `DuplicatesExplained` and `MissesExplained`: all invariants of the run,
for any number of processes, of handlers in each, and of alerts. The invariant has five
parts. `Control` says what a handler in the middle of an alert has recorded and what it
has left. `Shelves` gives the types of what the handlers share. `Tale` says of every row that its
columns tell of the same observations (`Stories`), and of every row a handler has *read*
that it has what was learned so far but for upserts known to overlap (`Read`); two handlers
about to write the same row have overlapped (`Rivalry`), and what is about to be
promoted is due (`Promoting`). `Memory` says that a process still has the nonce of each
alert it took in, or lost some, or took it in too long ago to matter (`Remembered`); hence
of two arrivals of the same alert one was ahead of its time stamp (`Distinct`). `Caught` is
the client: its watermark is never in the future. `DuplicateHasCause` was corrected on the way: with two handlers in one process
the alert recorded first may have been received last, which the run, with a handler
per process, cannot show.

**StageCacheProofs.** `Typed`, `OwnResults` and `DiffsAsIfFresh`. The invariant says that
every row holds a result of the archive it is filed under, made by code that was on disk
when its version was read or by a process that outlived an upgrade; that a call in the
middle of a get or a put has the result of its own archive in hand; and that the
previous release of a diff is a release. The lemma `Using` carries a row to a call,
`Storing` a result to a row, and there is one lemma per action. `DiffsAsIfFresh` needs
more: that the previous release a call holds is one that was served under its name
(`PreviousIsOwn`), and that each diff, in a call (`DiffsAreFaithful`) or in a row
(`RowsAreFaithful`), says what a comparison with such a release says, up to the
dependencies when it came from the cache. `Dominance`, about `VersionDiff` alone: the
file-by-file diff is at least as severe as the package-wide one it replaced, if the
previous release is among those compared, no entry point was another kind of file
before, and install scripts show no shell keyword.

**RuleProofs.** The taint slicer: `Typed`, `Complete` (`LeaksAreReported`, of steps that
are followed, which `Recode` is not) and `Sound` (`FlowsWereReal`), for programs of any
length. The invariant relates what the slicer
knows to what the program did: a name that holds data along followed steps is tainted
with some origin, every origin is among those the name ever held, and exports are true
of the files read. `Resolution` shows that an import whose name is unambiguous resolves
to that file.

The feeds: `FeedsTyped` and `SkippedIsLoaded` (`SkipHidesOnlyTheRefused`). The property speaks of
feeds at rest, so `FeedInv` adds what is true during a load: as long as no other
process writes the feed, the table has the rows loaded so far, of each key the last
(`InTable`). `WholeLoads` turns that into the property when the last row is in. The
number of processes, feeds, rows and crashes is arbitrary.

The dependency walk: `WalkTyped`, `BlameIsExplained`, `ReportedByDistance`
(`NearestFirst`) and `WalkIsComplete` (`AffectedIsReported`). `WalkInv` adds that what waits is ordered by distance and that
nothing is two steps behind (`Levels`), that nothing reported is further away than what
waits (`Behind`), that paths in the work list lead along results (`Chains`), and that an
answer without a latest version was a failed request or a registry that named none
(`Heard`). `CountedOff` is the lemma on
which the filtering of a list rests: the elements of a finite set of numbers can be
counted off (`RankIsUnique`: each in its own place). For completeness `Account` follows
every requirement: where it came from (`StemsFrom`: the project, or the remembered
dependencies of a result), what was made of it (`Judged`), and that what a result
requires is reported or waits no further than one step behind it (`Followed`). When the
work list is empty and there is no excuse, two arguments by least counterexample close
the proof: every result is what is meant at the end of a chain
(`ResultsAreInstalled`, by the length of its path), and every link of a chain within the
depth has a result (`LinksAreReported`). The property was corrected on the way: a
pin on a version that was never published keeps the name from being walked at the
version another requirement means, so `Hindered` names requirements that no published
version satisfies, and the run has a project with one.

The pure modules, for all inputs:

- `UnderDeclaringNeverPays`, `NothingExcusesTheCode`, `UnverifiedExcusesNothing`,
  `ConsentIsInformed`: what a manifest can and cannot do to the classification.
- `PatternsAreRuled`, `GreedyMissesNothing`: a call pattern implies the techniques it
  stands for; the greedy matcher finds a pattern whenever some choice of cuts exists
  (the matcher is a recursive function, and the proof goes through an increasing
  sequence of cuts).
- `CategoriesDifferInReading`: which differences between package categories matter.
- `DecisiveFires`, `FileLocal`: indicators and the evidence about a file.
- `PracticesAgree`, `RisksAreFailures`, `SilenceIsNoFailure`: the SSDF and Scorecard reports.
- `ConsumersAgree`, `BundleIsClosed`, `SentAgainSupersedes`: what consumers are told.
  A STIX object is its id and the stamps an emission gives it.

Only model-checked: liveness (`EveryRowCompletes`, `CatchesUp` of the npm watcher and of
the feeds), which needs ENABLED and is outside the prover. Every safety property of a
passing run, the action properties and the refinement included, is a theorem. No theorem
rests on a recursive operator; the only induction over data is the well-foundedness of the
naturals, used for least elements of sets of numbers.

## 5. Not modelled

Cryptography (master key, HMAC, encryption at rest), text and network formats, the
parsing of archives and languages (hence the visitors behind stages 2 and 2B and the
regular expressions behind every detector), embeddings and other numerical matching,
prompts, the command line, the HTTP routing, the adapter, the editor and browser clients,
benchmarks and evaluation scripts: pure I/O, or computation without a state that other
parts rely on. `components` in `PROJECT.json` gives the reason for each.

## 6. Plan

Built so far, in this order: the queue and its workers (what the monitor exists for), the
report cache, the watchers, the pipeline and its verdict, the runtime intelligence loop,
the stage cache with the diff, the feeds, the dependency walk, the taint slicer, and the
pure rules of the detectors and outputs. Left, in this order:

1. A composition of queue, pipeline and cache: what a worker alerts on, given what
   the cache may answer.
2. The request cache of the VS Code extension.
