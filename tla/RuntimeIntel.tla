---------------------------- MODULE RuntimeIntel ----------------------------
(***************************************************************************)
(* The runtime intelligence loop: sensors post signed alerts, a handler of *)
(* a server process checks them (api/auth.py), records an observation,     *)
(* upserts and promotes each indicator of it, records rule drafts and      *)
(* updates the index in memory (api/runtime_alert.py); operators approve   *)
(* indicators and drafts (intel/cli.py), and a client pulls the approved   *)
(* indicators by watermark (api/iocs_export.py).                           *)
(*                                                                         *)
(* The store (db/runtime_intel.py) is one SQLite file shared by the        *)
(* processes; each statement is a transaction of its own, so that          *)
(* upsert_ioc and auto_promote read in one step and write in another.      *)
(***************************************************************************)
EXTENDS Integers, Sequences, FiniteSets

CONSTANTS
    Handlers,       \* threads that serve requests
    Processes,      \* server processes, each with its own memory
    ProcessOf,      \* the process of each handler
    Requests,       \* signed alerts; the sensor may deliver one again
    SentAt,         \* the sensor's clock in the time stamp of each request
    PackageOf,      \* the package at a version an alert names, or NoPackage
    NoPackage,
    Iocs,           \* indicators
    IocsOf,         \* extract_iocs_from_event: those of each alert, in order
    ConfidenceOf,   \* confidence the extractor gives each, in percent
    DraftsOf,       \* generate_all_drafts: the kinds of draft of each alert, in order
    Window,         \* max_age_s, in ticks
    NonceTTL,       \* _NONCE_TTL_S
    NonceMax,       \* _NONCE_MAX
    MinConfidence,  \* min_confidence of the client
    Limit,          \* limit of the client
    MaxTime,        \* bound: the clock
    MaxEvents       \* bound: alerts, failing statements, restarts and approvals

ASSUME IntelAssumption ==
    /\ ProcessOf \in [Handlers -> Processes]
    /\ SentAt \in [Requests -> Nat]
    /\ ConfidenceOf \in [Iocs -> 0..100]
    /\ IocsOf \in [Requests -> Seq(Iocs)]
    /\ \A r \in Requests : \A m, n \in 1..Len(IocsOf[r]) :
           IocsOf[r][m] = IocsOf[r][n] => m = n
    /\ DraftsOf \in [Requests -> Seq(STRING)]
    /\ Window \in Nat /\ NonceTTL \in Nat /\ Window <= NonceTTL
    /\ NonceMax \in Nat \ {0} /\ Limit \in Nat /\ MinConfidence \in 0..100
    /\ MaxTime \in Nat /\ MaxEvents \in Nat

VARIABLES
    now,
    nonces,         \* _NONCE_CACHE of each process, oldest first
    index,          \* _runtime_iocs of each process
    observations,   \* runtime_observations; the id of one is its place
    rows,           \* learned_iocs: no row or one for each indicator
    drafts,         \* learned_rules: [obs, kind, approved]
    pc, job,        \* what each handler does, and on what
    mark, known,    \* the client: its watermark and the indicators it has
    events,         \* how many of MaxEvents have happened
    learned,        \* history: <<obs, ioc>> whose upsert returned
    overlapped,     \* history: <<obs, ioc>> whose upsert another one overlapped
    orphaned,       \* history: indicators whose promotion was not decided
    manual,         \* history: indicators approved by hand
    late,           \* history: indicators last written after their last_seen
    cut,            \* history: indicators that a limit kept from the client
    forgot          \* history: processes that dropped a nonce for want of room, or all

memory == <<nonces, index>>
store == <<observations, rows, drafts>>
handlers == <<pc, job>>
client == <<mark, known, cut>>
history == <<learned, overlapped, orphaned, manual, late, forgot>>
vars == <<now, memory, store, handlers, client, events, history>>

Times == 0..MaxTime
ObsIds == 1..MaxEvents

\* A row of learned_iocs; the packages and observations it keeps in JSON are sets.
Row == [confidence : 0..100, count : Nat, packages : SUBSET {PackageOf[r] : r \in Requests},
        sources : SUBSET ObsIds, seen : Times, approved : BOOLEAN]

PCs == {"idle", "record", "select", "write", "judge", "promote", "draft", "index"}

\* todo and left: indicators and drafts still to do; read: what SELECT has returned.
Jobs == [req : Requests, obs : 0..MaxEvents, todo : Seq(Iocs), left : Seq(STRING),
         read : SUBSET Row, stamp : Times]

Observation == [req : Requests, by : Processes, at : Times]
Draft == [obs : ObsIds, kind : STRING, approved : BOOLEAN]

TypeOK ==
    /\ now \in Times
    /\ nonces \in [Processes -> Seq([req : Requests, at : Times])]
    /\ index \in [Processes -> SUBSET Iocs]
    /\ observations \in Seq(Observation) /\ Len(observations) <= events
    /\ rows \in [Iocs -> SUBSET Row] /\ \A i \in Iocs : \A r, s \in rows[i] : r = s
    /\ \A d \in drafts : d \in Draft
    /\ pc \in [Handlers -> PCs] /\ \A h \in Handlers : pc[h] # "idle" => job[h] \in Jobs
    /\ mark \in Times /\ known \subseteq Iocs /\ cut \subseteq Iocs
    /\ events \in 0..MaxEvents
    /\ learned \subseteq ObsIds \X Iocs /\ overlapped \subseteq ObsIds \X Iocs
    /\ orphaned \subseteq Iocs /\ manual \subseteq Iocs
    /\ late \subseteq Iocs /\ forgot \subseteq Processes

Init ==
    /\ now = 0
    /\ nonces = [p \in Processes |-> <<>>]
    /\ index = [p \in Processes |-> {}]
    /\ observations = <<>> /\ rows = [i \in Iocs |-> {}] /\ drafts = {}
    /\ pc = [h \in Handlers |-> "idle"]
    /\ job = [h \in Handlers |-> {}]
    /\ mark = 0 /\ known = {} /\ cut = {} /\ events = 0
    /\ learned = {} /\ overlapped = {} /\ orphaned = {} /\ manual = {}
    /\ late = {} /\ forgot = {}

Happens == events < MaxEvents /\ events' = events + 1
Goto(h, next) == pc' = [pc EXCEPT ![h] = next]
Tick == now < MaxTime /\ now' = now + 1 /\ UNCHANGED <<memory, store, handlers, client, events, history>>

NoJob == {}

RowOf(i) == CHOOSE r \in rows[i] : TRUE

\* The history of a write of a row that is stamped t.
Written(i, t) == IF now > t THEN late \union {i} ELSE late \ {i}

----------------------------------------------------------------------------
(* check_hmac *)

InWindow(r) == now - SentAt[r] <= Window /\ SentAt[r] - now <= Window

\* Bug: a nonce of exactly the TTL counts as expired.
BugFirstYoung(q) ==
    CHOOSE n \in 1..Len(q) + 1 :
        /\ \A m \in 1..n - 1 : now - q[m].at >= NonceTTL
        /\ n <= Len(q) => now - q[n].at < NonceTTL

\* The expiry loop: it stops at the first entry that is not older than the TTL,
\* and entries moved to the end are not in the order of their times.
FirstYoung(q) ==
    CHOOSE n \in 1..Len(q) + 1 :
        /\ \A m \in 1..n - 1 : now - q[m].at > NonceTTL
        /\ n <= Len(q) => now - q[n].at <= NonceTTL

Swept(q) == SubSeq(q, FirstYoung(q), Len(q))

\* The size loop: room for one more.
Fitted(q) == IF Len(q) >= NonceMax THEN SubSeq(q, Len(q) - NonceMax + 2, Len(q)) ELSE q

Cached(q, r) == \E n \in 1..Len(q) : q[n].req = r

\* A nonce already seen moves to the end.
Touched(q, r) ==
    LET n == CHOOSE k \in 1..Len(q) : q[k].req = r
    IN  Append(SubSeq(q, 1, n - 1) \o SubSeq(q, n + 1, Len(q)), q[n])

\* A valid request comes in: it is refused as a replay, or handled.
Receive(h, r) ==
    LET p == ProcessOf[h]
        swept == Swept(nonces[p])
        q == Fitted(swept)
    IN  /\ pc[h] = "idle" /\ InWindow(r)
        /\ forgot' = IF q # swept THEN forgot \union {p} ELSE forgot
        /\ \/ /\ Cached(q, r)
              /\ nonces' = [nonces EXCEPT ![p] = Touched(q, r)]
              /\ UNCHANGED <<handlers, events>>
           \/ /\ ~Cached(q, r) /\ Happens
              /\ nonces' = [nonces EXCEPT ![p] = Append(q, [req |-> r, at |-> now])]
              /\ Goto(h, "record")
              /\ job' = [job EXCEPT ![h] = [req |-> r, obs |-> 0, todo |-> IocsOf[r],
                             left |-> DraftsOf[r], read |-> {}, stamp |-> now]]
        /\ UNCHANGED <<now, index, store, client, learned, overlapped, orphaned, manual, late>>

----------------------------------------------------------------------------
(* handle_runtime_alert *)

\* The step after an indicator: the next one, or the drafts, or the index.
AfterIocs(todo, left) ==
    IF todo # <<>> THEN "select" ELSE IF left # <<>> THEN "draft" ELSE "index"

Record(h) ==
    /\ pc[h] = "record"
    /\ observations' = Append(observations,
                           [req |-> job[h].req, by |-> ProcessOf[h], at |-> job[h].stamp])
    /\ job' = [job EXCEPT ![h].obs = Len(observations) + 1]
    /\ Goto(h, AfterIocs(job[h].todo, job[h].left))
    /\ UNCHANGED <<now, memory, rows, drafts, client, events, history>>

\* Handlers between their SELECT and their write of the same row.
Rivals(h) == {g \in Handlers \ {h} : pc[g] = "write" /\ Head(job[g].todo) = Head(job[h].todo)}

\* upsert_ioc: the time stamp and the SELECT.
Select(h) ==
    LET i == Head(job[h].todo) IN
    /\ pc[h] = "select" /\ Goto(h, "write")
    /\ job' = [job EXCEPT ![h].read = rows[i], ![h].stamp = now]
    /\ overlapped' = IF Rivals(h) = {} THEN overlapped
                     ELSE overlapped \union {<<job[g].obs, i>> : g \in Rivals(h) \union {h}}
    /\ UNCHANGED <<now, memory, store, client, events, learned, orphaned, manual,
                   late, forgot>>

AtLeast(c, floor) == IF c < floor THEN floor ELSE c

\* Bug: every package adds to the confidence.
BugBump(current, count, packages) == current + 20 * packages

\* _bump_confidence
Bump(current, count, packages) ==
    LET c3 == IF count >= 3 THEN AtLeast(current, 75) ELSE current
        c5 == IF count >= 5 THEN AtLeast(c3, 85) ELSE c3
        two == IF packages >= 2 THEN AtLeast(c5, 90) ELSE c5
    IN  IF packages >= 3 THEN AtLeast(two, 95) ELSE two

PackagesOf(r) == {PackageOf[r]} \ {NoPackage}

\* Bug: the observations are replaced where they should be extended.
BugAccumulated(row, j) ==
    [row EXCEPT !.count = row.count + 1, !.packages = @ \union PackagesOf(j.req),
                !.sources = {j.obs}, !.seen = j.stamp]

\* The row an UPDATE writes, from the row that was read.
Accumulated(row, j) ==
    LET sources == row.sources \union {j.obs}
        packages == row.packages \union PackagesOf(j.req)
        count == IF j.obs \in row.sources THEN row.count ELSE row.count + 1
    IN  [row EXCEPT !.confidence = Bump(row.confidence, count, Cardinality(packages)),
                    !.count = count, !.packages = packages, !.sources = sources,
                    !.seen = j.stamp]

\* The row an INSERT writes.
FirstRow(i, j) ==
    [confidence |-> AtLeast(ConfidenceOf[i], 50), count |-> 1, packages |-> PackagesOf(j.req),
     sources |-> {j.obs}, seen |-> j.stamp, approved |-> FALSE]

\* Bug: INSERT OR REPLACE in place of the UPDATE.
BugUpdate(h) ==
    LET i == Head(job[h].todo) IN
    /\ pc[h] = "write" /\ job[h].read # {} /\ Goto(h, "judge")
    /\ rows' = [rows EXCEPT ![i] = {FirstRow(i, job[h])}]
    /\ late' = Written(i, job[h].stamp)
    /\ learned' = learned \union {<<job[h].obs, i>>}
    /\ UNCHANGED <<now, memory, observations, drafts, job, client, events, overlapped,
                   orphaned, manual, forgot>>

\* upsert_ioc: the UPDATE by id, which leaves the status column alone.
Update(h) ==
    LET i == Head(job[h].todo) IN
    /\ pc[h] = "write" /\ job[h].read # {} /\ Goto(h, "judge")
    /\ rows' = [rows EXCEPT ![i] =
           {[Accumulated(r, job[h]) EXCEPT !.approved = s.approved] :
               r \in job[h].read, s \in rows[i]}]
    /\ late' = Written(i, job[h].stamp)
    /\ learned' = learned \union {<<job[h].obs, i>>}
    /\ UNCHANGED <<now, memory, observations, drafts, job, client, events, overlapped,
                   orphaned, manual, forgot>>

\* upsert_ioc: the INSERT of a new row.
Insert(h) ==
    LET i == Head(job[h].todo) IN
    /\ pc[h] = "write" /\ job[h].read = {} /\ rows[i] = {} /\ Goto(h, "judge")
    /\ rows' = [rows EXCEPT ![i] = {FirstRow(i, job[h])}]
    /\ late' = Written(i, job[h].stamp)
    /\ learned' = learned \union {<<job[h].obs, i>>}
    /\ UNCHANGED <<now, memory, observations, drafts, job, client, events, overlapped,
                   orphaned, manual, forgot>>

\* UNIQUE(ioc_type, value): another handler inserted first; the request ends with 500.
Clash(h) ==
    /\ pc[h] = "write" /\ job[h].read = {} /\ rows[Head(job[h].todo)] # {}
    /\ Goto(h, "idle") /\ job' = [job EXCEPT ![h] = NoJob]
    /\ UNCHANGED <<now, memory, store, client, events, history>>

Due(row) == row.confidence >= 90 \/ Cardinality(row.packages) >= 2

\* Bug: only the confidence counts, and 0.9 is not enough.
BugJudge(h) ==
    LET i == Head(job[h].todo)
        rest == Tail(job[h].todo)
        promote == \E r \in rows[i] : ~r.approved /\ r.confidence > 90
    IN  /\ pc[h] = "judge"
        /\ IF promote THEN Goto(h, "promote") /\ UNCHANGED job
           ELSE /\ Goto(h, AfterIocs(rest, job[h].left))
                /\ job' = [job EXCEPT ![h].todo = rest]
        /\ orphaned' = orphaned \ {i}
        /\ UNCHANGED <<now, memory, store, client, events, learned, overlapped, manual,
                       late, forgot>>

\* auto_promote: the SELECT and the decision.
Judge(h) ==
    LET i == Head(job[h].todo)
        rest == Tail(job[h].todo)
        promote == \E r \in rows[i] : ~r.approved /\ Due(r)
    IN  /\ pc[h] = "judge"
        /\ IF promote THEN Goto(h, "promote") /\ UNCHANGED job
           ELSE /\ Goto(h, AfterIocs(rest, job[h].left))
                /\ job' = [job EXCEPT ![h].todo = rest]
        /\ orphaned' = orphaned \ {i}
        /\ UNCHANGED <<now, memory, store, client, events, learned, overlapped, manual,
                       late, forgot>>

\* auto_promote: the UPDATE of the status.
Promote(h) ==
    LET i == Head(job[h].todo)
        rest == Tail(job[h].todo)
    IN  /\ pc[h] = "promote"
        /\ rows' = [rows EXCEPT ![i] = {[r EXCEPT !.approved = TRUE] : r \in rows[i]}]
        /\ late' = Written(i, RowOf(i).seen)
        /\ Goto(h, AfterIocs(rest, job[h].left))
        /\ job' = [job EXCEPT ![h].todo = rest]
        /\ UNCHANGED <<now, memory, observations, drafts, client, events, learned, overlapped,
                       orphaned, manual, forgot>>

\* record_rule_draft
RecordDraft(h) ==
    LET rest == Tail(job[h].left) IN
    /\ pc[h] = "draft"
    /\ drafts' = drafts \union
           {[obs |-> job[h].obs, kind |-> Head(job[h].left), approved |-> FALSE]}
    /\ job' = [job EXCEPT ![h].left = rest]
    /\ Goto(h, AfterIocs(<<>>, rest))
    /\ UNCHANGED <<now, memory, observations, rows, client, events, history>>

\* _live_update_attack_index, and the answer.
UpdateIndex(h) ==
    LET p == ProcessOf[h]
        mine == {IocsOf[job[h].req][n] : n \in 1..Len(IocsOf[job[h].req])}
    IN  /\ pc[h] = "index" /\ Goto(h, "idle")
        /\ index' = [index EXCEPT ![p] = @ \union mine]
        /\ job' = [job EXCEPT ![h] = NoJob]
        /\ UNCHANGED <<now, nonces, store, client, events, history>>

----------------------------------------------------------------------------
(* Faults, operators and the client *)

\* The indicators whose row these handlers have written and not yet judged.
Undecided(hs) == {Head(job[h].todo) : h \in {g \in hs : pc[g] \in {"judge", "promote"}}}

\* A statement of the handler raises (the database is locked): 500.
Fail(h) ==
    /\ pc[h] # "idle" /\ Happens
    /\ orphaned' = orphaned \union Undecided({h})
    /\ Goto(h, "idle") /\ job' = [job EXCEPT ![h] = NoJob]
    /\ UNCHANGED <<now, memory, store, client, learned, overlapped, manual, late, forgot>>

\* A server process ends and starts again with empty memory.
Restart(p) ==
    LET mine == {h \in Handlers : ProcessOf[h] = p} IN
    /\ Happens
    /\ orphaned' = orphaned \union Undecided(mine)
    /\ pc' = [h \in Handlers |-> IF h \in mine THEN "idle" ELSE pc[h]]
    /\ job' = [h \in Handlers |-> IF h \in mine THEN NoJob ELSE job[h]]
    /\ nonces' = [nonces EXCEPT ![p] = <<>>] /\ index' = [index EXCEPT ![p] = {}]
    /\ forgot' = forgot \union {p}
    /\ UNCHANGED <<now, store, client, learned, overlapped, manual, late>>

\* approve-ioc of the CLI: whatever the status; last_seen stays.
ApproveIoc(i) ==
    /\ rows[i] # {} /\ Happens
    /\ rows' = [rows EXCEPT ![i] = {[r EXCEPT !.approved = TRUE] : r \in rows[i]}]
    /\ manual' = manual \union {i}
    /\ late' = Written(i, RowOf(i).seen)
    /\ UNCHANGED <<now, memory, observations, drafts, handlers, client, learned, overlapped,
                   orphaned, forgot>>

\* approve-rule of the CLI: only a draft.
ApproveRule(d) ==
    /\ ~d.approved /\ Happens
    /\ drafts' = (drafts \ {d}) \union {[d EXCEPT !.approved = TRUE]}
    /\ UNCHANGED <<now, memory, observations, rows, handlers, client, history>>

\* status = 'approved' AND confidence >= ?
Eligible == {i \in Iocs : \E r \in rows[i] : r.approved /\ r.confidence >= MinConfidence}

\* ORDER BY confidence DESC, observation_count DESC
Ranked(i, j) ==
    \/ RowOf(i).confidence > RowOf(j).confidence
    \/ RowOf(i).confidence = RowOf(j).confidence /\ RowOf(i).count >= RowOf(j).count

\* What LIMIT may leave of a set: rows that rank alike come in any order.
Firsts(S) ==
    {T \in SUBSET S : /\ Cardinality(T) = (IF Cardinality(S) <= Limit THEN Cardinality(S) ELSE Limit)
                      /\ \A i \in T, j \in S \ T : Ranked(i, j)}

\* since <= last_seen, applied after LIMIT.
Since(S, t) == {i \in S : RowOf(i).seen >= t}

\* Bug: the client asks for what is later than the latest it has.
BugHighest(S) == IF S = {} THEN 0
                 ELSE 1 + CHOOSE t \in {RowOf(i).seen : i \in S} : \A i \in S : RowOf(i).seen <= t

\* max(last_seen, default="")
Highest(S) == IF S = {} THEN 0
              ELSE CHOOSE t \in {RowOf(i).seen : i \in S} : \A i \in S : RowOf(i).seen <= t

\* A client pulls, and takes high_watermark for its next since.
Pull(T) ==
    LET news == Since(T, mark) IN
    /\ mark' = Highest(news)
    /\ known' = known \union news
    /\ cut' = cut \union (Eligible \ T)
    /\ UNCHANGED <<now, memory, store, handlers, events, history>>

Handle(h) ==
    \/ Record(h) \/ Select(h) \/ Update(h) \/ Insert(h) \/ Clash(h)
    \/ Judge(h) \/ Promote(h) \/ RecordDraft(h) \/ UpdateIndex(h)

Next ==
    \/ \E h \in Handlers : Handle(h) \/ Fail(h) \/ \E r \in Requests : Receive(h, r)
    \/ \E p \in Processes : Restart(p)
    \/ \E i \in Iocs : ApproveIoc(i)
    \/ \E d \in drafts : ApproveRule(d)
    \/ \E T \in Firsts(Eligible) : Pull(T)
    \/ Tick

Spec == Init /\ [][Next]_vars
----------------------------------------------------------------------------
(* Properties *)

\* The columns of a row tell the same story, whatever writes were lost: the count
\* is that of its observations, each of which showed the indicator, its packages are
\* those of these observations, and its confidence is what that count and those
\* packages earn an indicator of its type, whatever it was raised to on the way
\* (upsert_ioc, _bump_confidence).
RowIsItsSources ==
    \A i \in Iocs : \A r \in rows[i] :
        /\ r.count = Cardinality(r.sources)
        /\ \A o \in r.sources : /\ o <= Len(observations)
                                /\ \E n \in 1..Len(IocsOf[observations[o].req]) :
                                       IocsOf[observations[o].req][n] = i
        /\ r.packages = UNION {PackagesOf(observations[o].req) : o \in r.sources}
        /\ r.confidence = Bump(AtLeast(ConfidenceOf[i], 50), r.count, Cardinality(r.packages))

\* An observation whose upsert of an indicator has returned stays among the sources
\* of the indicator, unless that upsert and another one read the row before either
\* wrote it (the SELECT and the UPDATE of upsert_ioc are two transactions).
CountedUnlessOverlapped ==
    \A o \in ObsIds, i \in Iocs :
        <<o, i>> \in learned => \/ \E r \in rows[i] : o \in r.sources
                                \/ <<o, i>> \in overlapped

\* An indicator is approved exactly when it is due, but for these: the handler that
\* made it due is about to judge it, or failed before it did; it was approved by
\* hand; overlapping upserts lost what had made it due (upsert_ioc, auto_promote).
ApprovedIffDue ==
    \A i \in Iocs : \A r \in rows[i] :
        /\ Due(r) /\ ~r.approved =>
               i \in orphaned \/ \E h \in Handlers : i \in Undecided({h})
        /\ r.approved /\ ~Due(r) =>
               i \in manual \/ \E o \in ObsIds : <<o, i>> \in overlapped

\* A process records the same signed alert twice only if it lost nonces, by a
\* restart or for want of room, or if the sensor's clock was ahead when the alert
\* first came in (check_hmac, _nonce_seen: the TTL counts from the arrival, the
\* window from the time stamp).  The one recorded first may have come in last: two
\* handlers of a process reach record_observation in any order.
DuplicateHasCause ==
    \A k \in 1..Len(observations) : \A j \in 1..k - 1 :
        observations[j].req = observations[k].req /\ observations[j].by = observations[k].by =>
            \/ observations[k].by \in forgot
            \/ \E n \in {j, k} : SentAt[observations[k].req] > observations[n].at

\* An approved indicator that a client does not have and will not be sent, being
\* stamped before its watermark, was written after its stamp (a slow upsert, a later
\* promotion, an approval by hand), or cut off by the limit (handle_iocs_export).
MissHasCause ==
    \A i \in Eligible \ known :
        RowOf(i).seen < mark => i \in late \/ i \in cut
============================================================================
