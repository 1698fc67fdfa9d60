----------------------------- MODULE FeedRefresh -----------------------------
(***************************************************************************)
(* The refresh of the threat feeds: run_all downloads each feed in turn,   *)
(* skips it when its digest is the one recorded in feed_meta, and else     *)
(* upserts its rows, each in a transaction of its own, and records the     *)
(* digest last.  The timer's process and one started by hand may overlap.  *)
(*                                                                         *)
(* A feed publishes a finite sequence of dumps; a dump is unreadable or a  *)
(* sequence of rows, which may share their key.  A row of an archive of    *)
(* advisories is an entry of it, with the size it unpacks to, the size it  *)
(* is packed to, and whether it parses as an advisory.                     *)
(***************************************************************************)
EXTENDS Integers, Sequences, FiniteSets, FiniteSetsExt

CONSTANTS
    Refreshers,     \* processes
    Timer,          \* the one started by the daily timer
    Feeds,          \* the feeds, in the order of run_all
    Advisories,     \* those read by ingest_osv: zip archives that may be limited
    Dumps,          \* for each feed, what it publishes: a sequence of dumps
    Keys,           \* primary keys of rows
    Values,         \* the other columns
    Limit,          \* --osv-limit, when given
    MaxEntry,       \* _MAX_ENTRY_BYTES, _MAX_RATIO and _MAX_TOTAL_BYTES of the unzip
    MaxRatio,
    MaxTotal,
    MaxCrashes,     \* bound: processes that die
    MaxManual       \* bound: refreshes started by hand

FeedSet == {Feeds[n] : n \in DOMAIN Feeds}
FeedRow == [key : Keys, value : Values, size : Nat, packed : Nat, parses : BOOLEAN]

ASSUME FeedAssumption ==
    /\ Timer \in Refreshers
    /\ Feeds \in Seq(FeedSet) /\ Feeds # <<>>
    /\ Advisories \subseteq FeedSet
    /\ DOMAIN Dumps = FeedSet
    /\ \A f \in FeedSet : Dumps[f] \in Seq([broken : BOOLEAN, rows : Seq(FeedRow)]) /\ Dumps[f] # <<>>
    /\ MaxEntry \in Nat /\ MaxRatio \in Nat /\ MaxTotal \in Nat
    /\ Limit \in Nat \ {0} /\ MaxCrashes \in Nat /\ MaxManual \in Nat

NoRow == "no row"
NoSha == 0               \* no row in feed_meta, or an empty fetch_sha256

VARIABLES
    published,  \* the dump each feed publishes: an index of Dumps
    table,      \* the rows of known_malicious, known_popular, network_blocklist
    meta,       \* fetch_sha256 of feed_meta: the index of a dump
    pc,
    job,        \* feeds left to refresh, and the options of the command
    body,       \* the dump downloaded
    pos,        \* the row of it upserted last
    dirty,      \* history: rows of a dump not the recorded one may be in the table
    disturbed,  \* history: another process wrote rows of the feed during this load
    spoilt,     \* history: two loads of a feed overlapped, one was limited, or one of the
                \* recorded dump was interrupted
    crashes, manual

history == <<dirty, disturbed, spoilt>>
feedVars == <<published, table, meta, pc, job, body, pos, history, crashes, manual>>

Jobs == [feeds : SUBSET FeedSet, skip : BOOLEAN, limited : BOOLEAN]

\* The first of some feeds, in the order of run_all, and that a process is at.
Earliest(feeds) ==
    Feeds[CHOOSE n \in DOMAIN Feeds : /\ Feeds[n] \in feeds
                                     /\ \A m \in 1..(n - 1) : Feeds[m] \notin feeds]
Now(r) == Earliest(job[r].feeds)

FeedTypeOK ==
    /\ published \in [FeedSet -> Nat] /\ meta \in [FeedSet -> Nat]
    /\ \A f \in FeedSet : published[f] \in DOMAIN Dumps[f] /\ meta[f] \in DOMAIN Dumps[f] \union {NoSha}
    /\ table \in [FeedSet -> [Keys -> Values \union {NoRow}]]
    /\ pc \in [Refreshers -> {"idle", "download", "load"}]
    /\ job \in [Refreshers -> Jobs]
    /\ \A r \in Refreshers : pc[r] = "idle" <=> job[r].feeds = {}
    /\ body \in [Refreshers -> Nat] /\ pos \in [Refreshers -> Nat]
    /\ \A r \in Refreshers :
           pc[r] = "load" => /\ body[r] \in DOMAIN Dumps[Now(r)]
                             /\ pos[r] <= Len(Dumps[Now(r)][body[r]].rows)
    /\ dirty \in [FeedSet -> BOOLEAN] /\ disturbed \in [Refreshers -> BOOLEAN]
    /\ spoilt \in [FeedSet -> BOOLEAN]
    /\ crashes \in 0..MaxCrashes /\ manual \in 0..MaxManual

NoJob == [feeds |-> {}, skip |-> TRUE, limited |-> FALSE]

FeedInit ==
    /\ published = [f \in FeedSet |-> 1]
    /\ table = [f \in FeedSet |-> [k \in Keys |-> NoRow]]
    /\ meta = [f \in FeedSet |-> NoSha]
    /\ pc = [r \in Refreshers |-> "idle"]
    /\ job = [r \in Refreshers |-> NoJob]
    /\ body = [r \in Refreshers |-> 1] /\ pos = [r \in Refreshers |-> 0]
    /\ dirty = [f \in FeedSet |-> FALSE]
    /\ disturbed = [r \in Refreshers |-> FALSE]
    /\ spoilt = [f \in FeedSet |-> FALSE]
    /\ crashes = 0 /\ manual = 0

----------------------------------------------------------------------------
(* The rows of a dump *)

Rows(f, d) == Dumps[f][d].rows

\* Entries of an archive the unzip passes over, and what it has unpacked up to an
\* entry: once that is too much, this entry and all the rest are left.
PassedOver(row) ==
    row.size > MaxEntry \/ (row.packed > 0 /\ row.size > MaxRatio * row.packed)

Unpacked(f, d, n) ==
    MapThenSumSet(LAMBDA m : Rows(f, d)[m].size, {m \in 1..n : ~PassedOver(Rows(f, d)[m])})

\* The rows of each dump that a load never gets to see.
refused ==
    [f \in FeedSet |-> [d \in DOMAIN Dumps[f] |->
        {n \in DOMAIN Rows(f, d) :
            /\ f \in Advisories
            /\ \/ PassedOver(Rows(f, d)[n]) \/ ~Rows(f, d)[n].parses
               \/ Unpacked(f, d, n) > MaxTotal}]]

\* A plausible bug: an entry that is of no use ends the unzip (break for continue).
BugKept(f, d) == {n \in DOMAIN Rows(f, d) : \A m \in 1..n : m \notin refused[f][d]}

Kept(f, d) == DOMAIN Rows(f, d) \ refused[f][d]

\* Those one load upserts: up to the limit, for an archive of advisories.
ToLoad(r, f, d) ==
    IF f \in Advisories /\ job[r].limited
    THEN {n \in Kept(f, d) : Cardinality({m \in Kept(f, d) : m <= n}) <= Limit}
    ELSE Kept(f, d)

Ahead(r) == {n \in ToLoad(r, Now(r), body[r]) : n > pos[r]}

\* The table has every row of the dump as the dump has it, a later row of the same key
\* taking the place of an earlier one, but for the rows the unzip refuses.
Loaded(f, d) ==
    \A n \in DOMAIN Rows(f, d) :
        LET row == Rows(f, d)[n]
        IN  \/ table[f][row.key] = row.value
            \/ \E m \in Kept(f, d) : m > n /\ Rows(f, d)[m].key = row.key
            \/ n \in refused[f][d]

----------------------------------------------------------------------------
(* One process of run_all *)

Begin(r, feeds, skip, limited) ==
    /\ pc[r] = "idle" /\ feeds # {}
    /\ pc' = [pc EXCEPT ![r] = "download"]
    /\ job' = [job EXCEPT ![r] = [feeds |-> feeds, skip |-> skip, limited |-> limited]]
    /\ UNCHANGED <<published, table, meta, body, pos, history, crashes>>

\* cron_main refresh-feeds: every feed, skipped when unchanged.
Daily == Begin(Timer, FeedSet, TRUE, FALSE) /\ UNCHANGED manual

\* python -m pkgsentinel.feeds.refresh, with any choice of feeds and options.
Manual(r) ==
    /\ r # Timer /\ manual < MaxManual /\ manual' = manual + 1
    /\ \E chosen \in SUBSET FeedSet, skip, limited \in BOOLEAN :
           Begin(r, chosen, skip, limited)

\* A plausible bug: after the last feed the process goes on to a next one.
BugNextFeed(r) ==
    /\ job' = [job EXCEPT ![r].feeds = @ \ {Now(r)}]
    /\ pc' = [pc EXCEPT ![r] = "download"]

\* The feed is done with; on to the next one.
NextFeed(r) ==
    LET rest == job[r].feeds \ {Now(r)}
    IN  /\ job' = [job EXCEPT ![r] = IF rest = {} THEN NoJob ELSE [@ EXCEPT !.feeds = rest]]
        /\ pc' = [pc EXCEPT ![r] = IF rest = {} THEN "idle" ELSE "download"]

\* A download that fails empties the digest: the next refresh will not skip.
DownloadFails(r) ==
    /\ pc[r] = "download"
    /\ meta' = [meta EXCEPT ![Now(r)] = NoSha]
    /\ NextFeed(r)
    /\ UNCHANGED <<published, table, body, pos, history, crashes, manual>>

\* A plausible bug: a feed of which any dump was ever recorded is skipped.
BugUnchanged(r, f) == job[r].skip /\ meta[f] # NoSha

Unchanged(r, f) == job[r].skip /\ meta[f] = published[f]

\* Processes between the download of the same feed and its last row.
LoadingWith(r) ==
    {q \in Refreshers \ {r} : pc[q] = "load" /\ Now(q) = Now(r)}

Download(r) ==
    /\ pc[r] = "download"
    /\ LET f == Now(r)
           dump == Dumps[f][published[f]]
       IN  /\ \/ Unchanged(r, f) /\ NextFeed(r) /\ UNCHANGED <<body, pos, disturbed>>
              \* An archive of advisories that is no archive ends the process; another
              \* feed without rows is left as it was, feed_meta too.
              \/ /\ ~Unchanged(r, f) /\ dump.broken /\ UNCHANGED <<body, pos, disturbed>>
                 /\ IF f \in Advisories
                    THEN pc' = [pc EXCEPT ![r] = "idle"] /\ job' = [job EXCEPT ![r] = NoJob]
                    ELSE NextFeed(r)
              \/ /\ ~Unchanged(r, f) /\ ~dump.broken
                 /\ pc' = [pc EXCEPT ![r] = "load"]
                 /\ body' = [body EXCEPT ![r] = published[f]]
                 /\ pos' = [pos EXCEPT ![r] = 0]
                 /\ disturbed' = [disturbed EXCEPT ![r] = FALSE]
                 /\ UNCHANGED job
           /\ spoilt' = [spoilt EXCEPT ![f] = @ \/ (pc'[r] = "load" /\ LoadingWith(r) # {})]
    /\ UNCHANGED <<published, table, meta, dirty, crashes, manual>>

\* One row: INSERT ... ON CONFLICT DO UPDATE.
Upsert(r) ==
    /\ pc[r] = "load"
    /\ \E n \in Ahead(r) :
        LET f == Now(r)
            row == Rows(f, body[r])[n]
        IN  /\ \A m \in Ahead(r) : n <= m
            /\ pos' = [pos EXCEPT ![r] = n]
            /\ table' = [table EXCEPT ![f][row.key] = row.value]
            /\ dirty' = [dirty EXCEPT ![f] = TRUE]
            /\ spoilt' = [spoilt EXCEPT ![f] = @ \/ LoadingWith(r) # {}]
    /\ disturbed' = [q \in Refreshers |-> disturbed[q] \/ q \in LoadingWith(r)]
    /\ UNCHANGED <<published, meta, pc, job, body, crashes, manual>>

\* Whether a load that ends leaves the table as its dump says, by its history.
Incomplete(r) == disturbed[r] \/ ToLoad(r, Now(r), body[r]) # Kept(Now(r), body[r])

\* A plausible bug: the digest is recorded before the rows are in.
BugRecordEarly(r) ==
    /\ pc[r] = "load" /\ pos[r] = 0
    /\ meta' = [meta EXCEPT ![Now(r)] = body[r]]
    /\ dirty' = [dirty EXCEPT ![Now(r)] = Incomplete(r)]
    /\ spoilt' = [spoilt EXCEPT ![Now(r)] = @ \/ Incomplete(r)]
    /\ NextFeed(r)
    /\ UNCHANGED <<published, table, body, pos, disturbed, crashes, manual>>

\* _record_feed_meta, once the last row is in.
Record(r) ==
    /\ pc[r] = "load" /\ Ahead(r) = {}
    /\ meta' = [meta EXCEPT ![Now(r)] = body[r]]
    /\ dirty' = [dirty EXCEPT ![Now(r)] = Incomplete(r)]
    /\ spoilt' = [spoilt EXCEPT ![Now(r)] = @ \/ Incomplete(r)]
    /\ NextFeed(r)
    /\ UNCHANGED <<published, table, body, pos, disturbed, crashes, manual>>

Crash(r) ==
    /\ pc[r] # "idle" /\ crashes < MaxCrashes /\ crashes' = crashes + 1
    /\ pc' = [pc EXCEPT ![r] = "idle"]
    /\ job' = [job EXCEPT ![r] = NoJob]
    /\ spoilt' = [spoilt EXCEPT ![Now(r)] = @ \/ (pc[r] = "load" /\ body[r] = meta[Now(r)])]
    /\ UNCHANGED <<published, table, meta, body, pos, dirty, disturbed, manual>>

\* A feed publishes its next dump.
Publish(f) ==
    /\ published[f] < Len(Dumps[f])
    /\ published' = [published EXCEPT ![f] = @ + 1]
    /\ UNCHANGED <<table, meta, pc, job, body, pos, history, crashes, manual>>

Run(r) == Download(r) \/ Upsert(r) \/ Record(r)

FeedNext ==
    \/ Daily
    \/ \E r \in Refreshers : Manual(r) \/ Run(r) \/ DownloadFails(r) \/ Crash(r)
    \/ \E f \in FeedSet : Publish(f)

FeedSpec == FeedInit /\ [][FeedNext]_feedVars

\* The timer fires every day, a process that runs goes on, and downloads that are
\* tried again and again succeed again and again, of every feed.
Fairness ==
    /\ WF_feedVars(Daily)
    /\ \A r \in Refreshers : WF_feedVars(Run(r))
    /\ \A r \in Refreshers, f \in FeedSet :
           SF_feedVars(Download(r) /\ Now(r) = f)

FairSpec == FeedSpec /\ Fairness

----------------------------------------------------------------------------
(* Properties *)

\* A feed that will be skipped as unchanged is in the table, row for row as the
\* dump has it: crashes between rows, failed downloads and reloads leave nothing
\* out that a later refresh would take for done.  Four things can: what the unzip
\* refuses (entries too large, packed too tight, no advisory, or beyond the total)
\* is not in the table and is not tried again before the feed publishes another
\* dump; and so can two processes that wrote the feed at once, rows cut by the
\* limit, and a load begun since.
SkipHidesOnlyTheRefused ==
    \A f \in FeedSet : (meta[f] # NoSha /\ ~dirty[f]) => Loaded(f, meta[f])

Readable == \A f \in FeedSet : ~Dumps[f][published[f]].broken

\* The table catches up with what each feed publishes for good, what the unzip
\* refuses aside, provided the last dump of every feed is readable (an unreadable
\* archive ends the whole refresh), unless two loads of the feed overlapped, one was cut by the limit, or one of the
\* very dump recorded (--no-skip) was interrupted: then a row of a key that has
\* several may stay, in a feed that is skipped from then on.  (A load in progress
\* shows such rows for a moment.)
CatchesUp ==
    \A f \in FeedSet :
        <>[](Readable => \/ Loaded(f, published[f]) \/ spoilt[f]
                        \/ \E r \in Refreshers : pc[r] = "load" /\ Now(r) = f)
============================================================================
