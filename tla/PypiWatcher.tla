---------------------------- MODULE PypiWatcher ----------------------------
(***************************************************************************)
(* pypi_watcher.poll_once: it reads its cursor from schema_meta, asks the  *)
(* PyPI changelog for what came after, saves the cursor, cuts the events   *)
(* to max_events and puts them into scan_queue one INSERT at a time.       *)
(* Without events it reads the RSS feed instead.  Nothing stops cron from  *)
(* starting a poll while the last one still runs.                          *)
(*                                                                         *)
(* An entry of the changelog is named by its serial.  It is about a        *)
(* release (a version is created, or gets another file) or something else; *)
(* several entries may be about one release.                               *)
(***************************************************************************)
EXTENDS Integers, Sequences, FiniteSets

CONSTANTS
    Pollers,        \* processes that run poll_once
    Releases,       \* package versions
    Other,          \* what an entry that is not about a release is about
    MaxEntries,     \* bound: entries of the changelog
    MaxEvents,      \* --max
    RssSize,        \* releases the RSS feed shows
    MaxFaults       \* bound: failing calls and kills

ASSUME PypiAssumption ==
    /\ Other \notin Releases
    /\ MaxEntries \in Nat /\ MaxEvents \in Nat \ {0}
    /\ RssSize \in Nat /\ MaxFaults \in Nat

Serials == 1..MaxEntries

VARIABLES
    log,        \* the changelog: what each entry is about
    serial,     \* watcher.pypi.last_serial
    queued,     \* rows of scan_queue per serial with pypi_xmlrpc, up to 2
    byRss,      \* releases with a row that says pypi_rss
    pc,
    since,      \* the cursor the poll has read
    upto,       \* the cursor it will save
    batch,      \* the serials it has still to enqueue
    rss,        \* do they come from RSS
    lost,       \* history: serials cut off, refused by the insert, or killed
    disturbed,  \* history: polls overlapped, or a save failed
    faults

local == <<pc, since, upto, batch, rss>>
vars == <<log, serial, queued, byRss, local, lost, disturbed, faults>>

TypeOK ==
    /\ log \in Seq(Releases \union {Other}) /\ Len(log) =< MaxEntries
    /\ serial \in 0..Len(log)
    /\ queued \in [Serials -> 0..2] /\ byRss \subseteq Releases
    /\ pc \in [Pollers -> {"idle", "fetch", "rss", "save", "put"}]
    /\ since \in [Pollers -> 0..Len(log)]
    /\ upto \in [Pollers -> 0..Len(log)]
    /\ batch \in [Pollers -> SUBSET (1..Len(log))]
    /\ \A p \in Pollers : pc[p] = "put" => Cardinality(batch[p]) =< MaxEvents
    /\ rss \in [Pollers -> BOOLEAN]
    /\ lost \subseteq Serials /\ disturbed \in BOOLEAN
    /\ faults \in 0..MaxFaults

Init ==
    /\ log = <<>> /\ serial = 0
    /\ queued = [i \in Serials |-> 0] /\ byRss = {}
    /\ pc = [p \in Pollers |-> "idle"]
    /\ since = [p \in Pollers |-> 0]
    /\ upto = [p \in Pollers |-> 0]
    /\ batch = [p \in Pollers |-> {}]
    /\ rss = [p \in Pollers |-> FALSE]
    /\ lost = {} /\ disturbed = FALSE /\ faults = 0

----------------------------------------------------------------------------
(* PyPI *)

Publish(r) ==
    /\ Len(log) < MaxEntries /\ log' = Append(log, r)
    /\ UNCHANGED <<serial, queued, byRss, local, lost, disturbed, faults>>

\* Bug: the cursor is taken for the next serial.
BugFirstAfter(s) ==
    {i \in s + 2..Len(log) :
        log[i] # Other /\ \A j \in s + 2..i - 1 : log[j] # log[i]}

\* The first serial of each release after serial s: the events of one poll.
FirstAfter(s) ==
    {i \in s + 1..Len(log) :
        log[i] # Other /\ \A j \in s + 1..i - 1 : log[j] # log[i]}

\* The n smallest and the n largest members of a set of serials.
Oldest(S, n) == {i \in S : Cardinality({j \in S : j =< i}) =< n}
Newest(S, n) == {i \in S : Cardinality({j \in S : j >= i}) =< n}

----------------------------------------------------------------------------
(* poll_once, prefer = auto *)

Fault == faults < MaxFaults /\ faults' = faults + 1
NoFault == UNCHANGED faults

Goto(p, label) == pc' = [pc EXCEPT ![p] = label]

\* poll_once returns: its locals are gone.
Finish(p) ==
    /\ Goto(p, "idle")
    /\ since' = [since EXCEPT ![p] = 0]
    /\ upto' = [upto EXCEPT ![p] = 0]
    /\ batch' = [batch EXCEPT ![p] = {}]
    /\ rss' = [rss EXCEPT ![p] = FALSE]

\* A timer or cron starts a poll, which reads its cursor.
Start(p) ==
    /\ pc[p] = "idle"
    /\ Goto(p, "fetch")
    /\ since' = [since EXCEPT ![p] = serial]
    /\ disturbed' = (disturbed \/ \E q \in Pollers : pc[q] # "idle")
    /\ UNCHANGED <<log, serial, queued, byRss, upto, batch, rss, lost, faults>>

\* Bug: the cursor is the last serial of the events instead of the rows, 0 when
\* no row is a release.
BugFetchXmlrpc(p) ==
    /\ pc[p] = "fetch" /\ NoFault
    /\ IF Len(log) > since[p]
       THEN /\ batch' = [batch EXCEPT ![p] = FirstAfter(since[p])]
            /\ \E n \in 0..Len(log) :
                  /\ n \in IF FirstAfter(since[p]) = {} THEN {0} ELSE FirstAfter(since[p])
                  /\ \A i \in FirstAfter(since[p]) : i =< n
                  /\ upto' = [upto EXCEPT ![p] = n]
            /\ Goto(p, "save")
       ELSE Goto(p, "rss") /\ UNCHANGED <<batch, upto>>
    /\ UNCHANGED <<log, serial, queued, byRss, since, rss, lost, disturbed>>

\* changelog_since_serial: when it fails, and when nothing is new, RSS is next.
FetchXmlrpc(p) ==
    /\ pc[p] = "fetch"
    /\ \/ /\ NoFault /\ Len(log) > since[p]
          /\ batch' = [batch EXCEPT ![p] = FirstAfter(since[p])]
          /\ upto' = [upto EXCEPT ![p] = Len(log)]
          /\ Goto(p, "save")
       \/ /\ NoFault /\ Len(log) =< since[p]
          /\ Goto(p, "rss") /\ UNCHANGED <<batch, upto>>
       \/ Fault /\ Goto(p, "rss") /\ UNCHANGED <<batch, upto>>
    /\ UNCHANGED <<log, serial, queued, byRss, since, rss, lost, disturbed>>

\* Bug: the events are not cut to max_events.
BugUncut(p) ==
    /\ pc[p] = "save" /\ NoFault
    /\ serial' = upto[p]
    /\ Goto(p, IF batch[p] = {} THEN "rss" ELSE "put")
    /\ UNCHANGED <<log, queued, byRss, since, upto, batch, rss, lost, disturbed>>

\* Bug: a poll whose events were cut does not save the cursor.
BugSaveSerial(p) ==
    /\ pc[p] = "save" /\ NoFault
    /\ serial' = IF Cardinality(batch[p]) > MaxEvents THEN serial ELSE upto[p]
    /\ batch' = [batch EXCEPT ![p] = Oldest(@, MaxEvents)]
    /\ Goto(p, IF batch[p] = {} THEN "rss" ELSE "put")
    /\ UNCHANGED <<log, queued, byRss, since, upto, rss, lost, disturbed>>

\* set_last_serial, whose failure is caught with those of the fetch; then the
\* events, oldest first, are cut to max_events.
SaveSerial(p) ==
    /\ pc[p] = "save"
    /\ \/ NoFault /\ serial' = upto[p] /\ UNCHANGED disturbed
       \/ Fault /\ serial' = serial /\ disturbed' = TRUE
    /\ batch' = [batch EXCEPT ![p] = Oldest(@, MaxEvents)]
    /\ lost' = lost \union (batch[p] \ Oldest(batch[p], MaxEvents))
    /\ Goto(p, IF batch[p] = {} THEN "rss" ELSE "put")
    /\ UNCHANGED <<log, queued, byRss, since, upto, rss>>

\* updates.xml shows the newest releases, newest first; its failure ends the
\* poll.
FetchRss(p) ==
    /\ pc[p] = "rss"
    /\ \/ /\ NoFault
          /\ batch' = [batch EXCEPT ![p] = Newest(Newest(FirstAfter(0), RssSize), MaxEvents)]
          /\ rss' = [rss EXCEPT ![p] = TRUE]
          /\ Goto(p, "put")
          /\ UNCHANGED <<since, upto>>
       \/ Fault /\ Finish(p)
    /\ UNCHANGED <<log, serial, queued, byRss, lost, disturbed>>

IsLeast(i, S) == i \in S /\ \A j \in S : i =< j

\* One INSERT of enqueue_many; enqueue swallows its exception.
Put(p) ==
    /\ pc[p] = "put"
    /\ \E i \in batch[p] :
        /\ IsLeast(i, batch[p])
        /\ batch' = [batch EXCEPT ![p] = @ \ {i}]
        /\ \/ /\ NoFault /\ UNCHANGED lost
              /\ IF rss[p]
                 THEN byRss' = byRss \union {log[i]} /\ UNCHANGED queued
                 ELSE /\ queued' = [queued EXCEPT ![i] = IF @ < 2 THEN @ + 1 ELSE @]
                      /\ UNCHANGED byRss
           \/ Fault /\ lost' = lost \union {i} /\ UNCHANGED <<queued, byRss>>
    /\ UNCHANGED <<log, serial, pc, since, upto, rss, disturbed>>

Return(p) ==
    /\ pc[p] = "put" /\ batch[p] = {}
    /\ Finish(p)
    /\ UNCHANGED <<log, serial, queued, byRss, lost, disturbed, faults>>

\* The process is killed.  What it has not enqueued is lost once it has saved
\* its cursor.
Crash(p) ==
    /\ pc[p] # "idle" /\ Fault
    /\ lost' = IF pc[p] = "put" THEN lost \union batch[p] ELSE lost
    /\ Finish(p)
    /\ UNCHANGED <<log, serial, queued, byRss, disturbed>>

Step(p) ==
    \/ FetchXmlrpc(p) \/ SaveSerial(p) \/ FetchRss(p)
    \/ Put(p) \/ Return(p)

Next ==
    \/ \E r \in Releases \union {Other} : Publish(r)
    \/ \E p \in Pollers : Start(p) \/ Step(p) \/ Crash(p)

Spec == Init /\ [][Next]_vars

----------------------------------------------------------------------------
(* Properties *)

\* The entries about the same release.
About(i) == {j \in 1..Len(log) : log[j] = log[i]}

\* A release the cursor has passed is in the queue or in the hands of a running
\* poll, unless max_events cut it off, its INSERT failed or its poll was killed
\* after saving the cursor: nothing else loses a release, overlapping polls and
\* a change to RSS included.
LossHasCause ==
    \A i \in 1..serial : log[i] # Other =>
        \/ log[i] \in byRss
        \/ \E j \in About(i) : queued[j] > 0 \/ j \in lost \/ \E p \in Pollers : j \in batch[p]

\* An entry of the changelog is enqueued at most once, kills included, unless
\* polls overlap or the cursor cannot be saved.
AtMostOnce == \A i \in Serials : queued[i] = 2 => disturbed

\* last_serial moves back only when polls have overlapped or a cursor could not be
\* saved: a poll that is alone and saves never writes an older one.
MovesBackByOverlap == [][serial' < serial => disturbed]_vars
============================================================================
