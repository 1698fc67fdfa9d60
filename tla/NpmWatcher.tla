----------------------------- MODULE NpmWatcher -----------------------------
(***************************************************************************)
(* npm_watcher.poll_once with fetch_versions and one version per package:  *)
(* it reads its cursor from schema_meta, asks the changes feed for at most *)
(* limit entries after it, looks up the package of each, puts the newest   *)
(* versions into scan_queue and saves the cursor last.  Nothing stops cron *)
(* from starting a poll while the last one still runs.                     *)
(*                                                                         *)
(* An entry of the feed only names a package, so a version is named by the *)
(* entry that published it.  Entries that are dropped unseen (a deleted    *)
(* package, a design document) are left out.                               *)
(***************************************************************************)
EXTENDS Integers, Sequences

CONSTANTS
    Pollers,        \* processes that run poll_once
    Packages,
    MaxEntries,     \* bound: entries of the feed
    Limit,          \* --limit
    MaxFaults       \* bound: failing calls and kills

ASSUME NpmAssumption ==
    /\ MaxEntries \in Nat \ {0} /\ Limit \in Nat \ {0} /\ MaxFaults \in Nat

VARIABLES
    feed,       \* the changes feed: the package of each entry
    seq,        \* watcher.npm.last_seq
    queued,     \* versions with a row in scan_queue
    pc,
    since,      \* the cursor the poll has read
    upto,       \* the cursor it will save
    rows,       \* entries it has still to look up
    batch,      \* versions it has still to enqueue
    excused,    \* history: entries older than the first poll, or whose metadata
                \* or insert failed
    faults

local == <<pc, since, upto, rows, batch>>
vars == <<feed, seq, queued, local, excused, faults>>

Entries == 1..Len(feed)

TypeOK ==
    /\ feed \in Seq(Packages) /\ Len(feed) =< MaxEntries
    /\ seq \in 0..Len(feed)
    /\ queued \subseteq Entries
    /\ pc \in [Pollers -> {"idle", "fetch", "look", "put", "save"}]
    /\ since \in [Pollers -> 0..Len(feed)]
    /\ upto \in [Pollers -> 0..Len(feed)]
    /\ rows \in [Pollers -> SUBSET Entries]
    /\ batch \in [Pollers -> SUBSET Entries]
    /\ \A p \in Pollers : pc[p] # "put" \/ rows[p] = {}
    /\ excused \subseteq Entries
    /\ faults \in 0..MaxFaults

\* The feed is never empty.
Init ==
    /\ \E k \in Packages : feed = <<k>>
    /\ seq = 0 /\ queued = {}
    /\ pc = [p \in Pollers |-> "idle"]
    /\ since = [p \in Pollers |-> 0]
    /\ upto = [p \in Pollers |-> 0]
    /\ rows = [p \in Pollers |-> {}]
    /\ batch = [p \in Pollers |-> {}]
    /\ excused = {} /\ faults = 0

----------------------------------------------------------------------------
(* npm *)

Publish(k) ==
    /\ Len(feed) < MaxEntries /\ feed' = Append(feed, k)
    /\ UNCHANGED <<seq, queued, local, excused, faults>>

\* Bug: versions[:1] instead of versions[-1:].
BugIsNewest(i, k) == feed[i] = k /\ \A j \in Entries : feed[j] = k => i =< j

\* Entry i published the newest version of package k.
IsNewest(i, k) == feed[i] = k /\ \A j \in Entries : feed[j] = k => j =< i

----------------------------------------------------------------------------
(* poll_once *)

Smaller(x, y) == IF x < y THEN x ELSE y
Larger(x, y) == IF x > y THEN x ELSE y

Fault == faults < MaxFaults /\ faults' = faults + 1
NoFault == UNCHANGED faults

Goto(p, label) == pc' = [pc EXCEPT ![p] = label]

\* poll_once returns: its locals are gone.
Finish(p) ==
    /\ Goto(p, "idle")
    /\ since' = [since EXCEPT ![p] = 0]
    /\ upto' = [upto EXCEPT ![p] = 0]
    /\ rows' = [rows EXCEPT ![p] = {}]
    /\ batch' = [batch EXCEPT ![p] = {}]

\* A timer or cron starts a poll, which reads its cursor.
Start(p) ==
    /\ pc[p] = "idle"
    /\ Goto(p, "fetch")
    /\ since' = [since EXCEPT ![p] = seq]
    /\ UNCHANGED <<feed, seq, queued, upto, rows, batch, excused, faults>>

\* Bug: the cursor is the feed's update_seq, whatever the limit.
BugUpdateSeq(p) ==
    /\ pc[p] = "fetch" /\ NoFault
    /\ LET from == IF since[p] = 0 THEN Larger(1, Len(feed) - Limit) ELSE since[p]
       IN /\ rows' = [rows EXCEPT ![p] = from + 1..Smaller(from + Limit, Len(feed))]
          /\ excused' = IF since[p] = 0 THEN excused \union (1..from) ELSE excused
    /\ upto' = [upto EXCEPT ![p] = Len(feed)]
    /\ Goto(p, "look")
    /\ UNCHANGED <<since, batch, feed, seq, queued>>

\* _changes?since&limit; without a cursor, the newest limit entries.
FetchChanges(p) ==
    /\ pc[p] = "fetch"
    /\ \/ /\ NoFault
          /\ LET from == IF since[p] = 0 THEN Larger(1, Len(feed) - Limit) ELSE since[p]
                 last == Smaller(from + Limit, Len(feed))
             IN /\ rows' = [rows EXCEPT ![p] = from + 1..last]
                /\ upto' = [upto EXCEPT ![p] = last]
                /\ excused' = IF since[p] = 0 THEN excused \union (1..from) ELSE excused
          /\ Goto(p, "look")
          /\ UNCHANGED <<since, batch>>
       \/ Fault /\ Finish(p) /\ UNCHANGED excused
    /\ UNCHANGED <<feed, seq, queued>>

IsLeast(i, S) == i \in S /\ \A j \in S : i =< j

\* _fetch_package_meta for one entry; a failure drops the entry.
Look(p) ==
    /\ pc[p] = "look"
    /\ \E i \in rows[p] :
        /\ IsLeast(i, rows[p])
        /\ rows' = [rows EXCEPT ![p] = @ \ {i}]
        /\ \/ /\ NoFault /\ UNCHANGED excused
              /\ \E j \in Entries :
                    IsNewest(j, feed[i]) /\ batch' = [batch EXCEPT ![p] = @ \union {j}]
           \/ Fault /\ UNCHANGED batch /\ excused' = excused \union {i}
    /\ UNCHANGED <<feed, seq, queued, pc, since, upto>>

LookDone(p) ==
    /\ pc[p] = "look" /\ rows[p] = {}
    /\ Goto(p, "put")
    /\ UNCHANGED <<feed, seq, queued, since, upto, rows, batch, excused, faults>>

\* One INSERT of enqueue_many; enqueue swallows its exception.
Put(p) ==
    /\ pc[p] = "put"
    /\ \E i \in batch[p] :
        /\ IsLeast(i, batch[p])
        /\ batch' = [batch EXCEPT ![p] = @ \ {i}]
        /\ \/ NoFault /\ queued' = queued \union {i} /\ UNCHANGED excused
           \/ Fault /\ UNCHANGED queued /\ excused' = excused \union {i}
    /\ UNCHANGED <<feed, seq, pc, since, upto, rows>>

PutDone(p) ==
    /\ pc[p] = "put" /\ batch[p] = {}
    /\ Goto(p, "save")
    /\ UNCHANGED <<feed, seq, queued, since, upto, rows, batch, excused, faults>>

SaveSeq(p) ==
    /\ pc[p] = "save"
    /\ seq' = upto[p]
    /\ Finish(p)
    /\ UNCHANGED <<feed, queued, excused, faults>>

\* The process is killed, or an exception leaves poll_once.
Crash(p) ==
    /\ pc[p] # "idle" /\ Fault
    /\ Finish(p)
    /\ UNCHANGED <<feed, seq, queued, excused>>

Step(p) ==
    \/ FetchChanges(p) \/ Look(p) \/ LookDone(p)
    \/ Put(p) \/ PutDone(p) \/ SaveSeq(p)

Next ==
    \/ \E k \in Packages : Publish(k)
    \/ \E p \in Pollers : Start(p) \/ Step(p) \/ Crash(p)

Spec == Init /\ [][Next]_vars

\* The timer keeps starting polls, and a poll that runs goes on.
Fairness == \A p \in Pollers : WF_vars(Start(p)) /\ WF_vars(Step(p))

FairSpec == Spec /\ Fairness

----------------------------------------------------------------------------
(* Properties *)

\* A version of the entry's package at least as new as the entry is in the
\* queue, or the lookup or insert that should have put it there failed.
Covered(i) == \E j \in i..Len(feed) : feed[j] = feed[i] /\ j \in queued \union excused

\* Whatever is killed and whatever overlaps, the cursor passes only entries that
\* are covered: saving it last makes a killed poll one that is done again.
NothingSkipped == \A i \in 1..seq : Covered(i)

\* Every entry is covered in the end.
CatchesUp == \A i \in 1..MaxEntries : i \in Entries ~> i \in Entries /\ Covered(i)
============================================================================
