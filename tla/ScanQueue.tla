----------------------------- MODULE ScanQueue -----------------------------
(***************************************************************************)
(* The scan queue of the registry monitor (table scan_queue, class         *)
(* PriorityQueue) and the worker processes that drain it (run_worker).     *)
(*                                                                         *)
(* A row is locked by a worker id host:pid, scanned, reported to the sinks *)
(* one after the other, then completed.  Every SQL statement is its own    *)
(* transaction (the connection is in autocommit), so the steps below are   *)
(* the statements and calls of the worker loop, and the workers interleave *)
(* between any two of them.  A worker may be killed at any step and an id  *)
(* may come back (a container restarts with the same host name and pid).   *)
(***************************************************************************)
EXTENDS Integers, FiniteSets

CONSTANTS
    Workers,        \* worker ids, host:pid
    NoWorker,       \* locked_by IS NULL
    MaxRows,        \* bound: rows ever inserted in scan_queue
    Priorities,     \* what compute_priority may answer
    StuckAfter,     \* reset_stuck(older_than_minutes), in ticks
    MaxJobs,        \* --max
    Loop,           \* --loop
    RestartClean,   \* is a worker started again after exiting with status 0
    NumSinks,       \* configured sinks, in the order stix, webhook, falco, pmg
    Verdicts,       \* what run_pipeline may answer
    MaxCrashes      \* bound: kills of a worker

AllVerdicts == {"MALICIOUS", "HIGH_RISK", "SUSPICIOUS", "CLEAN",
                "CANNOT_ANALYZE", "ERROR"}
SinkVerdicts == {"MALICIOUS", "HIGH_RISK", "SUSPICIOUS"}

ASSUME QueueAssumption ==
    /\ NoWorker \notin Workers
    /\ MaxRows \in Nat /\ StuckAfter \in Nat /\ NumSinks \in Nat
    /\ MaxJobs \in Nat \ {0} /\ MaxCrashes \in Nat
    /\ Priorities \subseteq Nat
    /\ Loop \in BOOLEAN /\ RestartClean \in BOOLEAN
    /\ Verdicts \subseteq AllVerdicts

Rows == 1..MaxRows
NoRow == 0
Sinks == 1..NumSinks

VARIABLES
    present,    \* ids of the inserted rows
    prio,       \* priority
    lockedBy,   \* locked_by, with locked_at NULL exactly when it is NoWorker
    age,        \* ticks since locked_at up to StuckAfter + 1, 0 unless inflight
    completed,  \* rows whose completed_at is set
    result,     \* result column
    pc,         \* where each worker stands in run_worker / process_one
    job,        \* the row in its hands
    verdict,    \* the verdict run_pipeline gave it
    next,       \* the next sink of _emit_sinks
    count,      \* n, the jobs of this run
    sent,       \* history: how often each sink got each row, up to 2
    wasReset,   \* history: rows reset_stuck unlocked
    dropped,    \* history: rows in the hands of a worker that was killed
    crashes

rowVars == <<present, prio, lockedBy, age, completed, result>>
workerVars == <<pc, job, verdict, next, count>>
history == <<sent, wasReset, dropped>>
vars == <<rowVars, workerVars, history, crashes>>

Done(v) == <<"OK", v>>
Err == <<"ERR", "">>
Outcomes == {Done(v) : v \in AllVerdicts} \union {Err}
NoResult == <<"NULL", "">>
ResetResult == <<"RESET", "">>
Results == Outcomes \union {NoResult, ResetResult}

Down == {"off", "crashed"}
Busy == {"scan", "emit", "complete", "abandon"}
PCs == Down \union Busy \union {"top", "lock"}

TypeOK ==
    /\ present \subseteq Rows
    /\ prio \in [Rows -> Nat]
    /\ lockedBy \in [Rows -> Workers \union {NoWorker}]
    /\ age \in [Rows -> 0..StuckAfter + 1]
    /\ completed \subseteq Rows
    /\ result \in [Rows -> Results]
    /\ pc \in [Workers -> PCs]
    /\ job \in [Workers -> Rows \union {NoRow}]
    /\ verdict \in [Workers -> AllVerdicts]
    /\ next \in [Workers -> 1..NumSinks + 1]
    /\ count \in [Workers -> 0..MaxJobs]
    /\ sent \in [Rows -> [Sinks -> 0..2]]
    /\ wasReset \subseteq Rows
    /\ dropped \subseteq Rows
    /\ crashes \in 0..MaxCrashes

\* A service is up when the machine is; a cron job waits for its minute.
Init ==
    /\ present = {}
    /\ prio = [j \in Rows |-> 0]
    /\ lockedBy = [j \in Rows |-> NoWorker]
    /\ age = [j \in Rows |-> 0]
    /\ completed = {}
    /\ result = [j \in Rows |-> NoResult]
    /\ pc = [w \in Workers |-> IF RestartClean THEN "off" ELSE "top"]
    /\ job = [w \in Workers |-> NoRow]
    /\ verdict = [w \in Workers |-> "ERROR"]
    /\ next = [w \in Workers |-> 1]
    /\ count = [w \in Workers |-> 0]
    /\ sent = [j \in Rows |-> [s \in Sinks |-> 0]]
    /\ wasReset = {}
    /\ dropped = {}
    /\ crashes = 0

----------------------------------------------------------------------------
(* The queue *)

\* Bug: the pop forgets locked_by IS NULL.
BugPending == {j \in present : j \notin completed}

Pending == {j \in present : lockedBy[j] = NoWorker /\ j \notin completed}
Inflight == {j \in present : lockedBy[j] # NoWorker /\ j \notin completed}

Before(i, j) == prio[i] < prio[j] \/ (prio[i] = prio[j] /\ i < j)

\* ORDER BY priority, enqueued_at LIMIT 1; ids grow with enqueued_at.
IsFirst(j, S) == j \in S /\ \A i \in S : i = j \/ Before(j, i)

\* enqueue: AUTOINCREMENT id; a swallowed failure inserts nothing.
Enqueue(j) ==
    /\ j \notin present /\ \A i \in 1..(j - 1) : i \in present
    /\ present' = present \union {j}
    /\ \E p \in Priorities : prio' = [prio EXCEPT ![j] = p]
    /\ UNCHANGED <<lockedBy, age, completed, result, workerVars, history, crashes>>

\* Time passes for the rows whose locked_at is still looked at.
Tick ==
    /\ \E j \in Inflight : age[j] =< StuckAfter
    /\ age' = [j \in Rows |-> IF j \in Inflight /\ age[j] =< StuckAfter
                                THEN age[j] + 1 ELSE age[j]]
    /\ UNCHANGED <<present, prio, lockedBy, completed, result, workerVars, history, crashes>>

\* Bug: no lock is ever found stuck.
BugStuck == {}

Stuck == {j \in Inflight : age[j] > StuckAfter}

\* reset_stuck: one UPDATE, whoever holds the lock, alive or not.
ResetStuck(w) ==
    /\ pc[w] = "top"
    /\ pc' = [pc EXCEPT ![w] = "lock"]
    /\ lockedBy' = [j \in Rows |-> IF j \in Stuck THEN NoWorker ELSE lockedBy[j]]
    /\ result' = [j \in Rows |-> IF j \in Stuck THEN ResetResult ELSE result[j]]
    /\ age' = [j \in Rows |-> IF j \in Stuck THEN 0 ELSE age[j]]
    /\ wasReset' = wasReset \union Stuck
    /\ UNCHANGED <<present, prio, completed, job, verdict, next, count, sent, dropped, crashes>>

\* Bug: the resume query forgets completed_at IS NULL.
BugOwn(w) == {j \in present : lockedBy[j] = w}

Own(w) == {j \in present : lockedBy[j] = w /\ j \notin completed}

\* lock_next, first SELECT: a row this id already holds, its locked_at as it is.
Resume(w, j) ==
    /\ pc[w] = "lock" /\ IsFirst(j, Own(w))
    /\ job' = [job EXCEPT ![w] = j]
    /\ pc' = [pc EXCEPT ![w] = "scan"]
    /\ UNCHANGED <<rowVars, verdict, next, count, history, crashes>>

\* lock_next, UPDATE ... RETURNING on the first pending row.
Take(w, j) ==
    /\ pc[w] = "lock" /\ Own(w) = {} /\ IsFirst(j, Pending)
    /\ lockedBy' = [lockedBy EXCEPT ![j] = w]
    /\ age' = [age EXCEPT ![j] = 0]
    /\ job' = [job EXCEPT ![w] = j]
    /\ pc' = [pc EXCEPT ![w] = "scan"]
    /\ UNCHANGED <<present, prio, completed, result, verdict, next, count, history, crashes>>

\* run_worker returns; the process exits with status 0.
Leave(w) ==
    /\ pc' = [pc EXCEPT ![w] = "off"]
    /\ count' = [count EXCEPT ![w] = 0]

\* lock_next answers None: sleep and poll again, or leave.
Idle(w) ==
    /\ pc[w] = "lock" /\ Own(w) = {} /\ Pending = {}
    /\ IF Loop THEN pc' = [pc EXCEPT ![w] = "top"] /\ count' = count ELSE Leave(w)
    /\ UNCHANGED <<rowVars, job, verdict, next, history, crashes>>

----------------------------------------------------------------------------
(* process_one *)

Goto(w, label) ==
    /\ pc' = [pc EXCEPT ![w] = label]
    /\ UNCHANGED <<rowVars, job, count, crashes, wasReset, dropped>>

\* Bug: process_one completes the row and never calls _emit_sinks.
BugScan(w) ==
    /\ pc[w] = "scan"
    /\ \/ \E v \in Verdicts :
            verdict' = [verdict EXCEPT ![w] = v] /\ Goto(w, "complete")
       \/ Goto(w, "abandon") /\ UNCHANGED verdict
    /\ UNCHANGED <<next, sent>>

\* run_pipeline returns a verdict, or raises.
Scan(w) ==
    /\ pc[w] = "scan"
    /\ \/ \E v \in Verdicts :
            /\ verdict' = [verdict EXCEPT ![w] = v]
            /\ next' = [next EXCEPT ![w] = 1]
            /\ Goto(w, IF v \in SinkVerdicts /\ NumSinks > 0 THEN "emit" ELSE "complete")
       \/ Goto(w, "abandon") /\ UNCHANGED <<verdict, next>>
    /\ UNCHANGED sent

SendTo(j, s) == [sent EXCEPT ![j][s] = IF @ < 2 THEN @ + 1 ELSE @]

\* Bug: a sink that raises hides the row from the sinks after it.
BugEmitFirst(w) ==
    /\ pc[w] = "emit"
    /\ sent' = SendTo(job[w], next[w])
    /\ \E label \in {"emit", "complete"} : Goto(w, label)
    /\ next' = [next EXCEPT ![w] = IF @ < NumSinks THEN @ + 1 ELSE @]
    /\ UNCHANGED verdict

\* One sink of _emit_sinks.  A sink that raises is logged as failed and the
\* next one follows; a log insert that raises in the handler ends in abandon.
Emit(w) ==
    /\ pc[w] = "emit"
    /\ sent' = SendTo(job[w], next[w])
    /\ \/ /\ next' = [next EXCEPT ![w] = @ + 1]
          /\ Goto(w, IF next[w] = NumSinks THEN "complete" ELSE "emit")
       \/ next' = next /\ Goto(w, "abandon")
    /\ UNCHANGED verdict

\* The locals of process_one go out of scope.
Forget(w) ==
    /\ job' = [job EXCEPT ![w] = NoRow]
    /\ verdict' = [verdict EXCEPT ![w] = "ERROR"]
    /\ next' = [next EXCEPT ![w] = 1]

\* The end of one turn of run_worker's loop.
EndTurn(w) ==
    /\ Forget(w)
    /\ IF ~Loop /\ count[w] + 1 >= MaxJobs
       THEN Leave(w)
       ELSE /\ pc' = [pc EXCEPT ![w] = "top"]
            /\ count' = IF Loop THEN count ELSE [count EXCEPT ![w] = @ + 1]

\* Bug: the UPDATE sets the result and leaves completed_at alone.
BugSettle(w, r) ==
    /\ result' = [result EXCEPT ![job[w]] = r]
    /\ EndTurn(w)
    /\ UNCHANGED <<present, prio, lockedBy, age, completed, history, crashes>>

\* UPDATE scan_queue SET completed_at, result WHERE id = ?
Settle(w, r) ==
    /\ completed' = completed \union {job[w]}
    /\ result' = [result EXCEPT ![job[w]] = r]
    /\ age' = [age EXCEPT ![job[w]] = 0]
    /\ EndTurn(w)
    /\ UNCHANGED <<present, prio, lockedBy, history, crashes>>

Complete(w) == pc[w] = "complete" /\ Settle(w, Done(verdict[w]))

\* Bug: the handler swallows the exception and the loop goes on.
BugCompleteRaises(w) ==
    /\ pc[w] = "complete"
    /\ EndTurn(w)
    /\ UNCHANGED <<rowVars, history, crashes>>

\* complete raises (the database stays locked): the handler abandons the row.
CompleteRaises(w) ==
    /\ pc[w] = "complete"
    /\ Goto(w, "abandon")
    /\ UNCHANGED <<verdict, next, sent>>

Abandon(w) == pc[w] = "abandon" /\ Settle(w, Err)

----------------------------------------------------------------------------
(* The life of a worker process *)

\* cron or the supervisor starts a process: fresh locals, the id as it was.
Start(w) ==
    /\ pc[w] = "crashed" \/ (pc[w] = "off" /\ RestartClean)
    /\ pc' = [pc EXCEPT ![w] = "top"]
    /\ UNCHANGED <<rowVars, job, verdict, next, count, history, crashes>>

\* A kill, or an exception abandon lets out of run_worker: the lock stays.
Crash(w) ==
    /\ pc[w] \notin Down /\ crashes < MaxCrashes
    /\ crashes' = crashes + 1
    /\ pc' = [pc EXCEPT ![w] = "crashed"]
    /\ count' = [count EXCEPT ![w] = 0]
    /\ dropped' = dropped \union ({job[w]} \ {NoRow})
    /\ Forget(w)
    /\ UNCHANGED <<rowVars, sent, wasReset>>

Work(w) ==
    \/ ResetStuck(w)
    \/ \E j \in Rows : Resume(w, j) \/ Take(w, j)
    \/ Idle(w)
    \/ Scan(w)
    \/ Emit(w)
    \/ Complete(w) \/ CompleteRaises(w)
    \/ Abandon(w)

Next ==
    \/ \E j \in Rows : Enqueue(j)
    \/ Tick
    \/ \E w \in Workers : Work(w) \/ Start(w) \/ Crash(w)

Spec == Init /\ [][Next]_vars

\* A process that runs gets its turns, time passes, and whoever supervises the
\* workers keeps starting them (as far as Start lets it).
Fairness ==
    /\ \A w \in Workers : WF_vars(Work(w))
    /\ WF_vars(Tick)
    /\ WF_vars(\E w \in Workers : Start(w))

FairSpec == Spec /\ Fairness

----------------------------------------------------------------------------
(* Properties *)

\* As long as reset_stuck has not touched a row, at most one worker has it in
\* hand, it is the one locked_by names, and the row is not completed yet.
ExclusiveUnlessReset ==
    \A w \in Workers, j \in Rows \ wasReset :
        job[w] = j => lockedBy[j] = w /\ j \notin completed

\* A row marked OK with a verdict that must be reported has been handed to
\* every configured sink, whatever crashed, was reset or was scanned twice.
AlertedBeforeOK ==
    \A j \in completed, v \in SinkVerdicts :
        result[j] = Done(v) => \A s \in Sinks : sent[j][s] >= 1

\* A sink gets the same row twice only if the lock of the row was reset or the
\* worker that had it was killed.
DuplicateAlertHasFault ==
    \A j \in Rows, s \in Sinks : sent[j][s] = 2 => j \in wasReset \union dropped

\* stats() classifies every row: a row is completed exactly when its result is
\* an outcome (OK or ERR), and a pending or inflight row never shows one.
OutcomeIffCompleted == \A j \in Rows : j \in completed <=> result[j] \in Outcomes

\* A completed row stays completed and no worker ever picks it up again.
CompletedIsFinal ==
    [][/\ completed \subseteq completed'
       /\ \A w \in Workers : job'[w] # job[w] => job'[w] \notin completed]_vars

\* The queue and its workers keep the promise of ScanLedger: alerts go out
\* before the outcome that calls for them, and only for rows that exist.
Ledger == INSTANCE ScanLedger WITH
    AlertOutcomes <- {Done(v) : v \in SinkVerdicts},
    Open <- NoResult,
    known <- present,
    alerted <- {a \in Rows \X Sinks : sent[a[1]][a[2]] >= 1},
    outcome <- [j \in Rows |-> IF j \in completed THEN result[j] ELSE NoResult]

KeepsLedger == Ledger!Spec

\* Every row that is inserted is completed in the end: the lock of a worker
\* that died is found stuck and another worker finishes the row.
EveryRowCompletes == \A j \in Rows : j \in present ~> j \in completed
============================================================================
