-------------------------- MODULE ScanQueueProofs --------------------------
(***************************************************************************)
(* Safety of the scan queue for any number of workers, rows and sinks.     *)
(* The inductive invariant IInv says, besides the types, who may hold a    *)
(* row, how far the alerts of the row in a worker's hands have gone, and   *)
(* that an undisturbed row was alerted only by the worker that has it or   *)
(* has completed it.                                                       *)
(***************************************************************************)
EXTENDS ScanQueue, TLAPS

\* A worker has a row in hand exactly while it is in process_one, and rows
\* that were not inserted yet are blank.
JobsArePresent ==
    /\ \A w \in Workers : pc[w] \in Busy <=> job[w] # NoRow
    /\ \A w \in Workers : job[w] # NoRow => job[w] \in present
    /\ completed \subseteq present
    /\ \A j \in Rows : lockedBy[j] # NoWorker => j \in present

\* The sinks before the next one have been tried; before complete, all have.
AlertsInOrder ==
    \A w \in Workers :
        /\ pc[w] = "emit" => /\ next[w] \in Sinks
                             /\ verdict[w] \in SinkVerdicts
                             /\ \A s \in Sinks : s < next[w] => sent[job[w]][s] >= 1
        /\ pc[w] = "complete" /\ verdict[w] \in SinkVerdicts =>
               \A s \in Sinks : sent[job[w]][s] >= 1

\* Worker w, with row j in hand, has already tried sink s.
HasTried(w, j, s) ==
    /\ job[w] = j
    /\ pc[w] # "scan"
    /\ pc[w] = "emit" => s < next[w]

\* Where the alerts of a row nothing disturbed come from.
AlertsAccounted ==
    \A j \in Rows \ (wasReset \union dropped), s \in Sinks :
        sent[j][s] >= 1 => /\ sent[j][s] = 1
                           /\ j \in completed \/ \E w \in Workers : HasTried(w, j, s)

IInv ==
    /\ TypeOK
    /\ JobsArePresent
    /\ ExclusiveUnlessReset
    /\ AlertsInOrder
    /\ AlertedBeforeOK
    /\ OutcomeIffCompleted
    /\ AlertsAccounted

----------------------------------------------------------------------------
(* The labels and results are told apart by their strings. *)

LEMMA OutcomeFacts ==
    /\ NoResult \notin Outcomes
    /\ ResetResult \notin Outcomes
    /\ Err \in Outcomes
    /\ \A v \in AllVerdicts : Done(v) \in Outcomes /\ Done(v) # Err
    /\ \A u, v \in AllVerdicts : Done(u) = Done(v) => u = v
    /\ SinkVerdicts \subseteq AllVerdicts
    /\ Outcomes \subseteq Results
  BY DEF NoResult, ResetResult, Outcomes, Err, Done, SinkVerdicts, AllVerdicts, Results

LEMMA InitIInv == Init => IInv
  <1> SUFFICES ASSUME Init PROVE IInv
    OBVIOUS
  <1> USE QueueAssumption DEF Init
  <1>1. TypeOK
    BY DEF TypeOK, Results, PCs, Down, Busy, AllVerdicts, Rows, Sinks, NoRow
  <1>2. JobsArePresent
    BY DEF JobsArePresent, Busy
  <1>3. ExclusiveUnlessReset
    BY DEF ExclusiveUnlessReset, Rows, NoRow
  <1>4. AlertsInOrder /\ AlertedBeforeOK /\ AlertsAccounted
    BY DEF AlertsInOrder, AlertedBeforeOK, AlertsAccounted
  <1>5. OutcomeIffCompleted
    BY OutcomeFacts DEF OutcomeIffCompleted
  <1>6. QED
    BY <1>1, <1>2, <1>3, <1>4, <1>5 DEF IInv

\* A step that sends no alert keeps the alerts accounted for if every worker
\* that had tried a sink still has the row, completes it or is killed with it.
LEMMA AccountedKept ==
  ASSUME AlertsAccounted, sent' = sent,
         completed \subseteq completed', wasReset \subseteq wasReset', dropped \subseteq dropped',
         \A w \in Workers, j \in Rows, s \in Sinks :
             HasTried(w, j, s) => HasTried(w, j, s)' \/ j \in completed' \/ j \in dropped'
  PROVE  AlertsAccounted'
  <1> SUFFICES ASSUME NEW j \in Rows \ (wasReset' \union dropped'), NEW s \in Sinks, sent[j][s] >= 1
               PROVE  /\ sent[j][s] = 1
                      /\ j \in completed' \/ \E w \in Workers : HasTried(w, j, s)'
    BY DEF AlertsAccounted
  <1>1. /\ sent[j][s] = 1
        /\ j \in completed \/ \E w \in Workers : HasTried(w, j, s)
    BY DEF AlertsAccounted
  <1>2. CASE j \in completed
    BY <1>1, <1>2
  <1>3. ASSUME NEW w \in Workers, HasTried(w, j, s)
        PROVE  j \in completed' \/ HasTried(w, j, s)'
    BY <1>3
  <1>4. QED
    BY <1>1, <1>2, <1>3

----------------------------------------------------------------------------
(* Every step keeps it. *)

\* A new row is blank and nobody's.
LEMMA EnqueueStep == ASSUME IInv, NEW j \in Rows, Enqueue(j) PROVE IInv'
  <1> USE QueueAssumption, OutcomeFacts DEF IInv, Enqueue
  <1>1. TypeOK'
    BY DEF TypeOK, PCs, Down, Busy, Rows, NoRow, rowVars, workerVars, history
  <1>2. JobsArePresent'
    BY <1>1 DEF JobsArePresent, TypeOK, Busy, NoRow, rowVars, workerVars, history
  <1>3. ExclusiveUnlessReset'
    BY <1>1, <1>2 DEF ExclusiveUnlessReset, TypeOK, JobsArePresent, Rows, NoRow, rowVars, workerVars, history
  <1>4. AlertsInOrder'
    BY <1>1, <1>2 DEF AlertsInOrder, TypeOK, JobsArePresent, Busy, Rows, Sinks, NoRow, rowVars, workerVars, history
  <1>5. AlertedBeforeOK'
    BY <1>1 DEF AlertedBeforeOK, TypeOK, rowVars, workerVars, history
  <1>6. OutcomeIffCompleted'
    BY <1>1, <1>2 DEF OutcomeIffCompleted, TypeOK, JobsArePresent, rowVars, workerVars, history
  <1>7. AlertsAccounted'
    <2>1. \A v \in Workers, i \in Rows, s \in Sinks :
             HasTried(v, i, s) => HasTried(v, i, s)' \/ i \in completed' \/ i \in dropped'
      BY DEF HasTried, TypeOK, JobsArePresent, Busy, Rows, NoRow, Sinks, rowVars, workerVars, history
    <2>2. /\ sent' = sent /\ completed \subseteq completed'
          /\ wasReset \subseteq wasReset' /\ dropped \subseteq dropped'
      BY DEF rowVars, workerVars, history
    <2>3. QED
      BY <2>1, <2>2, AccountedKept
  <1>8. QED
    BY <1>1, <1>2, <1>3, <1>4, <1>5, <1>6, <1>7

\* Only the ages move.
LEMMA TickStep == ASSUME IInv, Tick PROVE IInv'
  <1> USE QueueAssumption, OutcomeFacts DEF IInv, Tick, Inflight
  <1>1. TypeOK'
    <2>1. /\ present' \subseteq Rows /\ completed' \subseteq Rows
          /\ wasReset' \subseteq Rows /\ dropped' \subseteq Rows
      BY DEF TypeOK, JobsArePresent, Busy, Rows, NoRow, rowVars, workerVars, history
    <2>2. /\ prio' \in [Rows -> Nat] /\ lockedBy' \in [Rows -> Workers \union {NoWorker}]
          /\ result' \in [Rows -> Results]
      BY DEF TypeOK, JobsArePresent, Busy, Results, NoRow, rowVars, workerVars, history
    <2>3. age' \in [Rows -> 0..StuckAfter + 1]
      BY DEF TypeOK, JobsArePresent, Busy, NoRow, rowVars, workerVars, history
    <2>4. pc' \in [Workers -> PCs] /\ job' \in [Workers -> Rows \union {NoRow}]
      BY DEF TypeOK, PCs, Down, Busy, rowVars, workerVars, history
    <2>5. verdict' \in [Workers -> AllVerdicts]
      BY DEF TypeOK, AllVerdicts, rowVars, workerVars, history
    <2>6. next' \in [Workers -> 1..NumSinks + 1]
      BY DEF TypeOK, AlertsInOrder, Sinks, rowVars, workerVars, history
    <2>7. count' \in [Workers -> 0..MaxJobs]
      BY DEF TypeOK, rowVars, workerVars, history
    <2>8. sent' \in [Rows -> [Sinks -> 0..2]] /\ crashes' \in 0..MaxCrashes
      BY DEF TypeOK, JobsArePresent, AlertsInOrder, Busy, NoRow, rowVars, workerVars, history
    <2>9. QED
      BY <2>1, <2>2, <2>3, <2>4, <2>5, <2>6, <2>7, <2>8 DEF TypeOK
  <1>2. JobsArePresent'
    BY <1>1 DEF JobsArePresent, TypeOK, Busy, NoRow, rowVars, workerVars, history
  <1>3. ExclusiveUnlessReset'
    BY <1>1, <1>2 DEF ExclusiveUnlessReset, TypeOK, JobsArePresent, Rows, NoRow, rowVars, workerVars, history
  <1>4. AlertsInOrder'
    BY <1>1, <1>2 DEF AlertsInOrder, TypeOK, JobsArePresent, Busy, Rows, Sinks, NoRow, rowVars, workerVars, history
  <1>5. AlertedBeforeOK'
    BY <1>1 DEF AlertedBeforeOK, TypeOK, rowVars, workerVars, history
  <1>6. OutcomeIffCompleted'
    BY <1>1, <1>2 DEF OutcomeIffCompleted, TypeOK, JobsArePresent, rowVars, workerVars, history
  <1>7. AlertsAccounted'
    <2>1. \A v \in Workers, i \in Rows, s \in Sinks :
             HasTried(v, i, s) => HasTried(v, i, s)' \/ i \in completed' \/ i \in dropped'
      BY DEF HasTried, TypeOK, JobsArePresent, Busy, Rows, NoRow, Sinks, rowVars, workerVars, history
    <2>2. /\ sent' = sent /\ completed \subseteq completed'
          /\ wasReset \subseteq wasReset' /\ dropped \subseteq dropped'
      BY DEF rowVars, workerVars, history
    <2>3. QED
      BY <2>1, <2>2, AccountedKept
  <1>8. QED
    BY <1>1, <1>2, <1>3, <1>4, <1>5, <1>6, <1>7

\* The rows that lose their lock are marked as reset.
LEMMA ResetStuckStep == ASSUME IInv, NEW w \in Workers, ResetStuck(w) PROVE IInv'
  <1> USE QueueAssumption, OutcomeFacts DEF IInv, ResetStuck, Stuck, Inflight
  <1>1. TypeOK'
    <2>1. /\ present' \subseteq Rows /\ completed' \subseteq Rows
          /\ wasReset' \subseteq Rows /\ dropped' \subseteq Rows
      BY DEF TypeOK, JobsArePresent, Busy, Rows, NoRow, rowVars, workerVars, history
    <2>2. /\ prio' \in [Rows -> Nat] /\ lockedBy' \in [Rows -> Workers \union {NoWorker}]
          /\ result' \in [Rows -> Results]
      BY DEF TypeOK, JobsArePresent, Busy, Results, NoRow, rowVars, workerVars, history
    <2>3. age' \in [Rows -> 0..StuckAfter + 1]
      BY DEF TypeOK, JobsArePresent, Busy, NoRow, rowVars, workerVars, history
    <2>4. pc' \in [Workers -> PCs] /\ job' \in [Workers -> Rows \union {NoRow}]
      BY DEF TypeOK, PCs, Down, Busy, rowVars, workerVars, history
    <2>5. verdict' \in [Workers -> AllVerdicts]
      BY DEF TypeOK, AllVerdicts, rowVars, workerVars, history
    <2>6. next' \in [Workers -> 1..NumSinks + 1]
      BY DEF TypeOK, AlertsInOrder, Sinks, rowVars, workerVars, history
    <2>7. count' \in [Workers -> 0..MaxJobs]
      BY DEF TypeOK, rowVars, workerVars, history
    <2>8. sent' \in [Rows -> [Sinks -> 0..2]] /\ crashes' \in 0..MaxCrashes
      BY DEF TypeOK, JobsArePresent, AlertsInOrder, Busy, NoRow, rowVars, workerVars, history
    <2>9. QED
      BY <2>1, <2>2, <2>3, <2>4, <2>5, <2>6, <2>7, <2>8 DEF TypeOK
  <1>2. JobsArePresent'
    BY <1>1 DEF JobsArePresent, TypeOK, Busy, NoRow, rowVars, workerVars, history
  <1>3. ExclusiveUnlessReset'
    BY <1>1, <1>2 DEF ExclusiveUnlessReset, TypeOK, JobsArePresent, Rows, NoRow, rowVars, workerVars, history
  <1>4. AlertsInOrder'
    BY <1>1, <1>2 DEF AlertsInOrder, TypeOK, JobsArePresent, Busy, Rows, Sinks, NoRow, rowVars, workerVars, history
  <1>5. AlertedBeforeOK'
    BY <1>1 DEF AlertedBeforeOK, TypeOK, rowVars, workerVars, history
  <1>6. OutcomeIffCompleted'
    BY <1>1, <1>2 DEF OutcomeIffCompleted, TypeOK, JobsArePresent, rowVars, workerVars, history
  <1>7. AlertsAccounted'
    <2>1. \A v \in Workers, i \in Rows, s \in Sinks :
             HasTried(v, i, s) => HasTried(v, i, s)' \/ i \in completed' \/ i \in dropped'
      BY DEF HasTried, TypeOK, JobsArePresent, Busy, Rows, NoRow, Sinks, rowVars, workerVars, history
    <2>2. /\ sent' = sent /\ completed \subseteq completed'
          /\ wasReset \subseteq wasReset' /\ dropped \subseteq dropped'
      BY DEF rowVars, workerVars, history
    <2>3. QED
      BY <2>1, <2>2, AccountedKept
  <1>8. QED
    BY <1>1, <1>2, <1>3, <1>4, <1>5, <1>6, <1>7

\* The row was this id's already: nobody else had it unless it was reset.
LEMMA ResumeStep == ASSUME IInv, NEW w \in Workers, NEW j \in Rows, Resume(w, j) PROVE IInv'
  <1> USE QueueAssumption, OutcomeFacts DEF IInv, Resume
  <1>0. /\ j \in present /\ j \notin completed /\ pc[w] = "lock" /\ job[w] = NoRow
        /\ lockedBy[j] = w /\ j # NoRow
    BY DEF IsFirst, Own, JobsArePresent, Busy, Rows, NoRow
  <1>1. TypeOK'
    BY <1>0 DEF TypeOK, PCs, Down, Busy, Rows, NoRow, rowVars, workerVars, history
  <1>2. JobsArePresent'
    BY <1>0, <1>1 DEF JobsArePresent, TypeOK, Busy, NoRow, rowVars, workerVars, history
  <1>3. ExclusiveUnlessReset'
    <2> SUFFICES ASSUME NEW v \in Workers, NEW i \in Rows \ wasReset, job'[v] = i
                 PROVE  lockedBy'[i] = v /\ i \notin completed
      BY DEF ExclusiveUnlessReset, rowVars, history
    <2>1. CASE v = w
      BY <1>0, <2>1 DEF TypeOK, rowVars
    <2>2. CASE v # w
      <3>1. job[v] = i
        BY <2>2 DEF TypeOK
      <3>2. lockedBy[i] = v /\ i \notin completed
        BY <3>1 DEF ExclusiveUnlessReset
      <3>3. QED
        BY <3>2 DEF TypeOK, rowVars
    <2>3. QED
      BY <2>1, <2>2
  <1>4. AlertsInOrder'
    BY <1>1, <1>2 DEF AlertsInOrder, TypeOK, JobsArePresent, Busy, Rows, Sinks, NoRow, rowVars, workerVars, history
  <1>5. AlertedBeforeOK'
    BY <1>1 DEF AlertedBeforeOK, TypeOK, rowVars, workerVars, history
  <1>6. OutcomeIffCompleted'
    BY <1>1, <1>2 DEF OutcomeIffCompleted, TypeOK, JobsArePresent, rowVars, workerVars, history
  <1>7. AlertsAccounted'
    <2>1. \A v \in Workers, i \in Rows, s \in Sinks :
             HasTried(v, i, s) => HasTried(v, i, s)' \/ i \in completed' \/ i \in dropped'
      BY <1>0 DEF HasTried, TypeOK, Rows, NoRow, rowVars, workerVars, history
    <2>2. /\ sent' = sent /\ completed \subseteq completed'
          /\ wasReset \subseteq wasReset' /\ dropped \subseteq dropped'
      BY DEF rowVars, workerVars, history
    <2>3. QED
      BY <2>1, <2>2, AccountedKept
  <1>8. QED
    BY <1>1, <1>2, <1>3, <1>4, <1>5, <1>6, <1>7

\* A pending row is in nobody's hands unless it was reset.
LEMMA TakeStep == ASSUME IInv, NEW w \in Workers, NEW j \in Rows, Take(w, j) PROVE IInv'
  <1> USE QueueAssumption, OutcomeFacts DEF IInv, Take
  <1>0. /\ j \in present /\ j \notin completed /\ pc[w] = "lock" /\ job[w] = NoRow
        /\ lockedBy[j] = NoWorker /\ j # NoRow
    BY DEF IsFirst, Pending, Own, JobsArePresent, Busy, Rows, NoRow
  <1>1. TypeOK'
    <2>1. /\ present' \subseteq Rows /\ completed' \subseteq Rows
          /\ wasReset' \subseteq Rows /\ dropped' \subseteq Rows
      BY DEF TypeOK, JobsArePresent, Busy, Rows, NoRow, rowVars, workerVars, history
    <2>2. /\ prio' \in [Rows -> Nat] /\ lockedBy' \in [Rows -> Workers \union {NoWorker}]
          /\ result' \in [Rows -> Results]
      BY DEF TypeOK, JobsArePresent, Busy, Results, NoRow, rowVars, workerVars, history
    <2>3. age' \in [Rows -> 0..StuckAfter + 1]
      BY DEF TypeOK, JobsArePresent, Busy, NoRow, rowVars, workerVars, history
    <2>4. pc' \in [Workers -> PCs] /\ job' \in [Workers -> Rows \union {NoRow}]
      BY DEF TypeOK, PCs, Down, Busy, rowVars, workerVars, history
    <2>5. verdict' \in [Workers -> AllVerdicts]
      BY DEF TypeOK, AllVerdicts, rowVars, workerVars, history
    <2>6. next' \in [Workers -> 1..NumSinks + 1]
      BY DEF TypeOK, AlertsInOrder, Sinks, rowVars, workerVars, history
    <2>7. count' \in [Workers -> 0..MaxJobs]
      BY DEF TypeOK, rowVars, workerVars, history
    <2>8. sent' \in [Rows -> [Sinks -> 0..2]] /\ crashes' \in 0..MaxCrashes
      BY DEF TypeOK, JobsArePresent, AlertsInOrder, Busy, NoRow, rowVars, workerVars, history
    <2>9. QED
      BY <2>1, <2>2, <2>3, <2>4, <2>5, <2>6, <2>7, <2>8 DEF TypeOK
  <1>2. JobsArePresent'
    <2>1. \A v \in Workers : /\ pc'[v] \in Busy <=> job'[v] # NoRow
                             /\ job'[v] # NoRow => job'[v] \in present
      BY <1>0 DEF JobsArePresent, TypeOK, Busy
    <2>2. \A i \in Rows : lockedBy'[i] # NoWorker => i \in present
      BY <1>0 DEF JobsArePresent, TypeOK
    <2>3. QED
      BY <2>1, <2>2 DEF JobsArePresent
  <1>3. ExclusiveUnlessReset'
    <2> SUFFICES ASSUME NEW v \in Workers, NEW i \in Rows \ wasReset, job'[v] = i
                 PROVE  lockedBy'[i] = v /\ i \notin completed
      BY DEF ExclusiveUnlessReset, rowVars, history
    <2>1. CASE v = w
      BY <1>0, <2>1 DEF TypeOK, rowVars
    <2>2. CASE v # w
      <3>1. job[v] = i
        BY <2>2 DEF TypeOK
      <3>2. lockedBy[i] = v /\ i \notin completed
        BY <3>1 DEF ExclusiveUnlessReset
      <3>3. QED
        BY <1>0, <3>2, QueueAssumption DEF TypeOK, rowVars
    <2>3. QED
      BY <2>1, <2>2
  <1>4. AlertsInOrder'
    BY <1>1, <1>2 DEF AlertsInOrder, TypeOK, JobsArePresent, Busy, Rows, Sinks, NoRow, rowVars, workerVars, history
  <1>5. AlertedBeforeOK'
    BY <1>1 DEF AlertedBeforeOK, TypeOK, rowVars, workerVars, history
  <1>6. OutcomeIffCompleted'
    BY <1>1, <1>2 DEF OutcomeIffCompleted, TypeOK, JobsArePresent, rowVars, workerVars, history
  <1>7. AlertsAccounted'
    <2>1. \A v \in Workers, i \in Rows, s \in Sinks :
             HasTried(v, i, s) => HasTried(v, i, s)' \/ i \in completed' \/ i \in dropped'
      BY <1>0 DEF HasTried, TypeOK, Rows, NoRow, rowVars, workerVars, history
    <2>2. /\ sent' = sent /\ completed \subseteq completed'
          /\ wasReset \subseteq wasReset' /\ dropped \subseteq dropped'
      BY DEF rowVars, workerVars, history
    <2>3. QED
      BY <2>1, <2>2, AccountedKept
  <1>8. QED
    BY <1>1, <1>2, <1>3, <1>4, <1>5, <1>6, <1>7

\* No row changes hands.
LEMMA IdleStep == ASSUME IInv, NEW w \in Workers, Idle(w) PROVE IInv'
  <1> USE QueueAssumption, OutcomeFacts DEF IInv, Idle, Leave, Own, Pending
  <1>1. TypeOK'
    <2>1. /\ present' \subseteq Rows /\ completed' \subseteq Rows
          /\ wasReset' \subseteq Rows /\ dropped' \subseteq Rows
      BY DEF TypeOK, JobsArePresent, Busy, Rows, NoRow, rowVars, workerVars, history
    <2>2. /\ prio' \in [Rows -> Nat] /\ lockedBy' \in [Rows -> Workers \union {NoWorker}]
          /\ result' \in [Rows -> Results]
      BY DEF TypeOK, JobsArePresent, Busy, Results, NoRow, rowVars, workerVars, history
    <2>3. age' \in [Rows -> 0..StuckAfter + 1]
      BY DEF TypeOK, JobsArePresent, Busy, NoRow, rowVars, workerVars, history
    <2>4. pc' \in [Workers -> PCs] /\ job' \in [Workers -> Rows \union {NoRow}]
      BY DEF TypeOK, PCs, Down, Busy, rowVars, workerVars, history
    <2>5. verdict' \in [Workers -> AllVerdicts]
      BY DEF TypeOK, AllVerdicts, rowVars, workerVars, history
    <2>6. next' \in [Workers -> 1..NumSinks + 1]
      BY DEF TypeOK, AlertsInOrder, Sinks, rowVars, workerVars, history
    <2>7. count' \in [Workers -> 0..MaxJobs]
      BY DEF TypeOK, rowVars, workerVars, history
    <2>8. sent' \in [Rows -> [Sinks -> 0..2]] /\ crashes' \in 0..MaxCrashes
      BY DEF TypeOK, JobsArePresent, AlertsInOrder, Busy, NoRow, rowVars, workerVars, history
    <2>9. QED
      BY <2>1, <2>2, <2>3, <2>4, <2>5, <2>6, <2>7, <2>8 DEF TypeOK
  <1>2. JobsArePresent'
    BY <1>1 DEF JobsArePresent, TypeOK, Busy, NoRow, rowVars, workerVars, history
  <1>3. ExclusiveUnlessReset'
    BY <1>1, <1>2 DEF ExclusiveUnlessReset, TypeOK, JobsArePresent, Rows, NoRow, rowVars, workerVars, history
  <1>4. AlertsInOrder'
    BY <1>1, <1>2 DEF AlertsInOrder, TypeOK, JobsArePresent, Busy, Rows, Sinks, NoRow, rowVars, workerVars, history
  <1>5. AlertedBeforeOK'
    BY <1>1 DEF AlertedBeforeOK, TypeOK, rowVars, workerVars, history
  <1>6. OutcomeIffCompleted'
    BY <1>1, <1>2 DEF OutcomeIffCompleted, TypeOK, JobsArePresent, rowVars, workerVars, history
  <1>7. AlertsAccounted'
    <2>1. \A v \in Workers, i \in Rows, s \in Sinks :
             HasTried(v, i, s) => HasTried(v, i, s)' \/ i \in completed' \/ i \in dropped'
      <3>1. job' = job /\ next' = next /\ job[w] \notin Rows
        BY DEF JobsArePresent, Busy, Rows, NoRow
      <3>2. \A v \in Workers : v # w => pc'[v] = pc[v]
        BY DEF TypeOK
      <3>3. QED
        BY <3>1, <3>2 DEF HasTried
    <2>2. /\ sent' = sent /\ completed \subseteq completed'
          /\ wasReset \subseteq wasReset' /\ dropped \subseteq dropped'
      BY DEF rowVars, workerVars, history
    <2>3. QED
      BY <2>1, <2>2, AccountedKept
  <1>8. QED
    BY <1>1, <1>2, <1>3, <1>4, <1>5, <1>6, <1>7

\* The alerts of the row start from the first sink.
LEMMA ScanStep == ASSUME IInv, NEW w \in Workers, Scan(w) PROVE IInv'
  <1> USE QueueAssumption, OutcomeFacts DEF IInv, Scan, Goto
  <1>1. TypeOK'
    <2>1. /\ present' \subseteq Rows /\ completed' \subseteq Rows
          /\ wasReset' \subseteq Rows /\ dropped' \subseteq Rows
      BY DEF TypeOK, JobsArePresent, Busy, Rows, NoRow, rowVars, workerVars, history
    <2>2. /\ prio' \in [Rows -> Nat] /\ lockedBy' \in [Rows -> Workers \union {NoWorker}]
          /\ result' \in [Rows -> Results]
      BY DEF TypeOK, JobsArePresent, Busy, Results, NoRow, rowVars, workerVars, history
    <2>3. age' \in [Rows -> 0..StuckAfter + 1]
      BY DEF TypeOK, JobsArePresent, Busy, NoRow, rowVars, workerVars, history
    <2>4. pc' \in [Workers -> PCs] /\ job' \in [Workers -> Rows \union {NoRow}]
      BY DEF TypeOK, PCs, Down, Busy, rowVars, workerVars, history
    <2>5. verdict' \in [Workers -> AllVerdicts]
      BY DEF TypeOK, AllVerdicts, rowVars, workerVars, history
    <2>6. next' \in [Workers -> 1..NumSinks + 1]
      BY DEF TypeOK, AlertsInOrder, Sinks, rowVars, workerVars, history
    <2>7. count' \in [Workers -> 0..MaxJobs]
      BY DEF TypeOK, rowVars, workerVars, history
    <2>8. sent' \in [Rows -> [Sinks -> 0..2]] /\ crashes' \in 0..MaxCrashes
      BY DEF TypeOK, JobsArePresent, AlertsInOrder, Busy, NoRow, rowVars, workerVars, history
    <2>9. QED
      BY <2>1, <2>2, <2>3, <2>4, <2>5, <2>6, <2>7, <2>8 DEF TypeOK
  <1>2. JobsArePresent'
    BY <1>1 DEF JobsArePresent, TypeOK, Busy, NoRow, rowVars, workerVars, history
  <1>3. ExclusiveUnlessReset'
    BY <1>1, <1>2 DEF ExclusiveUnlessReset, TypeOK, JobsArePresent, Rows, NoRow, rowVars, workerVars, history
  <1>4. AlertsInOrder'
    <2> SUFFICES ASSUME NEW v \in Workers
                 PROVE  AlertsInOrder!(v)'
      BY DEF AlertsInOrder
    <2>1. CASE v # w
      BY <2>1 DEF AlertsInOrder, TypeOK, JobsArePresent, ExclusiveUnlessReset, rowVars, workerVars, history
    <2>2. CASE v = w
      BY <2>2 DEF TypeOK, Sinks, AllVerdicts, SinkVerdicts
    <2>3. QED
      BY <2>1, <2>2
  <1>5. AlertedBeforeOK'
    BY <1>1 DEF AlertedBeforeOK, TypeOK, rowVars, workerVars, history
  <1>6. OutcomeIffCompleted'
    BY <1>1, <1>2 DEF OutcomeIffCompleted, TypeOK, JobsArePresent, rowVars, workerVars, history
  <1>7. AlertsAccounted'
    <2>1. \A v \in Workers, i \in Rows, s \in Sinks :
             HasTried(v, i, s) => HasTried(v, i, s)' \/ i \in completed' \/ i \in dropped'
      BY DEF HasTried, TypeOK, JobsArePresent, Busy, Rows, NoRow, Sinks, rowVars, workerVars, history
    <2>2. /\ sent' = sent /\ completed \subseteq completed'
          /\ wasReset \subseteq wasReset' /\ dropped \subseteq dropped'
      BY DEF rowVars, workerVars, history
    <2>3. QED
      BY <2>1, <2>2, AccountedKept
  <1>8. QED
    BY <1>1, <1>2, <1>3, <1>4, <1>5, <1>6, <1>7

\* One more sink has the row: the one next names.
LEMMA EmitStep == ASSUME IInv, NEW w \in Workers, Emit(w) PROVE IInv'
  <1> USE QueueAssumption, OutcomeFacts DEF IInv, Emit, Goto, SendTo
  <1>0. /\ pc[w] = "emit" /\ job[w] \in Rows /\ next[w] \in Sinks
        /\ verdict[w] \in SinkVerdicts /\ pc'[w] \in {"emit", "complete", "abandon"}
        /\ job' = job /\ verdict' = verdict /\ completed' = completed
        /\ wasReset' = wasReset /\ dropped' = dropped
    BY DEF TypeOK, JobsArePresent, AlertsInOrder, Busy, NoRow, rowVars
  <1>1. TypeOK'
    <2>1. /\ present' \subseteq Rows /\ completed' \subseteq Rows
          /\ wasReset' \subseteq Rows /\ dropped' \subseteq Rows
      BY DEF TypeOK, JobsArePresent, Busy, Rows, NoRow, rowVars, workerVars, history
    <2>2. /\ prio' \in [Rows -> Nat] /\ lockedBy' \in [Rows -> Workers \union {NoWorker}]
          /\ result' \in [Rows -> Results]
      BY DEF TypeOK, JobsArePresent, Busy, Results, NoRow, rowVars, workerVars, history
    <2>3. age' \in [Rows -> 0..StuckAfter + 1]
      BY DEF TypeOK, JobsArePresent, Busy, NoRow, rowVars, workerVars, history
    <2>4. pc' \in [Workers -> PCs] /\ job' \in [Workers -> Rows \union {NoRow}]
      BY DEF TypeOK, PCs, Down, Busy, rowVars, workerVars, history
    <2>5. verdict' \in [Workers -> AllVerdicts]
      BY DEF TypeOK, AllVerdicts, rowVars, workerVars, history
    <2>6. next' \in [Workers -> 1..NumSinks + 1]
      <3>1. next[w] + 1 \in 1..NumSinks + 1
        BY <1>0 DEF Sinks
      <3>2. next' = next \/ next' = [next EXCEPT ![w] = next[w] + 1]
        OBVIOUS
      <3>3. QED
        BY <3>1, <3>2 DEF TypeOK
    <2>7. count' \in [Workers -> 0..MaxJobs]
      BY DEF TypeOK, rowVars, workerVars, history
    <2>8. sent' \in [Rows -> [Sinks -> 0..2]] /\ crashes' \in 0..MaxCrashes
      BY DEF TypeOK, JobsArePresent, AlertsInOrder, Busy, NoRow, rowVars, workerVars, history
    <2>9. QED
      BY <2>1, <2>2, <2>3, <2>4, <2>5, <2>6, <2>7, <2>8 DEF TypeOK
  <1>2. JobsArePresent'
    BY <1>1 DEF JobsArePresent, TypeOK, Busy, NoRow, rowVars, workerVars, history
  <1>3. ExclusiveUnlessReset'
    BY <1>1, <1>2 DEF ExclusiveUnlessReset, TypeOK, JobsArePresent, Rows, NoRow, rowVars, workerVars, history
  <1>a. \A i \in Rows, s \in Sinks :
           /\ sent'[i][s] >= sent[i][s]
           /\ i = job[w] /\ s = next[w] => sent'[i][s] >= 1
           /\ i # job[w] \/ s # next[w] => sent'[i][s] = sent[i][s]
    BY <1>0 DEF TypeOK
  <1>4. AlertsInOrder'
    <2> SUFFICES ASSUME NEW v \in Workers
                 PROVE  AlertsInOrder!(v)'
      BY DEF AlertsInOrder
    <2>1. CASE v # w
      <3>1. pc'[v] = pc[v] /\ next'[v] = next[v] /\ job'[v] = job[v] /\ verdict'[v] = verdict[v]
        BY <1>0, <2>1 DEF TypeOK
      <3>2. pc[v] \in {"emit", "complete"} => job[v] \in Rows
        BY DEF TypeOK, JobsArePresent, Busy
      <3>3. \A s \in Sinks : job[v] \in Rows /\ sent[job[v]][s] >= 1 => sent'[job[v]][s] >= 1
        BY <1>a DEF TypeOK
      <3>4. QED
        BY <3>1, <3>2, <3>3 DEF AlertsInOrder
    <2>2. CASE v = w
      <3>1. \A s \in Sinks : s < next[w] => sent'[job[w]][s] >= 1
        BY <1>0, <1>a DEF AlertsInOrder, TypeOK, Sinks
      <3>2. \A s \in Sinks : s =< next[w] => sent'[job[w]][s] >= 1
        BY <1>0, <1>a, <3>1 DEF Sinks
      <3>3. CASE pc'[w] = "abandon"
        BY <2>2, <3>3
      <3>4. CASE pc'[w] = "emit"
        BY <1>0, <2>2, <3>2, <3>4 DEF TypeOK, Sinks
      <3>5. CASE pc'[w] = "complete"
        BY <1>0, <2>2, <3>2, <3>5 DEF TypeOK, Sinks
      <3>6. QED
        BY <1>0, <3>3, <3>4, <3>5
    <2>3. QED
      BY <2>1, <2>2
  <1>5. AlertedBeforeOK'
    BY <1>0, <1>a DEF AlertedBeforeOK, TypeOK, rowVars
  <1>6. OutcomeIffCompleted'
    BY <1>1, <1>2 DEF OutcomeIffCompleted, TypeOK, JobsArePresent, rowVars, workerVars, history
  <1>7. AlertsAccounted'
    <2> SUFFICES ASSUME NEW i \in Rows \ (wasReset \union dropped), NEW s \in Sinks, sent'[i][s] >= 1
                 PROVE  /\ sent'[i][s] = 1
                        /\ i \in completed \/ \E v \in Workers : HasTried(v, i, s)'
      BY <1>0 DEF AlertsAccounted
    <2>1. CASE i = job[w] /\ s = next[w]
      <3>1. lockedBy[i] = w /\ i \notin completed
        BY <2>1 DEF ExclusiveUnlessReset
      <3>2. \A v \in Workers : ~HasTried(v, i, s)
        BY <1>0, <2>1, <3>1 DEF HasTried, ExclusiveUnlessReset, TypeOK, Sinks
      <3>3. sent[i][s] = 0
        BY <3>1, <3>2 DEF AlertsAccounted, TypeOK
      <3>4. sent'[i][s] = 1
        BY <2>1, <3>3 DEF TypeOK
      <3>5. HasTried(w, i, s)'
        BY <1>0, <2>1 DEF HasTried, TypeOK, Sinks
      <3>6. QED
        BY <3>4, <3>5
    <2>2. CASE i # job[w] \/ s # next[w]
      <3>1. /\ sent'[i][s] = sent[i][s] /\ sent[i][s] = 1
            /\ i \in completed \/ \E v \in Workers : HasTried(v, i, s)
        BY <1>a, <2>2 DEF AlertsAccounted
      <3>2. ASSUME NEW v \in Workers, HasTried(v, i, s)
            PROVE  HasTried(v, i, s)'
        <4>1. CASE v = w
          <5>1. i = job[w] /\ s < next[w]
            BY <1>0, <3>2, <4>1 DEF HasTried
          <5>2. pc'[w] # "scan" /\ (pc'[w] = "emit" => next'[w] = next[w] + 1)
            BY <1>0 DEF TypeOK
          <5>3. QED
            BY <1>0, <4>1, <5>1, <5>2 DEF HasTried, Sinks
        <4>2. CASE v # w
          <5>1. pc'[v] = pc[v] /\ next'[v] = next[v]
            BY <4>2 DEF TypeOK
          <5>2. QED
            BY <1>0, <3>2, <5>1 DEF HasTried
        <4>3. QED
          BY <4>1, <4>2
      <3>3. QED
        BY <3>1, <3>2
    <2>3. QED
      BY <2>1, <2>2
  <1>8. QED
    BY <1>1, <1>2, <1>3, <1>4, <1>5, <1>6, <1>7

\* The row stays in hand, unsettled.
LEMMA CompleteRaisesStep == ASSUME IInv, NEW w \in Workers, CompleteRaises(w) PROVE IInv'
  <1> USE QueueAssumption, OutcomeFacts DEF IInv, CompleteRaises, Goto
  <1>1. TypeOK'
    BY DEF TypeOK, PCs, Down, Busy, Rows, NoRow, rowVars, workerVars, history
  <1>2. JobsArePresent'
    BY <1>1 DEF JobsArePresent, TypeOK, Busy, NoRow, rowVars, workerVars, history
  <1>3. ExclusiveUnlessReset'
    BY <1>1, <1>2 DEF ExclusiveUnlessReset, TypeOK, JobsArePresent, Rows, NoRow, rowVars, workerVars, history
  <1>4. AlertsInOrder'
    BY <1>1, <1>2 DEF AlertsInOrder, TypeOK, JobsArePresent, Busy, Rows, Sinks, NoRow, rowVars, workerVars, history
  <1>5. AlertedBeforeOK'
    BY <1>1 DEF AlertedBeforeOK, TypeOK, rowVars, workerVars, history
  <1>6. OutcomeIffCompleted'
    BY <1>1, <1>2 DEF OutcomeIffCompleted, TypeOK, JobsArePresent, rowVars, workerVars, history
  <1>7. AlertsAccounted'
    <2>1. \A v \in Workers, i \in Rows, s \in Sinks :
             HasTried(v, i, s) => HasTried(v, i, s)' \/ i \in completed' \/ i \in dropped'
      BY DEF HasTried, TypeOK, JobsArePresent, Busy, Rows, NoRow, Sinks, rowVars, workerVars, history
    <2>2. /\ sent' = sent /\ completed \subseteq completed'
          /\ wasReset \subseteq wasReset' /\ dropped \subseteq dropped'
      BY DEF rowVars, workerVars, history
    <2>3. QED
      BY <2>1, <2>2, AccountedKept
  <1>8. QED
    BY <1>1, <1>2, <1>3, <1>4, <1>5, <1>6, <1>7

\* The row gets its OK; its alerts were sent if the verdict needs them.
LEMMA CompleteStep == ASSUME IInv, NEW w \in Workers, Complete(w) PROVE IInv'
  <1> USE QueueAssumption, OutcomeFacts DEF IInv, Complete, Settle, EndTurn, Forget, Leave
  <1>1. TypeOK'
    <2>1. /\ present' \subseteq Rows /\ completed' \subseteq Rows
          /\ wasReset' \subseteq Rows /\ dropped' \subseteq Rows
      BY DEF TypeOK, JobsArePresent, Busy, rowVars, workerVars, history
    <2>2. /\ prio' \in [Rows -> Nat] /\ lockedBy' \in [Rows -> Workers \union {NoWorker}]
          /\ result' \in [Rows -> Results]
      BY DEF TypeOK, JobsArePresent, Busy, Results, NoRow, rowVars, workerVars, history
    <2>3. age' \in [Rows -> 0..StuckAfter + 1]
      BY DEF TypeOK, JobsArePresent, Busy, NoRow, rowVars, workerVars, history
    <2>4. pc' \in [Workers -> PCs] /\ job' \in [Workers -> Rows \union {NoRow}]
      BY DEF TypeOK, PCs, Down, Busy, rowVars, workerVars, history
    <2>5. verdict' \in [Workers -> AllVerdicts]
      BY DEF TypeOK, AllVerdicts, rowVars, workerVars, history
    <2>6. next' \in [Workers -> 1..NumSinks + 1]
      BY DEF TypeOK, AlertsInOrder, Sinks, rowVars, workerVars, history
    <2>7. count' \in [Workers -> 0..MaxJobs]
      BY DEF TypeOK, rowVars, workerVars, history
    <2>8. sent' \in [Rows -> [Sinks -> 0..2]] /\ crashes' \in 0..MaxCrashes
      BY DEF TypeOK, JobsArePresent, AlertsInOrder, Busy, NoRow, rowVars, workerVars, history
    <2>9. QED
      BY <2>1, <2>2, <2>3, <2>4, <2>5, <2>6, <2>7, <2>8 DEF TypeOK
  <1>2. JobsArePresent'
    BY <1>1 DEF JobsArePresent, TypeOK, Busy, NoRow, rowVars, workerVars, history
  <1>3. ExclusiveUnlessReset'
    BY <1>1, <1>2 DEF ExclusiveUnlessReset, TypeOK, JobsArePresent, Rows, NoRow, rowVars, workerVars, history
  <1>4. AlertsInOrder'
    <2> SUFFICES ASSUME NEW v \in Workers
                 PROVE  AlertsInOrder!(v)'
      BY DEF AlertsInOrder
    <2>1. CASE v # w
      BY <2>1 DEF AlertsInOrder, TypeOK, JobsArePresent, ExclusiveUnlessReset, rowVars, workerVars, history
    <2>2. CASE v = w
      <3>1. pc'[w] \in {"top", "off"}
        BY DEF TypeOK
      <3>2. QED
        BY <2>2, <3>1
    <2>3. QED
      BY <2>1, <2>2
  <1>5. AlertedBeforeOK'
    <2> SUFFICES ASSUME NEW i \in completed', NEW v \in SinkVerdicts, result'[i] = Done(v), NEW s \in Sinks
                 PROVE  sent[i][s] >= 1
      BY DEF AlertedBeforeOK, history
    <2>1. CASE i = job[w]
      <3>1. Done(verdict[w]) = Done(v)
        BY <2>1, <1>1 DEF TypeOK, Results
      <3>2. verdict[w] = v
        BY <3>1 DEF TypeOK
      <3>3. QED
        BY <2>1, <3>2 DEF AlertsInOrder
    <2>2. CASE i # job[w]
      BY <2>2 DEF AlertedBeforeOK, TypeOK
    <2>3. QED
      BY <2>1, <2>2
  <1>6. OutcomeIffCompleted'
    BY <1>1, <1>2 DEF OutcomeIffCompleted, TypeOK, JobsArePresent, rowVars, workerVars, history
  <1>7. AlertsAccounted'
    <2>1. \A v \in Workers, i \in Rows, s \in Sinks :
             HasTried(v, i, s) => HasTried(v, i, s)' \/ i \in completed' \/ i \in dropped'
      BY DEF HasTried, TypeOK, JobsArePresent, Busy, Rows, NoRow, Sinks, rowVars, workerVars, history
    <2>2. /\ sent' = sent /\ completed \subseteq completed'
          /\ wasReset \subseteq wasReset' /\ dropped \subseteq dropped'
      BY DEF rowVars, workerVars, history
    <2>3. QED
      BY <2>1, <2>2, AccountedKept
  <1>8. QED
    BY <1>1, <1>2, <1>3, <1>4, <1>5, <1>6, <1>7

\* The row gets its ERR.
LEMMA AbandonStep == ASSUME IInv, NEW w \in Workers, Abandon(w) PROVE IInv'
  <1> USE QueueAssumption, OutcomeFacts DEF IInv, Abandon, Settle, EndTurn, Forget, Leave
  <1>1. TypeOK'
    <2>1. /\ present' \subseteq Rows /\ completed' \subseteq Rows
          /\ wasReset' \subseteq Rows /\ dropped' \subseteq Rows
      <3>1. job[w] \in Rows
        BY DEF TypeOK, JobsArePresent, Busy
      <3>2. QED
        BY <3>1 DEF TypeOK, history
    <2>2. /\ prio' \in [Rows -> Nat] /\ lockedBy' \in [Rows -> Workers \union {NoWorker}]
          /\ result' \in [Rows -> Results]
      BY DEF TypeOK, JobsArePresent, Busy, Results, NoRow, rowVars, workerVars, history
    <2>3. age' \in [Rows -> 0..StuckAfter + 1]
      BY DEF TypeOK, JobsArePresent, Busy, NoRow, rowVars, workerVars, history
    <2>4. pc' \in [Workers -> PCs] /\ job' \in [Workers -> Rows \union {NoRow}]
      BY DEF TypeOK, PCs, Down, Busy, rowVars, workerVars, history
    <2>5. verdict' \in [Workers -> AllVerdicts]
      BY DEF TypeOK, AllVerdicts, rowVars, workerVars, history
    <2>6. next' \in [Workers -> 1..NumSinks + 1]
      BY DEF TypeOK, AlertsInOrder, Sinks, rowVars, workerVars, history
    <2>7. count' \in [Workers -> 0..MaxJobs]
      BY DEF TypeOK, rowVars, workerVars, history
    <2>8. sent' \in [Rows -> [Sinks -> 0..2]] /\ crashes' \in 0..MaxCrashes
      BY DEF TypeOK, JobsArePresent, AlertsInOrder, Busy, NoRow, rowVars, workerVars, history
    <2>9. QED
      BY <2>1, <2>2, <2>3, <2>4, <2>5, <2>6, <2>7, <2>8 DEF TypeOK
  <1>2. JobsArePresent'
    BY <1>1 DEF JobsArePresent, TypeOK, Busy, NoRow, rowVars, workerVars, history
  <1>3. ExclusiveUnlessReset'
    BY <1>1, <1>2 DEF ExclusiveUnlessReset, TypeOK, JobsArePresent, Rows, NoRow, rowVars, workerVars, history
  <1>4. AlertsInOrder'
    <2> SUFFICES ASSUME NEW v \in Workers
                 PROVE  AlertsInOrder!(v)'
      BY DEF AlertsInOrder
    <2>1. CASE v # w
      BY <2>1 DEF AlertsInOrder, TypeOK, JobsArePresent, ExclusiveUnlessReset, rowVars, workerVars, history
    <2>2. CASE v = w
      <3>1. pc'[w] \in {"top", "off"}
        BY DEF TypeOK
      <3>2. QED
        BY <2>2, <3>1
    <2>3. QED
      BY <2>1, <2>2
  <1>5. AlertedBeforeOK'
    BY <1>1 DEF AlertedBeforeOK, TypeOK, rowVars, workerVars, history
  <1>6. OutcomeIffCompleted'
    BY <1>1, <1>2 DEF OutcomeIffCompleted, TypeOK, JobsArePresent, rowVars, workerVars, history
  <1>7. AlertsAccounted'
    <2>1. \A v \in Workers, i \in Rows, s \in Sinks :
             HasTried(v, i, s) => HasTried(v, i, s)' \/ i \in completed' \/ i \in dropped'
      BY DEF HasTried, TypeOK, JobsArePresent, Busy, Rows, NoRow, Sinks, rowVars, workerVars, history
    <2>2. /\ sent' = sent /\ completed \subseteq completed'
          /\ wasReset \subseteq wasReset' /\ dropped \subseteq dropped'
      BY DEF rowVars, workerVars, history
    <2>3. QED
      BY <2>1, <2>2, AccountedKept
  <1>8. QED
    BY <1>1, <1>2, <1>3, <1>4, <1>5, <1>6, <1>7

\* A process starts with empty hands.
LEMMA StartStep == ASSUME IInv, NEW w \in Workers, Start(w) PROVE IInv'
  <1> USE QueueAssumption, OutcomeFacts DEF IInv, Start, Down
  <1>1. TypeOK'
    BY DEF TypeOK, PCs, Down, Busy, Rows, NoRow, rowVars, workerVars, history
  <1>2. JobsArePresent'
    BY <1>1 DEF JobsArePresent, TypeOK, Busy, NoRow, rowVars, workerVars, history
  <1>3. ExclusiveUnlessReset'
    BY <1>1, <1>2 DEF ExclusiveUnlessReset, TypeOK, JobsArePresent, Rows, NoRow, rowVars, workerVars, history
  <1>4. AlertsInOrder'
    BY <1>1, <1>2 DEF AlertsInOrder, TypeOK, JobsArePresent, Busy, Rows, Sinks, NoRow, rowVars, workerVars, history
  <1>5. AlertedBeforeOK'
    BY <1>1 DEF AlertedBeforeOK, TypeOK, rowVars, workerVars, history
  <1>6. OutcomeIffCompleted'
    BY <1>1, <1>2 DEF OutcomeIffCompleted, TypeOK, JobsArePresent, rowVars, workerVars, history
  <1>7. AlertsAccounted'
    <2>1. \A v \in Workers, i \in Rows, s \in Sinks :
             HasTried(v, i, s) => HasTried(v, i, s)' \/ i \in completed' \/ i \in dropped'
      BY DEF HasTried, TypeOK, JobsArePresent, Busy, Rows, NoRow, Sinks, rowVars, workerVars, history
    <2>2. /\ sent' = sent /\ completed \subseteq completed'
          /\ wasReset \subseteq wasReset' /\ dropped \subseteq dropped'
      BY DEF rowVars, workerVars, history
    <2>3. QED
      BY <2>1, <2>2, AccountedKept
  <1>8. QED
    BY <1>1, <1>2, <1>3, <1>4, <1>5, <1>6, <1>7

\* The row in hand, if any, is marked as dropped; its lock stays.
LEMMA CrashStep == ASSUME IInv, NEW w \in Workers, Crash(w) PROVE IInv'
  <1> USE QueueAssumption, OutcomeFacts DEF IInv, Crash, Forget, Down
  <1>1. TypeOK'
    <2>1. /\ present' \subseteq Rows /\ completed' \subseteq Rows
          /\ wasReset' \subseteq Rows /\ dropped' \subseteq Rows
      <3>1. {job[w]} \ {NoRow} \subseteq Rows
        BY DEF TypeOK
      <3>2. QED
        BY <3>1 DEF TypeOK, rowVars
    <2>2. /\ prio' \in [Rows -> Nat] /\ lockedBy' \in [Rows -> Workers \union {NoWorker}]
          /\ result' \in [Rows -> Results]
      BY DEF TypeOK, JobsArePresent, Busy, Results, NoRow, rowVars, workerVars, history
    <2>3. age' \in [Rows -> 0..StuckAfter + 1]
      BY DEF TypeOK, JobsArePresent, Busy, NoRow, rowVars, workerVars, history
    <2>4. pc' \in [Workers -> PCs] /\ job' \in [Workers -> Rows \union {NoRow}]
      BY DEF TypeOK, PCs, Down, Busy, rowVars, workerVars, history
    <2>5. verdict' \in [Workers -> AllVerdicts]
      BY DEF TypeOK, AllVerdicts, rowVars, workerVars, history
    <2>6. next' \in [Workers -> 1..NumSinks + 1]
      BY DEF TypeOK, AlertsInOrder, Sinks, rowVars, workerVars, history
    <2>7. count' \in [Workers -> 0..MaxJobs]
      BY DEF TypeOK, rowVars, workerVars, history
    <2>8. sent' \in [Rows -> [Sinks -> 0..2]] /\ crashes' \in 0..MaxCrashes
      BY DEF TypeOK, JobsArePresent, AlertsInOrder, Busy, NoRow, rowVars, workerVars, history
    <2>9. QED
      BY <2>1, <2>2, <2>3, <2>4, <2>5, <2>6, <2>7, <2>8 DEF TypeOK
  <1>2. JobsArePresent'
    BY <1>1 DEF JobsArePresent, TypeOK, Busy, NoRow, rowVars, workerVars, history
  <1>3. ExclusiveUnlessReset'
    BY <1>1, <1>2 DEF ExclusiveUnlessReset, TypeOK, JobsArePresent, Rows, NoRow, rowVars, workerVars, history
  <1>4. AlertsInOrder'
    BY <1>1, <1>2 DEF AlertsInOrder, TypeOK, JobsArePresent, Busy, Rows, Sinks, NoRow, rowVars, workerVars, history
  <1>5. AlertedBeforeOK'
    BY <1>1 DEF AlertedBeforeOK, TypeOK, rowVars, workerVars, history
  <1>6. OutcomeIffCompleted'
    BY <1>1, <1>2 DEF OutcomeIffCompleted, TypeOK, JobsArePresent, rowVars, workerVars, history
  <1>7. AlertsAccounted'
    <2>1. \A v \in Workers, i \in Rows, s \in Sinks :
             HasTried(v, i, s) => HasTried(v, i, s)' \/ i \in completed' \/ i \in dropped'
      BY DEF HasTried, TypeOK, JobsArePresent, Busy, Rows, NoRow, Sinks, rowVars, workerVars, history
    <2>2. /\ sent' = sent /\ completed \subseteq completed'
          /\ wasReset \subseteq wasReset' /\ dropped \subseteq dropped'
      BY DEF rowVars, workerVars, history
    <2>3. QED
      BY <2>1, <2>2, AccountedKept
  <1>8. QED
    BY <1>1, <1>2, <1>3, <1>4, <1>5, <1>6, <1>7

LEMMA NextIInv == IInv /\ [Next]_vars => IInv'
  <1> SUFFICES ASSUME IInv, [Next]_vars PROVE IInv'
    OBVIOUS
  <1>1. ASSUME NEW j \in Rows, Enqueue(j) PROVE IInv'
    BY <1>1, EnqueueStep
  <1>2. CASE Tick
    BY <1>2, TickStep
  <1>3. ASSUME NEW w \in Workers, Work(w) PROVE IInv'
    BY <1>3, ResetStuckStep, ResumeStep, TakeStep, IdleStep, ScanStep, EmitStep,
       CompleteStep, CompleteRaisesStep, AbandonStep DEF Work
  <1>4. ASSUME NEW w \in Workers, Start(w) \/ Crash(w) PROVE IInv'
    BY <1>4, StartStep, CrashStep
  <1>5. CASE UNCHANGED vars
    BY <1>5 DEF vars, rowVars, workerVars, history, IInv, TypeOK, JobsArePresent,
       ExclusiveUnlessReset, AlertsInOrder, AlertedBeforeOK, OutcomeIffCompleted,
       AlertsAccounted, HasTried
  <1>6. QED
    BY <1>1, <1>2, <1>3, <1>4, <1>5 DEF Next

----------------------------------------------------------------------------
(* The theorems. *)

\* The strengthening of the safety properties holds in every reachable state.
THEOREM Inductive == Spec => []IInv
  BY InitIInv, NextIInv, PTL DEF Spec

\* Every variable keeps its type: the columns of scan_queue and the locals of
\* the workers stay in range.
THEOREM TypeCorrect == Spec => []TypeOK
  BY Inductive, PTL DEF IInv

\* Without a reset of its lock, a row is in at most one worker's hands.
THEOREM Exclusion == Spec => []ExclusiveUnlessReset
  BY Inductive, PTL DEF IInv

\* No row is marked OK with a reportable verdict before every sink was tried.
THEOREM AlertsComeFirst == Spec => []AlertedBeforeOK
  BY Inductive, PTL DEF IInv

\* stats() counts every row once: outcomes are on completed rows only.
THEOREM OutcomesOnCompleted == Spec => []OutcomeIffCompleted
  BY Inductive, PTL DEF IInv

\* A second alert for a row is always the trace of a reset or of a kill.
THEOREM DuplicatesHaveCause == Spec => []DuplicateAlertHasFault
  <1>1. IInv => DuplicateAlertHasFault
    BY DEF IInv, AlertsAccounted, DuplicateAlertHasFault
  <1>2. QED
    BY <1>1, Inductive, PTL

\* A completed row is never picked up again and never loses its completion.
THEOREM CompletedStays == Spec => CompletedIsFinal
  <1>1. IInv /\ [Next]_vars =>
          [/\ completed \subseteq completed'
           /\ \A w \in Workers : job'[w] # job[w] => job'[w] \notin completed]_vars
    <2> SUFFICES ASSUME IInv, Next
                 PROVE  /\ completed \subseteq completed'
                        /\ \A w \in Workers : job'[w] # job[w] => job'[w] \notin completed
      OBVIOUS
    <2> USE DEF IInv, TypeOK, rowVars, workerVars
    <2>1. NoRow \notin completed
      BY DEF NoRow, Rows
    <2>2. ASSUME NEW j \in Rows, Enqueue(j) \/ Tick
          PROVE  completed' = completed /\ job' = job
      BY <2>2 DEF Enqueue, Tick
    <2>3. ASSUME NEW v \in Workers,
                 ResetStuck(v) \/ Idle(v) \/ Scan(v) \/ Emit(v) \/ CompleteRaises(v) \/ Start(v)
          PROVE  completed' = completed /\ job' = job
      BY <2>3 DEF ResetStuck, Idle, Scan, Emit, CompleteRaises, Start, Goto
    <2>4. ASSUME NEW v \in Workers, NEW j \in Rows, Resume(v, j) \/ Take(v, j)
          PROVE  completed' = completed /\ job' = [job EXCEPT ![v] = j] /\ j \notin completed
      BY <2>4 DEF Resume, Take, IsFirst, Own, Pending
    <2>5. ASSUME NEW v \in Workers, Complete(v) \/ Abandon(v) \/ Crash(v)
          PROVE  completed \subseteq completed' /\ job' = [job EXCEPT ![v] = NoRow]
      BY <2>5 DEF Complete, Abandon, Crash, Settle, EndTurn, Forget
    <2>6. CASE Tick
      BY <2>6 DEF Tick
    <2>7. QED
      BY <2>1, <2>2, <2>3, <2>4, <2>5, <2>6 DEF Next, Work
  <1>2. QED
    BY <1>1, Inductive, PTL DEF Spec, CompletedIsFinal

\* The queue with its workers implements ScanLedger: its steps are those of the
\* ledger or invisible in it, however workers are reset, killed and restarted.
THEOREM ImplementsLedger == Spec => KeepsLedger
  <1>1. Init => Ledger!Init
    BY DEF Init, Ledger!Init, Sinks
  <1>2. IInv /\ [Next]_vars => [Ledger!Next]_(Ledger!ledgerVars)
    <2> SUFFICES ASSUME IInv, [Next]_vars
                 PROVE  [Ledger!Next]_(Ledger!ledgerVars)
      OBVIOUS
    <2> DEFINE A == {a \in Rows \X Sinks : sent[a[1]][a[2]] >= 1}
               O == [j \in Rows |-> IF j \in completed THEN result[j] ELSE NoResult]
    <2> USE QueueAssumption, OutcomeFacts DEF IInv, TypeOK, rowVars, workerVars, history
    <2>1. ASSUME present' = present, sent' = sent, completed' = completed, result' = result
          PROVE  UNCHANGED Ledger!ledgerVars
      BY <2>1 DEF Ledger!ledgerVars
    <2>2. ASSUME NEW j \in Rows, Enqueue(j)
          PROVE  Ledger!Submit(j)
      BY <2>2 DEF Enqueue, Ledger!Submit
    <2>3. ASSUME NEW w \in Workers, ResetStuck(w)
          PROVE  UNCHANGED Ledger!ledgerVars
      <3>1. O' = O
        BY <2>3 DEF ResetStuck, Stuck, Inflight
      <3>2. QED
        BY <2>3, <3>1 DEF ResetStuck, Ledger!ledgerVars
    <2>4. ASSUME NEW w \in Workers, NEW j \in Rows, NEW t \in Sinks,
                 Emit(w), job[w] = j, next[w] = t, j \in present
          PROVE  Ledger!Alert(j, t)
      <3>1. \A i \in Rows, s \in Sinks :
               sent'[i][s] >= 1 <=> (sent[i][s] >= 1 \/ (i = j /\ s = t))
        BY <2>4 DEF Emit, SendTo
      <3>2. A' = A \union {<<j, t>>}
        BY <3>1
      <3>3. QED
        BY <2>4, <3>2 DEF Emit, Goto, Ledger!Alert
    <2>5. ASSUME NEW w \in Workers, NEW j \in Rows, NEW r \in Outcomes,
                 Settle(w, r), job[w] = j, j \in present,
                 r \in {Done(v) : v \in SinkVerdicts} => \A s \in Sinks : sent[j][s] >= 1
          PROVE  Ledger!Settle(j, r)
      <3>1. O' = [O EXCEPT ![j] = r]
        BY <2>5 DEF Settle
      <3>2. r \in {Done(v) : v \in SinkVerdicts} => \A s \in Sinks : <<j, s>> \in A
        BY <2>5
      <3>3. present' = present /\ A' = A
        BY <2>5 DEF Settle
      <3>4. QED
        BY <2>5, <3>1, <3>2, <3>3 DEF Ledger!Settle
    <2>6. ASSUME NEW w \in Workers, pc[w] \in Busy
          PROVE  \E j \in Rows : job[w] = j /\ j \in present
      BY <2>6 DEF JobsArePresent, NoRow
    <2>7. ASSUME NEW w \in Workers, Emit(w)
          PROVE  Ledger!Next
      <3>1. PICK j \in Rows : job[w] = j /\ j \in present
        BY <2>6, <2>7 DEF Emit, Busy
      <3>2. PICK t \in Sinks : next[w] = t
        BY <2>7 DEF Emit, AlertsInOrder
      <3>3. Ledger!Alert(j, t)
        BY <2>4, <2>7, <3>1, <3>2
      <3>4. QED
        BY <3>3 DEF Ledger!Next
    <2>8. ASSUME NEW w \in Workers, Complete(w)
          PROVE  Ledger!Next
      <3>1. PICK j \in Rows : job[w] = j /\ j \in present
        BY <2>6, <2>8 DEF Complete, Busy
      <3>2. PICK r \in Outcomes : r = Done(verdict[w])
        OBVIOUS
      <3>3. r \in {Done(v) : v \in SinkVerdicts} => verdict[w] \in SinkVerdicts
        BY <3>2
      <3>4. r \in {Done(v) : v \in SinkVerdicts} => \A s \in Sinks : sent[j][s] >= 1
        BY <2>8, <3>1, <3>3 DEF Complete, AlertsInOrder
      <3>5. Settle(w, r)
        BY <2>8, <3>2 DEF Complete, Settle
      <3>6. Ledger!Settle(j, r)
        BY <2>5, <3>1, <3>4, <3>5
      <3>7. QED
        BY <3>6 DEF Ledger!Next
    <2>9. ASSUME NEW w \in Workers, Abandon(w)
          PROVE  Ledger!Next
      <3>1. PICK j \in Rows : job[w] = j /\ j \in present
        BY <2>6, <2>9 DEF Abandon, Busy
      <3>2. PICK r \in Outcomes : r = Err
        OBVIOUS
      <3>3. r \notin {Done(v) : v \in SinkVerdicts}
        BY <3>2
      <3>4. Settle(w, r)
        BY <2>9, <3>2 DEF Abandon, Settle
      <3>5. Ledger!Settle(j, r)
        BY <2>5, <3>1, <3>3, <3>4
      <3>6. QED
        BY <3>5 DEF Ledger!Next
    <2>10. ASSUME NEW w \in Workers, NEW j \in Rows, Resume(w, j) \/ Take(w, j)
          PROVE  UNCHANGED Ledger!ledgerVars
      BY <2>1, <2>10 DEF Resume, Take
    <2>11. CASE Tick
      BY <2>1, <2>11 DEF Tick
    <2>12. CASE UNCHANGED vars
      BY <2>1, <2>12 DEF vars
    <2>13. ASSUME NEW w \in Workers, Idle(w) \/ Scan(w) \/ CompleteRaises(w) \/ Start(w) \/ Crash(w)
           PROVE  UNCHANGED Ledger!ledgerVars
      BY <2>1, <2>13 DEF Idle, Scan, CompleteRaises, Start, Crash, Goto
    <2>14. ASSUME NEW j \in Rows, Enqueue(j) PROVE Ledger!Next
      BY <2>2, <2>14 DEF Ledger!Next
    <2>15. QED
      BY <2>3, <2>7, <2>10, <2>11, <2>12, <2>13, <2>8, <2>9, <2>14 DEF Next, Work
  <1>3. QED
    BY <1>1, <1>2, Inductive, PTL DEF Spec, KeepsLedger, Ledger!Spec
============================================================================
