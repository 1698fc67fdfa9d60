-------------------------- MODULE NpmWatcherProofs --------------------------
(***************************************************************************)
(* The npm watcher skips no entry, for any number of pollers, packages,    *)
(* entries and failures and any limit.  The inductive invariant follows    *)
(* the entries a poll will move the cursor past: each is covered, still to *)
(* be looked up, or has a version in the poll's batch.                     *)
(***************************************************************************)
EXTENDS NpmWatcher, TLAPS

\* Poll p is going to enqueue a version at least as new as entry i.
InBatch(p, i) == \E j \in i..Len(feed) : feed[j] = feed[i] /\ j \in batch[p]

\* What poll p still owes the entries it will save the cursor past.
Account(p) ==
    /\ pc[p] = "fetch" => \A i \in 1..since[p] : Covered(i)
    /\ pc[p] \in {"look", "put", "save"} =>
           \A i \in 1..upto[p] : Covered(i) \/ i \in rows[p] \/ InBatch(p, i)
    /\ pc[p] = "save" => rows[p] = {} /\ batch[p] = {}

PollsAccount == \A p \in Pollers : Account(p)

IInv == TypeOK /\ Len(feed) >= 1 /\ NothingSkipped /\ PollsAccount

----------------------------------------------------------------------------
(* What is covered stays covered while the feed and the queue grow. *)

LEMMA CoveredStays ==
  ASSUME TypeOK, TypeOK', Len(feed) =< Len(feed'), \A i \in Entries : feed'[i] = feed[i],
         queued \subseteq queued', excused \subseteq excused',
         NEW i \in Entries, Covered(i)
  PROVE  Covered(i)'
  BY DEF TypeOK, Covered, Entries

\* A step that leaves poll p alone keeps its account.
LEMMA OthersKeep ==
  ASSUME TypeOK, TypeOK', Len(feed) =< Len(feed'), \A i \in Entries : feed'[i] = feed[i],
         queued \subseteq queued', excused \subseteq excused',
         NEW p \in Pollers,
         since'[p] = since[p], upto'[p] = upto[p], rows'[p] = rows[p], batch'[p] = batch[p]
  PROVE  \A i \in Entries :
            Covered(i) \/ i \in rows[p] \/ InBatch(p, i)
                => Covered(i)' \/ i \in rows'[p] \/ InBatch(p, i)'
  <1> SUFFICES ASSUME NEW i \in Entries, Covered(i) \/ i \in rows[p] \/ InBatch(p, i)
               PROVE  Covered(i)' \/ i \in rows'[p] \/ InBatch(p, i)'
    OBVIOUS
  <1>1. CASE Covered(i)
    BY <1>1, CoveredStays
  <1>2. CASE i \in rows[p]
    BY <1>2
  <1>3. CASE InBatch(p, i)
    BY <1>3 DEF InBatch, TypeOK, Entries
  <1>4. QED
    BY <1>1, <1>2, <1>3

LEMMA InitIInv == Init => IInv
  BY NpmAssumption DEF Init, IInv, TypeOK, Entries, NothingSkipped, PollsAccount, Account

----------------------------------------------------------------------------
(* Types *)

LEMMA TypeStep == TypeOK /\ Len(feed) >= 1 /\ [Next]_vars => TypeOK' /\ Len(feed') >= 1
  <1> SUFFICES ASSUME TypeOK, Len(feed) >= 1, [Next]_vars
               PROVE  TypeOK' /\ Len(feed') >= 1
    OBVIOUS
  <1> USE NpmAssumption DEF TypeOK, Entries, Goto, NoFault, Fault, local
  <1>1. ASSUME NEW k \in Packages, Publish(k) PROVE TypeOK' /\ Len(feed') >= 1
    BY <1>1 DEF Publish
  <1>2. ASSUME NEW p \in Pollers, Start(p) PROVE TypeOK' /\ Len(feed') >= 1
    BY <1>2 DEF Start
  <1>3. ASSUME NEW p \in Pollers, FetchChanges(p) PROVE TypeOK' /\ Len(feed') >= 1
    <2> DEFINE from == IF since[p] = 0 THEN Larger(1, Len(feed) - Limit) ELSE since[p]
               last == Smaller(from + Limit, Len(feed))
    <2>1. from \in Entries /\ last \in Entries
      BY DEF Larger, Smaller
    <2>2. /\ rows' \in [Pollers -> SUBSET Entries] /\ upto' \in [Pollers -> 0..Len(feed)]
          /\ excused' \subseteq Entries
      <3>1. CASE Finish(p) /\ UNCHANGED excused
        BY <3>1 DEF Finish
      <3>2. CASE /\ rows' = [rows EXCEPT ![p] = from + 1..last]
                 /\ upto' = [upto EXCEPT ![p] = last]
                 /\ excused' = IF since[p] = 0 THEN excused \union (1..from) ELSE excused
        <4>1. from + 1..last \subseteq Entries /\ 1..from \subseteq Entries /\ last \in 0..Len(feed)
          BY <2>1
        <4> HIDE DEF from, last
        <4>2. QED
          BY <3>2, <4>1
      <3>3. QED
        BY <1>3, <3>1, <3>2 DEF FetchChanges
    <2>3. pc' \in [Pollers -> {"idle", "look"} \union {pc[q] : q \in Pollers}]
          /\ \A q \in Pollers : pc'[q] # "put" \/ (pc'[q] = pc[q] /\ rows'[q] = rows[q])
      BY <1>3 DEF FetchChanges, Finish
    <2>4. QED
      BY <1>3, <2>2, <2>3 DEF FetchChanges, Finish
  <1>4. ASSUME NEW p \in Pollers, Look(p) PROVE TypeOK' /\ Len(feed') >= 1
    <2>1. PICK i \in rows[p] :
            /\ rows' = [rows EXCEPT ![p] = @ \ {i}]
            /\ \/ UNCHANGED excused /\ \E j \in Entries : batch' = [batch EXCEPT ![p] = @ \union {j}]
               \/ UNCHANGED batch /\ excused' = excused \union {i}
      BY <1>4 DEF Look
    <2>2. rows' \in [Pollers -> SUBSET Entries] /\ i \in Entries
      BY <2>1
    <2>3. excused' \subseteq Entries
      BY <2>1, <2>2
    <2>4. batch' \in [Pollers -> SUBSET Entries]
      BY <2>1
    <2>5. \A q \in Pollers : pc[q] # "put" \/ rows'[q] = {}
      BY <2>1
    <2>6. faults' \in 0..MaxFaults
      BY <1>4 DEF Look
    <2>7. QED
      BY <1>4, <2>2, <2>3, <2>4, <2>5, <2>6 DEF Look
  <1>5. ASSUME NEW p \in Pollers, LookDone(p) PROVE TypeOK' /\ Len(feed') >= 1
    BY <1>5 DEF LookDone
  <1>6. ASSUME NEW p \in Pollers, Put(p) PROVE TypeOK' /\ Len(feed') >= 1
    <2>1. PICK i \in batch[p] :
            /\ batch' = [batch EXCEPT ![p] = @ \ {i}]
            /\ queued' \subseteq queued \union {i} /\ excused' \subseteq excused \union {i}
      BY <1>6 DEF Put
    <2>2. batch' \in [Pollers -> SUBSET Entries] /\ queued' \subseteq Entries
          /\ excused' \subseteq Entries
      BY <2>1
    <2>3. faults' \in 0..MaxFaults
      BY <1>6 DEF Put
    <2>4. QED
      BY <1>6, <2>2, <2>3 DEF Put
  <1>7. ASSUME NEW p \in Pollers, PutDone(p) PROVE TypeOK' /\ Len(feed') >= 1
    BY <1>7 DEF PutDone
  <1>8. ASSUME NEW p \in Pollers, SaveSeq(p) PROVE TypeOK' /\ Len(feed') >= 1
    BY <1>8 DEF SaveSeq, Finish
  <1>9. ASSUME NEW p \in Pollers, Crash(p) PROVE TypeOK' /\ Len(feed') >= 1
    BY <1>9 DEF Crash, Finish
  <1>10. CASE UNCHANGED vars
    BY <1>10 DEF vars
  <1>11. QED
    BY <1>1, <1>2, <1>3, <1>4, <1>5, <1>6, <1>7, <1>8, <1>9, <1>10 DEF Next, Step

----------------------------------------------------------------------------
(* No step forgets an entry *)

\* The feed and what covers its entries only grow.
LEMMA Growth ==
  ASSUME TypeOK, [Next]_vars
  PROVE  /\ Len(feed) =< Len(feed') /\ \A i \in Entries : feed'[i] = feed[i]
         /\ queued \subseteq queued' /\ excused \subseteq excused'
  <1>1. ASSUME NEW k \in Packages, Publish(k)
        PROVE  /\ Len(feed) =< Len(feed') /\ \A i \in Entries : feed'[i] = feed[i]
               /\ queued \subseteq queued' /\ excused \subseteq excused'
    BY <1>1 DEF Publish, TypeOK, Entries
  <1>2. ASSUME NEW p \in Pollers, Start(p) \/ Step(p) \/ Crash(p)
        PROVE  feed' = feed /\ queued \subseteq queued' /\ excused \subseteq excused'
    BY <1>2 DEF Start, Step, Crash, FetchChanges, Look, LookDone, Put, PutDone, SaveSeq
  <1>3. CASE UNCHANGED vars
    BY <1>3 DEF vars, TypeOK
  <1>4. QED
    BY <1>1, <1>2, <1>3 DEF Next, TypeOK

\* A step of poll p leaves the locals of the others alone.
LEMMA LocalStep ==
  ASSUME TypeOK, NEW p \in Pollers, Start(p) \/ Step(p) \/ Crash(p),
         NEW q \in Pollers, q # p
  PROVE  /\ pc'[q] = pc[q] /\ since'[q] = since[q] /\ upto'[q] = upto[q]
         /\ rows'[q] = rows[q] /\ batch'[q] = batch[q]
  BY DEF TypeOK, Start, Step, Crash, FetchChanges, Look, LookDone, Put, PutDone, SaveSeq,
         Finish, Goto

LEMMA AccountKept ==
  ASSUME IInv, TypeOK', [Next]_vars, NEW q \in Pollers,
         pc'[q] = pc[q], since'[q] = since[q], upto'[q] = upto[q],
         rows'[q] = rows[q], batch'[q] = batch[q]
  PROVE  Account(q)'
  <1>1. Account(q)
    BY DEF IInv, PollsAccount
  <1>2. 1..since[q] \subseteq Entries /\ 1..upto[q] \subseteq Entries
    BY DEF IInv, TypeOK, Entries
  <1>3. \A i \in Entries : Covered(i) => Covered(i)'
    BY Growth, CoveredStays DEF IInv
  <1>4. \A i \in Entries : Covered(i) \/ i \in rows[q] \/ InBatch(q, i)
                => Covered(i)' \/ i \in rows'[q] \/ InBatch(q, i)'
    BY Growth, OthersKeep DEF IInv
  <1>5. QED
    BY <1>1, <1>2, <1>3, <1>4 DEF Account

\* A poll that starts takes over what the cursor stands for.
LEMMA StartStep ==
  ASSUME IInv, TypeOK', NEW p \in Pollers, Start(p) PROVE NothingSkipped' /\ Account(p)'
  <1>1. pc'[p] = "fetch" /\ since'[p] = seq /\ seq' = seq
    BY DEF Start, Goto, IInv, TypeOK
  <1>2. \A i \in 1..seq : Covered(i)'
    BY DEF Start, IInv, NothingSkipped, Covered
  <1>3. QED
    BY <1>1, <1>2 DEF NothingSkipped, Account

\* The entries of a poll are those up to its old cursor and its rows.
LEMMA FetchStep ==
  ASSUME IInv, TypeOK', NEW p \in Pollers, FetchChanges(p) PROVE NothingSkipped' /\ Account(p)'
  <1> DEFINE from == IF since[p] = 0 THEN Larger(1, Len(feed) - Limit) ELSE since[p]
             last == Smaller(from + Limit, Len(feed))
  <1>1. /\ seq' = seq /\ feed' = feed /\ queued' = queued /\ excused \subseteq excused'
    BY DEF FetchChanges
  <1>2. \A i \in Entries : Covered(i) => Covered(i)'
    BY <1>1, CoveredStays DEF IInv, TypeOK
  <1>3. NothingSkipped'
    BY <1>1, <1>2 DEF IInv, NothingSkipped, TypeOK, Entries
  <1>4. CASE pc'[p] = "idle"
    BY <1>3, <1>4 DEF Account
  <1>5. CASE pc'[p] = "look"
    <2>1. /\ rows'[p] = from + 1..last /\ upto'[p] = last
          /\ since[p] = 0 => 1..from \subseteq excused'
      BY <1>5 DEF FetchChanges, Goto, Finish, IInv, TypeOK
    <2>2. from \in Entries /\ last \in Entries
      BY NpmAssumption DEF IInv, TypeOK, Entries, Larger, Smaller
    <2>3. \A i \in 1..from : Covered(i)'
      <3>1. CASE since[p] = 0
        BY <1>1, <2>1, <2>2, <3>1 DEF Covered, Entries
      <3>2. CASE since[p] # 0
        BY <1>2, <2>2, <3>2 DEF IInv, PollsAccount, Account, FetchChanges, TypeOK, Entries
      <3>3. QED
        BY <3>1, <3>2
    <2>4. \A i \in 1..upto'[p] : Covered(i)' \/ i \in rows'[p]
      BY <2>1, <2>2, <2>3 DEF Entries
    <2>5. QED
      BY <1>3, <1>5, <2>4 DEF Account
  <1>6. QED
    BY <1>4, <1>5 DEF FetchChanges, Goto, Finish, IInv, TypeOK

\* An entry looked up has its newest version in the batch, or is excused.
LEMMA LookStep ==
  ASSUME IInv, TypeOK', NEW p \in Pollers, Look(p) PROVE NothingSkipped' /\ Account(p)'
  <1>1. /\ seq' = seq /\ feed' = feed /\ queued' = queued /\ excused \subseteq excused'
        /\ pc' = pc /\ upto' = upto /\ pc[p] = "look"
    BY DEF Look
  <1>2. \A i \in Entries : Covered(i) => Covered(i)'
    BY <1>1, CoveredStays DEF IInv, TypeOK
  <1>3. NothingSkipped'
    BY <1>1, <1>2 DEF IInv, NothingSkipped, TypeOK, Entries
  <1>4. PICK e \in rows[p] :
          /\ rows'[p] = rows[p] \ {e}
          /\ \/ \E j \in Entries : IsNewest(j, feed[e]) /\ batch'[p] = batch[p] \union {j}
             \/ batch' = batch /\ excused' = excused \union {e}
    BY DEF Look, IInv, TypeOK
  <1>5. e \in Entries /\ batch[p] \subseteq batch'[p]
    BY <1>4 DEF IInv, TypeOK
  <1>6. Covered(e)' \/ InBatch(p, e)'
    <2>1. CASE excused' = excused \union {e}
      BY <1>1, <1>5, <2>1 DEF Covered, Entries, IInv, TypeOK
    <2>2. ASSUME NEW j \in Entries, IsNewest(j, feed[e]), batch'[p] = batch[p] \union {j}
          PROVE  InBatch(p, e)'
      BY <1>1, <1>5, <2>2 DEF InBatch, IsNewest, Entries, IInv, TypeOK
    <2>3. QED
      BY <1>4, <2>1, <2>2
  <1>7. ASSUME NEW i \in 1..upto[p] PROVE Covered(i)' \/ i \in rows'[p] \/ InBatch(p, i)'
    <2>1. i \in Entries /\ (Covered(i) \/ i \in rows[p] \/ InBatch(p, i))
      BY <1>1 DEF IInv, PollsAccount, Account, TypeOK, Entries
    <2>2. InBatch(p, i) => InBatch(p, i)'
      BY <1>1, <1>5 DEF InBatch
    <2>3. i \in rows[p] => i \in rows'[p] \/ i = e
      BY <1>4
    <2>4. QED
      BY <1>2, <1>6, <2>1, <2>2, <2>3
  <1>8. QED
    BY <1>1, <1>3, <1>7 DEF Account

\* A version leaves the batch for the queue, or is excused.
LEMMA PutStep ==
  ASSUME IInv, TypeOK', NEW p \in Pollers, Put(p) PROVE NothingSkipped' /\ Account(p)'
  <1>1. /\ seq' = seq /\ feed' = feed /\ queued \subseteq queued' /\ excused \subseteq excused'
        /\ pc' = pc /\ upto' = upto /\ rows' = rows /\ pc[p] = "put"
    BY DEF Put
  <1>2. \A i \in Entries : Covered(i) => Covered(i)'
    BY <1>1, CoveredStays DEF IInv, TypeOK
  <1>3. NothingSkipped'
    BY <1>1, <1>2 DEF IInv, NothingSkipped, TypeOK, Entries
  <1>4. PICK e \in batch[p] :
          batch'[p] = batch[p] \ {e} /\ e \in queued' \union excused'
    BY DEF Put, IInv, TypeOK
  <1>5. ASSUME NEW i \in 1..upto[p] PROVE Covered(i)' \/ i \in rows'[p] \/ InBatch(p, i)'
    <2>1. i \in Entries /\ (Covered(i) \/ i \in rows[p] \/ InBatch(p, i))
      BY <1>1 DEF IInv, PollsAccount, Account, TypeOK, Entries
    <2>2. InBatch(p, i) => InBatch(p, i)' \/ Covered(i)'
      BY <1>1, <1>4 DEF InBatch, Covered
    <2>3. QED
      BY <1>1, <1>2, <2>1, <2>2
  <1>6. QED
    BY <1>1, <1>3, <1>5 DEF Account

\* The cursor moves past entries that are all covered.
LEMMA SaveStep ==
  ASSUME IInv, TypeOK', NEW p \in Pollers, SaveSeq(p) PROVE NothingSkipped' /\ Account(p)'
  <1>1. /\ seq' = upto[p] /\ feed' = feed /\ queued' = queued /\ excused' = excused
        /\ pc[p] = "save" /\ pc'[p] = "idle"
    BY DEF SaveSeq, Finish, Goto, IInv, TypeOK
  <1>2. \A i \in 1..upto[p] : Covered(i)
    BY <1>1 DEF IInv, PollsAccount, Account, InBatch
  <1>3. QED
    BY <1>1, <1>2 DEF NothingSkipped, Account, Covered

LEMMA PollerStep ==
  ASSUME IInv, TypeOK', NEW p \in Pollers, Start(p) \/ Step(p) \/ Crash(p)
  PROVE  NothingSkipped' /\ Account(p)'
  <1>1. CASE LookDone(p)
    BY <1>1 DEF LookDone, Goto, IInv, NothingSkipped, PollsAccount, Account, Covered, InBatch, TypeOK
  <1>2. CASE PutDone(p)
    BY <1>2 DEF PutDone, Goto, IInv, NothingSkipped, PollsAccount, Account, Covered, InBatch, TypeOK
  <1>3. CASE Crash(p)
    BY <1>3 DEF Crash, Finish, Goto, IInv, NothingSkipped, Account, Covered, TypeOK
  <1>4. QED
    BY <1>1, <1>2, <1>3, StartStep, FetchStep, LookStep, PutStep, SaveStep DEF Step

LEMMA NextIInv == IInv /\ [Next]_vars => IInv'
  <1> SUFFICES ASSUME IInv, [Next]_vars PROVE IInv'
    OBVIOUS
  <1>1. TypeOK' /\ Len(feed') >= 1
    BY TypeStep DEF IInv
  <1>2. ASSUME NEW k \in Packages, Publish(k) PROVE NothingSkipped' /\ PollsAccount'
    <2>1. \A i \in Entries : Covered(i) => Covered(i)'
      BY <1>1, Growth, CoveredStays DEF IInv
    <2>2. NothingSkipped'
      BY <1>2, <2>1 DEF Publish, IInv, NothingSkipped, TypeOK, Entries
    <2>3. PollsAccount'
      BY <1>1, <1>2, AccountKept DEF Publish, local, PollsAccount
    <2>4. QED
      BY <2>2, <2>3
  <1>3. ASSUME NEW p \in Pollers, Start(p) \/ Step(p) \/ Crash(p)
        PROVE  NothingSkipped' /\ PollsAccount'
    <2>1. NothingSkipped' /\ Account(p)'
      BY <1>1, <1>3, PollerStep
    <2>2. ASSUME NEW q \in Pollers, q # p PROVE Account(q)'
      BY <1>1, <1>3, <2>2, LocalStep, AccountKept DEF IInv
    <2>3. QED
      BY <2>1, <2>2 DEF PollsAccount
  <1>4. CASE UNCHANGED vars
    <2>1. NothingSkipped'
      BY <1>4 DEF vars, IInv, NothingSkipped, Covered
    <2>2. PollsAccount'
      <3>1. ASSUME NEW q \in Pollers PROVE Account(q)'
        <4>1. /\ pc'[q] = pc[q] /\ since'[q] = since[q] /\ upto'[q] = upto[q]
              /\ rows'[q] = rows[q] /\ batch'[q] = batch[q]
          BY <1>4 DEF vars, local
        <4>2. QED
          BY <1>1, <4>1, AccountKept
      <3>2. QED
        BY <3>1 DEF PollsAccount
    <2>3. QED
      BY <1>1, <2>1, <2>2 DEF IInv
  <1>5. QED
    BY <1>1, <1>2, <1>3, <1>4 DEF Next, IInv

----------------------------------------------------------------------------
(* Theorems *)

\* The inductive invariant holds in every reachable state of poll_once.
THEOREM Inductive == Spec => []IInv
  BY InitIInv, NextIInv, PTL DEF Spec

\* Cursors, rows and batches stay within the feed: the types of TypeOK.
THEOREM TypeCorrect == Spec => []TypeOK
  BY Inductive, PTL DEF IInv

\* The cursor of npm_watcher passes only entries that are covered, because
\* set_last_seq comes last.
THEOREM NpmSkipsNothing == Spec => []NothingSkipped
  BY Inductive, PTL DEF IInv
============================================================================
