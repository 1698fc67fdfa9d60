-------------------------- MODULE PypiWatcherProofs --------------------------
(***************************************************************************)
(* The PyPI watcher loses a release for a known cause only, queues an      *)
(* entry once and moves its cursor forward unless polls overlap, for any   *)
(* number of pollers, releases, entries and failures and any limits.  The  *)
(* inductive invariant says what a poll still owes the entries it is going *)
(* to move the cursor past, and how a single undisturbed poll relates to   *)
(* the cursor.                                                             *)
(***************************************************************************)
EXTENDS PypiWatcher, FiniteSetTheorems, WellFoundedInduction, TLAPS

\* The release of entry i is in the queue, lost for a cause, or being enqueued by
\* a poll that has saved its cursor (or reads RSS).
Safe(i) ==
    \/ log[i] \in byRss
    \/ \E j \in About(i) : \/ queued[j] > 0 \/ j \in lost
                           \/ \E p \in Pollers : pc[p] = "put" /\ j \in batch[p]

SafeUpTo(n) == \A i \in 1..n : log[i] # Other => Safe(i)

\* What poll p will move the cursor past is safe or in its batch.
Owes(p) ==
    pc[p] = "save" =>
        \A i \in 1..upto[p] : log[i] # Other => Safe(i) \/ \E j \in About(i) : j \in batch[p]

Accounts == SafeUpTo(serial) /\ \A p \in Pollers : SafeUpTo(since[p]) /\ Owes(p)

\* A poll that is alone starts where the cursor is, and has events that come after
\* it; once the cursor is saved, none of them is queued yet.
InStep(p) ==
    /\ pc[p] \in {"fetch", "save"} => since[p] = serial
    /\ pc[p] = "save" => since[p] < upto[p] /\ \A j \in batch[p] : j > serial /\ j =< upto[p]
    /\ (pc[p] = "put" /\ ~rss[p]) => \A j \in batch[p] : j =< serial /\ queued[j] = 0

Alone ==
    ~disturbed =>
        /\ \A p, q \in Pollers : pc[p] # "idle" /\ pc[q] # "idle" => p = q
        /\ \A i \in Serials : queued[i] # 2 /\ (queued[i] > 0 => i =< serial)
        /\ \A p \in Pollers : InStep(p)

\* What a poll enqueues is about releases.
Events == \A p \in Pollers : \A j \in batch[p] : log[j] # Other

IInv == TypeOK /\ Accounts /\ Alone /\ Events

----------------------------------------------------------------------------
(* Least and greatest serials *)

LEMMA Least ==
    ASSUME NEW S, S \subseteq Nat, S # {}
    PROVE  \E m \in S : \A k \in S : m =< k
<1> DEFINE R == OpToRel(<, Nat)
<1>1. IsWellFoundedOn(R, Nat)
  BY NatLessThanWellFounded
<1>2. \A x, y \in Nat : x < y => <<x, y>> \in R
  BY DEF OpToRel
<1> HIDE DEF R
<1>3. PICK x \in S : \A y \in S : ~(<<y, x>> \in R)
  BY <1>1, WFMin
<1>4. ASSUME NEW y \in S PROVE x =< y
  <2>1. x \in Nat /\ y \in Nat
    OBVIOUS
  <2>2. ~(y < x)
    BY <1>2, <1>3, <2>1, Zenon
  <2> QED BY <2>1, <2>2
<1> QED BY <1>4

LEMMA Greatest ==
    ASSUME NEW n \in Nat, NEW S, S \subseteq 1..n, S # {}
    PROVE  \E m \in S : \A k \in S : k =< m
<1> DEFINE T == {n - k : k \in S}
<1>1. T \subseteq Nat /\ T # {}
  <2>1. \A k \in S : n - k \in Nat
    OBVIOUS
  <2> QED BY <2>1
<1> HIDE DEF T
<1>2. PICK t \in T : \A u \in T : t =< u
  BY <1>1, Least
<1>3. PICK m \in S : t = n - m
  BY DEF T
<1>4. \A k \in S : n - k \in T
  BY DEF T
<1>5. ASSUME NEW k \in S PROVE k =< m
  <2>1. n - m =< n - k
    BY <1>2, <1>3, <1>4
  <2>2. k \in Nat /\ m \in Nat
    OBVIOUS
  <2> QED BY <2>1, <2>2
<1> QED BY <1>5

\* The oldest n of a set of serials are n at most, and so are the newest.
LEMMA OldestAreFew ==
    ASSUME NEW top \in Nat, NEW S, S \subseteq 1..top, NEW n \in Nat
    PROVE  Oldest(S, n) \subseteq S /\ Cardinality(Oldest(S, n)) =< n
<1> DEFINE T == Oldest(S, n)
<1>1. T \subseteq S
  BY DEF Oldest
<1>2. CASE T = {}
  BY <1>1, <1>2, FS_EmptySet
<1>3. CASE T # {}
  <2>1. T \subseteq 1..top
    BY <1>1
  <2> HIDE DEF T
  <2>2. PICK m \in T : \A k \in T : k =< m
    BY <1>3, <2>1, Greatest
  <2> DEFINE U == {j \in S : j =< m}
  <2>3. Cardinality(U) =< n
    BY <2>2 DEF T, Oldest
  <2>4. T \in SUBSET U
    BY <1>1, <2>2
  <2>5. IsFiniteSet(S)
    <3>1. IsFiniteSet(1..top)
      BY FS_Interval
    <3> QED BY <3>1, FS_Subset
  <2>6. IsFiniteSet(U)
    BY <2>5, FS_Subset
  <2> HIDE DEF U
  <2>7. Cardinality(T) =< Cardinality(U) /\ Cardinality(U) \in Nat /\ Cardinality(T) \in Nat
    BY <2>4, <2>6, FS_Subset, FS_CardinalityType
  <2>8. Cardinality(T) =< n
    BY <2>3, <2>7
  <2> QED BY <1>1, <2>8 DEF T
<1> QED BY <1>2, <1>3

LEMMA NewestAreFew ==
    ASSUME NEW top \in Nat, NEW S, S \subseteq 1..top, NEW n \in Nat
    PROVE  Newest(S, n) \subseteq S /\ Cardinality(Newest(S, n)) =< n
<1> DEFINE T == Newest(S, n)
<1>1. T \subseteq S
  BY DEF Newest
<1>2. CASE T = {}
  BY <1>1, <1>2, FS_EmptySet
<1>3. CASE T # {}
  <2>0. 1..top \subseteq Nat
    OBVIOUS
  <2>1. T \subseteq Nat
    BY <1>1, <2>0
  <2> HIDE DEF T
  <2>2. PICK m \in T : \A k \in T : m =< k
    BY <1>3, <2>1, Least
  <2> DEFINE U == {j \in S : j >= m}
  <2>3. Cardinality(U) =< n
    BY <2>2 DEF T, Newest
  <2>4. T \in SUBSET U
    BY <1>1, <2>1, <2>2
  <2>5. IsFiniteSet(S)
    <3>1. IsFiniteSet(1..top)
      BY FS_Interval
    <3> QED BY <3>1, FS_Subset
  <2>6. IsFiniteSet(U)
    BY <2>5, FS_Subset
  <2> HIDE DEF U
  <2>7. Cardinality(T) =< Cardinality(U) /\ Cardinality(U) \in Nat /\ Cardinality(T) \in Nat
    BY <2>4, <2>6, FS_Subset, FS_CardinalityType
  <2>8. Cardinality(T) =< n
    BY <2>3, <2>7
  <2> QED BY <1>1, <2>8 DEF T
<1> QED BY <1>2, <1>3

\* Every release among the entries after s has a first one there.
LEMMA FirstIsThere ==
    ASSUME TypeOK, NEW s \in 0..Len(log), NEW i \in (s + 1)..Len(log), log[i] # Other
    PROVE  \E j \in About(i) : j \in FirstAfter(s)
<1> DEFINE S == {k \in (s + 1)..Len(log) : log[k] = log[i]}
<1>0. Len(log) \in Nat /\ s \in Nat
  BY DEF TypeOK
<1>1. S \subseteq Nat /\ S # {}
  BY <1>0
<1>2. S \subseteq (s + 1)..Len(log) /\ (\A k \in S : log[k] = log[i])
      /\ (\A k \in (s + 1)..Len(log) : log[k] = log[i] => k \in S)
  OBVIOUS
<1> HIDE DEF S
<1>3. PICK m \in S : \A k \in S : m =< k
  BY <1>1, Least
<1>4. m \in (s + 1)..Len(log) /\ log[m] = log[i]
  BY <1>2
<1>5. ASSUME NEW j \in (s + 1)..(m - 1) PROVE log[j] # log[m]
  <2>1. j \in (s + 1)..Len(log) /\ ~(m =< j)
    BY <1>0, <1>4
  <2> QED BY <1>2, <1>3, <1>4, <2>1
<1>6. m \in About(i)
  BY <1>0, <1>4 DEF About
<1>7. m \in FirstAfter(s)
  BY <1>4, <1>5 DEF FirstAfter
<1> QED BY <1>6, <1>7

LEMMA Initially == PypiAssumption /\ Init => IInv
<1> SUFFICES ASSUME PypiAssumption, Init PROVE IInv
  OBVIOUS
<1>1. Len(log) = 0 /\ log \in Seq(Releases \union {Other})
  BY DEF Init
<1>2. TypeOK
  <2>1. log \in Seq(Releases \union {Other}) /\ Len(log) =< MaxEntries /\ serial \in 0..Len(log)
    BY <1>1 DEF Init, PypiAssumption
  <2>2. /\ queued \in [Serials -> 0..2] /\ byRss \subseteq Releases
        /\ lost \subseteq Serials /\ faults \in 0..MaxFaults
    BY DEF Init, PypiAssumption
  <2>5. disturbed \in BOOLEAN
    BY Zenon DEF Init
  <2>3. /\ pc \in [Pollers -> {"idle", "fetch", "rss", "save", "put"}]
        /\ since \in [Pollers -> 0..Len(log)] /\ upto \in [Pollers -> 0..Len(log)]
        /\ batch \in [Pollers -> SUBSET (1..Len(log))] /\ rss \in [Pollers -> BOOLEAN]
    BY <1>1 DEF Init
  <2>4. \A p \in Pollers : pc[p] # "put"
    BY DEF Init
  <2> QED BY <2>1, <2>2, <2>3, <2>4, <2>5 DEF TypeOK
<1>3. Accounts /\ Alone /\ Events
  BY DEF Init, Accounts, SafeUpTo, Owes, Alone, InStep, Events
<1> QED BY <1>2, <1>3 DEF IInv

----------------------------------------------------------------------------
(* What is safe stays safe *)

Growing ==
    /\ Len(log) =< Len(log') /\ \A i \in 1..Len(log) : log'[i] = log[i]
    /\ byRss \subseteq byRss' /\ lost \subseteq lost'
    /\ \A j \in Serials : queued[j] > 0 => queued'[j] > 0

\* A serial that poll p has in hand with its cursor saved stays there, or is lost,
\* queued or known by RSS.
HandsOn(p) ==
    pc[p] = "put" => \A j \in batch[p] : \/ pc'[p] = "put" /\ j \in batch'[p]
                                         \/ j \in lost' \/ queued'[j] > 0 \/ log[j] \in byRss'

LEMMA SafeStays ==
    ASSUME TypeOK, TypeOK', Growing, \A p \in Pollers : HandsOn(p),
           NEW i \in 1..Len(log), Safe(i)
    PROVE  Safe(i)'
<1>0. /\ Len(log) \in Nat /\ Len(log') \in Nat /\ Len(log) =< MaxEntries
      /\ 1..Len(log) \subseteq 1..Len(log')
  BY DEF TypeOK, Growing
<1>1. log'[i] = log[i]
  BY DEF Growing
<1>2. ASSUME NEW j \in About(i)
      PROVE  j \in 1..Len(log) /\ log[j] = log[i] /\ log'[j] = log[i] /\ j \in About(i)'
  BY <1>0, <1>1, <1>2 DEF About, Growing
<1>3. CASE log[i] \in byRss
  BY <1>1, <1>3 DEF Safe, Growing
<1>4. ASSUME NEW j \in About(i), queued[j] > 0
      PROVE  Safe(i)'
  <2>1. j \in Serials
    BY <1>0, <1>2, PypiAssumption DEF Serials
  <2>2. queued'[j] > 0
    BY <1>4, <2>1 DEF Growing
  <2> QED BY <1>2, <2>2 DEF Safe
<1>5. ASSUME NEW j \in About(i), j \in lost
      PROVE  Safe(i)'
  BY <1>2, <1>5 DEF Safe, Growing
<1>6. ASSUME NEW j \in About(i), NEW p \in Pollers, pc[p] = "put", j \in batch[p]
      PROVE  Safe(i)'
  <2>1. \/ pc'[p] = "put" /\ j \in batch'[p]
        \/ j \in lost' \/ queued'[j] > 0 \/ log[j] \in byRss'
    BY <1>6 DEF HandsOn
  <2>2. CASE log[j] \in byRss'
    BY <1>1, <1>2, <2>2 DEF Safe
  <2>3. CASE pc'[p] = "put" /\ j \in batch'[p]
    BY <1>2, <2>3 DEF Safe
  <2>4. CASE j \in lost' \/ queued'[j] > 0
    BY <1>2, <2>4 DEF Safe
  <2> QED BY <2>1, <2>2, <2>3, <2>4
<1> QED BY <1>3, <1>4, <1>5, <1>6 DEF Safe

LEMMA SafeUpToStays ==
    ASSUME TypeOK, TypeOK', Growing, \A p \in Pollers : HandsOn(p),
           NEW n \in 0..Len(log), SafeUpTo(n)
    PROVE  \A i \in 1..n : log'[i] # Other => Safe(i)'
<1>1. \A i \in 1..n : i \in 1..Len(log) /\ log'[i] = log[i]
  BY DEF TypeOK, Growing
<1> QED BY <1>1, SafeStays DEF SafeUpTo

\* A step that leaves poll p as it is keeps its debts.
LEMMA OwesStays ==
    ASSUME TypeOK, TypeOK', Growing, \A q \in Pollers : HandsOn(q),
           NEW p \in Pollers, Owes(p), pc'[p] = pc[p], upto'[p] = upto[p], batch'[p] = batch[p]
    PROVE  Owes(p)'
<1> SUFFICES ASSUME pc[p] = "save", NEW i \in 1..upto[p], log'[i] # Other
             PROVE  Safe(i)' \/ \E j \in About(i)' : j \in batch'[p]
  BY DEF Owes
<1>1. i \in 1..Len(log) /\ log'[i] = log[i]
  BY DEF TypeOK, Growing
<1>2. CASE Safe(i)
  BY <1>1, <1>2, SafeStays
<1>3. ASSUME NEW j \in About(i), j \in batch[p]
      PROVE  j \in About(i)' /\ j \in batch'[p]
  BY <1>1, <1>3 DEF About, Growing, TypeOK
<1> QED BY <1>1, <1>2, <1>3 DEF Owes

\* A step of poll p keeps the accounts if it keeps its own and the cursor's.
LEMMA AccountsStay ==
    ASSUME TypeOK, TypeOK', Accounts, Growing, \A q \in Pollers : HandsOn(q),
           NEW p \in Pollers, SafeUpTo(serial)', SafeUpTo(since[p])', Owes(p)',
           \A q \in Pollers \ {p} : /\ pc'[q] = pc[q] /\ since'[q] = since[q]
                                   /\ upto'[q] = upto[q] /\ batch'[q] = batch[q]
    PROVE  Accounts'
<1>1. ASSUME NEW q \in Pollers, q # p
      PROVE  SafeUpTo(since[q])' /\ Owes(q)'
  <2>1. pc'[q] = pc[q] /\ since'[q] = since[q] /\ upto'[q] = upto[q] /\ batch'[q] = batch[q]
    BY <1>1
  <2>2. Owes(q)'
    BY <2>1, OwesStays DEF Accounts
  <2>3. since[q] \in 0..Len(log) /\ SafeUpTo(since[q])
    BY DEF TypeOK, Accounts
  <2>4. \A i \in 1..since[q] : log'[i] # Other => Safe(i)'
    BY <2>3, SafeUpToStays
  <2> QED BY <2>1, <2>2, <2>4 DEF SafeUpTo
<1> QED BY <1>1 DEF Accounts

\* The cursor's account, where the cursor does not move.
LEMMA CursorKept ==
    ASSUME TypeOK, TypeOK', Accounts, Growing, \A q \in Pollers : HandsOn(q), serial' = serial
    PROVE  SafeUpTo(serial)'
<1>1. serial \in 0..Len(log) /\ SafeUpTo(serial)
  BY DEF TypeOK, Accounts
<1>2. \A i \in 1..serial : log'[i] # Other => Safe(i)'
  BY <1>1, SafeUpToStays
<1> QED BY <1>2 DEF SafeUpTo

LEMMA SinceKept ==
    ASSUME TypeOK, TypeOK', Accounts, Growing, \A q \in Pollers : HandsOn(q),
           NEW p \in Pollers, since'[p] \in {since[p], 0}
    PROVE  SafeUpTo(since[p])'
<1>1. since[p] \in 0..Len(log) /\ SafeUpTo(since[p])
  BY DEF TypeOK, Accounts
<1>2. \A i \in 1..since[p] : log'[i] # Other => Safe(i)'
  BY <1>1, SafeUpToStays
<1>3. 1..since'[p] \subseteq 1..since[p]
  BY <1>1
<1> QED BY <1>2, <1>3 DEF SafeUpTo

\* A poll that is not disturbed is alone.
LEMMA OthersIdle ==
    ASSUME Alone, ~disturbed, NEW p \in Pollers, pc[p] # "idle", NEW q \in Pollers, q # p
    PROVE  pc[q] = "idle"
BY DEF Alone

LEMMA AloneStays ==
    ASSUME Alone, NEW p \in Pollers, pc[p] # "idle",
           \A q \in Pollers \ {p} : pc'[q] = pc[q],
           ~disturbed' => /\ ~disturbed
                          /\ \A i \in Serials : queued'[i] # 2 /\ (queued'[i] > 0 => i =< serial')
                          /\ InStep(p)'
    PROVE  Alone'
<1> SUFFICES ASSUME ~disturbed'
             PROVE  /\ \A q, r \in Pollers : pc'[q] # "idle" /\ pc'[r] # "idle" => q = r
                    /\ \A q \in Pollers : InStep(q)'
  BY DEF Alone
<1>1. \A q \in Pollers \ {p} : pc'[q] = "idle"
  BY OthersIdle
<1>2. \A q \in Pollers \ {p} : InStep(q)'
  BY <1>1 DEF InStep
<1> QED BY <1>1, <1>2

----------------------------------------------------------------------------
(* The step, one action at a time *)

LEMMA Publishing ==
    ASSUME IInv, NEW r \in Releases \union {Other}, Publish(r)
    PROVE  IInv'
<1>0. /\ UNCHANGED <<serial, queued, byRss, pc, since, upto, batch, rss, lost, disturbed, faults>>
      /\ log' = Append(log, r) /\ Len(log) < MaxEntries
  BY DEF Publish, local
<1>1. /\ log' \in Seq(Releases \union {Other}) /\ Len(log') = Len(log) + 1
      /\ \A i \in 1..Len(log) : log'[i] = log[i]
      /\ Len(log) \in Nat /\ MaxEntries \in Nat
  BY <1>0, PypiAssumption DEF IInv, TypeOK
<1>2. TypeOK'
  <2>1. 0..Len(log) \subseteq 0..Len(log') /\ 1..Len(log) \subseteq 1..Len(log')
        /\ Len(log') =< MaxEntries
    BY <1>0, <1>1
  <2>2. /\ serial' \in 0..Len(log')
        /\ since' \in [Pollers -> 0..Len(log')] /\ upto' \in [Pollers -> 0..Len(log')]
        /\ batch' \in [Pollers -> SUBSET (1..Len(log'))]
    BY <1>0, <2>1 DEF IInv, TypeOK
  <2> QED BY <1>0, <1>1, <2>1, <2>2 DEF IInv, TypeOK
<1>3. Growing /\ \A p \in Pollers : HandsOn(p)
  BY <1>0, <1>1 DEF Growing, HandsOn
<1>4. Accounts'
  <2>1. SafeUpTo(serial)'
    BY <1>0, <1>2, <1>3, CursorKept DEF IInv
  <2>2. ASSUME NEW p \in Pollers
        PROVE  SafeUpTo(since[p])' /\ Owes(p)'
    <3>1. SafeUpTo(since[p])'
      BY <1>0, <1>2, <1>3, SinceKept DEF IInv
    <3>2. Owes(p)'
      BY <1>0, <1>2, <1>3, OwesStays DEF IInv, Accounts
    <3> QED BY <3>1, <3>2
  <2> QED BY <2>1, <2>2 DEF Accounts
<1>5. Alone'
  BY <1>0 DEF IInv, Alone, InStep
<1>6. Events'
  BY <1>0, <1>1 DEF IInv, TypeOK, Events
<1> QED BY <1>2, <1>4, <1>5, <1>6 DEF IInv

LEMMA Starting ==
    ASSUME IInv, NEW p \in Pollers, Start(p)
    PROVE  IInv'
<1>0. /\ pc[p] = "idle" /\ pc' = [pc EXCEPT ![p] = "fetch"]
      /\ since' = [since EXCEPT ![p] = serial]
      /\ disturbed' = (disturbed \/ \E q \in Pollers : pc[q] # "idle")
      /\ UNCHANGED <<log, serial, queued, byRss, upto, batch, rss, lost, faults>>
  BY DEF Start, Goto
<1>1. TypeOK'
  <2>1. since' \in [Pollers -> 0..Len(log)]
    BY <1>0 DEF IInv, TypeOK
  <2>2. pc' \in [Pollers -> {"idle", "fetch", "rss", "save", "put"}]
        /\ \A q \in Pollers : pc'[q] = "put" => pc[q] = "put"
    BY <1>0 DEF IInv, TypeOK
  <2>3. disturbed' \in BOOLEAN
    BY <1>0, Zenon DEF IInv, TypeOK
  <2> QED BY <1>0, <2>1, <2>2, <2>3 DEF IInv, TypeOK
<1>2. /\ since'[p] = serial /\ pc'[p] = "fetch"
      /\ \A q \in Pollers \ {p} : pc'[q] = pc[q] /\ since'[q] = since[q]
  BY <1>0 DEF IInv, TypeOK
<1>3. Growing /\ \A q \in Pollers : HandsOn(q)
  BY <1>0, <1>2 DEF Growing, HandsOn
<1>4. Accounts'
  <2>1. SafeUpTo(serial)'
    BY <1>0, <1>1, <1>3, CursorKept DEF IInv
  <2>2. SafeUpTo(since[p])'
    BY <1>0, <1>2, <2>1 DEF SafeUpTo
  <2>3. Owes(p)'
    BY <1>2 DEF Owes
  <2> QED BY <1>0, <1>1, <1>2, <1>3, <2>1, <2>2, <2>3, AccountsStay DEF IInv
<1>5. Alone'
  <2> SUFFICES ASSUME ~disturbed' PROVE Alone'
    BY DEF Alone
  <2>1. ~disturbed /\ \A q \in Pollers : pc[q] = "idle"
    BY <1>0
  <2>2. \A q \in Pollers \ {p} : pc'[q] = "idle" /\ InStep(q)'
    BY <1>2, <2>1 DEF InStep
  <2>3. InStep(p)'
    BY <1>0, <1>2 DEF InStep
  <2>4. \A i \in Serials : queued'[i] # 2 /\ (queued'[i] > 0 => i =< serial')
    BY <1>0, <2>1 DEF IInv, Alone
  <2> QED BY <2>2, <2>3, <2>4 DEF Alone
<1> QED BY <1>0, <1>1, <1>4, <1>5 DEF IInv, Events

LEMMA Fetching ==
    ASSUME IInv, NEW p \in Pollers, FetchXmlrpc(p)
    PROVE  IInv'
<1> DEFINE news == FirstAfter(since[p])
<1>0. /\ pc[p] = "fetch"
      /\ UNCHANGED <<log, serial, queued, byRss, since, rss, lost, disturbed>>
      /\ faults' \in {faults, faults + 1} /\ (faults' # faults => faults < MaxFaults)
      /\ \/ /\ Len(log) > since[p] /\ batch' = [batch EXCEPT ![p] = news]
            /\ upto' = [upto EXCEPT ![p] = Len(log)] /\ pc' = [pc EXCEPT ![p] = "save"]
         \/ UNCHANGED <<batch, upto>> /\ pc' = [pc EXCEPT ![p] = "rss"]
  BY DEF FetchXmlrpc, Goto, Fault, NoFault
<1>1. Len(log) \in Nat /\ since[p] \in 0..Len(log)
  BY DEF IInv, TypeOK
<1>2. news \subseteq (since[p] + 1)..Len(log) /\ news \subseteq 1..Len(log)
  BY <1>1 DEF FirstAfter
<1> HIDE DEF news
<1>3. TypeOK'
  <2>1. batch' \in [Pollers -> SUBSET (1..Len(log))] /\ upto' \in [Pollers -> 0..Len(log)]
    <3>1. /\ batch \in [Pollers -> SUBSET (1..Len(log))] /\ upto \in [Pollers -> 0..Len(log)]
          /\ Len(log) \in 0..Len(log) /\ news \in SUBSET (1..Len(log))
      BY <1>1, <1>2 DEF IInv, TypeOK
    <3>2. batch' = [batch EXCEPT ![p] = news] \/ batch' = batch
      BY <1>0
    <3>3. upto' = [upto EXCEPT ![p] = Len(log)] \/ upto' = upto
      BY <1>0
    <3>4. batch' \in [Pollers -> SUBSET (1..Len(log))]
      BY <3>1, <3>2
    <3> QED BY <3>1, <3>3, <3>4
  <2>2. /\ pc' \in [Pollers -> {"idle", "fetch", "rss", "save", "put"}]
        /\ \A q \in Pollers : pc'[q] = "put" => pc[q] = "put" /\ batch'[q] = batch[q]
    BY <1>0 DEF IInv, TypeOK
  <2>3. faults' \in 0..MaxFaults
    BY <1>0, PypiAssumption DEF IInv, TypeOK
  <2> QED BY <1>0, <2>1, <2>2, <2>3 DEF IInv, TypeOK
<1>4. /\ pc'[p] \in {"save", "rss"}
      /\ \A q \in Pollers \ {p} : pc'[q] = pc[q] /\ upto'[q] = upto[q] /\ batch'[q] = batch[q]
      /\ pc'[p] = "save" => Len(log) > since[p] /\ batch'[p] = news /\ upto'[p] = Len(log)
  BY <1>0 DEF IInv, TypeOK
<1>5. Growing /\ \A q \in Pollers : HandsOn(q)
  BY <1>0, <1>4 DEF Growing, HandsOn
<1>6. Accounts'
  <2>1. SafeUpTo(serial)'
    BY <1>0, <1>3, <1>5, CursorKept DEF IInv
  <2>2. SafeUpTo(since[p])'
    BY <1>0, <1>3, <1>5, SinceKept DEF IInv
  <2>3. Owes(p)'
    <3> SUFFICES ASSUME pc'[p] = "save", NEW i \in 1..Len(log), log[i] # Other
                 PROVE  Safe(i)' \/ \E j \in About(i)' : j \in batch'[p]
      BY <1>0, <1>4 DEF Owes
    <3>1. CASE i \in 1..since[p]
      BY <1>0, <2>2, <3>1 DEF SafeUpTo
    <3>2. CASE i \in (since[p] + 1)..Len(log)
      BY <1>0, <1>1, <1>4, <3>2, FirstIsThere DEF IInv, news, About
    <3> QED BY <1>1, <3>1, <3>2
  <2> QED BY <1>0, <1>3, <1>4, <1>5, <2>1, <2>2, <2>3, AccountsStay DEF IInv
<1>7. Alone'
  <2>1. ASSUME ~disturbed'
        PROVE  InStep(p)' /\ \A i \in Serials : queued'[i] # 2 /\ (queued'[i] > 0 => i =< serial')
    <3>1. ~disturbed /\ since[p] = serial
      BY <1>0, <2>1 DEF IInv, Alone, InStep
    <3>2. CASE pc'[p] = "save"
      <4>1. since'[p] = serial' /\ since'[p] < upto'[p]
        BY <1>0, <1>4, <3>1, <3>2
      <4>2. \A j \in batch'[p] : j > serial' /\ j =< upto'[p]
        <5>1. batch'[p] = news /\ upto'[p] = Len(log) /\ serial' = since[p]
          BY <1>0, <1>4, <3>1, <3>2
        <5>2. \A j \in (since[p] + 1)..Len(log) : j > since[p] /\ j =< Len(log)
          BY <1>1
        <5> QED BY <1>2, <5>1, <5>2
      <4> QED BY <3>1, <3>2, <1>0, <4>1, <4>2 DEF InStep, IInv, Alone
    <3>3. CASE pc'[p] = "rss"
      BY <1>0, <3>1, <3>3 DEF InStep, IInv, Alone
    <3> QED BY <1>4, <3>2, <3>3
  <2> QED BY <1>0, <1>4, <2>1, AloneStays DEF IInv
<1>8. Events'
  <2>1. \A j \in news : log[j] # Other
    BY DEF news, FirstAfter
  <2>2. batch'[p] = news \/ batch'[p] = batch[p]
    BY <1>0 DEF IInv, TypeOK
  <2> QED BY <1>0, <1>4, <2>1, <2>2 DEF IInv, Events
<1> QED BY <1>3, <1>6, <1>7, <1>8 DEF IInv

LEMMA Saving ==
    ASSUME IInv, NEW p \in Pollers, SaveSerial(p)
    PROVE  IInv'
<1> DEFINE kept == Oldest(batch[p], MaxEvents)
<1>0. /\ pc[p] = "save"
      /\ UNCHANGED <<log, queued, byRss, since, upto, rss>>
      /\ faults' \in {faults, faults + 1} /\ (faults' # faults => faults < MaxFaults)
      /\ \/ serial' = upto[p] /\ disturbed' = disturbed
         \/ serial' = serial /\ disturbed' = TRUE
      /\ batch' = [batch EXCEPT ![p] = kept] /\ lost' = lost \union (batch[p] \ kept)
      /\ pc' = [pc EXCEPT ![p] = IF batch[p] = {} THEN "rss" ELSE "put"]
  BY DEF SaveSerial, Goto, Fault, NoFault
<1>1. /\ Len(log) \in Nat /\ upto[p] \in 0..Len(log) /\ batch[p] \subseteq 1..Len(log)
      /\ Len(log) =< MaxEntries /\ MaxEntries \in Nat /\ MaxEvents \in Nat
  BY PypiAssumption DEF IInv, TypeOK
<1>2. kept \subseteq batch[p] /\ Cardinality(kept) =< MaxEvents
  BY <1>1, OldestAreFew
<1> HIDE DEF kept
<1>3. /\ pc'[p] = (IF batch[p] = {} THEN "rss" ELSE "put") /\ batch'[p] = kept
      /\ \A q \in Pollers \ {p} : pc'[q] = pc[q] /\ batch'[q] = batch[q]
  BY <1>0 DEF IInv, TypeOK
<1>4. TypeOK'
  <2>1. batch' \in [Pollers -> SUBSET (1..Len(log))]
    BY <1>0, <1>1, <1>2 DEF IInv, TypeOK
  <2>2. pc' \in [Pollers -> {"idle", "fetch", "rss", "save", "put"}]
    BY <1>0 DEF IInv, TypeOK
  <2>3. \A q \in Pollers : pc'[q] = "put" => Cardinality(batch'[q]) =< MaxEvents
    BY <1>2, <1>3 DEF IInv, TypeOK
  <2>4. serial' \in 0..Len(log)
    BY <1>0, <1>1 DEF IInv, TypeOK
  <2>5. lost' \subseteq Serials
    <3>1. 1..Len(log) \subseteq Serials
      BY <1>1 DEF Serials
    <3> QED BY <1>0, <1>1, <3>1 DEF IInv, TypeOK
  <2>6. faults' \in 0..MaxFaults
    BY <1>0, PypiAssumption DEF IInv, TypeOK
  <2>7. disturbed' \in BOOLEAN
    BY <1>0, Zenon DEF IInv, TypeOK
  <2> QED BY <1>0, <2>1, <2>2, <2>3, <2>4, <2>5, <2>6, <2>7 DEF IInv, TypeOK
<1>5. Growing /\ \A q \in Pollers : HandsOn(q)
  BY <1>0, <1>3 DEF Growing, HandsOn
<1>6. Accounts'
  <2>1. ASSUME NEW i \in 1..upto[p], log[i] # Other
        PROVE  Safe(i)'
    <3>1. i \in 1..Len(log)
      BY <1>1
    <3>2. CASE Safe(i)
      BY <1>4, <1>5, <3>1, <3>2, SafeStays DEF IInv
    <3>3. ASSUME NEW j \in About(i), j \in batch[p]
          PROVE  Safe(i)'
      <4>1. j \in About(i)'
        BY <1>0 DEF About
      <4>2. j \in lost' \/ (pc'[p] = "put" /\ j \in batch'[p])
        BY <1>0, <1>3, <3>3
      <4> QED BY <4>1, <4>2 DEF Safe
    <3>4. Safe(i) \/ \E j \in About(i) : j \in batch[p]
      BY <1>0, <2>1 DEF IInv, Accounts, Owes
    <3> QED BY <3>2, <3>3, <3>4
  <2>2. SafeUpTo(serial)'
    <3>1. CASE serial' = upto[p]
      BY <1>0, <2>1, <3>1 DEF SafeUpTo
    <3>2. CASE serial' = serial
      BY <1>4, <1>5, <3>2, CursorKept DEF IInv
    <3> QED BY <1>0, <3>1, <3>2
  <2>3. SafeUpTo(since[p])'
    BY <1>0, <1>4, <1>5, SinceKept DEF IInv
  <2>4. Owes(p)'
    BY <1>3 DEF Owes
  <2> QED BY <1>0, <1>3, <1>4, <1>5, <2>2, <2>3, <2>4, AccountsStay DEF IInv
<1>7. Alone'
  <2>1. ASSUME ~disturbed'
        PROVE  /\ ~disturbed /\ InStep(p)'
               /\ \A i \in Serials : queued'[i] # 2 /\ (queued'[i] > 0 => i =< serial')
    <3>1. ~disturbed /\ serial' = upto[p]
      BY <1>0, <2>1
    <3>2. /\ since[p] = serial /\ since[p] < upto[p]
          /\ \A j \in batch[p] : j > serial /\ j =< upto[p]
          /\ \A i \in Serials : queued[i] # 2 /\ (queued[i] > 0 => i =< serial)
      BY <1>0, <3>1 DEF IInv, Alone, InStep
    <3>3. \A i \in Serials : queued[i] \in Nat /\ i \in Nat /\ serial \in Nat
      <4>1. serial \in 0..Len(log) /\ \A i \in Serials : queued[i] \in 0..2
        BY DEF IInv, TypeOK
      <4>2. \A i \in Serials : i \in Nat
        BY <1>1 DEF Serials
      <4> QED BY <1>1, <4>1, <4>2
    <3>4. \A i \in Serials : queued'[i] # 2 /\ (queued'[i] > 0 => i =< serial')
      BY <1>0, <1>1, <3>1, <3>2, <3>3
    <3>5. ASSUME NEW j \in batch'[p]
          PROVE  j =< serial' /\ queued'[j] = 0
      <4>1. j \in batch[p] /\ j \in Serials
        BY <1>1, <1>2, <1>3 DEF Serials
      <4>2. j > serial /\ j =< serial'
        BY <3>1, <3>2, <4>1
      <4>3. ~(queued[j] > 0)
        BY <3>2, <3>3, <4>1, <4>2
      <4> QED BY <1>0, <3>3, <4>1, <4>2, <4>3
    <3>6. InStep(p)'
      BY <1>3, <3>5 DEF InStep
    <3> QED BY <3>1, <3>4, <3>6
  <2> QED BY <1>0, <1>3, <2>1, AloneStays DEF IInv
<1>8. Events'
  BY <1>0, <1>2, <1>3 DEF IInv, Events
<1> QED BY <1>4, <1>6, <1>7, <1>8 DEF IInv

\* A poll that ends leaves nothing unaccounted, if what it had in hand is lost.
LEMMA Ending ==
    ASSUME IInv, NEW p \in Pollers, pc[p] # "idle", Finish(p),
           UNCHANGED <<log, serial, queued, byRss, disturbed>>,
           lost \subseteq lost', lost' \subseteq Serials, faults' \in 0..MaxFaults,
           pc[p] = "put" => batch[p] \subseteq lost'
    PROVE  IInv'
<1>0. /\ pc' = [pc EXCEPT ![p] = "idle"] /\ since' = [since EXCEPT ![p] = 0]
      /\ upto' = [upto EXCEPT ![p] = 0] /\ batch' = [batch EXCEPT ![p] = {}]
      /\ rss' = [rss EXCEPT ![p] = FALSE]
  BY DEF Finish, Goto
<1>1. /\ pc'[p] = "idle" /\ since'[p] = 0
      /\ \A q \in Pollers \ {p} : /\ pc'[q] = pc[q] /\ since'[q] = since[q]
                                 /\ upto'[q] = upto[q] /\ batch'[q] = batch[q]
  BY <1>0 DEF IInv, TypeOK
<1>2. TypeOK'
  <2>1. Len(log) \in Nat
    BY DEF IInv, TypeOK
  <2>2. /\ since' \in [Pollers -> 0..Len(log)] /\ upto' \in [Pollers -> 0..Len(log)]
        /\ batch' \in [Pollers -> SUBSET (1..Len(log))]
    BY <1>0, <2>1 DEF IInv, TypeOK
  <2>3. pc' \in [Pollers -> {"idle", "fetch", "rss", "save", "put"}]
        /\ rss' \in [Pollers -> BOOLEAN]
    BY <1>0 DEF IInv, TypeOK
  <2>4. \A q \in Pollers : pc'[q] = "put" => Cardinality(batch'[q]) =< MaxEvents
    BY <1>1 DEF IInv, TypeOK
  <2> QED BY <2>2, <2>3, <2>4 DEF IInv, TypeOK
<1>3. Growing /\ \A q \in Pollers : HandsOn(q)
  BY <1>1 DEF Growing, HandsOn
<1>4. Accounts'
  <2>1. SafeUpTo(serial)'
    BY <1>2, <1>3, CursorKept DEF IInv
  <2>2. SafeUpTo(since[p])'
    BY <1>1, <1>2, <1>3, SinceKept DEF IInv
  <2>3. Owes(p)'
    BY <1>1 DEF Owes
  <2> QED BY <1>1, <1>2, <1>3, <2>1, <2>2, <2>3, AccountsStay DEF IInv
<1>5. Alone'
  <2>1. InStep(p)'
    BY <1>1 DEF InStep
  <2>2. ~disturbed' => /\ ~disturbed
                       /\ \A i \in Serials : queued'[i] # 2 /\ (queued'[i] > 0 => i =< serial')
    BY DEF IInv, Alone
  <2> QED BY <1>1, <2>1, <2>2, AloneStays DEF IInv
<1>6. Events'
  <2>1. batch'[p] = {}
    BY <1>0 DEF IInv, TypeOK
  <2> QED BY <1>1, <2>1 DEF IInv, Events
<1> QED BY <1>2, <1>4, <1>5, <1>6 DEF IInv

LEMMA ReadingRss ==
    ASSUME IInv, NEW p \in Pollers, FetchRss(p)
    PROVE  IInv'
<1> DEFINE shown == Newest(Newest(FirstAfter(0), RssSize), MaxEvents)
<1>1. CASE Fault /\ Finish(p)
  <2>1. /\ pc[p] = "rss" /\ UNCHANGED <<log, serial, queued, byRss, lost, disturbed>>
        /\ faults' \in 0..MaxFaults
    BY <1>1, PypiAssumption DEF FetchRss, Fault, IInv, TypeOK
  <2> QED BY <1>1, <2>1, Ending DEF IInv, TypeOK
<1>2. CASE ~(Fault /\ Finish(p))
  <2>0. /\ pc[p] = "rss" /\ UNCHANGED <<log, serial, queued, byRss, since, upto, lost, disturbed, faults>>
        /\ batch' = [batch EXCEPT ![p] = shown] /\ rss' = [rss EXCEPT ![p] = TRUE]
        /\ pc' = [pc EXCEPT ![p] = "put"]
    BY <1>2 DEF FetchRss, NoFault, Goto
  <2>1. /\ shown \subseteq 1..Len(log) /\ Cardinality(shown) =< MaxEvents
        /\ \A j \in shown : log[j] # Other
    <3>1. Len(log) \in Nat /\ RssSize \in Nat /\ MaxEvents \in Nat
      BY PypiAssumption DEF IInv, TypeOK
    <3>2. FirstAfter(0) \subseteq 1..Len(log)
      BY <3>1 DEF FirstAfter
    <3>3. Newest(FirstAfter(0), RssSize) \subseteq 1..Len(log)
      BY <3>1, <3>2, NewestAreFew
    <3>4. shown \subseteq FirstAfter(0)
      BY DEF Newest
    <3>5. \A j \in FirstAfter(0) : log[j] # Other
      BY DEF FirstAfter
    <3>6. shown \subseteq 1..Len(log) /\ Cardinality(shown) =< MaxEvents
      BY <3>1, <3>3, NewestAreFew
    <3> QED BY <3>4, <3>5, <3>6
  <2> HIDE DEF shown
  <2>2. /\ pc'[p] = "put" /\ batch'[p] = shown /\ rss'[p]
        /\ \A q \in Pollers \ {p} : pc'[q] = pc[q] /\ batch'[q] = batch[q]
    BY <2>0 DEF IInv, TypeOK
  <2>3. TypeOK'
    <3>1. /\ batch' \in [Pollers -> SUBSET (1..Len(log))] /\ rss' \in [Pollers -> BOOLEAN]
          /\ pc' \in [Pollers -> {"idle", "fetch", "rss", "save", "put"}]
      BY <2>0, <2>1 DEF IInv, TypeOK
    <3>2. \A q \in Pollers : pc'[q] = "put" => Cardinality(batch'[q]) =< MaxEvents
      BY <2>1, <2>2 DEF IInv, TypeOK
    <3> QED BY <2>0, <3>1, <3>2 DEF IInv, TypeOK
  <2>4. Growing /\ \A q \in Pollers : HandsOn(q)
    BY <2>0, <2>2 DEF Growing, HandsOn
  <2>5. Accounts'
    <3>1. SafeUpTo(serial)'
      BY <2>0, <2>3, <2>4, CursorKept DEF IInv
    <3>2. SafeUpTo(since[p])'
      BY <2>0, <2>3, <2>4, SinceKept DEF IInv
    <3>3. Owes(p)'
      BY <2>2 DEF Owes
    <3> QED BY <2>0, <2>2, <2>3, <2>4, <3>1, <3>2, <3>3, AccountsStay DEF IInv
  <2>6. Alone'
    <3>1. InStep(p)'
      BY <2>2 DEF InStep
    <3>2. ~disturbed' => /\ ~disturbed
                         /\ \A i \in Serials : queued'[i] # 2 /\ (queued'[i] > 0 => i =< serial')
      BY <2>0 DEF IInv, Alone
    <3> QED BY <2>0, <2>2, <3>1, <3>2, AloneStays DEF IInv
  <2>7. Events'
    BY <2>0, <2>1, <2>2 DEF IInv, Events
  <2> QED BY <2>3, <2>5, <2>6, <2>7 DEF IInv
<1> QED BY <1>1, <1>2

LEMMA Putting ==
    ASSUME IInv, NEW p \in Pollers, Put(p)
    PROVE  IInv'
<1>0. PICK i \in batch[p] :
        /\ pc[p] = "put" /\ UNCHANGED <<log, serial, pc, since, upto, rss, disturbed>>
        /\ batch' = [batch EXCEPT ![p] = @ \ {i}]
        /\ \/ /\ lost' = lost /\ faults' = faults
              /\ \/ rss[p] /\ byRss' = byRss \union {log[i]} /\ queued' = queued
                 \/ /\ ~rss[p] /\ byRss' = byRss
                    /\ queued' = [queued EXCEPT ![i] = IF @ < 2 THEN @ + 1 ELSE @]
           \/ /\ lost' = lost \union {i} /\ queued' = queued /\ byRss' = byRss
              /\ faults < MaxFaults /\ faults' = faults + 1
  BY DEF Put, NoFault, Fault
<1>1. /\ Len(log) \in Nat /\ batch[p] \subseteq 1..Len(log) /\ 1..Len(log) \subseteq Serials
      /\ i \in 1..Len(log) /\ i \in Serials /\ queued[i] \in 0..2
  BY PypiAssumption DEF IInv, TypeOK, Serials
<1>2. /\ batch'[p] = batch[p] \ {i}
      /\ \A q \in Pollers \ {p} : batch'[q] = batch[q]
      /\ \A j \in Serials \ {i} : queued'[j] = queued[j]
      /\ queued'[i] = queued[i] \/ (~rss[p] /\ queued'[i] = IF queued[i] < 2 THEN queued[i] + 1 ELSE queued[i])
  BY <1>0, <1>1 DEF IInv, TypeOK
<1>3. \/ queued'[i] > 0 \/ i \in lost' \/ log[i] \in byRss'
  BY <1>0, <1>1 DEF IInv, TypeOK
<1>4. log[i] \in Releases
  BY <1>1 DEF IInv, TypeOK, Events
<1>5. TypeOK'
  <2>1. queued' \in [Serials -> 0..2]
    <3>1. queued \in [Serials -> 0..2] /\ \A n \in 0..2 : (IF n < 2 THEN n + 1 ELSE n) \in 0..2
      BY DEF IInv, TypeOK
    <3>2. queued' = queued \/ queued' = [queued EXCEPT ![i] = IF @ < 2 THEN @ + 1 ELSE @]
      BY <1>0
    <3> QED BY <1>1, <3>1, <3>2
  <2>2. byRss' \subseteq Releases /\ lost' \subseteq Serials
    BY <1>0, <1>1, <1>4 DEF IInv, TypeOK
  <2>3. batch' \in [Pollers -> SUBSET (1..Len(log))]
    BY <1>0 DEF IInv, TypeOK
  <2>4. ASSUME NEW q \in Pollers, pc'[q] = "put"
        PROVE  Cardinality(batch'[q]) =< MaxEvents
    <3>1. batch'[q] \subseteq batch[q]
      BY <1>2
    <3>2. batch[q] \subseteq 1..Len(log) /\ Cardinality(batch[q]) =< MaxEvents
      BY <1>0, <2>4 DEF IInv, TypeOK
    <3>3. IsFiniteSet(batch[q])
      <4>1. IsFiniteSet(1..Len(log))
        BY <1>1, FS_Interval
      <4> QED BY <3>2, <4>1, FS_Subset
    <3>4. /\ Cardinality(batch'[q]) \in Nat /\ Cardinality(batch[q]) \in Nat
          /\ Cardinality(batch'[q]) =< Cardinality(batch[q])
      BY <3>1, <3>3, FS_Subset, FS_CardinalityType
    <3>5. MaxEvents \in Nat
      BY PypiAssumption
    <3> QED BY <3>2, <3>4, <3>5
  <2>5. faults' \in 0..MaxFaults
    BY <1>0, PypiAssumption DEF IInv, TypeOK
  <2> QED BY <1>0, <2>1, <2>2, <2>3, <2>4, <2>5 DEF IInv, TypeOK
<1>6. Growing /\ \A q \in Pollers : HandsOn(q)
  <2>1. \A j \in Serials : queued[j] > 0 => queued'[j] > 0
    BY <1>1, <1>2
  <2>2. Growing
    BY <1>0, <2>1 DEF Growing
  <2>3. \A q \in Pollers : HandsOn(q)
    BY <1>0, <1>2, <1>3 DEF HandsOn
  <2> QED BY <2>2, <2>3
<1>7. Accounts'
  <2>1. SafeUpTo(serial)'
    BY <1>0, <1>5, <1>6, CursorKept DEF IInv
  <2>2. SafeUpTo(since[p])'
    BY <1>0, <1>5, <1>6, SinceKept DEF IInv
  <2>3. Owes(p)'
    BY <1>0 DEF Owes
  <2> QED BY <1>0, <1>2, <1>5, <1>6, <2>1, <2>2, <2>3, AccountsStay DEF IInv
<1>8. Alone'
  <2>1. ASSUME ~disturbed'
        PROVE  /\ ~disturbed /\ InStep(p)'
               /\ \A j \in Serials : queued'[j] # 2 /\ (queued'[j] > 0 => j =< serial')
    <3>1. ~disturbed /\ InStep(p)
      BY <1>0, <2>1 DEF IInv, Alone
    <3>2. ~rss[p] => queued[i] = 0 /\ i =< serial
      BY <1>0, <3>1 DEF InStep
    <3>3. \A j \in Serials : queued[j] # 2 /\ (queued[j] > 0 => j =< serial)
      BY <3>1 DEF IInv, Alone
    <3>4. queued'[i] # 2 /\ (queued'[i] > 0 => i =< serial')
      BY <1>0, <1>1, <1>2, <3>2, <3>3
    <3>5. \A j \in Serials : queued'[j] # 2 /\ (queued'[j] > 0 => j =< serial')
      BY <1>0, <1>2, <3>3, <3>4
    <3>6. \A j \in batch'[p] : j \in batch[p] /\ j \in Serials \ {i}
      BY <1>1, <1>2
    <3>7. InStep(p)'
      BY <1>0, <1>2, <3>1, <3>6 DEF InStep
    <3> QED BY <3>1, <3>5, <3>7
  <2> QED BY <1>0, <2>1, AloneStays DEF IInv
<1>9. Events'
  BY <1>0, <1>2 DEF IInv, Events
<1> QED BY <1>5, <1>7, <1>8, <1>9 DEF IInv

LEMMA Returning ==
    ASSUME IInv, NEW p \in Pollers, Return(p)
    PROVE  IInv'
<1>1. /\ pc[p] = "put" /\ batch[p] = {} /\ Finish(p)
      /\ UNCHANGED <<log, serial, queued, byRss, lost, disturbed, faults>>
  BY DEF Return
<1> QED BY <1>1, Ending DEF IInv, TypeOK

LEMMA Crashing ==
    ASSUME IInv, NEW p \in Pollers, Crash(p)
    PROVE  IInv'
<1>1. /\ pc[p] # "idle" /\ Finish(p) /\ UNCHANGED <<log, serial, queued, byRss, disturbed>>
      /\ lost' = IF pc[p] = "put" THEN lost \union batch[p] ELSE lost
  BY DEF Crash
<1>2. faults' \in 0..MaxFaults
  BY PypiAssumption DEF Crash, Fault, IInv, TypeOK
<1>3. lost' \subseteq Serials
  <2>1. batch[p] \subseteq Serials
    BY PypiAssumption DEF IInv, TypeOK, Serials
  <2> QED BY <1>1, <2>1 DEF IInv, TypeOK
<1> QED BY <1>1, <1>2, <1>3, Ending

LEMMA Inductive == IInv /\ [Next]_vars => IInv'
<1> SUFFICES ASSUME IInv, [Next]_vars PROVE IInv'
  OBVIOUS
<1>1. ASSUME NEW r \in Releases \union {Other}, Publish(r) PROVE IInv'
  BY <1>1, Publishing
<1>2. ASSUME NEW p \in Pollers, Start(p) PROVE IInv'
  BY <1>2, Starting
<1>3. ASSUME NEW p \in Pollers, Step(p) PROVE IInv'
  BY <1>3, Fetching, Saving, ReadingRss, Putting, Returning DEF Step
<1>4. ASSUME NEW p \in Pollers, Crash(p) PROVE IInv'
  BY <1>4, Crashing
<1>5. CASE UNCHANGED vars
  <2>1. UNCHANGED <<log, serial, queued, byRss, pc, since, upto, batch, rss, lost, disturbed, faults>>
    BY <1>5 DEF vars, local
  <2>2. TypeOK' /\ Events'
    BY <2>1 DEF IInv, TypeOK, Events
  <2>3. Accounts'
    BY <2>1 DEF IInv, Accounts, SafeUpTo, Owes, Safe, About
  <2>4. Alone'
    BY <2>1 DEF IInv, Alone, InStep
  <2> QED BY <2>2, <2>3, <2>4 DEF IInv
<1> QED BY <1>1, <1>2, <1>3, <1>4, <1>5 DEF Next

LEMMA Invariant == Spec => []IInv
<1>1. Init => IInv
  BY Initially, PypiAssumption
<1> QED BY <1>1, Inductive, PTL DEF Spec

----------------------------------------------------------------------------
(* Theorems *)

\* Every variable keeps its type; a poll never enqueues more than max_events, which
\* takes that the oldest n of a set are n at most (poll_once).
THEOREM TypeCorrect == Spec => []TypeOK
<1>1. IInv => TypeOK
  BY DEF IInv
<1> QED BY <1>1, Invariant, PTL

\* A release is lost only where max_events cut it off, its INSERT failed or its poll
\* was killed with the cursor saved, however many polls overlap (poll_once).
THEOREM LossesHaveCause == Spec => []LossHasCause
<1>1. IInv => LossHasCause
  <2> SUFFICES ASSUME IInv, NEW i \in 1..serial, log[i] # Other
               PROVE  \/ log[i] \in byRss
                      \/ \E j \in About(i) : \/ queued[j] > 0 \/ j \in lost
                                             \/ \E p \in Pollers : j \in batch[p]
    BY DEF LossHasCause
  <2>1. Safe(i)
    BY DEF IInv, Accounts, SafeUpTo
  <2> QED BY <2>1 DEF Safe
<1> QED BY <1>1, Invariant, PTL

\* An entry is enqueued twice only where polls overlapped or a cursor was not saved
\* (poll_once, set_last_serial).
THEOREM QueuedOnce == Spec => []AtMostOnce
<1>1. IInv => AtMostOnce
  BY Zenon DEF IInv, Alone, AtMostOnce
<1> QED BY <1>1, Invariant, PTL

\* The cursor moves back only where polls overlapped or a cursor was not saved
\* (set_last_serial).
THEOREM CursorMovesOn == Spec => MovesBackByOverlap
<1>1. IInv /\ [Next]_vars => [serial' < serial => disturbed]_vars
  <2> SUFFICES ASSUME IInv, Next, serial' < serial PROVE disturbed
    BY DEF vars
  <2>1. PICK p \in Pollers : SaveSerial(p)
    <3>1. serial \in Nat /\ ~(serial < serial)
      BY DEF IInv, TypeOK
    <3> QED BY <3>1 DEF Next, Step, Publish, Start, FetchXmlrpc, FetchRss, Put, Return, Crash
  <2>2. pc[p] = "save" /\ serial' \in {upto[p], serial}
    BY <2>1 DEF SaveSerial
  <2>3. serial \in Nat /\ upto[p] \in Nat /\ since[p] \in Nat
    BY DEF IInv, TypeOK
  <2>4. ASSUME ~disturbed PROVE FALSE
    <3>1. since[p] = serial /\ since[p] < upto[p]
      BY <2>2, <2>4 DEF IInv, Alone, InStep
    <3> QED BY <2>2, <2>3, <3>1
  <2> QED BY <2>4
<1> QED BY <1>1, Invariant, PTL DEF Spec, MovesBackByOverlap
=============================================================================
