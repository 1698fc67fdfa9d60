------------------------ MODULE RuntimeIntelProofs ------------------------
(***************************************************************************)
(* Theorems about the runtime intelligence loop, for any number of         *)
(* handlers, processes, alerts and indicators and any sizes of the window  *)
(* and of the nonce cache.                                                 *)
(***************************************************************************)
EXTENDS RuntimeIntel, SequenceTheorems, FiniteSetTheorems, NaturalsInduction,
        WellFoundedInduction, TLAPS

----------------------------------------------------------------------------
(* The nonce cache *)

Entry == [req : Requests, at : Times]

LEMMA Least ==
    ASSUME NEW S, S \subseteq Nat, S # {}
    PROVE  \E m \in S : \A k \in S : m <= k
<1> DEFINE R == OpToRel(<, Nat)
<1>1. IsWellFoundedOn(R, Nat)
  BY NatLessThanWellFounded
<1>2. \A x, y \in Nat : x < y => <<x, y>> \in R
  BY DEF OpToRel
<1> HIDE DEF R
<1>3. PICK x \in S : \A y \in S : ~(<<y, x>> \in R)
  BY <1>1, WFMin
<1>4. ASSUME NEW y \in S PROVE x <= y
  <2>1. x \in Nat /\ y \in Nat
    OBVIOUS
  <2>2. ~(y < x)
    BY <1>2, <1>3, <2>1, Zenon
  <2> QED BY <2>1, <2>2
<1> QED BY <1>4

LEMMA FirstYoungExists ==
    ASSUME NEW q \in Seq(Entry), now \in Nat
    PROVE  /\ FirstYoung(q) \in 1..Len(q) + 1
           /\ \A m \in 1..FirstYoung(q) - 1 : now - q[m].at > NonceTTL
<1> DEFINE Young(n) == n <= Len(q) => now - q[n].at <= NonceTTL
           S == {n \in 1..Len(q) + 1 : Young(n)}
           First(n) == (\A m \in 1..n - 1 : now - q[m].at > NonceTTL) /\ Young(n)
<1>1. Len(q) \in Nat /\ NonceTTL \in Nat /\ \A m \in 1..Len(q) : q[m].at \in Nat
  <2>1. \A m \in 1..Len(q) : q[m] \in Entry
    BY ElementOfSeq
  <2> QED BY <2>1, IntelAssumption DEF Entry, Times
<1>2. Len(q) + 1 \in S /\ S \subseteq Nat
  BY <1>1
<1> HIDE DEF S
<1>3. PICK n \in S : \A k \in S : n <= k
  BY <1>2, Least
<1>4. n \in 1..Len(q) + 1 /\ Young(n)
  BY <1>3 DEF S
<1>5. ASSUME NEW m \in 1..n - 1 PROVE now - q[m].at > NonceTTL
  <2>1. m \in 1..Len(q) + 1 /\ m \notin S
    BY <1>1, <1>3, <1>4, <1>5
  <2>2. ~Young(m)
    BY <2>1 DEF S
  <2> QED BY <1>1, <1>4, <2>2
<1>6. First(n)
  BY <1>4, <1>5
<1>7. FirstYoung(q) = CHOOSE k \in 1..Len(q) + 1 : First(k)
  BY DEF FirstYoung
<1> HIDE DEF First
<1>8. FirstYoung(q) \in 1..Len(q) + 1 /\ First(FirstYoung(q))
  BY <1>4, <1>6, <1>7
<1> QED
  BY <1>8 DEF First

\* What the expiry loop drops is older than the TTL.
LEMMA SweptKeepsTheYoung ==
    ASSUME NEW q \in Seq(Entry), now \in Nat
    PROVE  /\ Swept(q) \in Seq(Entry)
           /\ \A m \in 1..Len(q) : \/ \E n \in 1..Len(Swept(q)) : Swept(q)[n] = q[m]
                                   \/ now - q[m].at > NonceTTL
           /\ \A n \in 1..Len(Swept(q)) : \E m \in 1..Len(q) : Swept(q)[n] = q[m]
<1> DEFINE f == FirstYoung(q)
<1>1. Len(q) \in Nat /\ f \in 1..Len(q) + 1 /\ \A m \in 1..f - 1 : now - q[m].at > NonceTTL
  BY FirstYoungExists
<1> HIDE DEF f
<1>2. \A m \in f..Len(q) : q[m] \in Entry
  BY <1>1
<1>3. /\ Swept(q) \in Seq(Entry)
      /\ Len(Swept(q)) = IF f <= Len(q) THEN Len(q) - f + 1 ELSE 0
      /\ \A n \in 1..Len(q) - f + 1 : Swept(q)[n] = q[f + n - 1]
  BY <1>1, <1>2, SubSeqProperties DEF Swept, f
<1>4. ASSUME NEW m \in 1..Len(q), ~(now - q[m].at > NonceTTL)
      PROVE  \E n \in 1..Len(Swept(q)) : Swept(q)[n] = q[m]
  <2>1. m >= f
    BY <1>1, <1>4
  <2>2. m - f + 1 \in 1..Len(q) - f + 1 /\ f + (m - f + 1) - 1 = m
    BY <1>1, <2>1
  <2>3. Swept(q)[m - f + 1] = q[m] /\ Len(Swept(q)) = Len(q) - f + 1
    BY <1>1, <1>3, <2>1, <2>2
  <2> QED BY <2>2, <2>3
<1>5. ASSUME NEW n \in 1..Len(Swept(q)) PROVE \E m \in 1..Len(q) : Swept(q)[n] = q[m]
  <2>1. f + n - 1 \in 1..Len(q) /\ Swept(q)[n] = q[f + n - 1]
    BY <1>1, <1>3
  <2> QED BY <2>1
<1> QED
  BY <1>3, <1>4, <1>5

LEMMA FittedIsSeq ==
    ASSUME NEW q \in Seq(Entry)
    PROVE  Fitted(q) \in Seq(Entry)
<1>1. CASE Len(q) >= NonceMax
  <2>1. \A m \in (Len(q) - NonceMax + 2)..Len(q) : q[m] \in Entry
    BY <1>1, ElementOfSeq, IntelAssumption
  <2>2. SubSeq(q, Len(q) - NonceMax + 2, Len(q)) \in Seq(Entry)
    BY <2>1, SubSeqProperties, IntelAssumption
  <2> QED
    BY <1>1, <2>2 DEF Fitted
<1> QED
  BY <1>1 DEF Fitted

\* Moving a nonce to the end loses none.
LEMMA TouchedKeeps ==
    ASSUME NEW q \in Seq(Entry), NEW r, Cached(q, r)
    PROVE  /\ Touched(q, r) \in Seq(Entry)
           /\ \A m \in 1..Len(q) : \E n \in 1..Len(Touched(q, r)) : Touched(q, r)[n] = q[m]
<1> DEFINE c == CHOOSE k \in 1..Len(q) : q[k].req = r
           left == SubSeq(q, 1, c - 1)
           right == SubSeq(q, c + 1, Len(q))
           rest == left \o right
<1>1. Len(q) \in Nat /\ c \in 1..Len(q) /\ q[c] \in Entry
  BY ElementOfSeq DEF Cached
<1>2. Touched(q, r) = Append(rest, q[c])
  BY DEF Touched
<1> HIDE DEF c
<1>3. \A m \in 1..c - 1 : q[m] \in Entry
  BY <1>1
<1>4. \A m \in c + 1..Len(q) : q[m] \in Entry
  BY <1>1
<1>5. left \in Seq(Entry) /\ Len(left) = c - 1 /\ \A m \in 1..c - 1 : left[m] = q[m]
  BY <1>1, <1>3, SubSeqProperties
<1>6. /\ right \in Seq(Entry) /\ Len(right) = Len(q) - c
      /\ \A m \in 1..Len(q) - c : right[m] = q[c + m]
  <2>1. /\ right \in Seq(Entry)
        /\ Len(right) = IF c + 1 <= Len(q) THEN Len(q) - (c + 1) + 1 ELSE 0
        /\ \A m \in 1..Len(q) - (c + 1) + 1 : right[m] = q[(c + 1) + m - 1]
    BY <1>1, <1>4, SubSeqProperties
  <2> QED BY <1>1, <2>1
<1> HIDE DEF left, right
<1>7. /\ rest \in Seq(Entry) /\ Len(rest) = Len(q) - 1
      /\ \A m \in 1..Len(q) - 1 : rest[m] = IF m <= c - 1 THEN left[m] ELSE right[m - (c - 1)]
  <2>1. /\ rest \in Seq(Entry) /\ Len(rest) = Len(left) + Len(right)
        /\ \A m \in 1..Len(left) + Len(right) :
               rest[m] = IF m <= Len(left) THEN left[m] ELSE right[m - Len(left)]
    BY <1>5, <1>6, ConcatProperties, Zenon
  <2>2. Len(left) + Len(right) = Len(q) - 1
    BY <1>1, <1>5, <1>6
  <2> QED BY <1>5, <2>1, <2>2
<1> HIDE DEF rest
<1>8. /\ Touched(q, r) \in Seq(Entry) /\ Len(Touched(q, r)) = Len(q)
      /\ \A m \in 1..Len(q) - 1 : Touched(q, r)[m] = rest[m]
      /\ Touched(q, r)[Len(q)] = q[c]
  BY <1>1, <1>2, <1>7, AppendProperties
<1>9. ASSUME NEW m \in 1..Len(q)
      PROVE  \E n \in 1..Len(q) : Touched(q, r)[n] = q[m]
  <2>1. CASE m = c
    BY <1>1, <1>8, <2>1
  <2>2. CASE m < c
    <3>1. m \in 1..Len(q) - 1 /\ Touched(q, r)[m] = q[m]
      BY <1>1, <1>5, <1>7, <1>8, <2>2
    <3> QED BY <1>1, <3>1
  <2>3. CASE m > c
    <3>1. m - 1 \in 1..Len(q) - 1 /\ (m - 1) - (c - 1) \in 1..Len(q) - c
      BY <1>1, <2>3
    <3>2. Touched(q, r)[m - 1] = right[(m - 1) - (c - 1)]
      BY <1>1, <1>7, <1>8, <2>3, <3>1
    <3>3. right[(m - 1) - (c - 1)] = q[c + ((m - 1) - (c - 1))]
      BY <1>6, <3>1
    <3>4. c + ((m - 1) - (c - 1)) = m
      BY <1>1
    <3> QED BY <1>1, <3>1, <3>2, <3>3, <3>4
  <2> QED BY <1>1, <2>1, <2>2, <2>3
<1> QED
  BY <1>8, <1>9

----------------------------------------------------------------------------
(* Rows and jobs *)

LEMMA BumpGrows ==
    ASSUME NEW c \in 0..100, NEW count \in Nat, NEW n \in Nat
    PROVE  Bump(c, count, n) \in c..100 /\ (n >= 2 => Bump(c, count, n) >= 90)
BY DEF Bump, AtLeast

\* Bump raises to a floor that the evidence sets.
Floor(count, n) == IF n >= 3 THEN 95 ELSE IF n >= 2 THEN 90
                   ELSE IF count >= 5 THEN 85 ELSE IF count >= 3 THEN 75 ELSE 0

LEMMA BumpIsFloor ==
    ASSUME NEW c \in Nat, NEW count \in Nat, NEW n \in Nat
    PROVE  Bump(c, count, n) = AtLeast(c, Floor(count, n))
<1>1. CASE count < 3
  BY <1>1 DEF Bump, AtLeast, Floor
<1>2. CASE count >= 3 /\ count < 5
  BY <1>2 DEF Bump, AtLeast, Floor
<1>3. CASE count >= 5
  BY <1>3 DEF Bump, AtLeast, Floor
<1> QED
  BY <1>1, <1>2, <1>3

\* Evidence that grows earns what all of it would have earned at once.
LEMMA BumpAgain ==
    ASSUME NEW c \in Nat, NEW count \in Nat, NEW more \in Nat,
           NEW n \in Nat, NEW k \in Nat, count <= more, n <= k
    PROVE  Bump(Bump(c, count, n), more, k) = Bump(c, more, k)
<1>1. Bump(c, count, n) = AtLeast(c, Floor(count, n)) /\ Bump(c, more, k) = AtLeast(c, Floor(more, k))
  BY BumpIsFloor
<1>2. Floor(count, n) \in Nat /\ Floor(more, k) \in Nat /\ Floor(count, n) <= Floor(more, k)
  BY DEF Floor
<1>3. Bump(c, count, n) \in Nat
  BY <1>1, <1>2 DEF AtLeast
<1>4. Bump(Bump(c, count, n), more, k) = AtLeast(Bump(c, count, n), Floor(more, k))
  BY <1>3, BumpIsFloor
<1>5. AtLeast(AtLeast(c, Floor(count, n)), Floor(more, k)) = AtLeast(c, Floor(more, k))
  BY <1>2 DEF AtLeast
<1> QED
  BY <1>1, <1>4, <1>5

LEMMA BumpOnce ==
    ASSUME NEW c \in 0..100, NEW n \in 0..1
    PROVE  Bump(c, 1, n) = c
BY DEF Bump, AtLeast

LEMMA OnePackage ==
    ASSUME NEW r
    PROVE  Cardinality(PackagesOf(r)) \in 0..1
<1>1. IsFiniteSet({PackageOf[r]}) /\ Cardinality({PackageOf[r]}) = 1
  BY FS_Singleton
<1>2. PackagesOf(r) \subseteq {PackageOf[r]}
  BY DEF PackagesOf
<1> QED
  BY <1>1, <1>2, FS_Subset, FS_CardinalityType

LEMMA PackagesFinite ==
    ASSUME NEW r \in Requests
    PROVE  /\ IsFiniteSet(PackagesOf(r))
           /\ PackagesOf(r) \subseteq {PackageOf[s] : s \in Requests}
<1>1. IsFiniteSet({PackageOf[r]}) /\ PackagesOf(r) \subseteq {PackageOf[r]}
  BY FS_Singleton DEF PackagesOf
<1> QED
  BY <1>1, FS_Subset

LEMMA RowMade ==
    ASSUME NEW conf \in 0..100, NEW count \in Nat,
           NEW packages \in SUBSET {PackageOf[r] : r \in Requests},
           NEW sources \in SUBSET ObsIds, NEW seen \in Times, NEW approved \in BOOLEAN
    PROVE  [confidence |-> conf, count |-> count, packages |-> packages,
            sources |-> sources, seen |-> seen, approved |-> approved] \in Row
BY Zenon DEF Row

LEMMA RowParts ==
    ASSUME NEW r \in Row
    PROVE  /\ r.confidence \in 0..100 /\ r.count \in Nat
           /\ r.packages \in SUBSET {PackageOf[s] : s \in Requests}
           /\ r.sources \in SUBSET ObsIds /\ r.seen \in Times /\ r.approved \in BOOLEAN
BY Zenon DEF Row

LEMMA RowStamped ==
    ASSUME NEW r \in Row, NEW b \in BOOLEAN
    PROVE  /\ [r EXCEPT !.approved = b] \in Row
           /\ [r EXCEPT !.approved = b].approved = b
BY Zenon DEF Row

LEMMA RowStampedRest ==
    ASSUME NEW r \in Row, NEW b \in BOOLEAN
    PROVE  LET s == [r EXCEPT !.approved = b]
           IN  /\ s.confidence = r.confidence /\ s.count = r.count
               /\ s.packages = r.packages /\ s.sources = r.sources /\ s.seen = r.seen
BY Zenon DEF Row

LEMMA RowWritten ==
    ASSUME NEW r \in Row, NEW conf \in 0..100, NEW count \in Nat,
           NEW packages \in SUBSET {PackageOf[t] : t \in Requests},
           NEW sources \in SUBSET ObsIds, NEW seen \in Times
    PROVE  [r EXCEPT !.confidence = conf, !.count = count, !.packages = packages,
                     !.sources = sources, !.seen = seen] \in Row
BY Zenon DEF Row

LEMMA RowWrittenParts ==
    ASSUME NEW r \in Row, NEW conf \in 0..100, NEW count \in Nat,
           NEW packages \in SUBSET {PackageOf[t] : t \in Requests},
           NEW sources \in SUBSET ObsIds, NEW seen \in Times
    PROVE  LET s == [r EXCEPT !.confidence = conf, !.count = count, !.packages = packages,
                             !.sources = sources, !.seen = seen]
           IN  /\ s.confidence = conf /\ s.count = count /\ s.packages = packages
               /\ s.sources = sources /\ s.seen = seen /\ s.approved = r.approved
BY Zenon DEF Row

\* The row an UPDATE writes is at least as due, and tells of one observation more.
LEMMA AccumulatedParts ==
    ASSUME NEW r \in Row, NEW j \in Jobs, j.obs # 0, IsFiniteSet(r.packages)
    PROVE  LET s == Accumulated(r, j)
           IN  /\ s \in Row
               /\ s.sources = r.sources \union {j.obs}
               /\ s.packages = r.packages \union PackagesOf(j.req)
               /\ s.count = IF j.obs \in r.sources THEN r.count ELSE r.count + 1
               /\ s.seen = j.stamp
               /\ s.confidence = Bump(r.confidence, s.count, Cardinality(s.packages))
               /\ IsFiniteSet(s.packages)
               /\ Due(r) => Due(s)
<1> DEFINE sources == r.sources \union {j.obs}
           packages == r.packages \union PackagesOf(j.req)
           count == IF j.obs \in r.sources THEN r.count ELSE r.count + 1
           conf == Bump(r.confidence, count, Cardinality(packages))
           s == Accumulated(r, j)
<1>1. j.obs \in ObsIds /\ j.req \in Requests /\ j.stamp \in Times
  BY IntelAssumption DEF Jobs, ObsIds
<1>2. /\ r.confidence \in 0..100 /\ r.count \in Nat
      /\ r.packages \in SUBSET {PackageOf[t] : t \in Requests}
      /\ r.sources \in SUBSET ObsIds /\ r.approved \in BOOLEAN
  BY RowParts
<1>3. PackagesOf(j.req) \subseteq {PackageOf[t] : t \in Requests} /\ IsFiniteSet(PackagesOf(j.req))
  BY <1>1, PackagesFinite
<1>4. packages \in SUBSET {PackageOf[t] : t \in Requests} /\ IsFiniteSet(packages)
  BY <1>2, <1>3, FS_Union
<1>5. count \in Nat /\ sources \in SUBSET ObsIds
  BY <1>1, <1>2
<1>6. Cardinality(packages) \in Nat /\ Cardinality(r.packages) \in Nat
      /\ Cardinality(r.packages) <= Cardinality(packages)
  BY <1>4, FS_CardinalityType, FS_Subset
<1>7. conf \in r.confidence..100 /\ (Cardinality(packages) >= 2 => conf >= 90)
  BY <1>2, <1>5, <1>6, BumpGrows
<1>8. s = [r EXCEPT !.confidence = conf, !.count = count, !.packages = packages,
                     !.sources = sources, !.seen = j.stamp]
  BY DEF Accumulated
<1> HIDE DEF sources, packages, count, conf, s
<1>9. s \in Row
  <2>1. conf \in 0..100
    BY <1>2, <1>7
  <2> QED BY <1>1, <1>4, <1>5, <1>8, <2>1, RowWritten
<1>11. /\ s.confidence = conf /\ s.count = count /\ s.packages = packages
       /\ s.sources = sources /\ s.seen = j.stamp
  BY <1>1, <1>2, <1>4, <1>5, <1>7, <1>8, RowWrittenParts
<1>10. Due(r) => s.confidence >= 90 \/ Cardinality(s.packages) >= 2
  BY <1>2, <1>6, <1>7, <1>11 DEF Due
<1> QED
  BY <1>4, <1>9, <1>10, <1>11 DEF s, sources, packages, count, conf, Due

LEMMA FirstRowParts ==
    ASSUME NEW i \in Iocs, NEW j \in Jobs, j.obs # 0
    PROVE  LET s == FirstRow(i, j)
           IN  /\ s \in Row
               /\ s.sources = {j.obs} /\ s.packages = PackagesOf(j.req) /\ s.count = 1
               /\ s.seen = j.stamp /\ ~s.approved
               /\ s.confidence = AtLeast(ConfidenceOf[i], 50)
               /\ IsFiniteSet(s.packages)
<1>1. j.obs \in ObsIds /\ j.req \in Requests /\ j.stamp \in Times
  BY IntelAssumption DEF Jobs, ObsIds
<1>2. AtLeast(ConfidenceOf[i], 50) \in 0..100
  BY IntelAssumption DEF AtLeast
<1>3. PackagesOf(j.req) \subseteq {PackageOf[t] : t \in Requests} /\ IsFiniteSet(PackagesOf(j.req))
  BY <1>1, PackagesFinite
<1>4. FirstRow(i, j) \in Row
  BY <1>1, <1>2, <1>3, RowMade DEF FirstRow
<1> QED
  BY <1>3, <1>4 DEF FirstRow

LEMMA JobTodo ==
    ASSUME NEW j \in Jobs, NEW todo \in Seq(Iocs)
    PROVE  LET k == [j EXCEPT !.todo = todo]
           IN  /\ k \in Jobs /\ k.todo = todo /\ k.stamp = j.stamp
               /\ k.req = j.req /\ k.obs = j.obs /\ k.left = j.left /\ k.read = j.read
BY DEF Jobs

LEMMA JobLeft ==
    ASSUME NEW j \in Jobs, NEW left \in Seq(STRING)
    PROVE  LET k == [j EXCEPT !.left = left]
           IN  /\ k \in Jobs /\ k.left = left /\ k.stamp = j.stamp
               /\ k.req = j.req /\ k.obs = j.obs /\ k.todo = j.todo /\ k.read = j.read
BY DEF Jobs

LEMMA JobObs ==
    ASSUME NEW j \in Jobs, NEW obs \in 0..MaxEvents
    PROVE  LET k == [j EXCEPT !.obs = obs]
           IN  /\ k \in Jobs /\ k.obs = obs /\ k.stamp = j.stamp
               /\ k.req = j.req /\ k.todo = j.todo /\ k.left = j.left /\ k.read = j.read
BY DEF Jobs

LEMMA TailSafe ==
    ASSUME NEW S, NEW s \in Seq(S), s # <<>>
    PROVE  /\ Head(s) \in S /\ Head(s) = s[1] /\ 1 \in 1..Len(s)
           /\ Tail(s) \in Seq(S)
           /\ \A n \in 1..Len(Tail(s)) : n + 1 \in 1..Len(s) /\ Tail(s)[n] = s[n + 1]
<1>1. Len(s) \in Nat \ {0}
  BY EmptySeq
<1> QED
  BY <1>1, HeadTailProperties

----------------------------------------------------------------------------
(* What the handlers are at *)

\* The indicator a handler is at.
Ioc(h) == Head(job[h].todo)

Shows(r, i) == \E n \in 1..Len(IocsOf[r]) : IocsOf[r][n] = i

\* Every alert taken in is an event, recorded or about to be.
Recorders == {h \in Handlers : pc[h] = "record"}
Numbered == IsFiniteSet(Recorders) /\ Len(observations) + Cardinality(Recorders) <= events

\* What a handler works on is of its alert, and the observation is recorded first.
Doing(at, j) ==
    /\ at # "idle" => /\ j \in Jobs /\ j.stamp <= now
                      /\ \A n \in 1..Len(j.todo) : Shows(j.req, j.todo[n])
    /\ at \in {"select", "write", "judge", "promote"} => j.todo # <<>>
    /\ at = "draft" => j.left # <<>>
    /\ at \notin {"idle", "record"} => /\ j.obs \in 1..Len(observations)
                                      /\ observations[j.obs].req = j.req

Control ==
    /\ now \in Times /\ events \in 0..MaxEvents /\ observations \in Seq(Observation)
    /\ pc \in [Handlers -> PCs] /\ job = [h \in Handlers |-> job[h]]
    /\ Numbered
    /\ \A h \in Handlers : Doing(pc[h], job[h])

LEMMA Counts ==
    ASSUME Control
    PROVE  /\ Len(observations) \in Nat /\ Len(observations) <= events
           /\ 1..Len(observations) \subseteq ObsIds
           /\ \A n \in 1..Len(observations) : observations[n] \in Observation
<1>1. Len(observations) \in Nat /\ \A n \in 1..Len(observations) : observations[n] \in Observation
  BY ElementOfSeq DEF Control
<1>2. Cardinality(Recorders) \in Nat
  BY FS_CardinalityType DEF Control, Numbered
<1>3. events \in Nat /\ events <= MaxEvents
  BY IntelAssumption DEF Control
<1> QED
  BY <1>1, <1>2, <1>3, IntelAssumption DEF Control, Numbered, ObsIds

\* A handler that has not to record, or no longer, moves on.
LEMMA Working ==
    ASSUME Control, NEW h \in Handlers, NEW at \in PCs, NEW j,
           pc' = [pc EXCEPT ![h] = at], job' = [job EXCEPT ![h] = j],
           UNCHANGED <<now, observations>>, events' \in events..MaxEvents,
           at # "record", Doing(at, j)
    PROVE  Control'
<1>1. pc' \in [Handlers -> PCs] /\ job' = [g \in Handlers |-> job'[g]]
  BY DEF Control
<1>2. ASSUME NEW g \in Handlers PROVE Doing(pc[g], job[g])'
  <2>1. Doing(pc[g], job[g])' <=> Doing(pc'[g], job'[g])
    BY DEF Doing
  <2>2. CASE g = h
    <3>1. pc'[g] = at /\ job'[g] = j
      BY <2>2 DEF Control
    <3> QED BY <2>1, <3>1
  <2>3. CASE g # h
    <3>1. pc'[g] = pc[g] /\ job'[g] = job[g] /\ Doing(pc[g], job[g])
      BY <2>3 DEF Control
    <3> QED BY <2>1, <3>1
  <2> QED BY <2>2, <2>3
<1>3. Recorders' \in SUBSET Recorders
  BY DEF Recorders, Control
<1>4. IsFiniteSet(Recorders') /\ Cardinality(Recorders') <= Cardinality(Recorders)
  BY <1>3, FS_Subset DEF Control, Numbered
<1>5. Cardinality(Recorders) \in Nat /\ Cardinality(Recorders') \in Nat
  BY <1>4, FS_CardinalityType DEF Control, Numbered
<1>6. events \in Nat /\ events' \in Nat /\ events' >= events /\ events' \in 0..MaxEvents
  BY IntelAssumption DEF Control
<1>7. Numbered'
  BY <1>4, <1>5, <1>6, Counts DEF Control, Numbered
<1> QED
  BY <1>1, <1>2, <1>6, <1>7 DEF Control

LEMMA MovesOn ==
    ASSUME NEW j \in Jobs, j.stamp <= now, j.obs \in 1..Len(observations),
           observations[j.obs].req = j.req,
           \A n \in 1..Len(j.todo) : Shows(j.req, j.todo[n])
    PROVE  /\ AfterIocs(j.todo, j.left) \in {"select", "draft", "index"}
           /\ Doing(AfterIocs(j.todo, j.left), j)
BY DEF AfterIocs, Doing

LEMMA JobParts ==
    ASSUME NEW j \in Jobs
    PROVE  /\ j.req \in Requests /\ j.obs \in 0..MaxEvents /\ j.todo \in Seq(Iocs)
           /\ j.left \in Seq(STRING) /\ j.read \in SUBSET Row /\ j.stamp \in Times
BY DEF Jobs

\* What a handler at an indicator has in hand.
LEMMA AtIoc ==
    ASSUME Control, NEW h \in Handlers, pc[h] \in {"select", "write", "judge", "promote"}
    PROVE  /\ job[h] \in Jobs /\ Ioc(h) \in Iocs /\ Shows(job[h].req, Ioc(h))
           /\ job[h].todo # <<>> /\ job[h].stamp <= now
           /\ job[h].obs \in 1..Len(observations)
           /\ observations[job[h].obs].req = job[h].req
           /\ \A n \in 1..Len(job[h].todo) : Shows(job[h].req, job[h].todo[n])
<1>1. Doing(pc[h], job[h])
  BY DEF Control
<1>2. /\ job[h] \in Jobs /\ job[h].todo # <<>> /\ job[h].stamp <= now
      /\ job[h].obs \in 1..Len(observations)
      /\ observations[job[h].obs].req = job[h].req
      /\ \A n \in 1..Len(job[h].todo) : Shows(job[h].req, job[h].todo[n])
  BY <1>1 DEF Doing
<1>3. job[h].todo \in Seq(Iocs)
  BY <1>2, JobParts
<1> QED
  BY <1>2, <1>3, TailSafe DEF Ioc

\* The rest of the indicators, once one is done.
LEMMA RestOfJob ==
    ASSUME Control, NEW h \in Handlers, pc[h] \in {"judge", "promote"}
    PROVE  LET rest == Tail(job[h].todo)
               j == [job[h] EXCEPT !.todo = rest]
           IN  /\ AfterIocs(rest, job[h].left) \in {"select", "draft", "index"}
               /\ Doing(AfterIocs(rest, job[h].left), j)
<1> DEFINE rest == Tail(job[h].todo)
           j == [job[h] EXCEPT !.todo = rest]
<1>1. /\ job[h] \in Jobs /\ job[h].todo # <<>> /\ job[h].stamp <= now
      /\ job[h].obs \in 1..Len(observations)
      /\ observations[job[h].obs].req = job[h].req
      /\ \A n \in 1..Len(job[h].todo) : Shows(job[h].req, job[h].todo[n])
  BY AtIoc
<1>2. job[h].todo \in Seq(Iocs)
  BY <1>1, JobParts
<1>3. /\ rest \in Seq(Iocs)
      /\ \A n \in 1..Len(rest) : n + 1 \in 1..Len(job[h].todo) /\ rest[n] = job[h].todo[n + 1]
  BY <1>1, <1>2, TailSafe
<1> HIDE DEF rest
<1>4. /\ j \in Jobs /\ j.todo = rest /\ j.stamp = job[h].stamp
      /\ j.req = job[h].req /\ j.obs = job[h].obs /\ j.left = job[h].left
  BY <1>1, <1>3, JobTodo
<1> HIDE DEF j
<1>5. \A n \in 1..Len(j.todo) : Shows(j.req, j.todo[n])
  BY <1>1, <1>3, <1>4
<1>6. AfterIocs(j.todo, j.left) \in {"select", "draft", "index"} /\ Doing(AfterIocs(j.todo, j.left), j)
  BY <1>1, <1>4, <1>5, MovesOn
<1> QED
  BY <1>4, <1>6 DEF rest, j

LEMMA SelectControl ==
    ASSUME Control, NEW h \in Handlers, rows \in [Iocs -> SUBSET Row], Select(h)
    PROVE  Control'
<1> DEFINE j == [job[h] EXCEPT !.read = rows[Ioc(h)], !.stamp = now]
<1>1. /\ job[h] \in Jobs /\ Ioc(h) \in Iocs /\ job[h].todo # <<>>
      /\ job[h].obs \in 1..Len(observations)
      /\ observations[job[h].obs].req = job[h].req
      /\ \A n \in 1..Len(job[h].todo) : Shows(job[h].req, job[h].todo[n])
  BY AtIoc DEF Select
<1>2. rows[Ioc(h)] \in SUBSET Row /\ now \in Times
  BY <1>1 DEF Control
<1>3. /\ j \in Jobs /\ j.stamp = now /\ j.req = job[h].req /\ j.obs = job[h].obs
      /\ j.todo = job[h].todo
  <2>1. job[h] \in Jobs
    BY <1>1
  <2> QED BY <1>2, <2>1 DEF Jobs
<1>4. job' = [job EXCEPT ![h] = j] /\ pc' = [pc EXCEPT ![h] = "write"]
  BY DEF Select, Goto, Ioc
<1> HIDE DEF j
<1>5. Doing("write", j)
  BY <1>1, <1>2, <1>3, IntelAssumption DEF Doing, Times
<1>6. UNCHANGED <<now, observations, events>>
  BY DEF Select, store
<1>7. events' \in events..MaxEvents
  BY <1>6 DEF Control
<1> QED
  BY <1>4, <1>5, <1>6, <1>7, Working DEF PCs

LEMMA WriteControl ==
    ASSUME Control, NEW h \in Handlers, Update(h) \/ Insert(h)
    PROVE  Control'
<1>1. /\ pc[h] = "write" /\ pc' = [pc EXCEPT ![h] = "judge"]
      /\ UNCHANGED <<now, observations, events, job>>
  BY DEF Update, Insert, Goto
<1>2. Doing("judge", job[h])
  <2>1. Doing(pc[h], job[h])
    BY DEF Control
  <2> QED BY <1>1, <2>1 DEF Doing
<1>3. job' = [job EXCEPT ![h] = job[h]]
  BY <1>1 DEF Control
<1>4. events' \in events..MaxEvents
  BY <1>1 DEF Control
<1> QED
  BY <1>1, <1>2, <1>3, <1>4, Working DEF PCs

LEMMA EndControl ==
    ASSUME Control, NEW h \in Handlers, Clash(h) \/ UpdateIndex(h) \/ Fail(h)
    PROVE  Control'
<1>1. /\ pc' = [pc EXCEPT ![h] = "idle"] /\ job' = [job EXCEPT ![h] = NoJob]
      /\ UNCHANGED <<now, observations>>
  BY DEF Clash, UpdateIndex, Fail, Goto, store
<1>2. events' \in events..MaxEvents
  BY IntelAssumption DEF Clash, UpdateIndex, Fail, Happens, Control
<1>3. Doing("idle", NoJob)
  BY DEF Doing
<1> QED
  BY <1>1, <1>2, <1>3, Working DEF PCs

LEMMA JudgeControl ==
    ASSUME Control, NEW h \in Handlers, Judge(h)
    PROVE  Control'
<1> DEFINE rest == Tail(job[h].todo)
<1>1. pc[h] = "judge" /\ UNCHANGED <<now, observations, events>>
  BY DEF Judge, store
<1>2. events' \in events..MaxEvents
  BY <1>1 DEF Control
<1>3. CASE pc' = [pc EXCEPT ![h] = "promote"] /\ UNCHANGED job
  <2>1. Doing("promote", job[h])
    <3>1. Doing(pc[h], job[h])
      BY DEF Control
    <3> QED BY <1>1, <3>1 DEF Doing
  <2>2. job' = [job EXCEPT ![h] = job[h]]
    BY <1>3 DEF Control
  <2> QED
    BY <1>1, <1>2, <1>3, <2>1, <2>2, Working DEF PCs
<1>4. CASE /\ pc' = [pc EXCEPT ![h] = AfterIocs(rest, job[h].left)]
           /\ job' = [job EXCEPT ![h].todo = rest]
  <2>1. /\ job' = [job EXCEPT ![h] = [job[h] EXCEPT !.todo = rest]]
        /\ pc' = [pc EXCEPT ![h] = AfterIocs(rest, job[h].left)]
    BY <1>4
  <2> QED
    BY <1>1, <1>2, <2>1, RestOfJob, Working DEF PCs
<1> QED
  BY <1>3, <1>4 DEF Judge, Goto

LEMMA PromoteControl ==
    ASSUME Control, NEW h \in Handlers, Promote(h)
    PROVE  Control'
<1> DEFINE rest == Tail(job[h].todo)
<1>1. /\ pc[h] = "promote" /\ UNCHANGED <<now, observations, events>>
      /\ pc' = [pc EXCEPT ![h] = AfterIocs(rest, job[h].left)]
      /\ job' = [job EXCEPT ![h] = [job[h] EXCEPT !.todo = rest]]
  BY DEF Promote, Goto
<1>2. events' \in events..MaxEvents
  BY <1>1 DEF Control
<1> QED
  BY <1>1, <1>2, RestOfJob, Working DEF PCs

LEMMA DraftControl ==
    ASSUME Control, NEW h \in Handlers, RecordDraft(h)
    PROVE  /\ Control'
           /\ job[h].obs \in ObsIds /\ Head(job[h].left) \in STRING
<1> DEFINE rest == Tail(job[h].left)
           j == [job[h] EXCEPT !.left = rest]
<1>1. /\ pc[h] = "draft" /\ UNCHANGED <<now, observations, events>>
      /\ pc' = [pc EXCEPT ![h] = AfterIocs(<<>>, rest)]
      /\ job' = [job EXCEPT ![h] = j]
  BY DEF RecordDraft, Goto
<1>2. events' \in events..MaxEvents
  BY <1>1 DEF Control
<1>3. /\ job[h] \in Jobs /\ job[h].left # <<>> /\ job[h].stamp <= now
      /\ job[h].obs \in 1..Len(observations)
      /\ observations[job[h].obs].req = job[h].req
      /\ \A n \in 1..Len(job[h].todo) : Shows(job[h].req, job[h].todo[n])
  <2>1. Doing(pc[h], job[h])
    BY DEF Control
  <2> QED BY <1>1, <2>1 DEF Doing
<1>4. Head(job[h].left) \in STRING /\ rest \in Seq(STRING)
  BY <1>3, JobParts, TailSafe
<1> HIDE DEF rest
<1>5. /\ j \in Jobs /\ j.left = rest /\ j.stamp = job[h].stamp
      /\ j.req = job[h].req /\ j.obs = job[h].obs /\ j.todo = job[h].todo
  BY <1>3, <1>4, JobLeft
<1> HIDE DEF j
<1>6. AfterIocs(<<>>, rest) \in {"draft", "index"} /\ (AfterIocs(<<>>, rest) = "draft" => rest # <<>>)
  BY DEF AfterIocs
<1>7. Doing(AfterIocs(<<>>, rest), j)
  BY <1>3, <1>5, <1>6 DEF Doing
<1>8. Control'
  BY <1>1, <1>2, <1>6, <1>7, Working DEF PCs
<1> QED
  BY <1>3, <1>4, <1>8, Counts

LEMMA RecordControl ==
    ASSUME Control, NEW h \in Handlers, Record(h)
    PROVE  /\ Control'
           /\ Len(observations') = Len(observations) + 1
           /\ \A n \in 1..Len(observations) : observations'[n] = observations[n]
           /\ observations'[Len(observations) + 1] =
                  [req |-> job[h].req, by |-> ProcessOf[h], at |-> job[h].stamp]
           /\ Recorders' = Recorders \ {h}
<1> DEFINE o == [req |-> job[h].req, by |-> ProcessOf[h], at |-> job[h].stamp]
           j == [job[h] EXCEPT !.obs = Len(observations) + 1]
           at == AfterIocs(job[h].todo, job[h].left)
<1>1. /\ pc[h] = "record" /\ UNCHANGED <<now, events>>
      /\ observations' = Append(observations, o)
      /\ pc' = [pc EXCEPT ![h] = at] /\ job' = [job EXCEPT ![h] = j]
  BY DEF Record, Goto
<1>2. Doing(pc[h], job[h])
  BY DEF Control
<1>3. /\ job[h] \in Jobs /\ job[h].stamp <= now
      /\ \A n \in 1..Len(job[h].todo) : Shows(job[h].req, job[h].todo[n])
  BY <1>1, <1>2 DEF Doing
<1>4. o \in Observation
  BY <1>3, JobParts, IntelAssumption DEF Observation
<1> HIDE DEF o
<1>5. /\ observations' \in Seq(Observation) /\ Len(observations') = Len(observations) + 1
      /\ \A n \in 1..Len(observations) : observations'[n] = observations[n]
      /\ observations'[Len(observations) + 1] = o
  BY <1>1, <1>4, AppendProperties DEF Control
<1>6. at \in {"select", "draft", "index"}
  BY DEF AfterIocs
<1>7. Recorders' = Recorders \ {h} /\ h \in Recorders
  BY <1>1, <1>6 DEF Recorders, Control
<1>8. /\ IsFiniteSet(Recorders') /\ Cardinality(Recorders') = Cardinality(Recorders) - 1
      /\ Cardinality(Recorders) \in Nat
  BY <1>7, FS_RemoveElement, FS_CardinalityType DEF Control, Numbered
<1>9. Numbered'
  BY <1>1, <1>5, <1>8, Counts DEF Control, Numbered
<1>10. Len(observations) + 1 \in 1..MaxEvents
  BY <1>1, <1>5, <1>8, <1>9, FS_CardinalityType, Counts, IntelAssumption DEF Control, Numbered
<1>11. /\ j \in Jobs /\ j.obs = Len(observations) + 1 /\ j.stamp = job[h].stamp
       /\ j.req = job[h].req /\ j.todo = job[h].todo /\ j.left = job[h].left
  BY <1>3, <1>10, JobObs
<1>12. ASSUME NEW g \in Handlers PROVE Doing(pc[g], job[g])'
  <2>1. CASE g = h
    <3>1. pc'[g] = at /\ job'[g] = j
      BY <1>1, <2>1 DEF Control
    <3>2. o.req = job[h].req
      BY DEF o
    <3>3. at = "select" => j.todo # <<>>
      BY <1>11 DEF AfterIocs
    <3>4. at = "draft" => j.left # <<>>
      BY <1>11 DEF AfterIocs
    <3> HIDE DEF at, j
    <3> QED
      BY <1>1, <1>3, <1>5, <1>6, <1>11, <3>1, <3>2, <3>3, <3>4, Counts DEF Doing
  <2>2. CASE g # h
    <3>1. pc'[g] = pc[g] /\ job'[g] = job[g] /\ Doing(pc[g], job[g])
      BY <1>1, <2>2 DEF Control
    <3> QED BY <1>1, <1>5, <3>1, Counts DEF Doing
  <2> QED BY <2>1, <2>2
<1>13. pc' \in [Handlers -> PCs] /\ job' = [g \in Handlers |-> job'[g]]
  BY <1>1, <1>6 DEF Control, PCs
<1>14. Control'
  BY <1>1, <1>5, <1>9, <1>12, <1>13 DEF Control
<1> QED
  BY <1>5, <1>7, <1>14 DEF o

\* A handler takes an alert in.
LEMMA ReceiveControl ==
    ASSUME Control, NEW h \in Handlers, NEW r \in Requests, Receive(h, r), pc' # pc
    PROVE  /\ Control' /\ Recorders' = Recorders \union {h} /\ h \notin Recorders
           /\ job'[h] \in Jobs /\ job'[h].req = r /\ job'[h].stamp = now
           /\ \A g \in Recorders : job'[g] = job[g]
           /\ \A g \in Handlers : g # h => job'[g] = job[g] /\ pc'[g] = pc[g]
           /\ pc'[h] = "record"
<1> DEFINE j == [req |-> r, obs |-> 0, todo |-> IocsOf[r], left |-> DraftsOf[r],
                 read |-> {}, stamp |-> now]
<1>1. /\ pc[h] = "idle" /\ UNCHANGED <<now, observations>> /\ Happens
      /\ pc' = [pc EXCEPT ![h] = "record"] /\ job' = [job EXCEPT ![h] = j]
  BY DEF Receive, Goto, handlers, store
<1>2. events' = events + 1 /\ events' \in 0..MaxEvents
  BY <1>1, IntelAssumption DEF Happens, Control
<1>3. j \in Jobs
  BY IntelAssumption DEF Jobs, Control
<1>4. \A n \in 1..Len(j.todo) : Shows(j.req, j.todo[n])
  BY DEF Shows
<1>5. j.req = r /\ j.stamp = now
  OBVIOUS
<1> HIDE DEF j
<1>6. Recorders' = Recorders \union {h} /\ h \notin Recorders
  BY <1>1 DEF Recorders, Control
<1>7. /\ IsFiniteSet(Recorders') /\ Cardinality(Recorders') = Cardinality(Recorders) + 1
      /\ Cardinality(Recorders) \in Nat
  BY <1>6, FS_AddElement, FS_CardinalityType DEF Control, Numbered
<1>8. Numbered'
  BY <1>1, <1>2, <1>7, Counts DEF Control, Numbered
<1>9. /\ job'[h] = j /\ pc'[h] = "record"
      /\ \A g \in Handlers : g # h => job'[g] = job[g] /\ pc'[g] = pc[g]
  BY <1>1 DEF Control
<1>10. now <= now
  BY IntelAssumption DEF Control, Times
<1>11. ASSUME NEW g \in Handlers PROVE Doing(pc[g], job[g])'
  <2>1. CASE g = h
    BY <1>1, <1>3, <1>4, <1>5, <1>9, <1>10, <2>1 DEF Doing
  <2>2. CASE g # h
    <3>1. Doing(pc[g], job[g])
      BY DEF Control
    <3> QED BY <1>1, <1>9, <2>2, <3>1 DEF Doing
  <2> QED BY <2>1, <2>2
<1>12. pc' \in [Handlers -> PCs] /\ job' = [g \in Handlers |-> job'[g]]
  BY <1>1 DEF Control, PCs
<1>13. Control'
  BY <1>1, <1>2, <1>8, <1>11, <1>12 DEF Control
<1> QED
  BY <1>3, <1>5, <1>6, <1>9, <1>13 DEF Recorders

LEMMA RestartControl ==
    ASSUME Control, NEW p \in Processes, Restart(p)
    PROVE  /\ Control' /\ Recorders' \subseteq Recorders
           /\ \A h \in Recorders' : job'[h] = job[h]
           /\ \A h \in Handlers : pc'[h] # "idle" => pc'[h] = pc[h] /\ job'[h] = job[h]
<1>1. /\ UNCHANGED <<now, observations>> /\ Happens
      /\ pc' = [h \in Handlers |-> IF ProcessOf[h] = p THEN "idle" ELSE pc[h]]
      /\ job' = [h \in Handlers |-> IF ProcessOf[h] = p THEN NoJob ELSE job[h]]
  BY DEF Restart, store
<1>2. events' = events + 1 /\ events' \in 0..MaxEvents
  BY <1>1, IntelAssumption DEF Happens, Control
<1>3. \A h \in Handlers : \/ pc'[h] = "idle"
                          \/ pc'[h] = pc[h] /\ job'[h] = job[h]
  BY <1>1
<1>4. Recorders' \in SUBSET Recorders
  BY <1>3 DEF Recorders
<1>5. /\ IsFiniteSet(Recorders') /\ Cardinality(Recorders') <= Cardinality(Recorders)
      /\ Cardinality(Recorders) \in Nat /\ Cardinality(Recorders') \in Nat
  BY <1>4, FS_Subset, FS_CardinalityType DEF Control, Numbered
<1>6. Numbered'
  BY <1>1, <1>2, <1>5, Counts DEF Control, Numbered
<1>7. ASSUME NEW h \in Handlers PROVE Doing(pc[h], job[h])'
  <2>1. Doing(pc[h], job[h])
    BY DEF Control
  <2> QED BY <1>1, <1>3, <2>1 DEF Doing
<1>8. pc' \in [Handlers -> PCs] /\ job' = [g \in Handlers |-> job'[g]]
  BY <1>1 DEF Control, PCs
<1>9. Control'
  BY <1>1, <1>2, <1>6, <1>7, <1>8 DEF Control
<1> QED
  BY <1>3, <1>4, <1>9 DEF Recorders

\* What leaves the handlers alone.
LEMMA AsideControl ==
    ASSUME Control, UNCHANGED <<pc, job, observations>>, now' \in Times, now' >= now,
           events' \in events..MaxEvents
    PROVE  Control'
<1>1. Recorders' = Recorders
  BY DEF Recorders
<1>2. events \in Nat /\ events' \in Nat /\ events' >= events /\ events' \in 0..MaxEvents
  BY IntelAssumption DEF Control
<1>3. Numbered'
  BY <1>1, <1>2, Counts, FS_CardinalityType DEF Control, Numbered
<1>4. ASSUME NEW h \in Handlers PROVE Doing(pc[h], job[h])'
  <2>1. Doing(pc[h], job[h])
    BY DEF Control
  <2>2. job[h] \in Jobs => job[h].stamp \in Nat
    BY JobParts DEF Times
  <2> QED BY <2>1, <2>2, IntelAssumption DEF Doing, Control, Times
<1> QED
  BY <1>2, <1>3, <1>4 DEF Control

----------------------------------------------------------------------------
(* The rows *)

\* The variables that Control leaves out.
Shelves ==
    /\ nonces \in [Processes -> Seq(Entry)]
    /\ index \in [Processes -> SUBSET Iocs]
    /\ rows \in [Iocs -> SUBSET Row] /\ \A i \in Iocs : \A r, s \in rows[i] : r = s
    /\ \A d \in drafts : d \in Draft
    /\ mark \in Times /\ known \subseteq Iocs /\ cut \subseteq Iocs
    /\ learned \subseteq ObsIds \X Iocs /\ overlapped \subseteq ObsIds \X Iocs
    /\ orphaned \subseteq Iocs /\ manual \subseteq Iocs
    /\ late \subseteq Iocs /\ forgot \subseteq Processes

Seen(S) == UNION {PackagesOf(observations[o].req) : o \in S}

\* What the evidence of a row earns.
Earned(i, r) == Bump(AtLeast(ConfidenceOf[i], 50), r.count, Cardinality(r.packages))

\* The columns of a row of indicator i agree.
Story(i, r) ==
    /\ r.confidence = Earned(i, r)
    /\ r.count = Cardinality(r.sources)
    /\ r.sources \subseteq 1..Len(observations)
    /\ \A o \in r.sources : Shows(observations[o].req, i)
    /\ r.packages = Seen(r.sources)
    /\ IsFiniteSet(r.packages)
    /\ r.seen <= now

Stories == \A i \in Iocs : \A r \in rows[i] : Story(i, r)

\* No two upserts of i have overlapped.
Lone(i) == \A o \in ObsIds : <<o, i>> \notin overlapped

\* What a handler has read is at most behind by what overlaps it.
Read(h) ==
    pc[h] = "write" =>
        /\ \A r, s \in job[h].read : r = s
        /\ job[h].read # {} => rows[Ioc(h)] # {}
        /\ \A r \in job[h].read : Story(Ioc(h), r)
        /\ \A o \in ObsIds : <<o, Ioc(h)>> \in learned /\ <<o, Ioc(h)>> \notin overlapped =>
               \E r \in job[h].read : o \in r.sources
        /\ Lone(Ioc(h)) =>
               \A r \in rows[Ioc(h)] : \E s \in job[h].read :
                   s.confidence = r.confidence /\ s.packages = r.packages

\* Two handlers about to write the same row have overlapped.
Rivalry ==
    \A g, h \in Handlers :
        g # h /\ pc[g] = "write" /\ pc[h] = "write" /\ Ioc(g) = Ioc(h) =>
            <<job[g].obs, Ioc(g)>> \in overlapped

\* What is about to be promoted is due.
Promoting(h) ==
    pc[h] = "promote" => /\ rows[Ioc(h)] # {}
                         /\ Lone(Ioc(h)) => \A r \in rows[Ioc(h)] : Due(r)

Tale ==
    /\ Stories /\ Rivalry
    /\ \A h \in Handlers : Read(h) /\ Promoting(h)
    /\ CountedUnlessOverlapped /\ ApprovedIffDue

Longer ==
    /\ Len(observations) <= Len(observations')
    /\ \A n \in 1..Len(observations) : observations'[n] = observations[n]

LEMMA StoryStays ==
    ASSUME Control, Control', NEW i, NEW r, r.seen \in Times, Story(i, r), Longer, now <= now'
    PROVE  Story(i, r)'
<1>1. Len(observations) \in Nat /\ Len(observations') \in Nat
  BY Counts DEF Control
<1>2. r.sources \subseteq 1..Len(observations)
  BY DEF Story
<1>3. r.sources \subseteq 1..Len(observations')
  BY <1>1, <1>2 DEF Longer
<1>4. \A o \in r.sources : observations'[o] = observations[o]
  BY <1>2 DEF Longer
<1>5. {PackagesOf(observations'[o].req) : o \in r.sources}
        = {PackagesOf(observations[o].req) : o \in r.sources}
  BY <1>4
<1>6. r.packages = UNION {PackagesOf(observations'[o].req) : o \in r.sources}
  BY <1>5 DEF Story, Seen
<1>7. \A o \in r.sources : Shows(observations'[o].req, i)
  BY <1>4 DEF Story
<1>8. r.seen <= now'
  BY IntelAssumption DEF Story, Control, Times
<1> QED
  BY <1>3, <1>6, <1>7, <1>8 DEF Story, Seen, Earned

\* Status apart, equal rows tell equal stories.
LEMMA StorySame ==
    ASSUME NEW i, NEW r, NEW s, Story(i, r), s.count = r.count, s.sources = r.sources,
           s.packages = r.packages, s.seen = r.seen, s.confidence = r.confidence
    PROVE  Story(i, s)
BY DEF Story, Earned

LEMMA SeenOneMore ==
    ASSUME NEW S, NEW o
    PROVE  Seen(S \union {o}) = Seen(S) \union PackagesOf(observations[o].req)
BY DEF Seen

LEMMA StoryGoesOn ==
    ASSUME Control, NEW i \in Iocs, NEW r \in Row, NEW j \in Jobs, Story(i, r),
           j.obs \in 1..Len(observations), observations[j.obs].req = j.req,
           Shows(j.req, i), j.stamp <= now
    PROVE  Story(i, Accumulated(r, j)) /\ IsFiniteSet(r.packages) /\ j.obs # 0
<1> DEFINE s == Accumulated(r, j)
<1>1. j.obs # 0 /\ IsFiniteSet(r.packages)
  BY Counts DEF Story
<1>2. /\ s.sources = r.sources \union {j.obs}
      /\ s.packages = r.packages \union PackagesOf(j.req)
      /\ s.count = IF j.obs \in r.sources THEN r.count ELSE r.count + 1
      /\ s.seen = j.stamp
      /\ s.confidence = Bump(r.confidence, s.count, Cardinality(s.packages))
      /\ IsFiniteSet(s.packages)
  BY <1>1, AccumulatedParts
<1> HIDE DEF s
<1>3. IsFiniteSet(1..Len(observations))
  <2>1. 1 \in Int /\ Len(observations) \in Int
    BY Counts
  <2> QED BY <2>1, FS_Interval
<1>4. IsFiniteSet(r.sources)
  BY <1>3, FS_Subset DEF Story
<1>5. s.count = Cardinality(s.sources)
  BY <1>2, <1>4, FS_AddElement DEF Story
<1>6. s.packages = Seen(s.sources)
  BY <1>2, SeenOneMore DEF Story
<1>7. s.confidence = Earned(i, s)
  <2> DEFINE floor == AtLeast(ConfidenceOf[i], 50)
             before == Cardinality(r.packages)
             after == Cardinality(s.packages)
  <2>1. floor \in Nat
    <3>1. ConfidenceOf[i] \in 0..100
      BY IntelAssumption
    <3>2. PICK c \in 0..100 : c = ConfidenceOf[i]
      BY <3>1
    <3>3. AtLeast(c, 50) \in Nat
      BY <3>2 DEF AtLeast
    <3> QED BY <3>2, <3>3
  <2>2. r.count \in Nat /\ s.count \in Nat /\ r.count <= s.count
    BY <1>2, RowParts
  <2>3. before \in Nat /\ after \in Nat /\ before <= after
    BY <1>1, <1>2, FS_CardinalityType, FS_Subset
  <2>4. r.confidence = Bump(floor, r.count, before)
    BY DEF Story, Earned
  <2> HIDE DEF floor, before, after
  <2>5. Bump(Bump(floor, r.count, before), s.count, after) = Bump(floor, s.count, after)
    BY <2>1, <2>2, <2>3, BumpAgain
  <2> QED
    BY <1>2, <2>4, <2>5 DEF Earned, floor, after
<1>8. Story(i, s)
  BY <1>2, <1>5, <1>6, <1>7 DEF Story
<1> QED
  BY <1>1, <1>8 DEF s

LEMMA StoryBegins ==
    ASSUME Control, NEW i \in Iocs, NEW j \in Jobs,
           j.obs \in 1..Len(observations), observations[j.obs].req = j.req,
           Shows(j.req, i), j.stamp <= now
    PROVE  Story(i, FirstRow(i, j)) /\ j.obs # 0
<1> DEFINE s == FirstRow(i, j)
<1>1. j.obs # 0
  BY Counts
<1>2. /\ s.sources = {j.obs} /\ s.packages = PackagesOf(j.req) /\ s.count = 1
      /\ s.seen = j.stamp /\ IsFiniteSet(s.packages)
      /\ s.confidence = AtLeast(ConfidenceOf[i], 50)
  BY <1>1, FirstRowParts
<1> HIDE DEF s
<1>3. s.count = Cardinality(s.sources)
  BY <1>2, FS_Singleton
<1>4. s.packages = Seen(s.sources)
  BY <1>2 DEF Seen
<1>5. s.confidence = Earned(i, s)
  <2>1. AtLeast(ConfidenceOf[i], 50) \in 0..100
    BY IntelAssumption DEF AtLeast
  <2> QED
    BY <1>2, <2>1, OnePackage, BumpOnce DEF Earned
<1>6. Story(i, s)
  BY <1>2, <1>3, <1>4, <1>5 DEF Story
<1> QED
  BY <1>1, <1>6 DEF s

\* Steps that write no row and take no handler to one.
LEMMA QuietTale ==
    ASSUME Control, Shelves, Tale, Control', Longer, now <= now',
           UNCHANGED <<rows, learned, overlapped, manual>>, orphaned \subseteq orphaned',
           \A h \in Handlers : pc'[h] \in {"write", "promote"} =>
               pc'[h] = pc[h] /\ job'[h] = job[h],
           \A h \in Handlers : pc[h] \in {"judge", "promote"} =>
               (pc'[h] = pc[h] /\ job'[h] = job[h]) \/ Ioc(h) \in orphaned'
    PROVE  Tale'
<1>1. Stories'
  <2> SUFFICES ASSUME NEW i \in Iocs, NEW r \in rows[i] PROVE Story(i, r)'
    BY DEF Stories
  <2>1. r \in Row /\ Story(i, r)
    BY DEF Shelves, Tale, Stories
  <2> QED BY <2>1, RowParts, StoryStays
<1>2. Rivalry'
  BY DEF Tale, Rivalry, Ioc
<1>3. ASSUME NEW h \in Handlers PROVE Read(h)'
  <2> SUFFICES ASSUME pc'[h] = "write" PROVE Read(h)'
    BY DEF Read
  <2>1. pc[h] = "write" /\ job'[h] = job[h] /\ Read(h) /\ job[h] \in Jobs /\ Ioc(h)' = Ioc(h)
    BY AtIoc DEF Tale, Ioc
  <2>2. ASSUME NEW r \in job[h].read PROVE Story(Ioc(h), r)'
    <3>1. r \in Row /\ Story(Ioc(h), r)
      BY <2>1, JobParts DEF Read
    <3>2. PICK i : i = Ioc(h)
      OBVIOUS
    <3>3. Story(i, r)'
      BY <3>1, <3>2, RowParts, StoryStays
    <3> QED BY <2>1, <3>2, <3>3
  <2> QED BY <2>1, <2>2 DEF Read, Lone
<1>4. ASSUME NEW h \in Handlers PROVE Promoting(h)'
  <2> SUFFICES ASSUME pc'[h] = "promote" PROVE Promoting(h)'
    BY DEF Promoting
  <2>1. pc[h] = "promote" /\ job'[h] = job[h] /\ Promoting(h) /\ Ioc(h)' = Ioc(h)
    BY DEF Tale, Ioc
  <2> QED BY <2>1 DEF Promoting, Lone
<1>5. CountedUnlessOverlapped'
  BY DEF Tale, CountedUnlessOverlapped
<1>6. ApprovedIffDue'
  <2> SUFFICES ASSUME NEW i \in Iocs, NEW r \in rows[i]
               PROVE  /\ Due(r) /\ ~r.approved =>
                             i \in orphaned' \/ \E h \in Handlers : i \in Undecided({h})'
                      /\ r.approved /\ ~Due(r) =>
                             i \in manual \/ \E o \in ObsIds : <<o, i>> \in overlapped
    BY DEF ApprovedIffDue
  <2>1. ASSUME NEW h \in Handlers, i \in Undecided({h})
        PROVE  i \in orphaned' \/ i \in Undecided({h})'
    <3>1. pc[h] \in {"judge", "promote"} /\ i = Ioc(h)
      BY <2>1 DEF Undecided, Ioc
    <3> QED BY <3>1 DEF Undecided, Ioc
  <2> QED BY <2>1 DEF Tale, ApprovedIffDue
<1> QED
  BY <1>1, <1>2, <1>3, <1>4, <1>5, <1>6 DEF Tale

\* The write of an upsert, whichever the row.
LEMMA WriteTale ==
    ASSUME Control, Shelves, Tale, Control', NEW h \in Handlers, pc[h] = "write",
           pc' = [pc EXCEPT ![h] = "judge"],
           UNCHANGED <<now, observations, job, overlapped, orphaned, manual>>,
           learned' = learned \union {<<job[h].obs, Ioc(h)>>},
           NEW new \in Row, rows' = [rows EXCEPT ![Ioc(h)] = {new}], Story(Ioc(h), new),
           job[h].obs \in new.sources,
           \A o \in ObsIds : <<o, Ioc(h)>> \in learned /\ <<o, Ioc(h)>> \notin overlapped =>
               o \in new.sources,
           new.approved /\ ~Due(new) =>
               Ioc(h) \in manual \/ \E o \in ObsIds : <<o, Ioc(h)>> \in overlapped,
           \A g \in Handlers : pc[g] = "promote" /\ Ioc(g) = Ioc(h) /\ Lone(Ioc(h)) => Due(new)
    PROVE  Tale'
<1>1. PICK i \in Iocs : i = Ioc(h)
  BY AtIoc
<1>2. rows'[i] = {new} /\ \A k \in Iocs : k # i => rows'[k] = rows[k]
  BY <1>1 DEF Shelves
<1>3. /\ pc'[h] = "judge" /\ \A g \in Handlers : g # h => pc'[g] = pc[g]
      /\ \A g \in Handlers : Ioc(g)' = Ioc(g)
  BY DEF Control, Ioc
<1>4. Longer /\ now <= now'
  BY Counts, IntelAssumption DEF Longer, Control, Times
<1>5. \A r, k : r \in Row /\ Story(k, r) => Story(k, r)'
  BY <1>4, RowParts, StoryStays
<1>6. Stories'
  BY <1>1, <1>2, <1>5 DEF Stories, Tale, Shelves
<1>7. Rivalry'
  BY <1>3 DEF Tale, Rivalry
<1>8. ASSUME NEW g \in Handlers, pc'[g] = "write" PROVE Read(g)'
  <2>1. g # h /\ pc[g] = "write" /\ Read(g) /\ job[g] \in Jobs
    BY <1>3, <1>8, AtIoc DEF Tale
  <2>2. ASSUME NEW r \in job[g].read PROVE Story(Ioc(g), r)'
    <3>1. r \in Row /\ Story(Ioc(g), r)
      BY <2>1, JobParts DEF Read
    <3>2. PICK k : k = Ioc(g)
      OBVIOUS
    <3>3. Story(k, r)'
      BY <1>5, <3>1, <3>2
    <3> QED BY <1>3, <3>2, <3>3
  <2>3. PICK k \in Iocs : k = Ioc(g)
    BY <2>1, AtIoc
  <2>4. CASE k = i
    <3>1. <<job[h].obs, i>> \in overlapped /\ job[h].obs \in ObsIds
      BY <1>1, <2>1, <2>3, <2>4, AtIoc, Counts DEF Tale, Rivalry
    <3>2. ~Lone(k)'
      BY <2>4, <3>1 DEF Lone
    <3>3. rows'[k] # {}
      BY <1>2, <2>4
    <3>4. \A o \in ObsIds : <<o, k>> \in learned' /\ <<o, k>> \notin overlapped' =>
              \E r \in job[g].read : o \in r.sources
      BY <1>1, <2>1, <2>3, <2>4, <3>1 DEF Read
    <3> QED BY <1>3, <2>1, <2>2, <2>3, <3>2, <3>3, <3>4 DEF Read
  <2>5. CASE k # i
    <3>1. rows'[k] = rows[k] /\ \A o \in ObsIds : <<o, k>> \in learned' <=> <<o, k>> \in learned
      BY <1>1, <1>2, <2>5
    <3> QED BY <1>3, <2>1, <2>2, <2>3, <3>1 DEF Read, Lone
  <2> QED BY <2>4, <2>5
<1>9. ASSUME NEW g \in Handlers, pc'[g] = "promote" PROVE Promoting(g)'
  <2>1. g # h /\ pc[g] = "promote" /\ Promoting(g)
    BY <1>3, <1>9 DEF Tale
  <2>2. PICK k \in Iocs : k = Ioc(g)
    BY <2>1, AtIoc
  <2>3. CASE k = i
    BY <1>1, <1>2, <1>3, <2>1, <2>2, <2>3 DEF Promoting, Lone
  <2>4. CASE k # i
    BY <1>2, <1>3, <2>1, <2>2, <2>4 DEF Promoting, Lone
  <2> QED BY <2>3, <2>4
<1>10. CountedUnlessOverlapped'
  <2> SUFFICES ASSUME NEW o \in ObsIds, NEW k \in Iocs, <<o, k>> \in learned', <<o, k>> \notin overlapped
               PROVE  \E r \in rows'[k] : o \in r.sources
    BY DEF CountedUnlessOverlapped
  <2>1. CASE k = i
    <3>1. o \in new.sources
      BY <1>1, <2>1
    <3> QED BY <1>2, <2>1, <3>1
  <2>2. CASE k # i
    BY <1>1, <1>2, <2>2 DEF Tale, CountedUnlessOverlapped
  <2> QED BY <2>1, <2>2
<1>11. ApprovedIffDue'
  <2> SUFFICES ASSUME NEW k \in Iocs, NEW r \in rows'[k]
               PROVE  /\ Due(r) /\ ~r.approved =>
                             k \in orphaned \/ \E g \in Handlers : k \in Undecided({g})'
                      /\ r.approved /\ ~Due(r) =>
                             k \in manual \/ \E o \in ObsIds : <<o, k>> \in overlapped
    BY DEF ApprovedIffDue
  <2>1. CASE k = i
    <3>1. r = new
      BY <1>2, <2>1
    <3>2. i \in Undecided({h})'
      BY <1>1, <1>3 DEF Undecided, Ioc
    <3> QED BY <1>1, <2>1, <3>1, <3>2
  <2>2. CASE k # i
    <3>1. r \in rows[k]
      BY <1>2, <2>2
    <3>2. ASSUME NEW g \in Handlers, k \in Undecided({g}) PROVE k \in Undecided({g})'
      <4>1. pc[g] \in {"judge", "promote"} /\ k = Ioc(g)
        BY <3>2 DEF Undecided, Ioc
      <4> QED BY <1>3, <4>1 DEF Undecided, Ioc
    <3> QED BY <3>1, <3>2 DEF Tale, ApprovedIffDue
  <2> QED BY <2>1, <2>2
<1> QED
  BY <1>6, <1>7, <1>8, <1>9, <1>10, <1>11 DEF Tale, Read, Promoting

LEMMA UpdateTale ==
    ASSUME Control, Shelves, Tale, NEW h \in Handlers, Update(h)
    PROVE  /\ Tale' /\ rows' \in [Iocs -> SUBSET Row]
           /\ \E new \in Row : /\ rows' = [rows EXCEPT ![Ioc(h)] = {new}]
                              /\ new.seen = job[h].stamp
<1>1. /\ pc[h] = "write" /\ job[h].read # {} /\ pc' = [pc EXCEPT ![h] = "judge"]
      /\ UNCHANGED <<now, observations, job, overlapped, orphaned, manual>>
      /\ learned' = learned \union {<<job[h].obs, Ioc(h)>>}
      /\ rows' = [rows EXCEPT ![Ioc(h)] =
             {[Accumulated(r, job[h]) EXCEPT !.approved = s.approved] :
                 r \in job[h].read, s \in rows[Ioc(h)]}]
  BY DEF Update, Goto, Ioc
<1>2. Control'
  BY WriteControl
<1>3. /\ job[h] \in Jobs /\ Ioc(h) \in Iocs /\ Shows(job[h].req, Ioc(h))
      /\ job[h].stamp <= now /\ job[h].obs \in 1..Len(observations)
      /\ observations[job[h].obs].req = job[h].req
  BY <1>1, AtIoc
<1>4. Read(h)
  BY DEF Tale
<1>5. PICK r \in job[h].read : \A x \in job[h].read : x = r
  BY <1>1, <1>4 DEF Read
<1>6. rows[Ioc(h)] # {}
  BY <1>1, <1>4 DEF Read
<1>7. PICK s \in rows[Ioc(h)] : \A x \in rows[Ioc(h)] : x = s
  BY <1>3, <1>6 DEF Shelves
<1>8. r \in Row /\ s \in Row
  BY <1>3, <1>7, JobParts DEF Shelves
<1>9. PICK j \in Jobs : j = job[h]
  BY <1>3
<1>10. PICK i \in Iocs : i = Ioc(h)
  BY <1>3
<1>11. Story(i, r) /\ IsFiniteSet(r.packages)
  BY <1>1, <1>4, <1>10 DEF Read, Story
<1> DEFINE acc == Accumulated(r, j)
           new == [acc EXCEPT !.approved = s.approved]
<1>12. Story(i, acc) /\ j.obs # 0
  BY <1>3, <1>8, <1>9, <1>10, <1>11, StoryGoesOn
<1>13. /\ acc \in Row /\ acc.sources = r.sources \union {j.obs} /\ acc.seen = j.stamp
       /\ acc.packages = r.packages \union PackagesOf(j.req)
       /\ Due(r) => Due(acc)
  BY <1>8, <1>11, <1>12, AccumulatedParts
<1>14. rows' = [rows EXCEPT ![Ioc(h)] = {new}]
  <2> DEFINE f(x, y) == [Accumulated(x, job[h]) EXCEPT !.approved = y.approved]
             S == {f(x, y) : x \in job[h].read, y \in rows[Ioc(h)]}
  <2>1. job[h].read = {r} /\ rows[Ioc(h)] = {s}
    BY <1>5, <1>7
  <2>2. rows' = [rows EXCEPT ![Ioc(h)] = S]
    BY <1>1
  <2>3. new = f(r, s)
    BY <1>9, Zenon
  <2> HIDE DEF new, f
  <2>4. S = {f(r, s)}
    BY <2>1
  <2> HIDE DEF S
  <2> QED BY <2>2, <2>3, <2>4
<1> HIDE DEF acc
<1>15. s.approved \in BOOLEAN
  BY <1>8, RowParts
<1>16. new \in Row /\ new.approved = s.approved
  BY <1>13, <1>15, RowStamped
<1>17. /\ new.confidence = acc.confidence /\ new.count = acc.count /\ new.seen = acc.seen
       /\ new.packages = acc.packages /\ new.sources = acc.sources
  BY <1>13, <1>15, RowStampedRest
<1> HIDE DEF new
<1>18. Story(i, new)
  BY <1>12, <1>17, StorySame
<1>19. Due(r) => Due(new)
  BY <1>13, <1>17 DEF Due
<1>20. Lone(i) => (Due(s) <=> Due(r))
  <2>1. Lone(i) => r.confidence = s.confidence /\ r.packages = s.packages
    BY <1>1, <1>4, <1>5, <1>7, <1>10 DEF Read
  <2> QED BY <2>1 DEF Due
<1>21. new.approved /\ ~Due(new) => i \in manual \/ \E o \in ObsIds : <<o, i>> \in overlapped
  <2> SUFFICES ASSUME new.approved, ~Due(new), Lone(i) PROVE i \in manual
    BY DEF Lone
  <2>1. s.approved /\ ~Due(s)
    BY <1>16, <1>19, <1>20
  <2> QED BY <1>7, <1>10, <2>1 DEF Tale, ApprovedIffDue, Lone
<1>22. ASSUME NEW g \in Handlers, pc[g] = "promote", Ioc(g) = i, Lone(i)
       PROVE  Due(new)
  <2>1. Due(s)
    BY <1>7, <1>10, <1>22 DEF Tale, Promoting
  <2> QED BY <1>19, <1>20, <1>22, <2>1
<1>23. \A o \in ObsIds : <<o, i>> \in learned /\ <<o, i>> \notin overlapped => o \in new.sources
  BY <1>1, <1>4, <1>5, <1>10, <1>13, <1>17 DEF Read
<1>24. job[h].obs \in new.sources
  BY <1>9, <1>13, <1>17
<1>25. Tale'
  BY <1>1, <1>2, <1>10, <1>14, <1>16, <1>18, <1>21, <1>22, <1>23, <1>24, WriteTale
<1> QED
  BY <1>3, <1>9, <1>13, <1>14, <1>16, <1>17, <1>25 DEF Shelves

LEMMA InsertTale ==
    ASSUME Control, Shelves, Tale, NEW h \in Handlers, Insert(h)
    PROVE  /\ Tale' /\ rows' \in [Iocs -> SUBSET Row]
           /\ \E new \in Row : /\ rows' = [rows EXCEPT ![Ioc(h)] = {new}]
                              /\ new.seen = job[h].stamp
<1>1. /\ pc[h] = "write" /\ job[h].read = {} /\ pc' = [pc EXCEPT ![h] = "judge"]
      /\ UNCHANGED <<now, observations, job, overlapped, orphaned, manual>>
      /\ learned' = learned \union {<<job[h].obs, Ioc(h)>>}
      /\ rows[Ioc(h)] = {}
      /\ rows' = [rows EXCEPT ![Ioc(h)] = {FirstRow(Ioc(h), job[h])}]
  BY DEF Insert, Goto, Ioc
<1>2. Control'
  BY WriteControl
<1>3. /\ job[h] \in Jobs /\ Ioc(h) \in Iocs /\ Shows(job[h].req, Ioc(h))
      /\ job[h].stamp <= now /\ job[h].obs \in 1..Len(observations)
      /\ observations[job[h].obs].req = job[h].req
  BY <1>1, AtIoc
<1>4. Read(h)
  BY DEF Tale
<1>5. PICK j \in Jobs : j = job[h]
  BY <1>3
<1>6. PICK i \in Iocs : i = Ioc(h)
  BY <1>3
<1> DEFINE new == FirstRow(i, j)
<1>7. Story(i, new) /\ j.obs # 0
  BY <1>3, <1>5, <1>6, StoryBegins
<1>8. new \in Row /\ new.sources = {j.obs} /\ new.seen = j.stamp /\ ~new.approved
  BY <1>7, FirstRowParts
<1>9. rows' = [rows EXCEPT ![Ioc(h)] = {new}]
  BY <1>1, <1>5, <1>6
<1> HIDE DEF new
<1>10. \A g \in Handlers : ~(pc[g] = "promote" /\ Ioc(g) = i)
  BY <1>1, <1>6 DEF Tale, Promoting
<1>11. \A o \in ObsIds : <<o, i>> \in learned => <<o, i>> \in overlapped
  BY <1>1, <1>4, <1>6 DEF Read
<1>12. job[h].obs \in new.sources
  BY <1>5, <1>8
<1>13. Tale'
  BY <1>1, <1>2, <1>6, <1>7, <1>8, <1>9, <1>10, <1>11, <1>12, WriteTale
<1>14. rows' \in [Iocs -> SUBSET Row]
  BY <1>3, <1>8, <1>9 DEF Shelves
<1>15. new.seen = job[h].stamp
  BY <1>5, <1>8
<1> QED
  BY <1>8, <1>9, <1>13, <1>14, <1>15

LEMMA SelectTale ==
    ASSUME Control, Shelves, Tale, NEW h \in Handlers, Select(h)
    PROVE  Tale'
<1>1. /\ pc[h] = "select" /\ pc' = [pc EXCEPT ![h] = "write"]
      /\ job' = [job EXCEPT ![h].read = rows[Ioc(h)], ![h].stamp = now]
      /\ UNCHANGED <<now, observations, rows, learned, orphaned, manual>>
      /\ overlapped' = IF Rivals(h) = {} THEN overlapped
                       ELSE overlapped \union {<<job[g].obs, Ioc(h)>> : g \in Rivals(h) \union {h}}
  BY DEF Select, Goto, Ioc, store
<1>2. Control'
  BY SelectControl DEF Shelves
<1>3. job[h] \in Jobs /\ Ioc(h) \in Iocs
  BY <1>1, AtIoc
<1>4. /\ job'[h].read = rows[Ioc(h)] /\ job'[h].todo = job[h].todo /\ job'[h].obs = job[h].obs
      /\ \A g \in Handlers : g # h => job'[g] = job[g] /\ pc'[g] = pc[g]
      /\ pc'[h] = "write"
  BY <1>1, <1>3 DEF Control, Jobs
<1>5. \A g \in Handlers : Ioc(g)' = Ioc(g) /\ job'[g].obs = job[g].obs
  BY <1>4 DEF Ioc
<1>6. overlapped \subseteq overlapped'
  BY <1>1
<1>7. Longer /\ now <= now'
  BY <1>1, Counts, IntelAssumption DEF Longer, Control, Times
<1>8. \A r, k : r \in Row /\ Story(k, r) => Story(k, r)'
  BY <1>2, <1>7, RowParts, StoryStays
<1>9. Stories'
  BY <1>1, <1>8 DEF Stories, Tale, Shelves
<1>10. Rivalry'
  <2>1. \A g \in Handlers : g # h /\ pc[g] = "write" /\ Ioc(g) = Ioc(h) => g \in Rivals(h)
    BY DEF Rivals, Ioc
  <2>2. \A g \in Rivals(h) : <<job[g].obs, Ioc(h)>> \in overlapped' /\ <<job[h].obs, Ioc(h)>> \in overlapped'
    BY <1>1
  <2> QED BY <1>4, <1>5, <1>6, <2>1, <2>2 DEF Tale, Rivalry
<1>11. ASSUME NEW g \in Handlers, pc'[g] = "write" PROVE Read(g)'
  <2>1. CASE g = h
    <3>1. PICK k \in Iocs : k = Ioc(h)
      BY <1>3
    <3>2. \A r \in job'[h].read : Story(k, r)'
      BY <1>4, <1>8, <3>1 DEF Tale, Stories, Shelves
    <3>3. \A o \in ObsIds : <<o, k>> \in learned /\ <<o, k>> \notin overlapped' =>
              \E r \in job'[h].read : o \in r.sources
      BY <1>4, <1>6, <3>1 DEF Tale, CountedUnlessOverlapped
    <3>4. \A r, s \in job'[h].read : r = s
      BY <1>3, <1>4 DEF Shelves
    <3> QED BY <1>1, <1>4, <1>5, <2>1, <3>1, <3>2, <3>3, <3>4 DEF Read
  <2>2. CASE g # h
    <3>1. pc[g] = "write" /\ job'[g] = job[g] /\ Read(g) /\ job[g] \in Jobs
      BY <1>4, <1>11, <2>2, AtIoc DEF Tale
    <3>2. PICK k \in Iocs : k = Ioc(g)
      BY <3>1, AtIoc
    <3>3. \A r \in job[g].read : Story(k, r)'
      BY <1>8, <3>1, <3>2, JobParts DEF Read
    <3> QED BY <1>1, <1>5, <1>6, <3>1, <3>2, <3>3 DEF Read, Lone
  <2> QED BY <2>1, <2>2
<1>12. ASSUME NEW g \in Handlers, pc'[g] = "promote" PROVE Promoting(g)'
  <2>1. pc[g] = "promote" /\ Promoting(g)
    BY <1>4, <1>12 DEF Tale
  <2> QED BY <1>1, <1>5, <1>6, <2>1 DEF Promoting, Lone
<1>13. CountedUnlessOverlapped'
  BY <1>1, <1>6 DEF Tale, CountedUnlessOverlapped
<1>14. ApprovedIffDue'
  <2>1. ASSUME NEW g \in Handlers, NEW k, k \in Undecided({g}) PROVE k \in Undecided({g})'
    <3>1. pc[g] \in {"judge", "promote"} /\ k = Ioc(g)
      BY <2>1 DEF Undecided, Ioc
    <3> QED BY <1>1, <1>4, <1>5, <3>1 DEF Undecided, Ioc
  <2> QED BY <1>1, <1>6, <2>1 DEF Tale, ApprovedIffDue
<1> QED
  BY <1>9, <1>10, <1>11, <1>12, <1>13, <1>14 DEF Tale, Read, Promoting

LEMMA JudgeTale ==
    ASSUME Control, Shelves, Tale, NEW h \in Handlers, Judge(h)
    PROVE  Tale'
<1> DEFINE rest == Tail(job[h].todo)
           promote == \E r \in rows[Ioc(h)] : ~r.approved /\ Due(r)
<1>1. /\ pc[h] = "judge" /\ orphaned' = orphaned \ {Ioc(h)}
      /\ UNCHANGED <<now, observations, rows, learned, overlapped, manual>>
      /\ IF promote THEN pc' = [pc EXCEPT ![h] = "promote"] /\ UNCHANGED job
         ELSE /\ pc' = [pc EXCEPT ![h] = AfterIocs(rest, job[h].left)]
              /\ job' = [job EXCEPT ![h].todo = rest]
  BY DEF Judge, Goto, Ioc, store
<1> HIDE DEF promote
<1>2. Control'
  BY JudgeControl
<1>3. Ioc(h) \in Iocs
  BY <1>1, AtIoc
<1>4. /\ \A g \in Handlers : g # h => job'[g] = job[g] /\ pc'[g] = pc[g]
      /\ promote => pc'[h] = "promote" /\ job'[h] = job[h]
      /\ ~promote => pc'[h] \in {"select", "draft", "index"}
  BY <1>1 DEF Control, AfterIocs
<1>5. \A g \in Handlers : pc'[g] \in {"write", "promote", "judge"} => job'[g] = job[g] /\ Ioc(g)' = Ioc(g)
  BY <1>4 DEF Ioc
<1>6. Longer /\ now <= now'
  BY <1>1, Counts, IntelAssumption DEF Longer, Control, Times
<1>7. \A r, k : r \in Row /\ Story(k, r) => Story(k, r)'
  BY <1>2, <1>6, RowParts, StoryStays
<1>8. Stories'
  BY <1>1, <1>7 DEF Stories, Tale, Shelves
<1>9. Rivalry'
  BY <1>1, <1>4, <1>5 DEF Tale, Rivalry
<1>10. ASSUME NEW g \in Handlers, pc'[g] = "write" PROVE Read(g)'
  <2>1. pc[g] = "write" /\ job'[g] = job[g] /\ Read(g) /\ job[g] \in Jobs
    BY <1>1, <1>4, <1>10, AtIoc DEF Tale
  <2>2. PICK k \in Iocs : k = Ioc(g)
    BY <2>1, AtIoc
  <2>3. \A r \in job[g].read : Story(k, r)'
    BY <1>7, <2>1, <2>2, JobParts DEF Read
  <2> QED BY <1>1, <1>5, <1>10, <2>1, <2>2, <2>3 DEF Read, Lone
<1>11. ASSUME NEW g \in Handlers, pc'[g] = "promote" PROVE Promoting(g)'
  <2>1. CASE g = h
    <3>1. PICK r \in rows[Ioc(h)] : ~r.approved /\ Due(r)
      BY <1>4, <1>11, <2>1 DEF promote
    <3>2. \A s \in rows[Ioc(h)] : Due(s)
      BY <1>3, <3>1 DEF Shelves
    <3> QED BY <1>1, <1>5, <1>11, <2>1, <3>1, <3>2 DEF Promoting
  <2>2. CASE g # h
    <3>1. pc[g] = "promote" /\ Promoting(g)
      BY <1>4, <1>11, <2>2 DEF Tale
    <3> QED BY <1>1, <1>5, <1>11, <3>1 DEF Promoting, Lone
  <2> QED BY <2>1, <2>2
<1>12. CountedUnlessOverlapped'
  BY <1>1 DEF Tale, CountedUnlessOverlapped
<1>13. ApprovedIffDue'
  <2> SUFFICES ASSUME NEW k \in Iocs, NEW r \in rows[k]
               PROVE  /\ Due(r) /\ ~r.approved =>
                             k \in orphaned' \/ \E g \in Handlers : k \in Undecided({g})'
                      /\ r.approved /\ ~Due(r) =>
                             k \in manual \/ \E o \in ObsIds : <<o, k>> \in overlapped
    BY <1>1 DEF ApprovedIffDue
  <2>1. r.approved /\ ~Due(r) => k \in manual \/ \E o \in ObsIds : <<o, k>> \in overlapped
    BY DEF Tale, ApprovedIffDue
  <2>2. ASSUME Due(r), ~r.approved
        PROVE  k \in orphaned' \/ \E g \in Handlers : k \in Undecided({g})'
    <3>1. CASE k = Ioc(h)
      <4>1. promote
        BY <2>2, <3>1 DEF promote
      <4>2. k \in Undecided({h})'
        BY <1>4, <3>1, <4>1 DEF Undecided, Ioc
      <4> QED BY <4>2
    <3>2. CASE k # Ioc(h)
      <4>1. k \in orphaned => k \in orphaned'
        BY <1>1, <3>2
      <4>2. ASSUME NEW g \in Handlers, k \in Undecided({g}) PROVE k \in Undecided({g})'
        <5>1. pc[g] \in {"judge", "promote"} /\ k = Ioc(g) /\ g # h
          BY <3>2, <4>2 DEF Undecided, Ioc
        <5> QED BY <1>4, <5>1 DEF Undecided, Ioc
      <4> QED BY <2>2, <4>1, <4>2 DEF Tale, ApprovedIffDue
    <3> QED BY <3>1, <3>2
  <2> QED BY <2>1, <2>2
<1> QED
  BY <1>8, <1>9, <1>10, <1>11, <1>12, <1>13 DEF Tale, Read, Promoting

Alike(r, s) ==
    /\ s.confidence = r.confidence /\ s.count = r.count /\ s.packages = r.packages
    /\ s.sources = r.sources /\ s.seen = r.seen

\* Approving a row changes nothing else, and nothing of the other rows.
LEMMA Stamping ==
    ASSUME Shelves, NEW i \in Iocs,
           rows' = [rows EXCEPT ![i] = {[r EXCEPT !.approved = TRUE] : r \in rows[i]}]
    PROVE  /\ rows' \in [Iocs -> SUBSET Row]
           /\ \A k \in Iocs : \A r, s \in rows'[k] : r = s
           /\ \A k \in Iocs : k # i => rows'[k] = rows[k]
           /\ \A k \in Iocs : \A s \in rows'[k] : \E r \in rows[k] : Alike(r, s)
           /\ \A k \in Iocs : \A r \in rows[k] : \E s \in rows'[k] : Alike(r, s)
           /\ \A s \in rows'[i] : s.approved
<1> DEFINE f(r) == [r EXCEPT !.approved = TRUE]
<1>1. \A r \in Row : f(r) \in Row /\ f(r).approved
  BY RowStamped
<1>2. ASSUME NEW r \in Row PROVE Alike(r, f(r))
  <2>1. TRUE \in BOOLEAN
    OBVIOUS
  <2> QED BY <2>1, RowStampedRest DEF Alike
<1>3. rows' = [rows EXCEPT ![i] = {f(r) : r \in rows[i]}]
  OBVIOUS
<1> HIDE DEF f
<1>4. rows[i] \subseteq Row /\ \A k \in Iocs : rows[k] \subseteq Row
  BY DEF Shelves
<1>5. rows'[i] = {f(r) : r \in rows[i]} /\ \A k \in Iocs : k # i => rows'[k] = rows[k]
  BY <1>3 DEF Shelves
<1>6. rows' \in [Iocs -> SUBSET Row]
  <2>1. {f(r) : r \in rows[i]} \in SUBSET Row
    BY <1>1, <1>4
  <2> HIDE DEF f
  <2> QED BY <1>3, <2>1 DEF Shelves
<1>7. \A r : Alike(r, r)
  BY DEF Alike
<1>8. \A k \in Iocs : \A r, s \in rows'[k] : r = s
  BY <1>5 DEF Shelves
<1>9. ASSUME NEW k \in Iocs
      PROVE  /\ \A s \in rows'[k] : \E r \in rows[k] : Alike(r, s)
             /\ \A r \in rows[k] : \E s \in rows'[k] : Alike(r, s)
  <2>1. CASE k = i
    <3>1. \A s \in rows'[i] : \E r \in rows[i] : Alike(r, s)
      BY <1>2, <1>4, <1>5
    <3>2. \A r \in rows[i] : f(r) \in rows'[i] /\ Alike(r, f(r))
      BY <1>2, <1>4, <1>5
    <3> QED BY <2>1, <3>1, <3>2
  <2>2. CASE k # i
    BY <1>5, <1>7, <2>2
  <2> QED BY <2>1, <2>2
<1>10. \A s \in rows'[i] : s.approved
  BY <1>1, <1>4, <1>5
<1> QED
  BY <1>5, <1>6, <1>8, <1>9, <1>10

\* The UPDATE of the status, by auto_promote or by hand.
LEMMA StampTale ==
    ASSUME Control, Shelves, Tale, Control', NEW i \in Iocs,
           rows' = [rows EXCEPT ![i] = {[r EXCEPT !.approved = TRUE] : r \in rows[i]}],
           UNCHANGED <<now, observations, learned, overlapped, orphaned>>,
           manual \subseteq manual',
           i \in manual' \/ (Lone(i) => \A r \in rows[i] : Due(r)),
           \A g \in Handlers : pc'[g] \in {"write", "promote"} => pc'[g] = pc[g] /\ job'[g] = job[g],
           \A g \in Handlers : pc[g] \in {"judge", "promote"} =>
               (pc'[g] = pc[g] /\ job'[g] = job[g]) \/ Ioc(g) = i
    PROVE  Tale'
<1>1. /\ \A k \in Iocs : k # i => rows'[k] = rows[k]
      /\ \A k \in Iocs : \A s \in rows'[k] : \E r \in rows[k] : Alike(r, s)
      /\ \A k \in Iocs : \A r \in rows[k] : \E s \in rows'[k] : Alike(r, s)
      /\ \A s \in rows'[i] : s.approved
  BY Stamping
<1>2. Longer /\ now <= now'
  BY Counts, IntelAssumption DEF Longer, Control, Times
<1>3. \A r, k : r \in Row /\ Story(k, r) => Story(k, r)'
  BY <1>2, RowParts, StoryStays
<1>4. ASSUME NEW k \in Iocs, NEW s \in rows'[k] PROVE Story(k, s)'
  <2>1. PICK r \in rows[k] : Alike(r, s)
    BY <1>1
  <2>2. Story(k, r) /\ r \in Row
    BY DEF Tale, Stories, Shelves
  <2>3. Story(k, r)'
    BY <1>3, <2>2
  <2> QED BY <2>1, <2>3 DEF Story, Alike, Earned
<1>5. Stories'
  BY <1>4 DEF Stories
<1>6. Rivalry'
  BY DEF Tale, Rivalry, Ioc
<1>7. ASSUME NEW g \in Handlers, pc'[g] = "write" PROVE Read(g)'
  <2>1. pc[g] = "write" /\ job'[g] = job[g] /\ Read(g) /\ job[g] \in Jobs /\ Ioc(g)' = Ioc(g)
    BY <1>7, AtIoc DEF Tale, Ioc
  <2>2. PICK k \in Iocs : k = Ioc(g)
    BY <2>1, AtIoc
  <2>3. \A r \in job[g].read : Story(k, r)'
    BY <1>3, <2>1, <2>2, JobParts DEF Read
  <2>4. rows[k] # {} => rows'[k] # {}
    BY <1>1
  <2>5. Lone(k) => \A s \in rows'[k] : \E x \in job[g].read :
                       x.confidence = s.confidence /\ x.packages = s.packages
    BY <1>1, <2>1, <2>2 DEF Read, Alike
  <2> QED BY <2>1, <2>2, <2>3, <2>4, <2>5 DEF Read, Lone
<1>8. \A r, s : Alike(r, s) => (Due(r) <=> Due(s))
  BY DEF Alike, Due
<1>9. ASSUME NEW g \in Handlers, pc'[g] = "promote" PROVE Promoting(g)'
  <2>1. pc[g] = "promote" /\ Promoting(g) /\ Ioc(g)' = Ioc(g)
    BY <1>9 DEF Tale, Ioc
  <2>2. PICK k \in Iocs : k = Ioc(g)
    BY <2>1, AtIoc
  <2> QED BY <1>1, <1>8, <2>1, <2>2 DEF Promoting, Lone
<1>10. CountedUnlessOverlapped'
  <2> SUFFICES ASSUME NEW o \in ObsIds, NEW k \in Iocs, <<o, k>> \in learned, <<o, k>> \notin overlapped
               PROVE  \E s \in rows'[k] : o \in s.sources
    BY DEF CountedUnlessOverlapped
  <2>1. PICK r \in rows[k] : o \in r.sources
    BY DEF Tale, CountedUnlessOverlapped
  <2>2. PICK s \in rows'[k] : Alike(r, s)
    BY <1>1, <2>1
  <2> QED BY <2>1, <2>2 DEF Alike
<1>11. ApprovedIffDue'
  <2> SUFFICES ASSUME NEW k \in Iocs, NEW s \in rows'[k]
               PROVE  /\ Due(s) /\ ~s.approved =>
                             k \in orphaned \/ \E g \in Handlers : k \in Undecided({g})'
                      /\ s.approved /\ ~Due(s) =>
                             k \in manual' \/ \E o \in ObsIds : <<o, k>> \in overlapped
    BY DEF ApprovedIffDue
  <2>1. CASE k = i
    <3>1. s.approved
      BY <1>1, <2>1
    <3>2. PICK r \in rows[i] : Alike(r, s)
      BY <1>1, <2>1
    <3>3. Due(r) <=> Due(s)
      BY <1>8, <3>2
    <3> QED BY <2>1, <3>1, <3>2, <3>3 DEF Lone
  <2>2. CASE k # i
    <3>1. s \in rows[k]
      BY <1>1, <2>2
    <3>2. ASSUME NEW g \in Handlers, k \in Undecided({g}) PROVE k \in Undecided({g})'
      <4>1. pc[g] \in {"judge", "promote"} /\ k = Ioc(g)
        BY <3>2 DEF Undecided, Ioc
      <4> QED BY <2>2, <4>1 DEF Undecided, Ioc
    <3> QED BY <3>1, <3>2 DEF Tale, ApprovedIffDue
  <2> QED BY <2>1, <2>2
<1> QED
  BY <1>5, <1>6, <1>7, <1>9, <1>10, <1>11 DEF Tale, Read, Promoting

LEMMA PromoteTale ==
    ASSUME Control, Shelves, Tale, NEW h \in Handlers, Promote(h)
    PROVE  Tale'
<1>1. /\ pc[h] = "promote" /\ pc' = [pc EXCEPT ![h] = AfterIocs(Tail(job[h].todo), job[h].left)]
      /\ job' = [job EXCEPT ![h].todo = Tail(job[h].todo)]
      /\ UNCHANGED <<now, observations, learned, overlapped, orphaned, manual>>
      /\ rows' = [rows EXCEPT ![Ioc(h)] = {[r EXCEPT !.approved = TRUE] : r \in rows[Ioc(h)]}]
  BY DEF Promote, Goto, Ioc
<1>2. Control'
  BY PromoteControl
<1>3. PICK i \in Iocs : i = Ioc(h)
  BY <1>1, AtIoc
<1>4. \A g \in Handlers : g # h => job'[g] = job[g] /\ pc'[g] = pc[g]
  BY <1>1 DEF Control
<1>5. pc'[h] \in {"select", "draft", "index"}
  BY <1>1 DEF Control, AfterIocs
<1>6. Lone(i) => \A r \in rows[i] : Due(r)
  BY <1>1, <1>3 DEF Tale, Promoting
<1>7. rows' = [rows EXCEPT ![i] = {[r EXCEPT !.approved = TRUE] : r \in rows[i]}]
  BY <1>1, <1>3
<1>8. \A g \in Handlers : pc'[g] \in {"write", "promote"} => pc'[g] = pc[g] /\ job'[g] = job[g]
  BY <1>4, <1>5
<1>9. \A g \in Handlers : pc[g] \in {"judge", "promote"} =>
          (pc'[g] = pc[g] /\ job'[g] = job[g]) \/ Ioc(g) = i
  BY <1>3, <1>4
<1> QED
  BY <1>1, <1>2, <1>6, <1>7, <1>8, <1>9, StampTale

LEMMA ApproveTale ==
    ASSUME Control, Shelves, Tale, NEW i \in Iocs, ApproveIoc(i)
    PROVE  Tale' /\ Control'
<1>1. /\ UNCHANGED <<now, observations, learned, overlapped, orphaned, pc, job>>
      /\ manual' = manual \union {i} /\ Happens
      /\ rows' = [rows EXCEPT ![i] = {[r EXCEPT !.approved = TRUE] : r \in rows[i]}]
  BY DEF ApproveIoc, handlers
<1>2. Control'
  <2>1. events' \in events..MaxEvents /\ now' \in Times /\ now' >= now
    BY <1>1, IntelAssumption DEF Happens, Control, Times
  <2> QED BY <1>1, <2>1, AsideControl
<1>3. Tale'
  BY <1>1, <1>2, StampTale
<1> QED BY <1>2, <1>3

----------------------------------------------------------------------------
(* Alerts taken in twice *)

\* Process p has the nonce of an alert it took in at t, or it is too old to matter.
Kept(p, r, t) ==
    \/ \E n \in 1..Len(nonces[p]) : nonces[p][n] = [req |-> r, at |-> t]
    \/ now - t > NonceTTL

Remembered ==
    /\ \A k \in 1..Len(observations) :
           observations[k].by \in forgot
           \/ Kept(observations[k].by, observations[k].req, observations[k].at)
    /\ \A h \in Recorders :
           ProcessOf[h] \in forgot \/ Kept(ProcessOf[h], job[h].req, job[h].stamp)

\* The sensor's clock was ahead at one of two arrivals.
Ahead(r, s, t) == SentAt[r] > s \/ SentAt[r] > t

\* What a process takes in twice, recorded or about to be, was ahead.
Distinct ==
    /\ \A j, k \in 1..Len(observations) :
           j # k /\ observations[j].by = observations[k].by
             /\ observations[j].req = observations[k].req /\ observations[k].by \notin forgot
           => Ahead(observations[k].req, observations[j].at, observations[k].at)
    /\ \A j \in 1..Len(observations), h \in Recorders :
           observations[j].by = ProcessOf[h] /\ observations[j].req = job[h].req
             /\ ProcessOf[h] \notin forgot
           => Ahead(job[h].req, observations[j].at, job[h].stamp)
    /\ \A g, h \in Recorders :
           g # h /\ ProcessOf[g] = ProcessOf[h] /\ job[g].req = job[h].req
             /\ ProcessOf[h] \notin forgot
           => Ahead(job[h].req, job[g].stamp, job[h].stamp)

Memory == Remembered /\ Distinct

\* What a process that forgets nothing has kept, it keeps.
Keeping ==
    \A p \in Processes \ forgot', r \in Requests, t \in Times : Kept(p, r, t) => Kept(p, r, t)'

LEMMA RecorderParts ==
    ASSUME Control, NEW h \in Recorders
    PROVE  /\ h \in Handlers /\ ProcessOf[h] \in Processes
           /\ job[h].req \in Requests /\ job[h].stamp \in Times
<1>1. h \in Handlers /\ pc[h] = "record"
  BY DEF Recorders
<1>2. job[h] \in Jobs
  BY <1>1 DEF Control, Doing
<1> QED BY <1>1, <1>2, JobParts, IntelAssumption

LEMMA StillKept ==
    ASSUME Control, Remembered, Keeping, UNCHANGED observations, forgot \subseteq forgot'
    PROVE  /\ \A k \in 1..Len(observations) :
                  observations[k].by \in forgot'
                  \/ Kept(observations[k].by, observations[k].req, observations[k].at)'
           /\ \A h \in Recorders : job'[h] = job[h] =>
                  ProcessOf[h] \in forgot' \/ Kept(ProcessOf[h], job[h].req, job[h].stamp)'
<1>1. ASSUME NEW k \in 1..Len(observations), observations[k].by \notin forgot'
      PROVE  Kept(observations[k].by, observations[k].req, observations[k].at)'
  <2>1. PICK o \in Observation : o = observations[k]
    BY Counts
  <2>2. o.by \in Processes \ forgot' /\ o.req \in Requests /\ o.at \in Times
    BY <1>1, <2>1 DEF Observation
  <2>3. Kept(o.by, o.req, o.at)
    BY <2>1, <2>2 DEF Remembered
  <2>4. Kept(o.by, o.req, o.at)'
    BY <2>2, <2>3 DEF Keeping
  <2> QED BY <2>1, <2>4
<1>2. ASSUME NEW h \in Recorders, job'[h] = job[h], ProcessOf[h] \notin forgot'
      PROVE  Kept(ProcessOf[h], job[h].req, job[h].stamp)'
  <2>1. /\ ProcessOf[h] \in Processes \ forgot' /\ job[h].req \in Requests /\ job[h].stamp \in Times
    BY <1>2, RecorderParts
  <2>2. PICK r \in Requests, t \in Times : r = job[h].req /\ t = job[h].stamp
    BY <2>1
  <2>3. Kept(ProcessOf[h], r, t)
    BY <1>2, <2>1, <2>2 DEF Remembered
  <2>4. Kept(ProcessOf[h], r, t)'
    BY <2>1, <2>3 DEF Keeping
  <2> QED BY <1>2, <2>2, <2>4
<1> QED BY <1>1, <1>2

\* Steps that neither take an alert in nor record one.
LEMMA QuietMemory ==
    ASSUME Control, Memory, UNCHANGED observations, Keeping, forgot \subseteq forgot',
           Recorders' \subseteq Recorders, \A h \in Recorders' : job'[h] = job[h]
    PROVE  Memory'
<1>1. Remembered'
  BY StillKept DEF Memory, Remembered
<1>2. Distinct'
  BY DEF Memory, Distinct, Ahead
<1> QED BY <1>1, <1>2 DEF Memory

LEMMA KeepingSame ==
    ASSUME Control, now' \in Times, now' >= now, \A p \in Processes \ forgot' : nonces'[p] = nonces[p]
    PROVE  Keeping
<1> SUFFICES ASSUME NEW p \in Processes \ forgot', NEW r \in Requests, NEW t \in Times,
                    Kept(p, r, t)
             PROVE  Kept(p, r, t)'
  BY DEF Keeping
<1>1. now - t > NonceTTL => now' - t > NonceTTL
  BY IntelAssumption DEF Control, Times
<1> QED BY <1>1 DEF Kept

LEMMA RecordMemory ==
    ASSUME Control, Memory, NEW h \in Handlers, Record(h)
    PROVE  Memory'
<1> DEFINE n == Len(observations)
<1>1. /\ pc[h] = "record" /\ UNCHANGED <<now, nonces, forgot>>
      /\ \A g \in Handlers : g # h => job'[g] = job[g]
  BY DEF Record, memory, history, Control
<1>2. /\ Control' /\ Len(observations') = n + 1
      /\ \A k \in 1..n : observations'[k] = observations[k]
      /\ observations'[n + 1].req = job[h].req /\ observations'[n + 1].by = ProcessOf[h]
      /\ observations'[n + 1].at = job[h].stamp
      /\ Recorders' = Recorders \ {h}
  <2>1. observations'[n + 1] = [req |-> job[h].req, by |-> ProcessOf[h], at |-> job[h].stamp]
    BY RecordControl
  <2>2. /\ Control' /\ Len(observations') = n + 1
        /\ \A k \in 1..n : observations'[k] = observations[k]
        /\ Recorders' = Recorders \ {h}
    BY RecordControl
  <2> QED BY <2>1, <2>2
<1>3. n \in Nat /\ h \in Recorders /\ \A g \in Recorders' : g \in Recorders /\ g # h /\ job'[g] = job[g]
  BY <1>1, <1>2, Counts DEF Recorders
<1>4. \A k \in 1..Len(observations') : k = n + 1 \/ k \in 1..n
  BY <1>2, <1>3
<1>5. \A p, r, t : Kept(p, r, t)' <=> Kept(p, r, t)
  BY <1>1 DEF Kept
<1> HIDE DEF n
<1>6. Remembered'
  <2>1. ASSUME NEW k \in 1..Len(observations'), observations'[k].by \notin forgot
        PROVE  Kept(observations[k].by, observations[k].req, observations[k].at)'
    <3>1. PICK p, r, t : p = observations'[k].by /\ r = observations'[k].req /\ t = observations'[k].at
      OBVIOUS
    <3>2. Kept(p, r, t)
      BY <1>2, <1>3, <1>4, <2>1, <3>1 DEF Memory, Remembered, n
    <3> QED BY <1>5, <3>1, <3>2
  <2>2. ASSUME NEW g \in Recorders', ProcessOf[g] \notin forgot
        PROVE  Kept(ProcessOf[g], job[g].req, job[g].stamp)'
    <3>1. PICK r, t : r = job[g].req /\ t = job[g].stamp
      OBVIOUS
    <3>2. Kept(ProcessOf[g], r, t)
      BY <1>3, <2>2, <3>1 DEF Memory, Remembered
    <3> QED BY <1>3, <1>5, <3>1, <3>2
  <2> QED BY <1>1, <2>1, <2>2 DEF Remembered
<1>7. ASSUME NEW j \in 1..Len(observations'), NEW k \in 1..Len(observations'), j # k,
             observations'[j].by = observations'[k].by, observations'[j].req = observations'[k].req,
             observations'[k].by \notin forgot
      PROVE  Ahead(observations'[k].req, observations'[j].at, observations'[k].at)
  <2>1. CASE j = n + 1
    BY <1>2, <1>3, <1>4, <1>7, <2>1 DEF Memory, Distinct, Ahead, n
  <2>2. CASE j # n + 1 /\ k = n + 1
    BY <1>2, <1>3, <1>4, <1>7, <2>2 DEF Memory, Distinct, Ahead, n
  <2>3. CASE j # n + 1 /\ k # n + 1
    BY <1>2, <1>3, <1>4, <1>7, <2>3 DEF Memory, Distinct, Ahead, n
  <2> QED BY <2>1, <2>2, <2>3
<1>8. ASSUME NEW j \in 1..Len(observations'), NEW g \in Recorders',
             observations'[j].by = ProcessOf[g], observations'[j].req = job'[g].req,
             ProcessOf[g] \notin forgot
      PROVE  Ahead(job'[g].req, observations'[j].at, job'[g].stamp)
  BY <1>2, <1>3, <1>4, <1>8 DEF Memory, Distinct, Ahead, n
<1>9. ASSUME NEW f \in Recorders', NEW g \in Recorders', f # g,
             ProcessOf[f] = ProcessOf[g], job'[f].req = job'[g].req, ProcessOf[g] \notin forgot
      PROVE  Ahead(job'[g].req, job'[f].stamp, job'[g].stamp)
  BY <1>3, <1>9 DEF Memory, Distinct, Ahead
<1>10. Distinct'
  BY <1>1, <1>7, <1>8, <1>9 DEF Distinct, Ahead
<1> QED BY <1>6, <1>10 DEF Memory

LEMMA ReceiveMemory ==
    ASSUME Control, Shelves, Memory, NEW h \in Handlers, NEW r \in Requests, Receive(h, r)
    PROVE  Memory' /\ Control' /\ nonces' \in [Processes -> Seq(Entry)]
<1> DEFINE p == ProcessOf[h]
           old == nonces[p]
           q == Fitted(Swept(old))
           e == [req |-> r, at |-> now]
<1>1. /\ pc[h] = "idle" /\ UNCHANGED <<now, observations>>
      /\ now - SentAt[r] <= Window
      /\ forgot' = IF q # Swept(old) THEN forgot \union {p} ELSE forgot
      /\ \/ /\ Cached(q, r) /\ UNCHANGED <<pc, job, events>>
            /\ nonces' = [nonces EXCEPT ![p] = Touched(q, r)]
         \/ /\ ~Cached(q, r) /\ pc' = [pc EXCEPT ![h] = "record"]
            /\ nonces' = [nonces EXCEPT ![p] = Append(q, e)]
  BY DEF Receive, store, handlers, InWindow, Goto
<1>2. p \in Processes /\ old \in Seq(Entry)
  BY IntelAssumption DEF Shelves
<1>3. now \in Nat /\ now \in Times /\ e \in Entry
  BY IntelAssumption DEF Control, Times, Entry
<1> HIDE DEF p, old, e
<1>4. Swept(old) \in Seq(Entry) /\ q \in Seq(Entry)
  BY <1>2, <1>3, SweptKeepsTheYoung, FittedIsSeq
<1>5. ASSUME p \notin forgot', NEW n \in 1..Len(old)
      PROVE  (\E m \in 1..Len(q) : q[m] = old[n]) \/ now - old[n].at > NonceTTL
  <2>1. q = Swept(old)
    BY <1>1, <1>5
  <2> QED BY <1>2, <1>3, <2>1, SweptKeepsTheYoung
<1> HIDE DEF q
<1>6. forgot \subseteq forgot'
  BY <1>1
<1>7. ASSUME NEW s \in Requests, NEW t \in Times, p \notin forgot', Kept(p, s, t)
      PROVE  (\E m \in 1..Len(q) : q[m] = [req |-> s, at |-> t]) \/ now - t > NonceTTL
  <2>1. CASE now - t > NonceTTL
    BY <2>1
  <2>2. CASE \E n \in 1..Len(nonces[p]) : nonces[p][n] = [req |-> s, at |-> t]
    <3>1. PICK n \in 1..Len(old) : old[n] = [req |-> s, at |-> t]
      BY <2>2 DEF old
    <3>2. old[n].at = t
      BY <3>1
    <3> QED BY <1>5, <1>7, <3>1, <3>2
  <2> QED BY <1>7, <2>1, <2>2 DEF Kept
<1>8. ASSUME nonces'[p] \in Seq(Entry),
             \A m \in 1..Len(q) : \E n \in 1..Len(nonces'[p]) : nonces'[p][n] = q[m],
             \A o \in Processes : o # p => nonces'[o] = nonces[o]
      PROVE  Keeping
  <2> SUFFICES ASSUME NEW o \in Processes \ forgot', NEW s \in Requests, NEW t \in Times,
                      Kept(o, s, t)
               PROVE  Kept(o, s, t)'
    BY DEF Keeping
  <2>1. CASE o = p
    <3>1. CASE now - t > NonceTTL
      BY <1>1, <3>1 DEF Kept
    <3>2. CASE \E m \in 1..Len(q) : q[m] = [req |-> s, at |-> t]
      BY <1>8, <2>1, <3>2 DEF Kept
    <3> QED BY <1>7, <2>1, <3>1, <3>2
  <2>2. CASE o # p
    BY <1>1, <1>8, <2>2 DEF Kept
  <2> QED BY <2>1, <2>2
<1>9. CASE /\ Cached(q, r) /\ UNCHANGED <<pc, job, events>>
           /\ nonces' = [nonces EXCEPT ![p] = Touched(q, r)]
  <2>1. nonces'[p] = Touched(q, r) /\ \A o \in Processes : o # p => nonces'[o] = nonces[o]
    BY <1>2, <1>9 DEF Shelves
  <2>2. /\ nonces'[p] \in Seq(Entry)
        /\ \A m \in 1..Len(q) : \E n \in 1..Len(nonces'[p]) : nonces'[p][n] = q[m]
    BY <1>4, <1>9, <2>1, TouchedKeeps
  <2>3. Keeping
    BY <1>8, <2>1, <2>2
  <2>4. Recorders' = Recorders
    BY <1>9 DEF Recorders
  <2>5. Memory'
    BY <1>1, <1>6, <1>9, <2>3, <2>4, QuietMemory
  <2>6. Control'
    <3>1. events' \in events..MaxEvents /\ now' \in Times /\ now' >= now
      BY <1>1, <1>3, <1>9, IntelAssumption DEF Control
    <3> QED BY <1>1, <1>9, <3>1, AsideControl
  <2>7. nonces' \in [Processes -> Seq(Entry)]
    BY <1>9, <2>1, <2>2 DEF Shelves
  <2> QED BY <2>5, <2>6, <2>7
<1>10. CASE /\ ~Cached(q, r) /\ pc' = [pc EXCEPT ![h] = "record"]
            /\ nonces' = [nonces EXCEPT ![p] = Append(q, e)]
  <2>1. nonces'[p] = Append(q, e) /\ \A o \in Processes : o # p => nonces'[o] = nonces[o]
    BY <1>2, <1>10 DEF Shelves
  <2>2. /\ nonces'[p] \in Seq(Entry) /\ Len(nonces'[p]) = Len(q) + 1
        /\ \A m \in 1..Len(q) : nonces'[p][m] = q[m]
        /\ nonces'[p][Len(q) + 1] = e /\ Len(q) \in Nat
    BY <1>3, <1>4, <2>1, AppendProperties
  <2>3. \A m \in 1..Len(q) : \E n \in 1..Len(nonces'[p]) : nonces'[p][n] = q[m]
    BY <2>2
  <2>4. Keeping
    BY <1>8, <2>1, <2>2, <2>3
  <2>5. pc' # pc
    BY <1>1, <1>10 DEF Control
  <2>6. /\ Control' /\ Recorders' = Recorders \union {h} /\ h \notin Recorders
        /\ job'[h].req = r /\ job'[h].stamp = now
        /\ \A g \in Recorders : job'[g] = job[g]
    BY <2>5, ReceiveControl
  <2>7. Kept(p, r, now)'
    <3>1. Len(q) + 1 \in 1..Len(nonces'[p]) /\ nonces'[p][Len(q) + 1] = [req |-> r, at |-> now]
      BY <2>2 DEF e
    <3> QED BY <1>1, <3>1 DEF Kept
  <2>8. Remembered'
    <3>1. \A g \in Recorders' : ProcessOf[g] \in forgot' \/ Kept(ProcessOf[g], job[g].req, job[g].stamp)'
      <4> SUFFICES ASSUME NEW g \in Recorders', ProcessOf[g] \notin forgot'
                   PROVE  Kept(ProcessOf[g], job[g].req, job[g].stamp)'
        OBVIOUS
      <4>1. CASE g = h
        BY <2>6, <2>7, <4>1, <1>1 DEF p, Kept
      <4>2. CASE g # h
        BY <1>1, <1>6, <2>4, <2>6, <4>2, StillKept DEF Memory
      <4> QED BY <4>1, <4>2
    <3> QED BY <1>1, <1>6, <2>4, <3>1, StillKept DEF Memory, Remembered
  <2>9. ASSUME NEW t \in Times, p \notin forgot', Kept(p, r, t)
        PROVE  SentAt[r] > t
    <3>1. ~\E m \in 1..Len(q) : q[m] = [req |-> r, at |-> t]
      <4> SUFFICES ASSUME NEW m \in 1..Len(q), q[m] = [req |-> r, at |-> t] PROVE FALSE
        OBVIOUS
      <4>1. q[m].req = r
        OBVIOUS
      <4> QED BY <1>10, <4>1 DEF Cached
    <3>2. now - t > NonceTTL
      BY <1>7, <2>9, <3>1
    <3>3. SentAt[r] \in Nat /\ t \in Nat /\ Window \in Nat /\ NonceTTL \in Nat /\ Window <= NonceTTL
      BY IntelAssumption DEF Times
    <3> QED BY <1>1, <1>3, <3>2, <3>3
  <2>10. ASSUME NEW j \in 1..Len(observations), observations[j].by = p,
                observations[j].req = r, p \notin forgot'
         PROVE  SentAt[r] > observations[j].at
    <3>1. observations[j].at \in Times
      BY Counts DEF Observation
    <3>2. Kept(p, r, observations[j].at)
      BY <1>6, <2>10 DEF Memory, Remembered
    <3> QED BY <2>9, <2>10, <3>1, <3>2
  <2>11. ASSUME NEW g \in Recorders, ProcessOf[g] = p, job[g].req = r, p \notin forgot'
         PROVE  SentAt[r] > job[g].stamp
    <3>1. job[g].stamp \in Times
      BY RecorderParts
    <3>2. Kept(p, r, job[g].stamp)
      BY <1>6, <2>11 DEF Memory, Remembered
    <3> QED BY <2>9, <2>11, <3>1, <3>2
  <2>12. ASSUME NEW j \in 1..Len(observations), NEW g \in Recorders',
                observations[j].by = ProcessOf[g], observations[j].req = job'[g].req,
                ProcessOf[g] \notin forgot'
         PROVE  Ahead(job'[g].req, observations[j].at, job'[g].stamp)
    <3>1. CASE g = h
      BY <2>6, <2>10, <2>12, <3>1 DEF p, Ahead
    <3>2. CASE g # h
      BY <1>6, <2>6, <2>12, <3>2 DEF Memory, Distinct
    <3> QED BY <3>1, <3>2
  <2>13. ASSUME NEW f \in Recorders', NEW g \in Recorders', f # g,
                ProcessOf[f] = ProcessOf[g], job'[f].req = job'[g].req, ProcessOf[g] \notin forgot'
         PROVE  Ahead(job'[g].req, job'[f].stamp, job'[g].stamp)
    <3>1. CASE f = h
      BY <2>6, <2>11, <2>13, <3>1 DEF p, Ahead
    <3>2. CASE g = h
      BY <2>6, <2>11, <2>13, <3>2 DEF p, Ahead
    <3>3. CASE f # h /\ g # h
      BY <1>6, <2>6, <2>13, <3>3 DEF Memory, Distinct
    <3> QED BY <3>1, <3>2, <3>3
  <2>14. Distinct'
    BY <1>1, <1>6, <2>12, <2>13 DEF Memory, Distinct, Ahead
  <2>15. nonces' \in [Processes -> Seq(Entry)]
    BY <1>10, <2>1, <2>2 DEF Shelves
  <2> QED BY <2>6, <2>8, <2>14, <2>15 DEF Memory
<1> QED BY <1>1, <1>9, <1>10

LEMMA RestartMemory ==
    ASSUME Control, Shelves, Memory, NEW p \in Processes, Restart(p)
    PROVE  Memory'
<1>1. /\ UNCHANGED <<now, observations>> /\ forgot' = forgot \union {p}
      /\ \A q \in Processes : q # p => nonces'[q] = nonces[q]
  BY DEF Restart, store, Shelves
<1>2. Keeping
  BY <1>1, KeepingSame, IntelAssumption DEF Control, Times
<1> QED BY <1>1, <1>2, RestartControl, QuietMemory

----------------------------------------------------------------------------
(* The client *)

Caught == mark <= now /\ MissHasCause

LEMMA QuietClient ==
    ASSUME Control, Shelves, Caught, UNCHANGED <<rows, mark>>, known \subseteq known',
           late \subseteq late', cut \subseteq cut', now' \in Times, now' >= now
    PROVE  Caught'
<1>1. mark' <= now'
  BY IntelAssumption DEF Caught, Control, Shelves, Times
<1>2. Eligible' = Eligible /\ \A i \in Iocs : RowOf(i)' = RowOf(i)
  BY DEF Eligible, RowOf
<1>3. Eligible \subseteq Iocs
  BY DEF Eligible
<1>4. MissHasCause'
  BY <1>2, <1>3 DEF Caught, MissHasCause
<1> QED BY <1>1, <1>4 DEF Caught

\* A write of one row, stamped t.
LEMMA WriteClient ==
    ASSUME Control, Shelves, Caught, UNCHANGED <<mark, known, cut, now>>, NEW i \in Iocs,
           rows' \in [Iocs -> SUBSET Row], \A k \in Iocs : k # i => rows'[k] = rows[k],
           NEW t \in Times, \A r \in rows'[i] : r.seen = t, late' = Written(i, t)
    PROVE  Caught'
<1>1. ASSUME NEW k \in Eligible' \ known', RowOf(k)'.seen < mark'
      PROVE  k \in late' \/ k \in cut'
  <2>1. k \in Iocs
    BY DEF Eligible
  <2>2. CASE k = i
    <3>1. rows'[i] # {}
      BY <2>2 DEF Eligible
    <3>2. RowOf(i)' \in rows'[i]
      BY <3>1 DEF RowOf
    <3>3. t < mark /\ mark <= now
      BY <1>1, <2>2, <3>2 DEF Caught
    <3>4. now > t
      BY <3>3, IntelAssumption DEF Control, Shelves, Times
    <3> QED BY <2>2, <3>4 DEF Written
  <2>3. CASE k # i
    <3>1. k \in Eligible \ known /\ RowOf(k)' = RowOf(k)
      BY <2>1, <2>3 DEF Eligible, RowOf
    <3>2. k \in late \/ k \in cut
      BY <1>1, <3>1 DEF Caught, MissHasCause
    <3> QED BY <2>3, <3>2 DEF Written
  <2> QED BY <2>2, <2>3
<1>2. MissHasCause'
  BY <1>1 DEF MissHasCause
<1> QED BY <1>2 DEF Caught

LEMMA HighestIsLatest ==
    ASSUME Shelves, NEW S, S \subseteq Eligible
    PROVE  /\ Highest(S) \in Times
           /\ S # {} => \E i \in S : Highest(S) = RowOf(i).seen
<1>1. CASE S = {}
  BY <1>1, IntelAssumption DEF Highest, Times
<1>2. CASE S # {}
  <2> DEFINE seen == {RowOf(i).seen : i \in S}
             R == {MaxTime - t : t \in seen}
  <2>1. ASSUME NEW i \in S PROVE RowOf(i).seen \in Times
    <3>1. RowOf(i) \in rows[i] /\ i \in Iocs
      BY DEF Eligible, RowOf
    <3>2. RowOf(i) \in Row
      BY <3>1 DEF Shelves
    <3> QED BY <3>2, RowParts
  <2>2. seen \subseteq Times /\ seen # {}
    BY <1>2, <2>1
  <2>3. R \subseteq Nat /\ R # {}
    <3> HIDE DEF seen
    <3>1. \A t \in Times : MaxTime - t \in Nat
      BY IntelAssumption DEF Times
    <3>2. PICK t \in seen : TRUE
      BY <2>2
    <3> QED BY <2>2, <3>1, <3>2
  <2>4. PICK m \in R : \A k \in R : m <= k
    BY <2>3, Least
  <2>5. PICK top \in seen : m = MaxTime - top
    BY <2>4
  <2>6. \A t \in seen : t <= top
    <3> SUFFICES ASSUME NEW t \in seen PROVE t <= top
      OBVIOUS
    <3>1. MaxTime - t \in R
      OBVIOUS
    <3>2. MaxTime - top <= MaxTime - t
      BY <2>4, <2>5, <3>1
    <3>3. t \in Nat /\ top \in Nat /\ MaxTime \in Nat
      BY <2>2, IntelAssumption DEF Times
    <3> QED BY <3>2, <3>3
  <2>7. \A i \in S : RowOf(i).seen <= top
    BY <2>6
  <2>8. Highest(S) = CHOOSE t \in seen : \A i \in S : RowOf(i).seen <= t
    BY <1>2 DEF Highest
  <2>9. Highest(S) \in seen
    BY <2>5, <2>7, <2>8
  <2> QED BY <2>2, <2>9
<1> QED BY <1>1, <1>2

LEMMA PullClient ==
    ASSUME Control, Shelves, Tale, Caught, NEW T \in Firsts(Eligible), Pull(T)
    PROVE  /\ Caught' /\ mark' \in Times
           /\ known' \subseteq Iocs /\ cut' \subseteq Iocs
<1> DEFINE news == Since(T, mark)
<1>1. /\ mark' = Highest(news) /\ known' = known \union news
      /\ cut' = cut \union (Eligible \ T) /\ UNCHANGED <<now, rows, late>>
  BY DEF Pull, store, history
<1>2. T \subseteq Eligible /\ Eligible \subseteq Iocs /\ news \subseteq Eligible
  BY DEF Firsts, Eligible, Since
<1>3. mark' \in Times
  BY <1>1, <1>2, HighestIsLatest
<1>4. mark' <= now'
  <2>1. CASE news = {}
    BY <1>1, <2>1, IntelAssumption DEF Highest, Control, Times
  <2>2. CASE news # {}
    <3>1. PICK i \in news : mark' = RowOf(i).seen
      BY <1>1, <1>2, <2>2, HighestIsLatest
    <3>2. i \in Iocs /\ RowOf(i) \in rows[i]
      BY <1>2 DEF Eligible, RowOf
    <3> QED BY <1>1, <3>1, <3>2 DEF Tale, Stories, Story
  <2> QED BY <2>1, <2>2
<1>5. ASSUME NEW i \in Eligible' \ known', RowOf(i)'.seen < mark'
      PROVE  i \in late' \/ i \in cut'
  <2>1. i \in Eligible /\ i \notin known /\ i \notin news /\ RowOf(i)' = RowOf(i)
    BY <1>1 DEF Eligible, RowOf
  <2>2. CASE i \notin T
    BY <1>1, <2>1, <2>2
  <2>3. CASE i \in T
    <3>1. ~(RowOf(i).seen >= mark)
      BY <2>1, <2>3 DEF Since
    <3>2. RowOf(i) \in Row
      BY <1>2, <2>1 DEF Eligible, RowOf, Shelves
    <3>3. RowOf(i).seen < mark
      BY <3>1, <3>2, RowParts, IntelAssumption DEF Shelves, Times
    <3> QED BY <1>1, <2>1, <3>3 DEF Caught, MissHasCause
  <2> QED BY <2>2, <2>3
<1>6. MissHasCause'
  BY <1>5 DEF MissHasCause
<1> QED BY <1>1, <1>2, <1>3, <1>4, <1>6 DEF Caught, Shelves

----------------------------------------------------------------------------
(* The invariant *)

IInv == Control /\ Shelves /\ Tale /\ Memory /\ Caught

LEMMA IInvImplies ==
    ASSUME IInv
    PROVE  /\ TypeOK /\ RowIsItsSources /\ CountedUnlessOverlapped /\ ApprovedIffDue
           /\ DuplicateHasCause /\ MissHasCause
<1>1. TypeOK
  <2>1. Len(observations) <= events
    BY Counts DEF IInv
  <2>2. \A h \in Handlers : pc[h] # "idle" => job[h] \in Jobs
    BY DEF IInv, Control, Doing
  <2> QED BY <2>1, <2>2 DEF IInv, Control, Shelves, TypeOK, Entry
<1>2. RowIsItsSources
  <2> SUFFICES ASSUME NEW i \in Iocs, NEW r \in rows[i]
               PROVE  /\ r.count = Cardinality(r.sources)
                      /\ \A o \in r.sources : o <= Len(observations) /\ Shows(observations[o].req, i)
                      /\ r.packages = Seen(r.sources)
                      /\ r.confidence = Earned(i, r)
    BY DEF RowIsItsSources, Shows, Seen, Earned
  <2>1. Story(i, r)
    BY DEF IInv, Tale, Stories
  <2> QED BY <2>1, Counts DEF IInv, Story
<1>3. DuplicateHasCause
  <2> SUFFICES ASSUME NEW k \in 1..Len(observations), NEW j \in 1..k - 1,
                      observations[j].req = observations[k].req,
                      observations[j].by = observations[k].by,
                      observations[k].by \notin forgot
               PROVE  \E n \in {j, k} : SentAt[observations[k].req] > observations[n].at
    BY DEF DuplicateHasCause
  <2>1. j \in 1..Len(observations) /\ j # k
    BY Counts DEF IInv
  <2> QED BY <2>1 DEF IInv, Memory, Distinct, Ahead
<1> QED
  BY <1>1, <1>2, <1>3 DEF IInv, Tale, Caught

LEMMA InitIInv ==
    ASSUME Init
    PROVE  IInv
<1>1. Recorders = {} /\ Len(observations) = 0
  BY EmptySeq DEF Init, Recorders
<1>2. Numbered
  BY <1>1, FS_EmptySet DEF Init, Numbered
<1>3. Control
  BY <1>2, EmptySeq, IntelAssumption DEF Init, Control, Doing, PCs, Times
<1>4. Shelves
  BY EmptySeq, IntelAssumption DEF Init, Shelves, Times
<1>5. Tale
  BY DEF Init, Tale, Stories, Rivalry, Read, Promoting, CountedUnlessOverlapped, ApprovedIffDue
<1>6. Memory
  BY <1>1 DEF Memory, Remembered, Distinct
<1>7. Caught
  BY DEF Init, Caught, MissHasCause, Eligible
<1> QED BY <1>3, <1>4, <1>5, <1>6, <1>7 DEF IInv

\* The history of the indicators whose promotion was not decided stays one of indicators.
LEMMA UndecidedIocs ==
    ASSUME Control, NEW hs \in SUBSET Handlers
    PROVE  Undecided(hs) \subseteq Iocs
BY AtIoc DEF Undecided, Ioc

\* Steps of a handler that write no row.
LEMMA HandlerStep ==
    ASSUME IInv, NEW h \in Handlers, Select(h) \/ Clash(h) \/ Judge(h) \/ RecordDraft(h) \/ UpdateIndex(h)
    PROVE  IInv'
<1>1. Control'
  BY SelectControl, EndControl, JudgeControl, DraftControl DEF IInv, Shelves
<1>2. /\ UNCHANGED <<now, nonces, observations, rows, mark, known, cut, events, learned, manual, late, forgot>>
      /\ pc[h] # "record" /\ pc'[h] # "record"
      /\ \A g \in Handlers : g # h => pc'[g] = pc[g] /\ job'[g] = job[g]
  BY DEF Select, Clash, Judge, RecordDraft, UpdateIndex, memory, store, client, history, Goto, IInv,
         Control, AfterIocs
<1>3. now' \in Times /\ now' >= now
  BY <1>2, IntelAssumption DEF IInv, Control, Times
<1>4. Memory'
  <2>1. Recorders' \subseteq Recorders /\ \A g \in Recorders' : job'[g] = job[g]
    BY <1>2 DEF Recorders
  <2>2. Keeping
    BY <1>2, <1>3, KeepingSame DEF IInv
  <2> QED BY <1>2, <2>1, <2>2, QuietMemory DEF IInv
<1>5. Caught'
  BY <1>2, <1>3, QuietClient DEF IInv
<1>6. Longer
  BY <1>2, Counts DEF Longer, IInv
<1>7. CASE Select(h)
  <2>1. Tale'
    BY <1>7, SelectTale DEF IInv
  <2>2. overlapped' \subseteq ObsIds \X Iocs
    <3>1. Ioc(h) \in Iocs /\ job[h].obs \in ObsIds
      BY <1>7, AtIoc, Counts DEF IInv, Select
    <3>2. \A g \in Rivals(h) : job[g].obs \in ObsIds
      BY AtIoc, Counts DEF IInv, Rivals
    <3>3. overlapped' = IF Rivals(h) = {} THEN overlapped
                       ELSE overlapped \union {<<job[g].obs, Ioc(h)>> : g \in Rivals(h) \union {h}}
      BY <1>7 DEF Select, Ioc
    <3> QED BY <3>1, <3>2, <3>3 DEF IInv, Shelves
  <2>3. UNCHANGED <<index, drafts, orphaned>>
    BY <1>7 DEF Select, memory, store
  <2>4. Shelves'
    BY <1>2, <2>2, <2>3 DEF IInv, Shelves
  <2> QED BY <1>1, <1>4, <1>5, <2>1, <2>4 DEF IInv
<1>8. CASE Clash(h)
  <2>1. UNCHANGED <<index, drafts, orphaned, overlapped>> /\ pc[h] = "write" /\ pc'[h] = "idle"
    BY <1>8 DEF Clash, memory, store, history, Goto, IInv, Control
  <2>2. Shelves'
    BY <1>2, <2>1 DEF IInv, Shelves
  <2>3. Tale'
    BY <1>1, <1>2, <1>3, <1>6, <2>1, QuietTale DEF IInv
  <2> QED BY <1>1, <1>4, <1>5, <2>2, <2>3 DEF IInv
<1>9. CASE Judge(h)
  <2>1. UNCHANGED <<index, drafts, overlapped>> /\ orphaned' \subseteq orphaned
    BY <1>9 DEF Judge, memory, store
  <2>2. Shelves'
    BY <1>2, <2>1 DEF IInv, Shelves
  <2>3. Tale'
    BY <1>9, JudgeTale DEF IInv
  <2> QED BY <1>1, <1>4, <1>5, <2>2, <2>3 DEF IInv
<1>10. CASE RecordDraft(h)
  <2>1. /\ UNCHANGED <<index, orphaned, overlapped>> /\ pc[h] = "draft"
        /\ pc'[h] \in {"draft", "index"}
        /\ drafts' = drafts \union
               {[obs |-> job[h].obs, kind |-> Head(job[h].left), approved |-> FALSE]}
    BY <1>10 DEF RecordDraft, memory, history, Goto, AfterIocs, IInv, Control
  <2>2. Shelves'
    <3>1. job[h].obs \in ObsIds /\ Head(job[h].left) \in STRING
      BY <1>10, DraftControl DEF IInv
    <3>2. [obs |-> job[h].obs, kind |-> Head(job[h].left), approved |-> FALSE] \in Draft
      BY <3>1, Zenon DEF Draft
    <3>3. \A d \in drafts' : d \in Draft
      BY <2>1, <3>2 DEF IInv, Shelves
    <3> QED BY <1>2, <2>1, <3>3 DEF IInv, Shelves
  <2>3. Tale'
    BY <1>1, <1>2, <1>3, <1>6, <2>1, QuietTale DEF IInv
  <2> QED BY <1>1, <1>4, <1>5, <2>2, <2>3 DEF IInv
<1>11. CASE UpdateIndex(h)
  <2>1. /\ UNCHANGED <<drafts, orphaned, overlapped>> /\ pc[h] = "index" /\ pc'[h] = "idle"
        /\ index' = [index EXCEPT ![ProcessOf[h]] =
               @ \union {IocsOf[job[h].req][n] : n \in 1..Len(IocsOf[job[h].req])}]
    BY <1>11 DEF UpdateIndex, store, history, Goto, IInv, Control
  <2>2. Shelves'
    <3>1. Doing(pc[h], job[h])
      BY DEF IInv, Control
    <3>2. job[h].req \in Requests
      BY <2>1, <3>1, JobParts DEF Doing
    <3>3. IocsOf[job[h].req] \in Seq(Iocs)
      BY <3>2, IntelAssumption
    <3>4. \A n \in 1..Len(IocsOf[job[h].req]) : IocsOf[job[h].req][n] \in Iocs
      BY <3>3, ElementOfSeq
    <3>5. index' \in [Processes -> SUBSET Iocs]
      <4> DEFINE mine == {IocsOf[job[h].req][n] : n \in 1..Len(IocsOf[job[h].req])}
      <4>1. mine \subseteq Iocs
        BY <3>4
      <4>2. index' = [index EXCEPT ![ProcessOf[h]] = @ \union mine]
        BY <2>1
      <4> HIDE DEF mine
      <4> QED BY <4>1, <4>2, IntelAssumption DEF IInv, Shelves
    <3> QED BY <1>2, <2>1, <3>5 DEF IInv, Shelves
  <2>3. Tale'
    BY <1>1, <1>2, <1>3, <1>6, <2>1, QuietTale DEF IInv
  <2> QED BY <1>1, <1>4, <1>5, <2>2, <2>3 DEF IInv
<1> QED BY <1>7, <1>8, <1>9, <1>10, <1>11

LEMMA RecordStep ==
    ASSUME IInv, NEW h \in Handlers, Record(h)
    PROVE  IInv'
<1>1. /\ UNCHANGED <<now, memory, rows, drafts, client, events, history>>
      /\ pc[h] = "record" /\ pc'[h] \in {"select", "draft", "index"}
      /\ \A g \in Handlers : g # h => pc'[g] = pc[g] /\ job'[g] = job[g]
  BY DEF Record, Goto, AfterIocs, IInv, Control
<1>2. /\ Control' /\ Len(observations') = Len(observations) + 1
      /\ \A n \in 1..Len(observations) : observations'[n] = observations[n]
  BY RecordControl DEF IInv
<1>3. Longer /\ now <= now' /\ now' \in Times /\ now' >= now
  BY <1>1, <1>2, Counts, IntelAssumption DEF Longer, IInv, Control, Times
<1>4. Shelves'
  BY <1>1 DEF IInv, Shelves, memory, client, history
<1>5. Tale'
  BY <1>1, <1>2, <1>3, QuietTale DEF IInv, history
<1>6. Memory'
  BY RecordMemory DEF IInv
<1>7. Caught'
  BY <1>1, <1>3, QuietClient DEF IInv, client, history
<1> QED BY <1>2, <1>4, <1>5, <1>6, <1>7 DEF IInv

\* The steps of a handler that write a row.
LEMMA WriteStep ==
    ASSUME IInv, NEW h \in Handlers, Update(h) \/ Insert(h)
    PROVE  IInv'
<1>1. /\ UNCHANGED <<now, memory, observations, drafts, job, client, events, overlapped,
                      orphaned, manual, forgot>>
      /\ pc[h] = "write" /\ pc' = [pc EXCEPT ![h] = "judge"]
      /\ learned' = learned \union {<<job[h].obs, Ioc(h)>>}
      /\ late' = Written(Ioc(h), job[h].stamp)
  BY DEF Update, Insert, Goto, Ioc
<1>2. Control'
  BY WriteControl DEF IInv
<1>3. /\ Tale' /\ rows' \in [Iocs -> SUBSET Row]
      /\ \E new \in Row : rows' = [rows EXCEPT ![Ioc(h)] = {new}] /\ new.seen = job[h].stamp
  BY UpdateTale, InsertTale DEF IInv
<1>4. PICK new \in Row : rows' = [rows EXCEPT ![Ioc(h)] = {new}] /\ new.seen = job[h].stamp
  BY <1>3
<1>5. Ioc(h) \in Iocs /\ job[h].obs \in ObsIds /\ job[h].stamp \in Times
  BY <1>1, AtIoc, Counts, JobParts DEF IInv
<1>6. rows'[Ioc(h)] = {new} /\ \A k \in Iocs : k # Ioc(h) => rows'[k] = rows[k]
  BY <1>4, <1>5 DEF IInv, Shelves
<1>7. Shelves'
  <2>1. \A i \in Iocs : \A r, s \in rows'[i] : r = s
    BY <1>5, <1>6 DEF IInv, Shelves
  <2>2. learned' \subseteq ObsIds \X Iocs /\ late' \subseteq Iocs
    BY <1>1, <1>5 DEF IInv, Shelves, Written
  <2> QED BY <1>1, <1>3, <2>1, <2>2 DEF IInv, Shelves, memory, client
<1>8. Memory'
  <2>1. Recorders' \subseteq Recorders
    BY <1>1 DEF Recorders, IInv, Control
  <2>2. Keeping
    <3>1. now' \in Times /\ now' >= now
      BY <1>1, IntelAssumption DEF IInv, Control, Times
    <3> QED BY <1>1, <3>1, KeepingSame DEF IInv, memory
  <2> QED BY <1>1, <2>1, <2>2, QuietMemory DEF IInv
<1>9. Caught'
  <2>1. PICK i \in Iocs, t \in Times : i = Ioc(h) /\ t = job[h].stamp
    BY <1>5
  <2>2. \A r \in rows'[i] : r.seen = t
    BY <1>4, <1>6, <2>1
  <2> QED BY <1>1, <1>3, <1>6, <2>1, <2>2, WriteClient DEF IInv, client
<1> QED BY <1>2, <1>3, <1>7, <1>8, <1>9 DEF IInv

\* The steps that approve a row.
LEMMA StampClient ==
    ASSUME Control, Shelves, Caught, NEW i \in Iocs, UNCHANGED <<mark, known, cut, now>>,
           rows' = [rows EXCEPT ![i] = {[r EXCEPT !.approved = TRUE] : r \in rows[i]}],
           late' = Written(i, RowOf(i).seen), rows[i] # {}
    PROVE  Caught'
<1>1. /\ rows' \in [Iocs -> SUBSET Row]
      /\ \A k \in Iocs : k # i => rows'[k] = rows[k]
      /\ \A s \in rows'[i] : \E r \in rows[i] : Alike(r, s)
  BY Stamping
<1>2. RowOf(i) \in rows[i] /\ RowOf(i) \in Row
  BY DEF RowOf, Shelves
<1>3. PICK t \in Times : t = RowOf(i).seen
  BY <1>2, RowParts
<1>4. \A s \in rows'[i] : s.seen = t
  BY <1>1, <1>2, <1>3 DEF Alike, Shelves
<1> QED BY <1>1, <1>3, <1>4, WriteClient

LEMMA PromoteStep ==
    ASSUME IInv, NEW h \in Handlers, Promote(h)
    PROVE  IInv'
<1>1. /\ UNCHANGED <<now, memory, observations, drafts, client, events, learned, overlapped,
                      orphaned, manual, forgot>>
      /\ pc[h] = "promote" /\ pc'[h] # "record"
      /\ \A g \in Handlers : g # h => pc'[g] = pc[g] /\ job'[g] = job[g]
      /\ rows' = [rows EXCEPT ![Ioc(h)] = {[r EXCEPT !.approved = TRUE] : r \in rows[Ioc(h)]}]
      /\ late' = Written(Ioc(h), RowOf(Ioc(h)).seen)
  BY DEF Promote, Goto, Ioc, AfterIocs, IInv, Control
<1>2. Control' /\ Tale'
  BY PromoteControl, PromoteTale DEF IInv
<1>3. PICK i \in Iocs : i = Ioc(h)
  BY <1>1, AtIoc DEF IInv
<1>4. rows' = [rows EXCEPT ![i] = {[r EXCEPT !.approved = TRUE] : r \in rows[i]}]
  BY <1>1, <1>3
<1>5. rows[i] # {}
  BY <1>1, <1>3 DEF IInv, Tale, Promoting
<1>6. Shelves'
  <2>1. rows' \in [Iocs -> SUBSET Row] /\ \A k \in Iocs : \A r, s \in rows'[k] : r = s
    BY <1>4, Stamping DEF IInv
  <2>2. late' \subseteq Iocs
    BY <1>1, <1>3 DEF Written, IInv, Shelves
  <2> QED BY <1>1, <2>1, <2>2 DEF IInv, Shelves, memory, client
<1>7. Memory'
  <2>1. Recorders' \subseteq Recorders /\ \A g \in Recorders' : job'[g] = job[g]
    BY <1>1 DEF Recorders
  <2>2. Keeping
    <3>1. now' \in Times /\ now' >= now
      BY <1>1, IntelAssumption DEF IInv, Control, Times
    <3> QED BY <1>1, <3>1, KeepingSame DEF IInv, memory
  <2> QED BY <1>1, <2>1, <2>2, QuietMemory DEF IInv
<1>8. Caught'
  <2>1. late' = Written(i, RowOf(i).seen)
    BY <1>1, <1>3
  <2> QED BY <1>1, <1>4, <1>5, <2>1, StampClient DEF IInv, client
<1> QED BY <1>2, <1>6, <1>7, <1>8 DEF IInv

LEMMA ReceiveStep ==
    ASSUME IInv, NEW h \in Handlers, NEW r \in Requests, Receive(h, r)
    PROVE  IInv'
<1>1. /\ UNCHANGED <<now, index, store, client, learned, overlapped, orphaned, manual, late>>
      /\ forgot' \subseteq forgot \union {ProcessOf[h]} /\ pc[h] = "idle"
  BY DEF Receive
<1>2. Control' /\ Memory' /\ nonces' \in [Processes -> Seq(Entry)]
  BY ReceiveMemory DEF IInv
<1>3. Longer /\ now <= now' /\ now' \in Times /\ now' >= now
  BY <1>1, Counts, IntelAssumption DEF Longer, IInv, Control, Times, store
<1>4. \A g \in Handlers : (pc'[g] = pc[g] /\ job'[g] = job[g]) \/ (pc[g] = "idle" /\ pc'[g] = "record")
  <2>1. CASE UNCHANGED handlers
    BY <2>1 DEF handlers
  <2>2. CASE pc' = [pc EXCEPT ![h] = "record"]
    <3>1. pc' # pc
      BY <1>1, <2>2 DEF IInv, Control
    <3> QED BY <1>1, <3>1, ReceiveControl DEF IInv
  <2> QED BY <2>1, <2>2 DEF Receive, Goto
<1>5. Shelves'
  <2>1. forgot' \subseteq Processes
    BY <1>1, IntelAssumption DEF IInv, Shelves
  <2> QED BY <1>1, <1>2, <2>1 DEF IInv, Shelves, store, client
<1>6. Tale'
  BY <1>1, <1>2, <1>3, <1>4, QuietTale DEF IInv, store
<1>7. Caught'
  BY <1>1, <1>3, QuietClient DEF IInv, store, client
<1> QED BY <1>2, <1>5, <1>6, <1>7 DEF IInv

\* Faults: what they leave undecided is written down.
LEMMA FaultStep ==
    ASSUME IInv, (\E h \in Handlers : Fail(h)) \/ (\E p \in Processes : Restart(p))
    PROVE  IInv'
<1>1. CASE \E h \in Handlers : Fail(h)
  <2>1. PICK h \in Handlers : Fail(h)
    BY <1>1
  <2>2. /\ UNCHANGED <<now, memory, store, client, learned, overlapped, manual, late, forgot>>
        /\ orphaned' = orphaned \union Undecided({h}) /\ pc'[h] = "idle"
        /\ \A g \in Handlers : g # h => pc'[g] = pc[g] /\ job'[g] = job[g]
    BY <2>1 DEF Fail, Goto, IInv, Control
  <2>3. Control'
    BY <2>1, EndControl DEF IInv
  <2>4. Longer /\ now <= now' /\ now' \in Times /\ now' >= now
    BY <2>2, Counts, IntelAssumption DEF Longer, IInv, Control, Times, store
  <2>5. Shelves'
    <3>1. orphaned' \subseteq Iocs
      BY <2>2, UndecidedIocs DEF IInv, Shelves
    <3> QED BY <2>2, <3>1 DEF IInv, Shelves, memory, store, client
  <2>6. pc[h] \in {"judge", "promote"} => Ioc(h) \in orphaned'
    BY <2>2 DEF Undecided, Ioc
  <2>7. Tale'
    BY <2>2, <2>3, <2>4, <2>6, QuietTale DEF IInv, store
  <2>8. Memory'
    <3>1. Recorders' \subseteq Recorders /\ \A g \in Recorders' : job'[g] = job[g]
      BY <2>2 DEF Recorders
    <3>2. Keeping
      BY <2>2, <2>4, KeepingSame DEF IInv, memory
    <3> QED BY <2>2, <3>1, <3>2, QuietMemory DEF IInv, store
  <2>9. Caught'
    BY <2>2, <2>4, QuietClient DEF IInv, store, client
  <2> QED BY <2>3, <2>5, <2>7, <2>8, <2>9 DEF IInv
<1>2. CASE \E p \in Processes : Restart(p)
  <2>1. PICK p \in Processes : Restart(p)
    BY <1>2
  <2> DEFINE mine == {h \in Handlers : ProcessOf[h] = p}
  <2>2. /\ UNCHANGED <<now, store, client, learned, overlapped, manual, late>>
        /\ orphaned' = orphaned \union Undecided(mine)
        /\ nonces' = [nonces EXCEPT ![p] = <<>>] /\ index' = [index EXCEPT ![p] = {}]
        /\ forgot' = forgot \union {p}
        /\ pc' = [h \in Handlers |-> IF h \in mine THEN "idle" ELSE pc[h]]
        /\ job' = [h \in Handlers |-> IF h \in mine THEN NoJob ELSE job[h]]
    BY <2>1 DEF Restart
  <2>3. /\ Control'
        /\ \A h \in Handlers : pc'[h] # "idle" => pc'[h] = pc[h] /\ job'[h] = job[h]
    BY <2>1, RestartControl DEF IInv
  <2>4. Longer /\ now <= now' /\ now' \in Times /\ now' >= now
    BY <2>2, Counts, IntelAssumption DEF Longer, IInv, Control, Times, store
  <2>5. Shelves'
    <3>1. orphaned' \subseteq Iocs
      BY <2>2, UndecidedIocs DEF IInv, Shelves
    <3>2. nonces' \in [Processes -> Seq(Entry)] /\ index' \in [Processes -> SUBSET Iocs]
      BY <2>2, EmptySeq DEF IInv, Shelves
    <3>3. forgot' \subseteq Processes
      BY <2>2 DEF IInv, Shelves
    <3> QED BY <2>2, <3>1, <3>2, <3>3 DEF IInv, Shelves, store, client
  <2>6. \A h \in mine : pc[h] \in {"judge", "promote"} => Ioc(h) \in orphaned'
    BY <2>2 DEF Undecided, Ioc
  <2>7. \A h \in Handlers : pc[h] \in {"judge", "promote"} =>
            (pc'[h] = pc[h] /\ job'[h] = job[h]) \/ Ioc(h) \in orphaned'
    BY <2>2, <2>6
  <2>8. \A h \in Handlers : pc'[h] \in {"write", "promote"} => pc'[h] = pc[h] /\ job'[h] = job[h]
    BY <2>3
  <2>9. Tale'
    BY <2>2, <2>3, <2>4, <2>7, <2>8, QuietTale DEF IInv, store
  <2>10. Memory'
    BY <2>1, RestartMemory DEF IInv
  <2>11. Caught'
    BY <2>2, <2>4, QuietClient DEF IInv, store, client
  <2> QED BY <2>3, <2>5, <2>9, <2>10, <2>11 DEF IInv
<1> QED BY <1>1, <1>2

LEMMA ApproveStep ==
    ASSUME IInv, NEW i \in Iocs, ApproveIoc(i)
    PROVE  IInv'
<1>1. /\ UNCHANGED <<now, memory, observations, drafts, handlers, client, learned, overlapped,
                      orphaned, forgot>>
      /\ manual' = manual \union {i} /\ rows[i] # {}
      /\ rows' = [rows EXCEPT ![i] = {[r EXCEPT !.approved = TRUE] : r \in rows[i]}]
      /\ late' = Written(i, RowOf(i).seen)
  BY DEF ApproveIoc
<1>2. Control' /\ Tale'
  BY ApproveTale DEF IInv
<1>3. Shelves'
  <2>1. rows' \in [Iocs -> SUBSET Row] /\ \A k \in Iocs : \A r, s \in rows'[k] : r = s
    BY <1>1, Stamping DEF IInv
  <2>2. late' \subseteq Iocs /\ manual' \subseteq Iocs
    BY <1>1 DEF Written, IInv, Shelves
  <2> QED BY <1>1, <2>1, <2>2 DEF IInv, Shelves, memory, client
<1>4. Memory'
  <2>1. Recorders' = Recorders /\ UNCHANGED job
    BY <1>1 DEF Recorders, handlers
  <2>2. Keeping
    <3>1. now' \in Times /\ now' >= now
      BY <1>1, IntelAssumption DEF IInv, Control, Times
    <3> QED BY <1>1, <3>1, KeepingSame DEF IInv, memory
  <2> QED BY <1>1, <2>1, <2>2, QuietMemory DEF IInv
<1>5. Caught'
  BY <1>1, StampClient DEF IInv, client
<1> QED BY <1>2, <1>3, <1>4, <1>5 DEF IInv

\* Approvals of drafts, the client and the clock.
LEMMA OutsideStep ==
    ASSUME IInv, \/ \E d \in drafts : ApproveRule(d)
                 \/ \E T \in Firsts(Eligible) : Pull(T)
                 \/ Tick
                 \/ UNCHANGED vars
    PROVE  IInv'
<1>1. /\ UNCHANGED <<memory, observations, rows, handlers, history>>
      /\ now' \in Times /\ now' >= now /\ events' \in events..MaxEvents
  <2>1. now \in Nat /\ now \in Times /\ events \in Nat /\ MaxEvents \in Nat /\ MaxTime \in Nat
        /\ events <= MaxEvents
    BY IntelAssumption DEF IInv, Control, Times
  <2>2. CASE \E d \in drafts : ApproveRule(d)
    BY <2>1, <2>2 DEF ApproveRule, Happens
  <2>3. CASE \E T \in Firsts(Eligible) : Pull(T)
    BY <2>1, <2>3 DEF Pull, store
  <2>4. CASE Tick
    BY <2>1, <2>4 DEF Tick, store, Times
  <2>5. CASE UNCHANGED vars
    BY <2>1, <2>5 DEF vars, store
  <2> QED BY <2>2, <2>3, <2>4, <2>5
<1>2. Control'
  BY <1>1, AsideControl DEF IInv, handlers
<1>3. Longer /\ now <= now'
  BY <1>1, Counts, IntelAssumption DEF Longer, IInv, Control, Times
<1>4. Tale'
  <2>1. \A h \in Handlers : pc'[h] = pc[h] /\ job'[h] = job[h]
    BY <1>1 DEF handlers
  <2> QED BY <1>1, <1>2, <1>3, <2>1, QuietTale DEF IInv, history
<1>5. Memory'
  <2>1. Recorders' = Recorders /\ UNCHANGED job
    BY <1>1 DEF Recorders, handlers
  <2>2. Keeping
    BY <1>1, KeepingSame DEF IInv, memory
  <2> QED BY <1>1, <2>1, <2>2, QuietMemory DEF IInv, history
<1>6. CASE \E T \in Firsts(Eligible) : Pull(T)
  <2>1. PICK T \in Firsts(Eligible) : Pull(T)
    BY <1>6
  <2>2. /\ Caught' /\ mark' \in Times /\ known' \subseteq Iocs /\ cut' \subseteq Iocs
    BY <2>1, PullClient DEF IInv
  <2>3. UNCHANGED drafts
    BY <2>1 DEF Pull, store
  <2>4. Shelves'
    BY <1>1, <2>2, <2>3 DEF IInv, Shelves, memory, history
  <2> QED BY <1>2, <1>4, <1>5, <2>2, <2>4 DEF IInv
<1>7. CASE UNCHANGED client
  <2>1. Caught'
    BY <1>1, <1>7, QuietClient DEF IInv, client, history
  <2>2. \A d \in drafts' : d \in Draft
    <3>1. CASE UNCHANGED drafts
      BY <3>1 DEF IInv, Shelves
    <3>2. CASE \E d \in drafts : ApproveRule(d)
      <4>1. PICK d \in drafts : drafts' = (drafts \ {d}) \union {[d EXCEPT !.approved = TRUE]}
        BY <3>2 DEF ApproveRule
      <4>2. d \in Draft
        BY DEF IInv, Shelves
      <4>3. [d EXCEPT !.approved = TRUE] \in Draft
        BY <4>2 DEF Draft
      <4> QED BY <4>1, <4>3 DEF IInv, Shelves
    <3>3. CASE (\E T \in Firsts(Eligible) : Pull(T)) \/ Tick \/ UNCHANGED vars
      BY <3>1, <3>3 DEF Pull, Tick, vars, store
    <3> QED BY <3>2, <3>3
  <2>3. Shelves'
    BY <1>1, <1>7, <2>2 DEF IInv, Shelves, memory, history, client
  <2> QED BY <1>2, <1>4, <1>5, <2>1, <2>3 DEF IInv
<1> QED
  BY <1>6, <1>7 DEF ApproveRule, Tick, vars

LEMMA NextIInv ==
    ASSUME IInv, [Next]_vars
    PROVE  IInv'
<1>1. CASE \E h \in Handlers : Handle(h)
  BY <1>1, RecordStep, HandlerStep, WriteStep, PromoteStep DEF Handle
<1>2. CASE \E h \in Handlers : Fail(h)
  BY <1>2, FaultStep
<1>3. CASE \E h \in Handlers, r \in Requests : Receive(h, r)
  BY <1>3, ReceiveStep
<1>4. CASE \E p \in Processes : Restart(p)
  BY <1>4, FaultStep
<1>5. CASE \E i \in Iocs : ApproveIoc(i)
  BY <1>5, ApproveStep
<1>6. CASE \E d \in drafts : ApproveRule(d)
  BY <1>6, OutsideStep
<1>7. CASE \E T \in Firsts(Eligible) : Pull(T)
  BY <1>7, OutsideStep
<1>8. CASE Tick \/ UNCHANGED vars
  BY <1>8, OutsideStep
<1> QED
  BY <1>1, <1>2, <1>3, <1>4, <1>5, <1>6, <1>7, <1>8 DEF Next

LEMMA Invariance == Spec => []IInv
<1>1. Init => IInv
  BY InitIInv
<1>2. IInv /\ [Next]_vars => IInv'
  BY NextIInv
<1> QED
  BY <1>1, <1>2, PTL DEF Spec

----------------------------------------------------------------------------
(* Theorems *)

\* The store, the memory of each process and the client stay of their types.
THEOREM TypeCorrect == Spec => []TypeOK
<1>1. IInv => TypeOK
  BY IInvImplies
<1> QED BY <1>1, Invariance, PTL

\* However upserts interleave, fail or are lost, the columns of a row of learned_iocs
\* tell the same story (upsert_ioc).
THEOREM RowsAreTheirSources == Spec => []RowIsItsSources
<1>1. IInv => RowIsItsSources
  BY IInvImplies
<1> QED BY <1>1, Invariance, PTL

\* An upsert that returned is lost only to one that read the row before it was
\* written (the two transactions of upsert_ioc).
THEOREM LostUpsertOverlapped == Spec => []CountedUnlessOverlapped
<1>1. IInv => CountedUnlessOverlapped
  BY IInvImplies
<1> QED BY <1>1, Invariance, PTL

\* The status of an indicator is that of its evidence, but for the named exceptions
\* (auto_promote).
THEOREM ApprovedWhenDue == Spec => []ApprovedIffDue
<1>1. IInv => ApprovedIffDue
  BY IInvImplies
<1> QED BY <1>1, Invariance, PTL

\* For any number of handlers in a process and any cache size: an alert recorded
\* twice by a process was forgotten or dated ahead (check_hmac, _nonce_seen).
THEOREM DuplicatesExplained == Spec => []DuplicateHasCause
<1>1. IInv => DuplicateHasCause
  BY IInvImplies
<1> QED BY <1>1, Invariance, PTL

\* What a client will not be sent was written late or cut by the limit
\* (handle_iocs_export).
THEOREM MissesExplained == Spec => []MissHasCause
<1>1. IInv => MissHasCause
  BY IInvImplies
<1> QED BY <1>1, Invariance, PTL
============================================================================
