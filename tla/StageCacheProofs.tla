-------------------------- MODULE StageCacheProofs --------------------------
(***************************************************************************)
(* Theorems about the comparison of releases and the cache it shares with  *)
(* the other stages, for releases of any size and any number of processes, *)
(* archives, calls and events: whatever is stored and found, a call goes   *)
(* on with results of its own archive, and a diff that is reused says what *)
(* a fresh one would.                                                      *)
(***************************************************************************)
EXTENDS StageCache, TLAPS

----------------------------------------------------------------------------
(* The comparisons of a release with its predecessors (VersionDiff) *)

\* What the theorem assumes of a release: it calls APIs of the catalog, and its
\* entry files are files.
IsRelease(r) ==
    /\ r.files \in [DOMAIN r.files -> SUBSET Apis]
    /\ r.entry \subseteq DOMAIN r.files

LEMMA Classified ==
    ASSUME NEW dims
    PROVE  ClassifySeverity(dims) \in {"LOW", "MEDIUM", "HIGH"}
BY DEF ClassifySeverity

\* More dimensions never lower the severity, and both classifiers agree.
LEMMA Monotone ==
    ASSUME NEW few, NEW many, few \subseteq many
    PROVE  order[ClassifyRisk(few)] <= order[ClassifySeverity(many)]
<1>1. CASE ClassifyRisk(few) = "HIGH"
  <2>1. PICK pair \in {<<"DATA_TRANSMISSION", "INFORMATION_READING">>,
                       <<"DATA_TRANSMISSION", "ENCODING">>,
                       <<"PAYLOAD_EXECUTION", "ENCODING">>,
                       <<"PAYLOAD_EXECUTION", "DATA_TRANSMISSION">>} :
                pair[1] \in few /\ pair[2] \in few
    BY <1>1 DEF ClassifyRisk
  <2>2. {pair[1], pair[2]} \in HighCombos
    BY <2>1 DEF HighCombos
  <2>3. {pair[1], pair[2]} \subseteq many
    BY <2>1
  <2>4. ClassifySeverity(many) = "HIGH"
    BY <2>2, <2>3 DEF ClassifySeverity
  <2> QED
    BY <1>1, <2>4 DEF order
<1>2. CASE ClassifyRisk(few) = "MEDIUM"
  <2>1. many \intersect {"PAYLOAD_EXECUTION", "DATA_TRANSMISSION"} # {}
    BY <1>2 DEF ClassifyRisk
  <2>2. ClassifySeverity(many) \in {"MEDIUM", "HIGH"}
    BY <2>1 DEF ClassifySeverity
  <2> QED
    BY <1>2, <2>2 DEF order
<1>3. CASE ClassifyRisk(few) = "LOW"
  BY <1>3, Classified DEF order
<1>4. ClassifyRisk(few) \in {"LOW", "MEDIUM", "HIGH"}
  BY DEF ClassifyRisk
<1> QED
  BY <1>1, <1>2, <1>3, <1>4

\* A call that is new to the entry files is new to the file that makes it.
LEMMA NewEntryApiIsNew ==
    ASSUME NEW prev, NEW cur, IsRelease(prev), IsRelease(cur),
           cur.entry \intersect FilesOf(prev) \subseteq prev.entry,
           NEW api \in EntryApis(cur), api \notin EntryApis(prev)
    PROVE  api \in NewApis(prev, cur)
<1>1. PICK path \in cur.entry : api \in cur.files[path]
  BY DEF EntryApis
<1>2. path \in FilesOf(cur)
  BY <1>1 DEF IsRelease, FilesOf
<1>3. api \notin CallsOf(prev, path)
  <2>1. CASE path \in FilesOf(prev)
    <3>1. path \in prev.entry
      BY <1>1, <2>1
    <3>2. api \notin prev.files[path]
      BY <3>1 DEF EntryApis
    <3> QED
      BY <2>1, <3>2 DEF CallsOf
  <2>2. CASE path \notin FilesOf(prev)
    BY <2>2 DEF CallsOf
  <2> QED
    BY <2>1, <2>2
<1>4. api \in NewApisIn(prev, cur, path)
  BY <1>1, <1>3 DEF NewApisIn
<1> QED
  BY <1>2, <1>4 DEF NewApis

\* Replacing the package-wide comparison of entry files by the file-by-file one
\* with the previous release only lost nothing, for all releases.
THEOREM Dominance ==
    ASSUME NEW prev, NEW earlier, NEW cur, NEW manifests \in BOOLEAN,
           IsRelease(prev), IsRelease(cur)
    PROVE  FilesDominatePackage(prev, earlier, cur, manifests)
<1> SUFFICES ASSUME prev \in earlier, cur.shell = {},
                    cur.entry \intersect FilesOf(prev) \subseteq prev.entry
             PROVE  order[PackageWideRisk(earlier, cur)]
                    <= order[OverallSeverity(prev, cur, manifests)]
  BY DEF FilesDominatePackage
<1> DEFINE seen == EntryApis(cur) \ UNION {EntryApis(r) : r \in earlier}
<1>1. PackageWideDims(earlier, cur) = DimensionsOf(seen)
  BY DEF PackageWideDims
<1>2. seen \subseteq NewApis(prev, cur)
  BY NewEntryApiIsNew
<1>3. DimensionsOf(seen) \subseteq DimensionsOf(NewApis(prev, cur))
  BY <1>2 DEF DimensionsOf
<1> DEFINE severity == ClassifySeverity(DimensionsOf(NewApis(prev, cur)))
<1>4. order[PackageWideRisk(earlier, cur)] <= order[severity]
  BY <1>1, <1>3, Monotone DEF PackageWideRisk
<1>5. order[severity] <= order[OverallSeverity(prev, cur, manifests)]
  <2>1. severity \in {"LOW", "MEDIUM", "HIGH"}
    BY Classified
  <2>2. OverallSeverity(prev, cur, manifests) \in {severity, Raised(severity)}
    BY DEF OverallSeverity
  <2> QED
    BY <2>1, <2>2 DEF Raised, order
<1>6. /\ order[PackageWideRisk(earlier, cur)] \in Int
      /\ order[severity] \in Int
      /\ order[OverallSeverity(prev, cur, manifests)] \in Int
  <2>1. PackageWideRisk(earlier, cur) \in {"LOW", "MEDIUM", "HIGH"}
    BY DEF PackageWideRisk, ClassifyRisk
  <2>2. severity \in {"LOW", "MEDIUM", "HIGH"}
    BY Classified
  <2>3. OverallSeverity(prev, cur, manifests) \in {"LOW", "MEDIUM", "HIGH"}
    BY <2>2 DEF OverallSeverity, Raised
  <2> QED
    BY <2>1, <2>2, <2>3 DEF order
<1> QED
  BY <1>4, <1>5, <1>6

----------------------------------------------------------------------------
(* What is stored and found (StageCache) *)

\* Each upgrade is an event of its own.
CodeIsCounted == \A m \in Modules : disk[m] <= events + 1

\* A row is filed under the archive its result was made from.
RowsAreOwn == \A r \in rows : r.payload.of = r.archive

IInv == TypeOK /\ CodeIsCounted /\ RowsAreOwn /\ ResultsAreOwn

Key(r) == <<r.release, r.stage, r.version>>
Used == [Stages -> SUBSET [result : Result, outlived : BOOLEAN]]

LEMMA VersionsAreCodes ==
    ASSUME TypeOK, NEW stage \in Stages
    PROVE  StageVersion(stage) \in Codes
<1>1. 1 \in 1..(MaxEvents + 1)
  BY StageCacheAssumption
<1> QED
  BY <1>1 DEF TypeOK, StageVersion, Codes, Modules

LEMMA ComputedIsResult ==
    ASSUME IInv, NEW p \in Processes
    PROVE  /\ Computed(p) \in Result
           /\ Computed(p).of = call[p].archive
           /\ Computed(p).by = loaded[p]
BY DEF IInv, TypeOK, Computed, Result

\* A row put replaces the one of its key.
LEMMA Storing ==
    ASSUME IInv, NEW p \in Processes, NEW stage \in Stages, NEW result \in Result,
           result.of = call[p].archive, rows' = Stored(RowFor(p, stage, result))
    PROVE  /\ rows' \subseteq Row
           /\ \A r, s \in rows' : r # s => Key(r) # Key(s)
           /\ RowsAreOwn'
<1> DEFINE row == RowFor(p, stage, result)
<1>1. row \in Row
  BY VersionsAreCodes DEF RowFor, Row, IInv, TypeOK
<1>2. row.payload.of = row.archive
  BY DEF RowFor
<1> HIDE DEF row
<1>3. rows' = {r \in rows : Key(r) # Key(row)} \union {row}
  BY DEF Stored, Key, row
<1>4. rows' \subseteq Row
  BY <1>1, <1>3 DEF IInv, TypeOK
<1>5. \A r, s \in rows' : r # s => Key(r) # Key(s)
  BY <1>3 DEF IInv, TypeOK, Key
<1>6. RowsAreOwn'
  BY <1>2, <1>3 DEF IInv, RowsAreOwn
<1> QED
  BY <1>4, <1>5, <1>6

\* A result of its own archive and by its own code is one a call may go on with.
LEMMA Using ==
    ASSUME IInv, NEW p \in Processes, NEW stage \in Stages,
           NEW result \in Result, NEW outlived \in BOOLEAN,
           result.of = call[p].archive,
           outlived \/ ~Older(result.by, loaded[p], stage),
           Use(p, stage, result, outlived), UNCHANGED <<call, loaded>>
    PROVE  used' \in [Processes -> Used] /\ ResultsAreOwn'
<1> DEFINE u == [result |-> result, outlived |-> outlived]
<1>1. used \in [Processes -> Used]
  BY DEF IInv, TypeOK, Used
<1>2. {u} \in SUBSET [result : Result, outlived : BOOLEAN]
  OBVIOUS
<1>3. used' = [used EXCEPT ![p][stage] = {u}]
  BY DEF Use
<1>4. used' \in [Processes -> Used]
  BY <1>1, <1>2, <1>3 DEF Used
<1>5. ASSUME NEW q \in Processes, NEW s \in Stages, NEW x \in used'[q][s]
      PROVE  x.result.of = call[q].archive /\ (x.outlived \/ ~Older(x.result.by, loaded[q], s))
  <2>1. CASE q = p /\ s = stage
    <3>1. x = u
      BY <1>1, <1>3, <2>1 DEF Used
    <3> QED
      BY <2>1, <3>1
  <2>2. CASE ~(q = p /\ s = stage)
    <3>1. x \in used[q][s]
      BY <1>1, <1>3, <2>2 DEF Used
    <3> QED
      BY <3>1 DEF IInv, ResultsAreOwn
  <2> QED
    BY <2>1, <2>2
<1> QED
  BY <1>4, <1>5 DEF ResultsAreOwn, Older

LEMMA Found1 ==
    ASSUME IInv, NEW p \in Processes, NEW stage \in Stages, NEW r \in Lookup(p, stage)
    PROVE  /\ r \in rows /\ r.payload \in Result /\ r.payload.of = call[p].archive
           /\ r.version = StageVersion(stage)
<1>1. r \in Found(call[p].release, stage, call[p].archive)
  BY DEF Lookup
<1>2. call[p].archive # NoArchive
  BY StageCacheAssumption DEF IInv, TypeOK
<1>3. r \in rows /\ r.archive = call[p].archive /\ r.version = StageVersion(stage)
  BY <1>1, <1>2 DEF Found
<1> QED
  BY <1>3 DEF IInv, TypeOK, RowsAreOwn, Row

Pcs == {"idle", "get_behavior", "put_behavior", "get_diff", "load_previous", "put_diff",
        "get_indicators", "put_indicators", "done"}

LEMMA Getting ==
    ASSUME IInv, NEW p \in Processes, NEW stage \in Stages, NEW hit \in Pcs, NEW miss \in Pcs,
           Get(p, stage, hit, miss)
    PROVE  IInv'
<1>0. UNCHANGED <<served, disk, rows, call, loaded, analysed, moved, failed, calls, events>>
  BY DEF Get, history, budget
<1>1. pc' \in [Processes -> Pcs]
  BY DEF Get, Goto, IInv, TypeOK, Pcs
<1>2. CodeIsCounted' /\ RowsAreOwn'
  BY <1>0 DEF IInv, CodeIsCounted, RowsAreOwn
<1>3. used' \in [Processes -> Used] /\ ResultsAreOwn'
  <2>1. CASE UNCHANGED used
    BY <1>0, <2>1 DEF IInv, TypeOK, Used, ResultsAreOwn, Older
  <2>2. ASSUME NEW r \in Lookup(p, stage),
               Use(p, stage, r.payload, \/ Older(r.payload.by, r.version, stage)
                                        \/ Older(loaded[p], disk, stage))
        PROVE  used' \in [Processes -> Used] /\ ResultsAreOwn'
    <3> DEFINE outlived == \/ Older(r.payload.by, r.version, stage)
                           \/ Older(loaded[p], disk, stage)
    <3>1. outlived \in BOOLEAN
      BY DEF Older
    <3>2. r.payload \in Result /\ r.payload.of = call[p].archive /\ r.version = StageVersion(stage)
      BY Found1
    <3>3. StageDeps[stage] \subseteq Modules
      BY DEF StageDeps, Stages, Modules
    <3>4. \A m \in StageDeps[stage] : r.version[m] = disk[m]
      BY <3>2, <3>3 DEF StageVersion
    <3>5. outlived \/ ~Older(r.payload.by, loaded[p], stage)
      BY <3>4 DEF Older
    <3> QED
      BY <1>0, <2>2, <3>1, <3>2, <3>5, Using
  <2> QED
    BY <2>1, <2>2 DEF Get
<1> QED
  BY <1>0, <1>1, <1>2, <1>3 DEF IInv, TypeOK, Used, Pcs

\* A stage that fails leaves everything but the place where the call goes on.
LEMMA Breaking ==
    ASSUME IInv, NEW p \in Processes, NEW next \in Pcs, Broken(p, next)
    PROVE  IInv'
<1>1. pc' \in [Processes -> Pcs]
  BY DEF Broken, Goto, IInv, TypeOK, Pcs
<1>2. UNCHANGED <<served, disk, rows, call, loaded, used, analysed, moved, failed, calls>>
  BY DEF Broken, history
<1>3. events' = events + 1 /\ events' \in 0..MaxEvents
  BY StageCacheAssumption DEF Broken, Event, IInv, TypeOK
<1>4. CodeIsCounted'
  BY <1>2, <1>3 DEF CodeIsCounted, IInv, TypeOK, Codes
<1> QED
  BY <1>1, <1>2, <1>3, <1>4 DEF IInv, TypeOK, Pcs, RowsAreOwn, ResultsAreOwn, Older

LEMMA Initially == Init => IInv
<1> SUFFICES ASSUME Init PROVE IInv
  OBVIOUS
<1>1. MaxEvents \in Nat /\ MaxCalls \in Nat
  BY StageCacheAssumption
<1>2. disk \in Codes /\ \A m \in Modules : disk[m] = 1
  BY <1>1 DEF Init, Codes
<1>3. served \in [ReleaseSet -> Archives]
  BY DEF Init
<1>4. call \in [Processes -> [release : ReleaseSet, option : Options, archive : Archives]]
  BY <1>3 DEF Init, ReleaseSet, Options
<1>5. used \in [Processes -> Used] /\ \A p \in Processes, s \in Stages : used[p][s] = {}
  BY DEF Init, Nothing, Used
<1>6. loaded \in [Processes -> Codes] /\ pc \in [Processes -> Pcs]
  BY <1>2 DEF Init, Pcs
<1>7. rows = {} /\ calls \in 0..MaxCalls /\ events = 0 /\ events \in 0..MaxEvents
  BY <1>1 DEF Init
<1>8. analysed \subseteq ReleaseSet /\ moved \in BOOLEAN /\ failed \in BOOLEAN
  BY DEF Init
<1>9. TypeOK
  BY <1>2, <1>3, <1>4, <1>5, <1>6, <1>7, <1>8 DEF TypeOK, Used, Pcs
<1> QED
  BY <1>2, <1>5, <1>7, <1>9 DEF IInv, CodeIsCounted, RowsAreOwn, ResultsAreOwn

\* Using a result that was just computed.
LEMMA Computing ==
    ASSUME IInv, NEW p \in Processes, NEW stage \in Stages, NEW result \in Result,
           result.of = call[p].archive, result.by = loaded[p],
           Use(p, stage, result, FALSE), UNCHANGED <<call, loaded>>
    PROVE  used' \in [Processes -> Used] /\ ResultsAreOwn'
<1>1. ~Older(result.by, loaded[p], stage)
  BY DEF Older
<1> QED
  BY <1>1, Using

LEMMA PuttingBehavior ==
    ASSUME IInv, NEW p \in Processes, PutBehavior(p)
    PROVE  IInv'
<1>1. CASE Broken(p, "done")
  BY <1>1, Breaking DEF Pcs
<1>2. CASE ~Broken(p, "done")
  <2>1. /\ Use(p, "behavior", Computed(p), FALSE) /\ Goto(p, "get_diff")
        /\ UNCHANGED <<served, disk, call, loaded, moved, failed, calls, events>>
        /\ \/ UNCHANGED <<rows, analysed>>
           \/ /\ rows' = Stored(RowFor(p, "behavior", Computed(p)))
              /\ analysed' = analysed \union {call[p].release}
    BY <1>2 DEF PutBehavior, budget
  <2>2. used' \in [Processes -> Used] /\ ResultsAreOwn'
    BY <2>1, Computing, ComputedIsResult DEF Stages
  <2>3. /\ rows' \subseteq Row
        /\ \A r, s \in rows' : r # s => Key(r) # Key(s)
        /\ RowsAreOwn'
    <3>1. CASE UNCHANGED rows
      BY <3>1 DEF IInv, TypeOK, RowsAreOwn, Key
    <3>2. CASE rows' = Stored(RowFor(p, "behavior", Computed(p)))
      BY <3>2, Storing, ComputedIsResult DEF Stages
    <3> QED
      BY <2>1, <3>1, <3>2
  <2>4. analysed' \subseteq ReleaseSet
    BY <2>1 DEF IInv, TypeOK
  <2>5. pc' \in [Processes -> Pcs]
    BY <2>1 DEF Goto, IInv, TypeOK, Pcs
  <2> QED
    BY <2>1, <2>2, <2>3, <2>4, <2>5 DEF IInv, TypeOK, Used, Pcs, Key, CodeIsCounted
<1> QED
  BY <1>1, <1>2

\* A later stage is done: its row, if any, is stored, and the call goes on.
LEMMA Putting ==
    ASSUME IInv, NEW p \in Processes, NEW stage \in Stages, NEW result \in Result,
           NEW next \in Pcs, result.of = call[p].archive, Put(p, stage, result, next),
           used' \in [Processes -> Used], ResultsAreOwn'
    PROVE  IInv'
<1>1. /\ UNCHANGED <<served, disk, call, loaded, analysed, moved, failed, calls>>
      /\ UNCHANGED rows \/ rows' = Stored(RowFor(p, stage, result))
      /\ UNCHANGED events \/ Event
  BY DEF Put, history
<1>2. /\ rows' \subseteq Row
      /\ \A r, s \in rows' : r # s => Key(r) # Key(s)
      /\ RowsAreOwn'
  <2>1. CASE UNCHANGED rows
    BY <2>1 DEF IInv, TypeOK, RowsAreOwn, Key
  <2>2. CASE rows' = Stored(RowFor(p, stage, result))
    BY <2>2, Storing
  <2> QED
    BY <1>1, <2>1, <2>2
<1>3. events' \in 0..MaxEvents /\ CodeIsCounted'
  BY <1>1, StageCacheAssumption DEF Event, IInv, TypeOK, CodeIsCounted, Codes
<1>4. pc' \in [Processes -> Pcs]
  BY DEF Put, Goto, IInv, TypeOK, Pcs
<1> QED
  BY <1>1, <1>2, <1>3, <1>4 DEF IInv, TypeOK, Used, Pcs, Key

LEMMA PuttingDiff ==
    ASSUME IInv, NEW p \in Processes, PutDiff(p)
    PROVE  IInv'
<1>1. PICK u \in used[p]["diff"] : Put(p, "diff", u.result, "get_indicators")
  BY DEF PutDiff
<1>2. u.result \in Result /\ u.result.of = call[p].archive
  BY DEF IInv, TypeOK, ResultsAreOwn, Stages
<1>3. used' \in [Processes -> Used] /\ ResultsAreOwn'
  <2>1. UNCHANGED <<used, call, loaded>>
    BY <1>1 DEF PutDiff, Put
  <2> QED
    BY <2>1 DEF IInv, TypeOK, Used, ResultsAreOwn, Older
<1> QED
  BY <1>1, <1>2, <1>3, Putting DEF Stages, Pcs

LEMMA PuttingIndicators ==
    ASSUME IInv, NEW p \in Processes, PutIndicators(p)
    PROVE  IInv'
<1>1. UNCHANGED <<call, loaded>>
  BY DEF PutIndicators, Put
<1>2. used' \in [Processes -> Used] /\ ResultsAreOwn'
  BY <1>1, Computing, ComputedIsResult DEF PutIndicators, Stages
<1> QED
  BY <1>2, Putting, ComputedIsResult DEF PutIndicators, Stages, Pcs

\* The diff is made of the archive of the call, compared with another or with none.
LEMMA Comparing ==
    ASSUME IInv, NEW p \in Processes, NEW with \in Archives \union {NoArchive},
           NEW manifests \in BOOLEAN, Compared(p, with, manifests), UNCHANGED <<call, loaded>>
    PROVE  used' \in [Processes -> Used] /\ ResultsAreOwn'
<1> DEFINE result == [Computed(p) EXCEPT !.with = with, !.manifests = manifests]
<1>1. result \in Result /\ result.of = call[p].archive /\ result.by = loaded[p]
  BY ComputedIsResult DEF Result
<1>2. Use(p, "diff", result, FALSE)
  BY DEF Compared
<1> HIDE DEF result
<1> QED
  BY <1>1, <1>2, Computing DEF Stages

\* The one release compared with is the previous one.
LEMMA PreviousIsRelease ==
    ASSUME NEW release \in ReleaseSet, PickPrevious(Releases, release) # <<>>
    PROVE  PickPrevious(Releases, release)[1] \in ReleaseSet
<1> DEFINE at == CHOOSE n \in DOMAIN Releases :
                    Releases[n] = release /\ \A m \in 1..(n - 1) : Releases[m] # release
           picks == IF at >= 6 THEN 3 ELSE at \div 2
<1>1. /\ Releases[1] = "previous" /\ Releases[2] = "current"
      /\ Len(Releases) = 2 /\ DOMAIN Releases = 1..2
  BY DEF Releases
<1>2. \E n \in DOMAIN Releases : Releases[n] = release /\ \A m \in 1..(n - 1) : Releases[m] # release
  <2>1. CASE release = "previous"
    <3>1. 1 \in DOMAIN Releases /\ \A m \in 1..(1 - 1) : Releases[m] # release
      BY <1>1
    <3> QED
      BY <1>1, <2>1, <3>1
  <2>2. CASE release = "current"
    <3>1. 2 \in DOMAIN Releases /\ \A m \in 1..(2 - 1) : Releases[m] # release
      BY <1>1, <2>2
    <3> QED
      BY <1>1, <2>2, <3>1
  <2> QED
    BY <2>1, <2>2 DEF ReleaseSet
<1>3. at \in 1..2
  BY <1>1, <1>2
<1> HIDE DEF at
<1>4. Contains(Releases, release)
  BY <1>1, <1>2 DEF Contains
<1>5. PickPrevious(Releases, release) = [n \in 1..picks |-> Releases[at - (2 * n - 1)]]
  BY <1>4 DEF PickPrevious, at
<1>6. picks \in 0..1 /\ (picks = 1 => at = 2)
  BY <1>3
<1>7. CASE picks = 0
  BY <1>5, <1>7
<1>8. CASE picks = 1
  BY <1>1, <1>5, <1>6, <1>8 DEF ReleaseSet
<1> QED
  BY <1>6, <1>7, <1>8

\* It is compared with an archive or, for want of one, with none.
LEMMA LoadingCompares ==
    ASSUME IInv, NEW p \in Processes, LoadPrevious(p)
    PROVE  \E with \in Archives \union {NoArchive}, manifests \in BOOLEAN :
               Compared(p, with, manifests)
<1> DEFINE earlier == PickPrevious(Releases, call[p].release)
           cached == CachedPrevious(earlier[1])
<1>1. CASE Compared(p, NoArchive, FALSE)
  BY <1>1
<1>2. CASE \E r \in cached : Compared(p, r.payload.of, FALSE)
  <2>1. PICK r \in cached : Compared(p, r.payload.of, FALSE)
    BY <1>2
  <2>2. r \in rows
    BY <2>1 DEF CachedPrevious, Found
  <2>3. r.payload.of \in Archives
    BY <2>2 DEF IInv, TypeOK, Row, Result
  <2> QED
    BY <2>1, <2>3
<1>3. CASE earlier # <<>> /\ Compared(p, served[earlier[1]], TRUE)
  <2>0. call[p].release \in ReleaseSet
    BY DEF IInv, TypeOK
  <2>1. earlier[1] \in ReleaseSet
    BY <1>3, <2>0, PreviousIsRelease
  <2>2. served[earlier[1]] \in Archives
    BY <2>1 DEF IInv, TypeOK
  <2> QED
    BY <1>3, <2>2
<1> QED
  BY <1>1, <1>2, <1>3 DEF LoadPrevious

LEMMA Loading ==
    ASSUME IInv, NEW p \in Processes, LoadPrevious(p)
    PROVE  IInv'
<1>1. UNCHANGED <<served, disk, rows, call, loaded, analysed, moved, calls>>
  BY DEF LoadPrevious
<1>2. /\ UNCHANGED failed \/ failed' = TRUE
      /\ UNCHANGED events \/ Event
  BY DEF LoadPrevious
<1>3. \E with \in Archives \union {NoArchive}, manifests \in BOOLEAN : Compared(p, with, manifests)
  BY LoadingCompares
<1>4. used' \in [Processes -> Used] /\ ResultsAreOwn'
  BY <1>1, <1>3, Comparing
<1>5. events' \in 0..MaxEvents /\ CodeIsCounted'
  BY <1>1, <1>2, StageCacheAssumption DEF Event, IInv, TypeOK, CodeIsCounted, Codes
<1>6. pc' \in [Processes -> Pcs]
  BY DEF LoadPrevious, Goto, IInv, TypeOK, Pcs
<1>7. failed' \in BOOLEAN /\ RowsAreOwn'
  BY <1>1, <1>2 DEF IInv, TypeOK, RowsAreOwn
<1> QED
  BY <1>1, <1>4, <1>5, <1>6, <1>7 DEF IInv, TypeOK, Used, Pcs

LEMMA Around ==
    ASSUME IInv, Invalidate \/ Upgrade \/ Republish
    PROVE  IInv'
<1>1. /\ UNCHANGED <<pc, call, loaded, used, analysed, failed, calls>>
      /\ events' = events + 1 /\ events' \in 0..MaxEvents
  BY StageCacheAssumption DEF Invalidate, Upgrade, Republish, Event, history, IInv, TypeOK
<1>2. ResultsAreOwn'
  BY <1>1 DEF IInv, ResultsAreOwn, Older
<1>3. rows' \subseteq rows
  BY DEF Invalidate, Upgrade, Republish
<1>4. RowsAreOwn' /\ rows' \subseteq Row
      /\ \A r, s \in rows' : r # s => Key(r) # Key(s)
  BY <1>3 DEF IInv, TypeOK, RowsAreOwn, Key
<1>5. disk' \in Codes /\ CodeIsCounted'
  <2>1. disk \in Codes /\ \A m \in Modules : disk[m] \in 1..(MaxEvents + 1) /\ disk[m] <= events + 1
    BY DEF IInv, TypeOK, CodeIsCounted, Codes
  <2>2. events \in Nat /\ events + 1 <= MaxEvents /\ MaxEvents \in Nat
    BY <1>1, StageCacheAssumption DEF IInv, TypeOK
  <2>3. CASE UNCHANGED disk
    BY <1>1, <2>1, <2>2, <2>3 DEF CodeIsCounted
  <2>4. CASE \E m \in Modules : disk' = [disk EXCEPT ![m] = @ + 1]
    BY <1>1, <2>1, <2>2, <2>4 DEF CodeIsCounted, Codes
  <2> QED
    BY <2>3, <2>4 DEF Invalidate, Upgrade, Republish
<1>6. served' \in [ReleaseSet -> Archives] /\ moved' \in BOOLEAN
  BY DEF Invalidate, Upgrade, Republish, history, IInv, TypeOK
<1> QED
  BY <1>1, <1>2, <1>4, <1>5, <1>6 DEF IInv, TypeOK, Key

LEMMA Starting ==
    ASSUME IInv, NEW p \in Processes, Start(p) \/ Restart(p)
    PROVE  IInv'
<1>1. UNCHANGED <<served, disk, rows, analysed, moved, failed, events>>
  BY DEF Start, Restart, history, budget
<1>2. call' \in [Processes -> [release : ReleaseSet, option : Options, archive : Archives]]
  BY DEF Start, Restart, IInv, TypeOK
<1>3. loaded' \in [Processes -> Codes] /\ calls' \in 0..MaxCalls
  <2>1. CASE Start(p)
    <3>1. loaded' = loaded /\ calls < MaxCalls /\ calls' = calls + 1
      BY <2>1 DEF Start
    <3>2. calls \in Nat /\ calls >= 0
      BY DEF IInv, TypeOK
    <3>3. calls' \in 0..MaxCalls
      BY <3>1, <3>2, StageCacheAssumption
    <3> QED
      BY <3>1, <3>3 DEF IInv, TypeOK
  <2>2. CASE Restart(p)
    <3>1. loaded' = [loaded EXCEPT ![p] = disk] /\ calls' = calls
      BY <2>2 DEF Restart, budget
    <3> QED
      BY <3>1 DEF IInv, TypeOK
  <2> QED
    BY <2>1, <2>2
<1>4. used' = [used EXCEPT ![p] = Nothing]
  BY DEF Start, Restart
<1>5. used' \in [Processes -> Used]
  BY <1>4 DEF Nothing, Used, IInv, TypeOK
<1>6. ASSUME NEW q \in Processes, q # p
      PROVE  call'[q] = call[q] /\ loaded'[q] = loaded[q]
  BY <1>6 DEF Start, Restart, IInv, TypeOK
<1>7. ResultsAreOwn'
  <2>1. ASSUME NEW q \in Processes, NEW s \in Stages, NEW u \in used'[q][s]
        PROVE  u.result.of = call'[q].archive /\ (u.outlived \/ ~Older(u.result.by, loaded'[q], s))
    <3>1. q # p
      BY <1>4, <2>1 DEF Nothing, IInv, TypeOK
    <3>2. u \in used[q][s]
      BY <1>4, <3>1 DEF IInv, TypeOK
    <3> QED
      BY <1>6, <3>1, <3>2 DEF IInv, ResultsAreOwn
  <2> QED
    BY <2>1 DEF ResultsAreOwn, Older
<1>8. pc' \in [Processes -> Pcs]
  BY DEF Start, Restart, Goto, IInv, TypeOK, Pcs
<1> QED
  BY <1>1, <1>2, <1>3, <1>5, <1>7, <1>8 DEF IInv, TypeOK, Used, Pcs, CodeIsCounted, RowsAreOwn

LEMMA Inductive == IInv /\ [Next]_vars => IInv'
<1> SUFFICES ASSUME IInv, [Next]_vars PROVE IInv'
  OBVIOUS
<1>1. CASE UNCHANGED vars
  BY <1>1 DEF vars, history, budget, IInv, TypeOK, CodeIsCounted, RowsAreOwn, ResultsAreOwn, Older
<1>2. CASE Invalidate \/ Upgrade \/ Republish
  BY <1>2, Around
<1>3. ASSUME NEW p \in Processes, Start(p) \/ Restart(p) PROVE IInv'
  BY <1>3, Starting
<1>4. ASSUME NEW p \in Processes, GetBehavior(p) PROVE IInv'
  BY <1>4, Getting, Breaking DEF GetBehavior, Stages, Pcs
<1>5. ASSUME NEW p \in Processes, PutBehavior(p) PROVE IInv'
  BY <1>5, PuttingBehavior
<1>6. ASSUME NEW p \in Processes, GetDiff(p) PROVE IInv'
  BY <1>6, Getting, Breaking DEF GetDiff, Stages, Pcs
<1>7. ASSUME NEW p \in Processes, LoadPrevious(p) PROVE IInv'
  BY <1>7, Loading
<1>8. ASSUME NEW p \in Processes, PutDiff(p) \/ PutIndicators(p) PROVE IInv'
  BY <1>8, PuttingDiff, PuttingIndicators
<1>9. ASSUME NEW p \in Processes, GetIndicators(p) PROVE IInv'
  BY <1>9, Getting, Breaking DEF GetIndicators, Stages, Pcs
<1> QED
  BY <1>1, <1>2, <1>3, <1>4, <1>5, <1>6, <1>7, <1>8, <1>9 DEF Next

\* The release compared with is the one before.
LEMMA CurrentFollowsPrevious ==
    PickPrevious(Releases, "current") # <<>> /\ PickPrevious(Releases, "current")[1] = "previous"
<1> DEFINE at == CHOOSE n \in DOMAIN Releases :
                    Releases[n] = "current" /\ \A m \in 1..(n - 1) : Releases[m] # "current"
           picks == IF at >= 6 THEN 3 ELSE at \div 2
<1>1. /\ Releases[1] = "previous" /\ Releases[2] = "current"
      /\ Len(Releases) = 2 /\ DOMAIN Releases = 1..2
  BY DEF Releases
<1>2. 2 \in DOMAIN Releases /\ Releases[2] = "current" /\ \A m \in 1..(2 - 1) : Releases[m] # "current"
  BY <1>1
<1>3. at \in DOMAIN Releases /\ Releases[at] = "current"
  BY <1>2
<1>4. at = 2
  BY <1>1, <1>3
<1> HIDE DEF at
<1>5. Contains(Releases, "current")
  BY <1>1, <1>2 DEF Contains
<1>6. PickPrevious(Releases, "current") = [n \in 1..picks |-> Releases[at - (2 * n - 1)]]
  BY <1>5 DEF PickPrevious, at
<1>7. picks = 1
  BY <1>4
<1>8. PickPrevious(Releases, "current")[1] = Releases[1]
  BY <1>4, <1>6, <1>7
<1>9. 1 \in DOMAIN PickPrevious(Releases, "current")
  BY <1>6, <1>7
<1> QED
  BY <1>1, <1>8, <1>9

----------------------------------------------------------------------------
(* A diff says what a fresh one would *)

\* A call analyses the previous release as it is served, unless it was republished.
PreviousIsOwn ==
    \A p \in Processes :
        call[p].release = "previous" => moved \/ call[p].archive = served["previous"]

\* A diff of the current release is one with the previous release as it is served,
\* of all that a fresh one compares or of the sources alone.
Faithful(result) ==
    \/ moved
    \/ failed /\ result.with = NoArchive
    \/ result.with = served["previous"] /\ (result.manifests \/ "previous" \in analysed)

DiffsAreFaithful ==
    \A p \in Processes : \A u \in used[p]["diff"] :
        call[p].release = "current" => Faithful(u.result)

BehaviorIsPrevious(row) == "previous" \in analysed /\ (moved \/ row.archive = served["previous"])

RowsAreFaithful ==
    \A r \in rows :
        /\ r.stage = "behavior" /\ r.release = "previous" => BehaviorIsPrevious(r)
        /\ r.stage = "diff" /\ r.release = "current" => Faithful(r.payload)

JInv == IInv /\ PreviousIsOwn /\ DiffsAreFaithful /\ RowsAreFaithful

\* The history only grows, and the previous release moves only with a note of it.
Onward ==
    /\ moved => moved'
    /\ failed => failed'
    /\ analysed \subseteq analysed'
    /\ moved' \/ served'["previous"] = served["previous"]

LEMMA GoesOnward ==
    ASSUME IInv, [Next]_vars
    PROVE  Onward
<1>0. ASSUME UNCHANGED <<served, analysed, moved, failed>> PROVE Onward
  BY <1>0 DEF Onward
<1>1. CASE UNCHANGED vars
  BY <1>1 DEF vars, history, Onward
<1>2. CASE Invalidate \/ Upgrade
  BY <1>2 DEF Invalidate, Upgrade, history, Onward
<1>3. CASE Republish
  <2>1. PICK release \in ReleaseSet, a \in Archives :
            /\ served' = [served EXCEPT ![release] = a]
            /\ moved' = (moved \/ release = "previous")
    BY <1>3 DEF Republish
  <2>2. CASE release = "previous"
    BY <1>3, <2>1, <2>2 DEF Republish, Onward
  <2>3. CASE release # "previous"
    BY <1>3, <2>1, <2>3 DEF Republish, Onward, IInv, TypeOK
  <2> QED
    BY <2>2, <2>3
<1>4. ASSUME NEW p \in Processes, Start(p) \/ Restart(p) PROVE Onward
  BY <1>0, <1>4 DEF Start, Restart, history
<1>5. ASSUME NEW p \in Processes, GetBehavior(p) \/ GetDiff(p) \/ GetIndicators(p) PROVE Onward
  <2>1. UNCHANGED <<served, history>>
    BY <1>5 DEF GetBehavior, GetDiff, GetIndicators, Get, Broken
  <2> QED
    BY <1>0, <2>1 DEF history
<1>6. ASSUME NEW p \in Processes, PutBehavior(p) PROVE Onward
  <2>1. UNCHANGED <<served, moved, failed>>
    BY <1>6 DEF PutBehavior, Broken, history
  <2>2. analysed \subseteq analysed'
    BY <1>6 DEF PutBehavior, Broken, history
  <2> QED
    BY <2>1, <2>2 DEF Onward
<1>7. ASSUME NEW p \in Processes, LoadPrevious(p) PROVE Onward
  <2>1. UNCHANGED <<served, analysed, moved>>
    BY <1>7 DEF LoadPrevious
  <2>2. failed => failed'
    BY <1>7 DEF LoadPrevious
  <2> QED
    BY <2>1, <2>2 DEF Onward
<1>8. ASSUME NEW p \in Processes, PutDiff(p) \/ PutIndicators(p) PROVE Onward
  <2>1. UNCHANGED <<served, history>>
    BY <1>8 DEF PutDiff, PutIndicators, Put
  <2> QED
    BY <1>0, <2>1 DEF history
<1> QED
  BY <1>1, <1>2, <1>3, <1>4, <1>5, <1>6, <1>7, <1>8 DEF Next

LEMMA StaysFaithful ==
    ASSUME Onward, NEW result, Faithful(result)
    PROVE  Faithful(result)'
BY DEF Onward, Faithful

\* A call is of the archive its process began with.
LEMMA CallsBegin ==
    ASSUME IInv, [Next]_vars, NEW q \in Processes
    PROVE  \/ call'[q] = call[q]
           \/ call'[q].archive = served'[call'[q].release] /\ used'[q] = Nothing
<1>1. CASE UNCHANGED call
  BY <1>1
<1>2. ASSUME NEW p \in Processes, Start(p)
      PROVE  \/ call'[q] = call[q]
             \/ call'[q].archive = served'[call'[q].release] /\ used'[q] = Nothing
  <2>1. PICK release \in ReleaseSet, option \in Options :
            call' = [call EXCEPT ![p] = [release |-> release, option |-> option,
                                         archive |-> served[release]]]
    BY <1>2 DEF Start
  <2>2. used' = [used EXCEPT ![p] = Nothing] /\ served' = served
    BY <1>2 DEF Start
  <2>3. CASE q = p
    BY <2>1, <2>2, <2>3 DEF IInv, TypeOK
  <2>4. CASE q # p
    BY <2>1, <2>4 DEF IInv, TypeOK
  <2> QED
    BY <2>3, <2>4
<1>3. CASE UNCHANGED vars
  BY <1>3 DEF vars
<1>4. CASE Invalidate \/ Upgrade \/ Republish
  BY <1>1, <1>4 DEF Invalidate, Upgrade, Republish
<1>5. ASSUME NEW p \in Processes,
             \/ GetBehavior(p) \/ GetDiff(p) \/ GetIndicators(p) \/ PutBehavior(p)
             \/ LoadPrevious(p) \/ PutDiff(p) \/ PutIndicators(p) \/ Restart(p)
      PROVE  UNCHANGED call
  BY <1>5 DEF GetBehavior, GetDiff, GetIndicators, Get, Broken, PutBehavior, LoadPrevious,
              PutDiff, PutIndicators, Put, Restart
<1> QED
  BY <1>1, <1>2, <1>3, <1>4, <1>5 DEF Next

\* Where the rows of stages 2 and 3B come from.
LEMMA RowsComeFrom ==
    ASSUME IInv, [Next]_vars, NEW r \in rows'
    PROVE  \/ r \in rows
           \/ r.stage = "indicators"
           \/ \E p \in Processes :
                  /\ r.release = call[p].release /\ r.archive = call[p].archive
                  /\ \/ r.stage = "behavior" /\ r.release \in analysed'
                     \/ r.stage = "diff" /\ \E u \in used[p]["diff"] : r.payload = u.result
<1>1. CASE rows' \subseteq rows
  BY <1>1
<1>2. CASE UNCHANGED vars \/ Invalidate \/ Upgrade \/ Republish
  BY <1>1, <1>2 DEF vars, Invalidate, Upgrade, Republish
<1>3. ASSUME NEW p \in Processes,
             \/ GetBehavior(p) \/ GetDiff(p) \/ GetIndicators(p)
             \/ LoadPrevious(p) \/ Start(p) \/ Restart(p)
      PROVE  rows' \subseteq rows
  BY <1>3 DEF GetBehavior, GetDiff, GetIndicators, Get, Broken, LoadPrevious, Start, Restart
<1>4. ASSUME NEW p \in Processes, PutBehavior(p), ~(rows' \subseteq rows)
      PROVE  r \in rows \/ (/\ r.release = call[p].release /\ r.archive = call[p].archive
                            /\ r.stage = "behavior" /\ r.release \in analysed')
  <2>1. /\ rows' = Stored(RowFor(p, "behavior", Computed(p)))
        /\ analysed' = analysed \union {call[p].release}
    BY <1>4 DEF PutBehavior, Broken
  <2> QED
    BY <2>1 DEF Stored, RowFor
<1>5. ASSUME NEW p \in Processes, PutDiff(p), ~(rows' \subseteq rows)
      PROVE  r \in rows \/ (/\ r.release = call[p].release /\ r.archive = call[p].archive
                            /\ r.stage = "diff" /\ \E u \in used[p]["diff"] : r.payload = u.result)
  <2>1. PICK u \in used[p]["diff"] : Put(p, "diff", u.result, "get_indicators")
    BY <1>5 DEF PutDiff
  <2>2. rows' = Stored(RowFor(p, "diff", u.result))
    BY <1>5, <2>1 DEF Put
  <2> QED
    BY <2>2 DEF Stored, RowFor
<1>6. ASSUME NEW p \in Processes, PutIndicators(p), ~(rows' \subseteq rows)
      PROVE  r \in rows \/ r.stage = "indicators"
  <2>1. rows' = Stored(RowFor(p, "indicators", Computed(p)))
    BY <1>6 DEF PutIndicators, Put
  <2> QED
    BY <2>1 DEF Stored, RowFor
<1> QED
  BY <1>1, <1>2, <1>3, <1>4, <1>5, <1>6 DEF Next

\* What a call goes on with after it used the result of one stage.
LEMMA UsedNow ==
    ASSUME IInv, NEW p \in Processes, NEW stage \in Stages, NEW result, NEW outlived,
           Use(p, stage, result, outlived), NEW q \in Processes, NEW u \in used'[q]["diff"]
    PROVE  u \in used[q]["diff"] \/ (q = p /\ stage = "diff" /\ u.result = result)
<1> DEFINE x == [result |-> result, outlived |-> outlived]
<1>1. used \in [Processes -> Used]
  BY DEF IInv, TypeOK, Used
<1>2. used' = [used EXCEPT ![p][stage] = {x}]
  BY DEF Use
<1>3. CASE q = p /\ stage = "diff"
  <2>1. u = x
    BY <1>1, <1>2, <1>3 DEF Used, Stages
  <2> QED
    BY <1>3, <2>1
<1>4. CASE ~(q = p /\ stage = "diff")
  BY <1>1, <1>2, <1>4 DEF Used, Stages
<1> QED
  BY <1>3, <1>4

\* The diffs a call goes on with are found in a row or made in LoadPrevious.
LEMMA DiffsComeFrom ==
    ASSUME IInv, [Next]_vars, NEW q \in Processes, NEW u \in used'[q]["diff"]
    PROVE  \/ u \in used[q]["diff"]
           \/ \E r \in rows :
                  r.stage = "diff" /\ r.release = call[q].release /\ u.result = r.payload
           \/ LoadPrevious(q)
<1> DEFINE Goal == \/ u \in used[q]["diff"]
                   \/ \E r \in rows :
                          r.stage = "diff" /\ r.release = call[q].release /\ u.result = r.payload
                   \/ LoadPrevious(q)
<1>1. ASSUME UNCHANGED used PROVE Goal
  BY <1>1
<1>2. ASSUME UNCHANGED vars \/ Invalidate \/ Upgrade \/ Republish PROVE Goal
  BY <1>1, <1>2 DEF vars, Invalidate, Upgrade, Republish
<1>3. ASSUME NEW p \in Processes, Start(p) \/ Restart(p) PROVE Goal
  <2>1. used' = [used EXCEPT ![p] = Nothing]
    BY <1>3 DEF Start, Restart
  <2>2. q # p
    BY <2>1 DEF Nothing, Stages, IInv, TypeOK
  <2> QED
    BY <2>1, <2>2 DEF IInv, TypeOK
<1>4. ASSUME NEW p \in Processes, NEW stage \in Stages, NEW hit, NEW miss,
             Get(p, stage, hit, miss)
      PROVE  Goal
  <2>1. CASE UNCHANGED used
    BY <1>1, <2>1
  <2>2. CASE ~UNCHANGED used
    <3>1. PICK r \in Lookup(p, stage) :
              Use(p, stage, r.payload, \/ Older(r.payload.by, r.version, stage)
                                       \/ Older(loaded[p], disk, stage))
      BY <1>4, <2>2 DEF Get
    <3>2. r \in rows /\ r.stage = stage /\ r.release = call[p].release
      BY <3>1 DEF Lookup, Found
    <3>3. u \in used[q]["diff"] \/ (q = p /\ stage = "diff" /\ u.result = r.payload)
      BY <3>1, UsedNow
    <3> QED
      BY <3>2, <3>3
  <2> QED
    BY <2>1, <2>2
<1>5. ASSUME NEW p \in Processes, NEW next, Broken(p, next) PROVE Goal
  BY <1>1, <1>5 DEF Broken
<1>6. ASSUME NEW p \in Processes, PutBehavior(p) PROVE Goal
  <2>1. CASE Use(p, "behavior", Computed(p), FALSE)
    BY <2>1, UsedNow DEF Stages
  <2> QED
    BY <1>5, <1>6, <2>1 DEF PutBehavior
<1>7. ASSUME NEW p \in Processes, PutDiff(p) PROVE Goal
  BY <1>1, <1>7 DEF PutDiff
<1>8. ASSUME NEW p \in Processes, PutIndicators(p) PROVE Goal
  BY <1>8, UsedNow DEF PutIndicators, Stages
<1>9. ASSUME NEW p \in Processes, LoadPrevious(p) PROVE Goal
  <2>1. PICK with \in Archives \union {NoArchive}, manifests \in BOOLEAN :
            Compared(p, with, manifests)
    BY <1>9, LoadingCompares
  <2> DEFINE result == [Computed(p) EXCEPT !.with = with, !.manifests = manifests]
  <2>2. Use(p, "diff", result, FALSE)
    BY <2>1 DEF Compared
  <2> HIDE DEF result
  <2>3. u \in used[q]["diff"] \/ q = p
    BY <2>2, UsedNow DEF Stages
  <2> QED
    BY <1>9, <2>3
<1>10. ASSUME NEW p \in Processes, GetBehavior(p) \/ GetDiff(p) \/ GetIndicators(p) PROVE Goal
  <2> HIDE DEF Goal
  <2> QED
    BY <1>4, <1>5, <1>10 DEF GetBehavior, GetDiff, GetIndicators, Stages
<1> HIDE DEF Goal
<1>11. Goal
  BY <1>2, <1>3, <1>6, <1>7, <1>8, <1>9, <1>10 DEF Next
<1> QED
  BY <1>11 DEF Goal

\* What LoadPrevious compares the current release with.
LEMMA LoadingIsFaithful ==
    ASSUME JInv, NEW p \in Processes, LoadPrevious(p), call[p].release = "current",
           NEW u \in used'[p]["diff"]
    PROVE  u \in used[p]["diff"] \/ Faithful(u.result)'
<1> DEFINE earlier == PickPrevious(Releases, "current")
           cached == CachedPrevious("previous")
           made(with, manifests) == [Computed(p) EXCEPT !.with = with, !.manifests = manifests]
<1>1. earlier # <<>> /\ earlier[1] = "previous"
  BY CurrentFollowsPrevious
<1>2. UNCHANGED <<served, analysed, moved>>
  BY DEF LoadPrevious
<1>3. ASSUME NEW with, NEW manifests, Compared(p, with, manifests)
      PROVE  \/ u \in used[p]["diff"]
             \/ u.result.with = with /\ u.result.manifests = manifests
  <2>1. Use(p, "diff", made(with, manifests), FALSE)
    BY <1>3 DEF Compared
  <2>2. made(with, manifests).with = with /\ made(with, manifests).manifests = manifests
    BY DEF Computed
  <2> HIDE DEF made
  <2> QED
    BY <2>1, <2>2, UsedNow DEF Stages, JInv
<1>4. \/ \E r \in cached : Compared(p, r.payload.of, FALSE)
      \/ Compared(p, served["previous"], TRUE)
      \/ Compared(p, NoArchive, FALSE) /\ failed' = TRUE
  BY <1>1 DEF LoadPrevious
<1>5. ASSUME NEW r \in cached, Compared(p, r.payload.of, FALSE)
      PROVE  u \in used[p]["diff"] \/ Faithful(u.result)'
  <2>1. r \in rows /\ r.stage = "behavior" /\ r.release = "previous"
    BY DEF CachedPrevious, Found
  <2>2. BehaviorIsPrevious(r) /\ r.payload.of = r.archive
    BY <2>1 DEF JInv, RowsAreFaithful, IInv, RowsAreOwn
  <2>3. u \in used[p]["diff"] \/ u.result.with = r.payload.of
    BY <1>3, <1>5
  <2> QED
    BY <1>2, <2>2, <2>3 DEF BehaviorIsPrevious, Faithful
<1>6. CASE Compared(p, served["previous"], TRUE)
  BY <1>2, <1>3, <1>6 DEF Faithful
<1>7. CASE Compared(p, NoArchive, FALSE) /\ failed' = TRUE
  BY <1>3, <1>7 DEF Faithful
<1> QED
  BY <1>4, <1>5, <1>6, <1>7

LEMMA FaithfulInitially == Init => JInv
<1> SUFFICES ASSUME Init PROVE JInv
  OBVIOUS
<1>1. IInv
  BY Initially
<1>2. \A p \in Processes : call[p].release = "current" /\ used[p]["diff"] = {}
  BY DEF Init, Nothing, Stages
<1> QED
  BY <1>1, <1>2 DEF Init, JInv, PreviousIsOwn, DiffsAreFaithful, RowsAreFaithful

LEMMA FaithfulInductive == JInv /\ [Next]_vars => JInv'
<1> SUFFICES ASSUME JInv, [Next]_vars PROVE JInv'
  OBVIOUS
<1>0. IInv /\ PreviousIsOwn /\ DiffsAreFaithful /\ RowsAreFaithful
  BY DEF JInv
<1>1. IInv'
  BY <1>0, Inductive
<1>2. Onward
  BY <1>0, GoesOnward
<1>3. ASSUME NEW q \in Processes, call'[q].release = "previous"
      PROVE  moved' \/ call'[q].archive = served'["previous"]
  <2>1. CASE call'[q] = call[q]
    BY <1>0, <1>2, <1>3, <2>1 DEF PreviousIsOwn, Onward
  <2> QED
    BY <1>0, <1>3, <2>1, CallsBegin
<1>4. ASSUME NEW q \in Processes, NEW u \in used'[q]["diff"], call'[q].release = "current"
      PROVE  Faithful(u.result)'
  <2>1. call'[q] = call[q]
    BY <1>0, <1>4, CallsBegin DEF Nothing, Stages
  <2>2. CASE u \in used[q]["diff"]
    BY <1>0, <1>2, <1>4, <2>1, <2>2, StaysFaithful DEF DiffsAreFaithful
  <2>3. ASSUME NEW r \in rows, r.stage = "diff", r.release = call[q].release, u.result = r.payload
        PROVE  Faithful(u.result)'
    <3>1. Faithful(u.result)
      BY <1>0, <1>4, <2>1, <2>3 DEF RowsAreFaithful
    <3> QED
      BY <1>2, <3>1, StaysFaithful
  <2>4. CASE LoadPrevious(q)
    BY <1>4, <2>1, <2>2, <2>4, LoadingIsFaithful
  <2> QED
    BY <1>0, <2>2, <2>3, <2>4, DiffsComeFrom
<1>5. ASSUME NEW r \in rows'
      PROVE  /\ r.stage = "behavior" /\ r.release = "previous" => BehaviorIsPrevious(r)'
             /\ r.stage = "diff" /\ r.release = "current" => Faithful(r.payload)'
  <2>1. CASE r \in rows
    <3>1. BehaviorIsPrevious(r) => BehaviorIsPrevious(r)'
      BY <1>2 DEF Onward, BehaviorIsPrevious
    <3>2. Faithful(r.payload) => Faithful(r.payload)'
      BY <1>2, StaysFaithful
    <3> QED
      BY <1>0, <2>1, <3>1, <3>2 DEF RowsAreFaithful
  <2>2. ASSUME NEW p \in Processes, r.release = call[p].release, r.archive = call[p].archive,
               r.stage = "behavior", r.release \in analysed', r.release = "previous"
        PROVE  BehaviorIsPrevious(r)'
    BY <1>0, <1>2, <2>2 DEF PreviousIsOwn, Onward, BehaviorIsPrevious
  <2>3. ASSUME NEW p \in Processes, r.release = call[p].release, NEW u \in used[p]["diff"],
               r.payload = u.result, r.release = "current"
        PROVE  Faithful(r.payload)'
    <3>1. Faithful(r.payload)
      BY <1>0, <2>3 DEF DiffsAreFaithful
    <3> QED
      BY <1>2, <3>1, StaysFaithful
  <2> QED
    BY <1>0, <2>1, <2>2, <2>3, RowsComeFrom
<1>6. PreviousIsOwn'
  BY <1>3 DEF PreviousIsOwn
<1>7. DiffsAreFaithful'
  BY <1>4 DEF DiffsAreFaithful
<1>8. RowsAreFaithful'
  BY <1>5 DEF RowsAreFaithful
<1> QED
  BY <1>1, <1>6, <1>7, <1>8 DEF JInv

\* A faithful diff says what a fresh one would: it is one of the same two archives.
LEMMA FaithfulIsFresh == JInv => DiffAsIfFresh
<1> SUFFICES ASSUME JInv, NEW p \in Processes, NEW u \in used[p]["diff"],
                    call[p].release = "current"
             PROVE  \/ moved
                    \/ failed /\ u.result.with = NoArchive
                    \/ /\ u.result.with # NoArchive
                       /\ \/ Severity(u.result) = FreshSeverity(p, TRUE)
                          \/ "previous" \in analysed /\ Severity(u.result) = FreshSeverity(p, FALSE)
  BY DEF DiffAsIfFresh
<1>1. Faithful(u.result)
  BY DEF JInv, DiffsAreFaithful
<1>2. u.result.of = call[p].archive
  BY DEF JInv, IInv, ResultsAreOwn, Stages
<1>3. u.result.manifests \in BOOLEAN
  <2>1. u.result \in Result
    BY DEF JInv, IInv, TypeOK, Stages
  <2> QED
    BY <2>1 DEF Result
<1>4. CASE u.result.with = served["previous"] /\ (u.result.manifests \/ "previous" \in analysed)
  <2>1. u.result.with # NoArchive
    BY <1>4, StageCacheAssumption DEF JInv, IInv, TypeOK, ReleaseSet
  <2>2. CASE u.result.manifests
    <3>1. u.result.manifests = TRUE
      BY <1>3, <2>2
    <3>2. Severity(u.result) = FreshSeverity(p, TRUE)
      BY <1>2, <1>4, <3>1 DEF Severity, FreshSeverity
    <3> QED
      BY <2>1, <3>2
  <2>3. CASE ~u.result.manifests
    <3>1. u.result.manifests = FALSE
      BY <1>3, <2>3
    <3>2. Severity(u.result) = FreshSeverity(p, FALSE)
      BY <1>2, <1>4, <3>1 DEF Severity, FreshSeverity
    <3> QED
      BY <1>4, <2>1, <2>3, <3>2
  <2> QED
    BY <2>2, <2>3
<1> QED
  BY <1>1, <1>4 DEF Faithful

LEMMA Invariant == Spec => []IInv
BY Initially, Inductive, PTL DEF Spec

\* The stage cache is a table: a release, a stage and a version of its code have
\* one row, and what calls take from it and store in it are results.
THEOREM Typed == Spec => []TypeOK
BY Invariant, PTL DEF IInv

\* However many processes share the cache and whatever is republished, upgraded or
\* invalidated under them, a call goes on with results of its own archive, made by
\* its own code or, known as such, around an upgrade.
THEOREM OwnResults == Spec => []ResultsAreOwn
BY Invariant, PTL DEF IInv

\* The stored and found, the compared and downloaded alike: the diff of the later
\* release says what one made now would, up to a download that failed, a previous
\* release that was republished, or dependencies left out because the earlier
\* release came from the cache.
THEOREM DiffsAsIfFresh == Spec => []DiffAsIfFresh
BY FaithfulInitially, FaithfulInductive, FaithfulIsFresh, PTL DEF Spec
=============================================================================
