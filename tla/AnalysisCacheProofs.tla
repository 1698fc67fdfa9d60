------------------------ MODULE AnalysisCacheProofs ------------------------
(***************************************************************************)
(* What a hit of the report cache may be wrong about, for any number of    *)
(* processes, archives, rule versions, advisories and changes around them. *)
(* The inductive invariant follows a report from the draft of an analysis  *)
(* to the row, to the copy a lookup has fetched and to the answer.         *)
(***************************************************************************)
EXTENDS AnalysisCache, TLAPS

\* Stage 0A looked before any advisory now listed was inserted.
Dated(d) == d.since =< now /\ (d.looked => \A a \in listed : d.since =< listedAt[a])

\* A row is of the archive whose hash it has and by the rules whose hash it has,
\* or the analysis was overtaken; in mode paranoid, and then only, it has an HMAC;
\* or it was altered.
Sound(r) ==
    /\ r.sha # NoArchive /\ r.report.of # r.sha => r.moved \/ r.altered
    /\ r.by # r.rules => r.under \/ r.altered
    /\ r.mode = "paranoid" => r.hmac \/ r.altered
    /\ Dated(r.report)

\* Advisories spelt as the requests, among those seen, are no later than the row.
Known(r, seen) == \A a \in seen \intersect SameSpelling : listedAt[a] =< r.at

Logged == \A a \in listed \intersect SameSpelling : [at |-> listedAt[a], sql |-> FALSE] \in log

\* Only the API, in mode strict, looks up without a URL.
Asked(p) ==
    /\ pc[p] = "idle" => url[p]
    /\ pc[p] = "idle" \/ ~url[p] => mode[p] = "strict"

Fetched(p) ==
    /\ cand[p] # {} => pc[p] \in {"log", "archive"}
    /\ \A r \in cand[p] : /\ Sound(r) /\ (r.rules = disk \/ under[p])
                          /\ mode[p] = "paranoid" => r.mode = "paranoid"
                          /\ pc[p] = "archive" => Known(r, saw[p])
    /\ saw[p] \subseteq listed /\ \A r, s \in cand[p] : r = s

Drafted(p) ==
    /\ loaded[p] = disk \/ under[p]
    /\ Dated(draft[p])
    /\ pc[p] = "analyze" => draft[p].of = served \/ moved[p]
    /\ pc[p] = "store" => fp[p] = NoArchive \/ draft[p].of = fp[p] \/ moved[p]

Answered(p) ==
    /\ answer[p] # {} => pc[p] = "answer"
    /\ \A h \in answer[p] : /\ Sound(h.row) /\ (h.row.rules = disk \/ under[p])
                            /\ url[p] => h.row.sha = h.served
                            /\ mode[p] = "paranoid" => (h.row.altered <=> ~h.row.hmac)
                            /\ h.listed \subseteq listed /\ Known(h.row, h.listed)

InCall(p) == Asked(p) /\ Fetched(p) /\ Drafted(p) /\ Answered(p)

IInv ==
    /\ TypeOK
    /\ Logged
    /\ \A r \in rows : Sound(r)
    /\ \A p \in Processes : InCall(p)

----------------------------------------------------------------------------
(* Types *)

LEMMA InitTyped == Init => TypeOK
<1> SUFFICES ASSUME Init PROVE TypeOK
  OBVIOUS
<1>1. 0 \in Times /\ "strict" \in Modes /\ NoDraft \in Drafts
  BY CacheAssumption DEF Times, NoDraft, Drafts
<1>2. /\ now \in Times /\ served \in Archives /\ disk \in Rules
      /\ listed \subseteq Advisories /\ listedAt \in [Advisories -> Times]
      /\ log \subseteq Entry /\ rows \subseteq Row /\ (\A r, s \in rows : r = s)
      /\ changes \in 0..MaxChanges /\ calls \in 0..MaxCalls
  BY <1>1, CacheAssumption DEF Init
<1>3. clearing \in BOOLEAN
  BY Zenon DEF Init
<1>4. /\ pc \in [Processes -> {"idle", "fetch", "log", "archive", "filter", "extract",
                              "analyze", "store", "answer"}]
      /\ mode \in [Processes -> Modes] /\ url \in [Processes -> BOOLEAN]
      /\ loaded \in [Processes -> Rules] /\ cand \in [Processes -> SUBSET Row]
      /\ saw \in [Processes -> SUBSET Advisories] /\ draft \in [Processes -> Drafts]
      /\ fp \in [Processes -> Archives \union {NoArchive}]
      /\ answer \in [Processes -> SUBSET Hits]
      /\ moved \in [Processes -> BOOLEAN] /\ under \in [Processes -> BOOLEAN]
  BY <1>1 DEF Init
<1> QED BY <1>2, <1>3, <1>4 DEF TypeOK

\* What an edit leaves of a row: its history, and all but the stamp unless it shows.
EditOf(r, s) ==
    /\ s.report = r.report /\ s.by = r.by /\ s.moved = r.moved /\ s.under = r.under
    /\ \/ s.altered
       \/ /\ s.altered = r.altered /\ s.sha = r.sha /\ s.rules = r.rules
          /\ s.mode = r.mode /\ s.hmac = r.hmac

LEMMA RestampedIsEdit ==
    ASSUME NEW r \in Row, NEW at \in Times
    PROVE  Restamped(r, at) \in Row /\ EditOf(r, Restamped(r, at))
BY Zenon DEF Row, Restamped, EditOf

LEMMA RewrittenIsEdit ==
    ASSUME NEW r \in Row, NEW sha \in Archives \union {NoArchive}, NEW by \in Rules,
           NEW m \in Modes, NEW hmac \in BOOLEAN
    PROVE  /\ Rewritten(r, sha, by, m, hmac) \in Row
           /\ EditOf(r, Rewritten(r, sha, by, m, hmac))
BY Zenon DEF Row, Rewritten, EditOf

LEMMA AlterEdits ==
    ASSUME TypeOK, Alter
    PROVE  \E r \in rows : \E s \in Row : rows' = {s} /\ EditOf(r, s)
<1>1. PICK r \in rows :
          \/ \E at \in Times : rows' = {Restamped(r, at)}
          \/ \E sha \in Archives \union {NoArchive}, by \in Rules, m \in Modes,
                hmac \in {r.hmac, FALSE} : rows' = {Rewritten(r, sha, by, m, hmac)}
  BY Zenon DEF Alter
<1>2. r \in Row /\ r.hmac \in BOOLEAN
  BY DEF TypeOK, Row
<1>3. CASE \E at \in Times : rows' = {Restamped(r, at)}
  BY <1>2, <1>3, RestampedIsEdit
<1>4. CASE \E sha \in Archives \union {NoArchive}, by \in Rules, m \in Modes,
             hmac \in {r.hmac, FALSE} : rows' = {Rewritten(r, sha, by, m, hmac)}
  <2>1. PICK sha \in Archives \union {NoArchive}, by \in Rules, m \in Modes,
             hmac \in {r.hmac, FALSE} : rows' = {Rewritten(r, sha, by, m, hmac)}
    BY <1>4
  <2>2. hmac \in BOOLEAN
    BY <1>2, Zenon
  <2>3. /\ Rewritten(r, sha, by, m, hmac) \in Row
        /\ EditOf(r, Rewritten(r, sha, by, m, hmac))
    BY <1>2, <2>2, RewrittenIsEdit
  <2> QED
    BY <2>1, <2>3
<1> QED
  BY <1>1, <1>3, <1>4

LEMMA AroundTyped == ASSUME TypeOK, Around PROVE TypeOK'
<1>1. CASE Tick
  <2>1. now' \in Times
    BY <1>1, CacheAssumption DEF Tick, TypeOK, Times
  <2> QED BY <1>1, <2>1 DEF Tick, TypeOK, table, call, history
<1>2. ASSUME NEW a \in Archives, Republish(a) PROVE TypeOK'
  <2>1. moved' \in [Processes -> BOOLEAN] /\ changes' \in 0..MaxChanges
    BY <1>2, CacheAssumption DEF Republish, Changed, TypeOK
  <2> QED BY <1>2, <2>1 DEF Republish, Changed, TypeOK, table, call
<1>3. ASSUME NEW r \in Rules, Upgrade(r) PROVE TypeOK'
  <2>1. under' \in [Processes -> BOOLEAN] /\ changes' \in 0..MaxChanges
    BY <1>3, CacheAssumption DEF Upgrade, Changed, TypeOK
  <2> QED BY <1>3, <2>1 DEF Upgrade, Changed, TypeOK, table, call
<1>4. ASSUME NEW a \in Advisories, ListAdvisory(a) PROVE TypeOK'
  <2>1. [at |-> now, sql |-> FALSE] \in Entry
    BY DEF TypeOK, Entry
  <2>2. log' \subseteq Entry
    BY <1>4, <2>1 DEF ListAdvisory, TypeOK
  <2>3. listedAt' \in [Advisories -> Times] /\ listed' \subseteq Advisories
    BY <1>4 DEF ListAdvisory, TypeOK
  <2>4. changes' \in 0..MaxChanges
    BY <1>4, CacheAssumption DEF ListAdvisory, Changed, TypeOK
  <2> QED BY <1>4, <2>2, <2>3, <2>4 DEF ListAdvisory, Changed, TypeOK, call, history
<1>5. CASE Alter
  <2>1. rows' \subseteq Row /\ \A r, s \in rows' : r = s
    BY <1>5, AlterEdits
  <2>2. changes' \in 0..MaxChanges
    BY <1>5, CacheAssumption DEF Alter, Changed, TypeOK
  <2> QED BY <1>5, <2>1, <2>2 DEF Alter, Changed, TypeOK, call, history
<1>6. CASE DeleteRow
  <2>1. changes' \in 0..MaxChanges /\ rows' = {}
    BY <1>6, CacheAssumption DEF DeleteRow, Changed, TypeOK
  <2>2. clearing' \in BOOLEAN
    BY <1>6, Zenon DEF DeleteRow
  <2> QED BY <1>6, <2>1, <2>2 DEF DeleteRow, Changed, TypeOK, call, history
<1>7. CASE LogManual
  <2>1. [at |-> now, sql |-> TRUE] \in Entry
    BY DEF TypeOK, Entry
  <2>2. log' \subseteq Entry
    BY <1>7, <2>1 DEF LogManual, TypeOK
  <2>3. clearing' \in BOOLEAN
    BY <1>7, Zenon DEF LogManual
  <2> QED BY <1>7, <2>2, <2>3 DEF LogManual, TypeOK, world, call, history
<1> QED BY <1>1, <1>2, <1>3, <1>4, <1>5, <1>6, <1>7 DEF Around

\* The conjuncts of TypeOK about the processes.
LocalsTyped ==
    /\ pc \in [Processes -> {"idle", "fetch", "log", "archive", "filter", "extract",
                              "analyze", "store", "answer"}]
    /\ mode \in [Processes -> Modes] /\ url \in [Processes -> BOOLEAN]
    /\ loaded \in [Processes -> Rules] /\ cand \in [Processes -> SUBSET Row]
    /\ saw \in [Processes -> SUBSET Advisories] /\ draft \in [Processes -> Drafts]
    /\ fp \in [Processes -> Archives \union {NoArchive}]
    /\ answer \in [Processes -> SUBSET Hits]
    /\ moved \in [Processes -> BOOLEAN] /\ under \in [Processes -> BOOLEAN]

LEMMA FinishTyped ==
    ASSUME TypeOK, NEW p \in Processes, Finish(p) PROVE LocalsTyped'
<1>1. "strict" \in Modes /\ NoDraft \in Drafts
  BY CacheAssumption DEF NoDraft, Drafts, Times
<1> QED BY <1>1 DEF Finish, Goto, TypeOK, LocalsTyped

LEMMA MissTyped ==
    ASSUME TypeOK, NEW p \in Processes, Miss(p), UNCHANGED history PROVE LocalsTyped'
BY DEF Miss, Goto, TypeOK, LocalsTyped, history

LEMMA HitTyped ==
    ASSUME TypeOK, NEW p \in Processes, NEW r \in Row, NEW known \in SUBSET Advisories,
           Hit(p, r, known), UNCHANGED history
    PROVE  LocalsTyped'
<1>1. [row |-> r, served |-> served, listed |-> known] \in Hits /\ NoDraft \in Drafts
  BY CacheAssumption DEF NoDraft, Drafts, Times, Hits, TypeOK
<1> QED BY <1>1 DEF Hit, Goto, TypeOK, LocalsTyped, history

LEMMA GetTyped == ASSUME TypeOK, NEW p \in Processes, Get(p) PROVE TypeOK'
<1>1. CASE Fetch(p)
  <2>1. LocalsTyped'
    <3>1. CASE Miss(p)
      BY <1>1, <3>1, MissTyped DEF Fetch
    <3>2. CASE cand' = [cand EXCEPT ![p] = rows] /\ Goto(p, "log")
               /\ UNCHANGED <<mode, url, loaded, saw, draft, fp, answer>>
      BY <1>1, <3>2 DEF Fetch, Goto, TypeOK, LocalsTyped, history
    <3> QED BY <1>1, <3>1, <3>2 DEF Fetch
  <2> QED BY <1>1, <2>1 DEF Fetch, TypeOK, LocalsTyped, world, table
<1>2. CASE CheckLog(p)
  <2>1. PICK r \in cand[p] : CheckLog(p)!2!(r)
    BY <1>2 DEF CheckLog
  <2>2. r \in Row /\ listed \in SUBSET Advisories
    BY DEF TypeOK
  <2>3. LocalsTyped'
    <3>1. CASE Miss(p)
      BY <1>2, <3>1, MissTyped DEF CheckLog
    <3>2. CASE Hit(p, r, listed)
      BY <1>2, <2>2, <3>2, HitTyped DEF CheckLog
    <3>3. CASE saw' = [saw EXCEPT ![p] = listed] /\ Goto(p, "archive")
               /\ UNCHANGED <<mode, url, loaded, cand, draft, fp, answer>>
      BY <1>2, <3>3 DEF CheckLog, Goto, TypeOK, LocalsTyped, history
    <3> QED BY <2>1, <3>1, <3>2, <3>3
  <2> QED BY <1>2, <2>3 DEF CheckLog, TypeOK, LocalsTyped, world, table
<1>3. CASE CheckArchive(p)
  <2>1. PICK r \in cand[p] : CheckArchive(p)!2!(r)
    BY <1>3 DEF CheckArchive
  <2>2. r \in Row /\ saw[p] \in SUBSET Advisories /\ [at |-> now, sql |-> TRUE] \in Entry
    BY DEF TypeOK, Entry
  <2>3. LocalsTyped'
    BY <1>3, <2>1, <2>2, MissTyped, HitTyped DEF CheckArchive
  <2>4. log' \subseteq Entry
    BY <2>1, <2>2 DEF TypeOK
  <2> QED BY <1>3, <2>3, <2>4 DEF CheckArchive, TypeOK, LocalsTyped, world
<1>4. CASE Return(p)
  BY <1>4, FinishTyped DEF Return, TypeOK, LocalsTyped, world, table
<1> QED BY <1>1, <1>2, <1>3, <1>4 DEF Get

\* The draft stage 0A leaves to the analysis.
Drawn(looked) == [NoDraft EXCEPT !.since = IF looked THEN now ELSE 0, !.looked = looked]

LEMMA DrawnIsDraft ==
    ASSUME TypeOK, NEW looked \in BOOLEAN
    PROVE  /\ Drawn(looked) \in Drafts
           /\ Drawn(looked).since = IF looked THEN now ELSE 0
           /\ Drawn(looked).looked = looked
<1>1. ASSUME NEW d \in Drafts, NEW t \in Times
      PROVE  /\ [d EXCEPT !.since = t, !.looked = looked] \in Drafts
             /\ [d EXCEPT !.since = t, !.looked = looked].since = t
             /\ [d EXCEPT !.since = t, !.looked = looked].looked = looked
  BY Zenon DEF Drafts
<1>2. NoDraft \in Drafts /\ 0 \in Times /\ now \in Times
  BY CacheAssumption DEF TypeOK, Times, Drafts, NoDraft
<1>3. (IF looked THEN now ELSE 0) \in Times
  BY <1>2
<1> QED BY <1>1, <1>2, <1>3, Zenon DEF Drawn

LEMMA RunTyped == ASSUME TypeOK, NEW p \in Processes, Run(p) PROVE TypeOK'
<1>1. CASE CallAPI(p)
  <2>1. calls' \in 0..MaxCalls
    BY <1>1, CacheAssumption DEF CallAPI, Called, TypeOK
  <2>2. LocalsTyped'
    BY <1>1 DEF CallAPI, Goto, TypeOK, LocalsTyped, history
  <2> QED BY <1>1, <2>1, <2>2 DEF CallAPI, Called, TypeOK, LocalsTyped, table
<1>2. ASSUME NEW m \in Modes, CallPipeline(p, m) PROVE TypeOK'
  <2>1. calls' \in 0..MaxCalls
    BY <1>2, CacheAssumption DEF CallPipeline, Called, TypeOK
  <2>2. LocalsTyped'
    BY <1>2 DEF CallPipeline, Goto, TypeOK, LocalsTyped, history
  <2> QED BY <1>2, <2>1, <2>2 DEF CallPipeline, Called, TypeOK, LocalsTyped, table
<1>3. CASE Filter(p)
  <2>1. LocalsTyped'
    <3>1. CASE Finish(p)
      BY <3>1, FinishTyped
    <3>2. ASSUME ~Finish(p) PROVE LocalsTyped'
      <4>1. PICK looked \in BOOLEAN : draft' = [draft EXCEPT ![p] = Drawn(looked)]
        BY <1>3, <3>2 DEF Filter, Drawn
      <4>2. draft' \in [Processes -> Drafts]
        BY <4>1, DrawnIsDraft DEF TypeOK
      <4>3. /\ url' = [url EXCEPT ![p] = TRUE]
            /\ \E label \in {"fetch", "extract"} : pc' = [pc EXCEPT ![p] = label]
            /\ UNCHANGED <<mode, loaded, cand, saw, fp, answer, moved, under>>
        BY <1>3, <3>2 DEF Filter, Goto, history
      <4> QED BY <4>2, <4>3 DEF TypeOK, LocalsTyped
    <3> QED BY <3>1, <3>2
  <2> QED BY <1>3, <2>1 DEF Filter, TypeOK, LocalsTyped, world, table
<1>4. CASE Extract(p)
  <2>1. LocalsTyped'
    <3>1. [draft[p] EXCEPT !.of = served] \in Drafts
      BY DEF Drafts, TypeOK
    <3>2. CASE Finish(p)
      BY <3>2, FinishTyped
    <3>3. CASE ~Finish(p)
      BY <1>4, <3>1, <3>3 DEF Extract, Goto, TypeOK, LocalsTyped, history
    <3> QED BY <3>2, <3>3
  <2> QED BY <1>4, <2>1 DEF Extract, TypeOK, LocalsTyped, world, table
<1>5. CASE Analyze(p)
  <2>1. LocalsTyped'
    <3>1. CASE Finish(p)
      BY <3>1, FinishTyped
    <3>2. CASE ~Finish(p)
      BY <1>5, <3>2 DEF Analyze, Goto, TypeOK, LocalsTyped, history
    <3> QED BY <3>1, <3>2
  <2> QED BY <1>5, <2>1 DEF Analyze, TypeOK, LocalsTyped, world, table
<1>6. CASE Store(p)
  <2> DEFINE row == [report |-> draft[p], by |-> loaded[p], moved |-> moved[p],
                     under |-> under[p], altered |-> FALSE, sha |-> fp[p],
                     rules |-> disk, mode |-> mode[p], hmac |-> mode[p] = "paranoid",
                     at |-> now]
  <2>1. row \in Row
    BY DEF Row, TypeOK
  <2>2. LocalsTyped'
    BY <1>6, FinishTyped DEF Store
  <2>3. rows' = rows \/ rows' = {row}
    BY <1>6 DEF Store
  <2>4. rows' \subseteq Row /\ \A r, s \in rows' : r = s
    BY <2>1, <2>3 DEF TypeOK
  <2> QED BY <1>6, <2>2, <2>4 DEF Store, TypeOK, LocalsTyped, world
<1> QED BY <1>1, <1>2, <1>3, <1>4, <1>5, <1>6 DEF Run

LEMMA RestartTyped == ASSUME TypeOK, NEW p \in Processes, Restart(p) PROVE TypeOK'
<1>1. "strict" \in Modes /\ NoDraft \in Drafts
  BY CacheAssumption DEF NoDraft, Drafts, Times
<1>2. LocalsTyped'
  BY <1>1 DEF Restart, Goto, TypeOK, LocalsTyped
<1> QED BY <1>2 DEF Restart, TypeOK, LocalsTyped, world, table

\* Every variable keeps its type.
THEOREM TypeCorrect == Spec => []TypeOK
<1>1. ASSUME TypeOK, [Next]_vars PROVE TypeOK'
  <2>1. CASE UNCHANGED vars
    BY <1>1, <2>1 DEF TypeOK, vars, world, table, call, history
  <2>2. CASE Around
    BY <1>1, <2>2, AroundTyped
  <2>3. ASSUME NEW p \in Processes, Get(p) \/ Run(p) \/ Restart(p) PROVE TypeOK'
    BY <1>1, <2>3, GetTyped, RunTyped, RestartTyped
  <2> QED BY <1>1, <2>1, <2>2, <2>3 DEF Next
<1> QED BY <1>1, InitTyped, PTL DEF Spec

----------------------------------------------------------------------------
(* The invariant *)

\* Time goes on, and an advisory listed keeps its date.
Onward ==
    /\ now =< now' /\ listed \subseteq listed'
    /\ \A a \in listed : listedAt'[a] = listedAt[a]
    /\ \A a \in listed' \ listed : listedAt'[a] >= now

LEMMA DatedStays ==
    ASSUME TypeOK, TypeOK', Onward, NEW d \in Drafts, Dated(d)
    PROVE  Dated(d)'
<1>1. now \in Nat /\ now' \in Nat /\ d.since \in Nat
  BY CacheAssumption DEF TypeOK, Times, Drafts
<1>2. \A a \in listed' : listedAt'[a] \in Nat
  BY CacheAssumption DEF TypeOK, Times
<1> QED BY <1>1, <1>2 DEF Dated, Onward

LEMMA SoundStays ==
    ASSUME TypeOK, TypeOK', Onward, NEW r \in Row, Sound(r)
    PROVE  Sound(r)'
<1>1. r.report \in Drafts
  BY DEF Row
<1> QED BY <1>1, DatedStays DEF Sound

\* A step that leaves the locals of a process alone, and its histories up to date.
Aside(q) ==
    /\ pc'[q] = pc[q] /\ mode'[q] = mode[q] /\ url'[q] = url[q]
    /\ loaded'[q] = loaded[q] /\ cand'[q] = cand[q] /\ saw'[q] = saw[q]
    /\ draft'[q] = draft[q] /\ fp'[q] = fp[q] /\ answer'[q] = answer[q]
    /\ under[q] => under'[q]
    /\ disk' = disk \/ under'[q]
    /\ moved[q] => moved'[q]
    /\ served' = served \/ (pc[q] = "analyze" => moved'[q])

LEMMA AsideKeeps ==
    ASSUME IInv, TypeOK', Onward, NEW q \in Processes, Aside(q)
    PROVE  InCall(q)'
<1>1. Asked(q)'
  BY DEF IInv, InCall, Asked, Aside
<1>2. Fetched(q)'
  <2>1. \A r \in cand[q] : r \in Row /\ Sound(r)'
    BY SoundStays DEF IInv, InCall, Fetched, TypeOK
  <2>2. ASSUME NEW r \in cand[q], pc[q] = "archive" PROVE Known(r, saw[q])'
    BY <2>2 DEF IInv, InCall, Fetched, Known, Onward, Aside
  <2>3. saw'[q] \subseteq listed'
    BY DEF IInv, InCall, Fetched, Onward, Aside
  <2>4. \A r \in cand[q] : r.rules = disk' \/ under'[q]
    BY DEF IInv, InCall, Fetched, Aside
  <2> QED BY <2>1, <2>2, <2>3, <2>4 DEF IInv, InCall, Fetched, Known, Aside
<1>3. Drafted(q)'
  <2>1. PICK d \in Drafts : d = draft[q]
    BY DEF IInv, TypeOK
  <2>2. Dated(d)'
    BY <2>1, DatedStays DEF IInv, InCall, Drafted
  <2> QED BY <2>1, <2>2 DEF IInv, InCall, Drafted, Dated, Aside
<1>4. Answered(q)'
  <2>1. ASSUME NEW h \in answer[q]
        PROVE  Sound(h.row)' /\ Known(h.row, h.listed)' /\ h.listed \subseteq listed'
    <3>1. h.row \in Row
      BY DEF IInv, TypeOK, Hits
    <3>2. Sound(h.row) /\ h.listed \subseteq listed /\ Known(h.row, h.listed)
      BY DEF IInv, InCall, Answered
    <3> QED BY <3>1, <3>2, SoundStays DEF IInv, Known, Onward
  <2>2. \A h \in answer[q] : h.row.rules = disk' \/ under'[q]
    BY DEF IInv, InCall, Answered, Aside
  <2> QED BY <2>1, <2>2 DEF IInv, InCall, Answered, Known, Aside
<1> QED BY <1>1, <1>2, <1>3, <1>4 DEF InCall

LEMMA MissKeeps ==
    ASSUME IInv, NEW p \in Processes, pc[p] \in {"fetch", "log", "archive"}, Miss(p),
           UNCHANGED <<world, history>>
    PROVE  InCall(p)'
<1>1. /\ pc'[p] = (IF url[p] THEN "extract" ELSE "filter")
      /\ cand'[p] = {} /\ saw'[p] = {}
  BY DEF Miss, Goto, IInv, TypeOK
<1>2. Asked(p)' /\ Fetched(p)'
  BY <1>1 DEF Miss, IInv, InCall, Asked, Fetched
<1>3. Drafted(p)' /\ Answered(p)'
  BY <1>1 DEF Miss, IInv, InCall, Drafted, Answered, Dated, Sound, Known, world, history
<1> QED BY <1>2, <1>3 DEF InCall

LEMMA HitKeeps ==
    ASSUME IInv, NEW p \in Processes, pc[p] \in {"log", "archive"}, NEW r \in cand[p],
           NEW known \in SUBSET listed, Known(r, known), Hit(p, r, known),
           url[p] => r.sha = served, mode[p] = "paranoid" => (r.altered <=> ~r.hmac),
           UNCHANGED <<world, history>>
    PROVE  InCall(p)'
<1> DEFINE h == [row |-> r, served |-> served, listed |-> known]
<1>1. /\ pc'[p] = "answer" /\ answer'[p] = {h} /\ cand'[p] = {} /\ saw'[p] = {}
      /\ draft'[p] = NoDraft
  BY DEF Hit, Goto, IInv, TypeOK
<1>2. Asked(p)' /\ Fetched(p)'
  BY <1>1 DEF Hit, IInv, InCall, Asked, Fetched
<1>3. Drafted(p)'
  <2>1. NoDraft.since =< now /\ ~NoDraft.looked
    BY CacheAssumption DEF NoDraft, IInv, TypeOK, Times
  <2> QED BY <1>1, <2>1 DEF Hit, IInv, InCall, Drafted, Dated, world, history
<1>4. Answered(p)'
  <2>1. Sound(r) /\ (r.rules = disk \/ under[p])
    BY DEF IInv, InCall, Fetched
  <2> QED BY <1>1, <2>1 DEF Hit, Answered, Sound, Known, Dated, world, history
<1> QED BY <1>2, <1>3, <1>4 DEF InCall

LEMMA FinishKeeps ==
    ASSUME IInv, NEW p \in Processes, Finish(p), UNCHANGED world
    PROVE  InCall(p)'
<1>1. /\ pc'[p] = "idle" /\ mode'[p] = "strict" /\ url'[p] = TRUE /\ cand'[p] = {}
      /\ saw'[p] = {} /\ draft'[p] = NoDraft /\ answer'[p] = {}
  BY DEF Finish, Goto, IInv, TypeOK
<1>2. NoDraft.since =< now /\ ~NoDraft.looked
  BY CacheAssumption DEF NoDraft, IInv, TypeOK, Times
<1>3. Asked(p)' /\ Fetched(p)' /\ Answered(p)'
  BY <1>1 DEF Asked, Fetched, Answered
<1>4. Drafted(p)'
  BY <1>1, <1>2 DEF Finish, IInv, InCall, Drafted, Dated, world
<1> QED BY <1>3, <1>4 DEF InCall

LEMMA StepKeeps ==
    ASSUME IInv, TypeOK', Onward, Logged', \A q \in Processes : InCall(q)',
           \A r \in rows' : r \in rows \/ Sound(r)'
    PROVE  IInv'
<1>1. \A r \in rows : Sound(r)'
  BY SoundStays DEF IInv, TypeOK
<1> QED BY <1>1 DEF IInv

LEMMA AroundKeeps == ASSUME IInv, Around PROVE IInv'
<1>1. TypeOK /\ TypeOK' /\ now \in Nat
  BY AroundTyped, CacheAssumption DEF IInv, TypeOK, Times
<1>2. Onward
  <2>1. CASE Alter
    BY <1>1, <2>1 DEF Alter, Onward, TypeOK
  <2> QED BY <1>1, <2>1 DEF Around, Tick, Republish, Upgrade, ListAdvisory, DeleteRow, LogManual,
                            Changed, Onward, TypeOK, world, table
<1>3. \A q \in Processes : Aside(q)
  <2>1. CASE \E a \in Archives : Republish(a)
    BY <1>1, <2>1 DEF Republish, Changed, Aside, TypeOK, call
  <2>2. CASE \E r \in Rules : Upgrade(r)
    BY <1>1, <2>2 DEF Upgrade, Changed, Aside, TypeOK, call
  <2>3. CASE UNCHANGED <<served, disk, pc, call, history>>
    BY <2>3 DEF Aside, call, history
  <2> QED BY <2>1, <2>2, <2>3 DEF Around, Tick, ListAdvisory, Alter, DeleteRow, LogManual,
                                  world
<1>4. \A q \in Processes : InCall(q)'
  BY <1>1, <1>2, <1>3, AsideKeeps
<1>5. Logged'
  <2>1. ASSUME NEW a \in Advisories, ListAdvisory(a) PROVE Logged'
    <3>1. \A b \in Advisories : listedAt'[b] = IF b = a THEN now ELSE listedAt[b]
      BY <1>1, <2>1 DEF ListAdvisory, TypeOK
    <3>2. listed' = listed \union {a} /\ log \subseteq log'
      BY <2>1 DEF ListAdvisory
    <3>3. a \in SameSpelling => [at |-> now, sql |-> FALSE] \in log'
      BY <2>1 DEF ListAdvisory
    <3> QED BY <1>1, <3>1, <3>2, <3>3 DEF Logged, IInv, TypeOK
  <2>2. CASE UNCHANGED <<listed, listedAt>> /\ log \subseteq log'
    BY <2>2 DEF Logged, IInv
  <2> QED BY <2>1, <2>2 DEF Around, Tick, Republish, Upgrade, Alter, DeleteRow, LogManual,
                            world, table
<1>6. \A r \in rows' : r \in rows \/ Sound(r)'
  <2>1. ASSUME NEW r \in rows, NEW s \in Row, EditOf(r, s) PROVE Sound(s)'
    <3>1. r \in Row
      BY <1>1 DEF TypeOK
    <3>2. Sound(r)'
      BY <1>1, <1>2, <3>1, SoundStays DEF IInv
    <3> QED BY <2>1, <3>1, <3>2 DEF Sound, Dated, EditOf
  <2>2. CASE Alter
    BY <1>1, <2>1, <2>2, AlterEdits
  <2>3. CASE rows' \subseteq rows
    BY <2>3
  <2> QED BY <2>2, <2>3 DEF Around, Tick, Republish, Upgrade, ListAdvisory, DeleteRow,
                            LogManual, table
<1> QED BY <1>1, <1>2, <1>4, <1>5, <1>6, StepKeeps

\* Only the locals of p change.
Apart(p) ==
    \A q \in Processes \ {p} :
        /\ pc'[q] = pc[q] /\ mode'[q] = mode[q] /\ url'[q] = url[q]
        /\ loaded'[q] = loaded[q] /\ cand'[q] = cand[q] /\ saw'[q] = saw[q]
        /\ draft'[q] = draft[q] /\ fp'[q] = fp[q] /\ answer'[q] = answer[q]
        /\ moved'[q] = moved[q] /\ under'[q] = under[q]

LEMMA MissApart ==
    ASSUME TypeOK, NEW p \in Processes, Miss(p), UNCHANGED history PROVE Apart(p)
BY DEF Miss, Goto, TypeOK, history, Apart

LEMMA HitApart ==
    ASSUME TypeOK, NEW p \in Processes, NEW r, NEW known, Hit(p, r, known),
           UNCHANGED history
    PROVE  Apart(p)
BY DEF Hit, Goto, TypeOK, history, Apart

LEMMA FinishApart == ASSUME TypeOK, NEW p \in Processes, Finish(p) PROVE Apart(p)
BY DEF Finish, Goto, TypeOK, Apart

\* What a step of one process does to the rest.
LEMMA OthersKeep ==
    ASSUME IInv, TypeOK', NEW p \in Processes, Get(p) \/ Run(p) \/ Restart(p)
    PROVE  /\ Onward /\ Logged'
           /\ \A q \in Processes \ {p} : InCall(q)'
<1>1. UNCHANGED <<now, served, disk, listed, listedAt>> /\ log \subseteq log'
  BY DEF Get, Fetch, CheckLog, CheckArchive, Return, Run, CallAPI, CallPipeline, Called,
         Filter, Extract, Analyze, Store, Restart, world, table
<1>2. Apart(p)
  <2>1. CASE Fetch(p)
    BY <2>1, MissApart DEF Fetch, Goto, IInv, TypeOK, history, Apart
  <2>2. CASE CheckLog(p)
    <3>1. PICK r \in cand[p] : CheckLog(p)!2!(r)
      BY <2>2 DEF CheckLog
    <3>2. CASE Miss(p) \/ Hit(p, r, listed)
      BY <2>2, <3>2, MissApart, HitApart DEF CheckLog, IInv
    <3>3. CASE saw' = [saw EXCEPT ![p] = listed] /\ Goto(p, "archive")
               /\ UNCHANGED <<mode, url, loaded, cand, draft, fp, answer>>
      BY <2>2, <3>3 DEF CheckLog, Goto, IInv, TypeOK, history, Apart
    <3> QED BY <3>1, <3>2, <3>3
  <2>3. CASE CheckArchive(p)
    BY <2>3, MissApart, HitApart DEF CheckArchive, IInv
  <2>4. CASE Return(p) \/ Store(p)
    BY <2>4, FinishApart DEF Return, Store, IInv
  <2>5. CASE CallAPI(p) \/ \E m \in Modes : CallPipeline(p, m)
    BY <2>5 DEF CallAPI, CallPipeline, Goto, IInv, TypeOK, history, Apart
  <2>6. CASE Filter(p) \/ Extract(p) \/ Analyze(p)
    <3>1. CASE Finish(p)
      BY <3>1, FinishApart DEF IInv
    <3>2. CASE Filter(p) /\ ~Finish(p)
      BY <3>2 DEF Filter, Goto, IInv, TypeOK, history, Apart
    <3>3. CASE Extract(p) /\ ~Finish(p)
      BY <3>3 DEF Extract, Goto, IInv, TypeOK, history, Apart
    <3>4. CASE Analyze(p) /\ ~Finish(p)
      BY <3>4 DEF Analyze, Goto, IInv, TypeOK, history, Apart
    <3> QED BY <2>6, <3>1, <3>2, <3>3, <3>4
  <2>7. CASE Restart(p)
    BY <2>7 DEF Restart, Goto, IInv, TypeOK, Apart
  <2> QED BY <2>1, <2>2, <2>3, <2>4, <2>5, <2>6, <2>7 DEF Get, Run
<1>3. Onward
  BY <1>1, CacheAssumption DEF Onward, IInv, TypeOK, Times
<1>4. Logged'
  BY <1>1 DEF IInv, Logged
<1>5. \A q \in Processes \ {p} : Aside(q)
  BY <1>1, <1>2 DEF Aside, Apart
<1> QED BY <1>3, <1>4, <1>5, AsideKeeps

LEMMA GetKeeps == ASSUME IInv, TypeOK', NEW p \in Processes, Get(p) PROVE InCall(p)'
<1>1. CASE Fetch(p)
  <2>1. CASE Miss(p)
    BY <1>1, <2>1, MissKeeps DEF Fetch
  <2>2. ASSUME ~Miss(p) PROVE InCall(p)'
    <3>1. /\ cand'[p] = rows /\ pc'[p] = "log"
          /\ UNCHANGED <<mode, url, loaded, saw, draft, fp, answer, world, history>>
      BY <1>1, <2>2 DEF Fetch, Goto, IInv, TypeOK
    <3>2. ASSUME NEW r \in rows
          PROVE  r.rules = disk /\ (mode[p] = "paranoid" => r.mode = "paranoid")
      <4>1. Usable(p, r)
        BY <1>1, <2>2 DEF Fetch, IInv, TypeOK
      <4>2. r.mode \in {"fast", "strict", "paranoid"}
        BY CacheAssumption DEF IInv, TypeOK, Row
      <4> QED BY <4>1, <4>2 DEF Usable, rank
    <3>3. Fetched(p)'
      <4>1. \A r, s \in rows : r = s
        BY DEF IInv, TypeOK
      <4> QED BY <3>1, <3>2, <4>1 DEF IInv, InCall, Fetched, Sound, Dated, world, history
    <3>4. Asked(p)' /\ Drafted(p)'
      BY <1>1, <3>1 DEF Fetch, IInv, InCall, Asked, Drafted, Dated, world, history
    <3>5. Answered(p)'
      BY <1>1, <3>1 DEF Fetch, IInv, InCall, Answered
    <3> QED BY <3>3, <3>4, <3>5 DEF InCall
  <2> QED BY <2>1, <2>2
<1>2. CASE CheckLog(p)
  <2>1. PICK r \in cand[p] : CheckLog(p)!2!(r)
    BY <1>2 DEF CheckLog
  <2>2. CASE Miss(p)
    BY <1>2, <2>2, MissKeeps DEF CheckLog
  <2>3. ASSUME ~Miss(p), NEW s \in cand[p] PROVE Known(s, listed)
    <3>1. s = r
      BY DEF IInv, InCall, Fetched
    <3>2. \A e \in log : ~After(e, r.at)
      BY <2>1, <2>3
    <3>3. ASSUME NEW a \in listed \intersect SameSpelling PROVE listedAt[a] =< r.at
      <4>1. ~After([at |-> listedAt[a], sql |-> FALSE], r.at)
        BY <3>2 DEF IInv, Logged
      <4>2. listedAt[a] \in Int /\ r.at \in Int
        BY CacheAssumption DEF IInv, TypeOK, Row, Times
      <4> QED BY <4>1, <4>2 DEF After
    <3> QED BY <3>1, <3>3 DEF Known
  <2>4. CASE ~Miss(p) /\ ~url[p]
    <3>1. Hit(p, r, listed)
      BY <2>1, <2>4
    <3>2. mode[p] = "strict"
      BY <2>4 DEF IInv, InCall, Asked
    <3> QED BY <1>2, <2>3, <2>4, <3>1, <3>2, HitKeeps DEF CheckLog
  <2>5. CASE ~Miss(p) /\ url[p]
    <3>1. /\ saw'[p] = listed /\ pc'[p] = "archive"
          /\ UNCHANGED <<mode, url, loaded, cand, draft, fp, answer, world, history>>
      BY <1>2, <2>1, <2>5 DEF CheckLog, Goto, IInv, TypeOK
    <3>2. Fetched(p)'
      BY <2>3, <2>5, <3>1 DEF IInv, InCall, Fetched, Known, Sound, Dated, world, history
    <3>3. Asked(p)' /\ Drafted(p)'
      BY <1>2, <3>1 DEF CheckLog, IInv, InCall, Asked, Drafted, Dated, world, history
    <3>4. Answered(p)'
      BY <1>2, <3>1 DEF CheckLog, IInv, InCall, Answered
    <3> QED BY <3>2, <3>3, <3>4 DEF InCall
  <2> QED BY <2>2, <2>4, <2>5
<1>3. CASE CheckArchive(p)
  <2>1. PICK r \in cand[p] : CheckArchive(p)!2!(r)
    BY <1>3 DEF CheckArchive
  <2>2. CASE Miss(p)
    BY <1>3, <2>2, MissKeeps DEF CheckArchive
  <2>3. CASE ~Miss(p)
    <3>1. /\ Hit(p, r, saw[p]) /\ r.sha = served
          /\ ~(mode[p] = "paranoid" /\ r.hmac /\ r.altered)
      BY <2>1, <2>3 DEF Matches
    <3>2. /\ mode[p] = "paranoid" => r.hmac \/ r.altered
          /\ saw[p] \in SUBSET listed /\ Known(r, saw[p])
      BY <1>3 DEF CheckArchive, IInv, InCall, Fetched, Sound
    <3> QED BY <1>3, <3>1, <3>2, HitKeeps DEF CheckArchive
  <2> QED BY <2>2, <2>3
<1>4. CASE Return(p)
  BY <1>4, FinishKeeps DEF Return
<1> QED BY <1>1, <1>2, <1>3, <1>4 DEF Get

LEMMA RunKeeps == ASSUME IInv, TypeOK', NEW p \in Processes, Run(p) PROVE InCall(p)'
<1>1. CASE Finish(p) /\ UNCHANGED world
  BY <1>1, FinishKeeps
<1>2. ASSUME CallAPI(p) \/ \E m \in Modes : CallPipeline(p, m) PROVE InCall(p)'
  <2>1. /\ pc[p] = "idle" /\ pc'[p] \in {"fetch", "filter"}
        /\ pc'[p] = "fetch" => url'[p] = FALSE /\ mode'[p] = mode[p]
        /\ pc'[p] = "filter" => url'[p] = url[p]
        /\ UNCHANGED <<served, disk, now, listed, listedAt>>
        /\ UNCHANGED <<loaded, cand, saw, draft, fp, answer, history>>
    BY <1>2 DEF CallAPI, CallPipeline, Called, Goto, IInv, TypeOK
  <2>2. Asked(p)'
    BY <2>1 DEF IInv, InCall, Asked
  <2>3. Fetched(p)' /\ Answered(p)'
    BY <2>1 DEF IInv, InCall, Fetched, Answered
  <2>4. Drafted(p)'
    BY <2>1 DEF IInv, InCall, Drafted, Dated, history
  <2> QED BY <2>2, <2>3, <2>4 DEF InCall
<1>3. ASSUME Filter(p), ~Finish(p) PROVE InCall(p)'
  <2>1. PICK looked \in BOOLEAN : /\ looked => listed = {}
                                  /\ draft' = [draft EXCEPT ![p] = Drawn(looked)]
    BY <1>3 DEF Filter, Drawn
  <2>2. /\ pc[p] = "filter" /\ pc'[p] \in {"fetch", "extract"} /\ url'[p] = TRUE
        /\ draft'[p] = Drawn(looked)
        /\ UNCHANGED <<mode, loaded, cand, saw, fp, answer, world, history>>
    BY <1>3, <2>1 DEF Filter, Goto, IInv, TypeOK
  <2>3. Asked(p)' /\ Fetched(p)' /\ Answered(p)'
    BY <2>2 DEF IInv, InCall, Asked, Fetched, Answered, world
  <2>4. Drawn(looked).since =< now /\ (Drawn(looked).looked => listed = {})
    BY <2>1, DrawnIsDraft, CacheAssumption DEF IInv, TypeOK, Times
  <2>5. Drafted(p)'
    BY <2>2, <2>4 DEF IInv, InCall, Drafted, Dated, world, history
  <2> QED BY <2>3, <2>5 DEF InCall
<1>4. ASSUME Extract(p), ~Finish(p) PROVE InCall(p)'
  <2>1. /\ pc[p] = "extract" /\ pc'[p] = "analyze"
        /\ draft'[p] = [draft[p] EXCEPT !.of = served]
        /\ UNCHANGED <<mode, url, loaded, cand, saw, fp, answer, world, history>>
    BY <1>4 DEF Extract, Goto, IInv, TypeOK
  <2>2. /\ draft'[p].of = served /\ draft'[p].since = draft[p].since
        /\ draft'[p].looked = draft[p].looked
    BY <2>1 DEF IInv, TypeOK, Drafts
  <2>3. Asked(p)' /\ Fetched(p)' /\ Answered(p)'
    BY <2>1 DEF IInv, InCall, Asked, Fetched, Answered, world
  <2>4. Drafted(p)'
    BY <2>1, <2>2 DEF IInv, InCall, Drafted, Dated, world, history
  <2> QED BY <2>3, <2>4 DEF InCall
<1>5. ASSUME Analyze(p), ~Finish(p) PROVE InCall(p)'
  <2>1. /\ pc[p] = "analyze" /\ pc'[p] = "store" /\ fp'[p] \in {served, NoArchive}
        /\ UNCHANGED <<mode, url, loaded, cand, saw, draft, answer, world, history>>
    BY <1>5 DEF Analyze, Goto, IInv, TypeOK
  <2>2. Asked(p)' /\ Fetched(p)' /\ Answered(p)'
    BY <2>1 DEF IInv, InCall, Asked, Fetched, Answered, world
  <2>3. Drafted(p)'
    BY <2>1 DEF IInv, InCall, Drafted, Dated, world, history
  <2> QED BY <2>2, <2>3 DEF InCall
<1> QED BY <1>1, <1>2, <1>3, <1>4, <1>5 DEF Run, Filter, Extract, Analyze, Store

LEMMA RestartKeeps == ASSUME IInv, NEW p \in Processes, Restart(p) PROVE InCall(p)'
<1>1. /\ pc'[p] = "idle" /\ mode'[p] = "strict" /\ url'[p] = TRUE /\ cand'[p] = {}
      /\ saw'[p] = {} /\ draft'[p] = NoDraft /\ answer'[p] = {} /\ loaded'[p] = disk
      /\ UNCHANGED world
  BY DEF Restart, Goto, IInv, TypeOK
<1>2. NoDraft.since =< now /\ ~NoDraft.looked
  BY CacheAssumption DEF NoDraft, IInv, TypeOK, Times
<1>3. Asked(p)' /\ Fetched(p)' /\ Answered(p)'
  BY <1>1 DEF Asked, Fetched, Answered
<1>4. Drafted(p)'
  BY <1>1, <1>2 DEF Drafted, Dated, world
<1> QED BY <1>3, <1>4 DEF InCall

\* What put writes is sound: the hash is of the archive analysed, or it moved.
LEMMA StoreSound ==
    ASSUME IInv, NEW p \in Processes, Store(p)
    PROVE  \A r \in rows' : r \in rows \/ Sound(r)'
<1> DEFINE row == [report |-> draft[p], by |-> loaded[p], moved |-> moved[p],
                   under |-> under[p], altered |-> FALSE, sha |-> fp[p],
                   rules |-> disk, mode |-> mode[p], hmac |-> mode[p] = "paranoid",
                   at |-> now]
<1>1. ASSUME NEW r, r = row PROVE Sound(r)'
  <2>1. /\ r.report = draft[p] /\ r.by = loaded[p] /\ r.moved = moved[p]
        /\ r.under = under[p] /\ r.sha = fp[p] /\ r.rules = disk
        /\ r.mode = "paranoid" => r.hmac
    BY <1>1
  <2>2. Drafted(p) /\ pc[p] = "store" /\ UNCHANGED world
    BY DEF IInv, InCall, Store
  <2> QED BY <2>1, <2>2 DEF Drafted, Sound, Dated, world
<1>2. rows' = rows \/ rows' = {row}
  BY DEF Store
<1> QED BY <1>1, <1>2

LEMMA Inductive == ASSUME IInv, [Next]_vars PROVE IInv'
<1>1. CASE UNCHANGED vars
  BY <1>1 DEF vars, world, table, call, history, IInv, TypeOK, Logged, Sound, Dated, InCall,
              Asked, Fetched, Drafted, Answered, Known
<1>2. CASE Around
  BY <1>2, AroundKeeps
<1>3. ASSUME NEW p \in Processes, Get(p) \/ Run(p) \/ Restart(p) PROVE IInv'
  <2>1. TypeOK'
    BY <1>3, GetTyped, RunTyped, RestartTyped DEF IInv
  <2>2. Onward /\ Logged' /\ \A q \in Processes : InCall(q)'
    BY <1>3, <2>1, OthersKeep, GetKeeps, RunKeeps, RestartKeeps
  <2>3. \A r \in rows' : r \in rows \/ Sound(r)'
    <3>1. CASE Store(p)
      BY <3>1, StoreSound
    <3>2. CASE rows' = rows
      BY <3>2
    <3> QED BY <1>3, <3>1, <3>2 DEF Get, Fetch, CheckLog, CheckArchive, Return, Run, CallAPI,
              CallPipeline, Filter, Extract, Analyze, Restart, table
  <2> QED BY <2>1, <2>2, <2>3, StepKeeps
<1> QED BY <1>1, <1>2, <1>3 DEF Next

LEMMA Initially == Init => IInv
<1> SUFFICES ASSUME Init PROVE IInv
  OBVIOUS
<1>1. TypeOK
  BY InitTyped
<1>2. Logged /\ \A r \in rows : Sound(r)
  BY DEF Init, Logged
<1>3. ASSUME NEW p \in Processes PROVE InCall(p)
  <2>1. NoDraft.since =< now /\ ~NoDraft.looked
    BY CacheAssumption DEF NoDraft, Init
  <2> QED BY <2>1 DEF Init, InCall, Asked, Fetched, Drafted, Answered, Dated
<1> QED BY <1>1, <1>2, <1>3 DEF IInv

LEMMA Invariant == Spec => []IInv
BY Initially, Inductive, PTL DEF Spec

----------------------------------------------------------------------------
(* What a hit may be wrong about *)

\* A hit that was compared with the archive is of the archive served, unless the
\* analysis that put it saw the archive replaced between download and fingerprint, or
\* the row was altered.
THEOREM Fresh == Spec => []FreshUnlessMoved
<1>1. IInv => FreshUnlessMoved
  <2> SUFFICES ASSUME IInv, NEW p \in Processes, NEW h \in answer[p],
                      url[p], h.row.report.of # h.served
               PROVE  h.row.moved \/ h.row.altered
    BY DEF FreshUnlessMoved
  <2>1. Sound(h.row) /\ h.row.sha = h.served /\ h.served # NoArchive
    BY CacheAssumption DEF IInv, InCall, Answered, TypeOK, Hits
  <2> QED BY <2>1 DEF Sound
<1> QED BY <1>1, Invariant, PTL

\* A hit that hides an advisory spelt as the request was made while it came.
THEOREM HiddenHasCause == Spec => []HiddenAdvisoryHasCause
<1>1. IInv => HiddenAdvisoryHasCause
  <2> SUFFICES ASSUME IInv, NEW p \in Processes, NEW h \in answer[p], NEW a \in SameSpelling,
                      a \in h.listed, h.row.report.looked
               PROVE  listedAt[a] \in h.row.report.since..h.row.at
    BY DEF HiddenAdvisoryHasCause
  <2>1. Sound(h.row) /\ Known(h.row, h.listed) /\ a \in listed
    BY DEF IInv, InCall, Answered
  <2>2. h.row.report.since =< listedAt[a] /\ listedAt[a] =< h.row.at
    BY <2>1 DEF Sound, Dated, Known
  <2>3. listedAt[a] \in Int /\ h.row.report.since \in Int /\ h.row.at \in Int
    BY CacheAssumption DEF IInv, TypeOK, Hits, Row, Drafts, Times
  <2> QED BY <2>2, <2>3
<1> QED BY <1>1, Invariant, PTL

\* A hit was made by the rules on disk, or they were replaced under a process, or the
\* row was altered.
THEOREM RulesAreThose == Spec => []RulesUnlessUpgraded
<1>1. IInv => RulesUnlessUpgraded
  BY DEF IInv, InCall, Answered, Sound, RulesUnlessUpgraded
<1> QED BY <1>1, Invariant, PTL

\* A lookup in mode paranoid answers with rows as put wrote them and with altered rows
\* that have no HMAC left: the check of the HMAC, which rows without one pass, and the
\* order of the modes make exactly this difference.
THEOREM ParanoidSees == Spec => []ParanoidSeesAlteration
<1>1. IInv => ParanoidSeesAlteration
  BY DEF IInv, InCall, Answered, ParanoidSeesAlteration
<1> QED BY <1>1, Invariant, PTL
=============================================================================
