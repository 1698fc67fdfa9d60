----------------------------- MODULE Indicators -----------------------------
(***************************************************************************)
(* What stages 4 to 4E see in the sequence of API calls of a file and in   *)
(* its source: techniques (by likeness and by rule), calls unlike those of *)
(* the package's kind, indicators, and patterns in the order of the calls. *)
(* Pure operators.                                                         *)
(*                                                                         *)
(* A file of stage 2 is its path, whether it is an install hook (hook) or  *)
(* a package's __init__.py (init), and its calls: the API, its dimension,  *)
(* and what the snippet says.  A source is its path, language and the      *)
(* text patterns found as it stands (text) and in what could be decoded    *)
(* (decoded).  Confidences are in hundredths.                              *)
(***************************************************************************)
EXTENDS Integers, Sequences
Rules == INSTANCE VerdictRules

Dims(f) == {f.calls[n].dim : n \in DOMAIN f.calls}
ApiNames(f) == {f.calls[n].api : n \in DOMAIN f.calls}

----------------------------------------------------------------------------
(* Stage 4: techniques *)

requiredDims == [T1552_001 |-> {"INFORMATION_READING", "DATA_TRANSMISSION"},
                 T1048_003 |-> {"INFORMATION_READING", "ENCODING", "DATA_TRANSMISSION"},
                 T1027 |-> {"ENCODING", "PAYLOAD_EXECUTION"},
                 T1105 |-> {"DATA_TRANSMISSION", "PAYLOAD_EXECUTION"},
                 T1059 |-> {"PAYLOAD_EXECUTION"}]
ApplyRules(f) == {ttp \in DOMAIN requiredDims : f.calls # <<>> /\ requiredDims[ttp] \subseteq Dims(f)}

\* match_ttps; near are the techniques most like the text of a file, [ttp, similarity].
\* Without the index of techniques the stage fails, its rules included.
MatchTtps(files, near, indexed) ==
    IF ~indexed THEN {}
    ELSE UNION {{[file |-> f.path, ttp |-> t.ttp, similarity |-> t.similarity] :
                    t \in {s \in near[f.path] : f.calls # <<>> /\ s.similarity >= 70}}
                \union {[file |-> f.path, ttp |-> ttp, similarity |-> 100] : ttp \in ApplyRules(f)} :
                f \in files}

----------------------------------------------------------------------------
(* Stage 4B: anomalies *)

Categories == <<"parser", "formatter", "date_utility", "math_utility">>

allowed == [parser |-> {"INFORMATION_READING"}, formatter |-> {}, date_utility |-> {},
            math_utility |-> {}]

disallowed == [parser |-> {"requests.post", "requests.get", "subprocess.run", "subprocess.Popen",
                           "os.system", "child_process.exec", "child_process.spawn",
                           "http.request", "https.request", "fetch", "eval", "exec"},
               formatter |-> {"requests.post", "requests.get", "subprocess.run",
                              "subprocess.Popen", "http.request", "fetch", "eval", "exec",
                              "os.environ.get", "process.env"},
               date_utility |-> {"requests.post", "subprocess.run", "http.request", "fetch",
                                 "eval", "exec", "os.environ.get"},
               math_utility |-> {"requests.post", "subprocess.run", "os.environ.get",
                                 "http.request", "fetch", "eval", "exec"}]

\* The first category, in that order, a keyword of which name or description
\* contain; suggested are those whose keywords they do contain.
GuessCategory(suggested) ==
    {Categories[n] : n \in {k \in DOMAIN Categories :
        /\ Categories[k] \in suggested
        /\ \A m \in 1..(k - 1) : Categories[m] \notin suggested}}

Anomalous(f, category) ==
    \/ ApiNames(f) \intersect disallowed[category] # {}
    \/ (Dims(f) \ allowed[category])
           \intersect {"DATA_TRANSMISSION", "PAYLOAD_EXECUTION", "ENCODING"} # {}

DetectAnomalies(files, suggested) ==
    {f \in files : \E category \in GuessCategory(suggested) : Anomalous(f, category)}

----------------------------------------------------------------------------
(* Stage 4C: indicators *)

High == {"EXS-001", "EXS-002", "EXS-003", "EXM-001", "EXM-003", "EXM-004", "EXM-006", "EXM-007",
         "EXM-008", "EXF-001", "EXF-002", "EXF-003", "EXF-004", "EXF-005", "SYS-001", "SYS-002",
         "SYS-003", "SYS-009", "NET-002", "NET-003", "NET-004", "NET-005", "NET-006", "NET-007",
         "NET-008", "DEF-003", "DEF-004", "DEF-005", "MET-006", "DOW-001", "DOW-002"}
Low == {"DEF-006", "MET-004"}
SeverityOf(code) == IF code \in High THEN "HIGH" ELSE IF code \in Low THEN "LOW" ELSE "MEDIUM"

IndicatorHit(code, path, confidence) == [code |-> code, file |-> path, confidence |-> confidence]

Shells == {"os.system", "os.popen", "subprocess.run", "subprocess.Popen", "subprocess.call"}
Recon == {"platform.uname", "platform.system", "socket.gethostname", "getpass.getuser", "os.uname"}
Decoders == {"base64.b64decode", "base64.urlsafe_b64decode", "codecs.decode", "bytes.fromhex"}

Calls(f, apis) == ApiNames(f) \intersect apis # {}
Says(f, word) == \E n \in DOMAIN f.calls : word \in f.calls[n].says

\* _match_from_sequence: the indicators the calls of a file can show, with their
\* confidence, and those they do.
sequenceConfidence == {<<"EXS-001", 70>>, <<"EXS-002", 85>>, <<"EXM-001", 85>>, <<"EXM-005", 70>>,
                       <<"EXM-006", 85>>, <<"EXM-008", 75>>, <<"EXF-001", 85>>, <<"SYS-005", 60>>,
                       <<"NET-009", 80>>, <<"NET-010", 60>>, <<"DEF-003", 70>>}
Shows(f, code) ==
    CASE code = "EXS-001" -> f.init
      [] code = "EXS-002" -> f.hook
      [] code = "EXM-001" -> Calls(f, {"exec", "eval"})
      [] code = "EXM-005" -> Calls(f, {"__import__", "importlib.import_module"})
      [] code = "EXM-006" -> Says(f, "pip install")
      [] code = "EXM-008" -> Calls(f, Shells)
      [] code = "EXF-001" -> {"INFORMATION_READING", "DATA_TRANSMISSION"} \subseteq Dims(f)
      [] code = "SYS-005" -> Calls(f, Recon)
      [] code = "NET-009" -> Says(f, "verify=False")
      [] code = "NET-010" -> \E n \in DOMAIN f.calls :
                                f.calls[n].dim = "DATA_TRANSMISSION" /\ "http://" \in f.calls[n].says
      [] code = "DEF-003" -> Calls(f, Decoders)
SequenceHits(f) == {IndicatorHit(p[1], f.path, p[2]) :
                       p \in {q \in sequenceConfidence : f.calls # <<>> /\ Shows(f, q[1])}}

\* The text patterns, several of which may be of one code and confidence.
Text == {<<"EXS-003", 85>>, <<"EXM-001", 80>>, <<"EXM-002", 40>>, <<"EXM-002", 50>>, <<"EXM-002", 60>>,
         <<"EXM-003", 70>>, <<"EXM-003", 85>>, <<"EXM-003", 90>>, <<"EXM-004", 80>>, <<"EXM-005", 85>>,
         <<"EXM-006", 60>>, <<"EXM-006", 65>>, <<"EXM-006", 70>>, <<"EXM-006", 85>>, <<"EXM-007", 80>>,
         <<"EXF-001", 85>>, <<"EXF-003", 60>>, <<"EXF-003", 70>>, <<"EXF-003", 85>>, <<"EXF-004", 95>>,
         <<"EXF-005", 85>>, <<"EXF-005", 95>>, <<"SYS-001", 85>>, <<"SYS-002", 85>>, <<"SYS-003", 90>>,
         <<"SYS-003", 95>>, <<"SYS-004", 60>>, <<"SYS-005", 70>>, <<"SYS-005", 85>>, <<"SYS-005", 95>>,
         <<"SYS-007", 85>>, <<"SYS-009", 85>>, <<"NET-001", 70>>, <<"NET-002", 95>>, <<"NET-007", 95>>,
         <<"NET-008", 90>>, <<"NET-009", 80>>, <<"DEF-005", 70>>, <<"DEF-005", 85>>, <<"DEF-005", 93>>,
         <<"DEF-005", 95>>, <<"DEF-006", 40>>, <<"DOW-001", 85>>, <<"DOW-001", 88>>, <<"DOW-002", 92>>}

\* A package.json is read for the scripts npm runs on its own: those with a
\* dangerous command are indicators.  What is no JSON is passed over; what is JSON
\* but no object fails the stage.
Hooks == {"preinstall", "postinstall", "install", "preuninstall", "preprepare", "prepare"}
ManifestHits(source) ==
    {IndicatorHit(p[1], source.path, p[2]) : p \in {q \in {<<"EXS-002", 95>>, <<"EXM-008", 90>>} :
        source.json = "object" /\ source.dangerous \intersect Hooks # {}}}
MatchFails(sources) == \E source \in sources : source.manifest /\ source.json = "other"

TextHits(source) ==
    IF source.manifest THEN ManifestHits(source)
    ELSE {IndicatorHit(p[1], source.path, p[2]) :
             p \in {q \in source.text \union source.decoded :
                       source.language \in {"python", "javascript"}}}

\* Of the author and the description (empty when the registry says nothing), and
\* of the declared dependencies.
metadataConfidence == {<<"MET-001", 60>>, <<"MET-004", 40>>, <<"MET-004", 30>>, <<"MET-003", 55>>}
MetadataShows(meta, p) ==
    CASE p[1] = "MET-001" -> meta.author = "placeholder"
      [] p = <<"MET-004", 40>> -> "short" \in meta.description
      [] p = <<"MET-004", 30>> -> "odd words" \in meta.description
      [] p[1] = "MET-003" -> /\ "parser" \in meta.description
                             /\ meta.deps \intersect {"subprocess32", "psutil", "pyminizip"} # {}
MetadataHits(meta) == {IndicatorHit(p[1], "<metadata>", p[2]) :
                          p \in {q \in metadataConfidence : MetadataShows(meta, q)}}

\* Of one indicator in one file, the most confident hit is kept.
Dedup(hits) == {h \in hits : \A o \in hits :
                    o.code = h.code /\ o.file = h.file => o.confidence <= h.confidence}

MatchAll(files, sources, meta) ==
    IF MatchFails(sources) THEN {}
    ELSE Dedup((UNION {SequenceHits(f) : f \in files}) \union (UNION {TextHits(s) : s \in sources})
               \union MetadataHits(meta))

\* Indicators common in honest packages are evidence only in a file that also shows
\* a decisive one.
StandaloneWeak == {"EXM-001", "EXS-001", "SYS-005", "SYS-004", "DEF-006", "MET-004", "MET-001",
                   "EXM-005", "DEF-003"}
Decisive == {"EXF-001", "EXF-002", "EXF-003", "EXF-004", "EXF-005", "NET-002", "NET-007", "NET-008",
             "EXS-002", "EXS-003", "EXM-006", "EXM-008", "DEF-005"}

CodesIn(hits, path) == {h.code : h \in {o \in hits : o.file = path}}
IndicatorEvidence(h, hits) ==
    Rules!Indicator(SeverityOf(h.code), h.confidence,
                    h.code \in StandaloneWeak /\ CodesIn(hits, h.file) \intersect Decisive = {})

----------------------------------------------------------------------------
(* Stage 4E: patterns in the order of the calls *)

Slot(dim, min, max) == [dim |-> dim, min |-> min, max |-> max]

slots == [SP_001 |-> <<Slot("INFORMATION_READING", 1, 5), Slot("ENCODING", 0, 3),
                       Slot("DATA_TRANSMISSION", 1, 2)>>,
          SP_002 |-> <<Slot("DATA_TRANSMISSION", 1, 2), Slot("PAYLOAD_EXECUTION", 1, 2)>>,
          SP_003 |-> <<Slot("ENCODING", 1, 3), Slot("PAYLOAD_EXECUTION", 1, 2)>>,
          SP_004 |-> <<Slot("INFORMATION_READING", 2, 10), Slot("DATA_TRANSMISSION", 1, 2)>>,
          SP_005 |-> <<Slot("INFORMATION_READING", 1, 3), Slot("PAYLOAD_EXECUTION", 1, 2)>>,
          SP_006 |-> <<Slot("INFORMATION_READING", 1, 10), Slot("ENCODING", 1, 5),
                       Slot("PAYLOAD_EXECUTION", 1, 3), Slot("DATA_TRANSMISSION", 1, 3)>>]

PatternSeverity(pattern) == IF pattern \in {"SP_004", "SP_005"} THEN "MEDIUM" ELSE "HIGH"

\* Calls from + 1 to to are some that the slot takes, and all it can take there.
Takes(calls, from, to, slot) ==
    /\ to - from \in slot.min..slot.max
    /\ \A n \in (from + 1)..to : calls[n].dim = slot.dim
Greedily(calls, from, to, slot) ==
    /\ Takes(calls, from, to, slot)
    /\ to - from = slot.max \/ to = Len(calls) \/ calls[to + 1].dim # slot.dim

\* _match_pattern_at: cut[k] is the number of the last call slot k took, and the
\* first slot starts after cut[0].  A slot that took too little ends the attempt:
\* nothing is given back.
MatchesAt(calls, pattern, start) ==
    \E cut \in [0..Len(slots[pattern]) -> start..Len(calls)] :
        /\ cut[0] = start
        /\ \A k \in 1..Len(slots[pattern]) : Greedily(calls, cut[k - 1], cut[k], slots[pattern][k])

\* The patterns of a file, each reported once.
Mine(f) == {pattern \in DOMAIN slots : \E start \in 0..(Len(f.calls) - 1) :
                MatchesAt(f.calls, pattern, start)}
SequenceEvidence(f) == {Rules!Pattern(PatternSeverity(p)) : p \in Mine(f)}
=============================================================================
