---------------------------- MODULE TaintSlicer ----------------------------
(***************************************************************************)
(* Stage 4D and the cross-file analyses next to it: which calls of a sink  *)
(* receive data that came from a source.  The slicer reads the text from   *)
(* top to bottom, keeps the first origin it can give a name, and never     *)
(* takes a taint back.  A program is written here statement by statement,  *)
(* and what the slicer knows of each name is kept beside what the program  *)
(* really does with it.                                                    *)
(*                                                                         *)
(* The files that are imported from are read first (for their exports),    *)
(* the file analysed is the last.  The arguments of a call are the names   *)
(* collected from its argument expressions.                                *)
(***************************************************************************)
EXTENDS Integers, Sequences, FiniteSets, SequencesExt, FiniteSetsExt

CONSTANTS
    Vars,           \* names of variables
    Files,          \* the modules, as paths, in the order they are read
    Analyses,       \* the analyses considered, a subset of Analysis
    MaxLines,       \* bound: statements in all the files
    MaxArgs         \* bound: arguments of a call

\* analyze_python with or without the cross-file pass, analyze_file on JavaScript,
\* analyze_javascript_cross_file.
Analysis == {"python", "javascript", "javascript cross"}

ASSUME SlicerAssumption ==
    /\ Files \in Seq(Seq(STRING)) /\ Files # <<>> /\ IsInjective(Files)
    /\ \A f \in DOMAIN Files : Files[f] # <<>>
    /\ Analyses \subseteq Analysis
    /\ MaxLines \in Nat /\ MaxArgs \in Nat \ {0}

Main == Len(Files)
Origin == [file : DOMAIN Files, line : 1..MaxLines]
Flow == [var : Vars, origin : Origin, line : 1..MaxLines]
Arguments == UNION {[1..n -> Vars] : n \in 1..MaxArgs}

\* How data came to a name: by steps the slicer follows all of, or also by a call of
\* encode or decode on a variable, which it does not follow.
Route == {"followed", "recoded"}

VARIABLES
    analysis,
    file,           \* the file being read
    line,           \* statements read, in all the files
    head,           \* still in the part whose order does not matter
    tainted,        \* analyzer.tainted: the origin of each name tainted
    exports,        \* what pass 1 found in the files read before
    flows,          \* reported
    now,            \* whether each name of each file holds data of a source, and
                    \* by which steps it came there
    ever,           \* what each name may have held at any point, in any scope
    leaks           \* calls of a sink that received such data, by the same steps

vars == <<analysis, file, line, head, tainted, exports, flows, now, ever, leaks>>

Nothing == [f \in DOMAIN Files |-> [x \in Vars |-> {}]]
Untainted == [x \in {} |-> 0]

TypeOK ==
    /\ analysis \in Analysis /\ file \in DOMAIN Files /\ line \in 0..MaxLines
    /\ head \in BOOLEAN
    /\ DOMAIN tainted \subseteq Vars /\ \A x \in DOMAIN tainted : tainted[x] \in Origin
    /\ DOMAIN exports = 1..(file - 1)
    /\ \A f \in DOMAIN exports : /\ DOMAIN exports[f] \subseteq Vars
                                 /\ \A x \in DOMAIN exports[f] : exports[f][x] \in Origin
    /\ flows \subseteq Flow /\ leaks \subseteq [line : 1..MaxLines, route : Route]
    /\ now \in [DOMAIN Files -> [Vars -> SUBSET Route]]
    /\ ever \in [DOMAIN Files -> [Vars -> SUBSET Origin]]

Init ==
    /\ analysis \in Analyses
    /\ file = IF analysis = "javascript" THEN Main ELSE 1
    /\ line = 0 /\ head = TRUE
    /\ tainted = Untainted /\ exports = [f \in 1..(file - 1) |-> Untainted]
    /\ flows = {} /\ leaks = {} /\ now = Nothing /\ ever = Nothing

----------------------------------------------------------------------------
(* Statements the slicer follows *)

\* Python follows a source wherever it stands, in the text's order.  JavaScript takes
\* the declarations of the top level first - and in the cross-file analysis, those
\* of the files imported from only.
SeesSource == \/ analysis = "python"
              \/ head /\ (analysis = "javascript" \/ file # Main)

\* The first pass over JavaScript looks at declarations only.
SeesSteps == ~head /\ (analysis = "python" \/ file = Main)

Taint(x, origin) == [y \in DOMAIN tainted \union {x} |-> IF y = x THEN origin ELSE tainted[y]]
Holds(x, routes) == [now EXCEPT ![file][x] = routes]
MayHold(x, origins) == [ever EXCEPT ![file][x] = @ \union origins]
Here == [file |-> file, line |-> line + 1]
Write == line < MaxLines /\ line' = line + 1

\* x = os.getenv(..), with open(..) as x: a new origin.
Source ==
    /\ Write /\ SeesSource
    /\ \E x \in Vars : /\ tainted' = Taint(x, Here)
                       /\ now' = Holds(x, {"followed"}) /\ ever' = MayHold(x, {Here})
    /\ UNCHANGED <<analysis, file, head, exports, flows, leaks>>

\* The same in a function, to a variable of its own: the slicer knows no scopes,
\* and the first pass, meant for the module level, descends into functions.
SourceInFunction ==
    /\ Write /\ analysis = "python"
    /\ \E x \in Vars : tainted' = Taint(x, Here) /\ ever' = MayHold(x, {Here})
    /\ UNCHANGED <<analysis, file, head, exports, flows, now, leaks>>

\* The first of the names that is tainted.
FirstTainted(args) == args[Min({i \in DOMAIN args : args[i] \in DOMAIN tainted})]
SomeTainted(args) == \E i \in DOMAIN args : args[i] \in DOMAIN tainted

\* What a name assigned from others is known to be: a plausible bug looks at the
\* first argument only.
BugPassed(x, args) ==
    IF args[1] \in DOMAIN tainted THEN Taint(x, tainted[args[1]]) ELSE tainted

Passed(x, args) == IF SomeTainted(args) THEN Taint(x, tainted[FirstTainted(args)]) ELSE tainted

\* x = transform(args): tainted by the first tainted argument, by none as before.
Transform ==
    /\ Write /\ SeesSteps
    /\ \E x \in Vars, args \in Arguments :
        /\ tainted' = Passed(x, args)
        /\ now' = Holds(x, UNION {now[file][args[i]] : i \in DOMAIN args})
        /\ ever' = MayHold(x, UNION {ever[file][args[i]] : i \in DOMAIN args})
    /\ UNCHANGED <<analysis, file, head, exports, flows, leaks>>

\* x = y, and in Python x = y.method(..) but for the two methods below.
Copy ==
    /\ Write /\ SeesSteps
    /\ \E x, y \in Vars : /\ tainted' = Passed(x, <<y>>)
                          /\ now' = Holds(x, now[file][y]) /\ ever' = MayHold(x, ever[file][y])
    /\ UNCHANGED <<analysis, file, head, exports, flows, leaks>>

\* x = y.encode(..) and x = y.decode(..) in Python are taken for transformations of
\* their arguments (here: names of encodings, constants): the receiver is not looked
\* at, and x stays what it was known to be.
Recode ==
    /\ Write /\ SeesSteps /\ analysis = "python"
    /\ \E x, y \in Vars : /\ now' = Holds(x, {"recoded" : r \in now[file][y]})
                          /\ ever' = MayHold(x, ever[file][y])
    /\ UNCHANGED <<analysis, file, head, tainted, exports, flows, leaks>>

\* Every other assignment - a constant, an expression, the result of an unknown
\* call, an augmented or multiple assignment - leaves the taints alone.
OtherAssignment ==
    /\ Write
    /\ \E x \in Vars : now' = Holds(x, {})
    /\ UNCHANGED <<analysis, file, head, tainted, exports, flows, ever, leaks>>

\* A plausible bug: the origin of whatever the last argument holds.
BugReported(args) ==
    LET last == args[Len(args)]
    IN  IF last \in DOMAIN tainted
        THEN {[var |-> args[1], origin |-> tainted[last], line |-> line + 1]} ELSE {}

\* One flow per call, about the first tainted name.
Reported(args) ==
    IF SomeTainted(args)
    THEN {[var |-> FirstTainted(args), origin |-> tainted[FirstTainted(args)], line |-> line + 1]}
    ELSE {}

Sink ==
    /\ Write /\ ~head /\ file = Main
    /\ \E args \in Arguments :
        /\ flows' = flows \union Reported(args)
        /\ leaks' = leaks \union UNION {[line : {line + 1}, route : now[file][args[i]]] :
                                         i \in DOMAIN args}
    /\ UNCHANGED <<analysis, file, head, tainted, exports, now, ever>>

\* The declarations (and imports) are over.
Body == head /\ head' = FALSE
        /\ UNCHANGED <<analysis, file, line, tainted, exports, flows, now, ever, leaks>>

----------------------------------------------------------------------------
(* Imports *)

\* End of a file that is imported from.
NextFile ==
    /\ ~head /\ file < Main
    /\ file' = file + 1 /\ head' = TRUE
    /\ exports' = [f \in 1..file |-> IF f = file THEN tainted ELSE exports[f]]
    /\ tainted' = Untainted
    /\ UNCHANGED <<analysis, line, flows, now, ever, leaks>>

\* An import names a module of the importer's package or an absolute one.
Import == [relative : BOOLEAN, module : {Files[f] : f \in DOMAIN Files}
                                       \union {<<Last(Files[f])>> : f \in DOMAIN Files}]

Package == Front(Files[Main])
Exactly(module) == {f \in 1..(Main - 1) : Files[f] = module}
Matches(module) == {f \in 1..(Main - 1) : Files[f] = module \/ IsStrictSuffix(module, Files[f])}

\* The file an import is about, if any (an absolute JavaScript one is not).
Meant(imp) == IF imp.relative THEN Exactly(Package \o imp.module)
              ELSE IF analysis = "python" THEN Exactly(imp.module) ELSE {}

FirstOf(S) == IF S = {} THEN {} ELSE {Min(S)}

\* The file the slicer takes it to be about.  Python drops the dots of a relative
\* import and looks among the modules that export something, for the name itself
\* and then for one that ends with it.
Taken(imp) ==
    IF analysis = "python"
    THEN LET exporting == {f \in 1..(Main - 1) : DOMAIN exports[f] # {}}
         IN  IF Exactly(imp.module) \intersect exporting # {}
             THEN Exactly(imp.module) \intersect exporting
             ELSE FirstOf(Matches(imp.module) \intersect exporting)
    ELSE LET path == IF imp.relative THEN Package \o imp.module ELSE imp.module
         IN  IF Exactly(path) # {} THEN Exactly(path) ELSE FirstOf(Matches(path))

\* In Python: a module whose name no other one ends with.
Unambiguous(imp) == Matches(imp.module) = Meant(imp) \/ (analysis # "python" /\ imp.relative)

\* The files the name in an import could stand for.
Candidates(imp) == Matches(imp.module) \union Matches(Package \o imp.module)

ImportName ==
    /\ Write /\ head /\ file = Main /\ analysis # "javascript"
    /\ \E imp \in Import, name, x \in Vars :
        LET known == {f \in Taken(imp) : name \in DOMAIN exports[f]}
        IN  /\ tainted' = IF known = {} THEN tainted
                          ELSE Taint(x, exports[CHOOSE f \in known : TRUE][name])
            /\ now' = Holds(x, IF Unambiguous(imp) THEN UNION {now[f][name] : f \in Meant(imp)}
                               ELSE {})
            /\ ever' = MayHold(x, UNION {ever[f][name] : f \in Candidates(imp)})
    /\ UNCHANGED <<analysis, file, head, exports, flows, leaks>>

Next == \/ Source \/ SourceInFunction \/ Transform \/ Copy \/ Recode \/ OtherAssignment
        \/ Sink \/ Body \/ NextFile \/ ImportName

Spec == Init /\ [][Next]_vars

----------------------------------------------------------------------------
(* Properties *)

\* A sink that receives data of a source through steps of the kinds the slicer
\* follows - in one file, or through an import whose name is not ambiguous - is
\* reported.  Data that was encoded or decoded by a method of the variable that held
\* it is not among them, although the slicer's list of steps that propagate taint
\* names encode and decode.
LeaksAreReported ==
    \A leak \in leaks : leak.route = "followed" => \E flow \in flows : flow.line = leak.line

\* What is reported is at worst out of date: the name at the sink, in some scope and
\* at some point above, may have held the data of that source, following imports
\* to any file the name could stand for.
FlowsWereReal == \A flow \in flows : flow.origin \in ever[Main][flow.var]
============================================================================
