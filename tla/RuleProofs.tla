----------------------------- MODULE RuleProofs -----------------------------
(***************************************************************************)
(* Theorems about the rules of the detectors and what is made of their     *)
(* reports: what the taint slicer finds in a program of any length and any *)
(* number of files, what a manifest of agent capabilities can excuse, what *)
(* the indicators and patterns match, what the supply-chain reports say    *)
(* and what is handed to other systems; and about what the detectors draw  *)
(* on: the feeds as they are refreshed and the walk over dependencies.     *)
(***************************************************************************)
EXTENDS TaintSlicer, AgenticRules, Indicators, SupplyChain, Outputs, FeedRefresh, DependencyWalk,
        FiniteSetTheorems, SequenceTheorems, WellFoundedInduction, TLAPS

----------------------------------------------------------------------------
(* Numbers: least and greatest elements, and counting off *)

\* A nonempty set of natural numbers has a least element.
LEMMA Least ==
    ASSUME NEW S, S \subseteq Nat, S # {}
    PROVE  \E x \in S : \A y \in S : x <= y
<1> DEFINE R == OpToRel(<, Nat)
<1>1. IsWellFoundedOn(R, Nat)
  BY NatLessThanWellFounded
<1>2. \A x, y \in Nat : x < y => <<x, y>> \in R
  BY DEF OpToRel
<1> HIDE DEF R
<1>3. \E x \in S : \A y \in S : ~(<<y, x>> \in R)
  BY <1>1, WFMin
<1>4. PICK x \in S : \A y \in S : ~(<<y, x>> \in R)
  BY <1>3
<1>5. ASSUME NEW y \in S PROVE x <= y
  <2>1. x \in Nat /\ y \in Nat
    OBVIOUS
  <2>2. ~(y < x)
    BY <1>2, <1>4, <2>1, Zenon
  <2> QED
    BY <2>1, <2>2
<1> QED
  BY <1>4, <1>5

\* A nonempty set of natural numbers has its minimum as an element.
LEMMA MinIsIn ==
    ASSUME NEW S, S \subseteq Nat, S # {}
    PROVE  Min(S) \in S
<1>1. PICK x \in S : \A y \in S : x <= y
  BY Least
<1> QED
  BY <1>1 DEF Min

\* A nonempty set of numbers up to a bound has its maximum as an element.
LEMMA MaxIsIn ==
    ASSUME NEW N \in Nat, NEW S, S \subseteq 0..N, S # {}
    PROVE  Max(S) \in S
<1> DEFINE R == {N - x : x \in S}
<1>1. R \subseteq Nat
  OBVIOUS
<1>2. R # {}
  OBVIOUS
<1>3. \A y \in S : N - y \in R
  OBVIOUS
<1>4. PICK r \in R : \A y \in R : r <= y
  BY <1>1, <1>2, Least
<1>5. PICK x \in S : r = N - x
  OBVIOUS
<1>6. \A y \in S : N - x <= N - y
  BY <1>3, <1>4, <1>5
<1>7. \A y \in S : x >= y
  <2> SUFFICES ASSUME NEW y \in S PROVE x >= y
    OBVIOUS
  <2>1. x \in Nat /\ y \in Nat
    OBVIOUS
  <2> HIDE DEF R
  <2> QED
    BY <1>6, <2>1
<1> QED
  BY <1>7 DEF Max

\* The elements of a set of numbers can be counted off: one is the kth.
LEMMA CountedOff ==
    ASSUME NEW N \in Nat, NEW P, P \subseteq 1..N, NEW k \in 1..Cardinality(P)
    PROVE  \E n \in P : Cardinality({j \in P : j <= n}) = k
<1> DEFINE Upto(n) == {j \in P : j <= n}
           count == [n \in 0..N |-> Cardinality(Upto(n))]
           S == {n \in 0..N : count[n] >= k}
<1>1. IsFiniteSet(1..N) /\ P \in SUBSET (1..N)
  BY FS_Interval
<1>2. IsFiniteSet(P) /\ Cardinality(P) \in Nat
  BY <1>1, FS_Subset, FS_CardinalityType
<1>3. \A n : IsFiniteSet(Upto(n)) /\ Cardinality(Upto(n)) \in Nat
  <2> SUFFICES ASSUME NEW n PROVE IsFiniteSet(Upto(n)) /\ Cardinality(Upto(n)) \in Nat
    OBVIOUS
  <2>1. Upto(n) \in SUBSET P
    OBVIOUS
  <2>2. IsFiniteSet(Upto(n))
    BY <1>2, <2>1, FS_Subset
  <2> QED
    BY <2>2, FS_CardinalityType
<1>4. \A x \in P : x \in Nat /\ 1 <= x /\ x <= N
  BY <1>1
<1>5. Upto(N) = P
  BY <1>4
<1>6. Upto(0) = {}
  <2> SUFFICES ASSUME NEW x \in Upto(0) PROVE FALSE
    OBVIOUS
  <2> QED
    BY <1>4
<1>7. \A n \in 1..N, x \in P : x <= n <=> x <= n - 1 \/ x = n
  BY <1>4
<1>8. \A n \in 1..N : n \notin P => Upto(n) = Upto(n - 1)
  <2> SUFFICES ASSUME NEW n \in 1..N, n \notin P PROVE Upto(n) = Upto(n - 1)
    OBVIOUS
  <2>1. \A x \in P : x <= n <=> x <= n - 1
    BY <1>7
  <2> QED
    BY <2>1, Zenon
<1>9. \A n \in 1..N : n \in P => Upto(n) = Upto(n - 1) \union {n} /\ n \notin Upto(n - 1)
  <2> SUFFICES ASSUME NEW n \in 1..N, n \in P
               PROVE  Upto(n) = Upto(n - 1) \union {n} /\ n \notin Upto(n - 1)
    OBVIOUS
  <2>1. \A x \in P : x <= n <=> x <= n - 1 \/ x = n
    BY <1>7
  <2>2. ~(n <= n - 1)
    OBVIOUS
  <2> QED
    BY <2>1, <2>2, Zenon
<1> HIDE DEF Upto
<1>10. \A n \in 0..N : count[n] = Cardinality(Upto(n)) /\ count[n] \in Nat
  BY <1>3
<1>11. count[N] = Cardinality(P) /\ count[0] = 0
  BY <1>5, <1>6, <1>10, FS_EmptySet
<1>12. \A n \in 1..N : count[n] = IF n \in P THEN count[n - 1] + 1 ELSE count[n - 1]
  <2> SUFFICES ASSUME NEW n \in 1..N
               PROVE  count[n] = IF n \in P THEN count[n - 1] + 1 ELSE count[n - 1]
    OBVIOUS
  <2>1. n \in 0..N /\ n - 1 \in 0..N
    OBVIOUS
  <2>2. ASSUME n \in P PROVE Cardinality(Upto(n)) = Cardinality(Upto(n - 1)) + 1
    BY <1>3, <1>9, <2>2, FS_AddElement
  <2> QED
    BY <1>8, <1>10, <2>1, <2>2
<1> HIDE DEF count
<1>13. S \subseteq Nat /\ N \in S
  BY <1>2, <1>10, <1>11
<1>14. PICK n \in S : \A m \in S : n <= m
  BY <1>13, Least
<1>15. n \in 1..N
  BY <1>11, <1>14
<1>16. n - 1 \in 0..N /\ n - 1 \notin S
  BY <1>14, <1>15
<1>17. count[n - 1] < k
  BY <1>10, <1>16
<1>18. n \in P /\ count[n] = k
  BY <1>10, <1>12, <1>14, <1>15, <1>16, <1>17
<1> QED
  BY <1>10, <1>14, <1>18 DEF Upto

----------------------------------------------------------------------------
(* The taint slicer (TaintSlicer): what is reported lies between the data that
   really flows through the steps it follows and the data the names may ever
   have held *)

\* The taints of a file are known, its own and those it exports, and none is made up.
Known ==
    /\ \A x \in Vars : "followed" \in now[file][x] => x \in DOMAIN tainted
    /\ \A f \in 1..(file - 1) : \A x \in Vars :
           "followed" \in now[f][x] => x \in DOMAIN exports[f]
    /\ \A f \in (file + 1)..Main : \A x \in Vars : now[f][x] = {}

Grounded ==
    /\ \A x \in DOMAIN tainted : tainted[x] \in ever[file][x]
    /\ \A f \in 1..(file - 1) : \A x \in DOMAIN exports[f] : exports[f][x] \in ever[f][x]

IInv == TypeOK /\ Known /\ Grounded /\ LeaksAreReported /\ FlowsWereReal

\* The first tainted argument is one of the arguments, and tainted.
LEMMA FirstIsTainted ==
    ASSUME SlicerAssumption, NEW args \in Arguments, SomeTainted(args)
    PROVE  /\ \E i \in DOMAIN args : FirstTainted(args) = args[i]
           /\ FirstTainted(args) \in Vars /\ FirstTainted(args) \in DOMAIN tainted
<1> DEFINE S == {i \in DOMAIN args : args[i] \in DOMAIN tainted}
<1>1. PICK n \in 1..MaxArgs : args \in [1..n -> Vars]
  BY DEF Arguments
<1>2. S # {} /\ S \subseteq 1..n
  BY <1>1 DEF SomeTainted
<1>3. Min(S) \in S
  <2>1. S \subseteq Nat
    BY <1>2
  <2> HIDE DEF S
  <2> QED BY <1>2, <2>1, MinIsIn
<1> QED BY <1>1, <1>3 DEF FirstTainted

\* The files: their number is positive, each has a path.
LEMMA SomeFile ==
    ASSUME SlicerAssumption
    PROVE  Main \in Nat \ {0} /\ DOMAIN Files = 1..Main
BY DEF SlicerAssumption, Main

\* Every analysis starts with empty tables.
LEMMA Initially ==
    ASSUME SlicerAssumption, Init
    PROVE  IInv
<1>1. Main \in Nat \ {0} /\ DOMAIN Files = 1..Main
  BY SomeFile
<1>2. analysis \in Analysis /\ file \in 1..Main
  BY <1>1 DEF Init, SlicerAssumption
<1>3. TypeOK
  BY <1>1, <1>2 DEF Init, TypeOK, SlicerAssumption, Nothing, Untainted
<1>4. Known /\ Grounded
  BY <1>1, <1>2 DEF Init, Known, Grounded, Nothing, Untainted
<1>5. LeaksAreReported /\ FlowsWereReal
  BY DEF Init, LeaksAreReported, FlowsWereReal
<1> QED BY <1>3, <1>4, <1>5 DEF IInv

\* An assignment: one name may be tainted, one name's data is replaced and added to.
LEMMA Assignment ==
    ASSUME SlicerAssumption, IInv, line \in 0..(MaxLines - 1), line' = line + 1,
           UNCHANGED <<analysis, file, head, exports, flows, leaks>>,
           NEW x \in Vars, NEW held \in SUBSET Route, NEW added \in SUBSET Origin,
           now' = Holds(x, held), ever' = MayHold(x, added),
           \/ tainted' = tainted /\ ("followed" \in held => x \in DOMAIN tainted)
           \/ \E o \in Origin : tainted' = Taint(x, o) /\ o \in added
    PROVE  IInv'
<1>1. Main \in Nat \ {0} /\ DOMAIN Files = 1..Main
  BY SomeFile
<1>0. /\ file' = file /\ exports' = exports /\ analysis' = analysis /\ head' = head
      /\ flows' = flows /\ leaks' = leaks
  OBVIOUS
<1>t. \/ tainted' = tainted /\ ("followed" \in held => x \in DOMAIN tainted)
      \/ /\ DOMAIN tainted' = DOMAIN tainted \union {x}
         /\ tainted'[x] \in Origin /\ tainted'[x] \in added
         /\ \A y \in DOMAIN tainted \ {x} : tainted'[y] = tainted[y]
  BY DEF Taint
<1>2. TypeOK'
  <2>1. now' \in [DOMAIN Files -> [Vars -> SUBSET Route]]
    BY <1>1 DEF IInv, TypeOK, Holds
  <2>2. ever' \in [DOMAIN Files -> [Vars -> SUBSET Origin]]
    BY <1>1 DEF IInv, TypeOK, MayHold
  <2>3. DOMAIN tainted' \subseteq Vars /\ \A y \in DOMAIN tainted' : tainted'[y] \in Origin
    BY <1>t DEF IInv, TypeOK
  <2>4. line' \in 0..MaxLines
    BY DEF SlicerAssumption
  <2> QED BY <1>0, <2>1, <2>2, <2>3, <2>4 DEF IInv, TypeOK
<1>3. /\ \A f \in DOMAIN Files : f # file => now'[f] = now[f] /\ ever'[f] = ever[f]
      /\ \A y \in Vars \ {x} : now'[file][y] = now[file][y] /\ ever'[file][y] = ever[file][y]
      /\ now'[file][x] = held /\ ever'[file][x] = ever[file][x] \union added
  BY DEF IInv, TypeOK, Holds, MayHold
<1>4. Known'
  <2>1. \A y \in Vars : "followed" \in now'[file][y] => y \in DOMAIN tainted'
    BY <1>3, <1>t DEF IInv, Known
  <2>2. file \in 1..Main
    BY <1>1 DEF IInv, TypeOK
  <2>3. ASSUME NEW f \in 1..(file - 1), NEW y \in Vars, "followed" \in now'[f][y]
        PROVE  y \in DOMAIN exports[f]
    <3>1. f \in DOMAIN Files /\ f # file
      BY <1>1, <2>2
    <3>2. now'[f] = now[f]
      BY <3>1, <1>3
    <3> QED BY <2>3, <3>2 DEF IInv, Known
  <2>4. ASSUME NEW f \in (file + 1)..Main, NEW y \in Vars
        PROVE  now'[f][y] = {}
    <3>1. f \in DOMAIN Files /\ f # file
      BY <1>1, <2>2
    <3>2. now'[f] = now[f]
      BY <3>1, <1>3
    <3> QED BY <3>2 DEF IInv, Known
  <2> QED BY <1>0, <2>1, <2>3, <2>4 DEF Known, Main
<1>5. Grounded'
  <2>1. \A y \in DOMAIN tainted' : tainted'[y] \in ever'[file][y]
    <3>1. ASSUME NEW y \in DOMAIN tainted, y # x
          PROVE  tainted[y] \in ever'[file][y]
      BY <3>1, <1>3 DEF IInv, Grounded, TypeOK
    <3>2. ASSUME x \in DOMAIN tainted
          PROVE  tainted[x] \in ever'[file][x]
      BY <3>2, <1>3 DEF IInv, Grounded
    <3> QED BY <3>1, <3>2, <1>t, <1>3
  <2>2. \A f \in 1..(file - 1) : f \in DOMAIN Files /\ f # file
    BY <1>1 DEF IInv, TypeOK
  <2>3. \A f \in 1..(file - 1) : \A y \in DOMAIN exports[f] : exports[f][y] \in ever'[f][y]
    BY <1>3, <2>2 DEF IInv, Grounded
  <2> QED BY <1>0, <2>1, <2>3 DEF Grounded
<1>6. LeaksAreReported'
  BY <1>0 DEF IInv, LeaksAreReported
<1>7. FlowsWereReal'
  <2>1. \A flow \in flows : flow.var \in Vars /\ flow.origin \in ever[Main][flow.var]
    BY DEF IInv, FlowsWereReal, TypeOK, Flow
  <2>2. Main \in DOMAIN Files
    BY <1>1
  <2>3. \A y \in Vars : ever[Main][y] \subseteq ever'[Main][y]
    BY <1>3, <2>2
  <2> QED BY <1>0, <2>1, <2>3 DEF FlowsWereReal, Main
<1> QED BY <1>2, <1>4, <1>5, <1>6, <1>7 DEF IInv

\* The step, one action at a time.
LEMMA SourceStep == ASSUME SlicerAssumption, IInv, Source PROVE IInv'
<1>1. PICK x \in Vars : /\ tainted' = Taint(x, Here) /\ now' = Holds(x, {"followed"})
                        /\ ever' = MayHold(x, {Here})
  BY DEF Source
<1>2. Here \in Origin
  BY DEF Here, Origin, Source, Write, IInv, TypeOK, SlicerAssumption
<1>3. line \in 0..(MaxLines - 1) /\ line' = line + 1
  BY DEF Source, Write, IInv, TypeOK, SlicerAssumption
<1>4. \E o \in Origin : tainted' = Taint(x, o) /\ o \in {Here}
  BY <1>1, <1>2
<1>5. {Here} \in SUBSET Origin /\ {"followed"} \in SUBSET Route
  BY <1>2 DEF Route
<1> HIDE DEF Here
<1> QED BY <1>1, <1>3, <1>4, <1>5, Assignment DEF Source

LEMMA SourceInFunctionStep == ASSUME SlicerAssumption, IInv, SourceInFunction PROVE IInv'
<1>1. PICK x \in Vars : tainted' = Taint(x, Here) /\ ever' = MayHold(x, {Here})
  BY DEF SourceInFunction
<1>2. Here \in Origin
  BY DEF Here, Origin, SourceInFunction, Write, IInv, TypeOK, SlicerAssumption
<1>3. line \in 0..(MaxLines - 1) /\ line' = line + 1
  BY DEF SourceInFunction, Write, IInv, TypeOK, SlicerAssumption
<1>4. now' = Holds(x, now[file][x]) /\ now[file][x] \in SUBSET Route
  BY DEF SourceInFunction, Holds, IInv, TypeOK
<1>5. \E o \in Origin : tainted' = Taint(x, o) /\ o \in {Here}
  BY <1>1, <1>2
<1>6. {Here} \in SUBSET Origin
  BY <1>2
<1> QED BY <1>1, <1>3, <1>4, <1>5, <1>6, Assignment DEF SourceInFunction

\* Passing a taint on, from the names of a call or from one name.
LEMMA Passing ==
    ASSUME SlicerAssumption, IInv, Write, UNCHANGED <<analysis, file, head, exports, flows, leaks>>,
           NEW x \in Vars, NEW args \in Arguments, tainted' = Passed(x, args),
           now' = Holds(x, UNION {now[file][args[i]] : i \in DOMAIN args}),
           ever' = MayHold(x, UNION {ever[file][args[i]] : i \in DOMAIN args})
    PROVE  IInv'
<1> DEFINE held == UNION {now[file][args[i]] : i \in DOMAIN args}
           added == UNION {ever[file][args[i]] : i \in DOMAIN args}
<1>1. \A i \in DOMAIN args : args[i] \in Vars
  BY DEF Arguments
<1>2. /\ \A y \in Vars : now[file][y] \in SUBSET Route /\ ever[file][y] \in SUBSET Origin
      /\ held \in SUBSET Route /\ added \in SUBSET Origin
  BY <1>1 DEF IInv, TypeOK
<1>3. line \in 0..(MaxLines - 1) /\ line' = line + 1
  BY DEF Write, IInv, TypeOK, SlicerAssumption
<1>4. CASE SomeTainted(args)
  <2> DEFINE first == FirstTainted(args)
  <2>1. (\E i \in DOMAIN args : first = args[i]) /\ first \in DOMAIN tainted
    BY <1>4, FirstIsTainted
  <2>2. tainted' = Taint(x, tainted[first])
    BY <1>4 DEF Passed
  <2> HIDE DEF first
  <2>3. tainted[first] \in Origin /\ tainted[first] \in ever[file][first]
    BY <2>1 DEF IInv, TypeOK, Grounded
  <2>4. tainted[first] \in added
    BY <2>1, <2>3
  <2>5. \E o \in Origin : tainted' = Taint(x, o) /\ o \in added
    BY <2>2, <2>3, <2>4
  <2> HIDE DEF held, added
  <2> QED BY <1>2, <1>3, <2>5, Assignment DEF held, added
<1>5. CASE ~SomeTainted(args)
  <2>1. tainted' = tainted
    BY <1>5 DEF Passed
  <2>2. "followed" \notin held
    BY <1>1, <1>5 DEF SomeTainted, IInv, Known
  <2> HIDE DEF held, added
  <2> QED BY <1>2, <1>3, <2>1, <2>2, Assignment DEF held, added
<1> QED BY <1>4, <1>5

LEMMA TransformStep == ASSUME SlicerAssumption, IInv, Transform PROVE IInv'
BY Passing DEF Transform

LEMMA CopyStep == ASSUME SlicerAssumption, IInv, Copy PROVE IInv'
<1>1. PICK x, y \in Vars : /\ tainted' = Passed(x, <<y>>)
                           /\ now' = Holds(x, now[file][y]) /\ ever' = MayHold(x, ever[file][y])
  BY DEF Copy
<1>2. <<y>> \in Arguments /\ DOMAIN <<y>> = {1} /\ <<y>>[1] = y
  BY DEF Arguments, SlicerAssumption
<1>3. /\ now[file][y] = UNION {now[file][<<y>>[i]] : i \in DOMAIN <<y>>}
      /\ ever[file][y] = UNION {ever[file][<<y>>[i]] : i \in DOMAIN <<y>>}
  BY <1>2
<1> QED BY <1>1, <1>2, <1>3, Passing DEF Copy

LEMMA RecodeStep == ASSUME SlicerAssumption, IInv, Recode PROVE IInv'
<1>1. PICK x, y \in Vars : /\ now' = Holds(x, {"recoded" : r \in now[file][y]})
                           /\ ever' = MayHold(x, ever[file][y])
  BY DEF Recode
<1> DEFINE held == {"recoded" : r \in now[file][y]}
<1>2. held \in SUBSET Route /\ "followed" \notin held
  BY DEF Route
<1>3. ever[file][y] \in SUBSET Origin
  BY DEF IInv, TypeOK
<1>4. line \in 0..(MaxLines - 1) /\ line' = line + 1
  BY DEF Recode, Write, IInv, TypeOK, SlicerAssumption
<1>5. tainted' = tainted /\ now' = Holds(x, held)
  BY <1>1 DEF Recode
<1> HIDE DEF held
<1> QED BY <1>1, <1>2, <1>3, <1>4, <1>5, Assignment DEF Recode

LEMMA OtherAssignmentStep == ASSUME SlicerAssumption, IInv, OtherAssignment PROVE IInv'
<1>1. PICK x \in Vars : now' = Holds(x, {})
  BY DEF OtherAssignment
<1>2. ever' = MayHold(x, {})
  BY DEF OtherAssignment, MayHold, IInv, TypeOK
<1>3. line \in 0..(MaxLines - 1) /\ line' = line + 1
  BY DEF OtherAssignment, Write, IInv, TypeOK, SlicerAssumption
<1>4. tainted' = tainted
  BY DEF OtherAssignment
<1> QED BY <1>1, <1>2, <1>3, <1>4, Assignment DEF OtherAssignment

LEMMA SinkStep == ASSUME SlicerAssumption, IInv, Sink PROVE IInv'
<1>1. PICK args \in Arguments :
          /\ flows' = flows \union Reported(args)
          /\ leaks' = leaks \union UNION {[line : {line + 1}, route : now[file][args[i]]] :
                                           i \in DOMAIN args}
  BY DEF Sink
<1>2. file = Main /\ line + 1 \in 1..MaxLines /\ line' \in 0..MaxLines
  BY DEF Sink, Write, IInv, TypeOK, SlicerAssumption
<1>3. \A i \in DOMAIN args : args[i] \in Vars
  BY DEF Arguments
<1> DEFINE reached == UNION {[line : {line + 1}, route : now[file][args[i]]] : i \in DOMAIN args}
<1>4. \A leak \in reached :
          /\ leak \in [line : 1..MaxLines, route : Route] /\ leak.line = line + 1
          /\ \E i \in DOMAIN args : leak.route \in now[file][args[i]]
  <2>1. \A i \in DOMAIN args : now[file][args[i]] \in SUBSET Route
    BY <1>3 DEF IInv, TypeOK
  <2> QED BY <1>2, <2>1
<1>5. leaks' = leaks \union reached
  BY <1>1
<1> HIDE DEF reached
<1>6. leaks' \subseteq [line : 1..MaxLines, route : Route]
  BY <1>4, <1>5 DEF IInv, TypeOK
<1>7. CASE SomeTainted(args)
  <2>1. FirstTainted(args) \in Vars /\ FirstTainted(args) \in DOMAIN tainted
    BY <1>7, FirstIsTainted
  <2> DEFINE new == [var |-> FirstTainted(args), origin |-> tainted[FirstTainted(args)],
                     line |-> line + 1]
  <2>2. Reported(args) = {new}
    BY <1>7 DEF Reported
  <2>3. new \in Flow /\ new.line = line + 1 /\ new.origin \in ever[Main][new.var]
    BY <1>2, <2>1 DEF IInv, TypeOK, Grounded, Flow
  <2> HIDE DEF new
  <2>4. TypeOK'
    BY <1>1, <1>2, <1>6, <2>2, <2>3 DEF Sink, IInv, TypeOK
  <2>5. LeaksAreReported'
    BY <1>1, <1>4, <1>5, <2>2, <2>3 DEF IInv, LeaksAreReported
  <2>6. FlowsWereReal'
    BY <1>1, <2>2, <2>3 DEF Sink, IInv, FlowsWereReal, Main
  <2> QED BY <2>4, <2>5, <2>6 DEF Sink, IInv, Known, Grounded, Main
<1>8. CASE ~SomeTainted(args)
  <2>1. flows' = flows
    BY <1>1, <1>8 DEF Reported
  <2>2. \A i \in DOMAIN args : "followed" \notin now[file][args[i]]
    BY <1>3, <1>8 DEF SomeTainted, IInv, Known
  <2>3. LeaksAreReported'
    BY <1>4, <1>5, <2>1, <2>2 DEF IInv, LeaksAreReported
  <2> QED BY <1>2, <1>6, <2>1, <2>3
      DEF Sink, IInv, TypeOK, Known, Grounded, FlowsWereReal, Main
<1> QED BY <1>7, <1>8

LEMMA BodyStep == ASSUME IInv, Body PROVE IInv'
BY DEF Body, IInv, TypeOK, Known, Grounded, LeaksAreReported, FlowsWereReal, Main

LEMMA NextFileStep == ASSUME SlicerAssumption, IInv, NextFile PROVE IInv'
<1>1. /\ Main \in Nat \ {0} /\ DOMAIN Files = 1..Main /\ file \in 1..Main
      /\ file < Main /\ file' = file + 1 /\ tainted' = Untainted /\ DOMAIN Untainted = {}
      /\ DOMAIN exports' = 1..file
      /\ \A f \in 1..file : exports'[f] = IF f = file THEN tainted ELSE exports[f]
  BY SomeFile DEF NextFile, Untainted, IInv, TypeOK
<1>2. file' \in 1..Main /\ 1..(file' - 1) = 1..file
  BY <1>1
<1>3. TypeOK'
  BY <1>1, <1>2 DEF NextFile, IInv, TypeOK
<1>4. Known'
  <2>1. \A x \in Vars : now[file + 1][x] = {}
    <3>1. file + 1 \in (file + 1)..Main
      BY <1>1
    <3> QED BY <3>1 DEF IInv, Known
  <2>2. \A f \in 1..file : \A x \in Vars : "followed" \in now[f][x] => x \in DOMAIN exports'[f]
    <3> SUFFICES ASSUME NEW f \in 1..file, NEW x \in Vars, "followed" \in now[f][x]
                 PROVE  x \in DOMAIN exports'[f]
      OBVIOUS
    <3>1. CASE f = file
      BY <1>1, <3>1 DEF IInv, Known
    <3>2. CASE f # file
      <4>1. f \in 1..(file - 1)
        BY <1>1, <3>2
      <4> QED
        BY <1>1, <3>2, <4>1 DEF IInv, Known
    <3> QED
      BY <3>1, <3>2
  <2>3. \A f \in (file + 2)..Main : \A x \in Vars : now[f][x] = {}
    BY <1>1 DEF IInv, Known
  <2>4. (file' + 1)..Main = (file + 2)..Main
    BY <1>1
  <2>5. now' = now /\ now'[file'] = now[file + 1]
    BY <1>1 DEF NextFile
  <2>6. Known'
        <=> /\ \A x \in Vars : "followed" \in now'[file'][x] => x \in DOMAIN tainted'
            /\ \A f \in 1..(file' - 1) :
                   \A x \in Vars : "followed" \in now'[f][x] => x \in DOMAIN exports'[f]
            /\ \A f \in (file' + 1)..Main : \A x \in Vars : now'[f][x] = {}
    BY DEF Known, Main
  <2> QED BY <1>2, <2>1, <2>2, <2>3, <2>4, <2>5, <2>6
<1>5. Grounded'
  BY <1>1, <1>2 DEF NextFile, IInv, Grounded
<1> QED BY <1>3, <1>4, <1>5 DEF NextFile, IInv, LeaksAreReported, FlowsWereReal, Main

\* What an import taints, and what it stands for.
LEMMA Resolution ==
    ASSUME SlicerAssumption, IInv, file = Main, NEW imp \in Import
    PROVE  /\ Taken(imp) \subseteq Candidates(imp)
           /\ Taken(imp) \subseteq 1..(Main - 1) /\ Candidates(imp) \subseteq 1..(Main - 1)
           /\ Meant(imp) \subseteq 1..(Main - 1)
           /\ Unambiguous(imp) =>
                  \A f \in Meant(imp) : (DOMAIN exports[f] # {} => Taken(imp) = {f})
<1>1. \A m : Exactly(m) \subseteq Matches(m) /\ Matches(m) \subseteq 1..(Main - 1)
  BY DEF Exactly, Matches
<1>2. \A m : \A f, g \in Exactly(m) : f = g
  BY SomeFile DEF Exactly, SlicerAssumption, IsInjective
<1>3. ASSUME NEW S, S \subseteq 1..(Main - 1)
      PROVE  FirstOf(S) \subseteq S
  <2>1. S \subseteq Nat
    BY <1>3
  <2> QED BY <2>1, MinIsIn DEF FirstOf
<1>4. ASSUME NEW f \in 1..(Main - 1)
      PROVE  FirstOf({f}) = {f}
  <2>1. {f} \subseteq 1..(Main - 1) /\ {f} # {}
    BY <1>4
  <2>2. FirstOf({f}) \subseteq {f}
    BY <2>1, <1>3
  <2> QED BY <2>2 DEF FirstOf
<1> DEFINE exporting == {f \in 1..(Main - 1) : DOMAIN exports[f] # {}}
           path == IF imp.relative THEN Package \o imp.module ELSE imp.module
           named == Exactly(imp.module) \intersect exporting
           alike == Matches(imp.module) \intersect exporting
<1>5. CASE analysis = "python"
  <2>1. Taken(imp) = IF named # {} THEN named ELSE FirstOf(alike)
    BY <1>5 DEF Taken
  <2>2. named \subseteq Matches(imp.module) /\ FirstOf(alike) \subseteq Matches(imp.module)
    BY <1>1, <1>3
  <2>3. Meant(imp) \subseteq 1..(Main - 1)
    BY <1>1 DEF Meant
  <2>4. ASSUME Unambiguous(imp), NEW f \in Meant(imp), DOMAIN exports[f] # {}
        PROVE  Taken(imp) = {f}
    <3>1. Matches(imp.module) = Meant(imp)
      BY <1>5, <2>4 DEF Unambiguous
    <3>2. Meant(imp) = {f}
      BY <1>2, <1>5, <2>4 DEF Meant
    <3>3. f \in exporting
      BY <2>3, <2>4
    <3>4. alike = {f} /\ named \subseteq {f}
      BY <1>1, <3>1, <3>2, <3>3
    <3>5. FirstOf(alike) = {f}
      BY <1>4, <2>3, <2>4, <3>4
    <3> QED BY <2>1, <3>4, <3>5
  <2> HIDE DEF named, alike
  <2> QED BY <1>1, <2>1, <2>2, <2>3, <2>4 DEF Candidates
<1>6. CASE analysis # "python"
  <2>1. Taken(imp) = IF Exactly(path) # {} THEN Exactly(path) ELSE FirstOf(Matches(path))
    BY <1>6 DEF Taken
  <2>2. Taken(imp) \subseteq Matches(path)
    BY <1>1, <1>3, <2>1
  <2>3. Matches(path) \subseteq Candidates(imp)
    BY DEF Candidates
  <2>4. Meant(imp) = IF imp.relative THEN Exactly(path) ELSE {}
    BY <1>6 DEF Meant
  <2> HIDE DEF path
  <2>5. ASSUME NEW f \in Meant(imp)
        PROVE  Taken(imp) = {f}
    BY <1>2, <2>1, <2>4, <2>5
  <2>6. Meant(imp) \subseteq 1..(Main - 1) /\ Candidates(imp) \subseteq 1..(Main - 1)
    BY <1>1, <2>4 DEF Candidates
  <2> QED BY <1>1, <2>2, <2>3, <2>5, <2>6
<1> QED BY <1>5, <1>6

LEMMA ImportNameStep == ASSUME SlicerAssumption, IInv, ImportName PROVE IInv'
<1>1. PICK imp \in Import, name \in Vars, x \in Vars :
        LET known == {f \in Taken(imp) : name \in DOMAIN exports[f]}
        IN  /\ tainted' = IF known = {} THEN tainted
                          ELSE Taint(x, exports[CHOOSE f \in known : TRUE][name])
            /\ now' = Holds(x, IF Unambiguous(imp) THEN UNION {now[f][name] : f \in Meant(imp)}
                               ELSE {})
            /\ ever' = MayHold(x, UNION {ever[f][name] : f \in Candidates(imp)})
  BY DEF ImportName
<1> DEFINE known == {f \in Taken(imp) : name \in DOMAIN exports[f]}
           held == IF Unambiguous(imp) THEN UNION {now[f][name] : f \in Meant(imp)} ELSE {}
           added == UNION {ever[f][name] : f \in Candidates(imp)}
<1>2. /\ tainted' = IF known = {} THEN tainted
                    ELSE Taint(x, exports[CHOOSE f \in known : TRUE][name])
      /\ now' = Holds(x, held) /\ ever' = MayHold(x, added)
  BY <1>1
<1>3. file = Main /\ line \in 0..(MaxLines - 1) /\ line' = line + 1
  BY DEF ImportName, Write, IInv, TypeOK, SlicerAssumption
<1>4. \A f \in 1..(Main - 1) : /\ f \in DOMAIN Files /\ f \in DOMAIN exports
                               /\ now[f][name] \in SUBSET Route /\ ever[f][name] \in SUBSET Origin
  BY <1>3, SomeFile DEF IInv, TypeOK
<1>5. held \in SUBSET Route /\ added \in SUBSET Origin
  BY <1>3, <1>4, Resolution
<1>6. CASE known = {}
  <2>1. ASSUME Unambiguous(imp), NEW f \in Meant(imp)
        PROVE  "followed" \notin now[f][name]
    <3>1. f \in 1..(Main - 1)
      BY <1>3, Resolution
    <3>2. name \notin DOMAIN exports[f]
      BY <1>3, <1>6, <2>1, Resolution
    <3> QED BY <1>3, <3>1, <3>2 DEF IInv, Known
  <2>2. "followed" \notin held
    BY <2>1
  <2>3. tainted' = tainted
    BY <1>2, <1>6
  <2> HIDE DEF held, added, known
  <2> QED BY <1>2, <1>3, <1>5, <2>2, <2>3, Assignment DEF ImportName
<1>7. CASE known # {}
  <2> DEFINE g == CHOOSE f \in known : TRUE
             o == exports[g][name]
  <2>1. g \in known /\ tainted' = Taint(x, o)
    BY <1>2, <1>7
  <2> HIDE DEF g
  <2>2. g \in Candidates(imp) /\ g \in 1..(Main - 1) /\ name \in DOMAIN exports[g]
    BY <1>3, <2>1, Resolution
  <2>3. o \in Origin /\ o \in ever[g][name]
    BY <1>3, <1>4, <2>2 DEF IInv, TypeOK, Grounded
  <2>4. o \in added
    BY <2>2, <2>3
  <2> HIDE DEF o, held, added, known
  <2>5. \E p \in Origin : tainted' = Taint(x, p) /\ p \in added
    BY <2>1, <2>3, <2>4
  <2> QED BY <1>2, <1>3, <1>5, <2>5, Assignment DEF ImportName
<1> QED BY <1>6, <1>7

LEMMA Inductive ==
    ASSUME SlicerAssumption, IInv, [Next]_vars
    PROVE  IInv'
<1>1. CASE UNCHANGED vars
  BY <1>1 DEF vars, IInv, TypeOK, Known, Grounded, LeaksAreReported, FlowsWereReal, Main
<1>2. CASE Next
  BY <1>2, SourceStep, SourceInFunctionStep, TransformStep, CopyStep, RecodeStep, OtherAssignmentStep,
     SinkStep, BodyStep, NextFileStep, ImportNameStep DEF Next
<1> QED BY <1>1, <1>2

\* The state of the slicer is always of its type.
THEOREM Typed == Spec => []TypeOK
<1>1. Init => IInv
  BY Initially, SlicerAssumption
<1>2. IInv /\ [Next]_vars => IInv'
  BY Inductive, SlicerAssumption
<1>3. IInv => TypeOK
  BY DEF IInv
<1> QED BY <1>1, <1>2, <1>3, PTL DEF Spec

\* No call of a sink that receives data through the steps the slicer follows goes
\* unreported: from the inductive invariant that every name that holds such data,
\* in the file read or in one read before, is in the slicer's tables.
THEOREM Complete == Spec => []LeaksAreReported
<1>1. Init => IInv
  BY Initially, SlicerAssumption
<1>2. IInv /\ [Next]_vars => IInv'
  BY Inductive, SlicerAssumption
<1>3. IInv => LeaksAreReported
  BY DEF IInv
<1> QED BY <1>1, <1>2, <1>3, PTL DEF Spec

\* No reported flow is made up: each is of data its name may have held.
THEOREM Sound == Spec => []FlowsWereReal
<1>1. Init => IInv
  BY Initially, SlicerAssumption
<1>2. IInv /\ [Next]_vars => IInv'
  BY Inductive, SlicerAssumption
<1>3. IInv => FlowsWereReal
  BY DEF IInv
<1> QED BY <1>1, <1>2, <1>3, PTL DEF Spec

----------------------------------------------------------------------------
(* The manifest of an agentic package (AgenticRules) *)

LEMMA Classes ==
    ASSUME NEW p, NEW m
    PROVE  ClassifyAs(p, m) \in {"CLEAN", "AGENTIC", "SUSPICIOUS", "HIGH_RISK", "MALICIOUS"}
BY DEF ClassifyAs

LEMMA Ranks ==
    ASSUME NEW p, NEW m
    PROVE  rank[ClassifyAs(p, m)] \in 0..4
BY Classes DEF rank

SameButCapabilities(a, b) ==
    /\ a.present = b.present /\ a.agentic = b.agentic /\ a.satisfies = b.satisfies
    /\ a.isolation = b.isolation /\ a.patterns = b.patterns

\* Of two manifests of one package that differ in the declared capabilities only,
\* the one that declares less never gets the milder verdict.
THEOREM UnderDeclaringNeverPays ==
    ASSUME NEW p, NEW little, NEW much, SameButCapabilities(little, much),
           little.capabilities \subseteq much.capabilities
    PROVE  rank[ClassifyAs(p, much)] <= rank[ClassifyAs(p, little)]
<1>1. Undeclared(p, much) \subseteq Undeclared(p, little)
  BY DEF Undeclared
<1>2. IsAgentic(p, much) <=> IsAgentic(p, little)
  BY DEF IsAgentic, SameButCapabilities
<1>3. CASE ~IsAgentic(p, little)
  BY <1>2, <1>3 DEF ClassifyAs, rank
<1>4. CASE IsAgentic(p, little) /\ UnderDeclares(p, little)
  <2>1. rank[ClassifyAs(p, little)] = 4
    BY <1>4 DEF ClassifyAs, rank
  <2> QED
    BY <2>1, Ranks
<1>5. CASE IsAgentic(p, little) /\ ~UnderDeclares(p, little)
  <2>1. ~UnderDeclares(p, much)
    BY <1>1, <1>5 DEF UnderDeclares, SameButCapabilities
  <2>2. R1(p, much) = R1(p, little)
    BY DEF R1, Verified, SameButCapabilities
  <2>3. R2(p, much) = R2(p, little)
    BY <1>5, <2>1 DEF R2, AsksHuman, Isolated, SameButCapabilities
  <2>4. R3(p, much) \subseteq R3(p, little)
    BY <1>1 DEF R3, SameButCapabilities
  <2>5. RuleOfTwo(p, much) = RuleOfTwo(p, little)
    BY DEF RuleOfTwo, SameButCapabilities
  <2>6. RunAllRules(p, much) \subseteq RunAllRules(p, little)
    BY <2>2, <2>3, <2>4, <2>5 DEF RunAllRules
  <2>7. ManyInjections(p, much) <=> ManyInjections(p, little)
    BY <2>2 DEF ManyInjections, SameButCapabilities
  <2>8. \A s : Severe(RunAllRules(p, much), s) => Severe(RunAllRules(p, little), s)
    BY <2>6 DEF Severe
  <2> QED
    BY <1>2, <1>5, <2>1, <2>6, <2>7, <2>8 DEF ClassifyAs, rank
<1> QED
  BY <1>3, <1>4, <1>5

\* Whatever an agent's manifest says - a session kept apart, patterns applied, every
\* capability declared - code that escalates, escapes or exfiltrates is malicious,
\* and no manifest makes a package the signals give away a plain one.
THEOREM NothingExcusesTheCode ==
    ASSUME NEW p, NEW m, NEW f \in Sources(p), Score(p) >= Threshold,
           \/ f.traits \intersect {"escalates", "escapes"} # {}
           \/ {"installs", "llm_driven"} \subseteq f.traits
           \/ \E fn \in f.functions : "logging" \in fn.sounds /\ "posts" \in fn.does
    PROVE  ClassifyAs(p, m) = "MALICIOUS"
<1>1. \E h \in R2(p, m) \union R4(p) : h.severity = "MALICIOUS"
  <2>1. CASE "escalates" \in f.traits
    <3>1. Hit("R2-2", f.path, "MALICIOUS") \in HitsIn(p, {"escalates"}, "R2-2", "MALICIOUS")
      BY <2>1 DEF HitsIn
    <3> QED
      BY <3>1 DEF R2, Hit
  <2>2. CASE "escapes" \in f.traits
    <3>1. Hit("R2-3", f.path, "MALICIOUS") \in HitsIn(p, {"escapes"}, "R2-3", "MALICIOUS")
      BY <2>2 DEF HitsIn
    <3> QED
      BY <3>1 DEF R2, Hit
  <2>3. CASE {"installs", "llm_driven"} \subseteq f.traits
    <3>1. Hit("R2-4", f.path, "MALICIOUS") \in R2(p, m)
      BY <2>3 DEF R2
    <3> QED
      BY <3>1 DEF Hit
  <2>4. CASE \E fn \in f.functions : "logging" \in fn.sounds /\ "posts" \in fn.does
    <3>1. Hit("R4-1", f.path, "MALICIOUS")
             \in FunctionHits(p, "logging", {"posts"}, "R4-1", "MALICIOUS")
      BY <2>4 DEF FunctionHits
    <3> QED
      BY <3>1 DEF R4, Hit
  <2> QED
    BY <2>1, <2>2, <2>3, <2>4
<1>2. Severe(RunAllRules(p, m), "MALICIOUS")
  BY <1>1 DEF Severe, RunAllRules
<1> QED
  BY <1>2 DEF ClassifyAs, IsAgentic

\* A design pattern the code has no sign of excuses nothing - in a manifest that
\* already declares one, or for a package with fewer than two injection hits.  (The
\* exception is real: the count of hits is waived for declared patterns, verified or
\* not.)
THEOREM UnverifiedExcusesNothing ==
    ASSUME NEW p, NEW plain, NEW boast,
           plain.present = boast.present, plain.agentic = boast.agentic,
           plain.capabilities = boast.capabilities, plain.satisfies = boast.satisfies,
           plain.isolation = boast.isolation, plain.patterns \subseteq boast.patterns,
           (boast.patterns \ plain.patterns) \intersect Traits(p) = {},
           plain.patterns # {} \/ ~(Cardinality(R1(p, plain)) >= 2)
    PROVE  ClassifyAs(p, boast) = ClassifyAs(p, plain)
<1>1. Verified(p, boast) = Verified(p, plain)
  BY DEF Verified
<1>2. R1(p, boast) = R1(p, plain)
  BY <1>1 DEF R1
<1>3. Undeclared(p, boast) = Undeclared(p, plain)
  BY DEF Undeclared
<1>4. UnderDeclares(p, boast) <=> UnderDeclares(p, plain)
  BY <1>3 DEF UnderDeclares
<1>5. R2(p, boast) = R2(p, plain)
  BY <1>4 DEF R2, AsksHuman, Isolated
<1>6. R3(p, boast) = R3(p, plain) /\ RuleOfTwo(p, boast) = RuleOfTwo(p, plain)
  BY <1>3 DEF R3, RuleOfTwo
<1>7. RunAllRules(p, boast) = RunAllRules(p, plain)
  BY <1>2, <1>5, <1>6 DEF RunAllRules
<1>8. ManyInjections(p, boast) <=> ManyInjections(p, plain)
  BY <1>2 DEF ManyInjections
<1> QED
  BY <1>4, <1>7, <1>8 DEF ClassifyAs, IsAgentic

\* The verdict that only asks for consent: whatever the code can do beyond what the
\* manifest says is harmless, and without a manifest it can do nothing at all.
THEOREM ConsentIsInformed ==
    ASSUME NEW p, NEW m, Detected(p) \subseteq Capabilities, ClassifyAs(p, m) = "AGENTIC"
    PROVE  /\ Undeclared(p, m) \subseteq Minor
           /\ ~m.present => Undeclared(p, m) = {}
           /\ ~LethalTrifecta(p)
<1>1. RunAllRules(p, m) = {}
  BY DEF ClassifyAs
<1>2. R3(p, m) = {} /\ R2(p, m) = {}
  BY <1>1 DEF RunAllRules
<1>3. Undeclared(p, m) \intersect Dangerous = {} /\ Undeclared(p, m) \intersect Medium = {}
  BY <1>2 DEF R3
<1>4. ~m.present => Undeclared(p, m) \intersect Minor = {}
  BY <1>2 DEF R3
<1>5. Undeclared(p, m) \subseteq Dangerous \union Medium \union Minor
  BY DEF Undeclared, Capabilities
<1>6. ~LethalTrifecta(p)
  BY <1>2 DEF R2
<1> QED
  BY <1>3, <1>4, <1>5, <1>6

----------------------------------------------------------------------------
(* Indicators and patterns (Indicators) *)

IsFile(f) == f.calls \in Seq([api : STRING, dim : STRING, says : SUBSET STRING])

LEMMA FileCalls ==
    ASSUME NEW f, IsFile(f)
    PROVE  /\ Len(f.calls) \in Nat
           /\ DOMAIN f.calls = 1..Len(f.calls)
           /\ \A n \in 1..Len(f.calls) : f.calls[n].dim \in Dims(f)
<1> DEFINE Call == [api : STRING, dim : STRING, says : SUBSET STRING]
<1>1. f.calls \in Seq(Call)
  BY DEF IsFile
<1>2. Len(f.calls) \in Nat /\ DOMAIN f.calls = 1..Len(f.calls)
  <2> HIDE DEF Call
  <2> QED
    BY <1>1
<1> QED
  BY <1>2 DEF Dims

\* A slot that must take a call shows that the file has one of its dimension.
LEMMA SlotShows ==
    ASSUME NEW f, IsFile(f), NEW from \in 0..Len(f.calls), NEW to \in 0..Len(f.calls), NEW slot,
           Takes(f.calls, from, to, slot), slot.min \in Nat \ {0}, slot.max \in Nat
    PROVE  slot.dim \in Dims(f)
<1>1. from + 1 \in (from + 1)..to /\ from + 1 \in 1..Len(f.calls)
  BY FileCalls DEF Takes
<1>2. f.calls[from + 1].dim = slot.dim
  BY <1>1 DEF Takes
<1> QED
  BY <1>1, <1>2, FileCalls

LEMMA PatternShows ==
    ASSUME NEW f, IsFile(f), NEW pattern \in Mine(f),
           NEW k \in 1..Len(slots[pattern]), slots[pattern][k].min \in Nat \ {0},
           slots[pattern][k].max \in Nat, Len(slots[pattern]) \in Nat
    PROVE  slots[pattern][k].dim \in Dims(f) /\ f.calls # <<>>
<1>1. PICK start \in 0..(Len(f.calls) - 1) : MatchesAt(f.calls, pattern, start)
  BY DEF Mine
<1>2. PICK cut \in [0..Len(slots[pattern]) -> start..Len(f.calls)] :
          \A m \in 1..Len(slots[pattern]) :
              Greedily(f.calls, cut[m - 1], cut[m], slots[pattern][m])
  BY <1>1 DEF MatchesAt
<1>3. k - 1 \in 0..Len(slots[pattern]) /\ k \in 0..Len(slots[pattern])
  OBVIOUS
<1>4. start..Len(f.calls) \subseteq 0..Len(f.calls)
  BY <1>1, FileCalls
<1>5. cut[k - 1] \in 0..Len(f.calls) /\ cut[k] \in 0..Len(f.calls)
  BY <1>2, <1>3, <1>4
<1>6. Takes(f.calls, cut[k - 1], cut[k], slots[pattern][k])
  BY <1>2 DEF Greedily
<1> QED
  BY <1>1, <1>5, <1>6, SlotShows, FileCalls

LEMMA SlotsOf ==
    /\ slots["SP_001"][1] = Slot("INFORMATION_READING", 1, 5)
    /\ slots["SP_001"][3] = Slot("DATA_TRANSMISSION", 1, 2)
    /\ slots["SP_002"][1] = Slot("DATA_TRANSMISSION", 1, 2)
    /\ slots["SP_002"][2] = Slot("PAYLOAD_EXECUTION", 1, 2)
    /\ slots["SP_003"][1] = Slot("ENCODING", 1, 3)
    /\ slots["SP_003"][2] = Slot("PAYLOAD_EXECUTION", 1, 2)
    /\ slots["SP_004"][1] = Slot("INFORMATION_READING", 2, 10)
    /\ slots["SP_004"][2] = Slot("DATA_TRANSMISSION", 1, 2)
    /\ slots["SP_005"][2] = Slot("PAYLOAD_EXECUTION", 1, 2)
    /\ slots["SP_006"][1] = Slot("INFORMATION_READING", 1, 10)
    /\ slots["SP_006"][2] = Slot("ENCODING", 1, 5)
    /\ slots["SP_006"][3] = Slot("PAYLOAD_EXECUTION", 1, 3)
    /\ slots["SP_006"][4] = Slot("DATA_TRANSMISSION", 1, 3)
BY DEF slots

LEMMA Lengths ==
    /\ Len(slots["SP_001"]) = 3 /\ Len(slots["SP_002"]) = 2 /\ Len(slots["SP_003"]) = 2
    /\ Len(slots["SP_004"]) = 2 /\ Len(slots["SP_005"]) = 2 /\ Len(slots["SP_006"]) = 4
BY DEF slots

\* What a pattern is about, some rule of stage 4 is about as well, file by file: the
\* order of the calls adds weight to a file, and no file of its own.
Means(pattern) ==
    CASE pattern = "SP_001" -> {"T1552_001"}
      [] pattern = "SP_002" -> {"T1105", "T1059"}
      [] pattern = "SP_003" -> {"T1027", "T1059"}
      [] pattern = "SP_004" -> {"T1552_001"}
      [] pattern = "SP_005" -> {"T1059"}
      [] pattern = "SP_006" -> DOMAIN requiredDims
THEOREM PatternsAreRuled ==
    ASSUME NEW f, IsFile(f), NEW pattern \in Mine(f)
    PROVE  Means(pattern) \subseteq ApplyRules(f)
<1>1. pattern \in {"SP_001", "SP_002", "SP_003", "SP_004", "SP_005", "SP_006"}
  BY DEF Mine, slots
<1>2. CASE pattern = "SP_001"
  <2>0. 1 \in 1..Len(slots[pattern]) /\ 3 \in 1..Len(slots[pattern]) /\ Len(slots[pattern]) \in Nat
    BY <1>2, Lengths
  <2>1. slots[pattern][1] = Slot("INFORMATION_READING", 1, 5)
        /\ slots[pattern][3] = Slot("DATA_TRANSMISSION", 1, 2)
    BY <1>2, SlotsOf
  <2>2. "INFORMATION_READING" \in Dims(f) /\ f.calls # <<>>
    BY <2>0, <2>1, PatternShows DEF Slot
  <2>3. "DATA_TRANSMISSION" \in Dims(f)
    BY <2>0, <2>1, PatternShows DEF Slot
  <2> QED
    BY <1>2, <2>2, <2>3 DEF Means, ApplyRules, requiredDims
<1>3. CASE pattern = "SP_002"
  <2>1. {"PAYLOAD_EXECUTION", "DATA_TRANSMISSION"} \subseteq Dims(f) /\ f.calls # <<>>
    BY <1>3, PatternShows, SlotsOf, Lengths DEF Slot
  <2> QED
    BY <1>3, <2>1 DEF Means, ApplyRules, requiredDims
<1>4. CASE pattern = "SP_003"
  <2>1. {"ENCODING", "PAYLOAD_EXECUTION"} \subseteq Dims(f) /\ f.calls # <<>>
    BY <1>4, PatternShows, SlotsOf, Lengths DEF Slot
  <2> QED
    BY <1>4, <2>1 DEF Means, ApplyRules, requiredDims
<1>5. CASE pattern = "SP_004"
  <2>1. {"INFORMATION_READING", "DATA_TRANSMISSION"} \subseteq Dims(f) /\ f.calls # <<>>
    BY <1>5, PatternShows, SlotsOf, Lengths DEF Slot
  <2> QED
    BY <1>5, <2>1 DEF Means, ApplyRules, requiredDims
<1>6. CASE pattern = "SP_005"
  <2>1. "PAYLOAD_EXECUTION" \in Dims(f) /\ f.calls # <<>>
    BY <1>6, PatternShows, SlotsOf, Lengths DEF Slot
  <2> QED
    BY <1>6, <2>1 DEF Means, ApplyRules, requiredDims
<1>7. CASE pattern = "SP_006"
  <2>1. {"INFORMATION_READING", "ENCODING"} \subseteq Dims(f) /\ f.calls # <<>>
    BY <1>7, PatternShows, SlotsOf, Lengths DEF Slot
  <2>2. {"PAYLOAD_EXECUTION", "DATA_TRANSMISSION"} \subseteq Dims(f)
    BY <1>7, PatternShows, SlotsOf, Lengths DEF Slot
  <2> QED
    BY <1>7, <2>1, <2>2 DEF Means, ApplyRules, requiredDims
<1> QED
  BY <1>1, <1>2, <1>3, <1>4, <1>5, <1>6, <1>7

LEMMA SlotFacts ==
    ASSUME NEW p \in DOMAIN slots
    PROVE  /\ Len(slots[p]) \in 2..4
           /\ slots[p][Len(slots[p])].min = 1
           /\ slots[p][Len(slots[p])].max \in 2..3
           /\ \A k \in 1..Len(slots[p]) :
                 /\ slots[p][k].min \in Nat /\ slots[p][k].max \in Nat
                 /\ slots[p][k].min = 0 => p = "SP_001" /\ k = 2
                 /\ \A j \in 1..Len(slots[p]) : slots[p][j].dim = slots[p][k].dim => j = k
<1>1. p \in {"SP_001", "SP_002", "SP_003", "SP_004", "SP_005", "SP_006"}
  BY DEF slots
<1>2. CASE p = "SP_001"
  BY <1>2 DEF slots, Slot
<1>3. CASE p = "SP_002"
  BY <1>3 DEF slots, Slot
<1>4. CASE p = "SP_003"
  BY <1>4 DEF slots, Slot
<1>5. CASE p = "SP_004"
  BY <1>5 DEF slots, Slot
<1>6. CASE p = "SP_005"
  BY <1>6 DEF slots, Slot
<1>7. CASE p = "SP_006"
  BY <1>7 DEF slots, Slot
<1> QED
  BY <1>1, <1>2, <1>3, <1>4, <1>5, <1>6, <1>7

\* A slot with room for three at most can be filled up.
LEMMA FillUp ==
    ASSUME NEW f, IsFile(f), NEW from \in 0..Len(f.calls), NEW to \in 0..Len(f.calls), NEW slot,
           Takes(f.calls, from, to, slot), slot.min = 1, slot.max \in 2..3
    PROVE  \E end \in to..Len(f.calls) : Greedily(f.calls, from, end, slot)
<1> DEFINE Full(end) == Greedily(f.calls, from, end, slot)
           n == Len(f.calls)
<1>1. n \in Nat
  BY FileCalls
<1>2. to - from \in 1..slot.max
  BY DEF Takes
<1>3. ASSUME NEW at \in 0..n, Takes(f.calls, from, at, slot), ~Full(at)
      PROVE  at + 1 \in 0..n /\ at - from < slot.max /\ Takes(f.calls, from, at + 1, slot)
  <2>1. at # n /\ at - from # slot.max /\ f.calls[at + 1].dim = slot.dim
    BY <1>3 DEF Greedily
  <2>2. at - from \in slot.min..slot.max
    BY <1>3 DEF Takes
  <2>3. at + 1 \in 0..n /\ at + 1 - from \in slot.min..slot.max
    BY <2>1, <2>2, <1>1
  <2>4. ASSUME NEW m \in (from + 1)..(at + 1)
        PROVE  f.calls[m].dim = slot.dim
    <3>1. m = at + 1 \/ m \in (from + 1)..at
      BY <2>4
    <3> QED
      BY <3>1, <2>1, <1>3 DEF Takes
  <2> QED
    BY <2>1, <2>2, <2>3, <2>4 DEF Takes
<1>4. CASE Full(to)
  BY <1>1, <1>4
<1>5. CASE ~Full(to)
  <2>1. to + 1 \in 0..n /\ Takes(f.calls, from, to + 1, slot)
    BY <1>3, <1>5
  <2>2. CASE Full(to + 1)
    BY <1>1, <2>1, <2>2
  <2>3. CASE ~Full(to + 1)
    <3>1. to + 2 \in 0..n /\ Takes(f.calls, from, to + 2, slot)
      BY <1>3, <2>1, <2>3
    <3>2. to + 2 - from = slot.max
      BY <3>1, <1>2 DEF Takes
    <3>3. Full(to + 2)
      BY <3>1, <3>2 DEF Greedily
    <3> QED
      BY <1>1, <3>1, <3>3
  <2> QED
    BY <2>2, <2>3
<1> QED
  BY <1>4, <1>5

LEMMA Rising ==
    ASSUME NEW n \in Nat, NEW L \in 2..4, NEW cut \in [0..L -> 0..n],
           \A k \in 1..L : cut[k - 1] <= cut[k]
    PROVE  \A k \in 0..L : cut[0] <= cut[k] /\ cut[k] \in 0..n
<1>1. cut[1 - 1] <= cut[1] /\ cut[2 - 1] <= cut[2]
  BY 1 \in 1..L, 2 \in 1..L
<1>2. L \in 3..4 => cut[3 - 1] <= cut[3]
  BY L \in 3..4 => 3 \in 1..L
<1>3. L = 4 => cut[4 - 1] <= cut[4]
  BY L = 4 => 4 \in 1..L
<1>4. \A k \in 0..L : cut[k] \in 0..n
  OBVIOUS
<1>5. CASE L = 2
  BY <1>1, <1>4, <1>5
<1>6. CASE L = 3
  BY <1>1, <1>2, <1>4, <1>6
<1>7. CASE L = 4
  BY <1>1, <1>2, <1>3, <1>4, <1>7
<1> QED
  BY <1>5, <1>6, <1>7

\* Calls that fit a pattern somewhere, slot after slot, in whatever way.
Occurs(calls, pattern) ==
    \E cut \in [0..Len(slots[pattern]) -> 0..Len(calls)] :
        \A k \in 1..Len(slots[pattern]) : Takes(calls, cut[k - 1], cut[k], slots[pattern][k])

\* Taking all it can and giving nothing back, the search misses no pattern of the
\* catalog: no two slots of a pattern are about one dimension.
THEOREM GreedyMissesNothing ==
    ASSUME NEW f, IsFile(f), NEW pattern \in DOMAIN slots, Occurs(f.calls, pattern)
    PROVE  pattern \in Mine(f)
<1> DEFINE S == slots[pattern]
           L == Len(S)
           n == Len(f.calls)
<1>0. n \in Nat /\ L \in 2..4
  BY FileCalls, SlotFacts
<1>1. PICK cut \in [0..L -> 0..n] : \A k \in 1..L : Takes(f.calls, cut[k - 1], cut[k], S[k])
  BY DEF Occurs
<1>2. \A k \in 1..L : /\ k \in 0..L /\ k - 1 \in 0..L
                      /\ cut[k] \in 0..n /\ cut[k - 1] \in 0..n /\ cut[k - 1] <= cut[k]
                      /\ S[k].min > 0 => cut[k - 1] < cut[k]
  <2> SUFFICES ASSUME NEW k \in 1..L
               PROVE  /\ k \in 0..L /\ k - 1 \in 0..L
                      /\ cut[k] \in 0..n /\ cut[k - 1] \in 0..n /\ cut[k - 1] <= cut[k]
                      /\ S[k].min > 0 => cut[k - 1] < cut[k]
    OBVIOUS
  <2>1. k \in 0..L /\ k - 1 \in 0..L
    BY <1>0
  <2>2. cut[k] \in 0..n /\ cut[k - 1] \in 0..n
    BY <1>1, <2>1
  <2>3. cut[k] - cut[k - 1] \in S[k].min..S[k].max
    BY <1>1 DEF Takes
  <2>4. S[k].min \in Nat /\ S[k].max \in Nat
    BY SlotFacts
  <2> QED
    BY <2>1, <2>2, <2>3, <2>4, <1>0
<1>3. PICK end \in cut[L]..n : Greedily(f.calls, cut[L - 1], end, S[L])
  <2>1. L \in 1..L
    BY <1>0
  <2>2. Takes(f.calls, cut[L - 1], cut[L], S[L]) /\ cut[L - 1] \in 0..n /\ cut[L] \in 0..n
    BY <1>1, <1>2, <2>1
  <2> QED
    BY <2>2, FillUp, SlotFacts
<1> DEFINE full == [k \in 0..L |-> IF k = L THEN end ELSE cut[k]]
           start == cut[0]
<1>4. full \in [0..L -> start..n] /\ full[0] = start
  <2>1. \A k \in 0..L : start <= cut[k] /\ cut[k] \in 0..n
    <3>1. \A k \in 1..L : cut[k - 1] <= cut[k]
      BY <1>2
    <3> HIDE DEF L, n
    <3> QED
      BY <1>0, <1>1, <3>1, Rising
  <2> QED
    BY <2>1, <1>0, <1>3
<1>5. start \in 0..(n - 1)
  <2>1. 1 \in 1..L /\ S[1].min > 0
    BY <1>0, SlotFacts
  <2> QED
    BY <1>0, <1>2, <2>1
<1>6. ASSUME NEW k \in 1..(L - 1)
      PROVE  Greedily(f.calls, cut[k - 1], cut[k], S[k])
  <2>1. k \in 1..L /\ k + 1 \in 1..L
    BY <1>0
  <2>2. Takes(f.calls, cut[k - 1], cut[k], S[k])
    BY <1>1, <2>1
  <2>3. \E j \in (k + 1)..L : f.calls[cut[k] + 1].dim = S[j].dim
    <3>1. CASE S[k + 1].min > 0
      <4>1. cut[k] < cut[k + 1] /\ cut[k] \in 0..n /\ cut[k + 1] \in 0..n
        BY <1>2, <2>1, <3>1
      <4>2. cut[k] + 1 \in (cut[k] + 1)..cut[k + 1]
        BY <4>1
      <4>3. Takes(f.calls, cut[k], cut[k + 1], S[k + 1])
        BY <1>1, <2>1
      <4>4. f.calls[cut[k] + 1].dim = S[k + 1].dim
        BY <4>2, <4>3 DEF Takes
      <4> QED
        BY <4>4, <2>1
    <3>2. CASE ~(S[k + 1].min > 0)
      <4>1. pattern = "SP_001" /\ k = 1 /\ L = 3
        BY <3>2, <2>1, SlotFacts, Lengths
      <4>2. Takes(f.calls, cut[1], cut[2], S[2]) /\ Takes(f.calls, cut[2], cut[3], S[3])
        BY <1>1, <4>1
      <4>3. cut[1] <= cut[2] /\ cut[1] \in 0..n /\ cut[2] \in 0..n /\ cut[3] \in 0..n
        BY <1>2, <4>1
      <4>4. cut[2] < cut[3]
        <5>1. S[3].min > 0
          BY <4>1, SlotFacts
        <5> QED
          BY <1>2, <4>1, <5>1
      <4>5. CASE cut[1] = cut[2]
        <5>1. cut[1] + 1 \in (cut[2] + 1)..cut[3]
          BY <4>3, <4>4, <4>5
        <5>2. f.calls[cut[1] + 1].dim = S[3].dim
          BY <4>2, <5>1 DEF Takes
        <5> QED
          BY <4>1, <5>2
      <4>6. CASE cut[1] # cut[2]
        <5>1. cut[1] + 1 \in (cut[1] + 1)..cut[2]
          BY <4>3, <4>6
        <5>2. f.calls[cut[1] + 1].dim = S[2].dim
          BY <4>2, <5>1 DEF Takes
        <5> QED
          BY <4>1, <5>2
      <4> QED
        BY <4>5, <4>6
    <3> QED
      BY <3>1, <3>2
  <2>4. f.calls[cut[k] + 1].dim # S[k].dim
    BY <2>1, <2>3, SlotFacts, <1>0
  <2> QED
    BY <2>2, <2>4 DEF Greedily
<1>7. \A k \in 1..L : Greedily(f.calls, full[k - 1], full[k], S[k])
  <2> SUFFICES ASSUME NEW k \in 1..L
               PROVE  Greedily(f.calls, full[k - 1], full[k], S[k])
    OBVIOUS
  <2>1. k - 1 \in 0..L /\ k \in 0..L /\ k - 1 # L
    BY <1>0
  <2>2. full[k - 1] = cut[k - 1]
    BY <2>1
  <2>3. CASE k = L
    BY <1>3, <2>1, <2>2, <2>3
  <2>4. CASE k # L
    <3>1. k \in 1..(L - 1)
      BY <1>0, <2>4
    <3>2. full[k] = cut[k]
      BY <2>1, <2>4
    <3> QED
      BY <1>6, <2>2, <3>1, <3>2
  <2> QED
    BY <2>3, <2>4
<1>8. MatchesAt(f.calls, pattern, start)
  <2> HIDE DEF full, start
  <2> QED
    BY <1>4, <1>7 DEF MatchesAt
<1> QED
  BY <1>5, <1>8 DEF Mine

\* What a package calls itself decides little: a file that encodes, executes or
\* transmits is an anomaly in every category, and the categories differ only about
\* reading the environment.
THEOREM CategoriesDifferInReading ==
    ASSUME NEW f, NEW category \in DOMAIN disallowed,
           \A n \in DOMAIN f.calls :
               f.calls[n].dim = "INFORMATION_READING" =>
                   f.calls[n].api \notin disallowed[category] \ {"os.environ.get", "process.env"},
           \A n \in DOMAIN f.calls : f.calls[n].dim \in {"INFORMATION_READING", "ENCODING",
                                                        "PAYLOAD_EXECUTION", "DATA_TRANSMISSION"}
    PROVE  Anomalous(f, category) <=>
               \/ Dims(f) \intersect {"DATA_TRANSMISSION", "PAYLOAD_EXECUTION", "ENCODING"} # {}
               \/ ApiNames(f) \intersect disallowed[category]
                      \intersect {"os.environ.get", "process.env"} # {}
<1>1. allowed[category] \subseteq {"INFORMATION_READING"}
  BY DEF allowed, disallowed
<1>2. ((Dims(f) \ allowed[category]) \intersect {"DATA_TRANSMISSION", "PAYLOAD_EXECUTION", "ENCODING"} # {})
      <=> (Dims(f) \intersect {"DATA_TRANSMISSION", "PAYLOAD_EXECUTION", "ENCODING"} # {})
  BY <1>1
<1>3. ASSUME NEW api \in ApiNames(f) \intersect disallowed[category]
      PROVE  \/ Dims(f) \intersect {"DATA_TRANSMISSION", "PAYLOAD_EXECUTION", "ENCODING"} # {}
             \/ api \in {"os.environ.get", "process.env"}
  <2>1. PICK n \in DOMAIN f.calls : f.calls[n].api = api
    BY <1>3 DEF ApiNames
  <2>2. f.calls[n].dim \in Dims(f)
    BY <2>1 DEF Dims
  <2> QED
    BY <1>3, <2>1, <2>2
<1> QED
  BY <1>2, <1>3 DEF Anomalous

Hits(files, sources, meta1) ==
    (UNION {SequenceHits(f) : f \in files}) \union (UNION {TextHits(s) : s \in sources})
    \union MetadataHits(meta1)

LEMMA InHits ==
    ASSUME NEW files, NEW sources, NEW meta1, NEW h
    PROVE  h \in Hits(files, sources, meta1) <=>
               \/ \E f \in files : h \in SequenceHits(f)
               \/ \E s \in sources : h \in TextHits(s)
               \/ h \in MetadataHits(meta1)
<1> DEFINE U == UNION {SequenceHits(f) : f \in files}
           V == UNION {TextHits(s) : s \in sources}
<1>1. h \in U <=> \E f \in files : h \in SequenceHits(f)
  OBVIOUS
<1>2. h \in V <=> \E s \in sources : h \in TextHits(s)
  OBVIOUS
<1>3. Hits(files, sources, meta1) = (U \union V) \union MetadataHits(meta1)
  BY DEF Hits
<1> HIDE DEF U, V
<1> QED
  BY <1>1, <1>2, <1>3

LEMMA HitsAre ==
    ASSUME NEW files, NEW sources, NEW meta1,
           \A s \in sources : s.text \union s.decoded \subseteq Text,
           NEW h \in Hits(files, sources, meta1)
    PROVE  /\ h = IndicatorHit(h.code, h.file, h.confidence)
           /\ \/ <<h.code, h.confidence>> \in sequenceConfidence \union Text
              \/ <<h.code, h.confidence>> \in {<<"EXS-002", 95>>, <<"EXM-008", 90>>}
              \/ h.file = "<metadata>" /\ h.code \in {"MET-001", "MET-003", "MET-004"}
<1>1. CASE \E f \in files : h \in SequenceHits(f)
  <2>1. PICK f \in files : h \in SequenceHits(f)
    BY <1>1
  <2>2. PICK p \in sequenceConfidence : h = IndicatorHit(p[1], f.path, p[2])
    BY <2>1 DEF SequenceHits
  <2>3. p = <<p[1], p[2]>>
    BY DEF sequenceConfidence
  <2> QED
    BY <2>2, <2>3 DEF IndicatorHit
<1>2. CASE \E s \in sources : h \in TextHits(s)
  <2>1. PICK s \in sources : h \in TextHits(s)
    BY <1>2
  <2>2. CASE s.manifest
    <3>1. PICK p \in {<<"EXS-002", 95>>, <<"EXM-008", 90>>} : h = IndicatorHit(p[1], s.path, p[2])
      BY <2>1, <2>2 DEF TextHits, ManifestHits
    <3>2. p = <<p[1], p[2]>>
      OBVIOUS
    <3> QED
      BY <3>1, <3>2 DEF IndicatorHit
  <2>3. CASE ~s.manifest
    <3>1. PICK p \in s.text \union s.decoded : h = IndicatorHit(p[1], s.path, p[2])
      BY <2>1, <2>3 DEF TextHits
    <3>2. p \in Text
      BY <3>1
    <3>3. p = <<p[1], p[2]>>
      BY <3>2 DEF Text
    <3> QED
      BY <3>1, <3>2, <3>3 DEF IndicatorHit
  <2> QED
    BY <2>2, <2>3
<1>3. CASE h \in MetadataHits(meta1)
  <2>1. PICK p \in metadataConfidence : h = IndicatorHit(p[1], "<metadata>", p[2])
    BY <1>3 DEF MetadataHits
  <2>2. p[1] \in {"MET-001", "MET-003", "MET-004"}
    BY DEF metadataConfidence
  <2> QED
    BY <2>1, <2>2 DEF IndicatorHit
<1> QED
  BY <1>1, <1>2, <1>3, InHits

LEMMA Matched ==
    ASSUME NEW files, NEW sources, NEW meta1, NEW h \in MatchAll(files, sources, meta1)
    PROVE  h \in Hits(files, sources, meta1)
BY DEF MatchAll, Dedup, Hits

LEMMA DecisiveConfidence ==
    ASSUME NEW code \in Decisive, NEW confidence,
           \/ <<code, confidence>> \in sequenceConfidence \union Text
           \/ <<code, confidence>> \in {<<"EXS-002", 95>>, <<"EXM-008", 90>>}
    PROVE  confidence \in 50..100
BY DEF Decisive, sequenceConfidence, Text

\* A payload spread over files fires without help from the weak indicators around it:
\* a decisive indicator is of high severity and never benign, in whatever file and
\* with whatever confidence it was found.
THEOREM DecisiveFires ==
    ASSUME NEW files, NEW sources, NEW meta1,
           \A s \in sources : s.text \union s.decoded \subseteq Text,
           NEW h \in MatchAll(files, sources, meta1), h.code \in Decisive
    PROVE  LET e == IndicatorEvidence(h, MatchAll(files, sources, meta1))
           IN  e.sev = "HIGH" /\ e.llm \in {"MALICIOUS", "SUSPICIOUS"}
<1> DEFINE M == MatchAll(files, sources, meta1)
<1>1. h.code \in CodesIn(M, h.file)
  BY DEF CodesIn
<1>2. SeverityOf(h.code) = "HIGH"
  BY DEF SeverityOf, High, Decisive
<1>3. h.confidence \in 50..100
  <2>1. h.code \notin {"MET-001", "MET-003", "MET-004"}
    BY DEF Decisive
  <2> QED
    BY <2>1, Matched, HitsAre, DecisiveConfidence
<1>4. IndicatorEvidence(h, M) = Rules!Indicator("HIGH", h.confidence, FALSE)
  BY <1>1, <1>2 DEF IndicatorEvidence
<1>5. Rules!Indicator("HIGH", h.confidence, FALSE).sev = "HIGH"
  BY DEF Rules!Indicator, Rules!Ev
<1>6. Rules!Indicator("HIGH", h.confidence, FALSE).llm \in {"MALICIOUS", "SUSPICIOUS"}
  BY <1>3 DEF Rules!Indicator, Rules!Ev
<1> QED
  BY <1>4, <1>5, <1>6

\* The weight of what one file shows is its own affair: no other file of the package,
\* and nothing the registry says, moves the evidence about it.
THEOREM FileLocal ==
    ASSUME NEW path, path # "<metadata>",
           NEW files, NEW sources, NEW meta1, ~MatchFails(sources),
           NEW files2, NEW sources2, NEW meta2, ~MatchFails(sources2),
           \A f \in files \union files2 : f.path = path => f \in files /\ f \in files2,
           \A s \in sources \union sources2 : s.path = path => s \in sources /\ s \in sources2
    PROVE  LET M == MatchAll(files, sources, meta1)
               N == MatchAll(files2, sources2, meta2)
           IN  {IndicatorEvidence(h, M) : h \in {m \in M : m.file = path}}
                  = {IndicatorEvidence(h, N) : h \in {m \in N : m.file = path}}
<1> DEFINE M == MatchAll(files, sources, meta1)
           N == MatchAll(files2, sources2, meta2)
           A == Hits(files, sources, meta1)
           B == Hits(files2, sources2, meta2)
<1>1. \A f, h : h \in SequenceHits(f) => h.file = f.path
  BY DEF SequenceHits, IndicatorHit
<1>2. \A s, h : h \in TextHits(s) => h.file = s.path
  BY DEF TextHits, ManifestHits, IndicatorHit
<1>3. \A m, h : h \in MetadataHits(m) => h.file = "<metadata>"
  BY DEF MetadataHits, IndicatorHit
<1>4. \A h : h.file = path => (h \in A <=> h \in B)
  <2> SUFFICES ASSUME NEW h, h.file = path
               PROVE  h \in A <=> h \in B
    OBVIOUS
  <2>1. (\E f \in files : h \in SequenceHits(f)) <=> (\E f \in files2 : h \in SequenceHits(f))
    BY <1>1
  <2>2. (\E s \in sources : h \in TextHits(s)) <=> (\E s \in sources2 : h \in TextHits(s))
    BY <1>2
  <2>3. h \notin MetadataHits(meta1) /\ h \notin MetadataHits(meta2)
    BY <1>3
  <2>4. h \in A <=> \/ \E f \in files : h \in SequenceHits(f)
                    \/ \E s \in sources : h \in TextHits(s)
                    \/ h \in MetadataHits(meta1)
    BY InHits
  <2>5. h \in B <=> \/ \E f \in files2 : h \in SequenceHits(f)
                    \/ \E s \in sources2 : h \in TextHits(s)
                    \/ h \in MetadataHits(meta2)
    BY InHits
  <2> QED
    BY <2>1, <2>2, <2>3, <2>4, <2>5
<1>5. M = Dedup(A) /\ N = Dedup(B)
  BY DEF MatchAll, Hits
<1>6. {m \in M : m.file = path} = {m \in N : m.file = path}
  BY <1>4, <1>5 DEF Dedup
<1>7. CodesIn(M, path) = CodesIn(N, path)
  BY <1>6 DEF CodesIn
<1>8. \A h \in {m \in M : m.file = path} : IndicatorEvidence(h, M) = IndicatorEvidence(h, N)
  BY <1>7 DEF IndicatorEvidence
<1> QED
  BY <1>6, <1>8

----------------------------------------------------------------------------
(* Supply-chain reports (SupplyChain) *)

\* What the Scorecard service answers: a number for each check, and no two checks of
\* one name.
IsReport(report) ==
    /\ report.available \in BOOLEAN
    /\ report.checks \in Seq([name : STRING, score : Int])
    /\ \A m, n \in DOMAIN report.checks :
          report.checks[m].name = report.checks[n].name => m = n

LEMMA ScoresAreNumbers ==
    ASSUME NEW report, IsReport(report), NEW n \in DOMAIN report.checks
    PROVE  report.checks[n].score \in Int
<1> DEFINE Check == [name : STRING, score : Int]
<1>1. report.checks \in Seq(Check)
  BY DEF IsReport
<1>2. report.checks[n] \in Check
  <2> HIDE DEF Check
  <2> QED
    BY <1>1
<1> QED
  BY <1>2

LEMMA FirstIsNamed ==
    ASSUME NEW report, IsReport(report), NEW n \in DOMAIN report.checks
    PROVE  FirstNamed(report, report.checks[n].name) = report.checks[n]
<1> DEFINE name == report.checks[n].name
<1>1. Named(report, name) = {n}
  BY DEF Named, IsReport
<1>2. DOMAIN report.checks = 1..Len(report.checks)
  BY DEF IsReport
<1>3. n \in Nat
  BY <1>2
<1>4. (CHOOSE k \in {n} : \A m \in {n} : k <= m) = n
  BY <1>3
<1> QED
  BY <1>1, <1>4 DEF FirstNamed

\* One question, whether there is a way to report a vulnerability, is asked twice:
\* answered yes by a policy file or a score of 7.  A package passes PO.4.1 exactly
\* when it passes RV.2.1, which never fails it.
THEOREM PracticesAgree ==
    ASSUME NEW ecosystem, NEW found, NEW metadata, NEW archive, NEW report, IsReport(report),
           ~report.available => report.checks = <<>>
    PROVE  LET s == Ssdf(ecosystem, found, metadata, archive, report)
           IN  /\ s.PO_4_1 = "PASS" <=> s.RV_2_1 = "PASS"
               /\ s.RV_2_1 # "FAIL"
<1> DEFINE s == Ssdf(ecosystem, found, metadata, archive, report)
           policy == "Security_Policy"
<1>1. s.PO_4_1 = Shown("security" \in archive, ScorecardStatus(report, policy))
  BY DEF Ssdf
<1>2. s.RV_2_1 = Shown("security" \in archive \/ \E n \in Named(report, policy) : report.checks[n].score >= 7,
                       "UNKNOWN")
  BY DEF Ssdf
<1>3. ScorecardStatus(report, policy) = "PASS"
         <=> \E n \in Named(report, policy) : report.checks[n].score >= 7
  <2>1. CASE ~report.available \/ Named(report, policy) = {}
    <3>1. Named(report, policy) = {}
      BY <2>1 DEF Named
    <3> QED
      BY <3>1, <2>1 DEF ScorecardStatus
  <2>2. CASE report.available /\ Named(report, policy) # {}
    <3>1. PICK n \in Named(report, policy) : TRUE
      BY <2>2
    <3>2. n \in DOMAIN report.checks /\ report.checks[n].name = policy
      BY <3>1 DEF Named
    <3>3. FirstNamed(report, policy) = report.checks[n]
      BY <3>2, FirstIsNamed
    <3>4. Named(report, policy) = {n}
      BY <3>2 DEF Named, IsReport
    <3>5. report.checks[n].score \in Int
      BY <3>2, ScoresAreNumbers
    <3>6. pass[policy] = 7
      BY DEF pass
    <3>7. ScorecardStatus(report, policy) = "PASS" <=> report.checks[n].score >= 7
      BY <2>2, <3>3, <3>5, <3>6 DEF ScorecardStatus
    <3> QED
      BY <3>4, <3>7
  <2> QED
    BY <2>1, <2>2
<1> QED
  BY <1>1, <1>2, <1>3 DEF Shown

\* The two readings of a report agree: what the Scorecard stage calls a risk, the
\* SSDF never counts as a practice followed.
THEOREM RisksAreFailures ==
    ASSUME NEW report, IsReport(report), NEW check \in RiskSignals(report),
           check.name \in DOMAIN pass
    PROVE  ScorecardStatus(report, check.name) = "FAIL"
<1>1. PICK n \in DOMAIN report.checks :
          /\ check = report.checks[n]
          /\ report.available /\ check.name \in DOMAIN risk
          /\ 0 <= check.score /\ check.score < risk[check.name]
  BY DEF RiskSignals
<1>2. FirstNamed(report, check.name) = check
  BY <1>1, FirstIsNamed
<1>3. n \in Named(report, check.name)
  BY <1>1 DEF Named
<1>4. check.score \in Int
  BY <1>1, ScoresAreNumbers
<1>5. check.name \in {"Maintained", "Code_Review", "Vulnerabilities"}
  BY <1>1 DEF risk, pass
<1>6. risk[check.name] \in Int /\ pass[check.name] \in Int /\ risk[check.name] <= pass[check.name]
  BY <1>5 DEF risk, pass
<1>7. ~(check.score >= pass[check.name]) /\ ~(check.score < 0)
  BY <1>1, <1>4, <1>6
<1> QED
  BY <1>1, <1>2, <1>3, <1>7 DEF ScorecardStatus

\* The outage of a service is not held against a package: without a report of the
\* Scorecard nothing fails but what the archive and the registry show to be missing.
THEOREM SilenceIsNoFailure ==
    ASSUME NEW ecosystem, NEW found, NEW metadata, NEW archive,
           NEW practice \in DOMAIN Ssdf(ecosystem, found, metadata, archive, NoReport),
           Ssdf(ecosystem, found, metadata, archive, NoReport)[practice] = "FAIL"
    PROVE  practice \in {"PS_3_1", "PW_4_4"}
<1>1. \A name : ScorecardStatus(NoReport, name) = "UNKNOWN"
  BY DEF ScorecardStatus, NoReport
<1>2. Automation("UNKNOWN", "UNKNOWN") = "UNKNOWN"
  BY DEF Automation
<1> QED
  BY <1>1, <1>2 DEF Ssdf, Shown

----------------------------------------------------------------------------
(* Outputs (Outputs) *)

\* Those who act on a report act alike: what the install policy denies is what the
\* bill of materials calls exploitable and what the threat intelligence has a malware
\* object for, and it is emitted; whatever is emitted has an install policy.
THEOREM ConsumersAgree ==
    ASSUME NEW report, report.verdict \in AllVerdicts
    PROVE  /\ \A sent : Denied(report, report.version) <=> Malware(report, sent) # {}
           /\ Denied(report, report.version) <=> VerdictState(report.verdict) = "exploitable"
           /\ Denied(report, report.version) => ShouldEmit(report)
           /\ ShouldEmit(report) => PmgPolicy(report) # {}
<1> DEFINE v == report.verdict
<1>1. Denied(report, report.version) <=> v \in {"MALICIOUS", "HIGH_RISK"}
  <2>1. CASE v \in {"MALICIOUS", "HIGH_RISK"}
    <3>1. PolicyAction(v) = "deny"
      BY <2>1 DEF PolicyAction
    <3>2. [action |-> "deny", package |-> report.package,
           versions |-> VersionsOf(report)] \in PmgPolicy(report)
      BY <3>1 DEF PmgPolicy
    <3> QED
      BY <2>1, <3>2 DEF Denied, VersionsOf
  <2>2. CASE v \notin {"MALICIOUS", "HIGH_RISK"}
    <3>1. PolicyAction(v) # "deny"
      BY <2>2 DEF PolicyAction
    <3>2. \A rule \in PmgPolicy(report) : rule.action # "deny"
      <4>1. \A rule \in PmgPolicy(report) : rule.action = PolicyAction(v)
        BY DEF PmgPolicy
      <4> QED
        BY <4>1, <3>1
    <3> QED
      BY <2>2, <3>2 DEF Denied
  <2> QED
    BY <2>1, <2>2
<1>2. \A sent : Malware(report, sent) # {} <=> v \in {"MALICIOUS", "HIGH_RISK"}
  BY DEF Malware
<1>3. VerdictState(v) = "exploitable" <=> v \in {"MALICIOUS", "HIGH_RISK"}
  BY DEF VerdictState
<1>4. ShouldEmit(report) => PmgPolicy(report) # {}
  <2>1. SUFFICES ASSUME ShouldEmit(report) PROVE PmgPolicy(report) # {}
    OBVIOUS
  <2>2. PolicyAction(v) \in {"deny", "warn"}
    BY <2>1 DEF ShouldEmit, PolicyAction
  <2>3. PolicyAction(v) \in {PolicyAction(v)} \ {"none"}
    BY <2>2
  <2> QED
    BY <2>3 DEF PmgPolicy
<1> QED
  BY <1>1, <1>2, <1>3, <1>4 DEF ShouldEmit

\* A bundle can be read on its own: both ends of each of its relationships are
\* objects it contains.
THEOREM BundleIsClosed ==
    ASSUME NEW report, NEW sent, NEW r \in Relationships(report, sent)
    PROVE  {r.content.source, r.content.target} \subseteq Ids(Bundle(report, sent))
<1> DEFINE bundle == Bundle(report, sent)
<1>1. Indicator(report, sent) \in bundle /\ Software(report) \in bundle
      /\ Malware(report, sent) \subseteq bundle
  BY DEF Bundle
<1>2. \E source, target \in bundle : \E kind : r = Relationship(source, kind, target, sent)
  BY <1>1, Zenon DEF Relationships
<1>3. PICK source \in bundle, target \in bundle : \E kind : r = Relationship(source, kind, target, sent)
  BY <1>2
<1>4. r.content.source = source.id /\ r.content.target = target.id
  BY <1>3 DEF Relationship, Object
<1>5. source.id \in Ids(bundle) /\ target.id \in Ids(bundle)
  BY DEF Ids
<1> QED
  BY <1>4, <1>5

\* The kinds of objects a bundle has, told apart by their identifiers.
OfKind(o, report, sent) ==
    \/ o = Identity(sent) /\ o.id[1] = "identity"
    \/ o = Software(report) /\ o.id[1] = "software"
    \/ o.created = sent /\ o.modified = sent /\ o.id[1] \notin {"identity", "software"}

LEMMA KindsInBundle ==
    ASSUME NEW report, NEW sent, NEW o \in Bundle(report, sent)
    PROVE  OfKind(o, report, sent)
<1>1. CASE o = Identity(sent)
  BY <1>1 DEF OfKind, Identity, Object
<1>2. CASE o = Software(report)
  BY <1>2 DEF OfKind, Software, Object, PackageId
<1>3. CASE o = Indicator(report, sent)
  BY <1>3 DEF OfKind, Indicator, Object, IndicatorId
<1>4. CASE o \in Malware(report, sent)
  BY <1>4 DEF OfKind, Malware, Object, PackageId
<1>5. CASE o \in Relationships(report, sent)
  <2>1. \E source, kind, target : o = Relationship(source, kind, target, sent)
    BY <1>5, Zenon DEF Relationships
  <2> QED
    BY <2>1 DEF OfKind, Relationship, Object, RelationshipId
<1> QED
  BY <1>1, <1>2, <1>3, <1>4, <1>5 DEF Bundle

\* The identifiers depend on nothing but package, version and verdict.
IdsOf(indicator, software, malware, severe) ==
    {<<"identity">>, software, indicator, RelationshipId(indicator, "indicates", software)}
    \union {id \in {malware, RelationshipId(indicator, "indicates", malware),
                     RelationshipId(malware, "uses", software)} : severe}

LEMMA BundleIds ==
    ASSUME NEW report, NEW sent
    PROVE  Ids(Bundle(report, sent)) =
               IdsOf(IndicatorId(report), PackageId("software", report),
                     PackageId("malware", report), report.verdict \in {"MALICIOUS", "HIGH_RISK"})
<1> DEFINE i == Indicator(report, sent)
           s == Software(report)
           m == Object(PackageId("malware", report), sent, sent, <<report.package, report.version>>)
           severe == report.verdict \in {"MALICIOUS", "HIGH_RISK"}
<1>1. i.id = IndicatorId(report) /\ s.id = PackageId("software", report)
      /\ m.id = PackageId("malware", report) /\ Identity(sent).id = <<"identity">>
  BY DEF Indicator, Software, Identity, Object
<1>2. \A source, kind, target :
          Relationship(source, kind, target, sent).id = RelationshipId(source.id, kind, target.id)
  BY DEF Relationship, Object
<1>3. Malware(report, sent) = {x \in {m} : severe}
  BY DEF Malware
<1> HIDE DEF i, s, m, severe
<1>4. CASE severe
  <2>1. Malware(report, sent) = {m}
    BY <1>3, <1>4
  <2>2. Bundle(report, sent) = {Identity(sent), s, i, m, Relationship(i, "indicates", s, sent),
            Relationship(i, "indicates", m, sent), Relationship(m, "uses", s, sent)}
    BY <2>1, Zenon DEF Bundle, Relationships, i, s
  <2>3. Ids(Bundle(report, sent)) = {Identity(sent).id, s.id, i.id, m.id,
            Relationship(i, "indicates", s, sent).id, Relationship(i, "indicates", m, sent).id,
            Relationship(m, "uses", s, sent).id}
    BY <2>2 DEF Ids
  <2> QED
    BY <1>1, <1>2, <1>4, <2>3 DEF IdsOf, severe
<1>5. CASE ~severe
  <2>1. Malware(report, sent) = {}
    BY <1>3, <1>5
  <2>2. Bundle(report, sent) = {Identity(sent), s, i, Relationship(i, "indicates", s, sent)}
    BY <2>1, Zenon DEF Bundle, Relationships, i, s
  <2>3. Ids(Bundle(report, sent)) = {Identity(sent).id, s.id, i.id, Relationship(i, "indicates", s, sent).id}
    BY <2>2 DEF Ids
  <2> QED
    BY <1>1, <1>2, <1>5, <2>3 DEF IdsOf, severe
<1> QED
  BY <1>4, <1>5

\* What sending a release again means to those who keep a collection, where an
\* object supersedes that of the same identifier.  With the same verdict every
\* object of the first report is superseded by one of the second, whatever the
\* evidence, and none is added - but those with stamps are all created anew, as of
\* the second.  With another verdict nothing in the second bundle supersedes the
\* first indicator, which stands as it was.
THEOREM SentAgainSupersedes ==
    ASSUME NEW one, NEW other, NEW before, NEW later, before # later,
           one.package = other.package, one.version = other.version
    PROVE  /\ one.verdict = other.verdict =>
                 Ids(Bundle(one, before)) = Ids(Bundle(other, later))
           /\ \A old \in Bundle(one, before), new \in Bundle(other, later) :
                  old.id = new.id =>
                      /\ new.modified = later \/ new = Software(other)
                      /\ old.created = new.created => new \in {Identity(later), Software(other)}
           /\ one.verdict # other.verdict =>
                 /\ IndicatorId(one) \notin Ids(Bundle(other, later))
                 /\ Software(one) \in Bundle(other, later)
<1>1. PackageId("software", one) = PackageId("software", other)
      /\ PackageId("malware", one) = PackageId("malware", other)
  BY DEF PackageId
<1>2. ASSUME one.verdict = other.verdict
      PROVE  Ids(Bundle(one, before)) = Ids(Bundle(other, later))
  <2>1. IndicatorId(one) = IndicatorId(other)
    BY <1>2 DEF IndicatorId
  <2> QED
    BY <1>1, <1>2, <2>1, BundleIds
<1>3. ASSUME NEW old \in Bundle(one, before), NEW new \in Bundle(other, later), old.id = new.id
      PROVE  /\ new.modified = later \/ new = Software(other)
             /\ old.created = new.created => new \in {Identity(later), Software(other)}
  <2>1. OfKind(old, one, before) /\ OfKind(new, other, later)
    BY KindsInBundle
  <2>2. Identity(later).modified = later
    BY DEF Identity, Object
  <2> QED
    BY <1>3, <2>1, <2>2 DEF OfKind
<1>4. ASSUME one.verdict # other.verdict
      PROVE  IndicatorId(one) \notin Ids(Bundle(other, later)) /\ Software(one) \in Bundle(other, later)
  <2>1. IndicatorId(one) # IndicatorId(other)
    BY <1>4 DEF IndicatorId
  <2>2. Software(one) = Software(other)
    BY <1>1 DEF Software
  <2>3. IndicatorId(one)[1] = "indicator"
    BY DEF IndicatorId
  <2>4. \A id \in Ids(Bundle(other, later)) : id = IndicatorId(other) \/ id[1] # "indicator"
    BY BundleIds DEF IdsOf, PackageId, RelationshipId
  <2> QED
    BY <2>1, <2>2, <2>3, <2>4 DEF Bundle
<1> QED
  BY <1>2, <1>3, <1>4

----------------------------------------------------------------------------
(* The refresh of the feeds (FeedRefresh) *)

\* A load nobody disturbed has its rows in the table, up to where it is.
InTable(r) ==
    LET rows == Rows(Now(r), body[r])
        done == {n \in ToLoad(r, Now(r), body[r]) : n <= pos[r]}
    IN  \A n \in done :
            (\A m \in done : m > n => rows[m].key # rows[n].key) =>
                table[Now(r)][rows[n].key] = rows[n].value

\* What holds of one process and of one feed.
ProcessOK(r) ==
    /\ pc[r] = "idle" <=> job[r].feeds = {}
    /\ pc[r] = "load" => /\ body[r] \in DOMAIN Dumps[Now(r)]
                         /\ pos[r] <= Len(Dumps[Now(r)][body[r]].rows)
    /\ pc[r] = "load" /\ ~disturbed[r] => InTable(r)

FeedOK(f) ==
    /\ published[f] \in DOMAIN Dumps[f] /\ meta[f] \in DOMAIN Dumps[f] \union {NoSha}
    /\ meta[f] # NoSha /\ ~dirty[f] => Loaded(f, meta[f])

FeedTypes ==
    /\ published \in [FeedSet -> Nat] /\ meta \in [FeedSet -> Nat]
    /\ table \in [FeedSet -> [Keys -> Values \union {NoRow}]]
    /\ pc \in [Refreshers -> {"idle", "download", "load"}]
    /\ job \in [Refreshers -> Jobs]
    /\ body \in [Refreshers -> Nat] /\ pos \in [Refreshers -> Nat]
    /\ dirty \in [FeedSet -> BOOLEAN] /\ disturbed \in [Refreshers -> BOOLEAN]
    /\ spoilt \in [FeedSet -> BOOLEAN]
    /\ crashes \in 0..MaxCrashes /\ manual \in 0..MaxManual

FeedInv ==
    /\ FeedTypes
    /\ \A r \in Refreshers : ProcessOK(r)
    /\ \A f \in FeedSet : FeedOK(f)

LEMMA FeedInvImplies == FeedInv => FeedTypeOK /\ SkipHidesOnlyTheRefused
BY DEF FeedInv, FeedTypeOK, SkipHidesOnlyTheRefused, FeedTypes, ProcessOK, FeedOK

\* A process with feeds left is at one of them.
LEMMA NowIsLeft ==
    ASSUME FeedTypeOK, NEW r \in Refreshers, job[r].feeds # {}
    PROVE  Now(r) \in job[r].feeds /\ Now(r) \in FeedSet
<1> DEFINE S == {n \in DOMAIN Feeds : Feeds[n] \in job[r].feeds}
<1>1. Feeds \in Seq(FeedSet) /\ DOMAIN Feeds = 1..Len(Feeds) /\ Len(Feeds) \in Nat
  BY FeedAssumption
<1>2. job[r].feeds \subseteq FeedSet
  BY DEF FeedTypeOK, Jobs
<1>3. S \subseteq Nat /\ S # {}
  BY <1>1, <1>2 DEF FeedSet
<1>4. PICK n \in S : \A m \in S : n <= m
  BY <1>3, Least
<1>5. n \in 1..Len(Feeds) /\ \A m \in 1..(n - 1) : m \in DOMAIN Feeds
  BY <1>1, <1>4
<1>6. \A m \in 1..(n - 1) : Feeds[m] \notin job[r].feeds
  <2>1. SUFFICES ASSUME NEW m \in 1..(n - 1), Feeds[m] \in job[r].feeds PROVE FALSE
    OBVIOUS
  <2>2. m \in S /\ m < n
    BY <1>5, <2>1
  <2> QED
    BY <1>4, <1>5, <2>2
<1>7. /\ n \in DOMAIN Feeds /\ Feeds[n] \in job[r].feeds
      /\ \A m \in 1..(n - 1) : Feeds[m] \notin job[r].feeds
  BY <1>4, <1>6
<1>8. Now(r) \in job[r].feeds
  BY <1>7, Zenon DEF Now, Earliest
<1> QED
  BY <1>2, <1>8

LEMMA DumpTypes ==
    ASSUME NEW f \in FeedSet, NEW d \in DOMAIN Dumps[f]
    PROVE  /\ Rows(f, d) \in Seq(FeedRow) /\ DOMAIN Rows(f, d) = 1..Len(Rows(f, d))
           /\ Len(Rows(f, d)) \in Nat
           /\ \A n \in DOMAIN Rows(f, d) :
                  Rows(f, d)[n].key \in Keys /\ Rows(f, d)[n].value \in Values
           /\ Kept(f, d) \subseteq 1..Len(Rows(f, d))
           /\ \A r : ToLoad(r, f, d) \subseteq Kept(f, d)
           /\ d # NoSha
<1>1. Dumps[f] \in Seq([broken : BOOLEAN, rows : Seq(FeedRow)])
  BY FeedAssumption
<1>0. d \in 1..Len(Dumps[f])
  BY <1>1
<1>2. Dumps[f][d] \in [broken : BOOLEAN, rows : Seq(FeedRow)] /\ d \in 1..Len(Dumps[f])
  BY <1>0, <1>1, ElementOfSeq
<1>3. Rows(f, d) \in Seq(FeedRow)
  BY <1>2 DEF Rows
<1>4. DOMAIN Rows(f, d) = 1..Len(Rows(f, d)) /\ Len(Rows(f, d)) \in Nat
  BY <1>3
<1>5. \A n \in DOMAIN Rows(f, d) : Rows(f, d)[n] \in FeedRow
  BY <1>3
<1>6. \A n \in DOMAIN Rows(f, d) : Rows(f, d)[n].key \in Keys /\ Rows(f, d)[n].value \in Values
  BY <1>5 DEF FeedRow
<1>7. Kept(f, d) \subseteq 1..Len(Rows(f, d))
  BY <1>4 DEF Kept
<1>8. \A r : ToLoad(r, f, d) \subseteq Kept(f, d)
  BY DEF ToLoad
<1>9. d # NoSha
  BY <1>1, <1>2 DEF NoSha
<1> QED
  BY <1>3, <1>4, <1>6, <1>7, <1>8, <1>9

\* A load of every row that nobody disturbed leaves the dump in the table.
LEMMA WholeLoads ==
    ASSUME FeedInv, NEW r \in Refreshers, pc[r] = "load", Ahead(r) = {}, ~Incomplete(r)
    PROVE  Loaded(Now(r), body[r])
<1>1. InTable(r) /\ ToLoad(r, Now(r), body[r]) = Kept(Now(r), body[r])
  BY DEF FeedInv, ProcessOK, Incomplete
<1>2. Now(r) \in FeedSet /\ body[r] \in DOMAIN Dumps[Now(r)] /\ pos[r] \in Nat
  BY NowIsLeft, FeedInvImplies DEF FeedTypeOK
<1>3. \A n \in Kept(Now(r), body[r]) : n \in Nat
  BY <1>2, DumpTypes
<1>4. \A n \in Kept(Now(r), body[r]) : n <= pos[r]
  BY <1>1, <1>2, <1>3 DEF Ahead
<1>5. Kept(Now(r), body[r]) = {n \in Kept(Now(r), body[r]) : n <= pos[r]}
  BY <1>4
<1> PICK f \in FeedSet : f = Now(r)
  BY <1>2
<1> PICK d \in DOMAIN Dumps[f] : d = body[r]
  BY <1>2
<1> PICK rows : rows = Rows(f, d)
  OBVIOUS
<1>6. \A n \in Kept(f, d) :
          (\A m \in Kept(f, d) : m > n => rows[m].key # rows[n].key) =>
              table[f][rows[n].key] = rows[n].value
  BY <1>1, <1>5 DEF InTable
<1>7. \A n \in DOMAIN rows : n \in Kept(f, d) \/ n \in refused[f][d]
  BY DEF Kept
<1>8. \A n \in DOMAIN rows :
          \/ table[f][rows[n].key] = rows[n].value
          \/ \E m \in Kept(f, d) : m > n /\ rows[m].key = rows[n].key
          \/ n \in refused[f][d]
  BY <1>6, <1>7
<1> QED
  BY <1>8 DEF Loaded

\* The rows of the feed a process is not at are left alone.
LEMMA LoadedStays ==
    ASSUME NEW f, NEW d, table'[f] = table[f], Loaded(f, d)
    PROVE  Loaded(f, d)'
BY DEF Loaded

\* A process keeps what holds of it while it, and the feed it loads, are left alone.
LEMMA ProcessStays ==
    ASSUME NEW r \in Refreshers, ProcessOK(r),
           UNCHANGED <<pc[r], job[r], body[r], pos[r]>>,
           pc[r] = "load" /\ ~disturbed'[r] => ~disturbed[r] /\ table'[Now(r)] = table[Now(r)]
    PROVE  ProcessOK(r)'
<1>1. Now(r)' = Now(r)
  BY DEF Now
<1>2. ASSUME pc[r] = "load", ~disturbed'[r] PROVE InTable(r)'
  <2>1. InTable(r) /\ table'[Now(r)] = table[Now(r)]
    BY <1>2 DEF ProcessOK
  <2>2. ToLoad(r, Now(r), body[r])' = ToLoad(r, Now(r), body[r])
    BY <1>1 DEF ToLoad
  <2>3. Rows(Now(r), body[r])' = Rows(Now(r), body[r])
    BY <1>1 DEF Rows
  <2> QED
    BY <1>1, <2>1, <2>2, <2>3 DEF InTable
<1> QED
  BY <1>1, <1>2 DEF ProcessOK

LEMMA FeedStays ==
    ASSUME NEW f \in FeedSet, FeedOK(f), UNCHANGED <<published[f], meta[f]>>,
           ~dirty'[f] => ~dirty[f] /\ table'[f] = table[f]
    PROVE  FeedOK(f)'
BY LoadedStays DEF FeedOK

LEMMA FeedsInitially == FeedInit => FeedInv
<1> SUFFICES ASSUME FeedInit PROVE FeedInv
  OBVIOUS
<1>1. FeedTypes
  <2>1. NoJob \in Jobs
    BY DEF NoJob, Jobs
  <2> QED
    BY <2>1, FeedAssumption DEF FeedInit, FeedTypes, NoSha
<1>2. ASSUME NEW r \in Refreshers PROVE ProcessOK(r)
  BY DEF FeedInit, ProcessOK, NoJob
<1>3. ASSUME NEW f \in FeedSet PROVE FeedOK(f)
  <2>1. Dumps[f] \in Seq([broken : BOOLEAN, rows : Seq(FeedRow)]) /\ Dumps[f] # <<>>
    BY FeedAssumption
  <2>2. 1 \in DOMAIN Dumps[f]
    BY <2>1
  <2> QED
    BY <2>2 DEF FeedInit, FeedOK
<1> QED
  BY <1>1, <1>2, <1>3 DEF FeedInv

LEMMA LeavingFeeds ==
    ASSUME NEW j \in Jobs, NEW rest, rest \subseteq j.feeds
    PROVE  [j EXCEPT !.feeds = rest] \in Jobs /\ [j EXCEPT !.feeds = rest].feeds = rest
BY DEF Jobs

\* A process that is done with a feed goes on to the next or becomes idle.
LEMMA GoingOn ==
    ASSUME FeedInv, NEW r \in Refreshers, NextFeed(r)
    PROVE  /\ pc' \in [Refreshers -> {"idle", "download", "load"}]
           /\ job' \in [Refreshers -> Jobs]
           /\ ProcessOK(r)'
           /\ \A q \in Refreshers \ {r} : pc'[q] = pc[q] /\ job'[q] = job[q]
<1> DEFINE rest == job[r].feeds \ {Now(r)}
           next == IF rest = {} THEN NoJob ELSE [job[r] EXCEPT !.feeds = rest]
<1>1. FeedTypes
  BY DEF FeedInv
<1>2. job[r] \in Jobs
  BY <1>1 DEF FeedTypes
<1>3. next \in Jobs /\ next.feeds = rest
  <2>1. CASE rest = {}
    BY <2>1 DEF NoJob, Jobs
  <2>2. CASE rest # {}
    BY <1>2, <2>2, LeavingFeeds
  <2> QED
    BY <2>1, <2>2
<1>4. job' = [job EXCEPT ![r] = next] /\ pc' = [pc EXCEPT ![r] = IF rest = {} THEN "idle" ELSE "download"]
  BY DEF NextFeed
<1> HIDE DEF next
<1>5. job' \in [Refreshers -> Jobs] /\ job'[r] = next
      /\ \A q \in Refreshers \ {r} : job'[q] = job[q]
  BY <1>1, <1>3, <1>4 DEF FeedTypes
<1> HIDE DEF rest
<1>6. pc' \in [Refreshers -> {"idle", "download", "load"}]
      /\ pc'[r] = (IF rest = {} THEN "idle" ELSE "download")
      /\ \A q \in Refreshers \ {r} : pc'[q] = pc[q]
  BY <1>1, <1>4 DEF FeedTypes
<1>7. ProcessOK(r)'
  BY <1>3, <1>5, <1>6 DEF ProcessOK
<1> QED
  BY <1>5, <1>6, <1>7

LEMMA Beginning ==
    ASSUME FeedInv, Daily \/ (\E r \in Refreshers : Manual(r))
    PROVE  FeedInv'
<1>0. FeedTypes /\ (\A r \in Refreshers : ProcessOK(r)) /\ \A f \in FeedSet : FeedOK(f)
  BY DEF FeedInv
<1>1. PICK r \in Refreshers, feeds \in SUBSET FeedSet, skip \in BOOLEAN, limited \in BOOLEAN :
          Begin(r, feeds, skip, limited) /\ manual' \in {manual, manual + 1} /\ manual' \in 0..MaxManual
  <2>1. MaxManual \in Nat /\ manual \in 0..MaxManual
    BY <1>0, FeedAssumption DEF FeedTypes
  <2>2. CASE Daily
    BY <2>1, <2>2, FeedAssumption DEF Daily
  <2>3. CASE \E r \in Refreshers : Manual(r)
    BY <2>1, <2>3 DEF Manual
  <2> QED
    BY <2>2, <2>3
<1> DEFINE new == [feeds |-> feeds, skip |-> skip, limited |-> limited]
<1>2. new \in Jobs /\ new.feeds = feeds
  BY DEF Jobs
<1>3. /\ pc' = [pc EXCEPT ![r] = "download"] /\ job' = [job EXCEPT ![r] = new] /\ feeds # {}
      /\ UNCHANGED <<published, table, meta, body, pos, dirty, disturbed, spoilt, crashes>>
  BY <1>1 DEF Begin, history
<1> HIDE DEF new
<1>4. FeedTypes'
  BY <1>0, <1>1, <1>2, <1>3 DEF FeedTypes
<1>5. ProcessOK(r)'
  BY <1>0, <1>2, <1>3 DEF FeedTypes, ProcessOK
<1>6. ASSUME NEW q \in Refreshers, q # r PROVE ProcessOK(q)'
  BY <1>0, <1>3, <1>6, ProcessStays DEF FeedTypes
<1>7. ASSUME NEW f \in FeedSet PROVE FeedOK(f)'
  BY <1>0, <1>3, FeedStays
<1> QED
  BY <1>4, <1>5, <1>6, <1>7 DEF FeedInv

\* A step of a process that goes on, stores nothing in the table and leaves the
\* loads of others alone.
LEMMA Advancing ==
    ASSUME FeedInv, NEW r \in Refreshers, NEW f \in FeedSet,
           UNCHANGED <<published, table>>, FeedTypes', ProcessOK(r)', FeedOK(f)',
           \A q \in Refreshers \ {r} :
               UNCHANGED <<pc[q], job[q], body[q], pos[q], disturbed[q]>>,
           \A g \in FeedSet \ {f} : UNCHANGED <<meta[g], dirty[g]>>
    PROVE  FeedInv'
<1>0. (\A q \in Refreshers : ProcessOK(q)) /\ \A g \in FeedSet : FeedOK(g)
  BY DEF FeedInv
<1>1. ASSUME NEW q \in Refreshers, q # r PROVE ProcessOK(q)'
  BY <1>0, <1>1, ProcessStays
<1>2. ASSUME NEW g \in FeedSet, g # f PROVE FeedOK(g)'
  BY <1>0, <1>2, FeedStays
<1> QED
  BY <1>1, <1>2 DEF FeedInv

LEMMA FailingDownload ==
    ASSUME FeedInv, NEW r \in Refreshers, DownloadFails(r)
    PROVE  FeedInv'
<1>0. FeedTypes /\ \A f \in FeedSet : FeedOK(f)
  BY DEF FeedInv
<1>1. /\ pc[r] = "download" /\ NextFeed(r) /\ meta' = [meta EXCEPT ![Now(r)] = NoSha]
      /\ UNCHANGED <<published, table, body, pos, dirty, disturbed, spoilt, crashes, manual>>
  BY DEF DownloadFails, history
<1>2. Now(r) \in FeedSet
  BY <1>1, NowIsLeft, FeedInvImplies DEF FeedTypeOK
<1> PICK f \in FeedSet : f = Now(r)
  BY <1>2
<1>3. FeedTypes'
  BY <1>0, <1>1, <1>2, GoingOn DEF FeedTypes, NoSha
<1>4. FeedOK(f)'
  BY <1>0, <1>1 DEF FeedOK, FeedTypes
<1>5. \A g \in FeedSet \ {f} : UNCHANGED <<meta[g], dirty[g]>>
  BY <1>0, <1>1 DEF FeedTypes
<1>6. ProcessOK(r)' /\ \A q \in Refreshers \ {r} : UNCHANGED <<pc[q], job[q]>>
  BY <1>1, GoingOn
<1> QED
  BY <1>1, <1>3, <1>4, <1>5, <1>6, Advancing

LEMMA Downloading ==
    ASSUME FeedInv, NEW r \in Refreshers, Download(r)
    PROVE  FeedInv'
<1>0. FeedTypes /\ \A g \in FeedSet : FeedOK(g)
  BY DEF FeedInv
<1>1. /\ pc[r] = "download"
      /\ UNCHANGED <<published, table, meta, dirty, crashes, manual>>
      /\ spoilt' = [spoilt EXCEPT ![Now(r)] = @ \/ (pc'[r] = "load" /\ LoadingWith(r) # {})]
  BY DEF Download
<1>2. Now(r) \in FeedSet /\ published[Now(r)] \in DOMAIN Dumps[Now(r)]
  BY <1>0, <1>1, NowIsLeft, FeedInvImplies DEF FeedTypeOK
<1> PICK f \in FeedSet : f = Now(r)
  BY <1>2
<1> PICK d \in DOMAIN Dumps[f] : d = published[f]
  BY <1>2
<1>3. spoilt' \in [FeedSet -> BOOLEAN]
  BY <1>0, <1>1 DEF FeedTypes
<1>4. \A g \in FeedSet : UNCHANGED <<meta[g], dirty[g]>> /\ FeedOK(g)'
  BY <1>0, <1>1, FeedStays
<1>5. CASE NextFeed(r) /\ UNCHANGED <<body, pos, disturbed>>
  <2>1. FeedTypes'
    BY <1>0, <1>1, <1>3, <1>5, GoingOn DEF FeedTypes
  <2>2. ProcessOK(r)' /\ \A q \in Refreshers \ {r} : UNCHANGED <<pc[q], job[q]>>
    BY <1>5, GoingOn
  <2> QED
    BY <1>1, <1>4, <1>5, <2>1, <2>2, Advancing
<1>6. CASE /\ pc' = [pc EXCEPT ![r] = "idle"] /\ job' = [job EXCEPT ![r] = NoJob]
           /\ UNCHANGED <<body, pos, disturbed>>
  <2>1. NoJob \in Jobs /\ NoJob.feeds = {}
    BY DEF NoJob, Jobs
  <2>2. FeedTypes'
    BY <1>0, <1>1, <1>3, <1>6, <2>1 DEF FeedTypes
  <2>3. ProcessOK(r)'
    BY <1>0, <1>6, <2>1 DEF FeedTypes, ProcessOK
  <2>4. \A q \in Refreshers \ {r} : UNCHANGED <<pc[q], job[q], body[q], pos[q], disturbed[q]>>
    BY <1>0, <1>6 DEF FeedTypes
  <2> QED
    BY <1>1, <1>4, <2>2, <2>3, <2>4, Advancing
<1>7. CASE /\ pc' = [pc EXCEPT ![r] = "load"] /\ body' = [body EXCEPT ![r] = published[Now(r)]]
           /\ pos' = [pos EXCEPT ![r] = 0] /\ disturbed' = [disturbed EXCEPT ![r] = FALSE]
           /\ UNCHANGED job
  <2>1. d \in Nat
    BY <1>0 DEF FeedTypes
  <2>2. FeedTypes'
    BY <1>0, <1>1, <1>3, <1>7, <2>1 DEF FeedTypes
  <2>3. Now(r)' = f /\ body'[r] = d /\ pos'[r] = 0 /\ pc'[r] = "load"
    BY <1>0, <1>7 DEF FeedTypes, Now
  <2>4. Kept(f, d) \subseteq Nat \ {0} /\ Len(Rows(f, d)) \in Nat
    BY DumpTypes
  <2>5. InTable(r)'
    <3>1. ToLoad(r, f, d)' \subseteq Kept(f, d)
      BY DEF ToLoad
    <3>2. {n \in ToLoad(r, f, d)' : n <= 0} = {}
      BY <2>4, <3>1
    <3>3. {n \in ToLoad(r, Now(r), body[r]) : n <= pos[r]}' = {n \in ToLoad(r, f, d)' : n <= 0}
      BY <2>3 DEF ToLoad
    <3> QED
      BY <3>2, <3>3 DEF InTable
  <2>6. job'[r].feeds # {}
    BY <1>1, <1>7 DEF FeedInv, ProcessOK
  <2>7. ProcessOK(r)'
    BY <2>3, <2>4, <2>5, <2>6 DEF ProcessOK, Rows
  <2>8. \A q \in Refreshers \ {r} : UNCHANGED <<pc[q], job[q], body[q], pos[q], disturbed[q]>>
    BY <1>0, <1>7 DEF FeedTypes
  <2> QED
    BY <1>1, <1>4, <2>2, <2>7, <2>8, Advancing
<1> QED
  BY <1>5, <1>6, <1>7 DEF Download

LEMMA Recording ==
    ASSUME FeedInv, NEW r \in Refreshers, Record(r)
    PROVE  FeedInv'
<1>0. FeedTypes /\ ProcessOK(r)
  BY DEF FeedInv
<1>1. /\ pc[r] = "load" /\ Ahead(r) = {} /\ NextFeed(r)
      /\ meta' = [meta EXCEPT ![Now(r)] = body[r]]
      /\ dirty' = [dirty EXCEPT ![Now(r)] = Incomplete(r)]
      /\ spoilt' = [spoilt EXCEPT ![Now(r)] = @ \/ Incomplete(r)]
      /\ UNCHANGED <<published, table, body, pos, disturbed, crashes, manual>>
  BY DEF Record
<1>2. Now(r) \in FeedSet /\ body[r] \in DOMAIN Dumps[Now(r)] /\ body[r] \in Nat
  BY <1>0, <1>1, NowIsLeft, FeedInvImplies DEF FeedTypeOK
<1> PICK f \in FeedSet : f = Now(r)
  BY <1>2
<1> PICK d \in DOMAIN Dumps[f] : d = body[r]
  BY <1>2
<1>3. Incomplete(r) \in BOOLEAN
  BY <1>0 DEF Incomplete, FeedTypes
<1>4. FeedTypes'
  BY <1>0, <1>1, <1>2, <1>3, GoingOn DEF FeedTypes
<1>5. FeedOK(f)'
  <2>1. meta'[f] = d /\ dirty'[f] = Incomplete(r)
    BY <1>0, <1>1, <1>2 DEF FeedTypes
  <2>2. ASSUME ~Incomplete(r) PROVE Loaded(f, d)'
    <3>1. Loaded(f, d)
      BY <1>1, <2>2, WholeLoads
    <3> QED
      BY <1>1, <3>1, LoadedStays
  <2>3. published'[f] \in DOMAIN Dumps[f]
    BY <1>1, <1>2, FeedInvImplies DEF FeedTypeOK
  <2>4. Loaded(f, d)' => Loaded(f, meta[f])'
    BY <2>1 DEF Loaded
  <2> QED
    BY <2>1, <2>2, <2>3, <2>4 DEF FeedOK
<1>6. \A g \in FeedSet \ {f} : UNCHANGED <<meta[g], dirty[g]>>
  BY <1>0, <1>1 DEF FeedTypes
<1>7. ProcessOK(r)' /\ \A q \in Refreshers \ {r} : UNCHANGED <<pc[q], job[q]>>
  BY <1>1, GoingOn
<1> QED
  BY <1>1, <1>4, <1>5, <1>6, <1>7, Advancing

LEMMA Upserting ==
    ASSUME FeedInv, NEW r \in Refreshers, Upsert(r)
    PROVE  FeedInv'
<1>0. FeedTypes /\ (\A q \in Refreshers : ProcessOK(q)) /\ \A g \in FeedSet : FeedOK(g)
  BY DEF FeedInv
<1>1. PICK n \in Ahead(r) :
          LET row == Rows(Now(r), body[r])[n]
          IN  /\ \A m \in Ahead(r) : n <= m
              /\ pos' = [pos EXCEPT ![r] = n]
              /\ table' = [table EXCEPT ![Now(r)][row.key] = row.value]
              /\ dirty' = [dirty EXCEPT ![Now(r)] = TRUE]
              /\ spoilt' = [spoilt EXCEPT ![Now(r)] = @ \/ LoadingWith(r) # {}]
  BY DEF Upsert
<1>2. /\ pc[r] = "load"
      /\ disturbed' = [q \in Refreshers |-> disturbed[q] \/ q \in LoadingWith(r)]
      /\ UNCHANGED <<published, meta, pc, job, body, crashes, manual>>
  BY DEF Upsert
<1>3. /\ Now(r) \in FeedSet /\ body[r] \in DOMAIN Dumps[Now(r)] /\ pos[r] \in Nat
  BY <1>0, <1>2, NowIsLeft, FeedInvImplies DEF FeedTypeOK
<1> PICK f \in FeedSet : f = Now(r)
  BY <1>3
<1> PICK d \in DOMAIN Dumps[f] : d = body[r]
  BY <1>3
<1> PICK rows : rows = Rows(f, d)
  OBVIOUS
<1>4. /\ DOMAIN rows = 1..Len(rows) /\ Len(rows) \in Nat
      /\ \A m \in DOMAIN rows : rows[m].key \in Keys /\ rows[m].value \in Values
      /\ ToLoad(r, f, d) \subseteq 1..Len(rows)
  BY DumpTypes
<1>5. n \in ToLoad(r, f, d) /\ n \in 1..Len(rows) /\ n > pos[r]
  BY <1>4 DEF Ahead
<1>6. \A m \in ToLoad(r, f, d) : m <= pos[r] \/ n <= m
  <2> SUFFICES ASSUME NEW m \in ToLoad(r, f, d), ~(m <= pos[r]) PROVE n <= m
    OBVIOUS
  <2>1. m > pos[r]
    BY <1>3, <1>4
  <2> QED
    BY <1>1, <2>1 DEF Ahead
<1>7. /\ pos' = [pos EXCEPT ![r] = n] /\ dirty' = [dirty EXCEPT ![f] = TRUE]
      /\ table' = [table EXCEPT ![f][rows[n].key] = rows[n].value]
      /\ spoilt' = [spoilt EXCEPT ![f] = @ \/ LoadingWith(r) # {}]
  BY <1>1
<1>8. /\ table' \in [FeedSet -> [Keys -> Values \union {NoRow}]]
      /\ table'[f][rows[n].key] = rows[n].value
      /\ \A k \in Keys \ {rows[n].key} : table'[f][k] = table[f][k]
      /\ \A g \in FeedSet \ {f} : table'[g] = table[g]
  BY <1>0, <1>4, <1>5, <1>7 DEF FeedTypes
<1>9. FeedTypes'
  <2>1. pos' \in [Refreshers -> Nat]
    BY <1>0, <1>4, <1>5, <1>7 DEF FeedTypes
  <2>2. dirty' \in [FeedSet -> BOOLEAN] /\ spoilt' \in [FeedSet -> BOOLEAN]
    BY <1>0, <1>7 DEF FeedTypes
  <2>3. disturbed' \in [Refreshers -> BOOLEAN]
    BY <1>2, <1>0 DEF FeedTypes
  <2> QED
    BY <1>0, <1>2, <1>8, <2>1, <2>2, <2>3 DEF FeedTypes
<1>10. ProcessOK(r)'
  <2>1. Now(r)' = f /\ body'[r] = d /\ pos'[r] = n /\ pc'[r] = "load" /\ job'[r] = job[r]
    BY <1>0, <1>2, <1>7 DEF FeedTypes, Now
  <2>2. n <= Len(Dumps[f][d].rows)
    BY <1>4, <1>5 DEF Rows
  <2>3. ASSUME ~disturbed'[r] PROVE InTable(r)'
    <3>1. ~disturbed[r]
      BY <1>0, <1>2, <2>3 DEF FeedTypes
    <3> PICK loads : loads = ToLoad(r, f, d)
      OBVIOUS
    <3> PICK old : old = {m \in loads : m <= pos[r]}
      OBVIOUS
    <3>2. ToLoad(r, f, d)' = loads /\ Rows(f, d)' = rows
      BY <2>1 DEF ToLoad
    <3>3. {m \in loads : m <= n} = old \union {n}
      BY <1>3, <1>4, <1>5, <1>6
    <3>4. ASSUME NEW k \in old,
                 \A m \in old \union {n} : m > k => rows[m].key # rows[k].key
          PROVE  table'[f][rows[k].key] = rows[k].value
      <4>1. k \in 1..Len(rows) /\ n > k
        BY <1>3, <1>4, <1>5
      <4>2. rows[n].key # rows[k].key /\ rows[k].key \in Keys
        BY <1>4, <3>4, <4>1
      <4>3. InTable(r)
        BY <1>0, <1>2, <3>1 DEF ProcessOK
      <4>4. table[f][rows[k].key] = rows[k].value
        BY <3>4, <4>3 DEF InTable
      <4> QED
        BY <1>8, <4>2, <4>4
    <3>5. \A k \in old \union {n} :
              (\A m \in old \union {n} : m > k => rows[m].key # rows[k].key) =>
                  table'[f][rows[k].key] = rows[k].value
      BY <1>8, <3>4
    <3>6. {m \in ToLoad(r, Now(r), body[r]) : m <= pos[r]}' = old \union {n}
      BY <2>1, <3>2, <3>3 DEF ToLoad
    <3>7. Rows(Now(r), body[r])' = rows
      BY <2>1, <3>2 DEF Rows
    <3> QED
      BY <2>1, <3>5, <3>6, <3>7 DEF InTable
  <2>4. job[r].feeds # {} /\ d \in DOMAIN Dumps[f]
    BY <1>0, <1>2 DEF ProcessOK
  <2> QED
    BY <2>1, <2>2, <2>3, <2>4 DEF ProcessOK
<1>11. ASSUME NEW q \in Refreshers, q # r PROVE ProcessOK(q)'
  <2>1. UNCHANGED <<pc[q], job[q], body[q], pos[q]>>
    BY <1>0, <1>2, <1>7, <1>11 DEF FeedTypes
  <2>2. ASSUME pc[q] = "load", ~disturbed'[q]
        PROVE  ~disturbed[q] /\ table'[Now(q)] = table[Now(q)]
    <3>1. ~disturbed[q] /\ q \notin LoadingWith(r)
      BY <1>0, <1>2, <2>2 DEF FeedTypes
    <3>2. Now(q) # f
      BY <1>11, <2>2, <3>1 DEF LoadingWith
    <3>3. Now(q) \in FeedSet
      BY <1>0, <2>2, NowIsLeft, FeedInvImplies DEF ProcessOK
    <3> QED
      BY <1>8, <3>1, <3>2, <3>3
  <2> QED
    BY <1>0, <2>1, <2>2, ProcessStays
<1>12. ASSUME NEW g \in FeedSet PROVE FeedOK(g)'
  <2>1. CASE g = f
    <3>1. dirty'[f] = TRUE
      BY <1>0, <1>7 DEF FeedTypes
    <3> QED
      BY <1>0, <1>2, <2>1, <3>1 DEF FeedOK
  <2>2. CASE g # f
    <3>1. dirty'[g] = dirty[g] /\ table'[g] = table[g]
      BY <1>0, <1>7, <1>8, <2>2 DEF FeedTypes
    <3> QED
      BY <1>0, <1>2, <3>1, FeedStays
  <2> QED
    BY <2>1, <2>2
<1> QED
  BY <1>9, <1>10, <1>11, <1>12 DEF FeedInv

LEMMA Dying ==
    ASSUME FeedInv, NEW r \in Refreshers, Crash(r)
    PROVE  FeedInv'
<1>0. FeedTypes /\ (\A q \in Refreshers : ProcessOK(q)) /\ \A g \in FeedSet : FeedOK(g)
  BY DEF FeedInv
<1>1. /\ pc' = [pc EXCEPT ![r] = "idle"] /\ job' = [job EXCEPT ![r] = NoJob]
      /\ spoilt' = [spoilt EXCEPT ![Now(r)] = @ \/ (pc[r] = "load" /\ body[r] = meta[Now(r)])]
      /\ crashes < MaxCrashes /\ crashes' = crashes + 1
      /\ UNCHANGED <<published, table, meta, body, pos, dirty, disturbed, manual>>
  BY DEF Crash
<1>2. NoJob \in Jobs /\ NoJob.feeds = {}
  BY DEF NoJob, Jobs
<1>3. crashes' \in 0..MaxCrashes
  BY <1>0, <1>1, FeedAssumption DEF FeedTypes
<1>4. spoilt' \in [FeedSet -> BOOLEAN]
  BY <1>0, <1>1 DEF FeedTypes
<1>5. FeedTypes'
  BY <1>0, <1>1, <1>2, <1>3, <1>4 DEF FeedTypes
<1>6. ProcessOK(r)'
  BY <1>0, <1>1, <1>2 DEF FeedTypes, ProcessOK
<1>7. ASSUME NEW q \in Refreshers, q # r PROVE ProcessOK(q)'
  BY <1>0, <1>1, <1>7, ProcessStays DEF FeedTypes
<1>8. ASSUME NEW g \in FeedSet PROVE FeedOK(g)'
  BY <1>0, <1>1, FeedStays
<1> QED
  BY <1>5, <1>6, <1>7, <1>8 DEF FeedInv

LEMMA Publishing ==
    ASSUME FeedInv, NEW f \in FeedSet, Publish(f)
    PROVE  FeedInv'
<1>0. FeedTypes /\ (\A q \in Refreshers : ProcessOK(q)) /\ \A g \in FeedSet : FeedOK(g)
  BY DEF FeedInv
<1>1. /\ published[f] < Len(Dumps[f]) /\ published' = [published EXCEPT ![f] = published[f] + 1]
      /\ UNCHANGED <<table, meta, pc, job, body, pos, dirty, disturbed, spoilt, crashes, manual>>
  BY DEF Publish, history
<1>2. published[f] \in Nat /\ published' \in [FeedSet -> Nat]
  BY <1>0, <1>1 DEF FeedTypes
<1>3. published'[f] \in DOMAIN Dumps[f]
  <2>1. Dumps[f] \in Seq([broken : BOOLEAN, rows : Seq(FeedRow)])
    BY FeedAssumption
  <2> QED
    BY <1>0, <1>1, <1>2, <2>1 DEF FeedTypes
<1>4. ASSUME NEW g \in FeedSet PROVE FeedOK(g)'
  <2>1. published'[g] \in DOMAIN Dumps[g]
    BY <1>0, <1>1, <1>3 DEF FeedTypes, FeedOK
  <2>2. Loaded(g, meta[g]) => Loaded(g, meta[g])'
    BY <1>1 DEF Loaded
  <2> QED
    BY <1>0, <1>1, <2>1, <2>2 DEF FeedOK
<1>5. ASSUME NEW q \in Refreshers PROVE ProcessOK(q)'
  BY <1>0, <1>1, ProcessStays
<1>6. FeedTypes'
  BY <1>0, <1>1, <1>2 DEF FeedTypes
<1> QED
  BY <1>4, <1>5, <1>6 DEF FeedInv

LEMMA FeedsStay == FeedInv /\ [FeedNext]_feedVars => FeedInv'
<1> SUFFICES ASSUME FeedInv, [FeedNext]_feedVars PROVE FeedInv'
  OBVIOUS
<1>1. CASE UNCHANGED feedVars
  <2>0. UNCHANGED <<published, table, meta, pc, job, body, pos, dirty, disturbed, spoilt, crashes, manual>>
    BY <1>1 DEF feedVars, history
  <2>1. FeedTypes'
    BY <2>0 DEF FeedTypes, FeedInv
  <2>2. ASSUME NEW q \in Refreshers PROVE ProcessOK(q)'
    BY <2>0, ProcessStays DEF FeedInv
  <2>3. ASSUME NEW g \in FeedSet PROVE FeedOK(g)'
    BY <2>0, FeedStays DEF FeedInv
  <2> QED
    BY <2>1, <2>2, <2>3 DEF FeedInv
<1>2. CASE Daily \/ \E r \in Refreshers : Manual(r)
  BY <1>2, Beginning
<1>3. ASSUME NEW r \in Refreshers, Run(r) PROVE FeedInv'
  BY <1>3, Downloading, Upserting, Recording DEF Run
<1>4. ASSUME NEW r \in Refreshers, DownloadFails(r) \/ Crash(r) PROVE FeedInv'
  BY <1>4, FailingDownload, Dying
<1>5. ASSUME NEW f \in FeedSet, Publish(f) PROVE FeedInv'
  BY <1>5, Publishing
<1> QED
  BY <1>1, <1>2, <1>3, <1>4, <1>5 DEF FeedNext

\* A refresh is idle exactly when it has no feed left, and is always at a feed, a
\* dump and a row there are.
THEOREM FeedsTyped == FeedSpec => []FeedTypeOK
BY FeedsInitially, FeedsStay, FeedInvImplies, PTL DEF FeedSpec

\* However often dumps are reloaded, refused, interrupted or loaded by two processes
\* at once, every row of the dump a feed will be skipped for is in the table, or a
\* later one of its key is, or it is one of those the unzip refuses, whatever the
\* bounds of the unzip (ingest_osv and _record_feed_meta).
THEOREM SkippedIsLoaded == FeedSpec => []SkipHidesOnlyTheRefused
BY FeedsInitially, FeedsStay, FeedInvImplies, PTL DEF FeedSpec

----------------------------------------------------------------------------
(* The walk over dependencies (DependencyWalk) *)

\* An answer in memory without a latest version was a failure or an answer without.
Heard == \A n \in Names : versions[n].asked /\ versions[n].says.latest = Unknown =>
                             n \in failed \union nameless

\* What waits is in the order of its distance, and nothing is two steps behind.
Levels ==
    \A i, j \in DOMAIN worklist : i <= j =>
        /\ Len(worklist[i].path) <= Len(worklist[j].path)
        /\ Len(worklist[j].path) <= Len(worklist[i].path) + 1

\* What is reported is no further away than what waits.
Behind == \A k \in DOMAIN results, i \in DOMAIN worklist :
              Len(results[k].path) <= Len(worklist[i].path)

\* A path leads along the first k results.
Chain(path, k) ==
    \A x \in DOMAIN path :
        \E i \in 1..k : results[i].name = path[x] /\ results[i].path = SubSeq(path, 1, x - 1)

Chains == \A i \in DOMAIN worklist : Chain(worklist[i].path, Len(results))

WalkInv == WalkTypeOK /\ Heard /\ BlameHasCause /\ Levels /\ Behind /\ Chains /\ NearestFirst

\* The place of an element when a set of numbers is counted off is its own.
LEMMA RankIsUnique ==
    ASSUME NEW N \in Nat, NEW P, P \subseteq 1..N
    PROVE  /\ \A a \in P : Cardinality({j \in P : j <= a}) \in 1..Cardinality(P)
           /\ \A a, b \in P :
                  Cardinality({j \in P : j <= a}) = Cardinality({j \in P : j <= b}) => a = b
<1> DEFINE Upto(n) == {j \in P : j <= n}
<1>1. IsFiniteSet(1..N) /\ P \in SUBSET (1..N)
  BY FS_Interval
<1>2. IsFiniteSet(P)
  BY <1>1, FS_Subset
<1>3. \A x \in P : x \in Nat
  BY <1>1
<1>4. ASSUME NEW a \in P PROVE /\ IsFiniteSet(Upto(a)) /\ a \in Upto(a)
                               /\ Cardinality(Upto(a)) \in 1..Cardinality(P)
  <2>1. Upto(a) \in SUBSET P /\ a \in Upto(a)
    BY <1>3
  <2> HIDE DEF Upto
  <2>2. IsFiniteSet(Upto(a)) /\ Cardinality(Upto(a)) <= Cardinality(P)
    BY <1>2, <2>1, FS_Subset
  <2>3. Cardinality(Upto(a)) \in Nat /\ Cardinality(P) \in Nat
    BY <1>2, <2>2, FS_CardinalityType
  <2>4. Cardinality(Upto(a)) # 0
    BY <2>1, <2>2, FS_EmptySet
  <2> QED
    BY <2>1, <2>2, <2>3, <2>4
<1>5. ASSUME NEW a \in P, NEW b \in P, a < b PROVE Cardinality(Upto(a)) # Cardinality(Upto(b))
  <2>1. \A j \in P : j <= a => j <= b
    BY <1>3, <1>5
  <2>2. b <= b /\ ~(b <= a)
    BY <1>3, <1>5
  <2>3. Upto(a) \in SUBSET Upto(b) /\ b \in Upto(b) /\ b \notin Upto(a)
    BY <2>1, <2>2
  <2> HIDE DEF Upto
  <2> QED
    BY <1>4, <2>3, FS_Subset
<1>6. ASSUME NEW a \in P, NEW b \in P, Cardinality(Upto(a)) = Cardinality(Upto(b)) PROVE a = b
  <2>1. ~(a < b) /\ ~(b < a)
    BY <1>5, <1>6
  <2> QED
    BY <1>3, <2>1
<1> QED
  BY <1>4, <1>6

\* What is left of a list of dependencies is a list of some of them, and of all that
\* are not seen.
LEMMA UnseenAreDependencies ==
    ASSUME NEW deps \in Seq(Dependency), NEW seen
    PROVE  /\ Unseen(deps, seen) \in Seq(Dependency)
           /\ \A k \in 1..Len(Unseen(deps, seen)) : Unseen(deps, seen)[k] \in ToSet(deps)
           /\ \A d \in ToSet(deps) :
                  \/ d.name \in seen
                  \/ \E k \in 1..Len(Unseen(deps, seen)) : Unseen(deps, seen)[k] = d
<1> DEFINE P == {k \in DOMAIN deps : deps[k].name \notin seen}
           Place(i) == CHOOSE k \in P : Cardinality({j \in P : j <= k}) = i
<1>1. DOMAIN deps = 1..Len(deps) /\ Len(deps) \in Nat /\ P \subseteq 1..Len(deps)
  OBVIOUS
<1>2. \A i \in 1..Cardinality(P) : Place(i) \in P
  <2> SUFFICES ASSUME NEW i \in 1..Cardinality(P) PROVE Place(i) \in P
    OBVIOUS
  <2>1. \E k \in P : Cardinality({j \in P : j <= k}) = i
    BY <1>1, CountedOff
  <2> QED
    BY <2>1, Zenon
<1>3. Cardinality(P) \in Nat
  <2>1. IsFiniteSet(1..Len(deps)) /\ P \in SUBSET (1..Len(deps))
    BY <1>1, FS_Interval
  <2> QED
    BY <2>1, FS_Subset, FS_CardinalityType
<1>4. \A i \in 1..Cardinality(P) : deps[Place(i)] \in Dependency
  BY <1>1, <1>2, ElementOfSeq
<1>5. Unseen(deps, seen) = [i \in 1..Cardinality(P) |-> deps[Place(i)]]
  BY Zenon DEF Unseen
<1>6. \A k \in P : \E i \in 1..Cardinality(P) : Place(i) = k
  <2> SUFFICES ASSUME NEW k \in P PROVE \E i \in 1..Cardinality(P) : Place(i) = k
    OBVIOUS
  <2> DEFINE place(a) == Cardinality({j \in P : j <= a})
  <2>1. place(k) \in 1..Cardinality(P) /\ \A a, b \in P : place(a) = place(b) => a = b
    BY <1>1, RankIsUnique
  <2>2. Place(place(k)) \in P /\ place(Place(place(k))) = place(k)
    BY Zenon
  <2>3. Place(place(k)) = k
    BY <2>1, <2>2, Zenon
  <2> QED
    BY <2>1, <2>3, Zenon
<1>7. \A d \in ToSet(deps) : d.name \notin seen => \E k \in P : deps[k] = d
  BY DEF ToSet
<1>8. \A i \in 1..Cardinality(P) : deps[Place(i)] \in ToSet(deps)
  BY <1>1, <1>2 DEF ToSet
<1> HIDE DEF P, Place
<1>9. Unseen(deps, seen) \in Seq(Dependency) /\ Len(Unseen(deps, seen)) = Cardinality(P)
  BY <1>3, <1>4, <1>5
<1>10. \A i \in 1..Cardinality(P) : Unseen(deps, seen)[i] = deps[Place(i)]
  BY <1>5
<1>11. ASSUME NEW d \in ToSet(deps), d.name \notin seen
       PROVE  \E i \in 1..Cardinality(P) : Unseen(deps, seen)[i] = d
  <2>1. PICK k \in P : deps[k] = d
    BY <1>7, <1>11, Zenon
  <2>2. PICK i \in 1..Cardinality(P) : Place(i) = k
    BY <1>6
  <2> QED
    BY <1>10, <2>1, <2>2
<1> QED
  BY <1>8, <1>9, <1>10, <1>11

\* The version of a dependency is a text or none, and none only when no latest
\* version was named.
LEMMA ResolvedVersion ==
    ASSUME NEW dep \in Dependency, NEW says \in Listing
    PROVE  /\ Resolve(dep, says) \in Versions \union {Loose, Unknown}
           /\ Resolve(dep, says) = Unknown => dep.pin = Unknown /\ says.latest = Unknown
<1> DEFINE fits == dep.read \intersect says.list
<1>1. /\ dep.pin \in Versions \union {Loose, Unknown} /\ fits \in SUBSET Versions
      /\ says.latest \in Versions \union {Unknown}
  BY DEF Dependency, Listing
<1>2. PICK latest \in Versions : Versions \subseteq 1..latest
  BY WalkAssumption
<1>3. latest \in Nat /\ Versions \subseteq 0..latest /\ Unknown \notin Versions
  BY <1>2 DEF Unknown
<1>4. fits # {} => Max(fits) \in Versions
  BY <1>1, <1>3, MaxIsIn
<1>5. /\ dep.pin # Unknown => Resolve(dep, says) = dep.pin
      /\ dep.pin = Unknown /\ fits # {} => Resolve(dep, says) = Max(fits)
      /\ dep.pin = Unknown /\ fits = {} => Resolve(dep, says) = says.latest
  BY Zenon DEF Resolve
<1> HIDE DEF fits
<1> QED
  BY <1>1, <1>3, <1>4, <1>5

\* What visiting a dependency does, and what it may answer.
Answer(r, it, items) ==
    /\ r \in Result /\ r.name = it.dep.name /\ r.path = it.path
    /\ r.verdict = "MALICIOUS" =>
           \/ Condemned(r.name, r.version)
           \/ r.version = Unknown /\ r.name \in failed' \union nameless'
    /\ items \in Seq(Item)
    /\ \A k \in DOMAIN items : items[k].path = Append(it.path, it.dep.name)
    /\ results' = Append(results, r) /\ worklist' = Tail(worklist) \o items

\* What the answer is drawn from when the index could be loaded: the versions heard,
\* and the dependencies of the version, all of which are seen or wait.
Drawn(r, it, items) ==
    LET a == <<r.name, r.version>>
        below == Len(it.path) + 1 < MaxDepth
    IN  /\ r.verdict = History(r.name, r.version)
        /\ it.dep.pin # Unknown \/ versions'[r.name].asked
        /\ r.version = Resolve(it.dep, versions'[r.name].says)
        /\ below /\ r.version # Unknown =>
               /\ a \in DOMAIN children'
               /\ \A d \in ToSet(children'[a]) :
                      d.name \in visited' \/ \E k \in DOMAIN items : items[k].dep = d
        /\ \A k \in DOMAIN items :
               a \in DOMAIN children' /\ items[k].dep \in ToSet(children'[a])

LEMMA Visiting ==
    ASSUME WalkInv, Visit
    PROVE  /\ \E r, items :
                  /\ Answer(r, Head(worklist), items)
                  /\ index = "loaded" => Drawn(r, Head(worklist), items)
                  /\ items # <<>> => Len(Head(worklist).path) + 1 < MaxDepth
           /\ visited' = visited \union {Head(worklist).dep.name}
           /\ \A m \in Names : versions[m].asked => versions'[m] = versions[m]
           /\ \A a \in DOMAIN children : a \in DOMAIN children' /\ children'[a] = children[a]
           /\ worklist # <<>> /\ Head(worklist) \in Item /\ Tail(worklist) \in Seq(Item)
           /\ failed \subseteq failed' /\ failed' \subseteq Names
           /\ nameless \subseteq nameless' /\ nameless' \subseteq Names
           /\ visited' \subseteq Names /\ failures' \in 0..MaxFailures
           /\ versions' \in [Names -> [asked : BOOLEAN, says : Listing]]
           /\ DOMAIN children' \subseteq Names \X (Versions \union {Loose})
           /\ children' \in [DOMAIN children' -> Seq(Dependency)]
           /\ Heard'
<1> DEFINE it == Head(worklist)
           dep == it.dep
           n == dep.name
           path == it.path
<1>1. worklist # <<>> /\ worklist \in Seq(Item)
  BY DEF WalkInv, WalkTypeOK, Visit, Ended
<1>2. it \in Item /\ Tail(worklist) \in Seq(Item)
  BY <1>1, HeadTailProperties
<1>3. dep \in Dependency /\ path \in Seq(Names)
  BY <1>2 DEF Item
<1>4. n \in Names
  BY <1>3 DEF Dependency
<1>5. PICK answered \in BOOLEAN, told \in BOOLEAN :
        LET asksVersions == dep.pin = Unknown /\ ~versions[n].asked
            says == IF versions[n].asked THEN versions[n].says
                    ELSE IF answered THEN registry[n] ELSE Unanswered
            v == Resolve(dep, says)
            asksChildren == Expands(v, path) /\ <<n, v>> \notin DOMAIN children
            found == IF <<n, v>> \in DOMAIN children /\ Expands(v, path)
                     THEN children[<<n, v>>]
                     ELSE IF asksChildren /\ told /\ v \in registry[n].list
                     THEN Requires[n][v] ELSE <<>>
            unseen == Unseen(found, visited \union {n})
            missed == (IF answered THEN 0 ELSE 1) + (IF told THEN 0 ELSE 1)
        IN  /\ ~answered => asksVersions
            /\ ~told => asksChildren
            /\ failures + missed <= MaxFailures /\ failures' = failures + missed
            /\ failed' = IF missed > 0 THEN failed \union {n} ELSE failed
            /\ nameless' = IF asksVersions /\ answered /\ says.latest = Unknown
                           THEN nameless \union {n} ELSE nameless
            /\ visited' = visited \union {n}
            /\ versions' = IF asksVersions
                           THEN [versions EXCEPT ![n] = [asked |-> TRUE, says |-> says]]
                           ELSE versions
            /\ children' = IF asksChildren
                           THEN [a \in DOMAIN children \union {<<n, v>>} |->
                                    IF a = <<n, v>> THEN found ELSE children[a]]
                           ELSE children
            /\ results' = Append(results, [name |-> n, path |-> path,
                   version |-> IF index = "loaded" THEN v ELSE Unknown,
                   verdict |-> IF index = "loaded" THEN History(n, v) ELSE "SKIPPED"])
            /\ worklist' = Queued(Tail(worklist),
                   [k \in 1..Len(unseen) |-> [dep |-> unseen[k], path |-> Append(path, n)]])
  BY Zenon DEF Visit
<1> DEFINE asksVersions == dep.pin = Unknown /\ ~versions[n].asked
           says == IF versions[n].asked THEN versions[n].says
                   ELSE IF answered THEN registry[n] ELSE Unanswered
           v == Resolve(dep, says)
           asksChildren == Expands(v, path) /\ <<n, v>> \notin DOMAIN children
           found == IF <<n, v>> \in DOMAIN children /\ Expands(v, path)
                    THEN children[<<n, v>>]
                    ELSE IF asksChildren /\ told /\ v \in registry[n].list THEN Requires[n][v] ELSE <<>>
           unseen == Unseen(found, visited \union {n})
           missed == (IF answered THEN 0 ELSE 1) + (IF told THEN 0 ELSE 1)
           items == [k \in 1..Len(unseen) |-> [dep |-> unseen[k], path |-> Append(path, n)]]
           r == [name |-> n, path |-> path,
                 version |-> IF index = "loaded" THEN v ELSE Unknown,
                 verdict |-> IF index = "loaded" THEN History(n, v) ELSE "SKIPPED"]
<1>6. /\ ~answered => asksVersions
      /\ ~told => asksChildren
      /\ failures + missed <= MaxFailures /\ failures' = failures + missed
      /\ failed' = IF missed > 0 THEN failed \union {n} ELSE failed
      /\ nameless' = IF asksVersions /\ answered /\ says.latest = Unknown
                     THEN nameless \union {n} ELSE nameless
      /\ visited' = visited \union {n}
      /\ versions' = IF asksVersions
                     THEN [versions EXCEPT ![n] = [asked |-> TRUE, says |-> says]] ELSE versions
      /\ children' = IF asksChildren
                     THEN [a \in DOMAIN children \union {<<n, v>>} |->
                              IF a = <<n, v>> THEN found ELSE children[a]]
                     ELSE children
      /\ results' = Append(results, r) /\ worklist' = Queued(Tail(worklist), items)
  BY <1>5, Zenon
<1>7. registry' = registry
  BY DEF Visit
<1> HIDE DEF it
<1>8. says \in Listing
  BY <1>4 DEF WalkInv, WalkTypeOK, Unanswered, Listing
<1>9. missed \in Nat /\ (~answered => missed > 0)
  OBVIOUS
<1> HIDE DEF says, missed
<1>10. /\ v \in Versions \union {Loose, Unknown}
       /\ v = Unknown => dep.pin = Unknown /\ says.latest = Unknown
  BY <1>3, <1>8, ResolvedVersion
<1> HIDE DEF v
<1>11. found \in Seq(Dependency) /\ (asksChildren => v \in Versions \union {Loose})
  <2>1. /\ asksChildren => v \in Versions \union {Loose}
        /\ registry[n].list \subseteq Versions
    BY <1>4, <1>10 DEF Expands, WalkInv, WalkTypeOK, Listing
  <2>2. Requires \in [Names -> [Versions -> Seq(Dependency)]]
    BY WalkAssumption
  <2>3. <<n, v>> \in DOMAIN children => children[<<n, v>>] \in Seq(Dependency)
    BY DEF WalkInv, WalkTypeOK
  <2>4. v \in registry[n].list => Requires[n][v] \in Seq(Dependency)
    BY <1>4, <2>1, <2>2
  <2>5. <<>> \in Seq(Dependency)
    OBVIOUS
  <2> QED
    BY <2>1, <2>3, <2>4, <2>5
<1>12. /\ Expands(v, path) =>
              <<n, v>> \in DOMAIN children' /\ children'[<<n, v>>] = found
       /\ ~Expands(v, path) => found = <<>>
  <2>1. CASE asksChildren
    BY <1>6, <2>1
  <2>2. CASE ~asksChildren
    BY <1>6, <2>2
  <2> QED
    BY <2>1, <2>2
<1> HIDE DEF found
<1>13. unseen \in Seq(Dependency)
  BY <1>11, UnseenAreDependencies
<1>14. \A d \in ToSet(found) :
           d.name \in visited \union {n} \/ \E k \in 1..Len(unseen) : unseen[k] = d
  BY <1>11, UnseenAreDependencies
<1>15. \A k \in 1..Len(unseen) : unseen[k] \in ToSet(found)
  BY <1>11, UnseenAreDependencies
<1> HIDE DEF unseen
<1>16. items \in Seq(Item) /\ \A k \in DOMAIN items : items[k].path = Append(path, n)
  <2>1. Append(path, n) \in Seq(Names)
    BY <1>3, <1>4
  <2>2. \A k \in 1..Len(unseen) : [dep |-> unseen[k], path |-> Append(path, n)] \in Item
    BY <1>13, <2>1 DEF Item
  <2>3. Len(unseen) \in Nat
    BY <1>13
  <2> QED
    BY <2>2, <2>3
<1> HIDE DEF items
<1>17. /\ failed \subseteq failed' /\ failed' \subseteq Names
       /\ nameless \subseteq nameless' /\ nameless' \subseteq Names
  BY <1>4, <1>6 DEF WalkInv, WalkTypeOK
<1>18. v = Unknown => n \in failed' \union nameless'
  <2>1. SUFFICES ASSUME v = Unknown PROVE n \in failed' \union nameless'
    OBVIOUS
  <2>2. dep.pin = Unknown /\ says.latest = Unknown
    BY <1>10, <2>1
  <2>3. versions[n].asked => n \in failed \union nameless
    BY <1>4, <2>2 DEF WalkInv, Heard, says
  <2>4. ~versions[n].asked => ~answered \/ n \in nameless'
    BY <1>6, <2>2
  <2> QED
    BY <1>6, <1>9, <1>17, <2>3, <2>4
<1>19. r \in Result
  <2>1. History(n, v) \in {"MALICIOUS", "INFO", "SUSPICIOUS", "CLEAN", "SKIPPED"}
    BY DEF History
  <2> QED
    BY <1>3, <1>4, <1>10, <2>1 DEF Result
<1>20. r.verdict = "MALICIOUS" =>
           \/ Condemned(r.name, r.version)
           \/ r.version = Unknown /\ r.name \in failed' \union nameless'
  BY <1>18 DEF History
<1>21. r.name = it.dep.name /\ r.path = it.path
  OBVIOUS
<1> HIDE DEF r
<1>22. Answer(r, it, items)
  BY <1>6, <1>16, <1>19, <1>20, <1>21 DEF Answer, Queued
<1>23. items # <<>> => Expands(v, path)
  <2>1. ToSet(<<>>) = {}
    BY DEF ToSet
  <2>2. Len(unseen) # 0 => found # <<>>
    BY <1>13, <1>15, <2>1
  <2> QED
    BY <1>13, <1>12, <2>2 DEF items
<1>24. ASSUME index = "loaded" PROVE Drawn(r, it, items)
  <2>1. r.version = v /\ r.verdict = History(n, v) /\ r.name = n
    BY <1>24 DEF r
  <2>2. dep.pin # Unknown \/ versions'[n].asked
    BY <1>4, <1>6, <1>8 DEF WalkInv, WalkTypeOK
  <2>3. v = Resolve(dep, versions'[n].says)
    <3>1. CASE dep.pin # Unknown
      BY <3>1 DEF v, Resolve
    <3>2. CASE dep.pin = Unknown
      <4>1. versions'[n].says = says
        BY <1>4, <1>6, <1>8, <3>2 DEF WalkInv, WalkTypeOK, says
      <4> QED
        BY <4>1 DEF v
    <3> QED
      BY <3>1, <3>2
  <2>4. ASSUME Len(path) + 1 < MaxDepth, v # Unknown
        PROVE  /\ <<n, v>> \in DOMAIN children'
               /\ \A d \in ToSet(children'[<<n, v>>]) :
                      d.name \in visited' \/ \E k \in DOMAIN items : items[k].dep = d
    <3>1. <<n, v>> \in DOMAIN children' /\ children'[<<n, v>>] = found
      BY <1>12, <1>24, <2>4 DEF Expands
    <3>2. \A k \in 1..Len(unseen) : k \in DOMAIN items /\ items[k].dep = unseen[k]
      BY DEF items
    <3> QED
      BY <1>6, <1>14, <3>1, <3>2
  <2>5. ASSUME NEW k \in DOMAIN items
        PROVE  <<n, v>> \in DOMAIN children' /\ items[k].dep \in ToSet(children'[<<n, v>>])
    <3>1. k \in 1..Len(unseen) /\ items[k].dep = unseen[k]
      BY DEF items
    <3>2. items # <<>>
      BY <1>16
    <3> QED
      BY <1>15, <1>12, <1>23, <3>1, <3>2
  <2> QED
    BY <2>1, <2>2, <2>3, <2>4, <2>5 DEF Drawn
<1>25. items # <<>> => Len(path) + 1 < MaxDepth
  BY <1>23 DEF Expands
<1>26. \E r_, items_ : /\ Answer(r_, Head(worklist), items_)
                       /\ index = "loaded" => Drawn(r_, Head(worklist), items_)
                       /\ items_ # <<>> => Len(Head(worklist).path) + 1 < MaxDepth
  BY <1>22, <1>24, <1>25 DEF it
<1>27. visited' = visited \union {Head(worklist).dep.name}
  BY <1>6 DEF it
<1>28. \A m \in Names : versions[m].asked => versions'[m] = versions[m]
  BY <1>4, <1>6 DEF WalkInv, WalkTypeOK
<1>29. ASSUME NEW a \in DOMAIN children PROVE a \in DOMAIN children' /\ children'[a] = children[a]
  <2>1. CASE asksChildren
    BY <1>6, <2>1
  <2>2. CASE ~asksChildren
    BY <1>6, <2>2
  <2> QED
    BY <2>1, <2>2
<1>30. visited' \subseteq Names /\ failures' \in 0..MaxFailures
  <2>1. failures \in Nat /\ MaxFailures \in Nat
    BY WalkAssumption DEF WalkInv, WalkTypeOK
  <2>2. visited \subseteq Names
    BY DEF WalkInv, WalkTypeOK
  <2> QED
    BY <1>4, <1>6, <1>9, <2>1, <2>2
<1>31. versions' \in [Names -> [asked : BOOLEAN, says : Listing]]
  BY <1>4, <1>6, <1>8 DEF WalkInv, WalkTypeOK
<1>32. DOMAIN children' \subseteq Names \X (Versions \union {Loose})
  BY <1>4, <1>6, <1>11 DEF WalkInv, WalkTypeOK
<1>33. children' \in [DOMAIN children' -> Seq(Dependency)]
  <2>1. children \in [DOMAIN children -> Seq(Dependency)]
    BY DEF WalkInv, WalkTypeOK
  <2>2. CASE ~asksChildren
    BY <1>6, <2>1, <2>2
  <2>3. CASE asksChildren
    BY <1>6, <1>11, <2>1, <2>3
  <2> QED
    BY <2>2, <2>3
<1>34. Heard'
  <2>1. \A m \in Names : versions[m] \in [asked : BOOLEAN, says : Listing]
    BY DEF WalkInv, WalkTypeOK
  <2>2. asksVersions /\ says.latest = Unknown => n \in failed' \union nameless'
    BY <1>6, <1>9
  <2>3. ASSUME NEW m \in Names
        PROVE  versions'[m].asked /\ versions'[m].says.latest = Unknown =>
                   m \in failed' \union nameless'
    <3>1. CASE asksVersions /\ m = n
      BY <1>4, <1>6, <2>2, <3>1 DEF WalkInv, WalkTypeOK
    <3>2. CASE ~(asksVersions /\ m = n)
      <4>1. versions'[m] = versions[m]
        BY <1>6, <3>2 DEF WalkInv, WalkTypeOK
      <4> QED
        BY <1>17, <4>1 DEF WalkInv, Heard
    <3> QED
      BY <3>1, <3>2
  <2> QED
    BY <1>7, <2>3 DEF WalkInv, Heard
<1> QED
  BY <1>1, <1>2, <1>17, <1>26, <1>30, <1>31, <1>32, <1>33, <1>34, <1>27, <1>28, <1>29 DEF it

\* The worklist a walk begins with.
LEMMA WalkBegins ==
    ASSUME NEW m \in Projects
    PROVE  Walk(m) \in Seq(Item) /\ \A k \in DOMAIN Walk(m) : Walk(m)[k].path = <<>>
<1> DEFINE deps == ExtractDependencies(m)
<1>1. deps \in Seq(Dependency) /\ Len(deps) \in Nat
  BY WalkAssumption
<1> HIDE DEF deps
<1>2. \A k \in 1..Len(deps) : [dep |-> deps[k], path |-> <<>>] \in Item
  <2>1. \A k \in 1..Len(deps) : deps[k] \in Dependency
    BY <1>1
  <2>2. <<>> \in Seq(Names)
    OBVIOUS
  <2> QED
    BY <2>1, <2>2 DEF Item
<1>3. Walk(m) = [k \in 1..Len(deps) |-> [dep |-> deps[k], path |-> <<>>]]
  BY Zenon DEF Walk, deps
<1> QED
  BY <1>1, <1>2, <1>3

\* The parts of the invariant about a walk that has just begun.
LEMMA AtTheBeginning ==
    ASSUME NEW m \in Projects, worklist = Walk(m), results = <<>>
    PROVE  /\ worklist \in Seq(Item) /\ results \in Seq(Result)
           /\ BlameHasCause /\ Levels /\ Behind /\ Chains /\ NearestFirst
<1>1. worklist \in Seq(Item) /\ \A k \in DOMAIN worklist : worklist[k].path = <<>>
  BY WalkBegins
<1>2. DOMAIN results = {} /\ results \in Seq(Result)
  OBVIOUS
<1>3. Len(<<>>) = 0 /\ DOMAIN <<>> = {}
  OBVIOUS
<1>4. BlameHasCause /\ Behind /\ NearestFirst
  BY <1>2, Zenon DEF BlameHasCause, Behind, NearestFirst
<1>5. Levels
  BY <1>1, <1>3 DEF Levels
<1>6. Chains
  BY <1>1, <1>3, Zenon DEF Chains, Chain
<1> QED
  BY <1>1, <1>2, <1>4, <1>5, <1>6

LEMMA WalkInitially == WalkInit => WalkInv
<1> SUFFICES ASSUME WalkInit PROVE WalkInv
  OBVIOUS
<1>1. project \in Projects /\ worklist = Walk(project) /\ results = <<>>
  BY DEF WalkInit
<1>2. /\ worklist \in Seq(Item) /\ results \in Seq(Result)
      /\ BlameHasCause /\ Levels /\ Behind /\ Chains /\ NearestFirst
  BY <1>1, AtTheBeginning
<1>3. Heard
  BY DEF WalkInit, Heard
<1>4. WalkTypeOK
  <2>1. registry \in [Names -> Listing]
    BY WalkAssumption DEF WalkInit
  <2>2. versions \in [Names -> [asked : BOOLEAN, says : Listing]]
    BY DEF WalkInit, Unanswered, Listing
  <2>3. DOMAIN children = {} /\ children \in [DOMAIN children -> Seq(Dependency)]
    BY DEF WalkInit
  <2>4. walks \in 0..MaxWalks /\ failures \in 0..MaxFailures /\ publications \in 0..MaxPublished
    BY WalkAssumption DEF WalkInit
  <2> QED
    BY <1>2, <2>1, <2>2, <2>3, <2>4 DEF WalkInit, WalkTypeOK
<1> QED
  BY <1>2, <1>3, <1>4 DEF WalkInv

\* Taking the head off leaves the order of the rest.
LEMMA TailOf ==
    ASSUME NEW S, NEW s \in Seq(S), s # <<>>
    PROVE  /\ Tail(s) \in Seq(S) /\ DOMAIN Tail(s) = 1..(Len(s) - 1) /\ Len(s) \in Nat \ {0}
           /\ \A i \in 1..(Len(s) - 1) : Tail(s)[i] = s[i + 1] /\ i + 1 \in DOMAIN s
           /\ Head(s) = s[1] /\ 1 \in DOMAIN s
OBVIOUS

LEMMA SkipStep == ASSUME WalkInv, Skip PROVE WalkInv'
<1>1. worklist # <<>> /\ worklist \in Seq(Item) /\ worklist' = Tail(worklist)
  BY DEF WalkInv, WalkTypeOK, Skip, Ended
<1>2. /\ worklist' \in Seq(Item) /\ DOMAIN worklist' = 1..(Len(worklist) - 1)
      /\ Len(worklist) \in Nat \ {0}
      /\ \A i \in DOMAIN worklist' : worklist'[i] = worklist[i + 1] /\ i + 1 \in DOMAIN worklist
  BY <1>1, TailOf
<1>3. UNCHANGED <<registry, versions, children, project, visited, results, index, failed,
                  nameless, walks, failures, publications>>
  BY DEF Skip, cache, heard, budget
<1>4. WalkTypeOK' /\ Heard' /\ BlameHasCause' /\ NearestFirst'
  BY <1>2, <1>3 DEF WalkInv, WalkTypeOK, Heard, BlameHasCause, NearestFirst
<1>5. Levels'
  <2>1. \A i, j \in DOMAIN worklist' : i <= j => i + 1 <= j + 1
    BY <1>2
  <2> QED
    BY <1>2, <2>1 DEF WalkInv, Levels
<1>6. Behind'
  BY <1>2, <1>3 DEF WalkInv, Behind
<1>7. Chains'
  <2> SUFFICES ASSUME NEW i \in DOMAIN worklist', NEW x \in DOMAIN worklist'[i].path
               PROVE  \E k \in 1..Len(results') :
                          /\ results'[k].name = worklist'[i].path[x]
                          /\ results'[k].path = SubSeq(worklist'[i].path, 1, x - 1)
    BY DEF Chains, Chain
  <2>1. worklist'[i] = worklist[i + 1] /\ i + 1 \in DOMAIN worklist
    BY <1>2
  <2>2. Chain(worklist[i + 1].path, Len(results))
    BY <2>1 DEF WalkInv, Chains
  <2> QED
    BY <1>3, <2>1, <2>2 DEF Chain
<1> QED
  BY <1>4, <1>5, <1>6, <1>7 DEF WalkInv

LEMMA NextProjectStep == ASSUME WalkInv, NextProject PROVE WalkInv'
<1>1. project' \in Projects /\ worklist' = Walk(project') /\ results' = <<>>
  BY DEF NextProject
<1>2. PICK m \in Projects : worklist' = Walk(m)
  BY <1>1
<1>3. worklist' \in Seq(Item) /\ \A k \in DOMAIN worklist' : worklist'[k].path = <<>>
  BY <1>2, WalkBegins
<1>4. DOMAIN results' = {} /\ results' \in Seq(Result)
  BY <1>1
<1>5. Len(<<>>) = 0 /\ DOMAIN <<>> = {}
  OBVIOUS
<1>6. BlameHasCause' /\ Behind' /\ NearestFirst'
  BY <1>4, Zenon DEF BlameHasCause, Behind, NearestFirst
<1>7. Levels'
  BY <1>3, <1>5 DEF Levels
<1>8. Chains'
  BY <1>3, <1>5, Zenon DEF Chains, Chain
<1>9. WalkTypeOK'
  <2>1. walks \in Nat /\ MaxWalks \in Nat
    BY WalkAssumption DEF WalkInv, WalkTypeOK
  <2> QED
    BY <1>1, <1>3, <1>4, <2>1 DEF WalkInv, WalkTypeOK, NextProject, cache, heard
<1>10. Heard'
  BY DEF WalkInv, Heard, NextProject, cache, heard
<1> QED
  BY <1>6, <1>7, <1>8, <1>9, <1>10 DEF WalkInv

\* What the registry does leaves the walk alone.
LEMMA RegistryStep == ASSUME WalkInv, Release \/ Withdraw PROVE WalkInv'
<1>1. UNCHANGED <<versions, children, project, worklist, visited, results, index, failed,
                  nameless, walks, failures>>
  BY DEF Release, Withdraw, cache, heard
<1>2. registry \in [Names -> Listing]
  BY DEF WalkInv, WalkTypeOK
<1>3. registry' \in [Names -> Listing]
  <2>1. CASE Release
    <3>1. PICK n \in Names : \E v \in Versions \ registry[n].list :
              \E latest \in {v, registry[n].latest} :
                  registry' = [registry EXCEPT ![n] = [list |-> @.list \union {v}, latest |-> latest]]
      BY <2>1 DEF Release
    <3> QED
      BY <1>2, <3>1 DEF Listing
  <2>2. CASE Withdraw
    <3>1. PICK n \in Names : \E v \in registry[n].list :
              \E latest \in (registry[n].list \ {v}) \union {Unknown} :
                  registry' = [registry EXCEPT ![n] = [list |-> @.list \ {v}, latest |-> latest]]
      BY <2>2 DEF Withdraw
    <3> QED
      BY <1>2, <3>1 DEF Listing
  <2> QED
    BY <2>1, <2>2
<1>4. publications' \in 0..MaxPublished
  BY WalkAssumption DEF Release, Withdraw, WalkInv, WalkTypeOK
<1>5. WalkTypeOK'
  BY <1>1, <1>3, <1>4 DEF WalkInv, WalkTypeOK
<1>6. Heard'
  BY <1>1 DEF WalkInv, Heard
<1> QED
  BY <1>1, <1>5, <1>6 DEF WalkInv, BlameHasCause, Levels, Behind, Chains, Chain, NearestFirst

\* The first results of a list are what they were when one is added.
LEMMA ChainGoesOn ==
    ASSUME WalkInv, NEW r \in Result, results' = Append(results, r),
           NEW path, Chain(path, Len(results))
    PROVE  \A x \in DOMAIN path :
               \E i \in 1..Len(results) : /\ results'[i].name = path[x]
                                          /\ results'[i].path = SubSeq(path, 1, x - 1)
<1>1. results \in Seq(Result)
  BY DEF WalkInv, WalkTypeOK
<1>2. \A i \in 1..Len(results) : results'[i] = results[i]
  BY <1>1
<1> QED
  BY <1>2 DEF Chain

LEMMA VisitStep == ASSUME WalkInv, Visit PROVE WalkInv'
<1> DEFINE it == Head(worklist)
<1>1. /\ worklist # <<>> /\ it \in Item /\ Tail(worklist) \in Seq(Item)
      /\ failed \subseteq failed' /\ failed' \subseteq Names
      /\ nameless \subseteq nameless' /\ nameless' \subseteq Names
      /\ visited' \subseteq Names /\ failures' \in 0..MaxFailures
      /\ versions' \in [Names -> [asked : BOOLEAN, says : Listing]]
      /\ DOMAIN children' \subseteq Names \X (Versions \union {Loose})
      /\ children' \in [DOMAIN children' -> Seq(Dependency)]
      /\ Heard'
  BY Visiting
<1>2. PICK r, items : Answer(r, it, items)
  BY Visiting, Zenon
<1>3. /\ r \in Result /\ r.name = it.dep.name /\ r.path = it.path /\ items \in Seq(Item)
      /\ r.verdict = "MALICIOUS" =>
             \/ Condemned(r.name, r.version)
             \/ r.version = Unknown /\ r.name \in failed' \union nameless'
      /\ \A k \in DOMAIN items : items[k].path = Append(r.path, r.name)
      /\ results' = Append(results, r) /\ worklist' = Tail(worklist) \o items
  BY <1>2 DEF Answer
<1>4. worklist \in Seq(Item) /\ results \in Seq(Result)
  BY DEF WalkInv, WalkTypeOK
<1> DEFINE N == Len(results)
           L == Len(worklist)
<1>5. /\ DOMAIN Tail(worklist) = 1..(L - 1) /\ L \in Nat \ {0} /\ Len(Tail(worklist)) = L - 1
      /\ \A i \in 1..(L - 1) : Tail(worklist)[i] = worklist[i + 1] /\ i + 1 \in DOMAIN worklist
      /\ it = worklist[1] /\ 1 \in DOMAIN worklist
  BY <1>1, <1>4, TailOf
<1>6. /\ results' \in Seq(Result) /\ DOMAIN results' = 1..(N + 1) /\ N \in Nat
      /\ results'[N + 1] = r /\ \A k \in 1..N : results'[k] = results[k] /\ k \in DOMAIN results
      /\ Len(results') = N + 1
  BY <1>3, <1>4
<1>7. /\ worklist' \in Seq(Item) /\ DOMAIN worklist' = 1..(L - 1 + Len(items))
      /\ Len(items) \in Nat
      /\ \A i \in 1..(L - 1 + Len(items)) :
             worklist'[i] = IF i <= L - 1 THEN Tail(worklist)[i] ELSE items[i - (L - 1)]
  BY <1>1, <1>3, <1>5, ConcatProperties
<1>8. r.path \in Seq(Names) /\ r.name \in Names /\ Len(r.path) \in Nat
  BY <1>3 DEF Result
<1>9. /\ Append(r.path, r.name) \in Seq(Names)
      /\ Len(Append(r.path, r.name)) = Len(r.path) + 1
  BY <1>8
<1>10. \A i \in DOMAIN worklist' :
           \/ i <= L - 1 /\ i + 1 \in DOMAIN worklist /\ worklist'[i] = worklist[i + 1]
           \/ i > L - 1 /\ worklist'[i].path = Append(r.path, r.name)
  <2> SUFFICES ASSUME NEW i \in DOMAIN worklist', i > L - 1
               PROVE  worklist'[i].path = Append(r.path, r.name)
    BY <1>5, <1>7
  <2>1. i - (L - 1) \in DOMAIN items
    BY <1>3, <1>5, <1>7
  <2> QED
    BY <1>3, <1>5, <1>7, <2>1
<1>11. \A i \in DOMAIN worklist : Len(worklist[i].path) \in Nat
  BY <1>4 DEF Item
<1>12. it.path = r.path
  BY <1>3
<1> HIDE DEF it, N, L
<1>13. Levels'
  <2> SUFFICES ASSUME NEW i \in DOMAIN worklist', NEW j \in DOMAIN worklist', i <= j
               PROVE  /\ Len(worklist'[i].path) <= Len(worklist'[j].path)
                      /\ Len(worklist'[j].path) <= Len(worklist'[i].path) + 1
    BY DEF Levels
  <2>1. i \in Nat /\ j \in Nat /\ L \in Nat
    BY <1>5, <1>7
  <2>2. CASE j <= L - 1
    <3>1. /\ i + 1 \in DOMAIN worklist /\ worklist'[i] = worklist[i + 1]
          /\ j + 1 \in DOMAIN worklist /\ worklist'[j] = worklist[j + 1] /\ i + 1 <= j + 1
      BY <1>10, <2>1, <2>2
    <3> QED
      BY <3>1 DEF WalkInv, Levels
  <2>3. CASE i <= L - 1 /\ j > L - 1
    <3>1. i + 1 \in DOMAIN worklist /\ worklist'[i] = worklist[i + 1] /\ 1 <= i + 1
      BY <1>10, <2>1, <2>3
    <3>2. worklist'[j].path = Append(r.path, r.name)
      BY <1>10, <2>1, <2>3
    <3>3. /\ Len(worklist[1].path) <= Len(worklist[i + 1].path)
          /\ Len(worklist[i + 1].path) <= Len(worklist[1].path) + 1
      BY <1>5, <3>1 DEF WalkInv, Levels
    <3> QED
      BY <1>5, <1>8, <1>9, <1>11, <1>12, <3>1, <3>2, <3>3
  <2>4. CASE i > L - 1
    <3>1. worklist'[i].path = Append(r.path, r.name) /\ worklist'[j].path = Append(r.path, r.name)
      BY <1>10, <2>1, <2>4
    <3> QED
      BY <1>8, <1>9, <3>1
  <2> QED
    BY <2>1, <2>2, <2>3, <2>4
<1>14. Behind'
  <2> SUFFICES ASSUME NEW k \in 1..(N + 1), NEW i \in DOMAIN worklist'
               PROVE  Len(results'[k].path) <= Len(worklist'[i].path)
    BY <1>6 DEF Behind
  <2>1. Len(results'[k].path) <= Len(r.path) /\ Len(results'[k].path) \in Nat
    <3>1. CASE k = N + 1
      BY <1>6, <1>8, <3>1
    <3>2. CASE k \in 1..N
      <4>1. results'[k] = results[k] /\ k \in DOMAIN results
        BY <1>6, <3>2
      <4>2. Len(results[k].path) <= Len(worklist[1].path)
        BY <1>5, <4>1 DEF WalkInv, Behind
      <4>3. Len(results[k].path) \in Nat
        BY <1>4, <4>1 DEF Result
      <4> QED
        BY <1>5, <1>12, <4>1, <4>2, <4>3
    <3> QED
      BY <1>6, <3>1, <3>2
  <2>2. Len(r.path) <= Len(worklist'[i].path) /\ Len(worklist'[i].path) \in Nat
    <3>1. CASE i + 1 \in DOMAIN worklist /\ worklist'[i] = worklist[i + 1]
      <4>1. 1 <= i + 1
        BY <1>7
      <4>2. Len(worklist[1].path) <= Len(worklist[i + 1].path)
        BY <1>5, <3>1, <4>1 DEF WalkInv, Levels
      <4> QED
        BY <1>5, <1>11, <1>12, <3>1, <4>2
    <3>2. CASE worklist'[i].path = Append(r.path, r.name)
      BY <1>8, <1>9, <3>2
    <3> QED
      BY <1>10, <3>1, <3>2
  <2> QED
    BY <1>8, <2>1, <2>2
<1>15. Chain(r.path, N)
  BY <1>5, <1>12 DEF WalkInv, Chains, N
<1>16. \A x \in DOMAIN r.path : \E i \in 1..N :
           results'[i].name = r.path[x] /\ results'[i].path = SubSeq(r.path, 1, x - 1)
  BY <1>3, <1>15, ChainGoesOn DEF N
<1>17. Chains'
  <2> SUFFICES ASSUME NEW i \in DOMAIN worklist',
                      NEW x \in DOMAIN worklist'[i].path
               PROVE  \E k \in 1..(N + 1) :
                          /\ results'[k].name = worklist'[i].path[x]
                          /\ results'[k].path = SubSeq(worklist'[i].path, 1, x - 1)
    BY <1>6 DEF Chains, Chain
  <2>1. CASE i + 1 \in DOMAIN worklist /\ worklist'[i] = worklist[i + 1]
    <3>1. Chain(worklist[i + 1].path, Len(results))
      BY <2>1 DEF WalkInv, Chains
    <3>2. \E k \in 1..N : /\ results'[k].name = worklist'[i].path[x]
                          /\ results'[k].path = SubSeq(worklist'[i].path, 1, x - 1)
      BY <1>3, <2>1, <3>1, ChainGoesOn DEF N
    <3> QED
      BY <1>6, <3>2
  <2>2. CASE worklist'[i].path = Append(r.path, r.name)
    <3>1. x \in 1..(Len(r.path) + 1)
      BY <1>8, <1>9, <2>2
    <3>2. CASE x = Len(r.path) + 1
      <4>1. Append(r.path, r.name)[x] = r.name
        BY <1>8, <3>2
      <4>2. SubSeq(Append(r.path, r.name), 1, x - 1) = r.path
        BY <1>8, <3>2
      <4>3. N + 1 \in 1..(N + 1) /\ results'[N + 1].name = r.name /\ results'[N + 1].path = r.path
        BY <1>6
      <4> QED
        BY <2>2, <4>1, <4>2, <4>3, Zenon
    <3>3. CASE x \in 1..Len(r.path)
      <4>1. x \in DOMAIN r.path /\ Append(r.path, r.name)[x] = r.path[x]
        BY <1>8, <3>3
      <4>2. SubSeq(Append(r.path, r.name), 1, x - 1) = SubSeq(r.path, 1, x - 1)
        BY <1>8, <3>3
      <4>3. PICK k \in 1..N : /\ results'[k].name = r.path[x]
                              /\ results'[k].path = SubSeq(r.path, 1, x - 1)
        BY <1>16, <4>1
      <4>4. k \in 1..(N + 1)
        BY <1>6
      <4>5. /\ results'[k].name = worklist'[i].path[x]
            /\ results'[k].path = SubSeq(worklist'[i].path, 1, x - 1)
        BY <2>2, <4>1, <4>2, <4>3
      <4> QED
        BY <4>4, <4>5, Zenon
    <3>4. x = Len(r.path) + 1 \/ x \in 1..Len(r.path)
      BY <1>8, <3>1
    <3> QED
      BY <3>2, <3>3, <3>4, Zenon
  <2> QED
    BY <1>10, <2>1, <2>2
<1>18. NearestFirst'
  <2>1. ASSUME NEW j \in 1..(N + 1), NEW k \in 1..(N + 1), j < k
        PROVE  Len(results'[j].path) <= Len(results'[k].path)
    <3>1. j \in 1..N /\ results'[j] = results[j] /\ j \in DOMAIN results
      BY <1>6, <2>1
    <3>2. CASE k \in 1..N
      BY <1>6, <2>1, <3>1, <3>2 DEF WalkInv, NearestFirst
    <3>3. CASE k = N + 1
      BY <1>5, <1>6, <1>12, <3>1, <3>3 DEF WalkInv, Behind
    <3> QED
      BY <1>6, <3>2, <3>3
  <2>2. ASSUME NEW k \in 1..(N + 1), NEW x \in DOMAIN results'[k].path
        PROVE  \E i \in 1..(k - 1) : /\ results'[i].name = results'[k].path[x]
                                     /\ results'[i].path = SubSeq(results'[k].path, 1, x - 1)
    <3>1. CASE k \in 1..N
      <4>1. results'[k] = results[k] /\ k \in DOMAIN results
        BY <1>6, <3>1
      <4>2. PICK i \in 1..(k - 1) : /\ results[i].name = results[k].path[x]
                                    /\ results[i].path = SubSeq(results[k].path, 1, x - 1)
        BY <2>2, <4>1 DEF WalkInv, NearestFirst
      <4>3. i \in 1..N
        BY <1>6, <3>1
      <4> QED
        BY <1>6, <4>1, <4>2, <4>3
    <3>2. CASE k = N + 1
      <4>1. results'[k] = r /\ k - 1 = N
        BY <1>6, <3>2
      <4> QED
        BY <1>16, <2>2, <4>1
    <3> QED
      BY <1>6, <3>1, <3>2
  <2> QED
    BY <1>6, <2>1, <2>2 DEF NearestFirst
<1>19. BlameHasCause'
  <2> SUFFICES ASSUME NEW k \in 1..(N + 1), results'[k].verdict = "MALICIOUS"
               PROVE  \/ Condemned(results'[k].name, results'[k].version)
                      \/ /\ results'[k].version = Unknown
                         /\ results'[k].name \in failed' \union nameless'
    BY <1>6 DEF BlameHasCause
  <2>1. CASE k \in 1..N
    BY <1>1, <1>6, <2>1 DEF WalkInv, BlameHasCause
  <2>2. CASE k = N + 1
    BY <1>3, <1>6, <2>2
  <2> QED
    BY <1>6, <2>1, <2>2
<1>20. WalkTypeOK'
  BY <1>1, <1>6, <1>7 DEF WalkInv, WalkTypeOK, Visit
<1> QED
  BY <1>1, <1>13, <1>14, <1>17, <1>18, <1>19, <1>20 DEF WalkInv

LEMMA WalkInductive == WalkInv /\ [WalkNext]_walkVars => WalkInv'
<1> SUFFICES ASSUME WalkInv, [WalkNext]_walkVars PROVE WalkInv'
  OBVIOUS
<1>1. CASE Skip
  BY <1>1, SkipStep
<1>2. CASE Visit
  BY <1>2, VisitStep
<1>3. CASE NextProject
  BY <1>3, NextProjectStep
<1>4. CASE Release \/ Withdraw
  BY <1>4, RegistryStep
<1>5. CASE UNCHANGED walkVars
  BY <1>5 DEF walkVars, cache, heard, budget, WalkInv, WalkTypeOK, Heard, BlameHasCause, Levels, Behind,
              Chains, Chain, NearestFirst
<1> QED
  BY <1>1, <1>2, <1>3, <1>4, <1>5 DEF WalkNext

(* What a walk accounts for.  The operators take what they speak of as arguments, *)
(* so that lemmas can relate a state to the next one.                             *)

\* A name is among the results, or waits, no further away than a depth.
Reached(n, depth, rs, items) ==
    \/ \E k \in DOMAIN rs : rs[k].name = n /\ Len(rs[k].path) <= depth
    \/ \E i \in DOMAIN items : items[i].dep.name = n /\ Len(items[i].path) <= depth

\* Where a dependency comes from that is required along a path: the project, or a
\* result and what is remembered of its dependencies.
StemsFrom(d, path, m, rs, deps) ==
    IF path = <<>> THEN d \in ToSet(ExtractDependencies(m))
    ELSE \E i \in DOMAIN rs :
             LET a == <<rs[i].name, rs[i].version>>
             IN  /\ a[1] = path[Len(path)] /\ rs[i].path = SubSeq(path, 1, Len(path) - 1)
                 /\ a \in DOMAIN deps /\ d \in ToSet(deps[a])

\* A result is the answer to a dependency, from the registry's answer in memory.
Judged(r, m, rs, deps, answers) ==
    /\ r.verdict = History(r.name, r.version)
    /\ \E d \in Dependency :
           /\ d.name = r.name /\ StemsFrom(d, r.path, m, rs, deps)
           /\ d.pin # Unknown \/ answers[r.name].asked
           /\ r.version = Resolve(d, answers[r.name].says)

\* The dependencies of a result above the depth have been reached.
Followed(r, rs, items, deps) ==
    LET a == <<r.name, r.version>>
    IN  Len(r.path) + 1 < MaxDepth /\ r.version # Unknown =>
            /\ a \in DOMAIN deps
            /\ \A d \in ToSet(deps[a]) : Reached(d.name, Len(r.path) + 1, rs, items)

\* The verdicts and the dependencies of the results, when there is an index.
Accounted ==
    /\ \A k \in DOMAIN results : /\ Judged(results[k], project, results, children, versions)
                                 /\ Followed(results[k], results, worklist, children)
    /\ \A i \in DOMAIN worklist :
           StemsFrom(worklist[i].dep, worklist[i].path, project, results, children)

Account ==
    /\ visited = {results[k].name : k \in DOMAIN results}
    /\ \A k \in DOMAIN results : Len(results[k].path) < MaxDepth
    /\ \A i \in DOMAIN worklist : Len(worklist[i].path) < MaxDepth
    /\ \A d \in ToSet(ExtractDependencies(project)) : Reached(d.name, 0, results, worklist)
    /\ index = "loaded" => Accounted

\* An origin stays one while results and memory grow.
LEMMA StillStems ==
    ASSUME NEW rs \in Seq(Result), NEW r \in Result, NEW m, NEW deps, NEW more,
           \A a \in DOMAIN deps : a \in DOMAIN more /\ more[a] = deps[a],
           NEW d, NEW path, StemsFrom(d, path, m, rs, deps)
    PROVE  StemsFrom(d, path, m, Append(rs, r), more)
<1>1. /\ DOMAIN rs \subseteq DOMAIN Append(rs, r)
      /\ \A i \in DOMAIN rs : Append(rs, r)[i] = rs[i]
  OBVIOUS
<1> DEFINE longer == Append(rs, r)
<1>2. DOMAIN rs \subseteq DOMAIN longer /\ \A i \in DOMAIN rs : longer[i] = rs[i]
  BY <1>1
<1> HIDE DEF longer
<1>3. StemsFrom(d, path, m, longer, more)
  BY <1>2 DEF StemsFrom
<1> QED
  BY <1>3 DEF longer

\* What is reached stays so when the head of the list is dropped for a nearer result
LEMMA ReachedWithout ==
    ASSUME NEW rs \in Seq(Result), NEW items \in Seq(Item), items # <<>>,
           \E k \in DOMAIN rs : /\ rs[k].name = Head(items).dep.name
                                /\ Len(rs[k].path) <= Len(Head(items).path),
           NEW n, NEW depth \in Nat, Reached(n, depth, rs, items)
    PROVE  Reached(n, depth, rs, Tail(items))
<1>1. CASE \E k \in DOMAIN rs : rs[k].name = n /\ Len(rs[k].path) <= depth
  BY <1>1 DEF Reached
<1>2. CASE \E i \in DOMAIN items : items[i].dep.name = n /\ Len(items[i].path) <= depth
  <2>1. PICK i \in DOMAIN items : items[i].dep.name = n /\ Len(items[i].path) <= depth
    BY <1>2
  <2>2. CASE i = 1
    <3>1. Head(items) = items[1]
      OBVIOUS
    <3>2. PICK k \in DOMAIN rs : /\ rs[k].name = Head(items).dep.name
                                 /\ Len(rs[k].path) <= Len(Head(items).path)
      OBVIOUS
    <3>3. Len(rs[k].path) \in Nat /\ Len(items[1].path) \in Nat
      <4>1. rs[k] \in Result /\ items[1] \in Item
        BY <2>1, <2>2
      <4> QED
        BY <4>1 DEF Result, Item
    <3>4. rs[k].name = n /\ Len(rs[k].path) <= depth
      BY <2>1, <2>2, <3>1, <3>2, <3>3
    <3> QED
      BY <3>4 DEF Reached
  <2>3. CASE i # 1
    <3>1. i - 1 \in DOMAIN Tail(items) /\ Tail(items)[i - 1] = items[i]
      BY <2>1, <2>3
    <3> QED
      BY <2>1, <3>1 DEF Reached
  <2> QED
    BY <2>2, <2>3
<1> QED
  BY <1>1, <1>2 DEF Reached

\* and when it is replaced by its result.
LEMMA ReachedAfter ==
    ASSUME NEW rs \in Seq(Result), NEW items \in Seq(Item), items # <<>>,
           NEW r \in Result, r.name = Head(items).dep.name, r.path = Head(items).path,
           NEW new \in Seq(Item),
           NEW n, NEW depth \in Nat, Reached(n, depth, rs, items)
    PROVE  Reached(n, depth, Append(rs, r), Tail(items) \o new)
<1>1. CASE \E k \in DOMAIN rs : rs[k].name = n /\ Len(rs[k].path) <= depth
  <2>1. PICK k \in DOMAIN rs : rs[k].name = n /\ Len(rs[k].path) <= depth
    BY <1>1
  <2>2. k \in DOMAIN Append(rs, r) /\ Append(rs, r)[k] = rs[k]
    OBVIOUS
  <2> QED
    BY <2>1, <2>2 DEF Reached
<1>2. CASE \E i \in DOMAIN items : items[i].dep.name = n /\ Len(items[i].path) <= depth
  <2>1. PICK i \in DOMAIN items : items[i].dep.name = n /\ Len(items[i].path) <= depth
    BY <1>2
  <2>2. CASE i = 1
    <3>1. Head(items) = items[1]
      OBVIOUS
    <3>2. /\ Len(rs) + 1 \in DOMAIN Append(rs, r) /\ Append(rs, r)[Len(rs) + 1] = r
      OBVIOUS
    <3> QED
      BY <2>1, <2>2, <3>1, <3>2 DEF Reached
  <2>3. CASE i # 1
    <3>1. i - 1 \in DOMAIN Tail(items) /\ Tail(items)[i - 1] = items[i] /\ Tail(items) \in Seq(Item)
      BY <2>1, <2>3
    <3>2. /\ i - 1 \in DOMAIN (Tail(items) \o new)
          /\ (Tail(items) \o new)[i - 1] = Tail(items)[i - 1]
      BY <3>1
    <3> QED
      BY <2>1, <3>1, <3>2 DEF Reached
  <2> QED
    BY <2>2, <2>3
<1> QED
  BY <1>1, <1>2 DEF Reached

\* What waits when a walk begins is what the project declares.
LEMMA DeclaredWaits ==
    ASSUME NEW m \in Projects
    PROVE  /\ \A i \in DOMAIN Walk(m) : /\ Walk(m)[i].path = <<>>
                                        /\ Walk(m)[i].dep \in ToSet(ExtractDependencies(m))
           /\ \A d \in ToSet(ExtractDependencies(m)) : \E i \in DOMAIN Walk(m) : Walk(m)[i].dep = d
<1> DEFINE deps == ExtractDependencies(m)
<1>1. deps \in Seq(Dependency) /\ Len(deps) \in Nat /\ DOMAIN deps = 1..Len(deps)
  BY WalkAssumption
<1>2. Walk(m) = [k \in 1..Len(deps) |-> [dep |-> deps[k], path |-> <<>>]]
  BY Zenon DEF Walk
<1> HIDE DEF deps
<1>3. \A i \in 1..Len(deps) : Walk(m)[i].path = <<>> /\ Walk(m)[i].dep = deps[i]
  BY <1>2
<1>4. \A i \in 1..Len(deps) : deps[i] \in ToSet(deps)
  BY <1>1 DEF ToSet
<1>5. \A d \in ToSet(deps) : \E i \in 1..Len(deps) : d = deps[i]
  BY <1>1 DEF ToSet
<1>6. DOMAIN Walk(m) = 1..Len(deps)
  BY <1>2
<1> QED
  BY <1>3, <1>4, <1>5, <1>6 DEF deps

LEMMA AccountInitially == WalkInit => Account
<1> SUFFICES ASSUME WalkInit PROVE Account
  OBVIOUS
<1>1. project \in Projects /\ worklist = Walk(project) /\ results = <<>> /\ visited = {}
  BY DEF WalkInit
<1>2. DOMAIN results = {} /\ Len(<<>>) = 0 /\ 0 < MaxDepth
  BY <1>1, WalkAssumption
<1>3. visited = {results[k].name : k \in DOMAIN results}
  BY <1>1, <1>2
<1>4. \A i \in DOMAIN worklist : /\ worklist[i].path = <<>>
                                 /\ worklist[i].dep \in ToSet(ExtractDependencies(project))
  BY <1>1, DeclaredWaits
<1>5. \A d \in ToSet(ExtractDependencies(project)) : \E i \in DOMAIN worklist : worklist[i].dep = d
  BY <1>1, DeclaredWaits
<1>6. \A d \in ToSet(ExtractDependencies(project)) : Reached(d.name, 0, results, worklist)
  BY <1>2, <1>4, <1>5 DEF Reached
<1>7. Accounted
  BY <1>2, <1>4 DEF Accounted, StemsFrom
<1> QED
  BY <1>2, <1>3, <1>4, <1>6, <1>7 DEF Account

LEMMA AccountNextProject == ASSUME WalkInv, NextProject PROVE Account'
<1>1. project' \in Projects /\ worklist' = Walk(project') /\ results' = <<>> /\ visited' = {}
  BY DEF NextProject
<1>2. PICK m \in Projects : project' = m /\ worklist' = Walk(m)
  BY <1>1
<1>3. DOMAIN results' = {} /\ Len(<<>>) = 0 /\ 0 < MaxDepth
  BY <1>1, WalkAssumption
<1>4. visited' = {results'[k].name : k \in DOMAIN results'}
  BY <1>1, <1>3
<1>5. \A i \in DOMAIN worklist' : /\ worklist'[i].path = <<>>
                                  /\ worklist'[i].dep \in ToSet(ExtractDependencies(m))
  BY <1>2, DeclaredWaits
<1>6. \A d \in ToSet(ExtractDependencies(m)) : \E i \in DOMAIN worklist' : worklist'[i].dep = d
  BY <1>2, DeclaredWaits
<1>7. \A d \in ToSet(ExtractDependencies(project')) : Reached(d.name, 0, results', worklist')
  BY <1>2, <1>3, <1>5, <1>6 DEF Reached
<1>8. Accounted'
  BY <1>2, <1>3, <1>5 DEF Accounted, StemsFrom
<1> QED
  BY <1>3, <1>4, <1>5, <1>7, <1>8 DEF Account

LEMMA AccountRegistry == ASSUME Account, Release \/ Withdraw PROVE Account'
BY DEF Release, Withdraw, cache, Account, Accounted

LEMMA AccountSkip == ASSUME WalkInv, Account, Skip PROVE Account'
<1>1. /\ worklist # <<>> /\ worklist \in Seq(Item) /\ worklist' = Tail(worklist)
      /\ results \in Seq(Result) /\ Head(worklist).dep.name \in visited
  BY DEF WalkInv, WalkTypeOK, Skip, Ended
<1>2. /\ worklist' \in Seq(Item) /\ DOMAIN worklist' = 1..(Len(worklist) - 1)
      /\ \A i \in DOMAIN worklist' : worklist'[i] = worklist[i + 1] /\ i + 1 \in DOMAIN worklist
      /\ Head(worklist) = worklist[1] /\ 1 \in DOMAIN worklist
  BY <1>1, TailOf
<1>3. UNCHANGED <<versions, children, project, visited, results, index>>
  BY DEF Skip, cache, budget
<1>4. \E k \in DOMAIN results : /\ results[k].name = Head(worklist).dep.name
                                /\ Len(results[k].path) <= Len(Head(worklist).path)
  <2>1. PICK k \in DOMAIN results : results[k].name = Head(worklist).dep.name
    BY <1>1 DEF Account
  <2> QED
    BY <1>2, <2>1 DEF WalkInv, Behind
<1>5. \A n, depth : depth \in Nat /\ Reached(n, depth, results, worklist)
                      => Reached(n, depth, results, worklist')
  BY <1>1, <1>4, ReachedWithout
<1>6. \A d \in ToSet(ExtractDependencies(project)) : Reached(d.name, 0, results, worklist')
  BY <1>5 DEF Account
<1>7. ASSUME index = "loaded" PROVE Accounted'
  <2>1. ASSUME NEW k \in DOMAIN results PROVE Followed(results[k], results, worklist', children)
    <3>1. Followed(results[k], results, worklist, children)
      BY <1>7 DEF Account, Accounted
    <3>2. Len(results[k].path) + 1 \in Nat
      <4>1. results[k] \in Result
        BY <1>1
      <4> QED
        BY <4>1 DEF Result
    <3> QED
      BY <1>5, <3>1, <3>2 DEF Followed
  <2>2. \A k \in DOMAIN results : Judged(results[k], project, results, children, versions)
    BY <1>7 DEF Account, Accounted
  <2>3. \A i \in DOMAIN worklist' :
            StemsFrom(worklist'[i].dep, worklist'[i].path, project, results, children)
    BY <1>2, <1>7 DEF Account, Accounted
  <2> QED
    BY <1>3, <2>1, <2>2, <2>3 DEF Accounted
<1>8. \A i \in DOMAIN worklist' : Len(worklist'[i].path) < MaxDepth
  BY <1>2 DEF Account
<1> QED
  BY <1>3, <1>6, <1>7, <1>8 DEF Account

LEMMA AccountVisit == ASSUME WalkInv, Account, Visit PROVE Account'
<1> DEFINE it == Head(worklist)
<1>1. /\ worklist # <<>> /\ it \in Item /\ Tail(worklist) \in Seq(Item)
      /\ visited' = visited \union {it.dep.name}
      /\ \A m \in Names : versions[m].asked => versions'[m] = versions[m]
      /\ \A a \in DOMAIN children : a \in DOMAIN children' /\ children'[a] = children[a]
  BY Visiting
<1>2. PICK r, items : /\ Answer(r, it, items)
                      /\ index = "loaded" => Drawn(r, it, items)
                      /\ items # <<>> => Len(it.path) + 1 < MaxDepth
  BY Visiting, Zenon
<1>3. /\ r \in Result /\ r.name = it.dep.name /\ r.path = it.path /\ items \in Seq(Item)
      /\ \A k \in DOMAIN items : items[k].path = Append(r.path, r.name)
      /\ results' = Append(results, r) /\ worklist' = Tail(worklist) \o items
  BY <1>2 DEF Answer
<1>4. worklist \in Seq(Item) /\ results \in Seq(Result)
  BY DEF WalkInv, WalkTypeOK
<1>5. project' = project /\ index' = index
  BY DEF Visit
<1> DEFINE N == Len(results)
           L == Len(worklist)
<1>6. /\ results' \in Seq(Result) /\ DOMAIN results' = 1..(N + 1) /\ N \in Nat
      /\ results'[N + 1] = r /\ DOMAIN results = 1..N
      /\ \A k \in 1..N : results'[k] = results[k]
  BY <1>3, <1>4
<1>7. /\ Len(Tail(worklist)) = L - 1 /\ L \in Nat \ {0}
      /\ \A i \in 1..(L - 1) : Tail(worklist)[i] = worklist[i + 1] /\ i + 1 \in DOMAIN worklist
      /\ it = worklist[1] /\ 1 \in DOMAIN worklist
  BY <1>1, <1>4, TailOf
<1>8. /\ DOMAIN worklist' = 1..(L - 1 + Len(items)) /\ Len(items) \in Nat
      /\ \A i \in 1..(L - 1 + Len(items)) :
             worklist'[i] = IF i <= L - 1 THEN Tail(worklist)[i] ELSE items[i - (L - 1)]
  BY <1>1, <1>3, <1>7, ConcatProperties
<1>9. \A i \in DOMAIN worklist' :
          \/ i + 1 \in DOMAIN worklist /\ worklist'[i] = worklist[i + 1]
          \/ \E k \in DOMAIN items : worklist'[i] = items[k]
  <2> SUFFICES ASSUME NEW i \in DOMAIN worklist', ~(i <= L - 1)
               PROVE  \E k \in DOMAIN items : worklist'[i] = items[k]
    BY <1>7, <1>8
  <2>1. i - (L - 1) \in DOMAIN items
    BY <1>3, <1>7, <1>8
  <2> QED
    BY <1>7, <1>8, <2>1
<1>10. \A k \in DOMAIN items : k + (L - 1) \in DOMAIN worklist' /\ worklist'[k + (L - 1)] = items[k]
  BY <1>3, <1>7, <1>8
<1>11. /\ r.path \in Seq(Names) /\ r.name \in Names /\ Len(r.path) \in Nat
       /\ Append(r.path, r.name) # <<>> /\ Len(Append(r.path, r.name)) = Len(r.path) + 1
       /\ Append(r.path, r.name)[Len(r.path) + 1] = r.name
       /\ SubSeq(Append(r.path, r.name), 1, Len(r.path)) = r.path
  <2>1. r.path \in Seq(Names) /\ r.name \in Names
    BY <1>3 DEF Result
  <2> QED
    BY <2>1
<1>12. \A n, depth : depth \in Nat /\ Reached(n, depth, results, worklist)
                       => Reached(n, depth, results', worklist')
  BY <1>1, <1>3, <1>4, ReachedAfter
<1>13. \A d, path : StemsFrom(d, path, project, results, children)
                      => StemsFrom(d, path, project, results', children')
  BY <1>1, <1>3, <1>4, StillStems
<1>14. \A k \in DOMAIN results : results[k] \in Result /\ Len(results[k].path) \in Nat
  <2> SUFFICES ASSUME NEW k \in DOMAIN results
               PROVE  results[k] \in Result /\ Len(results[k].path) \in Nat
    OBVIOUS
  <2>1. results[k] \in Result
    BY <1>4
  <2> QED
    BY <2>1 DEF Result
<1> HIDE DEF it, N, L
<1>15. visited' = {results'[k].name : k \in DOMAIN results'}
  <2>1. {results'[k].name : k \in 1..(N + 1)} = {results[k].name : k \in 1..N} \union {r.name}
    BY <1>6
  <2> QED
    BY <1>1, <1>3, <1>6, <2>1 DEF Account
<1>16. \A k \in DOMAIN results' : Len(results'[k].path) < MaxDepth
  <2>1. Len(r.path) < MaxDepth
    BY <1>3, <1>7 DEF Account
  <2> QED
    BY <1>6, <2>1 DEF Account
<1>17. \A i \in DOMAIN worklist' : Len(worklist'[i].path) < MaxDepth
  <2>1. \A k \in DOMAIN items : Len(items[k].path) < MaxDepth
    <3> SUFFICES ASSUME NEW k \in DOMAIN items PROVE Len(items[k].path) < MaxDepth
      OBVIOUS
    <3>1. items # <<>>
      BY <1>3
    <3> QED
      BY <1>2, <1>3, <1>11, <3>1
  <2> QED
    BY <1>9, <2>1 DEF Account
<1>18. \A d \in ToSet(ExtractDependencies(project)) : Reached(d.name, 0, results', worklist')
  BY <1>12 DEF Account
<1>19. ASSUME index = "loaded" PROVE Accounted'
  <2>1. Accounted /\ Drawn(r, it, items)
    BY <1>2, <1>19 DEF Account
  <2> DEFINE a == <<r.name, r.version>>
  <2>2. /\ r.verdict = History(r.name, r.version)
        /\ it.dep.pin # Unknown \/ versions'[r.name].asked
        /\ r.version = Resolve(it.dep, versions'[r.name].says)
        /\ Len(it.path) + 1 < MaxDepth /\ r.version # Unknown =>
               /\ a \in DOMAIN children'
               /\ \A d \in ToSet(children'[a]) :
                      d.name \in visited' \/ \E k \in DOMAIN items : items[k].dep = d
        /\ \A k \in DOMAIN items :
               a \in DOMAIN children' /\ items[k].dep \in ToSet(children'[a])
    BY <2>1 DEF Drawn
  <2> HIDE DEF a
  <2>3. Judged(r, project, results', children', versions')
    <3>1. it.dep \in Dependency
      BY <1>1 DEF Item
    <3>2. StemsFrom(it.dep, r.path, project, results', children')
      BY <1>3, <1>7, <1>13, <2>1 DEF Accounted
    <3> QED
      BY <1>3, <2>2, <3>1, <3>2 DEF Judged
  <2>4. ASSUME NEW k \in DOMAIN results
        PROVE  Judged(results[k], project, results', children', versions')
    <3>1. Judged(results[k], project, results, children, versions)
      BY <2>1 DEF Accounted
    <3>2. PICK d \in Dependency :
              /\ d.name = results[k].name
              /\ StemsFrom(d, results[k].path, project, results, children)
              /\ d.pin # Unknown \/ versions[results[k].name].asked
              /\ results[k].version = Resolve(d, versions[results[k].name].says)
      BY <3>1 DEF Judged
    <3>3. StemsFrom(d, results[k].path, project, results', children')
      BY <1>13, <3>2
    <3>4. results[k].name \in Names
      BY <1>14 DEF Result
    <3>5. /\ d.pin # Unknown \/ versions'[results[k].name].asked
          /\ results[k].version = Resolve(d, versions'[results[k].name].says)
      <4>1. CASE d.pin # Unknown
        BY <3>2, <4>1 DEF Resolve
      <4>2. CASE d.pin = Unknown
        BY <1>1, <3>2, <3>4, <4>2
      <4> QED
        BY <4>1, <4>2
    <3> QED
      BY <3>1, <3>2, <3>3, <3>5 DEF Judged
  <2>5. ASSUME NEW k \in DOMAIN results
        PROVE  Followed(results[k], results', worklist', children')
    <3>1. Followed(results[k], results, worklist, children)
      BY <2>1 DEF Accounted
    <3>2. Len(results[k].path) + 1 \in Nat
      BY <1>14
    <3> QED
      BY <1>1, <1>12, <3>1, <3>2 DEF Followed
  <2>6. Followed(r, results', worklist', children')
    <3> SUFFICES ASSUME Len(r.path) + 1 < MaxDepth, r.version # Unknown, NEW d \in ToSet(children'[a])
                 PROVE  Reached(d.name, Len(r.path) + 1, results', worklist')
      BY <1>3, <2>2 DEF Followed, a
    <3>1. d.name \in visited' \/ \E k \in DOMAIN items : items[k].dep = d
      BY <1>3, <2>2
    <3>2. CASE d.name \in visited'
      <4>1. PICK k \in 1..(N + 1) : results'[k].name = d.name
        BY <1>6, <1>15, <3>2
      <4>2. CASE k = N + 1
        BY <1>6, <1>11, <4>1, <4>2 DEF Reached
      <4>3. CASE k \in 1..N
        <5>1. Len(results[k].path) <= Len(r.path)
          BY <1>3, <1>6, <1>7, <4>3 DEF WalkInv, Behind
        <5>2. Len(results'[k].path) <= Len(r.path) + 1
          BY <1>6, <1>11, <1>14, <4>3, <5>1
        <5> QED
          BY <1>6, <4>1, <5>2 DEF Reached
      <4> QED
        BY <1>6, <4>2, <4>3
    <3>3. CASE \E k \in DOMAIN items : items[k].dep = d
      <4>1. PICK k \in DOMAIN items : items[k].dep = d
        BY <3>3
      <4>2. Len(items[k].path) <= Len(r.path) + 1
        BY <1>3, <1>11
      <4> QED
        BY <1>10, <4>1, <4>2 DEF Reached
    <3> QED
      BY <3>1, <3>2, <3>3
  <2>7. ASSUME NEW k \in DOMAIN items
        PROVE  StemsFrom(items[k].dep, items[k].path, project, results', children')
    <3>1. items[k].path = Append(r.path, r.name) /\ N + 1 \in DOMAIN results'
      BY <1>3, <1>6
    <3>2. Len(items[k].path) = Len(r.path) + 1 /\ Len(items[k].path) - 1 = Len(r.path)
      BY <1>11, <3>1
    <3>3. /\ r.name = items[k].path[Len(items[k].path)]
          /\ r.path = SubSeq(items[k].path, 1, Len(items[k].path) - 1)
      BY <1>11, <3>1, <3>2
    <3>4. a \in DOMAIN children' /\ items[k].dep \in ToSet(children'[a])
      BY <2>2
    <3>5. items[k].path # <<>>
      BY <1>11, <3>1
    <3> QED
      BY <1>6, <3>1, <3>3, <3>4, <3>5 DEF StemsFrom, a
  <2>8. \A i \in DOMAIN worklist' :
            StemsFrom(worklist'[i].dep, worklist'[i].path, project, results', children')
    BY <1>9, <1>13, <2>1, <2>7 DEF Accounted
  <2>9. \A k \in DOMAIN results' : /\ Judged(results'[k], project, results', children', versions')
                                   /\ Followed(results'[k], results', worklist', children')
    <3> SUFFICES ASSUME NEW k \in 1..(N + 1)
                 PROVE  /\ Judged(results'[k], project, results', children', versions')
                        /\ Followed(results'[k], results', worklist', children')
      BY <1>6
    <3>1. CASE k = N + 1
      BY <1>6, <2>3, <2>6, <3>1
    <3>2. CASE k \in 1..N
      BY <1>6, <2>4, <2>5, <3>2
    <3> QED
      BY <1>6, <3>1, <3>2
  <2> QED
    BY <1>5, <2>8, <2>9 DEF Accounted
<1> QED
  BY <1>5, <1>15, <1>16, <1>17, <1>18, <1>19 DEF Account

LEMMA AccountInductive == WalkInv /\ Account /\ [WalkNext]_walkVars => Account'
<1> SUFFICES ASSUME WalkInv, Account, [WalkNext]_walkVars PROVE Account'
  OBVIOUS
<1>1. CASE Skip
  BY <1>1, AccountSkip
<1>2. CASE Visit
  BY <1>2, AccountVisit
<1>3. CASE NextProject
  BY <1>3, AccountNextProject
<1>4. CASE Release \/ Withdraw
  BY <1>4, AccountRegistry
<1>5. CASE UNCHANGED walkVars
  BY <1>5 DEF walkVars, cache, Account, Accounted
<1> QED
  BY <1>1, <1>2, <1>3, <1>4, <1>5 DEF WalkNext

(* What is meant by the specifiers, and the chains of it *)

\* What is meant by dependencies is a published version of one of them.
LEMMA InstalledIsPublished ==
    ASSUME WalkInv, NEW deps \in SUBSET Dependency, NEW b \in Installed(deps)
    PROVE  /\ b \in Names \X Versions /\ b[2] \in registry[b[1]].list
           /\ \E d \in deps : Fit(d) # {} /\ b = <<d.name, Max(Fit(d))>>
<1>1. PICK d \in deps : Fit(d) # {} /\ b = <<d.name, Max(Fit(d))>>
  BY Zenon DEF Installed
<1>2. d.name \in Names /\ d.spec \in SUBSET Versions
  BY DEF Dependency
<1>3. PICK latest \in Versions : Versions \subseteq 1..latest
  BY WalkAssumption
<1>4. latest \in Nat /\ Fit(d) \subseteq 0..latest
  <2>1. latest \in Nat /\ Versions \subseteq 0..latest
    BY <1>3
  <2>2. Fit(d) \subseteq Versions
    BY <1>2 DEF Fit
  <2> QED
    BY <2>1, <2>2
<1>5. Max(Fit(d)) \in Fit(d)
  BY <1>1, <1>4, MaxIsIn
<1> QED
  BY <1>1, <1>2, <1>5 DEF Fit

\* The answer to a dependency that is understood and that some published version
\* satisfies is the version meant.
LEMMA ResolvedIsInstalled ==
    ASSUME NEW deps, NEW d \in Dependency, d \in deps, Fit(d) # {}, Understood(d),
           NEW says, d.pin # Unknown \/ says = registry[d.name]
    PROVE  <<d.name, Resolve(d, says)>> \in Installed(deps)
<1>1. Resolve(d, says) = Max(Fit(d))
  <2>1. CASE d.pin # Unknown
    <3>1. Fit(d) = {d.pin} /\ d.pin \in Versions
      BY <2>1 DEF Understood, Fit, Dependency
    <3>2. PICK latest \in Versions : Versions \subseteq 1..latest
      BY WalkAssumption
    <3>3. latest \in Nat /\ {d.pin} \subseteq 0..latest
      <4>1. latest \in 1..latest /\ d.pin \in 1..latest
        BY <3>1, <3>2
      <4> QED
        BY <4>1
    <3>4. Max({d.pin}) = d.pin
      BY <3>3, MaxIsIn
    <3> QED
      BY <2>1, <3>1, <3>4 DEF Resolve
  <2>2. CASE d.pin = Unknown /\ d.read = {}
    BY <2>2 DEF Resolve, Understood
  <2>3. CASE d.pin = Unknown /\ d.read # {}
    <3>1. d.read \intersect says.list = Fit(d)
      BY <2>3 DEF Understood, Fit
    <3> QED
      BY <2>3, <3>1 DEF Resolve
  <2> QED
    BY <2>1, <2>2, <2>3
<1> QED
  BY <1>1, Zenon DEF Installed

\* A chain as long as the depth allows ends within the depth.
LEMMA ChainEnds ==
    ASSUME NEW depth \in Nat, NEW k \in 1..depth, NEW chain \in [1..k -> Names \X Versions],
           LeadsOn(chain)
    PROVE  chain[k] \in Within(depth)
<1>1. chain \in {c \in UNION {[1..i -> Names \X Versions] : i \in 1..depth} : LeadsOn(c)}
  OBVIOUS
<1>2. Len(chain) = k
  OBVIOUS
<1> QED
  BY <1>1, <1>2, Zenon DEF Within

LEMMA EndOfChain ==
    ASSUME NEW depth \in Nat, NEW b \in Within(depth)
    PROVE  \E k \in 1..depth : \E chain \in [1..k -> Names \X Versions] :
               LeadsOn(chain) /\ Len(chain) = k /\ b = chain[k]
<1>1. PICK chain \in UNION {[1..i -> Names \X Versions] : i \in 1..depth} :
          LeadsOn(chain) /\ b = chain[Len(chain)]
  BY Zenon DEF Within
<1>2. PICK k \in 1..depth : chain \in [1..k -> Names \X Versions]
  OBVIOUS
<1>3. Len(chain) = k
  BY <1>2
<1> QED
  BY <1>1, <1>2, <1>3

\* The first links of a chain are a chain.
LEMMA FirstLinks ==
    ASSUME NEW depth \in Nat, NEW k \in 1..depth, NEW chain \in [1..k -> Names \X Versions],
           LeadsOn(chain), NEW i \in 1..k
    PROVE  chain[i] \in Within(depth)
<1> DEFINE start == [j \in 1..i |-> chain[j]]
<1>1. start \in [1..i -> Names \X Versions] /\ i \in 1..depth /\ Len(start) = i /\ Len(chain) = k
  OBVIOUS
<1>2. \A j \in 1..i : start[j] = chain[j]
  OBVIOUS
<1> HIDE DEF start
<1>3. ASSUME NEW j \in 2..i
      PROVE  start[j] \in Installed(ToSet(Requires[start[j - 1][1]][start[j - 1][2]]))
  <2>1. j \in 2..k /\ start[j] = chain[j] /\ start[j - 1] = chain[j - 1]
    BY <1>2
  <2> QED
    BY <1>1, <2>1 DEF LeadsOn
<1>4. LeadsOn(start)
  <2>1. start[1] = chain[1]
    BY <1>2
  <2> QED
    BY <1>1, <1>3, <2>1 DEF LeadsOn
<1>5. start[i] = chain[i]
  BY <1>2
<1> QED
  BY <1>1, <1>4, <1>5, ChainEnds

\* A chain goes on with what its end requires.
LEMMA OneFurther ==
    ASSUME NEW depth \in Nat, NEW b \in Within(depth), NEW c \in Names \X Versions,
           c \in Installed(ToSet(Requires[b[1]][b[2]]))
    PROVE  c \in Within(depth + 1)
<1>1. PICK k \in 1..depth : \E chain \in [1..k -> Names \X Versions] :
               LeadsOn(chain) /\ Len(chain) = k /\ b = chain[k]
  BY EndOfChain
<1>2. PICK chain \in [1..k -> Names \X Versions] : LeadsOn(chain) /\ Len(chain) = k /\ b = chain[k]
  BY <1>1
<1> DEFINE longer == [j \in 1..(k + 1) |-> IF j = k + 1 THEN c ELSE chain[j]]
<1>3. longer \in [1..(k + 1) -> Names \X Versions] /\ Len(longer) = k + 1 /\ k + 1 \in 1..(depth + 1)
  <2>1. \A j \in 1..(k + 1) : j # k + 1 => j \in 1..k
    OBVIOUS
  <2> QED
    BY <2>1
<1>4. longer[k + 1] = c /\ \A j \in 1..k : longer[j] = chain[j]
  OBVIOUS
<1> HIDE DEF longer
<1>5. longer[1] = chain[1]
  BY <1>4
<1>6. ASSUME NEW j \in 2..(k + 1)
      PROVE  longer[j] \in Installed(ToSet(Requires[longer[j - 1][1]][longer[j - 1][2]]))
  <2>1. longer[j - 1] = chain[j - 1]
    BY <1>4
  <2>2. CASE j = k + 1
    BY <1>2, <1>4, <2>1, <2>2
  <2>3. CASE j \in 2..k
    BY <1>2, <1>4, <2>1, <2>3 DEF LeadsOn
  <2> QED
    BY <2>2, <2>3
<1>7. LeadsOn(longer)
  BY <1>2, <1>3, <1>5, <1>6 DEF LeadsOn
<1> QED
  BY <1>3, <1>4, <1>7, ChainEnds

LEMMA WithinGrows ==
    ASSUME NEW n \in Nat, NEW depth \in Nat, n <= depth
    PROVE  Within(n) \subseteq Within(depth)
<1> SUFFICES ASSUME NEW b \in Within(n) PROVE b \in Within(depth)
  OBVIOUS
<1>1. PICK k \in 1..n : \E chain \in [1..k -> Names \X Versions] :
               LeadsOn(chain) /\ Len(chain) = k /\ b = chain[k]
  BY EndOfChain
<1>2. k \in 1..depth
  OBVIOUS
<1> QED
  BY <1>1, <1>2, ChainEnds

\* What is required is dependencies.
LEMMA RequiredAreDependencies ==
    ASSUME WalkInv
    PROVE  /\ Declared(project) = ToSet(ExtractDependencies(project))
           /\ Declared(project) \in SUBSET Dependency
           /\ \A n \in Names, v \in Versions : ToSet(Requires[n][v]) \in SUBSET Dependency
<1>1. project \in Projects
  BY DEF WalkInv, WalkTypeOK
<1>2. \A s \in Seq(Dependency) : ToSet(s) \in SUBSET Dependency
  BY DEF ToSet
<1>3. ToSet(ExtractDependencies(project)) = Declared(project)
  BY <1>1, ManifestAssumption
<1>4. ExtractDependencies(project) \in Seq(Dependency)
  BY <1>1, WalkAssumption
<1>5. Requires \in [Names -> [Versions -> Seq(Dependency)]]
  BY WalkAssumption
<1>6. \A n \in Names, v \in Versions : Requires[n][v] \in Seq(Dependency)
  BY <1>5
<1> QED
  BY <1>2, <1>3, <1>4, <1>6

LEMMA WithinIsPublished ==
    ASSUME WalkInv, NEW depth \in Nat, NEW b \in Within(depth)
    PROVE  b \in Names \X Versions /\ b[2] \in registry[b[1]].list
<1>1. PICK k \in 1..depth : \E chain \in [1..k -> Names \X Versions] :
               LeadsOn(chain) /\ Len(chain) = k /\ b = chain[k]
  BY EndOfChain
<1>2. PICK chain \in [1..k -> Names \X Versions] : LeadsOn(chain) /\ Len(chain) = k /\ b = chain[k]
  BY <1>1
<1>3. CASE k = 1
  <2>1. b \in Installed(Declared(project))
    BY <1>2, <1>3 DEF LeadsOn
  <2> QED
    BY <2>1, RequiredAreDependencies, InstalledIsPublished
<1>4. CASE k # 1
  <2> DEFINE a == chain[k - 1]
  <2>1. b \in Installed(ToSet(Requires[a[1]][a[2]])) /\ a \in Names \X Versions
    <3>1. k \in 2..Len(chain) /\ k - 1 \in 1..k
      BY <1>2, <1>4
    <3>2. \A j \in 2..Len(chain) :
              chain[j] \in Installed(ToSet(Requires[chain[j - 1][1]][chain[j - 1][2]]))
      BY <1>2 DEF LeadsOn
    <3> QED
      BY <1>2, <3>1, <3>2
  <2>2. ToSet(Requires[a[1]][a[2]]) \in SUBSET Dependency
    BY <2>1, RequiredAreDependencies
  <2> QED
    BY <2>1, <2>2, InstalledIsPublished
<1> QED
  BY <1>3, <1>4

\* What excuses a walk: what hinders it and specifiers that are not understood.
Excused == Hindered \/ \E d \in Wanted : ~Understood(d)

\* Without an excuse every result is at the version meant, at the end of a chain no
\* longer than the walk went for it.
LEMMA ResultsAreInstalled ==
    ASSUME WalkInv, Account, ~Excused, NEW k \in DOMAIN results
    PROVE  <<results[k].name, results[k].version>> \in Within(Len(results[k].path) + 1)
<1> DEFINE pair(i) == <<results[i].name, results[i].version>>
           far(i) == Len(results[i].path)
           wrong == {i \in DOMAIN results : pair(i) \notin Within(far(i) + 1)}
           S == {far(i) : i \in wrong}
<1>1. /\ index = "loaded"
      /\ \A n \in Names : versions[n].asked => versions[n].says = registry[n]
      /\ \A a \in DOMAIN children : a[2] \in registry[a[1]].list => children[a] = Requires[a[1]][a[2]]
      /\ \A d \in Wanted : Fit(d) # {} /\ Understood(d)
  BY DEF Excused, Hindered
<1>2. Accounted
  BY <1>1 DEF Account
<1>3. \A i \in DOMAIN results :
          results[i] \in Result /\ far(i) \in Nat /\ far(i) < MaxDepth /\ MaxDepth \in Nat
  <2>1. results \in Seq(Result) /\ MaxDepth \in Nat
    BY WalkAssumption DEF WalkInv, WalkTypeOK
  <2>2. \A i \in DOMAIN results : results[i] \in Result
    BY <2>1
  <2> QED
    BY <2>1, <2>2 DEF Result, Account
<1>4. SUFFICES ASSUME k \in wrong PROVE FALSE
  OBVIOUS
<1>5. PICK x \in S : \A y \in S : x <= y
  <2>1. S \subseteq Nat
    BY <1>3
  <2>2. S # {}
    BY <1>4
  <2> HIDE DEF S
  <2> QED
    BY <2>1, <2>2, Least
<1>6. PICK i \in wrong : x = far(i)
  OBVIOUS
<1>7. \A j \in DOMAIN results : far(j) < far(i) => pair(j) \in Within(far(j) + 1)
  <2> SUFFICES ASSUME NEW j \in DOMAIN results, far(j) < far(i), j \in wrong PROVE FALSE
    OBVIOUS
  <2>1. far(i) <= far(j)
    BY <1>5, <1>6
  <2> QED
    BY <1>3, <2>1
<1>8. i \in DOMAIN results /\ pair(i) \notin Within(far(i) + 1)
  OBVIOUS
<1>9. PICK d \in Dependency :
          /\ d.name = results[i].name
          /\ StemsFrom(d, results[i].path, project, results, children)
          /\ d.pin # Unknown \/ versions[results[i].name].asked
          /\ results[i].version = Resolve(d, versions[results[i].name].says)
  BY <1>2, <1>8 DEF Accounted, Judged
<1>10. d.name \in Names
  BY DEF Dependency
<1>11. d.pin # Unknown \/ versions[d.name].says = registry[d.name]
  BY <1>1, <1>9, <1>10
<1>12. pair(i) = <<d.name, Resolve(d, versions[d.name].says)>>
  BY <1>9
<1>13. ASSUME NEW deps \in SUBSET Dependency, d \in deps, deps \subseteq Wanted
       PROVE  pair(i) \in Installed(deps) /\ pair(i) \in Names \X Versions
  <2>1. Fit(d) # {} /\ Understood(d)
    BY <1>1, <1>13
  <2>2. pair(i) \in Installed(deps)
    BY <1>11, <1>12, <1>13, <2>1, ResolvedIsInstalled
  <2> QED
    BY <2>2, InstalledIsPublished
<1>14. CASE results[i].path = <<>>
  <2>1. d \in Declared(project) /\ Declared(project) \in SUBSET Dependency
    BY <1>9, <1>14, RequiredAreDependencies DEF StemsFrom
  <2>2. Declared(project) \subseteq Wanted
    BY DEF Wanted
  <2>3. pair(i) \in Installed(Declared(project)) /\ pair(i) \in Names \X Versions
    BY <1>13, <2>1, <2>2
  <2> DEFINE chain == [j \in 1..1 |-> pair(i)]
  <2>4. chain \in [1..1 -> Names \X Versions] /\ Len(chain) = 1 /\ chain[1] = pair(i)
    BY <2>3
  <2> HIDE DEF chain
  <2>5. LeadsOn(chain)
    BY <2>3, <2>4 DEF LeadsOn
  <2>6. pair(i) \in Within(1)
    <3>1. 1 \in Nat /\ 1 \in 1..1
      OBVIOUS
    <3>2. chain[1] \in Within(1)
      BY <2>4, <2>5, <3>1, ChainEnds
    <3> QED
      BY <2>4, <3>2
  <2>7. far(i) + 1 = 1
    BY <1>14
  <2> QED
    BY <1>8, <2>6, <2>7
<1>15. CASE results[i].path # <<>>
  <2>1. PICK j \in DOMAIN results :
            /\ results[j].path = SubSeq(results[i].path, 1, Len(results[i].path) - 1)
            /\ pair(j) \in DOMAIN children /\ d \in ToSet(children[pair(j)])
    BY <1>9, <1>15 DEF StemsFrom
  <2>2. far(j) = far(i) - 1
    <3>1. results[i].path \in Seq(Names)
      BY <1>3, <1>8 DEF Result
    <3> QED
      BY <1>15, <2>1, <3>1
  <2>3. pair(j) \in Within(far(i)) /\ far(i) \in Nat
    <3>1. far(i) \in Nat /\ far(j) < far(i) /\ far(j) + 1 = far(i)
      BY <1>3, <1>8, <2>2
    <3>2. pair(j) \in Within(far(j) + 1)
      BY <1>7, <3>1
    <3> QED
      BY <3>1, <3>2
  <2>4. pair(j) \in Within(MaxDepth - 1)
    <3>1. far(i) <= MaxDepth - 1 /\ MaxDepth - 1 \in Nat
      BY <1>3, <1>8
    <3> QED
      BY <2>3, <3>1, WithinGrows
  <2>5. pair(j) \in Names \X Versions /\ pair(j)[2] \in registry[pair(j)[1]].list
    BY <2>3, WithinIsPublished
  <2> DEFINE deps == ToSet(Requires[pair(j)[1]][pair(j)[2]])
  <2>6. d \in deps
    BY <1>1, <2>1, <2>5
  <2>7. deps \in SUBSET Dependency
    BY <2>5, RequiredAreDependencies
  <2>8. deps \subseteq Wanted
    BY <2>4 DEF Wanted
  <2>9. pair(i) \in Installed(deps) /\ pair(i) \in Names \X Versions
    BY <1>13, <2>6, <2>7, <2>8
  <2>10. pair(i) \in Within(far(i) + 1)
    BY <2>3, <2>9, OneFurther
  <2> QED
    BY <1>8, <2>10
<1> QED
  BY <1>14, <1>15

\* Without an excuse a walk that has ended has a result for every link of a chain.
LEMMA LinksAreReported ==
    ASSUME WalkInv, Account, ~Excused, NEW n \in 1..MaxDepth,
           NEW chain \in [1..n -> Names \X Versions], LeadsOn(chain), NEW k \in 1..n
    PROVE  \E j \in DOMAIN results : <<results[j].name, results[j].version>> = chain[k]
<1> DEFINE pair(i) == <<results[i].name, results[i].version>>
           found(i) == \E j \in DOMAIN results : pair(j) = chain[i] /\ Len(results[j].path) <= i - 1
           S == {i \in 1..n : ~found(i)}
<1>1. /\ index = "loaded" /\ worklist = <<>>
      /\ \A a \in DOMAIN children : a[2] \in registry[a[1]].list => children[a] = Requires[a[1]][a[2]]
      /\ \A a, b \in Tree : a[1] = b[1] => a[2] = b[2]
  BY DEF Excused, Hindered
<1>2. Accounted
  BY <1>1 DEF Account
<1>3. MaxDepth \in Nat \ {0} /\ n \in Nat
  BY WalkAssumption
<1>4. \A i \in DOMAIN results :
          /\ results[i] \in Result /\ Len(results[i].path) \in Nat
          /\ Len(results[i].path) < MaxDepth
  <2>1. results \in Seq(Result)
    BY DEF WalkInv, WalkTypeOK
  <2>2. \A i \in DOMAIN results : results[i] \in Result
    BY <2>1
  <2> QED
    BY <2>2 DEF Result, Account
<1>5. \A i \in 1..n : chain[i] \in Tree /\ chain[i] \in Names \X Versions
  BY <1>3, FirstLinks DEF Tree
<1>6. \A j \in DOMAIN results : pair(j) \in Tree
  <2> SUFFICES ASSUME NEW j \in DOMAIN results PROVE pair(j) \in Within(MaxDepth)
    BY DEF Tree
  <2>1. Len(results[j].path) + 1 \in Nat /\ Len(results[j].path) + 1 <= MaxDepth
    BY <1>3, <1>4
  <2>2. pair(j) \in Within(Len(results[j].path) + 1)
    BY ResultsAreInstalled
  <2> QED
    BY <1>3, <2>1, <2>2, WithinGrows
\* A result of the name, near enough, is the result of the link.
<1>7. ASSUME NEW i \in 1..n, Reached(chain[i][1], i - 1, results, worklist) PROVE found(i)
  <2>1. PICK j \in DOMAIN results : results[j].name = chain[i][1] /\ Len(results[j].path) <= i - 1
    BY <1>1, <1>7 DEF Reached
  <2>2. pair(j) \in Tree /\ chain[i] \in Tree /\ chain[i] \in Names \X Versions
    BY <1>5, <1>6
  <2>3. pair(j)[2] = chain[i][2]
    BY <1>1, <2>1, <2>2
  <2>4. pair(j) = chain[i]
    BY <2>1, <2>2, <2>3
  <2> QED
    BY <2>1, <2>4
<1>8. ASSUME NEW i \in S PROVE \E j \in S : j < i
  <2>1. ~found(i) /\ i \in 1..n
    OBVIOUS
  <2>2. CASE i = 1
    <3>1. chain[1] \in Installed(Declared(project))
      BY DEF LeadsOn
    <3>2. PICK d \in Declared(project) : chain[1] = <<d.name, Max(Fit(d))>>
      BY <3>1, RequiredAreDependencies, InstalledIsPublished
    <3>3. Reached(d.name, 0, results, worklist)
      BY <3>2, RequiredAreDependencies DEF Account
    <3>4. Reached(chain[i][1], i - 1, results, worklist)
      BY <2>2, <3>2, <3>3
    <3> QED
      BY <1>7, <2>1, <3>4
  <2>3. CASE i # 1
    <3>1. i - 1 \in 1..n /\ i \in 2..n /\ Len(chain) = n
      BY <2>1, <2>3
    <3> SUFFICES ASSUME found(i - 1) PROVE FALSE
      <4>1. i - 1 < i
        BY <3>1
      <4>2. i - 1 \in S \/ found(i - 1)
        BY <3>1
      <4> HIDE DEF S, found
      <4> QED
        BY <4>1, <4>2
    <3>2. PICK j \in DOMAIN results : pair(j) = chain[i - 1] /\ Len(results[j].path) <= i - 2
      BY <3>1
    <3> DEFINE a == chain[i - 1]
    <3>3. a \in Names \X Versions /\ a[2] \in registry[a[1]].list
      <4>1. a \in Within(MaxDepth)
        BY <1>5, <3>1 DEF Tree
      <4> QED
        BY <1>3, <4>1, WithinIsPublished
    <3>4. chain[i] \in Installed(ToSet(Requires[a[1]][a[2]]))
      BY <3>1 DEF LeadsOn
    <3>5. ToSet(Requires[a[1]][a[2]]) \in SUBSET Dependency
      BY <3>3, RequiredAreDependencies
    <3>6. PICK d \in ToSet(Requires[a[1]][a[2]]) : chain[i] = <<d.name, Max(Fit(d))>>
      BY <3>4, <3>5, InstalledIsPublished
    <3>7. Len(results[j].path) + 1 < MaxDepth /\ results[j].version # Unknown
      <4>1. Len(results[j].path) + 1 < MaxDepth
        BY <1>3, <1>4, <3>1, <3>2
      <4>2. results[j].version \in Versions
        BY <3>2, <3>3
      <4>3. Unknown \notin Versions
        BY WalkAssumption DEF Unknown
      <4> QED
        BY <4>1, <4>2, <4>3
    <3>8. /\ a \in DOMAIN children
          /\ \A e \in ToSet(children[a]) : Reached(e.name, Len(results[j].path) + 1, results, worklist)
      <4>1. Followed(results[j], results, worklist, children)
        BY <1>2 DEF Accounted
      <4> QED
        BY <3>2, <3>7, <4>1 DEF Followed
    <3>9. Reached(d.name, Len(results[j].path) + 1, results, worklist)
      BY <1>1, <3>3, <3>6, <3>8
    <3>10. PICK e \in DOMAIN results :
               results[e].name = d.name /\ Len(results[e].path) <= Len(results[j].path) + 1
      BY <1>1, <3>9 DEF Reached
    <3>11. Len(results[e].path) <= i - 1
      BY <1>4, <3>1, <3>2, <3>10
    <3>12. Reached(chain[i][1], i - 1, results, worklist)
      BY <3>6, <3>10, <3>11 DEF Reached
    <3> QED
      BY <1>7, <2>1, <3>12
  <2> QED
    BY <2>2, <2>3
<1>9. S = {}
  <2> SUFFICES ASSUME S # {} PROVE FALSE
    OBVIOUS
  <2>1. S \subseteq Nat
    BY <1>3
  <2> HIDE DEF S
  <2>2. PICK x \in S : \A y \in S : x <= y
    BY <2>1, Least
  <2>3. PICK y \in S : y < x
    BY <1>8
  <2> QED
    BY <2>1, <2>2, <2>3
<1> QED
  BY <1>9

LEMMA WithoutExcuse == WalkInv /\ Account => AffectedIsReported
<1> SUFFICES ASSUME WalkInv, Account, Ended, ~Excused, NEW a \in Tree, Condemned(a[1], a[2])
             PROVE  \E k \in DOMAIN results :
                        /\ results[k].name = a[1] /\ results[k].version = a[2]
                        /\ results[k].verdict = "MALICIOUS"
  BY Zenon DEF AffectedIsReported, AllReported, Excused
<1>1. MaxDepth \in Nat
  BY WalkAssumption
<1>2. PICK n \in 1..MaxDepth : \E chain \in [1..n -> Names \X Versions] :
               LeadsOn(chain) /\ Len(chain) = n /\ a = chain[n]
  BY <1>1, EndOfChain DEF Tree
<1>3. PICK chain \in [1..n -> Names \X Versions] : LeadsOn(chain) /\ a = chain[n]
  BY <1>2
<1>4. PICK k \in DOMAIN results : <<results[k].name, results[k].version>> = chain[n]
  BY <1>3, LinksAreReported
<1>5. results[k].name = a[1] /\ results[k].version = a[2]
  BY <1>3, <1>4
<1>6. results[k].verdict = History(results[k].name, results[k].version)
  BY DEF Excused, Hindered, Account, Accounted, Judged
<1>7. results[k].verdict = "MALICIOUS"
  BY <1>5, <1>6 DEF History, Condemned
<1> QED
  BY <1>5, <1>7

\* The walk keeps its types: what it queues and reports are dependencies by name,
\* and only versions that are known have their dependencies in memory
\* (analyze_dependencies and the two registry caches).
THEOREM WalkTyped == WalkSpec => []WalkTypeOK
<1>1. WalkInv => WalkTypeOK
  BY DEF WalkInv
<1> QED
  BY <1>1, WalkInitially, WalkInductive, PTL DEF WalkSpec

\* Whatever the manifests, the registry and the failing requests, a dependency is
\* called malicious at a listed version or because none could be had: a request for
\* it failed in this process or the registry named no latest version
\* (_analyze_one_dep_history with _REGISTRY_VERSIONS_CACHE).
THEOREM BlameIsExplained == WalkSpec => []BlameHasCause
<1>1. WalkInv => BlameHasCause
  BY DEF WalkInv
<1> QED
  BY <1>1, WalkInitially, WalkInductive, PTL DEF WalkSpec

\* For any depth, limit and graph of dependencies, cycles included, the walk reports
\* by distance and along chains of what it reported before (the worklist of
\* analyze_dependencies).
THEOREM ReportedByDistance == WalkSpec => []NearestFirst
<1>1. WalkInv => NearestFirst
  BY DEF WalkInv
<1> QED
  BY <1>1, WalkInitially, WalkInductive, PTL DEF WalkSpec

\* A walk of any depth that nothing hindered, over specifiers that are understood,
\* has reported every dependency within the depth that is listed at the version
\* meant, and at it: neither the order of the walk, nor visiting a name once, nor
\* what the process remembers hides one (analyze_dependencies,
\* _fetch_dep_dependencies, _resolve_dep_version).
THEOREM WalkIsComplete == WalkSpec => []AffectedIsReported
<1>1. WalkInit => WalkInv /\ Account
  BY WalkInitially, AccountInitially
<1>2. WalkInv /\ Account /\ [WalkNext]_walkVars => (WalkInv /\ Account)'
  BY WalkInductive, AccountInductive
<1>3. WalkInv /\ Account => AffectedIsReported
  BY WithoutExcuse
<1> QED
  BY <1>1, <1>2, <1>3, PTL DEF WalkSpec
=============================================================================
