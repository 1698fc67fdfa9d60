-------------------------- MODULE MCDependencyWalk --------------------------
(* Small instances of DependencyWalk.                                       *)
EXTENDS DependencyWalk

MCVersions == 1..3
\* Of Python: no specifier, "<3", ">=1,<2" of which the first clause is kept.
Anything(n) == [name |-> n, spec |-> MCVersions, pin |-> Unknown, read |-> {}]
Below3(n) == [name |-> n, spec |-> {1, 2}, pin |-> Unknown, read |-> {1, 2}]
Two(n) == [name |-> n, spec |-> {1}, pin |-> Unknown, read |-> MCVersions]
Pin(n, v) == [name |-> n, spec |-> {v}, pin |-> v, read |-> {v}]
\* Of npm: "*", "1.x" and ">=1 <3", a form that is not read.
Star(n) == [name |-> n, spec |-> MCVersions, pin |-> Unknown, read |-> MCVersions]
XRange(n) == [name |-> n, spec |-> {1, 2}, pin |-> Loose, read |-> {1, 2}]
Spaced(n) == [name |-> n, spec |-> {1, 2}, pin |-> Unknown, read |-> {}]
Group(g) == [include |-> g]

\* "app" needs "lib", and "lib" needs "evil" (listed) and, in a cycle, "app".  Of
\* npm are "ui" (listed in every version), which needs "bad" (listed), and "ghost"
\* (listed), of which no version is left.
MCNames == {"app", "lib", "evil", "ui", "bad", "ghost"}
MCFirst == [n \in MCNames |->
    CASE n \in {"evil", "bad"} -> [list |-> {1, 2}, latest |-> 2]
      [] n = "ghost" -> Unanswered
      [] OTHER -> [list |-> {1}, latest |-> 1]]
MCRequires == [n \in MCNames |-> [v \in MCVersions |->
    CASE n = "app" -> <<Anything("lib")>>
      [] n = "lib" -> IF v = 1 THEN <<Below3("evil"), Anything("app")>> ELSE <<>>
      [] n = "ui" -> <<Spaced("bad")>>
      [] OTHER -> <<>>]]
MCAffected == ("evil" :> {2}) @@ ("bad" :> {2}) @@ ("ghost" :> {1}) @@ ("ui" :> {})
MCLookAlikes == {"app"}

Python == [ecosystem |-> "PyPI", dependencies |-> <<>>, setup_ast |-> <<>>, setup_text |-> <<>>,
           requirements |-> <<>>, optional |-> <<>>, groups |-> <<>>]
Node == [ecosystem |-> "npm", dependencies |-> <<>>, peer |-> <<>>, optional |-> <<>>, dev |-> <<>>]

MCProjects == {
    [Python EXCEPT !.dependencies = <<Anything("app")>>],
    [Python EXCEPT !.requirements = <<Pin("evil", 1)>>, !.setup_ast = <<Anything("lib")>>],
    [Python EXCEPT !.setup_text = <<Anything("lib")>>,
                   !.groups = ("a" :> <<Group("b"), Anything("app")>>)
                              @@ ("b" :> <<Group("c"), Group("a")>>)
                              @@ ("c" :> <<Pin("evil", 2)>>)],
    [Python EXCEPT !.dependencies = <<Pin("evil", 3)>>, !.requirements = <<Anything("lib")>>],
    [Python EXCEPT !.optional = <<Two("evil")>>],
    [Node EXCEPT !.dependencies = <<Star("ui")>>, !.peer = <<Star("bad")>>,
                 !.optional = <<Star("ghost")>>],
    [Node EXCEPT !.optional = <<Spaced("bad")>>, !.dev = <<Star("ghost")>>],
    [Node EXCEPT !.dependencies = <<XRange("bad")>>, !.dev = <<Star("ui")>>]}
============================================================================
