-------------------------- MODULE MCTaintSlicer --------------------------
(* Small instances of TaintSlicer: three files, two of the same name in two *)
(* packages, and one that imports from them.                                *)
EXTENDS TaintSlicer

CONSTANTS x, y

MCVars == {x, y}
MCFiles == <<<<"lib", "config">>, <<"pkg", "config">>, <<"pkg", "keys">>,
             <<"pkg", "main">>>>
============================================================================
