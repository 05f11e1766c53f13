------------------------------ MODULE MCFiles ------------------------------
(* Paths for TLC: two directories that can hold the same name, a file, and *)
(* a name below the current directory.                                     *)
EXTENDS Files

Absolute(names) == [absolute |-> TRUE, names |-> names]
Relative(names) == [absolute |-> FALSE, names |-> names]
MCPaths == {Absolute(<<"d">>), Absolute(<<"d", "f">>), Absolute(<<"e">>),
            Absolute(<<"e", "f">>), Absolute(<<"g">>), Relative(<<"f">>)}
=============================================================================
