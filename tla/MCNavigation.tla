--------------------------- MODULE MCNavigation ---------------------------
(***************************************************************************)
(* Small instances of Navigation: a tool with a filter and configured      *)
(* fields, and a tool with neither.                                        *)
(***************************************************************************)
EXTENDS Navigation

MCTools  == << "a", "b" >>
MCFields == [a |-> << "_time", "x", "_msg" >>, b |-> <<>>]

\* Every path, with a query on one that names a tool and one that does not.
MCLinks == { <<path, "">> : path \in Paths } \cup { <<"b", "q">>, <<Stranger, "q">> }

\* Another tab has read the same storage, and dropped a column of the one tool.
MCOtherMaps ==
    { [t \in ToolIds |-> IF t = "a" THEN << "_time", "_msg" >> ELSE None] }
=============================================================================
