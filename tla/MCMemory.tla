------------------------------ MODULE MCMemory ------------------------------
EXTENDS CopyMount
MCPaths == {<<"a">>, <<"b">>, <<"a", "a">>, <<"a", "b">>, <<"b", "a">>}
MCWalk == <<<<"a">>, <<"a", "a">>, <<"a", "b">>, <<"b">>, <<"b", "a">>>>
MCTargets == {Relative(1, <<"b">>), Absolute(<<"a">>)}

\* A directory with a file and a file beside it; a file and a link to it; links
\* that lead to a link.
Tree1 == [p \in MCPaths |-> CASE p = <<"a">> -> Directory
                              [] p = <<"a", "a">> -> Regular(0)
                              [] p = <<"b">> -> Regular(1)
                              [] OTHER -> Nothing]
Tree2 == [p \in MCPaths |-> CASE p = <<"a">> -> Symbolic(Absolute(<<"b">>))
                              [] p = <<"b">> -> Regular(1)
                              [] OTHER -> Nothing]
Tree3 == [p \in MCPaths |-> CASE p = <<"a">> -> Directory
                              [] p = <<"a", "a">> -> Symbolic(Relative(0, <<"b">>))
                              [] p = <<"a", "b">> -> Symbolic(Absolute(<<"b">>))
                              [] p = <<"b">> -> Regular(1)
                              [] OTHER -> Nothing]
MCPoints == {<<>>, <<"a">>}
MCSources == {Tree1, Tree2, Tree3}

\* The identities of the nodes do not matter, which names share one does.
View == <<[p \in Places |-> <<nodeAt(fs, p), IF fs.at[p] = 0 THEN {} ELSE Names(fs, fs.at[p])>>],
          fs.used, making>>
=============================================================================
