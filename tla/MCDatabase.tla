----------------------------- MODULE MCDatabase -----------------------------
EXTENDS Database
MCPaths == {<<"a">>, <<"b">>, <<"a", "a">>, <<"a", "b">>, <<"b", "a">>}
MCTargets == {Relative(0, <<"b">>)}

\* The identities of the nodes do not matter, which paths share one does.
View == <<open, Shape(InMemory(db)), {<<i, db.node[i]>> : i \in Orphans(db)} # {},
          Sets!FoldSet(LAMBDA i, sum : sum + db.node[i].size, 0, Orphans(db))>>
=============================================================================
