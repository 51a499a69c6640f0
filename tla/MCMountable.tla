---------------------------- MODULE MCMountable ----------------------------
EXTENDS Mountable
MCPaths == {<<"a">>, <<"a", "a">>}
MCWalk == <<<<"a">>, <<"a", "a">>>>
MCPoints == {<<"m">>, <<"m", "n">>}
MCTargets == {Relative(0, <<"b">>)}
MCReadOnlys == {<<"m", "n">>}
Volume(m) == [p \in Places |-> <<nodeAt(m, p), IF m.at[p] = 0 THEN {} ELSE Names(m, m.at[p])>>]
View == <<[v \in DOMAIN vol |-> Volume(vol[v])], mounts, moving, cargo>>
=============================================================================
