------------------------------ MODULE MCOverlay ------------------------------
(* Small instances of Overlay for TLC: two directories or files, one name   *)
(* below each of them, and lower filesystems with everything in them.       *)
EXTENDS Overlay

CONSTANTS a, b, x

MCPaths == {<<a>>, <<b>>, <<a, x>>, <<b, x>>}
MCOrder == <<<<a>>, <<a, x>>, <<b>>, <<b, x>>>>
MCContents == {"old", "new", "both"}
MCWritten == {"new"}
MCLonger == [c \in MCContents \cup {"absent"} |-> IF c = "absent" THEN "new" ELSE "both"]
NoPaths == {}

LowerTree(file, dir, inside) ==
  [p \in {<<>>} \cup MCPaths |->
     IF p \in {<<>>} \cup dir THEN "dir"
     ELSE IF p \in file THEN "old"
     ELSE IF p \in inside THEN "old" ELSE "absent"]

MCLowers ==
  {LowerTree({<<b>>}, {<<a>>}, {<<a, x>>}),
   LowerTree({}, {<<a>>, <<b>>}, {<<b, x>>}),
   LowerTree({}, {<<a>>, <<a, x>>}, {})}
=============================================================================
