---------------------------- MODULE MCFileSystem ----------------------------
(***************************************************************************)
(* A small heap and a small directory for TLC: one file at boot, room for  *)
(* two, a content longer than the buffer of touch.                         *)
(***************************************************************************)
EXTENDS FileSystem

Text(i, n) == [id |-> i, len |-> n]

ShortNames == {"README", "a", "b"}
OneFile == <<[name |-> "README", holds |-> Text(1, 2)]>>
AsTheyAre == [n \in ShortNames |-> n]
OneText == {Text(2, 3)}

\* A name too long for an entry, and what is left of it.
LongNames == {"README", "cut", "too long"}
CutLong == [n \in LongNames |-> IF n = "too long" THEN "cut" ELSE n]
=============================================================================
