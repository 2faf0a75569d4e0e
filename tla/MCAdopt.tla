------------------------------- MODULE MCAdopt -------------------------------
(***************************************************************************)
(* Object 1 was left under one or both of two legacy names, with a column  *)
(* "b" to be renamed to "body" and perhaps of a foreign type; object 2     *)
(* under one, or not at all, perhaps with a second legacy column "ts" for  *)
(* the field that "at" is for, of a foreign type.                          *)
(***************************************************************************)
EXTENDS Adopt, TLC

CONSTANTS p1, p2

MCProcesses == {p1, p2}
Symmetry == Permutations(MCProcesses)

MCFields == [o \in 1..NObjects |-> IF o = 1 THEN {"id", "body"} ELSE {"id", "stamp"}]
MCColumns == [c \in {"b", "at", "ts"} |-> IF c = "b" THEN "body" ELSE "stamp"]

Left(cols, bad, n) ==
    [rows |-> n, late |-> 0, idx |-> {"legacy", "other"},
     cols |-> [c \in cols |-> [data |-> c, ok |-> c \notin bad]]]

First == {Left({"id", "b"}, bad, n) : bad \in {{}, {"b"}}, n \in {0, 1}}
         \cup {Left({"id", "b", "body"}, {"b"}, 1)}
Second == {Left({"id", "at"}, {}, 1), Left({"id", "at", "ts"}, {"ts"}, 1)}

MCStart ==
    {[x \in {<<1, 1>>} |-> t] : t \in First}
    \cup {[x \in {<<1, 1>>, <<1, 2>>} |-> IF x[2] = 1 THEN t ELSE Left({"id", "b"}, {"b"}, 0)] : t \in First}
    \cup {[x \in {<<1, 2>>, <<2, 1>>} |-> IF x[1] = 1 THEN t ELSE u] : t \in First, u \in Second}
=============================================================================
