------------------------------ MODULE BsonValues ------------------------------
(* Values of documents, as far as lookups and functions tell them apart.   *)
EXTENDS Integers, Sequences, SequencesExt

Missing == [is |-> "missing"]
Null == [is |-> "null"]
Error == [is |-> "error"]          \* the server refuses the command
Num(n) == [is |-> "num", n |-> n]
Str(s) == [is |-> "str", s |-> s]
Arr(items) == [is |-> "arr", items |-> items]
Obj(fields) == [is |-> "obj", fields |-> fields]
Text(s) == [is |-> "text", s |-> s]   \* a string whose letters matter, as a sequence

IsArr(v) == v.is = "arr"
IsNull(v) == v.is \in {"missing", "null"}
Items(v) == ToSet(v.items)

Truth(p) == IF p THEN "T" ELSE "F"
=============================================================================
