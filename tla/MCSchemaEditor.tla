---------------------------- MODULE MCSchemaEditor ----------------------------
(* Instances of SchemaEditor for TLC.                                      *)
EXTENDS SchemaEditor, TLC

MCName == {"f", "g"}

\* No column is told from another one.
Symmetry == Permutations(Column)

Shape1(type, key, spatial, null, default) ==
  [type |-> type, key |-> key, spatial |-> spatial, null |-> null, default |-> default]

Entry(name, fields, condition) == [name |-> name, fields |-> fields, condition |-> condition]

\* Fields with keys.
KeyShape ==
  {Shape1("string", "none", FALSE, TRUE, "none"),
   Shape1("string", "index", FALSE, FALSE, "implied"),
   Shape1("string", "unique", FALSE, TRUE, "given"),
   Shape1("int", "unique", FALSE, FALSE, "given")}

\* Fields with spatial indexes.
SpatialShape ==
  {Shape1("string", "index", FALSE, TRUE, "none"),
   Shape1("point", "none", FALSE, FALSE, "none"),
   Shape1("point", "none", TRUE, FALSE, "given"),
   Shape1("point", "index", TRUE, FALSE, "none"),
   Shape1("place", "none", FALSE, FALSE, "none")}

\* One project uses the keys, the second one renames its collection and uses
\* spatial indexes.  In the third one Meta names single fields that have keys, and
\* the fields of *_together.
Keys ==
  [table |-> {"t"}, shape |-> KeyShape, together |-> {<<"f", "g">>},
   meta |-> {Entry("m", <<"g", "f">>, FALSE)}]

Maps ==
  [table |-> {"t", "u"}, shape |-> SpatialShape, together |-> {}, meta |-> {}]

Entries ==
  [table |-> {"t"},
   shape |-> {Shape1("string", "none", FALSE, FALSE, "none"),
              Shape1("string", "index", FALSE, FALSE, "none"),
              Shape1("string", "unique", FALSE, FALSE, "none")},
   together |-> {<<"f", "g">>},
   meta |-> {Entry("s", <<"f">>, TRUE), Entry("p", <<"f", "g">>, TRUE)}]

MCProjects == {Keys, Maps, Entries}
=============================================================================
