---------------------------- MODULE MCDiscovery -----------------------------
(* Constants of the model-checked instances of Discovery.                  *)
EXTENDS Discovery

(* Two tables, one called like the other and more; one without a key; a    *)
(* second stem of the first table; a statement that names another table;   *)
(* a name without a dot.                                                   *)
SomeStems == {"db.a", "db.ab", "db.log", "db.%61", "db.odd", "db"}

SomeSources == [s \in Stems |-> CASE s = "db" -> NoSource [] s = "db.%61" -> "db.a" [] OTHER -> s]

SomeCreates ==
  [s \in Stems |->
     [columns |-> {"id", "v"},
      inline  |-> IF s = "db.a" THEN {"id"} ELSE {},
      keys    |-> IF s \in {"db.ab", "db.%61"} THEN << {"id", "v"} >> ELSE <<>>,
      named   |-> s # "db.odd"]]

SomeFiles == [s \in Stems |-> CASE s = "db.a" -> 2 [] s = "db.ab" -> 1 [] OTHER -> 0]

SomeDumps == {{"db.a", "db.ab", "db.log"}, {"db.a", "db.%61", "db"}, {"db.a", "db.odd"}}

Take(S) == [exclude |-> FALSE, matches |-> S]
Drop(S) == [exclude |-> TRUE, matches |-> S]

SomeFilters ==
  {<<>>, <<Take(Stems), Drop({"db.ab"})>>, <<Drop({"db.a"}), Take({"db.a", "db.ab"})>>,
   <<Drop({"db.a", "db.%61", "db.odd"})>>}

(* A workspace below a directory called snapshot is not called snapshot.   *)
SomeWorkspaces == {<<>>, <<Dir("task1")>>, <<Dir("snapshot"), Dir("task1")>>}

Likeness == {<<"db.ab", "db.a">>, <<"snapshot-old", "snapshot">>, <<"task10", "task1">>}

(* Another workspace, an older dump kept aside, and the same at the top of *)
(* the bucket.                                                             *)
Others ==
  {<<Dir("task10"), Dir("snapshot"), SchemaFile("db.ab")>>,
   <<Dir("task1"), Dir("snapshot-old"), SchemaFile("db.ab")>>,
   <<Dir("snapshot-old"), DataFile("db.a", 3)>>,
   <<Dir("snapshot-old"), SchemaFile("db.ab")>>}
=============================================================================
