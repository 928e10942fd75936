--------------------------- MODULE MCSnapshotSync ---------------------------
(* Constants of the model-checked instances of SnapshotSync.               *)
EXTENDS SnapshotFeed

ThreeTables == {"a", "b", "empty"}

(* Several files, an empty file, and a table without files.                *)
SomeFiles == [t \in Tables |-> CASE t = "a" -> <<3, 0, 2>>
                                 [] t = "b" -> <<2>>
                                 [] OTHER -> <<>>]
=============================================================================
