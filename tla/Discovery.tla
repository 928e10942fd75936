----------------------------- MODULE Discovery ------------------------------
(***************************************************************************)
(* What a run finds out of the bucket before it loads a snapshot: the      *)
(* tables (discover_catalog), the position of the dump and the data files  *)
(* of each table, in this order, while the dump may still be being         *)
(* written.  SnapshotSync is what the run does with the rows, and takes    *)
(* the outcome of this for granted.                                        *)
(*                                                                         *)
(* The dump tool writes its files in any order, and metadata last.         *)
(***************************************************************************)
EXTENDS ObjectStore

CONSTANTS
  Stems,         \* what the names of a table's files begin with
  SourceOf,      \* the source table a stem stands for, if it has a dot
  NoSource,      \* SourceOf a stem that has none
  CreateTable,   \* what the CREATE TABLE of each stem says
  DataFiles,     \* how many data files the dump of each stem has
  Dumps,         \* the sets of stems a dump may have
  Filters,       \* the values of table_filter, sequences of rules
  Workspaces,    \* where the workspace may be
  Foreign        \* objects of the bucket that are none of the dump

(* columns: the columns; inline: those with a PRIMARY KEY of their own;    *)
(* keys: the PRIMARY KEY clauses; named: the table the statement names is  *)
(* the one of the file.                                                    *)
Definition(C) ==
  [columns : SUBSET C, inline : SUBSET C, keys : Seq(SUBSET C), named : BOOLEAN]

Rule == [exclude : BOOLEAN, matches : SUBSET Stems]

Dir(text)      == [text |-> text, kind |-> "dir", n |-> 0]
SchemaFile(s)  == [text |-> s, kind |-> "-schema.sql", n |-> 0]
CreateFile     == [text |-> "db", kind |-> "-schema-create.sql", n |-> 0]
DataFile(s, n) == [text |-> s, kind |-> ".csv", n |-> n]
Metadata       == [text |-> "metadata", kind |-> "", n |-> 0]

SnapshotPrefix == <<Dir("snapshot")>>
Key(name)      == Append(SnapshotPrefix, name)

(* A stem may not begin with another and a dot: the dump tool escapes dots *)
(* in names.  A workspace is a directory and is not called snapshot, and   *)
(* nothing in it is in a directory called like itself: ObjectKey would     *)
(* take keys for complete ones.  The directory of the dump has nothing but *)
(* the dump, and no file next to it begins like it, IsSchema would take it *)
(* for one of the dump.                                                    *)
ASSUME DiscoveryAssumption ==
  /\ DOMAIN SourceOf = Stems /\ DOMAIN CreateTable = Stems
  /\ DataFiles \in [Stems -> Nat]
  /\ Dumps \subseteq SUBSET Stems
  /\ \A f \in Filters : f \in Seq(Rule)
  /\ \A key \in Workspaces \cup Foreign : key \in Seq(Range(key))
  /\ \A w \in Workspaces : w # SnapshotPrefix /\ \A i \in DOMAIN w : w[i].kind = "dir"
  /\ \A w \in Workspaces, key \in Foreign :
       /\ ~IsStrictPrefix(w \o SnapshotPrefix, key)
       /\ w # <<>> => ~IsPrefix(w \o w, key)
       /\ Len(key) = Len(w) + 1 /\ IsPrefix(w, key) => <<Last(key).text, "snapshot">> \notin BeginsWith

VARIABLES
  dump,      \* the tables of the dump, by their stems
  filter,    \* table_filter
  pc,        \* "idle", "discover", "position" or "files"
  todo,      \* keys the loop of discover_catalog has not reached
  found,     \* the stems of the tables in the catalog
  files,     \* the data files found for each table looked at so far
  listed     \* the bucket as it was when discover_catalog listed it

bucketVars == <<store, workspace, objects, dump, filter>>
runVars == <<pc, todo, found, files, listed>>
vars == <<bucketVars, runVars>>

DumpFiles ==
  {CreateFile} \cup {SchemaFile(s) : s \in dump}
    \cup UNION {{DataFile(s, n) : n \in 1 .. DataFiles[s]} : s \in dump}

Below(name) == workspace \o Key(name)

TypeOk ==
  /\ objects \subseteq Foreign \cup {Below(x) : x \in DumpFiles \cup {Metadata}}
  /\ pc \in {"idle", "discover", "position", "files"}
  /\ found \subseteq dump
  /\ DOMAIN files \subseteq found
  /\ listed \subseteq objects

Init ==
  /\ store \in {"local", "s3"}
  /\ workspace \in Workspaces
  /\ objects = Foreign
  /\ dump \in Dumps
  /\ filter \in Filters
  /\ pc = "idle"
  /\ todo = {}
  /\ found = {}
  /\ files = [s \in {} |-> {}]
  /\ listed = {}

WriteFile(name) ==
  /\ Below(name) \notin objects
  /\ objects' = objects \cup {Below(name)}
  /\ UNCHANGED <<store, workspace, dump, filter, runVars>>

WriteMetadata ==
  /\ \A x \in DumpFiles : Below(x) \in objects
  /\ WriteFile(Metadata)

-----------------------------------------------------------------------------
EndRun ==
  /\ pc' = "idle"
  /\ todo' = {}
  /\ found' = {}
  /\ files' = [s \in {} |-> {}]
  /\ listed' = {}
  /\ UNCHANGED bucketVars

List ==
  /\ pc = "idle"
  /\ todo' = ListKeys(SnapshotPrefix)
  /\ listed' = objects
  /\ pc' = "discover"
  /\ UNCHANGED <<bucketVars, found, files>>

(* What is left of a key without the directory of the dump.                *)
Relative(key) == IF IsStrictPrefix(SnapshotPrefix, key) THEN Tail(key) ELSE key

(* The directory of a schema file is not looked at.                        *)
Fault_IsSchema(key) == Last(key).kind = "-schema.sql" /\ SourceOf[Last(key).text] # NoSource

(* A schema file that is in no directory of its own, of a stem with a dot. *)
IsSchema(key) ==
  /\ Len(Relative(key)) = 1
  /\ Last(key).kind = "-schema.sql"
  /\ SourceOf[Last(key).text] # NoSource

(* The last rule that matches decides.                                     *)
Fault_Selected(s) ==
  LET hits == {i \in DOMAIN filter : s \in filter[i].matches}
  IN IF hits = {} THEN \A i \in DOMAIN filter : filter[i].exclude
     ELSE ~filter[CHOOSE i \in hits : \A j \in hits : j <= i].exclude

(* table_matches_filter: the rules are gone through in turn, the first     *)
(* exclusion that matches ends it.                                         *)
Selected(s) ==
  LET noPositive == \A i \in DOMAIN filter : filter[i].exclude
      after[i \in 0 .. Len(filter)] ==
        IF i = 0 THEN (IF noPositive THEN "matched" ELSE "unmatched")
        ELSE LET rule == filter[i]
             IN IF after[i - 1] = "excluded" \/ s \notin rule.matches THEN after[i - 1]
                ELSE IF rule.exclude THEN "excluded" ELSE "matched"
  IN after[Len(filter)] = "matched"

(* A PRIMARY KEY clause counts, whatever the columns say of themselves.    *)
PrimaryKey(s) ==
  LET create == CreateTable[s]
  IN IF create.keys = <<>> THEN create.inline ELSE Last(create.keys)

Malformed(s) ==
  LET create == CreateTable[s]
  IN ~create.named \/ create.columns = {} \/ ~(PrimaryKey(s) \subseteq create.columns)

Duplicate(s) == \E x \in found : SourceOf[x] = SourceOf[s]

Wanted(key) == IsSchema(key) /\ Selected(Last(key).text)

(* A key that is no schema file, or of a table not selected, or of one     *)
(* without a primary key.                                                  *)
PassOver(key) ==
  /\ pc = "discover" /\ key \in todo
  /\ Wanted(key) => LET s == Last(key).text IN ~Malformed(s) /\ PrimaryKey(s) = {}
  /\ todo' = todo \ {key}
  /\ UNCHANGED <<bucketVars, pc, found, files, listed>>

AddTable(key) ==
  LET s == Last(key).text
  IN /\ pc = "discover" /\ key \in todo /\ Wanted(key)
     /\ ~Malformed(s) /\ PrimaryKey(s) # {} /\ ~Duplicate(s)
     /\ found' = found \cup {s}
     /\ todo' = todo \ {key}
     /\ UNCHANGED <<bucketVars, pc, files, listed>>

(* ManifestError: a malformed statement, or two files for one table.       *)
Refuse(key) ==
  LET s == Last(key).text
  IN /\ pc = "discover" /\ key \in todo /\ Wanted(key)
     /\ Malformed(s) \/ (PrimaryKey(s) # {} /\ Duplicate(s))
     /\ EndRun

(* ManifestError: no tables.                                               *)
NoTables == pc = "discover" /\ todo = {} /\ found = {} /\ EndRun

Discovered ==
  /\ pc = "discover" /\ todo = {} /\ found # {}
  /\ pc' = "position"
  /\ UNCHANGED <<bucketVars, todo, found, files, listed>>

-----------------------------------------------------------------------------
(* The position is read when the dump is still being written.              *)
Fault_HasPosition == PrefixExists(SnapshotPrefix)

HasPosition == PrefixExists(SnapshotPrefix) /\ Exists(Key(Metadata))

ReadPosition ==
  /\ pc = "position"
  /\ HasPosition
  /\ pc' = "files"
  /\ UNCHANGED <<bucketVars, todo, found, files, listed>>

NoPosition == pc = "position" /\ ~HasPosition /\ EndRun

FilesOf(s) ==
  {key \in ListKeys(SnapshotPrefix) :
     /\ Len(key) = 2 /\ key[1] = Dir("snapshot") /\ key[2].kind = ".csv"
     /\ key[2].text = s}

ListFiles(s) ==
  /\ pc = "files"
  /\ s \in found \ DOMAIN files
  /\ files' = [x \in DOMAIN files \cup {s} |-> IF x = s THEN FilesOf(s) ELSE files[x]]
  /\ UNCHANGED <<bucketVars, pc, todo, found, listed>>

FinishRun == pc = "files" /\ DOMAIN files = found /\ EndRun

Next ==
  \/ \E x \in DumpFiles : WriteFile(x)
  \/ WriteMetadata
  \/ List
  \/ \E key \in todo : PassOver(key) \/ AddTable(key) \/ Refuse(key)
  \/ NoTables
  \/ Discovered
  \/ ReadPosition
  \/ NoPosition
  \/ \E s \in found : ListFiles(s)
  \/ FinishRun

Spec == Init /\ [][Next]_vars

-----------------------------------------------------------------------------
(***************************************************************************)
(* Properties.                                                             *)
(***************************************************************************)
(* What the rules mean: some rule selects the table, or none selects any,  *)
(* and no rule excludes it.                                                *)
ShouldSelect(s) ==
  LET positive == {i \in DOMAIN filter : ~filter[i].exclude}
      negative == DOMAIN filter \ positive
  IN /\ positive = {} \/ \E i \in positive : s \in filter[i].matches
     /\ \A i \in negative : s \notin filter[i].matches

(* The catalog a run goes on with has the tables of the dump that the      *)
(* filter selects, that have a primary key and whose schema file was there *)
(* when the run began: from either store, and whatever else is in the      *)
(* bucket or is being written meanwhile.                                   *)
CatalogIsExact ==
  pc \in {"position", "files"} =>
    found = {s \in dump : /\ SourceOf[s] # NoSource
                          /\ ShouldSelect(s)
                          /\ PrimaryKey(s) # {}
                          /\ Below(SchemaFile(s)) \in listed}

(* A table is loaded from all of its own data files, though the run may    *)
(* have begun while they were being written: a table without files is an   *)
(* empty table, and may be marked done.                                    *)
FilesAreComplete ==
  \A s \in DOMAIN files : files[s] = {Key(DataFile(s, n)) : n \in 1 .. DataFiles[s]}

(* A key that was listed opens the object it was listed for.               *)
ListedIsReadable ==
  \A key \in todo \cup UNION {files[s] : s \in DOMAIN files} :
    Exists(key)
=============================================================================
