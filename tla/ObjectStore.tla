---------------------------- MODULE ObjectStore -----------------------------
(***************************************************************************)
(* storage/object_store.py: a workspace in a local directory, or below a   *)
(* prefix of an S3 bucket that it may share with other workspaces.         *)
(*                                                                         *)
(* A key is the sequence of the names between its slashes, a name being a  *)
(* record with its text.  S3 knows nothing of slashes: what it is asked    *)
(* for is a prefix of the text of a key, so the last name of a prefix also *)
(* matches every name that begins like it.                                 *)
(***************************************************************************)
EXTENDS Integers, Sequences, FiniteSets, SequencesExt

CONSTANT BeginsWith    \* pairs of texts: the first is the second and more

VARIABLES
  store,        \* "local" or "s3"
  workspace,    \* the key of the workspace in the bucket, <<>>: the bucket itself
  objects       \* the keys of the objects in the bucket

-----------------------------------------------------------------------------
(* The operators named Fault_... are plausible mistakes in the definition  *)
(* that follows them; no specification uses them.                          *)

(* The text of prefix is one of key's text.                                *)
Matches(key, prefix) ==
  LET n == Len(prefix)
  IN \/ n = 0
     \/ /\ Len(key) >= n
        /\ IsPrefix(Front(prefix), key)
        /\ key[n] = prefix[n] \/ <<key[n].text, prefix[n].text>> \in BeginsWith

(* A key that already begins with the workspace is left alone.             *)
ObjectKey(key) == IF IsPrefix(workspace, key) THEN key ELSE workspace \o key

StripWorkspace(key) ==
  IF IsPrefix(workspace, key) THEN SubSeq(key, Len(workspace) + 1, Len(key)) ELSE key

(* A local store is given the directory of the workspace.                  *)
LocalFiles == {StripWorkspace(key) : key \in {k \in objects : IsStrictPrefix(workspace, k)}}

Local(prefix) == {key \in LocalFiles : IsPrefix(prefix, key)}

(* The prefix is not put below the workspace.                              *)
Fault_S3(prefix) == {StripWorkspace(key) : key \in {k \in objects : Matches(k, prefix)}}

S3(prefix) == {StripWorkspace(key) : key \in {k \in objects : Matches(k, ObjectKey(prefix))}}

ListKeys(prefix) == (IF store = "local" THEN Local(prefix) ELSE S3(prefix)) \ {<<>>}

PrefixExists(prefix) == (IF store = "local" THEN Local(prefix) ELSE S3(prefix)) # {}

Exists(key) == IF store = "local" THEN key \in LocalFiles ELSE ObjectKey(key) \in objects
=============================================================================
