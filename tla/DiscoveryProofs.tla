-------------------------- MODULE DiscoveryProofs ---------------------------
(* Proofs about Discovery: whatever the bucket holds and whenever a run    *)
(* looks at it, the catalog and the files of the tables are those of the   *)
(* dump.                                                                   *)
EXTENDS Discovery, SequenceTheorems, WellFoundedInduction, TLAPS

(* The names in the keys of the bucket.                                    *)
Name ==
  {Dir("snapshot"), CreateFile, Metadata} \cup {SchemaFile(s) : s \in Stems}
    \cup (UNION {Range(key) : key \in Workspaces \cup Foreign})
    \cup UNION {{DataFile(s, n) : n \in Nat} : s \in Stems}

(* Every key is a sequence of them.                                        *)
LEMMA KeyTypes ==
  /\ Workspaces \subseteq Seq(Name) /\ Foreign \subseteq Seq(Name)
  /\ Dir("snapshot") \in Name /\ CreateFile \in Name /\ Metadata \in Name
  /\ \A s \in Stems : SchemaFile(s) \in Name
  /\ \A s \in Stems, n \in Nat : DataFile(s, n) \in Name
<1>1. ASSUME NEW key \in Workspaces \cup Foreign PROVE key \in Seq(Name)
  <2>1. key \in Seq(Range(key))
    BY DiscoveryAssumption
  <2>2. Range(key) \subseteq Name
    BY DEF Name
  <2>3. QED
    BY <2>1, <2>2, SeqMonotonic
<1>2. Workspaces \subseteq Seq(Name) /\ Foreign \subseteq Seq(Name)
  BY <1>1
<1>3. {Dir("snapshot"), CreateFile, Metadata} \subseteq Name
  BY DEF Name
<1>4. /\ {SchemaFile(s) : s \in Stems} \subseteq Name
      /\ UNION {{DataFile(s, n) : n \in Nat} : s \in Stems} \subseteq Name
  BY DEF Name
<1>5. QED
  BY <1>2, <1>3, <1>4

-----------------------------------------------------------------------------
(* A workspace and what is below it.                                       *)
LEMMA Joined ==
  ASSUME NEW S, NEW w \in Seq(S), NEW x \in Seq(S)
  PROVE  /\ w \o x \in Seq(S) /\ Len(w \o x) = Len(w) + Len(x)
         /\ IsPrefix(w, w \o x)
         /\ SubSeq(w \o x, Len(w) + 1, Len(w \o x)) = x
         /\ IsStrictPrefix(w, w \o x) <=> x # <<>>
<1>1. /\ w \o x \in Seq(S) /\ Len(w \o x) = Len(w) + Len(x)
      /\ Len(w) \in Nat /\ Len(x) \in Nat
      /\ \A i \in 1 .. Len(w) + Len(x) : (w \o x)[i] = IF i <= Len(w) THEN w[i] ELSE x[i - Len(w)]
  BY ConcatProperties, LenProperties
<1>2. SubSeq(w \o x, 1, Len(w)) = SubSeq(w, 1, Len(w))
  BY <1>1
<1>3. SubSeq(w \o x, Len(w) + 1, Len(w \o x)) = x
  BY <1>1
<1>4. w = w \o x <=> x = <<>>
  BY ConcatEqualIffEmpty
<1>5. QED
  BY <1>1, <1>2, <1>3, <1>4 DEF IsPrefix, IsStrictPrefix

(* A key below a workspace is the workspace and the rest of the key.       *)
LEMMA Divided ==
  ASSUME NEW S, NEW w \in Seq(S), NEW k \in Seq(S), IsPrefix(w, k)
  PROVE  \E x \in Seq(S) : k = w \o x /\ SubSeq(k, Len(w) + 1, Len(k)) = x
<1> DEFINE x == SubSeq(k, Len(w) + 1, Len(k))
<1>1. Len(w) \in Nat /\ Len(k) \in Nat /\ Len(w) <= Len(k) /\ SubSeq(w, 1, Len(w)) = SubSeq(k, 1, Len(w))
  BY LenProperties DEF IsPrefix
<1>2. SubSeq(w, 1, Len(w)) = w /\ SubSeq(k, 1, Len(k)) = k
  BY SubSeqFull
<1>3. SubSeq(k, 1, Len(w)) \o x = SubSeq(k, 1, Len(k))
  <2>1. 1 \in 1 .. Len(k) + 1 /\ Len(w) \in 1 - 1 .. Len(k) /\ Len(k) \in Len(w) .. Len(k)
    BY <1>1
  <2>2. QED
    BY <2>1, ConcatAdjacentSubSeq
<1>4. x \in Seq(S)
  <2>1. \A i \in Len(w) + 1 .. Len(k) : k[i] \in S
    BY <1>1, ElementOfSeq
  <2>2. QED
    BY <1>1, <2>1, SubSeqProperties
<1>5. QED
  BY <1>1, <1>2, <1>3, <1>4
-----------------------------------------------------------------------------
(* The bucket: the foreign objects, and of the dump what has been written. *)
BucketOk ==
  /\ store \in {"local", "s3"}
  /\ workspace \in Workspaces
  /\ dump \in Dumps
  /\ filter \in Filters
  /\ Foreign \subseteq objects
  /\ objects \subseteq Foreign \cup {Below(x) : x \in DumpFiles \cup {Metadata}}

(* The key of a file of the dump.                                          *)
LEMMA KeyFacts ==
  ASSUME NEW x
  PROVE  /\ Key(x) = <<Dir("snapshot"), x>> /\ Len(Key(x)) = 2
         /\ Key(x)[1] = Dir("snapshot") /\ Key(x)[2] = x /\ Last(Key(x)) = x
         /\ Tail(Key(x)) = <<x>> /\ Key(x) # <<>>
         /\ IsStrictPrefix(SnapshotPrefix, Key(x))
<1> DEFINE d == Dir("snapshot")
           S == {d, x}
<1> HIDE DEF d
<1>1. Key(x) = <<d, x>>
  <2>1. <<d>> \in Seq(S) /\ <<d, x>> \in Seq(S) /\ x \in S
    OBVIOUS
  <2>2. Append(<<d>>, x) \in Seq(S) /\ Len(Append(<<d>>, x)) = 2
    BY <2>1
  <2>3. Append(<<d>>, x)[1] = d /\ Append(<<d>>, x)[2] = x
    BY <2>1
  <2>4. Append(<<d>>, x) = <<d, x>>
    <3>1. Len(<<d, x>>) = 2 /\ <<d, x>>[1] = d /\ <<d, x>>[2] = x
      OBVIOUS
    <3>2. \A i \in 1 .. 2 : Append(<<d>>, x)[i] = <<d, x>>[i]
      BY <2>3, <3>1
    <3>3. QED
      BY <2>1, <2>2, <3>1, <3>2, SeqEqual
  <2>5. QED
    BY <2>4 DEF Key, SnapshotPrefix, d
<1>2. /\ Len(Key(x)) = 2 /\ Key(x)[1] = d /\ Key(x)[2] = x
      /\ Tail(Key(x)) = <<x>> /\ Key(x) # <<>>
  BY <1>1
<1>3. Last(Key(x)) = x
  BY <1>2 DEF Last
<1>4. SubSeq(<<d>>, 1, 1) = SubSeq(<<d, x>>, 1, 1) /\ Len(<<d>>) = 1 /\ Len(<<d, x>>) = 2 /\ <<d>> # <<d, x>>
  OBVIOUS
<1>5. IsStrictPrefix(SnapshotPrefix, Key(x))
  BY <1>1, <1>4 DEF IsStrictPrefix, IsPrefix, SnapshotPrefix, d
<1>6. QED
  BY <1>1, <1>2, <1>3, <1>5 DEF d

(* The names of the files of the dump are names of the bucket.             *)
LEMMA NamesBelow ==
  ASSUME workspace \in Workspaces, dump \in Dumps, NEW x \in DumpFiles \cup {Metadata}
  PROVE  /\ x \in Name /\ Key(x) \in Seq(Name) /\ workspace \in Seq(Name)
         /\ SnapshotPrefix \in Seq(Name)
         /\ Below(x) = workspace \o Key(x) /\ Below(x) \in Seq(Name)
<1>1. dump \subseteq Stems /\ DataFiles \in [Stems -> Nat]
  BY DiscoveryAssumption
<1>2. x \in Name
  <2>1. CASE \E s \in dump : x = SchemaFile(s)
    BY <1>1, <2>1, KeyTypes
  <2>2. CASE x \in {CreateFile, Metadata}
    BY <2>2, KeyTypes
  <2>3. ASSUME NEW s \in dump, NEW n \in 1 .. DataFiles[s], x = DataFile(s, n) PROVE x \in Name
    <3>1. s \in Stems /\ n \in Nat
      BY <1>1
    <3>2. QED
      BY <2>3, <3>1, KeyTypes
  <2>4. QED
    BY <2>1, <2>2, <2>3 DEF DumpFiles
<1>3. Key(x) \in Seq(Name) /\ SnapshotPrefix \in Seq(Name)
  BY <1>2, KeyTypes DEF Key, SnapshotPrefix
<1>4. workspace \in Seq(Name)
  BY KeyTypes
<1>5. Below(x) = workspace \o Key(x) /\ Below(x) \in Seq(Name)
  BY <1>3, <1>4, ConcatProperties DEF Below
<1>6. QED
  BY <1>2, <1>3, <1>4, <1>5

(* The same of the bucket as it is in a run.                               *)
LEMMA DumpTypes ==
  ASSUME BucketOk, NEW x \in DumpFiles \cup {Metadata}
  PROVE  /\ x \in Name /\ Key(x) \in Seq(Name) /\ workspace \in Seq(Name)
         /\ SnapshotPrefix \in Seq(Name)
         /\ Below(x) = workspace \o Key(x) /\ Below(x) \in Seq(Name)
BY NamesBelow DEF BucketOk

(* The same without a file.                                                *)
LEMMA PrefixTypes ==
  ASSUME BucketOk
  PROVE  /\ workspace \in Seq(Name) /\ SnapshotPrefix \in Seq(Name) /\ objects \subseteq Seq(Name)
         /\ SnapshotPrefix # <<>> /\ Len(SnapshotPrefix) = 1 /\ SnapshotPrefix[1] = Dir("snapshot")
<1>1. objects \subseteq Seq(Name)
  BY KeyTypes, DumpTypes DEF BucketOk
<1>2. workspace \in Seq(Name) /\ SnapshotPrefix \in Seq(Name)
  BY DumpTypes
<1>3. QED
  BY <1>1, <1>2 DEF SnapshotPrefix

(* The lengths of a workspace that is part of a key of one or two names.   *)
LEMMA Lengths ==
  ASSUME NEW a \in Nat \ {0}, NEW b \in Nat
  PROVE  (a + b = 1 => a = 1) /\ (a + b = 2 => a = 1 \/ a = 2)
OBVIOUS

(* The key of the directory of the dump, and the key of a file in it, do   *)
(* not begin with the workspace.                                           *)
LEMMA NotBelowWorkspace ==
  ASSUME BucketOk, workspace # <<>>
  PROVE  /\ ~IsPrefix(workspace, SnapshotPrefix)
         /\ \A x \in DumpFiles \cup {Metadata} : ~IsPrefix(workspace, Key(x))
<1>1. /\ workspace \in Seq(Name) /\ workspace # SnapshotPrefix
      /\ \A i \in 1 .. Len(workspace) : workspace[i].kind = "dir"
  <2>1. workspace \in Seq(Name) /\ workspace \in Workspaces
    BY PrefixTypes DEF BucketOk
  <2>2. QED
    BY <2>1, DiscoveryAssumption, LenProperties
<1>2. Len(workspace) \in Nat \ {0}
  BY <1>1, EmptySeq, LenProperties
<1>3. /\ SnapshotPrefix \in Seq(Name) /\ Len(SnapshotPrefix) = 1
      /\ SnapshotPrefix[1] = Dir("snapshot")
  BY PrefixTypes
<1>4. ~(Len(workspace) = 1 /\ workspace[1] = Dir("snapshot"))
  <2> SUFFICES ASSUME Len(workspace) = 1, workspace[1] = Dir("snapshot") PROVE FALSE
    OBVIOUS
  <2>1. \A i \in 1 .. 1 : workspace[i] = SnapshotPrefix[i]
    BY <1>3
  <2>2. QED
    BY <1>1, <1>3, <2>1, SeqEqual
<1>5. ASSUME IsPrefix(workspace, SnapshotPrefix) PROVE FALSE
  <2>1. PICK y \in Seq(Name) : SnapshotPrefix = workspace \o y
    BY <1>1, <1>3, <1>5, Divided
  <2>2. Len(y) \in Nat /\ Len(workspace) + Len(y) = 1 /\ (workspace \o y)[1] = workspace[1]
    BY <1>1, <1>2, <1>3, <2>1, ConcatProperties, LenProperties
  <2>3. Len(workspace) = 1
    BY <1>2, <2>2, Lengths, Zenon
  <2>4. workspace[1] = Dir("snapshot")
    BY <1>3, <2>1, <2>2, Zenon
  <2>5. QED
    BY <1>4, <2>3, <2>4
<1>6. ASSUME NEW x \in DumpFiles \cup {Metadata}, IsPrefix(workspace, Key(x)) PROVE FALSE
  <2>1. /\ Key(x) \in Seq(Name) /\ Len(Key(x)) = 2
        /\ Key(x)[1] = Dir("snapshot") /\ Key(x)[2] = x
    BY DumpTypes, KeyFacts
  <2>2. PICK y \in Seq(Name) : Key(x) = workspace \o y
    BY <1>1, <1>6, <2>1, Divided
  <2>3. /\ Len(y) \in Nat /\ Len(workspace) + Len(y) = 2
        /\ \A i \in 1 .. Len(workspace) : (workspace \o y)[i] = workspace[i]
    BY <1>1, <1>2, <2>1, <2>2, ConcatProperties, LenProperties
  <2>4. workspace[1] = Dir("snapshot")
    BY <1>2, <2>1, <2>2, <2>3
  <2>5. workspace[2] = x /\ 2 \in 1 .. Len(workspace)
    <3>1. Len(workspace) = 2
      BY <1>2, <1>4, <2>3, <2>4, Lengths, Zenon
    <3>2. 2 \in 1 .. Len(workspace)
      BY <3>1
    <3>3. (workspace \o y)[2] = workspace[2]
      BY <2>3, <3>2, Zenon
    <3>4. QED
      BY <2>1, <2>2, <3>2, <3>3, Zenon
  <2>6. x.kind # "dir"
    <3>1. CASE x \in {CreateFile, Metadata}
      <4>1. CreateFile.kind # "dir"
        BY DEF CreateFile
      <4>2. Metadata.kind # "dir"
        BY DEF Metadata
      <4>3. QED
        BY <3>1, <4>1, <4>2
    <3>2. ASSUME NEW s \in dump, x = SchemaFile(s) PROVE x.kind # "dir"
      BY <3>2 DEF SchemaFile
    <3>3. ASSUME NEW s \in dump, NEW n \in 1 .. DataFiles[s], x = DataFile(s, n) PROVE x.kind # "dir"
      BY <3>3 DEF DataFile
    <3>4. QED
      BY <3>1, <3>2, <3>3 DEF DumpFiles
  <2>7. QED
    BY <1>1, <2>5, <2>6
<1>7. QED
  BY <1>5, <1>6

(* The prefix is put below the workspace.                                  *)
LEMMA PrefixKey ==
  ASSUME BucketOk
  PROVE  ObjectKey(SnapshotPrefix) = workspace \o SnapshotPrefix
<1>1. CASE workspace = <<>>
  <2>1. workspace \o SnapshotPrefix = SnapshotPrefix
    BY <1>1, PrefixTypes, ConcatEmptySeq
  <2>2. QED
    BY <2>1 DEF ObjectKey
<1>2. CASE workspace # <<>>
  BY <1>2, NotBelowWorkspace DEF ObjectKey
<1>3. QED
  BY <1>1, <1>2

-----------------------------------------------------------------------------
(* What is left of a key of the workspace.                                 *)
LEMMA Stripped ==
  ASSUME BucketOk
  PROVE  /\ \A k \in Seq(Name) : IsPrefix(workspace, k) =>
              StripWorkspace(k) \in Seq(Name) /\ k = workspace \o StripWorkspace(k)
         /\ \A x \in Seq(Name) : StripWorkspace(workspace \o x) = x
<1>1. ASSUME NEW k \in Seq(Name), IsPrefix(workspace, k)
      PROVE  StripWorkspace(k) \in Seq(Name) /\ k = workspace \o StripWorkspace(k)
  <2>1. PICK x \in Seq(Name) : k = workspace \o x /\ SubSeq(k, Len(workspace) + 1, Len(k)) = x
    <3>1. workspace \in Seq(Name)
      BY PrefixTypes
    <3>2. QED
      BY <1>1, <3>1, Divided
  <2>2. StripWorkspace(k) = x
    BY <1>1, <2>1 DEF StripWorkspace
  <2>3. QED
    BY <2>1, <2>2
<1>2. ASSUME NEW x \in Seq(Name) PROVE StripWorkspace(workspace \o x) = x
  BY PrefixTypes, Joined DEF StripWorkspace
<1>3. QED
  BY <1>1, <1>2

(* What Exists says of a key.                                              *)
LEMMA ExistsBelow ==
  ASSUME BucketOk, NEW x \in Seq(Name), x # <<>>
  PROVE  /\ store = "local" => (Exists(x) <=> workspace \o x \in objects)
         /\ store # "local" /\ ~IsPrefix(workspace, x) => (Exists(x) <=> workspace \o x \in objects)
         /\ workspace = <<>> => (Exists(x) <=> workspace \o x \in objects)
<1>1. workspace \in Seq(Name) /\ objects \subseteq Seq(Name)
  BY PrefixTypes
<1>2. x \in LocalFiles <=> workspace \o x \in objects
  <2>1. ASSUME x \in LocalFiles PROVE workspace \o x \in objects
    <3>1. PICK k \in objects : IsStrictPrefix(workspace, k) /\ x = StripWorkspace(k)
      BY <2>1 DEF LocalFiles
    <3>2. k = workspace \o x
      BY <1>1, <3>1, Stripped DEF IsStrictPrefix
    <3>3. QED
      BY <3>1, <3>2
  <2>2. ASSUME workspace \o x \in objects PROVE x \in LocalFiles
    <3>1. IsStrictPrefix(workspace, workspace \o x)
      BY <1>1, Joined
    <3>2. StripWorkspace(workspace \o x) = x
      BY Stripped
    <3>3. QED
      BY <2>2, <3>1, <3>2 DEF LocalFiles
  <2>3. QED
    BY <2>1, <2>2
<1>3. store = "local" => (Exists(x) <=> workspace \o x \in objects)
  BY <1>2 DEF Exists
<1>4. store # "local" /\ ~IsPrefix(workspace, x) => (Exists(x) <=> workspace \o x \in objects)
  BY DEF Exists, ObjectKey
<1>5. workspace = <<>> => ObjectKey(x) = x /\ workspace \o x = x
  BY ConcatEmptySeq DEF ObjectKey
<1>6. workspace = <<>> => (Exists(x) <=> workspace \o x \in objects)
  BY <1>2, <1>5 DEF Exists
<1>7. QED
  BY <1>3, <1>4, <1>6

(* What is asked for of S3 when the directory of the dump is listed.       *)
LEMMA PrefixFacts ==
  ASSUME BucketOk
  PROVE  LET p == workspace \o SnapshotPrefix
             n == Len(workspace) + 1
         IN /\ p \in Seq(Name) /\ Len(p) = n /\ Len(workspace) \in Nat
            /\ p[n] = Dir("snapshot") /\ Front(p) = workspace
<1> DEFINE p == workspace \o SnapshotPrefix
           n == Len(workspace) + 1
<1>1. /\ workspace \in Seq(Name) /\ SnapshotPrefix \in Seq(Name)
      /\ Len(SnapshotPrefix) = 1 /\ SnapshotPrefix[1] = Dir("snapshot")
  BY PrefixTypes
<1>2. p \in Seq(Name) /\ Len(p) = Len(workspace) + Len(SnapshotPrefix)
  <2>1. workspace \in Seq(Name) /\ SnapshotPrefix \in Seq(Name)
    BY <1>1
  <2> HIDE DEF n
  <2>2. QED
    BY <2>1, Joined
<1>3. Len(workspace) \in Nat
  BY <1>1, LenProperties
<1>4. n \in 1 .. Len(workspace) + Len(SnapshotPrefix) /\ ~(n <= Len(workspace)) /\ n - Len(workspace) = 1
  BY <1>1, <1>3
<1>5. p[n] = SnapshotPrefix[n - Len(workspace)]
  BY <1>1, <1>4, ConcatProperties
<1>6. IsPrefix(workspace, p)
  BY <1>1, Joined
<1>7. SubSeq(p, 1, Len(workspace)) = workspace
  BY <1>1, <1>6, SubSeqFull DEF IsPrefix
<1> HIDE DEF p
<1>8. Len(p) = n
  BY <1>1, <1>2
<1>9. Front(p) = workspace
  <2>1. Len(p) - 1 = Len(workspace)
    BY <1>3, <1>8
  <2>2. QED
    BY <1>7, <2>1 DEF Front
<1>10. QED
  BY <1>1, <1>2, <1>3, <1>4, <1>5, <1>8, <1>9 DEF p

(* A key that is listed is one of an object of the workspace, below the    *)
(* prefix, or, on S3, in a place whose name begins like it.                *)
LEMMA Listed ==
  ASSUME BucketOk, NEW key \in ListKeys(SnapshotPrefix)
  PROVE  /\ key \in Seq(Name) /\ key # <<>> /\ workspace \o key \in objects
         /\ key[1] = Dir("snapshot") \/ <<key[1].text, "snapshot">> \in BeginsWith
<1>1. /\ workspace \in Seq(Name) /\ objects \subseteq Seq(Name) /\ SnapshotPrefix \in Seq(Name)
      /\ Len(SnapshotPrefix) = 1 /\ SnapshotPrefix[1] = Dir("snapshot")
  BY PrefixTypes
<1>2. key # <<>> /\ (store = "local" => key \in Local(SnapshotPrefix))
      /\ (store # "local" => key \in S3(SnapshotPrefix))
  BY DEF ListKeys
<1>3. CASE store = "local"
  <2>1. PICK k \in objects : IsStrictPrefix(workspace, k) /\ key = StripWorkspace(k)
    BY <1>2, <1>3 DEF Local, LocalFiles
  <2>2. key \in Seq(Name) /\ k = workspace \o key
    BY <1>1, <2>1, Stripped DEF IsStrictPrefix
  <2>3. IsPrefix(SnapshotPrefix, key)
    BY <1>2, <1>3 DEF Local
  <2>4. key[1] = Dir("snapshot")
    <3>1. Len(SnapshotPrefix) <= Len(key) /\ SubSeq(SnapshotPrefix, 1, 1) = SubSeq(key, 1, 1)
      BY <1>1, <2>3 DEF IsPrefix
    <3>2. SubSeq(SnapshotPrefix, 1, 1)[1] = SnapshotPrefix[1] /\ SubSeq(key, 1, 1)[1] = key[1]
      BY <1>1, <2>2, <3>1
    <3>3. QED
      BY <1>1, <3>1, <3>2
  <2>5. QED
    BY <1>2, <2>1, <2>2, <2>4
<1>4. CASE store # "local"
  <2> DEFINE p == workspace \o SnapshotPrefix
             n == Len(workspace) + 1
  <2>1. PICK k \in objects : Matches(k, p) /\ key = StripWorkspace(k)
    BY <1>2, <1>4, PrefixKey DEF S3
  <2>2. /\ p \in Seq(Name) /\ Len(p) = n /\ Len(workspace) \in Nat
        /\ p[n] = Dir("snapshot") /\ Front(p) = workspace
    BY PrefixFacts
  <2> HIDE DEF p
  <2>3. /\ Len(k) >= n /\ IsPrefix(workspace, k)
        /\ k[n] = Dir("snapshot") \/ <<k[n].text, Dir("snapshot").text>> \in BeginsWith
    BY <2>1, <2>2 DEF Matches
  <2>4. key \in Seq(Name) /\ k = workspace \o key
    BY <1>1, <2>1, <2>3, Stripped
  <2>5. key[1] = k[n]
    <3>1. Len(k) = Len(workspace) + Len(key) /\ Len(key) \in Nat
      BY <1>1, <2>4, ConcatProperties, LenProperties
    <3>2. n \in 1 .. Len(workspace) + Len(key) /\ ~(n <= Len(workspace)) /\ n - Len(workspace) = 1
      BY <2>2, <2>3, <3>1
    <3>3. (workspace \o key)[n] = key[n - Len(workspace)]
      BY <1>1, <2>4, <3>2, ConcatProperties
    <3>4. QED
      BY <2>4, <3>2, <3>3
  <2>6. Dir("snapshot").text = "snapshot"
    BY DEF Dir
  <2>7. QED
    BY <1>2, <2>1, <2>3, <2>4, <2>5, <2>6
<1>5. QED
  BY <1>3, <1>4

(* A listed key in the directory of the dump is one of the dump.           *)
LEMMA ListedInDump ==
  ASSUME BucketOk, NEW key \in ListKeys(SnapshotPrefix), Len(key) >= 2, key[1] = Dir("snapshot")
  PROVE  \E x \in DumpFiles \cup {Metadata} : key = Key(x) /\ Below(x) \in objects
<1>1. /\ workspace \in Seq(Name) /\ SnapshotPrefix \in Seq(Name) /\ workspace \in Workspaces
      /\ Len(SnapshotPrefix) = 1 /\ SnapshotPrefix[1] = Dir("snapshot")
      /\ objects \subseteq Foreign \cup {Below(x) : x \in DumpFiles \cup {Metadata}}
  BY PrefixTypes DEF BucketOk
<1>2. key \in Seq(Name) /\ workspace \o key \in objects
  BY Listed
<1>3. workspace \o key \notin Foreign
  <2>1. IsPrefix(SnapshotPrefix, key)
    <3>1. /\ SubSeq(SnapshotPrefix, 1, 1) \in Seq(Name) /\ Len(SubSeq(SnapshotPrefix, 1, 1)) = 1
          /\ SubSeq(SnapshotPrefix, 1, 1)[1] = SnapshotPrefix[1]
      <4>1. SnapshotPrefix \in Seq(Name) /\ Len(SnapshotPrefix) \in Nat /\ Len(SnapshotPrefix) >= 1
        BY <1>1
      <4>2. QED
        BY <4>1
    <3>2. Len(key) \in Nat
      BY <1>2, LenProperties
    <3>3. /\ SubSeq(key, 1, 1) \in Seq(Name) /\ Len(SubSeq(key, 1, 1)) = 1
          /\ SubSeq(key, 1, 1)[1] = key[1]
      BY <1>2, <3>2
    <3>4. \A i \in 1 .. 1 : SubSeq(SnapshotPrefix, 1, 1)[i] = SubSeq(key, 1, 1)[i]
      BY <1>1, <3>1, <3>3
    <3>5. SubSeq(SnapshotPrefix, 1, 1) = SubSeq(key, 1, 1)
      BY <3>1, <3>3, <3>4, SeqEqual
    <3>6. QED
      BY <1>1, <3>2, <3>5 DEF IsPrefix
  <2>2. PICK y \in Seq(Name) : key = SnapshotPrefix \o y
    BY <1>1, <1>2, <2>1, Divided
  <2>3. y # <<>>
    <3>1. SnapshotPrefix \o <<>> = SnapshotPrefix
      BY <1>1, ConcatEmptySeq
    <3>2. SUFFICES ASSUME y = <<>> PROVE FALSE
      OBVIOUS
    <3>3. Len(key) = 1
      BY <1>1, <2>2, <3>1, <3>2
    <3>4. ~(1 >= 2)
      OBVIOUS
    <3>5. QED
      BY <3>3, <3>4
  <2>4. workspace \o key = (workspace \o SnapshotPrefix) \o y
    <3>1. workspace \in Seq(Name) /\ SnapshotPrefix \in Seq(Name)
      BY <1>1
    <3>2. (workspace \o SnapshotPrefix) \o y = workspace \o (SnapshotPrefix \o y)
      BY <3>1, ConcatAssociative
    <3>3. QED
      BY <2>2, <3>2
  <2>5. workspace \o SnapshotPrefix \in Seq(Name)
    BY <1>1, Joined
  <2>6. IsStrictPrefix(workspace \o SnapshotPrefix, (workspace \o SnapshotPrefix) \o y)
    BY <2>3, <2>5, Joined
  <2>7. QED
    BY <1>1, <2>4, <2>6, DiscoveryAssumption
<1>4. PICK x \in DumpFiles \cup {Metadata} : workspace \o key = Below(x)
  BY <1>1, <1>2, <1>3
<1>5. Below(x) = workspace \o Key(x) /\ Key(x) \in Seq(Name)
  BY DumpTypes
<1>6. key = Key(x)
  BY <1>1, <1>2, <1>4, <1>5, ConcatSimplifications
<1>7. QED
  BY <1>2, <1>4, <1>6

(* The files of the dump that have been written are listed, and are there. *)
LEMMA DumpListed ==
  ASSUME BucketOk, NEW x \in DumpFiles \cup {Metadata}
  PROVE  /\ Below(x) \in objects => Key(x) \in ListKeys(SnapshotPrefix)
         /\ Exists(Key(x)) <=> Below(x) \in objects
<1>1. /\ workspace \in Seq(Name) /\ SnapshotPrefix \in Seq(Name) /\ workspace \in Workspaces
      /\ Key(x) \in Seq(Name) /\ Below(x) = workspace \o Key(x) /\ Below(x) \in Seq(Name)
  BY DumpTypes DEF BucketOk
<1>2. Key(x) # <<>> /\ IsPrefix(SnapshotPrefix, Key(x)) /\ Key(x)[1] = Dir("snapshot")
      /\ Len(Key(x)) = 2
  BY KeyFacts DEF IsStrictPrefix
<1>3. IsPrefix(workspace, Below(x)) /\ IsStrictPrefix(workspace, Below(x))
  BY <1>1, <1>2, Joined
<1>4. StripWorkspace(Below(x)) = Key(x)
  BY <1>1, Stripped
<1>5. workspace # <<>> => ~IsPrefix(workspace, Key(x))
  BY NotBelowWorkspace
<1>6. ASSUME Below(x) \in objects PROVE Key(x) \in ListKeys(SnapshotPrefix)
  <2>1. CASE store = "local"
    BY <1>2, <1>3, <1>4, <1>6, <2>1 DEF ListKeys, Local, LocalFiles
  <2>2. CASE store # "local"
    <3> DEFINE p == workspace \o SnapshotPrefix
               n == Len(workspace) + 1
    <3>1. /\ Len(workspace) \in Nat /\ p \in Seq(Name) /\ Len(p) = n
          /\ p[n] = Dir("snapshot") /\ Front(p) = workspace
      BY PrefixFacts
    <3>2. Len(Below(x)) >= n /\ Below(x)[n] = Dir("snapshot")
      <4>1. Len(Below(x)) = Len(workspace) + Len(Key(x))
        BY <1>1, Joined
      <4>2. n \in 1 .. Len(workspace) + Len(Key(x)) /\ ~(n <= Len(workspace)) /\ n - Len(workspace) = 1
        BY <1>2, <3>1
      <4>3. (workspace \o Key(x))[n] = Key(x)[n - Len(workspace)]
        BY <1>1, <4>2, ConcatProperties
      <4>4. QED
        BY <1>1, <1>2, <3>1, <4>1, <4>2, <4>3
    <3> HIDE DEF p
    <3>3. Matches(Below(x), p)
      BY <1>3, <3>1, <3>2 DEF Matches
    <3>4. Key(x) \in S3(SnapshotPrefix)
      BY <1>4, <1>6, <3>3, PrefixKey DEF S3, p
    <3>5. QED
      BY <1>2, <2>2, <3>4 DEF ListKeys
  <2>3. QED
    BY <2>1, <2>2
<1>7. Exists(Key(x)) <=> Below(x) \in objects
  BY <1>1, <1>2, <1>5, ExistsBelow
<1>8. QED
  BY <1>6, <1>7

-----------------------------------------------------------------------------
(* The names of the dump's files tell what they are.                       *)
LEMMA NameFacts ==
  ASSUME NEW x \in DumpFiles \cup {Metadata}
  PROVE  /\ x.kind = "-schema.sql" => \E s \in dump : x = SchemaFile(s)
         /\ x.kind = ".csv" => \E s \in dump : \E n \in 1 .. DataFiles[s] : x = DataFile(s, n)
<1>1. CASE \E s \in dump : x = SchemaFile(s)
  BY <1>1 DEF SchemaFile
<1>2. CASE x \in {CreateFile, Metadata}
  <2>1. CreateFile.kind # "-schema.sql" /\ CreateFile.kind # ".csv"
    BY DEF CreateFile
  <2>2. Metadata.kind # "-schema.sql" /\ Metadata.kind # ".csv"
    BY DEF Metadata
  <2>3. QED
    BY <1>2, <2>1, <2>2
<1>3. ASSUME NEW s \in dump, NEW n \in 1 .. DataFiles[s], x = DataFile(s, n)
      PROVE  /\ x.kind # "-schema.sql"
             /\ \E r \in dump : \E m \in 1 .. DataFiles[r] : x = DataFile(r, m)
  BY <1>3 DEF DataFile
<1>4. QED
  BY <1>1, <1>2, <1>3 DEF DumpFiles

(* The key of a schema file is recognised, if its stem has a dot.          *)
LEMMA SchemaKey ==
  ASSUME NEW s
  PROVE  /\ Last(Key(SchemaFile(s))).text = s
         /\ IsSchema(Key(SchemaFile(s))) <=> SourceOf[s] # NoSource
<1> DEFINE x == SchemaFile(s)
<1>1. x.text = s /\ x.kind = "-schema.sql"
  BY DEF SchemaFile
<1> HIDE DEF x
<1>2. Last(Key(x)) = x /\ Tail(Key(x)) = <<x>> /\ IsStrictPrefix(SnapshotPrefix, Key(x))
  BY KeyFacts
<1>3. Len(Relative(Key(x))) = 1
  BY <1>2 DEF Relative
<1>4. QED
  BY <1>1, <1>2, <1>3 DEF IsSchema, x

(* No other listed key is.                                                 *)
LEMMA SchemaListed ==
  ASSUME BucketOk, NEW key \in ListKeys(SnapshotPrefix), IsSchema(key)
  PROVE  \E s \in dump : key = Key(SchemaFile(s)) /\ Below(SchemaFile(s)) \in objects
<1>1. /\ key \in Seq(Name) /\ key # <<>> /\ workspace \o key \in objects
      /\ key[1] = Dir("snapshot") \/ <<key[1].text, "snapshot">> \in BeginsWith
  BY Listed
<1>2. Len(key) \in Nat \ {0} /\ workspace \in Seq(Name) /\ Len(workspace) \in Nat /\ workspace \in Workspaces
  BY <1>1, PrefixTypes, EmptySeq, LenProperties DEF BucketOk
<1>3. Len(Relative(key)) = 1 /\ Last(key).kind = "-schema.sql"
  BY DEF IsSchema
<1>4. CASE Len(key) = 1
  <2>1. Last(key) = key[1]
    BY <1>4 DEF Last
  <2>2. <<key[1].text, "snapshot">> \in BeginsWith
    BY <1>1, <1>3, <2>1 DEF Dir
  <2> DEFINE k == workspace \o key
  <2>3. k \in Seq(Name) /\ Len(k) = Len(workspace) + 1 /\ IsPrefix(workspace, k)
    <3>1. workspace \in Seq(Name) /\ key \in Seq(Name)
      BY <1>1, <1>2
    <3>2. k \in Seq(Name) /\ Len(k) = Len(workspace) + Len(key) /\ IsPrefix(workspace, k)
      BY <3>1, Joined
    <3>3. QED
      BY <1>4, <3>2
  <2>4. Last(k) = key[1]
    <3>1. Len(workspace) + 1 \in 1 .. Len(workspace) + Len(key) /\ ~(Len(workspace) + 1 <= Len(workspace))
          /\ Len(workspace) + 1 - Len(workspace) = 1
      BY <1>2
    <3>2. (workspace \o key)[Len(workspace) + 1] = key[Len(workspace) + 1 - Len(workspace)]
      BY <1>1, <1>2, <3>1, ConcatProperties
    <3>3. QED
      BY <2>3, <3>1, <3>2 DEF Last
  <2>5. k \notin Foreign
    BY <1>2, <2>2, <2>3, <2>4, DiscoveryAssumption
  <2>6. PICK x \in DumpFiles \cup {Metadata} : k = Below(x)
    BY <1>1, <2>5 DEF BucketOk
  <2>7. Below(x) = workspace \o Key(x) /\ Key(x) \in Seq(Name)
    BY DumpTypes
  <2>8. key = Key(x)
    BY <1>1, <1>2, <2>6, <2>7, ConcatSimplifications
  <2>9. QED
    BY <1>4, <2>8, KeyFacts
<1>5. CASE Len(key) # 1
  <2>1. IsStrictPrefix(SnapshotPrefix, key)
    BY <1>3, <1>5 DEF Relative
  <2>2. key[1] = Dir("snapshot") /\ Len(key) >= 2
    <3>1. PICK y \in Seq(Name) : key = SnapshotPrefix \o y
      <4>1. SnapshotPrefix \in Seq(Name) /\ IsPrefix(SnapshotPrefix, key)
        BY <2>1, PrefixTypes DEF IsStrictPrefix
      <4>2. QED
        BY <1>1, <4>1, Divided
    <3>2. Len(key) = Len(SnapshotPrefix) + Len(y) /\ Len(y) \in Nat
      <4>1. Len(y) \in Nat
        BY LenProperties
      <4>2. SnapshotPrefix \in Seq(Name)
        BY PrefixTypes
      <4>3. Len(SnapshotPrefix \o y) = Len(SnapshotPrefix) + Len(y)
        BY <4>2, ConcatProperties
      <4>4. QED
        BY <3>1, <4>1, <4>3
    <3>3. (SnapshotPrefix \o y)[1] = SnapshotPrefix[1]
      BY <3>1, <3>2, PrefixTypes, ConcatProperties
    <3>4. QED
      BY <1>2, <1>5, <3>1, <3>3, PrefixTypes
  <2>3. PICK x \in DumpFiles \cup {Metadata} : key = Key(x) /\ Below(x) \in objects
    BY <2>2, ListedInDump
  <2>4. x.kind = "-schema.sql"
    BY <1>3, <2>3, KeyFacts
  <2>5. QED
    BY <2>3, <2>4, NameFacts
<1>6. QED
  BY <1>4, <1>5

(* A key that is listed opens the object it was listed for.                *)
LEMMA ListedExists ==
  ASSUME BucketOk, NEW key \in ListKeys(SnapshotPrefix)
  PROVE  Exists(key)
<1>1. /\ key \in Seq(Name) /\ key # <<>> /\ workspace \o key \in objects
      /\ workspace \in Seq(Name) /\ workspace \in Workspaces
  BY Listed, PrefixTypes DEF BucketOk
<1>2. CASE store = "local" \/ ~IsPrefix(workspace, key) \/ workspace = <<>>
  BY <1>1, <1>2, ExistsBelow
<1>3. CASE workspace # <<>> /\ IsPrefix(workspace, key)
  <2>1. PICK y \in Seq(Name) : key = workspace \o y
    BY <1>1, <1>3, Divided
  <2>2. workspace \o key = (workspace \o workspace) \o y /\ workspace \o workspace \in Seq(Name)
    <3>1. workspace \in Seq(Name)
      BY <1>1
    <3>2. (workspace \o workspace) \o y = workspace \o (workspace \o y)
      BY <3>1, ConcatAssociative
    <3>3. workspace \o workspace \in Seq(Name)
      BY <3>1, Joined
    <3>4. QED
      BY <2>1, <3>2, <3>3
  <2>3. IsPrefix(workspace \o workspace, (workspace \o workspace) \o y)
    BY <2>2, Joined
  <2>4. workspace \o key \notin Foreign
    BY <1>1, <1>3, <2>2, <2>3, DiscoveryAssumption
  <2>5. PICK x \in DumpFiles \cup {Metadata} : workspace \o key = Below(x)
    BY <1>1, <2>4 DEF BucketOk
  <2>6. Below(x) = workspace \o Key(x) /\ Key(x) \in Seq(Name)
    BY DumpTypes
  <2>7. key = Key(x)
    BY <1>1, <2>5, <2>6, ConcatSimplifications
  <2>8. QED
    BY <1>1, <2>5, <2>7, DumpListed
<1>4. QED
  BY <1>2, <1>3

(* Once the whole dump is there the files of a table are all listed.       *)
LEMMA FilesFound ==
  ASSUME BucketOk, NEW s \in dump, \A x \in DumpFiles : Below(x) \in objects
  PROVE  FilesOf(s) = {Key(DataFile(s, n)) : n \in 1 .. DataFiles[s]}
<1>1. ASSUME NEW key \in FilesOf(s) PROVE \E n \in 1 .. DataFiles[s] : key = Key(DataFile(s, n))
  <2>1. /\ key \in ListKeys(SnapshotPrefix) /\ Len(key) = 2 /\ key[1] = Dir("snapshot")
        /\ key[2].kind = ".csv" /\ key[2].text = s
    BY <1>1 DEF FilesOf
  <2>2. PICK x \in DumpFiles \cup {Metadata} : key = Key(x)
    <3>1. Len(key) >= 2
      BY <2>1
    <3>2. QED
      BY <2>1, <3>1, ListedInDump
  <2>3. x.kind = ".csv" /\ x.text = s
    BY <2>1, <2>2, KeyFacts
  <2>4. PICK r \in dump : \E n \in 1 .. DataFiles[r] : x = DataFile(r, n)
    BY <2>3, NameFacts
  <2>5. r = s
    BY <2>3, <2>4 DEF DataFile
  <2>6. QED
    BY <2>2, <2>4, <2>5
<1>2. ASSUME NEW n \in 1 .. DataFiles[s] PROVE Key(DataFile(s, n)) \in FilesOf(s)
  <2> DEFINE x == DataFile(s, n)
  <2>1. x \in DumpFiles /\ x.kind = ".csv" /\ x.text = s
    BY DEF DumpFiles, DataFile
  <2> HIDE DEF x
  <2>2. Key(x) \in ListKeys(SnapshotPrefix)
    BY <2>1, DumpListed
  <2>3. Len(Key(x)) = 2 /\ Key(x)[1] = Dir("snapshot") /\ Key(x)[2] = x
    BY KeyFacts
  <2>4. QED
    BY <2>1, <2>2, <2>3 DEF FilesOf, x
<1>3. QED
  BY <1>1, <1>2

-----------------------------------------------------------------------------
(* The filter.  What the rules say after the first i of them, from what    *)
(* they said after one less.                                               *)
Said(f, s, i) ==
  IF i = 0 THEN (IF \A j \in DOMAIN filter : filter[j].exclude THEN "matched" ELSE "unmatched")
  ELSE LET rule == filter[i]
       IN IF f[i - 1] = "excluded" \/ s \notin rule.matches THEN f[i - 1]
          ELSE IF rule.exclude THEN "excluded" ELSE "matched"

(* The same in one go.                                                     *)
Saying(s) ==
  [i \in 0 .. Len(filter) |->
     IF \E j \in 1 .. i : filter[j].exclude /\ s \in filter[j].matches THEN "excluded"
     ELSE IF \/ \A j \in DOMAIN filter : filter[j].exclude
             \/ \E j \in 1 .. i : ~filter[j].exclude /\ s \in filter[j].matches
          THEN "matched" ELSE "unmatched"]

(* A number and the one below it, among the rules.                         *)
LEMMA RuleNumbers ==
  ASSUME filter \in Seq(Rule), NEW i \in 0 .. Len(filter), i # 0
  PROVE  /\ i - 1 \in 0 .. Len(filter) /\ i \in DOMAIN filter
         /\ \A j : j \in 1 .. i <=> (j \in 1 .. (i - 1) \/ j = i)
<1>1. Len(filter) \in Nat /\ DOMAIN filter = 1 .. Len(filter)
  BY LenProperties
<1>2. QED
  BY <1>1

(* Saying goes through the rules like table_matches_filter.                *)
LEMMA SayingStep ==
  ASSUME filter \in Seq(Rule), NEW s, NEW i \in 0 .. Len(filter)
  PROVE  Saying(s)[i] = Said(Saying(s), s, i)
<1> DEFINE g == Saying(s)
           none == \A j \in DOMAIN filter : filter[j].exclude
<1>1. \A k \in 0 .. Len(filter) :
         g[k] = IF \E j \in 1 .. k : filter[j].exclude /\ s \in filter[j].matches THEN "excluded"
                ELSE IF none \/ \E j \in 1 .. k : ~filter[j].exclude /\ s \in filter[j].matches
                     THEN "matched" ELSE "unmatched"
  BY DEF Saying
<1> HIDE DEF g
<1>2. CASE i = 0
  <2>1. \A j : j \notin 1 .. i
    BY <1>2
  <2>2. g[i] = IF none THEN "matched" ELSE "unmatched"
    BY <1>1, <2>1
  <2>3. QED
    BY <1>2, <2>2 DEF Said, g
<1>3. CASE i # 0
  <2>1. i - 1 \in 0 .. Len(filter) /\ (\A j : j \in 1 .. i <=> (j \in 1 .. (i - 1) \/ j = i))
    BY <1>3, RuleNumbers
  <2> DEFINE p == i - 1
             excl(k) == \E j \in 1 .. k : filter[j].exclude /\ s \in filter[j].matches
             hit(k) == \E j \in 1 .. k : ~filter[j].exclude /\ s \in filter[j].matches
  <2>2. /\ excl(i) <=> excl(p) \/ (filter[i].exclude /\ s \in filter[i].matches)
        /\ hit(i) <=> hit(p) \/ (~filter[i].exclude /\ s \in filter[i].matches)
    BY <2>1
  <2>3. /\ g[i] = IF excl(i) THEN "excluded" ELSE IF none \/ hit(i) THEN "matched" ELSE "unmatched"
        /\ g[p] = IF excl(p) THEN "excluded" ELSE IF none \/ hit(p) THEN "matched" ELSE "unmatched"
    BY <1>1, <2>1
  <2>4. none /\ i \in DOMAIN filter => filter[i].exclude
    OBVIOUS
  <2> HIDE DEF excl, hit, none
  <2>5. g[i] = IF g[p] = "excluded" \/ s \notin filter[i].matches THEN g[p]
               ELSE IF filter[i].exclude THEN "excluded" ELSE "matched"
    BY <2>2, <2>3
  <2>6. QED
    BY <1>3, <2>5 DEF Said, g
<1>4. QED
  BY <1>2, <1>3

(* Nothing else does.                                                      *)
LEMMA SayingUnique ==
  ASSUME filter \in Seq(Rule), NEW s, NEW f, f = [i \in 0 .. Len(filter) |-> Said(f, s, i)]
  PROVE  f = Saying(s)
<1> DEFINE g == Saying(s)
           W == {i \in 0 .. Len(filter) : f[i] # g[i]}
<1>1. \A i \in 0 .. Len(filter) : f[i] = Said(f, s, i) /\ g[i] = Said(g, s, i)
  <2>1. ASSUME NEW i \in 0 .. Len(filter) PROVE f[i] = Said(f, s, i)
    <3> DEFINE F == [k \in 0 .. Len(filter) |-> Said(f, s, k)]
    <3>1. F[i] = Said(f, s, i)
      OBVIOUS
    <3> HIDE DEF F
    <3>2. f = F
      BY DEF F
    <3>3. QED
      BY <3>1, <3>2
  <2>2. QED
    BY <2>1, SayingStep
<1>2. DOMAIN f = 0 .. Len(filter) /\ DOMAIN g = 0 .. Len(filter) /\ f = [i \in DOMAIN f |-> f[i]]
      /\ g = [i \in DOMAIN g |-> g[i]]
  BY DEF Saying
<1> HIDE DEF g
<1>3. W = {}
  <2> SUFFICES ASSUME W # {} PROVE FALSE
    OBVIOUS
  <2>1. W \in SUBSET Nat
    OBVIOUS
  <2>2. PICK m \in W : \A n \in W : ~(n < m)
    <3>1. PICK m \in W : \A n \in W : ~(<<n, m>> \in OpToRel(<, Nat))
      BY <2>1, NatLessThanWellFounded, WFMin
    <3>2. QED
      BY <2>1, <3>1 DEF OpToRel
  <2>3. m \in 0 .. Len(filter) /\ f[m] # g[m] /\ f[m] = Said(f, s, m) /\ g[m] = Said(g, s, m)
    BY <1>1
  <2>4. CASE m = 0
    BY <2>3, <2>4 DEF Said
  <2>5. CASE m # 0
    <3>1. m - 1 \in 0 .. Len(filter) /\ m - 1 < m
      BY <2>3, <2>5, RuleNumbers
    <3>2. f[m - 1] = g[m - 1]
      BY <2>2, <3>1
    <3>3. QED
      BY <2>3, <2>5, <3>2 DEF Said
  <2>6. QED
    BY <2>4, <2>5
<1>4. \A i \in 0 .. Len(filter) : f[i] = g[i]
  BY <1>3
<1>5. f = g
  BY <1>2, <1>4
<1>6. QED
  BY <1>5 DEF g

(* The order of the rules does not matter: a table is selected as the      *)
(* rules mean.                                                             *)
LEMMA SelectedIsMeant ==
  ASSUME filter \in Seq(Rule), NEW s
  PROVE  Selected(s) <=> ShouldSelect(s)
<1> DEFINE f == CHOOSE after : after = [i \in 0 .. Len(filter) |-> Said(after, s, i)]
           g == Saying(s)
<1>1. Selected(s) <=> f[Len(filter)] = "matched"
  BY DEF Selected, Said
<1>2. g = [i \in 0 .. Len(filter) |-> Said(g, s, i)]
  <2>1. g = [i \in 0 .. Len(filter) |-> g[i]]
    BY DEF Saying
  <2>2. \A i \in 0 .. Len(filter) : g[i] = Said(g, s, i)
    BY SayingStep
  <2> HIDE DEF g
  <2>3. QED
    BY <2>1, <2>2
<1>3. f = [i \in 0 .. Len(filter) |-> Said(f, s, i)]
  <2> HIDE DEF g
  <2>1. \E after : after = [i \in 0 .. Len(filter) |-> Said(after, s, i)]
    BY <1>2
  <2>2. QED
    BY <2>1
<1> HIDE DEF f
<1>4. f = g
  BY <1>3, SayingUnique
<1>5. Len(filter) \in Nat /\ DOMAIN filter = 1 .. Len(filter)
  BY LenProperties
<1>6. g[Len(filter)] = "matched" <=>
        /\ ~ \E j \in DOMAIN filter : filter[j].exclude /\ s \in filter[j].matches
        /\ \/ \A j \in DOMAIN filter : filter[j].exclude
           \/ \E j \in DOMAIN filter : ~filter[j].exclude /\ s \in filter[j].matches
  BY <1>5 DEF Saying
<1>7. QED
  BY <1>1, <1>4, <1>6 DEF ShouldSelect

-----------------------------------------------------------------------------
(* The files of the dump are none of the foreign objects, nor each other.  *)
LEMMA BelowFacts ==
  ASSUME workspace \in Workspaces, dump \in Dumps, NEW x \in DumpFiles \cup {Metadata}
  PROVE  /\ Below(x) \notin Foreign
         /\ \A y \in DumpFiles \cup {Metadata} : Below(x) = Below(y) => x = y
         /\ Metadata \notin DumpFiles
<1>1. \A y \in DumpFiles \cup {Metadata} :
         /\ y \in Name /\ Key(y) \in Seq(Name) /\ Below(y) = workspace \o Key(y)
         /\ workspace \in Seq(Name) /\ SnapshotPrefix \in Seq(Name)
  BY NamesBelow
<1>2. Below(x) \notin Foreign
  <2>1. PICK y \in Seq(Name) : Key(x) = SnapshotPrefix \o y
    <3>1. SnapshotPrefix \in Seq(Name) /\ Key(x) \in Seq(Name)
      BY <1>1
    <3>2. IsPrefix(SnapshotPrefix, Key(x))
      BY KeyFacts DEF IsStrictPrefix
    <3>3. QED
      BY <3>1, <3>2, Divided
  <2>2. y # <<>>
    <3>1. SnapshotPrefix \o <<>> = SnapshotPrefix
      BY <1>1, ConcatEmptySeq
    <3>2. QED
      BY <2>1, <3>1, KeyFacts DEF IsStrictPrefix
  <2>3. /\ workspace \o SnapshotPrefix \in Seq(Name)
        /\ workspace \o Key(x) = (workspace \o SnapshotPrefix) \o y
    <3>1. workspace \in Seq(Name) /\ SnapshotPrefix \in Seq(Name)
      BY <1>1
    <3>2. (workspace \o SnapshotPrefix) \o y = workspace \o (SnapshotPrefix \o y)
      BY <3>1, ConcatAssociative
    <3>3. workspace \o SnapshotPrefix \in Seq(Name)
      BY <3>1, Joined
    <3>4. QED
      BY <2>1, <3>2, <3>3
  <2>4. IsStrictPrefix(workspace \o SnapshotPrefix, (workspace \o SnapshotPrefix) \o y)
    BY <2>2, <2>3, Joined
  <2>5. QED
    BY <1>1, <2>3, <2>4, DiscoveryAssumption
<1>3. ASSUME NEW y \in DumpFiles \cup {Metadata}, Below(x) = Below(y) PROVE x = y
  <2>1. Key(x) = Key(y)
    BY <1>1, <1>3, ConcatSimplifications
  <2>2. Key(x)[2] = x /\ Key(y)[2] = y
    BY KeyFacts
  <2>3. QED
    BY <2>1, <2>2
<1>4. Metadata \notin DumpFiles
  <2>1. Metadata.kind = ""
    BY DEF Metadata
  <2>2. CreateFile.kind # ""
    BY DEF CreateFile
  <2>3. \A s, n : SchemaFile(s).kind # "" /\ DataFile(s, n).kind # ""
    BY DEF SchemaFile, DataFile
  <2>4. QED
    BY <2>1, <2>2, <2>3 DEF DumpFiles
<1>5. QED
  BY <1>2, <1>3, <1>4

-----------------------------------------------------------------------------
(* The tables the catalog of a run is to have.                             *)
Exact ==
  {s \in dump : /\ SourceOf[s] # NoSource
                /\ ShouldSelect(s)
                /\ PrimaryKey(s) # {}
                /\ Below(SchemaFile(s)) \in listed}

(* metadata is written when all the rest has been.                         *)
DumpOk ==
  Below(Metadata) \in objects \/ pc = "files" => \A x \in DumpFiles : Below(x) \in objects

(* The keys still to be looked at were listed, schema files of the dump    *)
(* when the listing began.                                                 *)
TodoOk ==
  /\ todo \subseteq ListKeys(SnapshotPrefix)
  /\ \A key \in todo : IsSchema(key) =>
       \E s \in dump : key = Key(SchemaFile(s)) /\ Below(SchemaFile(s)) \in listed
  /\ pc # "discover" => todo = {}

(* A table the catalog is to have is in it or its schema file is still to  *)
(* be looked at, and the catalog has no other.                             *)
FoundOk ==
  /\ found \subseteq Exact
  /\ pc = "idle" => found = {}
  /\ pc # "idle" => \A s \in Exact : s \in found \/ Key(SchemaFile(s)) \in todo

FilesOk ==
  /\ DOMAIN files \subseteq found
  /\ pc # "files" => DOMAIN files = {}
  /\ FilesAreComplete

Inv ==
  /\ BucketOk /\ DumpOk /\ TodoOk /\ FoundOk /\ FilesOk
  /\ pc \in {"idle", "discover", "position", "files"}
  /\ listed \subseteq objects

(* The invariant has what the runs check.                                  *)
LEMMA InvProperties ==
  ASSUME Inv
  PROVE  TypeOk /\ CatalogIsExact /\ FilesAreComplete /\ ListedIsReadable
<1>1. TypeOk
  BY DEF Inv, BucketOk, FoundOk, Exact, FilesOk, TypeOk
<1>2. CatalogIsExact
  <2> SUFFICES ASSUME pc \in {"position", "files"} PROVE found = Exact
    BY DEF CatalogIsExact, Exact
  <2>1. todo = {} /\ pc # "idle"
    BY DEF Inv, TodoOk
  <2>2. QED
    BY <2>1 DEF Inv, FoundOk
<1>3. FilesAreComplete
  BY DEF Inv, FilesOk
<1>4. ListedIsReadable
  <2>1. ASSUME NEW key \in todo PROVE Exists(key)
    <3>1. BucketOk /\ key \in ListKeys(SnapshotPrefix)
      BY DEF Inv, TodoOk
    <3>2. QED
      BY <3>1, ListedExists
  <2>2. ASSUME NEW s \in DOMAIN files, NEW key \in files[s] PROVE Exists(key)
    <3>1. BucketOk /\ s \in dump /\ pc = "files" /\ files[s] = {Key(DataFile(s, n)) : n \in 1 .. DataFiles[s]}
      BY DEF Inv, FilesOk, FoundOk, Exact, FilesAreComplete
    <3>2. PICK n \in 1 .. DataFiles[s] : key = Key(DataFile(s, n))
      BY <3>1
    <3>3. DataFile(s, n) \in DumpFiles
      BY <3>1 DEF DumpFiles
    <3>4. Below(DataFile(s, n)) \in objects
      BY <3>1, <3>3 DEF Inv, DumpOk
    <3>5. QED
      BY <3>1, <3>2, <3>3, <3>4, DumpListed
  <2>3. QED
    BY <2>1, <2>2 DEF ListedIsReadable
<1>5. QED
  BY <1>1, <1>2, <1>3, <1>4

(* A run begins with nothing known and none of the dump there.             *)
LEMMA InitInv == Init => Inv
<1> SUFFICES ASSUME Init PROVE Inv
  OBVIOUS
<1>1. BucketOk
  BY DEF Init, BucketOk
<1>2. DumpOk
  <2>1. Below(Metadata) \notin Foreign
    BY BelowFacts DEF Init
  <2>2. QED
    BY <2>1 DEF Init, DumpOk
<1>3. TodoOk
  BY DEF Init, TodoOk
<1>4. FoundOk
  BY DEF Init, FoundOk
<1>5. FilesOk
  <2>1. DOMAIN files = {}
    BY DEF Init
  <2>2. QED
    BY <2>1 DEF FilesOk, FilesAreComplete
<1>6. QED
  BY <1>1, <1>2, <1>3, <1>4, <1>5 DEF Init, Inv

-----------------------------------------------------------------------------
(* What does not touch the bucket leaves what depends on it alone.         *)
LEMMA SameBucket ==
  ASSUME UNCHANGED bucketVars
  PROVE  /\ BucketOk => BucketOk'
         /\ ListKeys(SnapshotPrefix)' = ListKeys(SnapshotPrefix)
         /\ DumpFiles' = DumpFiles /\ objects' = objects /\ dump' = dump /\ filter' = filter
         /\ workspace' = workspace
<1>1. store' = store /\ workspace' = workspace /\ objects' = objects /\ dump' = dump /\ filter' = filter
  BY DEF bucketVars
<1>2. DumpFiles' = DumpFiles
  BY <1>1 DEF DumpFiles
<1>3. BucketOk => BucketOk'
  BY <1>1, <1>2 DEF BucketOk, Below
<1>4. ListKeys(SnapshotPrefix)' = ListKeys(SnapshotPrefix)
  BY <1>1 DEF ListKeys, Local, LocalFiles, S3, StripWorkspace, ObjectKey
<1>5. QED
  BY <1>1, <1>2, <1>3, <1>4

(* Writing to the bucket takes nothing out of a listing.                   *)
LEMMA ListKeysGrow ==
  ASSUME store' = store, workspace' = workspace, objects \subseteq objects'
  PROVE  ListKeys(SnapshotPrefix) \subseteq ListKeys(SnapshotPrefix)'
BY DEF ListKeys, Local, LocalFiles, S3, StripWorkspace, ObjectKey

(* What the catalog of a run is to have changes with what was listed only. *)
LEMMA ExactSame ==
  ASSUME dump' = dump, filter' = filter, workspace' = workspace, listed' = listed
  PROVE  Exact' = Exact
BY DEF Exact, ShouldSelect, Below

(* The dump tool.                                                          *)
LEMMA WriteStep ==
  ASSUME Inv, NEW x \in DumpFiles \cup {Metadata}, WriteFile(x),
         x = Metadata => \A y \in DumpFiles : Below(y) \in objects
  PROVE  Inv'
<1>1. /\ Below(x) \notin objects /\ objects' = objects \cup {Below(x)}
      /\ store' = store /\ workspace' = workspace /\ dump' = dump /\ filter' = filter
      /\ pc' = pc /\ todo' = todo /\ found' = found /\ files' = files /\ listed' = listed
  BY DEF WriteFile, runVars
<1>2. DumpFiles' = DumpFiles /\ (\A y : Below(y)' = Below(y))
  BY <1>1 DEF DumpFiles, Below
<1>3. BucketOk'
  BY <1>1, <1>2 DEF Inv, BucketOk
<1>4. DumpOk'
  <2>1. workspace \in Workspaces /\ dump \in Dumps
    BY DEF Inv, BucketOk
  <2>2. Below(Metadata) = Below(x) => x = Metadata
    BY <2>1, BelowFacts
  <2>3. Below(Metadata) \in objects' \/ pc = "files" => \A y \in DumpFiles : Below(y) \in objects'
    BY <1>1, <2>2 DEF Inv, DumpOk
  <2>4. QED
    BY <1>1, <1>2, <2>3 DEF DumpOk
<1>5. TodoOk'
  <2>1. todo \subseteq ListKeys(SnapshotPrefix)'
    BY <1>1, ListKeysGrow DEF Inv, TodoOk
  <2>2. QED
    BY <1>1, <1>2, <2>1 DEF Inv, TodoOk
<1>6. FoundOk'
  BY <1>1, ExactSame DEF Inv, FoundOk
<1>7. FilesOk'
  BY <1>1 DEF Inv, FilesOk, FilesAreComplete
<1>8. QED
  BY <1>1, <1>3, <1>4, <1>5, <1>6, <1>7 DEF Inv

(* A run lists the bucket.                                                 *)
LEMMA ListStep ==
  ASSUME Inv, List
  PROVE  Inv'
<1>1. /\ pc = "idle" /\ todo' = ListKeys(SnapshotPrefix) /\ listed' = objects /\ pc' = "discover"
      /\ UNCHANGED bucketVars /\ found' = found /\ files' = files
  BY DEF List
<1>2. /\ BucketOk' /\ ListKeys(SnapshotPrefix)' = ListKeys(SnapshotPrefix)
      /\ DumpFiles' = DumpFiles /\ objects' = objects /\ dump' = dump /\ filter' = filter
      /\ workspace' = workspace
  BY <1>1, SameBucket DEF Inv
<1>3. (\A y : Below(y)' = Below(y))
  BY <1>2 DEF Below
<1>4. found = {} /\ DOMAIN files = {}
  BY <1>1 DEF Inv, FoundOk, FilesOk
<1>5. DumpOk'
  BY <1>1, <1>2, <1>3 DEF Inv, DumpOk
<1>6. TodoOk'
  <2>1. ASSUME NEW key \in todo', IsSchema(key)
        PROVE  \E s \in dump : key = Key(SchemaFile(s)) /\ Below(SchemaFile(s)) \in objects
    BY <1>1, <2>1, SchemaListed DEF Inv
  <2>2. QED
    BY <1>1, <1>2, <1>3, <2>1 DEF TodoOk
<1>7. FoundOk'
  <2>1. ASSUME NEW s \in Exact' PROVE Key(SchemaFile(s)) \in todo'
    <3>1. s \in dump /\ Below(SchemaFile(s)) \in objects
      BY <1>1, <1>2, <1>3, <2>1 DEF Exact
    <3>2. SchemaFile(s) \in DumpFiles
      BY <3>1 DEF DumpFiles
    <3>3. QED
      BY <1>1, <3>1, <3>2, DumpListed DEF Inv
  <2>2. QED
    BY <1>1, <1>4, <2>1 DEF FoundOk
<1>8. FilesOk'
  BY <1>1, <1>4 DEF FilesOk, FilesAreComplete
<1>9. QED
  BY <1>1, <1>2, <1>5, <1>6, <1>7, <1>8 DEF Inv

(* The rules of the filter are a sequence.                                 *)
LEMMA FilterType ==
  ASSUME BucketOk
  PROVE  filter \in Seq(Rule)
BY DiscoveryAssumption DEF BucketOk

(* The loop of discover_catalog passes a key over.                         *)
LEMMA PassOverStep ==
  ASSUME Inv, NEW key \in todo, PassOver(key)
  PROVE  Inv'
<1>1. /\ pc = "discover" /\ todo' = todo \ {key} /\ UNCHANGED bucketVars
      /\ pc' = pc /\ found' = found /\ files' = files /\ listed' = listed
      /\ Wanted(key) => PrimaryKey(Last(key).text) = {}
  BY DEF PassOver
<1>2. /\ BucketOk' /\ ListKeys(SnapshotPrefix)' = ListKeys(SnapshotPrefix)
      /\ DumpFiles' = DumpFiles /\ objects' = objects /\ dump' = dump /\ filter' = filter
      /\ workspace' = workspace
  BY <1>1, SameBucket DEF Inv
<1>3. (\A y : Below(y)' = Below(y)) /\ Exact' = Exact
  BY <1>1, <1>2, ExactSame DEF Below
<1>4. DumpOk' /\ FilesOk'
  BY <1>1, <1>2, <1>3 DEF Inv, DumpOk, FilesOk, FilesAreComplete
<1>5. TodoOk'
  BY <1>1, <1>2, <1>3 DEF Inv, TodoOk
<1>6. FoundOk'
  <2>1. ASSUME NEW s \in Exact PROVE s \in found \/ Key(SchemaFile(s)) \in todo \ {key}
    <3>1. s \in found \/ Key(SchemaFile(s)) \in todo
      BY <1>1 DEF Inv, FoundOk
    <3>2. CASE key = Key(SchemaFile(s))
      <4>1. IsSchema(key) /\ Last(key).text = s /\ PrimaryKey(s) # {} /\ ShouldSelect(s)
        BY <3>2, SchemaKey DEF Exact
      <4>2. Selected(s)
        BY <4>1, SelectedIsMeant, FilterType DEF Inv
      <4>3. QED
        BY <1>1, <4>1, <4>2 DEF Wanted
    <3>3. QED
      BY <3>1, <3>2
  <2>2. QED
    BY <1>1, <1>3, <2>1 DEF Inv, FoundOk
<1>7. QED
  BY <1>1, <1>2, <1>4, <1>5, <1>6 DEF Inv

(* It adds a table.                                                        *)
LEMMA AddTableStep ==
  ASSUME Inv, NEW key \in todo, AddTable(key)
  PROVE  Inv'
<1> DEFINE s == Last(key).text
<1>1. /\ pc = "discover" /\ todo' = todo \ {key} /\ UNCHANGED bucketVars
      /\ pc' = pc /\ found' = found \cup {s} /\ files' = files /\ listed' = listed
      /\ Wanted(key) /\ PrimaryKey(s) # {}
  BY DEF AddTable
<1>2. /\ BucketOk' /\ ListKeys(SnapshotPrefix)' = ListKeys(SnapshotPrefix)
      /\ DumpFiles' = DumpFiles /\ objects' = objects /\ dump' = dump /\ filter' = filter
      /\ workspace' = workspace
  BY <1>1, SameBucket DEF Inv
<1>3. (\A y : Below(y)' = Below(y)) /\ Exact' = Exact
  BY <1>1, <1>2, ExactSame DEF Below
<1>4. PICK r \in dump : key = Key(SchemaFile(r)) /\ Below(SchemaFile(r)) \in listed
  BY <1>1 DEF Wanted, Inv, TodoOk
<1>5. s = r /\ SourceOf[r] # NoSource
  BY <1>1, <1>4, SchemaKey DEF Wanted
<1>6. s \in Exact
  <2>1. Selected(s)
    BY <1>1 DEF Wanted
  <2>2. ShouldSelect(s)
    BY <2>1, SelectedIsMeant, FilterType DEF Inv
  <2>3. QED
    BY <1>1, <1>4, <1>5, <2>2 DEF Exact
<1> HIDE DEF s
<1>7. DumpOk' /\ FilesOk'
  BY <1>1, <1>2, <1>3 DEF Inv, DumpOk, FilesOk, FilesAreComplete
<1>8. TodoOk'
  BY <1>1, <1>2, <1>3 DEF Inv, TodoOk
<1>9. FoundOk'
  <2>1. ASSUME NEW x \in Exact PROVE x \in found \cup {s} \/ Key(SchemaFile(x)) \in todo \ {key}
    <3>1. x \in found \/ Key(SchemaFile(x)) \in todo
      BY <1>1 DEF Inv, FoundOk
    <3>2. key = Key(SchemaFile(x)) => Last(key).text = x
      BY SchemaKey
    <3>3. QED
      BY <3>1, <3>2 DEF s
  <2>2. QED
    BY <1>1, <1>3, <1>6, <2>1 DEF Inv, FoundOk
<1>10. QED
  BY <1>1, <1>2, <1>7, <1>8, <1>9 DEF Inv

(* A run ends, or fails.                                                   *)
LEMMA EndStep ==
  ASSUME Inv, EndRun
  PROVE  Inv'
<1>1. /\ pc' = "idle" /\ todo' = {} /\ found' = {} /\ DOMAIN files' = {} /\ listed' = {}
      /\ UNCHANGED bucketVars
  BY DEF EndRun
<1>2. BucketOk' /\ DumpFiles' = DumpFiles /\ objects' = objects /\ workspace' = workspace
  BY <1>1, SameBucket DEF Inv
<1>3. \A y : Below(y)' = Below(y)
  BY <1>2 DEF Below
<1>4. DumpOk'
  BY <1>1, <1>2, <1>3 DEF Inv, DumpOk
<1>5. TodoOk' /\ FoundOk' /\ FilesOk'
  BY <1>1 DEF TodoOk, FoundOk, FilesOk, FilesAreComplete
<1>6. QED
  BY <1>1, <1>2, <1>4, <1>5 DEF Inv

(* All keys have been looked at.                                           *)
LEMMA DiscoveredStep ==
  ASSUME Inv, Discovered
  PROVE  Inv'
<1>1. /\ pc = "discover" /\ pc' = "position" /\ todo = {} /\ UNCHANGED bucketVars
      /\ todo' = todo /\ found' = found /\ files' = files /\ listed' = listed
  BY DEF Discovered
<1>2. /\ BucketOk' /\ DumpFiles' = DumpFiles /\ objects' = objects /\ dump' = dump
      /\ filter' = filter /\ workspace' = workspace
  BY <1>1, SameBucket DEF Inv
<1>3. (\A y : Below(y)' = Below(y)) /\ Exact' = Exact
  BY <1>1, <1>2, ExactSame DEF Below
<1>4. DumpOk' /\ FilesOk'
  BY <1>1, <1>2, <1>3 DEF Inv, DumpOk, FilesOk, FilesAreComplete
<1>5. TodoOk' /\ FoundOk'
  BY <1>1, <1>3 DEF Inv, TodoOk, FoundOk
<1>6. QED
  BY <1>1, <1>2, <1>4, <1>5 DEF Inv

(* Where the position is found the dump is complete.                       *)
LEMMA ReadPositionStep ==
  ASSUME Inv, ReadPosition
  PROVE  Inv'
<1>1. /\ pc = "position" /\ pc' = "files" /\ UNCHANGED bucketVars /\ Exists(Key(Metadata))
      /\ todo' = todo /\ found' = found /\ files' = files /\ listed' = listed
  BY DEF ReadPosition, HasPosition
<1>2. /\ BucketOk' /\ DumpFiles' = DumpFiles /\ objects' = objects /\ dump' = dump
      /\ filter' = filter /\ workspace' = workspace
  BY <1>1, SameBucket DEF Inv
<1>3. (\A y : Below(y)' = Below(y)) /\ Exact' = Exact
  BY <1>1, <1>2, ExactSame DEF Below
<1>4. Below(Metadata) \in objects
  BY <1>1, DumpListed DEF Inv
<1>5. DumpOk'
  BY <1>2, <1>3, <1>4 DEF Inv, DumpOk
<1>6. TodoOk' /\ FoundOk'
  BY <1>1, <1>3 DEF Inv, TodoOk, FoundOk
<1>7. FilesOk'
  BY <1>1 DEF Inv, FilesOk, FilesAreComplete
<1>8. QED
  BY <1>1, <1>2, <1>5, <1>6, <1>7 DEF Inv

(* The files of a table are looked for.                                    *)
LEMMA ListFilesStep ==
  ASSUME Inv, NEW s \in found, ListFiles(s)
  PROVE  Inv'
<1>1. /\ pc = "files" /\ UNCHANGED bucketVars
      /\ files' = [x \in DOMAIN files \cup {s} |-> IF x = s THEN FilesOf(s) ELSE files[x]]
      /\ pc' = pc /\ todo' = todo /\ found' = found /\ listed' = listed
  BY DEF ListFiles
<1>2. /\ BucketOk' /\ DumpFiles' = DumpFiles /\ objects' = objects /\ dump' = dump
      /\ filter' = filter /\ workspace' = workspace
  BY <1>1, SameBucket DEF Inv
<1>3. (\A y : Below(y)' = Below(y)) /\ Exact' = Exact
  BY <1>1, <1>2, ExactSame DEF Below
<1>4. FilesOf(s) = {Key(DataFile(s, n)) : n \in 1 .. DataFiles[s]}
  <2>1. s \in dump /\ \A x \in DumpFiles : Below(x) \in objects
    BY <1>1 DEF Inv, FoundOk, Exact, DumpOk
  <2>2. QED
    BY <2>1, FilesFound DEF Inv
<1>5. DumpOk'
  BY <1>1, <1>2, <1>3 DEF Inv, DumpOk
<1>6. TodoOk' /\ FoundOk'
  BY <1>1, <1>3 DEF Inv, TodoOk, FoundOk
<1>7. FilesOk'
  <2>1. DOMAIN files' = DOMAIN files \cup {s}
    BY <1>1
  <2>2. ASSUME NEW x \in DOMAIN files'
        PROVE  files'[x] = {Key(DataFile(x, n)) : n \in 1 .. DataFiles[x]}
    <3>1. files'[x] = IF x = s THEN FilesOf(s) ELSE files[x]
      BY <1>1
    <3>2. CASE x = s
      BY <1>4, <3>1, <3>2
    <3>3. CASE x # s
      BY <2>1, <3>1, <3>3 DEF Inv, FilesOk, FilesAreComplete
    <3>4. QED
      BY <3>2, <3>3
  <2>3. QED
    BY <1>1, <2>1, <2>2 DEF Inv, FilesOk, FilesAreComplete
<1>8. QED
  BY <1>1, <1>2, <1>5, <1>6, <1>7 DEF Inv

(* Each step preserves the invariant.                                      *)
LEMMA NextInv == Inv /\ [Next]_vars => Inv'
<1> SUFFICES ASSUME Inv, [Next]_vars PROVE Inv'
  OBVIOUS
<1>1. CASE \E x \in DumpFiles : WriteFile(x)
  <2>1. PICK x \in DumpFiles : WriteFile(x)
    BY <1>1
  <2>2. x # Metadata
    BY <2>1, BelowFacts DEF Inv, BucketOk
  <2>3. QED
    BY <2>1, <2>2, WriteStep
<1>2. CASE WriteMetadata
  BY <1>2, WriteStep DEF WriteMetadata
<1>3. CASE List
  BY <1>3, ListStep
<1>4. CASE \E key \in todo : PassOver(key) \/ AddTable(key) \/ Refuse(key)
  BY <1>4, PassOverStep, AddTableStep, EndStep DEF Refuse
<1>5. CASE NoTables \/ NoPosition \/ FinishRun
  BY <1>5, EndStep DEF NoTables, NoPosition, FinishRun
<1>6. CASE Discovered
  BY <1>6, DiscoveredStep
<1>7. CASE ReadPosition
  BY <1>7, ReadPositionStep
<1>8. CASE \E s \in found : ListFiles(s)
  BY <1>8, ListFilesStep
<1>9. CASE UNCHANGED vars
  <2>1. UNCHANGED bucketVars /\ UNCHANGED runVars
    BY <1>9 DEF vars
  <2>2. pc' = pc /\ todo' = todo /\ found' = found /\ files' = files /\ listed' = listed
    BY <2>1 DEF runVars
  <2>3. /\ BucketOk' /\ ListKeys(SnapshotPrefix)' = ListKeys(SnapshotPrefix)
        /\ DumpFiles' = DumpFiles /\ objects' = objects /\ dump' = dump /\ filter' = filter
        /\ workspace' = workspace
    BY <2>1, SameBucket DEF Inv
  <2>4. (\A y : Below(y)' = Below(y)) /\ Exact' = Exact
    BY <2>2, <2>3, ExactSame DEF Below
  <2>5. DumpOk' /\ TodoOk'
    BY <2>2, <2>3, <2>4 DEF Inv, DumpOk, TodoOk
  <2>6. FoundOk' /\ FilesOk'
    BY <2>2, <2>4 DEF Inv, FoundOk, FilesOk, FilesAreComplete
  <2>7. QED
    BY <2>2, <2>3, <2>5, <2>6 DEF Inv
<1>10. QED
  BY <1>1, <1>2, <1>3, <1>4, <1>5, <1>6, <1>7, <1>8, <1>9 DEF Next

-----------------------------------------------------------------------------
(* The invariant of a run of the discovery.                                *)
THEOREM DiscoveryInvariance == Spec => []Inv
<1>1. Init => Inv
  BY InitInv
<1>2. Inv /\ [Next]_vars => Inv'
  BY NextInv
<1>3. QED
  BY <1>1, <1>2, PTL DEF Spec

(* TypeOk: what the catalog has was found in the dump, among what was      *)
(* listed.                                                                 *)
THEOREM DiscoveryTypeOk == Spec => []TypeOk
<1>1. Inv => TypeOk
  BY InvProperties
<1>2. QED
  BY <1>1, DiscoveryInvariance, PTL

(* CatalogIsExact: whatever is in the bucket or being written to it,       *)
(* discover_catalog returns the selected tables with a primary key whose   *)
(* schema file it could list, in whatever order the rules are.             *)
THEOREM DiscoveryCatalogIsExact == Spec => []CatalogIsExact
<1>1. Inv => CatalogIsExact
  BY InvProperties
<1>2. QED
  BY <1>1, DiscoveryInvariance, PTL

(* FilesAreComplete: _snapshot_files finds all data files of a table and   *)
(* none of another, since metadata is read first.                          *)
THEOREM DiscoveryFilesAreComplete == Spec => []FilesAreComplete
<1>1. Inv => FilesAreComplete
  BY InvProperties
<1>2. QED
  BY <1>1, DiscoveryInvariance, PTL

(* ListedIsReadable: read_text finds what list_keys named.                 *)
THEOREM DiscoveryListedIsReadable == Spec => []ListedIsReadable
<1>1. Inv => ListedIsReadable
  BY InvProperties
<1>2. QED
  BY <1>1, DiscoveryInvariance, PTL
=============================================================================
