-------------------------- MODULE ProfileFileProofs --------------------------
(***************************************************************************)
(* TypeOK and Ownership of ProfileFile for every set of signatures,        *)
(* payloads and addresses, every table size, careless clients and failing  *)
(* allocations included; then what a call does to the tags that it does    *)
(* not name, what a read may free, that a client who keeps to the          *)
(* documented uses always gets an answer, what saving a profile and        *)
(* opening it again keeps, and that a profile used as documented is the    *)
(* dictionary of TagStore.                                                 *)
(***************************************************************************)
EXTENDS ProfileFile, TagDirectoryProofs, FiniteSetTheorems

(***************************************************************************)
(* Lemmas about lookups and entries.                                       *)
(***************************************************************************)

\* A set of numbers with a bound that is not empty has a last one.
LEMMA LastOfSet ==
    ASSUME NEW n \in Nat, NEW T \in SUBSET (1..n), T # {}
    PROVE  Max(T) \in T
<1>1. \A j \in T : j \in Nat /\ n - j \in Nat
  OBVIOUS
<1> DEFINE below == {n - j : j \in T}
<1>2. below \in SUBSET Nat
  BY <1>1
<1>3. below # {}
  <2>1. PICK j \in T : TRUE
    OBVIOUS
  <2>2. n - j \in below
    BY <2>1
  <2> QED BY <2>2
<1>4. PICK d \in below : \A e \in below : d <= e
  <2> HIDE DEF below
  <2> QED BY <1>2, <1>3, FirstOfSet
<1>5. PICK i \in T : d = n - i
  BY <1>4
<1>6. ASSUME NEW j \in T
      PROVE  i >= j
  <2>1. n - i <= n - j
    BY <1>4, <1>5
  <2> QED BY <1>1, <2>1
<1> QED BY <1>5, <1>6 DEF Max

\* SearchOneTag returns a position in use with that name, or 0 if there is none.
LEMMA SearchOneTagType ==
    ASSUME TypeOK, NEW s
    PROVE  /\ SearchOneTag(s) \in 0..count
           /\ SearchOneTag(s) # 0 => slot[SearchOneTag(s)].name = s
           /\ \A i \in 1..count : slot[i].name = s => SearchOneTag(s) # 0
BY SearchOneTagFinds, TableAssumption DEF TypeOK

\* _cmsNewTag returns a position of the table, no further than the next free
\* one, or 0.
LEMMA NewPosType ==
    ASSUME TypeOK, NEW s
    PROVE  NewPos(s) = 0 \/ (NewPos(s) \in Position /\ NewPos(s) <= count + 1)
BY SearchOneTagType, TableAssumption DEF NewPos, cmsIsTag, TypeOK, Position

\* What _cmsDeleteTagByPos leaves is an entry, and a heap.
LEMMA DeletedType ==
    ASSUME TypeOK, NEW i \in Position
    PROVE  /\ Deleted(i) \in Slot
           /\ HeapAfterDelete(i) \in [Objects -> Contents \cup {Unused}]
<1>1. slot[i] \in Slot
  BY DEF TypeOK
<1>2. [slot[i] EXCEPT !.ptr = Null, !.raw = FALSE] \in Slot
  BY <1>1 DEF Slot
<1>3. HeapAfterDelete(i) \in [Objects -> Contents \cup {Unused}]
  BY <1>1 DEF HeapAfterDelete, HeapWithout, Slot, TypeOK
<1> QED BY <1>1, <1>2, <1>3 DEF Deleted

\* Storing an entry at a position that _cmsNewTag gave keeps the directory one.
LEMMA PlaceType ==
    ASSUME TypeOK, NEW i \in Position, NEW entry \in Slot, Place(i, entry)
    PROVE  slot' \in [Position -> Slot] /\ count' \in 0..MaxTags
BY TableAssumption DEF Place, TypeOK, Position

(***************************************************************************)
(* Type correctness.                                                       *)
(***************************************************************************)

\* Each read keeps the types.
LEMMA ReadTagType ==
    ASSUME TypeOK, NEW s \in Sigs, ReadTag(s)
    PROVE  TypeOK'
<1> DEFINE n == SearchTag(s)
<1>0. ASSUME n \in 1..count
      PROVE  n \in Position /\ slot[n] \in Slot
  BY <1>0, TableAssumption DEF TypeOK, Position
<1>1. CASE Stop("ReadTag", s, "hung")
  BY <1>1 DEF Stop, TypeOK, Reads
<1>2. CASE Return("ReadTag", s, Null) /\ UNCHANGED <<slot, count, heap>>
  BY <1>2 DEF Return, TypeOK, Reads
<1>3. CASE n \in 1..count /\ slot[n].ptr # Null /\ ReadCached(s, n)
  <2>1. slot[n].ptr \in Objects /\ heap[slot[n].ptr] \in Contents \cup {Unused}
    BY <1>0, <1>3 DEF Slot, TypeOK
  <2>2. heap[slot[n].ptr].val \in Payloads \cup {Null}
    BY <2>1 DEF Contents, Unused
  <2>3. CASE Return("ReadTag", s, heap[slot[n].ptr].val) /\ UNCHANGED <<slot, count, heap>>
    BY <2>2, <2>3 DEF Return, TypeOK, Reads
  <2>4. CASE freeOneTag(n) /\ Return("ReadTag", s, Null) /\ UNCHANGED count
    <3>1. [slot[n] EXCEPT !.ptr = Null] \in Slot
      BY <1>0, <1>3 DEF Slot
    <3>2. slot' \in [Position -> Slot]
      BY <2>4, <3>1, <1>0, <1>3 DEF freeOneTag, TypeOK
    <3>3. heap' \in [Objects -> Contents \cup {Unused}]
      BY <2>4, <2>1 DEF freeOneTag, HeapWithout, TypeOK
    <3> QED BY <2>4, <3>2, <3>3 DEF Return, TypeOK, Reads
  <2> QED BY <1>3, <2>3, <2>4 DEF ReadCached
<1>4. CASE n \in 1..count /\ slot[n].ptr = Null /\ ReadFromFile(s, n)
  <2> DEFINE v == file.block[slot[n].off].val
             handled == [slot[n] EXCEPT !.handler = TypeOf[v]]
  <2>0. ASSUME Fetchable(s, n)
        PROVE  v \in Payloads /\ handled \in Slot
    <3>1. v \in Payloads
      BY <2>0 DEF Fetchable, IsBlock, TypeOK
    <3>2. TypeOf[v] \in Types
      BY <3>1, PayloadAssumption
    <3> QED BY <3>1, <3>2, <1>0, <1>4 DEF Slot
  <2>1. CASE ~Fetchable(s, n) /\ Return("ReadTag", s, Null) /\ UNCHANGED <<slot, count, heap>>
    BY <2>1 DEF Return, TypeOK, Reads
  <2>2. CASE Fetchable(s, n) /\ Return("ReadTag", s, v) /\ UNCHANGED count
             /\ \E o \in Free(heap) :
                  /\ slot' = [slot EXCEPT ![n] = [handled EXCEPT !.ptr = o]]
                  /\ heap' = [heap EXCEPT ![o] = [val |-> v, shape |-> "cooked"]]
    <3>1. PICK o \in Free(heap) :
                  /\ slot' = [slot EXCEPT ![n] = [handled EXCEPT !.ptr = o]]
                  /\ heap' = [heap EXCEPT ![o] = [val |-> v, shape |-> "cooked"]]
      BY <2>2
    <3>2. o \in Objects
      BY DEF Free
    <3>3. [handled EXCEPT !.ptr = o] \in Slot
      BY <2>0, <2>2, <3>2 DEF Slot
    <3>4. slot' \in [Position -> Slot]
      BY <3>1, <3>3, <1>0, <1>4 DEF TypeOK
    <3>5. [val |-> v, shape |-> "cooked"] \in Contents
      BY <2>0, <2>2 DEF Contents, Shapes
    <3>6. heap' \in [Objects -> Contents \cup {Unused}]
      BY <3>1, <3>2, <3>5 DEF TypeOK
    <3> QED BY <2>0, <2>2, <3>4, <3>6 DEF Return, TypeOK, Reads
  <2>3. CASE Fetchable(s, n) /\ slot' = [slot EXCEPT ![n] = handled]
             /\ Return("ReadTag", s, Null) /\ UNCHANGED <<count, heap>>
    <3>1. slot' \in [Position -> Slot]
      BY <2>0, <2>3, <1>0, <1>4 DEF TypeOK
    <3> QED BY <2>3, <3>1 DEF Return, TypeOK, Reads
  <2> QED BY <1>4, <2>1, <2>2, <2>3 DEF ReadFromFile
<1> QED BY <1>1, <1>2, <1>3, <1>4 DEF ReadTag

LEMMA ReadRawTagType ==
    ASSUME TypeOK, NEW s \in Sigs, ReadRawTag(s)
    PROVE  TypeOK'
<1> DEFINE n == SearchTag(s)
<1>0. ASSUME n \in 1..count
      PROVE  n \in Position /\ slot[n] \in Slot
  BY <1>0, TableAssumption DEF TypeOK, Position
<1>1. ASSUME NEW f \in {"hung", "crashed"}, Stop("ReadRawTag", s, f)
      PROVE  TypeOK'
  BY <1>1 DEF Stop, TypeOK, Reads
<1>2. ASSUME NEW v \in Payloads \cup {Null, Garbage}, Return("ReadRawTag", s, v),
             UNCHANGED <<slot, count, heap>>
      PROVE  TypeOK'
  BY <1>2 DEF Return, TypeOK, Reads
<1>3. CASE n \in 1..count /\ slot[n].ptr # Null /\ ReadRawCached(s, n)
  <2>1. slot[n].ptr \in Objects /\ heap[slot[n].ptr] \in Contents \cup {Unused}
    BY <1>0, <1>3 DEF Slot, TypeOK
  <2>2. heap[slot[n].ptr].val \in Payloads \cup {Null}
    BY <2>1 DEF Contents, Unused
  <2>3. CASE freeOneTag(n) /\ Return("ReadRawTag", s, Null) /\ UNCHANGED count
    <3>1. [slot[n] EXCEPT !.ptr = Null] \in Slot
      BY <1>0, <1>3 DEF Slot
    <3>2. slot' \in [Position -> Slot]
      BY <2>3, <3>1, <1>0, <1>3 DEF freeOneTag, TypeOK
    <3>3. heap' \in [Objects -> Contents \cup {Unused}]
      BY <2>3, <2>1 DEF freeOneTag, HeapWithout, TypeOK
    <3> QED BY <2>3, <3>2, <3>3 DEF Return, TypeOK, Reads
  <2> QED BY <1>2, <1>3, <2>2, <2>3 DEF ReadRawCached
<1>4. CASE n \in 1..count /\ slot[n].ptr = Null /\ ReadRawFromFile(s, n)
  <2>1. BytesAt(slot[n].off, slot[n].size) \in Payloads \cup {Garbage}
    BY DEF BytesAt, IsBlock, TypeOK
  <2> QED BY <1>1, <1>2, <1>4, <2>1 DEF ReadRawFromFile
<1> QED BY <1>1, <1>2, <1>3, <1>4 DEF ReadRawTag

\* Each write keeps the types.
LEMMA DeleteTagType ==
    ASSUME TypeOK, NEW s \in Sigs, DeleteTag(s)
    PROVE  TypeOK'
<1> DEFINE i == SearchOneTag(s)
<1>1. CASE i = 0
  BY <1>1 DEF DeleteTag, Done, Return, TypeOK, Writes
<1>2. CASE i # 0
  <2>1. i \in Position
    BY <1>2, SearchOneTagType, TableAssumption DEF TypeOK, Position
  <2>2. [Deleted(i) EXCEPT !.name = NoSig] \in Slot
    BY <2>1, DeletedType DEF Slot
  <2>3. slot' \in [Position -> Slot]
    BY <1>2, <2>1, <2>2 DEF DeleteTag, TypeOK
  <2>4. heap' \in [Objects -> Contents \cup {Unused}]
    BY <1>2, <2>1, DeletedType DEF DeleteTag
  <2> QED BY <2>3, <2>4 DEF DeleteTag, Done, Return, TypeOK, Writes
<1> QED BY <1>1, <1>2

LEMMA WriteTagType ==
    ASSUME TypeOK, NEW s \in Sigs, NEW v \in Payloads, WriteTag(s, v)
    PROVE  TypeOK'
<1> DEFINE i == NewPos(s)
<1>1. CASE UNCHANGED <<slot, count, heap>>
  BY <1>1 DEF WriteTag, Return, TypeOK, Writes
<1>2. ASSUME i # 0, NEW e \in Slot, Place(i, e),
             heap' \in [Objects -> Contents \cup {Unused}]
      PROVE  TypeOK'
  <2>1. i \in Position
    BY <1>2, NewPosType
  <2>2. slot' \in [Position -> Slot] /\ count' \in 0..MaxTags
    BY <1>2, <2>1, PlaceType
  <2> QED BY <1>2, <2>2 DEF WriteTag, Return, TypeOK, Writes
<1>3. ASSUME i # 0
      PROVE  /\ i \in Position /\ Deleted(i) \in Slot
             /\ HeapAfterDelete(i) \in [Objects -> Contents \cup {Unused}]
  BY <1>3, NewPosType, DeletedType
<1>4. TypeOf[v] \in Types
  BY PayloadAssumption
<1>5. ASSUME i # 0, NEW o \in Free(HeapAfterDelete(i)), Written(s, v, i, o)
      PROVE  TypeOK'
  <2>1. o \in Objects
    BY DEF Free
  <2>2. [Deleted(i) EXCEPT !.linked = NoSig, !.name = s, !.handler = TypeOf[v],
                           !.size = 0, !.off = 0, !.ptr = o] \in Slot
    BY <1>3, <1>4, <1>5, <2>1 DEF Slot
  <2>3. [val |-> v, shape |-> "cooked"] \in Contents
    BY DEF Contents, Shapes
  <2>4. heap' \in [Objects -> Contents \cup {Unused}]
    BY <1>3, <1>5, <2>1, <2>3 DEF Written
  <2> QED BY <1>2, <1>5, <2>2, <2>4 DEF Written
<1>6. CASE i # 0 /\ WriteRefused(s, v, i)
  <2>1. [Deleted(i) EXCEPT !.linked = NoSig] \in Slot
    BY <1>3, <1>6 DEF Slot
  <2>2. [Deleted(i) EXCEPT !.linked = NoSig, !.name = s, !.handler = TypeOf[v],
                           !.size = 0, !.off = 0, !.ptr = Null] \in Slot
    BY <1>3, <1>4, <1>6 DEF Slot
  <2> QED BY <1>2, <1>3, <1>6, <2>1, <2>2 DEF WriteRefused
<1> QED BY <1>1, <1>5, <1>6 DEF WriteTag

LEMMA WriteRawTagType ==
    ASSUME TypeOK, NEW s \in Sigs, NEW v \in Payloads, WriteRawTag(s, v)
    PROVE  TypeOK'
<1> DEFINE i == NewPos(s)
           entry(name, p) ==
             [Deleted(i) EXCEPT !.raw = TRUE, !.name = name, !.linked = NoSig,
                                !.handler = Null, !.ptr = p, !.size = Width[v]]
<1>1. CASE UNCHANGED <<slot, count, heap>>
  BY <1>1 DEF WriteRawTag, Return, TypeOK, Writes
<1>2. ASSUME i # 0, NEW e \in Slot, Place(i, e),
             heap' \in [Objects -> Contents \cup {Unused}]
      PROVE  TypeOK'
  <2>1. i \in Position
    BY <1>2, NewPosType
  <2>2. slot' \in [Position -> Slot] /\ count' \in 0..MaxTags
    BY <1>2, <2>1, PlaceType
  <2> QED BY <1>2, <2>2 DEF WriteRawTag, Return, TypeOK, Writes
<1>3. ASSUME i # 0
      PROVE  /\ Deleted(i) \in Slot
             /\ HeapAfterDelete(i) \in [Objects -> Contents \cup {Unused}]
  BY <1>3, NewPosType, DeletedType
<1>4. ASSUME i # 0, NEW name \in Sigs \cup {NoSig}, NEW p \in Objects \cup {Null}
      PROVE  entry(name, p) \in Slot
  <2>1. Width[v] \in Nat
    BY PayloadAssumption
  <2> QED BY <1>3, <1>4, <2>1 DEF Slot
<1>5. CASE i # 0 /\ \E o \in Free(HeapAfterDelete(i)) :
             /\ Place(i, entry(s, o))
             /\ heap' = [HeapAfterDelete(i) EXCEPT ![o] = [val |-> v, shape |-> "raw"]]
  <2>1. PICK o \in Free(HeapAfterDelete(i)) :
             /\ Place(i, entry(s, o))
             /\ heap' = [HeapAfterDelete(i) EXCEPT ![o] = [val |-> v, shape |-> "raw"]]
    BY <1>5
  <2>2. o \in Objects
    BY DEF Free
  <2>3. [val |-> v, shape |-> "raw"] \in Contents
    BY DEF Contents, Shapes
  <2>4. heap' \in [Objects -> Contents \cup {Unused}]
    BY <1>3, <1>5, <2>1, <2>2, <2>3
  <2>5. entry(s, o) \in Slot
    BY <1>4, <1>5, <2>2
  <2> QED BY <1>2, <1>5, <2>1, <2>4, <2>5
<1>6. CASE i # 0 /\ Place(i, entry(NoSig, Null)) /\ heap' = HeapAfterDelete(i)
  <2>1. entry(NoSig, Null) \in Slot
    BY <1>4, <1>6
  <2> QED BY <1>2, <1>3, <1>6, <2>1
<1> QED BY <1>1, <1>5, <1>6 DEF WriteRawTag

LEMMA LinkTagType ==
    ASSUME TypeOK, NEW s \in Sigs, NEW dest \in Sigs, LinkTag(s, dest)
    PROVE  TypeOK'
<1> DEFINE i == NewPos(s)
           e == [Deleted(i) EXCEPT !.raw = FALSE, !.name = s, !.linked = dest,
                                   !.ptr = Null, !.size = 0, !.off = 0]
<1>1. CASE i = 0
  BY <1>1 DEF LinkTag, Return, TypeOK, Writes
<1>2. CASE i # 0
  <2>1. i \in Position /\ Deleted(i) \in Slot
        /\ HeapAfterDelete(i) \in [Objects -> Contents \cup {Unused}]
    BY <1>2, NewPosType, DeletedType
  <2>2. e \in Slot
    BY <2>1 DEF Slot
  <2>3. slot' \in [Position -> Slot] /\ count' \in 0..MaxTags
    BY <1>2, <2>1, <2>2, PlaceType DEF LinkTag
  <2> QED BY <1>2, <2>1, <2>3 DEF LinkTag, Return, TypeOK, Writes
<1> QED BY <1>1, <1>2

\* What SaveTags writes at an offset is a payload or garbage.
LEMMA SavedFileType ==
    ASSUME TypeOK, Ownership
    PROVE  \A off \in DOMAIN SavedFile.block :
             SavedFile.block[off].val \in Payloads \cup {Garbage}
<1>1. ASSUME NEW i \in 1..count, Dumped(i)
      PROVE  Block(i).val \in Payloads \cup {Garbage}
  <2>1. i \in Position /\ slot[i] \in Slot
    BY TableAssumption DEF TypeOK, Position
  <2>2. CASE slot[i].ptr = Null
    BY <2>2 DEF Block, IsBlock, TypeOK
  <2>3. CASE slot[i].ptr # Null
    <3>1. slot[i].ptr \in Objects
      BY <2>1, <2>3 DEF Slot
    <3>2. heap[slot[i].ptr] \in Contents
      BY <2>3, <3>1 DEF TypeOK, Ownership
    <3> QED BY <2>3, <3>2 DEF Block, Contents
  <2> QED BY <2>2, <2>3
<1>2. ASSUME NEW off \in DOMAIN SavedFile.block
      PROVE  SavedFile.block[off].val \in Payloads \cup {Garbage}
  <2>1. /\ off \in {UsedSpace[i - 1] : i \in {j \in 1..count : Dumped(j)}}
        /\ SavedFile.block[off] = Block(CHOOSE i \in DumpedAt(off) : TRUE)
    BY <1>2 DEF SavedFile
  <2>2. DumpedAt(off) # {}
    BY <2>1 DEF DumpedAt
  <2>3. (CHOOSE i \in DumpedAt(off) : TRUE) \in DumpedAt(off)
    BY <2>2
  <2> QED BY <1>1, <2>1, <2>3 DEF DumpedAt
<1> QED BY <1>2

\* What _cmsReadHeader builds is a directory that fits in the table, and in
\* which nothing is in memory yet.
LEMMA ReadDirectoryType ==
    ASSUME TypeOK
    PROVE  /\ ReadDirectory \in [Position -> Slot]
           /\ \A k \in Position : ReadDirectory[k].ptr = Null
           /\ Cardinality(Kept) \in 0..MaxTags
<1> count \in Nat /\ count <= MaxTags /\ Kept \in SUBSET (1..count)
  BY TableAssumption DEF TypeOK, Kept, Announced
<1>1. Cardinality(Kept) \in 0..MaxTags
  <2>1. IsFiniteSet(1..count) /\ Cardinality(1..count) = count
    BY FS_Interval
  <2>2. IsFiniteSet(Kept) /\ Cardinality(Kept) <= count
    BY <2>1, FS_Subset
  <2>3. Cardinality(Kept) \in Nat
    BY <2>2, FS_CardinalityType
  <2> QED BY <2>2, <2>3, TableAssumption
<1>2. EmptySlot \in Slot /\ EmptySlot.ptr = Null
  BY DEF EmptySlot, Slot
<1>3. ASSUME NEW i \in Kept
      PROVE  /\ slot[i].name \in Sigs
             /\ LinkFound(i) \in Sigs \cup {NoSig}
             /\ SetLinks[i].off \in Nat
             /\ SetLinks[i].size \in Nat
  <2>1. ASSUME NEW j \in Kept
        PROVE  slot[j].name \in Sigs
    <3>1. j \in Position /\ slot[j].name # NoSig
      BY TableAssumption DEF Kept, Announced, Position
    <3> QED BY <3>1 DEF TypeOK, Slot
  <2> DEFINE twins == {j \in Kept : /\ j < i /\ SetLinks[j] = SetLinks[i]
                                    /\ SameDescriptor(slot[j].name, slot[i].name)}
  <2>2. twins # {} => Max(twins) \in twins
    <3>1. twins \in SUBSET (1..count)
      OBVIOUS
    <3> QED BY <3>1, LastOfSet
  <2>3. LinkFound(i) \in Sigs \cup {NoSig}
    BY <2>1, <2>2 DEF LinkFound
  <2>4. SetLinks[i].off \in Nat /\ SetLinks[i].size \in Nat
    BY WordAssumption DEF Kept
  <2> QED BY <2>1, <2>3, <2>4
<1>4. ASSUME NEW k \in Position
      PROVE  ReadDirectory[k] \in Slot /\ ReadDirectory[k].ptr = Null
  <2>1. CASE \E i \in Kept : Rank(i) = k
    <3> DEFINE i == CHOOSE j \in Kept : Rank(j) = k
               e == [EmptySlot EXCEPT !.name = slot[i].name, !.linked = LinkFound(i),
                                      !.off = SetLinks[i].off, !.size = SetLinks[i].size]
    <3>1. i \in Kept
      BY <2>1
    <3>2. e \in Slot /\ e.ptr = Null
      BY <1>2, <1>3, <3>1 DEF Slot, EmptySlot
    <3> QED BY <2>1, <3>2 DEF ReadDirectory
  <2>2. CASE ~\E i \in Kept : Rank(i) = k
    BY <1>2, <2>2 DEF ReadDirectory
  <2> QED BY <2>1, <2>2
<1>5. ReadDirectory = [k \in Position |-> ReadDirectory[k]]
  BY DEF ReadDirectory
<1> QED BY <1>1, <1>4, <1>5

(***************************************************************************)
(* Ownership.  Every action either leaves the directory and the heap as    *)
(* they are, or frees the data of one position and stores an entry there,  *)
(* with or without a block just allocated, or frees them all.              *)
(***************************************************************************)
OwnershipFacts == Ownership /\ Fresh /\ Freeable

\* Data is always freed when its position is given up.
LEMMA DeletedIsEmpty ==
    ASSUME OwnershipInv, NEW i \in Position
    PROVE  /\ Deleted(i).ptr = Null
           /\ HeapAfterDelete(i) = HeapWithout(slot[i].ptr)
           /\ slot[i].ptr = Null => ~Deletable(i)
<1>1. slot[i] \in Slot
  BY DEF OwnershipInv, TypeOK
<1>2. slot[i].ptr # Null => Deletable(i)
  BY DEF OwnershipInv, Freeable, Deletable
<1>3. slot[i].ptr = Null => ~Deletable(i)
  BY DEF Deletable
<1>4. [slot[i] EXCEPT !.ptr = Null, !.raw = FALSE].ptr = Null
  BY <1>1 DEF Slot
<1> QED BY <1>2, <1>3, <1>4 DEF Deleted, HeapAfterDelete, HeapWithout

\* Storing an entry with no data, after the old data was freed.
LEMMA StoreEmpty ==
    ASSUME OwnershipInv, NEW i \in Position, i <= count + 1,
           NEW e \in Slot, e.ptr = Null, Place(i, e),
           heap' = HeapWithout(slot[i].ptr)
    PROVE  OwnershipFacts'
<1>0. count \in Nat /\ count <= MaxTags /\ count' \in Nat /\ count <= count' /\ i <= count'
      /\ (count' = count \/ (count' = count + 1 /\ i = count + 1))
  BY TableAssumption DEF OwnershipInv, TypeOK, Place, Position
<1>1. slot' \in [Position -> Slot] /\ slot'[i] = e
      /\ \A j \in Position : j # i => slot'[j] = slot[j]
  BY DEF Place, OwnershipInv, TypeOK
<1>2. 1..count \in SUBSET Position /\ 1..count' \in SUBSET Position
  BY <1>0, TableAssumption DEF Place, Position
<1>3. ASSUME NEW o \in Objects
      PROVE  heap'[o] = IF o = slot[i].ptr THEN Unused ELSE heap[o]
  BY <1>3, HeapAssumption DEF HeapWithout, OwnershipInv, TypeOK
<1>4. \A j \in Position : slot[j].ptr \in Objects \cup {Null}
  BY DEF OwnershipInv, TypeOK, Slot
<1>5. \A j \in 1..count' : j # i => j \in 1..count
  BY <1>0
<1>6. i \notin 1..count => slot[i].ptr = Null
  BY <1>0 DEF OwnershipInv, Fresh, Position
<1>7. Ownership'
  <2>1. \A j \in 1..count' : slot'[j].ptr # Null => heap'[slot'[j].ptr] # Unused
    <3>1. ASSUME NEW j \in 1..count', slot'[j].ptr # Null
          PROVE  heap'[slot'[j].ptr] # Unused
      <4>1. j # i /\ j \in 1..count /\ slot'[j].ptr = slot[j].ptr /\ slot[j].ptr \in Objects
        BY <1>1, <1>2, <1>4, <1>5, <3>1
      <4>2. heap[slot[j].ptr] # Unused
        BY <3>1, <4>1 DEF OwnershipInv, Ownership
      <4>3. slot[j].ptr # slot[i].ptr
        <5>1. CASE i \in 1..count
          BY <4>1, <5>1, HeapAssumption DEF OwnershipInv, Ownership
        <5>2. CASE i \notin 1..count
          BY <1>6, <4>1, <5>2, HeapAssumption
        <5> QED BY <5>1, <5>2
      <4> QED BY <1>3, <4>1, <4>2, <4>3
    <3> QED BY <3>1
  <2>2. \A j, k \in 1..count' : j # k /\ slot'[j].ptr = slot'[k].ptr => slot'[j].ptr = Null
    BY <1>1, <1>2, <1>5 DEF OwnershipInv, Ownership
  <2>3. \A o \in Objects : heap'[o] # Unused => \E j \in 1..count' : slot'[j].ptr = o
    <3>1. ASSUME NEW o \in Objects, heap'[o] # Unused
          PROVE  \E j \in 1..count' : slot'[j].ptr = o
      <4>1. o # slot[i].ptr /\ heap[o] # Unused
        BY <1>3, <3>1
      <4>2. PICK j \in 1..count : slot[j].ptr = o
        BY <4>1 DEF OwnershipInv, Ownership
      <4>3. j \in 1..count' /\ slot'[j].ptr = o
        BY <1>0, <1>1, <1>2, <4>1, <4>2
      <4> QED BY <4>3
    <3> QED BY <3>1
  <2> QED BY <2>1, <2>2, <2>3 DEF Ownership
<1>8. Fresh'
  BY <1>0, <1>1 DEF OwnershipInv, Fresh, Position
<1>9. Freeable'
  BY <1>1 DEF OwnershipInv, Freeable, Position
<1> QED BY <1>7, <1>8, <1>9 DEF OwnershipFacts

\* Storing an entry whose data was just allocated.
LEMMA StoreFull ==
    ASSUME OwnershipInv, NEW i \in Position, i <= count + 1,
           NEW o \in Free(HeapWithout(slot[i].ptr)),
           NEW e \in Slot, e.ptr = o, e.raw \/ e.handler # Null, Place(i, e),
           NEW c \in Contents, heap' = [HeapWithout(slot[i].ptr) EXCEPT ![o] = c]
    PROVE  OwnershipFacts'
<1>0. count \in Nat /\ count <= MaxTags /\ count' \in Nat /\ count <= count' /\ i \in 1..count'
      /\ (count' = count \/ (count' = count + 1 /\ i = count + 1))
  BY TableAssumption DEF OwnershipInv, TypeOK, Place, Position
<1>1. slot' \in [Position -> Slot] /\ slot'[i] = e
      /\ \A j \in Position : j # i => slot'[j] = slot[j]
  BY DEF Place, OwnershipInv, TypeOK
<1>2. 1..count \in SUBSET Position /\ 1..count' \in SUBSET Position
  BY <1>0, TableAssumption DEF Place, Position
<1>3. c # Unused /\ o \in Objects /\ o # Null
  BY HeapAssumption DEF Contents, Shapes, Unused, Free
<1>4. \A j \in Position : slot[j].ptr \in Objects \cup {Null}
  BY DEF OwnershipInv, TypeOK, Slot
<1>5. ASSUME NEW p \in Objects
      PROVE  heap'[p] = IF p = o THEN c ELSE IF p = slot[i].ptr THEN Unused ELSE heap[p]
  BY <1>3, HeapAssumption DEF HeapWithout, OwnershipInv, TypeOK
<1>6. o = slot[i].ptr \/ heap[o] = Unused
  BY <1>3, HeapAssumption DEF Free, HeapWithout, OwnershipInv, TypeOK
<1>7. \A j \in 1..count' : j # i => j \in 1..count
  BY <1>0
<1>8. i \notin 1..count => slot[i].ptr = Null
  BY <1>0 DEF OwnershipInv, Fresh, Position
<1>9. ASSUME NEW j \in 1..count, j # i, slot[j].ptr # Null
      PROVE  slot[j].ptr # slot[i].ptr /\ slot[j].ptr # o /\ heap[slot[j].ptr] # Unused
  <2>1. heap[slot[j].ptr] # Unused
    BY <1>9 DEF OwnershipInv, Ownership
  <2>2. slot[j].ptr # slot[i].ptr
    BY <1>8, <1>9 DEF OwnershipInv, Ownership
  <2> QED BY <1>6, <2>1, <2>2
<1>10. Ownership'
  <2>1. ASSUME NEW j \in 1..count', slot'[j].ptr # Null
        PROVE  heap'[slot'[j].ptr] # Unused
    <3>1. CASE j = i
      BY <1>1, <1>3, <1>5, <3>1
    <3>2. CASE j # i
      <4>1. j \in 1..count /\ slot'[j].ptr = slot[j].ptr /\ slot[j].ptr \in Objects
        BY <1>1, <1>2, <1>4, <1>7, <2>1, <3>2
      <4> QED BY <1>5, <1>9, <2>1, <3>2, <4>1
    <3> QED BY <3>1, <3>2
  <2>2. ASSUME NEW j \in 1..count', NEW k \in 1..count', j # k, slot'[j].ptr = slot'[k].ptr
        PROVE  slot'[j].ptr = Null
    <3>1. ASSUME NEW m \in 1..count', m # i, slot'[m].ptr = o
          PROVE  FALSE
      BY <1>1, <1>2, <1>3, <1>7, <1>9, <3>1
    <3>2. CASE j = i \/ k = i
      BY <1>1, <2>2, <3>1, <3>2
    <3>3. CASE j # i /\ k # i
      BY <1>1, <1>2, <1>7, <2>2, <3>3 DEF OwnershipInv, Ownership
    <3> QED BY <3>2, <3>3
  <2>3. ASSUME NEW p \in Objects, heap'[p] # Unused
        PROVE  \E j \in 1..count' : slot'[j].ptr = p
    <3>1. CASE p = o
      BY <1>0, <1>1, <3>1
    <3>2. CASE p # o
      <4>1. p # slot[i].ptr /\ heap[p] # Unused
        BY <1>5, <2>3, <3>2
      <4>2. PICK j \in 1..count : slot[j].ptr = p
        BY <4>1 DEF OwnershipInv, Ownership
      <4>3. j \in 1..count' /\ slot'[j].ptr = p
        BY <1>0, <1>1, <1>2, <4>1, <4>2
      <4> QED BY <4>3
    <3> QED BY <3>1, <3>2
  <2> QED BY <2>1, <2>2, <2>3 DEF Ownership
<1>11. Fresh'
  BY <1>0, <1>1 DEF OwnershipInv, Fresh, Position
<1>12. Freeable'
  BY <1>1 DEF OwnershipInv, Freeable, Position
<1> QED BY <1>10, <1>11, <1>12 DEF OwnershipFacts

\* Freeing what a position of the directory holds.
LEMMA FreeOne ==
    ASSUME OwnershipInv, NEW n \in 1..count, freeOneTag(n), UNCHANGED count
    PROVE  OwnershipFacts'
<1>1. n \in Position /\ n <= count + 1
  BY TableAssumption DEF OwnershipInv, TypeOK, Position
<1> DEFINE e == [slot[n] EXCEPT !.ptr = Null]
<1>2. e \in Slot /\ e.ptr = Null
  BY <1>1 DEF OwnershipInv, TypeOK, Slot
<1>3. slot' = [slot EXCEPT ![n] = e]
  BY DEF freeOneTag
<1>4. count' = IF n > count THEN n ELSE count
  BY <1>1 DEF OwnershipInv, TypeOK
<1> HIDE DEF e
<1>5. Place(n, e) /\ heap' = HeapWithout(slot[n].ptr)
  BY <1>3, <1>4 DEF Place, freeOneTag
<1> QED BY <1>1, <1>2, <1>5, StoreEmpty

\* Leaving the directory and the heap alone.
LEMMA LeftAlone ==
    ASSUME OwnershipInv, UNCHANGED <<slot, count, heap>>
    PROVE  OwnershipFacts'
BY DEF OwnershipInv, OwnershipFacts, Ownership, Fresh, Freeable

LEMMA ReadTagOwns ==
    ASSUME OwnershipInv, NEW s \in Sigs, ReadTag(s)
    PROVE  OwnershipFacts'
<1> DEFINE n == SearchTag(s)
<1>1. CASE UNCHANGED <<slot, count, heap>>
  BY <1>1, LeftAlone
<1>2. CASE n \in 1..count /\ freeOneTag(n) /\ UNCHANGED count
  <2> HIDE DEF n
  <2> QED BY <1>2, FreeOne
<1>3. CASE n \in 1..count /\ slot[n].ptr = Null /\ ReadFromFile(s, n)
  <2> HIDE DEF n
  <2>0. n \in Position /\ n <= count + 1 /\ slot[n] \in Slot /\ TypeOK
    BY <1>3, TableAssumption DEF OwnershipInv, TypeOK, Position
  <2> DEFINE v == file.block[slot[n].off].val
             handled == [slot[n] EXCEPT !.handler = TypeOf[v]]
  <2>1. ASSUME Fetchable(s, n)
        PROVE  v \in Payloads /\ handled \in Slot /\ handled.handler # Null
               /\ handled.ptr = Null
    <3>1. v \in Payloads
      BY <2>0, <2>1 DEF Fetchable, IsBlock, TypeOK
    <3>2. TypeOf[v] \in Types /\ TypeOf[v] # Null
      BY <3>1, PayloadAssumption
    <3> QED BY <1>3, <2>0, <3>1, <3>2 DEF Slot
  <2>2. HeapWithout(slot[n].ptr) = heap
    BY <1>3 DEF HeapWithout
  <2>3. count = IF n > count THEN n ELSE count
    BY <1>3, <2>0 DEF TypeOK
  <2>4. CASE Fetchable(s, n) /\ UNCHANGED count /\ \E o \in Free(heap) :
               /\ slot' = [slot EXCEPT ![n] = [handled EXCEPT !.ptr = o]]
               /\ heap' = [heap EXCEPT ![o] = [val |-> v, shape |-> "cooked"]]
    <3>1. PICK o \in Free(heap) :
               /\ slot' = [slot EXCEPT ![n] = [handled EXCEPT !.ptr = o]]
               /\ heap' = [heap EXCEPT ![o] = [val |-> v, shape |-> "cooked"]]
      BY <2>4
    <3> DEFINE e == [handled EXCEPT !.ptr = o]
               c == [val |-> v, shape |-> "cooked"]
    <3>2. o \in Objects
      BY DEF Free
    <3>3. e \in Slot /\ e.ptr = o /\ e.handler # Null
      BY <2>1, <2>4, <3>2 DEF Slot
    <3>4. c \in Contents
      BY <2>1, <2>4 DEF Contents, Shapes
    <3>5. slot' = [slot EXCEPT ![n] = e] /\ heap' = [heap EXCEPT ![o] = c]
      BY <3>1
    <3> HIDE DEF e, c
    <3>6. Place(n, e) /\ o \in Free(HeapWithout(slot[n].ptr))
          /\ heap' = [HeapWithout(slot[n].ptr) EXCEPT ![o] = c]
      BY <2>2, <2>3, <2>4, <3>5 DEF Place
    <3> QED BY <2>0, <3>3, <3>4, <3>6, StoreFull
  <2>5. CASE Fetchable(s, n) /\ slot' = [slot EXCEPT ![n] = handled]
             /\ UNCHANGED <<count, heap>>
    <3>1. handled \in Slot /\ handled.ptr = Null
      BY <2>1, <2>5
    <3> HIDE DEF handled
    <3>2. Place(n, handled) /\ heap' = HeapWithout(slot[n].ptr)
      BY <2>2, <2>3, <2>5 DEF Place
    <3> QED BY <2>0, <3>1, <3>2, StoreEmpty
  <2> QED BY <1>1, <1>3, <2>4, <2>5 DEF ReadFromFile
<1> QED BY <1>1, <1>2, <1>3 DEF ReadTag, ReadCached, Stop

LEMMA ReadRawTagOwns ==
    ASSUME OwnershipInv, NEW s \in Sigs, ReadRawTag(s)
    PROVE  OwnershipFacts'
<1> DEFINE n == SearchTag(s)
<1>1. CASE UNCHANGED <<slot, count, heap>>
  BY <1>1, LeftAlone
<1>2. CASE n \in 1..count /\ freeOneTag(n) /\ UNCHANGED count
  <2> HIDE DEF n
  <2> QED BY <1>2, FreeOne
<1> QED BY <1>1, <1>2 DEF ReadRawTag, ReadRawCached, ReadRawFromFile, Stop

LEMMA DeleteTagOwns ==
    ASSUME OwnershipInv, NEW s \in Sigs, DeleteTag(s)
    PROVE  OwnershipFacts'
<1> DEFINE i == SearchOneTag(s)
<1>1. CASE i = 0
  BY <1>1, LeftAlone DEF DeleteTag
<1>2. CASE i # 0
  <2>0. TypeOK
    BY DEF OwnershipInv
  <2>1. i \in 1..count /\ i \in Position /\ i <= count + 1
    BY <1>2, <2>0, SearchOneTagType, TableAssumption DEF TypeOK, Position
  <2> DEFINE e == [Deleted(i) EXCEPT !.name = NoSig]
  <2>2. e \in Slot /\ e.ptr = Null
    BY <2>0, <2>1, DeletedType, DeletedIsEmpty DEF Slot
  <2>3. slot' = [slot EXCEPT ![i] = e] /\ heap' = HeapWithout(slot[i].ptr)
    BY <1>2, <2>1, DeletedIsEmpty DEF DeleteTag
  <2>4. count' = IF i > count THEN i ELSE count
    BY <2>0, <2>1 DEF DeleteTag, TypeOK
  <2> HIDE DEF e, i
  <2>5. Place(i, e)
    BY <2>3, <2>4 DEF Place
  <2> QED BY <2>1, <2>2, <2>3, <2>5, StoreEmpty
<1> QED BY <1>1, <1>2

\* The two forms of an overwrite, at the position _cmsNewTag gave.
LEMMA OverwriteEmpty ==
    ASSUME OwnershipInv, NEW s, NewPos(s) # 0, NEW e \in Slot, e.ptr = Null,
           Place(NewPos(s), e), heap' = HeapAfterDelete(NewPos(s))
    PROVE  OwnershipFacts'
<1> DEFINE i == NewPos(s)
<1>1. i \in Position /\ i <= count + 1
  BY NewPosType DEF OwnershipInv
<1> HIDE DEF i
<1>2. heap' = HeapWithout(slot[i].ptr)
  BY <1>1, DeletedIsEmpty DEF i
<1>3. Place(i, e)
  BY DEF i
<1> QED BY <1>1, <1>2, <1>3, StoreEmpty

LEMMA OverwriteFull ==
    ASSUME OwnershipInv, NEW s, NewPos(s) # 0, NEW o \in Free(HeapAfterDelete(NewPos(s))),
           NEW e \in Slot, e.ptr = o, e.raw \/ e.handler # Null, Place(NewPos(s), e),
           NEW c \in Contents, heap' = [HeapAfterDelete(NewPos(s)) EXCEPT ![o] = c]
    PROVE  OwnershipFacts'
<1> DEFINE i == NewPos(s)
<1>1. i \in Position /\ i <= count + 1
  BY NewPosType DEF OwnershipInv
<1> HIDE DEF i
<1>2. HeapAfterDelete(i) = HeapWithout(slot[i].ptr)
  BY <1>1, DeletedIsEmpty
<1>3. Place(i, e) /\ o \in Free(HeapAfterDelete(i))
      /\ heap' = [HeapAfterDelete(i) EXCEPT ![o] = c]
  BY DEF i
<1>4. o \in Free(HeapWithout(slot[i].ptr))
      /\ heap' = [HeapWithout(slot[i].ptr) EXCEPT ![o] = c]
  BY <1>2, <1>3
<1> QED BY <1>1, <1>3, <1>4, StoreFull, ZenonT(90)

LEMMA WriteTagOwns ==
    ASSUME OwnershipInv, NEW s \in Sigs, NEW v \in Payloads, WriteTag(s, v)
    PROVE  OwnershipFacts'
<1> DEFINE i == NewPos(s)
<1>1. CASE UNCHANGED <<slot, count, heap>>
  BY <1>1, LeftAlone
<1>2. ASSUME i # 0
      PROVE  i \in Position /\ Deleted(i) \in Slot /\ Deleted(i).ptr = Null
  BY <1>2, NewPosType, DeletedType, DeletedIsEmpty DEF OwnershipInv
<1>3. TypeOf[v] \in Types /\ TypeOf[v] # Null
  BY PayloadAssumption
<1>4. ASSUME i # 0, NEW o \in Free(HeapAfterDelete(i)), Written(s, v, i, o)
      PROVE  OwnershipFacts'
  <2> DEFINE e == [Deleted(i) EXCEPT !.linked = NoSig, !.name = s, !.handler = TypeOf[v],
                                     !.size = 0, !.off = 0, !.ptr = o]
             c == [val |-> v, shape |-> "cooked"]
  <2>1. o \in Objects
    BY DEF Free
  <2>2. e \in Slot /\ e.ptr = o /\ e.handler # Null
    BY <1>2, <1>3, <1>4, <2>1 DEF Slot
  <2>3. c \in Contents
    BY DEF Contents, Shapes
  <2>4. Place(i, e) /\ heap' = [HeapAfterDelete(i) EXCEPT ![o] = c]
    BY <1>4 DEF Written
  <2> HIDE DEF e, c
  <2> QED BY <1>4, <2>2, <2>3, <2>4, OverwriteFull
<1>5. ASSUME i # 0, NEW e \in Slot, e.ptr = Null, Place(i, e), heap' = HeapAfterDelete(i)
      PROVE  OwnershipFacts'
  BY <1>5, OverwriteEmpty
<1>6. CASE i # 0 /\ WriteRefused(s, v, i)
  <2> DEFINE e1 == [Deleted(i) EXCEPT !.linked = NoSig]
             e2 == [Deleted(i) EXCEPT !.linked = NoSig, !.name = s, !.handler = TypeOf[v],
                                      !.size = 0, !.off = 0, !.ptr = Null]
  <2>1. e1 \in Slot /\ e1.ptr = Null
    BY <1>2, <1>6 DEF Slot
  <2>2. e2 \in Slot /\ e2.ptr = Null
    BY <1>2, <1>3, <1>6 DEF Slot
  <2>3. heap' = HeapAfterDelete(i) /\ (Place(i, Deleted(i)) \/ Place(i, e1) \/ Place(i, e2))
    BY <1>6 DEF WriteRefused
  <2> HIDE DEF e1, e2
  <2> QED BY <1>2, <1>5, <1>6, <2>1, <2>2, <2>3
<1> QED BY <1>1, <1>4, <1>6 DEF WriteTag

LEMMA WriteRawTagOwns ==
    ASSUME OwnershipInv, NEW s \in Sigs, NEW v \in Payloads, WriteRawTag(s, v)
    PROVE  OwnershipFacts'
<1> DEFINE i == NewPos(s)
           entry(name, p) ==
             [Deleted(i) EXCEPT !.raw = TRUE, !.name = name, !.linked = NoSig,
                                !.handler = Null, !.ptr = p, !.size = Width[v]]
           c == [val |-> v, shape |-> "raw"]
<1>1. CASE UNCHANGED <<slot, count, heap>>
  BY <1>1, LeftAlone
<1>2. ASSUME i # 0, NEW name \in Sigs \cup {NoSig}, NEW p \in Objects \cup {Null}
      PROVE  entry(name, p) \in Slot /\ entry(name, p).ptr = p /\ entry(name, p).raw
  <2>1. Deleted(i) \in Slot
    BY <1>2, NewPosType, DeletedType DEF OwnershipInv
  <2>2. Width[v] \in Nat
    BY PayloadAssumption
  <2> QED BY <1>2, <2>1, <2>2 DEF Slot
<1>3. ASSUME i # 0, NEW o \in Free(HeapAfterDelete(i)), Place(i, entry(s, o)),
             heap' = [HeapAfterDelete(i) EXCEPT ![o] = c]
      PROVE  OwnershipFacts'
  <2>1. o \in Objects
    BY DEF Free
  <2>2. c \in Contents
    BY DEF Contents, Shapes
  <2> DEFINE e == entry(s, o)
  <2>3. e \in Slot /\ e.ptr = o /\ e.raw /\ Place(i, e)
    BY <1>2, <1>3, <2>1
  <2> HIDE DEF e, c
  <2> QED BY <1>3, <2>2, <2>3, OverwriteFull
<1>4. CASE i # 0 /\ Place(i, entry(NoSig, Null)) /\ heap' = HeapAfterDelete(i)
  <2> DEFINE e == entry(NoSig, Null)
  <2>1. e \in Slot /\ e.ptr = Null /\ Place(i, e)
    BY <1>2, <1>4
  <2> HIDE DEF e
  <2> QED BY <1>4, <2>1, OverwriteEmpty
<1> QED BY <1>1, <1>3, <1>4 DEF WriteRawTag

LEMMA LinkTagOwns ==
    ASSUME OwnershipInv, NEW s \in Sigs, NEW dest \in Sigs, LinkTag(s, dest)
    PROVE  OwnershipFacts'
<1> DEFINE i == NewPos(s)
           e == [Deleted(i) EXCEPT !.raw = FALSE, !.name = s, !.linked = dest,
                                   !.ptr = Null, !.size = 0, !.off = 0]
<1>1. CASE i = 0
  BY <1>1, LeftAlone DEF LinkTag
<1>2. CASE i # 0
  <2>1. Deleted(i) \in Slot
    BY <1>2, NewPosType, DeletedType DEF OwnershipInv
  <2>2. e \in Slot /\ e.ptr = Null
    BY <2>1 DEF Slot
  <2>3. Place(i, e) /\ heap' = HeapAfterDelete(i)
    BY <1>2 DEF LinkTag
  <2> HIDE DEF e
  <2> QED BY <1>2, <2>2, <2>3, OverwriteEmpty
<1> QED BY <1>1, <1>2

\* Closing leaves nothing allocated, and opening allocates nothing.
LEMMA ReopenOwns ==
    ASSUME OwnershipInv, SaveAndReopen
    PROVE  OwnershipFacts'
<1>1. \A o \in Objects : heap'[o] = Unused
  BY DEF SaveAndReopen, HeapAfterClose, OwnershipInv, Ownership
<1>2. slot' \in [Position -> Slot] /\ count' \in 0..MaxTags
      /\ \A k \in Position : slot'[k].ptr = Null
  BY ReadDirectoryType DEF SaveAndReopen, OwnershipInv
<1>3. 1..count' \in SUBSET Position
  BY <1>2, TableAssumption DEF Position
<1> QED BY <1>1, <1>2, <1>3 DEF OwnershipFacts, Ownership, Fresh, Freeable

LEMMA ReopenType ==
    ASSUME OwnershipInv, SaveAndReopen
    PROVE  TypeOK'
<1>1. slot' \in [Position -> Slot] /\ count' \in 0..MaxTags
  BY ReadDirectoryType DEF SaveAndReopen, OwnershipInv
<1>2. heap' \in [Objects -> Contents \cup {Unused}]
  BY DEF SaveAndReopen, HeapAfterClose, OwnershipInv, TypeOK
<1>3. \A off \in DOMAIN file'.block : file'.block[off].val \in Payloads \cup {Garbage}
  BY SavedFileType DEF SaveAndReopen, OwnershipInv
<1>4. fate' = fate /\ answer' = [NoAnswer EXCEPT !.op = "Reopen"]
  BY DEF SaveAndReopen
<1> QED BY <1>1, <1>2, <1>3, <1>4 DEF TypeOK, OwnershipInv, NoAnswer

(***************************************************************************)
(* The invariant.                                                          *)
(***************************************************************************)
LEMMA EmptyOwns ==
    Empty => OwnershipInv
<1> SUFFICES ASSUME Empty PROVE OwnershipInv
  OBVIOUS
<1>1. EmptySlot \in Slot
  BY DEF EmptySlot, Slot
<1>2. TypeOK
  BY <1>1, TableAssumption DEF Empty, TypeOK, NoFile, NoAnswer
<1>3. Ownership /\ Fresh /\ Freeable
  BY DEF Empty, Ownership, Fresh, Freeable, EmptySlot, Position
<1> QED BY <1>2, <1>3 DEF OwnershipInv

LEMMA StepOwns ==
    OwnershipInv /\ [ProfileNext]_vars => OwnershipInv'
<1> SUFFICES ASSUME OwnershipInv, [ProfileNext]_vars PROVE OwnershipInv'
  OBVIOUS
<1>0. TypeOK' /\ OwnershipFacts' => OwnershipInv'
  BY DEF OwnershipInv, OwnershipFacts
<1>1. ASSUME NEW s \in Sigs, ReadTag(s) PROVE OwnershipInv'
  BY <1>0, <1>1, ReadTagType, ReadTagOwns DEF OwnershipInv
<1>2. ASSUME NEW s \in Sigs, ReadRawTag(s) PROVE OwnershipInv'
  BY <1>0, <1>2, ReadRawTagType, ReadRawTagOwns DEF OwnershipInv
<1>3. ASSUME NEW s \in Sigs, DeleteTag(s) PROVE OwnershipInv'
  BY <1>0, <1>3, DeleteTagType, DeleteTagOwns DEF OwnershipInv
<1>4. ASSUME NEW s \in Sigs, NEW v \in Payloads, WriteTag(s, v) PROVE OwnershipInv'
  BY <1>0, <1>4, WriteTagType, WriteTagOwns DEF OwnershipInv
<1>5. ASSUME NEW s \in Sigs, NEW v \in Payloads, WriteRawTag(s, v) PROVE OwnershipInv'
  BY <1>0, <1>5, WriteRawTagType, WriteRawTagOwns DEF OwnershipInv
<1>6. ASSUME NEW s \in Sigs, NEW t \in Sigs, LinkTag(s, t) PROVE OwnershipInv'
  BY <1>0, <1>6, LinkTagType, LinkTagOwns DEF OwnershipInv
<1>7. CASE SaveFails
  <2>1. TypeOK'
    BY <1>7 DEF SaveFails, Done, Return, OwnershipInv, TypeOK
  <2> QED BY <1>0, <1>7, <2>1, LeftAlone DEF SaveFails
<1>8. CASE SaveOutOfMemory
  <2>1. TypeOK'
    BY <1>8 DEF SaveOutOfMemory, NoFile, NoAnswer, OwnershipInv, TypeOK
  <2> QED BY <1>0, <1>8, <2>1, LeftAlone DEF SaveOutOfMemory
<1>9. CASE SaveAndReopen
  BY <1>0, <1>9, ReopenType, ReopenOwns
<1>10. CASE UNCHANGED vars
  <2>1. TypeOK'
    BY <1>10 DEF vars, OwnershipInv, TypeOK
  <2> QED BY <1>0, <1>10, <2>1, LeftAlone DEF vars
<1> QED BY <1>1, <1>2, <1>3, <1>4, <1>5, <1>6, <1>7, <1>8, <1>9, <1>10 DEF ProfileNext, Next

\* The strengthened invariant, of which the theorems below are the parts.
THEOREM Invariance == Spec => []OwnershipInv
BY EmptyOwns, StepOwns, PTL DEF Spec

\* Every variable keeps its type, whatever the client calls and whatever fails:
\* in particular no call writes past the table of tags.
THEOREM TypeCorrect == Spec => []TypeOK
<1>1. OwnershipInv => TypeOK
  BY DEF OwnershipInv
<1> QED BY <1>1, Invariance, PTL

\* Every heap block belongs to exactly one position of the directory, and no
\* position holds a block that was freed: no leak and no double free, for any
\* client, table size and pattern of failing allocations.
THEOREM EveryBlockOwned == Spec => []Ownership
<1>1. OwnershipInv => Ownership
  BY DEF OwnershipInv
<1> QED BY <1>1, Invariance, PTL

(***************************************************************************)
(* One entry for each name.                                                *)
(***************************************************************************)
\* Storing an entry for s where _cmsNewTag says; it may keep the name it had.
LEMMA PlaceUnique ==
    ASSUME TypeOK, UniqueNames, NEW s \in Sigs, NewPos(s) # 0, NEW e,
           e.name \in {s, NoSig, slot[NewPos(s)].name}, Place(NewPos(s), e)
    PROVE  UniqueNames'
<1> DEFINE i == NewPos(s)
<1>1. count \in Nat /\ MaxTags \in Nat /\ count <= MaxTags
  BY TableAssumption DEF TypeOK
<1>2. i \in Position /\ i <= count + 1
  <2>1. SearchOneTag(s) \in 0..count
    BY SearchOneTagType
  <2> QED  BY <1>1, <2>1 DEF NewPos, cmsIsTag, Position
<1>3. slot[i].name \in {s, NoSig}
  <2>1. CASE cmsIsTag(s)
    BY <2>1, SearchOneTagType DEF NewPos, cmsIsTag
  <2>2. CASE ~cmsIsTag(s)
    <3>1. i = count + 1
      BY <2>2 DEF NewPos
    <3> QED  BY <1>1, <1>2, <3>1 DEF UniqueNames
  <2> QED  BY <2>1, <2>2
<1>4. \A j \in Position : j # i => slot[j].name # s
  <2>1. CASE cmsIsTag(s)
    <3>1. slot[i].name = s
      BY <2>1, SearchOneTagType DEF NewPos, cmsIsTag
    <3> QED  BY <1>2, <3>1, SigsAssumption DEF UniqueNames
  <2>2. CASE ~cmsIsTag(s)
    <3>1. \A j \in 1..count : slot[j].name # s
      BY <2>2, SearchOneTagType DEF cmsIsTag
    <3>2. \A j \in Position : j > count => slot[j].name # s
      BY SigsAssumption DEF UniqueNames
    <3> QED  BY <1>1, <3>1, <3>2 DEF Position
  <2> QED  BY <2>1, <2>2
<1>5. \A j \in Position : slot'[j] = IF j = i THEN e ELSE slot[j]
  BY <1>2 DEF Place, TypeOK
<1>6. count' = (IF i > count THEN i ELSE count) /\ e.name \in {s, NoSig}
  BY <1>3 DEF Place
<1>7. \A j, k \in Position : j # k /\ slot'[j].name = slot'[k].name => slot'[j].name = NoSig
  BY <1>2, <1>4, <1>5, <1>6, SigsAssumption DEF UniqueNames
<1>8. \A j \in Position : j > count' => slot'[j].name = NoSig
  <2> SUFFICES ASSUME NEW j \in Position, j > count' PROVE slot'[j].name = NoSig
    OBVIOUS
  <2>1. j > count /\ j # i
    BY <1>1, <1>2, <1>6 DEF Position
  <2> QED  BY <1>5, <2>1 DEF UniqueNames
<1> QED  BY <1>7, <1>8 DEF UniqueNames

\* Calls that change no name and no count.
LEMMA SameNames ==
    ASSUME UniqueNames, count' = count, \A i \in Position : slot'[i].name \in {slot[i].name, NoSig}
    PROVE  UniqueNames'
  BY DEF UniqueNames

\* Reading frees data and sets handlers, never a name.
LEMMA ReadsKeepNames ==
    ASSUME TypeOK, UniqueNames, NEW s \in Sigs, ReadTag(s) \/ ReadRawTag(s)
    PROVE  UniqueNames'
<1> DEFINE n == SearchTag(s)
<1>1. \A i \in Position : slot[i] \in Slot
  BY DEF TypeOK
<1>2. ASSUME freeOneTag(n), UNCHANGED count PROVE UniqueNames'
  <2>1. \A i \in Position : slot'[i].name = slot[i].name
    BY <1>1, <1>2 DEF freeOneTag, TypeOK, Slot
  <2> QED  BY <1>2, <2>1, SameNames
<1>3. ASSUME UNCHANGED <<slot, count>> PROVE UniqueNames'
  BY <1>3 DEF UniqueNames
<1>4. ASSUME ReadFromFile(s, n) PROVE UniqueNames'
  <2>1. UNCHANGED count
    BY <1>4 DEF ReadFromFile
  <2> DEFINE v == file.block[slot[n].off].val
             handled == [slot[n] EXCEPT !.handler = TypeOf[v]]
  <2>2. \/ slot' = slot
        \/ slot' = [slot EXCEPT ![n] = handled]
        \/ \E o : slot' = [slot EXCEPT ![n] = [handled EXCEPT !.ptr = o]]
    BY <1>4 DEF ReadFromFile
  <2>3. \A i \in Position : slot'[i].name = slot[i].name
    <3> SUFFICES ASSUME NEW i \in Position PROVE slot'[i].name = slot[i].name
      OBVIOUS
    <3>1. ASSUME i = n
          PROVE  handled.name = slot[i].name
                 /\ \A o : [handled EXCEPT !.ptr = o].name = slot[i].name
      BY <1>1, <3>1 DEF Slot
    <3>2. slot \in [Position -> Slot]
      BY DEF TypeOK
    <3> HIDE DEF handled
    <3> QED  BY <2>2, <3>1, <3>2
  <2> QED  BY <2>1, <2>3, SameNames
<1>5. CASE ReadTag(s)
  BY <1>2, <1>3, <1>4, <1>5 DEF ReadTag, ReadCached, Stop
<1>6. CASE ReadRawTag(s)
  BY <1>2, <1>3, <1>6 DEF ReadRawTag, ReadRawCached, ReadRawFromFile, Stop
<1> QED  BY <1>5, <1>6

\* Deleting leaves a hole.
LEMMA DeleteTagUnique ==
    ASSUME TypeOK, UniqueNames, NEW s \in Sigs, DeleteTag(s)
    PROVE  UniqueNames'
<1> DEFINE i == SearchOneTag(s)
<1>1. CASE i = 0
  BY <1>1 DEF DeleteTag, UniqueNames
<1>2. CASE i # 0
  <2>1. i \in Position
    BY <1>2, SearchOneTagType, TableAssumption DEF TypeOK, Position
  <2>2. Deleted(i) \in Slot
    BY <2>1, DeletedType
  <2>3. \A j \in Position : slot'[j].name \in {slot[j].name, NoSig}
    BY <1>2, <2>1, <2>2 DEF DeleteTag, TypeOK, Slot
  <2> QED  BY <2>3, SameNames DEF DeleteTag
<1> QED  BY <1>1, <1>2

\* A write or a link stores an entry where _cmsNewTag says, under its own name
\* if any, in the place of the data that was there.
Stores(s) ==
    LET i == NewPos(s)
    IN  /\ i # 0
        /\ \E e : e.name \in {s, NoSig, slot[i].name} /\ Place(i, e)
        /\ \/ heap' = HeapAfterDelete(i)
           \/ \E o \in Free(HeapAfterDelete(i)) : \E c : heap' = [HeapAfterDelete(i) EXCEPT ![o] = c]

LEMMA WritesStore ==
    ASSUME TypeOK, NEW s \in Sigs,
           \/ \E v \in Payloads : WriteTag(s, v) \/ WriteRawTag(s, v)
           \/ \E t \in Sigs : LinkTag(s, t)
    PROVE  file' = file /\ (UNCHANGED <<slot, count, heap>> \/ Stores(s))
<1> DEFINE i == NewPos(s)
           d == Deleted(i)
<1>0. file' = file
  BY DEF WriteTag, WriteRawTag, LinkTag, Return
<1>1. CASE i = 0
  BY <1>0, <1>1 DEF WriteTag, WriteRawTag, LinkTag
<1>2. CASE i # 0
  <2>1. i \in Position
    BY <1>2, NewPosType
  <2>2. d \in Slot /\ d.name = slot[i].name
    BY <2>1, DeletedType DEF Deleted, TypeOK, Slot
  <2>3. ASSUME NEW e, Place(i, e), e.name \in {s, NoSig, slot[i].name},
               \/ heap' = HeapAfterDelete(i)
               \/ \E o \in Free(HeapAfterDelete(i)) : \E c : heap' = [HeapAfterDelete(i) EXCEPT ![o] = c]
        PROVE  Stores(s)
    BY <1>2, <2>3 DEF Stores
  <2>4. ASSUME NEW v \in Payloads, WriteTag(s, v) PROVE Stores(s)
    <3>1. CASE \E o \in Free(HeapAfterDelete(i)) : Written(s, v, i, o)
      <4>1. PICK o \in Free(HeapAfterDelete(i)) : Written(s, v, i, o)
        BY <3>1
      <4> DEFINE e == [d EXCEPT !.linked = NoSig, !.name = s, !.handler = TypeOf[v],
                                !.size = 0, !.off = 0, !.ptr = o]
      <4>2. Place(i, e) /\ e.name = s
        BY <2>2, <4>1 DEF Written, Slot
      <4>3. \E c : heap' = [HeapAfterDelete(i) EXCEPT ![o] = c]
        BY <4>1 DEF Written
      <4> QED  BY <2>3, <4>2, <4>3
    <3>2. CASE WriteRefused(s, v, i)
      <4> DEFINE e == [d EXCEPT !.linked = NoSig]
                 f == [d EXCEPT !.linked = NoSig, !.name = s,
                                !.handler = TypeOf[v], !.size = 0, !.off = 0, !.ptr = Null]
      <4>1. e.name = slot[i].name /\ f.name = s
        BY <2>2 DEF Slot
      <4>2. heap' = HeapAfterDelete(i) /\ (Place(i, d) \/ Place(i, e) \/ Place(i, f))
        BY <3>2 DEF WriteRefused
      <4> QED  BY <2>2, <2>3, <4>1, <4>2
    <3> QED  BY <1>2, <2>4, <3>1, <3>2 DEF WriteTag
  <2>5. ASSUME NEW v \in Payloads, WriteRawTag(s, v) PROVE Stores(s)
    <3> DEFINE e(name, p) == [d EXCEPT !.raw = TRUE, !.name = name, !.linked = NoSig,
                                       !.handler = Null, !.ptr = p, !.size = Width[v]]
    <3>1. \/ \E o \in Free(HeapAfterDelete(i)) :
                Place(i, e(s, o)) /\ \E c : heap' = [HeapAfterDelete(i) EXCEPT ![o] = c]
          \/ Place(i, e(NoSig, Null)) /\ heap' = HeapAfterDelete(i)
      BY <1>2, <2>5 DEF WriteRawTag
    <3>2. \A name, p : e(name, p).name = name
      BY <2>2 DEF Slot
    <3> HIDE DEF e
    <3> QED  BY <2>3, <3>1, <3>2
  <2>6. ASSUME NEW t \in Sigs, LinkTag(s, t) PROVE Stores(s)
    <3> DEFINE e == [d EXCEPT !.raw = FALSE, !.name = s, !.linked = t,
                              !.ptr = Null, !.size = 0, !.off = 0]
    <3>1. Place(i, e) /\ e.name = s /\ heap' = HeapAfterDelete(i)
      BY <1>2, <2>2, <2>6 DEF LinkTag, Slot
    <3> QED  BY <2>3, <3>1
  <2> QED  BY <1>0, <2>4, <2>5, <2>6
<1> QED  BY <1>1, <1>2

LEMMA WritesUnique ==
    ASSUME TypeOK, UniqueNames, NEW s \in Sigs,
           \/ \E v \in Payloads : WriteTag(s, v) \/ WriteRawTag(s, v)
           \/ \E t \in Sigs : LinkTag(s, t)
    PROVE  UniqueNames'
<1>1. CASE UNCHANGED <<slot, count, heap>>
  BY <1>1 DEF UniqueNames
<1>2. CASE Stores(s)
  BY <1>2, PlaceUnique DEF Stores
<1> QED  BY <1>1, <1>2, WritesStore

\* A directory that was read has the names that were kept, each once.
LEMMA ReopenUnique ==
    ASSUME TypeOK, UniqueNames, SaveAndReopen
    PROVE  UniqueNames'
<1>1. /\ slot' = ReadDirectory /\ count' = Cardinality(Kept) /\ ~Duplicated
      /\ Kept \in SUBSET (1..count) /\ count \in Nat
  BY TableAssumption DEF SaveAndReopen, Kept, Announced, TypeOK
<1>2. EmptySlot.name = NoSig
  BY DEF EmptySlot
<1>3. ASSUME NEW k \in Position, ReadDirectory[k].name # NoSig
      PROVE  \E i \in Kept : Rank(i) = k /\ ReadDirectory[k].name = slot[i].name
  <2>1. \E i \in Kept : Rank(i) = k
    BY <1>2, <1>3 DEF ReadDirectory
  <2> DEFINE i == CHOOSE j \in Kept : Rank(j) = k
             e == [EmptySlot EXCEPT !.name = slot[i].name, !.linked = LinkFound(i),
                                    !.off = SetLinks[i].off, !.size = SetLinks[i].size]
  <2>2. i \in Kept /\ Rank(i) = k
    BY <2>1
  <2>3. ReadDirectory[k] = e
    BY <2>1 DEF ReadDirectory
  <2>4. e.name = slot[i].name
    BY DEF EmptySlot
  <2> QED  BY <2>2, <2>3, <2>4
<1>4. \A k, l \in Position :
        k # l /\ ReadDirectory[k].name = ReadDirectory[l].name => ReadDirectory[k].name = NoSig
  <2> SUFFICES ASSUME NEW k \in Position, NEW l \in Position, k # l,
                      ReadDirectory[k].name = ReadDirectory[l].name,
                      ReadDirectory[k].name # NoSig
               PROVE  FALSE
    OBVIOUS
  <2>1. PICK i \in Kept : Rank(i) = k /\ ReadDirectory[k].name = slot[i].name
    BY <1>3
  <2>2. PICK j \in Kept : Rank(j) = l /\ ReadDirectory[l].name = slot[j].name
    BY <1>3
  <2> QED  BY <1>1, <2>1, <2>2 DEF Duplicated
<1>5. \A i \in Kept : Rank(i) <= Cardinality(Kept)
  <2>0. IsFiniteSet(1..count)
    BY <1>1, FS_Interval
  <2>1. IsFiniteSet(Kept)
    BY <1>1, <2>0, FS_Subset
  <2> SUFFICES ASSUME NEW i \in Kept PROVE Cardinality({j \in Kept : j <= i}) <= Cardinality(Kept)
    BY DEF Rank
  <2>2. {j \in Kept : j <= i} \in SUBSET Kept
    OBVIOUS
  <2> QED  BY <2>1, <2>2, FS_Subset
<1>6. \A k \in Position : k > Cardinality(Kept) => ReadDirectory[k].name = NoSig
  <2> SUFFICES ASSUME NEW k \in Position, k > Cardinality(Kept), ReadDirectory[k].name # NoSig
               PROVE  FALSE
    OBVIOUS
  <2>1. PICK i \in Kept : Rank(i) = k
    BY <1>3
  <2>2. Cardinality(Kept) \in Nat
    BY ReadDirectoryType
  <2> QED  BY <1>5, <2>1, <2>2 DEF Position
<1> QED  BY <1>1, <1>4, <1>6 DEF UniqueNames

LEMMA NamesInvariance == Spec => [](TypeOK /\ UniqueNames)
<1>1. Empty => UniqueNames
  BY DEF Empty, UniqueNames, EmptySlot
<1>2. TypeOK /\ UniqueNames /\ [ProfileNext]_vars => UniqueNames'
  <2> SUFFICES ASSUME TypeOK, UniqueNames, [ProfileNext]_vars PROVE UniqueNames'
    OBVIOUS
  <2>1. ASSUME UNCHANGED <<slot, count>> PROVE UniqueNames'
    BY <2>1 DEF UniqueNames
  <2> QED  BY <2>1, ReadsKeepNames, DeleteTagUnique, WritesUnique, ReopenUnique
           DEF ProfileNext, Next, SaveFails, SaveOutOfMemory, vars
<1> QED  BY <1>1, <1>2, TypeCorrect, PTL DEF Spec

\* A name leads to one entry, so that a lookup, an overwrite and a deletion all
\* mean the same tag, for any client, table size and pattern of failures.
THEOREM OneEntryForEachName == Spec => []NamesUnique
<1>1. TypeOK /\ UniqueNames => NamesUnique
  BY TableAssumption DEF UniqueNames, NamesUnique, TypeOK, Position
<1> QED  BY <1>1, NamesInvariance, PTL

(***************************************************************************)
(* Writes are local.                                                       *)
(***************************************************************************)
\* A write of s changes one entry, and frees the block which it held.
ChangesOnly(s) ==
    /\ file' = file
    /\ \E i \in Position :
         /\ EntryChanges(s, i)
         /\ \A o \in Objects : o # slot[i].ptr /\ heap[o] # Unused => heap'[o] = heap[o]

LEMMA NewPosName ==
    ASSUME TypeOK, UniqueNames, NEW s \in Sigs, NewPos(s) # 0
    PROVE  /\ NewPos(s) \in Position /\ NewPos(s) <= count + 1
           /\ slot[NewPos(s)].name \in {s, NoSig}
           /\ \A j \in Position : j # NewPos(s) => slot[j].name # s
  BY StoredWhere DEF TypeOK, DirectoryOK

LEMMA WritesChangeOnly ==
    ASSUME OwnershipInv, UniqueNames, NEW s \in Sigs,
           \/ DeleteTag(s)
           \/ \E v \in Payloads : WriteTag(s, v) \/ WriteRawTag(s, v)
           \/ \E t \in Sigs : LinkTag(s, t)
    PROVE  UNCHANGED <<slot, count, heap, file>> \/ ChangesOnly(s)
<1>0. TypeOK /\ count \in Nat /\ count <= MaxTags
  BY TableAssumption DEF OwnershipInv, TypeOK
<1>1. CASE DeleteTag(s)
  <2> DEFINE i == SearchOneTag(s)
  <2>1. CASE i = 0
    BY <1>1, <2>1 DEF DeleteTag, Done, Return
  <2>2. CASE i # 0
    <3>1. i \in 1..count /\ i \in Position /\ slot[i].name = s
      BY <1>0, <2>2, SearchOneTagType, TableAssumption DEF Position
    <3>2. \A j \in Position : j # i => slot[j].name # s
      BY <3>1, SigsAssumption DEF UniqueNames
    <3> DEFINE e == [Deleted(i) EXCEPT !.name = NoSig]
    <3>3. Deleted(i) \in Slot
      BY <1>0, <3>1, DeletedType
    <3>4. e.name = NoSig
      BY <3>3 DEF Slot
    <3>5. slot' = [slot EXCEPT ![i] = e] /\ count' = count /\ heap' = HeapWithout(slot[i].ptr) /\ file' = file
      BY <1>1, <2>2, <3>1, DeletedIsEmpty DEF DeleteTag, Done, Return
    <3> HIDE DEF e
    <3>6. slot'[i].name = NoSig /\ \A j \in Position : j # i => slot'[j] = slot[j]
      BY <1>0, <3>1, <3>4, <3>5 DEF TypeOK
    <3>7. \A o \in Objects : o # slot[i].ptr => heap'[o] = heap[o]
      BY <1>0, <3>5 DEF HeapWithout, TypeOK
    <3>8. i <= count + 1 /\ count' = IF i > count THEN i ELSE count
      BY <1>0, <3>1, <3>5
    <3> HIDE DEF i
    <3> QED  BY <3>1, <3>2, <3>5, <3>6, <3>7, <3>8 DEF ChangesOnly, EntryChanges
  <2> QED  BY <2>1, <2>2
<1>2. CASE Stores(s) /\ file' = file
  <2> DEFINE i == NewPos(s)
  <2>1. /\ i # 0
        /\ \E e : e.name \in {s, NoSig, slot[i].name} /\ Place(i, e)
        /\ \/ heap' = HeapAfterDelete(i)
           \/ \E o \in Free(HeapAfterDelete(i)) : \E c : heap' = [HeapAfterDelete(i) EXCEPT ![o] = c]
    BY <1>2 DEF Stores
  <2>2. /\ i \in Position /\ i <= count + 1 /\ slot[i].name \in {s, NoSig}
        /\ \A j \in Position : j # i => slot[j].name # s
    BY <1>0, <2>1, NewPosName
  <2>3. HeapAfterDelete(i) = HeapWithout(slot[i].ptr)
    BY <2>2, DeletedIsEmpty
  <2> HIDE DEF i
  <2>4. PICK e : e.name \in {s, NoSig, slot[i].name} /\ Place(i, e)
    BY <2>1
  <2>5. /\ slot'[i].name \in {s, NoSig} /\ \A j \in Position : j # i => slot'[j] = slot[j]
        /\ count' = IF i > count THEN i ELSE count
    BY <1>0, <2>2, <2>4 DEF Place, TypeOK
  <2>6. \A o \in Objects : o # slot[i].ptr /\ heap[o] # Unused => heap'[o] = heap[o]
    <3> SUFFICES ASSUME NEW o \in Objects, o # slot[i].ptr, heap[o] # Unused PROVE heap'[o] = heap[o]
      OBVIOUS
    <3>1. heap \in [Objects -> Contents \cup {Unused}] /\ HeapWithout(slot[i].ptr)[o] = heap[o]
      BY <1>0 DEF HeapWithout, TypeOK
    <3>2. CASE heap' = HeapAfterDelete(i)
      BY <2>3, <3>1, <3>2
    <3>3. ASSUME NEW p \in Free(HeapAfterDelete(i)), NEW c, heap' = [HeapAfterDelete(i) EXCEPT ![p] = c]
          PROVE  heap'[o] = heap[o]
      <4>1. p # o
        BY <2>3, <3>1, <3>3 DEF Free
      <4>2. HeapAfterDelete(i) \in [Objects -> Contents \cup {Unused}]
        BY <1>0, <2>2, DeletedType
      <4> QED  BY <2>3, <3>1, <3>3, <4>1, <4>2
    <3> QED  BY <2>1, <3>2, <3>3
  <2> QED  BY <1>2, <2>2, <2>5, <2>6 DEF ChangesOnly, EntryChanges
<1> QED  BY <1>0, <1>1, <1>2, WritesStore

\* SearchOneTag in the next state.
LEMMA SearchOneTagNext ==
    ASSUME TypeOK', NEW s
    PROVE  /\ SearchOneTag(s)' \in 0..count'
           /\ SearchOneTag(s)' # 0 => slot'[SearchOneTag(s)'].name = s
           /\ \A i \in 1..count' : slot'[i].name = s => SearchOneTag(s)' # 0
  BY FindsNext DEF TypeOK, DirectoryOK

LEMMA Elsewhere ==
    ASSUME TypeOK, TypeOK', UniqueNames, NEW s \in Sigs, NEW i \in Position, EntryChanges(s, i),
           NEW u \in Sigs, u # s
    PROVE  /\ SearchOneTag(u)' = SearchOneTag(u) /\ Hop'[u] = Hop[u]
           /\ SearchOneTag(u) # 0 => slot'[SearchOneTag(u)] = slot[SearchOneTag(u)]
  BY FoundElsewhere DEF TypeOK, DirectoryOK

\* A tag keeps its contents if its path, the entry at its end, and the block
\* of that one stay as they were.
LEMMA SameContent ==
    ASSUME TypeOK, TypeOK', NEW t \in Sigs, file' = file, count <= count',
           \A u \in LinkPath(t) : Hop'[u] = Hop[u] /\ SearchOneTag(u)' = SearchOneTag(u),
           \A u \in LinkPath(t) : LET n == SearchOneTag(u)
                                  IN  n # 0 => /\ slot'[n] = slot[n]
                                               /\ slot[n].ptr # Null => heap'[slot[n].ptr] = heap[slot[n].ptr]
    PROVE  Content(t)' = Content(t)
<1>0. DirectoryOK /\ DirectoryOK' /\ count \in Nat /\ count' \in Nat
  BY TableAssumption DEF TypeOK, DirectoryOK
<1>1. SearchTag(t)' = SearchTag(t)
  BY <1>0, SameSearch
<1> DEFINE n == SearchTag(t)
<1>2. n = Loop \/ \E e \in LinkPath(t) : n = SearchOneTag(e)
  BY <1>0, SearchTagFinds
<1>3. ASSUME n # Loop, n # 0
      PROVE  /\ n \in 1..count /\ n \in 1..count' /\ slot'[n] = slot[n]
             /\ slot[n].ptr # Null => heap'[slot[n].ptr] = heap[slot[n].ptr]
  <2>1. PICK e \in LinkPath(t) : n = SearchOneTag(e)
    BY <1>2, <1>3
  <2>2. n \in 0..count
    BY <2>1, SearchOneTagType
  <2> HIDE DEF n
  <2>3. n \in 1..count /\ n \in 1..count'
    BY <1>0, <1>3, <2>2
  <2> QED  BY <1>3, <2>1, <2>3
<1> HIDE DEF n
<1>4. CASE n = Loop \/ n = 0
  <2>1. n \notin 1..count /\ n \notin 1..count'
    BY <1>0, <1>4 DEF Loop
  <2> QED  BY <1>1, <2>1 DEF Content, n
<1>5. CASE n # Loop /\ n # 0
  <2>1. PICK e : e = slot[n]
    OBVIOUS
  <2>2. BytesAt(e.off, e.size)' = BytesAt(e.off, e.size) /\ Intact(e.off, e.size)' = Intact(e.off, e.size)
    BY DEF BytesAt, IsBlock, Intact
  <2>3. Content(t) = IF e.ptr # Null THEN heap[e.ptr].val
                     ELSE IF Intact(e.off, e.size) THEN BytesAt(e.off, e.size) ELSE Null
    BY <1>3, <1>5, <2>1 DEF Content, n
  <2>4. Content(t)' = IF e.ptr # Null THEN heap'[e.ptr].val
                      ELSE IF Intact(e.off, e.size)' THEN BytesAt(e.off, e.size)' ELSE Null
    BY <1>1, <1>3, <1>5, <2>1 DEF Content, n
  <2> QED  BY <1>3, <1>5, <2>1, <2>2, <2>3, <2>4
<1> QED  BY <1>4, <1>5

\* The answer names the call that gave it, and its tag.
LEMMA AnswerNames ==
    ASSUME NEW s \in Sigs
    PROVE  /\ ReadTag(s) => answer'.op = "ReadTag" /\ answer'.sig = s
           /\ ReadRawTag(s) => answer'.op = "ReadRawTag" /\ answer'.sig = s
           /\ DeleteTag(s) => answer'.op = "DeleteTag" /\ answer'.sig = s
           /\ \A v \in Payloads : WriteTag(s, v) => answer'.op = "WriteTag" /\ answer'.sig = s
           /\ \A v \in Payloads : WriteRawTag(s, v) => answer'.op = "WriteRawTag" /\ answer'.sig = s
           /\ \A t \in Sigs : LinkTag(s, t) => answer'.op = "LinkTag" /\ answer'.sig = s
<1>1. \A op, v : Return(op, s, v) => answer'.op = op /\ answer'.sig = s
  BY DEF Return
<1>2. \A op, f : Stop(op, s, f) => answer'.op = op /\ answer'.sig = s
  BY DEF Stop
<1> QED  BY <1>1, <1>2 DEF ReadTag, ReadRawTag, ReadCached, ReadFromFile, ReadRawCached, ReadRawFromFile,
                           DeleteTag, Done, WriteTag, WriteRawTag, LinkTag

LEMMA AnswerOfSave ==
    ASSUME SaveFails \/ SaveOutOfMemory \/ SaveAndReopen
    PROVE  answer'.op \in {"Save", "Reopen"}
  BY DEF SaveFails, SaveOutOfMemory, SaveAndReopen, Done, Return, NoAnswer

\* The call that gave the answer, if it was a write.
LEMMA WhichWrite ==
    ASSUME ProfileNext, answer'.op \in Writes
    PROVE  \E s \in Sigs :
             /\ answer'.sig = s
             /\ \/ DeleteTag(s)
                \/ \E v \in Payloads : WriteTag(s, v) \/ WriteRawTag(s, v)
                \/ \E t \in Sigs : LinkTag(s, t)
  BY AnswerNames, AnswerOfSave DEF ProfileNext, Next, Writes

\* The same of a read.
LEMMA WhichRead ==
    ASSUME ProfileNext, answer'.op \in Reads
    PROVE  \E s \in Sigs : answer'.sig = s /\ (ReadTag(s) \/ ReadRawTag(s))
  BY AnswerNames, AnswerOfSave DEF ProfileNext, Next, Reads

LEMMA WriteIsLocal ==
    ASSUME OwnershipInv, OwnershipInv', UniqueNames, NEW s \in Sigs,
           UNCHANGED <<slot, count, heap, file>> \/ ChangesOnly(s),
           NEW t \in Sigs, s \notin LinkPath(t)
    PROVE  Content(t)' = Content(t)
<1>0. TypeOK /\ TypeOK' /\ DirectoryOK /\ count \in Nat /\ count' \in Nat /\ LinkPath(t) \subseteq Sigs
  BY PathLeast, TableAssumption DEF OwnershipInv, TypeOK, DirectoryOK
<1>1. CASE UNCHANGED <<slot, count, heap, file>>
  <2>1. \A u \in Sigs : SearchOneTag(u)' = SearchOneTag(u)
    BY <1>1 DEF SearchOneTag
  <2>2. Hop' = Hop
    BY <1>1, <2>1 DEF Hop, SearchOneTag
  <2> QED  BY <1>0, <1>1, <2>1, <2>2, SameContent
<1>2. CASE ChangesOnly(s)
  <2>1. PICK i \in Position :
          /\ EntryChanges(s, i)
          /\ \A o \in Objects : o # slot[i].ptr /\ heap[o] # Unused => heap'[o] = heap[o]
    BY <1>2 DEF ChangesOnly
  <2>2. file' = file /\ count <= count'
    BY <1>0, <1>2, <2>1 DEF ChangesOnly, EntryChanges, Position
  <2>3. \A u \in LinkPath(t) :
          /\ SearchOneTag(u)' = SearchOneTag(u) /\ Hop'[u] = Hop[u]
          /\ SearchOneTag(u) # 0 => slot'[SearchOneTag(u)] = slot[SearchOneTag(u)]
    BY <1>0, <2>1, Elsewhere
  <2>4. ASSUME NEW u \in LinkPath(t), SearchOneTag(u) # 0, slot[SearchOneTag(u)].ptr # Null
        PROVE  heap'[slot[SearchOneTag(u)].ptr] = heap[slot[SearchOneTag(u)].ptr]
    <3> DEFINE n == SearchOneTag(u)
    <3>1. n \in 1..count /\ slot[n].name = u /\ n \in Position
      BY <1>0, <2>4, SearchOneTagType, TableAssumption DEF TypeOK, Position
    <3>2. u \notin {s, NoSig}
      BY <1>0, SigsAssumption
    <3> HIDE DEF n
    <3>3. n # i /\ slot[n].ptr \in Objects
      BY <1>0, <2>1, <2>4, <3>1, <3>2 DEF n, TypeOK, Slot, EntryChanges
    <3>4. heap[slot[n].ptr] # Unused
      BY <2>4, <3>1 DEF n, OwnershipInv, Ownership
    <3>5. slot[n].ptr # slot[i].ptr
      <4>1. CASE i \in 1..count
        BY <2>4, <3>1, <3>3, <4>1 DEF n, OwnershipInv, Ownership
      <4>2. CASE i \notin 1..count
        <5>1. slot[i].ptr = Null
          BY <1>0, <2>1, <4>2 DEF OwnershipInv, Fresh, Position
        <5> QED  BY <2>4, <5>1 DEF n
      <4> QED  BY <4>1, <4>2
    <3> QED  BY <2>1, <3>3, <3>4, <3>5 DEF n
  <2> QED  BY <1>0, <2>2, <2>3, <2>4, SameContent
<1> QED  BY <1>1, <1>2

\* Writing, deleting or linking a tag leaves alone the contents of every tag
\* that is not reached through it, for any client, any directory with links
\* and cycles of links, and any pattern of failures.
THEOREM WritesStayLocal == Spec => WritesAreLocal
<1>1. OwnershipInv /\ OwnershipInv' /\ UniqueNames /\ [ProfileNext]_vars
        => [answer'.op \in Writes =>
              LET after == ContentOfAll'
              IN  \A t \in Sigs : answer'.sig \notin LinkPath(t) => after[t] = Content(t)]_vars
  <2> SUFFICES ASSUME OwnershipInv, OwnershipInv', UniqueNames, ProfileNext, answer'.op \in Writes,
                      NEW t \in Sigs, answer'.sig \notin LinkPath(t)
               PROVE  ContentOfAll'[t] = Content(t)
    OBVIOUS
  <2>1. Content(t)' = Content(t)
    BY WhichWrite, WritesChangeOnly, WriteIsLocal
  <2> QED  BY <2>1 DEF ContentOfAll
<1> QED  BY <1>1, Invariance, NamesInvariance, PTL DEF Spec, WritesAreLocal

(***************************************************************************)
(* What a read frees.                                                      *)
(***************************************************************************)
\* A read frees a block only where the tag that it ends at is raw, or holds a
\* type that the tag asked for does not take: what is read as documented stays
\* in memory, whatever the client did before.
THEOREM ReadsFreeNoOther == Spec => ReadsFreeOnlyMisread
<1>1. OwnershipInv /\ [ProfileNext]_vars
        => [answer'.op \in Reads =>
              \A o \in Objects : heap[o] # Unused /\ heap'[o] # heap[o] =>
                LET n == SearchTag(answer'.sig)
                IN  slot[n].ptr = o /\ (slot[n].raw \/ ~TypeAllowed(answer'.sig, slot[n].handler))]_vars
  <2> SUFFICES ASSUME OwnershipInv, ProfileNext, answer'.op \in Reads,
                      NEW o \in Objects, heap[o] # Unused, heap'[o] # heap[o]
               PROVE  LET n == SearchTag(answer'.sig)
                      IN  slot[n].ptr = o /\ (slot[n].raw \/ ~TypeAllowed(answer'.sig, slot[n].handler))
    OBVIOUS
  <2>0. TypeOK /\ \A i \in 1..count : i \in Position
    BY TableAssumption DEF OwnershipInv, TypeOK, Position
  <2>1. ASSUME NEW n, freeOneTag(n) PROVE slot[n].ptr = o
    BY <2>0, <2>1 DEF freeOneTag, HeapWithout, TypeOK
  <2>2. ASSUME NEW s \in Sigs, NEW n, ReadFromFile(s, n) PROVE FALSE
    <3>1. PICK p \in Free(heap) : \E c : heap' = [heap EXCEPT ![p] = c]
      BY <2>2 DEF ReadFromFile
    <3> QED  BY <2>0, <3>1 DEF Free, TypeOK
  <2>3. ASSUME NEW s \in Sigs, ReadTag(s)
        PROVE  LET n == SearchTag(s)
               IN  answer'.sig = s /\ slot[n].ptr = o /\ (slot[n].raw \/ ~TypeAllowed(s, slot[n].handler))
    <3> DEFINE n == SearchTag(s)
    <3>1. n \in 1..count /\ slot[n].ptr # Null /\ ReadCached(s, n)
      BY <2>2, <2>3 DEF ReadTag, Stop
    <3>2. slot[n].raw \/ slot[n].handler # Null
      BY <2>0, <3>1 DEF OwnershipInv, Freeable
    <3> QED  BY <2>1, <3>1, <3>2 DEF ReadCached, Return
  <2>4. ASSUME NEW s \in Sigs, ReadRawTag(s)
        PROVE  LET n == SearchTag(s)
               IN  answer'.sig = s /\ slot[n].ptr = o /\ (slot[n].raw \/ ~TypeAllowed(s, slot[n].handler))
    <3> DEFINE n == SearchTag(s)
    <3>1. n \in 1..count /\ slot[n].ptr # Null /\ ReadRawCached(s, n)
      BY <2>4 DEF ReadRawTag, ReadRawFromFile, Stop
    <3>2. slot[n].raw \/ slot[n].handler # Null
      BY <2>0, <3>1 DEF OwnershipInv, Freeable
    <3> QED  BY <2>1, <3>1, <3>2 DEF ReadRawCached, Return
  <2> QED  BY <2>3, <2>4, WhichRead
<1> QED  BY <1>1, Invariance, PTL DEF Spec, ReadsFreeOnlyMisread

(***************************************************************************)
(* Documented calls return.                                                *)
(***************************************************************************)
\* Raw data is in memory.
RawHeld == \A i \in Position : slot[i].raw => slot[i].ptr # Null

\* Tags are linked to tags of their own descriptor, and what is held as a
\* structure is of a type that its tag takes.
Sound ==
    \A i \in 1..count : slot[i].name # NoSig =>
      /\ slot[i].linked # NoSig => SameDescriptor(slot[i].name, slot[i].linked)
      /\ slot[i].ptr # Null /\ ~slot[i].raw => TypeAllowed(slot[i].name, slot[i].handler)

\* A profile that was never saved has its data in memory.
Backed ==
    file = NoFile =>
      \A i \in 1..count : slot[i].name # NoSig /\ slot[i].linked = NoSig => slot[i].ptr # Null

Held == RawHeld /\ Sound /\ Backed

CallsInv == OwnershipInv /\ UniqueNames /\ LinksEnd /\ Held /\ CallsReturn

\* All the tags of a path have one descriptor, so each takes what the end holds.
LEMMA PathSharesDescriptor ==
    ASSUME TypeOK, Sound, NEW s \in Sigs, NEW t \in LinkPath(s)
    PROVE  t \in Sigs /\ Supported[t] = Supported[s]
<1> DEFINE T == {u \in Sigs : Supported[u] = Supported[s]}
<1>0. DirectoryOK
  BY DEF TypeOK, DirectoryOK
<1>1. LeadsNowhereElse(T)
  <2> SUFFICES ASSUME NEW u \in T, Hop[u] # NoSig PROVE Hop[u] \in T
    BY DEF LeadsNowhereElse
  <2>1. /\ SearchOneTag(u) # 0 /\ SearchOneTag(u) \in 0..count /\ slot[SearchOneTag(u)].name = u
        /\ Hop[u] = slot[SearchOneTag(u)].linked /\ Hop[u] \in Sigs /\ u # NoSig
    BY <1>0, HopLeads, SearchOneTagType, SigsAssumption
  <2>2. SearchOneTag(u) \in 1..count
    BY <2>1, TableAssumption DEF TypeOK
  <2>3. SameDescriptor(u, Hop[u])
    BY <2>1, <2>2 DEF Sound
  <2> QED  BY <2>1, <2>3 DEF SameDescriptor
<1> QED  BY <1>0, <1>1, PathLeast

\* Where a lookup ends: nowhere, or at an entry of the same descriptor that is no link.
LEMMA LookupEnds ==
    ASSUME CallsInv, NEW s \in Sigs
    PROVE  \/ SearchTag(s) = 0
           \/ /\ SearchTag(s) \in 1..count /\ SearchTag(s) \in Position
              /\ slot[SearchTag(s)] \in Slot
              /\ slot[SearchTag(s)].name \in Sigs /\ slot[SearchTag(s)].linked = NoSig
              /\ Supported[slot[SearchTag(s)].name] = Supported[s]
<1>0. TypeOK /\ DirectoryOK /\ Sound /\ count \in 0..MaxTags /\ MaxTags \in Nat
  BY TableAssumption DEF CallsInv, OwnershipInv, TypeOK, DirectoryOK, Held
<1>1. PICK e \in LinkPath(s) : Hop[e] = NoSig
  BY DEF CallsInv, LinksEnd
<1>2. SearchTag(s) = SearchOneTag(e) /\ e \in Sigs
  BY <1>0, <1>1, SearchTagEnds, PathLeast
<1>3. CASE SearchOneTag(e) = 0
  BY <1>2, <1>3
<1>4. CASE SearchOneTag(e) # 0
  <2>1. SearchOneTag(e) \in 0..count /\ slot[SearchOneTag(e)].name = e
    BY <1>0, <1>4, SearchOneTagType
  <2>2. slot[SearchOneTag(e)].linked = NoSig
    BY <1>0, <1>1, <1>2, <1>4, HopLeads
  <2>3. SearchOneTag(e) \in 1..count /\ SearchOneTag(e) \in Position
    BY <1>0, <1>4, <2>1 DEF Position
  <2> QED  BY <1>0, <1>1, <1>2, <2>1, <2>2, <2>3, PathSharesDescriptor DEF TypeOK
<1> QED  BY <1>3, <1>4

LEMMA ReadNeverFrees ==
    ASSUME CallsInv, NEW s \in Sigs, SearchTag(s) # 0, slot[SearchTag(s)].ptr # Null, ~slot[SearchTag(s)].raw
    PROVE  slot[SearchTag(s)].handler # Null /\ TypeAllowed(s, slot[SearchTag(s)].handler)
<1>1. /\ SearchTag(s) \in 1..count /\ SearchTag(s) \in Position
      /\ slot[SearchTag(s)].name \in Sigs /\ Supported[slot[SearchTag(s)].name] = Supported[s]
  BY LookupEnds
<1>2. slot[SearchTag(s)].handler # Null
  BY <1>1 DEF CallsInv, OwnershipInv, Freeable
<1>3. TypeAllowed(slot[SearchTag(s)].name, slot[SearchTag(s)].handler)
  BY <1>1, SigsAssumption DEF CallsInv, Held, Sound
<1> QED  BY <1>1, <1>2, <1>3 DEF TypeAllowed

\* A read may give the entry that it ends at a handler, and data.
Fetches(s) ==
    LET n == SearchTag(s)
    IN  /\ n \in 1..count /\ slot[n].ptr = Null /\ file # NoFile
        /\ \E t \in Types : /\ TypeAllowed(s, t)
                            /\ \E p : slot' = [slot EXCEPT ![n] = [slot[n] EXCEPT !.handler = t, !.ptr = p]]

\* It changes no name and no link, and raw data is not touched.
LEMMA ReadsKeepLinks ==
    ASSUME CallsInv, count' = count, file' = file, fate' = fate, NEW s \in Sigs,
           slot' = slot \/ Fetches(s), OwnershipInv', UniqueNames'
    PROVE  CallsInv'
<1>0. TypeOK /\ TypeOK' /\ DirectoryOK /\ DirectoryOK' /\ count \in 0..MaxTags /\ MaxTags \in Nat
  BY TableAssumption DEF CallsInv, OwnershipInv, TypeOK, DirectoryOK
<1>1. CASE slot' = slot
  <2>1. Hop' = Hop
    BY <1>1 DEF Hop, SearchOneTag
  <2>2. LinksEnd'
    <3> SUFFICES ASSUME NEW t \in Sigs PROVE \E e \in LinkPath(t)' : Hop'[e] = NoSig
      BY DEF LinksEnd
    <3>1. LinkPath(t)' = LinkPath(t)
      BY <1>0, <2>1, SamePath
    <3> QED  BY <2>1, <3>1 DEF CallsInv, LinksEnd
  <2> QED  BY <1>1, <2>2 DEF CallsInv, Held, RawHeld, Sound, Backed, SameDescriptor, TypeAllowed, CallsReturn
<1>2. CASE Fetches(s)
  <2> DEFINE n == SearchTag(s)
  <2>1. n \in 1..count /\ slot[n].ptr = Null /\ file # NoFile
    BY <1>2 DEF Fetches
  <2>2. PICK h \in Types : TypeAllowed(s, h) /\ \E p : slot' = [slot EXCEPT ![n] = [slot[n] EXCEPT !.handler = h, !.ptr = p]]
    BY <1>2 DEF Fetches
  <2>3. /\ n \in Position /\ slot[n] \in Slot /\ slot[n].name \in Sigs /\ slot[n].linked = NoSig
        /\ Supported[slot[n].name] = Supported[s]
    BY <1>0, <2>1, LookupEnds
  <2> HIDE DEF n
  <2>4. TypeAllowed(slot[n].name, h)
    BY <2>2, <2>3 DEF TypeAllowed
  <2>5. /\ slot'[n].name = slot[n].name /\ slot'[n].linked = slot[n].linked /\ slot'[n].raw = slot[n].raw
        /\ slot'[n].handler = h
        /\ \A j \in Position : j # n => slot'[j] = slot[j]
    <3>1. PICK p : slot' = [slot EXCEPT ![n] = [slot[n] EXCEPT !.handler = h, !.ptr = p]]
      BY <2>2
    <3>2. slot'[n] = [slot[n] EXCEPT !.handler = h, !.ptr = p] /\ \A j \in Position : j # n => slot'[j] = slot[j]
      BY <1>0, <2>3, <3>1 DEF TypeOK
    <3> QED  BY <2>3, <3>2 DEF Slot
  <2>6. \A j \in Position : slot'[j].name = slot[j].name /\ slot'[j].linked = slot[j].linked /\ slot'[j].raw = slot[j].raw
    BY <2>5
  <2>7. RawHeld'
    BY <2>1, <2>3, <2>5 DEF RawHeld, CallsInv, Held
  <2>8. \A j \in 1..count : j \in Position
    BY <1>0 DEF Position
  <2>9. Sound'
    BY <2>4, <2>5, <2>6, <2>8 DEF Sound, CallsInv, Held, SameDescriptor, TypeAllowed
  <2>10. Backed'
    BY <2>1 DEF Backed
  <2>11. LinksEnd'
    <3>1. \A u \in Sigs : SearchOneTag(u)' = SearchOneTag(u)
      <4> SUFFICES ASSUME NEW u \in Sigs PROVE SearchOneTag(u)' = SearchOneTag(u)
        OBVIOUS
      <4>1. /\ SearchOneTag(u) \in 0..count /\ (SearchOneTag(u) # 0 => slot[SearchOneTag(u)].name = u)
            /\ \A i \in 1..count : slot[i].name = u => SearchOneTag(u) # 0
        BY <1>0, SearchOneTagType
      <4>2. /\ SearchOneTag(u)' \in 0..count /\ (SearchOneTag(u)' # 0 => slot'[SearchOneTag(u)'].name = u)
            /\ \A i \in 1..count : slot'[i].name = u => SearchOneTag(u)' # 0
        BY <1>0, SearchOneTagNext
      <4> DEFINE a == SearchOneTag(u)
                 b == SearchOneTag(u)'
      <4> HIDE DEF a, b
      <4>3. a # 0 <=> b # 0
        BY <1>0, <2>6, <2>8, <4>1, <4>2 DEF a, b
      <4>4. a # 0 => a \in Position /\ b \in Position /\ slot[a].name = u /\ slot[b].name = u
        BY <1>0, <2>6, <2>8, <4>1, <4>2, <4>3 DEF a, b
      <4>5. a = b
        BY <4>3, <4>4, SigsAssumption DEF CallsInv, UniqueNames
      <4> QED  BY <4>5 DEF a, b
    <3>2. \A u \in Sigs : Hop'[u] = Hop[u]
      <4> SUFFICES ASSUME NEW u \in Sigs PROVE Hop'[u] = Hop[u]
        OBVIOUS
      <4>1. SearchOneTag(u) \in 0..count
        BY <1>0, SearchOneTagType
      <4>2. SearchOneTag(u) # 0 => SearchOneTag(u) \in Position
        BY <1>0, <4>1 DEF Position
      <4> QED  BY <1>0, <2>6, <3>1, <4>2, HopLeads, HopNext
    <3> SUFFICES ASSUME NEW t \in Sigs PROVE \E e \in LinkPath(t)' : Hop'[e] = NoSig
      BY DEF LinksEnd
    <3>3. LinkPath(t) \subseteq Sigs
      BY <1>0, PathLeast
    <3>4. LinkPath(t)' = LinkPath(t)
      BY <1>0, <3>2, <3>3, SamePath
    <3> QED  BY <3>2, <3>3, <3>4 DEF CallsInv, LinksEnd
  <2> QED  BY <2>7, <2>9, <2>10, <2>11 DEF CallsInv, Held, CallsReturn
<1> QED  BY <1>1, <1>2

LEMMA ReadsKeepCalls ==
    ASSUME CallsInv, Careful = TRUE, OwnershipInv', UniqueNames', NEW s \in Sigs, ReadTag(s) \/ ReadRawTag(s)
    PROVE  CallsInv'
<1> DEFINE n == SearchTag(s)
<1>1. \/ n = 0
      \/ /\ n \in 1..count /\ n \in Position /\ n # 0 /\ slot[n].name \in Sigs /\ slot[n].linked = NoSig
         /\ slot[n].ptr = Null => file # NoFile
  <2>1. CASE n = 0
    BY <2>1
  <2>2. CASE n # 0
    <3>1. /\ n \in 1..count /\ n \in Position /\ slot[n].name \in Sigs /\ slot[n].linked = NoSig
      BY <2>2, LookupEnds
    <3> HIDE DEF n
    <3> QED  BY <2>2, <3>1, SigsAssumption DEF CallsInv, Held, Backed
  <2> QED  BY <2>1, <2>2
<1>2. n # Loop
  BY <1>1 DEF Loop
<1>3. \A op, v : Return(op, s, v) => file' = file /\ fate' = fate
  BY DEF Return
<1>4. CASE ReadTag(s)
  <2>1. CASE n = 0
    BY <1>2, <1>3, <1>4, <2>1, ReadsKeepLinks DEF ReadTag
  <2>2. CASE n # 0 /\ slot[n].ptr # Null
    <3>1. ReadCached(s, n) /\ ~slot[n].raw
      BY <1>1, <1>2, <1>4, <2>2 DEF ReadTag
    <3>2. slot[n].handler # Null /\ TypeAllowed(s, slot[n].handler)
      BY <2>2, <3>1, ReadNeverFrees
    <3> QED  BY <1>3, <3>1, <3>2, ReadsKeepLinks DEF ReadCached
  <2>3. CASE n # 0 /\ slot[n].ptr = Null
    <3>1. ReadFromFile(s, n) /\ n \in 1..count /\ file # NoFile
      BY <1>1, <1>2, <1>4, <2>3 DEF ReadTag
    <3>2. UNCHANGED <<count, file, fate>>
      BY <1>3, <3>1 DEF ReadFromFile
    <3> DEFINE v == file.block[slot[n].off].val
               handled == [slot[n] EXCEPT !.handler = TypeOf[v]]
    <3>3. /\ slot' # slot => Fetchable(s, n)
          /\ \/ slot' = slot
             \/ \E o : slot' = [slot EXCEPT ![n] = [handled EXCEPT !.ptr = o]]
             \/ slot' = [slot EXCEPT ![n] = handled]
      BY <3>1 DEF ReadFromFile
    <3>4. CASE Fetchable(s, n) /\ slot' # slot
      <4>1. TypeAllowed(s, TypeOf[v]) /\ TypeOf[v] \in Types
        <5>1. v \in Payloads
          BY <3>4 DEF Fetchable, IsBlock, CallsInv, OwnershipInv, TypeOK
        <5> QED  BY <3>4, <5>1, PayloadAssumption DEF Fetchable
      <4>2. slot[n] \in Slot /\ handled = [slot[n] EXCEPT !.handler = TypeOf[v], !.ptr = slot[n].ptr]
        <5>1. slot[n] \in Slot
          BY <1>1, <2>3 DEF CallsInv, OwnershipInv, TypeOK
        <5> QED  BY <5>1 DEF Slot
      <4>3. \A o : [handled EXCEPT !.ptr = o] = [slot[n] EXCEPT !.handler = TypeOf[v], !.ptr = o]
        BY <4>2 DEF Slot
      <4>4. \E p : slot' = [slot EXCEPT ![n] = [slot[n] EXCEPT !.handler = TypeOf[v], !.ptr = p]]
        BY <3>3, <3>4, <4>2, <4>3
      <4> HIDE DEF n, v, handled
      <4>5. Fetches(s)
        BY <2>3, <3>1, <4>1, <4>4 DEF Fetches, n
      <4> QED  BY <3>2, <4>5, ReadsKeepLinks
    <3> QED  BY <3>2, <3>3, <3>4, ReadsKeepLinks
  <2> QED  BY <2>1, <2>2, <2>3
<1>5. CASE ReadRawTag(s)
  <2>1. CASE n = 0
    BY <1>2, <1>3, <1>5, <2>1, ReadsKeepLinks DEF ReadRawTag
  <2>2. CASE n # 0 /\ slot[n].ptr # Null
    <3>1. ReadRawCached(s, n)
      BY <1>1, <1>2, <1>5, <2>2 DEF ReadRawTag
    <3>2. ~slot[n].raw => slot[n].handler # Null /\ TypeAllowed(s, slot[n].handler)
      BY <2>2, <3>1, ReadNeverFrees
    <3> QED  BY <1>3, <3>1, <3>2, ReadsKeepLinks DEF ReadRawCached
  <2>3. CASE n # 0 /\ slot[n].ptr = Null
    <3>1. ReadRawFromFile(s, n) /\ file # NoFile
      BY <1>1, <1>2, <1>5, <2>3 DEF ReadRawTag
    <3> QED  BY <1>3, <3>1, ReadsKeepLinks DEF ReadRawFromFile
  <2> QED  BY <2>1, <2>2, <2>3
<1> QED  BY <1>4, <1>5

\* What a documented write stores for s: raw data that is there, a link to a tag
\* of the descriptor of s that does not lead to s, or data of a type for s.
WellMade(s, e) ==
    /\ e.raw => e.ptr # Null
    /\ e.name # NoSig =>
         /\ e.linked # NoSig => e.linked \in Sigs /\ SameDescriptor(s, e.linked) /\ s \notin LinkPath(e.linked)
         /\ e.linked = NoSig => e.ptr # Null
         /\ e.ptr # Null /\ ~e.raw => TypeAllowed(s, e.handler)

LEMMA WellMadeKeepsCalls ==
    ASSUME CallsInv, OwnershipInv', UniqueNames', file' = file, fate' = fate,
           NEW s \in Sigs, NEW i \in Position, EntryChanges(s, i), WellMade(s, slot'[i])
    PROVE  CallsInv'
<1>0. /\ TypeOK /\ TypeOK' /\ DirectoryOK /\ DirectoryOK' /\ UniqueNames /\ LinksEnd
      /\ count \in 0..MaxTags /\ count' \in 0..MaxTags /\ MaxTags \in Nat
  BY TableAssumption DEF CallsInv, OwnershipInv, TypeOK, DirectoryOK
<1>1. /\ i <= count + 1 /\ count' = IF i > count THEN i ELSE count
      /\ slot[i].name \in {s, NoSig} /\ slot'[i].name \in {s, NoSig}
      /\ \A j \in Position : j # i => slot'[j] = slot[j] /\ slot[j].name # s
  BY DEF EntryChanges
<1>2. \A j \in 1..count' : j \in Position /\ (j # i => j \in 1..count)
  BY <1>0, <1>1 DEF Position
<1>3. RawHeld'
  BY <1>1 DEF RawHeld, CallsInv, Held, WellMade
<1>4. Sound'
  <2> SUFFICES ASSUME NEW j \in 1..count', slot'[j].name # NoSig
               PROVE  /\ slot'[j].linked # NoSig => SameDescriptor(slot'[j].name, slot'[j].linked)
                      /\ slot'[j].ptr # Null /\ ~slot'[j].raw => TypeAllowed(slot'[j].name, slot'[j].handler)
    BY DEF Sound, SameDescriptor, TypeAllowed
  <2>1. CASE j = i
    BY <1>1, <2>1 DEF WellMade
  <2>2. CASE j # i
    BY <1>1, <1>2, <2>2 DEF CallsInv, Held, Sound
  <2> QED  BY <2>1, <2>2
<1>5. Backed'
  BY <1>1, <1>2 DEF Backed, CallsInv, Held, WellMade
<1>6. LinksEnd'
  <2>1. \A u \in Sigs \ {s} : Hop'[u] = Hop[u]
    BY <1>0, Elsewhere
  <2>2. SearchOneTag(s)' \in 0..count' /\ (SearchOneTag(s)' # 0 => slot'[SearchOneTag(s)'].name = s)
    BY <1>0, SearchOneTagNext
  <2>3. SearchOneTag(s)' # 0 => SearchOneTag(s)' = i
    <3>1. SearchOneTag(s)' # 0 => SearchOneTag(s)' \in Position
      BY <1>0, <2>2 DEF Position
    <3> QED  BY <1>1, <2>2, <3>1
  <2> DEFINE d == Hop'[s]
  <2>4. d # NoSig => slot'[i].name = s /\ d = slot'[i].linked
    BY <1>0, <2>2, <2>3, HopNext
  <2>5. d # NoSig => d \in Sigs /\ s \notin LinkPath(d)
    BY <2>4, SigsAssumption DEF WellMade
  <2>6. PICK x : x = d
    OBVIOUS
  <2>7. x # NoSig => x \in Sigs /\ s \notin LinkPath(x)
    BY <2>5, <2>6
  <2> QED  BY <1>0, <2>1, <2>6, <2>7, EndsAfter
<1> QED  BY <1>3, <1>4, <1>5, <1>6 DEF CallsInv, Held, CallsReturn

\* The same for what is stored where _cmsNewTag says.
LEMMA PlaceKeepsCalls ==
    ASSUME CallsInv, OwnershipInv', UniqueNames', file' = file, fate' = fate,
           NEW s \in Sigs, NewPos(s) # 0, NEW e, Place(NewPos(s), e),
           e.name \in {s, NoSig}, WellMade(s, e)
    PROVE  CallsInv'
<1> DEFINE i == NewPos(s)
<1>1. TypeOK /\ UniqueNames
  BY DEF CallsInv, OwnershipInv
<1>2. /\ i \in Position /\ i <= count + 1 /\ slot[i].name \in {s, NoSig}
      /\ \A j \in Position : j # i => slot[j].name # s
  BY <1>1, NewPosName
<1> HIDE DEF i
<1>3. Place(i, e)
  BY DEF i
<1>4. slot'[i] = e /\ EntryChanges(s, i)
  BY <1>1, <1>2, <1>3 DEF Place, EntryChanges, TypeOK
<1> QED  BY <1>2, <1>4, WellMadeKeepsCalls

LEMMA LeftKeepsCalls ==
    ASSUME CallsInv, UNCHANGED <<slot, count, heap, file, fate>>, OwnershipInv', UniqueNames'
    PROVE  CallsInv'
<1>1. TypeOK /\ TypeOK' /\ DirectoryOK /\ DirectoryOK'
  BY TableAssumption DEF CallsInv, OwnershipInv, TypeOK, DirectoryOK
<1>2. Hop' = Hop
  BY DEF Hop, SearchOneTag
<1>3. LinksEnd'
  <2> SUFFICES ASSUME NEW t \in Sigs PROVE \E e \in LinkPath(t)' : Hop'[e] = NoSig
    BY DEF LinksEnd
  <2>1. LinkPath(t)' = LinkPath(t)
    BY <1>1, <1>2, SamePath
  <2> QED  BY <1>2, <2>1 DEF CallsInv, LinksEnd
<1> QED  BY <1>3 DEF CallsInv, Held, RawHeld, Sound, Backed, SameDescriptor, TypeAllowed, CallsReturn

\* What _cmsDeleteTagByPos leaves is neither raw nor in memory.
LEMMA DeletedIsBare ==
    ASSUME CallsInv, NEW i \in Position
    PROVE  Deleted(i) \in Slot /\ Deleted(i).ptr = Null /\ Deleted(i).raw = FALSE
<1>1. slot[i] \in Slot /\ OwnershipInv /\ (slot[i].raw => slot[i].ptr # Null)
  BY DEF CallsInv, OwnershipInv, TypeOK, Held, RawHeld
<1>2. Deleted(i) \in Slot /\ Deleted(i).ptr = Null
  BY <1>1, DeletedType, DeletedIsEmpty DEF OwnershipInv
<1>3. slot[i].raw => Deletable(i)
  BY <1>1 DEF Deletable
<1>4. Deleted(i).raw = FALSE
  BY <1>1, <1>3 DEF Deleted, Slot
<1> QED  BY <1>2, <1>4

LEMMA DeleteKeepsCalls ==
    ASSUME CallsInv, OwnershipInv', UniqueNames', NEW s \in Sigs, DeleteTag(s)
    PROVE  CallsInv'
<1> DEFINE i == SearchOneTag(s)
<1>0. TypeOK /\ UniqueNames /\ file' = file /\ fate' = fate /\ count \in 0..MaxTags /\ MaxTags \in Nat
  BY TableAssumption DEF CallsInv, OwnershipInv, TypeOK, DeleteTag, Done, Return
<1>1. CASE i = 0
  BY <1>0, <1>1, LeftKeepsCalls DEF DeleteTag
<1>2. CASE i # 0
  <2>1. i \in 1..count /\ i \in Position /\ slot[i].name = s
    BY <1>0, <1>2, SearchOneTagType DEF Position
  <2> DEFINE e == [Deleted(i) EXCEPT !.name = NoSig]
  <2>2. slot' = [slot EXCEPT ![i] = e] /\ count' = count
    BY <1>2 DEF DeleteTag
  <2>3. e.name = NoSig /\ e.raw = FALSE
    BY <2>1, DeletedIsBare DEF Slot
  <2> HIDE DEF e, i
  <2>4. slot'[i] = e /\ EntryChanges(s, i)
    <3>1. \A j \in Position : j # i => slot[j].name # s
      BY <1>0, <2>1, SigsAssumption DEF UniqueNames
    <3> QED  BY <1>0, <2>1, <2>2, <2>3, <3>1 DEF EntryChanges, TypeOK
  <2>5. WellMade(s, e)
    BY <2>3 DEF WellMade
  <2> QED  BY <1>0, <2>1, <2>4, <2>5, WellMadeKeepsCalls
<1> QED  BY <1>1, <1>2

LEMMA WriteKeepsCalls ==
    ASSUME CallsInv, Careful = TRUE, Faults = FALSE, OwnershipInv', UniqueNames',
           NEW s \in Sigs, NEW v \in Payloads, WriteTag(s, v)
    PROVE  CallsInv'
<1> DEFINE i == NewPos(s)
<1>0. TypeOK /\ file' = file /\ fate' = fate
  BY DEF CallsInv, OwnershipInv, WriteTag, Return
<1>1. CASE i = 0
  BY <1>0, <1>1, LeftKeepsCalls DEF WriteTag
<1>2. CASE i # 0
  <2>1. i \in Position
    BY <1>0, <1>2, NewPosType
  <2>2. Deleted(i) \in Slot /\ Deleted(i).raw = FALSE
    BY <2>1, DeletedIsBare
  <2>3. Supported[s] # {} /\ TypeOf[v] \in Supported[s] /\ TypeOf[v] \in Types
    BY PayloadAssumption DEF WriteTag
  <2>4. ~WriteRefused(s, v, i)
    BY <2>2, <2>3 DEF WriteRefused
  <2>5. PICK o \in Objects : Written(s, v, i, o)
    BY <1>2, <2>4 DEF WriteTag, Free
  <2> DEFINE e == [Deleted(i) EXCEPT !.linked = NoSig, !.name = s, !.handler = TypeOf[v],
                                     !.size = 0, !.off = 0, !.ptr = o]
  <2>6. e.name = s /\ e.linked = NoSig /\ e.handler = TypeOf[v] /\ e.ptr = o /\ e.raw = FALSE
    BY <2>2 DEF Slot
  <2>7. Place(i, e)
    BY <2>5 DEF Written
  <2> HIDE DEF e
  <2>8. WellMade(s, e)
    BY <2>3, <2>6, HeapAssumption DEF WellMade, TypeAllowed
  <2> QED  BY <1>0, <1>2, <2>6, <2>7, <2>8, PlaceKeepsCalls
<1> QED  BY <1>1, <1>2

LEMMA WriteRawKeepsCalls ==
    ASSUME CallsInv, Faults = FALSE, OwnershipInv', UniqueNames',
           NEW s \in Sigs, NEW v \in Payloads, WriteRawTag(s, v)
    PROVE  CallsInv'
<1> DEFINE i == NewPos(s)
<1>0. TypeOK /\ file' = file /\ fate' = fate
  BY DEF CallsInv, OwnershipInv, WriteRawTag, Return
<1>1. CASE i = 0
  BY <1>0, <1>1, LeftKeepsCalls DEF WriteRawTag
<1>2. CASE i # 0
  <2>1. i \in Position
    BY <1>0, <1>2, NewPosType
  <2>2. Deleted(i) \in Slot
    BY <2>1, DeletedIsBare
  <2> DEFINE e(o) == [Deleted(i) EXCEPT !.raw = TRUE, !.name = s, !.linked = NoSig,
                                        !.handler = Null, !.ptr = o, !.size = Width[v]]
  <2>3. PICK o \in Objects : Place(i, e(o))
    BY <1>2 DEF WriteRawTag, Free
  <2>4. e(o).name = s /\ e(o).linked = NoSig /\ e(o).ptr = o /\ e(o).raw = TRUE
    BY <2>2 DEF Slot
  <2> HIDE DEF e
  <2>5. WellMade(s, e(o))
    BY <2>4, HeapAssumption DEF WellMade
  <2> QED  BY <1>0, <1>2, <2>3, <2>4, <2>5, PlaceKeepsCalls
<1> QED  BY <1>1, <1>2

LEMMA LinkKeepsCalls ==
    ASSUME CallsInv, Careful = TRUE, OwnershipInv', UniqueNames',
           NEW s \in Sigs, NEW t \in Sigs, LinkTag(s, t)
    PROVE  CallsInv'
<1> DEFINE i == NewPos(s)
<1>0. TypeOK /\ file' = file /\ fate' = fate
  BY DEF CallsInv, OwnershipInv, LinkTag, Return
<1>1. CASE i = 0
  BY <1>0, <1>1, LeftKeepsCalls DEF LinkTag
<1>2. CASE i # 0
  <2>1. i \in Position
    BY <1>0, <1>2, NewPosType
  <2>2. Deleted(i) \in Slot
    BY <2>1, DeletedIsBare
  <2> DEFINE e == [Deleted(i) EXCEPT !.raw = FALSE, !.name = s, !.linked = t,
                                     !.ptr = Null, !.size = 0, !.off = 0]
  <2>3. Place(i, e) /\ SameDescriptor(s, t) /\ s \notin LinkPath(t)
    BY <1>2 DEF LinkTag
  <2>4. e.name = s /\ e.linked = t /\ e.ptr = Null /\ e.raw = FALSE
    BY <2>2 DEF Slot
  <2> HIDE DEF e
  <2>5. WellMade(s, e)
    BY <2>3, <2>4, SigsAssumption DEF WellMade
  <2> QED  BY <1>0, <1>2, <2>3, <2>4, <2>5, PlaceKeepsCalls
<1> QED  BY <1>1, <1>2

\* The entries that _cmsReadHeader keeps are numbered in their order.
LEMMA RankOrders ==
    ASSUME TypeOK
    PROVE  /\ \A i \in Kept : Rank(i) \in 1..Cardinality(Kept)
           /\ \A i, j \in Kept : j < i => Rank(j) < Rank(i)
<1>1. count \in Nat /\ Kept \in SUBSET (1..count) /\ IsFiniteSet(1..count)
  BY TableAssumption, FS_Interval DEF TypeOK, Kept, Announced
<1>2. IsFiniteSet(Kept) /\ Cardinality(Kept) \in Nat
  BY <1>1, FS_Subset, FS_CardinalityType
<1> DEFINE upto(i) == {j \in Kept : j <= i}
<1>3. \A i : upto(i) \in SUBSET Kept
  OBVIOUS
<1>4. \A i : IsFiniteSet(upto(i)) /\ Cardinality(upto(i)) \in Nat /\ Cardinality(upto(i)) <= Cardinality(Kept)
  BY <1>2, <1>3, FS_Subset, FS_CardinalityType
<1>5. \A i \in Kept : i \in upto(i) /\ i \in Nat
  BY <1>1
<1>6. ASSUME NEW i \in Kept, NEW j \in Kept, j < i
      PROVE  upto(j) \in SUBSET upto(i) /\ i \notin upto(j)
  <2>1. \A h \in Kept : h \in Nat
    BY <1>1
  <2>2. \A h \in Kept : h <= j => h <= i
    BY <1>6, <2>1
  <2>3. ~(i <= j)
    BY <1>6, <2>1
  <2> QED  BY <2>2, <2>3
<1>7. \A i : Rank(i) = Cardinality(upto(i))
  BY DEF Rank
<1> HIDE DEF upto
<1>8. ASSUME NEW i \in Kept PROVE Rank(i) \in 1..Cardinality(Kept)
  <2>1. Cardinality(upto(i)) # 0
    BY <1>4, <1>5, FS_EmptySet
  <2> QED  BY <1>2, <1>4, <1>7, <2>1
<1>9. ASSUME NEW i \in Kept, NEW j \in Kept, j < i PROVE Rank(j) < Rank(i)
  <2>1. Cardinality(upto(j)) <= Cardinality(upto(i)) /\ Cardinality(upto(j)) # Cardinality(upto(i))
    BY <1>4, <1>5, <1>6, <1>9, FS_Subset
  <2> QED  BY <1>4, <1>7, <2>1
<1> QED  BY <1>8, <1>9

\* Where a kept entry comes to stand, and that no others do.
LEMMA KeptAreRead ==
    ASSUME TypeOK
    PROVE  /\ \A i \in Kept : /\ Rank(i) \in Position
                              /\ ReadDirectory[Rank(i)] =
                                   [EmptySlot EXCEPT !.name = slot[i].name, !.linked = LinkFound(i),
                                                     !.off = SetLinks[i].off, !.size = SetLinks[i].size]
           /\ \A k \in Position : ReadDirectory[k].name # NoSig => \E i \in Kept : Rank(i) = k
<1>1. Kept \in SUBSET Nat /\ Cardinality(Kept) \in 0..MaxTags /\ MaxTags \in Nat
  BY ReadDirectoryType, TableAssumption DEF TypeOK, Kept, Announced
<1>2. ASSUME NEW i \in Kept
      PROVE  /\ Rank(i) \in Position
             /\ ReadDirectory[Rank(i)] =
                  [EmptySlot EXCEPT !.name = slot[i].name, !.linked = LinkFound(i),
                                    !.off = SetLinks[i].off, !.size = SetLinks[i].size]
  <2>1. Rank(i) \in Position /\ Rank(i) \in Nat
    BY <1>1, RankOrders DEF Position
  <2> DEFINE j == CHOOSE h \in Kept : Rank(h) = Rank(i)
  <2>2. j \in Kept /\ Rank(j) = Rank(i)
    OBVIOUS
  <2>3. \A h \in Kept : Rank(h) \in Nat
    BY <1>1, RankOrders
  <2> HIDE DEF j
  <2>4. ~(j < i) /\ ~(i < j)
    BY <2>2, <2>3, RankOrders
  <2>5. j = i
    BY <1>1, <2>2, <2>4
  <2>6. \E h \in Kept : Rank(h) = Rank(i)
    OBVIOUS
  <2> QED  BY <2>1, <2>5, <2>6 DEF ReadDirectory, j
<1>3. \A k \in Position : ReadDirectory[k].name # NoSig => \E i \in Kept : Rank(i) = k
  BY DEF ReadDirectory, EmptySlot
<1> QED  BY <1>2, <1>3

\* A link that is found again is to an earlier entry, of a tag with the same descriptor.
LEMMA FoundBefore ==
    ASSUME TypeOK, NEW i \in Kept, LinkFound(i) # NoSig
    PROVE  \E j \in Kept : /\ j < i /\ LinkFound(i) = slot[j].name /\ slot[j].name \in Sigs
                          /\ SetLinks[j] = SetLinks[i] /\ SameDescriptor(slot[i].name, slot[j].name)
<1> DEFINE twins == {j \in Kept : /\ j < i /\ SetLinks[j] = SetLinks[i]
                                  /\ SameDescriptor(slot[j].name, slot[i].name)}
<1>1. twins # {} /\ LinkFound(i) = slot[Max(twins)].name
  BY DEF LinkFound
<1>2. twins \in SUBSET (1..count) /\ count \in Nat /\ count <= MaxTags /\ MaxTags \in Nat
  BY TableAssumption DEF TypeOK, Kept, Announced
<1>3. Max(twins) \in twins
  BY <1>1, <1>2, LastOfSet
<1>4. Max(twins) \in Position
  BY <1>2, <1>3 DEF Position
<1>5. slot[Max(twins)].name \in Sigs
  BY <1>1, <1>4 DEF TypeOK, Slot
<1> QED  BY <1>1, <1>3, <1>5 DEF SameDescriptor

LEMMA EndsBeforeNext ==
    ASSUME DirectoryOK',
           \A t \in Sigs : Hop'[t] # NoSig => \E d \in Sigs : Hop'[t] = d /\ SearchOneTag(d)' < SearchOneTag(t)'
    PROVE  LinksEnd'
<1>1. (\A t \in Sigs : Hop[t] # NoSig => SearchOneTag(Hop[t]) < SearchOneTag(t))'
  <2> SUFFICES ASSUME NEW t \in Sigs, Hop'[t] # NoSig PROVE SearchOneTag(Hop[t])' < SearchOneTag(t)'
    OBVIOUS
  <2>1. PICK d \in Sigs : Hop'[t] = d /\ SearchOneTag(d)' < SearchOneTag(t)'
    OBVIOUS
  <2>2. SearchOneTag(Hop[t])' = SearchOneTag(d)'
    BY <2>1 DEF SearchOneTag
  <2> QED  BY <2>1, <2>2
<1>2. (DirectoryOK /\ (\A t \in Sigs : Hop[t] # NoSig => SearchOneTag(Hop[t]) < SearchOneTag(t)))' => LinksEnd'
  BY EndsBefore, PTL
<1> QED  BY <1>1, <1>2

\* The directory that is read has the tags that were kept, each where its rank says.
LEMMA Reopened ==
    ASSUME TypeOK, TypeOK', UniqueNames', SaveAndReopen
    PROVE  /\ \A k \in Position : slot'[k].ptr = Null /\ slot'[k].raw = FALSE
           /\ \A i \in Kept :
                /\ Rank(i) \in Position /\ Rank(i) \in 1..count' /\ slot[i].name \in Sigs
                /\ slot'[Rank(i)] = [EmptySlot EXCEPT !.name = slot[i].name, !.linked = LinkFound(i),
                                                     !.off = SetLinks[i].off, !.size = SetLinks[i].size]
                /\ \A t \in Sigs : t = slot[i].name => SearchOneTag(t)' = Rank(i) /\ Hop'[t] = LinkFound(i)
           /\ \A t \in Sigs : SearchOneTag(t)' # 0 => \E i \in Kept : slot[i].name = t
<1>0. /\ DirectoryOK' /\ slot' = ReadDirectory /\ count' = Cardinality(Kept)
      /\ count' \in 0..MaxTags /\ MaxTags \in Nat
  BY TableAssumption DEF TypeOK, DirectoryOK, SaveAndReopen
<1>1. \A k \in Position : slot'[k].ptr = Null /\ slot'[k].raw = FALSE
  BY <1>0 DEF ReadDirectory, EmptySlot
<1>2. ASSUME NEW i \in Kept
      PROVE  /\ Rank(i) \in Position /\ Rank(i) \in 1..count' /\ slot[i].name \in Sigs
             /\ slot'[Rank(i)] = [EmptySlot EXCEPT !.name = slot[i].name, !.linked = LinkFound(i),
                                                  !.off = SetLinks[i].off, !.size = SetLinks[i].size]
             /\ slot'[Rank(i)].name = slot[i].name /\ slot'[Rank(i)].linked = LinkFound(i)
  <2>1. /\ Rank(i) \in Position /\ Rank(i) \in 1..count'
        /\ slot'[Rank(i)] = [EmptySlot EXCEPT !.name = slot[i].name, !.linked = LinkFound(i),
                                             !.off = SetLinks[i].off, !.size = SetLinks[i].size]
    BY <1>0, KeptAreRead, RankOrders
  <2>2. slot'[Rank(i)].name = slot[i].name /\ slot'[Rank(i)].linked = LinkFound(i)
    BY <2>1 DEF EmptySlot
  <2>3. i \in Position /\ slot[i].name # NoSig
    BY TableAssumption DEF Kept, Announced, TypeOK, Position
  <2>4. slot[i].name \in Sigs
    BY <2>3 DEF TypeOK, Slot
  <2> QED  BY <2>1, <2>2, <2>4
<1>3. ASSUME NEW i \in Kept, NEW d \in Sigs, d = slot[i].name
      PROVE  SearchOneTag(d)' = Rank(i) /\ Hop'[d] = LinkFound(i)
  <2> DEFINE m == SearchOneTag(d)'
  <2>1. m \in 0..count' /\ m # 0 /\ slot'[m].name = d
    BY <1>2, <1>3, SearchOneTagNext
  <2>2. Hop'[d] = slot'[m].linked
    BY <1>0, <2>1, HopNext
  <2>3. m \in Position
    BY <1>0, <2>1 DEF Position
  <2> HIDE DEF m
  <2>4. m = Rank(i)
    BY <1>2, <1>3, <2>1, <2>3, SigsAssumption DEF UniqueNames
  <2> QED  BY <1>2, <2>2, <2>4 DEF m
<1>4. ASSUME NEW t \in Sigs, SearchOneTag(t)' # 0 PROVE \E i \in Kept : slot[i].name = t
  <2> DEFINE k == SearchOneTag(t)'
  <2>1. k \in 0..count' /\ k # 0 /\ slot'[k].name = t /\ t # NoSig
    BY <1>4, SearchOneTagNext, SigsAssumption
  <2> HIDE DEF k
  <2>2. k \in Position
    BY <1>0, <2>1 DEF Position
  <2>3. PICK i \in Kept : Rank(i) = k
    BY <1>0, <2>1, <2>2, KeptAreRead
  <2> QED  BY <1>2, <2>1, <2>3
<1> QED  BY <1>1, <1>2, <1>3, <1>4

\* However the links were before, those that are found again lead to earlier entries.
LEMMA ReopenedLinksEnd ==
    ASSUME TypeOK, TypeOK', UniqueNames', SaveAndReopen
    PROVE  LinksEnd'
<1>0. DirectoryOK'
  BY TableAssumption DEF TypeOK, DirectoryOK
<1> SUFFICES ASSUME NEW t \in Sigs, Hop'[t] # NoSig
             PROVE  \E d \in Sigs : Hop'[t] = d /\ SearchOneTag(d)' < SearchOneTag(t)'
  BY <1>0, EndsBeforeNext
<1>1. SearchOneTag(t)' # 0
  BY <1>0, HopNext
<1>2. PICK i \in Kept : slot[i].name = t
  BY <1>1, Reopened
<1>3. Hop'[t] = LinkFound(i) /\ SearchOneTag(t)' = Rank(i)
  BY <1>2, Reopened
<1>4. PICK j \in Kept : j < i /\ LinkFound(i) = slot[j].name /\ slot[j].name \in Sigs
  BY <1>3, FoundBefore
<1>5. PICK d \in Sigs : d = slot[j].name
  BY <1>4
<1>6. SearchOneTag(d)' = Rank(j)
  BY <1>4, <1>5, Reopened
<1>7. Rank(j) < Rank(i)
  BY <1>4, RankOrders
<1>8. Hop'[t] = d /\ SearchOneTag(d)' < SearchOneTag(t)'
  BY <1>3, <1>4, <1>5, <1>6, <1>7
<1> QED  BY <1>8

LEMMA ReopenKeepsCalls ==
    ASSUME CallsInv, OwnershipInv', UniqueNames', SaveAndReopen
    PROVE  CallsInv'
<1>0. /\ TypeOK /\ TypeOK' /\ DirectoryOK' /\ slot' = ReadDirectory /\ count' = Cardinality(Kept)
      /\ file' = SavedFile /\ fate' = fate /\ count' \in 0..MaxTags /\ MaxTags \in Nat
  BY TableAssumption DEF CallsInv, OwnershipInv, TypeOK, DirectoryOK, SaveAndReopen
<1>1. \A k \in Position : slot'[k].ptr = Null /\ slot'[k].raw = FALSE
  BY <1>0 DEF ReadDirectory, EmptySlot
<1>2. /\ \A i \in Kept : /\ Rank(i) \in Position /\ Rank(i) \in 1..count'
                         /\ slot'[Rank(i)].name = slot[i].name /\ slot'[Rank(i)].linked = LinkFound(i)
      /\ \A k \in Position : slot'[k].name # NoSig => \E i \in Kept : Rank(i) = k
  BY <1>0, KeptAreRead, RankOrders DEF EmptySlot
<1>3. \A k \in 1..count' : k \in Position
  BY <1>0 DEF Position
<1>4. RawHeld'
  BY <1>1 DEF RawHeld
<1>5. Sound'
  <2> SUFFICES ASSUME NEW k \in 1..count', slot'[k].name # NoSig, slot'[k].linked # NoSig
               PROVE  SameDescriptor(slot'[k].name, slot'[k].linked)
    BY <1>1, <1>3 DEF Sound, SameDescriptor
  <2> QED  BY <1>2, <1>3, FoundBefore, <1>0
<1>6. Backed'
  <2> SUFFICES ASSUME SavedFile = NoFile, NEW i \in Kept PROVE FALSE
    BY <1>0, <1>2, <1>3 DEF Backed
  <2>1. UsedSpace[count] = 0
    BY DEF SavedFile, NoFile
  <2>2. SetLinks[i].size \in 1..MaxWord /\ SetLinks[i].off \in 1..MaxWord
        /\ SetLinks[i].off + SetLinks[i].size <= UsedSpace[count]
    BY DEF Kept
  <2> QED  BY <2>1, <2>2, WordAssumption
<1>7. LinksEnd'
  BY <1>0, ReopenedLinksEnd DEF CallsInv
<1> QED  BY <1>0, <1>4, <1>5, <1>6, <1>7 DEF CallsInv, Held, CallsReturn

LEMMA CallsInvariance ==
    ASSUME Careful = TRUE, Faults = FALSE
    PROVE  Spec => []CallsInv
<1>1. Empty => CallsInv
  <2> SUFFICES ASSUME Empty PROVE CallsInv
    OBVIOUS
  <2>1. OwnershipInv /\ UniqueNames
    BY EmptyOwns DEF Empty, UniqueNames, EmptySlot
  <2>2. \A t \in Sigs : Hop[t] = NoSig
    BY DEF Hop, Empty
  <2>3. LinksEnd
    <3>1. DirectoryOK
      BY <2>1 DEF OwnershipInv, TypeOK, DirectoryOK
    <3> QED  BY <2>2, <3>1, PathLeast DEF LinksEnd
  <2> QED  BY <2>1, <2>3 DEF CallsInv, Held, RawHeld, Sound, Backed, CallsReturn, Empty, EmptySlot, Position
<1>2. CallsInv /\ OwnershipInv' /\ UniqueNames' /\ [ProfileNext]_vars => CallsInv'
  <2> SUFFICES ASSUME CallsInv, OwnershipInv', UniqueNames', [ProfileNext]_vars PROVE CallsInv'
    OBVIOUS
  <2>1. ASSUME SaveFails PROVE CallsInv'
    BY <2>1, LeftKeepsCalls DEF SaveFails, Done, Return
  <2>2. ~SaveOutOfMemory
    BY DEF SaveOutOfMemory
  <2>3. ASSUME UNCHANGED vars PROVE CallsInv'
    BY <2>3, LeftKeepsCalls DEF vars
  <2> QED  BY <2>1, <2>2, <2>3, ReadsKeepCalls, DeleteKeepsCalls, WriteKeepsCalls, WriteRawKeepsCalls,
              LinkKeepsCalls, ReopenKeepsCalls
           DEF ProfileNext, Next
<1> QED  BY <1>1, <1>2, Invariance, NamesInvariance, PTL DEF Spec

\* No sequence of documented calls makes a lookup endless or reads through the
\* missing IOhandler of a built-in profile, whatever the number of tags,
\* payloads and links, and through saving and opening again.
THEOREM DocumentedCallsReturn ==
    ASSUME Careful = TRUE, Faults = FALSE
    PROVE  Spec => []CallsReturn
<1>1. CallsInv => CallsReturn
  BY DEF CallsInv
<1> QED  BY <1>1, CallsInvariance, PTL

(***************************************************************************)
(* UsedSpace and SetLinks are defined from earlier positions on.           *)
(***************************************************************************)
\* There is a function that adds up the numbers before each position.
LEMMA SumExists ==
    ASSUME NEW n \in Nat, NEW h \in Nat, NEW w \in [1..n -> Nat]
    PROVE  \E f \in [0..n -> Nat] : f[0] = h /\ \A i \in 1..n : f[i] = f[i - 1] + w[i]
<1> DEFINE Sums(f, m) == f[0] = h /\ \A i \in 1..m : f[i] = f[i - 1] + w[i]
           none == {m \in 0..n : ~\E f \in [0..n -> Nat] : Sums(f, m)}
<1> SUFFICES ASSUME none # {} PROVE FALSE
  <2>1. n \in 0..n
    OBVIOUS
  <2>2. none = {}
    <3> HIDE DEF none
    <3> QED  OBVIOUS
  <2>3. \E f \in [0..n -> Nat] : Sums(f, n)
    <3> HIDE DEF Sums
    <3> QED  BY <2>1, <2>2
  <2> QED  BY <2>3
<1>1. PICK m \in none : \A k \in none : m <= k
  <2>1. none \in SUBSET Nat
    OBVIOUS
  <2> HIDE DEF none
  <2> QED  BY <2>1, FirstOfSet
<1>0. m \in 0..n /\ ~\E f \in [0..n -> Nat] : Sums(f, m)
  <2> HIDE DEF Sums
  <2> QED  BY <1>1
<1>2. CASE m = 0
  <2> DEFINE f == [i \in 0..n |-> h]
  <2>1. f \in [0..n -> Nat] /\ Sums(f, 0)
    OBVIOUS
  <2> HIDE DEF f, Sums
  <2> QED  BY <1>0, <1>2, <2>1
<1>3. CASE m # 0
  <2>1. m - 1 \in 0..n /\ m \in 0..n /\ m \in 1..n /\ m - 1 < m
    BY <1>0, <1>3
  <2>2. PICK f \in [0..n -> Nat] : Sums(f, m - 1)
    <3>1. m - 1 \notin none
      <4> HIDE DEF none
      <4> QED  BY <1>0, <1>1, <2>1
    <3> HIDE DEF Sums
    <3> QED  BY <2>1, <3>1
  <2> DEFINE g == [f EXCEPT ![m] = f[m - 1] + w[m]]
  <2>3. g \in [0..n -> Nat] /\ g[m] = f[m - 1] + w[m] /\ \A i \in 0..n : i # m => g[i] = f[i]
    <3>1. f[m - 1] + w[m] \in Nat
      BY <2>1
    <3> QED  BY <2>1, <3>1
  <2> HIDE DEF g
  <2>4. Sums(g, m)
    <3>1. \A i \in 1..(m - 1) : i \in 0..n /\ i - 1 \in 0..n /\ i # m /\ i - 1 # m
      BY <2>1
    <3>2. \A i \in 1..m : i = m \/ i \in 1..(m - 1)
      BY <2>1
    <3>3. m - 1 # m /\ 0 # m /\ 0 \in 0..n
      BY <2>1
    <3> QED  BY <2>1, <2>2, <2>3, <3>1, <3>2, <3>3
  <2> HIDE DEF Sums
  <2> QED  BY <1>0, <2>3, <2>4
<1> QED  BY <1>2, <1>3

\* There is a function that takes its values at earlier positions where it may.
LEMMA EarlierExists ==
    ASSUME NEW n \in Nat, NEW own, NEW to
    PROVE  \E f : f = [i \in 1..n |-> IF to[i] \in 1..(i - 1) THEN f[to[i]] ELSE own[i]]
<1> DEFINE Fills(f, m) == f = [i \in 1..m |-> IF to[i] \in 1..(i - 1) THEN f[to[i]] ELSE own[i]]
           none == {m \in 0..n : ~\E f : Fills(f, m)}
<1> SUFFICES ASSUME none # {} PROVE FALSE
  OBVIOUS
<1>1. PICK m \in none : \A k \in none : m <= k
  <2>1. none \in SUBSET Nat
    OBVIOUS
  <2> HIDE DEF none
  <2> QED  BY <2>1, FirstOfSet
<1>2. CASE m = 0
  <2> DEFINE f == [i \in 1..0 |-> 0]
  <2>1. f = [i \in 1..0 |-> IF to[i] \in 1..(i - 1) THEN f[to[i]] ELSE own[i]]
    OBVIOUS
  <2>2. Fills(f, 0)
    BY <2>1
  <2> HIDE DEF f, Fills
  <2> QED  BY <1>2, <2>2
<1>3. CASE m # 0
  <2>1. m - 1 \in 0..n /\ m \in Nat /\ m - 1 \notin none
    BY <1>1, <1>3
  <2>2. PICK f : Fills(f, m - 1)
    BY <2>1
  <2> DEFINE g == [i \in 1..m |-> IF i < m THEN f[i] ELSE IF to[m] \in 1..(m - 1) THEN f[to[m]] ELSE own[m]]
  <2>3. \A i \in 1..m : g[i] = IF to[i] \in 1..(i - 1) THEN g[to[i]] ELSE own[i]
    <3> SUFFICES ASSUME NEW i \in 1..m PROVE g[i] = IF to[i] \in 1..(i - 1) THEN g[to[i]] ELSE own[i]
      OBVIOUS
    <3>0. to[i] \in 1..(i - 1) => to[i] \in 1..m /\ to[i] < m /\ g[to[i]] = f[to[i]]
      BY <2>1
    <3>1. CASE i = m
      BY <3>0, <3>1
    <3>2. CASE i # m
      <4>1. i \in 1..(m - 1) /\ g[i] = f[i]
        BY <2>1, <3>2
      <4>2. f[i] = IF to[i] \in 1..(i - 1) THEN f[to[i]] ELSE own[i]
        BY <2>2, <4>1
      <4> QED  BY <3>0, <4>1, <4>2
    <3> QED  BY <3>1, <3>2
  <2>4. Fills(g, m)
    <3>1. g = [i \in 1..m |-> g[i]]
      OBVIOUS
    <3> HIDE DEF g
    <3> QED  BY <2>3, <3>1
  <2> HIDE DEF g, Fills
  <2> QED  BY <1>1, <2>4
<1> QED  BY <1>2, <1>3

\* Blocks have sizes.
LEMMA BlockSize ==
    ASSUME OwnershipInv, NEW i \in 1..count
    PROVE  Block(i).size \in Nat
<1>1. i \in Position /\ slot[i] \in Slot /\ slot[i].size \in Nat
  BY TableAssumption DEF OwnershipInv, TypeOK, Position, Slot
<1>2. CASE slot[i].ptr = Null
  BY <1>1, <1>2 DEF Block
<1>3. CASE slot[i].ptr # Null
  <2>1. heap[slot[i].ptr].val \in Payloads
    BY <1>1, <1>3 DEF OwnershipInv, TypeOK, Ownership, Slot, Contents
  <2>2. Width[heap[slot[i].ptr].val] \in Nat
    BY <2>1, PayloadAssumption
  <2> QED  BY <1>1, <1>3, <2>2 DEF Block
<1> QED  BY <1>2, <1>3

LEMMA UsedSpaceAddsUp ==
    ASSUME OwnershipInv
    PROVE  /\ UsedSpace \in [0..count -> Nat] /\ UsedSpace[0] = HeaderWords
           /\ \A i \in 1..count : UsedSpace[i] = UsedSpace[i - 1] + (IF Dumped(i) THEN Block(i).size ELSE 0)
<1> DEFINE w == [i \in 1..count |-> IF Dumped(i) THEN Block(i).size ELSE 0]
<1>1. count \in Nat /\ HeaderWords \in Nat
  BY TableAssumption DEF OwnershipInv, TypeOK, HeaderWords
<1>2. w \in [1..count -> Nat]
  BY BlockSize
<1>3. \A i \in 1..count : w[i] = IF Dumped(i) THEN Block(i).size ELSE 0
  OBVIOUS
<1> HIDE DEF w
<1>4. PICK f \in [0..count -> Nat] : f[0] = HeaderWords /\ \A i \in 1..count : f[i] = f[i - 1] + w[i]
  BY <1>1, <1>2, SumExists
<1>5. \A i \in 0..count : f[i] = IF i = 0 THEN HeaderWords
                               ELSE f[i - 1] + (IF Dumped(i) THEN Block(i).size ELSE 0)
  BY <1>1, <1>3, <1>4
<1>6. f = [i \in 0..count |-> IF i = 0 THEN HeaderWords
                              ELSE f[i - 1] + (IF Dumped(i) THEN Block(i).size ELSE 0)]
  BY <1>4, <1>5
<1>7. UsedSpace = [i \in 0..count |-> IF i = 0 THEN HeaderWords
                                     ELSE UsedSpace[i - 1] + (IF Dumped(i) THEN Block(i).size ELSE 0)]
  BY <1>6 DEF UsedSpace
<1> DEFINE u == UsedSpace
<1>8. u = [i \in 0..count |-> IF i = 0 THEN HeaderWords
                              ELSE u[i - 1] + (IF Dumped(i) THEN Block(i).size ELSE 0)]
  BY <1>7
<1> HIDE DEF u
<1>9. u[0] = HeaderWords /\ \A i \in 1..count : u[i] = u[i - 1] + w[i]
  BY <1>1, <1>3, <1>8
<1> DEFINE odd == {i \in 0..count : u[i] \notin Nat}
<1>10. odd = {}
  <2> SUFFICES ASSUME odd # {} PROVE FALSE
    OBVIOUS
  <2>1. PICK k \in odd : \A j \in odd : k <= j
    <3>1. odd \in SUBSET Nat
      BY <1>1
    <3> HIDE DEF odd
    <3> QED  BY <3>1, FirstOfSet
  <2>2. k # 0 /\ k \in 1..count
    BY <1>1, <1>9, <2>1
  <2>3. k - 1 \in 0..count /\ k - 1 \notin odd
    BY <1>1, <2>1, <2>2
  <2>4. u[k - 1] \in Nat /\ w[k] \in Nat
    BY <1>2, <2>2, <2>3
  <2> QED  BY <1>9, <2>1, <2>2, <2>4
<1>11. u \in [0..count -> Nat]
  <2>1. DOMAIN u = 0..count /\ u = [i \in 0..count |-> u[i]]
    BY <1>8
  <2> QED  BY <1>10, <2>1
<1> QED  BY <1>3, <1>9, <1>11 DEF u

LEMMA SetLinksFills ==
    ASSUME TypeOK
    PROVE  SetLinks = [i \in 1..count |->
             LET j == SearchOneTag(slot[i].linked)
             IN  IF slot[i].linked = NoSig \/ j = 0 THEN Extent(i)
                 ELSE IF j < i THEN SetLinks[j] ELSE Extent(j)]
<1> DEFINE own == [i \in 1..count |-> LET j == SearchOneTag(slot[i].linked)
                                      IN  IF slot[i].linked = NoSig \/ j = 0 THEN Extent(i) ELSE Extent(j)]
           to == [i \in 1..count |-> IF slot[i].linked = NoSig THEN 0 ELSE SearchOneTag(slot[i].linked)]
           Filled(f, i) == LET j == SearchOneTag(slot[i].linked)
                           IN  IF slot[i].linked = NoSig \/ j = 0 THEN Extent(i)
                               ELSE IF j < i THEN f[j] ELSE Extent(j)
<1>1. count \in Nat
  BY TableAssumption DEF TypeOK
<1>2. PICK f : f = [i \in 1..count |-> IF to[i] \in 1..(i - 1) THEN f[to[i]] ELSE own[i]]
  <2> HIDE DEF own, to
  <2> QED  BY <1>1, EarlierExists
<1>3. \A i \in 1..count : f[i] = Filled(f, i)
  <2> SUFFICES ASSUME NEW i \in 1..count PROVE f[i] = Filled(f, i)
    OBVIOUS
  <2>1. SearchOneTag(slot[i].linked) \in 0..count
    BY SearchOneTagType
  <2>2. f[i] = IF to[i] \in 1..(i - 1) THEN f[to[i]] ELSE own[i]
    BY <1>2
  <2>3. CASE slot[i].linked = NoSig \/ SearchOneTag(slot[i].linked) = 0
    BY <2>1, <2>2, <2>3
  <2>4. CASE slot[i].linked # NoSig /\ SearchOneTag(slot[i].linked) # 0
    <3>1. to[i] = SearchOneTag(slot[i].linked) /\ to[i] \in 1..count /\ own[i] = Extent(to[i])
      BY <1>1, <2>1, <2>4
    <3>2. to[i] \in 1..(i - 1) <=> to[i] < i
      BY <1>1, <3>1
    <3> QED  BY <2>2, <2>4, <3>1, <3>2
  <2> QED  BY <2>3, <2>4
<1>4. f = [i \in 1..count |-> Filled(f, i)]
  <2>1. f = [i \in 1..count |-> f[i]]
    BY <1>2
  <2> HIDE DEF Filled
  <2> QED  BY <1>3, <2>1
<1> QED  BY <1>4 DEF SetLinks

(***************************************************************************)
(* What is written where.                                                  *)
(***************************************************************************)
\* A size in the directory is none or that of a payload; raw data has the size
\* of what is there.
SizedAt(e, h) ==
    /\ e.size = 0 \/ \E v \in Payloads : e.size = Width[v]
    /\ e.raw => e.size # 0
    /\ e.raw /\ e.ptr # Null /\ h[e.ptr].shape = "raw" => e.size = Width[h[e.ptr].val]

Sized == \A i \in Position : SizedAt(slot[i], heap)

\* A bound on what a payload takes, and room in a file for as many as a table holds.
RoomFor(W) ==
    /\ W \in Nat /\ \A v \in Payloads : Width[v] <= W
    /\ \A n \in 0..MaxTags : HeaderWords + n * W <= MaxWord

LEMMA BlockFits ==
    ASSUME OwnershipInv, Sized, NEW i \in 1..count
    PROVE  /\ \A W : RoomFor(W) => Block(i).size <= W
           /\ Dumped(i) /\ ~Uncopiable(i) => Block(i).size >= 1
<1>1. i \in Position /\ slot[i] \in Slot /\ SizedAt(slot[i], heap)
  BY TableAssumption DEF OwnershipInv, TypeOK, Position, Sized
<1>2. \A v \in Payloads : Width[v] \in Nat /\ Width[v] >= 1
  BY PayloadAssumption
<1>3. slot[i].size \in Nat /\ \A W : RoomFor(W) => slot[i].size <= W
  BY <1>1, <1>2 DEF SizedAt, RoomFor, Slot
<1>4. CASE slot[i].ptr = Null
  BY <1>3, <1>4 DEF Block, Dumped, FromMemory, FromFile, Uncopiable, InFile
<1>5. CASE slot[i].ptr # Null
  <2>1. heap[slot[i].ptr].val \in Payloads
    BY <1>1, <1>5 DEF OwnershipInv, TypeOK, Ownership, Slot, Contents
  <2>2. CASE slot[i].raw
    BY <1>1, <1>3, <1>5, <2>2 DEF Block, SizedAt
  <2>3. CASE ~slot[i].raw
    <3>1. Block(i).size = Width[heap[slot[i].ptr].val]
      BY <1>5, <2>3 DEF Block
    <3> QED  BY <1>2, <2>1, <3>1 DEF RoomFor
  <2> QED  BY <2>2, <2>3
<1> QED  BY <1>4, <1>5

\* The space used never shrinks from one position to the next.
LEMMA UsedSpaceGrows ==
    ASSUME OwnershipInv, NEW i \in 0..count, NEW j \in 0..count, i <= j
    PROVE  UsedSpace[i] <= UsedSpace[j]
<1> DEFINE less == {k \in 0..count : i <= k /\ ~(UsedSpace[i] <= UsedSpace[k])}
<1>0. count \in Nat /\ i \in Nat
  BY TableAssumption DEF OwnershipInv, TypeOK
<1>1. \A k \in 0..count : UsedSpace[k] \in Nat
  BY UsedSpaceAddsUp
<1> SUFFICES ASSUME less # {} PROVE FALSE
  OBVIOUS
<1>2. PICK k \in less : \A m \in less : k <= m
  <2>1. less \in SUBSET Nat
    BY <1>0
  <2> HIDE DEF less
  <2> QED  BY <2>1, FirstOfSet
<1>3. k \in 0..count /\ i <= k /\ ~(UsedSpace[i] <= UsedSpace[k])
  BY <1>2
<1>4. k \in 1..count /\ k - 1 \in 0..count /\ i <= k - 1
  BY <1>0, <1>1, <1>3
<1>5. k - 1 \notin less
  <2> HIDE DEF less
  <2> QED  BY <1>2, <1>4
<1>6. UsedSpace[i] <= UsedSpace[k - 1]
  BY <1>4, <1>5
<1>7. UsedSpace[k] = UsedSpace[k - 1] + (IF Dumped(k) THEN Block(k).size ELSE 0)
  BY <1>4, UsedSpaceAddsUp
<1>8. Block(k).size \in Nat
  BY <1>4, BlockSize
<1> QED  BY <1>1, <1>3, <1>4, <1>6, <1>7, <1>8

LEMMA UsedSpaceFits ==
    ASSUME OwnershipInv, Sized, NEW W, RoomFor(W), NEW i \in 0..count
    PROVE  UsedSpace[i] <= HeaderWords + i * W
<1> DEFINE more == {k \in 0..count : ~(UsedSpace[k] <= HeaderWords + k * W)}
<1>0. count \in Nat /\ W \in Nat
  BY TableAssumption DEF OwnershipInv, TypeOK, RoomFor
<1>1. \A k \in 0..count : UsedSpace[k] \in Nat
  BY UsedSpaceAddsUp
<1> SUFFICES ASSUME more # {} PROVE FALSE
  OBVIOUS
<1>2. PICK k \in more : \A m \in more : k <= m
  <2>1. more \in SUBSET Nat
    BY <1>0
  <2> HIDE DEF more
  <2> QED  BY <2>1, FirstOfSet
<1>3. k \in 0..count /\ ~(UsedSpace[k] <= HeaderWords + k * W)
  BY <1>2
<1>4. k # 0
  BY <1>0, <1>3, UsedSpaceAddsUp
<1>5. k \in 1..count /\ k - 1 \in 0..count
  BY <1>0, <1>3, <1>4
<1>6. k - 1 \notin more
  <2> HIDE DEF more
  <2> QED  BY <1>2, <1>5
<1>7. UsedSpace[k - 1] <= HeaderWords + (k - 1) * W
  BY <1>5, <1>6
<1>8. UsedSpace[k] <= UsedSpace[k - 1] + W
  <2>1. UsedSpace[k] = UsedSpace[k - 1] + (IF Dumped(k) THEN Block(k).size ELSE 0)
    BY <1>5, UsedSpaceAddsUp
  <2>2. Block(k).size \in Nat /\ Block(k).size <= W
    BY <1>5, BlockSize, BlockFits
  <2> QED  BY <1>0, <1>1, <1>5, <2>1, <2>2
<1>9. (k - 1) * W + W = k * W /\ k * W \in Nat /\ (k - 1) * W \in Nat
  BY <1>0, <1>5
<1> QED  BY <1>0, <1>1, <1>3, <1>5, <1>7, <1>8, <1>9 DEF HeaderWords

\* Where a block is saved no other is.
LEMMA SavedBlock ==
    ASSUME OwnershipInv, Sized, \A i \in 1..count : ~Uncopiable(i), NEW p \in 1..count, Dumped(p)
    PROVE  /\ UsedSpace[p - 1] \in DOMAIN SavedFile.block
           /\ SavedFile.block[UsedSpace[p - 1]] = Block(p)
           /\ UsedSpace[p - 1] \in Nat /\ UsedSpace[p - 1] >= HeaderWords
           /\ UsedSpace[p - 1] + Block(p).size <= UsedSpace[count]
<1>0. count \in Nat
  BY TableAssumption DEF OwnershipInv, TypeOK
<1>1. ASSUME NEW k \in 1..count
      PROVE  /\ k - 1 \in 0..count /\ k \in 0..count
             /\ UsedSpace[k - 1] \in Nat /\ UsedSpace[k] \in Nat
             /\ Dumped(k) => UsedSpace[k] = UsedSpace[k - 1] + Block(k).size
  <2>1. k - 1 \in 0..count /\ k \in 0..count
    BY <1>0
  <2>2. UsedSpace[k] = UsedSpace[k - 1] + (IF Dumped(k) THEN Block(k).size ELSE 0)
    BY UsedSpaceAddsUp
  <2>3. UsedSpace \in [0..count -> Nat]
    BY UsedSpaceAddsUp
  <2> QED  BY <2>1, <2>2, <2>3
<1>2. ASSUME NEW i \in 1..count, NEW j \in 1..count, Dumped(i), Dumped(j), i < j
      PROVE  UsedSpace[i - 1] # UsedSpace[j - 1]
  <2>1. Block(i).size \in Nat /\ Block(i).size >= 1
    BY <1>2, BlockSize, BlockFits
  <2>2. /\ UsedSpace[i - 1] \in Nat /\ UsedSpace[i] \in Nat /\ UsedSpace[j - 1] \in Nat
        /\ UsedSpace[i] = UsedSpace[i - 1] + Block(i).size
    BY <1>1, <1>2
  <2>3. UsedSpace[i] <= UsedSpace[j - 1]
    BY <1>0, <1>1, <1>2, UsedSpaceGrows
  <2> QED  BY <2>1, <2>2, <2>3
<1>3. DumpedAt(UsedSpace[p - 1]) = {p}
  <2> SUFFICES ASSUME NEW i \in 1..count, Dumped(i), UsedSpace[i - 1] = UsedSpace[p - 1], i # p PROVE FALSE
    BY DEF DumpedAt
  <2>1. i < p \/ p < i
    BY <1>0
  <2> QED  BY <1>2, <2>1
<1>4. UsedSpace[p] <= UsedSpace[count] /\ UsedSpace[0] <= UsedSpace[p - 1]
  <2>1. /\ p \in 0..count /\ count \in 0..count /\ p <= count
        /\ 0 \in 0..count /\ p - 1 \in 0..count /\ 0 <= p - 1
    BY <1>0
  <2> QED  BY <2>1, UsedSpaceGrows
<1>5. SavedFile.block = [off \in {UsedSpace[i - 1] : i \in {j \in 1..count : Dumped(j)}} |->
                           Block(CHOOSE i \in DumpedAt(off) : TRUE)]
  BY DEF SavedFile
<1>6. UsedSpace[p - 1] \in {UsedSpace[i - 1] : i \in {j \in 1..count : Dumped(j)}}
  OBVIOUS
<1>7. (CHOOSE i \in DumpedAt(UsedSpace[p - 1]) : TRUE) = p
  BY <1>3
<1>8. UsedSpace[p - 1] \in DOMAIN SavedFile.block /\ SavedFile.block[UsedSpace[p - 1]] = Block(p)
  BY <1>5, <1>6, <1>7
<1>9. UsedSpace[p - 1] \in Nat /\ UsedSpace[p - 1] >= HeaderWords
  <2>1. UsedSpace[0] = HeaderWords
    BY UsedSpaceAddsUp
  <2> QED  BY <1>1, <1>4, <2>1
<1>10. UsedSpace[p - 1] + Block(p).size = UsedSpace[p]
  BY <1>1
<1> QED  BY <1>4, <1>8, <1>9, <1>10

\* The contents of a settled tag are written as they are.
LEMMA SettledBlock ==
    ASSUME OwnershipInv, Sized, NEW s \in Sigs, Settled(s)
    PROVE  /\ SearchTag(s) \in 1..count /\ Dumped(SearchTag(s)) /\ Content(s) \in Payloads
           /\ Block(SearchTag(s)).val = Content(s) /\ Block(SearchTag(s)).size = Width[Content(s)]
<1> DEFINE n == SearchTag(s)
<1>1. n \in 1..count /\ Content(s) # Null /\ Dumped(n) /\ Block(n).val = Content(s)
  BY DEF Settled, Content
<1> HIDE DEF n
<1>2. n \in Position /\ slot[n] \in Slot /\ SizedAt(slot[n], heap)
  BY <1>1, TableAssumption DEF OwnershipInv, TypeOK, Position, Sized
<1>3. CASE slot[n].ptr = Null
  <2>1. /\ Intact(slot[n].off, slot[n].size) /\ Content(s) = BytesAt(slot[n].off, slot[n].size)
    BY <1>1, <1>3 DEF Content, n
  <2>2. Block(n).size = slot[n].size
    BY <1>3 DEF Block
  <2>3. /\ Content(s) # Garbage /\ Width[Content(s)] = slot[n].size /\ IsBlock(slot[n].off)
        /\ Content(s) = file.block[slot[n].off].val
    BY <2>1 DEF Intact, BytesAt
  <2>4. Content(s) \in Payloads
    BY <2>3 DEF OwnershipInv, TypeOK, IsBlock
  <2> QED  BY <1>1, <2>2, <2>3, <2>4 DEF n
<1>4. CASE slot[n].ptr # Null
  <2> DEFINE c == heap[slot[n].ptr]
  <2>1. Content(s) = c.val
    BY <1>1, <1>4 DEF Content, n
  <2>2. c.val \in Payloads
    BY <1>1, <1>2, <1>4 DEF OwnershipInv, TypeOK, Ownership, Slot, Contents
  <2>3. CASE slot[n].raw
    <3>1. c.shape = "raw" /\ Block(n).size = slot[n].size
      BY <1>1, <1>4, <2>1, <2>2, <2>3, PayloadAssumption DEF Block
    <3> QED  BY <1>1, <1>2, <1>4, <2>1, <2>2, <2>3, <3>1 DEF SizedAt, n
  <2>4. CASE ~slot[n].raw
    <3>1. Block(n).size = Width[c.val]
      BY <1>4, <2>4 DEF Block
    <3> QED  BY <1>1, <2>1, <2>2, <3>1 DEF n
  <2> QED  BY <2>3, <2>4
<1> QED  BY <1>3, <1>4

LEMMA SearchTagEndsNext ==
    ASSUME DirectoryOK', NEW s \in Sigs, NEW d \in LinkPath(s)', Hop'[d] = NoSig
    PROVE  SearchTag(s)' = SearchOneTag(d)'
<1>1. (\A e \in LinkPath(s) : Hop[e] = NoSig => SearchTag(s) = SearchOneTag(e))'
  BY SearchTagEnds, PTL
<1> QED  BY <1>1

\* Each tag on the path of a settled one gets the offset and the size of the end.
LEMMA SettledExtent ==
    ASSUME OwnershipInv, Sized, NEW s \in Sigs, Settled(s), NEW t \in LinkPath(s)
    PROVE  /\ SearchOneTag(t) \in 1..count
           /\ SetLinks[SearchOneTag(t)] = [off  |-> UsedSpace[SearchTag(s) - 1],
                                           size |-> Block(SearchTag(s)).size]
<1> DEFINE p == SearchTag(s)
           X == [off |-> UsedSpace[p - 1], size |-> Block(p).size]
<1>0. TypeOK /\ DirectoryOK /\ count \in 0..MaxTags /\ MaxTags \in Nat
  BY TableAssumption DEF OwnershipInv, TypeOK, DirectoryOK
<1>1. p \in 1..count /\ Dumped(p) /\ Dumpable(p)
  BY SettledBlock DEF Dumped, FromMemory, FromFile
<1>2. Extent(p) = X
  BY <1>1 DEF Extent
<1>3. LinkPath(s) \subseteq Sigs /\ s \in LinkPath(s) /\ LeadsNowhereElse(LinkPath(s))
  BY <1>0, PathLeast
<1>4. PICK e \in LinkPath(s) : Hop[e] = NoSig
  BY <1>0, <1>1, SearchTagFinds DEF Loop
<1>5. p = SearchOneTag(e)
  BY <1>0, <1>4, SearchTagEnds
<1>6. \A u \in LinkPath(s) : Hop[u] = NoSig => u = e
  BY <1>0, <1>4, OneEnd
<1>7. ASSUME NEW u \in LinkPath(s)
      PROVE  /\ SearchOneTag(u) \in 1..count /\ slot[SearchOneTag(u)].linked = Hop[u]
             /\ Hop[u] = NoSig \/ Hop[u] \in LinkPath(s)
  <2>1. Hop[u] = NoSig \/ Hop[u] \in LinkPath(s)
    BY <1>3 DEF LeadsNowhereElse
  <2>2. SearchOneTag(u) \in 0..count /\ Hop[u] = IF SearchOneTag(u) = 0 THEN NoSig ELSE slot[SearchOneTag(u)].linked
    BY <1>0, <1>3, HopLeads, SearchOneTagType
  <2>3. SearchOneTag(u) # 0
    BY <1>1, <1>5, <1>6, <2>2
  <2> QED  BY <1>0, <2>1, <2>2, <2>3
<1> HIDE DEF p
<1> DEFINE late == {i \in {SearchOneTag(u) : u \in LinkPath(s)} : SetLinks[i] # X}
<1>8. late = {}
  <2> SUFFICES ASSUME late # {} PROVE FALSE
    OBVIOUS
  <2>1. PICK i \in late : \A j \in late : i <= j
    <3>1. late \in SUBSET Nat
      BY <1>0, <1>7
    <3> HIDE DEF late
    <3> QED  BY <3>1, FirstOfSet
  <2>2. PICK u \in LinkPath(s) : i = SearchOneTag(u) /\ SetLinks[i] # X
    BY <2>1
  <2>3. i \in 1..count /\ slot[i].linked = Hop[u]
    BY <1>7, <2>2
  <2> DEFINE j == SearchOneTag(slot[i].linked)
  <2>4. SetLinks[i] = IF slot[i].linked = NoSig \/ j = 0 THEN Extent(i)
                      ELSE IF j < i THEN SetLinks[j] ELSE Extent(j)
    BY <1>0, <2>3, SetLinksFills
  <2>5. CASE Hop[u] = NoSig
    BY <1>2, <1>5, <1>6, <2>2, <2>3, <2>4, <2>5
  <2>6. CASE Hop[u] # NoSig
    <3>1. Hop[u] \in LinkPath(s) /\ j = SearchOneTag(Hop[u]) /\ j \in 1..count
          /\ slot[j].linked = Hop[Hop[u]]
      BY <1>7, <2>3, <2>6
    <3>2. slot[j].linked = NoSig \/ j < i
      BY <2>2, <2>3, <2>6 DEF Settled
    <3>3. slot[j].linked = NoSig => j = p
      BY <1>5, <1>6, <3>1
    <3>4. slot[p].linked = NoSig
      BY <1>1 DEF Dumpable
    <3>5. SetLinks[p] = X
      <4>1. SetLinks[p] = Extent(p)
        BY <1>0, <1>1, <3>4, SetLinksFills
      <4> QED  BY <1>2, <4>1
    <3>6. j < i => SetLinks[j] = X
      <4> SUFFICES ASSUME j < i, SetLinks[j] # X PROVE FALSE
        OBVIOUS
      <4>1. j \in late
        BY <3>1
      <4> HIDE DEF late, j
      <4> QED  BY <1>0, <2>1, <2>3, <3>1, <4>1
    <3>7. j # 0 /\ slot[i].linked # NoSig
      BY <1>0, <2>3, <2>6, <3>1
    <3> HIDE DEF j
    <3> QED  BY <1>2, <2>2, <2>4, <3>2, <3>3, <3>5, <3>6, <3>7
  <2> QED  BY <2>5, <2>6
<1> QED  BY <1>7, <1>8 DEF p

\* The contents of a settled tag are found again.
LEMMA SettledKept ==
    ASSUME OwnershipInv, OwnershipInv', UniqueNames', Sized, NEW W, RoomFor(W),
           SaveAndReopen, NEW s \in Sigs, Settled(s)
    PROVE  Content(s)' = Content(s) /\ cmsIsTag(s)'
<1> DEFINE p == SearchTag(s)
           off == UsedSpace[p - 1]
           size == Block(p).size
           v == Content(s)
           X == [off |-> off, size |-> size]
<1>0. /\ TypeOK /\ TypeOK' /\ DirectoryOK /\ DirectoryOK' /\ count \in 0..MaxTags /\ MaxTags \in Nat
      /\ \A i \in 1..count : ~Uncopiable(i)
      /\ file' = SavedFile /\ count' \in 0..MaxTags
  BY TableAssumption DEF OwnershipInv, TypeOK, DirectoryOK, SaveAndReopen
<1>1. /\ p \in 1..count /\ Dumped(p) /\ v \in Payloads /\ Block(p).val = v
      /\ size = Width[v] /\ size \in Nat /\ size >= 1
  BY SettledBlock, PayloadAssumption
<1>2. /\ off \in DOMAIN SavedFile.block /\ SavedFile.block[off] = Block(p)
      /\ off \in Nat /\ off >= HeaderWords /\ off + size <= UsedSpace[count]
  BY <1>0, <1>1, SavedBlock
<1>3. UsedSpace[count] <= MaxWord /\ UsedSpace[count] \in Nat /\ MaxWord \in Nat
  <2>1. HeaderWords + count * W <= MaxWord /\ W \in Nat
    BY <1>0 DEF RoomFor
  <2>2. UsedSpace[count] <= HeaderWords + count * W /\ UsedSpace[count] \in Nat
    BY <1>0, UsedSpaceFits, UsedSpaceAddsUp
  <2>3. count * W \in Nat
    BY <1>0, <2>1
  <2> QED  BY <2>1, <2>2, <2>3, WordAssumption DEF HeaderWords
<1>4. off \in 1..MaxWord /\ size \in 1..MaxWord
  BY <1>1, <1>2, <1>3 DEF HeaderWords
<1> HIDE DEF p, off, size, v
<1>5. ASSUME NEW i \in 1..count, SetLinks[i] = X, slot[i].name # NoSig
      PROVE  i \in Kept
  BY <1>2, <1>4, <1>5 DEF Kept, Announced
<1>6. LinkPath(s) \subseteq Sigs /\ s \in LinkPath(s)
  BY <1>0, PathLeast
<1> DEFINE T == {t \in Sigs : \E i \in Kept : slot[i].name = t /\ SetLinks[i] = X}
<1>7. s \in T
  <2> DEFINE i == SearchOneTag(s)
  <2>1. i \in 1..count /\ SetLinks[i] = X
    BY <1>6, SettledExtent DEF p, off, size
  <2>2. slot[i].name = s /\ s # NoSig
    BY <1>0, <2>1, SearchOneTagType, SigsAssumption
  <2> HIDE DEF i
  <2> QED  BY <1>5, <2>1, <2>2
<1>8. \A t \in T : Hop'[t] \in T \cup {NoSig}
  <2> SUFFICES ASSUME NEW t \in T, Hop'[t] # NoSig PROVE Hop'[t] \in T
    OBVIOUS
  <2>1. PICK i \in Kept : slot[i].name = t /\ SetLinks[i] = X
    OBVIOUS
  <2>2. Hop'[t] = LinkFound(i)
    BY <1>0, <2>1, Reopened
  <2>3. PICK j \in Kept : LinkFound(i) = slot[j].name /\ slot[j].name \in Sigs /\ SetLinks[j] = SetLinks[i]
    BY <1>0, <2>2, FoundBefore
  <2> QED  BY <2>1, <2>2, <2>3
<1>9. LinkPath(s)' \subseteq T
  BY <1>0, <1>7, <1>8, PathLeastNext
<1>10. PICK e \in LinkPath(s)' : Hop'[e] = NoSig
  BY <1>0, ReopenedLinksEnd DEF LinksEnd
<1>11. PICK i \in Kept : slot[i].name = e /\ SetLinks[i] = X
  BY <1>9, <1>10
<1>12. e \in Sigs
  BY <1>9, <1>10
<1>13. SearchTag(s)' = Rank(i)
  <2>1. SearchTag(s)' = SearchOneTag(e)'
    BY <1>0, <1>10, <1>12, SearchTagEndsNext
  <2> QED  BY <1>0, <1>11, <1>12, <2>1, Reopened
<1> DEFINE k == Rank(i)
<1>14. /\ k \in Position /\ k \in 1..count' /\ slot'[k].ptr = Null
       /\ slot'[k].off = off /\ slot'[k].size = size
  <2>1. /\ k \in Position /\ k \in 1..count' /\ slot'[k].ptr = Null
        /\ slot'[k] = [EmptySlot EXCEPT !.name = slot[i].name, !.linked = LinkFound(i),
                                        !.off = SetLinks[i].off, !.size = SetLinks[i].size]
    BY <1>0, Reopened
  <2>2. slot'[k].off = SetLinks[i].off /\ slot'[k].size = SetLinks[i].size
    BY <2>1 DEF EmptySlot
  <2> QED  BY <1>11, <2>1, <2>2
<1> HIDE DEF k
<1>15. /\ off \in DOMAIN file'.block /\ file'.block[off].val = v /\ file'.block[off].size = size
       /\ v # Garbage /\ Width[v] = size
  BY <1>0, <1>1, <1>2, PayloadAssumption DEF v, size, off, p
<1>16. Content(s)' = v
  BY <1>13, <1>14, <1>15 DEF Content, Intact, BytesAt, IsBlock, k
<1>17. cmsIsTag(s)'
  <2>1. PICK j \in Kept : slot[j].name = s
    BY <1>7
  <2>2. SearchOneTag(s)' = Rank(j) /\ Rank(j) \in 1..count'
    BY <1>0, <2>1, Reopened
  <2>3. SearchOneTag(s)' # 0
    BY <1>0, <2>2
  <2> QED  BY <2>3 DEF cmsIsTag
<1> QED  BY <1>16, <1>17 DEF v

(***************************************************************************)
(* Sizes stay those of payloads.                                           *)
(***************************************************************************)
\* What a read of an entry with no data in memory may do: give it a handler,
\* and data, if there is a block in the file.
FetchesAt(n) ==
    LET v == file.block[slot[n].off].val
        handled == [slot[n] EXCEPT !.handler = TypeOf[v]]
    IN  /\ slot[n].ptr = Null /\ IsBlock(slot[n].off)
        /\ \/ slot' = [slot EXCEPT ![n] = handled] /\ heap' = heap
           \/ /\ v \notin Malformed
              /\ \E o \in Free(heap) :
                   /\ slot' = [slot EXCEPT ![n] = [handled EXCEPT !.ptr = o]]
                   /\ heap' = [heap EXCEPT ![o] = [val |-> v, shape |-> "cooked"]]

LEMMA ReadEffects ==
    ASSUME NEW s \in Sigs, ReadTag(s) \/ ReadRawTag(s)
    PROVE  /\ count' = count /\ file' = file
           /\ \/ UNCHANGED <<slot, heap>>
              \/ SearchTag(s) \in 1..count /\ (freeOneTag(SearchTag(s)) \/ FetchesAt(SearchTag(s)))
<1> DEFINE n == SearchTag(s)
<1>1. \A op, v : Return(op, s, v) => file' = file
  BY DEF Return
<1>2. \A op, f : Stop(op, s, f) => UNCHANGED <<slot, count, heap, file>>
  BY DEF Stop
<1>3. CASE ReadTag(s)
  <2>1. CASE Stop("ReadTag", s, "hung") \/ (Return("ReadTag", s, Null) /\ UNCHANGED <<slot, count, heap>>)
    BY <1>1, <1>2, <2>1
  <2>2. CASE n \in 1..count /\ ReadCached(s, n)
    BY <1>1, <2>2 DEF ReadCached
  <2>3. CASE n \in 1..count /\ slot[n].ptr = Null /\ ReadFromFile(s, n)
    BY <1>1, <2>3 DEF ReadFromFile, FetchesAt, Fetchable
  <2> QED  BY <1>3, <2>1, <2>2, <2>3 DEF ReadTag
<1>4. CASE ReadRawTag(s)
  <2>1. CASE Stop("ReadRawTag", s, "hung") \/ (Return("ReadRawTag", s, Null) /\ UNCHANGED <<slot, count, heap>>)
    BY <1>1, <1>2, <2>1
  <2>2. CASE n \in 1..count /\ ReadRawCached(s, n)
    BY <1>1, <2>2 DEF ReadRawCached
  <2>3. CASE n \in 1..count /\ ReadRawFromFile(s, n)
    BY <1>1, <1>2, <2>3 DEF ReadRawFromFile
  <2> QED  BY <1>4, <2>1, <2>2, <2>3 DEF ReadRawTag
<1> QED  BY <1>3, <1>4

\* What happens to the data of one position happens to no other.
LEMMA DataElsewhere ==
    ASSUME OwnershipInv, NEW i \in Position,
           \A o \in Objects : o # slot[i].ptr /\ heap[o] # Unused => heap'[o] = heap[o],
           NEW j \in Position, j # i, slot[j].ptr # Null
    PROVE  j \in 1..count /\ slot[j].ptr \in Objects /\ heap'[slot[j].ptr] = heap[slot[j].ptr]
<1>1. j \in 1..count /\ slot[j].ptr \in Objects
  BY TableAssumption DEF OwnershipInv, Fresh, TypeOK, Position, Slot
<1>2. i \notin 1..count => slot[i].ptr = Null
  BY TableAssumption DEF OwnershipInv, Fresh, TypeOK, Position
<1>3. heap[slot[j].ptr] # Unused /\ slot[j].ptr # slot[i].ptr
  BY <1>1, <1>2 DEF OwnershipInv, Ownership
<1> QED  BY <1>1, <1>3

\* A store in the place of what _cmsDeleteTagByPos freed.
LEMMA StoreHeap ==
    ASSUME OwnershipInv, NEW i \in Position
    PROVE  /\ heap' = HeapAfterDelete(i)
                => \A o \in Objects : o # slot[i].ptr /\ heap[o] # Unused => heap'[o] = heap[o]
           /\ \A p \in Free(HeapAfterDelete(i)) : \A c :
                heap' = [HeapAfterDelete(i) EXCEPT ![p] = c]
                => /\ heap'[p] = c /\ p \in Objects
                   /\ \A o \in Objects : o # slot[i].ptr /\ heap[o] # Unused => heap'[o] = heap[o]
<1>1. HeapAfterDelete(i) = HeapWithout(slot[i].ptr) /\ heap \in [Objects -> Contents \cup {Unused}]
  BY DeletedIsEmpty DEF OwnershipInv, TypeOK
<1>2. /\ HeapAfterDelete(i) \in [Objects -> Contents \cup {Unused}]
      /\ \A o \in Objects : o # slot[i].ptr => HeapAfterDelete(i)[o] = heap[o]
  BY <1>1 DEF HeapWithout
<1> QED  BY <1>2 DEF Free

\* The entries of other positions keep their data.
LEMMA OthersSized ==
    ASSUME OwnershipInv, Sized, NEW i \in Position, SizedAt(slot'[i], heap'),
           \A j \in Position : j # i => slot'[j] = slot[j],
           \A o \in Objects : o # slot[i].ptr /\ heap[o] # Unused => heap'[o] = heap[o]
    PROVE  Sized'
<1> SUFFICES ASSUME NEW j \in Position, j # i PROVE SizedAt(slot'[j], heap')
  BY DEF Sized
<1>1. slot'[j] = slot[j] /\ SizedAt(slot[j], heap)
  BY DEF Sized
<1>2. slot[j].ptr # Null => heap'[slot[j].ptr] = heap[slot[j].ptr]
  BY DataElsewhere
<1> QED  BY <1>1, <1>2 DEF SizedAt

LEMMA StoreSized ==
    ASSUME OwnershipInv, Sized, NEW i \in Position, NEW e, slot' = [slot EXCEPT ![i] = e], SizedAt(e, heap'),
           \/ heap' = HeapAfterDelete(i)
           \/ \E o \in Free(HeapAfterDelete(i)) : \E c : heap' = [HeapAfterDelete(i) EXCEPT ![o] = c]
    PROVE  Sized'
<1>1. \A o \in Objects : o # slot[i].ptr /\ heap[o] # Unused => heap'[o] = heap[o]
  BY StoreHeap
<1>2. slot'[i] = e /\ \A j \in Position : j # i => slot'[j] = slot[j]
  BY DEF OwnershipInv, TypeOK
<1> QED  BY <1>1, <1>2, OthersSized

\* A write stores an entry that is well sized, if the one before it was.
LEMMA DeletedSized ==
    ASSUME OwnershipInv, Sized, NEW i \in Position, NEW h
    PROVE  /\ Deleted(i) \in Slot /\ Deleted(i).ptr = Null /\ SizedAt(Deleted(i), h)
           /\ Deleted(i).size = slot[i].size
<1>1. slot[i] \in Slot /\ SizedAt(slot[i], heap) /\ Deleted(i).ptr = Null /\ Deleted(i) \in Slot
  BY DeletedIsEmpty, DeletedType DEF OwnershipInv, TypeOK, Sized
<1>2. Deleted(i).size = slot[i].size /\ (Deleted(i).raw => slot[i].raw)
  BY <1>1 DEF Deleted, Slot
<1> QED  BY <1>1, <1>2 DEF SizedAt

LEMMA ReadsKeepSized ==
    ASSUME OwnershipInv, Sized, NEW s \in Sigs, ReadTag(s) \/ ReadRawTag(s)
    PROVE  Sized'
<1> DEFINE n == SearchTag(s)
<1>1. CASE UNCHANGED <<slot, heap>>
  BY <1>1 DEF Sized, SizedAt
<1>2. CASE n \in 1..count /\ (freeOneTag(n) \/ FetchesAt(n))
  <2> HIDE DEF n
  <2>1. /\ n \in Position /\ slot[n] \in Slot /\ SizedAt(slot[n], heap) /\ slot \in [Position -> Slot]
        /\ heap \in [Objects -> Contents \cup {Unused}]
    BY <1>2, TableAssumption DEF OwnershipInv, TypeOK, Sized, Position
  <2>2. CASE freeOneTag(n)
    <3>1. /\ slot'[n] = [slot[n] EXCEPT !.ptr = Null]
          /\ \A j \in Position : j # n => slot'[j] = slot[j]
      BY <2>1, <2>2 DEF freeOneTag
    <3>2. slot'[n].ptr = Null /\ slot'[n].size = slot[n].size /\ slot'[n].raw = slot[n].raw
      BY <2>1, <3>1 DEF Slot
    <3>3. \A o \in Objects : o # slot[n].ptr => heap'[o] = heap[o]
      BY <2>1, <2>2 DEF freeOneTag, HeapWithout
    <3>4. SizedAt(slot'[n], heap')
      BY <2>1, <3>2 DEF SizedAt
    <3> QED  BY <2>1, <3>1, <3>3, <3>4, OthersSized
  <2>3. CASE FetchesAt(n)
    <3> DEFINE v == file.block[slot[n].off].val
               handled == [slot[n] EXCEPT !.handler = TypeOf[v]]
    <3>1. /\ handled.size = slot[n].size /\ handled.raw = slot[n].raw /\ handled.ptr = slot[n].ptr
          /\ \A o : LET e == [handled EXCEPT !.ptr = o]
                   IN  e.size = slot[n].size /\ e.raw = slot[n].raw /\ e.ptr = o
      BY <2>1 DEF Slot
    <3>2. CASE slot' = [slot EXCEPT ![n] = handled] /\ heap' = heap
      <4> HIDE DEF handled
      <4>1. slot'[n] = handled /\ \A j \in Position : j # n => slot'[j] = slot[j]
        BY <2>1, <3>2
      <4> QED  BY <2>1, <3>1, <3>2, <4>1, OthersSized DEF SizedAt
    <3>3. ASSUME NEW o \in Free(heap), slot' = [slot EXCEPT ![n] = [handled EXCEPT !.ptr = o]],
                 heap' = [heap EXCEPT ![o] = [val |-> v, shape |-> "cooked"]]
          PROVE  Sized'
      <4> DEFINE e == [handled EXCEPT !.ptr = o]
      <4>1. slot'[n] = e /\ \A j \in Position : j # n => slot'[j] = slot[j]
        BY <2>1, <3>3
      <4>2. e.size = slot[n].size /\ e.raw = slot[n].raw /\ e.ptr = o
        BY <3>1
      <4>3. /\ heap'[o].shape = "cooked" /\ o \in Objects
            /\ \A p \in Objects : p # slot[n].ptr /\ heap[p] # Unused => heap'[p] = heap[p]
        BY <2>1, <3>3 DEF Free
      <4> HIDE DEF e
      <4> QED  BY <2>1, <4>1, <4>2, <4>3, OthersSized DEF SizedAt
    <3> QED  BY <2>3, <3>2, <3>3 DEF FetchesAt
  <2> QED  BY <1>2, <2>2, <2>3
<1> QED  BY <1>1, <1>2, ReadEffects

LEMMA WritesKeepSized ==
    ASSUME OwnershipInv, Sized, NEW s \in Sigs,
           \/ DeleteTag(s)
           \/ \E v \in Payloads : WriteTag(s, v) \/ WriteRawTag(s, v)
           \/ \E t \in Sigs : LinkTag(s, t)
    PROVE  Sized'
<1>0. TypeOK /\ count \in 0..MaxTags /\ MaxTags \in Nat
  BY TableAssumption DEF OwnershipInv, TypeOK
<1>1. CASE UNCHANGED <<slot, heap>>
  BY <1>1 DEF Sized, SizedAt
<1>2. CASE DeleteTag(s)
  <2> DEFINE i == SearchOneTag(s)
             e == [Deleted(i) EXCEPT !.name = NoSig]
  <2>1. CASE i = 0
    BY <1>1, <1>2, <2>1 DEF DeleteTag
  <2>2. CASE i # 0
    <3>1. i \in Position
      BY <1>0, <2>2, SearchOneTagType DEF Position
    <3>2. slot' = [slot EXCEPT ![i] = e] /\ heap' = HeapAfterDelete(i)
      BY <1>2, <2>2 DEF DeleteTag
    <3>3. Deleted(i) \in Slot /\ Deleted(i).ptr = Null /\ SizedAt(Deleted(i), heap')
      BY <3>1, DeletedSized
    <3>4. SizedAt(e, heap')
      BY <3>3 DEF SizedAt, Slot
    <3> QED  BY <3>1, <3>2, <3>4, StoreSized
  <2> QED  BY <2>1, <2>2
<1> DEFINE i == NewPos(s)
           d == Deleted(i)
<1>3. ASSUME i # 0
      PROVE  i \in Position /\ d \in Slot /\ d.ptr = Null /\ \A h : SizedAt(d, h)
  BY <1>0, <1>3, NewPosType, DeletedSized
<1>4. ASSUME NEW v \in Payloads, WriteTag(s, v), i # 0 PROVE Sized'
  <2>1. CASE \E o \in Free(HeapAfterDelete(i)) : Written(s, v, i, o) /\ ~d.raw
    <3>1. PICK o \in Free(HeapAfterDelete(i)) : Written(s, v, i, o) /\ ~d.raw
      BY <2>1
    <3> DEFINE e == [d EXCEPT !.linked = NoSig, !.name = s, !.handler = TypeOf[v],
                              !.size = 0, !.off = 0, !.ptr = o]
    <3>2. slot' = [slot EXCEPT ![i] = e] /\ \E c : heap' = [HeapAfterDelete(i) EXCEPT ![o] = c]
      BY <3>1 DEF Written, Place
    <3>3. e.size = 0 /\ e.raw = d.raw
      BY <1>3, <1>4 DEF Slot
    <3>4. SizedAt(e, heap')
      BY <3>1, <3>3 DEF SizedAt
    <3> HIDE DEF e, d, i
    <3> QED  BY <1>3, <1>4, <3>2, <3>4, StoreSized
  <2>2. CASE WriteRefused(s, v, i)
    <3> DEFINE e == [d EXCEPT !.linked = NoSig]
               f == [d EXCEPT !.linked = NoSig, !.name = s,
                              !.handler = TypeOf[v], !.size = 0, !.off = 0, !.ptr = Null]
    <3>1. /\ heap' = HeapAfterDelete(i)
          /\ Place(i, d) \/ Place(i, e) \/ (~d.raw /\ Place(i, f))
      BY <2>2 DEF WriteRefused
    <3>2. e.size = d.size /\ e.raw = d.raw /\ e.ptr = d.ptr /\ f.size = 0 /\ f.raw = d.raw
      BY <1>3, <1>4 DEF Slot
    <3>3. SizedAt(d, heap') /\ SizedAt(e, heap') /\ (~d.raw => SizedAt(f, heap'))
      BY <1>3, <1>4, <3>2 DEF SizedAt
    <3> HIDE DEF e, f, d, i
    <3> QED  BY <1>3, <1>4, <3>1, <3>3, StoreSized DEF Place
  <2> QED  BY <1>4, <2>1, <2>2 DEF WriteTag
<1>5. ASSUME NEW v \in Payloads, WriteRawTag(s, v), i # 0 PROVE Sized'
  <2> DEFINE e(name, p) == [d EXCEPT !.raw = TRUE, !.name = name, !.linked = NoSig,
                                     !.handler = Null, !.ptr = p, !.size = Width[v]]
  <2>1. \/ \E o \in Free(HeapAfterDelete(i)) :
              Place(i, e(s, o)) /\ heap' = [HeapAfterDelete(i) EXCEPT ![o] = [val |-> v, shape |-> "raw"]]
        \/ Place(i, e(NoSig, Null)) /\ heap' = HeapAfterDelete(i)
    BY <1>5 DEF WriteRawTag
  <2>2. \A name, p : e(name, p).size = Width[v] /\ e(name, p).ptr = p
    BY <1>3, <1>5 DEF Slot
  <2>3. Width[v] # 0
    BY PayloadAssumption
  <2> HIDE DEF e, d
  <2>4. CASE Place(i, e(NoSig, Null)) /\ heap' = HeapAfterDelete(i)
    <3>1. SizedAt(e(NoSig, Null), heap')
      BY <2>2, <2>3 DEF SizedAt
    <3> HIDE DEF i
    <3> QED  BY <1>3, <1>5, <2>4, <3>1, StoreSized DEF Place
  <2>5. ASSUME NEW o \in Free(HeapAfterDelete(i)), Place(i, e(s, o)),
               heap' = [HeapAfterDelete(i) EXCEPT ![o] = [val |-> v, shape |-> "raw"]]
        PROVE  Sized'
    <3>0. HeapAfterDelete(i) = HeapWithout(slot[i].ptr) /\ heap \in [Objects -> Contents \cup {Unused}]
      BY <1>3, <1>5, DeletedIsEmpty DEF OwnershipInv, TypeOK
    <3>1. o \in DOMAIN HeapAfterDelete(i)
      BY <3>0 DEF HeapWithout, Free
    <3>2. heap'[o].val = v
      BY <2>5, <3>1
    <3>3. SizedAt(e(s, o), heap')
      BY <2>2, <2>3, <3>2 DEF SizedAt
    <3> HIDE DEF i
    <3> QED  BY <1>3, <1>5, <2>5, <3>3, StoreSized DEF Place
  <2> QED  BY <2>1, <2>4, <2>5
<1>6. ASSUME NEW t \in Sigs, LinkTag(s, t), i # 0 PROVE Sized'
  <2> DEFINE e == [d EXCEPT !.raw = FALSE, !.name = s, !.linked = t, !.ptr = Null, !.size = 0, !.off = 0]
  <2>1. slot' = [slot EXCEPT ![i] = e] /\ heap' = HeapAfterDelete(i)
    BY <1>6 DEF LinkTag, Place
  <2>2. e.size = 0 /\ e.raw = FALSE
    BY <1>3, <1>6 DEF Slot
  <2>3. SizedAt(e, heap')
    BY <2>2 DEF SizedAt
  <2> HIDE DEF e, i
  <2> QED  BY <1>3, <1>6, <2>1, <2>3, StoreSized
<1>7. CASE i = 0 /\ ~DeleteTag(s)
  BY <1>1, <1>7 DEF WriteTag, WriteRawTag, LinkTag
<1> QED  BY <1>2, <1>4, <1>5, <1>6, <1>7

\* Every tag of a file that is read gets the extent of some entry.
LEMMA SetLinksExtents ==
    ASSUME TypeOK, NEW i \in 1..count
    PROVE  \E j \in 1..count : SetLinks[i] = Extent(j)
<1> DEFINE odd == {k \in 1..count : ~\E j \in 1..count : SetLinks[k] = Extent(j)}
<1>0. count \in Nat
  BY TableAssumption DEF TypeOK
<1> SUFFICES ASSUME odd # {} PROVE FALSE
  OBVIOUS
<1>1. PICK k \in odd : \A m \in odd : k <= m
  <2>1. odd \in SUBSET Nat
    BY <1>0
  <2> HIDE DEF odd
  <2> QED  BY <2>1, FirstOfSet
<1>2. k \in 1..count /\ ~\E j \in 1..count : SetLinks[k] = Extent(j)
  BY <1>1
<1> DEFINE j == SearchOneTag(slot[k].linked)
<1>3. /\ j \in 0..count
      /\ SetLinks[k] = IF slot[k].linked = NoSig \/ j = 0 THEN Extent(k)
                       ELSE IF j < k THEN SetLinks[j] ELSE Extent(j)
  BY <1>2, SetLinksFills, SearchOneTagType
<1> HIDE DEF j
<1>4. j \in 1..count /\ j < k /\ SetLinks[k] = SetLinks[j]
  BY <1>0, <1>2, <1>3
<1>5. j \notin odd
  <2> HIDE DEF odd
  <2> QED  BY <1>0, <1>1, <1>2, <1>4
<1> QED  BY <1>2, <1>4, <1>5

LEMMA ReopenKeepsSized ==
    ASSUME OwnershipInv, OwnershipInv', Sized, SaveAndReopen
    PROVE  Sized'
<1>0. TypeOK /\ slot' = ReadDirectory /\ count \in 0..MaxTags /\ MaxTags \in Nat
  BY TableAssumption DEF OwnershipInv, TypeOK, SaveAndReopen
<1>1. ASSUME NEW j \in 1..count
      PROVE  Extent(j).size = 0 \/ \E v \in Payloads : Extent(j).size = Width[v]
  <2>1. j \in Position /\ slot[j] \in Slot /\ SizedAt(slot[j], heap)
    BY <1>0 DEF Position, Sized, TypeOK
  <2>2. slot[j].ptr # Null => heap[slot[j].ptr].val \in Payloads
    BY <2>1 DEF OwnershipInv, TypeOK, Ownership, Slot, Contents
  <2>3. Block(j).size = slot[j].size \/ \E v \in Payloads : Block(j).size = Width[v]
    BY <2>2 DEF Block
  <2>4. Extent(j).size = slot[j].size \/ Extent(j).size = Block(j).size
    BY DEF Extent
  <2> QED  BY <2>1, <2>3, <2>4 DEF SizedAt
<1>2. SUFFICES ASSUME NEW k \in Position PROVE SizedAt(slot'[k], heap')
  BY DEF Sized
<1>3. /\ slot'[k].raw = FALSE
      /\ slot'[k].size = 0 \/ \E i \in Kept : slot'[k].size = SetLinks[i].size
  <2>1. CASE \E i \in Kept : Rank(i) = k
    <3>1. PICK i \in Kept : Rank(i) = k
      BY <2>1
    <3>2. slot'[k] = [EmptySlot EXCEPT !.name = slot[i].name, !.linked = LinkFound(i),
                                      !.off = SetLinks[i].off, !.size = SetLinks[i].size]
      BY <1>0, <3>1, KeptAreRead
    <3> QED  BY <3>2 DEF EmptySlot
  <2>2. CASE ~\E i \in Kept : Rank(i) = k
    <3>1. slot'[k] = EmptySlot
      BY <1>0, <2>2 DEF ReadDirectory
    <3> QED  BY <3>1 DEF EmptySlot
  <2> QED  BY <2>1, <2>2
<1>4. \A i \in Kept : \E j \in 1..count : SetLinks[i] = Extent(j)
  BY <1>0, SetLinksExtents DEF Kept, Announced
<1> QED  BY <1>1, <1>3, <1>4 DEF SizedAt

LEMMA SizesInvariance == Spec => []Sized
<1>1. Empty => Sized
  BY DEF Empty, Sized, SizedAt, EmptySlot
<1>2. OwnershipInv /\ OwnershipInv' /\ Sized /\ [ProfileNext]_vars => Sized'
  <2> SUFFICES ASSUME OwnershipInv, OwnershipInv', Sized, [ProfileNext]_vars PROVE Sized'
    OBVIOUS
  <2>1. ASSUME UNCHANGED <<slot, heap>> PROVE Sized'
    BY <2>1 DEF Sized, SizedAt
  <2>2. ASSUME SaveFails \/ SaveOutOfMemory PROVE UNCHANGED <<slot, heap>>
    BY <2>2 DEF SaveFails, SaveOutOfMemory
  <2> QED  BY <2>1, <2>2, ReadsKeepSized, WritesKeepSized, ReopenKeepsSized DEF ProfileNext, Next, vars
<1> QED  BY <1>1, <1>2, Invariance, PTL DEF Spec

\* What is saved is what was there: whatever the client did, and whatever failed,
\* opening what was saved finds the contents of every tag whose saving is
\* straightforward, if a file has room for as many payloads as a table has tags.
THEOREM SavingPreserves ==
    ASSUME NEW W, RoomFor(W)
    PROVE  Spec => SavePreserves
<1>1. OwnershipInv /\ OwnershipInv' /\ UniqueNames' /\ Sized /\ [ProfileNext]_vars
        => [answer'.op = "Reopen" =>
              LET after == ContentOfAll'
              IN  \A s \in Sigs : Settled(s) => after[s] = Content(s)]_vars
  <2> SUFFICES ASSUME OwnershipInv, OwnershipInv', UniqueNames', Sized, ProfileNext,
                      answer'.op = "Reopen", NEW s \in Sigs, Settled(s)
               PROVE  ContentOfAll'[s] = Content(s)
    OBVIOUS
  <2>1. SaveAndReopen
    BY AnswerNames DEF ProfileNext, Next, SaveFails, SaveOutOfMemory, Done, Return, NoAnswer
  <2>2. Content(s)' = Content(s)
    BY <2>1, SettledKept
  <2> QED  BY <2>2 DEF ContentOfAll
<1> QED  BY <1>1, Invariance, NamesInvariance, SizesInvariance, PTL DEF Spec, SavePreserves

(***************************************************************************)
(* The dictionary that a directory stands for.                             *)
(***************************************************************************)
Entries == [s \in Sigs |-> Entry(s)]

\* The contents of a position.
HeldAt(n) ==
    IF slot[n].ptr # Null THEN heap[slot[n].ptr].val
    ELSE IF Intact(slot[n].off, slot[n].size) THEN BytesAt(slot[n].off, slot[n].size)
    ELSE Null

AbsentEntry  == [kind |-> "absent", val |-> Null, to |-> NoSig]
DataEntry(v) == [kind |-> "data", val |-> v, to |-> NoSig]
LinkEntry(t) == [kind |-> "link", val |-> Null, to |-> t]

LEMMA EntryIs ==
    ASSUME TypeOK, NEW s \in Sigs
    PROVE  Entry(s) = LET n == SearchOneTag(s)
                      IN  IF n = 0 THEN AbsentEntry
                          ELSE IF slot[n].linked # NoSig THEN LinkEntry(slot[n].linked)
                          ELSE DataEntry(HeldAt(n))
<1> DEFINE n == SearchOneTag(s)
<1>0. DirectoryOK /\ count \in 0..MaxTags /\ n \in 0..count
  BY SearchOneTagType, TableAssumption DEF TypeOK, DirectoryOK
<1>1. CASE n = 0 \/ slot[n].linked # NoSig
  BY <1>1 DEF Entry, AbsentEntry, LinkEntry
<1>2. CASE n # 0 /\ slot[n].linked = NoSig
  <2>1. Hop[s] = NoSig /\ s \in LinkPath(s)
    BY <1>0, <1>2, HopLeads, PathLeast
  <2>2. SearchTag(s) = n /\ n \in 1..count
    BY <1>0, <1>2, <2>1, SearchTagEnds
  <2>3. Content(s) = HeldAt(n)
    BY <2>2 DEF Content, HeldAt
  <2> QED  BY <1>2, <2>3 DEF Entry, DataEntry
<1> QED  BY <1>1, <1>2

\* A tag is an entry of the dictionary as it is one of the directory.
LEMMA EntryKinds ==
    ASSUME TypeOK, NEW s \in Sigs
    PROVE  /\ Entries[s].kind = "link" <=> Hop[s] # NoSig
           /\ Entries[s].kind = "link" => Entries[s].to = Hop[s] /\ Hop[s] \in Sigs
           /\ Hop[s] = NoSig => Entries[s] = IF SearchOneTag(s) = 0 THEN AbsentEntry
                                            ELSE DataEntry(HeldAt(SearchOneTag(s)))
<1>1. DirectoryOK
  BY DEF TypeOK, DirectoryOK
<1>2. /\ Hop[s] = IF SearchOneTag(s) = 0 THEN NoSig ELSE slot[SearchOneTag(s)].linked
      /\ Hop[s] # NoSig => Hop[s] \in Sigs
  BY <1>1, HopLeads
<1>3. Entries[s] = Entry(s)
  BY DEF Entries
<1> QED  BY <1>2, <1>3, EntryIs DEF AbsentEntry, LinkEntry, DataEntry

LEMMA PathIs ==
    ASSUME TypeOK, NEW s \in Sigs
    PROVE  Dictionary!Path(Entries, s) = LinkPath(s)
<1>1. DirectoryOK
  BY DEF TypeOK, DirectoryOK
<1>2. /\ LinkPath(s) \subseteq Sigs /\ s \in LinkPath(s) /\ LeadsNowhereElse(LinkPath(s))
      /\ \A T \in SUBSET Sigs : s \in T /\ LeadsNowhereElse(T) => LinkPath(s) \subseteq T
  BY <1>1, PathLeast
<1>3. ASSUME NEW T \in SUBSET Sigs
      PROVE  Dictionary!Closed(Entries, T) <=> LeadsNowhereElse(T)
  <2>1. ASSUME NEW t \in T
        PROVE  (Entries[t].kind = "link" => Entries[t].to \in T) <=> Hop[t] \in T \cup {NoSig}
    <3>1. t \in Sigs /\ NoSig \notin T
      BY SigsAssumption
    <3> QED  BY <3>1, EntryKinds
  <2> QED  BY <2>1 DEF Dictionary!Closed, LeadsNowhereElse
<1>4. Dictionary!Path(Entries, s) =
        {t \in Sigs : \A T \in SUBSET Sigs : s \in T /\ LeadsNowhereElse(T) => t \in T}
  BY <1>3 DEF Dictionary!Path
<1> QED  BY <1>2, <1>4

LEMMA EndIs ==
    ASSUME TypeOK, NEW s \in Sigs, NEW e \in LinkPath(s), Hop[e] = NoSig
    PROVE  /\ e \in Sigs /\ Dictionary!Last(Entries, s) = e /\ Dictionary!End(Entries, s) = Entries[e]
           /\ Dictionary!What(Entries, s) = Content(s)
           /\ SearchTag(s) = SearchOneTag(e)
           /\ Entries[e] = IF SearchTag(s) = 0 THEN AbsentEntry ELSE DataEntry(Content(s))
<1>0. DirectoryOK /\ LinkPath(s) \subseteq Sigs
  BY PathLeast DEF TypeOK, DirectoryOK
<1>1. \A t \in LinkPath(s) : Hop[t] = NoSig => t = e
  BY <1>0, OneEnd
<1>2. \A t \in LinkPath(s) : Entries[t].kind = "link" <=> Hop[t] # NoSig
  BY <1>0, EntryKinds
<1>3. Dictionary!Last(Entries, s) = e
  BY <1>1, <1>2, PathIs DEF Dictionary!Last
<1>4. SearchTag(s) = SearchOneTag(e) /\ SearchOneTag(e) \in 0..count
  BY <1>0, SearchTagEnds, SearchOneTagType
<1>5. Content(s) = IF SearchTag(s) = 0 THEN Null ELSE HeldAt(SearchTag(s))
  BY <1>4, TableAssumption DEF Content, HeldAt, TypeOK
<1>6. Entries[e] = IF SearchTag(s) = 0 THEN AbsentEntry ELSE DataEntry(Content(s))
  BY <1>0, <1>4, <1>5, EntryKinds
<1>7. Dictionary!What(Entries, s) = Content(s)
  BY <1>3, <1>5, <1>6 DEF Dictionary!What, Dictionary!End, AbsentEntry, DataEntry
<1> QED  BY <1>0, <1>3, <1>4, <1>6, <1>7 DEF Dictionary!End

LEMMA EntryIsNext ==
    ASSUME TypeOK', NEW s \in Sigs
    PROVE  Entry(s)' = IF SearchOneTag(s)' = 0 THEN AbsentEntry
                       ELSE IF slot'[SearchOneTag(s)'].linked # NoSig THEN LinkEntry(slot'[SearchOneTag(s)'].linked)
                       ELSE DataEntry(HeldAt(SearchOneTag(s))')
<1>1. (Entry(s) = LET n == SearchOneTag(s)
                  IN  IF n = 0 THEN AbsentEntry
                      ELSE IF slot[n].linked # NoSig THEN LinkEntry(slot[n].linked)
                      ELSE DataEntry(HeldAt(n)))'
  BY EntryIs, PTL
<1> QED  BY <1>1 DEF AbsentEntry, LinkEntry, DataEntry

\* What a position holds in the next state, once it is known which one.
HoldsNext(n) == HeldAt(n)'

LEMMA EntryAt ==
    ASSUME TypeOK', NEW s \in Sigs, NEW n, SearchOneTag(s)' = n
    PROVE  Entry(s)' = IF n = 0 THEN AbsentEntry
                       ELSE IF slot'[n].linked # NoSig THEN LinkEntry(slot'[n].linked)
                       ELSE DataEntry(HoldsNext(n))
  BY EntryIsNext DEF HeldAt, HoldsNext

LEMMA EntryStays ==
    ASSUME TypeOK, TypeOK', NEW s \in Sigs, NEW n, SearchOneTag(s) = n, SearchOneTag(s)' = n,
           n # 0 => /\ slot'[n].linked = slot[n].linked
                    /\ slot[n].linked = NoSig => HoldsNext(n) = HeldAt(n)
    PROVE  Entry(s)' = Entry(s)
  BY EntryAt, EntryIs

\* A position that stays as it is, with its data, holds what it held.
LEMMA HoldsSame ==
    ASSUME file' = file, NEW n, slot'[n] = slot[n], slot[n].ptr # Null => heap'[slot[n].ptr] = heap[slot[n].ptr]
    PROVE  HoldsNext(n) = HeldAt(n)
  BY DEF HoldsNext, HeldAt, Intact, BytesAt, IsBlock

\* A write of one tag leaves every other entry.
LEMMA OthersKeepEntries ==
    ASSUME OwnershipInv, OwnershipInv', UniqueNames, NEW s \in Sigs,
           UNCHANGED <<slot, count, heap, file>> \/ ChangesOnly(s), NEW u \in Sigs, u # s
    PROVE  Entry(u)' = Entry(u)
<1>0. TypeOK /\ TypeOK' /\ count \in 0..MaxTags /\ MaxTags \in Nat /\ u # NoSig
  BY TableAssumption, SigsAssumption DEF OwnershipInv, TypeOK
<1>1. PICK n : n = SearchOneTag(u)
  OBVIOUS
<1>2. n \in 0..count /\ (n # 0 => slot[n].name = u)
  BY <1>0, <1>1, SearchOneTagType
<1>3. n # 0 => n \in Position /\ n \in 1..count
  BY <1>0, <1>2 DEF Position
<1>4. CASE UNCHANGED <<slot, count, heap, file>>
  <2>1. SearchOneTag(u)' = n
    BY <1>1, <1>4 DEF SearchOneTag
  <2>2. HoldsNext(n) = HeldAt(n)
    BY <1>4, HoldsSame
  <2> QED  BY <1>0, <1>1, <1>4, <2>1, <2>2, EntryStays
<1>5. CASE ChangesOnly(s)
  <2>1. PICK i \in Position :
          /\ EntryChanges(s, i)
          /\ \A o \in Objects : o # slot[i].ptr /\ heap[o] # Unused => heap'[o] = heap[o]
    BY <1>5 DEF ChangesOnly
  <2>2. SearchOneTag(u)' = n /\ (n # 0 => slot'[n] = slot[n])
    BY <1>0, <1>1, <2>1, Elsewhere
  <2>3. n # 0 => HoldsNext(n) = HeldAt(n)
    <3> SUFFICES ASSUME n # 0 PROVE HoldsNext(n) = HeldAt(n)
      OBVIOUS
    <3>1. n # i
      BY <1>0, <1>2, <2>1 DEF EntryChanges
    <3>2. slot[n].ptr # Null => heap'[slot[n].ptr] = heap[slot[n].ptr]
      BY <1>3, <2>1, <3>1, DataElsewhere
    <3>3. file' = file
      BY <1>5 DEF ChangesOnly
    <3> QED  BY <2>2, <3>2, <3>3, HoldsSame
  <2> QED  BY <1>0, <1>1, <2>2, <2>3, EntryStays
<1> QED  BY <1>4, <1>5

\* Where a write stored an entry of s, it is found.
LEMMA FoundWhereStored ==
    ASSUME TypeOK', UniqueNames', NEW s \in Sigs, NEW i \in 1..count', i \in Position, slot'[i].name = s
    PROVE  SearchOneTag(s)' = i
<1>1. PICK m : m = SearchOneTag(s)'
  OBVIOUS
<1>2. m \in 0..count' /\ m # 0 /\ slot'[m].name = s
  BY <1>1, SearchOneTagNext
<1>3. m \in Position /\ s # NoSig
  BY <1>2, TableAssumption, SigsAssumption DEF TypeOK, Position
<1> QED  BY <1>1, <1>2, <1>3 DEF UniqueNames

(***************************************************************************)
(* What a documented call does to the directory.                           *)
(***************************************************************************)
\* What is held as a structure was parsed, and has the handler of its type.
TypedAt(e, h) ==
    e.ptr # Null =>
      LET c == h[e.ptr]
      IN  IF e.raw THEN c.shape = "raw" ELSE c.val \notin Malformed /\ TypeOf[c.val] = e.handler

WellTyped == \A i \in Position : TypedAt(slot[i], heap)

\* The blocks of a file end within it.
FileFits == \A off \in DOMAIN file.block : off + file.block[off].size <= file.used

StoreInv == CallsInv /\ Sized /\ WellTyped /\ FileFits

\* An entry e is stored for s at i, and the data of other positions stays.
Stored(s, i, e) ==
    /\ i \in Position /\ i <= count + 1 /\ slot' = [slot EXCEPT ![i] = e] /\ e.name = s
    /\ count' = IF i > count THEN i ELSE count
    /\ slot[i].name \in {s, NoSig} /\ \A j \in Position : j # i => slot[j].name # s
    /\ \A o \in Objects : o # slot[i].ptr /\ heap[o] # Unused => heap'[o] = heap[o]

LEMMA DocumentedWrite ==
    ASSUME CallsInv, Careful = TRUE, Faults = FALSE, NEW s \in Sigs, NEW v \in Payloads, WriteTag(s, v)
    PROVE  /\ answer' = [op |-> "WriteTag", sig |-> s, val |-> v] /\ file' = file
           /\ \/ UNCHANGED <<slot, count, heap>> /\ SearchOneTag(s) = 0
              \/ \E i, e : /\ Stored(s, i, e)
                           /\ e.linked = NoSig /\ e.ptr # Null /\ heap'[e.ptr].val = v /\ TypedAt(e, heap')
<1> DEFINE i == NewPos(s)
<1>0. /\ TypeOK /\ OwnershipInv /\ UniqueNames
      /\ answer' = [op |-> "WriteTag", sig |-> s, val |-> v] /\ file' = file
  BY DEF CallsInv, OwnershipInv, WriteTag, Return
<1>1. CASE i = 0
  <2>1. SearchOneTag(s) = 0
    BY <1>1 DEF NewPos, cmsIsTag
  <2> QED  BY <1>0, <1>1, <2>1 DEF WriteTag
<1>2. CASE i # 0
  <2>1. /\ i \in Position /\ i <= count + 1
        /\ slot[i].name \in {s, NoSig} /\ \A j \in Position : j # i => slot[j].name # s
    BY <1>0, <1>2, NewPosName
  <2>2. Deleted(i) \in Slot /\ Deleted(i).raw = FALSE
    BY <2>1, DeletedIsBare
  <2>3. Supported[s] # {} /\ TypeOf[v] \in Types /\ v \notin Malformed
    BY PayloadAssumption DEF WriteTag
  <2>4. ~WriteRefused(s, v, i)
    BY <2>2, <2>3 DEF WriteRefused
  <2>5. PICK o \in Free(HeapAfterDelete(i)) : Written(s, v, i, o)
    BY <1>2, <2>4 DEF WriteTag
  <2> DEFINE e == [Deleted(i) EXCEPT !.linked = NoSig, !.name = s, !.handler = TypeOf[v],
                                     !.size = 0, !.off = 0, !.ptr = o]
             c == [val |-> v, shape |-> "cooked"]
  <2>6. e.name = s /\ e.linked = NoSig /\ e.handler = TypeOf[v] /\ e.ptr = o /\ e.raw = FALSE
    BY <2>2 DEF Slot
  <2>7. /\ slot' = [slot EXCEPT ![i] = e] /\ count' = IF i > count THEN i ELSE count
        /\ heap' = [HeapAfterDelete(i) EXCEPT ![o] = c]
    BY <2>5 DEF Written, Place
  <2>8. c.val = v
    OBVIOUS
  <2> HIDE DEF c
  <2>9. /\ heap'[o] = c /\ o \in Objects
        /\ \A p \in Objects : p # slot[i].ptr /\ heap[p] # Unused => heap'[p] = heap[p]
    BY <1>0, <2>1, <2>7, StoreHeap
  <2> HIDE DEF e, i
  <2>10. Stored(s, i, e)
    BY <2>1, <2>6, <2>7, <2>9 DEF Stored
  <2>11. TypedAt(e, heap') /\ e.ptr # Null /\ heap'[e.ptr].val = v
    BY <2>3, <2>6, <2>8, <2>9, HeapAssumption DEF TypedAt
  <2> QED  BY <1>0, <2>6, <2>10, <2>11
<1> QED  BY <1>1, <1>2

LEMMA DocumentedWriteRaw ==
    ASSUME CallsInv, Faults = FALSE, NEW s \in Sigs, NEW v \in Payloads, WriteRawTag(s, v)
    PROVE  /\ answer' = [op |-> "WriteRawTag", sig |-> s, val |-> v] /\ file' = file
           /\ \/ UNCHANGED <<slot, count, heap>> /\ SearchOneTag(s) = 0
              \/ \E i, e : /\ Stored(s, i, e)
                           /\ e.linked = NoSig /\ e.ptr # Null /\ heap'[e.ptr].val = v /\ TypedAt(e, heap')
<1> DEFINE i == NewPos(s)
<1>0. /\ TypeOK /\ OwnershipInv /\ UniqueNames
      /\ answer' = [op |-> "WriteRawTag", sig |-> s, val |-> v] /\ file' = file
  BY DEF CallsInv, OwnershipInv, WriteRawTag, Return
<1>1. CASE i = 0
  <2>1. SearchOneTag(s) = 0
    BY <1>1 DEF NewPos, cmsIsTag
  <2> QED  BY <1>0, <1>1, <2>1 DEF WriteRawTag
<1>2. CASE i # 0
  <2>1. /\ i \in Position /\ i <= count + 1
        /\ slot[i].name \in {s, NoSig} /\ \A j \in Position : j # i => slot[j].name # s
    BY <1>0, <1>2, NewPosName
  <2>2. Deleted(i) \in Slot
    BY <2>1, DeletedIsBare
  <2> DEFINE c == [val |-> v, shape |-> "raw"]
             d(o) == [Deleted(i) EXCEPT !.raw = TRUE, !.name = s, !.linked = NoSig,
                                        !.handler = Null, !.ptr = o, !.size = Width[v]]
  <2>3. PICK o \in Free(HeapAfterDelete(i)) :
          Place(i, d(o)) /\ heap' = [HeapAfterDelete(i) EXCEPT ![o] = c]
    BY <1>2 DEF WriteRawTag
  <2> DEFINE e == d(o)
  <2>4. e.name = s /\ e.linked = NoSig /\ e.ptr = o /\ e.raw = TRUE
    BY <2>2 DEF Slot
  <2>5. c.val = v /\ c.shape = "raw"
    OBVIOUS
  <2>6. slot' = [slot EXCEPT ![i] = e] /\ count' = IF i > count THEN i ELSE count
    BY <2>3 DEF Place
  <2> HIDE DEF c
  <2>7. /\ heap'[o] = c /\ o \in Objects
        /\ \A p \in Objects : p # slot[i].ptr /\ heap[p] # Unused => heap'[p] = heap[p]
    BY <1>0, <2>1, <2>3, StoreHeap
  <2> HIDE DEF e, i
  <2>8. Stored(s, i, e)
    BY <2>1, <2>4, <2>6, <2>7 DEF Stored
  <2>9. TypedAt(e, heap') /\ e.ptr # Null /\ heap'[e.ptr].val = v
    BY <2>4, <2>5, <2>7, HeapAssumption DEF TypedAt
  <2> QED  BY <1>0, <2>4, <2>8, <2>9
<1> QED  BY <1>1, <1>2

LEMMA DocumentedLink ==
    ASSUME CallsInv, Careful = TRUE, NEW s \in Sigs, NEW t \in Sigs, LinkTag(s, t)
    PROVE  /\ answer' = [op |-> "LinkTag", sig |-> s, val |-> t] /\ file' = file /\ s \notin LinkPath(t)
           /\ \/ UNCHANGED <<slot, count, heap>> /\ SearchOneTag(s) = 0
              \/ \E i, e : Stored(s, i, e) /\ e.linked = t /\ TypedAt(e, heap')
<1> DEFINE i == NewPos(s)
<1>0. /\ TypeOK /\ OwnershipInv /\ UniqueNames
      /\ answer' = [op |-> "LinkTag", sig |-> s, val |-> t] /\ file' = file /\ s \notin LinkPath(t)
  BY DEF CallsInv, OwnershipInv, LinkTag, Return
<1>1. CASE i = 0
  <2>1. SearchOneTag(s) = 0
    BY <1>1 DEF NewPos, cmsIsTag
  <2> QED  BY <1>0, <1>1, <2>1 DEF LinkTag
<1>2. CASE i # 0
  <2>1. /\ i \in Position /\ i <= count + 1
        /\ slot[i].name \in {s, NoSig} /\ \A j \in Position : j # i => slot[j].name # s
    BY <1>0, <1>2, NewPosName
  <2>2. Deleted(i) \in Slot
    BY <2>1, DeletedIsBare
  <2> DEFINE e == [Deleted(i) EXCEPT !.raw = FALSE, !.name = s, !.linked = t,
                                     !.ptr = Null, !.size = 0, !.off = 0]
  <2>3. /\ slot' = [slot EXCEPT ![i] = e] /\ count' = IF i > count THEN i ELSE count
        /\ heap' = HeapAfterDelete(i)
    BY <1>2 DEF LinkTag, Place
  <2>4. e.name = s /\ e.linked = t /\ e.ptr = Null
    BY <2>2 DEF Slot
  <2> HIDE DEF e, i
  <2>5. \A p \in Objects : p # slot[i].ptr /\ heap[p] # Unused => heap'[p] = heap[p]
    BY <1>0, <2>1, <2>3, StoreHeap
  <2>6. Stored(s, i, e) /\ TypedAt(e, heap')
    BY <2>1, <2>3, <2>4, <2>5 DEF Stored, TypedAt
  <2> QED  BY <1>0, <2>4, <2>6
<1> QED  BY <1>1, <1>2

LEMMA DocumentedDelete ==
    ASSUME CallsInv, NEW s \in Sigs, DeleteTag(s)
    PROVE  /\ answer' = [op |-> "DeleteTag", sig |-> s, val |-> Null] /\ file' = file /\ count' = count
           /\ \/ UNCHANGED <<slot, heap>> /\ SearchOneTag(s) = 0
              \/ \E i \in Position : \E e :
                   /\ slot' = [slot EXCEPT ![i] = e] /\ e.name = NoSig /\ TypedAt(e, heap')
                   /\ slot[i].name = s
                   /\ \A o \in Objects : o # slot[i].ptr /\ heap[o] # Unused => heap'[o] = heap[o]
<1> DEFINE i == SearchOneTag(s)
           e == [Deleted(i) EXCEPT !.name = NoSig]
<1>0. /\ TypeOK /\ OwnershipInv
      /\ answer' = [op |-> "DeleteTag", sig |-> s, val |-> Null] /\ file' = file /\ count' = count
  BY DEF CallsInv, OwnershipInv, DeleteTag, Done, Return
<1>1. CASE i = 0
  BY <1>0, <1>1 DEF DeleteTag
<1>2. CASE i # 0
  <2>1. i \in Position /\ slot[i].name = s
    BY <1>0, <1>2, SearchOneTagType, TableAssumption DEF TypeOK, Position
  <2>2. Deleted(i) \in Slot /\ Deleted(i).ptr = Null
    BY <2>1, DeletedIsBare
  <2>3. e.name = NoSig /\ e.ptr = Null
    BY <2>2 DEF Slot
  <2>4. slot' = [slot EXCEPT ![i] = e] /\ heap' = HeapAfterDelete(i)
    BY <1>2 DEF DeleteTag
  <2> HIDE DEF e, i
  <2>5. \A p \in Objects : p # slot[i].ptr /\ heap[p] # Unused => heap'[p] = heap[p]
    BY <1>0, <2>1, <2>4, StoreHeap
  <2>6. TypedAt(e, heap')
    BY <2>3 DEF TypedAt
  <2> QED  BY <1>0, <2>1, <2>3, <2>4, <2>5, <2>6
<1> QED  BY <1>1, <1>2

\* A documented read changes at most an entry that has no data in memory yet.
LEMMA DocumentedRead ==
    ASSUME CallsInv, Careful = TRUE, NEW s \in Sigs, ReadTag(s) \/ ReadRawTag(s)
    PROVE  /\ count' = count /\ file' = file
           /\ UNCHANGED <<slot, heap>> \/ (SearchTag(s) \in 1..count /\ FetchesAt(SearchTag(s)))
<1> DEFINE n == SearchTag(s)
<1>1. CASE n \in 1..count /\ slot[n].ptr # Null
  <2>1. n # 0 /\ n # Loop
    BY <1>1, TableAssumption DEF Loop, CallsInv, OwnershipInv, TypeOK
  <2>2. \/ ReadCached(s, n) /\ ~slot[n].raw
        \/ ReadRawCached(s, n)
    BY <1>1, <2>1 DEF ReadTag, ReadRawTag
  <2>3. ~slot[n].raw => slot[n].handler # Null /\ TypeAllowed(s, slot[n].handler)
    BY <1>1, <2>1, ReadNeverFrees
  <2> HIDE DEF n
  <2> QED  BY <2>2, <2>3 DEF ReadCached, ReadRawCached, Return
<1>2. CASE ~(n \in 1..count /\ slot[n].ptr # Null)
  <2>1. n \in 1..count /\ freeOneTag(n) /\ count' = count /\ slot[n].ptr = Null => UNCHANGED <<slot, heap>>
    <3> SUFFICES ASSUME n \in 1..count, freeOneTag(n), slot[n].ptr = Null PROVE UNCHANGED <<slot, heap>>
      OBVIOUS
    <3> HIDE DEF n
    <3>1. n \in Position /\ slot \in [Position -> Slot] /\ slot[n] \in Slot
      BY TableAssumption DEF CallsInv, OwnershipInv, TypeOK, Position
    <3>2. [slot[n] EXCEPT !.ptr = Null] = slot[n]
      BY <3>1 DEF Slot
    <3> QED  BY <3>1, <3>2 DEF freeOneTag, HeapWithout
  <2> QED  BY <1>2, <2>1, ReadEffects
<1> QED  BY <1>1, <1>2

LEMMA OthersTyped ==
    ASSUME OwnershipInv, WellTyped, NEW i \in Position, TypedAt(slot'[i], heap'),
           \A j \in Position : j # i => slot'[j] = slot[j],
           \A o \in Objects : o # slot[i].ptr /\ heap[o] # Unused => heap'[o] = heap[o]
    PROVE  WellTyped'
<1> SUFFICES ASSUME NEW j \in Position, j # i PROVE TypedAt(slot'[j], heap')
  BY DEF WellTyped
<1>1. slot'[j] = slot[j] /\ TypedAt(slot[j], heap)
  BY DEF WellTyped
<1>2. slot[j].ptr # Null => heap'[slot[j].ptr] = heap[slot[j].ptr]
  BY DataElsewhere
<1> QED  BY <1>1, <1>2 DEF TypedAt

\* What fetching from the file stores.
LEMMA FetchStores ==
    ASSUME CallsInv, NEW n \in 1..count, FetchesAt(n)
    PROVE  /\ n \in Position /\ \A j \in Position : j # n => slot'[j] = slot[j]
           /\ slot[n].ptr = Null /\ IsBlock(slot[n].off)
           /\ slot'[n].name = slot[n].name /\ slot'[n].linked = slot[n].linked /\ slot'[n].raw = FALSE
           /\ slot'[n].off = slot[n].off /\ slot'[n].size = slot[n].size
           /\ \A o \in Objects : heap[o] # Unused => heap'[o] = heap[o]
           /\ \/ slot'[n].ptr = Null
              \/ LET v == file.block[slot[n].off].val
                 IN  /\ slot'[n].ptr # Null /\ slot'[n].handler = TypeOf[v] /\ v \notin Malformed
                     /\ heap'[slot'[n].ptr].val = v
<1> DEFINE v == file.block[slot[n].off].val
           handled == [slot[n] EXCEPT !.handler = TypeOf[v]]
<1>1. /\ n \in Position /\ slot \in [Position -> Slot] /\ slot[n] \in Slot /\ slot[n].ptr = Null
      /\ IsBlock(slot[n].off) /\ slot[n].raw = FALSE /\ heap \in [Objects -> Contents \cup {Unused}]
  <2>1. n \in Position
    BY TableAssumption DEF CallsInv, OwnershipInv, TypeOK, Position
  <2>2. slot \in [Position -> Slot] /\ heap \in [Objects -> Contents \cup {Unused}] /\ slot[n] \in Slot
    BY <2>1 DEF CallsInv, OwnershipInv, TypeOK
  <2>3. slot[n].ptr = Null /\ IsBlock(slot[n].off)
    BY DEF FetchesAt
  <2>4. slot[n].raw = FALSE
    BY <2>1, <2>2, <2>3 DEF CallsInv, Held, RawHeld, Slot
  <2> QED  BY <2>1, <2>2, <2>3, <2>4
<1>2. /\ handled.name = slot[n].name /\ handled.linked = slot[n].linked /\ handled.raw = FALSE
      /\ handled.off = slot[n].off /\ handled.size = slot[n].size /\ handled.ptr = Null
      /\ \A o : LET e == [handled EXCEPT !.ptr = o]
               IN  /\ e.name = slot[n].name /\ e.linked = slot[n].linked /\ e.raw = FALSE
                   /\ e.off = slot[n].off /\ e.size = slot[n].size /\ e.ptr = o /\ e.handler = TypeOf[v]
  BY <1>1 DEF Slot
<1> HIDE DEF handled
<1>3. CASE slot' = [slot EXCEPT ![n] = handled] /\ heap' = heap
  <2>1. slot'[n] = handled /\ \A j \in Position : j # n => slot'[j] = slot[j]
    BY <1>1, <1>3
  <2> QED  BY <1>1, <1>2, <1>3, <2>1
<1>4. ASSUME NEW o \in Free(heap), v \notin Malformed, slot' = [slot EXCEPT ![n] = [handled EXCEPT !.ptr = o]],
             heap' = [heap EXCEPT ![o] = [val |-> v, shape |-> "cooked"]]
      PROVE  /\ \A j \in Position : j # n => slot'[j] = slot[j]
             /\ slot'[n] = [handled EXCEPT !.ptr = o] /\ o # Null
             /\ heap'[o].val = v /\ \A p \in Objects : heap[p] # Unused => heap'[p] = heap[p]
  BY <1>1, <1>4, HeapAssumption DEF Free
<1>5. CASE v \notin Malformed /\ \E o \in Free(heap) :
                                  /\ slot' = [slot EXCEPT ![n] = [handled EXCEPT !.ptr = o]]
                                  /\ heap' = [heap EXCEPT ![o] = [val |-> v, shape |-> "cooked"]]
  <2>1. PICK o \in Free(heap) : /\ slot' = [slot EXCEPT ![n] = [handled EXCEPT !.ptr = o]]
                                /\ heap' = [heap EXCEPT ![o] = [val |-> v, shape |-> "cooked"]]
    BY <1>5
  <2>2. /\ \A j \in Position : j # n => slot'[j] = slot[j]
        /\ slot'[n] = [handled EXCEPT !.ptr = o] /\ o # Null
        /\ heap'[o].val = v /\ \A p \in Objects : heap[p] # Unused => heap'[p] = heap[p]
    BY <1>4, <1>5, <2>1
  <2> HIDE DEF v
  <2>3. /\ slot'[n].name = slot[n].name /\ slot'[n].linked = slot[n].linked /\ slot'[n].raw = FALSE
        /\ slot'[n].off = slot[n].off /\ slot'[n].size = slot[n].size
        /\ slot'[n].ptr = o /\ slot'[n].handler = TypeOf[v]
    BY <1>2, <2>2
  <2> QED  BY <1>1, <1>5, <2>2, <2>3 DEF v
<1> QED  BY <1>3, <1>5 DEF FetchesAt, handled

LEMMA ReadsKeepTyped ==
    ASSUME CallsInv, WellTyped, Careful = TRUE, NEW s \in Sigs, ReadTag(s) \/ ReadRawTag(s)
    PROVE  WellTyped'
<1>1. CASE UNCHANGED <<slot, heap>>
  BY <1>1 DEF WellTyped, TypedAt
<1>2. CASE SearchTag(s) \in 1..count /\ FetchesAt(SearchTag(s))
  <2>1. PICK n \in 1..count : FetchesAt(n)
    BY <1>2
  <2>2. TypedAt(slot'[n], heap')
    BY <2>1, FetchStores DEF TypedAt
  <2>3. /\ n \in Position /\ \A j \in Position : j # n => slot'[j] = slot[j]
        /\ \A o \in Objects : heap[o] # Unused => heap'[o] = heap[o]
    BY <2>1, FetchStores
  <2> QED  BY <2>2, <2>3, OthersTyped DEF CallsInv
<1> QED  BY <1>1, <1>2, DocumentedRead

LEMMA WritesKeepTyped ==
    ASSUME CallsInv, WellTyped, Careful = TRUE, Faults = FALSE, NEW s \in Sigs,
           \/ DeleteTag(s)
           \/ \E v \in Payloads : WriteTag(s, v) \/ WriteRawTag(s, v)
           \/ \E t \in Sigs : LinkTag(s, t)
    PROVE  WellTyped'
<1>1. CASE UNCHANGED <<slot, heap>>
  BY <1>1 DEF WellTyped, TypedAt
<1>2. ASSUME NEW i \in Position, NEW e, slot' = [slot EXCEPT ![i] = e], TypedAt(e, heap'),
             \A o \in Objects : o # slot[i].ptr /\ heap[o] # Unused => heap'[o] = heap[o]
      PROVE  WellTyped'
  <2>1. slot'[i] = e /\ \A j \in Position : j # i => slot'[j] = slot[j]
    BY <1>2 DEF CallsInv, OwnershipInv, TypeOK
  <2> QED  BY <1>2, <2>1, OthersTyped DEF CallsInv
<1>3. ASSUME NEW i, NEW e, Stored(s, i, e), TypedAt(e, heap') PROVE WellTyped'
  BY <1>2, <1>3 DEF Stored
<1>4. CASE DeleteTag(s)
  BY <1>1, <1>2, <1>4, DocumentedDelete
<1>5. ASSUME NEW v \in Payloads, WriteTag(s, v) \/ WriteRawTag(s, v) PROVE WellTyped'
  BY <1>1, <1>3, <1>5, DocumentedWrite, DocumentedWriteRaw
<1>6. ASSUME NEW t \in Sigs, LinkTag(s, t) PROVE WellTyped'
  BY <1>1, <1>3, <1>6, DocumentedLink
<1> QED  BY <1>4, <1>5, <1>6

LEMMA ReopenKeepsTyped ==
    ASSUME CallsInv, Sized, SaveAndReopen
    PROVE  WellTyped' /\ FileFits'
<1>0. /\ TypeOK /\ OwnershipInv /\ slot' = ReadDirectory /\ file' = SavedFile
      /\ \A i \in 1..count : ~Uncopiable(i)
  BY DEF CallsInv, OwnershipInv, SaveAndReopen
<1>1. WellTyped'
  BY <1>0, ReadDirectoryType DEF WellTyped, TypedAt
<1>2. ASSUME NEW off \in DOMAIN SavedFile.block
      PROVE  off + SavedFile.block[off].size <= SavedFile.used
  <2>1. SavedFile.block = [o \in {UsedSpace[i - 1] : i \in {j \in 1..count : Dumped(j)}} |->
                             Block(CHOOSE i \in DumpedAt(o) : TRUE)]
        /\ SavedFile.used = UsedSpace[count]
    BY DEF SavedFile
  <2>2. PICK p \in 1..count : Dumped(p) /\ off = UsedSpace[p - 1]
    BY <2>1
  <2>3. SavedFile.block[UsedSpace[p - 1]] = Block(p) /\ UsedSpace[p - 1] + Block(p).size <= UsedSpace[count]
    BY <1>0, <2>2, SavedBlock
  <2> QED  BY <2>1, <2>2, <2>3
<1>3. FileFits'
  <2> SUFFICES ASSUME NEW off \in DOMAIN file'.block PROVE off + file'.block[off].size <= file'.used
    BY DEF FileFits
  <2> QED  BY <1>0, <1>2
<1> QED  BY <1>1, <1>3

LEMMA StoreInvariance ==
    ASSUME Careful = TRUE, Faults = FALSE
    PROVE  Spec => []StoreInv
<1>1. Empty => WellTyped /\ FileFits
  <2> SUFFICES ASSUME Empty PROVE WellTyped /\ FileFits
    OBVIOUS
  <2>1. WellTyped
    BY DEF Empty, WellTyped, TypedAt, EmptySlot
  <2>2. DOMAIN file.block = {}
    BY DEF Empty, NoFile
  <2> QED  BY <2>1, <2>2 DEF FileFits
<1>2. CallsInv /\ Sized /\ WellTyped /\ FileFits /\ [ProfileNext]_vars => WellTyped' /\ FileFits'
  <2> SUFFICES ASSUME CallsInv, Sized, WellTyped, FileFits, [ProfileNext]_vars PROVE WellTyped' /\ FileFits'
    OBVIOUS
  <2>1. ASSUME UNCHANGED <<slot, heap, file>> PROVE WellTyped' /\ FileFits'
    BY <2>1 DEF WellTyped, TypedAt, FileFits
  <2>2. ASSUME file' = file PROVE FileFits'
    BY <2>2 DEF FileFits
  <2>3. ASSUME SaveFails PROVE UNCHANGED <<slot, heap, file>>
    BY <2>3 DEF SaveFails, Done, Return
  <2>4. ASSUME NEW s \in Sigs, ReadTag(s) \/ ReadRawTag(s) PROVE WellTyped' /\ FileFits'
    BY <2>2, <2>4, ReadsKeepTyped, DocumentedRead
  <2>5. ASSUME NEW s \in Sigs,
               \/ DeleteTag(s)
               \/ \E v \in Payloads : WriteTag(s, v) \/ WriteRawTag(s, v)
               \/ \E t \in Sigs : LinkTag(s, t)
        PROVE  WellTyped' /\ FileFits'
    <3>1. file' = file
      BY <2>5 DEF DeleteTag, WriteTag, WriteRawTag, LinkTag, Done, Return
    <3> QED  BY <2>2, <2>5, <3>1, WritesKeepTyped
  <2>6. ~SaveOutOfMemory
    BY DEF SaveOutOfMemory
  <2> QED  BY <2>1, <2>3, <2>4, <2>5, <2>6, ReopenKeepsTyped DEF ProfileNext, Next, vars
<1> QED  BY <1>1, <1>2, CallsInvariance, SizesInvariance, PTL DEF Spec, StoreInv

(***************************************************************************)
(* What a call does to the dictionary.                                     *)
(***************************************************************************)
LEMMA SameEntries ==
    ASSUME TypeOK, TypeOK', UNCHANGED <<slot, count, heap, file>>
    PROVE  Entries' = Entries
<1> SUFFICES ASSUME NEW u \in Sigs PROVE Entry(u)' = Entry(u)
  BY DEF Entries
<1>1. PICK n : n = SearchOneTag(u)
  OBVIOUS
<1>2. SearchOneTag(u)' = n
  BY <1>1 DEF SearchOneTag
<1>3. HoldsNext(n) = HeldAt(n)
  BY HoldsSame
<1> QED  BY <1>1, <1>2, <1>3, EntryStays

\* A read leaves every entry but the one it ends at.
LEMMA FetchEntries ==
    ASSUME CallsInv, CallsInv', NEW n \in 1..count, FetchesAt(n), count' = count, file' = file,
           NEW e \in Sigs, SearchOneTag(e) = n, slot[n].linked = NoSig
    PROVE  Entries' = [Entries EXCEPT ![e] = DataEntry(HoldsNext(n))]
<1>0. /\ TypeOK /\ TypeOK' /\ OwnershipInv /\ UniqueNames' /\ count \in 0..MaxTags /\ MaxTags \in Nat
      /\ \A j \in 1..count : j \in Position
  BY TableAssumption DEF CallsInv, OwnershipInv, TypeOK, Position
<1>1. /\ n \in Position /\ \A j \in Position : j # n => slot'[j] = slot[j]
      /\ slot'[n].name = slot[n].name /\ slot'[n].linked = slot[n].linked /\ slot[n].ptr = Null
      /\ \A o \in Objects : heap[o] # Unused => heap'[o] = heap[o]
  BY FetchStores
<1>2. ASSUME NEW u \in Sigs PROVE SearchOneTag(u)' = SearchOneTag(u) /\ SearchOneTag(u) \in 0..count
                                  /\ (SearchOneTag(u) # 0 => slot[SearchOneTag(u)].name = u)
  <2>1. PICK k : k = SearchOneTag(u)
    OBVIOUS
  <2>2. PICK m : m = SearchOneTag(u)'
    OBVIOUS
  <2>3. /\ k \in 0..count /\ (k # 0 => slot[k].name = u)
        /\ \A j \in 1..count : slot[j].name = u => k # 0
    BY <1>0, <2>1, SearchOneTagType
  <2>4. /\ m \in 0..count' /\ (m # 0 => slot'[m].name = u)
    BY <1>0, <2>2, SearchOneTagNext
  <2>5. CASE k = 0
    <3>1. m # 0 => m \in 1..count /\ slot[m].name = u
      BY <1>0, <1>1, <2>4
    <3> QED  BY <2>1, <2>2, <2>3, <2>5, <3>1
  <2>6. CASE k # 0
    <3>1. k \in 1..count' /\ k \in Position /\ slot'[k].name = u
      BY <1>0, <1>1, <2>3, <2>6
    <3>2. m = k
      BY <1>0, <2>2, <3>1, FoundWhereStored
    <3> QED  BY <2>1, <2>2, <2>3, <3>2
  <2> QED  BY <2>5, <2>6
<1>3. ASSUME NEW u \in Sigs, u # e PROVE Entry(u)' = Entry(u)
  <2>1. PICK k : k = SearchOneTag(u)
    OBVIOUS
  <2>2. k \in 0..count /\ SearchOneTag(u)' = k /\ k # n
    BY <1>0, <1>2, <1>3, <2>1
  <2>3. k # 0 => slot'[k] = slot[k] /\ k \in Position
    BY <1>0, <1>1, <2>2
  <2>4. k # 0 /\ slot[k].ptr # Null => heap'[slot[k].ptr] = heap[slot[k].ptr]
    BY <1>0, <1>1, <2>2, <2>3, DataElsewhere
  <2>5. k # 0 => HoldsNext(k) = HeldAt(k)
    BY <2>3, <2>4, HoldsSame
  <2> QED  BY <1>0, <2>1, <2>2, <2>3, <2>5, EntryStays
<1>4. Entry(e)' = DataEntry(HoldsNext(n))
  <2>1. SearchOneTag(e)' = n /\ n # 0 /\ slot'[n].linked = NoSig
    BY <1>0, <1>1, <1>2
  <2> QED  BY <1>0, <2>1, EntryAt
<1> QED  BY <1>3, <1>4 DEF Entries

\* A write stores the entry of its own tag.
LEMMA StoredEntries ==
    ASSUME CallsInv, CallsInv', file' = file, NEW s \in Sigs, NEW i, NEW e, Stored(s, i, e)
    PROVE  /\ slot'[i] = e
           /\ Entries' = [Entries EXCEPT ![s] = IF e.linked # NoSig THEN LinkEntry(e.linked)
                                                ELSE DataEntry(HoldsNext(i))]
<1>0. /\ TypeOK /\ TypeOK' /\ OwnershipInv /\ OwnershipInv' /\ UniqueNames /\ UniqueNames'
      /\ count \in 0..MaxTags /\ MaxTags \in Nat /\ slot \in [Position -> Slot]
  BY TableAssumption DEF CallsInv, OwnershipInv, TypeOK
<1>1. /\ i \in Position /\ slot'[i] = e /\ e.name = s /\ i \in 1..count' /\ i # 0
      /\ \A j \in Position : j # i => slot'[j] = slot[j]
  BY <1>0 DEF Stored, Position
<1>2. ChangesOnly(s)
  <2>1. EntryChanges(s, i)
    BY <1>1 DEF Stored, EntryChanges
  <2> QED  BY <1>1, <2>1 DEF Stored, ChangesOnly
<1>3. \A u \in Sigs : u # s => Entry(u)' = Entry(u)
  BY <1>0, <1>2, OthersKeepEntries
<1>4. SearchOneTag(s)' = i
  BY <1>0, <1>1, FoundWhereStored
<1>5. Entry(s)' = IF e.linked # NoSig THEN LinkEntry(e.linked) ELSE DataEntry(HoldsNext(i))
  BY <1>0, <1>1, <1>4, EntryAt
<1> QED  BY <1>1, <1>3, <1>5 DEF Entries

LEMMA WritesMap ==
    ASSUME StoreInv, StoreInv', Careful = TRUE, Faults = FALSE, NEW s \in Sigs, NEW v \in Payloads,
           WriteTag(s, v) \/ WriteRawTag(s, v)
    PROVE  /\ \/ answer' = [op |-> "WriteTag", sig |-> s, val |-> v]
              \/ answer' = [op |-> "WriteRawTag", sig |-> s, val |-> v]
           /\ \/ Entries' = [Entries EXCEPT ![s] = DataEntry(v)]
              \/ Entries[s] = AbsentEntry /\ Entries' = Entries
<1>0. CallsInv /\ CallsInv' /\ TypeOK /\ TypeOK'
  BY DEF StoreInv, CallsInv, OwnershipInv
<1>1. ASSUME file' = file,
             \/ UNCHANGED <<slot, count, heap>> /\ SearchOneTag(s) = 0
             \/ \E i, e : /\ Stored(s, i, e)
                          /\ e.linked = NoSig /\ e.ptr # Null /\ heap'[e.ptr].val = v /\ TypedAt(e, heap')
      PROVE  \/ Entries' = [Entries EXCEPT ![s] = DataEntry(v)]
             \/ Entries[s] = AbsentEntry /\ Entries' = Entries
  <2>1. CASE UNCHANGED <<slot, count, heap>> /\ SearchOneTag(s) = 0
    <3>1. Entries[s] = AbsentEntry
      BY <1>0, <2>1, EntryIs DEF Entries
    <3> QED  BY <1>0, <1>1, <2>1, <3>1, SameEntries
  <2>2. ASSUME NEW i, NEW e, Stored(s, i, e), e.linked = NoSig, e.ptr # Null, heap'[e.ptr].val = v
        PROVE  Entries' = [Entries EXCEPT ![s] = DataEntry(v)]
    <3>1. /\ slot'[i] = e
          /\ Entries' = [Entries EXCEPT ![s] = IF e.linked # NoSig THEN LinkEntry(e.linked)
                                               ELSE DataEntry(HoldsNext(i))]
      BY <1>0, <1>1, <2>2, StoredEntries
    <3>2. HoldsNext(i) = v
      BY <2>2, <3>1 DEF HoldsNext, HeldAt
    <3> QED  BY <2>2, <3>1, <3>2
  <2> QED  BY <1>1, <2>1, <2>2
<1>2. CASE WriteTag(s, v)
  BY <1>0, <1>1, <1>2, DocumentedWrite
<1>3. CASE WriteRawTag(s, v)
  BY <1>0, <1>1, <1>3, DocumentedWriteRaw
<1> QED  BY <1>2, <1>3

LEMMA LinkMaps ==
    ASSUME StoreInv, StoreInv', Careful = TRUE, NEW s \in Sigs, NEW t \in Sigs, LinkTag(s, t)
    PROVE  /\ answer' = [op |-> "LinkTag", sig |-> s, val |-> t] /\ s \notin LinkPath(t)
           /\ \/ Entries' = [Entries EXCEPT ![s] = LinkEntry(t)]
              \/ Entries[s] = AbsentEntry /\ Entries' = Entries
<1>0. CallsInv /\ CallsInv' /\ TypeOK /\ TypeOK' /\ t # NoSig
  BY SigsAssumption DEF StoreInv, CallsInv, OwnershipInv
<1>1. /\ answer' = [op |-> "LinkTag", sig |-> s, val |-> t] /\ file' = file /\ s \notin LinkPath(t)
      /\ \/ UNCHANGED <<slot, count, heap>> /\ SearchOneTag(s) = 0
         \/ \E i, e : Stored(s, i, e) /\ e.linked = t
  BY <1>0, DocumentedLink
<1>2. CASE UNCHANGED <<slot, count, heap>> /\ SearchOneTag(s) = 0
  <2>1. Entries[s] = AbsentEntry
    BY <1>0, <1>2, EntryIs DEF Entries
  <2> QED  BY <1>0, <1>1, <1>2, <2>1, SameEntries
<1>3. ASSUME NEW i, NEW e, Stored(s, i, e), e.linked = t
      PROVE  Entries' = [Entries EXCEPT ![s] = LinkEntry(t)]
  BY <1>0, <1>1, <1>3, StoredEntries
<1> QED  BY <1>1, <1>2, <1>3

LEMMA DeleteMaps ==
    ASSUME StoreInv, StoreInv', NEW s \in Sigs, DeleteTag(s)
    PROVE  /\ answer' = [op |-> "DeleteTag", sig |-> s, val |-> Null]
           /\ Entries' = [Entries EXCEPT ![s] = AbsentEntry]
<1>0. /\ CallsInv /\ TypeOK /\ TypeOK' /\ OwnershipInv /\ OwnershipInv' /\ UniqueNames /\ s # NoSig
      /\ count \in 0..MaxTags /\ count' \in 0..MaxTags /\ MaxTags \in Nat
      /\ slot \in [Position -> Slot]
  BY SigsAssumption, TableAssumption DEF StoreInv, CallsInv, OwnershipInv, TypeOK
<1>1. /\ answer' = [op |-> "DeleteTag", sig |-> s, val |-> Null] /\ file' = file /\ count' = count
      /\ \/ UNCHANGED <<slot, heap>> /\ SearchOneTag(s) = 0
         \/ \E i \in Position : \E e :
              /\ slot' = [slot EXCEPT ![i] = e] /\ e.name = NoSig
              /\ slot[i].name = s
  BY <1>0, DocumentedDelete
<1>2. UNCHANGED <<slot, count, heap, file>> \/ ChangesOnly(s)
  BY <1>0, WritesChangeOnly
<1>3. \A u \in Sigs : u # s => Entry(u)' = Entry(u)
  BY <1>0, <1>2, OthersKeepEntries
<1>4. PICK m : m = SearchOneTag(s)'
  OBVIOUS
<1>5. m \in 0..count' /\ (m # 0 => slot'[m].name = s)
  BY <1>0, <1>4, SearchOneTagNext
<1>6. m = 0
  <2>1. CASE UNCHANGED <<slot, heap>> /\ SearchOneTag(s) = 0
    BY <1>1, <1>4, <2>1 DEF SearchOneTag
  <2>2. ASSUME NEW i \in Position, NEW e, slot' = [slot EXCEPT ![i] = e], e.name = NoSig, slot[i].name = s
        PROVE  m = 0
    <3>1. m # 0 => m \in Position
      BY <1>0, <1>5 DEF Position
    <3>2. \A j \in Position : slot'[j].name # s
      BY <1>0, <2>2 DEF UniqueNames
    <3> QED  BY <1>5, <3>1, <3>2
  <2> QED  BY <1>1, <2>1, <2>2
<1>7. Entry(s)' = AbsentEntry
  BY <1>0, <1>4, <1>6, EntryAt
<1> QED  BY <1>1, <1>3, <1>7 DEF Entries

\* What cmsReadTag may answer for a tag.
Readable(s) == {v \in Payloads \ Malformed : TypeAllowed(s, TypeOf[v])}

\* Where a lookup ends, in the directory and in the dictionary.
LEMMA Ends ==
    ASSUME StoreInv, NEW s \in Sigs
    PROVE  \E e \in Sigs :
             /\ Dictionary!Last(Entries, s) = e /\ Dictionary!What(Entries, s) = Content(s)
             /\ SearchTag(s) = SearchOneTag(e) /\ SearchTag(s) \in 0..count
             /\ SearchTag(s) # 0 => /\ Dictionary!End(Entries, s) = DataEntry(Content(s))
                                   /\ slot[SearchTag(s)].linked = NoSig /\ Content(s) = HeldAt(SearchTag(s))
             /\ SearchTag(s) = 0 => Content(s) = Null
<1>0. CallsInv /\ TypeOK /\ DirectoryOK /\ LinksEnd /\ count \in 0..MaxTags /\ MaxTags \in Nat
  BY TableAssumption DEF StoreInv, CallsInv, OwnershipInv, TypeOK, DirectoryOK
<1>1. PICK e \in LinkPath(s) : Hop[e] = NoSig
  BY <1>0 DEF LinksEnd
<1>2. /\ e \in Sigs /\ Dictionary!Last(Entries, s) = e /\ Dictionary!End(Entries, s) = Entries[e]
      /\ Dictionary!What(Entries, s) = Content(s) /\ SearchTag(s) = SearchOneTag(e)
      /\ Entries[e] = IF SearchTag(s) = 0 THEN AbsentEntry ELSE DataEntry(Content(s))
  BY <1>0, <1>1, EndIs
<1>3. SearchTag(s) \in 0..count
  BY <1>0, <1>2, SearchOneTagType
<1>4. SearchTag(s) # 0 => slot[SearchTag(s)].linked = NoSig
  BY <1>0, LookupEnds
<1>5. Content(s) = IF SearchTag(s) = 0 THEN Null ELSE HeldAt(SearchTag(s))
  BY <1>0, <1>3 DEF Content, HeldAt
<1> QED  BY <1>2, <1>3, <1>4, <1>5

\* A payload that an intact block holds.
LEMMA IntactHolds ==
    ASSUME StoreInv, NEW n \in 1..count, slot[n].ptr = Null, HeldAt(n) # Null
    PROVE  /\ IsBlock(slot[n].off) /\ HeldAt(n) = file.block[slot[n].off].val /\ HeldAt(n) \in Payloads
           /\ HeldAt(n) = BytesAt(slot[n].off, slot[n].size)
           /\ Width[HeldAt(n)] = slot[n].size /\ InFile(slot[n].off, slot[n].size) /\ file # NoFile
<1>1. Intact(slot[n].off, slot[n].size) /\ HeldAt(n) = BytesAt(slot[n].off, slot[n].size)
  BY DEF HeldAt
<1>2. /\ IsBlock(slot[n].off) /\ HeldAt(n) = file.block[slot[n].off].val /\ HeldAt(n) # Garbage
      /\ Width[HeldAt(n)] = slot[n].size /\ file.block[slot[n].off].size = slot[n].size
      /\ slot[n].off \in DOMAIN file.block
  BY <1>1 DEF Intact, BytesAt, IsBlock
<1>3. HeldAt(n) \in Payloads
  BY <1>2 DEF StoreInv, CallsInv, OwnershipInv, TypeOK
<1>4. slot[n].size > 0 /\ slot[n].off + slot[n].size <= file.used
  BY <1>2, <1>3, PayloadAssumption DEF StoreInv, FileFits
<1>5. file # NoFile
  <2>1. DOMAIN NoFile.block = {}
    BY DEF NoFile
  <2> QED  BY <1>2, <2>1
<1> QED  BY <1>1, <1>2, <1>3, <1>4, <1>5 DEF InFile

LEMMA ReadMaps ==
    ASSUME StoreInv, StoreInv', Careful = TRUE, Faults = FALSE, NEW s \in Sigs, ReadTag(s)
    PROVE  \/ /\ answer' = [op |-> "ReadTag", sig |-> s,
                            val |-> IF Content(s) \in Readable(s) THEN Content(s) ELSE Null]
              /\ Entries' = Entries
           \/ /\ Dictionary!End(Entries, s) = DataEntry(Null)
              /\ \E v \in Readable(s) :
                   /\ answer' = [op |-> "ReadTag", sig |-> s, val |-> v]
                   /\ Entries' = [Entries EXCEPT ![Dictionary!Last(Entries, s)] = DataEntry(v)]
<1>0. /\ CallsInv /\ CallsInv' /\ TypeOK /\ TypeOK' /\ OwnershipInv /\ WellTyped
      /\ count \in 0..MaxTags /\ MaxTags \in Nat /\ \A i \in 1..count : i \in Position
  BY TableAssumption DEF StoreInv, CallsInv, OwnershipInv, TypeOK, Position
<1>1. PICK n : n = SearchTag(s)
  OBVIOUS
<1>2. PICK e \in Sigs :
        /\ Dictionary!Last(Entries, s) = e
        /\ n = SearchOneTag(e) /\ n \in 0..count
        /\ n # 0 => /\ Dictionary!End(Entries, s) = DataEntry(Content(s))
                    /\ slot[n].linked = NoSig /\ Content(s) = HeldAt(n)
        /\ n = 0 => Content(s) = Null
  BY <1>1, Ends
<1>3. Null \notin Readable(s)
  BY PayloadAssumption DEF Readable
<1>4. \A v : Return("ReadTag", s, v) => answer' = [op |-> "ReadTag", sig |-> s, val |-> v] /\ file' = file
  BY DEF Return
<1>5. n # Loop
  BY <1>0, <1>2 DEF Loop
<1>6. CASE n = 0
  <2>1. Return("ReadTag", s, Null) /\ UNCHANGED <<slot, count, heap>>
    BY <1>1, <1>5, <1>6 DEF ReadTag
  <2> QED  BY <1>0, <1>2, <1>3, <1>4, <1>6, <2>1, SameEntries
<1>7. CASE n # 0 /\ slot[n].ptr # Null
  <2>1. ReadCached(s, n) /\ ~slot[n].raw /\ n \in Position
    BY <1>0, <1>1, <1>2, <1>5, <1>7 DEF ReadTag
  <2>2. slot[n].handler # Null /\ TypeAllowed(s, slot[n].handler)
    BY <1>0, <1>1, <1>7, <2>1, ReadNeverFrees
  <2>3. Return("ReadTag", s, heap[slot[n].ptr].val) /\ UNCHANGED <<slot, count, heap>>
    BY <2>1, <2>2 DEF ReadCached
  <2>4. Content(s) = heap[slot[n].ptr].val
    BY <1>2, <1>7 DEF HeldAt
  <2>5. heap[slot[n].ptr].val \in Payloads
    BY <1>0, <1>2, <1>7, <2>1 DEF OwnershipInv, TypeOK, Ownership, Slot, Contents
  <2>6. heap[slot[n].ptr].val \in Readable(s)
    BY <1>0, <1>7, <2>1, <2>2, <2>5 DEF WellTyped, TypedAt, Readable
  <2> QED  BY <1>0, <1>4, <2>3, <2>4, <2>6, SameEntries
<1>8. CASE n # 0 /\ slot[n].ptr = Null
  <2> DEFINE v == file.block[slot[n].off].val
  <2>1. ReadFromFile(s, n) /\ n \in 1..count /\ n \in Position
    BY <1>0, <1>1, <1>2, <1>5, <1>8 DEF ReadTag
  <2>2. Content(s) # Null =>
          /\ IsBlock(slot[n].off) /\ Content(s) = v /\ Content(s) \in Payloads
          /\ Width[Content(s)] = slot[n].size /\ file # NoFile
    BY <1>2, <1>8, <2>1, IntactHolds
  <2>3. Fetchable(s, n) => v \in Payloads /\ TypeAllowed(s, TypeOf[v])
    BY <1>0 DEF Fetchable, IsBlock, TypeOK
  <2>4. CASE ~Fetchable(s, n)
    <3>1. Return("ReadTag", s, Null) /\ UNCHANGED <<slot, count, heap>>
      BY <2>1, <2>4 DEF ReadFromFile
    <3>2. Content(s) \notin Readable(s)
      <4> SUFFICES ASSUME Content(s) \in Readable(s) PROVE FALSE
        OBVIOUS
      <4>1. Width[Content(s)] >= TypeBaseWords /\ TypeAllowed(s, TypeOf[Content(s)]) /\ Content(s) # Null
        BY <1>3, WidthAssumption DEF Readable
      <4> QED  BY <2>2, <2>4, <4>1 DEF Fetchable
    <3> QED  BY <1>0, <1>4, <3>1, <3>2, SameEntries
  <2>5. CASE Fetchable(s, n)
    <3>0. v \in Payloads /\ TypeAllowed(s, TypeOf[v]) /\ IsBlock(slot[n].off) /\ slot[n] \in Slot
      BY <1>0, <2>1, <2>3, <2>5 DEF Fetchable, TypeOK
    <3>1. \/ /\ v \notin Malformed /\ Return("ReadTag", s, v) /\ count' = count
             /\ \E o \in Free(heap) :
                  /\ slot' = [slot EXCEPT ![n] = [[slot[n] EXCEPT !.handler = TypeOf[v]] EXCEPT !.ptr = o]]
                  /\ heap' = [heap EXCEPT ![o] = [val |-> v, shape |-> "cooked"]]
          \/ /\ v \in Malformed \/ ~Intact(slot[n].off, slot[n].size)
             /\ slot' = [slot EXCEPT ![n] = [slot[n] EXCEPT !.handler = TypeOf[v]]]
             /\ Return("ReadTag", s, Null) /\ heap' = heap /\ count' = count
      BY <2>1, <2>5 DEF ReadFromFile
    <3>2. FetchesAt(n) /\ count' = count /\ file' = file
      BY <1>4, <1>8, <3>0, <3>1 DEF FetchesAt
    <3>3. Entries' = [Entries EXCEPT ![e] = DataEntry(HoldsNext(n))]
      BY <1>0, <1>2, <1>8, <2>1, <3>2, FetchEntries
    <3>4. Dictionary!End(Entries, s) = Entries[e] /\ Entries[e] = DataEntry(Content(s))
      BY <1>2, <1>8 DEF Dictionary!End
    <3>5. ASSUME HoldsNext(n) = Content(s) PROVE Entries' = Entries
      BY <3>3, <3>4, <3>5 DEF Entries
    <3> HIDE DEF v
    <3>6. CASE /\ v \notin Malformed /\ Return("ReadTag", s, v)
               /\ \E o \in Free(heap) :
                    /\ slot' = [slot EXCEPT ![n] = [[slot[n] EXCEPT !.handler = TypeOf[v]] EXCEPT !.ptr = o]]
                    /\ heap' = [heap EXCEPT ![o] = [val |-> v, shape |-> "cooked"]]
      <4>1. PICK o \in Free(heap) :
              /\ slot' = [slot EXCEPT ![n] = [[slot[n] EXCEPT !.handler = TypeOf[v]] EXCEPT !.ptr = o]]
              /\ heap' = [heap EXCEPT ![o] = [val |-> v, shape |-> "cooked"]]
        BY <3>6
      <4>2. o \in Objects /\ o # Null
        BY HeapAssumption DEF Free
      <4>3. slot'[n].ptr = o
        BY <1>0, <2>1, <3>0, <4>1 DEF TypeOK, Slot
      <4>4. heap'[o] = [val |-> v, shape |-> "cooked"]
        BY <1>0, <4>1, <4>2 DEF TypeOK
      <4>5. HoldsNext(n) = v
        BY <4>2, <4>3, <4>4 DEF HoldsNext, HeldAt
      <4>6. v \in Readable(s)
        BY <3>0, <3>6 DEF Readable
      <4>7. answer' = [op |-> "ReadTag", sig |-> s, val |-> v]
        BY <1>4, <3>6
      <4>8. CASE Content(s) = Null
        BY <1>2, <3>3, <3>4, <4>5, <4>6, <4>7, <4>8
      <4>9. CASE Content(s) # Null
        <5>1. Content(s) = v
          BY <2>2, <4>9 DEF v
        <5> QED  BY <3>5, <4>5, <4>6, <4>7, <5>1
      <4> QED  BY <4>8, <4>9
    <3>7. CASE /\ v \in Malformed \/ ~Intact(slot[n].off, slot[n].size)
               /\ slot' = [slot EXCEPT ![n] = [slot[n] EXCEPT !.handler = TypeOf[v]]]
               /\ Return("ReadTag", s, Null) /\ heap' = heap
      <4>1. slot'[n].ptr = Null /\ slot'[n].off = slot[n].off /\ slot'[n].size = slot[n].size
        BY <1>0, <1>8, <2>1, <3>0, <3>7 DEF TypeOK, Slot
      <4>2. HoldsNext(n) = HeldAt(n)
        BY <1>8, <3>2, <4>1 DEF HoldsNext, HeldAt, Intact, BytesAt, IsBlock
      <4>3. Content(s) \notin Readable(s)
        <5>1. CASE v \in Malformed
          BY <1>3, <2>2, <5>1 DEF Readable, v
        <5>2. CASE ~Intact(slot[n].off, slot[n].size)
          BY <1>2, <1>3, <1>8, <5>2 DEF HeldAt
        <5> QED  BY <3>7, <5>1, <5>2
      <4> QED  BY <1>2, <1>4, <1>8, <3>5, <3>7, <4>2, <4>3
    <3> QED  BY <3>1, <3>6, <3>7
  <2> QED  BY <2>4, <2>5
<1> QED  BY <1>6, <1>7, <1>8

LEMMA ReadRawMaps ==
    ASSUME StoreInv, StoreInv', AvoidTypeCheck = FALSE, NEW s \in Sigs, ReadRawTag(s)
    PROVE  /\ answer'.op = "ReadRawTag" /\ answer'.sig = s
           /\ \/ answer' = [op |-> "ReadRawTag", sig |-> s, val |-> Content(s)]
              \/ Dictionary!End(Entries, s) = DataEntry(Null)
           /\ Entries' = Entries
<1>0. /\ CallsInv /\ TypeOK /\ TypeOK' /\ Backed /\ WellTyped /\ CallsReturn'
      /\ count \in 0..MaxTags /\ MaxTags \in Nat /\ \A i \in 1..count : i \in Position
  BY TableAssumption DEF StoreInv, CallsInv, Held, OwnershipInv, TypeOK, Position
<1>1. PICK n : n = SearchTag(s)
  OBVIOUS
<1>2. /\ n \in 0..count
      /\ n # 0 => /\ Dictionary!End(Entries, s) = DataEntry(Content(s))
                  /\ slot[n].linked = NoSig /\ Content(s) = HeldAt(n)
      /\ n = 0 => Content(s) = Null
  BY <1>1, Ends
<1>3. n # Loop
  BY <1>0, <1>2 DEF Loop
<1>4. \A v : Return("ReadRawTag", s, v) => answer' = [op |-> "ReadRawTag", sig |-> s, val |-> v] /\ file' = file
  BY DEF Return
<1>5. ASSUME NEW v, Return("ReadRawTag", s, v), UNCHANGED <<slot, count, heap>>,
             v = Content(s) \/ Dictionary!End(Entries, s) = DataEntry(Null)
      PROVE  /\ answer'.op = "ReadRawTag" /\ answer'.sig = s
             /\ \/ answer' = [op |-> "ReadRawTag", sig |-> s, val |-> Content(s)]
                \/ Dictionary!End(Entries, s) = DataEntry(Null)
             /\ Entries' = Entries
  <2>1. answer' = [op |-> "ReadRawTag", sig |-> s, val |-> v] /\ Entries' = Entries
    BY <1>0, <1>4, <1>5, SameEntries
  <2> QED  BY <1>5, <2>1
<1>6. CASE n = 0
  <2>1. Return("ReadRawTag", s, Null) /\ UNCHANGED <<slot, count, heap>>
    BY <1>1, <1>3, <1>6 DEF ReadRawTag
  <2> QED  BY <1>2, <1>5, <1>6, <2>1
<1>7. CASE n # 0 /\ slot[n].ptr # Null
  <2>1. ReadRawCached(s, n) /\ n \in Position
    BY <1>0, <1>1, <1>2, <1>3, <1>7 DEF ReadRawTag
  <2>2. ~slot[n].raw => slot[n].handler # Null /\ TypeAllowed(s, slot[n].handler)
    BY <1>0, <1>1, <1>7, ReadNeverFrees
  <2>3. ~slot[n].raw => Supported[s] # {}
    BY <2>2 DEF TypeAllowed
  <2>4. Return("ReadRawTag", s, heap[slot[n].ptr].val) /\ UNCHANGED <<slot, count, heap>>
    BY <2>1, <2>2, <2>3 DEF ReadRawCached
  <2>5. heap[slot[n].ptr].val = Content(s)
    BY <1>2, <1>7 DEF HeldAt
  <2> QED  BY <1>5, <2>4, <2>5
<1>8. CASE n # 0 /\ slot[n].ptr = Null
  <2>1. ReadRawFromFile(s, n) /\ n \in 1..count
    BY <1>0, <1>1, <1>2, <1>3, <1>8 DEF ReadRawTag
  <2>2. file # NoFile
    BY <1>0, <2>1 DEF ReadRawFromFile, Stop, CallsReturn
  <2>3. PICK v : /\ Return("ReadRawTag", s, v) /\ UNCHANGED <<slot, count, heap>>
                 /\ v = IF InFile(slot[n].off, slot[n].size) THEN BytesAt(slot[n].off, slot[n].size) ELSE Null
    BY <2>1, <2>2 DEF ReadRawFromFile
  <2>4. Content(s) # Null => v = Content(s)
    BY <1>2, <1>8, <2>1, <2>3, IntactHolds
  <2> QED  BY <1>2, <1>5, <1>8, <2>3, <2>4
<1> QED  BY <1>6, <1>7, <1>8

\* Saving a tag with data, or one linked straight to such a tag, is straightforward.
LEMMA DirectIsSettled ==
    ASSUME StoreInv, AvoidTypeCheck = FALSE, NEW s \in Sigs,
           \/ Entries[s].kind = "data"
           \/ Entries[s].kind = "link" /\ Entries[Entries[s].to].kind = "data",
           Content(s) # Null
    PROVE  Settled(s)
<1>0. /\ CallsInv /\ TypeOK /\ DirectoryOK /\ OwnershipInv /\ WellTyped /\ Sound
      /\ count \in 0..MaxTags /\ MaxTags \in Nat /\ \A i \in 1..count : i \in Position
  BY TableAssumption DEF StoreInv, CallsInv, Held, OwnershipInv, TypeOK, DirectoryOK, Position
<1>1. PICK n : n = SearchTag(s)
  OBVIOUS
<1>2. n \in 1..count /\ n \in Position /\ slot[n].name \in Sigs /\ slot[n].linked = NoSig /\ Content(s) = HeldAt(n)
  <2>1. n # 0 /\ (n # 0 => Content(s) = HeldAt(n))
    BY <1>1, Ends
  <2> QED  BY <1>0, <1>1, <2>1, LookupEnds
<1>3. Dumpable(n)
  BY <1>2, SigsAssumption DEF Dumpable
<1>4. ASSUME slot[n].ptr = Null PROVE Dumped(n) /\ Block(n).val = Content(s)
  <2>1. IsBlock(slot[n].off) /\ HeldAt(n) = file.block[slot[n].off].val /\ file # NoFile
    BY <1>2, <1>4, IntactHolds
  <2>2. FromFile(n)
    BY <1>3, <1>4, <2>1 DEF FromFile
  <2>3. Block(n).val = Content(s)
    BY <1>2, <1>4, <2>1 DEF Block
  <2> QED  BY <2>2, <2>3 DEF Dumped
<1>5. ASSUME slot[n].ptr # Null PROVE Dumped(n) /\ Block(n).val = Content(s)
  <2>1. ~slot[n].raw => Supported[slot[n].name] # {}
    BY <1>0, <1>2, <1>5, SigsAssumption DEF Sound, TypeAllowed
  <2>2. FromMemory(n)
    BY <1>3, <1>5, <2>1 DEF FromMemory
  <2>3. Content(s) = heap[slot[n].ptr].val
    BY <1>2, <1>5 DEF HeldAt
  <2>4. slot[n].raw => heap[slot[n].ptr].shape = "raw"
    BY <1>0, <1>2, <1>5 DEF WellTyped, TypedAt
  <2>5. Block(n).val = Content(s)
    BY <1>5, <2>3, <2>4 DEF Block
  <2> QED  BY <2>2, <2>5 DEF Dumped
<1>6. ASSUME NEW t \in LinkPath(s), Hop[t] # NoSig PROVE Hop[Hop[t]] = NoSig /\ SearchOneTag(Hop[t]) # 0
  <2>1. /\ \A T \in SUBSET Sigs : s \in T /\ LeadsNowhereElse(T) => LinkPath(s) \subseteq T
        /\ LinkPath(s) \subseteq Sigs
    BY <1>0, PathLeast
  <2>2. \A u \in Sigs : /\ Entries[u].kind = "link" <=> Hop[u] # NoSig
                        /\ Entries[u].kind = "link" => Entries[u].to = Hop[u] /\ Hop[u] \in Sigs
                        /\ Hop[u] = NoSig => Entries[u] = IF SearchOneTag(u) = 0 THEN AbsentEntry
                                                         ELSE DataEntry(HeldAt(SearchOneTag(u)))
    BY <1>0, EntryKinds
  <2>3. CASE Entries[s].kind = "data"
    <3>1. Hop[s] = NoSig
      BY <2>2, <2>3
    <3>2. LeadsNowhereElse({s})
      BY <3>1 DEF LeadsNowhereElse
    <3> QED  BY <1>6, <2>1, <3>1, <3>2
  <2>4. CASE Entries[s].kind = "link" /\ Entries[Entries[s].to].kind = "data"
    <3>1. PICK d \in Sigs : d = Hop[s] /\ Entries[d].kind = "data"
      BY <2>2, <2>4
    <3>2. Hop[d] = NoSig /\ SearchOneTag(d) # 0
      BY <2>2, <3>1 DEF AbsentEntry
    <3>3. LeadsNowhereElse({s, d})
      BY <3>1, <3>2 DEF LeadsNowhereElse
    <3>4. t = s
      BY <1>6, <2>1, <3>2, <3>3
    <3> QED  BY <3>1, <3>2, <3>4
  <2> QED  BY <2>3, <2>4
<1>7. ASSUME NEW t \in LinkPath(s), slot[SearchOneTag(t)].linked # NoSig
      PROVE  slot[SearchOneTag(slot[SearchOneTag(t)].linked)].linked = NoSig
  <2>1. t \in Sigs
    BY <1>0, PathLeast
  <2>2. PICK i : i = SearchOneTag(t)
    OBVIOUS
  <2>3. i # 0
    <3>1. SearchOneTag(t) = 0 => Hop[t] = NoSig
      BY <1>0, <2>1, HopLeads
    <3>2. Hop[t] = NoSig => SearchTag(s) = SearchOneTag(t)
      BY <1>0, SearchTagEnds
    <3> QED  BY <1>0, <1>1, <1>2, <2>2, <3>1, <3>2
  <2>4. Hop[t] = slot[i].linked /\ Hop[t] \in Sigs
    BY <1>0, <1>7, <2>1, <2>2, <2>3, HopLeads
  <2>5. PICK d \in Sigs : d = Hop[t]
    BY <2>4
  <2>6. Hop[d] = NoSig /\ SearchOneTag(d) # 0
    BY <1>6, <1>7, <2>2, <2>4, <2>5
  <2>7. slot[SearchOneTag(d)].linked = NoSig
    BY <1>0, <2>6, HopLeads
  <2> QED  BY <2>2, <2>4, <2>5, <2>7
<1>8. Dumped(n) /\ Block(n).val = Content(s)
  BY <1>4, <1>5
<1> QED  BY <1>1, <1>7, <1>8 DEF Settled

LEMMA EndsNext ==
    ASSUME StoreInv', NEW s \in Sigs
    PROVE  Dictionary!What(Entries', s) = Content(s)'
<1>1. (\E e \in Sigs :
             /\ Dictionary!Last(Entries, s) = e /\ Dictionary!What(Entries, s) = Content(s)
             /\ SearchTag(s) = SearchOneTag(e) /\ SearchTag(s) \in 0..count
             /\ SearchTag(s) # 0 => /\ Dictionary!End(Entries, s) = DataEntry(Content(s))
                                   /\ slot[SearchTag(s)].linked = NoSig /\ Content(s) = HeldAt(SearchTag(s))
             /\ SearchTag(s) = 0 => Content(s) = Null)'
  BY Ends, PTL
<1> QED  BY <1>1

LEMMA ReopenMaps ==
    ASSUME StoreInv, StoreInv', AvoidTypeCheck = FALSE, NEW W, RoomFor(W), SaveAndReopen, NEW s \in Sigs
    PROVE  /\ Entries[s] = AbsentEntry => Entries'[s] = AbsentEntry
           /\ (\/ Entries[s].kind = "data"
               \/ Entries[s].kind = "link" /\ Entries[Entries[s].to].kind = "data")
              /\ Dictionary!What(Entries, s) # Null
              => Dictionary!What(Entries', s) = Dictionary!What(Entries, s)
<1>0. /\ TypeOK /\ TypeOK' /\ DirectoryOK /\ OwnershipInv /\ OwnershipInv' /\ UniqueNames' /\ Sized
      /\ s # NoSig
  BY SigsAssumption, TableAssumption DEF StoreInv, CallsInv, OwnershipInv, TypeOK, DirectoryOK
<1>1. ASSUME Entries[s] = AbsentEntry PROVE Entries'[s] = AbsentEntry
  <2>1. SearchOneTag(s) = 0
    BY <1>0, <1>1, EntryIs DEF Entries, AbsentEntry, DataEntry, LinkEntry
  <2>2. \A i \in 1..count : slot[i].name # s
    BY <1>0, <2>1, SearchOneTagType
  <2>3. SearchOneTag(s)' = 0
    BY <1>0, <2>2, Reopened DEF Kept, Announced
  <2>4. Entry(s)' = AbsentEntry
    BY <1>0, <2>3, EntryAt
  <2> QED  BY <2>4 DEF Entries
<1>2. Dictionary!What(Entries, s) = Content(s)
  BY Ends
<1>3. Settled(s) => Content(s)' = Content(s)
  BY <1>0, SettledKept
<1>4. Dictionary!What(Entries', s) = Content(s)'
  BY EndsNext
<1> QED  BY <1>1, <1>2, <1>3, <1>4, DirectIsSettled

\* A profile used as documented, with no failing allocation, with its types checked
\* and room in the file, implements the dictionary.
THEOREM ImplementsStore ==
    ASSUME Careful = TRUE, Faults = FALSE, AvoidTypeCheck = FALSE, NEW W, RoomFor(W)
    PROVE  Spec => ImplementsDictionary
<1> DEFINE R == [s \in Sigs |-> Readable(s)]
<1>1. Empty => Dictionary!Init
  <2> SUFFICES ASSUME Empty PROVE Dictionary!Init
    OBVIOUS
  <2>1. \A s \in Sigs : SearchOneTag(s) = 0
    BY DEF Empty, SearchOneTag
  <2>2. \A s \in Sigs : Entry(s) = AbsentEntry
    BY <2>1 DEF Entry, AbsentEntry
  <2> QED  BY <2>2 DEF Dictionary!Init, Dictionary!Absent, AbsentEntry, Empty, NoAnswer
<1>2. StoreInv /\ StoreInv' /\ [ProfileNext]_vars => [Dictionary!Next]_<<Entries, answer>>
  <2> SUFFICES ASSUME StoreInv, StoreInv', [ProfileNext]_vars
               PROVE  Dictionary!Next \/ UNCHANGED <<Entries, answer>>
    OBVIOUS
  <2>0. TypeOK /\ TypeOK'
    BY DEF StoreInv, CallsInv, OwnershipInv
  <2>1. CASE UNCHANGED vars
    BY <2>0, <2>1, SameEntries DEF vars
  <2>a. \A op, s, v : Dictionary!Answer(op, s, v) <=> answer' = [op |-> op, sig |-> s, val |-> v]
    BY DEF Dictionary!Answer, Dictionary!Called
  <2>2. ASSUME NEW s \in Sigs, ReadTag(s) PROVE Dictionary!Read(s)
    <3>1. \/ /\ answer' = [op |-> "ReadTag", sig |-> s,
                            val |-> IF Content(s) \in Readable(s) THEN Content(s) ELSE Null]
             /\ Entries' = Entries
          \/ /\ Dictionary!End(Entries, s) = DataEntry(Null)
             /\ \E v \in Readable(s) :
                   /\ answer' = [op |-> "ReadTag", sig |-> s, val |-> v]
                   /\ Entries' = [Entries EXCEPT ![Dictionary!Last(Entries, s)] = DataEntry(v)]
      BY <2>2, ReadMaps
    <3>2. PICK c : c = Content(s)
      OBVIOUS
    <3>3. Dictionary!What(Entries, s) = c
      BY <3>2, Ends
    <3>4. R[s] = Readable(s)
      OBVIOUS
    <3>a. Dictionary!Read(s) <=>
            /\ Dictionary!Called("ReadTag", s)
            /\ \/ /\ Dictionary!Answer("ReadTag", s, IF Dictionary!What(Entries, s) \in R[s]
                                                   THEN Dictionary!What(Entries, s) ELSE Null)
                  /\ UNCHANGED Entries
               \/ /\ Dictionary!End(Entries, s) = DataEntry(Null)
                  /\ \E v \in R[s] :
                       /\ Dictionary!Answer("ReadTag", s, v)
                       /\ Entries' = [Entries EXCEPT ![Dictionary!Last(Entries, s)] = DataEntry(v)]
      BY DEF Dictionary!Read, Dictionary!Data, DataEntry, Entries, Readable
    <3>b. \A v : Dictionary!Answer("ReadTag", s, v) => Dictionary!Called("ReadTag", s)
      BY DEF Dictionary!Answer
    <3>5. Dictionary!Read(s) <=>
            \/ /\ answer' = [op |-> "ReadTag", sig |-> s,
                              val |-> IF Dictionary!What(Entries, s) \in R[s]
                                      THEN Dictionary!What(Entries, s) ELSE Null]
               /\ UNCHANGED Entries
            \/ /\ Dictionary!End(Entries, s) = DataEntry(Null)
               /\ \E v \in R[s] :
                    /\ answer' = [op |-> "ReadTag", sig |-> s, val |-> v]
                    /\ Entries' = [Entries EXCEPT ![Dictionary!Last(Entries, s)] = DataEntry(v)]
      <4> HIDE DEF R
      <4> QED  BY <2>a, <3>a, <3>b
    <3> HIDE DEF R
    <3> QED  BY <3>1, <3>2, <3>3, <3>4, <3>5
  <2>3. ASSUME NEW s \in Sigs, ReadRawTag(s) PROVE Dictionary!ReadRaw(s)
    <3>1. /\ answer'.op = "ReadRawTag" /\ answer'.sig = s
          /\ \/ answer' = [op |-> "ReadRawTag", sig |-> s, val |-> Content(s)]
             \/ Dictionary!End(Entries, s) = DataEntry(Null)
          /\ Entries' = Entries
      BY <2>3, ReadRawMaps
    <3>2. Dictionary!What(Entries, s) = Content(s)
      BY Ends
    <3>3. Dictionary!ReadRaw(s) <=>
            /\ \/ answer' = [op |-> "ReadRawTag", sig |-> s, val |-> Dictionary!What(Entries, s)]
               \/ /\ Dictionary!End(Entries, s) = DataEntry(Null)
                  /\ answer'.op = "ReadRawTag" /\ answer'.sig = s
            /\ UNCHANGED Entries
      BY <2>a DEF Dictionary!ReadRaw, Dictionary!Called, Dictionary!Data, DataEntry, Entries
    <3> QED  BY <3>1, <3>2, <3>3
  <2>4. ASSUME NEW s \in Sigs, DeleteTag(s) PROVE Dictionary!Remove(s)
    BY <2>a, <2>4, DeleteMaps DEF Dictionary!Remove, Dictionary!Absent, AbsentEntry, Entries
  <2>5. ASSUME NEW s \in Sigs, NEW v \in Payloads, WriteTag(s, v) \/ WriteRawTag(s, v)
        PROVE  Dictionary!Put(s, v)
    BY <2>a, <2>5, WritesMap DEF Dictionary!Put, Dictionary!Absent, Dictionary!Data,
                           AbsentEntry, DataEntry, Entries
  <2>6. ASSUME NEW s \in Sigs, NEW t \in Sigs, LinkTag(s, t) PROVE Dictionary!Link(s, t)
    BY <2>a, <2>0, <2>6, LinkMaps, PathIs DEF Dictionary!Link, Dictionary!Absent, Dictionary!LinkTo,
                           AbsentEntry, LinkEntry, Entries
  <2>7. ASSUME SaveFails PROVE Dictionary!Save
    <3>1. UNCHANGED <<slot, count, heap, file>> /\ answer' = [op |-> "Save", sig |-> NoSig, val |-> Null]
      BY <2>7 DEF SaveFails, Done, Return
    <3>2. Entries' = Entries
      BY <2>0, <3>1, SameEntries
    <3> QED  BY <2>a, <3>1, <3>2 DEF Dictionary!Save, Entries
  <2>8. ~SaveOutOfMemory
    BY DEF SaveOutOfMemory
  <2>9. ASSUME SaveAndReopen PROVE Dictionary!Reopen(Entries')
    <3>1. answer' = [op |-> "Reopen", sig |-> NoSig, val |-> Null]
      BY <2>9 DEF SaveAndReopen, NoAnswer
    <3> QED  BY <2>a, <2>9, <3>1, ReopenMaps DEF Dictionary!Reopen, Dictionary!Absent,
                 Dictionary!Direct, AbsentEntry, Entries
  <2> QED  BY <2>1, <2>2, <2>3, <2>4, <2>5, <2>6, <2>7, <2>8, <2>9
           DEF ProfileNext, Next, Dictionary!Next, Entries
<1>3. Spec => []StoreInv
  BY StoreInvariance
<1> QED  BY <1>1, <1>2, <1>3, PTL DEF Spec, ImplementsDictionary, Dictionary!Spec, Entries

(***************************************************************************)
(* Reads change no contents.                                               *)
(***************************************************************************)
\* Data given to a tag that has data is found by whatever led to that tag.
LEMMA SameEnds ==
    ASSUME NEW E, NEW F, NEW e \in Sigs, NEW v, NEW w, E = [u \in Sigs |-> E[u]],
           E[e] = DataEntry(w), F = [E EXCEPT ![e] = DataEntry(v)],
           NEW t \in Sigs
    PROVE  Dictionary!What(F, t) = IF Dictionary!Last(E, t) = e THEN v
                                   ELSE Dictionary!What(E, t)
<1>1. \A u \in Sigs : /\ F[u].kind = E[u].kind /\ F[u].to = E[u].to
                      /\ F[u] = IF u = e THEN DataEntry(v) ELSE E[u]
  BY DEF DataEntry
<1>2. \A T \in SUBSET Sigs : Dictionary!Closed(F, T) <=> Dictionary!Closed(E, T)
  BY <1>1 DEF Dictionary!Closed
<1>3. Dictionary!Path(F, t) = Dictionary!Path(E, t) /\ Dictionary!Path(E, t) \subseteq Sigs
  BY <1>2 DEF Dictionary!Path
<1>4. \A u : (u \in Dictionary!Path(F, t) /\ F[u].kind # "link")
             <=> (u \in Dictionary!Path(E, t) /\ E[u].kind # "link")
  BY <1>1, <1>3
<1>5. Dictionary!Last(F, t) = Dictionary!Last(E, t)
  BY <1>4 DEF Dictionary!Last
<1>6. CASE Dictionary!Last(E, t) = e
  BY <1>1, <1>5, <1>6 DEF Dictionary!What, Dictionary!End, DataEntry
<1>7. CASE Dictionary!Last(E, t) # e
  BY <1>5, <1>7 DEF Dictionary!What, Dictionary!End
<1> QED  BY <1>6, <1>7

\* Looking a tag up, as cooked or as raw data, leaves every tag's contents and
\* takes none away, whatever the types in the file, for a documented client.
THEOREM ReadingIsPure ==
    ASSUME Careful = TRUE, Faults = FALSE
    PROVE  Spec => ReadsArePure
<1>1. StoreInv /\ StoreInv' /\ [ProfileNext]_vars
        => [answer'.op \in Reads =>
              LET after == ContentOfAll'
              IN  \A t \in Sigs : /\ Content(t) # Null => after[t] = Content(t)
                                 /\ cmsIsTag(t)' = cmsIsTag(t)]_vars
  <2> SUFFICES ASSUME StoreInv, StoreInv', ProfileNext, answer'.op \in Reads, NEW t \in Sigs
               PROVE  /\ Content(t) # Null => ContentOfAll'[t] = Content(t)
                      /\ cmsIsTag(t)' = cmsIsTag(t)
    OBVIOUS
  <2>0. /\ CallsInv /\ CallsInv' /\ TypeOK /\ TypeOK'
    BY DEF StoreInv, CallsInv, OwnershipInv
  <2>1. PICK s \in Sigs : ReadTag(s) \/ ReadRawTag(s)
    BY WhichRead
  <2>2. PICK n : n = SearchTag(s)
    OBVIOUS
  <2>3. /\ count' = count /\ file' = file
        /\ UNCHANGED <<slot, heap>> \/ (n \in 1..count /\ FetchesAt(n))
    BY <2>0, <2>1, <2>2, DocumentedRead
  <2>4. PICK e \in Sigs : /\ n = SearchOneTag(e)
                          /\ n # 0 => /\ slot[n].linked = NoSig
                                      /\ Entries[e] = DataEntry(HeldAt(n))
    BY <2>2, Ends DEF Dictionary!End
  <2>5. \/ Entries' = Entries
        \/ \E v, w : /\ Entries[e] = DataEntry(w) /\ Entries' = [Entries EXCEPT ![e] = DataEntry(v)]
                     /\ w # Null => v = w
    <3>1. CASE UNCHANGED <<slot, heap>>
      BY <2>0, <2>3, <3>1, SameEntries
    <3>2. CASE n \in 1..count /\ FetchesAt(n)
      <4>1. n # 0
        BY <3>2, TableAssumption DEF StoreInv, CallsInv, OwnershipInv, TypeOK
      <4>2. Entries' = [Entries EXCEPT ![e] = DataEntry(HoldsNext(n))]
        BY <2>0, <2>3, <2>4, <3>2, <4>1, FetchEntries
      <4>3. slot[n].ptr = Null
        BY <3>2 DEF FetchesAt
      <4>4. HeldAt(n) # Null => HoldsNext(n) = HeldAt(n)
        <5> SUFFICES ASSUME HeldAt(n) # Null PROVE HoldsNext(n) = HeldAt(n)
          OBVIOUS
        <5>1. HeldAt(n) = file.block[slot[n].off].val
          BY <3>2, <4>3, IntactHolds
        <5>2. /\ slot'[n].off = slot[n].off /\ slot'[n].size = slot[n].size
              /\ \/ slot'[n].ptr = Null
                 \/ slot'[n].ptr # Null /\ heap'[slot'[n].ptr].val = file.block[slot[n].off].val
          BY <2>0, <3>2, FetchStores
        <5>3. CASE slot'[n].ptr = Null
          BY <2>3, <4>3, <5>2, <5>3 DEF HoldsNext, HeldAt, Intact, BytesAt, IsBlock
        <5>4. CASE slot'[n].ptr # Null
          BY <5>1, <5>2, <5>4 DEF HoldsNext, HeldAt
        <5> QED  BY <5>3, <5>4
      <4> QED  BY <2>4, <4>1, <4>2, <4>4
    <3> QED  BY <2>3, <3>1, <3>2
  <2>6. Dictionary!What(Entries, t) = Content(t) /\ Dictionary!What(Entries', t) = Content(t)'
    BY Ends, EndsNext
  <2>7. Content(t) # Null => Content(t)' = Content(t)
    <3>1. PICK E, F : E = Entries /\ F = Entries'
      OBVIOUS
    <3>2. E = [u \in Sigs |-> E[u]]
      BY <3>1 DEF Entries
    <3>3. ASSUME NEW v, NEW w, E[e] = DataEntry(w), F = [E EXCEPT ![e] = DataEntry(v)], w # Null => v = w
          PROVE  Dictionary!What(E, t) # Null => Dictionary!What(F, t) = Dictionary!What(E, t)
      <4>1. Dictionary!What(F, t) = IF Dictionary!Last(E, t) = e THEN v ELSE Dictionary!What(E, t)
        BY <3>2, <3>3, SameEnds
      <4>2. Dictionary!Last(E, t) = e => Dictionary!What(E, t) = w
        BY <3>3 DEF Dictionary!What, Dictionary!End, DataEntry
      <4> QED  BY <3>3, <4>1, <4>2
    <3>4. Dictionary!What(E, t) # Null => Dictionary!What(F, t) = Dictionary!What(E, t)
      BY <2>5, <3>1, <3>3
    <3> QED  BY <2>6, <3>1, <3>4
  <2>8. SearchOneTag(t)' = 0 <=> SearchOneTag(t) = 0
    <3>1. SearchOneTag(t) = 0 <=> Entries[t] = AbsentEntry
      BY <2>0, EntryIs DEF Entries, AbsentEntry, DataEntry, LinkEntry
    <3>2. Entry(t)' = Entries'[t]
      BY DEF Entries
    <3>3. SearchOneTag(t)' = 0 <=> Entries'[t] = AbsentEntry
      BY <2>0, <3>2, EntryIsNext DEF AbsentEntry, DataEntry, LinkEntry
    <3>4. Entries[t] = AbsentEntry <=> Entries'[t] = AbsentEntry
      <4>1. PICK E, F : E = Entries /\ F = Entries'
        OBVIOUS
      <4>2. E = [u \in Sigs |-> E[u]] /\ \A v : DataEntry(v) # AbsentEntry
        BY <4>1 DEF Entries, AbsentEntry, DataEntry
      <4>3. E[t] = AbsentEntry <=> F[t] = AbsentEntry
        <5>1. CASE F = E
          BY <5>1
        <5>2. ASSUME NEW v, NEW w, E[e] = DataEntry(w), F = [E EXCEPT ![e] = DataEntry(v)]
              PROVE  E[t] = AbsentEntry <=> F[t] = AbsentEntry
          BY <4>2, <5>2
        <5> QED  BY <2>5, <4>1, <5>1, <5>2
      <4> QED  BY <4>1, <4>3
    <3> QED  BY <3>1, <3>3, <3>4
  <2> QED  BY <2>7, <2>8 DEF ContentOfAll, cmsIsTag
<1> QED  BY <1>1, StoreInvariance, PTL DEF Spec, ReadsArePure
=============================================================================
