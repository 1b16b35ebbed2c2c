---------------------------- MODULE TagDirectory ----------------------------
(***************************************************************************)
(* The tag directory of one open profile (cmsio0.c): the parallel arrays   *)
(* TagNames, TagLinked, TagPtrs, TagTypeHandlers, TagSizes, TagOffsets and *)
(* TagSaveAsRaw of _cmsICCPROFILE, seen here as one record per position,   *)
(* together with the heap blocks the profile owns and the file it was      *)
(* opened from.  Every operation runs with UsrMutex held from its first    *)
(* to its last step, so each one is an action.                             *)
(*                                                                         *)
(* A payload stands for the contents of a tag.  It has a type, a width in  *)
(* 32-bit words when serialised, and may be malformed: raw bytes of a      *)
(* known type which the type's reader rejects.  Positions count from 1;    *)
(* 0 is "not found" and NoSig is the zero signature of a deleted tag.      *)
(***************************************************************************)
EXTENDS Integers, FiniteSets

CONSTANTS
    Sigs,           \* tag signatures
    NoSig,          \* the signature 0
    Payloads,       \* tag contents
    Malformed,      \* the payloads their type reader rejects
    Types,          \* tag type signatures that have a handler
    TypeOf,         \* the type base a payload carries
    Width,          \* words of a serialised payload, type base included
    Supported,      \* the SupportedTypes of a tag's descriptor, {} if it has none
    Null,           \* the null pointer, and the null answer
    Objects,        \* heap addresses
    MaxTags,        \* MAX_TABLE_TAG
    AvoidTypeCheck, \* _cmsAvoidTypeCheckOnTags of the profile's context
    Careful,        \* does the client keep to the documented uses (see below)?
    Faults          \* may allocations and duplications fail?

Garbage == "garbage"    \* bytes that no type can claim
Loop    == -1           \* the search never ends

\* IOhandler is NULL: a built-in profile.
NoFile == [block |-> <<>>, used |-> 0]
\* A heap address that is not allocated.
Unused == [val |-> Null, shape |-> "unused"]

TypeBaseWords == 2      \* _cmsReadTypeBase consumes 8 bytes

ASSUME SigsAssumption    == NoSig \notin Sigs
ASSUME PayloadAssumption == /\ Malformed \subseteq Payloads
                            /\ TypeOf \in [Payloads -> Types]
                            /\ Width \in [Payloads -> Nat \ {0}]
                            /\ Supported \in [Sigs -> SUBSET Types]
                            /\ Garbage \notin Payloads /\ Null \notin Payloads
                            /\ Null \notin Types
\* What a type's writer makes, its reader takes for long enough to have a type.
ASSUME WidthAssumption   == \A v \in Payloads \ Malformed : Width[v] >= TypeBaseWords
ASSUME HeapAssumption    == Null \notin Objects
ASSUME TableAssumption   == MaxTags \in Nat \ {0}
ASSUME FlagAssumption    == {AvoidTypeCheck, Careful, Faults} \subseteq BOOLEAN

VARIABLES
    slot,     \* the directory, one record per position
    count,    \* TagCount
    heap,     \* what the profile's allocator holds at each address
    file,     \* what IOhandler reads from
    fate,     \* "running", or how the call never came back
    answer    \* the last call, its tag, and what it was given or returned

vars == <<slot, count, heap, file, fate, answer>>

Position == 1..MaxTags

Slot == [name: Sigs \cup {NoSig}, linked: Sigs \cup {NoSig}, raw: BOOLEAN,
         ptr: Objects \cup {Null}, handler: Types \cup {Null},
         size: Nat, off: Nat]

EmptySlot == [name |-> NoSig, linked |-> NoSig, raw |-> FALSE, ptr |-> Null,
              handler |-> Null, size |-> 0, off |-> 0]

Shapes == {"raw", "cooked"}
Contents == [val: Payloads, shape: Shapes]

Reads  == {"ReadTag", "ReadRawTag"}
Writes == {"WriteTag", "WriteRawTag", "DeleteTag", "LinkTag"}

NoAnswer == [op |-> "none", sig |-> NoSig, val |-> Null]

(***************************************************************************)
(* Looking a tag up.                                                       *)
(***************************************************************************)

\* SearchOneTag: the first position with that name.
SearchOneTag(s) ==
    IF \E i \in 1..count : slot[i].name = s
    THEN CHOOSE i \in 1..count : slot[i].name = s /\ \A j \in 1..(i - 1) : slot[j].name # s
    ELSE 0

\* The signature a tag is linked to; NoSig if it is no link, or not there.
Hop == [t \in Sigs \cup {NoSig} |->
          IF t # NoSig /\ \E i \in 1..count : slot[i].name = t
          THEN slot[SearchOneTag(t)].linked ELSE NoSig]

\* The signatures visited by following links from s: the fewest that it is
\* one of, and that lead to no other.
LeadsNowhereElse(T) == \A t \in T : Hop[t] \in T \cup {NoSig}
Targets == {slot[i].linked : i \in 1..count} \ {NoSig}
LinkPath(s) ==
    {s} \cup {t \in Targets : \A T \in SUBSET Targets : LeadsNowhereElse({s} \cup T) => t \in T}

\* _cmsSearchTag with lFollowLinks: the path ends at an absent tag or at one
\* that is not a link; a path with no end goes round for ever.
SearchTag(s) ==
    LET path == LinkPath(s)
    IN  IF \E t \in path : Hop[t] = NoSig
        THEN SearchOneTag(CHOOSE t \in path : Hop[t] = NoSig)
        ELSE Loop

cmsIsTag(s) == SearchOneTag(s) # 0

cmsTagLinkedTo(s) == IF cmsIsTag(s) THEN slot[SearchOneTag(s)].linked ELSE NoSig

(***************************************************************************)
(* What the file holds.  A block keeps the payload that was written there  *)
(* and the size that was written, which is not the payload's own width     *)
(* when the bytes were cut or overrun.                                     *)
(***************************************************************************)
InFile(off, size) == size > 0 /\ off + size <= file.used

IsBlock(off) == off \in DOMAIN file.block /\ file.block[off].val # Garbage

\* The bytes from off on, as a payload if they are exactly one.
BytesAt(off, size) ==
    IF IsBlock(off) /\ file.block[off].size = size THEN file.block[off].val ELSE Garbage

Intact(off, size) ==
    LET v == BytesAt(off, size) IN v # Garbage /\ Width[v] = size

(***************************************************************************)
(* Freeing and allocating.                                                 *)
(***************************************************************************)
HeapWithout(p) == IF p = Null THEN heap ELSE [heap EXCEPT ![p] = Unused]

\* Mutant: the pointer is not reset.
freeOneTagDangling(n) == heap' = HeapWithout(slot[n].ptr) /\ UNCHANGED slot

\* freeOneTag: through the handler if there is one, as a plain block if not.
freeOneTag(n) ==
    /\ heap' = HeapWithout(slot[n].ptr)
    /\ slot' = [slot EXCEPT ![n].ptr = Null]

\* _cmsDeleteTagByPos leaves in position i, and on the heap.  Data that is
\* neither raw nor has a handler stays where it is.
Deletable(i) == slot[i].ptr # Null /\ (slot[i].raw \/ slot[i].handler # Null)
Deleted(i) ==
    IF Deletable(i) THEN [slot[i] EXCEPT !.ptr = Null, !.raw = FALSE] ELSE slot[i]
HeapAfterDelete(i) == IF Deletable(i) THEN HeapWithout(slot[i].ptr) ELSE heap

\* Mutant: a tag that is there already is added once more.
NewPosAppends(s) == IF count < MaxTags THEN count + 1 ELSE 0

\* _cmsNewTag: the position of s, the next free one, or 0 for "Too many tags".
NewPos(s) ==
    IF cmsIsTag(s) THEN SearchOneTag(s) ELSE IF count < MaxTags THEN count + 1 ELSE 0

\* Mutant: TagCount grows at every write.
PlaceCounts(i, entry) == slot' = [slot EXCEPT ![i] = entry] /\ count' = count + 1

\* The directory after _cmsNewTag gave i and the caller stored entry there.
Place(i, entry) ==
    /\ slot' = [slot EXCEPT ![i] = entry]
    /\ count' = IF i > count THEN i ELSE count

Free(h) == {o \in Objects : h[o] = Unused}

Running == fate = "running"
Return(op, s, v) == answer' = [op |-> op, sig |-> s, val |-> v] /\ UNCHANGED <<fate, file>>
Done(op, s) == Return(op, s, Null)
Stop(op, s, f) == /\ fate' = f /\ answer' = [op |-> op, sig |-> s, val |-> Null]
                  /\ UNCHANGED <<slot, count, heap, file>>

(***************************************************************************)
(* cmsReadTag.                                                             *)
(***************************************************************************)
TypeAllowed(s, t) == AvoidTypeCheck \/ t \in Supported[s]

\* The data is in memory: hand it out, or free it if the checks fail.
ReadCached(s, n) ==
    IF /\ slot[n].handler # Null
       /\ TypeAllowed(s, slot[n].handler)
       /\ ~slot[n].raw
    THEN Return("ReadTag", s, heap[slot[n].ptr].val) /\ UNCHANGED <<slot, count, heap>>
    ELSE freeOneTag(n) /\ Return("ReadTag", s, Null) /\ UNCHANGED count

\* There is a file, and at the tag's offset a type that is allowed for s.
\* Whatever follows an offset that is not a block's is no known type.
Fetchable(s, n) ==
    /\ slot[n].size >= TypeBaseWords
    /\ file # NoFile
    /\ IsBlock(slot[n].off)
    /\ TypeAllowed(s, TypeOf[file.block[slot[n].off].val])

ReadFromFile(s, n) ==
    LET v == file.block[slot[n].off].val
        handled == [slot[n] EXCEPT !.handler = TypeOf[v]]
    IN  \/ /\ ~Fetchable(s, n)
           /\ Return("ReadTag", s, Null) /\ UNCHANGED <<slot, count, heap>>
        \/ /\ Fetchable(s, n)
           /\ v \notin Malformed
           /\ \E o \in Free(heap) :
                /\ slot' = [slot EXCEPT ![n] = [handled EXCEPT !.ptr = o]]
                /\ heap' = [heap EXCEPT ![o] = [val |-> v, shape |-> "cooked"]]
           /\ Return("ReadTag", s, v) /\ UNCHANGED count
        \/ /\ Fetchable(s, n)          \* ReadPtr returned NULL
           /\ v \in Malformed \/ Faults \/ ~Intact(slot[n].off, slot[n].size)
           /\ slot' = [slot EXCEPT ![n] = handled]
           /\ Return("ReadTag", s, Null) /\ UNCHANGED <<count, heap>>

\* A careful client does not read as cooked what it wrote as raw.
ReadTag(s) ==
    LET n == SearchTag(s)
    IN  /\ Running
        /\ Careful => ~(n \in 1..count /\ slot[n].raw)
        /\ \/ n = Loop /\ Stop("ReadTag", s, "hung")
           \/ n = 0 /\ Return("ReadTag", s, Null) /\ UNCHANGED <<slot, count, heap>>
           \/ n \in 1..count /\ slot[n].ptr # Null /\ ReadCached(s, n)
           \/ n \in 1..count /\ slot[n].ptr = Null /\ ReadFromFile(s, n)

(***************************************************************************)
(* cmsWriteTag, with NULL data and with data.  A careful client writes a   *)
(* tag that has no descriptor as raw only.                                 *)
(***************************************************************************)
\* Mutants: the name of a deleted tag stays; the target of a link is deleted.
DeleteTagKeepsName(s) ==
    LET i == SearchOneTag(s)
    IN  /\ Running
        /\ IF i = 0 THEN UNCHANGED <<slot, heap>>
           ELSE slot' = [slot EXCEPT ![i] = Deleted(i)] /\ heap' = HeapAfterDelete(i)
        /\ Done("DeleteTag", s) /\ UNCHANGED count

DeleteTagFollowsLinks(s) ==
    LET i == SearchTag(s)
    IN  /\ Running
        /\ IF i \notin 1..count THEN UNCHANGED <<slot, heap>>
           ELSE /\ slot' = [slot EXCEPT ![i] = [Deleted(i) EXCEPT !.name = NoSig]]
                /\ heap' = HeapAfterDelete(i)
        /\ Done("DeleteTag", s) /\ UNCHANGED count

DeleteTag(s) ==
    LET i == SearchOneTag(s)
    IN  /\ Running
        /\ IF i = 0 THEN UNCHANGED <<slot, heap>>
           ELSE /\ slot' = [slot EXCEPT ![i] = [Deleted(i) EXCEPT !.name = NoSig]]
                /\ heap' = HeapAfterDelete(i)
        /\ Done("DeleteTag", s) /\ UNCHANGED count

\* Mutant: writing to a link leaves it a link.
WrittenKeepsLink(s, v, i, o) ==
    /\ Place(i, [Deleted(i) EXCEPT !.name = s, !.handler = TypeOf[v],
                                   !.size = 0, !.off = 0, !.ptr = o])
    /\ heap' = [HeapAfterDelete(i) EXCEPT ![o] = [val |-> v, shape |-> "cooked"]]

\* The data is of the kind the tag's descriptor asks for, and duplicated.
Written(s, v, i, o) ==
    /\ Place(i, [Deleted(i) EXCEPT !.linked = NoSig, !.name = s, !.handler = TypeOf[v],
                                   !.size = 0, !.off = 0, !.ptr = o])
    /\ heap' = [HeapAfterDelete(i) EXCEPT ![o] = [val |-> v, shape |-> "cooked"]]

\* The early returns: each leaves what was done before it.
WriteRefused(s, v, i) ==
    /\ heap' = HeapAfterDelete(i)
    /\ \/ /\ Deleted(i).raw                          \* "already saved as RAW"
          /\ Place(i, Deleted(i))
       \/ /\ ~Deleted(i).raw
          /\ Supported[s] = {} \/ Faults             \* no descriptor, type or handler
          /\ Place(i, [Deleted(i) EXCEPT !.linked = NoSig])
       \/ /\ ~Deleted(i).raw
          /\ Supported[s] # {} /\ Faults             \* DupPtr returned NULL
          /\ Place(i, [Deleted(i) EXCEPT !.linked = NoSig, !.name = s,
                        !.handler = TypeOf[v], !.size = 0, !.off = 0, !.ptr = Null])

WriteTag(s, v) ==
    LET i == NewPos(s)
    IN  /\ Running
        /\ v \notin Malformed
        /\ Supported[s] # {} => TypeOf[v] \in Supported[s]
        /\ Careful => Supported[s] # {}
        /\ \/ i = 0 /\ UNCHANGED <<slot, count, heap>>
           \/ /\ i # 0 /\ ~Deleted(i).raw /\ Supported[s] # {}
              /\ \E o \in Free(HeapAfterDelete(i)) : Written(s, v, i, o)
           \/ i # 0 /\ WriteRefused(s, v, i)
        /\ Return("WriteTag", s, v)

(***************************************************************************)
(* cmsWriteRawTag and cmsReadRawTag.                                       *)
(***************************************************************************)
WriteRawTag(s, v) ==
    LET i == NewPos(s)
        entry(name, p) ==
          [Deleted(i) EXCEPT !.raw = TRUE, !.name = name, !.linked = NoSig,
                             !.handler = Null, !.ptr = p, !.size = Width[v]]
    IN  /\ Running
        /\ \/ i = 0 /\ UNCHANGED <<slot, count, heap>>
           \/ /\ i # 0
              /\ \E o \in Free(HeapAfterDelete(i)) :
                   /\ Place(i, entry(s, o))
                   /\ heap' = [HeapAfterDelete(i) EXCEPT ![o] = [val |-> v, shape |-> "raw"]]
           \/ /\ i # 0 /\ Faults
              /\ Place(i, entry(NoSig, Null))
              /\ heap' = HeapAfterDelete(i)
        /\ Return("WriteRawTag", s, v)

\* Mutants: raw data takes the path of cooked data; data is freed once serialised.
ReadRawAsCooked(s, n) ==
    IF slot[n].handler # Null /\ ~slot[n].raw
    THEN Return("ReadRawTag", s, heap[slot[n].ptr].val) /\ UNCHANGED <<slot, count, heap>>
    ELSE freeOneTag(n) /\ Return("ReadRawTag", s, Null) /\ UNCHANGED count

ReadRawThenFrees(s, n) ==
    freeOneTag(n) /\ Return("ReadRawTag", s, heap[slot[n].ptr].val) /\ UNCHANGED count

\* In memory: raw data is copied; cooked data is first looked up again by
\* cmsReadTag, which may free it, and then serialised.
ReadRawCached(s, n) ==
    IF slot[n].raw
    THEN Return("ReadRawTag", s, heap[slot[n].ptr].val) /\ UNCHANGED <<slot, count, heap>>
    ELSE IF slot[n].handler # Null /\ TypeAllowed(s, slot[n].handler)
    THEN /\ Return("ReadRawTag", s, IF Supported[s] = {} THEN Null ELSE heap[slot[n].ptr].val)
         /\ UNCHANGED <<slot, count, heap>>
    ELSE freeOneTag(n) /\ Return("ReadRawTag", s, Null) /\ UNCHANGED count

\* Not in memory: the block is read from the IOhandler, whether or not there
\* is one.
ReadRawFromFile(s, n) ==
    IF file = NoFile THEN Stop("ReadRawTag", s, "crashed")
    ELSE /\ Return("ReadRawTag", s, IF InFile(slot[n].off, slot[n].size)
                                    THEN BytesAt(slot[n].off, slot[n].size) ELSE Null)
         /\ UNCHANGED <<slot, count, heap>>

ReadRawTag(s) ==
    LET n == SearchTag(s)
    IN  /\ Running
        /\ \/ n = Loop /\ Stop("ReadRawTag", s, "hung")
           \/ n = 0 /\ Return("ReadRawTag", s, Null) /\ UNCHANGED <<slot, count, heap>>
           \/ n \in 1..count /\ slot[n].ptr # Null /\ ReadRawCached(s, n)
           \/ n \in 1..count /\ slot[n].ptr = Null /\ ReadRawFromFile(s, n)

(***************************************************************************)
(* cmsLinkTag.  A careful client links a tag to one with the same          *)
(* descriptor, and not into a cycle.                                       *)
(***************************************************************************)
SameDescriptor(s, t) == Supported[s] = Supported[t] /\ Supported[s] # {}

LinkTag(s, dest) ==
    LET i == NewPos(s)
    IN  /\ Running
        /\ Careful => SameDescriptor(s, dest) /\ s \notin LinkPath(dest)
        /\ IF i = 0 THEN UNCHANGED <<slot, count, heap>>
           ELSE /\ Place(i, [Deleted(i) EXCEPT !.raw = FALSE, !.name = s, !.linked = dest,
                                               !.ptr = Null, !.size = 0, !.off = 0])
                /\ heap' = HeapAfterDelete(i)
        /\ Return("LinkTag", s, dest)

Next ==
    \E s \in Sigs :
      \/ ReadTag(s) \/ ReadRawTag(s) \/ DeleteTag(s)
      \/ \E v \in Payloads : WriteTag(s, v) \/ WriteRawTag(s, v)
      \/ \E t \in Sigs : LinkTag(s, t)

\* cmsCreateProfilePlaceholder: an empty directory and no IOhandler.
Empty ==
    /\ slot = [i \in Position |-> EmptySlot]
    /\ count = 0
    /\ heap = [o \in Objects |-> Unused]
    /\ file = NoFile
    /\ fate = "running"
    /\ answer = NoAnswer

=============================================================================
