----------------------------- MODULE ProfileFile -----------------------------
(***************************************************************************)
(* The life of a profile around its tag directory (cmsio0.c): it is saved  *)
(* by cmsSaveProfileToIOhandler in two passes, the first to compute the    *)
(* offsets that the directory written by the second announces; it is       *)
(* closed, and opened again from what was saved, which _cmsReadHeader      *)
(* turns back into a directory.  A file is its blocks by offset and its    *)
(* length, in words; its directory matters only while it is being opened.  *)
(***************************************************************************)
EXTENDS TagDirectory, FiniteSetsExt

CONSTANT MaxWord    \* the largest cmsUInt32Number

ASSUME WordAssumption == MaxWord \in Nat

HeaderWords == 1    \* stands for the header and the directory: never offset 0

(***************************************************************************)
(* SaveTags.                                                               *)
(***************************************************************************)
Dumpable(i) == slot[i].name # NoSig /\ slot[i].linked = NoSig

\* Data that SaveTags writes from memory, as raw bytes or through the type
\* handler; a tag whose descriptor is gone is skipped.
FromMemory(i) ==
    /\ Dumpable(i) /\ slot[i].ptr # Null
    /\ slot[i].raw \/ Supported[slot[i].name] # {}

\* Data that SaveTags copies blindly from the file the profile came from.
FromFile(i) == Dumpable(i) /\ slot[i].ptr = Null /\ file # NoFile

\* The copy of a block that has no bytes, or not as many, fails.
Uncopiable(i) == FromFile(i) /\ ~InFile(slot[i].off, slot[i].size)

Dumped(i) == FromMemory(i) \/ FromFile(i)

\* A structure in memory that is written as if it were a raw block is garbage.
Block(i) ==
    IF slot[i].ptr = Null
    THEN [val  |-> IF IsBlock(slot[i].off) THEN file.block[slot[i].off].val ELSE Garbage,
          size |-> slot[i].size]
    ELSE LET c == heap[slot[i].ptr]
         IN  IF slot[i].raw
             THEN [val |-> IF c.shape = "raw" THEN c.val ELSE Garbage, size |-> slot[i].size]
             ELSE [val |-> c.val, size |-> Width[c.val]]

\* Mutant: copied blocks are not counted.
UsedSpaceOfMemory ==
    LET used[i \in 0..count] ==
          IF i = 0 THEN HeaderWords
          ELSE used[i - 1] + (IF FromMemory(i) THEN Block(i).size ELSE 0)
    IN  used

\* UsedSpace after the first i positions.
UsedSpace ==
    LET used[i \in 0..count] ==
          IF i = 0 THEN HeaderWords
          ELSE used[i - 1] + (IF Dumped(i) THEN Block(i).size ELSE 0)
    IN  used

\* TagOffsets and TagSizes as SaveTags leaves them.
Extent(i) ==
    IF Dumpable(i)
    THEN [off |-> UsedSpace[i - 1], size |-> IF Dumped(i) THEN Block(i).size ELSE slot[i].size]
    ELSE [off |-> slot[i].off, size |-> slot[i].size]

\* Mutant: the links are not filled.
SetLinksNever == [i \in 1..count |-> Extent(i)]

\* SetLinks: one hop, in the order of the positions, so a link to a later
\* position copies what that one held before it was set itself.
SetLinks ==
    LET set[i \in 1..count] ==
          LET j == SearchOneTag(slot[i].linked)
          IN  IF slot[i].linked = NoSig \/ j = 0 THEN Extent(i)
              ELSE IF j < i THEN set[j] ELSE Extent(j)
    IN  set

DumpedAt(off) == {i \in 1..count : Dumped(i) /\ UsedSpace[i - 1] = off}

SavedFile ==
    [block |-> [off \in {UsedSpace[i - 1] : i \in {j \in 1..count : Dumped(j)}} |->
                  Block(CHOOSE i \in DumpedAt(off) : TRUE)],
     used  |-> UsedSpace[count]]

(***************************************************************************)
(* Opening a file.                                                         *)
(***************************************************************************)
\* The tags that _cmsWriteHeader announces; deleted ones are left out.
Announced == {i \in 1..count : slot[i].name # NoSig}

\* _cmsReadHeader leaves out the entries that are empty or end beyond the file.
Kept == {i \in Announced : /\ SetLinks[i].size \in 1..MaxWord
                           /\ SetLinks[i].off \in 1..MaxWord
                           /\ SetLinks[i].off + SetLinks[i].size <= UsedSpace[count]}

Rank(i) == Cardinality({j \in Kept : j <= i})

\* Mutant: a twin anywhere in the directory is taken for the target.
LinkFoundAnywhere(i) ==
    LET twins == {j \in Kept : /\ j # i /\ SetLinks[j] = SetLinks[i]
                               /\ SameDescriptor(slot[j].name, slot[i].name)}
    IN  IF twins = {} THEN NoSig ELSE slot[Max(twins)].name

\* An entry with the extent of an earlier one is taken for a link to it, to
\* the last such one, if both tags have the same descriptor.
LinkFound(i) ==
    LET twins == {j \in Kept : /\ j < i /\ SetLinks[j] = SetLinks[i]
                               /\ SameDescriptor(slot[j].name, slot[i].name)}
    IN  IF twins = {} THEN NoSig ELSE slot[Max(twins)].name

ReadDirectory ==
    [k \in Position |->
       IF \E i \in Kept : Rank(i) = k
       THEN LET i == CHOOSE j \in Kept : Rank(j) = k
            IN  [EmptySlot EXCEPT !.name = slot[i].name, !.linked = LinkFound(i),
                                  !.off = SetLinks[i].off, !.size = SetLinks[i].size]
       ELSE EmptySlot]

\* "Duplicate tag found".
Duplicated == \E i, j \in Kept : i # j /\ slot[i].name = slot[j].name

(***************************************************************************)
(* Actions.                                                                *)
(***************************************************************************)

\* cmsSaveProfileToIOhandler gives up: a tag cannot be copied, or the
\* IOhandler fails.  Both passes run on the profile itself, which is put back
\* from the copy kept of it, here as after a save that succeeds.
SaveFails ==
    /\ Running
    /\ Faults \/ \E i \in 1..count : Uncopiable(i)
    /\ Done("Save", NoSig) /\ UNCHANGED <<slot, count, heap>>

\* cmsOpenIOhandlerFromNULL returns NULL: IOhandler is not put back.
SaveOutOfMemory ==
    /\ Running /\ Faults
    /\ file' = NoFile
    /\ answer' = [NoAnswer EXCEPT !.op = "Save"]
    /\ UNCHANGED <<slot, count, heap, fate>>

\* cmsCloseProfile frees every position's data.
HeapAfterClose ==
    [o \in Objects |-> IF \E i \in 1..count : slot[i].ptr = o THEN Unused ELSE heap[o]]

\* cmsSaveProfileToMem, cmsCloseProfile, and cmsOpenProfileFromMem of what
\* was saved.
SaveAndReopen ==
    /\ Running
    /\ \A i \in 1..count : ~Uncopiable(i)
    /\ ~Duplicated
    /\ heap' = HeapAfterClose
    /\ slot' = ReadDirectory
    /\ count' = Cardinality(Kept)
    /\ file' = SavedFile
    /\ answer' = [NoAnswer EXCEPT !.op = "Reopen"]
    /\ UNCHANGED fate

ProfileNext == Next \/ SaveFails \/ SaveOutOfMemory \/ SaveAndReopen

Spec == Empty /\ [][ProfileNext]_vars

(***************************************************************************)
(* Properties.                                                             *)
(***************************************************************************)
\* Every variable has its type.
TypeOK ==
    /\ slot \in [Position -> Slot]
    /\ count \in 0..MaxTags
    /\ \A off \in DOMAIN file.block : file.block[off].val \in Payloads \cup {Garbage}
    /\ heap \in [Objects -> Contents \cup {Unused}]
    /\ fate \in {"running", "hung", "crashed"}
    /\ answer \in [op: Reads \cup Writes \cup {"none", "Save", "Reopen"}, sig: Sigs \cup {NoSig},
                   val: Payloads \cup Sigs \cup {Null, Garbage}]

\* No position dangles, no two share a block, and no block is lost: across
\* overwriting, deleting, linking, failing writes and reads, and reopening,
\* what is allocated is owned by exactly one position of the directory.
Ownership ==
    /\ \A i \in 1..count : slot[i].ptr # Null => heap[slot[i].ptr] # Unused
    /\ \A i, j \in 1..count : i # j /\ slot[i].ptr = slot[j].ptr => slot[i].ptr = Null
    /\ \A o \in Objects : heap[o] # Unused => \E i \in 1..count : slot[i].ptr = o

\* What makes Ownership inductive: a position not yet in use holds nothing,
\* and data that is not raw has the handler that _cmsDeleteTagByPos frees it by.
Fresh    == \A i \in Position : i > count => slot[i].ptr = Null
Freeable == \A i \in Position : slot[i].ptr # Null /\ ~slot[i].raw => slot[i].handler # Null

OwnershipInv == TypeOK /\ Ownership /\ Fresh /\ Freeable

\* A signature names at most one position, so that a lookup, an overwrite and
\* a deletion all mean the same tag, and what is saved can be opened.
NamesUnique ==
    \A i, j \in 1..count : i # j /\ slot[i].name = slot[j].name => slot[i].name = NoSig

\* The payload a tag stands for: the one in memory, or the one in the file.
Content(s) ==
    LET n == SearchTag(s)
    IN  IF n \notin 1..count THEN Null
        ELSE IF slot[n].ptr # Null THEN heap[slot[n].ptr].val
        ELSE IF Intact(slot[n].off, slot[n].size) THEN BytesAt(slot[n].off, slot[n].size)
        ELSE Null

ContentOfAll == [s \in Sigs |-> Content(s)]

\* Looking a tag up, as cooked or as raw data, changes no tag's contents and
\* makes none disappear, for a client that keeps to the documented uses; it may
\* bring to light contents that no block of the file was known to hold.
ReadsArePure ==
    [][answer'.op \in Reads =>
         LET after == ContentOfAll'
         IN  \A t \in Sigs : /\ Content(t) # Null => after[t] = Content(t)
                            /\ cmsIsTag(t)' = cmsIsTag(t)]_vars

\* A read frees a block only where the tag it ends at is raw, or holds a type
\* that the tag asked for does not take.
ReadsFreeOnlyMisread ==
    [][answer'.op \in Reads =>
         \A o \in Objects : heap[o] # Unused /\ heap'[o] # heap[o] =>
           LET n == SearchTag(answer'.sig)
           IN  slot[n].ptr = o /\ (slot[n].raw \/ ~TypeAllowed(answer'.sig, slot[n].handler))]_vars

\* Writing, deleting or linking a tag, whether or not it succeeds, leaves
\* alone every tag that is not reached through it.
WritesAreLocal ==
    [][answer'.op \in Writes =>
         LET after == ContentOfAll'
         IN  \A t \in Sigs : answer'.sig \notin LinkPath(t) => after[t] = Content(t)]_vars

\* The tags whose saving is straightforward: they have contents that SaveTags
\* writes as they are, and each link on their path leads to a tag which is
\* not a link or which SetLinks fills before.
Settled(s) ==
    /\ Content(s) # Null
    /\ Dumped(SearchTag(s)) /\ Block(SearchTag(s)).val = Content(s)
    /\ \A t \in LinkPath(s) :
         LET i == SearchOneTag(t)  j == SearchOneTag(slot[i].linked)
         IN  slot[i].linked # NoSig => slot[j].linked = NoSig \/ j < i

\* What is saved is what was there: the offsets of the first pass are those
\* of the second, links share their target's block, untouched tags are copied
\* from the old file, and tags opened as links lead to the same payload.
SavePreserves ==
    [][answer'.op = "Reopen" =>
         LET after == ContentOfAll'
         IN  \A s \in Sigs : Settled(s) => after[s] = Content(s)]_vars

\* No sequence of documented calls makes a lookup endless or reads through
\* the missing IOhandler of a built-in profile.
CallsReturn == fate = "running"

(***************************************************************************)
(* The directory as a dictionary.                                          *)
(***************************************************************************)
Entry(s) ==
    LET i == SearchOneTag(s)
    IN  IF i = 0 THEN [kind |-> "absent", val |-> Null, to |-> NoSig]
        ELSE IF slot[i].linked # NoSig
        THEN [kind |-> "link", val |-> Null, to |-> slot[i].linked]
        ELSE [kind |-> "data", val |-> Content(s), to |-> NoSig]

Dictionary ==
    INSTANCE TagStore WITH
      entry    <- [s \in Sigs |-> Entry(s)],
      Readable <- [s \in Sigs |-> {v \in Payloads \ Malformed :
                                     TypeAllowed(s, TypeOf[v])}]

\* A profile used as documented implements the dictionary: each call answers
\* from it, changes its own entry only, and a round trip through a file keeps it.
ImplementsDictionary == Dictionary!Spec

=============================================================================
