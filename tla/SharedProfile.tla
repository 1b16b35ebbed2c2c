---------------------------- MODULE SharedProfile ----------------------------
(***************************************************************************)
(* Threads that use one profile (cmsio0.c).  Each call works with UsrMutex *)
(* held, but a read looks at TagPtrs again after it has let go, a raw read *)
(* lets go around the cmsReadTag that it calls and goes on with the        *)
(* position it found before, and a raw write looks at what it stored, and  *)
(* clears the name, afterwards.  All read the file through one IOhandler,  *)
(* which has one position.                                                 *)
(*                                                                         *)
(* A tag is written by one thread only, and other threads read the tags    *)
(* that nobody writes: this much is left to the program.                   *)
(***************************************************************************)
EXTENDS TagDirectory

CONSTANTS
    Threads,
    NoThread,
    Owner,      \* the thread that writes a tag, NoThread if it is read only
    CallsEach   \* the calls of a thread

ASSUME ThreadAssumption == NoThread \notin Threads /\ Owner \in [Sigs -> Threads \cup {NoThread}]
ASSUME CallAssumption == CallsEach \in Nat

VARIABLES
    UsrMutex,   \* the thread that holds it, or NoThread
    seek,       \* the position of the IOhandler
    call,       \* what each thread is doing, and what it got last
    left,       \* the calls that each may still make
    meaning     \* what each tag was last given, Null if nothing

directory == <<slot, count, heap>>
fixed == <<file, fate, answer>>
sharedVars == <<slot, count, heap, file, fate, answer, UsrMutex, seek, call, left, meaning>>

\* pos is where a raw read or a write found its tag, n where cmsReadTag did.
Idle == [pc |-> "idle", op |-> "none", sig |-> NoSig, val |-> Null, pos |-> 0, n |-> 0, obj |-> Null]

(***************************************************************************)
(* Locking, and the ways from one step to the next.                        *)
(***************************************************************************)
At(t, pc) == call[t].pc = pc
\* Mutant: nobody waits.
LocksNot(t) == TRUE
Locks(t) == UsrMutex = NoThread
Holds(t) == UsrMutex' = t
LetsGo == UsrMutex' = NoThread
\* Mutant: the mutex is kept over the call of cmsReadTag.
KeepsIt(t) == Holds(t)
LetsGoToRead(t) == LetsGo

Goes(t, pc) == call' = [call EXCEPT ![t].pc = pc]
\* The call is over: v is its answer, and o what it points to.
Over(c, v, o) == [pc |-> "idle", op |-> c.op, sig |-> c.sig, val |-> v, pos |-> 0, n |-> 0, obj |-> o]
Replies(t, v, o) == call' = [call EXCEPT ![t] = Over(call[t], v, o)]
GivesUp(t) == Replies(t, Null, Null)
Ends(t) == call' = [call EXCEPT ![t] = Idle]
\* cmsReadTag ends, for a client or for the raw read that called it.
Hands(t, o) ==
    IF call[t].op = "ReadTag" THEN Replies(t, IF o = Null THEN Null ELSE heap[o].val, o)
    ELSE call' = [call EXCEPT ![t].pc = "again", ![t].obj = o]

(***************************************************************************)
(* cmsReadTag.                                                             *)
(***************************************************************************)
Cached(s, n) == slot[n].handler # Null /\ TypeAllowed(s, slot[n].handler) /\ ~slot[n].raw

SearchToRead(t) == \E n \in {SearchTag(call[t].sig)} :
    LET s == call[t].sig
        held == n # 0 /\ slot[n].ptr # Null
        there == n # 0 /\ ~held /\ Fetchable(s, n)
    IN  /\ At(t, "read") /\ Locks(t)
        /\ \/ /\ ~held /\ ~there
              /\ LetsGo /\ Hands(t, Null) /\ UNCHANGED <<slot, heap, seek>>
           \/ /\ held /\ Cached(s, n)
              /\ LetsGo /\ call' = [call EXCEPT ![t].pc = "return", ![t].n = n] /\ UNCHANGED <<slot, heap, seek>>
           \/ /\ held /\ ~Cached(s, n)
              /\ LetsGo /\ freeOneTag(n) /\ Hands(t, Null) /\ UNCHANGED seek
           \/ /\ there
              /\ Holds(t) /\ seek' = slot[n].off /\ call' = [call EXCEPT ![t].pc = "fetch", ![t].n = n]
              /\ UNCHANGED <<slot, heap>>
        /\ UNCHANGED <<fixed, count, left, meaning>>

\* What is read is what the IOhandler has arrived at.
Fetch(t) ==
    LET n == call[t].n
        v == file.block[seek].val
        handled == [slot[n] EXCEPT !.handler = TypeOf[v]]
    IN  /\ At(t, "fetch")
        /\ LetsGo
        /\ \/ /\ v \notin Malformed
              /\ \E o \in Free(heap) :
                   /\ slot' = [slot EXCEPT ![n] = [handled EXCEPT !.ptr = o]]
                   /\ heap' = [heap EXCEPT ![o] = [val |-> v, shape |-> "cooked"]]
              /\ Goes(t, "return")
           \/ /\ v \in Malformed \/ Faults
              /\ slot' = [slot EXCEPT ![n] = handled]
              /\ UNCHANGED heap
              /\ Hands(t, Null)
        /\ UNCHANGED <<fixed, count, seek, left, meaning>>

\* return Icc->TagPtrs[n], with the mutex unlocked.
ReturnTag(t) ==
    /\ At(t, "return")
    /\ Hands(t, slot[call[t].n].ptr)
    /\ UNCHANGED <<fixed, directory, UsrMutex, seek, left, meaning>>

(***************************************************************************)
(* cmsReadRawTag.                                                          *)
(***************************************************************************)
SearchToReadRaw(t) == \E n \in {SearchTag(call[t].sig)} :
    LET held == n # 0 /\ slot[n].ptr # Null
    IN  /\ At(t, "readraw") /\ Locks(t)
        /\ \/ n = 0 /\ LetsGo /\ GivesUp(t) /\ UNCHANGED seek
           \/ /\ held /\ slot[n].raw
              /\ LetsGo /\ Replies(t, heap[slot[n].ptr].val, Null) /\ UNCHANGED seek
           \/ /\ held /\ ~slot[n].raw
              /\ LetsGoToRead(t) /\ call' = [call EXCEPT ![t].pc = "read", ![t].pos = n] /\ UNCHANGED seek
           \/ /\ n # 0 /\ ~held
              /\ Holds(t) /\ seek' = slot[n].off /\ call' = [call EXCEPT ![t].pc = "copy", ![t].pos = n]
        /\ UNCHANGED <<fixed, directory, left, meaning>>

\* The bytes are read directly, without keeping a copy.
Copy(t) ==
    LET size == slot[call[t].pos].size
    IN  /\ At(t, "copy")
        /\ LetsGo
        /\ Replies(t, IF InFile(seek, size) THEN BytesAt(seek, size) ELSE Null, Null)
        /\ UNCHANGED <<fixed, directory, seek, left, meaning>>

\* The object that cmsReadTag gave is serialised by the handler in the old position.
Serialise(t) ==
    LET c == call[t]
    IN  /\ At(t, "again") /\ Locks(t)
        /\ LetsGo
        /\ IF c.obj = Null \/ slot[c.pos].handler = Null \/ Supported[c.sig] = {} THEN GivesUp(t)
           ELSE Replies(t, IF heap[c.obj].val = Null \/ TypeOf[heap[c.obj].val] # slot[c.pos].handler THEN Garbage
                           ELSE heap[c.obj].val, Null)
        /\ UNCHANGED <<fixed, directory, seek, left, meaning>>

(***************************************************************************)
(* cmsWriteTag and cmsWriteRawTag.                                         *)
(***************************************************************************)
\* _cmsNewTag.
NewTag(t) == \E i \in {NewPos(call[t].sig)} :
        /\ At(t, "write") /\ Locks(t)
        /\ IF i = 0 THEN LetsGo /\ Ends(t) /\ UNCHANGED <<directory, meaning>>
           ELSE /\ Holds(t)
                /\ Place(i, Deleted(i)) /\ heap' = HeapAfterDelete(i)
                /\ call' = [call EXCEPT ![t].pc = "fill", ![t].pos = i]
                /\ meaning' = [meaning EXCEPT ![call[t].sig] = Null]
        /\ UNCHANGED <<fixed, seek, left>>

Fill(t) ==
    LET c == call[t]
        raw == c.op = "WriteRawTag"
        entry(p) == [slot[c.pos] EXCEPT !.name = c.sig, !.linked = NoSig, !.ptr = p, !.raw = raw,
                       !.handler = IF raw THEN Null ELSE TypeOf[c.val],
                       !.off = IF raw THEN @ ELSE 0, !.size = IF raw THEN Width[c.val] ELSE 0]
    IN  /\ At(t, "fill")
        /\ LetsGo
        /\ \/ /\ raw \/ ~slot[c.pos].raw      \* "already saved as RAW": not after _cmsNewTag
              /\ \E o \in Free(heap) :
                   /\ slot' = [slot EXCEPT ![c.pos] = entry(o)]
                   /\ heap' = [heap EXCEPT ![o] = [val |-> c.val, shape |-> IF raw THEN "raw" ELSE "cooked"]]
              /\ meaning' = [meaning EXCEPT ![c.sig] = c.val]
           \/ /\ Faults
              /\ slot' = [slot EXCEPT ![c.pos] = entry(Null)]
              /\ UNCHANGED <<heap, meaning>>
        /\ IF raw THEN Goes(t, "check") ELSE Ends(t)
        /\ UNCHANGED <<fixed, count, seek, left>>

\* With the mutex unlocked.
Check(t) ==
    LET i == call[t].pos
    IN  /\ At(t, "check")
        /\ slot' = IF slot[i].ptr = Null THEN [slot EXCEPT ![i].name = NoSig] ELSE slot
        /\ Ends(t)
        /\ UNCHANGED <<fixed, count, heap, UsrMutex, seek, left, meaning>>

Delete(t) ==
    LET s == call[t].sig
        i == SearchOneTag(s)
    IN  /\ At(t, "delete") /\ Locks(t)
        /\ LetsGo
        /\ IF i = 0 THEN UNCHANGED <<slot, heap>>
           ELSE /\ slot' = [slot EXCEPT ![i] = [Deleted(i) EXCEPT !.name = NoSig]]
                /\ heap' = HeapAfterDelete(i)
        /\ meaning' = [meaning EXCEPT ![s] = Null]
        /\ Ends(t)
        /\ UNCHANGED <<fixed, count, seek, left>>

(***************************************************************************)
(* The program.                                                            *)
(***************************************************************************)
Writable(t, s, v) == v \notin Malformed /\ Supported[s] # {} /\ TypeOf[v] \in Supported[s]
WrittenRaw(s) == SearchTag(s) # 0 /\ slot[SearchTag(s)].raw

New(pc, op, s, v) == [pc |-> pc, op |-> op, sig |-> s, val |-> v, pos |-> 0, n |-> 0, obj |-> Null]
Begins(t, pc, op, s, v) ==
    /\ call' = [call EXCEPT ![t] = New(pc, op, s, v)]
    /\ left' = [left EXCEPT ![t] = @ - 1]
    /\ UNCHANGED <<fixed, directory, UsrMutex, seek, meaning>>
Begin(t) ==
    /\ At(t, "idle") /\ left[t] > 0
    /\ \E s \in Sigs :
         \/ /\ Owner[s] \in {t, NoThread}
            /\ \/ Begins(t, "read", "ReadTag", s, Null) /\ ~WrittenRaw(s)
               \/ Begins(t, "readraw", "ReadRawTag", s, Null)
         \/ /\ Owner[s] = t
            /\ \/ Begins(t, "delete", "DeleteTag", s, Null)
               \/ \E v \in Payloads : \/ Writable(t, s, v) /\ Begins(t, "write", "WriteTag", s, v)
                                      \/ Begins(t, "write", "WriteRawTag", s, v)

Step(t) ==
    \/ SearchToRead(t) \/ Fetch(t) \/ ReturnTag(t)
    \/ SearchToReadRaw(t) \/ Copy(t) \/ Serialise(t)
    \/ NewTag(t) \/ Fill(t) \/ Check(t) \/ Delete(t)

\* Every call that was made is over.
Rest == (\A t \in Threads : At(t, "idle")) /\ UNCHANGED sharedVars

SharedNext == Rest \/ \E t \in Threads : Begin(t) \/ Step(t)

\* No call was made yet.
Begun ==
    /\ Running /\ answer = NoAnswer
    /\ heap = [o \in Objects |-> Unused]
    /\ UsrMutex = NoThread
    /\ seek = 0
    /\ call = [t \in Threads |-> Idle]
    /\ left = [t \in Threads |-> CallsEach]

\* At position n there is an entry without data, for which the file holds v.
OnDisk(n, v) ==
    /\ slot[n].ptr = Null
    /\ slot[n].off \in DOMAIN file.block
    /\ file.block[slot[n].off] = [val |-> v, size |-> slot[n].size]
    /\ slot[n].size >= TypeBaseWords /\ InFile(slot[n].off, slot[n].size)

\* v is what a handler that the descriptor of s allows can read.
Readable(s, v) == v \in Payloads \ Malformed /\ TypeOf[v] \in Supported[s]

\* The profile was opened from a well-formed file of the tags that nobody writes.
Opened ==
    /\ Begun
    /\ slot \in [Position -> Slot] /\ count \in 0..MaxTags
    /\ \A i, j \in Position : slot[i].name = slot[j].name => i = j \/ slot[i].name = NoSig
    /\ \A i \in Position :
         /\ slot[i].ptr = Null /\ ~slot[i].raw
         /\ slot[i].name # NoSig => i <= count /\ Owner[slot[i].name] = NoThread
         /\ slot[i].linked # NoSig => slot[i].name # NoSig /\ Owner[slot[i].linked] = NoThread
    /\ meaning \in [Sigs -> Payloads \cup {Null}]
    /\ \A s \in Sigs : \E n \in {SearchTag(s)} :
         \/ n = 0 /\ meaning[s] = Null
         \/ n \in 1..count /\ OnDisk(n, meaning[s]) /\ Readable(s, meaning[s])

(***************************************************************************)
(* Properties.                                                             *)
(***************************************************************************)
\* What a call got is what its tag was last given, in raw form too, or nothing
\* where memory ran out; and what cmsReadTag pointed to is there, and holds it,
\* until the program writes the tag again, whatever the other threads do.
Answered(t) == At(t, "idle") /\ call[t].op \in {"ReadTag", "ReadRawTag"}
AnswersHold ==
    \A t \in Threads : Answered(t) =>
        LET c == call[t]
        IN  /\ c.val = meaning[c.sig] \/ (Faults /\ c.val = Null)
            /\ c.obj # Null => heap[c.obj] = [val |-> meaning[c.sig], shape |-> "cooked"]

\* One thread at a time works between a lock and an unlock, and the one that holds
\* the mutex is at work there and asks for no other: least of all a raw read, which
\* calls cmsReadTag, and that locks.  With the check for deadlocks, all calls end.
OneAtWork == \A t \in Threads : call[t].pc \in {"fetch", "copy", "fill"} <=> UsrMutex = t
=============================================================================
