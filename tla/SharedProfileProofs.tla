------------------------- MODULE SharedProfileProofs -------------------------
(***************************************************************************)
(* OneAtWork of SharedProfile for any number of threads, of calls and of   *)
(* tags, from any file.  What a call finds does not matter to it: only     *)
(* where each thread is, and who holds UsrMutex.                           *)
(***************************************************************************)
EXTENDS SharedProfile, TagDirectoryProofs

Working == {"fetch", "copy", "fill"}

\* Every thread is somewhere, and nobody else holds the mutex.
Inv ==
    /\ DOMAIN call = Threads
    /\ \A t \in Threads : "pc" \in DOMAIN call[t]
    /\ UsrMutex \in Threads \cup {NoThread}
    /\ OneAtWork

\* The three ways to go on: to lock, to unlock or not to need it, to do neither.
Takes(t, r)    == UsrMutex \in {NoThread, t} /\ UsrMutex' = t /\ r.pc \in Working
Releases(t, r) == UsrMutex \in {NoThread, t} /\ UsrMutex' = NoThread /\ r.pc \notin Working
Aside(t, r)    == call[t].pc \notin Working /\ UsrMutex' = UsrMutex /\ r.pc \notin Working

\* A thread that goes on in one of these ways keeps the invariant.
LEMMA GoesOn ==
    ASSUME Inv, NEW t \in Threads, NEW r, "pc" \in DOMAIN r,
           call' = [call EXCEPT ![t] = r],
           Takes(t, r) \/ Releases(t, r) \/ Aside(t, r)
    PROVE  Inv'
<1>1. DOMAIN call' = Threads /\ \A u \in Threads : call'[u] = IF u = t THEN r ELSE call[u]
  BY DEF Inv
<1>2. \A u \in Threads : "pc" \in DOMAIN call'[u]
  BY <1>1 DEF Inv
<1>3. UsrMutex' \in Threads \cup {NoThread}
  BY DEF Inv, Takes, Releases, Aside
<1>4. ASSUME NEW u \in Threads PROVE call'[u].pc \in Working <=> UsrMutex' = u
  BY <1>1, ThreadAssumption DEF Inv, OneAtWork, Working, Takes, Releases, Aside
<1> QED  BY <1>1, <1>2, <1>3, <1>4 DEF Inv, OneAtWork, Working

\* What Goes, Replies and the others make of a call.
LEMMA NextPlace ==
    ASSUME Inv, NEW t \in Threads
    PROVE  /\ \A pc : "pc" \in DOMAIN [call[t] EXCEPT !.pc = pc] /\ [call[t] EXCEPT !.pc = pc].pc = pc
           /\ \A pc, n : LET r == [call[t] EXCEPT !.pc = pc, !.n = n]
                         IN  "pc" \in DOMAIN r /\ r.pc = pc
           /\ \A pc, p : LET r == [call[t] EXCEPT !.pc = pc, !.pos = p]
                         IN  "pc" \in DOMAIN r /\ r.pc = pc
           /\ \A pc, o : LET r == [call[t] EXCEPT !.pc = pc, !.obj = o]
                         IN  "pc" \in DOMAIN r /\ r.pc = pc
  BY DEF Inv

\* A call that is over, or that goes on at again, is out of the work.
LEMMA RepliesOn ==
    ASSUME NEW t \in Threads, NEW v, NEW o, Replies(t, v, o)
    PROVE  \E r : "pc" \in DOMAIN r /\ call' = [call EXCEPT ![t] = r] /\ r.pc \notin Working
<1> DEFINE r == Over(call[t], v, o)
<1>1. call' = [call EXCEPT ![t] = r]
  BY DEF Replies
<1>2. "pc" \in DOMAIN r /\ r.pc = "idle"
  BY DEF Over
<1> HIDE DEF r
<1> QED  BY <1>1, <1>2 DEF Working

LEMMA EndsOn ==
    ASSUME NEW t \in Threads, Ends(t)
    PROVE  \E r : "pc" \in DOMAIN r /\ call' = [call EXCEPT ![t] = r] /\ r.pc \notin Working
<1>1. "pc" \in DOMAIN Idle /\ Idle.pc = "idle"
  BY DEF Idle
<1> QED  BY <1>1 DEF Ends, Working

LEMMA HandsOn ==
    ASSUME Inv, NEW t \in Threads, NEW o, Hands(t, o)
    PROVE  \E r : "pc" \in DOMAIN r /\ call' = [call EXCEPT ![t] = r] /\ r.pc \notin Working
<1>1. CASE call[t].op = "ReadTag"
  BY <1>1, RepliesOn DEF Hands
<1>2. CASE call[t].op # "ReadTag"
  <2> DEFINE r == [call[t] EXCEPT !.pc = "again", !.obj = o]
  <2>1. call' = [call EXCEPT ![t].pc = "again", ![t].obj = o]
    BY <1>2 DEF Hands
  <2>2. call' = [call EXCEPT ![t] = r]
    BY <2>1
  <2>3. "pc" \in DOMAIN r /\ r.pc = "again"
    BY NextPlace
  <2> HIDE DEF r
  <2> QED  BY <2>2, <2>3 DEF Working
<1> QED  BY <1>1, <1>2

LEMMA LeavesWork ==
    ASSUME Inv, NEW t \in Threads, NEW r, "pc" \in DOMAIN r, call' = [call EXCEPT ![t] = r],
           r.pc \notin Working, LetsGo, Locks(t) \/ call[t].pc \in Working
    PROVE  Inv'
<1>1. UsrMutex \in {NoThread, t}
  BY DEF Locks, Inv, OneAtWork, Working
<1> QED  BY <1>1, GoesOn DEF Releases, LetsGo

LEMMA EntersWork ==
    ASSUME Inv, NEW t \in Threads, NEW r, "pc" \in DOMAIN r, call' = [call EXCEPT ![t] = r],
           r.pc \in Working, Holds(t), Locks(t)
    PROVE  Inv'
  BY GoesOn DEF Takes, Holds, Locks

(***************************************************************************)
(* One lemma per operation.                                                *)
(***************************************************************************)
\* cmsReadTag locks, reads and returns.
LEMMA ReadStep ==
    ASSUME Inv, NEW t \in Threads, SearchToRead(t) \/ Fetch(t) \/ ReturnTag(t)
    PROVE  Inv'
<1>1. CASE SearchToRead(t)
  <2>1. PICK n \in {SearchTag(call[t].sig)} :
           \/ Locks(t) /\ LetsGo /\ Hands(t, Null)
           \/ Locks(t) /\ LetsGo /\ call' = [call EXCEPT ![t].pc = "return", ![t].n = n]
           \/ Locks(t) /\ Holds(t) /\ call' = [call EXCEPT ![t].pc = "fetch", ![t].n = n]
    BY <1>1 DEF SearchToRead
  <2>2. CASE Locks(t) /\ LetsGo /\ Hands(t, Null)
    BY <2>2, HandsOn, LeavesWork
  <2>3. CASE Locks(t) /\ LetsGo /\ call' = [call EXCEPT ![t].pc = "return", ![t].n = n]
    <3> DEFINE r == [call[t] EXCEPT !.pc = "return", !.n = n]
    <3>1. call' = [call EXCEPT ![t] = r] /\ "pc" \in DOMAIN r /\ r.pc = "return"
      BY <2>3, NextPlace
    <3> QED  BY <2>3, <3>1, LeavesWork DEF Working
  <2>4. CASE Locks(t) /\ Holds(t) /\ call' = [call EXCEPT ![t].pc = "fetch", ![t].n = n]
    <3> DEFINE r == [call[t] EXCEPT !.pc = "fetch", !.n = n]
    <3>1. call' = [call EXCEPT ![t] = r] /\ "pc" \in DOMAIN r /\ r.pc = "fetch"
      BY <2>4, NextPlace
    <3> QED  BY <2>4, <3>1, EntersWork DEF Working
  <2> QED  BY <2>1, <2>2, <2>3, <2>4
<1>2. CASE Fetch(t)
  <2>1. call[t].pc \in Working /\ LetsGo /\ (Goes(t, "return") \/ Hands(t, Null))
    BY <1>2 DEF Fetch, At, Working
  <2>2. CASE Goes(t, "return")
    <3> DEFINE r == [call[t] EXCEPT !.pc = "return"]
    <3>1. call' = [call EXCEPT ![t] = r] /\ "pc" \in DOMAIN r /\ r.pc = "return"
      BY <2>2, NextPlace DEF Goes
    <3> QED  BY <2>1, <3>1, LeavesWork DEF Working
  <2> QED  BY <2>1, <2>2, HandsOn, LeavesWork
<1>3. CASE ReturnTag(t)
  <2>1. call[t].pc \notin Working /\ UsrMutex' = UsrMutex /\ Hands(t, slot[call[t].n].ptr)
    BY <1>3 DEF ReturnTag, At, Working
  <2>2. PICK r : "pc" \in DOMAIN r /\ call' = [call EXCEPT ![t] = r] /\ r.pc \notin Working
    BY <2>1, HandsOn
  <2> QED  BY <2>1, <2>2, GoesOn DEF Aside
<1> QED  BY <1>1, <1>2, <1>3

\* cmsReadRawTag locks, lets go for cmsReadTag, and locks again.
LEMMA ReadRawStep ==
    ASSUME Inv, NEW t \in Threads, SearchToReadRaw(t) \/ Copy(t) \/ Serialise(t)
    PROVE  Inv'
<1>1. CASE SearchToReadRaw(t)
  <2>1. PICK n \in {SearchTag(call[t].sig)} :
           \/ Locks(t) /\ LetsGo /\ \E v : Replies(t, v, Null)
           \/ Locks(t) /\ LetsGo /\ call' = [call EXCEPT ![t].pc = "read", ![t].pos = n]
           \/ Locks(t) /\ Holds(t) /\ call' = [call EXCEPT ![t].pc = "copy", ![t].pos = n]
    BY <1>1 DEF SearchToReadRaw, GivesUp, LetsGoToRead
  <2>2. CASE Locks(t) /\ LetsGo /\ \E v : Replies(t, v, Null)
    BY <2>2, RepliesOn, LeavesWork
  <2>3. CASE Locks(t) /\ LetsGo /\ call' = [call EXCEPT ![t].pc = "read", ![t].pos = n]
    <3> DEFINE r == [call[t] EXCEPT !.pc = "read", !.pos = n]
    <3>1. call' = [call EXCEPT ![t] = r] /\ "pc" \in DOMAIN r /\ r.pc = "read"
      BY <2>3, NextPlace
    <3> QED  BY <2>3, <3>1, LeavesWork DEF Working
  <2>4. CASE Locks(t) /\ Holds(t) /\ call' = [call EXCEPT ![t].pc = "copy", ![t].pos = n]
    <3> DEFINE r == [call[t] EXCEPT !.pc = "copy", !.pos = n]
    <3>1. call' = [call EXCEPT ![t] = r] /\ "pc" \in DOMAIN r /\ r.pc = "copy"
      BY <2>4, NextPlace
    <3> QED  BY <2>4, <3>1, EntersWork DEF Working
  <2> QED  BY <2>1, <2>2, <2>3, <2>4
<1>2. CASE Copy(t)
  <2>1. call[t].pc \in Working /\ LetsGo /\ \E v : Replies(t, v, Null)
    BY <1>2 DEF Copy, At, Working
  <2> QED  BY <2>1, RepliesOn, LeavesWork
<1>3. CASE Serialise(t)
  <2>1. Locks(t) /\ LetsGo /\ \E v : Replies(t, v, Null)
    BY <1>3 DEF Serialise, GivesUp
  <2> QED  BY <2>1, RepliesOn, LeavesWork
<1> QED  BY <1>1, <1>2, <1>3

\* cmsWriteTag and cmsWriteRawTag lock once; the latter has a step after it.
LEMMA WriteStep ==
    ASSUME Inv, NEW t \in Threads, NewTag(t) \/ Fill(t) \/ Check(t) \/ Delete(t)
    PROVE  Inv'
<1>1. CASE NewTag(t)
  <2>1. PICK i \in {NewPos(call[t].sig)} :
           \/ Locks(t) /\ LetsGo /\ Ends(t)
           \/ Locks(t) /\ Holds(t) /\ call' = [call EXCEPT ![t].pc = "fill", ![t].pos = i]
    BY <1>1 DEF NewTag
  <2>2. CASE Locks(t) /\ LetsGo /\ Ends(t)
    BY <2>2, EndsOn, LeavesWork
  <2>3. CASE Locks(t) /\ Holds(t) /\ call' = [call EXCEPT ![t].pc = "fill", ![t].pos = i]
    <3> DEFINE r == [call[t] EXCEPT !.pc = "fill", !.pos = i]
    <3>1. call' = [call EXCEPT ![t] = r] /\ "pc" \in DOMAIN r /\ r.pc = "fill"
      BY <2>3, NextPlace
    <3> QED  BY <2>3, <3>1, EntersWork DEF Working
  <2> QED  BY <2>1, <2>2, <2>3
<1>2. CASE Fill(t)
  <2>1. call[t].pc \in Working /\ LetsGo /\ (Goes(t, "check") \/ Ends(t))
    BY <1>2 DEF Fill, At, Working
  <2>2. CASE Goes(t, "check")
    <3> DEFINE r == [call[t] EXCEPT !.pc = "check"]
    <3>1. call' = [call EXCEPT ![t] = r] /\ "pc" \in DOMAIN r /\ r.pc = "check"
      BY <2>2, NextPlace DEF Goes
    <3> QED  BY <2>1, <3>1, LeavesWork DEF Working
  <2> QED  BY <2>1, <2>2, EndsOn, LeavesWork
<1>3. CASE Check(t)
  <2>1. call[t].pc \notin Working /\ UsrMutex' = UsrMutex /\ Ends(t)
    BY <1>3 DEF Check, At, Working
  <2>2. PICK r : "pc" \in DOMAIN r /\ call' = [call EXCEPT ![t] = r] /\ r.pc \notin Working
    BY <2>1, EndsOn
  <2> QED  BY <2>1, <2>2, GoesOn DEF Aside
<1>4. CASE Delete(t)
  <2>1. Locks(t) /\ LetsGo /\ Ends(t)
    BY <1>4 DEF Delete
  <2> QED  BY <2>1, EndsOn, LeavesWork
<1> QED  BY <1>1, <1>2, <1>3, <1>4

\* A call that begins is nowhere near the mutex.
LEMMA BeginStep ==
    ASSUME Inv, NEW t \in Threads, Begin(t)
    PROVE  Inv'
<1>1. PICK pc, op, s, v :
           /\ At(t, "idle") /\ Begins(t, pc, op, s, v)
           /\ pc \in {"read", "readraw", "delete", "write"}
  BY DEF Begin
<1> DEFINE r == New(pc, op, s, v)
<1>2. call' = [call EXCEPT ![t] = r] /\ UsrMutex' = UsrMutex
  BY <1>1 DEF Begins
<1>3. "pc" \in DOMAIN r /\ r.pc = pc
  BY DEF New
<1>4. call[t].pc \notin Working /\ pc \notin Working
  BY <1>1 DEF At, Working
<1> QED  BY <1>2, <1>3, <1>4, GoesOn DEF Aside

(***************************************************************************)
(* The invariant.                                                          *)
(***************************************************************************)
LEMMA StepInv == Inv /\ [SharedNext]_sharedVars => Inv'
<1> SUFFICES ASSUME Inv, [SharedNext]_sharedVars PROVE Inv'
  OBVIOUS
<1>1. CASE UNCHANGED sharedVars
  BY <1>1 DEF sharedVars, Inv, OneAtWork
<1>2. CASE Rest
  BY <1>2 DEF Rest, sharedVars, Inv, OneAtWork
<1>3. ASSUME NEW t \in Threads, Begin(t) \/ Step(t) PROVE Inv'
  BY <1>3, BeginStep, ReadStep, ReadRawStep, WriteStep DEF Step
<1> QED  BY <1>1, <1>2, <1>3 DEF SharedNext

\* From Begun on, whatever the file holds and whatever the tags were given.
THEOREM OneWorks == Begun /\ [][SharedNext]_sharedVars => []OneAtWork
<1>1. Begun => Inv
  BY ThreadAssumption DEF Begun, Inv, OneAtWork, Idle
<1>2. Inv => OneAtWork
  BY DEF Inv
<1> QED  BY <1>1, <1>2, StepInv, PTL

(***************************************************************************)
(* What calls return.  The invariant says what the directory, the heap and *)
(* the file hold for each tag, and what each call knows of it at each step.*)
(***************************************************************************)
\* What it takes for data to be in memory, in the form of TagSaveAsRaw.
InMemory(n, v) ==
    /\ slot[n].ptr # Null
    /\ heap[slot[n].ptr] = [val |-> v, shape |-> IF slot[n].raw THEN "raw" ELSE "cooked"]
    /\ ~slot[n].raw => slot[n].handler = TypeOf[v]
Cooked(n) == n # 0 /\ slot[n].ptr # Null /\ ~slot[n].raw

\* The directory and the heap: one entry of each name, links among the tags that
\* nobody writes, and no address in two entries.
Directory ==
    /\ DirectoryOK /\ UniqueNames /\ LinksEnd
    /\ heap \in [Objects -> Contents \cup {Unused}]
    /\ meaning \in [Sigs -> Payloads \cup {Null}]
    /\ \A i \in Position : slot[i].linked # NoSig =>
         /\ slot[i].name \in Sigs /\ Owner[slot[i].name] = NoThread
         /\ slot[i].linked \in Sigs /\ Owner[slot[i].linked] = NoThread
    /\ \A i \in Position : slot[i].ptr # Null => heap[slot[i].ptr] # Unused
    /\ \A i, j \in Position : slot[i].ptr = slot[j].ptr => i = j \/ slot[i].ptr = Null

\* A tag that nobody writes is what the file holds, there or in memory.
SharedTag(s, n) ==
    /\ ~slot[n].raw /\ Readable(s, meaning[s])
    /\ InMemory(n, meaning[s]) \/ OnDisk(n, meaning[s])
\* Between the two steps of a write the tag is its owner's; before and after that
\* it is what it was given, or nothing, and nothing is looked for in the file.
WorksOn(t, pc, s) == call[t].pc = pc /\ call[t].sig = s
OwnTag(s, n) ==
    \/ WorksOn(Owner[s], "fill", s)
    \/ /\ meaning[s] = Null /\ slot[n].ptr = Null
       /\ (slot[n].size = 0 /\ ~slot[n].raw) \/ WorksOn(Owner[s], "check", s)
    \/ /\ meaning[s] \in Payloads /\ InMemory(n, meaning[s])
       /\ ~slot[n].raw => TypeOf[meaning[s]] \in Supported[s]
TagOK(s, n) ==
    IF n = 0 THEN meaning[s] = Null
    ELSE IF Owner[s] = NoThread THEN SharedTag(s, n) ELSE OwnTag(s, n)
TagInv == \A s \in Sigs : \A n \in {SearchTag(s)} : TagOK(s, n)

\* What a call knows at each step, n being where its tag is now.
Call == [pc: {"idle", "read", "fetch", "return", "readraw", "copy", "again", "write", "fill", "check", "delete"},
         op: {"none", "ReadTag", "ReadRawTag", "WriteTag", "WriteRawTag", "DeleteTag"},
         sig: Sigs \cup {NoSig}, val: Payloads \cup {Null}, pos: Nat, n: Nat, obj: Objects \cup {Null}]

ReadsAt(c, n) ==
    \/ /\ c.pc = "idle"
       /\ c.val = meaning[c.sig] \/ (Faults /\ c.val = Null)
       /\ c.obj # Null => Cooked(n) /\ slot[n].ptr = c.obj
    \/ c.pc = "read" /\ c.op = "ReadTag" /\ (n # 0 => ~slot[n].raw)
    \/ c.pc = "read" /\ c.op = "ReadRawTag" /\ Cooked(n) /\ c.pos = n
    \/ /\ c.pc = "fetch" /\ c.op = "ReadTag" /\ Owner[c.sig] = NoThread
       /\ n # 0 /\ c.n = n /\ OnDisk(n, meaning[c.sig]) /\ seek = slot[n].off
    \/ c.pc = "return" /\ Cooked(n) /\ c.n = n /\ (c.op = "ReadRawTag" => c.pos = n)
    \/ c.pc = "readraw" /\ c.op = "ReadRawTag"
    \/ c.pc = "copy" /\ c.op = "ReadRawTag" /\ n # 0 /\ c.pos = n /\ slot[n].ptr = Null /\ seek = slot[n].off
    \/ c.pc = "again" /\ c.op = "ReadRawTag" /\ Cooked(n) /\ c.pos = n /\ c.obj = slot[n].ptr
WritesAt(c, n) ==
    /\ c.val \in Payloads /\ (c.op = "WriteTag" => TypeOf[c.val] \in Supported[c.sig])
    /\ \/ c.pc = "write"
       \/ /\ c.pc = "fill" /\ meaning[c.sig] = Null
          /\ c.pos \in 1..count /\ slot[c.pos].name \in {c.sig, NoSig}
          /\ \A j \in Position : j # c.pos => slot[j].name # c.sig
       \/ c.pc = "check" /\ c.op = "WriteRawTag" /\ n # 0 /\ c.pos = n
Fits(t, c) ==
    /\ c \in Call
    /\ \/ c.pc = "idle" /\ c.op = "none" /\ c.sig = NoSig
       \/ /\ c.op \in {"ReadTag", "ReadRawTag"}
          /\ c.sig \in Sigs /\ Owner[c.sig] \in {t, NoThread}
          /\ \A n \in {SearchTag(c.sig)} : ReadsAt(c, n)
       \/ /\ c.op \in {"WriteTag", "WriteRawTag"}
          /\ c.sig \in Sigs /\ Owner[c.sig] = t
          /\ \A n \in {SearchTag(c.sig)} : WritesAt(c, n)
       \/ c.op = "DeleteTag" /\ c.pc = "delete" /\ c.sig \in Sigs /\ Owner[c.sig] = t
CallInv == \A t \in Threads : \A c \in {call[t]} : Fits(t, c)

Answers == Inv /\ call \in [Threads -> Call] /\ Directory /\ TagInv /\ CallInv

(***************************************************************************)
(* Where a tag is.                                                         *)
(***************************************************************************)
\* An entry in use, which is no link: of a tag that nobody writes for a tag that
\* nobody writes, and the tag's own for all the others.
LEMMA Reach ==
    ASSUME Directory, NEW s \in Sigs
    PROVE  \A n \in {SearchTag(s)} :
             /\ n \in 0..count
             /\ n # 0 => n \in Position /\ slot[n].name \in Sigs /\ slot[n].linked = NoSig
             /\ n # 0 /\ Owner[s] = NoThread => Owner[slot[n].name] = NoThread
             /\ Owner[s] # NoThread => n = SearchOneTag(s)
<1>1. DirectoryOK /\ LinksEnd /\ count \in Nat /\ count <= MaxTags /\ MaxTags \in Nat
  BY TableAssumption DEF Directory, DirectoryOK
<1>2. PICK e \in LinkPath(s) : Hop[e] = NoSig
  BY <1>1 DEF LinksEnd
<1>3. e \in Sigs /\ SearchTag(s) = SearchOneTag(e)
  BY <1>1, <1>2, PathLeast, SearchTagEnds
<1>4. PICK n : n = SearchOneTag(e)
  OBVIOUS
<1>5. n \in 0..count /\ (n # 0 => slot[n].name = e) /\ Hop[e] = IF n = 0 THEN NoSig ELSE slot[n].linked
  BY <1>1, <1>3, <1>4, Finds, HopLeads
<1>6. \A t \in Sigs : /\ Hop[t] # NoSig => Hop[t] \in Sigs /\ Owner[Hop[t]] = NoThread /\ Owner[t] = NoThread
  <2>1. SUFFICES ASSUME NEW t \in Sigs, Hop[t] # NoSig
                 PROVE  Hop[t] \in Sigs /\ Owner[Hop[t]] = NoThread /\ Owner[t] = NoThread
    OBVIOUS
  <2>2. PICK m : m = SearchOneTag(t)
    OBVIOUS
  <2>3. m \in 0..count /\ (m # 0 => slot[m].name = t) /\ Hop[t] = IF m = 0 THEN NoSig ELSE slot[m].linked
    BY <1>1, <2>2, Finds, HopLeads
  <2>4. m \in Position /\ slot[m].name = t /\ slot[m].linked # NoSig /\ Hop[t] = slot[m].linked
    BY <1>1, <2>1, <2>3 DEF Position
  <2> QED  BY <2>4 DEF Directory
<1>7. CASE Owner[s] = NoThread
  <2> DEFINE X == {t \in Sigs : Owner[t] = NoThread}
  <2>1. LeadsNowhereElse(X)
    BY <1>6 DEF LeadsNowhereElse
  <2>2. e \in X
    BY <1>1, <1>2, <1>7, <2>1, PathLeast
  <2> QED  BY <1>1, <1>2, <1>3, <1>4, <1>5, <1>7, <2>2 DEF Position
<1>8. CASE Owner[s] # NoThread
  <2>1. Hop[s] = NoSig
    BY <1>6, <1>8
  <2>2. e = s
    BY <1>1, <1>2, <2>1, PathFrom
  <2> QED  BY <1>1, <1>2, <1>3, <1>4, <1>5, <1>8, <2>2 DEF Position
<1> QED  BY <1>7, <1>8

LEMMA ReachNext ==
    ASSUME Directory', NEW s \in Sigs
    PROVE  \A n \in {SearchTag(s)'} :
             /\ n \in 0..count'
             /\ n # 0 => n \in Position /\ slot'[n].name \in Sigs /\ slot'[n].linked = NoSig
             /\ n # 0 /\ Owner[s] = NoThread => Owner[slot'[n].name] = NoThread
             /\ Owner[s] # NoThread => n = SearchOneTag(s)'
<1>1. (\A n \in {SearchTag(s)} :
             /\ n \in 0..count
             /\ n # 0 => n \in Position /\ slot[n].name \in Sigs /\ slot[n].linked = NoSig
             /\ n # 0 /\ Owner[s] = NoThread => Owner[slot[n].name] = NoThread
             /\ Owner[s] # NoThread => n = SearchOneTag(s))'
  BY Reach, PTL
<1> QED  BY <1>1

\* The names and links of all the entries stay: so does all that is found.
SameNames ==
    /\ count' = count
    /\ \A i \in Position : slot'[i].name = slot[i].name /\ slot'[i].linked = slot[i].linked

LEMMA SameFound ==
    ASSUME DirectoryOK, DirectoryOK', UniqueNames, SameNames, NEW s \in Sigs
    PROVE  SearchOneTag(s)' = SearchOneTag(s) /\ Hop'[s] = Hop[s]
<1>1. PICK n, m : n = SearchOneTag(s) /\ m = SearchOneTag(s)'
  OBVIOUS
<1>2. n \in 0..count /\ (n # 0 => slot[n].name = s) /\ \A j \in 1..count : slot[j].name = s => n # 0
  BY <1>1, Finds
<1>3. m \in 0..count' /\ (m # 0 => slot'[m].name = s) /\ \A j \in 1..count' : slot'[j].name = s => m # 0
  BY <1>1, FindsNext
<1>4. Hop[s] = (IF n = 0 THEN NoSig ELSE slot[n].linked) /\ Hop'[s] = (IF m = 0 THEN NoSig ELSE slot'[m].linked)
  BY <1>1, HopLeads, HopNext
<1>5. count \in Nat /\ count <= MaxTags /\ MaxTags \in Nat /\ s # NoSig
  BY TableAssumption, SigsAssumption DEF DirectoryOK
<1>6. n # 0 => n \in Position /\ n \in 1..count /\ slot'[n].name = s
  BY <1>2, <1>5 DEF SameNames, Position
<1>7. m # 0 => m \in Position /\ m \in 1..count /\ slot[m].name = s
  BY <1>3, <1>5 DEF SameNames, Position
<1>8. n = m
  <2>1. n # 0 <=> m # 0
    BY <1>2, <1>3, <1>6, <1>7 DEF SameNames
  <2> QED  BY <1>2, <1>5, <1>6, <1>7, <2>1 DEF UniqueNames
<1> QED  BY <1>1, <1>4, <1>6, <1>8 DEF SameNames

LEMMA SameReached ==
    ASSUME DirectoryOK, DirectoryOK', UniqueNames, SameNames, NEW s \in Sigs
    PROVE  SearchTag(s)' = SearchTag(s) /\ LinkPath(s)' = LinkPath(s)
<1>1. \A t \in LinkPath(s) : Hop'[t] = Hop[t] /\ SearchOneTag(t)' = SearchOneTag(t)
  BY PathLeast, SameFound
<1> QED  BY <1>1, SameSearch

(***************************************************************************)
(* What a step leaves of the other tags.                                   *)
(***************************************************************************)
\* The tag is where it was, as it was.
Same(u) ==
    /\ SearchTag(u)' = SearchTag(u)
    /\ meaning'[u] = meaning[u]
    /\ \A n \in {SearchTag(u)} : n # 0 =>
         /\ slot'[n] = slot[n]
         /\ slot[n].ptr # Null => heap'[slot[n].ptr] = heap[slot[n].ptr]

\* What the entry at i has on the heap no other entry has, and what others have there stays.
HeapStep(i) ==
    /\ heap' \in [Objects -> Contents \cup {Unused}]
    /\ slot'[i].ptr # Null => slot'[i].ptr \in Objects /\ heap'[slot'[i].ptr] # Unused
    /\ \A j \in Position : j # i /\ slot[j].ptr # Null =>
         heap'[slot[j].ptr] = heap[slot[j].ptr] /\ slot[j].ptr # slot'[i].ptr

\* The entry's data may be freed, or left.
LEMMA Frees ==
    ASSUME Directory, NEW i \in Position,
           \/ heap' = HeapAfterDelete(i) /\ slot'[i].ptr = Deleted(i).ptr
           \/ heap' = heap /\ slot'[i].ptr \in {slot[i].ptr, Null}
    PROVE  HeapStep(i)
<1>1. /\ heap \in [Objects -> Contents \cup {Unused}]
      /\ \A j \in Position : slot[j].ptr \in Objects \cup {Null}
      /\ \A j \in Position : slot[j].ptr # Null => heap[slot[j].ptr] # Unused
      /\ \A j, k \in Position : slot[j].ptr = slot[k].ptr => j = k \/ slot[j].ptr = Null
  BY DEF Directory, DirectoryOK, Slot
<1>2. CASE heap' = heap /\ slot'[i].ptr \in {slot[i].ptr, Null}
  BY <1>1, <1>2 DEF HeapStep
<1>3. CASE heap' = HeapAfterDelete(i) /\ slot'[i].ptr = Deleted(i).ptr
  <2>1. CASE ~Deletable(i)
    BY <1>1, <1>3, <2>1 DEF HeapStep, HeapAfterDelete, Deleted
  <2>2. CASE Deletable(i)
    <3>1. slot[i] \in Slot /\ slot[i].ptr \in Objects /\ slot[i].ptr # Null
      BY <2>2, <1>1 DEF Deletable, Directory, DirectoryOK
    <3>2. slot'[i].ptr = Null
      BY <1>3, <2>2, <3>1 DEF Deleted, Slot
    <3>3. heap' = [heap EXCEPT ![slot[i].ptr] = Unused]
      BY <1>3, <2>2, <3>1 DEF HeapAfterDelete, HeapWithout
    <3>4. heap' \in [Objects -> Contents \cup {Unused}]
      BY <1>1, <3>1, <3>3
    <3> QED  BY <1>1, <3>1, <3>2, <3>3, <3>4 DEF HeapStep
  <2> QED  BY <2>1, <2>2
<1> QED  BY <1>2, <1>3

\* New data is at an address that no entry has.
LEMMA Fills ==
    ASSUME Directory, NEW i \in Position, NEW o \in Free(heap), NEW c \in Contents,
           heap' = [heap EXCEPT ![o] = c], slot'[i].ptr = o
    PROVE  HeapStep(i) /\ heap'[o] = c
<1>1. /\ heap \in [Objects -> Contents \cup {Unused}]
      /\ \A j \in Position : slot[j].ptr \in Objects \cup {Null}
      /\ \A j \in Position : slot[j].ptr # Null => heap[slot[j].ptr] # Unused
  BY DEF Directory, DirectoryOK, Slot
<1>2. o \in Objects /\ heap[o] = Unused
  BY DEF Free
<1>3. c # Unused
  <2>1. c.val # Null
    BY PayloadAssumption DEF Contents
  <2> QED  BY <2>1 DEF Unused
<1> QED  BY <1>1, <1>2, <1>3 DEF HeapStep

LEMMA Pointers ==
    ASSUME Directory, NEW i \in Position, HeapStep(i), \A j \in Position : j # i => slot'[j] = slot[j]
    PROVE  /\ \A j \in Position : slot'[j].ptr # Null => heap'[slot'[j].ptr] # Unused
           /\ \A j, k \in Position : slot'[j].ptr = slot'[k].ptr => j = k \/ slot'[j].ptr = Null
<1>1. /\ \A j \in Position : slot[j].ptr # Null => heap[slot[j].ptr] # Unused
      /\ \A j, k \in Position : slot[j].ptr = slot[k].ptr => j = k \/ slot[j].ptr = Null
  BY DEF Directory
<1>2. ASSUME NEW j \in Position, slot'[j].ptr # Null PROVE heap'[slot'[j].ptr] # Unused
  BY <1>1, <1>2 DEF HeapStep
<1>3. ASSUME NEW j \in Position, NEW k \in Position, slot'[j].ptr = slot'[k].ptr, j # k
      PROVE  slot'[j].ptr = Null
  <2>1. CASE j # i /\ k # i
    BY <1>1, <1>3, <2>1
  <2>2. CASE j = i /\ k # i
    BY <1>3, <2>2 DEF HeapStep
  <2>3. CASE j # i /\ k = i
    BY <1>3, <2>3 DEF HeapStep
  <2> QED  BY <1>3, <2>1, <2>2, <2>3
<1> QED  BY <1>2, <1>3

\* A write of a thread's own tag leaves the others.
LEMMA Stores ==
    ASSUME Directory, DirectoryOK', NEW s \in Sigs, Owner[s] # NoThread, NEW i \in Position,
           EntryChanges(s, i), HeapStep(i), slot'[i].linked = NoSig,
           meaning' \in [Sigs -> Payloads \cup {Null}], \A u \in Sigs \ {s} : meaning'[u] = meaning[u]
    PROVE  Directory' /\ \A u \in Sigs \ {s} : Same(u)
<1>0. /\ DirectoryOK /\ UniqueNames /\ LinksEnd
      /\ count \in Nat /\ count' \in Nat /\ MaxTags \in Nat /\ s # NoSig
  BY TableAssumption, SigsAssumption DEF Directory, DirectoryOK
<1>1. /\ i <= count + 1 /\ count' = IF i > count THEN i ELSE count
      /\ slot[i].name \in {s, NoSig} /\ slot'[i].name \in {s, NoSig}
      /\ \A j \in Position : j # i => slot'[j] = slot[j] /\ slot[j].name # s
  BY DEF EntryChanges
<1>2. UniqueNames'
  <2>1. ASSUME NEW j \in Position, NEW k \in Position, j # k, slot'[j].name = slot'[k].name
        PROVE  slot'[j].name = NoSig
    BY <1>0, <1>1, <2>1 DEF UniqueNames
  <2>2. ASSUME NEW j \in Position, j > count' PROVE slot'[j].name = NoSig
    <3>1. j # i /\ j > count
      BY <1>0, <1>1, <2>2 DEF Position
    <3> QED  BY <1>0, <1>1, <3>1 DEF UniqueNames
  <2> QED  BY <2>1, <2>2 DEF UniqueNames
<1>3. \A u \in Sigs \ {s} : SearchOneTag(u)' = SearchOneTag(u) /\ Hop'[u] = Hop[u]
  BY <1>0, FoundElsewhere
<1>4. LinksEnd'
  <2>1. Hop'[s] = NoSig
    <3>1. PICK m : m = SearchOneTag(s)'
      OBVIOUS
    <3>2. m \in 0..count' /\ (m # 0 => slot'[m].name = s) /\ Hop'[s] = IF m = 0 THEN NoSig ELSE slot'[m].linked
      BY <3>1, FindsNext, HopNext
    <3>3. count' <= MaxTags
      BY <1>0 DEF DirectoryOK
    <3>4. m # 0 => m = i
      BY <1>0, <1>1, <3>2, <3>3 DEF Position
    <3> QED  BY <3>2, <3>4
  <2>2. PICK d : d = NoSig
    OBVIOUS
  <2> QED  BY <1>0, <1>3, <2>1, <2>2, EndsAfter
<1>5. \A j \in Position : slot'[j].linked # NoSig =>
         /\ slot'[j].name \in Sigs /\ Owner[slot'[j].name] = NoThread
         /\ slot'[j].linked \in Sigs /\ Owner[slot'[j].linked] = NoThread
  BY <1>1 DEF Directory
<1>6. Directory'
  <2>1. heap' \in [Objects -> Contents \cup {Unused}]
    BY DEF HeapStep
  <2>2. /\ \A j \in Position : slot'[j].ptr # Null => heap'[slot'[j].ptr] # Unused
        /\ \A j, k \in Position : slot'[j].ptr = slot'[k].ptr => j = k \/ slot'[j].ptr = Null
    BY <1>1, Pointers
  <2> QED  BY <1>2, <1>4, <1>5, <2>1, <2>2 DEF Directory
<1>7. ASSUME NEW u \in Sigs \ {s} PROVE Same(u)
  <2>1. SearchTag(u)' = SearchTag(u)
    <3>1. CASE Owner[u] # NoThread
      <4>1. SearchTag(u) = SearchOneTag(u) /\ SearchTag(u)' = SearchOneTag(u)'
        BY <1>6, <3>1, Reach, ReachNext
      <4> QED  BY <1>3, <4>1
    <3>2. CASE Owner[u] = NoThread
      <4> DEFINE X == {t \in Sigs : Owner[t] = NoThread}
      <4>1. LeadsNowhereElse(X)
        <5>1. SUFFICES ASSUME NEW t \in X, Hop[t] # NoSig PROVE Hop[t] \in X
          BY DEF LeadsNowhereElse
        <5>2. PICK m : m = SearchOneTag(t)
          OBVIOUS
        <5>3. m \in 0..count /\ (m # 0 => slot[m].name = t) /\ Hop[t] = IF m = 0 THEN NoSig ELSE slot[m].linked
          BY <1>0, <5>2, Finds, HopLeads
        <5>4. m \in Position /\ slot[m].linked # NoSig /\ Hop[t] = slot[m].linked
          BY <1>0, <5>1, <5>3 DEF Position, DirectoryOK
        <5> QED  BY <5>4 DEF Directory
      <4>2. LinkPath(u) \subseteq X
        BY <1>0, <3>2, <4>1, PathLeast
      <4>3. \A t \in LinkPath(u) : t \in Sigs \ {s}
        BY <4>2
      <4> QED  BY <1>0, <1>3, <4>3, SameSearch
    <3> QED  BY <3>1, <3>2
  <2>2. ASSUME NEW n \in {SearchTag(u)}, n # 0
        PROVE  slot'[n] = slot[n] /\ (slot[n].ptr # Null => heap'[slot[n].ptr] = heap[slot[n].ptr])
    <3>1. /\ n \in Position /\ slot[n].name \in Sigs
          /\ Owner[u] = NoThread => Owner[slot[n].name] = NoThread
          /\ Owner[u] # NoThread => n = SearchOneTag(u)
      BY <2>2, Reach
    <3>2. slot[n].name # s
      <4>1. CASE Owner[u] = NoThread
        BY <3>1, <4>1
      <4>2. CASE Owner[u] # NoThread
        BY <1>0, <2>2, <3>1, <4>2, Finds
      <4> QED  BY <4>1, <4>2
    <3>3. n # i
      BY <1>1, <3>1, <3>2, SigsAssumption
    <3> QED  BY <1>1, <3>1, <3>3 DEF HeapStep
  <2> QED  BY <2>1, <2>2 DEF Same
<1> QED  BY <1>6, <1>7

\* For a call that is not looking at the file it is enough that data stays in memory.
Stays(u) ==
    /\ SearchTag(u)' = SearchTag(u)
    /\ meaning'[u] = meaning[u]
    /\ \A n \in {SearchTag(u)} : n # 0 =>
         slot'[n].raw = slot[n].raw /\ (slot[n].ptr # Null => slot'[n].ptr = slot[n].ptr)
\* Names may go but not come.
NamesFall == count' = count /\ \A j \in Position : slot'[j].name \in {slot[j].name, NoSig}

LEMMA TagKept ==
    ASSUME TagInv, NEW u \in Sigs, Same(u), file' = file,
           \A pc \in {"fill", "check"} : WorksOn(Owner[u], pc, u) => WorksOn(Owner[u], pc, u)'
    PROVE  \A n \in {SearchTag(u)'} : TagOK(u, n)'
<1>1. PICK n : n = SearchTag(u)
  OBVIOUS
<1>2. /\ TagOK(u, n) /\ SearchTag(u)' = n /\ meaning'[u] = meaning[u]
      /\ n # 0 => slot'[n] = slot[n] /\ (slot[n].ptr # Null => heap'[slot[n].ptr] = heap[slot[n].ptr])
  BY <1>1 DEF TagInv, Same
<1>3. TagOK(u, n)'
  <2>1. CASE n = 0
    BY <1>2, <2>1 DEF TagOK
  <2>2. CASE n # 0 /\ Owner[u] = NoThread
    <3>1. SharedTag(u, n)'
      BY <1>2, <2>2 DEF TagOK, SharedTag, Readable, InMemory, OnDisk, InFile
    <3> QED  BY <2>2, <3>1 DEF TagOK
  <2>3. CASE n # 0 /\ Owner[u] # NoThread
    <3>1. OwnTag(u, n)
      BY <1>2, <2>3 DEF TagOK
    <3>2. OwnTag(u, n)'
      BY <1>2, <2>3, <3>1 DEF OwnTag, InMemory
    <3> QED  BY <2>3, <3>2 DEF TagOK
  <2> QED  BY <2>1, <2>2, <2>3
<1> QED  BY <1>2, <1>3

LEMMA FitsKept ==
    ASSUME Directory, NEW t \in Threads, NEW c, Fits(t, c), file' = file,
           c.sig \in Sigs => Stays(c.sig),
           c.pc \in {"fetch", "copy"} => Same(c.sig) /\ seek' = seek,
           c.pc = "fill" => NamesFall
    PROVE  Fits(t, c)'
<1>1. CASE c.pc = "idle" /\ c.op = "none" /\ c.sig = NoSig
  BY <1>1 DEF Fits
<1>2. CASE c.op = "DeleteTag"
  BY <1>2 DEF Fits
<1>3. CASE c.op \in {"ReadTag", "ReadRawTag"}
  <2>1. c \in Call /\ c.sig \in Sigs /\ Owner[c.sig] \in {t, NoThread}
    BY <1>3 DEF Fits
  <2>2. PICK n : n = SearchTag(c.sig)
    OBVIOUS
  <2>3. ReadsAt(c, n)
    BY <1>3, <2>2 DEF Fits
  <2>4. /\ SearchTag(c.sig)' = n /\ meaning'[c.sig] = meaning[c.sig]
        /\ n # 0 => slot'[n].raw = slot[n].raw /\ (slot[n].ptr # Null => slot'[n].ptr = slot[n].ptr)
    BY <2>1, <2>2 DEF Stays
  <2>5. c.pc \in {"fetch", "copy"} => seek' = seek /\ (n # 0 => slot'[n] = slot[n])
    BY <2>2 DEF Same
  <2>6. ReadsAt(c, n)'
    <3>1. CASE c.pc = "fetch"
      BY <2>3, <2>4, <2>5, <3>1 DEF ReadsAt, OnDisk, InFile
    <3>2. CASE c.pc # "fetch"
      BY <2>3, <2>4, <2>5, <3>2 DEF ReadsAt, Cooked
    <3> QED  BY <3>1, <3>2
  <2> QED  BY <1>3, <2>1, <2>4, <2>6 DEF Fits
<1>4. CASE c.op \in {"WriteTag", "WriteRawTag"}
  <2>1. c \in Call /\ c.sig \in Sigs /\ Owner[c.sig] = t
    BY <1>4 DEF Fits
  <2>2. PICK n : n = SearchTag(c.sig)
    OBVIOUS
  <2>3. WritesAt(c, n)
    BY <1>4, <2>2 DEF Fits
  <2>4. /\ SearchTag(c.sig)' = n /\ meaning'[c.sig] = meaning[c.sig]
    BY <2>1, <2>2 DEF Stays
  <2>5. c.pc = "fill" => count' = count /\ \A j \in Position : slot'[j].name \in {slot[j].name, NoSig}
    BY DEF NamesFall
  <2>6. c.sig # NoSig /\ (c.pc = "fill" /\ c.pos \in 1..count => c.pos \in Position)
    BY <2>1, SigsAssumption, TableAssumption DEF Directory, DirectoryOK, Position
  <2>7. WritesAt(c, n)'
    BY <2>3, <2>4, <2>5, <2>6 DEF WritesAt
  <2> QED  BY <1>4, <2>1, <2>4, <2>7 DEF Fits
<1> QED  BY <1>1, <1>2, <1>3, <1>4 DEF Fits

\* A thread goes on: its call fits, those of the others stay, and so do the tags
\* but for those that the step is about.
LEMMA GoesOnAnswering ==
    ASSUME Answers, Inv', Directory', NEW t \in Threads, NEW r, Fits(t, r)',
           call' = [call EXCEPT ![t] = r], file' = file,
           \A u \in Threads \ {t} : call[u].sig \in Sigs => Stays(call[u].sig),
           \A u \in Threads \ {t} : call[u].pc \in {"fetch", "copy"} => Same(call[u].sig) /\ seek' = seek,
           \A u \in Threads \ {t} : call[u].pc = "fill" => NamesFall,
           \A s \in Sigs : \/ Same(s) /\ (call[t].pc \in {"fill", "check"} => call[t].sig # s)
                           \/ \A n \in {SearchTag(s)'} : TagOK(s, n)'
    PROVE  Answers'
<1>1. call \in [Threads -> Call] /\ Directory /\ TagInv /\ CallInv
  BY DEF Answers
<1>2. r \in Call
  BY DEF Fits, Call
<1>3. call' \in [Threads -> Call] /\ \A u \in Threads : call'[u] = IF u = t THEN r ELSE call[u]
  BY <1>1, <1>2
<1>4. CallInv'
  <2>1. ASSUME NEW u \in Threads PROVE Fits(u, call[u]) 
    BY <1>1, <2>1 DEF CallInv
  <2>2. ASSUME NEW u \in Threads, NEW c \in {call'[u]} PROVE Fits(u, c)'
    <3>1. CASE u = t
      BY <1>3, <2>2, <3>1
    <3>2. CASE u # t
      <4>1. c = call[u] /\ Fits(u, c)
        BY <1>3, <2>1, <2>2, <3>2
      <4>2. /\ c.sig \in Sigs => Stays(c.sig)
            /\ c.pc \in {"fetch", "copy"} => Same(c.sig) /\ seek' = seek
            /\ c.pc = "fill" => NamesFall
        BY <3>2, <4>1
      <4> QED  BY <1>1, <4>1, <4>2, FitsKept
    <3> QED  BY <3>1, <3>2
  <2> QED  BY <2>2 DEF CallInv
<1>5. TagInv'
  <2>1. ASSUME NEW s \in Sigs PROVE \A n \in {SearchTag(s)'} : TagOK(s, n)'
    <3>1. CASE Same(s) /\ (call[t].pc \in {"fill", "check"} => call[t].sig # s)
      <4>1. ASSUME NEW pc \in {"fill", "check"}, WorksOn(Owner[s], pc, s) PROVE WorksOn(Owner[s], pc, s)'
        <5>1. call[Owner[s]].pc = pc /\ call[Owner[s]].sig = s
          BY <4>1 DEF WorksOn
        <5>2. Owner[s] # t
          BY <3>1, <4>1, <5>1
        <5>3. call'[Owner[s]] = call[Owner[s]]
          BY <5>2, <1>1
        <5> QED  BY <5>1, <5>3 DEF WorksOn
      <4> QED  BY <1>1, <3>1, <4>1, TagKept
    <3> QED  BY <2>1, <3>1
  <2> QED  BY <2>1 DEF TagInv
<1> QED  BY <1>3, <1>4, <1>5 DEF Answers

\* A step that changes no entry and no data.
Quiet == UNCHANGED <<slot, count, heap, meaning, file>>

LEMMA QuietKeeps ==
    ASSUME Directory, Quiet
    PROVE  /\ Directory' /\ NamesFall
           /\ \A s \in Sigs : Same(s) /\ Stays(s)
<1>1. /\ DirectoryOK /\ UniqueNames /\ LinksEnd
      /\ DirectoryOK' /\ UniqueNames' /\ SameNames
  BY DEF Quiet, Directory, DirectoryOK, UniqueNames, SameNames
<1>2. \A s \in Sigs : SearchTag(s)' = SearchTag(s) /\ LinkPath(s)' = LinkPath(s)
  BY <1>1, SameReached
<1>3. LinksEnd'
  <2>1. SUFFICES ASSUME NEW s \in Sigs PROVE \E e \in LinkPath(s)' : Hop'[e] = NoSig
    BY DEF LinksEnd
  <2>2. PICK e \in LinkPath(s) : Hop[e] = NoSig
    BY <1>1 DEF LinksEnd
  <2>3. e \in Sigs
    BY <1>1, <2>2, PathLeast
  <2> QED  BY <1>1, <1>2, <2>2, <2>3, SameFound
<1>4. Directory'
  BY <1>1, <1>3 DEF Directory, Quiet
<1>5. \A s \in Sigs : Same(s) /\ Stays(s)
  BY <1>2 DEF Same, Stays, Quiet
<1>6. NamesFall
  BY DEF NamesFall, Quiet
<1> QED  BY <1>4, <1>5, <1>6

LEMMA GoesOnQuietly ==
    ASSUME Answers, Inv', Quiet, NEW t \in Threads, call[t].pc \notin {"fill", "check"},
           NEW r, Fits(t, r)', call' = [call EXCEPT ![t] = r],
           seek' = seek \/ Locks(t)
    PROVE  Answers'
<1>1. Directory /\ file' = file /\ call \in [Threads -> Call]
  BY DEF Answers, Quiet
<1>2. Directory' /\ NamesFall /\ \A s \in Sigs : Same(s) /\ Stays(s)
  BY <1>1, QuietKeeps
<1>3. ASSUME NEW u \in Threads \ {t}, call[u].pc \in {"fetch", "copy"}
      PROVE  Same(call[u].sig) /\ seek' = seek
  <2>1. seek' = seek
    BY <1>3, ThreadAssumption DEF Answers, Inv, OneAtWork, Locks
  <2>2. PICK c : c = call[u]
    OBVIOUS
  <2>3. Fits(u, c)
    BY <2>2 DEF Answers, CallInv
  <2>4. c.sig \in Sigs
    BY <1>3, <2>2, <2>3 DEF Fits
  <2> QED  BY <1>2, <2>1, <2>2, <2>4
<1> QED  BY <1>1, <1>2, <1>3, GoesOnAnswering

(***************************************************************************)
(* The calls that read.                                                    *)
(***************************************************************************)
\* What there is of a tag while its owner is not between the steps of a write.
Settled(s, n) ==
    \/ n = 0 /\ meaning[s] = Null
    \/ /\ n # 0 /\ InMemory(n, meaning[s]) /\ meaning[s] \in Payloads
       /\ ~slot[n].raw => TypeOf[meaning[s]] \in Supported[s]
       /\ Owner[s] = NoThread => ~slot[n].raw
    \/ n # 0 /\ OnDisk(n, meaning[s]) /\ ~slot[n].raw /\ Readable(s, meaning[s]) /\ Owner[s] = NoThread
    \/ n # 0 /\ meaning[s] = Null /\ slot[n].ptr = Null /\ slot[n].size = 0 /\ ~slot[n].raw

Reading(t, c, n) ==
    /\ c = call[t] /\ c \in Call /\ c.op \in {"ReadTag", "ReadRawTag"} /\ c.pc \notin {"fill", "check"}
    /\ c.sig \in Sigs /\ Owner[c.sig] \in {t, NoThread}
    /\ n = SearchTag(c.sig) /\ n \in 0..count /\ (n # 0 => n \in Position)
    /\ Settled(c.sig, n)

LEMMA OwnerIdle ==
    ASSUME Answers, NEW t \in Threads, call[t].pc \notin {"fill", "check"},
           NEW s \in Sigs, Owner[s] \in {t, NoThread}, NEW n \in {SearchTag(s)}
    PROVE  Settled(s, n)
<1>1. TagOK(s, n)
  BY DEF Answers, TagInv
<1>2. CASE n = 0
  BY <1>1, <1>2 DEF TagOK, Settled
<1>3. CASE n # 0 /\ Owner[s] = NoThread
  BY <1>1, <1>3 DEF TagOK, SharedTag, Settled, Readable
<1>4. CASE n # 0 /\ Owner[s] # NoThread
  <2>1. Owner[s] = t /\ OwnTag(s, n)
    BY <1>1, <1>4 DEF TagOK
  <2>2. ~WorksOn(Owner[s], "fill", s) /\ ~WorksOn(Owner[s], "check", s)
    BY <2>1 DEF WorksOn
  <2> QED  BY <1>4, <2>1, <2>2 DEF OwnTag, Settled
<1> QED  BY <1>2, <1>3, <1>4

LEMMA ReadKnows ==
    ASSUME Answers, NEW t \in Threads,
           call[t].pc \in {"read", "fetch", "return", "readraw", "copy", "again"}
    PROVE  \E c \in Call, n \in Nat : Reading(t, c, n) /\ ReadsAt(c, n)
<1>1. PICK c : c = call[t]
  OBVIOUS
<1>2. Fits(t, c) /\ c \in Call /\ Directory
  BY <1>1 DEF Answers, CallInv
<1>3. c.op \in {"ReadTag", "ReadRawTag"} /\ c.sig \in Sigs /\ Owner[c.sig] \in {t, NoThread}
      /\ \A n \in {SearchTag(c.sig)} : ReadsAt(c, n)
  BY <1>1, <1>2 DEF Fits, WritesAt
<1>4. PICK n : n = SearchTag(c.sig)
  OBVIOUS
<1>5. n \in 0..count /\ (n # 0 => n \in Position) /\ count \in Nat
  BY <1>2, <1>3, <1>4, Reach, TableAssumption DEF Directory, DirectoryOK
<1>6. Settled(c.sig, n)
  BY <1>1, <1>3, <1>4, OwnerIdle
<1> QED  BY <1>1, <1>2, <1>3, <1>4, <1>5, <1>6 DEF Reading

LEMMA ReadGoesOn ==
    ASSUME Answers, Inv', Quiet, NEW t \in Threads, NEW c \in Call, NEW n, Reading(t, c, n),
           NEW r \in Call, r.op = c.op, r.sig = c.sig, ReadsAt(r, n)',
           call' = [call EXCEPT ![t] = r], seek' = seek \/ Locks(t)
    PROVE  Answers'
<1>1. /\ c.op \in {"ReadTag", "ReadRawTag"} /\ c.sig \in Sigs /\ Owner[c.sig] \in {t, NoThread}
      /\ call[t].pc \notin {"fill", "check"} /\ n = SearchTag(c.sig)
  BY DEF Reading
<1>2. SearchTag(c.sig)' = n
  BY <1>1, QuietKeeps DEF Answers, Same
<1>3. PICK s : s = r.sig
  OBVIOUS
<1>4. SearchTag(s)' = n /\ s \in Sigs /\ Owner[s] \in {t, NoThread}
  BY <1>1, <1>2, <1>3
<1>5. Fits(t, r)'
  BY <1>1, <1>3, <1>4 DEF Fits
<1> QED  BY <1>1, <1>5, GoesOnQuietly

LEMMA ReplyIn ==
    ASSUME NEW c \in Call, NEW v \in Payloads \cup {Null}, NEW o \in Objects \cup {Null},
           NEW r, r = Over(c, v, o)
    PROVE  r \in Call /\ r.pc = "idle" /\ r.op = c.op /\ r.sig = c.sig /\ r.val = v /\ r.obj = o
<1>1. c.op \in {"none", "ReadTag", "ReadRawTag", "WriteTag", "WriteRawTag", "DeleteTag"} /\ c.sig \in Sigs \cup {NoSig}
  BY DEF Call
<1>2. r = [pc |-> "idle", op |-> c.op, sig |-> c.sig, val |-> v, pos |-> 0, n |-> 0, obj |-> o]
  BY DEF Over
<1> QED  BY <1>1, <1>2 DEF Call

LEMMA ReplyAnswers ==
    ASSUME Answers, Inv', Quiet, NEW t \in Threads, NEW c \in Call, NEW n, Reading(t, c, n),
           NEW v, v = meaning[c.sig] \/ (Faults /\ v = Null),
           NEW o, o # Null => Cooked(n) /\ slot[n].ptr = o,
           Replies(t, v, o), seek' = seek \/ Locks(t)
    PROVE  Answers'
<1>1. c.sig \in Sigs /\ c = call[t] /\ (n # 0 => n \in Position)
  BY DEF Reading
<1>2. v \in Payloads \cup {Null} /\ o \in Objects \cup {Null}
  <2>1. meaning[c.sig] \in Payloads \cup {Null}
    BY <1>1 DEF Answers, Directory
  <2>2. o # Null => o \in Objects \cup {Null}
    BY <1>1 DEF Answers, Directory, DirectoryOK, Cooked, Slot
  <2> QED  BY <2>1, <2>2
<1>3. PICK r : r = Over(c, v, o)
  OBVIOUS
<1>4. call' = [call EXCEPT ![t] = r]
  BY <1>1, <1>3 DEF Replies
<1>5. r \in Call /\ r.pc = "idle" /\ r.op = c.op /\ r.sig = c.sig /\ r.val = v /\ r.obj = o
  BY <1>2, <1>3, ReplyIn
<1>6. ReadsAt(r, n)'
  BY <1>5 DEF ReadsAt, Quiet, Cooked
<1> QED  BY <1>4, <1>5, <1>6, ReadGoesOn

\* cmsReadTag ends with what TagPtrs holds, or with nothing for a client.
LEMMA HandsAnswers ==
    ASSUME Answers, Inv', Quiet, NEW t \in Threads, NEW c \in Call, NEW n \in Nat, Reading(t, c, n), NEW o,
           \/ Cooked(n) /\ slot[n].ptr = o /\ (c.op = "ReadRawTag" => c.pos = n)
           \/ o = Null /\ c.op = "ReadTag" /\ (meaning[c.sig] = Null \/ Faults),
           Hands(t, o), seek' = seek \/ Locks(t)
    PROVE  Answers'
<1>1. /\ c.sig \in Sigs /\ c = call[t] /\ (n # 0 => n \in Position) /\ Settled(c.sig, n)
      /\ c.op \in {"ReadTag", "ReadRawTag"}
  BY DEF Reading
<1>2. Cooked(n) => heap[slot[n].ptr].val = meaning[c.sig] /\ slot[n].ptr # Null
  BY <1>1 DEF Settled, Cooked, InMemory, OnDisk
<1>3. CASE c.op = "ReadTag"
  <2> DEFINE v == IF o = Null THEN Null ELSE heap[o].val
  <2>1. Replies(t, v, o)
    BY <1>1, <1>3 DEF Hands
  <2>2. v = meaning[c.sig] \/ (Faults /\ v = Null)
    BY <1>2
  <2>3. o # Null => Cooked(n) /\ slot[n].ptr = o
    OBVIOUS
  <2> HIDE DEF v
  <2> QED  BY <2>1, <2>2, <2>3, ReplyAnswers
<1>4. CASE c.op = "ReadRawTag"
  <2>1. PICK r : r = [c EXCEPT !.pc = "again", !.obj = o]
    OBVIOUS
  <2>2. call' = [call EXCEPT ![t] = r]
    BY <1>1, <1>4, <2>1 DEF Hands
  <2>3. Cooked(n) /\ slot[n].ptr = o /\ c.pos = n
    BY <1>4
  <2>4. o \in Objects
    <3>1. n \in Position /\ slot[n] \in Slot /\ slot[n].ptr # Null
      BY <1>1, <2>3 DEF Answers, Directory, DirectoryOK, Cooked
    <3> QED  BY <2>3, <3>1 DEF Slot
  <2>5. r \in Call /\ r.pc = "again" /\ r.op = c.op /\ r.sig = c.sig /\ r.pos = c.pos /\ r.obj = o
    BY <2>1, <2>4 DEF Call
  <2>6. ReadsAt(r, n)'
    BY <1>4, <2>3, <2>5 DEF ReadsAt, Quiet, Cooked
  <2> QED  BY <2>2, <2>5, <2>6, ReadGoesOn
<1> QED  BY <1>1, <1>3, <1>4

\* cmsReadTag finds data to return, or a place in the file; it frees nothing, and
\* finds nothing only where there is nothing.
LEMMA SearchToReadAnswers ==
    ASSUME Answers, Inv', NEW t \in Threads, SearchToRead(t)
    PROVE  Answers'
<1>1. PICK c \in Call, n \in Nat : Reading(t, c, n) /\ ReadsAt(c, n)
  BY ReadKnows DEF SearchToRead, At
<1>2. /\ c.sig \in Sigs /\ c = call[t] /\ n = SearchTag(c.sig) /\ (n # 0 => n \in Position) /\ Settled(c.sig, n)
      /\ c.op \in {"ReadTag", "ReadRawTag"}
  BY <1>1 DEF Reading
<1>3. c.pc = "read" /\ Locks(t) /\ UNCHANGED <<count, meaning, file>>
  BY <1>2 DEF SearchToRead, At, fixed
<1>4. \/ c.op = "ReadTag" /\ (n # 0 => ~slot[n].raw)
      \/ c.op = "ReadRawTag" /\ Cooked(n) /\ c.pos = n
  BY <1>1, <1>3 DEF ReadsAt
<1> DEFINE held == n # 0 /\ slot[n].ptr # Null
           there == n # 0 /\ ~held /\ Fetchable(c.sig, n)
<1>5. \/ ~held /\ ~there /\ Hands(t, Null) /\ UNCHANGED <<slot, heap, seek>>
      \/ /\ held /\ call' = [call EXCEPT ![t].pc = "return", ![t].n = n] /\ UNCHANGED <<slot, heap, seek>>
      \/ held /\ ~Cached(c.sig, n)
      \/ /\ there /\ seek' = slot[n].off /\ call' = [call EXCEPT ![t].pc = "fetch", ![t].n = n]
         /\ UNCHANGED <<slot, heap>>
  <2>1. \E m \in {SearchTag(call[t].sig)} :
          LET s == call[t].sig
              held0 == m # 0 /\ slot[m].ptr # Null
              there0 == m # 0 /\ ~held0 /\ Fetchable(s, m)
          IN \/ ~held0 /\ ~there0 /\ Hands(t, Null) /\ UNCHANGED <<slot, heap, seek>>
             \/ /\ held0 /\ call' = [call EXCEPT ![t].pc = "return", ![t].n = m] /\ UNCHANGED <<slot, heap, seek>>
             \/ held0 /\ ~Cached(s, m)
             \/ /\ there0 /\ seek' = slot[m].off /\ call' = [call EXCEPT ![t].pc = "fetch", ![t].n = m]
                /\ UNCHANGED <<slot, heap>>
    BY DEF SearchToRead
  <2> QED  BY <1>2, <2>1
<1>6. CASE ~held /\ ~there /\ Hands(t, Null) /\ UNCHANGED <<slot, heap, seek>>
  <2>1. c.op = "ReadTag"
    BY <1>4, <1>6 DEF Cooked
  <2>2. n # 0 => ~OnDisk(n, meaning[c.sig]) \/ ~Readable(c.sig, meaning[c.sig])
    <3>1. SUFFICES ASSUME n # 0, OnDisk(n, meaning[c.sig]), Readable(c.sig, meaning[c.sig]) PROVE FALSE
      OBVIOUS
    <3>2. slot[n].off \in DOMAIN file.block /\ file.block[slot[n].off].val = meaning[c.sig]
          /\ slot[n].size >= TypeBaseWords
      BY <3>1 DEF OnDisk
    <3>3. file # NoFile
      BY <3>2 DEF NoFile
    <3>4. Fetchable(c.sig, n)
      BY <3>1, <3>2, <3>3, PayloadAssumption DEF Fetchable, IsBlock, TypeAllowed, Readable
    <3> QED  BY <1>6, <3>1, <3>4
  <2>3. meaning[c.sig] = Null
    BY <1>2, <1>6, <2>2 DEF Settled, InMemory
  <2>4. Quiet
    BY <1>3, <1>6 DEF Quiet
  <2> QED  BY <1>1, <1>6, <2>1, <2>3, <2>4, HandsAnswers
<1>7. CASE held /\ call' = [call EXCEPT ![t].pc = "return", ![t].n = n] /\ UNCHANGED <<slot, heap, seek>>
  <2>1. PICK r : r = [c EXCEPT !.pc = "return", !.n = n]
    OBVIOUS
  <2>2. call' = [call EXCEPT ![t] = r]
    BY <1>2, <1>7, <2>1
  <2>3. r \in Call /\ r.pc = "return" /\ r.op = c.op /\ r.sig = c.sig /\ r.pos = c.pos /\ r.n = n
    BY <2>1 DEF Call
  <2>4. Cooked(n) /\ (c.op = "ReadRawTag" => c.pos = n)
    BY <1>4, <1>7 DEF Cooked
  <2>5. Quiet
    BY <1>3, <1>7 DEF Quiet
  <2>6. ReadsAt(r, n)'
    BY <2>3, <2>4, <2>5 DEF ReadsAt, Quiet, Cooked
  <2> QED  BY <1>1, <1>7, <2>2, <2>3, <2>5, <2>6, ReadGoesOn
<1>8. CASE held /\ ~Cached(c.sig, n)
  <2>1. ~slot[n].raw
    BY <1>4, <1>8 DEF Cooked
  <2>2. InMemory(n, meaning[c.sig]) /\ meaning[c.sig] \in Payloads /\ TypeOf[meaning[c.sig]] \in Supported[c.sig]
    BY <1>2, <1>8, <2>1 DEF Settled, OnDisk
  <2>3. slot[n].handler = TypeOf[meaning[c.sig]] /\ slot[n].handler # Null
    BY <2>1, <2>2, PayloadAssumption DEF InMemory
  <2>4. Cached(c.sig, n)
    BY <2>1, <2>2, <2>3 DEF Cached, TypeAllowed
  <2> QED  BY <1>8, <2>4
<1>9. CASE /\ there /\ seek' = slot[n].off /\ call' = [call EXCEPT ![t].pc = "fetch", ![t].n = n]
           /\ UNCHANGED <<slot, heap>>
  <2>1. PICK r : r = [c EXCEPT !.pc = "fetch", !.n = n]
    OBVIOUS
  <2>2. call' = [call EXCEPT ![t] = r]
    BY <1>2, <1>9, <2>1
  <2>3. r \in Call /\ r.pc = "fetch" /\ r.op = c.op /\ r.sig = c.sig /\ r.n = n
    BY <2>1 DEF Call
  <2>4. c.op = "ReadTag" /\ n # 0 /\ slot[n].ptr = Null /\ ~(slot[n].size = 0)
    BY <1>4, <1>9 DEF Cooked, Fetchable, TypeBaseWords
  <2>5. OnDisk(n, meaning[c.sig]) /\ Owner[c.sig] = NoThread
    BY <1>2, <2>4 DEF Settled, InMemory
  <2>6. Quiet
    BY <1>3, <1>9 DEF Quiet
  <2>7. ReadsAt(r, n)'
    BY <1>9, <2>3, <2>4, <2>5, <2>6 DEF ReadsAt, Quiet, OnDisk, InFile
  <2> QED  BY <1>1, <1>3, <2>2, <2>3, <2>6, <2>7, ReadGoesOn
<1> QED  BY <1>5, <1>6, <1>7, <1>8, <1>9

LEMMA ReturnTagAnswers ==
    ASSUME Answers, Inv', NEW t \in Threads, ReturnTag(t)
    PROVE  Answers'
<1>1. PICK c \in Call, n \in Nat : Reading(t, c, n) /\ ReadsAt(c, n)
  BY ReadKnows DEF ReturnTag, At
<1>2. c = call[t] /\ c.pc = "return" /\ Quiet /\ seek' = seek /\ Hands(t, slot[c.n].ptr)
  BY <1>1 DEF Reading, ReturnTag, At, Quiet, fixed, directory
<1>3. Cooked(n) /\ c.n = n /\ (c.op = "ReadRawTag" => c.pos = n)
  BY <1>1, <1>2 DEF ReadsAt
<1>4. PICK o : o = slot[c.n].ptr
  OBVIOUS
<1> QED  BY <1>1, <1>2, <1>3, <1>4, HandsAnswers

\* cmsReadRawTag copies raw data, asks cmsReadTag for cooked data, or finds a place in the file.
LEMMA SearchToReadRawAnswers ==
    ASSUME Answers, Inv', NEW t \in Threads, SearchToReadRaw(t)
    PROVE  Answers'
<1>1. PICK c \in Call, n \in Nat : Reading(t, c, n) /\ ReadsAt(c, n)
  BY ReadKnows DEF SearchToReadRaw, At
<1>2. /\ c.sig \in Sigs /\ c = call[t] /\ n = SearchTag(c.sig) /\ (n # 0 => n \in Position) /\ Settled(c.sig, n)
  BY <1>1 DEF Reading
<1>3. c.pc = "readraw" /\ c.op = "ReadRawTag" /\ Locks(t) /\ Quiet
  <2>1. c.pc = "readraw" /\ Locks(t) /\ Quiet
    BY <1>2 DEF SearchToReadRaw, At, fixed, directory, Quiet
  <2> QED  BY <1>1, <2>1 DEF ReadsAt
<1> DEFINE held == n # 0 /\ slot[n].ptr # Null
<1>4. \/ n = 0 /\ Replies(t, Null, Null)
      \/ held /\ slot[n].raw /\ Replies(t, heap[slot[n].ptr].val, Null)
      \/ held /\ ~slot[n].raw /\ call' = [call EXCEPT ![t].pc = "read", ![t].pos = n]
      \/ n # 0 /\ ~held /\ seek' = slot[n].off /\ call' = [call EXCEPT ![t].pc = "copy", ![t].pos = n]
  BY <1>2 DEF SearchToReadRaw, GivesUp
<1>5. CASE n = 0 /\ Replies(t, Null, Null)
  <2>1. meaning[c.sig] = Null
    BY <1>2, <1>5 DEF Settled
  <2> QED  BY <1>1, <1>3, <1>5, <2>1, ReplyAnswers
<1>6. CASE held /\ slot[n].raw /\ Replies(t, heap[slot[n].ptr].val, Null)
  <2>1. heap[slot[n].ptr].val = meaning[c.sig]
    BY <1>2, <1>6 DEF Settled, InMemory, OnDisk
  <2> QED  BY <1>1, <1>3, <1>6, <2>1, ReplyAnswers
<1>7. CASE held /\ ~slot[n].raw /\ call' = [call EXCEPT ![t].pc = "read", ![t].pos = n]
  <2>1. PICK r : r = [c EXCEPT !.pc = "read", !.pos = n]
    OBVIOUS
  <2>2. call' = [call EXCEPT ![t] = r]
    BY <1>2, <1>7, <2>1
  <2>3. r \in Call /\ r.pc = "read" /\ r.op = c.op /\ r.sig = c.sig /\ r.pos = n
    BY <2>1 DEF Call
  <2>4. ReadsAt(r, n)'
    BY <1>3, <1>7, <2>3 DEF ReadsAt, Quiet, Cooked
  <2> QED  BY <1>1, <1>3, <2>2, <2>3, <2>4, ReadGoesOn
<1>8. CASE n # 0 /\ ~held /\ seek' = slot[n].off /\ call' = [call EXCEPT ![t].pc = "copy", ![t].pos = n]
  <2>1. PICK r : r = [c EXCEPT !.pc = "copy", !.pos = n]
    OBVIOUS
  <2>2. call' = [call EXCEPT ![t] = r]
    BY <1>2, <1>8, <2>1
  <2>3. r \in Call /\ r.pc = "copy" /\ r.op = c.op /\ r.sig = c.sig /\ r.pos = n
    BY <2>1 DEF Call
  <2>4. ReadsAt(r, n)'
    BY <1>3, <1>8, <2>3 DEF ReadsAt, Quiet
  <2> QED  BY <1>1, <1>3, <2>2, <2>3, <2>4, ReadGoesOn
<1> QED  BY <1>4, <1>5, <1>6, <1>7, <1>8

LEMMA CopyAnswers ==
    ASSUME Answers, Inv', NEW t \in Threads, Copy(t)
    PROVE  Answers'
<1>1. PICK c \in Call, n \in Nat : Reading(t, c, n) /\ ReadsAt(c, n)
  BY ReadKnows DEF Copy, At
<1>2. c = call[t] /\ c.pc = "copy" /\ Quiet /\ seek' = seek /\ Settled(c.sig, n)
  BY <1>1 DEF Reading, Copy, At, Quiet, fixed, directory
<1>3. n # 0 /\ c.pos = n /\ slot[n].ptr = Null /\ seek = slot[n].off
  BY <1>1, <1>2 DEF ReadsAt
<1>4. PICK off, size, v : /\ off = slot[n].off /\ size = slot[n].size
                          /\ v = IF InFile(off, size) THEN BytesAt(off, size) ELSE Null
  OBVIOUS
<1>5. Replies(t, v, Null)
  BY <1>2, <1>3, <1>4 DEF Copy
<1>6. v = meaning[c.sig]
  <2>1. CASE OnDisk(n, meaning[c.sig]) /\ Readable(c.sig, meaning[c.sig])
    <3>1. /\ off \in DOMAIN file.block /\ file.block[off] = [val |-> meaning[c.sig], size |-> size]
          /\ InFile(off, size)
      BY <1>4, <2>1 DEF OnDisk
    <3>2. file.block[off].val = meaning[c.sig] /\ file.block[off].size = size /\ meaning[c.sig] # Garbage
      BY <2>1, <3>1, PayloadAssumption DEF Readable
    <3>3. BytesAt(off, size) = meaning[c.sig]
      BY <3>1, <3>2 DEF BytesAt, IsBlock
    <3> QED  BY <1>4, <3>1, <3>3
  <2>2. CASE meaning[c.sig] = Null /\ slot[n].size = 0
    <3>1. ~InFile(off, size)
      BY <1>4, <2>2 DEF InFile
    <3> QED  BY <1>4, <2>2, <3>1
  <2> QED  BY <1>2, <1>3, <2>1, <2>2 DEF Settled, InMemory
<1> QED  BY <1>1, <1>2, <1>5, <1>6, ReplyAnswers

LEMMA SerialiseAnswers ==
    ASSUME Answers, Inv', NEW t \in Threads, Serialise(t)
    PROVE  Answers'
<1>1. PICK c \in Call, n \in Nat : Reading(t, c, n) /\ ReadsAt(c, n)
  BY ReadKnows DEF Serialise, At
<1>2. /\ c = call[t] /\ c.pc = "again" /\ Quiet /\ seek' = seek /\ Settled(c.sig, n) /\ c.sig \in Sigs
  BY <1>1 DEF Reading, Serialise, At, Quiet, fixed, directory
<1>3. n # 0 /\ Cooked(n) /\ c.pos = n /\ c.obj = slot[n].ptr
  BY <1>1, <1>2 DEF ReadsAt, Cooked
<1>4. PICK v : v = meaning[c.sig]
  OBVIOUS
<1>5. /\ v \in Payloads /\ TypeOf[v] \in Supported[c.sig] /\ slot[n].handler = TypeOf[v]
      /\ c.obj # Null /\ heap[c.obj].val = v
  BY <1>2, <1>3, <1>4 DEF Settled, Cooked, InMemory, OnDisk
<1>6. Replies(t, v, Null)
  <2>1. v # Null /\ TypeOf[v] # Null
    BY <1>5, PayloadAssumption
  <2> QED  BY <1>2, <1>3, <1>5, <2>1 DEF Serialise
<1> QED  BY <1>1, <1>2, <1>4, <1>6, ReplyAnswers

\* An entry keeps its name and link, and every tag is found where it was.
LEMMA NamesKeep ==
    ASSUME Directory, DirectoryOK', SameNames, NEW i \in Position, HeapStep(i),
           \A j \in Position : j # i => slot'[j] = slot[j], meaning' = meaning
    PROVE  Directory' /\ NamesFall /\ \A s \in Sigs : SearchTag(s)' = SearchTag(s)
<1>1. /\ DirectoryOK /\ UniqueNames /\ LinksEnd
      /\ count' = count /\ \A j \in Position : slot'[j].name = slot[j].name /\ slot'[j].linked = slot[j].linked
  BY DEF Directory, SameNames
<1>2. UniqueNames'
  BY <1>1 DEF UniqueNames
<1>3. LinksEnd'
  <2>1. SUFFICES ASSUME NEW s \in Sigs PROVE \E e \in LinkPath(s)' : Hop'[e] = NoSig
    BY DEF LinksEnd
  <2>2. PICK e \in LinkPath(s) : Hop[e] = NoSig
    BY <1>1 DEF LinksEnd
  <2>3. e \in Sigs /\ LinkPath(s)' = LinkPath(s)
    BY <1>1, <2>2, PathLeast, SameReached
  <2> QED  BY <1>1, <2>2, <2>3, SameFound
<1>4. Directory'
  <2>1. heap' \in [Objects -> Contents \cup {Unused}] /\ meaning' \in [Sigs -> Payloads \cup {Null}]
    BY DEF HeapStep, Directory
  <2>2. \A j \in Position : slot'[j].linked # NoSig =>
         /\ slot'[j].name \in Sigs /\ Owner[slot'[j].name] = NoThread
         /\ slot'[j].linked \in Sigs /\ Owner[slot'[j].linked] = NoThread
    BY <1>1 DEF Directory
  <2>3. /\ \A j \in Position : slot'[j].ptr # Null => heap'[slot'[j].ptr] # Unused
        /\ \A j, k \in Position : slot'[j].ptr = slot'[k].ptr => j = k \/ slot'[j].ptr = Null
    BY Pointers
  <2> QED  BY <1>2, <1>3, <2>1, <2>2, <2>3 DEF Directory
<1>5. \A s \in Sigs : SearchTag(s)' = SearchTag(s)
  BY <1>1, SameReached
<1> QED  BY <1>1, <1>4, <1>5 DEF NamesFall

\* cmsReadTag reads what the file holds at the tag's offset: nobody has moved the
\* IOhandler in between, and nobody has written to the entry.
LEMMA FetchAnswers ==
    ASSUME Answers, Inv', NEW t \in Threads, Fetch(t)
    PROVE  Answers'
<1>1. PICK c \in Call, n \in Nat : Reading(t, c, n) /\ ReadsAt(c, n)
  BY ReadKnows DEF Fetch, At
<1>2. /\ c = call[t] /\ c.pc = "fetch" /\ Settled(c.sig, n) /\ c.sig \in Sigs /\ n = SearchTag(c.sig)
      /\ count' = count /\ meaning' = meaning /\ file' = file /\ seek' = seek
      /\ Directory /\ DirectoryOK
  BY <1>1 DEF Reading, Fetch, At, fixed, Answers, Directory
<1>3. /\ n # 0 /\ n \in Position /\ c.n = n /\ c.op = "ReadTag" /\ Owner[c.sig] = NoThread
      /\ OnDisk(n, meaning[c.sig]) /\ seek = slot[n].off
  BY <1>1, <1>2 DEF ReadsAt, Reading
<1>4. PICK v : v = meaning[c.sig]
  OBVIOUS
<1>5. /\ file.block[seek].val = v /\ Readable(c.sig, v) /\ slot[n].ptr = Null /\ ~slot[n].raw /\ slot[n] \in Slot
      /\ v \in Payloads /\ v \notin Malformed /\ v # Null /\ TypeOf[v] \in Types
  <2>1. file.block[seek].val = v /\ slot[n].ptr = Null
    BY <1>3, <1>4 DEF OnDisk
  <2>2. slot[n].size # 0 /\ slot[n].size \in Nat /\ slot[n] \in Slot
    BY <1>2, <1>3 DEF OnDisk, DirectoryOK, TypeBaseWords, Slot
  <2> QED  BY <1>2, <1>3, <1>4, <2>1, <2>2, PayloadAssumption DEF Settled, InMemory, Readable
<1> DEFINE handled == [slot[n] EXCEPT !.handler = TypeOf[v]]
<1>6. \/ \E o \in Free(heap) : /\ slot' = [slot EXCEPT ![n] = [handled EXCEPT !.ptr = o]]
                               /\ heap' = [heap EXCEPT ![o] = [val |-> v, shape |-> "cooked"]]
                               /\ Goes(t, "return")
      \/ Faults /\ slot' = [slot EXCEPT ![n] = handled] /\ heap' = heap /\ Hands(t, Null)
  BY <1>2, <1>3, <1>5 DEF Fetch
<1>7. \A r \in Call : r.op = "ReadTag" /\ r.sig = c.sig /\ (\A m \in {SearchTag(c.sig)'} : ReadsAt(r, m)') => Fits(t, r)'
  BY <1>2, <1>3 DEF Fits
<1>8. ASSUME SearchTag(c.sig)' = n, NEW r \in Call, r.op = "ReadTag", r.sig = c.sig, ReadsAt(r, n)'
      PROVE  Fits(t, r)'
  BY <1>7, <1>8
<1>9. ASSUME NEW e \in Slot, e.name = slot[n].name, e.linked = slot[n].linked, e.raw = slot[n].raw,
             slot' = [slot EXCEPT ![n] = e], HeapStep(n)
      PROVE  /\ slot'[n] = e /\ \A j \in Position : j # n => slot'[j] = slot[j]
             /\ Directory' /\ NamesFall /\ \A s \in Sigs : SearchTag(s)' = SearchTag(s)
  <2>1. slot' \in [Position -> Slot] /\ slot'[n] = e /\ \A j \in Position : j # n => slot'[j] = slot[j]
    BY <1>2, <1>3, <1>9 DEF DirectoryOK
  <2>2. DirectoryOK' /\ SameNames
    BY <1>2, <1>9, <2>1 DEF DirectoryOK, SameNames
  <2> QED  BY <1>2, <1>3, <1>9, <2>1, <2>2, NamesKeep
\* The other calls, and all the tags.
<1>10. ASSUME NEW e \in Slot, slot'[n] = e, e.raw = slot[n].raw, \A j \in Position : j # n => slot'[j] = slot[j],
              Directory', NamesFall, \A s \in Sigs : SearchTag(s)' = SearchTag(s), HeapStep(n),
              InMemory(n, v)' \/ OnDisk(n, v)', NEW r, Fits(t, r)', call' = [call EXCEPT ![t] = r]
       PROVE  Answers'
  <2>1. ASSUME NEW u \in Sigs PROVE Stays(u)
    <3>1. \A m \in {SearchTag(u)} : m # 0 =>
             slot'[m].raw = slot[m].raw /\ (slot[m].ptr # Null => slot'[m].ptr = slot[m].ptr)
      BY <1>2, <1>5, <1>10, Reach
    <3> QED  BY <1>2, <1>10, <3>1 DEF Stays
  <2>2. ASSUME NEW u \in Threads \ {t} PROVE call[u].pc \notin {"fetch", "copy", "fill"}
    BY <1>2, <2>2 DEF Answers, Inv, OneAtWork
  <2>3. ASSUME NEW u \in Sigs
        PROVE  Same(u) \/ \A m \in {SearchTag(u)'} : TagOK(u, m)'
    <3>1. PICK m : m = SearchTag(u)
      OBVIOUS
    <3>2. SearchTag(u)' = m /\ (m # 0 => m \in Position) /\ meaning'[u] = meaning[u]
      BY <1>2, <1>10, <3>1, Reach
    <3>3. CASE m # n
      BY <1>10, <3>1, <3>2, <3>3 DEF Same, HeapStep
    <3>4. CASE m = n
      <4>1. Owner[u] = NoThread
        <5>1. Owner[slot[n].name] = NoThread
          BY <1>2, <1>3, Reach
        <5>2. ASSUME Owner[u] # NoThread PROVE slot[n].name = u
          <6>1. n = SearchOneTag(u)
            BY <1>2, <3>1, <3>4, <5>2, Reach
          <6> QED  BY <1>2, <1>3, <6>1, Finds
        <5> QED  BY <5>1, <5>2
      <4>2. SharedTag(u, n)
        BY <1>3, <3>1, <3>4, <4>1 DEF Answers, TagInv, TagOK
      <4>3. meaning[u] = v /\ Readable(u, v) /\ ~slot[n].raw
        BY <1>3, <1>5, <4>2 DEF SharedTag, InMemory, OnDisk
      <4>4. SharedTag(u, n)'
        BY <1>10, <3>2, <4>3 DEF SharedTag, Readable
      <4>5. TagOK(u, n)'
        BY <1>3, <4>1, <4>4 DEF TagOK
      <4> QED  BY <3>2, <3>4, <4>5
    <3> QED  BY <3>3, <3>4
  <2>4. call[t].pc \notin {"fill", "check"}
    BY <1>2
  <2> QED  BY <1>2, <1>10, <2>1, <2>2, <2>3, <2>4, GoesOnAnswering
<1>11. ASSUME NEW o \in Free(heap), slot' = [slot EXCEPT ![n] = [handled EXCEPT !.ptr = o]],
              heap' = [heap EXCEPT ![o] = [val |-> v, shape |-> "cooked"]], Goes(t, "return")
       PROVE  Answers'
  <2>1. PICK e : e = [handled EXCEPT !.ptr = o]
    OBVIOUS
  <2>2. o \in Objects /\ o # Null
    BY HeapAssumption DEF Free
  <2>3. /\ e \in Slot /\ e.name = slot[n].name /\ e.linked = slot[n].linked /\ e.raw = slot[n].raw
        /\ e.ptr = o /\ e.handler = TypeOf[v]
    BY <1>5, <2>1, <2>2 DEF Slot
  <2>4. PICK d : d = [val |-> v, shape |-> "cooked"]
    OBVIOUS
  <2>5. d \in Contents
    BY <1>5, <2>4 DEF Contents, Shapes
  <2>6. slot'[n] = e
    BY <1>2, <1>3, <1>11, <2>1 DEF DirectoryOK
  <2>7. HeapStep(n) /\ heap'[o] = d
    BY <1>2, <1>3, <1>11, <2>3, <2>4, <2>5, <2>6, Fills
  <2>8. /\ \A j \in Position : j # n => slot'[j] = slot[j]
        /\ Directory' /\ NamesFall /\ \A s \in Sigs : SearchTag(s)' = SearchTag(s)
    BY <1>9, <1>11, <2>1, <2>3, <2>7
  <2>9. InMemory(n, v)'
    BY <1>5, <2>2, <2>3, <2>4, <2>6, <2>7 DEF InMemory
  <2>10. PICK r : r = [c EXCEPT !.pc = "return"]
    OBVIOUS
  <2>11. call' = [call EXCEPT ![t] = r]
    BY <1>2, <1>11, <2>10 DEF Goes
  <2>12. r \in Call /\ r.pc = "return" /\ r.op = c.op /\ r.sig = c.sig /\ r.n = c.n
    BY <2>10 DEF Call
  <2>13. ReadsAt(r, n)'
    BY <1>3, <1>5, <2>2, <2>3, <2>6, <2>12 DEF ReadsAt, Cooked
  <2>14. Fits(t, r)'
    BY <1>2, <1>3, <1>8, <2>8, <2>12, <2>13
  <2> QED  BY <1>10, <2>3, <2>6, <2>7, <2>8, <2>9, <2>11, <2>14
<1>12. ASSUME Faults, slot' = [slot EXCEPT ![n] = handled], heap' = heap, Hands(t, Null)
       PROVE  Answers'
  <2>1. PICK e : e = handled
    OBVIOUS
  <2>2. /\ e \in Slot /\ e.name = slot[n].name /\ e.linked = slot[n].linked /\ e.raw = slot[n].raw
        /\ e.ptr = Null /\ e.off = slot[n].off /\ e.size = slot[n].size
    BY <1>5, <2>1 DEF Slot
  <2>3. slot'[n] = e
    BY <1>2, <1>3, <1>12, <2>1 DEF DirectoryOK
  <2>4. HeapStep(n)
    BY <1>2, <1>3, <1>12, <2>2, <2>3, Frees
  <2>5. /\ \A j \in Position : j # n => slot'[j] = slot[j]
        /\ Directory' /\ NamesFall /\ \A s \in Sigs : SearchTag(s)' = SearchTag(s)
    BY <1>9, <1>12, <2>1, <2>2, <2>4
  <2>6. OnDisk(n, v)'
    BY <1>2, <1>3, <1>4, <2>2, <2>3 DEF OnDisk, InFile
  <2>7. PICK r : r = Over(c, Null, Null)
    OBVIOUS
  <2>8. call' = [call EXCEPT ![t] = r]
    BY <1>2, <1>3, <1>12, <2>7 DEF Hands, Replies
  <2>9. r \in Call /\ r.pc = "idle" /\ r.op = c.op /\ r.sig = c.sig /\ r.val = Null /\ r.obj = Null
    BY <2>7, ReplyIn
  <2>10. ReadsAt(r, n)'
    BY <1>12, <2>9 DEF ReadsAt
  <2>11. Fits(t, r)'
    BY <1>2, <1>3, <1>8, <2>5, <2>9, <2>10
  <2> QED  BY <1>10, <2>2, <2>3, <2>4, <2>5, <2>6, <2>8, <2>11
<1> QED  BY <1>6, <1>11, <1>12

(***************************************************************************)
(* The calls that write, and the beginning of calls.                       *)
(***************************************************************************)
LEMMA IdleFits ==
    ASSUME NEW t
    PROVE  \E r : r = Idle /\ Fits(t, r)'
<1>1. Idle \in Call /\ Idle.pc = "idle" /\ Idle.op = "none" /\ Idle.sig = NoSig
  BY DEF Idle, Call
<1>2. PICK r : r = Idle
  OBVIOUS
<1>3. r \in Call /\ r.pc = "idle" /\ r.op = "none" /\ r.sig = NoSig
  BY <1>1, <1>2
<1>4. Fits(t, r)'
  BY <1>3 DEF Fits
<1> QED  BY <1>2, <1>4

LEMMA WriteKnows ==
    ASSUME Answers, NEW t \in Threads, call[t].pc \in {"write", "fill", "check", "delete"}
    PROVE  \E c \in Call, n \in Nat, s \in Sigs :
             /\ c = call[t] /\ c.sig = s /\ Owner[s] = t /\ Owner[s] # NoThread
             /\ n = SearchTag(s) /\ n = SearchOneTag(s) /\ n \in 0..count /\ (n # 0 => n \in Position)
             /\ c.pc # "delete" => c.op \in {"WriteTag", "WriteRawTag"} /\ WritesAt(c, n)
<1>1. PICK c : c = call[t]
  OBVIOUS
<1>2. Fits(t, c) /\ c \in Call /\ Directory
  BY <1>1 DEF Answers, CallInv
<1>3. /\ c.sig \in Sigs /\ Owner[c.sig] = t
      /\ c.pc # "delete" => c.op \in {"WriteTag", "WriteRawTag"} /\ \A n \in {SearchTag(c.sig)} : WritesAt(c, n)
  BY <1>1, <1>2 DEF Fits, ReadsAt, WritesAt
<1>4. PICK s : s = c.sig
  OBVIOUS
<1>5. PICK n : n = SearchTag(s)
  OBVIOUS
<1>6. Owner[s] # NoThread
  BY <1>3, <1>4, ThreadAssumption
<1>7. n = SearchOneTag(s) /\ n \in 0..count /\ (n # 0 => n \in Position) /\ count \in Nat
  BY <1>2, <1>3, <1>4, <1>5, <1>6, Reach, TableAssumption DEF Directory, DirectoryOK
<1>8. c.pc # "delete" => c.op \in {"WriteTag", "WriteRawTag"} /\ WritesAt(c, n)
  BY <1>3, <1>4, <1>5
<1>9. c.sig = s /\ Owner[s] = t /\ s \in Sigs /\ n \in Nat
  BY <1>3, <1>4, <1>7
<1> QED  BY <1>1, <1>2, <1>5, <1>6, <1>7, <1>8, <1>9

\* A write is about a tag that no other thread has to do with.
LEMMA WriteGoesOn ==
    ASSUME Answers, Inv', Directory', NEW t \in Threads, NEW s \in Sigs, Owner[s] = t,
           \A u \in Sigs \ {s} : Same(u), file' = file, seek' = seek,
           NEW r, Fits(t, r)', call' = [call EXCEPT ![t] = r],
           NamesFall \/ \A u \in Threads \ {t} : call[u].pc # "fill",
           call[t].sig = s,
           \A n \in {SearchTag(s)'} : TagOK(s, n)'
    PROVE  Answers'
<1>1. ASSUME NEW u \in Threads \ {t} PROVE call[u].sig \in Sigs => call[u].sig # s
  <2>1. PICK c : c = call[u]
    OBVIOUS
  <2>2. Fits(u, c)
    BY <2>1 DEF Answers, CallInv
  <2>3. c.sig \in Sigs => Owner[c.sig] \in {u, NoThread}
    BY <2>2, SigsAssumption DEF Fits
  <2> QED  BY <2>1, <2>3, ThreadAssumption
<1>2. \A u \in Sigs \ {s} : Stays(u)
  BY DEF Same, Stays
<1>3. ASSUME NEW u \in Threads \ {t}, call[u].pc \in {"fetch", "copy"} PROVE Same(call[u].sig)
  <2>1. PICK c : c = call[u]
    OBVIOUS
  <2>2. Fits(u, c)
    BY <2>1 DEF Answers, CallInv
  <2>3. c.sig \in Sigs
    BY <1>3, <2>1, <2>2 DEF Fits
  <2> QED  BY <1>1, <2>1, <2>3
<1> QED  BY <1>1, <1>2, <1>3, GoesOnAnswering

LEMMA DeletedKeeps ==
    ASSUME DirectoryOK, NEW i \in Position
    PROVE  Deleted(i) \in Slot /\ Deleted(i).name = slot[i].name /\ Deleted(i).linked = slot[i].linked
<1>1. slot[i] \in Slot
  BY DEF DirectoryOK
<1>2. CASE Deletable(i)
  BY <1>1, <1>2 DEF Deleted, Slot
<1>3. CASE ~Deletable(i)
  BY <1>1, <1>3 DEF Deleted
<1> QED  BY <1>2, <1>3

\* Where a thread's own tag is afterwards.
LEMMA OwnFound ==
    ASSUME Directory', NEW s \in Sigs, Owner[s] # NoThread
    PROVE  /\ (\A j \in Position : slot'[j].name # s) => SearchTag(s)' = 0
           /\ \A i \in 1..count' : slot'[i].name = s /\ (\A j \in Position : j # i => slot'[j].name # s)
                                     => SearchTag(s)' = i
<1>1. PICK n : n = SearchTag(s)'
  OBVIOUS
<1>2. n = SearchOneTag(s)' /\ n \in 0..count' /\ (n # 0 => n \in Position) /\ DirectoryOK'
  BY <1>1, ReachNext DEF Directory
<1>3. (n # 0 => slot'[n].name = s) /\ \A i \in 1..count' : slot'[i].name = s => n # 0
  BY <1>2, FindsNext
<1> QED  BY <1>1, <1>2, <1>3

LEMMA NewTagAnswers ==
    ASSUME Answers, Inv', NEW t \in Threads, NewTag(t)
    PROVE  Answers'
<1>1. PICK c \in Call, n \in Nat, s \in Sigs :
             /\ c = call[t] /\ c.sig = s /\ Owner[s] = t /\ Owner[s] # NoThread
             /\ n = SearchTag(s) /\ n = SearchOneTag(s) /\ n \in 0..count /\ (n # 0 => n \in Position)
             /\ c.pc # "delete" => c.op \in {"WriteTag", "WriteRawTag"} /\ WritesAt(c, n)
  BY WriteKnows DEF NewTag, At
<1>2. c.pc = "write" /\ Locks(t) /\ file' = file /\ seek' = seek /\ Directory /\ DirectoryOK /\ UniqueNames
  BY <1>1 DEF NewTag, At, fixed, Answers, Directory
<1>3. PICK i : i = NewPos(s)
  OBVIOUS
<1>4. \/ i = 0 /\ Ends(t) /\ UNCHANGED <<directory, meaning>>
      \/ /\ i # 0
         /\ Place(i, Deleted(i)) /\ heap' = HeapAfterDelete(i)
         /\ call' = [call EXCEPT ![t].pc = "fill", ![t].pos = i]
         /\ meaning' = [meaning EXCEPT ![s] = Null]
  BY <1>1, <1>3 DEF NewTag
<1>5. CASE i = 0 /\ Ends(t) /\ UNCHANGED <<directory, meaning>>
  <2>1. Quiet /\ call[t].pc \notin {"fill", "check"}
    BY <1>1, <1>2, <1>5 DEF Quiet, directory
  <2>2. PICK r : r = Idle /\ Fits(t, r)'
    BY IdleFits
  <2> QED  BY <1>2, <1>5, <2>1, <2>2, GoesOnQuietly DEF Ends
<1>6. CASE /\ i # 0
           /\ Place(i, Deleted(i)) /\ heap' = HeapAfterDelete(i)
           /\ call' = [call EXCEPT ![t].pc = "fill", ![t].pos = i]
           /\ meaning' = [meaning EXCEPT ![s] = Null]
  <2>1. /\ i \in Position /\ i <= count + 1 /\ slot[i].name \in {s, NoSig}
        /\ \A j \in Position : j # i => slot[j].name # s
    BY <1>2, <1>3, <1>6, StoredWhere
  <2>2. PICK e : e = Deleted(i)
    OBVIOUS
  <2>3. e \in Slot /\ e.name = slot[i].name /\ e.linked = slot[i].linked
    BY <1>2, <2>1, <2>2, DeletedKeeps
  <2>4. slot[i].linked = NoSig
    BY <1>1, <1>2, <2>1, SigsAssumption DEF Directory
  <2>5. /\ slot' = [slot EXCEPT ![i] = e] /\ count' = IF i > count THEN i ELSE count
        /\ slot'[i] = e /\ slot' \in [Position -> Slot] /\ \A j \in Position : j # i => slot'[j] = slot[j]
    BY <1>2, <1>6, <2>1, <2>2, <2>3 DEF Place, DirectoryOK
  <2>6. DirectoryOK' /\ i \in 1..count'
    BY <1>2, <2>1, <2>5, TableAssumption DEF DirectoryOK, Position
  <2>7. EntryChanges(s, i)
    BY <2>1, <2>3, <2>5 DEF EntryChanges
  <2>8. HeapStep(i)
    BY <1>2, <1>6, <2>1, <2>2, <2>5, Frees
  <2>9. /\ meaning' \in [Sigs -> Payloads \cup {Null}] /\ meaning'[s] = Null
        /\ \A u \in Sigs \ {s} : meaning'[u] = meaning[u]
    BY <1>2, <1>6 DEF Directory
  <2>10. Directory' /\ \A u \in Sigs \ {s} : Same(u)
    BY <1>1, <1>2, <2>1, <2>3, <2>4, <2>5, <2>6, <2>7, <2>8, <2>9, Stores
  <2>11. PICK r : r = [c EXCEPT !.pc = "fill", !.pos = i]
    OBVIOUS
  <2>12. call' = [call EXCEPT ![t] = r]
    BY <1>1, <1>6, <2>11
  <2>13. i \in Nat
    BY <2>1 DEF Position
  <2>14. r \in Call /\ r.pc = "fill" /\ r.op = c.op /\ r.sig = s /\ r.val = c.val /\ r.pos = i
    BY <1>1, <2>11, <2>13 DEF Call
  <2>15. \A m \in {SearchTag(s)'} : WritesAt(r, m)'
    BY <1>1, <1>2, <2>1, <2>3, <2>5, <2>6, <2>9, <2>14 DEF WritesAt
  <2>16. Fits(t, r)'
    BY <1>1, <1>2, <2>14, <2>15 DEF Fits
  <2>17. \A u \in Threads \ {t} : call[u].pc # "fill"
    BY <1>2, ThreadAssumption DEF Answers, Inv, OneAtWork, Locks
  <2>18. call'[t] = r
    BY <2>12 DEF Answers
  <2>19. \A m \in {SearchTag(s)'} : TagOK(s, m)'
    BY <1>1, <2>9, <2>14, <2>18 DEF TagOK, OwnTag, WorksOn
  <2> QED  BY <1>1, <1>2, <2>10, <2>12, <2>16, <2>17, <2>19, WriteGoesOn
<1> QED  BY <1>4, <1>5, <1>6

\* What a write stores is there under its name, in the form in which it was given,
\* and where memory runs out there is nothing.
LEMMA FillAnswers ==
    ASSUME Answers, Inv', NEW t \in Threads, Fill(t)
    PROVE  Answers'
<1>1. PICK c \in Call, n \in Nat, s \in Sigs :
             /\ c = call[t] /\ c.sig = s /\ Owner[s] = t /\ Owner[s] # NoThread
             /\ n = SearchTag(s) /\ n = SearchOneTag(s) /\ n \in 0..count /\ (n # 0 => n \in Position)
             /\ c.pc # "delete" => c.op \in {"WriteTag", "WriteRawTag"} /\ WritesAt(c, n)
  BY WriteKnows DEF Fill, At
<1>2. c.pc = "fill" /\ file' = file /\ seek' = seek /\ count' = count /\ Directory /\ DirectoryOK
      /\ count \in Nat /\ count <= MaxTags /\ MaxTags \in Nat
  <2>1. c.pc = "fill" /\ file' = file /\ seek' = seek /\ count' = count
    BY <1>1 DEF Fill, At, fixed
  <2> QED  BY <2>1, TableAssumption DEF Answers, Directory, DirectoryOK
<1>3. PICK i : i = c.pos
  OBVIOUS
<1>4. /\ c.op \in {"WriteTag", "WriteRawTag"} /\ c.val \in Payloads
      /\ c.op = "WriteTag" => TypeOf[c.val] \in Supported[s]
      /\ i \in 1..count /\ slot[i].name \in {s, NoSig} /\ meaning[s] = Null
      /\ \A j \in Position : j # i => slot[j].name # s
  BY <1>1, <1>2, <1>3 DEF WritesAt
<1>5. i \in Position /\ slot[i] \in Slot
  BY <1>2, <1>4 DEF Position, DirectoryOK
<1> DEFINE raw == c.op = "WriteRawTag"
           entry(p) == [slot[i] EXCEPT !.name = s, !.linked = NoSig, !.ptr = p, !.raw = raw,
                          !.handler = IF raw THEN Null ELSE TypeOf[c.val],
                          !.off = IF raw THEN @ ELSE 0, !.size = IF raw THEN Width[c.val] ELSE 0]
<1>6. /\ \/ \E o \in Free(heap) :
              /\ slot' = [slot EXCEPT ![i] = entry(o)]
              /\ heap' = [heap EXCEPT ![o] = [val |-> c.val, shape |-> IF raw THEN "raw" ELSE "cooked"]]
              /\ meaning' = [meaning EXCEPT ![s] = c.val]
         \/ slot' = [slot EXCEPT ![i] = entry(Null)] /\ UNCHANGED <<heap, meaning>>
      /\ IF raw THEN Goes(t, "check") ELSE Ends(t)
  BY <1>1, <1>3 DEF Fill
<1>7. ASSUME NEW p \in Objects \cup {Null}
      PROVE  /\ entry(p) \in Slot /\ entry(p).name = s /\ entry(p).linked = NoSig /\ entry(p).ptr = p
             /\ entry(p).raw = raw /\ (~raw => entry(p).handler = TypeOf[c.val] /\ entry(p).size = 0)
  <2>1. TypeOf[c.val] \in Types /\ Width[c.val] \in Nat /\ raw \in BOOLEAN
    BY <1>4, PayloadAssumption
  <2>2. entry(p) \in Slot
    BY <1>5, <2>1 DEF Slot
  <2> QED  BY <1>5, <2>2 DEF Slot
\* What follows from an entry e with data p at i, and a tag that is thereby settled.
<1>8. ASSUME NEW e \in Slot, e.name = s, e.linked = NoSig, slot' = [slot EXCEPT ![i] = e], HeapStep(i),
             meaning' \in [Sigs -> Payloads \cup {Null}], \A u \in Sigs \ {s} : meaning'[u] = meaning[u],
             \A m \in {i} : OwnTag(s, m)'
      PROVE  Answers'
  <2>1. slot'[i] = e /\ slot' \in [Position -> Slot] /\ \A j \in Position : j # i => slot'[j] = slot[j]
    BY <1>2, <1>5, <1>8 DEF DirectoryOK
  <2>2. DirectoryOK' /\ EntryChanges(s, i)
    BY <1>2, <1>4, <1>8, <2>1 DEF DirectoryOK, EntryChanges
  <2>3. Directory' /\ \A u \in Sigs \ {s} : Same(u)
    BY <1>1, <1>2, <1>5, <1>8, <2>1, <2>2, Stores
  <2>4. SearchTag(s)' = i
    BY <1>1, <1>2, <1>4, <1>8, <2>1, <2>3, OwnFound
  <2>5. \A m \in {SearchTag(s)'} : TagOK(s, m)'
    BY <1>1, <1>4, <1>8, <2>4 DEF TagOK
  <2>6. \A u \in Threads \ {t} : call[u].pc # "fill"
    BY <1>1, <1>2 DEF Answers, Inv, OneAtWork
  <2>7. \E r : Fits(t, r)' /\ call' = [call EXCEPT ![t] = r]
    <3>1. CASE raw
      <4>1. PICK r : r = [c EXCEPT !.pc = "check"]
        OBVIOUS
      <4>2. call' = [call EXCEPT ![t] = r]
        BY <1>1, <1>6, <3>1, <4>1 DEF Goes
      <4>3. r \in Call /\ r.pc = "check" /\ r.op = c.op /\ r.sig = s /\ r.val = c.val /\ r.pos = i
        BY <1>1, <1>3, <4>1 DEF Call
      <4>4. \A m \in {SearchTag(s)'} : WritesAt(r, m)'
        BY <1>4, <2>4, <3>1, <4>3 DEF WritesAt
      <4>5. Fits(t, r)'
        BY <1>1, <1>4, <4>3, <4>4 DEF Fits
      <4> QED  BY <4>2, <4>5
    <3>2. CASE ~raw
      BY <1>6, <3>2, IdleFits DEF Ends
    <3> QED  BY <3>1, <3>2
  <2> QED  BY <1>1, <1>2, <2>3, <2>5, <2>6, <2>7, WriteGoesOn
<1> HIDE DEF entry
<1>9. ASSUME NEW o \in Free(heap), slot' = [slot EXCEPT ![i] = entry(o)],
             heap' = [heap EXCEPT ![o] = [val |-> c.val, shape |-> IF raw THEN "raw" ELSE "cooked"]],
             meaning' = [meaning EXCEPT ![s] = c.val]
      PROVE  Answers'
  <2>1. o \in Objects /\ o # Null
    BY HeapAssumption DEF Free
  <2>2. PICK e : e = entry(o)
    OBVIOUS
  <2>3. /\ e \in Slot /\ e.name = s /\ e.linked = NoSig /\ e.ptr = o
        /\ e.raw = raw /\ (~raw => e.handler = TypeOf[c.val])
    BY <1>7, <2>1, <2>2
  <2>4. PICK d : d = [val |-> c.val, shape |-> IF raw THEN "raw" ELSE "cooked"]
    OBVIOUS
  <2>5. d \in Contents
    BY <1>4, <2>4 DEF Contents, Shapes
  <2>6. slot'[i] = e
    BY <1>2, <1>5, <1>9, <2>2 DEF DirectoryOK
  <2>7. HeapStep(i) /\ heap'[o] = d
    <3>1. o \in Free(heap) /\ heap' = [heap EXCEPT ![o] = d] /\ slot'[i].ptr = o
      BY <1>9, <2>3, <2>4, <2>6
    <3>2. Directory /\ i \in Position /\ d \in Contents
      BY <1>2, <1>5, <2>5
    <3>3. ASSUME NEW x \in Contents, heap' = [heap EXCEPT ![o] = x] PROVE HeapStep(i) /\ heap'[o] = x
      BY <3>1, <3>2, <3>3, Fills
    <3> QED  BY <3>1, <3>2, <3>3
  <2>8. /\ meaning' \in [Sigs -> Payloads \cup {Null}] /\ meaning'[s] = c.val
        /\ \A u \in Sigs \ {s} : meaning'[u] = meaning[u]
    BY <1>2, <1>4, <1>9 DEF Directory
  <2>9. InMemory(i, meaning[s])'
    BY <2>1, <2>3, <2>4, <2>6, <2>7, <2>8 DEF InMemory
  <2>10. OwnTag(s, i)'
    BY <1>4, <2>3, <2>6, <2>8, <2>9 DEF OwnTag
  <2> QED  BY <1>8, <1>9, <2>2, <2>3, <2>7, <2>8, <2>10
<1>10. ASSUME slot' = [slot EXCEPT ![i] = entry(Null)], UNCHANGED <<heap, meaning>>
       PROVE  Answers'
  <2>1. PICK e : e = entry(Null)
    OBVIOUS
  <2>2. /\ e \in Slot /\ e.name = s /\ e.linked = NoSig /\ e.ptr = Null
        /\ e.raw = raw /\ (~raw => e.size = 0)
    BY <1>7, <2>1
  <2>3. slot'[i] = e
    BY <1>2, <1>5, <1>10, <2>1 DEF DirectoryOK
  <2>4. HeapStep(i)
    BY <1>2, <1>5, <1>10, <2>2, <2>3, Frees
  <2>5. raw => call'[t].pc = "check" /\ call'[t].sig = s
    <3>1. SUFFICES ASSUME raw PROVE call'[t].pc = "check" /\ call'[t].sig = s
      OBVIOUS
    <3>2. PICK r : r = [c EXCEPT !.pc = "check"]
      OBVIOUS
    <3>3. r.pc = "check" /\ r.sig = s
      BY <1>1, <3>2 DEF Call
    <3>4. call'[t] = r
      BY <1>1, <1>6, <3>1, <3>2 DEF Goes, Answers
    <3> QED  BY <3>3, <3>4
  <2>6. OwnTag(s, i)'
    BY <1>1, <1>4, <1>10, <2>2, <2>3, <2>5 DEF OwnTag, WorksOn
  <2>7. /\ meaning' \in [Sigs -> Payloads \cup {Null}] /\ \A u \in Sigs \ {s} : meaning'[u] = meaning[u]
    BY <1>2, <1>10 DEF Directory
  <2> QED  BY <1>8, <1>10, <2>1, <2>2, <2>4, <2>6, <2>7
<1> QED  BY <1>6, <1>9, <1>10

\* The name goes when there is no data, and only then.
LEMMA CheckAnswers ==
    ASSUME Answers, Inv', NEW t \in Threads, Check(t)
    PROVE  Answers'
<1>1. PICK c \in Call, n \in Nat, s \in Sigs :
             /\ c = call[t] /\ c.sig = s /\ Owner[s] = t /\ Owner[s] # NoThread
             /\ n = SearchTag(s) /\ n = SearchOneTag(s) /\ n \in 0..count /\ (n # 0 => n \in Position)
             /\ c.pc # "delete" => c.op \in {"WriteTag", "WriteRawTag"} /\ WritesAt(c, n)
  BY WriteKnows DEF Check, At
<1>2. /\ c.pc = "check" /\ file' = file /\ seek' = seek /\ count' = count /\ heap' = heap /\ meaning' = meaning
      /\ Directory /\ DirectoryOK /\ UniqueNames /\ TagInv /\ Ends(t)
      /\ count \in Nat /\ count <= MaxTags /\ MaxTags \in Nat
  BY <1>1, TableAssumption DEF Check, At, fixed, Answers, Directory, DirectoryOK
<1>3. n # 0 /\ n \in Position /\ c.pos = n /\ slot[n].name = s /\ slot[n] \in Slot
  <2>1. n # 0 /\ c.pos = n
    BY <1>1, <1>2 DEF WritesAt
  <2> QED  BY <1>1, <1>2, <2>1, Finds DEF DirectoryOK
<1>4. OwnTag(s, n) /\ ~WorksOn(t, "fill", s)
  BY <1>1, <1>2, <1>3 DEF TagInv, TagOK, WorksOn
<1>5. slot' = IF slot[n].ptr = Null THEN [slot EXCEPT ![n].name = NoSig] ELSE slot
  BY <1>1, <1>3 DEF Check
<1>6. PICK r : r = Idle /\ Fits(t, r)' /\ call' = [call EXCEPT ![t] = r]
  BY <1>2, IdleFits DEF Ends
<1>7. CASE slot[n].ptr # Null
  <2>1. Quiet
    BY <1>2, <1>5, <1>7 DEF Quiet
  <2>2. Directory' /\ NamesFall /\ \A u \in Sigs : Same(u)
    BY <1>2, <2>1, QuietKeeps
  <2>3. OwnTag(s, n)'
    BY <1>1, <1>4, <1>7, <2>1 DEF OwnTag, Quiet, InMemory
  <2>4. SearchTag(s)' = n
    BY <1>1, <2>2 DEF Same
  <2>5. \A m \in {SearchTag(s)'} : TagOK(s, m)'
    BY <1>1, <1>3, <2>3, <2>4 DEF TagOK
  <2> QED  BY <1>1, <1>2, <1>6, <2>2, <2>5, WriteGoesOn
<1>8. CASE slot[n].ptr = Null
  <2>1. meaning[s] = Null
    BY <1>1, <1>4, <1>8 DEF OwnTag, InMemory
  <2>2. PICK e : e = [slot[n] EXCEPT !.name = NoSig]
    OBVIOUS
  <2>3. e \in Slot /\ e.name = NoSig /\ e.linked = slot[n].linked /\ e.ptr = slot[n].ptr
    BY <1>3, <2>2 DEF Slot
  <2>4. slot' = [slot EXCEPT ![n] = e]
    BY <1>5, <1>8, <2>2
  <2>5. slot'[n] = e /\ slot' \in [Position -> Slot] /\ \A j \in Position : j # n => slot'[j] = slot[j]
    BY <1>2, <1>3, <2>3, <2>4 DEF DirectoryOK
  <2>6. \A j \in Position : j # n => slot[j].name # s
    BY <1>2, <1>3, SigsAssumption DEF UniqueNames
  <2>7. DirectoryOK' /\ EntryChanges(s, n)
    BY <1>1, <1>2, <1>3, <2>3, <2>5, <2>6 DEF DirectoryOK, EntryChanges
  <2>8. slot[n].linked = NoSig
    BY <1>1, <1>2, <1>3 DEF Directory
  <2>9. HeapStep(n)
    BY <1>2, <1>3, <2>3, <2>5, Frees
  <2>10. Directory' /\ \A u \in Sigs \ {s} : Same(u)
    <3>1. meaning' \in [Sigs -> Payloads \cup {Null}]
      BY <1>2 DEF Directory
    <3> QED  BY <1>1, <1>2, <1>3, <2>3, <2>5, <2>7, <2>8, <2>9, <3>1, Stores
  <2>11. SearchTag(s)' = 0
    <3>1. \A j \in Position : slot'[j].name # s
      BY <2>3, <2>5, <2>6, SigsAssumption
    <3> QED  BY <1>1, <2>10, <3>1, OwnFound
  <2>12. \A m \in {SearchTag(s)'} : TagOK(s, m)'
    BY <1>2, <2>1, <2>11 DEF TagOK
  <2>13. NamesFall
    BY <1>2, <2>3, <2>5 DEF NamesFall
  <2> QED  BY <1>1, <1>2, <1>6, <2>10, <2>12, <2>13, WriteGoesOn
<1> QED  BY <1>7, <1>8

LEMMA DeleteAnswers ==
    ASSUME Answers, Inv', NEW t \in Threads, Delete(t)
    PROVE  Answers'
<1>1. PICK c \in Call, n \in Nat, s \in Sigs :
             /\ c = call[t] /\ c.sig = s /\ Owner[s] = t /\ Owner[s] # NoThread
             /\ n = SearchTag(s) /\ n = SearchOneTag(s) /\ n \in 0..count /\ (n # 0 => n \in Position)
             /\ c.pc # "delete" => c.op \in {"WriteTag", "WriteRawTag"} /\ WritesAt(c, n)
  BY WriteKnows DEF Delete, At
<1>2. /\ c.pc = "delete" /\ file' = file /\ seek' = seek /\ count' = count
      /\ meaning' = [meaning EXCEPT ![s] = Null]
      /\ Directory /\ DirectoryOK /\ UniqueNames /\ TagInv /\ Ends(t)
      /\ count \in Nat /\ count <= MaxTags /\ MaxTags \in Nat
  BY <1>1, TableAssumption DEF Delete, At, fixed, Answers, Directory, DirectoryOK
<1>3. IF n = 0 THEN UNCHANGED <<slot, heap>>
      ELSE /\ slot' = [slot EXCEPT ![n] = [Deleted(n) EXCEPT !.name = NoSig]]
           /\ heap' = HeapAfterDelete(n)
  BY <1>1 DEF Delete
<1>4. PICK r : r = Idle /\ Fits(t, r)' /\ call' = [call EXCEPT ![t] = r]
  BY <1>2, IdleFits DEF Ends
<1>5. CASE n = 0
  <2>1. meaning[s] = Null
    BY <1>1, <1>2, <1>5 DEF TagInv, TagOK
  <2>2. meaning' = meaning
    BY <1>2, <2>1 DEF Directory
  <2>3. Quiet /\ call[t].pc \notin {"fill", "check"}
    BY <1>1, <1>2, <1>3, <1>5, <2>2 DEF Quiet
  <2> QED  BY <1>2, <1>4, <2>3, GoesOnQuietly
<1>6. CASE n # 0
  <2>1. n \in Position /\ slot[n].name = s /\ slot[n] \in Slot
    BY <1>1, <1>2, <1>6, Finds DEF DirectoryOK
  <2>2. PICK d : d = Deleted(n)
    OBVIOUS
  <2>3. d \in Slot /\ d.linked = slot[n].linked
    BY <1>2, <2>1, <2>2, DeletedKeeps
  <2>4. PICK e : e = [d EXCEPT !.name = NoSig]
    OBVIOUS
  <2>5. e \in Slot /\ e.name = NoSig /\ e.linked = slot[n].linked /\ e.ptr = d.ptr
    BY <2>3, <2>4 DEF Slot
  <2>6. slot'[n] = e /\ slot' \in [Position -> Slot] /\ \A j \in Position : j # n => slot'[j] = slot[j]
    BY <1>2, <1>3, <1>6, <2>1, <2>2, <2>4, <2>5 DEF DirectoryOK
  <2>7. \A j \in Position : j # n => slot[j].name # s
    BY <1>2, <2>1, SigsAssumption DEF UniqueNames
  <2>8. DirectoryOK' /\ EntryChanges(s, n)
    BY <1>1, <1>2, <2>1, <2>5, <2>6, <2>7 DEF DirectoryOK, EntryChanges
  <2>9. slot[n].linked = NoSig
    BY <1>1, <1>2, <2>1 DEF Directory
  <2>10. HeapStep(n)
    BY <1>2, <1>3, <1>6, <2>1, <2>2, <2>5, <2>6, Frees
  <2>11. /\ meaning' \in [Sigs -> Payloads \cup {Null}] /\ meaning'[s] = Null
         /\ \A u \in Sigs \ {s} : meaning'[u] = meaning[u]
    BY <1>2 DEF Directory
  <2>12. Directory' /\ \A u \in Sigs \ {s} : Same(u)
    BY <1>1, <1>2, <2>1, <2>5, <2>6, <2>8, <2>9, <2>10, <2>11, Stores
  <2>13. SearchTag(s)' = 0
    <3>1. \A j \in Position : slot'[j].name # s
      BY <2>5, <2>6, <2>7, SigsAssumption
    <3> QED  BY <1>1, <2>12, <3>1, OwnFound
  <2>14. \A m \in {SearchTag(s)'} : TagOK(s, m)'
    BY <2>11, <2>13 DEF TagOK
  <2>15. NamesFall
    BY <1>2, <2>5, <2>6 DEF NamesFall
  <2> QED  BY <1>1, <1>2, <1>4, <2>12, <2>14, <2>15, WriteGoesOn
<1> QED  BY <1>5, <1>6

LEMMA BeginAnswers ==
    ASSUME Answers, Inv', NEW t \in Threads, Begin(t)
    PROVE  Answers'
<1>1. PICK s \in Sigs :
         \/ /\ Owner[s] \in {t, NoThread}
            /\ \/ Begins(t, "read", "ReadTag", s, Null) /\ ~WrittenRaw(s)
               \/ Begins(t, "readraw", "ReadRawTag", s, Null)
         \/ /\ Owner[s] = t
            /\ \/ Begins(t, "delete", "DeleteTag", s, Null)
               \/ \E v \in Payloads : \/ Writable(t, s, v) /\ Begins(t, "write", "WriteTag", s, v)
                                      \/ Begins(t, "write", "WriteRawTag", s, v)
  BY DEF Begin
<1>2. call[t].pc \notin {"fill", "check"} /\ Directory
  BY DEF Begin, At, Answers
<1>3. ASSUME NEW pc, NEW op, NEW v, Begins(t, pc, op, s, v)
      PROVE  Quiet /\ seek' = seek /\ call' = [call EXCEPT ![t] = New(pc, op, s, v)]
  BY <1>3 DEF Begins, Quiet, fixed, directory
<1>4. PICK n : n = SearchTag(s)
  OBVIOUS
<1>5. Quiet => SearchTag(s)' = n
  BY <1>2, <1>4, QuietKeeps DEF Same
<1>6. CASE Owner[s] \in {t, NoThread} /\ Begins(t, "read", "ReadTag", s, Null) /\ ~WrittenRaw(s)
  <2>1. PICK r : r = New("read", "ReadTag", s, Null)
    OBVIOUS
  <2>2. r \in Call /\ r.pc = "read" /\ r.op = "ReadTag" /\ r.sig = s
    BY <2>1 DEF New, Call
  <2>3. n # 0 => ~slot[n].raw
    BY <1>4, <1>6 DEF WrittenRaw
  <2>4. Quiet /\ seek' = seek /\ call' = [call EXCEPT ![t] = r] /\ SearchTag(s)' = n
    BY <1>3, <1>5, <1>6, <2>1
  <2>5. ReadsAt(r, n)'
    BY <2>2, <2>3, <2>4 DEF ReadsAt, Quiet
  <2>6. Fits(t, r)'
    BY <1>6, <2>2, <2>4, <2>5 DEF Fits
  <2> QED  BY <1>2, <2>4, <2>6, GoesOnQuietly
<1>7. CASE Owner[s] \in {t, NoThread} /\ Begins(t, "readraw", "ReadRawTag", s, Null)
  <2>1. PICK r : r = New("readraw", "ReadRawTag", s, Null)
    OBVIOUS
  <2>2. r \in Call /\ r.pc = "readraw" /\ r.op = "ReadRawTag" /\ r.sig = s
    BY <2>1 DEF New, Call
  <2>3. Quiet /\ seek' = seek /\ call' = [call EXCEPT ![t] = r]
    BY <1>3, <1>7, <2>1
  <2>4. Fits(t, r)'
    BY <1>7, <2>2 DEF Fits, ReadsAt
  <2> QED  BY <1>2, <2>3, <2>4, GoesOnQuietly
<1>8. CASE Owner[s] = t /\ Begins(t, "delete", "DeleteTag", s, Null)
  <2>1. PICK r : r = New("delete", "DeleteTag", s, Null)
    OBVIOUS
  <2>2. r \in Call /\ r.pc = "delete" /\ r.op = "DeleteTag" /\ r.sig = s
    BY <2>1 DEF New, Call
  <2>3. Quiet /\ seek' = seek /\ call' = [call EXCEPT ![t] = r]
    BY <1>3, <1>8, <2>1
  <2>4. Fits(t, r)'
    BY <1>8, <2>2 DEF Fits
  <2> QED  BY <1>2, <2>3, <2>4, GoesOnQuietly
<1>9. ASSUME NEW v \in Payloads, NEW op \in {"WriteTag", "WriteRawTag"}, Owner[s] = t,
             op = "WriteTag" => TypeOf[v] \in Supported[s], Begins(t, "write", op, s, v)
      PROVE  Answers'
  <2>1. PICK r : r = New("write", op, s, v)
    OBVIOUS
  <2>2. r \in Call /\ r.pc = "write" /\ r.op = op /\ r.sig = s /\ r.val = v
    BY <2>1 DEF New, Call
  <2>3. Quiet /\ seek' = seek /\ call' = [call EXCEPT ![t] = r]
    BY <1>3, <1>9, <2>1
  <2>4. Fits(t, r)'
    BY <1>9, <2>2 DEF Fits, WritesAt
  <2> QED  BY <1>2, <2>3, <2>4, GoesOnQuietly
<1> QED  BY <1>1, <1>6, <1>7, <1>8, <1>9 DEF Writable

(***************************************************************************)
(* From a well-formed file on.                                             *)
(***************************************************************************)
LEMMA OpenedAnswers == Opened => Answers
<1> SUFFICES ASSUME Opened PROVE Answers
  OBVIOUS
<1>1. /\ Begun /\ slot \in [Position -> Slot] /\ count \in 0..MaxTags
      /\ \A i, j \in Position : slot[i].name = slot[j].name => i = j \/ slot[i].name = NoSig
      /\ \A i \in Position :
           /\ slot[i].ptr = Null /\ ~slot[i].raw
           /\ slot[i].name # NoSig => i <= count /\ Owner[slot[i].name] = NoThread
           /\ slot[i].linked # NoSig => slot[i].name # NoSig /\ Owner[slot[i].linked] = NoThread
      /\ meaning \in [Sigs -> Payloads \cup {Null}]
      /\ \A s \in Sigs : \E n \in {SearchTag(s)} :
           \/ n = 0 /\ meaning[s] = Null
           \/ n \in 1..count /\ OnDisk(n, meaning[s]) /\ Readable(s, meaning[s])
  BY DEF Opened
<1>2. DirectoryOK /\ count \in Nat /\ count <= MaxTags /\ MaxTags \in Nat
  BY <1>1, TableAssumption DEF DirectoryOK
<1>3. UniqueNames
  BY <1>1, <1>2 DEF UniqueNames, Position
<1>4. LinksEnd
  <2>1. SUFFICES ASSUME NEW s \in Sigs PROVE \E e \in LinkPath(s) : Hop[e] = NoSig
    BY DEF LinksEnd
  <2>2. SearchTag(s) # Loop
    BY <1>1, <1>2 DEF Loop
  <2> QED  BY <1>2, <2>2, SearchTagFinds
<1>5. Directory
  <2>1. heap \in [Objects -> Contents \cup {Unused}]
    BY <1>1 DEF Begun
  <2>2. \A i \in Position : slot[i].linked # NoSig =>
         /\ slot[i].name \in Sigs /\ Owner[slot[i].name] = NoThread
         /\ slot[i].linked \in Sigs /\ Owner[slot[i].linked] = NoThread
    BY <1>1 DEF Slot
  <2> QED  BY <1>1, <1>2, <1>3, <1>4, <2>1, <2>2 DEF Directory
<1>6. TagInv
  <2>1. SUFFICES ASSUME NEW s \in Sigs, NEW n, n = SearchTag(s) PROVE TagOK(s, n)
    BY DEF TagInv
  <2>2. \/ n = 0 /\ meaning[s] = Null
        \/ n \in 1..count /\ OnDisk(n, meaning[s]) /\ Readable(s, meaning[s])
    BY <1>1, <2>1
  <2>3. CASE n = 0 /\ meaning[s] = Null
    BY <2>3 DEF TagOK
  <2>4. CASE n \in 1..count /\ OnDisk(n, meaning[s]) /\ Readable(s, meaning[s])
    <3>1. n \in Position /\ n # 0 /\ ~slot[n].raw
      BY <1>1, <1>2, <2>4 DEF Position
    <3>2. slot[n].name # NoSig /\ Owner[s] = NoThread
      <4>1. CASE Owner[s] # NoThread
        <5>1. n = SearchOneTag(s)
          BY <1>5, <2>1, <4>1, Reach
        <5>2. slot[n].name = s
          BY <1>2, <3>1, <5>1, Finds
        <5> QED  BY <1>1, <3>1, <4>1, <5>2, SigsAssumption
      <4>2. CASE Owner[s] = NoThread
        <5>1. slot[n].name \in Sigs
          BY <1>5, <2>1, <3>1, Reach
        <5> QED  BY <4>2, <5>1, SigsAssumption
      <4> QED  BY <4>1, <4>2
    <3> QED  BY <2>4, <3>1, <3>2 DEF TagOK, SharedTag
  <2> QED  BY <2>2, <2>3, <2>4
<1>7. call \in [Threads -> Call] /\ CallInv
  <2>1. Idle \in Call /\ Idle.pc = "idle" /\ Idle.op = "none" /\ Idle.sig = NoSig
    BY DEF Idle, Call
  <2>2. \A t \in Threads : call[t] = Idle
    BY <1>1 DEF Begun
  <2>3. ASSUME NEW t \in Threads, NEW c, c = Idle PROVE Fits(t, c)
    BY <2>1, <2>3 DEF Fits
  <2> HIDE DEF Idle
  <2> QED  BY <1>1, <2>1, <2>2, <2>3 DEF CallInv, Begun
<1>8. Inv
  BY <1>1, ThreadAssumption DEF Begun, Inv, OneAtWork, Idle
<1> QED  BY <1>5, <1>6, <1>7, <1>8 DEF Answers

LEMMA StepAnswers == Answers /\ [SharedNext]_sharedVars => Answers'
<1> SUFFICES ASSUME Answers, [SharedNext]_sharedVars PROVE Answers'
  OBVIOUS
<1>1. Inv'
  BY StepInv DEF Answers
<1>2. CASE UNCHANGED sharedVars
  <2>1. Quiet /\ call' = call /\ seek' = seek /\ Directory
    BY <1>2 DEF sharedVars, Quiet, Answers
  <2>2. Directory' /\ NamesFall /\ \A s \in Sigs : Same(s) /\ Stays(s)
    BY <2>1, QuietKeeps
  <2>3. ASSUME NEW s \in Sigs PROVE \A n \in {SearchTag(s)'} : TagOK(s, n)'
    <3>1. \A pc \in {"fill", "check"} : WorksOn(Owner[s], pc, s) => WorksOn(Owner[s], pc, s)'
      BY <2>1 DEF WorksOn
    <3> QED  BY <2>1, <2>2, <3>1, TagKept DEF Answers, Quiet
  <2>4. ASSUME NEW t \in Threads, NEW c \in {call[t]} PROVE Fits(t, c)'
    <3>1. Fits(t, c)
      BY <2>4 DEF Answers, CallInv
    <3>2. c.pc \in {"fetch", "copy"} => c.sig \in Sigs
      BY <3>1 DEF Fits
    <3> QED  BY <2>1, <2>2, <3>1, <3>2, FitsKept DEF Quiet
  <2> QED  BY <1>1, <2>1, <2>2, <2>3, <2>4 DEF Answers, TagInv, CallInv
<1>3. CASE Rest
  BY <1>2, <1>3 DEF Rest
<1>4. ASSUME NEW t \in Threads, Begin(t) \/ Step(t) PROVE Answers'
  BY <1>1, <1>4, BeginAnswers, SearchToReadAnswers, FetchAnswers, ReturnTagAnswers, SearchToReadRawAnswers,
     CopyAnswers, SerialiseAnswers, NewTagAnswers, FillAnswers, CheckAnswers, DeleteAnswers DEF Step
<1> QED  BY <1>2, <1>3, <1>4 DEF SharedNext

\* The data that cmsReadTag pointed to is there, because its entry still has it.
LEMMA AnswersAre == Answers => AnswersHold
<1> SUFFICES ASSUME Answers, NEW t \in Threads, Answered(t), NEW c, c = call[t]
             PROVE  /\ c.val = meaning[c.sig] \/ (Faults /\ c.val = Null)
                    /\ c.obj # Null => heap[c.obj] = [val |-> meaning[c.sig], shape |-> "cooked"]
  BY DEF AnswersHold
<1>1. c.pc = "idle" /\ c.op \in {"ReadTag", "ReadRawTag"} /\ Fits(t, c)
  BY DEF Answered, At, Answers, CallInv
<1>2. PICK n : n = SearchTag(c.sig)
  OBVIOUS
<1>3. c.sig \in Sigs /\ Owner[c.sig] \in {t, NoThread} /\ ReadsAt(c, n)
  BY <1>1, <1>2 DEF Fits
<1>4. Settled(c.sig, n)
  BY <1>1, <1>2, <1>3, OwnerIdle
<1>5. c.val = meaning[c.sig] \/ (Faults /\ c.val = Null)
  BY <1>1, <1>3 DEF ReadsAt
<1>6. c.obj # Null => Cooked(n) /\ slot[n].ptr = c.obj
  BY <1>1, <1>3 DEF ReadsAt
<1> QED  BY <1>4, <1>5, <1>6 DEF Settled, Cooked, InMemory, OnDisk

\* Any number of threads, of calls and of tags, on any well-formed file: what a
\* thread gets is what the tag was last given, and what it got a pointer to stays.
THEOREM ThreadsGetAnswers == Opened /\ [][SharedNext]_sharedVars => []AnswersHold
  BY OpenedAnswers, StepAnswers, AnswersAre, PTL
=============================================================================
