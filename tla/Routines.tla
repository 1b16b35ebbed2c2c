------------------------------ MODULE Routines ------------------------------
(***************************************************************************)
(* The machine that runs routines.  Memory is a set of blocks, each held   *)
(* by a variable of the caller or by another block; a stream is a sequence *)
(* of fields of a width.  Every step that allocates, reads, writes or      *)
(* seeks may fail, whenever it is taken.                                   *)
(***************************************************************************)
EXTENDS Steps

CONSTANTS
    Jobs,               \* what the program is asked to do
    Calls(_),           \* the calls of a job, in order
    Program(_, _),      \* the steps of a call of a job
    Lapses,             \* do failures that the code overlooks happen?
    Astray              \* the jobs whose writer is known to leave the stream elsewhere

(***************************************************************************)
(* The machine.                                                            *)
(***************************************************************************)
VARIABLES
    job,
    call,       \* the number of the call in the job
    steps,      \* of the routine that runs
    pc,         \* the number of the next step; 0 between calls
    outcome,    \* of the last call: "running", "done", "cut", "failed" or "none"
    live,       \* the blocks allocated and not released
    gone,       \* the blocks released
    holder,     \* the holders of blocks that have one
    before,     \* the live blocks when the call began
    results,    \* the blocks returned, by the name that the call keeps them under
    misuse,     \* was a block released twice, or used when it was not there?
    stream,     \* the fields written, by their offset
    cursor,     \* the offset in the stream
    marks,      \* the offsets in variables
    got,        \* the offsets of the fields read
    askew       \* was a field read that is not the one written there?

memory == <<live, gone, holder, misuse>>
file == <<stream, cursor, marks, got, askew>>
vars == <<job, call, steps, pc, outcome, memory, before, results, file>>

Written == "write" \in {Calls(job)[k].name : k \in DOMAIN Calls(job)}
Size == IF DOMAIN stream = {} THEN 0
        ELSE LET end == Max(DOMAIN stream) IN end + stream[end].bytes - TypeBase
Current == Calls(job)[call]
Now == steps[pc]

Block(b, i) == <<Current.keeps, b, i>>
Nothing == Block("", 0)
Subject == Block(Now.what, Now.at)

\* Blocks are held at most this deep.
Depth == 5
WithHeld(S) ==
    LET under(T) == T \cup {b \in DOMAIN holder : holder[b] \in T}
    IN  FoldLeft(LAMBDA T, k : under(T), S, [k \in 1..Depth |-> k])
Kept(blocks) == {Block(b[1], b[2]) : b \in blocks} \cap (live \cup gone)

\* An object goes with all that it holds; a block that goes before its holder does
\* is released again with it.
Release(objects, blocks) ==
    LET all == WithHeld(objects) \cup blocks
    IN  /\ live' = live \ all
        /\ gone' = gone \cup all
        /\ holder' = RestrictValues(holder, LAMBDA h : h \notin WithHeld(objects))
        /\ misuse' = \/ misuse
                     \/ all \cap gone # {}
                     \/ WithHeld(objects) \cap blocks # {}
                     \/ \E b \in objects : b \in WithHeld(objects \ {b})

Init ==
    /\ job \in Jobs
    /\ call = 0 /\ steps = <<>> /\ pc = 0 /\ outcome = "none"
    /\ live = {} /\ gone = {} /\ holder = <<>> /\ before = {} /\ results = <<>>
    /\ misuse = FALSE
    /\ stream = <<>> /\ cursor = TypeBase /\ marks = <<>> /\ got = {} /\ askew = FALSE

\* The next call of the job, if there is something for it to work on.
Begin ==
    /\ pc = 0
    /\ call < Len(Calls(job))
    /\ call' = call + 1
    /\ LET next == Calls(job)[call + 1]
       IN  IF next.needs = "" \/ next.needs \in DOMAIN results
           THEN steps' = Program(job, next.name) /\ pc' = 1 /\ outcome' = "running"
           ELSE UNCHANGED steps /\ pc' = 0 /\ outcome' = "none"
    /\ before' = live
    /\ cursor' = TypeBase
    /\ got' = {}
    /\ marks' = <<>>
    /\ UNCHANGED <<job, memory, results, stream, askew>>

Running == pc > 0 /\ pc <= Len(steps)
Onwards == pc' = pc + 1 /\ UNCHANGED <<job, call, steps, outcome, before, results>>

Allocate ==
    /\ Running /\ Now.op = "new"
    /\ live' = live \cup {Subject}
    /\ gone' = gone \ {Subject}
    /\ Onwards /\ UNCHANGED <<holder, misuse, file>>

Free ==
    /\ Running /\ Now.op = "drop"
    /\ IF Subject \in live \cup gone
       THEN IF Now.holds THEN Release({Subject}, {}) ELSE Release({}, {Subject})
       ELSE UNCHANGED memory
    /\ Onwards /\ UNCHANGED file

HandOver ==
    /\ Running
    /\ \/ LET to == Block(Now.by[1], Now.by[2])
          IN  /\ Now.op = "give"
              /\ holder' = IF Subject \in live THEN (Subject :> to) @@ holder ELSE holder
              /\ misuse' = (misuse \/ to \notin live \/ Subject \in gone)
       \/ /\ Now.op = "take"
          /\ holder' = RestrictDomain(holder, LAMBDA b : b # Subject)
          /\ UNCHANGED misuse
    /\ Onwards /\ UNCHANGED <<live, gone, file>>

Look ==
    /\ Running /\ Now.op = "use"
    /\ misuse' = (misuse \/ Subject \notin live)
    /\ Onwards /\ UNCHANGED <<live, gone, holder, file>>

Mark(m, i) == IF <<m, i>> \in DOMAIN marks THEN marks[<<m, i>>] ELSE 0
Base == IF Now.base = "" THEN 0 ELSE Mark(Now.base, 0)
Padding == (4 - (cursor % 4)) % 4
Width == IF Now.op \in {"putalign", "getalign"} THEN Padding ELSE Now.bytes

Write ==
    /\ Running /\ Now.op \in {"put", "putalign"}
    /\ stream' = IF Width = 0 THEN stream
                 ELSE (cursor :> [what |-> Now.what, at |-> Now.at, bytes |-> Width,
                                  value |-> IF Now.mark = "" THEN 0
                                            ELSE Mark(Now.mark, Now.at) - Base]) @@ stream
    /\ cursor' = cursor + Width
    /\ Onwards /\ UNCHANGED <<memory, marks, got, askew>>

\* A field of another file may hold anything.
Read ==
    LET there == cursor \in DOMAIN stream
        asked == there /\ stream[cursor].what = Now.what /\ stream[cursor].at = Now.at
                       /\ stream[cursor].bytes = Width
    IN  /\ Running /\ Now.op \in {"get", "getalign"}
        /\ askew' = (askew \/ (Written /\ Width > 0 /\ ~asked))
        /\ got' = IF Width > 0 THEN got \cup {cursor} ELSE got
        /\ marks' = IF Now.mark # "" /\ asked
                    THEN (<<Now.mark, Now.at>> :> (stream[cursor].value + Base)) @@ marks
                    ELSE marks
        /\ cursor' = cursor + Width
        /\ Onwards /\ UNCHANGED <<memory, stream>>

Position ==
    /\ Running
    /\ \/ /\ Now.op = "tell"
          /\ marks' = (<<Now.what, Now.at>> :> (cursor - Now.bytes)) @@ marks
          /\ UNCHANGED cursor
       \/ /\ Now.op = "span"
          /\ marks' = (<<Now.what, Now.at>> :> (cursor - Mark(Now.base, Now.at))) @@ marks
          /\ UNCHANGED cursor
       \/ /\ Now.op = "seek"
          /\ cursor' = IF Written THEN Mark(Now.what, Now.at) ELSE cursor
          /\ UNCHANGED marks
    /\ Onwards /\ UNCHANGED <<memory, stream, got, askew>>

Pass ==
    /\ Running /\ Now.op \in {"require", "try", "done"} /\ Now.holds
    /\ Onwards /\ UNCHANGED <<memory, file>>

\* Where "goto Done" leads.
Epilogue == Min({k \in pc..Len(steps) : steps[k].op = "done"})

Fallible == {"new", "get", "getalign", "put", "putalign", "seek", "try"}

\* What fails may fail for want of memory, at the end of a file or of a disk.
Fail ==
    /\ Running
    /\ Now.op \in Fallible \/ (Now.op = "require" /\ ~Now.holds)
    /\ Now.lapse => Lapses
    /\ Release(Kept(Now.objects), Kept(Now.blocks))
    /\ CASE Now.stops = "no"      -> pc' = pc + Now.skip /\ UNCHANGED outcome
         [] Now.stops = "returns" -> pc' = Epilogue /\ outcome' = "cut"
         [] Now.stops = "fails"   -> pc' = 0
              /\ outcome' = IF Now.op = "require" THEN "refused" ELSE "failed"
    /\ steps' = IF pc' = 0 THEN <<>> ELSE steps
    /\ UNCHANGED <<job, call, before, results, file>>

Finish ==
    /\ pc > 0
    /\ \/ pc > Len(steps)
          /\ results' = (Current.keeps :> [block |-> Nothing, whole |-> TRUE]) @@ results
       \/ Running /\ Now.op = "return"
          /\ results' = (Current.keeps :> [block |-> Subject, whole |-> outcome # "cut"]) @@ results
    /\ pc' = 0 /\ steps' = <<>>
    /\ outcome' = IF outcome = "cut" THEN "cut" ELSE "done"
    /\ UNCHANGED <<job, call, memory, before, file>>

Next ==
    \/ Begin \/ Allocate \/ Free \/ HandOver \/ Look \/ Write \/ Read \/ Position
    \/ Pass \/ Fail \/ Finish

Spec == Init /\ [][Next]_vars

(***************************************************************************)
(* Properties.                                                             *)
(***************************************************************************)
Ended == pc = 0 /\ call > 0
Failed == Ended /\ outcome \in {"failed", "refused"}
Succeeded == Ended /\ outcome \in {"done", "cut"}

\* A function that fails, at whichever of its steps, releases all that it
\* allocated, and one that succeeds keeps only what its result holds; one that
\* frees an object leaves nothing of it.
NothingLeaks ==
    /\ Failed => live = before
    /\ Succeeded => live \ before \subseteq WithHeld({results[Current.keeps].block})
    /\ Succeeded /\ Current.name = "free" => \A b \in live : b[1] # Current.keeps

\* No block is released twice, handed to a holder that is gone, or used when it
\* was not allocated, on the ways out of a failure too.
ReleasedOnce == ~misuse

\* What a duplicate holds is what the original holds, block for block, and its
\* own: freeing one of them leaves the other.
DuplicateIsWhole ==
    Succeeded /\ Current.name = "dup" /\ results[Current.needs].whole =>
        LET parts(keeper) == {<<b[2], b[3]>> : b \in {x \in live : x[1] = keeper}}
        IN  parts(Current.keeps) = parts(Current.needs)

\* What was written is read back: each field is where the reader looks for it, as
\* wide as it was written, none is passed over, and the reader refuses none.
Fillers == {"padding", "Filler"}
ReadsWhatWasWritten ==
    /\ ~askew
    /\ Written /\ Ended /\ Current.name = "read" =>
          /\ outcome # "refused"
          /\ outcome = "done" => {k \in DOMAIN stream : stream[k].what \notin Fillers} \subseteq got

\* A writer leaves the stream after all that it wrote, where the next tag goes; but for that
\* of MHC2, which fills in its offsets and does not go back (Type_MHC2_Write).
WritesToTheEnd ==
    Ended /\ Current.name = "write" /\ outcome = "done" /\ job \notin Astray => cursor = TypeBase + Size
=============================================================================
