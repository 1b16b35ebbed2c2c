------------------------------ MODULE Scheduler ------------------------------
(***************************************************************************)
(* One call of _cmsThrScheduler (threaded_scheduler.c): the calling thread *)
(* counts the slices, allocates them, splits the work, starts a thread for *)
(* each slice but the first, does the first one itself, waits for the      *)
(* others and frees the slices.  The bitmaps are shared memory, and the    *)
(* threads run at any speed: reading a pixel and writing it are two steps. *)
(*                                                                         *)
(* What the transform routine makes of a colour is left out.  A byte of    *)
(* memory holds what it held before the call, or an image of the pixel     *)
(* read at some address, or an image of bytes that were already            *)
(* overwritten when they were read.                                        *)
(***************************************************************************)
EXTENDS Integers, FiniteSets

(***************************************************************************)
(* The plug-in cuts a bitmap into slices (threaded_split.c).  A format says*)
(* how many bytes a component takes (0 is a double), how many components a *)
(* pixel has, the extra ones included, and whether they lie in planes.  A  *)
(* piece is what a transform routine is called with: the addresses of two  *)
(* buffers, a number of pixels and lines, and the distances between lines  *)
(* and planes.  32-bit arithmetic is arithmetic modulo WordSize.           *)
(***************************************************************************)
CONSTANTS
    WordSize,       \* 2^32
    Grain           \* 128K: what a thread is worth

ASSUME WordAssumption == WordSize \in Nat \ {0} /\ Grain \in Nat \ {0}

GuessMaxThreads == -1   \* CMS_THREADED_GUESS_MAX_THREADS

Wrap(x) == x % WordSize
\* The same bits as an integer with a sign.
Signed(x) == IF Wrap(x) < WordSize \div 2 THEN Wrap(x) ELSE Wrap(x) - WordSize

minimum(a, b) == IF a < b THEN a ELSE b

ComponentSize(f) == IF f.bytes = 0 THEN 8 ELSE f.bytes

PixelSpacing(f) == IF f.planar THEN ComponentSize(f) ELSE ComponentSize(f) * f.channels

\* The distance between lines, computed if it is missing.
LineSize(f, pixels, line) == IF line = 0 THEN Wrap(PixelSpacing(f) * pixels) ELSE line

MemSize(f, pixels, lines, line, plane) ==
    Wrap(IF f.planar THEN f.channels * plane ELSE lines * LineSize(f, pixels, line))

\* _cmsThrCountSlices repairs the strides...
Repaired(p, in, out) ==
    [p EXCEPT !.lineIn  = LineSize(in, p.pixels, p.lineIn),
              !.lineOut = LineSize(out, p.pixels, p.lineOut)]

\* ...and takes a thread for each grain of memory, within the limit.  The sum
\* of the two sizes is one of signed integers.
CountSlices(p, in, out, maxWorkers, cpus) ==
    LET limit   == IF maxWorkers = GuessMaxThreads THEN cpus ELSE maxWorkers
        memory  == Signed(MemSize(in, p.pixels, p.lines, p.lineIn, p.planeIn)
                          + MemSize(out, p.pixels, p.lines, p.lineOut, p.planeOut))
        workers == memory \div Grain
    IN  Wrap(IF workers < 1 THEN 1 ELSE IF workers > limit THEN limit ELSE workers)

(***************************************************************************)
(* Slices are numbered from 0.  Each one takes an equal share of what is   *)
(* left, and the last one takes all that remains at the end.               *)
(***************************************************************************)
Left(i, per, total) == IF i * per < total THEN total - i * per ELSE 0

\* Mutant: what is left because of rounding is forgotten.
ShareRounded(i, n, total) == minimum(total \div n, Left(i, total \div n, total))

Share(i, n, total) ==
    LET per == total \div n
    IN  minimum(per, Left(i, per, total)) + IF i = n - 1 THEN Left(n, per, total) ELSE 0

SlicePerLines(p, n, i) ==
    LET per == p.lines \div n
    IN  [p EXCEPT !.in    = p.in + Wrap(i * per * p.lineIn),
                  !.out   = p.out + Wrap(i * per * p.lineOut),
                  !.lines = Share(i, n, p.lines)]

\* Mutant: pixels are taken for bytes.
SlicePerPixelsUnscaled(p, in, out, n, i) ==
    LET per == p.pixels \div n
    IN  [p EXCEPT !.in = p.in + i * per, !.out = p.out + i * per,
                  !.pixels = Share(i, n, p.pixels)]

SlicePerPixels(p, in, out, n, i) ==
    LET per == p.pixels \div n
    IN  [p EXCEPT !.in     = p.in + Wrap(i * per * PixelSpacing(in)),
                  !.out    = p.out + Wrap(i * per * PixelSpacing(out)),
                  !.pixels = Share(i, n, p.pixels)]

Splittable(p, n) ==
    /\ p.pixels # 0 /\ p.lineIn # 0 /\ p.lineOut # 0
    /\ (IF p.lines <= 1 THEN p.pixels ELSE p.lines) \div n > 0

\* _cmsThrSplitWork, of a piece that is Splittable.
SplitWork(p, in, out, n) ==
    [i \in 0..(n - 1) |-> IF p.lines <= 1 THEN SlicePerPixels(p, in, out, n, i)
                                          ELSE SlicePerLines(p, n, i)]

(***************************************************************************)
(* The bytes a transform routine reads and writes for the k-th pixel.      *)
(***************************************************************************)
Cells(f, base, line, plane, pixels, k) ==
    LET start == base + (k \div pixels) * line + (k % pixels) * PixelSpacing(f)
    IN  IF f.planar
        THEN {start + c * plane + b : c \in 0..(f.channels - 1), b \in 0..(ComponentSize(f) - 1)}
        ELSE start..(start + PixelSpacing(f) - 1)

InCells(p, f, k)  == Cells(f, p.in, p.lineIn, p.planeIn, p.pixels, k)
OutCells(p, f, k) == Cells(f, p.out, p.lineOut, p.planeOut, p.pixels, k)

Pixels(p) == 0..(p.pixels * p.lines - 1)
Written(p, f) == UNION {OutCells(p, f, k) : k \in Pixels(p)}
Touched(p, in, out) == Written(p, out) \cup UNION {InCells(p, in, k) : k \in Pixels(p)}

(***************************************************************************)
(* The call.                                                               *)
(***************************************************************************)
CONSTANTS
    Jobs,           \* the calls: two formats, a piece, and the limit of workers
    CPUs,           \* _cmsThrIdealThreadCount
    MaxSlices,      \* the largest number of slices that can be allocated
    Memory,         \* addresses
    Faults          \* may allocations fail, and threads not be created?

Before  == -1       \* a byte as the caller left it
Garbage == -2       \* an image of bytes that were already overwritten
Nothing == -3       \* a thread has read no pixel that it has yet to write

Workers == 1..(MaxSlices - 1)
Master  == 0

Format == [planar: BOOLEAN, bytes: Nat, channels: Nat]
Piece  == [in: Nat, out: Nat, pixels: Nat, lines: Nat, lineIn: Nat, lineOut: Nat,
           planeIn: Nat, planeOut: Nat]

ASSUME JobAssumption == /\ Jobs \subseteq [in: Format, out: Format, maxWorkers: Int, piece: Piece]
                        /\ \A j \in Jobs : Touched(j.piece, j.in, j.out) \subseteq Memory
ASSUME WorkerAssumption == /\ CPUs \in Nat \ {0} /\ MaxSlices \in Nat \ {0}
                           /\ Faults \in BOOLEAN /\ Memory \subseteq Nat

VARIABLES
    job,        \* the call
    phase,      \* where the calling thread is
    i,          \* its loop variable
    slices,     \* the array of slices, while it is allocated
    thread,     \* what became of the thread of each slice
    task,       \* the piece each thread works on
    pos,        \* how many pixels of it were written
    fetched,    \* the pixel it has read and not yet written
    mem         \* the bitmaps

vars == <<job, phase, i, slices, thread, task, pos, fetched, mem>>
work == <<task, pos, fetched, mem>>

NoSlices == <<>>
nSlices  == CountSlices(job.piece, job.in, job.out, job.maxWorkers, CPUs)
fixed    == Repaired(job.piece, job.in, job.out)

NoTask == [in |-> 0, out |-> 0, pixels |-> 0, lines |-> 0, lineIn |-> 0, lineOut |-> 0,
           planeIn |-> 0, planeOut |-> 0]

Init ==
    /\ job \in Jobs
    /\ phase = "count" /\ i = 0
    /\ slices = NoSlices
    /\ thread = [w \in Workers |-> "none"]
    /\ task = [w \in Workers \cup {Master} |-> NoTask]
    /\ pos = [w \in Workers \cup {Master} |-> 0]
    /\ fetched = [w \in Workers \cup {Master} |-> Nothing]
    /\ mem = [a \in Memory |-> Before]

(***************************************************************************)
(* A transform routine at work on a task: pixel after pixel, it reads one, *)
(* and writes its image.                                                   *)
(***************************************************************************)
Finished(w) == pos[w] = task[w].pixels * task[w].lines /\ fetched[w] = Nothing

ReadPixel(w) ==
    LET cells == InCells(task[w], job.in, pos[w])
        first == CHOOSE a \in cells : \A b \in cells : a <= b
    IN  /\ ~Finished(w) /\ fetched[w] = Nothing
        /\ fetched' = [fetched EXCEPT ![w] = IF \A a \in cells : mem[a] = Before
                                             THEN first ELSE Garbage]
        /\ UNCHANGED <<task, pos, mem>>

WritePixel(w) ==
    LET cells == OutCells(task[w], job.out, pos[w])
    IN  /\ fetched[w] # Nothing
        /\ mem' = [a \in Memory |-> IF a \in cells THEN fetched[w] ELSE mem[a]]
        /\ fetched' = [fetched EXCEPT ![w] = Nothing]
        /\ pos' = [pos EXCEPT ![w] = @ + 1]
        /\ UNCHANGED task

Work(w) == ReadPixel(w) \/ WritePixel(w)

Take(w, piece) == task' = [task EXCEPT ![w] = piece] /\ UNCHANGED <<pos, fetched, mem>>

\* The calling thread does all the work, with the strides it was given.
Alone == phase' = "alone" /\ Take(Master, job.piece) /\ UNCHANGED <<job, i, thread>>

(***************************************************************************)
(* The calling thread.                                                     *)
(***************************************************************************)
Count ==
    /\ phase = "count"
    /\ \/ nSlices <= 1 /\ Alone /\ UNCHANGED slices
       \/ /\ nSlices > 1
          /\ phase' = "allocate" /\ UNCHANGED <<job, i, slices, thread, work>>

\* Blocks from calloc: the slices are not set yet.
Blank == [s \in 0..(nSlices - 1) |-> NoTask]

\* Mutant: the size of the block wraps.
AllocateAny ==
    /\ phase = "allocate"
    /\ slices' = Blank /\ phase' = "split"
    /\ UNCHANGED <<job, i, thread, work>>

Allocate ==
    /\ phase = "allocate"
    /\ \/ /\ nSlices <= MaxSlices
          /\ slices' = Blank /\ phase' = "split"
          /\ UNCHANGED <<job, i, thread, work>>
       \/ /\ nSlices > MaxSlices \/ Faults
          /\ Alone /\ UNCHANGED slices

Split ==
    /\ phase = "split"
    /\ \/ /\ Splittable(fixed, nSlices)
          /\ slices' = SplitWork(fixed, job.in, job.out, nSlices)
          /\ phase' = "create" /\ i' = 1
          /\ UNCHANGED <<job, thread, work>>
       \/ /\ ~Splittable(fixed, nSlices)
          /\ Alone /\ UNCHANGED slices

\* _cmsThrCreateWorker: the handle is NULL if there is no memory or no thread.
Create ==
    /\ phase = "create" /\ i < nSlices
    /\ \E outcome \in {"created"} \cup (IF Faults THEN {"failed"} ELSE {}) :
         thread' = [thread EXCEPT ![i] = outcome]
    /\ i' = i + 1
    /\ UNCHANGED <<job, phase, slices, work>>

DoOwnPortion ==
    /\ phase = "create" /\ i = nSlices
    /\ phase' = "own" /\ Take(Master, slices[0])
    /\ UNCHANGED <<job, i, slices, thread>>

MasterWorks ==
    /\ phase \in {"alone", "own"} /\ Work(Master)
    /\ UNCHANGED <<job, phase, i, slices, thread>>

OwnPortionDone ==
    /\ phase = "own" /\ Finished(Master)
    /\ phase' = "join" /\ i' = 1
    /\ UNCHANGED <<job, slices, thread, work>>

\* Mutant: the calling thread waits for the last of its threads only.
JoinLast ==
    /\ phase = "join" /\ i < nSlices
    /\ thread[nSlices - 1] \in {"ended", "failed"}
    /\ i' = nSlices /\ UNCHANGED <<phase, job, slices, thread, work>>

JoinHangs ==    \* Mutant: a thread that was not created is waited for.
    /\ phase = "join" /\ i < nSlices
    /\ thread[i] = "ended" /\ i' = i + 1 /\ UNCHANGED <<phase, job, slices, thread, work>>

\* _cmsThrJoinWorker waits for the thread.  What joining the null handle does
\* is undefined: an error is signalled, or the program dies.
Join ==
    /\ phase = "join" /\ i < nSlices
    /\ \/ thread[i] = "ended" /\ i' = i + 1 /\ UNCHANGED phase
       \/ thread[i] = "failed" /\ i' = i + 1 /\ UNCHANGED phase
       \/ thread[i] = "failed" /\ phase' = "crashed" /\ UNCHANGED i
    /\ UNCHANGED <<job, slices, thread, work>>

Return ==
    /\ \/ phase = "alone" /\ Finished(Master)
       \/ phase = "join" /\ i = nSlices
    /\ phase' = "returned" /\ slices' = NoSlices
    /\ UNCHANGED <<job, i, thread, work>>

Calling == Count \/ Allocate \/ Split \/ Create \/ DoOwnPortion \/ MasterWorks
           \/ OwnPortionDone \/ Join \/ Return

(***************************************************************************)
(* The other threads.  Each reads its slice when it starts to run, through *)
(* the pointer it was created with; what it finds there once the slices    *)
(* were freed is anything.                                                 *)
(***************************************************************************)
Start(w) ==
    /\ thread[w] = "created"
    /\ phase # "crashed"
    /\ thread' = [thread EXCEPT ![w] = "running"]
    /\ \E piece \in IF slices # NoSlices THEN {slices[w]} ELSE {NoTask, job.piece} :
         Take(w, piece)
    /\ UNCHANGED <<job, phase, i, slices>>

Run(w) ==
    /\ thread[w] = "running" /\ phase # "crashed"
    /\ Work(w)
    /\ UNCHANGED <<job, phase, i, slices, thread>>

End(w) ==
    /\ thread[w] = "running" /\ phase # "crashed"
    /\ Finished(w)
    /\ thread' = [thread EXCEPT ![w] = "ended"]
    /\ UNCHANGED <<job, phase, i, slices, work>>

Working(w) == Start(w) \/ Run(w) \/ End(w)

Next == Calling \/ \E w \in Workers : Working(w)

Spec == Init /\ [][Next]_vars

\* The operating system runs every thread that can run.
Fairness == WF_vars(Calling) /\ \A w \in Workers : WF_vars(Working(w))

FairSpec == Spec /\ Fairness

(***************************************************************************)
(* What it promises.                                                       *)
(***************************************************************************)
Phases == {"count", "allocate", "split", "create", "own", "join", "alone", "returned", "crashed"}

\* Every variable keeps its type: no loop leaves the arrays, no thread its task.
TypeOK ==
    /\ job \in Jobs
    /\ phase \in Phases
    /\ i \in 0..MaxSlices
    /\ slices # NoSlices => nSlices \in 2..MaxSlices /\ DOMAIN slices = 0..(nSlices - 1)
    /\ thread \in [Workers -> {"none", "created", "failed", "running", "ended"}]
    /\ \A w \in Workers \cup {Master} :
         /\ pos[w] \in 0..(task[w].pixels * task[w].lines)
         /\ fetched[w] \in Memory \cup {Garbage, Nothing}
    /\ mem \in [Memory -> Memory \cup {Garbage, Before}]

\* "Memory should not overlap": no slice writes a byte that another one reads
\* or writes.
SlicesApart ==
    phase = "create" =>
      \A s, t \in DOMAIN slices :
         s # t => Written(slices[s], job.out) \cap Touched(slices[t], job.in, job.out) = {}

\* The pixel whose image belongs at an address, by the address it is read from.
Image(a) ==
    IF a \in Written(job.piece, job.out)
    THEN LET k == CHOOSE k \in Pixels(job.piece) : a \in OutCells(job.piece, job.out, k)
         IN  CHOOSE c \in InCells(job.piece, job.in, k) :
                 \A d \in InCells(job.piece, job.in, k) : c <= d
    ELSE Before

\* The bytes of the slices for which there was no thread.
Missing == UNION {Written(SplitWork(fixed, job.in, job.out, nSlices)[w], job.out) :
                    w \in {v \in Workers : thread[v] = "failed"}}

\* A call that returns has converted every pixel of the caller's bitmap, and
\* written nothing else, but for exactly the slices no thread was created for.
ConvertsAll ==
    phase = "returned" => \A a \in Memory : mem[a] = IF a \in Missing THEN Before ELSE Image(a)

\* When the call returns no thread is left that could still use the caller's
\* buffers, and no thread starts from a slice that was freed.
ThreadsEndFirst ==
    /\ phase = "returned" => \A w \in Workers : thread[w] \notin {"created", "running"}
    /\ \A w \in Workers : thread[w] = "created" => w \in DOMAIN slices

\* Every call returns, or dies of the null handle.
CallsComplete == <>(phase \in {"returned", "crashed"})

=============================================================================
