--------------------------- MODULE SchedulerProofs ---------------------------
(***************************************************************************)
(* Facts about the threaded plug-in for bitmaps of any size and any number *)
(* of threads.                                                             *)
(***************************************************************************)
EXTENDS Scheduler, TLAPS

(***************************************************************************)
(* The shares of the slices.                                               *)
(***************************************************************************)

\* An equal share for each slice never exceeds what there is.
LEMMA Quotient ==
    ASSUME NEW n \in Nat \ {0}, NEW total \in Nat
    PROVE  /\ total \div n \in Nat
           /\ n * (total \div n) <= total
           /\ total < n * (total \div n) + n
  OBVIOUS

\* Up to the end of slice s at most the first n shares are taken.
LEMMA Shares ==
    ASSUME NEW n \in Nat \ {0}, NEW per \in Nat, NEW s \in 0..(n - 1)
    PROVE  /\ s * per \in Nat /\ (s + 1) * per = s * per + per
           /\ (s + 1) * per <= n * per
           /\ (n - 1) * per + per = n * per
  OBVIOUS

\* While a full share is left, a share is what is taken.
LEMMA FullShare ==
    ASSUME NEW per \in Nat, NEW total \in Nat, NEW s \in Nat, s * per \in Nat,
           s * per + per <= total
    PROVE  minimum(per, Left(s, per, total)) = per
<1> DEFINE taken == s * per
<1>1. taken \in Nat /\ taken + per <= total
  OBVIOUS
<1>2. Left(s, per, total) = IF taken < total THEN total - taken ELSE 0
  BY DEF Left
<1> HIDE DEF taken
<1>3. Left(s, per, total) = total - taken
  BY <1>1, <1>2
<1> QED  BY <1>1, <1>3 DEF minimum

\* So each slice but the last takes exactly its share, and the last one the rest.
LEMMA ShareValue ==
    ASSUME NEW n \in Nat \ {0}, NEW total \in Nat, NEW s \in 0..(n - 1)
    PROVE  Share(s, n, total) = IF s = n - 1 THEN total - s * (total \div n) ELSE total \div n
<1> DEFINE per == total \div n
<1>1. per \in Nat /\ n * per <= total
  BY Quotient
<1>2. Share(s, n, total) = minimum(per, Left(s, per, total))
                           + IF s = n - 1 THEN Left(n, per, total) ELSE 0
  BY DEF Share
<1> HIDE DEF per
<1>3. s * per \in Nat /\ (s + 1) * per = s * per + per /\ (s + 1) * per <= n * per
      /\ n * per \in Nat
  BY <1>1, Shares
<1>4. minimum(per, Left(s, per, total)) = per
  BY <1>1, <1>3, FullShare
<1>5. Left(n, per, total) = total - n * per
  <2> DEFINE taken == n * per
  <2>1. taken \in Nat /\ taken <= total
    BY <1>1, <1>3
  <2>2. Left(n, per, total) = IF taken < total THEN total - taken ELSE 0
    BY DEF Left
  <2> HIDE DEF taken
  <2>3. Left(n, per, total) = total - taken
    BY <2>1, <2>2
  <2> QED  BY <2>3 DEF taken
<1>6. CASE s = n - 1
  <2>1. s * per + per = n * per
    BY <1>3, <1>6
  <2>2. Share(s, n, total) = per + (total - n * per)
    BY <1>2, <1>4, <1>5, <1>6
  <2>3. Share(s, n, total) = total - s * per
    BY <2>1, <2>2, <1>1, <1>3
  <2> QED  BY <2>3, <1>6 DEF per
<1>7. CASE s # n - 1
  <2>1. Share(s, n, total) = per
    BY <1>1, <1>2, <1>4, <1>7
  <2> QED  BY <2>1, <1>7 DEF per
<1> QED  BY <1>6, <1>7

\* Slices follow each other: one ends where, or before, a later one begins.
LEMMA SlicesFollow ==
    ASSUME NEW n \in Nat \ {0}, NEW total \in Nat,
           NEW s \in 0..(n - 1), NEW t \in 0..(n - 1), s < t
    PROVE  s * (total \div n) + Share(s, n, total) <= t * (total \div n)
<1> DEFINE per == total \div n
<1>1. per \in Nat
  BY Quotient
<1>2. Share(s, n, total) = per
  BY ShareValue
<1> HIDE DEF per
<1>3. s * per \in Nat /\ t * per \in Nat /\ (s + 1) * per = s * per + per
  BY <1>1, Shares
<1>4. (s + 1) * per <= t * per
  BY <1>1
<1> QED  BY <1>2, <1>3, <1>4, <1>1 DEF per

\* None begins or ends outside the bitmap.
LEMMA SlicesInside ==
    ASSUME NEW n \in Nat \ {0}, NEW total \in Nat, NEW s \in 0..(n - 1)
    PROVE  /\ Share(s, n, total) \in Nat
           /\ s * (total \div n) \in Nat
           /\ s * (total \div n) + Share(s, n, total) <= total
           /\ s = n - 1 => s * (total \div n) + Share(s, n, total) = total
<1> DEFINE per == total \div n
<1>1. per \in Nat /\ n * per <= total /\ n * per \in Nat
  BY Quotient
<1>2. Share(s, n, total) = IF s = n - 1 THEN total - s * per ELSE per
  BY ShareValue
<1> HIDE DEF per
<1>3. s * per \in Nat /\ (s + 1) * per = s * per + per /\ (s + 1) * per <= n * per
  BY <1>1, Shares
<1>4. s * per + per <= total
  BY <1>1, <1>3
<1> QED  BY <1>1, <1>2, <1>3, <1>4 DEF per

\* Every line, or pixel, of a bitmap that is cut in at most as many slices as
\* it has lines belongs to exactly one slice (_cmsThrSplitWork and its loops).
THEOREM SlicesPartition ==
    ASSUME NEW n \in Nat \ {0}, NEW total \in Nat, total \div n > 0,
           NEW x \in 0..(total - 1)
    PROVE  \E s \in 0..(n - 1) :
             /\ x \in (s * (total \div n))..(s * (total \div n) + Share(s, n, total) - 1)
             /\ \A t \in 0..(n - 1) :
                  x \in (t * (total \div n))..(t * (total \div n) + Share(t, n, total) - 1) => t = s
<1> DEFINE per == total \div n
           Of(s) == (s * per)..(s * per + Share(s, n, total) - 1)
<1>1. per \in Nat /\ per > 0
  BY Quotient
<1>2. \A s \in 0..(n - 1) : /\ Share(s, n, total) \in Nat /\ s * per \in Nat
                            /\ s = n - 1 => s * per + Share(s, n, total) = total
                            /\ s # n - 1 => Share(s, n, total) = per
  BY SlicesInside, ShareValue
<1>3. \A s, t \in 0..(n - 1) : s < t => s * per + Share(s, n, total) <= t * per
  BY SlicesFollow
<1> HIDE DEF per
<1>4. \A s, t \in 0..(n - 1) : x \in Of(s) /\ x \in Of(t) => t = s
  <2> SUFFICES ASSUME NEW s \in 0..(n - 1), NEW t \in 0..(n - 1), s < t, x \in Of(s), x \in Of(t)
               PROVE FALSE
    OBVIOUS
  <2>1. s * per + Share(s, n, total) <= t * per
    BY <1>3
  <2>2. x < s * per + Share(s, n, total) /\ x >= t * per
    BY <1>2
  <2>3. s * per \in Nat /\ t * per \in Nat /\ Share(s, n, total) \in Nat
    BY <1>2
  <2> QED  BY <2>1, <2>2, <2>3
<1> DEFINE q == x \div per
<1>5. q \in Nat /\ q * per <= x /\ x < q * per + per
  BY <1>1
<1> HIDE DEF q
<1>6. \E s \in 0..(n - 1) : x \in Of(s)
  <2>1. CASE q < n - 1
    <3>1. q \in 0..(n - 1) /\ Share(q, n, total) = per /\ q * per \in Nat
      BY <2>1, <1>2, <1>5
    <3> QED  BY <3>1, <1>1, <1>5
  <2>2. CASE q >= n - 1
    <3>1. n - 1 \in 0..(n - 1)
      OBVIOUS
    <3>2. (n - 1) * per <= q * per
      BY <2>2, <1>1, <1>5
    <3>3. (n - 1) * per \in Nat /\ (n - 1) * per + Share(n - 1, n, total) = total
      BY <1>2, <3>1
    <3>4. q * per \in Nat
      BY <1>1, <1>5
    <3>5. (n - 1) * per <= x
      BY <3>2, <3>3, <3>4, <1>5
    <3> DEFINE first == (n - 1) * per
    <3>6. /\ first \in Nat /\ first <= x /\ first + Share(n - 1, n, total) = total
          /\ Share(n - 1, n, total) \in Nat
      BY <1>2, <3>1, <3>3, <3>5
    <3>7. Of(n - 1) = first..(first + Share(n - 1, n, total) - 1)
      OBVIOUS
    <3> HIDE DEF first, Of
    <3>8. x \in Of(n - 1)
      BY <3>6, <3>7
    <3> QED  BY <3>1, <3>8
  <2> QED  BY <2>1, <2>2, <1>5
<1>7. PICK s \in 0..(n - 1) : x \in Of(s)
  BY <1>6
<1>8. \A t \in 0..(n - 1) : x \in Of(t) => t = s
  BY <1>4, <1>7
<1> QED  BY <1>7, <1>8 DEF per

(***************************************************************************)
(* The threads of a call.                                                  *)
(***************************************************************************)

Over == {"ended", "failed"}

\* How far the calling thread is says which threads there can be.
Threads ==
    /\ phase \in {"count", "allocate", "split", "alone"} => \A w \in Workers : thread[w] = "none"
    /\ phase = "create" => /\ i \in 1..nSlices
                           /\ \A w \in Workers : w >= i => thread[w] = "none"
    /\ phase \in {"own", "join", "crashed"} => \A w \in Workers : w >= nSlices => thread[w] = "none"
    /\ phase = "own" => i = nSlices
    /\ phase = "join" => i \in 1..nSlices /\ \A w \in Workers : w < i => thread[w] \in Over
    /\ phase = "returned" => \A w \in Workers : thread[w] \in Over \cup {"none"}

\* While threads are created and joined, there is a slice for each.
SlicesThere ==
    /\ phase # "count" /\ phase \notin {"alone", "returned"} => nSlices > 1
    /\ phase \in {"create", "own", "join", "crashed"} =>
         /\ slices # NoSlices
         /\ DOMAIN slices = 0..(nSlices - 1)

ThreadInv ==
    /\ job \in Jobs /\ phase \in Phases
    /\ thread \in [Workers -> Over \cup {"none", "created", "running"}]
    /\ Threads /\ SlicesThere

\* The number of slices is a natural number, and no step changes it.
LEMMA NumberOfSlices ==
    ASSUME job \in Jobs
    PROVE  nSlices \in Nat
<1> USE JobAssumption, WorkerAssumption, WordAssumption
<1>1. /\ job.piece \in Piece /\ job.in \in Format /\ job.out \in Format
      /\ job.maxWorkers \in Int
  OBVIOUS
<1>2. \A x \in Int : Wrap(x) \in Nat /\ Signed(x) \in Int
  BY DEF Wrap, Signed
<1>3. ASSUME NEW f \in Format, NEW a \in Nat, NEW b \in Nat, NEW c \in Nat, NEW d \in Nat
      PROVE  MemSize(f, a, b, c, d) \in Nat
  <2>1. ComponentSize(f) \in Nat /\ f.channels \in Nat /\ f.planar \in BOOLEAN
    BY DEF Format, ComponentSize
  <2>2. ComponentSize(f) * f.channels \in Nat
    BY <2>1
  <2>3. PixelSpacing(f) \in Nat
    BY <2>1, <2>2 DEF PixelSpacing
  <2>4. PixelSpacing(f) * a \in Nat
    BY <2>3
  <2>5. LineSize(f, a, c) \in Nat
    BY <2>4, <1>2 DEF LineSize
  <2>6. b * LineSize(f, a, c) \in Nat /\ f.channels * d \in Nat
    BY <2>1, <2>5
  <2> QED  BY <2>6, <1>2 DEF MemSize
<1>4. /\ MemSize(job.in, job.piece.pixels, job.piece.lines, job.piece.lineIn, job.piece.planeIn) \in Nat
      /\ MemSize(job.out, job.piece.pixels, job.piece.lines, job.piece.lineOut, job.piece.planeOut) \in Nat
  BY <1>1, <1>3 DEF Piece
<1>5. \A x \in Int : x \div Grain \in Int
  OBVIOUS
<1> QED  BY <1>1, <1>2, <1>4, <1>5 DEF nSlices, CountSlices

LEMMA ThreadInvInit == Init => ThreadInv
  BY DEF Init, ThreadInv, Threads, SlicesThere, Phases, Over

LEMMA JobStays ==
    ASSUME Next \/ UNCHANGED vars
    PROVE  job' = job /\ nSlices' = nSlices
<1>1. job' = job
  <2>1. CASE Calling
    BY <2>1 DEF Calling, Count, Allocate, Split, Create, DoOwnPortion, MasterWorks,
                OwnPortionDone, Join, Return, Alone
  <2>2. CASE \E w \in Workers : Working(w)
    BY <2>2 DEF Working, Start, Run, End
  <2>3. CASE UNCHANGED vars
    BY <2>3 DEF vars
  <2> QED  BY <2>1, <2>2, <2>3 DEF Next
<1> QED  BY <1>1 DEF nSlices

\* The calling thread: one step for each of its actions.
LEMMA ThreadInvCalling ==
    ASSUME ThreadInv, Calling
    PROVE  ThreadInv'
<1> USE DEF ThreadInv, Threads, SlicesThere, Phases, Over
<1>1. job' = job /\ nSlices' = nSlices /\ nSlices \in Nat
  BY JobStays, NumberOfSlices DEF Next
<1>2. CASE Count
  BY <1>1, <1>2 DEF Count, Alone
<1>3. CASE Allocate
  BY <1>1, <1>3 DEF Allocate, Alone
<1>4. CASE Split
  <2>1. CASE phase' = "alone" /\ thread' = thread
    BY <1>1, <1>4, <2>1 DEF Split
  <2>2. CASE phase' = "create" /\ i' = 1 /\ thread' = thread
                /\ slices' = SplitWork(fixed, job.in, job.out, nSlices)
    <3>1. DOMAIN slices' = 0..(nSlices - 1)
      BY <2>2 DEF SplitWork
    <3>2. nSlices > 1 /\ slices' # NoSlices
      <4>1. nSlices > 1
        BY <1>4 DEF Split
      <4>2. 0 \in DOMAIN slices' /\ DOMAIN NoSlices = {}
        BY <3>1, <4>1, <1>1 DEF NoSlices
      <4> QED  BY <4>1, <4>2
    <3> QED  BY <1>1, <1>4, <2>2, <3>1, <3>2 DEF Split
  <2> QED  BY <1>4, <2>1, <2>2 DEF Split, Alone
<1>5. CASE Create
  <2>1. /\ phase = "create" /\ i < nSlices /\ phase' = phase /\ i' = i + 1 /\ slices' = slices
        /\ i \in 1..nSlices
    BY <1>5 DEF Create
  <2>2. PICK o \in {"created", "failed"} : thread' = [thread EXCEPT ![i] = o]
    BY <1>5 DEF Create
  <2>3. \A w \in Workers : w >= i' => thread'[w] = "none"
    BY <2>1, <2>2, <1>1 DEF Workers
  <2>4. thread' \in [Workers -> Over \cup {"none", "created", "running"}]
    BY <2>2
  <2> QED  BY <1>1, <2>1, <2>3, <2>4
<1>6. CASE DoOwnPortion
  BY <1>1, <1>6 DEF DoOwnPortion
<1>7. CASE MasterWorks
  BY <1>1, <1>7 DEF MasterWorks
<1>8. CASE OwnPortionDone
  BY <1>1, <1>8 DEF OwnPortionDone, Workers
<1>9. CASE Join
  <2>1. phase = "join" /\ i < nSlices /\ thread' = thread /\ slices' = slices /\ i \in 1..nSlices
    BY <1>9 DEF Join
  <2>2. CASE phase' = "join" /\ i' = i + 1 /\ thread[i] \in Over
    <3>1. \A w \in Workers : w < i + 1 => thread[w] \in Over
      BY <2>1, <2>2, <1>1 DEF Workers
    <3> QED  BY <1>1, <2>1, <2>2, <3>1
  <2>3. CASE phase' = "crashed" /\ i' = i
    BY <1>1, <2>1, <2>3
  <2> QED  BY <1>9, <2>1, <2>2, <2>3 DEF Join
<1>10. CASE Return
  <2>1. \A w \in Workers : thread[w] \in Over \cup {"none"}
    BY <1>1, <1>10 DEF Return, Workers
  <2> QED  BY <1>1, <1>10, <2>1 DEF Return
<1> QED  BY <1>2, <1>3, <1>4, <1>5, <1>6, <1>7, <1>8, <1>9, <1>10 DEF Calling

\* The other threads only move on from "created" and from "running".
LEMMA ThreadInvWorking ==
    ASSUME ThreadInv, NEW w \in Workers, Working(w)
    PROVE  ThreadInv'
<1> USE DEF ThreadInv, Threads, SlicesThere, Phases, Over
<1>1. job' = job /\ nSlices' = nSlices
  BY JobStays DEF Next
<1>2. CASE Run(w)
  BY <1>1, <1>2 DEF Run
<1>3. CASE Start(w) \/ End(w)
  <2>1. PICK now \in {"running", "ended"} : thread' = [thread EXCEPT ![w] = now]
    BY <1>3 DEF Start, End
  <2>2. thread[w] \in {"created", "running"} /\ UNCHANGED <<phase, i, slices>>
    BY <1>3 DEF Start, End
  <2>3. thread' \in [Workers -> Over \cup {"none", "created", "running"}]
    BY <2>1
  <2>4. \A v \in Workers : v # w => thread'[v] = thread[v]
    BY <2>1
  <2>5. Threads'
    <3>1. \A v \in Workers : thread[v] \in Over \cup {"none"} => thread'[v] = thread[v]
      BY <2>2, <2>4
    <3> QED  BY <1>1, <2>2, <3>1
  <2> QED  BY <1>1, <2>2, <2>3, <2>5
<1> QED  BY <1>2, <1>3 DEF Working

LEMMA ThreadInvStutter == ThreadInv /\ UNCHANGED vars => ThreadInv'
  BY DEF ThreadInv, Threads, SlicesThere, Phases, Over, vars, nSlices, Workers

THEOREM ThreadInvariance == Spec => []ThreadInv
<1>1. ThreadInv /\ [Next]_vars => ThreadInv'
  BY ThreadInvCalling, ThreadInvWorking, ThreadInvStutter DEF Next
<1> QED  BY <1>1, ThreadInvInit, PTL DEF Spec

\* Whatever the number of threads and their speed, and whichever of them could
\* not be created: when _cmsThrScheduler returns no thread is left that uses
\* the caller's buffers, and none starts from a slice that was freed.
THEOREM NoThreadSurvives == Spec => []ThreadsEndFirst
<1>1. ThreadInv => ThreadsEndFirst
  <2> SUFFICES ASSUME ThreadInv PROVE ThreadsEndFirst
    OBVIOUS
  <2> USE DEF ThreadInv, Threads, SlicesThere, Phases, Over
  <2>1. phase = "returned" => \A w \in Workers : thread[w] \notin {"created", "running"}
    OBVIOUS
  <2>2. ASSUME NEW w \in Workers, thread[w] = "created"
        PROVE  w \in DOMAIN slices
    <3>1. phase \in {"create", "own", "join", "crashed"}
      BY <2>2
    <3>2. nSlices \in Nat /\ w \in Nat /\ w >= 1
      BY NumberOfSlices DEF Workers
    <3>3. w < nSlices
      BY <2>2, <3>1, <3>2
    <3> QED  BY <3>1, <3>2, <3>3
  <2> QED  BY <2>1, <2>2 DEF ThreadsEndFirst
<1> QED  BY <1>1, ThreadInvariance, PTL

(***************************************************************************)
(* The bytes of the slices.  A slice takes the units first..last-1 of a    *)
(* buffer: lines if there are several, pixels if there is only one.        *)
(***************************************************************************)
Region(base, unit, first, last) == (base + first * unit)..(base + last * unit - 1)

Total(p) == IF p.lines <= 1 THEN p.pixels ELSE p.lines
Unit(p, f, line) == IF p.lines <= 1 THEN PixelSpacing(f) ELSE line

\* Calls of the ordinary kind: chunky formats, lines as long as their pixels
\* take, buffers that a word can measure and that are either apart or the same
\* buffer in the same format.
Fits(j) ==
    LET p == Repaired(j.piece, j.in, j.out)
        in == Unit(p, j.in, p.lineIn)
        out == Unit(p, j.out, p.lineOut)
    IN  /\ ~j.in.planar /\ ~j.out.planar
        /\ p.lines > 1 => /\ p.pixels * PixelSpacing(j.in) <= p.lineIn
                          /\ p.pixels * PixelSpacing(j.out) <= p.lineOut
        /\ Total(p) * in < WordSize /\ Total(p) * out < WordSize
        /\ \/ p.in + Total(p) * in <= p.out
           \/ p.out + Total(p) * out <= p.in
           \/ p.in = p.out /\ in = out

\* Regions of units that follow each other do not meet.
LEMMA RegionsFollow ==
    ASSUME NEW base \in Nat, NEW unit \in Nat, NEW a \in Nat, NEW b \in Nat,
           NEW c \in Nat, NEW d \in Nat, b <= c
    PROVE  Region(base, unit, a, b) \cap Region(base, unit, c, d) = {}
<1> DEFINE ub == b * unit
           uc == c * unit
<1>1. ub \in Nat /\ uc \in Nat /\ ub <= uc /\ a * unit \in Nat /\ d * unit \in Nat
  <2>1. \E e \in Nat : c = b + e
    <3>1. c - b \in Nat /\ c = b + (c - b)
      OBVIOUS
    <3> QED  BY <3>1
  <2>2. PICK e \in Nat : c = b + e
    BY <2>1
  <2>3. c * unit = b * unit + e * unit /\ e * unit \in Nat
    BY <2>2
  <2> QED  BY <2>3
<1> HIDE DEF ub, uc
<1> QED  BY <1>1 DEF Region, ub, uc

LEMMA Scaled ==
    ASSUME NEW a \in Nat, NEW b \in Nat, a <= b, NEW unit \in Nat
    PROVE  a * unit <= b * unit /\ a * unit \in Nat /\ b * unit \in Nat
<1>1. PICK e \in Nat : b = a + e
  <2>1. b - a \in Nat /\ b = a + (b - a)
    OBVIOUS
  <2> QED  BY <2>1
<1>2. b * unit = a * unit + e * unit /\ e * unit \in Nat /\ a * unit \in Nat
  BY <1>1
<1> QED  BY <1>2

\* Nor do regions of two buffers that are apart.
LEMMA RegionsApart ==
    ASSUME NEW base \in Nat, NEW unit \in Nat, NEW a \in Nat, NEW b \in Nat,
           NEW other \in Nat, NEW step \in Nat, NEW c \in Nat, NEW d \in Nat,
           base + b * unit <= other
    PROVE  Region(base, unit, a, b) \cap Region(other, step, c, d) = {}
<1> DEFINE ub == b * unit
           start == other + c * step
<1>1. ub \in Nat /\ base + ub <= other /\ a * unit \in Nat /\ d * step \in Nat
      /\ start \in Nat /\ start >= other
  OBVIOUS
<1> HIDE DEF ub
<1>2. \A x \in Region(base, unit, a, b) : x < base + ub
  BY <1>1 DEF Region, ub
<1>3. \A x \in Region(other, step, c, d) : x >= other
  BY <1>1 DEF Region
<1> HIDE DEF start
<1>4. Region(base, unit, a, b) \subseteq Int /\ Region(other, step, c, d) \subseteq Int
  BY DEF Region
<1> QED  BY <1>1, <1>2, <1>3, <1>4

LEMMA SpacingType ==
    ASSUME NEW f \in Format
    PROVE  PixelSpacing(f) \in Nat
<1>1. ComponentSize(f) \in Nat /\ f.channels \in Nat
  BY DEF Format, ComponentSize
<1>2. ComponentSize(f) * f.channels \in Nat
  BY <1>1
<1> QED  BY <1>1, <1>2 DEF PixelSpacing

\* The pixels of a piece lie in its lines.
LEMMA CellsInside ==
    ASSUME NEW f \in Format, ~f.planar, NEW base \in Nat, NEW line \in Nat, NEW plane \in Nat,
           NEW pixels \in Nat, NEW lines \in Nat, NEW k \in 0..(pixels * lines - 1),
           pixels * PixelSpacing(f) <= line
    PROVE  Cells(f, base, line, plane, pixels, k) \subseteq Region(base, line, 0, lines)
<1> DEFINE q == k \div pixels
           r == k % pixels
           sp == PixelSpacing(f)
<1>0. sp \in Nat
  BY SpacingType
<1>1. pixels > 0
  <2> SUFFICES ASSUME pixels = 0 PROVE FALSE
    OBVIOUS
  <2>1. pixels * lines = 0
    OBVIOUS
  <2> QED  BY <2>1
<1>2. q \in Nat /\ r \in Nat /\ r + 1 <= pixels /\ k = q * pixels + r
  BY <1>1
<1>3. Cells(f, base, line, plane, pixels, k)
        = (base + q * line + r * sp)..(base + q * line + r * sp + sp - 1)
  BY DEF Cells
<1> HIDE DEF q, r, sp
<1>4. q < lines
  <2> SUFFICES ASSUME q >= lines PROVE FALSE
    BY <1>2
  <2>1. PICK e \in Nat : q = lines + e
    <3>1. q - lines \in Nat /\ q = lines + (q - lines)
      BY <1>2
    <3> QED  BY <3>1
  <2>2. q * pixels = lines * pixels + e * pixels /\ e * pixels \in Nat /\ pixels * lines \in Nat
    BY <2>1
  <2> QED  BY <1>2, <2>2
<1>5. r * sp + sp <= line /\ r * sp \in Nat
  <2>1. PICK e \in Nat : pixels = r + 1 + e
    <3>1. pixels - (r + 1) \in Nat /\ pixels = r + 1 + (pixels - (r + 1))
      BY <1>2
    <3> QED  BY <3>1
  <2>2. pixels * sp = r * sp + sp + e * sp /\ e * sp \in Nat /\ r * sp \in Nat
    BY <2>1, <1>0, <1>2
  <2>3. pixels * sp <= line
    BY DEF sp
  <2> QED  BY <2>2, <2>3, <1>0
<1>6. q * line + line <= lines * line /\ q * line \in Nat
  <2>1. PICK e \in Nat : lines = q + 1 + e
    <3>1. lines - (q + 1) \in Nat /\ lines = q + 1 + (lines - (q + 1))
      BY <1>2, <1>4
    <3> QED  BY <3>1
  <2>2. lines * line = q * line + line + e * line /\ e * line \in Nat /\ q * line \in Nat
    BY <2>1, <1>2
  <2> QED  BY <2>2
<1>7. lines * line \in Nat /\ 0 * line = 0
  OBVIOUS
<1> DEFINE ql == q * line
           rs == r * sp
           ll == lines * line
<1>8. /\ ql \in Nat /\ rs \in Nat /\ ll \in Nat /\ rs + sp <= line /\ ql + line <= ll
      /\ Cells(f, base, line, plane, pixels, k) = (base + ql + rs)..(base + ql + rs + sp - 1)
      /\ Region(base, line, 0, lines) = base..(base + ll - 1)
  BY <1>3, <1>5, <1>6, <1>7 DEF Region
<1> HIDE DEF ql, rs, ll
<1> QED  BY <1>0, <1>8

LEMMA CellsOfOneLine ==
    ASSUME NEW f \in Format, ~f.planar, NEW base \in Nat, NEW line \in Nat, NEW plane \in Nat,
           NEW pixels \in Nat, NEW k \in 0..(pixels - 1)
    PROVE  Cells(f, base, line, plane, pixels, k) \subseteq Region(base, PixelSpacing(f), 0, pixels)
<1> DEFINE sp == PixelSpacing(f)
<1>1. sp \in Nat
  BY SpacingType
<1>2. k \div pixels = 0 /\ k % pixels = k /\ 0 * line = 0
  OBVIOUS
<1>3. Cells(f, base, line, plane, pixels, k) = (base + k * sp)..(base + k * sp + sp - 1)
  BY <1>2 DEF Cells
<1> HIDE DEF sp
<1>4. k * sp + sp <= pixels * sp /\ k * sp \in Nat /\ pixels * sp \in Nat
  <2>1. PICK e \in Nat : pixels = k + 1 + e
    <3>1. pixels - (k + 1) \in Nat /\ pixels = k + 1 + (pixels - (k + 1))
      OBVIOUS
    <3> QED  BY <3>1
  <2>2. pixels * sp = k * sp + sp + e * sp /\ e * sp \in Nat /\ k * sp \in Nat
    BY <2>1, <1>1
  <2> QED  BY <2>2, <1>1
<1> DEFINE ks == k * sp
           ps == pixels * sp
<1>5. /\ ks \in Nat /\ ps \in Nat /\ ks + sp <= ps
      /\ Cells(f, base, line, plane, pixels, k) = (base + ks)..(base + ks + sp - 1)
      /\ Region(base, sp, 0, pixels) = base..(base + ps - 1)
  BY <1>1, <1>3, <1>4 DEF Region
<1> HIDE DEF ks, ps
<1>6. Cells(f, base, line, plane, pixels, k) \subseteq Region(base, sp, 0, pixels)
  BY <1>1, <1>5
<1> QED  BY <1>6 DEF sp

\* A region counted from its own first unit.
LEMMA RegionShifted ==
    ASSUME NEW base \in Nat, NEW unit \in Nat, NEW a \in Nat, NEW size \in Nat
    PROVE  Region(base + a * unit, unit, 0, size) = Region(base, unit, a, a + size)
<1>1. (a + size) * unit = a * unit + size * unit /\ 0 * unit = 0
      /\ a * unit \in Nat /\ size * unit \in Nat
  OBVIOUS
<1> DEFINE au == a * unit
           su == size * unit
<1>2. /\ au \in Nat /\ su \in Nat
      /\ Region(base + au, unit, 0, size) = (base + au)..(base + au + su - 1)
      /\ Region(base, unit, a, a + size) = (base + au)..(base + (au + su) - 1)
  BY <1>1 DEF Region
<1> HIDE DEF au, su
<1>3. Region(base + au, unit, 0, size) = Region(base, unit, a, a + size)
  BY <1>2
<1> QED  BY <1>3 DEF au

\* An offset inside a buffer that a word can measure does not wrap.
LEMMA NoWrap ==
    ASSUME NEW unit \in Nat, NEW total \in Nat, NEW a \in Nat, a <= total,
           total * unit < WordSize
    PROVE  Wrap(a * unit) = a * unit /\ a * unit \in Nat
<1>1. a * unit <= total * unit /\ a * unit \in Nat /\ total * unit \in Nat
  BY Scaled
<1> DEFINE au == a * unit
<1>3. au \in Nat /\ au < WordSize /\ WordSize \in Nat \ {0}
  BY <1>1, WordAssumption
<1> HIDE DEF au
<1>4. Wrap(au) = au
  BY <1>3 DEF Wrap
<1> QED  BY <1>3, <1>4 DEF au

\* The bytes that a slice of lines covers in one of its buffers.
LEMMA SliceOfLines ==
    ASSUME NEW f \in Format, ~f.planar, NEW base \in Nat, NEW line \in Nat, NEW plane \in Nat,
           NEW pixels \in Nat, pixels * PixelSpacing(f) <= line,
           NEW first \in Nat, NEW share \in Nat, NEW k \in 0..(pixels * share - 1)
    PROVE  Cells(f, base + first * line, line, plane, pixels, k)
             \subseteq Region(base, line, first, first + share)
<1>1. base + first * line \in Nat
  OBVIOUS
<1>2. Region(base + first * line, line, 0, share) = Region(base, line, first, first + share)
  BY RegionShifted
<1>3. \A start \in Nat :
        Cells(f, start, line, plane, pixels, k) \subseteq Region(start, line, 0, share)
  BY CellsInside
<1> QED  BY <1>1, <1>2, <1>3, Zenon

\* The bytes that a slice of the pixels of one line covers.
LEMMA SliceOfPixels ==
    ASSUME NEW f \in Format, ~f.planar, NEW base \in Nat, NEW line \in Nat, NEW plane \in Nat,
           NEW first \in Nat, NEW share \in Nat, NEW k \in 0..(share - 1)
    PROVE  Cells(f, base + first * PixelSpacing(f), line, plane, share, k)
             \subseteq Region(base, PixelSpacing(f), first, first + share)
<1> DEFINE sp == PixelSpacing(f)
<1>0. sp \in Nat
  BY SpacingType
<1>1. base + first * sp \in Nat
  BY <1>0
<1>2. Region(base + first * sp, sp, 0, share) = Region(base, sp, first, first + share)
  BY <1>0, RegionShifted
<1>3. \A start \in Nat :
        Cells(f, start, line, plane, share, k) \subseteq Region(start, sp, 0, share)
  BY CellsOfOneLine
<1> QED  BY <1>1, <1>2, <1>3, Zenon

\* What SplitWork makes of a piece whose offsets do not wrap: each slice reads
\* and writes within its own units.
LEMMA SliceWithin ==
    ASSUME NEW p \in Piece, NEW in \in Format, NEW out \in Format, ~in.planar, ~out.planar,
           NEW n \in Nat \ {0}, NEW s \in 0..(n - 1), NEW total, total = Total(p),
           p.lines > 1 => /\ p.pixels * PixelSpacing(in) <= p.lineIn
                          /\ p.pixels * PixelSpacing(out) <= p.lineOut,
           total * Unit(p, in, p.lineIn) < WordSize,
           total * Unit(p, out, p.lineOut) < WordSize,
           NEW first, first = s * (total \div n),
           NEW last, last = first + Share(s, n, total),
           NEW slice, slice = SplitWork(p, in, out, n)[s]
    PROVE  /\ Written(slice, out) \subseteq Region(p.out, Unit(p, out, p.lineOut), first, last)
           /\ Touched(slice, in, out) \subseteq
                Region(p.out, Unit(p, out, p.lineOut), first, last)
                  \cup Region(p.in, Unit(p, in, p.lineIn), first, last)
<1> DEFINE share == Share(s, n, total)
<1>1. p.in \in Nat /\ p.out \in Nat /\ p.pixels \in Nat /\ p.lines \in Nat /\ p.lineIn \in Nat
      /\ p.lineOut \in Nat /\ p.planeIn \in Nat /\ p.planeOut \in Nat
  BY DEF Piece
<1>2. total \in Nat
  BY <1>1 DEF Total
<1>3. share \in Nat /\ first \in Nat /\ last = first + share /\ last <= total
  BY <1>2, SlicesInside
<1>4. PixelSpacing(in) \in Nat /\ PixelSpacing(out) \in Nat
  BY SpacingType
<1>5. CASE p.lines <= 1
  <2>1. total = p.pixels /\ Unit(p, in, p.lineIn) = PixelSpacing(in)
        /\ Unit(p, out, p.lineOut) = PixelSpacing(out)
    BY <1>5 DEF Total, Unit
  <2>2. slice = SlicePerPixels(p, in, out, n, s)
    BY <1>5 DEF SplitWork
  <2>3. /\ Wrap(first * PixelSpacing(in)) = first * PixelSpacing(in)
        /\ Wrap(first * PixelSpacing(out)) = first * PixelSpacing(out)
    <3>1. first <= total
      BY <1>3, <1>2
    <3> QED  BY <3>1, <1>2, <1>3, <1>4, <2>1, NoWrap
  <2>4. slice = [p EXCEPT !.in = p.in + first * PixelSpacing(in),
                          !.out = p.out + first * PixelSpacing(out), !.pixels = share]
    BY <2>1, <2>2, <2>3 DEF SlicePerPixels
  <2>5. /\ slice.in = p.in + first * PixelSpacing(in)
        /\ slice.out = p.out + first * PixelSpacing(out)
        /\ slice.pixels = share /\ slice.lines = p.lines
        /\ slice.lineIn = p.lineIn /\ slice.lineOut = p.lineOut
        /\ slice.planeIn = p.planeIn /\ slice.planeOut = p.planeOut
    BY <2>4 DEF Piece
  <2>6. Pixels(slice) \subseteq 0..(share - 1)
    <3>1. p.lines \in {0, 1}
      BY <1>1, <1>5
    <3>2. share * 0 = 0 /\ share * 1 = share
      BY <1>3
    <3> QED  BY <2>5, <3>1, <3>2, <1>3 DEF Pixels
  <2>7. \A k \in 0..(share - 1) :
          /\ OutCells(slice, out, k) \subseteq Region(p.out, PixelSpacing(out), first, last)
          /\ InCells(slice, in, k) \subseteq Region(p.in, PixelSpacing(in), first, last)
    <3> SUFFICES ASSUME NEW k \in 0..(share - 1)
                 PROVE  /\ OutCells(slice, out, k) \subseteq Region(p.out, PixelSpacing(out), first, last)
                        /\ InCells(slice, in, k) \subseteq Region(p.in, PixelSpacing(in), first, last)
      OBVIOUS
    <3>1. OutCells(slice, out, k)
            = Cells(out, p.out + first * PixelSpacing(out), p.lineOut, p.planeOut, share, k)
      BY <2>5, Zenon DEF OutCells
    <3>2. InCells(slice, in, k)
            = Cells(in, p.in + first * PixelSpacing(in), p.lineIn, p.planeIn, share, k)
      BY <2>5, Zenon DEF InCells
    <3>3. Cells(out, p.out + first * PixelSpacing(out), p.lineOut, p.planeOut, share, k)
            \subseteq Region(p.out, PixelSpacing(out), first, first + share)
      BY <1>1, <1>3, SliceOfPixels, Zenon
    <3>4. Cells(in, p.in + first * PixelSpacing(in), p.lineIn, p.planeIn, share, k)
            \subseteq Region(p.in, PixelSpacing(in), first, first + share)
      BY <1>1, <1>3, SliceOfPixels, Zenon
    <3> QED  BY <1>3, <3>1, <3>2, <3>3, <3>4, Zenon
  <2> QED  BY <2>1, <2>6, <2>7 DEF Written, Touched
<1>6. CASE p.lines > 1
  <2>1. total = p.lines /\ Unit(p, in, p.lineIn) = p.lineIn /\ Unit(p, out, p.lineOut) = p.lineOut
    BY <1>1, <1>6 DEF Total, Unit
  <2>2. slice = SlicePerLines(p, n, s)
    BY <1>1, <1>6 DEF SplitWork
  <2>3. Wrap(first * p.lineIn) = first * p.lineIn /\ Wrap(first * p.lineOut) = first * p.lineOut
    <3>1. first <= total
      BY <1>3, <1>2
    <3> QED  BY <3>1, <1>1, <1>2, <1>3, <2>1, NoWrap
  <2>4. slice = [p EXCEPT !.in = p.in + first * p.lineIn,
                          !.out = p.out + first * p.lineOut, !.lines = share]
    BY <2>1, <2>2, <2>3 DEF SlicePerLines
  <2>5. /\ slice.in = p.in + first * p.lineIn
        /\ slice.out = p.out + first * p.lineOut
        /\ slice.lines = share /\ slice.pixels = p.pixels
        /\ slice.lineIn = p.lineIn /\ slice.lineOut = p.lineOut
        /\ slice.planeIn = p.planeIn /\ slice.planeOut = p.planeOut
    BY <2>4 DEF Piece
  <2>6. Pixels(slice) = 0..(p.pixels * share - 1)
    BY <2>5 DEF Pixels
  <2>7. \A k \in 0..(p.pixels * share - 1) :
          /\ OutCells(slice, out, k) \subseteq Region(p.out, p.lineOut, first, last)
          /\ InCells(slice, in, k) \subseteq Region(p.in, p.lineIn, first, last)
    <3> SUFFICES ASSUME NEW k \in 0..(p.pixels * share - 1)
                 PROVE  /\ OutCells(slice, out, k) \subseteq Region(p.out, p.lineOut, first, last)
                        /\ InCells(slice, in, k) \subseteq Region(p.in, p.lineIn, first, last)
      OBVIOUS
    <3>1. OutCells(slice, out, k)
            = Cells(out, p.out + first * p.lineOut, p.lineOut, p.planeOut, p.pixels, k)
      BY <2>5, Zenon DEF OutCells
    <3>2. InCells(slice, in, k)
            = Cells(in, p.in + first * p.lineIn, p.lineIn, p.planeIn, p.pixels, k)
      BY <2>5, Zenon DEF InCells
    <3>3. Cells(out, p.out + first * p.lineOut, p.lineOut, p.planeOut, p.pixels, k)
            \subseteq Region(p.out, p.lineOut, first, first + share)
      BY <1>1, <1>3, <1>6, SliceOfLines, Zenon
    <3>4. Cells(in, p.in + first * p.lineIn, p.lineIn, p.planeIn, p.pixels, k)
            \subseteq Region(p.in, p.lineIn, first, first + share)
      BY <1>1, <1>3, <1>6, SliceOfLines, Zenon
    <3> QED  BY <1>3, <3>1, <3>2, <3>3, <3>4, Zenon
  <2> QED  BY <2>1, <2>6, <2>7 DEF Written, Touched
<1> QED  BY <1>1, <1>5, <1>6

LEMMA RepairedType ==
    ASSUME NEW p \in Piece, NEW in \in Format, NEW out \in Format
    PROVE  Repaired(p, in, out) \in Piece
<1>1. PixelSpacing(in) \in Nat /\ PixelSpacing(out) \in Nat /\ p.pixels \in Nat
      /\ p.lineIn \in Nat /\ p.lineOut \in Nat
  BY SpacingType DEF Piece
<1>2. PixelSpacing(in) * p.pixels \in Nat /\ PixelSpacing(out) * p.pixels \in Nat
  BY <1>1
<1>3. LineSize(in, p.pixels, p.lineIn) \in Nat /\ LineSize(out, p.pixels, p.lineOut) \in Nat
  BY <1>1, <1>2, WordAssumption DEF LineSize, Wrap
<1> QED  BY <1>3 DEF Repaired, Piece

\* Two slices of a call that fits share no byte that one of them writes.
LEMMA SlicesOfFittingCall ==
    ASSUME NEW j \in Jobs, Fits(j), NEW n \in Nat \ {0},
           NEW s \in 0..(n - 1), NEW t \in 0..(n - 1), s # t
    PROVE  LET p == Repaired(j.piece, j.in, j.out)
               cut == SplitWork(p, j.in, j.out, n)
           IN  Written(cut[s], j.out) \cap Touched(cut[t], j.in, j.out) = {}
<1> DEFINE p == Repaired(j.piece, j.in, j.out)
           ui == Unit(p, j.in, p.lineIn)
           uo == Unit(p, j.out, p.lineOut)
           total == Total(p)
           first(r) == r * (total \div n)
           last(r) == first(r) + Share(r, n, total)
           cut == SplitWork(p, j.in, j.out, n)
<1>1. p \in Piece /\ j.in \in Format /\ j.out \in Format
  BY RepairedType, JobAssumption
<1>2. /\ ~j.in.planar /\ ~j.out.planar
      /\ p.lines > 1 => /\ p.pixels * PixelSpacing(j.in) <= p.lineIn
                        /\ p.pixels * PixelSpacing(j.out) <= p.lineOut
      /\ total * ui < WordSize /\ total * uo < WordSize
      /\ \/ p.in + total * ui <= p.out
         \/ p.out + total * uo <= p.in
         \/ p.in = p.out /\ ui = uo
  BY DEF Fits
<1> HIDE DEF p
<1>3. p.in \in Nat /\ p.out \in Nat /\ total \in Nat /\ ui \in Nat /\ uo \in Nat
  BY <1>1, SpacingType DEF Piece, Total, Unit
<1>4. ASSUME NEW r \in 0..(n - 1)
      PROVE  /\ Written(cut[r], j.out) \subseteq Region(p.out, uo, first(r), last(r))
             /\ Touched(cut[r], j.in, j.out) \subseteq Region(p.out, uo, first(r), last(r))
                                                     \cup Region(p.in, ui, first(r), last(r))
  BY <1>1, <1>2, SliceWithin
<1>5. ASSUME NEW r \in 0..(n - 1)
      PROVE  first(r) \in Nat /\ last(r) \in Nat /\ last(r) <= total
  BY <1>3, SlicesInside
<1>6. \A q, r \in 0..(n - 1) : q < r => last(q) <= first(r)
  BY <1>3, SlicesFollow
<1> HIDE DEF ui, uo, total, first, last, cut
<1>7. last(s) <= first(t) \/ last(t) <= first(s)
  <2>1. s < t \/ t < s
    OBVIOUS
  <2> QED  BY <2>1, <1>6
<1>8. first(s) \in Nat /\ last(s) \in Nat /\ last(s) <= total
      /\ first(t) \in Nat /\ last(t) \in Nat /\ last(t) <= total
  BY <1>5
<1>9. \A base, unit \in Nat : Region(base, unit, first(s), last(s))
                                \cap Region(base, unit, first(t), last(t)) = {}
  <2> TAKE base, unit \in Nat
  <2>1. CASE last(s) <= first(t)
    BY <2>1, <1>8, RegionsFollow
  <2>2. CASE last(t) <= first(s)
    <3>1. Region(base, unit, first(t), last(t)) \cap Region(base, unit, first(s), last(s)) = {}
      BY <2>2, <1>8, RegionsFollow
    <3> QED  BY <3>1
  <2> QED  BY <1>7, <2>1, <2>2
<1>10. Region(p.out, uo, first(s), last(s)) \cap Region(p.out, uo, first(t), last(t)) = {}
  BY <1>3, <1>9
<1>11. Region(p.out, uo, first(s), last(s)) \cap Region(p.in, ui, first(t), last(t)) = {}
  <2>1. CASE p.in + total * ui <= p.out
    <3>1. p.in + last(t) * ui <= p.out
      <4>1. last(t) * ui <= total * ui /\ last(t) * ui \in Nat /\ total * ui \in Nat
        BY <1>3, <1>8, Scaled
      <4> QED  BY <2>1, <4>1, <1>3
    <3>2. Region(p.in, ui, first(t), last(t)) \cap Region(p.out, uo, first(s), last(s)) = {}
      BY <3>1, <1>3, <1>8, RegionsApart, ZenonT(30)
    <3> QED  BY <3>2
  <2>2. CASE p.out + total * uo <= p.in
    <3>1. p.out + last(s) * uo <= p.in
      <4>1. last(s) * uo <= total * uo /\ last(s) * uo \in Nat /\ total * uo \in Nat
        BY <1>3, <1>8, Scaled
      <4> QED  BY <2>2, <4>1, <1>3
    <3> QED  BY <3>1, <1>3, <1>8, RegionsApart, ZenonT(30)
  <2>3. CASE p.in = p.out /\ ui = uo
    BY <2>3, <1>10
  <2> QED  BY <1>2, <2>1, <2>2, <2>3
<1>12. Written(cut[s], j.out) \cap Touched(cut[t], j.in, j.out) = {}
  BY <1>4, <1>10, <1>11
<1> QED  BY <1>12 DEF cut, p

\* What the array holds while threads are created.
SlicesSet == phase = "create" => slices = SplitWork(fixed, job.in, job.out, nSlices) /\ nSlices > 1

LEMMA SlicesSetInvariance == Spec => [](job \in Jobs /\ SlicesSet)
<1>1. Init => job \in Jobs /\ SlicesSet
  BY DEF Init, SlicesSet
<1>2. job \in Jobs /\ SlicesSet /\ ThreadInv /\ [Next]_vars => (job \in Jobs /\ SlicesSet)'
  <2> SUFFICES ASSUME job \in Jobs, SlicesSet, ThreadInv, [Next]_vars
               PROVE  (job \in Jobs /\ SlicesSet)'
    OBVIOUS
  <2> USE DEF SlicesSet
  <2>1. job' = job /\ nSlices' = nSlices /\ fixed' = fixed
    BY JobStays DEF fixed
  <2>2. CASE Split
    <3>1. nSlices > 1
      BY <2>2 DEF Split, ThreadInv, SlicesThere
    <3> QED  BY <2>1, <2>2, <3>1 DEF Split, Alone
  <2>3. CASE UNCHANGED vars
    BY <2>1, <2>3 DEF vars
  <2>4. CASE \E w \in Workers : Working(w)
    BY <2>1, <2>4 DEF Working, Start, Run, End
  <2>5. CASE Calling /\ ~Split
    BY <2>1, <2>5 DEF Calling, Count, Allocate, Create, DoOwnPortion, MasterWorks,
                      OwnPortionDone, Join, Return, Alone
  <2> QED  BY <2>2, <2>3, <2>4, <2>5 DEF Next
<1> QED  BY <1>1, <1>2, ThreadInvariance, PTL DEF Spec

\* "Memory should not overlap" (the comment of _cmsThrScheduler): for calls of
\* the ordinary kind whose buffers a 32-bit word can measure, whatever the
\* formats, the number of pixels, lines and threads, it does not.
THEOREM MemoryDoesNotOverlap ==
    ASSUME \A j \in Jobs : Fits(j)
    PROVE  Spec => []SlicesApart
<1>1. job \in Jobs /\ SlicesSet => SlicesApart
  <2> SUFFICES ASSUME job \in Jobs, SlicesSet, phase = "create",
                      NEW s \in DOMAIN slices, NEW t \in DOMAIN slices, s # t
               PROVE  Written(slices[s], job.out) \cap Touched(slices[t], job.in, job.out) = {}
    BY DEF SlicesApart
  <2>1. slices = SplitWork(fixed, job.in, job.out, nSlices) /\ nSlices > 1
    BY DEF SlicesSet
  <2>2. nSlices \in Nat \ {0}
    BY <2>1, NumberOfSlices
  <2>3. DOMAIN slices = 0..(nSlices - 1)
    BY <2>1 DEF SplitWork
  <2> QED  BY <2>1, <2>2, <2>3, SlicesOfFittingCall DEF fixed
<1> QED  BY <1>1, SlicesSetInvariance, PTL

(***************************************************************************)
(* What a call converts.                                                   *)
(***************************************************************************)

\* Calls that convert: they fit, pixels have components, lines are told apart
\* by the strides that were given, and a buffer that is converted in place
\* keeps the size of its pixels.
Converts(j) ==
    /\ Fits(j)
    /\ j.in.channels > 0
    /\ j.piece.lines > 1 => j.piece.lineIn # 0 /\ j.piece.lineOut # 0
    /\ j.piece.in = j.piece.out => PixelSpacing(j.in) = PixelSpacing(j.out)

\* Division with a rest.
LEMMA Division ==
    ASSUME NEW d \in Nat \ {0}, NEW x \in Nat
    PROVE  x \div d \in Nat /\ x % d \in 0..(d - 1) /\ x = (x \div d) * d + (x % d)
  OBVIOUS

\* A number is written in one way as a quotient and a rest.
LEMMA OneQuotient ==
    ASSUME NEW d \in Nat \ {0}, NEW q \in Nat, NEW r \in 0..(d - 1)
    PROVE  (q * d + r) \div d = q /\ (q * d + r) % d = r
<1> DEFINE x == q * d + r
           e == x \div d
<1>1. x \in Nat /\ e \in Nat /\ x % d \in 0..(d - 1) /\ x = e * d + (x % d)
  OBVIOUS
<1> HIDE DEF e
<1>2. e = q
  <2>1. CASE e < q
    <3>1. (e + 1) * d <= q * d /\ (e + 1) * d \in Nat /\ q * d \in Nat
      BY <2>1, <1>1, Scaled
    <3>2. (e + 1) * d = e * d + d /\ e * d \in Nat
      BY <1>1
    <3> QED  BY <1>1, <3>1, <3>2
  <2>2. CASE q < e
    <3>1. (q + 1) * d <= e * d /\ (q + 1) * d \in Nat /\ e * d \in Nat
      BY <2>2, <1>1, Scaled
    <3>2. (q + 1) * d = q * d + d /\ q * d \in Nat
      BY <1>1
    <3> QED  BY <1>1, <3>1, <3>2
  <2> QED  BY <2>1, <2>2, <1>1
<1>3. x % d = r
  <2>1. q * d \in Nat /\ x = q * d + (x % d)
    BY <1>1, <1>2
  <2> DEFINE qd == q * d
  <2>2. qd \in Nat /\ x = qd + (x % d) /\ x = qd + r
    BY <2>1
  <2> HIDE DEF qd, x
  <2> QED  BY <2>2, <1>1
<1> QED  BY <1>2, <1>3 DEF e

\* A pixel of a chunky line.
LEMMA CellOfOneLine ==
    ASSUME NEW f \in Format, ~f.planar, NEW base \in Nat, NEW line \in Nat, NEW plane \in Nat,
           NEW pixels \in Nat, NEW k \in 0..(pixels - 1)
    PROVE  Cells(f, base, line, plane, pixels, k)
             = (base + k * PixelSpacing(f))..(base + k * PixelSpacing(f) + PixelSpacing(f) - 1)
<1>1. k \div pixels = 0 /\ k % pixels = k /\ 0 * line = 0
  OBVIOUS
<1> DEFINE sp == PixelSpacing(f)
<1>2. sp \in Nat /\ k * sp \in Nat
  BY SpacingType
<1>3. Cells(f, base, line, plane, pixels, k)
        = (base + 0 * line + k * sp)..(base + 0 * line + k * sp + sp - 1)
  BY <1>1 DEF Cells
<1> HIDE DEF sp
<1>4. base + 0 * line + k * sp = base + k * sp
  BY <1>1, <1>2
<1> QED  BY <1>3, <1>4 DEF sp

\* The pixels of a bitmap follow each other in memory.
LEMMA CellsInOrder ==
    ASSUME NEW f \in Format, ~f.planar, NEW base \in Nat, NEW line \in Nat, NEW plane \in Nat,
           NEW pixels \in Nat, NEW lines \in Nat, lines > 1 => pixels * PixelSpacing(f) <= line,
           NEW k \in 0..(pixels * lines - 1), NEW l \in 0..(pixels * lines - 1), k < l
    PROVE  \A x \in Cells(f, base, line, plane, pixels, k) :
             \A y \in Cells(f, base, line, plane, pixels, l) : x < y
<1> DEFINE sp == PixelSpacing(f)
           start(m) == base + (m \div pixels) * line + (m % pixels) * sp
<1>1. pixels > 0 /\ sp \in Nat
  <2>1. pixels = 0 => pixels * lines = 0
    OBVIOUS
  <2> QED  BY <2>1, SpacingType
<1> DEFINE qk == k \div pixels
           rk == k % pixels
           ql == l \div pixels
           rl == l % pixels
<1>2. /\ qk \in Nat /\ rk \in 0..(pixels - 1) /\ k = qk * pixels + rk
      /\ ql \in Nat /\ rl \in 0..(pixels - 1) /\ l = ql * pixels + rl
  BY <1>1
<1>3. /\ Cells(f, base, line, plane, pixels, k) = start(k)..(start(k) + sp - 1)
      /\ Cells(f, base, line, plane, pixels, l) = start(l)..(start(l) + sp - 1)
      /\ start(k) = base + qk * line + rk * sp /\ start(l) = base + ql * line + rl * sp
  BY DEF Cells
<1> HIDE DEF qk, rk, ql, rl, sp, start
<1>4. qk * line \in Nat /\ ql * line \in Nat /\ rk * sp \in Nat /\ rl * sp \in Nat
  BY <1>1, <1>2
<1>5. CASE ql < qk
  <2>1. (ql + 1) * pixels <= qk * pixels /\ (ql + 1) * pixels = ql * pixels + pixels
        /\ ql * pixels \in Nat /\ qk * pixels \in Nat
    BY <1>2, <1>5, Scaled
  <2> QED  BY <1>2, <2>1
<1>6. CASE ql = qk
  <2>1. rk < rl
    <3>1. qk * pixels \in Nat
      BY <1>2
    <3> QED  BY <1>2, <1>6, <3>1
  <2>2. (rk + 1) * sp <= rl * sp /\ (rk + 1) * sp = rk * sp + sp
    BY <1>1, <1>2, <2>1, Scaled
  <2> DEFINE ks == rk * sp
             ls == rl * sp
             kl == qk * line
  <2>3. /\ ks \in Nat /\ ls \in Nat /\ kl \in Nat /\ ks + sp <= ls
        /\ start(k) = base + kl + ks /\ start(l) = base + kl + ls
    BY <1>3, <1>4, <1>6, <2>2
  <2> HIDE DEF ks, ls, kl
  <2>4. start(k) \in Nat /\ start(l) \in Nat /\ start(k) + sp <= start(l)
    BY <1>1, <2>3
  <2> QED  BY <1>1, <1>3, <2>4
<1>7. CASE qk < ql
  <2>1. lines > 1
    <3> SUFFICES ASSUME lines <= 1 PROVE FALSE
      OBVIOUS
    <3>1. pixels * lines <= pixels
      <4>1. lines \in {0, 1} /\ pixels * 0 = 0 /\ pixels * 1 = pixels
        OBVIOUS
      <4> QED  BY <4>1
    <3>2. 1 * pixels <= ql * pixels /\ 1 * pixels = pixels /\ ql * pixels \in Nat
      BY <1>2, <1>7, Scaled
    <3>3. l <= pixels * lines - 1 /\ pixels * lines \in Nat
      OBVIOUS
    <3> QED  BY <1>2, <3>1, <3>2, <3>3
  <2>2. pixels * sp <= line
    BY <2>1 DEF sp
  <2>3. /\ (rk + 1) * sp <= pixels * sp /\ (rk + 1) * sp = rk * sp + sp
        /\ pixels * sp \in Nat
    BY <1>1, <1>2, Scaled
  <2>4. (qk + 1) * line <= ql * line /\ (qk + 1) * line = qk * line + line
    BY <1>2, <1>7, Scaled
  <2> DEFINE ks == rk * sp
             ls == rl * sp
             kl == qk * line
             ll == ql * line
             ps == pixels * sp
  <2>5. /\ ks \in Nat /\ ls \in Nat /\ kl \in Nat /\ ll \in Nat /\ ps \in Nat
        /\ ks + sp <= ps /\ ps <= line /\ kl + line <= ll
        /\ start(k) = base + kl + ks /\ start(l) = base + ll + ls
    BY <1>3, <1>4, <2>2, <2>3, <2>4
  <2> HIDE DEF ks, ls, kl, ll, ps
  <2>6. start(k) \in Nat /\ start(l) \in Nat /\ start(k) + sp <= start(l)
    BY <1>1, <2>5
  <2> QED  BY <1>1, <1>3, <2>6
<1> QED  BY <1>2, <1>5, <1>6, <1>7

\* What the repair leaves alone.
LEMMA RepairedFields ==
    ASSUME NEW p \in Piece, NEW in \in Format, NEW out \in Format,
           NEW q, q = Repaired(p, in, out)
    PROVE  /\ q \in Piece
           /\ q.in = p.in /\ q.out = p.out /\ q.pixels = p.pixels /\ q.lines = p.lines
           /\ q.planeIn = p.planeIn /\ q.planeOut = p.planeOut
           /\ p.lineIn # 0 => q.lineIn = p.lineIn
           /\ p.lineOut # 0 => q.lineOut = p.lineOut
<1>1. q \in Piece
  BY RepairedType
<1>2. q = [p EXCEPT !.lineIn = LineSize(in, p.pixels, p.lineIn),
                    !.lineOut = LineSize(out, p.pixels, p.lineOut)]
  BY DEF Repaired
<1>3. /\ q.in = p.in /\ q.out = p.out /\ q.pixels = p.pixels /\ q.lines = p.lines
      /\ q.planeIn = p.planeIn /\ q.planeOut = p.planeOut
      /\ q.lineIn = LineSize(in, p.pixels, p.lineIn)
      /\ q.lineOut = LineSize(out, p.pixels, p.lineOut)
  BY <1>2 DEF Piece
<1> QED  BY <1>1, <1>3 DEF LineSize

\* What SplitWork makes of a piece whose offsets do not wrap.
LEMMA SliceFields ==
    ASSUME NEW p \in Piece, NEW in \in Format, NEW out \in Format,
           NEW n \in Nat \ {0}, NEW s \in 0..(n - 1), NEW total, total = Total(p),
           total * Unit(p, in, p.lineIn) < WordSize,
           total * Unit(p, out, p.lineOut) < WordSize,
           NEW first, first = s * (total \div n),
           NEW share, share = Share(s, n, total),
           NEW slice, slice = SplitWork(p, in, out, n)[s]
    PROVE  /\ first \in Nat /\ share \in Nat /\ first + share <= total
           /\ slice \in Piece
           /\ slice.in = p.in + first * Unit(p, in, p.lineIn)
           /\ slice.out = p.out + first * Unit(p, out, p.lineOut)
           /\ slice.pixels = IF p.lines <= 1 THEN share ELSE p.pixels
           /\ slice.lines = IF p.lines <= 1 THEN p.lines ELSE share
           /\ slice.lineIn = p.lineIn /\ slice.lineOut = p.lineOut
           /\ slice.planeIn = p.planeIn /\ slice.planeOut = p.planeOut
<1>1. p.in \in Nat /\ p.out \in Nat /\ p.pixels \in Nat /\ p.lines \in Nat /\ p.lineIn \in Nat
      /\ p.lineOut \in Nat /\ p.planeIn \in Nat /\ p.planeOut \in Nat
  BY DEF Piece
<1>2. total \in Nat
  BY <1>1 DEF Total
<1>3. share \in Nat /\ first \in Nat /\ first + share <= total
  BY <1>2, SlicesInside
<1> DEFINE ui == Unit(p, in, p.lineIn)
           uo == Unit(p, out, p.lineOut)
<1>4. ui \in Nat /\ uo \in Nat
  BY <1>1, SpacingType DEF Unit
<1>5. first <= total /\ total * ui < WordSize /\ total * uo < WordSize
  BY <1>2, <1>3
<1> HIDE DEF ui, uo
<1>6. Wrap(first * ui) = first * ui /\ Wrap(first * uo) = first * uo
      /\ first * ui \in Nat /\ first * uo \in Nat
  BY <1>2, <1>3, <1>4, <1>5, NoWrap
<1>7. slice = IF p.lines <= 1
              THEN [p EXCEPT !.in = p.in + first * ui, !.out = p.out + first * uo, !.pixels = share]
              ELSE [p EXCEPT !.in = p.in + first * ui, !.out = p.out + first * uo, !.lines = share]
  <2>1. CASE p.lines <= 1
    <3>1. total = p.pixels /\ ui = PixelSpacing(in) /\ uo = PixelSpacing(out)
      BY <2>1 DEF Total, Unit, ui, uo
    <3>2. slice = SlicePerPixels(p, in, out, n, s)
      BY <2>1 DEF SplitWork
    <3> QED  BY <2>1, <3>1, <3>2, <1>6 DEF SlicePerPixels
  <2>2. CASE p.lines > 1
    <3>1. total = p.lines /\ ui = p.lineIn /\ uo = p.lineOut
      BY <2>2, <1>1 DEF Total, Unit, ui, uo
    <3>2. slice = SlicePerLines(p, n, s)
      BY <1>1, <2>2 DEF SplitWork
    <3>3. slice = [p EXCEPT !.in = p.in + first * ui, !.out = p.out + first * uo, !.lines = share]
      BY <3>1, <3>2, <1>6 DEF SlicePerLines
    <3>4. ~(p.lines <= 1)
      BY <1>1, <2>2
    <3> QED  BY <3>3, <3>4, Zenon
  <2> QED  BY <1>1, <2>1, <2>2
<1>8. p.in + first * ui \in Nat /\ p.out + first * uo \in Nat
  BY <1>1, <1>6
<1>9. slice \in Piece
  BY <1>3, <1>7, <1>8 DEF Piece
<1>10. /\ slice.in = p.in + first * ui /\ slice.out = p.out + first * uo
       /\ slice.pixels = IF p.lines <= 1 THEN share ELSE p.pixels
       /\ slice.lines = IF p.lines <= 1 THEN p.lines ELSE share
       /\ slice.lineIn = p.lineIn /\ slice.lineOut = p.lineOut
       /\ slice.planeIn = p.planeIn /\ slice.planeOut = p.planeOut
  BY <1>7 DEF Piece
<1> QED  BY <1>3, <1>9, <1>10 DEF ui, uo

\* The slices of a call, and which pixel of the bitmap a pixel of a slice is.
Cut(j, n) == SplitWork(Repaired(j.piece, j.in, j.out), j.in, j.out, n)
Width(p) == IF p.lines <= 1 THEN 1 ELSE p.pixels
InWhole(j, n, s, k) == (s * (Total(j.piece) \div n)) * Width(j.piece) + k

LEMMA ConvertingPiece ==
    ASSUME NEW j \in Jobs, Converts(j), NEW p, p = Repaired(j.piece, j.in, j.out)
    PROVE  /\ j.in \in Format /\ j.out \in Format /\ ~j.in.planar /\ ~j.out.planar
           /\ j.piece \in Piece /\ p \in Piece
           /\ p.in = j.piece.in /\ p.out = j.piece.out
           /\ p.pixels = j.piece.pixels /\ p.lines = j.piece.lines
           /\ p.planeIn = j.piece.planeIn /\ p.planeOut = j.piece.planeOut
           /\ p.lines > 1 => /\ p.lineIn = j.piece.lineIn /\ p.lineOut = j.piece.lineOut
                             /\ p.pixels * PixelSpacing(j.in) <= p.lineIn
                             /\ p.pixels * PixelSpacing(j.out) <= p.lineOut
           /\ Total(p) = Total(j.piece)
           /\ Total(p) * Unit(p, j.in, p.lineIn) < WordSize
           /\ Total(p) * Unit(p, j.out, p.lineOut) < WordSize
           /\ \/ p.in + Total(p) * Unit(p, j.in, p.lineIn) <= p.out
              \/ p.out + Total(p) * Unit(p, j.out, p.lineOut) <= p.in
              \/ p.in = p.out /\ Unit(p, j.in, p.lineIn) = Unit(p, j.out, p.lineOut)
<1>1. j.in \in Format /\ j.out \in Format /\ j.piece \in Piece
  BY JobAssumption
<1>2. /\ p \in Piece
      /\ p.in = j.piece.in /\ p.out = j.piece.out
      /\ p.pixels = j.piece.pixels /\ p.lines = j.piece.lines
      /\ p.planeIn = j.piece.planeIn /\ p.planeOut = j.piece.planeOut
      /\ j.piece.lineIn # 0 => p.lineIn = j.piece.lineIn
      /\ j.piece.lineOut # 0 => p.lineOut = j.piece.lineOut
  BY <1>1, RepairedFields
<1>3. Fits(j)
  BY DEF Converts
<1>4. p.lines > 1 => p.lineIn = j.piece.lineIn /\ p.lineOut = j.piece.lineOut
  BY <1>2 DEF Converts
<1>5. Total(p) = Total(j.piece)
  BY <1>2 DEF Total
<1> QED  BY <1>1, <1>2, <1>3, <1>4, <1>5 DEF Fits

LEMMA PixelOfSlice ==
    ASSUME NEW j \in Jobs, Converts(j), NEW n \in Nat \ {0}, NEW s \in 0..(n - 1),
           NEW slice, slice = Cut(j, n)[s],
           NEW k \in Pixels(slice), NEW l, l = InWhole(j, n, s, k)
    PROVE  /\ l \in Pixels(j.piece)
           /\ InCells(slice, j.in, k) = InCells(j.piece, j.in, l)
           /\ OutCells(slice, j.out, k) = OutCells(j.piece, j.out, l)
<1> DEFINE p == Repaired(j.piece, j.in, j.out)
           total == Total(p)
           first == s * (total \div n)
           share == Share(s, n, total)
<1>1. /\ j.in \in Format /\ j.out \in Format /\ ~j.in.planar /\ ~j.out.planar
      /\ j.piece \in Piece /\ p \in Piece
      /\ p.in = j.piece.in /\ p.out = j.piece.out
      /\ p.pixels = j.piece.pixels /\ p.lines = j.piece.lines
      /\ p.planeIn = j.piece.planeIn /\ p.planeOut = j.piece.planeOut
      /\ p.lines > 1 => p.lineIn = j.piece.lineIn /\ p.lineOut = j.piece.lineOut
      /\ Total(p) = Total(j.piece)
      /\ Total(p) * Unit(p, j.in, p.lineIn) < WordSize
      /\ Total(p) * Unit(p, j.out, p.lineOut) < WordSize
  BY ConvertingPiece
<1>2. slice = SplitWork(p, j.in, j.out, n)[s]
  BY DEF Cut
<1> HIDE DEF p
<1>3. /\ first \in Nat /\ share \in Nat /\ first + share <= total /\ slice \in Piece
      /\ slice.in = p.in + first * Unit(p, j.in, p.lineIn)
      /\ slice.out = p.out + first * Unit(p, j.out, p.lineOut)
      /\ slice.pixels = IF p.lines <= 1 THEN share ELSE p.pixels
      /\ slice.lines = IF p.lines <= 1 THEN p.lines ELSE share
      /\ slice.lineIn = p.lineIn /\ slice.lineOut = p.lineOut
      /\ slice.planeIn = p.planeIn /\ slice.planeOut = p.planeOut
  BY <1>1, <1>2, SliceFields
<1>4. /\ p.in \in Nat /\ p.out \in Nat /\ p.pixels \in Nat /\ p.lines \in Nat /\ p.lineIn \in Nat
      /\ p.lineOut \in Nat /\ p.planeIn \in Nat /\ p.planeOut \in Nat
      /\ j.piece.lineIn \in Nat /\ j.piece.lineOut \in Nat
  BY <1>1 DEF Piece
<1>5. l = first * Width(p) + k /\ Pixels(j.piece) = Pixels(p)
  BY <1>1 DEF InWhole, Width, Pixels
<1> HIDE DEF first, share, total
<1>6. CASE p.lines <= 1
  <2>1. total = p.pixels /\ Unit(p, j.in, p.lineIn) = PixelSpacing(j.in)
        /\ Unit(p, j.out, p.lineOut) = PixelSpacing(j.out) /\ Width(p) = 1
    BY <1>6 DEF Total, Unit, Width, total
  <2>2. k \in 0..(share - 1) /\ p.lines = 1
    <3>1. p.lines \in {0, 1} /\ slice.pixels = share /\ slice.lines = p.lines
      BY <1>3, <1>4, <1>6
    <3>2. share * 0 = 0 /\ share * 1 = share
      BY <1>3
    <3> QED  BY <3>1, <3>2, <1>3 DEF Pixels
  <2>3. l = first + k
    BY <1>3, <1>5, <2>1
  <2>4. l \in Pixels(p)
    <3>1. p.pixels * p.lines = p.pixels
      BY <1>4, <2>2
    <3>2. l \in 0..(p.pixels - 1)
      BY <1>3, <1>4, <2>1, <2>2, <2>3
    <3> QED  BY <3>1, <3>2 DEF Pixels
  <2>5. first \in Nat /\ share \in Nat /\ first + share <= p.pixels /\ p.pixels \in Nat
        /\ l \in 0..(p.pixels - 1)
    BY <1>3, <1>4, <2>1, <2>2, <2>3
  <2>6. ASSUME NEW f \in Format, ~f.planar, NEW base \in Nat, NEW line \in Nat, NEW other \in Nat,
               NEW plane \in Nat, NEW start, start = base + first * PixelSpacing(f)
        PROVE  Cells(f, start, line, plane, share, k) = Cells(f, base, other, plane, p.pixels, l)
    <3> DEFINE sp == PixelSpacing(f)
               fs == first * sp
               ks == k * sp
    <3>1. sp \in Nat /\ fs \in Nat /\ ks \in Nat /\ l * sp = fs + ks /\ start \in Nat
      BY <2>2, <2>3, <2>5, <2>6, SpacingType
    <3>2. Cells(f, start, line, plane, share, k) = (start + ks)..(start + ks + sp - 1)
      <4>1. start \in Nat /\ share \in Nat /\ k \in 0..(share - 1) /\ ~f.planar
        BY <2>2, <2>5, <2>6, <3>1
      <4> QED  BY <4>1, CellOfOneLine
    <3>3. Cells(f, base, other, plane, p.pixels, l) = (base + l * sp)..(base + l * sp + sp - 1)
      <4>1. p.pixels \in Nat /\ l \in 0..(p.pixels - 1) /\ ~f.planar
        BY <2>5, <2>6
      <4> QED  BY <4>1, CellOfOneLine
    <3>4. start = base + fs
      BY <2>6
    <3> HIDE DEF fs, ks, sp
    <3>5. start + ks = base + (fs + ks)
      BY <3>1, <3>4
    <3> QED  BY <3>1, <3>2, <3>3, <3>5
  <2>7. InCells(slice, j.in, k) = InCells(j.piece, j.in, l)
    <3>1. Cells(j.in, slice.in, p.lineIn, p.planeIn, share, k)
            = Cells(j.in, p.in, j.piece.lineIn, p.planeIn, p.pixels, l)
      <4>1. slice.in = p.in + first * PixelSpacing(j.in)
        BY <1>3, <2>1
      <4>2. /\ j.in \in Format /\ ~j.in.planar /\ p.in \in Nat /\ p.lineIn \in Nat
            /\ j.piece.lineIn \in Nat /\ p.planeIn \in Nat
        BY <1>1, <1>4
      <4> QED  BY <4>1, <4>2, <2>6
    <3> QED  BY <1>1, <1>3, <1>6, <3>1, Zenon DEF InCells
  <2>8. OutCells(slice, j.out, k) = OutCells(j.piece, j.out, l)
    <3>1. Cells(j.out, slice.out, p.lineOut, p.planeOut, share, k)
            = Cells(j.out, p.out, j.piece.lineOut, p.planeOut, p.pixels, l)
      <4>1. slice.out = p.out + first * PixelSpacing(j.out)
        BY <1>3, <2>1
      <4>2. /\ j.out \in Format /\ ~j.out.planar /\ p.out \in Nat /\ p.lineOut \in Nat
            /\ j.piece.lineOut \in Nat /\ p.planeOut \in Nat
        BY <1>1, <1>4
      <4> QED  BY <4>1, <4>2, <2>6
    <3> QED  BY <1>1, <1>3, <1>6, <3>1, Zenon DEF OutCells
  <2> QED  BY <1>5, <2>4, <2>7, <2>8
<1>7. CASE p.lines > 1
  <2>0. ~(p.lines <= 1)
    BY <1>4, <1>7
  <2>1. total = p.lines /\ Unit(p, j.in, p.lineIn) = p.lineIn
        /\ Unit(p, j.out, p.lineOut) = p.lineOut /\ Width(p) = p.pixels
    BY <2>0 DEF Total, Unit, Width, total
  <2>2. slice.pixels = p.pixels /\ slice.lines = share /\ k \in 0..(p.pixels * share - 1)
    BY <1>3, <2>0 DEF Pixels
  <2>3. p.pixels \in Nat \ {0}
    <3>1. p.pixels = 0 => p.pixels * share = 0
      BY <1>3
    <3> QED  BY <1>4, <2>2, <3>1
  <2>4. l = first * p.pixels + k
    BY <1>5, <2>1
  <2>5. l \in Pixels(p)
    <3>1. (first + share) * p.pixels <= p.lines * p.pixels
      BY <1>3, <1>4, <2>1, Scaled
    <3>2. (first + share) * p.pixels = first * p.pixels + p.pixels * share
          /\ p.lines * p.pixels = p.pixels * p.lines
          /\ first * p.pixels \in Nat /\ p.pixels * share \in Nat /\ p.pixels * p.lines \in Nat
      BY <1>3, <1>4
    <3> DEFINE fp == first * p.pixels
               ps == p.pixels * share
               pl == p.pixels * p.lines
    <3>3. fp \in Nat /\ ps \in Nat /\ pl \in Nat /\ fp + ps <= pl /\ k \in 0..(ps - 1) /\ l = fp + k
      BY <2>2, <2>4, <3>1, <3>2
    <3> HIDE DEF fp, ps, pl
    <3>4. l \in 0..(pl - 1)
      BY <3>3
    <3> QED  BY <3>4 DEF Pixels, pl
  <2>6. first \in Nat /\ k \in Nat
    <3>1. p.pixels * share \in Nat
      BY <1>3, <1>4
    <3> QED  BY <1>3, <2>2, <3>1
  <2>7. ASSUME NEW f \in Format, NEW base \in Nat, NEW line \in Nat, NEW plane \in Nat, ~f.planar,
               NEW start, start = base + first * line
        PROVE  Cells(f, start, line, plane, p.pixels, k) = Cells(f, base, line, plane, p.pixels, l)
    <3> DEFINE q == k \div p.pixels
               r == k % p.pixels
               sp == PixelSpacing(f)
               fl == first * line
               ql == q * line
               rs == r * sp
    <3>1. q \in Nat /\ r \in 0..(p.pixels - 1) /\ k = q * p.pixels + r /\ sp \in Nat
      BY <2>3, <2>6, SpacingType, Division
    <3>2. Cells(f, start, line, plane, p.pixels, k) = (start + ql + rs)..(start + ql + rs + sp - 1)
      BY <2>7 DEF Cells
    <3> HIDE DEF q, r
    <3>3. l = (first + q) * p.pixels + r /\ first + q \in Nat
      BY <2>3, <2>4, <2>6, <3>1
    <3>4. l \div p.pixels = first + q /\ l % p.pixels = r
      <4>1. /\ ((first + q) * p.pixels + r) \div p.pixels = first + q
            /\ ((first + q) * p.pixels + r) % p.pixels = r
        BY <2>3, <3>1, <3>3, OneQuotient
      <4> QED  BY <3>3, <4>1
    <3>5. (first + q) * line = fl + ql /\ fl \in Nat /\ ql \in Nat /\ rs \in Nat
      BY <2>6, <3>1
    <3>6. Cells(f, base, line, plane, p.pixels, l)
            = (base + (l \div p.pixels) * line + (l % p.pixels) * sp)
                ..(base + (l \div p.pixels) * line + (l % p.pixels) * sp + sp - 1)
      BY <2>7 DEF Cells
    <3>7. (l \div p.pixels) * line = fl + ql /\ (l % p.pixels) * sp = rs /\ start = base + fl
      BY <2>7, <3>4, <3>5
    <3> HIDE DEF fl, ql, rs, sp
    <3>8. start + ql + rs = base + (l \div p.pixels) * line + (l % p.pixels) * sp
      BY <3>5, <3>7
    <3> QED  BY <3>2, <3>6, <3>8
  <2>8. InCells(slice, j.in, k) = InCells(j.piece, j.in, l)
    <3>1. Cells(j.in, slice.in, p.lineIn, p.planeIn, p.pixels, k)
            = Cells(j.in, p.in, p.lineIn, p.planeIn, p.pixels, l)
      <4>1. slice.in = p.in + first * p.lineIn
        BY <1>3, <2>1
      <4>2. /\ j.in \in Format /\ ~j.in.planar /\ p.in \in Nat /\ p.lineIn \in Nat
            /\ p.planeIn \in Nat
        BY <1>1, <1>4
      <4> QED  BY <4>1, <4>2, <2>7
    <3> QED  BY <1>1, <1>3, <1>7, <2>2, <3>1, Zenon DEF InCells
  <2>9. OutCells(slice, j.out, k) = OutCells(j.piece, j.out, l)
    <3>1. Cells(j.out, slice.out, p.lineOut, p.planeOut, p.pixels, k)
            = Cells(j.out, p.out, p.lineOut, p.planeOut, p.pixels, l)
      <4>1. slice.out = p.out + first * p.lineOut
        BY <1>3, <2>1
      <4>2. /\ j.out \in Format /\ ~j.out.planar /\ p.out \in Nat /\ p.lineOut \in Nat
            /\ p.planeOut \in Nat
        BY <1>1, <1>4
      <4> QED  BY <4>1, <4>2, <2>7
    <3> QED  BY <1>1, <1>3, <1>7, <2>2, <3>1, Zenon DEF OutCells
  <2> QED  BY <1>5, <2>5, <2>8, <2>9
<1> QED  BY <1>4, <1>6, <1>7

\* Each pixel of the bitmap is a pixel of one of the slices.
LEMMA SliceHasPixel ==
    ASSUME NEW j \in Jobs, Converts(j), NEW n \in Nat \ {0}, Total(j.piece) \div n > 0,
           NEW l \in Pixels(j.piece)
    PROVE  \E s \in 0..(n - 1) : \E k \in Pixels(Cut(j, n)[s]) : InWhole(j, n, s, k) = l
<1> DEFINE p == Repaired(j.piece, j.in, j.out)
           total == Total(p)
           per == total \div n
           cut == Cut(j, n)
<1>1. /\ j.in \in Format /\ j.out \in Format /\ j.piece \in Piece /\ p \in Piece
      /\ p.pixels = j.piece.pixels /\ p.lines = j.piece.lines
      /\ Total(p) = Total(j.piece)
      /\ Total(p) * Unit(p, j.in, p.lineIn) < WordSize
      /\ Total(p) * Unit(p, j.out, p.lineOut) < WordSize
  BY ConvertingPiece
<1>2. cut = SplitWork(p, j.in, j.out, n)
  BY DEF Cut
<1> HIDE DEF p
<1>3. \A s \in 0..(n - 1) :
        /\ s * per \in Nat /\ Share(s, n, total) \in Nat /\ s * per + Share(s, n, total) <= total
        /\ cut[s].pixels = IF p.lines <= 1 THEN Share(s, n, total) ELSE p.pixels
        /\ cut[s].lines = IF p.lines <= 1 THEN p.lines ELSE Share(s, n, total)
  BY <1>1, <1>2, SliceFields
<1>4. p.pixels \in Nat /\ p.lines \in Nat /\ l \in 0..(p.pixels * p.lines - 1)
  BY <1>1 DEF Piece, Pixels
<1>5. total \in Nat /\ total \div n > 0
  BY <1>1, <1>4 DEF Total
<1>6. \A s, k : InWhole(j, n, s, k) = (s * per) * Width(p) + k
  BY <1>1 DEF InWhole, Width
<1>7. \A x \in 0..(total - 1) :
        \E s \in 0..(n - 1) : x \in (s * per)..(s * per + Share(s, n, total) - 1)
  BY <1>5, SlicesPartition
<1> HIDE DEF per, total, cut
<1>8. CASE p.lines <= 1
  <2>1. p.lines = 1 /\ total = p.pixels /\ Width(p) = 1 /\ l \in 0..(p.pixels - 1)
    <3>1. p.lines \in {0, 1} /\ p.pixels * 0 = 0 /\ p.pixels * 1 = p.pixels
      BY <1>4, <1>8
    <3> QED  BY <1>4, <1>8, <3>1 DEF Total, Width, total
  <2>2. PICK s \in 0..(n - 1) : l \in (s * per)..(s * per + Share(s, n, total) - 1)
    BY <1>7, <2>1
  <2> DEFINE first == s * per
             k == l - first
  <2>3. first \in Nat /\ Share(s, n, total) \in Nat /\ k \in 0..(Share(s, n, total) - 1)
    BY <1>3, <2>1, <2>2
  <2>4. Pixels(cut[s]) = 0..(Share(s, n, total) - 1)
    <3>1. cut[s].pixels = Share(s, n, total) /\ cut[s].lines = 1
      BY <1>3, <1>8, <2>1
    <3> QED  BY <3>1, <2>3 DEF Pixels
  <2>5. InWhole(j, n, s, k) = l
    <3>1. InWhole(j, n, s, k) = first * 1 + k
      BY <1>6, <2>1
    <3> HIDE DEF first
    <3> QED  BY <3>1, <2>1, <2>3
  <2> QED  BY <2>3, <2>4, <2>5 DEF cut
<1>9. CASE p.lines > 1
  <2>1. ~(p.lines <= 1) /\ total = p.lines /\ Width(p) = p.pixels
    BY <1>4, <1>9 DEF Total, Width, total
  <2>2. p.pixels \in Nat \ {0}
    <3>1. p.pixels = 0 => p.pixels * p.lines = 0
      BY <1>4
    <3> QED  BY <1>4, <3>1
  <2> DEFINE q == l \div p.pixels
             r == l % p.pixels
  <2>3. q \in Nat /\ r \in 0..(p.pixels - 1) /\ l = q * p.pixels + r
    <3>1. l \in Nat
      BY <1>4
    <3> QED  BY <2>2, <3>1, Division, Zenon
  <2> HIDE DEF q, r
  <2>4. q \in 0..(total - 1)
    <3> SUFFICES ASSUME q >= p.lines PROVE FALSE
      BY <2>1, <2>3, <1>4
    <3>1. p.lines * p.pixels <= q * p.pixels /\ q * p.pixels \in Nat
      BY <1>4, <2>3, Scaled
    <3>2. p.lines * p.pixels = p.pixels * p.lines /\ p.pixels * p.lines \in Nat
      BY <1>4
    <3> QED  BY <1>4, <2>3, <3>1, <3>2
  <2>5. PICK s \in 0..(n - 1) : q \in (s * per)..(s * per + Share(s, n, total) - 1)
    BY <1>7, <2>4
  <2> DEFINE first == s * per
             share == Share(s, n, total)
             k == (q - first) * p.pixels + r
  <2>6. first \in Nat /\ share \in Nat /\ q - first \in Nat /\ q - first + 1 <= share
    BY <1>3, <2>3, <2>5
  <2>7. Pixels(cut[s]) = 0..(p.pixels * share - 1)
    BY <1>3, <2>1 DEF Pixels
  <2> HIDE DEF first, share
  <2>8. k \in 0..(p.pixels * share - 1)
    <3>1. (q - first + 1) * p.pixels <= share * p.pixels /\ q - first + 1 \in Nat
      BY <2>2, <2>6, Scaled
    <3>2. (q - first + 1) * p.pixels = (q - first) * p.pixels + p.pixels
          /\ share * p.pixels = p.pixels * share
          /\ (q - first) * p.pixels \in Nat /\ p.pixels * share \in Nat
      BY <2>2, <2>6
    <3> DEFINE x == (q - first) * p.pixels
               y == p.pixels * share
    <3>3. x \in Nat /\ y \in Nat /\ x + p.pixels <= y /\ k = x + r
      BY <3>1, <3>2
    <3> HIDE DEF x, y, k
    <3>4. k \in 0..(y - 1)
      BY <2>2, <2>3, <3>3
    <3> QED  BY <3>4 DEF y
  <2>9. InWhole(j, n, s, k) = l
    <3>1. InWhole(j, n, s, k) = first * p.pixels + k
      BY <1>6, <2>1 DEF first
    <3>2. (q - first) * p.pixels = q * p.pixels - first * p.pixels
          /\ q * p.pixels \in Nat /\ first * p.pixels \in Nat
      BY <2>2, <2>3, <2>6
    <3> DEFINE fp == first * p.pixels
               qp == q * p.pixels
    <3>3. InWhole(j, n, s, k) = fp + k /\ k = qp - fp + r /\ l = qp + r
          /\ fp \in Nat /\ qp \in Nat
      BY <2>3, <3>1, <3>2
    <3> HIDE DEF fp, qp, k
    <3> QED  BY <2>2, <2>3, <3>3
  <2> QED  BY <2>7, <2>8, <2>9 DEF cut
<1> QED  BY <1>4, <1>8, <1>9

\* A pixel is read before its image, or that of a later one, is written.
LEMMA ReadsAhead ==
    ASSUME NEW j \in Jobs, Converts(j), NEW k \in Pixels(j.piece), NEW l \in Pixels(j.piece), k < l
    PROVE  /\ OutCells(j.piece, j.out, k) \cap OutCells(j.piece, j.out, l) = {}
           /\ OutCells(j.piece, j.out, k) \cap InCells(j.piece, j.in, l) = {}
<1> DEFINE p == j.piece
           total == Total(p)
           ui == Unit(p, j.in, p.lineIn)
           uo == Unit(p, j.out, p.lineOut)
<1> DEFINE q == Repaired(p, j.in, j.out)
<1>1. /\ j.in \in Format /\ j.out \in Format /\ ~j.in.planar /\ ~j.out.planar
      /\ p \in Piece
      /\ q.in = p.in /\ q.out = p.out /\ q.pixels = p.pixels /\ q.lines = p.lines
      /\ q.lines > 1 => /\ q.lineIn = p.lineIn /\ q.lineOut = p.lineOut
                        /\ q.pixels * PixelSpacing(j.in) <= q.lineIn
                        /\ q.pixels * PixelSpacing(j.out) <= q.lineOut
      /\ Total(q) = total
      /\ \/ q.in + Total(q) * Unit(q, j.in, q.lineIn) <= q.out
         \/ q.out + Total(q) * Unit(q, j.out, q.lineOut) <= q.in
         \/ q.in = q.out /\ Unit(q, j.in, q.lineIn) = Unit(q, j.out, q.lineOut)
  BY ConvertingPiece
<1> HIDE DEF q
<1>2. /\ p.in \in Nat /\ p.out \in Nat /\ p.pixels \in Nat /\ p.lines \in Nat /\ p.lineIn \in Nat
      /\ p.lineOut \in Nat /\ p.planeIn \in Nat /\ p.planeOut \in Nat
      /\ k \in 0..(p.pixels * p.lines - 1) /\ l \in 0..(p.pixels * p.lines - 1)
  BY <1>1 DEF Piece, Pixels
<1>3. ui = Unit(q, j.in, q.lineIn) /\ uo = Unit(q, j.out, q.lineOut)
  <2>1. CASE p.lines <= 1
    BY <1>1, <2>1 DEF Unit
  <2>2. CASE p.lines > 1
    BY <1>1, <1>2, <2>2 DEF Unit
  <2> QED  BY <1>2, <2>1, <2>2
<1>4. /\ p.lines > 1 => p.pixels * PixelSpacing(j.in) <= p.lineIn
      /\ p.lines > 1 => p.pixels * PixelSpacing(j.out) <= p.lineOut
  BY <1>1
<1>5. \A x \in OutCells(p, j.out, k) : \A y \in OutCells(p, j.out, l) : x < y
  BY <1>1, <1>2, <1>4, CellsInOrder DEF OutCells
<1>6. OutCells(p, j.out, k) \subseteq Int /\ OutCells(p, j.out, l) \subseteq Int
      /\ InCells(p, j.in, l) \subseteq Int
  BY <1>1 DEF OutCells, InCells, Cells
<1>7. OutCells(p, j.out, k) \cap OutCells(p, j.out, l) = {}
  BY <1>5, <1>6
<1>8. InCells(p, j.in, l) \subseteq Region(p.in, ui, 0, total)
      /\ OutCells(p, j.out, k) \subseteq Region(p.out, uo, 0, total)
  <2>1. CASE p.lines <= 1
    <3>1. k \in 0..(p.pixels - 1) /\ l \in 0..(p.pixels - 1)
      <4>1. p.lines \in {0, 1} /\ p.pixels * 0 = 0 /\ p.pixels * 1 = p.pixels
        BY <1>2, <2>1
      <4> QED  BY <1>2, <4>1
    <3>2. total = p.pixels /\ ui = PixelSpacing(j.in) /\ uo = PixelSpacing(j.out)
      BY <2>1 DEF Total, Unit
    <3>3. Cells(j.in, p.in, p.lineIn, p.planeIn, p.pixels, l)
            \subseteq Region(p.in, PixelSpacing(j.in), 0, p.pixels)
      BY <1>1, <1>2, <3>1, CellsOfOneLine
    <3>4. Cells(j.out, p.out, p.lineOut, p.planeOut, p.pixels, k)
            \subseteq Region(p.out, PixelSpacing(j.out), 0, p.pixels)
      BY <1>1, <1>2, <3>1, CellsOfOneLine
    <3> QED  BY <3>2, <3>3, <3>4 DEF InCells, OutCells
  <2>2. CASE p.lines > 1
    <3>1. total = p.lines /\ ui = p.lineIn /\ uo = p.lineOut
      BY <1>2, <2>2 DEF Total, Unit
    <3>2. Cells(j.in, p.in, p.lineIn, p.planeIn, p.pixels, l)
            \subseteq Region(p.in, p.lineIn, 0, p.lines)
      BY <1>1, <1>2, <1>4, <2>2, CellsInside
    <3>3. Cells(j.out, p.out, p.lineOut, p.planeOut, p.pixels, k)
            \subseteq Region(p.out, p.lineOut, 0, p.lines)
      BY <1>1, <1>2, <1>4, <2>2, CellsInside
    <3> QED  BY <3>1, <3>2, <3>3 DEF InCells, OutCells
  <2> QED  BY <1>2, <2>1, <2>2
<1>9. total \in Nat /\ ui \in Nat /\ uo \in Nat
  BY <1>1, <1>2, SpacingType DEF Total, Unit
<1>13. p.in \in Nat /\ p.out \in Nat
  BY <1>2
<1> HIDE DEF total, ui, uo, p
<1>10. CASE p.in + total * ui <= p.out
  <2>1. Region(p.in, ui, 0, total) \cap Region(p.out, uo, 0, total) = {}
    <3>1. ASSUME NEW x \in Nat, NEW y \in Nat
          PROVE  Region(p.in, ui, x, total) \cap Region(p.out, uo, y, total) = {}
      BY <1>13, <1>9, <1>10, RegionsApart, ZenonT(30)
    <3> QED  BY <3>1
  <2> QED  BY <1>7, <1>8, <2>1 DEF p
<1>11. CASE p.out + total * uo <= p.in
  <2>1. Region(p.out, uo, 0, total) \cap Region(p.in, ui, 0, total) = {}
    <3>1. ASSUME NEW x \in Nat, NEW y \in Nat
          PROVE  Region(p.out, uo, x, total) \cap Region(p.in, ui, y, total) = {}
      BY <1>13, <1>9, <1>11, RegionsApart, ZenonT(30)
    <3> QED  BY <3>1
  <2> QED  BY <1>7, <1>8, <2>1 DEF p
<1>12. CASE p.in = p.out /\ ui = uo
  <2>1. PixelSpacing(j.in) = PixelSpacing(j.out)
    BY <1>12 DEF Converts, p
  <2>2. InCells(p, j.in, l) = OutCells(p, j.out, l)
    <3> DEFINE sp == PixelSpacing(j.in)
    <3>1. (l \div p.pixels) * p.lineIn = (l \div p.pixels) * p.lineOut
      <4>1. CASE p.lines > 1
        BY <1>2, <1>12, <4>1 DEF Unit, ui, uo
      <4>2. CASE p.lines <= 1
        <5>1. l \in 0..(p.pixels - 1)
          <6>1. p.lines \in {0, 1} /\ p.pixels * 0 = 0 /\ p.pixels * 1 = p.pixels
            BY <1>2, <4>2
          <6> QED  BY <1>2, <6>1
        <5>2. l \div p.pixels = 0
          BY <1>2, <5>1
        <5> QED  BY <1>2, <5>2
      <4> QED  BY <1>2, <4>1, <4>2
    <3>2. InCells(p, j.in, l)
            = (p.in + (l \div p.pixels) * p.lineIn + (l % p.pixels) * sp)
                ..(p.in + (l \div p.pixels) * p.lineIn + (l % p.pixels) * sp + sp - 1)
      BY <1>1 DEF InCells, Cells
    <3>3. OutCells(p, j.out, l)
            = (p.out + (l \div p.pixels) * p.lineOut + (l % p.pixels) * sp)
                ..(p.out + (l \div p.pixels) * p.lineOut + (l % p.pixels) * sp + sp - 1)
      BY <1>1, <2>1 DEF OutCells, Cells
    <3> QED  BY <1>12, <3>1, <3>2, <3>3
  <2> QED  BY <1>7, <2>2 DEF p
<1> QED  BY <1>1, <1>3, <1>10, <1>11, <1>12

\* Every pixel has a first byte, and it lies in memory.
LEMMA PixelHasBytes ==
    ASSUME NEW j \in Jobs, Converts(j), NEW l \in Pixels(j.piece),
           NEW cells, cells = InCells(j.piece, j.in, l)
    PROVE  /\ cells \subseteq Memory
           /\ (CHOOSE a \in cells : \A b \in cells : a <= b) \in cells
<1>1. j.in \in Format /\ ~j.in.planar /\ j.piece \in Piece /\ j.in.channels > 0
  BY ConvertingPiece DEF Converts
<1>2. cells \subseteq Memory
  BY JobAssumption DEF Touched
<1> DEFINE sp == PixelSpacing(j.in)
           start == j.piece.in + (l \div j.piece.pixels) * j.piece.lineIn
                    + (l % j.piece.pixels) * sp
<1>3. sp \in Nat \ {0}
  <2>1. ComponentSize(j.in) \in Nat \ {0} /\ j.in.channels \in Nat \ {0}
    BY <1>1 DEF Format, ComponentSize
  <2>2. ComponentSize(j.in) * j.in.channels \in Nat \ {0}
    BY <2>1
  <2> QED  BY <1>1, <2>2 DEF PixelSpacing
<1>4. cells = start..(start + sp - 1)
  BY <1>1 DEF InCells, Cells
<1>5. start \in Int
  <2>1. /\ j.piece.in \in Nat /\ j.piece.lineIn \in Nat /\ j.piece.pixels \in Nat
        /\ l \in 0..(j.piece.pixels * j.piece.lines - 1) /\ j.piece.lines \in Nat
    BY <1>1 DEF Piece, Pixels
  <2>2. j.piece.pixels \in Nat \ {0}
    <3>1. j.piece.pixels = 0 => j.piece.pixels * j.piece.lines = 0
      BY <2>1
    <3> QED  BY <2>1, <3>1
  <2>3. l \div j.piece.pixels \in Nat /\ l % j.piece.pixels \in Nat
    <3>1. l \in Nat
      BY <2>1
    <3> HIDE DEF start, sp
    <3>2. l % j.piece.pixels \in 0..(j.piece.pixels - 1) /\ l \div j.piece.pixels \in Nat
      BY <2>2, <3>1, Division, Zenon
    <3> QED  BY <2>1, <3>2
  <2>4. (l \div j.piece.pixels) * j.piece.lineIn \in Nat /\ (l % j.piece.pixels) * sp \in Nat
    BY <1>3, <2>1, <2>3
  <2> QED  BY <2>1, <2>4
<1> HIDE DEF start, sp
<1>6. start \in cells /\ \A b \in cells : start <= b
  BY <1>3, <1>4, <1>5
<1> QED  BY <1>2, <1>6

(***************************************************************************)
(* The threads at work.  The calling thread is one of them once it works.  *)
(***************************************************************************)
AtWork == {w \in Workers : thread[w] \in {"running", "ended"}}
            \cup (IF phase \in {"alone", "own", "join"} THEN {Master} ELSE {})

\* What each has to do, and the image of a pixel.
PieceOf(w) == IF phase = "alone" THEN job.piece ELSE Cut(job, nSlices)[w]
First(cells) == CHOOSE a \in cells : \A b \in cells : a <= b
ImageFrom(w, k) == First(InCells(task[w], job.in, k))
WrittenBy(w) == UNION {OutCells(task[w], job.out, k) : k \in 0..(pos[w] - 1)}

\* A thread has written the images of its first pixels, and perhaps read the
\* next pixel.
Progress(w) ==
    /\ task[w] = PieceOf(w)
    /\ pos[w] \in 0..(task[w].pixels * task[w].lines)
    /\ fetched[w] # Nothing => /\ pos[w] < task[w].pixels * task[w].lines
                               /\ fetched[w] = ImageFrom(w, pos[w])
    /\ \A k \in 0..(pos[w] - 1) : \A a \in OutCells(task[w], job.out, k) \cap Memory :
         mem[a] = ImageFrom(w, k)

Arrays ==
    /\ task \in [Workers \cup {Master} -> Piece]
    /\ pos \in [Workers \cup {Master} -> Nat]
    /\ fetched \in [Workers \cup {Master} -> Int]

\* Nobody else has begun, and nothing else has been written.
Others ==
    /\ \A w \in (Workers \cup {Master}) \ AtWork : pos[w] = 0 /\ fetched[w] = Nothing
    /\ \A a \in Memory : mem[a] # Before => \E w \in AtWork : a \in WrittenBy(w)

SlicesCut ==
    /\ phase \in {"split", "create", "own", "join"} => nSlices <= MaxSlices
    /\ phase \in {"create", "own", "join"} =>
         slices = Cut(job, nSlices) /\ Total(job.piece) \div nSlices > 0

Ended ==
    /\ \A w \in Workers : thread[w] = "ended" => Finished(w)
    /\ phase = "join" => Finished(Master)

ConvertInv ==
    /\ Arrays
    /\ phase \notin {"returned", "crashed"} =>
         SlicesCut /\ (\A w \in AtWork : Progress(w)) /\ Others /\ Ended
    /\ ConvertsAll

LEMMA PieceOfSlice ==
    ASSUME NEW j \in Jobs, Converts(j), NEW n \in Nat \ {0}, NEW s \in 0..(n - 1)
    PROVE  Cut(j, n)[s] \in Piece
<1> DEFINE p == Repaired(j.piece, j.in, j.out)
<1>1. /\ j.in \in Format /\ j.out \in Format /\ p \in Piece
      /\ Total(p) * Unit(p, j.in, p.lineIn) < WordSize
      /\ Total(p) * Unit(p, j.out, p.lineOut) < WordSize
  BY ConvertingPiece
<1> HIDE DEF p
<1>2. SplitWork(p, j.in, j.out, n)[s] \in Piece
  BY <1>1, SliceFields
<1> QED  BY <1>2 DEF Cut, p

\* Who is at work has a slice, or the whole bitmap.
LEMMA WhoWorks ==
    ASSUME ThreadInv, phase \notin {"returned", "crashed"}, NEW w \in AtWork
    PROVE  \/ phase = "alone" /\ w = Master /\ AtWork = {Master}
           \/ phase \in {"create", "own", "join"} /\ nSlices \in Nat \ {0} /\ w \in 0..(nSlices - 1)
<1> USE DEF ThreadInv, Threads, SlicesThere, Phases, Over
<1>1. nSlices \in Nat
  BY NumberOfSlices
<1>2. CASE phase \in {"count", "allocate", "split", "alone"}
  <2>1. {v \in Workers : thread[v] \in {"running", "ended"}} = {}
    BY <1>2
  <2> QED  BY <1>2, <2>1 DEF AtWork
<1>3. CASE phase \in {"create", "own", "join"}
  <2>1. nSlices > 1
    BY <1>3
  <2>2. CASE w = Master
    BY <1>1, <1>3, <2>1, <2>2 DEF Master
  <2>3. CASE w # Master
    <3>1. w \in Workers /\ thread[w] \in {"running", "ended"}
      BY <2>3 DEF AtWork
    <3>2. w \in Nat /\ w >= 1
      BY <3>1 DEF Workers
    <3>3. w < nSlices
      BY <1>1, <1>3, <3>1, <3>2
    <3> QED  BY <1>1, <1>3, <2>1, <3>2, <3>3
  <2> QED  BY <2>2, <2>3
<1> QED  BY <1>2, <1>3

\* Every piece is made of pixels of the bitmap, in their order.
LEMMA PixelsOfPiece ==
    ASSUME ThreadInv, Converts(job), phase \notin {"returned", "crashed"}, NEW w \in AtWork,
           NEW p, p = PieceOf(w)
    PROVE  /\ p \in Piece
           /\ \E at \in [Pixels(p) -> Pixels(job.piece)] :
                /\ \A k \in Pixels(p) :
                     /\ InCells(p, job.in, k) = InCells(job.piece, job.in, at[k])
                     /\ OutCells(p, job.out, k) = OutCells(job.piece, job.out, at[k])
                /\ \A k, l \in Pixels(p) : k < l => at[k] < at[l]
<1>0. job \in Jobs /\ job.piece \in Piece
  BY JobAssumption DEF ThreadInv
<1>1. CASE phase = "alone"
  <2>1. p = job.piece
    BY <1>1 DEF PieceOf
  <2> DEFINE at == [k \in Pixels(p) |-> k]
  <2>2. at \in [Pixels(p) -> Pixels(job.piece)]
    BY <2>1
  <2>3. /\ \A k \in Pixels(p) :
             /\ InCells(p, job.in, k) = InCells(job.piece, job.in, at[k])
             /\ OutCells(p, job.out, k) = OutCells(job.piece, job.out, at[k])
        /\ \A k, l \in Pixels(p) : k < l => at[k] < at[l]
    BY <2>1
  <2> HIDE DEF at
  <2> QED  BY <1>0, <2>1, <2>2, <2>3
<1>2. CASE phase # "alone"
  <2>1. nSlices \in Nat \ {0} /\ w \in 0..(nSlices - 1) /\ p = Cut(job, nSlices)[w]
    BY <1>2, WhoWorks DEF PieceOf
  <2> DEFINE at == [k \in Pixels(p) |-> InWhole(job, nSlices, w, k)]
             start == (w * (Total(job.piece) \div nSlices)) * Width(job.piece)
  <2>2. p \in Piece
    BY <1>0, <2>1, PieceOfSlice
  <2>3. \A k \in Pixels(p) :
          /\ InWhole(job, nSlices, w, k) \in Pixels(job.piece)
          /\ InCells(p, job.in, k) = InCells(job.piece, job.in, InWhole(job, nSlices, w, k))
          /\ OutCells(p, job.out, k) = OutCells(job.piece, job.out, InWhole(job, nSlices, w, k))
    BY <1>0, <2>1, PixelOfSlice
  <2>4. \A k, l \in Pixels(p) : k < l => at[k] < at[l]
    <3>1. start \in Int
      <4>1. Total(job.piece) \in Nat /\ Width(job.piece) \in Nat
        BY <1>0 DEF Total, Width, Piece
      <4>2. Total(job.piece) \div nSlices \in Nat
        BY <2>1, <4>1, Quotient
      <4>3. w * (Total(job.piece) \div nSlices) \in Nat
        BY <2>1, <4>2
      <4> QED  BY <4>1, <4>3
    <3>2. \A k \in Pixels(p) : at[k] = start + k /\ k \in Int
      BY DEF InWhole, Pixels
    <3> HIDE DEF start, at
    <3> QED  BY <3>1, <3>2
  <2>5. at \in [Pixels(p) -> Pixels(job.piece)]
    BY <2>3
  <2>6. \A k \in Pixels(p) :
          /\ InCells(p, job.in, k) = InCells(job.piece, job.in, at[k])
          /\ OutCells(p, job.out, k) = OutCells(job.piece, job.out, at[k])
    BY <2>3
  <2> HIDE DEF at
  <2> QED  BY <2>2, <2>4, <2>5, <2>6
<1> QED  BY <1>1, <1>2

\* So what is written of a piece is not what is still to be read of it.
LEMMA PieceReadsAhead ==
    ASSUME ThreadInv, Converts(job), phase \notin {"returned", "crashed"}, NEW w \in AtWork,
           NEW p, p = PieceOf(w)
    PROVE  /\ p \in Piece
           /\ \A k \in Pixels(p) : /\ InCells(p, job.in, k) \subseteq Memory
                                   /\ First(InCells(p, job.in, k)) \in Memory
           /\ \A k, l \in Pixels(p) : k < l =>
                /\ OutCells(p, job.out, k) \cap OutCells(p, job.out, l) = {}
                /\ OutCells(p, job.out, k) \cap InCells(p, job.in, l) = {}
           /\ \A k \in Pixels(p) : OutCells(p, job.out, k) \subseteq Written(job.piece, job.out)
<1>0. job \in Jobs
  BY DEF ThreadInv
<1>1. p \in Piece
  BY PixelsOfPiece
<1>2. PICK at \in [Pixels(p) -> Pixels(job.piece)] :
        /\ \A k \in Pixels(p) :
             /\ InCells(p, job.in, k) = InCells(job.piece, job.in, at[k])
             /\ OutCells(p, job.out, k) = OutCells(job.piece, job.out, at[k])
        /\ \A k, l \in Pixels(p) : k < l => at[k] < at[l]
  BY PixelsOfPiece
<1>3. ASSUME NEW k \in Pixels(p)
      PROVE  /\ InCells(p, job.in, k) \subseteq Memory
             /\ First(InCells(p, job.in, k)) \in Memory
             /\ OutCells(p, job.out, k) \subseteq Written(job.piece, job.out)
  <2>1. at[k] \in Pixels(job.piece) /\ InCells(p, job.in, k) = InCells(job.piece, job.in, at[k])
        /\ OutCells(p, job.out, k) = OutCells(job.piece, job.out, at[k])
    BY <1>2
  <2>2. /\ InCells(p, job.in, k) \subseteq Memory
        /\ First(InCells(p, job.in, k)) \in InCells(p, job.in, k)
    BY <1>0, <2>1, PixelHasBytes DEF First
  <2> QED  BY <2>1, <2>2 DEF Written
<1>4. ASSUME NEW k \in Pixels(p), NEW l \in Pixels(p), k < l
      PROVE  /\ OutCells(p, job.out, k) \cap OutCells(p, job.out, l) = {}
             /\ OutCells(p, job.out, k) \cap InCells(p, job.in, l) = {}
  <2>1. at[k] \in Pixels(job.piece) /\ at[l] \in Pixels(job.piece) /\ at[k] < at[l]
    BY <1>2, <1>4
  <2>2. /\ OutCells(job.piece, job.out, at[k]) \cap OutCells(job.piece, job.out, at[l]) = {}
        /\ OutCells(job.piece, job.out, at[k]) \cap InCells(job.piece, job.in, at[l]) = {}
    BY <1>0, <2>1, ReadsAhead
  <2> QED  BY <1>2, <2>2
<1> QED  BY <1>1, <1>3, <1>4

\* Two of those at work never touch a byte that one of them writes.
LEMMA PiecesApart ==
    ASSUME ThreadInv, Converts(job), phase \notin {"returned", "crashed"},
           NEW v \in AtWork, NEW w \in AtWork, v # w,
           NEW k \in Pixels(PieceOf(v)), NEW l \in Pixels(PieceOf(w))
    PROVE  /\ OutCells(PieceOf(v), job.out, k) \cap OutCells(PieceOf(w), job.out, l) = {}
           /\ OutCells(PieceOf(v), job.out, k) \cap InCells(PieceOf(w), job.in, l) = {}
<1>1. /\ phase # "alone" /\ nSlices \in Nat \ {0}
      /\ v \in 0..(nSlices - 1) /\ w \in 0..(nSlices - 1)
  BY WhoWorks
<1>2. job \in Jobs /\ Fits(job)
  BY DEF ThreadInv, Converts
<1>3. PieceOf(v) = Cut(job, nSlices)[v] /\ PieceOf(w) = Cut(job, nSlices)[w]
  BY <1>1 DEF PieceOf
<1>4. Written(PieceOf(v), job.out) \cap Touched(PieceOf(w), job.in, job.out) = {}
  BY <1>1, <1>2, <1>3, SlicesOfFittingCall DEF Cut
<1>5. /\ OutCells(PieceOf(v), job.out, k) \subseteq Written(PieceOf(v), job.out)
      /\ OutCells(PieceOf(w), job.out, l) \subseteq Touched(PieceOf(w), job.in, job.out)
      /\ InCells(PieceOf(w), job.in, l) \subseteq Touched(PieceOf(w), job.in, job.out)
  BY DEF Written, Touched
<1> QED  BY <1>4, <1>5

\* Reading: no byte of the pixel has been written yet.
LEMMA ReadKeeps ==
    ASSUME ThreadInv, Converts(job), phase \notin {"returned", "crashed"}, Arrays, Others,
           \A v \in AtWork : Progress(v),
           NEW w \in AtWork, ReadPixel(w), UNCHANGED <<job, phase, thread>>
    PROVE  Arrays' /\ (\A v \in AtWork : Progress(v))' /\ Others'
<1> DEFINE p == PieceOf(w)
           k == pos[w]
<1>1. AtWork' = AtWork /\ \A v : PieceOf(v)' = PieceOf(v)
  BY DEF AtWork, PieceOf, nSlices
<1>2. task[w] = p /\ k \in 0..(p.pixels * p.lines)
  BY DEF Progress
<1>3. w \in Workers \cup {Master}
  BY DEF AtWork
<1>4. p \in Piece
  BY PieceReadsAhead
<1>5. k \in Pixels(p)
  <2>1. k # p.pixels * p.lines
    BY <1>2 DEF ReadPixel, Finished
  <2>2. p.pixels * p.lines \in Nat
    BY <1>4 DEF Piece
  <2> HIDE DEF p, k
  <2> QED  BY <1>2, <2>1, <2>2 DEF Pixels
<1>6. \A a \in InCells(p, job.in, k) : mem[a] = Before
  <2> SUFFICES ASSUME NEW a \in InCells(p, job.in, k), mem[a] # Before PROVE FALSE
    OBVIOUS
  <2>1. a \in Memory
    BY <1>5, PieceReadsAhead
  <2>2. PICK v \in AtWork : a \in WrittenBy(v)
    BY <2>1 DEF Others
  <2>3. PICK l \in 0..(pos[v] - 1) : a \in OutCells(task[v], job.out, l)
    BY <2>2 DEF WrittenBy
  <2>4. task[v] = PieceOf(v) /\ pos[v] \in 0..(PieceOf(v).pixels * PieceOf(v).lines)
    BY DEF Progress
  <2>5. PieceOf(v).pixels * PieceOf(v).lines \in Nat
    <3>1. PieceOf(v) \in Piece
      BY PieceReadsAhead
    <3> QED  BY <3>1 DEF Piece
  <2>6. l \in Pixels(PieceOf(v))
    BY <2>3, <2>4, <2>5 DEF Pixels
  <2>7. CASE v = w
    <3>1. l \in Pixels(p) /\ l < k
      BY <2>3, <2>4, <2>6, <2>7
    <3>2. OutCells(p, job.out, l) \cap InCells(p, job.in, k) = {}
      BY <1>5, <3>1, PieceReadsAhead
    <3> QED  BY <2>3, <2>4, <2>7, <3>2
  <2>8. CASE v # w
    <3>1. OutCells(PieceOf(v), job.out, l) \cap InCells(PieceOf(w), job.in, k) = {}
      BY <1>5, <2>6, <2>8, PiecesApart
    <3> QED  BY <2>3, <2>4, <3>1
  <2> QED  BY <2>7, <2>8
<1>7. fetched' = [fetched EXCEPT ![w] = First(InCells(p, job.in, k))] /\ UNCHANGED <<task, pos, mem>>
  BY <1>2, <1>6 DEF ReadPixel, First
<1>8. First(InCells(p, job.in, k)) \in Int
  <2>1. First(InCells(p, job.in, k)) \in Memory
    BY <1>5, PieceReadsAhead
  <2>2. \A m \in Memory : m \in Int
    BY WorkerAssumption
  <2> QED  BY <2>1, <2>2, Zenon
<1>9. Arrays'
  BY <1>7, <1>8 DEF Arrays
<1> HIDE DEF p, k
<1>10. ASSUME NEW v \in AtWork
       PROVE  Progress(v)'
  <2>1. Progress(v) /\ task'[v] = task[v] /\ pos'[v] = pos[v] /\ mem' = mem /\ job' = job
        /\ PieceOf(v)' = PieceOf(v)
    BY <1>1, <1>7
  <2>2. /\ fetched'[v] = IF v = w THEN First(InCells(p, job.in, k)) ELSE fetched[v]
    BY <1>3, <1>7 DEF Arrays
  <2>3. v = w => k < p.pixels * p.lines
    BY <1>5, <1>4 DEF Pixels, Piece
  <2>4. /\ fetched'[v] # Nothing => /\ pos'[v] < task'[v].pixels * task'[v].lines
                                    /\ fetched'[v] = ImageFrom(v, pos[v])'
    <3>1. CASE v = w
      BY <1>2, <2>1, <2>2, <2>3, <3>1 DEF ImageFrom, k
    <3>2. CASE v # w
      BY <2>1, <2>2, <3>2 DEF ImageFrom, Progress
    <3> QED  BY <3>1, <3>2
  <2> QED  BY <2>1, <2>4 DEF Progress, ImageFrom
<1>11. Others'
  <2>1. \A v \in (Workers \cup {Master}) \ AtWork : fetched'[v] = fetched[v]
    BY <1>7 DEF Arrays
  <2>2. \A v : WrittenBy(v)' = WrittenBy(v)
    BY <1>7 DEF WrittenBy
  <2> QED  BY <1>1, <1>7, <2>1, <2>2 DEF Others
<1> QED  BY <1>1, <1>9, <1>10, <1>11

\* Writing: the images written before stay as they are.
LEMMA WriteKeeps ==
    ASSUME ThreadInv, Converts(job), phase \notin {"returned", "crashed"}, Arrays, Others,
           \A v \in AtWork : Progress(v),
           NEW w \in AtWork, WritePixel(w), UNCHANGED <<job, phase, thread>>
    PROVE  Arrays' /\ (\A v \in AtWork : Progress(v))' /\ Others'
<1> DEFINE p == PieceOf(w)
           k == pos[w]
           cells == OutCells(p, job.out, k)
<1>1. AtWork' = AtWork /\ \A v : PieceOf(v)' = PieceOf(v)
  BY DEF AtWork, PieceOf, nSlices
<1>2. /\ task[w] = p /\ k \in 0..(p.pixels * p.lines) /\ k < p.pixels * p.lines
      /\ fetched[w] = First(InCells(p, job.in, k))
  BY DEF Progress, WritePixel, ImageFrom
<1>3. w \in Workers \cup {Master}
  BY DEF AtWork
<1>4. p \in Piece
  BY PieceReadsAhead
<1>5. k \in Pixels(p) /\ k + 1 \in 0..(p.pixels * p.lines)
  <2>1. p.pixels * p.lines \in Nat
    BY <1>4 DEF Piece
  <2> HIDE DEF p, k
  <2> QED  BY <1>2, <2>1 DEF Pixels
<1>6. /\ mem' = [a \in Memory |-> IF a \in cells THEN fetched[w] ELSE mem[a]]
      /\ fetched' = [fetched EXCEPT ![w] = Nothing]
      /\ pos' = [pos EXCEPT ![w] = k + 1]
      /\ task' = task
  BY <1>2 DEF WritePixel
<1>7. Arrays'
  BY <1>3, <1>5, <1>6 DEF Arrays, Nothing
<1> HIDE DEF p, k, cells
<1>8. \A v \in Workers \cup {Master} : v # w => pos'[v] = pos[v] /\ fetched'[v] = fetched[v]
  BY <1>6 DEF Arrays
<1>9. pos'[w] = k + 1 /\ fetched'[w] = Nothing
  BY <1>3, <1>6 DEF Arrays
<1>10. ASSUME NEW v \in AtWork
       PROVE  Progress(v)'
  <2>1. /\ Progress(v) /\ task'[v] = task[v] /\ job' = job /\ PieceOf(v)' = PieceOf(v)
        /\ task[v] = PieceOf(v) /\ pos[v] \in 0..(PieceOf(v).pixels * PieceOf(v).lines)
    BY <1>1, <1>6 DEF Progress
  <2>2. PieceOf(v).pixels * PieceOf(v).lines \in Nat
    <3>1. PieceOf(v) \in Piece
      BY PieceReadsAhead
    <3> QED  BY <3>1 DEF Piece
  <2>3. v \in Workers \cup {Master}
    BY DEF AtWork
  <2>4. ASSUME NEW l \in 0..(pos[v] - 1), NEW a \in OutCells(task[v], job.out, l) \cap Memory
        PROVE  mem'[a] = ImageFrom(v, l)
    <3>1. l \in Pixels(PieceOf(v))
      BY <2>1, <2>2, <2>4 DEF Pixels
    <3>2. mem[a] = ImageFrom(v, l)
      BY <2>1, <2>4 DEF Progress
    <3>3. a \notin cells
      <4>1. CASE v = w
        <5>1. l < k
          BY <2>1, <2>2, <4>1 DEF k
        <5>2. OutCells(p, job.out, l) \cap OutCells(p, job.out, k) = {}
          BY <1>5, <3>1, <4>1, <5>1, PieceReadsAhead DEF p
        <5> QED  BY <2>1, <4>1, <5>2 DEF cells, p
      <4>2. CASE v # w
        <5>1. OutCells(PieceOf(v), job.out, l) \cap OutCells(PieceOf(w), job.out, k) = {}
          BY <1>5, <3>1, <4>2, PiecesApart DEF p
        <5> QED  BY <2>1, <5>1 DEF cells, p
      <4> QED  BY <4>1, <4>2
    <3> QED  BY <1>6, <3>2, <3>3
  <2>5. CASE v = w
    <3>1. ASSUME NEW a \in OutCells(task[v], job.out, k) \cap Memory
          PROVE  mem'[a] = ImageFrom(v, k)
      <4>1. a \in cells
        BY <1>2, <2>5 DEF cells
      <4> QED  BY <1>2, <1>6, <2>5, <4>1 DEF ImageFrom
    <3>2. \A l \in 0..k : \A a \in OutCells(task[v], job.out, l) \cap Memory :
            mem'[a] = ImageFrom(v, l)
      BY <2>1, <2>2, <2>4, <2>5, <3>1 DEF k
    <3>3. \A l \in 0..(pos'[v] - 1) : \A a \in OutCells(task'[v], job'.out, l) \cap Memory :
            mem'[a] = ImageFrom(v, l)'
      <4>1. k \in Nat /\ pos'[v] - 1 = k
        BY <1>9, <2>1, <2>2, <2>5 DEF k
      <4> QED  BY <2>1, <3>2, <4>1 DEF ImageFrom
    <3> QED  BY <1>2, <1>5, <1>9, <2>1, <2>5, <3>3 DEF Progress
  <2>6. CASE v # w
    <3>1. pos'[v] = pos[v] /\ fetched'[v] = fetched[v]
      BY <1>8, <2>3, <2>6
    <3>2. \A l \in 0..(pos'[v] - 1) : \A a \in OutCells(task'[v], job'.out, l) \cap Memory :
            mem'[a] = ImageFrom(v, l)'
      BY <2>1, <2>4, <3>1 DEF ImageFrom
    <3> QED  BY <2>1, <3>1, <3>2 DEF Progress, ImageFrom
  <2> QED  BY <2>5, <2>6
<1>11. Others'
  <2>1. \A v \in (Workers \cup {Master}) \ AtWork : pos'[v] = 0 /\ fetched'[v] = Nothing
    BY <1>8 DEF Others
  <2>2. ASSUME NEW a \in Memory, mem'[a] # Before
        PROVE  \E v \in AtWork : a \in WrittenBy(v)'
    <3>1. CASE a \in cells
      <4>1. k \in 0..(pos'[w] - 1) /\ OutCells(task'[w], job'.out, k) = cells
        <5>1. k \in Nat
          BY <1>3 DEF Arrays, k
        <5> QED  BY <1>2, <1>6, <1>9, <5>1 DEF cells
      <4> QED  BY <3>1, <4>1 DEF WrittenBy
    <3>2. CASE a \notin cells
      <4>1. mem[a] # Before
        BY <1>6, <2>2, <3>2
      <4>2. PICK v \in AtWork : a \in WrittenBy(v)
        BY <4>1 DEF Others
      <4>3. PICK l \in 0..(pos[v] - 1) : a \in OutCells(task[v], job.out, l)
        BY <4>2 DEF WrittenBy
      <4>4. v \in Workers \cup {Master}
        BY DEF AtWork
      <4>5. pos[v] \in Nat /\ (pos'[v] = pos[v] \/ pos'[v] = pos[v] + 1)
        BY <1>8, <1>9, <4>4 DEF Arrays, k
      <4>6. l \in 0..(pos'[v] - 1)
        BY <4>3, <4>5
      <4> QED  BY <1>6, <4>3, <4>6 DEF WrittenBy
    <3> QED  BY <3>1, <3>2
  <2> QED  BY <1>1, <2>1, <2>2 DEF Others
<1> QED  BY <1>1, <1>7, <1>10, <1>11

\* What the call makes of a byte.
LEMMA ImageOfByte ==
    ASSUME job \in Jobs, Converts(job), NEW k \in Pixels(job.piece),
           NEW a \in OutCells(job.piece, job.out, k)
    PROVE  Image(a) = First(InCells(job.piece, job.in, k))
<1> DEFINE l == CHOOSE l \in Pixels(job.piece) : a \in OutCells(job.piece, job.out, l)
<1>1. l \in Pixels(job.piece) /\ a \in OutCells(job.piece, job.out, l)
  OBVIOUS
<1> HIDE DEF l
<1>2. k \in Int /\ l \in Int
  BY <1>1 DEF Pixels
<1>3. l = k
  <2>1. CASE k < l
    BY <1>1, <2>1, ReadsAhead
  <2>2. CASE l < k
    BY <1>1, <2>2, ReadsAhead
  <2> QED  BY <1>2, <2>1, <2>2
<1>4. a \in Written(job.piece, job.out)
  BY DEF Written
<1> QED  BY <1>3, <1>4 DEF Image, First, l

\* Who has finished has converted its piece.
LEMMA FinishedPiece ==
    ASSUME ThreadInv, Converts(job), phase \notin {"returned", "crashed"},
           NEW w \in AtWork, Progress(w), Finished(w),
           NEW k \in Pixels(PieceOf(w)), NEW a \in Memory,
           a \in OutCells(PieceOf(w), job.out, k)
    PROVE  mem[a] = Image(a)
<1>1. PICK at \in [Pixels(PieceOf(w)) -> Pixels(job.piece)] :
        /\ InCells(PieceOf(w), job.in, k) = InCells(job.piece, job.in, at[k])
        /\ OutCells(PieceOf(w), job.out, k) = OutCells(job.piece, job.out, at[k])
  BY PixelsOfPiece
<1>2. Image(a) = First(InCells(PieceOf(w), job.in, k))
  BY <1>1, ImageOfByte DEF ThreadInv
<1>3. k \in 0..(pos[w] - 1) /\ task[w] = PieceOf(w)
  BY DEF Progress, Finished, Pixels
<1> QED  BY <1>2, <1>3 DEF Progress, ImageFrom

\* Whatever is written belongs to the piece of one of those at work.
LEMMA WrittenByPiece ==
    ASSUME ThreadInv, Converts(job), phase \notin {"returned", "crashed"},
           NEW w \in AtWork, Progress(w), NEW a \in WrittenBy(w)
    PROVE  /\ \E k \in Pixels(PieceOf(w)) : a \in OutCells(PieceOf(w), job.out, k)
           /\ a \in Written(job.piece, job.out)
<1>1. PICK k \in 0..(pos[w] - 1) : a \in OutCells(task[w], job.out, k)
  BY DEF WrittenBy
<1>2. task[w] = PieceOf(w) /\ pos[w] \in 0..(PieceOf(w).pixels * PieceOf(w).lines)
  BY DEF Progress
<1>3. PieceOf(w).pixels * PieceOf(w).lines \in Nat
  <2>1. PieceOf(w) \in Piece
    BY PieceReadsAhead
  <2> QED  BY <2>1 DEF Piece
<1>4. k \in Pixels(PieceOf(w))
  BY <1>1, <1>2, <1>3 DEF Pixels
<1> QED  BY <1>1, <1>2, <1>4, PieceReadsAhead

\* When the calling thread returns, everything has been converted but the
\* slices for which there was no thread.
LEMMA ReturnConverts ==
    ASSUME ThreadInv, Converts(job), ConvertInv, Return
    PROVE  ConvertsAll'
<1> USE DEF ThreadInv, Threads, SlicesThere, Phases, Over
<1>1. /\ phase \notin {"returned", "crashed"} /\ phase' = "returned"
      /\ UNCHANGED <<job, thread, mem>>
  BY DEF Return, work
<1>2. SlicesCut /\ (\A w \in AtWork : Progress(w)) /\ Others /\ Ended
  BY <1>1 DEF ConvertInv
<1>3. \A a : Image(a)' = Image(a)
  BY <1>1 DEF Image
<1>4. Missing' = Missing
  BY <1>1 DEF Missing, fixed, nSlices
<1>5. ASSUME NEW a \in Memory, a \notin Written(job.piece, job.out)
      PROVE  mem[a] = Before /\ Image(a) = Before
  <2>1. ~\E w \in AtWork : a \in WrittenBy(w)
    BY <1>1, <1>2, <1>5, WrittenByPiece
  <2> QED  BY <1>2, <1>5, <2>1 DEF Others, Image
<1>6. CASE phase = "alone" /\ Finished(Master)
  <2>1. Missing = {}
    BY <1>6 DEF Missing
  <2>2. Master \in AtWork /\ PieceOf(Master) = job.piece
    BY <1>6 DEF AtWork, PieceOf
  <2>3. ASSUME NEW a \in Memory, a \in Written(job.piece, job.out)
        PROVE  mem[a] = Image(a)
    <3>1. PICK k \in Pixels(job.piece) : a \in OutCells(job.piece, job.out, k)
      BY <2>3 DEF Written
    <3> QED  BY <1>1, <1>2, <1>6, <2>2, <3>1, FinishedPiece
  <2>4. \A a \in Memory : mem[a] = Image(a)
    BY <1>5, <2>3
  <2> QED  BY <1>1, <1>3, <1>4, <2>1, <2>4 DEF ConvertsAll
<1>7. CASE phase = "join" /\ i = nSlices
  <2>1. /\ nSlices \in Nat \ {0} /\ \A w \in Workers : w < nSlices => thread[w] \in Over
        /\ \A w \in Workers : w >= nSlices => thread[w] = "none"
    BY <1>7, NumberOfSlices
  <2>2. \A w \in AtWork : Finished(w) /\ PieceOf(w) = Cut(job, nSlices)[w] /\ Progress(w)
    <3> SUFFICES ASSUME NEW w \in AtWork
                 PROVE  Finished(w) /\ PieceOf(w) = Cut(job, nSlices)[w] /\ Progress(w)
      OBVIOUS
    <3>1. PieceOf(w) = Cut(job, nSlices)[w] /\ Progress(w)
      BY <1>2, <1>7 DEF PieceOf
    <3>2. CASE w \in Workers /\ thread[w] \in {"running", "ended"}
      <4>1. thread[w] = "ended"
        <5>1. w < nSlices \/ w >= nSlices
          BY <2>1, <3>2 DEF Workers
        <5> QED  BY <2>1, <3>2, <5>1
      <4> QED  BY <1>2, <3>1, <4>1, <3>2 DEF Ended
    <3>3. CASE w = Master
      BY <1>2, <1>7, <3>1, <3>3 DEF Ended
    <3> QED  BY <3>2, <3>3, <1>7 DEF AtWork
  <2>3. ASSUME NEW a \in Memory, a \in Missing
        PROVE  mem[a] = Before
    <3> SUFFICES ASSUME mem[a] # Before PROVE FALSE
      OBVIOUS
    <3>1. PICK f \in Workers : thread[f] = "failed" /\ a \in Written(Cut(job, nSlices)[f], job.out)
      BY <2>3 DEF Missing, Cut, fixed
    <3>2. f \in 0..(nSlices - 1) /\ f \notin AtWork
      BY <2>1, <3>1 DEF Workers, AtWork, Master
    <3>3. PICK w \in AtWork : a \in WrittenBy(w)
      BY <1>2 DEF Others
    <3>4. w \in 0..(nSlices - 1)
      BY <1>1, <1>7, WhoWorks
    <3>5. PICK k \in Pixels(PieceOf(w)) : a \in OutCells(PieceOf(w), job.out, k)
      BY <1>1, <1>2, <3>3, WrittenByPiece
    <3>6. a \in Written(Cut(job, nSlices)[w], job.out)
      BY <2>2, <3>5 DEF Written
    <3>7. Written(Cut(job, nSlices)[w], job.out)
            \cap Touched(Cut(job, nSlices)[f], job.in, job.out) = {}
      BY <2>1, <3>2, <3>4, SlicesOfFittingCall DEF Cut, Converts
    <3> QED  BY <3>1, <3>6, <3>7 DEF Touched
  <2>4. ASSUME NEW a \in Memory, a \notin Missing, a \in Written(job.piece, job.out)
        PROVE  mem[a] = Image(a)
    <3>1. PICK l \in Pixels(job.piece) : a \in OutCells(job.piece, job.out, l)
      BY <2>4 DEF Written
    <3>5. PICK s \in 0..(nSlices - 1) : \E k \in Pixels(Cut(job, nSlices)[s]) :
            InWhole(job, nSlices, s, k) = l
      BY <1>2, <1>7, <2>1, SliceHasPixel DEF SlicesCut
    <3>2. PICK k \in Pixels(Cut(job, nSlices)[s]) : InWhole(job, nSlices, s, k) = l
      BY <3>5
    <3>3. a \in OutCells(Cut(job, nSlices)[s], job.out, k)
      BY <2>1, <3>1, <3>2, PixelOfSlice
    <3>4. s \in AtWork
      <4>1. CASE s = 0
        BY <1>7, <4>1 DEF AtWork, Master
      <4>2. CASE s # 0
        <5>1. s \in Workers
          <6>1. nSlices <= MaxSlices
            BY <1>2, <1>7 DEF SlicesCut
          <6> QED  BY <2>1, <3>2, <4>2, <6>1, WorkerAssumption DEF Workers
        <5>2. thread[s] # "failed"
          <6>1. a \in Written(Cut(job, nSlices)[s], job.out)
            BY <3>2, <3>3 DEF Written
          <6>2. a \in Written(SplitWork(fixed, job.in, job.out, nSlices)[s], job.out)
            BY <6>1 DEF Cut, fixed
          <6> QED  BY <2>4, <5>1, <6>2 DEF Missing
        <5> QED  BY <2>1, <3>2, <5>1, <5>2 DEF AtWork
      <4> QED  BY <4>1, <4>2
    <3> QED  BY <1>1, <2>2, <3>2, <3>3, <3>4, FinishedPiece
  <2> QED  BY <1>1, <1>3, <1>4, <1>5, <2>3, <2>4 DEF ConvertsAll
<1> QED  BY <1>6, <1>7 DEF Return

\* A step that leaves the threads at work alone.
LEMMA OthersStep ==
    ASSUME (\A w \in AtWork : Progress(w)) /\ Others /\ Arrays,
           job' = job, UNCHANGED work, AtWork' = AtWork,
           \A w \in AtWork : PieceOf(w)' = PieceOf(w)
    PROVE  (\A w \in AtWork : Progress(w))' /\ Others' /\ Arrays'
<1>1. UNCHANGED <<task, pos, fetched, mem>>
  BY DEF work
<1> QED  BY <1>1 DEF Progress, Others, Arrays, ImageFrom, WrittenBy

\* One that has a further thread begin.
LEMMA OneBegins ==
    ASSUME (\A w \in AtWork : Progress(w)) /\ Others /\ Arrays,
           job' = job, NEW w \in Workers \cup {Master}, w \notin AtWork,
           NEW p \in Piece, Take(w, p), p = PieceOf(w)',
           AtWork' = AtWork \cup {w},
           \A v \in AtWork : PieceOf(v)' = PieceOf(v)
    PROVE  (\A v \in AtWork : Progress(v))' /\ Others' /\ Arrays'
<1>1. task' = [task EXCEPT ![w] = p] /\ UNCHANGED <<pos, fetched, mem>>
  BY DEF Take
<1>2. Arrays'
  BY <1>1 DEF Arrays
<1>3. task'[w] = p /\ \A v \in AtWork : task'[v] = task[v]
  BY <1>1 DEF Arrays, AtWork
<1>4. ASSUME NEW v \in AtWork
      PROVE  Progress(v)'
  BY <1>1, <1>3 DEF Progress, ImageFrom
<1>5. Progress(w)'
  <2>1. pos'[w] = 0 /\ fetched'[w] = Nothing
    BY <1>1 DEF Others
  <2>2. p.pixels * p.lines \in Nat
    BY DEF Piece
  <2> QED  BY <1>3, <2>1, <2>2 DEF Progress
<1>6. Others'
  <2>1. ASSUME NEW a \in Memory, mem'[a] # Before
        PROVE  \E v \in AtWork : a \in WrittenBy(v)'
    <3>1. PICK v \in AtWork : a \in WrittenBy(v)
      BY <1>1, <2>1 DEF Others
    <3> QED  BY <1>1, <1>3, <3>1 DEF WrittenBy
  <2> QED  BY <1>1, <2>1 DEF Others
<1> QED  BY <1>2, <1>4, <1>5, <1>6

LEMMA ConvertInvInit == ASSUME Init PROVE ConvertInv
<1>1. AtWork = {}
  BY DEF Init, AtWork
<1>2. NoTask \in Piece
  BY DEF NoTask, Piece
<1>3. Arrays
  BY <1>2 DEF Init, Arrays, Nothing
<1>4. Others
  BY <1>1 DEF Init, Others
<1> QED  BY <1>1, <1>3, <1>4 DEF Init, ConvertInv, SlicesCut, Ended, ConvertsAll

\* The steps of the calling thread before it works...
LEMMA PreparingConverts ==
    ASSUME ThreadInv, Converts(job), ConvertInv, Count \/ Allocate \/ Split \/ Create \/ DoOwnPortion
    PROVE  ConvertInv'
<1> USE DEF ThreadInv, Threads, SlicesThere, Phases, Over
<1>1. job' = job /\ nSlices' = nSlices /\ nSlices \in Nat
  BY JobStays, NumberOfSlices DEF Next, Calling
<1>2. /\ phase \in {"count", "allocate", "split", "create"}
      /\ phase' \in {"allocate", "split", "create", "own", "alone"}
  BY DEF Count, Allocate, Split, Create, DoOwnPortion, Alone
<1>3. Arrays /\ SlicesCut /\ (\A w \in AtWork : Progress(w)) /\ Others /\ Ended
  BY <1>2 DEF ConvertInv
<1>4. ConvertsAll'
  BY <1>2 DEF ConvertsAll
<1>5. SUFFICES SlicesCut' /\ (\A w \in AtWork : Progress(w))' /\ Others' /\ Arrays' /\ Ended'
  BY <1>2, <1>4 DEF ConvertInv
<1>6. CASE phase' = "alone"
  <2>1. Alone /\ phase \in {"count", "allocate", "split"}
    BY <1>6 DEF Count, Allocate, Split, Create, DoOwnPortion, Alone
  <2>2. AtWork = {} /\ AtWork' = {Master}
    BY <2>1 DEF AtWork, Alone
  <2>3. Take(Master, job.piece) /\ thread' = thread /\ job.piece \in Piece
        /\ PieceOf(Master)' = job.piece
    BY <1>1, <2>1, JobAssumption DEF Alone, PieceOf
  <2>4. (\A w \in AtWork : Progress(w))' /\ Others' /\ Arrays'
    BY <1>1, <1>3, <2>2, <2>3, OneBegins
  <2> QED  BY <1>6, <2>1, <2>3, <2>4 DEF SlicesCut, Ended
<1>7. CASE phase' # "alone" /\ phase' # "own"
  <2>1. UNCHANGED work /\ phase # "alone"
    BY <1>2, <1>7 DEF Count, Allocate, Split, Create, DoOwnPortion, Alone
  <2>2. \/ thread' = thread
        \/ /\ phase = "create" /\ i \in Workers /\ thread[i] = "none"
           /\ \E o \in {"created", "failed"} : thread' = [thread EXCEPT ![i] = o]
    <3>1. CASE Create
      <4>1. i \in Workers
        BY <1>1, <1>3, <3>1, WorkerAssumption DEF Create, SlicesCut, Workers
      <4>2. \E o \in {"created", "failed"} : thread' = [thread EXCEPT ![i] = o]
        BY <3>1 DEF Create
      <4>3. phase = "create" /\ i \in 1..nSlices
        BY <3>1 DEF Create
      <4>4. thread[i] = "none"
        BY <1>1, <4>1, <4>3
      <4> QED  BY <4>1, <4>2, <4>3, <4>4
    <3> QED  BY <1>7, <3>1 DEF Count, Allocate, Split, DoOwnPortion, Alone
  <2>3. \A w \in Workers : (thread'[w] \in {"running", "ended"} \/ thread[w] \in {"running", "ended"})
                             => thread'[w] = thread[w]
    BY <2>2
  <2>4. AtWork' = AtWork
    BY <1>2, <1>7, <2>3 DEF AtWork
  <2>5. \A w : PieceOf(w)' = PieceOf(w)
    BY <1>1, <1>7, <2>1 DEF PieceOf
  <2>6. (\A w \in AtWork : Progress(w))' /\ Others' /\ Arrays'
    BY <1>1, <1>3, <2>1, <2>4, <2>5, OthersStep
  <2>7. Ended'
    BY <1>2, <1>3, <2>1, <2>3 DEF Ended, Finished, work
  <2>8. SlicesCut'
    <3>1. CASE Split
      <4>1. Splittable(fixed, nSlices) /\ slices' = Cut(job, nSlices)
        BY <1>7, <3>1 DEF Split, Alone, Cut, fixed
      <4>2. Total(fixed) \div nSlices > 0 /\ Total(fixed) = Total(job.piece)
        BY <4>1, ConvertingPiece DEF Splittable, Total, fixed
      <4>3. nSlices <= MaxSlices
        BY <1>3, <3>1 DEF Split, SlicesCut
      <4> QED  BY <1>1, <4>1, <4>2, <4>3 DEF SlicesCut
    <3>2. CASE ~Split
      BY <1>1, <1>3, <1>7, <3>2 DEF Count, Allocate, Create, DoOwnPortion, Alone, SlicesCut
    <3> QED  BY <3>1, <3>2
  <2> QED  BY <2>6, <2>7, <2>8
<1>8. CASE phase' = "own"
  <2>1. /\ phase = "create" /\ Take(Master, slices[0]) /\ thread' = thread /\ slices' = slices
    BY <1>8 DEF Count, Allocate, Split, Create, DoOwnPortion, Alone
  <2>2. Master \notin AtWork /\ AtWork' = AtWork \cup {Master}
    BY <1>8, <2>1 DEF AtWork, Workers, Master
  <2>3. slices = Cut(job, nSlices) /\ nSlices > 1
    BY <1>3, <2>1 DEF SlicesCut
  <2>4. slices[0] \in Piece
    BY <1>1, <2>3, PieceOfSlice
  <2>5. slices[0] = PieceOf(Master)' /\ \A v \in AtWork : PieceOf(v)' = PieceOf(v)
    BY <1>1, <1>8, <2>1, <2>3 DEF PieceOf, Master
  <2>6. (\A w \in AtWork : Progress(w))' /\ Others' /\ Arrays'
    BY <1>1, <1>3, <2>1, <2>2, <2>4, <2>5, OneBegins
  <2>7. Ended'
    <3>1. ASSUME NEW w \in Workers, thread[w] = "ended"
          PROVE  Finished(w)'
      <4>1. w # Master /\ w \in AtWork /\ Finished(w)
        BY <1>3, <3>1 DEF Ended, AtWork, Workers, Master
      <4>2. task'[w] = task[w] /\ pos'[w] = pos[w] /\ fetched'[w] = fetched[w]
        BY <1>3, <2>1, <4>1 DEF Take, Arrays
      <4> QED  BY <4>1, <4>2 DEF Finished
    <3> QED  BY <1>8, <2>1, <3>1 DEF Ended
  <2>8. SlicesCut'
    BY <1>1, <1>3, <1>8, <2>1 DEF SlicesCut
  <2> QED  BY <2>6, <2>7, <2>8
<1> QED  BY <1>6, <1>7, <1>8

\* ...and afterwards.
LEMMA JoiningConverts ==
    ASSUME ThreadInv, Converts(job), ConvertInv, OwnPortionDone \/ Join \/ Return
    PROVE  ConvertInv'
<1> USE DEF ThreadInv, Threads, SlicesThere, Phases, Over
<1>1. job' = job /\ nSlices' = nSlices /\ nSlices \in Nat
  BY JobStays, NumberOfSlices DEF Next, Calling
<1>2. phase \in {"own", "join", "alone"} /\ UNCHANGED <<job, thread, work>>
  BY DEF OwnPortionDone, Join, Return
<1>3. Arrays /\ SlicesCut /\ (\A w \in AtWork : Progress(w)) /\ Others /\ Ended
  BY <1>2 DEF ConvertInv
<1>4. Arrays'
  BY <1>2, <1>3 DEF Arrays, work
<1>5. CASE Return
  BY <1>4, <1>5, ReturnConverts DEF ConvertInv, Return
<1>6. CASE phase' = "crashed"
  BY <1>4, <1>6 DEF ConvertInv, ConvertsAll
<1>7. CASE phase' = "join" /\ ~Return
  <2>1. /\ phase \in {"own", "join"} /\ slices' = slices
        /\ phase = "own" => Finished(Master)
    BY <1>7 DEF OwnPortionDone, Join
  <2>2. AtWork' = AtWork
    BY <1>2, <1>7, <2>1 DEF AtWork
  <2>3. \A w : PieceOf(w)' = PieceOf(w)
    BY <1>1, <1>7, <2>1 DEF PieceOf
  <2>4. (\A w \in AtWork : Progress(w))' /\ Others'
    BY <1>2, <1>3, <2>2, <2>3, OthersStep
  <2>5. Ended'
    BY <1>2, <1>3, <1>7, <2>1 DEF Ended, Finished, work
  <2>6. SlicesCut'
    BY <1>1, <1>3, <1>7, <2>1 DEF SlicesCut
  <2>7. ConvertsAll'
    BY <1>7 DEF ConvertsAll
  <2> QED  BY <1>4, <2>4, <2>5, <2>6, <2>7 DEF ConvertInv
<1> QED  BY <1>5, <1>6, <1>7 DEF OwnPortionDone, Join

\* Working, on the slice of the calling thread or on another.
LEMMA WorkingConverts ==
    ASSUME ThreadInv, Converts(job), ConvertInv, phase \notin {"returned", "crashed"},
           NEW w \in AtWork, Work(w), UNCHANGED <<job, phase, i, slices, thread>>,
           w \in Workers => thread[w] = "running",
           w = Master => phase # "join"
    PROVE  ConvertInv'
<1>1. Arrays /\ SlicesCut /\ (\A v \in AtWork : Progress(v)) /\ Others /\ Ended
  BY DEF ConvertInv
<1>2. Arrays' /\ (\A v \in AtWork : Progress(v))' /\ Others'
  BY <1>1, ReadKeeps, WriteKeeps DEF Work
<1>3. SlicesCut'
  BY <1>1 DEF SlicesCut, nSlices
<1>4. \A v \in Workers \cup {Master} :
        v # w => task'[v] = task[v] /\ pos'[v] = pos[v] /\ fetched'[v] = fetched[v]
  BY <1>1 DEF Work, ReadPixel, WritePixel, Arrays
<1>5. Ended'
  <2>1. ASSUME NEW v \in Workers, thread[v] = "ended"
        PROVE  Finished(v)'
    BY <1>1, <1>4, <2>1 DEF Ended, Finished
  <2>2. phase = "join" => Finished(Master)'
    BY <1>1, <1>4 DEF Ended, Finished
  <2> QED  BY <2>1, <2>2 DEF Ended
<1>6. ConvertsAll'
  BY DEF ConvertsAll
<1> QED  BY <1>2, <1>3, <1>5, <1>6 DEF ConvertInv

\* The other threads.
LEMMA ThreadsConvert ==
    ASSUME ThreadInv, Converts(job), ConvertInv, NEW w \in Workers, Working(w)
    PROVE  ConvertInv'
<1> USE DEF ThreadInv, Threads, SlicesThere, Phases, Over
<1>1. job' = job /\ nSlices' = nSlices /\ nSlices \in Nat
  BY JobStays, NumberOfSlices DEF Next
<1>2. /\ phase \notin {"returned", "crashed"} /\ UNCHANGED <<phase, slices, i>>
      /\ phase \in {"create", "own", "join"} /\ w < nSlices /\ w # Master
  <2>1. UNCHANGED <<phase, slices, i>> /\ phase # "crashed" /\ thread[w] \in {"created", "running"}
    BY DEF Working, Start, Run, End
  <2>2. phase \in {"create", "own", "join"}
    BY <2>1
  <2>3. w \in Nat /\ w >= 1
    BY DEF Workers
  <2>4. w < nSlices
    BY <1>1, <2>1, <2>2, <2>3
  <2> QED  BY <2>1, <2>2, <2>3, <2>4 DEF Master
<1>3. Arrays /\ SlicesCut /\ (\A v \in AtWork : Progress(v)) /\ Others /\ Ended
  BY <1>2 DEF ConvertInv
<1>4. \A v : PieceOf(v)' = PieceOf(v)
  BY <1>1, <1>2 DEF PieceOf
<1>5. CASE Run(w)
  <2>1. w \in AtWork /\ thread[w] = "running"
    BY <1>5 DEF Run, AtWork
  <2> QED  BY <1>2, <1>5, <2>1, WorkingConverts DEF Run
<1>6. SlicesCut' /\ ConvertsAll'
  BY <1>1, <1>2, <1>3 DEF SlicesCut, ConvertsAll
<1>7. CASE Start(w)
  <2>1. thread[w] = "created" /\ thread' = [thread EXCEPT ![w] = "running"]
    BY <1>7 DEF Start
  <2>2. Take(w, slices[w]) /\ slices = Cut(job, nSlices)
    BY <1>2, <1>3, <1>7 DEF Start, SlicesCut
  <2>3. slices[w] \in Piece /\ slices[w] = PieceOf(w)'
    <3>1. nSlices \in Nat \ {0} /\ w \in 0..(nSlices - 1)
      BY <1>1, <1>2 DEF Workers
    <3> QED  BY <1>2, <1>4, <2>2, <3>1, PieceOfSlice DEF PieceOf
  <2>4. w \notin AtWork /\ AtWork' = AtWork \cup {w}
    BY <1>2, <2>1 DEF AtWork
  <2>5. (\A v \in AtWork : Progress(v))' /\ Others' /\ Arrays'
    BY <1>1, <1>3, <1>4, <2>2, <2>3, <2>4, OneBegins
  <2>6. Ended'
    <3>1. \A v \in Workers \cup {Master} : v # w =>
            task'[v] = task[v] /\ pos'[v] = pos[v] /\ fetched'[v] = fetched[v]
      BY <1>3, <2>2 DEF Take, Arrays
    <3>2. ASSUME NEW v \in Workers, thread'[v] = "ended"
          PROVE  Finished(v)'
      <4>1. v # w /\ thread[v] = "ended"
        BY <2>1, <3>2
      <4> QED  BY <1>3, <3>1, <4>1 DEF Ended, Finished
    <3>3. phase = "join" => Finished(Master)'
      BY <1>2, <1>3, <3>1 DEF Ended, Finished
    <3> QED  BY <1>2, <3>2, <3>3 DEF Ended
  <2> QED  BY <1>6, <2>5, <2>6 DEF ConvertInv
<1>8. CASE End(w)
  <2>1. /\ thread[w] = "running" /\ thread' = [thread EXCEPT ![w] = "ended"]
        /\ Finished(w) /\ UNCHANGED work
    BY <1>8 DEF End
  <2>2. AtWork' = AtWork
    BY <1>2, <2>1 DEF AtWork
  <2>3. (\A v \in AtWork : Progress(v))' /\ Others' /\ Arrays'
    BY <1>1, <1>3, <1>4, <2>1, <2>2, OthersStep
  <2>4. Ended'
    BY <1>2, <1>3, <2>1 DEF Ended, Finished, work
  <2> QED  BY <1>6, <2>3, <2>4 DEF ConvertInv
<1> QED  BY <1>5, <1>7, <1>8 DEF Working

LEMMA ConvertInvStep ==
    ASSUME ThreadInv, Converts(job), ConvertInv, [Next]_vars
    PROVE  ConvertInv'
<1>1. CASE UNCHANGED vars
  <2>1. UNCHANGED <<job, phase, i, slices, thread, task, pos, fetched, mem>>
    BY <1>1 DEF vars
  <2>2. nSlices' = nSlices /\ AtWork' = AtWork /\ UNCHANGED work
    BY <2>1 DEF nSlices, AtWork, work
  <2>3. \A w : PieceOf(w)' = PieceOf(w)
    BY <2>1, <2>2 DEF PieceOf
  <2>4. ConvertsAll'
    <3>1. \A a : Image(a)' = Image(a)
      BY <2>1 DEF Image
    <3>2. Missing' = Missing
      BY <2>1, <2>2 DEF Missing, fixed
    <3> QED  BY <2>1, <3>1, <3>2 DEF ConvertInv, ConvertsAll
  <2>5. Arrays'
    BY <2>1 DEF ConvertInv, Arrays
  <2>6. CASE phase \in {"returned", "crashed"}
    BY <2>1, <2>4, <2>5, <2>6 DEF ConvertInv
  <2>7. CASE phase \notin {"returned", "crashed"}
    <3>1. SlicesCut /\ (\A w \in AtWork : Progress(w)) /\ Others /\ Ended /\ Arrays
      BY <2>7 DEF ConvertInv
    <3>2. (\A w \in AtWork : Progress(w))' /\ Others'
      BY <2>1, <2>2, <2>3, <3>1, OthersStep
    <3>3. SlicesCut' /\ Ended'
      BY <2>1, <2>2, <3>1 DEF SlicesCut, Ended, Finished
    <3> QED  BY <2>4, <2>5, <3>2, <3>3 DEF ConvertInv
  <2> QED  BY <2>6, <2>7
<1>2. CASE MasterWorks
  <2>1. Master \in AtWork /\ phase \in {"alone", "own"} /\ Master \notin Workers
    BY <1>2 DEF MasterWorks, AtWork, Master, Workers
  <2> QED  BY <1>2, <2>1, WorkingConverts DEF MasterWorks
<1>3. CASE \E w \in Workers : Working(w)
  BY <1>3, ThreadsConvert
<1>4. CASE Count \/ Allocate \/ Split \/ Create \/ DoOwnPortion
  BY <1>4, PreparingConverts
<1>5. CASE OwnPortionDone \/ Join \/ Return
  BY <1>5, JoiningConverts
<1> QED  BY <1>1, <1>2, <1>3, <1>4, <1>5 DEF Next, Calling

\* A threaded call converts the whole bitmap (_cmsThrScheduler): for ordinary
\* calls, bitmaps of any size, any number of threads and every interleaving of
\* their reads and writes, in place or not, each byte of the output is the
\* image of the pixel it belongs to once the call has returned, and no other
\* byte has changed; but for the slices whose threads could not be created.
THEOREM EveryPixelOnce ==
    ASSUME \A j \in Jobs : Converts(j)
    PROVE  Spec => []ConvertsAll
<1>1. Init => ConvertInv
  BY ConvertInvInit
<1>2. ThreadInv /\ ConvertInv /\ [Next]_vars => ConvertInv'
  BY ConvertInvStep DEF ThreadInv
<1>3. ConvertInv => ConvertsAll
  BY DEF ConvertInv
<1> QED  BY <1>1, <1>2, <1>3, ThreadInvariance, PTL DEF Spec

=============================================================================
