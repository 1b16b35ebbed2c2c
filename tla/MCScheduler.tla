----------------------------- MODULE MCScheduler -----------------------------
(***************************************************************************)
(* Calls small enough to follow every interleaving of their threads.       *)
(***************************************************************************)
EXTENDS Scheduler

Chunky(bytes, channels) == [planar |-> FALSE, bytes |-> bytes, channels |-> channels]
Planar(channels) == [planar |-> TRUE, bytes |-> 1, channels |-> channels]

Call(in, out, max, piece) == [in |-> in, out |-> out, maxWorkers |-> max, piece |-> piece]

\* cmsDoTransform: one line, no distance between lines, planes one after another.
OneLine(in, out, pixels, outAt, max) ==
    Call(in, out, max,
         [in |-> 0, out |-> outAt, pixels |-> pixels, lines |-> 1, lineIn |-> 0, lineOut |-> 0,
          planeIn |-> pixels * ComponentSize(in), planeOut |-> pixels * ComponentSize(out)])

\* cmsDoTransformLineStride, with pad bytes at the end of each input line.
Lines(in, out, pixels, lines, pad, outAt, max) ==
    LET line(f) == pixels * f.channels * ComponentSize(f)
    IN  Call(in, out, max,
             [in |-> 0, out |-> outAt, pixels |-> pixels, lines |-> lines,
              lineIn |-> line(in) + pad, lineOut |-> line(out) + IF outAt = 0 THEN pad ELSE 0,
              planeIn |-> pixels * ComponentSize(in), planeOut |-> pixels * ComponentSize(out)])

SmallJobs ==
    {OneLine(Chunky(1, 1), Chunky(1, 1), 9, 9, 4),          \* a rest of one pixel
     OneLine(Chunky(1, 2), Chunky(2, 1), 4, 0, 3),          \* in place, two bytes a pixel
     OneLine(Planar(2), Chunky(1, 2), 4, 8, GuessMaxThreads),
     OneLine(Chunky(0, 1), Chunky(1, 1), 3, 24, 2),         \* doubles
     OneLine(Chunky(1, 1), Chunky(1, 1), 2, 2, 3),          \* too small for two threads
     OneLine(Chunky(1, 1), Chunky(1, 1), 5, 5, -2),         \* no such limit: no such memory
     OneLine(Chunky(1, 1), Chunky(1, 1), 0, 5, 3),          \* nothing at all
     Lines(Chunky(1, 1), Chunky(2, 1), 1, 5, 1, 12, 3),     \* padding, and a rest of two lines
     Lines(Chunky(1, 1), Chunky(1, 1), 2, 4, 1, 0, 4),      \* in place, with padding
     Lines(Planar(2), Planar(2), 2, 3, 0, 12, 3),           \* planes within each line
     Lines(Chunky(1, 3), Chunky(1, 3), 2, 2, 0, 12, 3)}     \* more slices than lines

SmallMemory == 0..31
=============================================================================
