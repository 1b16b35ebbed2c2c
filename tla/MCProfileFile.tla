--------------------------- MODULE MCProfileFile ---------------------------
(***************************************************************************)
(* Small instances of ProfileFile: the ordinary tags take the type XYZ,    *)
(* P is a private tag with no descriptor; y is one word wider than the     *)
(* other payloads, so that its blocks shift those behind them.             *)
(***************************************************************************)
EXTENDS ProfileFile, TLC

CONSTANTS P, y, XYZ

MCTypeOf     == [v \in Payloads |-> XYZ]
MCWidth      == [v \in Payloads |-> IF v = y THEN 3 ELSE 2]
MCSupported  == [s \in Sigs |-> IF s = P THEN {} ELSE {XYZ}]
HeapSymmetry == Permutations(Objects)
\* Tags of one descriptor are interchangeable.
FullSymmetry == Permutations(Objects) \cup Permutations(Sigs \ {P})

\* Nothing that a call does depends on what the last one returned.
StateView == <<slot, count, heap, file, fate>>

\* A bound: the calls go on from three positions only where they are chains of
\* ordinary tags on one narrow block, in memory, in the file or in both, and a
\* tag has been deleted only if the profile was not opened from a file.
ThirdIsOfAChain ==
    count = 3 =>
      /\ \A i \in 1..count : slot[i].name # P /\ (slot[i].name = NoSig => file = NoFile)
      /\ \A o \in Objects : heap[o] # Unused => heap[o].val # y
      /\ \A off \in DOMAIN file.block : file.block[off].val # y
      /\ \A o, q \in Objects : o # q => heap[o] = Unused \/ heap[q] = Unused
      /\ Cardinality(DOMAIN file.block) <= 1
=============================================================================
