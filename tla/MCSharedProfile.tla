--------------------------- MODULE MCSharedProfile ---------------------------
(***************************************************************************)
(* Instances of SharedProfile for TLC: A and B are the tags of the two     *)
(* threads; S and T are in the file, and L is a link to S.                 *)
(***************************************************************************)
EXTENDS SharedProfile, TLC

CONSTANTS A, B, S, T, L, a, b, x, y, XYZ, Curve

MCOwner == [s \in Sigs |-> CASE s = A -> a [] s = B -> b [] OTHER -> NoThread]
MCTypeOf == [v \in Payloads |-> IF v = x THEN XYZ ELSE Curve]
MCWidth == [v \in Payloads |-> 2]
MCSupported == [s \in Sigs |-> IF s = T THEN {Curve} ELSE {XYZ}]

InTheFile(s, off) == [EmptySlot EXCEPT !.name = s, !.off = off, !.size = 2]
HeapSymmetry == Permutations(Objects)
Init ==
    /\ Begun
    /\ file = [block |-> 1 :> [val |-> x, size |-> 2] @@ 3 :> [val |-> y, size |-> 2], used |-> 5]
    /\ slot = [i \in Position |-> CASE i = 1 -> InTheFile(S, 1)
                                    [] i = 2 -> InTheFile(T, 3)
                                    [] i = 3 -> [InTheFile(L, 1) EXCEPT !.linked = S]
                                    [] OTHER -> EmptySlot]
    /\ count = 3
    /\ meaning = [s \in Sigs |-> CASE s \in {S, L} -> x [] s = T -> y [] OTHER -> Null]
    /\ Opened

Spec == Init /\ [][SharedNext]_sharedVars
=============================================================================
