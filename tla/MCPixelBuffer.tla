---------------------------- MODULE MCPixelBuffer ----------------------------
(***************************************************************************)
(* Instances of PixelBuffer for TLC.                                       *)
(***************************************************************************)
EXTENDS PixelBuffer

\* Every flag and its combinations, for one, three and four channels of each
\* size, with and without an extra sample.
Combinations ==
    {f \in [space: {PT_RGB}, channels: {1, 3, 4}, extra: {0, 1}, bytes: {0, 1, 2, 4},
            flags: SUBSET (Flags \ {"float", "optimized"})] :
        /\ "premul" \in f.flags => f.extra = 1
        /\ "endian" \in f.flags => f.bytes = 2}

MCFormats ==
    NamedTypes
      \cup {[f EXCEPT !.flags = @ \cup {"float"}] : f \in {g \in Combinations : g.bytes # 1}}
      \cup {f \in Combinations : f.bytes \in {1, 2}}
      \cup {[t EXCEPT !.flags = @ \cup {"optimized"}] : t \in RGBTypes}
      \cup {[t EXCEPT !.extra = extra] : t \in {u \in GrayTypes : "premul" \notin u.flags}, extra \in {1, 2, 3}}
      \cup {Format(PT_MCH2, 2, 0, bytes, {}) : bytes \in {1, 2}}
      \cup {[t EXCEPT !.flags = @ \cup {"planar"}] : t \in {u \in FloatTypes : "premul" \notin u.flags}}
      \cup {Format(space, 3, 2, bytes, flags \cup {"float"}) :
              space \in {PT_Lab, PT_XYZ}, bytes \in {0, 4}, flags \in {{}, {"planar"}}}

\* The kinds of samples, the orders, and two extra samples.
MCSources ==
    {Format(PT_RGB, 3, extra, 2, order \cup flags) : extra \in {1, 2}, order \in Orders, flags \in {{}, {"endian"}, {"planar", "float"}}}
      \cup {Format(PT_GRAY, 1, extra, 1, flags) : extra \in {1, 2, 3}, flags \in {{"doswap"}, {"planar"}}}
      \cup {Format(PT_RGB, 3, extra, bytes, {"float"}) : extra \in {1, 2}, bytes \in {0, 4}}
=============================================================================
