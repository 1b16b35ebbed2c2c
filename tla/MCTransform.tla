----------------------------- MODULE MCTransform -----------------------------
(***************************************************************************)
(* Five formats, and three colours: the first one a cache holds, which is  *)
(* out of gamut, an easy one, and one that needs more than 8 bits.         *)
(***************************************************************************)
EXTENDS Transform, TLC

CONSTANTS Easy, Delicate, Wide, Narrow, Double, Odd

SomeBytes == Wide :> 2 @@ Narrow :> 1 @@ Double :> 0 @@ Odd :> 3 @@ NoFormat :> 0
SomeExtra == Wide :> 0 @@ Narrow :> 1 @@ Double :> 0 @@ Odd :> 0 @@ NoFormat :> 0

SomeFlagSets == {{}, {"NOCACHE"}, {"GAMUTCHECK"}, {"GAMUTCHECK", "NOCACHE"},
                 {"NULLTRANSFORM"}, {"NOOPTIMIZE", "COPY_ALPHA"}}

SomeBuffers == {<<Zero, Easy>>, <<Easy, Easy>>, <<Delicate, Zero>>}

SameThreads == Permutations(Threads)

=============================================================================
