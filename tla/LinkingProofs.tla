---------------------------- MODULE LinkingProofs ----------------------------
(***************************************************************************)
(* Three invariants of Linking and an action property, for any chains,     *)
(* intents, flags and formats and wherever memory runs out.                *)
(*                                                                         *)
(* NothingHeld: whatever the profiles hold, every pipeline of a call is    *)
(* freed once.  What is in a pipeline does not matter to it: only which    *)
(* numbers the variables of the call hold, and where the call is.          *)
(*                                                                         *)
(* EncodingsMeet and SupportedLinks: of chains of regular profiles, stage  *)
(* follows stage in the encoding and with the channels that it takes, from *)
(* the profile's tags to the last optimisation, and two profiles that      *)
(* support their intents do link.  Here it matters only what is in a       *)
(* pipeline: between which encodings its stages lead.                      *)
(*                                                                         *)
(* MeaningKept: of the same chains, a pipeline computes the same before    *)
(* and after each step of optimisation, in 16 bits too.  Here it matters   *)
(* which word its stages say.                                              *)
(*                                                                         *)
(* The last two end where MatricesLost begins: a product of matrices that  *)
(* cannot be allocated leaves a pipeline of which nothing can be promised. *)
(***************************************************************************)
EXTENDS LinkingInvariants, FiniteSetTheorems, SequenceTheorems, WellFoundedInduction, TLAPS

--------------------
\* The heap.

\* A number that Fresh picks is free.
LEMMA FreshIsFree ==
    ASSUME IsFiniteSet(DOMAIN heap), DOMAIN heap \subseteq Nat \ {Nil}
    PROVE  Fresh \in Nat \ {Nil} /\ Fresh \notin DOMAIN heap
<1> DEFINE k == Cardinality(DOMAIN heap)
<1>1. k \in Nat
  BY FS_CardinalityType
<1>2. Cardinality(1..k + 1) = k + 1
  BY <1>1, FS_Interval
<1>3. ~(1..k + 1 \subseteq DOMAIN heap)
  <2> SUFFICES ASSUME 1..k + 1 \subseteq DOMAIN heap PROVE FALSE
    OBVIOUS
  <2>1. Cardinality(1..k + 1) <= k
    BY FS_Subset
  <2> QED  BY <1>1, <1>2, <2>1
<1>4. \E id \in 1..k + 1 : id \notin DOMAIN heap
  BY <1>3
<1>5. Fresh \in 1..k + 1 /\ Fresh \notin DOMAIN heap
  BY <1>4 DEF Fresh
<1> QED  BY <1>1, <1>5 DEF Nil

\* A pipeline is added, and some are freed.
LEMMA Domains ==
    /\ \A h, id, x : DOMAIN Adding(h, id, x) = DOMAIN h \union {id}
    /\ \A ids : DOMAIN Without(ids) = DOMAIN heap \ ids
  BY DEF Adding, Without, Restrict

--------------------
\* What steps do to the variables: the pipelines stay, one is made, some
\* are freed, one is handed over, or one is forgotten.

LEMMA Stays ==
    ASSUME Owned, DOMAIN link' = Locals, link'.forgotten = link.forgotten,
           \A v \in Owners : link'[v] = link[v], DOMAIN heap' = DOMAIN heap
    PROVE  Owned'
<1>1. Held(link') = Held(link)
  BY DEF Held
<1>2. Apart(link')
  BY <1>1 DEF Owned, Apart
<1> QED  BY <1>1, <1>2 DEF Owned

LEMMA Makes ==
    ASSUME Owned, NEW w \in Owners, link[w] = Nil,
           DOMAIN link' = Locals, link'.forgotten = link.forgotten,
           \A v \in Owners : link'[v] = IF v = w THEN Fresh ELSE link[v],
           DOMAIN heap' = DOMAIN heap \union {Fresh}
    PROVE  Owned'
<1>1. Fresh \in Nat \ {Nil} /\ Fresh \notin DOMAIN heap
  BY FreshIsFree DEF Owned
<1>2. Held(link') = Held(link) \union {Fresh}
  BY <1>1 DEF Held
<1>3. Apart(link')
  BY <1>1, <1>2 DEF Owned, Apart, Held
<1>4. IsFiniteSet(DOMAIN heap')
  BY FS_AddElement DEF Owned
<1> QED  BY <1>1, <1>2, <1>3, <1>4 DEF Owned

LEMMA Frees ==
    ASSUME Owned, NEW vs \in SUBSET Owners,
           DOMAIN link' = Locals, link'.forgotten = link.forgotten,
           \A v \in Owners : link'[v] = IF v \in vs THEN Nil ELSE link[v],
           DOMAIN heap' = DOMAIN heap \ {link[v] : v \in vs}
    PROVE  Owned'
<1>1. Held(link') = Held(link) \ {link[v] : v \in vs}
  BY DEF Held, Owned, Apart
<1>2. Apart(link')
  BY <1>1 DEF Owned, Apart
<1>3. link.forgotten \cap {link[v] : v \in vs} = {}
  BY DEF Owned, Apart, Held
<1>4. IsFiniteSet(DOMAIN heap')
  BY FS_Subset DEF Owned
<1> QED  BY <1>1, <1>2, <1>3, <1>4 DEF Owned

LEMMA HandsOver ==
    ASSUME Owned, NEW vs \in SUBSET Owners, NEW a \in Owners \ vs, NEW b \in Owners \ {a},
           link[b] = Nil \/ b \in vs,
           DOMAIN link' = Locals, link'.forgotten = link.forgotten,
           \A v \in Owners : link'[v] = IF v = b THEN link[a] ELSE IF v = a \/ v \in vs THEN Nil ELSE link[v],
           DOMAIN heap' = DOMAIN heap \ {link[v] : v \in vs}
    PROVE  Owned'
<1>1. Held(link') = Held(link) \ {link[v] : v \in vs}
  BY DEF Held, Owned, Apart
<1>2. Apart(link')
  BY <1>1 DEF Owned, Apart
<1>3. link.forgotten \cap {link[v] : v \in vs} \subseteq {Nil} /\ Nil \notin link.forgotten
  BY DEF Owned, Apart, Held
<1>4. IsFiniteSet(DOMAIN heap')
  BY FS_Subset DEF Owned
<1> QED  BY <1>1, <1>2, <1>3, <1>4 DEF Owned

LEMMA Forgets ==
    ASSUME Owned, NEW vs \in SUBSET Owners, DOMAIN link' = Locals,
           link'.forgotten = link.forgotten \union {Fresh},
           \A v \in Owners : link'[v] = IF v \in vs THEN Nil ELSE link[v],
           DOMAIN heap' = (DOMAIN heap \ {link[v] : v \in vs}) \union {Fresh}
    PROVE  Owned'
<1>1. Fresh \in Nat \ {Nil} /\ Fresh \notin DOMAIN heap
  BY FreshIsFree DEF Owned
<1>2. Held(link') = Held(link) \ {link[v] : v \in vs}
  BY DEF Held, Owned, Apart
<1>3. Apart(link')
  BY <1>1, <1>2 DEF Owned, Apart
<1>4. link.forgotten \cap {link[v] : v \in vs} \subseteq {Nil} /\ Nil \notin link.forgotten
  BY DEF Owned, Apart, Held
<1>5. IsFiniteSet(DOMAIN heap')
  <2>1. IsFiniteSet(DOMAIN heap \ {link[v] : v \in vs})
    BY FS_Subset DEF Owned
  <2> QED  BY <2>1, FS_AddElement
<1> QED  BY <1>1, <1>2, <1>3, <1>4, <1>5 DEF Owned

--------------------
\* The steps, one by one.

LEMMA KeepsBlackStays ==
    ASSUME UNCHANGED call PROVE KeepsBlack' = KeepsBlack
  BY DEF KeepsBlack, lastProfilePos, n

LEMMA Starts == ASSUME IInv, _cmsLinkProfiles PROVE IInv'
<1>1. Owned /\ link.forgotten = {} /\ Void(link, Owners)
  BY DEF IInv, Idle, _cmsLinkProfiles
<1>2. DOMAIN link' = Locals /\ link'.forgotten = {} /\ \A v \in Owners : link'[v] = Nil
  <2>1. link' = [NoLink EXCEPT !.handler = SearchIntent(call'.Intent)]
    BY DEF _cmsLinkProfiles
  <2>2. PICK h : link' = [NoLink EXCEPT !.handler = h]
    BY <2>1
  <2> HIDE DEF _cmsLinkProfiles
  <2>3. DOMAIN link' = Locals
    BY <2>2 DEF NoLink, Locals
  <2>4. link'.forgotten = {} /\ link'.Result = Nil /\ link'.Lut = Nil /\ link'.Kept = Nil /\ link'.LabK = Nil
    BY <2>2 DEF NoLink
  <2> QED  BY <2>3, <2>4 DEF Owners
<1>3. Owned'
  BY <1>1, <1>2, Stays DEF Void, _cmsLinkProfiles
<1>4. Idle(link', at')
  BY <1>2 DEF Idle, Void, Owners, _cmsLinkProfiles, Going
<1> QED  BY <1>3, <1>4 DEF IInv, Joining, _cmsLinkProfiles, Going

LEMMA MakesKept == ASSUME IInv, BlackPreservingKOnlyIntents PROVE IInv'
<1>1. Owned /\ Void(link, Owners)
  BY DEF IInv, Idle, BlackPreservingKOnlyIntents
<1>2. /\ DOMAIN link' = Locals /\ link'.forgotten = link.forgotten
      /\ \A v \in Owners : link'[v] = IF v = "Kept" THEN Fresh ELSE link[v]
      /\ link'.handler = link.handler
  BY <1>1 DEF Owned, Locals, Owners, BlackPreservingKOnlyIntents
<1>3. Owned'
  BY <1>1, <1>2, Makes, Domains DEF Void, Owners, BlackPreservingKOnlyIntents
<1>4. at' = "link" /\ Idle(link', "link")
  BY <1>1, <1>2 DEF Idle, Void, Owners, Going, BlackPreservingKOnlyIntents
<1>5. KeepsBlack' /\ link'.handler # "DefaultICCintents"
  BY <1>2, KeepsBlackStays DEF Handler, BlackPreservingKOnlyIntents
<1> QED  BY <1>3, <1>4, <1>5 DEF IInv, Plain, BlackPreservingKOnlyIntents

LEMMA MakesLabK == ASSUME IInv, BlackPreservingKPlaneIntents PROVE IInv'
<1>1. Owned /\ Void(link, Owners)
  BY DEF IInv, Idle, BlackPreservingKPlaneIntents
<1>2. CASE at' = "refused" /\ UNCHANGED <<link, heap>>
  <2>1. Owned'
    BY <1>1, <1>2, Stays DEF Owned
  <2> QED  BY <1>1, <1>2, <2>1 DEF IInv, Idle, Void, Owners, Joining
<1>3. CASE /\ link' = [link EXCEPT !.LabK = Fresh, !.count = lastProfilePos]
           /\ \E lut : heap' = Adding(heap, Fresh, lut)
           /\ at' \in {"link", "clean up"}
  <2>1. /\ DOMAIN link' = Locals /\ link'.forgotten = link.forgotten
        /\ \A v \in Owners : link'[v] = IF v = "LabK" THEN Fresh ELSE link[v]
        /\ link'.handler = link.handler
    BY <1>1, <1>3 DEF Owned, Locals, Owners
  <2>2. Owned'
    <3>1. DOMAIN heap' = DOMAIN heap \union {Fresh}
      <4>1. PICK lut : heap' = Adding(heap, Fresh, lut)
        BY <1>3
      <4> QED  BY <4>1, Domains
    <3> QED  BY <1>1, <2>1, <3>1, Makes DEF Void, Owners
  <2>3. Idle(link', at')
    BY <1>1, <1>3, <2>1 DEF Idle, Void, Owners
  <2>4. KeepsBlack' /\ link'.handler # "DefaultICCintents"
    <3>1. Handler = "BlackPreservingKPlaneIntents" /\ UNCHANGED call
      BY DEF BlackPreservingKPlaneIntents
    <3> QED  BY <2>1, <3>1, KeepsBlackStays DEF Handler
  <2> QED  BY <2>2, <2>3, <2>4 DEF IInv, Plain
<1> QED  BY <1>2, <1>3 DEF Going, BlackPreservingKPlaneIntents

LEMMA GoesByDefault == ASSUME IInv, Default PROVE IInv'
<1>1. Owned /\ Void(link, Owners)
  BY DEF IInv, Idle, Default
<1>2. /\ DOMAIN link' = Locals /\ link'.forgotten = link.forgotten
      /\ \A v \in Owners : link'[v] = link[v]
      /\ link'.handler = "DefaultICCintents"
  BY <1>1 DEF Owned, Locals, Owners, Default
<1>3. Owned'
  BY <1>1, <1>2, Stays DEF Default
<1>4. at' = "link" /\ Idle(link', "link") /\ Plain(link', KeepsBlack')
  BY <1>1, <1>2 DEF Idle, Void, Owners, Going, Plain, Default
<1> QED  BY <1>3, <1>4 DEF IInv, Default

LEMMA MakesResult == ASSUME IInv, DefaultICCintents PROVE IInv'
<1>1. Owned /\ link.Result = Nil /\ link.Lut = Nil /\ Plain(link, KeepsBlack)
  BY DEF IInv, Idle, Void, Joining, DefaultICCintents
<1>2. /\ DOMAIN link' = Locals /\ link'.forgotten = link.forgotten
      /\ \A v \in Owners : link'[v] = IF v = "Result" THEN Fresh ELSE link[v]
      /\ link'.handler = link.handler
  BY <1>1 DEF Owned, Locals, Owners, DefaultICCintents
<1>3. Owned'
  <2>1. DOMAIN heap' = DOMAIN heap \union {Fresh}
    BY Domains DEF DefaultICCintents
  <2> QED  BY <1>1, <1>2, <2>1, Makes DEF Owners
<1>4. at' = "profile" /\ Idle(link', "profile")
  BY <1>1, <1>2 DEF Idle, Owners, Going, DefaultICCintents
<1>5. Plain(link', KeepsBlack')
  BY <1>1, <1>2, KeepsBlackStays DEF Plain, Void, Owners, DefaultICCintents
<1> QED  BY <1>3, <1>4, <1>5 DEF IInv, DefaultICCintents

LEMMA MakesLut == ASSUME IInv, Read PROVE IInv'
<1>1. Owned /\ link.Lut = Nil /\ Plain(link, KeepsBlack)
  BY DEF IInv, Idle, Joining, Read
<1>2. CASE at' = "error" /\ UNCHANGED <<link, heap>>
  <2>1. Owned'
    BY <1>1, <1>2, Stays DEF Owned
  <2> QED  BY <1>2, <2>1 DEF IInv, Idle, Joining
<1>3. CASE /\ at' = "connect" /\ link' = [link EXCEPT !.Lut = Fresh]
           /\ \E lut : heap' = Adding(heap, Fresh, lut)
  <2>1. /\ DOMAIN link' = Locals /\ link'.forgotten = link.forgotten
        /\ \A v \in Owners : link'[v] = IF v = "Lut" THEN Fresh ELSE link[v]
        /\ link'.handler = link.handler
    BY <1>1, <1>3 DEF Owned, Locals, Owners
  <2>2. Owned'
    <3>1. DOMAIN heap' = DOMAIN heap \union {Fresh}
      <4>1. PICK lut : heap' = Adding(heap, Fresh, lut)
        BY <1>3
      <4> QED  BY <4>1, Domains
    <3> QED  BY <1>1, <2>1, <3>1, Makes DEF Owners
  <2>3. Plain(link', KeepsBlack')
    BY <1>1, <2>1, KeepsBlackStays DEF Plain, Void, Owners, Read
  <2> QED  BY <1>3, <2>2, <2>3 DEF IInv, Idle
<1> QED  BY <1>2, <1>3 DEF Going, Read

LEMMA FreesLut == ASSUME IInv, Connect PROVE IInv'
<1>1. Owned /\ Plain(link, KeepsBlack)
  BY DEF IInv, Joining, Connect
<1>2. CASE at' = "error" /\ UNCHANGED <<link, heap>>
  <2>1. Owned'
    BY <1>1, <1>2, Stays DEF Owned
  <2> QED  BY <1>2, <2>1 DEF IInv, Idle, Joining
<1>3. CASE /\ at' = "profile"
           /\ link' = [link EXCEPT !.Lut = Nil, !.Current = ColorSpaceOut, !.i = @ + 1]
           /\ \E both : heap' = [Without({link.Lut}) EXCEPT ![link.Result] = both]
  <2>1. /\ DOMAIN link' = Locals /\ link'.forgotten = link.forgotten
        /\ \A v \in Owners : link'[v] = IF v \in {"Lut"} THEN Nil ELSE link[v]
        /\ link'.handler = link.handler
    BY <1>1, <1>3 DEF Owned, Locals, Owners
  <2>2. DOMAIN heap' = DOMAIN heap \ {link[v] : v \in {"Lut"}}
    BY <1>3, Domains
  <2>3. Owned'
    BY <1>1, <2>1, <2>2, Frees DEF Owners
  <2>4. Plain(link', KeepsBlack') /\ link'.Lut = Nil
    BY <1>1, <2>1, KeepsBlackStays DEF Plain, Void, Owners, Connect
  <2> QED  BY <1>3, <2>3, <2>4 DEF IInv, Idle
<1> QED  BY <1>2, <1>3 DEF Going, Connect

LEMMA Finishes == ASSUME IInv, LastCheck PROVE IInv'
<1>1. Owned /\ link.Lut = Nil /\ Plain(link, KeepsBlack)
  BY DEF IInv, Idle, Joining, LastCheck
<1>2. Owned'
  BY <1>1, Stays DEF Owned, LastCheck
<1>3. at' \in {"error", "linked", "keep black"} /\ (at' = "linked" => Void(link, {"Kept", "LabK"}))
  BY <1>1 DEF Going, Returns, Plain, LastCheck
<1>4. Idle(link', at')
  BY <1>1, <1>3 DEF Idle, Void, LastCheck
<1> QED  BY <1>2, <1>3, <1>4 DEF IInv, Joining, LastCheck

LEMMA FreesBoth == ASSUME IInv, Error PROVE IInv'
<1>1. Owned
  BY DEF IInv, Error
<1>2. /\ DOMAIN link' = Locals /\ link'.forgotten = link.forgotten
      /\ \A v \in Owners : link'[v] = IF v \in {"Lut", "Result"} THEN Nil ELSE link[v]
  BY <1>1 DEF Owned, Locals, Owners, Error
<1>3. DOMAIN heap' = DOMAIN heap \ {link[v] : v \in {"Lut", "Result"}}
  <2>1. {link[v] : v \in {"Lut", "Result"}} = {link.Lut, link.Result}
    OBVIOUS
  <2> QED  BY <2>1, Domains DEF Error
<1>4. Owned'
  BY <1>1, <1>2, <1>3, Frees DEF Owners, Error
<1> QED  BY <1>2, <1>4 DEF IInv, Idle, Joining, Going, Owners, Error

LEMMA KeepsTable == ASSUME IInv, KeepBlack PROVE IInv'
<1>1. Owned /\ link.Lut = Nil
  BY DEF IInv, Idle, KeepBlack
<1>2. CASE at' = "clean up" /\ UNCHANGED <<link, heap>>
  <2>1. Owned'
    BY <1>1, <1>2, Stays DEF Owned
  <2> QED  BY <1>1, <1>2, <2>1 DEF IInv, Idle, Joining
<1>3. CASE /\ at' = "links"
           /\ \E kept : LET id == IF link.Kept = Nil THEN Fresh ELSE link.Kept
                       IN  /\ heap' = Adding(heap, id, kept)
                           /\ link' = [link EXCEPT !.Kept = id, !.i = link.count + 1]
  <2> DEFINE id == IF link.Kept = Nil THEN Fresh ELSE link.Kept
  <2>1. PICK kept : /\ heap' = Adding(heap, id, kept)
                    /\ link' = [link EXCEPT !.Kept = id, !.i = link.count + 1]
    BY <1>3
  <2> HIDE DEF id
  <2>2. /\ DOMAIN link' = Locals /\ link'.forgotten = link.forgotten
        /\ \A v \in Owners : link'[v] = IF v = "Kept" THEN id ELSE link[v]
    BY <1>1, <2>1 DEF Owned, Locals, Owners
  <2>3. DOMAIN heap' = DOMAIN heap \union {id}
    BY <2>1, Domains
  <2>4. ASSUME link.Kept = Nil PROVE Owned'
    BY <1>1, <2>2, <2>3, <2>4, Makes DEF Owners, id
  <2>5. ASSUME link.Kept # Nil PROVE Owned'
    <3>1. id = link.Kept /\ link.Kept \in DOMAIN heap
      BY <1>1, <2>5 DEF Owned, Held, Owners, id
    <3> QED  BY <1>1, <2>2, <2>3, <3>1, Stays
  <2>6. Owned' /\ link'.Lut = Nil
    BY <1>1, <2>2, <2>4, <2>5 DEF Owners
  <2> QED  BY <1>3, <2>6 DEF IInv, Idle, Joining
<1> QED  BY <1>2, <1>3 DEF Going, KeepBlack

\* What is appended is forgotten, and the table is freed where the plane is kept.
LEMMA ForgetsDevlink ==
    ASSUME Owned, link.Lut = Nil, AppendFails
    PROVE  Owned' /\ link'.Lut = Nil
<1> DEFINE vs == IF KeepsPlane THEN {"Kept"} ELSE {}
<1>1. /\ DOMAIN link' = Locals /\ link'.forgotten = link.forgotten \union {Fresh}
      /\ \A v \in Owners : link'[v] = IF v \in vs THEN Nil ELSE link[v]
  BY DEF Owned, Locals, Owners, AppendFails
<1>2. DOMAIN heap' = (DOMAIN heap \ {link[v] : v \in vs}) \union {Fresh}
  <2>1. CASE KeepsPlane
    <3>1. {link[v] : v \in vs} = {link.Kept}
      BY <2>1
    <3>2. heap' = Adding(Without({link.Kept}), Fresh, devlink)
      BY <2>1 DEF AppendFails
    <3>3. DOMAIN heap' = DOMAIN Without({link.Kept}) \union {Fresh}
      BY <3>2, Domains
    <3>4. DOMAIN Without({link.Kept}) = DOMAIN heap \ {link.Kept}
      BY Domains
    <3> QED  BY <3>1, <3>3, <3>4
  <2>2. CASE ~KeepsPlane
    <3>1. {link[v] : v \in vs} = {}
      BY <2>2
    <3>2. heap' = Adding(heap, Fresh, devlink)
      BY <2>2 DEF AppendFails
    <3>3. DOMAIN heap' = DOMAIN heap \union {Fresh}
      BY <3>2, Domains
    <3> QED  BY <3>1, <3>3
  <2> QED  BY <2>1, <2>2
<1>3. Owned'
  BY <1>1, <1>2, Forgets DEF Owners
<1> QED  BY <1>1, <1>3 DEF Owners

LEMMA Appends == ASSUME IInv, Append_devlink PROVE IInv'
<1>1. Owned /\ link.Lut = Nil
  BY DEF IInv, Idle, Append_devlink
<1>2. CASE at' = "clean up" /\ UNCHANGED <<link, heap>>
  <2>1. Owned'
    BY <1>1, <1>2, Stays DEF Owned
  <2> QED  BY <1>1, <1>2, <2>1 DEF IInv, Idle, Joining
<1>3. CASE /\ at' = "links"
           /\ heap' = Adding([heap EXCEPT ![link.Kept] = Appended], Fresh, devlink)
           /\ link' = [link EXCEPT !.i = @ + 1, !.forgotten = @ \union {Fresh}]
  <2>1. /\ DOMAIN link' = Locals /\ link'.forgotten = link.forgotten \union {Fresh}
        /\ \A v \in Owners : link'[v] = IF v \in {} THEN Nil ELSE link[v]
    BY <1>1, <1>3 DEF Owned, Locals, Owners
  <2>2. DOMAIN heap' = (DOMAIN heap \ {link[v] : v \in {}}) \union {Fresh}
    <3> DEFINE h == [heap EXCEPT ![link.Kept] = Appended]
    <3>1. DOMAIN h = DOMAIN heap
      OBVIOUS
    <3>2. heap' = Adding(h, Fresh, devlink)
      BY <1>3
    <3> HIDE DEF h
    <3>3. DOMAIN Adding(h, Fresh, devlink) = DOMAIN h \union {Fresh}
      BY Domains
    <3> QED  BY <3>1, <3>2, <3>3
  <2>3. Owned'
    <3>1. {} \in SUBSET Owners
      OBVIOUS
    <3> QED  BY <1>1, <2>1, <2>2, <3>1, Forgets
  <2>4. link'.Lut = Nil
    BY <1>1, <2>1 DEF Owners
  <2> QED  BY <1>3, <2>3, <2>4 DEF IInv, Idle, Joining
<1>4. CASE AppendFails
  BY <1>1, <1>4, ForgetsDevlink DEF IInv, Idle, Joining, AppendFails, Going
<1>5. CASE at' = "undefined"
  BY <1>5 DEF IInv
<1> QED  BY <1>2, <1>3, <1>4, <1>5 DEF Going, Append_devlink

LEMMA Replaces == ASSUME IInv, BlackIsKept PROVE IInv'
<1>1. Owned /\ link.Lut = Nil
  BY DEF IInv, Idle, BlackIsKept
<1>2. /\ DOMAIN link' = Locals /\ link'.forgotten = link.forgotten
      /\ \A v \in Owners : link'[v] = IF v = "Result" THEN link.Kept
                                      ELSE IF v = "Kept" \/ v \in {"Result", "LabK"} THEN Nil ELSE link[v]
  BY <1>1 DEF Owned, Locals, Owners, BlackIsKept
<1>3. DOMAIN heap' = DOMAIN heap \ {link[v] : v \in {"Result", "LabK"}}
  <2>1. {link[v] : v \in {"Result", "LabK"}} = {link.Result, link.LabK}
    OBVIOUS
  <2> QED  BY <2>1, Domains DEF BlackIsKept
<1>4. Owned'
  <2> DEFINE vs == {"Result", "LabK"}
  <2>1. vs \in SUBSET Owners /\ "Kept" \in Owners \ vs /\ "Result" \in Owners \ {"Kept"} /\ "Result" \in vs
    BY DEF Owners
  <2>2. \A v \in Owners : link'[v] = IF v = "Result" THEN link["Kept"] ELSE IF v = "Kept" \/ v \in vs THEN Nil ELSE link[v]
    BY <1>2
  <2>3. DOMAIN heap' = DOMAIN heap \ {link[v] : v \in vs}
    BY <1>3
  <2> HIDE DEF vs
  <2> QED  BY <1>1, <1>2, <2>1, <2>2, <2>3, HandsOver
<1>5. Idle(link', at')
  BY <1>1, <1>2 DEF Idle, Void, Owners, Going, BlackIsKept
<1> QED  BY <1>4, <1>5 DEF IInv, Joining, Going, BlackIsKept

LEMMA FreesAll == ASSUME IInv, CleanUp PROVE IInv'
<1>1. Owned /\ link.Lut = Nil
  BY DEF IInv, Idle, CleanUp
<1>2. /\ DOMAIN link' = Locals /\ link'.forgotten = link.forgotten
      /\ \A v \in Owners : link'[v] = IF v \in {"Result", "Kept", "LabK"} THEN Nil ELSE link[v]
  BY <1>1 DEF Owned, Locals, Owners, CleanUp
<1>3. {link[v] : v \in {"Result", "Kept", "LabK"}} = {link.Result, link.Kept, link.LabK}
  OBVIOUS
<1>6. DOMAIN heap' = DOMAIN heap \ {link[v] : v \in {"Result", "Kept", "LabK"}}
  BY <1>3, Domains DEF CleanUp
<1>4. Owned'
  BY <1>1, <1>2, <1>6, Frees DEF Owners, CleanUp
<1>5. Idle(link', "refused")
  BY <1>1, <1>2 DEF Idle, Void, Owners, CleanUp
<1> QED  BY <1>4, <1>5 DEF IInv, Joining, Going, CleanUp

\* The transform is given the pipeline, or refused, for whatever reason.
LEMMA FreesResult ==
    ASSUME IInv, at = "linked", at' = "refused",
           heap' = Without({link.Result}), link' = [link EXCEPT !.Result = Nil]
    PROVE  IInv'
<1>1. Owned /\ Void(link, {"Lut", "Kept", "LabK"})
  BY DEF IInv, Idle
<1>2. /\ DOMAIN link' = Locals /\ link'.forgotten = link.forgotten
      /\ \A v \in Owners : link'[v] = IF v \in {"Result"} THEN Nil ELSE link[v]
  BY <1>1 DEF Owned, Locals, Owners
<1>3. DOMAIN heap' = DOMAIN heap \ {link[v] : v \in {"Result"}}
  BY Domains
<1>4. Owned'
  BY <1>1, <1>2, <1>3, Frees DEF Owners
<1>5. Idle(link', "refused")
  BY <1>1, <1>2 DEF Idle, Void, Owners
<1> QED  BY <1>4, <1>5 DEF IInv, Joining
LEMMA GivesLut == ASSUME IInv, cmsCreateExtendedTransform PROVE IInv'
<1>1. Owned /\ Void(link, {"Lut", "Kept", "LabK"})
  BY DEF IInv, Idle, cmsCreateExtendedTransform
<1>2. CASE /\ at' = "optimise" /\ UNCHANGED heap
           /\ link' = [link EXCEPT !.Result = Nil, !.Lut = link.Result]
  <2>1. /\ DOMAIN link' = Locals /\ link'.forgotten = link.forgotten
        /\ \A v \in Owners : link'[v] = IF v = "Lut" THEN link.Result
                                        ELSE IF v = "Result" \/ v \in {} THEN Nil ELSE link[v]
    BY <1>1, <1>2 DEF Owned, Locals, Owners
  <2>2. DOMAIN heap' = DOMAIN heap \ {link[v] : v \in {}}
    BY <1>2
  <2>3. Owned'
    BY <1>1, <2>1, <2>2, HandsOver DEF Owners, Void
  <2>4. Idle(link', "optimise")
    BY <1>1, <2>1 DEF Idle, Void, Owners
  <2> QED  BY <1>2, <2>3, <2>4 DEF IInv, Joining
<1> QED  BY <1>2, FreesResult DEF Going, cmsCreateExtendedTransform

LEMMA KeepsLut ==
    ASSUME IInv, at \in Optimising, at' \in Optimising, DOMAIN heap' = DOMAIN heap,
           DOMAIN link' = DOMAIN link,
           \A v \in {"Result", "Lut", "Kept", "LabK", "forgotten"} : link'[v] = link[v]
    PROVE  IInv'
<1>1. Owned /\ Void(link, {"Result", "Kept", "LabK"})
  BY DEF IInv, Idle, Optimising
<1>2. Owned'
  BY <1>1, Stays DEF Owned, Owners
<1>3. Idle(link', at')
  BY <1>1 DEF Idle, Void, Optimising
<1> QED  BY <1>2, <1>3 DEF IInv, Joining, Optimising

LEMMA Optimises ==
    ASSUME IInv, _cmsOptimizePipeline \/ PreOptimize \/ Round \/ Try PROVE IInv'
<1>1. at \in {"optimise", "preoptimise", "try"} /\ Owned
  BY DEF IInv, _cmsOptimizePipeline, PreOptimize, Round, Try
<1>2. CASE _cmsOptimizePipeline
  <2>1. at' \in Optimising /\ DOMAIN heap' = DOMAIN heap
    BY <1>2 DEF _cmsOptimizePipeline, Going, Optimising
  <2>2. link' = link \/ link' = [link EXCEPT !.pass = 1, !.Opt = FALSE]
    BY <1>2 DEF _cmsOptimizePipeline
  <2> QED  BY <1>1, <2>1, <2>2, KeepsLut DEF Optimising, Owned, Locals
<1>3. CASE PreOptimize
  <2>1. at' = at /\ DOMAIN heap' = DOMAIN heap
    BY <1>3 DEF PreOptimize
  <2>2. \E a, b : link' = [link EXCEPT !.pass = a, !.Opt = b]
    BY <1>3 DEF PreOptimize
  <2> QED  BY <1>1, <2>1, <2>2, KeepsLut DEF Optimising, Owned, Locals
<1>4. CASE Round
  <2>1. at' \in Optimising /\ DOMAIN heap' = DOMAIN heap
    BY <1>1, <1>4 DEF Round, Going, Optimising
  <2>2. \/ link' = link \/ link' = [link EXCEPT !.pass = 1, !.Opt = FALSE]
        \/ \E a : link' = [link EXCEPT !.pass = a]
    BY <1>4 DEF Round
  <2> QED  BY <1>1, <2>1, <2>2, KeepsLut DEF Optimising, Owned, Locals
<1>5. CASE Try
  <2>1. at' \in Optimising /\ DOMAIN heap' = DOMAIN heap
    BY <1>5 DEF Try, Going, Optimising
  <2>2. link' = link \/ \E a : link' = [link EXCEPT !.pass = a]
    BY <1>5 DEF Try
  <2> QED  BY <1>1, <2>1, <2>2, KeepsLut DEF Optimising, Owned, Locals
<1> QED  BY <1>2, <1>3, <1>4, <1>5

LEMMA Deletes == ASSUME IInv, cmsDeleteTransform PROVE IInv'
<1>1. Owned /\ Void(link, {"Result", "Kept", "LabK"})
  BY DEF IInv, Idle, cmsDeleteTransform
<1>2. /\ DOMAIN link' = Locals /\ link'.forgotten = link.forgotten
      /\ \A v \in Owners : link'[v] = IF v \in {"Lut"} THEN Nil ELSE link[v]
  BY <1>1 DEF Owned, Locals, Owners, cmsDeleteTransform
<1>3. DOMAIN heap' = DOMAIN heap \ {link[v] : v \in {"Lut"}}
  BY Domains DEF cmsDeleteTransform
<1>4. Owned'
  BY <1>1, <1>2, <1>3, Frees DEF Owners, cmsDeleteTransform
<1>5. Idle(link', "deleted")
  BY <1>1, <1>2 DEF Idle, Void, Owners, cmsDeleteTransform
<1> QED  BY <1>4, <1>5 DEF IInv, Joining, Going, cmsDeleteTransform

LEMMA RunsOut == ASSUME IInv, OutOfMemory PROVE IInv'
<1>1. CASE /\ UNCHANGED <<link, heap>>
           /\ \/ at = "handler" /\ at' = "refused"
              \/ at \in {"link", "keep black", "links"} /\ at' = "clean up"
              \/ at \in {"profile", "connect"} /\ at' = "error"
  <2>1. Owned /\ Idle(link, at)
    BY <1>1 DEF IInv
  <2>2. Owned'
    BY <1>1, <2>1, Stays DEF Owned
  <2>3. Idle(link', at')
    BY <1>1, <2>1 DEF Idle, Void, Owners
  <2> QED  BY <1>1, <2>2, <2>3 DEF IInv, Joining
<1>2. CASE at = "links" /\ AppendFails
  <2>1. Owned /\ link.Lut = Nil
    BY <1>2 DEF IInv, Idle
  <2>2. Owned' /\ link'.Lut = Nil
    BY <1>2, <2>1, ForgetsDevlink
  <2> QED  BY <1>2, <2>2 DEF IInv, Idle, Joining, AppendFails, Going
<1>3. CASE /\ at = "linked" /\ at' = "refused"
           /\ heap' = Without({link.Result}) /\ link' = [link EXCEPT !.Result = Nil]
  BY <1>3, FreesResult
<1>4. CASE /\ at = "try" /\ at' \in {"done", "try"} /\ UNCHANGED heap
           /\ link' = [link EXCEPT !.pass = @ + 1]
  <2>1. Owned
    BY <1>4 DEF IInv
  <2> QED  BY <1>4, <2>1, KeepsLut DEF Optimising, Owned, Locals
<1>5. CASE at' = "undefined"
  BY <1>5 DEF IInv
<1>6. CASE /\ at = "preoptimise" /\ at' = at /\ DOMAIN heap' = DOMAIN heap
           /\ link' = [link EXCEPT !.pass = @ + 1]
  <2>1. Owned
    BY <1>6 DEF IInv
  <2> QED  BY <1>6, <2>1, KeepsLut DEF Optimising, Owned, Locals
<1> QED  BY <1>1, <1>2, <1>3, <1>4, <1>5, <1>6 DEF OutOfMemory, Going

--------------------
\* The invariant, and what it says when the call is over.

LEMMA Begins == Init => IInv
<1> SUFFICES ASSUME Init PROVE IInv
  OBVIOUS
<1>1. DOMAIN link = Locals /\ link.forgotten = {} /\ \A v \in Owners : link[v] = Nil
  <2>1. DOMAIN link = Locals
    BY DEF Init, NoLink, Locals
  <2>2. link.forgotten = {} /\ link.Result = Nil /\ link.Lut = Nil /\ link.Kept = Nil /\ link.LabK = Nil
    BY DEF Init, NoLink
  <2> QED  BY <2>1, <2>2 DEF Owners
<1>2. DOMAIN heap = {} /\ IsFiniteSet({})
  BY FS_EmptySet DEF Init
<1>3. Owned
  BY <1>1, <1>2 DEF Owned, Held, Apart
<1> QED  BY <1>1, <1>3 DEF IInv, Idle, Void, Owners, Joining, Init

LEMMA Inductive == IInv /\ [Next]_vars => IInv'
<1> SUFFICES ASSUME IInv, [Next]_vars PROVE IInv'
  OBVIOUS
<1>1. CASE UNCHANGED vars
  <2>1. ASSUME Owned PROVE Owned'
    BY <1>1, <2>1, Stays DEF vars, Owned
  <2>2. KeepsBlack' = KeepsBlack
    BY <1>1, KeepsBlackStays DEF vars
  <2> QED  BY <1>1, <2>1, <2>2 DEF vars, IInv
<1>2. CASE Link
  BY <1>2, MakesKept, MakesLabK, GoesByDefault, MakesResult, MakesLut, FreesLut, Finishes,
     FreesBoth, KeepsTable, Appends, Replaces, FreesAll DEF Link
<1>3. CASE Optimise
  BY <1>3, GivesLut, Optimises DEF Optimise
<1> QED  BY <1>1, <1>2, <1>3, Starts, Deletes, RunsOut DEF Next

LEMMA Implies == IInv => NothingHeld
<1> SUFFICES ASSUME IInv, at \in {"refused", "done", "deleted"}
             PROVE  DOMAIN heap = link.forgotten \union ({link.Lut} \ {Nil})
  BY DEF NothingHeld
<1>1. DOMAIN heap = link.forgotten \union Held(link) /\ Void(link, {"Result", "Kept", "LabK"})
  BY DEF IInv, Owned, Idle, Void, Owners
<1>2. Held(link) = {link.Lut} \ {Nil}
  BY <1>1 DEF Held, Owners, Void
<1> QED  BY <1>1, <1>2

\* When a call is over, only the pipeline of its transform is in memory, and those of the
\* links that were appended after a table that keeps black: for chains of any profiles
\* (DefaultICCintents, BlackPreservingKOnlyIntents, BlackPreservingKPlaneIntents,
\* cmsCreateExtendedTransform), whichever step fails.
THEOREM FailuresLeaveNothing == Spec => []NothingHeld
<1>1. Spec => []IInv
  BY Begins, Inductive, PTL DEF Spec
<1> QED  BY <1>1, Implies, PTL

--------------------
\* Where stages lead.  A stage takes an encoding in a number of channels
\* and gives another; a path is a sequence of stages each of which takes
\* what the one before it gives.
\* Sequences and paths.

LEMMA Sequence ==
    ASSUME NEW s, IsSeq(s)
    PROVE  Len(s) \in Nat /\ DOMAIN s = 1..Len(s) /\ (s # <<>> <=> Len(s) # 0)
<1>1. s \in Seq(ToSet(s))
  BY DEF IsSeq
<1> QED  BY <1>1

LEMMA Numbered ==
    ASSUME NEW S, NEW m \in Nat, NEW f \in [1..m -> S]
    PROVE  f \in Seq(S)
  BY SeqDef

LEMMA OfItsElements ==
    ASSUME NEW S, NEW s \in Seq(S)
    PROVE  IsSeq(s)
<1>1. s \in [1..Len(s) -> ToSet(s)] /\ Len(s) \in Nat
  BY DEF ToSet
<1> QED  BY <1>1, SeqDef DEF IsSeq

LEMMA Joined ==
    ASSUME NEW s, NEW t, IsSeq(s), IsSeq(t)
    PROVE  /\ IsSeq(s \o t) /\ Len(s \o t) = Len(s) + Len(t)
           /\ DOMAIN (s \o t) = 1..Len(s) + Len(t)
           /\ \A k \in DOMAIN s : (s \o t)[k] = s[k]
           /\ \A k \in DOMAIN t : (s \o t)[Len(s) + k] = t[k]
<1> DEFINE S == ToSet(s) \cup ToSet(t)
<1>1. s \in Seq(S) /\ t \in Seq(S)
  BY SeqMonotonic DEF IsSeq
<1>2. /\ s \o t \in Seq(S) /\ Len(s \o t) = Len(s) + Len(t)
      /\ \A i \in 1..Len(s) + Len(t) : (s \o t)[i] = IF i <= Len(s) THEN s[i] ELSE t[i - Len(s)]
  BY <1>1, ConcatProperties
<1>3. Len(s) \in Nat /\ Len(t) \in Nat /\ DOMAIN s = 1..Len(s) /\ DOMAIN t = 1..Len(t)
  BY Sequence
<1>4. IsSeq(s \o t)
  BY <1>2, OfItsElements
<1>5. DOMAIN (s \o t) = 1..Len(s) + Len(t)
  BY <1>2, <1>4, Sequence
<1>6. ASSUME NEW k \in DOMAIN t PROVE (s \o t)[Len(s) + k] = t[k]
  <2>1. Len(s) + k \in 1..Len(s) + Len(t) /\ ~(Len(s) + k <= Len(s)) /\ Len(s) + k - Len(s) = k
    BY <1>3
  <2> QED  BY <1>2, <2>1
<1>7. ASSUME NEW k \in DOMAIN s PROVE (s \o t)[k] = s[k]
  <2>1. k \in 1..Len(s) + Len(t) /\ k <= Len(s)
    BY <1>3
  <2> QED  BY <1>2, <2>1
<1> QED  BY <1>2, <1>4, <1>5, <1>6, <1>7

LEMMA PathNone == ASSUME NEW a PROVE Path(<<>>, a, a)
<1>1. <<>> \in Seq({}) /\ Len(<<>>) = 0
  OBVIOUS
<1>2. IsSeq(<<>>)
  BY <1>1, OfItsElements
<1>3. DOMAIN <<>> = 1..0
  BY <1>1, <1>2, Sequence
<1> QED  BY <1>1, <1>2, <1>3 DEF Path

LEMMA OneStage == ASSUME NEW st PROVE IsSeq(<<st>>) /\ Len(<<st>>) = 1 /\ DOMAIN <<st>> = {1} /\ <<st>>[1] = st /\ <<st>> # <<>>
<1>1. <<st>> \in Seq({st}) /\ Len(<<st>>) = 1 /\ <<st>>[1] = st
  OBVIOUS
<1>2. IsSeq(<<st>>)
  BY <1>1, OfItsElements
<1>3. DOMAIN <<st>> = 1..1 /\ <<st>> # <<>>
  BY <1>1, <1>2, Sequence
<1> QED  BY <1>1, <1>2, <1>3

LEMMA PathOne == ASSUME NEW st, Proper(st) PROVE Path(<<st>>, Takes(st), Gives(st))
  BY OneStage DEF Path

\* Paths join, a stage at a time or a sequence.
LEMMA PathJoin ==
    ASSUME NEW s, NEW t, NEW a, NEW b, NEW c, Path(s, a, b), Path(t, b, c)
    PROVE  Path(s \o t, a, c)
<1> DEFINE u == s \o t
           x == Len(s)
           y == Len(t)
<1>1. /\ IsSeq(u) /\ Len(u) = x + y /\ DOMAIN u = 1..x + y
      /\ \A k \in DOMAIN s : u[k] = s[k]
      /\ \A k \in DOMAIN t : u[x + k] = t[k]
  BY Joined DEF Path
<1>2. x \in Nat /\ y \in Nat /\ DOMAIN s = 1..x /\ DOMAIN t = 1..y /\ (s # <<>> <=> x # 0) /\ (t # <<>> <=> y # 0) /\ (u # <<>> <=> x + y # 0)
  BY <1>1, Sequence DEF Path
<1> HIDE DEF u
<1>3. \A k \in 1..x + y : (k \in 1..x /\ u[k] = s[k]) \/ (k - x \in 1..y /\ u[k] = t[k - x])
  <2> SUFFICES ASSUME NEW k \in 1..x + y, k \notin 1..x PROVE k - x \in 1..y /\ u[k] = t[k - x]
    BY <1>1, <1>2
  <2>1. k - x \in 1..y /\ x + (k - x) = k
    BY <1>2
  <2> QED  BY <1>1, <1>2, <2>1
<1>4. \A k \in DOMAIN u : Proper(u[k])
  BY <1>1, <1>2, <1>3 DEF Path
<1>5. ASSUME NEW k \in 1..x + y - 1 PROVE Gives(u[k]) = Takes(u[k + 1])
  <2>1. CASE k + 1 \in 1..x
    <3>1. k \in 1..x - 1 /\ k \in 1..x
      BY <1>2, <2>1
    <3> QED  BY <1>1, <1>2, <2>1, <3>1 DEF Path
  <2>2. CASE k = x
    <3>1. x \in 1..x /\ 1 \in 1..y /\ s # <<>> /\ t # <<>>
      BY <1>2, <2>2
    <3>2. u[k] = s[x] /\ u[k + 1] = t[1]
      BY <1>1, <1>2, <2>2, <3>1
    <3> QED  BY <3>1, <3>2 DEF Path
  <2>3. CASE k > x
    <3>1. k - x \in 1..y - 1 /\ k - x \in 1..y /\ (k - x) + 1 \in 1..y /\ x + (k - x) = k /\ x + ((k - x) + 1) = k + 1
      BY <1>2, <2>3
    <3>2. u[k] = t[k - x] /\ u[k + 1] = t[(k - x) + 1]
      BY <1>1, <1>2, <3>1
    <3> QED  BY <3>1, <3>2 DEF Path
  <2>4. k + 1 \in 1..x \/ k = x \/ k > x
    <3>1. x \in Nat /\ k \in Int /\ k >= 1
      BY <1>2
    <3> QED  BY <3>1
  <2> QED  BY <2>1, <2>2, <2>3, <2>4
<1>6. u = <<>> => a = c
  BY <1>2 DEF Path
<1>7. u # <<>> => Takes(u[1]) = a /\ Gives(u[Len(u)]) = c
  <2> SUFFICES ASSUME u # <<>> PROVE Takes(u[1]) = a /\ Gives(u[Len(u)]) = c
    OBVIOUS
  <2>1. CASE x = 0
    <3>1. 1 \in 1..y /\ y \in 1..y /\ x + 1 = 1 /\ x + y = y
      BY <1>2, <2>1
    <3>2. u[1] = t[1] /\ u[Len(u)] = t[y]
      BY <1>1, <1>2, <3>1
    <3> QED  BY <1>2, <2>1, <3>2 DEF Path
  <2>2. CASE y = 0
    <3>1. 1 \in 1..x /\ x \in 1..x /\ x + y = x
      BY <1>2, <2>2
    <3>2. u[1] = s[1] /\ u[Len(u)] = s[x]
      BY <1>1, <1>2, <3>1
    <3> QED  BY <1>2, <2>2, <3>2 DEF Path
  <2>3. CASE x # 0 /\ y # 0
    <3>1. 1 \in 1..x /\ y \in 1..y
      BY <1>2, <2>3
    <3>2. u[1] = s[1] /\ u[Len(u)] = t[y]
      BY <1>1, <1>2, <3>1
    <3> QED  BY <1>2, <2>3, <3>2 DEF Path
  <2> QED  BY <2>1, <2>2, <2>3
<1>8. Path(u, a, c)
  BY <1>1, <1>4, <1>5, <1>6, <1>7 DEF Path
<1> QED  BY <1>8 DEF u

LEMMA Appended1 == ASSUME NEW s, IsSeq(s), NEW st PROVE Append(s, st) = s \o <<st>>
<1>1. s \in Seq(ToSet(s) \cup {st}) /\ st \in ToSet(s) \cup {st}
  BY SeqMonotonic DEF IsSeq
<1> QED  BY <1>1, AppendIsConcat

LEMMA PathAppend ==
    ASSUME NEW s, NEW a, NEW b, NEW st, Path(s, a, b), Proper(st), Takes(st) = b
    PROVE  Path(Append(s, st), a, Gives(st))
<1>1. Append(s, st) = s \o <<st>>
  BY Appended1 DEF Path
<1> QED  BY <1>1, PathOne, PathJoin

\* Where a path is taken apart, there is a port.
LEMMA PathSplit ==
    ASSUME NEW s, NEW t, IsSeq(s), IsSeq(t), NEW u, u = s \o t, NEW a, NEW c, Path(u, a, c)
    PROVE  \E b : Path(s, a, b) /\ Path(t, b, c)
<1> DEFINE x == Len(s)
           y == Len(t)
<1>1. /\ IsSeq(u) /\ Len(u) = x + y /\ DOMAIN u = 1..x + y
      /\ \A k \in DOMAIN s : u[k] = s[k]
      /\ \A k \in DOMAIN t : u[x + k] = t[k]
  BY Joined
<1>2. x \in Nat /\ y \in Nat /\ DOMAIN s = 1..x /\ DOMAIN t = 1..y /\ (s # <<>> <=> x # 0) /\ (t # <<>> <=> y # 0) /\ (u # <<>> <=> x + y # 0)
  BY <1>1, Sequence
<1> DEFINE b == IF s = <<>> THEN a ELSE Gives(s[x])
<1>12. \A k \in 1..x + y - 1 : Gives(u[k]) = Takes(u[k + 1])
  BY <1>1 DEF Path
<1>3. \A k \in DOMAIN s : Proper(s[k])
  <2> SUFFICES ASSUME NEW k \in 1..x PROVE Proper(s[k])
    BY <1>2
  <2>1. k \in 1..x + y
    BY <1>2
  <2> QED  BY <1>1, <1>2, <2>1 DEF Path
<1>4. \A k \in DOMAIN t : Proper(t[k])
  <2> SUFFICES ASSUME NEW k \in 1..y PROVE Proper(t[k])
    BY <1>2
  <2>1. x + k \in 1..x + y
    BY <1>2
  <2> QED  BY <1>1, <1>2, <2>1 DEF Path
<1>5. ASSUME NEW k \in 1..x - 1 PROVE Gives(s[k]) = Takes(s[k + 1])
  <2>1. k \in 1..x + y - 1 /\ k \in 1..x /\ k + 1 \in 1..x
    BY <1>2
  <2> QED  BY <1>1, <1>2, <2>1 DEF Path
<1>6. ASSUME NEW k \in 1..y - 1 PROVE Gives(t[k]) = Takes(t[k + 1])
  <2>1. x + k \in 1..x + y - 1 /\ k \in 1..y /\ k + 1 \in 1..y /\ x + (k + 1) = (x + k) + 1
    BY <1>2
  <2>2. Gives(u[x + k]) = Takes(u[(x + k) + 1])
    BY <1>12, <2>1
  <2> QED  BY <1>1, <1>2, <2>1, <2>2
<1>7. s # <<>> => Takes(s[1]) = a
  <2> SUFFICES ASSUME s # <<>> PROVE Takes(s[1]) = a
    OBVIOUS
  <2>1. 1 \in 1..x /\ x + y # 0
    BY <1>2
  <2> QED  BY <1>1, <1>2, <2>1 DEF Path
<1>8. t = <<>> => b = c
  <2> SUFFICES ASSUME t = <<>> PROVE b = c
    OBVIOUS
  <2>1. y = 0 /\ x + y = x /\ (x # 0 => x \in 1..x)
    BY <1>2
  <2> QED  BY <1>1, <1>2, <2>1 DEF Path
<1>9. t # <<>> => Takes(t[1]) = b /\ Gives(t[y]) = c
  <2> SUFFICES ASSUME t # <<>> PROVE Takes(t[1]) = b /\ Gives(t[y]) = c
    OBVIOUS
  <2>1. 1 \in 1..y /\ y \in 1..y /\ x + y # 0
    BY <1>2
  <2>2. Gives(t[y]) = c
    BY <1>1, <1>2, <2>1 DEF Path
  <2>3. CASE x = 0
    <3>1. u[1] = t[1] /\ b = a
      BY <1>1, <1>2, <2>1, <2>3
    <3> QED  BY <1>1, <1>2, <2>1, <2>2, <3>1 DEF Path
  <2>4. CASE x # 0
    <3>1. x \in 1..x + y - 1 /\ x \in 1..x /\ b = Gives(s[x])
      BY <1>2, <2>1, <2>4
    <3>2. Gives(u[x]) = Takes(u[x + 1])
      BY <1>1, <3>1 DEF Path
    <3> QED  BY <1>1, <1>2, <2>1, <2>2, <3>1, <3>2
  <2> QED  BY <2>3, <2>4
<1>10. Path(s, a, b)
  BY <1>3, <1>5, <1>7 DEF Path
<1>11. Path(t, b, c)
  BY <1>4, <1>6, <1>8, <1>9 DEF Path
<1> QED  BY <1>10, <1>11

\* A path is of one stage only if it is that stage's.
LEMMA PathOfOne ==
    ASSUME NEW st, NEW a, NEW b, Path(<<st>>, a, b)
    PROVE  Proper(st) /\ Takes(st) = a /\ Gives(st) = b
  BY OneStage DEF Path

--------------------
\* Pipelines, and what they are when a path is put at either end of
\* theirs.

LEMMA NullIsNot == NULL.Eval16Fn = "NULL" /\ \A l : Whole(l) => l # NULL
  BY DEF NULL, Whole, cmsPipelineAlloc

\* Stages on a path meet as EncodingsMeet asks.
LEMMA PathsMeet ==
    ASSUME NEW l, NEW a, NEW b, Path(l.Elements, a, b)
    PROVE  StagesMeet(l)
<1>1. Len(l.Elements) \in Nat
  BY Sequence DEF Path
<1>2. ASSUME NEW k \in 1..Len(l.Elements) - 1
      PROVE  /\ l.Elements[k + 1].InputChannels = l.Elements[k].OutputChannels
             /\ l.Elements[k].to = l.Elements[k + 1].from
  BY <1>1 DEF Path, Takes, Gives
<1> QED  BY <1>2 DEF StagesMeet, Consistent

\* Stages that fit make one path of two.
LEMMA PathMeet ==
    ASSUME NEW s, NEW t, NEW a, NEW g, NEW h, NEW c, Path(s, a, g), Path(t, h, c), g[1] = h[1],
           Fitting(s \o t)
    PROVE  \E x, y, z : Path(s, x, y) /\ Path(t, y, z) /\ x[1] = a[1] /\ y[1] = g[1] /\ z[1] = c[1]
<1>1. CASE s = <<>>
  <2>1. a = g
    BY <1>1 DEF Path
  <2>2. Path(s, h, h)
    BY <1>1, PathNone
  <2> QED  BY <2>1, <2>2
<1>2. CASE t = <<>>
  <2>1. h = c
    BY <1>2 DEF Path
  <2>2. Path(t, g, g)
    BY <1>2, PathNone
  <2> QED  BY <2>1, <2>2
<1>3. CASE s # <<>> /\ t # <<>>
  <2> DEFINE u == s \o t
             m == Len(s)
             w == Len(t)
  <2>1. m \in Nat \ {0} /\ w \in Nat \ {0} /\ DOMAIN s = 1..m /\ DOMAIN t = 1..w
    BY <1>3, Sequence DEF Path
  <2>2. /\ Len(u) = m + w
        /\ \A q \in DOMAIN s : u[q] = s[q]
        /\ \A q \in DOMAIN t : u[m + q] = t[q]
    BY Joined DEF Path
  <2>8. Fitting(u)
    OBVIOUS
  <2> HIDE DEF u
  <2>3. u[m] = s[m] /\ u[m + 1] = t[1] /\ m \in 1..Len(u) - 1
    <3>1. m \in 1..m /\ 1 \in 1..w /\ m \in 1..(m + w) - 1
      BY <2>1
    <3> QED  BY <2>1, <2>2, <3>1
  <2>4. t[1].InputChannels = s[m].OutputChannels
    BY <2>3, <2>8 DEF Fitting
  <2>5. Gives(s[m]) = g /\ Takes(t[1]) = h
    BY <1>3 DEF Path
  <2>6. g = h
    BY <2>4, <2>5 DEF Gives, Takes
  <2> QED  BY <2>6
<1> QED  BY <1>1, <1>2, <1>3

--------------------

\* What a pipeline is after its stages are changed.
LEMMA Blessing ==
    ASSUME NEW l, DOMAIN l = LutFields, l.Eval16Fn # "NULL", NEW a, NEW b, Path(l.Elements, a, b)
    PROVE  /\ Whole(Blessed(l)) /\ Blessed(l).Elements = l.Elements
           /\ l.Elements # <<>> => Leads(Blessed(l), a, b)
           /\ l.Elements = <<>> => Blessed(l) = l
           /\ Blessed(l).Data = l.Data /\ Blessed(l).Eval16Fn = l.Eval16Fn
<1>1. IsSeq(l.Elements)
  BY DEF Path
<1>2. CASE l.Elements = <<>>
  BY <1>1, <1>2 DEF Blessed, Whole
<1>3. CASE l.Elements # <<>>
  <2>1. Blessed(l) = [l EXCEPT !.InputChannels = l.Elements[1].InputChannels,
                               !.OutputChannels = l.Elements[Len(l.Elements)].OutputChannels]
    BY <1>3 DEF Blessed, Last
  <2> DEFINE i == l.Elements[1].InputChannels
             o == l.Elements[Len(l.Elements)].OutputChannels
             m == Blessed(l)
  <2>2. DOMAIN m = LutFields /\ m.Elements = l.Elements /\ m.Eval16Fn = l.Eval16Fn /\ m.Data = l.Data /\ Sized(m, i, o)
    BY <2>1 DEF LutFields, Sized
  <2>3. i = a[2] /\ o = b[2]
    BY <1>3 DEF Path, Takes, Gives
  <2> HIDE DEF m
  <2> QED  BY <1>1, <1>3, <2>2, <2>3 DEF Whole, Leads, m
<1> QED  BY <1>2, <1>3

LEMMA Inserted ==
    ASSUME NEW l, DOMAIN l = LutFields, NEW e
    PROVE  LET m == [l EXCEPT !.Elements = e]
           IN  DOMAIN m = LutFields /\ m.Elements = e /\ m.Eval16Fn = l.Eval16Fn /\ m.Data = l.Data
               /\ m.InputChannels = l.InputChannels /\ m.OutputChannels = l.OutputChannels
  BY DEF LutFields

LEMMA EndLeads ==
    ASSUME NEW l, Whole(l), NEW a, NEW b, Path(l.Elements, a, b),
           NEW st, Proper(st), Takes(st) = b
    PROVE  /\ End(l, st) # NULL /\ Whole(End(l, st)) /\ Leads(End(l, st), a, Gives(st))
           /\ End(l, st) = cmsPipelineInsertStage(l, AT_END, st)
<1> DEFINE e == Append(l.Elements, st)
           m == [l EXCEPT !.Elements = e]
<1>1. Path(e, a, Gives(st)) /\ e # <<>>
  <2>1. e = l.Elements \o <<st>>
    BY Appended1 DEF Path
  <2>2. Len(e) # 0
    BY <2>1, Joined, OneStage, Sequence DEF Path
  <2> QED  BY <2>2, PathAppend
<1>2. DOMAIN m = LutFields /\ m.Elements = e /\ m.Eval16Fn # "NULL"
  BY Inserted, Zenon DEF Whole
<1> HIDE DEF m, e
<1>3. Whole(Blessed(m)) /\ Blessed(m).Elements = e /\ Leads(Blessed(m), a, Gives(st))
  BY <1>1, <1>2, Blessing
<1>4. cmsPipelineInsertStage(l, AT_END, st) = Blessed(m)
  BY DEF cmsPipelineInsertStage, AT_END, AT_BEGIN, m, e
<1>5. Consistent(Blessed(m))
  BY <1>1, <1>3, PathsMeet DEF StagesMeet
<1>6. End(l, st) = Blessed(m)
  BY <1>4, <1>5, NullIsNot DEF End
<1> QED  BY <1>3, <1>4, <1>6, NullIsNot

LEMMA BeginLeads ==
    ASSUME NEW l, Whole(l), NEW a, NEW b, Path(l.Elements, a, b),
           NEW st, Proper(st), Gives(st) = a
    PROVE  /\ Begin(l, st) # NULL /\ Whole(Begin(l, st)) /\ Leads(Begin(l, st), Takes(st), b)
           /\ Begin(l, st) = cmsPipelineInsertStage(l, AT_BEGIN, st)
<1> DEFINE e == <<st>> \o l.Elements
           m == [l EXCEPT !.Elements = e]
<1>1. Path(e, Takes(st), b) /\ e # <<>>
  <2>1. Path(e, Takes(st), b)
    BY PathOne, PathJoin
  <2>2. Len(e) # 0
    BY Joined, OneStage, Sequence DEF Path
  <2> QED  BY <2>1, <2>2
<1>2. DOMAIN m = LutFields /\ m.Elements = e /\ m.Eval16Fn # "NULL"
  BY Inserted, Zenon DEF Whole
<1> HIDE DEF m, e
<1>3. Whole(Blessed(m)) /\ Blessed(m).Elements = e /\ Leads(Blessed(m), Takes(st), b)
  BY <1>1, <1>2, Blessing
<1>4. cmsPipelineInsertStage(l, AT_BEGIN, st) = Blessed(m)
  BY DEF cmsPipelineInsertStage, AT_END, AT_BEGIN, m, e
<1>5. Consistent(Blessed(m))
  BY <1>1, <1>3, PathsMeet DEF StagesMeet
<1>6. Begin(l, st) = Blessed(m)
  BY <1>4, <1>5, NullIsNot DEF Begin
<1> QED  BY <1>3, <1>4, <1>6, NullIsNot

\* A stage that is let in fits.
LEMMA EndFits ==
    ASSUME NEW l, Whole(l), NEW x, NEW st, Proper(st), Runs(l, x, st.from), End(l, st) # NULL
    PROVE  \E a : a[1] = x /\ Path(l.Elements, a, Takes(st))
<1>1. PICK a, b1 : Path(l.Elements, a, b1) /\ a[1] = x /\ b1[1] = st.from
  BY DEF Runs
<1> DEFINE u == l.Elements \o <<st>>
<1>2. Consistent([l EXCEPT !.Elements = u]) /\ IsSeq(u) 
  <2>1. Append(l.Elements, st) = u
    BY Appended1 DEF Whole
  <2>4. IsSeq(u)
    BY Joined, OneStage DEF Whole
  <2>2. Consistent(Blessed([l EXCEPT !.Elements = u]))
    BY <2>1 DEF End, cmsPipelineInsertStage, AT_END, AT_BEGIN
  <2> DEFINE m == [l EXCEPT !.Elements = u]
  <2>3. DOMAIN m = LutFields /\ m.Elements = u
    BY Inserted, Zenon DEF Whole
  <2> HIDE DEF m
  <2>5. Blessed(m).Elements = m.Elements
    BY <2>3 DEF Blessed, LutFields
  <2> QED  BY <2>2, <2>4, <2>5 DEF Consistent, m
<1>3. Fitting(u)
  <2> DEFINE m == [l EXCEPT !.Elements = u]
  <2>3. DOMAIN m = LutFields /\ m.Elements = u
    BY Inserted, Zenon DEF Whole
  <2> QED  BY <1>2, <2>3 DEF Consistent, Fitting
<1>4. Path(<<st>>, Takes(st), Gives(st)) /\ Takes(st)[1] = st.from
  BY PathOne DEF Takes
<1>5. PICK a1, b, c1 : /\ Path(l.Elements, a1, b) /\ Path(<<st>>, b, c1)
                      /\ a1[1] = a[1] /\ b[1] = b1[1] /\ c1[1] = Gives(st)[1]
  <2>1. b1[1] = Takes(st)[1] /\ Path(l.Elements, a, b1) /\ Path(<<st>>, Takes(st), Gives(st))
    BY <1>1, <1>4
  <2>2. Fitting(l.Elements \o <<st>>)
    BY <1>3
  <2> QED  BY <2>1, <2>2, PathMeet
<1>6. b = Takes(st)
  BY <1>5, PathOfOne
<1> QED  BY <1>1, <1>5, <1>6

LEMMA BeginFits ==
    ASSUME NEW l, Whole(l), NEW y, NEW st, Proper(st), Runs(l, st.to, y), Begin(l, st) # NULL
    PROVE  \E c : c[1] = y /\ Path(l.Elements, Gives(st), c)
<1>1. PICK b2, c : Path(l.Elements, b2, c) /\ b2[1] = st.to /\ c[1] = y
  BY DEF Runs
<1> DEFINE u == <<st>> \o l.Elements
           m == [l EXCEPT !.Elements = u]
<1>2. Consistent(Blessed(m))
  BY DEF Begin, cmsPipelineInsertStage, AT_END, AT_BEGIN
<1>3. DOMAIN m = LutFields /\ m.Elements = u
  BY Inserted, Zenon DEF Whole
<1> HIDE DEF m
<1>4. Blessed(m).Elements = u
  BY <1>3 DEF Blessed, LutFields
<1>5. Fitting(u)
  BY <1>2, <1>4 DEF Consistent, Fitting
<1>6. Path(<<st>>, Takes(st), Gives(st)) /\ Gives(st)[1] = st.to
  BY PathOne DEF Gives
<1>7. PICK a1, b, c1 : /\ Path(<<st>>, a1, b) /\ Path(l.Elements, b, c1)
                      /\ a1[1] = Takes(st)[1] /\ b[1] = Gives(st)[1] /\ c1[1] = c[1]
  <2>1. Gives(st)[1] = b2[1] /\ Path(l.Elements, b2, c) /\ Path(<<st>>, Takes(st), Gives(st))
    BY <1>1, <1>6
  <2>2. Fitting(<<st>> \o l.Elements)
    BY <1>5
  <2> QED  BY <2>1, <2>2, PathMeet
<1>8. b = Gives(st)
  BY <1>7, PathOfOne
<1> QED  BY <1>1, <1>7, <1>8

LEMMA EndReads ==
    ASSUME NEW l, NEW a, NEW b, NEW exact \in BOOLEAN, NEW there \in BOOLEAN, there => exact,
           Reads(l, a, b, exact, there), NEW st, Proper(st), Takes(st) = b
    PROVE  Reads(End(l, st), a, Gives(st), exact, there)
<1>1. b[1] = st.from /\ Gives(st)[1] = st.to
  BY DEF Takes, Gives
<1>2. ASSUME there PROVE End(l, st) # NULL
  <2>1. Whole(l) /\ Path(l.Elements, a, b)
    BY <1>2 DEF Reads, Leads
  <2> QED  BY <2>1, EndLeads
<1>3. ASSUME End(l, st) # NULL
      PROVE  Whole(End(l, st)) /\ Runs(End(l, st), a[1], Gives(st)[1]) /\ (exact => Leads(End(l, st), a, Gives(st)))
  <2>1. l # NULL
    BY <1>3 DEF End
  <2>2. Whole(l) /\ Runs(l, a[1], st.from) /\ (exact => Leads(l, a, b))
    BY <1>1, <2>1 DEF Reads
  <2>3. PICK a1 : a1[1] = a[1] /\ Path(l.Elements, a1, b)
    BY <1>3, <2>2, EndFits
  <2>4. Whole(End(l, st)) /\ Leads(End(l, st), a1, Gives(st))
    BY <2>2, <2>3, EndLeads
  <2>5. Runs(End(l, st), a[1], Gives(st)[1])
    BY <2>3, <2>4 DEF Runs, Leads
  <2>6. exact => Leads(End(l, st), a, Gives(st))
    BY <2>2, EndLeads DEF Leads
  <2> QED  BY <2>4, <2>5, <2>6
<1> QED  BY <1>2, <1>3 DEF Reads

LEMMA BeginReads ==
    ASSUME NEW l, NEW a, NEW b, NEW exact \in BOOLEAN, NEW there \in BOOLEAN, there => exact,
           Reads(l, a, b, exact, there), NEW st, Proper(st), Gives(st) = a
    PROVE  Reads(Begin(l, st), Takes(st), b, exact, there)
<1>1. a[1] = st.to /\ Takes(st)[1] = st.from
  BY DEF Takes, Gives
<1>2. ASSUME there PROVE Begin(l, st) # NULL
  <2>1. Whole(l) /\ Path(l.Elements, a, b)
    BY <1>2 DEF Reads, Leads
  <2> QED  BY <2>1, BeginLeads
<1>3. ASSUME Begin(l, st) # NULL
      PROVE  Whole(Begin(l, st)) /\ Runs(Begin(l, st), Takes(st)[1], b[1]) /\ (exact => Leads(Begin(l, st), Takes(st), b))
  <2>1. l # NULL
    BY <1>3 DEF Begin
  <2>2. Whole(l) /\ Runs(l, st.to, b[1]) /\ (exact => Leads(l, a, b))
    BY <1>1, <2>1 DEF Reads
  <2>3. PICK c : c[1] = b[1] /\ Path(l.Elements, a, c)
    BY <1>3, <2>2, BeginFits
  <2>4. Whole(Begin(l, st)) /\ Leads(Begin(l, st), Takes(st), c)
    BY <2>2, <2>3, BeginLeads
  <2>5. Runs(Begin(l, st), Takes(st)[1], b[1])
    BY <2>3, <2>4 DEF Runs, Leads
  <2>6. exact => Leads(Begin(l, st), Takes(st), b)
    BY <2>2, BeginLeads DEF Leads
  <2> QED  BY <2>4, <2>5, <2>6
<1> QED  BY <1>2, <1>3 DEF Reads

--------------------
\* The stages.

LEMMA BetweenIs ==
    DOMAIN Between = {"XYZ2Lab", "Lab2XYZ", "LabV2toV4", "LabV4toV2", "Lab2FloatPCS", "FloatPCS2Lab",
                      "XYZ2FloatPCS", "FloatPCS2XYZ"}
  BY DEF Between

LEMMA Placed ==
    ASSUME NEW type \in {"Curves", "CLut", "Matrix", "NamedColor", "ClipNegatives"}, NEW i, NEW o, NEW x, NEW y, NEW word,
           type = "Curves" => i = o
    PROVE  Goes(_cmsStageAllocPlaceholder(type, i, o, x, y, word), x, i, y, o)
<1> DEFINE st == _cmsStageAllocPlaceholder(type, i, o, x, y, word)
<1>1. DOMAIN st = StageFields
  BY DEF _cmsStageAllocPlaceholder, StageFields
<1>2. /\ st.Type = type /\ st.Implements = type /\ st.InputChannels = i /\ st.OutputChannels = o
      /\ st.from = x /\ st.to = y
  BY DEF _cmsStageAllocPlaceholder
<1> HIDE DEF st
<1>3. st.Implements # "Identity" /\ st.Implements \notin DOMAIN Between
  BY <1>2, BetweenIs
<1>4. Proper(st)
  BY <1>1, <1>2, <1>3 DEF Proper
<1>5. Goes(st, x, i, y, o)
  BY <1>2, <1>4 DEF Takes, Gives, Goes
<1> QED  BY <1>5 DEF st

\* Each stage that is allocated goes where its name says.
LEMMA Allocated ==
    ASSUME NEW i, NEW o, NEW x, NEW y, NEW word
    PROVE  /\ Goes(cmsStageAllocToneCurves(i, x, y, word), x, i, y, i)
           /\ Goes(cmsStageAllocCLut16bit(i, o, x, y, word), x, i, y, o)
           /\ Goes(_cmsStageAllocNamedColor(o, y, word), "named", 1, y, o)
           /\ Goes(_cmsStageClipNegatives(i, x), x, i, x, i)
  BY Placed DEF cmsStageAllocToneCurves, cmsStageAllocCLut16bit, _cmsStageAllocNamedColor, _cmsStageClipNegatives

LEMMA IdentityAllocated ==
    ASSUME NEW i, NEW x
    PROVE  Goes(cmsStageAllocIdentity(i, x), x, i, x, i)
<1> DEFINE st == cmsStageAllocIdentity(i, x)
<1>1. DOMAIN st = StageFields
  BY DEF cmsStageAllocIdentity, _cmsStageAllocPlaceholder, StageFields
<1>2. /\ st.Type = "Identity" /\ st.Implements = "Identity" /\ st.InputChannels = i /\ st.OutputChannels = i
      /\ st.from = x /\ st.to = x
  BY DEF cmsStageAllocIdentity, _cmsStageAllocPlaceholder
<1> HIDE DEF st
<1>3. st.Implements \notin DOMAIN Between
  BY <1>2, BetweenIs
<1>4. Takes(st) = <<x, i>> /\ Gives(st) = <<x, i>>
  BY <1>2 DEF Takes, Gives
<1>5. Goes(st, x, i, x, i)
  BY <1>1, <1>2, <1>3, <1>4 DEF Proper, Goes
<1> QED  BY <1>5 DEF st

LEMMA MatrixAllocated ==
    ASSUME NEW i, NEW o, NEW x, NEW y, NEW word, NEW offset
    PROVE  Goes(cmsStageAllocMatrix(i, o, x, y, word, offset), x, i, y, o)
<1> DEFINE st == cmsStageAllocMatrix(i, o, x, y, word, offset)
<1>1. DOMAIN st = StageFields
  BY DEF cmsStageAllocMatrix, _cmsStageAllocPlaceholder, StageFields
<1>2. /\ st.Type = "Matrix" /\ st.Implements = "Matrix" /\ st.InputChannels = i /\ st.OutputChannels = o
      /\ st.from = x /\ st.to = y
  BY DEF cmsStageAllocMatrix, _cmsStageAllocPlaceholder
<1> HIDE DEF st
<1>3. st.Implements \notin DOMAIN Between
  BY <1>2, BetweenIs
<1>4. Takes(st) = <<x, i>> /\ Gives(st) = <<y, o>>
  BY <1>2 DEF Takes, Gives
<1>5. Goes(st, x, i, y, o)
  BY <1>1, <1>2, <1>3, <1>4 DEF Proper, Goes
<1> QED  BY <1>5 DEF st

LEMMA Converts ==
    ASSUME NEW for \in DOMAIN Between, NEW st, DOMAIN st = StageFields, st.Implements = for, st.Type # "Curves",
           st.InputChannels = 3, st.OutputChannels = 3, st.from = Between[for][1], st.to = Between[for][2]
    PROVE  Goes(st, Between[for][1], 3, Between[for][2], 3)
<1>1. Takes(st) = <<Between[for][1], 3>> /\ Gives(st) = <<Between[for][2], 3>>
  BY DEF Takes, Gives
<1>2. for # "Identity"
  BY BetweenIs
<1> QED  BY <1>1, <1>2 DEF Proper, Goes

LEMMA ConversionAllocated ==
    ASSUME NEW for \in DOMAIN Between, NEW offset, NEW x, NEW y, x = Between[for][1], y = Between[for][2]
    PROVE  Goes(Conversion(for, x, y, offset), x, 3, y, 3)
<1> DEFINE st == Conversion(for, x, y, offset)
<1>1. DOMAIN st = StageFields
  BY DEF Conversion, cmsStageAllocMatrix, _cmsStageAllocPlaceholder, StageFields
<1>2. /\ st.Type = "Matrix" /\ st.Implements = for /\ st.InputChannels = 3 /\ st.OutputChannels = 3
      /\ st.from = x /\ st.to = y
  BY DEF Conversion, cmsStageAllocMatrix, _cmsStageAllocPlaceholder
<1> HIDE DEF st
<1>3. Goes(st, x, 3, y, 3)
  BY <1>1, <1>2, Converts
<1> QED  BY <1>3 DEF st

LEMMA PlacedBetween ==
    ASSUME NEW for \in {"XYZ2Lab", "Lab2XYZ"}, NEW x, NEW y, x = Between[for][1], y = Between[for][2]
    PROVE  Goes(_cmsStageAllocPlaceholder(for, 3, 3, x, y, <<>>), x, 3, y, 3)
<1> DEFINE st == _cmsStageAllocPlaceholder(for, 3, 3, x, y, <<>>)
<1>1. DOMAIN st = StageFields
  BY DEF _cmsStageAllocPlaceholder, StageFields
<1>2. /\ st.Type = for /\ st.Implements = for /\ st.InputChannels = 3 /\ st.OutputChannels = 3
      /\ st.from = x /\ st.to = y
  BY DEF _cmsStageAllocPlaceholder
<1> HIDE DEF st
<1>3. Goes(st, x, 3, y, 3)
  BY <1>1, <1>2, Converts, BetweenIs
<1> QED  BY <1>3 DEF st

\* The conversions of AddConversion.
LEMMA Conversions ==
    /\ Goes(_cmsStageAllocLabV2ToV4, "Lab2", 3, "Lab4", 3)
    /\ Goes(_cmsStageAllocLabV4ToV2, "Lab4", 3, "Lab2", 3)
    /\ Goes(_cmsStageNormalizeFromLabFloat, "LabFloat", 3, "Lab4", 3)
    /\ Goes(_cmsStageNormalizeFromXyzFloat, "XYZFloat", 3, "XYZ", 3)
    /\ Goes(_cmsStageNormalizeToLabFloat, "Lab4", 3, "LabFloat", 3)
    /\ Goes(_cmsStageNormalizeToXyzFloat, "XYZ", 3, "XYZFloat", 3)
    /\ Goes(_cmsStageAllocXYZ2Lab, "XYZ", 3, "Lab4", 3)
    /\ Goes(_cmsStageAllocLab2XYZ, "Lab4", 3, "XYZ", 3)
<1>1. /\ Between["LabV2toV4"] = <<"Lab2", "Lab4">> /\ Between["LabV4toV2"] = <<"Lab4", "Lab2">>
      /\ Between["Lab2FloatPCS"] = <<"LabFloat", "Lab4">> /\ Between["XYZ2FloatPCS"] = <<"XYZFloat", "XYZ">>
      /\ Between["FloatPCS2Lab"] = <<"Lab4", "LabFloat">> /\ Between["FloatPCS2XYZ"] = <<"XYZ", "XYZFloat">>
      /\ Between["XYZ2Lab"] = <<"XYZ", "Lab4">> /\ Between["Lab2XYZ"] = <<"Lab4", "XYZ">>
  BY DEF Between
<1>2. /\ "LabV2toV4" \in DOMAIN Between /\ "LabV4toV2" \in DOMAIN Between /\ "Lab2FloatPCS" \in DOMAIN Between
      /\ "XYZ2FloatPCS" \in DOMAIN Between /\ "FloatPCS2Lab" \in DOMAIN Between /\ "FloatPCS2XYZ" \in DOMAIN Between
  BY BetweenIs
<1>3. \A x, y : <<x, y>>[1] = x /\ <<x, y>>[2] = y
  OBVIOUS
<1>4. ASSUME NEW for \in DOMAIN Between, NEW offset, NEW x, NEW y, Between[for] = <<x, y>>
      PROVE  Goes(Conversion(for, x, y, offset), x, 3, y, 3)
  BY <1>3, <1>4, ConversionAllocated
<1>5. ASSUME NEW for \in {"XYZ2Lab", "Lab2XYZ"}, NEW x, NEW y, Between[for] = <<x, y>>
      PROVE  Goes(_cmsStageAllocPlaceholder(for, 3, 3, x, y, <<>>), x, 3, y, 3)
  BY <1>3, <1>5, PlacedBetween
<1>6. /\ Goes(_cmsStageAllocLabV2ToV4, "Lab2", 3, "Lab4", 3)
      /\ Goes(_cmsStageAllocLabV4ToV2, "Lab4", 3, "Lab2", 3)
      /\ Goes(_cmsStageNormalizeFromLabFloat, "LabFloat", 3, "Lab4", 3)
  BY <1>1, <1>2, <1>4 DEF _cmsStageAllocLabV2ToV4, _cmsStageAllocLabV4ToV2, _cmsStageNormalizeFromLabFloat
<1>7. /\ Goes(_cmsStageNormalizeFromXyzFloat, "XYZFloat", 3, "XYZ", 3)
      /\ Goes(_cmsStageNormalizeToLabFloat, "Lab4", 3, "LabFloat", 3)
      /\ Goes(_cmsStageNormalizeToXyzFloat, "XYZ", 3, "XYZFloat", 3)
  BY <1>1, <1>2, <1>4 DEF _cmsStageNormalizeFromXyzFloat, _cmsStageNormalizeToLabFloat, _cmsStageNormalizeToXyzFloat
<1>8. /\ Goes(_cmsStageAllocXYZ2Lab, "XYZ", 3, "Lab4", 3)
      /\ Goes(_cmsStageAllocLab2XYZ, "Lab4", 3, "XYZ", 3)
  BY <1>1, <1>5 DEF _cmsStageAllocXYZ2Lab, _cmsStageAllocLab2XYZ
<1> QED  BY <1>6, <1>7, <1>8

--------------------
\* Numbers, by their least element, and the tables that profiles are read
\* with.

\* A set of numbers has a least one.
LEMMA Least ==
    ASSUME NEW T \in SUBSET Nat, T # {}
    PROVE  \E i \in T : \A j \in T : i <= j
<1>1. \E i \in T : \A j \in T : <<j, i>> \notin OpToRel(<, Nat)
  BY NatLessThanWellFounded, WFMin
<1>2. ASSUME NEW i \in Nat, NEW j \in Nat, <<j, i>> \notin OpToRel(<, Nat)
      PROVE  i <= j
  <2>1. ~(j < i)
    BY <1>2, Zenon DEF OpToRel
  <2> QED  BY <2>1
<1> QED  BY <1>1, <1>2

\* Induction on the numbers.
LEMMA Rising ==
    ASSUME NEW T \in SUBSET Nat, 0 \in T, \A m \in T : m + 1 \in T
    PROVE  T = Nat
<1> SUFFICES ASSUME Nat \ T # {} PROVE FALSE
  OBVIOUS
<1>1. PICK m \in Nat \ T : \A j \in Nat \ T : m <= j
  BY Least
<1> QED  BY <1>1

\* Where the channels of a table turn.
LEMMA Turning ==
    ASSUME NEW s, IsSeq(s), NEW turn, turn = SelectInSeq(s, LAMBDA type : type \in {"CLut", "Matrix"})
    PROVE  \/ turn = 0 /\ \A k \in 1..Len(s) : s[k] \notin {"CLut", "Matrix"}
           \/ turn \in 1..Len(s) /\ s[turn] \in {"CLut", "Matrix"}
<1> DEFINE I == {i \in 1..Len(s) : s[i] \in {"CLut", "Matrix"}}
<1>1. turn = IF I # {} THEN Min(I) ELSE 0
  BY DEF SelectInSeq
<1>2. CASE I = {}
  BY <1>1, <1>2
<1>3. CASE I # {}
  <2>1. I \in SUBSET Nat
    BY Sequence
  <2>2. \E i \in I : \A j \in I : i <= j
    BY <1>3, <2>1, Least
  <2>3. Min(I) \in I
    BY <2>2 DEF Min
  <2> QED  BY <1>1, <1>3, <2>3
<1> QED  BY <1>2, <1>3

\* An empty pipeline.
LEMMA Alloc ==
    ASSUME NEW i, NEW o
    PROVE  /\ Whole(cmsPipelineAlloc(i, o)) /\ Sized(cmsPipelineAlloc(i, o), i, o)
           /\ cmsPipelineAlloc(i, o).Elements = <<>>
<1> DEFINE l == cmsPipelineAlloc(i, o)
<1>1. /\ DOMAIN l = LutFields /\ l.Elements = <<>> /\ l.Eval16Fn = "_LUTeval16"
      /\ l.InputChannels = i /\ l.OutputChannels = o
  BY DEF cmsPipelineAlloc, LutFields
<1> HIDE DEF l
<1>2. Whole(l) /\ Sized(l, i, o)
  BY <1>1, PathNone DEF Whole, Sized, Path
<1> QED  BY <1>1, <1>2 DEF l

\* A table of a profile is a pipeline between the encodings of its type.
LEMMA TableReads ==
    ASSUME NEW q, NEW tag, NEW x, NEW y, NEW i, NEW o, NEW entry, NEW exit, NEW exact \in BOOLEAN,
           q.tags[tag].parts \in Seq({"Curves", "CLut", "Matrix"}),
           x = Encoding(entry, q.tags[tag].type), y = Encoding(exit, q.tags[tag].type),
           q.tags[tag].parts = <<>> => x = y,
           exact => /\ q.tags[tag].in = i /\ q.tags[tag].out = o
                    /\ i # o => \E k \in DOMAIN q.tags[tag].parts : q.tags[tag].parts[k] \in {"CLut", "Matrix"}
    PROVE  Reads(Stored(q, tag, entry, exit), <<x, i>>, <<y, o>>, exact, TRUE)
<1> DEFINE t == q.tags[tag]
           m == Len(t.parts)
           turn == SelectInSeq(t.parts, LAMBDA type : type \in {"CLut", "Matrix"})
           side(k) == IF turn # 0 /\ k >= turn THEN t.out ELSE t.in
           where(k) == IF k = 0 THEN x ELSE IF k = m THEN y ELSE <<q.name, tag, k>>
           st(k) == _cmsStageAllocPlaceholder(t.parts[k], side(k - 1), side(k), where(k - 1), where(k),
                                              Once(q.name, tag, k))
           e == [k \in 1..m |-> st(k)]
           l == [cmsPipelineAlloc(t.in, t.out) EXCEPT !.Elements = e]
<1>1. Stored(q, tag, entry, exit) = Blessed(l)
  BY DEF Stored
<1>2. /\ IsSeq(t.parts) /\ m \in Nat /\ DOMAIN t.parts = 1..m /\ (t.parts # <<>> <=> m # 0)
      /\ \A k \in 1..m : t.parts[k] \in {"Curves", "CLut", "Matrix"}
  <2>1. IsSeq(t.parts)
    BY OfItsElements
  <2> QED  BY <2>1, Sequence
<1>3. \/ turn = 0 /\ \A k \in 1..m : t.parts[k] \notin {"CLut", "Matrix"}
      \/ turn \in 1..m /\ t.parts[turn] \in {"CLut", "Matrix"}
  BY <1>2, Turning
<1> HIDE DEF turn, m
<1>4. ASSUME NEW k \in 1..m
      PROVE  Goes(e[k], where(k - 1), side(k - 1), where(k), side(k))
  <2>1. t.parts[k] = "Curves" => side(k - 1) = side(k)
    BY <1>2, <1>3
  <2>2. t.parts[k] \in {"Curves", "CLut", "Matrix", "NamedColor", "ClipNegatives"}
    BY <1>2
  <2> HIDE DEF side, where
  <2>3. Goes(st(k), where(k - 1), side(k - 1), where(k), side(k))
    BY <2>1, <2>2, Placed
  <2> QED  BY <2>3
<1>5. IsSeq(e) /\ Len(e) = m /\ DOMAIN e = 1..m
  <2> DEFINE S == {st(k) : k \in 1..m}
  <2> HIDE DEF st
  <2>1. DOMAIN e = 1..m /\ \A k \in 1..m : e[k] = st(k)
    BY Zenon
  <2>2. e = [k \in 1..m |-> e[k]]
    BY <2>1, Zenon
  <2> HIDE DEF e
  <2>3. \A k \in 1..m : e[k] \in S
    BY <2>1
  <2>4. e \in Seq(S)
    <3>1. e \in [1..m -> S]
      BY <2>2, <2>3, Zenon
    <3> HIDE DEF S
    <3> QED  BY <1>2, <3>1, Numbered
  <2>5. IsSeq(e)
    BY <2>4, OfItsElements
  <2>6. Len(e) = m
    BY <1>2, <2>1, <2>4
  <2> QED  BY <2>1, <2>5, <2>6
<1> HIDE DEF e
<1>6. Path(e, <<x, t.in>>, <<y, side(m)>>)
  <2>1. ASSUME NEW k \in 1..m - 1 PROVE Gives(e[k]) = Takes(e[k + 1])
    <3>1. k \in 1..m /\ k + 1 \in 1..m /\ (k + 1) - 1 = k
      BY <1>2
    <3> HIDE DEF where, side
    <3>2. Gives(e[k]) = <<where(k), side(k)>>
      BY <1>4, <3>1 DEF Goes
    <3>3. Takes(e[k + 1]) = <<where((k + 1) - 1), side((k + 1) - 1)>>
      BY <1>4, <3>1 DEF Goes
    <3> QED  BY <3>1, <3>2, <3>3
  <2>2. CASE m = 0
    <3>1. e = <<>> /\ x = y
      BY <1>2, <1>5, <2>2, Sequence
    <3>2. side(m) = t.in
      BY <1>3, <2>2
    <3> QED  BY <3>1, <3>2, PathNone
  <2>3. CASE m # 0
    <3>1. 1 \in 1..m /\ m \in 1..m /\ 1 - 1 = 0 /\ e # <<>>
      BY <1>2, <1>5, <2>3, Sequence
    <3>2. where(0) = x /\ where(m) = y /\ side(0) = t.in
      BY <1>2, <1>3, <2>3
    <3> HIDE DEF where, side
    <3>3. Takes(e[1]) = <<x, t.in>> /\ Gives(e[m]) = <<y, side(m)>>
      BY <1>4, <3>1, <3>2 DEF Goes
    <3>4. \A k \in 1..m : Proper(e[k])
      BY <1>4 DEF Goes
    <3> QED  BY <1>5, <2>1, <3>1, <3>3, <3>4 DEF Path
  <2> QED  BY <2>2, <2>3
<1>7. exact => side(m) = o /\ t.in = i /\ t.out = o
  BY <1>2, <1>3
<1> HIDE DEF side
<1>8. /\ DOMAIN l = LutFields /\ l.Elements = e /\ l.Eval16Fn # "NULL"
      /\ l.InputChannels = t.in /\ l.OutputChannels = t.out
  <2> DEFINE z == cmsPipelineAlloc(t.in, t.out)
  <2>1. Whole(z) /\ Sized(z, t.in, t.out)
    BY Alloc
  <2> HIDE DEF z
  <2>2. DOMAIN z = LutFields /\ z.Eval16Fn # "NULL" /\ z.InputChannels = t.in /\ z.OutputChannels = t.out
    BY <2>1 DEF Whole, Sized
  <2>3. l = [z EXCEPT !.Elements = e]
    BY DEF z
  <2> HIDE DEF l
  <2> QED  BY <2>2, <2>3, Inserted
<1> HIDE DEF l
<1>9. /\ Whole(Blessed(l)) /\ Blessed(l).Elements = e
      /\ e # <<>> => Leads(Blessed(l), <<x, t.in>>, <<y, side(m)>>)
      /\ e = <<>> => Blessed(l) = l
  BY <1>6, <1>8, Blessing
<1>10. Runs(Blessed(l), x, y)
  <2>1. <<x, t.in>>[1] = x /\ <<y, side(m)>>[1] = y
    OBVIOUS
  <2> QED  BY <1>6, <1>9, <2>1 DEF Runs
<1>11. exact => Leads(Blessed(l), <<x, i>>, <<y, o>>)
  BY <1>6, <1>7, <1>8, <1>9 DEF Leads, Sized
<1>12. Blessed(l) # NULL
  BY <1>9, NullIsNot
<1> QED  BY <1>1, <1>9, <1>10, <1>11, <1>12 DEF Reads

--------------------
\* What a regular profile is read for.  A sound one is read exactly: the
\* channels of its pipeline are those of its spaces.

LEMMA TableNames ==
    /\ Device2PCSFloat[1] = "DToB0"
    /\ \A I \in 0..3 : /\ Device2PCSFloat[I + 1] \in Inward \cap FloatTables
                       /\ Device2PCS16[I + 1] \in Inward \ FloatTables
                       /\ PCS2DeviceFloat[I + 1] \in (Tables \cap FloatTables) \ Inward
                       /\ PCS2Device16[I + 1] \in Tables \ (Inward \cup FloatTables)
    /\ Device2PCS16[1] \in Inward \ FloatTables
    /\ PCS2Device16[1] \in Tables \ (Inward \cup FloatTables)
    /\ Inward \subseteq Tables
    /\ "DToB0" \in Inward \cap FloatTables
<1>1. Range(Device2PCS16) = {"AToB0", "AToB1", "AToB2"}
  BY DEF Range, Device2PCS16
<1>2. Range(Device2PCSFloat) = {"DToB0", "DToB1", "DToB2", "DToB3"}
  BY DEF Range, Device2PCSFloat
<1>3. Range(PCS2Device16) = {"BToA0", "BToA1", "BToA2"}
  BY DEF Range, PCS2Device16
<1>4. Range(PCS2DeviceFloat) = {"BToD0", "BToD1", "BToD2", "BToD3"}
  BY DEF Range, PCS2DeviceFloat
<1>5. /\ Inward = {"AToB0", "AToB1", "AToB2"} \cup {"DToB0", "DToB1", "DToB2", "DToB3"}
      /\ FloatTables = {"DToB0", "DToB1", "DToB2", "DToB3"} \cup {"BToD0", "BToD1", "BToD2", "BToD3"}
      /\ Tables = Inward \cup {"BToA0", "BToA1", "BToA2"} \cup FloatTables
  BY <1>1, <1>2, <1>3, <1>4 DEF Inward, FloatTables, Tables
<1>6. ASSUME NEW I \in 0..3
      PROVE  /\ Device2PCSFloat[I + 1] \in {"DToB0", "DToB1", "DToB2", "DToB3"}
             /\ Device2PCS16[I + 1] \in {"AToB0", "AToB1", "AToB2"}
             /\ PCS2DeviceFloat[I + 1] \in {"BToD0", "BToD1", "BToD2", "BToD3"}
             /\ PCS2Device16[I + 1] \in {"BToA0", "BToA1", "BToA2"}
  BY DEF Device2PCSFloat, Device2PCS16, PCS2DeviceFloat, PCS2Device16
<1>7. Device2PCSFloat[1] = "DToB0" /\ Device2PCS16[1] = "AToB0" /\ PCS2Device16[1] = "BToA0"
  BY DEF Device2PCSFloat, Device2PCS16, PCS2Device16
<1> QED  BY <1>5, <1>6, <1>7

LEMMA Encodings ==
    /\ \A type : Encoding("Lab", type) = IF type = "Lut16" THEN "Lab2" ELSE IF type = "MPE" THEN "LabFloat" ELSE "Lab4"
    /\ \A type : Encoding("XYZ", type) = IF type = "MPE" THEN "XYZFloat" ELSE "XYZ"
    /\ \A type, space : space \notin Space => Encoding(space, type) = Encoding(space, "pixels")
    /\ Encoding("MCH4", "pixels") = "CMYK" /\ Encoding("Lab", "pixels") = "Lab4" /\ Encoding("XYZ", "pixels") = "XYZ"
    /\ \A space : space \notin Space \cup {"MCH4"} => Encoding(space, "pixels") = space
  BY DEF Encoding, Space

LEMMA Channels ==
    /\ Known = {"GRAY", "named", "RGB", "Lab", "XYZ", "CMYK", "MCH4"}
    /\ cmsChannelsOfColorSpace["GRAY"] = 1 /\ cmsChannelsOfColorSpace["named"] = 1
    /\ cmsChannelsOfColorSpace["RGB"] = 3 /\ cmsChannelsOfColorSpace["Lab"] = 3
    /\ cmsChannelsOfColorSpace["XYZ"] = 3 /\ cmsChannelsOfColorSpace["CMYK"] = 4
    /\ cmsChannelsOfColorSpace["MCH4"] = 4
  BY DEF Known, cmsChannelsOfColorSpace

LEMMA Ports ==
    /\ Port("GRAY") = <<"GRAY", 1>> /\ Port("RGB") = <<"RGB", 3>> /\ Port("Lab") = <<"Lab4", 3>>
    /\ Port("XYZ") = <<"XYZ", 3>> /\ Port("named") = <<"named", 1>> /\ Port("CMYK") = <<"CMYK", 4>>
    /\ PortOf("Lab", "MPE") = <<"LabFloat", 3>> /\ PortOf("XYZ", "MPE") = <<"XYZFloat", 3>>
    /\ PortOf("Lab", "Lut16") = <<"Lab2", 3>>
    /\ \A space, type : space \notin Space => PortOf(space, type) = Port(space)
    /\ \A space, type : type \notin {"Lut16", "MPE"} => PortOf(space, type) = Port(space)
    /\ \A type : type # "MPE" => PortOf("XYZ", type) = Port("XYZ")
<1>1. ASSUME NEW space, NEW type, type \notin {"Lut16", "MPE"} PROVE PortOf(space, type) = Port(space)
  <2>1. Encoding(space, type) = Encoding(space, "pixels")
    BY <1>1, Encodings DEF Space
  <2> QED  BY <2>1 DEF Port, PortOf
<1> QED  BY <1>1, Encodings, Channels DEF Port, PortOf, Space

LEMMA Revalued ==
    ASSUME NEW l, Whole(l), NEW m, DOMAIN m = LutFields, m.Elements = l.Elements, m.Eval16Fn # "NULL",
           m.InputChannels = l.InputChannels, m.OutputChannels = l.OutputChannels
    PROVE  /\ Whole(m) /\ m # NULL
           /\ \A a, b : Leads(l, a, b) => Leads(m, a, b)
           /\ \A x, y : Runs(l, x, y) => Runs(m, x, y)
  BY NullIsNot DEF Whole, Sized, Leads, Runs

LEMMA DupReads ==
    ASSUME NEW l, NEW a, NEW b, NEW exact, NEW there, Reads(l, a, b, exact, there), l # NULL
    PROVE  Reads(cmsPipelineDup(l), a, b, exact, there)
<1> DEFINE m == cmsPipelineDup(l)
<1>1. Whole(l)
  BY DEF Reads
<1>2. DOMAIN m = LutFields /\ m.Elements = l.Elements /\ m.Eval16Fn = l.Eval16Fn
      /\ m.InputChannels = l.InputChannels /\ m.OutputChannels = l.OutputChannels
  BY <1>1 DEF Whole, LutFields, cmsPipelineDup
<1> HIDE DEF m
<1>3. m.Eval16Fn # "NULL"
  BY <1>1, <1>2 DEF Whole
<1>4. /\ Whole(m) /\ m # NULL
      /\ \A c, d : Leads(l, c, d) => Leads(m, c, d)
      /\ \A x, y : Runs(l, x, y) => Runs(m, x, y)
  BY <1>1, <1>2, <1>3, Revalued
<1>5. Reads(m, a, b, exact, there)
  BY <1>4 DEF Reads
<1> QED  BY <1>5 DEF m

LEMMA NullReads ==
    ASSUME NEW l, l = NULL, NEW a, NEW b, NEW exact, NEW there, ~there
    PROVE  Reads(l, a, b, exact, there)
  BY DEF Reads

LEMMA ReadsLess ==
    ASSUME NEW l, NEW a, NEW b, NEW exact, NEW there, NEW once, Reads(l, a, b, exact, once), there => once
    PROVE  Reads(l, a, b, exact, there)
  BY DEF Reads

LEMMA LeadsReads ==
    ASSUME NEW l, NEW a, NEW b, NEW exact, NEW there, Whole(l), Leads(l, a, b)
    PROVE  Reads(l, a, b, exact, there)
  BY NullIsNot DEF Reads, Leads, Runs

LEMMA ReadsWalks ==
    ASSUME NEW l, NEW a, NEW b, NEW exact, NEW there, Reads(l, a, b, exact, there), l # NULL
    PROVE  Walkable(l)
  BY DEF Reads, Runs, Walkable

LEMMA EndGoes ==
    ASSUME NEW l, NEW a, NEW exact \in BOOLEAN, NEW there \in BOOLEAN, there => exact,
           NEW st, NEW x, NEW i, NEW y, NEW o, Reads(l, a, <<x, i>>, exact, there), Goes(st, x, i, y, o)
    PROVE  Reads(End(l, st), a, <<y, o>>, exact, there)
<1> DEFINE b == <<x, i>>
           c == <<y, o>>
<1>1. Proper(st) /\ Takes(st) = b /\ Gives(st) = c
  BY DEF Goes
<1>2. Reads(l, a, b, exact, there)
  OBVIOUS
<1>3. Reads(End(l, st), a, Gives(st), exact, there)
  BY <1>1, <1>2, EndReads
<1> QED  BY <1>1, <1>3

LEMMA BeginGoes ==
    ASSUME NEW l, NEW b, NEW exact \in BOOLEAN, NEW there \in BOOLEAN, there => exact,
           NEW st, NEW x, NEW i, NEW y, NEW o, Reads(l, <<y, o>>, b, exact, there), Goes(st, x, i, y, o)
    PROVE  Reads(Begin(l, st), <<x, i>>, b, exact, there)
<1> DEFINE a == <<y, o>>
           c == <<x, i>>
<1>1. Proper(st) /\ Takes(st) = c /\ Gives(st) = a
  BY DEF Goes
<1>2. Reads(l, a, b, exact, there)
  OBVIOUS
<1>3. Reads(Begin(l, st), Takes(st), b, exact, there)
  BY <1>1, <1>2, BeginReads
<1> QED  BY <1>1, <1>3

\* The first stage of a pipeline, with the channels of the stage.
LEMMA FirstGoes ==
    ASSUME NEW i, NEW o, NEW st, NEW x, NEW k, NEW y, NEW m, Goes(st, x, k, y, m)
    PROVE  /\ \A exact, there : Reads(End(cmsPipelineAlloc(i, o), st), <<x, k>>, <<y, m>>, exact, there)
           /\ \A exact, there : Reads(Begin(cmsPipelineAlloc(i, o), st), <<x, k>>, <<y, m>>, exact, there)
<1> DEFINE l == cmsPipelineAlloc(i, o)
<1>1. Whole(l) /\ l.Elements = <<>>
  BY Alloc
<1> HIDE DEF l
<1>2. Proper(st) /\ Takes(st) = <<x, k>> /\ Gives(st) = <<y, m>>
  BY DEF Goes
<1>3. Path(l.Elements, Takes(st), Takes(st)) /\ Path(l.Elements, Gives(st), Gives(st))
  BY <1>1, PathNone
<1>4. Whole(End(l, st)) /\ Leads(End(l, st), Takes(st), Gives(st))
  BY <1>1, <1>2, <1>3, EndLeads
<1>5. Whole(Begin(l, st)) /\ Leads(Begin(l, st), Takes(st), Gives(st))
  BY <1>1, <1>2, <1>3, BeginLeads
<1>6. ASSUME NEW exact, NEW there
      PROVE  /\ Reads(End(l, st), Takes(st), Gives(st), exact, there)
             /\ Reads(Begin(l, st), Takes(st), Gives(st), exact, there)
  BY <1>4, <1>5, LeadsReads
<1> QED  BY <1>2, <1>6 DEF l

--------------------
\* The pipelines that are made of the tags of a profile.

\* A table of a regular profile.
LEMMA RegularTags ==
    ASSUME NEW q, Regular(q), NEW tag \in Tables \cap DOMAIN q.tags
    PROVE  /\ q.tags[tag].parts \in Seq({"Curves", "CLut", "Matrix"})
           /\ q.tags[tag].type = "MPE" <=> tag \in FloatTables
           /\ q.tags[tag].parts = <<>> => q.ColorSpace = q.PCS
           /\ Exact(q) \in BOOLEAN
           /\ Exact(q) =>
                /\ <<q.tags[tag].in, q.tags[tag].out>> =
                        IF tag \in Inward THEN <<cmsChannelsOfColorSpace[q.ColorSpace], cmsChannelsOfColorSpace[q.PCS]>>
                        ELSE <<cmsChannelsOfColorSpace[q.PCS], cmsChannelsOfColorSpace[q.ColorSpace]>>
                /\ q.tags[tag].in # q.tags[tag].out =>
                        \E k \in DOMAIN q.tags[tag].parts : q.tags[tag].parts[k] \in {"CLut", "Matrix"}
<1>1. RegularTable(q, tag)
  BY DEF Regular
<1>2. Exact(q) => Sound(q)
  BY DEF Exact
<1>3. Exact(q) \in BOOLEAN
  BY DEF Exact
<1> QED  BY <1>1, <1>2, <1>3 DEF RegularTable, Sound

LEMMA TowardsReads ==
    ASSUME NEW q, Regular(q), NEW tag \in Inward \cap DOMAIN q.tags
    PROVE  Reads(Towards(q, tag), PortOf(q.ColorSpace, q.tags[tag].type), PortOf(q.PCS, q.tags[tag].type), Exact(q), TRUE)
<1> DEFINE t == q.tags[tag]
           i == cmsChannelsOfColorSpace[q.ColorSpace]
           o == cmsChannelsOfColorSpace[q.PCS]
           x == Encoding(q.ColorSpace, t.type)
           y == Encoding(q.PCS, t.type)
<1>1. tag \in Tables \cap DOMAIN q.tags
  BY TableNames
<1>2. /\ t.parts \in Seq({"Curves", "CLut", "Matrix"}) /\ Exact(q) \in BOOLEAN
      /\ t.parts = <<>> => x = y
      /\ Exact(q) => /\ <<t.in, t.out>> = <<i, o>>
                     /\ t.in # t.out => \E k \in DOMAIN t.parts : t.parts[k] \in {"CLut", "Matrix"}
  BY <1>1, RegularTags
<1>3. Exact(q) => /\ t.in = i /\ t.out = o
                  /\ i # o => \E k \in DOMAIN t.parts : t.parts[k] \in {"CLut", "Matrix"}
  BY <1>2
<1>4. Reads(Stored(q, tag, q.ColorSpace, q.PCS), <<x, i>>, <<y, o>>, Exact(q), TRUE)
  BY <1>2, <1>3, TableReads
<1> QED  BY <1>4 DEF Towards, PortOf

LEMMA AwayReads ==
    ASSUME NEW q, Regular(q), NEW tag \in (Tables \ Inward) \cap DOMAIN q.tags
    PROVE  Reads(Away(q, tag), PortOf(q.PCS, q.tags[tag].type), PortOf(q.ColorSpace, q.tags[tag].type), Exact(q), TRUE)
<1> DEFINE t == q.tags[tag]
           i == cmsChannelsOfColorSpace[q.PCS]
           o == cmsChannelsOfColorSpace[q.ColorSpace]
           x == Encoding(q.PCS, t.type)
           y == Encoding(q.ColorSpace, t.type)
<1>2. /\ t.parts \in Seq({"Curves", "CLut", "Matrix"}) /\ Exact(q) \in BOOLEAN
      /\ t.parts = <<>> => x = y
      /\ Exact(q) => /\ <<t.in, t.out>> = <<i, o>>
                     /\ t.in # t.out => \E k \in DOMAIN t.parts : t.parts[k] \in {"CLut", "Matrix"}
  BY RegularTags
<1>3. Exact(q) => /\ t.in = i /\ t.out = o
                  /\ i # o => \E k \in DOMAIN t.parts : t.parts[k] \in {"CLut", "Matrix"}
  BY <1>2
<1>4. Reads(Stored(q, tag, q.PCS, q.ColorSpace), <<x, i>>, <<y, o>>, Exact(q), TRUE)
  BY <1>2, <1>3, TableReads
<1> QED  BY <1>4 DEF Away, PortOf

--------------------
\* What is put before and after a table.

LEMMA NormalizedTo ==
    ASSUME NEW l, NEW b, NEW space, NEW exact \in BOOLEAN, NEW there \in BOOLEAN, there => exact,
           Reads(l, PortOf(space, "MPE"), b, exact, there)
    PROVE  Reads(NormalizeTo(l, space), Port(space), b, exact, there)
<1>1. CASE space = "Lab"
  <2>1. Reads(l, <<"LabFloat", 3>>, b, exact, there)
    BY <1>1, Ports
  <2>2. Reads(Begin(l, _cmsStageNormalizeToLabFloat), <<"Lab4", 3>>, b, exact, there)
    BY <2>1, Conversions, BeginGoes
  <2> QED  BY <1>1, <2>2, Ports DEF NormalizeTo
<1>2. CASE space = "XYZ"
  <2>1. Reads(l, <<"XYZFloat", 3>>, b, exact, there)
    BY <1>2, Ports
  <2>2. Reads(Begin(l, _cmsStageNormalizeToXyzFloat), <<"XYZ", 3>>, b, exact, there)
    BY <2>1, Conversions, BeginGoes
  <2> QED  BY <1>2, <2>2, Ports DEF NormalizeTo
<1>3. CASE space \notin Space
  BY <1>3, Ports DEF NormalizeTo, Space
<1> QED  BY <1>1, <1>2, <1>3 DEF Space

LEMMA NormalizedFrom ==
    ASSUME NEW l, NEW a, NEW space, NEW exact \in BOOLEAN, NEW there \in BOOLEAN, there => exact,
           Reads(l, a, PortOf(space, "MPE"), exact, there)
    PROVE  Reads(NormalizeFrom(l, space), a, Port(space), exact, there)
<1>1. CASE space = "Lab"
  <2>1. Reads(l, a, <<"LabFloat", 3>>, exact, there)
    BY <1>1, Ports
  <2>2. Reads(End(l, _cmsStageNormalizeFromLabFloat), a, <<"Lab4", 3>>, exact, there)
    BY <2>1, Conversions, EndGoes
  <2> QED  BY <1>1, <2>2, Ports DEF NormalizeFrom
<1>2. CASE space = "XYZ"
  <2>1. Reads(l, a, <<"XYZFloat", 3>>, exact, there)
    BY <1>2, Ports
  <2>2. Reads(End(l, _cmsStageNormalizeFromXyzFloat), a, <<"XYZ", 3>>, exact, there)
    BY <2>1, Conversions, EndGoes
  <2> QED  BY <1>2, <2>2, Ports DEF NormalizeFrom
<1>3. CASE space \notin Space
  BY <1>3, Ports DEF NormalizeFrom, Space
<1> QED  BY <1>1, <1>2, <1>3 DEF Space

LEMMA AdjustedTo ==
    ASSUME NEW l, NEW b, NEW space, NEW type, type # "MPE", NEW c \in BOOLEAN,
           c <=> type = "Lut16" /\ space = "Lab",
           NEW exact \in BOOLEAN, NEW there \in BOOLEAN, there => exact,
           Reads(l, PortOf(space, type), b, exact, there)
    PROVE  Reads(BeginIf(c, l, _cmsStageAllocLabV4ToV2), Port(space), b, exact, there)
<1>1. CASE c
  <2>1. Reads(l, <<"Lab2", 3>>, b, exact, there)
    BY <1>1, Ports
  <2>2. Reads(Begin(l, _cmsStageAllocLabV4ToV2), <<"Lab4", 3>>, b, exact, there)
    BY <2>1, Conversions, BeginGoes
  <2> QED  BY <1>1, <2>2, Ports DEF BeginIf
<1>2. CASE ~c
  <2>1. PortOf(space, type) = Port(space)
    BY <1>2, Ports DEF Space
  <2> QED  BY <1>2, <2>1 DEF BeginIf
<1> QED  BY <1>1, <1>2

LEMMA AdjustedFrom ==
    ASSUME NEW l, NEW a, NEW space, NEW type, type # "MPE", NEW c \in BOOLEAN,
           c <=> type = "Lut16" /\ space = "Lab",
           NEW exact \in BOOLEAN, NEW there \in BOOLEAN, there => exact,
           Reads(l, a, PortOf(space, type), exact, there)
    PROVE  Reads(EndIf(c, l, _cmsStageAllocLabV2ToV4), a, Port(space), exact, there)
<1>1. CASE c
  <2>1. Reads(l, a, <<"Lab2", 3>>, exact, there)
    BY <1>1, Ports
  <2>2. Reads(End(l, _cmsStageAllocLabV2ToV4), a, <<"Lab4", 3>>, exact, there)
    BY <2>1, Conversions, EndGoes
  <2> QED  BY <1>1, <2>2, Ports DEF EndIf
<1>2. CASE ~c
  <2>1. PortOf(space, type) = Port(space)
    BY <1>2, Ports DEF Space
  <2> QED  BY <1>2, <2>1 DEF EndIf
<1> QED  BY <1>1, <1>2

LEMMA Exactly == \A q : Exact(q) \in BOOLEAN /\ (Exact(q) <=> Sound(q))
  BY DEF Exact

LEMMA FloatInputReads ==
    ASSUME NEW q, Regular(q), NEW tag \in Inward \cap FloatTables \cap DOMAIN q.tags
    PROVE  Reads(NormalizeFrom(NormalizeTo(Towards(q, tag), q.ColorSpace), q.PCS),
                 Port(q.ColorSpace), Port(q.PCS), Exact(q), Exact(q))
<1>1. q.tags[tag].type = "MPE"
  BY TableNames, RegularTags
<1>2. Reads(Towards(q, tag), PortOf(q.ColorSpace, "MPE"), PortOf(q.PCS, "MPE"), Exact(q), TRUE)
  BY <1>1, TowardsReads
<1>3. Reads(Towards(q, tag), PortOf(q.ColorSpace, "MPE"), PortOf(q.PCS, "MPE"), Exact(q), Exact(q))
  BY <1>2, ReadsLess
<1>4. Reads(NormalizeTo(Towards(q, tag), q.ColorSpace), Port(q.ColorSpace), PortOf(q.PCS, "MPE"), Exact(q), Exact(q))
  BY <1>3, Exactly, NormalizedTo
<1> QED  BY <1>4, Exactly, NormalizedFrom

LEMMA FloatOutputReads ==
    ASSUME NEW q, Regular(q), NEW tag \in ((Tables \cap FloatTables) \ Inward) \cap DOMAIN q.tags
    PROVE  Reads(NormalizeFrom(NormalizeTo(Away(q, tag), q.PCS), q.ColorSpace),
                 Port(q.PCS), Port(q.ColorSpace), Exact(q), Exact(q))
<1>1. q.tags[tag].type = "MPE"
  BY RegularTags
<1>2. Reads(Away(q, tag), PortOf(q.PCS, "MPE"), PortOf(q.ColorSpace, "MPE"), Exact(q), TRUE)
  BY <1>1, AwayReads
<1>3. Reads(Away(q, tag), PortOf(q.PCS, "MPE"), PortOf(q.ColorSpace, "MPE"), Exact(q), Exact(q))
  BY <1>2, ReadsLess
<1>4. Reads(NormalizeTo(Away(q, tag), q.PCS), Port(q.PCS), PortOf(q.ColorSpace, "MPE"), Exact(q), Exact(q))
  BY <1>3, Exactly, NormalizedTo
<1> QED  BY <1>4, Exactly, NormalizedFrom

\* A table of integers, adjusted at its ends where these are Lab.
LEMMA TableInputReads ==
    ASSUME NEW q, Regular(q), NEW tag \in (Inward \ FloatTables) \cap DOMAIN q.tags,
           NEW c \in BOOLEAN, NEW d \in BOOLEAN,
           c <=> IsLut16(q, tag) /\ q.ColorSpace = "Lab", d <=> IsLut16(q, tag) /\ q.PCS = "Lab"
    PROVE  Reads(EndIf(d, BeginIf(c, cmsPipelineDup(Towards(q, tag)), _cmsStageAllocLabV4ToV2), _cmsStageAllocLabV2ToV4),
                 Port(q.ColorSpace), Port(q.PCS), Exact(q), Exact(q))
<1> DEFINE type == q.tags[tag].type
           l == Towards(q, tag)
<1>1. type # "MPE" /\ (c <=> type = "Lut16" /\ q.ColorSpace = "Lab") /\ (d <=> type = "Lut16" /\ q.PCS = "Lab")
  BY TableNames, RegularTags DEF IsLut16
<1>2. Reads(l, PortOf(q.ColorSpace, type), PortOf(q.PCS, type), Exact(q), TRUE)
  BY TowardsReads
<1> HIDE DEF type, l
<1>3. l # NULL /\ Reads(l, PortOf(q.ColorSpace, type), PortOf(q.PCS, type), Exact(q), Exact(q))
  BY <1>2, ReadsLess DEF Reads
<1>4. Reads(cmsPipelineDup(l), PortOf(q.ColorSpace, type), PortOf(q.PCS, type), Exact(q), Exact(q))
  BY <1>3, DupReads
<1>5. Reads(BeginIf(c, cmsPipelineDup(l), _cmsStageAllocLabV4ToV2), Port(q.ColorSpace), PortOf(q.PCS, type), Exact(q), Exact(q))
  BY <1>1, <1>4, Exactly, AdjustedTo
<1>6. Reads(EndIf(d, BeginIf(c, cmsPipelineDup(l), _cmsStageAllocLabV4ToV2), _cmsStageAllocLabV2ToV4),
            Port(q.ColorSpace), Port(q.PCS), Exact(q), Exact(q))
  BY <1>1, <1>5, Exactly, AdjustedFrom
<1> QED  BY <1>6 DEF l

LEMMA TableOutputReads ==
    ASSUME NEW q, Regular(q), NEW tag \in (Tables \ (Inward \cup FloatTables)) \cap DOMAIN q.tags,
           NEW c \in BOOLEAN, NEW d \in BOOLEAN,
           c <=> IsLut16(q, tag) /\ q.PCS = "Lab", d <=> IsLut16(q, tag) /\ q.ColorSpace = "Lab"
    PROVE  Reads(EndIf(d, BeginIf(c, cmsPipelineDup(Away(q, tag)), _cmsStageAllocLabV4ToV2), _cmsStageAllocLabV2ToV4),
                 Port(q.PCS), Port(q.ColorSpace), Exact(q), Exact(q))
<1> DEFINE type == q.tags[tag].type
           l == Away(q, tag)
<1>1. type # "MPE" /\ (c <=> type = "Lut16" /\ q.PCS = "Lab") /\ (d <=> type = "Lut16" /\ q.ColorSpace = "Lab")
  BY RegularTags DEF IsLut16
<1>2. Reads(l, PortOf(q.PCS, type), PortOf(q.ColorSpace, type), Exact(q), TRUE)
  BY AwayReads
<1> HIDE DEF type, l
<1>3. l # NULL /\ Reads(l, PortOf(q.PCS, type), PortOf(q.ColorSpace, type), Exact(q), Exact(q))
  BY <1>2, ReadsLess DEF Reads
<1>4. Reads(cmsPipelineDup(l), PortOf(q.PCS, type), PortOf(q.ColorSpace, type), Exact(q), Exact(q))
  BY <1>3, DupReads
<1>5. Reads(BeginIf(c, cmsPipelineDup(l), _cmsStageAllocLabV4ToV2), Port(q.PCS), PortOf(q.ColorSpace, type), Exact(q), Exact(q))
  BY <1>1, <1>4, Exactly, AdjustedTo
<1>6. Reads(EndIf(d, BeginIf(c, cmsPipelineDup(l), _cmsStageAllocLabV4ToV2), _cmsStageAllocLabV2ToV4),
            Port(q.PCS), Port(q.ColorSpace), Exact(q), Exact(q))
  BY <1>1, <1>5, Exactly, AdjustedFrom
<1> QED  BY <1>6 DEF l

--------------------
\* Curves and colorants.

LEMMA GrayInputReads ==
    ASSUME NEW q, Regular(q), cmsIsTag(q, "GrayTRC")
    PROVE  Reads(BuildGrayInputMatrixPipeline(q), Port(q.ColorSpace), Port(q.PCS), TRUE, TRUE)
<1>1. Port(q.ColorSpace) = <<"GRAY", 1>> /\ q.PCS \in {"XYZ", "Lab"}
  BY Ports DEF Regular, cmsIsTag, Space
<1>2. CASE q.PCS = "Lab"
  <2> DEFINE m == cmsStageAllocMatrix(1, 3, "GRAY", <<q.name, "GGG">>, Once(q.name, "OneToThree", 0), FALSE)
             c == cmsStageAllocToneCurves(3, <<q.name, "GGG">>, "Lab4", Forth(q.name, "GrayTRC"))
  <2>1. Goes(m, "GRAY", 1, <<q.name, "GGG">>, 3) /\ Goes(c, <<q.name, "GGG">>, 3, "Lab4", 3)
    BY MatrixAllocated, Allocated
  <2>2. BuildGrayInputMatrixPipeline(q) = End(End(cmsPipelineAlloc(1, 3), m), c)
    BY <1>2 DEF BuildGrayInputMatrixPipeline
  <2> HIDE DEF m, c
  <2>3. Reads(End(cmsPipelineAlloc(1, 3), m), <<"GRAY", 1>>, <<<<q.name, "GGG">>, 3>>, TRUE, TRUE)
    BY <2>1, FirstGoes
  <2>4. Reads(End(End(cmsPipelineAlloc(1, 3), m), c), <<"GRAY", 1>>, <<"Lab4", 3>>, TRUE, TRUE)
    BY <2>1, <2>3, EndGoes
  <2> QED  BY <1>1, <1>2, <2>2, <2>4, Ports
<1>3. CASE q.PCS = "XYZ"
  <2> DEFINE c == cmsStageAllocToneCurves(1, "GRAY", <<q.name, "linear">>, Forth(q.name, "GrayTRC"))
             m == cmsStageAllocMatrix(1, 3, <<q.name, "linear">>, "XYZ", Once(q.name, "GrayInput", 0), FALSE)
  <2>1. Goes(c, "GRAY", 1, <<q.name, "linear">>, 1) /\ Goes(m, <<q.name, "linear">>, 1, "XYZ", 3)
    BY MatrixAllocated, Allocated
  <2>2. BuildGrayInputMatrixPipeline(q) = End(End(cmsPipelineAlloc(1, 3), c), m)
    BY <1>3 DEF BuildGrayInputMatrixPipeline
  <2> HIDE DEF m, c
  <2>3. Reads(End(cmsPipelineAlloc(1, 3), c), <<"GRAY", 1>>, <<<<q.name, "linear">>, 1>>, TRUE, TRUE)
    BY <2>1, FirstGoes
  <2>4. Reads(End(End(cmsPipelineAlloc(1, 3), c), m), <<"GRAY", 1>>, <<"XYZ", 3>>, TRUE, TRUE)
    BY <2>1, <2>3, EndGoes
  <2> QED  BY <1>1, <1>3, <2>2, <2>4, Ports
<1> QED  BY <1>1, <1>2, <1>3

LEMMA GrayOutputReads ==
    ASSUME NEW q, Regular(q), cmsIsTag(q, "GrayTRC")
    PROVE  Reads(BuildGrayOutputPipeline(q), Port(q.PCS), Port(q.ColorSpace), TRUE, TRUE)
<1>1. Port(q.ColorSpace) = <<"GRAY", 1>> /\ q.PCS \in {"XYZ", "Lab"}
  BY Ports DEF Regular, cmsIsTag, Space
<1> DEFINE x == IF q.PCS = "Lab" THEN "Lab4" ELSE "XYZ"
           m == IF q.PCS = "Lab"
                THEN cmsStageAllocMatrix(3, 1, "Lab4", <<q.name, "linear">>, Once(q.name, "PickLstar", 0), FALSE)
                ELSE cmsStageAllocMatrix(3, 1, "XYZ", <<q.name, "linear">>, Once(q.name, "PickY", 0), FALSE)
           c == cmsStageAllocToneCurves(1, <<q.name, "linear">>, "GRAY", Back(q.name, "GrayTRC"))
<1>2. Goes(m, x, 3, <<q.name, "linear">>, 1) /\ Goes(c, <<q.name, "linear">>, 1, "GRAY", 1)
  BY MatrixAllocated, Allocated
<1>3. BuildGrayOutputPipeline(q) = End(End(cmsPipelineAlloc(3, 1), m), c)
  BY DEF BuildGrayOutputPipeline
<1>4. Port(q.PCS) = <<x, 3>>
  BY <1>1, Ports
<1> HIDE DEF m, c, x
<1>5. Reads(End(cmsPipelineAlloc(3, 1), m), <<x, 3>>, <<<<q.name, "linear">>, 1>>, TRUE, TRUE)
  BY <1>2, FirstGoes
<1>6. Reads(End(End(cmsPipelineAlloc(3, 1), m), c), <<x, 3>>, <<"GRAY", 1>>, TRUE, TRUE)
  BY <1>2, <1>5, EndGoes
<1> QED  BY <1>1, <1>3, <1>4, <1>6

LEMMA ShaperInputReads ==
    ASSUME NEW q, Regular(q), {"Colorants", "TRC"} \subseteq DOMAIN q.tags
    PROVE  Reads(BuildRGBInputMatrixShaper(q), Port(q.ColorSpace), Port(q.PCS), TRUE, TRUE)
<1>1. Port(q.ColorSpace) = <<"RGB", 3>> /\ q.PCS \in {"XYZ", "Lab"}
  BY Ports DEF Regular, Space
<1> DEFINE c == cmsStageAllocToneCurves(3, "RGB", <<q.name, "linear">>, Forth(q.name, "TRC"))
           m == cmsStageAllocMatrix(3, 3, <<q.name, "linear">>, "XYZ", Forth(q.name, "Colorants"), FALSE)
           l == End(End(cmsPipelineAlloc(3, 3), c), m)
<1>2. Goes(c, "RGB", 3, <<q.name, "linear">>, 3) /\ Goes(m, <<q.name, "linear">>, 3, "XYZ", 3)
  BY MatrixAllocated, Allocated
<1>3. BuildRGBInputMatrixShaper(q) = IF q.PCS = "Lab" THEN End(l, _cmsStageAllocXYZ2Lab) ELSE l
  BY DEF BuildRGBInputMatrixShaper, EndIf
<1> HIDE DEF m, c
<1>4. Reads(End(cmsPipelineAlloc(3, 3), c), <<"RGB", 3>>, <<<<q.name, "linear">>, 3>>, TRUE, TRUE)
  BY <1>2, FirstGoes
<1>5. Reads(l, <<"RGB", 3>>, <<"XYZ", 3>>, TRUE, TRUE)
  BY <1>2, <1>4, EndGoes
<1> HIDE DEF l
<1>6. Reads(End(l, _cmsStageAllocXYZ2Lab), <<"RGB", 3>>, <<"Lab4", 3>>, TRUE, TRUE)
  BY <1>5, Conversions, EndGoes
<1> QED  BY <1>1, <1>3, <1>5, <1>6, Ports

LEMMA ShaperOutputReads ==
    ASSUME NEW q, Regular(q), {"Colorants", "TRC"} \subseteq DOMAIN q.tags
    PROVE  Reads(BuildRGBOutputMatrixShaper(q), Port(q.PCS), Port(q.ColorSpace), TRUE, TRUE)
<1>1. Port(q.ColorSpace) = <<"RGB", 3>> /\ q.PCS \in {"XYZ", "Lab"}
  BY Ports DEF Regular, Space
<1> DEFINE m == cmsStageAllocMatrix(3, 3, "XYZ", <<q.name, "linear">>, Back(q.name, "Colorants"), FALSE)
           c == cmsStageAllocToneCurves(3, <<q.name, "linear">>, "RGB", Back(q.name, "TRC"))
           l == EndIf(q.PCS = "Lab", cmsPipelineAlloc(3, 3), _cmsStageAllocLab2XYZ)
<1>2. Goes(m, "XYZ", 3, <<q.name, "linear">>, 3) /\ Goes(c, <<q.name, "linear">>, 3, "RGB", 3)
  BY MatrixAllocated, Allocated
<1>3. BuildRGBOutputMatrixShaper(q) = End(End(l, m), c)
  BY DEF BuildRGBOutputMatrixShaper
<1> HIDE DEF m, c
<1>4. Reads(End(l, m), Port(q.PCS), <<<<q.name, "linear">>, 3>>, TRUE, TRUE)
  <2>1. CASE q.PCS = "Lab"
    <3>1. Reads(End(cmsPipelineAlloc(3, 3), _cmsStageAllocLab2XYZ), <<"Lab4", 3>>, <<"XYZ", 3>>, TRUE, TRUE)
      BY Conversions, FirstGoes
    <3>2. Reads(l, <<"Lab4", 3>>, <<"XYZ", 3>>, TRUE, TRUE)
      BY <2>1, <3>1 DEF EndIf
    <3> HIDE DEF l
    <3>3. Reads(End(l, m), <<"Lab4", 3>>, <<<<q.name, "linear">>, 3>>, TRUE, TRUE)
      BY <1>2, <3>2, EndGoes
    <3> QED  BY <2>1, <3>3, Ports
  <2>2. CASE q.PCS = "XYZ"
    <3>1. l = cmsPipelineAlloc(3, 3)
      BY <2>2 DEF EndIf
    <3>2. Reads(End(cmsPipelineAlloc(3, 3), m), <<"XYZ", 3>>, <<<<q.name, "linear">>, 3>>, TRUE, TRUE)
      BY <1>2, FirstGoes
    <3> QED  BY <2>2, <3>1, <3>2, Ports
  <2> QED  BY <1>1, <2>1, <2>2
<1> HIDE DEF l
<1>5. Reads(End(End(l, m), c), Port(q.PCS), <<"RGB", 3>>, TRUE, TRUE)
  BY <1>2, <1>4, EndGoes
<1> QED  BY <1>1, <1>3, <1>5

--------------------
\* What _cmsReadInputLUT, _cmsReadOutputLUT and _cmsReadDevicelinkLUT
\* read.

LEMMA Mays == \A q, I, table : /\ MayRead(q, I, table) \in BOOLEAN
                              /\ MayRead(q, I, table) <=> Sound(q) /\ cmsIsIntentSupported(q, I, table)
  BY DEF MayRead

\* Curves are read if there are no tables: then they are what supports the intent.
LEMMA CurvesInputReads ==
    ASSUME NEW q, Regular(q), NEW l,
           l = IF q.ColorSpace = "GRAY" THEN BuildGrayInputMatrixPipeline(q) ELSE BuildRGBInputMatrixShaper(q)
    PROVE  Reads(l, Port(q.ColorSpace), Port(q.PCS), TRUE, cmsIsMatrixShaper(q))
<1>1. CASE q.ColorSpace = "GRAY"
  <2>1. CASE cmsIsTag(q, "GrayTRC")
    <3>1. Reads(l, Port(q.ColorSpace), Port(q.PCS), TRUE, TRUE)
      BY <1>1, <2>1, GrayInputReads
    <3> QED  BY <3>1, ReadsLess
  <2>2. CASE ~cmsIsTag(q, "GrayTRC")
    <3>1. l = NULL /\ ~cmsIsMatrixShaper(q)
      BY <1>1, <2>2 DEF BuildGrayInputMatrixPipeline, cmsIsMatrixShaper
    <3> QED  BY <3>1, NullReads
  <2> QED  BY <2>1, <2>2
<1>2. CASE q.ColorSpace # "GRAY"
  <2>1. CASE {"Colorants", "TRC"} \subseteq DOMAIN q.tags
    <3>1. Reads(l, Port(q.ColorSpace), Port(q.PCS), TRUE, TRUE)
      BY <1>2, <2>1, ShaperInputReads
    <3> QED  BY <3>1, ReadsLess
  <2>2. CASE ~({"Colorants", "TRC"} \subseteq DOMAIN q.tags)
    <3>1. l = NULL /\ ~cmsIsMatrixShaper(q)
      BY <1>2, <2>2 DEF BuildRGBInputMatrixShaper, cmsIsMatrixShaper
    <3> QED  BY <3>1, NullReads
  <2> QED  BY <2>1, <2>2
<1> QED  BY <1>1, <1>2

LEMMA CurvesOutputReads ==
    ASSUME NEW q, Regular(q), NEW l,
           l = IF q.ColorSpace = "GRAY" THEN BuildGrayOutputPipeline(q) ELSE BuildRGBOutputMatrixShaper(q)
    PROVE  Reads(l, Port(q.PCS), Port(q.ColorSpace), TRUE, cmsIsMatrixShaper(q))
<1>1. CASE q.ColorSpace = "GRAY"
  <2>1. CASE cmsIsTag(q, "GrayTRC")
    <3>1. Reads(l, Port(q.PCS), Port(q.ColorSpace), TRUE, TRUE)
      BY <1>1, <2>1, GrayOutputReads
    <3> QED  BY <3>1, ReadsLess
  <2>2. CASE ~cmsIsTag(q, "GrayTRC")
    <3>1. l = NULL /\ ~cmsIsMatrixShaper(q)
      BY <1>1, <2>2 DEF BuildGrayOutputPipeline, cmsIsMatrixShaper
    <3> QED  BY <3>1, NullReads
  <2> QED  BY <2>1, <2>2
<1>2. CASE q.ColorSpace # "GRAY"
  <2>1. CASE {"Colorants", "TRC"} \subseteq DOMAIN q.tags
    <3>1. Reads(l, Port(q.PCS), Port(q.ColorSpace), TRUE, TRUE)
      BY <1>2, <2>1, ShaperOutputReads
    <3> QED  BY <3>1, ReadsLess
  <2>2. CASE ~({"Colorants", "TRC"} \subseteq DOMAIN q.tags)
    <3>1. l = NULL /\ ~cmsIsMatrixShaper(q)
      BY <1>2, <2>2 DEF BuildRGBOutputMatrixShaper, cmsIsMatrixShaper
    <3> QED  BY <3>1, NullReads
  <2> QED  BY <2>1, <2>2
<1> QED  BY <1>1, <1>2

LEMMA ReadsInexact ==
    ASSUME NEW l, NEW a, NEW b, NEW exact, NEW there, NEW once, Reads(l, a, b, TRUE, once), there => once
    PROVE  Reads(l, a, b, exact, there)
  BY DEF Reads

\* Each function that reads a profile gives a pipeline between its spaces, or NULL where it may.
LEMMA InputReads ==
    ASSUME NEW q, Regular(q), Device(q), NEW I \in 0..3
    PROVE  Reads(_cmsReadInputLUT(q, I), Port(q.ColorSpace), Port(q.PCS), Exact(q), MayRead(q, I, Device2PCS16))
<1> DEFINE float == Device2PCSFloat[I + 1]
           tag16 == Tag16(q, Device2PCS16, I)
           there == MayRead(q, I, Device2PCS16)
           l == _cmsReadInputLUT(q, I)
<1>1. I <= INTENT_ABSOLUTE_COLORIMETRIC /\ q.DeviceClass # "NamedColor" /\ q.DeviceClass # "Link"
  BY DEF INTENT_ABSOLUTE_COLORIMETRIC, Device
<1>2. q.ColorSpace = "Lab" => q.PCS = "Lab"
  BY DEF Regular, Space
<1>3. there => Exact(q)
  BY Mays, Exactly
<1>4. float \in Inward \cap FloatTables /\ tag16 \in Inward \ FloatTables
  BY TableNames DEF Tag16
<1>5. CASE cmsIsTag(q, float)
  <2>1. l = NormalizeFrom(NormalizeTo(Towards(q, float), q.ColorSpace), q.PCS)
    BY <1>1, <1>5 DEF _cmsReadInputLUT, _cmsReadFloatInputTag
  <2>2. Reads(l, Port(q.ColorSpace), Port(q.PCS), Exact(q), Exact(q))
    BY <1>4, <1>5, <2>1, FloatInputReads DEF cmsIsTag
  <2> QED  BY <1>3, <2>2, ReadsLess
<1>6. CASE ~cmsIsTag(q, float) /\ cmsIsTag(q, tag16)
  <2> DEFINE d == IsLut16(q, tag16) /\ q.PCS = "Lab"
             c == d /\ q.ColorSpace = "Lab"
  <2>1. l = EndIf(d, BeginIf(c, cmsPipelineDup(Towards(q, tag16)), _cmsStageAllocLabV4ToV2), _cmsStageAllocLabV2ToV4)
    BY <1>1, <1>6 DEF _cmsReadInputLUT
  <2>2. c \in BOOLEAN /\ d \in BOOLEAN /\ (c <=> IsLut16(q, tag16) /\ q.ColorSpace = "Lab") /\ (d <=> IsLut16(q, tag16) /\ q.PCS = "Lab")
    BY <1>2 DEF IsLut16
  <2> HIDE DEF c, d, l
  <2>3. tag16 \in (Inward \ FloatTables) \cap DOMAIN q.tags
    BY <1>4, <1>6 DEF cmsIsTag
  <2>4. Reads(l, Port(q.ColorSpace), Port(q.PCS), Exact(q), Exact(q))
    BY <2>1, <2>2, <2>3, TableInputReads
  <2>5. Reads(l, Port(q.ColorSpace), Port(q.PCS), Exact(q), there)
    BY <1>3, <2>4, ReadsLess
  <2> QED  BY <2>5 DEF l
<1>7. CASE ~cmsIsTag(q, float) /\ ~cmsIsTag(q, tag16)
  <2>1. l = IF q.ColorSpace = "GRAY" THEN BuildGrayInputMatrixPipeline(q) ELSE BuildRGBInputMatrixShaper(q)
    BY <1>1, <1>7 DEF _cmsReadInputLUT
  <2>2. Reads(l, Port(q.ColorSpace), Port(q.PCS), TRUE, cmsIsMatrixShaper(q))
    BY <2>1, CurvesInputReads
  <2>3. there => cmsIsMatrixShaper(q)
    BY <1>1, <1>7, Mays DEF cmsIsIntentSupported, cmsIsCLUT, Tag16
  <2> QED  BY <2>2, <2>3, ReadsInexact
<1> QED  BY <1>5, <1>6, <1>7

LEMMA OutputReads ==
    ASSUME NEW q, Regular(q), Device(q), NEW I \in 0..3
    PROVE  Reads(_cmsReadOutputLUT(q, I), Port(q.PCS), Port(q.ColorSpace), Exact(q), MayRead(q, I, PCS2Device16))
<1> DEFINE float == PCS2DeviceFloat[I + 1]
           tag16 == Tag16(q, PCS2Device16, I)
           there == MayRead(q, I, PCS2Device16)
           l == _cmsReadOutputLUT(q, I)
<1>1. I <= INTENT_ABSOLUTE_COLORIMETRIC /\ q.DeviceClass # "Link"
  BY DEF INTENT_ABSOLUTE_COLORIMETRIC, Device
<1>2. q.ColorSpace = "Lab" => q.PCS = "Lab"
  BY DEF Regular, Space
<1>3. there => Exact(q)
  BY Mays, Exactly
<1>4. float \in (Tables \cap FloatTables) \ Inward /\ tag16 \in Tables \ (Inward \cup FloatTables)
  BY TableNames DEF Tag16
<1>5. CASE cmsIsTag(q, float)
  <2>1. l = NormalizeFrom(NormalizeTo(Away(q, float), q.PCS), q.ColorSpace)
    BY <1>1, <1>5 DEF _cmsReadOutputLUT, _cmsReadFloatOutputTag
  <2>2. Reads(l, Port(q.PCS), Port(q.ColorSpace), Exact(q), Exact(q))
    BY <1>4, <1>5, <2>1, FloatOutputReads DEF cmsIsTag
  <2> QED  BY <1>3, <2>2, ReadsLess
<1>6. CASE ~cmsIsTag(q, float) /\ cmsIsTag(q, tag16)
  <2> DEFINE c == IsLut16(q, tag16) /\ q.PCS = "Lab"
             d == c /\ q.ColorSpace = "Lab"
  <2>1. l = EndIf(d, BeginIf(c, cmsPipelineDup(Away(q, tag16)), _cmsStageAllocLabV4ToV2), _cmsStageAllocLabV2ToV4)
    BY <1>1, <1>6 DEF _cmsReadOutputLUT
  <2>2. c \in BOOLEAN /\ d \in BOOLEAN /\ (d <=> IsLut16(q, tag16) /\ q.ColorSpace = "Lab") /\ (c <=> IsLut16(q, tag16) /\ q.PCS = "Lab")
    BY <1>2 DEF IsLut16
  <2> HIDE DEF c, d, l
  <2>3. tag16 \in (Tables \ (Inward \cup FloatTables)) \cap DOMAIN q.tags
    BY <1>4, <1>6 DEF cmsIsTag
  <2>4. Reads(l, Port(q.PCS), Port(q.ColorSpace), Exact(q), Exact(q))
    BY <2>1, <2>2, <2>3, TableOutputReads
  <2>5. Reads(l, Port(q.PCS), Port(q.ColorSpace), Exact(q), there)
    BY <1>3, <2>4, ReadsLess
  <2> QED  BY <2>5 DEF l
<1>7. CASE ~cmsIsTag(q, float) /\ ~cmsIsTag(q, tag16)
  <2>1. l = IF q.ColorSpace = "GRAY" THEN BuildGrayOutputPipeline(q) ELSE BuildRGBOutputMatrixShaper(q)
    BY <1>1, <1>7 DEF _cmsReadOutputLUT
  <2>2. Reads(l, Port(q.PCS), Port(q.ColorSpace), TRUE, cmsIsMatrixShaper(q))
    BY <2>1, CurvesOutputReads
  <2>3. there => cmsIsMatrixShaper(q)
    BY <1>1, <1>7, Mays DEF cmsIsIntentSupported, cmsIsCLUT, Tag16
  <2> QED  BY <2>2, <2>3, ReadsInexact
<1> QED  BY <1>5, <1>6, <1>7

LEMMA NamesRead ==
    ASSUME NEW q, q.DeviceClass = "NamedColor", NEW I \in 0..3, NEW exact \in BOOLEAN
    PROVE  Reads(_cmsReadInputLUT(q, I), <<"named", 1>>, <<"Lab4", 3>>, exact, FALSE)
<1> DEFINE st == _cmsStageAllocNamedColor(3, "Lab2", Once(q.name, "PCS of names", 0))
           l == Begin(cmsPipelineAlloc(0, 0), st)
<1>1. CASE ~cmsIsTag(q, "NamedColor2")
  <2>1. _cmsReadInputLUT(q, I) = NULL
    BY <1>1 DEF _cmsReadInputLUT
  <2> QED  BY <2>1, NullReads
<1>2. CASE cmsIsTag(q, "NamedColor2")
  <2>1. _cmsReadInputLUT(q, I) = End(l, _cmsStageAllocLabV2ToV4)
    BY <1>2 DEF _cmsReadInputLUT
  <2>2. Goes(st, "named", 1, "Lab2", 3)
    BY Allocated
  <2> HIDE DEF st
  <2>3. Reads(l, <<"named", 1>>, <<"Lab2", 3>>, exact, FALSE)
    BY <2>2, FirstGoes
  <2> HIDE DEF l
  <2>4. Reads(End(l, _cmsStageAllocLabV2ToV4), <<"named", 1>>, <<"Lab4", 3>>, exact, FALSE)
    BY <2>3, Conversions, EndGoes
  <2> QED  BY <2>1, <2>4
<1> QED  BY <1>1, <1>2

\* What an input table says of its ends if the profile is a link, which happens where black is kept.
LEMMA InputWalks ==
    ASSUME NEW q, Regular(q), NEW I \in 0..3, _cmsReadInputLUT(q, I) # NULL
    PROVE  Walkable(_cmsReadInputLUT(q, I))
<1> DEFINE l == _cmsReadInputLUT(q, I)
           float == Device2PCSFloat[I + 1]
           tag16 == Tag16(q, Device2PCS16, I)
<1>1. CASE q.DeviceClass = "NamedColor"
  <2>1. Reads(l, <<"named", 1>>, <<"Lab4", 3>>, TRUE, FALSE)
    BY <1>1, NamesRead
  <2> QED  BY <2>1, ReadsWalks
<1>2. CASE q.DeviceClass # "NamedColor"
  <2>1. I <= INTENT_ABSOLUTE_COLORIMETRIC
    BY DEF INTENT_ABSOLUTE_COLORIMETRIC
  <2>2. float \in Inward \cap FloatTables /\ tag16 \in Inward \ FloatTables
    BY TableNames DEF Tag16
  <2>3. CASE cmsIsTag(q, float)
    <3>1. l = NormalizeFrom(NormalizeTo(Towards(q, float), q.ColorSpace), q.PCS)
      BY <1>2, <2>1, <2>3 DEF _cmsReadInputLUT, _cmsReadFloatInputTag
    <3>2. Reads(l, Port(q.ColorSpace), Port(q.PCS), Exact(q), Exact(q))
      BY <2>2, <2>3, <3>1, FloatInputReads DEF cmsIsTag
    <3> QED  BY <3>2, ReadsWalks
  <2>4. CASE ~cmsIsTag(q, float) /\ ~cmsIsTag(q, tag16)
    <3>1. l = IF q.ColorSpace = "GRAY" THEN BuildGrayInputMatrixPipeline(q) ELSE BuildRGBInputMatrixShaper(q)
      BY <1>2, <2>1, <2>4 DEF _cmsReadInputLUT
    <3>2. Reads(l, Port(q.ColorSpace), Port(q.PCS), TRUE, cmsIsMatrixShaper(q))
      BY <3>1, CurvesInputReads
    <3> QED  BY <3>2, ReadsWalks
  <2>5. CASE ~cmsIsTag(q, float) /\ cmsIsTag(q, tag16)
    <3> DEFINE d == IsLut16(q, tag16) /\ q.PCS = "Lab"
               c == d /\ q.ColorSpace = "Lab"
               m == cmsPipelineDup(Towards(q, tag16))
               type == q.tags[tag16].type
    <3>1. l = EndIf(d, BeginIf(c, m, _cmsStageAllocLabV4ToV2), _cmsStageAllocLabV2ToV4)
      BY <1>2, <2>1, <2>5 DEF _cmsReadInputLUT
    <3>2. tag16 \in (Inward \ FloatTables) \cap DOMAIN q.tags
      BY <2>2, <2>5 DEF cmsIsTag
    <3>3. c \in BOOLEAN /\ d \in BOOLEAN /\ (d <=> IsLut16(q, tag16) /\ q.PCS = "Lab")
      BY DEF IsLut16
    <3>4. CASE c <=> IsLut16(q, tag16) /\ q.ColorSpace = "Lab"
      <4>1. Reads(l, Port(q.ColorSpace), Port(q.PCS), Exact(q), Exact(q))
        BY <3>1, <3>2, <3>3, <3>4, TableInputReads
      <4> QED  BY <4>1, ReadsWalks
    <3>5. CASE ~(c <=> IsLut16(q, tag16) /\ q.ColorSpace = "Lab")
      <4>1. ~c /\ ~d
        BY <3>5
      <4>2. l = m
        BY <3>1, <4>1 DEF BeginIf, EndIf
      <4>3. Reads(Towards(q, tag16), PortOf(q.ColorSpace, type), PortOf(q.PCS, type), Exact(q), TRUE)
        BY <3>2, TowardsReads
      <4>4. Towards(q, tag16) # NULL
        BY <4>3 DEF Reads
      <4>5. Reads(m, PortOf(q.ColorSpace, type), PortOf(q.PCS, type), Exact(q), TRUE)
        BY <4>3, <4>4, DupReads
      <4> QED  BY <4>2, <4>5, ReadsWalks
    <3> QED  BY <3>4, <3>5
  <2> QED  BY <2>3, <2>4, <2>5
<1> QED  BY <1>1, <1>2

LEMMA LinksRead ==
    ASSUME NEW q, Regular(q), q.DeviceClass \in {"Link", "Abstract"}, NEW I \in 0..3
    PROVE  Reads(_cmsReadDevicelinkLUT(q, I), Port(q.ColorSpace), Port(q.PCS), Exact(q), FALSE)
<1> DEFINE float == Device2PCSFloat[I + 1]
           tag16 == Tag16(q, Device2PCS16, I)
           l == _cmsReadDevicelinkLUT(q, I)
<1>1. I <= INTENT_ABSOLUTE_COLORIMETRIC /\ ~(I > INTENT_ABSOLUTE_COLORIMETRIC) /\ q.DeviceClass # "NamedColor" /\ ~Device(q)
  BY DEF INTENT_ABSOLUTE_COLORIMETRIC, Device
<1>2. float \in Inward \cap FloatTables /\ tag16 \in Inward \ FloatTables /\ float \in Range(Device2PCSFloat)
  <2>1. I + 1 \in DOMAIN Device2PCSFloat
    BY DEF Device2PCSFloat
  <2> QED  BY <2>1, TableNames DEF Tag16, Range
<1>3. CASE cmsIsTag(q, float)
  <2>1. l = NormalizeFrom(NormalizeTo(Towards(q, float), q.ColorSpace), q.PCS)
    BY <1>1, <1>3 DEF _cmsReadDevicelinkLUT, _cmsReadFloatDevicelinkTag
  <2>2. Reads(l, Port(q.ColorSpace), Port(q.PCS), Exact(q), Exact(q))
    BY <1>2, <1>3, <2>1, FloatInputReads DEF cmsIsTag
  <2> QED  BY <2>2, ReadsLess
<1>4. CASE ~cmsIsTag(q, float) /\ cmsIsTag(q, "DToB0")
  <2>1. l = cmsPipelineDup(Towards(q, "DToB0"))
    BY <1>1, <1>4, TableNames DEF _cmsReadDevicelinkLUT
  <2>2. q.ColorSpace \notin Space /\ q.PCS \notin Space
    BY <1>1, <1>2, <1>4 DEF Regular, cmsIsTag
  <2>3. "DToB0" \in Inward \cap DOMAIN q.tags
    BY <1>4, TableNames DEF cmsIsTag
  <2>4. Reads(Towards(q, "DToB0"), Port(q.ColorSpace), Port(q.PCS), Exact(q), TRUE)
    BY <2>2, <2>3, TowardsReads, Ports
  <2>5. Towards(q, "DToB0") # NULL
    BY <2>4 DEF Reads
  <2>6. Reads(l, Port(q.ColorSpace), Port(q.PCS), Exact(q), TRUE)
    BY <2>1, <2>4, <2>5, DupReads
  <2> QED  BY <2>6, ReadsLess
<1>5. CASE ~cmsIsTag(q, float) /\ ~cmsIsTag(q, "DToB0") /\ ~cmsIsTag(q, tag16)
  <2>1. l = NULL
    BY <1>1, <1>5, TableNames DEF _cmsReadDevicelinkLUT
  <2> QED  BY <2>1, NullReads
<1>6. CASE ~cmsIsTag(q, float) /\ ~cmsIsTag(q, "DToB0") /\ cmsIsTag(q, tag16)
  <2> DEFINE d == IsLut16(q, tag16) /\ q.PCS = "Lab"
             c == IsLut16(q, tag16) /\ q.ColorSpace = "Lab"
  <2>1. l = EndIf(d, BeginIf(c, cmsPipelineDup(Towards(q, tag16)), _cmsStageAllocLabV4ToV2), _cmsStageAllocLabV2ToV4)
    BY <1>1, <1>6, TableNames DEF _cmsReadDevicelinkLUT
  <2>2. c \in BOOLEAN /\ d \in BOOLEAN /\ (c <=> IsLut16(q, tag16) /\ q.ColorSpace = "Lab") /\ (d <=> IsLut16(q, tag16) /\ q.PCS = "Lab")
    BY DEF IsLut16
  <2> HIDE DEF c, d, l
  <2>3. tag16 \in (Inward \ FloatTables) \cap DOMAIN q.tags
    BY <1>2, <1>6 DEF cmsIsTag
  <2>4. Reads(l, Port(q.ColorSpace), Port(q.PCS), Exact(q), Exact(q))
    BY <2>1, <2>2, <2>3, TableInputReads
  <2>5. Reads(l, Port(q.ColorSpace), Port(q.PCS), Exact(q), FALSE)
    BY <2>4, ReadsLess
  <2> QED  BY <2>5 DEF l
<1> QED  BY <1>3, <1>4, <1>5, <1>6

\* A named colour profile alone in its chain.
LEMMA NamesReadAlone ==
    ASSUME NEW q, Regular(q), q.DeviceClass = "NamedColor", NEW I \in 0..3, NEW exact \in BOOLEAN
    PROVE  Reads(_cmsReadDevicelinkLUT(q, I), <<"named", 1>>, Port(q.ColorSpace), exact, FALSE)
<1> DEFINE x == Encoding(q.ColorSpace, "Lut16")
           o == cmsChannelsOfColorSpace[q.ColorSpace]
           st == _cmsStageAllocNamedColor(o, x, Once(q.name, "colorants of names", 0))
           l == Begin(cmsPipelineAlloc(0, 0), st)
           c == q.ColorSpace = "Lab"
<1>0. I <= INTENT_ABSOLUTE_COLORIMETRIC /\ ~(I > INTENT_ABSOLUTE_COLORIMETRIC)
  BY DEF INTENT_ABSOLUTE_COLORIMETRIC
<1>1. CASE ~cmsIsTag(q, "NamedColor2")
  <2>1. _cmsReadDevicelinkLUT(q, I) = NULL
    BY <1>0, <1>1 DEF _cmsReadDevicelinkLUT
  <2> QED  BY <2>1, NullReads
<1>2. CASE cmsIsTag(q, "NamedColor2")
  <2>1. _cmsReadDevicelinkLUT(q, I) = EndIf(c, l, _cmsStageAllocLabV2ToV4)
    BY <1>0, <1>2 DEF _cmsReadDevicelinkLUT
  <2>2. Goes(st, "named", 1, x, o)
    BY Allocated
  <2> HIDE DEF st
  <2>3. Reads(l, <<"named", 1>>, <<x, o>>, exact, FALSE)
    BY <2>2, FirstGoes
  <2> HIDE DEF l
  <2>4. Reads(l, <<"named", 1>>, PortOf(q.ColorSpace, "Lut16"), exact, FALSE)
    BY <2>3 DEF PortOf
  <2>5. Reads(EndIf(c, l, _cmsStageAllocLabV2ToV4), <<"named", 1>>, Port(q.ColorSpace), exact, FALSE)
    BY <2>4, AdjustedFrom
  <2> QED  BY <2>1, <2>5
<1> QED  BY <1>1, <1>2

--------------------
\* Pipelines that are converted and joined.

LEMMA ReducedNone == Reduced(<<>>) = <<>>
<1> DEFINE F(it) == [t \in SUBSET DOMAIN <<>> |-> IF t = {} THEN <<>>
                        ELSE IF it[t \ {Max(t)}] # <<>> /\ Undoes(<<>>[Max(t)], Last(it[t \ {Max(t)}]))
                             THEN Front(it[t \ {Max(t)}]) ELSE Append(it[t \ {Max(t)}], <<>>[Max(t)])]
<1>1. Reduced(<<>>) = (CHOOSE it : it = F(it))[DOMAIN <<>>]
  BY DEF Reduced, FoldLeft, MapThenFoldSet
<1>2. DOMAIN <<>> = {}
  <2>1. Len(<<>>) = 0 /\ IsSeq(<<>>)
    BY PathNone DEF Path
  <2> QED  BY <2>1, Sequence
<1>3. \A it : F(it) = [t \in {{}} |-> <<>>]
  BY <1>2
<1> HIDE DEF F
<1>4. \E it : it = F(it)
  <2> DEFINE z == [t \in {{}} |-> <<>>]
  <2>1. z = F(z)
    BY <1>3
  <2> QED  BY <2>1
<1>5. (CHOOSE it : it = F(it)) = F(CHOOSE it : it = F(it))
  BY <1>4
<1> QED  BY <1>1, <1>2, <1>3, <1>5

LEMMA SameSpace ==
    ASSUME NEW l, NEW space
    PROVE  AddConversion(l, space, space, <<>>) = l
<1>1. IsEmptyLayer(<<>>)
  BY ReducedNone DEF IsEmptyLayer
<1> QED  BY <1>1 DEF AddConversion, Space

LEMMA ConversionReads ==
    ASSUME NEW l, NEW a, NEW exact \in BOOLEAN, NEW there \in BOOLEAN, there => exact, NEW m, NEW in, NEW out,
           Reads(l, a, Port(in), exact, there), in = out \/ (in \in Space /\ out \in Space)
    PROVE  Reads(AddConversion(l, in, out, m), a, Port(out), exact, there)
<1> DEFINE layer == cmsStageAllocMatrix(3, 3, "XYZ", "XYZ", Reduced(m), TRUE)
           Layer(x) == IF IsEmptyLayer(m) THEN x ELSE End(x, layer)
           z == AddConversion(l, in, out, m)
<1>1. Goes(layer, "XYZ", 3, "XYZ", 3)
  BY MatrixAllocated
<1>2. /\ in = "XYZ" /\ out = "XYZ" => z = Layer(l)
      /\ in = "XYZ" /\ out = "Lab" => z = End(Layer(l), _cmsStageAllocXYZ2Lab)
      /\ in = "Lab" /\ out = "XYZ" => z = Layer(End(l, _cmsStageAllocLab2XYZ))
      /\ in = "Lab" /\ out = "Lab" => z = IF IsEmptyLayer(m) THEN l
                                          ELSE End(Layer(End(l, _cmsStageAllocLab2XYZ)), _cmsStageAllocXYZ2Lab)
      /\ in \notin Space /\ in = out => z = l
  BY DEF AddConversion, Space
<1> HIDE DEF layer, z
<1> SUFFICES Reads(z, a, Port(out), exact, there)
  BY DEF z
<1>3. ASSUME NEW x, Reads(x, a, <<"XYZ", 3>>, exact, there) PROVE Reads(Layer(x), a, <<"XYZ", 3>>, exact, there)
  <2>1. Reads(End(x, layer), a, <<"XYZ", 3>>, exact, there)
    BY <1>1, <1>3, EndGoes
  <2> QED  BY <1>3, <2>1
<1> HIDE DEF Layer
<1>4. ASSUME NEW x, Reads(x, a, <<"XYZ", 3>>, exact, there)
      PROVE  Reads(End(x, _cmsStageAllocXYZ2Lab), a, <<"Lab4", 3>>, exact, there)
  BY <1>4, Conversions, EndGoes
<1>5. ASSUME NEW x, Reads(x, a, <<"Lab4", 3>>, exact, there)
      PROVE  Reads(End(x, _cmsStageAllocLab2XYZ), a, <<"XYZ", 3>>, exact, there)
  BY <1>5, Conversions, EndGoes
<1>6. CASE in = "XYZ" /\ out = "XYZ"
  BY <1>2, <1>3, <1>6, Ports
<1>7. CASE in = "XYZ" /\ out = "Lab"
  BY <1>2, <1>3, <1>4, <1>7, Ports
<1>8. CASE in = "Lab" /\ out = "XYZ"
  BY <1>2, <1>3, <1>5, <1>8, Ports
<1>9. CASE in = "Lab" /\ out = "Lab"
  BY <1>2, <1>3, <1>4, <1>5, <1>9, Ports
<1>10. CASE in \notin Space /\ in = out
  BY <1>2, <1>10
<1> QED  BY <1>6, <1>7, <1>8, <1>9, <1>10 DEF Space

--------------------
\* Pipelines joined.

LEMMA CatIs ==
    ASSUME NEW l1, NEW l2, Whole(l1), Whole(l2)
    PROVE  \E l : /\ cmsPipelineCat(l1, l2) = Blessed(l) /\ DOMAIN l = LutFields /\ l.Eval16Fn # "NULL"
                  /\ l.Elements = l1.Elements \o l2.Elements
                  /\ l1.Elements = <<>> /\ l2.Elements = <<>> => Sized(l, l2.InputChannels, l2.OutputChannels)
<1> DEFINE of == IF l1.Elements = <<>> /\ l2.Elements = <<>> THEN l2 ELSE l1
           l == [l1 EXCEPT !.InputChannels = of.InputChannels, !.OutputChannels = of.OutputChannels,
                           !.Elements = @ \o l2.Elements]
<1>1. cmsPipelineCat(l1, l2) = Blessed(l)
  BY DEF cmsPipelineCat
<1> HIDE DEF of
<1>2. /\ DOMAIN l = LutFields /\ l.Eval16Fn = l1.Eval16Fn /\ l.Elements = l1.Elements \o l2.Elements
      /\ l.InputChannels = of.InputChannels /\ l.OutputChannels = of.OutputChannels
  BY DEF Whole, LutFields
<1> HIDE DEF l
<1>3. /\ cmsPipelineCat(l1, l2) = Blessed(l) /\ DOMAIN l = LutFields /\ l.Eval16Fn # "NULL"
      /\ l.Elements = l1.Elements \o l2.Elements
      /\ l1.Elements = <<>> /\ l2.Elements = <<>> => Sized(l, l2.InputChannels, l2.OutputChannels)
  BY <1>1, <1>2 DEF Whole, Sized, of
<1> QED  BY <1>3

LEMMA BlessedElements ==
    ASSUME NEW l, DOMAIN l = LutFields PROVE Blessed(l).Elements = l.Elements
  BY DEF Blessed, LutFields

LEMMA JoinedNone ==
    ASSUME NEW s, NEW t, IsSeq(s), IsSeq(t), s \o t = <<>>
    PROVE  s = <<>> /\ t = <<>>
<1>1. Len(s) + Len(t) = 0 /\ Len(s) \in Nat /\ Len(t) \in Nat
  BY Joined, Sequence, PathNone DEF Path
<1> QED  BY <1>1, Sequence

LEMMA CatLeads ==
    ASSUME NEW l1, NEW l2, Whole(l1), Whole(l2), NEW a, NEW b, NEW c,
           Path(l1.Elements, a, b), Path(l2.Elements, b, c),
           l1.Elements = <<>> /\ l2.Elements = <<>> => Sized(l2, b[2], c[2])
    PROVE  /\ Whole(cmsPipelineCat(l1, l2)) /\ Leads(cmsPipelineCat(l1, l2), a, c)
           /\ Consistent(cmsPipelineCat(l1, l2)) /\ cmsPipelineCat(l1, l2) # NULL
<1>1. PICK l : /\ cmsPipelineCat(l1, l2) = Blessed(l) /\ DOMAIN l = LutFields /\ l.Eval16Fn # "NULL"
               /\ l.Elements = l1.Elements \o l2.Elements
               /\ l1.Elements = <<>> /\ l2.Elements = <<>> => Sized(l, l2.InputChannels, l2.OutputChannels)
  BY CatIs
<1>2. Path(l.Elements, a, c)
  BY <1>1, PathJoin
<1>3. /\ Whole(Blessed(l)) /\ Blessed(l).Elements = l.Elements
      /\ l.Elements # <<>> => Leads(Blessed(l), a, c)
      /\ l.Elements = <<>> => Blessed(l) = l
  BY <1>1, <1>2, Blessing
<1>4. Leads(Blessed(l), a, c)
  <2>1. CASE l.Elements = <<>>
    <3>1. l1.Elements = <<>> /\ l2.Elements = <<>>
      BY <1>1, <2>1, JoinedNone DEF Path
    <3>2. Sized(l, b[2], c[2]) /\ a = b
      BY <1>1, <3>1 DEF Sized, Path
    <3> QED  BY <1>2, <1>3, <2>1, <3>2 DEF Leads
  <2> QED  BY <1>3, <2>1
<1>5. Consistent(Blessed(l))
  BY <1>2, <1>3, PathsMeet DEF StagesMeet
<1> QED  BY <1>1, <1>3, <1>4, <1>5, NullIsNot

\* Pipelines that fit are joined into one.
LEMMA CatRuns ==
    ASSUME NEW l1, NEW l2, Whole(l1), Whole(l2), NEW x, NEW y, NEW z, Runs(l1, x, y), Runs(l2, y, z),
           Consistent(cmsPipelineCat(l1, l2))
    PROVE  Whole(cmsPipelineCat(l1, l2)) /\ Runs(cmsPipelineCat(l1, l2), x, z)
<1>1. PICK l : /\ cmsPipelineCat(l1, l2) = Blessed(l) /\ DOMAIN l = LutFields /\ l.Eval16Fn # "NULL"
               /\ l.Elements = l1.Elements \o l2.Elements
               /\ l1.Elements = <<>> /\ l2.Elements = <<>> => Sized(l, l2.InputChannels, l2.OutputChannels)
  BY CatIs
<1>2. PICK a, g : Path(l1.Elements, a, g) /\ a[1] = x /\ g[1] = y
  BY DEF Runs
<1>3. PICK h, c : Path(l2.Elements, h, c) /\ h[1] = y /\ c[1] = z
  BY DEF Runs
<1>4. Fitting(l1.Elements \o l2.Elements)
  BY <1>1, BlessedElements DEF Consistent, Fitting
<1>5. PICK a1, b, c1 : /\ Path(l1.Elements, a1, b) /\ Path(l2.Elements, b, c1)
                       /\ a1[1] = a[1] /\ b[1] = g[1] /\ c1[1] = c[1]
  <2> DEFINE s == l1.Elements
             t == l2.Elements
  <2>1. g[1] = h[1] /\ Path(s, a, g) /\ Path(t, h, c)
    BY <1>2, <1>3
  <2>2. Fitting(s \o t)
    BY <1>4
  <2> HIDE DEF s, t
  <2>3. \E a1, b, c1 : Path(s, a1, b) /\ Path(t, b, c1) /\ a1[1] = a[1] /\ b[1] = g[1] /\ c1[1] = c[1]
    BY <2>1, <2>2, PathMeet
  <2> QED  BY <2>3 DEF s, t
<1>6. Path(l.Elements, a1, c1)
  BY <1>1, <1>5, PathJoin
<1>7. Whole(Blessed(l)) /\ Blessed(l).Elements = l.Elements
  BY <1>1, <1>6, Blessing
<1> QED  BY <1>1, <1>2, <1>3, <1>5, <1>6, <1>7 DEF Runs

LEMMA Seam ==
    ASSUME NEW s, NEW t, NEW a, NEW b, NEW c, NEW d, Path(s, a, b), Path(t, c, d), s # <<>>, t # <<>>, Fitting(s \o t)
    PROVE  b[2] = c[2]
<1> DEFINE u == s \o t
           m == Len(s)
           w == Len(t)
<1>1. Fitting(u)
  OBVIOUS
<1>2. m \in Nat \ {0} /\ w \in Nat \ {0} /\ DOMAIN s = 1..m /\ DOMAIN t = 1..w
  BY Sequence DEF Path
<1>3. /\ Len(u) = m + w
      /\ \A q \in DOMAIN s : u[q] = s[q]
      /\ \A q \in DOMAIN t : u[m + q] = t[q]
  BY Joined DEF Path
<1> HIDE DEF u
<1>4. u[m] = s[m] /\ u[m + 1] = t[1] /\ m \in 1..Len(u) - 1
  <2>1. m \in 1..m /\ 1 \in 1..w /\ m \in 1..(m + w) - 1
    BY <1>2
  <2> QED  BY <1>2, <1>3, <2>1
<1>5. t[1].InputChannels = s[m].OutputChannels
  BY <1>1, <1>4 DEF Fitting
<1> QED  BY <1>5 DEF Path, Gives, Takes

LEMMA CatSeam ==
    ASSUME NEW l1, NEW l2, Whole(l1), Whole(l2), NEW a, NEW b, NEW c, NEW d,
           Path(l1.Elements, a, b), Path(l2.Elements, c, d), l1.Elements # <<>>, l2.Elements # <<>>,
           Consistent(cmsPipelineCat(l1, l2))
    PROVE  b[2] = c[2]
<1>1. PICK l : /\ cmsPipelineCat(l1, l2) = Blessed(l) /\ DOMAIN l = LutFields /\ l.Eval16Fn # "NULL"
               /\ l.Elements = l1.Elements \o l2.Elements
               /\ l1.Elements = <<>> /\ l2.Elements = <<>> => Sized(l, l2.InputChannels, l2.OutputChannels)
  BY CatIs
<1>2. Fitting(l1.Elements \o l2.Elements)
  BY <1>1, BlessedElements DEF Consistent, Fitting
<1> QED  BY <1>2, Seam

\* A joined pipeline leads from where the first does to where the second does.
LEMMA CatReads ==
    ASSUME NEW l1, NEW l2, NEW a, NEW b, NEW c, NEW exact \in BOOLEAN, NEW once, NEW there,
           Reads(l1, a, b, exact, once), Reads(l2, b, c, exact, there), l1 # NULL, l2 # NULL
    PROVE  /\ exact => Consistent(cmsPipelineCat(l1, l2)) /\ cmsPipelineCat(l1, l2) # NULL
           /\ Consistent(cmsPipelineCat(l1, l2)) => Reads(cmsPipelineCat(l1, l2), a, c, exact, TRUE)
<1>1. /\ Whole(l1) /\ Runs(l1, a[1], b[1]) /\ (exact => Leads(l1, a, b))
      /\ Whole(l2) /\ Runs(l2, b[1], c[1]) /\ (exact => Leads(l2, b, c))
  BY DEF Reads
<1>2. ASSUME exact
      PROVE  /\ Whole(cmsPipelineCat(l1, l2)) /\ Leads(cmsPipelineCat(l1, l2), a, c)
             /\ Consistent(cmsPipelineCat(l1, l2)) /\ cmsPipelineCat(l1, l2) # NULL
  <2>1. Path(l1.Elements, a, b) /\ Path(l2.Elements, b, c) /\ Sized(l2, b[2], c[2])
    BY <1>1, <1>2 DEF Leads
  <2> QED  BY <1>1, <2>1, CatLeads
<1>3. ASSUME Consistent(cmsPipelineCat(l1, l2))
      PROVE  Whole(cmsPipelineCat(l1, l2)) /\ Runs(cmsPipelineCat(l1, l2), a[1], c[1])
  BY <1>1, <1>3, CatRuns
<1> QED  BY <1>2, <1>3, NullIsNot DEF Reads

LEMMA CatFirst ==
    ASSUME NEW l1, NEW l2, NEW b, NEW c, NEW exact \in BOOLEAN, NEW there, Whole(l1), l1.Elements = <<>>,
           Reads(l2, b, c, exact, there), l2 # NULL
    PROVE  /\ Consistent(cmsPipelineCat(l1, l2)) /\ cmsPipelineCat(l1, l2) # NULL
           /\ Reads(cmsPipelineCat(l1, l2), b, c, exact, TRUE)
<1>1. Whole(l2) /\ Runs(l2, b[1], c[1]) /\ (exact => Leads(l2, b, c))
  BY DEF Reads
<1>2. PICK l : /\ cmsPipelineCat(l1, l2) = Blessed(l) /\ DOMAIN l = LutFields /\ l.Eval16Fn # "NULL"
               /\ l.Elements = l1.Elements \o l2.Elements
               /\ l1.Elements = <<>> /\ l2.Elements = <<>> => Sized(l, l2.InputChannels, l2.OutputChannels)
  BY <1>1, CatIs
<1>3. PICK a, d : Path(l2.Elements, a, d) /\ a[1] = b[1] /\ d[1] = c[1]
  BY <1>1 DEF Runs
<1>4. Path(l1.Elements, a, a)
  BY PathNone
<1>5. Path(l.Elements, a, d)
  BY <1>2, <1>3, <1>4, PathJoin
<1>6. Whole(Blessed(l)) /\ Blessed(l).Elements = l.Elements
  BY <1>2, <1>5, Blessing
<1>7. Consistent(Blessed(l))
  BY <1>5, <1>6, PathsMeet DEF StagesMeet
<1>8. Runs(Blessed(l), b[1], c[1])
  BY <1>3, <1>5, <1>6 DEF Runs
<1>9. ASSUME exact PROVE Leads(Blessed(l), b, c)
  <2>1. Path(l2.Elements, b, c) /\ Sized(l2, b[2], c[2]) /\ Path(l1.Elements, b, b)
    BY <1>1, <1>9, PathNone DEF Leads
  <2> QED  BY <1>1, <1>2, <2>1, CatLeads
<1> QED  BY <1>2, <1>6, <1>7, <1>8, <1>9, NullIsNot DEF Reads

--------------------
\* The folds of the code, step by step.  A fold is the value, at all the
\* indices, of a function of the sets of indices that is defined by its
\* own values; there is such a function, and it takes an element at a
\* time.

LEMMA Most ==
    ASSUME NEW m \in Nat, NEW t \in SUBSET (1..m), t # {}
    PROVE  Max(t) \in t /\ \A y \in t : Max(t) >= y
<1> DEFINE T == {m - x : x \in t}
<1>1. T \in SUBSET Nat /\ T # {}
  <2>1. \A x \in t : x \in 1..m
    OBVIOUS
  <2>2. \A x \in 1..m : m - x \in Nat
    OBVIOUS
  <2>3. T \in SUBSET Nat
    BY <2>1, <2>2, Zenon
  <2>4. PICK x \in t : TRUE
    OBVIOUS
  <2>5. m - x \in T
    BY <2>4, Zenon
  <2> QED  BY <2>3, <2>5
<1>2. PICK i \in T : \A j \in T : i <= j
  BY <1>1, Least
<1>3. PICK x \in t : i = m - x
  BY <1>2
<1>4. \A y \in t : x >= y
  <2> SUFFICES ASSUME NEW y \in t PROVE x >= y
    OBVIOUS
  <2>1. i <= m - y
    BY <1>2
  <2> QED  BY <1>3, <2>1
<1>5. \E z \in t : \A y \in t : z >= y
  BY <1>4
<1> QED  BY <1>5 DEF Max

LEMMA MostIs ==
    ASSUME NEW m \in Nat, NEW t \in SUBSET (1..m + 1), m + 1 \in t
    PROVE  Max(t) = m + 1
<1> DEFINE k == m + 1
<1>1. k \in Nat /\ t \in SUBSET (1..k) /\ t # {} /\ k \in t
  OBVIOUS
<1> HIDE DEF k
<1>2. Max(t) \in t /\ Max(t) >= k
  BY <1>1, Most
<1>3. Max(t) \in 1..k
  BY <1>1, <1>2
<1>4. Max(t) = k
  BY <1>1, <1>2, <1>3
<1> QED  BY <1>4 DEF k

\* The function that a fold is made of exists, for as many elements as there are.
LEMMA FoldsExist ==
    ASSUME NEW c, NEW base, NEW s, NEW m \in Nat
    PROVE  \E it : Folds(it, c, base, s, 1..m)
<1> DEFINE N == {k \in Nat : \E it : Folds(it, c, base, s, 1..k)}
<1>1. 0 \in N
  <2> DEFINE it == [t \in SUBSET (1..0) |-> base]
  <2>1. \A t \in SUBSET (1..0) : t = {}
    OBVIOUS
  <2>2. Folds(it, c, base, s, 1..0)
    BY <2>1 DEF Folds
  <2> QED  BY <2>2
<1>2. ASSUME NEW k \in N PROVE k + 1 \in N
  <2>1. PICK f : Folds(f, c, base, s, 1..k)
    OBVIOUS
  <2>2. \A t \in SUBSET (1..k) : f[t] = IF t = {} THEN base ELSE Does(c, f[t \ {Max(t)}], s[Max(t)])
    BY <2>1 DEF Folds
  <2> DEFINE g == [t \in SUBSET (1..k + 1) |-> IF k + 1 \in t THEN Does(c, f[t \ {k + 1}], s[k + 1]) ELSE f[t]]
  <2>3. ASSUME NEW t \in SUBSET (1..k + 1)
        PROVE  g[t] = IF t = {} THEN base ELSE Does(c, g[t \ {Max(t)}], s[Max(t)])
    <3>1. CASE k + 1 \in t
      <4>1. Max(t) = k + 1 /\ t # {}
        BY <3>1, MostIs
      <4>2. t \ {k + 1} \in SUBSET (1..k) /\ t \ {k + 1} \in SUBSET (1..k + 1)
        OBVIOUS
      <4>3. g[t \ {k + 1}] = f[t \ {k + 1}]
        BY <4>2
      <4>4. g[t] = Does(c, f[t \ {k + 1}], s[k + 1])
        BY <3>1
      <4> HIDE DEF g
      <4> QED  BY <4>1, <4>3, <4>4
    <3>2. CASE k + 1 \notin t
      <4>0. \A x \in t : x \in 1..k
        <5> SUFFICES ASSUME NEW x \in t PROVE x \in 1..k
          OBVIOUS
        <5>1. x \in 1..k + 1 /\ x # k + 1
          BY <3>2
        <5> QED  BY <5>1
      <4>1. t \in SUBSET (1..k) /\ t \ {Max(t)} \in SUBSET (1..k) /\ t \ {Max(t)} \in SUBSET (1..k + 1) /\ k + 1 \notin t \ {Max(t)}
        BY <3>2, <4>0
      <4>2. g[t] = f[t] /\ g[t \ {Max(t)}] = f[t \ {Max(t)}]
        BY <3>2, <4>1
      <4> HIDE DEF g
      <4> QED  BY <2>2, <4>1, <4>2
    <3> QED  BY <3>1, <3>2
  <2>4. DOMAIN g = SUBSET (1..k + 1) /\ g = [t \in SUBSET (1..k + 1) |-> g[t]]
    OBVIOUS
  <2> HIDE DEF g
  <2>5. [t \in SUBSET (1..k + 1) |-> g[t]] = [t \in SUBSET (1..k + 1) |-> IF t = {} THEN base ELSE Does(c, g[t \ {Max(t)}], s[Max(t)])]
    BY <2>3
  <2>6. Folds(g, c, base, s, 1..k + 1)
    BY <2>4, <2>5 DEF Folds
  <2> QED  BY <2>6
<1>3. N = Nat
  <2>1. N \in SUBSET Nat
    OBVIOUS
  <2> HIDE DEF N
  <2> QED  BY <1>1, <1>2, <2>1, Rising
<1> QED  BY <1>3

LEMMA FoldSteps ==
    ASSUME NEW c, NEW base, NEW s, NEW m \in Nat, NEW it, Folds(it, c, base, s, 1..m)
    PROVE  \E g : Stepping(g, c, base, s, m, it[1..m])
<1> DEFINE g == [k \in 0..m |-> it[1..k]]
<1>0. \A t \in SUBSET (1..m) : it[t] = IF t = {} THEN base ELSE Does(c, it[t \ {Max(t)}], s[Max(t)])
  BY DEF Folds
<1>1. g[0] = base
  <2>1. 1..0 = {} /\ 1..0 \in SUBSET (1..m) /\ g[0] = it[1..0]
    OBVIOUS
  <2> HIDE DEF g
  <2> QED  BY <1>0, <2>1
<1>2. g[m] = it[1..m]
  OBVIOUS
<1>3. ASSUME NEW k \in 1..m PROVE g[k] = Does(c, g[k - 1], s[k])
  <2>1. 1..k \in SUBSET (1..m) /\ 1..k # {} /\ k - 1 \in Nat /\ k - 1 \in 0..m /\ (k - 1) + 1 = k /\ k \in 1..k
    OBVIOUS
  <2>2. Max(1..k) = k
    <3> DEFINE h == k - 1
    <3>1. h \in Nat /\ h + 1 = k
      BY <2>1
    <3> HIDE DEF h
    <3>2. 1..k \in SUBSET (1..h + 1) /\ h + 1 \in 1..k
      BY <3>1
    <3> QED  BY <3>1, <3>2, MostIs
  <2>3. (1..k) \ {k} = 1..k - 1
    OBVIOUS
  <2>4. it[1..k] = Does(c, it[1..k - 1], s[k])
    BY <1>0, <2>1, <2>2, <2>3
  <2>5. g[k] = it[1..k] /\ g[k - 1] = it[1..k - 1]
    BY <2>1
  <2> HIDE DEF g
  <2> QED  BY <2>4, <2>5
<1> HIDE DEF g
<1>4. Stepping(g, c, base, s, m, it[1..m])
  BY <1>1, <1>2, <1>3 DEF Stepping
<1> QED  BY <1>4

\* A fold is taken step by step, from its base.
LEMMA FoldIs ==
    ASSUME NEW c, NEW base, NEW s, IsSeq(s)
    PROVE  /\ \E it : Folds(it, c, base, s, DOMAIN s)
           /\ \A it : Folds(it, c, base, s, DOMAIN s) =>
                  \E g : Stepping(g, c, base, s, Len(s), it[DOMAIN s])
<1> DEFINE m == Len(s)
<1>1. m \in Nat /\ DOMAIN s = 1..m
  BY Sequence
<1> HIDE DEF m
<1>2. \E i : Folds(i, c, base, s, DOMAIN s)
  BY <1>1, FoldsExist
<1>3. ASSUME NEW it, Folds(it, c, base, s, DOMAIN s)
      PROVE  \E g : Stepping(g, c, base, s, m, it[DOMAIN s])
  <2>1. Folds(it, c, base, s, 1..m)
    BY <1>1, <1>3
  <2>2. \E g : Stepping(g, c, base, s, m, it[1..m])
    BY <1>1, <2>1, FoldSteps
  <2> QED  BY <1>1, <2>2
<1> QED  BY <1>2, <1>3 DEF m

--------------------
\* The four folds of linking and of PreOptimize.

\* A stage is taken from a pipeline wherever it is.
LEMMA Remove1Steps ==
    ASSUME NEW s, IsSeq(s), NEW op
    PROVE  \E g : /\ g[0] = <<>> /\ g[Len(s)] = _Remove1Op(s, op)
                  /\ \A k \in 1..Len(s) : g[k] = IF s[k].Implements = op THEN g[k - 1] ELSE Append(g[k - 1], s[k])
<1> DEFINE c == [loop |-> "one", op1 |-> op]
           Body(acc, e) == IF e.Implements = op THEN acc ELSE Append(acc, e)
           G(it) == [t \in SUBSET DOMAIN s |-> IF t = {} THEN <<>> ELSE Body(it[t \ {Max(t)}], s[Max(t)])]
           f == CHOOSE it : it = G(it)
<1>1. _Remove1Op(s, op) = f[DOMAIN s]
  BY DEF _Remove1Op, FoldLeft, MapThenFoldSet
<1>2. ASSUME NEW acc, NEW e PROVE Does(c, acc, e) = Body(acc, e)
  BY DEF Does
<1> HIDE DEF c, Body
<1>3. \A it : Folds(it, c, <<>>, s, DOMAIN s) <=> it = G(it)
  BY <1>2 DEF Folds
<1> HIDE DEF G
<1>4. \E it : it = G(it)
  BY <1>3, FoldIs
<1>5. f = G(f)
  BY <1>4
<1> HIDE DEF f
<1>6. PICK g : Stepping(g, c, <<>>, s, Len(s), f[DOMAIN s])
  <2>1. Folds(f, c, <<>>, s, DOMAIN s)
    BY <1>3, <1>5
  <2> QED  BY <2>1, FoldIs
<1>7. /\ g[0] = <<>> /\ g[Len(s)] = _Remove1Op(s, op)
      /\ \A k \in 1..Len(s) : g[k] = Body(g[k - 1], s[k])
  BY <1>1, <1>2, <1>6 DEF Stepping
<1> QED  BY <1>7 DEF Body

LEMMA Remove2Steps ==
    ASSUME NEW s, IsSeq(s), NEW op1, NEW op2
    PROVE  \E g : /\ g[0] = Unpassed /\ Passed(g[Len(s)]) = _Remove2Op(s, op1, op2)
                  /\ \A k \in 1..Len(s) : g[k] = Does([loop |-> "two", op1 |-> op1, op2 |-> op2], g[k - 1], s[k])
<1> DEFINE c == [loop |-> "two", op1 |-> op1, op2 |-> op2]
           Body(acc, e) == IF acc.last # <<>> /\ acc.last[1].Implements = op1 /\ e.Implements = op2
                           THEN [acc EXCEPT !.last = <<>>]
                           ELSE [acc EXCEPT !.done = Passed(acc), !.last = <<e>>]
           G(it) == [t \in SUBSET DOMAIN s |-> IF t = {} THEN Unpassed ELSE Body(it[t \ {Max(t)}], s[Max(t)])]
           f == CHOOSE it : it = G(it)
<1>1. _Remove2Op(s, op1, op2) = Passed(f[DOMAIN s])
  BY DEF _Remove2Op, FoldLeft, MapThenFoldSet
<1>2. ASSUME NEW acc, NEW e PROVE Does(c, acc, e) = Body(acc, e)
  BY DEF Does
<1> HIDE DEF c, Body
<1>3. \A it : Folds(it, c, Unpassed, s, DOMAIN s) <=> it = G(it)
  BY <1>2 DEF Folds
<1> HIDE DEF G
<1>4. \E it : it = G(it)
  BY <1>3, FoldIs
<1>5. f = G(f)
  BY <1>4
<1> HIDE DEF f
<1>6. PICK g : Stepping(g, c, Unpassed, s, Len(s), f[DOMAIN s])
  <2>1. Folds(f, c, Unpassed, s, DOMAIN s)
    BY <1>3, <1>5
  <2> QED  BY <2>1, FoldIs
<1>7. /\ g[0] = Unpassed /\ Passed(g[Len(s)]) = _Remove2Op(s, op1, op2)
      /\ \A k \in 1..Len(s) : g[k] = Does(c, g[k - 1], s[k])
  BY <1>1, <1>2, <1>6 DEF Stepping
<1> QED  BY <1>7 DEF c

LEMMA MultiplySteps ==
    ASSUME NEW s, IsSeq(s)
    PROVE  \E g : /\ g[0] = Unpassed /\ g[Len(s)] = _MultiplyMatrix(s)
                  /\ \A k \in 1..Len(s) : g[k] = Does([loop |-> "product"], g[k - 1], s[k])
<1> DEFINE c == [loop |-> "product"]
           Body(acc, e) ==
            IF acc.last = <<>> \/ acc.stop \/ acc.last[1].Implements # "Matrix" \/ e.Implements # "Matrix"
            THEN [acc EXCEPT !.done = Passed(acc), !.last = <<e>>]
            ELSE IF ~Simple(acc.last[1]) \/ ~Simple(e)
            THEN [acc EXCEPT !.done = Passed(acc), !.last = <<e>>, !.stop = TRUE]
            ELSE [acc EXCEPT !.last = IF IsIdentity(Product(acc.last[1], e)) THEN <<>>
                                      ELSE <<Product(acc.last[1], e)>>]
           G(it) == [t \in SUBSET DOMAIN s |-> IF t = {} THEN Unpassed ELSE Body(it[t \ {Max(t)}], s[Max(t)])]
           f == CHOOSE it : it = G(it)
<1>1. _MultiplyMatrix(s) = f[DOMAIN s]
  BY DEF _MultiplyMatrix, FoldLeft, MapThenFoldSet
<1>2. ASSUME NEW acc, NEW e PROVE Does(c, acc, e) = Body(acc, e)
  BY DEF Does
<1> HIDE DEF c, Body
<1>3. \A it : Folds(it, c, Unpassed, s, DOMAIN s) <=> it = G(it)
  BY <1>2 DEF Folds
<1> HIDE DEF G
<1>4. \E it : it = G(it)
  BY <1>3, FoldIs
<1>5. f = G(f)
  BY <1>4
<1> HIDE DEF f
<1>6. PICK g : Stepping(g, c, Unpassed, s, Len(s), f[DOMAIN s])
  <2>1. Folds(f, c, Unpassed, s, DOMAIN s)
    BY <1>3, <1>5
  <2> QED  BY <2>1, FoldIs
<1>7. /\ g[0] = Unpassed /\ g[Len(s)] = _MultiplyMatrix(s)
      /\ \A k \in 1..Len(s) : g[k] = Does(c, g[k - 1], s[k])
  BY <1>1, <1>6 DEF Stepping
<1> QED  BY <1>7 DEF c

LEMMA SpaceSteps ==
    ASSUME NEW s, IsSeq(s)
    PROVE  \E g : Visits(g, s)
<1> DEFINE c == [loop |-> "spaces", many |-> Len(s) > 1]
           b == s[1].ColorSpace
           Body(acc, e) ==
            CASE e.DeviceClass = "NamedColor" -> IF Len(s) > 1 THEN e.PCS ELSE e.ColorSpace
              [] e.DeviceClass # "NamedColor" /\ (acc \notin Space \/ e.DeviceClass = "Link") -> e.PCS
              [] OTHER -> e.ColorSpace
           G(it) == [t \in SUBSET DOMAIN s |-> IF t = {} THEN b ELSE Body(it[t \ {Max(t)}], s[Max(t)])]
           f == CHOOSE it : it = G(it)
<1>1. GetXFormColorSpaces(s).Output = f[DOMAIN s]
  BY DEF GetXFormColorSpaces, FoldLeft, MapThenFoldSet
<1>2. ASSUME NEW acc, NEW e PROVE Does(c, acc, e) = Body(acc, e)
  BY DEF Does
<1>8. ASSUME NEW acc, NEW e PROVE After(e, acc, Len(s) > 1) = Body(acc, e)
  BY DEF After
<1> HIDE DEF c, Body
<1>3. \A it : Folds(it, c, b, s, DOMAIN s) <=> it = G(it)
  BY <1>2 DEF Folds
<1> HIDE DEF G
<1>4. \E it : it = G(it)
  BY <1>3, FoldIs
<1>5. f = G(f)
  BY <1>4
<1> HIDE DEF f
<1>6. PICK g : Stepping(g, c, b, s, Len(s), f[DOMAIN s])
  <2>1. Folds(f, c, b, s, DOMAIN s)
    BY <1>3, <1>5
  <2> QED  BY <2>1, FoldIs
<1>7. /\ g[0] = b /\ g[Len(s)] = GetXFormColorSpaces(s).Output
      /\ \A k \in 1..Len(s) : g[k] = After(s[k], g[k - 1], Len(s) > 1)
  BY <1>1, <1>2, <1>6, <1>8 DEF Stepping
<1> QED  BY <1>7 DEF Visits

--------------------
\* The passes of PreOptimize.

LEMMA Stops ==
    ASSUME NEW s, NEW a, NEW b, Path(s, a, b)
    PROVE  /\ IsSeq(s) /\ Len(s) \in Nat /\ DOMAIN s = 1..Len(s)
           /\ Stop(s, a, 0) = a /\ Stop(s, a, Len(s)) = b
           /\ \A k \in 1..Len(s) : /\ Proper(s[k]) /\ Takes(s[k]) = Stop(s, a, k - 1)
                                  /\ Stop(s, a, k) = Gives(s[k])
<1>1. IsSeq(s) /\ Len(s) \in Nat /\ DOMAIN s = 1..Len(s) /\ (s # <<>> <=> Len(s) # 0)
  BY Sequence DEF Path
<1>2. Stop(s, a, 0) = a /\ Stop(s, a, Len(s)) = b
  BY <1>1 DEF Stop, Path
<1>3. ASSUME NEW k \in 1..Len(s)
      PROVE  Proper(s[k]) /\ Takes(s[k]) = Stop(s, a, k - 1) /\ Stop(s, a, k) = Gives(s[k])
  <2>1. Proper(s[k]) /\ Stop(s, a, k) = Gives(s[k])
    BY <1>1, <1>3 DEF Path, Stop
  <2>2. CASE k = 1
    <3>1. Takes(s[1]) = a /\ Stop(s, a, 0) = a
      BY <1>1, <1>2, <1>3 DEF Path
    <3> QED  BY <2>1, <2>2, <3>1
  <2>3. CASE k # 1
    <3> DEFINE j == k - 1
    <3>1. j \in 1..Len(s) - 1 /\ j + 1 = k /\ j # 0 /\ k - 1 = j
      BY <1>1, <1>3, <2>3
    <3> HIDE DEF j
    <3>2. Gives(s[j]) = Takes(s[j + 1])
      BY <3>1 DEF Path
    <3> QED  BY <2>1, <3>1, <3>2 DEF Stop
  <2> QED  BY <2>2, <2>3
<1> QED  BY <1>1, <1>2, <1>3

\* A pass of PreOptimize keeps where a path leads.
LEMMA Remove1Paths ==
    ASSUME NEW s, NEW a, NEW b, Path(s, a, b)
    PROVE  Path(_Remove1Op(s, "Identity"), a, b)
<1> DEFINE m == Len(s)
           kept(k, was, now) == now = IF s[k].Implements = "Identity" THEN was ELSE Append(was, s[k])
<1>1. m \in Nat /\ IsSeq(s) /\ Stop(s, a, 0) = a /\ Stop(s, a, m) = b
  BY Stops
<1>2. \A k \in 1..m : Proper(s[k]) /\ Takes(s[k]) = Stop(s, a, k - 1) /\ Stop(s, a, k) = Gives(s[k])
  BY Stops
<1>3. PICK g : /\ g[0] = <<>> /\ g[m] = _Remove1Op(s, "Identity")
               /\ \A k \in 1..m : g[k] = IF s[k].Implements = "Identity" THEN g[k - 1] ELSE Append(g[k - 1], s[k])
  BY <1>1, Remove1Steps
<1>4. \A k \in 1..m : kept(k, g[k - 1], g[k])
  BY <1>3
<1> HIDE DEF m, kept
<1> DEFINE T == {k \in Nat : k <= m => Path(g[k], a, Stop(s, a, k))}
<1>5. 0 \in T
  BY <1>1, <1>3, PathNone
<1>6. ASSUME NEW j \in T PROVE j + 1 \in T
  <2> DEFINE k == j + 1
  <2>1. j \in Nat /\ k \in Nat
    OBVIOUS
  <2>2. ASSUME k <= m PROVE Path(g[k], a, Stop(s, a, k))
    <3>1. k \in 1..m /\ k - 1 = j /\ j <= m
      BY <1>1, <2>1, <2>2
    <3> HIDE DEF k
    <3>2. Path(g[j], a, Stop(s, a, j))
      BY <3>1
    <3>3. Proper(s[k]) /\ Takes(s[k]) = Stop(s, a, j) /\ Stop(s, a, k) = Gives(s[k]) /\ kept(k, g[j], g[k])
      BY <1>2, <1>4, <3>1
    <3>4. CASE s[k].Implements = "Identity"
      <4>1. Takes(s[k]) = Gives(s[k])
        BY <3>3, <3>4 DEF Proper
      <4>2. g[k] = g[j]
        BY <3>3, <3>4 DEF kept
      <4> QED  BY <3>2, <3>3, <4>1, <4>2
    <3>5. CASE s[k].Implements # "Identity"
      <4>1. g[k] = Append(g[j], s[k])
        BY <3>3, <3>5 DEF kept
      <4> QED  BY <3>2, <3>3, <4>1, PathAppend
    <3> QED  BY <3>4, <3>5
  <2> QED  BY <2>1, <2>2
<1>7. T = Nat
  <2>1. T \in SUBSET Nat
    OBVIOUS
  <2> HIDE DEF T
  <2> QED  BY <1>5, <1>6, <2>1, Rising
<1>8. Path(g[m], a, Stop(s, a, m))
  <2>1. m \in T
    BY <1>1, <1>7
  <2>2. m <= m
    BY <1>1
  <2> QED  BY <2>1, <2>2
<1> QED  BY <1>1, <1>3, <1>8

LEMMA WaitsFirst == ASSUME NEW a PROVE Waiting(Unpassed, a, a)
<1>1. DOMAIN Unpassed = {"done", "last", "stop"} /\ Unpassed.done = <<>> /\ Unpassed.last = <<>>
  BY DEF Unpassed
<1>2. <<>> \o <<>> = <<>>
  OBVIOUS
<1>3. IsSeq(<<>>) /\ Path(<<>>, a, a)
  BY PathNone DEF Path
<1> QED  BY <1>1, <1>2, <1>3 DEF Waiting, Passed

LEMMA PassesOn ==
    ASSUME NEW v, NEW a, NEW c, Waiting(v, a, c), NEW st, Proper(st), Takes(st) = c,
           NEW w, DOMAIN w = {"done", "last", "stop"}, w.done = Passed(v), w.last = <<st>>
    PROVE  Waiting(w, a, Gives(st))
<1>1. Path(Passed(v), a, c)
  BY DEF Waiting
<1>2. Path(Passed(v) \o <<st>>, a, Gives(st))
  <2>1. Path(<<st>>, Takes(st), Gives(st))
    BY PathOne
  <2> QED  BY <1>1, <2>1, PathJoin
<1>3. IsSeq(Passed(v))
  BY <1>1 DEF Path
<1>4. Passed(w) = Passed(v) \o <<st>>
  BY DEF Passed
<1> QED  BY <1>2, <1>3, <1>4 DEF Waiting

\* The stage that waits is where the path ends.
LEMMA WaitsLast ==
    ASSUME NEW v, NEW a, NEW c, Waiting(v, a, c), v.last # <<>>
    PROVE  /\ v.last = <<v.last[1]>> /\ Proper(v.last[1]) /\ Gives(v.last[1]) = c
           /\ Path(v.done, a, Takes(v.last[1]))
<1>1. PICK st : v.last = <<st>>
  BY DEF Waiting
<1>2. v.last[1] = st
  BY <1>1
<1> DEFINE d == v.done
           u == Passed(v)
<1>3. IsSeq(d) /\ IsSeq(<<st>>) /\ u = d \o <<st>> /\ Path(u, a, c)
  BY <1>1, OneStage DEF Waiting, Passed
<1> HIDE DEF d, u
<1>4. PICK b : Path(d, a, b) /\ Path(<<st>>, b, c)
  BY <1>3, PathSplit
<1>5. Proper(st) /\ Takes(st) = b /\ Gives(st) = c
  BY <1>4, PathOfOne
<1> QED  BY <1>1, <1>2, <1>4, <1>5 DEF d

LEMMA Dropped ==
    ASSUME NEW v, NEW a, NEW c, Waiting(v, a, c), v.last # <<>>
    PROVE  Waiting([v EXCEPT !.last = <<>>], a, Takes(v.last[1]))
<1> DEFINE w == [v EXCEPT !.last = <<>>]
           b == Takes(v.last[1])
<1>1. DOMAIN w = {"done", "last", "stop"} /\ w.done = v.done /\ w.last = <<>> /\ IsSeq(v.done)
  BY DEF Waiting
<1>2. Path(v.done, a, b)
  BY WaitsLast
<1> HIDE DEF w, b
<1>3. Path(v.done \o <<>>, a, b)
  BY <1>2, PathNone, PathJoin
<1>4. Waiting(w, a, b)
  BY <1>1, <1>3 DEF Waiting, Passed
<1> QED  BY <1>4 DEF w, b

LEMMA Remove2Paths ==
    ASSUME NEW s, NEW a, NEW b, Path(s, a, b), NEW op1 \in DOMAIN Between, NEW op2 \in DOMAIN Between,
           Between[op1][1] = Between[op2][2]
    PROVE  Path(_Remove2Op(s, op1, op2), a, b)
<1> DEFINE m == Len(s)
           c == [loop |-> "two", op1 |-> op1, op2 |-> op2]
<1>1. m \in Nat /\ IsSeq(s) /\ Stop(s, a, 0) = a /\ Stop(s, a, m) = b
  BY Stops
<1>2. \A k \in 1..m : Proper(s[k]) /\ Takes(s[k]) = Stop(s, a, k - 1) /\ Stop(s, a, k) = Gives(s[k])
  BY Stops
<1>3. PICK g : /\ g[0] = Unpassed /\ Passed(g[m]) = _Remove2Op(s, op1, op2)
               /\ \A k \in 1..m : g[k] = Does(c, g[k - 1], s[k])
  BY <1>1, Remove2Steps
<1>4. ASSUME NEW v, NEW e
      PROVE  Does(c, v, e) = IF v.last # <<>> /\ v.last[1].Implements = op1 /\ e.Implements = op2
                             THEN [v EXCEPT !.last = <<>>]
                             ELSE [v EXCEPT !.done = Passed(v), !.last = <<e>>]
  BY DEF Does
<1> HIDE DEF m, c
<1> DEFINE T == {k \in Nat : k <= m => Waiting(g[k], a, Stop(s, a, k))}
<1>5. 0 \in T
  BY <1>1, <1>3, WaitsFirst
<1>6. ASSUME NEW j \in T PROVE j + 1 \in T
  <2> DEFINE k == j + 1
  <2>1. j \in Nat /\ k \in Nat
    OBVIOUS
  <2>2. ASSUME k <= m PROVE Waiting(g[k], a, Stop(s, a, k))
    <3>1. k \in 1..m /\ k - 1 = j /\ j <= m
      BY <1>1, <2>1, <2>2
    <3> HIDE DEF k
    <3> DEFINE v == g[j]
    <3>2. Waiting(v, a, Stop(s, a, j))
      BY <3>1
    <3>3. Proper(s[k]) /\ Takes(s[k]) = Stop(s, a, j) /\ Stop(s, a, k) = Gives(s[k]) /\ g[k] = Does(c, v, s[k])
      BY <1>2, <1>3, <3>1
    <3> HIDE DEF v
    <3>4. CASE v.last # <<>> /\ v.last[1].Implements = op1 /\ s[k].Implements = op2
      <4>1. Proper(v.last[1]) /\ Gives(v.last[1]) = Stop(s, a, j)
        BY <3>2, <3>4, WaitsLast
      <4>2. Takes(v.last[1]) = Gives(s[k])
        <5>1. Takes(v.last[1]) = <<Between[op1][1], 3>>
          BY <3>4, <4>1 DEF Proper
        <5>2. Gives(s[k]) = <<Between[op2][2], 3>>
          BY <3>3, <3>4 DEF Proper
        <5> QED  BY <5>1, <5>2
      <4>3. g[k] = [v EXCEPT !.last = <<>>]
        BY <1>4, <3>3, <3>4
      <4> QED  BY <3>2, <3>3, <3>4, <4>2, <4>3, Dropped
    <3>5. CASE ~(v.last # <<>> /\ v.last[1].Implements = op1 /\ s[k].Implements = op2)
      <4>1. g[k] = [v EXCEPT !.done = Passed(v), !.last = <<s[k]>>]
        BY <1>4, <3>3, <3>5
      <4>2. DOMAIN v = {"done", "last", "stop"}
        BY <3>2 DEF Waiting
      <4>3. DOMAIN g[k] = {"done", "last", "stop"} /\ g[k].done = Passed(v) /\ g[k].last = <<s[k]>>
        BY <4>1, <4>2
      <4> QED  BY <3>2, <3>3, <4>3, PassesOn
    <3> QED  BY <3>4, <3>5
  <2> QED  BY <2>1, <2>2
<1>7. T = Nat
  <2>1. T \in SUBSET Nat
    OBVIOUS
  <2> HIDE DEF T
  <2> QED  BY <1>5, <1>6, <2>1, Rising
<1>8. Waiting(g[m], a, Stop(s, a, m))
  <2>1. m \in T
    BY <1>1, <1>7
  <2>2. m <= m
    BY <1>1
  <2> QED  BY <2>1, <2>2
<1> QED  BY <1>1, <1>3, <1>8 DEF Waiting

\* Two matrices of three by three numbers go where their product does.
LEMMA ProductGoes ==
    ASSUME NEW m1, NEW m2, Proper(m1), Proper(m2), Gives(m1) = Takes(m2),
           m1.InputChannels = 3, m2.OutputChannels = 3
    PROVE  /\ Proper(Product(m1, m2)) /\ Takes(Product(m1, m2)) = Takes(m1) /\ Gives(Product(m1, m2)) = Gives(m2)
           /\ IsIdentity(Product(m1, m2)) => Takes(m1) = Gives(m2)
<1>1. Goes(Product(m1, m2), m1.from, 3, m2.to, 3)
  BY MatrixAllocated DEF Product
<1>2. Takes(m1) = <<m1.from, 3>> /\ Gives(m2) = <<m2.to, 3>>
  BY DEF Takes, Gives
<1>3. ASSUME IsIdentity(Product(m1, m2)) PROVE m1.from = m2.to
  <2>1. Product(m1, m2).from = Product(m1, m2).to
    BY <1>3 DEF IsIdentity
  <2>2. Product(m1, m2).from = m1.from /\ Product(m1, m2).to = m2.to
    BY <1>1 DEF Goes, Takes, Gives
  <2> QED  BY <2>1, <2>2
<1> QED  BY <1>1, <1>2, <1>3 DEF Goes

LEMMA Multiplied ==
    ASSUME NEW v, NEW a, NEW c, Waiting(v, a, c), NEW st, Proper(st), Takes(st) = c
    PROVE  Waiting(Does([loop |-> "product"], v, st), a, Gives(st))
<1> DEFINE w == Does([loop |-> "product"], v, st)
           m1 == v.last[1]
           m == Product(m1, st)
<1>1. w = IF v.last = <<>> \/ v.stop \/ m1.Implements # "Matrix" \/ st.Implements # "Matrix"
          THEN [v EXCEPT !.done = Passed(v), !.last = <<st>>]
          ELSE IF ~Simple(m1) \/ ~Simple(st)
          THEN [v EXCEPT !.done = Passed(v), !.last = <<st>>, !.stop = TRUE]
          ELSE [v EXCEPT !.last = IF IsIdentity(m) THEN <<>> ELSE <<m>>]
  BY DEF Does
<1> SUFFICES Waiting(w, a, Gives(st))
  OBVIOUS
<1> HIDE DEF w, m, m1
<1>0. DOMAIN v = {"done", "last", "stop"}
  BY DEF Waiting
<1>2. CASE w = [v EXCEPT !.done = Passed(v), !.last = <<st>>]
  <2>1. DOMAIN w = {"done", "last", "stop"} /\ w.done = Passed(v) /\ w.last = <<st>>
    BY <1>0, <1>2
  <2> QED  BY <2>1, PassesOn
<1>3. CASE w = [v EXCEPT !.done = Passed(v), !.last = <<st>>, !.stop = TRUE]
  <2>1. DOMAIN w = {"done", "last", "stop"} /\ w.done = Passed(v) /\ w.last = <<st>>
    BY <1>0, <1>3
  <2> QED  BY <2>1, PassesOn
<1>4. CASE v.last # <<>> /\ Simple(m1) /\ Simple(st) /\ w = [v EXCEPT !.last = IF IsIdentity(m) THEN <<>> ELSE <<m>>]
  <2>1. Proper(m1) /\ Gives(m1) = c /\ Path(v.done, a, Takes(m1))
    BY <1>4, WaitsLast DEF m1
  <2>2. Proper(m) /\ Takes(m) = Takes(m1) /\ Gives(m) = Gives(st) /\ (IsIdentity(m) => Takes(m1) = Gives(st))
    BY <1>4, <2>1, ProductGoes DEF Simple, m
  <2>3. CASE IsIdentity(m)
    <3>1. w = [v EXCEPT !.last = <<>>]
      BY <1>4, <2>3
    <3>2. Waiting(w, a, Takes(m1))
      BY <1>4, <3>1, Dropped DEF m1
    <3> QED  BY <2>2, <2>3, <3>2
  <2>4. CASE ~IsIdentity(m)
    <3>1. w = [v EXCEPT !.last = <<m>>]
      BY <1>4, <2>4
    <3>2. DOMAIN w = {"done", "last", "stop"} /\ w.done = v.done /\ w.last = <<m>> /\ IsSeq(w.done)
      BY <3>1 DEF Waiting
    <3>3. Path(v.done \o <<m>>, a, Gives(st))
      <4>1. Path(<<m>>, Takes(m1), Gives(st))
        BY <2>2, PathOne
      <4> QED  BY <2>1, <4>1, PathJoin
    <3> QED  BY <3>2, <3>3 DEF Waiting, Passed
  <2> QED  BY <2>3, <2>4
<1> QED  BY <1>1, <1>2, <1>3, <1>4

LEMMA MultiplyPaths ==
    ASSUME NEW s, NEW a, NEW b, Path(s, a, b)
    PROVE  Path(Passed(_MultiplyMatrix(s)), a, b)
<1> DEFINE m == Len(s)
<1>1. m \in Nat /\ IsSeq(s) /\ Stop(s, a, 0) = a /\ Stop(s, a, m) = b
  BY Stops
<1>2. \A k \in 1..m : Proper(s[k]) /\ Takes(s[k]) = Stop(s, a, k - 1) /\ Stop(s, a, k) = Gives(s[k])
  BY Stops
<1>3. PICK g : /\ g[0] = Unpassed /\ g[m] = _MultiplyMatrix(s)
               /\ \A k \in 1..m : g[k] = Does([loop |-> "product"], g[k - 1], s[k])
  BY <1>1, MultiplySteps
<1> HIDE DEF m
<1> DEFINE T == {k \in Nat : k <= m => Waiting(g[k], a, Stop(s, a, k))}
<1>5. 0 \in T
  BY <1>1, <1>3, WaitsFirst
<1>6. ASSUME NEW j \in T PROVE j + 1 \in T
  <2> DEFINE k == j + 1
  <2>1. j \in Nat /\ k \in Nat
    OBVIOUS
  <2>2. ASSUME k <= m PROVE Waiting(g[k], a, Stop(s, a, k))
    <3>1. k \in 1..m /\ k - 1 = j /\ j <= m
      BY <1>1, <2>1, <2>2
    <3> HIDE DEF k
    <3>2. Waiting(g[j], a, Stop(s, a, j))
      BY <3>1
    <3>3. Proper(s[k]) /\ Takes(s[k]) = Stop(s, a, j) /\ Stop(s, a, k) = Gives(s[k])
      BY <1>2, <3>1
    <3>4. g[k] = Does([loop |-> "product"], g[j], s[k])
      BY <1>3, <3>1
    <3> QED  BY <3>2, <3>3, <3>4, Multiplied
  <2> QED  BY <2>1, <2>2
<1>7. T = Nat
  <2>1. T \in SUBSET Nat
    OBVIOUS
  <2> HIDE DEF T
  <2> QED  BY <1>5, <1>6, <2>1, Rising
<1>8. Waiting(g[m], a, Stop(s, a, m))
  <2>1. m \in T
    BY <1>1, <1>7
  <2>2. m <= m
    BY <1>1
  <2> QED  BY <2>1, <2>2
<1> QED  BY <1>1, <1>3, <1>8 DEF Waiting

\* A pipeline whose stages lead between the ports is whole if it has their channels.
LEMMA WholeOf ==
    ASSUME NEW l, DOMAIN l = LutFields, l.Eval16Fn # "NULL", NEW a, NEW b, Leads(l, a, b)
    PROVE  Whole(l)
<1>1. IsSeq(l.Elements) /\ Sized(l, a[2], b[2])
  BY DEF Leads, Path
<1>2. ASSUME l.Elements # <<>> PROVE Sized(l, l.Elements[1].InputChannels, l.Elements[Len(l.Elements)].OutputChannels)
  <2>1. Takes(l.Elements[1]) = a /\ Gives(l.Elements[Len(l.Elements)]) = b
    BY <1>2 DEF Leads, Path
  <2> QED  BY <1>1, <2>1 DEF Takes, Gives, Sized
<1> QED  BY <1>1, <1>2 DEF Whole

LEMMA PairsFit ==
    /\ Passes = 8
    /\ \A k \in 1..6 : /\ Pairs[k][1] \in DOMAIN Between /\ Pairs[k][2] \in DOMAIN Between
                       /\ Between[Pairs[k][1]][1] = Between[Pairs[k][2]][2]
<1>1. Len(Pairs) = 6
  BY DEF Pairs
<1>2. ASSUME NEW k \in 1..6
      PROVE  /\ Pairs[k][1] \in DOMAIN Between /\ Pairs[k][2] \in DOMAIN Between
             /\ Between[Pairs[k][1]][1] = Between[Pairs[k][2]][2]
  <2>1. k = 1 \/ k = 2 \/ k = 3 \/ k = 4 \/ k = 5 \/ k = 6
    OBVIOUS
  <2> QED  BY <2>1 DEF Pairs, Between
<1> QED  BY <1>1, <1>2 DEF Passes

\* All the passes of PreOptimize keep it.
LEMMA PreoptimisedLeads ==
    ASSUME NEW l, Whole(l), NEW a, NEW b, Leads(l, a, b), NEW pass \in 1..Passes
    PROVE  Whole(Preoptimised(l, pass).lut) /\ Leads(Preoptimised(l, pass).lut, a, b)
<1> DEFINE was == l.Elements
           now == CASE pass = 1 -> _Remove1Op(was, "Identity")
                    [] pass \in 2..Passes - 1 -> _Remove2Op(was, Pairs[pass - 1][1], Pairs[pass - 1][2])
                    [] pass = Passes -> Passed(_MultiplyMatrix(was))
           m == [l EXCEPT !.Elements = now]
<1>1. Preoptimised(l, pass).lut = m
  BY DEF Preoptimised
<1>2. Path(was, a, b)
  BY DEF Leads
<1>3. Path(now, a, b)
  <2>1. CASE pass = 1
    <3>1. now = _Remove1Op(was, "Identity")
      BY <2>1, PairsFit
    <3> QED  BY <1>2, <3>1, Remove1Paths
  <2>2. CASE pass \in 2..7
    <3>1. now = _Remove2Op(was, Pairs[pass - 1][1], Pairs[pass - 1][2])
      BY <2>2, PairsFit
    <3> DEFINE k == pass - 1
    <3>2. k \in 1..6
      BY <2>2
    <3> HIDE DEF was, now
    <3>3. now = _Remove2Op(was, Pairs[k][1], Pairs[k][2])
      BY <3>1
    <3> HIDE DEF k
    <3>4. Path(_Remove2Op(was, Pairs[k][1], Pairs[k][2]), a, b)
      BY <1>2, <3>2, PairsFit, Remove2Paths
    <3> QED  BY <3>3, <3>4
  <2>3. CASE pass = 8
    <3>1. now = Passed(_MultiplyMatrix(was))
      BY <2>3, PairsFit
    <3> QED  BY <1>2, <3>1, MultiplyPaths
  <2> QED  BY <2>1, <2>2, <2>3, PairsFit
<1> HIDE DEF now
<1>4. DOMAIN l = LutFields /\ l.Eval16Fn # "NULL" /\ Sized(l, a[2], b[2])
  BY DEF Whole, Leads
<1>5. DOMAIN m = LutFields /\ m.Elements = now /\ m.Eval16Fn = l.Eval16Fn /\ Sized(m, a[2], b[2])
  BY <1>4 DEF LutFields, Sized
<1> HIDE DEF m
<1>6. Leads(m, a, b)
  BY <1>3, <1>5 DEF Leads
<1>7. Whole(m)
  BY <1>4, <1>5, <1>6, WholeOf
<1> QED  BY <1>1, <1>6, <1>7

--------------------
\* The optimisations.

LEMMA FineStill ==
    ASSUME NEW l, NEW a, NEW b, Fine(l, a, b), NEW m, DOMAIN m = LutFields, m.Elements = l.Elements, m.Eval16Fn # "NULL",
           m.InputChannels = l.InputChannels, m.OutputChannels = l.OutputChannels
    PROVE  Fine(m, a, b)
  BY Revalued DEF Fine

LEMMA FineIdentity == \A l, a, b : Fine(l, a, b) => Fine(FastIdentity(l), a, b)
<1> SUFFICES ASSUME NEW l, NEW a, NEW b, Fine(l, a, b) PROVE Fine(FastIdentity(l), a, b)
  OBVIOUS
<1> DEFINE m == FastIdentity(l)
<1>1. DOMAIN l = LutFields
  BY DEF Fine, Whole
<1>2. /\ DOMAIN m = LutFields /\ m.Elements = l.Elements /\ m.Eval16Fn # "NULL"
      /\ m.InputChannels = l.InputChannels /\ m.OutputChannels = l.OutputChannels
  BY <1>1 DEF FastIdentity, LutFields
<1> HIDE DEF m
<1>3. Fine(m, a, b)
  BY <1>2, FineStill
<1> QED  BY <1>3 DEF m

LEMMA FineSet ==
    ASSUME NEW l, NEW a, NEW b, Fine(l, a, b), NEW fn, fn # "NULL", NEW word, NEW kind
    PROVE  Fine(_cmsPipelineSetOptimizationParameters(l, fn, word, kind), a, b)
<1> DEFINE m == _cmsPipelineSetOptimizationParameters(l, fn, word, kind)
<1>1. DOMAIN l = LutFields
  BY DEF Fine, Whole
<1>2. /\ DOMAIN m = LutFields /\ m.Elements = l.Elements /\ m.Eval16Fn # "NULL"
      /\ m.InputChannels = l.InputChannels /\ m.OutputChannels = l.OutputChannels
  BY <1>1 DEF _cmsPipelineSetOptimizationParameters, LutFields
<1> HIDE DEF m
<1>3. Fine(m, a, b)
  BY <1>2, FineStill
<1> QED  BY <1>3 DEF m

LEMMA FirstFine ==
    ASSUME NEW i, NEW o, NEW st, Proper(st)
    PROVE  Fine(cmsPipelineInsertStage(cmsPipelineAlloc(i, o), AT_BEGIN, st), Takes(st), Gives(st))
<1> DEFINE l == cmsPipelineAlloc(i, o)
<1>1. Whole(l) /\ l.Elements = <<>>
  BY Alloc
<1> HIDE DEF l
<1>2. Path(l.Elements, Gives(st), Gives(st))
  BY <1>1, PathNone
<1>3. /\ Whole(Begin(l, st)) /\ Leads(Begin(l, st), Takes(st), Gives(st))
      /\ Begin(l, st) = cmsPipelineInsertStage(l, AT_BEGIN, st)
  BY <1>1, <1>2, BeginLeads
<1> QED  BY <1>3 DEF Fine, l

LEMMA NextFine ==
    ASSUME NEW l, NEW a, NEW b, Fine(l, a, b), NEW st, Proper(st), Takes(st) = b
    PROVE  Fine(cmsPipelineInsertStage(l, AT_END, st), a, Gives(st))
<1>1. Whole(l) /\ Path(l.Elements, a, b)
  BY DEF Fine, Leads
<1>2. /\ Whole(End(l, st)) /\ Leads(End(l, st), a, Gives(st))
      /\ End(l, st) = cmsPipelineInsertStage(l, AT_END, st)
  BY <1>1, EndLeads
<1> QED  BY <1>2 DEF Fine

\* Where a pipeline with stages begins and ends.
LEMMA EndsAre ==
    ASSUME NEW l, NEW a, NEW b, Fine(l, a, b), l.Elements # <<>>
    PROVE  /\ a = <<Ends(l).from, l.InputChannels>> /\ b = <<Ends(l).to, l.OutputChannels>>
           /\ Takes(l.Elements[1]) = a /\ Gives(Last(l.Elements)) = b
<1>1. Takes(l.Elements[1]) = a /\ Gives(l.Elements[Len(l.Elements)]) = b /\ Sized(l, a[2], b[2])
  BY DEF Fine, Leads, Path
<1> QED  BY <1>1 DEF Ends, Takes, Gives, Sized, Last

\* Curves do not change how many channels there are.
LEMMA CurvesKeep ==
    ASSUME NEW s, NEW a, NEW b, Path(s, a, b), \A k \in DOMAIN s : s[k].Type = "Curves"
    PROVE  a[2] = b[2]
<1> DEFINE m == Len(s)
<1>1. m \in Nat /\ DOMAIN s = 1..m /\ Stop(s, a, 0) = a /\ Stop(s, a, m) = b
  BY Stops
<1>2. \A k \in 1..m : Proper(s[k]) /\ Takes(s[k]) = Stop(s, a, k - 1) /\ Stop(s, a, k) = Gives(s[k])
  BY Stops
<1> HIDE DEF m
<1> DEFINE T == {k \in Nat : k <= m => Stop(s, a, k)[2] = a[2]}
<1>3. 0 \in T
  BY <1>1
<1>4. ASSUME NEW j \in T PROVE j + 1 \in T
  <2> DEFINE k == j + 1
  <2>1. j \in Nat /\ k \in Nat
    OBVIOUS
  <2>2. ASSUME k <= m PROVE Stop(s, a, k)[2] = a[2]
    <3>1. k \in 1..m /\ k - 1 = j /\ j <= m
      BY <1>1, <2>1, <2>2
    <3> HIDE DEF k
    <3>2. Stop(s, a, j)[2] = a[2]
      BY <3>1
    <3>3. Proper(s[k]) /\ Takes(s[k]) = Stop(s, a, j) /\ Stop(s, a, k) = Gives(s[k]) /\ s[k].Type = "Curves"
      BY <1>1, <1>2, <3>1
    <3>4. Takes(s[k])[2] = Gives(s[k])[2]
      BY <3>3 DEF Proper, Takes, Gives
    <3> QED  BY <3>2, <3>3, <3>4
  <2> QED  BY <2>1, <2>2
<1>5. T = Nat
  <2>1. T \in SUBSET Nat
    OBVIOUS
  <2> HIDE DEF T
  <2> QED  BY <1>3, <1>4, <2>1, Rising
<1>6. Stop(s, a, m)[2] = a[2]
  <2>1. m \in T /\ m <= m
    BY <1>1, <1>5
  <2> QED  BY <2>1
<1> QED  BY <1>1, <1>6

\* Each optimisation keeps where a pipeline leads.
LEMMA JoiningFine ==
    ASSUME NEW l, NEW a, NEW b, Fine(l, a, b), l.Elements # <<>>, NEW in, NEW out,
           OptimizeByJoiningCurves(l, in, out).ok
    PROVE  Fine(OptimizeByJoiningCurves(l, in, out).lut, a, b)
<1> DEFINE m == l.InputChannels
           x == Ends(l).from
           y == Ends(l).to
           joined == cmsStageAllocToneCurves(m, x, y, Word(l))
           dest == cmsPipelineAlloc(m, l.OutputChannels)
           id == cmsStageAllocIdentity(m, x)
           fn == IF _cmsFormatterIs8bit(in) THEN "FastEvaluateCurves8" ELSE "FastEvaluateCurves16"
<1>1. /\ \A k \in DOMAIN l.Elements : l.Elements[k].Type = "Curves"
      /\ OptimizeByJoiningCurves(l, in, out).lut =
            IF AllCurvesAreLinear(joined) THEN FastIdentity(cmsPipelineInsertStage(dest, AT_BEGIN, id))
            ELSE _cmsPipelineSetOptimizationParameters(cmsPipelineInsertStage(dest, AT_BEGIN, joined),
                     fn, joined.word, "duplicated")
  BY DEF OptimizeByJoiningCurves, Refused, Optimised
<1>2. a = <<x, m>> /\ b = <<y, m>>
  <2>1. a = <<x, m>> /\ b = <<y, l.OutputChannels>>
    BY EndsAre
  <2>2. a[2] = b[2]
    BY <1>1, CurvesKeep DEF Fine, Leads
  <2> QED  BY <2>1, <2>2
<1>3. Goes(joined, x, m, y, m) /\ Goes(id, x, m, x, m)
  BY Allocated, IdentityAllocated
<1>4. Fine(cmsPipelineInsertStage(dest, AT_BEGIN, joined), a, b)
  <2> HIDE DEF joined
  <2>1. Proper(joined) /\ Takes(joined) = a /\ Gives(joined) = b
    BY <1>2, <1>3 DEF Goes
  <2> QED  BY <2>1, FirstFine
<1>5. Fine(cmsPipelineInsertStage(dest, AT_BEGIN, id), a, a)
  <2> HIDE DEF id
  <2>1. Proper(id) /\ Takes(id) = a /\ Gives(id) = a
    BY <1>2, <1>3 DEF Goes
  <2> QED  BY <2>1, FirstFine
<1>6. fn # "NULL"
  OBVIOUS
<1>7. ASSUME AllCurvesAreLinear(joined) PROVE x = y
  <2>1. joined.from = joined.to
    BY <1>7 DEF AllCurvesAreLinear, IsIdentity
  <2>2. joined.from = x /\ joined.to = y
    BY <1>3 DEF Goes, Takes, Gives
  <2> QED  BY <2>1, <2>2
<1> DEFINE c1 == cmsPipelineInsertStage(dest, AT_BEGIN, joined)
           c2 == cmsPipelineInsertStage(dest, AT_BEGIN, id)
           w == joined.word
<1>8. Fine(c1, a, b) /\ Fine(c2, a, a)
  BY <1>4, <1>5
<1>9. OptimizeByJoiningCurves(l, in, out).lut =
        IF AllCurvesAreLinear(joined) THEN FastIdentity(c2)
        ELSE _cmsPipelineSetOptimizationParameters(c1, fn, w, "duplicated")
  BY <1>1
<1> HIDE DEF c1, c2, w, fn, joined, x, y, m
<1>10. CASE AllCurvesAreLinear(joined)
  <2>1. a = b
    BY <1>2, <1>7, <1>10
  <2> QED  BY <1>8, <1>9, <1>10, <2>1, FineIdentity
<1>11. CASE ~AllCurvesAreLinear(joined)
  BY <1>6, <1>8, <1>9, <1>11, FineSet
<1> QED  BY <1>10, <1>11

LEMMA ShaperFine ==
    ASSUME NEW l, NEW a, NEW b, Fine(l, a, b), NEW in, NEW out,
           OptimizeMatrixShaper(l, in, out).ok
    PROVE  Fine(OptimizeMatrixShaper(l, in, out).lut, a, b)
<1> DEFINE s == l.Elements
           m == Len(s)
           four == cmsPipelineCheckAndRetreiveStages(l, <<"Curves", "Matrix", "Matrix", "Curves">>)
           three == cmsPipelineCheckAndRetreiveStages(l, <<"Curves", "Matrix", "Curves">>)
           curve1 == s[1]
           first == s[2]
           last == s[m - 1]
           curve2 == s[m]
           res == [Product(first, last) EXCEPT !.Offset = last.Offset,
                       !.word = IF four THEN @ ELSE first.word]
           begun == cmsPipelineInsertStage(cmsPipelineAlloc(3, 3), AT_BEGIN, curve1)
           whole == cmsPipelineInsertStage(cmsPipelineInsertStage(begun, AT_END, res), AT_END, curve2)
           joined == cmsPipelineInsertStage(begun, AT_END, curve2)
           lut == OptimizeMatrixShaper(l, in, out).lut
<1> DEFINE all == OptimizeMatrixShaper(l, in, out)
           some == cmsChannelsOfColorSpace[in.space] = 3 /\ cmsChannelsOfColorSpace[out.space] = 3
                   /\ _cmsFormatterIs8bit(in) /\ (four \/ three)
           odd == {first.InputChannels, first.OutputChannels, last.InputChannels, last.OutputChannels} # {3}
                  \/ (four /\ first.Offset)
           w == curve1.word \o res.word \o curve2.word
           set == _cmsPipelineSetOptimizationParameters(whole, "MatShaperEval16", w, "duplicated")
           again == OptimizeByJoiningCurves(joined, in, out)
<1>0. all = IF ~some THEN Refused ELSE IF odd THEN Refused
            ELSE IF IsIdentity(res) THEN IF again.ok THEN again ELSE Optimised(joined, {})
            ELSE Optimised(set, {"NOCACHE"})
  BY DEF OptimizeMatrixShaper
<1>1. /\ four \/ three
      /\ {first.InputChannels, first.OutputChannels, last.InputChannels, last.OutputChannels} = {3}
      /\ lut = IF IsIdentity(res) THEN IF again.ok THEN again.lut ELSE joined ELSE set
  <2>1. some => four \/ three
    OBVIOUS
  <2>2. ~odd => {first.InputChannels, first.OutputChannels, last.InputChannels, last.OutputChannels} = {3}
    OBVIOUS
  <2>3. all.ok /\ lut = all.lut
    OBVIOUS
  <2> HIDE DEF all, some, odd, set, again, joined, res, lut
  <2>4. some /\ ~odd
    BY <1>0, <2>3 DEF Refused
  <2>5. lut = IF IsIdentity(res) THEN IF again.ok THEN again.lut ELSE joined ELSE set
    BY <1>0, <2>3, <2>4 DEF Optimised
  <2> QED  BY <2>1, <2>2, <2>4, <2>5
<1> HIDE DEF all, some, odd, set, again
<1>2. m = 4 \/ m = 3
  BY <1>1 DEF cmsPipelineCheckAndRetreiveStages
<1>3. Path(s, a, b) /\ Stop(s, a, 0) = a /\ Stop(s, a, m) = b
  BY Stops DEF Fine, Leads
<1>4. \A k \in 1..m : Proper(s[k]) /\ Takes(s[k]) = Stop(s, a, k - 1) /\ Stop(s, a, k) = Gives(s[k])
  BY <1>3, Stops
<1> HIDE DEF s, m, four, three, lut
<1>5. /\ Proper(curve1) /\ Proper(curve2) /\ Proper(first) /\ Proper(last)
      /\ Takes(curve1) = a /\ Gives(curve1) = Takes(first) /\ Gives(last) = Takes(curve2) /\ Gives(curve2) = b
  <2>1. 1 \in 1..m /\ 2 \in 1..m /\ m - 1 \in 1..m /\ m \in 1..m /\ 1 - 1 = 0 /\ 2 - 1 = 1
    BY <1>2
  <2> QED  BY <1>3, <1>4, <2>1
<1> DEFINE x == first.from
           y == last.to
<1>6. Takes(first) = <<x, 3>> /\ Gives(last) = <<y, 3>>
  BY <1>1 DEF Takes, Gives
<1>7. Goes(res, x, 3, y, 3) /\ res.from = x /\ res.to = y
  <2> DEFINE q == Product(first, last)
  <2>1. Goes(q, x, 3, y, 3)
    BY MatrixAllocated DEF Product
  <2>2. q.Type = "Matrix" /\ q.Implements = "Matrix"
    BY DEF Product, cmsStageAllocMatrix, _cmsStageAllocPlaceholder
  <2>3. res = [q EXCEPT !.Offset = last.Offset, !.word = IF four THEN @ ELSE first.word]
    OBVIOUS
  <2> HIDE DEF q, res
  <2>4. DOMAIN q = StageFields
    BY <2>1 DEF Goes, Proper
  <2>5. /\ DOMAIN res = StageFields /\ res.Type = "Matrix" /\ res.Implements = "Matrix" /\ res.from = q.from /\ res.to = q.to
        /\ res.InputChannels = q.InputChannels /\ res.OutputChannels = q.OutputChannels
    BY <2>2, <2>3, <2>4 DEF StageFields
  <2>6. "Matrix" \notin DOMAIN Between
    BY BetweenIs
  <2>7. Proper(res)
    BY <2>5, <2>6 DEF Proper
  <2> QED  BY <2>1, <2>5, <2>7 DEF Goes, Takes, Gives
<1> HIDE DEF res
<1>8. Proper(res) /\ Takes(res) = Gives(curve1) /\ Gives(res) = Takes(curve2)
  BY <1>5, <1>6, <1>7 DEF Goes
<1>9. Fine(begun, a, Gives(curve1))
  <2> HIDE DEF curve1
  <2> QED  BY <1>5, FirstFine
<1> HIDE DEF begun, curve1, curve2, first, last
<1>10. Fine(whole, a, b)
  <2>1. Fine(cmsPipelineInsertStage(begun, AT_END, res), a, Gives(res))
    BY <1>8, <1>9, NextFine
  <2> QED  BY <1>5, <1>8, <2>1, NextFine
<1>11. CASE IsIdentity(res)
  <2>1. x = y
    BY <1>7, <1>11 DEF IsIdentity
  <2>2. Gives(curve1) = Takes(curve2)
    BY <1>5, <1>6, <2>1
  <2>3. Fine(joined, a, b)
    BY <1>5, <1>9, <2>2, NextFine
  <2>4. joined.Elements # <<>>
    <3>1. DOMAIN begun = LutFields /\ IsSeq(begun.Elements)
      BY <1>9 DEF Fine, Whole
    <3> DEFINE u == [begun EXCEPT !.Elements = IF AT_END = AT_BEGIN THEN <<curve2>> \o @ ELSE Append(@, curve2)]
    <3>2. joined = Blessed(u)
      BY DEF cmsPipelineInsertStage
    <3>3. DOMAIN u = LutFields /\ u.Elements = Append(begun.Elements, curve2)
      BY <3>1 DEF LutFields, AT_END, AT_BEGIN
    <3> HIDE DEF u
    <3>4. joined.Elements = Append(begun.Elements, curve2)
      BY <3>2, <3>3, BlessedElements
    <3>5. Append(begun.Elements, curve2) # <<>>
      <4> DEFINE e == begun.Elements
      <4>1. IsSeq(e) /\ IsSeq(<<curve2>>) /\ <<curve2>> # <<>>
        BY <3>1, OneStage
      <4> HIDE DEF e
      <4>2. Append(e, curve2) = e \o <<curve2>>
        BY <4>1, Appended1
      <4>3. e \o <<curve2>> # <<>>
        BY <4>1, JoinedNone
      <4> QED  BY <4>2, <4>3 DEF e
    <3> QED  BY <3>4, <3>5
  <2> HIDE DEF joined
  <2>5. CASE OptimizeByJoiningCurves(joined, in, out).ok
    <3>1. Fine(OptimizeByJoiningCurves(joined, in, out).lut, a, b)
      BY <2>3, <2>4, <2>5, JoiningFine
    <3> QED  BY <1>1, <1>11, <2>5, <3>1 DEF lut, again
  <2>6. CASE ~OptimizeByJoiningCurves(joined, in, out).ok
    BY <1>1, <1>11, <2>3, <2>6 DEF lut, again
  <2> QED  BY <2>5, <2>6
<1>12. CASE ~IsIdentity(res)
  <2> HIDE DEF whole
  <2> HIDE DEF w
  <2>1. lut = set
    BY <1>1, <1>12
  <2>2. Fine(set, a, b)
    BY <1>10, FineSet DEF set
  <2> QED  BY <2>1, <2>2 DEF lut
<1> QED  BY <1>11, <1>12

LEMMA WhiteFine ==
    ASSUME NEW l, NEW a, NEW b, Fine(l, a, b)
    PROVE  Fine(FixWhiteMisalignment(l).lut, a, b)
<1> DEFINE s == l.Elements
           m == Len(s)
           st(k) == [s[k] EXCEPT !.white = l.Elements[k].Type = "CLut"]
           e == [k \in DOMAIN s |-> st(k)]
           u == FixWhiteMisalignment(l).lut
<1>1. DOMAIN l = LutFields /\ Path(s, a, b) /\ m \in Nat /\ DOMAIN s = 1..m /\ (s = <<>> <=> m = 0)
  BY Stops, Sequence DEF Fine, Whole, Leads
<1>2. u = [l EXCEPT !.Elements = e]
  BY DEF FixWhiteMisalignment
<1>3. ASSUME NEW k \in 1..m PROVE Proper(st(k)) /\ Takes(st(k)) = Takes(s[k]) /\ Gives(st(k)) = Gives(s[k])
  <2> DEFINE w == l.Elements[k].Type = "CLut"
             v == [s[k] EXCEPT !.white = w]
  <2>1. Proper(s[k])
    BY <1>1 DEF Path
  <2> HIDE DEF w, s
  <2>2. DOMAIN v = StageFields /\ \A f \in StageFields \ {"white"} : v[f] = s[k][f]
    BY <2>1 DEF Proper
  <2> HIDE DEF v
  <2>3. v.Type = s[k].Type /\ v.Implements = s[k].Implements /\ v.InputChannels = s[k].InputChannels
        /\ v.OutputChannels = s[k].OutputChannels /\ v.from = s[k].from /\ v.to = s[k].to
    BY <2>2 DEF StageFields
  <2>4. Takes(v) = Takes(s[k]) /\ Gives(v) = Gives(s[k])
    BY <2>3 DEF Takes, Gives
  <2>5. Proper(v)
    BY <2>1, <2>2, <2>3, <2>4 DEF Proper
  <2> QED  BY <2>4, <2>5 DEF v, w, s
<1>5. IsSeq(e) /\ Len(e) = m /\ DOMAIN e = 1..m /\ \A k \in 1..m : e[k] = st(k)
  <2> DEFINE S == {st(k) : k \in 1..m}
  <2> HIDE DEF st
  <2>1. DOMAIN e = 1..m /\ \A k \in 1..m : e[k] = st(k)
    BY <1>1, Zenon
  <2>2. e = [k \in 1..m |-> e[k]]
    BY <2>1, <1>1, Zenon
  <2> HIDE DEF e
  <2>3. \A k \in 1..m : e[k] \in S
    BY <2>1
  <2>4. e \in Seq(S)
    BY <1>1, <2>2, <2>3
  <2>5. IsSeq(e)
    BY <2>4, OfItsElements
  <2>6. Len(e) = m
    BY <1>1, <2>1, <2>4
  <2> QED  BY <2>1, <2>5, <2>6
<1> HIDE DEF e, s, m, st
<1>6. Path(e, a, b)
  <2>1. \A k \in DOMAIN e : Proper(e[k])
    BY <1>3, <1>5
  <2>2. ASSUME NEW k \in 1..Len(e) - 1 PROVE Gives(e[k]) = Takes(e[k + 1])
    <3>1. k \in 1..m /\ k + 1 \in 1..m /\ k \in 1..Len(s) - 1
      BY <1>1, <1>5 DEF m
    <3>2. Gives(s[k]) = Takes(s[k + 1])
      BY <1>1, <3>1 DEF Path
    <3> QED  BY <1>3, <1>5, <3>1, <3>2
  <2>3. CASE m = 0
    <3>1. e = <<>> /\ a = b
      <4>1. e = <<>>
        BY <1>5, <2>3, Sequence
      <4> QED  BY <1>1, <2>3, <4>1 DEF Path
    <3> QED  BY <1>5, <3>1, PathNone
  <2>4. CASE m # 0
    <3>1. 1 \in 1..m /\ m \in 1..m
      BY <1>1, <2>4
    <3>2. Takes(s[1]) = a /\ Gives(s[m]) = b
      BY <1>1, <2>4 DEF Path, m
    <3>3. Takes(e[1]) = a /\ Gives(e[m]) = b
      BY <1>3, <1>5, <3>1, <3>2
    <3>4. e # <<>>
      BY <1>5, <2>4, Sequence
    <3> QED  BY <1>5, <2>1, <2>2, <3>3, <3>4 DEF Path
  <2> QED  BY <2>3, <2>4
<1>7. DOMAIN u = LutFields /\ u.Elements = e /\ u.Eval16Fn # "NULL" /\ Sized(u, a[2], b[2])
  <2>1. l.Eval16Fn # "NULL" /\ Sized(l, a[2], b[2])
    BY DEF Fine, Whole, Leads
  <2> QED  BY <1>1, <1>2, <2>1 DEF LutFields, Sized
<1> HIDE DEF u
<1>8. Leads(u, a, b)
  BY <1>6, <1>7 DEF Leads
<1>9. Whole(u)
  BY <1>7, <1>8, WholeOf
<1> QED  BY <1>8, <1>9 DEF Fine, u

LEMMA LinearizationFine ==
    ASSUME NEW l, NEW a, NEW b, Fine(l, a, b), NEW in, NEW out, NEW flags, NEW absol, NEW suitable,
           in.space = "RGB" => a[2] = 3,
           OptimizeByComputingLinearization(l, in, out, flags, absol, suitable).ok
    PROVE  Fine(OptimizeByComputingLinearization(l, in, out, flags, absol, suitable).lut, a, b)
<1> DEFINE straight == Forth("any", "straightening")
           x == Ends(l).from
           y == Ends(l).to
           o == l.OutputChannels
           plain == cmsStageAllocToneCurves(3, x, <<"straight">>, straight)
           undo == cmsStageAllocToneCurves(3, <<"straight">>, x, Back("any", "straightening"))
           LutPlusCurves == cmsPipelineInsertStage(cmsPipelineDup(l), AT_BEGIN, undo)
           word == Word(LutPlusCurves)
           clut == cmsStageAllocCLut16bit(3, o, <<"straight">>, y, word)
           both == cmsPipelineInsertStage(cmsPipelineInsertStage(cmsPipelineAlloc(3, o), AT_BEGIN, plain), AT_END, clut)
           fn == IF _cmsFormatterIs8bit(in) THEN "PrelinEval8" ELSE "PrelinEval16"
           dest == Prelin(both, fn)
           no == \/ in.float \/ out.float \/ in.space # "RGB" \/ out.space # "RGB" \/ in.planar \/ out.planar
                 \/ (~_cmsFormatterIs8bit(in) /\ "CLUT_PRE_LINEARIZATION" \notin flags)
                 \/ l.Elements = <<>> \/ ~suitable
           white == FixWhiteMisalignment(dest)
           all == OptimizeByComputingLinearization(l, in, out, flags, absol, suitable)
<1>1. all = IF no THEN Refused
            ELSE IF absol THEN Optimised(dest, {"NOWHITEONWHITEFIXUP"})
            ELSE IF "NOWHITEONWHITEFIXUP" \in flags THEN Optimised(dest, {})
            ELSE IF white.ok THEN Optimised(white.lut, {}) ELSE Refused
  BY DEF OptimizeByComputingLinearization
<1>2. ~no => in.space = "RGB" /\ l.Elements # <<>>
  OBVIOUS
<1>3. Goes(plain, x, 3, <<"straight">>, 3) /\ Goes(clut, <<"straight">>, 3, y, o)
  BY Allocated
<1>4. fn # "NULL" /\ dest = _cmsPipelineSetOptimizationParameters(both, fn, Word(both), "duplicated")
  BY DEF Prelin
<1> HIDE DEF word, plain, clut, fn
<1>5. Fine(cmsPipelineInsertStage(cmsPipelineAlloc(3, o), AT_BEGIN, plain), <<x, 3>>, <<<<"straight">>, 3>>)
  BY <1>3, FirstFine DEF Goes
<1>6. Fine(both, <<x, 3>>, <<y, o>>)
  BY <1>3, <1>5, NextFine DEF Goes
<1> HIDE DEF both, dest
<1>7. Fine(dest, <<x, 3>>, <<y, o>>)
  BY <1>4, <1>6, FineSet
<1> HIDE DEF x, y, o
<1>8. Fine(white.lut, <<x, 3>>, <<y, o>>)
  BY <1>7, WhiteFine
<1> HIDE DEF no, white, all
<1>9. ~no /\ all.lut \in {dest, white.lut}
  <2>1. all.ok
    BY DEF all
  <2> QED  BY <1>1, <2>1 DEF Refused, Optimised
<1>10. a = <<x, 3>> /\ b = <<y, o>>
  BY <1>2, <1>9, EndsAre DEF x, y, o
<1> QED  BY <1>7, <1>8, <1>9, <1>10 DEF all

--------------------
\* A stage at an end is unlinked.

LEMMA HeadOf ==
    ASSUME NEW s, IsSeq(s), s # <<>>
    PROVE  IsSeq(Tail(s)) /\ s = <<s[1]>> \o Tail(s) /\ (Tail(s) # <<>> => Last(Tail(s)) = Last(s))
<1> DEFINE S == ToSet(s)
           m == Len(s)
<1>1. s \in Seq(S) /\ m \in Nat /\ m # 0
  BY Sequence DEF IsSeq
<1> HIDE DEF S
<1>2. /\ Tail(s) \in Seq(S) /\ Len(Tail(s)) = m - 1
      /\ \A i \in 1..Len(Tail(s)) : Tail(s)[i] = s[i + 1]
  BY <1>1, HeadTailProperties
<1>3. IsSeq(Tail(s))
  BY <1>2, OfItsElements
<1>4. Tail(s) = SubSeq(s, 2, m)
  BY <1>1, TailIsSubSeq
<1>5. SubSeq(s, 1, m) = s
  BY <1>1, SubSeqFull
<1>6. 1 \in 1..m /\ m \in 1..m
  BY <1>1
<1>7. SubSeq(s, 1, m) = <<s[1]>> \o SubSeq(s, 1 + 1, m)
  BY <1>1, <1>6, SubSeqRecursiveFirst
<1>8. s = <<s[1]>> \o Tail(s)
  BY <1>4, <1>5, <1>7
<1>9. ASSUME Tail(s) # <<>> PROVE Last(Tail(s)) = Last(s)
  <2>1. Len(Tail(s)) # 0
    BY <1>3, <1>9, Sequence
  <2>2. m - 1 \in 1..Len(Tail(s)) /\ (m - 1) + 1 = m
    BY <1>1, <1>2, <2>1
  <2> QED  BY <1>2, <2>2 DEF Last
<1> QED  BY <1>3, <1>8, <1>9

LEMMA LastOf ==
    ASSUME NEW s, IsSeq(s), s # <<>>
    PROVE  IsSeq(Front(s)) /\ s = Front(s) \o <<Last(s)>>
<1> DEFINE S == ToSet(s)
           m == Len(s)
<1>1. s \in Seq(S) /\ m \in Nat /\ m # 0 /\ DOMAIN s = 1..m
  BY Sequence DEF IsSeq
<1>2. SubSeq(s, 1, m) = s
  BY <1>1, SubSeqFull
<1>3. 1 \in 1..m /\ m \in 1..m
  BY <1>1
<1>4. SubSeq(s, 1, m) = SubSeq(s, 1, m - 1) \o <<s[m]>>
  BY <1>1, <1>3, SubSeqRecursiveSecond
<1>5. SubSeq(s, 1, m - 1) \in Seq(S)
  <2>1. \A i \in 1..m - 1 : s[i] \in S
    <3>1. \A i \in 1..m - 1 : i \in 1..m
      BY <1>1
    <3> QED  BY <1>1, <3>1 DEF ToSet
  <2>2. 1 \in Int /\ m - 1 \in Int
    BY <1>1
  <2> HIDE DEF S
  <2> QED  BY <2>1, <2>2, SubSeqProperties
<1>6. IsSeq(SubSeq(s, 1, m - 1))
  BY <1>5, OfItsElements
<1> QED  BY <1>2, <1>4, <1>6 DEF Front, Last

\* The pipeline of other elements, when there is one of the channels of the ports.
LEMMA FineOf ==
    ASSUME NEW l, DOMAIN l = LutFields, l.Eval16Fn # "NULL", NEW a, NEW b, Path(l.Elements, a, b),
           l.Elements = <<>> => Sized(l, a[2], b[2])
    PROVE  Fine(Blessed(l), a, b)
<1>1. /\ Whole(Blessed(l)) /\ Blessed(l).Elements = l.Elements
      /\ l.Elements # <<>> => Leads(Blessed(l), a, b)
      /\ l.Elements = <<>> => Blessed(l) = l
  BY Blessing
<1> QED  BY <1>1 DEF Fine, Leads

LEMMA CurveKeeps == ASSUME NEW st, Proper(st), st.Type = "Curves" PROVE Takes(st)[2] = Gives(st)[2]
  BY DEF Proper, Takes, Gives

LEMMA UnlinkFirst ==
    ASSUME NEW l, NEW a, NEW b, Fine(l, a, b), l.Elements # <<>>, NEW st, st = l.Elements[1], st.Type = "Curves"
    PROVE  /\ Proper(st) /\ Takes(st) = a /\ Gives(st)[2] = a[2]
           /\ Fine(cmsPipelineUnlinkStage(l, AT_BEGIN), Gives(st), b)
           /\ cmsPipelineUnlinkStage(l, AT_BEGIN).Elements # <<>> =>
                    Last(cmsPipelineUnlinkStage(l, AT_BEGIN).Elements) = Last(l.Elements)
<1> DEFINE s == l.Elements
           t == Tail(s)
           v == [l EXCEPT !.Elements = t]
           u == cmsPipelineUnlinkStage(l, AT_BEGIN)
<1>1. Path(s, a, b) /\ IsSeq(s) /\ DOMAIN l = LutFields /\ l.Eval16Fn # "NULL" /\ Sized(l, a[2], b[2]) /\ s # <<>>
  BY DEF Fine, Whole, Leads
<1>2. u = Blessed(v)
  <2>1. u = Blessed([l EXCEPT !.Elements = IF AT_BEGIN = AT_BEGIN THEN Tail(@) ELSE Front(@)])
    BY DEF cmsPipelineUnlinkStage
  <2> QED  BY <2>1
<1>3. DOMAIN v = LutFields /\ v.Elements = t /\ v.Eval16Fn # "NULL" /\ Sized(v, a[2], b[2])
  BY <1>1 DEF LutFields, Sized
<1> HIDE DEF s, v, u
<1>4. IsSeq(t) /\ s = <<st>> \o t /\ IsSeq(<<st>>) /\ (t # <<>> => Last(t) = Last(s))
  <2>1. st = s[1]
    BY DEF s
  <2> QED  BY <1>1, <2>1, HeadOf, OneStage
<1> HIDE DEF t
<1>5. PICK c : Path(<<st>>, a, c) /\ Path(t, c, b)
  BY <1>1, <1>4, PathSplit
<1>6. Proper(st) /\ Takes(st) = a /\ Gives(st) = c
  BY <1>5, PathOfOne
<1>7. c[2] = a[2]
  BY <1>6, CurveKeeps
<1>8. Fine(u, c, b) /\ u.Elements = t
  BY <1>2, <1>3, <1>5, <1>7, FineOf, BlessedElements
<1> QED  BY <1>4, <1>6, <1>7, <1>8 DEF u, s

LEMMA UnlinkLast ==
    ASSUME NEW l, NEW a, NEW b, Fine(l, a, b), l.Elements # <<>>, NEW st, st = Last(l.Elements), st.Type = "Curves"
    PROVE  /\ Proper(st) /\ Gives(st) = b /\ Takes(st)[2] = b[2]
           /\ Fine(cmsPipelineUnlinkStage(l, AT_END), a, Takes(st))
<1> DEFINE s == l.Elements
           t == Front(s)
           v == [l EXCEPT !.Elements = t]
           u == cmsPipelineUnlinkStage(l, AT_END)
<1>1. Path(s, a, b) /\ IsSeq(s) /\ DOMAIN l = LutFields /\ l.Eval16Fn # "NULL" /\ Sized(l, a[2], b[2]) /\ s # <<>>
  BY DEF Fine, Whole, Leads
<1>2. u = Blessed(v)
  <2>1. u = Blessed([l EXCEPT !.Elements = IF AT_END = AT_BEGIN THEN Tail(@) ELSE Front(@)])
    BY DEF cmsPipelineUnlinkStage
  <2>2. AT_END # AT_BEGIN
    BY DEF AT_END, AT_BEGIN
  <2> QED  BY <2>1, <2>2
<1>3. DOMAIN v = LutFields /\ v.Elements = t /\ v.Eval16Fn # "NULL" /\ Sized(v, a[2], b[2])
  BY <1>1 DEF LutFields, Sized
<1> HIDE DEF s, v, u
<1>4. IsSeq(t) /\ s = t \o <<st>> /\ IsSeq(<<st>>)
  <2>1. st = Last(s)
    BY DEF s
  <2> QED  BY <1>1, <2>1, LastOf, OneStage
<1> HIDE DEF t
<1>5. PICK c : Path(t, a, c) /\ Path(<<st>>, c, b)
  BY <1>1, <1>4, PathSplit
<1>6. Proper(st) /\ Takes(st) = c /\ Gives(st) = b
  BY <1>5, PathOfOne
<1>7. c[2] = b[2]
  BY <1>6, CurveKeeps
<1>8. Fine(u, a, c)
  BY <1>2, <1>3, <1>5, <1>7, FineOf
<1> QED  BY <1>6, <1>7, <1>8 DEF u

LEMMA ResamplingFine ==
    ASSUME NEW l, NEW a, NEW b, Fine(l, a, b), NEW in, NEW out, NEW flags, NEW absol,
           l.Elements = <<>> /\ in.space # "any" => \E i : a = <<Encoding(in.space, "pixels"), i>>,
           OptimizeByResampling(l, in, out, flags, absol).ok
    PROVE  Fine(OptimizeByResampling(l, in, out, flags, absol).lut, a, b)
<1> DEFINE pre == KeepPreLin(l, flags)
           post == KeepPostLin(l, flags)
           within == UnlinkedPreLin(l, flags)
           src == IF post THEN cmsPipelineUnlinkStage(within, AT_END) ELSE within
           s == l.Elements
           from == IF pre THEN l.Elements[1].to ELSE IF l.Elements = <<>> THEN Encoding(in.space, "pixels") ELSE Ends(l).from
           to == IF post THEN Last(l.Elements).from ELSE IF l.Elements = <<>> THEN from ELSE Ends(l).to
           word == Word(src)
           clut == cmsStageAllocCLut16bit(src.InputChannels, src.OutputChannels, from, to, word)
           before == IF pre THEN <<l.Elements[1]>> ELSE <<>>
           after == IF post THEN <<Last(l.Elements)>> ELSE <<>>
           elements == before \o <<clut>> \o after
           made == With(cmsPipelineAlloc(l.InputChannels, l.OutputChannels), elements)
           dest == IF pre \/ post THEN Prelin(made, "PrelinEval16")
                   ELSE _cmsPipelineSetOptimizationParameters(made, "Lerp16", clut.word, "CLUT's")
           white == FixWhiteMisalignment(dest)
           no == in.float \/ out.float \/ in.space = "any" \/ out.space = "any"
           nor == l.Elements # <<>> /\ "FORCE_CLUT" \notin flags /\ in.space = "Lab" /\ in.bytes = 2
           all == OptimizeByResampling(l, in, out, flags, absol)
<1>1. all = IF no THEN Refused ELSE IF nor THEN Refused
            ELSE IF absol THEN Optimised(dest, {"NOWHITEONWHITEFIXUP"})
            ELSE IF "NOWHITEONWHITEFIXUP" \in flags THEN Optimised(dest, {})
            ELSE Optimised(IF white.ok THEN white.lut ELSE dest, {})
  BY DEF OptimizeByResampling
<1>2. ~no => in.space # "any"
  OBVIOUS
<1>3. pre => s # <<>> /\ s[1].Type = "Curves" /\ within = cmsPipelineUnlinkStage(l, AT_BEGIN)
  BY DEF KeepPreLin, IsBent, UnlinkedPreLin
<1>4. ~pre => within = l
  BY DEF UnlinkedPreLin
<1>5. post => within.Elements # <<>> /\ Last(within.Elements).Type = "Curves"
  BY DEF KeepPostLin, IsBent, Last
<1> DEFINE st == s[1]
           fin == Last(s)
<1> HIDE DEF pre, post, within
<1>6. PICK c : /\ Fine(within, c, b) /\ c[2] = a[2] /\ Path(before, a, c)
               /\ pre => c[1] = s[1].to
               /\ ~pre => c = a
               /\ pre => c = Gives(st)
               /\ within.Elements # <<>> => Last(within.Elements) = Last(s)
  <2>1. CASE pre
    <3>1. /\ Proper(st) /\ Takes(st) = a /\ Gives(st)[2] = a[2] /\ Fine(within, Gives(st), b)
          /\ within.Elements # <<>> => Last(within.Elements) = Last(s)
      BY <1>3, <2>1, UnlinkFirst
    <3>2. Path(<<st>>, a, Gives(st))
      BY <3>1, PathOne
    <3>3. before = <<st>> /\ Gives(st)[1] = s[1].to
      BY <2>1 DEF Gives
    <3> QED  BY <2>1, <3>1, <3>2, <3>3
  <2>2. CASE ~pre
    <3>1. Path(<<>>, a, a) /\ before = <<>>
      BY <2>2, PathNone
    <3> QED  BY <1>4, <2>2, <3>1
  <2> QED  BY <2>1, <2>2
<1>7. PICK d : /\ Fine(src, c, d) /\ d[2] = b[2] /\ Path(after, d, b)
               /\ post => d[1] = Last(s).from
               /\ ~post => d = b
               /\ post => d = Takes(fin)
  <2>1. CASE post
    <3>1. within.Elements # <<>> /\ fin = Last(within.Elements) /\ fin.Type = "Curves"
      BY <1>5, <1>6, <2>1
    <3> HIDE DEF fin
    <3>2. /\ Proper(fin) /\ Gives(fin) = b /\ Takes(fin)[2] = b[2]
          /\ Fine(cmsPipelineUnlinkStage(within, AT_END), c, Takes(fin))
      BY <1>6, <3>1, UnlinkLast
    <3>3. Path(<<fin>>, Takes(fin), b)
      BY <3>2, PathOne
    <3>4. after = <<fin>> /\ Takes(fin)[1] = Last(s).from /\ src = cmsPipelineUnlinkStage(within, AT_END)
      BY <2>1 DEF Takes, fin
    <3> HIDE DEF src
    <3> QED  BY <2>1, <3>2, <3>3, <3>4
  <2>2. CASE ~post
    <3>1. Path(<<>>, b, b) /\ after = <<>> /\ src = within
      BY <2>2, PathNone
    <3> QED  BY <1>6, <2>2, <3>1
  <2> QED  BY <2>1, <2>2
<1>8. in.space # "any" => /\ c[1] = from /\ d[1] = to
  <2>1. ASSUME in.space # "any" PROVE c[1] = from
    <3>1. CASE pre
      BY <1>6, <3>1
    <3>2. CASE ~pre /\ s = <<>>
      BY <1>6, <2>1, <3>2
    <3>3. CASE ~pre /\ s # <<>>
      <4>1. a[1] = Ends(l).from
        BY <3>3, EndsAre
      <4> QED  BY <1>6, <3>3, <4>1
    <3> QED  BY <3>1, <3>2, <3>3
  <2>2. ASSUME in.space # "any" PROVE d[1] = to
    <3>1. CASE post
      BY <1>7, <3>1
    <3>2. CASE ~post /\ s = <<>>
      <4>1. a = b
        BY <3>2 DEF Fine, Leads, Path
      <4>2. ~pre
        BY <1>3, <3>2
      <4> QED  BY <1>6, <1>7, <2>1, <2>2, <3>2, <4>1, <4>2
    <3>3. CASE ~post /\ s # <<>>
      <4>1. b[1] = Ends(l).to
        BY <3>3, EndsAre
      <4> QED  BY <1>7, <3>3, <4>1
    <3> QED  BY <3>1, <3>2, <3>3
  <2> QED  BY <2>1, <2>2
<1>9. Goes(clut, from, src.InputChannels, to, src.OutputChannels)
  BY Allocated
<1>10. Sized(src, c[2], d[2])
  BY <1>7 DEF Fine, Leads
<1> HIDE DEF from, to, word, clut, src, before, after, no, nor
<1>11. DOMAIN cmsPipelineAlloc(l.InputChannels, l.OutputChannels) = LutFields
  BY DEF cmsPipelineAlloc, LutFields
<1>12. in.space # "any" => Fine(made, a, b)
  <2> SUFFICES ASSUME in.space # "any" PROVE Fine(made, a, b)
    OBVIOUS
  <2>1. Proper(clut) /\ Takes(clut) = <<c[1], c[2]>> /\ Gives(clut) = <<d[1], d[2]>>
    BY <1>8, <1>9, <1>10 DEF Goes, Sized
  <2>2. Path(<<clut>>, Takes(clut), Gives(clut))
    BY <2>1, PathOne
  <2>3. Takes(clut) = c /\ Gives(clut) = d
    <3>1. a = <<a[1], a[2]>> /\ b = <<b[1], b[2]>>
      <4>1. CASE s # <<>>
        BY <4>1, EndsAre
      <4>2. CASE s = <<>>
        <5>1. a = b
          BY <4>2 DEF Fine, Leads, Path
        <5> QED  BY <4>2, <5>1
      <4> QED  BY <4>1, <4>2
    <3>2. c = <<c[1], c[2]>>
      BY <1>6, <3>1 DEF Gives
    <3>3. d = <<d[1], d[2]>>
      BY <1>7, <3>1 DEF Takes
    <3> QED  BY <2>1, <3>2, <3>3
  <2>4. Path(elements, a, b)
    <3>1. Path(before \o <<clut>>, a, d)
      BY <1>6, <2>2, <2>3, PathJoin
    <3> QED  BY <1>7, <3>1, PathJoin
  <2> DEFINE none == cmsPipelineAlloc(l.InputChannels, l.OutputChannels)
             v == [none EXCEPT !.Elements = elements]
  <2>5. made = Blessed(v) /\ DOMAIN none = LutFields /\ Sized(none, l.InputChannels, l.OutputChannels) /\ none.Eval16Fn # "NULL"
    BY <1>11, Alloc DEF With, Whole
  <2>6. Sized(l, a[2], b[2])
    BY DEF Fine, Leads
  <2> HIDE DEF none, elements, made
  <2>7. DOMAIN v = LutFields /\ v.Elements = elements /\ v.Eval16Fn # "NULL" /\ Sized(v, a[2], b[2])
    BY <2>5, <2>6 DEF LutFields, Sized
  <2> HIDE DEF v
  <2>8. Fine(Blessed(v), a, b)
    BY <2>4, <2>7, FineOf
  <2> QED  BY <2>5, <2>8
<1> DEFINE w1 == Word(made)
           w2 == clut.word
<1>13. dest = IF pre \/ post THEN _cmsPipelineSetOptimizationParameters(made, "PrelinEval16", w1, "duplicated")
              ELSE _cmsPipelineSetOptimizationParameters(made, "Lerp16", w2, "CLUT's")
  BY DEF Prelin
<1> HIDE DEF made, w1, w2, dest
<1>14. in.space # "any" => Fine(dest, a, b)
  <2>1. ASSUME Fine(made, a, b)
        PROVE  /\ Fine(_cmsPipelineSetOptimizationParameters(made, "PrelinEval16", w1, "duplicated"), a, b)
               /\ Fine(_cmsPipelineSetOptimizationParameters(made, "Lerp16", w2, "CLUT's"), a, b)
    BY <2>1, FineSet
  <2> QED  BY <1>12, <1>13, <2>1
<1>15. Fine(dest, a, b) => Fine(white.lut, a, b)
  BY WhiteFine
<1> HIDE DEF white, all
<1>16. ~no /\ all.lut \in {dest, white.lut}
  <2>1. all.ok
    BY DEF all
  <2> QED  BY <1>1, <2>1 DEF Refused, Optimised
<1> QED  BY <1>2, <1>14, <1>15, <1>16 DEF all

--------------------
\* What linking knows of a call.

\* A chain of regular profiles.
LEMMA ChainIs ==
    ASSUME AllRegular, NEW chain \in Chains
    PROVE  /\ IsSeq(chain) /\ Len(chain) \in Nat /\ Len(chain) >= 1 /\ DOMAIN chain = 1..Len(chain)
           /\ \A k \in 1..Len(chain) : Regular(chain[k]) /\ (k > 1 => chain[k].DeviceClass # "NamedColor")
<1>1. IsSeq(chain) /\ Len(chain) \in 1..255
  BY ChainAssumption DEF IsSeq
<1>2. DOMAIN chain = 1..Len(chain)
  BY <1>1, Sequence
<1>3. Len(chain) \in Nat /\ Len(chain) >= 1
  <2>1. \A m \in 1..255 : m \in Nat /\ m >= 1
    OBVIOUS
  <2> QED  BY <1>1, <2>1, Zenon
<1>4. \A k \in DOMAIN chain : Regular(chain[k]) /\ (k > 1 => chain[k].DeviceClass # "NamedColor")
  BY DEF AllRegular, RegularChain
<1>5. \A k \in 1..Len(chain) : Regular(chain[k]) /\ (k > 1 => chain[k].DeviceClass # "NamedColor")
  BY <1>2, <1>4, Zenon
<1> QED  BY <1>1, <1>2, <1>3, <1>5

\* The spaces of a regular profile.
LEMMA SpacesKnown ==
    ASSUME NEW q, Regular(q)
    PROVE  /\ q.ColorSpace \in Known \ {"named"} /\ q.PCS \in Known \ {"named"}
           /\ Device(q) => q.PCS \in Space
           /\ q.DeviceClass = "NamedColor" => q.PCS = "Lab"
           /\ q.DeviceClass = "Abstract" \/ (Device(q) /\ q.ColorSpace \in Space) => q.ColorSpace = q.PCS
           /\ q.DeviceClass = "Link" => Sound(q)
           /\ Device(q) <=> q.DeviceClass \notin {"Link", "Abstract", "NamedColor"}
  BY DEF Regular, Known, Device

\* The spaces visited.
LEMMA VisitedIs ==
    ASSUME AllRegular, call.profiles \in Chains
    PROVE  /\ Visited[0] = call.profiles[1].ColorSpace /\ Visited[n] = ExitColorSpace
           /\ \A k \in 1..n : Visited[k] = After(call.profiles[k], Visited[k - 1], n > 1)
           /\ ExitColorSpace \in Known
<1> DEFINE s == call.profiles
<1>1. IsSeq(s) /\ n = Len(s) /\ n \in 1..n /\ Regular(s[n])
  BY ChainIs DEF n
<1>2. \E f : Visits(f, s)
  BY <1>1, SpaceSteps
<1>3. Visits(Visited, s)
  BY <1>2 DEF Visited
<1>4. /\ Visited[0] = s[1].ColorSpace /\ Visited[n] = ExitColorSpace
      /\ \A k \in 1..n : Visited[k] = After(s[k], Visited[k - 1], n > 1)
  BY <1>1, <1>3 DEF Visits, ExitColorSpace
<1>5. After(s[n], Visited[n - 1], n > 1) \in Known
  <2>1. s[n].PCS \in Known /\ s[n].ColorSpace \in Known
    BY <1>1, SpacesKnown
  <2>2. After(s[n], Visited[n - 1], n > 1) \in {s[n].PCS, s[n].ColorSpace}
    BY DEF After
  <2> QED  BY <2>1, <2>2
<1>6. Visited[n] = After(s[n], Visited[n - 1], n > 1)
  BY <1>1, <1>4
<1> QED  BY <1>4, <1>5, <1>6

LEMMA EntryIs ==
    ASSUME AllRegular, call.profiles \in Chains, NEW q, q = call.profiles[1]
    PROVE  /\ q.DeviceClass = "NamedColor" => EntryColorSpace = "named"
           /\ q.DeviceClass # "NamedColor" => EntryColorSpace = q.ColorSpace
           /\ EntryColorSpace \in Known
<1>1. Regular(q)
  <2>1. 1 \in 1..Len(call.profiles)
    BY ChainIs
  <2> QED  BY <2>1, ChainIs
<1>2. EntryColorSpace =
        CASE q.DeviceClass = "NamedColor" -> "named"
          [] q.DeviceClass # "NamedColor" /\ (q.ColorSpace \notin Space \/ q.DeviceClass = "Link") -> q.ColorSpace
          [] OTHER -> q.PCS
  BY DEF EntryColorSpace, GetXFormColorSpaces
<1>3. q.DeviceClass # "NamedColor" => EntryColorSpace = q.ColorSpace
  BY <1>1, <1>2, SpacesKnown
<1>4. "named" \in Known
  BY Channels
<1> QED  BY <1>1, <1>2, <1>3, <1>4, SpacesKnown

--------------------
\* The profile that is linked next.

LEMMA ProfileIs ==
    ASSUME AllRegular, call.profiles \in Chains, Counting, link.i \in 1..link.count
    PROVE  /\ Regular(p) /\ n \in Nat /\ link.i \in 1..n /\ link.i \in Nat
           /\ p.DeviceClass = "NamedColor" => link.i = 1
           /\ Alone <=> p.DeviceClass = "NamedColor" /\ n = 1
           /\ Now = link.Current
           /\ link.i = 1 => p = call.profiles[1]
<1>1. n \in Nat /\ n >= 1 /\ link.count \in Nat /\ link.count <= n /\ link.i \in 1..n /\ link.i \in Nat
  BY ChainIs DEF n, Counting
<1>2. Regular(p) /\ (link.i > 1 => p.DeviceClass # "NamedColor")
  BY <1>1, ChainIs DEF p, n
<1>3. link.count = 1 <=> n = 1
  BY <1>1 DEF Counting
<1>4. ~(link.i > 1 /\ n = 1)
  BY <1>1
<1> QED  BY <1>1, <1>2, <1>3, <1>4 DEF Alone, Now, p

\* Both loops find the same space after it.
LEMMA SameSpaceAfter ==
    ASSUME AllRegular, call.profiles \in Chains, Counting, link.i \in 1..link.count,
           link.i = 1 => link.Current = call.profiles[1].ColorSpace
    PROVE  Then = After(p, link.Current, n > 1)
<1>1. /\ Regular(p) /\ (p.DeviceClass = "NamedColor" => link.i = 1)
      /\ Alone <=> p.DeviceClass = "NamedColor" /\ n = 1
      /\ link.i = 1 => p = call.profiles[1]
      /\ n \in Nat /\ link.i \in 1..n
  BY ProfileIs
<1>2. lIsDeviceLink <=> p.DeviceClass \in {"Link", "Abstract"}
  BY DEF lIsDeviceLink
<1>3. CASE p.DeviceClass = "NamedColor"
  <2>1. link.i = 1 /\ ~lIsDeviceLink
    BY <1>1, <1>2, <1>3
  <2>2. lIsInput
    BY <2>1 DEF lIsInput
  <2>3. ColorSpaceOut = p.PCS
    BY <2>2 DEF ColorSpaceOut
  <2>4. n = 1 \/ n > 1
    BY <1>1
  <2>5. After(p, link.Current, n > 1) = IF n > 1 THEN p.PCS ELSE p.ColorSpace
    BY <1>3 DEF After
  <2> QED  BY <1>1, <1>3, <2>3, <2>4, <2>5 DEF Then
<1>4. CASE p.DeviceClass # "NamedColor"
  <2>1. ~Alone /\ Then = ColorSpaceOut
    BY <1>1, <1>4 DEF Then
  <2>2. After(p, link.Current, n > 1) = IF link.Current \notin Space \/ p.DeviceClass = "Link" THEN p.PCS ELSE p.ColorSpace
    BY <1>4 DEF After
  <2>3. CASE p.DeviceClass = "Link"
    BY <1>2, <2>1, <2>2, <2>3 DEF ColorSpaceOut
  <2>4. CASE p.DeviceClass = "Abstract"
    <3>1. p.ColorSpace = p.PCS
      BY <1>1, <2>4, SpacesKnown
    <3> QED  BY <1>2, <2>1, <2>2, <2>4, <3>1 DEF ColorSpaceOut
  <2>5. CASE p.DeviceClass \notin {"Link", "Abstract"}
    <3>1. Device(p)
      BY <1>1, <1>4, <2>5, SpacesKnown
    <3>2. CASE link.i = 1
      <4>1. lIsInput /\ ColorSpaceOut = p.PCS
        BY <1>2, <2>5, <3>2 DEF lIsInput, ColorSpaceOut
      <4>2. link.Current = p.ColorSpace
        BY <1>1, <3>2
      <4>3. p.ColorSpace \in Space => p.ColorSpace = p.PCS
        BY <1>1, <3>1, SpacesKnown
      <4> QED  BY <2>1, <2>2, <2>5, <4>1, <4>2, <4>3
    <3>3. CASE link.i # 1
      <4>1. lIsInput <=> link.Current \notin Space
        BY <3>3 DEF lIsInput
      <4>2. ColorSpaceOut = IF link.Current \notin Space THEN p.PCS ELSE p.ColorSpace
        BY <1>2, <2>5, <4>1 DEF ColorSpaceOut
      <4> QED  BY <2>1, <2>2, <2>5, <4>2
    <3> QED  BY <3>2, <3>3
  <2> QED  BY <2>3, <2>4, <2>5
<1> QED  BY <1>3, <1>4

LEMMA SureIs == Sure \in BOOLEAN /\ (Sure <=> link.handler = "DefaultICCintents" /\ Assured)
  BY DEF Sure

\* What is read of the profile goes between the spaces, and is there if it is promised.
LEMMA ReadHere ==
    ASSUME AllRegular, call.profiles \in Chains, Counting, link.i \in 1..link.count, Intent \in 0..3,
           link.i = 1 => link.Current = call.profiles[1].ColorSpace,
           Sure /\ link.i = 2 => link.Current \in Space
    PROVE  Reads(ReadLUT, Port(From), Port(Then), Sure, Sure)
<1>1. /\ Regular(p) /\ (p.DeviceClass = "NamedColor" => link.i = 1)
      /\ Alone <=> p.DeviceClass = "NamedColor" /\ n = 1
      /\ link.i = 1 => p = call.profiles[1]
      /\ n \in Nat /\ link.i \in 1..n
  BY ProfileIs
<1>2. lIsDeviceLink <=> p.DeviceClass \in {"Link", "Abstract"}
  BY DEF lIsDeviceLink
<1>3. Sure => n = 2 /\ Device(p) /\ Sound(p)
  <2>1. Sure => n = 2 /\ \A k \in 1..2 : Device(call.profiles[k]) /\ Sound(call.profiles[k])
    BY SureIs DEF Assured
  <2> QED  BY <1>1, <2>1 DEF p
<1>4. Sure => Exact(p)
  BY <1>3, Exactly
<1>5. link.i = 1 => From = IF p.DeviceClass = "NamedColor" THEN "named" ELSE p.ColorSpace
  BY <1>1, EntryIs DEF From
<1>6. Port("named") = <<"named", 1>> /\ Port("Lab") = <<"Lab4", 3>>
  BY Ports
<1>7. CASE lIsDeviceLink
  <2>1. ReadLUT = _cmsReadDevicelinkLUT(p, Intent) /\ ColorSpaceIn = p.ColorSpace /\ ColorSpaceOut = p.PCS
    BY <1>7 DEF ReadLUT, ColorSpaceIn, ColorSpaceOut
  <2>2. From = p.ColorSpace /\ Then = p.PCS
    BY <1>1, <1>2, <1>5, <1>7, <2>1 DEF From, Then
  <2>3. Reads(_cmsReadDevicelinkLUT(p, Intent), Port(p.ColorSpace), Port(p.PCS), Exact(p), FALSE)
    BY <1>1, <1>2, <1>7, LinksRead
  <2>4. ~Sure
    BY <1>1, <1>2, <1>3, <1>7, SpacesKnown
  <2>5. Sure = FALSE
    BY <2>4, SureIs
  <2>6. Reads(_cmsReadDevicelinkLUT(p, Intent), Port(p.ColorSpace), Port(p.PCS), FALSE, FALSE)
    BY <2>3 DEF Reads
  <2> QED  BY <2>1, <2>2, <2>5, <2>6
<1>8. CASE Alone
  <2>1. ReadLUT = _cmsReadDevicelinkLUT(p, Intent) /\ link.i = 1 /\ p.DeviceClass = "NamedColor"
    BY <1>1, <1>8 DEF ReadLUT
  <2>2. From = "named" /\ Then = p.ColorSpace
    BY <1>5, <1>8, <2>1 DEF Then
  <2>3. Reads(_cmsReadDevicelinkLUT(p, Intent), <<"named", 1>>, Port(p.ColorSpace), FALSE, FALSE)
    BY <1>1, <2>1, NamesReadAlone
  <2>4. Sure = FALSE
    BY <1>1, <1>3, <1>8, SureIs
  <2> QED  BY <1>6, <2>1, <2>2, <2>3, <2>4
<1>9. CASE ~lIsDeviceLink /\ ~Alone /\ lIsInput
  <2>1. ReadLUT = _cmsReadInputLUT(p, Intent) /\ ColorSpaceIn = p.ColorSpace /\ ColorSpaceOut = p.PCS
    BY <1>9 DEF ReadLUT, ColorSpaceIn, ColorSpaceOut
  <2>2. CASE p.DeviceClass = "NamedColor"
    <3>1. From = "named" /\ Then = "Lab"
      BY <1>1, <1>5, <1>9, <2>1, <2>2, SpacesKnown DEF Then
    <3>2. Reads(_cmsReadInputLUT(p, Intent), <<"named", 1>>, <<"Lab4", 3>>, FALSE, FALSE)
      BY <2>2, NamesRead
    <3>3. Sure = FALSE
      BY <1>1, <1>3, <2>2, SureIs, SpacesKnown
    <3> QED  BY <1>6, <2>1, <3>1, <3>2, <3>3
  <2>3. CASE p.DeviceClass # "NamedColor"
    <3>1. From = p.ColorSpace /\ Then = p.PCS
      BY <1>5, <1>9, <2>1, <2>3 DEF From, Then
    <3>2. Device(p)
      BY <1>1, <1>2, <1>9, <2>3, SpacesKnown
    <3>3. Reads(_cmsReadInputLUT(p, Intent), Port(p.ColorSpace), Port(p.PCS), Exact(p), MayRead(p, Intent, Device2PCS16))
      BY <1>1, <3>2, InputReads
    <3>4. Sure => MayRead(p, Intent, Device2PCS16)
      <4>1. Sure => link.i = 1
        <5>1. link.i = 1 => TRUE
          OBVIOUS
        <5>2. Sure /\ link.i # 1 => link.i = 2 /\ link.Current \in Space
          BY <1>1, <1>3
        <5>3. link.i # 1 => link.Current \notin Space
          BY <1>9 DEF lIsInput
        <5> QED  BY <5>2, <5>3
      <4>2. Sure => cmsIsIntentSupported(call.profiles[1], Intent, Device2PCS16)
        BY SureIs DEF Assured
      <4> QED  BY <1>1, <1>3, <4>1, <4>2, Mays
    <3>5. Reads(_cmsReadInputLUT(p, Intent), Port(p.ColorSpace), Port(p.PCS), Sure, Sure)
      BY <1>4, <3>3, <3>4 DEF Reads
    <3> QED  BY <2>1, <3>1, <3>5
  <2> QED  BY <2>2, <2>3
<1>10. CASE ~lIsDeviceLink /\ ~Alone /\ ~lIsInput
  <2>1. ReadLUT = _cmsReadOutputLUT(p, Intent) /\ ColorSpaceIn = p.PCS /\ ColorSpaceOut = p.ColorSpace
    BY <1>10 DEF ReadLUT, ColorSpaceIn, ColorSpaceOut
  <2>2. link.i # 1
    BY <1>10 DEF lIsInput
  <2>3. From = p.PCS /\ Then = p.ColorSpace
    BY <1>10, <2>1, <2>2 DEF From, Then
  <2>4. Device(p)
    BY <1>1, <1>2, <1>10, <2>2, SpacesKnown
  <2>5. Reads(_cmsReadOutputLUT(p, Intent), Port(p.PCS), Port(p.ColorSpace), Exact(p), MayRead(p, Intent, PCS2Device16))
    BY <1>1, <2>4, OutputReads
  <2>6. Sure => MayRead(p, Intent, PCS2Device16)
    <3>1. Sure => link.i = 2 /\ p = call.profiles[2]
      BY <1>1, <1>3, <2>2 DEF p
    <3>2. Sure => cmsIsIntentSupported(call.profiles[2], Intent, PCS2Device16)
      BY SureIs DEF Assured
    <3> QED  BY <1>3, <3>1, <3>2, Mays
  <2>7. Reads(_cmsReadOutputLUT(p, Intent), Port(p.PCS), Port(p.ColorSpace), Sure, Sure)
    BY <1>4, <2>5, <2>6 DEF Reads
  <2> QED  BY <2>1, <2>3, <2>7
<1> QED  BY <1>7, <1>8, <1>9, <1>10

LEMMA CompatibleIs ==
    ASSUME NEW x, NEW y, ColorSpaceIsCompatible(x, y)
    PROVE  x = y \/ (x \in Space /\ y \in Space) \/ (x = "MCH4" /\ y = "CMYK") \/ (x = "CMYK" /\ y = "MCH4")
  BY DEF ColorSpaceIsCompatible, Space

LEMMA SamePort == Port("MCH4") = Port("CMYK")
  BY Ports, Encodings, Channels DEF Port

LEMMA NoConversion ==
    ASSUME NEW l, NEW x, NEW y, NEW m, (x = "MCH4" /\ y = "CMYK") \/ (x = "CMYK" /\ y = "MCH4")
    PROVE  AddConversion(l, y, x, m) = NULL
  BY DEF AddConversion, Space

\* The result takes the stages that were read.
LEMMA ConnectHere ==
    ASSUME AllRegular, call.profiles \in Chains, Counting, link.i \in 1..link.count,
           link.i = 1 => link.Current = call.profiles[1].ColorSpace,
           Sure /\ link.i = 2 => link.Current \in Space,
           ColorSpaceIsCompatible(ColorSpaceIn, link.Current),
           NEW R, R = heap[link.Result], Whole(R),
           link.i = 1 => R.Elements = <<>>,
           link.i > 1 => Reads(R, Port(EntryColorSpace), Port(link.Current), Sure, Sure),
           NEW L, Whole(L), Reads(L, Port(From), Port(Then), Sure, Sure),
           NEW both, both = IF Connected = NULL THEN NULL ELSE cmsPipelineCat(Connected, L)
    PROVE  /\ Sure => both # NULL /\ Consistent(both)
           /\ both # NULL /\ Consistent(both) => Reads(both, Port(EntryColorSpace), Port(Then), Sure, TRUE)
<1>1. /\ Regular(p) /\ (p.DeviceClass = "NamedColor" => link.i = 1)
      /\ Alone <=> p.DeviceClass = "NamedColor" /\ n = 1
      /\ link.i = 1 => p = call.profiles[1]
      /\ n \in Nat /\ link.i \in 1..n
  BY ProfileIs
<1>2. R # NULL /\ L # NULL
  BY NullIsNot
<1>3. Sure \in BOOLEAN
  BY SureIs
<1>4. CASE link.i = 1
  <2>1. Connected = R
    <3>1. CASE lIsDeviceLink \/ Alone
      <4>1. Connected = AddConversion(R, link.Current, ColorSpaceIn, <<>>)
        BY <1>4, <3>1 DEF Connected
      <4>2. ColorSpaceIn = p.ColorSpace
        BY <1>1, <1>4, <3>1 DEF ColorSpaceIn, lIsInput
      <4> QED  BY <1>1, <1>4, <4>1, <4>2, SameSpace
    <3>2. CASE ~(lIsDeviceLink \/ Alone)
      <4>1. lIsInput
        BY <1>4, <3>2 DEF lIsInput
      <4> QED  BY <3>2, <4>1 DEF Connected
    <3> QED  BY <3>1, <3>2
  <2>2. both = cmsPipelineCat(R, L) /\ From = EntryColorSpace
    BY <1>2, <1>4, <2>1 DEF From
  <2>3. /\ Consistent(cmsPipelineCat(R, L)) /\ cmsPipelineCat(R, L) # NULL
        /\ Reads(cmsPipelineCat(R, L), Port(From), Port(Then), Sure, TRUE)
    BY <1>2, <1>3, <1>4, CatFirst
  <2> QED  BY <2>2, <2>3
<1>5. CASE link.i # 1
  <2>1. Reads(R, Port(EntryColorSpace), Port(link.Current), Sure, Sure) /\ ~Alone /\ From = ColorSpaceIn
    BY <1>1, <1>5 DEF From
  <2>2. Reads(Connected, Port(EntryColorSpace), Port(ColorSpaceIn), Sure, Sure)
    <3>1. CASE lIsDeviceLink \/ ~lIsInput
      <4>1. PICK m : Connected = AddConversion(R, link.Current, ColorSpaceIn, m)
        BY <3>1 DEF Connected
      <4>2. CASE link.Current = ColorSpaceIn \/ (link.Current \in Space /\ ColorSpaceIn \in Space)
        BY <1>3, <2>1, <4>1, <4>2, ConversionReads
      <4>3. CASE (ColorSpaceIn = "MCH4" /\ link.Current = "CMYK") \/ (ColorSpaceIn = "CMYK" /\ link.Current = "MCH4")
        <5>1. Connected = NULL
          BY <4>1, <4>3, NoConversion
        <5>2. ~Sure
          <6>1. Sure => n = 2
            BY SureIs DEF Assured
          <6>2. link.Current \notin Space
            BY <4>3 DEF Space
          <6> QED  BY <1>1, <1>5, <6>1, <6>2
        <5> QED  BY <5>1, <5>2, NullReads
      <4> QED  BY <4>2, <4>3, CompatibleIs
    <3>2. CASE ~lIsDeviceLink /\ lIsInput
      <4>1. Connected = R
        BY <2>1, <3>2 DEF Connected
      <4>2. link.Current \notin Space
        BY <1>5, <3>2 DEF lIsInput
      <4>3. Port(ColorSpaceIn) = Port(link.Current)
        BY <4>2, CompatibleIs, SamePort
      <4> QED  BY <2>1, <4>1, <4>3
    <3> QED  BY <3>1, <3>2
  <2>3. CASE Connected = NULL
    <3>1. ~Sure
      BY <2>2, <2>3 DEF Reads
    <3> QED  BY <2>3, <3>1
  <2>4. CASE Connected # NULL
    <3>1. both = cmsPipelineCat(Connected, L) /\ Reads(L, Port(ColorSpaceIn), Port(Then), Sure, Sure)
      BY <2>1, <2>4
    <3>2. /\ Sure => Consistent(cmsPipelineCat(Connected, L)) /\ cmsPipelineCat(Connected, L) # NULL
          /\ Consistent(cmsPipelineCat(Connected, L)) =>
                Reads(cmsPipelineCat(Connected, L), Port(EntryColorSpace), Port(Then), Sure, TRUE)
      BY <1>2, <1>3, <2>2, <2>4, <3>1, CatReads
    <3> QED  BY <3>1, <3>2
  <2> QED  BY <2>3, <2>4
<1> QED  BY <1>4, <1>5

\* Negative values may be clipped after the last profile.
LEMMA ClipHere ==
    ASSUME NEW R, R = heap[link.Result], NEW a, Clips => Now = link.Current, Reads(R, a, Port(Now), Sure, Sure)
    PROVE  Reads(Clipped, a, Port(Now), Sure, Sure)
<1>1. CASE ~Clips
  BY <1>1 DEF Clipped
<1>2. CASE Clips
  <2> DEFINE i == cmsChannelsOfColorSpace[link.Current]
             x == Encoding(link.Current, "pixels")
             st == _cmsStageClipNegatives(i, x)
  <2>1. Clipped = End(R, st)
    BY <1>2 DEF Clipped
  <2>2. Goes(st, x, i, x, i)
    BY Allocated
  <2>3. Port(Now) = <<x, i>>
    BY <1>2 DEF Port
  <2> HIDE DEF i, x, st
  <2>4. Reads(R, a, <<x, i>>, Sure, Sure)
    BY <2>3
  <2>5. Reads(End(R, st), a, <<x, i>>, Sure, Sure)
    BY <2>2, <2>4, EndGoes, SureIs
  <2> QED  BY <2>1, <2>3, <2>5
<1> QED  BY <1>1, <1>2

--------------------
\* The transform asks whether the channels fit.

\* A space is known by what its pixels are written as, but for links to CMYK.
LEMMA PortsDiffer ==
    ASSUME NEW x \in Known, NEW y \in Known
    PROVE  /\ Encoding(x, "pixels") = Encoding(y, "pixels") => Port(x) = Port(y)
           /\ cmsChannelsOfColorSpace[x] = 4 => Port(x) = Port("CMYK")
           /\ cmsChannelsOfColorSpace["CMYK"] = 4
<1>1. \A z \in Known : z = "GRAY" \/ z = "named" \/ z = "RGB" \/ z = "Lab" \/ z = "XYZ" \/ z = "CMYK" \/ z = "MCH4"
  BY Channels
<1>2. /\ Encoding("GRAY", "pixels") = "GRAY" /\ Encoding("named", "pixels") = "named" /\ Encoding("RGB", "pixels") = "RGB"
      /\ Encoding("Lab", "pixels") = "Lab4" /\ Encoding("XYZ", "pixels") = "XYZ" /\ Encoding("CMYK", "pixels") = "CMYK"
      /\ Encoding("MCH4", "pixels") = "CMYK"
  BY DEF Encoding
<1>3. Encoding(x, "pixels") = Encoding(y, "pixels") => x = y \/ (x \in {"CMYK", "MCH4"} /\ y \in {"CMYK", "MCH4"})
  BY <1>1, <1>2
<1>4. cmsChannelsOfColorSpace[x] = 4 => x \in {"CMYK", "MCH4"}
  BY <1>1, Channels
<1> QED  BY <1>3, <1>4, SamePort, Channels

LEMMA RunsFit ==
    ASSUME NEW l, Whole(l), NEW x \in Known, NEW y \in Known,
           Runs(l, Encoding(x, "pixels"), Encoding(y, "pixels")),
           l.InputChannels = cmsChannelsOfColorSpace[x], l.OutputChannels = cmsChannelsOfColorSpace[y]
    PROVE  Fine(l, Port(x), Port(y))
<1>1. PICK a, b : Path(l.Elements, a, b) /\ a[1] = Encoding(x, "pixels") /\ b[1] = Encoding(y, "pixels")
  BY DEF Runs
<1>2. Sized(l, Port(x)[2], Port(y)[2])
  BY DEF Sized, Port
<1>3. CASE l.Elements = <<>>
  <2>1. a = b
    BY <1>1, <1>3 DEF Path
  <2>2. Port(x) = Port(y)
    BY <1>1, <2>1, PortsDiffer
  <2>3. Path(l.Elements, Port(x), Port(y))
    BY <1>3, <2>2, PathNone
  <2> QED  BY <1>2, <2>3 DEF Fine, Leads
<1>4. CASE l.Elements # <<>>
  <2>1. Takes(l.Elements[1]) = a /\ Gives(l.Elements[Len(l.Elements)]) = b
    BY <1>1, <1>4 DEF Path
  <2>2. Sized(l, l.Elements[1].InputChannels, l.Elements[Len(l.Elements)].OutputChannels)
    BY <1>4 DEF Whole
  <2>3. a = Port(x) /\ b = Port(y)
    BY <1>1, <2>1, <2>2 DEF Takes, Gives, Sized, Port
  <2> QED  BY <1>1, <1>2, <2>3 DEF Fine, Leads
<1> QED  BY <1>3, <1>4

LEMMA BlackFits ==
    ASSUME NEW l, NEW x \in Known, NEW y \in Known, Black(l, y),
           l.InputChannels = cmsChannelsOfColorSpace[x], l.OutputChannels = cmsChannelsOfColorSpace[y]
    PROVE  Fine(l, Port(x), Port(y))
<1>1. PICK c \in Known : Alike(c, y) /\ Path(l.Elements, Port("CMYK"), Port(c))
  BY DEF Black
<1>2. Whole(l) /\ l.Elements # <<>>
  BY DEF Black
<1>3. Takes(l.Elements[1]) = Port("CMYK") /\ Gives(l.Elements[Len(l.Elements)]) = Port(c)
  BY <1>1, <1>2 DEF Path
<1>4. l.InputChannels = Port("CMYK")[2] /\ l.OutputChannels = Port(c)[2]
  BY <1>2, <1>3 DEF Whole, Sized, Takes, Gives
<1>5. cmsChannelsOfColorSpace[x] = cmsChannelsOfColorSpace["CMYK"] /\ cmsChannelsOfColorSpace[y] = cmsChannelsOfColorSpace[c]
  BY <1>4 DEF Port
<1>6. Port(x) = Port("CMYK")
  BY <1>5, PortsDiffer
<1>7. Port(y) = Port(c)
  BY <1>1, <1>5, PortsDiffer DEF Alike
<1>8. Sized(l, Port(x)[2], Port(y)[2])
  BY <1>4, <1>6, <1>7 DEF Sized
<1> QED  BY <1>1, <1>2, <1>6, <1>7, <1>8 DEF Fine, Leads

\* A link from CMYK is appended.
LEMMA BlackGoesOn ==
    ASSUME NEW l, NEW d, d \in Known, NEW e \in Known, Black(l, d), NEW m, Whole(m), Leads(m, Port("CMYK"), Port(e)),
           Consistent(cmsPipelineCat(l, m))
    PROVE  Black(cmsPipelineCat(l, m), e)
<1> DEFINE u == cmsPipelineCat(l, m)
<1>1. PICK c \in Known : Alike(c, d) /\ Path(l.Elements, Port("CMYK"), Port(c))
  BY DEF Black
<1>2. Whole(l) /\ l.Elements # <<>> /\ IsSeq(l.Elements) /\ IsSeq(m.Elements)
  BY DEF Black, Whole
<1>3. Path(m.Elements, Port("CMYK"), Port(e))
  BY DEF Leads
<1>4. PICK v : /\ u = Blessed(v) /\ DOMAIN v = LutFields
               /\ v.Elements = l.Elements \o m.Elements
  BY <1>2, CatIs
<1>5. u.Elements = l.Elements \o m.Elements
  BY <1>4, BlessedElements
<1> HIDE DEF u
<1>6. u.Elements # <<>>
  <2> DEFINE s == l.Elements
             t == m.Elements
  <2>1. IsSeq(s) /\ IsSeq(t) /\ s # <<>> /\ u.Elements = s \o t
    BY <1>2, <1>5
  <2> HIDE DEF s, t
  <2> QED  BY <2>1, JoinedNone
<1>7. CASE Port(c) = Port("CMYK")
  <2>1. Path(l.Elements, Port("CMYK"), Port("CMYK"))
    BY <1>1, <1>7
  <2>2. Whole(u) /\ Leads(u, Port("CMYK"), Port(e))
    BY <1>2, <1>3, <2>1, CatLeads DEF u
  <2> QED  BY <1>6, <2>2 DEF Black, Leads, Alike, u
<1>8. CASE Port(c) # Port("CMYK")
  <2>1. m.Elements = <<>>
    <3> SUFFICES ASSUME m.Elements # <<>> PROVE FALSE
      OBVIOUS
    <3>1. Port(c)[2] = Port("CMYK")[2]
      BY <1>1, <1>2, <1>3, CatSeam
    <3>2. cmsChannelsOfColorSpace[c] = 4
      BY <3>1, Channels DEF Port
    <3> QED  BY <1>8, <3>2, PortsDiffer
  <2>2. Port(e) = Port("CMYK")
    BY <1>3, <2>1 DEF Path
  <2>3. cmsChannelsOfColorSpace[e] = 4
    BY <2>2, Channels DEF Port
  <2>4. u.Elements = l.Elements
    <3> DEFINE s == l.Elements
               S == ToSet(s)
    <3>1. s \in Seq(S) /\ u.Elements = s \o <<>>
      BY <1>2, <1>5, <2>1 DEF IsSeq
    <3> HIDE DEF s, S
    <3>2. s \o <<>> = s
      BY <3>1, ConcatEmptySeq
    <3> QED  BY <3>1, <3>2 DEF s
  <2>5. Whole(u)
    <3>1. v.Elements = l.Elements /\ Path(v.Elements, Port("CMYK"), Port(c))
      BY <1>1, <1>4, <1>5, <2>4
    <3>2. PICK w : /\ u = Blessed(w) /\ DOMAIN w = LutFields /\ w.Eval16Fn # "NULL"
                   /\ w.Elements = l.Elements \o m.Elements
      BY <1>2, CatIs DEF u
    <3>3. Path(w.Elements, Port("CMYK"), Port(c))
      BY <1>4, <3>1, <3>2
    <3> QED  BY <3>2, <3>3, Blessing
  <2>6. Path(u.Elements, Port("CMYK"), Port(c)) /\ Alike(c, e)
    BY <1>1, <2>3, <2>4 DEF Alike
  <2> QED  BY <1>6, <2>5, <2>6 DEF Black, u
<1> QED  BY <1>7, <1>8

\* Which profiles are left for later.
LEMMA LastProfile ==
    ASSUME AllRegular, call.profiles \in Chains
    PROVE  /\ lastProfilePos \in 1..n /\ (n >= 2 => lastProfilePos >= 2)
           /\ \A j \in lastProfilePos + 1..n : is_cmyk_devicelink(call.profiles[j])
<1> DEFINE linked(j) == is_cmyk_devicelink(call.profiles[j])
           fits(k) == \A j \in k + 1..n : linked(j) /\ j > 2
           ends(k) == fits(k) /\ (~linked(k) \/ k <= 2)
           T == {k \in 1..n : fits(k)}
<1>1. n \in Nat /\ n >= 1
  BY ChainIs DEF n
<1> HIDE DEF linked
<1>2. n \in T
  BY <1>1
<1>3. T \in SUBSET Nat /\ T # {}
  <2>1. \A k \in T : k \in 1..n
    OBVIOUS
  <2>2. \A k \in 1..n : k \in Nat
    OBVIOUS
  <2> HIDE DEF T
  <2> QED  BY <1>2, <2>1, <2>2
<1>4. PICK k \in T : \A j \in T : k <= j
  <2> HIDE DEF T
  <2> QED  BY <1>3, Least
<1>5. k \in 1..n /\ fits(k)
  BY <1>4
<1>6. ends(k)
  <2> SUFFICES ASSUME linked(k), ~(k <= 2) PROVE FALSE
    BY <1>5
  <2> DEFINE j == k - 1
  <2>1. j \in 1..n /\ j + 1 = k /\ j < k
    BY <1>1, <1>5
  <2>2. \A i \in j + 1..n : i = k \/ i \in k + 1..n
    BY <1>1, <1>5
  <2> HIDE DEF j
  <2>3. fits(j)
    BY <1>5, <2>2
  <2>4. j \in T
    BY <2>1, <2>3
  <2> HIDE DEF T
  <2>5. k <= j
    BY <1>4, <2>4
  <2> QED  BY <1>5, <2>1, <2>5
<1> HIDE DEF T
<1>7. lastProfilePos = CHOOSE i \in 1..n : ends(i)
  BY DEF lastProfilePos, linked
<1> DEFINE l == lastProfilePos
<1>8. l \in 1..n /\ ends(l)
  <2> HIDE DEF ends
  <2>1. \E i \in 1..n : ends(i)
    BY <1>5, <1>6
  <2> QED  BY <1>7, <2>1
<1> HIDE DEF l
<1>9. n >= 2 => l >= 2
  <2> SUFFICES ASSUME n >= 2, ~(l >= 2) PROVE FALSE
    OBVIOUS
  <2>1. 2 \in l + 1..n
    BY <1>1, <1>8
  <2>2. fits(l)
    BY <1>8
  <2>3. 2 > 2
    BY <2>1, <2>2
  <2> QED  BY <2>3
<1>10. \A j \in l + 1..n : linked(j)
  BY <1>8
<1> QED  BY <1>8, <1>9, <1>10 DEF l, linked

--------------------
\* What is in the pipelines, at each place of the call.
\* What stays.

\* A pipeline is made, freed or changed.
LEMMA HeapAdds ==
    ASSUME AllWalk, NEW id, NEW l, Walkable(l), heap' = Adding(heap, id, l)
    PROVE  AllWalk' /\ heap'[id] = l /\ \A x \in DOMAIN heap : x # id => heap'[x] = heap[x]
<1>1. DOMAIN heap' = DOMAIN heap \union {id}
  BY DEF Adding
<1>2. heap'[id] = l /\ \A x \in DOMAIN heap : x # id => heap'[x] = heap[x]
  BY DEF Adding
<1>3. \A x \in DOMAIN heap' : Walkable(heap'[x])
  BY <1>1, <1>2 DEF AllWalk
<1> QED  BY <1>2, <1>3 DEF AllWalk

LEMMA HeapFrees ==
    ASSUME AllWalk, NEW ids, heap' = Without(ids)
    PROVE  AllWalk' /\ \A x \in DOMAIN heap \ ids : heap'[x] = heap[x]
  BY DEF AllWalk, Without, Restrict

LEMMA HeapSets ==
    ASSUME AllWalk, NEW id \in DOMAIN heap, NEW l, Walkable(l), heap' = [heap EXCEPT ![id] = l]
    PROVE  AllWalk' /\ heap'[id] = l
<1>1. DOMAIN heap' = DOMAIN heap /\ heap'[id] = l /\ \A x \in DOMAIN heap : x # id => heap'[x] = heap[x]
  OBVIOUS
<1>2. \A x \in DOMAIN heap' : Walkable(heap'[x])
  BY <1>1 DEF AllWalk
<1> QED  BY <1>1, <1>2 DEF AllWalk

LEMMA SameCall ==
    ASSUME call'.profiles = call.profiles, call'.Intent = call.Intent
    PROVE  /\ n' = n /\ EntryColorSpace' = EntryColorSpace /\ ExitColorSpace' = ExitColorSpace
           /\ Visited' = Visited /\ Intent' = Intent /\ (Assured' <=> Assured)
<1>1. n' = n /\ Intent' = Intent
  BY DEF n, Intent
<1>2. EntryColorSpace' = EntryColorSpace /\ ExitColorSpace' = ExitColorSpace
  BY DEF EntryColorSpace, ExitColorSpace
<1>3. Visited' = Visited
  BY DEF Visited
<1>4. Assured' <=> Assured
  BY <1>1 DEF Assured
<1> QED  BY <1>1, <1>2, <1>3, <1>4

LEMMA SureThen == Sure' \in BOOLEAN /\ (Sure' <=> link'.handler = "DefaultICCintents" /\ Assured')
  BY DEF Sure

LEMMA SureStays ==
    ASSUME call'.profiles = call.profiles, call'.Intent = call.Intent, link'.handler = link.handler
    PROVE  Sure' = Sure
  BY SameCall, SureIs, SureThen

LEMMA BegunStays ==
    ASSUME Begun, call'.profiles = call.profiles, call'.Intent = call.Intent, DOMAIN call' = DOMAIN call,
           at \notin {"idle", "refused"}
    PROVE  Begun'
  BY SameCall DEF Begun, Asked

\* Where nothing is being linked.
LEMMA Over ==
    ASSUME AllWalk', Begun', Promised', at' \in {"idle", "handler", "error", "clean up", "refused", "deleted", "undefined"}
    PROVE  CInv'
  BY DEF CInv, Counted, Reached, Fetched, Blackened, Complete, Handed, Optimising

\* What a variable holds is in memory, and held once.
LEMMA HeldIs ==
    ASSUME Owned, NEW v \in Owners, link[v] # Nil
    PROVE  /\ link[v] \in DOMAIN heap /\ \A w \in Owners : w # v => link[w] # link[v]
           /\ link[v] # Fresh /\ Fresh \notin DOMAIN heap
<1>1. link[v] \in DOMAIN heap
  BY DEF Owned, Held
<1>2. Fresh \notin DOMAIN heap
  BY FreshIsFree DEF Owned
<1> QED  BY <1>1, <1>2 DEF Owned, Apart

LEMMA EmptyWalks == \A i, o : Walkable(cmsPipelineAlloc(i, o))
<1> TAKE i, o
<1>1. Whole(cmsPipelineAlloc(i, o)) /\ cmsPipelineAlloc(i, o).Elements = <<>>
  BY Alloc
<1>2. Path(<<>>, i, i)
  BY PathNone
<1> QED  BY <1>1, <1>2 DEF Walkable

LEMMA FineWalks == \A l, a, b : Fine(l, a, b) => Walkable(l) /\ Whole(l)
  BY DEF Fine, Leads, Walkable

LEMMA BlackWalks == \A l, d : Black(l, d) => Walkable(l) /\ Whole(l)
  BY DEF Black, Walkable

--------------------
\* The call, and its handlers.

LEMMA IntentIs ==
    ASSUME NEW x, SearchIntent(x) # "unsupported"
    PROVE  TranslateNonICCIntents(x) \in 0..3
<1>1. x \in 0..3 \/ x \in 10..12 \/ x \in 13..15
  BY DEF SearchIntent
<1> QED  BY <1>1 DEF TranslateNonICCIntents

LEMMA CallBegins == ASSUME AllRegular, IInv, CInv, _cmsLinkProfiles PROVE CInv'
<1>1. PICK chain \in Chains, I \in Intents, bpc \in BOOLEAN, flags \in FlagSets, depths \in Depths :
        call' = [profiles |-> chain, Intent |-> I, bpc |-> bpc, flags |-> flags,
                 from |-> depths[1], to |-> depths[2]]
  BY DEF _cmsLinkProfiles
<1>2. call'.profiles = chain /\ call'.Intent = I /\ DOMAIN call' = CallFields
  BY <1>1 DEF CallFields
<1>3. /\ link' = [NoLink EXCEPT !.handler = SearchIntent(I)]
      /\ at' = IF SearchIntent(I) = "unsupported" THEN "refused" ELSE "handler"
      /\ UNCHANGED heap
  BY <1>2 DEF _cmsLinkProfiles, Going
<1>4. AllWalk'
  BY <1>3 DEF CInv, AllWalk
<1>5. Begun'
  <2>1. Asked'
    BY <1>2 DEF Asked
  <2>2. Intent' = TranslateNonICCIntents(I)
    BY <1>2 DEF Intent
  <2>3. at' # "refused" => Intent' \in 0..3
    BY <1>3, <2>2, IntentIs
  <2> QED  BY <2>1, <2>3 DEF Begun
<1>6. Promised'
  <2>1. link'.handler = SearchIntent(I)
    BY <1>3 DEF NoLink
  <2>2. at' = "refused" => ~Sure'
    BY <1>3, <2>1, SureThen
  <2> QED  BY <1>3, <2>2 DEF Promised
<1>7. at' \in {"refused", "handler"}
  BY <1>3
<1> QED  BY <1>4, <1>5, <1>6, <1>7, Over

\* Linking is about to begin.
LEMMA LinkingBegins ==
    ASSUME AllRegular, CInv, at = "handler", at' = "link", UNCHANGED call, AllWalk',
           NEW k \in 1..n, link'.count = k, n >= 2 => k >= 2,
           link'.handler = "DefaultICCintents" => k = n,
           \A j \in k + 1..n : is_cmyk_devicelink(call.profiles[j])
    PROVE  CInv'
<1>1. Begun' /\ n' = n
  BY BegunStays, SameCall DEF CInv
<1>2. Counting'
  <2>1. \A j \in k + 1..n : is_cmyk_devicelink(call'.profiles[j])
    OBVIOUS
  <2> QED  BY <1>1, <2>1 DEF Counting
<1>3. Promised'
  BY DEF Promised
<1> QED  BY <1>1, <1>2, <1>3 DEF CInv, Counted, Reached, Fetched, Blackened, Complete, Handed, Optimising

LEMMA CallIs ==
    ASSUME AllRegular, CInv, at # "idle"
    PROVE  /\ call.profiles \in Chains /\ DOMAIN call = CallFields /\ n \in Nat /\ n >= 1
           /\ \A k \in 1..n : Regular(call.profiles[k])
<1>1. call.profiles \in Chains /\ DOMAIN call = CallFields
  BY DEF CInv, Begun, Asked
<1> QED  BY <1>1, ChainIs DEF n

LEMMA KOnlyBegins == ASSUME AllRegular, IInv, CInv, BlackPreservingKOnlyIntents PROVE CInv'
<1>1. /\ at = "handler" /\ Owned /\ at' = "link" /\ UNCHANGED call /\ link.handler = "BlackPreservingKOnlyIntents"
      /\ link' = [link EXCEPT !.Kept = Fresh, !.count = lastProfilePos]
      /\ heap' = Adding(heap, Fresh, cmsPipelineAlloc(4, 4))
  BY DEF BlackPreservingKOnlyIntents, Going, IInv, Handler
<1>2. AllWalk'
  BY <1>1, EmptyWalks, HeapAdds DEF CInv
<1>3. link'.count = lastProfilePos /\ link'.handler = "BlackPreservingKOnlyIntents"
  BY <1>1 DEF Owned, Locals
<1>4. call.profiles \in Chains
  BY <1>1, CallIs
<1> QED  BY <1>1, <1>2, <1>3, <1>4, LastProfile, LinkingBegins

LEMMA KPlaneBegins == ASSUME AllRegular, IInv, CInv, BlackPreservingKPlaneIntents PROVE CInv'
<1> DEFINE lut == _cmsReadInputLUT(call.profiles[lastProfilePos], INTENT_RELATIVE_COLORIMETRIC)
<1>1. at = "handler" /\ Owned /\ UNCHANGED call /\ link.handler = "BlackPreservingKPlaneIntents"
  BY DEF BlackPreservingKPlaneIntents, IInv, Handler
<1>2. \/ at' = "refused" /\ UNCHANGED <<link, heap>>
      \/ /\ lut # NULL /\ heap' = Adding(heap, Fresh, lut) /\ at' \in {"link", "clean up"}
         /\ link' = [link EXCEPT !.LabK = Fresh, !.count = lastProfilePos]
  BY DEF BlackPreservingKPlaneIntents, Going
<1>3. call.profiles \in Chains /\ \A k \in 1..n : Regular(call.profiles[k])
  BY <1>1, CallIs
<1>4. lut # NULL => Walkable(lut)
  <2>1. Regular(call.profiles[lastProfilePos])
    BY <1>3, LastProfile
  <2>2. INTENT_RELATIVE_COLORIMETRIC \in 0..3
    BY DEF INTENT_RELATIVE_COLORIMETRIC
  <2> QED  BY <2>1, <2>2, InputWalks
<1> HIDE DEF lut
<1>5. AllWalk'
  <2>1. CASE UNCHANGED heap
    BY <2>1 DEF CInv, AllWalk
  <2>2. CASE lut # NULL /\ heap' = Adding(heap, Fresh, lut)
    BY <1>4, <2>2, HeapAdds DEF CInv
  <2> QED  BY <1>2, <2>1, <2>2
<1>6. link'.handler = "BlackPreservingKPlaneIntents"
  BY <1>1, <1>2 DEF Owned, Locals
<1>7. ~Sure'
  BY <1>6, SureThen
<1>8. CASE at' \in {"refused", "clean up"}
  <2>1. Begun' /\ Promised'
    BY <1>1, <1>7, BegunStays DEF CInv, Promised
  <2> QED  BY <1>5, <1>8, <2>1, Over
<1>9. CASE at' = "link"
  <2>1. link'.count = lastProfilePos
    BY <1>1, <1>2, <1>9 DEF Owned, Locals
  <2> QED  BY <1>1, <1>3, <1>5, <1>6, <1>9, <2>1, LastProfile, LinkingBegins
<1> QED  BY <1>2, <1>8, <1>9

LEMMA DefaultBegins == ASSUME AllRegular, IInv, CInv, Default PROVE CInv'
<1>1. /\ at = "handler" /\ Owned /\ at' = "link" /\ UNCHANGED call /\ UNCHANGED heap
      /\ link' = [link EXCEPT !.count = n, !.handler = "DefaultICCintents"]
  BY DEF Default, Going, IInv
<1>2. AllWalk'
  BY <1>1 DEF CInv, AllWalk
<1>3. link'.count = n
  BY <1>1 DEF Owned, Locals
<1>4. n \in Nat /\ n >= 1
  BY <1>1, CallIs
<1>5. n \in 1..n /\ \A j \in n + 1..n : is_cmyk_devicelink(call.profiles[j])
  BY <1>4
<1> QED  BY <1>1, <1>2, <1>3, <1>5, LinkingBegins

LEMMA ResultBegins == ASSUME AllRegular, IInv, CInv, DefaultICCintents PROVE CInv'
<1>1. /\ at = "link" /\ Owned /\ at' = "profile" /\ UNCHANGED call /\ UNCHANGED unlucky
      /\ heap' = Adding(heap, Fresh, cmsPipelineAlloc(0, 0))
      /\ link' = [link EXCEPT !.Result = Fresh, !.i = 1, !.Current = call.profiles[1].ColorSpace]
  BY DEF DefaultICCintents, Going, IInv
<1>2. AllWalk' /\ heap'[Fresh] = cmsPipelineAlloc(0, 0)
  BY <1>1, EmptyWalks, HeapAdds DEF CInv
<1>3. /\ link'.Result = Fresh /\ link'.i = 1 /\ link'.Current = call.profiles[1].ColorSpace
      /\ link'.count = link.count /\ link'.handler = link.handler
  BY <1>1 DEF Owned, Locals
<1>4. /\ n' = n /\ Visited' = Visited /\ Begun' /\ call.profiles \in Chains /\ Counting
  BY <1>1, SameCall, BegunStays, CallIs DEF CInv, Counted
<1>5. Counting' /\ link.count \in Nat /\ link.count >= 1
  <2>1. link.count \in 1..n /\ n \in Nat
    BY <1>1, <1>4, CallIs DEF Counting
  <2> QED  BY <1>1, <1>3, <1>4, <2>1 DEF Counting
<1>6. Reached'
  <2>1. link'.Result # Nil
    BY <1>1, <1>3, FreshIsFree DEF Owned
  <2>2. Visited[0] = call.profiles[1].ColorSpace
    BY <1>4, VisitedIs
  <2>3. Now' = link'.Current
    BY <1>3 DEF Now
  <2>4. heap'[link'.Result].Elements = <<>>
    BY <1>2, <1>3, Alloc
  <2>5. link'.i \in 1..link'.count + 1 /\ link'.i - 1 = 0 /\ ~(link'.i > 1)
    BY <1>3, <1>5
  <2>6. Now' = Visited'[link'.i - 1]
    BY <1>3, <1>4, <2>2, <2>3, <2>5
  <2> QED  BY <2>1, <2>4, <2>5, <2>6 DEF Reached
<1> QED  BY <1>1, <1>2, <1>4, <1>5, <1>6 DEF CInv, Counted, Fetched, Blackened, Complete, Handed, Optimising, Promised

--------------------
\* A profile is linked.

\* What is known where a profile is linked.
LEMMA WhileLinking ==
    ASSUME AllRegular, IInv, CInv, at \in {"profile", "connect"}
    PROVE  /\ Owned /\ call.profiles \in Chains /\ DOMAIN call = CallFields /\ Counting /\ Intent \in 0..3
           /\ n \in Nat /\ n >= 1 /\ link.count \in Nat /\ link.count >= 1 /\ link.i \in Nat
           /\ link.Result \in DOMAIN heap /\ Whole(heap[link.Result]) /\ Walkable(heap[link.Result])
           /\ link.i \in 1..link.count + 1 /\ Now = Visited[link.i - 1]
           /\ link.i > 1 /\ n = 1 /\ call.profiles[1].DeviceClass = "NamedColor" => link.Current = "Lab"
           /\ link.i = 1 => heap[link.Result].Elements = <<>> /\ link.Current = call.profiles[1].ColorSpace
           /\ link.i > 1 => Reads(heap[link.Result], Port(EntryColorSpace), Port(Now), Sure, Sure)
<1>1. Owned /\ Intent \in 0..3 /\ Counting
  BY DEF IInv, CInv, Begun, Counted
<1>2. call.profiles \in Chains /\ DOMAIN call = CallFields /\ n \in Nat /\ n >= 1
  BY CallIs
<1>3. link.count \in Nat /\ link.count >= 1
  BY <1>1, <1>2 DEF Counting
<1>4. /\ link.Result # Nil /\ link.i \in 1..link.count + 1 /\ Now = Visited[link.i - 1]
      /\ link.i > 1 /\ n = 1 /\ call.profiles[1].DeviceClass = "NamedColor" => link.Current = "Lab"
      /\ link.i = 1 => heap[link.Result].Elements = <<>>
      /\ link.i > 1 => Reads(heap[link.Result], Port(EntryColorSpace), Port(Now), Sure, Sure)
  BY DEF CInv, Reached
<1>5. link.Result \in DOMAIN heap
  BY <1>1, <1>4, HeldIs DEF Owners
<1>6. Walkable(heap[link.Result]) /\ Whole(heap[link.Result])
  BY <1>5 DEF CInv, AllWalk, Walkable
<1>7. link.i = 1 => link.Current = call.profiles[1].ColorSpace
  <2>1. link.i = 1 => Now = link.Current /\ link.i - 1 = 0
    BY DEF Now
  <2> QED  BY <1>2, <1>4, <2>1, VisitedIs
<1>8. link.i \in Nat
  BY <1>3, <1>4
<1> QED  BY <1>1, <1>2, <1>3, <1>4, <1>5, <1>6, <1>7, <1>8

\* Of two profiles that are promised to link, the second takes what the first gives.
LEMMA SureMeets ==
    ASSUME AllRegular, IInv, CInv, at \in {"profile", "connect"}, link.i <= link.count
    PROVE  /\ Sure /\ link.i = 2 => link.Current \in Space
           /\ Sure => ColorSpaceIsCompatible(ColorSpaceIn, link.Current)
<1> SUFFICES ASSUME Sure
             PROVE  /\ link.i = 2 => link.Current \in Space
                    /\ ColorSpaceIsCompatible(ColorSpaceIn, link.Current)
  BY SureIs
<1>1. /\ call.profiles \in Chains /\ Counting /\ n \in Nat /\ link.i \in 1..link.count + 1 /\ Now = Visited[link.i - 1]
      /\ link.count \in Nat
      /\ link.i = 1 => link.Current = call.profiles[1].ColorSpace
  BY WhileLinking
<1>2. n = 2 /\ Device(call.profiles[1]) /\ Device(call.profiles[2])
  BY SureIs DEF Assured
<1>3. link.i \in 1..link.count
  BY <1>1
<1>4. Regular(p) /\ link.i \in 1..n /\ Now = link.Current /\ (link.i = 1 => p = call.profiles[1])
  BY <1>1, <1>3, ProfileIs
<1>5. Device(p) /\ ~lIsDeviceLink
  <2>1. link.i = 1 \/ link.i = 2
    BY <1>2, <1>4
  <2>2. Device(p)
    BY <1>2, <2>1 DEF p
  <2> QED  BY <1>4, <2>2, SpacesKnown DEF lIsDeviceLink
<1>6. CASE link.i = 1
  <2>1. ColorSpaceIn = p.ColorSpace
    BY <1>5, <1>6 DEF ColorSpaceIn, lIsInput
  <2>2. ColorSpaceIn = link.Current
    <3>1. p = call.profiles[1] /\ link.Current = call.profiles[1].ColorSpace
      BY <1>1, <1>4, <1>6
    <3> QED  BY <2>1, <3>1
  <2> QED  BY <1>6, <2>2 DEF ColorSpaceIsCompatible
<1>7. CASE link.i # 1
  <2>1. link.i = 2 /\ link.i - 1 = 1
    BY <1>2, <1>4, <1>7
  <2>2. link.Current = Visited[1]
    BY <1>1, <1>4, <2>1
  <2> DEFINE q == call.profiles[1]
  <2>3. Visited[1] = After(q, q.ColorSpace, n > 1)
    <3>1. 1 \in 1..n /\ 1 - 1 = 0
      BY <1>2
    <3>2. Visited[0] = q.ColorSpace /\ \A k \in 1..n : Visited[k] = After(call.profiles[k], Visited[k - 1], n > 1)
      BY <1>1, VisitedIs
    <3>3. Visited[1] = After(call.profiles[1], Visited[1 - 1], n > 1)
      BY <3>1, <3>2
    <3> QED  BY <3>1, <3>2, <3>3
  <2>4. Regular(q)
    <3>1. 1 \in 1..n
      BY <1>2
    <3> QED  BY <1>1, <3>1, ChainIs DEF n
  <2>5. Device(q)
    BY <1>2
  <2> HIDE DEF q
  <2>6. After(q, q.ColorSpace, n > 1) = IF q.ColorSpace \notin Space \/ q.DeviceClass = "Link" THEN q.PCS ELSE q.ColorSpace
    BY <2>4, <2>5, SpacesKnown DEF After
  <2>7. After(q, q.ColorSpace, n > 1) \in Space
    BY <2>4, <2>5, <2>6, SpacesKnown
  <2>8. link.Current \in Space
    BY <2>2, <2>3, <2>7
  <2>9. ~lIsInput
    BY <1>7, <2>8 DEF lIsInput
  <2>10. ColorSpaceIn = p.PCS
    BY <1>5, <2>9 DEF ColorSpaceIn
  <2>11. ColorSpaceIn \in Space
    BY <1>4, <1>5, <2>10, SpacesKnown
  <2>12. ColorSpaceIsCompatible(ColorSpaceIn, link.Current)
    <3> DEFINE x == ColorSpaceIn
               y == link.Current
    <3>1. x \in {"XYZ", "Lab"} /\ y \in {"XYZ", "Lab"}
      BY <2>8, <2>11 DEF Space
    <3> HIDE DEF x, y
    <3>2. x = y \/ {x, y} = {"XYZ", "Lab"}
      BY <3>1
    <3>3. ColorSpaceIsCompatible(x, y)
      BY <3>2 DEF ColorSpaceIsCompatible
    <3> QED  BY <3>3 DEF x, y
  <2> QED  BY <2>8, <2>12
<1> QED  BY <1>6, <1>7

\* Linking goes on, or fails.
LEMMA Fails ==
    ASSUME AllRegular, CInv, at \in {"profile", "connect"}, at' = "error", UNCHANGED call, UNCHANGED unlucky,
           link'.handler = link.handler, UNCHANGED heap, ~Sure
    PROVE  CInv'
<1>1. AllWalk' /\ Begun'
  BY BegunStays DEF CInv, AllWalk
<1>2. Promised'
  BY SureStays DEF Promised
<1> QED  BY <1>1, <1>2, Over

\* A profile is read, and connected to the result.
LEMMA ReadStep == ASSUME AllRegular, IInv, CInv, Read PROVE CInv'
<1>1. at = "profile" /\ link.i <= link.count /\ UNCHANGED call /\ UNCHANGED unlucky
  BY DEF Read
<1> DEFINE compatible == ColorSpaceIsCompatible(ColorSpaceIn, link.Current)
           lut == IF compatible THEN ReadLUT ELSE NULL
<1>2. \/ lut = NULL /\ at' = "error" /\ UNCHANGED <<link, heap>>
      \/ /\ lut # NULL /\ at' = "connect"
         /\ heap' = Adding(heap, Fresh, lut) /\ link' = [link EXCEPT !.Lut = Fresh]
  BY DEF Read, Going
<1>3. /\ Owned /\ call.profiles \in Chains /\ Counting /\ Intent \in 0..3 /\ n \in Nat
      /\ link.count \in Nat /\ link.i \in 1..link.count + 1
      /\ link.i = 1 => link.Current = call.profiles[1].ColorSpace
      /\ link.Result \in DOMAIN heap
  BY <1>1, WhileLinking
<1>4. link.i \in 1..link.count
  BY <1>1, <1>3
<1>5. /\ Sure /\ link.i = 2 => link.Current \in Space
      /\ Sure => compatible
  BY <1>1, SureMeets
<1>6. Reads(ReadLUT, Port(From), Port(Then), Sure, Sure)
  BY <1>3, <1>4, <1>5, ReadHere
<1>7. Sure => lut # NULL
  BY <1>5, <1>6 DEF Reads
<1>8. lut # NULL => compatible /\ lut = ReadLUT
  OBVIOUS
<1> HIDE DEF lut
<1>9. CASE lut = NULL /\ at' = "error" /\ UNCHANGED <<link, heap>>
  BY <1>1, <1>7, <1>9, Fails
<1>10. CASE /\ lut # NULL /\ at' = "connect"
            /\ heap' = Adding(heap, Fresh, lut) /\ link' = [link EXCEPT !.Lut = Fresh]
  <2>1. Walkable(lut)
    BY <1>6, <1>8, <1>10, ReadsWalks
  <2>2. AllWalk' /\ heap'[Fresh] = lut /\ \A x \in DOMAIN heap : x # Fresh => heap'[x] = heap[x]
    BY <1>10, <2>1, HeapAdds DEF CInv
  <2>3. Fresh # Nil /\ Fresh \notin DOMAIN heap
    BY <1>3, FreshIsFree DEF Owned
  <2>4. /\ link'.Lut = Fresh /\ link'.i = link.i /\ link'.Current = link.Current /\ link'.Result = link.Result
        /\ link'.count = link.count /\ link'.handler = link.handler
    BY <1>3, <1>10 DEF Owned, Locals
  <2>5. n' = n /\ Visited' = Visited /\ EntryColorSpace' = EntryColorSpace /\ Sure' = Sure /\ Begun'
    BY <1>1, <2>4, SameCall, SureStays, BegunStays DEF CInv
  <2>6. p' = p /\ Now' = Now
    BY <1>1, <2>4, <2>5 DEF p, Now
  <2>7. lIsDeviceLink' = lIsDeviceLink /\ lIsInput' = lIsInput /\ Alone' = Alone
    BY <2>4, <2>6 DEF lIsDeviceLink, lIsInput, Alone
  <2>8. ColorSpaceIn' = ColorSpaceIn /\ ColorSpaceOut' = ColorSpaceOut
    BY <2>6, <2>7 DEF ColorSpaceIn, ColorSpaceOut
  <2>9. From' = From /\ Then' = Then
    BY <2>4, <2>5, <2>6, <2>7, <2>8 DEF From, Then
  <2>10. Counting'
    BY <1>1, <1>3, <2>4, <2>5 DEF Counting
  <2>11. heap'[link'.Result] = heap[link.Result]
    BY <1>3, <2>2, <2>3, <2>4
  <2>12. Reached'
    <3>1. /\ link.Result # Nil /\ link.i \in 1..link.count + 1 /\ Now = Visited[link.i - 1]
          /\ link.i > 1 /\ n = 1 /\ call.profiles[1].DeviceClass = "NamedColor" => link.Current = "Lab"
          /\ link.i = 1 => heap[link.Result].Elements = <<>>
          /\ link.i > 1 => Reads(heap[link.Result], Port(EntryColorSpace), Port(Now), Sure, Sure)
      BY <1>1 DEF CInv, Reached
    <3>2. /\ link'.Result # Nil /\ link'.i \in 1..link'.count + 1 /\ Now' = Visited'[link'.i - 1]
          /\ link'.i > 1 /\ n' = 1 /\ call'.profiles[1].DeviceClass = "NamedColor" => link'.Current = "Lab"
          /\ link'.i = 1 => heap'[link'.Result].Elements = <<>>
      BY <1>1, <2>4, <2>5, <2>6, <2>11, <3>1
    <3>3. link'.i > 1 => Reads(heap'[link'.Result], Port(EntryColorSpace'), Port(Now'), Sure', Sure')
      BY <2>4, <2>5, <2>6, <2>11, <3>1
    <3> QED  BY <3>2, <3>3 DEF Reached
  <2>13. Fetched'
    <3>1. heap'[link'.Lut] = ReadLUT
      BY <1>8, <1>10, <2>2, <2>4
    <3>2. Reads(heap'[link'.Lut], Port(From'), Port(Then'), Sure', Sure')
      BY <1>6, <2>5, <2>9, <3>1
    <3>3. link'.i <= link'.count /\ link'.Lut # Nil /\ ColorSpaceIsCompatible(ColorSpaceIn', link'.Current)
      BY <1>1, <1>8, <1>10, <2>3, <2>4, <2>8
    <3> QED  BY <3>2, <3>3 DEF Fetched
  <2> QED  BY <1>10, <2>2, <2>5, <2>10, <2>12, <2>13 DEF CInv, Counted, Blackened, Complete, Handed, Optimising, Promised
<1> QED  BY <1>2, <1>9, <1>10

LEMMA ConnectStep == ASSUME AllRegular, IInv, CInv, Connect PROVE CInv'
<1>1. at = "connect" /\ UNCHANGED call /\ UNCHANGED unlucky
  BY DEF Connect
<1> DEFINE R == heap[link.Result]
           L == heap[link.Lut]
           both == IF Connected = NULL THEN NULL ELSE cmsPipelineCat(Connected, L)
<1>2. \/ /\ both = NULL \/ ~Consistent(both)
         /\ at' = "error" /\ UNCHANGED <<link, heap>>
      \/ /\ both # NULL /\ Consistent(both) /\ at' = "profile"
         /\ heap' = [Without({link.Lut}) EXCEPT ![link.Result] = both]
         /\ link' = [link EXCEPT !.Lut = Nil, !.Current = ColorSpaceOut, !.i = @ + 1]
  BY DEF Connect, Going
<1>3. /\ Owned /\ call.profiles \in Chains /\ Counting /\ n \in Nat /\ link.i \in Nat
      /\ link.count \in Nat /\ link.i \in 1..link.count + 1 /\ Now = Visited[link.i - 1]
      /\ link.i = 1 => R.Elements = <<>> /\ link.Current = call.profiles[1].ColorSpace
      /\ link.i > 1 => Reads(R, Port(EntryColorSpace), Port(Now), Sure, Sure)
      /\ link.Result \in DOMAIN heap /\ Whole(R)
  BY <1>1, WhileLinking
<1>4. /\ link.i <= link.count /\ link.Lut # Nil /\ ColorSpaceIsCompatible(ColorSpaceIn, link.Current)
      /\ Reads(L, Port(From), Port(Then), Sure, Sure)
  BY <1>1 DEF CInv, Fetched
<1>5. link.i \in 1..link.count
  BY <1>3, <1>4
<1>6. link.Lut \in DOMAIN heap /\ link.Result # link.Lut /\ Whole(L)
  <2>1. "Lut" \in Owners /\ "Result" \in Owners /\ "Result" # "Lut"
    BY DEF Owners
  <2>2. link.Lut \in DOMAIN heap /\ link.Result # link.Lut
    BY <1>3, <1>4, <2>1, HeldIs
  <2> QED  BY <2>2 DEF CInv, AllWalk, Walkable
<1>7. Sure /\ link.i = 2 => link.Current \in Space
  BY <1>1, <1>4, SureMeets
<1>8. /\ Regular(p) /\ link.i \in 1..n /\ (p.DeviceClass = "NamedColor" => link.i = 1)
      /\ (Alone <=> p.DeviceClass = "NamedColor" /\ n = 1) /\ Now = link.Current
      /\ link.i = 1 => p = call.profiles[1]
  BY <1>3, <1>5, ProfileIs
<1> HIDE DEF R, L
<1>9. /\ Sure => both # NULL /\ Consistent(both)
      /\ both # NULL /\ Consistent(both) => Reads(both, Port(EntryColorSpace), Port(Then), Sure, TRUE)
  <2>1. R = heap[link.Result]
    BY DEF R
  <2>2. link.i > 1 => Reads(R, Port(EntryColorSpace), Port(link.Current), Sure, Sure)
    BY <1>3, <1>8
  <2> DEFINE b == both
  <2>3. b = IF Connected = NULL THEN NULL ELSE cmsPipelineCat(Connected, L)
    OBVIOUS
  <2> HIDE DEF b
  <2>4. /\ Sure => b # NULL /\ Consistent(b)
        /\ b # NULL /\ Consistent(b) => Reads(b, Port(EntryColorSpace), Port(Then), Sure, TRUE)
    BY <1>3, <1>4, <1>5, <1>6, <1>7, <2>1, <2>2, <2>3, ConnectHere
  <2> QED  BY <2>4 DEF b
<1> HIDE DEF both
<1>10. CASE /\ both = NULL \/ ~Consistent(both)
            /\ at' = "error" /\ UNCHANGED <<link, heap>>
  BY <1>1, <1>9, <1>10, Fails, SureIs
<1>11. CASE /\ both # NULL /\ Consistent(both) /\ at' = "profile"
            /\ heap' = [Without({link.Lut}) EXCEPT ![link.Result] = both]
            /\ link' = [link EXCEPT !.Lut = Nil, !.Current = ColorSpaceOut, !.i = @ + 1]
  <2>1. Reads(both, Port(EntryColorSpace), Port(Then), Sure, TRUE) /\ Walkable(both)
    BY <1>9, <1>11, ReadsWalks
  <2>2. DOMAIN heap' = DOMAIN heap \ {link.Lut} /\ heap'[link.Result] = both
    BY <1>3, <1>6, <1>11 DEF Without, Restrict
  <2>3. AllWalk'
    <3>1. \A x \in DOMAIN heap' : x # link.Result => heap'[x] = heap[x] /\ x \in DOMAIN heap
      BY <1>3, <1>6, <1>11, <2>2 DEF Without, Restrict
    <3>2. \A x \in DOMAIN heap' : Walkable(heap'[x])
      BY <2>1, <2>2, <3>1 DEF CInv, AllWalk
    <3> QED  BY <3>2 DEF AllWalk
  <2>4. /\ link'.i = link.i + 1 /\ link'.Current = ColorSpaceOut /\ link'.Result = link.Result
        /\ link'.count = link.count /\ link'.handler = link.handler
    BY <1>3, <1>11 DEF Owned, Locals
  <2>5. n' = n /\ Visited' = Visited /\ EntryColorSpace' = EntryColorSpace /\ Sure' = Sure /\ Begun'
    BY <1>1, <2>4, SameCall, SureStays, BegunStays DEF CInv
  <2>6. Counting'
    BY <1>1, <1>3, <2>4, <2>5 DEF Counting
  <2>7. n = 1 => link.i = 1 /\ p = call.profiles[1]
    BY <1>3, <1>8
  <2>8. Now' = Then
    <3>1. Now' = IF n = 1 /\ call.profiles[1].DeviceClass = "NamedColor" THEN call.profiles[1].ColorSpace ELSE ColorSpaceOut
      <4>1. link'.i > 1
        BY <1>3, <1>5, <2>4
      <4> QED  BY <1>1, <2>4, <2>5, <4>1 DEF Now
    <3> QED  BY <1>8, <2>7, <3>1 DEF Then
  <2>9. Then = After(p, link.Current, n > 1)
    BY <1>3, <1>5, SameSpaceAfter
  <2>10. Now' = Visited'[link'.i - 1]
    <3>1. Visited[link.i] = After(call.profiles[link.i], Visited[link.i - 1], n > 1)
      BY <1>3, <1>8, VisitedIs
    <3>2. Visited[link.i] = After(p, link.Current, n > 1)
      BY <1>3, <1>8, <3>1 DEF p
    <3>3. link'.i - 1 = link.i
      BY <1>3, <2>4
    <3> QED  BY <2>5, <2>8, <2>9, <3>2, <3>3
  <2>11. n = 1 /\ call.profiles[1].DeviceClass = "NamedColor" => ColorSpaceOut = "Lab"
    <3> SUFFICES ASSUME n = 1, call.profiles[1].DeviceClass = "NamedColor" PROVE ColorSpaceOut = "Lab"
      OBVIOUS
    <3>1. p.DeviceClass = "NamedColor" /\ link.i = 1
      BY <2>7
    <3>2. lIsInput
      BY <3>1 DEF lIsInput, lIsDeviceLink
    <3> QED  BY <1>8, <3>1, <3>2, SpacesKnown DEF ColorSpaceOut
  <2>12. Reached'
    <3>1. link'.Result # Nil /\ link'.i \in 1..link'.count + 1 /\ link'.i # 1
      <4>1. Nil \notin DOMAIN heap
        BY <1>3 DEF Owned
      <4> QED  BY <1>3, <1>5, <2>4, <4>1
    <3>2. n' = 1 /\ call'.profiles[1].DeviceClass = "NamedColor" => link'.Current = "Lab"
      BY <1>1, <2>4, <2>5, <2>11
    <3>3. Reads(both, Port(EntryColorSpace), Port(Then), Sure, Sure)
      <4>1. Sure \in BOOLEAN
        BY SureIs
      <4> QED  BY <2>1, <4>1, ReadsLess
    <3>4. Reads(heap'[link'.Result], Port(EntryColorSpace'), Port(Now'), Sure', Sure')
      BY <2>2, <2>4, <2>5, <2>8, <3>3
    <3> QED  BY <2>10, <3>1, <3>2, <3>4 DEF Reached
  <2> QED  BY <1>11, <2>3, <2>5, <2>6, <2>12 DEF CInv, Counted, Fetched, Blackened, Complete, Handed, Optimising, Promised
<1> QED  BY <1>2, <1>10, <1>11

LEMMA CheckStep == ASSUME AllRegular, IInv, CInv, LastCheck PROVE CInv'
<1>1. at = "profile" /\ link.i > link.count /\ UNCHANGED <<call, link, unlucky>>
  BY DEF LastCheck
<1>2. \/ /\ Clipped = NULL \/ cmsChannelsOfColorSpace[link.Current] # Clipped.OutputChannels
         /\ at' = "error" /\ UNCHANGED heap
      \/ /\ Clipped # NULL
         /\ heap' = [heap EXCEPT ![link.Result] = Clipped] /\ at' = Returns
  BY DEF LastCheck, Going
<1>3. /\ Owned /\ call.profiles \in Chains /\ Counting /\ n \in Nat /\ link.i \in Nat
      /\ link.count \in Nat /\ link.count >= 1 /\ link.i \in 1..link.count + 1 /\ Now = Visited[link.i - 1]
      /\ link.i > 1 /\ n = 1 /\ call.profiles[1].DeviceClass = "NamedColor" => link.Current = "Lab"
      /\ link.i > 1 => Reads(heap[link.Result], Port(EntryColorSpace), Port(Now), Sure, Sure)
      /\ link.Result \in DOMAIN heap
  BY <1>1, WhileLinking
<1>4. link.i = link.count + 1 /\ link.i > 1 /\ link.i - 1 = link.count
  BY <1>1, <1>3
<1>5. Clips => Now = link.Current
  BY <1>3, <1>4 DEF Clips, Now
<1>6. Reads(Clipped, Port(EntryColorSpace), Port(Now), Sure, Sure)
  <2> DEFINE R == heap[link.Result]
             a == Port(EntryColorSpace)
  <2>1. R = heap[link.Result] /\ Reads(R, a, Port(Now), Sure, Sure)
    BY <1>3, <1>4
  <2> HIDE DEF R, a
  <2>2. Reads(Clipped, a, Port(Now), Sure, Sure)
    BY <1>5, <2>1, ClipHere
  <2> QED  BY <2>2 DEF a
<1>7. Sure => Clipped # NULL /\ cmsChannelsOfColorSpace[link.Current] = Clipped.OutputChannels
  <2> SUFFICES ASSUME Sure PROVE Clipped # NULL /\ cmsChannelsOfColorSpace[link.Current] = Clipped.OutputChannels
    OBVIOUS
  <2>1. Clipped # NULL /\ Leads(Clipped, Port(EntryColorSpace), Port(Now))
    BY <1>6 DEF Reads
  <2>2. n = 2
    BY SureIs DEF Assured
  <2>3. Now = link.Current
    BY <2>2 DEF Now
  <2> QED  BY <2>1, <2>3 DEF Leads, Sized, Port
<1>8. n' = n /\ Visited' = Visited /\ EntryColorSpace' = EntryColorSpace /\ ExitColorSpace' = ExitColorSpace
      /\ Sure' = Sure /\ Begun'
  BY <1>1, SameCall, SureStays, BegunStays DEF CInv
<1>9. CASE /\ Clipped = NULL \/ cmsChannelsOfColorSpace[link.Current] # Clipped.OutputChannels
           /\ at' = "error" /\ UNCHANGED heap
  BY <1>1, <1>7, <1>9, Fails, SureIs
<1>10. CASE /\ Clipped # NULL
            /\ heap' = [heap EXCEPT ![link.Result] = Clipped] /\ at' = Returns
  <2>1. Walkable(Clipped)
    BY <1>6, <1>10, ReadsWalks
  <2>2. AllWalk' /\ heap'[link.Result] = Clipped
    BY <1>3, <1>10, <2>1, HeapSets DEF CInv
  <2>3. Counting'
    BY <1>1, <1>3, <1>8 DEF Counting
  <2>4. ~KeepsBlack => link.handler = "DefaultICCintents"
    BY <1>1 DEF IInv, Joining, Plain
  <2>5. at' = IF link.handler = "DefaultICCintents" THEN "linked" ELSE "keep black"
    BY <1>10, <2>4 DEF Returns
  <2>6. CASE link.handler = "DefaultICCintents"
    <3>1. link.count = n /\ Now = Visited[n]
      BY <1>3, <1>4, <2>6 DEF Counting
    <3>2. Now = ExitColorSpace
      BY <1>3, <3>1, VisitedIs
    <3>3. Complete'
      <4>1. link'.Result # Nil
        BY <1>1, <1>3 DEF Owned
      <4>2. Reads(heap'[link'.Result], Port(EntryColorSpace'), Port(ExitColorSpace'), Sure', Sure')
        BY <1>1, <1>6, <1>8, <2>2, <3>2
      <4> QED  BY <4>1, <4>2 DEF Complete
    <3> QED  BY <1>8, <2>2, <2>5, <2>6, <3>3 DEF CInv, Counted, Reached, Fetched, Blackened, Handed, Optimising, Promised
  <2>7. CASE link.handler # "DefaultICCintents"
    <3>1. ~Sure'
      BY <1>1, <2>7, SureThen
    <3>2. link'.handler # "DefaultICCintents"
      BY <1>1, <2>7
    <3> QED  BY <1>8, <2>2, <2>3, <2>5, <2>7, <3>1, <3>2
             DEF CInv, Counted, Reached, Fetched, Blackened, Complete, Handed, Optimising, Promised
  <2> QED  BY <2>6, <2>7
<1> QED  BY <1>2, <1>9, <1>10

LEMMA ErrorStep == ASSUME AllRegular, IInv, CInv, Error PROVE CInv'
<1>1. /\ at = "error" /\ Owned /\ at' = "clean up" /\ UNCHANGED <<call, unlucky>>
      /\ heap' = Without({link.Lut, link.Result}) /\ link' = [link EXCEPT !.Lut = Nil, !.Result = Nil]
  BY DEF Error, Going, IInv
<1>2. link'.handler = link.handler
  BY <1>1 DEF Owned, Locals
<1>3. AllWalk' /\ Begun' /\ Sure' = Sure
  BY <1>1, <1>2, HeapFrees, BegunStays, SureStays DEF CInv
<1>4. Promised'
  BY <1>1, <1>3 DEF CInv, Promised
<1> QED  BY <1>1, <1>3, <1>4, Over

--------------------
\* Black is kept.

\* The call goes on where nothing that is promised is made.
LEMMA GivesUp ==
    ASSUME CInv, at \in {"link", "keep black", "links"}, at' = "clean up", UNCHANGED call, AllWalk', ~Sure'
    PROVE  CInv'
<1>1. Begun' /\ Promised'
  BY BegunStays DEF CInv, Promised
<1> QED  BY <1>1, Over

LEMMA Unmoved ==
    ASSUME AllWalk, UNCHANGED link, UNCHANGED heap, UNCHANGED call
    PROVE  AllWalk' /\ Sure' = Sure
<1>1. link'.handler = link.handler /\ call'.profiles = call.profiles /\ call'.Intent = call.Intent
  OBVIOUS
<1> QED  BY <1>1, SureStays DEF AllWalk

\* What keeps black is made, and the links after it appended.
LEMMA BlackStep == ASSUME AllRegular, IInv, CInv, KeepBlack PROVE CInv'
<1>1. at = "keep black" /\ Owned /\ UNCHANGED call /\ Counting /\ link.handler # "DefaultICCintents"
  BY DEF KeepBlack, IInv, CInv, Counted, Blackened
<1> DEFINE CLUT == cmsStageAllocCLut16bit(4, 4, "CMYK", "CMYK", Once("black", "kept", 0) \o Word(heap[link.Result]))
           kept == cmsPipelineInsertStage(cmsPipelineAlloc(4, 4), AT_BEGIN, CLUT)
           id == IF link.Kept = Nil THEN Fresh ELSE link.Kept
<1>2. \/ at' = "clean up" /\ UNCHANGED <<link, heap>>
      \/ /\ at' = "links" /\ heap' = Adding(heap, id, kept)
         /\ link' = [link EXCEPT !.Kept = id, !.i = link.count + 1]
  BY DEF KeepBlack, Going
<1>3. Goes(CLUT, "CMYK", 4, "CMYK", 4)
  BY Allocated
<1> HIDE DEF CLUT
<1>4. Fine(kept, Port("CMYK"), Port("CMYK"))
  <2>1. Proper(CLUT) /\ Takes(CLUT) = Port("CMYK") /\ Gives(CLUT) = Port("CMYK")
    BY <1>3, Ports DEF Goes
  <2> QED  BY <2>1, FirstFine
<1>5. kept.Elements # <<>>
  <2>1. \E e : /\ kept.Elements = e /\ e = <<CLUT>> \o cmsPipelineAlloc(4, 4).Elements
    <3> DEFINE l == cmsPipelineAlloc(4, 4)
    <3>1. Whole(l)
      BY Alloc
    <3> HIDE DEF l
    <3> DEFINE m == [l EXCEPT !.Elements = <<CLUT>> \o @]
    <3>2. DOMAIN m = LutFields /\ m.Elements = <<CLUT>> \o l.Elements
      BY <3>1 DEF Whole, LutFields
    <3>3. kept = Blessed(m)
      BY DEF cmsPipelineInsertStage, AT_BEGIN, AT_END, l
    <3> HIDE DEF m
    <3>4. Blessed(m).Elements = m.Elements
      BY <3>2, BlessedElements
    <3> QED  BY <3>2, <3>3, <3>4 DEF l
  <2>2. cmsPipelineAlloc(4, 4).Elements = <<>>
    BY Alloc
  <2>3. IsSeq(<<CLUT>>) /\ IsSeq(<<>>) /\ <<CLUT>> # <<>>
    BY OneStage, PathNone DEF Path
  <2>4. <<CLUT>> \o <<>> # <<>>
    BY <2>3, JoinedNone
  <2> QED  BY <2>1, <2>2, <2>4
<1> HIDE DEF kept, id
<1>6. ~Sure
  BY <1>1, SureIs
<1>7. CASE at' = "clean up" /\ UNCHANGED <<link, heap>>
  <2>1. AllWalk /\ UNCHANGED link /\ UNCHANGED heap
    BY <1>7 DEF CInv
  <2>2. AllWalk' /\ Sure' = Sure
    BY <1>1, <2>1, Unmoved
  <2> QED  BY <1>1, <1>6, <1>7, <2>2, GivesUp
<1>8. CASE /\ at' = "links" /\ heap' = Adding(heap, id, kept)
           /\ link' = [link EXCEPT !.Kept = id, !.i = link.count + 1]
  <2>1. Walkable(kept) /\ Whole(kept)
    BY <1>4, FineWalks
  <2>2. AllWalk' /\ heap'[id] = kept
    BY <1>8, <2>1, HeapAdds DEF CInv
  <2>3. link'.Kept = id /\ link'.i = link.count + 1 /\ link'.count = link.count /\ link'.handler = link.handler
    BY <1>1, <1>8 DEF Owned, Locals
  <2>4. n' = n /\ Begun' /\ Sure' = Sure
    BY <1>1, <2>3, SameCall, SureStays, BegunStays DEF CInv
  <2>5. Counting'
    BY <1>1, <2>3, <2>4 DEF Counting
  <2>6. Path(kept.Elements, Port("CMYK"), Port("CMYK"))
    BY <1>4 DEF Fine, Leads
  <2>7. Black(kept, "CMYK")
    <3>1. "CMYK" \in Known
      BY Channels
    <3> QED  BY <1>5, <2>1, <2>6, <3>1 DEF Black, Alike
  <2>8. Blackened'
    <3>1. LinkedTo' = "CMYK"
      BY <2>3 DEF LinkedTo
    <3>2. link'.i \in link'.count + 1..n' + 1
      <4>1. n \in Nat /\ link.count \in 1..n
        BY <1>1, CallIs DEF Counting
      <4> QED  BY <2>3, <2>4, <4>1
    <3>3. Black(heap'[link'.Kept], LinkedTo') /\ Path(heap'[link'.Kept].Elements, Port("CMYK"), Port("CMYK"))
      BY <2>2, <2>3, <2>6, <2>7, <3>1
    <3> QED  BY <1>1, <2>3, <3>2, <3>3 DEF Blackened
  <2> QED  BY <1>6, <1>8, <2>2, <2>4, <2>5, <2>8
           DEF CInv, Counted, Reached, Fetched, Complete, Handed, Optimising, Promised
<1> QED  BY <1>2, <1>7, <1>8

\* A link that is left for later goes from CMYK to where it says.
LEMMA DevlinkReads ==
    ASSUME AllRegular, IInv, CInv, at = "links", link.i <= n
    PROVE  /\ Owned /\ Counting /\ ~Sure /\ link.handler # "DefaultICCintents" /\ n \in Nat /\ link.i \in Nat
           /\ link.count \in Nat /\ link.i \in link.count + 1..n /\ p.PCS \in Known
           /\ devlink # NULL => Walkable(devlink) /\ Whole(devlink) /\ Leads(devlink, Port("CMYK"), Port(p.PCS))
           /\ link.Kept # Nil => link.Kept \in DOMAIN heap /\ Black(heap[link.Kept], LinkedTo) /\ LinkedTo \in Known
<1>1. Owned /\ Counting /\ link.handler # "DefaultICCintents" /\ link.i \in link.count + 1..n + 1 /\ Intent \in 0..3
  BY DEF IInv, CInv, Begun, Counted, Blackened
<1>2. n \in Nat /\ link.count \in 1..n /\ \A k \in 1..n : Regular(call.profiles[k])
  BY <1>1, CallIs DEF Counting
<1>3. link.i \in Nat /\ link.count \in Nat /\ link.i \in link.count + 1..n /\ link.i \in 1..n
  BY <1>1, <1>2
<1>4. Regular(p) /\ p.DeviceClass = "Link" /\ p.ColorSpace = "CMYK"
  BY <1>1, <1>2, <1>3 DEF p, Counting, is_cmyk_devicelink
<1>5. Exact(p) /\ p.PCS \in Known
  BY <1>4, SpacesKnown, Exactly
<1>6. Reads(devlink, Port("CMYK"), Port(p.PCS), Exact(p), FALSE)
  BY <1>1, <1>4, LinksRead DEF devlink
<1>7. devlink # NULL => Walkable(devlink) /\ Whole(devlink) /\ Leads(devlink, Port("CMYK"), Port(p.PCS))
  <2>1. devlink # NULL => Walkable(devlink)
    BY <1>6, ReadsWalks
  <2> QED  BY <1>5, <1>6, <2>1 DEF Reads
<1>8. link.Kept # Nil => link.Kept \in DOMAIN heap /\ Black(heap[link.Kept], LinkedTo)
  <2>1. link.Kept # Nil => link.Kept \in DOMAIN heap
    BY <1>1, HeldIs DEF Owners
  <2>2. link.Kept # Nil => Black(heap[link.Kept], LinkedTo)
    BY DEF CInv, Blackened
  <2> QED  BY <2>1, <2>2
<1>9. LinkedTo \in Known
  <2>1. CASE link.i = link.count + 1
    BY <2>1, Channels DEF LinkedTo
  <2>2. CASE link.i # link.count + 1
    <3>1. link.i - 1 \in 1..n
      BY <1>2, <1>3, <2>2
    <3> QED  BY <1>2, <2>2, <3>1, SpacesKnown DEF LinkedTo
  <2> QED  BY <2>1, <2>2
<1> QED  BY <1>1, <1>2, <1>3, <1>5, <1>7, <1>8, <1>9, SureIs

\* The next link is for later, and there is no table, or it goes on to where this one led.
LEMMA LinksGoOn ==
    ASSUME AllRegular, IInv, CInv, at = "links", link.i <= n, at' = "links", UNCHANGED call, AllWalk',
           link'.i = link.i + 1, link'.count = link.count, link'.handler = link.handler,
           link'.Kept # Nil => Black(heap'[link'.Kept], p.PCS)
    PROVE  CInv'
<1>1. /\ Counting /\ ~Sure /\ link.handler # "DefaultICCintents" /\ n \in Nat /\ link.i \in Nat
      /\ link.count \in Nat /\ link.i \in link.count + 1..n
  BY DevlinkReads
<1>2. n' = n /\ Begun' /\ Sure' = Sure
  BY SameCall, SureStays, BegunStays DEF CInv
<1>3. Counting'
  BY <1>1, <1>2 DEF Counting
<1>4. LinkedTo' = p.PCS
  <2>1. link'.i # link'.count + 1 /\ link'.i - 1 = link.i
    BY <1>1
  <2> QED  BY <2>1 DEF LinkedTo, p
<1>5. Blackened'
  <2>1. link'.i \in link'.count + 1..n' + 1 /\ link'.i # link'.count + 1
    BY <1>1, <1>2
  <2> QED  BY <1>1, <1>4, <2>1 DEF Blackened
<1> QED  BY <1>1, <1>2, <1>3, <1>5 DEF CInv, Counted, Reached, Fetched, Complete, Handed, Optimising, Promised

LEMMA AppendFailsStep ==
    ASSUME AllRegular, IInv, CInv, at = "links", link.i <= n, devlink # NULL, AppendFails, UNCHANGED call
    PROVE  CInv'
<1>1. Owned /\ Walkable(devlink) /\ ~Sure
  BY DevlinkReads
<1>2. AllWalk'
  <2> DEFINE h == IF KeepsPlane THEN Without({link.Kept}) ELSE heap
  <2>1. \A x \in DOMAIN h : x \in DOMAIN heap /\ h[x] = heap[x]
    BY DEF Without, Restrict
  <2>2. heap' = Adding(h, Fresh, devlink)
    BY DEF AppendFails
  <2> HIDE DEF h
  <2>3. \A x \in DOMAIN heap' : heap'[x] = devlink \/ (x \in DOMAIN heap /\ heap'[x] = heap[x])
    BY <2>1, <2>2 DEF Adding
  <2>4. \A x \in DOMAIN heap' : Walkable(heap'[x])
    BY <1>1, <2>3 DEF CInv, AllWalk
  <2> QED  BY <2>4 DEF AllWalk
<1>3. /\ link'.i = link.i + 1 /\ link'.count = link.count /\ link'.handler = link.handler
      /\ KeepsPlane => link'.Kept = Nil
  BY <1>1 DEF Owned, Locals, AppendFails
<1>4. CASE KeepsPlane
  <2>1. at' = "links"
    BY <1>4 DEF AppendFails, Going
  <2> QED  BY <1>2, <1>3, <1>4, <2>1, LinksGoOn
<1>5. CASE ~KeepsPlane
  <2>1. at' = "clean up"
    BY <1>5 DEF AppendFails, Going
  <2>2. ~Sure'
    BY <1>1, <1>3, SureStays
  <2> QED  BY <1>2, <2>1, <2>2, GivesUp
<1> QED  BY <1>4, <1>5

LEMMA AppendStep == ASSUME AllRegular, IInv, CInv, Append_devlink PROVE CInv'
<1>1. at = "links" /\ link.i <= n /\ UNCHANGED <<call, unlucky>>
  BY DEF Append_devlink
<1>2. /\ Owned /\ ~Sure /\ p.PCS \in Known
      /\ devlink # NULL => Walkable(devlink) /\ Whole(devlink) /\ Leads(devlink, Port("CMYK"), Port(p.PCS))
      /\ link.Kept # Nil => link.Kept \in DOMAIN heap /\ Black(heap[link.Kept], LinkedTo) /\ LinkedTo \in Known
  BY <1>1, DevlinkReads
<1>3. CASE UNCHANGED <<link, heap>> /\ at' \in {"clean up", "undefined"}
  <2>1. AllWalk /\ UNCHANGED link /\ UNCHANGED heap /\ UNCHANGED call
    BY <1>1, <1>3 DEF CInv
  <2>2. AllWalk' /\ Sure' = Sure
    BY <2>1, Unmoved
  <2>3. Begun'
    BY <1>1, BegunStays DEF CInv
  <2>4. Promised'
    BY <1>2, <2>2 DEF Promised
  <2> QED  BY <1>3, <2>2, <2>3, <2>4, Over
<1>4. CASE /\ devlink # NULL /\ link.Kept # Nil /\ Consistent(Appended) /\ at' = "links"
           /\ heap' = Adding([heap EXCEPT ![link.Kept] = Appended], Fresh, devlink)
           /\ link' = [link EXCEPT !.i = @ + 1, !.forgotten = @ \union {Fresh}]
  <2>1. Black(Appended, p.PCS)
    <3> DEFINE R == heap[link.Kept]
    <3>1. Black(R, LinkedTo) /\ Consistent(cmsPipelineCat(R, devlink)) /\ Appended = cmsPipelineCat(R, devlink)
      BY <1>2, <1>4 DEF Appended
    <3> HIDE DEF R
    <3> QED  BY <1>2, <1>4, <3>1, BlackGoesOn
  <2>2. Fresh \notin DOMAIN heap /\ link.Kept \in DOMAIN heap
    BY <1>2, <1>4, FreshIsFree DEF Owned
  <2>3. /\ heap'[link.Kept] = Appended
        /\ \A x \in DOMAIN heap' : \/ heap'[x] \in {Appended, devlink}
                                   \/ x \in DOMAIN heap /\ heap'[x] = heap[x]
    <3> DEFINE h == [heap EXCEPT ![link.Kept] = Appended]
    <3>1. DOMAIN h = DOMAIN heap /\ h[link.Kept] = Appended /\ \A x \in DOMAIN heap : x # link.Kept => h[x] = heap[x]
      BY <2>2
    <3>2. heap' = Adding(h, Fresh, devlink)
      BY <1>4
    <3> HIDE DEF h
    <3> QED  BY <2>2, <3>1, <3>2 DEF Adding
  <2>4. AllWalk'
    <3>1. Walkable(Appended)
      BY <2>1, BlackWalks
    <3>2. \A x \in DOMAIN heap' : Walkable(heap'[x])
      BY <1>2, <1>4, <2>3, <3>1 DEF CInv, AllWalk
    <3> QED  BY <3>2 DEF AllWalk
  <2>5. /\ link'.i = link.i + 1 /\ link'.count = link.count /\ link'.handler = link.handler /\ link'.Kept = link.Kept
    BY <1>2, <1>4 DEF Owned, Locals
  <2> QED  BY <1>1, <1>4, <2>1, <2>3, <2>4, <2>5, LinksGoOn
<1>5. CASE devlink # NULL /\ AppendFails
  BY <1>1, <1>5, AppendFailsStep
<1> QED  BY <1>3, <1>4, <1>5 DEF Append_devlink, Going

LEMMA KeptStep == ASSUME AllRegular, IInv, CInv, BlackIsKept PROVE CInv'
<1>1. /\ at = "links" /\ link.i > n /\ Owned /\ UNCHANGED <<call, unlucky>>
      /\ heap' = Without({link.Result, link.LabK})
      /\ link' = [link EXCEPT !.Result = link.Kept, !.Kept = Nil, !.LabK = Nil]
      /\ at' = IF link.Kept = Nil THEN "refused" ELSE "linked"
  BY DEF BlackIsKept, Going, IInv
<1>2. AllWalk' /\ \A x \in DOMAIN heap \ {link.Result, link.LabK} : heap'[x] = heap[x]
  BY <1>1, HeapFrees DEF CInv
<1>3. link'.Result = link.Kept /\ link'.handler = link.handler
  BY <1>1 DEF Owned, Locals
<1>4. Counting /\ link.handler # "DefaultICCintents" /\ link.i \in link.count + 1..n + 1
  BY <1>1 DEF CInv, Counted, Blackened
<1>5. ~Sure /\ Sure' = Sure /\ Begun' /\ ExitColorSpace' = ExitColorSpace
  BY <1>1, <1>3, <1>4, SureIs, SureStays, BegunStays, SameCall DEF CInv
<1>6. CASE link.Kept = Nil
  <2>1. Promised'
    BY <1>5 DEF Promised
  <2> QED  BY <1>1, <1>2, <1>5, <1>6, <2>1, Over
<1>7. CASE link.Kept # Nil
  <2>1. /\ Black(heap[link.Kept], LinkedTo)
        /\ link.i = link.count + 1 => Path(heap[link.Kept].Elements, Port("CMYK"), Port("CMYK"))
    BY <1>1, <1>7 DEF CInv, Blackened
  <2>2. heap'[link.Kept] = heap[link.Kept]
    <3>1. "Kept" \in Owners /\ "Result" \in Owners /\ "LabK" \in Owners /\ "Result" # "Kept" /\ "LabK" # "Kept"
      BY DEF Owners
    <3>2. link.Kept \in DOMAIN heap /\ link.Result # link.Kept /\ link.LabK # link.Kept
      BY <1>1, <1>7, <3>1, HeldIs
    <3> QED  BY <1>2, <3>2
  <2>3. Black(heap[link.Kept], ExitColorSpace)
    <3>1. CASE link.i = link.count + 1
      <4> DEFINE K == heap[link.Kept]
      <4>1. Whole(K) /\ K.Elements # <<>> /\ Path(K.Elements, Port("CMYK"), Port("CMYK"))
        BY <2>1, <3>1 DEF Black
      <4> HIDE DEF K
      <4>2. Black(K, ExitColorSpace)
        BY <4>1, Channels DEF Black, Alike
      <4> QED  BY <4>2 DEF K
    <3>2. CASE link.i # link.count + 1
      <4>1. n \in Nat /\ call.profiles \in Chains /\ link.count \in 1..n
        BY <1>1, <1>4, CallIs DEF Counting
      <4>2. link.i = n + 1 /\ link.i - 1 = n /\ n \in link.count + 1..n /\ n \in 1..n
        BY <1>1, <1>4, <3>2, <4>1
      <4>3. call.profiles[n].DeviceClass = "Link"
        BY <1>4, <4>2 DEF Counting, is_cmyk_devicelink
      <4>4. Visited[n] = After(call.profiles[n], Visited[n - 1], n > 1) /\ Visited[n] = ExitColorSpace
        BY <4>1, <4>2, VisitedIs
      <4>5. ExitColorSpace = call.profiles[n].PCS
        BY <4>3, <4>4 DEF After
      <4>6. LinkedTo = call.profiles[n].PCS
        BY <3>2, <4>2 DEF LinkedTo
      <4> QED  BY <2>1, <4>5, <4>6
    <3> QED  BY <3>1, <3>2
  <2>4. Complete'
    <3>1. Black(heap'[link'.Result], ExitColorSpace')
      BY <1>3, <1>5, <2>2, <2>3
    <3> QED  BY <1>3, <1>5, <1>7, <3>1 DEF Complete
  <2> QED  BY <1>1, <1>2, <1>5, <1>7, <2>4 DEF CInv, Counted, Reached, Fetched, Blackened, Handed, Optimising, Promised
<1> QED  BY <1>6, <1>7

LEMMA CleanStep == ASSUME AllRegular, IInv, CInv, CleanUp PROVE CInv'
<1>1. /\ at = "clean up" /\ Owned /\ at' = "refused" /\ UNCHANGED <<call, unlucky>>
      /\ heap' = Without({link.Result, link.Kept, link.LabK})
      /\ link' = [link EXCEPT !.Result = Nil, !.Kept = Nil, !.LabK = Nil]
  BY DEF CleanUp, Going, IInv
<1>2. link'.handler = link.handler
  BY <1>1 DEF Owned, Locals
<1>3. AllWalk' /\ Begun' /\ Sure' = Sure
  BY <1>1, <1>2, HeapFrees, BegunStays, SureStays DEF CInv
<1>4. Promised'
  BY <1>1, <1>3 DEF CInv, Promised
<1> QED  BY <1>1, <1>3, <1>4, Over

--------------------
\* The transform, and what becomes of its pipeline.

\* The transform is refused.
LEMMA Refuses ==
    ASSUME CInv, Owned, at = "linked", at' = "refused", UNCHANGED call,
           heap' = Without({link.Result}), link' = [link EXCEPT !.Result = Nil], unlucky' # {} \/ ~Sure
    PROVE  CInv'
<1>1. link'.handler = link.handler
  BY DEF Owned, Locals
<1>2. AllWalk' /\ Begun' /\ Sure' = Sure
  BY <1>1, HeapFrees, BegunStays, SureStays DEF CInv
<1>3. Promised'
  BY <1>2 DEF Promised
<1> QED  BY <1>2, <1>3, Over

\* The transform is made, optimised and deleted.
LEMMA TransformStep == ASSUME AllRegular, IInv, CInv, cmsCreateExtendedTransform PROVE CInv'
<1>1. at = "linked" /\ Owned /\ UNCHANGED <<call, unlucky>> /\ call.profiles \in Chains
  <2>1. at = "linked" /\ Owned /\ UNCHANGED <<call, unlucky>>
    BY DEF cmsCreateExtendedTransform, IInv
  <2> QED  BY <2>1, CallIs
<1> DEFINE R == heap[link.Result]
<1>2. \/ /\ ~ChannelsFit /\ at' = "refused"
         /\ heap' = Without({link.Result}) /\ link' = [link EXCEPT !.Result = Nil]
      \/ /\ ChannelsFit /\ at' = "optimise" /\ UNCHANGED heap
         /\ link' = [link EXCEPT !.Result = Nil, !.Lut = link.Result]
  BY DEF cmsCreateExtendedTransform, Going
<1>3. /\ link.Result # Nil
      /\ \/ Reads(R, Port(EntryColorSpace), Port(ExitColorSpace), Sure, Sure)
         \/ ~Sure /\ Black(R, ExitColorSpace)
  BY <1>1 DEF CInv, Complete
<1>4. ChannelsFit <=> /\ R.InputChannels = cmsChannelsOfColorSpace[EntryColorSpace]
                      /\ R.OutputChannels = cmsChannelsOfColorSpace[ExitColorSpace]
  BY DEF ChannelsFit
<1>5. Whole(R)
  <2>1. link.Result \in DOMAIN heap
    BY <1>1, <1>3, HeldIs DEF Owners
  <2> QED  BY <2>1 DEF CInv, AllWalk, Walkable
<1>6. EntryColorSpace \in Known /\ ExitColorSpace \in Known
  <2>1. \E q : q = call.profiles[1]
    OBVIOUS
  <2> QED  BY <1>1, <2>1, EntryIs, VisitedIs
<1> DEFINE a == EntryColorSpace
           b == ExitColorSpace
<1>8. Sure => ChannelsFit
  <2> SUFFICES ASSUME Sure PROVE ChannelsFit
    OBVIOUS
  <2>1. Leads(R, Port(a), Port(b))
    BY <1>3, <1>5, NullIsNot DEF Reads
  <2> HIDE DEF R, a, b
  <2>2. R.InputChannels = cmsChannelsOfColorSpace[a] /\ R.OutputChannels = cmsChannelsOfColorSpace[b]
    BY <2>1 DEF Leads, Sized, Port
  <2> QED  BY <1>4, <2>2 DEF R, a, b
<1>9. ChannelsFit => Fine(R, Port(a), Port(b))
  <2> SUFFICES ASSUME ChannelsFit PROVE Fine(R, Port(a), Port(b))
    OBVIOUS
  <2>1. R.InputChannels = cmsChannelsOfColorSpace[a] /\ R.OutputChannels = cmsChannelsOfColorSpace[b]
    BY <1>4
  <2>2. a \in Known /\ b \in Known /\ Whole(R)
    BY <1>5, <1>6
  <2>3. Reads(R, Port(a), Port(b), Sure, Sure) \/ Black(R, b)
    BY <1>3
  <2> HIDE DEF R, a, b
  <2>4. CASE Reads(R, Port(a), Port(b), Sure, Sure)
    <3>1. Runs(R, Port(a)[1], Port(b)[1])
      BY <2>2, <2>4, NullIsNot DEF Reads
    <3>2. Runs(R, Encoding(a, "pixels"), Encoding(b, "pixels"))
      BY <3>1 DEF Port
    <3> QED  BY <2>1, <2>2, <3>2, RunsFit
  <2>5. CASE Black(R, b)
    BY <2>1, <2>2, <2>5, BlackFits
  <2> QED  BY <2>3, <2>4, <2>5
<1>10. CASE /\ ~ChannelsFit /\ at' = "refused"
            /\ heap' = Without({link.Result}) /\ link' = [link EXCEPT !.Result = Nil]
  BY <1>1, <1>8, <1>10, Refuses
<1>11. CASE /\ ChannelsFit /\ at' = "optimise" /\ UNCHANGED heap
            /\ link' = [link EXCEPT !.Result = Nil, !.Lut = link.Result]
  <2>1. link'.Lut = link.Result /\ link'.handler = link.handler
    BY <1>1, <1>11 DEF Owned, Locals
  <2>2. AllWalk' /\ Begun' /\ EntryColorSpace' = EntryColorSpace /\ ExitColorSpace' = ExitColorSpace
    BY <1>1, <1>11, SameCall, BegunStays DEF CInv, AllWalk
  <2>3. Fine(heap'[link'.Lut], Port(EntryColorSpace'), Port(ExitColorSpace'))
    BY <1>9, <1>11, <2>1, <2>2
  <2>4. Handed'
    BY <1>3, <1>11, <2>1, <2>3 DEF Handed
  <2> QED  BY <1>11, <2>2, <2>4 DEF CInv, Counted, Reached, Fetched, Blackened, Complete, Promised
<1> QED  BY <1>2, <1>10, <1>11

\* The transform's pipeline is, or is replaced by, one that goes between the same spaces.
LEMMA StillHanded ==
    ASSUME CInv, at \in Optimising, at' \in Optimising, AllWalk',
           call'.profiles = call.profiles, call'.Intent = call.Intent, DOMAIN call' = DOMAIN call,
           link'.Lut = link.Lut, Fine(heap'[link.Lut], Port(EntryColorSpace), Port(ExitColorSpace)),
           at' = "preoptimise" => link'.pass \in 1..Passes + 1,
           at' = "try" => link'.pass \in 1..4 /\ (link'.pass < 4 => heap'[link.Lut].Elements # <<>>)
    PROVE  CInv'
<1>1. Begun' /\ EntryColorSpace' = EntryColorSpace /\ ExitColorSpace' = ExitColorSpace
  BY SameCall, BegunStays DEF CInv, Optimising
<1>2. Handed'
  <2>1. link.Lut # Nil
    BY DEF CInv, Handed
  <2>2. Fine(heap'[link'.Lut], Port(EntryColorSpace'), Port(ExitColorSpace'))
    BY <1>1
  <2>3. at' = "try" => link'.pass \in 1..4 /\ (link'.pass < 4 => heap'[link'.Lut].Elements # <<>>)
    OBVIOUS
  <2> QED  BY <2>1, <2>2, <2>3 DEF Handed
<1> QED  BY <1>1, <1>2 DEF CInv, Counted, Reached, Fetched, Blackened, Complete, Promised, Optimising

\* The transform has a pipeline between its spaces.
LEMMA HandedIs ==
    ASSUME AllRegular, IInv, CInv, at \in Optimising
    PROVE  /\ Owned /\ call.profiles \in Chains /\ DOMAIN call = CallFields
           /\ link.Lut \in DOMAIN heap /\ Fine(Lut, Port(EntryColorSpace), Port(ExitColorSpace))
           /\ at = "preoptimise" => link.pass \in 1..Passes + 1
           /\ at = "try" => link.pass \in 1..4 /\ (link.pass < 4 => Lut.Elements # <<>>)
<1>1. Owned /\ call.profiles \in Chains /\ DOMAIN call = CallFields
  BY CallIs DEF IInv, Optimising
<1>2. /\ link.Lut # Nil /\ Fine(heap[link.Lut], Port(EntryColorSpace), Port(ExitColorSpace))
      /\ at = "preoptimise" => link.pass \in 1..Passes + 1
      /\ at = "try" => link.pass \in 1..4 /\ (link.pass < 4 => heap[link.Lut].Elements # <<>>)
  BY DEF CInv, Handed
<1>3. link.Lut \in DOMAIN heap
  BY <1>1, <1>2, HeldIs DEF Owners
<1> QED  BY <1>1, <1>2, <1>3 DEF Lut

\* It is as it was.
LEMMA HandedStays ==
    ASSUME AllRegular, IInv, CInv, at \in Optimising, at' \in Optimising, UNCHANGED call, UNCHANGED heap,
           link'.Lut = link.Lut,
           at' = "preoptimise" => link'.pass \in 1..Passes + 1,
           at' = "try" => link'.pass \in 1..4 /\ (link'.pass < 4 => Lut.Elements # <<>>)
    PROVE  CInv'
<1>1. Fine(heap'[link.Lut], Port(EntryColorSpace), Port(ExitColorSpace)) /\ heap'[link.Lut] = Lut
  BY HandedIs DEF Lut
<1>2. AllWalk'
  BY DEF CInv, AllWalk
<1> QED  BY <1>1, <1>2, StillHanded

\* It is replaced.
LEMMA HandedAgain ==
    ASSUME AllRegular, IInv, CInv, at \in Optimising, at' \in Optimising, at' # "try",
           call'.profiles = call.profiles, call'.Intent = call.Intent, DOMAIN call' = DOMAIN call,
           link'.Lut = link.Lut,
           NEW l, Fine(l, Port(EntryColorSpace), Port(ExitColorSpace)), heap' = [heap EXCEPT ![link.Lut] = l],
           at' = "preoptimise" => link'.pass \in 1..Passes + 1
    PROVE  CInv'
<1>1. link.Lut \in DOMAIN heap /\ Walkable(l)
  BY HandedIs, FineWalks
<1>2. AllWalk' /\ heap'[link.Lut] = l
  BY <1>1, HeapSets DEF CInv
<1> QED  BY <1>2, StillHanded

LEMMA IdentityAgain ==
    ASSUME AllRegular, IInv, CInv, at \in Optimising, at' = "done", UNCHANGED call, UNCHANGED link,
           heap' = [heap EXCEPT ![link.Lut] = FastIdentity(@)]
    PROVE  CInv'
<1>1. Fine(FastIdentity(Lut), Port(EntryColorSpace), Port(ExitColorSpace))
  BY HandedIs, FineIdentity
<1>2. heap' = [heap EXCEPT ![link.Lut] = FastIdentity(Lut)]
  BY DEF Lut
<1> QED  BY <1>1, <1>2, HandedAgain DEF Optimising

LEMMA OptimiseStep == ASSUME AllRegular, IInv, CInv, _cmsOptimizePipeline PROVE CInv'
<1>1. at = "optimise" /\ at \in Optimising /\ UNCHANGED <<call, unlucky>>
  BY DEF _cmsOptimizePipeline, Optimising
<1>2. DOMAIN link = Locals
  BY <1>1, HandedIs DEF Owned
<1>3. CASE link' = [link EXCEPT !.pass = 1, !.Opt = FALSE] /\ at' = "preoptimise" /\ UNCHANGED heap
  <2>1. link'.Lut = link.Lut /\ link'.pass = 1
    BY <1>2, <1>3 DEF Locals
  <2>2. 1 \in 1..Passes + 1
    BY PairsFit
  <2> QED  BY <1>1, <1>3, <2>1, <2>2, HandedStays DEF Optimising
<1>4. CASE heap' = [heap EXCEPT ![link.Lut] = FastIdentity(@)] /\ at' = "done" /\ UNCHANGED link
  BY <1>1, <1>4, IdentityAgain
<1>5. CASE at' = "done" /\ UNCHANGED <<link, heap>>
  BY <1>1, <1>5, HandedStays DEF Optimising
<1> QED  BY <1>3, <1>4, <1>5 DEF _cmsOptimizePipeline, Going

LEMMA PreoptimiseStep == ASSUME AllRegular, IInv, CInv, PreOptimize PROVE CInv'
<1> DEFINE it == Preoptimised(Lut, link.pass)
<1>1. /\ at = "preoptimise" /\ at \in Optimising /\ at' = at /\ link.pass <= Passes /\ UNCHANGED <<call, unlucky>>
      /\ heap' = [heap EXCEPT ![link.Lut] = it.lut]
      /\ link' = [link EXCEPT !.pass = @ + 1, !.Opt = @ \/ it.opt]
  BY DEF PreOptimize, Optimising
<1>2. /\ Owned /\ Fine(Lut, Port(EntryColorSpace), Port(ExitColorSpace)) /\ link.pass \in 1..Passes + 1 /\ Passes = 8
  BY <1>1, HandedIs, PairsFit
<1>3. link.pass \in 1..Passes /\ link.pass + 1 \in 1..Passes + 1
  BY <1>1, <1>2
<1>4. Fine(it.lut, Port(EntryColorSpace), Port(ExitColorSpace))
  <2> DEFINE l == Lut
             a == Port(EntryColorSpace)
             b == Port(ExitColorSpace)
  <2>1. Whole(l) /\ Leads(l, a, b)
    BY <1>2 DEF Fine
  <2> HIDE DEF l, a, b
  <2>2. Whole(Preoptimised(l, link.pass).lut) /\ Leads(Preoptimised(l, link.pass).lut, a, b)
    BY <1>3, <2>1, PreoptimisedLeads
  <2> QED  BY <2>2 DEF Fine, l, a, b
<1> HIDE DEF it
<1>5. link'.Lut = link.Lut /\ link'.pass = link.pass + 1
  BY <1>1, <1>2 DEF Owned, Locals
<1> QED  BY <1>1, <1>3, <1>4, <1>5, HandedAgain

LEMMA RoundStep == ASSUME AllRegular, IInv, CInv, Round PROVE CInv'
<1>1. at = "preoptimise" /\ at \in Optimising /\ UNCHANGED <<call, unlucky>>
  BY DEF Round, Optimising
<1>2. DOMAIN link = Locals
  BY <1>1, HandedIs DEF Owned
<1>3. CASE link' = [link EXCEPT !.pass = 1, !.Opt = FALSE] /\ UNCHANGED <<at, heap>>
  <2>1. link'.Lut = link.Lut /\ link'.pass = 1
    BY <1>2, <1>3 DEF Locals
  <2>2. 1 \in 1..Passes + 1
    BY PairsFit
  <2> QED  BY <1>1, <1>3, <2>1, <2>2, HandedStays
<1>4. CASE heap' = [heap EXCEPT ![link.Lut] = FastIdentity(@)] /\ at' = "done" /\ UNCHANGED link
  BY <1>1, <1>4, IdentityAgain
<1>5. CASE at' = "done" /\ UNCHANGED <<link, heap>>
  BY <1>1, <1>5, HandedStays DEF Optimising
<1>6. CASE /\ Forced \/ (Lut.Elements # <<>> /\ "NOOPTIMIZE" \notin dwFlags)
           /\ link' = [link EXCEPT !.pass = IF Forced THEN 4 ELSE 1]
           /\ at' = "try" /\ UNCHANGED heap
  <2>1. link'.Lut = link.Lut /\ link'.pass = IF Forced THEN 4 ELSE 1
    BY <1>2, <1>6 DEF Locals
  <2>2. link'.pass \in 1..4 /\ (link'.pass < 4 => Lut.Elements # <<>>)
    BY <1>6, <2>1
  <2> QED  BY <1>1, <1>6, <2>1, <2>2, HandedStays DEF Optimising
<1> QED  BY <1>3, <1>4, <1>5, <1>6 DEF Round, Going

\* Each optimisation keeps the ends of the pipeline.
LEMMA AttemptFine ==
    ASSUME AllRegular, IInv, CInv, at = "try", NEW suitable, Attempt(link.pass, suitable).ok
    PROVE  Fine(Attempt(link.pass, suitable).lut, Port(EntryColorSpace), Port(ExitColorSpace))
<1> DEFINE l == Lut
           in == InputFormat
           out == OutputFormat
           a == Port(EntryColorSpace)
           b == Port(ExitColorSpace)
<1>1. Fine(l, a, b) /\ link.pass \in 1..4 /\ (link.pass < 4 => l.Elements # <<>>)
  BY HandedIs DEF Optimising
<1>2. in.space = IF EntryColorSpace = "named" THEN "any" ELSE EntryColorSpace
  BY DEF InputFormat, Format
<1>3. in.space = "RGB" => a[2] = 3
  BY <1>2, Ports
<1>4. in.space # "any" => \E i : a = <<Encoding(in.space, "pixels"), i>>
  BY <1>2 DEF Port
<1>5. link.pass = 1 \/ link.pass = 2 \/ link.pass = 3 \/ link.pass = 4
  BY <1>1
<1> DEFINE it == Attempt(link.pass, suitable)
<1>6. it.ok
  OBVIOUS
<1>7. /\ link.pass = 1 => it = OptimizeByJoiningCurves(l, in, out)
      /\ link.pass = 2 => it = OptimizeMatrixShaper(l, in, out)
      /\ link.pass = 3 => it = OptimizeByComputingLinearization(l, in, out, dwFlags, absolute, suitable)
      /\ link.pass = 4 => it = OptimizeByResampling(l, in, out, dwFlags, absolute)
  BY DEF Attempt
<1>8. it = Attempt(link.pass, suitable) /\ a = Port(EntryColorSpace) /\ b = Port(ExitColorSpace)
  OBVIOUS
<1> HIDE DEF l, in, out, a, b, it
<1>9. CASE link.pass = 1
  BY <1>1, <1>6, <1>7, <1>8, <1>9, JoiningFine
<1>10. CASE link.pass = 2
  BY <1>1, <1>6, <1>7, <1>8, <1>10, ShaperFine
<1>11. CASE link.pass = 3
  BY <1>1, <1>3, <1>6, <1>7, <1>8, <1>11, LinearizationFine
<1>12. CASE link.pass = 4
  <2>1. l.Elements = <<>> /\ in.space # "any" => \E i : a = <<Encoding(in.space, "pixels"), i>>
    BY <1>4
  <2> QED  BY <1>1, <1>6, <1>7, <1>8, <1>12, <2>1, ResamplingFine
<1> QED  BY <1>5, <1>9, <1>10, <1>11, <1>12

\* An optimisation is passed over.
LEMMA TriesOn ==
    ASSUME AllRegular, IInv, CInv, at = "try", UNCHANGED call, UNCHANGED heap, link' = [link EXCEPT !.pass = @ + 1],
           at' = IF link.pass = 4 THEN "done" ELSE "try"
    PROVE  CInv'
<1>1. Owned /\ link.pass \in 1..4 /\ (link.pass < 4 => Lut.Elements # <<>>) /\ at \in Optimising
  BY HandedIs DEF Optimising
<1>2. link'.Lut = link.Lut /\ link'.pass = link.pass + 1
  BY <1>1 DEF Owned, Locals
<1>3. at' = "try" => link'.pass \in 1..4 /\ (link'.pass < 4 => Lut.Elements # <<>>)
  BY <1>1, <1>2
<1>4. at' \in Optimising /\ at' # "preoptimise"
  BY DEF Optimising
<1> QED  BY <1>1, <1>2, <1>3, <1>4, HandedStays

LEMMA TryStep == ASSUME AllRegular, IInv, CInv, Try PROVE CInv'
<1>1. at = "try" /\ at \in Optimising
  BY DEF Try, Optimising
<1>2. PICK suitable \in BOOLEAN :
        \/ /\ Attempt(link.pass, suitable).ok
           /\ heap' = [heap EXCEPT ![link.Lut] = Attempt(link.pass, suitable).lut]
           /\ \E more : call' = [call EXCEPT !.flags = more]
           /\ at' = "done" /\ UNCHANGED link
        \/ /\ UNCHANGED <<call, heap>> /\ link' = [link EXCEPT !.pass = @ + 1]
           /\ at' = IF link.pass = 4 THEN "done" ELSE "try"
  BY DEF Try, Going
<1> DEFINE l == Attempt(link.pass, suitable).lut
<1>3. CASE /\ Attempt(link.pass, suitable).ok
           /\ heap' = [heap EXCEPT ![link.Lut] = l]
           /\ \E more : call' = [call EXCEPT !.flags = more]
           /\ at' = "done" /\ UNCHANGED link
  <2>1. Fine(l, Port(EntryColorSpace), Port(ExitColorSpace))
    BY <1>1, <1>3, AttemptFine
  <2> HIDE DEF l
  <2>2. DOMAIN call = CallFields
    BY <1>1, HandedIs
  <2>3. call'.profiles = call.profiles /\ call'.Intent = call.Intent /\ DOMAIN call' = DOMAIN call
    BY <1>3, <2>2 DEF CallFields
  <2>4. at' \in Optimising /\ at' # "try" /\ at' # "preoptimise"
    BY <1>3 DEF Optimising
  <2> QED  BY <1>1, <1>3, <2>1, <2>3, <2>4, HandedAgain
<1>4. CASE /\ UNCHANGED <<call, heap>> /\ link' = [link EXCEPT !.pass = @ + 1]
           /\ at' = IF link.pass = 4 THEN "done" ELSE "try"
  BY <1>1, <1>4, TriesOn
<1> QED  BY <1>2, <1>3, <1>4

LEMMA DeleteStep == ASSUME AllRegular, IInv, CInv, cmsDeleteTransform PROVE CInv'
<1>1. /\ at = "done" /\ at' = "deleted" /\ UNCHANGED <<call, unlucky>>
      /\ heap' = Without({link.Lut})
  BY DEF cmsDeleteTransform, Going
<1>2. AllWalk' /\ Begun'
  BY <1>1, HeapFrees, BegunStays DEF CInv
<1>3. Promised'
  BY <1>1 DEF Promised
<1> QED  BY <1>1, <1>2, <1>3, Over

LEMMA MemoryStep == ASSUME AllRegular, IInv, CInv, OutOfMemory, ~MatricesLost' PROVE CInv'
<1>1. unlucky' # {} /\ UNCHANGED call /\ at # "idle" /\ at # "refused" /\ Owned
  BY DEF OutOfMemory, IInv
<1>2. Begun' /\ Promised'
  BY <1>1, BegunStays DEF CInv, Promised
<1>3. CASE UNCHANGED heap /\ at' \in {"refused", "clean up", "error"}
  BY <1>2, <1>3, Over DEF CInv, AllWalk
<1>4. CASE at = "links" /\ link.i <= n /\ devlink # NULL /\ AppendFails
  BY <1>1, <1>4, AppendFailsStep
<1>5. CASE /\ at = "linked" /\ at' = "refused"
           /\ heap' = Without({link.Result}) /\ link' = [link EXCEPT !.Result = Nil]
  BY <1>1, <1>5, Refuses
<1>6. CASE /\ at = "try" /\ link' = [link EXCEPT !.pass = @ + 1]
           /\ at' = (IF link.pass = 4 THEN "done" ELSE "try") /\ UNCHANGED heap
  BY <1>1, <1>6, TriesOn
<1>7. CASE heap' = Without({link.Lut}) /\ at' = "undefined"
  BY <1>2, <1>7, HeapFrees, Over DEF CInv
<1>8. at # "preoptimise"
  BY DEF OutOfMemory, MatricesLost
<1> QED  BY <1>3, <1>4, <1>5, <1>6, <1>7, <1>8 DEF OutOfMemory, Going

--------------------
\* The invariant, and what it says.

LEMMA ContentsBegin == Init => CInv
<1> SUFFICES ASSUME Init PROVE CInv
  OBVIOUS
<1>1. at = "idle" /\ DOMAIN heap = {}
  BY DEF Init
<1> QED  BY <1>1 DEF CInv, AllWalk, Begun, Counted, Reached, Fetched, Blackened, Complete, Handed, Optimising, Promised

LEMMA ContentsStay == ASSUME AllRegular, IInv, CInv, UNCHANGED vars PROVE CInv'
<1>1. UNCHANGED call /\ UNCHANGED at /\ UNCHANGED link /\ UNCHANGED heap /\ UNCHANGED unlucky
  BY DEF vars
<1>2. /\ n' = n /\ EntryColorSpace' = EntryColorSpace /\ ExitColorSpace' = ExitColorSpace
      /\ Visited' = Visited /\ Intent' = Intent /\ Sure' = Sure
  BY <1>1, SameCall, SureStays
<1>3. p' = p /\ Now' = Now /\ LinkedTo' = LinkedTo
  BY <1>1, <1>2 DEF p, Now, LinkedTo
<1>4. lIsDeviceLink' = lIsDeviceLink /\ lIsInput' = lIsInput /\ Alone' = Alone
  BY <1>1, <1>3 DEF lIsDeviceLink, lIsInput, Alone
<1>5. ColorSpaceIn' = ColorSpaceIn /\ ColorSpaceOut' = ColorSpaceOut
  BY <1>3, <1>4 DEF ColorSpaceIn, ColorSpaceOut
<1>6. From' = From /\ Then' = Then
  BY <1>1, <1>2, <1>3, <1>4, <1>5 DEF From, Then
<1>7. AllWalk' /\ Begun' /\ Counted'
  BY <1>1, <1>2 DEF CInv, AllWalk, Begun, Asked, Counted, Counting
<1>8. Reached' /\ Fetched'
  BY <1>1, <1>2, <1>3, <1>5, <1>6 DEF CInv, Reached, Fetched
<1>9. Blackened' /\ Complete'
  BY <1>1, <1>2, <1>3 DEF CInv, Blackened, Complete
<1>10. Handed' /\ Promised'
  BY <1>1, <1>2 DEF CInv, Handed, Promised
<1> QED  BY <1>7, <1>8, <1>9, <1>10 DEF CInv

\* Matrices that are lost stay lost.
LEMMA LostForGood == [Next]_vars /\ MatricesLost => MatricesLost'
<1>1. [Next]_vars => unlucky' = unlucky \/ unlucky' = unlucky \union {at}
  BY DEF Next, Link, Optimise, _cmsLinkProfiles, BlackPreservingKOnlyIntents, BlackPreservingKPlaneIntents, Default,
     DefaultICCintents, Read, Connect, LastCheck, Error, KeepBlack, Append_devlink, BlackIsKept, CleanUp,
     cmsCreateExtendedTransform, _cmsOptimizePipeline, PreOptimize, Round, Try, cmsDeleteTransform, OutOfMemory, vars
<1> QED  BY <1>1 DEF MatricesLost

\* The invariant is inductive until then, and implies both properties.
LEMMA ContentsInductive ==
    ASSUME AllRegular
    PROVE  IInv /\ (MatricesLost \/ CInv) /\ [Next]_vars => MatricesLost' \/ CInv'
<1> SUFFICES ASSUME IInv, CInv, [Next]_vars, ~MatricesLost' PROVE CInv'
  BY LostForGood
<1>1. CASE Link
  BY <1>1, KOnlyBegins, KPlaneBegins, DefaultBegins, ResultBegins, ReadStep, ConnectStep, CheckStep, ErrorStep,
     BlackStep, AppendStep, KeptStep, CleanStep DEF Link
<1>2. CASE Optimise
  BY <1>2, TransformStep, OptimiseStep, PreoptimiseStep, RoundStep, TryStep DEF Optimise
<1> QED  BY <1>1, <1>2, CallBegins, DeleteStep, MemoryStep, ContentsStay DEF Next

LEMMA ContentsMeet == MatricesLost \/ CInv => EncodingsMeet
<1> SUFFICES ASSUME CInv PROVE EncodingsMeet
  BY DEF EncodingsMeet
<1>1. \A id \in DOMAIN heap : StagesMeet(heap[id])
  BY PathsMeet DEF CInv, AllWalk, Walkable
<1>2. ASSUME HasTransform, Lut.Elements # <<>>
      PROVE  Ends(Lut) = [from |-> Encoding(EntryColorSpace, "pixels"), to |-> Encoding(ExitColorSpace, "pixels")]
  <2>1. Fine(Lut, Port(EntryColorSpace), Port(ExitColorSpace))
    BY <1>2 DEF CInv, Handed, HasTransform, Optimising, Lut
  <2>2. /\ Port(EntryColorSpace) = <<Ends(Lut).from, Lut.InputChannels>>
        /\ Port(ExitColorSpace) = <<Ends(Lut).to, Lut.OutputChannels>>
    BY <1>2, <2>1, EndsAre
  <2>3. Ends(Lut).from = Encoding(EntryColorSpace, "pixels") /\ Ends(Lut).to = Encoding(ExitColorSpace, "pixels")
    BY <2>2 DEF Port
  <2> QED  BY <2>3 DEF Ends
<1> QED  BY <1>1, <1>2 DEF EncodingsMeet

LEMMA ContentsPromise == MatricesLost \/ CInv => SupportedLinks
<1> SUFFICES ASSUME CInv, at = "refused", unlucky = {}, link.handler = "DefaultICCintents", Assured PROVE FALSE
  BY DEF SupportedLinks, Assured, MatricesLost
<1> QED  BY SureIs DEF CInv, Promised

\* What a stage gives is written as the next one takes it, and a transform's pipeline begins
\* and ends as the transform says (cmsio1.c, AddConversion, cmsopt.c, cmsxform.c): for every
\* chain of regular profiles, of any length, with any intents, flags and formats, wherever
\* memory runs out, but for a pipeline that _MultiplyMatrix has left without two matrices.
THEOREM EncodingsAlwaysMeet ==
    ASSUME \A chain \in Chains : RegularChain(chain)
    PROVE  Spec => []EncodingsMeet
<1>1. AllRegular
  BY DEF AllRegular
<1>2. IInv /\ (MatricesLost \/ CInv) /\ [Next]_vars => MatricesLost' \/ CInv'
  BY <1>1, ContentsInductive
<1>3. Spec => [](MatricesLost \/ CInv)
  <2>1. Spec => []IInv
    BY Begins, Inductive, PTL DEF Spec
  <2> QED  BY <1>2, <2>1, ContentsBegin, PTL DEF Spec
<1> QED  BY <1>3, ContentsMeet, PTL

\* Two profiles that say they support an intent, with tables of the channels of their spaces,
\* are linked unless memory runs out (cmsIsIntentSupported, DefaultICCintents,
\* cmsCreateExtendedTransform): any two regular ones, for any intent.
THEOREM SupportedAlwaysLinks ==
    ASSUME \A chain \in Chains : RegularChain(chain)
    PROVE  Spec => []SupportedLinks
<1>1. AllRegular
  BY DEF AllRegular
<1>2. IInv /\ (MatricesLost \/ CInv) /\ [Next]_vars => MatricesLost' \/ CInv'
  BY <1>1, ContentsInductive
<1>3. Spec => [](MatricesLost \/ CInv)
  <2>1. Spec => []IInv
    BY Begins, Inductive, PTL DEF Spec
  <2> QED  BY <1>2, <2>1, ContentsBegin, PTL DEF Spec
<1> QED  BY <1>3, ContentsPromise, PTL

--------------------
\* Words.  Letters that undo each other cancel; a word is tight if no two
\* neighbours do.  To push a word onto another is to push its letters, one
\* by one.

LEMMA UndoIs ==
    ASSUME NEW a, NEW b, IsLetter(a), IsLetter(b)
    PROVE  Undoes(a, b) <=> /\ {a[4], b[4]} = {"forth", "back"}
                           /\ a[1] = b[1] /\ a[2] = b[2] /\ a[3] = b[3]
<1>1. ASSUME NEW w, NEW x, NEW y, NEW z PROVE SubSeq(<<w, x, y, z>>, 1, 3) = <<w, x, y>>
  <2> DEFINE S == {w, x, y, z}
             s == <<w, x, y, z>>
             t == SubSeq(s, 1, 3)
  <2>1. s \in Seq(S) /\ s[1] = w /\ s[2] = x /\ s[3] = y
    OBVIOUS
  <2>2. \A i \in 1..3 : s[i] \in S
    OBVIOUS
  <2> HIDE DEF S, s
  <2>3. t \in Seq(S) /\ Len(t) = 3 /\ \A i \in 1..3 : t[i] = s[1 + i - 1]
    BY <2>1, <2>2, SubSeqProperties
  <2>4. t[1] = s[1] /\ t[2] = s[2] /\ t[3] = s[3]
    BY <2>3
  <2> HIDE DEF t
  <2>5. t = <<t[1], t[2], t[3]>>
    BY <2>3
  <2> QED  BY <2>1, <2>4, <2>5 DEF t, s
<1>2. SubSeq(a, 1, 3) = <<a[1], a[2], a[3]>> /\ SubSeq(b, 1, 3) = <<b[1], b[2], b[3]>>
  BY <1>1 DEF IsLetter
<1>3. <<a[1], a[2], a[3]>> = <<b[1], b[2], b[3]>> <=> a[1] = b[1] /\ a[2] = b[2] /\ a[3] = b[3]
  OBVIOUS
<1> QED  BY <1>2, <1>3 DEF Undoes

LEMMA UndoesBack == \A a, b : Undoes(a, b) <=> Undoes(b, a)
  BY DEF Undoes

\* Only one letter undoes a letter.
LEMMA UndoesTwice ==
    ASSUME NEW a, NEW b, NEW c, IsLetter(a), IsLetter(b), IsLetter(c), Undoes(a, b), Undoes(b, c)
    PROVE  a = c
<1>1. /\ {a[4], b[4]} = {"forth", "back"} /\ a[1] = b[1] /\ a[2] = b[2] /\ a[3] = b[3]
      /\ {b[4], c[4]} = {"forth", "back"} /\ b[1] = c[1] /\ b[2] = c[2] /\ b[3] = c[3]
  BY UndoIs
<1>2. a[4] = c[4]
  BY <1>1
<1> QED  BY <1>1, <1>2 DEF IsLetter

LEMMA NoWord == IsWord(<<>>) /\ Tight(<<>>) /\ IsSeq(<<>>) /\ Len(<<>>) = 0 /\ DOMAIN <<>> = 1..0
<1>1. IsSeq(<<>>) /\ Len(<<>>) = 0
  BY PathNone DEF Path
<1>2. DOMAIN <<>> = 1..0
  BY <1>1, Sequence
<1> QED  BY <1>1, <1>2 DEF IsWord, Tight

LEMMA OneLetter == ASSUME NEW a, IsLetter(a) PROVE IsWord(<<a>>)
  BY OneStage DEF IsWord

LEMMA Chains2 ==
    ASSUME NEW s, NEW t, IsSeq(s), IsSeq(t)
    PROVE  Chained(s \o t, s, t)
<1> DEFINE u == s \o t
<1> DEFINE S == ToSet(s) \cup ToSet(t)
           x == Len(s)
           y == Len(t)
<1>1. s \in Seq(S) /\ t \in Seq(S)
  BY SeqMonotonic DEF IsSeq
<1>2. IsSeq(u) /\ x \in Nat /\ y \in Nat /\ DOMAIN s = 1..x /\ DOMAIN t = 1..y
  BY Joined, Sequence
<1>3. Len(u) = x + y /\ \A i \in 1..x + y : u[i] = IF i <= x THEN s[i] ELSE t[i - x]
  BY <1>1, ConcatProperties
<1>4. DOMAIN u = 1..Len(u)
  BY <1>2, Sequence
<1> HIDE DEF x, y
<1>5. ASSUME NEW j \in 1..x + y
      PROVE  (j \in 1..x /\ u[j] = s[j]) \/ (j - x \in 1..y /\ u[j] = t[j - x])
  BY <1>2, <1>3
<1>6. \A k \in 1..x : u[k] = s[k]
  BY <1>2, <1>3
<1>7. \A k \in 1..y, j \in Nat : j = x + k => u[j] = t[k]
  <2> SUFFICES ASSUME NEW k \in 1..y, NEW j \in Nat, j = x + k PROVE u[j] = t[k]
    OBVIOUS
  <2>1. j \in 1..x + y /\ ~(j <= x) /\ j - x = k
    BY <1>2
  <2> QED  BY <1>3, <2>1
<1>8. Chained(u, s, t)
  BY <1>2, <1>3, <1>4, <1>5, <1>6, <1>7 DEF x, y, Chained
<1> QED  BY <1>8 DEF u

LEMMA WordsJoin ==
    ASSUME NEW u, NEW v, IsWord(u), IsWord(v)
    PROVE  IsWord(u \o v)
<1> DEFINE w == u \o v
<1>1. IsSeq(u) /\ IsSeq(v)
  BY DEF IsWord
<1>2. Chained(w, u, v)
  BY <1>1, Chains2
<1> HIDE DEF w
<1>3. /\ IsSeq(w) /\ DOMAIN w = 1..Len(w) /\ DOMAIN u = 1..Len(u) /\ DOMAIN v = 1..Len(v)
      /\ \A j \in 1..Len(w) : 
                (j \in 1..Len(u) /\ w[j] = u[j]) \/ (j - Len(u) \in 1..Len(v) /\ w[j] = v[j - Len(u)])
  BY <1>2 DEF Chained
<1>4. \A k \in DOMAIN w : IsLetter(w[k])
  BY <1>3 DEF IsWord
<1> QED  BY <1>3, <1>4 DEF IsWord, w

\* The last letter of a word.
LEMMA LetterLast ==
    ASSUME NEW s, IsSeq(s), NEW b
    PROVE  LET r == s \o <<b>>
           IN  /\ IsSeq(r) /\ Len(r) = Len(s) + 1 /\ r # <<>> /\ Last(r) = b
               /\ r[Len(s) + 1] = b /\ \A k \in 1..Len(s) : r[k] = s[k]
<1> DEFINE r == s \o <<b>>
           x == Len(s)
<1>1. x \in Nat /\ DOMAIN s = 1..x
  BY Sequence
<1>2. IsSeq(<<b>>) /\ Len(<<b>>) = 1 /\ DOMAIN <<b>> = {1} /\ <<b>>[1] = b
  BY OneStage
<1>3. /\ IsSeq(r) /\ Len(r) = x + 1
      /\ \A k \in DOMAIN s : r[k] = s[k]
      /\ \A k \in DOMAIN <<b>> : r[x + k] = <<b>>[k]
  BY <1>2, Joined
<1> HIDE DEF r, x
<1>4. r[x + 1] = b
  BY <1>2, <1>3
<1>5. r # <<>>
  BY <1>1, <1>3, Sequence
<1>6. Last(r) = b
  BY <1>3, <1>4 DEF Last
<1> QED  BY <1>1, <1>3, <1>4, <1>5, <1>6 DEF r, x

LEMMA TightFront ==
    ASSUME NEW r, Tight(r), r # <<>>
    PROVE  /\ Tight(Front(r)) /\ IsLetter(Last(r)) /\ r = Front(r) \o <<Last(r)>>
           /\ Front(r) # <<>> => ~Undoes(Last(r), Last(Front(r)))
<1> DEFINE s == Front(r)
           b == Last(r)
           x == Len(s)
<1>1. IsSeq(s) /\ r = s \o <<b>>
  BY LastOf DEF Tight, IsWord
<1>2. /\ Len(r) = x + 1 /\ r[x + 1] = b /\ \A k \in 1..x : r[k] = s[k]
  BY <1>1, LetterLast
<1>3. x \in Nat /\ DOMAIN s = 1..x /\ DOMAIN r = 1..Len(r) /\ (s # <<>> <=> x # 0)
  BY <1>1, Sequence DEF Tight, IsWord
<1>9. Last(s) = s[x]
  BY DEF Last
<1> HIDE DEF s, b, x
<1>4. IsLetter(b) /\ \A k \in 1..x : IsLetter(s[k])
  <2>1. x + 1 \in DOMAIN r /\ \A k \in 1..x : k \in DOMAIN r
    BY <1>2, <1>3
  <2>2. \A k \in DOMAIN r : IsLetter(r[k])
    BY DEF Tight, IsWord
  <2> QED  BY <1>2, <2>1, <2>2
<1>5. ASSUME NEW k \in 1..x - 1 PROVE ~Undoes(s[k + 1], s[k])
  <2>1. k \in 1..Len(r) - 1 /\ k \in 1..x /\ k + 1 \in 1..x
    BY <1>2, <1>3
  <2>2. ~Undoes(r[k + 1], r[k])
    BY <2>1 DEF Tight
  <2> QED  BY <1>2, <2>1, <2>2
<1>6. ASSUME s # <<>> PROVE ~Undoes(b, Last(s))
  <2>1. x \in 1..Len(r) - 1 /\ x \in 1..x
    BY <1>2, <1>3, <1>6
  <2>2. ~Undoes(r[x + 1], r[x])
    BY <2>1 DEF Tight
  <2> QED  BY <1>2, <1>9, <2>1, <2>2
<1>7. Tight(s)
  <2>1. IsWord(s)
    BY <1>1, <1>3, <1>4 DEF IsWord
  <2> QED  BY <1>5, <2>1 DEF Tight, x
<1> QED  BY <1>1, <1>4, <1>6, <1>7 DEF s, b

LEMMA TightAppend ==
    ASSUME NEW s, Tight(s), NEW b, IsLetter(b), s # <<>> => ~Undoes(b, Last(s))
    PROVE  Tight(s \o <<b>>)
<1> DEFINE r == s \o <<b>>
           x == Len(s)
<1>1. IsWord(s) /\ IsSeq(s)
  BY DEF Tight, IsWord
<1>2. IsWord(r)
  BY <1>1, OneLetter, WordsJoin
<1>3. /\ Len(r) = x + 1 /\ r[x + 1] = b /\ \A k \in 1..x : r[k] = s[k]
  BY <1>1, LetterLast
<1>4. x \in Nat /\ (s # <<>> <=> x # 0) /\ Last(s) = s[x]
  BY <1>1, Sequence DEF Last
<1> HIDE DEF r
<1>5. ASSUME NEW k \in 1..Len(r) - 1 PROVE ~Undoes(r[k + 1], r[k])
  <2>1. CASE k = x
    <3>1. x \in 1..x /\ s # <<>>
      BY <1>3, <1>4, <2>1
    <3> QED  BY <1>3, <1>4, <2>1, <3>1
  <2>2. CASE k # x
    <3>1. k \in 1..Len(s) - 1 /\ k \in 1..x /\ k + 1 \in 1..x
      BY <1>3, <1>4, <2>2
    <3>2. ~Undoes(s[k + 1], s[k])
      BY <3>1 DEF Tight
    <3> QED  BY <1>3, <3>1, <3>2
  <2> QED  BY <2>1, <2>2
<1> QED  BY <1>2, <1>5 DEF Tight, r

\* A letter that is pushed onto a tight word leaves it tight.
LEMMA PushIs ==
    ASSUME NEW r, Tight(r), NEW a, IsLetter(a)
    PROVE  /\ r # <<>> /\ Undoes(a, Last(r)) => Push(r, a) = Front(r)
           /\ ~(r # <<>> /\ Undoes(a, Last(r))) => Push(r, a) = r \o <<a>>
           /\ Tight(Push(r, a))
<1>1. Append(r, a) = r \o <<a>>
  BY Appended1 DEF Tight, IsWord
<1>2. CASE r # <<>> /\ Undoes(a, Last(r))
  BY <1>2, TightFront DEF Push
<1>3. CASE ~(r # <<>> /\ Undoes(a, Last(r)))
  <2>1. Push(r, a) = r \o <<a>>
    BY <1>1, <1>3 DEF Push
  <2>2. Tight(r \o <<a>>)
    BY <1>3, TightAppend
  <2> QED  BY <1>3, <2>1, <2>2
<1> QED  BY <1>2, <1>3

\* A letter and then the one that undoes it.
LEMMA PushBack ==
    ASSUME NEW r, Tight(r), NEW a, NEW b, IsLetter(a), IsLetter(b), Undoes(a, b)
    PROVE  Push(Push(r, a), b) = r
<1>1. CASE r # <<>> /\ Undoes(a, Last(r))
  <2>1. /\ Push(r, a) = Front(r) /\ Tight(Front(r)) /\ IsLetter(Last(r)) /\ r = Front(r) \o <<Last(r)>>
        /\ Front(r) # <<>> => ~Undoes(Last(r), Last(Front(r)))
    BY <1>1, PushIs, TightFront
  <2>2. b = Last(r)
    BY <1>1, <2>1, UndoesBack, UndoesTwice
  <2>3. Push(Front(r), b) = Front(r) \o <<b>>
    BY <2>1, <2>2, PushIs
  <2> QED  BY <2>1, <2>2, <2>3
<1>2. CASE ~(r # <<>> /\ Undoes(a, Last(r)))
  <2> DEFINE s == r \o <<a>>
  <2>1. Push(r, a) = s /\ Tight(s)
    BY <1>2, PushIs
  <2>2. s # <<>> /\ Last(s) = a
    BY LetterLast DEF Tight, IsWord
  <2>3. Push(s, b) = Front(s)
    <3> HIDE DEF s
    <3> QED  BY <2>1, <2>2, PushIs, UndoesBack
  <2>4. Front(s) = r
    <3>1. r \in Seq(ToSet(r) \union {a}) /\ a \in ToSet(r) \union {a}
      BY SeqMonotonic DEF Tight, IsWord, IsSeq
    <3> DEFINE S == ToSet(r) \union {a}
    <3> HIDE DEF S
    <3>2. r \in Seq(S) /\ a \in S
      BY <3>1 DEF S
    <3>3. IsSeq(r) /\ IsSeq(Front(s)) /\ s = Front(s) \o <<a>>
      BY <2>1, <2>2, LastOf DEF Tight, IsWord
    <3>4. Len(s) = Len(r) + 1 /\ \A k \in 1..Len(r) : s[k] = r[k]
      BY <3>3, LetterLast
    <3> DEFINE f == Front(s)
    <3>6. IsSeq(f) /\ s = f \o <<a>>
      BY <3>3
    <3> HIDE DEF f
    <3>5. Len(s) = Len(f) + 1 /\ \A k \in 1..Len(f) : s[k] = f[k]
      <4>1. LET z == f \o <<a>> IN Len(z) = Len(f) + 1 /\ \A k \in 1..Len(f) : z[k] = f[k]
        BY <3>6, LetterLast
      <4> QED  BY <3>6, <4>1
    <3> HIDE DEF s
    <3>7. Len(f) \in Nat /\ Len(r) \in Nat /\ f \in Seq(ToSet(f)) /\ r \in Seq(ToSet(r))
      BY <3>3, <3>6, Sequence DEF IsSeq
    <3>8. Len(f) = Len(r) /\ \A k \in 1..Len(f) : f[k] = r[k]
      BY <3>4, <3>5, <3>7
    <3>9. f = r
      BY <3>7, <3>8, SeqEqual
    <3> QED  BY <3>9 DEF f
  <2> QED  BY <2>1, <2>3, <2>4
<1> QED  BY <1>1, <1>2

--------------------
\* Words that are pushed.

\* The fold of Reduced, letter by letter.
LEMMA WritesIs ==
    ASSUME NEW r, NEW w, IsSeq(w)
    PROVE  \E g : Writes(g, r, w) /\ g[Len(w)] = Pushed(r, w)
<1> DEFINE c == [loop |-> "word"]
           G(it) == [t \in SUBSET DOMAIN w |-> IF t = {} THEN r ELSE Push(it[t \ {Max(t)}], w[Max(t)])]
           f == CHOOSE it : it = G(it)
<1>1. Pushed(r, w) = f[DOMAIN w]
  BY DEF Pushed, FoldLeft, MapThenFoldSet
<1>2. ASSUME NEW acc, NEW e PROVE Does(c, acc, e) = Push(acc, e)
  BY DEF Does
<1> HIDE DEF c
<1>3. \A it : Folds(it, c, r, w, DOMAIN w) <=> it = G(it)
  BY <1>2 DEF Folds
<1> HIDE DEF G
<1>4. \E it : it = G(it)
  BY <1>3, FoldIs
<1>5. f = G(f)
  BY <1>4
<1> HIDE DEF f
<1>6. PICK g : Stepping(g, c, r, w, Len(w), f[DOMAIN w])
  <2>1. Folds(f, c, r, w, DOMAIN w)
    BY <1>3, <1>5
  <2> QED  BY <2>1, FoldIs
<1>7. g[0] = r /\ g[Len(w)] = Pushed(r, w) /\ \A k \in 1..Len(w) : g[k] = Push(g[k - 1], w[k])
  BY <1>1, <1>2, <1>6 DEF Stepping
<1> QED  BY <1>7 DEF Writes

LEMMA ReducedIs == \A w : Reduced(w) = Pushed(<<>>, w)
  BY DEF Reduced, Pushed, Push

\* Where letters are pushed twice, they agree if they begin alike.
LEMMA WritesAgree ==
    ASSUME NEW w, IsSeq(w), NEW x \in Nat, NEW g, Continues(g, x, w), NEW h, Writes(h, g[x], w),
           NEW y \in Nat, y = x + Len(w)
    PROVE  g[y] = h[Len(w)]
<1> DEFINE m == Len(w)
<1>0. /\ m \in Nat /\ g[x] = h[0] /\ \A k \in 1..m : h[k] = Push(h[k - 1], w[k])
      /\ \A k \in 1..m : \A i, j \in Nat : i = x + k /\ j = x + k - 1 => g[i] = Push(g[j], w[k])
  BY Sequence DEF Continues, Writes
<1>5. y = x + m
  OBVIOUS
<1> HIDE DEF m
<1> DEFINE T == {k \in Nat : k <= m => g[x + k] = h[k]}
<1>1. 0 \in T
  <2>1. x + 0 = x
    OBVIOUS
  <2> QED  BY <1>0, <2>1
<1>2. ASSUME NEW j \in T PROVE j + 1 \in T
  <2> DEFINE k == j + 1
  <2>1. j \in Nat /\ k \in Nat
    OBVIOUS
  <2>2. ASSUME k <= m PROVE g[x + k] = h[k]
    <3>1. k \in 1..m /\ k - 1 = j /\ j <= m /\ x + k \in Nat /\ x + j \in Nat /\ x + j = x + k - 1
      BY <1>0, <2>1, <2>2
    <3> HIDE DEF k
    <3>2. g[x + j] = h[j]
      BY <3>1
    <3>3. g[x + k] = Push(g[x + j], w[k])
      BY <1>0, <3>1
    <3>4. h[k] = Push(h[j], w[k])
      BY <1>0, <3>1
    <3> QED  BY <3>2, <3>3, <3>4
  <2> QED  BY <2>1, <2>2
<1>3. T = Nat
  <2>1. T \in SUBSET Nat
    OBVIOUS
  <2> HIDE DEF T
  <2> QED  BY <1>1, <1>2, <2>1, Rising
<1>8. m \in Nat
  BY <1>0
<1>9. m <= m
  BY <1>8
<1>4. m \in T
  <2> HIDE DEF T
  <2> QED  BY <1>3, <1>8
<1>6. g[x + m] = h[m]
  BY <1>4, <1>9
<1> QED  BY <1>5, <1>6 DEF m

\* Pushing two words is pushing the one and then the other.
LEMMA PushedJoin ==
    ASSUME NEW r, NEW u, NEW v, IsSeq(u), IsSeq(v)
    PROVE  Pushed(r, u \o v) = Pushed(Pushed(r, u), v)
<1> DEFINE w == u \o v
           x == Len(u)
           y == Len(v)
<1>1. Chained(w, u, v)
  BY Chains2
<1> HIDE DEF w
<1>2. /\ IsSeq(w) /\ Len(w) = x + y /\ x \in Nat /\ y \in Nat
      /\ \A k \in 1..x : w[k] = u[k]
      /\ \A k \in 1..y, j \in Nat : j = x + k => w[j] = v[k]
  BY <1>1 DEF Chained
<1>3. PICK g : Writes(g, r, w) /\ g[Len(w)] = Pushed(r, w)
  BY <1>2, WritesIs
<1>4. PICK gu : Writes(gu, r, u) /\ gu[x] = Pushed(r, u)
  BY WritesIs
<1>5. PICK gv : Writes(gv, Pushed(r, u), v) /\ gv[y] = Pushed(Pushed(r, u), v)
  BY WritesIs
<1> HIDE DEF x, y
<1>6. g[0] = r /\ \A k \in 1..x + y : g[k] = Push(g[k - 1], w[k])
  BY <1>2, <1>3 DEF Writes
<1>7. g[x] = gu[x]
  <2>1. Continues(g, 0, u)
    <3> SUFFICES ASSUME NEW k \in 1..Len(u), NEW i \in Nat, NEW j \in Nat, i = 0 + k, j = 0 + k - 1 PROVE g[i] = Push(g[j], u[k])
      BY DEF Continues
    <3>1. k \in 1..x /\ k \in 1..x + y /\ i = k /\ j = k - 1
      BY <1>2 DEF x
    <3> QED  BY <1>2, <1>6, <3>1
  <2>2. Writes(gu, g[0], u) /\ x = 0 + Len(u)
    BY <1>2, <1>4, <1>6 DEF x
  <2> QED  BY <1>2, <2>1, <2>2, WritesAgree DEF x
<1>8. g[x + y] = gv[y]
  <2>1. Continues(g, x, v)
    <3> SUFFICES ASSUME NEW k \in 1..Len(v), NEW i \in Nat, NEW j \in Nat, i = x + k, j = x + k - 1 PROVE g[i] = Push(g[j], v[k])
      BY DEF Continues
    <3>1. k \in 1..y /\ i \in 1..x + y /\ j = i - 1
      BY <1>2 DEF y
    <3>2. w[i] = v[k]
      BY <1>2, <3>1
    <3> QED  BY <1>6, <3>1, <3>2
  <2>2. Writes(gv, g[x], v)
    BY <1>4, <1>5, <1>7
  <2> DEFINE z == x + y
  <2>3. z \in Nat /\ z = x + Len(v)
    BY <1>2 DEF y
  <2> HIDE DEF z
  <2>4. g[z] = gv[Len(v)]
    BY <1>2, <2>1, <2>2, <2>3, WritesAgree
  <2> QED  BY <2>4 DEF z, y
<1> QED  BY <1>2, <1>3, <1>5, <1>8 DEF w

LEMMA PushedNone == \A r : Pushed(r, <<>>) = r
<1> SUFFICES ASSUME NEW r PROVE Pushed(r, <<>>) = r
  OBVIOUS
<1>1. PICK g : Writes(g, r, <<>>) /\ g[Len(<<>>)] = Pushed(r, <<>>)
  BY NoWord, WritesIs
<1> QED  BY <1>1, NoWord DEF Writes

LEMMA PushedOne == \A r, a : Pushed(r, <<a>>) = Push(r, a)
<1> SUFFICES ASSUME NEW r, NEW a PROVE Pushed(r, <<a>>) = Push(r, a)
  OBVIOUS
<1> DEFINE w == <<a>>
<1>1. IsSeq(w) /\ Len(w) = 1 /\ w[1] = a
  BY OneStage
<1> HIDE DEF w
<1>2. PICK g : Writes(g, r, w) /\ g[Len(w)] = Pushed(r, w)
  BY <1>1, WritesIs
<1>3. g[0] = r /\ g[1] = Push(g[1 - 1], w[1])
  <2>1. 1 \in 1..Len(w)
    BY <1>1
  <2> QED  BY <1>2, <2>1 DEF Writes
<1>4. 1 - 1 = 0
  OBVIOUS
<1> QED  BY <1>1, <1>2, <1>3, <1>4 DEF w

\* What is pushed onto a tight word leaves it tight.
LEMMA PushedTight ==
    ASSUME NEW w, IsWord(w), NEW r, Tight(r)
    PROVE  Tight(Pushed(r, w))
<1> DEFINE m == Len(w)
<1>1. m \in Nat /\ DOMAIN w = 1..m /\ IsSeq(w)
  BY Sequence DEF IsWord
<1>2. PICK h : Writes(h, r, w) /\ h[m] = Pushed(r, w)
  BY <1>1, WritesIs
<1>3. h[0] = r /\ \A k \in 1..m : h[k] = Push(h[k - 1], w[k]) /\ IsLetter(w[k])
  BY <1>1, <1>2 DEF Writes, IsWord
<1> HIDE DEF m
<1> DEFINE T == {k \in Nat : k <= m => Tight(h[k])}
<1>4. 0 \in T
  BY <1>3
<1>5. ASSUME NEW j \in T PROVE j + 1 \in T
  <2> DEFINE k == j + 1
  <2>1. j \in Nat /\ k \in Nat
    OBVIOUS
  <2>2. ASSUME k <= m PROVE Tight(h[k])
    <3>1. k \in 1..m /\ k - 1 = j /\ j <= m
      BY <1>1, <2>1, <2>2
    <3> HIDE DEF k
    <3>2. Tight(h[j]) /\ h[k] = Push(h[j], w[k]) /\ IsLetter(w[k])
      BY <1>3, <3>1
    <3> QED  BY <3>2, PushIs
  <2> QED  BY <2>1, <2>2
<1>6. T = Nat
  <2>1. T \in SUBSET Nat
    OBVIOUS
  <2> HIDE DEF T
  <2> QED  BY <1>4, <1>5, <2>1, Rising
<1>7. Tight(h[m])
  <2>1. m \in T /\ m <= m
    BY <1>1, <1>6
  <2> QED  BY <2>1
<1> QED  BY <1>2, <1>7

\* To push a word that is reduced is to push the word.
LEMMA PushedReduced ==
    ASSUME NEW w, IsWord(w), NEW r, Tight(r)
    PROVE  Pushed(r, Reduced(w)) = Pushed(r, w)
<1> DEFINE m == Len(w)
<1>1. m \in Nat /\ DOMAIN w = 1..m /\ IsSeq(w)
  BY Sequence DEF IsWord
<1>2. PICK g : Writes(g, <<>>, w) /\ g[m] = Pushed(<<>>, w)
  BY <1>1, WritesIs
<1>3. PICK h : Writes(h, r, w) /\ h[m] = Pushed(r, w)
  BY <1>1, WritesIs
<1>4. /\ g[0] = <<>> /\ \A k \in 1..m : g[k] = Push(g[k - 1], w[k])
      /\ h[0] = r /\ \A k \in 1..m : h[k] = Push(h[k - 1], w[k])
      /\ \A k \in 1..m : IsLetter(w[k])
  BY <1>1, <1>2, <1>3 DEF Writes, IsWord
<1> HIDE DEF m
<1> DEFINE Q(k) == Tight(g[k]) /\ Tight(h[k]) /\ Pushed(r, g[k]) = h[k]
           T == {k \in Nat : k <= m => Q(k)}
<1>5. 0 \in T
  BY <1>4, NoWord, PushedNone
<1>6. ASSUME NEW j \in T PROVE j + 1 \in T
  <2> DEFINE k == j + 1
  <2>1. j \in Nat /\ k \in Nat
    OBVIOUS
  <2>2. ASSUME k <= m PROVE Q(k)
    <3>1. k \in 1..m /\ k - 1 = j /\ j <= m
      BY <1>1, <2>1, <2>2
    <3> HIDE DEF k
    <3>2. Tight(g[j]) /\ Tight(h[j]) /\ Pushed(r, g[j]) = h[j]
      BY <3>1
    <3> DEFINE s == g[j]
               t == h[j]
               a == w[k]
    <3>3. g[k] = Push(s, a) /\ h[k] = Push(t, a) /\ IsLetter(a) /\ Tight(s) /\ Tight(t) /\ Pushed(r, s) = t
      BY <1>4, <3>1, <3>2
    <3> HIDE DEF s, t, a
    <3>4. Tight(Push(s, a)) /\ Tight(Push(t, a))
      BY <3>3, PushIs
    <3>5. Pushed(r, Push(s, a)) = Push(t, a)
      <4>1. CASE s # <<>> /\ Undoes(a, Last(s))
        <5> DEFINE f == Front(s)
                   b == Last(s)
        <5>1. Push(s, a) = f /\ Tight(f) /\ IsLetter(b) /\ s = f \o <<b>> /\ Undoes(b, a)
          BY <3>3, <4>1, PushIs, TightFront, UndoesBack
        <5> HIDE DEF f, b
        <5>2. IsSeq(f) /\ IsSeq(<<b>>)
          BY <5>1, OneStage DEF Tight, IsWord
        <5>3. Pushed(r, s) = Push(Pushed(r, f), b)
          BY <5>1, <5>2, PushedJoin, PushedOne
        <5>4. Tight(Pushed(r, f))
          BY <5>1, PushedTight DEF Tight
        <5>5. Push(Push(Pushed(r, f), b), a) = Pushed(r, f)
          BY <3>3, <5>1, <5>4, PushBack
        <5> QED  BY <3>3, <5>1, <5>3, <5>5
      <4>2. CASE ~(s # <<>> /\ Undoes(a, Last(s)))
        <5>1. Push(s, a) = s \o <<a>>
          BY <3>3, <4>2, PushIs
        <5>2. IsSeq(s) /\ IsSeq(<<a>>)
          BY <3>3, OneStage DEF Tight, IsWord
        <5>3. Pushed(r, s \o <<a>>) = Push(Pushed(r, s), a)
          BY <5>2, PushedJoin, PushedOne
        <5> QED  BY <3>3, <5>1, <5>3
      <4> QED  BY <4>1, <4>2
    <3> QED  BY <3>3, <3>4, <3>5
  <2> QED  BY <2>1, <2>2
<1>7. T = Nat
  <2>1. T \in SUBSET Nat
    OBVIOUS
  <2> HIDE DEF T
  <2> QED  BY <1>5, <1>6, <2>1, Rising
<1>8. Q(m)
  <2>1. m \in T /\ m <= m
    BY <1>1, <1>7
  <2> QED  BY <2>1
<1> QED  BY <1>2, <1>3, <1>8, ReducedIs DEF m

--------------------
\* Words that mean the same: pushed onto any tight word, they give the
\* same.

LEMMA SameReduced ==
    ASSUME NEW u, NEW v, Same(u, v)
    PROVE  Reduced(u) = Reduced(v)
  BY NoWord, ReducedIs DEF Same

LEMMA ReducedSame ==
    ASSUME NEW u, IsWord(u)
    PROVE  /\ IsWord(Reduced(u)) /\ Same(Reduced(u), u) /\ Reduced(Reduced(u)) = Reduced(u)
<1>1. Tight(Reduced(u))
  BY NoWord, ReducedIs, PushedTight
<1>2. Same(Reduced(u), u)
  BY PushedReduced DEF Same
<1> QED  BY <1>1, <1>2, SameReduced DEF Tight

LEMMA SameItself == \A u : Same(u, u)
  BY DEF Same

LEMMA SameTurned == \A u, v : Same(u, v) => Same(v, u)
  BY DEF Same

LEMMA SameThrough == \A u, v, w : Same(u, v) /\ Same(v, w) => Same(u, w)
  BY DEF Same

\* Words that are joined may each be replaced.
LEMMA SameJoin ==
    ASSUME NEW u, NEW v, NEW x, NEW y, IsWord(u), IsWord(v), IsWord(x), IsWord(y), Same(u, v), Same(x, y)
    PROVE  Same(u \o x, v \o y)
<1> SUFFICES ASSUME NEW r, Tight(r) PROVE Pushed(r, u \o x) = Pushed(r, v \o y)
  BY DEF Same
<1>1. IsSeq(u) /\ IsSeq(v) /\ IsSeq(x) /\ IsSeq(y)
  BY DEF IsWord
<1>2. Pushed(r, u \o x) = Pushed(Pushed(r, u), x) /\ Pushed(r, v \o y) = Pushed(Pushed(r, v), y)
  BY <1>1, PushedJoin
<1>3. Pushed(r, u) = Pushed(r, v) /\ Tight(Pushed(r, u))
  BY PushedTight DEF Same
<1>4. Pushed(Pushed(r, u), x) = Pushed(Pushed(r, u), y)
  BY <1>3 DEF Same
<1> QED  BY <1>2, <1>3, <1>4

\* A part and then its inverse are nothing.
LEMMA SameUndone ==
    ASSUME NEW a, NEW b, IsLetter(a), IsLetter(b), Undoes(a, b)
    PROVE  Same(<<a>> \o <<b>>, <<>>)
<1> SUFFICES ASSUME NEW r, Tight(r) PROVE Pushed(r, <<a>> \o <<b>>) = Pushed(r, <<>>)
  BY DEF Same
<1>1. IsSeq(<<a>>) /\ IsSeq(<<b>>)
  BY OneStage
<1>2. Pushed(r, <<a>> \o <<b>>) = Push(Push(r, a), b)
  BY <1>1, PushedJoin, PushedOne
<1> QED  BY <1>2, PushBack, PushedNone

--------------------
\* What stages say: their words, joined.

LEMMA FlattensTo ==
    ASSUME NEW w, NEW m \in Nat
    PROVE  \E f : f = [i \in 1..m |-> IF i = 1 THEN w[i] ELSE f[i - 1] \o w[i]]
<1> DEFINE F(f, k) == f = [i \in 1..k |-> IF i = 1 THEN w[i] ELSE f[i - 1] \o w[i]]
           N == {k \in Nat : \E f : F(f, k)}
<1>1. 0 \in N
  <2> DEFINE f == [i \in 1..0 |-> w[i]]
  <2>1. \A i \in 1..0 : FALSE
    OBVIOUS
  <2>2. F(f, 0)
    BY <2>1
  <2> HIDE DEF F
  <2> QED  BY <2>2
<1>2. ASSUME NEW k \in N PROVE k + 1 \in N
  <2>1. PICK f : F(f, k)
    OBVIOUS
  <2>2. k \in Nat /\ k + 1 \in Nat
    OBVIOUS
  <2>3. \A i \in 1..k : f[i] = IF i = 1 THEN w[i] ELSE f[i - 1] \o w[i]
    BY <2>1
  <2> DEFINE m1 == k + 1
             g == [i \in 1..m1 |-> IF i = m1 THEN (IF i = 1 THEN w[i] ELSE f[i - 1] \o w[i]) ELSE f[i]]
  <2>4. m1 \in Nat /\ m1 - 1 = k
    BY <2>2
  <2> HIDE DEF m1
  <2>5. ASSUME NEW i \in 1..m1 PROVE g[i] = IF i = 1 THEN w[i] ELSE g[i - 1] \o w[i]
    <3>1. CASE i = m1
      <4>1. g[i] = IF i = 1 THEN w[i] ELSE f[i - 1] \o w[i]
        BY <3>1
      <4>2. ASSUME i # 1 PROVE g[i - 1] = f[i - 1]
        <5>1. i - 1 \in 1..m1 /\ i - 1 # m1
          BY <2>4, <4>2
        <5> QED  BY <5>1
      <4> HIDE DEF g
      <4> QED  BY <4>1, <4>2
    <3>2. CASE i # m1
      <4>1. i \in 1..k /\ g[i] = f[i]
        BY <2>4, <3>2
      <4>2. ASSUME i # 1 PROVE g[i - 1] = f[i - 1]
        <5>1. i - 1 \in 1..m1 /\ i - 1 # m1
          BY <2>4, <3>2, <4>2
        <5> QED  BY <5>1
      <4> HIDE DEF g
      <4> QED  BY <2>3, <4>1, <4>2
    <3> QED  BY <3>1, <3>2
  <2>6. g = [i \in 1..m1 |-> g[i]]
    OBVIOUS
  <2> HIDE DEF g
  <2>7. F(g, m1)
    BY <2>5, <2>6
  <2> HIDE DEF F
  <2>8. m1 \in N
    BY <2>4, <2>7
  <2> QED  BY <2>8 DEF m1
<1>3. N = Nat
  <2>1. N \in SUBSET Nat
    OBVIOUS
  <2> HIDE DEF N
  <2> QED  BY <1>1, <1>2, <2>1, Rising
<1> QED  BY <1>3

LEMMA NothingAdded == \A w : IsSeq(w) => <<>> \o w = w /\ w \o <<>> = w
  BY DEF IsSeq

LEMMA TaleSteps ==
    ASSUME NEW s, IsSeq(s)
    PROVE  \E g : Telling(g, s)
<1> DEFINE w == [k \in DOMAIN s |-> s[k].word]
           m == Len(s)
           F(f) == [i \in 1..m |-> IF i = 1 THEN w[i] ELSE f[i - 1] \o w[i]]
           f == CHOOSE f : f = F(f)
<1>1. m \in Nat /\ DOMAIN s = 1..m
  BY Sequence
<1>2. w \in [1..m -> {s[k].word : k \in 1..m}]
  BY <1>1
<1>3. w \in Seq({s[k].word : k \in 1..m})
  <2> DEFINE S == {s[k].word : k \in 1..m}
  <2> HIDE DEF S, w
  <2> QED  BY <1>1, <1>2, Numbered DEF S
<1>4. Len(w) = m
  <2>1. DOMAIN w = 1..m
    BY <1>1
  <2> HIDE DEF w
  <2> QED  BY <1>1, <1>3, <2>1, OfItsElements, Sequence
<1>5. \A k \in 1..m : w[k] = s[k].word
  BY <1>1
<1>6. Tale(s) = IF m = 0 THEN w ELSE f[m]
  <2>1. FlattenSeq(w) = IF Len(w) = 0 THEN w ELSE (CHOOSE h : h = [i \in 1..Len(w) |-> IF i = 1 THEN w[i] ELSE h[i - 1] \o w[i]])[Len(w)]
    BY DEF FlattenSeq
  <2> HIDE DEF w
  <2>2. FlattenSeq(w) = IF m = 0 THEN w ELSE f[m]
    BY <1>4, <2>1
  <2> QED  BY <2>2 DEF Tale, w
<1>7. m = 0 => w = <<>>
  <2> HIDE DEF w
  <2> QED  BY <1>3, <1>4, OfItsElements, Sequence
<1> HIDE DEF w, m
<1>8. f = F(f)
  BY <1>1, FlattensTo
<1> HIDE DEF f
<1>9. \A i \in 1..m : f[i] = IF i = 1 THEN w[i] ELSE f[i - 1] \o w[i]
  BY <1>8
<1> DEFINE g == [k \in 0..m |-> IF k = 0 THEN <<>> ELSE f[k]]
<1>10. g[0] = <<>>
  BY <1>1
<1>11. g[m] = Tale(s)
  BY <1>1, <1>6, <1>7
<1>12. ASSUME NEW k \in 1..m, IsWord(s[k].word) PROVE g[k] = g[k - 1] \o s[k].word
  <2>1. k \in 0..m /\ k # 0 /\ g[k] = f[k]
    BY <1>1
  <2>2. CASE k = 1
    <3>1. g[k - 1] = <<>> /\ g[k] = s[k].word
      BY <1>5, <1>9, <1>10, <2>1, <2>2
    <3> HIDE DEF g
    <3> QED  BY <1>12, <3>1, NothingAdded DEF IsWord
  <2>3. CASE k # 1
    <3>1. k - 1 \in 0..m /\ k - 1 # 0 /\ g[k - 1] = f[k - 1]
      BY <1>1, <2>3
    <3> HIDE DEF g
    <3> QED  BY <1>5, <1>9, <2>1, <2>3, <3>1
  <2> QED  BY <2>2, <2>3
<1> HIDE DEF g
<1>13. Telling(g, s)
  BY <1>10, <1>11, <1>12 DEF Telling, m
<1> QED  BY <1>13

LEMMA Associates ==
    ASSUME NEW u, NEW v, NEW w, IsSeq(u), IsSeq(v), IsSeq(w)
    PROVE  (u \o v) \o w = u \o (v \o w)
<1> DEFINE S == ToSet(u) \cup ToSet(v) \cup ToSet(w)
<1>1. u \in Seq(S) /\ v \in Seq(S) /\ w \in Seq(S)
  BY SeqMonotonic DEF IsSeq
<1> HIDE DEF S
<1> QED  BY <1>1, ConcatAssociative

LEMMA TaleWords ==
    ASSUME NEW s, Worded(s), NEW g, Telling(g, s)
    PROVE  \A k \in 0..Len(s) : IsWord(g[k])
<1> DEFINE m == Len(s)
<1>1. m \in Nat /\ DOMAIN s = 1..m
  BY Sequence DEF Worded
<1>2. g[0] = <<>> /\ \A k \in 1..m : IsWord(s[k].word) /\ g[k] = g[k - 1] \o s[k].word
  BY <1>1 DEF Telling, Worded
<1> HIDE DEF m
<1> DEFINE T == {k \in Nat : k <= m => IsWord(g[k])}
<1>3. 0 \in T
  BY <1>2, NoWord
<1>4. ASSUME NEW j \in T PROVE j + 1 \in T
  <2> DEFINE k == j + 1
  <2>1. j \in Nat /\ k \in Nat
    OBVIOUS
  <2>2. ASSUME k <= m PROVE IsWord(g[k])
    <3>1. k \in 1..m /\ k - 1 = j /\ j <= m
      BY <1>1, <2>1, <2>2
    <3> HIDE DEF k
    <3>2. IsWord(g[j]) /\ IsWord(s[k].word) /\ g[k] = g[j] \o s[k].word
      BY <1>2, <3>1
    <3> QED  BY <3>2, WordsJoin
  <2> QED  BY <2>1, <2>2
<1>5. T = Nat
  <2>1. T \in SUBSET Nat
    OBVIOUS
  <2> HIDE DEF T
  <2> QED  BY <1>3, <1>4, <2>1, Rising
<1> QED  BY <1>1, <1>5 DEF m

\* Stages that are said after others add what they say.
LEMMA TellsAgree ==
    ASSUME NEW w, Worded(w), NEW x \in Nat, NEW g, TellsOn(g, x, w), IsSeq(g[x]),
           NEW h, Telling(h, w), NEW y \in Nat, y = x + Len(w)
    PROVE  Adds(g[y], g[x], h[Len(w)])
<1> DEFINE m == Len(w)
<1>1. m \in Nat /\ DOMAIN w = 1..m
  BY Sequence DEF Worded
<1>2. h[0] = <<>> /\ \A k \in 1..m : IsWord(w[k].word) /\ h[k] = h[k - 1] \o w[k].word
  BY <1>1 DEF Telling, Worded
<1>3. \A k \in 1..m : \A i, j \in Nat : i = x + k /\ j = x + k - 1 => g[i] = g[j] \o w[k].word
  BY DEF TellsOn
<1>4. \A k \in 0..m : IsWord(h[k])
  BY TaleWords
<1>5. y = x + m
  OBVIOUS
<1> HIDE DEF m
<1> DEFINE T == {k \in Nat : k <= m => g[x + k] = g[x] \o h[k]}
<1>6. 0 \in T
  <2>1. x + 0 = x /\ g[x] \o <<>> = g[x]
    BY NothingAdded
  <2> QED  BY <1>2, <2>1
<1>7. ASSUME NEW j \in T PROVE j + 1 \in T
  <2> DEFINE k == j + 1
  <2>1. j \in Nat /\ k \in Nat
    OBVIOUS
  <2>2. ASSUME k <= m PROVE g[x + k] = g[x] \o h[k]
    <3>1. k \in 1..m /\ k - 1 = j /\ j <= m /\ j \in 0..m /\ x + k \in Nat /\ x + j \in Nat /\ x + j = x + k - 1
      BY <1>1, <2>1, <2>2
    <3> HIDE DEF k
    <3>2. g[x + j] = g[x] \o h[j]
      BY <3>1
    <3>3. g[x + k] = g[x + j] \o w[k].word
      BY <1>3, <3>1
    <3>4. h[k] = h[j] \o w[k].word /\ IsSeq(h[j]) /\ IsSeq(w[k].word)
      BY <1>2, <1>4, <3>1 DEF IsWord
    <3> DEFINE a == g[x]
               b == h[j]
               d == w[k].word
    <3>5. (a \o b) \o d = a \o (b \o d)
      <4>1. IsSeq(a) /\ IsSeq(b) /\ IsSeq(d)
        BY <3>4
      <4> HIDE DEF a, b, d
      <4> QED  BY <4>1, Associates
    <3> QED  BY <3>2, <3>3, <3>4, <3>5
  <2> QED  BY <2>1, <2>2
<1>8. T = Nat
  <2>1. T \in SUBSET Nat
    OBVIOUS
  <2> HIDE DEF T
  <2> QED  BY <1>6, <1>7, <2>1, Rising
<1>9. m <= m
  BY <1>1
<1>10. m \in T
  <2> HIDE DEF T
  <2> QED  BY <1>1, <1>8
<1>11. g[x + m] = g[x] \o h[m]
  BY <1>9, <1>10
<1> QED  BY <1>5, <1>11 DEF m, Adds

LEMMA TaleNone == Tale(<<>>) = <<>> /\ Worded(<<>>)
<1>1. PICK g : Telling(g, <<>>)
  BY NoWord, TaleSteps
<1> QED  BY <1>1, NoWord DEF Telling, Worded

LEMMA TaleIs ==
    ASSUME NEW s, Worded(s)
    PROVE  IsWord(Tale(s))
<1>1. PICK g : Telling(g, s)
  BY TaleSteps DEF Worded
<1>2. Len(s) \in 0..Len(s) /\ g[Len(s)] = Tale(s)
  BY <1>1, Sequence DEF Telling, Worded
<1> QED  BY <1>1, <1>2, TaleWords

LEMMA TaleOne ==
    ASSUME NEW st, IsWord(st.word)
    PROVE  Tale(<<st>>) = st.word /\ Worded(<<st>>)
<1> DEFINE s == <<st>>
<1>1. IsSeq(s) /\ Len(s) = 1 /\ DOMAIN s = {1} /\ s[1] = st
  BY OneStage
<1> HIDE DEF s
<1>2. PICK g : Telling(g, s)
  BY <1>1, TaleSteps
<1>3. 1 \in 1..1 /\ 1 - 1 = 0
  OBVIOUS
<1>4. g[0] = <<>> /\ g[1] = Tale(s) /\ g[1] = g[0] \o st.word
  BY <1>1, <1>2, <1>3 DEF Telling
<1>5. <<>> \o st.word = st.word
  BY NothingAdded DEF IsWord
<1> QED  BY <1>1, <1>4, <1>5 DEF Worded, s

LEMMA TaleJoin ==
    ASSUME NEW s, NEW t, Worded(s), Worded(t)
    PROVE  Tale(s \o t) = Tale(s) \o Tale(t) /\ Worded(s \o t)
<1> DEFINE u == s \o t
           x == Len(s)
           y == Len(t)
<1>1. IsSeq(s) /\ IsSeq(t) /\ Chained(u, s, t)
  BY Chains2 DEF Worded
<1> HIDE DEF u
<1>2. /\ IsSeq(u) /\ Len(u) = x + y /\ x \in Nat /\ y \in Nat /\ DOMAIN u = 1..x + y /\ DOMAIN s = 1..x /\ DOMAIN t = 1..y
      /\ \A k \in 1..x : u[k] = s[k]
      /\ \A k \in 1..y, j \in Nat : j = x + k => u[j] = t[k]
      /\ \A j \in 1..x + y : (j \in 1..x /\ u[j] = s[j]) \/ (j - x \in 1..y /\ u[j] = t[j - x])
  BY <1>1 DEF Chained
<1>3. PICK g : Telling(g, u)
  BY <1>2, TaleSteps
<1>4. PICK gs : Telling(gs, s)
  BY <1>1, TaleSteps
<1>5. PICK gt : Telling(gt, t)
  BY <1>1, TaleSteps
<1>6. \A j \in 1..x + y : IsWord(u[j].word)
  BY <1>2 DEF Worded
<1>7. Worded(u)
  BY <1>2, <1>6 DEF Worded
<1>8. g[0] = <<>> /\ g[x + y] = Tale(u) /\ \A k \in 1..x + y : g[k] = g[k - 1] \o u[k].word
  BY <1>2, <1>3, <1>6 DEF Telling
<1>9. gs[x] = Tale(s) /\ gt[y] = Tale(t)
  BY <1>4, <1>5 DEF Telling
<1>10. \A k \in 0..x + y : IsWord(g[k])
  BY <1>2, <1>3, <1>7, TaleWords
<1> HIDE DEF x, y
<1>11. g[x] = gs[x]
  <2>1. TellsOn(g, 0, s)
    <3> SUFFICES ASSUME NEW k \in 1..Len(s), NEW i \in Nat, NEW j \in Nat, i = 0 + k, j = 0 + k - 1 PROVE g[i] = g[j] \o s[k].word
      BY DEF TellsOn
    <3>1. k \in 1..x /\ k \in 1..x + y /\ i = k /\ j = k - 1
      BY <1>2 DEF x
    <3> QED  BY <1>2, <1>8, <3>1
  <2>2. IsSeq(g[0]) /\ x = 0 + Len(s)
    BY <1>2, <1>8, NoWord DEF x
  <2>3. Adds(g[x], g[0], gs[Len(s)])
    BY <1>2, <1>4, <2>1, <2>2, TellsAgree
  <2>4. IsSeq(gs[x])
    BY <1>9, TaleIs DEF IsWord
  <2> QED  BY <1>8, <2>3, <2>4, NothingAdded DEF x, Adds
<1>12. g[x + y] = g[x] \o gt[y]
  <2>1. TellsOn(g, x, t)
    <3> SUFFICES ASSUME NEW k \in 1..Len(t), NEW i \in Nat, NEW j \in Nat, i = x + k, j = x + k - 1 PROVE g[i] = g[j] \o t[k].word
      BY DEF TellsOn
    <3>1. k \in 1..y /\ i \in 1..x + y /\ j = i - 1
      BY <1>2 DEF y
    <3>2. u[i] = t[k]
      BY <1>2, <3>1
    <3> QED  BY <1>8, <3>1, <3>2
  <2>2. IsSeq(g[x])
    <3>1. x \in 0..x + y
      BY <1>2
    <3> QED  BY <1>10, <3>1 DEF IsWord
  <2> DEFINE z == x + y
  <2>3. z \in Nat /\ z = x + Len(t)
    BY <1>2 DEF y
  <2> HIDE DEF z
  <2>4. Adds(g[z], g[x], gt[Len(t)])
    BY <1>2, <1>5, <2>1, <2>2, <2>3, TellsAgree
  <2> QED  BY <2>4 DEF z, y, Adds
<1> QED  BY <1>7, <1>8, <1>9, <1>11, <1>12 DEF u

--------------------
\* Stages that say what their kinds let them: conversions of the PCS say
\* nothing.  The passes of PreOptimize keep what is said.

LEMMA TellsIs ==
    ASSUME NEW s, Tells(s)
    PROVE  Worded(s) /\ IsWord(Tale(s)) /\ Same(Tale(s), Tale(s))
  BY TaleIs, SameItself DEF Worded, Tells, Told

LEMMA TellsNone == Tells(<<>>)
  BY NoWord DEF Tells

LEMMA TellsOne ==
    ASSUME NEW st, Told(st)
    PROVE  Tells(<<st>>) /\ Tale(<<st>>) = st.word
<1>1. IsSeq(<<st>>) /\ DOMAIN <<st>> = {1} /\ <<st>>[1] = st
  BY OneStage
<1> DEFINE s == <<st>>
<1>2. Tale(s) = st.word
  BY TaleOne DEF Told
<1> HIDE DEF s
<1>3. Tells(s)
  BY <1>1 DEF Tells, s
<1> QED  BY <1>2, <1>3 DEF s

LEMMA TellsJoin ==
    ASSUME NEW s, NEW t, Tells(s), Tells(t)
    PROVE  Tells(s \o t) /\ Tale(s \o t) = Tale(s) \o Tale(t)
<1> DEFINE u == s \o t
<1>1. IsSeq(s) /\ IsSeq(t) /\ Chained(u, s, t)
  BY Chains2 DEF Tells
<1>2. Tale(u) = Tale(s) \o Tale(t)
  BY TellsIs, TaleJoin
<1> HIDE DEF u
<1>3. IsSeq(u) /\ \A k \in DOMAIN u : Told(u[k])
  BY <1>1 DEF Chained, Tells
<1> QED  BY <1>2, <1>3 DEF u, Tells

\* A stage more.
LEMMA TellsMore ==
    ASSUME NEW s, Tells(s), NEW st, Told(st)
    PROVE  /\ Tells(s \o <<st>>) /\ Tale(s \o <<st>>) = Tale(s) \o st.word
           /\ Tells(<<st>> \o s) /\ Tale(<<st>> \o s) = st.word \o Tale(s)
           /\ Append(s, st) = s \o <<st>>
<1>1. Tells(<<st>>) /\ Tale(<<st>>) = st.word
  BY TellsOne
<1>2. Append(s, st) = s \o <<st>>
  BY Appended1 DEF Tells
<1>3. Tells(s \o <<st>>) /\ Tale(s \o <<st>>) = Tale(s) \o Tale(<<st>>)
  BY <1>1, TellsJoin
<1>4. Tells(<<st>> \o s) /\ Tale(<<st>> \o s) = Tale(<<st>>) \o Tale(s)
  BY <1>1, TellsJoin
<1> QED  BY <1>1, <1>2, <1>3, <1>4

LEMMA TellsSteps ==
    ASSUME NEW s, Tells(s)
    PROVE  \E g : Recounts(g, s)
<1>1. IsSeq(s) /\ Worded(s) /\ Len(s) \in Nat /\ DOMAIN s = 1..Len(s)
  BY TellsIs, Sequence DEF Tells
<1>2. PICK g : Telling(g, s)
  BY <1>1, TaleSteps
<1>3. \A k \in 0..Len(s) : IsWord(g[k])
  BY <1>1, <1>2, TaleWords
<1>4. ASSUME NEW k \in 1..Len(s)
      PROVE  Told(s[k]) /\ IsWord(g[k - 1]) /\ g[k] = g[k - 1] \o s[k].word
  <2>1. Told(s[k]) /\ IsWord(s[k].word)
    BY <1>1 DEF Tells, Told
  <2>2. k - 1 \in 0..Len(s)
    BY <1>1
  <2> QED  BY <1>2, <1>3, <2>1, <2>2 DEF Telling
<1>5. Recounts(g, s)
  BY <1>2, <1>4 DEF Recounts, Telling
<1> QED  BY <1>5

LEMMA Remove1Tells ==
    ASSUME NEW s, Tells(s)
    PROVE  Retells(s, _Remove1Op(s, "Identity"))
<1> DEFINE m == Len(s)
           op == "Identity"
<1>1. m \in Nat /\ IsSeq(s)
  BY Sequence DEF Tells
<1> HIDE DEF op
<1>2. PICK h : /\ h[0] = <<>> /\ h[m] = _Remove1Op(s, op)
               /\ \A k \in 1..m : h[k] = IF s[k].Implements = op THEN h[k - 1] ELSE Append(h[k - 1], s[k])
  BY <1>1, Remove1Steps
<1>3. PICK g : Recounts(g, s)
  BY TellsSteps
<1>4. /\ g[0] = <<>> /\ g[m] = Tale(s)
      /\ \A k \in 1..m : Told(s[k]) /\ IsWord(g[k - 1]) /\ g[k] = g[k - 1] \o s[k].word
  BY <1>3 DEF Recounts
<1> HIDE DEF m
<1> DEFINE Q(k) == Tells(h[k]) /\ Tale(h[k]) = g[k]
           T == {k \in Nat : k <= m => Q(k)}
<1>5. 0 \in T
  BY <1>2, <1>4, TellsNone, TaleNone
<1>6. ASSUME NEW j \in T PROVE j + 1 \in T
  <2> DEFINE k == j + 1
  <2>1. j \in Nat /\ k \in Nat
    OBVIOUS
  <2>2. ASSUME k <= m PROVE Q(k)
    <3>1. k \in 1..m /\ k - 1 = j /\ j <= m
      BY <1>1, <2>1, <2>2
    <3> HIDE DEF k
    <3>2. Tells(h[j]) /\ Tale(h[j]) = g[j]
      BY <3>1
    <3>3. Told(s[k]) /\ IsWord(g[j]) /\ g[k] = g[j] \o s[k].word
      BY <1>4, <3>1
    <3>4. h[k] = IF s[k].Implements = op THEN h[j] ELSE Append(h[j], s[k])
      BY <1>2, <3>1
    <3>5. CASE s[k].Implements = op
      <4>1. s[k].word = <<>>
        BY <3>3, <3>5 DEF Told, op
      <4>2. g[k] = g[j]
        BY <3>3, <4>1, NothingAdded DEF IsWord
      <4> QED  BY <3>2, <3>4, <3>5, <4>2
    <3>6. CASE s[k].Implements # op
      <4>1. h[k] = Append(h[j], s[k])
        BY <3>4, <3>6
      <4> DEFINE d == h[j]
                 st == s[k]
      <4>2. Tells(d) /\ Told(st) /\ h[k] = Append(d, st) /\ Tale(d) = g[j]
        BY <3>2, <3>3, <4>1
      <4> HIDE DEF d, st
      <4>4. Append(d, st) = d \o <<st>> /\ Tells(d \o <<st>>) /\ Tale(d \o <<st>>) = Tale(d) \o st.word
        BY <4>2, TellsMore
      <4>3. Tells(h[k]) /\ Tale(h[k]) = Tale(d) \o st.word
        BY <4>2, <4>4
      <4> QED  BY <3>3, <4>2, <4>3 DEF st
    <3> QED  BY <3>5, <3>6
  <2> QED  BY <2>1, <2>2
<1>7. T = Nat
  <2>1. T \in SUBSET Nat
    OBVIOUS
  <2> HIDE DEF T
  <2> QED  BY <1>5, <1>6, <2>1, Rising
<1>8. Q(m)
  <2>1. m \in T /\ m <= m
    BY <1>1, <1>7
  <2> QED  BY <2>1
<1> QED  BY <1>2, <1>4, <1>8, SameItself DEF Retells, op

LEMMA LastsNone == Lasts(Unpassed, <<>>)
<1>1. DOMAIN Unpassed = {"done", "last", "stop"} /\ Unpassed.done = <<>> /\ Unpassed.last = <<>>
  BY DEF Unpassed
<1>2. <<>> \o <<>> = <<>>
  OBVIOUS
<1>3. Passed(Unpassed) = <<>>
  BY <1>1, <1>2 DEF Passed
<1> QED  BY <1>1, <1>3, TellsNone, TaleNone, NoWord, SameItself DEF Lasts

LEMMA LastsOn ==
    ASSUME NEW v, NEW u, Lasts(v, u), NEW st, Told(st),
           NEW w, DOMAIN w = {"done", "last", "stop"}, w.done = Passed(v), w.last = <<st>>
    PROVE  Lasts(w, u \o st.word)
<1> DEFINE d == Passed(v)
           x == st.word
<1>1. Tells(d) /\ Same(Tale(d), u) /\ IsWord(u) /\ IsWord(x)
  BY DEF Lasts, Told
<1>2. Passed(w) = d \o <<st>> /\ w.last[1] = st
  BY DEF Passed
<1>3. Tells(d \o <<st>>) /\ Tale(d \o <<st>>) = Tale(d) \o x
  BY <1>1, TellsMore
<1> HIDE DEF d, x
<1>4. IsWord(u \o x)
  BY <1>1, WordsJoin
<1>5. Same(Tale(d) \o x, u \o x)
  BY <1>1, TellsIs, SameItself, SameJoin
<1>6. Lasts(w, u \o x)
  BY <1>1, <1>2, <1>3, <1>4, <1>5 DEF Lasts, d
<1> QED  BY <1>6 DEF x

\* What waits takes in the words of the next stage, or goes with it.
LEMMA LastsWith ==
    ASSUME NEW v, NEW u, Lasts(v, u), v.last # <<>>, NEW x, IsWord(x),
           NEW w, DOMAIN w = {"done", "last", "stop"}, w.done = v.done,
           \/ w.last = <<>> /\ Same(v.last[1].word \o x, <<>>)
           \/ \E st : w.last = <<st>> /\ Told(st) /\ Same(st.word, v.last[1].word \o x)
    PROVE  Lasts(w, u \o x)
<1> DEFINE d == v.done
           t == v.last[1]
           y == t.word
           z == Tale(d)
<1>1. /\ Tells(d) /\ IsWord(u) /\ v.last = <<t>> /\ Told(t) /\ Passed(v) = d \o <<t>>
      /\ Same(Tale(Passed(v)), u)
  BY DEF Lasts, Passed
<1>2. IsWord(y) /\ IsWord(z) /\ IsSeq(d)
  BY <1>1, TellsIs DEF Told, Tells
<1>3. Tale(Passed(v)) = z \o y
  BY <1>1, TellsMore
<1>4. IsWord(u \o x) /\ IsWord(y \o x) /\ IsWord(z \o y)
  BY <1>1, <1>2, WordsJoin
<1>10. (w.last = <<>> /\ Same(y \o x, <<>>)) \/ \E st : w.last = <<st>> /\ Told(st) /\ Same(st.word, y \o x)
  OBVIOUS
<1>11. w.done = d
  OBVIOUS
<1> HIDE DEF d, t, y, z
<1>5. (z \o y) \o x = z \o (y \o x)
  BY <1>2, Associates DEF IsWord
<1>6. Same((z \o y) \o x, u \o x)
  BY <1>1, <1>3, <1>4, SameItself, SameJoin
<1>7. CASE w.last = <<>> /\ Same(y \o x, <<>>)
  <2>1. Passed(w) = d
    BY <1>2, <1>7, <1>11, NothingAdded DEF Passed
  <2>2. Same(z \o (y \o x), z \o <<>>)
    BY <1>2, <1>4, <1>7, NoWord, SameItself, SameJoin
  <2>3. z \o <<>> = z
    BY <1>2, NothingAdded DEF IsWord
  <2>4. Same(z, u \o x)
    BY <1>5, <1>6, <2>2, <2>3, SameTurned, SameThrough
  <2> QED  BY <1>1, <1>4, <1>7, <1>11, <2>1, <2>4 DEF Lasts, z
<1>8. ASSUME NEW st, w.last = <<st>>, Told(st), Same(st.word, y \o x)
      PROVE  Lasts(w, u \o x)
  <2>1. Passed(w) = d \o <<st>> /\ w.last[1] = st
    BY <1>8, <1>11 DEF Passed
  <2>2. Tells(d \o <<st>>) /\ Tale(d \o <<st>>) = z \o st.word
    BY <1>1, <1>8, TellsMore DEF z
  <2>3. Same(z \o st.word, z \o (y \o x))
    <3>1. IsWord(st.word)
      BY <1>8 DEF Told
    <3> QED  BY <1>2, <1>4, <1>8, <3>1, SameItself, SameJoin
  <2>4. Same(z \o st.word, u \o x)
    BY <1>5, <1>6, <2>3, SameThrough
  <2> QED  BY <1>1, <1>4, <1>8, <1>11, <2>1, <2>2, <2>4 DEF Lasts
<1>9. CASE \E st : w.last = <<st>> /\ Told(st) /\ Same(st.word, y \o x)
  <2>1. PICK st : w.last = <<st>> /\ Told(st) /\ Same(st.word, y \o x)
    BY <1>9
  <2> QED  BY <1>8, <2>1
<1> QED  BY <1>7, <1>9, <1>10

LEMMA Remove2Tells ==
    ASSUME NEW s, Tells(s), NEW op1 \in DOMAIN Between, NEW op2 \in DOMAIN Between
    PROVE  Retells(s, _Remove2Op(s, op1, op2))
<1> DEFINE m == Len(s)
           c == [loop |-> "two", op1 |-> op1, op2 |-> op2]
<1>1. m \in Nat /\ IsSeq(s)
  BY Sequence DEF Tells
<1>2. PICK h : /\ h[0] = Unpassed /\ Passed(h[m]) = _Remove2Op(s, op1, op2)
               /\ \A k \in 1..m : h[k] = Does(c, h[k - 1], s[k])
  BY <1>1, Remove2Steps
<1>3. PICK g : Recounts(g, s)
  BY TellsSteps
<1>4. /\ g[0] = <<>> /\ g[m] = Tale(s)
      /\ \A k \in 1..m : Told(s[k]) /\ IsWord(g[k - 1]) /\ g[k] = g[k - 1] \o s[k].word
  BY <1>3 DEF Recounts
<1>9. ASSUME NEW v, NEW e
      PROVE  Does(c, v, e) = IF v.last # <<>> /\ v.last[1].Implements = op1 /\ e.Implements = op2
                             THEN [v EXCEPT !.last = <<>>]
                             ELSE [v EXCEPT !.done = Passed(v), !.last = <<e>>]
  BY DEF Does
<1> HIDE DEF m, c
<1> DEFINE T == {k \in Nat : k <= m => Lasts(h[k], g[k])}
<1>5. 0 \in T
  BY <1>2, <1>4, LastsNone
<1>6. ASSUME NEW j \in T PROVE j + 1 \in T
  <2> DEFINE k == j + 1
  <2>1. j \in Nat /\ k \in Nat
    OBVIOUS
  <2>2. ASSUME k <= m PROVE Lasts(h[k], g[k])
    <3>1. k \in 1..m /\ k - 1 = j /\ j <= m
      BY <1>1, <2>1, <2>2
    <3> HIDE DEF k
    <3> DEFINE v == h[j]
               u == g[j]
               st == s[k]
               w == h[k]
    <3>2. Lasts(v, u)
      BY <3>1
    <3>3. Told(st) /\ IsWord(st.word) /\ g[k] = u \o st.word /\ w = Does(c, v, st)
      BY <1>2, <1>4, <3>1 DEF Told
    <3> HIDE DEF v, u, st, w
    <3>4. DOMAIN v = {"done", "last", "stop"}
      BY <3>2 DEF Lasts
    <3>5. CASE v.last # <<>> /\ v.last[1].Implements = op1 /\ st.Implements = op2
      <4>1. w = [v EXCEPT !.last = <<>>]
        BY <1>9, <3>3, <3>5
      <4>2. DOMAIN w = {"done", "last", "stop"} /\ w.done = v.done /\ w.last = <<>>
        BY <3>4, <4>1
      <4>3. v.last[1].word = <<>> /\ st.word = <<>>
        BY <3>2, <3>3, <3>5 DEF Lasts, Told
      <4>4. Same(v.last[1].word \o st.word, <<>>)
        BY <4>3, SameItself, NothingAdded, NoWord
      <4>5. Lasts(w, u \o st.word)
        BY <3>2, <3>3, <3>5, <4>2, <4>4, LastsWith
      <4> QED  BY <3>3, <4>5 DEF w
    <3>6. CASE ~(v.last # <<>> /\ v.last[1].Implements = op1 /\ st.Implements = op2)
      <4>1. w = [v EXCEPT !.done = Passed(v), !.last = <<st>>]
        BY <1>9, <3>3, <3>6
      <4>2. DOMAIN w = {"done", "last", "stop"} /\ w.done = Passed(v) /\ w.last = <<st>>
        BY <3>4, <4>1
      <4>3. Lasts(w, u \o st.word)
        BY <3>2, <3>3, <4>2, LastsOn
      <4> QED  BY <3>3, <4>3 DEF w
    <3> QED  BY <3>5, <3>6
  <2> QED  BY <2>1, <2>2
<1>7. T = Nat
  <2>1. T \in SUBSET Nat
    OBVIOUS
  <2> HIDE DEF T
  <2> QED  BY <1>5, <1>6, <2>1, Rising
<1>8. Lasts(h[m], g[m])
  <2>1. m \in T /\ m <= m
    BY <1>1, <1>7
  <2> QED  BY <2>1
<1> QED  BY <1>2, <1>4, <1>8 DEF Retells, Lasts

LEMMA ProductTells ==
    ASSUME NEW m1, NEW m2, Told(m1), Told(m2)
    PROVE  /\ Told(Product(m1, m2)) /\ Same(Product(m1, m2).word, m1.word \o m2.word)
           /\ IsIdentity(Product(m1, m2)) => Same(m1.word \o m2.word, <<>>)
<1> DEFINE m == Product(m1, m2)
           w == m1.word \o m2.word
<1>1. IsWord(w)
  BY WordsJoin DEF Told
<1>2. DOMAIN m = StageFields /\ m.word = Reduced(w) /\ m.Implements = "Matrix"
  BY DEF Product, cmsStageAllocMatrix, _cmsStageAllocPlaceholder, StageFields
<1> HIDE DEF m, w
<1>3. IsWord(m.word) /\ Same(m.word, w) /\ Reduced(m.word) = m.word
  BY <1>1, <1>2, ReducedSame
<1>4. Told(m)
  BY <1>2, <1>3, BetweenIs DEF Told
<1>5. ASSUME IsIdentity(m) PROVE Same(w, <<>>)
  <2>1. m.word = <<>>
    BY <1>3, <1>5 DEF IsIdentity
  <2> QED  BY <1>3, <2>1, SameTurned
<1> QED  BY <1>3, <1>4, <1>5 DEF m, w

LEMMA MultiplyTells ==
    ASSUME NEW s, Tells(s)
    PROVE  Retells(s, Passed(_MultiplyMatrix(s)))
<1> DEFINE m == Len(s)
           c == [loop |-> "product"]
<1>1. m \in Nat /\ IsSeq(s)
  BY Sequence DEF Tells
<1>2. PICK h : /\ h[0] = Unpassed /\ h[m] = _MultiplyMatrix(s)
               /\ \A k \in 1..m : h[k] = Does(c, h[k - 1], s[k])
  BY <1>1, MultiplySteps
<1>3. PICK g : Recounts(g, s)
  BY TellsSteps
<1>4. /\ g[0] = <<>> /\ g[m] = Tale(s)
      /\ \A k \in 1..m : Told(s[k]) /\ IsWord(g[k - 1]) /\ g[k] = g[k - 1] \o s[k].word
  BY <1>3 DEF Recounts
<1>9. ASSUME NEW v, NEW e
      PROVE  Does(c, v, e) =
                IF v.last = <<>> \/ v.stop \/ v.last[1].Implements # "Matrix" \/ e.Implements # "Matrix"
                THEN [v EXCEPT !.done = Passed(v), !.last = <<e>>]
                ELSE IF ~Simple(v.last[1]) \/ ~Simple(e)
                THEN [v EXCEPT !.done = Passed(v), !.last = <<e>>, !.stop = TRUE]
                ELSE [v EXCEPT !.last = IF IsIdentity(Product(v.last[1], e)) THEN <<>>
                                        ELSE <<Product(v.last[1], e)>>]
  BY DEF Does
<1> HIDE DEF m, c
<1> DEFINE T == {k \in Nat : k <= m => Lasts(h[k], g[k])}
<1>5. 0 \in T
  BY <1>2, <1>4, LastsNone
<1>6. ASSUME NEW j \in T PROVE j + 1 \in T
  <2> DEFINE k == j + 1
  <2>1. j \in Nat /\ k \in Nat
    OBVIOUS
  <2>2. ASSUME k <= m PROVE Lasts(h[k], g[k])
    <3>1. k \in 1..m /\ k - 1 = j /\ j <= m
      BY <1>1, <2>1, <2>2
    <3> HIDE DEF k
    <3> DEFINE v == h[j]
               u == g[j]
               st == s[k]
               w == h[k]
               m1 == v.last[1]
               q == Product(m1, st)
    <3>2. Lasts(v, u)
      BY <3>1
    <3>3. Told(st) /\ IsWord(st.word) /\ g[k] = u \o st.word /\ w = Does(c, v, st)
      BY <1>2, <1>4, <3>1 DEF Told
    <3>7. \/ w = [v EXCEPT !.done = Passed(v), !.last = <<st>>]
          \/ w = [v EXCEPT !.done = Passed(v), !.last = <<st>>, !.stop = TRUE]
          \/ v.last # <<>> /\ w = [v EXCEPT !.last = IF IsIdentity(q) THEN <<>> ELSE <<q>>]
      <4> HIDE DEF v, st, w
      <4> QED  BY <1>9, <3>3
    <3> HIDE DEF v, u, st, w
    <3>4. DOMAIN v = {"done", "last", "stop"}
      BY <3>2 DEF Lasts
    <3>5. CASE \/ w = [v EXCEPT !.done = Passed(v), !.last = <<st>>]
               \/ w = [v EXCEPT !.done = Passed(v), !.last = <<st>>, !.stop = TRUE]
      <4>2. DOMAIN w = {"done", "last", "stop"} /\ w.done = Passed(v) /\ w.last = <<st>>
        BY <3>4, <3>5
      <4>3. Lasts(w, u \o st.word)
        BY <3>2, <3>3, <4>2, LastsOn
      <4> QED  BY <3>3, <4>3 DEF w
    <3>6. CASE v.last # <<>> /\ w = [v EXCEPT !.last = IF IsIdentity(q) THEN <<>> ELSE <<q>>]
      <4>1. DOMAIN w = {"done", "last", "stop"} /\ w.done = v.done /\ w.last = IF IsIdentity(q) THEN <<>> ELSE <<q>>
        BY <3>4, <3>6
      <4>2. Told(m1)
        BY <3>2, <3>6 DEF Lasts
      <4>3. Told(q) /\ Same(q.word, m1.word \o st.word) /\ (IsIdentity(q) => Same(m1.word \o st.word, <<>>))
        BY <3>3, <4>2, ProductTells
      <4>4. \/ w.last = <<>> /\ Same(v.last[1].word \o st.word, <<>>)
            \/ \E x : w.last = <<x>> /\ Told(x) /\ Same(x.word, v.last[1].word \o st.word)
        <5> HIDE DEF q
        <5> QED  BY <4>1, <4>3
      <4>5. Lasts(w, u \o st.word)
        BY <3>2, <3>3, <3>6, <4>1, <4>4, LastsWith
      <4> QED  BY <3>3, <4>5 DEF w
    <3> QED  BY <3>5, <3>6, <3>7
  <2> QED  BY <2>1, <2>2
<1>7. T = Nat
  <2>1. T \in SUBSET Nat
    OBVIOUS
  <2> HIDE DEF T
  <2> QED  BY <1>5, <1>6, <2>1, Rising
<1>8. Lasts(h[m], g[m])
  <2>1. m \in T /\ m <= m
    BY <1>1, <1>7
  <2> QED  BY <2>1
<1> QED  BY <1>2, <1>4, <1>8 DEF Retells, Lasts

--------------------
\* Pipelines that speak: their stages say words, and nothing has been made
\* of them yet that 16-bit colours would go through instead.

LEMMA WordIs == \A l : Word(l) = Reduced(Tale(l.Elements))
  BY DEF Word, Tale

LEMMA SpokenMeans == \A l : Spoken(l) => Means(l, l)
  BY DEF Spoken, Means, Word16

LEMMA BlessedKeeps ==
    ASSUME NEW l, DOMAIN l = LutFields
    PROVE  /\ DOMAIN Blessed(l) = LutFields /\ Blessed(l).Elements = l.Elements
           /\ Blessed(l).Eval16Fn = l.Eval16Fn /\ Blessed(l).Data = l.Data
<1>1. CASE l.Elements = <<>>
  BY <1>1 DEF Blessed
<1>2. CASE l.Elements # <<>>
  <2> DEFINE i == l.Elements[1].InputChannels
             o == Last(l.Elements).OutputChannels
  <2>1. Blessed(l) = [l EXCEPT !.InputChannels = i, !.OutputChannels = o]
    BY <1>2 DEF Blessed
  <2> HIDE DEF i, o
  <2> QED  BY <2>1 DEF LutFields
<1> QED  BY <1>1, <1>2

LEMMA SpeaksOf ==
    ASSUME NEW l, Spoken(l), NEW e, Tells(e)
    PROVE  /\ Spoken([l EXCEPT !.Elements = e]) /\ [l EXCEPT !.Elements = e].Elements = e
           /\ Spoken(Blessed([l EXCEPT !.Elements = e])) /\ Blessed([l EXCEPT !.Elements = e]).Elements = e
<1> DEFINE m == [l EXCEPT !.Elements = e]
<1>1. /\ DOMAIN m = LutFields /\ m.Elements = e /\ m.Eval16Fn = "_LUTeval16" /\ m.Data = Itself
  BY DEF Spoken, LutFields
<1> HIDE DEF m
<1>2. /\ DOMAIN Blessed(m) = LutFields /\ Blessed(m).Elements = e /\ Blessed(m).Eval16Fn = "_LUTeval16"
      /\ Blessed(m).Data = Itself
  BY <1>1, BlessedKeeps
<1>3. Spoken(m) /\ Spoken(Blessed(m))
  BY <1>1, <1>2 DEF Spoken
<1> QED  BY <1>1, <1>2, <1>3 DEF m

LEMMA AllocSpeaks == \A i, o : Spoken(cmsPipelineAlloc(i, o)) /\ cmsPipelineAlloc(i, o).Elements = <<>>
<1> SUFFICES ASSUME NEW i, NEW o PROVE Spoken(cmsPipelineAlloc(i, o)) /\ cmsPipelineAlloc(i, o).Elements = <<>>
  OBVIOUS
<1> DEFINE l == cmsPipelineAlloc(i, o)
<1>1. /\ DOMAIN l = LutFields /\ l.Elements = <<>> /\ l.Eval16Fn = "_LUTeval16" /\ l.Data = Itself
  BY DEF cmsPipelineAlloc, LutFields
<1> HIDE DEF l
<1>2. Spoken(l)
  BY <1>1, TellsNone DEF Spoken
<1> QED  BY <1>1, <1>2 DEF l

LEMMA InsertSpeaks ==
    ASSUME NEW l, Spoken(l), NEW st, Told(st)
    PROVE  /\ Spoken(cmsPipelineInsertStage(l, AT_END, st)) /\ Spoken(cmsPipelineInsertStage(l, AT_BEGIN, st))
           /\ cmsPipelineInsertStage(l, AT_END, st).Elements = l.Elements \o <<st>>
           /\ cmsPipelineInsertStage(l, AT_BEGIN, st).Elements = <<st>> \o l.Elements
<1> DEFINE e == l.Elements
           s == e \o <<st>>
           t == <<st>> \o e
<1>1. Tells(e)
  BY DEF Spoken
<1> HIDE DEF e
<1>2. Tells(s) /\ Tells(t) /\ Append(e, st) = s
  BY <1>1, TellsMore
<1>3. AT_END # AT_BEGIN
  BY DEF AT_END, AT_BEGIN
<1>4. /\ cmsPipelineInsertStage(l, AT_END, st) = Blessed([l EXCEPT !.Elements = s])
      /\ cmsPipelineInsertStage(l, AT_BEGIN, st) = Blessed([l EXCEPT !.Elements = t])
  <2> HIDE DEF s, t
  <2> QED  BY <1>2, <1>3 DEF cmsPipelineInsertStage, e, t
<1> HIDE DEF s, t
<1>5. /\ Spoken(Blessed([l EXCEPT !.Elements = s])) /\ Blessed([l EXCEPT !.Elements = s]).Elements = s
      /\ Spoken(Blessed([l EXCEPT !.Elements = t])) /\ Blessed([l EXCEPT !.Elements = t]).Elements = t
  BY <1>2, SpeaksOf
<1> QED  BY <1>4, <1>5 DEF e, s, t

LEMMA EndSaid ==
    ASSUME NEW l, Said(l), NEW st, Told(st)
    PROVE  Said(End(l, st)) /\ Said(Begin(l, st))
  BY InsertSpeaks DEF Said, End, Begin

LEMMA IfSaid ==
    ASSUME NEW l, Said(l), NEW st, Told(st), NEW c
    PROVE  Said(EndIf(c, l, st)) /\ Said(BeginIf(c, l, st))
  BY EndSaid DEF EndIf, BeginIf

LEMMA DupSaid ==
    ASSUME NEW l, Spoken(l)
    PROVE  Spoken(cmsPipelineDup(l)) /\ cmsPipelineDup(l).Elements = l.Elements
<1> DEFINE m == cmsPipelineDup(l)
<1>1. l.Data.kind # "duplicated"
  BY DEF Spoken, Itself
<1>2. DOMAIN m = LutFields /\ m.Elements = l.Elements /\ m.Eval16Fn = "_LUTeval16" /\ m.Data = Itself
  BY <1>1 DEF cmsPipelineDup, Spoken, LutFields
<1> HIDE DEF m
<1>3. Spoken(m)
  BY <1>2 DEF Spoken
<1> QED  BY <1>2, <1>3 DEF m

LEMMA CatSpeaks ==
    ASSUME NEW l1, NEW l2, Spoken(l1), Spoken(l2)
    PROVE  Spoken(cmsPipelineCat(l1, l2))
<1> DEFINE e == l1.Elements \o l2.Elements
           of == IF l1.Elements = <<>> /\ l2.Elements = <<>> THEN l2 ELSE l1
           m == [l1 EXCEPT !.InputChannels = of.InputChannels, !.OutputChannels = of.OutputChannels, !.Elements = e]
<1>1. cmsPipelineCat(l1, l2) = Blessed(m)
  BY DEF cmsPipelineCat, Spoken, LutFields
<1>2. Tells(e)
  BY TellsJoin DEF Spoken
<1> HIDE DEF e, of
<1>3. DOMAIN m = LutFields /\ m.Elements = e /\ m.Eval16Fn = "_LUTeval16" /\ m.Data = Itself
  BY DEF Spoken, LutFields
<1> HIDE DEF m
<1>4. /\ DOMAIN Blessed(m) = LutFields /\ Blessed(m).Elements = e /\ Blessed(m).Eval16Fn = "_LUTeval16"
      /\ Blessed(m).Data = Itself
  BY <1>3, BlessedKeeps
<1> QED  BY <1>1, <1>2, <1>4 DEF Spoken

--------------------
\* The words of stages.

LEMMA LetterIs == \A w, x, y, z : IsLetter(<<w, x, y, z>>) /\ IsWord(<<<<w, x, y, z>>>>)
<1> SUFFICES ASSUME NEW w, NEW x, NEW y, NEW z PROVE IsLetter(<<w, x, y, z>>) /\ IsWord(<<<<w, x, y, z>>>>)
  OBVIOUS
<1> DEFINE a == <<w, x, y, z>>
<1>1. IsLetter(a)
  BY DEF IsLetter
<1> HIDE DEF a
<1>2. IsWord(<<a>>)
  BY <1>1, OneLetter
<1> QED  BY <1>1, <1>2 DEF a

LEMMA WordsAre == \A q, part, k : IsWord(Forth(q, part)) /\ IsWord(Back(q, part)) /\ IsWord(Once(q, part, k))
  BY LetterIs DEF Forth, Back, Once

LEMMA PlacedTold ==
    ASSUME NEW type \in {"Curves", "CLut", "Matrix", "NamedColor"}, NEW i, NEW o, NEW x, NEW y, NEW word, IsWord(word)
    PROVE  /\ Told(_cmsStageAllocPlaceholder(type, i, o, x, y, word))
           /\ _cmsStageAllocPlaceholder(type, i, o, x, y, word).word = word
<1> DEFINE st == _cmsStageAllocPlaceholder(type, i, o, x, y, word)
<1>1. DOMAIN st = StageFields /\ st.Implements = type /\ st.word = word
  BY DEF _cmsStageAllocPlaceholder, StageFields
<1> HIDE DEF st
<1>2. Told(st)
  BY <1>1, BetweenIs DEF Told
<1> QED  BY <1>1, <1>2 DEF st

LEMMA EmptyTold ==
    ASSUME NEW type, NEW i, NEW o, NEW x, NEW y
    PROVE  /\ Told(_cmsStageAllocPlaceholder(type, i, o, x, y, <<>>))
           /\ _cmsStageAllocPlaceholder(type, i, o, x, y, <<>>).word = <<>>
<1> DEFINE st == _cmsStageAllocPlaceholder(type, i, o, x, y, <<>>)
<1>1. DOMAIN st = StageFields /\ st.word = <<>>
  BY DEF _cmsStageAllocPlaceholder, StageFields
<1> HIDE DEF st
<1>2. Told(st)
  BY <1>1, NoWord DEF Told
<1> QED  BY <1>1, <1>2 DEF st

LEMMA AllocatedTold ==
    ASSUME NEW i, NEW o, NEW x, NEW y, NEW word, IsWord(word)
    PROVE  /\ Told(cmsStageAllocToneCurves(i, x, y, word)) /\ cmsStageAllocToneCurves(i, x, y, word).word = word
           /\ Told(cmsStageAllocCLut16bit(i, o, x, y, word)) /\ cmsStageAllocCLut16bit(i, o, x, y, word).word = word
           /\ Told(_cmsStageAllocNamedColor(o, y, word))
           /\ Told(_cmsStageClipNegatives(i, x)) /\ Told(cmsStageAllocIdentity(i, x))
           /\ cmsStageAllocIdentity(i, x).word = <<>>
  BY PlacedTold, EmptyTold DEF cmsStageAllocToneCurves, cmsStageAllocCLut16bit, _cmsStageAllocNamedColor,
     _cmsStageClipNegatives, cmsStageAllocIdentity

LEMMA MatrixTold ==
    ASSUME NEW i, NEW o, NEW x, NEW y, NEW word, IsWord(word), NEW offset
    PROVE  Told(cmsStageAllocMatrix(i, o, x, y, word, offset))
<1> DEFINE st == cmsStageAllocMatrix(i, o, x, y, word, offset)
<1>1. DOMAIN st = StageFields /\ st.Implements = "Matrix" /\ st.word = word
  BY DEF cmsStageAllocMatrix, _cmsStageAllocPlaceholder, StageFields
<1> HIDE DEF st
<1>2. Told(st)
  BY <1>1, BetweenIs DEF Told
<1> QED  BY <1>2 DEF st

LEMMA ConversionTold == \A for, x, y, offset : Told(Conversion(for, x, y, offset))
<1> SUFFICES ASSUME NEW for, NEW x, NEW y, NEW offset PROVE Told(Conversion(for, x, y, offset))
  OBVIOUS
<1> DEFINE st == Conversion(for, x, y, offset)
<1>1. DOMAIN st = StageFields /\ st.word = <<>>
  BY DEF Conversion, cmsStageAllocMatrix, _cmsStageAllocPlaceholder, StageFields
<1> HIDE DEF st
<1>2. Told(st)
  BY <1>1, NoWord DEF Told
<1> QED  BY <1>2 DEF st

LEMMA ConversionsTold ==
    /\ Told(_cmsStageAllocLabV2ToV4) /\ Told(_cmsStageAllocLabV4ToV2)
    /\ Told(_cmsStageNormalizeFromLabFloat) /\ Told(_cmsStageNormalizeFromXyzFloat)
    /\ Told(_cmsStageNormalizeToLabFloat) /\ Told(_cmsStageNormalizeToXyzFloat)
    /\ Told(_cmsStageAllocXYZ2Lab) /\ Told(_cmsStageAllocLab2XYZ)
  BY ConversionTold, EmptyTold DEF _cmsStageAllocLabV2ToV4, _cmsStageAllocLabV4ToV2, _cmsStageNormalizeFromLabFloat,
     _cmsStageNormalizeFromXyzFloat, _cmsStageNormalizeToLabFloat, _cmsStageNormalizeToXyzFloat,
     _cmsStageAllocXYZ2Lab, _cmsStageAllocLab2XYZ

--------------------
\* Whatever is read of a regular profile speaks.

LEMMA StoredSpeaks ==
    ASSUME NEW q, NEW tag, NEW entry, NEW exit, q.tags[tag].parts \in Seq({"Curves", "CLut", "Matrix"})
    PROVE  Spoken(Stored(q, tag, entry, exit))
<1> DEFINE t == q.tags[tag]
           m == Len(t.parts)
           x == Encoding(entry, t.type)
           y == Encoding(exit, t.type)
           turn == SelectInSeq(t.parts, LAMBDA type : type \in {"CLut", "Matrix"})
           side(k) == IF turn # 0 /\ k >= turn THEN t.out ELSE t.in
           where(k) == IF k = 0 THEN x ELSE IF k = m THEN y ELSE <<q.name, tag, k>>
           st(k) == _cmsStageAllocPlaceholder(t.parts[k], side(k - 1), side(k), where(k - 1), where(k),
                                              Once(q.name, tag, k))
           e == [k \in 1..m |-> st(k)]
           l == cmsPipelineAlloc(t.in, t.out)
<1>1. Stored(q, tag, entry, exit) = Blessed([l EXCEPT !.Elements = e])
  BY DEF Stored
<1>2. m \in Nat /\ \A k \in 1..m : t.parts[k] \in {"Curves", "CLut", "Matrix"}
  <2>1. IsSeq(t.parts)
    BY OfItsElements
  <2> QED  BY <2>1, Sequence
<1>3. ASSUME NEW k \in 1..m PROVE Told(st(k))
  <2> DEFINE type == t.parts[k]
             word == Once(q.name, tag, k)
             i == side(k - 1)
             o == side(k)
             fr == where(k - 1)
             to == where(k)
  <2>1. type \in {"Curves", "CLut", "Matrix", "NamedColor"} /\ IsWord(word)
    BY <1>2, WordsAre
  <2> HIDE DEF type, word, i, o, fr, to
  <2>2. Told(_cmsStageAllocPlaceholder(type, i, o, fr, to, word))
    BY <2>1, PlacedTold
  <2> QED  BY <2>2 DEF type, word, i, o, fr, to
<1>5. Spoken(l)
  BY AllocSpeaks
<1> HIDE DEF st, m, l
<1>4. Tells(e)
  <2> DEFINE S == {st(k) : k \in 1..m}
  <2>1. e \in [1..m -> S]
    OBVIOUS
  <2>4. DOMAIN e = 1..m /\ \A k \in 1..m : e[k] = st(k)
    OBVIOUS
  <2> HIDE DEF S, e
  <2>2. e \in Seq(S)
    BY <1>2, <2>1, Numbered
  <2>3. IsSeq(e)
    BY <2>2, OfItsElements
  <2> QED  BY <1>3, <2>3, <2>4 DEF Tells
<1> HIDE DEF e
<1>6. Spoken(Blessed([l EXCEPT !.Elements = e]))
  BY <1>4, <1>5, SpeaksOf
<1> QED  BY <1>1, <1>6

LEMMA TableSpeaks ==
    ASSUME NEW q, Regular(q), NEW tag \in Tables \cap DOMAIN q.tags
    PROVE  Spoken(Towards(q, tag)) /\ Spoken(Away(q, tag))
<1>1. q.tags[tag].parts \in Seq({"Curves", "CLut", "Matrix"})
  BY RegularTags
<1> QED  BY <1>1, StoredSpeaks DEF Towards, Away

LEMMA NormalizedSaid ==
    ASSUME NEW l, Said(l), NEW space
    PROVE  Said(NormalizeTo(l, space)) /\ Said(NormalizeFrom(l, space))
<1>1. CASE space = "Lab"
  BY <1>1, ConversionsTold, EndSaid DEF NormalizeTo, NormalizeFrom
<1>2. CASE space = "XYZ"
  BY <1>2, ConversionsTold, EndSaid DEF NormalizeTo, NormalizeFrom
<1>3. CASE space \notin {"Lab", "XYZ"}
  BY <1>3 DEF NormalizeTo, NormalizeFrom
<1> QED  BY <1>1, <1>2, <1>3

LEMMA FloatSaid ==
    ASSUME NEW q, Regular(q), NEW tag \in Tables \cap DOMAIN q.tags
    PROVE  Said(_cmsReadFloatInputTag(q, tag)) /\ Said(_cmsReadFloatOutputTag(q, tag))
           /\ Said(_cmsReadFloatDevicelinkTag(q, tag))
<1>1. Said(Towards(q, tag)) /\ Said(Away(q, tag))
  BY TableSpeaks DEF Said
<1> QED  BY <1>1, NormalizedSaid DEF _cmsReadFloatInputTag, _cmsReadFloatOutputTag, _cmsReadFloatDevicelinkTag

LEMMA AdjustedSaid ==
    ASSUME NEW q, Regular(q), NEW tag \in Tables \cap DOMAIN q.tags, NEW c, NEW d
    PROVE  /\ Said(EndIf(d, BeginIf(c, cmsPipelineDup(Towards(q, tag)), _cmsStageAllocLabV4ToV2), _cmsStageAllocLabV2ToV4))
           /\ Said(EndIf(d, BeginIf(c, cmsPipelineDup(Away(q, tag)), _cmsStageAllocLabV4ToV2), _cmsStageAllocLabV2ToV4))
<1>1. Said(cmsPipelineDup(Towards(q, tag))) /\ Said(cmsPipelineDup(Away(q, tag)))
  BY TableSpeaks, DupSaid DEF Said
<1> DEFINE l == cmsPipelineDup(Towards(q, tag))
           k == cmsPipelineDup(Away(q, tag))
           v2 == _cmsStageAllocLabV4ToV2
           v4 == _cmsStageAllocLabV2ToV4
<1>2. Told(v2) /\ Told(v4) /\ Said(l) /\ Said(k)
  BY <1>1, ConversionsTold
<1> HIDE DEF l, k, v2, v4
<1>3. Said(BeginIf(c, l, v2)) /\ Said(BeginIf(c, k, v2))
  BY <1>2, IfSaid
<1>4. Said(EndIf(d, BeginIf(c, l, v2), v4)) /\ Said(EndIf(d, BeginIf(c, k, v2), v4))
  BY <1>2, <1>3, IfSaid
<1> QED  BY <1>4 DEF l, k, v2, v4

\* Curves and colorants.
LEMMA GraySaid ==
    ASSUME NEW q
    PROVE  Said(BuildGrayInputMatrixPipeline(q)) /\ Said(BuildGrayOutputPipeline(q))
<1>1. Said(cmsPipelineAlloc(1, 3)) /\ Said(cmsPipelineAlloc(3, 1))
  BY AllocSpeaks DEF Said
<1> DEFINE a == Once(q.name, "OneToThree", 0)
           b == Forth(q.name, "GrayTRC")
           c == Once(q.name, "GrayInput", 0)
           d == Once(q.name, "PickLstar", 0)
           e == Once(q.name, "PickY", 0)
           f == Back(q.name, "GrayTRC")
           g == <<q.name, "GGG">>
           x == <<q.name, "linear">>
<1>2. IsWord(a) /\ IsWord(b) /\ IsWord(c) /\ IsWord(d) /\ IsWord(e) /\ IsWord(f)
  BY WordsAre
<1> HIDE DEF a, b, c, d, e, f, g, x
<1>3. /\ Told(cmsStageAllocMatrix(1, 3, "GRAY", g, a, FALSE)) /\ Told(cmsStageAllocMatrix(1, 3, x, "XYZ", c, FALSE))
      /\ Told(cmsStageAllocMatrix(3, 1, "Lab4", x, d, FALSE)) /\ Told(cmsStageAllocMatrix(3, 1, "XYZ", x, e, FALSE))
  BY <1>2, MatrixTold
<1>4. /\ Told(cmsStageAllocToneCurves(3, g, "Lab4", b)) /\ Told(cmsStageAllocToneCurves(1, "GRAY", x, b))
      /\ Told(cmsStageAllocToneCurves(1, x, "GRAY", f))
  BY <1>2, AllocatedTold
<1>5. Said(BuildGrayInputMatrixPipeline(q))
  <2>1. CASE ~cmsIsTag(q, "GrayTRC")
    BY <2>1 DEF BuildGrayInputMatrixPipeline, Said
  <2>2. CASE cmsIsTag(q, "GrayTRC") /\ q.PCS = "Lab"
    <3>1. Said(End(End(cmsPipelineAlloc(1, 3), cmsStageAllocMatrix(1, 3, "GRAY", g, a, FALSE)),
                   cmsStageAllocToneCurves(3, g, "Lab4", b)))
      BY <1>1, <1>3, <1>4, EndSaid
    <3> QED  BY <2>2, <3>1 DEF BuildGrayInputMatrixPipeline, a, b, g
  <2>3. CASE cmsIsTag(q, "GrayTRC") /\ q.PCS # "Lab"
    <3>1. Said(End(End(cmsPipelineAlloc(1, 3), cmsStageAllocToneCurves(1, "GRAY", x, b)),
                   cmsStageAllocMatrix(1, 3, x, "XYZ", c, FALSE)))
      BY <1>1, <1>3, <1>4, EndSaid
    <3> QED  BY <2>3, <3>1 DEF BuildGrayInputMatrixPipeline, x, b, c
  <2> QED  BY <2>1, <2>2, <2>3
<1>6. Said(BuildGrayOutputPipeline(q))
  <2>1. CASE ~cmsIsTag(q, "GrayTRC")
    BY <2>1 DEF BuildGrayOutputPipeline, Said
  <2>2. CASE cmsIsTag(q, "GrayTRC") /\ q.PCS = "Lab"
    <3>1. Said(End(End(cmsPipelineAlloc(3, 1), cmsStageAllocMatrix(3, 1, "Lab4", x, d, FALSE)),
                   cmsStageAllocToneCurves(1, x, "GRAY", f)))
      BY <1>1, <1>3, <1>4, EndSaid
    <3> QED  BY <2>2, <3>1 DEF BuildGrayOutputPipeline, x, d, f
  <2>3. CASE cmsIsTag(q, "GrayTRC") /\ q.PCS # "Lab"
    <3>1. Said(End(End(cmsPipelineAlloc(3, 1), cmsStageAllocMatrix(3, 1, "XYZ", x, e, FALSE)),
                   cmsStageAllocToneCurves(1, x, "GRAY", f)))
      BY <1>1, <1>3, <1>4, EndSaid
    <3> QED  BY <2>3, <3>1 DEF BuildGrayOutputPipeline, x, e, f
  <2> QED  BY <2>1, <2>2, <2>3
<1> QED  BY <1>5, <1>6

LEMMA ShaperSaid ==
    ASSUME NEW q
    PROVE  Said(BuildRGBInputMatrixShaper(q)) /\ Said(BuildRGBOutputMatrixShaper(q))
<1>1. Said(cmsPipelineAlloc(3, 3))
  BY AllocSpeaks DEF Said
<1> DEFINE a == Forth(q.name, "TRC")
           b == Forth(q.name, "Colorants")
           c == Back(q.name, "Colorants")
           d == Back(q.name, "TRC")
           x == <<q.name, "linear">>
<1>2. IsWord(a) /\ IsWord(b) /\ IsWord(c) /\ IsWord(d)
  BY WordsAre
<1> HIDE DEF a, b, c, d, x
<1>3. Told(cmsStageAllocMatrix(3, 3, x, "XYZ", b, FALSE)) /\ Told(cmsStageAllocMatrix(3, 3, "XYZ", x, c, FALSE))
  BY <1>2, MatrixTold
<1>4. Told(cmsStageAllocToneCurves(3, "RGB", x, a)) /\ Told(cmsStageAllocToneCurves(3, x, "RGB", d))
  BY <1>2, AllocatedTold
<1>5. Said(BuildRGBInputMatrixShaper(q))
  <2>1. Said(End(End(cmsPipelineAlloc(3, 3), cmsStageAllocToneCurves(3, "RGB", x, a)),
                 cmsStageAllocMatrix(3, 3, x, "XYZ", b, FALSE)))
    BY <1>1, <1>3, <1>4, EndSaid
  <2> DEFINE l == End(End(cmsPipelineAlloc(3, 3), cmsStageAllocToneCurves(3, "RGB", x, a)),
                      cmsStageAllocMatrix(3, 3, x, "XYZ", b, FALSE))
  <2>2. BuildRGBInputMatrixShaper(q) \in {NULL, EndIf(q.PCS = "Lab", l, _cmsStageAllocXYZ2Lab)}
    BY DEF BuildRGBInputMatrixShaper, a, b, x
  <2>4. Said(l)
    BY <2>1
  <2> HIDE DEF l
  <2>3. Said(EndIf(q.PCS = "Lab", l, _cmsStageAllocXYZ2Lab))
    BY <2>4, ConversionsTold, IfSaid
  <2> QED  BY <2>2, <2>3 DEF Said
<1>6. Said(BuildRGBOutputMatrixShaper(q))
  <2> DEFINE k == EndIf(q.PCS = "Lab", cmsPipelineAlloc(3, 3), _cmsStageAllocLab2XYZ)
             l == End(End(k, cmsStageAllocMatrix(3, 3, "XYZ", x, c, FALSE)), cmsStageAllocToneCurves(3, x, "RGB", d))
  <2>1. Said(k)
    BY <1>1, ConversionsTold, IfSaid
  <2>2. BuildRGBOutputMatrixShaper(q) \in {NULL, l}
    BY DEF BuildRGBOutputMatrixShaper, c, d, x
  <2> HIDE DEF k
  <2>3. Said(l)
    BY <1>3, <1>4, <2>1, EndSaid
  <2> QED  BY <2>2, <2>3 DEF Said
<1> QED  BY <1>5, <1>6

--------------------
\* The readers.

LEMMA TagsNamed ==
    ASSUME NEW I \in Nat, I <= 3, NEW q
    PROVE  /\ Device2PCSFloat[I + 1] \in Tables /\ PCS2DeviceFloat[I + 1] \in Tables /\ Device2PCSFloat[1] \in Tables
           /\ Tag16(q, Device2PCS16, I) \in Tables /\ Tag16(q, PCS2Device16, I) \in Tables
<1>1. I \in 0..3
  OBVIOUS
<1> QED  BY <1>1, TableNames DEF Tag16

LEMMA NamesSaid ==
    ASSUME NEW q, NEW i, NEW to, NEW word, IsWord(word), NEW c
    PROVE  /\ Said(End(Begin(cmsPipelineAlloc(0, 0), _cmsStageAllocNamedColor(i, to, word)), _cmsStageAllocLabV2ToV4))
           /\ Said(EndIf(c, Begin(cmsPipelineAlloc(0, 0), _cmsStageAllocNamedColor(i, to, word)), _cmsStageAllocLabV2ToV4))
<1> DEFINE st == _cmsStageAllocNamedColor(i, to, word)
           l == Begin(cmsPipelineAlloc(0, 0), st)
<1>1. Told(st)
  BY AllocatedTold
<1> HIDE DEF st
<1>2. Said(l)
  BY <1>1, AllocSpeaks, EndSaid DEF Said
<1> HIDE DEF l
<1>3. Said(End(l, _cmsStageAllocLabV2ToV4)) /\ Said(EndIf(c, l, _cmsStageAllocLabV2ToV4))
  BY <1>2, ConversionsTold, EndSaid, IfSaid
<1> QED  BY <1>3 DEF l, st

LEMMA InputSaid ==
    ASSUME NEW q, Regular(q), NEW I \in Nat
    PROVE  Said(_cmsReadInputLUT(q, I))
<1> DEFINE inRange == I <= INTENT_ABSOLUTE_COLORIMETRIC
           float == Device2PCSFloat[I + 1]
           tag16 == Tag16(q, Device2PCS16, I)
           l == _cmsReadInputLUT(q, I)
<1> SUFFICES Said(l)
  OBVIOUS
<1>0. inRange <=> I <= 3
  BY DEF INTENT_ABSOLUTE_COLORIMETRIC
<1>1. CASE q.DeviceClass = "NamedColor"
  <2> DEFINE word == Once(q.name, "PCS of names", 0)
  <2>1. l \in {NULL, End(Begin(cmsPipelineAlloc(0, 0), _cmsStageAllocNamedColor(3, "Lab2", word)), _cmsStageAllocLabV2ToV4)}
    BY <1>1 DEF _cmsReadInputLUT
  <2>2. IsWord(word)
    BY WordsAre
  <2> HIDE DEF word, l
  <2>3. Said(End(Begin(cmsPipelineAlloc(0, 0), _cmsStageAllocNamedColor(3, "Lab2", word)), _cmsStageAllocLabV2ToV4))
    BY <2>2, NamesSaid
  <2> QED  BY <2>1, <2>3 DEF Said
<1>2. CASE q.DeviceClass # "NamedColor" /\ inRange /\ cmsIsTag(q, float)
  <2>1. l = _cmsReadFloatInputTag(q, float)
    BY <1>2 DEF _cmsReadInputLUT
  <2>2. float \in Tables \cap DOMAIN q.tags
    BY <1>0, <1>2, TagsNamed DEF cmsIsTag
  <2> HIDE DEF float, l
  <2> QED  BY <2>1, <2>2, FloatSaid
<1>3. CASE q.DeviceClass # "NamedColor" /\ inRange /\ ~cmsIsTag(q, float) /\ cmsIsTag(q, tag16)
  <2> DEFINE d == IsLut16(q, tag16) /\ q.PCS = "Lab"
             c == d /\ q.ColorSpace = "Lab"
  <2>1. l = EndIf(d, BeginIf(c, cmsPipelineDup(Towards(q, tag16)), _cmsStageAllocLabV4ToV2), _cmsStageAllocLabV2ToV4)
    BY <1>3 DEF _cmsReadInputLUT
  <2>2. tag16 \in Tables \cap DOMAIN q.tags
    BY <1>0, <1>3, TagsNamed DEF cmsIsTag
  <2> HIDE DEF tag16, l, c, d
  <2> QED  BY <2>1, <2>2, AdjustedSaid
<1>4. CASE q.DeviceClass # "NamedColor" /\ ~(inRange /\ cmsIsTag(q, float)) /\ ~(inRange /\ cmsIsTag(q, tag16))
  <2>1. l \in {BuildGrayInputMatrixPipeline(q), BuildRGBInputMatrixShaper(q)}
    BY <1>4 DEF _cmsReadInputLUT
  <2> QED  BY <2>1, GraySaid, ShaperSaid
<1> QED  BY <1>1, <1>2, <1>3, <1>4

LEMMA OutputSaid ==
    ASSUME NEW q, Regular(q), NEW I \in Nat
    PROVE  Said(_cmsReadOutputLUT(q, I))
<1> DEFINE inRange == I <= INTENT_ABSOLUTE_COLORIMETRIC
           float == PCS2DeviceFloat[I + 1]
           tag16 == Tag16(q, PCS2Device16, I)
           l == _cmsReadOutputLUT(q, I)
<1> SUFFICES Said(l)
  OBVIOUS
<1>0. inRange <=> I <= 3
  BY DEF INTENT_ABSOLUTE_COLORIMETRIC
<1>2. CASE inRange /\ cmsIsTag(q, float)
  <2>1. l = _cmsReadFloatOutputTag(q, float)
    BY <1>2 DEF _cmsReadOutputLUT
  <2>2. float \in Tables \cap DOMAIN q.tags
    BY <1>0, <1>2, TagsNamed DEF cmsIsTag
  <2> HIDE DEF float, l
  <2> QED  BY <2>1, <2>2, FloatSaid
<1>3. CASE inRange /\ ~cmsIsTag(q, float) /\ cmsIsTag(q, tag16)
  <2> DEFINE c == IsLut16(q, tag16) /\ q.PCS = "Lab"
             d == c /\ q.ColorSpace = "Lab"
  <2>1. l = EndIf(d, BeginIf(c, cmsPipelineDup(Away(q, tag16)), _cmsStageAllocLabV4ToV2), _cmsStageAllocLabV2ToV4)
    BY <1>3 DEF _cmsReadOutputLUT
  <2>2. tag16 \in Tables \cap DOMAIN q.tags
    BY <1>0, <1>3, TagsNamed DEF cmsIsTag
  <2> HIDE DEF tag16, l, c, d
  <2> QED  BY <2>1, <2>2, AdjustedSaid
<1>4. CASE ~(inRange /\ cmsIsTag(q, float)) /\ ~(inRange /\ cmsIsTag(q, tag16))
  <2>1. l \in {BuildGrayOutputPipeline(q), BuildRGBOutputMatrixShaper(q)}
    BY <1>4 DEF _cmsReadOutputLUT
  <2> QED  BY <2>1, GraySaid, ShaperSaid
<1> QED  BY <1>2, <1>3, <1>4

LEMMA DevlinkSaid ==
    ASSUME NEW q, Regular(q), NEW I \in Nat
    PROVE  Said(_cmsReadDevicelinkLUT(q, I))
<1> DEFINE float == Device2PCSFloat[I + 1]
           first == Device2PCSFloat[1]
           tag16 == Tag16(q, Device2PCS16, I)
           l == _cmsReadDevicelinkLUT(q, I)
<1> SUFFICES Said(l)
  OBVIOUS
<1>0. I <= INTENT_ABSOLUTE_COLORIMETRIC <=> I <= 3
  BY DEF INTENT_ABSOLUTE_COLORIMETRIC
<1>1. CASE I > INTENT_ABSOLUTE_COLORIMETRIC
  <2>1. ~(I <= INTENT_ABSOLUTE_COLORIMETRIC)
    BY <1>1 DEF INTENT_ABSOLUTE_COLORIMETRIC
  <2>2. l = NULL
    BY <1>1, <2>1 DEF _cmsReadDevicelinkLUT
  <2> QED  BY <2>2 DEF Said
<1>2. CASE I <= INTENT_ABSOLUTE_COLORIMETRIC /\ q.DeviceClass = "NamedColor"
  <2> DEFINE word == Once(q.name, "colorants of names", 0)
             i == cmsChannelsOfColorSpace[q.ColorSpace]
             to == Encoding(q.ColorSpace, "Lut16")
             c == q.ColorSpace = "Lab"
  <2>1. l \in {NULL, EndIf(c, Begin(cmsPipelineAlloc(0, 0), _cmsStageAllocNamedColor(i, to, word)), _cmsStageAllocLabV2ToV4)}
    BY <1>0, <1>2 DEF _cmsReadDevicelinkLUT, INTENT_ABSOLUTE_COLORIMETRIC
  <2>2. IsWord(word)
    BY WordsAre
  <2> HIDE DEF word, l, i, to, c
  <2>3. Said(EndIf(c, Begin(cmsPipelineAlloc(0, 0), _cmsStageAllocNamedColor(i, to, word)), _cmsStageAllocLabV2ToV4))
    BY <2>2, NamesSaid
  <2> QED  BY <2>1, <2>3 DEF Said
<1>3. CASE I <= INTENT_ABSOLUTE_COLORIMETRIC /\ q.DeviceClass # "NamedColor"
  <2>0. I <= 3 /\ ~(I > INTENT_ABSOLUTE_COLORIMETRIC)
    BY <1>0, <1>3 DEF INTENT_ABSOLUTE_COLORIMETRIC
  <2>1. CASE cmsIsTag(q, float)
    <3>1. l = _cmsReadFloatDevicelinkTag(q, float)
      BY <1>3, <2>0, <2>1 DEF _cmsReadDevicelinkLUT
    <3>2. float \in Tables \cap DOMAIN q.tags
      BY <2>0, <2>1, TagsNamed DEF cmsIsTag
    <3> HIDE DEF float, l
    <3> QED  BY <3>1, <3>2, FloatSaid
  <2>2. CASE ~cmsIsTag(q, float) /\ cmsIsTag(q, first)
    <3>1. l = cmsPipelineDup(Towards(q, first))
      BY <1>3, <2>0, <2>2 DEF _cmsReadDevicelinkLUT
    <3>2. first \in Tables \cap DOMAIN q.tags
      BY <2>0, <2>2, TagsNamed DEF cmsIsTag
    <3> HIDE DEF first, l
    <3> QED  BY <3>1, <3>2, TableSpeaks, DupSaid DEF Said
  <2>3. CASE ~cmsIsTag(q, float) /\ ~cmsIsTag(q, first) /\ ~cmsIsTag(q, tag16)
    <3>1. l = NULL
      BY <1>3, <2>0, <2>3 DEF _cmsReadDevicelinkLUT
    <3> QED  BY <3>1 DEF Said
  <2>4. CASE ~cmsIsTag(q, float) /\ ~cmsIsTag(q, first) /\ cmsIsTag(q, tag16)
    <3> DEFINE c == IsLut16(q, tag16) /\ q.ColorSpace = "Lab"
               d == IsLut16(q, tag16) /\ q.PCS = "Lab"
    <3>1. l = EndIf(d, BeginIf(c, cmsPipelineDup(Towards(q, tag16)), _cmsStageAllocLabV4ToV2), _cmsStageAllocLabV2ToV4)
      BY <1>3, <2>0, <2>4 DEF _cmsReadDevicelinkLUT
    <3>2. tag16 \in Tables \cap DOMAIN q.tags
      BY <2>0, <2>4, TagsNamed DEF cmsIsTag
    <3> HIDE DEF tag16, l, c, d
    <3> QED  BY <3>1, <3>2, AdjustedSaid
  <2> QED  BY <2>1, <2>2, <2>3, <2>4
<1>4. I > INTENT_ABSOLUTE_COLORIMETRIC \/ I <= INTENT_ABSOLUTE_COLORIMETRIC
  BY DEF INTENT_ABSOLUTE_COLORIMETRIC
<1> QED  BY <1>1, <1>2, <1>3, <1>4

--------------------
\* What the optimisations make of a pipeline says what it said.

LEMMA SameBeside ==
    ASSUME NEW u, NEW v, NEW w, IsWord(u), IsWord(v), IsWord(w), Same(u, v)
    PROVE  /\ Same(w \o u, w \o v) /\ Same(u \o w, v \o w)
           /\ IsWord(w \o u) /\ IsWord(w \o v) /\ IsWord(u \o w) /\ IsWord(v \o w)
<1>1. Same(w, w)
  BY SameItself
<1>2. Same(w \o u, w \o v) /\ Same(u \o w, v \o w)
  BY <1>1, SameJoin
<1> QED  BY <1>2, WordsJoin

LEMMA PreoptimisedSpeaks ==
    ASSUME NEW l, Spoken(l), NEW pass \in 1..Passes
    PROVE  Spoken(Preoptimised(l, pass).lut) /\ Word(Preoptimised(l, pass).lut) = Word(l)
<1> DEFINE was == l.Elements
           now == CASE pass = 1 -> _Remove1Op(was, "Identity")
                    [] pass \in 2..Passes - 1 -> _Remove2Op(was, Pairs[pass - 1][1], Pairs[pass - 1][2])
                    [] pass = Passes -> Passed(_MultiplyMatrix(was))
           m == [l EXCEPT !.Elements = now]
<1>1. Preoptimised(l, pass).lut = m
  BY DEF Preoptimised
<1>2. Tells(was)
  BY DEF Spoken
<1>3. Retells(was, now)
  <2>1. CASE pass = 1
    <3>1. now = _Remove1Op(was, "Identity")
      BY <2>1, PairsFit
    <3> QED  BY <1>2, <3>1, Remove1Tells
  <2>2. CASE pass \in 2..7
    <3>1. now = _Remove2Op(was, Pairs[pass - 1][1], Pairs[pass - 1][2])
      BY <2>2, PairsFit
    <3> DEFINE k == pass - 1
    <3>2. k \in 1..6
      BY <2>2
    <3> HIDE DEF was, now
    <3>3. now = _Remove2Op(was, Pairs[k][1], Pairs[k][2])
      BY <3>1
    <3> HIDE DEF k
    <3>4. Retells(was, _Remove2Op(was, Pairs[k][1], Pairs[k][2]))
      BY <1>2, <3>2, PairsFit, Remove2Tells
    <3> QED  BY <3>3, <3>4
  <2>3. CASE pass = 8
    <3>1. now = Passed(_MultiplyMatrix(was))
      BY <2>3, PairsFit
    <3> QED  BY <1>2, <3>1, MultiplyTells
  <2> QED  BY <2>1, <2>2, <2>3, PairsFit
<1> HIDE DEF now, was
<1>4. Tells(now) /\ Same(Tale(now), Tale(was))
  BY <1>3 DEF Retells
<1>5. Spoken(m) /\ m.Elements = now
  BY <1>4, SpeaksOf
<1> HIDE DEF m
<1>6. Word(m) = Word(l)
  BY <1>4, <1>5, WordIs, SameReduced DEF was
<1> QED  BY <1>1, <1>5, <1>6

--------------------
\* A pipeline that says u, and gives it to 16-bit colours too.

LEMMA SaysWord == \A l, u : Says(l, u) => Word(l) = Reduced(u)
  BY WordIs, SameReduced DEF Says

LEMMA MeantMeans == \A r, l, u : Says(l, u) /\ Meant(r, u) => Means(r, l)
  BY SaysWord DEF Meant, Means

LEMMA SpokenIs == \A l : Spoken(l) => Says(l, Tale(l.Elements)) /\ Meant(l, Tale(l.Elements))
<1> SUFFICES ASSUME NEW l, Spoken(l) PROVE Says(l, Tale(l.Elements)) /\ Meant(l, Tale(l.Elements))
  OBVIOUS
<1>1. Says(l, Tale(l.Elements))
  BY SameItself DEF Spoken, Says
<1>2. Word16(l) = Word(l)
  BY SpokenMeans DEF Means
<1> QED  BY <1>1, <1>2, SaysWord DEF Meant

LEMMA SpokenThrough ==
    ASSUME NEW l, Spoken(l), NEW u, Same(Tale(l.Elements), u)
    PROVE  Meant(l, u) /\ Says(l, u)
<1>1. Says(l, u)
  BY DEF Spoken, Says
<1>2. Word16(l) = Word(l)
  BY SpokenMeans DEF Means
<1> QED  BY <1>1, <1>2, SaysWord DEF Meant

\* The routine is given a word that means the same.
LEMMA SetMeans ==
    ASSUME NEW l, NEW u, Says(l, u), NEW fn, NEW w, Same(w, u), NEW kind, kind # "itself"
    PROVE  Meant(_cmsPipelineSetOptimizationParameters(l, fn, w, kind), u)
<1> DEFINE m == _cmsPipelineSetOptimizationParameters(l, fn, w, kind)
<1>1. DOMAIN m = LutFields /\ m.Elements = l.Elements /\ m.Data = [word |-> w, kind |-> kind]
  BY DEF _cmsPipelineSetOptimizationParameters, LutFields, Says
<1> HIDE DEF m
<1>2. m.Data # Itself /\ m.Data.word = w
  <2>1. m.Data.kind # Itself.kind
    BY <1>1 DEF Itself
  <2> QED  BY <1>1, <2>1
<1>3. Word16(m) = Reduced(w)
  BY <1>2 DEF Word16
<1>4. Meant(m, u)
  BY <1>1, <1>3, SameReduced DEF Meant, Says
<1> QED  BY <1>4 DEF m

LEMMA IdentityMeans ==
    ASSUME NEW l, NEW u, Says(l, u), Reduced(u) = <<>>
    PROVE  Meant(FastIdentity(l), u)
<1> DEFINE m == FastIdentity(l)
<1>1. DOMAIN m = LutFields /\ m.Elements = l.Elements /\ m.Eval16Fn = "FastIdentity16" /\ m.Data = Itself
  BY DEF FastIdentity, LutFields, Says
<1> HIDE DEF m
<1>2. Word16(m) = <<>>
  BY <1>1 DEF Word16
<1>3. Meant(m, u)
  BY <1>1, <1>2 DEF Meant, Says
<1> QED  BY <1>3 DEF m

LEMMA WhiteMeans ==
    ASSUME NEW l, NEW u, Meant(l, u)
    PROVE  Meant(FixWhiteMisalignment(l).lut, u)
<1> DEFINE s == l.Elements
           m == Len(s)
           st(k) == [s[k] EXCEPT !.white = l.Elements[k].Type = "CLut"]
           e == [k \in DOMAIN s |-> st(k)]
           v == FixWhiteMisalignment(l).lut
<1>1. DOMAIN l = LutFields /\ Tells(s) /\ Same(Tale(s), u) /\ IsSeq(s)
  BY DEF Meant, Says, Tells
<1>2. v = [l EXCEPT !.Elements = e]
  BY DEF FixWhiteMisalignment
<1>3. m \in Nat /\ DOMAIN s = 1..m
  BY <1>1, Sequence
<1>4. ASSUME NEW k \in 1..m PROVE Told(st(k)) /\ st(k).word = s[k].word
  <2> DEFINE w == l.Elements[k].Type = "CLut"
             x == [s[k] EXCEPT !.white = w]
  <2>1. Told(s[k])
    BY <1>1, <1>3 DEF Tells
  <2> HIDE DEF w, s
  <2>2. DOMAIN x = StageFields /\ \A f \in StageFields \ {"white"} : x[f] = s[k][f]
    BY <2>1 DEF Told
  <2> HIDE DEF x
  <2>3. x.Implements = s[k].Implements /\ x.word = s[k].word
    BY <2>2 DEF StageFields
  <2>4. Told(x)
    BY <2>1, <2>2, <2>3 DEF Told
  <2> QED  BY <2>3, <2>4 DEF x, w, s
<1>5. IsSeq(e) /\ DOMAIN e = 1..m /\ \A k \in 1..m : e[k] = st(k)
  <2> DEFINE S == {st(k) : k \in 1..m}
  <2> HIDE DEF st
  <2>1. DOMAIN e = 1..m /\ \A k \in 1..m : e[k] = st(k)
    BY <1>3, Zenon
  <2>2. e = [k \in 1..m |-> e[k]]
    BY <2>1, <1>3, Zenon
  <2> HIDE DEF e
  <2>3. \A k \in 1..m : e[k] \in S
    BY <2>1
  <2>4. e \in Seq(S)
    BY <1>3, <2>2, <2>3
  <2> QED  BY <2>1, <2>4, OfItsElements
<1> HIDE DEF e, s, m, st
<1>6. Tells(e)
  BY <1>4, <1>5 DEF Tells
<1>7. Tale(e) = Tale(s)
  <2>1. [k \in DOMAIN e |-> e[k].word] = [k \in DOMAIN s |-> s[k].word]
    BY <1>3, <1>4, <1>5
  <2> QED  BY <2>1, Zenon DEF Tale
<1>8. DOMAIN v = LutFields /\ v.Elements = e /\ v.Data = l.Data /\ v.Eval16Fn = l.Eval16Fn
  BY <1>1, <1>2 DEF LutFields
<1> HIDE DEF v
<1>9. Says(v, u)
  BY <1>1, <1>6, <1>7, <1>8 DEF Says
<1>10. Word(v) = Word(l)
  BY <1>9, SaysWord DEF Meant
<1>11. Word16(v) = Word16(l)
  BY <1>8, <1>10 DEF Word16
<1> QED  BY <1>9, <1>11 DEF Meant, v

LEMMA JoiningMeans ==
    ASSUME NEW l, NEW u, IsWord(u), Says(l, u), NEW in, NEW out,
           OptimizeByJoiningCurves(l, in, out).ok
    PROVE  Meant(OptimizeByJoiningCurves(l, in, out).lut, u)
<1> DEFINE m == l.InputChannels
           x == Ends(l).from
           y == Ends(l).to
           joined == cmsStageAllocToneCurves(m, x, y, Word(l))
           dest == cmsPipelineAlloc(m, l.OutputChannels)
           id == cmsStageAllocIdentity(m, x)
           fn == IF _cmsFormatterIs8bit(in) THEN "FastEvaluateCurves8" ELSE "FastEvaluateCurves16"
           c1 == cmsPipelineInsertStage(dest, AT_BEGIN, joined)
           c2 == cmsPipelineInsertStage(dest, AT_BEGIN, id)
<1>1. OptimizeByJoiningCurves(l, in, out).lut =
            IF AllCurvesAreLinear(joined) THEN FastIdentity(c2)
            ELSE _cmsPipelineSetOptimizationParameters(c1, fn, joined.word, "duplicated")
  BY DEF OptimizeByJoiningCurves, Refused, Optimised
<1>2. Word(l) = Reduced(u)
  BY SaysWord
<1>3. IsWord(Word(l)) /\ Same(Word(l), u) /\ Reduced(Word(l)) = Word(l)
  BY <1>2, ReducedSame
<1>4. Told(joined) /\ joined.word = Word(l) /\ Told(id) /\ id.word = <<>>
  BY <1>3, AllocatedTold
<1>5. Spoken(dest) /\ dest.Elements = <<>>
  BY AllocSpeaks
<1> HIDE DEF joined, id, dest, fn
<1>6. \A st : Told(st) => /\ Spoken(cmsPipelineInsertStage(dest, AT_BEGIN, st))
                          /\ Tale(cmsPipelineInsertStage(dest, AT_BEGIN, st).Elements) = st.word
  <2> SUFFICES ASSUME NEW st, Told(st)
               PROVE  /\ Spoken(cmsPipelineInsertStage(dest, AT_BEGIN, st))
                      /\ Tale(cmsPipelineInsertStage(dest, AT_BEGIN, st).Elements) = st.word
    OBVIOUS
  <2>1. Spoken(cmsPipelineInsertStage(dest, AT_BEGIN, st))
        /\ cmsPipelineInsertStage(dest, AT_BEGIN, st).Elements = <<st>> \o dest.Elements
    BY <1>5, InsertSpeaks
  <2>2. <<st>> \o <<>> = <<st>> /\ Tale(<<st>>) = st.word
    BY OneStage, NothingAdded, TellsOne
  <2> QED  BY <1>5, <2>1, <2>2
<1>7. Spoken(c1) /\ Tale(c1.Elements) = Word(l) /\ Spoken(c2) /\ Tale(c2.Elements) = <<>>
  BY <1>4, <1>6
<1> HIDE DEF c1, c2
<1>8. CASE AllCurvesAreLinear(joined)
  <2>1. Reduced(joined.word) = <<>>
    BY <1>8 DEF AllCurvesAreLinear, IsIdentity
  <2>2. Reduced(u) = <<>> /\ Same(<<>>, u)
    BY <1>2, <1>3, <1>4, <2>1
  <2>3. Says(c2, u)
    BY <1>7, <2>2, SpokenThrough
  <2>4. Meant(FastIdentity(c2), u)
    BY <2>2, <2>3, IdentityMeans
  <2> QED  BY <1>1, <1>8, <2>4
<1>9. CASE ~AllCurvesAreLinear(joined)
  <2>1. Says(c1, u)
    BY <1>3, <1>7, SpokenThrough
  <2> DEFINE w == joined.word
             kind == "duplicated"
  <2>2. Same(w, u) /\ kind # "itself"
    BY <1>3, <1>4
  <2>5. OptimizeByJoiningCurves(l, in, out).lut = _cmsPipelineSetOptimizationParameters(c1, fn, w, kind)
    BY <1>1, <1>9
  <2> HIDE DEF w, kind
  <2>3. Meant(_cmsPipelineSetOptimizationParameters(c1, fn, w, kind), u)
    BY <2>1, <2>2, SetMeans
  <2> QED  BY <2>3, <2>5
<1> QED  BY <1>8, <1>9

\* Three stages, and four, in a row.
LEMMA TellsThree ==
    ASSUME NEW x, NEW y, NEW z, Told(x), Told(y), Told(z)
    PROVE  /\ Tells((<<x>> \o <<y>>) \o <<z>>)
           /\ Tale((<<x>> \o <<y>>) \o <<z>>) = (x.word \o y.word) \o z.word
           /\ Tells(<<x>> \o <<y>>) /\ Tale(<<x>> \o <<y>>) = x.word \o y.word
<1> DEFINE s == <<x>>
           t == s \o <<y>>
<1>1. Tells(s) /\ Tale(s) = x.word
  BY TellsOne
<1> HIDE DEF s
<1>2. Tells(t) /\ Tale(t) = Tale(s) \o y.word
  BY <1>1, TellsMore
<1>5. t = s \o <<y>>
  OBVIOUS
<1> HIDE DEF t
<1>3. Tells(t \o <<z>>) /\ Tale(t \o <<z>>) = Tale(t) \o z.word
  BY <1>2, TellsMore
<1>4. Tale(t \o <<z>>) = (x.word \o y.word) \o z.word
  BY <1>1, <1>2, <1>3
<1> QED  BY <1>1, <1>2, <1>3, <1>4, <1>5 DEF s

LEMMA ThreeInARow ==
    ASSUME NEW s, IsSeq(s), Len(s) = 3
    PROVE  s = (<<s[1]>> \o <<s[2]>>) \o <<s[3]>>
<1>1. s \in Seq(ToSet(s))
  BY DEF IsSeq
<1> QED  BY <1>1

LEMMA FourInARow ==
    ASSUME NEW s, IsSeq(s), Len(s) = 4
    PROVE  s = ((<<s[1]>> \o <<s[2]>>) \o <<s[3]>>) \o <<s[4]>>
<1>1. s \in Seq(ToSet(s))
  BY DEF IsSeq
<1> QED  BY <1>1

\* What lies between the curves is said by the one matrix that is made of it.
LEMMA ShaperWords ==
    ASSUME NEW s, Tells(s), NEW four \in BOOLEAN, Len(s) = IF four THEN 4 ELSE 3,
           NEW res, Told(res),
           Same(res.word, IF four THEN s[2].word \o s[3].word ELSE s[2].word)
    PROVE  /\ Told(s[1]) /\ Told(s[Len(s)])
           /\ Same((s[1].word \o res.word) \o s[Len(s)].word, Tale(s))
<1>1. IsSeq(s) /\ DOMAIN s = 1..Len(s) /\ \A k \in DOMAIN s : Told(s[k])
  BY Sequence DEF Tells
<1>2. CASE four
  <2> DEFINE a == s[1]
             b == s[2]
             c == s[3]
             d == s[4]
             w == b.word \o c.word
             h == (<<a>> \o <<b>>) \o <<c>>
  <2>1. s = h \o <<d>> /\ Len(s) = 4
    BY <1>1, <1>2, FourInARow
  <2>2. Told(a) /\ Told(b) /\ Told(c) /\ Told(d)
    BY <1>1, <1>2
  <2>3. Same(res.word, w)
    BY <1>2
  <2> HIDE DEF a, b, c, d
  <2>4. Tells(h) /\ Tale(h) = (a.word \o b.word) \o c.word
    BY <2>2, TellsThree
  <2> HIDE DEF h
  <2>5. Tale(h \o <<d>>) = Tale(h) \o d.word
    BY <2>2, <2>4, TellsMore
  <2>6. IsWord(a.word) /\ IsWord(b.word) /\ IsWord(c.word) /\ IsWord(d.word) /\ IsWord(res.word)
    BY <2>2 DEF Told
  <2>7. (a.word \o b.word) \o c.word = a.word \o w
    <3> DEFINE wa == a.word
               wb == b.word
               wc == c.word
    <3>1. IsSeq(wa) /\ IsSeq(wb) /\ IsSeq(wc)
      BY <2>6 DEF IsWord
    <3> HIDE DEF wa, wb, wc
    <3>2. (wa \o wb) \o wc = wa \o (wb \o wc)
      BY <3>1, Associates
    <3> QED  BY <3>2 DEF wa, wb, wc
  <2>8. IsWord(w)
    BY <2>6, WordsJoin
  <2> HIDE DEF w
  <2> DEFINE f == a.word \o res.word
             g == a.word \o w
  <2>9. Same(f, g) /\ IsWord(f) /\ IsWord(g)
    BY <2>3, <2>6, <2>8, SameBeside
  <2>11. Tale(s) = g \o d.word
    BY <2>1, <2>4, <2>5, <2>7
  <2> HIDE DEF f, g
  <2>10. Same(f \o d.word, g \o d.word)
    BY <2>6, <2>9, SameBeside
  <2> QED  BY <2>1, <2>2, <2>10, <2>11 DEF a, d, f
<1>3. CASE ~four
  <2> DEFINE a == s[1]
             b == s[2]
             d == s[3]
  <2>1. s = (<<a>> \o <<b>>) \o <<d>> /\ Len(s) = 3
    BY <1>1, <1>3, ThreeInARow
  <2>2. Told(a) /\ Told(b) /\ Told(d)
    BY <1>1, <1>3
  <2>3. Same(res.word, b.word)
    BY <1>3
  <2> HIDE DEF a, b, d
  <2>4. Tale(s) = (a.word \o b.word) \o d.word
    BY <2>1, <2>2, TellsThree
  <2>6. IsWord(a.word) /\ IsWord(b.word) /\ IsWord(d.word) /\ IsWord(res.word)
    BY <2>2 DEF Told
  <2> DEFINE f == a.word \o res.word
             g == a.word \o b.word
  <2>9. Same(f, g) /\ IsWord(f) /\ IsWord(g)
    BY <2>3, <2>6, SameBeside
  <2>11. Tale(s) = g \o d.word
    BY <2>4
  <2> HIDE DEF f, g
  <2>10. Same(f \o d.word, g \o d.word)
    BY <2>6, <2>9, SameBeside
  <2> QED  BY <2>1, <2>2, <2>10, <2>11 DEF a, d, f
<1> QED  BY <1>2, <1>3

LEMMA ShaperMeans ==
    ASSUME NEW l, Spoken(l), NEW in, NEW out,
           OptimizeMatrixShaper(l, in, out).ok
    PROVE  Meant(OptimizeMatrixShaper(l, in, out).lut, Tale(l.Elements))
<1> DEFINE s == l.Elements
           m == Len(s)
           u == Tale(s)
           four == cmsPipelineCheckAndRetreiveStages(l, <<"Curves", "Matrix", "Matrix", "Curves">>)
           three == cmsPipelineCheckAndRetreiveStages(l, <<"Curves", "Matrix", "Curves">>)
           curve1 == s[1]
           first == s[2]
           last == s[m - 1]
           curve2 == s[m]
           res == [Product(first, last) EXCEPT !.Offset = last.Offset,
                       !.word = IF four THEN @ ELSE first.word]
           begun == cmsPipelineInsertStage(cmsPipelineAlloc(3, 3), AT_BEGIN, curve1)
           whole == cmsPipelineInsertStage(cmsPipelineInsertStage(begun, AT_END, res), AT_END, curve2)
           joined == cmsPipelineInsertStage(begun, AT_END, curve2)
           all == OptimizeMatrixShaper(l, in, out)
           lut == all.lut
           some == cmsChannelsOfColorSpace[in.space] = 3 /\ cmsChannelsOfColorSpace[out.space] = 3
                   /\ _cmsFormatterIs8bit(in) /\ (four \/ three)
           odd == {first.InputChannels, first.OutputChannels, last.InputChannels, last.OutputChannels} # {3}
                  \/ (four /\ first.Offset)
           w == curve1.word \o res.word \o curve2.word
           set == _cmsPipelineSetOptimizationParameters(whole, "MatShaperEval16", w, "duplicated")
           again == OptimizeByJoiningCurves(joined, in, out)
<1>0. all = IF ~some THEN Refused ELSE IF odd THEN Refused
            ELSE IF IsIdentity(res) THEN IF again.ok THEN again ELSE Optimised(joined, {})
            ELSE Optimised(set, {"NOCACHE"})
  BY DEF OptimizeMatrixShaper
<1>1. /\ four \/ three
      /\ lut = IF IsIdentity(res) THEN IF again.ok THEN again.lut ELSE joined ELSE set
  <2>1. some => four \/ three
    OBVIOUS
  <2>3. all.ok /\ lut = all.lut
    OBVIOUS
  <2> HIDE DEF all, some, odd, set, again, joined, res, lut
  <2>4. some /\ ~odd
    BY <1>0, <2>3 DEF Refused
  <2>5. lut = IF IsIdentity(res) THEN IF again.ok THEN again.lut ELSE joined ELSE set
    BY <1>0, <2>3, <2>4 DEF Optimised
  <2> QED  BY <2>1, <2>4, <2>5
<1>2. four \in BOOLEAN /\ m = IF four THEN 4 ELSE 3
  BY <1>1 DEF cmsPipelineCheckAndRetreiveStages
<1>3. Tells(s) /\ DOMAIN s = 1..m /\ IsWord(u)
  BY Sequence, TellsIs DEF Spoken, Tells
<1>4. last = IF four THEN s[3] ELSE s[2]
  BY <1>2
<1> SUFFICES Meant(lut, u)
  OBVIOUS
<1> HIDE DEF s, m, four, three, all, some, odd, lut, u
<1>5. Told(first) /\ Told(last)
  BY <1>2, <1>3, <1>4 DEF Tells
<1>6. /\ Told(res)
      /\ Same(res.word, IF four THEN first.word \o last.word ELSE first.word)
  <2> DEFINE q == Product(first, last)
  <2>1. Told(q) /\ Same(q.word, first.word \o last.word)
    BY <1>5, ProductTells
  <2>2. q.Implements = "Matrix"
    BY DEF Product, cmsStageAllocMatrix, _cmsStageAllocPlaceholder
  <2>3. res = [q EXCEPT !.Offset = last.Offset, !.word = IF four THEN @ ELSE first.word]
    OBVIOUS
  <2> HIDE DEF q, res
  <2>4. DOMAIN q = StageFields
    BY <2>1 DEF Told
  <2>5. DOMAIN res = StageFields /\ res.Implements = "Matrix" /\ res.word = IF four THEN q.word ELSE first.word
    BY <2>2, <2>3, <2>4 DEF StageFields
  <2>6. "Matrix" \notin DOMAIN Between /\ "Matrix" # "Identity"
    BY BetweenIs
  <2>7. IsWord(res.word)
    BY <1>5, <2>1, <2>5 DEF Told
  <2>8. Told(res)
    BY <2>5, <2>6, <2>7 DEF Told
  <2> QED  BY <2>1, <2>5, <2>8, SameItself
<1> HIDE DEF res
<1>7. Same(res.word, IF four THEN s[2].word \o s[3].word ELSE s[2].word)
  BY <1>4, <1>6
<1>8. Told(curve1) /\ Told(curve2) /\ Same((curve1.word \o res.word) \o curve2.word, u)
  BY <1>2, <1>3, <1>6, <1>7, ShaperWords DEF m, u
<1> HIDE DEF first, last, curve1, curve2
<1>9. Spoken(begun) /\ begun.Elements = <<curve1>>
  <2> DEFINE none == cmsPipelineAlloc(3, 3)
  <2>1. Spoken(none) /\ none.Elements = <<>>
    BY AllocSpeaks
  <2> HIDE DEF none
  <2>2. /\ Spoken(cmsPipelineInsertStage(none, AT_BEGIN, curve1))
        /\ cmsPipelineInsertStage(none, AT_BEGIN, curve1).Elements = <<curve1>> \o none.Elements
    BY <1>8, <2>1, InsertSpeaks
  <2>3. <<curve1>> \o <<>> = <<curve1>>
    BY OneStage, NothingAdded
  <2> QED  BY <2>1, <2>2, <2>3 DEF none
<1> HIDE DEF begun
<1>10. Spoken(whole) /\ Tale(whole.Elements) = (curve1.word \o res.word) \o curve2.word
  <2> DEFINE half == cmsPipelineInsertStage(begun, AT_END, res)
  <2>1. Spoken(half) /\ half.Elements = <<curve1>> \o <<res>>
    BY <1>6, <1>9, InsertSpeaks
  <2> HIDE DEF half
  <2>2. Spoken(cmsPipelineInsertStage(half, AT_END, curve2))
        /\ cmsPipelineInsertStage(half, AT_END, curve2).Elements = half.Elements \o <<curve2>>
    BY <1>8, <2>1, InsertSpeaks
  <2>3. Tale((<<curve1>> \o <<res>>) \o <<curve2>>) = (curve1.word \o res.word) \o curve2.word
    BY <1>6, <1>8, TellsThree
  <2> QED  BY <2>1, <2>2, <2>3 DEF half
<1>11. Spoken(joined) /\ Tale(joined.Elements) = curve1.word \o curve2.word
  <2>1. Spoken(joined) /\ joined.Elements = <<curve1>> \o <<curve2>>
    BY <1>8, <1>9, InsertSpeaks
  <2>2. Tale(<<curve1>> \o <<curve2>>) = curve1.word \o curve2.word
    BY <1>8, TellsThree
  <2> QED  BY <2>1, <2>2
<1> HIDE DEF whole, joined
<1>12. CASE IsIdentity(res)
  <2>1. IsWord(res.word) /\ IsWord(curve1.word) /\ IsWord(curve2.word)
    BY <1>6, <1>8 DEF Told
  <2>2. Reduced(res.word) = <<>>
    BY <1>12 DEF IsIdentity
  <2>3. Same(res.word, <<>>)
    BY <2>1, <2>2, ReducedSame, SameTurned
  <2> DEFINE f == curve1.word \o res.word
             g == curve1.word \o <<>>
  <2>4. Same(f, g) /\ IsWord(f) /\ IsWord(g)
    BY <2>1, <2>3, NoWord, SameBeside
  <2>5. g = curve1.word
    BY <2>1, NothingAdded DEF IsWord
  <2>9. f = curve1.word \o res.word
    OBVIOUS
  <2> HIDE DEF f, g
  <2>6. Same(f \o curve2.word, g \o curve2.word)
    BY <2>1, <2>4, SameBeside
  <2>7. Same(Tale(joined.Elements), u)
    BY <1>8, <1>11, <2>5, <2>6, <2>9, SameTurned, SameThrough
  <2>8. Meant(joined, u) /\ Says(joined, u)
    BY <1>11, <2>7, SpokenThrough
  <2>10. again.ok => Meant(again.lut, u)
    BY <1>3, <2>8, JoiningMeans
  <2> HIDE DEF again
  <2> QED  BY <1>1, <1>12, <2>8, <2>10
<1>13. CASE ~IsIdentity(res)
  <2>1. Says(whole, u)
    BY <1>8, <1>10, SpokenThrough
  <2>2. Same(w, u)
    BY <1>8
  <2> DEFINE kind == "duplicated"
             fn == "MatShaperEval16"
  <2>3. kind # "itself" /\ set = _cmsPipelineSetOptimizationParameters(whole, fn, w, kind)
    OBVIOUS
  <2> HIDE DEF w, kind, fn, set
  <2>4. Meant(_cmsPipelineSetOptimizationParameters(whole, fn, w, kind), u)
    BY <2>1, <2>2, <2>3, SetMeans
  <2> QED  BY <1>1, <1>13, <2>3, <2>4
<1> QED  BY <1>12, <1>13

LEMMA Straightened ==
    /\ IsWord(Forth("any", "straightening")) /\ IsWord(Back("any", "straightening"))
    /\ Same(Forth("any", "straightening") \o Back("any", "straightening"), <<>>)
<1> DEFINE a == <<"any", "straightening", 0, "forth">>
           b == <<"any", "straightening", 0, "back">>
<1>1. IsLetter(a) /\ IsLetter(b)
  BY LetterIs
<1>2. a[1] = b[1] /\ a[2] = b[2] /\ a[3] = b[3] /\ a[4] = "forth" /\ b[4] = "back"
  OBVIOUS
<1>3. Forth("any", "straightening") = <<a>> /\ Back("any", "straightening") = <<b>>
  BY DEF Forth, Back
<1> HIDE DEF a, b
<1>4. Undoes(a, b)
  BY <1>1, <1>2, UndoIs
<1> QED  BY <1>1, <1>3, <1>4, SameUndone, OneLetter

LEMMA LinearizationMeans ==
    ASSUME NEW l, Spoken(l), NEW in, NEW out, NEW flags, NEW absol, NEW suitable,
           OptimizeByComputingLinearization(l, in, out, flags, absol, suitable).ok
    PROVE  Meant(OptimizeByComputingLinearization(l, in, out, flags, absol, suitable).lut, Tale(l.Elements))
<1> DEFINE straight == Forth("any", "straightening")
           bent == Back("any", "straightening")
           x == Ends(l).from
           y == Ends(l).to
           o == l.OutputChannels
           u == Tale(l.Elements)
           plain == cmsStageAllocToneCurves(3, x, <<"straight">>, straight)
           undo == cmsStageAllocToneCurves(3, <<"straight">>, x, bent)
           dup == cmsPipelineDup(l)
           LutPlusCurves == cmsPipelineInsertStage(dup, AT_BEGIN, undo)
           word == Word(LutPlusCurves)
           clut == cmsStageAllocCLut16bit(3, o, <<"straight">>, y, word)
           none == cmsPipelineAlloc(3, o)
           begun == cmsPipelineInsertStage(none, AT_BEGIN, plain)
           both == cmsPipelineInsertStage(begun, AT_END, clut)
           fn == IF _cmsFormatterIs8bit(in) THEN "PrelinEval8" ELSE "PrelinEval16"
           dest == Prelin(both, fn)
           no == \/ in.float \/ out.float \/ in.space # "RGB" \/ out.space # "RGB" \/ in.planar \/ out.planar
                 \/ (~_cmsFormatterIs8bit(in) /\ "CLUT_PRE_LINEARIZATION" \notin flags)
                 \/ l.Elements = <<>> \/ ~suitable
           white == FixWhiteMisalignment(dest)
           all == OptimizeByComputingLinearization(l, in, out, flags, absol, suitable)
<1>1. all = IF no THEN Refused
            ELSE IF absol THEN Optimised(dest, {"NOWHITEONWHITEFIXUP"})
            ELSE IF "NOWHITEONWHITEFIXUP" \in flags THEN Optimised(dest, {})
            ELSE IF white.ok THEN Optimised(white.lut, {}) ELSE Refused
  BY DEF OptimizeByComputingLinearization
<1> SUFFICES Meant(all.lut, u)
  OBVIOUS
<1>2. IsWord(u) /\ Spoken(dup) /\ dup.Elements = l.Elements
  BY DupSaid, TellsIs DEF Spoken
<1>3. IsWord(straight) /\ IsWord(bent) /\ Same(straight \o bent, <<>>)
  BY Straightened
<1> HIDE DEF straight, bent, x, y, o, dup
<1>4. Told(undo) /\ undo.word = bent /\ Told(plain) /\ plain.word = straight
  <2>1. \A i, fr, to, w : IsWord(w) => /\ Told(cmsStageAllocToneCurves(i, fr, to, w))
                                      /\ cmsStageAllocToneCurves(i, fr, to, w).word = w
    BY AllocatedTold
  <2> QED  BY <1>3, <2>1
<1> HIDE DEF undo, plain
<1>5. IsWord(word) /\ Same(word, bent \o u)
  <2>1. LutPlusCurves.Elements = <<undo>> \o dup.Elements
    BY <1>2, <1>4, InsertSpeaks
  <2> DEFINE e == dup.Elements
  <2>2. Tells(e) /\ Tale(e) = u
    BY <1>2 DEF Spoken
  <2> HIDE DEF e
  <2>3. Tale(<<undo>> \o e) = undo.word \o Tale(e)
    BY <1>4, <2>2, TellsMore
  <2>4. word = Reduced(bent \o u)
    BY <1>4, <2>1, <2>2, <2>3, WordIs DEF e
  <2>5. IsWord(bent \o u)
    BY <1>2, <1>3, WordsJoin
  <2> QED  BY <2>4, <2>5, ReducedSame
<1> HIDE DEF LutPlusCurves, word
<1>6. Told(clut) /\ clut.word = word
  BY <1>5, AllocatedTold
<1> HIDE DEF clut
<1>7. Spoken(none) /\ none.Elements = <<>>
  BY AllocSpeaks
<1> HIDE DEF none
<1>8. Spoken(begun) /\ begun.Elements = <<plain>>
  <2>1. Spoken(begun) /\ begun.Elements = <<plain>> \o none.Elements
    BY <1>4, <1>7, InsertSpeaks
  <2>2. <<plain>> \o <<>> = <<plain>>
    BY OneStage, NothingAdded
  <2> QED  BY <1>7, <2>1, <2>2
<1> HIDE DEF begun
<1>9. Spoken(both) /\ Tale(both.Elements) = straight \o word
  <2>1. Spoken(both) /\ both.Elements = <<plain>> \o <<clut>>
    BY <1>6, <1>8, InsertSpeaks
  <2>2. Tale(<<plain>> \o <<clut>>) = plain.word \o clut.word
    BY <1>4, <1>6, TellsThree
  <2> QED  BY <1>4, <1>6, <2>1, <2>2
<1>10. dest = _cmsPipelineSetOptimizationParameters(both, fn, Word(both), "duplicated")
  BY DEF Prelin
<1> HIDE DEF both, dest, fn
<1>11. Same(straight \o word, u)
  <2> DEFINE f == bent \o u
             g == straight \o bent
  <2>1. IsWord(f) /\ IsWord(g)
    BY <1>2, <1>3, WordsJoin
  <2>2. g \o u = straight \o f
    BY <1>2, <1>3, Associates DEF IsWord
  <2>3. Same(word, f) /\ Same(g, <<>>)
    BY <1>3, <1>5
  <2> HIDE DEF f, g
  <2>4. Same(straight \o word, straight \o f)
    BY <1>3, <1>5, <2>1, <2>3, SameBeside
  <2>5. Same(g \o u, <<>> \o u)
    BY <1>2, <2>1, <2>3, NoWord, SameBeside
  <2>6. <<>> \o u = u
    BY <1>2, NothingAdded DEF IsWord
  <2> QED  BY <2>2, <2>4, <2>5, <2>6, SameThrough
<1>12. Says(both, u)
  BY <1>9, <1>11, SpokenThrough
<1>13. Meant(dest, u)
  <2> DEFINE w == Word(both)
             kind == "duplicated"
  <2>1. w = Reduced(u)
    BY <1>12, SaysWord
  <2>2. Same(w, u)
    BY <1>2, <2>1, ReducedSame
  <2>3. kind # "itself" /\ dest = _cmsPipelineSetOptimizationParameters(both, fn, w, kind)
    BY <1>10
  <2> HIDE DEF w, kind
  <2> QED  BY <1>12, <2>2, <2>3, SetMeans
<1>14. Meant(white.lut, u)
  BY <1>13, WhiteMeans
<1> HIDE DEF no, white, all
<1>15. all.lut \in {dest, white.lut}
  <2>1. all.ok
    BY DEF all
  <2> QED  BY <1>1, <2>1 DEF Refused, Optimised
<1> QED  BY <1>13, <1>14, <1>15

\* A stage is unlinked.
LEMMA TellsParts ==
    ASSUME NEW s, NEW t, IsSeq(s), IsSeq(t), Tells(s \o t)
    PROVE  Tells(s) /\ Tells(t) /\ Tale(s \o t) = Tale(s) \o Tale(t)
<1> DEFINE u == s \o t
<1>1. Chained(u, s, t) /\ Tells(u)
  BY Chains2
<1> HIDE DEF u
<1>2. /\ DOMAIN u = 1..Len(u) /\ Len(u) = Len(s) + Len(t)
      /\ Len(s) \in Nat /\ Len(t) \in Nat /\ DOMAIN s = 1..Len(s) /\ DOMAIN t = 1..Len(t)
      /\ \A k \in 1..Len(s) : u[k] = s[k]
      /\ \A k \in 1..Len(t), j \in Nat : j = Len(s) + k => u[j] = t[k]
      /\ \A k \in DOMAIN u : Told(u[k])
  BY <1>1 DEF Chained, Tells
<1>3. ASSUME NEW k \in 1..Len(s) PROVE Told(s[k])
  <2>1. k \in 1..Len(u)
    BY <1>2
  <2> QED  BY <1>2, <2>1
<1>4. ASSUME NEW k \in 1..Len(t) PROVE Told(t[k])
  <2> DEFINE j == Len(s) + k
  <2>1. j \in Nat /\ j \in 1..Len(u) /\ j = Len(s) + k
    BY <1>2
  <2> HIDE DEF j
  <2>2. u[j] = t[k] /\ Told(u[j])
    BY <1>2, <2>1
  <2> QED  BY <2>2
<1>5. Tells(s) /\ Tells(t)
  BY <1>2, <1>3, <1>4 DEF Tells
<1> QED  BY <1>5, TellsJoin

LEMMA UnlinkSpeaks ==
    ASSUME NEW l, Spoken(l), l.Elements # <<>>
    PROVE  /\ Spoken(cmsPipelineUnlinkStage(l, AT_BEGIN)) /\ Spoken(cmsPipelineUnlinkStage(l, AT_END))
           /\ Told(l.Elements[1]) /\ Told(Last(l.Elements))
           /\ Tale(l.Elements) = l.Elements[1].word \o Tale(cmsPipelineUnlinkStage(l, AT_BEGIN).Elements)
           /\ Tale(l.Elements) = Tale(cmsPipelineUnlinkStage(l, AT_END).Elements) \o Last(l.Elements).word
           /\ cmsPipelineUnlinkStage(l, AT_BEGIN).Elements # <<>> =>
                    Last(cmsPipelineUnlinkStage(l, AT_BEGIN).Elements) = Last(l.Elements)
<1> DEFINE s == l.Elements
           a == s[1]
           z == Last(s)
           t == Tail(s)
           f == Front(s)
<1>1. AT_END # AT_BEGIN
  BY DEF AT_END, AT_BEGIN
<1>2. /\ cmsPipelineUnlinkStage(l, AT_BEGIN) = Blessed([l EXCEPT !.Elements = t])
      /\ cmsPipelineUnlinkStage(l, AT_END) = Blessed([l EXCEPT !.Elements = f])
  BY <1>1 DEF cmsPipelineUnlinkStage
<1>3. Tells(s) /\ IsSeq(s) /\ s # <<>>
  BY DEF Spoken, Tells
<1> HIDE DEF s
<1>4. IsSeq(t) /\ s = <<a>> \o t /\ (t # <<>> => Last(t) = z) /\ IsSeq(f) /\ s = f \o <<z>>
  BY <1>3, HeadOf, LastOf
<1> HIDE DEF a, z, t, f
<1>5. IsSeq(<<a>>) /\ DOMAIN <<a>> = {1} /\ <<a>>[1] = a /\ IsSeq(<<z>>) /\ DOMAIN <<z>> = {1} /\ <<z>>[1] = z
  BY OneStage
<1>6. Tells(<<a>>) /\ Tells(t) /\ Tale(<<a>> \o t) = Tale(<<a>>) \o Tale(t)
  BY <1>3, <1>4, <1>5, TellsParts
<1>7. Tells(<<z>>) /\ Tells(f) /\ Tale(f \o <<z>>) = Tale(f) \o Tale(<<z>>)
  BY <1>3, <1>4, <1>5, TellsParts
<1>8. Told(a) /\ Told(z)
  <2> DEFINE sa == <<a>>
             sz == <<z>>
  <2>1. Tells(sa) /\ DOMAIN sa = {1} /\ sa[1] = a /\ Tells(sz) /\ DOMAIN sz = {1} /\ sz[1] = z
    BY <1>5, <1>6, <1>7
  <2> HIDE DEF sa, sz
  <2> QED  BY <2>1 DEF Tells
<1>9. Tale(s) = a.word \o Tale(t) /\ Tale(s) = Tale(f) \o z.word
  BY <1>4, <1>6, <1>7, <1>8, TellsOne
<1>10. /\ Spoken(Blessed([l EXCEPT !.Elements = t])) /\ Blessed([l EXCEPT !.Elements = t]).Elements = t
       /\ Spoken(Blessed([l EXCEPT !.Elements = f])) /\ Blessed([l EXCEPT !.Elements = f]).Elements = f
  BY <1>6, <1>7, SpeaksOf
<1> QED  BY <1>2, <1>4, <1>8, <1>9, <1>10 DEF a, z, s

LEMMA ResamplingMeans ==
    ASSUME NEW l, Spoken(l), NEW in, NEW out, NEW flags, NEW absol,
           OptimizeByResampling(l, in, out, flags, absol).ok
    PROVE  Meant(OptimizeByResampling(l, in, out, flags, absol).lut, Tale(l.Elements))
<1> DEFINE pre == KeepPreLin(l, flags)
           post == KeepPostLin(l, flags)
           within == UnlinkedPreLin(l, flags)
           src == IF post THEN cmsPipelineUnlinkStage(within, AT_END) ELSE within
           s == l.Elements
           u == Tale(s)
           from == IF pre THEN l.Elements[1].to ELSE IF l.Elements = <<>> THEN Encoding(in.space, "pixels") ELSE Ends(l).from
           to == IF post THEN Last(l.Elements).from ELSE IF l.Elements = <<>> THEN from ELSE Ends(l).to
           word == Word(src)
           clut == cmsStageAllocCLut16bit(src.InputChannels, src.OutputChannels, from, to, word)
           before == IF pre THEN <<l.Elements[1]>> ELSE <<>>
           after == IF post THEN <<Last(l.Elements)>> ELSE <<>>
           elements == before \o <<clut>> \o after
           none == cmsPipelineAlloc(l.InputChannels, l.OutputChannels)
           made == With(none, elements)
           dest == IF pre \/ post THEN Prelin(made, "PrelinEval16")
                   ELSE _cmsPipelineSetOptimizationParameters(made, "Lerp16", clut.word, "CLUT's")
           white == FixWhiteMisalignment(dest)
           no == in.float \/ out.float \/ in.space = "any" \/ out.space = "any"
           nor == l.Elements # <<>> /\ "FORCE_CLUT" \notin flags /\ in.space = "Lab" /\ in.bytes = 2
           all == OptimizeByResampling(l, in, out, flags, absol)
<1>1. all = IF no THEN Refused ELSE IF nor THEN Refused
            ELSE IF absol THEN Optimised(dest, {"NOWHITEONWHITEFIXUP"})
            ELSE IF "NOWHITEONWHITEFIXUP" \in flags THEN Optimised(dest, {})
            ELSE Optimised(IF white.ok THEN white.lut ELSE dest, {})
  BY DEF OptimizeByResampling
<1> SUFFICES Meant(all.lut, u)
  OBVIOUS
<1>2. Tells(s) /\ IsWord(u)
  BY TellsIs DEF Spoken
<1>3. pre => s # <<>> /\ within = cmsPipelineUnlinkStage(l, AT_BEGIN)
  BY DEF KeepPreLin, UnlinkedPreLin
<1>4. ~pre => within = l
  BY DEF UnlinkedPreLin
<1>5. post => within.Elements # <<>>
  BY DEF KeepPostLin
<1> HIDE DEF pre, post, within, from, to, no, nor
<1>6. PICK x : /\ Tells(before) /\ Tale(before) = x /\ IsWord(x) /\ Spoken(within)
               /\ Tale(s) = x \o Tale(within.Elements)
               /\ within.Elements # <<>> => Last(within.Elements) = Last(s)
  <2>1. CASE pre
    <3>1. /\ Spoken(within) /\ Told(s[1]) /\ Tale(s) = s[1].word \o Tale(within.Elements)
          /\ within.Elements # <<>> => Last(within.Elements) = Last(s)
      BY <1>3, <2>1, UnlinkSpeaks
    <3>2. before = <<s[1]>>
      BY <2>1
    <3>3. Tells(<<s[1]>>) /\ Tale(<<s[1]>>) = s[1].word /\ IsWord(s[1].word)
      BY <3>1, TellsOne DEF Told
    <3> QED  BY <3>1, <3>2, <3>3
  <2>2. CASE ~pre
    <3>1. before = <<>> /\ within = l
      BY <1>4, <2>2
    <3>2. Tale(s) = <<>> \o Tale(s)
      BY <1>2, NothingAdded DEF IsWord
    <3> QED  BY <3>1, <3>2, TellsNone, TaleNone, NoWord
  <2> QED  BY <2>1, <2>2
<1>7. PICK z : /\ Tells(after) /\ Tale(after) = z /\ IsWord(z) /\ Spoken(src)
               /\ Tale(within.Elements) = Tale(src.Elements) \o z
  <2>1. CASE post
    <3> DEFINE fin == Last(within.Elements)
    <3>1. /\ Spoken(src) /\ Told(fin) /\ Tale(within.Elements) = Tale(src.Elements) \o fin.word
      BY <1>5, <1>6, <2>1, UnlinkSpeaks
    <3>2. after = <<fin>>
      BY <1>5, <1>6, <2>1
    <3> HIDE DEF fin
    <3>3. Tells(<<fin>>) /\ Tale(<<fin>>) = fin.word /\ IsWord(fin.word)
      BY <3>1, TellsOne DEF Told
    <3> QED  BY <3>1, <3>2, <3>3
  <2>2. CASE ~post
    <3>1. after = <<>> /\ src = within
      BY <2>2
    <3>2. Tells(within.Elements)
      BY <1>6 DEF Spoken
    <3>3. IsWord(Tale(within.Elements))
      BY <3>2, TellsIs
    <3>4. Tale(within.Elements) = Tale(within.Elements) \o <<>>
      BY <3>3, NothingAdded DEF IsWord
    <3> QED  BY <1>6, <3>1, <3>4, TellsNone, TaleNone, NoWord
  <2> QED  BY <2>1, <2>2
<1> DEFINE v == Tale(src.Elements)
<1>8. IsWord(v) /\ u = x \o (v \o z) /\ Same(word, v) /\ IsWord(word)
  <2>1. Tells(src.Elements)
    BY <1>7 DEF Spoken
  <2>2. IsWord(v)
    BY <2>1, TellsIs
  <2>3. word = Reduced(v)
    BY WordIs
  <2> QED  BY <1>6, <1>7, <2>2, <2>3, ReducedSame
<1>9. \A i, o, fr, t, w : IsWord(w) => /\ Told(cmsStageAllocCLut16bit(i, o, fr, t, w))
                                       /\ cmsStageAllocCLut16bit(i, o, fr, t, w).word = w
  BY AllocatedTold
<1>10. Told(clut) /\ clut.word = word
  BY <1>8, <1>9
<1> HIDE DEF clut, before, after, src
<1>11. Tells(elements) /\ Tale(elements) = (x \o word) \o z
  <2> DEFINE h == before \o <<clut>>
  <2>1. Tells(h) /\ Tale(h) = Tale(before) \o clut.word
    BY <1>6, <1>10, TellsMore
  <2>4. elements = h \o after
    OBVIOUS
  <2> HIDE DEF h
  <2>2. Tells(h \o after) /\ Tale(h \o after) = Tale(h) \o Tale(after)
    BY <1>7, <2>1, TellsJoin
  <2> HIDE DEF elements
  <2> QED  BY <1>6, <1>7, <1>10, <2>1, <2>2, <2>4
<1>12. Spoken(none) /\ none.Elements = <<>>
  BY AllocSpeaks
<1> HIDE DEF elements, none, u, v, word
<1>13. Spoken(made) /\ made.Elements = elements
  BY <1>11, <1>12, SpeaksOf DEF With
<1>14. Same((x \o word) \o z, u)
  <2> DEFINE f == x \o word
             g == x \o v
  <2>1. Same(f, g) /\ IsWord(f) /\ IsWord(g)
    BY <1>6, <1>8, SameBeside
  <2>2. g \o z = x \o (v \o z)
    BY <1>6, <1>7, <1>8, Associates DEF IsWord
  <2> HIDE DEF f, g
  <2>3. Same(f \o z, g \o z)
    BY <1>7, <2>1, SameBeside
  <2> QED  BY <1>8, <2>2, <2>3 DEF f
<1>15. Says(made, u)
  BY <1>11, <1>13, <1>14, SpokenThrough
<1> DEFINE w1 == Word(made)
           w2 == clut.word
           k1 == "duplicated"
           k2 == "CLUT's"
<1>16. dest = IF pre \/ post THEN _cmsPipelineSetOptimizationParameters(made, "PrelinEval16", w1, k1)
              ELSE _cmsPipelineSetOptimizationParameters(made, "Lerp16", w2, k2)
  BY DEF Prelin
<1>17. Same(w1, u)
  <2>1. w1 = Reduced(u)
    BY <1>15, SaysWord
  <2> QED  BY <1>2, <2>1, ReducedSame DEF u
<1>18. ~(pre \/ post) => Same(w2, u)
  <2> SUFFICES ASSUME ~pre, ~post PROVE Same(w2, u)
    OBVIOUS
  <2>1. x = <<>> /\ z = <<>>
    BY <1>6, <1>7, TaleNone DEF before, after
  <2>2. u = v
    BY <1>8, <2>1, NothingAdded DEF IsWord
  <2> QED  BY <1>8, <1>10, <2>2
<1>19. k1 # "itself" /\ k2 # "itself"
  OBVIOUS
<1> HIDE DEF made, w1, w2, k1, k2, dest
<1>20. Meant(dest, u)
  <2>1. Meant(_cmsPipelineSetOptimizationParameters(made, "PrelinEval16", w1, k1), u)
    <3> DEFINE fn == "PrelinEval16"
    <3> HIDE DEF fn
    <3>1. Meant(_cmsPipelineSetOptimizationParameters(made, fn, w1, k1), u)
      BY <1>15, <1>17, <1>19, SetMeans
    <3> QED  BY <3>1 DEF fn
  <2>2. ~(pre \/ post) => Meant(_cmsPipelineSetOptimizationParameters(made, "Lerp16", w2, k2), u)
    <3> DEFINE fn == "Lerp16"
    <3> HIDE DEF fn
    <3>1. ~(pre \/ post) => Meant(_cmsPipelineSetOptimizationParameters(made, fn, w2, k2), u)
      BY <1>15, <1>18, <1>19, SetMeans
    <3> QED  BY <3>1 DEF fn
  <2> QED  BY <1>16, <2>1, <2>2
<1>21. Meant(white.lut, u)
  BY <1>20, WhiteMeans
<1> HIDE DEF white, all
<1>22. all.lut \in {dest, white.lut}
  <2>1. all.ok
    BY DEF all
  <2> QED  BY <1>1, <2>1 DEF Refused, Optimised
<1> QED  BY <1>20, <1>21, <1>22

--------------------
\* What linking makes speaks.

LEMMA AddConversionSaid ==
    ASSUME NEW l, Said(l), NEW in, NEW out, NEW m, IsWord(m)
    PROVE  Said(AddConversion(l, in, out, m))
<1> DEFINE layer == cmsStageAllocMatrix(3, 3, "XYZ", "XYZ", Reduced(m), TRUE)
           Layer(x) == IF IsEmptyLayer(m) THEN x ELSE End(x, layer)
           z == AddConversion(l, in, out, m)
<1>1. Told(layer)
  BY ReducedSame, MatrixTold
<1>2. \/ z = Layer(l)
      \/ z = End(Layer(l), _cmsStageAllocXYZ2Lab)
      \/ z = Layer(End(l, _cmsStageAllocLab2XYZ))
      \/ z = l
      \/ z = End(Layer(End(l, _cmsStageAllocLab2XYZ)), _cmsStageAllocXYZ2Lab)
      \/ z = NULL
  <2>1. in \in {"XYZ", "Lab"} \/ in \notin Space
    BY DEF Space
  <2>2. (in \notin Space /\ in = out) \/ ~(in \notin Space /\ in = out)
    OBVIOUS
  <2> HIDE DEF layer
  <2> QED  BY <2>1, <2>2 DEF AddConversion, Space, layer
<1> HIDE DEF layer, z
<1>3. ASSUME NEW x, Said(x) PROVE Said(Layer(x))
  <2>1. Said(End(x, layer))
    BY <1>1, <1>3, EndSaid
  <2> QED  BY <1>3, <2>1
<1> HIDE DEF Layer
<1>4. \A x : Said(x) => Said(End(x, _cmsStageAllocXYZ2Lab)) /\ Said(End(x, _cmsStageAllocLab2XYZ))
  BY ConversionsTold, EndSaid
<1>5. Said(NULL)
  BY DEF Said
<1> QED  BY <1>2, <1>3, <1>4, <1>5 DEF z

LEMMA LayerIsWord == \A before, after, I : IsWord(ComputeConversion(before, after, I))
<1> SUFFICES ASSUME NEW before, NEW after, NEW I PROVE IsWord(ComputeConversion(before, after, I))
  OBVIOUS
<1>1. \A q, r, part : IsWord(Forth(q, part) \o Back(r, part))
  BY WordsAre, WordsJoin
<1> QED  BY <1>1, NoWord DEF ComputeConversion

\* Each optimisation makes a pipeline that says what it did.
LEMMA AttemptMeans ==
    ASSUME Spoken(Lut), NEW k \in 1..4, NEW suitable, Attempt(k, suitable).ok
    PROVE  Means(Attempt(k, suitable).lut, Lut)
<1> DEFINE l == Lut
           u == Tale(l.Elements)
           in == InputFormat
           out == OutputFormat
           it == Attempt(k, suitable)
           r == it.lut
<1>1. Spoken(l) /\ IsWord(u) /\ Says(l, u)
  BY SpokenIs, TellsIs DEF Spoken
<1>2. k = 1 \/ k = 2 \/ k = 3 \/ k = 4
  OBVIOUS
<1>3. /\ k = 1 => it = OptimizeByJoiningCurves(l, in, out)
      /\ k = 2 => it = OptimizeMatrixShaper(l, in, out)
      /\ k = 3 => it = OptimizeByComputingLinearization(l, in, out, dwFlags, absolute, suitable)
      /\ k = 4 => it = OptimizeByResampling(l, in, out, dwFlags, absolute)
  BY DEF Attempt
<1>4. it.ok
  OBVIOUS
<1> SUFFICES Means(r, l)
  OBVIOUS
<1> DEFINE fl == dwFlags
           ab == absolute
<1> HIDE DEF l, in, out, it, fl, ab
<1>5. Meant(r, u)
  <2>1. CASE k = 1
    <3> HIDE DEF u
    <3>1. OptimizeByJoiningCurves(l, in, out).ok
      BY <1>3, <1>4, <2>1
    <3>2. Meant(OptimizeByJoiningCurves(l, in, out).lut, u)
      BY <1>1, <3>1, JoiningMeans
    <3> QED  BY <1>3, <2>1, <3>2
  <2>2. CASE k = 2
    <3>1. OptimizeMatrixShaper(l, in, out).ok
      BY <1>3, <1>4, <2>2
    <3>2. Meant(OptimizeMatrixShaper(l, in, out).lut, u)
      BY <1>1, <3>1, ShaperMeans
    <3> QED  BY <1>3, <2>2, <3>2
  <2>3. CASE k = 3
    <3>1. it = OptimizeByComputingLinearization(l, in, out, fl, ab, suitable)
      BY <1>3, <2>3 DEF fl, ab
    <3>2. OptimizeByComputingLinearization(l, in, out, fl, ab, suitable).ok
      BY <1>4, <3>1
    <3>3. Meant(OptimizeByComputingLinearization(l, in, out, fl, ab, suitable).lut, u)
      BY <1>1, <3>2, LinearizationMeans
    <3> QED  BY <3>1, <3>3
  <2>4. CASE k = 4
    <3>1. it = OptimizeByResampling(l, in, out, fl, ab)
      BY <1>3, <2>4 DEF fl, ab
    <3>2. OptimizeByResampling(l, in, out, fl, ab).ok
      BY <1>4, <3>1
    <3>3. Meant(OptimizeByResampling(l, in, out, fl, ab).lut, u)
      BY <1>1, <3>2, ResamplingMeans
    <3> QED  BY <3>1, <3>3
  <2> QED  BY <1>2, <2>1, <2>2, <2>3, <2>4
<1> QED  BY <1>1, <1>5, MeantMeans

LEMMA FastMeans ==
    ASSUME NEW l, Spoken(l), l.Elements = <<>>
    PROVE  Means(FastIdentity(l), l)
<1> DEFINE u == <<>>
<1>1. Tale(l.Elements) = u
  BY TaleNone
<1>2. Says(l, u)
  BY <1>1, SpokenIs
<1>3. Reduced(u) = <<>>
  BY PushedNone, ReducedIs
<1> HIDE DEF u
<1>4. Meant(FastIdentity(l), u)
  BY <1>2, <1>3, IdentityMeans
<1> QED  BY <1>2, <1>4, MeantMeans

--------------------
\* Until the transform is optimised, every pipeline in memory speaks.

LEMMA AddsSpeaking ==
    ASSUME AllSpeak, NEW id, NEW l, Spoken(l), heap' = Adding(heap, id, l)
    PROVE  AllSpeak'
<1>1. \A x \in DOMAIN heap' : Spoken(heap'[x])
  BY DEF Adding, AllSpeak
<1> QED  BY <1>1 DEF AllSpeak

LEMMA FreesSpeaking ==
    ASSUME AllSpeak, NEW ids, heap' = Without(ids)
    PROVE  AllSpeak'
  BY DEF AllSpeak, Without, Restrict

LEMMA SetsSpeaking ==
    ASSUME AllSpeak, NEW id, NEW l, Spoken(l), heap' = [heap EXCEPT ![id] = l]
    PROVE  AllSpeak'
<1>1. \A x \in DOMAIN heap' : Spoken(heap'[x])
  BY DEF AllSpeak
<1> QED  BY <1>1 DEF AllSpeak

LEMMA SameSpeaking ==
    ASSUME AllSpeak, UNCHANGED heap
    PROVE  AllSpeak'
  BY DEF AllSpeak

\* Linking a profile.
LEMMA ReadSpeaks ==
    ASSUME AllRegular, IInv, CInv, at \in {"profile", "connect"}, link.i <= link.count
    PROVE  Said(ReadLUT)
<1>1. /\ call.profiles \in Chains /\ Counting /\ link.i \in 1..link.count /\ Intent \in Nat
  <2>1. /\ call.profiles \in Chains /\ Counting /\ link.count \in Nat /\ link.i \in 1..link.count + 1 /\ Intent \in 0..3
    BY WhileLinking
  <2>2. link.i \in 1..link.count
    BY <2>1
  <2> QED  BY <2>1, <2>2
<1>2. Regular(p)
  BY <1>1, ProfileIs
<1> DEFINE J == Intent
<1>3. J \in Nat
  BY <1>1
<1> HIDE DEF J
<1>4. Said(_cmsReadDevicelinkLUT(p, J)) /\ Said(_cmsReadInputLUT(p, J)) /\ Said(_cmsReadOutputLUT(p, J))
  BY <1>2, <1>3, DevlinkSaid, InputSaid, OutputSaid
<1> QED  BY <1>4 DEF ReadLUT, J

LEMMA ConnectedSaid ==
    ASSUME Spoken(heap[link.Result])
    PROVE  Said(Connected)
<1> DEFINE R == heap[link.Result]
           layer == IF (p.DeviceClass = "Abstract" /\ link.i > 1) \/ ~(lIsDeviceLink \/ Alone)
                    THEN ComputeConversion(call.profiles[link.i - 1], p, Intent) ELSE <<>>
           x == link.Current
           y == ColorSpaceIn
<1>1. Connected = IF lIsDeviceLink \/ Alone \/ ~lIsInput THEN AddConversion(R, x, y, layer) ELSE R
  BY DEF Connected
<1>2. IsWord(layer)
  BY LayerIsWord, NoWord
<1>3. Said(R)
  BY DEF Said
<1> HIDE DEF R, layer, x, y
<1>4. Said(AddConversion(R, x, y, layer))
  BY <1>2, <1>3, AddConversionSaid
<1> QED  BY <1>1, <1>3, <1>4

LEMMA ClippedSaid ==
    ASSUME Spoken(heap[link.Result])
    PROVE  Said(Clipped)
<1> DEFINE R == heap[link.Result]
           i == cmsChannelsOfColorSpace[link.Current]
           x == Encoding(link.Current, "pixels")
<1>1. Clipped = IF Clips THEN End(R, _cmsStageClipNegatives(i, x)) ELSE R
  BY DEF Clipped
<1>2. Said(R)
  BY DEF Said
<1> HIDE DEF R, i, x
<1>3. Told(_cmsStageClipNegatives(i, x))
  BY NoWord, AllocatedTold
<1>4. Said(End(R, _cmsStageClipNegatives(i, x)))
  BY <1>2, <1>3, EndSaid
<1> QED  BY <1>1, <1>2, <1>4

\* The steps of linking.
LEMMA BeginningSpeaks ==
    ASSUME AllRegular, IInv, CInv, AllSpeak,
           BlackPreservingKOnlyIntents \/ BlackPreservingKPlaneIntents \/ Default \/ DefaultICCintents
    PROVE  AllSpeak'
<1>1. Spoken(cmsPipelineAlloc(4, 4)) /\ Spoken(cmsPipelineAlloc(0, 0))
  BY AllocSpeaks
<1>2. CASE BlackPreservingKOnlyIntents
  BY <1>1, <1>2, AddsSpeaking DEF BlackPreservingKOnlyIntents
<1>3. CASE BlackPreservingKPlaneIntents
  <2> DEFINE lut == _cmsReadInputLUT(call.profiles[lastProfilePos], INTENT_RELATIVE_COLORIMETRIC)
  <2>1. UNCHANGED heap \/ (lut # NULL /\ heap' = Adding(heap, Fresh, lut))
    BY <1>3 DEF BlackPreservingKPlaneIntents
  <2>2. Said(lut)
    <3>1. at # "idle"
      BY <1>3 DEF BlackPreservingKPlaneIntents
    <3>2. Regular(call.profiles[lastProfilePos])
      BY <3>1, CallIs, LastProfile
    <3> DEFINE J == INTENT_RELATIVE_COLORIMETRIC
    <3>3. J \in Nat
      BY DEF INTENT_RELATIVE_COLORIMETRIC
    <3> HIDE DEF J
    <3>4. Said(_cmsReadInputLUT(call.profiles[lastProfilePos], J))
      BY <3>2, <3>3, InputSaid
    <3> QED  BY <3>4 DEF J
  <2> HIDE DEF lut
  <2> QED  BY <2>1, <2>2, AddsSpeaking, SameSpeaking DEF Said
<1>4. CASE Default
  BY <1>4, SameSpeaking DEF Default
<1>5. CASE DefaultICCintents
  BY <1>1, <1>5, AddsSpeaking DEF DefaultICCintents
<1> QED  BY <1>2, <1>3, <1>4, <1>5

LEMMA ReadingSpeaks ==
    ASSUME AllRegular, IInv, CInv, AllSpeak, Read
    PROVE  AllSpeak'
<1> DEFINE lut == IF ColorSpaceIsCompatible(ColorSpaceIn, link.Current) THEN ReadLUT ELSE NULL
<1>1. at = "profile" /\ link.i <= link.count /\ (UNCHANGED heap \/ (lut # NULL /\ heap' = Adding(heap, Fresh, lut)))
  BY DEF Read
<1>2. Said(ReadLUT)
  BY <1>1, ReadSpeaks
<1>3. Said(lut)
  BY <1>2 DEF Said
<1> HIDE DEF lut
<1> QED  BY <1>1, <1>3, AddsSpeaking, SameSpeaking DEF Said

LEMMA ConnectingSpeaks ==
    ASSUME AllRegular, IInv, CInv, AllSpeak, Connect
    PROVE  AllSpeak'
<1> DEFINE L == heap[link.Lut]
           both == IF Connected = NULL THEN NULL ELSE cmsPipelineCat(Connected, L)
<1>1. /\ at = "connect"
      /\ \/ UNCHANGED heap
         \/ both # NULL /\ heap' = [Without({link.Lut}) EXCEPT ![link.Result] = both]
  BY DEF Connect
<1>2. link.Result \in DOMAIN heap /\ link.Lut \in DOMAIN heap
  <2>1. Owned /\ link.Result \in DOMAIN heap
    BY <1>1, WhileLinking
  <2>2. link.Lut # Nil
    BY <1>1 DEF CInv, Fetched
  <2> QED  BY <2>1, <2>2, HeldIs DEF Owners
<1>3. Said(Connected) /\ Spoken(L)
  BY <1>2, ConnectedSaid DEF AllSpeak
<1> HIDE DEF L
<1>4. both # NULL => Spoken(both)
  BY <1>3, CatSpeaks DEF Said
<1> HIDE DEF both
<1>5. CASE both # NULL /\ heap' = [Without({link.Lut}) EXCEPT ![link.Result] = both]
  <2> DEFINE h == Without({link.Lut})
  <2>1. \A x \in DOMAIN h : Spoken(h[x])
    BY DEF AllSpeak, Without, Restrict
  <2>2. heap' = [h EXCEPT ![link.Result] = both]
    BY <1>5
  <2> HIDE DEF h
  <2>3. \A x \in DOMAIN heap' : Spoken(heap'[x])
    BY <1>4, <1>5, <2>1, <2>2
  <2> QED  BY <2>3 DEF AllSpeak
<1> QED  BY <1>1, <1>5, SameSpeaking

LEMMA CheckingSpeaks ==
    ASSUME AllRegular, IInv, CInv, AllSpeak, LastCheck
    PROVE  AllSpeak'
<1>1. /\ at = "profile"
      /\ UNCHANGED heap \/ (Clipped # NULL /\ heap' = [heap EXCEPT ![link.Result] = Clipped])
  BY DEF LastCheck
<1>2. link.Result \in DOMAIN heap
  BY <1>1, WhileLinking
<1>3. Said(Clipped)
  BY <1>2, ClippedSaid DEF AllSpeak
<1> QED  BY <1>1, <1>3, SetsSpeaking, SameSpeaking DEF Said

\* The table that keeps black says what the result did.
LEMMA KeepingSpeaks ==
    ASSUME AllRegular, IInv, CInv, AllSpeak, link.Result # Nil, KeepBlack
    PROVE  AllSpeak'
<1> DEFINE w == Once("black", "kept", 0) \o Word(heap[link.Result])
           CLUT == cmsStageAllocCLut16bit(4, 4, "CMYK", "CMYK", w)
           made == cmsPipelineAlloc(4, 4)
           kept == cmsPipelineInsertStage(made, AT_BEGIN, CLUT)
           id == IF link.Kept = Nil THEN Fresh ELSE link.Kept
<1>1. at = "keep black" /\ (UNCHANGED heap \/ heap' = Adding(heap, id, kept))
  BY DEF KeepBlack
<1>2. link.Result \in DOMAIN heap
  <2>1. Owned
    BY <1>1 DEF IInv
  <2> QED  BY <2>1, HeldIs DEF Owners
<1>3. IsWord(w)
  <2> DEFINE R == heap[link.Result]
             u == Tale(R.Elements)
             o == Once("black", "kept", 0)
  <2>1. IsWord(u) /\ Word(R) = Reduced(u)
    BY <1>2, TellsIs, WordIs DEF AllSpeak, Spoken
  <2>2. IsWord(o)
    BY WordsAre
  <2>3. IsWord(Word(R))
    BY <2>1, ReducedSame
  <2> HIDE DEF R, o
  <2>4. IsWord(o \o Word(R))
    BY <2>2, <2>3, WordsJoin
  <2> QED  BY <2>4 DEF R, o
<1> HIDE DEF w
<1>4. Told(CLUT)
  BY <1>3, AllocatedTold
<1> HIDE DEF CLUT
<1>5. Spoken(made)
  BY AllocSpeaks
<1> HIDE DEF made
<1>6. Spoken(kept)
  BY <1>4, <1>5, InsertSpeaks
<1> HIDE DEF kept, id
<1> QED  BY <1>1, <1>6, AddsSpeaking, SameSpeaking

LEMMA DevlinkSpeaks ==
    ASSUME AllRegular, IInv, CInv, at = "links", link.i <= n
    PROVE  Said(devlink)
<1>1. link.count \in Nat /\ link.i \in link.count + 1..n /\ n \in Nat /\ Intent \in 0..3
  BY DevlinkReads DEF CInv, Begun
<1>2. link.i \in 1..n
  BY <1>1
<1>3. Regular(p)
  BY <1>2, CallIs DEF p
<1> DEFINE J == Intent
<1>4. J \in Nat
  BY <1>1
<1> HIDE DEF J
<1>5. Said(_cmsReadDevicelinkLUT(p, J))
  BY <1>3, <1>4, DevlinkSaid
<1> QED  BY <1>5 DEF devlink, J

LEMMA FailingSpeaks ==
    ASSUME AllSpeak, Spoken(devlink), AppendFails
    PROVE  AllSpeak'
<1> DEFINE h == IF KeepsPlane THEN Without({link.Kept}) ELSE heap
<1>1. \A x \in DOMAIN h : Spoken(h[x])
  BY DEF AllSpeak, Without, Restrict
<1>2. heap' = Adding(h, Fresh, devlink)
  BY DEF AppendFails
<1> HIDE DEF h
<1>3. \A x \in DOMAIN heap' : Spoken(heap'[x])
  BY <1>1, <1>2 DEF Adding
<1> QED  BY <1>3 DEF AllSpeak

LEMMA AppendingSpeaks ==
    ASSUME AllRegular, IInv, CInv, AllSpeak, Append_devlink
    PROVE  AllSpeak'
<1>1. /\ at = "links" /\ link.i <= n
      /\ \/ UNCHANGED heap
         \/ /\ devlink # NULL /\ link.Kept # Nil
            /\ heap' = Adding([heap EXCEPT ![link.Kept] = Appended], Fresh, devlink)
         \/ devlink # NULL /\ AppendFails
  BY DEF Append_devlink
<1>2. Said(devlink)
  BY <1>1, DevlinkSpeaks
<1>3. CASE /\ devlink # NULL /\ link.Kept # Nil
           /\ heap' = Adding([heap EXCEPT ![link.Kept] = Appended], Fresh, devlink)
  <2>1. link.Kept \in DOMAIN heap /\ Spoken(devlink)
    BY <1>1, <1>2, <1>3, DevlinkReads DEF Said
  <2>2. Spoken(Appended)
    BY <2>1, CatSpeaks DEF AllSpeak, Appended
  <2> DEFINE h == [heap EXCEPT ![link.Kept] = Appended]
  <2>3. \A x \in DOMAIN h : Spoken(h[x])
    BY <2>2 DEF AllSpeak
  <2>4. heap' = Adding(h, Fresh, devlink)
    BY <1>3
  <2> HIDE DEF h
  <2>5. \A x \in DOMAIN heap' : Spoken(heap'[x])
    BY <2>1, <2>3, <2>4 DEF Adding
  <2> QED  BY <2>5 DEF AllSpeak
<1>4. CASE devlink # NULL /\ AppendFails
  BY <1>2, <1>4, FailingSpeaks DEF Said
<1> QED  BY <1>1, <1>3, <1>4, SameSpeaking

LEMMA LinkingSpeaks == ASSUME AllRegular, IInv, CInv, AllSpeak, MInv, Link PROVE AllSpeak'
<1>1. CASE BlackPreservingKOnlyIntents \/ BlackPreservingKPlaneIntents \/ Default \/ DefaultICCintents
  BY <1>1, BeginningSpeaks
<1>2. CASE Error
  BY <1>2, FreesSpeaking DEF Error
<1>3. CASE BlackIsKept
  BY <1>3, FreesSpeaking DEF BlackIsKept
<1>4. CASE CleanUp
  BY <1>4, FreesSpeaking DEF CleanUp
<1>5. CASE KeepBlack
  <2>1. link.Result # Nil
    BY <1>5 DEF KeepBlack, MInv
  <2> QED  BY <1>5, <2>1, KeepingSpeaks
<1> QED  BY <1>1, <1>2, <1>3, <1>4, <1>5, ReadingSpeaks, ConnectingSpeaks, CheckingSpeaks, AppendingSpeaks DEF Link

\* Wherever memory runs out, nothing is made of a pipeline.
LEMMA MemorySpeaks == ASSUME AllRegular, IInv, CInv, AllSpeak, OutOfMemory, ~MatricesLost' PROVE AllSpeak'
<1>1. \/ UNCHANGED heap
      \/ at = "links" /\ link.i <= n /\ devlink # NULL /\ AppendFails
      \/ \E ids : heap' = Without(ids)
  BY DEF OutOfMemory, MatricesLost
<1>2. CASE at = "links" /\ link.i <= n /\ devlink # NULL /\ AppendFails
  BY <1>2, DevlinkSpeaks, FailingSpeaks DEF Said
<1> QED  BY <1>1, <1>2, FreesSpeaking, SameSpeaking

\* Black is kept of a result.
LEMMA KeepsResult ==
    ASSUME CInv, MInv, [Next]_vars, at' = "keep black"
    PROVE  link'.Result # Nil
<1>1. CASE LastCheck
  BY <1>1 DEF LastCheck, CInv, Reached
<1>2. CASE UNCHANGED vars
  BY <1>2 DEF vars, MInv
<1>3. ~LastCheck => UNCHANGED vars
  <2>1. CASE _cmsLinkProfiles
    <3>1. at' \in {"refused", "handler"}
      BY <2>1 DEF _cmsLinkProfiles, Going
    <3> QED  BY <3>1
  <2>2. CASE Link
    BY <2>2 DEF Link, BlackPreservingKOnlyIntents, BlackPreservingKPlaneIntents, Default, DefaultICCintents, Read,
       Connect, Error, KeepBlack, Append_devlink, AppendFails, BlackIsKept, CleanUp, Going
  <2>3. CASE Optimise
    BY <2>3 DEF Optimise, cmsCreateExtendedTransform, _cmsOptimizePipeline, PreOptimize, Round, Try, Going
  <2>4. CASE cmsDeleteTransform \/ OutOfMemory
    BY <2>4 DEF cmsDeleteTransform, OutOfMemory, AppendFails, Going
  <2> QED  BY <2>1, <2>2, <2>3, <2>4 DEF Next
<1> QED  BY <1>1, <1>2, <1>3

--------------------
\* The steps of optimising.

LEMMA TransformSpeaks ==
    ASSUME AllRegular, IInv, CInv, MInv, at \in {"optimise", "preoptimise", "try"}
    PROVE  AllSpeak /\ link.Lut \in DOMAIN heap /\ Spoken(Lut)
<1>1. AllSpeak
  BY DEF MInv
<1>2. link.Lut \in DOMAIN heap
  BY HandedIs DEF Optimising
<1> QED  BY <1>1, <1>2 DEF AllSpeak, Lut

LEMMA SameRetold ==
    ASSUME AllSpeak, Spoken(Lut), UNCHANGED heap
    PROVE  AllSpeak' /\ Retold
<1>1. heap'[link.Lut] = Lut
  BY DEF Lut
<1> QED  BY <1>1, SpokenMeans, SameSpeaking DEF Retold

LEMMA SetRetold ==
    ASSUME NEW l, heap' = [heap EXCEPT ![link.Lut] = l], link.Lut \in DOMAIN heap, Means(l, Lut)
    PROVE  Retold
<1>1. heap'[link.Lut] = l
  OBVIOUS
<1> QED  BY <1>1 DEF Retold

LEMMA IdentityRetold ==
    ASSUME Spoken(Lut), Lut.Elements = <<>>, link.Lut \in DOMAIN heap,
           heap' = [heap EXCEPT ![link.Lut] = FastIdentity(@)]
    PROVE  Retold
<1>1. heap' = [heap EXCEPT ![link.Lut] = FastIdentity(Lut)]
  BY DEF Lut
<1> QED  BY <1>1, FastMeans, SetRetold

LEMMA OptimiseRetold ==
    ASSUME AllRegular, IInv, CInv, MInv, _cmsOptimizePipeline
    PROVE  Retold /\ (at' # "done" => AllSpeak')
<1>1. at = "optimise"
  BY DEF _cmsOptimizePipeline
<1>2. AllSpeak /\ link.Lut \in DOMAIN heap /\ Spoken(Lut)
  BY <1>1, TransformSpeaks
<1>3. \/ UNCHANGED heap
      \/ at' = "done" /\ Lut.Elements = <<>> /\ heap' = [heap EXCEPT ![link.Lut] = FastIdentity(@)]
  BY DEF _cmsOptimizePipeline, Going
<1> QED  BY <1>2, <1>3, SameRetold, IdentityRetold

LEMMA PreoptimiseRetold ==
    ASSUME AllRegular, IInv, CInv, MInv, PreOptimize
    PROVE  Retold /\ AllSpeak'
<1> DEFINE l == Lut
           k == link.pass
           r == Preoptimised(l, k).lut
<1>1. at = "preoptimise" /\ k <= Passes /\ heap' = [heap EXCEPT ![link.Lut] = r]
  BY DEF PreOptimize
<1>2. AllSpeak /\ link.Lut \in DOMAIN heap /\ Spoken(l)
  BY <1>1, TransformSpeaks
<1>3. k \in 1..Passes
  <2>1. k \in 1..Passes + 1 /\ Passes = 8
    BY <1>1, HandedIs, PairsFit DEF Optimising
  <2> QED  BY <1>1, <2>1
<1>4. l = Lut
  OBVIOUS
<1> HIDE DEF l, k
<1>5. Spoken(r) /\ Word(r) = Word(l)
  BY <1>2, <1>3, PreoptimisedSpeaks
<1> HIDE DEF r
<1>6. Means(r, Lut)
  BY <1>4, <1>5, SpokenMeans DEF Means
<1> QED  BY <1>1, <1>2, <1>5, <1>6, SetRetold, SetsSpeaking

LEMMA RoundRetold ==
    ASSUME AllRegular, IInv, CInv, MInv, Round
    PROVE  Retold /\ (at' # "done" => AllSpeak')
<1>1. at = "preoptimise"
  BY DEF Round
<1>2. AllSpeak /\ link.Lut \in DOMAIN heap /\ Spoken(Lut)
  BY <1>1, TransformSpeaks
<1>3. \/ UNCHANGED heap
      \/ at' = "done" /\ Lut.Elements = <<>> /\ heap' = [heap EXCEPT ![link.Lut] = FastIdentity(@)]
  BY DEF Round, Going
<1> QED  BY <1>2, <1>3, SameRetold, IdentityRetold

LEMMA TryRetold ==
    ASSUME AllRegular, IInv, CInv, MInv, Try
    PROVE  Retold /\ (at' # "done" => AllSpeak')
<1>1. at = "try"
  BY DEF Try
<1>2. AllSpeak /\ link.Lut \in DOMAIN heap /\ Spoken(Lut) /\ link.pass \in 1..4
  BY <1>1, TransformSpeaks, HandedIs DEF Optimising
<1>3. PICK suitable \in BOOLEAN :
        \/ /\ Attempt(link.pass, suitable).ok /\ at' = "done"
           /\ heap' = [heap EXCEPT ![link.Lut] = Attempt(link.pass, suitable).lut]
        \/ UNCHANGED heap
  BY DEF Try, Going
<1>4. Attempt(link.pass, suitable).ok => Means(Attempt(link.pass, suitable).lut, Lut)
  BY <1>2, AttemptMeans
<1> QED  BY <1>2, <1>3, <1>4, SameRetold, SetRetold

\* Memory runs out while the transform is optimised.
LEMMA MemoryRetold ==
    ASSUME AllRegular, IInv, CInv, MInv, OutOfMemory, HasTransform, at' # "undefined", ~MatricesLost'
    PROVE  Retold
<1>1. at = "try" /\ UNCHANGED heap
  BY DEF OutOfMemory, HasTransform, MatricesLost, Going
<1>2. AllSpeak /\ Spoken(Lut)
  BY <1>1, TransformSpeaks
<1> QED  BY <1>1, <1>2, SameRetold

--------------------
\* The invariant, and what it says.

LEMMA MeaningBegins == Init => MInv
<1> SUFFICES ASSUME Init PROVE MInv
  OBVIOUS
<1>1. at = "idle" /\ DOMAIN heap = {}
  BY DEF Init
<1> QED  BY <1>1 DEF MInv, AllSpeak

LEMMA MeaningInductive ==
    ASSUME AllRegular
    PROVE  IInv /\ (MatricesLost \/ CInv) /\ (MatricesLost \/ MInv) /\ [Next]_vars => MatricesLost' \/ MInv'
<1> SUFFICES ASSUME IInv, CInv, MInv, [Next]_vars, ~MatricesLost' PROVE MInv'
  BY LostForGood
<1>1. at' = "keep black" => link'.Result # Nil
  BY KeepsResult
<1> SUFFICES ASSUME at' \notin {"done", "deleted", "undefined"} PROVE AllSpeak'
  BY <1>1 DEF MInv
<1>2. CASE _cmsLinkProfiles
  BY <1>2, SameSpeaking DEF _cmsLinkProfiles, MInv
<1>3. CASE Link
  <2>1. at \notin {"done", "deleted", "undefined"}
    BY <1>3 DEF Link, BlackPreservingKOnlyIntents, BlackPreservingKPlaneIntents, Default, DefaultICCintents, Read,
       Connect, LastCheck, Error, KeepBlack, Append_devlink, BlackIsKept, CleanUp
  <2> QED  BY <1>3, <2>1, LinkingSpeaks DEF MInv
<1>4. CASE cmsCreateExtendedTransform
  <2>1. at = "linked" /\ (UNCHANGED heap \/ heap' = Without({link.Result}))
    BY <1>4 DEF cmsCreateExtendedTransform
  <2> QED  BY <2>1, FreesSpeaking, SameSpeaking DEF MInv
<1>5. CASE _cmsOptimizePipeline \/ PreOptimize \/ Round \/ Try
  BY <1>5, OptimiseRetold, PreoptimiseRetold, RoundRetold, TryRetold
<1>6. CASE cmsDeleteTransform
  BY <1>6 DEF cmsDeleteTransform, Going
<1>7. CASE OutOfMemory
  <2>1. at \notin {"done", "deleted", "undefined"}
    BY <1>7 DEF OutOfMemory
  <2> QED  BY <1>7, <2>1, MemorySpeaks DEF MInv
<1>8. CASE UNCHANGED vars
  BY <1>8, SameSpeaking DEF vars, MInv
<1> QED  BY <1>2, <1>3, <1>4, <1>5, <1>6, <1>7, <1>8 DEF Next, Optimise

\* What each step of a transform does to its pipeline.
LEMMA MeaningStep ==
    ASSUME AllRegular, IInv, MatricesLost \/ CInv, MatricesLost \/ MInv, Next,
           HasTransform, link'.Lut = link.Lut, at' # "undefined", ~MatricesLost'
    PROVE  Word(heap'[link.Lut]) = Word(Lut) /\ Word16(heap'[link.Lut]) = Word(heap'[link.Lut])
<1> SUFFICES Retold
  BY DEF Retold, Means
<1>3. CInv /\ MInv
  BY LostForGood
<1>1. ~_cmsLinkProfiles /\ ~Link /\ ~cmsCreateExtendedTransform
  BY DEF HasTransform, _cmsLinkProfiles, cmsCreateExtendedTransform, Link, BlackPreservingKOnlyIntents,
     BlackPreservingKPlaneIntents, Default, DefaultICCintents, Read, Connect, LastCheck, Error, KeepBlack,
     Append_devlink, BlackIsKept, CleanUp
<1>2. ~cmsDeleteTransform
  <2> SUFFICES ASSUME cmsDeleteTransform PROVE FALSE
    OBVIOUS
  <2>1. at = "done" /\ link' = [link EXCEPT !.Lut = Nil]
    BY DEF cmsDeleteTransform
  <2>2. Owned /\ link.Lut # Nil
    BY <1>3, <2>1 DEF CInv, Handed, IInv, Optimising
  <2>3. link'.Lut = Nil
    BY <2>1, <2>2 DEF Owned, Locals
  <2> QED  BY <2>2, <2>3
<1> QED  BY <1>1, <1>2, <1>3, OptimiseRetold, PreoptimiseRetold, RoundRetold, TryRetold, MemoryRetold DEF Next, Optimise

\* Optimising changes how a colour is computed and not what, in floating point or in 16 bits
\* (cmsopt.c: PreOptimize and its passes, OptimizeByJoiningCurves, OptimizeMatrixShaper,
\* OptimizeByComputingLinearization, OptimizeByResampling, FastIdentity16): at every step, for
\* every chain of regular profiles and the flags and formats that choose among them, and
\* wherever memory runs out but where _MultiplyMatrix cannot allocate the product of two
\* matrices that it has removed (MatricesLost).
THEOREM OptimisingKeepsMeaning ==
    ASSUME \A chain \in Chains : RegularChain(chain)
    PROVE  Spec => MeaningKept
<1>1. AllRegular
  BY DEF AllRegular
<1>2. IInv /\ (MatricesLost \/ CInv) /\ [Next]_vars => MatricesLost' \/ CInv'
  BY <1>1, ContentsInductive
<1>3. IInv /\ (MatricesLost \/ CInv) /\ (MatricesLost \/ MInv) /\ [Next]_vars => MatricesLost' \/ MInv'
  BY <1>1, MeaningInductive
<1> DEFINE Keeps == HasTransform /\ link'.Lut = link.Lut /\ at' # "undefined" /\ ~MatricesLost' =>
                        /\ Word(heap'[link.Lut]) = Word(Lut)
                        /\ Word16(heap'[link.Lut]) = Word(heap'[link.Lut])
<1>4. IInv /\ (MatricesLost \/ CInv) /\ (MatricesLost \/ MInv) /\ [Next]_vars => [Keeps]_vars
  BY <1>1, MeaningStep
<1>5. Spec => []IInv
  BY Begins, Inductive, PTL DEF Spec
<1>6. Spec => [](MatricesLost \/ CInv)
  BY <1>2, <1>5, ContentsBegin, PTL DEF Spec
<1>7. Spec => [](MatricesLost \/ MInv)
  BY <1>3, <1>5, <1>6, MeaningBegins, PTL DEF Spec
<1>8. Spec => [][Keeps]_vars
  <2> HIDE DEF Keeps
  <2> QED  BY <1>4, <1>5, <1>6, <1>7, PTL DEF Spec
<1> QED  BY <1>8 DEF MeaningKept

=============================================================================
