------------------------- MODULE TagDirectoryProofs -------------------------
(***************************************************************************)
(* Looking a tag up in the directory: what SearchOneTag finds, where links *)
(* lead to, and what a change of the directory leaves of that.  The proofs *)
(* about profiles, used by one thread or by many, rest on these lemmas.    *)
(***************************************************************************)
EXTENDS TagDirectory, WellFoundedInduction, TLAPS

DirectoryOK == slot \in [Position -> Slot] /\ count \in 0..MaxTags

\* A set of positions that is not empty has a first one.
LEMMA FirstOfSet ==
    ASSUME NEW T \in SUBSET Nat, T # {}
    PROVE  \E i \in T : \A j \in T : i <= j
<1>1. \E i \in T : \A j \in T : <<j, i>> \notin OpToRel(<, Nat)
  BY NatLessThanWellFounded, WFMin
<1>2. ASSUME NEW i \in Nat, NEW j \in Nat, <<j, i>> \notin OpToRel(<, Nat)
      PROVE  i <= j
  <2>1. ~(j < i)
    BY <1>2, Zenon DEF OpToRel
  <2> QED BY <2>1
<1> QED BY <1>1, <1>2

\* SearchOneTag returns the first position in use with that name, or 0.
LEMMA SearchOneTagFinds ==
    ASSUME count \in Nat, NEW s
    PROVE  /\ SearchOneTag(s) \in 0..count
           /\ SearchOneTag(s) # 0 => slot[SearchOneTag(s)].name = s
           /\ \A i \in 1..count : slot[i].name = s => SearchOneTag(s) # 0
<1> DEFINE hits == {i \in 1..count : slot[i].name = s}
<1> hits \in SUBSET Nat
  OBVIOUS
<1>1. CASE hits = {}
  BY <1>1 DEF SearchOneTag
<1>2. CASE hits # {}
  <2>1. PICK i \in hits : \A j \in hits : i <= j
    BY <1>2, FirstOfSet
  <2>2. i \in 1..count /\ slot[i].name = s /\ \A j \in 1..(i - 1) : slot[j].name # s
    BY <2>1
  <2>3. SearchOneTag(s) \in 1..count /\ slot[SearchOneTag(s)].name = s
    BY <2>2 DEF SearchOneTag
  <2> QED BY <2>3
<1> QED BY <1>1, <1>2

\* A tag leads to what its entry is linked to, if it has one.
LEMMA HopLeads ==
    ASSUME DirectoryOK, NEW t \in Sigs
    PROVE  /\ Hop[t] = IF SearchOneTag(t) = 0 THEN NoSig ELSE slot[SearchOneTag(t)].linked
           /\ Hop[t] \in Targets \cup {NoSig} /\ Targets \subseteq Sigs
<1>1. SearchOneTag(t) \in 0..count /\ (SearchOneTag(t) # 0 => slot[SearchOneTag(t)].name = t)
      /\ \A i \in 1..count : slot[i].name = t => SearchOneTag(t) # 0
  BY SearchOneTagFinds, TableAssumption DEF DirectoryOK
<1>2. t # NoSig
  BY SigsAssumption
<1>3. (\E i \in 1..count : slot[i].name = t) <=> SearchOneTag(t) # 0
  BY <1>1
<1>4. Hop[t] = IF SearchOneTag(t) = 0 THEN NoSig ELSE slot[SearchOneTag(t)].linked
  BY <1>2, <1>3 DEF Hop
<1>5. \A i \in 1..count : slot[i].linked \in Sigs \cup {NoSig}
  BY TableAssumption DEF DirectoryOK, Position, Slot
<1> QED  BY <1>1, <1>4, <1>5 DEF Targets

(***************************************************************************)
(* The path of links.                                                      *)
(***************************************************************************)
\* It leads nowhere else, and whatever has its beginning and leads nowhere else has it all.
LEMMA PathLeast ==
    ASSUME DirectoryOK, NEW s \in Sigs
    PROVE  /\ LinkPath(s) \subseteq Sigs /\ s \in LinkPath(s) /\ LeadsNowhereElse(LinkPath(s))
           /\ \A T \in SUBSET Sigs : s \in T /\ LeadsNowhereElse(T) => LinkPath(s) \subseteq T
<1>1. /\ LinkPath(s) \subseteq Sigs /\ s \in LinkPath(s)
      /\ \A t \in Sigs : Hop[t] \in Targets \cup {NoSig} /\ Targets \subseteq Sigs
  BY HopLeads DEF LinkPath
<1>2. ASSUME NEW x \in LinkPath(s), Hop[x] # NoSig, Hop[x] # s
      PROVE  Hop[x] \in LinkPath(s)
  <2>1. Hop[x] \in Targets
    BY <1>1, <1>2
  <2>2. ASSUME NEW T \in SUBSET Targets, LeadsNowhereElse({s} \cup T) PROVE Hop[x] \in T
    <3>1. x \in {s} \cup T
      BY <2>2 DEF LinkPath
    <3> QED  BY <1>2, <2>2, <3>1 DEF LeadsNowhereElse
  <2> QED  BY <2>1, <2>2 DEF LinkPath
<1>3. LeadsNowhereElse(LinkPath(s))
  BY <1>1, <1>2 DEF LeadsNowhereElse
<1>4. ASSUME NEW T \in SUBSET Sigs, s \in T, LeadsNowhereElse(T), NEW x \in LinkPath(s)
      PROVE  x \in T
  <2> DEFINE U == T \cap Targets
  <2>1. LeadsNowhereElse({s} \cup U)
    BY <1>1, <1>4 DEF LeadsNowhereElse
  <2>2. x \in {s} \cup U
    BY <2>1 DEF LinkPath
  <2> QED  BY <1>4, <2>2
<1> QED  BY <1>1, <1>3, <1>4

\* The same of the path in the next state.
LEMMA PathLeastNext ==
    ASSUME DirectoryOK', NEW s \in Sigs
    PROVE  /\ LinkPath(s)' \subseteq Sigs /\ s \in LinkPath(s)'
           /\ \A t \in LinkPath(s)' : Hop'[t] \in LinkPath(s)' \cup {NoSig}
           /\ \A T \in SUBSET Sigs : s \in T /\ (\A t \in T : Hop'[t] \in T \cup {NoSig}) => LinkPath(s)' \subseteq T
<1>1. (/\ LinkPath(s) \subseteq Sigs /\ s \in LinkPath(s) /\ LeadsNowhereElse(LinkPath(s))
       /\ \A T \in SUBSET Sigs : s \in T /\ LeadsNowhereElse(T) => LinkPath(s) \subseteq T)'
  BY PathLeast, PTL
<1> QED  BY <1>1 DEF LeadsNowhereElse

\* The path from a tag on the path is a part of it.
LEMMA PathOn ==
    ASSUME DirectoryOK, NEW s \in Sigs, NEW t \in LinkPath(s)
    PROVE  LinkPath(t) \subseteq LinkPath(s)
  BY PathLeast

\* The path begins with the tag, and goes on where it leads.
LEMMA PathFrom ==
    ASSUME DirectoryOK, NEW s \in Sigs
    PROVE  /\ Hop[s] = NoSig => LinkPath(s) = {s}
           /\ Hop[s] # NoSig => LinkPath(s) = {s} \cup LinkPath(Hop[s])
<1>1. CASE Hop[s] = NoSig
  <2>1. LeadsNowhereElse({s})
    BY <1>1 DEF LeadsNowhereElse
  <2> QED  BY <1>1, <2>1, PathLeast
<1>2. CASE Hop[s] # NoSig
  <2> DEFINE d == Hop[s]
  <2>1. d \in Sigs /\ d \in LinkPath(s)
    BY <1>2, HopLeads, PathLeast DEF LeadsNowhereElse
  <2>2. LeadsNowhereElse({s} \cup LinkPath(d)) /\ LinkPath(d) \subseteq Sigs
    BY <2>1, PathLeast DEF LeadsNowhereElse
  <2>3. LinkPath(s) \subseteq {s} \cup LinkPath(d)
    BY <2>2, PathLeast
  <2>4. {s} \cup LinkPath(d) \subseteq LinkPath(s)
    BY <2>1, PathOn, PathLeast
  <2> QED  BY <1>2, <2>3, <2>4
<1> QED  BY <1>1, <1>2

\* A path has one end, and that is the end of the paths from everywhere on it.
LEMMA OneEnd ==
    ASSUME DirectoryOK, NEW s \in Sigs, NEW e \in LinkPath(s), Hop[e] = NoSig
    PROVE  /\ \A t \in LinkPath(s) : e \in LinkPath(t)
           /\ \A t \in LinkPath(s) : Hop[t] = NoSig => t = e
<1> DEFINE X == {t \in LinkPath(s) : e \in LinkPath(t)}
<1>1. s \in X /\ X \in SUBSET Sigs
  BY PathLeast
<1>2. LeadsNowhereElse(X)
  <2>1. SUFFICES ASSUME NEW t \in X, Hop[t] # NoSig PROVE Hop[t] \in X
    BY DEF LeadsNowhereElse
  <2>2. t \in Sigs /\ Hop[t] \in LinkPath(s) /\ t # e
    BY <2>1, PathLeast DEF LeadsNowhereElse
  <2>3. e \in LinkPath(Hop[t])
    BY <2>1, <2>2, PathFrom
  <2> QED  BY <2>2, <2>3
<1>3. \A t \in LinkPath(s) : e \in LinkPath(t)
  BY <1>1, <1>2, PathLeast
<1>4. ASSUME NEW t \in LinkPath(s), Hop[t] = NoSig PROVE t = e
  <2>1. t \in Sigs
    BY PathLeast
  <2> QED  BY <1>3, <1>4, <2>1, PathFrom
<1> QED  BY <1>3, <1>4

\* Following links arrives at the entry of the end of the path.
LEMMA SearchTagFinds ==
    ASSUME DirectoryOK, NEW s \in Sigs
    PROVE  \/ SearchTag(s) = Loop /\ \A t \in LinkPath(s) : Hop[t] # NoSig
           \/ \E e \in LinkPath(s) : Hop[e] = NoSig /\ SearchTag(s) = SearchOneTag(e)
  BY DEF SearchTag

LEMMA SearchTagEnds ==
    ASSUME DirectoryOK, NEW s \in Sigs
    PROVE  \A e \in LinkPath(s) : Hop[e] = NoSig => SearchTag(s) = SearchOneTag(e)
<1> SUFFICES ASSUME NEW e \in LinkPath(s), Hop[e] = NoSig PROVE SearchTag(s) = SearchOneTag(e)
  OBVIOUS
<1>1. \A t \in LinkPath(s) : Hop[t] = NoSig => t = e
  BY OneEnd
<1> QED  BY <1>1 DEF SearchTag

\* A change of the directory elsewhere changes nothing.
LEMMA SamePath ==
    ASSUME DirectoryOK, DirectoryOK', NEW s \in Sigs, \A t \in LinkPath(s) : Hop'[t] = Hop[t]
    PROVE  LinkPath(s)' = LinkPath(s)
<1> DEFINE P == LinkPath(s)
           Q == LinkPath(s)'
<1>1. P \subseteq Sigs /\ s \in P /\ LeadsNowhereElse(P)
      /\ \A T \in SUBSET Sigs : s \in T /\ LeadsNowhereElse(T) => P \subseteq T
  BY PathLeast
<1>2. Q \subseteq Sigs /\ s \in Q /\ (\A t \in Q : Hop'[t] \in Q \cup {NoSig})
      /\ \A T \in SUBSET Sigs : s \in T /\ (\A t \in T : Hop'[t] \in T \cup {NoSig}) => Q \subseteq T
  BY PathLeastNext
<1> HIDE DEF P, Q
<1>3. \A t \in P : Hop'[t] = Hop[t]
  BY DEF P
<1>4. Q \subseteq P
  BY <1>1, <1>2, <1>3 DEF LeadsNowhereElse
<1>5. P \subseteq Q
  BY <1>1, <1>2, <1>3, <1>4 DEF LeadsNowhereElse
<1> QED  BY <1>4, <1>5 DEF P, Q

LEMMA SameSearch ==
    ASSUME DirectoryOK, DirectoryOK', NEW s \in Sigs,
           \A t \in LinkPath(s) : Hop'[t] = Hop[t] /\ SearchOneTag(t)' = SearchOneTag(t)
    PROVE  LinkPath(s)' = LinkPath(s) /\ SearchTag(s)' = SearchTag(s)
<1>1. LinkPath(s)' = LinkPath(s)
  BY SamePath
<1>2. CASE \A t \in LinkPath(s) : Hop[t] # NoSig
  BY <1>1, <1>2 DEF SearchTag
<1>3. CASE \E t \in LinkPath(s) : Hop[t] = NoSig
  <2>1. PICK e \in LinkPath(s) : Hop[e] = NoSig
    BY <1>3
  <2>2. SearchTag(s) = SearchOneTag(e)
    BY <2>1, SearchTagEnds
  <2>3. \A t \in LinkPath(s) : Hop[t] = NoSig => t = e
    BY <2>1, OneEnd
  <2>4. SearchTag(s)' = SearchOneTag(e)'
    BY <1>1, <2>1, <2>3 DEF SearchTag
  <2> QED  BY <1>1, <2>2, <2>4
<1> QED  BY <1>2, <1>3

(***************************************************************************)
(* Paths that end.                                                         *)
(***************************************************************************)
LinksEnd == \A s \in Sigs : \E e \in LinkPath(s) : Hop[e] = NoSig

\* One tag is made a plain one, or gone, or a link to one whose path does not come to it.
LEMMA EndsAfter ==
    ASSUME DirectoryOK, DirectoryOK', LinksEnd, NEW s \in Sigs,
           \A t \in Sigs \ {s} : Hop'[t] = Hop[t],
           NEW d, Hop'[s] = d, d # NoSig => d \in Sigs /\ s \notin LinkPath(d)
    PROVE  LinksEnd'
<1> SUFFICES ASSUME NEW t \in Sigs PROVE \E e \in LinkPath(t)' : Hop'[e] = NoSig
  BY DEF LinksEnd
<1> DEFINE Q == LinkPath(t)'
<1>1. /\ Q \subseteq Sigs /\ t \in Q /\ \A u \in Q : Hop'[u] \in Q \cup {NoSig}
  BY PathLeastNext
<1> HIDE DEF Q
<1>2. CASE s \notin Q
  <2>1. LeadsNowhereElse(Q)
    BY <1>1, <1>2 DEF LeadsNowhereElse
  <2>2. PICK e \in LinkPath(t) : Hop[e] = NoSig
    BY DEF LinksEnd
  <2>3. e \in Q
    BY <1>1, <2>1, <2>2, PathLeast
  <2> QED  BY <1>1, <1>2, <2>2, <2>3 DEF Q
<1>3. CASE s \in Q /\ d = NoSig
  BY <1>3 DEF Q
<1>4. CASE s \in Q /\ d # NoSig
  <2>1. d \in Sigs /\ s \notin LinkPath(d) /\ d \in Q
    BY <1>1, <1>4
  <2>2. LinkPath(d) \subseteq Sigs /\ d \in LinkPath(d) /\ LeadsNowhereElse(LinkPath(d))
        /\ \A T \in SUBSET Sigs : d \in T /\ LeadsNowhereElse(T) => LinkPath(d) \subseteq T
    BY <2>1, PathLeast
  <2>3. LeadsNowhereElse(LinkPath(d) \cap Q)
    BY <1>1, <2>1, <2>2 DEF LeadsNowhereElse
  <2>4. LinkPath(d) \subseteq LinkPath(d) \cap Q
    BY <2>1, <2>2, <2>3
  <2>5. PICK e \in LinkPath(d) : Hop[e] = NoSig
    BY <2>1 DEF LinksEnd
  <2>6. e \in Q /\ e \in Sigs /\ e # s
    BY <2>1, <2>2, <2>4, <2>5
  <2> QED  BY <2>5, <2>6 DEF Q
<1> QED  BY <1>2, <1>3, <1>4

\* All the links of a directory lead to entries before them.
LEMMA EndsBefore ==
    ASSUME DirectoryOK,
           \A t \in Sigs : Hop[t] # NoSig => SearchOneTag(Hop[t]) < SearchOneTag(t)
    PROVE  LinksEnd
<1> SUFFICES ASSUME NEW s \in Sigs, \A e \in LinkPath(s) : Hop[e] # NoSig PROVE FALSE
  BY DEF LinksEnd
<1> DEFINE on == {SearchOneTag(t) : t \in LinkPath(s)}
<1>1. LinkPath(s) \subseteq Sigs /\ s \in LinkPath(s) /\ LeadsNowhereElse(LinkPath(s))
  BY PathLeast
<1>2. \A t \in LinkPath(s) : SearchOneTag(t) \in Nat
  <2>1. \A t \in Sigs : SearchOneTag(t) \in 0..count
    BY SearchOneTagFinds, TableAssumption DEF DirectoryOK
  <2> QED  BY <1>1, <2>1, TableAssumption DEF DirectoryOK
<1>3. PICK k \in on : \A j \in on : k <= j
  <2>1. on \in SUBSET Nat /\ on # {}
    BY <1>1, <1>2
  <2> HIDE DEF on
  <2> QED  BY <2>1, FirstOfSet
<1>4. PICK t \in LinkPath(s) : k = SearchOneTag(t)
  BY <1>3
<1>5. Hop[t] \in LinkPath(s) /\ t \in Sigs
  BY <1>1 DEF LeadsNowhereElse
<1>6. SearchOneTag(Hop[t]) \in on /\ SearchOneTag(Hop[t]) < k
  BY <1>4, <1>5
<1>7. SearchOneTag(Hop[t]) \in Nat /\ k \in Nat
  BY <1>2, <1>4, <1>5
<1> QED  BY <1>3, <1>6, <1>7

(***************************************************************************)
(* A change of one entry.                                                  *)
(***************************************************************************)
\* There is one entry for each name, and none beyond those in use.
UniqueNames ==
    /\ \A i, j \in Position : i # j /\ slot[i].name = slot[j].name => slot[i].name = NoSig
    /\ \A i \in Position : i > count => slot[i].name = NoSig

\* Where _cmsNewTag stores: at the tag's own entry, or at one of no tag.
LEMMA StoredWhere ==
    ASSUME DirectoryOK, UniqueNames, NEW s \in Sigs, NewPos(s) # 0
    PROVE  /\ NewPos(s) \in Position /\ NewPos(s) <= count + 1
           /\ slot[NewPos(s)].name \in {s, NoSig}
           /\ \A j \in Position : j # NewPos(s) => slot[j].name # s
<1> DEFINE i == NewPos(s)
<1>1. count \in Nat /\ MaxTags \in Nat /\ count <= MaxTags
  BY TableAssumption DEF DirectoryOK
<1>2. /\ SearchOneTag(s) \in 0..count
      /\ SearchOneTag(s) # 0 => slot[SearchOneTag(s)].name = s
      /\ \A j \in 1..count : slot[j].name = s => SearchOneTag(s) # 0
  BY <1>1, SearchOneTagFinds
<1>3. i \in Position /\ i <= count + 1
  BY <1>2, TableAssumption DEF NewPos, cmsIsTag, DirectoryOK, Position
<1>4. CASE cmsIsTag(s)
  <2>1. i = SearchOneTag(s) /\ slot[i].name = s
    BY <1>2, <1>4 DEF NewPos, cmsIsTag
  <2> QED  BY <1>3, <2>1, SigsAssumption DEF UniqueNames
<1>5. CASE ~cmsIsTag(s)
  <2>1. i = count + 1
    BY <1>5 DEF NewPos
  <2>2. slot[i].name = NoSig
    BY <1>1, <1>3, <2>1 DEF UniqueNames
  <2>3. \A j \in Position : slot[j].name # s
    <3>1. \A j \in 1..count : slot[j].name # s
      BY <1>2, <1>5 DEF cmsIsTag
    <3>2. \A j \in Position : j > count => slot[j].name # s
      BY SigsAssumption DEF UniqueNames
    <3> QED  BY <1>1, <3>1, <3>2 DEF Position
  <2> QED  BY <1>3, <2>2, <2>3
<1> QED  BY <1>4, <1>5

LEMMA Finds ==
    ASSUME DirectoryOK, NEW s
    PROVE  /\ SearchOneTag(s) \in 0..count
           /\ SearchOneTag(s) # 0 => slot[SearchOneTag(s)].name = s
           /\ \A i \in 1..count : slot[i].name = s => SearchOneTag(s) # 0
  BY SearchOneTagFinds, TableAssumption DEF DirectoryOK

\* SearchOneTag in the next state.
LEMMA FindsNext ==
    ASSUME DirectoryOK', NEW s
    PROVE  /\ SearchOneTag(s)' \in 0..count'
           /\ SearchOneTag(s)' # 0 => slot'[SearchOneTag(s)'].name = s
           /\ \A i \in 1..count' : slot'[i].name = s => SearchOneTag(s)' # 0
<1>1. (/\ SearchOneTag(s) \in 0..count
       /\ SearchOneTag(s) # 0 => slot[SearchOneTag(s)].name = s
       /\ \A i \in 1..count : slot[i].name = s => SearchOneTag(s) # 0)'
  BY Finds, PTL
<1> QED  BY <1>1

LEMMA HopNext ==
    ASSUME DirectoryOK', NEW t \in Sigs
    PROVE  Hop'[t] = IF SearchOneTag(t)' = 0 THEN NoSig ELSE slot'[SearchOneTag(t)'].linked
<1>1. (Hop[t] = IF SearchOneTag(t) = 0 THEN NoSig ELSE slot[SearchOneTag(t)].linked)'
  BY HopLeads, PTL
<1> QED  BY <1>1

\* All that a write of s may do to the directory: one position, of s or of no
\* tag, gets another entry, again of s or of no tag.
EntryChanges(s, i) ==
    /\ i <= count + 1 /\ count' = IF i > count THEN i ELSE count
    /\ slot[i].name \in {s, NoSig} /\ slot'[i].name \in {s, NoSig}
    /\ \A j \in Position : j # i => slot'[j] = slot[j] /\ slot[j].name # s

\* The entries of other tags are found where they were, as they were.
LEMMA FoundElsewhere ==
    ASSUME DirectoryOK, DirectoryOK', UniqueNames, NEW s \in Sigs, NEW i \in Position, EntryChanges(s, i),
           NEW u \in Sigs, u # s
    PROVE  /\ SearchOneTag(u)' = SearchOneTag(u) /\ Hop'[u] = Hop[u]
           /\ SearchOneTag(u) # 0 => slot'[SearchOneTag(u)] = slot[SearchOneTag(u)]
<1> DEFINE n == SearchOneTag(u)
           m == SearchOneTag(u)'
<1>0. /\ count \in Nat /\ count <= MaxTags /\ count' \in Nat /\ count' <= MaxTags /\ MaxTags \in Nat
      /\ DirectoryOK /\ DirectoryOK' /\ u # NoSig
  BY TableAssumption, SigsAssumption DEF DirectoryOK
<1>1. n \in 0..count /\ (n # 0 => slot[n].name = u) /\ \A j \in 1..count : slot[j].name = u => n # 0
  BY <1>0, SearchOneTagFinds
<1>2. m \in 0..count' /\ (m # 0 => slot'[m].name = u) /\ \A j \in 1..count' : slot'[j].name = u => m # 0
  BY FindsNext
<1>3. Hop[u] = (IF n = 0 THEN NoSig ELSE slot[n].linked) /\ Hop'[u] = (IF m = 0 THEN NoSig ELSE slot'[m].linked)
  BY <1>0, HopLeads, HopNext
<1> HIDE DEF n, m
<1>4. /\ i <= count + 1 /\ count' = IF i > count THEN i ELSE count
      /\ slot[i].name \in {s, NoSig} /\ slot'[i].name \in {s, NoSig}
      /\ \A j \in Position : j # i => slot'[j] = slot[j] /\ slot[j].name # s
  BY DEF EntryChanges
<1>5. n # 0 => n \in 1..count' /\ n \in Position /\ n # i /\ slot'[n] = slot[n] /\ slot'[n].name = u
  BY <1>0, <1>1, <1>4 DEF Position
<1>6. m # 0 => m \in 1..count /\ m \in Position /\ m # i /\ slot'[m] = slot[m] /\ slot[m].name = u
  BY <1>0, <1>2, <1>4 DEF Position
<1>7. n = m
  <2>1. n # 0 <=> m # 0
    BY <1>1, <1>2, <1>5, <1>6
  <2> QED  BY <1>0, <1>1, <1>5, <1>6, <2>1 DEF UniqueNames
<1> QED  BY <1>3, <1>5, <1>7 DEF n, m
=============================================================================
