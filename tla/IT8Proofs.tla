------------------------------ MODULE IT8Proofs ------------------------------
(***************************************************************************)
(* CellsFit of IT8 for any program that names columns before it fills      *)
(* cells, for any file, well made or not, and any limits: names and cells  *)
(* are never written outside of their arrays.  What is in a cell does not  *)
(* matter to it, only how long the arrays are, and what the counts in the  *)
(* header said when they were allocated.                                   *)
(***************************************************************************)
EXTENDS IT8, WellFoundedInduction, SequenceTheorems, TLAPS

FIELDS == <<"NUMBER_OF_FIELDS">>
IsSeq(s) == s \in Seq(ToSet(s))

\* A count is a property without subkeys, so that no pair is taken for one.
ListOK(list) ==
    /\ IsSeq(list)
    /\ \A k \in DOMAIN list :
          /\ DOMAIN list[k] = {"Keyword", "Subkey", "NextSubkey", "Value", "WriteAs"}
          /\ list[k].Keyword \in Counts => list[k].Subkey = Null
\* The number of fields that a header gives.
HasFields(list) == FindKey(list, FIELDS) # 0
Given(list) == satoi(list[FindKey(list, FIELDS)].Value)

\* The names are as many as the header says, which it will say again when the
\* cells are allocated.
TableOK(t) ==
    /\ DOMAIN t = {"SheetType", "nSamples", "nPatches", "SampleID", "HeaderList", "DataFormat", "Data"}
    /\ t.nSamples \in Nat /\ t.nPatches \in Nat
    /\ ListOK(t.HeaderList)
    /\ t.DataFormat # NoArray =>
          /\ DOMAIN t.DataFormat = 1..t.nSamples + 1
          /\ HasFields(t.HeaderList) /\ t.nSamples = Given(t.HeaderList)
    /\ t.Data # NoArray => DOMAIN t.Data = 1..(t.nSamples + 1) * (t.nPatches + 1)
ContainerOK(c) ==
    /\ DOMAIN c = {"Tab", "nTable", "ValidKeywords", "stray"}
    /\ IsSeq(c.Tab) /\ c.nTable \in DOMAIN c.Tab
    /\ \A j \in DOMAIN c.Tab : TableOK(c.Tab[j])
    /\ \A Key \in DOMAIN c.ValidKeywords : c.ValidKeywords[Key] = "PAIR" => Key \notin Counts
    /\ c.stray = FALSE

\* The parser leaves a table when it has its cells, or stops.
Left(r) == r.at \in {"data", "data ends", "refused"} \/ (r.at = "parse" /\ Over(r) /\ r.scan = "nothing")
ReaderFields == {"FileStack", "scan", "sy", "text", "it8", "nosheet", "at", "VarName", "pairs", "iField", "iSet"}
ReaderOK(r) ==
    /\ DOMAIN r = ReaderFields
    /\ ContainerOK(r.it8)
    /\ Top(r).Data # NoArray => Left(r)
    /\ r.at = "property" => r.VarName \in DOMAIN r.it8.ValidKeywords
    /\ r.at = "pairs" => r.VarName \notin Counts
IInv ==
    /\ ReaderOK(reader)
    /\ it8.stray = FALSE
    /\ it8.Tab # <<>> => ContainerOK(it8)
    /\ pc = "ready" => it8.Tab # <<>>
    /\ DOMAIN made = {"todo", "calls", "saves", "fresh", "foreign"} /\ Counted(made.todo)

(***************************************************************************)
(* Lemmas about sequences and lists of keywords.                           *)
(***************************************************************************)
LEMMA Sequence ==
    ASSUME NEW s, IsSeq(s)
    PROVE  Len(s) \in Nat /\ DOMAIN s = 1..Len(s)
BY DEF IsSeq

LEMMA LastIsThere ==
    ASSUME NEW s, IsSeq(s), NEW n \in DOMAIN s
    PROVE  Len(s) \in DOMAIN s
<1>1. Len(s) \in Nat /\ DOMAIN s = 1..Len(s)
  BY Sequence
<1>2. \A m \in Nat : n \in 1..m => m \in 1..m
  OBVIOUS
<1> QED  BY <1>1, <1>2

LEMMA OfItsElements ==
    ASSUME NEW S, NEW s \in Seq(S)
    PROVE  IsSeq(s)
<1>1. s \in [1..Len(s) -> ToSet(s)] /\ Len(s) \in Nat
  BY DEF ToSet
<1> QED  BY <1>1, SeqDef DEF IsSeq

LEMMA Extended ==
    ASSUME NEW s, IsSeq(s), NEW e
    PROVE  /\ IsSeq(Append(s, e)) /\ DOMAIN Append(s, e) = 1..Len(s) + 1
           /\ \A k \in DOMAIN s : Append(s, e)[k] = s[k]
           /\ Append(s, e)[Len(s) + 1] = e
<1> DEFINE S == ToSet(s) \cup {e}
<1>1. s \in Seq(S) /\ e \in S
  BY SeqMonotonic DEF IsSeq
<1>2. Append(s, e) \in Seq(S) /\ Len(Append(s, e)) = Len(s) + 1
  BY <1>1, AppendProperties
<1>3. \A k \in DOMAIN s : Append(s, e)[k] = s[k]
  BY <1>1, AppendProperties, Sequence
<1>4. Append(s, e)[Len(s) + 1] = e
  BY <1>1, AppendProperties
<1>5. Append(s, e) \in Seq(ToSet(Append(s, e)))
  BY <1>2 DEF ToSet
<1> QED  BY <1>2, <1>3, <1>4, <1>5 DEF IsSeq

LEMMA Replaced ==
    ASSUME NEW s, IsSeq(s), NEW f, DOMAIN f = DOMAIN s, f = [k \in DOMAIN f |-> f[k]]
    PROVE  IsSeq(f) /\ Len(f) = Len(s)
<1>1. f \in [1..Len(s) -> ToSet(f)] /\ Len(s) \in Nat
  BY Sequence DEF ToSet
<1> QED  BY <1>1, SeqDef DEF IsSeq

\* A set of positions that is not empty has a first one.
LEMMA FirstOfSet ==
    ASSUME NEW T \in SUBSET Nat, T # {}
    PROVE  Min(T) \in T /\ \A j \in T : Min(T) <= j
<1>1. \E i \in T : \A j \in T : <<j, i>> \notin OpToRel(<, Nat)
  BY NatLessThanWellFounded, WFMin
<1>2. ASSUME NEW i \in Nat, NEW j \in Nat, <<j, i>> \notin OpToRel(<, Nat)
      PROVE  i <= j
  <2>1. ~(j < i)
    BY <1>2, Zenon DEF OpToRel
  <2> QED BY <2>1
<1> QED BY <1>1, <1>2 DEF Min

\* A key is found when an entry has it.
LEMMA FindKeyFinds ==
    ASSUME NEW list, IsSeq(list), NEW Key
    PROVE  /\ FindKey(list, Key) \in 0..Len(list)
           /\ FindKey(list, Key) # 0 => FindKey(list, Key) \in DOMAIN list /\ list[FindKey(list, Key)].Keyword = Key
           /\ \A k \in DOMAIN list : list[k].Keyword = Key /\ Key # Comment => FindKey(list, Key) # 0
<1> DEFINE same == {k \in DOMAIN list : list[k].Keyword = Key /\ Key # Comment}
<1>1. DOMAIN list = 1..Len(list) /\ Len(list) \in Nat
  BY Sequence
<1>2. same \in SUBSET Nat
  BY <1>1
<1>3. same # {} => Min(same) \in same
  <2> HIDE DEF same
  <2> QED  BY <1>2, FirstOfSet
<1>4. FindKey(list, Key) = IF same = {} THEN 0 ELSE Min(same)
  BY Zenon DEF FindKey
<1>5. \A k : k \in same <=> k \in DOMAIN list /\ list[k].Keyword = Key /\ Key # Comment
  OBVIOUS
<1>6. \A k \in same : k \in 1..Len(list)
  BY <1>1
<1> HIDE DEF same
<1> QED  BY <1>1, <1>3, <1>4, <1>5, <1>6

\* The entry of a key is the same one in two lists in which the same entries have the key.
LEMMA FindKeySame ==
    ASSUME NEW list, NEW other, NEW Key,
           \A k \in DOMAIN list : k \in DOMAIN other /\ other[k].Keyword = list[k].Keyword,
           \A k \in DOMAIN other \ DOMAIN list : other[k].Keyword # Key
    PROVE  FindKey(other, Key) = FindKey(list, Key)
<1>1. {k \in DOMAIN list : list[k].Keyword = Key /\ Key # Comment}
        = {k \in DOMAIN other : other[k].Keyword = Key /\ Key # Comment}
  OBVIOUS
<1> QED  BY <1>1, Zenon DEF FindKey

SameFields(list, other) == HasFields(list) => HasFields(other) /\ Given(other) = Given(list)

LEMMA FieldsIsAKey == FIELDS \in Counts /\ FIELDS # Comment
BY DEF FIELDS, Counts, Comment

\* A pair is found when an entry has its subkey.
LEMMA SubkeyFound ==
    ASSUME NEW list, IsSeq(list), NEW Key, NEW Subkey, Subkey # Null,
           IsAvailableOnList(list, Key, Subkey).found # 0
    PROVE  list[IsAvailableOnList(list, Key, Subkey).found].Subkey = Subkey
<1> DEFINE p == FindKey(list, Key)
           f == IsAvailableOnList(list, Key, Subkey).found
           named == {k \in DOMAIN list : k \in Chain(list, p) /\ list[k].Subkey # Null}
           same == {k \in named : list[k].Subkey = Subkey}
<1>1. f = Entries(list, p, Subkey).found
  BY DEF IsAvailableOnList
<1>2. Entries(list, p, Subkey).found = IF same = {} THEN 0 ELSE Min(same)
  BY DEF Entries
<1>3. same \in SUBSET Nat
  BY Sequence
<1>4. same # {} => Min(same) \in same
  <2> HIDE DEF same
  <2> QED  BY <1>3, FirstOfSet
<1>5. f \in same
  <2> HIDE DEF same
  <2> QED  BY <1>1, <1>2, <1>4
<1> QED  BY <1>5

\* Whatever is added, a count that is there stays as it is: it is not edited, and no
\* pair is taken for it (AddToList).
LEMMA AddToListKeeps ==
    ASSUME NEW list, ListOK(list), NEW Key, NEW Subkey, NEW Value, NEW WriteAs,
           Key \in Counts => Subkey = Null, ~Duplicate(list, Key, Subkey)
    PROVE  /\ ListOK(AddToList(list, Key, Subkey, Value, WriteAs))
           /\ SameFields(list, AddToList(list, Key, Subkey, Value, WriteAs))
<1> DEFINE new == AddToList(list, Key, Subkey, Value, WriteAs)
           there == IsAvailableOnList(list, Key, Subkey)
           entry == [Keyword |-> Key, Subkey |-> Subkey, NextSubkey |-> 0, Value |-> Value, WriteAs |-> WriteAs]
           longer == Append(list, entry)
           p == FindKey(list, FIELDS)
<1>1. IsSeq(list) /\ Len(list) \in Nat /\ DOMAIN list = 1..Len(list)
  BY Sequence DEF ListOK
<1>2. p \in 0..Len(list) /\ (p # 0 => p \in DOMAIN list /\ list[p].Keyword = FIELDS)
  BY <1>1, FindKeyFinds, FieldsIsAKey
<1>3. CASE there.found # 0
  <2> DEFINE f == there.found
  <2>1. new = [list EXCEPT ![f].Value = Value, ![f].WriteAs = WriteAs]
    BY <1>3 DEF AddToList
  <2>2. Key \notin Counts
    BY <1>3 DEF Duplicate
  <2>3. DOMAIN new = DOMAIN list /\ new = [k \in DOMAIN new |-> new[k]]
    BY <2>1
  <2>4. \A k \in DOMAIN list : /\ DOMAIN new[k] = DOMAIN list[k]
                               /\ new[k].Keyword = list[k].Keyword /\ new[k].Subkey = list[k].Subkey
    BY <2>1 DEF ListOK
  <2>5. IsSeq(new)
    BY <1>1, <2>3, Replaced
  <2>6. FindKey(new, FIELDS) = p
    BY <2>3, <2>4, FindKeySame
  <2>7. p # 0 => p # f
    <3>1. CASE Subkey = Null
      <4>1. f = FindKey(list, Key)
        BY <3>1, <1>3 DEF IsAvailableOnList
      <4>2. list[f].Keyword = Key
        BY <4>1, <1>1, <1>3, FindKeyFinds
      <4> QED  BY <4>2, <1>2, <2>2, FieldsIsAKey
    <3>2. CASE Subkey # Null
      <4>1. list[f].Subkey = Subkey
        BY <3>2, <1>1, <1>3, SubkeyFound
      <4> QED  BY <4>1, <3>2, <1>2, FieldsIsAKey DEF ListOK
    <3> QED  BY <3>1, <3>2
  <2>8. p # 0 => new[p] = list[p]
    BY <1>2, <2>1, <2>7
  <2> QED  BY <2>3, <2>4, <2>5, <2>6, <2>8 DEF ListOK, SameFields, HasFields, Given
<1>4. CASE there.found = 0
  <2>1. /\ IsSeq(longer) /\ DOMAIN longer = 1..Len(list) + 1
        /\ \A k \in DOMAIN list : longer[k] = list[k]
        /\ longer[Len(list) + 1] = entry
    BY <1>1, Extended
  <2>2. new = longer \/ new = [longer EXCEPT ![there.last].NextSubkey = Len(longer)]
    BY <1>4 DEF AddToList
  <2>3. DOMAIN new = DOMAIN longer /\ IsSeq(new)
    BY <2>1, <2>2, Replaced
  <2>4. \A k \in DOMAIN longer : DOMAIN longer[k] = {"Keyword", "Subkey", "NextSubkey", "Value", "WriteAs"}
    BY <1>1, <2>1 DEF ListOK
  <2>5. /\ \A k \in DOMAIN longer : DOMAIN new[k] = DOMAIN longer[k]
        /\ \A k \in DOMAIN longer : new[k].Keyword = longer[k].Keyword
        /\ \A k \in DOMAIN longer : new[k].Subkey = longer[k].Subkey
        /\ \A k \in DOMAIN longer : new[k].Value = longer[k].Value
    <3>1. CASE new = longer
      BY <3>1
    <3>2. CASE new = [longer EXCEPT ![there.last].NextSubkey = Len(longer)]
      <4> HIDE DEF longer, there
      <4> QED  BY <3>2, <2>4
    <3> QED  BY <3>1, <3>2, <2>2
  <2>6. /\ longer[Len(list) + 1].Keyword = Key /\ longer[Len(list) + 1].Subkey = Subkey
    BY <2>1
  <2> HIDE DEF new, longer
  <2>7. ListOK(new)
    <3> SUFFICES ASSUME NEW k \in DOMAIN new
                 PROVE  /\ DOMAIN new[k] = {"Keyword", "Subkey", "NextSubkey", "Value", "WriteAs"}
                        /\ new[k].Keyword \in Counts => new[k].Subkey = Null
      BY <2>3 DEF ListOK
    <3>1. CASE k \in DOMAIN list
      BY <3>1, <2>1, <2>3, <2>4, <2>5 DEF ListOK
    <3>2. CASE k \notin DOMAIN list
      <4>1. k = Len(list) + 1
        BY <3>2, <1>1, <2>1, <2>3
      <4> QED  BY <4>1, <2>1, <2>3, <2>4, <2>5, <2>6
    <3> QED  BY <3>1, <3>2
  <2>8. ASSUME p # 0
        PROVE  FindKey(new, FIELDS) = p /\ new[p].Value = list[p].Value
    <3>1. Key # FIELDS
      BY <2>8, <1>4, FieldsIsAKey DEF IsAvailableOnList
    <3>2. \A k \in DOMAIN new \ DOMAIN list : new[k].Keyword # FIELDS
      BY <3>1, <1>1, <2>1, <2>3, <2>5, <2>6
    <3>3. \A k \in DOMAIN list : k \in DOMAIN new /\ new[k].Keyword = list[k].Keyword
      BY <1>1, <2>1, <2>3, <2>5
    <3>4. FindKey(new, FIELDS) = p
      BY <3>2, <3>3, FindKeySame
    <3> QED  BY <3>4, <2>8, <1>1, <1>2, <2>1, <2>5
  <2> QED  BY <2>7, <2>8 DEF SameFields, HasFields, Given, new
<1> QED  BY <1>3, <1>4

(***************************************************************************)
(* Lemmas about the functions that a program calls.                        *)
(***************************************************************************)
LEMMA PutTable ==
    ASSUME NEW c, ContainerOK(c), NEW t, TableOK(t)
    PROVE  ContainerOK(WithTable(c, t)) /\ GetTable(WithTable(c, t)) = t
<1> DEFINE d == WithTable(c, t)
<1>1. /\ DOMAIN d = DOMAIN c /\ d.nTable = c.nTable /\ d.ValidKeywords = c.ValidKeywords /\ d.stray = c.stray
      /\ d.Tab = [c.Tab EXCEPT ![c.nTable] = t]
  BY DEF WithTable, ContainerOK
<1>2. IsSeq(c.Tab) /\ c.nTable \in DOMAIN c.Tab
  BY DEF ContainerOK
<1>3. IsSeq(d.Tab) /\ DOMAIN d.Tab = DOMAIN c.Tab
  BY <1>1, <1>2, Replaced
<1>4. \A j \in DOMAIN d.Tab : TableOK(d.Tab[j])
  BY <1>1, <1>2, <1>3 DEF ContainerOK
<1> QED  BY <1>1, <1>2, <1>3, <1>4 DEF ContainerOK, GetTable

LEMMA CurrentTable ==
    ASSUME NEW c, ContainerOK(c)
    PROVE  TableOK(GetTable(c))
BY DEF ContainerOK, GetTable

LEMMA satoiIsNat == ASSUME NEW v PROVE satoi(v) \in Nat
<1>1. \A k \in Number(v) : k \in Nat
  BY TableAssumption DEF Number
<1> QED  BY <1>1 DEF satoi

LEMMA NumberOfFields ==
    ASSUME NEW c
    PROVE  /\ \A Key : NumberOf(c, Key) \in Nat
           /\ HasFields(GetTable(c).HeaderList) => NumberOf(c, "NUMBER_OF_FIELDS") = Given(GetTable(c).HeaderList)
<1>1. \A Key : NumberOf(c, Key) \in Nat
  BY satoiIsNat DEF NumberOf
<1>2. ASSUME HasFields(GetTable(c).HeaderList)
      PROVE  NumberOf(c, "NUMBER_OF_FIELDS") = Given(GetTable(c).HeaderList)
  BY <1>2 DEF NumberOf, cmsIT8GetProperty, cmsIT8GetPropertyMulti, IsAvailableOnList, HasFields, Given, FIELDS
<1> QED  BY <1>1, <1>2

LEMMA SetPropertyKeeps ==
    ASSUME NEW c, ContainerOK(c), NEW Key, NEW Subkey, NEW Value, NEW WriteAs,
           Key \in Counts => Subkey = Null
    PROVE  LET d == SetProperty(c, Key, Subkey, Value, WriteAs).it8
           IN  ContainerOK(d) /\ GetTable(d).Data = GetTable(c).Data
<1> DEFINE t == GetTable(c)
           new == AddToList(t.HeaderList, Key, Subkey, Value, WriteAs)
           u == [t EXCEPT !.HeaderList = new]
           d == SetProperty(c, Key, Subkey, Value, WriteAs).it8
<1>1. CASE Duplicate(t.HeaderList, Key, Subkey)
  BY <1>1 DEF SetProperty, Fails
<1>2. CASE ~Duplicate(t.HeaderList, Key, Subkey)
  <2>1. TableOK(t)
    BY CurrentTable
  <2>2. ListOK(new) /\ SameFields(t.HeaderList, new)
    BY <1>2, <2>1, AddToListKeeps DEF TableOK
  <2>3. TableOK(u) /\ u.Data = t.Data
    <3> HIDE DEF new
    <3> QED  BY <2>1, <2>2 DEF TableOK, SameFields
  <2>4. d = WithTable(c, u)
    BY <1>2 DEF SetProperty, Done
  <2>5. ContainerOK(WithTable(c, u)) /\ GetTable(WithTable(c, u)) = u
    <3> HIDE DEF u
    <3> QED  BY <2>3, PutTable
  <2> HIDE DEF u
  <2> QED  BY <2>3, <2>4, <2>5
<1> QED  BY <1>1, <1>2

\* The pairs of a property that is read (AddPair).
LEMMA AddPairKeeps ==
    ASSUME NEW c, ContainerOK(c), NEW Key, Key \notin Counts, NEW Subkey, NEW Value
    PROVE  LET d == WithTable(c, [GetTable(c) EXCEPT !.HeaderList = AddToList(@, Key, Subkey, Value, "PAIR")])
           IN  ContainerOK(d) /\ GetTable(d).Data = GetTable(c).Data
<1>1. ~Duplicate(GetTable(c).HeaderList, Key, Subkey)
  BY DEF Duplicate
<1>2. SetProperty(c, Key, Subkey, Value, "PAIR").it8
        = WithTable(c, [GetTable(c) EXCEPT !.HeaderList = AddToList(@, Key, Subkey, Value, "PAIR")])
  BY <1>1 DEF SetProperty, Done
<1> QED  BY <1>2, SetPropertyKeeps

\* A count that is more than none is there.
LEMMA FieldsAreGiven ==
    ASSUME NEW c, NumberOf(c, "NUMBER_OF_FIELDS") # 0
    PROVE  HasFields(GetTable(c).HeaderList)
BY DEF NumberOf, cmsIT8GetProperty, cmsIT8GetPropertyMulti, IsAvailableOnList, HasFields, FIELDS, satoi

\* The names are as many as the header says, and there are no cells yet.
LEMMA AllocateDataFormatKeeps ==
    ASSUME NEW c, ContainerOK(c), GetTable(c).DataFormat # NoArray \/ GetTable(c).Data = NoArray
    PROVE  LET a == AllocateDataFormat(c)
           IN  /\ ContainerOK(a.it8) /\ GetTable(a.it8).Data = GetTable(c).Data
               /\ a.ok => GetTable(a.it8).DataFormat # NoArray
<1> DEFINE nSamples == NumberOf(c, "NUMBER_OF_FIELDS")
           t == [GetTable(c) EXCEPT !.nSamples = nSamples]
           u == [t EXCEPT !.DataFormat = [k \in 1..nSamples + 1 |-> Null]]
<1>1. TableOK(GetTable(c)) /\ nSamples \in Nat
  BY CurrentTable, NumberOfFields
<1>2. CASE GetTable(c).DataFormat # NoArray
  BY <1>2 DEF AllocateDataFormat, Done
<1>3. CASE GetTable(c).DataFormat = NoArray /\ nSamples \notin 1..MaxFields
  <2>1. TableOK(t) /\ t.Data = GetTable(c).Data
    BY <1>1, <1>3 DEF TableOK
  <2>2. ContainerOK(WithTable(c, t)) /\ GetTable(WithTable(c, t)) = t
    <3> HIDE DEF t
    <3> QED  BY <2>1, PutTable
  <2>3. AllocateDataFormat(c) = Fails(WithTable(c, t))
    BY <1>3 DEF AllocateDataFormat
  <2> HIDE DEF t
  <2> QED  BY <2>1, <2>2, <2>3 DEF Fails
<1>4. CASE GetTable(c).DataFormat = NoArray /\ nSamples \in 1..MaxFields
  <2>1. HasFields(GetTable(c).HeaderList) /\ nSamples = Given(GetTable(c).HeaderList)
    BY <1>4, NumberOfFields, FieldsAreGiven
  <2>2. u.DataFormat # NoArray
    <3>1. 1 \in DOMAIN u.DataFormat
      BY <1>1 DEF TableOK
    <3> QED  BY <3>1 DEF NoArray
  <2>3. TableOK(u) /\ u.Data = GetTable(c).Data
    BY <1>1, <1>4, <2>1 DEF TableOK
  <2>4. ContainerOK(WithTable(c, u)) /\ GetTable(WithTable(c, u)) = u
    <3> HIDE DEF u
    <3> QED  BY <2>3, PutTable
  <2>5. AllocateDataFormat(c) = Done(WithTable(c, u))
    BY <1>4 DEF AllocateDataFormat
  <2> HIDE DEF u
  <2> QED  BY <2>2, <2>3, <2>4, <2>5 DEF Done
<1> HIDE DEF nSamples
<1> QED  BY <1>2, <1>3, <1>4

LEMMA SetDataFormatKeeps ==
    ASSUME NEW c, ContainerOK(c), NEW n, NEW label, GetTable(c).DataFormat # NoArray \/ GetTable(c).Data = NoArray
    PROVE  LET d == SetDataFormat(c, n, label).it8
           IN  ContainerOK(d) /\ GetTable(d).Data = GetTable(c).Data
<1> DEFINE a == AllocateDataFormat(c)
           t == GetTable(a.it8)
           u == [t EXCEPT !.DataFormat[n + 1] = label]
<1>1. ContainerOK(a.it8) /\ t.Data = GetTable(c).Data /\ (a.ok => t.DataFormat # NoArray)
  BY AllocateDataFormatKeeps
<1>2. TableOK(t)
  BY <1>1, CurrentTable
<1>3. CASE ~a.ok
  BY <1>1, <1>3 DEF SetDataFormat, SetLabel
<1>4. CASE a.ok /\ n \notin 0..t.nSamples - 1
  BY <1>1, <1>4 DEF SetDataFormat, SetLabel, Fails
<1>5. CASE a.ok /\ n \in 0..t.nSamples - 1
  <2>1. n + 1 \in DOMAIN t.DataFormat
    BY <1>1, <1>2, <1>5 DEF TableOK
  <2>2. TableOK(u) /\ u.Data = t.Data
    BY <1>1, <1>2, <1>5 DEF TableOK
  <2>3. SetDataFormat(c, n, label) = Done(WithTable(a.it8, u))
    BY <1>5, <2>1 DEF SetDataFormat, SetLabel
  <2>4. ContainerOK(WithTable(a.it8, u)) /\ GetTable(WithTable(a.it8, u)) = u
    <3> HIDE DEF u, t, a
    <3> QED  BY <1>1, <2>2, PutTable
  <2> HIDE DEF u
  <2> QED  BY <1>1, <2>2, <2>3, <2>4 DEF Done
<1> HIDE DEF a
<1> QED  BY <1>3, <1>4, <1>5

\* The cells are as many as the header says, and one row and one column more.
LEMMA AllocateDataSetKeeps ==
    ASSUME NEW c, ContainerOK(c)
    PROVE  LET a == AllocateDataSet(c)
           IN  ContainerOK(a.it8) /\ (a.ok => GetTable(a.it8).Data # NoArray)
<1> DEFINE nSamples == NumberOf(c, "NUMBER_OF_FIELDS")
           nPatches == NumberOf(c, "NUMBER_OF_SETS")
           t == [GetTable(c) EXCEPT !.nSamples = nSamples, !.nPatches = nPatches]
           cells == [k \in 1..(t.nSamples + 1) * (t.nPatches + 1) |-> Null]
           u == [t EXCEPT !.Data = cells]
<1>1. TableOK(GetTable(c)) /\ nSamples \in Nat /\ nPatches \in Nat
  BY CurrentTable, NumberOfFields
<1>2. CASE GetTable(c).Data # NoArray
  BY <1>2 DEF AllocateDataSet, Sized, Done
<1>3. CASE GetTable(c).Data = NoArray
  <2>1. GetTable(c).DataFormat # NoArray => nSamples = GetTable(c).nSamples
    BY <1>1, NumberOfFields DEF TableOK
  <2> HIDE DEF nSamples, nPatches
  <2>2. t.nSamples = nSamples /\ t.nPatches = nPatches /\ DOMAIN t = DOMAIN GetTable(c) /\ t.Data = NoArray
    BY <1>1, <1>3 DEF TableOK
  <2>3. TableOK(t)
    BY <1>1, <1>3, <2>1 DEF TableOK
  <2>4. CASE TooMuch(t.nSamples, t.nPatches)
    <3>1. AllocateDataSet(c) = Fails(WithTable(c, t))
      BY <1>3, <2>4 DEF AllocateDataSet, Sized, nSamples, nPatches
    <3> HIDE DEF t
    <3> QED  BY <3>1, <2>3, PutTable DEF Fails
  <2>5. CASE ~TooMuch(t.nSamples, t.nPatches)
    <3>1. AllocateDataSet(c) = Done(WithTable(c, u))
      BY <1>3, <2>5 DEF AllocateDataSet, Sized, nSamples, nPatches
    <3>2. DOMAIN cells = 1..(t.nSamples + 1) * (t.nPatches + 1)
      OBVIOUS
    <3>3. TableOK(u) /\ u.Data = cells
      <4> HIDE DEF t, cells
      <4> QED  BY <2>2, <2>3, <3>2 DEF TableOK
    <3>4. cells # NoArray
      <4>1. 1 \in DOMAIN cells
        <5>1. \A a, b \in Nat : 1 \in 1..(a + 1) * (b + 1)
          OBVIOUS
        <5> QED  BY <1>1, <2>2, <3>2, <5>1
      <4> QED  BY <4>1 DEF NoArray
    <3> HIDE DEF u, cells
    <3> QED  BY <3>1, <3>3, <3>4, PutTable DEF Done
  <2> QED  BY <2>4, <2>5
<1> QED  BY <1>2, <1>3

\* A cell of a row and a column that are counted, or of the next ones, is in the array.
LEMMA CellIsThere ==
    ASSUME NEW nSamples \in Nat, NEW nPatches \in Nat
    PROVE  /\ \A nSet \in 0..nPatches, nField \in 0..nSamples :
                 nSet * nSamples + nField + 1 \in 1..(nSamples + 1) * (nPatches + 1)
           /\ 1..nPatches * nSamples \subseteq 1..(nSamples + 1) * (nPatches + 1)
<1>1. ASSUME NEW nSet \in 0..nPatches, NEW nField \in 0..nSamples
      PROVE  nSet * nSamples + nField + 1 \in 1..(nSamples + 1) * (nPatches + 1)
  <2>1. PICK rest \in Nat : nPatches = nSet + rest
    <3>1. nPatches - nSet \in Nat /\ nPatches = nSet + (nPatches - nSet)
      OBVIOUS
    <3> QED  BY <3>1
  <2>2. (nSamples + 1) * (nPatches + 1) = nSet * nSamples + rest * nSamples + nSamples + nPatches + 1
    BY <2>1
  <2>3. nSet * nSamples \in Nat /\ rest * nSamples \in Nat
    BY <2>1
  <2> QED  BY <2>1, <2>2, <2>3
<1>2. (nSamples + 1) * (nPatches + 1) = nPatches * nSamples + nSamples + nPatches + 1
  OBVIOUS
<1>3. nPatches * nSamples \in Nat
  OBVIOUS
<1> QED  BY <1>1, <1>2, <1>3

LEMMA SetDataKeeps ==
    ASSUME NEW c, ContainerOK(c), NEW nSet, NEW nField, NEW Val
    PROVE  ContainerOK(SetData(c, nSet, nField, Val).it8)
<1> DEFINE a == AllocateDataSet(c)
           t == GetTable(a.it8)
           cell == nSet * t.nSamples + nField + 1
           u == [t EXCEPT !.Data[cell] = Val]
<1>1. ContainerOK(a.it8) /\ (a.ok => t.Data # NoArray)
  BY AllocateDataSetKeeps
<1>2. TableOK(t)
  BY <1>1, CurrentTable
<1>3. CASE ~a.ok
  BY <1>1, <1>3 DEF SetData
<1>4. CASE a.ok /\ (nSet \notin 0..t.nPatches \/ nField \notin 0..t.nSamples)
  BY <1>1, <1>4 DEF SetData, SetCell, Fails
<1>5. CASE a.ok /\ nSet \in 0..t.nPatches /\ nField \in 0..t.nSamples
  <2>1. cell \in DOMAIN t.Data
    BY <1>1, <1>2, <1>5, CellIsThere DEF TableOK
  <2>2. SetData(c, nSet, nField, Val) = Done(WithTable(a.it8, u))
    BY <1>5, <2>1 DEF SetData, SetCell
  <2>3. TableOK(u)
    <3> HIDE DEF cell, t
    <3> QED  BY <1>1, <1>2, <1>5 DEF TableOK
  <2> HIDE DEF u, a
  <2> QED  BY <1>1, <2>2, <2>3, PutTable DEF Done
<1> HIDE DEF a
<1> QED  BY <1>3, <1>4, <1>5

\* Cooking gives other labels and finds the names; no array becomes longer or shorter.
LEMMA CookTableKeeps ==
    ASSUME NEW c, NEW t, TableOK(t)
    PROVE  TableOK(CookTable(c, t))
<1> DEFINE labels == LabelCells(t)
           cells == [k \in DOMAIN t.Data |-> IF k \in labels THEN CookLabel(c, t.Data[k]) ELSE t.Data[k]]
           u == CookTable(c, t)
<1>1. PICK id : u = [t EXCEPT !.SampleID = id, !.Data = cells]
  BY DEF CookTable
<1>2. DOMAIN cells = DOMAIN t.Data
  OBVIOUS
<1>3. t.Data = NoArray => cells = NoArray
  BY DEF NoArray
<1> HIDE DEF cells, u
<1>4. /\ DOMAIN u = DOMAIN t /\ u.nSamples = t.nSamples /\ u.nPatches = t.nPatches
      /\ u.HeaderList = t.HeaderList /\ u.DataFormat = t.DataFormat /\ u.Data = cells
  BY <1>1 DEF TableOK
<1>5. TableOK(u)
  BY <1>2, <1>3, <1>4 DEF TableOK
<1> QED  BY <1>5 DEF u

\* The cells of labels are in the array.
LEMMA LabelCellsAreThere ==
    ASSUME NEW t, TableOK(t)
    PROVE  LabelCells(t) \subseteq DOMAIN t.Data
<1>1. \A k \in LabelCells(t) : k \in 1..t.nPatches * t.nSamples /\ t.Data # NoArray
  BY DEF LabelCells
<1> QED  BY <1>1, CellIsThere DEF TableOK

LEMMA CookPointersKeeps ==
    ASSUME NEW c, ContainerOK(c)
    PROVE  /\ ContainerOK(CookPointers(c))
           /\ DOMAIN CookPointers(c).Tab = DOMAIN c.Tab
<1> DEFINE stop == Min(Unnamed(c) \cup {TablesCount(c) + 1})
           cooked(j) == CASE j < stop -> CookTable(c, c.Tab[j])
                          [] j = stop -> [c.Tab[j] EXCEPT !.SampleID = 0]
                          [] OTHER -> c.Tab[j]
           d == CookPointers(c)
<1>1. IsSeq(c.Tab) /\ Len(c.Tab) \in Nat /\ DOMAIN c.Tab = 1..Len(c.Tab)
  BY Sequence DEF ContainerOK
<1>2. stop \in 1..Len(c.Tab) + 1
  <2> DEFINE stops == Unnamed(c) \cup {TablesCount(c) + 1}
  <2>1. stops \in SUBSET (1..Len(c.Tab) + 1) /\ stops # {} /\ stops \in SUBSET Nat
    BY <1>1 DEF Unnamed, TablesCount
  <2>2. stop = Min(stops)
    OBVIOUS
  <2> HIDE DEF stops, stop
  <2> QED  BY <2>1, <2>2, FirstOfSet
<1>3. /\ d.Tab = [j \in DOMAIN c.Tab |-> cooked(j)]
      /\ d.nTable = IF stop > TablesCount(c) THEN c.nTable ELSE stop
      /\ d.stray = (c.stray \/ \E j \in 1..stop - 1 : ~(LabelCells(c.Tab[j]) \subseteq DOMAIN c.Tab[j].Data))
      /\ DOMAIN d = DOMAIN c /\ d.ValidKeywords = c.ValidKeywords
  BY DEF CookPointers, ContainerOK
<1> HIDE DEF d, stop
<1>4. \A j \in DOMAIN c.Tab : TableOK(cooked(j))
  <2> SUFFICES ASSUME NEW j \in DOMAIN c.Tab PROVE TableOK(cooked(j))
    OBVIOUS
  <2>1. TableOK(c.Tab[j])
    BY DEF ContainerOK
  <2>2. TableOK([c.Tab[j] EXCEPT !.SampleID = 0])
    BY <2>1 DEF TableOK
  <2>3. TableOK(CookTable(c, c.Tab[j]))
    BY <2>1, CookTableKeeps
  <2> QED  BY <2>1, <2>2, <2>3
<1>5. IsSeq(d.Tab) /\ DOMAIN d.Tab = DOMAIN c.Tab
  <2> HIDE DEF cooked
  <2> QED  BY <1>1, <1>3, Replaced
<1>6. \A j \in DOMAIN d.Tab : TableOK(d.Tab[j])
  <2> HIDE DEF cooked
  <2> QED  BY <1>3, <1>4, <1>5
<1>7. d.stray = FALSE
  <2>1. \A j \in 1..stop - 1 : LabelCells(c.Tab[j]) \subseteq DOMAIN c.Tab[j].Data
    BY <1>1, <1>2, LabelCellsAreThere DEF ContainerOK
  <2>2. c.stray = FALSE
    BY DEF ContainerOK
  <2> QED  BY <1>3, <2>1, <2>2
<1>8. d.nTable \in DOMAIN d.Tab
  BY <1>1, <1>2, <1>3, <1>5 DEF TablesCount, ContainerOK
<1> QED  BY <1>3, <1>5, <1>6, <1>7, <1>8 DEF ContainerOK, d

\* Values by name, when the columns have names (cmsIT8SetData).
LEMMA cmsIT8SetDataKeeps ==
    ASSUME NEW c, ContainerOK(c), GetTable(c).DataFormat # NoArray, NEW Patch, NEW Sample, NEW Val
    PROVE  ContainerOK(cmsIT8SetData(c, Patch, Sample, Val).it8)
<1> DEFINE a == AllocateDataFormat(c)
           b == IF a.ok THEN AllocateDataSet(a.it8) ELSE a
           r == Ready(c)
<1>1. ContainerOK(b.it8)
  BY AllocateDataFormatKeeps, AllocateDataSetKeeps
<1>2. ContainerOK(CookPointers(b.it8))
  <2> HIDE DEF b
  <2> QED  BY <1>1, CookPointersKeeps
<1>3. r = Done(c) \/ r = b \/ r = Done(CookPointers(b.it8))
  BY DEF Ready
<1>4. ContainerOK(r.it8)
  <2> HIDE DEF b, r
  <2> QED  BY <1>1, <1>2, <1>3 DEF Done
<1>5. \/ cmsIT8SetData(c, Patch, Sample, Val) = Fails(c)
      \/ cmsIT8SetData(c, Patch, Sample, Val) = Fails(r.it8)
      \/ \E iSet, iField : cmsIT8SetData(c, Patch, Sample, Val) = SetData(r.it8, iSet, iField, Val)
  BY DEF cmsIT8SetData
<1> HIDE DEF r
<1> QED  BY <1>4, <1>5, SetDataKeeps DEF Fails

LEMMA EmptySequence == IsSeq(<<>>) /\ DOMAIN (<<>>) = {}
BY DEF IsSeq

LEMMA NewTableIsOK == TableOK(NewTable) /\ NewTable.Data = NoArray
BY EmptySequence DEF NewTable, TableOK, ListOK, NoArray

\* Tables are added at the end.
LEMMA AllocTableKeeps ==
    ASSUME NEW c, ContainerOK(c)
    PROVE  LET d == AllocTable(c)
           IN  /\ ContainerOK(d.it8) /\ d.it8.nTable = c.nTable
               /\ ~d.ok => d.it8 = c
               /\ d.ok => /\ TablesCount(d.it8) = TablesCount(c) + 1
                          /\ GetTable([d.it8 EXCEPT !.nTable = TablesCount(d.it8)]) = NewTable
<1> DEFINE e == [c EXCEPT !.Tab = Append(@, NewTable)]
<1>1. IsSeq(c.Tab) /\ Len(c.Tab) \in Nat /\ DOMAIN c.Tab = 1..Len(c.Tab)
  BY Sequence DEF ContainerOK
<1>2. /\ IsSeq(e.Tab) /\ DOMAIN e.Tab = 1..Len(c.Tab) + 1
      /\ \A k \in DOMAIN c.Tab : e.Tab[k] = c.Tab[k]
      /\ e.Tab[Len(c.Tab) + 1] = NewTable
  BY <1>1, Extended DEF ContainerOK
<1>3. TableOK(NewTable)
  BY NewTableIsOK
<1>4. \A j \in DOMAIN e.Tab : TableOK(e.Tab[j])
  <2> SUFFICES ASSUME NEW j \in DOMAIN e.Tab PROVE TableOK(e.Tab[j])
    OBVIOUS
  <2>1. CASE j \in DOMAIN c.Tab
    BY <2>1, <1>2 DEF ContainerOK
  <2>2. CASE j \notin DOMAIN c.Tab
    BY <2>2, <1>1, <1>2, <1>3
  <2> QED  BY <2>1, <2>2
<1>5. DOMAIN e = DOMAIN c /\ e.nTable = c.nTable /\ e.ValidKeywords = c.ValidKeywords /\ e.stray = c.stray
  BY DEF ContainerOK
<1>6. ContainerOK(e)
  <2> HIDE DEF e
  <2> QED  BY <1>1, <1>2, <1>4, <1>5 DEF ContainerOK
<1>7. Len(e.Tab) = Len(c.Tab) + 1
  <2> HIDE DEF e
  <2> QED  BY <1>1, <1>2, Sequence
<1>8. GetTable([e EXCEPT !.nTable = TablesCount(e)]) = NewTable
  <2> HIDE DEF e
  <2> QED  BY <1>2, <1>5, <1>7 DEF GetTable, TablesCount, ContainerOK
<1> HIDE DEF e
<1> QED  BY <1>5, <1>6, <1>7, <1>8 DEF AllocTable, Done, Fails, TablesCount, e

LEMMA AnyTable ==
    ASSUME NEW c, ContainerOK(c), NEW n \in DOMAIN c.Tab
    PROVE  ContainerOK([c EXCEPT !.nTable = n])
BY DEF ContainerOK

LEMMA cmsIT8SetTableKeeps ==
    ASSUME NEW c, ContainerOK(c), NEW n \in Nat \ {0}
    PROVE  ContainerOK(cmsIT8SetTable(c, n).it8)
<1> DEFINE d == IF n = TablesCount(c) + 1 THEN AllocTable(c).it8 ELSE c
           e == [d EXCEPT !.nTable = n]
<1>1. ContainerOK(d)
  BY AllocTableKeeps
<1>2. CASE n > TablesCount(d)
  BY <1>1, <1>2 DEF cmsIT8SetTable, Fails
<1>3. CASE ~(n > TablesCount(d))
  <2>1. cmsIT8SetTable(c, n) = Done(e)
    BY <1>3 DEF cmsIT8SetTable
  <2>2. Len(d.Tab) \in Nat /\ DOMAIN d.Tab = 1..Len(d.Tab)
    <3> HIDE DEF d
    <3> QED  BY <1>1, Sequence DEF ContainerOK
  <2>3. ContainerOK(e)
    <3>1. n \in DOMAIN d.Tab
      <4> HIDE DEF d
      <4> QED  BY <1>3, <2>2 DEF TablesCount
    <3> HIDE DEF d
    <3> QED  BY <1>1, <3>1, AnyTable
  <2> HIDE DEF e
  <2> QED  BY <2>1, <2>3 DEF Done
<1> QED  BY <1>2, <1>3

\* A label may lead to any table.
LEMMA cmsIT8SetTableByLabelKeeps ==
    ASSUME NEW c, ContainerOK(c), NEW Set, NEW cField, NEW ExpectedType
    PROVE  ContainerOK(cmsIT8SetTableByLabel(c, Set, cField, ExpectedType).it8)
<1>1. \/ cmsIT8SetTableByLabel(c, Set, cField, ExpectedType) = Fails(c)
      \/ \E v : cmsIT8SetTableByLabel(c, Set, cField, ExpectedType) = cmsIT8SetTable(c, satoi(v) + 1)
  BY DEF cmsIT8SetTableByLabel
<1>2. \A v : satoi(v) + 1 \in Nat \ {0}
  BY satoiIsNat
<1> QED  BY <1>1, <1>2, cmsIT8SetTableKeeps DEF Fails

LEMMA cmsIT8SetSheetTypeKeeps ==
    ASSUME NEW c, ContainerOK(c), NEW Type
    PROVE  LET d == cmsIT8SetSheetType(c, Type).it8
           IN  ContainerOK(d) /\ GetTable(d).Data = GetTable(c).Data
<1> DEFINE u == [GetTable(c) EXCEPT !.SheetType = Type]
<1>1. TableOK(u) /\ u.Data = GetTable(c).Data
  BY CurrentTable DEF TableOK
<1>2. cmsIT8SetSheetType(c, Type).it8 = WithTable(c, u)
  BY DEF cmsIT8SetSheetType, Done
<1> HIDE DEF u
<1> QED  BY <1>1, <1>2, PutTable

LEMMA cmsIT8SetIndexColumnKeeps ==
    ASSUME NEW c, ContainerOK(c), NEW Sample
    PROVE  ContainerOK(cmsIT8SetIndexColumn(c, Sample).it8)
<1> DEFINE u == [GetTable(c) EXCEPT !.SampleID = LocateSample(c, Sample)]
<1>1. TableOK(u)
  BY CurrentTable DEF TableOK
<1>2. cmsIT8SetIndexColumn(c, Sample).it8 \in {c, WithTable(c, u)}
  BY DEF cmsIT8SetIndexColumn, Done, Fails
<1> HIDE DEF u
<1> QED  BY <1>1, <1>2, PutTable

\* Saving looks at the tables, and learns the keywords of their headers.
LEMMA cmsIT8SaveToFileKeeps ==
    ASSUME NEW c, ContainerOK(c)
    PROVE  ContainerOK(cmsIT8SaveToFile(c).it8)
<1> DEFINE bare == {k \in DOMAIN c.Tab : c.Tab[k].Data = NoArray \/ c.Tab[k].DataFormat = NoArray}
           d == cmsIT8SaveToFile(c).it8
<1>1. Len(c.Tab) \in Nat /\ DOMAIN c.Tab = 1..Len(c.Tab)
  BY Sequence DEF ContainerOK
<1>2. bare # {} => Min(bare) \in DOMAIN c.Tab
  <2>1. bare \in SUBSET Nat /\ bare \subseteq DOMAIN c.Tab
    BY <1>1
  <2> HIDE DEF bare
  <2> QED  BY <2>1, FirstOfSet
<1>3. ASSUME NEW e, e = c \/ \E k : e = FirstTables(c, k)
      PROVE  /\ DOMAIN NowKnown(e) = DOMAIN c /\ NowKnown(e).Tab = e.Tab /\ NowKnown(e).nTable = c.nTable
             /\ NowKnown(e).stray = c.stray
             /\ \A Key \in DOMAIN NowKnown(e).ValidKeywords :
                   NowKnown(e).ValidKeywords[Key] = "PAIR" => Key \notin Counts
  <2>1. DOMAIN e = DOMAIN c /\ e.nTable = c.nTable /\ e.stray = c.stray /\ e.ValidKeywords = c.ValidKeywords
    BY <1>3 DEF FirstTables, ContainerOK
  <2> DEFINE keys == {p.Keyword : p \in UNION {ToSet(t.HeaderList) : t \in ToSet(e.Tab)}} \ {Comment}
             known == [k \in DOMAIN e.ValidKeywords \cup keys |->
                         IF k \in DOMAIN e.ValidKeywords THEN e.ValidKeywords[k] ELSE "UNCOOKED"]
  <2>2. NowKnown(e) = [e EXCEPT !.ValidKeywords = known]
    BY DEF NowKnown
  <2>3. \A Key \in DOMAIN known : known[Key] = "PAIR" => Key \notin Counts
    <3> HIDE DEF keys
    <3> QED  BY <2>1 DEF ContainerOK
  <2> HIDE DEF known
  <2> QED  BY <2>1, <2>2, <2>3 DEF ContainerOK
<1>4. CASE bare = {}
  <2>1. d = [NowKnown(c) EXCEPT !.nTable = TablesCount(c)]
    BY <1>4 DEF cmsIT8SaveToFile, cmsIT8SaveToMem, Done
  <2>2. TablesCount(c) \in DOMAIN c.Tab
    BY <1>1 DEF TablesCount, ContainerOK
  <2> HIDE DEF d
  <2>3. ContainerOK(d)
    BY <1>3, <2>1, <2>2 DEF ContainerOK
  <2> QED  BY <2>3 DEF d
<1>5. CASE bare # {}
  <2> DEFINE k == Min(bare)
  <2>1. d = [NowKnown(FirstTables(c, k - 1)) EXCEPT !.Tab = c.Tab, !.nTable = k]
    BY <1>5 DEF cmsIT8SaveToFile, Fails
  <2>2. k \in DOMAIN c.Tab
    BY <1>2, <1>5
  <2> HIDE DEF d, k
  <2>3. ContainerOK(d)
    BY <1>3, <2>1, <2>2 DEF ContainerOK
  <2> QED  BY <2>3 DEF d
<1> QED  BY <1>4, <1>5

LEMMA cmsIT8AllocIsOK == ContainerOK(cmsIT8Alloc) /\ GetTable(cmsIT8Alloc).Data = NoArray
<1> DEFINE t == [NewTable EXCEPT !.SheetType = <<"CGATS.17">>]
           c == cmsIT8Alloc
<1>1. TableOK(t) /\ t.Data = NoArray
  BY EmptySequence DEF NewTable, TableOK, ListOK, NoArray
<1>2. c.Tab = <<t>> /\ c.nTable = 1 /\ c.ValidKeywords = PredefinedProperties /\ c.stray = FALSE
      /\ DOMAIN c = {"Tab", "nTable", "ValidKeywords", "stray"}
  BY DEF cmsIT8Alloc
<1> HIDE DEF t, c
<1>3. IsSeq(c.Tab) /\ DOMAIN c.Tab = {1} /\ c.Tab[1] = t
  BY <1>2 DEF IsSeq, ToSet
<1>4. \A Key \in DOMAIN c.ValidKeywords : c.ValidKeywords[Key] = "PAIR" => Key \notin Counts
  BY <1>2 DEF PredefinedProperties
<1> QED  BY <1>1, <1>2, <1>3, <1>4 DEF ContainerOK, GetTable, c

(***************************************************************************)
(* What a program does keeps its container.                                *)
(***************************************************************************)
LEMMA PerformKeeps ==
    ASSUME NEW c, ContainerOK(c), NEW x, Allowed(c, x), x.op = "Table" => x.n \in Nat \ {0}
    PROVE  ContainerOK(Perform(c, x).it8)
<1> DEFINE d == Perform(c, x).it8
<1>1. CASE x.op = "Table"
  BY <1>1, cmsIT8SetTableKeeps DEF Perform
<1>2. CASE x.op = "TableByLabel"
  BY <1>2, cmsIT8SetTableByLabelKeeps DEF Perform
<1>3. CASE x.op = "SheetType"
  BY <1>3, cmsIT8SetSheetTypeKeeps DEF Perform
<1>4. CASE x.op = "Multi"
  <2>1. x.key \notin Counts
    BY <1>4 DEF Allowed
  <2>2. d = SetProperty(c, x.key, x.sub, x.val, "PAIR").it8
    BY <1>4 DEF Perform, cmsIT8SetPropertyMulti
  <2> QED  BY <2>1, <2>2, SetPropertyKeeps
<1>5. CASE x.op \in {"Comment", "Str", "Uncooked", "Hex", "Dbl"}
  <2>1. d = c \/ \E Key, Value, WriteAs : d = SetProperty(c, Key, Null, Value, WriteAs).it8
    BY <1>5 DEF Perform, cmsIT8SetComment, cmsIT8SetPropertyStr, cmsIT8SetPropertyUncooked,
                cmsIT8SetPropertyHex, cmsIT8SetPropertyDbl, Fails
  <2> QED  BY <2>1, SetPropertyKeeps
<1>6. CASE x.op = "Column"
  <2>1. GetTable(c).DataFormat # NoArray \/ GetTable(c).Data = NoArray
    BY <1>6 DEF Allowed, Shaped
  <2>2. d = SetDataFormat(c, x.col, x.label).it8
    BY <1>6 DEF Perform
  <2> QED  BY <2>1, <2>2, SetDataFormatKeeps
<1>7. CASE x.op = "Index"
  BY <1>7, cmsIT8SetIndexColumnKeeps DEF Perform
<1>8. CASE x.op = "Data"
  <2>1. GetTable(c).DataFormat # NoArray
    BY <1>8 DEF Allowed, Shaped
  <2>2. d = cmsIT8SetData(c, x.patch, x.sample, x.val).it8
    BY <1>8 DEF Perform
  <2> QED  BY <2>1, <2>2, cmsIT8SetDataKeeps
<1>9. CASE x.op \notin {"Table", "TableByLabel", "SheetType", "Multi", "Comment", "Str", "Uncooked", "Hex", "Dbl",
                        "Column", "Index", "Data"}
  <2>1. d = SetData(c, x.row, x.col, x.val).it8
    BY <1>9 DEF Perform
  <2> QED  BY <2>1, SetDataKeeps
<1> HIDE DEF d
<1> QED  BY <1>1, <1>2, <1>3, <1>4, <1>5, <1>6, <1>7, <1>8, <1>9 DEF d

LEMMA TailCounted ==
    ASSUME NEW calls, Counted(calls), calls # <<>>
    PROVE  Counted(Tail(calls))
<1>1. calls \in Seq(ToSet(calls)) /\ DOMAIN calls = 1..Len(calls) /\ Len(calls) \in Nat
  BY DEF Counted
<1>2. /\ Tail(calls) \in Seq(ToSet(calls)) /\ DOMAIN Tail(calls) = 1..Len(calls) - 1
      /\ \A k \in 1..Len(calls) - 1 : Tail(calls)[k] = calls[k + 1] /\ k + 1 \in DOMAIN calls
  BY <1>1, HeadTailProperties
<1>3. Tail(calls) \in Seq(ToSet(Tail(calls)))
  BY <1>2, OfItsElements DEF IsSeq
<1> QED  BY <1>1, <1>2, <1>3 DEF Counted

LEMMA CallKeeps == ASSUME IInv, Call PROVE IInv'
<1>1. PICK calls \in IF made.todo # <<>> THEN {made.todo} ELSE {s \in Calls : made.calls < MaxCalls} :
        /\ made' = [made EXCEPT !.calls = IF made.todo = <<>> THEN @ + 1 ELSE @, !.todo = Tail(calls), !.fresh = FALSE]
        /\ IF Allowed(it8, Head(calls))
           THEN \E r \in {Perform(it8, Head(calls))} :
                   it8' = r.it8 /\ book' = IF r.ok THEN Keep(book, it8, Head(calls)) ELSE book
           ELSE made.todo # <<>> /\ UNCHANGED <<it8, book>>
  BY DEF Call
<1>2. Counted(calls) /\ calls # <<>>
  BY <1>1, CallsAssumption DEF IInv
<1>3. ContainerOK(it8)
  BY DEF Call, IInv
<1>4. Head(calls).op = "Table" => Head(calls).n \in Nat \ {0}
  <2>1. Head(calls) = calls[1] /\ 1 \in DOMAIN calls
    BY <1>2, HeadTailProperties DEF Counted
  <2> QED  BY <1>2, <2>1 DEF Counted
<1>5. Counted(Tail(calls))
  BY <1>2, TailCounted
<1>6. DOMAIN made' = DOMAIN made /\ made'.todo = Tail(calls)
  BY <1>1 DEF IInv
<1>7. ContainerOK(it8')
  <2>1. CASE Allowed(it8, Head(calls))
    BY <1>1, <1>3, <1>4, <2>1, PerformKeeps
  <2>2. CASE ~Allowed(it8, Head(calls))
    BY <1>1, <1>3, <2>2
  <2> QED  BY <2>1, <2>2
<1>8. it8'.stray = FALSE /\ it8'.Tab # <<>>
  BY <1>7, EmptySequence DEF ContainerOK
<1> QED  BY <1>5, <1>6, <1>7, <1>8 DEF IInv, Call

LEMMA SaveKeeps == ASSUME IInv, Save PROVE IInv'
<1>1. ContainerOK(it8) /\ it8' = cmsIT8SaveToFile(it8).it8
  BY DEF IInv, Save
<1>2. ContainerOK(it8')
  BY <1>1, cmsIT8SaveToFileKeeps
<1>3. it8'.stray = FALSE /\ it8'.Tab # <<>>
  BY <1>2, EmptySequence DEF ContainerOK
<1>4. DOMAIN made' = DOMAIN made /\ made'.todo = made.todo
  BY DEF IInv, Save
<1> QED  BY <1>2, <1>3, <1>4 DEF IInv, Save

(***************************************************************************)
(* The parser.                                                             *)
(***************************************************************************)
\* Scanning changes where the parser is in the files, and nothing that it has built.
Scanned(r, s) ==
    DOMAIN s = DOMAIN r /\ s.it8 = r.it8 /\ s.at = r.at /\ s.VarName = r.VarName

LEMMA TakeScans ==
    ASSUME NEW r, DOMAIN r = ReaderFields
    PROVE  Scanned(r, NextCh(r)) /\ Scanned(r, Take(r)) /\ Scanned(r, SynError(r))
<1>1. ASSUME NEW s, DOMAIN s = ReaderFields
      PROVE  Scanned(s, NextCh(s))
  BY <1>1 DEF NextCh, Scanned, ReaderFields
<1> DEFINE u == [r EXCEPT !.sy = Ahead(r).sy, !.text = Ahead(r).text, !.FileStack[IncludeSP(r)].read = @ + 1]
<1>2. Scanned(r, u)
  BY DEF Scanned, ReaderFields
<1>3. Take(r) = NextCh(u)
  BY DEF Take
<1>4. Scanned(r, NextCh(u))
  <2> HIDE DEF u
  <2> QED  BY <1>1, <1>2 DEF Scanned
<1>5. Scanned(r, SynError(r))
  BY DEF Scanned, SynError, ReaderFields
<1> QED  BY <1>1, <1>3, <1>4, <1>5

LEMMA ScanScans ==
    ASSUME NEW r, DOMAIN r = ReaderFields
    PROVE  Scanned(r, Scan(r))
<1>1. ASSUME NEW s, DOMAIN s = ReaderFields
      PROVE  Scanned(s, Stops(s))
  BY <1>1 DEF Stops, Scanned, ReaderFields
<1>2. ASSUME NEW s, DOMAIN s = ReaderFields
      PROVE  Scanned(s, Include(s))
  <2>1. \A file : Scanned(s, [Take(s) EXCEPT !.FileStack = Append(@, file)])
    BY <1>2, TakeScans DEF Scanned, ReaderFields
  <2>2. Scanned(s, SynError(Take(s)))
    BY <1>2, TakeScans DEF Scanned
  <2>3. \/ Include(s) \in {SynError(s), SynError(Take(s))}
        \/ \E file : Include(s) = [Take(s) EXCEPT !.FileStack = Append(@, file)]
    BY DEF Include
  <2> QED  BY <1>2, <2>1, <2>2, <2>3, TakeScans
<1>3. Scanned(r, [r EXCEPT !.sy = "SEOF", !.scan = "nothing"])
  BY DEF Scanned, ReaderFields
<1>4. Scanned(r, Include(Take(r))) /\ Scanned(r, Stops(Take(r)))
  BY <1>1, <1>2, TakeScans DEF Scanned
<1>5. Scan(r) \in {NextCh(r), [r EXCEPT !.sy = "SEOF", !.scan = "nothing"], Include(Take(r)), SynError(r), Stops(Take(r))}
  BY DEF Scan
<1> QED  BY <1>3, <1>4, <1>5, TakeScans

LEMMA ScanKeeps ==
    ASSUME NEW r, ReaderOK(r), r.scan # "nothing"
    PROVE  ReaderOK(Scan(r))
<1>1. Scanned(r, Scan(r))
  BY ScanScans DEF ReaderOK
<1> QED  BY <1>1 DEF Scanned, ReaderOK, Left, Top

LEMMA GivesUpKeeps ==
    ASSUME NEW r, ReaderOK(r)
    PROVE  ReaderOK(GivesUp(r))
BY DEF GivesUp, Section, ReaderOK, ReaderFields, Left, Top

\* A reader that goes on in the same table.
LEMMA GoesOnKeeps ==
    ASSUME NEW r, DOMAIN r = ReaderFields, NEW s, DOMAIN s = ReaderFields, ContainerOK(s.it8),
           s.at \notin {"property", "pairs"}, Top(s).Data = NoArray \/ Left(s)
    PROVE  ReaderOK(s)
BY DEF ReaderOK

\* No cells before a section that may begin a table.
LEMMA NoCellsYet ==
    ASSUME NEW r, ReaderOK(r), ~Left(r)
    PROVE  Top(r).Data = NoArray
BY DEF ReaderOK

LEMMA DataFormatSectionKeeps ==
    ASSUME NEW r, ReaderOK(r),
           \/ r.at = "parse" /\ ~Over(r)
           \/ r.at \in {"format begins", "format ends"}
           \/ r.at = "format" /\ r.sy \in FormatEnds
    PROVE  ReaderOK(DataFormatSection(r))
<1> DEFINE s == DataFormatSection(r)
<1>1. Top(r).Data = NoArray
  BY NoCellsYet DEF Left
<1>2. DOMAIN s = ReaderFields /\ s.it8 = r.it8 /\ s.at \in {"format begins", "format", "format ends", "parse"}
  BY DEF ReaderOK, ReaderFields, DataFormatSection, Section, Parsing, InSymbol, NextSymbol, CheckEOLN, SynError,
         FormatEnds, Over
<1> HIDE DEF s
<1>3. ReaderOK(s)
  BY <1>1, <1>2 DEF ReaderOK, Top
<1> QED  BY <1>3 DEF s

LEMMA SampleTypeKeeps ==
    ASSUME NEW r, ReaderOK(r), r.at = "format"
    PROVE  ReaderOK(SampleType(r, AllocateDataFormat(r.it8)))
<1> DEFINE d == SetDataFormat(r.it8, r.iField, r.text).it8
           s == NextSymbol([Filled(r, d) EXCEPT !.iField = @ + 1])
<1>1. Top(r).Data = NoArray
  BY NoCellsYet DEF Left
<1>2. ContainerOK(d) /\ GetTable(d).Data = NoArray
  BY <1>1, SetDataFormatKeeps DEF ReaderOK, Top
<1>3. DOMAIN s = ReaderFields /\ s.it8 = d /\ s.at = "format"
  <2> HIDE DEF d
  <2> QED  BY DEF ReaderOK, ReaderFields, NextSymbol, Filled
<1>4. ReaderOK(s)
  <2> HIDE DEF s, d
  <2> QED  BY <1>2, <1>3 DEF ReaderOK, Top
<1>5. SampleType(r, AllocateDataFormat(r.it8)) \in {s, GivesUp(r)}
  BY DEF SampleType, SetDataFormat
<1> QED  BY <1>4, <1>5, GivesUpKeeps

LEMMA DataSectionKeeps ==
    ASSUME NEW r, ReaderOK(r),
           \/ r.at = "parse" /\ ~Over(r)
           \/ r.at = "data begins"
           \/ r.at = "data" /\ r.sy \in DataEnds
    PROVE  ReaderOK(DataSection(r))
<1> DEFINE s == DataSection(r)
<1>1. CASE r.at \in {"parse", "data begins"}
  <2>1. Top(r).Data = NoArray
    <3>1. ~Left(r)
      BY <1>1 DEF Left
    <3> QED  BY <3>1, NoCellsYet
  <2>2. DOMAIN s = ReaderFields /\ s.it8 = r.it8 /\ s.at \in {"data begins", "data lines"}
    BY <1>1 DEF ReaderOK, ReaderFields, DataSection, Section, InSymbol, NextSymbol, CheckEOLN, SynError
  <2> HIDE DEF s
  <2>3. ReaderOK(s)
    BY <2>1, <2>2 DEF ReaderOK, Top
  <2> QED  BY <2>3 DEF s
<1>2. CASE r.at = "data"
  <2>1. DOMAIN s = ReaderFields /\ s.it8 = r.it8 /\ s.at = "data ends"
    BY <1>2 DEF ReaderOK, ReaderFields, DataSection, Section, NextSymbol, DataEnds, Over
  <2> HIDE DEF s
  <2>2. ReaderOK(s)
    BY <2>1 DEF ReaderOK, Left
  <2> QED  BY <2>2 DEF s
<1> QED  BY <1>1, <1>2

LEMMA BeginDataKeeps ==
    ASSUME NEW r, ReaderOK(r)
    PROVE  ReaderOK(BeginData(r, AllocateDataSet(r.it8)))
<1> DEFINE a == AllocateDataSet(r.it8)
           t == Section("data", [Filled(r, a.it8) EXCEPT !.iField = 0, !.iSet = 0])
<1>1. ContainerOK(a.it8)
  BY AllocateDataSetKeeps DEF ReaderOK
<1>2. BeginData(r, a) \in {t, GivesUp(r)}
  BY DEF BeginData
<1> HIDE DEF a
<1>3. DOMAIN t = ReaderFields /\ t.it8 = a.it8 /\ t.at = "data"
  BY DEF ReaderOK, ReaderFields, Section, Filled
<1> HIDE DEF t
<1>4. ReaderOK(t)
  BY <1>1, <1>3 DEF ReaderOK, Left
<1>5. ReaderOK(BeginData(r, a))
  BY <1>2, <1>4, GivesUpKeeps
<1> QED  BY <1>5 DEF a

LEMMA CellKeeps ==
    ASSUME NEW r, ReaderOK(r), r.at = "data"
    PROVE  ReaderOK(Cell(r))
<1>1. Cell(r) = GivesUp(r) \/ \E iSet, iField, Val :
        Cell(r) = NextSymbol([Filled(r, SetData(r.it8, iSet, iField, Val).it8) EXCEPT !.iField = iField + 1, !.iSet = iSet])
  BY DEF Cell
<1>2. ASSUME NEW iSet, NEW iField, NEW Val
      PROVE  ReaderOK(NextSymbol([Filled(r, SetData(r.it8, iSet, iField, Val).it8) EXCEPT !.iField = iField + 1, !.iSet = iSet]))
  <2> DEFINE d == SetData(r.it8, iSet, iField, Val).it8
             s == NextSymbol([Filled(r, d) EXCEPT !.iField = iField + 1, !.iSet = iSet])
  <2>1. ContainerOK(d)
    BY SetDataKeeps DEF ReaderOK
  <2> HIDE DEF d
  <2>2. DOMAIN s = ReaderFields /\ s.it8 = d /\ s.at = "data"
    BY DEF ReaderOK, ReaderFields, NextSymbol, Filled
  <2> HIDE DEF s
  <2>3. ReaderOK(s)
    BY <2>1, <2>2 DEF ReaderOK, Left
  <2> QED  BY <2>3 DEF s, d
<1> QED  BY <1>1, <1>2, GivesUpKeeps

\* The next table is a new one, whose type may be given (EndData).
LEMMA EndDataKeeps ==
    ASSUME NEW r, ReaderOK(r), r.at = "data ends", r.scan = "nothing"
    PROVE  ReaderOK(EndData(r))
<1> DEFINE more == AllocTable(r.it8)
           c == [more.it8 EXCEPT !.nTable = TablesCount(more.it8)]
           next == Filled(r, c)
<1>1. ASSUME Over(r)
      PROVE  ReaderOK(Parsing(r))
  BY <1>1 DEF Parsing, Section, ReaderOK, ReaderFields, Left, Over, Top
<1>2. ASSUME more.ok
      PROVE  ReaderOK(Parsing(SheetType(next)))
  <2>1. ContainerOK(more.it8) /\ GetTable(c) = NewTable
    BY <1>2, AllocTableKeeps DEF ReaderOK
  <2>2. ContainerOK(c) /\ GetTable(c).Data = NoArray
    <3>1. TablesCount(more.it8) \in DOMAIN more.it8.Tab
      <4>1. IsSeq(more.it8.Tab) /\ more.it8.nTable \in DOMAIN more.it8.Tab
        BY <2>1 DEF ContainerOK
      <4> HIDE DEF more
      <4> QED  BY <4>1, LastIsThere DEF TablesCount
    <3>2. ContainerOK(c)
      <4> HIDE DEF more
      <4> QED  BY <2>1, <3>1, AnyTable
    <3> QED  BY <2>1, <3>2, NewTableIsOK
  <2> HIDE DEF c
  <2>3. DOMAIN next = ReaderFields /\ next.it8 = c
    BY DEF ReaderOK, ReaderFields, Filled
  <2> HIDE DEF next
  <2>4. ASSUME NEW text
        PROVE  LET d == cmsIT8SetSheetType(c, text).it8
               IN  ContainerOK(d) /\ GetTable(d).Data = NoArray
    BY <2>2, cmsIT8SetSheetTypeKeeps
  <2>5. \/ SheetType(next) = next
        \/ \E text : SheetType(next) = Filled(next, cmsIT8SetSheetType(c, text).it8)
        \/ \E text : SheetType(next) = InSymbol(Filled(next, cmsIT8SetSheetType(c, text).it8))
    BY <2>3 DEF SheetType
  <2>6. ASSUME NEW d, ContainerOK(d), GetTable(d).Data = NoArray
        PROVE  ReaderOK(Parsing(Filled(next, d))) /\ ReaderOK(Parsing(InSymbol(Filled(next, d))))
    BY <2>3, <2>6 DEF ReaderOK, ReaderFields, Parsing, Section, InSymbol, Filled, Top
  <2>7. ReaderOK(Parsing(next))
    BY <2>2, <2>3 DEF ReaderOK, ReaderFields, Parsing, Section, Top
  <2> QED  BY <2>4, <2>5, <2>6, <2>7
<1>3. \/ EndData(r) = GivesUp(r)
      \/ Over(r) /\ EndData(r) = Parsing(r)
      \/ more.ok /\ EndData(r) = Parsing(SheetType(next))
  BY DEF EndData
<1> HIDE DEF more, next
<1> QED  BY <1>1, <1>2, <1>3, GivesUpKeeps

\* Keywords that become known have values that are no pairs.
LEMMA BecomesKnown ==
    ASSUME NEW c, ContainerOK(c), NEW Key
    PROVE  LET d == [c EXCEPT !.ValidKeywords = AddAvailableProperty(@, Key, "UNCOOKED")]
           IN  ContainerOK(d) /\ GetTable(d) = GetTable(c) /\ Key \in DOMAIN d.ValidKeywords
<1> DEFINE known == AddAvailableProperty(c.ValidKeywords, Key, "UNCOOKED")
           d == [c EXCEPT !.ValidKeywords = known]
<1>1. /\ DOMAIN known = DOMAIN c.ValidKeywords \cup {Key}
      /\ \A k \in DOMAIN known : known[k] = "PAIR" => k \notin Counts
  BY DEF AddAvailableProperty, ContainerOK
<1> HIDE DEF known
<1>2. DOMAIN d = DOMAIN c /\ d.ValidKeywords = known /\ d.Tab = c.Tab /\ d.nTable = c.nTable /\ d.stray = c.stray
  BY DEF ContainerOK
<1> HIDE DEF d
<1>3. ContainerOK(d) /\ GetTable(d) = GetTable(c) /\ Key \in DOMAIN d.ValidKeywords
  BY <1>1, <1>2 DEF ContainerOK, GetTable
<1> QED  BY <1>3 DEF d, known

LEMMA KeywordKeeps ==
    ASSUME NEW r, ReaderOK(r), r.at = "keyword"
    PROVE  ReaderOK(Keyword(r))
<1> DEFINE d == [r.it8 EXCEPT !.ValidKeywords = AddAvailableProperty(@, GetVal(r), "UNCOOKED")]
           s == Parsing(NextSymbol([r EXCEPT !.it8 = d]))
<1>1. Top(r).Data = NoArray
  BY NoCellsYet DEF Left
<1>2. ContainerOK(d) /\ GetTable(d) = GetTable(r.it8)
  BY BecomesKnown DEF ReaderOK
<1>3. Keyword(r) \in {s, GivesUp(r)}
  BY DEF Keyword, ReaderOK, ReaderFields
<1> HIDE DEF d
<1>4. DOMAIN s = ReaderFields /\ s.it8 = d /\ s.at = "parse"
  BY DEF ReaderOK, ReaderFields, Parsing, Section, NextSymbol
<1> HIDE DEF s
<1>5. ReaderOK(s)
  BY <1>1, <1>2, <1>4 DEF ReaderOK, Top
<1> QED  BY <1>3, <1>5, GivesUpKeeps

LEMMA IdentifierKeeps ==
    ASSUME NEW r, ReaderOK(r), r.at = "parse", ~Over(r)
    PROVE  ReaderOK(Identifier(r))
<1> DEFINE d == [r.it8 EXCEPT !.ValidKeywords = AddAvailableProperty(@, r.text, "UNCOOKED")]
           Key == [Section("property", r) EXCEPT !.VarName = r.text]
           s == InSymbol([Key EXCEPT !.it8 = d])
<1>1. Top(r).Data = NoArray
  BY NoCellsYet DEF Left
<1>2. ContainerOK(d) /\ GetTable(d) = GetTable(r.it8) /\ r.text \in DOMAIN d.ValidKeywords
  BY BecomesKnown DEF ReaderOK
<1>3. \/ r.text \in DOMAIN r.it8.ValidKeywords /\ Identifier(r) = InSymbol(Key)
      \/ Identifier(r) = s
  BY DEF Identifier, ReaderOK, ReaderFields, Section
<1> HIDE DEF d
<1>4. DOMAIN s = ReaderFields /\ s.it8 = d /\ s.at = "property" /\ s.VarName = r.text
  BY DEF ReaderOK, ReaderFields, Section, InSymbol
<1>5. LET t == InSymbol(Key)
      IN  DOMAIN t = ReaderFields /\ t.it8 = r.it8 /\ t.at = "property" /\ t.VarName = r.text
  BY DEF ReaderOK, ReaderFields, Section, InSymbol
<1> HIDE DEF s, Key
<1>6. ReaderOK(s)
  BY <1>1, <1>2, <1>4 DEF ReaderOK, Top
<1>7. r.text \in DOMAIN r.it8.ValidKeywords => ReaderOK(InSymbol(Key))
  BY <1>1, <1>5 DEF ReaderOK, Top
<1> QED  BY <1>3, <1>6, <1>7

\* A value of a count is one value, and not pairs.
LEMMA PropertyKeeps ==
    ASSUME NEW r, ReaderOK(r), r.at = "property"
    PROVE  ReaderOK(Property(r))
<1> DEFINE as == IF r.sy = "SSTRING" THEN "STRINGIFY" ELSE "UNCOOKED"
           d == SetProperty(r.it8, r.VarName, Null, GetVal(r), as).it8
           s == Parsing(NextSymbol(Filled(r, d)))
           t == Section("pairs", [r EXCEPT !.pairs = Pairs(GetVal(r))])
<1>1. Top(r).Data = NoArray
  BY NoCellsYet DEF Left
<1>2. ContainerOK(d) /\ GetTable(d).Data = NoArray
  BY <1>1, SetPropertyKeeps DEF ReaderOK, Top
<1>3. \/ r.it8.ValidKeywords[r.VarName] = "PAIR" /\ Property(r) = t
      \/ Property(r) \in {s, GivesUp(r)}
  BY DEF Property
<1>4. DOMAIN t = ReaderFields /\ t.it8 = r.it8 /\ t.at = "pairs" /\ t.VarName = r.VarName
  BY DEF ReaderOK, ReaderFields, Section
<1> HIDE DEF d, t
<1>5. DOMAIN s = ReaderFields /\ s.it8 = d /\ s.at = "parse"
  BY DEF ReaderOK, ReaderFields, Parsing, Section, NextSymbol, Filled
<1> HIDE DEF s
<1>6. ReaderOK(s)
  BY <1>2, <1>5 DEF ReaderOK, Top
<1>7. r.it8.ValidKeywords[r.VarName] = "PAIR" => ReaderOK(t)
  BY <1>1, <1>4 DEF ReaderOK, Top, ContainerOK
<1> QED  BY <1>3, <1>6, <1>7, GivesUpKeeps

LEMMA AddPairStepKeeps ==
    ASSUME NEW r, ReaderOK(r), r.at = "pairs"
    PROVE  ReaderOK(AddPair(r))
<1> DEFINE pair == Head(r.pairs)
           d == WithTable(r.it8, [Top(r) EXCEPT !.HeaderList = AddToList(@, r.VarName, pair[1], pair[2], "PAIR")])
           s == [Filled(r, d) EXCEPT !.pairs = Tail(@)]
           t == Parsing(NextSymbol(r))
<1>1. Top(r).Data = NoArray
  BY NoCellsYet DEF Left
<1>2. ContainerOK(d) /\ GetTable(d).Data = NoArray
  BY <1>1, AddPairKeeps DEF ReaderOK, Top
<1>3. AddPair(r) \in {s, t, GivesUp(r)}
  BY DEF AddPair
<1> HIDE DEF d
<1>4. DOMAIN s = ReaderFields /\ s.it8 = d /\ s.at = "pairs" /\ s.VarName = r.VarName
  BY DEF ReaderOK, ReaderFields, Filled
<1>5. DOMAIN t = ReaderFields /\ t.it8 = r.it8 /\ t.at = "parse"
  BY DEF ReaderOK, ReaderFields, Parsing, Section, NextSymbol
<1> HIDE DEF s, t
<1>6. ReaderOK(s)
  BY <1>2, <1>4 DEF ReaderOK, Top
<1>7. ReaderOK(t)
  BY <1>1, <1>5 DEF ReaderOK, Top
<1> QED  BY <1>3, <1>6, <1>7, GivesUpKeeps

(***************************************************************************)
(* The theorem.                                                            *)
(***************************************************************************)
LEMMA OpenFileIsOK == ASSUME NEW file PROVE ReaderOK(OpenFile(file))
<1> DEFINE type == IsMyBlock(file)
           r == Reader(file, type)
           t == GetTable(cmsIT8Alloc)
<1>1. DOMAIN r = ReaderFields /\ r.it8 = cmsIT8Alloc /\ r.at = "none"
  BY DEF Reader, ReaderFields
<1>2. ReaderOK(r)
  BY <1>1, cmsIT8AllocIsOK DEF ReaderOK, Top
<1>3. ASSUME NEW line
      PROVE  LET c == [cmsIT8Alloc EXCEPT !.Tab[1].SheetType = line]
             IN  ContainerOK(c) /\ GetTable(c).Data = NoArray
  <2>1. [cmsIT8Alloc EXCEPT !.Tab[1].SheetType = line] = cmsIT8SetSheetType(cmsIT8Alloc, line).it8
    BY DEF cmsIT8SetSheetType, Done, WithTable, GetTable, cmsIT8Alloc
  <2> QED  BY <2>1, cmsIT8AllocIsOK, cmsIT8SetSheetTypeKeeps
<1>4. \E line, length : ReadType(r) = [r EXCEPT !.FileStack[1].read = length, !.it8.Tab[1].SheetType = line]
  BY DEF ReadType
<1> HIDE DEF r
<1>5. \E line : LET s == ReadType(r)
                IN  DOMAIN s = ReaderFields /\ s.it8 = [cmsIT8Alloc EXCEPT !.Tab[1].SheetType = line] /\ s.at = "none"
  BY <1>1, <1>4 DEF ReaderFields
<1>6. ReaderOK(ReadType(r))
  BY <1>3, <1>5 DEF ReaderOK, Top
<1>7. ASSUME NEW s, ReaderOK(s), s.at = "none"
      PROVE  ReaderOK(Parsing(NextSymbol(s)))
  BY <1>7 DEF ReaderOK, ReaderFields, Parsing, Section, NextSymbol, Left, Top
<1>8. OpenFile(file) \in {GivesUp(r), Parsing(NextSymbol(r)), Parsing(NextSymbol(ReadType(r)))}
  BY DEF OpenFile, r
<1> QED  BY <1>1, <1>2, <1>5, <1>6, <1>7, <1>8, GivesUpKeeps

LEMMA Begins == Init => IInv
<1> SUFFICES ASSUME Init PROVE IInv
  OBVIOUS
<1>1. ReaderOK(reader)
  BY cmsIT8AllocIsOK DEF Init, Reader, ReaderOK, ReaderFields, Top
<1>2. it8.stray = FALSE /\ (it8.Tab # <<>> => ContainerOK(it8)) /\ (pc = "ready" => it8.Tab # <<>>)
  <2>1. CASE it8 = cmsIT8Alloc
    BY <2>1, cmsIT8AllocIsOK, EmptySequence DEF ContainerOK
  <2>2. CASE pc = "saved" /\ it8 = [cmsIT8Alloc EXCEPT !.Tab = <<>>]
    BY <2>2 DEF cmsIT8Alloc
  <2> QED  BY <2>1, <2>2 DEF Init
<1>3. DOMAIN made = {"todo", "calls", "saves", "fresh", "foreign"} /\ Counted(made.todo)
  <2>1. Counted(<<>>)
    BY EmptySequence DEF Counted, IsSeq
  <2>2. \E o \in Openings \cup {<<>>} : \E calls, saves, foreign :
          made = [todo |-> o, calls |-> calls, saves |-> saves, fresh |-> FALSE, foreign |-> foreign]
    BY DEF Init
  <2> QED  BY <2>1, <2>2, CallsAssumption
<1> QED  BY <1>1, <1>2, <1>3 DEF IInv

\* A step of the parser that goes on to a reader which is in order.
LEMMA GoesKeeps ==
    ASSUME IInv, NEW to, Goes(to), ReaderOK(to)
    PROVE  IInv'
<1>1. reader' = to /\ UNCHANGED <<it8, made>> /\ pc' # "ready"
  BY DEF Goes
<1> QED  BY <1>1 DEF IInv

LEMMA ScansKeeps == ASSUME IInv, Scans PROVE IInv'
BY ScanKeeps, GoesKeeps DEF Scans, IInv

LEMMA HeaderSectionKeeps == ASSUME IInv, HeaderSection PROVE IInv'
<1>0. ReaderOK(reader)
  BY DEF IInv
<1>1. ASSUME reader.at = "parse", ~Over(reader), NEW at \in {"keyword", "identifier"}
      PROVE  ReaderOK(Section(at, InSymbol(reader)))
  <2>1. Top(reader).Data = NoArray
    BY <1>0, <1>1, NoCellsYet DEF Left
  <2> QED  BY <1>0, <1>1, <2>1 DEF ReaderOK, ReaderFields, Section, InSymbol, Top
<1>2. CASE Sees("parse", {"KEYWORD"}) /\ Goes(Section("keyword", InSymbol(reader)))
  BY <1>1, <1>2, GoesKeeps DEF Sees, Over
<1>3. CASE After("keyword") /\ Goes(Keyword(reader))
  BY <1>0, <1>3, KeywordKeeps, GoesKeeps DEF After, Sees
<1>4. CASE Sees("parse", {"DATA_FORMAT_IDENTIFIER"}) /\ Goes(Section("identifier", InSymbol(reader)))
  BY <1>1, <1>4, GoesKeeps DEF Sees, Over
<1>5. CASE After("identifier") /\ Goes(DataFormatId(reader))
  <2>1. Top(reader).Data = NoArray
    BY <1>0, <1>5, NoCellsYet DEF After, Sees, Left
  <2>2. ReaderOK(Parsing(NextSymbol(reader)))
    BY <1>0, <2>1 DEF ReaderOK, ReaderFields, Parsing, Section, NextSymbol, Top
  <2>3. ReaderOK(DataFormatId(reader))
    BY <1>0, <2>2, GivesUpKeeps DEF DataFormatId
  <2> QED  BY <1>5, <2>3, GoesKeeps
<1>6. CASE Sees("parse", {"SIDENT"}) /\ Goes(Identifier(reader))
  BY <1>0, <1>6, IdentifierKeeps, GoesKeeps DEF Sees, Over
<1>7. CASE After("property") /\ Goes(Property(reader))
  BY <1>0, <1>7, PropertyKeeps, GoesKeeps DEF After, Sees
<1>8. CASE After("pairs") /\ Goes(AddPair(reader))
  BY <1>0, <1>8, AddPairStepKeeps, GoesKeeps DEF After, Sees
<1>9. CASE Sees("parse", {"SINUM", "SSTRING", "END_DATA", "END_DATA_FORMAT"}) /\ Goes(GivesUp(reader))
  BY <1>0, <1>9, GivesUpKeeps, GoesKeeps
<1> QED  BY <1>2, <1>3, <1>4, <1>5, <1>6, <1>7, <1>8, <1>9 DEF HeaderSection

LEMMA SectionsKeep == ASSUME IInv, Sections PROVE IInv'
<1>0. ReaderOK(reader)
  BY DEF IInv
<1>1. CASE Sees("parse", {"BEGIN_DATA_FORMAT"}) /\ Goes(DataFormatSection(reader))
  BY <1>0, <1>1, DataFormatSectionKeeps, GoesKeeps DEF Sees, Over
<1>2. CASE /\ After("format begins") \/ Sees("format", FormatEnds) \/ After("format ends")
           /\ Goes(DataFormatSection(reader))
  BY <1>0, <1>2, DataFormatSectionKeeps, GoesKeeps DEF After, Sees
<1>3. CASE /\ After("format") /\ reader.sy \notin FormatEnds
           /\ \E a \in {AllocateDataFormat(reader.it8)} : Goes(SampleType(reader, a))
  BY <1>0, <1>3, SampleTypeKeeps, GoesKeeps DEF After, Sees
<1>4. CASE Sees("parse", {"BEGIN_DATA"}) /\ Goes(DataSection(reader))
  BY <1>0, <1>4, DataSectionKeeps, GoesKeeps DEF Sees, Over
<1>5. CASE (After("data begins") \/ Sees("data", DataEnds)) /\ Goes(DataSection(reader))
  BY <1>0, <1>5, DataSectionKeeps, GoesKeeps DEF After, Sees
<1>6. CASE After("data") /\ reader.sy \notin DataEnds /\ Goes(Cell(reader))
  BY <1>0, <1>6, CellKeeps, GoesKeeps DEF After, Sees
<1>7. CASE After("data ends") /\ Goes(EndData(reader))
  BY <1>0, <1>7, EndDataKeeps, GoesKeeps DEF After, Sees
<1>8. CASE After("data lines") /\ \E a \in {AllocateDataSet(reader.it8)} : Goes(BeginData(reader, a))
  BY <1>0, <1>8, BeginDataKeeps, GoesKeeps
<1> QED  BY <1>1, <1>2, <1>3, <1>4, <1>5, <1>6, <1>7, <1>8 DEF Sections

LEMMA ParseIT8Keeps == ASSUME IInv, ParseIT8 PROVE IInv'
<1>0. ReaderOK(reader)
  BY DEF IInv
<1>1. CASE Sees("parse", {"SEOLN"}) /\ Goes(SkipEOLN(reader))
  <2>1. Top(reader).Data = NoArray
    BY <1>0, <1>1, NoCellsYet DEF Sees, Left, Over
  <2>2. ReaderOK(SkipEOLN(reader))
    BY <1>0, <1>1, <2>1 DEF Sees, ReaderOK, ReaderFields, SkipEOLN, NextSymbol, Top
  <2> QED  BY <1>1, <2>2, GoesKeeps
<1>2. CASE Sees("parse", {"SSYNERROR"}) /\ Goes(GivesUp(reader))
  BY <1>0, <1>2, GivesUpKeeps, GoesKeeps
<1> QED  BY <1>1, <1>2 DEF ParseIT8

LEMMA LoadedKeeps == ASSUME IInv, Loaded PROVE IInv'
<1>1. ContainerOK(CookPointers(reader.it8)) /\ it8' = [CookPointers(reader.it8) EXCEPT !.nTable = 1]
  BY CookPointersKeeps DEF IInv, ReaderOK, Loaded
<1>2. 1 \in DOMAIN CookPointers(reader.it8).Tab
  <2> DEFINE c == CookPointers(reader.it8)
  <2>1. IsSeq(c.Tab) /\ c.nTable \in DOMAIN c.Tab
    BY <1>1 DEF ContainerOK
  <2> HIDE DEF c
  <2>2. 1 \in DOMAIN c.Tab
    BY <2>1, Sequence
  <2> QED  BY <2>2 DEF c
<1>3. ContainerOK(it8')
  BY <1>1, <1>2, AnyTable
<1>4. it8'.stray = FALSE /\ it8'.Tab # <<>>
  BY <1>3, EmptySequence DEF ContainerOK
<1>5. ReaderOK(reader')
  BY cmsIT8AllocIsOK DEF Loaded, Reader, ReaderOK, ReaderFields, Top
<1>6. DOMAIN made' = DOMAIN made /\ made'.todo = made.todo
  BY DEF IInv, Loaded
<1> QED  BY <1>3, <1>4, <1>5, <1>6 DEF IInv

LEMMA Inductive == ASSUME IInv, [Next]_vars PROVE IInv'
<1>1. CASE Call
  BY <1>1, CallKeeps
<1>2. CASE Save
  BY <1>2, SaveKeeps
<1>3. CASE GoesOn
  BY <1>3 DEF IInv, GoesOn
<1>4. CASE Load
  BY <1>4, OpenFileIsOK, GoesKeeps DEF Load
<1>5. CASE Parse
  BY <1>5, ScansKeeps, HeaderSectionKeeps, SectionsKeep, ParseIT8Keeps, LoadedKeeps DEF Parse
<1>6. CASE UNCHANGED vars
  BY <1>6 DEF IInv, vars
<1> QED  BY <1>1, <1>2, <1>3, <1>4, <1>5, <1>6 DEF Next

LEMMA Implies == IInv => CellsFit
BY DEF IInv, CellsFit, ReaderOK, ContainerOK

\* No name and no cell is written outside of its array, whatever the program asks for
\* that it may ask, and whatever the file that is loaded says (SetDataFormat, SetData,
\* DataFormatSection, DataSection and CookPointers of cmscgats.c).
THEOREM CellsAreInside == Spec => []CellsFit
<1>1. Init => IInv
  BY Begins
<1>2. IInv /\ [Next]_vars => IInv'
  BY Inductive
<1>3. IInv => CellsFit
  BY Implies
<1> QED  BY <1>1, <1>2, <1>3, PTL DEF Spec
=============================================================================
