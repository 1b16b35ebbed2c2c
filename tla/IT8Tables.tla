------------------------------ MODULE IT8Tables ------------------------------
(***************************************************************************)
(* The tables of CGATS and IT8.7 files in memory (cmscgats.c): lists of    *)
(* properties, names of columns and cells, and the functions that a        *)
(* program calls on them; and those files as text.  A text is a sequence   *)
(* of words; tables are counted from 1, rows and columns from 0.           *)
(***************************************************************************)
EXTENDS Integers, Sequences, SequencesExt, TLC

CONSTANTS
    MAXTABLES,  \* one more than the tables of a container (255)
    MaxFields,  \* the largest NUMBER_OF_FIELDS and NUMBER_OF_SETS (0x7ffe)
    MaxCells    \* the largest number of cells (200000)

ASSUME TableAssumption == MAXTABLES >= 2 /\ MaxFields \in Nat \ {0}

Null == <<"NULL">>      \* no text
NoArray == <<>>         \* not allocated

(***************************************************************************)
(* Lists of keywords: each entry knows the next with another subkey.       *)
(***************************************************************************)
Counts == {<<"NUMBER_OF_FIELDS">>, <<"NUMBER_OF_SETS">>}
Comment == <<"# ">>
FindKey(list, Key) ==
    LET same == {k \in DOMAIN list : list[k].Keyword = Key /\ Key # Comment}
    IN  IF same = {} THEN 0 ELSE Min(same)
Chain(list, p) ==
    LET from[k \in 0..Len(list)] == IF k = 0 THEN {} ELSE {k} \cup from[list[k].NextSubkey]
    IN  from[p]

Entries(list, p, Subkey) ==
    LET named == {k \in DOMAIN list : k \in Chain(list, p) /\ list[k].Subkey # Null}
        same == {k \in named : list[k].Subkey = Subkey}
    IN  [found |-> IF same = {} THEN 0 ELSE Min(same), last |-> IF named = {} THEN p ELSE Max(named)]
IsAvailableOnList(list, Key, Subkey) ==
    LET p == FindKey(list, Key)
    IN  CASE p = 0 -> [found |-> 0, last |-> Len(list)]
          [] p # 0 /\ Subkey = Null -> [found |-> p, last |-> p]
          [] OTHER -> Entries(list, p, Subkey)

\* The counts are not edited.
Duplicate(list, Key, Subkey) == Key \in Counts /\ IsAvailableOnList(list, Key, Subkey).found # 0
AddToList(list, Key, Subkey, Value, WriteAs) ==
    LET there == IsAvailableOnList(list, Key, Subkey)
        longer == Append(list, [Keyword |-> Key, Subkey |-> Subkey, NextSubkey |-> 0,
                                Value |-> Value, WriteAs |-> WriteAs])
    IN  CASE there.found # 0 -> [list EXCEPT ![there.found].Value = Value, ![there.found].WriteAs = WriteAs]
          [] there.found = 0 /\ Subkey # Null /\ there.last # 0 ->
                [longer EXCEPT ![there.last].NextSubkey = Len(longer)]
          [] OTHER -> longer

(***************************************************************************)
(* Keywords that are known, and how their values are written.              *)
(***************************************************************************)
Strings == {<<k>> : k \in {"ORIGINATOR", "FILE_DESCRIPTOR", "CREATED", "DESCRIPTOR", "DIFFUSE_GEOMETRY", "MANUFACTURER",
    "MANUFACTURE", "PROD_DATE", "SERIAL", "MATERIAL", "INSTRUMENTATION", "MEASUREMENT_SOURCE", "PRINT_CONDITIONS",
    "SAMPLE_BACKING", "CHISQ_DOF", "MEASUREMENT_GEOMETRY", "FILTER", "POLARIZATION", "TARGET_TYPE", "COLORANT",
    "TABLE_DESCRIPTOR", "TABLE_NAME"}}
PairKeys == {<<"WEIGHTING_FUNCTION">>, <<"COMPUTATIONAL_PARAMETER">>}
PredefinedProperties ==
    [Key \in Counts \cup Strings \cup PairKeys |->
        IF Key \in Counts THEN "UNCOOKED" ELSE IF Key \in Strings THEN "STRINGIFY" ELSE "PAIR"]
AddAvailableProperty(known, Key, as) ==
    [k \in DOMAIN known \cup {Key} |-> IF k = Key THEN as ELSE known[k]]

(***************************************************************************)
(* Containers.                                                             *)
(***************************************************************************)
NewTable == [SheetType |-> <<>>, nSamples |-> 0, nPatches |-> 0, SampleID |-> 0,
             HeaderList |-> <<>>, DataFormat |-> NoArray, Data |-> NoArray]
cmsIT8Alloc ==
    [Tab |-> <<[NewTable EXCEPT !.SheetType = <<"CGATS.17">>]>>,
     nTable |-> 1,
     ValidKeywords |-> PredefinedProperties,
     stray |-> FALSE]   \* has a name or a cell been used outside of its array?

GetTable(c) == c.Tab[c.nTable]
WithTable(c, t) == [c EXCEPT !.Tab[c.nTable] = t]
TablesCount(c) == Len(c.Tab)

\* What a function gives: its result, and the container after it.
Done(c) == [ok |-> TRUE, it8 |-> c]
Fails(c) == [ok |-> FALSE, it8 |-> c]

AllocTable(c) == IF TablesCount(c) >= MAXTABLES - 1 THEN Fails(c) ELSE Done([c EXCEPT !.Tab = Append(@, NewTable)])
cmsIT8SetTable(c, n) ==
    LET d == IF n = TablesCount(c) + 1 THEN AllocTable(c).it8 ELSE c
    IN  IF n > TablesCount(d) THEN Fails(c) ELSE Done([d EXCEPT !.nTable = n])
cmsIT8SetSheetType(c, Type) == Done(WithTable(c, [GetTable(c) EXCEPT !.SheetType = Type]))

SetProperty(c, Key, Subkey, Value, WriteAs) ==
    LET t == GetTable(c)
    IN  IF Duplicate(t.HeaderList, Key, Subkey) THEN Fails(c)
        ELSE Done(WithTable(c, [t EXCEPT !.HeaderList = AddToList(@, Key, Subkey, Value, WriteAs)]))
cmsIT8SetComment(c, Val) == IF Val = <<>> THEN Fails(c) ELSE SetProperty(c, Comment, Null, Val, "UNCOOKED")
cmsIT8SetPropertyStr(c, Key, Val) == IF Val = <<>> THEN Fails(c) ELSE SetProperty(c, Key, Null, Val, "STRINGIFY")
cmsIT8SetPropertyUncooked(c, Key, Val) == SetProperty(c, Key, Null, Val, "UNCOOKED")
cmsIT8SetPropertyDbl(c, Key, Val) == SetProperty(c, Key, Null, <<ToString(Val)>>, "UNCOOKED")
cmsIT8SetPropertyHex(c, Key, Val) == SetProperty(c, Key, Null, <<ToString(Val)>>, "HEXADECIMAL")
cmsIT8SetPropertyMulti(c, Key, Subkey, Val) == SetProperty(c, Key, Subkey, Val, "PAIR")

cmsIT8GetPropertyMulti(c, Key, Subkey) ==
    LET list == GetTable(c).HeaderList
        p == IsAvailableOnList(list, Key, Subkey).found
    IN  IF p = 0 THEN Null ELSE list[p].Value
cmsIT8GetProperty(c, Key) == cmsIT8GetPropertyMulti(c, Key, Null)

(***************************************************************************)
(* Names of columns and cells.                                             *)
(***************************************************************************)
\* Zero when there is no number.  MaxFields + 1 stands for every number that is out of
\* range, below zero or too large.
Number(v) == {k \in 0..MaxFields + 1 : IsPrefix(<<ToString(k)>>, v)}
satoi(v) == IF v = Null \/ Number(v) = {} THEN 0 ELSE CHOOSE k \in Number(v) : TRUE

NumberOf(c, Key) == satoi(cmsIT8GetProperty(c, <<Key>>))
AllocateDataFormat(c) ==
    LET nSamples == NumberOf(c, "NUMBER_OF_FIELDS")
        t == [GetTable(c) EXCEPT !.nSamples = nSamples]
    IN  CASE GetTable(c).DataFormat # NoArray -> Done(c)
          [] GetTable(c).DataFormat = NoArray /\ nSamples \notin 1..MaxFields -> Fails(WithTable(c, t))
          [] OTHER -> Done(WithTable(c, [t EXCEPT !.DataFormat = [k \in 1..nSamples + 1 |-> Null]]))
SetLabel(a, n, label) ==
    LET c == a.it8
        t == GetTable(c)
    IN  CASE ~a.ok -> a
          [] a.ok /\ n \notin 0..t.nSamples - 1 -> Fails(c)
          [] a.ok /\ n \in 0..t.nSamples - 1 /\ n + 1 \notin DOMAIN t.DataFormat -> Done([c EXCEPT !.stray = TRUE])
          [] OTHER -> Done(WithTable(c, [t EXCEPT !.DataFormat[n + 1] = label]))
SetDataFormat(c, n, label) == SetLabel(AllocateDataFormat(c), n, label)

TooMuch(nSamples, nPatches) == nSamples > MaxFields \/ nPatches > MaxFields \/ nPatches * nSamples > MaxCells
\* There is a row to spare, or not.
Sized(c, spare) ==
    LET t == [GetTable(c) EXCEPT !.nSamples = NumberOf(c, "NUMBER_OF_FIELDS"), !.nPatches = NumberOf(c, "NUMBER_OF_SETS")]
    IN  CASE GetTable(c).Data # NoArray -> Done(c)
          [] GetTable(c).Data = NoArray /\ TooMuch(t.nSamples, t.nPatches) -> Fails(WithTable(c, t))
          [] OTHER -> Done(WithTable(c, [t EXCEPT !.Data = [k \in 1..(t.nSamples + 1) * (t.nPatches + spare) |-> Null]]))
\* Mutant: no row to spare.
AllocateDataSetTight(c) == Sized(c, 0)
AllocateDataSet(c) == Sized(c, 1)

GetData(c, nSet, nField) ==
    LET t == GetTable(c)
    IN  IF nSet \notin 0..t.nPatches - 1 \/ nField \notin 0..t.nSamples - 1 \/ t.Data = NoArray THEN Null
        ELSE t.Data[nSet * t.nSamples + nField + 1]
\* One more row and one more column than there are may be written to.
SetCell(c, nSet, nField, Val) ==
    LET t == GetTable(c)
        cell == nSet * t.nSamples + nField + 1
    IN  CASE nSet \notin 0..t.nPatches \/ nField \notin 0..t.nSamples -> Fails(c)
          [] nSet \in 0..t.nPatches /\ nField \in 0..t.nSamples /\ cell \notin DOMAIN t.Data -> Done([c EXCEPT !.stray = TRUE])
          [] OTHER -> Done(WithTable(c, [t EXCEPT !.Data[cell] = Val]))
SetData(c, nSet, nField, Val) ==
    LET a == AllocateDataSet(c) IN IF a.ok THEN SetCell(a.it8, nSet, nField, Val) ELSE a

Located(S) == IF S = {} THEN -1 ELSE Min(S)
\* LocateEmptyPatch looks for a row without a name.
LocatePatch(c, Patch) ==
    LET t == GetTable(c) IN Located({i \in 0..t.nPatches - 1 : GetData(c, i, t.SampleID) = Patch})
LocateSample(c, Sample) ==
    LET t == GetTable(c)
    IN  Located({i \in 0..t.nSamples - 1 : t.DataFormat # NoArray /\ t.DataFormat[i + 1] = Sample})

(***************************************************************************)
(* The column of names, and the labels of other tables.                    *)
(***************************************************************************)
SAMPLE_ID == <<"SAMPLE_ID">>
IsLabel(Fld) == Fld \in {<<"LABEL">>, <<"$TABLE">>}
\* The last table with a property of this name is the one that a label means.
Holders(c, Label) == {k \in 1..TablesCount(c) : FindKey(c.Tab[k].HeaderList, Label) # 0}
CookLabel(c, Label) ==
    LET holders == Holders(c, Label)
        k == Max(holders)
        p == FindKey(c.Tab[k].HeaderList, Label)
    IN  IF Label = Null \/ holders = {} THEN Label
        ELSE Label \o <<ToString(k - 1)>> \o c.Tab[k].HeaderList[p].Value
\* The cells of the columns of labels.
LabelCells(t) ==
    {k \in 1..t.nPatches * t.nSamples : t.Data # NoArray /\ IsLabel(t.DataFormat[((k - 1) % t.nSamples) + 1])}
CookTable(c, t) ==
    LET ids == {f \in 0..t.nSamples - 1 : t.DataFormat[f + 1] = SAMPLE_ID}
        labels == LabelCells(t)
    IN  [t EXCEPT !.SampleID = IF ids = {} THEN 0 ELSE Max(ids),
                  !.Data = [k \in DOMAIN @ |-> IF k \in labels THEN CookLabel(c, @[k]) ELSE @[k]]]
\* Stops at a table whose columns have no names, and stays there.
Unnamed(c) == {j \in 1..TablesCount(c) : c.Tab[j].nSamples > 0 /\ c.Tab[j].DataFormat = NoArray}
CookPointers(c) ==
    LET stop == Min(Unnamed(c) \cup {TablesCount(c) + 1})
        cooked(j) == CASE j < stop -> CookTable(c, c.Tab[j])
                       [] j = stop -> [c.Tab[j] EXCEPT !.SampleID = 0]
                       [] OTHER -> c.Tab[j]
    IN  [c EXCEPT !.Tab = [j \in DOMAIN @ |-> cooked(j)],
                  !.nTable = IF stop > TablesCount(c) THEN @ ELSE stop,
                  !.stray = @ \/ \E j \in 1..stop - 1 : ~(LabelCells(c.Tab[j]) \subseteq DOMAIN c.Tab[j].Data)]

(***************************************************************************)
(* Cells by name.                                                          *)
(***************************************************************************)
cmsIT8GetData(c, Patch, Sample) ==
    LET iField == LocateSample(c, Sample)
        iSet == LocatePatch(c, Patch)
    IN  IF iField < 0 \/ iSet < 0 THEN Null ELSE GetData(c, iSet, iField)

\* The first call allocates and cooks; a value of SAMPLE_ID names the next row.
Ready(c) ==
    LET a == AllocateDataFormat(c)
        b == IF a.ok THEN AllocateDataSet(a.it8) ELSE a
    IN  CASE GetTable(c).nPatches # 0 -> Done(c)
          [] GetTable(c).nPatches = 0 /\ ~b.ok -> b
          [] OTHER -> Done(CookPointers(b.it8))
cmsIT8SetData(c, Patch, Sample, Val) ==
    LET r == Ready(c)
        naming == Sample = SAMPLE_ID
        iField == IF naming THEN r.it8.Tab[c.nTable].SampleID ELSE LocateSample(c, Sample)
        iSet == LocatePatch(r.it8, IF naming THEN Null ELSE Patch)
    IN  CASE LocateSample(c, Sample) < 0 -> Fails(c)
          [] LocateSample(c, Sample) >= 0 /\ (~r.ok \/ iSet < 0) -> Fails(r.it8)
          [] OTHER -> SetData(r.it8, iSet, iField, Val)

\* A cooked label says the table and the type: "Label nTable Type".
cmsIT8SetTableByLabel(c, Set, cField, ExpectedType) ==
    LET cLabelFld == cmsIT8GetData(c, Set, cField)
        cooked == Len(cLabelFld) >= 3 /\ Number(<<cLabelFld[2]>>) # {}
    IN  IF ~cooked \/ (ExpectedType # Null /\ cLabelFld[3] # ExpectedType[1]) THEN Fails(c)
        ELSE cmsIT8SetTable(c, satoi(<<cLabelFld[2]>>) + 1)
cmsIT8SetIndexColumn(c, Sample) ==
    LET pos == LocateSample(c, Sample)
    IN  IF pos = -1 THEN Fails(c) ELSE Done(WithTable(c, [GetTable(c) EXCEPT !.SampleID = pos]))

(***************************************************************************)
(* CGATS and IT8.7 files as text: a file is a sequence of symbols, each    *)
(* with its text, and the end of a line is one of them.  What the          *)
(* functions that save a container write, and how the scanner goes through *)
(* a file and the files that it includes.                                  *)
(***************************************************************************)
CONSTANTS
    MAXINCLUDE,     \* files open at once (20)
    Files,          \* the files that may be included: from names to symbols
    Numerals        \* the words that are numbers, and how they are written back

ASSUME IncludeAssumption == MAXINCLUDE > 0

Symbol(sy, text) == [sy |-> sy, text |-> text]
EOLN == Symbol("SEOLN", <<>>)
Quoted(text) == Symbol("SSTRING", text)

\* Keywords, whose table is searched by halves, numbers, and all else.
Keywords == {"BEGIN_DATA", "BEGIN_DATA_FORMAT", "DATA_FORMAT_IDENTIFIER", "END_DATA", "END_DATA_FORMAT", "KEYWORD"}
BinSrchKey(id) ==
    CASE id \in {".INCLUDE", "$INCLUDE"} -> "SINCLUDE"
      [] id \in Keywords -> id
      [] OTHER -> "SIDENT"
Word(w) == IF w \in DOMAIN Numerals THEN Symbol("SINUM", <<Numerals[w]>>) ELSE Symbol(BinSrchKey(w), <<w>>)
Words(text) == [k \in DOMAIN text |-> Word(text[k])]

(***************************************************************************)
(* Saving.                                                                 *)
(***************************************************************************)
\* An unset value is not written, nor is it quoted when it is written bare.
WriteValue(p) ==
    CASE p.Value = Null -> <<>>
      [] p.Value # Null /\ p.WriteAs = "UNCOOKED" -> Words(p.Value)
      [] p.Value # Null /\ p.WriteAs = "STRINGIFY" -> <<Quoted(p.Value)>>
      [] p.Value # Null /\ p.WriteAs = "HEXADECIMAL" -> <<Symbol("SINUM", <<ToString(satoi(p.Value))>>)>>
      [] OTHER -> <<Quoted(p.Subkey \o <<",">> \o p.Value)>>
WriteProperty(p) ==
    IF p.Keyword = Comment THEN <<EOLN, EOLN, EOLN>> ELSE Words(p.Keyword) \o WriteValue(p) \o <<EOLN>>
WriteHeader(t) == Words(t.SheetType) \o <<EOLN>> \o FlattenSeq([k \in DOMAIN t.HeaderList |-> WriteProperty(t.HeaderList[k])])
\* The keywords of a header become known.
NowKnown(c) ==
    LET keys == {p.Keyword : p \in UNION {ToSet(t.HeaderList) : t \in ToSet(c.Tab)}} \ {Comment}
    IN  [c EXCEPT !.ValidKeywords = [k \in DOMAIN @ \cup keys |-> IF k \in DOMAIN @ THEN @[k] ELSE "UNCOOKED"]]

WriteStr(text) == IF text = Null THEN <<>> ELSE Words(text)
Count(t, Key) == LET p == FindKey(t.HeaderList, Key) IN IF p = 0 THEN 0 ELSE satoi(t.HeaderList[p].Value)
WriteDataFormat(t) ==
    LET nSamples == Count(t, <<"NUMBER_OF_FIELDS">>)
        names == IF nSamples <= t.nSamples THEN [k \in 1..nSamples |-> WriteStr(t.DataFormat[k])] ELSE <<>>
    IN  IF t.DataFormat = NoArray THEN <<>>
        ELSE <<Word("BEGIN_DATA_FORMAT"), EOLN>> \o FlattenSeq(names)
                \o (IF names = <<>> THEN <<>> ELSE <<EOLN>>) \o <<Word("END_DATA_FORMAT"), EOLN>>
\* Mutant: blanks are not looked for.
WriteCellBare(ptr) == IF ptr = Null THEN <<Quoted(<<>>)>> ELSE Words(ptr)
\* A cell with a blank is quoted, one that was never set is written as an empty string,
\* and one that is empty is not written at all.
WriteCell(ptr) ==
    CASE ptr = Null -> <<Quoted(<<>>)>>
      [] ptr # Null /\ Len(ptr) > 1 -> <<Quoted(ptr)>>
      [] OTHER -> Words(ptr)
WriteData(t) ==
    LET nPatches == Count(t, <<"NUMBER_OF_SETS">>)
        row(i) == FlattenSeq([j \in 1..t.nSamples |-> WriteCell(t.Data[(i - 1) * t.nSamples + j])])
                    \o (IF t.nSamples = 0 THEN <<>> ELSE <<EOLN>>)
        rows == IF nPatches <= t.nPatches THEN [i \in 1..nPatches |-> row(i)] ELSE <<>>
    IN  IF t.Data = NoArray THEN <<>> ELSE <<Word("BEGIN_DATA"), EOLN>> \o FlattenSeq(rows) \o <<Word("END_DATA"), EOLN>>
Written(c) == FlattenSeq([k \in DOMAIN c.Tab |-> WriteHeader(c.Tab[k]) \o WriteDataFormat(c.Tab[k]) \o WriteData(c.Tab[k])])

\* Both leave the table that they wrote last as the current one.  Only to a file is a
\* container refused that has a table without names or without cells, when the tables
\* before that one have been written.
FirstTables(c, n) == [c EXCEPT !.Tab = SubSeq(@, 1, n)]
cmsIT8SaveToMem(c) == Done([NowKnown(c) EXCEPT !.nTable = TablesCount(c)])
cmsIT8SaveToFile(c) ==
    LET bare == {k \in DOMAIN c.Tab : c.Tab[k].Data = NoArray \/ c.Tab[k].DataFormat = NoArray}
        k == Min(bare)
    IN  IF bare = {} THEN cmsIT8SaveToMem(c)
        ELSE Fails([NowKnown(FirstTables(c, k - 1)) EXCEPT !.Tab = c.Tab, !.nTable = k])
\* What is in the file after that.
OnDisk(c, saved) == Written(IF saved.ok THEN c ELSE FirstTables(c, saved.it8.nTable - 1))

(***************************************************************************)
(* Scanning.  A reader r has a stack of open files, each with the number   *)
(* of symbols read, the current symbol, and the container that it fills.   *)
(* What it scans for is one symbol, or one that is no end of a line.       *)
(***************************************************************************)
IncludeSP(r) == Len(r.FileStack)
Opened(file) == [file |-> file, read |-> 0]
AtEnd(r) == LET top == Last(r.FileStack) IN top.read = Len(top.file)
Ahead(r) == LET top == Last(r.FileStack) IN IF AtEnd(r) THEN Symbol("SEOF", <<>>) ELSE top.file[top.read + 1]

InSymbol(r) == [r EXCEPT !.scan = "symbol"]
NextSymbol(r) == [r EXCEPT !.scan = "past lines"]
SkipEOLN(r) == IF r.sy = "SEOLN" THEN NextSymbol(r) ELSE r
SynError(r) == [r EXCEPT !.sy = "SSYNERROR", !.scan = "nothing"]
CheckEOLN(r) == IF r.sy = "SEOLN" THEN NextSymbol(r) ELSE SynError(r)

\* Mutant: an included file stays open at its end.
NextChOpen(r) == r
\* The character after a symbol is read with it: an included file that ends there is closed.
NextCh(r) == IF AtEnd(r) /\ IncludeSP(r) > 1 THEN [r EXCEPT !.FileStack = Front(@)] ELSE r
Take(r) == NextCh([r EXCEPT !.sy = Ahead(r).sy, !.text = Ahead(r).text, !.FileStack[IncludeSP(r)].read = @ + 1])
Stops(r) == IF r.scan = "past lines" /\ r.sy = "SEOLN" THEN r ELSE [r EXCEPT !.scan = "nothing"]

\* The name of a file is a string; BuildAbsolutePath finds it by the file that names it.
Include(r) ==
    CASE IncludeSP(r) >= MAXINCLUDE \/ Ahead(r).sy # "SSTRING" -> SynError(r)
      [] IncludeSP(r) < MAXINCLUDE /\ Ahead(r).sy = "SSTRING" /\ Ahead(r).text \notin DOMAIN Files -> SynError(Take(r))
      [] OTHER -> LET named == Take(r) IN [named EXCEPT !.FileStack = Append(@, Opened(Files[named.text]))]
Scan(r) ==
    CASE AtEnd(r) /\ IncludeSP(r) > 1 -> NextCh(r)
      [] AtEnd(r) /\ IncludeSP(r) = 1 -> [r EXCEPT !.sy = "SEOF", !.scan = "nothing"]
      [] Ahead(r).sy = "SINCLUDE" -> Include(Take(r))
      [] Ahead(r).sy = "SUNRECOGNIZED" -> SynError(r)
      [] OTHER -> Stops(Take(r))

\* Only these symbols have a value.
HasVal(r) == r.sy \in {"SEOLN", "SIDENT", "SINUM", "SSTRING"}
GetVal(r) == IF r.sy = "SEOLN" THEN <<>> ELSE r.text

\* The first line is the type of the sheet when it is one word, and a property when
\* it is two; a file whose first line has more is of another kind.  (So is one whose first
\* line is long, or that is shorter than ten characters; a file here is neither.)
IsMyBlock(file) ==
    LET after == IF file # <<>> /\ file[1] = EOLN THEN Tail(file) ELSE file
        words == SelectInSeq(after, LAMBDA s : s = EOLN) - 1
    IN  IF words \in 0..2 THEN IF words = 2 THEN 2 ELSE 1 ELSE 0
=============================================================================
