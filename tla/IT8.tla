--------------------------------- MODULE IT8 ---------------------------------
(***************************************************************************)
(* A program fills a container of tables, saves it, and loads what it      *)
(* saved; or loads a file made by others, which may be damaged.  Loading   *)
(* goes symbol by symbol through the sections of the file.                 *)
(***************************************************************************)
EXTENDS IT8Tables

CONSTANTS
    Openings,   \* what the program begins with
    Calls,      \* what it may then ask for: sequences of calls
    MaxCalls,   \* and how often
    MaxSaves,   \* how often it saves and loads
    Foreign     \* the files of others

\* Tables are counted from 1.
Counted(calls) ==
    calls \in Seq(ToSet(calls)) /\ \A k \in DOMAIN calls : calls[k].op = "Table" => calls[k].n \in Nat \ {0}
ASSUME CallsAssumption == \A calls \in Openings \cup Calls : Counted(calls) /\ (calls \in Calls => calls # <<>>)

VARIABLES
    pc,         \* where the program or the parser is
    it8,        \* the container
    reader,     \* the parser's state, with the container that it fills
    disk,       \* the file last saved
    book,       \* what the program asked to be kept
    made        \* how many calls and saves

vars == <<pc, it8, reader, disk, book, made>>

(***************************************************************************)
(* Loading (cmsIT8LoadFromFile, cmsIT8LoadFromMem).  The parser is at a    *)
(* place of a section, and goes on from there when a symbol is scanned.    *)
(***************************************************************************)
Reader(file, type) ==
    [FileStack |-> <<Opened(file)>>, scan |-> "nothing", sy |-> "SUNDEFINED", text |-> <<>>, it8 |-> cmsIT8Alloc,
     nosheet |-> type = 2, at |-> "none", VarName |-> <<>>, pairs |-> <<>>, iField |-> 0, iSet |-> 0]

\* The first line is read as it is.
ReadType(r) ==
    LET file == Last(r.FileStack).file
        length == SelectInSeq(file, LAMBDA s : s = EOLN) - 1
        line == FlattenSeq([k \in 1..length |-> file[k].text])
    IN  [r EXCEPT !.FileStack[1].read = length, !.it8.Tab[1].SheetType = line]

Section(at, r) == [r EXCEPT !.at = at]
Parsing(r) == Section("parse", r)
GivesUp(r) == Section("refused", r)
Filled(r, c) == [r EXCEPT !.it8 = c]
Top(r) == GetTable(r.it8)
Over(r) == r.sy \in {"SEOF", "SSYNERROR"}

OpenFile(file) ==
    LET type == IsMyBlock(file)
        r == Reader(file, type)
    IN  IF type = 0 THEN GivesUp(r) ELSE Parsing(NextSymbol(IF type = 2 THEN r ELSE ReadType(r)))

(***************************************************************************)
(* The names of the columns.                                               *)
(***************************************************************************)
DataFormatSection(r) ==
    CASE r.at = "parse" -> Section("format begins", InSymbol(r))
      [] r.at = "format begins" -> Section("format", CheckEOLN([r EXCEPT !.iField = 0]))
      [] r.at = "format" /\ r.sy = "END_DATA_FORMAT" -> Section("format ends", NextSymbol(r))
      [] r.at = "format" /\ Over(r) -> Section("format ends", r)
      [] r.at = "format ends" -> Parsing(IF r.iField # Top(r).nSamples THEN SynError(r) ELSE r)
SampleType(r, a) ==
    LET set == SetLabel(a, r.iField, r.text)
    IN  IF r.sy = "SIDENT" /\ set.ok THEN NextSymbol([Filled(r, set.it8) EXCEPT !.iField = @ + 1]) ELSE GivesUp(r)

(***************************************************************************)
(* The cells.                                                              *)
(***************************************************************************)
BeginData(r, a) == IF a.ok THEN Section("data", [Filled(r, a.it8) EXCEPT !.iField = 0, !.iSet = 0]) ELSE GivesUp(r)
DataSection(r) ==
    CASE r.at = "parse" -> Section("data begins", InSymbol(r))
      [] r.at = "data begins" -> Section("data lines", CheckEOLN(r))
      [] r.at = "data" /\ r.sy = "END_DATA" -> Section("data ends", NextSymbol(r))
      [] r.at = "data" /\ Over(r) -> Section("data ends", r)
Cell(r) ==
    LET full == r.iField >= Top(r).nSamples
        iField == IF full THEN 0 ELSE r.iField
        iSet == IF full THEN r.iSet + 1 ELSE r.iSet
        set == SetData(r.it8, iSet, iField, GetVal(r))
    IN  IF HasVal(r) /\ set.ok THEN NextSymbol([Filled(r, set.it8) EXCEPT !.iField = iField + 1, !.iSet = iSet]) ELSE GivesUp(r)

\* Another table follows the data of one; its type is a word alone on its line, or a string.
SheetType(r) ==
    LET typed(text) == Filled(r, cmsIT8SetSheetType(r.it8, text).it8)
    IN  CASE r.nosheet \/ r.sy \notin {"SIDENT", "SSTRING"} -> r
          [] ~r.nosheet /\ r.sy = "SIDENT" /\ Ahead(r) # EOLN -> typed(<<>>)
          [] OTHER -> InSymbol(typed(r.text))
EndData(r) ==
    LET more == AllocTable(r.it8)
        next == Filled(r, [more.it8 EXCEPT !.nTable = TablesCount(more.it8)])
    IN  CASE r.iSet + 1 # Top(r).nPatches \/ (~Over(r) /\ ~more.ok) -> GivesUp(r)
          [] r.iSet + 1 = Top(r).nPatches /\ Over(r) -> Parsing(r)
          [] OTHER -> Parsing(SheetType(next))

(***************************************************************************)
(* The properties (HeaderSection).                                         *)
(***************************************************************************)
Keyword(r) ==
    LET more == [r EXCEPT !.it8.ValidKeywords = AddAvailableProperty(@, GetVal(r), "UNCOOKED")]
    IN  IF HasVal(r) /\ GetVal(r) \notin Counts THEN Parsing(NextSymbol(more)) ELSE GivesUp(r)
\* The names of samples are kept, and never looked at.
DataFormatId(r) == IF HasVal(r) THEN Parsing(NextSymbol(r)) ELSE GivesUp(r)

\* An identifier becomes one of the keywords before its value is read.
Identifier(r) ==
    LET known == r.text \in DOMAIN r.it8.ValidKeywords
        Key == [Section("property", r) EXCEPT !.VarName = r.text]
    IN  InSymbol(IF known THEN Key ELSE [Key EXCEPT !.it8.ValidKeywords = AddAvailableProperty(@, r.text, "UNCOOKED")])

\* A string of pairs, "subkey, value; ...", is cut into its pairs.
Pairs(text) ==
    LET cuts == {0, Len(text) + 1} \cup {k \in DOMAIN text : text[k] = ";"}
        ends(a) == Min({b \in cuts : b > a})
        parts == SetToSortSeq(cuts \ {Len(text) + 1}, <)
        part(k) == SubSeq(text, parts[k] + 1, ends(parts[k]) - 1)
        comma(k) == SelectLastInSeq(part(k), LAMBDA w : w = ",")
    IN  [k \in DOMAIN parts |-> <<SubSeq(part(k), 1, comma(k) - 1), SubSeq(part(k), comma(k) + 1, Len(part(k)))>>]
IsPair(pair) == pair[1] # <<>> /\ pair[2] # <<>>
AddPair(r) ==
    LET pair == Head(r.pairs)
        t == [Top(r) EXCEPT !.HeaderList = AddToList(@, r.VarName, pair[1], pair[2], "PAIR")]
    IN  CASE r.pairs = <<>> -> Parsing(NextSymbol(r))
          [] r.pairs # <<>> /\ IsPair(pair) -> [Filled(r, WithTable(r.it8, t)) EXCEPT !.pairs = Tail(@)]
          [] OTHER -> GivesUp(r)
Property(r) ==
    LET pairs == r.it8.ValidKeywords[r.VarName] = "PAIR"
        set == SetProperty(r.it8, r.VarName, Null, GetVal(r), IF r.sy = "SSTRING" THEN "STRINGIFY" ELSE "UNCOOKED")
    IN  CASE pairs /\ r.sy = "SSTRING" -> Section("pairs", [r EXCEPT !.pairs = Pairs(GetVal(r))])
          [] ~pairs /\ HasVal(r) /\ set.ok -> Parsing(NextSymbol(Filled(r, set.it8)))
          [] OTHER -> GivesUp(r)

(***************************************************************************)
(* The parser's steps.                                                     *)
(***************************************************************************)
Goes(to) ==
    /\ \E r \in {to} : reader' = r /\ pc' = IF r.at = "refused" THEN "refused" ELSE "loading"
    /\ UNCHANGED <<it8, disk, book, made>>
Scans == pc = "loading" /\ reader.scan # "nothing" /\ Goes(Scan(reader))
Sees(at, symbols) == pc = "loading" /\ reader.scan = "nothing" /\ reader.at = at /\ reader.sy \in symbols
After(at) == Sees(at, {reader.sy})
HeaderSection ==
    \/ Sees("parse", {"KEYWORD"}) /\ Goes(Section("keyword", InSymbol(reader)))
    \/ After("keyword") /\ Goes(Keyword(reader))
    \/ Sees("parse", {"DATA_FORMAT_IDENTIFIER"}) /\ Goes(Section("identifier", InSymbol(reader)))
    \/ After("identifier") /\ Goes(DataFormatId(reader))
    \/ Sees("parse", {"SIDENT"}) /\ Goes(Identifier(reader))
    \/ After("property") /\ Goes(Property(reader))
    \/ After("pairs") /\ Goes(AddPair(reader))
    \/ Sees("parse", {"SINUM", "SSTRING", "END_DATA", "END_DATA_FORMAT"}) /\ Goes(GivesUp(reader))
FormatEnds == {"END_DATA_FORMAT", "SEOF", "SSYNERROR"}
DataEnds == {"END_DATA", "SEOF", "SSYNERROR"}
Sections ==
    \/ Sees("parse", {"BEGIN_DATA_FORMAT"}) /\ Goes(DataFormatSection(reader))
    \/ (After("format begins") \/ Sees("format", FormatEnds) \/ After("format ends")) /\ Goes(DataFormatSection(reader))
    \/ After("format") /\ reader.sy \notin FormatEnds /\ \E a \in {AllocateDataFormat(reader.it8)} : Goes(SampleType(reader, a))
    \/ Sees("parse", {"BEGIN_DATA"}) /\ Goes(DataSection(reader))
    \/ (After("data begins") \/ Sees("data", DataEnds)) /\ Goes(DataSection(reader))
    \/ After("data lines") /\ \E a \in {AllocateDataSet(reader.it8)} : Goes(BeginData(reader, a))
    \/ After("data") /\ reader.sy \notin DataEnds /\ Goes(Cell(reader))
    \/ After("data ends") /\ Goes(EndData(reader))
ParseIT8 ==
    \/ Sees("parse", {"SEOLN"}) /\ Goes(SkipEOLN(reader))
    \/ Sees("parse", {"SSYNERROR"}) /\ Goes(GivesUp(reader))

\* At the end the labels are cooked, and the first table is the current one.
Loaded ==
    /\ Sees("parse", {"SEOF"})
    /\ pc' = "ready"
    /\ it8' = [CookPointers(reader.it8) EXCEPT !.nTable = 1]
    /\ reader' = Reader(<<>>, 1)
    /\ disk' = <<>>
    /\ made' = [made EXCEPT !.fresh = TRUE]
    /\ UNCHANGED book
Parse == Scans \/ HeaderSection \/ Sections \/ ParseIT8 \/ Loaded

(***************************************************************************)
(* The program.  It names the columns of a table before it fills cells,    *)
(* and the rows before it puts values by name.                             *)
(***************************************************************************)
LABEL == <<"LABEL">>
Perform(c, x) ==
    CASE x.op = "Table" -> cmsIT8SetTable(c, x.n)
      [] x.op = "TableByLabel" -> cmsIT8SetTableByLabel(c, x.patch, LABEL, x.type)
      [] x.op = "SheetType" -> cmsIT8SetSheetType(c, x.val)
      [] x.op = "Comment" -> cmsIT8SetComment(c, x.val)
      [] x.op = "Str" -> cmsIT8SetPropertyStr(c, x.key, x.val)
      [] x.op = "Uncooked" -> cmsIT8SetPropertyUncooked(c, x.key, x.val)
      [] x.op = "Hex" -> cmsIT8SetPropertyHex(c, x.key, x.n)
      [] x.op = "Multi" -> cmsIT8SetPropertyMulti(c, x.key, x.sub, x.val)
      [] x.op = "Dbl" -> cmsIT8SetPropertyDbl(c, x.key, x.n)
      [] x.op = "Column" -> SetDataFormat(c, x.col, x.label)
      [] x.op = "Index" -> cmsIT8SetIndexColumn(c, x.sample)
      [] x.op = "Data" -> cmsIT8SetData(c, x.patch, x.sample, x.val)
      [] OTHER -> SetData(c, x.row, x.col, x.val)

Shaped(c) == GetTable(c).DataFormat # NoArray
Column(c, f) == GetTable(c).DataFormat[f + 1]
Indexed(c) == Shaped(c) /\ Column(c, GetTable(c).SampleID) = SAMPLE_ID
\* Rows are numbered by a program that has the names first, or after rows were named.
Allowed(c, x) ==
    CASE x.op = "Column" -> Shaped(c) \/ GetTable(c).Data = NoArray
      [] x.op = "Multi" -> x.key \notin Counts
      [] x.op \in {"Data", "Index"} -> Shaped(c)
      [] x.op = "RowCol" -> Indexed(c) /\ x.col < GetTable(c).nSamples
      [] OTHER -> TRUE

\* What is found again: the value last put under each name.
Keep(b, c, x) ==
    LET n == c.nTable
        hides(sample) == x.op \in {"Index", "Column"} \/ Column(c, x.col) \in {SAMPLE_ID, sample}
        hidden == {y \in DOMAIN b.cells : y[1] = n /\ hides(y[3])}
        property(sub, val) == [b EXCEPT !.properties = (<<n, x.key, sub>> :> val) @@ @]
    IN  CASE x.op \in {"Str", "Uncooked"} -> property(Null, x.val)
          [] x.op \in {"Hex", "Dbl"} -> property(Null, <<ToString(x.n)>>)
          [] x.op = "Multi" -> property(x.sub, x.val)
          [] x.op = "SheetType" -> [b EXCEPT !.types = (n :> x.val) @@ @]
          [] x.op \in {"Index", "Column", "RowCol"} -> [b EXCEPT !.cells = [y \in DOMAIN @ \ hidden |-> @[y]]]
          [] x.op = "Data" /\ Indexed(c) ->
                [b EXCEPT !.cells = (<<n, IF x.sample = SAMPLE_ID THEN x.val ELSE x.patch, x.sample>> :> x.val) @@ @]
          [] OTHER -> b
\* The rest of what the program has begun comes first; it leaves out what it must not ask.
Call ==
    /\ pc = "ready"
    /\ \E calls \in IF made.todo # <<>> THEN {made.todo} ELSE {s \in Calls : made.calls < MaxCalls} :
          LET x == Head(calls)
          IN  /\ made' = [made EXCEPT !.calls = IF made.todo = <<>> THEN @ + 1 ELSE @, !.todo = Tail(calls), !.fresh = FALSE]
              /\ IF Allowed(it8, x)
                 THEN \E r \in {Perform(it8, x)} : it8' = r.it8 /\ book' = IF r.ok THEN Keep(book, it8, x) ELSE book
                 ELSE made.todo # <<>> /\ UNCHANGED <<it8, book>>
    /\ UNCHANGED <<pc, reader, disk>>

\* A container that was loaded with empty cells is not saved again, since they would
\* not be written.
NoneEmpty == \A k \in DOMAIN it8.Tab : \A j \in DOMAIN it8.Tab[k].Data : it8.Tab[k].Data[j] # <<>>
Save ==
    /\ pc = "ready" /\ made.todo = <<>> /\ made.saves < MaxSaves /\ NoneEmpty
    /\ LET r == cmsIT8SaveToFile(it8)
       IN  /\ it8' = r.it8
           /\ pc' = IF r.ok THEN "saved" ELSE "ready"
           /\ disk' = OnDisk(it8, r)
    /\ made' = [made EXCEPT !.saves = @ + 1]
    /\ UNCHANGED <<reader, book>>
GoesOn == pc = "saved" /\ it8.Tab # <<>> /\ pc' = "ready" /\ UNCHANGED <<it8, reader, disk, book, made>>
Load == pc = "saved" /\ Goes(OpenFile(disk))

Nothing == [cells |-> <<>>, properties |-> <<>>, types |-> <<>>]
Init ==
    /\ \/ /\ pc = "ready" /\ disk = <<>> /\ it8 = cmsIT8Alloc
          /\ \E o \in Openings : made = [todo |-> o, calls |-> 0, saves |-> 0, fresh |-> FALSE, foreign |-> FALSE]
       \/ /\ pc = "saved" /\ disk \in Foreign /\ it8 = [cmsIT8Alloc EXCEPT !.Tab = <<>>]
          /\ made = [todo |-> <<>>, calls |-> MaxCalls, saves |-> MaxSaves, fresh |-> FALSE, foreign |-> TRUE]
    /\ book = Nothing
    /\ reader = Reader(<<>>, 1)
Next == Call \/ Save \/ GoesOn \/ Load \/ Parse
Spec == Init /\ [][Next]_vars /\ WF_vars(Parse)

(***************************************************************************)
(* Properties.                                                             *)
(***************************************************************************)
\* A program finds under a name what it last put there, also after the container was
\* saved and loaded; a label leads to a table that has the property; and a container
\* that could be saved can be loaded.
At(n) == [it8 EXCEPT !.nTable = n]
CellKept(x) == x[3] = LABEL \/ cmsIT8GetData(At(x[1]), x[2], x[3]) = book.cells[x]
PropertyKept(x) == cmsIT8GetPropertyMulti(At(x[1]), x[2], x[3]) = book.properties[x]
LabelLeads(x) ==
    LET r == cmsIT8SetTableByLabel(At(x[1]), x[2], LABEL, Null)
    IN  Holders(it8, book.cells[x]) = {} \/ (r.ok /\ FindKey(GetTable(r.it8).HeaderList, book.cells[x]) # 0)
Kept ==
    /\ pc = "refused" => made.foreign
    /\ pc = "ready" =>
          /\ \A x \in DOMAIN book.cells : CellKept(x) /\ (made.fresh /\ x[3] = LABEL => LabelLeads(x))
          /\ \A x \in DOMAIN book.properties : PropertyKept(x)
          /\ \A n \in DOMAIN book.types : it8.Tab[n].SheetType = book.types[n]

\* Every name of a column and every cell that is written, by the program or by the parser
\* of any file, is in the array of its table (cmscgats.c, SetDataFormat, SetData).
CellsFit == ~it8.stray /\ ~reader.it8.stray

\* Files that end in the inclusion of one of them.  The scanner leaves a file when it reads
\* past the name of the one to include, before it counts how many files are open.
EndInEachOther(names) ==
    \A name \in names :
       LET file == Files[name]
       IN  Len(file) > 1 /\ file[Len(file) - 1].sy = "SINCLUDE" /\ file[Len(file)].text \in names
EndlessFiles == UNION {names \in SUBSET DOMAIN Files : EndInEachOther(names)}
InEndlessFile == \E name \in EndlessFiles : \E k \in DOMAIN reader.FileStack : reader.FileStack[k].file = Files[name]

\* Loading ends, whatever the file, also one that includes itself, unless it opens a file of
\* those that end in the inclusion of each other: that one is read for ever.
ReadingEnds == pc = "loading" ~> pc \in {"ready", "refused"} \/ InEndlessFile
=============================================================================
