-------------------------------- MODULE MCIT8 --------------------------------
(***************************************************************************)
(* One or two small tables, filled in any order, saved and loaded twice,   *)
(* and files of others in which one symbol is another or is missing.       *)
(***************************************************************************)
EXTENDS IT8

P(k) == <<ToString(k)>>
OneTable == <<<<"SAMPLE_ID">>, <<"V">>>>
WithLabels == <<<<"LABEL">>, <<"SAMPLE_ID">>>>
Data(patch, sample, val) == [op |-> "Data", patch |-> patch, sample |-> sample, val |-> val]
SetCount(key, n) == [op |-> "Dbl", key |-> <<key>>, n |-> n]
NameColumn(k, names) == [op |-> "Column", col |-> k, label |-> names[k + 1]]
Shape(names) == <<SetCount("NUMBER_OF_FIELDS", 2), SetCount("NUMBER_OF_SETS", 2), NameColumn(0, names), NameColumn(1, names)>>
Table(n) == [op |-> "Table", n |-> n]
Str(val) == [op |-> "Str", key |-> <<"ORIGINATOR">>, val |-> val]
Name(p) == Data(<<p>>, SAMPLE_ID, <<p>>)
MCOpenings ==
    {<<>>,
     Shape(OneTable) \o <<Name("P1"), Name("P2"), Data(<<"P1">>, <<"V">>, <<"7">>), Data(<<"P2">>, <<"V">>, <<"two", "words">>)>>,
     Shape(WithLabels) \o <<Name("P1"), Data(<<"P1">>, LABEL, <<"ORIGINATOR">>), Table(2)>> \o Shape(OneTable) \o <<Name("P1")>>}
One(calls) == {<<x>> : x \in calls}
MCCalls ==
    {Shape(names) : names \in {OneTable, WithLabels}}
    \cup One({Name(p) : p \in {"P1", "P2"}})
    \cup One({Data(<<"P1">>, <<"V">>, <<"7">>), Data(<<"P1">>, LABEL, <<"ORIGINATOR">>)})
    \cup One({[op |-> "RowCol", row |-> 0, col |-> 0, val |-> <<"P2">>], [op |-> "RowCol", row |-> 2, col |-> 1, val |-> <<"7">>]})
    \cup One({Table(n) : n \in 1..3})
    \cup One({[op |-> "TableByLabel", patch |-> <<"P1">>, type |-> Null], [op |-> "Index", sample |-> <<"V">>]})
    \cup One({[op |-> "SheetType", val |-> <<"SHEET">>], [op |-> "Comment", val |-> <<"note">>]})
    \cup One({Str(<<"me">>), [op |-> "Hex", key |-> <<"MATERIAL">>, n |-> 3]})
    \cup One({[op |-> "Multi", key |-> <<"WEIGHTING_FUNCTION">>, sub |-> <<s>>, val |-> <<s, "of">>] : s \in {"a", "b"}})
MCNumerals == [w \in {"0", "1", "2", "3", "7"} |-> w]
MCFiles == (<<"again">> :> <<EOLN, Word(".INCLUDE"), Quoted(<<"again">>), EOLN>>)
            @@ (<<"forever">> :> <<EOLN, Word(".INCLUDE"), Quoted(<<"forever">>)>>)
            @@ (<<"cells">> :> <<Word("P1"), Word("7"), EOLN>>)

Line(words) == Append(Words(words), EOLN)
WellMade ==
    Line(<<"SHEET">>)
    \o <<Word("WEIGHTING_FUNCTION"), Quoted(<<"a", ",", "x", ";", "b", ",", "y">>), EOLN>>
    \o Line(<<"NUMBER_OF_FIELDS", "2">>) \o Line(<<"NUMBER_OF_SETS", "1">>)
    \o Line(<<"BEGIN_DATA_FORMAT">>) \o Line(<<"SAMPLE_ID", "V">>) \o Line(<<"END_DATA_FORMAT">>)
    \o Line(<<"BEGIN_DATA">>) \o Line(<<"P1", "7">>) \o Line(<<"END_DATA">>)
    \o <<Quoted(<<"NEXT">>), EOLN, Word("ORIGINATOR"), Quoted(<<"me">>), EOLN>>
Others ==
    {<<>>, <<EOLN>>, <<Word("0")>>, <<Word("3")>>, <<Word("X")>>, <<Word("X"), Word("7")>>, <<Quoted(<<"a", "b">>)>>,
     <<Word("KEYWORD")>>, <<Word("DATA_FORMAT_IDENTIFIER")>>, <<Word("BEGIN_DATA")>>, <<Word("END_DATA")>>,
     <<Word("NUMBER_OF_SETS")>>, <<Symbol("SUNRECOGNIZED", <<>>)>>}
    \cup {<<Word(".INCLUDE"), Quoted(<<name>>)>> : name \in {"again", "forever", "cells", "none"}}
MCForeign == {SubSeq(WellMade, 1, k - 1) \o part \o SubSeq(WellMade, k + 1, Len(WellMade)) : k \in DOMAIN WellMade, part \in Others}
=============================================================================
