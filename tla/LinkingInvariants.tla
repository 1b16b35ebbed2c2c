------------------------- MODULE LinkingInvariants -------------------------
(***************************************************************************)
(* What LinkingProofs proves of the states of Linking: IInv, of who holds  *)
(* which pipeline; CInv, of the encodings between which what is held       *)
(* leads; MInv, of the words that it says.  Each is inductive with the     *)
(* ones before it.                                                         *)
(***************************************************************************)
EXTENDS Linking

(***************************************************************************)
(* Who holds a pipeline.  What is in it does not matter.                   *)
(***************************************************************************)
\* The local variables that hold a pipeline each, and those that hold none.
Owners == {"Result", "Lut", "Kept", "LabK"}
Held(l) == {l[v] : v \in Owners} \ {Nil}
Void(l, vs) == \A v \in vs : l[v] = Nil

\* No pipeline is held twice, or held and forgotten.
Apart(l) ==
    /\ \A v, w \in Owners : l[v] = l[w] /\ l[v] # Nil => v = w
    /\ l.forgotten \cap Held(l) = {}

\* Which variables are not in use, at each place of the call.
Idle(l, where) ==
    /\ where = "idle" => l.forgotten = {}
    /\ where \in {"idle", "handler", "refused", "deleted"} => Void(l, Owners)
    /\ where = "link" => Void(l, {"Result", "Lut"})
    /\ where \in {"profile", "keep black", "links", "clean up"} => l.Lut = Nil
    /\ where = "linked" => Void(l, {"Lut", "Kept", "LabK"})
    /\ where \in {"optimise", "preoptimise", "try", "done"} => Void(l, {"Result", "Kept", "LabK"})

Locals == {"i", "count", "handler", "Current", "Result", "Lut", "Kept", "LabK",
           "forgotten", "pass", "Opt"}

\* The tables that keep black are for the handlers that make them.
Plain(l, keeps) ==
    /\ l.handler = "DefaultICCintents" => Void(l, {"Kept", "LabK"})
    /\ ~keeps => l.handler = "DefaultICCintents"
Joining == {"link", "profile", "connect"}

Owned ==
    /\ DOMAIN link = Locals
    /\ DOMAIN heap = link.forgotten \union Held(link)
    /\ IsFiniteSet(DOMAIN heap) /\ DOMAIN heap \subseteq Nat \ {Nil}
    /\ Apart(link)

IInv ==
    at # "undefined" =>
        /\ Owned
        /\ Idle(link, at)
        /\ at \in Joining => Plain(link, KeepsBlack)

\* Optimising goes on with the same pipeline, whatever becomes of it.
Optimising == {"optimise", "preoptimise", "try", "done"}

(***************************************************************************)
(* The encodings and the channels between which stages lead.               *)
(***************************************************************************)
\* A sequence, of whatever elements.
IsSeq(s) == s \in Seq(ToSet(s))
\* What a stage takes and gives: an encoding, and how many channels.
Takes(st) == <<st.from, st.InputChannels>>
Gives(st) == <<st.to, st.OutputChannels>>
\* The encodings between which the conversions of the PCS go.
Between == [XYZ2Lab |-> <<"XYZ", "Lab4">>, Lab2XYZ |-> <<"Lab4", "XYZ">>,
            LabV2toV4 |-> <<"Lab2", "Lab4">>, LabV4toV2 |-> <<"Lab4", "Lab2">>,
            Lab2FloatPCS |-> <<"LabFloat", "Lab4">>, FloatPCS2Lab |-> <<"Lab4", "LabFloat">>,
            XYZ2FloatPCS |-> <<"XYZFloat", "XYZ">>, FloatPCS2XYZ |-> <<"XYZ", "XYZFloat">>]
StageFields == {"Type", "Implements", "InputChannels", "OutputChannels", "from", "to", "word", "Offset", "white"}

\* A stage whose kind and encodings agree.
Proper(st) ==
    /\ DOMAIN st = StageFields
    /\ st.Type = "Curves" => st.InputChannels = st.OutputChannels
    /\ st.Implements = "Identity" => Takes(st) = Gives(st)
    /\ st.Implements \in DOMAIN Between =>
        /\ Takes(st) = <<Between[st.Implements][1], 3>>
        /\ Gives(st) = <<Between[st.Implements][2], 3>>

\* The stages s lead from a to b.
Path(s, a, b) ==
    /\ IsSeq(s)
    /\ \A k \in DOMAIN s : Proper(s[k])
    /\ \A k \in 1..Len(s) - 1 : Gives(s[k]) = Takes(s[k + 1])
    /\ s = <<>> => a = b
    /\ s # <<>> => Takes(s[1]) = a /\ Gives(s[Len(s)]) = b

\* A pipeline that says how many channels it has.
Sized(l, i, o) == l.InputChannels = i /\ l.OutputChannels = o
LutFields == {"InputChannels", "OutputChannels", "Elements", "Eval16Fn", "Data"}

\* A pipeline that exists, whose channels are those of its ends.
Whole(l) ==
    /\ DOMAIN l = LutFields /\ l.Eval16Fn # "NULL" /\ IsSeq(l.Elements)
    /\ l.Elements # <<>> =>
        Sized(l, l.Elements[1].InputChannels, l.Elements[Len(l.Elements)].OutputChannels)
\* Stages between two encodings, in whatever channels; and in those of the pipeline too.
Runs(l, x, y) == \E a, b : Path(l.Elements, a, b) /\ a[1] = x /\ b[1] = y
Leads(l, a, b) == Path(l.Elements, a, b) /\ Sized(l, a[2], b[2])
\* A pipeline read from a to b: its channels are right if exact, and it is not NULL if there.
Reads(l, a, b, exact, there) ==
    /\ there => l # NULL
    /\ l # NULL => Whole(l) /\ Runs(l, a[1], b[1]) /\ (exact => Leads(l, a, b))

\* The channels of a sequence of stages agree.
Fitting(u) == \A m \in 1..Len(u) - 1 : u[m + 1].InputChannels = u[m].OutputChannels
Known == DOMAIN cmsChannelsOfColorSpace
Port(space) == <<Encoding(space, "pixels"), cmsChannelsOfColorSpace[space]>>
PortOf(space, type) == <<Encoding(space, type), cmsChannelsOfColorSpace[space]>>
\* A stage from x in i channels to y in o.
Goes(st, x, i, y, o) == Proper(st) /\ Takes(st) = <<x, i>> /\ Gives(st) = <<y, o>>

\* Whether what is read of q is exact, and is there.
Exact(q) == IF Sound(q) THEN TRUE ELSE FALSE
MayRead(q, I, table) == IF Sound(q) /\ cmsIsIntentSupported(q, I, table) THEN TRUE ELSE FALSE

\* A pipeline whose stages are a path.
Walkable(l) == Whole(l) /\ \E a, b : Path(l.Elements, a, b)

(***************************************************************************)
(* What the folds of the code are after each element.                      *)
(***************************************************************************)
\* A letter is put after a word, or taken from it with the one it undoes.
Push(r, a) == IF r # <<>> /\ Undoes(a, Last(r)) THEN Front(r) ELSE Append(r, a)
\* What the folds of the code do with each element.
Does(c, acc, e) ==
    CASE c.loop = "one" -> IF e.Implements = c.op1 THEN acc ELSE Append(acc, e)
      [] c.loop = "two" ->
            IF acc.last # <<>> /\ acc.last[1].Implements = c.op1 /\ e.Implements = c.op2
            THEN [acc EXCEPT !.last = <<>>]
            ELSE [acc EXCEPT !.done = Passed(acc), !.last = <<e>>]
      [] c.loop = "product" ->
            IF acc.last = <<>> \/ acc.stop \/ acc.last[1].Implements # "Matrix" \/ e.Implements # "Matrix"
            THEN [acc EXCEPT !.done = Passed(acc), !.last = <<e>>]
            ELSE IF ~Simple(acc.last[1]) \/ ~Simple(e)
            THEN [acc EXCEPT !.done = Passed(acc), !.last = <<e>>, !.stop = TRUE]
            ELSE [acc EXCEPT !.last = IF IsIdentity(Product(acc.last[1], e)) THEN <<>>
                                      ELSE <<Product(acc.last[1], e)>>]
      [] c.loop = "spaces" ->
            CASE e.DeviceClass = "NamedColor" -> IF c.many THEN e.PCS ELSE e.ColorSpace
              [] e.DeviceClass # "NamedColor" /\ (acc \notin Space \/ e.DeviceClass = "Link") -> e.PCS
              [] OTHER -> e.ColorSpace
      [] c.loop = "word" -> Push(acc, e)

\* A function of the sets of indices that the fold is a value of.
Folds(it, c, base, s, T) ==
    it = [t \in SUBSET T |-> IF t = {} THEN base ELSE Does(c, it[t \ {Max(t)}], s[Max(t)])]

\* What a fold is after each element, m of them.
Stepping(g, c, base, s, m, v) ==
    g[0] = base /\ g[m] = v /\ \A k \in 1..m : g[k] = Does(c, g[k - 1], s[k])

\* The space that a chain is in after a profile.
After(q, current, many) ==
    CASE q.DeviceClass = "NamedColor" -> IF many THEN q.PCS ELSE q.ColorSpace
      [] q.DeviceClass # "NamedColor" /\ (current \notin Space \/ q.DeviceClass = "Link") -> q.PCS
      [] OTHER -> q.ColorSpace
\* The spaces that a chain of profiles visits.
Visits(f, s) ==
    /\ f[0] = s[1].ColorSpace /\ f[Len(s)] = GetXFormColorSpaces(s).Output
    /\ \A k \in 1..Len(s) : f[k] = After(s[k], f[k - 1], Len(s) > 1)

\* Where a path is after k of its stages.
Stop(s, a, k) == IF k = 0 THEN a ELSE Gives(s[k])

\* Of the stages passed, the last one waits; what it is compared with comes next.
Waiting(v, a, c) ==
    /\ DOMAIN v = {"done", "last", "stop"} /\ IsSeq(v.done)
    /\ v.last = <<>> \/ \E st : v.last = <<st>>
    /\ Path(Passed(v), a, c)

Fine(l, a, b) == Whole(l) /\ Leads(l, a, b)

(***************************************************************************)
(* What linking knows of a call.                                           *)
(***************************************************************************)
AllRegular == \A chain \in Chains : RegularChain(chain)
CallFields == {"profiles", "Intent", "bpc", "flags", "from", "to"}
Visited == CHOOSE f : Visits(f, call.profiles)

\* Two profiles that are promised to link.
Assured ==
    /\ n = 2 /\ \A k \in 1..2 : Device(call.profiles[k]) /\ Sound(call.profiles[k])
    /\ cmsIsIntentSupported(call.profiles[1], Intent, Device2PCS16)
    /\ cmsIsIntentSupported(call.profiles[2], Intent, PCS2Device16)
Sure == IF link.handler = "DefaultICCintents" /\ Assured THEN TRUE ELSE FALSE
\* The space that the result is in, and the ones that the profile read is between.
Now == IF link.i > 1 /\ n = 1 /\ call.profiles[1].DeviceClass = "NamedColor"
       THEN call.profiles[1].ColorSpace ELSE link.Current
Then == IF Alone THEN p.ColorSpace ELSE ColorSpaceOut
From == IF link.i = 1 THEN EntryColorSpace ELSE ColorSpaceIn
\* A call is made of one of the chains.
Asked == call.profiles \in Chains /\ DOMAIN call = CallFields

\* The profiles that are linked, and the links that are left for later.
Counting ==
    /\ link.count \in 1..n
    /\ link.handler = "DefaultICCintents" => link.count = n
    /\ n >= 2 => link.count >= 2
    /\ \A j \in link.count + 1..n : is_cmyk_devicelink(call.profiles[j])

\* A table that keeps black goes from CMYK, and the links after it on to another space; it is
\* known only of spaces with the channels of CMYK that they are that.
Alike(c, d) == c = d \/ cmsChannelsOfColorSpace[c] = 4 \/ cmsChannelsOfColorSpace[d] = 4
Black(l, d) ==
    /\ Whole(l) /\ l.Elements # <<>>
    /\ \E c \in Known : Alike(c, d) /\ Path(l.Elements, Port("CMYK"), Port(c))

\* The stages of every pipeline in memory are a path.
AllWalk == \A id \in DOMAIN heap : Walkable(heap[id])

\* The call, and its intent once it was not refused.
Begun ==
    /\ at # "idle" => Asked
    /\ at \notin {"idle", "refused"} => Intent \in 0..3
Counted == at \in {"link", "profile", "connect", "keep black", "links"} => Counting
\* The result goes from where the chain begins to the space that is current.
Reached ==
    at \in {"profile", "connect"} =>
        /\ link.Result # Nil /\ link.i \in 1..link.count + 1 /\ Now = Visited[link.i - 1]
        /\ link.i > 1 /\ n = 1 /\ call.profiles[1].DeviceClass = "NamedColor" => link.Current = "Lab"
        /\ link.i = 1 => heap[link.Result].Elements = <<>>
        /\ link.i > 1 => Reads(heap[link.Result], Port(EntryColorSpace), Port(Now), Sure, Sure)
\* What was read goes between the spaces of its profile.
Fetched ==
    at = "connect" =>
        /\ link.i <= link.count /\ link.Lut # Nil /\ ColorSpaceIsCompatible(ColorSpaceIn, link.Current)
        /\ Reads(heap[link.Lut], Port(From), Port(Then), Sure, Sure)
\* The table that keeps black goes from CMYK to where the last link went.
LinkedTo == IF link.i = link.count + 1 THEN "CMYK" ELSE call.profiles[link.i - 1].PCS

Blackened ==
    /\ at \in {"keep black", "links"} => link.handler # "DefaultICCintents"
    /\ at = "links" =>
        /\ link.i \in link.count + 1..n + 1
        /\ link.Kept # Nil =>
            /\ Black(heap[link.Kept], LinkedTo)
            /\ link.i = link.count + 1 => Path(heap[link.Kept].Elements, Port("CMYK"), Port("CMYK"))
\* The result of a handler goes from the space of entry to that of exit.
Complete ==
    at = "linked" =>
        /\ link.Result # Nil
        /\ \/ Reads(heap[link.Result], Port(EntryColorSpace), Port(ExitColorSpace), Sure, Sure)
           \/ ~Sure /\ Black(heap[link.Result], ExitColorSpace)
\* The pipeline of the transform goes between its spaces.
Handed ==
    at \in Optimising =>
        /\ link.Lut # Nil /\ Fine(heap[link.Lut], Port(EntryColorSpace), Port(ExitColorSpace))
        /\ at = "preoptimise" => link.pass \in 1..Passes + 1
        /\ at = "try" => link.pass \in 1..4 /\ (link.pass < 4 => heap[link.Lut].Elements # <<>>)
\* What is promised fails only when memory runs out.
Promised == at \in {"error", "clean up", "refused", "keep black", "links"} => unlucky # {} \/ ~Sure

\* The inductive invariant of EncodingsMeet and SupportedLinks, with IInv.
CInv ==
    /\ AllWalk /\ Begun /\ Counted /\ Reached /\ Fetched /\ Blackened /\ Complete /\ Handed /\ Promised

(***************************************************************************)
(* Words, and the ones that say the same once they are reduced.            *)
(***************************************************************************)
IsLetter(a) == a = <<a[1], a[2], a[3], a[4]>>
IsWord(w) == IsSeq(w) /\ \A k \in DOMAIN w : IsLetter(w[k])
Tight(r) == IsWord(r) /\ \A k \in 1..Len(r) - 1 : ~Undoes(r[k + 1], r[k])
Pushed(r, w) == FoldLeft(LAMBDA x, a : Push(x, a), r, w)
\* What a word is after each letter that is pushed.
Writes(g, r, w) == g[0] = r /\ \A k \in 1..Len(w) : g[k] = Push(g[k - 1], w[k])

\* Where the elements of two sequences are when they are joined.
Chained(u, s, t) ==
    /\ IsSeq(u) /\ Len(u) = Len(s) + Len(t) /\ DOMAIN u = 1..Len(u)
    /\ Len(s) \in Nat /\ Len(t) \in Nat /\ DOMAIN s = 1..Len(s) /\ DOMAIN t = 1..Len(t)
    /\ \A k \in 1..Len(s) : u[k] = s[k]
    /\ \A k \in 1..Len(t), j \in Nat : j = Len(s) + k => u[j] = t[k]
    /\ \A j \in 1..Len(u) :
            (j \in 1..Len(s) /\ u[j] = s[j]) \/ (j - Len(s) \in 1..Len(t) /\ u[j] = t[j - Len(s)])
\* The letters of w are pushed one by one, after the first x steps of g.
Continues(g, x, w) ==
    \A k \in 1..Len(w) : \A i, j \in Nat : i = x + k /\ j = x + k - 1 => g[i] = Push(g[j], w[k])

Same(u, v) == \A r : Tight(r) => Pushed(r, u) = Pushed(r, v)

(***************************************************************************)
(* What stages say, one after another.                                     *)
(***************************************************************************)
Tale(s) == FlattenSeq([k \in DOMAIN s |-> s[k].word])
\* What has been said after each stage.
Telling(g, s) == /\ g[0] = <<>> /\ g[Len(s)] = Tale(s)
                 /\ \A k \in 1..Len(s) : IsWord(s[k].word) => g[k] = g[k - 1] \o s[k].word
\* The words of the stages are words.
Worded(s) == IsSeq(s) /\ \A k \in DOMAIN s : IsWord(s[k].word)

\* The stages of w are said one after another, after the first x steps of g.
TellsOn(g, x, w) ==
    \A k \in 1..Len(w) : \A i, j \in Nat : i = x + k /\ j = x + k - 1 => g[i] = g[j] \o w[k].word

Adds(z, u, v) == z = u \o v

Told(st) ==
    /\ DOMAIN st = StageFields /\ IsWord(st.word)
    /\ st.Implements \in DOMAIN Between \union {"Identity"} => st.word = <<>>
Tells(s) == IsSeq(s) /\ \A k \in DOMAIN s : Told(s[k])

\* What is said after k of the stages, each time with one more word.
Recounts(g, s) == /\ g[0] = <<>> /\ g[Len(s)] = Tale(s)
                  /\ \A k \in 1..Len(s) : Told(s[k]) /\ IsWord(g[k - 1]) /\ g[k] = g[k - 1] \o s[k].word

\* A pass keeps the tale of the stages, up to words that mean the same.
Retells(s, t) == Tells(t) /\ Same(Tale(t), Tale(s))

\* What has been passed, and what waits, say u.
Lasts(v, u) ==
    /\ DOMAIN v = {"done", "last", "stop"} /\ Tells(v.done) /\ IsWord(u)
    /\ v.last # <<>> => v.last = <<v.last[1]>> /\ Told(v.last[1])
    /\ Tells(Passed(v)) /\ Same(Tale(Passed(v)), u)

(***************************************************************************)
(* What pipelines say, and what optimising keeps of it.                    *)
(***************************************************************************)
Spoken(l) ==
    /\ DOMAIN l = LutFields /\ l.Eval16Fn = "_LUTeval16" /\ l.Data = Itself
    /\ Tells(l.Elements)
Said(l) == l = NULL \/ Spoken(l)

\* What was made of a pipeline says what it said, in 16 bits too.
Means(r, l) == Word(r) = Word(l) /\ Word16(r) = Word(r)

Says(l, u) == DOMAIN l = LutFields /\ Tells(l.Elements) /\ Same(Tale(l.Elements), u)
Meant(l, u) == Says(l, u) /\ Word16(l) = Reduced(u)

AllSpeak == \A id \in DOMAIN heap : Spoken(heap[id])
\* The inductive invariant of MeaningKept, with IInv and CInv: what keeps black is made of a
\* result.
MInv ==
    /\ at \notin {"done", "deleted", "undefined"} => AllSpeak
    /\ at = "keep black" => link.Result # Nil

\* The pipeline of the transform says what it said.
Retold == Means(heap'[link.Lut], Lut)

=============================================================================
