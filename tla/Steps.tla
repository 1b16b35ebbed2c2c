-------------------------------- MODULE Steps --------------------------------
(***************************************************************************)
(* What functions of Little CMS do with memory and with a stream, written  *)
(* as straight-line routines: a sequence of steps, each of which says what *)
(* is released when it fails.                                              *)
(***************************************************************************)
EXTENDS Integers, Sequences, FiniteSets, SequencesExt, FiniteSetsExt, Functions

(***************************************************************************)
(* op is the kind of step, on the block or the field what[at]; by is the   *)
(* holder of a block.  When a step fails, objects are the blocks that go   *)
(* with all that they hold, blocks the ones that go alone, and stops says  *)
(* whether the routine then returns NULL or FALSE ("fails"), returns what  *)
(* it has so far ("returns"), or goes on ("no").  A lapse is a failure that*)
(* the code does not expect, or after which it does not release what it    *)
(* should.                                                                 *)
(***************************************************************************)
Nobody == <<"", 0>>

Step(op, what, at) ==
    [op |-> op, what |-> what, at |-> at, by |-> Nobody, bytes |-> 0, mark |-> "",
     base |-> "", holds |-> TRUE, objects |-> {}, blocks |-> {}, stops |-> "fails",
     skip |-> 1, lapse |-> FALSE]

\* Memory: allocate, release with all that it holds or alone, hand over to a
\* holder, take from the holder.
New(b) == Step("new", b, 0)
NewAt(b, i) == Step("new", b, i)
Drop(b) == Step("drop", b, 0)
DropAt(b, i) == Step("drop", b, i)
DropOnly(b) == [Drop(b) EXCEPT !.holds = FALSE]
TakeAt(b, i) == Step("take", b, i)
GiveAt(b, i, h, j) == [Step("give", b, i) EXCEPT !.by = <<h, j>>]
Give(b, h) == GiveAt(b, 0, h, 0)
NewIn(b, i, h, j) == <<NewAt(b, i), GiveAt(b, i, h, j)>>

\* Streams.
Put(f, n) == [Step("put", f, 0) EXCEPT !.bytes = n]
PutAt(f, i, n) == [Step("put", f, i) EXCEPT !.bytes = n]
Get(f, n) == [Step("get", f, 0) EXCEPT !.bytes = n]
GetAt(f, i, n) == [Step("get", f, i) EXCEPT !.bytes = n]
\* Fill up to a multiple of four bytes, or read as far.
PutAlign == Step("putalign", "padding", 0)
GetAlign == Step("getalign", "padding", 0)
\* io->Tell into a variable, n bytes before; io->Seek to it.
TellAt(m, i, n) == [Step("tell", m, i) EXCEPT !.bytes = n]
Tell(m) == TellAt(m, 0, 0)
SeekAt(m, i) == Step("seek", m, i)
Seek(m) == SeekAt(m, 0)
\* A field that holds a variable less another, and the field read back into it.
PutVar(f, i, n, m, base) ==
    [Step("put", f, i) EXCEPT !.bytes = n, !.mark = m, !.base = base]
GetVar(f, i, n, m, base) ==
    [Step("get", f, i) EXCEPT !.bytes = n, !.mark = m, !.base = base]
\* m[i] becomes the number of bytes since m[i].
Span(m, i, from) == [Step("span", m, i) EXCEPT !.base = from]

\* A condition of the code, and a call that may fail for reasons of its own.
Require(c) == [Step("require", "condition", 0) EXCEPT !.holds = c]
Try(what) == Step("try", what, 0)

\* What a failure does.
Returns(st) == [st EXCEPT !.stops = "returns"]
B(b) == {<<b, 0>>}
Bs(b, S) == {b} \X S
\* (A failure that does not end the routine releases no more than it did.)
s ?? objects == IF s.stops = "fails" THEN [s EXCEPT !.objects = @ \cup objects] ELSE s
s !! blocks == IF s.stops = "fails" THEN [s EXCEPT !.blocks = @ \cup blocks] ELSE s
\* of(v), v evaluated once.
Let(v, of(_)) == CHOOSE y \in {of(x) : x \in {v}} : TRUE
Change(steps, of(_)) == Let(<<>> \o steps, LAMBDA s : [k \in DOMAIN s |-> of(s[k])])

\* The same for several steps, those of another routine too.
Within(objects, steps) == Change(steps, LAMBDA s : s ?? objects)
Freeing(blocks, steps) == Change(steps, LAMBDA s : s !! blocks)
Returning(steps) == Change(steps, Returns)
Anyway(st) == [st EXCEPT !.stops = "no"]
Overlooked(st) == [st EXCEPT !.lapse = TRUE]
Unasked(st) == Overlooked(Anyway(st))
\* The caller goes on when the routine fails, after what would be left of it.
Optional(steps) ==
    Let(<<>> \o steps, LAMBDA s :
        [k \in DOMAIN s |-> IF s[k].stops = "fails"
                            THEN [Anyway(s[k]) EXCEPT !.skip = Len(s) - k + 1]
                            ELSE s[k]])
\* The same, though what it returned is then taken for granted.
Heedless(steps) == Optional(Change(steps, Overlooked))
When(c, steps) == IF c THEN steps ELSE <<>>
\* A loop over the members of a set of numbers, from the least.
Each(S, steps(_)) ==
    FlattenSeq([k \in 1..Cardinality(S) |->
                  steps(CHOOSE x \in S : Cardinality({y \in S : y < x}) = k - 1)])
\* A loop over 0..n-1, as loops in C are.
Loop(n, steps(_)) == FlattenSeq([k \in 1..n |-> steps(k - 1)])

\* The bytes that routines write from offset base on, wherever they seek meanwhile.
Length(steps, base) ==
    LET moved(p, st) ==
          CASE st.op = "put" -> [p EXCEPT !.at = @ + st.bytes, !.end = Max({@, p.at + st.bytes})]
            [] st.op = "putalign" ->
                 LET at == p.at + ((4 - (p.at % 4)) % 4) IN [p EXCEPT !.at = at, !.end = Max({@, at})]
            [] st.op = "tell" -> [p EXCEPT !.marks = (<<st.what, st.at>> :> p.at) @@ @]
            [] st.op = "seek" -> [p EXCEPT !.at = p.marks[<<st.what, st.at>>]]
            [] OTHER -> p
        after(position, st) == Let(position, LAMBDA p : moved(p, st))
        start == [at |-> base, end |-> base, marks |-> <<>>]
    IN  Let(<<>> \o steps, LAMBDA s : FoldLeft(after, start, s).end - base)

\* The label of "goto Done", and the block that the routine returns.
Done == Step("done", "", 0)
Return(b) == Step("return", b, 0)
\* A block that the routine reads or writes: it must be there.
UseAt(b, i) == Step("use", b, i)
Use(b) == UseAt(b, 0)

\* Where the data of a tag begins, after its type and four reserved bytes.
TypeBase == 8

(***************************************************************************)
(* Calls.  A call keeps its blocks under a name of its own; needs is the   *)
(* name under which the object it works on was made.                       *)
(***************************************************************************)
Call(name, keeps, needs) == [name |-> name, keeps |-> keeps, needs |-> needs]
=============================================================================
