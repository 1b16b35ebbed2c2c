# Little CMS in TLA+

Models of [Little CMS](https://www.littlecms.com), checked with TLC on small
instances and, for what matters most, proved with TLAPS for every value of the
constants. Everything here is translated from the C sources of this repository;
`PROJECT.json` names, for each definition, the lines it stands for, and for each
property a change of the code's model that breaks it. A helper whose lines lie inside
those of the definitions it serves has no entry of its own.

- [The system](#the-system): its parts, their state, operations and hazards
- [The modules](#the-modules): which models what, and how it corresponds to the code
- [What the program must do](#what-the-program-must-do): the uses that are checked
- [The runs](#the-runs): what TLC checks, bounds, fairness
- [The proofs](#the-proofs)
- [Known defects](#known-defects): where the code does not do what it should, and what the properties leave out because of it
- [What is not modelled](#what-is-not-modelled)
- [The plan](#the-plan)

Run a model with `tlc -config Careful.cfg MCProfileFile`, check a proof with
`tlapm SchedulerProofs.tla`.

## The system

Little CMS opens ICC profiles, links them into a pipeline, optimises the
pipeline, and converts bitmaps with it. It is a library: its processes are the
threads of the program that calls it.

| Component | State it keeps | Operations | Interacts with |
|---|---|---|---|
| Tag directory (`cmsio0.c`) | arrays of names, links, pointers, handlers, sizes, offsets, raw marks, `TagCount`; the blocks they point to; `UsrMutex` | `cmsReadTag`, `cmsReadRawTag`, `cmsWriteTag` (also with NULL: delete), `cmsWriteRawTag`, `cmsLinkTag`, `cmsIsTag`, `cmsTagLinkedTo` | tag types read, write, duplicate and free the data; I/O handlers |
| Saving and opening (`cmsio0.c`) | header fields, the I/O handler, the file | `cmsSaveProfileTo...`, `cmsOpenProfileFrom...`, `cmsCloseProfile` | the same directory, twice over for a save |
| I/O handlers (`cmsio0.c`, `cmsplugin.c`) | pointer, size, used space of a file, memory block or NULL device | read, seek, tell, write, close | saving, tag types |
| Tag types (`cmstypes.c`) | none; a registry of handlers in the context | read, write, dup, free of some 30 types | I/O handlers, pipelines, curves, names |
| Contexts and plug-ins (`cmsplugin.c`, `cmserr.c`) | a list of contexts, each with 16 chunks, a sub-allocator; mutex of the list | create, duplicate, delete, register and unregister plug-ins | every component reads its chunk |
| Colour transforms (`cmsxform.c`, `cmsalpha.c`) | pipeline, formatters, flags, one-pixel cache, gamut pipeline; alarm codes in the context | create, delete, convert, change formats, set alarm codes | linking, optimisation, formatters, threaded plug-in |
| Threaded plug-in (`plugins/threaded`) | the array of slices, thread handles | schedule one conversion over threads | takes the place of a transform's routine |
| Pipelines (`cmslut.c`) | a list of stages, each owning its data; channel counts | alloc, insert, unlink, cat, dup, evaluate | optimisation, tag types |
| Optimisation (`cmsopt.c`) | replaces the pipeline and its evaluator | remove and merge stages, resample, pre-linearise | transforms; the format it is asked for may be changed |
| Linking (`cmscnvrt.c`, `cmsio1.c`, `cmsgmt.c`, `cmssamp.c`) | none; the colour space carried from profile to profile | `_cmsLinkProfiles`, readers of tables, gamut pipeline, black points | profiles, pipelines |
| Formatters (`cmspack.c`, `cmshalf.c`) | none; a registry | unroll and pack pixels in many layouts | transforms |
| Names (`cmsnamed.c`) | strings in a growing pool with a table; colour lists; sequences; dictionaries | set, get, translate, dup, free | tag types |
| CGATS (`cmscgats.c`) | tables, file stack, scanner | parse, query, set, save | none |
| Curves (`cmsgamma.c`), virtual profiles (`cmsvirt.c`), PostScript (`cmsps2.c`) | what they are building | build, join, reverse; make profiles and device links; write resources | pipelines, profiles |
| Interpolation, colour science, MD5 | tables, or nothing | numeric | pipelines, profiles |

What makes these hard, and what makes them correct:

- **Tag directory.** Eight parallel arrays and a heap are changed together by calls
  that can stop half-way; links alias entries; a raw tag and a cooked tag share
  a pointer; three calls look at the directory outside the mutex. Correct means:
  every block has one owner; a name has one entry; a read changes nothing; a
  write touches its own tag; every lookup ends; to a client it is a dictionary;
  to a thread it is one that only it changes.
- **Saving.** The first pass computes, from the same mutable arrays, the offsets
  that the second pass must hit; links are filled by copying from entries that
  may not be final; what was not read is copied from the old file. Correct
  means that opening the result gives the dictionary that was saved.
- **Tag types, curves, virtual profiles, PostScript.** Hundreds of allocations, reads
  and seeks, each of which may fail, with clean-up by hand on each way out. Correct
  means: nothing is left behind or released twice, a duplicate is whole, and a
  reader finds each field where the writer put it.
- **Transforms.** Several threads convert through one transform with a cache;
  formats change after the pipeline was specialised; flags, formats and
  pipelines that may be missing choose between seven routines. Correct means
  that each pixel is the image of its own input.
- **Threaded plug-in.** Threads of any speed share two bitmaps, possibly the same
  one; memory and threads may be refused; addresses are 32-bit products.
  Correct means the result of one thread, no thread left behind, and an end.
- **Contexts.** A global list without back pointers, walked before every access to a
  setting, while other threads link, unlink and half-build contexts; memory that
  belongs to the handler of one context or another. Correct means that each
  context is a set of settings of its own and each pool returns where it came from.
- **Linking and pipelines.** Lab in two 16-bit encodings, XYZ, floats: a conversion that
  is missing or doubled shifts every colour a little. Ownership of stages passes
  between lists, and a failed insertion leaves the stage linked. Correct means that
  stages meet, each profile counts once, optimising changes nothing, and failures
  leave nothing.
- **Formatters.** Over a hundred routines and four tables of masks decide where a channel is found.
  Correct means that packing gives the layout of `lcms2.h` and unrolling undoes it.
- **CGATS.** Cells rewritten in place, with or without quotes, read back as other
  kinds of symbols; a stack of included files; limits counted in several ways.
  Correct means that what was set is found, in the array, and loading ends.

`PROJECT.json` lists each of these hazards at its line with the properties that
cover it, or why none does.

## The modules

```
TagDirectory ─┬─ ProfileFile ── MCProfileFile     Careful, Careless
              │      │  └────── ProfileFileProofs
              │   TagStore (abstract; Dictionary == INSTANCE TagStore WITH ...)
              ├─ SharedProfile ─ MCSharedProfile  Shared
              │        └──────── SharedProfileProofs
              └─ TagDirectoryProofs (lemmas that the other proofs cite)

Scheduler ── MCScheduler                          Threads
    └─────── SchedulerProofs

Transform ── MCTransform                          Transforms, FloatFormats
    └─────── TransformProofs

Steps ─┬─ Allocations ── TagTypes ── TagTypesLut ── TagTypesSets ── TagHandlers
       ├─ Measurements ── PostScript
       ├─ VirtualProfiles
       └─ Routines ── MCRoutines                  Routines

Formatters ── PixelBuffer ── MCPixelBuffer        Formatters

Contexts ─┬─ MCContexts                           Contexts, Replaced
    │     └─ ContextsProofs
    └─ ContextStore (abstract; Store == INSTANCE ContextStore WITH ...)

Stages ─┬─ ProfileLuts ─┐
        └─ Optimisers ──┴─ Linking ─┬─ MCLinking                              Linking
                                    └─ LinkingInvariants ── LinkingProofs

IT8Tables ── IT8 ─┬─ MCIT8                                                    IT8
                  └─ IT8Proofs
```

### TagDirectory, ProfileFile, TagStore, SharedProfile

| In the module | In the code |
|---|---|
| `slot[i].name, linked, raw, ptr, handler, size, off` | `TagNames[i-1]`, `TagLinked`, `TagSaveAsRaw`, `TagPtrs`, `TagTypeHandlers`, `TagSizes`, `TagOffsets` |
| `count` | `TagCount` |
| `heap` | the blocks of the profile's allocator; a `cooked` one is a structure, a `raw` one bytes |
| `file` | what `IOhandler` reads: blocks by offset, and the length; `NoFile` when it is NULL |
| `fate` | did the last call return? `hung` in a lookup, or `crashed` through the null handler |
| `answer` | the last call, its tag, and what it was given or returned |
| `UsrMutex`, `seek` | who holds the mutex; the position of the one `IOhandler` |
| `call[t]` | where a thread is in its call, and what it remembers: `pos`, where the raw read or the write found its tag, `n`, where `cmsReadTag` did |

In `ProfileFile` each call is one action; its failures are disjuncts of that action,
each with exactly the fields that the code had changed by then. `Careful`
restricts the client to the documented uses: it does not read as cooked what it
wrote as raw, writes a tag without descriptor as raw only, and links a tag to one
of the same kind and not into a cycle. `Faults` lets allocations, duplications and
I/O fail. In `SharedProfile` the same directory is used by threads, and a call takes
the steps between which the mutex is free or its holder can be overtaken: the search
and the seek, the read, the look at `TagPtrs` after the unlock (1876), the raw read's
unlock around `cmsReadTag` (2103) and its return to a position that may be stale, the
raw write's last look (2183).

A tag's contents are a payload with a type and a width in words. The directory
and the header are one word; that is enough to tell offsets apart. `SavedFile` is
the outcome of both passes; `ReadDirectory` is what `_cmsReadHeader` makes of it,
with its rules for dropping entries and for taking twins as links.

`LinkPath`, the positions that a lookup passes through, is the least set that holds
the first one and is closed under `Hop`; the loop of `_cmsSearchTag` ends exactly when no position of
it is passed twice. `TagStore` is the abstract specification: a dictionary of data and links, in
which a tag may have an entry without data. `ImplementsDictionary` says that a careful
client cannot tell the difference, `Entry` being the refinement mapping; `ReadsArePure`
that no read changes what `Entry` gives for any tag.

`SharedProfile` starts from any well-formed file of the tags that nobody writes (`Opened`): which
positions they are in, which are links, and what else is in the table is left open, as is the
address that an allocation gives. The run takes one such file and treats addresses
that are free as alike.

### Scheduler

The first part of `Scheduler` is the arithmetic of `threaded_split.c` as operators, modulo `WordSize`:
sizes, strides, the number of workers, the shares, and the address of each
slice. The second is one call of `_cmsThrScheduler`: `phase` and `i` are the calling
thread's place and loop variable, `slices` the allocated array, `thread` the fate of
each worker, and `task`, `pos`, `fetched` where each thread is in its piece. `mem`
holds, for each byte of the bitmaps, the address of the pixel that it is the image
of; reading a pixel and writing it are two steps, so an overlap of slices, or
an in-place conversion that goes wrong, shows as `Garbage`. A thread that could
not be created is not noticed by the code, and joining its null handle is
undefined: an error, or the end of the program.

Not enumerated: several lines with no distance between them (the code repairs
this only when it splits), and in-place conversion between formats of
different size, which the tutorial rules out.

### Transform

| In the module | In the code |
|---|---|
| `xform.in, out` | `InputFormat`, `OutputFormat` |
| `xform.from, to` | the formatters in use: `FromInput`/`ToOutput`, or the float ones |
| `xform.flags`, `routine` | `dwOriginalFlags`, `xform` |
| `xform.eight` | the pipeline was optimised for 8-bit input |
| `xform.gamut` | `GamutCheck # NULL` |
| `xform.cacheIn, cacheOut`; `call[t].cacheIn, cacheOut` | `Cache` of the transform; the copy on the stack of `CachedXFORM` |
| `codes` | the alarm codes of the context |
| `call[t]` | where a thread is in the loop over pixels, its `wIn` and `wOut`, and the last pixel written |

A colour is the values of all channels. `Image(c)` is the pipeline's answer,
`Rough(c)` the answer of an 8-bit pipeline to what 8 bits cannot hold, `Junk` what a
formatter finds in a buffer of another format. The steps of the loop (unroll,
look, evaluate, keep the key, keep the value, pack) interleave between
threads. Setting alarm codes, changing formats and deleting happen between
calls: the code does not protect them, and says nothing that would allow more.
Evaluating a gamut pipeline that could not be built ends the process (`Crash`).

### Routines and what runs on it

Most of Little CMS is straight-line code that allocates, reads, writes, seeks and
cleans up. `Steps` is a small language for it: a routine is a sequence of steps
(`New`, `Drop`, `Give` to a holder, `Take`, `Put`, `Get`, `Tell`, `Seek`, `Require` a condition,
`Try` something that may fail), each with what is released when it fails, which is what
the `goto Error` of the C function, or the lack of one, releases. `Routines` is the
machine: `live` and `gone` blocks, the `holder` of each, the `stream` of fields by offset,
the `cursor`, the variables that hold offsets (`marks`). **Any step that can fail may
fail, wherever it is.** A failure that the code does not look at, or after which it is
known not to release what it should, is a *lapse*; lapses are marked step by step in the
modules and are switched off in the run (`Lapses = FALSE`), so the properties hold of
all failures the code handles, and the marked steps say which it does not. `Astray` are the jobs that
write MHC2, whose writer does not go back to the end of what it wrote; `WritesToTheEnd` leaves them out.

`Allocations` has the constructors and duplicators of stages, pipelines, curves, strings,
lists, sequences and dictionaries; `TagTypes...` the four functions of each tag type
of `cmstypes.c`, from numbers to multi-process elements with their position tables;
`TagHandlers` the three tables of that file (types of a tag, the type decided by version
and data, handlers of a type). `VirtualProfiles`, `Measurements` and `PostScript` have
the functions of `cmsvirt.c`, `cmsgmt.c`, `cmssamp.c` and `cmsps2.c`. `MCRoutines` makes jobs of
them: write an object, read it back, duplicate, free both; or read a file of
somebody else. Values are names of fields with a width: what is checked is where a field
is, not what number it has.

### Formatters, PixelBuffer

A pixel format is a record of the bits that `lcms2.h` packs into a word. `Formatters`
has the routines of `cmspack.c`, each as the function from channels to places in memory
that it computes, and the four tables in which the code looks for them, in their
order. `PixelBuffer` is the memory around one pixel: a packer fills it, or the client
does as `lcms2.h` says (`Picture`), and an unroller reads it; `CopyExtra` is
`cmsalpha.c`, which finds the extra samples by turning a list of its own.

### Contexts, ContextStore

`context` is the memory of contexts, `head` and `next` the list, `mutex` its mutex; a
chunk remembers which pools its nodes are in, a pool by whose functions it was allocated. Creation,
duplication and deletion take the steps that other threads may come between: the
structure, the two assignments that link it, the pool, the chunks, the plug-ins.
`DefaultMemoryManager` and `MemPlugin` are the functions of the context itself and the copy of
them that a duplicate has in its pool; a memory handler, given at creation or to a context that
is there, is written over those in force (`_cmsRegisterMemHandlerPlugin`), and the blocks that a pool grows by later
come from it (`Growing`; whether there is room in the last block is left open). `replaced` remembers that this was done, or
duplicated, and which contexts `PoolsFreedAsMade` therefore leaves out; `EveryPoolFreedAsMade` leaves none out,
and is violated. The pool of the global context is left out.
The first part of `Contexts` says for each of the clients what its chunk is (a list, a plug-in,
a setting). `ContextStore` promises that a context is a function from clients to
settings, made, copied and changed at one moment between a call and its return;
`Implements` is the refinement. `Scarce` adds failing allocations after the structure; it is
off in the run because a chunk that is missing is silently taken from the
global context, see [below](#known-defects). The nodes that a walk of the list reaches are the
least set that holds the head and is closed under `next`. `ContextStore` takes as constants what
each client makes of a plug-in (`Brought`, `FirstBad`, `Unregistered`), so that both
specifications speak of the same plug-ins.

### Stages, ProfileLuts, Optimisers, Linking

What a stage computes is a *word*, the parts of profiles that a colour goes through, in
which a part and its inverse cancel; what its numbers mean is an *encoding* at each end.
`ProfileLuts` is `cmsio1.c`: which of the tags of a profile becomes which stages, with
the conversions between encodings. `Optimisers` is `cmsopt.c`: the pairs of stages that are
removed, the products of matrices, and the four optimisers with their conditions.
`Linking` is one call of `cmsCreateExtendedTransform` step by step, through the default
and the black-preserving intents, the checks of channels, the optimisation, and the
deletion. `OutOfMemory` may happen at each step that allocates: it ends the call, or passes an optimiser over,
or, where `_MultiplyMatrix` cannot have the product of two matrices, leaves the pipeline without both
(`MatricesLost`, where `EncodingsMeet` and `MeaningKept` end). `unlucky` is the set of places where it happened. `heap` holds the pipelines by
number, so that one that is forgotten shows: `link.Result`, `Lut`, `Kept` and `LabK` are
the local variables (and `p->Lut`) that hold the number of one. Two failures leave a variable that
is freed or NULL and goes on being used; there the call ends in the place `undefined`.

### IT8Tables, IT8

`IT8Tables` has the tables (properties with their subkeys, columns, cells) and the functions
that a program calls on them, what saving writes, as symbols, and the
scanner with its stack of included files, one character late as in the code;
`IT8` the parser, symbol by symbol and pair by pair, and the program, which keeps a `book` of what
it asked to be kept, and in `made.todo` the rest of the calls that it has begun. A text is a sequence
of words: that is what quoting depends on. `ValidKeywords` maps the keywords that are known to how
their values are written. `stray` remembers that a name or a cell outside of its array was used.

## What the program must do

Some properties hold of programs that keep to a contract which the code relies on
and does not enforce. It is part of the actions, and it is this:

- *Profile*: `Careful`, above; `careless` is without it.
- *Shared profile*: a tag is written by one thread only, and other threads read the tags
  that nobody writes. Otherwise `cmsReadTag` returns what another thread frees.
- *Transform*: formats, alarm codes and deletion while no thread converts; a float
  transform keeps its formats (`float_formats`).
- *Contexts*: a context is used by one thread; the global one is changed while nothing else runs.
  Its memory handler, and that of a context, may be changed at any time.
- *CGATS* (`Allowed`): a table whose cells are allocated gets no array of names any more; values
  are put by name where columns have names; counts are no keys of pairs; tables are counted
  from 1. `Kept` also needs that a row is named before it is used by name, keys of pairs are
  set as pairs, one pair each, columns are below the number of fields, the sheet type of the first
  table is one word, and a container loaded with empty cells is not saved. `ReadingEnds` needs nothing of the
  program, but leaves out reading that has come into a file which ends in an include of itself, or
  of one that leads back to it (`EndlessFiles`).

## The runs

| Run | Shows | Bounds |
|---|---|---|
| `careful` | `CallsReturn`, `ReadsArePure`, `SavePreserves`, `ImplementsDictionary`, and types, for a careful client | tags A, B and C of one kind and P without descriptor; 2 payloads, of different width, one malformed; 2 addresses; 3 positions, the third in use only for chains of links on one narrow block (`ThirdIsOfAChain`) |
| `careless` | `Ownership`, `NamesUnique`, `ReadsFreeOnlyMisread`, `WritesAreLocal` for any client, with failures | tags A and P; 2 positions, 2 addresses |
| `sharing` | `AnswersHold`, `OneAtWork`: threads get what their tags were last given; no deadlock | 2 threads with 2 calls each; a tag of each, two in the file and a link; memory may run out |
| `threads` | `SlicesApart`, `ConvertsAll`, `ThreadsEndFirst`, `CallsComplete` | 11 calls of up to 9 pixels, up to 4 threads, words up to 63, failures |
| `transforms` | `ChangeableIsExact`, `PixelsConverted` | 2 threads, 3 colours, 3 supported formats (8 bits, 16 bits, double), one unsupported and format 0; 6 sets of flags; 3 buffers of 2 pixels; gamut pipeline may fail |
| `formatters` | `LayoutKept`, `ChannelsRead`, `StepsOnePixel`, `ExtraKept` | every named format of `lcms2.h`, and every combination of flags on 1, 3 and 4 channels of each size |
| `routines` | `NothingLeaks`, `ReleasedOnce`, `DuplicateIsWhole`, `ReadsWhatWasWritten`, `WritesToTheEnd`, `WellNested` | every tag type with objects of one to three elements, files of others with each irregularity the readers ask about; every maker; any step failing |
| `contexts` | `ListIsWhole`, `PoolsFreedAsMade`, `Implements`, `CallsEnd` | 2 threads, 2 contexts, a client of each kind, 4 bundles of plug-ins, one with a memory handler, 3 calls and 1 |
| `linking` | `EncodingsMeet`, `EachProfileOnce`, `MeaningKept`, `NothingHeld`, `SupportedLinks` | 40 chains of 1 to 5 profiles of 21 kinds, 4 intents, 4 sets of flags, 3 pairs of formats, memory may run out at each step |
| `cgats` | `Kept`, `CellsFit`, `ReadingEnds` | 3 openings, two out of 19 calls (one of them shapes a table, in four steps), two saves; a well-made file with each of its symbols replaced by each of 17 parts, one of them empty, four of them includes |
| `float_formats` | `FormatsHonoured` fails: a disagreement, [below](#known-defects) | 1 thread |
| `replaced_handler` | `EveryPoolFreedAsMade` fails: a disagreement | 1 thread, 2 contexts, the bundles of `contexts` |

Why these bounds are enough. *Directory*: what can go wrong involves a tag, a
tag linked to it, and a third beside them: two positions show a full table,
deletion and shifting offsets, and three show a chain, over which `SetLinks` and reopening
depend on order; the calls go on from three positions only while one block is behind them, and
after a deletion only in a profile that was not opened from a file. The malformed payload and
the two widths make reads fail and blocks move. One address more than live
blocks is not needed, since a block is freed before the next one is taken, and
running out is the same as a failed allocation. *Sharing*: what one thread can do
between the steps of another is one call at most by the mutex, and two by the
stale position; the link lets two names lead to one position. *Scheduler*: the jobs cover rests that do
not divide, more slices than lines, none at all, in place, planes, padding,
doubles, a limit that makes no sense, and a block that cannot be allocated; the
machine's word shrinks to 64 values so that wrapping is near. *Transform*: the
colours are the one a fresh cache holds, an easy one and one that 8 bits cannot
hold; the first is out of gamut, so that a mark gets into a cache; buffers repeat
a colour and change it. A cache of one pixel has no memory beyond that.
*Formatters*: the routines look at nothing but the flags and counts enumerated; up to 16
channels they are loops. *Routines*: loops run zero, one and two or three times, which
shows what is kept of the first when the second fails. *Contexts*: two list
nodes make a first and a last one, and a third only another in the middle; one thread's
three calls make, copy and delete while the other is between any two steps.
*Linking*: a step looks at the profile, the one before and whether there is one after;
the chains pair every form of table with every connection space. *CGATS*: two rows, two
columns, two tables; the sections of the parser are left and entered by single symbols, so a
file with one wrong symbol reaches each of its states with each symbol.

Deadlock is checked for `transforms` and `sharing` (where it shows that no call
waits for the mutex for ever). The other runs end by their nature: a call that never
returned has no successor, a bitmap is converted once, jobs and budgets of calls
end; they do not look for deadlocks.

Fairness is assumed in four runs. `threads`: weak fairness of the calling thread and of each
worker, that is, the operating system runs every thread that can run; nothing there
waits for anything but the end of a thread. `contexts`: weak fairness of each
thread within a call; whoever waits for the list waits for a critical section of
two or three steps, and as calls are few, weak fairness is enough. `linking` and `cgats`: weak
fairness of one call, which runs in one thread and waits for nobody: it goes on as long as
it has a next step. No fairness is assumed of the program.

## The proofs

All proofs are checked by TLAPS to the last leaf, from the `ASSUME`s in the modules, which
give the constants their types. `WidthAssumption` says that a payload takes at least
a type base, `WordAssumption` that offsets are below `MaxWord`,
`CallsAssumption` that tables are counted from 1. Where a theorem needs
more, it says so: `Careful = TRUE` and `Faults = FALSE` are the documented client, `RoomFor(W)` a
file with room for as many payloads of `W` words as the table has tags (else 32-bit
offsets wrap), `AvoidTypeCheck = FALSE` a context that checks types.

**TagDirectoryProofs**: what the lookups find (`SearchOneTagFinds`), that following links from a
tag gives a path with one end or none (`OneEnd`, `SearchTagEnds`), and when a
lookup in a changed directory finds what it found before (`SameSearch`, `EndsAfter`,
`EndsBefore`, `FoundElsewhere`). A path is a least set, so that a property of all of
it is shown by exhibiting a set that is closed under `Hop`. There is no induction over the path.

**ProfileFileProofs**, for any number of tags, payloads, types, addresses, table entries:

- `TypeCorrect`, `EveryBlockOwned`, `OneEntryForEachName`, for careless clients
  and all failures too. `Ownership` (no block without owner, none with two, no dangling pointer)
  is not inductive: a new position might come with a pointer, and data without
  handler that is not raw would be overwritten, not freed, by
  `_cmsDeleteTagByPos`. `OwnershipInv` adds `Fresh` (positions beyond `count` hold nothing) and
  `Freeable` (data is raw or has a handler). The five calls that change a position are
  reduced to three lemmas: a position is emptied, filled with a fresh block, or
  left alone. `NamesUnique` speaks of the positions in use; `UniqueNames` adds that the
  others have no name, since the next one is taken into use before it is named.
  `PlaceUnique` is the core: the position that `_cmsNewTag` gives either has the name that
  is written, or has none and no other position has it.
- `WritesStayLocal`, `ReadsFreeNoOther`, for any client: action properties, from the
  same invariant. A write stores at one position, whose name is its tag or nobody's
  (`WritesChangeOnly`), and a lookup of another tag that does not pass there is
  the same afterwards.
- `DocumentedCallsReturn`. `CallsInv` adds to the above `LinksEnd` (every chain of links ends), and
  `Held`: raw data is in memory, links join tags of one descriptor, structures are of
  a type their tag takes, and a profile without file has its data in memory. The hard
  case is opening what was saved: `_cmsReadHeader` makes links anew, of any two entries
  with one extent, each to the last one before it. They end because a link made there goes to an earlier
  position (`FoundBefore`); the smallest position whose chain would not end has a link to
  one whose chain ends.

And, about what tags mean:

- `SavingPreserves`, from `RoomFor`, for any client and all failures. `Sized` says that sizes in the
  directory are those of payloads. The offsets of the second pass are sums of
  the sizes before them (`UsedSpaceAddsUp`), so blocks do not overlap and fit the file
  (`UsedSpaceFits`); `SettledExtent` shows that `SetLinks` gives a tag whose links are settled the extent
  of the end of its chain, and `SettledKept` that reading the directory finds it there.
- `ImplementsStore`: the refinement of `TagStore`, call by call, from `StoreInv` (`CallsInv`, `Sized`, every
  structure has the handler of its type, blocks end within the file). `DirectIsSettled`
  shows that a link to an entry with data survives a save, as the abstract save says.
- `ReadingIsPure`, from the same invariant, also in a context that does not check types.

**SharedProfileProofs**, for any number of threads, calls and tags, whatever the file holds:

- `OneWorks`: a thread is between a lock and an unlock exactly while it
  holds `UsrMutex`. The invariant adds to `OneAtWork` that the mutex is held by a thread or by
  nobody, and that each thread is somewhere; nothing about the directory is needed. Each
  step is one of three kinds (`Takes`, `Releases`, `Aside`), and `GoesOn` shows that these keep
  the invariant; the raw read is the interesting one, since it must have let go
  when it calls `cmsReadTag`, which locks a mutex that is not recursive.
- `ThreadsGetAnswers`, from any well-formed file (`Opened`; the initial states of the run are some of
  these). The invariant `Answers` has, beside the directory's, one part for tags
  (`TagInv`: where a tag is found, there is what it was last given, in the file or in memory; a tag that its owner
  is between two steps of writing is the owner's) and one for calls (`CallInv`: what a
  call remembers, its position, pointer or file position, is still so). `TagKept` and `FitsKept` show that a step
  of one thread keeps these for the tags and calls of the others: it stores at a position with its own
  name or none, which no other tag's path contains.

**TransformProofs**: `TypeCorrect`; `ChangeableTransformsAreExact`, whatever the client
does; and `EveryPixelConverted`, for a client that does not change the formats of a float
transform (`Careful`; `float_formats` shows why). The inductive invariant has
two parts. `XformInv`: the cache of the transform is a colour with what became of it
when the transform was created, and the routine and the formatters fit the
flags. `CallRight`: at each place of the loop, the thread's own cache is a colour with
its result, except between writing the key and writing the value, and
`wIn` and `wOut` belong to the pixel that was read. It is needed because a pixel
taken from the cache is only as right as the step that put it there. No thread writes the
transform's cache, which is why any number of them can share it.

**SchedulerProofs**:

- `SlicesPartition`: each line (or pixel) belongs to exactly one slice. From the
  division lemma `Quotient`: the shares are `total \div n` each, and the last one takes
  the rest, which is less than `n`.
- `MemoryDoesNotOverlap`: no slice writes a byte that another one reads or writes,
  for chunky formats and any call that `Fits`: sizes and strides below 2^32 with lines
  that do not overlap, and buffers that are apart or identical. The slices are
  shown to be translates of consecutive regions (`RegionsFollow`, `RegionsApart`,
  `CellsInside`), and `NoWrap` shows the products stay below the word.
- `NoThreadSurvives`: the call does not return before its threads ended. `ThreadInv`
  relates `phase`, `i` and the fate of each thread: those below `i` are made or, while
  joining, ended; those from `i` on are not yet made or not yet joined; the array is
  there as long as a thread could look at it.
- `EveryPixelOnce`: `ConvertsAll`, for jobs that `Converts`: they fit, pixels have components, several
  lines have a distance, and in place the pixel keeps its size. `ConvertInv` says of each thread at work that what it
  has written are the images of its first `pos` pixels, that what it has fetched is the image of the next, and that
  every byte that changed was written by one of them. It is kept because a piece reads
  ahead of what it writes (`ReadsAhead`) and pieces are apart (`PiecesApart`, from
  `MemoryDoesNotOverlap`); at the end `SliceHasPixel` finds the thread that each pixel belongs to.

**ContextsProofs**, for any number of threads, contexts and plug-ins:

- `ListStaysWhole`, `PoolsGoBack`: `ListIsWhole` and `PoolsFreedAsMade` are parts of `IInv`. What is reached from the
  head is a least set, so linking adds one (`Linked`) and unlinking
  takes one out (`UnlinkedFirst`, `UnlinkedOther`), if no node has two predecessors (`OneBefore`). `ListInv` says
  which contexts are in the list: those of the program, and those of calls
  that have linked theirs and not yet unlinked it. `PoolInv` has to say that, unless the handler was `replaced`, all
  of a pool was allocated by the context's own functions, that the copy in the pool is the same ones, and
  that it is forgotten before the pool is destroyed; a plug-in that brings another handler makes the context `replaced`.
- `ImplementsSettings`: the refinement of `ContextStore`, if memory is not `Scarce` (see
  [below](#known-defects)). `FillInv` adds that no chunk is missing in a context that the program has. The
  creation, duplication or change takes its effect at one step (`SetupMaps`, `AllocMaps`, `ChangeMaps`), all
  others are stutters.

**LinkingProofs**, for any chains of profiles, intents, flags and formats (the invariants, and what
they say of a pipeline, are in `LinkingInvariants`):

- `FailuresLeaveNothing`: `NothingHeld`, whatever is in the profiles. It speaks of the end of a call; on the way, it
  matters which variable holds which pipeline. `IInv` says that the pipelines in memory are those that
  the variables hold and those of appended links (`Owned`), that no two variables hold the same one
  (`Apart`), else it would be freed twice, and which variables are empty at each place of the
  call (`Idle`), since a variable that is overwritten while it holds something is a leak. `Plain` says that only
  the handlers that keep black make a table; after another handler nobody would free it. A new pipeline gets a
  number that is free (`FreshIsFree`). The steps of the call are of a few kinds (`Makes`, `Frees`,
  `HandsOver`, `Forgets`), each with its lemma. What a pipeline computes is not looked at.
- `EncodingsAlwaysMeet` and `SupportedAlwaysLinks`: `EncodingsMeet` and `SupportedLinks`, for chains whose profiles
  are regular (`RegularChain`). A regular profile has tables in the types of their tags, of curves, tables
  and matrices, and spaces that fit its class; it may lack any tag, and its tables may have the wrong number
  of channels. `MCAssumption` makes TLC evaluate that the chains of the run are regular, those of profiles with
  wrong tables too; which irregular ones the code links wrongly is [below](#known-defects).
  The inductive invariant is `CInv` with `IInv`. A `Path` is a sequence of stages each of which takes what the one
  before it gives, encoding and channels. `CInv` says of each variable of the call where the path of its pipeline
  leads: `Reached`, that the result leads from the entry space of the chain to the space that is current,
  which is the one that `GetXFormColorSpaces` finds on its own, in another loop, after so many profiles (`Visited`);
  `Fetched`, that what was read leads between the spaces of its profile; `Blackened`, that the table that keeps
  black leads from CMYK to where the last link went; `Complete` and `Handed`, that the result and the
  optimised pipeline lead from the entry space to the exit space. `AllWalk` is about pipelines that nobody uses any more.
  All that is known of a profile with unsound tables is where the encodings lead (`Runs`); the channels agree
  once `BlessLUT` has found them to (`PathsMeet`), and are those of the spaces (`Leads`)
  once the last check of `_cmsLinkProfiles` has passed. `Promised` is what `SupportedLinks`
  needs: where the code gives up, memory had run out, or what was asked was not `Sure`: two devices with sound tables that
  support their intents.
  The lemmas say where stages go when they are allocated (`Allocated`, `Conversions`), what is
  read of a profile (`InputReads`, `OutputReads`, `LinksRead`, over all forms of tags), what `AddConversion` and
  `cmsPipelineCat` make (`CatReads`), that the passes of `PreOptimize` keep where a path leads
  (`PreoptimisedLeads`), and that each optimiser does (`JoiningFine`, `ShaperFine`, `LinearizationFine`,
  `ResamplingFine`). Four of these operators are folds. `FoldIs` unrolls one: a fold is a value of a recursive function of
  the sets of indices, whose existence is shown by the least number for which there is none (`FoldsExist`); so there is
  a sequence of what is accumulated, from the base, by one element at a time, and
  an invariant of it is shown by the set of indices where it holds (`Rising`).
- `OptimisingKeepsMeaning`: `MeaningKept`, an action property, for the same chains. What a pipeline says is the tale of
  its stages (`Tale`, all their words one after the other), reduced. Two words are the `Same` if pushed onto any tight
  word, one without neighbours that undo each other, they leave the same one; this is kept by joining words
  (`SameJoin`), so a part of a pipeline can be replaced by one that says the same, which the reduced word
  alone does not show. `PushBack` is what it rests on: a letter and the one that undoes it leave a tight
  word as it was. So a word means the same as its reduction (`ReducedSame`), which is what a table or joined
  curves are made of. `MInv` says that until the transform is optimised every pipeline in memory is `Spoken`: its 16-bit
  routine is the one that goes through the stages, the stages say words, and those that are known by what
  they implement as identities or conversions say none; that is why `_Remove1Op` and `_Remove2Op` may take them out by
  their kind alone (`Remove1Tells`, `Remove2Tells`, `MultiplyTells`). Everything that is read of a regular profile is
  (`InputSaid`, `OutputSaid`, `DevlinkSaid`), and all that is made of it. Each optimiser is shown to make a pipeline
  that is `Meant`: its stages say what those of the old one did, and so does the data of
  its 16-bit routine (`JoiningMeans`, `ShaperMeans`, `LinearizationMeans`, `ResamplingMeans`, `WhiteMeans`).

**IT8Proofs**, for any limits, any program whose calls are `Allowed`, and any files, well made or not:

- `CellsAreInside`: `CellsFit`. An index is compared with the counts `nSamples` and `nPatches` of the table,
  while the arrays are as long as the counts of the header were when each was allocated, names and cells at
  different times. `TableOK` says that these agree: the array of cells is as long as the counts say, a
  row and a column longer (`CellIsThere`); and when columns have names, the header still has the number of fields
  that they were allocated for (`Given`), so that allocating the cells, which reads it again, does not
  change it. This is so because counts are not edited and no pair is taken for one (`AddToListKeeps`). A file
  could give the names of a table after its cells, with another number of fields: `ReaderOK` says
  that the parser never goes on in a table with cells, it is in their section, or goes to the
  next table, or stops (`Left`). What is in a cell does not matter, but where labels are cooked (`LabelCellsAreThere`).

Checked by TLC only:

- `CallsComplete`, `CallsEnd` and `ReadingEnds`: liveness under fairness, which this prover does not do.
- `ConvertsAll` for planar formats and threads over bitmaps that do not fit, as
  far as the run has them.
- `Kept` of `cgats`: that a file is read back as it was written is about what `FlattenSeq` makes of
  all tables, rows and cells.
- `EachProfileOnce` of `linking`: it is about the names left in a word after layers are filtered out, and leaves
  out profiles by one of their tags (`HasStages`), as it suits the chains of the run; profiles whose tables are
  empty in one direction only would need another wording.
- `formatters` and `routines`: these are about particular routines, and enumerate them all.

## Known defects

Two runs end with a counterexample, and each was confirmed by a small program linked with the library:

- `float_formats`. `cmsChangeBuffersFormat` accepts a float transform, and has no effect on what it reads and writes.
- `replaced_handler`. A memory handler that is given to a context after its creation is written over the functions
  that its pool was allocated with (`cmserr.c:299`), and `cmsDeleteContext` frees the pool by the new ones. The
  test that does this says that the context is deleted by the old ones (`testplugin.c:75`); it passes because
  the handler that it gives is the global one already (`testcms2.c:9662`).

The others were met while modelling. They are described here. Where a property would fail because of
a defect, it leaves that case out, by name, in the module: the lapses of `Routines` and `Astray`, `Misplaced` and `Misread`,
`forgotten`, `MatricesLost`, `undefined`, `replaced`, `InEndlessFile`. What a program must not do is in
[the contract](#what-the-program-must-do) instead, and `Scarce` is off in `contexts`. Those
marked (+) were confirmed by running the code.

*Profiles.*
- Two links that point at each other: the next lookup that follows them never ends, with
  the mutex held (`cmsio0.c:716`).
- Reading as cooked a tag written as raw fails, as the comment says, but frees the
  data; the second read returns what the old file held (1787).
- A link to a link in a later position is saved with that one's old extent (1543).
- The raw write's check and the raw read's position are taken outside the mutex; a thread
  that replaces a tag which another reads frees what that one returns (2103, 2183).
- `cmsReadRawTag` leaves a memory handler behind when the tag has no type handler (2118).
- A file handler counts rewritten bytes again (404); a memory handler cuts a write (221) and
  leaks on an unknown mode (314).

*Tag types* (lapses in `routines`).
- (+) The writer of MHC2 does not seek back to the end (`cmstypes.c:5838`); version 2 of the profile
  sequence description aligns in the middle of the tag (1297); lut8 without curves is
  written with none and cannot be read (1963); a dictionary entry without a value is
  refused, names of display values are attached without names (5512, 5584), and an empty
  dictionary cannot be read.
- Values that do not come back: a curve of one entry is read as a gamma (1419); more than 0x7FFF
  entries; curves of different length in lut16; segments of type 0; a string without
  text is not duplicated; the order of a dictionary is reversed; 16 screening
  channels are written and 15 read; arrays without elements.
- Left behind on failure: 901, 1582, 3818, 3892, 3990, `cmslut.c:1196`, `cmsnamed.c:961`. Not asked whether
  there was memory: 1250, 3849, 3891, 3910, 4344, 5158, 5756, `cmslut.c:352` and 1505, `cmsnamed.c:1072` and
  1156, `cmsgamma.c:282`. A segmented curve without segments (4436).

*Curves, profiles made by Little CMS, measurements, PostScript* (lapses as well).
- The Lab profile of the measurements is not looked at when it could not be made
  (`cmssamp.c:44`, `cmsps2.c:891` and 1018, `cmscnvrt.c:1039`); stages or curves stay behind in
  `cmsvirt.c` at 437, 917, 988, 1116 and in the OkLab profile; `cmsio1.c:486` and 911.

*Pixels.*
- (+) Copying two or more extra samples of a format with the first channel elsewhere loses
  one (`cmsalpha.c:438`); in-place conversion between layouts that differ copies the
  extra samples before the pixels are read.
- The planes of half floats are found by the size of the output format (`cmspack.c:3378`);
  planar words with premultiplied alpha (1892); swapped words with premultiplied alpha;
  `TYPE_ABGR_HALF_FLT` (`lcms2.h:988`). `Misplaced` and `Misread` list all of these.

*Transforms and threads.*
- From 4 GB on, the offsets of slices wrap and slices overlap (`threaded_split.c:145`).
- The first value of a transform's cache is made of the alarm codes of its creation,
  and outlives them (`cmsxform.c:1273`); `PixelsConverted` accepts both.

*Linking and optimisation.*
- (+) A named-colour profile of CMYK cannot be linked alone (`cmscnvrt.c:642`); conversions are
  refused for 4-channel connection spaces; a named colour with connection space XYZ gets
  the conversion of Lab (`cmsio1.c:329`); float tables of a device link are not normalised (751).
- Device links after a black-preserving table are never freed (`cmscnvrt.c:827`, 1078); the
  property leaves out what is `forgotten`. A link that cannot be appended where the plane
  of black is kept leaves no pipeline, and the next one is appended to NULL (1087); more leaks
  at 1044, 1052, 1067.
- When the curves of a resampled table cannot be allocated, the transform keeps the pipeline
  that was freed (`cmsopt.c:792`); two matrices whose product cannot be made are gone (226), and the transform
  goes on without them (`MatricesLost`). The duplicate of a resampled pipeline (781), copies that may be NULL (344, 1290), and a
  failed matrix-shaper that is not noticed (1795).

*Contexts.*
- Unregistering plug-ins leaves a context without mutex functions (`cmserr.c:647`), though the
  documentation speaks of the pristine state.
- A memory handler given to a context that is there (`replaced_handler`, above).
- The structure of a context is allocated and freed by the global memory handler, that
  of a duplicate allocated by the source's (`cmsplugin.c:837`, 902, 1016): `PoolsFreedAsMade` is about
  pools. The check for chunks that were not copied looks at the source (948), and one that
  is missing is taken from the global context: this is why memory is not `Scarce` in the
  run. A structure without a pool mutex stays behind (906).

*CGATS.*
- (+) The chain of subkeys loses its tail (`cmscgats.c:1370`) and its enumeration is wrong (2743); an
  empty cell is written as nothing (1990).
- (+) A file that includes itself as its very last symbol is included for ever, until the stack of
  the process is used up: reading the name ends the file, and pops the stack of files (`cmscgats.c:602`), before
  the include pushes it again (1086), so that the limit on nested includes (1050) is never reached.
  `ReadingEnds` leaves out reading that has come into such a file (`InEndlessFile`).
- Positions may be one too high (1785, 1790), and the two allocations differ; saving moves the
  current table; a failed allocation of a string goes unnoticed (1390); pairs of keys
  that are not predefined come back plain; sheet types of several words.

## What is not modelled

- Numeric code (evaluation of curves, interpolation, colour science, resampling, the
  tables of half floats): pure floating-point functions without state, out of
  reach of an explicit-state checker. Where it decides something, the decision is an input.
- The NULL, file and memory handlers behind `cmsIOHANDLER`, MD5, the layout of
  the header: sequential encoding.
- Of CGATS: characters inside symbols, numbers in other bases, .cube files,
  enumerations. Of names: lookup by language, growth of pools. Of pipelines: reverse
  evaluation.
- Plug-ins that supply their own transforms, optimisers or intents: their code is not here.
- The fast-float plug-in: another set of formatters and evaluators, of the kind of
  `cmspack.c` and `cmsopt.c`, with SIMD kernels.
- Programs around the library (tools, tests, fuzzers, bindings), and two processes that
  write one file.

## The plan

What is left, in this order:

1. *Proofs.* The ownership part of `Routines`, for any routine whose steps keep to the rules
   of `Steps`.
2. *Transforms in slices*: composition of `Transform` with `Scheduler`, several slices through
   one transform.
3. *Names* (`cmsnamed.c`): the string pool of multilocalized strings with its growth, 32-bit
   sizes, and lookup by language and country against a reference definition.
4. *I/O handlers*: file, memory and NULL, against one abstract stream.
5. *Sequences of profiles* (`cmsio1.c`), the text getters and the header.
