------------------------------ MODULE Contexts ------------------------------
(***************************************************************************)
(* Contexts (cmsplugin.c, cmserr.c): a list of structures in memory that   *)
(* threads share, guarded by a mutex; each has a pool of memory that its   *)
(* chunks live in, and functions to allocate memory with.  Threads create, *)
(* duplicate, change and delete contexts of their own, step by step.       *)
(***************************************************************************)
EXTENDS Integers, Sequences, SequencesExt, FiniteSets, Functions

(***************************************************************************)
(* What a context keeps for the parts of Little CMS: a chunk for each of   *)
(* its clients.  A chunk is a list of what plug-ins brought, the newest    *)
(* first, the one plug-in that is in force, or a setting of the user.      *)
(***************************************************************************)
\* initial: what a new context has; reset: what is there when plug-ins are unregistered,
\* which settings do not mind.
Client(kind, initial, reset) == [kind |-> kind, initial |-> initial, reset |-> reset]
List == Client("list", <<>>, <<>>)
Only(initial, reset) == Client("plugin", initial, reset)
Setting(initial) == Client("setting", initial, initial)

Logger == Setting("DefaultLogErrorHandlerFunction")
AlarmCodesContext == Setting("DEFAULT_ALARM_CODES_VALUE")
AdaptationStateContext == Setting("DEFAULT_OBSERVER_ADAPTATION_STATE")
InterpPlugin == Only("none", "none")
\* Without plug-ins there are locks, but a context that had some has none.
MutexPlugin == Only("defMtx", "none")
ParallelizationPlugin == Only("none", "none")
CurvesPlugin == List
FormattersPlugin == List
TagTypePlugin == List
TagPlugin == List
IntentPlugin == List
MPEPlugin == List
OptimizationPlugin == List
TransformPlugin == List

MemoryClients ==
    [Logger |-> Logger, AlarmCodesContext |-> AlarmCodesContext,
     AdaptationStateContext |-> AdaptationStateContext, InterpPlugin |-> InterpPlugin,
     MutexPlugin |-> MutexPlugin, ParallelizationPlugin |-> ParallelizationPlugin,
     CurvesPlugin |-> CurvesPlugin, FormattersPlugin |-> FormattersPlugin,
     TagTypePlugin |-> TagTypePlugin, TagPlugin |-> TagPlugin,
     IntentPlugin |-> IntentPlugin, MPEPlugin |-> MPEPlugin,
     OptimizationPlugin |-> OptimizationPlugin, TransformPlugin |-> TransformPlugin]

\* What is there after a plug-in is registered, or a setting changed.
Registered(c, was, name) == IF MemoryClients[c].kind = "list" THEN <<name>> \o was ELSE name
Unregistered(c, was) == IF MemoryClients[c].kind = "setting" THEN was ELSE MemoryClients[c].reset

\* Plug-ins are taken one by one, up to the first that is refused.
FirstBad(bundle) == SelectInSeq(bundle, LAMBDA p : ~p.good)
UpToBad(bundle) == IF FirstBad(bundle) = 0 THEN bundle ELSE SubSeq(bundle, 1, FirstBad(bundle) - 1)
\* What they make of the chunk of a client.
Brought(c, was, bundle) ==
    FoldLeft(LAMBDA now, p : IF p.client = c THEN Registered(c, now, p.name) ELSE now,
             was, UpToBad(bundle))

CONSTANTS
    Ids,        \* the addresses that contexts may have
    Clients,    \* the clients whose chunks are looked at
    Bundles,    \* sequences of plug-ins
    Threads,
    CallBound,  \* the calls that each thread makes
    Scarce      \* may memory run out once there is a context?

Global == "global"
Nobody == "nobody"
Nowhere == "NULL"
malloc == "malloc"

ASSUME ClientsAssumption == Clients \subseteq DOMAIN MemoryClients
ASSUME AddressAssumption == Global \notin Ids /\ Nowhere \notin Ids
ASSUME ThreadsAssumption == Nobody \notin Threads

VARIABLES
    context,    \* the structures in memory, and the global one
    head, next, \* _cmsContextPoolHead and the field Next, there after a context is freed too
    mutex,      \* the thread that holds _cmsContextPoolHeadMutex
    at,         \* where each thread is
    doing,      \* its call: the context it works on, where that was found, what with
    calls,      \* the calls it has made
    held,       \* the contexts that the program has, by the thread that uses them
    misfreed    \* what was given to a function to free that did not allocate it

list == <<head, next, mutex>>
vars == <<context, list, at, doing, calls, held, misfreed>>

\* To the program, a context has its own chunks, or the global ones.
Seen(x) == [c \in Clients |-> IF context[x].chunks[c] # <<>> THEN context[x].chunks[c][1].is
                              ELSE context[Global].chunks[c][1].is]
Settings == [x \in DOMAIN held \cup {Global} |-> Seen(x)]
Requested ==
    [t \in Threads |-> [act |-> doing[t].act, id |-> doing[t].id, bundle |-> doing[t].bundle,
                        from |-> IF doing[t].act = "dup" THEN doing[t].place ELSE Nowhere]]
Store == INSTANCE ContextStore WITH settings <- Settings, request <- Requested

(***************************************************************************)
(* Memory.  A chunk is its contents and the pools that hold them; an empty *)
(* sequence is NULL, in whose stead the global chunk is used.              *)
(***************************************************************************)
Chunk(is, pools) == <<[is |-> is, in |-> pools]>>
NULL == <<>>

Place(x, c) == IF context[x].chunks[c] = NULL THEN Global ELSE x

\* The functions in force in a context: its own ones, or a copy in its pool.
Manager(x) == IF x.MemPlugin = <<>> THEN x.DefaultMemoryManager ELSE x.MemPlugin[1]

\* The nodes of a list are copied with the chunk that begins it.
_cmsSubAllocDupSharing(chunk, id) ==
    IF chunk = NULL THEN NULL ELSE Chunk(chunk[1].is, {id} \cup chunk[1].in)
_cmsSubAllocDup(chunk, id) == IF chunk = NULL THEN NULL ELSE Chunk(chunk[1].is, {id})
AllocChunks(id, from) == [c \in Clients |-> _cmsSubAllocDup(from[c], id)]
Initial == [c \in Clients |-> Chunk(MemoryClients[c].initial, {})]

\* The nodes of lists come from the pool of the context that was named.
Lists == {c \in DOMAIN MemoryClients : MemoryClients[c].kind = "list"}
cmsPluginTHR(chunks, bundle, id) ==
    LET grows(c) == c \in Lists /\ \E k \in DOMAIN UpToBad(bundle) : UpToBad(bundle)[k].client = c
    IN  [c \in Clients |-> Chunk(Brought(c, chunks[c][1].is, bundle),
                                chunks[c][1].in \cup (IF grows(c) THEN {id} ELSE {}))]
\* The functions in force after plug-ins were taken: those of the last one for memory.
InForceAfter(x, plugins) ==
    LET handlers == SelectSeq(plugins, LAMBDA p : p.client = "MemPlugin")
    IN  IF handlers = <<>> THEN Manager(x) ELSE Last(handlers).name
\* Those that each plug-in finds, and that the pool may have to grow by.
Found(x, plugins) == [k \in DOMAIN plugins |-> InForceAfter(x, SubSeq(plugins, 1, k - 1))]
Growing(x, plugins) == {Found(x, plugins)[k] : k \in {j \in DOMAIN plugins : plugins[j].client \in Lists}}
\* They are written over those in force: the context's own, or the copy in its pool.
_cmsRegisterMemHandlerPlugin(x, plugins, grown) ==
    LET h == InForceAfter(x, plugins)
    IN  [x EXCEPT !.DefaultMemoryManager = IF x.MemPlugin = <<>> THEN h ELSE @,
                  !.MemPlugin = IF x.MemPlugin = <<>> THEN <<>> ELSE <<h>>,
                  !.MemPool = @ \cup grown,
                  !.replaced = \/ @ \/ h # Manager(x)
                               \/ \E k \in DOMAIN plugins : Found(x, plugins)[k] # Manager(x)]
cmsUnregisterPlugins(chunks) ==
    [c \in Clients |-> IF chunks[c] = NULL THEN NULL
                       ELSE Chunk(Unregistered(c, chunks[c][1].is), chunks[c][1].in)]

(***************************************************************************)
(* The list.                                                               *)
(***************************************************************************)
\* What a walk from the first one comes to: the least set with it and all that follow.
Follows(first, after, S) ==
    /\ first # Nowhere => first \in S
    /\ \A x \in S : after[x] # Nowhere => after[x] \in S
Reached(first, after) == {x \in Ids : \A S \in SUBSET Ids : Follows(first, after, S) => x \in S}
Listed == Reached(head, next)

Idle == [id |-> Nowhere, place |-> Nowhere, bundle |-> <<>>, act |-> "none"]
Init ==
    /\ context = [x \in {Global} |-> [chunks |-> Initial, DefaultMemoryManager |-> malloc,
                                      MemPlugin |-> <<>>, MemPool |-> {}, by |-> malloc,
                                      replaced |-> FALSE]]
    /\ head = Nowhere /\ next = [x \in Ids |-> Nowhere] /\ mutex = Nobody
    /\ at = [t \in Threads |-> "idle"] /\ doing = [t \in Threads |-> Idle]
    /\ calls = [t \in Threads |-> 0]
    /\ held = <<>> /\ misfreed = {}

Added(f, x, v) == [y \in DOMAIN f \cup {x} |-> IF y = x THEN v ELSE f[y]]
Go(t, label) == at' = [at EXCEPT ![t] = label]
Return(t) == Go(t, "idle") /\ doing' = [doing EXCEPT ![t] = Idle]
Call(t, label, d) ==
    /\ at[t] = "idle" /\ calls[t] < CallBound[t]
    /\ calls' = [calls EXCEPT ![t] = @ + 1]
    /\ Go(t, label)
    /\ doing' = [doing EXCEPT ![t] = d]

EnterWithoutWaiting(t) == mutex' = t
_cmsEnterCriticalSectionPrimitive(t) == mutex = Nobody /\ mutex' = t
LeaveLocked(t) == mutex' = mutex
_cmsLeaveCriticalSectionPrimitive(t) == mutex' = Nobody
\* A change of the global context, or of how it allocates memory, is for a program that
\* does nothing else meanwhile.
Quiet == \A t \in Threads : at[t] = "idle"
Mine(t) == {x \in DOMAIN held : held[x] = t}

(***************************************************************************)
(* Creating and duplicating.  The structure comes from the global          *)
(* functions, for the one with the first ones is not in the list; that of a*)
(* duplicate, from the functions of the original.                          *)
(***************************************************************************)
\* (replaced only remembers that a context has got other functions than its pool is made with.)
Struct(chunks, manager, by, replaced) ==
    [chunks |-> chunks, DefaultMemoryManager |-> manager,
     MemPlugin |-> <<>>, MemPool |-> {}, by |-> by, replaced |-> replaced]
\* A new structure is filled with zeros, a duplicate is not.
Zeros == [c \in Clients |-> NULL]
Uninitialised ==
    [c \in Clients |-> Chunk(IF MemoryClients[c].kind = "list" THEN <<"garbage">> ELSE "garbage", {Nowhere})]

_cmsFindMemoryPlugin(bundle) ==
    LET k == SelectInSeq(bundle, LAMBDA p : p.client = "MemPlugin")
    IN  IF k = 0 THEN Manager(context[Global]) ELSE bundle[k].name
cmsCreateContext(t) ==
    \E bundle \in Bundles, id \in Ids \ DOMAIN context :
        /\ Call(t, "link", [Idle EXCEPT !.id = id, !.bundle = bundle, !.act = "create"])
        /\ context' = Added(context, id,
                            Struct(Zeros, _cmsFindMemoryPlugin(bundle), Manager(context[Global]), FALSE))
        /\ UNCHANGED <<list, held, misfreed>>

cmsDupContext(t) ==
    \E from \in Mine(t) \cup {Global}, id \in Ids \ DOMAIN context :
        /\ Call(t, "link", [Idle EXCEPT !.id = id, !.place = from, !.act = "dup"])
        /\ context' = Added(context, id,
                            Struct(Uninitialised, context[from].DefaultMemoryManager, Manager(context[from]),
                                   Manager(context[from]) # context[from].DefaultMemoryManager))
        /\ UNCHANGED <<list, held, misfreed>>

\* Next is set, then the head: two steps, in one critical section.
SetNext(t) ==
    /\ at[t] = "link" /\ _cmsEnterCriticalSectionPrimitive(t)
    /\ next' = [next EXCEPT ![doing[t].id] = head] /\ Go(t, "linked")
    /\ UNCHANGED <<context, head, doing, calls, held, misfreed>>
SetHead(t) ==
    /\ at[t] = "linked" /\ head' = doing[t].id
    /\ _cmsLeaveCriticalSectionPrimitive(t) /\ Go(t, "pool")
    /\ UNCHANGED <<context, next, doing, calls, held, misfreed>>

\* A context without a pool is deleted again.
_cmsCreateSubAlloc(t) ==
    LET id == doing[t].id
    IN  /\ at[t] = "pool"
        /\ \/ /\ context' = [context EXCEPT ![id].MemPool = {Manager(context[id])}]
              /\ Go(t, "chunks")
           \/ Scarce /\ Go(t, "unregister") /\ UNCHANGED context
        /\ UNCHANGED <<list, doing, calls, held, misfreed>>

\* The initial chunks, or copies of those of the original, its memory manager too, for which
\* a new pool has room; by the copy it grows from there on.  A list that is not copied to its
\* end is not there.  Of a copy, the chunks of the original are looked at again.
Original(d) == IF d.act = "dup" THEN context[d.place].chunks ELSE Initial
Copied(d) == IF d.act = "dup" THEN <<Manager(context[d.place])>> ELSE <<>>
AllocatedBut(lost, id, from, was) ==
    [c \in Clients |-> CASE c \notin lost -> AllocChunks(id, from)[c]
                         [] c \in lost /\ MemoryClients[c].kind = "list" -> was[c]
                         [] OTHER -> NULL]
AllocAllChunks(t) ==
    LET id == doing[t].id
        from == Original(doing[t])
        copied == Copied(doing[t])
    IN  /\ at[t] = "chunks"
        /\ \E lost \in IF Scarce THEN SUBSET Clients ELSE {{}}, grown \in SUBSET Range(copied) :
              context' = [context EXCEPT ![id].chunks = AllocatedBut(lost, id, from, @),
                                         ![id].MemPlugin = copied, ![id].MemPool = @ \cup grown]
        /\ CASE doing[t].act = "create" -> Go(t, "plugin") /\ UNCHANGED <<doing, held>>
             [] \E c \in Clients : from[c] = NULL -> Go(t, "unregister") /\ UNCHANGED <<doing, held>>
             [] OTHER -> Return(t) /\ held' = Added(held, id, t)
        /\ UNCHANGED <<list, calls, misfreed>>

\* Plug-ins are given to the chunks that are in force, the global one where one is missing.
InPlace(place, new) ==
    [x \in DOMAIN context |->
        [context[x] EXCEPT !.chunks = [c \in Clients |-> IF Place(place, c) = x THEN new[c] ELSE @[c]]]]
InForce(place) == [c \in Clients |-> context[Place(place, c)].chunks[c]]

Changed(x, bundle, act, id) ==
    IF act = "unregister" THEN [c \in Clients |-> cmsUnregisterPlugins(x)[c]]
    ELSE cmsPluginTHR(x, bundle, id)
Altered(place, bundle, act, id, grown) ==
    LET new == InPlace(place, Changed(InForce(place), bundle, act, id))
    IN  IF act = "unregister" THEN [new EXCEPT ![id].MemPlugin = <<>>]
        ELSE [new EXCEPT ![place] = _cmsRegisterMemHandlerPlugin(@, UpToBad(bundle), grown)]

\* The plug-ins that a context is made with; one that is refused is the end of it.
SetupPlugins(t) ==
    LET id == doing[t].id
    IN  /\ at[t] = "plugin"
        /\ \E grown \in SUBSET Growing(context[id], UpToBad(doing[t].bundle)) :
              context' = Altered(id, doing[t].bundle, "plugin", id, grown)
        /\ IF FirstBad(doing[t].bundle) = 0
           THEN Return(t) /\ held' = Added(held, id, t)
           ELSE Go(t, "unregister") /\ UNCHANGED <<doing, held>>
        /\ UNCHANGED <<list, calls, misfreed>>

(***************************************************************************)
(* Deleting.                                                               *)
(***************************************************************************)
cmsDeleteContext(t) ==
    \E id \in Mine(t) :
        /\ Call(t, "unregister", [Idle EXCEPT !.id = id, !.act = "delete"])
        /\ held' = [x \in DOMAIN held \ {id} |-> held[x]]
        /\ UNCHANGED <<context, list, misfreed>>

\* The memory manager first: the copy in the pool is not used to free the pool.
UnregisterKeepingManager(was) == [was EXCEPT !.chunks = cmsUnregisterPlugins(@)]
cmsUnregisterPluginsTHR(was) == [was EXCEPT !.chunks = cmsUnregisterPlugins(@), !.MemPlugin = <<>>]

\* Where a chunk is missing, the plug-ins of the global one go.
UnregisterToDelete(t) ==
    LET id == doing[t].id
        missing == {c \in Clients : context[id].chunks[c] = NULL}
    IN  /\ at[t] = "unregister"
        /\ context' = [context EXCEPT
              ![id] = cmsUnregisterPluginsTHR(@),
              ![Global].chunks = [c \in Clients |-> IF c \in missing THEN cmsUnregisterPlugins(@)[c]
                                                    ELSE @[c]]]
        /\ Go(t, "destroy")
        /\ UNCHANGED <<list, doing, calls, held, misfreed>>

_cmsSubAllocDestroy(t) ==
    LET x == context[doing[t].id]
    IN  /\ at[t] = "destroy"
        /\ misfreed' = misfreed \cup (IF x.MemPool \subseteq {Manager(x)} THEN {}
                                      ELSE IF x.replaced THEN {"replaced pool"} ELSE {"pool"})
                                \cup (IF x.MemPool # {} /\ x.MemPlugin # <<>> THEN {"manager"} ELSE {})
        /\ context' = [context EXCEPT ![doing[t].id].MemPool = {}]
        /\ Go(t, "unlink")
        /\ UNCHANGED <<list, doing, calls, held>>

\* Another critical section, which others cannot tell from one step.
Unlink(t) ==
    LET id == doing[t].id
    IN  /\ at[t] = "unlink" /\ mutex = Nobody
        /\ IF head = id THEN head' = next[id] /\ UNCHANGED next
           ELSE /\ next' = [x \in Ids |-> IF x \in Listed /\ next[x] = id THEN next[id] ELSE next[x]]
                /\ UNCHANGED head
        /\ Go(t, "free")
        /\ UNCHANGED <<context, mutex, doing, calls, held, misfreed>>
\* The structure goes to the global functions.
FreeStruct(t) ==
    LET id == doing[t].id
    IN  /\ at[t] = "free"
        /\ misfreed' = misfreed \cup (IF context[id].by = Manager(context[Global]) THEN {} ELSE {"context"})
        /\ context' = [x \in DOMAIN context \ {id} |-> context[x]]
        /\ Return(t)
        /\ UNCHANGED <<list, calls, held>>

(***************************************************************************)
(* Changing: a context is looked up in the list, and its chunks are written*)
(* to; one that is not found is taken for the global one.                  *)
(***************************************************************************)
Changes(bundle) == IF bundle = <<>> THEN {"unregister"} ELSE {"plugin"}
ChangeOf(t) ==
    \E id \in Mine(t), bundle \in Bundles : \E act \in Changes(bundle) :
        /\ Call(t, "search", [Idle EXCEPT !.id = id, !.bundle = bundle, !.act = act])
        /\ UNCHANGED <<context, list, held, misfreed>>
\* (Of the contexts in the list, the one that is looked for, at the head or after it.)
_cmsGetContextAtHead(id) == IF id = head THEN id ELSE Global
_cmsGetContext(id) == IF id \in Listed THEN id ELSE Global
Search(t) ==
    /\ at[t] = "search" /\ mutex = Nobody
    /\ doing' = [doing EXCEPT ![t].place = _cmsGetContext(doing[t].id)]
    /\ Go(t, "change")
    /\ UNCHANGED <<context, list, calls, held, misfreed>>

Change(t) ==
    LET d == doing[t]
    IN  /\ at[t] = "change"
        /\ \E grown \in SUBSET Growing(context[d.place], UpToBad(d.bundle)) :
              context' = Altered(d.place, d.bundle, d.act, d.id, grown)
        /\ Return(t)
        /\ UNCHANGED <<list, calls, held, misfreed>>

\* (The pool of the global one is left out.)
ChangeGlobal(t) ==
    \E bundle \in Bundles : \E act \in Changes(bundle) :
        /\ Quiet /\ calls[t] < CallBound[t]
        /\ calls' = [calls EXCEPT ![t] = @ + 1]
        /\ context' = Altered(Global, bundle, act, Global, {})
        /\ UNCHANGED <<list, at, doing, held, misfreed>>

(***************************************************************************)
(* The specification.  Threads are scheduled fairly; a critical section is *)
(* a few steps, so whoever waits for it gets it.                           *)
(***************************************************************************)
Proceed(t) ==
    \/ SetNext(t) \/ SetHead(t) \/ _cmsCreateSubAlloc(t) \/ AllocAllChunks(t)
    \/ SetupPlugins(t) \/ UnregisterToDelete(t) \/ _cmsSubAllocDestroy(t)
    \/ Unlink(t) \/ FreeStruct(t) \/ Search(t) \/ Change(t)
Next ==
    \E t \in Threads :
       \/ cmsCreateContext(t) \/ cmsDupContext(t) \/ cmsDeleteContext(t) \/ ChangeOf(t)
       \/ ChangeGlobal(t) \/ Proceed(t)
Spec == Init /\ [][Next]_vars /\ \A t \in Threads : WF_vars(Proceed(t))

(***************************************************************************)
(* Properties.                                                             *)
(***************************************************************************)
\* Contexts are made and linked in steps that other threads come between, yet to the
\* program each is a set of settings of its own: made whole, copied whole, and changed
\* only by calls that name it.
Implements == Store!Spec

\* The list leads to memory that is there, and to every context that the program has.
ListIsWhole ==
    mutex = Nobody =>
        /\ Listed \subseteq DOMAIN context
        /\ DOMAIN held \subseteq Listed
        /\ \A t \in Threads : at[t] \in {"pool", "chunks", "plugin"} => doing[t].id \in Listed

\* A pool is freed by the functions that it was allocated with, which are not in it; but the
\* pool of a context whose functions were replaced since, or that is a duplicate of one whose
\* copy was, is left out (see the next property).  (The structure of a context does not go
\* where it came from either: it goes to the functions of the global one.)
PoolsFreedAsMade == misfreed \cap {"pool", "manager"} = {}
\* What the test of plug-ins says, that a context which is given a memory handler later is
\* deleted by the functions that it was made with (cmserr.c has written over them).
EveryPoolFreedAsMade == misfreed \cap {"pool", "replaced pool"} = {}

\* No call waits forever for the list.
CallsEnd == \A t \in Threads : at[t] # "idle" ~> at[t] = "idle"

=============================================================================
