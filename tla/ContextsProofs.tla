--------------------------- MODULE ContextsProofs ---------------------------
(***************************************************************************)
(* ListIsWhole and PoolsFreedAsMade of Contexts, for any number of         *)
(* threads, contexts, clients and plug-ins, and memory that runs out at    *)
(* any moment.  What the chunks contain does not matter here.              *)
(***************************************************************************)
EXTENDS Contexts, TLAPS

(***************************************************************************)
(* Lemmas about lists.                                                     *)
(***************************************************************************)
ListType(h, n) == h \in Ids \cup {Nowhere} /\ n \in [Ids -> Ids \cup {Nowhere}]

\* What is reached is itself a set that follows, and is contained in every other.
LEMMA ReachedFollows ==
    ASSUME NEW h, NEW n, ListType(h, n)
    PROVE  /\ Reached(h, n) \subseteq Ids /\ Follows(h, n, Reached(h, n))
           /\ \A S \in SUBSET Ids : Follows(h, n, S) => Reached(h, n) \subseteq S
<1> DEFINE R == Reached(h, n)
<1>1. R \subseteq Ids /\ \A S \in SUBSET Ids : Follows(h, n, S) => R \subseteq S
  BY DEF Reached
<1>2. h # Nowhere => h \in R
  BY DEF Reached, ListType, Follows
<1>3. ASSUME NEW x \in R, n[x] # Nowhere PROVE n[x] \in R
  <2>1. n[x] \in Ids
    BY <1>1, <1>3 DEF ListType
  <2>2. \A S \in SUBSET Ids : Follows(h, n, S) => n[x] \in S
    BY <1>1, <1>3 DEF Follows
  <2> QED  BY <2>1, <2>2 DEF Reached
<1> QED  BY <1>1, <1>2, <1>3 DEF Follows

\* No two of a list have the same one after them, and none is before the first.
OneBefore(h, n) ==
    /\ \A x, y \in Reached(h, n) : n[x] = n[y] /\ n[x] # Nowhere => x = y
    /\ \A x \in Reached(h, n) : n[x] = h => h = Nowhere

\* A list that another one is put before.
LEMMA Linked ==
    ASSUME NEW h, NEW n, ListType(h, n), OneBefore(h, n),
           NEW id \in Ids, id \notin Reached(h, n), n[id] = h
    PROVE  ListType(id, n) /\ OneBefore(id, n) /\ Reached(id, n) = Reached(h, n) \cup {id}
<1> DEFINE R == Reached(h, n)
           Q == Reached(id, n)
<1>1. ListType(id, n)
  BY DEF ListType
<1>2. /\ R \subseteq Ids /\ Follows(h, n, R)
      /\ \A S \in SUBSET Ids : Follows(h, n, S) => R \subseteq S
  BY ReachedFollows
<1>3. /\ Q \subseteq Ids /\ Follows(id, n, Q)
      /\ \A S \in SUBSET Ids : Follows(id, n, S) => Q \subseteq S
  BY <1>1, ReachedFollows
<1>4. Q \subseteq R \cup {id}
  <2>1. Follows(id, n, R \cup {id})
    BY <1>2 DEF Follows
  <2> QED  BY <1>2, <1>3, <2>1
<1>5. R \cup {id} \subseteq Q
  <2>1. id \in Q
    BY <1>3, AddressAssumption DEF Follows
  <2>2. Follows(h, n, Q)
    BY <1>3, <2>1 DEF Follows
  <2> QED  BY <1>2, <1>3, <2>1, <2>2
<1>6. Q = R \cup {id}
  BY <1>4, <1>5
<1>7. \A x \in R : n[x] # id
  BY <1>2, AddressAssumption DEF Follows
<1>8. OneBefore(id, n)
  BY <1>6, <1>7, AddressAssumption DEF OneBefore
<1> QED  BY <1>1, <1>6, <1>8

\* The first one goes.
LEMMA UnlinkedFirst ==
    ASSUME NEW h, NEW n, ListType(h, n), OneBefore(h, n), h # Nowhere
    PROVE  ListType(n[h], n) /\ OneBefore(n[h], n) /\ Reached(n[h], n) = Reached(h, n) \ {h}
<1> DEFINE R == Reached(h, n)
           Q == Reached(n[h], n)
<1>1. h \in Ids /\ ListType(n[h], n)
  BY DEF ListType
<1>2. /\ R \subseteq Ids /\ Follows(h, n, R)
      /\ \A S \in SUBSET Ids : Follows(h, n, S) => R \subseteq S
  BY ReachedFollows
<1>3. /\ Q \subseteq Ids /\ Follows(n[h], n, Q)
      /\ \A S \in SUBSET Ids : Follows(n[h], n, S) => Q \subseteq S
  BY <1>1, ReachedFollows
<1>4. h \in R /\ \A x \in R : n[x] # h
  BY <1>2 DEF Follows, OneBefore
<1>5. Q \subseteq R \ {h}
  <2>1. Follows(n[h], n, R \ {h})
    BY <1>2, <1>4 DEF Follows
  <2> QED  BY <1>2, <1>3, <2>1
<1>6. R \subseteq Q \cup {h}
  <2>1. Follows(h, n, Q \cup {h})
    BY <1>3 DEF Follows
  <2> QED  BY <1>1, <1>2, <1>3, <2>1
<1>7. Q = R \ {h}
  BY <1>5, <1>6
<1>8. OneBefore(n[h], n)
  BY <1>4, <1>7 DEF OneBefore
<1> QED  BY <1>1, <1>7, <1>8

\* Another one goes: the one before it is given the one after it.
LEMMA UnlinkedOther ==
    ASSUME NEW h, NEW n, ListType(h, n), OneBefore(h, n), NEW id \in Ids, id # h,
           NEW m, m = [x \in Ids |-> IF x \in Reached(h, n) /\ n[x] = id THEN n[id] ELSE n[x]]
    PROVE  ListType(h, m) /\ OneBefore(h, m) /\ Reached(h, m) = Reached(h, n) \ {id}
<1> DEFINE R == Reached(h, n)
           Q == Reached(h, m)
<1>1. ListType(h, m)
  BY DEF ListType
<1>2. /\ R \subseteq Ids /\ Follows(h, n, R)
      /\ \A S \in SUBSET Ids : Follows(h, n, S) => R \subseteq S
  BY ReachedFollows
<1>3. /\ Q \subseteq Ids /\ Follows(h, m, Q)
      /\ \A S \in SUBSET Ids : Follows(h, m, S) => Q \subseteq S
  BY <1>1, ReachedFollows
<1>4. \A x \in Ids : m[x] = IF x \in R /\ n[x] = id THEN n[id] ELSE n[x]
  OBVIOUS
<1>5. id \in R => n[id] # id
  <2>1. SUFFICES ASSUME id \in R, n[id] = id PROVE FALSE
    OBVIOUS
  <2>2. Follows(h, n, R \ {id})
    BY <1>2, <2>1, AddressAssumption DEF Follows, OneBefore
  <2> QED  BY <1>2, <2>1, <2>2
<1>6. Q \subseteq R \ {id}
  <2>1. Follows(h, m, R \ {id})
    <3>1. h # Nowhere => h \in R \ {id}
      BY <1>2 DEF Follows
    <3>2. ASSUME NEW x \in R \ {id}, m[x] # Nowhere PROVE m[x] \in R \ {id}
      <4>1. CASE n[x] = id
        <5>1. id \in R /\ m[x] = n[id]
          BY <1>2, <1>4, <3>2, <4>1, AddressAssumption DEF Follows
        <5> QED  BY <1>2, <1>5, <3>2, <5>1 DEF Follows
      <4>2. CASE n[x] # id
        BY <1>2, <1>4, <3>2, <4>2 DEF Follows
      <4> QED  BY <4>1, <4>2
    <3> QED  BY <3>1, <3>2 DEF Follows
  <2> QED  BY <1>2, <1>3, <2>1
<1>7. R \subseteq Q \cup {id}
  <2>1. Follows(h, n, R \cap (Q \cup {id}))
    <3>1. h # Nowhere => h \in R \cap (Q \cup {id})
      BY <1>2, <1>3 DEF Follows
    <3>2. ASSUME NEW x \in R \cap (Q \cup {id}), n[x] # Nowhere, n[x] # id PROVE n[x] \in Q
      <4>1. CASE x \in Q
        BY <1>2, <1>3, <1>4, <3>2, <4>1 DEF Follows
      <4>2. CASE x = id
        \* Something comes before it that was reached and is so still.
        <5>1. PICK y \in Q : n[y] = id
          <6>1. SUFFICES ASSUME \A y \in Q : n[y] # id PROVE FALSE
            OBVIOUS
          <6>2. Follows(h, n, Q)
            BY <1>2, <1>3, <1>4, <6>1 DEF Follows
          <6>3. id \in Q
            BY <1>2, <1>3, <3>2, <4>2, <6>2
          <6> QED  BY <1>6, <6>3
        <5>2. y \in R /\ m[y] = n[id]
          BY <1>3, <1>4, <1>6, <5>1
        <5> QED  BY <1>3, <3>2, <4>2, <5>1, <5>2 DEF Follows
      <4> QED  BY <3>2, <4>1, <4>2
    <3>3. ASSUME NEW x \in R \cap (Q \cup {id}), n[x] # Nowhere PROVE n[x] \in R \cap (Q \cup {id})
      BY <1>2, <3>2, <3>3 DEF Follows
    <3> QED  BY <3>1, <3>3 DEF Follows
  <2>2. R \subseteq R \cap (Q \cup {id})
    BY <1>2, <2>1
  <2> QED  BY <2>2
<1>8. Q = R \ {id}
  BY <1>6, <1>7
<1>9. OneBefore(h, m)
  <2>1. ASSUME NEW x \in Q, NEW y \in Q, m[x] = m[y], m[x] # Nowhere PROVE x = y
    <3>1. x \in R /\ y \in R /\ x # id /\ y # id /\ x \in Ids /\ y \in Ids
      BY <1>2, <1>8, <2>1
    <3>2. CASE n[x] = id
      <4>1. id \in R
        BY <1>2, <3>1, <3>2, AddressAssumption DEF Follows
      <4> QED  BY <1>4, <2>1, <3>1, <3>2, <4>1, AddressAssumption DEF OneBefore
    <3>3. CASE n[y] = id
      <4>1. id \in R
        BY <1>2, <3>1, <3>3, AddressAssumption DEF Follows
      <4> QED  BY <1>4, <2>1, <3>1, <3>3, <4>1, AddressAssumption DEF OneBefore
    <3> QED  BY <1>4, <2>1, <3>1, <3>2, <3>3 DEF OneBefore
  <2>2. ASSUME NEW x \in Q, m[x] = h, h # Nowhere PROVE FALSE
    <3>1. x \in R /\ x # id /\ x \in Ids
      BY <1>2, <1>8, <2>2
    <3>2. n[x] = id => id \in R
      BY <1>2, <3>1, AddressAssumption DEF Follows
    <3> QED  BY <1>4, <2>2, <3>1, <3>2 DEF OneBefore
  <2> QED  BY <2>1, <2>2 DEF OneBefore
<1> QED  BY <1>1, <1>8, <1>9

(***************************************************************************)
(* The invariant.                                                          *)
(***************************************************************************)
Making == {"link", "linked", "pool", "chunks", "plugin"}
Unmaking == {"unregister", "destroy", "unlink", "free"}
\* Where the context of a call is in the list.
InList == {"pool", "chunks", "plugin", "unregister", "destroy", "unlink"}
Works(t) == at[t] \in Making \cup Unmaking

Fields == {"chunks", "DefaultMemoryManager", "MemPlugin", "MemPool", "by", "replaced"}
CallFields == {"id", "place", "bundle", "act"}
TypeInv ==
    /\ Global \in DOMAIN context /\ DOMAIN context \subseteq Ids \cup {Global}
    /\ \A x \in DOMAIN context : context[x] = [f \in Fields |-> context[x][f]]
    /\ ListType(head, next)
    /\ mutex \in Threads \cup {Nobody}
    /\ at \in [Threads -> Making \cup Unmaking \cup {"idle", "search", "change"}]
    /\ DOMAIN doing = Threads
    /\ \A t \in Threads : doing[t] = [f \in CallFields |-> doing[t][f]]
    /\ DOMAIN held \subseteq DOMAIN context \cap Ids

\* A context is worked on by one call, or it is there for the program.
CallInv ==
    /\ \A t \in Threads : Works(t) => doing[t].id \in (DOMAIN context \cap Ids) \ DOMAIN held
    /\ \A t, u \in Threads : Works(t) /\ Works(u) /\ doing[t].id = doing[u].id => t = u
    /\ \A t \in Threads : at[t] \in {"search", "change"} => doing[t].id \in Mine(t)
    /\ \A t \in Threads : at[t] = "change" => doing[t].place = doing[t].id

\* The listed contexts are those of the program, and of calls that have linked theirs and
\* not yet unlinked it.
ListInv ==
    /\ OneBefore(head, next)
    /\ \A t \in Threads : at[t] = "linked" <=> mutex = t
    /\ \A t \in Threads : at[t] = "linked" => next[doing[t].id] = head
    /\ DOMAIN held \subseteq Listed
    /\ \A t \in Threads : at[t] \in InList => doing[t].id \in Listed
    /\ \A x \in Listed : x \in DOMAIN held \/ \E t \in Threads : at[t] \in InList /\ doing[t].id = x

\* Unless they were replaced, the functions in force are those that a context was made with,
\* and a duplicate's are those in force in its original.
Managed(x) ==
    ~x.replaced => /\ x.MemPool \subseteq {x.DefaultMemoryManager}
                   /\ x.MemPlugin \in {<<>>, <<x.DefaultMemoryManager>>}
Copies(t) ==
    at[t] \in Making \ {"plugin"} /\ doing[t].act = "dup" =>
        /\ doing[t].place \in Mine(t) \cup {Global}
        /\ ~context[doing[t].id].replaced =>
              context[doing[t].id].DefaultMemoryManager = Manager(context[doing[t].place])
PoolInv ==
    /\ \A x \in DOMAIN context : Managed(context[x])
    /\ context[Global].MemPlugin = <<>>
    /\ \A t \in Threads : Copies(t)
    /\ \A t \in Threads : at[t] = "destroy" => context[doing[t].id].MemPlugin = <<>>
    /\ PoolsFreedAsMade

IInv == TypeInv /\ CallInv /\ ListInv /\ PoolInv

LEMMA InitInv == Init => IInv
<1> SUFFICES ASSUME Init PROVE IInv
  OBVIOUS
<1>0. /\ DOMAIN context = {Global} /\ context[Global] = [f \in Fields |-> context[Global][f]]
      /\ context[Global].MemPool = {} /\ context[Global].MemPlugin = <<>>
  BY DEF Init, Fields
<1>1. TypeInv
  <2>1. Idle = [f \in CallFields |-> Idle[f]]
    BY DEF Idle, CallFields
  <2>2. DOMAIN held = {}
    BY DEF Init
  <2>3. at \in [Threads -> Making \cup Unmaking \cup {"idle", "search", "change"}]
    BY DEF Init
  <2> QED  BY <1>0, <2>1, <2>2, <2>3, AddressAssumption DEF Init, TypeInv, ListType
<1>2. CallInv
  BY DEF Init, CallInv, Works, Making, Unmaking
<1>3. Listed = {}
  <2>1. ListType(head, next) /\ Follows(head, next, {})
    BY DEF Init, ListType, Follows
  <2> QED  BY <2>1, ReachedFollows DEF Listed
<1>4. ListInv
  BY <1>3, ThreadsAssumption DEF Init, ListInv, OneBefore, InList, Listed
<1>5. PoolInv
  BY <1>0 DEF Init, PoolInv, Copies, Managed, Making, PoolsFreedAsMade
<1> QED  BY <1>1, <1>2, <1>4, <1>5 DEF IInv

LEMMA CreateInv == ASSUME IInv, NEW t \in Threads, cmsCreateContext(t) PROVE IInv'
<1>1. PICK bundle \in Bundles, id \in Ids \ DOMAIN context :
        /\ Call(t, "link", [Idle EXCEPT !.id = id, !.bundle = bundle, !.act = "create"])
        /\ context' = Added(context, id,
                            Struct(Zeros, _cmsFindMemoryPlugin(bundle), Manager(context[Global]), FALSE))
        /\ UNCHANGED <<list, held, misfreed>>
  BY DEF cmsCreateContext
<1> DEFINE x == Struct(Zeros, _cmsFindMemoryPlugin(bundle), Manager(context[Global]), FALSE)
           d == [Idle EXCEPT !.id = id, !.bundle = bundle, !.act = "create"]
<1>2. /\ x = [f \in Fields |-> x[f]] /\ Managed(x)
      /\ d = [f \in CallFields |-> d[f]] /\ d.id = id /\ d.act = "create"
  BY DEF Struct, Fields, Managed, Idle, CallFields
<1>3. /\ DOMAIN context' = DOMAIN context \cup {id} /\ context'[id] = x
      /\ \A y \in DOMAIN context : context'[y] = context[y]
  BY <1>1 DEF Added
<1>4. /\ at[t] = "idle" /\ at' = [at EXCEPT ![t] = "link"] /\ doing' = [doing EXCEPT ![t] = d]
      /\ UNCHANGED <<head, next, mutex, held, misfreed>>
  BY <1>1 DEF Call, Go, list
<1> HIDE DEF x, d
<1>5. TypeInv'
  BY <1>2, <1>3, <1>4, AddressAssumption DEF IInv, TypeInv, ListType, Making
<1>6. CallInv'
  <2>1. /\ DOMAIN held \subseteq DOMAIN context /\ id \notin DOMAIN context
        /\ \A u \in Threads : u # t => at'[u] = at[u] /\ doing'[u] = doing[u]
        /\ at'[t] = "link" /\ doing'[t].id = id
    BY <1>2, <1>4 DEF IInv, TypeInv
  <2>2. \A u \in Threads : u # t /\ Works(u) => doing[u].id \in DOMAIN context
    BY DEF IInv, CallInv
  <2>3. (\A u \in Threads : Works(u) => doing[u].id \in (DOMAIN context \cap Ids) \ DOMAIN held)'
    BY <1>3, <1>4, <2>1 DEF IInv, CallInv, Works
  <2>4. (\A u, w \in Threads : Works(u) /\ Works(w) /\ doing[u].id = doing[w].id => u = w)'
    BY <2>1, <2>2 DEF IInv, CallInv, Works
  <2>5. (\A u \in Threads : at[u] \in {"search", "change"} => doing[u].id \in Mine(u))'
    BY <1>4, <2>1 DEF IInv, CallInv, Mine
  <2>6. (\A u \in Threads : at[u] = "change" => doing[u].place = doing[u].id)'
    BY <2>1 DEF IInv, CallInv
  <2> QED  BY <2>3, <2>4, <2>5, <2>6 DEF CallInv
<1>7. ListInv'
  BY <1>2, <1>3, <1>4 DEF IInv, TypeInv, ListInv, InList, Listed
<1>8. PoolInv'
  <2>1. /\ \A u \in Threads : u # t => at'[u] = at[u] /\ doing'[u] = doing[u]
        /\ at'[t] = "link" /\ doing'[t].act = "create" /\ Global \in DOMAIN context
    BY <1>2, <1>4 DEF IInv, TypeInv
  <2>2. \A u \in Threads : u # t /\ Works(u) => doing[u].id \in DOMAIN context
    BY DEF IInv, CallInv
  <2>3. (\A y \in DOMAIN context : Managed(context[y]))'
    BY <1>2, <1>3 DEF IInv, PoolInv
  <2>4. (context[Global].MemPlugin = <<>>)'
    BY <1>3, <2>1 DEF IInv, PoolInv
  <2>5. ASSUME NEW u \in Threads, at'[u] \in Making \ {"plugin"}, doing'[u].act = "dup"
        PROVE  /\ doing'[u].place \in Mine(u)' \cup {Global}
               /\ ~context'[doing'[u].id].replaced =>
                     context'[doing'[u].id].DefaultMemoryManager = Manager(context'[doing'[u].place])
    <3>1. u # t
      BY <2>1, <2>5
    <3>2. doing[u].place \in Mine(u) \cup {Global} /\ doing[u].id \in DOMAIN context
      BY <2>1, <2>2, <2>5, <3>1 DEF IInv, PoolInv, Copies, Works
    <3>3. doing[u].place \in DOMAIN context
      BY <3>2 DEF IInv, TypeInv, Mine
    <3> QED  BY <1>3, <1>4, <2>1, <2>5, <3>1, <3>2, <3>3 DEF IInv, PoolInv, Copies, Mine
  <2>6. (\A u \in Threads : at[u] = "destroy" => context[doing[u].id].MemPlugin = <<>>)'
    BY <1>3, <2>1, <2>2 DEF IInv, PoolInv, Copies, Works, Unmaking
  <2> QED  BY <1>4, <2>3, <2>4, <2>5, <2>6 DEF IInv, PoolInv, Copies, PoolsFreedAsMade
<1> QED  BY <1>5, <1>6, <1>7, <1>8 DEF IInv

LEMMA DupInv == ASSUME IInv, NEW t \in Threads, cmsDupContext(t) PROVE IInv'
<1>1. PICK from \in Mine(t) \cup {Global}, id \in Ids \ DOMAIN context :
        /\ Call(t, "link", [Idle EXCEPT !.id = id, !.place = from, !.act = "dup"])
        /\ context' = Added(context, id,
                            Struct(Uninitialised, context[from].DefaultMemoryManager, Manager(context[from]),
                                   Manager(context[from]) # context[from].DefaultMemoryManager))
        /\ UNCHANGED <<list, held, misfreed>>
  BY DEF cmsDupContext
<1> DEFINE x == Struct(Uninitialised, context[from].DefaultMemoryManager, Manager(context[from]),
                       Manager(context[from]) # context[from].DefaultMemoryManager)
           d == [Idle EXCEPT !.id = id, !.place = from, !.act = "dup"]
<1>2. /\ x = [f \in Fields |-> x[f]] /\ Managed(x)
      /\ ~x.replaced => x.DefaultMemoryManager = Manager(context[from])
      /\ d = [f \in CallFields |-> d[f]] /\ d.id = id /\ d.act = "dup" /\ d.place = from
  BY DEF Struct, Fields, Managed, Idle, CallFields
<1>3. /\ DOMAIN context' = DOMAIN context \cup {id} /\ context'[id] = x
      /\ \A y \in DOMAIN context : context'[y] = context[y]
  BY <1>1 DEF Added
<1>4. /\ at[t] = "idle" /\ at' = [at EXCEPT ![t] = "link"] /\ doing' = [doing EXCEPT ![t] = d]
      /\ UNCHANGED <<head, next, mutex, held, misfreed>>
  BY <1>1 DEF Call, Go, list
<1> HIDE DEF x, d
<1>5. TypeInv'
  BY <1>2, <1>3, <1>4, AddressAssumption DEF IInv, TypeInv, ListType, Making
<1>6. CallInv'
  <2>1. /\ DOMAIN held \subseteq DOMAIN context /\ id \notin DOMAIN context
        /\ \A u \in Threads : u # t => at'[u] = at[u] /\ doing'[u] = doing[u]
        /\ at'[t] = "link" /\ doing'[t].id = id
    BY <1>2, <1>4 DEF IInv, TypeInv
  <2>2. \A u \in Threads : u # t /\ Works(u) => doing[u].id \in DOMAIN context
    BY DEF IInv, CallInv
  <2>3. (\A u \in Threads : Works(u) => doing[u].id \in (DOMAIN context \cap Ids) \ DOMAIN held)'
    BY <1>3, <1>4, <2>1 DEF IInv, CallInv, Works
  <2>4. (\A u, w \in Threads : Works(u) /\ Works(w) /\ doing[u].id = doing[w].id => u = w)'
    BY <2>1, <2>2 DEF IInv, CallInv, Works
  <2>5. (\A u \in Threads : at[u] \in {"search", "change"} => doing[u].id \in Mine(u))'
    BY <1>4, <2>1 DEF IInv, CallInv, Mine
  <2>6. (\A u \in Threads : at[u] = "change" => doing[u].place = doing[u].id)'
    BY <2>1 DEF IInv, CallInv
  <2> QED  BY <2>3, <2>4, <2>5, <2>6 DEF CallInv
<1>7. ListInv'
  BY <1>2, <1>3, <1>4 DEF IInv, TypeInv, ListInv, InList, Listed
<1>8. PoolInv'
  <2>1. /\ \A u \in Threads : u # t => at'[u] = at[u] /\ doing'[u] = doing[u]
        /\ at'[t] = "link" /\ doing'[t].id = id /\ doing'[t].place = from
        /\ from \in DOMAIN context /\ Global \in DOMAIN context
    BY <1>1, <1>2, <1>4 DEF IInv, TypeInv, Mine
  <2>2. \A u \in Threads : u # t /\ Works(u) => doing[u].id \in DOMAIN context
    BY DEF IInv, CallInv
  <2>3. (\A y \in DOMAIN context : Managed(context[y]))'
    BY <1>2, <1>3 DEF IInv, PoolInv
  <2>4. (context[Global].MemPlugin = <<>>)'
    BY <1>3, <2>1 DEF IInv, PoolInv
  <2>5. ASSUME NEW u \in Threads, at'[u] \in Making \ {"plugin"}, doing'[u].act = "dup"
        PROVE  /\ doing'[u].place \in Mine(u)' \cup {Global}
               /\ ~context'[doing'[u].id].replaced =>
                     context'[doing'[u].id].DefaultMemoryManager = Manager(context'[doing'[u].place])
    <3>1. CASE u = t
      BY <1>1, <1>2, <1>3, <1>4, <2>1, <3>1 DEF Mine
    <3>2. CASE u # t
      <4>1. doing[u].place \in Mine(u) \cup {Global} /\ doing[u].id \in DOMAIN context
        BY <2>1, <2>2, <2>5, <3>2 DEF IInv, PoolInv, Copies, Works
      <4>2. doing[u].place \in DOMAIN context
        BY <4>1 DEF IInv, TypeInv, Mine
      <4> QED  BY <1>3, <1>4, <2>1, <2>5, <3>2, <4>1, <4>2 DEF IInv, PoolInv, Copies, Mine
    <3> QED  BY <3>1, <3>2
  <2>6. (\A u \in Threads : at[u] = "destroy" => context[doing[u].id].MemPlugin = <<>>)'
    BY <1>3, <2>1, <2>2 DEF IInv, PoolInv, Copies, Works, Unmaking
  <2> QED  BY <1>4, <2>3, <2>4, <2>5, <2>6 DEF IInv, PoolInv, Copies, PoolsFreedAsMade
<1> QED  BY <1>5, <1>6, <1>7, <1>8 DEF IInv

\* Between Next and the head the list is as it was.
LEMMA SetNextInv == ASSUME IInv, NEW t \in Threads, SetNext(t) PROVE IInv'
<1> DEFINE id == doing[t].id
<1>1. /\ at[t] = "link" /\ mutex = Nobody /\ mutex' = t
      /\ next' = [next EXCEPT ![id] = head] /\ at' = [at EXCEPT ![t] = "linked"]
      /\ UNCHANGED <<context, head, doing, held, misfreed>>
  BY DEF SetNext, Go, _cmsEnterCriticalSectionPrimitive
<1>2. id \in DOMAIN context \cap Ids /\ id \notin DOMAIN held
  BY <1>1 DEF IInv, CallInv, Works, Making
<1>3. id \notin Listed
  BY <1>1, <1>2 DEF IInv, TypeInv, ListInv, CallInv, Works, Making, Unmaking, InList
<1>4. TypeInv'
  BY <1>1, <1>2 DEF IInv, TypeInv, ListType, Making
<1>5. Listed' = Listed
  <2>1. /\ Listed \subseteq Ids /\ Follows(head, next, Listed)
        /\ \A S \in SUBSET Ids : Follows(head, next, S) => Listed \subseteq S
    BY ReachedFollows DEF IInv, TypeInv, Listed
  <2>2. /\ Listed' \subseteq Ids /\ Follows(head, next', Listed')
        /\ \A S \in SUBSET Ids : Follows(head, next', S) => Listed' \subseteq S
    BY <1>1, <1>4, ReachedFollows DEF TypeInv, Listed
  <2>3. Follows(head, next', Listed)
    BY <1>1, <1>2, <1>3, <2>1 DEF IInv, TypeInv, ListType, Follows
  <2>4. Listed' \subseteq Listed
    BY <2>1, <2>2, <2>3
  <2>5. Follows(head, next, Listed')
    BY <1>1, <1>2, <1>3, <2>1, <2>2, <2>4 DEF IInv, TypeInv, ListType, Follows
  <2> QED  BY <2>1, <2>2, <2>4, <2>5
<1>6. CallInv'
  BY <1>1 DEF IInv, TypeInv, CallInv, Works, Making, Unmaking, Mine
<1>7. ListInv'
  <2>1. OneBefore(head, next)'
    <3>1. Listed \subseteq Ids /\ \A x \in Listed : next'[x] = next[x]
      BY <1>1, <1>3, ReachedFollows DEF IInv, TypeInv, ListType, Listed
    <3>2. Reached(head, next) = Listed /\ Reached(head, next)' = Listed /\ head' = head
      BY <1>1, <1>5 DEF Listed
    <3>3. \A x \in Listed : next[x] = head => head = Nowhere
      BY DEF IInv, ListInv, OneBefore, Listed
    <3>4. \A x, y \in Listed : next[x] = next[y] /\ next[x] # Nowhere => x = y
      BY DEF IInv, ListInv, OneBefore, Listed
    <3> QED  BY <3>1, <3>2, <3>3, <3>4 DEF OneBefore
  <2>2. next'[id] = head
    BY <1>1, <1>2 DEF IInv, TypeInv, ListType
  <2> QED  BY <1>1, <1>5, <2>1, <2>2, ThreadsAssumption DEF IInv, TypeInv, ListInv, InList
<1>8. PoolInv'
  BY <1>1 DEF IInv, TypeInv, PoolInv, Copies, Making, Mine, PoolsFreedAsMade
<1> QED  BY <1>4, <1>6, <1>7, <1>8 DEF IInv

LEMMA SetHeadInv == ASSUME IInv, NEW t \in Threads, SetHead(t) PROVE IInv'
<1> DEFINE id == doing[t].id
<1>1. /\ at[t] = "linked" /\ mutex' = Nobody
      /\ head' = id /\ at' = [at EXCEPT ![t] = "pool"]
      /\ UNCHANGED <<context, next, doing, held, misfreed>>
  BY DEF SetHead, Go, _cmsLeaveCriticalSectionPrimitive
<1>2. /\ id \in DOMAIN context \cap Ids /\ id \notin DOMAIN held
      /\ next[id] = head /\ mutex = t
  BY <1>1 DEF IInv, CallInv, ListInv, Works, Making
<1>3. id \notin Listed
  BY <1>1, <1>2 DEF IInv, TypeInv, ListInv, CallInv, Works, Making, Unmaking, InList
<1>4. TypeInv'
  BY <1>1, <1>2 DEF IInv, TypeInv, ListType, Making
<1>5. OneBefore(head, next)' /\ Listed' = Listed \cup {id}
  BY <1>1, <1>2, <1>3, Linked DEF IInv, TypeInv, ListInv, Listed
<1>6. CallInv'
  BY <1>1 DEF IInv, TypeInv, CallInv, Works, Making, Unmaking, Mine
<1>7. ListInv'
  BY <1>1, <1>2, <1>5, ThreadsAssumption DEF IInv, TypeInv, ListInv, InList
<1>8. PoolInv'
  BY <1>1 DEF IInv, TypeInv, PoolInv, Copies, Making, Mine, PoolsFreedAsMade
<1> QED  BY <1>4, <1>6, <1>7, <1>8 DEF IInv

(***************************************************************************)
(* Between linking and unlinking: nobody else comes to the context, and of *)
(* the others only chunks change.                                          *)
(***************************************************************************)
IsStruct(x) == x = [f \in Fields |-> x[f]]
SameMemory(x, y) ==
    /\ IsStruct(x)
    /\ x.DefaultMemoryManager = y.DefaultMemoryManager
    /\ x.MemPool = y.MemPool /\ x.MemPlugin = y.MemPlugin /\ x.replaced = y.replaced
Keeps(x, y) == ~x.replaced => ~y.replaced /\ x.DefaultMemoryManager = y.DefaultMemoryManager
WorksOn(id) ==
    /\ DOMAIN context' = DOMAIN context
    /\ \A y \in DOMAIN context \ {id} : SameMemory(context'[y], context[y])
    /\ IsStruct(context'[id]) /\ Managed(context'[id]) /\ Keeps(context'[id], context[id])
    /\ UNCHANGED <<head, next, mutex>>

\* What the copies of others are made of.
LEMMA WorksKeeps ==
    ASSUME NEW id, WorksOn(id)
    PROVE  /\ \A y \in DOMAIN context : Keeps(context'[y], context[y])
           /\ \A y \in DOMAIN context \ {id} : Manager(context'[y]) = Manager(context[y])
  BY DEF WorksOn, SameMemory, Keeps, Manager

LEMMA BuildsInv ==
    ASSUME IInv, NEW t \in Threads, NEW label, WorksOn(doing[t].id),
           at' = [at EXCEPT ![t] = label], UNCHANGED <<doing, held>>,
           at[t] \in InList \ {"unlink"}, label \in InList,
           label \in Making \ {"plugin"} => at[t] \in Making \ {"plugin"},
           label = "destroy" => context'[doing[t].id].MemPlugin = <<>>,
           PoolsFreedAsMade'
    PROVE  IInv'
<1> DEFINE id == doing[t].id
<1>1. id \in DOMAIN context \cap Ids /\ id \notin DOMAIN held
  BY DEF IInv, CallInv, Works, Making, Unmaking, InList
<1>2. TypeInv'
  BY <1>1 DEF IInv, TypeInv, WorksOn, IsStruct, SameMemory, InList, Making, Unmaking
<1>3. CallInv'
  BY <1>1 DEF IInv, TypeInv, CallInv, WorksOn, Works, Making, Unmaking, InList, Mine
<1>4. ListInv'
  BY <1>1 DEF IInv, TypeInv, ListInv, WorksOn, InList, Listed
<1>6. PoolInv'
  <2>1. (\A y \in DOMAIN context : Managed(context[y]))'
    BY DEF IInv, PoolInv, WorksOn, SameMemory, Managed
  <2>2. (context[Global].MemPlugin = <<>>)'
    BY <1>1, AddressAssumption DEF IInv, TypeInv, PoolInv, WorksOn, SameMemory
  <2>3. ASSUME NEW u \in Threads PROVE Copies(u)'
    <3>1. Works(u) => doing[u].id \in DOMAIN context
      BY DEF IInv, CallInv
    <3>2. (at[u] \in Making \ {"plugin"})' => at[u] \in Making \ {"plugin"}
      BY DEF IInv, TypeInv
    <3>3. Mine(u)' = Mine(u) /\ Mine(u) \cup {Global} \subseteq DOMAIN context \ {id}
      BY <1>1, AddressAssumption DEF IInv, TypeInv, Mine
    <3>4. Copies(u)
      BY DEF IInv, PoolInv
    <3> QED  BY <3>1, <3>2, <3>3, <3>4, WorksKeeps DEF Copies, Works, Keeps
  <2>4. ASSUME NEW u \in Threads, at'[u] = "destroy" PROVE context'[doing'[u].id].MemPlugin = <<>>
    <3>1. CASE u = t
      BY <2>4, <3>1 DEF IInv, TypeInv
    <3>2. CASE u # t
      <4>1. at[u] = "destroy" /\ doing[u].id \in DOMAIN context \ {id}
        BY <2>4, <3>2 DEF IInv, TypeInv, CallInv, Works, Making, Unmaking, InList
      <4> QED  BY <4>1 DEF IInv, PoolInv, WorksOn, SameMemory
    <3> QED  BY <3>1, <3>2
  <2> QED  BY <2>1, <2>2, <2>3, <2>4 DEF PoolInv
<1> QED  BY <1>2, <1>3, <1>4, <1>6 DEF IInv

\* A call that has made a context gives it to the program.
LEMMA GivesInv ==
    ASSUME IInv, NEW t \in Threads, WorksOn(doing[t].id), Return(t),
           held' = Added(held, doing[t].id, t),
           at[t] \in InList, UNCHANGED misfreed
    PROVE  IInv'
<1> DEFINE id == doing[t].id
<1>1. id \in DOMAIN context \cap Ids /\ id \notin DOMAIN held /\ id \in Listed
  BY DEF IInv, CallInv, ListInv, Works, Making, Unmaking, InList
<1>2. /\ DOMAIN held' = DOMAIN held \cup {id} /\ held'[id] = t
      /\ \A x \in DOMAIN held : held'[x] = held[x]
  BY <1>1 DEF Added
<1>3. at' = [at EXCEPT ![t] = "idle"] /\ doing' = [doing EXCEPT ![t] = Idle]
  BY DEF Return, Go
<1>4. Idle = [f \in CallFields |-> Idle[f]]
  BY DEF Idle, CallFields
<1>5. TypeInv'
  BY <1>1, <1>2, <1>3, <1>4 DEF IInv, TypeInv, WorksOn, IsStruct, SameMemory
<1>6. CallInv'
  BY <1>1, <1>2, <1>3 DEF IInv, TypeInv, CallInv, WorksOn, Works, Making, Unmaking, InList, Mine
<1>7. ListInv'
  BY <1>1, <1>2, <1>3 DEF IInv, TypeInv, ListInv, WorksOn, InList, Listed
<1>8. PoolInv'
  <2>1. (\A y \in DOMAIN context : Managed(context[y]))'
    BY DEF IInv, PoolInv, WorksOn, SameMemory, Managed
  <2>2. (context[Global].MemPlugin = <<>>)'
    BY <1>1, AddressAssumption DEF IInv, TypeInv, PoolInv, WorksOn, SameMemory
  <2>3. ASSUME NEW u \in Threads PROVE Copies(u)'
    <3>1. Works(u) => doing[u].id \in DOMAIN context
      BY DEF IInv, CallInv
    <3>2. (at[u] \in Making \ {"plugin"})' => u # t /\ at[u] \in Making \ {"plugin"} /\ doing'[u] = doing[u]
      BY <1>3 DEF IInv, TypeInv, Making
    <3>3. Mine(u) \subseteq Mine(u)' /\ Mine(u) \cup {Global} \subseteq DOMAIN context \ {id}
      BY <1>1, <1>2, AddressAssumption DEF IInv, TypeInv, Mine
    <3>4. Copies(u)
      BY DEF IInv, PoolInv
    <3> QED  BY <3>1, <3>2, <3>3, <3>4, WorksKeeps DEF Copies, Works, Keeps
  <2>4. ASSUME NEW u \in Threads, at'[u] = "destroy" PROVE context'[doing'[u].id].MemPlugin = <<>>
    <3>1. u # t /\ at[u] = "destroy" /\ doing[u].id \in DOMAIN context \ {id} /\ doing'[u] = doing[u]
      BY <1>3, <2>4 DEF IInv, TypeInv, CallInv, Works, Making, Unmaking, InList
    <3> QED  BY <3>1 DEF IInv, PoolInv, WorksOn, SameMemory
  <2> QED  BY <2>1, <2>2, <2>3, <2>4 DEF IInv, PoolInv, PoolsFreedAsMade
<1> QED  BY <1>5, <1>6, <1>7, <1>8 DEF IInv

\* What each step makes of the structures.
LEMMA StructEdits ==
    ASSUME TypeInv, NEW id \in DOMAIN context \cap Ids
    PROVE  /\ \A y \in DOMAIN context : IsStruct(context[y]) /\ SameMemory(context[y], context[y])
           /\ \A place, new : /\ DOMAIN InPlace(place, new) = DOMAIN context
                              /\ \A y \in DOMAIN context : SameMemory(InPlace(place, new)[y], context[y])
  BY DEF TypeInv, IsStruct, SameMemory, InPlace, Fields

LEMMA NewPool ==
    ASSUME NEW x, IsStruct(x), NEW pool, NEW y, y = [x EXCEPT !.MemPool = pool]
    PROVE  /\ IsStruct(y) /\ y.DefaultMemoryManager = x.DefaultMemoryManager
           /\ y.MemPool = pool /\ y.MemPlugin = x.MemPlugin /\ y.replaced = x.replaced
  BY DEF IsStruct, Fields

LEMMA NewChunks ==
    ASSUME NEW x, IsStruct(x), NEW chunks, NEW y, y = [x EXCEPT !.chunks = chunks]
    PROVE  SameMemory(y, x)
  BY DEF IsStruct, SameMemory, Fields

LEMMA CreateSubAllocInv == ASSUME IInv, NEW t \in Threads, _cmsCreateSubAlloc(t) PROVE IInv'
<1> DEFINE id == doing[t].id
<1>1. /\ at[t] = "pool" /\ UNCHANGED <<head, next, mutex, doing, held, misfreed>>
      /\ \/ /\ context' = [context EXCEPT ![id].MemPool = {Manager(context[id])}]
            /\ at' = [at EXCEPT ![t] = "chunks"]
         \/ context' = context /\ at' = [at EXCEPT ![t] = "unregister"]
  BY DEF _cmsCreateSubAlloc, Go, list
<1>2. id \in DOMAIN context \cap Ids /\ Managed(context[id])
  BY <1>1 DEF IInv, CallInv, PoolInv, Copies, Works, Making
<1>3. ~context[id].replaced => Manager(context[id]) = context[id].DefaultMemoryManager
  BY <1>2 DEF Manager, Managed
<1>4. WorksOn(id)
  <2>1. CASE context' = context
    BY <1>1, <1>2, <2>1, StructEdits DEF IInv, WorksOn, Managed, Keeps
  <2>2. CASE context' = [context EXCEPT ![id].MemPool = {Manager(context[id])}]
    <3> DEFINE now == [context[id] EXCEPT !.MemPool = {Manager(context[id])}]
    <3>1. \A y \in DOMAIN context : context'[y] = IF y = id THEN now ELSE context[y]
      BY <1>2, <2>2
    <3>2. DOMAIN context' = DOMAIN context
      BY <1>2, <2>2
    <3>3. /\ IsStruct(now) /\ now.DefaultMemoryManager = context[id].DefaultMemoryManager
          /\ now.MemPool = {Manager(context[id])} /\ now.MemPlugin = context[id].MemPlugin
          /\ now.replaced = context[id].replaced
      BY <1>2, StructEdits, NewPool DEF IInv
    <3> HIDE DEF now
    <3> QED  BY <1>1, <1>2, <1>3, <3>1, <3>2, <3>3, StructEdits DEF IInv, WorksOn, Managed, Keeps
  <2> QED  BY <1>1, <2>1, <2>2
<1>5. PoolsFreedAsMade'
  BY <1>1 DEF IInv, PoolInv, Copies, PoolsFreedAsMade
<1> QED  BY <1>1, <1>4, <1>5, BuildsInv DEF InList, Making

LEMMA AllocInv == ASSUME IInv, NEW t \in Threads, AllocAllChunks(t) PROVE IInv'
<1> DEFINE id == doing[t].id
           copied == Copied(doing[t])
<1>0. /\ at[t] = "chunks" /\ UNCHANGED <<head, next, mutex, calls, misfreed>>
      /\ \/ at' = [at EXCEPT ![t] = "plugin"] /\ UNCHANGED <<doing, held>>
         \/ at' = [at EXCEPT ![t] = "unregister"] /\ UNCHANGED <<doing, held>>
         \/ Return(t) /\ held' = Added(held, id, t)
  BY DEF AllocAllChunks, Go, list
<1> DEFINE made(lost) == AllocatedBut(lost, id, Original(doing[t]), context[id].chunks)
<1>5. PICK lost \in IF Scarce THEN SUBSET Clients ELSE {{}}, grown \in SUBSET Range(copied) :
        context' = [context EXCEPT ![id].chunks = made(lost), ![id].MemPlugin = copied,
                                   ![id].MemPool = @ \cup grown]
  BY DEF AllocAllChunks
<1>6. PICK chunks : chunks = made(lost)
  OBVIOUS
<1>1. context' = [context EXCEPT ![id].chunks = chunks, ![id].MemPlugin = copied,
                                 ![id].MemPool = @ \cup grown]
  BY <1>5, <1>6
<1>2. id \in DOMAIN context \cap Ids /\ Managed(context[id])
  BY <1>0, <1>1 DEF IInv, CallInv, PoolInv, Copies, Works, Making
<1>3. ~context[id].replaced => copied \in {<<>>, <<context[id].DefaultMemoryManager>>}
                               /\ grown \subseteq {context[id].DefaultMemoryManager}
  <2>1. \A m : Range(<<m>>) = {m}
    BY DEF Range
  <2>2. Range(<<>>) = {}
    BY DEF Range
  <2>3. CASE doing[t].act = "dup"
    <3>1. ~context[id].replaced => Manager(context[doing[t].place]) = context[id].DefaultMemoryManager
      BY <1>0, <1>1, <2>3 DEF IInv, PoolInv, Copies, Making
    <3> QED  BY <2>1, <2>3, <3>1 DEF Copied
  <2>4. CASE doing[t].act # "dup"
    BY <2>2, <2>4 DEF Copied
  <2> QED  BY <2>3, <2>4
<1> HIDE DEF copied
<1>4. WorksOn(id)
  <2> DEFINE now == [context[id] EXCEPT !.chunks = chunks, !.MemPlugin = copied, !.MemPool = @ \cup grown]
  <2>1. \A y \in DOMAIN context : context'[y] = IF y = id THEN now ELSE context[y]
    BY <1>0, <1>1, <1>2
  <2>2. DOMAIN context' = DOMAIN context
    BY <1>0, <1>1, <1>2
  <2>3. /\ IsStruct(now) /\ now.DefaultMemoryManager = context[id].DefaultMemoryManager
        /\ now.MemPool = context[id].MemPool \cup grown /\ now.MemPlugin = copied
        /\ now.replaced = context[id].replaced
    <3>1. IsStruct(context[id])
      BY <1>2, StructEdits DEF IInv, TypeInv
    <3> QED  BY <3>1 DEF IsStruct, Fields
  <2> HIDE DEF now
  <2> QED  BY <1>0, <1>1, <1>2, <1>3, <2>1, <2>2, <2>3, StructEdits DEF IInv, WorksOn, Managed, Keeps
<1>7. PoolsFreedAsMade'
  BY <1>0, <1>1 DEF IInv, PoolInv, Copies, PoolsFreedAsMade
<1> QED  BY <1>0, <1>1, <1>4, <1>7, BuildsInv, GivesInv DEF InList, Making

\* What taking plug-ins, and leaving them, makes of a context and of the others: the functions
\* to allocate with are those that were in force, or the context is marked.
LEMMA AlteredMemory ==
    ASSUME TypeInv, NEW id \in DOMAIN context, NEW bundle, NEW act,
           NEW grown \in SUBSET Growing(context[id], UpToBad(bundle)),
           NEW now, now = Altered(id, bundle, act, id, grown)
    PROVE  /\ DOMAIN now = DOMAIN context
           /\ \A y \in DOMAIN context \ {id} : SameMemory(now[y], context[y])
           /\ IsStruct(now[id]) /\ Keeps(now[id], context[id])
           /\ Managed(context[id]) => Managed(now[id])
           /\ context[id].MemPlugin = <<>> => now[id].MemPlugin = <<>>
           /\ \A y \in DOMAIN context :
                 now[y].chunks = InPlace(id, Changed(InForce(id), bundle, act, id))[y].chunks
<1> DEFINE new == InPlace(id, Changed(InForce(id), bundle, act, id))
           plugins == UpToBad(bundle)
           was == new[id]
           found == Found(context[id], plugins)
           h == InForceAfter(context[id], plugins)
<1>1. /\ DOMAIN new = DOMAIN context
      /\ \A y \in DOMAIN context : SameMemory(new[y], context[y])
  BY DEF TypeInv, InPlace, IsStruct, SameMemory, Fields
<1>2. SameMemory(was, context[id])
  BY <1>1
<1>3. Manager(was) = Manager(context[id])
  BY <1>2 DEF SameMemory, Manager
<1>4. InForceAfter(was, plugins) = h /\ Found(was, plugins) = found
  BY <1>3 DEF InForceAfter, Found
<1>5. grown \subseteq {found[k] : k \in DOMAIN plugins}
  BY DEF Growing
<1>6. now = IF act = "unregister" THEN [new EXCEPT ![id].MemPlugin = <<>>]
            ELSE [new EXCEPT ![id] = _cmsRegisterMemHandlerPlugin(was, plugins, grown)]
  BY DEF Altered
<1> HIDE DEF new, plugins, found, h
<1>7. /\ DOMAIN now = DOMAIN context
      /\ \A y \in DOMAIN context \ {id} : now[y] = new[y]
  BY <1>1, <1>6
<1>8. CASE act = "unregister"
  <2>1. now[id] = [was EXCEPT !.MemPlugin = <<>>]
    BY <1>1, <1>6, <1>8
  <2>2. /\ IsStruct(now[id]) /\ now[id].MemPlugin = <<>> /\ now[id].chunks = was.chunks
        /\ now[id].replaced = context[id].replaced /\ now[id].MemPool = context[id].MemPool
        /\ now[id].DefaultMemoryManager = context[id].DefaultMemoryManager
    BY <1>2, <2>1 DEF SameMemory, IsStruct, Fields
  <2> QED  BY <1>1, <1>7, <2>2 DEF Keeps, Managed, new
<1>9. CASE act # "unregister"
  <2>1. now[id] = _cmsRegisterMemHandlerPlugin(was, plugins, grown)
    BY <1>1, <1>6, <1>9
  <2>2. now[id] = [was EXCEPT
            !.DefaultMemoryManager = IF was.MemPlugin = <<>> THEN h ELSE @,
            !.MemPlugin = IF was.MemPlugin = <<>> THEN <<>> ELSE <<h>>,
            !.MemPool = @ \cup grown,
            !.replaced = \/ @ \/ h # Manager(was) \/ \E k \in DOMAIN plugins : found[k] # Manager(was)]
    BY <1>4, <2>1 DEF _cmsRegisterMemHandlerPlugin
  <2>3. /\ IsStruct(now[id]) /\ now[id].chunks = was.chunks
        /\ now[id].DefaultMemoryManager = IF was.MemPlugin = <<>> THEN h ELSE was.DefaultMemoryManager
        /\ now[id].MemPlugin = IF was.MemPlugin = <<>> THEN <<>> ELSE <<h>>
        /\ now[id].MemPool = was.MemPool \cup grown
        /\ now[id].replaced <=> \/ was.replaced \/ h # Manager(was)
                                \/ \E k \in DOMAIN plugins : found[k] # Manager(was)
    BY <1>2, <2>2 DEF SameMemory, IsStruct, Fields
  <2>4. SUFFICES ASSUME ~now[id].replaced
                 PROVE  /\ ~context[id].replaced /\ now[id].DefaultMemoryManager = context[id].DefaultMemoryManager
                        /\ Managed(context[id]) => Managed(now[id])
    BY <1>1, <1>2, <1>7, <2>3 DEF Keeps, Managed, SameMemory, new
  <2>5. ~was.replaced /\ h = Manager(was) /\ grown \subseteq {Manager(was)}
    BY <1>5, <2>3, <2>4
  <2> QED  BY <1>2, <2>3, <2>5 DEF Managed, Manager, SameMemory
<1> QED  BY <1>8, <1>9

LEMMA SetupInv == ASSUME IInv, NEW t \in Threads, SetupPlugins(t) PROVE IInv'
<1> DEFINE id == doing[t].id
<1>1. PICK grown \in SUBSET Growing(context[id], UpToBad(doing[t].bundle)) :
        /\ at[t] = "plugin" /\ context' = Altered(id, doing[t].bundle, "plugin", id, grown)
        /\ UNCHANGED <<head, next, mutex, calls, misfreed>>
        /\ \/ at' = [at EXCEPT ![t] = "unregister"] /\ UNCHANGED <<doing, held>>
           \/ Return(t) /\ held' = Added(held, id, t)
  BY DEF SetupPlugins, Go, list
<1>2. id \in DOMAIN context \cap Ids /\ Managed(context[id])
  BY <1>1 DEF IInv, CallInv, PoolInv, Copies, Works, Making
<1>3. WorksOn(id)
  BY <1>1, <1>2, AlteredMemory DEF IInv, WorksOn
<1>4. PoolsFreedAsMade'
  BY <1>1 DEF IInv, PoolInv, Copies, PoolsFreedAsMade
<1> QED  BY <1>1, <1>3, <1>4, BuildsInv, GivesInv DEF InList, Making

LEMMA DeleteInv == ASSUME IInv, NEW t \in Threads, cmsDeleteContext(t) PROVE IInv'
<1>1. PICK id \in Mine(t) :
        /\ Call(t, "unregister", [Idle EXCEPT !.id = id, !.act = "delete"])
        /\ held' = [x \in DOMAIN held \ {id} |-> held[x]]
        /\ UNCHANGED <<context, list, misfreed>>
  BY DEF cmsDeleteContext
<1> DEFINE d == [Idle EXCEPT !.id = id, !.act = "delete"]
<1>2. d = [f \in CallFields |-> d[f]] /\ d.id = id /\ d.act = "delete"
  BY DEF Idle, CallFields
<1>3. /\ at[t] = "idle" /\ at' = [at EXCEPT ![t] = "unregister"] /\ doing' = [doing EXCEPT ![t] = d]
      /\ UNCHANGED <<context, head, next, mutex, misfreed>>
  BY <1>1 DEF Call, Go, list
<1>4. id \in DOMAIN context \cap Ids /\ id \in DOMAIN held /\ held[id] = t /\ id \in Listed
  BY <1>1 DEF IInv, TypeInv, ListInv, Mine
<1> HIDE DEF d
<1>5. TypeInv'
  BY <1>1, <1>2, <1>3 DEF IInv, TypeInv, Unmaking
<1>6. CallInv'
  <2>1. /\ \A u \in Threads : u # t => at'[u] = at[u] /\ doing'[u] = doing[u]
        /\ at'[t] = "unregister" /\ doing'[t].id = id
        /\ DOMAIN held' = DOMAIN held \ {id} /\ \A x \in DOMAIN held' : held'[x] = held[x]
    BY <1>1, <1>2, <1>3 DEF IInv, TypeInv
  <2>2. (\A u \in Threads : Works(u) => doing[u].id \in (DOMAIN context \cap Ids) \ DOMAIN held)'
    BY <1>3, <1>4, <2>1 DEF IInv, CallInv, Works
  <2>3. (\A u, w \in Threads : Works(u) /\ Works(w) /\ doing[u].id = doing[w].id => u = w)'
    BY <1>4, <2>1 DEF IInv, CallInv, Works
  <2>4. (\A u \in Threads : at[u] \in {"search", "change"} => doing[u].id \in Mine(u))'
    BY <1>4, <2>1 DEF IInv, CallInv, Mine
  <2>5. (\A u \in Threads : at[u] = "change" => doing[u].place = doing[u].id)'
    BY <2>1 DEF IInv, CallInv
  <2> QED  BY <2>2, <2>3, <2>4, <2>5 DEF CallInv
<1>7. ListInv'
  BY <1>1, <1>2, <1>3, <1>4 DEF IInv, TypeInv, ListInv, InList, Listed
<1>8. PoolInv'
  BY <1>1, <1>2, <1>3, <1>4 DEF IInv, TypeInv, CallInv, PoolInv, Copies, Works, Making, Unmaking, Mine, PoolsFreedAsMade
<1> QED  BY <1>5, <1>6, <1>7, <1>8 DEF IInv

LEMMA UnregisterInv == ASSUME IInv, NEW t \in Threads, UnregisterToDelete(t) PROVE IInv'
<1> DEFINE id == doing[t].id
<1>1. PICK new, global :
        /\ at[t] = "unregister" /\ at' = [at EXCEPT ![t] = "destroy"]
        /\ context' = [context EXCEPT ![id] = [@ EXCEPT !.chunks = new, !.MemPlugin = <<>>],
                                      ![Global].chunks = global]
        /\ UNCHANGED <<head, next, mutex, doing, held, misfreed>>
  BY DEF UnregisterToDelete, cmsUnregisterPluginsTHR, Go, list
<1>2. id \in DOMAIN context \cap Ids /\ Managed(context[id]) /\ id # Global
  BY <1>1, AddressAssumption DEF IInv, CallInv, PoolInv, Copies, Works, Unmaking
<1>3. WorksOn(id) /\ context'[id].MemPlugin = <<>>
  <2> DEFINE now == [context[id] EXCEPT !.chunks = new, !.MemPlugin = <<>>]
             other == [context[Global] EXCEPT !.chunks = global]
  <2>1. /\ DOMAIN context' = DOMAIN context
        /\ \A y \in DOMAIN context :
              context'[y] = IF y = Global THEN other ELSE IF y = id THEN now ELSE context[y]
    BY <1>1, <1>2 DEF IInv, TypeInv
  <2>2. /\ IsStruct(now) /\ now.DefaultMemoryManager = context[id].DefaultMemoryManager
        /\ now.MemPool = context[id].MemPool /\ now.MemPlugin = <<>>
        /\ now.replaced = context[id].replaced
    <3>1. IsStruct(context[id])
      BY <1>2, StructEdits DEF IInv, TypeInv
    <3> QED  BY <3>1 DEF IsStruct, Fields
  <2>3. SameMemory(other, context[Global])
    <3>1. IsStruct(context[Global])
      BY <1>2, StructEdits DEF IInv, TypeInv
    <3> QED  BY <3>1, NewChunks
  <2> HIDE DEF now, other
  <2> QED  BY <1>1, <1>2, <2>1, <2>2, <2>3, StructEdits DEF IInv, WorksOn, Managed, Keeps
<1>4. PoolsFreedAsMade'
  BY <1>1 DEF IInv, PoolInv, Copies, PoolsFreedAsMade
<1> QED  BY <1>1, <1>3, <1>4, BuildsInv DEF InList, Making

\* Here pools are freed: by the functions in force, which are those of the context again.
LEMMA DestroyInv == ASSUME IInv, NEW t \in Threads, _cmsSubAllocDestroy(t) PROVE IInv'
<1> DEFINE id == doing[t].id
<1>1. /\ at[t] = "destroy" /\ at' = [at EXCEPT ![t] = "unlink"]
      /\ misfreed' = misfreed
            \cup (IF context[id].MemPool \subseteq {Manager(context[id])} THEN {}
                  ELSE IF context[id].replaced THEN {"replaced pool"} ELSE {"pool"})
            \cup (IF context[id].MemPool # {} /\ context[id].MemPlugin # <<>> THEN {"manager"} ELSE {})
      /\ context' = [context EXCEPT ![id].MemPool = {}]
      /\ UNCHANGED <<head, next, mutex, doing, held>>
  BY DEF _cmsSubAllocDestroy, Go, list
<1>2. id \in DOMAIN context \cap Ids /\ Managed(context[id]) /\ context[id].MemPlugin = <<>>
  BY <1>1 DEF IInv, CallInv, PoolInv, Copies, Works, Unmaking
<1>3. WorksOn(id)
  <2> DEFINE now == [context[id] EXCEPT !.MemPool = {}]
  <2>1. \A y \in DOMAIN context : context'[y] = IF y = id THEN now ELSE context[y]
    BY <1>1, <1>2
  <2>2. DOMAIN context' = DOMAIN context
    BY <1>1, <1>2
  <2>3. /\ IsStruct(now) /\ now.DefaultMemoryManager = context[id].DefaultMemoryManager
        /\ now.MemPool = {} /\ now.MemPlugin = context[id].MemPlugin /\ now.replaced = context[id].replaced
    <3>1. IsStruct(context[id])
      BY <1>2, StructEdits DEF IInv, TypeInv
    <3> QED  BY <3>1, NewPool
  <2> HIDE DEF now
  <2> QED  BY <1>1, <1>2, <2>1, <2>2, <2>3, StructEdits DEF IInv, WorksOn, Managed, Keeps
<1>4. PoolsFreedAsMade'
  BY <1>1, <1>2 DEF IInv, PoolInv, Copies, PoolsFreedAsMade, Manager, Managed
<1> QED  BY <1>1, <1>3, <1>4, BuildsInv DEF InList, Making

LEMMA UnlinkInv == ASSUME IInv, NEW t \in Threads, Unlink(t) PROVE IInv'
<1> DEFINE id == doing[t].id
<1>1. /\ at[t] = "unlink" /\ mutex = Nobody /\ at' = [at EXCEPT ![t] = "free"]
      /\ IF head = id THEN head' = next[id] /\ next' = next
         ELSE /\ next' = [x \in Ids |-> IF x \in Listed /\ next[x] = id THEN next[id] ELSE next[x]]
              /\ head' = head
      /\ UNCHANGED <<context, mutex, doing, held, misfreed>>
  BY DEF Unlink, Go
<1>2. id \in DOMAIN context \cap Ids /\ id \notin DOMAIN held
  BY <1>1 DEF IInv, CallInv, Works, Unmaking
<1>3. ListType(head, next)' /\ OneBefore(head, next)' /\ Listed' = Listed \ {id}
  <2>1. ListType(head, next) /\ OneBefore(head, next)
    BY DEF IInv, TypeInv, ListInv
  <2>2. CASE head = id
    BY <1>1, <1>2, <2>1, <2>2, UnlinkedFirst, AddressAssumption DEF Listed
  <2>3. CASE head # id
    <3> DEFINE m == [x \in Ids |-> IF x \in Reached(head, next) /\ next[x] = id THEN next[id] ELSE next[x]]
    <3>1. ListType(head, m) /\ OneBefore(head, m) /\ Reached(head, m) = Reached(head, next) \ {id}
      BY <1>2, <2>1, <2>3, UnlinkedOther
    <3>2. head' = head /\ next' = m
      BY <1>1, <2>3 DEF Listed
    <3> HIDE DEF m
    <3> QED  BY <3>1, <3>2 DEF Listed
  <2> QED  BY <2>2, <2>3
<1>4. TypeInv'
  BY <1>1, <1>2, <1>3 DEF IInv, TypeInv, Unmaking
<1>5. CallInv'
  BY <1>1 DEF IInv, TypeInv, CallInv, Works, Making, Unmaking, Mine
<1>6. ListInv'
  <2>1. \A u \in Threads : u # t => at'[u] = at[u] /\ (at[u] \in InList => doing[u].id # id)
    BY <1>1 DEF IInv, TypeInv, CallInv, Works, Making, Unmaking, InList
  <2>2. at'[t] = "free" /\ mutex' = Nobody /\ \A u \in Threads : at'[u] # "linked"
    BY <1>1, <2>1, ThreadsAssumption DEF IInv, TypeInv, ListInv
  <2>3. (\A u \in Threads : at[u] \in InList => doing[u].id \in Listed)'
    BY <1>1, <1>3, <2>1, <2>2 DEF IInv, ListInv, InList
  <2>4. (\A x \in Listed : x \in DOMAIN held \/ \E u \in Threads : at[u] \in InList /\ doing[u].id = x)'
    BY <1>1, <1>3, <2>1 DEF IInv, ListInv
  <2> QED  BY <1>1, <1>2, <1>3, <2>2, <2>3, <2>4, ThreadsAssumption DEF IInv, ListInv
<1>7. PoolInv'
  BY <1>1 DEF IInv, TypeInv, PoolInv, Copies, Making, Mine, PoolsFreedAsMade
<1> QED  BY <1>4, <1>5, <1>6, <1>7 DEF IInv

LEMMA FreeInv == ASSUME IInv, NEW t \in Threads, FreeStruct(t) PROVE IInv'
<1> DEFINE id == doing[t].id
<1>1. /\ at[t] = "free" /\ at' = [at EXCEPT ![t] = "idle"] /\ doing' = [doing EXCEPT ![t] = Idle]
      /\ misfreed' \subseteq misfreed \cup {"context"}
      /\ context' = [x \in DOMAIN context \ {id} |-> context[x]]
      /\ UNCHANGED <<head, next, mutex, held>>
  BY DEF FreeStruct, Return, Go, list
<1>2. id \in DOMAIN context \cap Ids /\ id \notin DOMAIN held
  BY <1>1 DEF IInv, CallInv, Works, Unmaking
<1>3. Idle = [f \in CallFields |-> Idle[f]]
  BY DEF Idle, CallFields
<1>4. TypeInv'
  BY <1>1, <1>2, <1>3, AddressAssumption DEF IInv, TypeInv
<1>5. CallInv'
  BY <1>1, <1>2 DEF IInv, TypeInv, CallInv, Works, Making, Unmaking, Mine
<1>6. ListInv'
  BY <1>1, <1>2 DEF IInv, TypeInv, ListInv, InList, Listed
<1>7. PoolInv'
  <2>1. /\ at'[t] = "idle" /\ \A u \in Threads : u # t => at'[u] = at[u] /\ doing'[u] = doing[u]
        /\ DOMAIN context' = DOMAIN context \ {id} /\ \A y \in DOMAIN context' : context'[y] = context[y]
    BY <1>1 DEF IInv, TypeInv
  <2>2. \A u \in Threads : u # t /\ Works(u) => doing[u].id \in DOMAIN context'
    BY <1>1, <2>1 DEF IInv, CallInv, Works, Unmaking
  <2>3. Global \in DOMAIN context'
    BY <1>2, <2>1, AddressAssumption DEF IInv, TypeInv
  <2>4. (\A y \in DOMAIN context : Managed(context[y]))'
    BY <2>1 DEF IInv, PoolInv
  <2>5. (context[Global].MemPlugin = <<>>)'
    BY <2>1, <2>3 DEF IInv, PoolInv
  <2>6. ASSUME NEW u \in Threads, at'[u] \in Making \ {"plugin"}, doing'[u].act = "dup"
        PROVE  /\ doing'[u].place \in Mine(u)' \cup {Global}
               /\ ~context'[doing'[u].id].replaced =>
                     context'[doing'[u].id].DefaultMemoryManager = Manager(context'[doing'[u].place])
    <3>1. u # t
      BY <2>1, <2>6 DEF Making
    <3>2. doing[u].place \in Mine(u) \cup {Global} /\ doing[u].id \in DOMAIN context'
      BY <2>1, <2>2, <2>6, <3>1 DEF IInv, PoolInv, Copies, Works
    <3>3. doing[u].place \in DOMAIN context'
      BY <1>2, <2>1, <2>3, <3>2 DEF IInv, TypeInv, Mine
    <3> QED  BY <1>1, <2>1, <2>6, <3>1, <3>2, <3>3 DEF IInv, PoolInv, Copies, Mine
  <2>7. (\A u \in Threads : at[u] = "destroy" => context[doing[u].id].MemPlugin = <<>>)'
    BY <2>1, <2>2 DEF IInv, PoolInv, Works, Unmaking
  <2>8. PoolsFreedAsMade'
    BY <1>1 DEF IInv, PoolInv, PoolsFreedAsMade
  <2> QED  BY <2>4, <2>5, <2>6, <2>7, <2>8 DEF PoolInv, Copies
<1> QED  BY <1>4, <1>5, <1>6, <1>7 DEF IInv

LEMMA ChangeOfInv == ASSUME IInv, NEW t \in Threads, ChangeOf(t) PROVE IInv'
<1>1. PICK id \in Mine(t) : \E bundle, act :
        /\ Call(t, "search", [Idle EXCEPT !.id = id, !.bundle = bundle, !.act = act])
        /\ UNCHANGED <<context, list, held, misfreed>>
  BY DEF ChangeOf
<1>0. PICK bundle, act :
        /\ Call(t, "search", [Idle EXCEPT !.id = id, !.bundle = bundle, !.act = act])
        /\ UNCHANGED <<context, list, held, misfreed>>
  BY <1>1
<1> DEFINE d == [Idle EXCEPT !.id = id, !.bundle = bundle, !.act = act]
<1>2. d = [f \in CallFields |-> d[f]] /\ d.id = id
  BY DEF Idle, CallFields
<1>3. /\ at[t] = "idle" /\ at' = [at EXCEPT ![t] = "search"] /\ doing' = [doing EXCEPT ![t] = d]
      /\ UNCHANGED <<context, head, next, mutex, held, misfreed>>
  BY <1>0 DEF Call, Go, list
<1> HIDE DEF d
<1>4. TypeInv'
  BY <1>2, <1>3 DEF IInv, TypeInv
<1>5. CallInv'
  BY <1>1, <1>2, <1>3 DEF IInv, TypeInv, CallInv, Works, Making, Unmaking, Mine
<1>6. ListInv'
  BY <1>3 DEF IInv, TypeInv, ListInv, InList, Listed
<1>7. PoolInv'
  BY <1>3 DEF IInv, TypeInv, PoolInv, Copies, Making, Mine, PoolsFreedAsMade
<1> QED  BY <1>4, <1>5, <1>6, <1>7 DEF IInv

LEMMA SearchInv == ASSUME IInv, NEW t \in Threads, Search(t) PROVE IInv'
<1>1. PICK place :
        /\ at[t] = "search" /\ at' = [at EXCEPT ![t] = "change"]
        /\ doing' = [doing EXCEPT ![t].place = place] /\ place = _cmsGetContext(doing[t].id)
        /\ UNCHANGED <<context, head, next, mutex, held, misfreed>>
  BY DEF Search, Go, list
<1>0. place = doing[t].id
  BY <1>1 DEF IInv, CallInv, ListInv, Mine, _cmsGetContext
<1>2. TypeInv'
  BY <1>1 DEF IInv, TypeInv, CallFields
<1>3. \A u \in Threads : doing'[u].id = doing[u].id /\ (u # t => doing'[u] = doing[u])
  BY <1>1 DEF IInv, TypeInv, CallFields
<1>4. CallInv'
  <2>1. (\A u \in Threads : at[u] = "change" => doing[u].place = doing[u].id)'
    <3>1. doing'[t].place = place
      BY <1>1 DEF IInv, TypeInv, CallFields
    <3>2. \A u \in Threads : u # t => at'[u] = at[u]
      BY <1>1 DEF IInv, TypeInv
    <3> QED  BY <1>0, <1>3, <3>1, <3>2 DEF IInv, CallInv
  <2> QED  BY <1>1, <1>3, <2>1 DEF IInv, TypeInv, CallInv, Works, Making, Unmaking, Mine
<1>5. ListInv'
  BY <1>1, <1>3 DEF IInv, TypeInv, ListInv, InList, Listed
<1>6. PoolInv'
  BY <1>1, <1>3 DEF IInv, TypeInv, PoolInv, Copies, Making, Mine, PoolsFreedAsMade
<1> QED  BY <1>2, <1>4, <1>5, <1>6 DEF IInv

LEMMA ChangeInv == ASSUME IInv, NEW t \in Threads, Change(t) PROVE IInv'
<1> DEFINE id == doing[t].id
<1>0. at[t] = "change" /\ doing[t].place = id
  BY DEF Change, IInv, CallInv
<1>1. PICK grown \in SUBSET Growing(context[id], UpToBad(doing[t].bundle)) :
        /\ at[t] = "change" /\ at' = [at EXCEPT ![t] = "idle"] /\ doing' = [doing EXCEPT ![t] = Idle]
        /\ context' = Altered(id, doing[t].bundle, doing[t].act, id, grown)
        /\ UNCHANGED <<head, next, mutex, held, misfreed>>
  BY <1>0 DEF Change, Return, Go, list
<1>2. id \in DOMAIN context \cap Ids /\ id \in DOMAIN held /\ id # Global /\ Managed(context[id])
  BY <1>1, AddressAssumption DEF IInv, TypeInv, CallInv, PoolInv, Copies, Mine
<1>5. /\ DOMAIN context' = DOMAIN context
      /\ \A y \in DOMAIN context \ {id} : SameMemory(context'[y], context[y])
  BY <1>1, <1>2, AlteredMemory DEF IInv
<1>6. IsStruct(context'[id]) /\ Keeps(context'[id], context[id]) /\ Managed(context'[id])
  BY <1>1, <1>2, AlteredMemory DEF IInv
<1>8. Idle = [f \in CallFields |-> Idle[f]]
  BY DEF Idle, CallFields
<1>9. TypeInv'
  <2>1. \A y \in DOMAIN context' : IsStruct(context'[y])
    BY <1>5, <1>6 DEF SameMemory
  <2>2. \A u \in Threads : doing'[u] = [f \in CallFields |-> doing'[u][f]]
    BY <1>1, <1>8 DEF IInv, TypeInv
  <2>3. at' \in [Threads -> Making \cup Unmaking \cup {"idle", "search", "change"}] /\ DOMAIN doing' = Threads
    BY <1>1 DEF IInv, TypeInv
  <2>4. DOMAIN held' \subseteq DOMAIN context' \cap Ids /\ ListType(head, next)' /\ mutex' \in Threads \cup {Nobody}
    BY <1>1, <1>5 DEF IInv, TypeInv
  <2> QED  BY <1>5, <2>1, <2>2, <2>3, <2>4 DEF IInv, TypeInv, IsStruct
<1>10. CallInv'
  BY <1>1, <1>5 DEF IInv, TypeInv, CallInv, Works, Making, Unmaking, Mine
<1>11. ListInv'
  BY <1>1 DEF IInv, TypeInv, ListInv, InList, Listed
<1>12. PoolInv'
  <2>1. (\A y \in DOMAIN context : Managed(context[y]))'
    BY <1>5, <1>6 DEF IInv, PoolInv, SameMemory, Managed
  <2>2. (context[Global].MemPlugin = <<>>)'
    BY <1>2, <1>5 DEF IInv, TypeInv, PoolInv, SameMemory
  <2>3. ASSUME NEW u \in Threads PROVE Copies(u)'
    <3>1. Works(u) => doing[u].id \in DOMAIN context
      BY DEF IInv, CallInv
    <3>2. (at[u] \in Making \ {"plugin"})' => at[u] \in Making \ {"plugin"} /\ doing'[u] = doing[u]
      BY <1>1 DEF IInv, TypeInv, Making
    <3>3. u # t => Mine(u)' = Mine(u) /\ Mine(u) \cup {Global} \subseteq DOMAIN context \ {id}
      BY <1>1, <1>2 DEF IInv, TypeInv, CallInv, Mine
    <3>4. Copies(u)
      BY DEF IInv, PoolInv
    <3>5. \A y \in DOMAIN context : Keeps(context'[y], context[y])
      BY <1>5, <1>6 DEF SameMemory, Keeps
    <3>6. \A y \in DOMAIN context \ {id} : Manager(context'[y]) = Manager(context[y])
      BY <1>5 DEF SameMemory, Manager
    <3>7. (at[t] \notin Making)'
      BY <1>1 DEF IInv, TypeInv, Making
    <3> QED  BY <3>1, <3>2, <3>3, <3>4, <3>5, <3>6, <3>7 DEF Copies, Works, Keeps
  <2>4. ASSUME NEW u \in Threads, at'[u] = "destroy" PROVE context'[doing'[u].id].MemPlugin = <<>>
    <3>1. at[u] = "destroy" /\ doing[u].id \in DOMAIN context \ {id} /\ doing'[u] = doing[u]
      BY <1>1, <1>2, <2>4 DEF IInv, TypeInv, CallInv, Works, Unmaking
    <3> QED  BY <1>5, <3>1 DEF IInv, PoolInv, SameMemory
  <2> QED  BY <1>1, <2>1, <2>2, <2>3, <2>4 DEF IInv, PoolInv, PoolsFreedAsMade
<1> QED  BY <1>9, <1>10, <1>11, <1>12 DEF IInv

\* The global context is changed, and how it allocates memory, while nothing else runs.
LEMMA GlobalInv == ASSUME IInv, NEW t \in Threads, ChangeGlobal(t) PROVE IInv'
<1>1. PICK bundle, act :
        /\ Quiet /\ context' = Altered(Global, bundle, act, Global, {})
        /\ UNCHANGED <<head, next, mutex, at, doing, held, misfreed>>
  BY DEF ChangeGlobal, list
<1>2. /\ DOMAIN context' = DOMAIN context
      /\ \A y \in DOMAIN context \ {Global} : SameMemory(context'[y], context[y])
      /\ IsStruct(context'[Global]) /\ (Managed(context[Global]) => Managed(context'[Global]))
      /\ context[Global].MemPlugin = <<>> => context'[Global].MemPlugin = <<>>
  BY <1>1, AlteredMemory DEF IInv, TypeInv
<1>3. TypeInv'
  BY <1>1, <1>2 DEF IInv, TypeInv, IsStruct, SameMemory
<1>4. CallInv'
  BY <1>1, <1>2 DEF IInv, TypeInv, CallInv, Works, Mine
<1>5. ListInv'
  BY <1>1 DEF IInv, ListInv, Listed
<1>6. PoolInv'
  <2>1. (\A y \in DOMAIN context : Managed(context[y]))'
    BY <1>2 DEF IInv, PoolInv, SameMemory, Managed
  <2>2. (context[Global].MemPlugin = <<>>)'
    BY <1>2 DEF IInv, PoolInv
  <2>3. \A u \in Threads : at'[u] = "idle"
    BY <1>1 DEF Quiet
  <2> QED  BY <1>1, <2>1, <2>2, <2>3 DEF IInv, PoolInv, Copies, Making, PoolsFreedAsMade
<1> QED  BY <1>3, <1>4, <1>5, <1>6 DEF IInv

LEMMA StepInv == IInv /\ [Next]_vars => IInv'
<1> SUFFICES ASSUME IInv, [Next]_vars PROVE IInv'
  OBVIOUS
<1>1. CASE UNCHANGED vars
  BY <1>1 DEF vars, list, IInv, TypeInv, CallInv, ListInv, PoolInv, Copies, Works, Mine, Listed, PoolsFreedAsMade
<1>2. ASSUME NEW t \in Threads, Proceed(t) PROVE IInv'
  BY <1>2, SetNextInv, SetHeadInv, CreateSubAllocInv, AllocInv, SetupInv, UnregisterInv, DestroyInv,
     UnlinkInv, FreeInv, SearchInv, ChangeInv DEF Proceed
<1> QED  BY <1>1, <1>2, CreateInv, DupInv, DeleteInv, ChangeOfInv, GlobalInv DEF Next

LEMMA Invariance == Spec => []IInv
<1> QED  BY InitInv, StepInv, PTL DEF Spec

(***************************************************************************)
(* The theorems.                                                           *)
(***************************************************************************)
\* Whenever the mutex is free, the list leads to memory that is there, and to every context
\* that the program has or that a call has linked: what cmsCreateContext, cmsDupContext and
\* cmsDeleteContext (cmsplugin.c) do to it, in steps, loses none and leaves none behind.
THEOREM ListStaysWhole == Spec => []ListIsWhole
<1>1. IInv => ListIsWhole
  BY DEF IInv, TypeInv, CallInv, ListInv, ListIsWhole, Works, Making, Unmaking, InList
<1> QED  BY <1>1, Invariance, PTL

\* _cmsSubAllocDestroy gives a pool to the functions that it was allocated with, and that are
\* not in the pool, whatever plug-ins the context was made with, given, copied with or deprived
\* of, as long as none replaces the functions in force (cmserr.c:299), which the property names.
THEOREM PoolsGoBack == Spec => []PoolsFreedAsMade
<1>1. IInv => PoolsFreedAsMade
  BY DEF IInv, PoolInv
<1> QED  BY <1>1, Invariance, PTL
(***************************************************************************)
(* Implements.  With memory enough, no chunk is missing in a context that  *)
(* the program has or a call has filled, and what a call has asked for is  *)
(* what it is still about to do.                                           *)
(***************************************************************************)
Filled(x) == \A c \in Clients : context[x].chunks[c] # NULL
Filling(t) ==
    /\ at[t] = "idle" => doing[t] = Idle
    /\ at[t] \in Making \ {"plugin"} => doing[t].act \in {"create", "dup"}
    /\ at[t] = "plugin" =>
          /\ doing[t].act = "create"
          /\ \A c \in Clients :
                context[doing[t].id].chunks[c] = Chunk(MemoryClients[c].initial, {doing[t].id})
    /\ at[t] \in Unmaking => \/ doing[t].act = "delete"
                             \/ doing[t].act = "create" /\ FirstBad(doing[t].bundle) # 0
    /\ at[t] = "unregister" => Filled(doing[t].id)
    /\ at[t] \in {"search", "change"} => \/ doing[t].act = "unregister" /\ doing[t].bundle = <<>>
                                         \/ doing[t].act = "plugin" /\ doing[t].bundle # <<>>
    /\ at[t] = "change" => doing[t].place = doing[t].id
FillInv ==
    /\ \A x \in DOMAIN held \cup {Global} : Filled(x)
    /\ \A t \in Threads : Filling(t)

Mapped == Store!Next \/ UNCHANGED <<Settings, Requested>>

LEMMA ChunkIs == \A is, pools : Chunk(is, pools) # NULL /\ Chunk(is, pools)[1].is = is
  BY DEF Chunk, NULL

LEMMA InitFill == Init => FillInv /\ Store!Init
<1> SUFFICES ASSUME Init PROVE FillInv /\ Store!Init
  OBVIOUS
<1>1. DOMAIN held = {} /\ \A c \in Clients : context[Global].chunks[c] = Chunk(MemoryClients[c].initial, {})
  BY DEF Init, Initial
<1>2. FillInv
  <2>1. \A t \in Threads : at[t] = "idle" /\ doing[t] = Idle
    BY DEF Init
  <2>2. Filled(Global)
    BY <1>1, ChunkIs DEF Filled
  <2> QED  BY <1>1, <2>1, <2>2 DEF FillInv, Filling, Making, Unmaking
<1>3. Settings = [x \in {Global} |-> Store!Pristine]
  <2>1. Seen(Global) = [c \in Clients |-> MemoryClients[c].initial]
    BY <1>1, ChunkIs DEF Seen
  <2>2. Store!Pristine = [c \in Clients |-> MemoryClients[c].initial]
    BY DEF Store!Pristine
  <2>3. DOMAIN held \cup {Global} = {Global}
    BY <1>1
  <2>4. Settings = [x \in {Global} |-> Seen(x)]
    BY <2>3 DEF Settings
  <2> QED  BY <2>1, <2>2, <2>4
<1>4. Requested = [t \in Threads |-> Store!Idle]
  BY DEF Init, Requested, Idle, Store!Idle, Nowhere, Store!Nowhere
<1> QED  BY <1>2, <1>3, <1>4 DEF Store!Init, Global, Store!Global

\* What the program sees of a context whose chunks are all there.
LEMMA SeenIs ==
    ASSUME NEW x, Filled(x)
    PROVE  Seen(x) = [c \in Clients |-> context[x].chunks[c][1].is]
  BY DEF Seen, Filled, NULL

SameChunks(x) == \A c \in Clients : context'[x].chunks[c] = context[x].chunks[c]

LEMMA SeenNext ==
    ASSUME NEW x, Filled(x), SameChunks(x)
    PROVE  Filled(x)' /\ Seen(x)' = Seen(x)
<1>1. Filled(x)'
  BY DEF Filled, SameChunks
<1>2. Seen(x)' = [c \in Clients |-> context'[x].chunks[c][1].is]
  BY <1>1 DEF Seen, Filled, NULL
<1> QED  BY <1>1, <1>2, SeenIs DEF SameChunks

\* A step of one thread that touches the chunks of its own context only.
Others(t) == \A u \in Threads \ {t} : at'[u] = at[u] /\ doing'[u] = doing[u]
LEMMA FillStep ==
    ASSUME IInv, FillInv, NEW t \in Threads, Others(t), NEW id, id # Global,
           \/ id \notin DOMAIN context
           \/ id = doing[t].id /\ (Works(t) \/ at[t] \in {"search", "change"}),
           \A y \in DOMAIN context \ {id} : y \in DOMAIN held' \cup {Global} \/ (\E u \in Threads \ {t} : Works(u) /\ doing[u].id = y)
                                            => SameChunks(y),
           \A x \in DOMAIN held' : x \in DOMAIN held \ {id} \/ Filled(x)',
           Filling(t)'
    PROVE  /\ FillInv'
           /\ \A x \in ((DOMAIN held' \cap DOMAIN held) \cup {Global}) \ {id} : Seen(x)' = Seen(x)
<1>1. ASSUME NEW x \in ((DOMAIN held' \cap DOMAIN held) \cup {Global}) \ {id}
      PROVE  Filled(x)' /\ Seen(x)' = Seen(x)
  <2>1. Filled(x) /\ SameChunks(x)
    BY DEF IInv, TypeInv, FillInv
  <2> QED  BY <2>1, SeenNext
<1>2. ASSUME NEW u \in Threads \ {t} PROVE Filling(u)'
  <2>1. at'[u] = at[u] /\ doing'[u] = doing[u] /\ Filling(u)
    BY DEF Others, FillInv
  <2>2. PICK y : y = doing[u].id
    OBVIOUS
  <2>3. Works(u) => y \in DOMAIN context \ {id}
    BY <2>2 DEF IInv, TypeInv, CallInv, Works, Making, Unmaking, Mine
  <2>4. Works(u) => SameChunks(y)
    BY <2>2, <2>3
  <2>5. Works(u) /\ Filled(y) => Filled(y)'
    BY <2>4 DEF Filled, SameChunks
  <2>6. at[u] = "plugin" \/ at[u] = "unregister" => Works(u)
    BY DEF Works, Making, Unmaking
  <2> QED  BY <2>1, <2>2, <2>4, <2>5, <2>6 DEF Filling, SameChunks, Filled
<1>3. ASSUME NEW x \in DOMAIN held' \cup {Global} PROVE Filled(x)'
  BY <1>1, <1>3
<1> QED  BY <1>1, <1>2, <1>3 DEF FillInv
\* What the three kinds of steps are to the store.
LEMMA Stutters ==
    ASSUME DOMAIN held' = DOMAIN held, \A x \in DOMAIN held \cup {Global} : Seen(x)' = Seen(x),
           \A u \in Threads : /\ doing'[u].act = doing[u].act /\ doing'[u].id = doing[u].id
                              /\ doing'[u].bundle = doing[u].bundle
                              /\ doing[u].act = "dup" => doing'[u].place = doing[u].place
    PROVE  UNCHANGED <<Settings, Requested>>
<1>1. Settings' = Settings
  BY DEF Settings
<1>2. Requested' = Requested
  BY DEF Requested
<1> QED  BY <1>1, <1>2

LEMMA IdleRequest == ASSUME NEW t \in Threads, doing[t] = Idle PROVE Requested[t] = Store!Idle
  BY DEF Requested, Idle, Store!Idle, Nowhere, Store!Nowhere

RequestFor(d) ==
    [act |-> d.act, id |-> d.id, bundle |-> d.bundle,
     from |-> IF d.act = "dup" THEN d.place ELSE Nowhere]
LEMMA NextRequest ==
    ASSUME IInv, NEW t \in Threads, NEW d, doing' = [doing EXCEPT ![t] = d]
    PROVE  Requested' = [Requested EXCEPT ![t] = RequestFor(d)]
  BY DEF IInv, TypeInv, Requested, RequestFor

LEMMA Asks ==
    ASSUME IInv, NEW t \in Threads, doing[t] = Idle, NEW d, doing' = [doing EXCEPT ![t] = d],
           d.act \in {"create", "dup", "delete", "plugin", "unregister"}, d.id \in Ids,
           d.bundle \in Bundles \cup {<<>>}, d.act \in {"dup", "delete"} => d.bundle = <<>>,
           d.act = "dup" => d.place \in Ids \cup {Global},
           Settings' = IF d.act = "delete" THEN [x \in DOMAIN Settings \ {d.id} |-> Settings[x]]
                       ELSE Settings
    PROVE  Store!Ask(t)
<1> DEFINE r == RequestFor(d)
<1>1. r \in Store!Requests /\ r.act = d.act /\ r.id = d.id
  BY DEF RequestFor, Store!Requests, Global, Store!Global, Nowhere, Store!Nowhere
<1>2. Requested' = [Requested EXCEPT ![t] = r]
  BY NextRequest
<1>3. Requested[t] = Store!Idle
  BY IdleRequest
<1> HIDE DEF r
<1> QED  BY <1>1, <1>2, <1>3 DEF Store!Ask

Gives(id, chunks) ==
    Settings' = [x \in DOMAIN Settings \cup {id} |-> IF x = id THEN chunks ELSE Settings[x]]
LEMMA GivesSeen ==
    ASSUME NEW id, id # Global, NEW chunks, DOMAIN held' = DOMAIN held \cup {id}, Seen(id)' = chunks,
           \A x \in (DOMAIN held \cup {Global}) \ {id} : Seen(x)' = Seen(x)
    PROVE  Gives(id, chunks)
<1>1. \A x \in DOMAIN held' \cup {Global} :
         Seen(x)' = IF x = id THEN chunks ELSE Settings[x]
  BY DEF Settings
<1>2. DOMAIN Settings \cup {id} = DOMAIN held' \cup {Global}
  BY DEF Settings
<1>3. Settings' = [x \in DOMAIN held' \cup {Global} |-> Seen(x)']
  BY DEF Settings
<1> QED  BY <1>1, <1>2, <1>3 DEF Gives

\* The ways in which a call ends.
Outcome(d) ==
    \/ d.act = "create" /\ FirstBad(d.bundle) # 0 /\ Settings' = Settings
    \/ d.act = "create" /\ FirstBad(d.bundle) = 0
       /\ Gives(d.id, [c \in Clients |-> Brought(c, MemoryClients[c].initial, d.bundle)])
    \/ d.act = "delete" /\ Settings' = Settings
    \/ d.act = "dup" /\ Gives(d.id, Settings[d.place])
    \/ d.act = "unregister" /\ d.bundle = <<>>
       /\ Gives(d.id, [c \in Clients |-> Unregistered(c, Settings[d.id][c])])
    \/ d.act = "plugin" /\ d.bundle # <<>>
       /\ Gives(d.id, [c \in Clients |-> Brought(c, Settings[d.id][c], d.bundle)])

LEMMA Answers ==
    ASSUME IInv, NEW t \in Threads, doing' = [doing EXCEPT ![t] = Idle], Outcome(doing[t])
    PROVE  Store!Answer(t)
<1> DEFINE r == RequestFor(doing[t])
<1>1. Requested[t] = r /\ r.act = doing[t].act /\ r.id = doing[t].id /\ r.bundle = doing[t].bundle
      /\ (r.act = "dup" => r.from = doing[t].place)
  BY DEF Requested, RequestFor
<1>2. RequestFor(Idle) = Store!Idle
  BY DEF RequestFor, Idle, Store!Idle, Nowhere, Store!Nowhere
<1>3. Requested' = [Requested EXCEPT ![t] = Store!Idle]
  BY <1>2, NextRequest
<1>4. r # Store!Idle
  BY <1>1 DEF Outcome, Store!Idle
<1> HIDE DEF r
<1>5. CASE r.act = "create" /\ FirstBad(r.bundle) # 0 /\ Settings' = Settings
  BY <1>1, <1>3, <1>4, <1>5 DEF Store!Answer
<1>6. CASE r.act = "delete" /\ Settings' = Settings
  BY <1>1, <1>3, <1>4, <1>6 DEF Store!Answer
<1>7. CASE /\ r.act = "create" /\ FirstBad(r.bundle) = 0
           /\ Gives(r.id, [c \in Clients |-> Brought(c, MemoryClients[c].initial, r.bundle)])
  <2>1. Store!Taken(Store!Pristine, r.bundle) = [c \in Clients |-> Brought(c, MemoryClients[c].initial, r.bundle)]
    BY DEF Store!Taken, Store!Pristine
  <2> QED  BY <1>1, <1>3, <1>4, <1>7, <2>1 DEF Store!Answer, Gives
<1>8. CASE r.act = "dup" /\ Gives(r.id, Settings[r.from])
  BY <1>1, <1>3, <1>4, <1>8 DEF Store!Answer, Gives
<1>9. CASE /\ r.act = "unregister" /\ r.bundle = <<>>
           /\ Gives(r.id, [c \in Clients |-> Unregistered(c, Settings[r.id][c])])
  <2>1. Store!Plugged(Settings[r.id], r.bundle) = [c \in Clients |-> Unregistered(c, Settings[r.id][c])]
    BY <1>9 DEF Store!Plugged, Store!Unplugged
  <2> QED  BY <1>1, <1>3, <1>4, <1>9, <2>1 DEF Store!Answer, Gives
<1>10. CASE /\ r.act = "plugin" /\ r.bundle # <<>>
            /\ Gives(r.id, [c \in Clients |-> Brought(c, Settings[r.id][c], r.bundle)])
  <2>1. Store!Plugged(Settings[r.id], r.bundle) = [c \in Clients |-> Brought(c, Settings[r.id][c], r.bundle)]
    BY <1>10 DEF Store!Plugged, Store!Taken
  <2> QED  BY <1>1, <1>3, <1>4, <1>10, <2>1 DEF Store!Answer, Gives
<1> QED  BY <1>1, <1>5, <1>6, <1>7, <1>8, <1>9, <1>10 DEF Outcome
(***************************************************************************)
(* Each step.                                                              *)
(***************************************************************************)
LEMMA CreateMaps ==
    ASSUME IInv, FillInv, NEW t \in Threads, cmsCreateContext(t)
    PROVE  FillInv' /\ Mapped
<1>1. PICK bundle \in Bundles, id \in Ids \ DOMAIN context :
        /\ Call(t, "link", [Idle EXCEPT !.id = id, !.bundle = bundle, !.act = "create"])
        /\ context' = Added(context, id,
                            Struct(Zeros, _cmsFindMemoryPlugin(bundle), Manager(context[Global]), FALSE))
        /\ UNCHANGED <<list, held, misfreed>>
  BY DEF cmsCreateContext
<1> DEFINE d == [Idle EXCEPT !.id = id, !.bundle = bundle, !.act = "create"]
<1>2. d.id = id /\ d.act = "create" /\ d.bundle = bundle
  BY DEF Idle
<1>3. /\ at[t] = "idle" /\ at' = [at EXCEPT ![t] = "link"] /\ doing' = [doing EXCEPT ![t] = d]
      /\ held' = held
  BY <1>1 DEF Call, Go
<1> HIDE DEF d
<1>4. \A y \in DOMAIN context : SameChunks(y)
  BY <1>1 DEF Added, SameChunks
<1>5. Others(t) /\ Filling(t)'
  BY <1>2, <1>3 DEF IInv, TypeInv, Others, Filling, Making, Unmaking
<1>6. id # Global /\ id \notin DOMAIN held
  BY <1>1 DEF IInv, TypeInv
<1>7. FillInv' /\ \A x \in ((DOMAIN held' \cap DOMAIN held) \cup {Global}) \ {id} : Seen(x)' = Seen(x)
  BY <1>1, <1>3, <1>4, <1>5, <1>6, FillStep
<1>8. Settings' = Settings
  BY <1>3, <1>6, <1>7 DEF Settings
<1>9. doing[t] = Idle
  BY <1>3 DEF FillInv, Filling
<1> QED  BY <1>1, <1>2, <1>3, <1>7, <1>8, <1>9, Asks DEF Mapped, Store!Next

LEMMA DupMaps ==
    ASSUME IInv, FillInv, NEW t \in Threads, cmsDupContext(t)
    PROVE  FillInv' /\ Mapped
<1>1. PICK from \in Mine(t) \cup {Global}, id \in Ids \ DOMAIN context :
        /\ Call(t, "link", [Idle EXCEPT !.id = id, !.place = from, !.act = "dup"])
        /\ context' = Added(context, id,
                            Struct(Uninitialised, context[from].DefaultMemoryManager, Manager(context[from]),
                                   Manager(context[from]) # context[from].DefaultMemoryManager))
        /\ UNCHANGED <<list, held, misfreed>>
  BY DEF cmsDupContext
<1> DEFINE d == [Idle EXCEPT !.id = id, !.place = from, !.act = "dup"]
<1>2. d.id = id /\ d.act = "dup" /\ d.bundle = <<>> /\ d.place = from
  BY DEF Idle
<1>3. /\ at[t] = "idle" /\ at' = [at EXCEPT ![t] = "link"] /\ doing' = [doing EXCEPT ![t] = d]
      /\ held' = held
  BY <1>1 DEF Call, Go
<1> HIDE DEF d
<1>4. \A y \in DOMAIN context : SameChunks(y)
  BY <1>1 DEF Added, SameChunks
<1>5. Others(t) /\ Filling(t)'
  BY <1>2, <1>3 DEF IInv, TypeInv, Others, Filling, Making, Unmaking
<1>6. id # Global /\ id \notin DOMAIN held /\ from \in Ids \cup {Global}
  BY <1>1 DEF IInv, TypeInv, Mine
<1>7. FillInv' /\ \A x \in ((DOMAIN held' \cap DOMAIN held) \cup {Global}) \ {id} : Seen(x)' = Seen(x)
  BY <1>1, <1>3, <1>4, <1>5, <1>6, FillStep
<1>8. Settings' = Settings
  BY <1>3, <1>6, <1>7 DEF Settings
<1>9. doing[t] = Idle
  BY <1>3 DEF FillInv, Filling
<1> QED  BY <1>1, <1>2, <1>3, <1>6, <1>7, <1>8, <1>9, Asks DEF Mapped, Store!Next

LEMMA ChangeOfMaps ==
    ASSUME IInv, FillInv, NEW t \in Threads, ChangeOf(t)
    PROVE  FillInv' /\ Mapped
<1>1. PICK id \in Mine(t), bundle \in Bundles : \E act \in Changes(bundle) :
        /\ Call(t, "search", [Idle EXCEPT !.id = id, !.bundle = bundle, !.act = act])
        /\ UNCHANGED <<context, list, held, misfreed>>
  BY DEF ChangeOf
<1>0. PICK act \in Changes(bundle) :
        /\ Call(t, "search", [Idle EXCEPT !.id = id, !.bundle = bundle, !.act = act])
        /\ UNCHANGED <<context, list, held, misfreed>>
  BY <1>1
<1>a. (act = "unregister" /\ bundle = <<>>) \/ (act = "plugin" /\ bundle # <<>>)
  BY <1>0 DEF Changes
<1> DEFINE d == [Idle EXCEPT !.id = id, !.bundle = bundle, !.act = act]
<1>2. d.id = id /\ d.act = act /\ d.bundle = bundle
  BY DEF Idle
<1>3. /\ at[t] = "idle" /\ at' = [at EXCEPT ![t] = "search"] /\ doing' = [doing EXCEPT ![t] = d]
      /\ held' = held /\ context' = context
  BY <1>0 DEF Call, Go
<1> HIDE DEF d
<1>5. Others(t) /\ Filling(t)'
  BY <1>a, <1>2, <1>3 DEF IInv, TypeInv, Others, Filling, Making, Unmaking
<1>6. id \in Ids /\ id # Global /\ Nowhere # Global /\ Nowhere \notin DOMAIN context
  BY AddressAssumption DEF IInv, TypeInv, Mine, Nowhere, Global
<1>7. FillInv'
  BY <1>3, <1>5, <1>6, FillStep DEF SameChunks, IInv, TypeInv
<1>8. Settings' = Settings
  BY <1>3 DEF Settings, Seen
<1>9. doing[t] = Idle
  BY <1>3 DEF FillInv, Filling
<1> QED  BY <1>a, <1>2, <1>3, <1>6, <1>7, <1>8, <1>9, Asks DEF Mapped, Store!Next

LEMMA DeleteMaps ==
    ASSUME IInv, FillInv, NEW t \in Threads, cmsDeleteContext(t)
    PROVE  FillInv' /\ Mapped
<1>1. PICK id \in Mine(t) :
        /\ Call(t, "unregister", [Idle EXCEPT !.id = id, !.act = "delete"])
        /\ held' = [x \in DOMAIN held \ {id} |-> held[x]]
        /\ UNCHANGED <<context, list, misfreed>>
  BY DEF cmsDeleteContext
<1> DEFINE d == [Idle EXCEPT !.id = id, !.act = "delete"]
<1>2. d.id = id /\ d.act = "delete" /\ d.bundle = <<>>
  BY DEF Idle
<1>3. /\ at[t] = "idle" /\ at' = [at EXCEPT ![t] = "unregister"] /\ doing' = [doing EXCEPT ![t] = d]
      /\ context' = context /\ DOMAIN held' = DOMAIN held \ {id}
  BY <1>1 DEF Call, Go
<1> HIDE DEF d
<1>4. id \in DOMAIN held /\ id \in Ids /\ id # Global /\ Filled(id)
  BY AddressAssumption DEF IInv, TypeInv, Mine, FillInv
<1>5. Others(t) /\ Filling(t)'
  BY <1>2, <1>3, <1>4 DEF IInv, TypeInv, Others, Filling, Filled, Making, Unmaking
<1>6. Nowhere # Global /\ Nowhere \notin DOMAIN context
  BY AddressAssumption DEF IInv, TypeInv, Nowhere, Global
<1>7. FillInv'
  BY <1>3, <1>5, <1>6, FillStep DEF SameChunks, IInv, TypeInv
<1>8. Settings' = [x \in DOMAIN Settings \ {id} |-> Settings[x]]
  <2>1. Settings' = [x \in DOMAIN held' \cup {Global} |-> Seen(x)]
    BY <1>3 DEF Settings, Seen
  <2>2. DOMAIN Settings \ {id} = DOMAIN held' \cup {Global}
    BY <1>3, <1>4 DEF Settings
  <2>3. \A x \in DOMAIN held' \cup {Global} : Settings[x] = Seen(x)
    BY <1>3 DEF Settings
  <2> QED  BY <2>1, <2>2, <2>3
<1>9. doing[t] = Idle
  BY <1>3 DEF FillInv, Filling
<1> QED  BY <1>2, <1>3, <1>4, <1>7, <1>8, <1>9, Asks DEF Mapped, Store!Next
\* Steps that the program does not see.
LEMMA AsideMaps ==
    ASSUME IInv, FillInv, NEW t \in Threads, NEW label, at' = [at EXCEPT ![t] = label],
           doing' = doing, held' = held,
           Works(t), \A y \in DOMAIN context \ {doing[t].id} : SameChunks(y),
           Filling(t)'
    PROVE  FillInv' /\ Mapped
<1>1. PICK id : id = doing[t].id
  OBVIOUS
<1>2. id \in Ids /\ id # Global /\ id \notin DOMAIN held
  BY <1>1, AddressAssumption DEF IInv, CallInv
<1>3. Others(t)
  BY DEF IInv, TypeInv, Others
<1>4. FillInv' /\ \A x \in ((DOMAIN held' \cap DOMAIN held) \cup {Global}) \ {id} : Seen(x)' = Seen(x)
  BY <1>1, <1>2, <1>3, FillStep
<1>5. \A x \in DOMAIN held \cup {Global} : Seen(x)' = Seen(x)
  BY <1>2, <1>4
<1> QED  BY <1>4, <1>5, Stutters DEF Mapped

LEMMA LinkMaps ==
    ASSUME IInv, FillInv, NEW t \in Threads, SetNext(t) \/ SetHead(t)
    PROVE  FillInv' /\ Mapped
<1>1. PICK label \in {"linked", "pool"} :
        /\ at[t] \in {"link", "linked"} /\ at' = [at EXCEPT ![t] = label]
        /\ UNCHANGED <<context, doing, held>>
  BY DEF SetNext, SetHead, Go
<1>2. Works(t) /\ \A y \in DOMAIN context : SameChunks(y)
  BY <1>1 DEF Works, Making, SameChunks
<1>3. Filling(t)'
  BY <1>1 DEF IInv, TypeInv, FillInv, Filling, Making, Unmaking
<1> QED  BY <1>1, <1>2, <1>3, AsideMaps

LEMMA PoolMaps ==
    ASSUME Scarce = FALSE, IInv, FillInv, NEW t \in Threads, _cmsCreateSubAlloc(t)
    PROVE  FillInv' /\ Mapped
<1>1. /\ at[t] = "pool" /\ at' = [at EXCEPT ![t] = "chunks"] /\ UNCHANGED <<doing, held>>
      /\ context' = [context EXCEPT ![doing[t].id].MemPool = {Manager(context[doing[t].id])}]
  BY DEF _cmsCreateSubAlloc, Go
<1>2. Works(t) /\ \A y \in DOMAIN context \ {doing[t].id} : SameChunks(y)
  BY <1>1 DEF Works, Making, SameChunks
<1>3. Filling(t)'
  BY <1>1 DEF IInv, TypeInv, FillInv, Filling, Making, Unmaking
<1> QED  BY <1>1, <1>2, <1>3, AsideMaps

LEMMA DestroyMaps ==
    ASSUME IInv, FillInv, NEW t \in Threads, _cmsSubAllocDestroy(t) \/ Unlink(t)
    PROVE  FillInv' /\ Mapped
<1>1. PICK label \in {"unlink", "free"} :
        /\ at[t] \in {"destroy", "unlink"} /\ at' = [at EXCEPT ![t] = label]
        /\ UNCHANGED <<doing, held>>
        /\ context' = context \/ context' = [context EXCEPT ![doing[t].id].MemPool = {}]
  BY DEF _cmsSubAllocDestroy, Unlink, Go
<1>2. Works(t) /\ \A y \in DOMAIN context \ {doing[t].id} : SameChunks(y)
  BY <1>1 DEF Works, Unmaking, SameChunks
<1>3. Filling(t)'
  BY <1>1 DEF IInv, TypeInv, FillInv, Filling, Making, Unmaking
<1> QED  BY <1>1, <1>2, <1>3, AsideMaps

LEMMA UnregisterMaps ==
    ASSUME IInv, FillInv, NEW t \in Threads, UnregisterToDelete(t)
    PROVE  FillInv' /\ Mapped
<1> DEFINE id == doing[t].id
           missing == {c \in Clients : context[id].chunks[c] = NULL}
           left == [c \in Clients |-> IF c \in missing
                                      THEN cmsUnregisterPlugins(context[Global].chunks)[c]
                                      ELSE context[Global].chunks[c]]
           now == cmsUnregisterPluginsTHR(context[id])
<1>1. /\ at[t] = "unregister" /\ at' = [at EXCEPT ![t] = "destroy"] /\ UNCHANGED <<doing, held>>
      /\ context' = [context EXCEPT ![id] = cmsUnregisterPluginsTHR(@),
              ![Global].chunks = [c \in Clients |-> IF c \in missing THEN cmsUnregisterPlugins(@)[c]
                                                    ELSE @[c]]]
  BY DEF UnregisterToDelete, Go
<1>2. Works(t) /\ Filled(id) /\ id # Global /\ id \in DOMAIN context
  BY <1>1, AddressAssumption DEF IInv, CallInv, FillInv, Filling, Works, Unmaking
<1>3. missing = {}
  BY <1>2 DEF Filled
<1>4. context' = [context EXCEPT ![id] = now, ![Global].chunks = left]
  BY <1>1, <1>2
<1>5. \A c \in Clients : left[c] = context[Global].chunks[c]
  BY <1>3
<1>6. /\ context'[Global].chunks = left
      /\ \A y \in DOMAIN context \ {id, Global} : context'[y] = context[y]
  <2> HIDE DEF left, now
  <2>1. IsStruct(context[Global]) /\ Global \in DOMAIN context
    BY DEF IInv, TypeInv, IsStruct
  <2> QED  BY <1>2, <1>4, <2>1 DEF IsStruct, Fields
<1>7. \A y \in DOMAIN context \ {id} : SameChunks(y)
  BY <1>5, <1>6 DEF SameChunks
<1>8. Filling(t)'
  BY <1>1 DEF IInv, TypeInv, FillInv, Filling, Making, Unmaking
<1> QED  BY <1>1, <1>2, <1>7, <1>8, AsideMaps

LEMMA SearchMaps ==
    ASSUME IInv, FillInv, NEW t \in Threads, Search(t)
    PROVE  FillInv' /\ Mapped
<1>1. PICK place :
        /\ at[t] = "search" /\ at' = [at EXCEPT ![t] = "change"] /\ place = _cmsGetContext(doing[t].id)
        /\ doing' = [doing EXCEPT ![t].place = place] /\ UNCHANGED <<context, held>>
  BY DEF Search, Go
<1>2. PICK id : id = doing[t].id
  OBVIOUS
<1>3. id \in Ids /\ id # Global /\ id \in DOMAIN held
  BY <1>1, <1>2, AddressAssumption DEF IInv, TypeInv, CallInv, Mine
\* It is in the list, for the program has it.
<1>4. place = id
  BY <1>1, <1>2, <1>3 DEF IInv, ListInv, _cmsGetContext
<1>5. \A u \in Threads : /\ doing'[u].act = doing[u].act /\ doing'[u].id = doing[u].id
                         /\ doing'[u].bundle = doing[u].bundle
                         /\ u # t => doing'[u] = doing[u]
  BY <1>1 DEF IInv, TypeInv, CallFields
<1>6. doing'[t].place = place
  BY <1>1 DEF IInv, TypeInv, CallFields
<1>7. Filling(t) /\ (doing[t].act = "unregister" \/ doing[t].act = "plugin")
  BY <1>1 DEF FillInv, Filling
<1>8. Others(t) /\ Filling(t)'
  BY <1>1, <1>2, <1>4, <1>5, <1>6, <1>7 DEF IInv, TypeInv, Others, Filling, Making, Unmaking
<1>9. \A x \in DOMAIN context : SameChunks(x)
  BY <1>1 DEF SameChunks
<1>10. \A x \in DOMAIN held' : Filled(x)'
  BY <1>1 DEF FillInv, Filled
<1>11. FillInv'
  <2>1. id = doing[t].id /\ (Works(t) \/ at[t] \in {"search", "change"})
    BY <1>1, <1>2
  <2> QED  BY <1>3, <1>8, <1>9, <1>10, <2>1, FillStep
<1>12. \A x \in DOMAIN held \cup {Global} : Seen(x)' = Seen(x)
  BY <1>1 DEF Seen
<1> QED  BY <1>1, <1>5, <1>7, <1>11, <1>12, Stutters DEF Mapped
\* Steps that end a call.
LEMMA AnswerMaps ==
    ASSUME IInv, NEW t \in Threads, doing' = [doing EXCEPT ![t] = Idle], Outcome(doing[t]), FillInv'
    PROVE  FillInv' /\ Mapped
  BY Answers DEF Mapped, Store!Next

LEMMA AllocMaps ==
    ASSUME Scarce = FALSE, IInv, FillInv, NEW t \in Threads, AllocAllChunks(t)
    PROVE  FillInv' /\ Mapped
<1> DEFINE from == Original(doing[t])
           copied == Copied(doing[t])
           gone == \E c \in Clients : from[c] = NULL
<1>0. PICK id : id = doing[t].id
  OBVIOUS
<1>1. /\ at[t] = "chunks"
      /\ CASE doing[t].act = "create" -> Go(t, "plugin") /\ UNCHANGED <<doing, held>>
           [] gone -> Go(t, "unregister") /\ UNCHANGED <<doing, held>>
           [] OTHER -> Return(t) /\ held' = Added(held, id, t)
  BY <1>0 DEF AllocAllChunks
<1>20. PICK lost \in {{}}, grown \in SUBSET Range(copied) :
        context' = [context EXCEPT ![id].chunks = AllocatedBut(lost, id, from, @),
                                   ![id].MemPlugin = copied, ![id].MemPool = @ \cup grown]
  BY <1>0 DEF AllocAllChunks
<1>21. \A was : AllocatedBut({}, id, from, was) = AllocChunks(id, from)
  BY DEF AllocatedBut, AllocChunks
<1>2. Works(t) /\ id \in DOMAIN context /\ id # Global /\ id \notin DOMAIN held
  BY <1>0, <1>1, AddressAssumption DEF IInv, CallInv, Works, Making
<1>3. context' = [context EXCEPT ![id].chunks = AllocChunks(id, from), ![id].MemPlugin = copied,
                                 ![id].MemPool = @ \cup grown]
  BY <1>20, <1>21
<1>4. /\ \A y \in DOMAIN context \ {id} : SameChunks(y)
      /\ context'[id].chunks = AllocChunks(id, from)
  <2> HIDE DEF from, copied
  <2>1. IsStruct(context[id])
    BY <1>2 DEF IInv, TypeInv, IsStruct
  <2> QED  BY <1>2, <1>3, <2>1 DEF IsStruct, Fields, SameChunks
<1>5. doing[t].act = "create" \/ doing[t].act = "dup"
  BY <1>1 DEF FillInv, Filling, Making
<1>6. CASE doing[t].act = "create"
  <2>1. at' = [at EXCEPT ![t] = "plugin"] /\ UNCHANGED <<doing, held>>
    <3>1. (CASE doing[t].act = "create" -> Go(t, "plugin") /\ UNCHANGED <<doing, held>>
             [] gone -> Go(t, "unregister") /\ UNCHANGED <<doing, held>>
             [] OTHER -> Return(t) /\ held' = Added(held, id, t))
      BY <1>1
    <3>2. ~gone
      BY <1>6, ChunkIs DEF Initial, Original
    <3> HIDE DEF gone
    <3> QED  BY <1>6, <3>1, <3>2 DEF Go
  <2>2. \A c \in Clients : context'[id].chunks[c] = Chunk(MemoryClients[c].initial, {id})
    BY <1>4, <1>6, ChunkIs DEF AllocChunks, _cmsSubAllocDup, Initial, Original
  <2>3. Filling(t)'
    BY <1>0, <1>6, <2>1, <2>2 DEF IInv, TypeInv, Filling, Making, Unmaking
  <2> QED  BY <1>0, <1>2, <1>4, <2>1, <2>3, AsideMaps
<1>7. CASE doing[t].act = "dup"
  <2>1. PICK place : place = doing[t].place
    OBVIOUS
  <2>2. place \in DOMAIN held \cup {Global} /\ Filled(place)
    BY <1>1, <1>7, <2>1 DEF IInv, PoolInv, Copies, Making, Mine, FillInv
  <2>3. from = context[place].chunks
    BY <1>7, <2>1 DEF Original
  <2>4. ~ \E c \in Clients : from[c] = NULL
    BY <2>2, <2>3 DEF Filled
  <2>5. Return(t) /\ held' = Added(held, id, t)
    BY <1>1, <1>7, <2>4
  <2>6. at' = [at EXCEPT ![t] = "idle"] /\ doing' = [doing EXCEPT ![t] = Idle]
    BY <2>5 DEF Return, Go
  <2>7. DOMAIN held' = DOMAIN held \cup {id}
    BY <2>5 DEF Added
  <2>8. \A c \in Clients : context'[id].chunks[c] = Chunk(context[place].chunks[c][1].is, {id})
    BY <1>4, <2>2, <2>3 DEF AllocChunks, _cmsSubAllocDup, Filled
  <2>9. Filled(id)' /\ Seen(id)' = Seen(place)
    <3>1. Filled(id)'
      BY <2>8, ChunkIs DEF Filled
    <3>2. Seen(id)' = [c \in Clients |-> context'[id].chunks[c][1].is]
      BY <3>1 DEF Filled, Seen, NULL
    <3>3. Seen(place) = [c \in Clients |-> context[place].chunks[c][1].is]
      BY <2>2, SeenIs
    <3> QED  BY <2>8, <3>1, <3>2, <3>3, ChunkIs
  <2>10. Others(t) /\ Filling(t)'
    BY <2>6 DEF IInv, TypeInv, Others, Filling, Making, Unmaking
  <2>11. FillInv' /\ \A x \in ((DOMAIN held' \cap DOMAIN held) \cup {Global}) \ {id} : Seen(x)' = Seen(x)
    BY <1>0, <1>2, <1>4, <2>7, <2>9, <2>10, FillStep
  <2>12. Settings[place] = Seen(place)
    BY <2>2 DEF Settings
  <2>13. Gives(id, Settings[place])
    BY <1>2, <2>7, <2>9, <2>11, <2>12, GivesSeen
  <2>14. Outcome(doing[t])
    BY <1>0, <1>7, <2>1, <2>13 DEF Outcome
  <2> QED  BY <2>6, <2>11, <2>14, AnswerMaps
<1> QED  BY <1>5, <1>6, <1>7

\* What is put in place of the chunks that are in force.
LEMMA PutInPlace ==
    ASSUME IInv, NEW id \in DOMAIN context, Filled(id), NEW new
    PROVE  /\ \A c \in Clients : InForce(id)[c] = context[id].chunks[c]
           /\ InPlace(id, new)[id].chunks = [c \in Clients |-> new[c]]
           /\ \A y \in DOMAIN context \ {id} : \A c \in Clients :
                 InPlace(id, new)[y].chunks[c] = context[y].chunks[c]
<1>1. \A c \in Clients : Place(id, c) = id
  BY DEF Place, Filled
<1>2. \A y \in DOMAIN context : IsStruct(context[y])
  BY DEF IInv, TypeInv, IsStruct
<1>3. \A y \in DOMAIN context :
         InPlace(id, new)[y].chunks = [c \in Clients |-> IF Place(id, c) = y THEN new[c] ELSE context[y].chunks[c]]
  BY <1>2 DEF InPlace, IsStruct, Fields
<1>4. InPlace(id, new)[id].chunks = [c \in Clients |-> new[c]]
  BY <1>1, <1>3
<1>5. \A y \in DOMAIN context \ {id} : \A c \in Clients : InPlace(id, new)[y].chunks[c] = context[y].chunks[c]
  <2> TAKE y \in DOMAIN context \ {id}
  <2> TAKE c \in Clients
  <2>1. InPlace(id, new)[y].chunks = [k \in Clients |-> IF Place(id, k) = y THEN new[k] ELSE context[y].chunks[k]]
    BY <1>3
  <2> QED  BY <1>1, <2>1
<1>6. \A c \in Clients : InForce(id)[c] = context[id].chunks[c]
  BY <1>1 DEF InForce
<1> QED  BY <1>4, <1>5, <1>6

LEMMA SetupMaps ==
    ASSUME IInv, FillInv, NEW t \in Threads, SetupPlugins(t)
    PROVE  FillInv' /\ Mapped
<1>0. PICK id, bundle : id = doing[t].id /\ bundle = doing[t].bundle
  OBVIOUS
<1> DEFINE new == cmsPluginTHR(InForce(id), bundle, id)
<1>a. PICK grown \in SUBSET Growing(context[id], UpToBad(bundle)) :
      /\ at[t] = "plugin" /\ context' = Altered(id, bundle, "plugin", id, grown)
      /\ IF FirstBad(bundle) = 0 THEN Return(t) /\ held' = Added(held, id, t)
         ELSE Go(t, "unregister") /\ UNCHANGED <<doing, held>>
  BY <1>0 DEF SetupPlugins
<1>1. /\ at[t] = "plugin" /\ \A y \in DOMAIN context : context'[y].chunks = InPlace(id, new)[y].chunks
      /\ IF FirstBad(bundle) = 0 THEN Return(t) /\ held' = Added(held, id, t)
         ELSE Go(t, "unregister") /\ UNCHANGED <<doing, held>>
  <2>1. id \in DOMAIN context
    BY <1>0, <1>a DEF IInv, CallInv, Works, Making
  <2>2. Changed(InForce(id), bundle, "plugin", id) = new
    BY DEF Changed
  <2> QED  BY <1>a, <2>1, <2>2, AlteredMemory DEF IInv
<1>2. Works(t) /\ id \in DOMAIN context /\ id # Global /\ id \notin DOMAIN held
  BY <1>0, <1>1, AddressAssumption DEF IInv, CallInv, Works, Making
<1>3. /\ doing[t].act = "create"
      /\ \A c \in Clients : context[id].chunks[c] = Chunk(MemoryClients[c].initial, {id})
  BY <1>0, <1>1 DEF FillInv, Filling
<1>4. Filled(id)
  BY <1>3, ChunkIs DEF Filled
<1>5. /\ \A y \in DOMAIN context \ {id} : SameChunks(y)
      /\ context'[id].chunks = [c \in Clients |-> new[c]]
      /\ \A c \in Clients : InForce(id)[c] = context[id].chunks[c]
  BY <1>1, <1>2, <1>4, PutInPlace DEF SameChunks
<1>6. \A c \in Clients : new[c] # NULL /\ new[c][1].is = Brought(c, MemoryClients[c].initial, bundle)
  <2>1. \A c \in Clients : \E pools : new[c] = Chunk(Brought(c, InForce(id)[c][1].is, bundle), pools)
    BY DEF cmsPluginTHR
  <2>2. \A c \in Clients : InForce(id)[c][1].is = MemoryClients[c].initial
    BY <1>3, <1>5, ChunkIs
  <2> HIDE DEF new
  <2> QED  BY <2>1, <2>2, ChunkIs
<1> HIDE DEF new
<1>7. Filled(id)' /\ Seen(id)' = [c \in Clients |-> Brought(c, MemoryClients[c].initial, bundle)]
  <2>1. Filled(id)'
    BY <1>5, <1>6 DEF Filled
  <2>2. Seen(id)' = [c \in Clients |-> context'[id].chunks[c][1].is]
    BY <2>1 DEF Filled, Seen, NULL
  <2> QED  BY <1>5, <1>6, <2>1, <2>2
<1>8. CASE FirstBad(bundle) # 0
  <2>1. at' = [at EXCEPT ![t] = "unregister"] /\ UNCHANGED <<doing, held>>
    BY <1>1, <1>8 DEF Go
  <2>2. Filling(t)'
    BY <1>0, <1>3, <1>7, <1>8, <2>1 DEF IInv, TypeInv, Filling, Filled, Making, Unmaking
  <2> QED  BY <1>0, <1>2, <1>5, <2>1, <2>2, AsideMaps
<1>9. CASE FirstBad(bundle) = 0
  <2>1. at' = [at EXCEPT ![t] = "idle"] /\ doing' = [doing EXCEPT ![t] = Idle] /\ held' = Added(held, id, t)
    BY <1>1, <1>9 DEF Return, Go
  <2>2. DOMAIN held' = DOMAIN held \cup {id}
    BY <2>1 DEF Added
  <2>3. Others(t) /\ Filling(t)'
    BY <2>1 DEF IInv, TypeInv, Others, Filling, Making, Unmaking
  <2>4. FillInv' /\ \A x \in ((DOMAIN held' \cap DOMAIN held) \cup {Global}) \ {id} : Seen(x)' = Seen(x)
    BY <1>0, <1>2, <1>5, <1>7, <2>2, <2>3, FillStep
  <2>5. Gives(id, [c \in Clients |-> Brought(c, MemoryClients[c].initial, bundle)])
    BY <1>2, <1>7, <2>2, <2>4, GivesSeen
  <2>6. Outcome(doing[t])
    BY <1>0, <1>3, <1>9, <2>5 DEF Outcome
  <2> QED  BY <2>1, <2>4, <2>6, AnswerMaps
<1> QED  BY <1>8, <1>9
LEMMA FreeMaps ==
    ASSUME IInv, FillInv, NEW t \in Threads, FreeStruct(t)
    PROVE  FillInv' /\ Mapped
<1>0. PICK id : id = doing[t].id
  OBVIOUS
<1>1. /\ at[t] = "free" /\ at' = [at EXCEPT ![t] = "idle"] /\ doing' = [doing EXCEPT ![t] = Idle]
      /\ context' = [x \in DOMAIN context \ {id} |-> context[x]] /\ held' = held
  BY <1>0 DEF FreeStruct, Return, Go
<1>2. Works(t) /\ id # Global /\ id \notin DOMAIN held
  BY <1>0, <1>1, AddressAssumption DEF IInv, CallInv, Works, Unmaking
<1>3. \A y \in DOMAIN context \ {id} : SameChunks(y)
  BY <1>1 DEF SameChunks
<1>4. Others(t) /\ Filling(t)'
  BY <1>1 DEF IInv, TypeInv, Others, Filling, Making, Unmaking
<1>5. FillInv' /\ \A x \in ((DOMAIN held' \cap DOMAIN held) \cup {Global}) \ {id} : Seen(x)' = Seen(x)
  BY <1>0, <1>1, <1>2, <1>3, <1>4, FillStep
<1>6. Settings' = Settings
  BY <1>1, <1>2, <1>5 DEF Settings
<1>7. Outcome(doing[t])
  BY <1>1, <1>6 DEF FillInv, Filling, Unmaking, Outcome
<1> QED  BY <1>1, <1>5, <1>7, AnswerMaps

\* What registering and unregistering make of chunks that are there.
LEMMA ChangedIs ==
    ASSUME NEW chunks, \A c \in Clients : chunks[c] # NULL, NEW bundle, NEW act, NEW id
    PROVE  /\ \A c \in Clients : Changed(chunks, bundle, act, id)[c] # NULL
           /\ \A c \in Clients : Changed(chunks, bundle, act, id)[c][1].is =
                 IF act = "unregister" THEN Unregistered(c, chunks[c][1].is)
                                       ELSE Brought(c, chunks[c][1].is, bundle)
<1>1. CASE act = "unregister"
  <2>1. \A c \in Clients : Changed(chunks, bundle, act, id)[c] =
                             Chunk(Unregistered(c, chunks[c][1].is), chunks[c][1].in)
    BY <1>1 DEF Changed, cmsUnregisterPlugins
  <2> QED  BY <1>1, <2>1, ChunkIs
<1>2. CASE act # "unregister"
  <2>1. \A c \in Clients : \E pools : Changed(chunks, bundle, act, id)[c] =
                                        Chunk(Brought(c, chunks[c][1].is, bundle), pools)
    BY <1>2 DEF Changed, cmsPluginTHR
  <2> QED  BY <1>2, <2>1, ChunkIs
<1> QED  BY <1>1, <1>2

LEMMA ChangeMaps ==
    ASSUME IInv, FillInv, NEW t \in Threads, Change(t)
    PROVE  FillInv' /\ Mapped
<1>0. PICK id, bundle, act : id = doing[t].id /\ bundle = doing[t].bundle /\ act = doing[t].act
  OBVIOUS
<1> DEFINE changed == Changed(InForce(id), bundle, act, id)
<1>1. at[t] = "change" /\ doing[t].place = id /\ id \in DOMAIN held
      /\ \/ act = "unregister" /\ bundle = <<>>
         \/ act = "plugin" /\ bundle # <<>>
  BY <1>0 DEF Change, FillInv, Filling, IInv, CallInv, Mine
<1>2. id \in DOMAIN context /\ id # Global /\ Filled(id)
  BY <1>1, AddressAssumption DEF IInv, TypeInv, FillInv
<1>3. PICK grown \in SUBSET Growing(context[id], UpToBad(bundle)) :
        /\ context' = Altered(id, bundle, act, id, grown)
        /\ at' = [at EXCEPT ![t] = "idle"] /\ doing' = [doing EXCEPT ![t] = Idle] /\ held' = held
  BY <1>0, <1>1 DEF Change, Return, Go
<1>4. /\ \A c \in Clients : InForce(id)[c] = context[id].chunks[c]
      /\ InPlace(id, changed)[id].chunks = [c \in Clients |-> changed[c]]
      /\ \A y \in DOMAIN context \ {id} : \A c \in Clients :
            InPlace(id, changed)[y].chunks[c] = context[y].chunks[c]
  BY <1>2, PutInPlace
<1>5. /\ \A c \in Clients : changed[c] # NULL
      /\ \A c \in Clients : changed[c][1].is =
            IF act = "unregister" THEN Unregistered(c, context[id].chunks[c][1].is)
                                  ELSE Brought(c, context[id].chunks[c][1].is, bundle)
  <2>1. \A c \in Clients : InForce(id)[c] # NULL
    BY <1>2, <1>4 DEF Filled
  <2> QED  BY <1>4, <2>1, ChangedIs
<1>6. /\ context'[id].chunks = [c \in Clients |-> changed[c]]
      /\ \A y \in DOMAIN context \ {id} : SameChunks(y)
  <2>1. \A y \in DOMAIN context : context'[y].chunks = InPlace(id, changed)[y].chunks
    BY <1>2, <1>3, AlteredMemory DEF IInv
  <2> HIDE DEF changed
  <2> QED  BY <1>2, <1>4, <2>1 DEF SameChunks
<1> HIDE DEF changed
<1>7. Filled(id)' /\ Seen(id)' = [c \in Clients |-> changed[c][1].is]
  <2>1. Filled(id)'
    BY <1>5, <1>6 DEF Filled
  <2>2. Seen(id)' = [c \in Clients |-> context'[id].chunks[c][1].is]
    BY <2>1 DEF Filled, Seen, NULL
  <2> QED  BY <1>6, <2>1, <2>2
<1>8. Others(t) /\ Filling(t)'
  BY <1>3 DEF IInv, TypeInv, Others, Filling, Making, Unmaking
<1>9. FillInv' /\ \A x \in ((DOMAIN held' \cap DOMAIN held) \cup {Global}) \ {id} : Seen(x)' = Seen(x)
  <2>1. id = doing[t].id /\ (Works(t) \/ at[t] \in {"search", "change"})
    BY <1>0, <1>1
  <2>2. \A x \in DOMAIN held' : x \in DOMAIN held \ {id} \/ Filled(x)'
    BY <1>3, <1>7
  <2> QED  BY <1>2, <1>6, <1>8, <2>1, <2>2, FillStep
<1>10. Settings[id] = [c \in Clients |-> context[id].chunks[c][1].is]
  BY <1>1, <1>2, SeenIs DEF Settings
<1>11. DOMAIN held' = DOMAIN held \cup {id} /\ \A x \in (DOMAIN held \cup {Global}) \ {id} : Seen(x)' = Seen(x)
  BY <1>1, <1>3, <1>9
<1>12. Gives(id, [c \in Clients |-> changed[c][1].is])
  BY <1>2, <1>7, <1>11, GivesSeen
<1>13. act = "unregister" =>
          [c \in Clients |-> changed[c][1].is] = [c \in Clients |-> Unregistered(c, Settings[id][c])]
  BY <1>5, <1>10
<1>14. act # "unregister" =>
          [c \in Clients |-> changed[c][1].is] = [c \in Clients |-> Brought(c, Settings[id][c], bundle)]
  BY <1>5, <1>10
<1>15. Outcome(doing[t])
  BY <1>0, <1>1, <1>12, <1>13, <1>14 DEF Outcome
<1> QED  BY <1>3, <1>9, <1>15, AnswerMaps

LEMMA GlobalMaps ==
    ASSUME IInv, FillInv, NEW t \in Threads, ChangeGlobal(t)
    PROVE  FillInv' /\ Mapped
<1>1. PICK bundle \in Bundles : \E act \in Changes(bundle) :
        /\ Quiet /\ context' = Altered(Global, bundle, act, Global, {})
        /\ UNCHANGED <<list, at, doing, held, misfreed>>
  BY DEF ChangeGlobal
<1>2. PICK act \in Changes(bundle) :
        /\ Quiet /\ context' = Altered(Global, bundle, act, Global, {})
        /\ UNCHANGED <<list, at, doing, held, misfreed>>
  BY <1>1
<1> DEFINE chunks == context[Global].chunks
           changed == Changed(InForce(Global), bundle, act, Global)
<1>3. (act = "unregister" /\ bundle = <<>>) \/ (act # "unregister" /\ bundle # <<>>)
  BY <1>2 DEF Changes
<1>a. Global \in DOMAIN context /\ Filled(Global)
  BY DEF IInv, TypeInv, FillInv
<1>b. /\ \A c \in Clients : InForce(Global)[c] = chunks[c]
      /\ InPlace(Global, changed)[Global].chunks = [c \in Clients |-> changed[c]]
      /\ \A y \in DOMAIN context \ {Global} : \A c \in Clients :
            InPlace(Global, changed)[y].chunks[c] = context[y].chunks[c]
  BY <1>a, PutInPlace
<1>4. /\ \A c \in Clients : changed[c] # NULL
      /\ \A c \in Clients : changed[c][1].is =
            IF act = "unregister" THEN Unregistered(c, chunks[c][1].is)
                                  ELSE Brought(c, chunks[c][1].is, bundle)
  <2>1. \A c \in Clients : InForce(Global)[c] # NULL
    BY <1>a, <1>b DEF Filled
  <2> QED  BY <1>b, <2>1, ChangedIs
<1>5. /\ context'[Global].chunks = [c \in Clients |-> changed[c]]
      /\ \A y \in DOMAIN context \ {Global} : SameChunks(y)
  <2>1. \A y \in DOMAIN context : context'[y].chunks = InPlace(Global, changed)[y].chunks
    BY <1>2, <1>a, AlteredMemory DEF IInv
  <2> HIDE DEF changed
  <2> QED  BY <1>a, <1>b, <2>1 DEF SameChunks
<1> HIDE DEF changed
<1>6. \A u \in Threads : at[u] = "idle" /\ doing[u] = Idle
  BY <1>2 DEF Quiet, FillInv, Filling
<1>7. Filled(Global)' /\ Seen(Global)' = [c \in Clients |-> changed[c][1].is]
  <2>1. Filled(Global)'
    BY <1>4, <1>5 DEF Filled
  <2>2. Seen(Global)' = [c \in Clients |-> context'[Global].chunks[c][1].is]
    BY <2>1 DEF Filled, Seen, NULL
  <2> QED  BY <1>5, <2>1, <2>2
<1>8. ASSUME NEW x \in DOMAIN held PROVE Filled(x)' /\ Seen(x)' = Seen(x)
  <2>1. Filled(x) /\ SameChunks(x)
    BY <1>5, AddressAssumption DEF IInv, TypeInv, FillInv
  <2> QED  BY <2>1, SeenNext
<1>9. FillInv'
  BY <1>2, <1>6, <1>7, <1>8 DEF FillInv, Filling, Making, Unmaking
<1>10. Settings[Global] = [c \in Clients |-> chunks[c][1].is]
  BY SeenIs DEF Settings, FillInv
<1>11. Seen(Global)' = Store!Plugged(Settings[Global], bundle)
  <2>1. CASE bundle = <<>>
    BY <1>3, <1>4, <1>7, <1>10, <2>1 DEF Store!Plugged, Store!Unplugged
  <2>2. CASE bundle # <<>>
    BY <1>3, <1>4, <1>7, <1>10, <2>2 DEF Store!Plugged, Store!Taken
  <2> QED  BY <2>1, <2>2
<1>12. Settings' = [Settings EXCEPT ![Global] = Store!Plugged(Settings[Global], bundle)]
  <2> DEFINE new == Store!Plugged(Settings[Global], bundle)
  <2>1. Settings' = [x \in DOMAIN held \cup {Global} |-> Seen(x)']
    BY <1>2 DEF Settings
  <2>2. \A x \in DOMAIN held \cup {Global} : Seen(x)' = IF x = Global THEN new ELSE Settings[x]
    <3>1. \A x \in DOMAIN held : x # Global /\ Settings[x] = Seen(x)
      BY AddressAssumption DEF IInv, TypeInv, Settings
    <3> HIDE DEF new
    <3>2. Seen(Global)' = new
      BY <1>11 DEF new
    <3> QED  BY <1>8, <3>1, <3>2
  <2>3. DOMAIN Settings = DOMAIN held \cup {Global} /\ Settings = [x \in DOMAIN Settings |-> Settings[x]]
    BY DEF Settings
  <2> HIDE DEF new
  <2>4. Settings' = [Settings EXCEPT ![Global] = new]
    BY <2>1, <2>2, <2>3
  <2> QED  BY <2>4 DEF new
<1>13. \A u \in Threads : Requested[u] = Store!Idle
  BY <1>6, IdleRequest
<1>14. Requested' = Requested
  BY <1>2 DEF Requested
<1>15. Store!ChangeGlobal
  BY <1>12, <1>13, <1>14, Zenon DEF Store!ChangeGlobal, Store!Global, Global
<1> QED  BY <1>9, <1>15 DEF Mapped, Store!Next

LEMMA StepMaps ==
    ASSUME Scarce = FALSE, IInv, FillInv, [Next]_vars
    PROVE  FillInv' /\ Mapped
<1>1. CASE UNCHANGED vars
  BY <1>1 DEF vars, list, FillInv, Filled, Filling, Mapped, Settings, Requested, Seen
<1>2. ASSUME NEW t \in Threads, Proceed(t) PROVE FillInv' /\ Mapped
  BY <1>2, LinkMaps, PoolMaps, AllocMaps, SetupMaps, UnregisterMaps, DestroyMaps,
     FreeMaps, SearchMaps, ChangeMaps DEF Proceed
<1> QED  BY <1>1, <1>2, CreateMaps, DupMaps, DeleteMaps, ChangeOfMaps, GlobalMaps DEF Next

\* While there is memory, the calls of any number of threads on contexts (cmsplugin.c), step by
\* step through the shared list and the chunks, are to the program calls on separate sets of
\* settings, each of which takes effect at one moment.
THEOREM ImplementsSettings == ASSUME Scarce = FALSE PROVE Spec => Implements
<1>1. Init => FillInv /\ Store!Init
  BY InitFill
<1>2. IInv /\ FillInv /\ [Next]_vars => FillInv' /\ Mapped
  BY StepMaps
<1>3. Mapped => [Store!Next]_<<Settings, Requested>>
  BY DEF Mapped
<1> QED  BY <1>1, <1>2, <1>3, Invariance, PTL DEF Spec, Implements, Store!Spec
=============================================================================
