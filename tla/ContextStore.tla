---------------------------- MODULE ContextStore ----------------------------
(***************************************************************************)
(* What contexts promise: each is a set of chunks of its own, made from    *)
(* the initial ones or from those of another, and changed only by the call *)
(* that names it, at once, between the call and its return.                *)
(***************************************************************************)
CONSTANTS
    Ids,                    \* handles of contexts
    Clients,                \* the clients whose chunks are looked at
    Bundles,                \* sequences of plug-ins, the empty one to unregister them
    Threads,
    MemoryClients,          \* what each client has at first
    FirstBad(_),            \* the plug-in of a bundle that is refused, or 0
    Brought(_, _, _),       \* what a bundle makes of the chunk of a client
    Unregistered(_, _)      \* and what is left of it without plug-ins

Global == "global"
Nowhere == "NULL"

VARIABLES
    settings,   \* the chunks of each context there is
    request     \* what each thread has asked for

Idle == [act |-> "none", id |-> Nowhere, from |-> Nowhere, bundle |-> <<>>]
Requests ==
    [act : {"create", "plugin", "unregister"}, id : Ids, from : {Nowhere}, bundle : Bundles \cup {<<>>}]
    \cup [act : {"dup"}, id : Ids, from : Ids \cup {Global}, bundle : {<<>>}]
    \cup [act : {"delete"}, id : Ids, from : {Nowhere}, bundle : {<<>>}]

Pristine == [c \in Clients |-> MemoryClients[c].initial]
Taken(chunks, bundle) == [c \in Clients |-> Brought(c, chunks[c], bundle)]
Unplugged(chunks) == [c \in Clients |-> Unregistered(c, chunks[c])]
Plugged(chunks, bundle) == IF bundle = <<>> THEN Unplugged(chunks) ELSE Taken(chunks, bundle)

Init == settings = [x \in {Global} |-> Pristine] /\ request = [t \in Threads |-> Idle]

\* A context that is to be deleted is no more for the program to see.
Ask(t) ==
    \E r \in Requests :
        /\ request[t] = Idle
        /\ request' = [request EXCEPT ![t] = r]
        /\ settings' = IF r.act = "delete" THEN [x \in DOMAIN settings \ {r.id} |-> settings[x]]
                       ELSE settings
Answer(t) ==
    LET r == request[t]
        becomes(chunks) ==
            settings' = [x \in DOMAIN settings \cup {r.id} |-> IF x = r.id THEN chunks ELSE settings[x]]
    IN  /\ r # Idle
        /\ request' = [request EXCEPT ![t] = Idle]
        /\ CASE r.act = "create" /\ FirstBad(r.bundle) = 0 -> becomes(Taken(Pristine, r.bundle))
             [] r.act = "dup" -> becomes(settings[r.from])
             [] r.act \in {"plugin", "unregister"} -> becomes(Plugged(settings[r.id], r.bundle))
             [] OTHER -> UNCHANGED settings
\* The global context is changed while nothing else is asked for.
ChangeGlobal ==
    \E bundle \in Bundles :
        /\ \A t \in Threads : request[t] = Idle
        /\ settings' = [settings EXCEPT ![Global] = Plugged(@, bundle)]
        /\ UNCHANGED request

Next == (\E t \in Threads : Ask(t) \/ Answer(t)) \/ ChangeGlobal
Spec == Init /\ [][Next]_<<settings, request>>
=============================================================================
