----------------------------- MODULE MCContexts -----------------------------
(***************************************************************************)
(* Two threads with two contexts: one client of each kind, plug-ins for    *)
(* the list, one of them refused, and a plug-in for the memory.            *)
(***************************************************************************)
EXTENDS Contexts

MCClients == {"CurvesPlugin", "MutexPlugin", "AlarmCodesContext"}
Plugin(client, name, good) == [client |-> client, name |-> name, good |-> good]
MCBundles ==
    {<<>>, <<Plugin("CurvesPlugin", "a", TRUE), Plugin("AlarmCodesContext", "red", TRUE)>>,
     <<Plugin("MemPlugin", "plugged", TRUE), Plugin("MutexPlugin", "m", TRUE)>>,
     <<Plugin("MutexPlugin", "m", TRUE), Plugin("CurvesPlugin", "c", FALSE)>>}
\* One thread has time to make, copy, change and delete, the other to make one.
CONSTANTS t1, t2
MCCallBound == (t1 :> 3) @@ (t2 :> 1)
=============================================================================
