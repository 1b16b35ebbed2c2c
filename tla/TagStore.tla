------------------------------ MODULE TagStore ------------------------------
(***************************************************************************)
(* What a profile promises a client that keeps to the documented uses of   *)
(* cmsio0.c: a dictionary from tag signatures to payloads, in which a tag  *)
(* may be a link to another one, and which saving, closing and opening     *)
(* again preserves.                                                        *)
(***************************************************************************)
CONSTANTS Sigs, NoSig, Payloads, Null,
          Readable      \* [Sigs -> SUBSET Payloads]: what cmsReadTag can parse

VARIABLES entry, answer

Absent    == [kind |-> "absent", val |-> Null, to |-> NoSig]
Data(v)   == [kind |-> "data", val |-> v, to |-> NoSig]
LinkTo(s) == [kind |-> "link", val |-> Null, to |-> s]

\* The tags met by following links from s: the fewest that s is one of, and
\* that are linked to no other.
Closed(e, T) == \A t \in T : e[t].kind = "link" => e[t].to \in T
Path(e, s) == {t \in Sigs : \A T \in SUBSET Sigs : s \in T /\ Closed(e, T) => t \in T}

\* The one of them that is not a link, and its entry.
Last(e, s) == CHOOSE t \in Path(e, s) : e[t].kind # "link"
End(e, s) == e[Last(e, s)]

What(e, s) == End(e, s).val

\* A call is recognised by its operation and tag before its answer is looked at.
Called(op, s) == answer'.op = op /\ answer'.sig = s

Answer(op, s, v) == Called(op, s) /\ answer' = [op |-> op, sig |-> s, val |-> v]

\* A tag whose contents nobody knows, such as a link opened after its target
\* was deleted, may turn out to have some.
Read(s) ==
    /\ Called("ReadTag", s)
    /\ \/ /\ Answer("ReadTag", s, IF What(entry, s) \in Readable[s] THEN What(entry, s) ELSE Null)
          /\ UNCHANGED entry
       \/ /\ End(entry, s) = Data(Null)
          /\ \E v \in Readable[s] : /\ Answer("ReadTag", s, v)
                                   /\ entry' = [entry EXCEPT ![Last(entry, s)] = Data(v)]

ReadRaw(s) ==
    /\ Called("ReadRawTag", s)
    /\ Answer("ReadRawTag", s, What(entry, s)) \/ End(entry, s) = Data(Null)
    /\ UNCHANGED entry

\* The table may be full: then nothing changes.
Put(s, v) ==
    /\ \E op \in {"WriteTag", "WriteRawTag"} : Answer(op, s, v)
    /\ \/ entry' = [entry EXCEPT ![s] = Data(v)]
       \/ entry[s] = Absent /\ UNCHANGED entry

\* The client makes no cycle of links.
Link(s, t) ==
    /\ Answer("LinkTag", s, t)
    /\ s \notin Path(entry, t)
    /\ \/ entry' = [entry EXCEPT ![s] = LinkTo(t)]
       \/ entry[s] = Absent /\ UNCHANGED entry

Remove(s) ==
    /\ Answer("DeleteTag", s, Null)
    /\ entry' = [entry EXCEPT ![s] = Absent]

Save == Answer("Save", NoSig, Null) /\ UNCHANGED entry

\* Tags with data, and links straight to them, keep their contents; what was
\* there with no contents, or behind a chain of links, may or may not be kept.
Direct(s) ==
    \/ entry[s].kind = "data"
    \/ entry[s].kind = "link" /\ entry[entry[s].to].kind = "data"

Reopen(after) ==
    /\ Answer("Reopen", NoSig, Null)
    /\ entry' = after
    /\ \A s \in Sigs :
         /\ entry[s] = Absent => after[s] = Absent
         /\ Direct(s) /\ What(entry, s) # Null => What(after, s) = What(entry, s)

Init == entry = [s \in Sigs |-> Absent] /\ answer = [op |-> "none", sig |-> NoSig, val |-> Null]

Next ==
    \/ \E s \in Sigs : \/ Read(s) \/ ReadRaw(s) \/ Remove(s)
                       \/ \E v \in Payloads : Put(s, v)
                       \/ \E t \in Sigs : Link(s, t)
    \/ Save
    \/ Reopen(entry')

Spec == Init /\ [][Next]_<<entry, answer>>
=============================================================================
