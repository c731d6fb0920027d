---------------------------- MODULE MCNvStorage ----------------------------
(***************************************************************************)
(* Instances of NvStorage.  The templates of a run are the kinds of index  *)
(* its question is about.                                                  *)
(***************************************************************************)
EXTENDS NvStorage

CONSTANTS n1, n2, o1, o2

Template(type, attrs, size) == [type |-> type, attrs |-> attrs, size |-> size]
Owner == {"OWNERREAD", "OWNERWRITE"}
Platform == {"PPREAD", "PPWRITE", "PLATFORMCREATE"}

\* Counters: the owner's, the platform's orderly ones, and one that
\* NV_DefineSpace refuses.
CounterTemplates ==
    {Template("counter", Owner, 1),
     Template("counter", Platform \cup {"ORDERLY"}, 1),
     Template("counter", Owner \cup {"CLEAR_STCLEAR"}, 1)}

\* Every other kind of data, in NV and in RAM.
ContentTemplates ==
    {Template("ordinary", Owner \cup {"CLEAR_STCLEAR", "GLOBALLOCK"}, 2),
     Template("ordinary", Owner \cup {"WRITEDEFINE", "READ_STCLEAR"}, 1),
     Template("ordinary", Owner \cup {"ORDERLY", "GLOBALLOCK", "READ_STCLEAR"}, 1),
     Template("bits", {"AUTHREAD", "POLICYWRITE", "ORDERLY", "WRITEDEFINE"}, 1),
     Template("extend", Platform \cup {"POLICY_DELETE", "WRITE_STCLEAR"}, 1),
     Template("pinfail", Owner \cup {"NO_DA", "WRITEALL", "ORDERLY"}, 2),
     Template("pinpass", Owner \cup {"NO_DA", "WRITEALL", "CLEAR_STCLEAR"}, 2)}

AllTemplates == CounterTemplates \cup ContentTemplates

\* What takes up space, in the list and in RAM.
SpaceTemplates ==
    {Template("ordinary", Owner, 1), Template("ordinary", Owner, 2),
     Template("ordinary", Owner \cup {"ORDERLY"}, 1),
     Template("counter", Owner, 2), Template("counter", Owner \cup {"ORDERLY"}, 2)}

\* An orderly counter of the owner's.
OwnerOrderlyCounter == {Template("counter", Owner \cup {"ORDERLY"}, 1)}

\* Two indexes at a time only when both are counters, which share the end
\* marker; any other index by itself, before a counter was deleted.  A persistent
\* object while there is no index.
Unmixed ==
    /\ \/ \A h \in DOMAIN index : IsCounter(h)
       \/ Cardinality(DOMAIN index) = 1 /\ endMark = 0
    /\ objects = <<>> \/ index = <<>>
=============================================================================
