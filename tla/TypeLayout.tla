----------------------------- MODULE TypeLayout -----------------------------
(***************************************************************************)
(* The layout in memory of the declared types, from which the dimensions   *)
(* of arrays follow that are given as the size of a type.                  *)
(***************************************************************************)
EXTENDS Integers, Sequences, FiniteSets, SequenceFold, TpmTypes

\* A name may stand for another.
RECURSIVE Declaration(_, _)
Declaration(types, t) ==
    IF types[t].kind = "alias" THEN Declaration(types, types[t].base) ELSE types[t]

MembersOf(d) ==
    IF d.kind = "struct" THEN {d.members[i] : i \in DOMAIN d.members} ELSE d.members

RoundUp(n, a) == ((n + a - 1) \div a) * a

\* The types whose size is the dimension of an array, or divides that of the buffer.
Measured(declaration) ==
    UNION {{m.dim.of : m \in MembersOf(declaration[t])} \ {""} :
             t \in {u \in DOMAIN declaration : declaration[u].kind \in {"struct", "union"}}}

\* sizeof each of them, from the <<sizeof, alignof>> of the types in them.
Sizes(declaration) ==
    LET layout[t \in DOMAIN declaration] ==
            LET d == declaration[t]
                extent(dim) ==
                    IF dim.cap THEN (MAX_CAP_BUFFER - 8) \div layout[dim.of][1]
                    ELSE IF dim.of # "" THEN layout[dim.of][1] ELSE dim.n
                size(m) == (IF m.array THEN extent(m.dim) ELSE 1) * layout[m.type][1]
                align(m) == layout[m.type][2]
                after(l, m) == <<RoundUp(l[1], align(m)) + size(m), Largest({l[2], align(m)})>>
                overlaid(ms) == <<Largest({size(m) : m \in ms}), Largest({align(m) : m \in ms})>>
                padded(l) == <<RoundUp(l[1], l[2]), l[2]>>
            IN  CASE d.kind = "plain" -> <<d.bytes, d.bytes>>
                  [] d.kind = "bits" -> layout[d.base]
                  [] d.kind = "struct" -> padded(Fold(after, <<0, 1>>, d.members))
                  [] d.kind = "union" -> padded(overlaid(d.members))
    IN  [t \in Measured(declaration) |-> layout[t][1]] @@ <<>>
=============================================================================
