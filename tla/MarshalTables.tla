---------------------------- MODULE MarshalTables ----------------------------
(***************************************************************************)
(* What the build has for each type: its declaration, its size if that is  *)
(* the dimension of an array, and its functions.                           *)
(***************************************************************************)
EXTENDS TypeLayout, MarshalFunctions, MarshalPrototypes

\* The form of ..._Unmarshal or ..._Marshal of a type, which may be a macro for the
\* function of another type.
RECURSIVE FunctionOf(_, _, _, _)
FunctionOf(prototypes, functions, side, t) ==
    LET d == prototypes[t][side]
    IN  IF d.as # "" THEN FunctionOf(prototypes, functions, side, d.as)
        ELSE IF d.takes = "undeclared" \/ t \notin DOMAIN functions THEN Absent
        ELSE functions[t][side]

FunctionTable(prototypes, functions, side) ==
    [t \in DOMAIN prototypes |-> FunctionOf(prototypes, functions, side, t)] @@ <<>>

Assemble(declaration, prototypes) ==
    [declaration |-> declaration,
     size |-> Sizes(declaration),
     unmarshal |-> FunctionTable(prototypes, TypeFunctions, "unmarshal"),
     marshal |-> FunctionTable(prototypes, TypeFunctions, "marshal"),
     flagged |-> {t \in DOMAIN prototypes : prototypes[t].unmarshal.takes = "flag"}]

Build == Assemble([t \in DOMAIN Types |-> Declaration(Types, t)] @@ <<>>, Declarations)

Unmarshalled(b, t) == b.unmarshal[t].kind # "absent"
Marshalled(b, t) == b.marshal[t].kind # "absent"
FormOf(b, t) == IF Unmarshalled(b, t) THEN b.unmarshal[t] ELSE b.marshal[t]

MemberOf(b, t, f) == CHOOSE m \in MembersOf(b.declaration[t]) : m.field = f

\* The number that a dimension stands for.
Extent(b, dim) ==
    IF dim.cap THEN (MAX_CAP_BUFFER - 8) \div b.size[dim.of]
    ELSE IF dim.of # "" THEN b.size[dim.of] ELSE dim.n

\* The types that a command or a response can hold by themselves.
Kinds(b) ==
    {t \in DOMAIN b.unmarshal :
        /\ Unmarshalled(b, t) \/ Marshalled(b, t)
        /\ FormOf(b, t).kind \notin {"union", "array", "bytes"}}
=============================================================================
