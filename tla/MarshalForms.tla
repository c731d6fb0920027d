---------------------------- MODULE MarshalForms ----------------------------
(***************************************************************************)
(* The forms of the functions of Marshal.c.  A function reads or writes a  *)
(* base type, passes on to the function of another type, takes one of      *)
(* several values, has its members handled in turn with checks between     *)
(* them, selects a member by a selector, or repeats a function over an     *)
(* array.                                                                  *)
(***************************************************************************)
EXTENDS Naturals, Sequences, TpmTypes

Base(bytes) == [kind |-> "base", bytes |-> bytes]
As(type) == [kind |-> "as", type |-> type]
Empty == [kind |-> "empty"]
ByteArray == [kind |-> "bytes"]
ArrayOf(type) == [kind |-> "array", type |-> type, flagged |-> FALSE]
FlaggedArrayOf(type) == [kind |-> "array", type |-> type, flagged |-> TRUE]

\* What a type has: a function to unmarshal it and one to marshal it.
Both(unmarshal, marshal) == [unmarshal |-> unmarshal, marshal |-> marshal]
Same(form) == Both(form, form)

\* A function that only some builds have.
Absent == [kind |-> "absent"]
WhenBuilt(alg, function) ==
    IF alg \in Algorithms THEN function ELSE Absent

\* A value of a base type that is one of the values, or in one of the ranges, or the
\* null value if the caller's flag allows it.
Scalar(base, values, ranges, null, rc) ==
    [kind |-> "scalar", base |-> base, values |-> values, ranges |-> ranges,
     null |-> null, rc |-> rc]
Values(base, values, rc) == Scalar(base, values, {}, {}, rc)
ValuesOrNull(base, values, null, rc) == Scalar(base, values, {}, {null}, rc)
Spans(names) == {<<FirstHandle[n], LastHandle[n]>> : n \in names}
Reserved(base, bits) == [kind |-> "reserved", base |-> base, bits |-> bits]
Algs(names) == {ALG[a] : a \in names \cap Algorithms}

\* The steps of a structure: a member; a member with the flag YES, or the flag of the
\* caller; a union that another member selects; the elements of an array that another
\* member counts; and the checks of a member.
Step(op, field, type) ==
    [op |-> op, field |-> field, type |-> type, flag |-> "NO", by |-> "",
     dim |-> N(0), values |-> {}, rc |-> ""]
M(field, type) == Step("member", field, type)
OrNull(field, type) == [M(field, type) EXCEPT !.flag = "YES"]
AsFlagged(field, type) == [M(field, type) EXCEPT !.flag = "flag"]
By(field, type, selector) == [M(field, type) EXCEPT !.by = selector]
Each(field, type, count) == [Step("each", field, type) EXCEPT !.by = count]
Limit(field, dim, rc) == [Step("limit", field, "") EXCEPT !.dim = dim, !.rc = rc]
AtLeast(field, dim, rc) == [Step("atleast", field, "") EXCEPT !.dim = dim, !.rc = rc]
OneOf(field, values, rc) ==
    [Step("oneof", field, "") EXCEPT !.values = values, !.rc = rc]
StopIfZero(field) == Step("stop", field, "")
Members(steps) == [kind |-> "struct", steps |-> steps]
Sized(dim, field) ==
    Members(<<M("size", "UINT16"), Limit("size", dim, "SIZE"),
              Each(field, "BYTE_Array", "size")>>)
SizedOut(field) ==
    Members(<<M("size", "UINT16"), StopIfZero("size"), Each(field, "BYTE_Array", "size")>>)
Counted(dim, field, type) ==
    Members(<<M("count", "UINT32"), Limit("count", dim, "SIZE"),
              Each(field, type, "count")>>)
CountedOut(field, type) == Members(<<M("count", "UINT32"), Each(field, type, "count")>>)

\* A structure with its size before it.
Within(field, type, zeroRc, flag) ==
    [kind |-> "within", field |-> field, type |-> type, zeroRc |-> zeroRc, flag |-> flag]

\* The members of a union and the selectors for which they are handled.
On(selectors, step) == [selectors |-> selectors, step |-> step]
OnAlg(alg, step) == On(Algs({alg}), step)
Bytes(field, dim) == [Step("bytes", field, "BYTE_Array") EXCEPT !.dim = dim]
None == Step("none", "", "")
Select(cases) == [kind |-> "union", cases |-> cases]
=============================================================================
