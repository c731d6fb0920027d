----------------------------- MODULE Marshalling -----------------------------
(***************************************************************************)
(* What the functions of Marshal.c do.  MarshalTables gives the form of    *)
(* each function; this module runs the forms: a value of a type is         *)
(* marshalled, the bytes are delivered as they are, cut short or with one  *)
(* byte changed, and are unmarshalled.                                     *)
(*                                                                         *)
(* A number of four bytes is a two's complement number and one of eight    *)
(* bytes a pair of them.  Bytes are a sequence of runs <<n, b>>, n times   *)
(* the byte b, no two neighbours with the same b.  A structure is a        *)
(* function of its members, a union holds at most one member.              *)
(***************************************************************************)
EXTENDS Integers, Sequences, SequencesExt, MarshalTables

CONSTANTS
    Seeds,        \* the values of each: a seed picks among the values of each member
    MaxElements,  \* of an array, other than of bytes
    MaxDamaged    \* how many runs of a message can be changed or cut

VARIABLES
    stage,      \* "idle", "marshalled", "response" (nothing unmarshals it), "delivered",
                \* "unmarshalled"
    subject,    \* the type
    nullable,   \* whether its null value is allowed
    given,      \* the value that is marshalled
    buffer,     \* the bytes in the buffer
    delivery,   \* "intact", "cut", "damaged"
    result      \* of the unmarshalling

vars == <<stage, subject, nullable, given, buffer, delivery, result>>

-----------------------------------------------------------------------------
(* Bytes.                                                                  *)

Length(w) == Fold(LAMBDA n, run : n + run[1], 0, w)

Join(v, w) ==
    IF v = <<>> \/ w = <<>> THEN v \o w
    ELSE IF v[Len(v)][2] = w[1][2]
    THEN Front(v) \o <<<<v[Len(v)][1] + w[1][1], w[1][2]>>>> \o Tail(w)
    ELSE v \o w

RECURSIVE Take(_, _)
Take(w, n) ==
    IF n <= 0 THEN <<>>
    ELSE IF w[1][1] >= n THEN <<<<n, w[1][2]>>>>
    ELSE <<w[1]>> \o Take(Tail(w), n - w[1][1])

RECURSIVE Drop(_, _)
Drop(w, n) ==
    IF n <= 0 THEN w
    ELSE IF w[1][1] > n THEN <<<<w[1][1] - n, w[1][2]>>>> \o Tail(w)
    ELSE Drop(Tail(w), n - w[1][1])

RECURSIVE ByteAt(_, _)
ByteAt(w, i) == IF i <= w[1][1] THEN w[1][2] ELSE ByteAt(Tail(w), i - w[1][1])

\* UINT16_TO_BYTE_ARRAY and its like, and their inverses: the most significant byte
\* comes first.
BytesOf(v, n) ==
    LET one(b) == <<<<1, b % 256>>>>
        two(u) == Join(one(u \div 256), one(u))
        four(u) == Join(two(u \div 65536), two(u))
    IN  CASE n = 1 -> one(v)
          [] n = 2 -> two(v)
          [] n = 4 -> four(v)
          [] n = 8 -> Join(four(v[1]), four(v[2]))

NumberOf(w, n) ==
    LET two(i) == ByteAt(w, i) * 256 + ByteAt(w, i + 1)
        four(i) == (IF two(i) < 32768 THEN two(i) ELSE two(i) - 65536) * 65536 + two(i + 2)
    IN  CASE n = 1 -> ByteAt(w, 1)
          [] n = 2 -> two(1)
          [] n = 4 -> four(1)
          [] n = 8 -> <<four(1), four(5)>>

Bit(v, i) == IF i = 31 THEN v < 0 ELSE (v \div 2^i) % 2 = 1
BitValue(i) == IF i = 31 THEN -2147483647 - 1 ELSE 2^i

-----------------------------------------------------------------------------
(* The bytes of a declared type.                                           *)

\* TPMS_EMPTY is declared as a byte, which is not sent.
IsEmpty(t) == t \in {"TPMS_EMPTY", "TPMS_ENC_SCHEME_RSAES"}
IsBytes(m) == m.array /\ m.type = "BYTE"

\* The bytes of a value: those of its members, in the order of their declaration.
RECURSIVE Encode(_, _, _)
Encode(b, t, v) ==
    LET d == b.declaration[t]
        append(w, m) ==
            Join(w, IF IsBytes(m) THEN v[m.field]
                    ELSE IF ~m.array THEN Encode(b, m.type, v[m.field])
                    ELSE Fold(LAMBDA x, e : Join(x, Encode(b, m.type, e)), <<>>, v[m.field]))
    IN  CASE IsEmpty(t) -> <<>>
          [] d.kind = "plain" /\ ~IsEmpty(t) -> BytesOf(v, d.bytes)
          [] d.kind = "bits" -> Encode(b, d.base, v)
          [] d.kind = "struct" -> Fold(append, <<>>, d.members)
          [] d.kind = "union" ->
                IF v = <<>> THEN <<>> ELSE append(<<>>, MemberOf(b, t, CHOOSE f \in DOMAIN v : TRUE))

-----------------------------------------------------------------------------
(* Unmarshalling.                                                          *)

\* What an unmarshalling leaves: the response code, the value, the bytes after it and
\* whether something was written beyond the end of an array.
Success(v, rest) == [rc |-> "SUCCESS", value |-> v, rest |-> rest, over |-> FALSE]
Failure(rc) == [rc |-> rc, value |-> <<>>, rest |-> <<>>, over |-> FALSE]

\* Compared as unsigned numbers.
Exceeds(v, n) == v < 0 \/ v > n

BYTE_Array(bytes, count) ==
    IF Length(bytes) < count THEN Failure("INSUFFICIENT")
    ELSE Success(Take(bytes, count), Drop(bytes, count))

UINT(bytes, n) ==
    IF Length(bytes) < n THEN Failure("INSUFFICIENT")
    ELSE Success(NumberOf(bytes, n), Drop(bytes, n))

\* A read through a pointer to a signed byte.
Typed(base, v) == IF base = "INT8" /\ v > 127 THEN v - 256 ELSE v

Accepts(form, v, allowed) ==
    \/ v \in form.values
    \/ \E r \in form.ranges : r[1] <= v /\ v <= r[2]
    \/ allowed /\ v \in form.null

FlagFor(s, allowed) == s.flag = "YES" \/ (s.flag = "flag" /\ allowed)

WithinUnsized(read, inner) ==
    IF inner.rc # "SUCCESS" THEN inner.rc ELSE "SUCCESS"

\* The structure must have taken as many bytes as the size before it says.
WithinSize(read, inner) ==
    IF inner.rc # "SUCCESS" THEN inner.rc
    ELSE IF read.value # Length(read.rest) - Length(inner.rest) THEN "SIZE" ELSE "SUCCESS"

RECURSIVE Unmarshal(_, _, _, _, _, _)
Unmarshal(b, t, bytes, allowed, selector, count) ==
    LET form == b.unmarshal[t]
        fits(f, n) == LET m == MemberOf(b, t, f) IN ~Exceeds(n, Extent(b, m.dim))
        check(s, acc) ==
            LET v == acc.value[s.field]
            IN  CASE s.op = "limit" -> Exceeds(v, Extent(b, s.dim))
                  [] s.op = "atleast" -> ~Exceeds(v, Extent(b, s.dim) - 1)
                  [] s.op = "oneof" -> v \notin s.values
        put(acc, s, r, fitting) ==
            [r EXCEPT !.value = acc.value @@ (s.field :> r.value),
                      !.over = @ \/ acc.over \/ ~fitting]
        step(acc, s) ==
            IF acc.rc # "SUCCESS" THEN acc
            ELSE IF s.op = "member"
            THEN put(acc, s,
                     Unmarshal(b, s.type, acc.rest,
                               FlagFor(s, allowed),
                               IF s.by = "" THEN 0 ELSE acc.value[s.by], 0),
                     TRUE)
            ELSE IF s.op = "each"
            THEN put(acc, s, Unmarshal(b, s.type, acc.rest, FALSE, 0, acc.value[s.by]),
                     fits(s.field, acc.value[s.by]))
            ELSE IF check(s, acc) THEN [acc EXCEPT !.rc = s.rc] ELSE acc
        element(acc, i) ==
            IF acc.rc # "SUCCESS" THEN acc
            ELSE LET r == Unmarshal(b, form.type, acc.rest, form.flagged /\ allowed, 0, 0)
                 IN  [r EXCEPT !.value = Append(acc.value, r.value), !.over = @ \/ acc.over]
    IN  CASE form.kind = "base" -> UINT(bytes, form.bytes)
          [] form.kind = "empty" -> Success(<<>>, bytes)
          [] form.kind = "bytes" -> BYTE_Array(bytes, count)
          [] form.kind = "array" ->
                Fold(element, Success(<<>>, bytes), [i \in 1..count |-> i])
          [] form.kind = "scalar" ->
                LET r == Unmarshal(b, form.base, bytes, FALSE, 0, 0)
                    v == Typed(form.base, r.value)
                IN  IF r.rc # "SUCCESS" THEN r
                    ELSE IF Accepts(form, v, allowed) THEN [r EXCEPT !.value = v]
                    ELSE Failure(form.rc)
          [] form.kind = "reserved" ->
                LET r == Unmarshal(b, form.base, bytes, FALSE, 0, 0)
                IN  IF r.rc = "SUCCESS" /\ (\E i \in form.bits : Bit(r.value, i))
                    THEN Failure("RESERVED_BITS") ELSE r
          [] form.kind = "struct" -> Fold(step, Success(<<>>, bytes), form.steps)
          [] form.kind = "within" ->
                LET read == Unmarshal(b, "UINT16", bytes, FALSE, 0, 0)
                    inner == Unmarshal(b, form.type, read.rest, form.flag = "flag" /\ allowed, 0, 0)
                IN  IF read.rc # "SUCCESS" THEN read
                    ELSE IF read.value = 0 /\ form.zeroRc # "" THEN Failure(form.zeroRc)
                    ELSE IF read.value = 0
                    THEN Success(("size" :> 0) @@ (form.field :> <<>>), read.rest)
                    ELSE [inner EXCEPT
                            !.rc = WithinSize(read, inner),
                            !.value = ("size" :> read.value) @@ (form.field :> inner.value)]
          [] form.kind = "union" ->
                LET cases == SelectSeq(form.cases, LAMBDA c : selector \in c.selectors)
                    s == cases[1].step
                IN  IF cases = <<>> THEN Failure("SELECTOR")
                    ELSE IF s.op = "none" THEN Success(<<>>, bytes)
                    ELSE put(Success(<<>>, bytes), s,
                             IF s.op = "bytes" THEN BYTE_Array(bytes, Extent(b, s.dim))
                             ELSE Unmarshal(b, s.type, bytes, s.flag = "YES", 0, 0),
                             s.op = "bytes" => fits(s.field, Extent(b, s.dim)))

-----------------------------------------------------------------------------
(* Marshalling.                                                            *)

\* The size is filled in when the structure after it has been marshalled.
Sizing(v, inner) == Join(BytesOf(Length(inner), 2), inner)

RECURSIVE Marshal(_, _, _, _, _)
Marshal(b, t, v, selector, count) ==
    LET form == b.marshal[t]
        step(acc, s) ==
            IF acc.stop THEN acc
            ELSE IF s.op = "stop" THEN [acc EXCEPT !.stop = v[s.field] = 0]
            ELSE [acc EXCEPT !.wire =
                    Join(@, Marshal(b, s.type, v[s.field],
                                    IF s.op = "member" /\ s.by # "" THEN v[s.by] ELSE 0,
                                    IF s.op = "each" THEN v[s.by] ELSE 0))]
    IN  CASE form.kind = "base" -> BytesOf(v, form.bytes)
          [] form.kind = "empty" -> <<>>
          [] form.kind = "bytes" -> Take(v, count)
          [] form.kind = "array" ->
                Fold(LAMBDA w, i : Join(w, Marshal(b, form.type, v[i], 0, 0)),
                         <<>>, [i \in 1..count |-> i])
          [] form.kind = "struct" ->
                Fold(step, [wire |-> <<>>, stop |-> FALSE], form.steps).wire
          [] form.kind = "within" -> Sizing(v, Marshal(b, form.type, v[form.field], 0, 0))
          [] form.kind = "union" ->
                LET cases == SelectSeq(form.cases, LAMBDA c : selector \in c.selectors)
                    s == cases[1].step
                IN  IF cases = <<>> \/ s.op = "none" THEN <<>>
                    ELSE IF s.op = "bytes" THEN Take(v[s.field], Extent(b, s.dim))
                    ELSE Marshal(b, s.type, v[s.field], 0, 0)

-----------------------------------------------------------------------------
(* The values that are marshalled.  A seed picks one of the values that    *)
(* the unmarshalling admits, or, of a type that is only marshalled, one    *)
(* that its unions have a member for.                                      *)

Nth(S, c) == CHOOSE v \in S : Cardinality({u \in S : u < v}) = c % Cardinality(S)

Number(n, c) ==
    LET v(i) == <<258, -1, 0, 1>>[1 + (i % 4)]
    IN  CASE n = 8 -> <<v(c), v(c + 1)>>
          [] n = 4 -> v(c)
          [] OTHER -> v(c) % 256^n

\* The number of elements of an array, or a number that is limited: the least, one more,
\* or the most.
CountOf(b, t, steps, f, c) ==
    LET checks(op) == {s \in ToSet(steps) : s.op = op /\ s.field = f}
        arrays == {s \in ToSet(steps) : s.op = "each" /\ s.by = f}
        least == Max({0} \cup {Extent(b, s.dim) : s \in checks("atleast")})
        most == Min({Extent(b, s.dim) : s \in checks("limit")}
                    \cup {Extent(b, MemberOf(b, t, s.field).dim) : s \in arrays}
                    \cup {MaxElements : s \in {a \in arrays : a.type # "BYTE_Array"}})
    IN  <<least, Min({least + 1, most}), most>>[1 + (c % 3)]

RECURSIVE Sample(_, _, _, _, _, _)
Sample(b, t, c, allowed, selector, count) ==
    LET form == FormOf(b, t)
        steps == form.steps
        picked(s, i) ==
            LET counts == {u \in ToSet(steps) : \/ u.op = "each" /\ u.by = s.field
                                                \/ u.op = "limit" /\ u.field = s.field}
                tags == {u \in ToSet(steps) : u.op = "oneof" /\ u.field = s.field}
                unions == {u \in ToSet(steps) : u.op = "member" /\ u.by = s.field}
            IN  IF counts # {} THEN CountOf(b, t, steps, s.field, i)
                ELSE IF tags # {} THEN Nth(UNION {u.values : u \in tags}, i)
                ELSE IF unions # {} /\ ~Unmarshalled(b, t)
                THEN Nth(UNION {UNION {k.selectors : k \in ToSet(FormOf(b, u.type).cases)}
                                  : u \in unions}, i)
                ELSE Sample(b, s.type, i, FlagFor(s, allowed), 0, 0)
        member(acc, s, i) ==
            IF s.op = "each" THEN Sample(b, s.type, i, FALSE, 0, acc[s.by])
            ELSE IF s.by # "" THEN Sample(b, s.type, i, FALSE, acc[s.by], 0)
            ELSE picked(s, i)
        step(acc, i) ==
            IF steps[i].op \in {"member", "each"}
            THEN acc @@ (steps[i].field :> member(acc, steps[i], c + i)) ELSE acc
    IN  CASE form.kind = "base" -> Number(form.bytes, c)
          [] form.kind = "empty" -> <<>>
          [] form.kind = "bytes" -> IF count = 0 THEN <<>> ELSE <<<<count, 1 + (c % 255)>>>>
          [] form.kind = "array" ->
                [i \in 1..count |-> Sample(b, form.type, c + i, FALSE, 0, 0)] \o <<>>
          [] form.kind = "scalar" ->
                Nth(form.values \cup (UNION {{r[1], r[2]} : r \in form.ranges})
                    \cup (IF allowed THEN form.null ELSE {}), c)
          [] form.kind = "reserved" ->
                LET free == (0..(8 * b.declaration[form.base].bytes - 1)) \ form.bits
                IN  FoldSet(LAMBDA i, n : n + BitValue(i), 0,
                            IF c % 3 = 0 THEN free ELSE {Nth(free, c)})
          [] form.kind = "struct" ->
                Fold(step, <<>>, [i \in 1..Len(steps) |-> i])
          [] form.kind = "within" ->
                LET inner == Sample(b, form.type, c, form.flag = "flag" /\ allowed, 0, 0)
                IN  ("size" :> Length(Encode(b, form.type, inner))) @@ (form.field :> inner)
          [] form.kind = "union" ->
                LET cases == SelectSeq(form.cases, LAMBDA k : selector \in k.selectors)
                    s == cases[1].step
                IN  IF cases = <<>> \/ s.op = "none" THEN <<>>
                    ELSE IF s.op = "bytes" THEN s.field :> <<<<Extent(b, s.dim), 1 + (c % 255)>>>>
                    ELSE s.field :> Sample(b, s.type, c, s.flag = "YES", 0, 0)

-----------------------------------------------------------------------------
Init ==
    /\ stage = "idle" /\ subject = "" /\ nullable = FALSE /\ given = <<>> /\ buffer = <<>>
    /\ delivery = "" /\ result = Failure("")

\* A type without a function to marshal it is written by the caller of the TPM.
Written(b, t, v) == IF Marshalled(b, t) THEN Marshal(b, t, v, 0, 0) ELSE Encode(b, t, v)

MarshalValue ==
    /\ stage = "idle"
    /\ \E t \in Kinds(Build), c \in Seeds, f \in BOOLEAN :
         /\ f => t \in Build.flagged
         /\ subject' = t /\ nullable' = f /\ given' = Sample(Build, t, c, f, 0, 0)
         /\ buffer' = Written(Build, t, given')
         /\ stage' = IF Unmarshalled(Build, t) THEN "marshalled" ELSE "response"
    /\ UNCHANGED <<delivery, result>>

Reached(i) == Length(SubSeq(buffer, 1, i))
Runs == {i \in 1..Len(buffer) : i <= MaxDamaged}

DeliverIntact ==
    /\ stage = "marshalled"
    /\ delivery' = "intact" /\ stage' = "delivered"
    /\ UNCHANGED <<subject, nullable, given, buffer, result>>

DeliverCut ==
    /\ stage = "marshalled"
    /\ \E i \in Runs, less \in {1, 2} :
         /\ Reached(i) >= less
         /\ buffer' = Take(buffer, Reached(i) - less)
    /\ delivery' = "cut" /\ stage' = "delivered"
    /\ UNCHANGED <<subject, nullable, given, result>>

DeliverDamaged ==
    /\ stage = "marshalled"
    /\ \E i \in Runs :
         \E p \in {Reached(i - 1) + 1, Reached(i)},
            b \in {0, 255, buffer[i][2] - 1, buffer[i][2] + 1} :
           /\ b \in 0..255 /\ b # buffer[i][2]
           /\ buffer' = Join(Join(Take(buffer, p - 1), <<<<1, b>>>>), Drop(buffer, p))
    /\ delivery' = "damaged" /\ stage' = "delivered"
    /\ UNCHANGED <<subject, nullable, given, result>>

UnmarshalValue ==
    /\ stage = "delivered"
    /\ result' = Unmarshal(Build, subject, buffer, nullable, 0, 0)
    /\ stage' = "unmarshalled"
    /\ UNCHANGED <<subject, nullable, given, buffer, delivery>>

Finish ==
    /\ stage \in {"unmarshalled", "response"}
    /\ stage' = "idle" /\ subject' = "" /\ nullable' = FALSE /\ given' = <<>> /\ buffer' = <<>>
    /\ delivery' = "" /\ result' = Failure("")

Next == MarshalValue \/ DeliverIntact \/ DeliverCut \/ DeliverDamaged \/ UnmarshalValue
        \/ Finish

Spec == Init /\ [][Next]_vars

-----------------------------------------------------------------------------
\* A ..._Marshal function writes the members of the type in the order of their
\* declaration, each once, and of a union the member that is selected; and what was
\* marshalled and arrives intact is unmarshalled by the type's other function to the same
\* value, with nothing of it left over.
RoundTrip ==
    /\ stage \in {"marshalled", "response"} => buffer = Encode(Build, subject, given)
    /\ stage = "unmarshalled" /\ delivery = "intact" =>
           result.rc = "SUCCESS" /\ result.value = given /\ result.rest = <<>>

\* Whatever the bytes are, nothing is written beyond the end of an array of the target:
\* the limits that the functions check are within the dimensions that the types declare.
NoOverrun == ~result.over

\* The bytes that were taken are those that the value is marshalled to: nothing that is
\* accepted can be written in a second way, except a TPM2B_SENSITIVE without a structure in it.
Canonical ==
    stage = "unmarshalled" /\ result.rc = "SUCCESS"
        /\ ~(subject = "TPM2B_SENSITIVE" /\ result.value["size"] = 0) =>
        Take(buffer, Length(buffer) - Length(result.rest)) = Written(Build, subject, result.value)
=============================================================================
