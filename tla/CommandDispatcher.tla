-------------------------- MODULE CommandDispatcher --------------------------
(***************************************************************************)
(* A command from its code to its response: ParseHandleBuffer and          *)
(* CommandDispatcher, driven by the tables, as ExecuteCommand calls them.  *)
(* Each iteration of their loops is a step.                                *)
(*                                                                         *)
(* A request is a number of well-formed handles and parameters, which      *)
(* "end" or a "bad" byte follows.  What is unmarshalled is represented by  *)
(* its place in the request and by the function that was called, and the   *)
(* bytes of a structure by its fields.  The offset 0 is of the first one.  *)
(***************************************************************************)
EXTENDS Integers, Sequences, FiniteSets, TLC, CommandCodeAttributes,
        CommandPrototypes, MarshalPrototypes

CONSTANTS Codes,        \* the command codes that are received
          Results,      \* what the commands return
          Wires         \* the requests

VARIABLES pc,
          command,      \* code, index, handles and handleNum of COMMAND
          wire,         \* the request, and how much of it has been taken
          cursor,       \* type and offset, and where the next ones are read
          in,           \* the input structure
          members,      \* how many more members of the output may be marshalled
          response,     \* what has been marshalled
          result,
          inFailureMode \* g_inFailureMode

vars == <<pc, command, wire, cursor, in, members, response, result, inFailureMode>>

-----------------------------------------------------------------------------
TPM_RC_VALUE == 132
TPM_RC_SIZE == 149
TPM_RC_INSUFFICIENT == 154
TPM_RC_FAILURE == 257
TPM_RC_COMMAND_CODE == 323

NoWire == [good |-> 0, tail |-> "end", taken |-> 0]
NoCommand == [code |-> 0, index |-> 0, handles |-> <<>>, handleNum |-> 0]
Zero == <<"Zero", "">>
Past == <<"Past", "">>
NoCursor == [type |-> END_OF_LIST, types |-> 1, offset |-> Zero, offsets |-> 1,
             pNum |-> 0, hasIn |-> FALSE]
Nothing == [field \in {} |-> <<>>]

desc == s_CommandDataArray[command.index + 1]
Name == s_ccAttr[command.index + 1].command

dType == cursor.type % 128
Flag == CASE cursor.type >= 128 -> "set" [] OTHER -> "clear"

\* What a function of UnmarshalArray returns, and the value it stores.
UnmarshalResult == CASE wire.taken < wire.good -> 0
                     [] wire.taken >= wire.good /\ wire.tail = "bad" -> TPM_RC_VALUE
                     [] OTHER -> TPM_RC_INSUFFICIENT
Unmarshalled(firstFlagType) ==
    [item |-> wire.taken + 1, type |-> UnmarshalArray[dType + 1],
     flag |-> IF dType < firstFlagType THEN "none" ELSE Flag]
TakeItem == wire' = [wire EXCEPT !.taken = @ + 1]

\* *types++, and *offsets++ of a list that may be at its end.
NextType(c) == [c EXCEPT !.type = desc.types[c.types], !.types = @ + 1]
NextOffset(c) == [c EXCEPT !.offset = IF c.offsets <= Len(desc.offsets)
                                      THEN desc.offsets[c.offsets] ELSE Past,
                           !.offsets = @ + 1]

\* A bug: an offset is read after the last parameter too.
OffsetUnlessLastAlways(c) == NextOffset(c)

OffsetUnlessLast(c) == IF desc.types[c.types] # END_OF_LIST THEN NextOffset(c) ELSE c

\* The field at an offset of the input or the output structure.
FieldAt(struct, fields, offset) ==
    CASE offset = Zero /\ fields # <<>> -> fields[1].field
      [] offset[1] = struct -> offset[2]
      [] OTHER -> "none"
InField == FieldAt("In", Prototype[desc.entry].in, cursor.offset)
OutField == FieldAt("Out", Prototype[desc.entry].out, cursor.offset)

-----------------------------------------------------------------------------
Init == /\ pc = "idle" /\ command = NoCommand /\ wire = NoWire
        /\ cursor = NoCursor /\ in = Nothing /\ members = 0
        /\ response = <<>> /\ result = 0 /\ inFailureMode = FALSE

Receive(code) ==
    LET index == CommandCodeToCommandIndex(code)
    IN  /\ pc = "idle" /\ ~inFailureMode
        /\ wire' \in Wires
        /\ command' = [NoCommand EXCEPT !.code = code, !.index = index]
        /\ IF index = UNIMPLEMENTED_COMMAND_INDEX
           THEN /\ pc' = "done" /\ result' = TPM_RC_COMMAND_CODE
                /\ UNCHANGED cursor
           ELSE /\ pc' = "handles" /\ result' = 0
                /\ cursor' = [NoCursor EXCEPT !.types = 2,
                                 !.type = s_CommandDataArray[index + 1].types[1]]
        /\ UNCHANGED <<in, members, response, inFailureMode>>

\* Leaves with a response code; MemoryIoBufferZero.
Exit(rc) == /\ pc' = "done" /\ result' = rc
            /\ in' = Nothing

\* An iteration of ParseHandleBuffer.
ParseHandle ==
    /\ pc = "handles" /\ dType < PARAMETER_FIRST_TYPE
    /\ TakeItem
    /\ command' = [command EXCEPT
           !.handles = Append(@, Unmarshalled(HANDLE_FIRST_FLAG_TYPE)),
           !.handleNum = @ + 1]
    /\ IF UnmarshalResult = 0
       THEN cursor' = NextType(cursor) /\ UNCHANGED <<pc, in, result>>
       ELSE /\ Exit(UnmarshalResult + TPM_RC_H + command'.handleNum * TPM_RC_1)
            /\ UNCHANGED cursor
    /\ UNCHANGED <<members, response, inFailureMode>>

\* CommandDispatcher begins: the buffers are zeroed, and the lists read from the start.
Dispatch ==
    /\ pc = "handles" /\ dType >= PARAMETER_FIRST_TYPE
    /\ pc' = "copy"
    /\ cursor' = NextType(NoCursor)
    /\ in' = Nothing
    /\ members' = IF desc.outSize THEN Len(Prototype[desc.entry].out) ELSE 0
    /\ UNCHANGED <<command, wire, response, result, inFailureMode>>

\* *handles++ is copied; the types before this one are of handles as well.
CopyHandle ==
    /\ pc = "copy" /\ dType < PARAMETER_FIRST_TYPE
    /\ in' = (InField :> command.handles[cursor.types - 1]) @@ in
    /\ cursor' = NextType([OffsetUnlessLast(cursor) EXCEPT !.hasIn = TRUE])
    /\ UNCHANGED <<pc, command, wire, members, response, result, inFailureMode>>

HandlesCopied ==
    /\ pc = "copy" /\ dType >= PARAMETER_FIRST_TYPE
    /\ pc' = "parameters"
    /\ UNCHANGED <<command, wire, cursor, in, members, response, result, inFailureMode>>

UnmarshalParameter ==
    /\ pc = "parameters" /\ dType <= PARAMETER_LAST_TYPE
    /\ TakeItem
    /\ IF UnmarshalResult = 0
       THEN /\ in' = (InField :> Unmarshalled(PARAMETER_FIRST_FLAG_TYPE)) @@ in
            /\ cursor' = NextType([OffsetUnlessLast(cursor) EXCEPT
                                       !.hasIn = TRUE, !.pNum = @ + 1])
            /\ UNCHANGED <<pc, result>>
       ELSE /\ Exit(UnmarshalResult + TPM_RC_P + (cursor.pNum + 1) * TPM_RC_1)
            /\ UNCHANGED cursor
    /\ UNCHANGED <<command, members, response, inFailureMode>>

\* A bug: what follows the last parameter is not noticed.
CheckSizeNot ==
    /\ pc = "parameters" /\ dType > PARAMETER_LAST_TYPE
    /\ pc' = "call" /\ UNCHANGED <<in, result>>
    /\ UNCHANGED <<command, wire, cursor, members, response, inFailureMode>>

\* All the bytes must have been used.
CheckSize ==
    /\ pc = "parameters" /\ dType > PARAMETER_LAST_TYPE
    /\ IF wire.taken < wire.good \/ wire.tail = "bad"
       THEN Exit(TPM_RC_SIZE)
       ELSE pc' = "call" /\ UNCHANGED <<in, result>>
    /\ UNCHANGED <<command, wire, cursor, members, response, inFailureMode>>

\* cmd.inOutArg, inArg, outArg or noArgs.
hasOutParameters == desc.types[cursor.types] # END_OF_LIST

\* An action that needs random numbers may log a failure and return all the same
\* (LOG_FAILURE in CryptRand.c; FAIL never returns).
Call(rc, logsFailure) ==
    /\ pc = "call"
    /\ inFailureMode' = logsFailure
    /\ IF rc = 0
       THEN /\ pc' = "handle"
            /\ command' = [command EXCEPT !.handles = <<>>, !.handleNum = 0]
            /\ cursor' = NextType([cursor EXCEPT !.offset = Zero])
            /\ UNCHANGED <<in, result>>
       ELSE Exit(rc) /\ UNCHANGED <<command, cursor>>
    /\ UNCHANGED <<wire, members, response>>

ResponseHandle ==
    /\ pc = "handle"
    /\ pc' = "response"
    /\ IF dType < RESPONSE_PARAMETER_FIRST_TYPE
       THEN /\ command' = [command EXCEPT !.handleNum = @ + 1, !.handles = Append(@, OutField)]
            /\ members' = members - 1
            /\ response' = <<[type |-> "handle", field |-> OutField]>>
            /\ cursor' = NextOffset(NextType(cursor))
       ELSE UNCHANGED <<command, cursor, members, response>>
    /\ UNCHANGED <<wire, in, result, inFailureMode>>

MarshalParameter ==
    /\ pc = "response" /\ ~inFailureMode /\ dType <= RESPONSE_PARAMETER_LAST_TYPE
    /\ response' = Append(response, [type |-> MarshalArray[dType + 1],
                                     field |-> OutField])
    /\ members' = members - 1
    /\ cursor' = NextType(NextOffset(cursor))
    /\ UNCHANGED <<pc, command, wire, in, result, inFailureMode>>

Finish ==
    /\ pc = "response" /\ (dType > RESPONSE_PARAMETER_LAST_TYPE \/ inFailureMode)
    /\ Exit(IF members < 0 THEN TPM_RC_FAILURE ELSE 0)
    /\ UNCHANGED <<command, wire, cursor, members, response, inFailureMode>>

\* ExecuteCommand sends the response.
Return ==
    /\ pc = "done"
    /\ pc' = "idle" /\ command' = NoCommand /\ wire' = NoWire /\ cursor' = NoCursor
    /\ members' = 0 /\ response' = <<>> /\ result' = 0
    /\ UNCHANGED <<in, inFailureMode>>

\* TpmFailureMode answers every command until _TPM_Init.
Reset ==
    /\ pc = "idle" /\ inFailureMode
    /\ inFailureMode' = FALSE
    /\ UNCHANGED <<pc, command, wire, cursor, in, members, response, result>>

Next == \/ \E code \in Codes : Receive(code)
        \/ ParseHandle \/ Dispatch \/ CopyHandle \/ HandlesCopied
        \/ UnmarshalParameter \/ CheckSize
        \/ \E rc \in Results, logsFailure \in BOOLEAN : Call(rc, logsFailure)
        \/ ResponseHandle \/ MarshalParameter \/ Finish \/ Return \/ Reset

Spec == Init /\ [][Next]_vars

-----------------------------------------------------------------------------
Fields(struct) == {struct[i].field : i \in DOMAIN struct}
InStruct == Prototype[Name].in
OutStruct == Prototype[Name].out

\* The tables are read within their bounds, and the response codes fit in 16 bits.
TypeOK ==
    /\ pc \in {"idle", "handles", "copy", "parameters", "call", "handle", "response",
               "done"}
    /\ command.handleNum \in 0..3 /\ command.handleNum = Len(command.handles)
    /\ result \in 0..(2^16 - 1)
    /\ pc \notin {"idle", "done"} =>
           /\ command.index \in 0..(COMMAND_COUNT - 1)
           /\ cursor.types \in 2..(Len(desc.types) + 1)

\* The types whose marshalled form begins with a two-byte size.
SizedTypes ==
    {"TPM2B_ATTEST", "TPM2B_AUTH", "TPM2B_CREATION_DATA", "TPM2B_DATA", "TPM2B_DIGEST",
     "TPM2B_ECC_PARAMETER", "TPM2B_ECC_POINT", "TPM2B_ENCRYPTED_SECRET", "TPM2B_EVENT",
     "TPM2B_ID_OBJECT", "TPM2B_IV", "TPM2B_MAX_BUFFER", "TPM2B_MAX_NV_BUFFER",
     "TPM2B_NAME", "TPM2B_NONCE", "TPM2B_NV_PUBLIC", "TPM2B_OPERAND", "TPM2B_PRIVATE",
     "TPM2B_PUBLIC", "TPM2B_PUBLIC_KEY_RSA", "TPM2B_SENSITIVE", "TPM2B_SENSITIVE_CREATE",
     "TPM2B_SENSITIVE_DATA", "TPM2B_TEMPLATE", "TPM2B_TIMEOUT"}

\* A code is found exactly if it is the code of a command that is built, and then
\* the descriptor and both attributes at its index are those of that command.  The
\* sessions and the response header are built from the attributes, and the parameters
\* from the descriptors: they agree on how many handles the request has, on whether the
\* response has one, and a parameter is encrypted only where the first one begins with
\* a two-byte size.
TablesAgree ==
    /\ pc = "call" \/ result = TPM_RC_COMMAND_CODE =>
           LET entries == {i \in DOMAIN s_ccAttr : GetCommandCode(i - 1) = command.code}
           IN  IF result = TPM_RC_COMMAND_CODE THEN entries = {}
               ELSE /\ entries = {command.index + 1}
                    /\ desc.entry = Name
                    /\ s_commandAttributes[command.index + 1].command = Name
    /\ pc = "copy" =>
           /\ command.handleNum = s_ccAttr[command.index + 1].cHandles
           /\ \A i \in 0..2 : CommandAuthRole(command.index, i) # "AUTH_NONE" =>
                                  i < command.handleNum
    /\ (pc = "done" /\ result = 0) =>
           LET in1 == s_ccAttr[command.index + 1].cHandles + 1
               out1 == command.handleNum + 1
           IN  /\ (command.handleNum = 1) = IsHandleInResponse(command.index)
               /\ (command.handleNum = 1) =
                      ("rHandle" \in s_ccAttr[command.index + 1].bits)
               /\ (DecryptSize(command.index) = 2) =
                      (in1 \in DOMAIN InStruct /\ InStruct[in1].type \in SizedTypes)
               /\ (EncryptSize(command.index) = 2) =
                      (out1 \in DOMAIN OutStruct /\ OutStruct[out1].type \in SizedTypes)

\* When a command's action is called, every member of its input structure has
\* been filled, from its own place in the request and by the unmarshalling function
\* of its declared type, nothing else has been written, and the action gets the
\* arguments it is declared with.  A successful response holds the members of the output
\* structure, all of them, once each and in order, marshalled for their declared types,
\* unless the TPM is in failure mode: then the response ends after its handle, and its
\* code is TPM_RC_SUCCESS still.
ParametersComplete ==
    /\ pc = "call" =>
           /\ DOMAIN in = Fields(InStruct)
           /\ \A i \in DOMAIN InStruct :
                  LET value == in[InStruct[i].field]
                  IN  value.item = i /\ value.type = UnmarshalOf(InStruct[i].type)
           /\ wire.good = Len(InStruct) /\ wire.tail = "end"
           /\ cursor.hasIn = desc.inSize /\ hasOutParameters = desc.outSize
           /\ desc.inSize = (InStruct # <<>>) /\ desc.outSize = (OutStruct # <<>>)
    /\ pc = "done" /\ result = 0 =>
           /\ IF inFailureMode THEN Len(response) = command.handleNum
              ELSE Len(response) = Len(OutStruct)
           /\ \A i \in DOMAIN response :
                  /\ response[i].field = OutStruct[i].field
                  /\ response[i].type \in {"handle", MarshalOf(OutStruct[i].type)}
                  /\ response[i].type = "handle" => i = 1

-----------------------------------------------------------------------------
\* The switch statements do not copy the handles in steps of their own, and do not look at
\* g_inFailureMode: a command during which a failure was logged counts as a failed one.
Cut == inFailureMode /\ pc \in {"handle", "response", "done"}
Switch == INSTANCE CommandSwitch WITH
    Results <- Results \cup {TPM_RC_FAILURE},
    name <- IF pc \in {"idle"} \/ result = TPM_RC_COMMAND_CODE THEN "none" ELSE Name,
    pc <- CASE Cut -> "done" [] ~Cut /\ pc = "copy" -> "handles"
            [] ~Cut /\ pc = "handle" -> "response" [] OTHER -> pc,
    handles <- IF pc \in {"handles", "copy"} THEN command.handles ELSE <<>>,
    in <- IF pc = "copy" \/ Cut THEN Nothing ELSE in,
    response <- IF Cut THEN <<>> ELSE response,
    result <- IF Cut THEN TPM_RC_FAILURE ELSE result

\* The tables do for every command and every request, step by step, what its case
\* of the switch statements says: the same members are filled from the same items of
\* the request, and the response has the same parameters and code, unless the TPM is in
\* failure mode at the end.
ImplementsSwitch == Switch!Spec
=============================================================================
