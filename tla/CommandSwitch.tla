---------------------------- MODULE CommandSwitch ----------------------------
(***************************************************************************)
(* What the dispatching of a command promises, read off the switch         *)
(* statements of HandleProcess.h and CommandDispatcher.h: each command is  *)
(* a case that names the fields of its structures.  This form is not built *)
(* (TABLE_DRIVEN_DISPATCH), and serves as the specification of the one     *)
(* that is.                                                                *)
(*                                                                         *)
(* A request is a number of well-formed handles and parameters, which      *)
(* "end" or a "bad" byte follows.  What a failed command has marshalled    *)
(* does not leave the TPM, and is not part of the state.                   *)
(***************************************************************************)
EXTENDS Integers, Sequences, FiniteSets, TLC, CommandCases, MarshalPrototypes

CONSTANTS Results,      \* what the commands return
          Wires         \* the requests

VARIABLES name,         \* the command, or "none"
          wire,         \* the request, and how much of it has been taken
          pc,
          handles,      \* the handle area
          in, response,
          result

vars == <<name, wire, pc, handles, in, response, result>>

TPM_RC_VALUE == 132
TPM_RC_SIZE == 149
TPM_RC_INSUFFICIENT == 154
TPM_RC_COMMAND_CODE == 323
Nothing == [field \in {} |-> <<>>]

\* What a ..._Unmarshal returns.
UnmarshalResult == CASE wire.taken < wire.good -> 0
                     [] wire.taken >= wire.good /\ wire.tail = "bad" -> TPM_RC_VALUE
                     [] OTHER -> TPM_RC_INSUFFICIENT
Value(f) == [item |-> wire.taken + 1, type |-> UnmarshalOf(f.type), flag |-> f.flag]
Marshalled(r) == From(MarshalOf(r.type), r.field)
TakeItem == wire' = [wire EXCEPT !.taken = @ + 1]

NoWire == [good |-> 0, tail |-> "end", taken |-> 0]

Init == /\ name = "none" /\ wire = NoWire /\ pc = "idle" /\ handles = <<>>
        /\ in = Nothing /\ response = <<>> /\ result = 0

\* A command that is not among the cases is refused before.
Receive == /\ pc = "idle"
           /\ wire' \in Wires
           /\ \/ /\ name' \in DOMAIN CaseOf
                 /\ pc' = "handles" /\ result' = 0
              \/ /\ name' = "none"
                 /\ pc' = "done" /\ result' = TPM_RC_COMMAND_CODE
           /\ UNCHANGED <<handles, in, response>>

Fail(rc) == /\ pc' = "done" /\ result' = rc
            /\ handles' = <<>> /\ in' = Nothing /\ response' = <<>>

Handle ==
    LET n == Len(handles) + 1
    IN  /\ pc = "handles" /\ n <= Len(CaseHandles[name])
        /\ TakeItem
        /\ IF UnmarshalResult = 0
           THEN /\ handles' = Append(handles, Value(CaseHandles[name][n]))
                /\ UNCHANGED <<pc, in, response, result>>
           ELSE Fail(UnmarshalResult + n * 256)
        /\ UNCHANGED name

\* in->... = handles[...]
Enter ==
    /\ pc = "handles" /\ Len(handles) = Len(CaseHandles[name])
    /\ pc' = "parameters"
    /\ in' = [f \in {CaseOf[name].handles[i] : i \in DOMAIN handles} |->
                 handles[CHOOSE i \in DOMAIN handles : CaseOf[name].handles[i] = f]]
    /\ handles' = <<>>
    /\ UNCHANGED <<name, wire, response, result>>

Taken == Cardinality(DOMAIN in) - Len(CaseOf[name].handles)

Parameter ==
    LET n == Taken + 1
        p == CaseOf[name].parameters[n]
    IN  /\ pc = "parameters" /\ n <= Len(CaseOf[name].parameters)
        /\ TakeItem
        /\ IF UnmarshalResult = 0
           THEN /\ in' = (p.field :> Value(p)) @@ in
                /\ UNCHANGED <<pc, handles, response, result>>
           ELSE Fail(UnmarshalResult + 64 + n * 256)
        /\ UNCHANGED name

CheckSize ==
    /\ pc = "parameters" /\ Taken = Len(CaseOf[name].parameters)
    /\ IF wire.taken < wire.good \/ wire.tail = "bad"
       THEN Fail(TPM_RC_SIZE)
       ELSE pc' = "call" /\ UNCHANGED <<handles, in, response, result>>
    /\ UNCHANGED <<name, wire>>

Call ==
    /\ pc = "call"
    /\ \E rc \in Results :
           IF rc = 0 THEN pc' = "response" /\ UNCHANGED <<handles, in, response, result>>
           ELSE Fail(rc)
    /\ UNCHANGED <<name, wire>>

\* handles[command->handleNum++] = out->...
ResponseHandle ==
    /\ pc = "response" /\ response = <<>> /\ CaseOf[name].handle # <<>>
    /\ response' = <<From("handle", CaseOf[name].handle[1])>>
    /\ UNCHANGED <<name, wire, pc, handles, in, result>>

Done == Len(response) - Len(CaseOf[name].handle)

Marshal ==
    /\ pc = "response" /\ Done \in 0..(Len(CaseOf[name].response) - 1)
    /\ response' = Append(response, Marshalled(CaseOf[name].response[Done + 1]))
    /\ UNCHANGED <<name, wire, pc, handles, in, result>>

Finish ==
    /\ pc = "response" /\ Done = Len(CaseOf[name].response)
    /\ pc' = "done" /\ in' = Nothing
    /\ UNCHANGED <<name, wire, handles, response, result>>

\* The response is sent.
Return ==
    /\ pc = "done"
    /\ pc' = "idle" /\ name' = "none" /\ wire' = NoWire /\ handles' = <<>>
    /\ in' = Nothing /\ response' = <<>> /\ result' = 0

Next == \/ Receive \/ Handle \/ Enter \/ Parameter \/ CheckSize \/ Call
        \/ ResponseHandle \/ Marshal \/ Finish \/ Return

Spec == Init /\ [][Next]_vars
=============================================================================
