--------------------------- MODULE MCPolicySession ---------------------------
(***************************************************************************)
(* Instances of PolicySession.                                             *)
(***************************************************************************)
EXTENDS PolicySession, TLC

\* Hash values, one of each kind and a second cpHash; callers may confuse them.
CpA == <<"cp", "A">>
NameA == <<"name", "obj", "parent">>
TemplateA == <<"template", "A">>

HashSet == {CpA, NameA, TemplateA}
CpHashSet == {CpA, NameA}
NameSet == {NameA}

\* The commands: what they are, and where and by whom they may be sent.
Kind(code, role, cp, name, template) ==
    [code |-> code, role |-> role, cp |-> cp, name |-> name, template |-> template,
     index |-> code = "NV_Write"]
Kinds ==
    {Kind("Sign", "user", CpA, NameA, {}),
     Kind("Create", "user", <<"cp", "B">>, <<"name", "parent">>, {TemplateA}),
     Kind("Duplicate", "dup", <<"cp", "C">>, NameA, {}),
     Kind("NV_Write", "user", <<"cp", "D">>, <<"name", "index">>, {}),
     Kind("PolicySecret", "user", <<"cp", "E">>, <<"name", "entity">>, {})}
Setting(l, p, n, w) == [locality |-> l, pp |-> p, knows |-> n, written |-> w]
\* Everything in order at locality 0, and one thing different at a time.
Settings == {Setting(0, TRUE, TRUE, TRUE), Setting(3, TRUE, TRUE, TRUE),
             Setting(0, FALSE, TRUE, TRUE), Setting(0, TRUE, FALSE, TRUE),
             Setting(0, TRUE, TRUE, FALSE)}
EveryCommand ==
    {[code |-> k.code, role |-> k.role, cp |-> k.cp, name |-> k.name,
      template |-> k.template, index |-> k.index, written |-> s.written,
      locality |-> s.locality, pp |-> s.pp, knows |-> s.knows] :
        k \in Kinds, s \in Settings}
AllCommands == EveryCommand

CodeSet == {"Sign", "Duplicate"}
LocalityInputs == {{0}, {0, 3}}
ComparisonSet == {<<"UNSIGNED_LE", 1>>}

\* Policies that callers know and that a key or an index approves.
AuthPolicy == << <<"AuthValue", {}>> >>
SignedPolicy == << <<"Signed", {"key"}>> >>
PolicySet == {AuthPolicy}
ApprovedPolicies == [name \in {"key", "index"} |->
                        IF name = "key" THEN {AuthPolicy} ELSE {SignedPolicy}]
Seconds == {-1, 0}

\* The digests of PCR are only compared for equality.
PcrSymmetry == Permutations(PcrValues)

=============================================================================
