-------------------------- MODULE MCSessionProcess --------------------------
(***************************************************************************)
(* Two sessions, six entities and the requests of five scenes.  A caller   *)
(* of the scenes knows or guesses authValues, uses sessions bound to an    *)
(* entity or to none, and sends what was sent before again.                *)
(***************************************************************************)
EXTENDS CommandCodeAttributes, SessionProcess, TLC

\* Hierarchies, a protected key, an exempt sequence and an index that its policy deletes.
TheEntities ==
    ("owner" :> [type |-> "permanent", bits |-> {}, policy |-> <<>>]) @@
    ("platform" :> [type |-> "permanent", bits |-> {}, policy |-> <<>>]) @@
    ("lockout" :> [type |-> "permanent", bits |-> {}, policy |-> <<>>]) @@
    ("key" :> [type |-> "transient", bits |-> {"userWithAuth"}, policy |-> <<TheAuthValue>>]) @@
    ("sequence" :> [type |-> "transient", bits |-> {"sequence", "noDA"}, policy |-> <<>>]) @@
    ("index" :> [type |-> "nv", bits |-> {"POLICY_DELETE", "AUTHREAD", "POLICYREAD", "noDA"},
                 policy |-> <<TheCommand("NV_UndefineSpaceSpecial"), TheAuthValue>>])
PublicDef == TheEntities
CommandRowsDef == CommandTable
FirstAuths == [e \in DOMAIN TheEntities |-> IF e = "platform" THEN EmptyAuth ELSE "x"]
InitialAuthDef == FirstAuths
Values == {"x", "y"}
AllValues == Values \cup {EmptyAuth}
AuthValuesDef == AllValues

-----------------------------------------------------------------------------
Request(command, handles, sessions, in) ==
    [command |-> command, handles |-> handles, sessions |-> sessions, in |-> in, pp |-> TRUE]
Bare(command, in) == Request(command, <<>>, <<>>, in)

Kept == {"continueSession"}
PW(auth) == [type |-> "PW", auth |-> auth, attributes |-> Kept]
HMAC(type, k, hmac, auth, bindAuth, attributes) ==
    [type |-> type, slot |-> k, hmac |-> hmac, auth |-> auth, bindAuth |-> bindAuth,
     attributes |-> attributes]
\* Authorisations by HMAC with a session that is bound or not.
HMACs(k, attributes) ==
    {HMAC("HMAC", k, hmac, auth, bindAuth, attributes) :
        hmac \in {"last", "old"}, auth \in AllValues, bindAuth \in Values \cup {Nothing}}
Start(type, bind) ==
    Request("StartAuthSession", <<"null", bind>>, <<>>, [type |-> type, symmetric |-> TRUE])
Flush(k, type) == Bare("FlushContext", [slot |-> k, type |-> type])
None == [slot |-> 1]

-----------------------------------------------------------------------------
\* The owner's authValue changes while sessions are bound to the owner.
Changing ==
    {Start("HMAC", "owner"), Start("HMAC", "null"), Flush(1, "HMAC")} \cup
    {Request("HierarchyChangeAuth", <<e>>, <<s>>, [newAuth |-> a]) :
        e \in {"owner"}, a \in Values,
        s \in {PW(v) : v \in Values} \cup HMACs(1, Kept) \cup HMACs(2, {})} \cup
    {[Request("HierarchyChangeAuth", <<"platform">>, <<PW(v)>>, [newAuth |-> "y"])
        EXCEPT !.pp = p] : v \in {EmptyAuth, "y"}, p \in BOOLEAN}

\* Guesses at a key's and at the lockout's authValue.
Guessing ==
    {Start(type, bind) : type \in {"HMAC", "POLICY"}, bind \in {"key", "lockout"}} \cup
    {Flush(1, "HMAC"), Flush(1, "POLICY")} \cup
    {Bare("PolicyAuthValue", [slot |-> 1]), Bare("PolicyPassword", [slot |-> 1])} \cup
    {Request("Unseal", <<"key">>, <<s>>, None) :
        s \in {PW(v) : v \in Values} \cup HMACs(1, Kept)
              \cup {[h EXCEPT !.type = "POLICY"] : h \in HMACs(1, Kept)}} \cup
    {Request("NV_Read", <<"owner", "index">>, <<s>>, None) : s \in HMACs(1, Kept)} \cup
    {Request("DictionaryAttackLockReset", <<"lockout">>, <<s>>, None) :
        s \in {PW(v) : v \in Values} \cup HMACs(2, Kept)} \cup
    {Request("GetRandom", <<>>, <<s>>, None) : s \in HMACs(2, Kept \cup {"encrypt"})}

\* Entities that are gone when the response is built; a policy session used again.
Deleting ==
    {Start("POLICY", "null"), Start("TRIAL", "null"), Flush(1, "POLICY"),
     Bare("PolicyAuthValue", [slot |-> 1]), Bare("PolicyPassword", [slot |-> 1]),
     Bare("PolicyRestart", [slot |-> 1])} \cup
    {Bare("PolicyCommandCode", [slot |-> 1, code |-> code]) :
        code \in {"NV_UndefineSpaceSpecial", "NV_Read"}} \cup
    {Request("NV_UndefineSpaceSpecial", <<"index", "platform">>,
             <<HMAC("POLICY", 1, hmac, v, Nothing, attributes), PW(EmptyAuth)>>, None) :
        hmac \in {"last", "old"}, v \in Values, attributes \in {{}, Kept}} \cup
    {Request("NV_Read", <<"index", "index">>, <<s>>, None) :
        s \in {PW("x"), HMAC("POLICY", 1, "last", "x", Nothing, Kept)}} \cup
    {Request("NV_DefineSpace", <<"owner">>, <<PW("x")>>, [entity |-> "index"]),
     Request("HashSequenceStart", <<>>, <<>>, [entity |-> "sequence"]),
     Start("HMAC", "null")} \cup
    {Request("SequenceComplete", <<"sequence">>, <<s>>, None) :
        s \in {PW("x"), HMAC("HMAC", 2, "last", "x", Nothing, Kept)}}

\* Two audit sessions, one of which is exclusive.
Audited(k, attributes) == HMAC("HMAC", k, "last", EmptyAuth, Nothing, attributes \cup {"audit"})
AuditingSessions ==
    {Start("HMAC", "null"), Flush(1, "HMAC"), Flush(2, "HMAC"), Flush(2, "POLICY")} \cup
    {Bare(command, [slot |-> 1]) : command \in {"ContextSave", "ContextLoad"}} \cup
    {Request("GetRandom", <<>>, sessions, None) :
        sessions \in {<<>>} \cup
            {<<Audited(k, attributes)>> : k \in {1, 2}, attributes \in
                {{}, Kept, Kept \cup {"auditReset"}, Kept \cup {"auditExclusive"}}} \cup
            {<<Audited(1, Kept), HMAC("HMAC", 2, hmac, EmptyAuth, Nothing, Kept \cup {"encrypt"})>> :
                hmac \in {"last", "old", "none"}}} \cup
    {[Start("HMAC", "null") EXCEPT !.sessions = <<Audited(2, Kept)>>]} \cup
    {Request("GetSessionAuditDigest", <<"owner", "null">>, <<PW("x"), PW(EmptyAuth)>>, [slot |-> k]) :
        k \in {1, 2}} \cup
    {Bare("Shutdown", [shutdownType |-> "STATE"])}

\* The command audit.
Set(auditAlg, setList, clearList) ==
    Request("SetCommandCodeAuditStatus", <<"owner">>, <<PW("x")>>,
            [auditAlg |-> auditAlg, setList |-> setList, clearList |-> clearList])
AuditingCommands ==
    {Set(Nothing, {"GetRandom", "Shutdown"}, {}), Set(Nothing, {"GetCommandAuditDigest"}, {}),
     Set(Nothing, {}, {"GetRandom", "SetCommandCodeAuditStatus"}),
     Set("SHA384", {}, {}), Set("SHA256", {}, {}), Set("SHA384", {"GetRandom"}, {})} \cup
    {Bare("GetRandom", None)} \cup
    {Request("GetCommandAuditDigest", <<"owner", "key">>, <<PW("x"), PW("x")>>, None),
     Request("GetCommandAuditDigest", <<"owner", "null">>, <<PW("x"), PW(EmptyAuth)>>, None)} \cup
    {Bare("Shutdown", [shutdownType |-> t]) : t \in {"CLEAR", "STATE"}} \cup
    {Request("Load", <<"owner">>, <<PW("x")>>, [entity |-> "key"])}

TheScenes ==
    [Changing |-> Changing, Guessing |-> Guessing, Deleting |-> Deleting,
     AuditingSessions |-> AuditingSessions, AuditingCommands |-> AuditingCommands]
ScenesDef == TheScenes
=============================================================================
