---------------------------- MODULE MCClientKeys ----------------------------
(***************************************************************************)
(* Instances of ClientKeys: PCR 0, whose changes the TPM counts, and PCR   *)
(* 23, which can be reset and which a TPM need not count (the simulator    *)
(* leaves PCR 20 to 22 uncounted).  A command reads one PCR, so that a     *)
(* selection of both takes two.                                            *)
(***************************************************************************)
EXTENDS ClientKeys

CONSTANTS c1, c2

Two(x, y) == [c \in {c1, c2} |-> IF c = c1 THEN x ELSE y]
SrkKey == [template |-> "srk", ses |-> 0]
AkKey == [template |-> "ak", ses |-> 0]
Holding(srk, ek, ak) == [t \in {"srk", "ek", "ak"} |-> CASE t = "srk" -> srk [] t = "ek" -> ek [] t = "ak" -> ak]

Role(calls, template, k, held, slots, n, seals) ==
    [calls |-> calls, template |-> template, key |-> k, persistent |-> held,
     objects |-> slots[1], sessions |-> slots[2], changes |-> n, seals |-> seals]
NoKeys == Two(NoKey, NoKey)

\* A caller seals twice and unseals what it stored, while PCRs change.
Storing ==
    Role(Two({"Seal", "Unseal"}, {}), Two("srk", "srk"), Two(SrkKey, NoKey),
         Holding("srk", None, None), <<1, 1>>, 2, 2)

Quoting == Role(Two({"Quote"}, {}), Two("ak", "ak"), Two(AkKey, AkKey), Holding(None, None, "ak"), <<1, 1>>, 3, 0)

\* Keys are created and closed; the handles are empty, or taken by another key.
Caching ==
    {Role(Two({"NewCachedKey", "Close"}, {"NewCachedKey", "Close"}), Two("ek", "srk"),
          NoKeys, Holding(s, e, None), <<1, 1>>, 0, 0) :
        s \in {None, "srk", "other"}, e \in {None, "ek", "other"}}
    \cup {Role(Two({"NewCachedKey", "Close"}, {"NewCachedKey", "Close"}), Two("srk", "srk"),
          NoKeys, Holding(s, None, None), <<2, 1>>, 0, 0) : s \in {None, "other"}}
    \cup {Role(Two({"NewCachedKey", "Close"}, {"NewCachedKey", "Close"}), Two("ek", "ek"),
          NoKeys, Holding(None, e, None), <<2, 2>>, 0, 0) : e \in {None, "other"}}

\* An EK is opened while secrets are sealed and unsealed, with one session for both.
Competing ==
    {Role(Two({"NewCachedKey", "Close"}, {"Seal", "Unseal"}), Two("ek", "srk"), Two(NoKey, SrkKey),
          Holding("srk", t[1], None), <<t[2], 1>>, t[3], 1) : t \in {<<None, 1, 0>>, <<"other", 2, 1>>}}

\* Secrets are imported under an EK.
Fetching ==
    Role(Two({"NewCachedKey", "Close", "Import"}, {}), Two("ek", "ek"), NoKeys,
         Holding(None, "ek", None), <<1, 2>>, 3, 0)

\* A signing key is imported; both callers sign.  With one session there is none for it.
Signing(n, sessionSlots) ==
    Role(Two({"NewCachedKey", "ImportSigningKey", "Sign", "CloseSigning", "Import"}, {"Sign"}), Two("ek", "ek"), NoKeys,
         Holding(None, "ek", None), <<1, sessionSlots>>, n, 0)

AllRoles == Caching \cup Competing \cup {Storing, Quoting, Fetching, Signing(2, 2), Signing(0, 1)}

At23(v) == 23 :> v
NoValues == [p \in {} |-> 0]
Opts(sel, target) == [sel |-> sel, target |-> target, otherBank |-> FALSE]
OtherBank(o) == [o EXCEPT !.otherBank = TRUE]
SealOptions ==
    {Opts({}, NoValues), Opts({0}, At23(1)), Opts({0, 23}, NoValues), Opts({23}, At23(1)),
     OtherBank(Opts({0}, At23(1)))}
UnsealOptions ==
    {Opts({}, NoValues), Opts({0}, At23(0)), Opts({0, 23}, NoValues), Opts({23}, At23(0)),
     OtherBank(Opts({0}, At23(0)))}
Selections == {{0}, {0, 23}}
Blob(values, good) == [values |-> values, good |-> good]
Blobs == {Blob(NoValues, TRUE), Blob(NoValues, FALSE), Blob(At23(0), TRUE), Blob((0 :> 1), TRUE)}
=============================================================================
