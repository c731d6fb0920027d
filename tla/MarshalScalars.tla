--------------------------- MODULE MarshalScalars ---------------------------
(*****************************************************************************)
(* The functions of Marshal.c that take an integer, a constant, a bit        *)
(* field, a handle or an interface type from a command and put it into a     *)
(* response, in the order of the file. Those of the form As pass on to       *)
(* another function, and are compiled if the macros of Marshal_fp.h are      *)
(* not used in their place (USE_MARSHALING_DEFINES).                         *)
(*****************************************************************************)
EXTENDS MarshalForms

Scalars1 ==
    [UINT8 |-> Same(Base(1)), BYTE |-> Same(As("UINT8")), INT8 |-> Same(As("UINT8")),
     UINT16 |-> Same(Base(2)), INT16 |-> Same(As("UINT16")), UINT32 |-> Same(Base(4)),
     INT32 |-> Same(As("UINT32"))]
Scalars2 ==
    [UINT64 |-> Same(Base(8)), INT64 |-> Same(As("UINT64")),
     TPM_ALGORITHM_ID |-> Same(As("UINT32")),
     TPM_MODIFIER_INDICATOR |-> Same(As("UINT32")),
     TPM_AUTHORIZATION_SIZE |-> Same(As("UINT32")),
     TPM_PARAMETER_SIZE |-> Same(As("UINT32")), TPM_KEY_SIZE |-> Same(As("UINT16")),
     TPM_KEY_BITS |-> Same(As("UINT16")), TPM_GENERATED |-> Both(Absent, As("UINT32")),
     TPM_ALG_ID |-> Same(As("UINT16"))]
Scalars3 ==
    [TPM_ECC_CURVE |-> Both(WhenBuilt("ECC",
             Values("UINT16",
                 {TPM_ECC[n] : n \in {"NIST_P192", "NIST_P224", "NIST_P256",
                     "NIST_P384", "NIST_P521", "BN_P256", "BN_P638", "SM2_P256"}},
                 "CURVE")), WhenBuilt("ECC", As("UINT16"))),
     TPM_CC |-> Same(As("UINT32")), TPM_RC |-> Both(Absent, As("UINT32")),
     TPM_CLOCK_ADJUST |-> Both(Values("INT8",
             {TPM_CLOCK_ADJUST[n] : n \in {"COARSE_SLOWER", "MEDIUM_SLOWER",
                 "FINE_SLOWER", "NO_CHANGE", "FINE_FASTER", "MEDIUM_FASTER",
                 "COARSE_FASTER"}}, "VALUE"), Absent),
     TPM_EO |-> Both(Values("UINT16",
             {TPM_EO[n] : n \in {"EQ", "NEQ", "SIGNED_GT", "UNSIGNED_GT", "SIGNED_LT",
                 "UNSIGNED_LT", "SIGNED_GE", "UNSIGNED_GE", "SIGNED_LE", "UNSIGNED_LE",
                 "BITSET", "BITCLEAR"}}, "VALUE"), As("UINT16")),
     TPM_ST |-> Same(As("UINT16"))]
Scalars4 ==
    [TPM_SU |-> Both(Values("UINT16", {TPM_SU.CLEAR, TPM_SU.STATE_}, "VALUE"), Absent),
     TPM_SE |-> Both(
         Values("UINT8", {TPM_SE.HMAC, TPM_SE.POLICY, TPM_SE.TRIAL}, "VALUE"), Absent),
     TPM_CAP |-> Both(Values("UINT32",
             {TPM_CAP[n] : n \in {"ALGS", "HANDLES", "COMMANDS", "PP_COMMANDS",
                 "AUDIT_COMMANDS", "PCRS", "TPM_PROPERTIES", "PCR_PROPERTIES",
                 "ECC_CURVES", "AUTH_POLICIES", "VENDOR_PROPERTY"}}, "VALUE"),
         As("UINT32")),
     TPM_PT |-> Same(As("UINT32")), TPM_PT_PCR |-> Same(As("UINT32")),
     TPM_PS |-> Both(Absent, As("UINT32")), TPM_HANDLE |-> Same(As("UINT32")),
     TPM_HT |-> Same(As("UINT8"))]
Scalars5 ==
    [TPM_RH |-> Same(As("TPM_HANDLE")), TPM_HC |-> Same(As("TPM_HANDLE")),
     TPMA_ALGORITHM |-> Both(Reserved("UINT32", (4..7) \cup (11..31)), As("UINT32")),
     TPMA_OBJECT |-> Both(
         Reserved("UINT32", {0, 3} \cup (8..9) \cup (12..15) \cup (20..31)),
         As("UINT32")),
     TPMA_SESSION |-> Both(Reserved("UINT8", (3..4)), As("UINT8")),
     TPMA_LOCALITY |-> Same(As("UINT8")), TPMA_PERMANENT |-> Both(Absent, As("UINT32")),
     TPMA_STARTUP_CLEAR |-> Both(Absent, As("UINT32")),
     TPMA_MEMORY |-> Both(Absent, As("UINT32")), TPMA_CC |-> Both(Absent, As("TPM_CC")),
     TPMA_MODES |-> Both(Absent, As("UINT32"))]
Scalars6 ==
    [TPMA_X509_KEY_USAGE |-> Both(Absent, As("UINT32")),
     TPMI_YES_NO |-> Both(Values("BYTE", {0, 1}, "VALUE"), As("BYTE")),
     TPMI_DH_OBJECT |-> Both(Scalar("TPM_HANDLE", {},
             Spans({"TRANSIENT", "PERSISTENT"}), {TPM_RH.NULL}, "VALUE"),
         As("TPM_HANDLE")),
     TPMI_DH_PARENT |-> Both(Scalar("TPM_HANDLE",
             {TPM_RH.OWNER, TPM_RH.PLATFORM, TPM_RH.ENDORSEMENT},
             Spans({"TRANSIENT", "PERSISTENT"}), {TPM_RH.NULL}, "VALUE"),
         As("TPM_HANDLE")),
     TPMI_DH_PERSISTENT |-> Both(
         Scalar("TPM_HANDLE", {}, Spans({"PERSISTENT"}), {}, "VALUE"),
         As("TPM_HANDLE")),
     TPMI_DH_ENTITY |-> Both(Scalar("TPM_HANDLE",
             {TPM_RH[n] : n \in {"OWNER", "ENDORSEMENT", "PLATFORM", "LOCKOUT"}},
             Spans({"TRANSIENT", "PERSISTENT", "NV_INDEX", "PCR", "AUTH"}),
             {TPM_RH.NULL}, "VALUE"), Absent)]
Scalars7 ==
    [TPMI_DH_PCR |-> Both(
         Scalar("TPM_HANDLE", {}, Spans({"PCR"}), {TPM_RH.NULL}, "VALUE"), Absent),
     TPMI_SH_AUTH_SESSION |-> Both(Scalar("TPM_HANDLE", {},
             Spans({"HMAC_SESSION", "POLICY_SESSION"}), {TPM_RH.PW}, "VALUE"),
         As("TPM_HANDLE")),
     TPMI_SH_HMAC |-> Both(
         Scalar("TPM_HANDLE", {}, Spans({"HMAC_SESSION"}), {}, "VALUE"),
         As("TPM_HANDLE")),
     TPMI_SH_POLICY |-> Both(
         Scalar("TPM_HANDLE", {}, Spans({"POLICY_SESSION"}), {}, "VALUE"),
         As("TPM_HANDLE")),
     TPMI_DH_CONTEXT |-> Both(Scalar("TPM_HANDLE", {},
             Spans({"HMAC_SESSION", "POLICY_SESSION", "TRANSIENT"}), {}, "VALUE"),
         As("TPM_HANDLE")),
     TPMI_DH_SAVED |-> Both(Scalar("TPM_HANDLE",
             {Word(\h8000, \h0), Word(\h8000, \h1), Word(\h8000, \h2)},
             Spans({"HMAC_SESSION", "POLICY_SESSION"}), {}, "VALUE"), As("TPM_HANDLE"))]
Scalars8 ==
    [TPMI_RH_HIERARCHY |-> Both(ValuesOrNull("TPM_HANDLE",
             {TPM_RH.OWNER, TPM_RH.PLATFORM, TPM_RH.ENDORSEMENT}, TPM_RH.NULL, "VALUE"),
         As("TPM_HANDLE")),
     TPMI_RH_ENABLES |-> Both(ValuesOrNull("TPM_HANDLE",
             {TPM_RH[n] : n \in {"OWNER", "PLATFORM", "ENDORSEMENT", "PLATFORM_NV"}},
             TPM_RH.NULL, "VALUE"), As("TPM_HANDLE")),
     TPMI_RH_HIERARCHY_AUTH |-> Both(Values("TPM_HANDLE",
             {TPM_RH[n] : n \in {"OWNER", "PLATFORM", "ENDORSEMENT", "LOCKOUT"}},
             "VALUE"), Absent),
     TPMI_RH_PLATFORM |-> Both(Values("TPM_HANDLE", {TPM_RH.PLATFORM}, "VALUE"),
         Absent),
     TPMI_RH_OWNER |-> Both(
         ValuesOrNull("TPM_HANDLE", {TPM_RH.OWNER}, TPM_RH.NULL, "VALUE"), Absent)]
Scalars9 ==
    [TPMI_RH_ENDORSEMENT |-> Both(
         ValuesOrNull("TPM_HANDLE", {TPM_RH.ENDORSEMENT}, TPM_RH.NULL, "VALUE"),
         Absent),
     TPMI_RH_PROVISION |-> Both(
         Values("TPM_HANDLE", {TPM_RH.OWNER, TPM_RH.PLATFORM}, "VALUE"), Absent),
     TPMI_RH_CLEAR |-> Both(
         Values("TPM_HANDLE", {TPM_RH.LOCKOUT, TPM_RH.PLATFORM}, "VALUE"), Absent),
     TPMI_RH_NV_AUTH |-> Both(Scalar("TPM_HANDLE", {TPM_RH.PLATFORM, TPM_RH.OWNER},
             Spans({"NV_INDEX"}), {}, "VALUE"), Absent),
     TPMI_RH_LOCKOUT |-> Both(Values("TPM_HANDLE", {TPM_RH.LOCKOUT}, "VALUE"), Absent),
     TPMI_RH_NV_INDEX |-> Both(
         Scalar("TPM_HANDLE", {}, Spans({"NV_INDEX"}), {}, "VALUE"), As("TPM_HANDLE")),
     TPMI_RH_AC |-> Both(Scalar("TPM_HANDLE", {}, Spans({"AC"}), {}, "VALUE"), Absent)]
Scalars10 ==
    [TPMI_ALG_HASH |-> Both(ValuesOrNull("TPM_ALG_ID",
             Algs({"SHA1", "SHA256", "SHA384", "SHA512", "SM3_256", "SHA3_256",
                 "SHA3_384", "SHA3_512"}), ALG.NULL, "HASH"), As("TPM_ALG_ID")),
     TPMI_ALG_ASYM |-> Both(
         ValuesOrNull("TPM_ALG_ID", Algs({"RSA", "ECC"}), ALG.NULL, "ASYMMETRIC"),
         As("TPM_ALG_ID")),
     TPMI_ALG_SYM |-> Both(ValuesOrNull("TPM_ALG_ID",
             Algs({"TDES", "AES", "SM4", "CAMELLIA", "XOR"}), ALG.NULL, "SYMMETRIC"),
         As("TPM_ALG_ID"))]
Scalars11 ==
    [TPMI_ALG_SYM_OBJECT |-> Both(ValuesOrNull("TPM_ALG_ID",
             Algs({"TDES", "AES", "SM4", "CAMELLIA"}), ALG.NULL, "SYMMETRIC"),
         As("TPM_ALG_ID")),
     TPMI_ALG_SYM_MODE |-> Both(ValuesOrNull("TPM_ALG_ID",
             Algs({"CTR", "OFB", "CBC", "CFB", "ECB", "CMAC"}), ALG.NULL, "MODE"),
         As("TPM_ALG_ID")),
     TPMI_ALG_KDF |-> Both(ValuesOrNull("TPM_ALG_ID",
             Algs({"MGF1", "KDF1_SP800_56A", "KDF2", "KDF1_SP800_108"}), ALG.NULL,
             "KDF"), As("TPM_ALG_ID"))]
Scalars12 ==
    [TPMI_ALG_SIG_SCHEME |-> Both(ValuesOrNull("TPM_ALG_ID",
             Algs({"ECDAA", "RSASSA", "RSAPSS", "ECDSA", "SM2", "ECSCHNORR", "HMAC"}),
             ALG.NULL, "SCHEME"), As("TPM_ALG_ID")),
     TPMI_ECC_KEY_EXCHANGE |-> Both(WhenBuilt("ECC",
             ValuesOrNull("TPM_ALG_ID", Algs({"ECDH", "ECMQV", "SM2"}), ALG.NULL,
                 "SCHEME")), WhenBuilt("ECC", As("TPM_ALG_ID"))),
     TPMI_ST_COMMAND_TAG |-> Both(
         Values("TPM_ST", {TPM_ST.NO_SESSIONS, TPM_ST.SESSIONS}, "BAD_TAG"),
         As("TPM_ST"))]
Scalars13 ==
    [TPMI_ALG_MAC_SCHEME |-> Both(ValuesOrNull("TPM_ALG_ID",
             Algs({"CMAC", "SHA1", "SHA256", "SHA384", "SHA512", "SM3_256", "SHA3_256",
                 "SHA3_384", "SHA3_512"}), ALG.NULL, "SYMMETRIC"), As("TPM_ALG_ID")),
     TPMI_ALG_CIPHER_MODE |-> Both(ValuesOrNull("TPM_ALG_ID",
             Algs({"CTR", "OFB", "CBC", "CFB", "ECB"}), ALG.NULL, "MODE"),
         As("TPM_ALG_ID")),
     TPMS_EMPTY |-> Same(Empty)]

ScalarFunctions ==
    Scalars1 @@ Scalars2 @@ Scalars3 @@ Scalars4 @@ Scalars5 @@ Scalars6 @@
    Scalars7 @@ Scalars8 @@ Scalars9 @@ Scalars10 @@ Scalars11 @@ Scalars12 @@
    Scalars13
=============================================================================
