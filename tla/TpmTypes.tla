------------------------------ MODULE TpmTypes ------------------------------
(***************************************************************************)
(* The constants that the structures of the TPM are checked against, and   *)
(* the declarations of its structures, unions, sized buffers and attribute *)
(* words.  An array has a dimension, a member that depends on an algorithm *)
(* is declared if the algorithm is built, and a value of four bytes is a   *)
(* two's complement number.                                                *)
(***************************************************************************)
EXTENDS TLC, TpmProfile

Word(hi, lo) == (hi - 65536) * 65536 + lo

ALG == [ERROR |-> \h0, RSA |-> \h1, TDES |-> \h3, SHA |-> \h4, SHA1 |-> \h4,
    HMAC |-> \h5, AES |-> \h6, MGF1 |-> \h7, KEYEDHASH |-> \h8, XOR |-> \hA,
    SHA256 |-> \hB, SHA384 |-> \hC, SHA512 |-> \hD, NULL |-> \h10, SM3_256 |-> \h12,
    SM4 |-> \h13, RSASSA |-> \h14, RSAES |-> \h15, RSAPSS |-> \h16, OAEP |-> \h17,
    ECDSA |-> \h18, ECDH |-> \h19, ECDAA |-> \h1A, SM2 |-> \h1B, ECSCHNORR |-> \h1C,
    ECMQV |-> \h1D, KDF1_SP800_56A |-> \h20, KDF2 |-> \h21, KDF1_SP800_108 |-> \h22,
    ECC |-> \h23, SYMCIPHER |-> \h25, CAMELLIA |-> \h26, SHA3_256 |-> \h27,
    SHA3_384 |-> \h28, SHA3_512 |-> \h29, CMAC |-> \h3F, CTR |-> \h40, OFB |-> \h41,
    CBC |-> \h42, CFB |-> \h43, ECB |-> \h44]

TPM_ECC == [NONE |-> \h0, NIST_P192 |-> \h1, NIST_P224 |-> \h2, NIST_P256 |-> \h3,
    NIST_P384 |-> \h4, NIST_P521 |-> \h5, BN_P256 |-> \h10, BN_P638 |-> \h11,
    SM2_P256 |-> \h20]

TPM_CLOCK_ADJUST == [COARSE_SLOWER |-> -3, MEDIUM_SLOWER |-> -2, FINE_SLOWER |-> -1,
    NO_CHANGE |-> 0, FINE_FASTER |-> 1, MEDIUM_FASTER |-> 2, COARSE_FASTER |-> 3]

TPM_EO == [EQ |-> \h0, NEQ |-> \h1, SIGNED_GT |-> \h2, UNSIGNED_GT |-> \h3,
    SIGNED_LT |-> \h4, UNSIGNED_LT |-> \h5, SIGNED_GE |-> \h6, UNSIGNED_GE |-> \h7,
    SIGNED_LE |-> \h8, UNSIGNED_LE |-> \h9, BITSET |-> \hA, BITCLEAR |-> \hB]

TPM_ST == [RSP_COMMAND |-> \hC4, NULL |-> \h8000, NO_SESSIONS |-> \h8001,
    SESSIONS |-> \h8002, ATTEST_NV |-> \h8014, ATTEST_COMMAND_AUDIT |-> \h8015,
    ATTEST_SESSION_AUDIT |-> \h8016, ATTEST_CERTIFY |-> \h8017,
    ATTEST_QUOTE |-> \h8018, ATTEST_TIME |-> \h8019, ATTEST_CREATION |-> \h801A,
    ATTEST_NV_DIGEST |-> \h801C, CREATION |-> \h8021, VERIFIED |-> \h8022,
    AUTH_SECRET |-> \h8023, HASHCHECK |-> \h8024, AUTH_SIGNED |-> \h8025,
    FU_MANIFEST |-> \h8029]

TPM_SU == [CLEAR |-> \h0, STATE_ |-> \h1]

TPM_SE == [HMAC |-> \h0, POLICY |-> \h1, TRIAL |-> \h3]

TPM_CAP == [FIRST |-> \h0, ALGS |-> \h0, HANDLES |-> \h1, COMMANDS |-> \h2,
    PP_COMMANDS |-> \h3, AUDIT_COMMANDS |-> \h4, PCRS |-> \h5, TPM_PROPERTIES |-> \h6,
    PCR_PROPERTIES |-> \h7, ECC_CURVES |-> \h8, AUTH_POLICIES |-> \h9, LAST |-> \h9,
    VENDOR_PROPERTY |-> \h100]

TPM_HT == [PCR |-> \h0, NV_INDEX |-> \h1, HMAC_SESSION |-> \h2,
    LOADED_SESSION |-> \h2, POLICY_SESSION |-> \h3, SAVED_SESSION |-> \h3,
    PERMANENT |-> \h40, TRANSIENT |-> \h80, PERSISTENT |-> \h81, AC |-> \h90]

TPM_RH == [FIRST |-> \h40000000, SRK |-> \h40000000, OWNER |-> \h40000001,
    REVOKE |-> \h40000002, TRANSPORT |-> \h40000003, OPERATOR |-> \h40000004,
    ADMIN |-> \h40000005, EK |-> \h40000006, NULL |-> \h40000007,
    UNASSIGNED |-> \h40000008, PW |-> \h40000009, LOCKOUT |-> \h4000000A,
    ENDORSEMENT |-> \h4000000B, PLATFORM |-> \h4000000C, PLATFORM_NV |-> \h4000000D,
    AUTH_00 |-> \h40000010, AUTH_FF |-> \h4000010F, LAST |-> \h4000010F]

HR(type) == IF type < 128 THEN type * 2^24 ELSE (type - 256) * 2^24
FirstHandle == [PCR |-> HR(TPM_HT.PCR), HMAC_SESSION |-> HR(TPM_HT.HMAC_SESSION),
          POLICY_SESSION |-> HR(TPM_HT.POLICY_SESSION), TRANSIENT |-> HR(TPM_HT.TRANSIENT),
          PERSISTENT |-> HR(TPM_HT.PERSISTENT), NV_INDEX |-> HR(TPM_HT.NV_INDEX),
          AC |-> HR(TPM_HT.AC), AUTH |-> TPM_RH.AUTH_00]
LastHandle == [PCR |-> FirstHandle.PCR + IMPLEMENTATION_PCR - 1,
         HMAC_SESSION |-> FirstHandle.HMAC_SESSION + MAX_ACTIVE_SESSIONS - 1,
         POLICY_SESSION |-> FirstHandle.POLICY_SESSION + MAX_ACTIVE_SESSIONS - 1,
         TRANSIENT |-> FirstHandle.TRANSIENT + MAX_LOADED_OBJECTS - 1,
         PERSISTENT |-> FirstHandle.PERSISTENT + \hFFFFFF,
         NV_INDEX |-> FirstHandle.NV_INDEX + \hFFFFFF, AC |-> FirstHandle.AC + \hFFFF,
         AUTH |-> TPM_RH.AUTH_FF]

TPM_AT == [ANY |-> \h0, ERROR |-> \h1, PV1 |-> \h2, VEND |-> Word(\h8000, \h0)]

\* A dimension: a number, the size of a type, or as many of a type as fit in the
\* data of a capability.
N(n) == [n |-> n, of |-> "", cap |-> FALSE]
SizeOf(type) == [n |-> 1, of |-> type, cap |-> FALSE]
CapFit(type) == [n |-> 1, of |-> type, cap |-> TRUE]

\* A member of a type, an array of a type, a member that only some builds have.
F(field, type) == [field |-> field, type |-> type, dim |-> N(0), array |-> FALSE]
A(field, type, dim) == [field |-> field, type |-> type, dim |-> dim, array |-> TRUE]
Struct(members) == [kind |-> "struct", members |-> members]
Buffer(field, dim) == Struct(<<F("size", "UINT16"), A(field, "BYTE", dim)>>)
If(alg, member) == IF alg \in Algorithms THEN {member} ELSE {}
Union(members) == [kind |-> "union", members |-> UNION members]
Bits(base, fields) == [kind |-> "bits", base |-> base, bits |-> fields]
Named(base, names) == [n \in names |-> [kind |-> "alias", base |-> base]]
Plain(bytes) == [kind |-> "plain", bytes |-> bytes]

MAX_CAP_ALGS == CapFit("TPMS_ALG_PROPERTY")
MAX_CAP_HANDLES == CapFit("TPM_HANDLE")
MAX_CAP_CC == CapFit("TPM_CC")
MAX_TPM_PROPERTIES == CapFit("TPMS_TAGGED_PROPERTY")
MAX_PCR_PROPERTIES == CapFit("TPMS_TAGGED_PCR_SELECT")
MAX_ECC_CURVES == CapFit("TPM_ECC_CURVE")
MAX_TAGGED_POLICIES == CapFit("TPMS_TAGGED_POLICY")
MAX_AC_CAPABILITIES == CapFit("TPMS_AC_OUTPUT")

-----------------------------------------------------------------------------
(* The declarations, in the order of the file.                             *)
Declared1 ==
    [TPMS_ALGORITHM_DESCRIPTION |-> Struct(<<F("alg", "TPM_ALG_ID"),
         F("attributes", "TPMA_ALGORITHM")>>),
     TPMU_HA |-> Union({If("SHA1", A("sha1", "BYTE", N(DigestSize.SHA1))),
         If("SHA256", A("sha256", "BYTE", N(DigestSize.SHA256))),
         If("SHA384", A("sha384", "BYTE", N(DigestSize.SHA384))),
         If("SHA512", A("sha512", "BYTE", N(DigestSize.SHA512))),
         If("SM3_256", A("sm3_256", "BYTE", N(DigestSize.SM3_256))),
         If("SHA3_256", A("sha3_256", "BYTE", N(DigestSize.SHA3_256))),
         If("SHA3_384", A("sha3_384", "BYTE", N(DigestSize.SHA3_384))),
         If("SHA3_512", A("sha3_512", "BYTE", N(DigestSize.SHA3_512)))}),
     TPMT_HA |-> Struct(<<F("hashAlg", "TPMI_ALG_HASH"), F("digest", "TPMU_HA")>>),
     TPM2B_DIGEST |-> Buffer("buffer", SizeOf("TPMU_HA")),
     TPM2B_DATA |-> Buffer("buffer", SizeOf("TPMT_HA")),
     TPM2B_EVENT |-> Buffer("buffer", N(1024)),
     TPM2B_MAX_BUFFER |-> Buffer("buffer", N(MAX_DIGEST_BUFFER))]
    @@ Named("BYTE", {"TPMI_YES_NO", "TPMS_EMPTY"})
    @@ Named("TPM_HANDLE", {"TPMI_DH_OBJECT", "TPMI_DH_PARENT", "TPMI_DH_PERSISTENT",
        "TPMI_DH_ENTITY", "TPMI_DH_PCR", "TPMI_SH_AUTH_SESSION", "TPMI_SH_HMAC",
        "TPMI_SH_POLICY", "TPMI_DH_CONTEXT", "TPMI_DH_SAVED", "TPMI_RH_HIERARCHY",
        "TPMI_RH_ENABLES", "TPMI_RH_HIERARCHY_AUTH", "TPMI_RH_PLATFORM",
        "TPMI_RH_OWNER", "TPMI_RH_ENDORSEMENT", "TPMI_RH_PROVISION", "TPMI_RH_CLEAR",
        "TPMI_RH_NV_AUTH", "TPMI_RH_LOCKOUT", "TPMI_RH_NV_INDEX", "TPMI_RH_AC"})
    @@ Named("TPM_ALG_ID", {"TPMI_ALG_HASH", "TPMI_ALG_ASYM", "TPMI_ALG_SYM",
        "TPMI_ALG_SYM_OBJECT", "TPMI_ALG_SYM_MODE", "TPMI_ALG_KDF",
        "TPMI_ALG_SIG_SCHEME", "TPMI_ECC_KEY_EXCHANGE", "TPMI_ALG_MAC_SCHEME",
        "TPMI_ALG_CIPHER_MODE"})
    @@ Named("TPM_ST", {"TPMI_ST_COMMAND_TAG"})
    @@ Named("TPM2B_DIGEST", {"TPM2B_NONCE", "TPM2B_AUTH", "TPM2B_OPERAND"})
Declared2 ==
    [TPM2B_MAX_NV_BUFFER |-> Buffer("buffer", N(MAX_NV_BUFFER_SIZE)),
     TPM2B_TIMEOUT |-> Buffer("buffer", SizeOf("UINT64")),
     TPM2B_IV |-> Buffer("buffer", N(MAX_SYM_BLOCK_SIZE)),
     TPMU_NAME |-> Union({{F("digest", "TPMT_HA")}, {F("handle", "TPM_HANDLE")}}),
     TPM2B_NAME |-> Buffer("name", SizeOf("TPMU_NAME")),
     TPMS_PCR_SELECT |-> Struct(<<F("sizeofSelect", "UINT8"),
         A("pcrSelect", "BYTE", N(PCR_SELECT_MAX))>>),
     TPMS_PCR_SELECTION |-> Struct(<<F("hash", "TPMI_ALG_HASH"),
         F("sizeofSelect", "UINT8"), A("pcrSelect", "BYTE", N(PCR_SELECT_MAX))>>),
     TPMT_TK_CREATION |-> Struct(<<F("tag", "TPM_ST"),
         F("hierarchy", "TPMI_RH_HIERARCHY"), F("digest", "TPM2B_DIGEST")>>),
     TPMT_TK_VERIFIED |-> Struct(<<F("tag", "TPM_ST"),
         F("hierarchy", "TPMI_RH_HIERARCHY"), F("digest", "TPM2B_DIGEST")>>),
     TPMT_TK_AUTH |-> Struct(<<F("tag", "TPM_ST"), F("hierarchy", "TPMI_RH_HIERARCHY"),
         F("digest", "TPM2B_DIGEST")>>),
     TPMT_TK_HASHCHECK |-> Struct(<<F("tag", "TPM_ST"),
         F("hierarchy", "TPMI_RH_HIERARCHY"), F("digest", "TPM2B_DIGEST")>>),
     TPMS_ALG_PROPERTY |-> Struct(<<F("alg", "TPM_ALG_ID"),
         F("algProperties", "TPMA_ALGORITHM")>>),
     TPMS_TAGGED_PROPERTY |-> Struct(<<F("property", "TPM_PT"), F("value", "UINT32")>>),
     TPMS_TAGGED_PCR_SELECT |-> Struct(<<F("tag", "TPM_PT_PCR"),
         F("sizeofSelect", "UINT8"), A("pcrSelect", "BYTE", N(PCR_SELECT_MAX))>>),
     TPMS_TAGGED_POLICY |-> Struct(<<F("handle", "TPM_HANDLE"),
         F("policyHash", "TPMT_HA")>>),
     TPML_CC |-> Struct(<<F("count", "UINT32"),
         A("commandCodes", "TPM_CC", MAX_CAP_CC)>>),
     TPML_CCA |-> Struct(<<F("count", "UINT32"),
         A("commandAttributes", "TPMA_CC", MAX_CAP_CC)>>),
     TPML_ALG |-> Struct(<<F("count", "UINT32"),
         A("algorithms", "TPM_ALG_ID", N(MAX_ALG_LIST_SIZE))>>),
     TPML_HANDLE |-> Struct(<<F("count", "UINT32"),
         A("handle", "TPM_HANDLE", MAX_CAP_HANDLES)>>),
     TPML_DIGEST |-> Struct(<<F("count", "UINT32"),
         A("digests", "TPM2B_DIGEST", N(8))>>),
     TPML_DIGEST_VALUES |-> Struct(<<F("count", "UINT32"),
         A("digests", "TPMT_HA", N(HASH_COUNT))>>),
     TPML_PCR_SELECTION |-> Struct(<<F("count", "UINT32"),
         A("pcrSelections", "TPMS_PCR_SELECTION", N(HASH_COUNT))>>),
     TPML_ALG_PROPERTY |-> Struct(<<F("count", "UINT32"),
         A("algProperties", "TPMS_ALG_PROPERTY", MAX_CAP_ALGS)>>),
     TPML_TAGGED_TPM_PROPERTY |-> Struct(<<F("count", "UINT32"),
         A("tpmProperty", "TPMS_TAGGED_PROPERTY", MAX_TPM_PROPERTIES)>>),
     TPML_TAGGED_PCR_PROPERTY |-> Struct(<<F("count", "UINT32"),
         A("pcrProperty", "TPMS_TAGGED_PCR_SELECT", MAX_PCR_PROPERTIES)>>),
     TPML_ECC_CURVE |-> Struct(<<F("count", "UINT32"),
         A("eccCurves", "TPM_ECC_CURVE", MAX_ECC_CURVES)>>)]
Declared3 ==
    [TPML_TAGGED_POLICY |-> Struct(<<F("count", "UINT32"),
         A("policies", "TPMS_TAGGED_POLICY", MAX_TAGGED_POLICIES)>>),
     TPMU_CAPABILITIES |-> Union({{F("algorithms", "TPML_ALG_PROPERTY")},
         {F("handles", "TPML_HANDLE")}, {F("command", "TPML_CCA")},
         {F("ppCommands", "TPML_CC")}, {F("auditCommands", "TPML_CC")},
         {F("assignedPCR", "TPML_PCR_SELECTION")},
         {F("tpmProperties", "TPML_TAGGED_TPM_PROPERTY")},
         {F("pcrProperties", "TPML_TAGGED_PCR_PROPERTY")},
         If("ECC", F("eccCurves", "TPML_ECC_CURVE")),
         {F("authPolicies", "TPML_TAGGED_POLICY")}}),
     TPMS_CAPABILITY_DATA |-> Struct(<<F("capability", "TPM_CAP"),
         F("data", "TPMU_CAPABILITIES")>>),
     TPMS_CLOCK_INFO |-> Struct(<<F("clock", "UINT64"), F("resetCount", "UINT32"),
         F("restartCount", "UINT32"), F("safe", "TPMI_YES_NO")>>),
     TPMS_TIME_INFO |-> Struct(<<F("time", "UINT64"),
         F("clockInfo", "TPMS_CLOCK_INFO")>>),
     TPMS_TIME_ATTEST_INFO |-> Struct(<<F("time", "TPMS_TIME_INFO"),
         F("firmwareVersion", "UINT64")>>),
     TPMS_CERTIFY_INFO |-> Struct(<<F("name", "TPM2B_NAME"),
         F("qualifiedName", "TPM2B_NAME")>>),
     TPMS_QUOTE_INFO |-> Struct(<<F("pcrSelect", "TPML_PCR_SELECTION"),
         F("pcrDigest", "TPM2B_DIGEST")>>),
     TPMS_COMMAND_AUDIT_INFO |-> Struct(<<F("auditCounter", "UINT64"),
         F("digestAlg", "TPM_ALG_ID"), F("auditDigest", "TPM2B_DIGEST"),
         F("commandDigest", "TPM2B_DIGEST")>>),
     TPMS_SESSION_AUDIT_INFO |-> Struct(<<F("exclusiveSession", "TPMI_YES_NO"),
         F("sessionDigest", "TPM2B_DIGEST")>>),
     TPMS_CREATION_INFO |-> Struct(<<F("objectName", "TPM2B_NAME"),
         F("creationHash", "TPM2B_DIGEST")>>),
     TPMS_NV_CERTIFY_INFO |-> Struct(<<F("indexName", "TPM2B_NAME"),
         F("offset", "UINT16"), F("nvContents", "TPM2B_MAX_NV_BUFFER")>>),
     TPMS_NV_DIGEST_CERTIFY_INFO |-> Struct(<<F("indexName", "TPM2B_NAME"),
         F("nvDigest", "TPM2B_DIGEST")>>),
     TPMU_ATTEST |-> Union({{F("certify", "TPMS_CERTIFY_INFO")},
         {F("creation", "TPMS_CREATION_INFO")}, {F("quote", "TPMS_QUOTE_INFO")},
         {F("commandAudit", "TPMS_COMMAND_AUDIT_INFO")},
         {F("sessionAudit", "TPMS_SESSION_AUDIT_INFO")},
         {F("time", "TPMS_TIME_ATTEST_INFO")}, {F("nv", "TPMS_NV_CERTIFY_INFO")},
         {F("nvDigest", "TPMS_NV_DIGEST_CERTIFY_INFO")}}),
     TPMS_ATTEST |-> Struct(<<F("magic", "TPM_GENERATED"), F("type", "TPMI_ST_ATTEST"),
         F("qualifiedSigner", "TPM2B_NAME"), F("extraData", "TPM2B_DATA"),
         F("clockInfo", "TPMS_CLOCK_INFO"), F("firmwareVersion", "UINT64"),
         F("attested", "TPMU_ATTEST")>>),
     TPM2B_ATTEST |-> Buffer("attestationData", SizeOf("TPMS_ATTEST")),
     TPMS_AUTH_COMMAND |-> Struct(<<F("sessionHandle", "TPMI_SH_AUTH_SESSION"),
         F("nonce", "TPM2B_NONCE"), F("sessionAttributes", "TPMA_SESSION"),
         F("hmac", "TPM2B_AUTH")>>),
     TPMS_AUTH_RESPONSE |-> Struct(<<F("nonce", "TPM2B_NONCE"),
         F("sessionAttributes", "TPMA_SESSION"), F("hmac", "TPM2B_AUTH")>>),
     TPMU_SYM_KEY_BITS |-> Union({If("TDES", F("tdes", "TPMI_TDES_KEY_BITS")),
         If("AES", F("aes", "TPMI_AES_KEY_BITS")),
         If("SM4", F("sm4", "TPMI_SM4_KEY_BITS")),
         If("CAMELLIA", F("camellia", "TPMI_CAMELLIA_KEY_BITS")),
         {F("sym", "TPM_KEY_BITS")}, If("XOR", F("xor", "TPMI_ALG_HASH"))})]
    @@ Named("TPM_KEY_BITS", {"TPMI_TDES_KEY_BITS", "TPMI_AES_KEY_BITS",
        "TPMI_SM4_KEY_BITS", "TPMI_CAMELLIA_KEY_BITS"})
Declared4 ==
    [TPMU_SYM_MODE |-> Union({If("TDES", F("tdes", "TPMI_ALG_SYM_MODE")),
         If("AES", F("aes", "TPMI_ALG_SYM_MODE")),
         If("SM4", F("sm4", "TPMI_ALG_SYM_MODE")),
         If("CAMELLIA", F("camellia", "TPMI_ALG_SYM_MODE")),
         {F("sym", "TPMI_ALG_SYM_MODE")}}),
     TPMT_SYM_DEF |-> Struct(<<F("algorithm", "TPMI_ALG_SYM"),
         F("keyBits", "TPMU_SYM_KEY_BITS"), F("mode", "TPMU_SYM_MODE")>>),
     TPMT_SYM_DEF_OBJECT |-> Struct(<<F("algorithm", "TPMI_ALG_SYM_OBJECT"),
         F("keyBits", "TPMU_SYM_KEY_BITS"), F("mode", "TPMU_SYM_MODE")>>),
     TPM2B_SYM_KEY |-> Buffer("buffer", N(MAX_SYM_KEY_BYTES)),
     TPMS_SYMCIPHER_PARMS |-> Struct(<<F("sym", "TPMT_SYM_DEF_OBJECT")>>),
     TPM2B_LABEL |-> Buffer("buffer", N(LABEL_MAX_BUFFER)),
     TPMS_DERIVE |-> Struct(<<F("label", "TPM2B_LABEL"), F("context", "TPM2B_LABEL")>>),
     TPM2B_DERIVE |-> Buffer("buffer", SizeOf("TPMS_DERIVE")),
     TPMU_SENSITIVE_CREATE |-> Union({{A("create", "BYTE", N(MAX_SYM_DATA))},
         {F("derive", "TPMS_DERIVE")}}),
     TPM2B_SENSITIVE_DATA |-> Buffer("buffer", SizeOf("TPMU_SENSITIVE_CREATE")),
     TPMS_SENSITIVE_CREATE |-> Struct(<<F("userAuth", "TPM2B_AUTH"),
         F("data", "TPM2B_SENSITIVE_DATA")>>),
     TPM2B_SENSITIVE_CREATE |-> Struct(<<F("size", "UINT16"),
         F("sensitive", "TPMS_SENSITIVE_CREATE")>>),
     TPMS_SCHEME_HASH |-> Struct(<<F("hashAlg", "TPMI_ALG_HASH")>>),
     TPMS_SCHEME_ECDAA |-> Struct(<<F("hashAlg", "TPMI_ALG_HASH"),
         F("count", "UINT16")>>),
     TPMS_SCHEME_XOR |-> Struct(<<F("hashAlg", "TPMI_ALG_HASH"),
         F("kdf", "TPMI_ALG_KDF")>>),
     TPMU_SCHEME_KEYEDHASH |-> Union({If("HMAC", F("hmac", "TPMS_SCHEME_HMAC")),
         If("XOR", F("xor", "TPMS_SCHEME_XOR"))}),
     TPMT_KEYEDHASH_SCHEME |-> Struct(<<F("scheme", "TPMI_ALG_KEYEDHASH_SCHEME"),
         F("details", "TPMU_SCHEME_KEYEDHASH")>>)]
    @@ Named("TPM_ALG_ID", {"TPMI_ALG_KEYEDHASH_SCHEME"})
    @@ Named("TPMS_SCHEME_HASH", {"TPMS_SCHEME_HMAC"})
    @@ Named("TPMS_SCHEME_HASH", {"TPMS_SIG_SCHEME_RSASSA", "TPMS_SIG_SCHEME_RSAPSS",
        "TPMS_SIG_SCHEME_ECDSA", "TPMS_SIG_SCHEME_SM2", "TPMS_SIG_SCHEME_ECSCHNORR"})
    @@ Named("TPMS_SCHEME_ECDAA", {"TPMS_SIG_SCHEME_ECDAA"})
Declared5 ==
    [TPMU_SIG_SCHEME |-> Union({If("ECC", F("ecdaa", "TPMS_SIG_SCHEME_ECDAA")),
         If("RSASSA", F("rsassa", "TPMS_SIG_SCHEME_RSASSA")),
         If("RSAPSS", F("rsapss", "TPMS_SIG_SCHEME_RSAPSS")),
         If("ECDSA", F("ecdsa", "TPMS_SIG_SCHEME_ECDSA")),
         If("SM2", F("sm2", "TPMS_SIG_SCHEME_SM2")),
         If("ECSCHNORR", F("ecschnorr", "TPMS_SIG_SCHEME_ECSCHNORR")),
         If("HMAC", F("hmac", "TPMS_SCHEME_HMAC")), {F("any", "TPMS_SCHEME_HASH")}}),
     TPMT_SIG_SCHEME |-> Struct(<<F("scheme", "TPMI_ALG_SIG_SCHEME"),
         F("details", "TPMU_SIG_SCHEME")>>),
     TPMU_KDF_SCHEME |-> Union({If("MGF1", F("mgf1", "TPMS_SCHEME_MGF1")),
         If("KDF1_SP800_56A", F("kdf1_sp800_56a", "TPMS_SCHEME_KDF1_SP800_56A")),
         If("KDF2", F("kdf2", "TPMS_SCHEME_KDF2")),
         If("KDF1_SP800_108", F("kdf1_sp800_108", "TPMS_SCHEME_KDF1_SP800_108"))}),
     TPMT_KDF_SCHEME |-> Struct(<<F("scheme", "TPMI_ALG_KDF"),
         F("details", "TPMU_KDF_SCHEME")>>),
     TPMU_ASYM_SCHEME |-> Union({If("ECDH", F("ecdh", "TPMS_KEY_SCHEME_ECDH")),
         If("ECMQV", F("ecmqv", "TPMS_KEY_SCHEME_ECMQV")),
         If("ECC", F("ecdaa", "TPMS_SIG_SCHEME_ECDAA")),
         If("RSASSA", F("rsassa", "TPMS_SIG_SCHEME_RSASSA")),
         If("RSAPSS", F("rsapss", "TPMS_SIG_SCHEME_RSAPSS")),
         If("ECDSA", F("ecdsa", "TPMS_SIG_SCHEME_ECDSA")),
         If("SM2", F("sm2", "TPMS_SIG_SCHEME_SM2")),
         If("ECSCHNORR", F("ecschnorr", "TPMS_SIG_SCHEME_ECSCHNORR")),
         If("RSAES", F("rsaes", "TPMS_ENC_SCHEME_RSAES")),
         If("OAEP", F("oaep", "TPMS_ENC_SCHEME_OAEP")),
         {F("anySig", "TPMS_SCHEME_HASH")}}),
     TPMT_ASYM_SCHEME |-> Struct(<<F("scheme", "TPMI_ALG_ASYM_SCHEME"),
         F("details", "TPMU_ASYM_SCHEME")>>),
     TPMT_RSA_SCHEME |-> Struct(<<F("scheme", "TPMI_ALG_RSA_SCHEME"),
         F("details", "TPMU_ASYM_SCHEME")>>),
     TPMT_RSA_DECRYPT |-> Struct(<<F("scheme", "TPMI_ALG_RSA_DECRYPT"),
         F("details", "TPMU_ASYM_SCHEME")>>),
     TPM2B_PUBLIC_KEY_RSA |-> Buffer("buffer", N(MAX_RSA_KEY_BYTES)),
     TPM2B_PRIVATE_KEY_RSA |-> Buffer("buffer", N(RSA_PRIVATE_SIZE)),
     TPM2B_ECC_PARAMETER |-> Buffer("buffer", N(MAX_ECC_KEY_BYTES)),
     TPMS_ECC_POINT |-> Struct(<<F("x", "TPM2B_ECC_PARAMETER"),
         F("y", "TPM2B_ECC_PARAMETER")>>)]
    @@ Named("TPMS_SCHEME_HASH", {"TPMS_ENC_SCHEME_OAEP", "TPMS_KEY_SCHEME_ECDH",
        "TPMS_KEY_SCHEME_ECMQV", "TPMS_SCHEME_MGF1", "TPMS_SCHEME_KDF1_SP800_56A",
        "TPMS_SCHEME_KDF2", "TPMS_SCHEME_KDF1_SP800_108"})
    @@ Named("TPMS_EMPTY", {"TPMS_ENC_SCHEME_RSAES"})
Declared6 ==
    [TPM2B_ECC_POINT |-> Struct(<<F("size", "UINT16"), F("point", "TPMS_ECC_POINT")>>),
     TPMT_ECC_SCHEME |-> Struct(<<F("scheme", "TPMI_ALG_ECC_SCHEME"),
         F("details", "TPMU_ASYM_SCHEME")>>),
     TPMS_ALGORITHM_DETAIL_ECC |-> Struct(<<F("curveID", "TPM_ECC_CURVE"),
         F("keySize", "UINT16"), F("kdf", "TPMT_KDF_SCHEME"),
         F("sign", "TPMT_ECC_SCHEME"), F("p", "TPM2B_ECC_PARAMETER"),
         F("a", "TPM2B_ECC_PARAMETER"), F("b", "TPM2B_ECC_PARAMETER"),
         F("gX", "TPM2B_ECC_PARAMETER"), F("gY", "TPM2B_ECC_PARAMETER"),
         F("n", "TPM2B_ECC_PARAMETER"), F("h", "TPM2B_ECC_PARAMETER")>>),
     TPMS_SIGNATURE_RSA |-> Struct(<<F("hash", "TPMI_ALG_HASH"),
         F("sig", "TPM2B_PUBLIC_KEY_RSA")>>),
     TPMS_SIGNATURE_ECC |-> Struct(<<F("hash", "TPMI_ALG_HASH"),
         F("signatureR", "TPM2B_ECC_PARAMETER"),
         F("signatureS", "TPM2B_ECC_PARAMETER")>>),
     TPMU_SIGNATURE |-> Union({If("ECC", F("ecdaa", "TPMS_SIGNATURE_ECDAA")),
         If("RSA", F("rsassa", "TPMS_SIGNATURE_RSASSA")),
         If("RSA", F("rsapss", "TPMS_SIGNATURE_RSAPSS")),
         If("ECC", F("ecdsa", "TPMS_SIGNATURE_ECDSA")),
         If("ECC", F("sm2", "TPMS_SIGNATURE_SM2")),
         If("ECC", F("ecschnorr", "TPMS_SIGNATURE_ECSCHNORR")),
         If("HMAC", F("hmac", "TPMT_HA")), {F("any", "TPMS_SCHEME_HASH")}}),
     TPMT_SIGNATURE |-> Struct(<<F("sigAlg", "TPMI_ALG_SIG_SCHEME"),
         F("signature", "TPMU_SIGNATURE")>>),
     TPMU_ENCRYPTED_SECRET |-> Union({
         If("ECC", A("ecc", "BYTE", SizeOf("TPMS_ECC_POINT"))),
         If("RSA", A("rsa", "BYTE", N(MAX_RSA_KEY_BYTES))),
         If("SYMCIPHER", A("symmetric", "BYTE", SizeOf("TPM2B_DIGEST"))),
         If("KEYEDHASH", A("keyedHash", "BYTE", SizeOf("TPM2B_DIGEST")))}),
     TPM2B_ENCRYPTED_SECRET |-> Buffer("secret", SizeOf("TPMU_ENCRYPTED_SECRET")),
     TPMU_PUBLIC_ID |-> Union({If("KEYEDHASH", F("keyedHash", "TPM2B_DIGEST")),
         If("SYMCIPHER", F("sym", "TPM2B_DIGEST")),
         If("RSA", F("rsa", "TPM2B_PUBLIC_KEY_RSA")),
         If("ECC", F("ecc", "TPMS_ECC_POINT")), {F("derive", "TPMS_DERIVE")}}),
     TPMS_KEYEDHASH_PARMS |-> Struct(<<F("scheme", "TPMT_KEYEDHASH_SCHEME")>>),
     TPMS_ASYM_PARMS |-> Struct(<<F("symmetric", "TPMT_SYM_DEF_OBJECT"),
         F("scheme", "TPMT_ASYM_SCHEME")>>),
     TPMS_RSA_PARMS |-> Struct(<<F("symmetric", "TPMT_SYM_DEF_OBJECT"),
         F("scheme", "TPMT_RSA_SCHEME"), F("keyBits", "TPMI_RSA_KEY_BITS"),
         F("exponent", "UINT32")>>),
     TPMS_ECC_PARMS |-> Struct(<<F("symmetric", "TPMT_SYM_DEF_OBJECT"),
         F("scheme", "TPMT_ECC_SCHEME"), F("curveID", "TPMI_ECC_CURVE"),
         F("kdf", "TPMT_KDF_SCHEME")>>)]
    @@ Named("TPM_ALG_ID", {"TPMI_ALG_ECC_SCHEME"})
    @@ Named("TPM_ECC_CURVE", {"TPMI_ECC_CURVE"})
    @@ Named("TPMS_SIGNATURE_RSA", {"TPMS_SIGNATURE_RSASSA", "TPMS_SIGNATURE_RSAPSS"})
    @@ Named("TPMS_SIGNATURE_ECC", {"TPMS_SIGNATURE_ECDAA", "TPMS_SIGNATURE_ECDSA",
        "TPMS_SIGNATURE_SM2", "TPMS_SIGNATURE_ECSCHNORR"})
Declared7 ==
    [TPMU_PUBLIC_PARMS |-> Union({
         If("KEYEDHASH", F("keyedHashDetail", "TPMS_KEYEDHASH_PARMS")),
         If("SYMCIPHER", F("symDetail", "TPMS_SYMCIPHER_PARMS")),
         If("RSA", F("rsaDetail", "TPMS_RSA_PARMS")),
         If("ECC", F("eccDetail", "TPMS_ECC_PARMS")),
         {F("asymDetail", "TPMS_ASYM_PARMS")}}),
     TPMT_PUBLIC_PARMS |-> Struct(<<F("type", "TPMI_ALG_PUBLIC"),
         F("parameters", "TPMU_PUBLIC_PARMS")>>),
     TPMT_PUBLIC |-> Struct(<<F("type", "TPMI_ALG_PUBLIC"),
         F("nameAlg", "TPMI_ALG_HASH"), F("objectAttributes", "TPMA_OBJECT"),
         F("authPolicy", "TPM2B_DIGEST"), F("parameters", "TPMU_PUBLIC_PARMS"),
         F("unique", "TPMU_PUBLIC_ID")>>),
     TPM2B_PUBLIC |-> Struct(<<F("size", "UINT16"), F("publicArea", "TPMT_PUBLIC")>>),
     TPM2B_TEMPLATE |-> Buffer("buffer", SizeOf("TPMT_PUBLIC")),
     TPM2B_PRIVATE_VENDOR_SPECIFIC |-> Buffer("buffer",
         N(PRIVATE_VENDOR_SPECIFIC_BYTES)),
     TPMU_SENSITIVE_COMPOSITE |-> Union({If("RSA", F("rsa", "TPM2B_PRIVATE_KEY_RSA")),
         If("ECC", F("ecc", "TPM2B_ECC_PARAMETER")),
         If("KEYEDHASH", F("bits", "TPM2B_SENSITIVE_DATA")),
         If("SYMCIPHER", F("sym", "TPM2B_SYM_KEY")),
         {F("any", "TPM2B_PRIVATE_VENDOR_SPECIFIC")}}),
     TPMT_SENSITIVE |-> Struct(<<F("sensitiveType", "TPMI_ALG_PUBLIC"),
         F("authValue", "TPM2B_AUTH"), F("seedValue", "TPM2B_DIGEST"),
         F("sensitive", "TPMU_SENSITIVE_COMPOSITE")>>),
     TPM2B_SENSITIVE |-> Struct(<<F("size", "UINT16"),
         F("sensitiveArea", "TPMT_SENSITIVE")>>),
     PRIVATE |-> Struct(<<F("integrityOuter", "TPM2B_DIGEST"),
         F("integrityInner", "TPM2B_DIGEST"), F("sensitive", "TPM2B_SENSITIVE")>>),
     TPM2B_PRIVATE |-> Buffer("buffer", SizeOf("PRIVATE")),
     TPMS_ID_OBJECT |-> Struct(<<F("integrityHMAC", "TPM2B_DIGEST"),
         F("encIdentity", "TPM2B_DIGEST")>>),
     TPM2B_ID_OBJECT |-> Buffer("credential", SizeOf("TPMS_ID_OBJECT")),
     TPMS_NV_PIN_COUNTER_PARAMETERS |-> Struct(<<F("pinCount", "UINT32"),
         F("pinLimit", "UINT32")>>)]
Declared8 ==
    [TPMA_NV |-> Bits("UINT32", (0..7) \cup (10..19) \cup (25..31)),
     TPMS_NV_PUBLIC |-> Struct(<<F("nvIndex", "TPMI_RH_NV_INDEX"),
         F("nameAlg", "TPMI_ALG_HASH"), F("attributes", "TPMA_NV"),
         F("authPolicy", "TPM2B_DIGEST"), F("dataSize", "UINT16")>>),
     TPM2B_NV_PUBLIC |-> Struct(<<F("size", "UINT16"),
         F("nvPublic", "TPMS_NV_PUBLIC")>>),
     TPM2B_CONTEXT_SENSITIVE |-> Buffer("buffer", N(MAX_CONTEXT_SIZE)),
     TPMS_CONTEXT_DATA |-> Struct(<<F("integrity", "TPM2B_DIGEST"),
         F("encrypted", "TPM2B_CONTEXT_SENSITIVE")>>),
     TPM2B_CONTEXT_DATA |-> Buffer("buffer", SizeOf("TPMS_CONTEXT_DATA")),
     TPMS_CONTEXT |-> Struct(<<F("sequence", "UINT64"),
         F("savedHandle", "TPMI_DH_SAVED"), F("hierarchy", "TPMI_RH_HIERARCHY"),
         F("contextBlob", "TPM2B_CONTEXT_DATA")>>),
     TPMS_CREATION_DATA |-> Struct(<<F("pcrSelect", "TPML_PCR_SELECTION"),
         F("pcrDigest", "TPM2B_DIGEST"), F("locality", "TPMA_LOCALITY"),
         F("parentNameAlg", "TPM_ALG_ID"), F("parentName", "TPM2B_NAME"),
         F("parentQualifiedName", "TPM2B_NAME"), F("outsideInfo", "TPM2B_DATA")>>),
     TPM2B_CREATION_DATA |-> Struct(<<F("size", "UINT16"),
         F("creationData", "TPMS_CREATION_DATA")>>),
     TPMS_AC_OUTPUT |-> Struct(<<F("tag", "TPM_AT"), F("data", "UINT32")>>),
     TPML_AC_CAPABILITIES |-> Struct(<<F("count", "UINT32"),
         A("acCapabilities", "TPMS_AC_OUTPUT", MAX_AC_CAPABILITIES)>>)]

TPMA_ALGORITHM == Bits("UINT32", (0..3) \cup (8..10))
TPMA_OBJECT == Bits("UINT32", (1..2) \cup (4..7) \cup (10..11) \cup (16..19))
TPMA_SESSION == Bits("UINT8", (0..2) \cup (5..7))
TPMA_LOCALITY == Bits("UINT8", 0..7)
TPMA_PERMANENT == Bits("UINT32", (0..2) \cup (8..10))
TPMA_STARTUP_CLEAR == Bits("UINT32", {31} \cup (0..3))
TPMA_MEMORY == Bits("UINT32", 0..2)
TPMA_CC == Bits("UINT32", (0..15) \cup (22..29))
TPMA_MODES == Bits("UINT32", {0})
TPMA_X509_KEY_USAGE == Bits("UINT32", 0..8)
Attributes ==
    [TPMA_ALGORITHM |-> TPMA_ALGORITHM, TPMA_OBJECT |-> TPMA_OBJECT,
     TPMA_SESSION |-> TPMA_SESSION, TPMA_LOCALITY |-> TPMA_LOCALITY,
     TPMA_PERMANENT |-> TPMA_PERMANENT, TPMA_STARTUP_CLEAR |-> TPMA_STARTUP_CLEAR,
     TPMA_MEMORY |-> TPMA_MEMORY, TPMA_CC |-> TPMA_CC, TPMA_MODES |-> TPMA_MODES,
     TPMA_X509_KEY_USAGE |-> TPMA_X509_KEY_USAGE]

Typedefs1 ==
    Named("UINT32", {"TPM_ALGORITHM_ID", "TPM_MODIFIER_INDICATOR",
        "TPM_AUTHORIZATION_SIZE", "TPM_PARAMETER_SIZE", "TPM_SPEC"})
    @@ Named("UINT16", {"TPM_KEY_SIZE", "TPM_KEY_BITS"})
Typedefs2 ==
    Named("UINT32", {"TPM_HANDLE"})
    @@ Named("UINT8", {"TPM_HT"})
\* The types that constants and other declarations stand next to.
TypedefsAlone ==
    Named("UINT16", {"TPM_ALG_ID", "TPM_ECC_CURVE", "TPM_EO", "TPM_ST", "TPM_SU"})
    @@ Named("UINT32", {"TPM_CC", "TPM_GENERATED", "TPM_RC", "TPM_CAP", "TPM_PT",
        "TPM_PT_PCR", "TPM_PS", "TPM_NV_INDEX", "TPM_NT", "TPM_AT", "TPM_AE"})
    @@ Named("INT8", {"TPM_CLOCK_ADJUST"})
    @@ Named("UINT8", {"TPM_SE"})
    @@ Named("TPM_HANDLE", {"TPM_RH", "TPM_HC"})
    @@ Named("TPM_ST", {"TPMI_ST_ATTEST"})
    @@ Named("TPM_ALG_ID", {"TPMI_ALG_ASYM_SCHEME", "TPMI_ALG_RSA_SCHEME",
        "TPMI_ALG_RSA_DECRYPT", "TPMI_ALG_PUBLIC"})
    @@ Named("TPM_KEY_BITS", {"TPMI_RSA_KEY_BITS"})

BaseTypes == [UINT8 |-> Plain(1), BYTE |-> Plain(1), INT8 |-> Plain(1), BOOL |-> Plain(4),
              UINT16 |-> Plain(2), INT16 |-> Plain(2), UINT32 |-> Plain(4),
              INT32 |-> Plain(4), UINT64 |-> Plain(8), INT64 |-> Plain(8)]

Types ==
    BaseTypes @@ Attributes @@ Declared1 @@ Declared2 @@ Declared3 @@ Declared4 @@
    Declared5 @@ Declared6 @@ Declared7 @@ Declared8 @@ Typedefs1 @@ Typedefs2 @@
    TypedefsAlone
=============================================================================
