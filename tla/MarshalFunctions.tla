-------------------------- MODULE MarshalFunctions --------------------------
(*****************************************************************************)
(* The functions of Marshal.c that take a structure, a union or a list       *)
(* from a command and put it into a response, in the order of the file,      *)
(* with the types that are declared among them; and all the functions.       *)
(*****************************************************************************)
EXTENDS MarshalScalars

\* A bug: the size of the selection is not compared with that of the array.
TPMS_PCR_SELECTION_Unlimited == Members(<<M("hash", "TPMI_ALG_HASH"),
    M("sizeofSelect", "UINT8"), AtLeast("sizeofSelect", N(PCR_SELECT_MIN), "VALUE"),
    Each("pcrSelect", "BYTE_Array", "sizeofSelect")>>)
TPMS_PCR_SELECTION_Unmarshal == Members(<<M("hash", "TPMI_ALG_HASH"),
    M("sizeofSelect", "UINT8"), AtLeast("sizeofSelect", N(PCR_SELECT_MIN), "VALUE"),
    Limit("sizeofSelect", N(PCR_SELECT_MAX), "VALUE"),
    Each("pcrSelect", "BYTE_Array", "sizeofSelect")>>)
\* A bug: the hierarchy is taken before the handle.
TPMS_CONTEXT_Swapped == Members(<<M("sequence", "UINT64"),
    OrNull("hierarchy", "TPMI_RH_HIERARCHY"), M("savedHandle", "TPMI_DH_SAVED"),
    M("contextBlob", "TPM2B_CONTEXT_DATA")>>)
TPMS_CONTEXT_Unmarshal == Members(<<M("sequence", "UINT64"),
    M("savedHandle", "TPMI_DH_SAVED"), OrNull("hierarchy", "TPMI_RH_HIERARCHY"),
    M("contextBlob", "TPM2B_CONTEXT_DATA")>>)

Structures1 ==
    [TPMS_ALGORITHM_DESCRIPTION |-> Both(Absent,
         Members(<<M("alg", "TPM_ALG_ID"), M("attributes", "TPMA_ALGORITHM")>>)),
     TPMU_HA |-> Same(Select(<<OnAlg("SHA1", Bytes("sha1", N(DigestSize.SHA1))),
             OnAlg("SHA256", Bytes("sha256", N(DigestSize.SHA256))),
             OnAlg("SHA384", Bytes("sha384", N(DigestSize.SHA384))),
             OnAlg("SHA512", Bytes("sha512", N(DigestSize.SHA512))),
             OnAlg("SM3_256", Bytes("sm3_256", N(DigestSize.SM3_256))),
             OnAlg("SHA3_256", Bytes("sha3_256", N(DigestSize.SHA3_256))),
             OnAlg("SHA3_384", Bytes("sha3_384", N(DigestSize.SHA3_384))),
             OnAlg("SHA3_512", Bytes("sha3_512", N(DigestSize.SHA3_512))),
             On({ALG.NULL}, None)>>)),
     TPMT_HA |-> Both(Members(<<AsFlagged("hashAlg", "TPMI_ALG_HASH"),
             By("digest", "TPMU_HA", "hashAlg")>>),
         Members(<<M("hashAlg", "TPMI_ALG_HASH"),
             By("digest", "TPMU_HA", "hashAlg")>>)),
     TPM2B_DIGEST |-> Both(Sized(SizeOf("TPMU_HA"), "buffer"), SizedOut("buffer"))]
Structures2 ==
    [TPM2B_DATA |-> Both(Sized(SizeOf("TPMT_HA"), "buffer"), SizedOut("buffer")),
     TPM2B_NONCE |-> Same(As("TPM2B_DIGEST")), TPM2B_AUTH |-> Same(As("TPM2B_DIGEST")),
     TPM2B_OPERAND |-> Same(As("TPM2B_DIGEST")),
     TPM2B_EVENT |-> Both(Sized(N(1024), "buffer"), SizedOut("buffer")),
     TPM2B_MAX_BUFFER |-> Both(Sized(N(MAX_DIGEST_BUFFER), "buffer"),
         SizedOut("buffer")),
     TPM2B_MAX_NV_BUFFER |-> Both(Sized(N(MAX_NV_BUFFER_SIZE), "buffer"),
         SizedOut("buffer"))]
Structures3 ==
    [TPM2B_TIMEOUT |-> Both(Sized(SizeOf("UINT64"), "buffer"), SizedOut("buffer")),
     TPM2B_IV |-> Both(Sized(N(MAX_SYM_BLOCK_SIZE), "buffer"), SizedOut("buffer")),
     TPM2B_NAME |-> Both(Sized(SizeOf("TPMU_NAME"), "name"), SizedOut("name")),
     TPMS_PCR_SELECT |-> Both(Members(<<M("sizeofSelect", "UINT8"),
             AtLeast("sizeofSelect", N(PCR_SELECT_MIN), "VALUE"),
             Limit("sizeofSelect", N(PCR_SELECT_MAX), "VALUE"),
             Each("pcrSelect", "BYTE_Array", "sizeofSelect")>>),
         Members(<<M("sizeofSelect", "UINT8"),
             Each("pcrSelect", "BYTE_Array", "sizeofSelect")>>)),
     TPMS_PCR_SELECTION |-> Both(TPMS_PCR_SELECTION_Unmarshal,
         Members(<<M("hash", "TPMI_ALG_HASH"), M("sizeofSelect", "UINT8"),
             Each("pcrSelect", "BYTE_Array", "sizeofSelect")>>))]
Structures4 ==
    [TPMT_TK_CREATION |-> Both(Members(<<M("tag", "TPM_ST"),
             OneOf("tag", {TPM_ST.CREATION}, "TAG"),
             OrNull("hierarchy", "TPMI_RH_HIERARCHY"), M("digest", "TPM2B_DIGEST")>>),
         Members(<<M("tag", "TPM_ST"), M("hierarchy", "TPMI_RH_HIERARCHY"),
             M("digest", "TPM2B_DIGEST")>>)),
     TPMT_TK_VERIFIED |-> Both(Members(<<M("tag", "TPM_ST"),
             OneOf("tag", {TPM_ST.VERIFIED}, "TAG"),
             OrNull("hierarchy", "TPMI_RH_HIERARCHY"), M("digest", "TPM2B_DIGEST")>>),
         Members(<<M("tag", "TPM_ST"), M("hierarchy", "TPMI_RH_HIERARCHY"),
             M("digest", "TPM2B_DIGEST")>>)),
     TPMT_TK_AUTH |-> Both(Members(<<M("tag", "TPM_ST"),
             OneOf("tag", {TPM_ST.AUTH_SIGNED, TPM_ST.AUTH_SECRET}, "TAG"),
             OrNull("hierarchy", "TPMI_RH_HIERARCHY"), M("digest", "TPM2B_DIGEST")>>),
         Members(<<M("tag", "TPM_ST"), M("hierarchy", "TPMI_RH_HIERARCHY"),
             M("digest", "TPM2B_DIGEST")>>)),
     TPMT_TK_HASHCHECK |-> Both(Members(<<M("tag", "TPM_ST"),
             OneOf("tag", {TPM_ST.HASHCHECK}, "TAG"),
             OrNull("hierarchy", "TPMI_RH_HIERARCHY"), M("digest", "TPM2B_DIGEST")>>),
         Members(<<M("tag", "TPM_ST"), M("hierarchy", "TPMI_RH_HIERARCHY"),
             M("digest", "TPM2B_DIGEST")>>)),
     TPMS_ALG_PROPERTY |-> Both(Absent,
         Members(<<M("alg", "TPM_ALG_ID"), M("algProperties", "TPMA_ALGORITHM")>>)),
     TPMS_TAGGED_PROPERTY |-> Both(Absent,
         Members(<<M("property", "TPM_PT"), M("value", "UINT32")>>)),
     TPMS_TAGGED_PCR_SELECT |-> Both(Absent,
         Members(<<M("tag", "TPM_PT_PCR"), M("sizeofSelect", "UINT8"),
             Each("pcrSelect", "BYTE_Array", "sizeofSelect")>>)),
     TPMS_TAGGED_POLICY |-> Both(Absent,
         Members(<<M("handle", "TPM_HANDLE"), M("policyHash", "TPMT_HA")>>))]
Structures5 ==
    [TPML_CC |-> Both(Counted(MAX_CAP_CC, "commandCodes", "TPM_CC_Array"),
         CountedOut("commandCodes", "TPM_CC_Array")),
     TPML_CCA |-> Both(Absent, CountedOut("commandAttributes", "TPMA_CC_Array")),
     TPML_ALG |-> Both(Counted(N(MAX_ALG_LIST_SIZE), "algorithms", "TPM_ALG_ID_Array"),
         CountedOut("algorithms", "TPM_ALG_ID_Array")),
     TPML_HANDLE |-> Both(Absent, CountedOut("handle", "TPM_HANDLE_Array")),
     TPML_DIGEST |-> Both(Members(<<M("count", "UINT32"),
             AtLeast("count", N(2), "SIZE"), Limit("count", N(8), "SIZE"),
             Each("digests", "TPM2B_DIGEST_Array", "count")>>),
         CountedOut("digests", "TPM2B_DIGEST_Array")),
     TPML_DIGEST_VALUES |-> Both(Counted(N(HASH_COUNT), "digests", "TPMT_HA_Array"),
         CountedOut("digests", "TPMT_HA_Array")),
     TPML_PCR_SELECTION |-> Both(
         Counted(N(HASH_COUNT), "pcrSelections", "TPMS_PCR_SELECTION_Array"),
         CountedOut("pcrSelections", "TPMS_PCR_SELECTION_Array"))]
Structures6 ==
    [TPML_ALG_PROPERTY |-> Both(Absent,
         CountedOut("algProperties", "TPMS_ALG_PROPERTY_Array")),
     TPML_TAGGED_TPM_PROPERTY |-> Both(Absent,
         CountedOut("tpmProperty", "TPMS_TAGGED_PROPERTY_Array")),
     TPML_TAGGED_PCR_PROPERTY |-> Both(Absent,
         CountedOut("pcrProperty", "TPMS_TAGGED_PCR_SELECT_Array")),
     TPML_ECC_CURVE |-> Both(Absent,
         WhenBuilt("ECC", CountedOut("eccCurves", "TPM_ECC_CURVE_Array"))),
     TPML_TAGGED_POLICY |-> Both(Absent,
         CountedOut("policies", "TPMS_TAGGED_POLICY_Array")),
     TPMU_CAPABILITIES |-> Both(Absent,
         Select(<<On({TPM_CAP.ALGS}, M("algorithms", "TPML_ALG_PROPERTY")),
             On({TPM_CAP.HANDLES}, M("handles", "TPML_HANDLE")),
             On({TPM_CAP.COMMANDS}, M("command", "TPML_CCA")),
             On({TPM_CAP.PP_COMMANDS}, M("ppCommands", "TPML_CC")),
             On({TPM_CAP.AUDIT_COMMANDS}, M("auditCommands", "TPML_CC")),
             On({TPM_CAP.PCRS}, M("assignedPCR", "TPML_PCR_SELECTION")),
             On({TPM_CAP.TPM_PROPERTIES},
                 M("tpmProperties", "TPML_TAGGED_TPM_PROPERTY")),
             On({TPM_CAP.PCR_PROPERTIES},
                 M("pcrProperties", "TPML_TAGGED_PCR_PROPERTY")),
             On(IfBuilt("ECC", {TPM_CAP.ECC_CURVES}), M("eccCurves", "TPML_ECC_CURVE")),
             On({TPM_CAP.AUTH_POLICIES}, M("authPolicies", "TPML_TAGGED_POLICY"))>>)),
     TPMS_CAPABILITY_DATA |-> Both(Absent,
         Members(<<M("capability", "TPM_CAP"),
             By("data", "TPMU_CAPABILITIES", "capability")>>)),
     TPMS_CLOCK_INFO |-> Same(Members(<<M("clock", "UINT64"), M("resetCount", "UINT32"),
             M("restartCount", "UINT32"), M("safe", "TPMI_YES_NO")>>)),
     TPMS_TIME_INFO |-> Same(
         Members(<<M("time", "UINT64"), M("clockInfo", "TPMS_CLOCK_INFO")>>)),
     TPMS_TIME_ATTEST_INFO |-> Both(Absent,
         Members(<<M("time", "TPMS_TIME_INFO"), M("firmwareVersion", "UINT64")>>))]
Structures7 ==
    [TPMS_CERTIFY_INFO |-> Both(Absent,
         Members(<<M("name", "TPM2B_NAME"), M("qualifiedName", "TPM2B_NAME")>>)),
     TPMS_QUOTE_INFO |-> Both(Absent,
         Members(<<M("pcrSelect", "TPML_PCR_SELECTION"),
             M("pcrDigest", "TPM2B_DIGEST")>>)),
     TPMS_COMMAND_AUDIT_INFO |-> Both(Absent,
         Members(<<M("auditCounter", "UINT64"), M("digestAlg", "TPM_ALG_ID"),
             M("auditDigest", "TPM2B_DIGEST"), M("commandDigest", "TPM2B_DIGEST")>>)),
     TPMS_SESSION_AUDIT_INFO |-> Both(Absent,
         Members(<<M("exclusiveSession", "TPMI_YES_NO"),
             M("sessionDigest", "TPM2B_DIGEST")>>)),
     TPMS_CREATION_INFO |-> Both(Absent,
         Members(<<M("objectName", "TPM2B_NAME"), M("creationHash", "TPM2B_DIGEST")>>)),
     TPMS_NV_CERTIFY_INFO |-> Both(Absent,
         Members(<<M("indexName", "TPM2B_NAME"), M("offset", "UINT16"),
             M("nvContents", "TPM2B_MAX_NV_BUFFER")>>)),
     TPMS_NV_DIGEST_CERTIFY_INFO |-> Both(Absent,
         Members(<<M("indexName", "TPM2B_NAME"), M("nvDigest", "TPM2B_DIGEST")>>)),
     TPMI_ST_ATTEST |-> Both(Absent, As("TPM_ST")),
     TPMU_ATTEST |-> Both(Absent,
         Select(<<On({TPM_ST.ATTEST_CERTIFY}, M("certify", "TPMS_CERTIFY_INFO")),
             On({TPM_ST.ATTEST_CREATION}, M("creation", "TPMS_CREATION_INFO")),
             On({TPM_ST.ATTEST_QUOTE}, M("quote", "TPMS_QUOTE_INFO")),
             On({TPM_ST.ATTEST_COMMAND_AUDIT},
                 M("commandAudit", "TPMS_COMMAND_AUDIT_INFO")),
             On({TPM_ST.ATTEST_SESSION_AUDIT},
                 M("sessionAudit", "TPMS_SESSION_AUDIT_INFO")),
             On({TPM_ST.ATTEST_TIME}, M("time", "TPMS_TIME_ATTEST_INFO")),
             On({TPM_ST.ATTEST_NV}, M("nv", "TPMS_NV_CERTIFY_INFO")),
             On({TPM_ST.ATTEST_NV_DIGEST},
                 M("nvDigest", "TPMS_NV_DIGEST_CERTIFY_INFO"))>>)),
     TPMS_ATTEST |-> Both(Absent,
         Members(<<M("magic", "TPM_GENERATED"), M("type", "TPMI_ST_ATTEST"),
             M("qualifiedSigner", "TPM2B_NAME"), M("extraData", "TPM2B_DATA"),
             M("clockInfo", "TPMS_CLOCK_INFO"), M("firmwareVersion", "UINT64"),
             By("attested", "TPMU_ATTEST", "type")>>)),
     TPM2B_ATTEST |-> Both(Absent, SizedOut("attestationData")),
     TPMS_AUTH_COMMAND |-> Both(Members(<<
             OrNull("sessionHandle", "TPMI_SH_AUTH_SESSION"), M("nonce", "TPM2B_NONCE"),
             M("sessionAttributes", "TPMA_SESSION"), M("hmac", "TPM2B_AUTH")>>),
         Absent)]
Structures8 ==
    [TPMS_AUTH_RESPONSE |-> Both(Absent,
         Members(<<M("nonce", "TPM2B_NONCE"), M("sessionAttributes", "TPMA_SESSION"),
             M("hmac", "TPM2B_AUTH")>>)),
     TPMI_TDES_KEY_BITS |-> Both(WhenBuilt("TDES",
             Values("TPM_KEY_BITS", {128, 192} \cap KeySizes.TDES, "VALUE")),
         WhenBuilt("TDES", As("TPM_KEY_BITS"))),
     TPMI_AES_KEY_BITS |-> Both(WhenBuilt("AES",
             Values("TPM_KEY_BITS", {128, 192, 256} \cap KeySizes.AES, "VALUE")),
         WhenBuilt("AES", As("TPM_KEY_BITS"))),
     TPMI_SM4_KEY_BITS |-> Both(
         WhenBuilt("SM4", Values("TPM_KEY_BITS", {128} \cap KeySizes.SM4, "VALUE")),
         WhenBuilt("SM4", As("TPM_KEY_BITS"))),
     TPMI_CAMELLIA_KEY_BITS |-> Both(WhenBuilt("CAMELLIA",
             Values("TPM_KEY_BITS", {128, 192, 256} \cap KeySizes.CAMELLIA, "VALUE")),
         WhenBuilt("CAMELLIA", As("TPM_KEY_BITS")))]
Structures9 ==
    [TPMU_SYM_KEY_BITS |-> Same(Select(<<OnAlg("TDES", M("tdes", "TPMI_TDES_KEY_BITS")),
             OnAlg("AES", M("aes", "TPMI_AES_KEY_BITS")),
             OnAlg("SM4", M("sm4", "TPMI_SM4_KEY_BITS")),
             OnAlg("CAMELLIA", M("camellia", "TPMI_CAMELLIA_KEY_BITS")),
             OnAlg("XOR", M("xor", "TPMI_ALG_HASH")), On({ALG.NULL}, None)>>)),
     TPMU_SYM_MODE |-> Both(Select(<<OnAlg("TDES", OrNull("tdes", "TPMI_ALG_SYM_MODE")),
             OnAlg("AES", OrNull("aes", "TPMI_ALG_SYM_MODE")),
             OnAlg("SM4", OrNull("sm4", "TPMI_ALG_SYM_MODE")),
             OnAlg("CAMELLIA", OrNull("camellia", "TPMI_ALG_SYM_MODE")),
             OnAlg("XOR", None), On({ALG.NULL}, None)>>),
         Select(<<OnAlg("TDES", M("tdes", "TPMI_ALG_SYM_MODE")),
             OnAlg("AES", M("aes", "TPMI_ALG_SYM_MODE")),
             OnAlg("SM4", M("sm4", "TPMI_ALG_SYM_MODE")),
             OnAlg("CAMELLIA", M("camellia", "TPMI_ALG_SYM_MODE")), OnAlg("XOR", None),
             On({ALG.NULL}, None)>>)),
     TPMT_SYM_DEF |-> Both(Members(<<AsFlagged("algorithm", "TPMI_ALG_SYM"),
             By("keyBits", "TPMU_SYM_KEY_BITS", "algorithm"),
             By("mode", "TPMU_SYM_MODE", "algorithm")>>),
         Members(<<M("algorithm", "TPMI_ALG_SYM"),
             By("keyBits", "TPMU_SYM_KEY_BITS", "algorithm"),
             By("mode", "TPMU_SYM_MODE", "algorithm")>>))]
Structures10 ==
    [TPMT_SYM_DEF_OBJECT |-> Both(Members(<<
             AsFlagged("algorithm", "TPMI_ALG_SYM_OBJECT"),
             By("keyBits", "TPMU_SYM_KEY_BITS", "algorithm"),
             By("mode", "TPMU_SYM_MODE", "algorithm")>>),
         Members(<<M("algorithm", "TPMI_ALG_SYM_OBJECT"),
             By("keyBits", "TPMU_SYM_KEY_BITS", "algorithm"),
             By("mode", "TPMU_SYM_MODE", "algorithm")>>)),
     TPM2B_SYM_KEY |-> Both(Sized(N(MAX_SYM_KEY_BYTES), "buffer"), SizedOut("buffer")),
     TPMS_SYMCIPHER_PARMS |-> Same(Members(<<M("sym", "TPMT_SYM_DEF_OBJECT")>>)),
     TPM2B_LABEL |-> Both(Sized(N(LABEL_MAX_BUFFER), "buffer"), SizedOut("buffer")),
     TPMS_DERIVE |-> Same(
         Members(<<M("label", "TPM2B_LABEL"), M("context", "TPM2B_LABEL")>>)),
     TPM2B_DERIVE |-> Both(Sized(SizeOf("TPMS_DERIVE"), "buffer"), SizedOut("buffer"))]
Structures11 ==
    [TPM2B_SENSITIVE_DATA |-> Both(Sized(SizeOf("TPMU_SENSITIVE_CREATE"), "buffer"),
         SizedOut("buffer")),
     TPMS_SENSITIVE_CREATE |-> Both(
         Members(<<M("userAuth", "TPM2B_AUTH"), M("data", "TPM2B_SENSITIVE_DATA")>>),
         Absent),
     TPM2B_SENSITIVE_CREATE |-> Both(
         Within("sensitive", "TPMS_SENSITIVE_CREATE", "SIZE", "NO"), Absent),
     TPMS_SCHEME_HASH |-> Same(Members(<<M("hashAlg", "TPMI_ALG_HASH")>>)),
     TPMS_SCHEME_ECDAA |-> Same(WhenBuilt("ECC",
             Members(<<M("hashAlg", "TPMI_ALG_HASH"), M("count", "UINT16")>>))),
     TPMI_ALG_KEYEDHASH_SCHEME |-> Both(
         ValuesOrNull("TPM_ALG_ID", Algs({"HMAC", "XOR"}), ALG.NULL, "VALUE"),
         As("TPM_ALG_ID")),
     TPMS_SCHEME_HMAC |-> Same(As("TPMS_SCHEME_HASH"))]
Structures12 ==
    [TPMS_SCHEME_XOR |-> Both(
         Members(<<M("hashAlg", "TPMI_ALG_HASH"), OrNull("kdf", "TPMI_ALG_KDF")>>),
         Members(<<M("hashAlg", "TPMI_ALG_HASH"), M("kdf", "TPMI_ALG_KDF")>>)),
     TPMU_SCHEME_KEYEDHASH |-> Same(Select(<<
             OnAlg("HMAC", M("hmac", "TPMS_SCHEME_HMAC")),
             OnAlg("XOR", M("xor", "TPMS_SCHEME_XOR")), On({ALG.NULL}, None)>>)),
     TPMT_KEYEDHASH_SCHEME |-> Both(Members(<<
             AsFlagged("scheme", "TPMI_ALG_KEYEDHASH_SCHEME"),
             By("details", "TPMU_SCHEME_KEYEDHASH", "scheme")>>),
         Members(<<M("scheme", "TPMI_ALG_KEYEDHASH_SCHEME"),
             By("details", "TPMU_SCHEME_KEYEDHASH", "scheme")>>)),
     TPMS_SIG_SCHEME_RSASSA |-> Same(WhenBuilt("RSA", As("TPMS_SCHEME_HASH"))),
     TPMS_SIG_SCHEME_RSAPSS |-> Same(WhenBuilt("RSA", As("TPMS_SCHEME_HASH"))),
     TPMS_SIG_SCHEME_ECDSA |-> Same(WhenBuilt("ECC", As("TPMS_SCHEME_HASH"))),
     TPMS_SIG_SCHEME_SM2 |-> Same(WhenBuilt("ECC", As("TPMS_SCHEME_HASH"))),
     TPMS_SIG_SCHEME_ECSCHNORR |-> Same(WhenBuilt("ECC", As("TPMS_SCHEME_HASH"))),
     TPMS_SIG_SCHEME_ECDAA |-> Same(WhenBuilt("ECC", As("TPMS_SCHEME_ECDAA")))]
Structures13 ==
    [TPMU_SIG_SCHEME |-> Same(Select(<<
             OnAlg("ECDAA", M("ecdaa", "TPMS_SIG_SCHEME_ECDAA")),
             OnAlg("RSASSA", M("rsassa", "TPMS_SIG_SCHEME_RSASSA")),
             OnAlg("RSAPSS", M("rsapss", "TPMS_SIG_SCHEME_RSAPSS")),
             OnAlg("ECDSA", M("ecdsa", "TPMS_SIG_SCHEME_ECDSA")),
             OnAlg("SM2", M("sm2", "TPMS_SIG_SCHEME_SM2")),
             OnAlg("ECSCHNORR", M("ecschnorr", "TPMS_SIG_SCHEME_ECSCHNORR")),
             OnAlg("HMAC", M("hmac", "TPMS_SCHEME_HMAC")), On({ALG.NULL}, None)>>)),
     TPMT_SIG_SCHEME |-> Both(Members(<<AsFlagged("scheme", "TPMI_ALG_SIG_SCHEME"),
             By("details", "TPMU_SIG_SCHEME", "scheme")>>),
         Members(<<M("scheme", "TPMI_ALG_SIG_SCHEME"),
             By("details", "TPMU_SIG_SCHEME", "scheme")>>)),
     TPMS_ENC_SCHEME_OAEP |-> Same(WhenBuilt("RSA", As("TPMS_SCHEME_HASH"))),
     TPMS_ENC_SCHEME_RSAES |-> Same(WhenBuilt("RSA", As("TPMS_EMPTY"))),
     TPMS_KEY_SCHEME_ECDH |-> Same(WhenBuilt("ECC", As("TPMS_SCHEME_HASH"))),
     TPMS_KEY_SCHEME_ECMQV |-> Same(WhenBuilt("ECC", As("TPMS_SCHEME_HASH")))]
Structures14 ==
    [TPMS_SCHEME_MGF1 |-> Same(As("TPMS_SCHEME_HASH")),
     TPMS_SCHEME_KDF1_SP800_56A |-> Same(As("TPMS_SCHEME_HASH")),
     TPMS_SCHEME_KDF2 |-> Same(As("TPMS_SCHEME_HASH")),
     TPMS_SCHEME_KDF1_SP800_108 |-> Same(As("TPMS_SCHEME_HASH")),
     TPMU_KDF_SCHEME |-> Same(Select(<<OnAlg("MGF1", M("mgf1", "TPMS_SCHEME_MGF1")),
             OnAlg("KDF1_SP800_56A", M("kdf1_sp800_56a", "TPMS_SCHEME_KDF1_SP800_56A")),
             OnAlg("KDF2", M("kdf2", "TPMS_SCHEME_KDF2")),
             OnAlg("KDF1_SP800_108", M("kdf1_sp800_108", "TPMS_SCHEME_KDF1_SP800_108")),
             On({ALG.NULL}, None)>>)),
     TPMT_KDF_SCHEME |-> Both(Members(<<AsFlagged("scheme", "TPMI_ALG_KDF"),
             By("details", "TPMU_KDF_SCHEME", "scheme")>>),
         Members(<<M("scheme", "TPMI_ALG_KDF"),
             By("details", "TPMU_KDF_SCHEME", "scheme")>>))]
Structures15 ==
    [TPMI_ALG_ASYM_SCHEME |-> Both(ValuesOrNull("TPM_ALG_ID",
             Algs({"ECDH", "ECMQV", "ECDAA", "RSASSA", "RSAPSS", "ECDSA", "SM2",
                 "ECSCHNORR", "RSAES", "OAEP"}), ALG.NULL, "VALUE"), As("TPM_ALG_ID"))]
Structures16 ==
    [TPMU_ASYM_SCHEME |-> Same(Select(<<
             OnAlg("ECDH", M("ecdh", "TPMS_KEY_SCHEME_ECDH")),
             OnAlg("ECMQV", M("ecmqv", "TPMS_KEY_SCHEME_ECMQV")),
             OnAlg("ECDAA", M("ecdaa", "TPMS_SIG_SCHEME_ECDAA")),
             OnAlg("RSASSA", M("rsassa", "TPMS_SIG_SCHEME_RSASSA")),
             OnAlg("RSAPSS", M("rsapss", "TPMS_SIG_SCHEME_RSAPSS")),
             OnAlg("ECDSA", M("ecdsa", "TPMS_SIG_SCHEME_ECDSA")),
             OnAlg("SM2", M("sm2", "TPMS_SIG_SCHEME_SM2")),
             OnAlg("ECSCHNORR", M("ecschnorr", "TPMS_SIG_SCHEME_ECSCHNORR")),
             OnAlg("RSAES", M("rsaes", "TPMS_ENC_SCHEME_RSAES")),
             OnAlg("OAEP", M("oaep", "TPMS_ENC_SCHEME_OAEP")), On({ALG.NULL}, None)>>)),
     TPMI_ALG_RSA_SCHEME |-> Both(WhenBuilt("RSA",
             ValuesOrNull("TPM_ALG_ID", Algs({"RSAES", "OAEP", "RSASSA", "RSAPSS"}),
                 ALG.NULL, "VALUE")), WhenBuilt("RSA", As("TPM_ALG_ID")))]
Structures17 ==
    [TPMT_RSA_SCHEME |-> Both(WhenBuilt("RSA",
             Members(<<AsFlagged("scheme", "TPMI_ALG_RSA_SCHEME"),
                 By("details", "TPMU_ASYM_SCHEME", "scheme")>>)),
         WhenBuilt("RSA",
             Members(<<M("scheme", "TPMI_ALG_RSA_SCHEME"),
                 By("details", "TPMU_ASYM_SCHEME", "scheme")>>))),
     TPMI_ALG_RSA_DECRYPT |-> Both(WhenBuilt("RSA",
             ValuesOrNull("TPM_ALG_ID", Algs({"RSAES", "OAEP"}), ALG.NULL, "VALUE")),
         WhenBuilt("RSA", As("TPM_ALG_ID"))),
     TPMT_RSA_DECRYPT |-> Both(WhenBuilt("RSA",
             Members(<<AsFlagged("scheme", "TPMI_ALG_RSA_DECRYPT"),
                 By("details", "TPMU_ASYM_SCHEME", "scheme")>>)),
         WhenBuilt("RSA",
             Members(<<M("scheme", "TPMI_ALG_RSA_DECRYPT"),
                 By("details", "TPMU_ASYM_SCHEME", "scheme")>>))),
     TPM2B_PUBLIC_KEY_RSA |-> Both(
         WhenBuilt("RSA", Sized(N(MAX_RSA_KEY_BYTES), "buffer")),
         WhenBuilt("RSA", SizedOut("buffer"))),
     TPMI_RSA_KEY_BITS |-> Both(WhenBuilt("RSA",
             Values("TPM_KEY_BITS", {1024, 2048, 3072, 4096} \cap KeySizes.RSA,
                 "VALUE")), WhenBuilt("RSA", As("TPM_KEY_BITS")))]
Structures18 ==
    [TPM2B_PRIVATE_KEY_RSA |-> Both(
         WhenBuilt("RSA", Sized(N(RSA_PRIVATE_SIZE), "buffer")),
         WhenBuilt("RSA", SizedOut("buffer"))),
     TPM2B_ECC_PARAMETER |-> Both(Sized(N(MAX_ECC_KEY_BYTES), "buffer"),
         SizedOut("buffer")),
     TPMS_ECC_POINT |-> Same(WhenBuilt("ECC",
             Members(<<M("x", "TPM2B_ECC_PARAMETER"),
                 M("y", "TPM2B_ECC_PARAMETER")>>))),
     TPM2B_ECC_POINT |-> Both(
         WhenBuilt("ECC", Within("point", "TPMS_ECC_POINT", "SIZE", "NO")),
         WhenBuilt("ECC", Within("point", "TPMS_ECC_POINT", "", "NO")))]
Structures19 ==
    [TPMI_ALG_ECC_SCHEME |-> Both(WhenBuilt("ECC",
             ValuesOrNull("TPM_ALG_ID",
                 Algs({"ECDAA", "ECDSA", "SM2", "ECSCHNORR", "ECDH", "ECMQV"}),
                 ALG.NULL, "SCHEME")), WhenBuilt("ECC", As("TPM_ALG_ID"))),
     TPMI_ECC_CURVE |-> Both(WhenBuilt("ECC",
             Values("TPM_ECC_CURVE",
                 {TPM_ECC[c] : c \in Curves \cap {"BN_P256", "BN_P638", "NIST_P192",
                     "NIST_P224", "NIST_P256", "NIST_P384", "NIST_P521", "SM2_P256"}},
                 "CURVE")), WhenBuilt("ECC", As("TPM_ECC_CURVE"))),
     TPMT_ECC_SCHEME |-> Both(WhenBuilt("ECC",
             Members(<<AsFlagged("scheme", "TPMI_ALG_ECC_SCHEME"),
                 By("details", "TPMU_ASYM_SCHEME", "scheme")>>)),
         WhenBuilt("ECC",
             Members(<<M("scheme", "TPMI_ALG_ECC_SCHEME"),
                 By("details", "TPMU_ASYM_SCHEME", "scheme")>>))),
     TPMS_ALGORITHM_DETAIL_ECC |-> Both(Absent,
         WhenBuilt("ECC",
             Members(<<M("curveID", "TPM_ECC_CURVE"), M("keySize", "UINT16"),
                 M("kdf", "TPMT_KDF_SCHEME"), M("sign", "TPMT_ECC_SCHEME"),
                 M("p", "TPM2B_ECC_PARAMETER"), M("a", "TPM2B_ECC_PARAMETER"),
                 M("b", "TPM2B_ECC_PARAMETER"), M("gX", "TPM2B_ECC_PARAMETER"),
                 M("gY", "TPM2B_ECC_PARAMETER"), M("n", "TPM2B_ECC_PARAMETER"),
                 M("h", "TPM2B_ECC_PARAMETER")>>)))]
Structures20 ==
    [TPMS_SIGNATURE_RSA |-> Same(WhenBuilt("RSA",
             Members(<<M("hash", "TPMI_ALG_HASH"),
                 M("sig", "TPM2B_PUBLIC_KEY_RSA")>>))),
     TPMS_SIGNATURE_RSASSA |-> Same(WhenBuilt("RSA", As("TPMS_SIGNATURE_RSA"))),
     TPMS_SIGNATURE_RSAPSS |-> Same(WhenBuilt("RSA", As("TPMS_SIGNATURE_RSA"))),
     TPMS_SIGNATURE_ECC |-> Same(WhenBuilt("ECC",
             Members(<<M("hash", "TPMI_ALG_HASH"),
                 M("signatureR", "TPM2B_ECC_PARAMETER"),
                 M("signatureS", "TPM2B_ECC_PARAMETER")>>))),
     TPMS_SIGNATURE_ECDAA |-> Same(WhenBuilt("ECC", As("TPMS_SIGNATURE_ECC"))),
     TPMS_SIGNATURE_ECDSA |-> Same(WhenBuilt("ECC", As("TPMS_SIGNATURE_ECC"))),
     TPMS_SIGNATURE_SM2 |-> Same(WhenBuilt("ECC", As("TPMS_SIGNATURE_ECC"))),
     TPMS_SIGNATURE_ECSCHNORR |-> Same(WhenBuilt("ECC", As("TPMS_SIGNATURE_ECC")))]
Structures21 ==
    [TPMU_SIGNATURE |-> Same(Select(<<
             OnAlg("ECDAA", M("ecdaa", "TPMS_SIGNATURE_ECDAA")),
             OnAlg("RSASSA", M("rsassa", "TPMS_SIGNATURE_RSASSA")),
             OnAlg("RSAPSS", M("rsapss", "TPMS_SIGNATURE_RSAPSS")),
             OnAlg("ECDSA", M("ecdsa", "TPMS_SIGNATURE_ECDSA")),
             OnAlg("SM2", M("sm2", "TPMS_SIGNATURE_SM2")),
             OnAlg("ECSCHNORR", M("ecschnorr", "TPMS_SIGNATURE_ECSCHNORR")),
             OnAlg("HMAC", M("hmac", "TPMT_HA")), On({ALG.NULL}, None)>>)),
     TPMT_SIGNATURE |-> Both(Members(<<AsFlagged("sigAlg", "TPMI_ALG_SIG_SCHEME"),
             By("signature", "TPMU_SIGNATURE", "sigAlg")>>),
         Members(<<M("sigAlg", "TPMI_ALG_SIG_SCHEME"),
             By("signature", "TPMU_SIGNATURE", "sigAlg")>>)),
     TPMU_ENCRYPTED_SECRET |-> Same(Select(<<
             OnAlg("ECC", Bytes("ecc", SizeOf("TPMS_ECC_POINT"))),
             OnAlg("RSA", Bytes("rsa", N(MAX_RSA_KEY_BYTES))),
             OnAlg("SYMCIPHER", Bytes("symmetric", SizeOf("TPM2B_DIGEST"))),
             OnAlg("KEYEDHASH", Bytes("keyedHash", SizeOf("TPM2B_DIGEST")))>>))]
Structures22 ==
    [TPM2B_ENCRYPTED_SECRET |-> Both(Sized(SizeOf("TPMU_ENCRYPTED_SECRET"), "secret"),
         SizedOut("secret")),
     TPMI_ALG_PUBLIC |-> Both(
         Values("TPM_ALG_ID", Algs({"RSA", "ECC", "KEYEDHASH", "SYMCIPHER"}), "TYPE"),
         As("TPM_ALG_ID")),
     TPMU_PUBLIC_ID |-> Same(Select(<<
             OnAlg("KEYEDHASH", M("keyedHash", "TPM2B_DIGEST")),
             OnAlg("SYMCIPHER", M("sym", "TPM2B_DIGEST")),
             OnAlg("RSA", M("rsa", "TPM2B_PUBLIC_KEY_RSA")),
             OnAlg("ECC", M("ecc", "TPMS_ECC_POINT"))>>)),
     TPMS_KEYEDHASH_PARMS |-> Both(
         Members(<<OrNull("scheme", "TPMT_KEYEDHASH_SCHEME")>>),
         Members(<<M("scheme", "TPMT_KEYEDHASH_SCHEME")>>)),
     TPMS_RSA_PARMS |-> Both(WhenBuilt("RSA",
             Members(<<OrNull("symmetric", "TPMT_SYM_DEF_OBJECT"),
                 OrNull("scheme", "TPMT_RSA_SCHEME"), M("keyBits", "TPMI_RSA_KEY_BITS"),
                 M("exponent", "UINT32")>>)),
         WhenBuilt("RSA",
             Members(<<M("symmetric", "TPMT_SYM_DEF_OBJECT"),
                 M("scheme", "TPMT_RSA_SCHEME"), M("keyBits", "TPMI_RSA_KEY_BITS"),
                 M("exponent", "UINT32")>>)))]
Structures23 ==
    [TPMS_ECC_PARMS |-> Both(WhenBuilt("ECC",
             Members(<<OrNull("symmetric", "TPMT_SYM_DEF_OBJECT"),
                 OrNull("scheme", "TPMT_ECC_SCHEME"), M("curveID", "TPMI_ECC_CURVE"),
                 OrNull("kdf", "TPMT_KDF_SCHEME")>>)),
         WhenBuilt("ECC",
             Members(<<M("symmetric", "TPMT_SYM_DEF_OBJECT"),
                 M("scheme", "TPMT_ECC_SCHEME"), M("curveID", "TPMI_ECC_CURVE"),
                 M("kdf", "TPMT_KDF_SCHEME")>>))),
     TPMU_PUBLIC_PARMS |-> Same(Select(<<
             OnAlg("KEYEDHASH", M("keyedHashDetail", "TPMS_KEYEDHASH_PARMS")),
             OnAlg("SYMCIPHER", M("symDetail", "TPMS_SYMCIPHER_PARMS")),
             OnAlg("RSA", M("rsaDetail", "TPMS_RSA_PARMS")),
             OnAlg("ECC", M("eccDetail", "TPMS_ECC_PARMS"))>>)),
     TPMT_PUBLIC_PARMS |-> Same(Members(<<M("type", "TPMI_ALG_PUBLIC"),
             By("parameters", "TPMU_PUBLIC_PARMS", "type")>>)),
     TPMT_PUBLIC |-> Both(Members(<<M("type", "TPMI_ALG_PUBLIC"),
             AsFlagged("nameAlg", "TPMI_ALG_HASH"),
             M("objectAttributes", "TPMA_OBJECT"), M("authPolicy", "TPM2B_DIGEST"),
             By("parameters", "TPMU_PUBLIC_PARMS", "type"),
             By("unique", "TPMU_PUBLIC_ID", "type")>>),
         Members(<<M("type", "TPMI_ALG_PUBLIC"), M("nameAlg", "TPMI_ALG_HASH"),
             M("objectAttributes", "TPMA_OBJECT"), M("authPolicy", "TPM2B_DIGEST"),
             By("parameters", "TPMU_PUBLIC_PARMS", "type"),
             By("unique", "TPMU_PUBLIC_ID", "type")>>))]
Structures24 ==
    [TPM2B_PUBLIC |-> Both(Within("publicArea", "TPMT_PUBLIC", "SIZE", "flag"),
         Within("publicArea", "TPMT_PUBLIC", "", "NO")),
     TPM2B_TEMPLATE |-> Both(Sized(SizeOf("TPMT_PUBLIC"), "buffer"),
         SizedOut("buffer")),
     TPM2B_PRIVATE_VENDOR_SPECIFIC |-> Both(
         Sized(N(PRIVATE_VENDOR_SPECIFIC_BYTES), "buffer"), SizedOut("buffer")),
     TPMU_SENSITIVE_COMPOSITE |-> Same(Select(<<
             OnAlg("RSA", M("rsa", "TPM2B_PRIVATE_KEY_RSA")),
             OnAlg("ECC", M("ecc", "TPM2B_ECC_PARAMETER")),
             OnAlg("KEYEDHASH", M("bits", "TPM2B_SENSITIVE_DATA")),
             OnAlg("SYMCIPHER", M("sym", "TPM2B_SYM_KEY"))>>))]
Structures25 ==
    [TPMT_SENSITIVE |-> Same(Members(<<M("sensitiveType", "TPMI_ALG_PUBLIC"),
             M("authValue", "TPM2B_AUTH"), M("seedValue", "TPM2B_DIGEST"),
             By("sensitive", "TPMU_SENSITIVE_COMPOSITE", "sensitiveType")>>)),
     TPM2B_SENSITIVE |-> Same(Within("sensitiveArea", "TPMT_SENSITIVE", "", "NO")),
     TPM2B_PRIVATE |-> Both(Sized(SizeOf("PRIVATE"), "buffer"), SizedOut("buffer")),
     TPM2B_ID_OBJECT |-> Both(Sized(SizeOf("TPMS_ID_OBJECT"), "credential"),
         SizedOut("credential")),
     TPM_NV_INDEX |-> Both(Absent, As("UINT32")),
     TPMS_NV_PIN_COUNTER_PARAMETERS |-> Same(
         Members(<<M("pinCount", "UINT32"), M("pinLimit", "UINT32")>>))]
Structures26 ==
    [TPMA_NV |-> Both(Reserved("UINT32", (8..9) \cup (20..24)), As("UINT32")),
     TPMS_NV_PUBLIC |-> Both(Members(<<M("nvIndex", "TPMI_RH_NV_INDEX"),
             M("nameAlg", "TPMI_ALG_HASH"), M("attributes", "TPMA_NV"),
             M("authPolicy", "TPM2B_DIGEST"), M("dataSize", "UINT16"),
             Limit("dataSize", N(MAX_NV_INDEX_SIZE), "SIZE")>>),
         Members(<<M("nvIndex", "TPMI_RH_NV_INDEX"), M("nameAlg", "TPMI_ALG_HASH"),
             M("attributes", "TPMA_NV"), M("authPolicy", "TPM2B_DIGEST"),
             M("dataSize", "UINT16")>>)),
     TPM2B_NV_PUBLIC |-> Both(Within("nvPublic", "TPMS_NV_PUBLIC", "SIZE", "NO"),
         Within("nvPublic", "TPMS_NV_PUBLIC", "", "NO")),
     TPM2B_CONTEXT_SENSITIVE |-> Both(Sized(N(MAX_CONTEXT_SIZE), "buffer"),
         SizedOut("buffer")),
     TPMS_CONTEXT_DATA |-> Same(Members(<<M("integrity", "TPM2B_DIGEST"),
             M("encrypted", "TPM2B_CONTEXT_SENSITIVE")>>))]
Structures27 ==
    [TPM2B_CONTEXT_DATA |-> Both(Sized(SizeOf("TPMS_CONTEXT_DATA"), "buffer"),
         SizedOut("buffer")),
     TPMS_CONTEXT |-> Both(TPMS_CONTEXT_Unmarshal,
         Members(<<M("sequence", "UINT64"), M("savedHandle", "TPMI_DH_SAVED"),
             M("hierarchy", "TPMI_RH_HIERARCHY"),
             M("contextBlob", "TPM2B_CONTEXT_DATA")>>)),
     TPMS_CREATION_DATA |-> Both(Absent,
         Members(<<M("pcrSelect", "TPML_PCR_SELECTION"), M("pcrDigest", "TPM2B_DIGEST"),
             M("locality", "TPMA_LOCALITY"), M("parentNameAlg", "TPM_ALG_ID"),
             M("parentName", "TPM2B_NAME"), M("parentQualifiedName", "TPM2B_NAME"),
             M("outsideInfo", "TPM2B_DATA")>>)),
     TPM2B_CREATION_DATA |-> Both(Absent,
         Within("creationData", "TPMS_CREATION_DATA", "", "NO")),
     TPM_AT |-> Both(
         Values("UINT32", {TPM_AT[n] : n \in {"ANY", "ERROR", "PV1", "VEND"}}, "VALUE"),
         As("UINT32")),
     TPM_AE |-> Both(Absent, As("UINT32")),
     TPMS_AC_OUTPUT |-> Both(Absent,
         Members(<<M("tag", "TPM_AT"), M("data", "UINT32")>>)),
     TPML_AC_CAPABILITIES |-> Both(Absent,
         CountedOut("acCapabilities", "TPMS_AC_OUTPUT_Array"))]
Structures28 ==
    [BYTE_Array |-> Same(ByteArray),
     TPM2B_DIGEST_Array |-> Same(ArrayOf("TPM2B_DIGEST")),
     TPMA_CC_Array |-> Both(Absent, ArrayOf("TPMA_CC")),
     TPMS_AC_OUTPUT_Array |-> Both(Absent, ArrayOf("TPMS_AC_OUTPUT")),
     TPMS_ALG_PROPERTY_Array |-> Both(Absent, ArrayOf("TPMS_ALG_PROPERTY")),
     TPMS_PCR_SELECTION_Array |-> Same(ArrayOf("TPMS_PCR_SELECTION")),
     TPMS_TAGGED_PCR_SELECT_Array |-> Both(Absent, ArrayOf("TPMS_TAGGED_PCR_SELECT")),
     TPMS_TAGGED_POLICY_Array |-> Both(Absent, ArrayOf("TPMS_TAGGED_POLICY"))]
Structures29 ==
    [TPMS_TAGGED_PROPERTY_Array |-> Both(Absent, ArrayOf("TPMS_TAGGED_PROPERTY")),
     TPMT_HA_Array |-> Both(FlaggedArrayOf("TPMT_HA"), ArrayOf("TPMT_HA")),
     TPM_ALG_ID_Array |-> Same(ArrayOf("TPM_ALG_ID")),
     TPM_CC_Array |-> Same(ArrayOf("TPM_CC")),
     TPM_ECC_CURVE_Array |-> Same(WhenBuilt("ECC", ArrayOf("TPM_ECC_CURVE"))),
     TPM_HANDLE_Array |-> Same(ArrayOf("TPM_HANDLE"))]

TypeFunctions ==
    ScalarFunctions @@ Structures1 @@ Structures2 @@ Structures3 @@ Structures4 @@
    Structures5 @@ Structures6 @@ Structures7 @@ Structures8 @@ Structures9 @@
    Structures10 @@ Structures11 @@ Structures12 @@ Structures13 @@ Structures14 @@
    Structures15 @@ Structures16 @@ Structures17 @@ Structures18 @@ Structures19 @@
    Structures20 @@ Structures21 @@ Structures22 @@ Structures23 @@ Structures24 @@
    Structures25 @@ Structures26 @@ Structures27 @@ Structures28 @@ Structures29
=============================================================================
