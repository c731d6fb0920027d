------------------------- MODULE MarshalPrototypes --------------------------
(***************************************************************************)
(* The declarations of the marshalling functions.  A type has a function to *)
(* unmarshal and one to marshal it, which may take a flag (that the null   *)
(* value is allowed), a selector (of a union) or a count (of an array), or *)
(* is defined as that of another type (USE_MARSHALING_DEFINES).            *)
(***************************************************************************)
EXTENDS TLC

Bare == [takes |-> "nothing", as |-> ""]
WithFlag == [takes |-> "flag", as |-> ""]
WithSelector == [takes |-> "selector", as |-> ""]
WithCount == [takes |-> "count", as |-> ""]
FlagAndCount == [takes |-> "flag and count", as |-> ""]
SameAs(type) == [takes |-> "nothing", as |-> type]
Undeclared == [takes |-> "undeclared", as |-> ""]
D(unmarshal, marshal) == [unmarshal |-> unmarshal, marshal |-> marshal]

-----------------------------------------------------------------------------
Declarations1 ==
    [UINT8 |-> D(Bare, Bare),
     BYTE |-> D(SameAs("UINT8"), SameAs("UINT8")),
     INT8 |-> D(SameAs("UINT8"), SameAs("UINT8")), UINT16 |-> D(Bare, Bare),
     INT16 |-> D(SameAs("UINT16"), SameAs("UINT16")), UINT32 |-> D(Bare, Bare),
     INT32 |-> D(SameAs("UINT32"), SameAs("UINT32")), UINT64 |-> D(Bare, Bare),
     INT64 |-> D(SameAs("UINT64"), SameAs("UINT64")),
     TPM_ALGORITHM_ID |-> D(SameAs("UINT32"), SameAs("UINT32")),
     TPM_MODIFIER_INDICATOR |-> D(SameAs("UINT32"), SameAs("UINT32"))]
Declarations2 ==
    [TPM_AUTHORIZATION_SIZE |-> D(SameAs("UINT32"), SameAs("UINT32")),
     TPM_PARAMETER_SIZE |-> D(SameAs("UINT32"), SameAs("UINT32")),
     TPM_KEY_SIZE |-> D(SameAs("UINT16"), SameAs("UINT16")),
     TPM_KEY_BITS |-> D(SameAs("UINT16"), SameAs("UINT16")),
     TPM_GENERATED |-> D(Undeclared, SameAs("UINT32")),
     TPM_ALG_ID |-> D(SameAs("UINT16"), SameAs("UINT16")),
     TPM_ECC_CURVE |-> D(Bare, SameAs("UINT16")),
     TPM_CC |-> D(SameAs("UINT32"), SameAs("UINT32")),
     TPM_RC |-> D(Undeclared, SameAs("UINT32")),
     TPM_CLOCK_ADJUST |-> D(Bare, Undeclared), TPM_EO |-> D(Bare, SameAs("UINT16"))]
Declarations3 ==
    [TPM_ST |-> D(SameAs("UINT16"), SameAs("UINT16")),
     TPM_SU |-> D(Bare, Undeclared), TPM_SE |-> D(Bare, Undeclared),
     TPM_CAP |-> D(Bare, SameAs("UINT32")),
     TPM_PT |-> D(SameAs("UINT32"), SameAs("UINT32")),
     TPM_PT_PCR |-> D(SameAs("UINT32"), SameAs("UINT32")),
     TPM_PS |-> D(Undeclared, SameAs("UINT32")),
     TPM_HANDLE |-> D(SameAs("UINT32"), SameAs("UINT32")),
     TPM_HT |-> D(SameAs("UINT8"), SameAs("UINT8")),
     TPM_RH |-> D(SameAs("TPM_HANDLE"), SameAs("TPM_HANDLE")),
     TPM_HC |-> D(SameAs("TPM_HANDLE"), SameAs("TPM_HANDLE"))]
Declarations4 ==
    [TPMA_ALGORITHM |-> D(Bare, SameAs("UINT32")),
     TPMA_OBJECT |-> D(Bare, SameAs("UINT32")),
     TPMA_SESSION |-> D(Bare, SameAs("UINT8")),
     TPMA_LOCALITY |-> D(SameAs("UINT8"), SameAs("UINT8")),
     TPMA_PERMANENT |-> D(Undeclared, SameAs("UINT32")),
     TPMA_STARTUP_CLEAR |-> D(Undeclared, SameAs("UINT32")),
     TPMA_MEMORY |-> D(Undeclared, SameAs("UINT32")),
     TPMA_CC |-> D(Undeclared, SameAs("TPM_CC")),
     TPMA_MODES |-> D(Undeclared, SameAs("UINT32")),
     TPMA_X509_KEY_USAGE |-> D(Undeclared, SameAs("UINT32")),
     TPMI_YES_NO |-> D(Bare, SameAs("BYTE")),
     TPMI_DH_OBJECT |-> D(WithFlag, SameAs("TPM_HANDLE")),
     TPMI_DH_PARENT |-> D(WithFlag, SameAs("TPM_HANDLE"))]
Declarations5 ==
    [TPMI_DH_PERSISTENT |-> D(Bare, SameAs("TPM_HANDLE")),
     TPMI_DH_ENTITY |-> D(WithFlag, Undeclared),
     TPMI_DH_PCR |-> D(WithFlag, Undeclared),
     TPMI_SH_AUTH_SESSION |-> D(WithFlag, SameAs("TPM_HANDLE")),
     TPMI_SH_HMAC |-> D(Bare, SameAs("TPM_HANDLE")),
     TPMI_SH_POLICY |-> D(Bare, SameAs("TPM_HANDLE")),
     TPMI_DH_CONTEXT |-> D(Bare, SameAs("TPM_HANDLE")),
     TPMI_DH_SAVED |-> D(Bare, SameAs("TPM_HANDLE")),
     TPMI_RH_HIERARCHY |-> D(WithFlag, SameAs("TPM_HANDLE")),
     TPMI_RH_ENABLES |-> D(WithFlag, SameAs("TPM_HANDLE")),
     TPMI_RH_HIERARCHY_AUTH |-> D(Bare, Undeclared),
     TPMI_RH_PLATFORM |-> D(Bare, Undeclared),
     TPMI_RH_OWNER |-> D(WithFlag, Undeclared),
     TPMI_RH_ENDORSEMENT |-> D(WithFlag, Undeclared),
     TPMI_RH_PROVISION |-> D(Bare, Undeclared), TPMI_RH_CLEAR |-> D(Bare, Undeclared),
     TPMI_RH_NV_AUTH |-> D(Bare, Undeclared), TPMI_RH_LOCKOUT |-> D(Bare, Undeclared),
     TPMI_RH_NV_INDEX |-> D(Bare, SameAs("TPM_HANDLE"))]
Declarations6 ==
    [TPMI_RH_AC |-> D(Bare, Undeclared),
     TPMI_ALG_HASH |-> D(WithFlag, SameAs("TPM_ALG_ID")),
     TPMI_ALG_ASYM |-> D(WithFlag, SameAs("TPM_ALG_ID")),
     TPMI_ALG_SYM |-> D(WithFlag, SameAs("TPM_ALG_ID")),
     TPMI_ALG_SYM_OBJECT |-> D(WithFlag, SameAs("TPM_ALG_ID")),
     TPMI_ALG_SYM_MODE |-> D(WithFlag, SameAs("TPM_ALG_ID")),
     TPMI_ALG_KDF |-> D(WithFlag, SameAs("TPM_ALG_ID")),
     TPMI_ALG_SIG_SCHEME |-> D(WithFlag, SameAs("TPM_ALG_ID")),
     TPMI_ECC_KEY_EXCHANGE |-> D(WithFlag, SameAs("TPM_ALG_ID")),
     TPMI_ST_COMMAND_TAG |-> D(Bare, SameAs("TPM_ST")),
     TPMI_ALG_MAC_SCHEME |-> D(WithFlag, SameAs("TPM_ALG_ID")),
     TPMI_ALG_CIPHER_MODE |-> D(WithFlag, SameAs("TPM_ALG_ID")),
     TPMS_EMPTY |-> D(Bare, Bare)]
Declarations7 ==
    [TPMS_ALGORITHM_DESCRIPTION |-> D(Undeclared, Bare),
     TPMU_HA |-> D(WithSelector, WithSelector), TPMT_HA |-> D(WithFlag, Bare),
     TPM2B_DIGEST |-> D(Bare, Bare), TPM2B_DATA |-> D(Bare, Bare),
     TPM2B_NONCE |-> D(SameAs("TPM2B_DIGEST"), SameAs("TPM2B_DIGEST")),
     TPM2B_AUTH |-> D(SameAs("TPM2B_DIGEST"), SameAs("TPM2B_DIGEST")),
     TPM2B_OPERAND |-> D(SameAs("TPM2B_DIGEST"), SameAs("TPM2B_DIGEST")),
     TPM2B_EVENT |-> D(Bare, Bare), TPM2B_MAX_BUFFER |-> D(Bare, Bare),
     TPM2B_MAX_NV_BUFFER |-> D(Bare, Bare), TPM2B_TIMEOUT |-> D(Bare, Bare),
     TPM2B_IV |-> D(Bare, Bare), TPM2B_NAME |-> D(Bare, Bare),
     TPMS_PCR_SELECT |-> D(Bare, Bare), TPMS_PCR_SELECTION |-> D(Bare, Bare),
     TPMT_TK_CREATION |-> D(Bare, Bare), TPMT_TK_VERIFIED |-> D(Bare, Bare),
     TPMT_TK_AUTH |-> D(Bare, Bare)]
Declarations8 ==
    [TPMT_TK_HASHCHECK |-> D(Bare, Bare),
     TPMS_ALG_PROPERTY |-> D(Undeclared, Bare),
     TPMS_TAGGED_PROPERTY |-> D(Undeclared, Bare),
     TPMS_TAGGED_PCR_SELECT |-> D(Undeclared, Bare),
     TPMS_TAGGED_POLICY |-> D(Undeclared, Bare), TPML_CC |-> D(Bare, Bare),
     TPML_CCA |-> D(Undeclared, Bare), TPML_ALG |-> D(Bare, Bare),
     TPML_HANDLE |-> D(Undeclared, Bare), TPML_DIGEST |-> D(Bare, Bare),
     TPML_DIGEST_VALUES |-> D(Bare, Bare), TPML_PCR_SELECTION |-> D(Bare, Bare),
     TPML_ALG_PROPERTY |-> D(Undeclared, Bare),
     TPML_TAGGED_TPM_PROPERTY |-> D(Undeclared, Bare),
     TPML_TAGGED_PCR_PROPERTY |-> D(Undeclared, Bare),
     TPML_ECC_CURVE |-> D(Undeclared, Bare),
     TPML_TAGGED_POLICY |-> D(Undeclared, Bare),
     TPMU_CAPABILITIES |-> D(Undeclared, WithSelector),
     TPMS_CAPABILITY_DATA |-> D(Undeclared, Bare), TPMS_CLOCK_INFO |-> D(Bare, Bare),
     TPMS_TIME_INFO |-> D(Bare, Bare), TPMS_TIME_ATTEST_INFO |-> D(Undeclared, Bare),
     TPMS_CERTIFY_INFO |-> D(Undeclared, Bare),
     TPMS_QUOTE_INFO |-> D(Undeclared, Bare),
     TPMS_COMMAND_AUDIT_INFO |-> D(Undeclared, Bare),
     TPMS_SESSION_AUDIT_INFO |-> D(Undeclared, Bare),
     TPMS_CREATION_INFO |-> D(Undeclared, Bare),
     TPMS_NV_CERTIFY_INFO |-> D(Undeclared, Bare),
     TPMS_NV_DIGEST_CERTIFY_INFO |-> D(Undeclared, Bare)]
Declarations9 ==
    [TPMI_ST_ATTEST |-> D(Undeclared, SameAs("TPM_ST")),
     TPMU_ATTEST |-> D(Undeclared, WithSelector), TPMS_ATTEST |-> D(Undeclared, Bare),
     TPM2B_ATTEST |-> D(Undeclared, Bare), TPMS_AUTH_COMMAND |-> D(Bare, Undeclared),
     TPMS_AUTH_RESPONSE |-> D(Undeclared, Bare),
     TPMI_TDES_KEY_BITS |-> D(Bare, SameAs("TPM_KEY_BITS")),
     TPMI_AES_KEY_BITS |-> D(Bare, SameAs("TPM_KEY_BITS")),
     TPMI_SM4_KEY_BITS |-> D(Bare, SameAs("TPM_KEY_BITS")),
     TPMI_CAMELLIA_KEY_BITS |-> D(Bare, SameAs("TPM_KEY_BITS")),
     TPMU_SYM_KEY_BITS |-> D(WithSelector, WithSelector),
     TPMU_SYM_MODE |-> D(WithSelector, WithSelector),
     TPMT_SYM_DEF |-> D(WithFlag, Bare), TPMT_SYM_DEF_OBJECT |-> D(WithFlag, Bare),
     TPM2B_SYM_KEY |-> D(Bare, Bare), TPMS_SYMCIPHER_PARMS |-> D(Bare, Bare),
     TPM2B_LABEL |-> D(Bare, Bare), TPMS_DERIVE |-> D(Bare, Bare),
     TPM2B_DERIVE |-> D(Bare, Bare)]
Declarations10 ==
    [TPM2B_SENSITIVE_DATA |-> D(Bare, Bare),
     TPMS_SENSITIVE_CREATE |-> D(Bare, Undeclared),
     TPM2B_SENSITIVE_CREATE |-> D(Bare, Undeclared),
     TPMS_SCHEME_HASH |-> D(Bare, Bare), TPMS_SCHEME_ECDAA |-> D(Bare, Bare),
     TPMI_ALG_KEYEDHASH_SCHEME |-> D(WithFlag, SameAs("TPM_ALG_ID")),
     TPMS_SCHEME_HMAC |-> D(SameAs("TPMS_SCHEME_HASH"), SameAs("TPMS_SCHEME_HASH")),
     TPMS_SCHEME_XOR |-> D(Bare, Bare),
     TPMU_SCHEME_KEYEDHASH |-> D(WithSelector, WithSelector),
     TPMT_KEYEDHASH_SCHEME |-> D(WithFlag, Bare),
     TPMS_SIG_SCHEME_RSASSA |-> D(SameAs("TPMS_SCHEME_HASH"), SameAs("TPMS_SCHEME_HASH")),
     TPMS_SIG_SCHEME_RSAPSS |-> D(SameAs("TPMS_SCHEME_HASH"), SameAs("TPMS_SCHEME_HASH"))]
Declarations11 ==
    [TPMS_SIG_SCHEME_ECDSA |-> D(SameAs("TPMS_SCHEME_HASH"),
     SameAs("TPMS_SCHEME_HASH")),
     TPMS_SIG_SCHEME_SM2 |-> D(SameAs("TPMS_SCHEME_HASH"), SameAs("TPMS_SCHEME_HASH")),
     TPMS_SIG_SCHEME_ECSCHNORR |-> D(SameAs("TPMS_SCHEME_HASH"), SameAs("TPMS_SCHEME_HASH")),
     TPMS_SIG_SCHEME_ECDAA |-> D(SameAs("TPMS_SCHEME_ECDAA"), SameAs("TPMS_SCHEME_ECDAA")),
     TPMU_SIG_SCHEME |-> D(WithSelector, WithSelector),
     TPMT_SIG_SCHEME |-> D(WithFlag, Bare),
     TPMS_ENC_SCHEME_OAEP |-> D(SameAs("TPMS_SCHEME_HASH"), SameAs("TPMS_SCHEME_HASH")),
     TPMS_ENC_SCHEME_RSAES |-> D(SameAs("TPMS_EMPTY"), SameAs("TPMS_EMPTY"))]
Declarations12 ==
    [TPMS_KEY_SCHEME_ECDH |-> D(SameAs("TPMS_SCHEME_HASH"),
     SameAs("TPMS_SCHEME_HASH")),
     TPMS_KEY_SCHEME_ECMQV |-> D(SameAs("TPMS_SCHEME_HASH"), SameAs("TPMS_SCHEME_HASH")),
     TPMS_SCHEME_MGF1 |-> D(SameAs("TPMS_SCHEME_HASH"), SameAs("TPMS_SCHEME_HASH")),
     TPMS_SCHEME_KDF1_SP800_56A |-> D(SameAs("TPMS_SCHEME_HASH"), SameAs("TPMS_SCHEME_HASH")),
     TPMS_SCHEME_KDF2 |-> D(SameAs("TPMS_SCHEME_HASH"), SameAs("TPMS_SCHEME_HASH")),
     TPMS_SCHEME_KDF1_SP800_108 |-> D(SameAs("TPMS_SCHEME_HASH"), SameAs("TPMS_SCHEME_HASH")),
     TPMU_KDF_SCHEME |-> D(WithSelector, WithSelector),
     TPMT_KDF_SCHEME |-> D(WithFlag, Bare),
     TPMI_ALG_ASYM_SCHEME |-> D(WithFlag, SameAs("TPM_ALG_ID"))]
Declarations13 ==
    [TPMU_ASYM_SCHEME |-> D(WithSelector, WithSelector),
     TPMI_ALG_RSA_SCHEME |-> D(WithFlag, SameAs("TPM_ALG_ID")),
     TPMT_RSA_SCHEME |-> D(WithFlag, Bare),
     TPMI_ALG_RSA_DECRYPT |-> D(WithFlag, SameAs("TPM_ALG_ID")),
     TPMT_RSA_DECRYPT |-> D(WithFlag, Bare), TPM2B_PUBLIC_KEY_RSA |-> D(Bare, Bare),
     TPMI_RSA_KEY_BITS |-> D(Bare, SameAs("TPM_KEY_BITS")),
     TPM2B_PRIVATE_KEY_RSA |-> D(Bare, Bare), TPM2B_ECC_PARAMETER |-> D(Bare, Bare),
     TPMS_ECC_POINT |-> D(Bare, Bare), TPM2B_ECC_POINT |-> D(Bare, Bare),
     TPMI_ALG_ECC_SCHEME |-> D(WithFlag, SameAs("TPM_ALG_ID")),
     TPMI_ECC_CURVE |-> D(Bare, SameAs("TPM_ECC_CURVE")),
     TPMT_ECC_SCHEME |-> D(WithFlag, Bare)]
Declarations14 ==
    [TPMS_ALGORITHM_DETAIL_ECC |-> D(Undeclared, Bare),
     TPMS_SIGNATURE_RSA |-> D(Bare, Bare),
     TPMS_SIGNATURE_RSASSA |-> D(SameAs("TPMS_SIGNATURE_RSA"), SameAs("TPMS_SIGNATURE_RSA")),
     TPMS_SIGNATURE_RSAPSS |-> D(SameAs("TPMS_SIGNATURE_RSA"), SameAs("TPMS_SIGNATURE_RSA")),
     TPMS_SIGNATURE_ECC |-> D(Bare, Bare),
     TPMS_SIGNATURE_ECDAA |-> D(SameAs("TPMS_SIGNATURE_ECC"), SameAs("TPMS_SIGNATURE_ECC")),
     TPMS_SIGNATURE_ECDSA |-> D(SameAs("TPMS_SIGNATURE_ECC"), SameAs("TPMS_SIGNATURE_ECC")),
     TPMS_SIGNATURE_SM2 |-> D(SameAs("TPMS_SIGNATURE_ECC"), SameAs("TPMS_SIGNATURE_ECC")),
     TPMS_SIGNATURE_ECSCHNORR |-> D(SameAs("TPMS_SIGNATURE_ECC"), SameAs("TPMS_SIGNATURE_ECC"))]
Declarations15 ==
    [TPMU_SIGNATURE |-> D(WithSelector, WithSelector),
     TPMT_SIGNATURE |-> D(WithFlag, Bare),
     TPMU_ENCRYPTED_SECRET |-> D(WithSelector, WithSelector),
     TPM2B_ENCRYPTED_SECRET |-> D(Bare, Bare),
     TPMI_ALG_PUBLIC |-> D(Bare, SameAs("TPM_ALG_ID")),
     TPMU_PUBLIC_ID |-> D(WithSelector, WithSelector),
     TPMS_KEYEDHASH_PARMS |-> D(Bare, Bare), TPMS_RSA_PARMS |-> D(Bare, Bare),
     TPMS_ECC_PARMS |-> D(Bare, Bare),
     TPMU_PUBLIC_PARMS |-> D(WithSelector, WithSelector),
     TPMT_PUBLIC_PARMS |-> D(Bare, Bare), TPMT_PUBLIC |-> D(WithFlag, Bare),
     TPM2B_PUBLIC |-> D(WithFlag, Bare), TPM2B_TEMPLATE |-> D(Bare, Bare),
     TPM2B_PRIVATE_VENDOR_SPECIFIC |-> D(Bare, Bare),
     TPMU_SENSITIVE_COMPOSITE |-> D(WithSelector, WithSelector),
     TPMT_SENSITIVE |-> D(Bare, Bare), TPM2B_SENSITIVE |-> D(Bare, Bare),
     TPM2B_PRIVATE |-> D(Bare, Bare)]
Declarations16 ==
    [TPM2B_ID_OBJECT |-> D(Bare, Bare),
     TPM_NV_INDEX |-> D(Undeclared, SameAs("UINT32")),
     TPMS_NV_PIN_COUNTER_PARAMETERS |-> D(Bare, Bare),
     TPMA_NV |-> D(Bare, SameAs("UINT32")), TPMS_NV_PUBLIC |-> D(Bare, Bare),
     TPM2B_NV_PUBLIC |-> D(Bare, Bare), TPM2B_CONTEXT_SENSITIVE |-> D(Bare, Bare),
     TPMS_CONTEXT_DATA |-> D(Bare, Bare), TPM2B_CONTEXT_DATA |-> D(Bare, Bare),
     TPMS_CONTEXT |-> D(Bare, Bare), TPMS_CREATION_DATA |-> D(Undeclared, Bare),
     TPM2B_CREATION_DATA |-> D(Undeclared, Bare), TPM_AT |-> D(Bare, SameAs("UINT32")),
     TPM_AE |-> D(Undeclared, SameAs("UINT32")),
     TPMS_AC_OUTPUT |-> D(Undeclared, Bare),
     TPML_AC_CAPABILITIES |-> D(Undeclared, Bare),
     BYTE_Array |-> D(WithCount, WithCount),
     TPM2B_DIGEST_Array |-> D(WithCount, WithCount),
     TPMA_CC_Array |-> D(Undeclared, WithCount),
     TPMS_AC_OUTPUT_Array |-> D(Undeclared, WithCount),
     TPMS_ALG_PROPERTY_Array |-> D(Undeclared, WithCount),
     TPMS_PCR_SELECTION_Array |-> D(WithCount, WithCount)]
Declarations17 ==
    [TPMS_TAGGED_PCR_SELECT_Array |-> D(Undeclared, WithCount),
     TPMS_TAGGED_POLICY_Array |-> D(Undeclared, WithCount),
     TPMS_TAGGED_PROPERTY_Array |-> D(Undeclared, WithCount),
     TPMT_HA_Array |-> D(FlagAndCount, WithCount),
     TPM_ALG_ID_Array |-> D(WithCount, WithCount),
     TPM_CC_Array |-> D(WithCount, WithCount),
     TPM_ECC_CURVE_Array |-> D(WithCount, WithCount),
     TPM_HANDLE_Array |-> D(WithCount, WithCount)]

-----------------------------------------------------------------------------
Declarations == Declarations1 @@ Declarations2 @@ Declarations3 @@ Declarations4 @@
                Declarations5 @@ Declarations6 @@ Declarations7 @@ Declarations8 @@
                Declarations9 @@ Declarations10 @@ Declarations11 @@ Declarations12 @@
                Declarations13 @@ Declarations14 @@ Declarations15 @@ Declarations16
                @@ Declarations17

\* The types whose functions ..._Unmarshal and ..._Marshal of a type are.
UnmarshalOf(t) ==
    LET once(u) == LET d == Declarations[u].unmarshal IN IF d.as = "" THEN u ELSE d.as
    IN  once(once(once(t)))
MarshalOf(t) ==
    LET once(u) == LET d == Declarations[u].marshal IN IF d.as = "" THEN u ELSE d.as
    IN  once(once(once(t)))
=============================================================================
