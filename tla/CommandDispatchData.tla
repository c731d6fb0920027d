------------------------ MODULE CommandDispatchData -------------------------
(***************************************************************************)
(* The tables that drive ParseHandleBuffer and CommandDispatcher: for each *)
(* command a descriptor with the list of the types of its handles, its     *)
(* parameters and its response, and the offsets at which they are kept in  *)
(* the command's input and output structures.                              *)
(*                                                                         *)
(* A type is a byte: an index into UnmarshalArray or MarshalArray, with a  *)
(* flag in the top bit.  An offset is the name of the field it is of.      *)
(***************************************************************************)
EXTENDS TLC, Integers, Sequences, TpmProfile

END_OF_LIST == 255
ADD_FLAG == 128

\* Handles that take no flag, handles that do, and the same for parameters.
PlainHandles ==
    <<"TPMI_DH_CONTEXT", "TPMI_RH_AC", "TPMI_RH_CLEAR", "TPMI_RH_HIERARCHY_AUTH",
      "TPMI_RH_LOCKOUT", "TPMI_RH_NV_AUTH", "TPMI_RH_NV_INDEX", "TPMI_RH_PLATFORM",
      "TPMI_RH_PROVISION", "TPMI_SH_HMAC", "TPMI_SH_POLICY">>
FlagHandles ==
    <<"TPMI_DH_ENTITY", "TPMI_DH_OBJECT", "TPMI_DH_PARENT", "TPMI_DH_PCR",
      "TPMI_RH_ENDORSEMENT", "TPMI_RH_HIERARCHY">>
PlainParameters ==
    <<"TPM2B_DATA", "TPM2B_DIGEST", "TPM2B_ECC_PARAMETER", "TPM2B_ECC_POINT",
      "TPM2B_ENCRYPTED_SECRET", "TPM2B_EVENT", "TPM2B_ID_OBJECT", "TPM2B_IV",
      "TPM2B_MAX_BUFFER", "TPM2B_MAX_NV_BUFFER", "TPM2B_NAME", "TPM2B_NV_PUBLIC",
      "TPM2B_PRIVATE", "TPM2B_PUBLIC_KEY_RSA", "TPM2B_SENSITIVE",
      "TPM2B_SENSITIVE_CREATE", "TPM2B_SENSITIVE_DATA", "TPM2B_TEMPLATE",
      "TPM2B_TIMEOUT", "TPMI_DH_CONTEXT", "TPMI_DH_PERSISTENT", "TPMI_ECC_CURVE",
      "TPMI_YES_NO", "TPML_ALG", "TPML_CC", "TPML_DIGEST", "TPML_DIGEST_VALUES",
      "TPML_PCR_SELECTION", "TPMS_CONTEXT", "TPMT_PUBLIC_PARMS", "TPMT_TK_AUTH",
      "TPMT_TK_CREATION", "TPMT_TK_HASHCHECK", "TPMT_TK_VERIFIED", "TPM_AT", "TPM_CAP",
      "TPM_CLOCK_ADJUST", "TPM_EO", "TPM_SE", "TPM_SU", "UINT16", "UINT32", "UINT64",
      "UINT8">>
FlagParameters ==
    <<"TPM2B_PUBLIC", "TPMI_ALG_CIPHER_MODE", "TPMI_ALG_HASH", "TPMI_ALG_MAC_SCHEME",
      "TPMI_DH_PCR", "TPMI_ECC_KEY_EXCHANGE", "TPMI_RH_ENABLES", "TPMI_RH_HIERARCHY",
      "TPMT_RSA_DECRYPT", "TPMT_SIGNATURE", "TPMT_SIG_SCHEME", "TPMT_SYM_DEF",
      "TPMT_SYM_DEF_OBJECT">>
UnmarshalArray == PlainHandles \o FlagHandles \o PlainParameters \o FlagParameters

HANDLE_FIRST_FLAG_TYPE == Len(PlainHandles)
PARAMETER_FIRST_TYPE == HANDLE_FIRST_FLAG_TYPE + Len(FlagHandles)
PARAMETER_FIRST_FLAG_TYPE == PARAMETER_FIRST_TYPE + Len(PlainParameters)
PARAMETER_LAST_TYPE == Len(UnmarshalArray) - 1

\* The first is for handles.
MarshalArray ==
    <<"UINT32", "TPM2B_ATTEST", "TPM2B_CREATION_DATA", "TPM2B_DATA", "TPM2B_DIGEST",
      "TPM2B_ECC_POINT", "TPM2B_ENCRYPTED_SECRET", "TPM2B_ID_OBJECT", "TPM2B_IV",
      "TPM2B_MAX_BUFFER", "TPM2B_MAX_NV_BUFFER", "TPM2B_NAME", "TPM2B_NV_PUBLIC",
      "TPM2B_PRIVATE", "TPM2B_PUBLIC", "TPM2B_PUBLIC_KEY_RSA", "TPM2B_SENSITIVE_DATA",
      "TPM2B_TIMEOUT", "UINT8", "TPML_AC_CAPABILITIES", "TPML_ALG", "TPML_DIGEST",
      "TPML_DIGEST_VALUES", "TPML_PCR_SELECTION", "TPMS_AC_OUTPUT",
      "TPMS_ALGORITHM_DETAIL_ECC", "TPMS_CAPABILITY_DATA", "TPMS_CONTEXT",
      "TPMS_TIME_INFO", "TPMT_HA", "TPMT_SIGNATURE", "TPMT_TK_AUTH",
      "TPMT_TK_CREATION", "TPMT_TK_HASHCHECK", "TPMT_TK_VERIFIED", "UINT32", "UINT16">>
RESPONSE_PARAMETER_FIRST_TYPE == 1
RESPONSE_PARAMETER_LAST_TYPE == Len(MarshalArray) - 1

\* Types of the command descriptions that are others in the arrays.
UnmarshalAlias(t) ==
    CASE t \in {"INT32", "TPM_CC"} -> "UINT32"
      [] t \in {"TPM2B_AUTH", "TPM2B_NONCE", "TPM2B_OPERAND"} -> "TPM2B_DIGEST"
      [] t \in {"TPMA_LOCALITY"} -> "UINT8"
      [] OTHER -> t

\* The same for responses; all handles are marshalled as a UINT32.
MarshalAlias(t) ==
    CASE t \in {"TPMI_DH_CONTEXT", "TPMI_DH_OBJECT", "TPMI_SH_AUTH_SESSION",
               "TPM_HANDLE", "TPM_RC"} -> "UINT32"
      [] t \in {"TPM2B_NONCE"} -> "TPM2B_DIGEST"
      [] t \in {"TPMI_YES_NO"} -> "UINT8"
      [] OTHER -> t

\* The byte for a type in the section that begins at first.
TypeIndex(array, first, t) ==
    CHOOSE i \in first..(Len(array) - 1) : array[i + 1] = t
H(t) == TypeIndex(UnmarshalArray, 0, UnmarshalAlias(t))
P(t) == TypeIndex(UnmarshalArray, PARAMETER_FIRST_TYPE, UnmarshalAlias(t))
RH(t) == TypeIndex(MarshalArray, 0, MarshalAlias(t))
RP(t) == TypeIndex(MarshalArray, RESPONSE_PARAMETER_FIRST_TYPE, MarshalAlias(t))

In(field) == <<"In", field>>
Out(field) == <<"Out", field>>
Desc(entry, hasIn, hasOut, offsets, types) ==
    [entry |-> entry, inSize |-> hasIn, outSize |-> hasOut,
     offsets |-> offsets, types |-> types]

-----------------------------------------------------------------------------
CommandData1 ==
    [Startup |-> Desc("Startup", TRUE, FALSE, <<>>,
         <<P("TPM_SU"), END_OF_LIST, END_OF_LIST>>),
     Shutdown |-> Desc("Shutdown", TRUE, FALSE, <<>>,
         <<P("TPM_SU"), END_OF_LIST, END_OF_LIST>>),
     SelfTest |-> Desc("SelfTest", TRUE, FALSE, <<>>,
         <<P("TPMI_YES_NO"), END_OF_LIST, END_OF_LIST>>),
     IncrementalSelfTest |-> Desc("IncrementalSelfTest", TRUE, TRUE, <<>>,
         <<P("TPML_ALG"), END_OF_LIST, RP("TPML_ALG"), END_OF_LIST>>)]
CommandData2 ==
    [GetTestResult |-> Desc("GetTestResult", FALSE, TRUE, <<Out("testResult")>>,
         <<END_OF_LIST, RP("TPM2B_MAX_BUFFER"), RP("TPM_RC"), END_OF_LIST>>),
     StartAuthSession |-> Desc("StartAuthSession", TRUE, TRUE,
         <<In("bind"), In("nonceCaller"), In("encryptedSalt"), In("sessionType"),
             In("symmetric"), In("authHash"), Out("nonceTPM")>>,
         <<H("TPMI_DH_OBJECT") + ADD_FLAG, H("TPMI_DH_ENTITY") + ADD_FLAG,
             P("TPM2B_NONCE"), P("TPM2B_ENCRYPTED_SECRET"), P("TPM_SE"),
             P("TPMT_SYM_DEF") + ADD_FLAG, P("TPMI_ALG_HASH"), END_OF_LIST,
             RH("TPMI_SH_AUTH_SESSION"), RP("TPM2B_NONCE"), END_OF_LIST>>),
     PolicyRestart |-> Desc("PolicyRestart", TRUE, FALSE, <<>>,
         <<H("TPMI_SH_POLICY"), END_OF_LIST, END_OF_LIST>>)]
CommandData3 ==
    [Create |-> Desc("Create", TRUE, TRUE,
         <<In("inSensitive"), In("inPublic"), In("outsideInfo"), In("creationPCR"),
             Out("outPublic"), Out("creationData"), Out("creationHash"),
             Out("creationTicket")>>,
         <<H("TPMI_DH_OBJECT"), P("TPM2B_SENSITIVE_CREATE"), P("TPM2B_PUBLIC"),
             P("TPM2B_DATA"), P("TPML_PCR_SELECTION"), END_OF_LIST, RP("TPM2B_PRIVATE"),
             RP("TPM2B_PUBLIC"), RP("TPM2B_CREATION_DATA"), RP("TPM2B_DIGEST"),
             RP("TPMT_TK_CREATION"), END_OF_LIST>>),
     Load |-> Desc("Load", TRUE, TRUE, <<In("inPrivate"), In("inPublic"), Out("name")>>,
         <<H("TPMI_DH_OBJECT"), P("TPM2B_PRIVATE"), P("TPM2B_PUBLIC"), END_OF_LIST,
             RH("TPM_HANDLE"), RP("TPM2B_NAME"), END_OF_LIST>>),
     LoadExternal |-> Desc("LoadExternal", TRUE, TRUE,
         <<In("inPublic"), In("hierarchy"), Out("name")>>,
         <<P("TPM2B_SENSITIVE"), P("TPM2B_PUBLIC") + ADD_FLAG,
             P("TPMI_RH_HIERARCHY") + ADD_FLAG, END_OF_LIST, RH("TPM_HANDLE"),
             RP("TPM2B_NAME"), END_OF_LIST>>)]
CommandData4 ==
    [ReadPublic |-> Desc("ReadPublic", TRUE, TRUE,
         <<Out("name"), Out("qualifiedName")>>,
         <<H("TPMI_DH_OBJECT"), END_OF_LIST, RP("TPM2B_PUBLIC"), RP("TPM2B_NAME"),
             RP("TPM2B_NAME"), END_OF_LIST>>),
     ActivateCredential |-> Desc("ActivateCredential", TRUE, TRUE,
         <<In("keyHandle"), In("credentialBlob"), In("secret")>>,
         <<H("TPMI_DH_OBJECT"), H("TPMI_DH_OBJECT"), P("TPM2B_ID_OBJECT"),
             P("TPM2B_ENCRYPTED_SECRET"), END_OF_LIST, RP("TPM2B_DIGEST"),
             END_OF_LIST>>),
     MakeCredential |-> Desc("MakeCredential", TRUE, TRUE,
         <<In("credential"), In("objectName"), Out("secret")>>,
         <<H("TPMI_DH_OBJECT"), P("TPM2B_DIGEST"), P("TPM2B_NAME"), END_OF_LIST,
             RP("TPM2B_ID_OBJECT"), RP("TPM2B_ENCRYPTED_SECRET"), END_OF_LIST>>)]
CommandData5 ==
    [Unseal |-> Desc("Unseal", TRUE, TRUE, <<>>,
         <<H("TPMI_DH_OBJECT"), END_OF_LIST, RP("TPM2B_SENSITIVE_DATA"), END_OF_LIST>>),
     ObjectChangeAuth |-> Desc("ObjectChangeAuth", TRUE, TRUE,
         <<In("parentHandle"), In("newAuth")>>,
         <<H("TPMI_DH_OBJECT"), H("TPMI_DH_OBJECT"), P("TPM2B_AUTH"), END_OF_LIST,
             RP("TPM2B_PRIVATE"), END_OF_LIST>>),
     CreateLoaded |-> Desc("CreateLoaded", TRUE, TRUE,
         <<In("inSensitive"), In("inPublic"), Out("outPrivate"), Out("outPublic"),
             Out("name")>>,
         <<H("TPMI_DH_PARENT") + ADD_FLAG, P("TPM2B_SENSITIVE_CREATE"),
             P("TPM2B_TEMPLATE"), END_OF_LIST, RH("TPM_HANDLE"), RP("TPM2B_PRIVATE"),
             RP("TPM2B_PUBLIC"), RP("TPM2B_NAME"), END_OF_LIST>>)]
CommandData6 ==
    [Duplicate |-> Desc("Duplicate", TRUE, TRUE,
         <<In("newParentHandle"), In("encryptionKeyIn"), In("symmetricAlg"),
             Out("duplicate"), Out("outSymSeed")>>,
         <<H("TPMI_DH_OBJECT"), H("TPMI_DH_OBJECT") + ADD_FLAG, P("TPM2B_DATA"),
             P("TPMT_SYM_DEF_OBJECT") + ADD_FLAG, END_OF_LIST, RP("TPM2B_DATA"),
             RP("TPM2B_PRIVATE"), RP("TPM2B_ENCRYPTED_SECRET"), END_OF_LIST>>),
     Rewrap |-> Desc("Rewrap", TRUE, TRUE,
         <<In("newParent"), In("inDuplicate"), In("name"), In("inSymSeed"),
             Out("outSymSeed")>>,
         <<H("TPMI_DH_OBJECT") + ADD_FLAG, H("TPMI_DH_OBJECT") + ADD_FLAG,
             P("TPM2B_PRIVATE"), P("TPM2B_NAME"), P("TPM2B_ENCRYPTED_SECRET"),
             END_OF_LIST, RP("TPM2B_PRIVATE"), RP("TPM2B_ENCRYPTED_SECRET"),
             END_OF_LIST>>),
     Import |-> Desc("Import", TRUE, TRUE,
         <<In("encryptionKey"), In("objectPublic"), In("duplicate"), In("inSymSeed"),
             In("symmetricAlg")>>,
         <<H("TPMI_DH_OBJECT"), P("TPM2B_DATA"), P("TPM2B_PUBLIC"), P("TPM2B_PRIVATE"),
             P("TPM2B_ENCRYPTED_SECRET"), P("TPMT_SYM_DEF_OBJECT") + ADD_FLAG,
             END_OF_LIST, RP("TPM2B_PRIVATE"), END_OF_LIST>>)]
CommandData7 ==
    [RSA_Encrypt |-> Desc("RSA_Encrypt", TRUE, TRUE,
         <<In("message"), In("inScheme"), In("label")>>,
         <<H("TPMI_DH_OBJECT"), P("TPM2B_PUBLIC_KEY_RSA"),
             P("TPMT_RSA_DECRYPT") + ADD_FLAG, P("TPM2B_DATA"), END_OF_LIST,
             RP("TPM2B_PUBLIC_KEY_RSA"), END_OF_LIST>>),
     RSA_Decrypt |-> Desc("RSA_Decrypt", TRUE, TRUE,
         <<In("cipherText"), In("inScheme"), In("label")>>,
         <<H("TPMI_DH_OBJECT"), P("TPM2B_PUBLIC_KEY_RSA"),
             P("TPMT_RSA_DECRYPT") + ADD_FLAG, P("TPM2B_DATA"), END_OF_LIST,
             RP("TPM2B_PUBLIC_KEY_RSA"), END_OF_LIST>>),
     ECDH_KeyGen |-> Desc("ECDH_KeyGen", TRUE, TRUE, <<Out("pubPoint")>>,
         <<H("TPMI_DH_OBJECT"), END_OF_LIST, RP("TPM2B_ECC_POINT"),
             RP("TPM2B_ECC_POINT"), END_OF_LIST>>)]
CommandData8 ==
    [ECDH_ZGen |-> Desc("ECDH_ZGen", TRUE, TRUE, <<In("inPoint")>>,
         <<H("TPMI_DH_OBJECT"), P("TPM2B_ECC_POINT"), END_OF_LIST,
             RP("TPM2B_ECC_POINT"), END_OF_LIST>>),
     ECC_Parameters |-> Desc("ECC_Parameters", TRUE, TRUE, <<>>,
         <<P("TPMI_ECC_CURVE"), END_OF_LIST, RP("TPMS_ALGORITHM_DETAIL_ECC"),
             END_OF_LIST>>),
     ZGen_2Phase |-> Desc("ZGen_2Phase", TRUE, TRUE,
         <<In("inQsB"), In("inQeB"), In("inScheme"), In("counter"), Out("outZ2")>>,
         <<H("TPMI_DH_OBJECT"), P("TPM2B_ECC_POINT"), P("TPM2B_ECC_POINT"),
             P("TPMI_ECC_KEY_EXCHANGE"), P("UINT16"), END_OF_LIST,
             RP("TPM2B_ECC_POINT"), RP("TPM2B_ECC_POINT"), END_OF_LIST>>)]
CommandData9 ==
    [EncryptDecrypt |-> Desc("EncryptDecrypt", TRUE, TRUE,
         <<In("decrypt"), In("mode"), In("ivIn"), In("inData"), Out("ivOut")>>,
         <<H("TPMI_DH_OBJECT"), P("TPMI_YES_NO"), P("TPMI_ALG_CIPHER_MODE") + ADD_FLAG,
             P("TPM2B_IV"), P("TPM2B_MAX_BUFFER"), END_OF_LIST, RP("TPM2B_MAX_BUFFER"),
             RP("TPM2B_IV"), END_OF_LIST>>),
     EncryptDecrypt2 |-> Desc("EncryptDecrypt2", TRUE, TRUE,
         <<In("inData"), In("decrypt"), In("mode"), In("ivIn"), Out("ivOut")>>,
         <<H("TPMI_DH_OBJECT"), P("TPM2B_MAX_BUFFER"), P("TPMI_YES_NO"),
             P("TPMI_ALG_CIPHER_MODE") + ADD_FLAG, P("TPM2B_IV"), END_OF_LIST,
             RP("TPM2B_MAX_BUFFER"), RP("TPM2B_IV"), END_OF_LIST>>),
     Hash |-> Desc("Hash", TRUE, TRUE,
         <<In("hashAlg"), In("hierarchy"), Out("validation")>>,
         <<P("TPM2B_MAX_BUFFER"), P("TPMI_ALG_HASH"), P("TPMI_RH_HIERARCHY") + ADD_FLAG,
             END_OF_LIST, RP("TPM2B_DIGEST"), RP("TPMT_TK_HASHCHECK"), END_OF_LIST>>)]
CommandData10 ==
    [HMAC |-> Desc("HMAC", TRUE, TRUE, <<In("buffer"), In("hashAlg")>>,
         <<H("TPMI_DH_OBJECT"), P("TPM2B_MAX_BUFFER"), P("TPMI_ALG_HASH") + ADD_FLAG,
             END_OF_LIST, RP("TPM2B_DIGEST"), END_OF_LIST>>),
     MAC |-> Desc("MAC", TRUE, TRUE, <<In("buffer"), In("inScheme")>>,
         <<H("TPMI_DH_OBJECT"), P("TPM2B_MAX_BUFFER"),
             P("TPMI_ALG_MAC_SCHEME") + ADD_FLAG, END_OF_LIST, RP("TPM2B_DIGEST"),
             END_OF_LIST>>),
     GetRandom |-> Desc("GetRandom", TRUE, TRUE, <<>>,
         <<P("UINT16"), END_OF_LIST, RP("TPM2B_DIGEST"), END_OF_LIST>>),
     StirRandom |-> Desc("StirRandom", TRUE, FALSE, <<>>,
         <<P("TPM2B_SENSITIVE_DATA"), END_OF_LIST, END_OF_LIST>>)]
CommandData11 ==
    [HMAC_Start |-> Desc("HMAC_Start", TRUE, TRUE, <<In("auth"), In("hashAlg")>>,
         <<H("TPMI_DH_OBJECT"), P("TPM2B_AUTH"), P("TPMI_ALG_HASH") + ADD_FLAG,
             END_OF_LIST, RH("TPMI_DH_OBJECT"), END_OF_LIST>>),
     MAC_Start |-> Desc("MAC_Start", TRUE, TRUE, <<In("auth"), In("inScheme")>>,
         <<H("TPMI_DH_OBJECT"), P("TPM2B_AUTH"), P("TPMI_ALG_MAC_SCHEME") + ADD_FLAG,
             END_OF_LIST, RH("TPMI_DH_OBJECT"), END_OF_LIST>>),
     HashSequenceStart |-> Desc("HashSequenceStart", TRUE, TRUE, <<In("hashAlg")>>,
         <<P("TPM2B_AUTH"), P("TPMI_ALG_HASH") + ADD_FLAG, END_OF_LIST,
             RH("TPMI_DH_OBJECT"), END_OF_LIST>>),
     SequenceUpdate |-> Desc("SequenceUpdate", TRUE, FALSE, <<In("buffer")>>,
         <<H("TPMI_DH_OBJECT"), P("TPM2B_MAX_BUFFER"), END_OF_LIST, END_OF_LIST>>)]
CommandData12 ==
    [SequenceComplete |-> Desc("SequenceComplete", TRUE, TRUE,
         <<In("buffer"), In("hierarchy"), Out("validation")>>,
         <<H("TPMI_DH_OBJECT"), P("TPM2B_MAX_BUFFER"),
             P("TPMI_RH_HIERARCHY") + ADD_FLAG, END_OF_LIST, RP("TPM2B_DIGEST"),
             RP("TPMT_TK_HASHCHECK"), END_OF_LIST>>),
     EventSequenceComplete |-> Desc("EventSequenceComplete", TRUE, TRUE,
         <<In("sequenceHandle"), In("buffer")>>,
         <<H("TPMI_DH_PCR") + ADD_FLAG, H("TPMI_DH_OBJECT"), P("TPM2B_MAX_BUFFER"),
             END_OF_LIST, RP("TPML_DIGEST_VALUES"), END_OF_LIST>>),
     Certify |-> Desc("Certify", TRUE, TRUE,
         <<In("signHandle"), In("qualifyingData"), In("inScheme"), Out("signature")>>,
         <<H("TPMI_DH_OBJECT"), H("TPMI_DH_OBJECT") + ADD_FLAG, P("TPM2B_DATA"),
             P("TPMT_SIG_SCHEME") + ADD_FLAG, END_OF_LIST, RP("TPM2B_ATTEST"),
             RP("TPMT_SIGNATURE"), END_OF_LIST>>)]
CommandData13 ==
    [CertifyCreation |-> Desc("CertifyCreation", TRUE, TRUE,
         <<In("objectHandle"), In("qualifyingData"), In("creationHash"), In("inScheme"),
             In("creationTicket"), Out("signature")>>,
         <<H("TPMI_DH_OBJECT") + ADD_FLAG, H("TPMI_DH_OBJECT"), P("TPM2B_DATA"),
             P("TPM2B_DIGEST"), P("TPMT_SIG_SCHEME") + ADD_FLAG, P("TPMT_TK_CREATION"),
             END_OF_LIST, RP("TPM2B_ATTEST"), RP("TPMT_SIGNATURE"), END_OF_LIST>>),
     Quote |-> Desc("Quote", TRUE, TRUE,
         <<In("qualifyingData"), In("inScheme"), In("PCRselect"), Out("signature")>>,
         <<H("TPMI_DH_OBJECT") + ADD_FLAG, P("TPM2B_DATA"),
             P("TPMT_SIG_SCHEME") + ADD_FLAG, P("TPML_PCR_SELECTION"), END_OF_LIST,
             RP("TPM2B_ATTEST"), RP("TPMT_SIGNATURE"), END_OF_LIST>>),
     GetSessionAuditDigest |-> Desc("GetSessionAuditDigest", TRUE, TRUE,
         <<In("signHandle"), In("sessionHandle"), In("qualifyingData"), In("inScheme"),
             Out("signature")>>,
         <<H("TPMI_RH_ENDORSEMENT"), H("TPMI_DH_OBJECT") + ADD_FLAG, H("TPMI_SH_HMAC"),
             P("TPM2B_DATA"), P("TPMT_SIG_SCHEME") + ADD_FLAG, END_OF_LIST,
             RP("TPM2B_ATTEST"), RP("TPMT_SIGNATURE"), END_OF_LIST>>)]
CommandData14 ==
    [GetCommandAuditDigest |-> Desc("GetCommandAuditDigest", TRUE, TRUE,
         <<In("signHandle"), In("qualifyingData"), In("inScheme"), Out("signature")>>,
         <<H("TPMI_RH_ENDORSEMENT"), H("TPMI_DH_OBJECT") + ADD_FLAG, P("TPM2B_DATA"),
             P("TPMT_SIG_SCHEME") + ADD_FLAG, END_OF_LIST, RP("TPM2B_ATTEST"),
             RP("TPMT_SIGNATURE"), END_OF_LIST>>),
     GetTime |-> Desc("GetTime", TRUE, TRUE,
         <<In("signHandle"), In("qualifyingData"), In("inScheme"), Out("signature")>>,
         <<H("TPMI_RH_ENDORSEMENT"), H("TPMI_DH_OBJECT") + ADD_FLAG, P("TPM2B_DATA"),
             P("TPMT_SIG_SCHEME") + ADD_FLAG, END_OF_LIST, RP("TPM2B_ATTEST"),
             RP("TPMT_SIGNATURE"), END_OF_LIST>>),
     CertifyX509 |-> Desc("CertifyX509", TRUE, TRUE,
         <<In("signHandle"), In("qualifyingData"), In("inScheme"),
             In("partialCertificate"), Out("tbsDigest"), Out("signature")>>,
         <<H("TPMI_DH_OBJECT"), H("TPMI_DH_OBJECT") + ADD_FLAG, P("TPM2B_DATA"),
             P("TPMT_SIG_SCHEME") + ADD_FLAG, P("TPM2B_MAX_BUFFER"), END_OF_LIST,
             RP("TPM2B_MAX_BUFFER"), RP("TPM2B_DIGEST"), RP("TPMT_SIGNATURE"),
             END_OF_LIST>>)]
CommandData15 ==
    [Commit |-> Desc("Commit", TRUE, TRUE,
         <<In("P1"), In("s2"), In("y2"), Out("L"), Out("E"), Out("counter")>>,
         <<H("TPMI_DH_OBJECT"), P("TPM2B_ECC_POINT"), P("TPM2B_SENSITIVE_DATA"),
             P("TPM2B_ECC_PARAMETER"), END_OF_LIST, RP("TPM2B_ECC_POINT"),
             RP("TPM2B_ECC_POINT"), RP("TPM2B_ECC_POINT"), RP("UINT16"), END_OF_LIST>>),
     EC_Ephemeral |-> Desc("EC_Ephemeral", TRUE, TRUE, <<Out("counter")>>,
         <<P("TPMI_ECC_CURVE"), END_OF_LIST, RP("TPM2B_ECC_POINT"), RP("UINT16"),
             END_OF_LIST>>),
     VerifySignature |-> Desc("VerifySignature", TRUE, TRUE,
         <<In("digest"), In("signature")>>,
         <<H("TPMI_DH_OBJECT"), P("TPM2B_DIGEST"), P("TPMT_SIGNATURE"), END_OF_LIST,
             RP("TPMT_TK_VERIFIED"), END_OF_LIST>>)]
CommandData16 ==
    [Sign |-> Desc("Sign", TRUE, TRUE,
         <<In("digest"), In("inScheme"), In("validation")>>,
         <<H("TPMI_DH_OBJECT"), P("TPM2B_DIGEST"), P("TPMT_SIG_SCHEME") + ADD_FLAG,
             P("TPMT_TK_HASHCHECK"), END_OF_LIST, RP("TPMT_SIGNATURE"), END_OF_LIST>>),
     SetCommandCodeAuditStatus |-> Desc("SetCommandCodeAuditStatus", TRUE, FALSE,
         <<In("auditAlg"), In("setList"), In("clearList")>>,
         <<H("TPMI_RH_PROVISION"), P("TPMI_ALG_HASH") + ADD_FLAG, P("TPML_CC"),
             P("TPML_CC"), END_OF_LIST, END_OF_LIST>>),
     PCR_Extend |-> Desc("PCR_Extend", TRUE, FALSE, <<In("digests")>>,
         <<H("TPMI_DH_PCR") + ADD_FLAG, P("TPML_DIGEST_VALUES"), END_OF_LIST,
             END_OF_LIST>>),
     PCR_Event |-> Desc("PCR_Event", TRUE, TRUE, <<In("eventData")>>,
         <<H("TPMI_DH_PCR") + ADD_FLAG, P("TPM2B_EVENT"), END_OF_LIST,
             RP("TPML_DIGEST_VALUES"), END_OF_LIST>>)]
CommandData17 ==
    [PCR_Read |-> Desc("PCR_Read", TRUE, TRUE,
         <<Out("pcrSelectionOut"), Out("pcrValues")>>,
         <<P("TPML_PCR_SELECTION"), END_OF_LIST, RP("UINT32"), RP("TPML_PCR_SELECTION"),
             RP("TPML_DIGEST"), END_OF_LIST>>),
     PCR_Allocate |-> Desc("PCR_Allocate", TRUE, TRUE,
         <<In("pcrAllocation"), Out("maxPCR"), Out("sizeNeeded"),
             Out("sizeAvailable")>>,
         <<H("TPMI_RH_PLATFORM"), P("TPML_PCR_SELECTION"), END_OF_LIST,
             RP("TPMI_YES_NO"), RP("UINT32"), RP("UINT32"), RP("UINT32"),
             END_OF_LIST>>),
     PCR_SetAuthPolicy |-> Desc("PCR_SetAuthPolicy", TRUE, FALSE,
         <<In("authPolicy"), In("hashAlg"), In("pcrNum")>>,
         <<H("TPMI_RH_PLATFORM"), P("TPM2B_DIGEST"), P("TPMI_ALG_HASH") + ADD_FLAG,
             P("TPMI_DH_PCR"), END_OF_LIST, END_OF_LIST>>)]
CommandData18 ==
    [PCR_SetAuthValue |-> Desc("PCR_SetAuthValue", TRUE, FALSE, <<In("auth")>>,
         <<H("TPMI_DH_PCR"), P("TPM2B_DIGEST"), END_OF_LIST, END_OF_LIST>>),
     PCR_Reset |-> Desc("PCR_Reset", TRUE, FALSE, <<>>,
         <<H("TPMI_DH_PCR"), END_OF_LIST, END_OF_LIST>>),
     PolicySigned |-> Desc("PolicySigned", TRUE, TRUE,
         <<In("policySession"), In("nonceTPM"), In("cpHashA"), In("policyRef"),
             In("expiration"), In("auth"), Out("policyTicket")>>,
         <<H("TPMI_DH_OBJECT"), H("TPMI_SH_POLICY"), P("TPM2B_NONCE"),
             P("TPM2B_DIGEST"), P("TPM2B_NONCE"), P("INT32"), P("TPMT_SIGNATURE"),
             END_OF_LIST, RP("TPM2B_TIMEOUT"), RP("TPMT_TK_AUTH"), END_OF_LIST>>)]
CommandData19 ==
    [PolicySecret |-> Desc("PolicySecret", TRUE, TRUE,
         <<In("policySession"), In("nonceTPM"), In("cpHashA"), In("policyRef"),
             In("expiration"), Out("policyTicket")>>,
         <<H("TPMI_DH_ENTITY"), H("TPMI_SH_POLICY"), P("TPM2B_NONCE"),
             P("TPM2B_DIGEST"), P("TPM2B_NONCE"), P("INT32"), END_OF_LIST,
             RP("TPM2B_TIMEOUT"), RP("TPMT_TK_AUTH"), END_OF_LIST>>),
     PolicyTicket |-> Desc("PolicyTicket", TRUE, FALSE,
         <<In("timeout"), In("cpHashA"), In("policyRef"), In("authName"),
             In("ticket")>>,
         <<H("TPMI_SH_POLICY"), P("TPM2B_TIMEOUT"), P("TPM2B_DIGEST"), P("TPM2B_NONCE"),
             P("TPM2B_NAME"), P("TPMT_TK_AUTH"), END_OF_LIST, END_OF_LIST>>),
     PolicyOR |-> Desc("PolicyOR", TRUE, FALSE, <<In("pHashList")>>,
         <<H("TPMI_SH_POLICY"), P("TPML_DIGEST"), END_OF_LIST, END_OF_LIST>>)]
CommandData20 ==
    [PolicyPCR |-> Desc("PolicyPCR", TRUE, FALSE, <<In("pcrDigest"), In("pcrs")>>,
         <<H("TPMI_SH_POLICY"), P("TPM2B_DIGEST"), P("TPML_PCR_SELECTION"), END_OF_LIST,
             END_OF_LIST>>),
     PolicyLocality |-> Desc("PolicyLocality", TRUE, FALSE, <<In("locality")>>,
         <<H("TPMI_SH_POLICY"), P("TPMA_LOCALITY"), END_OF_LIST, END_OF_LIST>>),
     PolicyNV |-> Desc("PolicyNV", TRUE, FALSE,
         <<In("nvIndex"), In("policySession"), In("operandB"), In("offset"),
             In("operation")>>,
         <<H("TPMI_RH_NV_AUTH"), H("TPMI_RH_NV_INDEX"), H("TPMI_SH_POLICY"),
             P("TPM2B_OPERAND"), P("UINT16"), P("TPM_EO"), END_OF_LIST, END_OF_LIST>>),
     PolicyCounterTimer |-> Desc("PolicyCounterTimer", TRUE, FALSE,
         <<In("operandB"), In("offset"), In("operation")>>,
         <<H("TPMI_SH_POLICY"), P("TPM2B_OPERAND"), P("UINT16"), P("TPM_EO"),
             END_OF_LIST, END_OF_LIST>>)]
CommandData21 ==
    [PolicyCommandCode |-> Desc("PolicyCommandCode", TRUE, FALSE, <<In("code")>>,
         <<H("TPMI_SH_POLICY"), P("TPM_CC"), END_OF_LIST, END_OF_LIST>>),
     PolicyPhysicalPresence |-> Desc("PolicyPhysicalPresence", TRUE, FALSE, <<>>,
         <<H("TPMI_SH_POLICY"), END_OF_LIST, END_OF_LIST>>),
     PolicyCpHash |-> Desc("PolicyCpHash", TRUE, FALSE, <<In("cpHashA")>>,
         <<H("TPMI_SH_POLICY"), P("TPM2B_DIGEST"), END_OF_LIST, END_OF_LIST>>),
     PolicyNameHash |-> Desc("PolicyNameHash", TRUE, FALSE, <<In("nameHash")>>,
         <<H("TPMI_SH_POLICY"), P("TPM2B_DIGEST"), END_OF_LIST, END_OF_LIST>>)]
CommandData22 ==
    [PolicyDuplicationSelect |-> Desc("PolicyDuplicationSelect", TRUE, FALSE,
         <<In("objectName"), In("newParentName"), In("includeObject")>>,
         <<H("TPMI_SH_POLICY"), P("TPM2B_NAME"), P("TPM2B_NAME"), P("TPMI_YES_NO"),
             END_OF_LIST, END_OF_LIST>>),
     PolicyAuthorize |-> Desc("PolicyAuthorize", TRUE, FALSE,
         <<In("approvedPolicy"), In("policyRef"), In("keySign"), In("checkTicket")>>,
         <<H("TPMI_SH_POLICY"), P("TPM2B_DIGEST"), P("TPM2B_NONCE"), P("TPM2B_NAME"),
             P("TPMT_TK_VERIFIED"), END_OF_LIST, END_OF_LIST>>),
     PolicyAuthValue |-> Desc("PolicyAuthValue", TRUE, FALSE, <<>>,
         <<H("TPMI_SH_POLICY"), END_OF_LIST, END_OF_LIST>>),
     PolicyPassword |-> Desc("PolicyPassword", TRUE, FALSE, <<>>,
         <<H("TPMI_SH_POLICY"), END_OF_LIST, END_OF_LIST>>)]
CommandData23 ==
    [PolicyGetDigest |-> Desc("PolicyGetDigest", TRUE, TRUE, <<>>,
         <<H("TPMI_SH_POLICY"), END_OF_LIST, RP("TPM2B_DIGEST"), END_OF_LIST>>),
     PolicyNvWritten |-> Desc("PolicyNvWritten", TRUE, FALSE, <<In("writtenSet")>>,
         <<H("TPMI_SH_POLICY"), P("TPMI_YES_NO"), END_OF_LIST, END_OF_LIST>>),
     PolicyTemplate |-> Desc("PolicyTemplate", TRUE, FALSE, <<In("templateHash")>>,
         <<H("TPMI_SH_POLICY"), P("TPM2B_DIGEST"), END_OF_LIST, END_OF_LIST>>),
     PolicyAuthorizeNV |-> Desc("PolicyAuthorizeNV", TRUE, FALSE,
         <<In("nvIndex"), In("policySession")>>,
         <<H("TPMI_RH_NV_AUTH"), H("TPMI_RH_NV_INDEX"), H("TPMI_SH_POLICY"),
             END_OF_LIST, END_OF_LIST>>)]
CommandData24 ==
    [CreatePrimary |-> Desc("CreatePrimary", TRUE, TRUE,
         <<In("inSensitive"), In("inPublic"), In("outsideInfo"), In("creationPCR"),
             Out("outPublic"), Out("creationData"), Out("creationHash"),
             Out("creationTicket"), Out("name")>>,
         <<H("TPMI_RH_HIERARCHY") + ADD_FLAG, P("TPM2B_SENSITIVE_CREATE"),
             P("TPM2B_PUBLIC"), P("TPM2B_DATA"), P("TPML_PCR_SELECTION"), END_OF_LIST,
             RH("TPM_HANDLE"), RP("TPM2B_PUBLIC"), RP("TPM2B_CREATION_DATA"),
             RP("TPM2B_DIGEST"), RP("TPMT_TK_CREATION"), RP("TPM2B_NAME"),
             END_OF_LIST>>),
     HierarchyControl |-> Desc("HierarchyControl", TRUE, FALSE,
         <<In("enable"), In("state")>>,
         <<H("TPMI_RH_HIERARCHY"), P("TPMI_RH_ENABLES"), P("TPMI_YES_NO"), END_OF_LIST,
             END_OF_LIST>>),
     SetPrimaryPolicy |-> Desc("SetPrimaryPolicy", TRUE, FALSE,
         <<In("authPolicy"), In("hashAlg")>>,
         <<H("TPMI_RH_HIERARCHY_AUTH"), P("TPM2B_DIGEST"),
             P("TPMI_ALG_HASH") + ADD_FLAG, END_OF_LIST, END_OF_LIST>>)]
CommandData25 ==
    [ChangePPS |-> Desc("ChangePPS", TRUE, FALSE, <<>>,
         <<H("TPMI_RH_PLATFORM"), END_OF_LIST, END_OF_LIST>>),
     ChangeEPS |-> Desc("ChangeEPS", TRUE, FALSE, <<>>,
         <<H("TPMI_RH_PLATFORM"), END_OF_LIST, END_OF_LIST>>),
     Clear |-> Desc("Clear", TRUE, FALSE, <<>>,
         <<H("TPMI_RH_CLEAR"), END_OF_LIST, END_OF_LIST>>),
     ClearControl |-> Desc("ClearControl", TRUE, FALSE, <<In("disable")>>,
         <<H("TPMI_RH_CLEAR"), P("TPMI_YES_NO"), END_OF_LIST, END_OF_LIST>>)]
CommandData26 ==
    [HierarchyChangeAuth |-> Desc("HierarchyChangeAuth", TRUE, FALSE, <<In("newAuth")>>,
         <<H("TPMI_RH_HIERARCHY_AUTH"), P("TPM2B_AUTH"), END_OF_LIST, END_OF_LIST>>),
     DictionaryAttackLockReset |-> Desc("DictionaryAttackLockReset", TRUE, FALSE, <<>>,
         <<H("TPMI_RH_LOCKOUT"), END_OF_LIST, END_OF_LIST>>),
     DictionaryAttackParameters |-> Desc("DictionaryAttackParameters", TRUE, FALSE,
         <<In("newMaxTries"), In("newRecoveryTime"), In("lockoutRecovery")>>,
         <<H("TPMI_RH_LOCKOUT"), P("UINT32"), P("UINT32"), P("UINT32"), END_OF_LIST,
             END_OF_LIST>>),
     PP_Commands |-> Desc("PP_Commands", TRUE, FALSE,
         <<In("setList"), In("clearList")>>,
         <<H("TPMI_RH_PLATFORM"), P("TPML_CC"), P("TPML_CC"), END_OF_LIST,
             END_OF_LIST>>)]
CommandData27 ==
    [SetAlgorithmSet |-> Desc("SetAlgorithmSet", TRUE, FALSE, <<In("algorithmSet")>>,
         <<H("TPMI_RH_PLATFORM"), P("UINT32"), END_OF_LIST, END_OF_LIST>>),
     FieldUpgradeStart |-> Desc("FieldUpgradeStart", TRUE, FALSE,
         <<In("keyHandle"), In("fuDigest"), In("manifestSignature")>>,
         <<H("TPMI_RH_PLATFORM"), H("TPMI_DH_OBJECT"), P("TPM2B_DIGEST"),
             P("TPMT_SIGNATURE"), END_OF_LIST, END_OF_LIST>>),
     FieldUpgradeData |-> Desc("FieldUpgradeData", TRUE, TRUE, <<Out("firstDigest")>>,
         <<P("TPM2B_MAX_BUFFER"), END_OF_LIST, RP("TPMT_HA"), RP("TPMT_HA"),
             END_OF_LIST>>),
     FirmwareRead |-> Desc("FirmwareRead", TRUE, TRUE, <<>>,
         <<P("UINT32"), END_OF_LIST, RP("TPM2B_MAX_BUFFER"), END_OF_LIST>>)]
CommandData28 ==
    [ContextSave |-> Desc("ContextSave", TRUE, TRUE, <<>>,
         <<H("TPMI_DH_CONTEXT"), END_OF_LIST, RP("TPMS_CONTEXT"), END_OF_LIST>>),
     ContextLoad |-> Desc("ContextLoad", TRUE, TRUE, <<>>,
         <<P("TPMS_CONTEXT"), END_OF_LIST, RH("TPMI_DH_CONTEXT"), END_OF_LIST>>),
     FlushContext |-> Desc("FlushContext", TRUE, FALSE, <<>>,
         <<P("TPMI_DH_CONTEXT"), END_OF_LIST, END_OF_LIST>>),
     EvictControl |-> Desc("EvictControl", TRUE, FALSE,
         <<In("objectHandle"), In("persistentHandle")>>,
         <<H("TPMI_RH_PROVISION"), H("TPMI_DH_OBJECT"), P("TPMI_DH_PERSISTENT"),
             END_OF_LIST, END_OF_LIST>>)]
CommandData29 ==
    [ReadClock |-> Desc("ReadClock", FALSE, TRUE, <<>>,
         <<END_OF_LIST, RP("TPMS_TIME_INFO"), END_OF_LIST>>),
     ClockSet |-> Desc("ClockSet", TRUE, FALSE, <<In("newTime")>>,
         <<H("TPMI_RH_PROVISION"), P("UINT64"), END_OF_LIST, END_OF_LIST>>),
     ClockRateAdjust |-> Desc("ClockRateAdjust", TRUE, FALSE, <<In("rateAdjust")>>,
         <<H("TPMI_RH_PROVISION"), P("TPM_CLOCK_ADJUST"), END_OF_LIST, END_OF_LIST>>),
     GetCapability |-> Desc("GetCapability", TRUE, TRUE,
         <<In("property"), In("propertyCount"), Out("capabilityData")>>,
         <<P("TPM_CAP"), P("UINT32"), P("UINT32"), END_OF_LIST, RP("TPMI_YES_NO"),
             RP("TPMS_CAPABILITY_DATA"), END_OF_LIST>>)]
CommandData30 ==
    [TestParms |-> Desc("TestParms", TRUE, FALSE, <<>>,
         <<P("TPMT_PUBLIC_PARMS"), END_OF_LIST, END_OF_LIST>>),
     NV_DefineSpace |-> Desc("NV_DefineSpace", TRUE, FALSE,
         <<In("auth"), In("publicInfo")>>,
         <<H("TPMI_RH_PROVISION"), P("TPM2B_AUTH"), P("TPM2B_NV_PUBLIC"), END_OF_LIST,
             END_OF_LIST>>),
     NV_UndefineSpace |-> Desc("NV_UndefineSpace", TRUE, FALSE, <<In("nvIndex")>>,
         <<H("TPMI_RH_PROVISION"), H("TPMI_RH_NV_INDEX"), END_OF_LIST, END_OF_LIST>>),
     NV_UndefineSpaceSpecial |-> Desc("NV_UndefineSpaceSpecial", TRUE, FALSE,
         <<In("platform")>>,
         <<H("TPMI_RH_NV_INDEX"), H("TPMI_RH_PLATFORM"), END_OF_LIST, END_OF_LIST>>)]
CommandData31 ==
    [NV_ReadPublic |-> Desc("NV_ReadPublic", TRUE, TRUE, <<Out("nvName")>>,
         <<H("TPMI_RH_NV_INDEX"), END_OF_LIST, RP("TPM2B_NV_PUBLIC"), RP("TPM2B_NAME"),
             END_OF_LIST>>),
     NV_Write |-> Desc("NV_Write", TRUE, FALSE,
         <<In("nvIndex"), In("data"), In("offset")>>,
         <<H("TPMI_RH_NV_AUTH"), H("TPMI_RH_NV_INDEX"), P("TPM2B_MAX_NV_BUFFER"),
             P("UINT16"), END_OF_LIST, END_OF_LIST>>),
     NV_Increment |-> Desc("NV_Increment", TRUE, FALSE, <<In("nvIndex")>>,
         <<H("TPMI_RH_NV_AUTH"), H("TPMI_RH_NV_INDEX"), END_OF_LIST, END_OF_LIST>>),
     NV_Extend |-> Desc("NV_Extend", TRUE, FALSE, <<In("nvIndex"), In("data")>>,
         <<H("TPMI_RH_NV_AUTH"), H("TPMI_RH_NV_INDEX"), P("TPM2B_MAX_NV_BUFFER"),
             END_OF_LIST, END_OF_LIST>>)]
CommandData32 ==
    [NV_SetBits |-> Desc("NV_SetBits", TRUE, FALSE, <<In("nvIndex"), In("bits")>>,
         <<H("TPMI_RH_NV_AUTH"), H("TPMI_RH_NV_INDEX"), P("UINT64"), END_OF_LIST,
             END_OF_LIST>>),
     NV_WriteLock |-> Desc("NV_WriteLock", TRUE, FALSE, <<In("nvIndex")>>,
         <<H("TPMI_RH_NV_AUTH"), H("TPMI_RH_NV_INDEX"), END_OF_LIST, END_OF_LIST>>),
     NV_GlobalWriteLock |-> Desc("NV_GlobalWriteLock", TRUE, FALSE, <<>>,
         <<H("TPMI_RH_PROVISION"), END_OF_LIST, END_OF_LIST>>),
     NV_Read |-> Desc("NV_Read", TRUE, TRUE,
         <<In("nvIndex"), In("size"), In("offset")>>,
         <<H("TPMI_RH_NV_AUTH"), H("TPMI_RH_NV_INDEX"), P("UINT16"), P("UINT16"),
             END_OF_LIST, RP("TPM2B_MAX_NV_BUFFER"), END_OF_LIST>>)]
CommandData33 ==
    [NV_ReadLock |-> Desc("NV_ReadLock", TRUE, FALSE, <<In("nvIndex")>>,
         <<H("TPMI_RH_NV_AUTH"), H("TPMI_RH_NV_INDEX"), END_OF_LIST, END_OF_LIST>>),
     NV_ChangeAuth |-> Desc("NV_ChangeAuth", TRUE, FALSE, <<In("newAuth")>>,
         <<H("TPMI_RH_NV_INDEX"), P("TPM2B_AUTH"), END_OF_LIST, END_OF_LIST>>),
     NV_Certify |-> Desc("NV_Certify", TRUE, TRUE,
         <<In("authHandle"), In("nvIndex"), In("qualifyingData"), In("inScheme"),
             In("size"), In("offset"), Out("signature")>>,
         <<H("TPMI_DH_OBJECT") + ADD_FLAG, H("TPMI_RH_NV_AUTH"), H("TPMI_RH_NV_INDEX"),
             P("TPM2B_DATA"), P("TPMT_SIG_SCHEME") + ADD_FLAG, P("UINT16"), P("UINT16"),
             END_OF_LIST, RP("TPM2B_ATTEST"), RP("TPMT_SIGNATURE"), END_OF_LIST>>)]
CommandData34 ==
    [AC_GetCapability |-> Desc("AC_GetCapability", TRUE, TRUE,
         <<In("capability"), In("count"), Out("capabilitiesData")>>,
         <<H("TPMI_RH_AC"), P("TPM_AT"), P("UINT32"), END_OF_LIST, RP("TPMI_YES_NO"),
             RP("TPML_AC_CAPABILITIES"), END_OF_LIST>>),
     AC_Send |-> Desc("AC_Send", TRUE, TRUE,
         <<In("authHandle"), In("ac"), In("acDataIn")>>,
         <<H("TPMI_DH_OBJECT"), H("TPMI_RH_NV_AUTH"), H("TPMI_RH_AC"),
             P("TPM2B_MAX_BUFFER"), END_OF_LIST, RP("TPMS_AC_OUTPUT"), END_OF_LIST>>),
     Policy_AC_SendSelect |-> Desc("Policy_AC_SendSelect", TRUE, FALSE,
         <<In("objectName"), In("authHandleName"), In("acName"), In("includeObject")>>,
         <<H("TPMI_SH_POLICY"), P("TPM2B_NAME"), P("TPM2B_NAME"), P("TPM2B_NAME"),
             P("TPMI_YES_NO"), END_OF_LIST, END_OF_LIST>>)]
CommandData35 ==
    [Vendor_TCG_Test |-> Desc("Vendor_TCG_Test", TRUE, TRUE, <<>>,
         <<P("TPM2B_DATA"), END_OF_LIST, RP("TPM2B_DATA"), END_OF_LIST>>)]

CommandData ==
    CommandData1 @@ CommandData2 @@ CommandData3 @@ CommandData4 @@ CommandData5 @@
    CommandData6 @@ CommandData7 @@ CommandData8 @@ CommandData9 @@
    CommandData10 @@ CommandData11 @@ CommandData12 @@ CommandData13 @@
    CommandData14 @@ CommandData15 @@ CommandData16 @@ CommandData17 @@
    CommandData18 @@ CommandData19 @@ CommandData20 @@ CommandData21 @@
    CommandData22 @@ CommandData23 @@ CommandData24 @@ CommandData25 @@
    CommandData26 @@ CommandData27 @@ CommandData28 @@ CommandData29 @@
    CommandData30 @@ CommandData31 @@ CommandData32 @@ CommandData33 @@
    CommandData34 @@ CommandData35

-----------------------------------------------------------------------------
(* The descriptors in the order of the command codes.                      *)
CommandDataArray1 ==
    <<"NV_UndefineSpaceSpecial", "EvictControl", "HierarchyControl", "NV_UndefineSpace",
      "ChangeEPS", "ChangePPS", "Clear", "ClearControl", "ClockSet",
      "HierarchyChangeAuth", "NV_DefineSpace", "PCR_Allocate", "PCR_SetAuthPolicy",
      "PP_Commands", "SetPrimaryPolicy", "FieldUpgradeStart", "ClockRateAdjust",
      "CreatePrimary", "NV_GlobalWriteLock", "GetCommandAuditDigest", "NV_Increment",
      "NV_SetBits", "NV_Extend", "NV_Write", "NV_WriteLock",
      "DictionaryAttackLockReset", "DictionaryAttackParameters", "NV_ChangeAuth",
      "PCR_Event", "PCR_Reset", "SequenceComplete", "SetAlgorithmSet",
      "SetCommandCodeAuditStatus", "FieldUpgradeData", "IncrementalSelfTest",
      "SelfTest", "Startup", "Shutdown", "StirRandom", "ActivateCredential">>
CommandDataArray2 ==
    <<"Certify", "PolicyNV", "CertifyCreation", "Duplicate", "GetTime",
      "GetSessionAuditDigest", "NV_Read", "NV_ReadLock", "ObjectChangeAuth",
      "PolicySecret", "Rewrap", "Create", "ECDH_ZGen", "HMAC", "MAC", "Import", "Load",
      "Quote", "RSA_Decrypt", "HMAC_Start", "MAC_Start", "SequenceUpdate", "Sign",
      "Unseal", "PolicySigned", "ContextLoad", "ContextSave", "ECDH_KeyGen",
      "EncryptDecrypt", "FlushContext", "LoadExternal", "MakeCredential",
      "NV_ReadPublic", "PolicyAuthorize", "PolicyAuthValue", "PolicyCommandCode",
      "PolicyCounterTimer", "PolicyCpHash", "PolicyLocality", "PolicyNameHash">>
CommandDataArray3 ==
    <<"PolicyOR", "PolicyTicket", "ReadPublic", "RSA_Encrypt", "StartAuthSession",
      "VerifySignature", "ECC_Parameters", "FirmwareRead", "GetCapability", "GetRandom",
      "GetTestResult", "Hash", "PCR_Read", "PolicyPCR", "PolicyRestart", "ReadClock",
      "PCR_Extend", "PCR_SetAuthValue", "NV_Certify", "EventSequenceComplete",
      "HashSequenceStart", "PolicyPhysicalPresence", "PolicyDuplicationSelect",
      "PolicyGetDigest", "TestParms", "Commit", "PolicyPassword", "ZGen_2Phase",
      "EC_Ephemeral", "PolicyNvWritten", "PolicyTemplate", "CreateLoaded",
      "PolicyAuthorizeNV", "EncryptDecrypt2", "AC_GetCapability", "AC_Send",
      "Policy_AC_SendSelect", "CertifyX509", "Vendor_TCG_Test">>

\* Commands that TpmProfile.h leaves out are not in the arrays (COMPRESSED_LISTS).
Listed(data, entries) ==
    LET built(e) == data[e].entry \in Implemented
        present == SelectSeq(entries, built)
    IN  [i \in 1..Len(present) |-> data[present[i]]]
s_CommandDataArray ==
    Listed(CommandData, CommandDataArray1 \o CommandDataArray2 \o CommandDataArray3)
=============================================================================
