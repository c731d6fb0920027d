---------------------------- MODULE CommandCases ----------------------------
(*****************************************************************************)
(* The other form of the dispatcher, two switch statements, built without    *)
(* TABLE_DRIVEN_DISPATCH: in HandleProcess.h the handles that a command      *)
(* begins with, in CommandDispatcher.h what is done with its parameters      *)
(* and with its response. The cases are in the order of the files.           *)
(*****************************************************************************)
EXTENDS TLC, Integers, Sequences

\* An unmarshalling function without a flag and with one.
No(type) == [type |-> type, flag |-> "none"]
Flag(type, flag) == [type |-> type, flag |-> IF flag THEN "set" ELSE "clear"]

To(f, field) == [type |-> f.type, flag |-> f.flag, field |-> field]
From(type, field) == [type |-> type, field |-> field]
Case(handles, parameters, handle, response) ==
    [handles |-> handles, parameters |-> parameters, handle |-> handle,
     response |-> response]

-----------------------------------------------------------------------------
(* HandleProcess.h                                                         *)
Handles1 ==
    [Startup |-> <<>>, Shutdown |-> <<>>, SelfTest |-> <<>>,
     IncrementalSelfTest |-> <<>>, GetTestResult |-> <<>>,
     StartAuthSession |-> <<Flag("TPMI_DH_OBJECT", TRUE),
         Flag("TPMI_DH_ENTITY", TRUE)>>,
     PolicyRestart |-> <<No("TPMI_SH_POLICY")>>,
     Create |-> <<Flag("TPMI_DH_OBJECT", FALSE)>>,
     Load |-> <<Flag("TPMI_DH_OBJECT", FALSE)>>, LoadExternal |-> <<>>,
     ReadPublic |-> <<Flag("TPMI_DH_OBJECT", FALSE)>>,
     ActivateCredential |-> <<Flag("TPMI_DH_OBJECT", FALSE),
         Flag("TPMI_DH_OBJECT", FALSE)>>,
     MakeCredential |-> <<Flag("TPMI_DH_OBJECT", FALSE)>>,
     Unseal |-> <<Flag("TPMI_DH_OBJECT", FALSE)>>,
     ObjectChangeAuth |-> <<Flag("TPMI_DH_OBJECT", FALSE),
         Flag("TPMI_DH_OBJECT", FALSE)>>,
     CreateLoaded |-> <<Flag("TPMI_DH_PARENT", TRUE)>>,
     Duplicate |-> <<Flag("TPMI_DH_OBJECT", FALSE), Flag("TPMI_DH_OBJECT", TRUE)>>,
     Rewrap |-> <<Flag("TPMI_DH_OBJECT", TRUE), Flag("TPMI_DH_OBJECT", TRUE)>>,
     Import |-> <<Flag("TPMI_DH_OBJECT", FALSE)>>]
Handles2 ==
    [RSA_Encrypt |-> <<Flag("TPMI_DH_OBJECT", FALSE)>>,
     RSA_Decrypt |-> <<Flag("TPMI_DH_OBJECT", FALSE)>>,
     ECDH_KeyGen |-> <<Flag("TPMI_DH_OBJECT", FALSE)>>,
     ECDH_ZGen |-> <<Flag("TPMI_DH_OBJECT", FALSE)>>, ECC_Parameters |-> <<>>,
     ZGen_2Phase |-> <<Flag("TPMI_DH_OBJECT", FALSE)>>,
     EncryptDecrypt |-> <<Flag("TPMI_DH_OBJECT", FALSE)>>,
     EncryptDecrypt2 |-> <<Flag("TPMI_DH_OBJECT", FALSE)>>, Hash |-> <<>>,
     HMAC |-> <<Flag("TPMI_DH_OBJECT", FALSE)>>,
     MAC |-> <<Flag("TPMI_DH_OBJECT", FALSE)>>, GetRandom |-> <<>>, StirRandom |-> <<>>,
     HMAC_Start |-> <<Flag("TPMI_DH_OBJECT", FALSE)>>,
     MAC_Start |-> <<Flag("TPMI_DH_OBJECT", FALSE)>>, HashSequenceStart |-> <<>>,
     SequenceUpdate |-> <<Flag("TPMI_DH_OBJECT", FALSE)>>,
     SequenceComplete |-> <<Flag("TPMI_DH_OBJECT", FALSE)>>,
     EventSequenceComplete |-> <<Flag("TPMI_DH_PCR", TRUE),
         Flag("TPMI_DH_OBJECT", FALSE)>>,
     Certify |-> <<Flag("TPMI_DH_OBJECT", FALSE), Flag("TPMI_DH_OBJECT", TRUE)>>]
Handles3 ==
    [CertifyCreation |-> <<Flag("TPMI_DH_OBJECT", TRUE),
         Flag("TPMI_DH_OBJECT", FALSE)>>,
     Quote |-> <<Flag("TPMI_DH_OBJECT", TRUE)>>,
     GetSessionAuditDigest |-> <<Flag("TPMI_RH_ENDORSEMENT", FALSE),
         Flag("TPMI_DH_OBJECT", TRUE), No("TPMI_SH_HMAC")>>,
     GetCommandAuditDigest |-> <<Flag("TPMI_RH_ENDORSEMENT", FALSE),
         Flag("TPMI_DH_OBJECT", TRUE)>>,
     GetTime |-> <<Flag("TPMI_RH_ENDORSEMENT", FALSE), Flag("TPMI_DH_OBJECT", TRUE)>>,
     CertifyX509 |-> <<Flag("TPMI_DH_OBJECT", FALSE), Flag("TPMI_DH_OBJECT", TRUE)>>,
     Commit |-> <<Flag("TPMI_DH_OBJECT", FALSE)>>, EC_Ephemeral |-> <<>>,
     VerifySignature |-> <<Flag("TPMI_DH_OBJECT", FALSE)>>,
     Sign |-> <<Flag("TPMI_DH_OBJECT", FALSE)>>,
     SetCommandCodeAuditStatus |-> <<No("TPMI_RH_PROVISION")>>,
     PCR_Extend |-> <<Flag("TPMI_DH_PCR", TRUE)>>,
     PCR_Event |-> <<Flag("TPMI_DH_PCR", TRUE)>>, PCR_Read |-> <<>>,
     PCR_Allocate |-> <<No("TPMI_RH_PLATFORM")>>,
     PCR_SetAuthPolicy |-> <<No("TPMI_RH_PLATFORM")>>,
     PCR_SetAuthValue |-> <<Flag("TPMI_DH_PCR", FALSE)>>]
Handles4 ==
    [PCR_Reset |-> <<Flag("TPMI_DH_PCR", FALSE)>>,
     PolicySigned |-> <<Flag("TPMI_DH_OBJECT", FALSE), No("TPMI_SH_POLICY")>>,
     PolicySecret |-> <<Flag("TPMI_DH_ENTITY", FALSE), No("TPMI_SH_POLICY")>>,
     PolicyTicket |-> <<No("TPMI_SH_POLICY")>>, PolicyOR |-> <<No("TPMI_SH_POLICY")>>,
     PolicyPCR |-> <<No("TPMI_SH_POLICY")>>,
     PolicyLocality |-> <<No("TPMI_SH_POLICY")>>,
     PolicyNV |-> <<No("TPMI_RH_NV_AUTH"), No("TPMI_RH_NV_INDEX"),
         No("TPMI_SH_POLICY")>>,
     PolicyCounterTimer |-> <<No("TPMI_SH_POLICY")>>,
     PolicyCommandCode |-> <<No("TPMI_SH_POLICY")>>,
     PolicyPhysicalPresence |-> <<No("TPMI_SH_POLICY")>>,
     PolicyCpHash |-> <<No("TPMI_SH_POLICY")>>,
     PolicyNameHash |-> <<No("TPMI_SH_POLICY")>>,
     PolicyDuplicationSelect |-> <<No("TPMI_SH_POLICY")>>,
     PolicyAuthorize |-> <<No("TPMI_SH_POLICY")>>,
     PolicyAuthValue |-> <<No("TPMI_SH_POLICY")>>,
     PolicyPassword |-> <<No("TPMI_SH_POLICY")>>]
Handles5 ==
    [PolicyGetDigest |-> <<No("TPMI_SH_POLICY")>>,
     PolicyNvWritten |-> <<No("TPMI_SH_POLICY")>>,
     PolicyTemplate |-> <<No("TPMI_SH_POLICY")>>,
     PolicyAuthorizeNV |-> <<No("TPMI_RH_NV_AUTH"), No("TPMI_RH_NV_INDEX"),
         No("TPMI_SH_POLICY")>>,
     CreatePrimary |-> <<Flag("TPMI_RH_HIERARCHY", TRUE)>>,
     HierarchyControl |-> <<Flag("TPMI_RH_HIERARCHY", FALSE)>>,
     SetPrimaryPolicy |-> <<No("TPMI_RH_HIERARCHY_AUTH")>>,
     ChangePPS |-> <<No("TPMI_RH_PLATFORM")>>, ChangeEPS |-> <<No("TPMI_RH_PLATFORM")>>,
     Clear |-> <<No("TPMI_RH_CLEAR")>>, ClearControl |-> <<No("TPMI_RH_CLEAR")>>,
     HierarchyChangeAuth |-> <<No("TPMI_RH_HIERARCHY_AUTH")>>,
     DictionaryAttackLockReset |-> <<No("TPMI_RH_LOCKOUT")>>,
     DictionaryAttackParameters |-> <<No("TPMI_RH_LOCKOUT")>>,
     PP_Commands |-> <<No("TPMI_RH_PLATFORM")>>,
     SetAlgorithmSet |-> <<No("TPMI_RH_PLATFORM")>>,
     FieldUpgradeStart |-> <<No("TPMI_RH_PLATFORM"), Flag("TPMI_DH_OBJECT", FALSE)>>,
     FieldUpgradeData |-> <<>>]
Handles6 ==
    [FirmwareRead |-> <<>>, ContextSave |-> <<No("TPMI_DH_CONTEXT")>>,
     ContextLoad |-> <<>>, FlushContext |-> <<>>,
     EvictControl |-> <<No("TPMI_RH_PROVISION"), Flag("TPMI_DH_OBJECT", FALSE)>>,
     ReadClock |-> <<>>, ClockSet |-> <<No("TPMI_RH_PROVISION")>>,
     ClockRateAdjust |-> <<No("TPMI_RH_PROVISION")>>, GetCapability |-> <<>>,
     TestParms |-> <<>>, NV_DefineSpace |-> <<No("TPMI_RH_PROVISION")>>,
     NV_UndefineSpace |-> <<No("TPMI_RH_PROVISION"), No("TPMI_RH_NV_INDEX")>>,
     NV_UndefineSpaceSpecial |-> <<No("TPMI_RH_NV_INDEX"), No("TPMI_RH_PLATFORM")>>,
     NV_ReadPublic |-> <<No("TPMI_RH_NV_INDEX")>>,
     NV_Write |-> <<No("TPMI_RH_NV_AUTH"), No("TPMI_RH_NV_INDEX")>>,
     NV_Increment |-> <<No("TPMI_RH_NV_AUTH"), No("TPMI_RH_NV_INDEX")>>,
     NV_Extend |-> <<No("TPMI_RH_NV_AUTH"), No("TPMI_RH_NV_INDEX")>>,
     NV_SetBits |-> <<No("TPMI_RH_NV_AUTH"), No("TPMI_RH_NV_INDEX")>>]
Handles7 ==
    [NV_WriteLock |-> <<No("TPMI_RH_NV_AUTH"), No("TPMI_RH_NV_INDEX")>>,
     NV_GlobalWriteLock |-> <<No("TPMI_RH_PROVISION")>>,
     NV_Read |-> <<No("TPMI_RH_NV_AUTH"), No("TPMI_RH_NV_INDEX")>>,
     NV_ReadLock |-> <<No("TPMI_RH_NV_AUTH"), No("TPMI_RH_NV_INDEX")>>,
     NV_ChangeAuth |-> <<No("TPMI_RH_NV_INDEX")>>,
     NV_Certify |-> <<Flag("TPMI_DH_OBJECT", TRUE), No("TPMI_RH_NV_AUTH"),
         No("TPMI_RH_NV_INDEX")>>,
     AC_GetCapability |-> <<No("TPMI_RH_AC")>>,
     AC_Send |-> <<Flag("TPMI_DH_OBJECT", FALSE), No("TPMI_RH_NV_AUTH"),
         No("TPMI_RH_AC")>>,
     Policy_AC_SendSelect |-> <<No("TPMI_SH_POLICY")>>, Vendor_TCG_Test |-> <<>>]

CaseHandles ==
    Handles1 @@ Handles2 @@ Handles3 @@ Handles4 @@ Handles5 @@ Handles6 @@
    Handles7

-----------------------------------------------------------------------------
(* CommandDispatcher.h                                                     *)
Cases1 ==
    [Startup |-> Case(<<>>, <<To(No("TPM_SU"), "startupType")>>, <<>>, <<>>),
     Shutdown |-> Case(<<>>, <<To(No("TPM_SU"), "shutdownType")>>, <<>>, <<>>),
     SelfTest |-> Case(<<>>, <<To(No("TPMI_YES_NO"), "fullTest")>>, <<>>, <<>>),
     IncrementalSelfTest |-> Case(<<>>, <<To(No("TPML_ALG"), "toTest")>>, <<>>,
         <<From("TPML_ALG", "toDoList")>>),
     GetTestResult |-> Case(<<>>, <<>>, <<>>,
         <<From("TPM2B_MAX_BUFFER", "outData"), From("TPM_RC", "testResult")>>),
     StartAuthSession |-> Case(<<"tpmKey", "bind">>,
         <<To(No("TPM2B_NONCE"), "nonceCaller"),
             To(No("TPM2B_ENCRYPTED_SECRET"), "encryptedSalt"),
             To(No("TPM_SE"), "sessionType"),
             To(Flag("TPMT_SYM_DEF", TRUE), "symmetric"),
             To(Flag("TPMI_ALG_HASH", FALSE), "authHash")>>, <<"sessionHandle">>,
         <<From("TPM2B_NONCE", "nonceTPM")>>),
     PolicyRestart |-> Case(<<"sessionHandle">>, <<>>, <<>>, <<>>),
     Create |-> Case(<<"parentHandle">>,
         <<To(No("TPM2B_SENSITIVE_CREATE"), "inSensitive"),
             To(Flag("TPM2B_PUBLIC", FALSE), "inPublic"),
             To(No("TPM2B_DATA"), "outsideInfo"),
             To(No("TPML_PCR_SELECTION"), "creationPCR")>>, <<>>,
         <<From("TPM2B_PRIVATE", "outPrivate"), From("TPM2B_PUBLIC", "outPublic"),
             From("TPM2B_CREATION_DATA", "creationData"),
             From("TPM2B_DIGEST", "creationHash"),
             From("TPMT_TK_CREATION", "creationTicket")>>)]
Cases2 ==
    [Load |-> Case(<<"parentHandle">>,
         <<To(No("TPM2B_PRIVATE"), "inPrivate"),
             To(Flag("TPM2B_PUBLIC", FALSE), "inPublic")>>, <<"objectHandle">>,
         <<From("TPM2B_NAME", "name")>>),
     LoadExternal |-> Case(<<>>,
         <<To(No("TPM2B_SENSITIVE"), "inPrivate"),
             To(Flag("TPM2B_PUBLIC", TRUE), "inPublic"),
             To(Flag("TPMI_RH_HIERARCHY", TRUE), "hierarchy")>>, <<"objectHandle">>,
         <<From("TPM2B_NAME", "name")>>),
     ReadPublic |-> Case(<<"objectHandle">>, <<>>, <<>>,
         <<From("TPM2B_PUBLIC", "outPublic"), From("TPM2B_NAME", "name"),
             From("TPM2B_NAME", "qualifiedName")>>),
     ActivateCredential |-> Case(<<"activateHandle", "keyHandle">>,
         <<To(No("TPM2B_ID_OBJECT"), "credentialBlob"),
             To(No("TPM2B_ENCRYPTED_SECRET"), "secret")>>, <<>>,
         <<From("TPM2B_DIGEST", "certInfo")>>),
     MakeCredential |-> Case(<<"handle">>,
         <<To(No("TPM2B_DIGEST"), "credential"), To(No("TPM2B_NAME"), "objectName")>>,
         <<>>,
         <<From("TPM2B_ID_OBJECT", "credentialBlob"),
             From("TPM2B_ENCRYPTED_SECRET", "secret")>>),
     Unseal |-> Case(<<"itemHandle">>, <<>>, <<>>,
         <<From("TPM2B_SENSITIVE_DATA", "outData")>>),
     ObjectChangeAuth |-> Case(<<"objectHandle", "parentHandle">>,
         <<To(No("TPM2B_AUTH"), "newAuth")>>, <<>>,
         <<From("TPM2B_PRIVATE", "outPrivate")>>)]
Cases3 ==
    [CreateLoaded |-> Case(<<"parentHandle">>,
         <<To(No("TPM2B_SENSITIVE_CREATE"), "inSensitive"),
             To(No("TPM2B_TEMPLATE"), "inPublic")>>, <<"objectHandle">>,
         <<From("TPM2B_PRIVATE", "outPrivate"), From("TPM2B_PUBLIC", "outPublic"),
             From("TPM2B_NAME", "name")>>),
     Duplicate |-> Case(<<"objectHandle", "newParentHandle">>,
         <<To(No("TPM2B_DATA"), "encryptionKeyIn"),
             To(Flag("TPMT_SYM_DEF_OBJECT", TRUE), "symmetricAlg")>>, <<>>,
         <<From("TPM2B_DATA", "encryptionKeyOut"), From("TPM2B_PRIVATE", "duplicate"),
             From("TPM2B_ENCRYPTED_SECRET", "outSymSeed")>>),
     Rewrap |-> Case(<<"oldParent", "newParent">>,
         <<To(No("TPM2B_PRIVATE"), "inDuplicate"), To(No("TPM2B_NAME"), "name"),
             To(No("TPM2B_ENCRYPTED_SECRET"), "inSymSeed")>>, <<>>,
         <<From("TPM2B_PRIVATE", "outDuplicate"),
             From("TPM2B_ENCRYPTED_SECRET", "outSymSeed")>>),
     Import |-> Case(<<"parentHandle">>,
         <<To(No("TPM2B_DATA"), "encryptionKey"),
             To(Flag("TPM2B_PUBLIC", FALSE), "objectPublic"),
             To(No("TPM2B_PRIVATE"), "duplicate"),
             To(No("TPM2B_ENCRYPTED_SECRET"), "inSymSeed"),
             To(Flag("TPMT_SYM_DEF_OBJECT", TRUE), "symmetricAlg")>>, <<>>,
         <<From("TPM2B_PRIVATE", "outPrivate")>>),
     RSA_Encrypt |-> Case(<<"keyHandle">>,
         <<To(No("TPM2B_PUBLIC_KEY_RSA"), "message"),
             To(Flag("TPMT_RSA_DECRYPT", TRUE), "inScheme"),
             To(No("TPM2B_DATA"), "label")>>, <<>>,
         <<From("TPM2B_PUBLIC_KEY_RSA", "outData")>>),
     RSA_Decrypt |-> Case(<<"keyHandle">>,
         <<To(No("TPM2B_PUBLIC_KEY_RSA"), "cipherText"),
             To(Flag("TPMT_RSA_DECRYPT", TRUE), "inScheme"),
             To(No("TPM2B_DATA"), "label")>>, <<>>,
         <<From("TPM2B_PUBLIC_KEY_RSA", "message")>>)]
Cases4 ==
    [ECDH_KeyGen |-> Case(<<"keyHandle">>, <<>>, <<>>,
         <<From("TPM2B_ECC_POINT", "zPoint"), From("TPM2B_ECC_POINT", "pubPoint")>>),
     ECDH_ZGen |-> Case(<<"keyHandle">>, <<To(No("TPM2B_ECC_POINT"), "inPoint")>>, <<>>,
         <<From("TPM2B_ECC_POINT", "outPoint")>>),
     ECC_Parameters |-> Case(<<>>, <<To(No("TPMI_ECC_CURVE"), "curveID")>>, <<>>,
         <<From("TPMS_ALGORITHM_DETAIL_ECC", "parameters")>>),
     ZGen_2Phase |-> Case(<<"keyA">>,
         <<To(No("TPM2B_ECC_POINT"), "inQsB"), To(No("TPM2B_ECC_POINT"), "inQeB"),
             To(Flag("TPMI_ECC_KEY_EXCHANGE", FALSE), "inScheme"),
             To(No("UINT16"), "counter")>>, <<>>,
         <<From("TPM2B_ECC_POINT", "outZ1"), From("TPM2B_ECC_POINT", "outZ2")>>),
     EncryptDecrypt |-> Case(<<"keyHandle">>,
         <<To(No("TPMI_YES_NO"), "decrypt"),
             To(Flag("TPMI_ALG_CIPHER_MODE", TRUE), "mode"), To(No("TPM2B_IV"), "ivIn"),
             To(No("TPM2B_MAX_BUFFER"), "inData")>>, <<>>,
         <<From("TPM2B_MAX_BUFFER", "outData"), From("TPM2B_IV", "ivOut")>>),
     EncryptDecrypt2 |-> Case(<<"keyHandle">>,
         <<To(No("TPM2B_MAX_BUFFER"), "inData"), To(No("TPMI_YES_NO"), "decrypt"),
             To(Flag("TPMI_ALG_CIPHER_MODE", TRUE), "mode"),
             To(No("TPM2B_IV"), "ivIn")>>, <<>>,
         <<From("TPM2B_MAX_BUFFER", "outData"), From("TPM2B_IV", "ivOut")>>),
     Hash |-> Case(<<>>,
         <<To(No("TPM2B_MAX_BUFFER"), "data"),
             To(Flag("TPMI_ALG_HASH", FALSE), "hashAlg"),
             To(Flag("TPMI_RH_HIERARCHY", TRUE), "hierarchy")>>, <<>>,
         <<From("TPM2B_DIGEST", "outHash"), From("TPMT_TK_HASHCHECK", "validation")>>)]
Cases5 ==
    [HMAC |-> Case(<<"handle">>,
         <<To(No("TPM2B_MAX_BUFFER"), "buffer"),
             To(Flag("TPMI_ALG_HASH", TRUE), "hashAlg")>>, <<>>,
         <<From("TPM2B_DIGEST", "outHMAC")>>),
     MAC |-> Case(<<"handle">>,
         <<To(No("TPM2B_MAX_BUFFER"), "buffer"),
             To(Flag("TPMI_ALG_MAC_SCHEME", TRUE), "inScheme")>>, <<>>,
         <<From("TPM2B_DIGEST", "outMAC")>>),
     GetRandom |-> Case(<<>>, <<To(No("UINT16"), "bytesRequested")>>, <<>>,
         <<From("TPM2B_DIGEST", "randomBytes")>>),
     StirRandom |-> Case(<<>>, <<To(No("TPM2B_SENSITIVE_DATA"), "inData")>>, <<>>,
         <<>>),
     HMAC_Start |-> Case(<<"handle">>,
         <<To(No("TPM2B_AUTH"), "auth"), To(Flag("TPMI_ALG_HASH", TRUE), "hashAlg")>>,
         <<"sequenceHandle">>, <<>>),
     MAC_Start |-> Case(<<"handle">>,
         <<To(No("TPM2B_AUTH"), "auth"),
             To(Flag("TPMI_ALG_MAC_SCHEME", TRUE), "inScheme")>>, <<"sequenceHandle">>,
         <<>>),
     HashSequenceStart |-> Case(<<>>,
         <<To(No("TPM2B_AUTH"), "auth"), To(Flag("TPMI_ALG_HASH", TRUE), "hashAlg")>>,
         <<"sequenceHandle">>, <<>>),
     SequenceUpdate |-> Case(<<"sequenceHandle">>,
         <<To(No("TPM2B_MAX_BUFFER"), "buffer")>>, <<>>, <<>>)]
Cases6 ==
    [SequenceComplete |-> Case(<<"sequenceHandle">>,
         <<To(No("TPM2B_MAX_BUFFER"), "buffer"),
             To(Flag("TPMI_RH_HIERARCHY", TRUE), "hierarchy")>>, <<>>,
         <<From("TPM2B_DIGEST", "result"), From("TPMT_TK_HASHCHECK", "validation")>>),
     EventSequenceComplete |-> Case(<<"pcrHandle", "sequenceHandle">>,
         <<To(No("TPM2B_MAX_BUFFER"), "buffer")>>, <<>>,
         <<From("TPML_DIGEST_VALUES", "results")>>),
     Certify |-> Case(<<"objectHandle", "signHandle">>,
         <<To(No("TPM2B_DATA"), "qualifyingData"),
             To(Flag("TPMT_SIG_SCHEME", TRUE), "inScheme")>>, <<>>,
         <<From("TPM2B_ATTEST", "certifyInfo"), From("TPMT_SIGNATURE", "signature")>>),
     CertifyCreation |-> Case(<<"signHandle", "objectHandle">>,
         <<To(No("TPM2B_DATA"), "qualifyingData"),
             To(No("TPM2B_DIGEST"), "creationHash"),
             To(Flag("TPMT_SIG_SCHEME", TRUE), "inScheme"),
             To(No("TPMT_TK_CREATION"), "creationTicket")>>, <<>>,
         <<From("TPM2B_ATTEST", "certifyInfo"), From("TPMT_SIGNATURE", "signature")>>),
     Quote |-> Case(<<"signHandle">>,
         <<To(No("TPM2B_DATA"), "qualifyingData"),
             To(Flag("TPMT_SIG_SCHEME", TRUE), "inScheme"),
             To(No("TPML_PCR_SELECTION"), "PCRselect")>>, <<>>,
         <<From("TPM2B_ATTEST", "quoted"), From("TPMT_SIGNATURE", "signature")>>),
     GetSessionAuditDigest |-> Case(
         <<"privacyAdminHandle", "signHandle", "sessionHandle">>,
         <<To(No("TPM2B_DATA"), "qualifyingData"),
             To(Flag("TPMT_SIG_SCHEME", TRUE), "inScheme")>>, <<>>,
         <<From("TPM2B_ATTEST", "auditInfo"), From("TPMT_SIGNATURE", "signature")>>)]
Cases7 ==
    [GetCommandAuditDigest |-> Case(<<"privacyHandle", "signHandle">>,
         <<To(No("TPM2B_DATA"), "qualifyingData"),
             To(Flag("TPMT_SIG_SCHEME", TRUE), "inScheme")>>, <<>>,
         <<From("TPM2B_ATTEST", "auditInfo"), From("TPMT_SIGNATURE", "signature")>>),
     GetTime |-> Case(<<"privacyAdminHandle", "signHandle">>,
         <<To(No("TPM2B_DATA"), "qualifyingData"),
             To(Flag("TPMT_SIG_SCHEME", TRUE), "inScheme")>>, <<>>,
         <<From("TPM2B_ATTEST", "timeInfo"), From("TPMT_SIGNATURE", "signature")>>),
     CertifyX509 |-> Case(<<"objectHandle", "signHandle">>,
         <<To(No("TPM2B_DATA"), "qualifyingData"),
             To(Flag("TPMT_SIG_SCHEME", TRUE), "inScheme"),
             To(No("TPM2B_MAX_BUFFER"), "partialCertificate")>>, <<>>,
         <<From("TPM2B_MAX_BUFFER", "addedToCertificate"),
             From("TPM2B_DIGEST", "tbsDigest"), From("TPMT_SIGNATURE", "signature")>>),
     Commit |-> Case(<<"signHandle">>,
         <<To(No("TPM2B_ECC_POINT"), "P1"), To(No("TPM2B_SENSITIVE_DATA"), "s2"),
             To(No("TPM2B_ECC_PARAMETER"), "y2")>>, <<>>,
         <<From("TPM2B_ECC_POINT", "K"), From("TPM2B_ECC_POINT", "L"),
             From("TPM2B_ECC_POINT", "E"), From("UINT16", "counter")>>),
     EC_Ephemeral |-> Case(<<>>, <<To(No("TPMI_ECC_CURVE"), "curveID")>>, <<>>,
         <<From("TPM2B_ECC_POINT", "Q"), From("UINT16", "counter")>>),
     VerifySignature |-> Case(<<"keyHandle">>,
         <<To(No("TPM2B_DIGEST"), "digest"),
             To(Flag("TPMT_SIGNATURE", FALSE), "signature")>>, <<>>,
         <<From("TPMT_TK_VERIFIED", "validation")>>)]
Cases8 ==
    [Sign |-> Case(<<"keyHandle">>,
         <<To(No("TPM2B_DIGEST"), "digest"),
             To(Flag("TPMT_SIG_SCHEME", TRUE), "inScheme"),
             To(No("TPMT_TK_HASHCHECK"), "validation")>>, <<>>,
         <<From("TPMT_SIGNATURE", "signature")>>),
     SetCommandCodeAuditStatus |-> Case(<<"auth">>,
         <<To(Flag("TPMI_ALG_HASH", TRUE), "auditAlg"), To(No("TPML_CC"), "setList"),
             To(No("TPML_CC"), "clearList")>>, <<>>, <<>>),
     PCR_Extend |-> Case(<<"pcrHandle">>, <<To(No("TPML_DIGEST_VALUES"), "digests")>>,
         <<>>, <<>>),
     PCR_Event |-> Case(<<"pcrHandle">>, <<To(No("TPM2B_EVENT"), "eventData")>>, <<>>,
         <<From("TPML_DIGEST_VALUES", "digests")>>),
     PCR_Read |-> Case(<<>>, <<To(No("TPML_PCR_SELECTION"), "pcrSelectionIn")>>, <<>>,
         <<From("UINT32", "pcrUpdateCounter"),
             From("TPML_PCR_SELECTION", "pcrSelectionOut"),
             From("TPML_DIGEST", "pcrValues")>>),
     PCR_Allocate |-> Case(<<"authHandle">>,
         <<To(No("TPML_PCR_SELECTION"), "pcrAllocation")>>, <<>>,
         <<From("TPMI_YES_NO", "allocationSuccess"), From("UINT32", "maxPCR"),
             From("UINT32", "sizeNeeded"), From("UINT32", "sizeAvailable")>>),
     PCR_SetAuthPolicy |-> Case(<<"authHandle">>,
         <<To(No("TPM2B_DIGEST"), "authPolicy"),
             To(Flag("TPMI_ALG_HASH", TRUE), "hashAlg"),
             To(Flag("TPMI_DH_PCR", FALSE), "pcrNum")>>, <<>>, <<>>),
     PCR_SetAuthValue |-> Case(<<"pcrHandle">>, <<To(No("TPM2B_DIGEST"), "auth")>>,
         <<>>, <<>>),
     PCR_Reset |-> Case(<<"pcrHandle">>, <<>>, <<>>, <<>>)]
Cases9 ==
    [PolicySigned |-> Case(<<"authObject", "policySession">>,
         <<To(No("TPM2B_NONCE"), "nonceTPM"), To(No("TPM2B_DIGEST"), "cpHashA"),
             To(No("TPM2B_NONCE"), "policyRef"), To(No("INT32"), "expiration"),
             To(Flag("TPMT_SIGNATURE", FALSE), "auth")>>, <<>>,
         <<From("TPM2B_TIMEOUT", "timeout"), From("TPMT_TK_AUTH", "policyTicket")>>),
     PolicySecret |-> Case(<<"authHandle", "policySession">>,
         <<To(No("TPM2B_NONCE"), "nonceTPM"), To(No("TPM2B_DIGEST"), "cpHashA"),
             To(No("TPM2B_NONCE"), "policyRef"), To(No("INT32"), "expiration")>>, <<>>,
         <<From("TPM2B_TIMEOUT", "timeout"), From("TPMT_TK_AUTH", "policyTicket")>>),
     PolicyTicket |-> Case(<<"policySession">>,
         <<To(No("TPM2B_TIMEOUT"), "timeout"), To(No("TPM2B_DIGEST"), "cpHashA"),
             To(No("TPM2B_NONCE"), "policyRef"), To(No("TPM2B_NAME"), "authName"),
             To(No("TPMT_TK_AUTH"), "ticket")>>, <<>>, <<>>),
     PolicyOR |-> Case(<<"policySession">>, <<To(No("TPML_DIGEST"), "pHashList")>>,
         <<>>, <<>>),
     PolicyPCR |-> Case(<<"policySession">>,
         <<To(No("TPM2B_DIGEST"), "pcrDigest"), To(No("TPML_PCR_SELECTION"), "pcrs")>>,
         <<>>, <<>>),
     PolicyLocality |-> Case(<<"policySession">>,
         <<To(No("TPMA_LOCALITY"), "locality")>>, <<>>, <<>>),
     PolicyNV |-> Case(<<"authHandle", "nvIndex", "policySession">>,
         <<To(No("TPM2B_OPERAND"), "operandB"), To(No("UINT16"), "offset"),
             To(No("TPM_EO"), "operation")>>, <<>>, <<>>),
     PolicyCounterTimer |-> Case(<<"policySession">>,
         <<To(No("TPM2B_OPERAND"), "operandB"), To(No("UINT16"), "offset"),
             To(No("TPM_EO"), "operation")>>, <<>>, <<>>)]
Cases10 ==
    [PolicyCommandCode |-> Case(<<"policySession">>, <<To(No("TPM_CC"), "code")>>, <<>>,
         <<>>),
     PolicyPhysicalPresence |-> Case(<<"policySession">>, <<>>, <<>>, <<>>),
     PolicyCpHash |-> Case(<<"policySession">>, <<To(No("TPM2B_DIGEST"), "cpHashA")>>,
         <<>>, <<>>),
     PolicyNameHash |-> Case(<<"policySession">>,
         <<To(No("TPM2B_DIGEST"), "nameHash")>>, <<>>, <<>>),
     PolicyDuplicationSelect |-> Case(<<"policySession">>,
         <<To(No("TPM2B_NAME"), "objectName"), To(No("TPM2B_NAME"), "newParentName"),
             To(No("TPMI_YES_NO"), "includeObject")>>, <<>>, <<>>),
     PolicyAuthorize |-> Case(<<"policySession">>,
         <<To(No("TPM2B_DIGEST"), "approvedPolicy"), To(No("TPM2B_NONCE"), "policyRef"),
             To(No("TPM2B_NAME"), "keySign"),
             To(No("TPMT_TK_VERIFIED"), "checkTicket")>>, <<>>, <<>>),
     PolicyAuthValue |-> Case(<<"policySession">>, <<>>, <<>>, <<>>),
     PolicyPassword |-> Case(<<"policySession">>, <<>>, <<>>, <<>>),
     PolicyGetDigest |-> Case(<<"policySession">>, <<>>, <<>>,
         <<From("TPM2B_DIGEST", "policyDigest")>>),
     PolicyNvWritten |-> Case(<<"policySession">>,
         <<To(No("TPMI_YES_NO"), "writtenSet")>>, <<>>, <<>>),
     PolicyTemplate |-> Case(<<"policySession">>,
         <<To(No("TPM2B_DIGEST"), "templateHash")>>, <<>>, <<>>)]
Cases11 ==
    [PolicyAuthorizeNV |-> Case(<<"authHandle", "nvIndex", "policySession">>, <<>>,
         <<>>, <<>>),
     CreatePrimary |-> Case(<<"primaryHandle">>,
         <<To(No("TPM2B_SENSITIVE_CREATE"), "inSensitive"),
             To(Flag("TPM2B_PUBLIC", FALSE), "inPublic"),
             To(No("TPM2B_DATA"), "outsideInfo"),
             To(No("TPML_PCR_SELECTION"), "creationPCR")>>, <<"objectHandle">>,
         <<From("TPM2B_PUBLIC", "outPublic"),
             From("TPM2B_CREATION_DATA", "creationData"),
             From("TPM2B_DIGEST", "creationHash"),
             From("TPMT_TK_CREATION", "creationTicket"), From("TPM2B_NAME", "name")>>),
     HierarchyControl |-> Case(<<"authHandle">>,
         <<To(Flag("TPMI_RH_ENABLES", FALSE), "enable"),
             To(No("TPMI_YES_NO"), "state")>>, <<>>, <<>>),
     SetPrimaryPolicy |-> Case(<<"authHandle">>,
         <<To(No("TPM2B_DIGEST"), "authPolicy"),
             To(Flag("TPMI_ALG_HASH", TRUE), "hashAlg")>>, <<>>, <<>>),
     ChangePPS |-> Case(<<"authHandle">>, <<>>, <<>>, <<>>),
     ChangeEPS |-> Case(<<"authHandle">>, <<>>, <<>>, <<>>),
     Clear |-> Case(<<"authHandle">>, <<>>, <<>>, <<>>),
     ClearControl |-> Case(<<"auth">>, <<To(No("TPMI_YES_NO"), "disable")>>, <<>>,
         <<>>),
     HierarchyChangeAuth |-> Case(<<"authHandle">>, <<To(No("TPM2B_AUTH"), "newAuth")>>,
         <<>>, <<>>),
     DictionaryAttackLockReset |-> Case(<<"lockHandle">>, <<>>, <<>>, <<>>)]
Cases12 ==
    [DictionaryAttackParameters |-> Case(<<"lockHandle">>,
         <<To(No("UINT32"), "newMaxTries"), To(No("UINT32"), "newRecoveryTime"),
             To(No("UINT32"), "lockoutRecovery")>>, <<>>, <<>>),
     PP_Commands |-> Case(<<"auth">>,
         <<To(No("TPML_CC"), "setList"), To(No("TPML_CC"), "clearList")>>, <<>>, <<>>),
     SetAlgorithmSet |-> Case(<<"authHandle">>, <<To(No("UINT32"), "algorithmSet")>>,
         <<>>, <<>>),
     FieldUpgradeStart |-> Case(<<"authorization", "keyHandle">>,
         <<To(No("TPM2B_DIGEST"), "fuDigest"),
             To(Flag("TPMT_SIGNATURE", FALSE), "manifestSignature")>>, <<>>, <<>>),
     FieldUpgradeData |-> Case(<<>>, <<To(No("TPM2B_MAX_BUFFER"), "fuData")>>, <<>>,
         <<From("TPMT_HA", "nextDigest"), From("TPMT_HA", "firstDigest")>>),
     FirmwareRead |-> Case(<<>>, <<To(No("UINT32"), "sequenceNumber")>>, <<>>,
         <<From("TPM2B_MAX_BUFFER", "fuData")>>),
     ContextSave |-> Case(<<"saveHandle">>, <<>>, <<>>,
         <<From("TPMS_CONTEXT", "context")>>),
     ContextLoad |-> Case(<<>>, <<To(No("TPMS_CONTEXT"), "context")>>,
         <<"loadedHandle">>, <<>>),
     FlushContext |-> Case(<<>>, <<To(No("TPMI_DH_CONTEXT"), "flushHandle")>>, <<>>,
         <<>>),
     EvictControl |-> Case(<<"auth", "objectHandle">>,
         <<To(No("TPMI_DH_PERSISTENT"), "persistentHandle")>>, <<>>, <<>>)]
Cases13 ==
    [ReadClock |-> Case(<<>>, <<>>, <<>>, <<From("TPMS_TIME_INFO", "currentTime")>>),
     ClockSet |-> Case(<<"auth">>, <<To(No("UINT64"), "newTime")>>, <<>>, <<>>),
     ClockRateAdjust |-> Case(<<"auth">>, <<To(No("TPM_CLOCK_ADJUST"), "rateAdjust")>>,
         <<>>, <<>>),
     GetCapability |-> Case(<<>>,
         <<To(No("TPM_CAP"), "capability"), To(No("UINT32"), "property"),
             To(No("UINT32"), "propertyCount")>>, <<>>,
         <<From("TPMI_YES_NO", "moreData"),
             From("TPMS_CAPABILITY_DATA", "capabilityData")>>),
     TestParms |-> Case(<<>>, <<To(No("TPMT_PUBLIC_PARMS"), "parameters")>>, <<>>,
         <<>>),
     NV_DefineSpace |-> Case(<<"authHandle">>,
         <<To(No("TPM2B_AUTH"), "auth"), To(No("TPM2B_NV_PUBLIC"), "publicInfo")>>,
         <<>>, <<>>),
     NV_UndefineSpace |-> Case(<<"authHandle", "nvIndex">>, <<>>, <<>>, <<>>),
     NV_UndefineSpaceSpecial |-> Case(<<"nvIndex", "platform">>, <<>>, <<>>, <<>>),
     NV_ReadPublic |-> Case(<<"nvIndex">>, <<>>, <<>>,
         <<From("TPM2B_NV_PUBLIC", "nvPublic"), From("TPM2B_NAME", "nvName")>>),
     NV_Write |-> Case(<<"authHandle", "nvIndex">>,
         <<To(No("TPM2B_MAX_NV_BUFFER"), "data"), To(No("UINT16"), "offset")>>, <<>>,
         <<>>),
     NV_Increment |-> Case(<<"authHandle", "nvIndex">>, <<>>, <<>>, <<>>)]
Cases14 ==
    [NV_Extend |-> Case(<<"authHandle", "nvIndex">>,
         <<To(No("TPM2B_MAX_NV_BUFFER"), "data")>>, <<>>, <<>>),
     NV_SetBits |-> Case(<<"authHandle", "nvIndex">>, <<To(No("UINT64"), "bits")>>,
         <<>>, <<>>),
     NV_WriteLock |-> Case(<<"authHandle", "nvIndex">>, <<>>, <<>>, <<>>),
     NV_GlobalWriteLock |-> Case(<<"authHandle">>, <<>>, <<>>, <<>>),
     NV_Read |-> Case(<<"authHandle", "nvIndex">>,
         <<To(No("UINT16"), "size"), To(No("UINT16"), "offset")>>, <<>>,
         <<From("TPM2B_MAX_NV_BUFFER", "data")>>),
     NV_ReadLock |-> Case(<<"authHandle", "nvIndex">>, <<>>, <<>>, <<>>),
     NV_ChangeAuth |-> Case(<<"nvIndex">>, <<To(No("TPM2B_AUTH"), "newAuth")>>, <<>>,
         <<>>),
     NV_Certify |-> Case(<<"signHandle", "authHandle", "nvIndex">>,
         <<To(No("TPM2B_DATA"), "qualifyingData"),
             To(Flag("TPMT_SIG_SCHEME", TRUE), "inScheme"), To(No("UINT16"), "size"),
             To(No("UINT16"), "offset")>>, <<>>,
         <<From("TPM2B_ATTEST", "certifyInfo"), From("TPMT_SIGNATURE", "signature")>>),
     AC_GetCapability |-> Case(<<"ac">>,
         <<To(No("TPM_AT"), "capability"), To(No("UINT32"), "count")>>, <<>>,
         <<From("TPMI_YES_NO", "moreData"),
             From("TPML_AC_CAPABILITIES", "capabilitiesData")>>)]
Cases15 ==
    [AC_Send |-> Case(<<"sendObject", "authHandle", "ac">>,
         <<To(No("TPM2B_MAX_BUFFER"), "acDataIn")>>, <<>>,
         <<From("TPMS_AC_OUTPUT", "acDataOut")>>),
     Policy_AC_SendSelect |-> Case(<<"policySession">>,
         <<To(No("TPM2B_NAME"), "objectName"), To(No("TPM2B_NAME"), "authHandleName"),
             To(No("TPM2B_NAME"), "acName"), To(No("TPMI_YES_NO"), "includeObject")>>,
         <<>>, <<>>),
     Vendor_TCG_Test |-> Case(<<>>, <<To(No("TPM2B_DATA"), "inputData")>>, <<>>,
         <<From("TPM2B_DATA", "outputData")>>)]

CaseOf ==
    Cases1 @@ Cases2 @@ Cases3 @@ Cases4 @@ Cases5 @@ Cases6 @@ Cases7 @@ Cases8 @@
    Cases9 @@ Cases10 @@ Cases11 @@ Cases12 @@ Cases13 @@ Cases14 @@ Cases15
=============================================================================
