------------------------- MODULE CommandPrototypes --------------------------
(***************************************************************************)
(* The input and output structures of the commands and the response code   *)
(* modifiers of their handles and parameters, a definition for each        *)
(* ..._fp.h.  A member has a type, a name and, in an input, a modifier.    *)
(***************************************************************************)
EXTENDS Integers, Sequences

TPM_RC_H == 0
TPM_RC_P == 64
TPM_RC_1 == 256
RcH(n) == TPM_RC_H + n * TPM_RC_1
RcP(n) == TPM_RC_P + n * TPM_RC_1

A(type, field, rc) == [type |-> type, field |-> field, rc |-> rc]
R(type, field) == [type |-> type, field |-> field]
Fp(name, in, out) == [name |-> name, in |-> in, out |-> out]

-----------------------------------------------------------------------------
Startup_fp ==
    Fp("Startup", <<A("TPM_SU", "startupType", RcP(1))>>, <<>>)
Shutdown_fp ==
    Fp("Shutdown", <<A("TPM_SU", "shutdownType", RcP(1))>>, <<>>)
SelfTest_fp ==
    Fp("SelfTest", <<A("TPMI_YES_NO", "fullTest", RcP(1))>>, <<>>)
IncrementalSelfTest_fp ==
    Fp("IncrementalSelfTest", <<A("TPML_ALG", "toTest", RcP(1))>>,
       <<R("TPML_ALG", "toDoList")>>)
GetTestResult_fp ==
    Fp("GetTestResult", <<>>, <<R("TPM2B_MAX_BUFFER", "outData"),
       R("TPM_RC", "testResult")>>)
StartAuthSession_fp ==
    Fp("StartAuthSession", <<A("TPMI_DH_OBJECT", "tpmKey", RcH(1)),
       A("TPMI_DH_ENTITY", "bind", RcH(2)), A("TPM2B_NONCE", "nonceCaller", RcP(1)),
       A("TPM2B_ENCRYPTED_SECRET", "encryptedSalt", RcP(2)),
       A("TPM_SE", "sessionType", RcP(3)), A("TPMT_SYM_DEF", "symmetric", RcP(4)),
       A("TPMI_ALG_HASH", "authHash", RcP(5))>>,
       <<R("TPMI_SH_AUTH_SESSION", "sessionHandle"), R("TPM2B_NONCE", "nonceTPM")>>)
PolicyRestart_fp ==
    Fp("PolicyRestart", <<A("TPMI_SH_POLICY", "sessionHandle", RcH(1))>>, <<>>)
Create_fp ==
    Fp("Create", <<A("TPMI_DH_OBJECT", "parentHandle", RcH(1)),
       A("TPM2B_SENSITIVE_CREATE", "inSensitive", RcP(1)),
       A("TPM2B_PUBLIC", "inPublic", RcP(2)), A("TPM2B_DATA", "outsideInfo", RcP(3)),
       A("TPML_PCR_SELECTION", "creationPCR", RcP(4))>>,
       <<R("TPM2B_PRIVATE", "outPrivate"), R("TPM2B_PUBLIC", "outPublic"),
       R("TPM2B_CREATION_DATA", "creationData"), R("TPM2B_DIGEST", "creationHash"),
       R("TPMT_TK_CREATION", "creationTicket")>>)
Load_fp ==
    Fp("Load", <<A("TPMI_DH_OBJECT", "parentHandle", RcH(1)),
       A("TPM2B_PRIVATE", "inPrivate", RcP(1)),
       A("TPM2B_PUBLIC", "inPublic", RcP(2))>>, <<R("TPM_HANDLE", "objectHandle"),
       R("TPM2B_NAME", "name")>>)
LoadExternal_fp ==
    Fp("LoadExternal", <<A("TPM2B_SENSITIVE", "inPrivate", RcP(1)),
       A("TPM2B_PUBLIC", "inPublic", RcP(2)),
       A("TPMI_RH_HIERARCHY", "hierarchy", RcP(3))>>,
       <<R("TPM_HANDLE", "objectHandle"), R("TPM2B_NAME", "name")>>)

ReadPublic_fp ==
    Fp("ReadPublic", <<A("TPMI_DH_OBJECT", "objectHandle", RcH(1))>>,
       <<R("TPM2B_PUBLIC", "outPublic"), R("TPM2B_NAME", "name"),
       R("TPM2B_NAME", "qualifiedName")>>)
ActivateCredential_fp ==
    Fp("ActivateCredential", <<A("TPMI_DH_OBJECT", "activateHandle", RcH(1)),
       A("TPMI_DH_OBJECT", "keyHandle", RcH(2)),
       A("TPM2B_ID_OBJECT", "credentialBlob", RcP(1)),
       A("TPM2B_ENCRYPTED_SECRET", "secret", RcP(2))>>,
       <<R("TPM2B_DIGEST", "certInfo")>>)
MakeCredential_fp ==
    Fp("MakeCredential", <<A("TPMI_DH_OBJECT", "handle", RcH(1)),
       A("TPM2B_DIGEST", "credential", RcP(1)),
       A("TPM2B_NAME", "objectName", RcP(2))>>,
       <<R("TPM2B_ID_OBJECT", "credentialBlob"),
       R("TPM2B_ENCRYPTED_SECRET", "secret")>>)
Unseal_fp ==
    Fp("Unseal", <<A("TPMI_DH_OBJECT", "itemHandle", RcH(1))>>,
       <<R("TPM2B_SENSITIVE_DATA", "outData")>>)
ObjectChangeAuth_fp ==
    Fp("ObjectChangeAuth", <<A("TPMI_DH_OBJECT", "objectHandle", RcH(1)),
       A("TPMI_DH_OBJECT", "parentHandle", RcH(2)),
       A("TPM2B_AUTH", "newAuth", RcP(1))>>, <<R("TPM2B_PRIVATE", "outPrivate")>>)
CreateLoaded_fp ==
    Fp("CreateLoaded", <<A("TPMI_DH_PARENT", "parentHandle", RcH(1)),
       A("TPM2B_SENSITIVE_CREATE", "inSensitive", RcP(1)),
       A("TPM2B_TEMPLATE", "inPublic", RcP(2))>>, <<R("TPM_HANDLE", "objectHandle"),
       R("TPM2B_PRIVATE", "outPrivate"), R("TPM2B_PUBLIC", "outPublic"),
       R("TPM2B_NAME", "name")>>)
Duplicate_fp ==
    Fp("Duplicate", <<A("TPMI_DH_OBJECT", "objectHandle", RcH(1)),
       A("TPMI_DH_OBJECT", "newParentHandle", RcH(2)),
       A("TPM2B_DATA", "encryptionKeyIn", RcP(1)),
       A("TPMT_SYM_DEF_OBJECT", "symmetricAlg", RcP(2))>>,
       <<R("TPM2B_DATA", "encryptionKeyOut"), R("TPM2B_PRIVATE", "duplicate"),
       R("TPM2B_ENCRYPTED_SECRET", "outSymSeed")>>)
Rewrap_fp ==
    Fp("Rewrap", <<A("TPMI_DH_OBJECT", "oldParent", RcH(1)),
       A("TPMI_DH_OBJECT", "newParent", RcH(2)),
       A("TPM2B_PRIVATE", "inDuplicate", RcP(1)), A("TPM2B_NAME", "name", RcP(2)),
       A("TPM2B_ENCRYPTED_SECRET", "inSymSeed", RcP(3))>>,
       <<R("TPM2B_PRIVATE", "outDuplicate"),
       R("TPM2B_ENCRYPTED_SECRET", "outSymSeed")>>)
Import_fp ==
    Fp("Import", <<A("TPMI_DH_OBJECT", "parentHandle", RcH(1)),
       A("TPM2B_DATA", "encryptionKey", RcP(1)),
       A("TPM2B_PUBLIC", "objectPublic", RcP(2)),
       A("TPM2B_PRIVATE", "duplicate", RcP(3)),
       A("TPM2B_ENCRYPTED_SECRET", "inSymSeed", RcP(4)),
       A("TPMT_SYM_DEF_OBJECT", "symmetricAlg", RcP(5))>>,
       <<R("TPM2B_PRIVATE", "outPrivate")>>)
RSA_Encrypt_fp ==
    Fp("RSA_Encrypt", <<A("TPMI_DH_OBJECT", "keyHandle", RcH(1)),
       A("TPM2B_PUBLIC_KEY_RSA", "message", RcP(1)),
       A("TPMT_RSA_DECRYPT", "inScheme", RcP(2)), A("TPM2B_DATA", "label", RcP(3))>>,
       <<R("TPM2B_PUBLIC_KEY_RSA", "outData")>>)
RSA_Decrypt_fp ==
    Fp("RSA_Decrypt", <<A("TPMI_DH_OBJECT", "keyHandle", RcH(1)),
       A("TPM2B_PUBLIC_KEY_RSA", "cipherText", RcP(1)),
       A("TPMT_RSA_DECRYPT", "inScheme", RcP(2)), A("TPM2B_DATA", "label", RcP(3))>>,
       <<R("TPM2B_PUBLIC_KEY_RSA", "message")>>)
ECDH_KeyGen_fp ==
    Fp("ECDH_KeyGen", <<A("TPMI_DH_OBJECT", "keyHandle", RcH(1))>>,
       <<R("TPM2B_ECC_POINT", "zPoint"), R("TPM2B_ECC_POINT", "pubPoint")>>)
ECDH_ZGen_fp ==
    Fp("ECDH_ZGen", <<A("TPMI_DH_OBJECT", "keyHandle", RcH(1)),
       A("TPM2B_ECC_POINT", "inPoint", RcP(1))>>, <<R("TPM2B_ECC_POINT", "outPoint")>>)
ECC_Parameters_fp ==
    Fp("ECC_Parameters", <<A("TPMI_ECC_CURVE", "curveID", RcP(1))>>,
       <<R("TPMS_ALGORITHM_DETAIL_ECC", "parameters")>>)
ZGen_2Phase_fp ==
    Fp("ZGen_2Phase", <<A("TPMI_DH_OBJECT", "keyA", RcH(1)),
       A("TPM2B_ECC_POINT", "inQsB", RcP(1)), A("TPM2B_ECC_POINT", "inQeB", RcP(2)),
       A("TPMI_ECC_KEY_EXCHANGE", "inScheme", RcP(3)),
       A("UINT16", "counter", RcP(4))>>, <<R("TPM2B_ECC_POINT", "outZ1"),
       R("TPM2B_ECC_POINT", "outZ2")>>)
EncryptDecrypt_fp ==
    Fp("EncryptDecrypt", <<A("TPMI_DH_OBJECT", "keyHandle", RcH(1)),
       A("TPMI_YES_NO", "decrypt", RcP(1)), A("TPMI_ALG_CIPHER_MODE", "mode", RcP(2)),
       A("TPM2B_IV", "ivIn", RcP(3)), A("TPM2B_MAX_BUFFER", "inData", RcP(4))>>,
       <<R("TPM2B_MAX_BUFFER", "outData"), R("TPM2B_IV", "ivOut")>>)
EncryptDecrypt2_fp ==
    Fp("EncryptDecrypt2", <<A("TPMI_DH_OBJECT", "keyHandle", RcH(1)),
       A("TPM2B_MAX_BUFFER", "inData", RcP(1)), A("TPMI_YES_NO", "decrypt", RcP(2)),
       A("TPMI_ALG_CIPHER_MODE", "mode", RcP(3)), A("TPM2B_IV", "ivIn", RcP(4))>>,
       <<R("TPM2B_MAX_BUFFER", "outData"), R("TPM2B_IV", "ivOut")>>)
Hash_fp ==
    Fp("Hash", <<A("TPM2B_MAX_BUFFER", "data", RcP(1)),
       A("TPMI_ALG_HASH", "hashAlg", RcP(2)),
       A("TPMI_RH_HIERARCHY", "hierarchy", RcP(3))>>, <<R("TPM2B_DIGEST", "outHash"),
       R("TPMT_TK_HASHCHECK", "validation")>>)
HMAC_fp ==
    Fp("HMAC", <<A("TPMI_DH_OBJECT", "handle", RcH(1)),
       A("TPM2B_MAX_BUFFER", "buffer", RcP(1)),
       A("TPMI_ALG_HASH", "hashAlg", RcP(2))>>, <<R("TPM2B_DIGEST", "outHMAC")>>)
MAC_fp ==
    Fp("MAC", <<A("TPMI_DH_OBJECT", "handle", RcH(1)),
       A("TPM2B_MAX_BUFFER", "buffer", RcP(1)),
       A("TPMI_ALG_MAC_SCHEME", "inScheme", RcP(2))>>, <<R("TPM2B_DIGEST", "outMAC")>>)
GetRandom_fp ==
    Fp("GetRandom", <<A("UINT16", "bytesRequested", RcP(1))>>,
       <<R("TPM2B_DIGEST", "randomBytes")>>)
StirRandom_fp ==
    Fp("StirRandom", <<A("TPM2B_SENSITIVE_DATA", "inData", RcP(1))>>, <<>>)
HMAC_Start_fp ==
    Fp("HMAC_Start", <<A("TPMI_DH_OBJECT", "handle", RcH(1)),
       A("TPM2B_AUTH", "auth", RcP(1)), A("TPMI_ALG_HASH", "hashAlg", RcP(2))>>,
       <<R("TPMI_DH_OBJECT", "sequenceHandle")>>)
MAC_Start_fp ==
    Fp("MAC_Start", <<A("TPMI_DH_OBJECT", "handle", RcH(1)),
       A("TPM2B_AUTH", "auth", RcP(1)), A("TPMI_ALG_MAC_SCHEME", "inScheme", RcP(2))>>,
       <<R("TPMI_DH_OBJECT", "sequenceHandle")>>)
HashSequenceStart_fp ==
    Fp("HashSequenceStart", <<A("TPM2B_AUTH", "auth", RcP(1)),
       A("TPMI_ALG_HASH", "hashAlg", RcP(2))>>,
       <<R("TPMI_DH_OBJECT", "sequenceHandle")>>)
SequenceUpdate_fp ==
    Fp("SequenceUpdate", <<A("TPMI_DH_OBJECT", "sequenceHandle", RcH(1)),
       A("TPM2B_MAX_BUFFER", "buffer", RcP(1))>>, <<>>)
SequenceComplete_fp ==
    Fp("SequenceComplete", <<A("TPMI_DH_OBJECT", "sequenceHandle", RcH(1)),
       A("TPM2B_MAX_BUFFER", "buffer", RcP(1)),
       A("TPMI_RH_HIERARCHY", "hierarchy", RcP(2))>>, <<R("TPM2B_DIGEST", "result"),
       R("TPMT_TK_HASHCHECK", "validation")>>)
EventSequenceComplete_fp ==
    Fp("EventSequenceComplete", <<A("TPMI_DH_PCR", "pcrHandle", RcH(1)),
       A("TPMI_DH_OBJECT", "sequenceHandle", RcH(2)),
       A("TPM2B_MAX_BUFFER", "buffer", RcP(1))>>,
       <<R("TPML_DIGEST_VALUES", "results")>>)
Certify_fp ==
    Fp("Certify", <<A("TPMI_DH_OBJECT", "objectHandle", RcH(1)),
       A("TPMI_DH_OBJECT", "signHandle", RcH(2)),
       A("TPM2B_DATA", "qualifyingData", RcP(1)),
       A("TPMT_SIG_SCHEME", "inScheme", RcP(2))>>, <<R("TPM2B_ATTEST", "certifyInfo"),
       R("TPMT_SIGNATURE", "signature")>>)
CertifyCreation_fp ==
    Fp("CertifyCreation", <<A("TPMI_DH_OBJECT", "signHandle", RcH(1)),
       A("TPMI_DH_OBJECT", "objectHandle", RcH(2)),
       A("TPM2B_DATA", "qualifyingData", RcP(1)),
       A("TPM2B_DIGEST", "creationHash", RcP(2)),
       A("TPMT_SIG_SCHEME", "inScheme", RcP(3)),
       A("TPMT_TK_CREATION", "creationTicket", RcP(4))>>,
       <<R("TPM2B_ATTEST", "certifyInfo"), R("TPMT_SIGNATURE", "signature")>>)
Quote_fp ==
    Fp("Quote", <<A("TPMI_DH_OBJECT", "signHandle", RcH(1)),
       A("TPM2B_DATA", "qualifyingData", RcP(1)),
       A("TPMT_SIG_SCHEME", "inScheme", RcP(2)),
       A("TPML_PCR_SELECTION", "PCRselect", RcP(3))>>, <<R("TPM2B_ATTEST", "quoted"),
       R("TPMT_SIGNATURE", "signature")>>)
GetSessionAuditDigest_fp ==
    Fp("GetSessionAuditDigest",
       <<A("TPMI_RH_ENDORSEMENT", "privacyAdminHandle", RcH(1)),
       A("TPMI_DH_OBJECT", "signHandle", RcH(2)),
       A("TPMI_SH_HMAC", "sessionHandle", RcH(3)),
       A("TPM2B_DATA", "qualifyingData", RcP(1)),
       A("TPMT_SIG_SCHEME", "inScheme", RcP(2))>>, <<R("TPM2B_ATTEST", "auditInfo"),
       R("TPMT_SIGNATURE", "signature")>>)
GetCommandAuditDigest_fp ==
    Fp("GetCommandAuditDigest", <<A("TPMI_RH_ENDORSEMENT", "privacyHandle", RcH(1)),
       A("TPMI_DH_OBJECT", "signHandle", RcH(2)),
       A("TPM2B_DATA", "qualifyingData", RcP(1)),
       A("TPMT_SIG_SCHEME", "inScheme", RcP(2))>>, <<R("TPM2B_ATTEST", "auditInfo"),
       R("TPMT_SIGNATURE", "signature")>>)
GetTime_fp ==
    Fp("GetTime", <<A("TPMI_RH_ENDORSEMENT", "privacyAdminHandle", RcH(1)),
       A("TPMI_DH_OBJECT", "signHandle", RcH(2)),
       A("TPM2B_DATA", "qualifyingData", RcP(1)),
       A("TPMT_SIG_SCHEME", "inScheme", RcP(2))>>, <<R("TPM2B_ATTEST", "timeInfo"),
       R("TPMT_SIGNATURE", "signature")>>)
CertifyX509_fp ==
    Fp("CertifyX509", <<A("TPMI_DH_OBJECT", "objectHandle", RcH(1)),
       A("TPMI_DH_OBJECT", "signHandle", RcH(2)),
       A("TPM2B_DATA", "qualifyingData", RcP(1)),
       A("TPMT_SIG_SCHEME", "inScheme", RcP(2)),
       A("TPM2B_MAX_BUFFER", "partialCertificate", RcP(3))>>,
       <<R("TPM2B_MAX_BUFFER", "addedToCertificate"), R("TPM2B_DIGEST", "tbsDigest"),
       R("TPMT_SIGNATURE", "signature")>>)
Commit_fp ==
    Fp("Commit", <<A("TPMI_DH_OBJECT", "signHandle", RcH(1)),
       A("TPM2B_ECC_POINT", "P1", RcP(1)), A("TPM2B_SENSITIVE_DATA", "s2", RcP(2)),
       A("TPM2B_ECC_PARAMETER", "y2", RcP(3))>>, <<R("TPM2B_ECC_POINT", "K"),
       R("TPM2B_ECC_POINT", "L"), R("TPM2B_ECC_POINT", "E"), R("UINT16", "counter")>>)
EC_Ephemeral_fp ==
    Fp("EC_Ephemeral", <<A("TPMI_ECC_CURVE", "curveID", RcP(1))>>,
       <<R("TPM2B_ECC_POINT", "Q"), R("UINT16", "counter")>>)
VerifySignature_fp ==
    Fp("VerifySignature", <<A("TPMI_DH_OBJECT", "keyHandle", RcH(1)),
       A("TPM2B_DIGEST", "digest", RcP(1)), A("TPMT_SIGNATURE", "signature", RcP(2))>>,
       <<R("TPMT_TK_VERIFIED", "validation")>>)
Sign_fp ==
    Fp("Sign", <<A("TPMI_DH_OBJECT", "keyHandle", RcH(1)),
       A("TPM2B_DIGEST", "digest", RcP(1)), A("TPMT_SIG_SCHEME", "inScheme", RcP(2)),
       A("TPMT_TK_HASHCHECK", "validation", RcP(3))>>,
       <<R("TPMT_SIGNATURE", "signature")>>)
SetCommandCodeAuditStatus_fp ==
    Fp("SetCommandCodeAuditStatus", <<A("TPMI_RH_PROVISION", "auth", RcH(1)),
       A("TPMI_ALG_HASH", "auditAlg", RcP(1)), A("TPML_CC", "setList", RcP(2)),
       A("TPML_CC", "clearList", RcP(3))>>, <<>>)
PCR_Extend_fp ==
    Fp("PCR_Extend", <<A("TPMI_DH_PCR", "pcrHandle", RcH(1)),
       A("TPML_DIGEST_VALUES", "digests", RcP(1))>>, <<>>)
PCR_Event_fp ==
    Fp("PCR_Event", <<A("TPMI_DH_PCR", "pcrHandle", RcH(1)),
       A("TPM2B_EVENT", "eventData", RcP(1))>>, <<R("TPML_DIGEST_VALUES", "digests")>>)
PCR_Read_fp ==
    Fp("PCR_Read", <<A("TPML_PCR_SELECTION", "pcrSelectionIn", RcP(1))>>,
       <<R("UINT32", "pcrUpdateCounter"), R("TPML_PCR_SELECTION", "pcrSelectionOut"),
       R("TPML_DIGEST", "pcrValues")>>)
PCR_Allocate_fp ==
    Fp("PCR_Allocate", <<A("TPMI_RH_PLATFORM", "authHandle", RcH(1)),
       A("TPML_PCR_SELECTION", "pcrAllocation", RcP(1))>>,
       <<R("TPMI_YES_NO", "allocationSuccess"), R("UINT32", "maxPCR"),
       R("UINT32", "sizeNeeded"), R("UINT32", "sizeAvailable")>>)
PCR_SetAuthPolicy_fp ==
    Fp("PCR_SetAuthPolicy", <<A("TPMI_RH_PLATFORM", "authHandle", RcH(1)),
       A("TPM2B_DIGEST", "authPolicy", RcP(1)), A("TPMI_ALG_HASH", "hashAlg", RcP(2)),
       A("TPMI_DH_PCR", "pcrNum", RcP(3))>>, <<>>)
PCR_SetAuthValue_fp ==
    Fp("PCR_SetAuthValue", <<A("TPMI_DH_PCR", "pcrHandle", RcH(1)),
       A("TPM2B_DIGEST", "auth", RcP(1))>>, <<>>)
PCR_Reset_fp ==
    Fp("PCR_Reset", <<A("TPMI_DH_PCR", "pcrHandle", RcH(1))>>, <<>>)
PolicySigned_fp ==
    Fp("PolicySigned", <<A("TPMI_DH_OBJECT", "authObject", RcH(1)),
       A("TPMI_SH_POLICY", "policySession", RcH(2)),
       A("TPM2B_NONCE", "nonceTPM", RcP(1)), A("TPM2B_DIGEST", "cpHashA", RcP(2)),
       A("TPM2B_NONCE", "policyRef", RcP(3)), A("INT32", "expiration", RcP(4)),
       A("TPMT_SIGNATURE", "auth", RcP(5))>>, <<R("TPM2B_TIMEOUT", "timeout"),
       R("TPMT_TK_AUTH", "policyTicket")>>)
PolicySecret_fp ==
    Fp("PolicySecret", <<A("TPMI_DH_ENTITY", "authHandle", RcH(1)),
       A("TPMI_SH_POLICY", "policySession", RcH(2)),
       A("TPM2B_NONCE", "nonceTPM", RcP(1)), A("TPM2B_DIGEST", "cpHashA", RcP(2)),
       A("TPM2B_NONCE", "policyRef", RcP(3)), A("INT32", "expiration", RcP(4))>>,
       <<R("TPM2B_TIMEOUT", "timeout"), R("TPMT_TK_AUTH", "policyTicket")>>)
PolicyTicket_fp ==
    Fp("PolicyTicket", <<A("TPMI_SH_POLICY", "policySession", RcH(1)),
       A("TPM2B_TIMEOUT", "timeout", RcP(1)), A("TPM2B_DIGEST", "cpHashA", RcP(2)),
       A("TPM2B_NONCE", "policyRef", RcP(3)), A("TPM2B_NAME", "authName", RcP(4)),
       A("TPMT_TK_AUTH", "ticket", RcP(5))>>, <<>>)
PolicyOR_fp ==
    Fp("PolicyOR", <<A("TPMI_SH_POLICY", "policySession", RcH(1)),
       A("TPML_DIGEST", "pHashList", RcP(1))>>, <<>>)
PolicyPCR_fp ==
    Fp("PolicyPCR", <<A("TPMI_SH_POLICY", "policySession", RcH(1)),
       A("TPM2B_DIGEST", "pcrDigest", RcP(1)),
       A("TPML_PCR_SELECTION", "pcrs", RcP(2))>>, <<>>)
PolicyLocality_fp ==
    Fp("PolicyLocality", <<A("TPMI_SH_POLICY", "policySession", RcH(1)),
       A("TPMA_LOCALITY", "locality", RcP(1))>>, <<>>)
PolicyNV_fp ==
    Fp("PolicyNV", <<A("TPMI_RH_NV_AUTH", "authHandle", RcH(1)),
       A("TPMI_RH_NV_INDEX", "nvIndex", RcH(2)),
       A("TPMI_SH_POLICY", "policySession", RcH(3)),
       A("TPM2B_OPERAND", "operandB", RcP(1)), A("UINT16", "offset", RcP(2)),
       A("TPM_EO", "operation", RcP(3))>>, <<>>)
PolicyCounterTimer_fp ==
    Fp("PolicyCounterTimer", <<A("TPMI_SH_POLICY", "policySession", RcH(1)),
       A("TPM2B_OPERAND", "operandB", RcP(1)), A("UINT16", "offset", RcP(2)),
       A("TPM_EO", "operation", RcP(3))>>, <<>>)
PolicyCommandCode_fp ==
    Fp("PolicyCommandCode", <<A("TPMI_SH_POLICY", "policySession", RcH(1)),
       A("TPM_CC", "code", RcP(1))>>, <<>>)
PolicyPhysicalPresence_fp ==
    Fp("PolicyPhysicalPresence", <<A("TPMI_SH_POLICY", "policySession", RcH(1))>>,
       <<>>)
PolicyCpHash_fp ==
    Fp("PolicyCpHash", <<A("TPMI_SH_POLICY", "policySession", RcH(1)),
       A("TPM2B_DIGEST", "cpHashA", RcP(1))>>, <<>>)
PolicyNameHash_fp ==
    Fp("PolicyNameHash", <<A("TPMI_SH_POLICY", "policySession", RcH(1)),
       A("TPM2B_DIGEST", "nameHash", RcP(1))>>, <<>>)
PolicyDuplicationSelect_fp ==
    Fp("PolicyDuplicationSelect", <<A("TPMI_SH_POLICY", "policySession", RcH(1)),
       A("TPM2B_NAME", "objectName", RcP(1)), A("TPM2B_NAME", "newParentName", RcP(2)),
       A("TPMI_YES_NO", "includeObject", RcP(3))>>, <<>>)
PolicyAuthorize_fp ==
    Fp("PolicyAuthorize", <<A("TPMI_SH_POLICY", "policySession", RcH(1)),
       A("TPM2B_DIGEST", "approvedPolicy", RcP(1)),
       A("TPM2B_NONCE", "policyRef", RcP(2)), A("TPM2B_NAME", "keySign", RcP(3)),
       A("TPMT_TK_VERIFIED", "checkTicket", RcP(4))>>, <<>>)
PolicyAuthValue_fp ==
    Fp("PolicyAuthValue", <<A("TPMI_SH_POLICY", "policySession", RcH(1))>>, <<>>)
PolicyPassword_fp ==
    Fp("PolicyPassword", <<A("TPMI_SH_POLICY", "policySession", RcH(1))>>, <<>>)
PolicyGetDigest_fp ==
    Fp("PolicyGetDigest", <<A("TPMI_SH_POLICY", "policySession", RcH(1))>>,
       <<R("TPM2B_DIGEST", "policyDigest")>>)
PolicyNvWritten_fp ==
    Fp("PolicyNvWritten", <<A("TPMI_SH_POLICY", "policySession", RcH(1)),
       A("TPMI_YES_NO", "writtenSet", RcP(1))>>, <<>>)
PolicyTemplate_fp ==
    Fp("PolicyTemplate", <<A("TPMI_SH_POLICY", "policySession", RcH(1)),
       A("TPM2B_DIGEST", "templateHash", RcP(1))>>, <<>>)
PolicyAuthorizeNV_fp ==
    Fp("PolicyAuthorizeNV", <<A("TPMI_RH_NV_AUTH", "authHandle", RcH(1)),
       A("TPMI_RH_NV_INDEX", "nvIndex", RcH(2)),
       A("TPMI_SH_POLICY", "policySession", RcH(3))>>, <<>>)
CreatePrimary_fp ==
    Fp("CreatePrimary", <<A("TPMI_RH_HIERARCHY", "primaryHandle", RcH(1)),
       A("TPM2B_SENSITIVE_CREATE", "inSensitive", RcP(1)),
       A("TPM2B_PUBLIC", "inPublic", RcP(2)), A("TPM2B_DATA", "outsideInfo", RcP(3)),
       A("TPML_PCR_SELECTION", "creationPCR", RcP(4))>>,
       <<R("TPM_HANDLE", "objectHandle"), R("TPM2B_PUBLIC", "outPublic"),
       R("TPM2B_CREATION_DATA", "creationData"), R("TPM2B_DIGEST", "creationHash"),
       R("TPMT_TK_CREATION", "creationTicket"), R("TPM2B_NAME", "name")>>)
HierarchyControl_fp ==
    Fp("HierarchyControl", <<A("TPMI_RH_HIERARCHY", "authHandle", RcH(1)),
       A("TPMI_RH_ENABLES", "enable", RcP(1)), A("TPMI_YES_NO", "state", RcP(2))>>,
       <<>>)
SetPrimaryPolicy_fp ==
    Fp("SetPrimaryPolicy", <<A("TPMI_RH_HIERARCHY_AUTH", "authHandle", RcH(1)),
       A("TPM2B_DIGEST", "authPolicy", RcP(1)),
       A("TPMI_ALG_HASH", "hashAlg", RcP(2))>>, <<>>)
ChangePPS_fp ==
    Fp("ChangePPS", <<A("TPMI_RH_PLATFORM", "authHandle", RcH(1))>>, <<>>)
ChangeEPS_fp ==
    Fp("ChangeEPS", <<A("TPMI_RH_PLATFORM", "authHandle", RcH(1))>>, <<>>)
Clear_fp ==
    Fp("Clear", <<A("TPMI_RH_CLEAR", "authHandle", RcH(1))>>, <<>>)
ClearControl_fp ==
    Fp("ClearControl", <<A("TPMI_RH_CLEAR", "auth", RcH(1)),
       A("TPMI_YES_NO", "disable", RcP(1))>>, <<>>)
HierarchyChangeAuth_fp ==
    Fp("HierarchyChangeAuth", <<A("TPMI_RH_HIERARCHY_AUTH", "authHandle", RcH(1)),
       A("TPM2B_AUTH", "newAuth", RcP(1))>>, <<>>)
DictionaryAttackLockReset_fp ==
    Fp("DictionaryAttackLockReset", <<A("TPMI_RH_LOCKOUT", "lockHandle", RcH(1))>>,
       <<>>)
DictionaryAttackParameters_fp ==
    Fp("DictionaryAttackParameters", <<A("TPMI_RH_LOCKOUT", "lockHandle", RcH(1)),
       A("UINT32", "newMaxTries", RcP(1)), A("UINT32", "newRecoveryTime", RcP(2)),
       A("UINT32", "lockoutRecovery", RcP(3))>>, <<>>)
PP_Commands_fp ==
    Fp("PP_Commands", <<A("TPMI_RH_PLATFORM", "auth", RcH(1)),
       A("TPML_CC", "setList", RcP(1)), A("TPML_CC", "clearList", RcP(2))>>, <<>>)
SetAlgorithmSet_fp ==
    Fp("SetAlgorithmSet", <<A("TPMI_RH_PLATFORM", "authHandle", RcH(1)),
       A("UINT32", "algorithmSet", RcP(1))>>, <<>>)
FieldUpgradeStart_fp ==
    Fp("FieldUpgradeStart", <<A("TPMI_RH_PLATFORM", "authorization", RcH(1)),
       A("TPMI_DH_OBJECT", "keyHandle", RcH(2)), A("TPM2B_DIGEST", "fuDigest", RcP(1)),
       A("TPMT_SIGNATURE", "manifestSignature", RcP(2))>>, <<>>)
FieldUpgradeData_fp ==
    Fp("FieldUpgradeData", <<A("TPM2B_MAX_BUFFER", "fuData", RcP(1))>>,
       <<R("TPMT_HA", "nextDigest"), R("TPMT_HA", "firstDigest")>>)
FirmwareRead_fp ==
    Fp("FirmwareRead", <<A("UINT32", "sequenceNumber", RcP(1))>>,
       <<R("TPM2B_MAX_BUFFER", "fuData")>>)
ContextSave_fp ==
    Fp("ContextSave", <<A("TPMI_DH_CONTEXT", "saveHandle", RcH(1))>>,
       <<R("TPMS_CONTEXT", "context")>>)
ContextLoad_fp ==
    Fp("ContextLoad", <<A("TPMS_CONTEXT", "context", RcP(1))>>,
       <<R("TPMI_DH_CONTEXT", "loadedHandle")>>)
FlushContext_fp ==
    Fp("FlushContext", <<A("TPMI_DH_CONTEXT", "flushHandle", RcP(1))>>, <<>>)
EvictControl_fp ==
    Fp("EvictControl", <<A("TPMI_RH_PROVISION", "auth", RcH(1)),
       A("TPMI_DH_OBJECT", "objectHandle", RcH(2)),
       A("TPMI_DH_PERSISTENT", "persistentHandle", RcP(1))>>, <<>>)
ReadClock_fp ==
    Fp("ReadClock", <<>>, <<R("TPMS_TIME_INFO", "currentTime")>>)
ClockSet_fp ==
    Fp("ClockSet", <<A("TPMI_RH_PROVISION", "auth", RcH(1)),
       A("UINT64", "newTime", RcP(1))>>, <<>>)
ClockRateAdjust_fp ==
    Fp("ClockRateAdjust", <<A("TPMI_RH_PROVISION", "auth", RcH(1)),
       A("TPM_CLOCK_ADJUST", "rateAdjust", RcP(1))>>, <<>>)
GetCapability_fp ==
    Fp("GetCapability", <<A("TPM_CAP", "capability", RcP(1)),
       A("UINT32", "property", RcP(2)), A("UINT32", "propertyCount", RcP(3))>>,
       <<R("TPMI_YES_NO", "moreData"), R("TPMS_CAPABILITY_DATA", "capabilityData")>>)
TestParms_fp ==
    Fp("TestParms", <<A("TPMT_PUBLIC_PARMS", "parameters", RcP(1))>>, <<>>)
NV_DefineSpace_fp ==
    Fp("NV_DefineSpace", <<A("TPMI_RH_PROVISION", "authHandle", RcH(1)),
       A("TPM2B_AUTH", "auth", RcP(1)), A("TPM2B_NV_PUBLIC", "publicInfo", RcP(2))>>,
       <<>>)
NV_UndefineSpace_fp ==
    Fp("NV_UndefineSpace", <<A("TPMI_RH_PROVISION", "authHandle", RcH(1)),
       A("TPMI_RH_NV_INDEX", "nvIndex", RcH(2))>>, <<>>)
NV_UndefineSpaceSpecial_fp ==
    Fp("NV_UndefineSpaceSpecial", <<A("TPMI_RH_NV_INDEX", "nvIndex", RcH(1)),
       A("TPMI_RH_PLATFORM", "platform", RcH(2))>>, <<>>)
NV_ReadPublic_fp ==
    Fp("NV_ReadPublic", <<A("TPMI_RH_NV_INDEX", "nvIndex", RcH(1))>>,
       <<R("TPM2B_NV_PUBLIC", "nvPublic"), R("TPM2B_NAME", "nvName")>>)
NV_Write_fp ==
    Fp("NV_Write", <<A("TPMI_RH_NV_AUTH", "authHandle", RcH(1)),
       A("TPMI_RH_NV_INDEX", "nvIndex", RcH(2)),
       A("TPM2B_MAX_NV_BUFFER", "data", RcP(1)), A("UINT16", "offset", RcP(2))>>, <<>>)
NV_Increment_fp ==
    Fp("NV_Increment", <<A("TPMI_RH_NV_AUTH", "authHandle", RcH(1)),
       A("TPMI_RH_NV_INDEX", "nvIndex", RcH(2))>>, <<>>)
NV_Extend_fp ==
    Fp("NV_Extend", <<A("TPMI_RH_NV_AUTH", "authHandle", RcH(1)),
       A("TPMI_RH_NV_INDEX", "nvIndex", RcH(2)),
       A("TPM2B_MAX_NV_BUFFER", "data", RcP(1))>>, <<>>)
NV_SetBits_fp ==
    Fp("NV_SetBits", <<A("TPMI_RH_NV_AUTH", "authHandle", RcH(1)),
       A("TPMI_RH_NV_INDEX", "nvIndex", RcH(2)), A("UINT64", "bits", RcP(1))>>, <<>>)
NV_WriteLock_fp ==
    Fp("NV_WriteLock", <<A("TPMI_RH_NV_AUTH", "authHandle", RcH(1)),
       A("TPMI_RH_NV_INDEX", "nvIndex", RcH(2))>>, <<>>)
NV_GlobalWriteLock_fp ==
    Fp("NV_GlobalWriteLock", <<A("TPMI_RH_PROVISION", "authHandle", RcH(1))>>, <<>>)
NV_Read_fp ==
    Fp("NV_Read", <<A("TPMI_RH_NV_AUTH", "authHandle", RcH(1)),
       A("TPMI_RH_NV_INDEX", "nvIndex", RcH(2)), A("UINT16", "size", RcP(1)),
       A("UINT16", "offset", RcP(2))>>, <<R("TPM2B_MAX_NV_BUFFER", "data")>>)
NV_ReadLock_fp ==
    Fp("NV_ReadLock", <<A("TPMI_RH_NV_AUTH", "authHandle", RcH(1)),
       A("TPMI_RH_NV_INDEX", "nvIndex", RcH(2))>>, <<>>)
NV_ChangeAuth_fp ==
    Fp("NV_ChangeAuth", <<A("TPMI_RH_NV_INDEX", "nvIndex", RcH(1)),
       A("TPM2B_AUTH", "newAuth", RcP(1))>>, <<>>)
NV_Certify_fp ==
    Fp("NV_Certify", <<A("TPMI_DH_OBJECT", "signHandle", RcH(1)),
       A("TPMI_RH_NV_AUTH", "authHandle", RcH(2)),
       A("TPMI_RH_NV_INDEX", "nvIndex", RcH(3)),
       A("TPM2B_DATA", "qualifyingData", RcP(1)),
       A("TPMT_SIG_SCHEME", "inScheme", RcP(2)), A("UINT16", "size", RcP(3)),
       A("UINT16", "offset", RcP(4))>>, <<R("TPM2B_ATTEST", "certifyInfo"),
       R("TPMT_SIGNATURE", "signature")>>)
AC_GetCapability_fp ==
    Fp("AC_GetCapability", <<A("TPMI_RH_AC", "ac", RcH(1)),
       A("TPM_AT", "capability", RcP(1)), A("UINT32", "count", RcP(2))>>,
       <<R("TPMI_YES_NO", "moreData"), R("TPML_AC_CAPABILITIES", "capabilitiesData")>>)
AC_Send_fp ==
    Fp("AC_Send", <<A("TPMI_DH_OBJECT", "sendObject", RcH(1)),
       A("TPMI_RH_NV_AUTH", "authHandle", RcH(2)), A("TPMI_RH_AC", "ac", RcH(3)),
       A("TPM2B_MAX_BUFFER", "acDataIn", RcP(1))>>,
       <<R("TPMS_AC_OUTPUT", "acDataOut")>>)
Policy_AC_SendSelect_fp ==
    Fp("Policy_AC_SendSelect", <<A("TPMI_SH_POLICY", "policySession", RcH(1)),
       A("TPM2B_NAME", "objectName", RcP(1)),
       A("TPM2B_NAME", "authHandleName", RcP(2)), A("TPM2B_NAME", "acName", RcP(3)),
       A("TPMI_YES_NO", "includeObject", RcP(4))>>, <<>>)
Vendor_TCG_Test_fp ==
    Fp("Vendor_TCG_Test", <<A("TPM2B_DATA", "inputData", RcP(1))>>,
       <<R("TPM2B_DATA", "outputData")>>)

-----------------------------------------------------------------------------
Prototype ==
    [Startup |-> Startup_fp, Shutdown |-> Shutdown_fp,
     SelfTest |-> SelfTest_fp, IncrementalSelfTest |-> IncrementalSelfTest_fp,
     GetTestResult |-> GetTestResult_fp, StartAuthSession |-> StartAuthSession_fp,
     PolicyRestart |-> PolicyRestart_fp, Create |-> Create_fp, Load |-> Load_fp,
     LoadExternal |-> LoadExternal_fp, ReadPublic |-> ReadPublic_fp,
     ActivateCredential |-> ActivateCredential_fp,
     MakeCredential |-> MakeCredential_fp, Unseal |-> Unseal_fp,
     ObjectChangeAuth |-> ObjectChangeAuth_fp, CreateLoaded |-> CreateLoaded_fp,
     Duplicate |-> Duplicate_fp, Rewrap |-> Rewrap_fp, Import |-> Import_fp,
     RSA_Encrypt |-> RSA_Encrypt_fp, RSA_Decrypt |-> RSA_Decrypt_fp,
     ECDH_KeyGen |-> ECDH_KeyGen_fp, ECDH_ZGen |-> ECDH_ZGen_fp,
     ECC_Parameters |-> ECC_Parameters_fp, ZGen_2Phase |-> ZGen_2Phase_fp,
     EncryptDecrypt |-> EncryptDecrypt_fp, EncryptDecrypt2 |-> EncryptDecrypt2_fp,
     Hash |-> Hash_fp, HMAC |-> HMAC_fp, MAC |-> MAC_fp, GetRandom |-> GetRandom_fp,
     StirRandom |-> StirRandom_fp, HMAC_Start |-> HMAC_Start_fp,
     MAC_Start |-> MAC_Start_fp, HashSequenceStart |-> HashSequenceStart_fp,
     SequenceUpdate |-> SequenceUpdate_fp, SequenceComplete |-> SequenceComplete_fp,
     EventSequenceComplete |-> EventSequenceComplete_fp, Certify |-> Certify_fp,
     CertifyCreation |-> CertifyCreation_fp, Quote |-> Quote_fp,
     GetSessionAuditDigest |-> GetSessionAuditDigest_fp,
     GetCommandAuditDigest |-> GetCommandAuditDigest_fp, GetTime |-> GetTime_fp,
     CertifyX509 |-> CertifyX509_fp, Commit |-> Commit_fp,
     EC_Ephemeral |-> EC_Ephemeral_fp, VerifySignature |-> VerifySignature_fp,
     Sign |-> Sign_fp, SetCommandCodeAuditStatus |-> SetCommandCodeAuditStatus_fp,
     PCR_Extend |-> PCR_Extend_fp, PCR_Event |-> PCR_Event_fp,
     PCR_Read |-> PCR_Read_fp, PCR_Allocate |-> PCR_Allocate_fp,
     PCR_SetAuthPolicy |-> PCR_SetAuthPolicy_fp,
     PCR_SetAuthValue |-> PCR_SetAuthValue_fp, PCR_Reset |-> PCR_Reset_fp,
     PolicySigned |-> PolicySigned_fp, PolicySecret |-> PolicySecret_fp,
     PolicyTicket |-> PolicyTicket_fp, PolicyOR |-> PolicyOR_fp,
     PolicyPCR |-> PolicyPCR_fp, PolicyLocality |-> PolicyLocality_fp,
     PolicyNV |-> PolicyNV_fp, PolicyCounterTimer |-> PolicyCounterTimer_fp,
     PolicyCommandCode |-> PolicyCommandCode_fp,
     PolicyPhysicalPresence |-> PolicyPhysicalPresence_fp,
     PolicyCpHash |-> PolicyCpHash_fp, PolicyNameHash |-> PolicyNameHash_fp,
     PolicyDuplicationSelect |-> PolicyDuplicationSelect_fp,
     PolicyAuthorize |-> PolicyAuthorize_fp, PolicyAuthValue |-> PolicyAuthValue_fp,
     PolicyPassword |-> PolicyPassword_fp, PolicyGetDigest |-> PolicyGetDigest_fp,
     PolicyNvWritten |-> PolicyNvWritten_fp, PolicyTemplate |-> PolicyTemplate_fp,
     PolicyAuthorizeNV |-> PolicyAuthorizeNV_fp, CreatePrimary |-> CreatePrimary_fp,
     HierarchyControl |-> HierarchyControl_fp,
     SetPrimaryPolicy |-> SetPrimaryPolicy_fp, ChangePPS |-> ChangePPS_fp,
     ChangeEPS |-> ChangeEPS_fp, Clear |-> Clear_fp, ClearControl |-> ClearControl_fp,
     HierarchyChangeAuth |-> HierarchyChangeAuth_fp,
     DictionaryAttackLockReset |-> DictionaryAttackLockReset_fp,
     DictionaryAttackParameters |-> DictionaryAttackParameters_fp,
     PP_Commands |-> PP_Commands_fp, SetAlgorithmSet |-> SetAlgorithmSet_fp,
     FieldUpgradeStart |-> FieldUpgradeStart_fp,
     FieldUpgradeData |-> FieldUpgradeData_fp, FirmwareRead |-> FirmwareRead_fp,
     ContextSave |-> ContextSave_fp, ContextLoad |-> ContextLoad_fp,
     FlushContext |-> FlushContext_fp, EvictControl |-> EvictControl_fp,
     ReadClock |-> ReadClock_fp, ClockSet |-> ClockSet_fp,
     ClockRateAdjust |-> ClockRateAdjust_fp, GetCapability |-> GetCapability_fp,
     TestParms |-> TestParms_fp, NV_DefineSpace |-> NV_DefineSpace_fp,
     NV_UndefineSpace |-> NV_UndefineSpace_fp,
     NV_UndefineSpaceSpecial |-> NV_UndefineSpaceSpecial_fp,
     NV_ReadPublic |-> NV_ReadPublic_fp, NV_Write |-> NV_Write_fp,
     NV_Increment |-> NV_Increment_fp, NV_Extend |-> NV_Extend_fp,
     NV_SetBits |-> NV_SetBits_fp, NV_WriteLock |-> NV_WriteLock_fp,
     NV_GlobalWriteLock |-> NV_GlobalWriteLock_fp, NV_Read |-> NV_Read_fp,
     NV_ReadLock |-> NV_ReadLock_fp, NV_ChangeAuth |-> NV_ChangeAuth_fp,
     NV_Certify |-> NV_Certify_fp, AC_GetCapability |-> AC_GetCapability_fp,
     AC_Send |-> AC_Send_fp, Policy_AC_SendSelect |-> Policy_AC_SendSelect_fp,
     Vendor_TCG_Test |-> Vendor_TCG_Test_fp]

=============================================================================
