----------------------------- MODULE TpmProfile -----------------------------
(***************************************************************************)
(* What the build implements: curves, algorithms, key sizes and commands,  *)
(* and the implementation values and sizes that the structures depend on.  *)
(***************************************************************************)
EXTENDS Integers, FiniteSets

Curves == {"NIST_P256", "NIST_P384", "BN_P256"}

Algorithms ==
    LET always == {"AES", "CBC", "CFB", "CMAC", "CTR", "ECB", "ECC", "HMAC",
                   "KDF1_SP800_108", "KEYEDHASH", "MGF1", "OFB", "RSA", "SHA1",
                   "SHA256", "SHA384", "SYMCIPHER", "XOR"}
        With(alg, algs) == IF alg \in always THEN algs ELSE {}
    IN  always \cup With("ECC", {"ECDAA", "ECDH", "ECDSA", "ECSCHNORR", "KDF1_SP800_56A"})
               \cup With("RSA", {"OAEP", "RSAES", "RSAPSS", "RSASSA"})

\* The key sizes of an algorithm that is not built are not built either.
KeySizes ==
    LET Sizes(alg, sizes) == IF alg \in Algorithms THEN sizes ELSE {}
    IN  [RSA |-> Sizes("RSA", {1024, 2048}), AES |-> Sizes("AES", {128, 256}),
         SM4 |-> Sizes("SM4", {128}), CAMELLIA |-> Sizes("CAMELLIA", {128}),
         TDES |-> Sizes("TDES", {128, 192})]

IfBuilt(alg, commands) == IF alg \in Algorithms THEN commands ELSE {}
UnlessBuilt(alg, commands) == IF alg \in Algorithms THEN {} ELSE commands

Implemented1 ==
    {"AC_GetCapability", "AC_Send", "ActivateCredential", "Certify",
     "CertifyCreation", "CertifyX509", "ChangeEPS", "ChangePPS", "Clear",
     "ClearControl", "ClockRateAdjust", "ClockSet", "ContextLoad", "ContextSave",
     "Create", "CreateLoaded", "CreatePrimary", "DictionaryAttackLockReset",
     "DictionaryAttackParameters", "Duplicate", "EncryptDecrypt", "EncryptDecrypt2",
     "EventSequenceComplete", "EvictControl", "FlushContext", "GetCapability",
     "GetCommandAuditDigest", "GetRandom", "GetSessionAuditDigest", "GetTestResult",
     "GetTime"}
    \cup IfBuilt("ECC", {"Commit", "ECC_Parameters", "ECDH_KeyGen", "ECDH_ZGen",
                         "EC_Ephemeral"})

Implemented2 ==
    {"Hash", "HashSequenceStart", "HierarchyChangeAuth",
     "HierarchyControl", "Import", "IncrementalSelfTest", "Load", "LoadExternal",
     "MakeCredential", "NV_Certify", "NV_ChangeAuth", "NV_DefineSpace", "NV_Extend",
     "NV_GlobalWriteLock", "NV_Increment", "NV_Read", "NV_ReadLock", "NV_ReadPublic",
     "NV_SetBits", "NV_UndefineSpace", "NV_UndefineSpaceSpecial", "NV_Write",
     "NV_WriteLock", "ObjectChangeAuth", "PCR_Allocate", "PCR_Event", "PCR_Extend",
     "PCR_Read", "PCR_Reset", "PCR_SetAuthPolicy", "PCR_SetAuthValue", "PP_Commands",
     "PolicyAuthValue", "PolicyAuthorize", "PolicyAuthorizeNV", "PolicyCommandCode"}
    \cup UnlessBuilt("CMAC", {"HMAC", "HMAC_Start"})
    \cup IfBuilt("CMAC", {"MAC", "MAC_Start"})

Implemented3 ==
    {"PolicyCounterTimer", "PolicyCpHash", "PolicyDuplicationSelect",
     "PolicyGetDigest", "PolicyLocality", "PolicyNV", "PolicyNameHash",
     "PolicyNvWritten", "PolicyOR", "PolicyPCR", "PolicyPassword",
     "PolicyPhysicalPresence", "PolicyRestart", "PolicySecret", "PolicySigned",
     "PolicyTemplate", "PolicyTicket", "Policy_AC_SendSelect", "Quote", "ReadClock",
     "ReadPublic", "Rewrap", "SelfTest", "SequenceComplete", "SequenceUpdate",
     "SetAlgorithmSet", "SetCommandCodeAuditStatus", "SetPrimaryPolicy", "Shutdown",
     "Sign", "StartAuthSession", "Startup", "StirRandom", "TestParms", "Unseal",
     "Vendor_TCG_Test", "VerifySignature"}
    \cup IfBuilt("RSA", {"RSA_Decrypt", "RSA_Encrypt"})
    \cup IfBuilt("ECC", {"ZGen_2Phase"})

Implemented == Implemented1 \cup Implemented2 \cup Implemented3

IMPLEMENTATION_PCR == 24
PCR_SELECT_MAX == (IMPLEMENTATION_PCR + 7) \div 8
PLATFORM_PCR == 24
PCR_SELECT_MIN == (PLATFORM_PCR + 7) \div 8
MAX_ACTIVE_SESSIONS == 64
MAX_LOADED_OBJECTS == 3
MAX_CONTEXT_SIZE == 1264
MAX_DIGEST_BUFFER == 1024
MAX_NV_INDEX_SIZE == 2048
MAX_NV_BUFFER_SIZE == 1024
MAX_CAP_BUFFER == 1024
MAX_ALG_LIST_SIZE == 64
MAX_SYM_DATA == 128

\* The digest sizes, and the largest sizes of what is built.
DigestSize == [SHA1 |-> 20, SHA256 |-> 32, SHA384 |-> 48, SHA512 |-> 64, SM3_256 |-> 32,
               SHA3_256 |-> 32, SHA3_384 |-> 48, SHA3_512 |-> 64]
Hashes == DOMAIN DigestSize \cap Algorithms
HASH_COUNT == Cardinality(Hashes)
Largest(S) == Cardinality(UNION {1..n : n \in S})
MAX_DIGEST_SIZE == Largest({DigestSize[h] : h \in Hashes})
CurveBits == [BN_P256 |-> 256, BN_P638 |-> 638, NIST_P192 |-> 192, NIST_P224 |-> 224,
              NIST_P256 |-> 256, NIST_P384 |-> 384, NIST_P521 |-> 521, SM2_P256 |-> 256]
MAX_ECC_KEY_BYTES == (Largest({CurveBits[c] : c \in Curves}) + 7) \div 8
MAX_RSA_KEY_BYTES == (Largest(KeySizes["RSA"]) + 7) \div 8
SymCiphers == {"AES", "CAMELLIA", "SM4", "TDES"}
MAX_SYM_KEY_BYTES == (Largest(UNION {KeySizes[c] : c \in SymCiphers}) + 7) \div 8
BlockSize == [AES |-> 16, CAMELLIA |-> 16, SM4 |-> 16, TDES |-> 8]
MAX_SYM_BLOCK_SIZE == Largest({BlockSize[c] : c \in SymCiphers \cap Algorithms})
RSA_MAX_PRIME == MAX_RSA_KEY_BYTES \div 2
RSA_PRIVATE_SIZE == RSA_MAX_PRIME * 5
PRIVATE_VENDOR_SPECIFIC_BYTES == RSA_PRIVATE_SIZE
LABEL_MAX_BUFFER == Cardinality((1..32) \cap (1..Largest({MAX_ECC_KEY_BYTES, MAX_DIGEST_SIZE})))
=============================================================================
