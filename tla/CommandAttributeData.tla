------------------------ MODULE CommandAttributeData ------------------------
(***************************************************************************)
(* The attributes of the commands in the order of their codes, twice: as   *)
(* GetCapability reports them (s_ccAttr) and as the TPM uses them          *)
(* (s_commandAttributes).  An attribute is in an entry's set if its bit is *)
(* set.  The entries are those of the commands that are built.             *)
(***************************************************************************)
EXTENDS Integers, Sequences, FiniteSets, CommandDispatchData

Cc(command, index, bits, cHandles) ==
    [command |-> command, commandIndex |-> index, bits |-> bits, cHandles |-> cHandles]
Attr(command, bits) == [command |-> command, bits |-> bits]

Built(entries) == SelectSeq(entries, LAMBDA e : e.command \in Implemented)

CcAttr1 ==
    <<Cc("NV_UndefineSpaceSpecial", \h11F, {"nv"}, 2),
      Cc("EvictControl", \h120, {"nv"}, 2),
      Cc("HierarchyControl", \h121, {"nv", "extensive"}, 1),
      Cc("NV_UndefineSpace", \h122, {"nv"}, 2),
      Cc("ChangeEPS", \h124, {"nv", "extensive"}, 1),
      Cc("ChangePPS", \h125, {"nv", "extensive"}, 1),
      Cc("Clear", \h126, {"nv", "extensive"}, 1),
      Cc("ClearControl", \h127, {"nv"}, 1), Cc("ClockSet", \h128, {"nv"}, 1),
      Cc("HierarchyChangeAuth", \h129, {"nv"}, 1),
      Cc("NV_DefineSpace", \h12A, {"nv"}, 1), Cc("PCR_Allocate", \h12B, {"nv"}, 1),
      Cc("PCR_SetAuthPolicy", \h12C, {"nv"}, 1), Cc("PP_Commands", \h12D, {"nv"}, 1),
      Cc("SetPrimaryPolicy", \h12E, {"nv"}, 1), Cc("FieldUpgradeStart", \h12F, {}, 2),
      Cc("ClockRateAdjust", \h130, {}, 1), Cc("CreatePrimary", \h131, {"rHandle"}, 1),
      Cc("NV_GlobalWriteLock", \h132, {"nv"}, 1),
      Cc("GetCommandAuditDigest", \h133, {"nv"}, 2),
      Cc("NV_Increment", \h134, {"nv"}, 2), Cc("NV_SetBits", \h135, {"nv"}, 2),
      Cc("NV_Extend", \h136, {"nv"}, 2), Cc("NV_Write", \h137, {"nv"}, 2),
      Cc("NV_WriteLock", \h138, {"nv"}, 2),
      Cc("DictionaryAttackLockReset", \h139, {"nv"}, 1),
      Cc("DictionaryAttackParameters", \h13A, {"nv"}, 1),
      Cc("NV_ChangeAuth", \h13B, {"nv"}, 1), Cc("PCR_Event", \h13C, {"nv"}, 1),
      Cc("PCR_Reset", \h13D, {"nv"}, 1),
      Cc("SequenceComplete", \h13E, {"flushed"}, 1),
      Cc("SetAlgorithmSet", \h13F, {"nv"}, 1),
      Cc("SetCommandCodeAuditStatus", \h140, {"nv"}, 1),
      Cc("FieldUpgradeData", \h141, {"nv"}, 0),
      Cc("IncrementalSelfTest", \h142, {"nv"}, 0), Cc("SelfTest", \h143, {"nv"}, 0),
      Cc("Startup", \h144, {"nv"}, 0), Cc("Shutdown", \h145, {"nv"}, 0),
      Cc("StirRandom", \h146, {"nv"}, 0), Cc("ActivateCredential", \h147, {}, 2)>>
CcAttr2 ==
    <<Cc("Certify", \h148, {}, 2), Cc("PolicyNV", \h149, {}, 3),
      Cc("CertifyCreation", \h14A, {}, 2), Cc("Duplicate", \h14B, {}, 2),
      Cc("GetTime", \h14C, {}, 2), Cc("GetSessionAuditDigest", \h14D, {}, 3),
      Cc("NV_Read", \h14E, {}, 2), Cc("NV_ReadLock", \h14F, {"nv"}, 2),
      Cc("ObjectChangeAuth", \h150, {}, 2), Cc("PolicySecret", \h151, {}, 2),
      Cc("Rewrap", \h152, {}, 2), Cc("Create", \h153, {}, 1),
      Cc("ECDH_ZGen", \h154, {}, 1), Cc("MAC", \h155, {}, 1),
      Cc("Import", \h156, {}, 1), Cc("Load", \h157, {"rHandle"}, 1),
      Cc("Quote", \h158, {}, 1), Cc("RSA_Decrypt", \h159, {}, 1),
      Cc("MAC_Start", \h15B, {"rHandle"}, 1), Cc("SequenceUpdate", \h15C, {}, 1),
      Cc("Sign", \h15D, {}, 1), Cc("Unseal", \h15E, {}, 1),
      Cc("PolicySigned", \h160, {}, 2), Cc("ContextLoad", \h161, {"rHandle"}, 0),
      Cc("ContextSave", \h162, {}, 1), Cc("ECDH_KeyGen", \h163, {}, 1),
      Cc("EncryptDecrypt", \h164, {}, 1), Cc("FlushContext", \h165, {}, 0),
      Cc("LoadExternal", \h167, {"rHandle"}, 0), Cc("MakeCredential", \h168, {}, 1),
      Cc("NV_ReadPublic", \h169, {}, 1), Cc("PolicyAuthorize", \h16A, {}, 1),
      Cc("PolicyAuthValue", \h16B, {}, 1), Cc("PolicyCommandCode", \h16C, {}, 1),
      Cc("PolicyCounterTimer", \h16D, {}, 1), Cc("PolicyCpHash", \h16E, {}, 1),
      Cc("PolicyLocality", \h16F, {}, 1), Cc("PolicyNameHash", \h170, {}, 1)>>
CcAttr3 ==
    <<Cc("PolicyOR", \h171, {}, 1), Cc("PolicyTicket", \h172, {}, 1),
      Cc("ReadPublic", \h173, {}, 1), Cc("RSA_Encrypt", \h174, {}, 1),
      Cc("StartAuthSession", \h176, {"rHandle"}, 2),
      Cc("VerifySignature", \h177, {}, 1), Cc("ECC_Parameters", \h178, {}, 0),
      Cc("FirmwareRead", \h179, {}, 0), Cc("GetCapability", \h17A, {}, 0),
      Cc("GetRandom", \h17B, {}, 0), Cc("GetTestResult", \h17C, {}, 0),
      Cc("Hash", \h17D, {}, 0), Cc("PCR_Read", \h17E, {}, 0),
      Cc("PolicyPCR", \h17F, {}, 1), Cc("PolicyRestart", \h180, {}, 1),
      Cc("ReadClock", \h181, {}, 0), Cc("PCR_Extend", \h182, {"nv"}, 1),
      Cc("PCR_SetAuthValue", \h183, {}, 1), Cc("NV_Certify", \h184, {}, 3),
      Cc("EventSequenceComplete", \h185, {"nv", "flushed"}, 2),
      Cc("HashSequenceStart", \h186, {"rHandle"}, 0),
      Cc("PolicyPhysicalPresence", \h187, {}, 1),
      Cc("PolicyDuplicationSelect", \h188, {}, 1),
      Cc("PolicyGetDigest", \h189, {}, 1), Cc("TestParms", \h18A, {}, 0),
      Cc("Commit", \h18B, {}, 1), Cc("PolicyPassword", \h18C, {}, 1),
      Cc("ZGen_2Phase", \h18D, {}, 1), Cc("EC_Ephemeral", \h18E, {}, 0),
      Cc("PolicyNvWritten", \h18F, {}, 1), Cc("PolicyTemplate", \h190, {}, 1),
      Cc("CreateLoaded", \h191, {"rHandle"}, 1),
      Cc("PolicyAuthorizeNV", \h192, {}, 3), Cc("EncryptDecrypt2", \h193, {}, 1),
      Cc("AC_GetCapability", \h194, {}, 1), Cc("AC_Send", \h195, {}, 3),
      Cc("Policy_AC_SendSelect", \h196, {}, 1), Cc("CertifyX509", \h197, {}, 2),
      Cc("Vendor_TCG_Test", \h0, {"V"}, 0)>>
s_ccAttr == Built(CcAttr1 \o CcAttr2 \o CcAttr3)

Attributes1 ==
    <<Attr("NV_UndefineSpaceSpecial", {"HANDLE_1_ADMIN", "HANDLE_2_USER", "PP_COMMAND"}),
      Attr("EvictControl", {"HANDLE_1_USER", "PP_COMMAND"}),
      Attr("HierarchyControl", {"HANDLE_1_USER", "PP_COMMAND"}),
      Attr("NV_UndefineSpace", {"HANDLE_1_USER", "PP_COMMAND"}),
      Attr("ChangeEPS", {"HANDLE_1_USER", "PP_COMMAND"}),
      Attr("ChangePPS", {"HANDLE_1_USER", "PP_COMMAND"}),
      Attr("Clear", {"HANDLE_1_USER", "PP_COMMAND"}),
      Attr("ClearControl", {"HANDLE_1_USER", "PP_COMMAND"}),
      Attr("ClockSet", {"HANDLE_1_USER", "PP_COMMAND"}),
      Attr("HierarchyChangeAuth", {"DECRYPT_2", "HANDLE_1_USER", "PP_COMMAND"}),
      Attr("NV_DefineSpace", {"DECRYPT_2", "HANDLE_1_USER", "PP_COMMAND"}),
      Attr("PCR_Allocate", {"HANDLE_1_USER", "PP_COMMAND"}),
      Attr("PCR_SetAuthPolicy", {"DECRYPT_2", "HANDLE_1_USER", "PP_COMMAND"}),
      Attr("PP_Commands", {"HANDLE_1_USER", "PP_REQUIRED"}),
      Attr("SetPrimaryPolicy", {"DECRYPT_2", "HANDLE_1_USER", "PP_COMMAND"}),
      Attr("FieldUpgradeStart", {"DECRYPT_2", "HANDLE_1_ADMIN", "PP_COMMAND"}),
      Attr("ClockRateAdjust", {"HANDLE_1_USER", "PP_COMMAND"}),
      Attr("CreatePrimary", {"DECRYPT_2", "HANDLE_1_USER", "PP_COMMAND", "ENCRYPT_2", "R_HANDLE"}),
      Attr("NV_GlobalWriteLock", {"HANDLE_1_USER", "PP_COMMAND"}),
      Attr("GetCommandAuditDigest", {"DECRYPT_2", "HANDLE_1_USER", "HANDLE_2_USER", "ENCRYPT_2"}),
      Attr("NV_Increment", {"HANDLE_1_USER"}), Attr("NV_SetBits", {"HANDLE_1_USER"}),
      Attr("NV_Extend", {"DECRYPT_2", "HANDLE_1_USER"}),
      Attr("NV_Write", {"DECRYPT_2", "HANDLE_1_USER"}),
      Attr("NV_WriteLock", {"HANDLE_1_USER"}),
      Attr("DictionaryAttackLockReset", {"HANDLE_1_USER"}),
      Attr("DictionaryAttackParameters", {"HANDLE_1_USER"}),
      Attr("NV_ChangeAuth", {"DECRYPT_2", "HANDLE_1_ADMIN"}),
      Attr("PCR_Event", {"DECRYPT_2", "HANDLE_1_USER"}),
      Attr("PCR_Reset", {"HANDLE_1_USER"})>>
Attributes2 ==
    <<Attr("SequenceComplete", {"DECRYPT_2", "HANDLE_1_USER", "ENCRYPT_2"}),
      Attr("SetAlgorithmSet", {"HANDLE_1_USER"}),
      Attr("SetCommandCodeAuditStatus", {"HANDLE_1_USER", "PP_COMMAND"}),
      Attr("FieldUpgradeData", {"DECRYPT_2"}), Attr("IncrementalSelfTest", {}),
      Attr("SelfTest", {}), Attr("Startup", {"NO_SESSIONS"}), Attr("Shutdown", {}),
      Attr("StirRandom", {"DECRYPT_2"}),
      Attr("ActivateCredential", {"DECRYPT_2", "HANDLE_1_ADMIN", "HANDLE_2_USER", "ENCRYPT_2"}),
      Attr("Certify", {"DECRYPT_2", "HANDLE_1_ADMIN", "HANDLE_2_USER", "ENCRYPT_2"}),
      Attr("PolicyNV", {"DECRYPT_2", "HANDLE_1_USER", "ALLOW_TRIAL"}),
      Attr("CertifyCreation", {"DECRYPT_2", "HANDLE_1_USER", "ENCRYPT_2"}),
      Attr("Duplicate", {"DECRYPT_2", "HANDLE_1_DUP", "ENCRYPT_2"}),
      Attr("GetTime", {"DECRYPT_2", "HANDLE_1_USER", "HANDLE_2_USER", "ENCRYPT_2"}),
      Attr("GetSessionAuditDigest", {"DECRYPT_2", "HANDLE_1_USER", "HANDLE_2_USER", "ENCRYPT_2"}),
      Attr("NV_Read", {"HANDLE_1_USER", "ENCRYPT_2"}),
      Attr("NV_ReadLock", {"HANDLE_1_USER"}),
      Attr("ObjectChangeAuth", {"DECRYPT_2", "HANDLE_1_ADMIN", "ENCRYPT_2"}),
      Attr("PolicySecret", {"DECRYPT_2", "HANDLE_1_USER", "ALLOW_TRIAL", "ENCRYPT_2"}),
      Attr("Rewrap", {"DECRYPT_2", "HANDLE_1_USER", "ENCRYPT_2"}),
      Attr("Create", {"DECRYPT_2", "HANDLE_1_USER", "ENCRYPT_2"}),
      Attr("ECDH_ZGen", {"DECRYPT_2", "HANDLE_1_USER", "ENCRYPT_2"}),
      Attr("MAC", {"DECRYPT_2", "HANDLE_1_USER", "ENCRYPT_2"}),
      Attr("Import", {"DECRYPT_2", "HANDLE_1_USER", "ENCRYPT_2"}),
      Attr("Load", {"DECRYPT_2", "HANDLE_1_USER", "ENCRYPT_2", "R_HANDLE"}),
      Attr("Quote", {"DECRYPT_2", "HANDLE_1_USER", "ENCRYPT_2"}),
      Attr("RSA_Decrypt", {"DECRYPT_2", "HANDLE_1_USER", "ENCRYPT_2"}),
      Attr("MAC_Start", {"DECRYPT_2", "HANDLE_1_USER", "R_HANDLE"}),
      Attr("SequenceUpdate", {"DECRYPT_2", "HANDLE_1_USER"})>>
Attributes3 ==
    <<Attr("Sign", {"DECRYPT_2", "HANDLE_1_USER"}),
      Attr("Unseal", {"HANDLE_1_USER", "ENCRYPT_2"}),
      Attr("PolicySigned", {"DECRYPT_2", "ALLOW_TRIAL", "ENCRYPT_2"}),
      Attr("ContextLoad", {"NO_SESSIONS", "R_HANDLE"}),
      Attr("ContextSave", {"NO_SESSIONS"}), Attr("ECDH_KeyGen", {"ENCRYPT_2"}),
      Attr("EncryptDecrypt", {"HANDLE_1_USER", "ENCRYPT_2"}),
      Attr("FlushContext", {"NO_SESSIONS"}),
      Attr("LoadExternal", {"DECRYPT_2", "ENCRYPT_2", "R_HANDLE"}),
      Attr("MakeCredential", {"DECRYPT_2", "ENCRYPT_2"}),
      Attr("NV_ReadPublic", {"ENCRYPT_2"}),
      Attr("PolicyAuthorize", {"DECRYPT_2", "ALLOW_TRIAL"}),
      Attr("PolicyAuthValue", {"ALLOW_TRIAL"}),
      Attr("PolicyCommandCode", {"ALLOW_TRIAL"}),
      Attr("PolicyCounterTimer", {"DECRYPT_2", "ALLOW_TRIAL"}),
      Attr("PolicyCpHash", {"DECRYPT_2", "ALLOW_TRIAL"}),
      Attr("PolicyLocality", {"ALLOW_TRIAL"}),
      Attr("PolicyNameHash", {"DECRYPT_2", "ALLOW_TRIAL"}),
      Attr("PolicyOR", {"ALLOW_TRIAL"}),
      Attr("PolicyTicket", {"DECRYPT_2", "ALLOW_TRIAL"}),
      Attr("ReadPublic", {"ENCRYPT_2"}),
      Attr("RSA_Encrypt", {"DECRYPT_2", "ENCRYPT_2"}),
      Attr("StartAuthSession", {"DECRYPT_2", "ENCRYPT_2", "R_HANDLE"}),
      Attr("VerifySignature", {"DECRYPT_2"}), Attr("ECC_Parameters", {}),
      Attr("FirmwareRead", {"ENCRYPT_2"}), Attr("GetCapability", {}),
      Attr("GetRandom", {"ENCRYPT_2"})>>
Attributes4 ==
    <<Attr("GetTestResult", {"ENCRYPT_2"}), Attr("Hash", {"DECRYPT_2", "ENCRYPT_2"}),
      Attr("PCR_Read", {}), Attr("PolicyPCR", {"DECRYPT_2", "ALLOW_TRIAL"}),
      Attr("PolicyRestart", {"ALLOW_TRIAL"}), Attr("ReadClock", {}),
      Attr("PCR_Extend", {"HANDLE_1_USER"}),
      Attr("PCR_SetAuthValue", {"DECRYPT_2", "HANDLE_1_USER"}),
      Attr("NV_Certify", {"DECRYPT_2", "HANDLE_1_USER", "HANDLE_2_USER", "ENCRYPT_2"}),
      Attr("EventSequenceComplete", {"DECRYPT_2", "HANDLE_1_USER", "HANDLE_2_USER"}),
      Attr("HashSequenceStart", {"DECRYPT_2", "R_HANDLE"}),
      Attr("PolicyPhysicalPresence", {"ALLOW_TRIAL"}),
      Attr("PolicyDuplicationSelect", {"DECRYPT_2", "ALLOW_TRIAL"}),
      Attr("PolicyGetDigest", {"ALLOW_TRIAL", "ENCRYPT_2"}), Attr("TestParms", {}),
      Attr("Commit", {"DECRYPT_2", "HANDLE_1_USER", "ENCRYPT_2"}),
      Attr("PolicyPassword", {"ALLOW_TRIAL"}),
      Attr("ZGen_2Phase", {"DECRYPT_2", "HANDLE_1_USER", "ENCRYPT_2"}),
      Attr("EC_Ephemeral", {"ENCRYPT_2"}), Attr("PolicyNvWritten", {"ALLOW_TRIAL"}),
      Attr("PolicyTemplate", {"DECRYPT_2", "ALLOW_TRIAL"}),
      Attr("CreateLoaded", {"DECRYPT_2", "HANDLE_1_USER", "PP_COMMAND", "ENCRYPT_2", "R_HANDLE"}),
      Attr("PolicyAuthorizeNV", {"HANDLE_1_USER", "ALLOW_TRIAL"}),
      Attr("EncryptDecrypt2", {"DECRYPT_2", "HANDLE_1_USER", "ENCRYPT_2"}),
      Attr("AC_GetCapability", {}),
      Attr("AC_Send", {"DECRYPT_2", "HANDLE_1_DUP", "HANDLE_2_USER"}),
      Attr("Policy_AC_SendSelect", {"DECRYPT_2", "ALLOW_TRIAL"}),
      Attr("CertifyX509", {"DECRYPT_2", "HANDLE_1_ADMIN", "HANDLE_2_USER", "ENCRYPT_2"}),
      Attr("Vendor_TCG_Test", {"DECRYPT_2", "ENCRYPT_2"})>>
s_commandAttributes == Built(Attributes1 \o Attributes2 \o Attributes3 \o Attributes4)

\* The library commands that are counted, if they are built.
LibraryCommands ==
    {"NV_UndefineSpaceSpecial", "EvictControl", "HierarchyControl", "NV_UndefineSpace",
     "ChangeEPS", "ChangePPS", "Clear", "ClearControl", "ClockSet",
     "HierarchyChangeAuth", "NV_DefineSpace", "PCR_Allocate", "PCR_SetAuthPolicy",
     "PP_Commands", "SetPrimaryPolicy", "FieldUpgradeStart", "ClockRateAdjust",
     "CreatePrimary", "NV_GlobalWriteLock", "GetCommandAuditDigest",
     "NV_Increment", "NV_SetBits", "NV_Extend", "NV_Write", "NV_WriteLock",
     "DictionaryAttackLockReset", "DictionaryAttackParameters", "NV_ChangeAuth",
     "PCR_Event", "PCR_Reset", "SequenceComplete", "SetAlgorithmSet",
     "SetCommandCodeAuditStatus", "FieldUpgradeData", "IncrementalSelfTest",
     "SelfTest", "Startup", "Shutdown", "StirRandom", "ActivateCredential",
     "Certify", "PolicyNV", "CertifyCreation", "Duplicate", "GetTime",
     "GetSessionAuditDigest", "NV_Read", "NV_ReadLock", "ObjectChangeAuth",
     "PolicySecret", "Rewrap", "Create", "ECDH_ZGen", "HMAC", "MAC", "Import",
     "Load", "Quote", "RSA_Decrypt", "HMAC_Start", "MAC_Start", "SequenceUpdate",
     "Sign", "Unseal", "PolicySigned", "ContextLoad", "ContextSave",
     "ECDH_KeyGen", "EncryptDecrypt", "FlushContext", "LoadExternal",
     "MakeCredential", "NV_ReadPublic", "PolicyAuthorize", "PolicyAuthValue",
     "PolicyCommandCode", "PolicyCounterTimer", "PolicyCpHash", "PolicyLocality",
     "PolicyNameHash", "PolicyOR", "PolicyTicket", "ReadPublic", "RSA_Encrypt",
     "StartAuthSession", "VerifySignature", "ECC_Parameters", "FirmwareRead",
     "GetCapability", "GetRandom", "GetTestResult", "Hash", "PCR_Read",
     "PolicyPCR", "PolicyRestart", "ReadClock", "PCR_Extend", "PCR_SetAuthValue",
     "NV_Certify", "EventSequenceComplete", "HashSequenceStart",
     "PolicyPhysicalPresence", "PolicyDuplicationSelect", "PolicyGetDigest",
     "TestParms", "Commit", "PolicyPassword", "ZGen_2Phase", "EC_Ephemeral",
     "PolicyNvWritten", "PolicyTemplate", "CreateLoaded", "PolicyAuthorizeNV",
     "EncryptDecrypt2", "AC_GetCapability", "AC_Send", "Policy_AC_SendSelect",
     "CertifyX509"}
LIBRARY_COMMAND_ARRAY_SIZE == Cardinality(LibraryCommands \cap Implemented)
VENDOR_COMMAND_ARRAY_SIZE == 1
COMMAND_COUNT == LIBRARY_COMMAND_ARRAY_SIZE + VENDOR_COMMAND_ARRAY_SIZE
=============================================================================
