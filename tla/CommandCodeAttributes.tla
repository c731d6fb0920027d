------------------------ MODULE CommandCodeAttributes ------------------------
(***************************************************************************)
(* CommandCodeAttributes.c: from the code of a command to its index in the *)
(* attribute arrays, and what the attributes say.  The lists are compressed *)
(* (COMPRESSED_LISTS), an index counts from zero and is 16 bits wide.      *)
(***************************************************************************)
EXTENDS CommandAttributeData

CC_VEND == \h20000000
UNIMPLEMENTED_COMMAND_INDEX == \hFFFF

IsV(index) == "V" \in s_ccAttr[index + 1].bits
CommandIndexAt(index) == s_ccAttr[index + 1].commandIndex

\* The loop of GetClosestCommandIndex, after which index is the last one tested.
RECURSIVE Closest(_, _, _)
Closest(min, max, searchIndex) ==
    LET index == (min + max + 1) \div 2
        diff == CommandIndexAt(index) - searchIndex
        low == IF diff > 0 THEN min ELSE index + 1
        high == IF diff > 0 THEN (index - 1) % 2^16 ELSE max
    IN  CASE diff = 0 -> index
          [] diff # 0 /\ low <= high -> Closest(low, high, searchIndex)
          [] diff > 0 /\ low > high -> index
          [] diff < 0 /\ low > high -> index + 1

IsVendorCode(code) == (code \div CC_VEND) % 2 = 1

GetClosestCommandIndex(code) ==
    LET vendor == IsVendorCode(code)
        searchIndex == code % 2^16
        inRange == (IF vendor THEN code - CC_VEND ELSE code) = searchIndex
        first == LIBRARY_COMMAND_ARRAY_SIZE
        last == COMMAND_COUNT - 1
    IN  CASE ~inRange -> UNIMPLEMENTED_COMMAND_INDEX
          [] inRange /\ vendor ->
                IF CommandIndexAt(first) >= searchIndex THEN first
                ELSE IF CommandIndexAt(last) < searchIndex
                THEN UNIMPLEMENTED_COMMAND_INDEX
                ELSE Closest(first, last, searchIndex)
          [] inRange /\ ~vendor ->
                IF CommandIndexAt(first - 1) < searchIndex THEN first
                ELSE IF CommandIndexAt(0) >= searchIndex THEN 0
                ELSE Closest(0, first - 1, searchIndex)

\* A bug: the command that is closest, whether it is the one asked for or not.
CommandCodeToCommandIndexClosest(code) == GetClosestCommandIndex(code)

CommandCodeToCommandIndex(code) ==
    LET index == GetClosestCommandIndex(code)
        found == /\ index # UNIMPLEMENTED_COMMAND_INDEX
                 /\ CommandIndexAt(index) = code % 2^16
                 /\ IsV(index) = IsVendorCode(code)
    IN  IF found THEN index ELSE UNIMPLEMENTED_COMMAND_INDEX

GetNextCommandIndex(index) ==
    IF index + 1 < COMMAND_COUNT THEN index + 1 ELSE UNIMPLEMENTED_COMMAND_INDEX

GetCommandCode(index) ==
    CommandIndexAt(index) + (IF IsV(index) THEN CC_VEND ELSE 0)

-----------------------------------------------------------------------------
AttributesOf(index) == s_commandAttributes[index + 1].bits

CommandAuthRole(index, handleIndex) ==
    LET properties == AttributesOf(index)
    IN  CASE handleIndex = 0 /\ "HANDLE_1_USER" \in properties -> "AUTH_USER"
          [] handleIndex = 0 /\ "HANDLE_1_ADMIN" \in properties -> "AUTH_ADMIN"
          [] handleIndex = 0 /\ "HANDLE_1_DUP" \in properties -> "AUTH_DUP"
          [] handleIndex = 1 /\ "HANDLE_2_USER" \in properties -> "AUTH_USER"
          [] OTHER -> "AUTH_NONE"

EncryptSize(index) ==
    CASE "ENCRYPT_2" \in AttributesOf(index) -> 2
      [] "ENCRYPT_4" \in AttributesOf(index) -> 4
      [] OTHER -> 0

DecryptSize(index) ==
    CASE "DECRYPT_2" \in AttributesOf(index) -> 2
      [] "DECRYPT_4" \in AttributesOf(index) -> 4
      [] OTHER -> 0

IsSessionAllowed(index) == "NO_SESSIONS" \notin AttributesOf(index)
IsHandleInResponse(index) == "R_HANDLE" \in AttributesOf(index)

IsWriteOperation(index) ==
    s_ccAttr[index + 1].command \in
        {"NV_Write", "NV_Increment", "NV_SetBits", "NV_Extend", "AC_Send", "NV_WriteLock"}
IsReadOperation(index) ==
    s_ccAttr[index + 1].command \in {"NV_Read", "PolicyNV", "NV_Certify", "NV_ReadLock"}

\* What the session processing asks of the attributes.
CommandTable ==
    {[command |-> s_ccAttr[i + 1].command,
      roles |-> <<CommandAuthRole(i, 0), CommandAuthRole(i, 1)>>,
      allowed |-> IsSessionAllowed(i), write |-> IsWriteOperation(i),
      decrypt |-> DecryptSize(i) # 0, encrypt |-> EncryptSize(i) # 0] :
        i \in 0..(COMMAND_COUNT - 1)}
=============================================================================
