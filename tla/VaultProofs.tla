---------------------------- MODULE VaultProofs ----------------------------
(***************************************************************************)
(* For any number of identities, keys, messages and power losses: the      *)
(* node's identity stays on flash, a node that comes up runs as it, and    *)
(* every stored message opens.                                             *)
(*                                                                         *)
(* The invariant says of the flash what any boot may rely on (FlashInv),   *)
(* and of every step of every operation what it has achieved (StepInv): a  *)
(* power loss keeps the first and needs nothing of the second.             *)
(***************************************************************************)
EXTENDS Vault, TLAPS

Pair == [ident : Identity, key : Key]

TypeFlash == /\ vk \in Key \cup {Absent, Damaged}
             /\ id \in Pair \cup {Absent, Damaged}
             /\ legacy \in Identity \cup {Absent, Damaged}
             /\ flag \in BOOLEAN
             /\ owner \in Identity \cup {Absent}

TypeStore == /\ msgs \in [Msg -> Key \cup {Absent, Plain}]
             /\ missed \subseteq Msg
             /\ todo \subseteq Msg
             /\ pc \notin {"encrypt", "decrypt"} => todo = {}

TypeRam == /\ mode \in {"off", "locked", "init", "saving", "run"}
           /\ pc \in Steps /\ (mode # "run" => pc = "idle")
           /\ vault_key \in Key \cup {Absent}
           /\ mode = "run" => (flag <=> vault_key # Absent)
           /\ ident \in Identity \cup {Absent}
           /\ arg \in Key \cup Identity \cup {Absent}
           /\ staged \in BOOLEAN
           /\ cipher \in {"off", "decrypt", "both"}

\* The file the flag points to, if it can be read, holds the node's identity.
Current == /\ ~flag /\ legacy \in Identity => legacy = owner
           /\ flag /\ vk \in Key /\ id \in Pair /\ id.key = vk => id.ident = owner

FlashInv == IdentityOnDisk /\ Current

\* Every step of an operation that rewrites the identity.
EnableInv ==
    /\ pc \in {"en_write", "en_vk", "en_id", "en_remove"} =>
           ~flag /\ arg \in Key /\ legacy = owner /\ owner \in Identity
    /\ pc \in {"en_vk", "en_id", "en_remove", "en_flag"} => staged
    /\ pc \in {"en_id", "en_remove", "en_flag"} => vk = arg /\ arg \in Key
    /\ pc \in {"en_remove", "en_flag"} => InVault /\ ~flag
    /\ pc = "en_flag" => legacy = Absent

DisableInv ==
    /\ pc \in {"dis_legacy", "dis_id", "dis_vk", "dis_flag"} =>
           flag /\ owner \in Identity
    /\ pc = "dis_legacy" => staged /\ arg = owner
    /\ pc \in {"dis_id", "dis_vk", "dis_flag"} => legacy = owner

ImportInv == pc = "import" => staged /\ arg \in Identity

Whole == {"idle", "encrypt", "decrypt", "import", "reset", "dis_legacy"}

SessionInv ==
    /\ mode # "run" /\ ~flag => vault_key = Absent
    /\ mode \in {"off", "locked"} => vault_key = Absent
    /\ mode = "locked" => flag
    /\ mode = "init" /\ flag => vk \in Key /\ vault_key = vk
    /\ mode = "saving" => ~flag /\ legacy = Damaged /\ ident \in Identity
    /\ mode = "run" /\ flag /\ pc \in Whole => InVault /\ vault_key = vk
    /\ pc \in {"encrypt", "decrypt"} => flag
    /\ mode = "run" => \/ ident = owner
                       \/ pc = "reset"
                       \/ legacy = Damaged /\ ~flag

StepInv == EnableInv /\ DisableInv /\ ImportInv /\ SessionInv

IdInv == TypeFlash /\ TypeRam /\ FlashInv /\ StepInv

\* What the store relies on.
CipherInv ==
    /\ mode # "run" => cipher = "off"
    /\ pc = "decrypt" => cipher = "decrypt"
    /\ pc \in {"dis_legacy", "dis_id", "dis_vk", "dis_flag"} => cipher = "off"
    /\ mode = "run" /\ pc \notin {"decrypt", "dis_legacy", "dis_id", "dis_vk", "dis_flag"}
           => cipher = IF flag THEN "both" ELSE "off"

KeysKept == \A m \in Msg \ missed : msgs[m] \in Key => flag /\ msgs[m] = vk

Walked ==
    /\ pc = "decrypt" => \A m \in Msg \ (missed \cup todo) : msgs[m] \notin Key
    /\ pc \in {"dis_legacy", "dis_id", "dis_vk", "dis_flag"} =>
           \A m \in Msg \ missed : msgs[m] \notin Key

StoreInv == TypeStore /\ CipherInv /\ KeysKept /\ Walked

-----------------------------------------------------------------------------
(* The identity *)

\* A blank device: nothing on flash, nothing to keep.
LEMMA IdInit == Init => IdInv
BY VaultAssumption DEF Init, IdInv, TypeFlash, TypeRam, FlashInv, Current, IdentityOnDisk,
    InPlain, InVault, StepInv, EnableInv, DisableInv, ImportInv, SessionInv, Whole,
    Pair, Steps

\* Every step of setup(), of an operation on the vault, of a walk and a power
\* loss preserves what the flash and the operation under way guarantee.
LEMMA IdStep == IdInv /\ [Next]_vars => IdInv'
<1> SUFFICES ASSUME IdInv, [Next]_vars PROVE IdInv'
  OBVIOUS
<1> USE VaultAssumption DEF IdInv, TypeFlash, TypeRam, FlashInv, Current, IdentityOnDisk,
    InPlain, InVault, StepInv, EnableInv, DisableInv, ImportInv, SessionInv, Whole,
    Pair, Steps, flash, ram
<1>1. CASE Setup
  BY <1>1 DEF Setup
<1>2. CASE Unlock
  BY <1>2 DEF Unlock
<1>3. CASE UnlockFails
  BY <1>3 DEF UnlockFails, vars
<1>4. CASE LoadIdentity
  BY <1>4 DEF LoadIdentity, IdentityOpens
<1>5. CASE Panic
  BY <1>5 DEF Panic, PowerOff
<1>6. CASE GenerateIdentity
  BY <1>6 DEF GenerateIdentity, FreshIdentities
<1>7. CASE SaveIdentity
  BY <1>7 DEF SaveIdentity
<1>8. CASE vault_enable
  BY <1>8 DEF vault_enable, Idle, FreshKeys
<1>9. CASE EnableWrite
  BY <1>9 DEF EnableWrite, Verified
<1>10. CASE EnableRenameVk
  BY <1>10 DEF EnableRenameVk
<1>11. CASE EnableRenameId
  BY <1>11 DEF EnableRenameId
<1>12. CASE EnableRemoveLegacy
  BY <1>12 DEF EnableRemoveLegacy
<1>13. CASE EnableCommitFlag
  BY <1>13 DEF EnableCommitFlag
<1>14. CASE vault_disable_flow
  BY <1>14 DEF vault_disable_flow, Idle
<1>15. CASE vault_disable
  BY <1>15 DEF vault_disable, Verified
<1>16. CASE DisableRenameLegacy
  BY <1>16 DEF DisableRenameLegacy
<1>17. CASE DisableRemoveId
  BY <1>17 DEF DisableRemoveId
<1>18. CASE DisableRemoveVk
  BY <1>18 DEF DisableRemoveVk
<1>19. CASE DisableCommitFlag
  BY <1>19, ZenonT(60) DEF DisableCommitFlag
<1>20. CASE ImportIdentity
  BY <1>20 DEF ImportIdentity, Idle, Verified
<1>21. CASE ImportRename
  BY <1>21 DEF ImportRename
<1>22. CASE ImportReset
  BY <1>22, ZenonT(60) DEF ImportReset, PowerOff
<1>23. CASE EncryptDone
  BY <1>23 DEF EncryptDone
<1>24. CASE PowerLoss
  BY <1>24, ZenonT(60) DEF PowerLoss, PowerOff
<1>25. ASSUME NEW m \in Msg, EncryptMessage(m) PROVE IdInv'
  BY <1>25 DEF EncryptMessage
<1>26. ASSUME NEW m \in Msg, DecryptMessage(m) PROVE IdInv'
  BY <1>26 DEF DecryptMessage
<1>27. ASSUME NEW m \in Msg, StoreMessage(m) PROVE IdInv'
  BY <1>27 DEF StoreMessage, Idle
<1>28. CASE UNCHANGED vars
  BY <1>28 DEF vars
<1> QED
  BY <1>1, <1>2, <1>3, <1>4, <1>5, <1>6, <1>7, <1>8, <1>9, <1>10, <1>11,
     <1>12, <1>13, <1>14, <1>15, <1>16, <1>17, <1>18, <1>19, <1>20, <1>21,
     <1>22, <1>23, <1>24, <1>25, <1>26, <1>27, <1>28
     DEF Next, Boot, Enable, Disable, Walk, Import

-----------------------------------------------------------------------------
(* The message store *)

\* The store starts empty.
LEMMA StoreInit == Init => StoreInv
BY VaultAssumption DEF Init, StoreInv, TypeStore, CipherInv, KeysKept, Walked

\* A message is encrypted only under the key in vault.vk, and vault.vk goes
\* only after the decrypting walk has visited every message.
LEMMA StoreStep == IdInv /\ StoreInv /\ [Next]_vars => StoreInv'
<1> SUFFICES ASSUME IdInv, StoreInv, [Next]_vars PROVE StoreInv'
  OBVIOUS
<1> USE VaultAssumption DEF StoreInv, TypeStore, CipherInv, KeysKept, Walked, flash, ram,
    Stored
<1> USE DEF IdInv, TypeFlash, TypeRam, StepInv, EnableInv, SessionInv, InVault, Whole,
    Pair, Steps
<1>1. CASE Setup
  BY <1>1 DEF Setup
<1>2. CASE Unlock
  BY <1>2 DEF Unlock
<1>3. CASE UnlockFails
  BY <1>3 DEF UnlockFails, vars
<1>4. CASE LoadIdentity
  BY <1>4 DEF LoadIdentity, IdentityOpens
<1>5. CASE Panic
  BY <1>5 DEF Panic, PowerOff
<1>6. CASE GenerateIdentity
  BY <1>6 DEF GenerateIdentity, FreshIdentities
<1>7. CASE SaveIdentity
  BY <1>7 DEF SaveIdentity
<1>8. CASE vault_enable
  BY <1>8 DEF vault_enable, Idle, FreshKeys
<1>9. CASE EnableWrite
  BY <1>9 DEF EnableWrite, Verified
<1>10. CASE EnableRenameVk
  BY <1>10 DEF EnableRenameVk
<1>11. CASE EnableRenameId
  BY <1>11 DEF EnableRenameId
<1>12. CASE EnableRemoveLegacy
  BY <1>12 DEF EnableRemoveLegacy
<1>13. CASE EnableCommitFlag
  BY <1>13 DEF EnableCommitFlag
<1>14. CASE vault_disable_flow
  BY <1>14 DEF vault_disable_flow, Idle
<1>15. CASE vault_disable
  BY <1>15 DEF vault_disable, Verified
<1>16. CASE DisableRenameLegacy
  BY <1>16 DEF DisableRenameLegacy
<1>17. CASE DisableRemoveId
  BY <1>17 DEF DisableRemoveId
<1>18. CASE DisableRemoveVk
  BY <1>18 DEF DisableRemoveVk
<1>19. CASE DisableCommitFlag
  BY <1>19 DEF DisableCommitFlag
<1>20. CASE ImportIdentity
  BY <1>20 DEF ImportIdentity, Idle, Verified
<1>21. CASE ImportRename
  BY <1>21 DEF ImportRename
<1>22. CASE ImportReset
  BY <1>22 DEF ImportReset, PowerOff
<1>23. CASE EncryptDone
  BY <1>23 DEF EncryptDone
<1>24. CASE PowerLoss
  BY <1>24 DEF PowerLoss, PowerOff
<1>25. ASSUME NEW m \in Msg, EncryptMessage(m) PROVE StoreInv'
  BY <1>25 DEF EncryptMessage, Loads
<1>26. ASSUME NEW m \in Msg, DecryptMessage(m) PROVE StoreInv'
  BY <1>26 DEF DecryptMessage, Loads
<1>27. ASSUME NEW m \in Msg, StoreMessage(m) PROVE StoreInv'
  BY <1>27 DEF StoreMessage, Idle
<1>28. CASE UNCHANGED vars
  BY <1>28 DEF vars
<1> QED
  BY <1>1, <1>2, <1>3, <1>4, <1>5, <1>6, <1>7, <1>8, <1>9, <1>10, <1>11,
     <1>12, <1>13, <1>14, <1>15, <1>16, <1>17, <1>18, <1>19, <1>20, <1>21,
     <1>22, <1>23, <1>24, <1>25, <1>26, <1>27, <1>28
     DEF Next, Boot, Enable, Disable, Walk, Import

\* The budget of power losses, a bound of the model.
LEMMA CrashStep ==
    crashes \in 0..MaxCrashes /\ [Next]_vars => crashes' \in 0..MaxCrashes
<1> SUFFICES ASSUME crashes \in 0..MaxCrashes, [Next]_vars
             PROVE  crashes' = crashes \/ (crashes < MaxCrashes /\ crashes' = crashes + 1)
  BY VaultAssumption
<1> QED
  BY DEF Next, vars, Boot, Enable, Disable, Walk, Import, Setup, Unlock, UnlockFails,
     LoadIdentity, Panic, GenerateIdentity, SaveIdentity, vault_enable, EnableWrite,
     EnableRenameVk, EnableRenameId, EnableRemoveLegacy, EnableCommitFlag,
     EncryptMessage, EncryptDone, DecryptMessage, vault_disable_flow, vault_disable,
     DisableRenameLegacy, DisableRemoveId, DisableRemoveVk, DisableCommitFlag,
     ImportIdentity, ImportRename, ImportReset, StoreMessage, PowerLoss

\* The inductive invariant, from the three lemmas.
LEMMA AlwaysInv == Spec => [](IdInv /\ StoreInv /\ crashes \in 0..MaxCrashes)
<1>1. Init => IdInv /\ StoreInv /\ crashes \in 0..MaxCrashes
  BY IdInit, StoreInit, VaultAssumption DEF Init
<1>2. IdInv /\ StoreInv /\ crashes \in 0..MaxCrashes /\ [Next]_vars
          => (IdInv /\ StoreInv /\ crashes \in 0..MaxCrashes)'
  BY IdStep, StoreStep, CrashStep
<1> QED
  BY <1>1, <1>2, PTL DEF Spec

-----------------------------------------------------------------------------
(* What the node's owner relies on *)

\* Every file, flag and working variable of the vault keeps its type, and the
\* vault key is in memory exactly when a protected node is up.
THEOREM TypeCorrect == Spec => []TypeOK
<1>1. IdInv /\ StoreInv /\ crashes \in 0..MaxCrashes => TypeOK
  BY DEF IdInv, StoreInv, TypeFlash, TypeRam, TypeStore, TypeOK, Pair
<1> QED
  BY <1>1, AlwaysInv, PTL

\* Whenever power is lost during vault_enable, vault_disable or
\* vault_identity_commit, however often, the node's identity is on flash as a
\* valid plaintext or a valid encrypted file.
THEOREM IdentityAlwaysOnDisk == Spec => []IdentityOnDisk
<1>1. IdInv => IdentityOnDisk
  BY DEF IdInv, FlashInv
<1> QED
  BY <1>1, AlwaysInv, PTL

\* urns_init never brings the node up as an identity that an interrupted
\* operation left behind.
THEOREM AlwaysRunsAsOwner == Spec => []RunsAsOwner
<1>1. IdInv => RunsAsOwner
  BY DEF IdInv, StepInv, SessionInv, RunsAsOwner
<1> QED
  BY <1>1, AlwaysInv, PTL

\* Whatever walks and operations were cut off, a session opens every message
\* that a decrypting walk did not fail to re-save.
THEOREM MessagesAlwaysOpen == Spec => []MessagesOpen
<1>1. IdInv /\ StoreInv => MessagesOpen
  BY DEF IdInv, TypeRam, StepInv, SessionInv, Whole, StoreInv, TypeStore, KeysKept,
     MessagesOpen, Idle
<1> QED
  BY <1>1, AlwaysInv, PTL
=============================================================================
