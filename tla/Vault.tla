------------------------------- MODULE Vault -------------------------------
(***************************************************************************)
(* PIN protection of the onboard node's identity: Vault.h, with the boot   *)
(* sequence that depends on it (setup() and urns_init()), the flows that   *)
(* drive it (VaultUnlock.h), identity import (IdentityTransfer.h) and the  *)
(* message store it encrypts (Messenger.h).                                *)
(*                                                                         *)
(* The flash outlives a power loss, which may come between any two writes  *)
(* to it: vault.vk (the vault key under the PIN), identity.vault (the      *)
(* identity under the vault key), the plaintext identity, the EEPROM flag  *)
(* and the messages. A rename, a remove and an EEPROM commit are atomic    *)
(* (LittleFS, NVS). The .tmp files are written anew by every operation and *)
(* read by that operation only, so they are one value, `staged': whether   *)
(* what was written there reads back. vault_enabled is read from the flag  *)
(* at boot and changed only together with it, so it is the flag.           *)
(*                                                                         *)
(* The PIN is abstracted to being the right one; a wrong one changes       *)
(* nothing but the number of attempts.                                     *)
(***************************************************************************)
EXTENDS FiniteSets, Naturals

CONSTANTS
    Identity,     \* private keys a node may have
    Key,          \* vault keys
    Msg,          \* messages that may be stored
    Absent,       \* no file, no key, no identity
    Damaged,      \* a file that is there and does not read back
    Plain,        \* a message stored in the clear
    MaxCrashes    \* power losses considered

ASSUME VaultAssumption ==
    /\ MaxCrashes \in Nat
    /\ Absent # Damaged /\ Absent # Plain
    /\ {Absent, Damaged, Plain} \cap (Identity \cup Key) = {}
    /\ {Absent, Damaged} \cap [ident : Identity, key : Key] = {}

VARIABLES
    vk,        \* vault.vk
    id,        \* identity.vault
    legacy,    \* the plaintext identity file
    flag,      \* ADDR_CONF_VAULT_ENABLED, and vault_enabled
    msgs,      \* how each message is stored
    mode,      \* "off", "locked" (boot screen), "init", "saving", "run"
    pc,        \* the operation under way, by its next step
    vault_key, \* the unwrapped key; Absent is ~vault_unlocked
    cipher,    \* the store's field cipher: "off", "decrypt", "both"
    ident,     \* urns_identity
    arg,       \* the key or the identity the operation under way installs
    staged,    \* the operation's .tmp files read back as written
    todo,      \* messages the migration walk has still to visit
    owner,     \* history: the identity the node has
    missed,    \* history: messages a decrypting walk left encrypted
    crashes    \* power losses so far

flash == <<vk, id, legacy, flag, msgs>>
ram == <<pc, vault_key, cipher, ident, arg, staged, todo>>
vars == <<flash, mode, ram, owner, missed, crashes>>

Stored == {m \in Msg : msgs[m] # Absent}

\* vault_random_bytes(32): a key unlike every one in use.
FreshKeys == Key \ ({vk, vault_key, arg} \cup {msgs[m] : m \in Msg}
                        \cup {p.key : p \in {id} \ {Absent, Damaged}})

\* A newly generated identity: none the flash already holds.
FreshIdentities == Identity \ ({legacy, ident, owner}
                        \cup {p.ident : p \in {id} \ {Absent, Damaged}})

Idle == mode = "run" /\ pc = "idle"

PowerOff == /\ mode' = "off"
            /\ pc' = "idle" /\ vault_key' = Absent /\ cipher' = "off"
            /\ ident' = Absent /\ arg' = Absent /\ staged' = FALSE /\ todo' = {}

Init ==
    /\ vk = Absent /\ id = Absent /\ legacy = Absent /\ flag = FALSE
    /\ msgs = [m \in Msg |-> Absent]
    /\ mode = "off" /\ pc = "idle" /\ vault_key = Absent /\ cipher = "off"
    /\ ident = Absent /\ arg = Absent /\ staged = FALSE /\ todo = {}
    /\ owner = Absent /\ missed = {} /\ crashes = 0

-----------------------------------------------------------------------------
(* Boot *)

\* setup() reads the flag; with the vault on the boot screen comes first.
Setup ==
    /\ mode = "off"
    /\ mode' = IF flag THEN "locked" ELSE "init"
    /\ UNCHANGED <<flash, ram, owner, missed, crashes>>

\* Mutant: the filesystem is not mounted yet and file_exists throws.
Bug_unlock_unmounted ==
    /\ mode = "locked" /\ vk \in Key
    /\ PowerOff
    /\ UNCHANGED <<flash, owner, missed, crashes>>

\* vault_unlock_boot_screen: the right PIN opens vault.vk if it is intact.
Unlock ==
    /\ mode = "locked" /\ vk \in Key
    /\ vault_key' = vk
    /\ mode' = "init"
    /\ UNCHANGED <<flash, pc, cipher, ident, arg, staged, todo, owner, missed,
                   crashes>>

\* Another attempt: the loop has no other way out.
UnlockFails ==
    /\ mode = "locked"
    /\ UNCHANGED vars

\* vault_load_identity_plaintext opens identity.vault under vault_key.
IdentityOpens == id \notin {Absent, Damaged} /\ id.key = vault_key

\* urns_init and messenger_init, with an identity to load.
LoadIdentity ==
    /\ mode = "init"
    /\ \/ flag /\ IdentityOpens /\ ident' = id.ident
       \/ ~flag /\ legacy \in Identity /\ ident' = legacy
    /\ mode' = "run"
    /\ cipher' = IF flag THEN "both" ELSE "off"
    /\ UNCHANGED <<flash, pc, vault_key, arg, staged, todo, owner, missed, crashes>>

\* identity.vault that is missing, truncated or under another key throws out
\* of setup(), a plaintext identity that does not load leaves urns_identity
\* empty and its hash() asserts: both restart the device.
Panic ==
    /\ mode = "init"
    /\ IF flag THEN ~IdentityOpens ELSE legacy = Damaged
    /\ PowerOff
    /\ UNCHANGED <<flash, owner, missed, crashes>>

\* No identity on flash: generate one; opening the file for writing leaves it
\* empty ...
GenerateIdentity ==
    /\ mode = "init" /\ ~flag /\ legacy = Absent
    /\ ident' \in FreshIdentities
    /\ legacy' = Damaged
    /\ mode' = "saving"
    /\ UNCHANGED <<vk, id, flag, msgs, pc, vault_key, cipher, arg, staged, todo,
                   owner, missed, crashes>>

\* ... until it is closed; to_file's result is ignored.
SaveIdentity ==
    /\ mode = "saving"
    /\ \/ legacy' = ident /\ owner' = ident
       \/ UNCHANGED <<legacy, owner>>
    /\ mode' = "run"
    /\ UNCHANGED <<vk, id, flag, msgs, ram, missed, crashes>>

-----------------------------------------------------------------------------
(* vault_enroll_flow: PIN protection on *)

vault_enable ==
    /\ Idle /\ ~flag /\ legacy \in Identity
    /\ arg' \in FreshKeys
    /\ pc' = "en_write"
    /\ UNCHANGED <<flash, mode, vault_key, cipher, ident, staged, todo, owner,
                   missed, crashes>>

\* Mutant: what was written is not read back.
Bug_not_verified(ok) == TRUE

\* The operation goes on only if its .tmp files read back as written.
Verified(ok) == ok

\* Write both .tmp files and read them back.
EnableWrite ==
    /\ mode = "run" /\ pc = "en_write"
    /\ staged' \in BOOLEAN
    /\ pc' = IF Verified(staged') THEN "en_vk" ELSE "idle"
    /\ UNCHANGED <<flash, mode, vault_key, cipher, ident, arg, todo, owner,
                   missed, crashes>>

EnableRenameVk ==
    /\ mode = "run" /\ pc = "en_vk"
    /\ vk' = IF staged THEN arg ELSE Damaged
    /\ pc' = "en_id"
    /\ UNCHANGED <<id, legacy, flag, msgs, mode, vault_key, cipher, ident, arg,
                   staged, todo, owner, missed, crashes>>

EnableRenameId ==
    /\ mode = "run" /\ pc = "en_id"
    /\ id' = IF staged THEN [ident |-> legacy, key |-> arg] ELSE Damaged
    /\ pc' = "en_remove"
    /\ UNCHANGED <<vk, legacy, flag, msgs, mode, vault_key, cipher, ident, arg,
                   staged, todo, owner, missed, crashes>>

EnableRemoveLegacy ==
    /\ mode = "run" /\ pc = "en_remove"
    /\ legacy' = Absent
    /\ pc' = "en_flag"
    /\ UNCHANGED <<vk, id, flag, msgs, mode, vault_key, cipher, ident, arg,
                   staged, todo, owner, missed, crashes>>

\* Commit the flag; the key stays in memory and the flow goes on to encrypt
\* the stored messages.
EnableCommitFlag ==
    /\ mode = "run" /\ pc = "en_flag"
    /\ flag' = TRUE
    /\ vault_key' = arg
    /\ cipher' = "both" /\ todo' = Stored
    /\ pc' = "encrypt"
    /\ UNCHANGED <<vk, id, legacy, msgs, mode, ident, arg, staged, owner, missed,
                   crashes>>

-----------------------------------------------------------------------------
(* Walks over the message store *)

\* load_message: plaintext, or encrypted under the key of this session.
Loads(m) == msgs[m] \in {Plain, vault_key}

\* One message of vault_migrate_messages_encrypt: re-saved, or left as it is
\* when it does not load or does not save.
EncryptMessage(m) ==
    /\ mode = "run" /\ pc = "encrypt" /\ m \in todo
    /\ \/ Loads(m) /\ msgs' = [msgs EXCEPT ![m] = vault_key]
       \/ UNCHANGED msgs
    /\ todo' = todo \ {m}
    /\ UNCHANGED <<vk, id, legacy, flag, mode, pc, vault_key, cipher, ident, arg,
                   staged, owner, missed, crashes>>

EncryptDone ==
    /\ mode = "run" /\ pc = "encrypt" /\ todo = {}
    /\ pc' = "idle"
    /\ UNCHANGED <<flash, mode, vault_key, cipher, ident, arg, staged, todo,
                   owner, missed, crashes>>

\* One message of vault_migrate_messages_decrypt.
DecryptMessage(m) ==
    /\ mode = "run" /\ pc = "decrypt" /\ m \in todo
    /\ \/ Loads(m) /\ msgs' = [msgs EXCEPT ![m] = Plain] /\ UNCHANGED missed
       \/ UNCHANGED msgs
          /\ missed' = missed \cup (IF msgs[m] = Plain THEN {} ELSE {m})
    /\ todo' = todo \ {m}
    /\ UNCHANGED <<vk, id, legacy, flag, mode, pc, vault_key, cipher, ident, arg,
                   staged, owner, crashes>>

-----------------------------------------------------------------------------
(* vault_disable_flow: PIN protection off *)

\* Mutant: the stored messages are not walked.
Bug_no_walk ==
    /\ Idle /\ flag /\ vk \in Key
    /\ cipher' = "decrypt" /\ todo' = {}
    /\ pc' = "decrypt"
    /\ UNCHANGED <<flash, mode, vault_key, ident, arg, staged, owner, missed,
                   crashes>>

\* vault_verify_password, then the walk.
vault_disable_flow ==
    /\ Idle /\ flag /\ vk \in Key
    /\ cipher' = "decrypt" /\ todo' = Stored
    /\ pc' = "decrypt"
    /\ UNCHANGED <<flash, mode, vault_key, ident, arg, staged, owner, missed,
                   crashes>>

\* The walk is over, the cipher unhooked; vault_disable opens identity.vault
\* under the key of vault.vk, writes the plaintext to a .tmp file and reads it
\* back. On any failure the flow encrypts the messages again.
vault_disable ==
    /\ mode = "run" /\ pc = "decrypt" /\ todo = {}
    /\ staged' \in BOOLEAN
    /\ IF Verified(staged') /\ id \notin {Absent, Damaged} /\ id.key = vk
       THEN /\ arg' = id.ident /\ cipher' = "off"
            /\ pc' = "dis_legacy" /\ UNCHANGED todo
       ELSE /\ cipher' = "both" /\ todo' = Stored
            /\ pc' = "encrypt" /\ UNCHANGED arg
    /\ UNCHANGED <<flash, mode, vault_key, ident, owner, missed, crashes>>

\* Mutant: a plaintext identity that is already there is taken for the one
\* just decrypted.
Bug_keep_legacy ==
    /\ mode = "run" /\ pc = "dis_legacy"
    /\ legacy' = IF legacy = Absent THEN arg ELSE legacy
    /\ pc' = "dis_id"
    /\ UNCHANGED <<vk, id, flag, msgs, mode, vault_key, cipher, ident, arg,
                   staged, todo, owner, missed, crashes>>

DisableRenameLegacy ==
    /\ mode = "run" /\ pc = "dis_legacy"
    /\ legacy' = IF staged THEN arg ELSE Damaged
    /\ pc' = "dis_id"
    /\ UNCHANGED <<vk, id, flag, msgs, mode, vault_key, cipher, ident, arg,
                   staged, todo, owner, missed, crashes>>

DisableRemoveId ==
    /\ mode = "run" /\ pc = "dis_id"
    /\ id' = Absent
    /\ pc' = "dis_vk"
    /\ UNCHANGED <<vk, legacy, flag, msgs, mode, vault_key, cipher, ident, arg,
                   staged, todo, owner, missed, crashes>>

DisableRemoveVk ==
    /\ mode = "run" /\ pc = "dis_vk"
    /\ vk' = Absent
    /\ pc' = "dis_flag"
    /\ UNCHANGED <<id, legacy, flag, msgs, mode, vault_key, cipher, ident, arg,
                   staged, todo, owner, missed, crashes>>

\* Commit the flag, then vault_lock.
DisableCommitFlag ==
    /\ mode = "run" /\ pc = "dis_flag"
    /\ flag' = FALSE
    /\ vault_key' = Absent
    /\ pc' = "idle"
    /\ UNCHANGED <<vk, id, legacy, msgs, mode, cipher, ident, arg, staged, todo,
                   owner, missed, crashes>>

-----------------------------------------------------------------------------
(* Identity import and restore *)

\* vault_identity_commit: write the .tmp file and read it back ...
ImportIdentity ==
    /\ Idle
    /\ arg' \in Identity
    /\ staged' \in BOOLEAN
    /\ pc' = IF Verified(staged') THEN "import" ELSE "idle"
    /\ UNCHANGED <<flash, mode, vault_key, cipher, ident, todo, owner, missed,
                   crashes>>

\* ... and rename it over the file the node boots from.
ImportRename ==
    /\ mode = "run" /\ pc = "import"
    /\ IF flag
       THEN /\ id' = IF staged THEN [ident |-> arg, key |-> vault_key] ELSE Damaged
            /\ UNCHANGED legacy
       ELSE /\ legacy' = IF staged THEN arg ELSE Damaged
            /\ UNCHANGED id
    /\ owner' = arg
    /\ pc' = "reset"
    /\ UNCHANGED <<vk, flag, msgs, mode, vault_key, cipher, ident, arg, staged,
                   todo, missed, crashes>>

\* hard_reset, once the acknowledgement is out.
ImportReset ==
    /\ mode = "run" /\ pc = "reset"
    /\ PowerOff
    /\ UNCHANGED <<flash, owner, missed, crashes>>

-----------------------------------------------------------------------------
(* The store and the power supply *)

\* A message is received or sent while no flow has the loop: save_message
\* encrypts it when the cipher is hooked.
StoreMessage(m) ==
    /\ Idle /\ msgs[m] = Absent
    /\ msgs' = [msgs EXCEPT ![m] = IF cipher = "both" THEN vault_key ELSE Plain]
    /\ UNCHANGED <<vk, id, legacy, flag, mode, ram, owner, missed, crashes>>

PowerLoss ==
    /\ mode # "off" /\ crashes < MaxCrashes
    /\ crashes' = crashes + 1
    /\ PowerOff
    /\ UNCHANGED <<flash, owner, missed>>

Boot == Setup \/ Unlock \/ UnlockFails \/ LoadIdentity \/ Panic
        \/ GenerateIdentity \/ SaveIdentity

Enable == vault_enable \/ EnableWrite \/ EnableRenameVk \/ EnableRenameId
          \/ EnableRemoveLegacy \/ EnableCommitFlag

Disable == vault_disable_flow \/ vault_disable \/ DisableRenameLegacy
           \/ DisableRemoveId \/ DisableRemoveVk \/ DisableCommitFlag

Import == ImportIdentity \/ ImportRename \/ ImportReset

Walk == (\E m \in Msg : EncryptMessage(m) \/ DecryptMessage(m)) \/ EncryptDone

Next == Boot \/ Enable \/ Disable \/ Walk \/ Import
        \/ (\E m \in Msg : StoreMessage(m)) \/ PowerLoss

\* setup() runs to its end without being asked, and the owner of the device
\* keeps entering the PIN.
Fairness == /\ WF_vars(Setup \/ LoadIdentity \/ Panic \/ GenerateIdentity
                       \/ SaveIdentity)
            /\ WF_vars(Unlock)

Spec == Init /\ [][Next]_vars /\ Fairness

-----------------------------------------------------------------------------
(* Properties *)

Steps == {"idle", "en_write", "en_vk", "en_id", "en_remove", "en_flag", "encrypt",
          "decrypt", "dis_legacy", "dis_id", "dis_vk", "dis_flag", "import", "reset"}

\* Type invariant. With no operation under way no walk is either, and the key
\* is in memory exactly in an unlocked session of a protected node (the claim
\* of messenger_init that vault_enabled implies vault_unlocked).
TypeOK ==
    /\ vk \in Key \cup {Absent, Damaged}
    /\ id \in [ident : Identity, key : Key] \cup {Absent, Damaged}
    /\ legacy \in Identity \cup {Absent, Damaged}
    /\ flag \in BOOLEAN
    /\ msgs \in [Msg -> Key \cup {Absent, Plain}]
    /\ mode \in {"off", "locked", "init", "saving", "run"}
    /\ pc \in Steps /\ (mode # "run" => pc = "idle")
    /\ vault_key \in Key \cup {Absent}
    /\ mode = "run" => (flag <=> vault_key # Absent)
    /\ cipher \in {"off", "decrypt", "both"}
    /\ ident \in Identity \cup {Absent}
    /\ arg \in Key \cup Identity \cup {Absent}
    /\ staged \in BOOLEAN
    /\ todo \subseteq Msg /\ (pc \notin {"encrypt", "decrypt"} => todo = {})
    /\ owner \in Identity \cup {Absent}
    /\ missed \subseteq Msg
    /\ crashes \in 0..MaxCrashes

\* The identity is intact in one of the two places, with what opens it.
InPlain == legacy = owner
InVault == vk \in Key /\ id = [ident |-> owner, key |-> vk]

\* What vault_enable's comment promises and every operation must keep: at
\* every instant, so whenever power is lost, the node's identity is on flash as
\* a valid plaintext or as a valid encrypted file with its key.
IdentityOnDisk == owner # Absent => InPlain \/ InVault

\* A node that comes up runs as its owner's identity and never as an older one
\* left behind in the file the flag does not point to by an operation that was
\* cut off. (Between an import and its reset the old one still runs, and a
\* generated identity whose save failed is nowhere on flash.)
RunsAsOwner ==
    mode = "run" /\ pc # "reset" /\ legacy # Damaged => ident = owner

\* Whatever operations were cut off, a session opens every stored message: none
\* is under a key of an earlier vault, unless a decrypting walk could not
\* re-save it.
MessagesOpen ==
    Idle => \A m \in Msg \ missed : msgs[m] \in {Absent, Plain, vault_key}

\* Flash contents setup() cannot get past: the flag is set and the vault files
\* are not both there, or the plaintext identity is damaged.
Unbootable == IF flag THEN ~(vk \in Key /\ id \notin {Absent, Damaged} /\ id.key = vk)
                      ELSE legacy = Damaged

\* A node that loses power comes up again if its flash is bootable at all.
ComesBack == (mode = "off") ~> (mode = "run" \/ Unbootable)

\* The promise read as what the owner of the node relies on: the identity is
\* replaced by an import and by nothing else.
OnlyImportReplaces == [][owner' # owner => owner = Absent \/ pc = "import"]_vars
=============================================================================
