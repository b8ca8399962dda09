-------------------------------- MODULE Vault --------------------------------
(***************************************************************************)
(* packages/crypto/src/vault.ts and the collections of core/storage.ts.    *)
(* Data keys are the numbers of the vaults they were drawn for; Zero is    *)
(* the 32 zero bytes wipe leaves in place, which encrypts and decrypts     *)
(* like any other key.  A wrapped vault names the key inside it and the    *)
(* passphrase is "right" or "wrong" for it: a wrapper that was tampered    *)
(* with cannot be told from a wrong passphrase.                            *)
(***************************************************************************)
EXTENDS Naturals

NoKey == 0   \* no vault, or nothing stored
Zero  == 100 \* above every number of a vault

\* createVault draws the key; encodeWrappedVault, written to the keystore,
\* decodes to the same wrapper, anything else is a MalformedInputError.
CreateVault(n) == [dataKey |-> n, wrapped |-> n]

\* The data key, or none: VaultLockedError.
UnlockVault(right, wrapped) == IF right THEN {wrapped} ELSE {}

\* A lock that forgets the vault without wiping it, and the code's.
ForgetVault(dataKey) == dataKey
LockVault(dataKey)   == IF dataKey = NoKey THEN NoKey ELSE Zero

\* encryptRecord does not look at the key; a record's key depends on the
\* collection and the id, so a row opens only where it was put.
EncryptRecord(dataKey) == dataKey

Decrypts(dataKey, row) == row = dataKey

\* EncryptedCollection.get: undefined for no row, throws when it does not open.
GetThrows(dataKey, row) == row # NoKey /\ ~Decrypts(dataKey, row)
=============================================================================
