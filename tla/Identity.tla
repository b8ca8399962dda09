------------------------------- MODULE Identity -------------------------------
(***************************************************************************)
(* Identities, prekeys and what two people compare                         *)
(* (packages/crypto/src/identity.ts, safetyNumber.ts), as operators on     *)
(* symbolic keys.  A key pair is one number: it stands for the public half *)
(* where the code uses that, and for the secret where it uses the secret.  *)
(* A signature is the signing key with the bytes it covers; hashes are     *)
(* one-to-one; a length-prefixed encoding is the record of its fields.     *)
(* What may be refused is a set of at most one value.                      *)
(***************************************************************************)
EXTENDS Naturals

Key == Nat \ {0}

\* A one-time prekey a bundle does not have; its encoding has id 0 too.
Absent == [id |-> 0, key |-> 0]

SigningTranscript(context, signer, id, key) ==
  [context |-> context, signer |-> signer, id |-> id, key |-> key]

Sign(secret, text) == [by |-> secret, over |-> text]

Verify(public, text, signature) == signature = Sign(public, text)

Signature == [by : Key,
              over : [context : {"exchange", "signed prekey", "kem prekey"},
                      signer : Key, id : Nat, key : Key]]

PublicIdentity == [signing : Key, exchange : Key, exchangeKeySignature : Signature]

VerifyIdentityBinding(i) ==
  Verify(i.signing, SigningTranscript("exchange", i.signing, 0, i.exchange),
         i.exchangeKeySignature)

CreateIdentity(signing, exchange) ==
  [signing |-> signing, exchange |-> exchange,
   exchangeKeySignature |->
     Sign(signing, SigningTranscript("exchange", signing, 0, exchange))]

\* From the three parts storage holds.
RestoreIdentity(signing, exchange, signature) ==
  {i \in {[signing |-> signing, exchange |-> exchange, exchangeKeySignature |-> signature]} :
     VerifyIdentityBinding(i)}

-----------------------------------------------------------------------------
(* Prekeys.                                                                *)

SignedPreKeyText(i, id, key)    == SigningTranscript("signed prekey", i.signing, id, key)
SignedKemPreKeyText(i, id, key) == SigningTranscript("kem prekey", i.signing, id, key)

CreateSignedPreKey(i, id, key) ==
  [id |-> id, key |-> key, signature |-> Sign(i.signing, SignedPreKeyText(i, id, key))]

CreateSignedKemPreKey(i, id, key) ==
  [id |-> id, key |-> key, signature |-> Sign(i.signing, SignedKemPreKeyText(i, id, key))]

OneTimePreKeys == [id : Nat, key : Key]
SignedPreKeys  == [id : Nat, key : Key, signature : Signature]

PreKeyBundle ==
  [identity : PublicIdentity, signedPreKey : SignedPreKeys, signedKemPreKey : SignedPreKeys,
   oneTimePreKey : OneTimePreKeys \cup {Absent},
   oneTimeKemPreKey : OneTimePreKeys \cup {Absent}]

\* A signature says what kind of key it is over.
VerifyPreKeyBundle(b) ==
  LET signed == b.signedPreKey
      kem    == b.signedKemPreKey
      signer == b.identity.signing
  IN  /\ VerifyIdentityBinding(b.identity)
      /\ Verify(signer, SignedPreKeyText(b.identity, signed.id, signed.key), signed.signature)
      /\ Verify(signer, SignedKemPreKeyText(b.identity, kem.id, kem.key), kem.signature)

-----------------------------------------------------------------------------
(* What people and devices compare.                                        *)

AddressOf(i) == [addressOf |-> i.signing]

AddressMatches(address, i) == address = AddressOf(i)

\* The digits of the iterated hash: the key's number stands for them, and the
\* order of the numbers for the order of the digits.
IdentityFingerprint(signing) == signing

SafetyNumber(a, b) ==
  LET fa == IdentityFingerprint(a.signing)
      fb == IdentityFingerprint(b.signing)
  IN  IF fa < fb THEN <<fa, fb>> ELSE <<fb, fa>>

VerificationQrPayload(i) == [tag |-> "Veil/v1/Verify", identity |-> i]

ParseVerificationQrPayload(code) ==
  {i \in {code.identity} : code.tag = "Veil/v1/Verify" /\ VerifyIdentityBinding(i)}
=============================================================================
