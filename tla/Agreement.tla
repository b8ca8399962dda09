------------------------------- MODULE Agreement -------------------------------
(***************************************************************************)
(* The sealed envelope (packages/crypto/src/envelope.ts) and the PQXDH     *)
(* handshake (pqxdh.ts) as operators on the identities and prekeys of      *)
(* Identity.  A Diffie-Hellman output is the set of the two keys that met; *)
(* ML-KEM decapsulation never fails, under another key it gives another    *)
(* secret; a derived key is the record of all that went into it.           *)
(* Handshake keeps of a root secret only the ephemeral and prekey secrets  *)
(* in it: AgreementProofs says when two sides have the same.               *)
(***************************************************************************)
EXTENDS Identity, Sequences

Dh(secret, public) == {secret, public}

KemEncapsulate(public, fresh) ==
  [ciphertext |-> [to |-> public, fresh |-> fresh],
   sharedSecret |-> [under |-> public, fresh |-> fresh]]

KemDecapsulate(ciphertext, secret) == [under |-> secret, fresh |-> ciphertext.fresh]

AeadEncrypt(key, text) == [under |-> key, text |-> text]

AeadDecrypt(key, ciphertext) ==
  {text \in {ciphertext.text} : ciphertext.under = key}

-----------------------------------------------------------------------------
(* Sealed envelopes.                                                       *)

EnvelopeKeys(sharedSecret, ephemeral, recipientExchangeKey) ==
  [secret |-> sharedSecret, salt |-> <<ephemeral, recipientExchangeKey>>]

SenderProofTranscript(ephemeral, address, kind, payload) ==
  [ephemeral |-> ephemeral, recipient |-> address, kind |-> kind, payload |-> payload]

\* Sealing to an identity whose exchange key it has not signed is refused.
SealEnvelope(sender, recipient, ephemeral, kind, payload) ==
  LET keys  == EnvelopeKeys(Dh(ephemeral, recipient.exchange), ephemeral, recipient.exchange)
      text  == SenderProofTranscript(ephemeral, AddressOf(recipient), kind, payload)
      inner == [identity |-> sender, proof |-> Sign(sender.signing, text),
                kind |-> kind, payload |-> payload]
  IN  {e \in {[recipientAddress |-> AddressOf(recipient), ephemeral |-> ephemeral,
               ciphertext |-> AeadEncrypt(keys, inner)]} : VerifyIdentityBinding(recipient)}

\* By the device whose identity is self, under its own address.
OpenEnvelope(self, envelope) ==
  LET shared == Dh(self.exchange, envelope.ephemeral)
      keys   == EnvelopeKeys(shared, envelope.ephemeral, self.exchange)
      Proven(inner) ==
        Verify(inner.identity.signing,
               SenderProofTranscript(envelope.ephemeral, AddressOf(self),
                                     inner.kind, inner.payload),
               inner.proof)
  IN  {[senderIdentity |-> inner.identity, kind |-> inner.kind, payload |-> inner.payload] :
         inner \in {x \in AeadDecrypt(keys, envelope.ciphertext) :
                      VerifyIdentityBinding(x.identity) /\ Proven(x)}}

-----------------------------------------------------------------------------
(* PQXDH.                                                                  *)

\* Ids as the transcript has them: a flag and a number.
OptionalId(k) == IF k = Absent THEN <<0, 0>> ELSE <<1, k.id>>

KeyIds(bundle) ==
  [signed |-> bundle.signedPreKey.id, signedKem |-> bundle.signedKemPreKey.id,
   oneTime |-> OptionalId(bundle.oneTimePreKey),
   oneTimeKem |-> OptionalId(bundle.oneTimeKemPreKey)]

AssociatedData(initiator, responder) ==
  <<initiator.signing, initiator.exchange, responder.signing, responder.exchange>>

HandshakeTranscript(initiator, responder, ephemeral, ciphertext, ids) ==
  [parties |-> AssociatedData(initiator, responder), ephemeral |-> ephemeral,
   ciphertext |-> ciphertext, ids |-> ids]

DeriveRootSecret(secrets, transcript) == [ikm |-> secrets, salt |-> transcript]

\* With the fourth output or without.
Secrets(dh1, dh2, dh3, dh4, kem) ==
  IF dh4 = {} THEN <<dh1, dh2, dh3, kem>> ELSE <<dh1, dh2, dh3, dh4, kem>>

\* The one-time ML-KEM key where there is one, else the signed one.
KemChoice(oneTimeKem, signedKem) == IF oneTimeKem = 0 THEN signedKem ELSE oneTimeKem

InitiateHandshake(self, bundle, ephemeral, fresh) ==
  LET kem == KemEncapsulate(
               KemChoice(bundle.oneTimeKemPreKey.key, bundle.signedKemPreKey.key), fresh)
      dh1 == Dh(self.exchange, bundle.signedPreKey.key)
      dh2 == Dh(ephemeral, bundle.identity.exchange)
      dh3 == Dh(ephemeral, bundle.signedPreKey.key)
      dh4 == IF bundle.oneTimePreKey = Absent THEN {} ELSE Dh(ephemeral, bundle.oneTimePreKey.key)
      transcript == HandshakeTranscript(self, bundle.identity, ephemeral, kem.ciphertext,
                                        KeyIds(bundle))
  IN  [rootSecret |-> DeriveRootSecret(Secrets(dh1, dh2, dh3, dh4, kem.sharedSecret), transcript),
       ephemeral |-> ephemeral, ciphertext |-> kem.ciphertext, keyIds |-> KeyIds(bundle),
       associatedData |-> AssociatedData(self, bundle.identity)]

\* The secrets a responder found under the ids: 0 where there is none, and for a
\* signed key that was wiped.
Found == [signed : Nat, signedKem : Nat, oneTime : Nat, oneTimeKem : Nat]

IdsMatch(ids, found) ==
  /\ ids.oneTime[1] = 1 <=> found.oneTime # 0
  /\ ids.oneTimeKem[1] = 1 <=> found.oneTimeKem # 0

RespondToHandshake(self, initiator, message, found) ==
  LET kem == KemDecapsulate(message.ciphertext, KemChoice(found.oneTimeKem, found.signedKem))
      dh1 == Dh(found.signed, initiator.exchange)
      dh2 == Dh(self.exchange, message.ephemeral)
      dh3 == Dh(found.signed, message.ephemeral)
      dh4 == IF found.oneTime = 0 THEN {} ELSE Dh(found.oneTime, message.ephemeral)
      transcript == HandshakeTranscript(initiator, self, message.ephemeral, message.ciphertext,
                                        message.keyIds)
  IN  {r \in {[rootSecret |-> DeriveRootSecret(Secrets(dh1, dh2, dh3, dh4, kem), transcript),
               associatedData |-> AssociatedData(initiator, self)]} :
         IdsMatch(message.keyIds, found)}
=============================================================================
