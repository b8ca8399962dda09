---------------------------- MODULE AuthService ----------------------------
(***************************************************************************)
(* packages/relay/src/auth.ts, as the relay's handlers call it: single-use *)
(* challenges, and the bearer tokens that signed challenges are exchanged  *)
(* for.  random(32) never repeats: challenges and tokens are numbered in   *)
(* the order they are drawn.  A signature is the name of the key that made *)
(* it; it verifies for an address when it was made with that address's own *)
(* key over this address and this challenge (challengeTranscript).         *)
(***************************************************************************)
EXTENDS Naturals, FiniteSets

CONSTANTS
  Address,       \* accounts, each the hash of an identity key
  ChallengeTtl,  \* LIMITS.challengeTtlMs
  TokenTtl,      \* LIMITS.tokenTtlMs
  MaxDrawn,      \* bound: random values drawn
  MaxTime        \* bound: the clock

ASSUME TtlsAreTimes == ChallengeTtl \in Nat /\ TokenTtl \in Nat

VARIABLES
  now,         \* Date.now()
  drawn,       \* random values drawn so far
  challenges,  \* the challenges Map
  tokens,      \* the tokens Map
  grants       \* history: every token ever granted, when, for which challenge

authVars == <<now, drawn, challenges, tokens, grants>>

Drawn     == 1 .. drawn
Challenge == [value : Nat, address : Address, expiresAt : Nat]
Token     == [token : Nat, address : Address, expiresAt : Nat]
Grant     == [token : Nat, address : Address, by : Address, at : Nat, for : Challenge]

AuthInit ==
  /\ now = 0 /\ drawn = 0
  /\ challenges = {} /\ tokens = {}
  /\ grants = {}

\* POST /v1/auth/challenge: anyone may ask, for any address.
IssueChallenge(a) ==
  /\ drawn < MaxDrawn
  /\ drawn' = drawn + 1
  /\ challenges' = challenges \cup
       {[value |-> drawn + 1, address |-> a, expiresAt |-> now + ChallengeTtl]}
  /\ UNCHANGED <<now, tokens, grants>>

\* A check that forgets whom the challenge was issued for, and one that takes
\* any key's signature.
AcceptsAnyAddress(record, a, signer) == now <= record.expiresAt /\ signer = a

AcceptsAnySigner(record, a, signer) == now <= record.expiresAt /\ record.address = a

Accepts(record, a, signer) ==
  /\ now <= record.expiresAt
  /\ record.address = a
  /\ signer = a

\* A challenge left in the Map for another attempt.
SpendNothing(value) == challenges

\* challenges.delete, before anything is verified.
Spend(value) == {r \in challenges : r.value # value}

\* authenticate: address a presents a challenge signed by signer.
Authenticate(a, value, signer) ==
  /\ challenges' = Spend(value)
  /\ \/ \E r \in challenges :
          /\ r.value = value /\ Accepts(r, a, signer)
          /\ drawn < MaxDrawn
          /\ drawn' = drawn + 1
          /\ tokens' = tokens \cup
               {[token |-> drawn + 1, address |-> a, expiresAt |-> now + TokenTtl]}
          /\ grants' = grants \cup
               {[token |-> drawn + 1, address |-> a, by |-> signer, at |-> now, for |-> r]}
     \/ /\ ~\E r \in challenges : r.value = value /\ Accepts(r, a, signer)
        /\ UNCHANGED <<drawn, tokens, grants>>
  /\ UNCHANGED now

\* The token resolves to a.
Resolves(token, a) ==
  \E r \in tokens : r.token = token /\ r.address = a /\ now <= r.expiresAt

\* resolve of a token that has expired forgets it.
RefuseExpired(token) ==
  /\ \E r \in tokens : r.token = token /\ r.expiresAt < now
  /\ tokens' = {r \in tokens : r.token # token}
  /\ UNCHANGED <<now, drawn, challenges, grants>>

\* prune.
Unexpired(records) == {r \in records : now <= r.expiresAt}

Prune ==
  /\ challenges' = Unexpired(challenges)
  /\ tokens' = Unexpired(tokens)
  /\ UNCHANGED <<now, drawn, grants>>

Tick ==
  /\ now < MaxTime
  /\ now' = now + 1
  /\ UNCHANGED <<drawn, challenges, tokens, grants>>

-----------------------------------------------------------------------------
AuthTypeOK ==
  /\ now \in Nat /\ drawn \in Nat
  /\ challenges \subseteq Challenge
  /\ tokens \subseteq Token
  /\ grants \subseteq Grant

\* Every token was earned: its account's own key signed a challenge that was
\* issued for that account and had not run out, and no other token was ever
\* earned with that challenge (authenticate, auth.ts:50-80).
EarnedOnce ==
  /\ \A g \in grants :
       /\ g.by = g.address /\ g.for.address = g.address
       /\ g.at <= g.for.expiresAt
  /\ \A g1, g2 \in grants : g1.for.value = g2.for.value => g1 = g2
=============================================================================
