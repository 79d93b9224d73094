------------------------------ MODULE WISchnorr ------------------------------
(***************************************************************************)
(* The partially blind signatures of blind verifications: the algorithms of *)
(* WISchnorrServer.js and WISchnorrClient.js over a group small enough to   *)
(* look at every key, every random number and every message.  A session is  *)
(* what index.js makes of them: public parameters for an info both sides    *)
(* know, a challenge for a message the node does not see, the response, and *)
(* the signature the client makes of it and posts.  The answer may be lost; *)
(* a client that asks again, with its old or a new challenge, gets the      *)
(* response the node has stored.                                            *)
(***************************************************************************)
EXTENDS Integers

CONSTANTS
  q, w,              \* the order of the group, and w of p = 2wq + 1
  Byte, Bytes,       \* how many values a byte has, and how many bytes q has
  Info, Msg,
  FOf,               \* sha256(info), an element of 1..p - 1
  Hash(_, _, _, _)   \* sha256 of alpha, beta, z and the message

\* p = 2wq + 1
p == 2 * w * q + 1

VARIABLES
  x,          \* the private key of the node
  stage,      \* how far the session has come
  info, msg,  \* what is signed: info in the open, msg blinded
  priv,       \* params.private, which the node caches
  t,          \* the blinding numbers of the client
  e,          \* the challenge
  stored,     \* the document in signedVerifications, and the challenge it was for
  response,   \* what the client has received
  signature

sessionVars == <<x, stage, info, msg, priv, t, e, stored, response, signature>>

Z_q == 0 .. q - 1

\* remoteModPow: what the profile service answers, or jsbn computes without it.
modPow(b, n) ==
  LET pow[k \in Nat] == IF k = 0 THEN 1 ELSE (pow[k - 1] * b) % p
  IN  pow[n]

\* p is prime: what the algorithms need of that is Fermat's little theorem. A number of
\* as many bytes as q can be any residue.
ASSUME GroupAssumption ==
  /\ Bytes \in Nat \ {0} /\ (\A n \in 1 .. Bytes : Byte ^ n \in Nat) /\ Byte ^ Bytes >= q
  /\ q \in Nat \ {0, 1} /\ w \in Nat \ {0}
  /\ \A b \in 1 .. p - 1 : modPow(b, p - 1) = 1
  /\ FOf \in [Info -> 1 .. p - 1]
  /\ \A alpha, beta, zed \in 0 .. p - 1, m \in Msg : Hash(alpha, beta, zed, m) \in Nat

\* The generator of the subgroup of order q: 2^2w mod p.
g == modPow(2, 2 * w)

\* y = g^x mod p
y == modPow(g, x)

\* z = F^((p-1)/q) mod p: an info is an element of the subgroup.
z(i) == modPow(FOf[i], (p - 1) \div q)

\* Numbers that never have as many bytes as q.
RandomOneByteLess == UNION {{r % q : r \in 0 .. Byte ^ n - 1} : n \in 1 .. Bytes - 1}

\* GenerateRandomNumber draws a number of bytes, then the bytes, and takes the residue: a
\* number of few bytes comes up in more ways than one of many.
Random == UNION {{r % q : r \in 0 .. Byte ^ n - 1} : n \in 1 .. Bytes}

Private == [u : Random, s : Random, d : Random]
Public == [a |-> modPow(g, priv.u),
           b |-> (modPow(g, priv.s) * modPow(z(info), priv.d)) % p]

\* Four random numbers.
Blinding == [t1 : Random, t2 : Random, t3 : Random, t4 : Random]

\* epsilon, of alpha = a g^t1 y^t2 and beta = b g^t3 z^t4.
Epsilon(pub, i, m, k) ==
  LET alpha == (pub.a * modPow(g, k.t1) * modPow(y, k.t2)) % p
      beta == (pub.b * modPow(g, k.t3) * modPow(z(i), k.t4)) % p
  IN Hash(alpha, beta, z(i), m) % q

\* A challenge that forgets t4.
ChallengeWithoutT4(pub, i, m, k) == (Epsilon(pub, i, m, k) - k.t2) % q

\* e = epsilon - t2 - t4 mod q
Challenge(pub, i, m, k) == (Epsilon(pub, i, m, k) - k.t2 - k.t4) % q

\* c = e - d and r = u - cx mod q, with s and d
Response(par, ch) ==
  LET c == (ch - par.d) % q
  IN [r |-> (par.u - c * x) % q, c |-> c, s |-> par.s, d |-> par.d]

\* Every number of the response, unblinded.
BlindSignature(k, res) ==
  [rho |-> (res.r + k.t1) % q, omega |-> (res.c + k.t2) % q,
   sigma |-> (res.s + k.t3) % q, delta |-> (res.d + k.t4) % q]

\* omega + delta = H(g^rho y^omega, g^sigma z^delta, z, msg) mod q
Verifies(sig, i, m) ==
  LET gpyw == (modPow(g, sig.rho) * modPow(y, sig.omega)) % p
      gszd == (modPow(g, sig.sigma) * modPow(z(i), sig.delta)) % p
  IN (sig.omega + sig.delta) % q = Hash(gpyw, gszd, z(i), m) % q

-----------------------------------------------------------------------------
None == [none |-> TRUE]

\* The key is the hash of the password modulo q.
SessionInit ==
  /\ x \in Z_q
  /\ stage = "start"
  /\ info \in Info
  /\ msg \in Msg
  /\ priv = None /\ t = None /\ e = None /\ stored = None /\ response = None /\ signature = None

\* GET /verifications/blinded/public
GenerateWISchnorrParams ==
  /\ stage = "start"
  /\ priv' \in Private
  /\ stage' = "params"
  /\ UNCHANGED <<x, info, msg, t, e, stored, response, signature>>

\* The client blinds the message, again if it has lost the blinding numbers.
GenerateWISchnorrClientChallenge ==
  /\ stage \in {"params", "challenge"}
  /\ t' \in Blinding
  /\ e' = Challenge(Public, info, msg, t')
  /\ stage' = "challenge"
  /\ UNCHANGED <<x, info, msg, priv, stored, response, signature>>

\* GET /verifications/blinded/sig/:id: the first request with these parameters is
\* answered and stored, the next ones get the stored response.  Lookup and insert are one
\* step: of two requests of a user at once the unique index stores and answers only one
\* (SigCheck and SigInsert of BlindVerifications).
VerificationSigGet(delivered) ==
  /\ stage = "challenge"
  /\ stored' = IF stored = None THEN [e |-> e, response |-> Response(priv, e)] ELSE stored
  /\ IF delivered
     THEN response' = stored'.response /\ stage' = "response"
     ELSE UNCHANGED <<response, stage>>
  /\ UNCHANGED <<x, info, msg, priv, t, e, signature>>

\* The client unblinds the response.
GenerateWISchnorrBlindSignature ==
  /\ stage = "response"
  /\ signature' = BlindSignature(t, response)
  /\ stage' = "signature"
  /\ UNCHANGED <<x, info, msg, priv, t, e, stored, response>>

SessionNext ==
  \/ GenerateWISchnorrParams
  \/ GenerateWISchnorrClientChallenge
  \/ \E delivered \in BOOLEAN : VerificationSigGet(delivered)
  \/ GenerateWISchnorrBlindSignature

SessionSpec == SessionInit /\ [][SessionNext]_sessionVars

-----------------------------------------------------------------------------
(* Properties.                                                             *)

\* Whatever the key, the random numbers of both sides, the info and the message, and
\* however often the answer was lost and asked for again, the signature a client
\* makes of the response to its challenge verifies (verificationAppUserIdPost).
SignatureVerifies == stage = "signature" /\ stored.e = e => Verifies(signature, info, msg)

\* The only blinding numbers that can make a signature of this response.
Unblinding(sig) ==
  [t1 |-> (sig.rho - response.r) % q, t2 |-> (sig.omega - response.c) % q,
   t3 |-> (sig.sigma - response.s) % q, t4 |-> (sig.delta - response.d) % q]

\* No response is ruled out as the origin of a signature. Whatever response was given,
\* and whatever signature for the same info verifies, of any message, there are blinding
\* numbers a client may draw with which it would have sent the challenge of the response
\* and made that signature of it (GenerateWISchnorrClientChallenge blinds with all four,
\* and GenerateRandomNumber reaches every residue). This is about what is possible: how
\* likely an origin is it does not say, as the residues are not drawn alike.
EveryResponseFits ==
  stage = "signature" =>
    \A m \in Msg, sig \in [rho : Z_q, omega : Z_q, sigma : Z_q, delta : Z_q] :
      Verifies(sig, info, m) =>
        LET k == Unblinding(sig)
        IN k \in Blinding /\ Challenge(Public, info, m, k) = stored.e /\ BlindSignature(k, response) = sig
=============================================================================
