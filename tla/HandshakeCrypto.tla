-------------------------- MODULE HandshakeCrypto --------------------------
(***************************************************************************)
(* Symbolic key material of the handshake (Crypto.cpp, TripleDH, the       *)
(* transcript hash of PublicKeyInitiatorHandshake / HandshakeHasher).      *)
(*                                                                         *)
(* A key is named <<side, k>>: k = 0 is the static key of that side, k > 0 *)
(* its k-th ephemeral key. A DH output is the set of the two key names it  *)
(* combines, so it is the same from both ends. The transcript hash is the  *)
(* sequence of messages mixed into it, and a KDF output records its salt,  *)
(* its input key material and which of the two outputs it is: two outputs *)
(* are equal exactly when the real ones are (up to collisions).            *)
(***************************************************************************)
EXTENDS Naturals, Sequences

StaticKey(side) == <<side, 0>>

\* PublicKeyInitiatorHandshake::generate_ephemeral_data and the
\* gen_keypair of PublicKeyResponderHandshake::process: a fresh key pair
EphKey(side, k) == <<side, k>>

\* the shared secret a key identifier names (IKeyLookup::find_key on the
\* responder, the key source of the initiator)
SharedSecret(kid) == <<"secret", kid>>

\* the key field of a message that carries none
NoEph == <<"-", 0>>

\* Crypto::dh_x25519. The type and length check on the keys always passes for
\* keys this model generates.
DH(priv, pub) == {priv, pub}

\* TripleDH::compute: static x static, static x ephemeral, ephemeral x static
TripleDH(localStatic, localEph, remoteStatic, remoteEph) ==
    [dh1 |-> DH(localStatic, remoteStatic),
     dh2 |-> DH(localStatic, remoteEph),
     dh3 |-> DH(localEph, remoteStatic)]

\* Crypto::hkdf_sha256: two keys from a salt and the input key material
HKDF(salt, ikm) ==
    <<[salt |-> salt, ikm |-> ikm, out |-> 1],
      [salt |-> salt, ikm |-> ikm, out |-> 2]>>

\* the value of an unset SymmetricKey (BufferType::empty)
NoKey == [salt |-> <<>>, ikm |-> <<>>, out |-> 0]

\* PublicKeyInitiatorHandshake::begin_request_transmit: h = hash(request)
BeginRequestTransmit(request) == <<request>>

\* PublicKeyInitiatorHandshake::mix_handshake_hash: h = hash(h || input)
MixHandshakeHash(h, input) == Append(h, input)

\* HandshakeHasher::compute: hash(hash(request) || reply)
HandshakeHasherCompute(request, reply) ==
    MixHandshakeHash(BeginRequestTransmit(request), reply)
=============================================================================
