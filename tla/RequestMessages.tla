--------------------------- MODULE RequestMessages ---------------------------
(***************************************************************************)
(* What an EC request and an AT request are made of: key pairs and the     *)
(* curves they are taken to be on, signatures, ECIES envelopes, the key    *)
(* tag, and who can open and verify which part.  The station runs enrol    *)
(* and request-at over one key store; a request that was posted may reach  *)
(* its authority at any later time, and more than once.                    *)
(*                                                                         *)
(* Keys of ECs and of tickets lie in one directory: the ticket's key of id *)
(* is stored as AtOf[id], the id with "-at", which may itself be an id.     *)
(*                                                                         *)
(* A KeyPair of the code is bytes and does not say which curve it is on.   *)
(* Here it is [id, curve]: the scalar id with its point on that curve.     *)
(* Using it under another curve of the same length works on another point, *)
(* [id, curve'], which is nobody's public key.  Hashes are injective: a    *)
(* hash is the value that was hashed.                                      *)
(***************************************************************************)
EXTENDS Integers, Sequences, FiniteSets

CONSTANTS
  Ids,          \* values of --canonical-key
  AtOf,         \* Ids -> the name of the ticket's key, the id with "-at"
  CurveArgs,    \* values of --curve
  RecordCurves, \* curves that an embedding program asks for
  Eas, Aas,     \* certificates of the EAs and AAs, [name, ver, enc]: see CaType
  MaxKeys,      \* bound on the key pairs generated
  MaxPosts      \* bound on the requests posted

Curves == {"NistP256", "BrainpoolP256r1", "NistP384", "BrainpoolP384r1"}

NoKey == [id |-> 0, curve |-> "none"]      \* empty bytes, nullptr, no such file
Points == [id : Nat, curve : Curves]

\* A CA certificate: verification key, and encryption key or NoKey.
CaType == [name : STRING, ver : Points \cup {NoKey}, enc : Points \cup {NoKey}]

ASSUME MessagesAssumption ==
  /\ RecordCurves \subseteq Curves
  /\ DOMAIN AtOf = Ids /\ \A id \in Ids : AtOf[id] # id
  /\ \A ca \in Eas \cup Aas :
       /\ DOMAIN ca = {"name", "ver", "enc"}
       /\ ca.ver \in Points \cup {NoKey}
       /\ ca.enc \in Points \cup {NoKey}
       /\ ca.enc # NoKey => ca.enc.curve \in {"NistP256", "BrainpoolP256r1"}
  /\ Eas \cap Aas = {}
  /\ \A c, d \in Eas \cup Aas : c.name = d.name => c = d   \* a HashedId8, and hashes are injective
  /\ MaxKeys \in Nat /\ MaxPosts \in Nat

\* Two ids never share a ticket's name, but an id may be one.
Handles == Ids \cup {AtOf[id] : id \in Ids}

VARIABLES
  store,    \* the key store: handle -> key pair, NoKey if there is none
  ec,       \* ec.cert: [key, ea], the point certified and the issuer; NoEc if none
  fresh,    \* the next scalar that keygen draws
  posted,   \* the requests posted so far
  waiting,  \* the request the station waits for, NoRequest if none
  ecs,      \* ECs that the EAs issued
  knows     \* history: what each authority read in AT requests, as [ca, item]

rmVars == <<store, ec, fresh, posted, waiting, ecs, knows>>

NoEc == [key |-> NoKey, ea |-> "none"]
NoRequest == [kind |-> "none"]

(***************************************************************************)
(* Curves and points                                                       *)
(***************************************************************************)
\* is_p256_size; scalar_len, pubkey_len and hash_len depend on nothing else.
IsP256Size(curve) == curve \in {"NistP256", "BrainpoolP256r1"}
SameLength(c, d) == IsP256Size(c) <=> IsP256Size(d)

\* point::from_sec1 and point::from_sec1_384 look at the length only.
FromSec1(pub) == IF IsP256Size(pub.curve) THEN pub ELSE NoKey
FromSec1_384(pub) == IF IsP256Size(pub.curve) THEN NoKey ELSE pub

Bug_NistP384Label(curve, pub) ==
  CASE curve = "BrainpoolP256r1" -> [label |-> curve, point |-> FromSec1(pub)]
    [] curve \in {"NistP384", "BrainpoolP384r1"} -> [label |-> curve, point |-> FromSec1_384(pub)]
    [] OTHER -> [label |-> "NistP256", point |-> FromSec1(pub)]

\* The PublicVerificationKey of a request: the curve of the record, the bytes of the key.
VerificationKey(curve, pub) ==
  CASE curve = "BrainpoolP256r1" -> [label |-> curve, point |-> FromSec1(pub)]
    [] curve = "BrainpoolP384r1" -> [label |-> curve, point |-> FromSec1_384(pub)]
    [] OTHER -> [label |-> "NistP256", point |-> FromSec1(pub)]

\* What a reader takes it for: the compressed point of another curve is no key at all.
PointOf(pvk) == IF pvk.label = pvk.point.curve THEN pvk.point ELSE NoKey

(***************************************************************************)
(* ECDSA and the signed envelope                                           *)
(***************************************************************************)
NoSignature == [by |-> NoKey, label |-> "none", over |-> <<>>]

\* build_asn_signature: every P-384 signature is labelled Brainpool.
SignatureLabel(curve) ==
  IF IsP256Size(curve) THEN curve ELSE "BrainpoolP384r1"

\* Which point a private key signs as.  A scalar of the other length is refused;
\* one of another curve may be out of range there.
Signers(pair, curve) ==
  CASE ~SameLength(pair.curve, curve) -> {NoKey}
    [] pair.curve = curve -> {pair}
    [] OTHER -> {[pair EXCEPT !.curve = curve], NoKey}

\* finalize_signed_data
Signatures(pair, curve, data) ==
  {IF by = NoKey THEN NoSignature
                 ELSE [by |-> by, label |-> SignatureLabel(curve), over |-> data] :
     by \in Signers(pair, curve)}

\* extract_sig: the curve of a signature is the one of its label.
SignatureCurve(signature) == signature.label

Verifies(signature, pub, data) ==
  signature.by = pub /\ SignatureCurve(signature) = pub.curve /\ signature.over = data

(***************************************************************************)
(* ECIES and the encrypted envelope                                        *)
(***************************************************************************)
\* build_encrypted_data: the recipient is named, one private key opens it.  The
\* AES key is random, or zeros when RAND_bytes failed: ecies_encrypt ignores it.
Sealed(ca, opener) == [to : {ca.name}, opener : {opener}, aes : {"random", "zeros"}]
NoEnvelope == [to |-> "none", opener |-> NoKey, aes |-> "none"]

\* ea_enc_key, aa_enc_key; enc_curve keeps its default without an encryption key.
EncryptionKey(ca) == IF ca.enc = NoKey THEN ca.ver ELSE ca.enc
EncCurve(ca) == IF ca.enc = NoKey THEN "NistP256" ELSE ca.enc.curve

\* ecies_encrypt.  A certificate carries compressed points: half of those of
\* another curve decompress to a point of this one, whose private key nobody has.
Envelopes(ca) ==
  LET key == EncryptionKey(ca)
  IN CASE key = NoKey -> {NoEnvelope}
       [] key # NoKey /\ key.curve = EncCurve(ca) -> Sealed(ca, key)
       [] key # NoKey /\ key.curve # EncCurve(ca) /\ IsP256Size(key.curve) ->
            {NoEnvelope} \cup Sealed(ca, NoKey)
       [] OTHER -> {NoEnvelope}

\* The CA named is the recipient and has the private key.
Opens(ca, e) == e.to = ca.name /\ e.opener \in {ca.ver, ca.enc} \ {NoKey}

\* Whoever has the envelope can read it: as its recipient, or under a key of zeros.
CanRead(ca, e) == Opens(ca, e) \/ e.aes = "zeros"

(***************************************************************************)
(* encode_ec_request, encode_at_request                                    *)
(***************************************************************************)
Bug_Unchecked(request, signatures, envelopes, fits) == IF fits THEN request ELSE NoRequest

\* The encoders end in an error when a part could not be made, or when the
\* whole is longer than kMaxCoerMessageLen (~fits).
Encoded(request, signatures, envelopes, fits) ==
  IF /\ request.pvk.point # NoKey
     /\ NoSignature \notin signatures /\ NoEnvelope \notin envelopes
     /\ fits
    THEN request ELSE NoRequest

\* An EC request for the key pub of the record, signed twice with the pair that
\* was loaded (proof of possession, then the whole) and sealed for the EA.
EcRequests(id, curve, pub, pair, ea, fits) ==
  LET pvk == VerificationKey(curve, pub)
      Parts == [pop : Signatures(pair, curve, <<pvk>>),
                outer : Signatures(pair, curve, <<pvk, "pop">>),
                envelope : Envelopes(ea)]
  IN {Encoded([kind |-> "ec", id |-> id, curve |-> curve, pair |-> pair, pvk |-> pvk,
               pop |-> p.pop, outer |-> p.outer, envelope |-> p.envelope],
              {p.pop, p.outer}, {p.envelope}, fits) : p \in Parts}

\* keyTag: HMAC over the encoded verification key.
KeyTag(hmacKey, pvk) == <<hmacKey, pvk>>

Bug_SealedForAa(aa, ea) == Envelopes(aa)

\* encryptedEcSignature
EcSignatureEnvelopes(aa, ea) == Envelopes(ea)

\* An AT request.  ecSignature: the shared request signed with the EC's key
\* under the curve of the record, sealed for the EA; the whole signed with the
\* ticket's key and sealed for the AA.
AtRequests(curve, pair, ecPair, ecCert, aa, ea, hmacKey, fits) ==
  LET pvk == VerificationKey(curve, pair)
      shared == [eaId |-> ea.name, keyTag |-> KeyTag(hmacKey, pvk)]
      Parts == [signed : Signatures(ecPair, curve, <<shared, ecCert>>),
                inner : EcSignatureEnvelopes(aa, ea),
                outer : Signatures(pair, curve, <<pvk, hmacKey, shared>>),
                envelope : Envelopes(aa)]
  IN {Encoded([kind |-> "at", curve |-> curve, pair |-> pair, pvk |-> pvk,
               hmacKey |-> hmacKey, shared |-> shared, ecPair |-> ecPair,
               ecSignature |-> [envelope |-> p.inner, signer |-> ecCert, signed |-> p.signed],
               outer |-> p.outer, envelope |-> p.envelope],
              {p.signed, p.outer}, {p.inner, p.envelope}, fits) : p \in Parts}

(***************************************************************************)
(* The authorities                                                         *)
(***************************************************************************)
\* An EA opens an EC request and verifies both signatures with the key in it.
EaAccepts(ea, m) ==
  /\ Opens(ea, m.envelope)
  /\ Verifies(m.outer, PointOf(m.pvk), <<m.pvk, "pop">>)
  /\ Verifies(m.pop, PointOf(m.pvk), <<m.pvk>>)

\* The EA vouches for an AT request: its ecSignature is by an EC that it issued.
EaVouches(ea, m) ==
  /\ m.shared.eaId = ea.name
  /\ Opens(ea, m.ecSignature.envelope)
  /\ m.ecSignature.signer \in ecs /\ m.ecSignature.signer.ea = ea.name
  /\ Verifies(m.ecSignature.signed, m.ecSignature.signer.key, <<m.shared, m.ecSignature.signer>>)

\* An AA opens an AT request, verifies it with the key in it and that key's tag.
AaAccepts(aa, m) ==
  /\ Opens(aa, m.envelope)
  /\ Verifies(m.outer, PointOf(m.pvk), <<m.pvk, m.hmacKey, m.shared>>)
  /\ m.shared.keyTag = KeyTag(m.hmacKey, m.pvk)
  /\ \E ea \in Eas : EaVouches(ea, m)

\* What the AA reads of an AT request, and the EA of the part that the AA
\* passes on to it (sharedAtRequest and ecSignature).
ReadByAa(aa, m) ==
  IF Opens(aa, m.envelope)
    THEN {"key", "hmacKey", "keyTag"} \cup (IF CanRead(aa, m.ecSignature.envelope) THEN {"ec"} ELSE {})
    ELSE {}
ReadByEa(ea, m) ==
  {"keyTag"} \cup (IF CanRead(ea, m.ecSignature.envelope) THEN {"ec"} ELSE {})

(***************************************************************************)
(* The station                                                             *)
(***************************************************************************)
RmInit ==
  /\ store = [h \in Handles |-> NoKey]
  /\ ec = NoEc /\ fresh = 1
  /\ posted = {} /\ waiting = NoRequest
  /\ ecs = {} /\ knows = {}

Bug_FirstFit(pair) ==
  [pair EXCEPT !.curve = IF IsP256Size(@) THEN "NistP256" ELSE "BrainpoolP384r1"]

\* build_pkey: P-384 is taken for Brainpool, P-256 is tried on both curves;
\* a point that is not on the curve is refused.
StoredAs(pair) == IF pair.curve = "NistP384" THEN NoKey ELSE pair

\* store_keypair, whose result nobody looks at: refused, written, or failed
\* with the old file there or not.
Stores(old, pair) == IF StoredAs(pair) = NoKey THEN {old} ELSE {StoredAs(pair), old, NoKey}

\* The command posts the request and waits, or ends when there is none.
Send(request) ==
  /\ waiting' = request
  /\ posted' = posted \cup ({request} \ {NoRequest})

\* generate_keypair
NewPair(curve) == [id |-> fresh, curve |-> curve]

\* validate_ec_record, the part about the key.
RecordValid(curve, pub) == SameLength(pub.curve, curve)

\* parse_curve: a name that it does not know, "nist-p384" among them, is NIST P-256.
ParseCurve(arg) ==
  CASE arg = "brainpool-p256r1" -> "BrainpoolP256r1"
    [] arg = "brainpool-p384r1" -> "BrainpoolP384r1"
    [] OTHER -> "NistP256"

\* enrol: the key in the store if there is one, whatever curve was asked for,
\* or a new one; encode_ec_request then works with what the store holds.
Enrol(id, curve, ea, fits) ==
  LET pub == IF store[id] # NoKey THEN store[id] ELSE NewPair(curve)
  IN /\ waiting = NoRequest /\ Cardinality(posted) < MaxPosts
     /\ IF store[id] # NoKey
          THEN UNCHANGED <<store, fresh>>
          ELSE /\ fresh <= MaxKeys
               /\ fresh' = fresh + 1
               /\ \E k \in Stores(NoKey, pub) : store' = [store EXCEPT ![id] = k]
     /\ IF RecordValid(curve, pub) /\ store'[id] # NoKey
          THEN \E m \in EcRequests(id, curve, pub, store'[id], ea, fits) : Send(m)
          ELSE Send(NoRequest)
     /\ UNCHANGED <<ec, ecs, knows>>

Bug_CurveAsGiven(cert, given) == given

\* "--curve overridden by EC cert curve"
TicketCurve(cert, given) == cert.key.curve

\* assemble_at_request: a random key, or zeros when that cannot be drawn.
HmacKeys == {fresh, 0}

\* request-at: a new key pair for every ticket, stored over the last one's; the
\* request is made with what the store then holds.
RequestAt(id, given, aa, ea, fits) ==
  LET h == AtOf[id]
      ecPair == store[id]
      curve == TicketCurve(ec, given)
  IN /\ waiting = NoRequest /\ Cardinality(posted) < MaxPosts
     /\ ec # NoEc /\ ecPair # NoKey
     /\ fresh <= MaxKeys
     /\ fresh' = fresh + 1
     /\ \E k \in Stores(store[h], NewPair(curve)) :
          store' = [store EXCEPT ![h] = k]
     /\ IF store'[h] = NoKey
          THEN Send(NoRequest)
          ELSE \E hmacKey \in HmacKeys :
                 \E m \in AtRequests(curve, store'[h], ecPair, ec, aa, ea, hmacKey, fits) : Send(m)
     /\ UNCHANGED <<ec, ecs, knows>>

\* No answer, or a refusal.
GiveUp ==
  /\ waiting # NoRequest
  /\ waiting' = NoRequest
  /\ UNCHANGED <<store, ec, fresh, posted, ecs, knows>>

\* The EC of the request waited for arrives and is written to ec.cert.
EcArrives(cert) ==
  /\ waiting.kind = "ec"
  /\ cert.ea = waiting.envelope.to /\ cert.key = PointOf(waiting.pvk)
  /\ ec' = cert /\ waiting' = NoRequest
  /\ UNCHANGED <<store, fresh, posted, ecs, knows>>

TicketArrives ==
  /\ waiting.kind = "at"
  /\ \E aa \in Aas : AaAccepts(aa, waiting)
  /\ waiting' = NoRequest
  /\ UNCHANGED <<store, ec, fresh, posted, ecs, knows>>

EaHandles(ea, m) ==
  /\ m.kind = "ec" /\ EaAccepts(ea, m)
  /\ ecs' = ecs \cup {[key |-> PointOf(m.pvk), ea |-> ea.name]}
  /\ UNCHANGED <<store, ec, fresh, posted, waiting, knows>>

\* The AA reads an AT request and passes its part on to an EA.
AaHandles(aa, ea, m) ==
  /\ m.kind = "at" /\ Opens(aa, m.envelope)
  /\ knows' = knows \cup
       {[ca |-> aa.name, hmacKey |-> m.hmacKey, aes |-> m.ecSignature.envelope.aes,
         reads |-> ReadByAa(aa, m)],
        [ca |-> ea.name, hmacKey |-> m.hmacKey, aes |-> m.ecSignature.envelope.aes,
         reads |-> ReadByEa(ea, m)]}
  /\ UNCHANGED <<store, ec, fresh, posted, waiting, ecs>>

RmNext ==
  \/ \E id \in Ids, arg \in CurveArgs, ea \in Eas, fits \in BOOLEAN :
       Enrol(id, ParseCurve(arg), ea, fits)
  \/ \E id \in Ids, curve \in RecordCurves, ea \in Eas, fits \in BOOLEAN : Enrol(id, curve, ea, fits)
  \/ \E id \in Ids, arg \in CurveArgs, aa \in Aas, ea \in Eas, fits \in BOOLEAN :
       RequestAt(id, ParseCurve(arg), aa, ea, fits)
  \/ GiveUp
  \/ \E cert \in ecs : EcArrives(cert)
  \/ TicketArrives
  \/ \E m \in posted, ea \in Eas : EaHandles(ea, m)
  \/ \E m \in posted, aa \in Aas, ea \in Eas : AaHandles(aa, ea, m)

RmSpec == RmInit /\ [][RmNext]_rmVars

(***************************************************************************)
(* Properties                                                              *)
(***************************************************************************)
IsSignature(signature) == signature.by \in Points /\ signature.label \in Curves

\* Types; and what is posted is complete: every signature was made, every
\* envelope has a recipient, the key asked for is in it.
RmTypeOK ==
  /\ store \in [Handles -> Points \cup {NoKey}]
  /\ ec \in ecs \cup {NoEc}
  /\ fresh \in 1..(MaxKeys + 1)
  /\ waiting \in posted \cup {NoRequest}
  /\ \A m \in posted :
       /\ m.kind \in {"ec", "at"} /\ m.curve \in Curves /\ m.pair \in Points
       /\ m.pvk.label \in Curves /\ m.pvk.point \in Points
       /\ IsSignature(m.outer) /\ m.envelope.to \in {ca.name : ca \in Eas \cup Aas}
       /\ m.kind = "ec" => IsSignature(m.pop)
       /\ m.kind = "at" => IsSignature(m.ecSignature.signed)
  /\ \A cert \in ecs : cert.key \in Points /\ \E ea \in Eas : cert.ea = ea.name

\* The fallback to the verification key works for NIST P-256 only.
Reachable(ca) == ca.enc # NoKey \/ ca.ver.curve = "NistP256"

\* The encoders and the authorities agree: an EC request whose key lies on the
\* curve of its record, sent to an EA that can be encrypted for, is accepted; so
\* is an AT request made with the EC's own key and a ticket key on the EC's
\* curve, whatever --curve says and whenever it is handled.
MatchedRequestsAccepted ==
  \A m \in posted :
    /\ m.kind = "ec" /\ m.pair.curve = m.curve =>
         \A ea \in Eas : ea.name = m.envelope.to /\ Reachable(ea) => EaAccepts(ea, m)
    /\ m.kind = "at" /\ m.pair.curve = m.curve /\ m.ecPair = m.ecSignature.signer.key =>
         \A aa \in Aas, ea \in Eas :
           /\ aa.name = m.envelope.to /\ Reachable(aa)
           /\ ea.name = m.ecSignature.signer.ea /\ ea.name = m.shared.eaId /\ Reachable(ea)
           => AaAccepts(aa, m)

\* build_asn_signature labels every P-384 signature Brainpool ("TODO: P-384 sign
\* assumes Brainpool"): no NIST P-384 key gets far enough for the label to lie.
SignaturesCarryTheirCurve ==
  \A m \in posted :
    /\ m.outer.label = m.outer.by.curve
    /\ m.kind = "ec" => m.pop.label = m.pop.by.curve
    /\ m.kind = "at" => m.ecSignature.signed.label = m.ecSignature.signed.by.curve

\* An id that is the name of another id's ticket key, as canonical-at is.
IsTicketName(id) == \E other \in Ids : AtOf[other] = id

\* The EC in ec.cert certifies a pair that was enrolled under some id, and the
\* store still holds that pair there, on the curve it was made for, whatever was
\* asked for and lost since; only an id that is a ticket's name too may have
\* lost it (request-at of the other id stores over it).  So enrolling again with
\* a loaded key and another --curve of the same length never ends in an EC.
CertifiedKeyHeld ==
  ec # NoEc => \E m \in posted : /\ m.kind = "ec" /\ m.pair = ec.key
                                 /\ store[m.id] = m.pair \/ IsTicketName(m.id)

\* Who learns the EC of a ticket's key: by reading both, or by reading the key
\* tag as well as the HMAC key, or with an HMAC key of zeros.
Links(k) ==
  /\ "ec" \in k.reads
  /\ \/ "key" \in k.reads
     \/ "keyTag" \in k.reads /\ ("hmacKey" \in k.reads \/ k.hmacKey = 0)

\* The split between EA and AA keeps the ticket apart from the enrolment as long
\* as random bytes can be drawn.  Each of the two draws whose failure the code
\* passes over gives it away to one side: an HMAC key of zeros to the EA, an AES
\* key of zeros around the ecSignature to the AA, and neither to the other.
NobodyLinks ==
  \A k \in knows : Links(k) =>
    \/ k.hmacKey = 0 /\ \E ea \in Eas : k.ca = ea.name
    \/ k.aes = "zeros" /\ \E aa \in Aas : k.ca = aa.name
=============================================================================
