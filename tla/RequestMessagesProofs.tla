------------------------ MODULE RequestMessagesProofs ------------------------
(***************************************************************************)
(* Proofs about the request messages, for every set of authorities, key    *)
(* names and curves, however many keys and requests there are.             *)
(*                                                                         *)
(* The argument has two halves.  What the encoders let through has a fixed *)
(* shape, whatever went into them (EcShape, AtShape: lemmas EcEncoded and  *)
(* AtEncoded).  What the station and the authorities do to it is the       *)
(* inductive invariant MessagesInv: the pair that an EC request was made   *)
(* with stays under its id unless request-at of another id writes there,   *)
(* an EC certifies the key of an EC request, and an AT request names an EC *)
(* that was issued.                                                        *)
(***************************************************************************)
EXTENDS RequestMessages, TLAPS

\* The point that a pair signs as under a curve of its length.
On(pair, curve) == [id |-> pair.id, curve |-> curve]

SignatureOf(pair, curve, data) == [by |-> On(pair, curve), label |-> curve, over |-> data]

\* The curves that a complete request may have.
WireCurves == {"NistP256", "BrainpoolP256r1", "BrainpoolP384r1"}

\* What every complete request has.
CommonShape(m) ==
  /\ m.curve \in WireCurves /\ m.pair \in Points /\ SameLength(m.pair.curve, m.curve)
  /\ m.pvk = [label |-> m.curve, point |-> m.pair]

EcShape(m) ==
  /\ CommonShape(m)
  /\ m.pop = SignatureOf(m.pair, m.curve, <<m.pvk>>)
  /\ m.outer = SignatureOf(m.pair, m.curve, <<m.pvk, "pop">>)
  /\ \E ea \in Eas : m.envelope \in Envelopes(ea) \ {NoEnvelope}

AtShape(m) ==
  /\ CommonShape(m)
  /\ m.ecPair \in Points
  /\ m.curve = m.ecSignature.signer.key.curve
  /\ m.outer = SignatureOf(m.pair, m.curve, <<m.pvk, m.hmacKey, m.shared>>)
  /\ m.ecSignature.signed = SignatureOf(m.ecPair, m.curve, <<m.shared, m.ecSignature.signer>>)
  /\ m.shared.keyTag = KeyTag(m.hmacKey, m.pvk)
  /\ \E aa \in Aas : m.envelope \in Envelopes(aa) \ {NoEnvelope}
  /\ \E ea \in Eas : m.ecSignature.envelope \in Envelopes(ea) \ {NoEnvelope} /\ m.shared.eaId = ea.name

\* The pair of an EC request is where it was loaded from.
StillUnder(m) == store[m.id] = m.pair \/ IsTicketName(m.id)

\* What a step does to the keys under ids that are nobody's ticket name: nothing.
KeysKept == \A id \in Ids : store[id] # NoKey /\ ~IsTicketName(id) => store'[id] = store[id]

(***************************************************************************)
(* What the encoders make                                                  *)
(***************************************************************************)
\* finalize_signed_data: a signature that was made is by the pair under the
\* curve, which has the pair's length.
LEMMA SignatureMade ==
  ASSUME NEW pair \in Points, NEW curve \in Curves, NEW data,
         NEW s \in Signatures(pair, curve, data), s # NoSignature
  PROVE  /\ SameLength(pair.curve, curve)
         /\ s = [by |-> On(pair, curve), label |-> SignatureLabel(curve), over |-> data]
<1>1. PICK by \in Signers(pair, curve) :
        s = IF by = NoKey THEN NoSignature
                          ELSE [by |-> by, label |-> SignatureLabel(curve), over |-> data]
  BY DEF Signatures
<1>2. by # NoKey
  BY <1>1
<1>3. SameLength(pair.curve, curve) /\ by \in {pair, [pair EXCEPT !.curve = curve]}
      /\ (by = pair => pair.curve = curve \/ by = [pair EXCEPT !.curve = curve])
  <2>1. CASE ~SameLength(pair.curve, curve)
    BY <1>2, <2>1 DEF Signers, SameLength
  <2>2. CASE SameLength(pair.curve, curve) /\ pair.curve = curve
    BY <2>2 DEF Signers
  <2>3. CASE SameLength(pair.curve, curve) /\ pair.curve # curve
    BY <1>2, <2>3 DEF Signers
  <2> QED BY <2>1, <2>2, <2>3
<1>4. by = On(pair, curve)
  BY <1>3 DEF On, Points
<1> QED BY <1>1, <1>2, <1>3, <1>4

\* A verification key that was made of a pair of the curve's length holds that
\* pair and says that curve; NIST P-384 is not one that it can say.
LEMMA VerificationKeyMade ==
  ASSUME NEW pair \in Points, NEW curve \in Curves, SameLength(pair.curve, curve),
         VerificationKey(curve, pair).point # NoKey
  PROVE  /\ curve \in WireCurves /\ SignatureLabel(curve) = curve
         /\ VerificationKey(curve, pair) = [label |-> curve, point |-> pair]
BY DEF VerificationKey, SameLength, IsP256Size, FromSec1, FromSec1_384, WireCurves, SignatureLabel,
       Curves, Points

\* encode_ec_request: what leaves the encoder has the shape of an EC request.
LEMMA EcEncoded ==
  ASSUME NEW id, NEW pair \in Points, NEW curve \in Curves, NEW ea \in Eas, NEW fits \in BOOLEAN,
         NEW m \in EcRequests(id, curve, pair, pair, ea, fits), m # NoRequest
  PROVE  m.kind = "ec" /\ m.id = id /\ m.pair = pair /\ EcShape(m)
<1> DEFINE pvk == VerificationKey(curve, pair)
           Whole(p) == [kind |-> "ec", id |-> id, curve |-> curve, pair |-> pair, pvk |-> pvk,
                        pop |-> p.pop, outer |-> p.outer, envelope |-> p.envelope]
<1>1. PICK p \in [pop : Signatures(pair, curve, <<pvk>>), outer : Signatures(pair, curve, <<pvk, "pop">>),
                  envelope : Envelopes(ea)] :
        m = Encoded(Whole(p), {p.pop, p.outer}, {p.envelope}, fits)
  BY Zenon DEF EcRequests
<1>2. /\ pvk.point # NoKey /\ p.pop # NoSignature /\ p.outer # NoSignature /\ p.envelope # NoEnvelope
      /\ m = Whole(p)
  <2>1. Whole(p).pvk = pvk
    OBVIOUS
  <2> HIDE DEF Whole, pvk
  <2> QED BY <1>1, <2>1, Zenon DEF Encoded
<1>3. /\ SameLength(pair.curve, curve)
      /\ p.pop = [by |-> On(pair, curve), label |-> SignatureLabel(curve), over |-> <<pvk>>]
      /\ p.outer = [by |-> On(pair, curve), label |-> SignatureLabel(curve), over |-> <<pvk, "pop">>]
  <2> HIDE DEF Whole, pvk
  <2> QED BY <1>1, <1>2, SignatureMade
<1>4. curve \in WireCurves /\ SignatureLabel(curve) = curve /\ pvk = [label |-> curve, point |-> pair]
  BY <1>2, <1>3, VerificationKeyMade
<1>5. /\ m.kind = "ec" /\ m.id = id /\ m.curve = curve /\ m.pair = pair /\ m.pvk = pvk
      /\ m.pop = p.pop /\ m.outer = p.outer /\ m.envelope = p.envelope
  BY <1>2
<1> HIDE DEF pvk
<1>6. CommonShape(m)
  BY <1>3, <1>4, <1>5 DEF CommonShape
<1>7. m.pop = SignatureOf(m.pair, m.curve, <<m.pvk>>) /\ m.outer = SignatureOf(m.pair, m.curve, <<m.pvk, "pop">>)
  BY <1>3, <1>4, <1>5 DEF SignatureOf
<1> QED BY <1>1, <1>2, <1>5, <1>6, <1>7 DEF EcShape

\* encode_at_request, with a curve that is the EC's.
LEMMA AtEncoded ==
  ASSUME NEW pair \in Points, NEW ecPair \in Points, NEW cert, cert.key.curve \in Curves,
         NEW aa \in Aas, NEW ea \in Eas, NEW hmacKey, NEW fits \in BOOLEAN,
         NEW m \in AtRequests(cert.key.curve, pair, ecPair, cert, aa, ea, hmacKey, fits), m # NoRequest
  PROVE  m.kind = "at" /\ m.ecSignature.signer = cert /\ AtShape(m)
<1> DEFINE curve == cert.key.curve
           pvk == VerificationKey(curve, pair)
           shared == [eaId |-> ea.name, keyTag |-> KeyTag(hmacKey, pvk)]
           Whole(p) ==
             [kind |-> "at", curve |-> curve, pair |-> pair, pvk |-> pvk,
              hmacKey |-> hmacKey, shared |-> shared, ecPair |-> ecPair,
              ecSignature |-> [envelope |-> p.inner, signer |-> cert, signed |-> p.signed],
              outer |-> p.outer, envelope |-> p.envelope]
<1>1. PICK p \in [signed : Signatures(ecPair, curve, <<shared, cert>>), inner : EcSignatureEnvelopes(aa, ea),
                  outer : Signatures(pair, curve, <<pvk, hmacKey, shared>>), envelope : Envelopes(aa)] :
        m = Encoded(Whole(p), {p.signed, p.outer}, {p.inner, p.envelope}, fits)
  BY Zenon DEF AtRequests
<1>2. /\ Whole(p).pvk.point # NoKey
      /\ p.signed # NoSignature /\ p.outer # NoSignature /\ p.inner # NoEnvelope /\ p.envelope # NoEnvelope
      /\ m = Whole(p)
  <2> HIDE DEF Whole
  <2> QED BY <1>1, Zenon DEF Encoded
<1>3. pvk.point # NoKey
  BY <1>2
<1>4. /\ SameLength(ecPair.curve, curve)
      /\ p.signed = [by |-> On(ecPair, curve), label |-> SignatureLabel(curve), over |-> <<shared, cert>>]
  <2> HIDE DEF Whole, pvk, shared
  <2> QED BY <1>1, <1>2, SignatureMade
<1>5. /\ SameLength(pair.curve, curve)
      /\ p.outer = [by |-> On(pair, curve), label |-> SignatureLabel(curve), over |-> <<pvk, hmacKey, shared>>]
  <2> HIDE DEF Whole, pvk, shared
  <2> QED BY <1>1, <1>2, SignatureMade
<1>6. curve \in WireCurves /\ SignatureLabel(curve) = curve /\ pvk = [label |-> curve, point |-> pair]
  BY <1>3, <1>5, VerificationKeyMade
<1>7. shared.eaId = ea.name /\ shared.keyTag = KeyTag(hmacKey, pvk)
  OBVIOUS
<1>8. p.inner \in Envelopes(ea)
  BY <1>1 DEF EcSignatureEnvelopes
<1> HIDE DEF pvk, shared, curve
<1>9. /\ m.kind = "at" /\ m.curve = curve /\ m.pair = pair /\ m.pvk = pvk /\ m.hmacKey = hmacKey
      /\ m.shared = shared /\ m.ecPair = ecPair /\ m.outer = p.outer /\ m.envelope = p.envelope
      /\ m.ecSignature.envelope = p.inner /\ m.ecSignature.signer = cert /\ m.ecSignature.signed = p.signed
  BY <1>2
<1> HIDE DEF Whole
<1>10. CommonShape(m)
  BY <1>5, <1>6, <1>9 DEF CommonShape
<1>11. /\ m.outer = SignatureOf(m.pair, m.curve, <<m.pvk, m.hmacKey, m.shared>>)
       /\ m.ecSignature.signed = SignatureOf(m.ecPair, m.curve, <<m.shared, m.ecSignature.signer>>)
  BY <1>4, <1>5, <1>6, <1>9 DEF SignatureOf
<1>12. m.curve = m.ecSignature.signer.key.curve
  BY <1>9 DEF curve
<1> QED BY <1>1, <1>2, <1>7, <1>8, <1>9, <1>10, <1>11, <1>12 DEF AtShape

(***************************************************************************)
(* The inductive invariant                                                 *)
(***************************************************************************)
StationTypes ==
  /\ store \in [Handles -> Points \cup {NoKey}]
  /\ ec \in ecs \cup {NoEc}
  /\ fresh \in 1..(MaxKeys + 1)
  /\ waiting \in posted \cup {NoRequest}

Complete(m) ==
  /\ m.kind \in {"ec", "at"}
  /\ m.kind = "ec" => EcShape(m)
  /\ m.kind = "at" => AtShape(m)
PostedComplete == \A m \in posted : Complete(m)

\* An EC request was made with a pair that the store still holds under its id,
\* unless the id is a ticket's name.
MadeWithHeldKey == \A m \in posted : m.kind = "ec" => m.id \in Ids /\ StillUnder(m)

\* An EC certifies the pair of an EC request, and names the EA that issued it.
IssuedForRequested ==
  \A cert \in ecs : /\ cert.key \in Points
                    /\ \E m \in posted : m.kind = "ec" /\ m.pair = cert.key
                    /\ \E ea \in Eas : cert.ea = ea.name

\* An AT request names an EC that was issued.
SignedByIssued == \A m \in posted : m.kind = "at" => m.ecSignature.signer \in ecs

MessagesInv ==
  StationTypes /\ PostedComplete /\ MadeWithHeldKey /\ IssuedForRequested /\ SignedByIssued /\ NobodyLinks

(***************************************************************************)
(* The steps                                                               *)
(***************************************************************************)
\* store_keypair: what a handle holds after a pair was stored.
LEMMA StoresTyped ==
  ASSUME NEW old \in Points \cup {NoKey}, NEW pair \in Points, NEW k \in Stores(old, pair)
  PROVE  k \in {old, pair, NoKey}
BY DEF Stores, StoredAs

LEMMA NewPairTyped ==
  ASSUME fresh \in 1..(MaxKeys + 1), NEW curve \in Curves
  PROVE  NewPair(curve) \in Points
BY MessagesAssumption DEF NewPair, Points

\* NoKey is no point: it is on no curve.
LEMMA NoKeyIsNoPoint == NoKey \notin Points
BY DEF NoKey, Points, Curves

\* enrol: the pair that a complete request was made with is under its id after
\* the step, and no key is lost.
LEMMA EnrolMakes ==
  ASSUME MessagesInv, NEW id \in Ids, NEW curve \in Curves, NEW ea \in Eas, NEW fits \in BOOLEAN,
         Enrol(id, curve, ea, fits)
  PROVE  /\ store' \in [Handles -> Points \cup {NoKey}] /\ fresh' \in 1..(MaxKeys + 1)
         /\ KeysKept
         /\ UNCHANGED <<ec, ecs, knows>>
         /\ \E r : /\ Send(r)
                   /\ r # NoRequest => r.kind = "ec" /\ EcShape(r) /\ r.id \in Ids /\ store'[r.id] = r.pair
<1> DEFINE pub == IF store[id] # NoKey THEN store[id] ELSE NewPair(curve)
<1>0. id \in Handles
  BY DEF Handles
<1>2. store \in [Handles -> Points \cup {NoKey}] /\ fresh \in 1..(MaxKeys + 1) /\ MaxKeys \in Nat
  BY MessagesAssumption DEF MessagesInv, StationTypes
<1>3. pub \in Points
  BY <1>0, <1>2, NewPairTyped
<1>4. /\ store' \in [Handles -> Points \cup {NoKey}] /\ fresh' \in 1..(MaxKeys + 1)
      /\ store'[id] \in {pub, NoKey}
      /\ \A g \in Handles : store[g] # NoKey => store'[g] = store[g]
  <2>1. CASE store[id] # NoKey
    <3>1. store' = store /\ fresh' = fresh
      BY <2>1 DEF Enrol
    <3> QED BY <2>1, <3>1, <1>2
  <2>2. CASE store[id] = NoKey
    <3>1. PICK k \in Stores(NoKey, pub) :
            fresh <= MaxKeys /\ fresh' = fresh + 1 /\ store' = [store EXCEPT ![id] = k]
      BY <2>2 DEF Enrol
    <3>2. k \in {pub, NoKey}
      BY <1>3, <3>1, StoresTyped
    <3> HIDE DEF pub
    <3>3. k \in Points \cup {NoKey}
      BY <1>3, <3>2
    <3>6. store' \in [Handles -> Points \cup {NoKey}] /\ store'[id] = k
      BY <1>0, <1>2, <3>1, <3>3
    <3>4. fresh' \in 1..(MaxKeys + 1)
      BY <1>2, <3>1
    <3>5. \A g \in Handles : store[g] # NoKey => store'[g] = store[g]
      BY <1>2, <2>2, <3>1
    <3> QED BY <3>2, <3>4, <3>5, <3>6
  <2> QED BY <2>1, <2>2
<1>5. KeysKept
  BY <1>4 DEF KeysKept, Handles
<1>6. UNCHANGED <<ec, ecs, knows>>
  BY DEF Enrol
<1>7. \E r : /\ Send(r)
             /\ r # NoRequest => r.kind = "ec" /\ EcShape(r) /\ r.id \in Ids /\ store'[r.id] = r.pair
  <2>1. CASE RecordValid(curve, pub) /\ store'[id] # NoKey
    <3>1. PICK r \in EcRequests(id, curve, pub, store'[id], ea, fits) : Send(r)
      BY <2>1 DEF Enrol
    <3>2. store'[id] = pub
      BY <1>4, <2>1
    <3>3. r # NoRequest => r.kind = "ec" /\ r.id = id /\ r.pair = pub /\ EcShape(r)
      <4> HIDE DEF pub
      <4> QED BY <1>3, <3>1, <3>2, EcEncoded
    <3> HIDE DEF pub
    <3> QED BY <3>1, <3>2, <3>3
  <2>2. CASE ~(RecordValid(curve, pub) /\ store'[id] # NoKey)
    BY <2>2 DEF Enrol
  <2> QED BY <2>1, <2>2
<1>8. store' \in [Handles -> Points \cup {NoKey}] /\ fresh' \in 1..(MaxKeys + 1)
  BY <1>4
<1> HIDE DEF pub
<1> QED BY <1>5, <1>6, <1>7, <1>8

\* request-at touches no key but its ticket's, and what it sends names ec.cert.
LEMMA RequestAtMakes ==
  ASSUME MessagesInv, NEW id \in Ids, NEW given, NEW aa \in Aas, NEW ea \in Eas,
         NEW fits \in BOOLEAN, RequestAt(id, given, aa, ea, fits)
  PROVE  /\ store' \in [Handles -> Points \cup {NoKey}] /\ fresh' \in 1..(MaxKeys + 1)
         /\ KeysKept
         /\ UNCHANGED <<ec, ecs, knows>>
         /\ \E r : /\ Send(r)
                   /\ r # NoRequest => r.kind = "at" /\ AtShape(r) /\ r.ecSignature.signer \in ecs
<1> DEFINE h == AtOf[id]
           ecPair == store[id]
           curve == TicketCurve(ec, given)
<1>0. h \in Handles /\ id \in Handles
  BY DEF Handles
<1>1. ec \in ecs /\ ec.key \in Points
  BY DEF RequestAt, MessagesInv, StationTypes, IssuedForRequested
<1>2. curve = ec.key.curve /\ curve \in Curves
  BY <1>1 DEF TicketCurve, Points
<1>3. store \in [Handles -> Points \cup {NoKey}] /\ fresh \in 1..(MaxKeys + 1) /\ MaxKeys \in Nat
  BY MessagesAssumption DEF MessagesInv, StationTypes
<1>4. ecPair \in Points
  BY <1>0, <1>3 DEF RequestAt
<1>5. PICK k \in Stores(store[h], NewPair(curve)) :
        fresh <= MaxKeys /\ fresh' = fresh + 1 /\ store' = [store EXCEPT ![h] = k]
  BY DEF RequestAt
<1>6. k \in Points \cup {NoKey}
  <2>1. NewPair(curve) \in Points
    <3> HIDE DEF curve
    <3> QED BY <1>2, <1>3, NewPairTyped
  <2>2. store[h] \in Points \cup {NoKey}
    BY <1>0, <1>3
  <2> HIDE DEF curve, h
  <2>3. k \in {store[h], NewPair(curve), NoKey}
    BY <1>5, <2>1, <2>2, StoresTyped
  <2> QED BY <2>1, <2>2, <2>3
<1>7. /\ store' \in [Handles -> Points \cup {NoKey}] /\ fresh' \in 1..(MaxKeys + 1)
      /\ store'[h] = k
      /\ \A g \in Handles : g # h => store'[g] = store[g]
  <2> HIDE DEF h, curve
  <2> QED BY <1>0, <1>3, <1>5, <1>6
<1>8. KeysKept
  <2>1. IsTicketName(h)
    BY DEF IsTicketName
  <2>2. \A i \in Ids : i \in Handles
    BY DEF Handles
  <2> HIDE DEF h
  <2> QED BY <1>7, <2>1, <2>2 DEF KeysKept
<1>9. UNCHANGED <<ec, ecs, knows>>
  BY DEF RequestAt
<1>10. \E r : Send(r) /\ (r # NoRequest => r.kind = "at" /\ AtShape(r) /\ r.ecSignature.signer \in ecs)
  <2>1. CASE store'[h] = NoKey
    BY <2>1 DEF RequestAt
  <2>2. CASE store'[h] # NoKey
    <3>1. PICK hmacKey \in HmacKeys :
            \E r \in AtRequests(curve, store'[h], ecPair, ec, aa, ea, hmacKey, fits) : Send(r)
      BY <2>2 DEF RequestAt
    <3>2. PICK r \in AtRequests(curve, store'[h], ecPair, ec, aa, ea, hmacKey, fits) : Send(r)
      BY <3>1
    <3>3. store'[h] \in Points
      BY <1>6, <1>7, <2>2
    <3>4. r # NoRequest => r.kind = "at" /\ r.ecSignature.signer = ec /\ AtShape(r)
      <4>1. r \in AtRequests(ec.key.curve, store'[h], ecPair, ec, aa, ea, hmacKey, fits)
        BY <1>2, <3>2
      <4>2. ec.key.curve \in Curves
        BY <1>2
      <4> HIDE DEF h, ecPair, curve
      <4> QED BY <1>4, <3>3, <4>1, <4>2, AtEncoded
    <3> QED BY <1>1, <3>2, <3>4
  <2> QED BY <2>1, <2>2
<1> QED BY <1>7, <1>8, <1>9, <1>10

\* What posting a request preserves: the request is complete or there is none,
\* and it keeps to the two facts about its key and its EC.
LEMMA SendKeeps ==
  ASSUME MessagesInv, NEW r, Send(r), ecs' = ecs, KeysKept,
         r # NoRequest => /\ Complete(r)
                          /\ r.kind = "ec" => r.id \in Ids /\ store'[r.id] = r.pair
                          /\ r.kind = "at" => r.ecSignature.signer \in ecs
  PROVE  /\ waiting' \in posted' \cup {NoRequest}
         /\ PostedComplete' /\ MadeWithHeldKey' /\ IssuedForRequested' /\ SignedByIssued'
<1>1. waiting' = r /\ posted' = posted \cup ({r} \ {NoRequest})
  BY DEF Send
<1>2. waiting' \in posted' \cup {NoRequest}
  BY <1>1
<1>3. \A m \in posted' : m \in posted \/ (m = r /\ r # NoRequest)
  BY <1>1
<1>4. PostedComplete'
  <2>1. \A m \in posted' : Complete(m)
    BY <1>3 DEF MessagesInv, PostedComplete
  <2> QED BY <2>1 DEF PostedComplete, Complete, EcShape, AtShape, CommonShape
<1>5. MadeWithHeldKey'
  <2> SUFFICES ASSUME NEW m \in posted', m.kind = "ec"
               PROVE  m.id \in Ids /\ (store'[m.id] = m.pair \/ IsTicketName(m.id))
    BY DEF MadeWithHeldKey, StillUnder, IsTicketName
  <2>1. CASE m \in posted
    <3>1. m.id \in Ids /\ StillUnder(m) /\ m.pair \in Points
      BY <2>1 DEF MessagesInv, MadeWithHeldKey, PostedComplete, Complete, EcShape, CommonShape
    <3> QED BY <3>1, NoKeyIsNoPoint DEF KeysKept, StillUnder
  <2>2. CASE m = r /\ r # NoRequest
    BY <2>2
  <2> QED BY <1>3, <2>1, <2>2
<1>6. IssuedForRequested'
  BY <1>1 DEF MessagesInv, IssuedForRequested
<1>7. SignedByIssued'
  BY <1>3 DEF MessagesInv, SignedByIssued
<1> QED BY <1>2, <1>4, <1>5, <1>6, <1>7

\* The steps that leave the store and the requests alone.
LEMMA OthersKeep ==
  ASSUME MessagesInv, UNCHANGED <<store, posted>>, ecs \subseteq ecs'
  PROVE  PostedComplete' /\ MadeWithHeldKey' /\ SignedByIssued'
<1>1. PostedComplete'
  BY DEF MessagesInv, PostedComplete, Complete, EcShape, AtShape, CommonShape
<1>2. MadeWithHeldKey'
  BY DEF MessagesInv, MadeWithHeldKey, StillUnder, IsTicketName
<1>3. SignedByIssued'
  BY DEF MessagesInv, SignedByIssued
<1> QED BY <1>1, <1>2, <1>3

\* An EA issues an EC only for the pair that the request was made with: under
\* another curve of the same length the key in the request is nobody's.
LEMMA AcceptedKey ==
  ASSUME NEW m, EcShape(m), NEW ea \in Eas, EaAccepts(ea, m)
  PROVE  PointOf(m.pvk) = m.pair /\ m.pair.curve = m.curve
<1>1. m.outer.by = On(m.pair, m.curve)
  BY DEF EcShape, SignatureOf
<1>2. m.outer.by = PointOf(m.pvk)
  BY DEF EaAccepts, Verifies
<1>3. On(m.pair, m.curve) # NoKey
  BY DEF EcShape, CommonShape, On, NoKey, WireCurves
<1>4. m.pvk.label = m.curve /\ m.pvk.point = m.pair
  BY DEF EcShape, CommonShape
<1> QED BY <1>1, <1>2, <1>3, <1>4 DEF PointOf

\* A CA can open only what is sealed for it; EA and AA are two authorities.
LEMMA SealedForIts ==
  ASSUME NEW ca \in Eas \cup Aas, NEW e \in Envelopes(ca), e # NoEnvelope
  PROVE  e.to = ca.name
<1>1. e \in Sealed(ca, EncryptionKey(ca)) \cup Sealed(ca, NoKey) \cup {NoEnvelope}
  BY DEF Envelopes
<1> QED BY <1>1 DEF Sealed

LEMMA AaCannotOpenEcSignature ==
  ASSUME NEW m, AtShape(m), NEW aa \in Aas
  PROVE  ~Opens(aa, m.ecSignature.envelope)
<1>1. PICK ea \in Eas : m.ecSignature.envelope \in Envelopes(ea) \ {NoEnvelope}
  BY DEF AtShape
<1>2. m.ecSignature.envelope.to = ea.name
  BY <1>1, SealedForIts
<1>3. ea.name # aa.name
  BY MessagesAssumption
<1> QED BY <1>2, <1>3 DEF Opens

(***************************************************************************)
(* The theorems                                                            *)
(***************************************************************************)
LEMMA MessagesInvInit == RmInit => MessagesInv
<1> SUFFICES ASSUME RmInit PROVE MessagesInv
  OBVIOUS
<1>1. StationTypes
  BY MessagesAssumption DEF RmInit, StationTypes
<1> QED BY <1>1 DEF RmInit, MessagesInv, PostedComplete, MadeWithHeldKey, IssuedForRequested, SignedByIssued,
              NobodyLinks

LEMMA MessagesInvStep == MessagesInv /\ [RmNext]_rmVars => MessagesInv'
<1> SUFFICES ASSUME MessagesInv, [RmNext]_rmVars PROVE MessagesInv'
  OBVIOUS
<1>1. ASSUME NEW id \in Ids, NEW curve \in Curves, NEW ea \in Eas, NEW fits \in BOOLEAN,
             Enrol(id, curve, ea, fits)
      PROVE  MessagesInv'
  <2>1. /\ store' \in [Handles -> Points \cup {NoKey}] /\ fresh' \in 1..(MaxKeys + 1)
        /\ KeysKept
        /\ ec' = ec /\ ecs' = ecs /\ knows' = knows
        /\ \E r : /\ Send(r)
                  /\ r # NoRequest => r.kind = "ec" /\ EcShape(r) /\ r.id \in Ids /\ store'[r.id] = r.pair
    BY <1>1, EnrolMakes
  <2>2. PICK r : /\ Send(r)
                 /\ r # NoRequest => r.kind = "ec" /\ EcShape(r) /\ r.id \in Ids /\ store'[r.id] = r.pair
    BY <2>1
  <2>3. r # NoRequest => Complete(r) /\ r.kind # "at"
    BY <2>2 DEF Complete
  <2>4. /\ waiting' \in posted' \cup {NoRequest}
        /\ PostedComplete' /\ MadeWithHeldKey' /\ IssuedForRequested' /\ SignedByIssued'
    BY <2>1, <2>2, <2>3, SendKeeps
  <2> QED BY <2>1, <2>4 DEF MessagesInv, StationTypes, NobodyLinks
<1>2. ASSUME NEW id \in Ids, NEW curve, NEW aa \in Aas, NEW ea \in Eas, NEW fits \in BOOLEAN,
             RequestAt(id, curve, aa, ea, fits)
      PROVE  MessagesInv'
  <2>1. /\ store' \in [Handles -> Points \cup {NoKey}] /\ fresh' \in 1..(MaxKeys + 1)
        /\ KeysKept
        /\ ec' = ec /\ ecs' = ecs /\ knows' = knows
        /\ \E r : Send(r) /\ (r # NoRequest => r.kind = "at" /\ AtShape(r) /\ r.ecSignature.signer \in ecs)
    BY <1>2, RequestAtMakes
  <2>2. PICK r : Send(r) /\ (r # NoRequest => r.kind = "at" /\ AtShape(r) /\ r.ecSignature.signer \in ecs)
    BY <2>1
  <2>3. r # NoRequest => Complete(r) /\ r.kind # "ec"
    BY <2>2 DEF Complete
  <2>4. /\ waiting' \in posted' \cup {NoRequest}
        /\ PostedComplete' /\ MadeWithHeldKey' /\ IssuedForRequested' /\ SignedByIssued'
    BY <2>1, <2>2, <2>3, SendKeeps
  <2> QED BY <2>1, <2>4 DEF MessagesInv, StationTypes, NobodyLinks
<1>3. CASE GiveUp \/ TicketArrives
  <2>1. UNCHANGED <<store, ec, fresh, posted, ecs, knows>> /\ waiting' = NoRequest
    BY <1>3 DEF GiveUp, TicketArrives
  <2>2. PostedComplete' /\ MadeWithHeldKey' /\ SignedByIssued'
    BY <2>1, OthersKeep
  <2>3. IssuedForRequested'
    BY <2>1 DEF MessagesInv, IssuedForRequested
  <2> QED BY <2>1, <2>2, <2>3 DEF MessagesInv, StationTypes, NobodyLinks
<1>4. ASSUME NEW cert \in ecs, EcArrives(cert)
      PROVE  MessagesInv'
  <2>1. UNCHANGED <<store, fresh, posted, ecs, knows>> /\ waiting' = NoRequest /\ ec' = cert
    BY <1>4 DEF EcArrives
  <2>2. PostedComplete' /\ MadeWithHeldKey' /\ SignedByIssued'
    BY <2>1, OthersKeep
  <2>3. IssuedForRequested'
    BY <2>1 DEF MessagesInv, IssuedForRequested
  <2> QED BY <2>1, <2>2, <2>3 DEF MessagesInv, StationTypes, NobodyLinks
<1>5. ASSUME NEW m \in posted, NEW ea \in Eas, EaHandles(ea, m)
      PROVE  MessagesInv'
  <2> DEFINE issued == [key |-> PointOf(m.pvk), ea |-> ea.name]
  <2>1. /\ UNCHANGED <<store, ec, fresh, posted, waiting, knows>>
        /\ m.kind = "ec" /\ EaAccepts(ea, m) /\ ecs' = ecs \cup {issued}
    BY <1>5 DEF EaHandles
  <2>2. PostedComplete' /\ MadeWithHeldKey' /\ SignedByIssued'
    BY <2>1, OthersKeep
  <2>3. EcShape(m) /\ m.pair \in Points
    BY <2>1 DEF MessagesInv, PostedComplete, Complete, EcShape, CommonShape
  <2>4. issued.key = m.pair /\ issued.ea = ea.name
    BY <2>1, <2>3, AcceptedKey
  <2> HIDE DEF issued
  <2>6. IssuedForRequested'
    BY <2>1, <2>3, <2>4 DEF MessagesInv, IssuedForRequested
  <2> QED BY <2>1, <2>2, <2>6 DEF MessagesInv, StationTypes, NobodyLinks
<1>6. ASSUME NEW m \in posted, NEW aa \in Aas, NEW ea \in Eas, AaHandles(aa, ea, m)
      PROVE  MessagesInv'
  <2> DEFINE aes == m.ecSignature.envelope.aes
             byAa == [ca |-> aa.name, hmacKey |-> m.hmacKey, aes |-> aes, reads |-> ReadByAa(aa, m)]
             byEa == [ca |-> ea.name, hmacKey |-> m.hmacKey, aes |-> aes, reads |-> ReadByEa(ea, m)]
  <2>1. /\ UNCHANGED <<store, ec, fresh, posted, waiting, ecs>>
        /\ m.kind = "at" /\ knows' = knows \cup {byAa, byEa}
    BY <1>6 DEF AaHandles
  <2>2. PostedComplete' /\ MadeWithHeldKey' /\ SignedByIssued'
    BY <2>1, OthersKeep
  <2>3. IssuedForRequested'
    BY <2>1 DEF MessagesInv, IssuedForRequested
  <2>4. AtShape(m)
    BY <2>1 DEF MessagesInv, PostedComplete, Complete
  <2>5. byAa.ca = aa.name /\ ("ec" \in byAa.reads => byAa.aes = "zeros")
    BY <2>4, AaCannotOpenEcSignature DEF ReadByAa, CanRead
  <2>6. byEa.ca = ea.name /\ "key" \notin byEa.reads /\ "hmacKey" \notin byEa.reads
    BY DEF ReadByEa
  <2> HIDE DEF byAa, byEa
  <2>7. NobodyLinks'
    BY <2>1, <2>5, <2>6 DEF MessagesInv, NobodyLinks, Links
  <2> QED BY <2>1, <2>2, <2>3, <2>7 DEF MessagesInv, StationTypes
<1>7. CASE UNCHANGED rmVars
  BY <1>7 DEF rmVars, MessagesInv, StationTypes, PostedComplete, Complete, EcShape, AtShape, CommonShape,
              MadeWithHeldKey, IssuedForRequested, SignedByIssued, NobodyLinks, StillUnder, IsTicketName
<1>8. /\ \A arg \in CurveArgs : ParseCurve(arg) \in Curves
      /\ \A curve \in RecordCurves : curve \in Curves
  BY MessagesAssumption DEF ParseCurve, Curves
<1> QED BY <1>1, <1>2, <1>3, <1>4, <1>5, <1>6, <1>7, <1>8 DEF RmNext

\* The inductive invariant holds of every behaviour.
THEOREM MessagesInvariant == RmSpec => []MessagesInv
<1> QED BY MessagesInvInit, MessagesInvStep, PTL DEF RmSpec

\* RmTypeOK for every set of authorities and keys: what encode_ec_request and
\* encode_at_request let out is complete, and ec.cert is an EC that was issued.
THEOREM MessagesTypeCorrect == RmSpec => []RmTypeOK
<1>1. MessagesInv => RmTypeOK
  <2> SUFFICES ASSUME MessagesInv PROVE RmTypeOK
    OBVIOUS
  <2>1. ASSUME NEW m \in posted
        PROVE  /\ m.kind \in {"ec", "at"} /\ m.curve \in Curves /\ m.pair \in Points
               /\ m.pvk.label \in Curves /\ m.pvk.point \in Points
               /\ IsSignature(m.outer) /\ m.envelope.to \in {ca.name : ca \in Eas \cup Aas}
               /\ m.kind = "ec" => IsSignature(m.pop)
               /\ m.kind = "at" => IsSignature(m.ecSignature.signed)
    <3>1. Complete(m) /\ CommonShape(m)
      BY DEF MessagesInv, PostedComplete, Complete, EcShape, AtShape
    <3>2. m.curve \in Curves /\ m.pair \in Points
      BY <3>1 DEF CommonShape, WireCurves, Curves
    <3>3. ASSUME NEW pair \in Points, NEW data
          PROVE  IsSignature(SignatureOf(pair, m.curve, data))
      BY <3>2 DEF IsSignature, SignatureOf, On, Points
    <3>4. m.envelope.to \in {ca.name : ca \in Eas \cup Aas}
      <4>1. PICK ca \in Eas \cup Aas : m.envelope \in Envelopes(ca) \ {NoEnvelope}
        BY <3>1 DEF Complete, EcShape, AtShape
      <4> QED BY <4>1, SealedForIts
    <3>5. m.pvk.label = m.curve /\ m.pvk.point = m.pair
      BY <3>1 DEF CommonShape
    <3>6. CASE m.kind = "ec"
      <4>1. /\ m.pop = SignatureOf(m.pair, m.curve, <<m.pvk>>)
            /\ m.outer = SignatureOf(m.pair, m.curve, <<m.pvk, "pop">>)
        BY <3>1, <3>6 DEF Complete, EcShape
      <4>2. IsSignature(m.pop) /\ IsSignature(m.outer)
        BY <3>2, <3>3, <4>1
      <4> QED BY <3>2, <3>4, <3>5, <3>6, <4>2
    <3>7. CASE m.kind = "at"
      <4>1. /\ m.outer = SignatureOf(m.pair, m.curve, <<m.pvk, m.hmacKey, m.shared>>)
            /\ m.ecSignature.signed = SignatureOf(m.ecPair, m.curve, <<m.shared, m.ecSignature.signer>>)
            /\ m.ecPair \in Points
        BY <3>1, <3>7 DEF Complete, AtShape
      <4>2. IsSignature(m.outer) /\ IsSignature(m.ecSignature.signed)
        BY <3>2, <3>3, <4>1
      <4> QED BY <3>2, <3>4, <3>5, <3>7, <4>2
    <3> QED BY <3>1, <3>6, <3>7 DEF Complete
  <2>2. /\ StationTypes
        /\ \A cert \in ecs : cert.key \in Points /\ \E ea \in Eas : cert.ea = ea.name
    BY DEF MessagesInv, IssuedForRequested
  <2> QED BY <2>1, <2>2 DEF RmTypeOK, StationTypes
<1> QED BY <1>1, MessagesInvariant, PTL

\* SignaturesCarryTheirCurve: the label that build_asn_signature gives to every
\* P-384 signature is never wrong, whatever curves callers ask for.
THEOREM LabelsNeverLie == RmSpec => []SignaturesCarryTheirCurve
<1>1. MessagesInv => SignaturesCarryTheirCurve
  <2> SUFFICES ASSUME MessagesInv, NEW m \in posted
               PROVE  /\ m.outer.label = m.outer.by.curve
                      /\ m.kind = "ec" => m.pop.label = m.pop.by.curve
                      /\ m.kind = "at" => m.ecSignature.signed.label = m.ecSignature.signed.by.curve
    BY DEF SignaturesCarryTheirCurve
  <2>1. Complete(m)
    BY DEF MessagesInv, PostedComplete
  <2>2. ASSUME NEW pair, NEW curve, NEW data
        PROVE  SignatureOf(pair, curve, data).label = SignatureOf(pair, curve, data).by.curve
    BY DEF SignatureOf, On
  <2> QED BY <2>1, <2>2 DEF Complete, EcShape, AtShape
<1> QED BY <1>1, MessagesInvariant, PTL

\* CertifiedKeyHeld: no order of enrolments, curves, lost writes and late
\* answers leaves an ec.cert whose key was not enrolled under an id, nor takes
\* that key out of the store, except under an id that is a ticket's name.
THEOREM CertifiedKeysAreHeld == RmSpec => []CertifiedKeyHeld
<1>1. MessagesInv => CertifiedKeyHeld
  <2> SUFFICES ASSUME MessagesInv, ec # NoEc
               PROVE  \E m \in posted : /\ m.kind = "ec" /\ m.pair = ec.key
                                        /\ store[m.id] = m.pair \/ IsTicketName(m.id)
    BY DEF CertifiedKeyHeld
  <2>1. PICK m \in posted : m.kind = "ec" /\ m.pair = ec.key
    BY DEF MessagesInv, StationTypes, IssuedForRequested
  <2> QED BY <2>1 DEF MessagesInv, MadeWithHeldKey, StillUnder
<1> QED BY <1>1, MessagesInvariant, PTL

\* NobodyLinks: with any number of EAs and AAs, an EA learns which EC stands
\* behind a ticket's key only if the HMAC key could not be drawn, and an AA only
\* if the AES key of the ecSignature could not.
THEOREM TicketsAreUnlinkable == RmSpec => []NobodyLinks
<1>1. MessagesInv => NobodyLinks
  BY DEF MessagesInv
<1> QED BY <1>1, MessagesInvariant, PTL

\* What is sealed for a CA that can be encrypted for, that CA opens: names are
\* unique, so the CA named is the one whose key was taken.
LEMMA ReachableOpens ==
  ASSUME NEW ca \in Eas \cup Aas, NEW d \in Eas \cup Aas, NEW e \in Envelopes(ca), e # NoEnvelope,
         d.name = e.to, Reachable(d)
  PROVE  Opens(d, e)
<1>1. d = ca
  BY SealedForIts, MessagesAssumption
<1>2. CASE ca.enc # NoKey
  <2>1. e \in Sealed(ca, ca.enc)
    BY <1>2, MessagesAssumption DEF Envelopes, EncryptionKey, EncCurve
  <2> QED BY <1>1, <1>2, <2>1 DEF Opens, Sealed
<1>3. CASE ca.enc = NoKey
  <2>1. ca.ver.curve = "NistP256" /\ ca.ver # NoKey
    BY <1>1, <1>3 DEF Reachable, NoKey
  <2>2. e \in Sealed(ca, ca.ver)
    BY <1>3, <2>1 DEF Envelopes, EncryptionKey, EncCurve
  <2> QED BY <1>1, <1>3, <2>1, <2>2 DEF Opens, Sealed
<1> QED BY <1>2, <1>3

\* Signing and verifying with the same pair on its own curve.
LEMMA OwnCurveVerifies ==
  ASSUME NEW pair \in Points, NEW data
  PROVE  Verifies(SignatureOf(pair, pair.curve, data), pair, data)
BY DEF Verifies, SignatureOf, SignatureCurve, On, Points

\* MatchedRequestsAccepted: encoders and authorities agree, for every curve, CA
\* and order of events in which the key of a request lies on its curve.
THEOREM MatchedRequestsAreAccepted == RmSpec => []MatchedRequestsAccepted
<1>1. MessagesInv => MatchedRequestsAccepted
  <2> SUFFICES ASSUME MessagesInv, NEW m \in posted, m.pair.curve = m.curve
               PROVE  /\ m.kind = "ec" =>
                           \A ea \in Eas : ea.name = m.envelope.to /\ Reachable(ea) => EaAccepts(ea, m)
                      /\ m.kind = "at" /\ m.ecPair = m.ecSignature.signer.key =>
                           \A aa \in Aas, ea \in Eas :
                             /\ aa.name = m.envelope.to /\ Reachable(aa)
                             /\ ea.name = m.ecSignature.signer.ea /\ ea.name = m.shared.eaId /\ Reachable(ea)
                             => AaAccepts(aa, m)
    BY DEF MatchedRequestsAccepted
  <2>1. Complete(m)
    BY DEF MessagesInv, PostedComplete
  <2>2. ASSUME m.kind = "ec", NEW ea \in Eas, ea.name = m.envelope.to, Reachable(ea)
        PROVE  EaAccepts(ea, m)
    <3>1. EcShape(m)
      BY <2>1, <2>2 DEF Complete
    <3>2. Opens(ea, m.envelope)
      BY <2>2, <3>1, ReachableOpens DEF EcShape
    <3>3. PointOf(m.pvk) = m.pair /\ m.pair \in Points
      BY <3>1 DEF EcShape, CommonShape, PointOf
    <3> QED BY <3>1, <3>2, <3>3, OwnCurveVerifies DEF EaAccepts, EcShape
  <2>3. ASSUME m.kind = "at", m.ecPair = m.ecSignature.signer.key, NEW aa \in Aas, NEW ea \in Eas,
               aa.name = m.envelope.to, Reachable(aa),
               ea.name = m.ecSignature.signer.ea, ea.name = m.shared.eaId, Reachable(ea)
        PROVE  AaAccepts(aa, m)
    <3>1. AtShape(m)
      BY <2>1, <2>3 DEF Complete
    <3>2. Opens(aa, m.envelope)
      BY <2>3, <3>1, ReachableOpens DEF AtShape
    <3>3. PointOf(m.pvk) = m.pair /\ m.pair \in Points
      BY <3>1 DEF AtShape, CommonShape, PointOf
    <3>4. Verifies(m.outer, PointOf(m.pvk), <<m.pvk, m.hmacKey, m.shared>>)
      BY <3>1, <3>3, OwnCurveVerifies DEF AtShape
    <3>5. EaVouches(ea, m)
      <4>1. PICK d \in Eas : m.ecSignature.envelope \in Envelopes(d) \ {NoEnvelope} /\ m.shared.eaId = d.name
        BY <3>1 DEF AtShape
      <4>2. m.ecSignature.envelope.to = ea.name
        BY <2>3, <4>1, SealedForIts
      <4>3. Opens(ea, m.ecSignature.envelope)
        BY <2>3, <4>1, <4>2, ReachableOpens
      <4>4. m.ecSignature.signer \in ecs
        BY <2>3 DEF MessagesInv, SignedByIssued
      <4>5. Verifies(m.ecSignature.signed, m.ecSignature.signer.key, <<m.shared, m.ecSignature.signer>>)
        <5>1. m.ecPair \in Points /\ m.curve = m.ecPair.curve
          BY <2>3, <3>1 DEF AtShape
        <5>2. m.ecSignature.signed = SignatureOf(m.ecPair, m.ecPair.curve, <<m.shared, m.ecSignature.signer>>)
          BY <3>1, <5>1 DEF AtShape
        <5> QED BY <2>3, <5>1, <5>2, OwnCurveVerifies
      <4> QED BY <2>3, <4>3, <4>4, <4>5 DEF EaVouches
    <3>6. m.shared.keyTag = KeyTag(m.hmacKey, m.pvk)
      BY <3>1 DEF AtShape
    <3> QED BY <3>2, <3>4, <3>5, <3>6 DEF AaAccepts
  <2> QED BY <2>2, <2>3
<1> QED BY <1>1, MessagesInvariant, PTL
=============================================================================
