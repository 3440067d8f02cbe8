-------------------------- MODULE TrustChainProofs --------------------------
(***************************************************************************)
(* Proofs about the trust store and validate_chain, for every PKI: every   *)
(* set of certificates, whatever their issuers, signatures and validity,   *)
(* every set of CRLs and every trust directory.                            *)
(***************************************************************************)
EXTENDS TrustChain, TLAPS

\* A loaded directory only extends the store.
LEMMA MergeExtends ==
  ASSUME NEW store, NEW loaded
  PROVE  DOMAIN Merge(loaded, store) = DOMAIN loaded \cup DOMAIN store
BY DEF Merge

\* What load_from_directory finds are certificates under labels of its files.
LEMMA LoadsTyped ==
  ASSUME NEW dir \in SUBSET Files, NEW loaded \in Loads(dir)
  PROVE  DOMAIN loaded \subseteq Certs /\ \A c \in DOMAIN loaded : loaded[c] \in Labels
BY CertAssumption DEF Loads, Loadable, FileType

\* The trust store and the revocation store keep their types.
THEOREM TcTypeCorrect == TcSpec => []TcTypeOK
<1>. USE CrlAssumption, CertAssumption
<1>1. TcInit => TcTypeOK
  BY DEF TcInit, RevInit, TcTypeOK, RevTypeOK
<1>2. TcTypeOK /\ [TcNext]_tcVars => TcTypeOK'
  <2>. SUFFICES ASSUME TcTypeOK, [TcNext]_tcVars PROVE TcTypeOK'
    OBVIOUS
  <2>. USE DEF TcTypeOK, RevTypeOK
  <2>1. ASSUME NEW c \in Certs, NEW label \in Labels, AddCert(c, label)
        PROVE  TcTypeOK'
    BY <2>1 DEF AddCert, Add, revVars
  <2>2. ASSUME NEW dir \in SUBSET Files, LoadFromDirectory(dir)
        PROVE  TcTypeOK'
    <3>1. PICK loaded \in Loads(dir) : certs' = Merge(loaded, certs)
      BY <2>2 DEF LoadFromDirectory
    <3>2. DOMAIN loaded \subseteq Certs /\ \A c \in DOMAIN loaded : loaded[c] \in Labels
      BY LoadsTyped
    <3>. QED
      BY <2>2, <3>1, <3>2 DEF LoadFromDirectory, Merge, revVars
  <2>3. ASSUME NEW crl \in Published, Revoke(crl)
        PROVE  TcTypeOK'
    <3>1. crl.issuer \in Certs /\ crl.entries \in SUBSET Certs /\ crl.thisUpdate \in Nat
      BY DEF Published, CrlType
    <3>. QED
      BY <2>3, <3>1 DEF Revoke, ApplyCrl, Applied
  <2>4. CASE TimePasses
    BY <2>4 DEF TimePasses, Tick
  <2>5. CASE UNCHANGED tcVars
    BY <2>5 DEF tcVars, revVars
  <2>. QED
    BY <2>1, <2>2, <2>3, <2>4, <2>5 DEF TcNext
<1>. QED
  BY <1>1, <1>2, PTL DEF TcSpec

\* valid_at is membership in the validity period, which is empty when the
\* duration is zero.
LEMMA ValidityPeriod ==
  ASSUME TcTypeOK
  PROVE  \A c \in Certs : ValidAt(c, now) <=> InPeriod(c, now)
BY CertAssumption, CrlAssumption DEF TcTypeOK, RevTypeOK, InfoType, ValidAt, InPeriod

\* validate_chain finds a chain of trust for every certificate it accepts.
LEMMA AcceptedHasPath ==
  ASSUME TcTypeOK, NEW c \in Certs, ValidateChain(certs, revoked, c, now)
  PROVE  \E path \in PathsFrom(c, DOMAIN certs) : IsTrustPath(path, certs, revoked, now)
<1>. DEFINE ca == Info[c].issuer
            root == Info[ca].issuer
<1>. USE DEF ValidateChain, RootAccepted, VerifyCertSignature, IsRevoked
<1>0. /\ \A x \in Certs : ValidAt(x, now) <=> InPeriod(x, now)
      /\ DOMAIN certs \subseteq Certs
  BY ValidityPeriod DEF TcTypeOK
<1>1. CASE Info[ca].selfSigned
  <2>1. IsTrustPath(<<c, ca>>, certs, revoked, now)
    BY <1>0, <1>1 DEF IsTrustPath, Link
  <2>. QED
    BY <2>1, <1>1 DEF PathsFrom
<1>2. CASE ~Info[ca].selfSigned
  <2>1. /\ ~Info[c].selfSigned /\ Info[root].selfSigned
        /\ Link(certs, revoked, c, ca, now)
        /\ Link(certs, revoked, ca, root, now)
        /\ Link(certs, revoked, root, root, now)
    BY <1>0, <1>2 DEF Link
  <2>. DEFINE p == <<c, ca, root>>
  <2>2. Len(p) = 3 /\ p[1] = c /\ p[2] = ca /\ p[3] = root
    OBVIOUS
  <2>3. \A i \in 1..3 : Info[p[i]].selfSigned <=> i = 3
    BY <1>2, <2>1, <2>2
  <2>4. \A i \in 1..2 : /\ Info[p[i]].issuer = p[i + 1]
                        /\ Link(certs, revoked, p[i], p[i + 1], now)
    BY <2>1, <2>2
  <2>5. Link(certs, revoked, p[3], p[3], now)
    BY <2>1, <2>2
  <2>6. IsTrustPath(p, certs, revoked, now)
    <3>. HIDE DEF p
    <3>. QED
      BY <2>2, <2>3, <2>4, <2>5 DEF IsTrustPath
  <2>. QED
    BY <2>6, <1>2 DEF PathsFrom
<1>. QED
  BY <1>1, <1>2

\* validate_chain accepts every certificate that has a chain of trust.
LEMMA PathIsAccepted ==
  ASSUME TcTypeOK, NEW c \in Certs, NEW path \in PathsFrom(c, DOMAIN certs),
         IsTrustPath(path, certs, revoked, now)
  PROVE  ValidateChain(certs, revoked, c, now)
<1>. USE DEF ValidateChain, RootAccepted, VerifyCertSignature, IsRevoked
<1>0. /\ \A x \in Certs : ValidAt(x, now) <=> InPeriod(x, now)
      /\ DOMAIN certs \subseteq Certs
  BY ValidityPeriod DEF TcTypeOK
<1>1. ASSUME NEW ca \in DOMAIN certs, path = <<c, ca>>
      PROVE  ValidateChain(certs, revoked, c, now)
  <2>1. /\ ~Info[c].selfSigned /\ Info[ca].selfSigned
        /\ Info[c].issuer = ca
        /\ Link(certs, revoked, c, ca, now)
        /\ Link(certs, revoked, ca, ca, now)
    BY <1>1 DEF IsTrustPath
  <2>. QED
    BY <1>0, <2>1 DEF Link
<1>2. ASSUME NEW ca \in DOMAIN certs, NEW root \in DOMAIN certs, path = <<c, ca, root>>
      PROVE  ValidateChain(certs, revoked, c, now)
  <2>1. /\ ~Info[c].selfSigned /\ ~Info[ca].selfSigned /\ Info[root].selfSigned
        /\ Info[c].issuer = ca /\ Info[ca].issuer = root
        /\ Link(certs, revoked, c, ca, now)
        /\ Link(certs, revoked, ca, root, now)
        /\ Link(certs, revoked, root, root, now)
    BY <1>2 DEF IsTrustPath
  <2>. QED
    BY <1>0, <2>1 DEF Link
<1>. QED
  BY <1>1, <1>2 DEF PathsFrom

\* For every PKI, validate_chain decides exactly whether a certificate has a
\* chain of trust.
THEOREM VerdictCorrect == TcSpec => []VerdictIsTrustPath
<1>1. TcTypeOK => VerdictIsTrustPath
  BY AcceptedHasPath, PathIsAccepted DEF VerdictIsTrustPath, Accepted
<1>. QED
  BY <1>1, TcTypeCorrect, PTL

\* For every PKI, no certificate below a revoked CA or a revoked root validates.
THEOREM RevocationReachesDown == TcSpec => []RevokedCaVouchesForNobody
<1>1. TcTypeOK => RevokedCaVouchesForNobody
  BY DEF RevokedCaVouchesForNobody, Accepted, ValidateChain, RootAccepted, IsRevoked
<1>. QED
  BY <1>1, TcTypeCorrect, PTL

\* A larger store accepts at least as much, all else being equal.
LEMMA LargerStoreAcceptsMore ==
  ASSUME NEW small, NEW large, DOMAIN small \subseteq DOMAIN large,
         NEW rev, NEW c, NEW t, ValidateChain(small, rev, c, t)
  PROVE  ValidateChain(large, rev, c, t)
BY DEF ValidateChain

\* Only learning changes the certificates in the store, and it adds to them.
LEMMA StoreGrows ==
  ASSUME [TcNext]_tcVars
  PROVE  DOMAIN certs \subseteq DOMAIN certs'
<1>1. ASSUME NEW c \in Certs, NEW label \in Labels, AddCert(c, label)
      PROVE  DOMAIN certs \subseteq DOMAIN certs'
  BY <1>1 DEF AddCert, Add
<1>2. ASSUME NEW dir \in SUBSET Files, LoadFromDirectory(dir)
      PROVE  DOMAIN certs \subseteq DOMAIN certs'
  <2>1. PICK loaded \in Loads(dir) : certs' = Merge(loaded, certs)
    BY <1>2 DEF LoadFromDirectory
  <2>. QED
    BY <2>1, MergeExtends
<1>3. CASE \E crl \in Published : Revoke(crl)
  BY <1>3 DEF Revoke
<1>4. CASE TimePasses
  BY <1>4 DEF TimePasses
<1>5. CASE UNCHANGED tcVars
  BY <1>5 DEF tcVars
<1>. QED
  BY <1>1, <1>2, <1>3, <1>4, <1>5 DEF TcNext

\* For every PKI, learning certificates never turns an accepted one away.
THEOREM LearningIsSafe == TcSpec => LearningKeepsVerdicts
<1>1. [TcNext]_tcVars =>
        [revoked' = revoked /\ now' = now /\ certs' # certs => Accepted \subseteq Accepted']_tcVars
  <2>. SUFFICES ASSUME [TcNext]_tcVars, revoked' = revoked, now' = now
               PROVE  Accepted \subseteq Accepted'
    OBVIOUS
  <2>. QED
    BY StoreGrows, LargerStoreAcceptsMore DEF Accepted
<1>. QED
  BY <1>1, PTL DEF TcSpec, LearningKeepsVerdicts

\* For every PKI, a revoked certificate is reinstated only on the word of a
\* list of its issuer that is in date.
THEOREM StaleListsReinstateNobody == TcSpec => ReinstatedOnlyByListInDate
<1>. DEFINE OnItsWord(i) ==
              \E crl \in Crls : /\ crl.issuer = i /\ crl.entries = revoked'[i]
                                /\ crl.nextUpdate = 0 \/ now <= crl.nextUpdate
            Reinstated == \A i \in Certs : revoked[i] \subseteq revoked'[i] \/ OnItsWord(i)
<1>1. TcTypeOK /\ [TcNext]_tcVars => [Reinstated]_revVars
  <2>. SUFFICES ASSUME TcTypeOK, [TcNext]_tcVars
               PROVE  Reinstated
    OBVIOUS
  <2>1. ASSUME NEW i \in Certs, ~(revoked[i] \subseteq revoked'[i])
        PROVE  OnItsWord(i)
    <3>1. PICK crl \in Published : Revoke(crl)
      BY <2>1 DEF TcNext, AddCert, LoadFromDirectory, TimePasses, Tick, tcVars, revVars
    <3>2. crl \in Crls /\ crl.nextUpdate \in Nat /\ crl.issuer \in Certs
      BY CrlAssumption DEF Published, CrlType
    <3>3. CrlInDate(crl, now) /\ revoked' = Applied(revoked, crl)
      BY <2>1, <3>1 DEF Revoke, ApplyCrl
    <3>4. crl.issuer = i /\ crl.entries = revoked'[i]
      BY <2>1, <3>2, <3>3 DEF Applied, TcTypeOK, RevTypeOK
    <3>5. crl.nextUpdate = 0 \/ now <= crl.nextUpdate
      BY <3>2, <3>3 DEF CrlInDate, TcTypeOK, RevTypeOK
    <3>. QED
      BY <3>2, <3>4, <3>5
  <2>. HIDE DEF OnItsWord
  <2>. QED
    BY <2>1
<1>. QED
  BY <1>1, TcTypeCorrect, PTL DEF TcSpec, ReinstatedOnlyByListInDate

\* The verdict on a certificate looks at the revocations of its issuer and of
\* its issuer's issuer only.
LEMMA VerdictReadsTwoIssuers ==
  ASSUME NEW c, NEW t, NEW store, NEW rev, NEW other,
         other[Info[c].issuer] = rev[Info[c].issuer],
         Info[Info[c].issuer].issuer \in DOMAIN store =>
           other[Info[Info[c].issuer].issuer] = rev[Info[Info[c].issuer].issuer]
  PROVE  ValidateChain(store, rev, c, t) <=> ValidateChain(store, other, c, t)
BY DEF ValidateChain, RootAccepted, IsRevoked

\* For every PKI and every CRL, a list changes the revocations of its issuer
\* and the verdicts on the certificates below that issuer, and nothing else.
THEOREM CrlsSpeakForTheirIssuers == TcSpec => CrlSpeaksForItsIssuer
<1>. DEFINE turned == (Accepted \ Accepted') \cup (Accepted' \ Accepted)
            Speaks == \E i \in Certs :
              /\ \A j \in Certs \ {i} : revoked'[j] = revoked[j]
              /\ \A c \in turned : i \in {Info[c].issuer, Info[Info[c].issuer].issuer}
<1>1. TcTypeOK /\ [TcNext]_tcVars =>
        [certs' = certs /\ now' = now /\ revoked' # revoked => Speaks]_tcVars
  <2>. SUFFICES ASSUME TcTypeOK, [TcNext]_tcVars, certs' = certs, now' = now, revoked' # revoked
               PROVE  Speaks
    BY Zenon
  <2>1. PICK crl \in Published : Revoke(crl)
    BY DEF TcNext, AddCert, LoadFromDirectory, TimePasses, Tick, tcVars, revVars
  <2>2. crl.issuer \in Certs
    BY CrlAssumption DEF Published, CrlType
  <2>3. \A j \in Certs \ {crl.issuer} : revoked'[j] = revoked[j]
    BY <2>1, <2>2 DEF Revoke, ApplyCrl, Applied, TcTypeOK, RevTypeOK
  <2>4. ASSUME NEW c \in turned, crl.issuer \notin {Info[c].issuer, Info[Info[c].issuer].issuer}
        PROVE  FALSE
    <3>. DEFINE aa == Info[c].issuer
                rca == Info[aa].issuer
    <3>1. c \in Certs /\ DOMAIN certs \subseteq Certs
      BY DEF Accepted, TcTypeOK
    <3>2. aa \in DOMAIN certs
      <4>1. ValidateChain(certs, revoked, c, now) \/ ValidateChain(certs, revoked', c, now)
        BY DEF Accepted
      <4>. QED
        BY <4>1 DEF ValidateChain
    <3>3. revoked'[aa] = revoked[aa] /\ (rca \in DOMAIN certs => revoked'[rca] = revoked[rca])
      BY <2>3, <2>4, <3>1, <3>2
    <3>4. ValidateChain(certs, revoked, c, now) <=> ValidateChain(certs, revoked', c, now)
      BY <3>3, VerdictReadsTwoIssuers
    <3>. QED
      BY <3>1, <3>4 DEF Accepted
  <2>. HIDE DEF turned
  <2>. QED
    BY <2>2, <2>3, <2>4
<1>. QED
  BY <1>1, TcTypeCorrect, PTL DEF TcSpec, CrlSpeaksForItsIssuer
=============================================================================
