----------------------------- MODULE TrustChain -----------------------------
(***************************************************************************)
(* TrustChain: the store of certificates (certs_, keyed by HashedId8) and  *)
(* validate_chain, which decides over the store, the revocation store and  *)
(* the clock whether a certificate chains to a self-signed root.           *)
(*                                                                         *)
(* A certificate is a value; Info gives the fields that from_coer decoded. *)
(* Its signature is abstracted to the certificate whose key made it: the   *)
(* signed digest covers the issuer's encoding as well, so only that very   *)
(* certificate verifies it.                                                *)
(***************************************************************************)
EXTENDS RevocationStore, Sequences

CONSTANTS
  NoCert,  \* "no certificate": no issuer, undecodable bytes, a bad signature
  Info,    \* Certs -> [issuer, selfSigned, signer, start, duration]
  Labels,  \* the labels a caller gives to certificates
  Files    \* directory entries of a trust directory: [cert, label, isCert]

InfoType == [issuer : Certs \cup {NoCert}, selfSigned : BOOLEAN,
             signer : Certs \cup {NoCert}, start : Nat, duration : Nat]
FileType == [cert : Certs \cup {NoCert}, label : Labels, isCert : BOOLEAN]

ASSUME CertAssumption ==
  /\ NoCert \notin Certs
  /\ Info \in [Certs -> InfoType]
  /\ Files \subseteq FileType

VARIABLE certs  \* certs_: a function from the stored certificates to their labels

tcVars == <<certs, revVars>>

TcTypeOK ==
  /\ DOMAIN certs \subseteq Certs
  /\ \A c \in DOMAIN certs : certs[c] \in Labels
  /\ RevTypeOK

TcInit == certs = [c \in {} |-> NoCert] /\ RevInit

(***************************************************************************)
(* The store                                                               *)
(***************************************************************************)
Bug_AddEvictsIssuer(store, c, label) ==
  [x \in (DOMAIN store \ {Info[c].issuer}) \cup {c} |-> IF x = c THEN label ELSE store[x]]

\* add_cert: the new entry replaces one of the same HashedId8, label included.
Add(store, c, label) ==
  [x \in DOMAIN store \cup {c} |-> IF x = c THEN label ELSE store[x]]

Bug_LoadsUndecodable(dir) == {f \in dir : f.isCert}

\* The *.cert files of a directory that are read and decoded.
Loadable(dir) == {f \in dir : f.isCert /\ f.cert # NoCert}

\* load_from_directory adds the files in the unspecified order of
\* directory_iterator: of two files with one certificate either may be last.
Loads(dir) ==
  {loaded \in [{f.cert : f \in Loadable(dir)} -> {f.label : f \in Loadable(dir)}] :
     \A c \in DOMAIN loaded : \E f \in Loadable(dir) : f.cert = c /\ f.label = loaded[c]}

Merge(loaded, store) ==
  [x \in DOMAIN loaded \cup DOMAIN store |->
     IF x \in DOMAIN loaded THEN loaded[x] ELSE store[x]]

(***************************************************************************)
(* validate_chain                                                          *)
(***************************************************************************)
Bug_EndInclusive(c, t) ==
  Info[c].duration # 0 /\ t >= Info[c].start /\ t <= Info[c].start + Info[c].duration

\* CertInfo::valid_at: start inclusive, end exclusive, no duration is expired.
ValidAt(c, t) ==
  /\ Info[c].duration # 0
  /\ t >= Info[c].start
  /\ t < Info[c].start + Info[c].duration

\* verify_cert_signature.
VerifyCertSignature(c, issuer) == Info[c].signer = issuer

Bug_NoCaRevocation(store, rev, c, t) ==
  LET aa == Info[c].issuer
      rca == Info[aa].issuer
  IN /\ ~Info[c].selfSigned /\ ValidAt(c, t)
     /\ aa \in DOMAIN store /\ ValidAt(aa, t)
     /\ VerifyCertSignature(c, aa) /\ ~IsRevoked(rev, aa, c)
     /\ \/ Info[aa].selfSigned /\ VerifyCertSignature(aa, aa)
        \/ /\ ~Info[aa].selfSigned
           /\ rca \in DOMAIN store /\ ValidAt(rca, t)
           /\ VerifyCertSignature(aa, rca)
           /\ Info[rca].selfSigned /\ VerifyCertSignature(rca, rca)

\* The checks on the root, which vouches for itself.
RootAccepted(rev, root) == ~IsRevoked(rev, root, root) /\ VerifyCertSignature(root, root)

\* TrustChain::validate_chain: subject, issuing CA and root, the CA being
\* the root itself when it is self-signed.
ValidateChain(store, rev, c, t) ==
  LET aa == Info[c].issuer
      rca == Info[aa].issuer
  IN /\ ~Info[c].selfSigned
     /\ ValidAt(c, t)
     /\ aa \in DOMAIN store
     /\ ValidAt(aa, t)
     /\ VerifyCertSignature(c, aa)
     /\ ~IsRevoked(rev, aa, c)
     /\ IF Info[aa].selfSigned
          THEN RootAccepted(rev, aa)
          ELSE /\ rca \in DOMAIN store
               /\ ValidAt(rca, t)
               /\ VerifyCertSignature(aa, rca)
               /\ ~IsRevoked(rev, rca, aa)
               /\ Info[rca].selfSigned
               /\ RootAccepted(rev, rca)

\* The certificates validate_chain accepts in the current state.
Accepted == {c \in Certs : ValidateChain(certs, revoked, c, now)}

(***************************************************************************)
(* The operations                                                          *)
(***************************************************************************)
AddCert(c, label) == certs' = Add(certs, c, label) /\ UNCHANGED revVars

LoadFromDirectory(dir) ==
  /\ \E loaded \in Loads(dir) : certs' = Merge(loaded, certs)
  /\ UNCHANGED revVars

Revoke(crl) == ApplyCrl(crl) /\ UNCHANGED certs

TimePasses == Tick /\ UNCHANGED certs

TcNext ==
  \/ \E c \in Certs, label \in Labels : AddCert(c, label)
  \/ \E dir \in SUBSET Files : LoadFromDirectory(dir)
  \/ \E crl \in Published : Revoke(crl)
  \/ TimePasses

TcSpec == TcInit /\ [][TcNext]_tcVars

(***************************************************************************)
(* Properties                                                              *)
(***************************************************************************)

\* What a chain of trust is, apart from how validate_chain walks it: each
\* certificate is signed by the next one, which is stored, in its validity
\* period and has not revoked it; the last one is self-signed.
InPeriod(c, t) == t \in Info[c].start..(Info[c].start + Info[c].duration - 1)

Link(store, rev, c, issuer, t) ==
  /\ issuer \in DOMAIN store
  /\ InPeriod(c, t) /\ InPeriod(issuer, t)
  /\ Info[c].signer = issuer
  /\ c \notin rev[issuer]

IsTrustPath(path, store, rev, t) ==
  LET n == Len(path) IN
  /\ n \in 2..3
  /\ \A i \in 1..n : Info[path[i]].selfSigned <=> i = n
  /\ \A i \in 1..(n - 1) : /\ Info[path[i]].issuer = path[i + 1]
                           /\ Link(store, rev, path[i], path[i + 1], t)
  /\ Link(store, rev, path[n], path[n], t)

PathsFrom(c, S) == {<<c, ca>> : ca \in S} \cup {<<c, ca, root>> : ca, root \in S}

\* validate_chain accepts exactly the certificates with a chain of trust of one
\* or two issuers: one early return more or less would change the verdict of
\* some expired, revoked, wrongly signed, missing or too deep chain.
VerdictIsTrustPath ==
  Accepted = {c \in Certs : \E path \in PathsFrom(c, DOMAIN certs) :
                           IsTrustPath(path, certs, revoked, now)}

\* A CA that its root revoked, and a root that revoked itself, vouch for nobody:
\* the verdict reaches every certificate below, though their own issuers' CRLs
\* say nothing of them ("The CRL may contain the revoked certificate of the
\* Root CA").
RevokedCaVouchesForNobody ==
  \A c \in Accepted :
    LET ca == Info[c].issuer
        root == IF Info[ca].selfSigned THEN ca ELSE Info[ca].issuer
    IN ca \notin revoked[root] /\ root \notin revoked[root]

\* Learning a certificate never costs the station one that validates: adding,
\* re-adding under another label or loading a directory only lets more chains
\* be found.
LearningKeepsVerdicts ==
  [][revoked' = revoked /\ now' = now /\ certs' # certs => Accepted \subseteq Accepted']_tcVars

\* "a CRL only speaks for the CA that signed it": one list changes the set of
\* one issuer, and so the verdict on certificates whose chain passes through
\* that issuer and on no others.
CrlSpeaksForItsIssuer ==
  [][certs' = certs /\ now' = now /\ revoked' # revoked =>
       LET turned == (Accepted \ Accepted') \cup (Accepted' \ Accepted) IN
       \E i \in Certs :
         /\ \A j \in Certs \ {i} : revoked'[j] = revoked[j]
         /\ \A c \in turned : i \in {Info[c].issuer, Info[Info[c].issuer].issuer}]_tcVars
=============================================================================
