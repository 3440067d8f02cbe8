---------------------------- MODULE MCPkiClient -----------------------------
(***************************************************************************)
(* Two TLMs (the second succeeds the first), two RCAs with an EA and an AA *)
(* each, and the lists they sign.  The CTL of the first RCA names the      *)
(* distribution centre of the second; one ECTL repeats the first RCA and   *)
(* lists an EA and an AA itself.  The second RCA's CAs have no address.    *)
(***************************************************************************)
EXTENDS PkiClient

CONSTANTS t1, t2, r1, r2, e1, a1, e2, a2, ec1, atLate

MCCas == {t1, t2, r1, r2, e1, a1, e2, a2}
MCCerts == MCCas \cup {ec1, atLate}

Root(c) == [issuer |-> NoCert, selfSigned |-> TRUE, signer |-> c, start |-> 0, duration |-> 9]
Issued(i, from, len) ==
  [issuer |-> i, selfSigned |-> FALSE, signer |-> i, start |-> from, duration |-> len]

MCInfo ==
  [c \in MCCerts |->
     CASE c \in {t1, t2, r1, r2} -> Root(c)
       [] c = e1 -> Issued(r1, 0, 9)
       [] c = a1 -> Issued(r1, 0, 2)
       [] c \in {e2, a2} -> Issued(r2, 0, 9)
       [] c = ec1 -> Issued(e1, 0, 9)
       [] c = atLate -> Issued(a1, 1, 9)]

MCCrls ==
  {[issuer |-> r1, thisUpdate |-> 1, nextUpdate |-> 1, entries |-> {a1}],
   [issuer |-> r2, thisUpdate |-> 0, nextUpdate |-> 0, entries |-> {r2}]}

MCEctls ==
  {[signer |-> t1, nextUpdate |-> 0, rcas |-> <<r1, r2>>, eas |-> <<>>, aas |-> <<>>,
    dcs |-> <<[url |-> "dc1", serves |-> {r1}]>>],
   [signer |-> t2, nextUpdate |-> 0, rcas |-> <<r1, r1, r1>>, eas |-> <<[cert |-> e2, url |-> ""]>>,
    aas |-> <<[cert |-> a2, url |-> "aa2"]>>, dcs |-> <<>>],
   [signer |-> t2, nextUpdate |-> 0, rcas |-> <<>>, eas |-> <<>>, aas |-> <<>>, dcs |-> <<>>]}

MCCtls ==
  {[signer |-> r1, nextUpdate |-> 0, rcas |-> <<>>, eas |-> <<[cert |-> e1, url |-> "ea1"]>>,
    aas |-> <<[cert |-> a1, url |-> "aa1"]>>,
    dcs |-> <<[url |-> "dc2", serves |-> {r2}], [url |-> "dc1", serves |-> {r1, r2}]>>],
   [signer |-> r2, nextUpdate |-> 1, rcas |-> <<r1>>, eas |-> <<[cert |-> e2, url |-> ""]>>,
    aas |-> <<[cert |-> a2, url |-> ""]>>, dcs |-> <<>>]}

MCUrls == {"tlm", "dc1", "dc2", "ea0", "ea1", "aa1", "aa2"}
MCNames == {"ea", "aa"}
MCLabels == ClientLabels \cup {"rca_file", "aa_file"}

MCFiles ==
  {[cert |-> r1, label |-> "rca_file", isCert |-> TRUE],
   [cert |-> e1, label |-> "ea", isCert |-> TRUE],
   [cert |-> a1, label |-> "aa_file", isCert |-> TRUE]}
DiscoveryFiles == {f \in MCFiles : f.cert = e1}
NoLists == {}
NoCerts == {}
MCEndCerts == {ec1, atLate}

\* The part of the PKI that the credential requests are checked with: one
\* hierarchy in the trust directory, and a root the client does not know, with
\* a key it cannot read.
CredentialCerts == {r1, r2, e1, a1} \cup MCEndCerts
CredentialInfo ==
  [c \in CredentialCerts |-> IF c = r2 THEN [MCInfo[c] EXCEPT !.signer = NoCert] ELSE MCInfo[c]]
=============================================================================
