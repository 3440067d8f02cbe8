---------------------------- MODULE MCTrustChain ----------------------------
(***************************************************************************)
(* A small PKI with one certificate per way a chain can be good or bad:    *)
(* two roots, CAs below them, end-entity certificates, a CA whose          *)
(* signature does not verify, a CA below a CA (a chain that is too deep),  *)
(* certificates that start late, end early and have no duration.           *)
(***************************************************************************)
EXTENDS TrustChain

CONSTANTS r1, r2, ca1, ca2, badCa, subCa, at, ec, direct, noDuration, atBad, atDeep

MCCerts == {r1, r2, ca1, ca2, badCa, subCa, at, ec, direct, noDuration, atBad, atDeep}

Root(c) == [issuer |-> NoCert, selfSigned |-> TRUE, signer |-> c, start |-> 0, duration |-> 9]
Issued(i, from, len) ==
  [issuer |-> i, selfSigned |-> FALSE, signer |-> i, start |-> from, duration |-> len]

MCInfo ==
  [c \in MCCerts |->
     CASE c = r1 -> Root(r1)
       [] c = r2 -> Root(r2)
       [] c = ca1 -> Issued(r1, 0, 2)
       [] c = ca2 -> Issued(r2, 1, 2)
       [] c = badCa -> [Issued(r1, 0, 9) EXCEPT !.signer = NoCert]
       [] c = subCa -> Issued(ca1, 0, 9)
       [] c = at -> Issued(ca1, 0, 3)
       [] c = ec -> Issued(ca2, 0, 3)
       [] c = direct -> Issued(r1, 1, 1)
       [] c = noDuration -> Issued(r1, 0, 0)
       [] c = atBad -> Issued(badCa, 0, 9)
       [] c = atDeep -> Issued(subCa, 0, 9)]

\* r1 revokes its AA and then, in a later list, reinstates it and revokes its
\* own certificate; the AA and the other root publish lists of their own.
MCCrls ==
  {[issuer |-> r1, thisUpdate |-> 1, nextUpdate |-> 1, entries |-> {ca1}],
   [issuer |-> r1, thisUpdate |-> 2, nextUpdate |-> 0, entries |-> {r1}],
   [issuer |-> ca1, thisUpdate |-> 1, nextUpdate |-> 2, entries |-> {at, ec}],
   [issuer |-> r2, thisUpdate |-> 1, nextUpdate |-> 2, entries |-> {}]}

\* Only CAs are stored, under one label: labels do not enter into the verdict.
MCLabels == {"ca"}
Stored == {r1, r2, ca1, ca2, badCa, subCa}
MCFiles == {[cert |-> c, label |-> "ca", isCert |-> TRUE] : c \in {r1, badCa}} \cup
           {[cert |-> NoCert, label |-> "ca", isCert |-> TRUE],
            [cert |-> r2, label |-> "ca", isCert |-> FALSE]}

OnlyCasStored == DOMAIN certs \subseteq Stored
=============================================================================
