--------------------------- MODULE RevocationStore ---------------------------
(***************************************************************************)
(* RevocationStore: for every issuer the set of certificates its CRL in    *)
(* force revokes.  A certificate stands for its HashedId8 (the truncated   *)
(* hash of its encoding, taken to be collision free).                      *)
(*                                                                         *)
(* Crls are the lists the CAs have published.  They are delivered in any   *)
(* order: a distribution centre may serve an older list than the one it    *)
(* served before.                                                          *)
(***************************************************************************)
EXTENDS Integers

CONSTANTS
  Certs,    \* the certificates there are
  Crls,     \* published CRLs: [issuer, thisUpdate, nextUpdate, entries]
  MaxTime   \* bound on the clock

CrlType == [issuer : Certs, thisUpdate : Nat, nextUpdate : Nat, entries : SUBSET Certs]

ASSUME CrlAssumption == Crls \subseteq CrlType /\ MaxTime \in Nat

VARIABLES
  revoked,     \* revoked_: issuer -> revoked certificates ({} when it has no list)
  now,         \* the clock, in TAI seconds
  lastUpdate   \* history: this_update of the list in force, per issuer (0: none)

revVars == <<revoked, now, lastUpdate>>

RevTypeOK ==
  /\ revoked \in [Certs -> SUBSET Certs]
  /\ now \in 0..MaxTime
  /\ lastUpdate \in [Certs -> Nat]

RevInit ==
  /\ revoked = [i \in Certs |-> {}]
  /\ now = 0
  /\ lastUpdate = [i \in Certs |-> 0]

Bug_AcceptsStaleCrl(crl, t) == TRUE

\* The test of RevocationStore::apply; a list without next_update never is stale.
CrlInDate(crl, t) == ~(crl.nextUpdate > 0 /\ t > crl.nextUpdate)

Bug_ApplyForgetsOthers(rev, crl) ==
  [i \in Certs |-> IF i = crl.issuer THEN crl.entries ELSE {}]

\* The store after the list took effect: the issuer's whole set is replaced.
Applied(rev, crl) == [rev EXCEPT ![crl.issuer] = crl.entries]

\* RevocationStore::apply; the result of the call is CrlInDate(crl, now).
ApplyCrl(crl) ==
  /\ IF CrlInDate(crl, now)
       THEN /\ revoked' = Applied(revoked, crl)
            /\ lastUpdate' = [lastUpdate EXCEPT ![crl.issuer] = crl.thisUpdate]
       ELSE UNCHANGED <<revoked, lastUpdate>>
  /\ UNCHANGED now

\* RevocationStore::is_revoked.
IsRevoked(rev, issuer, c) == c \in rev[issuer]

\* Time passes.
Tick == now < MaxTime /\ now' = now + 1 /\ UNCHANGED <<revoked, lastUpdate>>

\* The lists a distribution centre can serve by now.
Published == {crl \in Crls : crl.thisUpdate <= now}

RevNext == Tick \/ \E crl \in Published : ApplyCrl(crl)

RevSpec == RevInit /\ [][RevNext]_revVars

(***************************************************************************)
(* Properties                                                              *)
(***************************************************************************)

\* "Rejects a CRL past next_update: a stale list would mask revocations
\* published since": a certificate leaves the revoked set of its issuer only
\* on the word of a list of that same issuer that is in date at that moment.
\* That such a list reinstates at all is the KNOWN NON-CONFORMANCE noted beside
\* apply (revocation.hpp:33-34): the standard has revocations permanent.
ReinstatedOnlyByListInDate ==
  [][\A i \in Certs : revoked[i] \subseteq revoked'[i] \/
       \E crl \in Crls : /\ crl.issuer = i /\ crl.entries = revoked'[i]
                         /\ crl.nextUpdate = 0 \/ now <= crl.nextUpdate]_revVars

\* "a newer CRL replaces the issuer's whole set": the list in force only ever
\* gives way to one issued at the same time or later.
OnlyNewerListReplaces ==
  [][\A i \in Certs : lastUpdate[i] <= lastUpdate'[i]]_revVars
=============================================================================
