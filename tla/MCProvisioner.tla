---------------------------- MODULE MCProvisioner ----------------------------
(***************************************************************************)
(* Two RCAs with an EA and an AA each, in one ECTL; the topologies are     *)
(* those discover_trust can return for their lists.                        *)
(***************************************************************************)
EXTENDS Provisioner, TrustLists

CONSTANTS t, r1, r2, e1, a1, e2, a2

MCEctls == {[signer |-> t, nextUpdate |-> 0, rcas |-> <<r1, r2>>, eas |-> <<>>,
             aas |-> <<>>, dcs |-> <<>>]}
Ctl(r, e, a) ==
  [signer |-> r, nextUpdate |-> 0, rcas |-> <<>>, eas |-> <<[cert |-> e, url |-> "ea"]>>,
   aas |-> <<[cert |-> a, url |-> "aa"]>>, dcs |-> <<>>]
MCTopologies == DiscoveryResults(MCEctls, {Ctl(r1, e1, a1), Ctl(r2, e2, a2)})

MCCas == {r1, r2, e1, a1, e2, a2}
=============================================================================
