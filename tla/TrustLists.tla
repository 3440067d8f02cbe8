----------------------------- MODULE TrustLists -----------------------------
(***************************************************************************)
(* Certificate trust lists as decode_ectl and decode_rca_ctl return them,  *)
(* and the topologies that a trust discovery can put together from them.   *)
(*                                                                         *)
(* A list of either kind is [signer, nextUpdate, rcas, eas, aas, dcs]: the *)
(* ASN.1 types give the ECTL RCAs and centres only and the CTL no RCAs,    *)
(* but the decoder checks no constraints and parse_ctl_entries reads every *)
(* kind of entry from both.  Only commands of kind add are read, and a tlm *)
(* entry is overwritten by the TLM fetched.                                *)
(***************************************************************************)
EXTENDS Integers, SequencesExt

\* parse_ctl_entries flags a list that is past its nextUpdate.
ListExpired(list, t) == list.nextUpdate > 0 /\ t > list.nextUpdate

\* What an RCA contributes whose CTL could not be fetched.
SilentRca(rca) ==
  [signer |-> rca, nextUpdate |-> 0, rcas |-> <<>>, eas |-> <<>>, aas |-> <<>>, dcs |-> <<>>]

\* For every RCA of the ECTL, in order, its own CTL or nothing.
CtlChoices(ectl, ctls) ==
  {p \in [DOMAIN ectl.rcas -> ctls \cup {SilentRca(r) : r \in Range(ectl.rcas)}] :
     \A i \in DOMAIN p : p[i].signer = ectl.rcas[i]}

\* The outcomes of a successful discovery, stated without its loop: the lists
\* of one TLM, each RCA's entries appended in the order of the ECTL; RCAs that
\* an RCA's own CTL lists are left out.
DiscoveryResults(ectls, ctls) ==
  UNION {{[tlm |-> ectl.signer,
           rcas |-> ectl.rcas,
           eas |-> ectl.eas \o FlattenSeq([i \in DOMAIN p |-> p[i].eas]),
           aas |-> ectl.aas \o FlattenSeq([i \in DOMAIN p |-> p[i].aas]),
           dcs |-> ectl.dcs \o FlattenSeq([i \in DOMAIN p |-> p[i].dcs])]
             : p \in CtlChoices(ectl, ctls)}
           : ectl \in ectls}
=============================================================================
