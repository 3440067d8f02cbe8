---------------------------- MODULE MCRevocation ----------------------------
\* One issuer that published two lists, the older one still in date when the
\* newer one is out.
EXTENDS RevocationStore

CONSTANTS root, ca

MCCerts == {root, ca}
MCCrls == {[issuer |-> root, thisUpdate |-> 1, nextUpdate |-> 3, entries |-> {}],
           [issuer |-> root, thisUpdate |-> 2, nextUpdate |-> 4, entries |-> {ca}]}
=============================================================================
