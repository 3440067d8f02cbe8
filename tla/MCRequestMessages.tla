-------------------------- MODULE MCRequestMessages --------------------------
\* An EA with a Brainpool and one with no encryption key (the request falls back
\* to its verification key, on a curve that the fallback does not expect), an AA
\* whose fallback works.  The second id is the name under which tickets of the
\* first keep their key.
EXTENDS RequestMessages

MCAtOf == [id \in Ids |-> IF id = "canonical" THEN "canonical-at" ELSE "canonical-at-at"]

Key(id, curve) == [id |-> id, curve |-> curve]

MCEas == {[name |-> "ea1", ver |-> Key(101, "NistP384"), enc |-> Key(102, "BrainpoolP256r1")],
          [name |-> "ea2", ver |-> Key(103, "BrainpoolP256r1"), enc |-> NoKey]}
MCAas == {[name |-> "aa1", ver |-> Key(104, "NistP256"), enc |-> NoKey]}
=============================================================================
