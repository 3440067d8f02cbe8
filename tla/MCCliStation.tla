---------------------------- MODULE MCCliStation -----------------------------
\* Over a PKI that is renewed between commands, canonical keys named so that k1's
\* ticket key has the name a1 and a1's the name a2, which is too long for another
\* "-at".
EXTENDS CliStation

CONSTANTS k1, a1, a2, g1, g2

MCKeyIds == {k1, a1, a2}
MCAtOf == [id \in {k1, a1} |-> IF id = k1 THEN a1 ELSE a2]
MCGens == {g1, g2}
=============================================================================
