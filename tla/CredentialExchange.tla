------------------------- MODULE CredentialExchange -------------------------
(***************************************************************************)
(* What the caller of a credential request is promised, whatever the       *)
(* network does: requests are made one at a time, each is closed once,     *)
(* with a credential or with an error, and a credential is the answer of   *)
(* the CA that was asked to the request that is open.                      *)
(***************************************************************************)
EXTENDS Sequences, Naturals

CONSTANTS
  Requests,     \* what can be asked for: records with a field ca
  Credentials   \* what can be granted

VARIABLES
  requests,  \* the requests made, in order
  open,      \* TRUE while the last of them is open
  granted    \* credentials handed out, as [cert, answers, signer]

ceVars == <<requests, open, granted>>

CeInit == requests = <<>> /\ open = FALSE /\ granted = {}

Ask(r) ==
  /\ ~open
  /\ requests' = Append(requests, r)
  /\ open' = TRUE
  /\ UNCHANGED granted

Grant(c) ==
  /\ open
  /\ granted' = granted \cup {[cert |-> c, answers |-> Len(requests),
                               signer |-> requests[Len(requests)].ca]}
  /\ open' = FALSE
  /\ UNCHANGED requests

Refuse ==
  /\ open
  /\ open' = FALSE
  /\ UNCHANGED <<requests, granted>>

Close == Refuse \/ \E c \in Credentials : Grant(c)

CeNext == Close \/ \E r \in Requests : Ask(r)

CeSpec == CeInit /\ [][CeNext]_ceVars /\ WF_ceVars(Close)
=============================================================================
