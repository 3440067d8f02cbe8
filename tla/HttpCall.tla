------------------------------ MODULE HttpCall ------------------------------
(***************************************************************************)
(* What callers of HttpClient::get and HttpClient::post can count on, with *)
(* the retry loop hidden.  A call may reach the server several times, each *)
(* time the server may reply, and the caller gets exactly one answer: the  *)
(* reply to the last try, or Error::Network if the last try brought none.  *)
(* The answer never is a reply that a later try superseded, nor the parts  *)
(* of two replies, nor the network error in place of a reply just got.     *)
(*                                                                         *)
(* The comment above perform_with_retry promises more, that Error::Network *)
(* means that no try was ever answered; a 503 followed by a timeout breaks *)
(* it.  HttpClient states that promise as NetworkOnlyIfNoReply.            *)
(***************************************************************************)
EXTENDS Integers

CONSTANTS
  Statuses,  \* the HTTP status codes a server may reply with
  Budget     \* how many times a call may reach the server

NoAnswer == <<>>
NetworkError == <<"Network">>

VARIABLES
  tries,    \* attempts made so far
  replies,  \* replies received so far, as <<attempt, status>>
  answer    \* what the caller got: NoAnswer, NetworkError or a reply

absVars == <<tries, replies, answer>>

AbsInit == tries = 0 /\ replies = {} /\ answer = NoAnswer

\* The call goes on, or the caller gets what the latest try brought.
Deliver(newest) ==
  answer' \in {NoAnswer} \cup (IF newest = {} THEN {NetworkError} ELSE newest)

\* One more try, which may bring a reply; the call may end with it.
Try ==
  /\ answer = NoAnswer
  /\ tries < Budget
  /\ tries' = tries + 1
  /\ \E newest \in {{}} \cup {{<<tries + 1, s>>} : s \in Statuses} :
       /\ replies' = replies \cup newest
       /\ Deliver(newest)

\* The call may give up without having tried (no curl handle).
GiveUp ==
  /\ answer = NoAnswer /\ tries = 0
  /\ answer' = NetworkError
  /\ UNCHANGED <<tries, replies>>

AbsNext == Try \/ GiveUp

AbsSpec == AbsInit /\ [][AbsNext]_absVars
=============================================================================
