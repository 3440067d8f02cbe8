----------------------------- MODULE HttpClient -----------------------------
(***************************************************************************)
(* One call of HttpClient::get or HttpClient::post: the loop of            *)
(* perform_with_retry around curl_easy_perform.  The server and the        *)
(* network choose how each attempt ends; the client decides what is final, *)
(* what is retried, how long it waits and what the caller gets.            *)
(*                                                                         *)
(* A response is abstracted to its status code and to the attempts whose   *)
(* bytes are in its body and header buffers: write_callback and            *)
(* header_callback add to the buffers, only the head of the loop clears    *)
(* them.                                                                   *)
(***************************************************************************)
EXTENDS Integers, Sequences, FiniteSets

CONSTANTS
  MaxRetries,    \* HttpClientConfig::max_retries
  RetryBackoff,  \* HttpClientConfig::retry_backoff, in time units
  Statuses       \* the HTTP status codes the server may answer with

\* 1u << attempt is defined only while the shift is below the width of unsigned;
\* the bound is MaxShift because TLC's integers end at 2^31 - 1 (with the default
\* backoff of 500 ms the 30th wait would last 17 years).
MaxShift == 30

ASSUME ConfigAssumption ==
  /\ MaxRetries \in 0..MaxShift
  /\ RetryBackoff \in Nat
  /\ Statuses \subseteq 100..599

\* The values of 1u << a that the loop can use, for the proofs: SMT knows no
\* exponentiation, TLC evaluates every instance.
ASSUME ShiftAssumption ==
  /\ 2^0 = 1
  /\ \A a \in 0..MaxShift : 2^a \in Nat \ {0}
  /\ \A a \in 0..(MaxShift - 1) : 2^(a + 1) = 2 * 2^a

Network == "Network"      \* Error::Network
Pending == "pending"      \* the call has not returned
Responded == "response"   \* the call returned resp

\* How an attempt ended, as recorded in the history variable: a status code,
\* or one of the two classes of curl errors.
TransientError == 0
PermanentError == 1
Outcomes == Statuses \cup {TransientError, PermanentError}

VARIABLES
  pc,       \* "init", "perform", "sleep" or "done"
  attempt,  \* the loop counter
  resp,     \* the response being filled: [status, bytes]
  result,   \* Pending, Network or Responded
  slept,    \* history: total time slept between attempts
  log,      \* history: how each attempt ended
  handled   \* history: the attempts the server acted on

vars == <<pc, attempt, resp, result, slept, log, handled>>

Responses == [status : Statuses \cup {0}, bytes : SUBSET (0..MaxRetries)]

TypeOK ==
  /\ pc \in {"init", "perform", "sleep", "done"}
  /\ attempt \in 0..MaxRetries
  /\ resp \in Responses
  /\ result \in {Pending, Network, Responded}
  /\ slept \in Nat
  /\ log \in Seq(Outcomes)
  /\ handled \subseteq 0..MaxRetries

Init ==
  /\ pc = "init"
  /\ attempt = 0
  /\ resp = [status |-> 0, bytes |-> {}]
  /\ result = Pending
  /\ slept = 0
  /\ log = <<>>
  /\ handled = {}

(***************************************************************************)
(* The decisions of the loop                                               *)
(***************************************************************************)
Bug_FinalUpTo500(s) == s <= 500 /\ s # 429

\* Success and client errors other than 429 are final.
FinalStatus(s) == s < 500 /\ s # 429

Bug_StaleStatus(r) == [r EXCEPT !.bytes = {}]
Bug_StaleBody(r) == [r EXCEPT !.status = 0]

\* The head of the loop: body, headers and status_code are reset.
ClearedResponse(r) == [status |-> 0, bytes |-> {}]

Bug_RetryOnceMore(a) == a > MaxRetries

\* attempt >= cfg.max_retries
RetriesExhausted(a) == a >= MaxRetries

\* cfg.retry_backoff * (1u << attempt)
BackoffTime(a) == RetryBackoff * 2^a

(***************************************************************************)
(* get / post: a fresh curl easy handle for the call                       *)
(***************************************************************************)
EasyInit ==
  /\ pc = "init"
  /\ pc' = "perform"
  /\ UNCHANGED <<attempt, resp, result, slept, log, handled>>

EasyInitFails ==
  /\ pc = "init"
  /\ pc' = "done"
  /\ result' = Network
  /\ UNCHANGED <<attempt, resp, slept, log, handled>>

(***************************************************************************)
(* perform_with_retry: one iteration, up to the sleep                      *)
(***************************************************************************)
\* Behind the if of the loop body: leave the loop when the retries are used
\* up, with the response if the last attempt got one, else sleep.
RetryOrGiveUp(r) ==
  IF RetriesExhausted(attempt)
    THEN /\ pc' = "done"
         /\ result' = IF r.status # 0 THEN Responded ELSE Network
    ELSE /\ pc' = "sleep"
         /\ UNCHANGED result

\* curl_easy_perform returned CURLE_OK: the server answered with status s.
Answered(s) ==
  LET r == [ClearedResponse(resp) EXCEPT !.status = s, !.bytes = @ \cup {attempt}]
  IN /\ pc = "perform"
     /\ resp' = r
     /\ log' = Append(log, s)
     /\ handled' = handled \cup {attempt}
     /\ IF FinalStatus(s)
          THEN pc' = "done" /\ result' = Responded
          ELSE RetryOrGiveUp(r)
     /\ UNCHANGED <<attempt, slept>>

\* A transient curl error (is_transient): the connection failed, or the
\* answer was lost or cut short after the server acted on the request.
TransientFailure(served, partial) ==
  LET r == [ClearedResponse(resp) EXCEPT
              !.bytes = @ \cup (IF partial THEN {attempt} ELSE {})]
  IN /\ pc = "perform"
     /\ partial => served
     /\ resp' = r
     /\ log' = Append(log, TransientError)
     /\ handled' = handled \cup (IF served THEN {attempt} ELSE {})
     /\ RetryOrGiveUp(r)
     /\ UNCHANGED <<attempt, slept>>

\* A permanent curl error (TLS, malformed URL, ...) ends the call at once.
PermanentFailure ==
  /\ pc = "perform"
  /\ resp' = ClearedResponse(resp)
  /\ log' = Append(log, PermanentError)
  /\ pc' = "done"
  /\ result' = Network
  /\ UNCHANGED <<attempt, slept, handled>>

Bug_SleepsForever ==
  /\ pc = "sleep"
  /\ UNCHANGED vars

\* sleep_for, then the next iteration.
SleepAndRetry ==
  /\ pc = "sleep"
  /\ slept' = slept + BackoffTime(attempt)
  /\ attempt' = attempt + 1
  /\ pc' = "perform"
  /\ UNCHANGED <<resp, result, log, handled>>

\* The call returned; the caller goes on.
Returned == pc = "done" /\ UNCHANGED vars

Next ==
  \/ EasyInit
  \/ EasyInitFails
  \/ \E s \in Statuses : Answered(s)
  \/ \E served, partial \in BOOLEAN : TransientFailure(served, partial)
  \/ PermanentFailure
  \/ SleepAndRetry
  \/ Returned

\* CURLOPT_TIMEOUT and CURLOPT_CONNECTTIMEOUT end every curl_easy_perform,
\* and sleep_for returns: the call always takes its next step.
Fairness == WF_vars(Next)

Spec == Init /\ [][Next]_vars /\ Fairness

(***************************************************************************)
(* Properties                                                              *)
(***************************************************************************)
LastOutcome == log[Len(log)]
RetryableOutcome(o) == o = TransientError \/ (o \in Statuses /\ ~FinalStatus(o))

\* A returned response is one whole answer: its status is the one the server
\* sent on the last attempt, and its body and headers hold bytes of that
\* attempt only, whatever earlier attempts left in the buffers
\* (perform_with_retry resets all three at the head of the loop).
ReturnedResponseIsWhole ==
  result = Responded =>
    /\ resp.status = LastOutcome
    /\ resp.bytes = {attempt}
    /\ attempt \in handled

\* The retry policy of the class comment: only transient conditions (network
\* errors, 5xx, 429) are ever followed by another attempt, and the call gives
\* up on one of them only when max_retries extra attempts were made.
RetryPolicy ==
  /\ \A i \in 1..(Len(log) - 1) :
       log[i] = TransientError \/ log[i] >= 500 \/ log[i] = 429
  /\ pc = "done" /\ Len(log) \in 1..MaxRetries =>
       LastOutcome = PermanentError \/ (LastOutcome \in 100..499 /\ LastOutcome # 429)

\* A request reaches the server at most max_retries + 1 times, a POST too:
\* the loop makes no difference between methods, so this is the bound on how
\* many credentials one request can make the authority issue.
BoundedDuplicates == Len(log) <= MaxRetries + 1 /\ Cardinality(handled) <= Len(log)

\* The waits double: before attempt k the call has slept backoff * (2^k - 1)
\* in all, whichever transient conditions made it retry.
BackoffIsExponential == slept = RetryBackoff * (2^attempt - 1)

\* Every call returns to its caller.
CallReturns == <>(pc = "done")

\* What the loop does is what HttpCall promises.
Calls == INSTANCE HttpCall WITH
  Budget <- MaxRetries + 1,
  tries <- Len(log),
  replies <- {<<i, log[i]>> : i \in {j \in 1..Len(log) : log[j] \in Statuses}},
  answer <- CASE result = Pending -> <<>>
              [] result = Network -> <<"Network">>
              [] OTHER -> <<Len(log), IF resp.bytes = {Len(log) - 1}
                                        THEN resp.status ELSE 0>>

\* Refinement: a caller sees at most one answer per call, and a response is
\* the newest reply of the server, in full.
RefinesHttpCall == Calls!AbsSpec

\* "Returns nullopt only if no response was ever obtained": the network error
\* tells the caller of perform_with_retry that the server answered no attempt.
NetworkOnlyIfNoReply ==
  result = Network => \A i \in 1..Len(log) : log[i] \notin Statuses
=============================================================================
