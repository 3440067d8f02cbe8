-------------------------- MODULE HttpClientProofs --------------------------
(***************************************************************************)
(* Proofs about the retry loop, for every number of retries, every backoff *)
(* and every set of status codes.                                          *)
(***************************************************************************)
EXTENDS HttpClient, FiniteSetTheorems, TLAPS

\* Where the loop is determines how many attempts have ended and whether the
\* call has returned; the buffers belong to the last attempt.
LoopInv ==
  /\ pc = "init" => attempt = 0 /\ log = <<>> /\ slept = 0 /\ result = Pending
  /\ pc = "perform" => Len(log) = attempt /\ result = Pending
  /\ pc = "sleep" => /\ Len(log) = attempt + 1
                     /\ attempt < MaxRetries
                     /\ result = Pending
                     /\ RetryableOutcome(LastOutcome)
  /\ pc = "done" => /\ result # Pending
                    /\ log = <<>> \/ Len(log) = attempt + 1
                    /\ log = <<>> => result = Network /\ attempt = 0

\* Every attempt but the one in hand ended in a condition that is retried.
HistoryInv ==
  \A i \in 1..Len(log) : i <= attempt => RetryableOutcome(log[i])

\* A call that returned with retries to spare met a final outcome.
StopInv ==
  pc = "done" /\ log # <<>> /\ attempt < MaxRetries =>
    LastOutcome = PermanentError \/ (LastOutcome \in Statuses /\ FinalStatus(LastOutcome))

\* The server acted only on attempts that have ended.
HandledInv == handled \subseteq 0..(Len(log) - 1)

IndInv ==
  /\ TypeOK
  /\ LoopInv
  /\ ReturnedResponseIsWhole
  /\ HistoryInv
  /\ StopInv
  /\ HandledInv

\* The loop keeps its state in its types, whatever the server and the network
\* do: in particular attempt never passes max_retries.
THEOREM TypeCorrect == Spec => []TypeOK
<1>. USE ConfigAssumption DEF MaxShift
<1>. DEFINE T == TypeOK /\ (pc = "sleep" => attempt < MaxRetries)
<1>1. Init => T
  BY DEF Init, TypeOK, Responses
<1>2. T /\ [Next]_vars => T'
  <2>. SUFFICES ASSUME TypeOK, pc = "sleep" => attempt < MaxRetries, [Next]_vars
               PROVE  T'
    OBVIOUS
  <2>. USE DEF TypeOK
  <2>1. CASE EasyInit
    BY <2>1 DEF EasyInit
  <2>2. CASE EasyInitFails
    BY <2>2 DEF EasyInitFails
  <2>3. ASSUME NEW s \in Statuses, Answered(s) PROVE T'
    <3>1. resp' \in Responses
      BY <2>3 DEF Answered, ClearedResponse, Responses
    <3>2. log' \in Seq(Outcomes)
      BY <2>3 DEF Answered, Outcomes
    <3>3. handled' \subseteq 0..MaxRetries
      BY <2>3 DEF Answered
    <3>4. pc' \in {"done", "sleep"}
      BY <2>3 DEF Answered, FinalStatus, RetryOrGiveUp, RetriesExhausted
    <3>5. result' \in {Pending, Network, Responded}
      BY <2>3 DEF Answered, FinalStatus, RetryOrGiveUp, RetriesExhausted
    <3>6. pc' = "sleep" => ~RetriesExhausted(attempt)
      BY <2>3 DEF Answered, FinalStatus, RetryOrGiveUp
    <3>7. ~RetriesExhausted(attempt) => attempt < MaxRetries
      BY DEF RetriesExhausted
    <3>. QED
      BY <2>3, <3>1, <3>2, <3>3, <3>4, <3>5, <3>6, <3>7 DEF Answered
  <2>4. ASSUME NEW served \in BOOLEAN, NEW partial \in BOOLEAN,
               TransientFailure(served, partial)
        PROVE  T'
    <3>1. resp' \in Responses
      BY <2>4 DEF TransientFailure, ClearedResponse, Responses
    <3>2. log' \in Seq(Outcomes)
      BY <2>4 DEF TransientFailure, Outcomes
    <3>3. handled' \subseteq 0..MaxRetries
      BY <2>4 DEF TransientFailure
    <3>4. pc' \in {"done", "sleep"}
      BY <2>4 DEF TransientFailure, RetryOrGiveUp, RetriesExhausted
    <3>5. result' \in {Pending, Network, Responded}
      BY <2>4 DEF TransientFailure, RetryOrGiveUp, RetriesExhausted
    <3>6. pc' = "sleep" => ~RetriesExhausted(attempt)
      BY <2>4 DEF TransientFailure, RetryOrGiveUp
    <3>7. ~RetriesExhausted(attempt) => attempt < MaxRetries
      BY DEF RetriesExhausted
    <3>. QED
      BY <2>4, <3>1, <3>2, <3>3, <3>4, <3>5, <3>6, <3>7 DEF TransientFailure
  <2>5. CASE PermanentFailure
    BY <2>5 DEF PermanentFailure, ClearedResponse, Responses, Outcomes
  <2>6. CASE SleepAndRetry
    <3>1. attempt \in 0..MaxShift
      OBVIOUS
    <3>4. 2^attempt \in Nat
      BY <3>1, ShiftAssumption, Zenon
    <3>2. BackoffTime(attempt) \in Nat
      BY <3>4 DEF BackoffTime
    <3>3. slept' \in Nat
      BY <2>6, <3>2 DEF SleepAndRetry
    <3>. QED
      BY <2>6, <3>3 DEF SleepAndRetry
  <2>7. CASE Returned
    BY <2>7 DEF Returned, vars
  <2>8. CASE UNCHANGED vars
    BY <2>8 DEF vars
  <2>. QED
    BY <2>1, <2>2, <2>3, <2>4, <2>5, <2>6, <2>7, <2>8 DEF Next
<1>. QED
  BY <1>1, <1>2, PTL DEF Spec

\* What an attempt that ended with outcome o appends to the history.
LEMMA AppendedOutcome ==
  ASSUME NEW l \in Seq(Outcomes), NEW o \in Outcomes
  PROVE  LET m == Append(l, o) IN
         /\ m \in Seq(Outcomes)
         /\ Len(m) = Len(l) + 1
         /\ m[Len(m)] = o
         /\ \A i \in 1..Len(l) : m[i] = l[i]
OBVIOUS

\* An attempt that ended keeps the histories in step with the loop: what is
\* common to Answered, TransientFailure and PermanentFailure.
LEMMA AttemptEnds ==
  ASSUME IndInv, pc = "perform", NEW o \in Outcomes,
         log' = Append(log, o), attempt' = attempt,
         handled' \subseteq handled \cup {attempt}
  PROVE  /\ Len(log') = attempt' + 1
         /\ log' # <<>>
         /\ LastOutcome' = o
         /\ HistoryInv'
         /\ HandledInv'
<1>. USE ConfigAssumption DEF MaxShift
<1>1. /\ Len(log') = Len(log) + 1
      /\ log'[Len(log')] = o
      /\ \A i \in 1..Len(log) : log'[i] = log[i]
  BY AppendedOutcome DEF IndInv, TypeOK
<1>2. /\ Len(log) = attempt
      /\ attempt \in Nat
  BY DEF IndInv, LoopInv, TypeOK
<1>3. Len(log') = attempt' + 1 /\ log' # <<>>
  BY <1>1, <1>2
<1>4. LastOutcome' = o
  BY <1>1 DEF LastOutcome
<1>5. HistoryInv'
  BY <1>1, <1>2 DEF IndInv, HistoryInv, RetryableOutcome
<1>6. HandledInv'
  BY <1>1, <1>2 DEF IndInv, HandledInv
<1>. QED
  BY <1>3, <1>4, <1>5, <1>6

\* How the tail of an iteration decides: sleep with retries left, or return.
LEMMA TailDecides ==
  ASSUME TypeOK, result = Pending, NEW r, RetryOrGiveUp(r)
  PROVE  \/ /\ pc' = "sleep" /\ result' = Pending
            /\ attempt < MaxRetries
         \/ /\ pc' = "done" /\ ~(attempt < MaxRetries)
            /\ result' = IF r.status # 0 THEN Responded ELSE Network
<1>. USE ConfigAssumption DEF MaxShift, TypeOK
<1>1. CASE attempt >= MaxRetries
  BY <1>1 DEF RetryOrGiveUp, RetriesExhausted
<1>2. CASE ~(attempt >= MaxRetries)
  <2>1. attempt < MaxRetries
    BY <1>2
  <2>. QED
    BY <1>2, <2>1 DEF RetryOrGiveUp, RetriesExhausted
<1>. QED
  BY <1>1, <1>2

\* The inductive step for the parts of the invariant that say where the loop
\* stands, one case per action.
LEMMA StepKeepsIndInv ==
  ASSUME IndInv, TypeOK', [Next]_vars
  PROVE  IndInv'
<1>. USE ConfigAssumption DEF MaxShift
<1>. USE DEF Pending, Network, Responded
<1>. DEFINE Rest == LoopInv /\ ReturnedResponseIsWhole /\ HistoryInv /\ StopInv /\ HandledInv
<1>0. SUFFICES Rest'
  BY DEF IndInv
<1>1. CASE EasyInit
  BY <1>1 DEF EasyInit, IndInv, LoopInv, ReturnedResponseIsWhole, HistoryInv,
              StopInv, HandledInv, LastOutcome, TypeOK
<1>2. CASE EasyInitFails
  BY <1>2 DEF EasyInitFails, IndInv, LoopInv, ReturnedResponseIsWhole, HistoryInv,
              StopInv, HandledInv, LastOutcome, TypeOK
<1>3. ASSUME NEW s \in Statuses, Answered(s) PROVE Rest'
  <2>1. /\ Len(log') = attempt' + 1 /\ log' # <<>> /\ LastOutcome' = s
        /\ HistoryInv' /\ HandledInv'
    BY <1>3, AttemptEnds DEF Answered, Outcomes
  <2>2. resp'.status = s /\ resp'.bytes = {attempt} /\ s # 0
    <3>1. resp' = [status |-> s, bytes |-> {attempt}]
      BY <1>3 DEF Answered, ClearedResponse
    <3>2. s \in 100..599
      OBVIOUS
    <3>. QED
      BY <3>1, <3>2
  <2>3. result = Pending /\ attempt' = attempt /\ attempt \in handled'
    BY <1>3 DEF Answered, IndInv, LoopInv
  <2>4. CASE FinalStatus(s)
    <3>1. pc' = "done" /\ result' = Responded
      BY <1>3, <2>4 DEF Answered
    <3>. QED
      BY <2>1, <2>2, <2>3, <2>4, <3>1 DEF LoopInv, ReturnedResponseIsWhole, StopInv
  <2>5. CASE ~FinalStatus(s)
    <3>1. RetryOrGiveUp(resp')
      BY <1>3, <2>5 DEF Answered
    <3>2. RetryableOutcome(s)
      BY <2>5 DEF RetryableOutcome
    <3>3. RetryableOutcome(LastOutcome)'
      BY <2>1, <3>2 DEF RetryableOutcome, FinalStatus
    <3>. QED
      BY <2>1, <2>2, <2>3, <3>1, <3>3, TailDecides
         DEF IndInv, LoopInv, ReturnedResponseIsWhole, StopInv
  <2>. QED
    BY <2>4, <2>5
<1>4. ASSUME NEW served \in BOOLEAN, NEW partial \in BOOLEAN,
             TransientFailure(served, partial)
      PROVE  Rest'
  <2>1. /\ Len(log') = attempt' + 1 /\ log' # <<>> /\ LastOutcome' = TransientError
        /\ HistoryInv' /\ HandledInv'
    BY <1>4, AttemptEnds DEF TransientFailure, Outcomes
  <2>2. resp'.status = 0
    BY <1>4 DEF TransientFailure, ClearedResponse
  <2>3. result = Pending /\ attempt' = attempt /\ RetryOrGiveUp(resp')
    BY <1>4 DEF TransientFailure, IndInv, LoopInv
  <2>4. RetryableOutcome(LastOutcome)'
    BY <2>1 DEF RetryableOutcome
  <2>. QED
    BY <2>1, <2>2, <2>3, <2>4, TailDecides
       DEF IndInv, LoopInv, ReturnedResponseIsWhole, StopInv
<1>5. CASE PermanentFailure
  <2>1. /\ Len(log') = attempt' + 1 /\ log' # <<>> /\ LastOutcome' = PermanentError
        /\ HistoryInv' /\ HandledInv'
    BY <1>5, AttemptEnds DEF PermanentFailure, Outcomes
  <2>. QED
    BY <1>5, <2>1 DEF PermanentFailure, LoopInv, ReturnedResponseIsWhole, StopInv
<1>6. CASE SleepAndRetry
  <2>1. /\ pc' = "perform" /\ log' = log /\ result' = Pending
        /\ Len(log) = attempt + 1 /\ attempt' = attempt + 1
        /\ handled' = handled
    BY <1>6 DEF SleepAndRetry, IndInv, LoopInv
  <2>2. \A i \in 1..Len(log) : RetryableOutcome(log[i])
    <3>1. RetryableOutcome(log[Len(log)])
      BY <1>6 DEF SleepAndRetry, IndInv, LoopInv, LastOutcome
    <3>. QED
      BY <2>1, <3>1 DEF IndInv, HistoryInv, TypeOK
  <2>3. HistoryInv'
    BY <2>1, <2>2 DEF HistoryInv, RetryableOutcome
  <2>. QED
    BY <2>1, <2>3 DEF IndInv, LoopInv, ReturnedResponseIsWhole, StopInv, HandledInv
<1>7. CASE UNCHANGED vars
  BY <1>7 DEF vars, IndInv, LoopInv, ReturnedResponseIsWhole, HistoryInv, StopInv,
              HandledInv, LastOutcome, RetryableOutcome
<1>. QED
  BY <1>1, <1>2, <1>3, <1>4, <1>5, <1>6, <1>7 DEF Next, Returned

\* The inductive invariant of the retry loop.
THEOREM LoopInvariant == Spec => []IndInv
<1>1. Init => IndInv
  <2>. SUFFICES ASSUME Init PROVE IndInv
    OBVIOUS
  <2>. USE DEF Init, Pending, Responded
  <2>1. TypeOK
    BY ConfigAssumption DEF TypeOK, Responses, MaxShift
  <2>. QED
    BY <2>1 DEF IndInv, LoopInv, ReturnedResponseIsWhole, HistoryInv, StopInv,
                HandledInv
<1>2. IndInv /\ TypeOK' /\ [Next]_vars => IndInv'
  BY StepKeepsIndInv
<1>. QED
  BY <1>1, <1>2, TypeCorrect, PTL DEF Spec

\* For every configuration of HttpClient, a response handed to the caller is
\* one whole answer of the server, the one of the last attempt.
THEOREM WholeResponse == Spec => []ReturnedResponseIsWhole
<1>1. IndInv => ReturnedResponseIsWhole
  BY DEF IndInv
<1>. QED
  BY <1>1, LoopInvariant, PTL

\* Which status codes are final.
LEMMA FinalStatuses ==
  ASSUME NEW s \in Statuses
  PROVE  /\ FinalStatus(s) => s \in 100..499 /\ s # 429
         /\ ~FinalStatus(s) => s >= 500 \/ s = 429
<1>1. s \in 100..599
  BY ConfigAssumption
<1>. QED
  BY <1>1 DEF FinalStatus

\* For every configuration, final outcomes end the call and transient ones are
\* retried until max_retries extra attempts were made.
THEOREM PolicyHolds == Spec => []RetryPolicy
<1>1. IndInv => RetryPolicy
  <2>. SUFFICES ASSUME IndInv PROVE RetryPolicy
    OBVIOUS
  <2>. USE ConfigAssumption DEF MaxShift
  <2>1. Len(log) \in Nat /\ attempt \in 0..MaxRetries /\ MaxRetries \in Nat
    BY DEF IndInv, TypeOK
  <2>2. Len(log) <= attempt + 1
    BY <2>1 DEF IndInv, LoopInv, TypeOK
  <2>3. ASSUME NEW i \in 1..(Len(log) - 1)
        PROVE  log[i] = TransientError \/ log[i] >= 500 \/ log[i] = 429
    <3>1. RetryableOutcome(log[i])
      BY <2>1, <2>2 DEF IndInv, HistoryInv
    <3>2. CASE log[i] \in Statuses /\ ~FinalStatus(log[i])
      BY <3>2, FinalStatuses, Zenon
    <3>. QED
      BY <3>1, <3>2 DEF RetryableOutcome
  <2>4. ASSUME pc = "done", Len(log) \in 1..MaxRetries
        PROVE  LastOutcome = PermanentError \/ (LastOutcome \in 100..499 /\ LastOutcome # 429)
    <3>1. log # <<>> /\ Len(log) = attempt + 1
      BY <2>4 DEF IndInv, LoopInv
    <3>2. attempt < MaxRetries
      BY <2>1, <2>4, <3>1
    <3>3. LastOutcome = PermanentError \/ (LastOutcome \in Statuses /\ FinalStatus(LastOutcome))
      BY <2>4, <3>1, <3>2 DEF IndInv, StopInv
    <3>. QED
      BY <3>3, FinalStatuses
  <2>. QED
    BY <2>3, <2>4 DEF RetryPolicy
<1>. QED
  BY <1>1, LoopInvariant, PTL

\* For every configuration, one call reaches the server at most max_retries + 1
\* times, so a retried POST is acted on at most that often.
THEOREM DuplicatesBounded == Spec => []BoundedDuplicates
<1>1. IndInv => BoundedDuplicates
  <2>. SUFFICES ASSUME IndInv PROVE BoundedDuplicates
    OBVIOUS
  <2>1. Len(log) \in Nat /\ attempt \in 0..MaxRetries /\ MaxRetries \in Nat
    BY ConfigAssumption DEF IndInv, TypeOK, MaxShift
  <2>2. Len(log) <= MaxRetries + 1
    BY <2>1 DEF IndInv, LoopInv, TypeOK
  <2>3. /\ IsFiniteSet(0..(Len(log) - 1))
        /\ Cardinality(0..(Len(log) - 1)) = Len(log)
    <3>1. 0 \in Int /\ Len(log) - 1 \in Int
      BY <2>1
    <3>2. /\ IsFiniteSet(0..(Len(log) - 1))
          /\ Cardinality(0..(Len(log) - 1))
               = IF 0 > Len(log) - 1 THEN 0 ELSE (Len(log) - 1) - 0 + 1
      BY <3>1, FS_Interval, Zenon
    <3>. QED
      BY <2>1, <3>2
  <2>4. Cardinality(handled) <= Cardinality(0..(Len(log) - 1))
    BY <2>3, FS_Subset DEF IndInv, HandledInv
  <2>. QED
    BY <2>2, <2>3, <2>4 DEF BoundedDuplicates
<1>. QED
  BY <1>1, LoopInvariant, PTL

\* The waits double whichever conditions cause them: exponential backoff.
THEOREM BackoffDoubles == Spec => []BackoffIsExponential
<1>1. Init => BackoffIsExponential
  BY ShiftAssumption, ConfigAssumption DEF Init, BackoffIsExponential
<1>2. IndInv /\ BackoffIsExponential /\ [Next]_vars => BackoffIsExponential'
  <2>. SUFFICES ASSUME IndInv, BackoffIsExponential, [Next]_vars
               PROVE  BackoffIsExponential'
    OBVIOUS
  <2>1. CASE SleepAndRetry
    <3>1. attempt \in 0..(MaxShift - 1)
      BY <2>1, ConfigAssumption DEF SleepAndRetry, IndInv, TypeOK, LoopInv, MaxShift
    <3>. DEFINE p == 2^attempt
    <3>2. p \in Nat /\ 2^(attempt + 1) = 2 * p
      <4>1. attempt \in 0..MaxShift
        BY <3>1 DEF MaxShift
      <4>. QED
        BY <3>1, <4>1, ShiftAssumption, Zenon
    <3>. HIDE DEF p
    <3>3. slept' = RetryBackoff * (p - 1) + RetryBackoff * p
      BY <2>1 DEF SleepAndRetry, BackoffIsExponential, BackoffTime, p
    <3>4. RetryBackoff * (p - 1) + RetryBackoff * p = RetryBackoff * (2 * p - 1)
      BY <3>2, ConfigAssumption
    <3>. QED
      BY <2>1, <3>2, <3>3, <3>4 DEF SleepAndRetry, BackoffIsExponential
  <2>2. CASE ~SleepAndRetry
    <3>1. UNCHANGED <<slept, attempt>>
      BY <2>2 DEF Next, EasyInit, EasyInitFails, Answered, TransientFailure,
                  PermanentFailure, Returned, vars
    <3>. QED
      BY <3>1 DEF BackoffIsExponential
  <2>. QED
    BY <2>1, <2>2
<1>. QED
  BY <1>1, <1>2, LoopInvariant, PTL DEF Spec

(***************************************************************************)
(* The retry loop implements HttpCall                                      *)
(***************************************************************************)
\* The replies and the answer that HttpCall sees.
RepliesOf(l) == {<<i, l[i]>> : i \in {j \in 1..Len(l) : l[j] \in Statuses}}
AnswerSeen ==
  CASE result = Pending -> <<>>
    [] result = Network -> <<"Network">>
    [] OTHER -> <<Len(log), IF resp.bytes = {Len(log) - 1} THEN resp.status ELSE 0>>

\* An attempt adds its reply, if it brought one, to those seen before.
LEMMA AttemptAddsReply ==
  ASSUME NEW l \in Seq(Outcomes), NEW o \in Outcomes
  PROVE  /\ o \in Statuses => RepliesOf(Append(l, o)) = RepliesOf(l) \cup {<<Len(l) + 1, o>>}
         /\ o \notin Statuses => RepliesOf(Append(l, o)) = RepliesOf(l)
<1>. DEFINE m == Append(l, o)
<1>1. /\ Len(m) = Len(l) + 1 /\ m[Len(l) + 1] = o /\ Len(l) \in Nat
      /\ \A i \in 1..Len(l) : m[i] = l[i]
  BY AppendedOutcome
<1>. HIDE DEF m
<1>2. 1..Len(m) = (1..Len(l)) \cup {Len(l) + 1} /\ Len(l) + 1 \notin 1..Len(l)
  BY <1>1
<1>3. ASSUME NEW x \in RepliesOf(m)
      PROVE  x \in RepliesOf(l) \/ (x = <<Len(l) + 1, o>> /\ o \in Statuses)
  <2>1. PICK i \in 1..Len(m) : m[i] \in Statuses /\ x = <<i, m[i]>>
    BY DEF RepliesOf
  <2>. QED
    BY <1>1, <1>2, <2>1 DEF RepliesOf
<1>4. ASSUME NEW x \in RepliesOf(l)
      PROVE  x \in RepliesOf(m)
  <2>1. PICK i \in 1..Len(l) : l[i] \in Statuses /\ x = <<i, l[i]>>
    BY DEF RepliesOf
  <2>2. i \in 1..Len(m) /\ m[i] = l[i]
    BY <1>1, <1>2
  <2>. QED
    BY <2>1, <2>2 DEF RepliesOf
<1>5. o \in Statuses => <<Len(l) + 1, o>> \in RepliesOf(m)
  <2>1. Len(l) + 1 \in 1..Len(m)
    BY <1>2
  <2>. QED
    BY <1>1, <2>1 DEF RepliesOf
<1>6. o \in Statuses => RepliesOf(m) = RepliesOf(l) \cup {<<Len(l) + 1, o>>}
  BY <1>3, <1>4, <1>5
<1>7. o \notin Statuses => RepliesOf(m) = RepliesOf(l)
  BY <1>3, <1>4
<1>. QED
  BY <1>6, <1>7 DEF m

\* What a caller sees of an attempt is a try of HttpCall: one more attempt,
\* its reply if it brought one, and as answer none, that reply, or else the error.
LEMMA AttemptIsTry ==
  ASSUME IndInv, IndInv', pc = "perform", NEW o \in Outcomes, log' = Append(log, o),
         attempt' = attempt,
         result' = Responded => o \in Statuses,
         result' = Network => o \notin Statuses
  PROVE  Calls!Try
<1>. USE DEF Pending, Network, Responded
<1>1. Len(log) = attempt /\ attempt \in 0..MaxRetries /\ MaxRetries \in Nat /\ result = Pending
      /\ log \in Seq(Outcomes)
  BY ConfigAssumption DEF IndInv, LoopInv, TypeOK, MaxShift
<1>2. Len(log') = Len(log) + 1 /\ log'[Len(log')] = o
  BY <1>1, AppendedOutcome
<1>3. AnswerSeen = <<>>
  BY <1>1 DEF AnswerSeen
<1>. DEFINE newest == IF o \in Statuses THEN {<<Len(log) + 1, o>>} ELSE {}
<1>4. newest \in {{}} \cup {{<<Len(log) + 1, s>>} : s \in Statuses}
  OBVIOUS
<1>5. RepliesOf(log') = RepliesOf(log) \cup newest
  BY <1>1, AttemptAddsReply
<1>6. AnswerSeen' \in {<<>>} \cup (IF newest = {} THEN {<<"Network">>} ELSE newest)
  <2>1. CASE result' # Responded
    <3>1. result' \in {Pending, Network, Responded}
      BY DEF IndInv, TypeOK
    <3>. QED
      BY <2>1, <3>1 DEF AnswerSeen
  <2>2. CASE result' = Responded
    <3>1. resp'.status = o /\ resp'.bytes = {attempt'}
      BY <1>2, <2>2 DEF IndInv, ReturnedResponseIsWhole, LastOutcome
    <3>2. resp'.bytes = {Len(log') - 1}
      BY <1>1, <1>2, <3>1
    <3>3. AnswerSeen' = <<Len(log'), resp'.status>>
      BY <2>2, <3>2 DEF AnswerSeen
    <3>. QED
      BY <1>2, <2>2, <3>1, <3>3
  <2>. QED
    BY <2>1, <2>2
<1>7. Len(log) < MaxRetries + 1
  BY <1>1
<1>8. \E n \in {{}} \cup {{<<Len(log) + 1, s>>} : s \in Statuses} :
        /\ RepliesOf(log') = RepliesOf(log) \cup n
        /\ AnswerSeen' \in {<<>>} \cup (IF n = {} THEN {<<"Network">>} ELSE n)
  BY <1>4, <1>5, <1>6
<1>. QED
  BY <1>2, <1>3, <1>7, <1>8
     DEF Calls!Try, Calls!Deliver, Calls!NoAnswer, Calls!NetworkError, RepliesOf, AnswerSeen

\* Every call of get or post, with any number of retries, behaves as HttpCall
\* promises: one answer, which is the reply to the last attempt in full, or
\* Error::Network if the last attempt brought none.
THEOREM RetryLoopImplementsCall == Spec => RefinesHttpCall
<1>. USE DEF Pending, Network, Responded
<1>1. Init => Calls!AbsInit
  BY DEF Init, Calls!AbsInit, Calls!NoAnswer
<1>2. IndInv /\ IndInv' /\ [Next]_vars => [Calls!AbsNext]_(Calls!absVars)
  <2>. SUFFICES ASSUME IndInv, IndInv', [Next]_vars
                PROVE  [Calls!AbsNext]_(Calls!absVars)
    OBVIOUS
  <2>1. ASSUME UNCHANGED <<log, result, resp>> PROVE UNCHANGED Calls!absVars
    BY <2>1 DEF Calls!absVars
  <2>2. CASE EasyInit \/ SleepAndRetry \/ Returned \/ UNCHANGED vars
    BY <2>1, <2>2 DEF EasyInit, SleepAndRetry, Returned, vars
  <2>3. CASE EasyInitFails
    <3>1. result = Pending /\ Len(log) = 0
      BY <2>3 DEF EasyInitFails, IndInv, LoopInv
    <3>. QED
      BY <2>3, <3>1 DEF EasyInitFails, Calls!AbsNext, Calls!GiveUp, Calls!NoAnswer, Calls!NetworkError
  <2>4. ASSUME NEW s \in Statuses, Answered(s) PROVE Calls!AbsNext
    <3>1. s # 0
      BY ConfigAssumption
    <3>2. result' # Network
      <4>1. result = Pending
        BY <2>4 DEF Answered, IndInv, LoopInv
      <4>. QED
        BY <2>4, <3>1, <4>1 DEF Answered, RetryOrGiveUp, ClearedResponse
    <3>. QED
      BY <2>4, <3>2, AttemptIsTry DEF Answered, Outcomes, Calls!AbsNext
  <2>5. ASSUME NEW served \in BOOLEAN, NEW partial \in BOOLEAN, TransientFailure(served, partial)
        PROVE  Calls!AbsNext
    <3>1. resp'.status = 0 /\ RetryOrGiveUp(resp') /\ result = Pending /\ TypeOK
      BY <2>5 DEF TransientFailure, ClearedResponse, IndInv, LoopInv
    <3>2. result' # Responded
      BY <3>1, TailDecides
    <3>. QED
      <4>1. TransientError \notin Statuses
        BY ConfigAssumption DEF TransientError
      <4>. QED
        BY <2>5, <3>2, <4>1, AttemptIsTry DEF TransientFailure, Outcomes, Calls!AbsNext
  <2>6. CASE PermanentFailure
    BY <2>6, ConfigAssumption, AttemptIsTry DEF PermanentFailure, PermanentError, Outcomes, Calls!AbsNext
  <2>. QED
    BY <2>2, <2>3, <2>4, <2>5, <2>6 DEF Next
<1>. QED
  BY <1>1, <1>2, LoopInvariant, PTL DEF Spec, RefinesHttpCall, Calls!AbsSpec

(***************************************************************************)
(* Why a call returns                                                      *)
(***************************************************************************)
\* A bound on the steps that the call may still take.
StepsLeft ==
  CASE pc = "init" -> 2 * MaxRetries + 2
    [] pc = "perform" -> 2 * (MaxRetries - attempt) + 1
    [] pc = "sleep" -> 2 * (MaxRetries - attempt)
    [] OTHER -> 0

UsesUpAStep ==
  /\ StepsLeft \in 1..(2 * MaxRetries + 2)
  /\ StepsLeft' \in 0..(StepsLeft - 1)

\* The safety half of CallReturns, with a bound: each step of get or post uses
\* up at least one of at most 2 * max_retries + 2, whatever the server does;
\* what is left to fairness is that a step is taken at all.
THEOREM CallAdvances == Spec => [][UsesUpAStep]_vars
<1>1. IndInv /\ IndInv' /\ [Next]_vars => [UsesUpAStep]_vars
  <2>. SUFFICES ASSUME IndInv, IndInv', Next, ~UNCHANGED vars
                PROVE  UsesUpAStep
    BY Zenon
  <2>1. /\ attempt \in 0..MaxRetries /\ MaxRetries \in Nat /\ attempt' \in 0..MaxRetries
        /\ pc = "sleep" => attempt < MaxRetries
        /\ pc' = "sleep" => attempt' < MaxRetries
    <3>1. attempt \in 0..MaxRetries /\ attempt' \in 0..MaxRetries
      BY DEF IndInv, TypeOK
    <3>2. (pc = "sleep" => attempt < MaxRetries) /\ (pc' = "sleep" => attempt' < MaxRetries)
      BY DEF IndInv, LoopInv
    <3>. QED
      BY <3>1, <3>2, ConfigAssumption DEF MaxShift
  <2>2. CASE EasyInit \/ EasyInitFails
    <3>1. pc = "init" /\ pc' \in {"perform", "done"}
      BY <2>2 DEF EasyInit, EasyInitFails
    <3>. QED
      BY <2>1, <3>1 DEF UsesUpAStep, StepsLeft
  <2>3. ASSUME pc = "perform", pc' \in {"sleep", "done"}, attempt' = attempt
        PROVE  UsesUpAStep
    BY <2>1, <2>3 DEF UsesUpAStep, StepsLeft
  <2>4. ASSUME NEW s \in Statuses, Answered(s) PROVE UsesUpAStep
    BY <2>3, <2>4 DEF Answered, RetryOrGiveUp
  <2>5. ASSUME NEW served \in BOOLEAN, NEW partial \in BOOLEAN, TransientFailure(served, partial)
        PROVE  UsesUpAStep
    BY <2>3, <2>5 DEF TransientFailure, RetryOrGiveUp
  <2>6. CASE PermanentFailure
    BY <2>3, <2>6 DEF PermanentFailure
  <2>7. CASE SleepAndRetry
    <3>1. pc = "sleep" /\ pc' = "perform" /\ attempt' = attempt + 1
      BY <2>7 DEF SleepAndRetry
    <3>. QED
      BY <2>1, <3>1 DEF UsesUpAStep, StepsLeft
  <2>8. CASE Returned
    BY <2>8 DEF Returned
  <2>. QED
    BY <2>2, <2>4, <2>5, <2>6, <2>7, <2>8 DEF Next
<1>. QED
  BY <1>1, LoopInvariant, PTL DEF Spec
=============================================================================
