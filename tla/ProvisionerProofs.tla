------------------------- MODULE ProvisionerProofs -------------------------
(***************************************************************************)
(* What a station finds on disk while the provisioner sleeps or retries,   *)
(* for every choice of the periods, every PKI and any number of failures,  *)
(* signals, crashes and restarts.                                          *)
(***************************************************************************)
EXTENDS Provisioner, TLAPS

\* The longest that b failed rotations in a row take, with the pauses after them.
Cover(b) == b * (CallTime + RetryAfter)

\* The anchors in memory and on disk agree from write_anchors on.
AnchorPart ==
  /\ phase = "rca" => disk.aa = anchors.aa
  /\ phase \in {"enrol", "loop", "rotate", "key", "flush", "sleep", "retry"} =>
       disk.aa = anchors.aa /\ disk.rca = anchors.rca

\* AT.coer, then AT.key: both are of the same rotation once both were written,
\* and failed rotations that reach no AT.coer leave them alone.
PairPart ==
  /\ phase \in {"key", "flush"} => disk.at
  /\ phase \in {"flush", "sleep"} => disk.key = "own"
  /\ phase = "sleep" => disk.at
  /\ phase \in {"discover", "aa", "rca", "enrol", "key"} => budget = 0
  /\ phase \in {"loop", "rotate", "retry"} /\ budget > 0 => disk.at /\ disk.key = "own"

\* How the ticket's remaining time and the waits relate.
TimePart ==
  /\ budget <= RetryBudget(disk.period)
  /\ phase \in {"key", "flush"} => disk.left + CallTime >= disk.period
  /\ phase = "sleep" => disk.left + RotateAfter + CallTime >= wait + disk.period
  /\ phase = "retry" /\ budget > 0 => disk.left > wait + Cover(budget)
  /\ phase = "loop" /\ budget > 0 => disk.left > Cover(budget)
  /\ phase = "rotate" /\ budget > 0 => disk.left + CallTime > wait + Cover(budget)

EquipInv == PvTypeOK /\ AnchorPart /\ PairPart /\ TimePart

(***************************************************************************)
(* Lemmas                                                                  *)
(***************************************************************************)
\* The smaller of two numbers is one of them and no larger than the second.
LEMMA MinOfTwo ==
  ASSUME NEW m \in Int, NEW n \in Int
  PROVE  Min({m, n}) \in {m, n} /\ Min({m, n}) <= m /\ Min({m, n}) <= n
<1>1. \E x \in {m, n} : \A y \in {m, n} : x <= y
  OBVIOUS
<1> QED
  BY <1>1 DEF Min

\* WireDump::record keeps the shape of the dump.
LEMMA RecordedType ==
  ASSUME NEW d \in [open : BOOLEAN, entries : [Steps -> 0..MaxEntries]], NEW S
  PROVE  Recorded(d, S) \in [open : BOOLEAN, entries : [Steps -> 0..MaxEntries]]
<1> DEFINE more(s) == d.entries[s] + (IF s \in S THEN 1 ELSE 0)
           entries == [s \in Steps |-> Min({more(s), MaxEntries})]
<1>1. \A s \in Steps : Min({more(s), MaxEntries}) \in 0..MaxEntries
  <2> SUFFICES ASSUME NEW s \in Steps
               PROVE  Min({more(s), MaxEntries}) \in 0..MaxEntries
    OBVIOUS
  <2>1. more(s) \in Nat /\ MaxEntries \in Nat
    BY PeriodAssumption
  <2> HIDE DEF more
  <2>2. /\ Min({more(s), MaxEntries}) \in {more(s), MaxEntries}
        /\ Min({more(s), MaxEntries}) <= MaxEntries
    BY <2>1, MinOfTwo
  <2> QED
    BY <2>1, <2>2
<1>2. entries \in [Steps -> 0..MaxEntries]
  BY <1>1
<1>3. Recorded(d, S) = IF d.open THEN [d EXCEPT !.entries = entries] ELSE d
  BY DEF Recorded
<1> HIDE DEF entries
<1> QED
  BY <1>2, <1>3

\* The period asked for is a number of hours, whatever --validity-hours says.
LEMMA AtValidityNat == AtValidity \in Nat
<1> DEFINE h == Min({ValidityHours, Width - 1})
<1>0. ValidityHours \in Int /\ Width - 1 \in Int /\ Width \in Nat \ {0} /\ Hour \in Nat
  BY PeriodAssumption
<1>1. h \in Int
  <2>1. h \in {ValidityHours, Width - 1}
    BY <1>0, MinOfTwo
  <2> HIDE DEF h
  <2> QED
    BY <1>0, <2>1
<1>2. AtValidity = (h % Width) * Hour
  BY DEF AtValidity
<1> HIDE DEF h
<1>3. h % Width \in Nat
  BY <1>0, <1>1
<1> QED
  BY <1>0, <1>2, <1>3

\* What an answer leaves of a period: no more than the period, and less by no more
\* than a call takes.
LEMMA LeftOfBounds ==
  ASSUME NEW period \in Nat, wait \in Nat, wait <= CallTime
  PROVE  LeftOf(period) \in 0..period /\ LeftOf(period) + CallTime >= period
BY PeriodAssumption DEF LeftOf

\* One failed rotation less takes a call and RetryAfter less.
LEMMA CoverStep ==
  ASSUME NEW b \in Nat
  PROVE  /\ Cover(b) \in Nat
         /\ b > 0 => Cover(b - 1) = Cover(b) - CallTime - RetryAfter
<1> DEFINE c == CallTime + RetryAfter
<1>1. c \in Nat /\ CallTime \in Nat /\ RetryAfter \in Nat
  BY PeriodAssumption
<1>2. Cover(b) = b * c /\ Cover(b - 1) = (b - 1) * c
  BY DEF Cover
<1>3. c = CallTime + RetryAfter
  OBVIOUS
<1> HIDE DEF c
<1>4. b * c \in Nat /\ (b - 1) * c = b * c - c
  BY <1>1
<1> QED
  BY <1>1, <1>2, <1>3, <1>4

\* The retries of the budget fit into what rotating early leaves.
LEMMA CoverFits ==
  ASSUME NEW period \in Nat, NEW b \in Nat, b > 0, b <= RetryBudget(period)
  PROVE  Cover(b) <= period - RotateAfter - CallTime - 1
<1> DEFINE room == period - RotateAfter - CallTime - 1
           c == CallTime + RetryAfter
<1>0. period > RotateAfter + CallTime /\ RetryBudget(period) = room \div c
  BY DEF RetryBudget
<1>1. room \in Nat /\ c \in Nat \ {0}
  BY <1>0, PeriodAssumption
<1>2. Cover(b) = b * c
  BY DEF Cover
<1> HIDE DEF room, c
<1>3. room \div c \in Nat /\ (room \div c) * c <= room
  BY <1>1
<1>4. b * c <= (room \div c) * c
  BY <1>0, <1>1, <1>3
<1>5. b * c <= room
  BY <1>1, <1>3, <1>4
<1> QED
  BY <1>2, <1>5 DEF room

LEMMA BudgetIsNat ==
  ASSUME NEW period \in Nat
  PROVE  RetryBudget(period) \in Nat
<1> DEFINE room == period - RotateAfter - CallTime - 1
           c == CallTime + RetryAfter
<1>1. CASE period > RotateAfter + CallTime
  <2>1. room \in Nat /\ c \in Nat \ {0}
    BY <1>1, PeriodAssumption
  <2>3. RetryBudget(period) = room \div c
    BY <1>1 DEF RetryBudget
  <2> HIDE DEF room, c
  <2>2. room \div c \in Nat
    BY <2>1
  <2> QED
    BY <2>2, <2>3
<1>2. CASE ~(period > RotateAfter + CallTime)
  BY <1>2 DEF RetryBudget
<1> QED
  BY <1>1, <1>2

(***************************************************************************)
(* Type correctness                                                        *)
(***************************************************************************)
LEMMA TypeStep ==
  ASSUME PvTypeOK, [PvNext]_pvVars
  PROVE  PvTypeOK'
<1> USE PeriodAssumption, AtValidityNat DEF PvTypeOK, Stopped, Active, Calling, Asleep, Modes
<1>fresh. ASSUME NEW m \in Modes, FreshProcess(m)
          PROVE  /\ mode' \in Modes /\ running' \in BOOLEAN
                 /\ anchors' \in [aa : Cas \cup {NoFile}, rca : Cas \cup {NoFile}]
                 /\ ec' \in 0..EcValidity
                 /\ wait' \in 0..RotateAfter \cup 0..RetryAfter \cup 0..CallTime
                 /\ dump' \in [open : BOOLEAN, entries : [Steps -> 0..MaxEntries]]
                 /\ budget' \in Nat
  BY <1>fresh DEF FreshProcess, NoEntries
<1>failed. ASSUME NEW d \in [open : BOOLEAN, entries : [Steps -> 0..MaxEntries]],
                  RotationFailed(d)
           PROVE  /\ dump' \in [open : BOOLEAN, entries : [Steps -> 0..MaxEntries]]
                  /\ phase' \in {"exit", "retry"}
                  /\ wait' \in 0..RotateAfter \cup 0..RetryAfter \cup 0..CallTime
                  /\ budget' \in Nat
  <2>1. CASE mode = "oneshot"
    BY <1>failed, <2>1 DEF RotationFailed
  <2>2. CASE mode # "oneshot"
    BY <1>failed, <2>2 DEF RotationFailed
  <2> QED
    BY <2>1, <2>2
<1>1. ASSUME NEW m \in Modes, Start(m)
      PROVE  PvTypeOK'
  BY <1>1, <1>fresh DEF Start
<1>2. ASSUME NEW t \in Topologies, Discovered(t)
      PROVE  PvTypeOK'
  BY <1>2, TopologyAssumption DEF Discovered
<1>3. ASSUME Exit
      PROVE  PvTypeOK'
  BY <1>3 DEF Exit, processVars
<1>4. CASE WriteAa
  BY <1>4 DEF WriteAa, processVars
<1>5. CASE WriteRca
  BY <1>5, RecordedType DEF WriteRca
<1>6. CASE EcIssued
  <2>1. LeftOf(EcValidity) \in 0..EcValidity
    BY <1>6, LeftOfBounds DEF EcIssued
  <2> QED
    BY <1>6, <2>1, RecordedType DEF EcIssued
<1>7. CASE LoopHead
  BY <1>7 DEF LoopHead
<1>8. ASSUME NEW recorded \in RecordedByFailure, RotateFails(recorded)
      PROVE  PvTypeOK'
  <2>1. Recorded(dump, recorded) \in [open : BOOLEAN, entries : [Steps -> 0..MaxEntries]]
    BY RecordedType
  <2> QED
    BY <1>8, <2>1, <1>failed DEF RotateFails
<1>9. ASSUME NEW period \in Grants, TicketWritten(period)
      PROVE  PvTypeOK'
  <2>1. dump' \in [open : BOOLEAN, entries : [Steps -> 0..MaxEntries]]
    BY <1>9, RecordedType DEF TicketWritten
  <2>2. disk' \in [aa : Cas \cup {NoFile}, rca : Cas \cup {NoFile}, at : BOOLEAN,
                  period : 0..AtValidity, left : 0..AtValidity, key : {"none", "own", "other"}]
    <3> DEFINE key == IF disk.key = "none" THEN "none" ELSE "other"
    <3>1. key \in {"none", "own", "other"} /\ period \in 0..AtValidity
      OBVIOUS
    <3>3. LeftOf(period) \in 0..AtValidity
      BY <1>9, <3>1, LeftOfBounds DEF TicketWritten
    <3>2. disk' = [disk EXCEPT !.at = TRUE, !.period = period, !.left = LeftOf(period), !.key = key]
      BY <1>9 DEF TicketWritten
    <3> HIDE DEF key
    <3> QED
      BY <3>1, <3>2, <3>3
  <2> QED
    BY <1>9, <2>1, <2>2 DEF TicketWritten
<1>10. CASE WriteKeyFails
  BY <1>10, <1>failed DEF WriteKeyFails
<1>11. CASE WriteKey
  BY <1>11 DEF WriteKey, processVars
<1>12. ASSUME NEW ok \in BOOLEAN, Flush(ok)
       PROVE  PvTypeOK'
  <2>1. /\ dump' \in [open : BOOLEAN, entries : [Steps -> 0..MaxEntries]]
        /\ flushed' \in [Steps -> 0..MaxEntries]
    BY <1>12 DEF Flush
  <2>2. phase' \in {"exit", "sleep"} /\ wait' \in 0..RotateAfter \cup 0..RetryAfter \cup 0..CallTime
    BY <1>12 DEF Flush, SleepTime
  <2>3. budget' \in Nat
    BY <1>12, BudgetIsNat DEF Flush
  <2>4. UNCHANGED <<mode, running, anchors, ec, disk>>
    BY <1>12 DEF Flush
  <2> QED
    BY <2>1, <2>2, <2>3, <2>4
<1>13. CASE WakeUp
  BY <1>13 DEF WakeUp
<1>14. CASE TimePasses
  BY <1>14 DEF TimePasses, LessOne
<1>15. CASE Signal
  <2>1. running' \in BOOLEAN
    BY <1>15 DEF Signal
  <2>2. UNCHANGED <<phase, mode, anchors, ec, wait, dump, disk, flushed, budget>>
    BY <1>15 DEF Signal
  <2> QED
    BY <2>1, <2>2
<1>16. CASE Crash
  BY <1>16, <1>fresh DEF Crash
<1>17. CASE UNCHANGED pvVars
  BY <1>17 DEF pvVars, processVars
<1> QED
  BY <1>1, <1>2, <1>3, <1>4, <1>5, <1>6, <1>7, <1>8, <1>9, <1>10, <1>11, <1>12, <1>13,
     <1>14, <1>15, <1>16, <1>17
  DEF PvNext, ProcessStep, DiscoverFails, WriteAnchorFails, EnrolFails

\* The provisioner's memory and files keep their types: the counters stay in
\* their ranges through every rotation, failure, crash and restart.
THEOREM PvTypeCorrect == PvSpec => []PvTypeOK
<1>1. PvInit => PvTypeOK
  BY PeriodAssumption, AtValidityNat DEF PvInit, PvTypeOK, Stopped, Calling, NoEntries, Modes
<1> QED
  BY <1>1, TypeStep, PTL DEF PvSpec

(***************************************************************************)
(* The files and the memory of the process                                 *)
(***************************************************************************)
LEMMA AnchorStep ==
  ASSUME PvTypeOK, AnchorPart, [PvNext]_pvVars
  PROVE  AnchorPart'
<1> USE DEF AnchorPart
<1>1. CASE (\E m \in Modes : Start(m)) \/ Crash
  BY <1>1 DEF Start, Crash
<1>2. ASSUME NEW t \in Topologies, Discovered(t)
      PROVE  AnchorPart'
  BY <1>2 DEF Discovered
<1>3. ASSUME Exit
      PROVE  AnchorPart'
  BY <1>3 DEF Exit
<1>4. CASE WriteAa
  BY <1>4 DEF WriteAa, processVars, PvTypeOK
<1>5. CASE WriteRca
  BY <1>5 DEF WriteRca, PvTypeOK
<1>6. CASE EcIssued \/ LoopHead
  BY <1>6 DEF EcIssued, LoopHead, processVars
<1>7. ASSUME NEW recorded \in RecordedByFailure, RotateFails(recorded)
      PROVE  AnchorPart'
  BY <1>7 DEF RotateFails, RotationFailed
<1>8. ASSUME NEW period \in Grants, TicketWritten(period)
      PROVE  AnchorPart'
  BY <1>8 DEF TicketWritten, PvTypeOK
<1>9. CASE WriteKeyFails
  BY <1>9 DEF WriteKeyFails, RotationFailed
<1>10. CASE WriteKey
  BY <1>10 DEF WriteKey, processVars, PvTypeOK
<1>11. ASSUME NEW ok \in BOOLEAN, Flush(ok)
       PROVE  AnchorPart'
  BY <1>11 DEF Flush
<1>12. CASE WakeUp
  BY <1>12 DEF WakeUp, Asleep
<1>13. CASE TimePasses
  BY <1>13 DEF TimePasses, PvTypeOK
<1>14. CASE Signal \/ UNCHANGED pvVars
  BY <1>14 DEF Signal, pvVars, processVars
<1> QED
  BY <1>1, <1>2, <1>3, <1>4, <1>5, <1>6, <1>7, <1>8, <1>9, <1>10, <1>11, <1>12, <1>13, <1>14
  DEF PvNext, ProcessStep, DiscoverFails, WriteAnchorFails, EnrolFails

LEMMA PairStep ==
  ASSUME PvTypeOK, PairPart, [PvNext]_pvVars
  PROVE  PairPart'
<1> USE DEF PairPart
<1>types. budget \in Nat
  BY DEF PvTypeOK
<1>failed. ASSUME NEW d, RotationFailed(d), disk' = disk,
                  budget > 0 => disk.at /\ disk.key = "own"
           PROVE  PairPart'
  BY <1>failed, <1>types DEF RotationFailed
<1>1. CASE (\E m \in Modes : Start(m)) \/ Crash
  BY <1>1 DEF Start, Crash, FreshProcess
<1>2. ASSUME NEW t \in Topologies, Discovered(t)
      PROVE  PairPart'
  BY <1>2 DEF Discovered
<1>3. ASSUME Exit
      PROVE  PairPart'
  BY <1>3 DEF Exit
<1>4. CASE WriteAa \/ WriteRca \/ EcIssued \/ LoopHead
  BY <1>4 DEF WriteAa, WriteRca, EcIssued, LoopHead
<1>5. ASSUME NEW recorded \in RecordedByFailure, RotateFails(recorded)
      PROVE  PairPart'
  BY <1>5, <1>failed DEF RotateFails
<1>6. ASSUME NEW period \in Grants, TicketWritten(period)
      PROVE  PairPart'
  <2>1. phase' = "key" /\ disk'.at /\ budget' = 0
    BY <1>6 DEF TicketWritten, PvTypeOK
  <2> QED
    BY <2>1
<1>7. CASE WriteKeyFails
  BY <1>7, <1>failed DEF WriteKeyFails
<1>8. CASE WriteKey
  BY <1>8 DEF WriteKey, PvTypeOK
<1>9. ASSUME NEW ok \in BOOLEAN, Flush(ok)
      PROVE  PairPart'
  BY <1>9 DEF Flush
<1>10. CASE WakeUp
  BY <1>10 DEF WakeUp, Asleep
<1>11. CASE TimePasses
  BY <1>11 DEF TimePasses, PvTypeOK, Stopped, Calling, Asleep
<1>12. CASE Signal \/ UNCHANGED pvVars
  BY <1>12 DEF Signal, pvVars
<1> QED
  BY <1>1, <1>2, <1>3, <1>4, <1>5, <1>6, <1>7, <1>8, <1>9, <1>10, <1>11, <1>12
  DEF PvNext, ProcessStep, DiscoverFails, WriteAnchorFails, EnrolFails

(***************************************************************************)
(* Time                                                                    *)
(***************************************************************************)
\* A failed rotation uses up one retry and the time it takes.
LEMMA FailureStep ==
  ASSUME PvTypeOK, TimePart, NEW d, RotationFailed(d), disk' = disk,
         budget > 0 => disk.left + CallTime > Cover(budget)
  PROVE  TimePart'
<1> USE DEF TimePart
<1>types. budget \in Nat /\ disk.left \in Nat /\ disk.period \in Nat
  BY PeriodAssumption, AtValidityNat DEF PvTypeOK
<1>nat. RetryBudget(disk.period) \in Nat
  BY <1>types, BudgetIsNat
<1>1. CASE mode = "oneshot"
  BY <1>1 DEF RotationFailed
<1>2. CASE mode # "oneshot" /\ budget > 0
  <2>1. phase' = "retry" /\ wait' = RetryAfter /\ budget' = budget - 1
    BY <1>2 DEF RotationFailed
  <2>3. Cover(budget - 1) = Cover(budget) - CallTime - RetryAfter /\ Cover(budget) \in Nat
    BY <1>2, <1>types, CoverStep
  <2>4. disk'.left > wait' + Cover(budget')
    BY <1>2, <1>types, <2>1, <2>3, PeriodAssumption
  <2>5. budget' <= RetryBudget(disk.period)
    BY <2>1, <1>types, <1>nat
  <2> QED
    BY <2>1, <2>4, <2>5
<1>3. CASE mode # "oneshot" /\ ~(budget > 0)
  <2>1. phase' = "retry" /\ budget' = 0
    BY <1>3 DEF RotationFailed
  <2> QED
    BY <2>1, <1>nat
<1> QED
  BY <1>1, <1>2, <1>3

LEMMA TimeStep ==
  ASSUME PvTypeOK, PairPart, TimePart, [PvNext]_pvVars
  PROVE  TimePart'
<1> USE DEF TimePart
<1>types. /\ budget \in Nat /\ wait \in Nat /\ Cover(budget) \in Nat
          /\ disk.left \in Nat /\ disk.period \in Nat /\ RetryBudget(disk.period) \in Nat
  BY CoverStep, BudgetIsNat, PeriodAssumption, AtValidityNat DEF PvTypeOK
<1>fits. budget > 0 => Cover(budget) <= disk.period - RotateAfter - CallTime - 1
  BY <1>types, CoverFits
<1>1. CASE (\E m \in Modes : Start(m)) \/ Crash
  BY <1>1, <1>types DEF Start, Crash, FreshProcess
<1>2. ASSUME NEW t \in Topologies, Discovered(t)
      PROVE  TimePart'
  BY <1>2 DEF Discovered
<1>3. ASSUME Exit
      PROVE  TimePart'
  BY <1>3 DEF Exit
<1>4. CASE WriteAa \/ WriteRca
  <2>1. phase' \in {"rca", "enrol"} /\ budget' = budget /\ disk'.period = disk.period
    BY <1>4 DEF WriteAa, WriteRca, PvTypeOK
  <2> QED
    BY <2>1
<1>5. CASE EcIssued
  BY <1>5 DEF EcIssued, PairPart
<1>6. CASE LoopHead
  <2>1. budget' = budget /\ disk' = disk /\ phase = "loop"
    BY <1>6 DEF LoopHead
  <2>2. \/ phase' = "rotate" /\ wait' = CallTime
        \/ phase' = "exit"
    BY <1>6 DEF LoopHead
  <2> QED
    BY <2>1, <2>2, <1>types, PeriodAssumption
<1>7. ASSUME NEW recorded \in RecordedByFailure, RotateFails(recorded)
      PROVE  TimePart'
  <2>1. budget > 0 => disk.left + CallTime > Cover(budget)
    BY <1>7, <1>types, PeriodAssumption DEF RotateFails
  <2> QED
    BY <1>7, <2>1, FailureStep DEF RotateFails
<1>8. ASSUME NEW period \in Grants, TicketWritten(period)
      PROVE  TimePart'
  <2>1. /\ phase' = "key" /\ budget' = 0 /\ disk'.period = period
        /\ disk'.left = LeftOf(period) /\ wait <= CallTime
    BY <1>8 DEF TicketWritten, PvTypeOK, Calling
  <2>2. period \in Nat
    BY PeriodAssumption, AtValidityNat
  <2>3. RetryBudget(period) \in Nat /\ LeftOf(period) + CallTime >= period
    BY <1>types, <2>1, <2>2, BudgetIsNat, LeftOfBounds
  <2> QED
    BY <2>1, <2>3
<1>9. CASE WriteKeyFails
  BY <1>9, FailureStep DEF WriteKeyFails, PairPart
<1>10. CASE WriteKey
  <2>1. /\ phase = "key" /\ phase' = "flush" /\ budget' = budget
        /\ disk'.period = disk.period /\ disk'.left = disk.left
    BY <1>10 DEF WriteKey, PvTypeOK
  <2> QED
    BY <2>1
<1>11. ASSUME NEW ok \in BOOLEAN, Flush(ok)
       PROVE  TimePart'
  <2>1. disk' = disk /\ disk.left + CallTime >= disk.period
    BY <1>11 DEF Flush
  <2>2. CASE mode = "oneshot"
    BY <1>11, <2>2 DEF Flush
  <2>3. CASE mode # "oneshot"
    <3>1. phase' = "sleep" /\ wait' = RotateAfter /\ budget' = RetryBudget(disk.period)
      BY <1>11, <2>3 DEF Flush, SleepTime
    <3> QED
      BY <2>1, <3>1, <1>types, PeriodAssumption
  <2> QED
    BY <2>2, <2>3
<1>12. CASE WakeUp
  <2>1. phase' = "loop" /\ budget' = budget /\ disk' = disk
    BY <1>12 DEF WakeUp
  <2>2. budget > 0 => disk.left > Cover(budget)
    <3>1. CASE phase = "sleep"
      BY <3>1, <1>types, <1>fits, PeriodAssumption
    <3>2. CASE phase = "retry"
      BY <3>2, <1>types
    <3> QED
      BY <1>12, <3>1, <3>2 DEF WakeUp, Asleep
  <2> QED
    BY <2>1, <2>2
<1>13. CASE TimePasses
  <2>1. /\ phase' = phase /\ budget' = budget /\ disk'.period = disk.period
        /\ phase \in Asleep \cup Calling => wait > 0
        /\ phase \in Stopped \cup {"discover"} \cup Calling \cup Asleep
    BY <1>13 DEF TimePasses, PvTypeOK, Stopped, Asleep, Calling
  <2>2. wait > 0 => wait' = wait - 1
    BY <1>13 DEF TimePasses, LessOne
  <2>3. disk'.left \in Nat /\ disk'.left >= disk.left - 1
    BY <1>13, <1>types DEF TimePasses, LessOne, PvTypeOK
  <2>4. CASE phase = "sleep"
    BY <2>1, <2>2, <2>3, <2>4, <1>types, PeriodAssumption DEF Asleep
  <2>5. CASE phase = "retry"
    BY <2>1, <2>2, <2>3, <2>5, <1>types DEF Asleep
  <2>6. CASE phase \in Stopped \cup {"discover", "enrol"}
    BY <2>1, <2>6 DEF Stopped
  <2>7. CASE phase = "rotate"
    BY <2>1, <2>2, <2>3, <2>7, <1>types, PeriodAssumption DEF Calling
  <2> QED
    BY <2>1, <2>4, <2>5, <2>6, <2>7 DEF Asleep, Calling
<1>14. CASE Signal \/ UNCHANGED pvVars
  BY <1>14 DEF Signal, pvVars, processVars
<1> QED
  BY <1>1, <1>2, <1>3, <1>4, <1>5, <1>6, <1>7, <1>8, <1>9, <1>10, <1>11, <1>12, <1>13, <1>14
  DEF PvNext, ProcessStep, DiscoverFails, WriteAnchorFails, EnrolFails

(***************************************************************************)
(* The theorems                                                            *)
(***************************************************************************)
\* The inductive invariant: main's phases, the anchors, the two ticket files
\* and the remaining times stay in step.
THEOREM Equipment == PvSpec => []EquipInv
<1>1. PvInit => EquipInv
  <2>1. PvInit => PvTypeOK
    BY PeriodAssumption, AtValidityNat DEF PvInit, PvTypeOK, Stopped, Calling, NoEntries, Modes
  <2>2. PvInit => AnchorPart /\ PairPart /\ TimePart
    BY BudgetIsNat DEF PvInit, AnchorPart, PairPart, TimePart
  <2> QED
    BY <2>1, <2>2 DEF EquipInv
<1>2. EquipInv /\ [PvNext]_pvVars => EquipInv'
  BY TypeStep, AnchorStep, PairStep, TimeStep DEF EquipInv
<1> QED
  BY <1>1, <1>2, PTL DEF PvSpec

\* While main sleeps between rotations, AT.coer and AT.key belong together, the
\* anchors on disk are the ones in memory and a ticket granted for longer than
\* the sleep and a call is valid, for all periods and rotation ratios.
THEOREM StationIsEquipped == PvSpec => []StationEquippedWhileAsleep
<1>1. EquipInv => StationEquippedWhileAsleep
  BY PeriodAssumption, AtValidityNat
  DEF EquipInv, PvTypeOK, AnchorPart, PairPart, TimePart, StationEquippedWhileAsleep
<1> QED
  BY <1>1, Equipment, PTL

\* A sleeping provisioner leaves the station without a valid ticket for no
\* longer than its sleep and a call exceed the period that the AA granted.
THEOREM OutageBounded == PvSpec => []OutageIsShortfall
<1>1. EquipInv => OutageIsShortfall
  BY PeriodAssumption, AtValidityNat DEF EquipInv, PvTypeOK, TimePart, OutageIsShortfall
<1> QED
  BY <1>1, Equipment, PTL

\* The last ticket installed outlives, with its key, every run of failed
\* rotations that fits into the rest of its validity period, however long each of
\* their HTTP calls takes.
THEOREM TicketOutlives == PvSpec => []TicketOutlivesRetries
<1>1. EquipInv => TicketOutlivesRetries
  <2> SUFFICES ASSUME EquipInv, phase \in {"loop", "rotate", "retry"}, budget > 0
               PROVE  disk.at /\ disk.left > 0 /\ disk.key = "own"
    BY DEF TicketOutlivesRetries
  <2>1. wait \in Nat /\ disk.left \in Nat /\ Cover(budget) \in Nat /\ budget \in Nat
    BY CoverStep, PeriodAssumption, AtValidityNat DEF EquipInv, PvTypeOK
  <2>3. Cover(budget) >= CallTime + RetryAfter
    <3>1. Cover(budget - 1) = Cover(budget) - CallTime - RetryAfter /\ Cover(budget - 1) \in Nat
      BY <2>1, CoverStep
    <3> QED
      BY <2>1, <3>1, PeriodAssumption
  <2>2. disk.left > 0
    BY <2>1, <2>3, PeriodAssumption DEF EquipInv, TimePart
  <2> QED
    BY <2>2 DEF EquipInv, PairPart
<1> QED
  BY <1>1, Equipment, PTL

\* A dump that was written stays as written, in memory and on disk, for as long
\* as the process that wrote it lives: whatever is rotated, fails or is flushed
\* again afterwards.
THEOREM DumpIsFinal == PvSpec => DumpEndsWithFlush
<1>1. [PvNext]_pvVars =>
        [phase \notin Stopped /\ phase' # "down" /\ ~dump.open => dump' = dump /\ flushed' = flushed]_pvVars
  <2> SUFFICES ASSUME [PvNext]_pvVars, phase \notin Stopped, phase' # "down", ~dump.open
               PROVE  dump' = dump /\ flushed' = flushed
    BY Zenon
  <2>1. ASSUME NEW steps PROVE Recorded(dump, steps) = dump
    BY DEF Recorded
  <2>2. CASE ProcessStep
    <3>1. ASSUME NEW ok \in BOOLEAN, Flush(ok) PROVE dump' = dump /\ flushed' = flushed
      BY <3>1 DEF Flush
    <3>2. ASSUME NEW recorded \in RecordedByFailure, RotateFails(recorded)
          PROVE  dump' = dump /\ flushed' = flushed
      BY <2>1, <3>2 DEF RotateFails, RotationFailed
    <3>3. CASE WriteRca \/ EcIssued \/ \E period \in Grants : TicketWritten(period)
      BY <2>1, <3>3 DEF WriteRca, EcIssued, TicketWritten
    <3>4. CASE WriteKeyFails
      BY <3>4 DEF WriteKeyFails, RotationFailed
    <3>5. CASE \/ \E t \in Topologies : Discovered(t)
               \/ DiscoverFails \/ WriteAa \/ WriteAnchorFails \/ EnrolFails
               \/ LoopHead \/ WriteKey \/ WakeUp
      BY <3>5 DEF Discovered, DiscoverFails, WriteAa, WriteAnchorFails, EnrolFails, Exit,
                  LoopHead, WriteKey, WakeUp, processVars
    <3> QED BY <2>2, <3>1, <3>2, <3>3, <3>4, <3>5 DEF ProcessStep
  <2>3. CASE (\E m \in Modes : Start(m)) \/ Crash
    BY <2>3 DEF Start, Crash
  <2>4. CASE TimePasses \/ Signal \/ UNCHANGED pvVars
    BY <2>4 DEF TimePasses, Signal, pvVars, processVars
  <2> QED BY <2>2, <2>3, <2>4 DEF PvNext
<1> QED
  BY <1>1, PTL DEF PvSpec, DumpEndsWithFlush

(***************************************************************************)
(* Why the process returns                                                 *)
(***************************************************************************)
\* How far a phase is from the end of main, for a process that is not to take
\* another turn of the loop.
Distance(p) ==
  CASE p = "discover" -> 9
    [] p = "aa" -> 8
    [] p = "rca" -> 7
    [] p = "enrol" -> 6
    [] p = "rotate" -> 5
    [] p = "key" -> 4
    [] p = "flush" -> 3
    [] p \in Asleep -> 2
    [] p = "loop" -> 1
    [] OTHER -> 0

\* The safety half of ShutdownCompletes: once a signal has come every change of
\* phase leads towards the end, from wherever it caught the process; nothing
\* takes the signal back, and at most nine phases are left.
THEOREM SignalledProcessAdvances ==
  PvSpec => [][~running /\ phase \notin Stopped =>
                 /\ ~running' \/ phase' = "down"
                 /\ phase' = phase \/ Distance(phase') < Distance(phase)]_pvVars
<1> DEFINE Advances == /\ ~running' \/ phase' = "down"
                       /\ phase' = phase \/ Distance(phase') < Distance(phase)
<1>1. PvTypeOK /\ [PvNext]_pvVars => [~running /\ phase \notin Stopped => Advances]_pvVars
  <2> SUFFICES ASSUME PvTypeOK, PvNext, ~running, phase \notin Stopped
               PROVE  Advances
    BY Zenon
  <2> USE DEF Stopped, Asleep, Distance
  <2>1. CASE \/ \E t \in Topologies : Discovered(t)
             \/ WriteAa \/ WriteRca \/ EcIssued \/ LoopHead \/ WriteKey
             \/ \E period \in Grants : TicketWritten(period)
    <3>1. /\ running' = running
          /\ <<phase, phase'>> \in {<<"discover", "aa">>, <<"aa", "rca">>, <<"rca", "enrol">>,
                                   <<"enrol", "loop">>, <<"loop", "exit">>, <<"key", "flush">>,
                                   <<"rotate", "key">>}
      BY <2>1 DEF Discovered, WriteAa, WriteRca, EcIssued, LoopHead, WriteKey, TicketWritten, processVars
    <3> QED BY <3>1
  <2>2. CASE DiscoverFails \/ WriteAnchorFails \/ EnrolFails
    BY <2>2 DEF DiscoverFails, WriteAnchorFails, EnrolFails, Exit, processVars
  <2>3. CASE WriteKeyFails \/ \E recorded \in RecordedByFailure : RotateFails(recorded)
    <3>1. phase \in {"key", "rotate"} /\ running' = running /\ phase' \in {"exit", "retry"}
      BY <2>3 DEF WriteKeyFails, RotateFails, RotationFailed
    <3> QED BY <3>1
  <2>4. CASE \E ok \in BOOLEAN : Flush(ok)
    <3>1. phase = "flush" /\ running' = running /\ phase' \in {"exit", "sleep"}
      BY <2>4 DEF Flush
    <3> QED BY <3>1
  <2>5. CASE WakeUp
    BY <2>5 DEF WakeUp
  <2>6. CASE (\E m \in Modes : Start(m)) \/ Signal \/ TimePasses
    BY <2>6 DEF Start, Signal, TimePasses
  <2>7. CASE Crash
    <3>1. phase \in Active \cup Asleep /\ phase' = "down"
      BY <2>7 DEF Crash
    <3> QED BY <3>1 DEF Active
  <2> QED BY <2>1, <2>2, <2>3, <2>4, <2>5, <2>6, <2>7 DEF PvNext, ProcessStep
<1> QED
  BY <1>1, PvTypeCorrect, PTL DEF PvSpec

\* The same for a process that takes one turn of the loop.
OneshotDistance(p) ==
  CASE p = "discover" -> 8
    [] p = "aa" -> 7
    [] p = "rca" -> 6
    [] p = "enrol" -> 5
    [] p = "loop" -> 4
    [] p = "rotate" -> 3
    [] p = "key" -> 2
    [] p = "flush" -> 1
    [] OTHER -> 0

\* In oneshot mode nothing is slept over or tried again.
OneshotNeverSleeps == mode = "oneshot" => phase \notin Asleep

\* A phase of a oneshot process changes into one nearer to the end.
LEMMA OneshotStep ==
  ASSUME PvTypeOK, OneshotNeverSleeps, PvNext, mode = "oneshot", phase \notin Stopped
  PROVE  /\ mode' = "oneshot" \/ phase' = "down"
         /\ phase' = phase \/ OneshotDistance(phase') < OneshotDistance(phase)
         /\ phase' \notin Asleep
<1> USE DEF Stopped, Asleep, OneshotDistance, OneshotNeverSleeps
<1>1. CASE ProcessStep
  <2>1. /\ mode' = mode
        /\ \/ phase' = "exit"
           \/ <<phase, phase'>> \in {<<"discover", "aa">>, <<"aa", "rca">>, <<"rca", "enrol">>,
                                     <<"enrol", "loop">>, <<"loop", "rotate">>, <<"rotate", "key">>,
                                     <<"key", "flush">>}
    <3>1. CASE \/ \E t \in Topologies : Discovered(t)
               \/ WriteAa \/ WriteRca \/ EcIssued \/ LoopHead \/ WriteKey
               \/ \E period \in Grants : TicketWritten(period)
      BY <3>1 DEF Discovered, WriteAa, WriteRca, EcIssued, LoopHead, WriteKey, TicketWritten, processVars
    <3>2. CASE DiscoverFails \/ WriteAnchorFails \/ EnrolFails
      BY <3>2 DEF DiscoverFails, WriteAnchorFails, EnrolFails, Exit, processVars
    <3>3. CASE WriteKeyFails \/ \E recorded \in RecordedByFailure : RotateFails(recorded)
      BY <3>3 DEF WriteKeyFails, RotateFails, RotationFailed
    <3>4. CASE \E ok \in BOOLEAN : Flush(ok)
      BY <3>4 DEF Flush
    <3>5. CASE WakeUp
      BY <3>5 DEF WakeUp
    <3> QED BY <1>1, <3>1, <3>2, <3>3, <3>4, <3>5 DEF ProcessStep
  <2>2. phase \in Active
    BY DEF PvTypeOK
  <2>3. CASE phase' = "exit"
    BY <2>1, <2>2, <2>3 DEF Active
  <2>4. CASE phase' # "exit"
    BY <2>1, <2>4
  <2> QED BY <2>3, <2>4
<1>2. CASE (\E m \in Modes : Start(m)) \/ Signal \/ TimePasses
  BY <1>2 DEF Start, Signal, TimePasses
<1>3. CASE Crash
  <2>1. phase \in Active /\ phase' = "down"
    BY <1>3 DEF Crash
  <2> QED BY <2>1 DEF Active
<1> QED BY <1>1, <1>2, <1>3 DEF PvNext

\* The safety half of OneshotReturns: with --oneshot the process never sleeps,
\* and every change of phase leads towards the end of main, whatever fails.
THEOREM OneshotAdvances ==
  PvSpec => /\ []OneshotNeverSleeps
            /\ [][mode = "oneshot" /\ phase \notin Stopped =>
                    /\ mode' = "oneshot" \/ phase' = "down"
                    /\ phase' = phase \/ OneshotDistance(phase') < OneshotDistance(phase)]_pvVars
<1>1. PvInit => OneshotNeverSleeps
  BY DEF PvInit, OneshotNeverSleeps, Asleep
<1>2. PvTypeOK /\ OneshotNeverSleeps /\ [PvNext]_pvVars => OneshotNeverSleeps'
  <2> SUFFICES ASSUME PvTypeOK, OneshotNeverSleeps, [PvNext]_pvVars, mode' = "oneshot"
               PROVE  phase' \notin Asleep
    BY DEF OneshotNeverSleeps
  <2>1. CASE PvNext /\ mode = "oneshot" /\ phase \notin Stopped
    BY <2>1, OneshotStep
  <2>2. CASE PvNext /\ phase \in Stopped
    <3>1. phase' \in Stopped \cup {"discover"}
      BY <2>2 DEF PvNext, ProcessStep, Start, TimePasses, Signal, Crash, Discovered, DiscoverFails, WriteAa,
                  WriteRca, WriteAnchorFails, EcIssued, EnrolFails, LoopHead, RotateFails, TicketWritten,
                  WriteKey, WriteKeyFails, Flush, WakeUp, Stopped, Active, Asleep
    <3> QED BY <3>1 DEF Stopped, Asleep
  <2>3. CASE PvNext /\ mode # "oneshot"
    <3>1. CASE ProcessStep \/ TimePasses \/ Signal
      <4>1. mode' = mode
        BY <3>1 DEF ProcessStep, TimePasses, Signal, Discovered, DiscoverFails, WriteAa,
                    WriteRca, WriteAnchorFails, EcIssued, EnrolFails, Exit, LoopHead, RotateFails,
                    TicketWritten, WriteKey, WriteKeyFails, Flush, WakeUp, processVars
      <4> QED BY <2>3, <4>1
    <3>2. CASE (\E m \in Modes : Start(m)) \/ Crash
      BY <3>2 DEF Start, Crash, Asleep
    <3> QED BY <2>3, <3>1, <3>2 DEF PvNext
  <2>4. CASE UNCHANGED pvVars
    BY <2>4 DEF pvVars, processVars, OneshotNeverSleeps
  <2> QED BY <2>1, <2>2, <2>3, <2>4
<1>3. PvTypeOK /\ OneshotNeverSleeps /\ [PvNext]_pvVars =>
        [mode = "oneshot" /\ phase \notin Stopped =>
           /\ mode' = "oneshot" \/ phase' = "down"
           /\ phase' = phase \/ OneshotDistance(phase') < OneshotDistance(phase)]_pvVars
  BY OneshotStep
<1> QED
  BY <1>1, <1>2, <1>3, PvTypeCorrect, PTL DEF PvSpec
=============================================================================
