----------------------------- MODULE Provisioner -----------------------------
(***************************************************************************)
(* pki-provisioner: discover the trust anchors, enrol once, then rotate    *)
(* authorization tickets to disk for ever.  The process may be signalled,  *)
(* may crash between any two of its file writes and may be started again;  *)
(* only the files survive.                                                 *)
(*                                                                         *)
(* Discovery returns one of the topologies of module TrustLists, which is  *)
(* what module PkiClient shows of discover_trust.  Time is counted in what *)
(* is left: of the ticket on disk, of the EC, and of the sleep or the HTTP *)
(* call under way.  It passes while the process is down, discovers, waits  *)
(* for an answer or sleeps; its own work and its file writes take none.    *)
(*                                                                         *)
(* A file that atomic_write reports as written is taken to be whole on     *)
(* disk, which the unchecked fclose does not guarantee on a full disk.     *)
(***************************************************************************)
EXTENDS Integers, Sequences, FiniteSetsExt

CONSTANTS
  Topologies,   \* what discover_trust may return
  Cas,          \* the CA certificates there are
  NoFile,       \* no such file, no such certificate
  ValidityHours, \* --validity-hours, AT_VALIDITY_HOURS: any number, nothing checks it
  Width,        \* how many hours a request can tell apart: 2^16
  Hour,         \* units of time in an hour
  Grants,       \* the validity periods an AA grants when asked for AtValidity
  RotateAfter,  \* --validity-hours * --rotation-ratio, 0 if that is negative
  RetryAfter,   \* the 60 s after a failed rotation
  CallTime,     \* the longest an HTTP call takes: three times 30 s and the backoffs
  EcValidity,   \* what EC_VALIDITY_DAYS comes to in the request
  DumpDir,      \* whether --dump-dir is given
  MaxEntries    \* bound on the artefacts recorded per step

\* The period that a request asks for: the hours cut to 65535 and cast to 16 bits.
AtValidity == (Min({ValidityHours, Width - 1}) % Width) * Hour

ASSUME PeriodAssumption ==
  /\ ValidityHours \in Int /\ Width \in Nat \ {0} /\ Hour \in Nat
  /\ Grants \subseteq 0..AtValidity
  /\ EcValidity \in Nat
  /\ RotateAfter \in Nat /\ CallTime \in Nat
  /\ RetryAfter \in Nat \ {0}
  /\ DumpDir \in BOOLEAN
  /\ MaxEntries \in Nat \ {0}

\* Topologies are made of known CAs.
ASSUME TopologyAssumption ==
  \A t \in Topologies : /\ t.aas # <<>> => t.aas[1].cert \in Cas
                        /\ t.rcas # <<>> => t.rcas[1] \in Cas

\* The artefacts of a run that a wire dump names files after.
Steps == {"ca_certs", "ec", "at_request", "at_response", "at_cert"}

VARIABLES
  phase,    \* where the process is; "down": crashed or not started, "exit": returned
  mode,     \* "oneshot" or "continuous": --oneshot of the process
  running,  \* g_running
  anchors,  \* TrustAnchors: [aa, rca], NoFile until discovered
  ec,       \* what is left of the EC in memory, 0 if none or expired
  wait,     \* what is left of sleep_interruptible, or until an HTTP call ends
  dump,     \* WireDump: [open, entries], the number of artefacts per step
  disk,     \* AA.coer, RCA.coer, AT.coer (its validity period
            \* and what is left of it) and AT.key
  flushed,  \* history: the artefacts that the manifest on disk lists
  budget    \* history: failed rotations that the last ticket installed with
            \* its key still outlives

processVars == <<mode, running, anchors, ec, wait, dump>>
pvVars == <<phase, processVars, disk, flushed, budget>>

Stopped == {"down", "exit"}
Active == {"discover", "aa", "rca", "enrol", "loop", "rotate", "key", "flush"}
Calling == {"enrol", "rotate"}
Asleep == {"sleep", "retry"}
Modes == {"oneshot", "continuous"}

NoEntries == [s \in Steps |-> 0]

PvTypeOK ==
  /\ phase \in Stopped \cup Active \cup Asleep
  /\ mode \in Modes /\ running \in BOOLEAN
  /\ anchors \in [aa : Cas \cup {NoFile}, rca : Cas \cup {NoFile}]
  /\ ec \in 0..EcValidity
  /\ wait \in 0..RotateAfter \cup 0..RetryAfter \cup 0..CallTime
  /\ phase \in Calling => wait <= CallTime
  /\ dump \in [open : BOOLEAN, entries : [Steps -> 0..MaxEntries]]
  /\ disk \in [aa : Cas \cup {NoFile}, rca : Cas \cup {NoFile}, at : BOOLEAN,
               period : 0..AtValidity, left : 0..AtValidity, key : {"none", "own", "other"}]
  /\ flushed \in [Steps -> 0..MaxEntries]
  /\ budget \in Nat

\* The memory of a process that starts.
FreshProcess(m) ==
  /\ mode' = m /\ running' = TRUE
  /\ anchors' = [aa |-> NoFile, rca |-> NoFile]
  /\ ec' = 0 /\ wait' = 0
  /\ dump' = [open |-> DumpDir, entries |-> NoEntries]
  /\ budget' = 0

PvInit ==
  /\ phase = "down"
  /\ mode = "continuous" /\ running = TRUE
  /\ anchors = [aa |-> NoFile, rca |-> NoFile]
  /\ ec = 0 /\ wait = 0
  /\ dump = [open |-> DumpDir, entries |-> NoEntries]
  /\ disk = [aa |-> NoFile, rca |-> NoFile, at |-> FALSE, period |-> 0, left |-> 0,
             key |-> "none"]
  /\ flushed = NoEntries
  /\ budget = 0

(***************************************************************************)
(* WireDump                                                                *)
(***************************************************************************)
Bug_RecordsAfterFlush(d, steps) ==
  [d EXCEPT !.entries =
     [s \in Steps |-> Min({@[s] + (IF s \in steps THEN 1 ELSE 0), MaxEntries})]]

\* WireDump::record, once for each of the steps; ignored once the dump ended.
Recorded(d, steps) ==
  IF d.open
    THEN [d EXCEPT !.entries =
            [s \in Steps |-> Min({@[s] + (IF s \in steps THEN 1 ELSE 0), MaxEntries})]]
    ELSE d

(***************************************************************************)
(* main: up to the loop                                                    *)
(***************************************************************************)
Start(m) ==
  /\ phase \in Stopped
  /\ phase' = "discover"
  /\ FreshProcess(m)
  /\ UNCHANGED <<disk, flushed>>

\* return 1, or the end of main.
Exit ==
  /\ phase' = "exit"
  /\ UNCHANGED <<processVars, disk, flushed, budget>>

\* discover: the first EA, AA and RCA of the topology become the anchors.
Discovered(t) ==
  /\ phase = "discover"
  /\ t.eas # <<>> /\ t.aas # <<>> /\ t.rcas # <<>>
  /\ phase' = "aa"
  /\ anchors' = [aa |-> t.aas[1].cert, rca |-> t.rcas[1]]
  /\ UNCHANGED <<mode, running, ec, wait, dump, disk, flushed, budget>>

\* Discovery failed, its topology is incomplete or a CA has no encryption key.
DiscoverFails == phase = "discover" /\ Exit

\* write_anchors
WriteAa ==
  /\ phase = "aa"
  /\ disk' = [disk EXCEPT !.aa = anchors.aa]
  /\ phase' = "rca"
  /\ UNCHANGED <<processVars, flushed, budget>>

WriteRca ==
  /\ phase = "rca"
  /\ disk' = [disk EXCEPT !.rca = anchors.rca]
  /\ dump' = Recorded(dump, {"ca_certs"})
  /\ phase' = "enrol" /\ wait' = CallTime
  /\ UNCHANGED <<mode, running, anchors, ec, flushed, budget>>

WriteAnchorFails == phase \in {"aa", "rca"} /\ Exit

\* What the answer to a call leaves of a period: it began when the request was
\* made, and CallTime - wait has passed since.
LeftOf(period) ==
  IF period > CallTime - wait THEN period - (CallTime - wait) ELSE 0

\* enrol_ec: the EA issues an EC for the period asked for.
EcIssued ==
  /\ phase = "enrol"
  /\ ec' = LeftOf(EcValidity)
  /\ dump' = Recorded(dump, {"ec"})
  /\ phase' = "loop" /\ wait' = 0
  /\ UNCHANGED <<mode, running, anchors, disk, flushed, budget>>

EnrolFails == phase = "enrol" /\ Exit

(***************************************************************************)
(* main: the rotation loop                                                 *)
(***************************************************************************)
Bug_LoopIgnoresSignal ==
  /\ phase = "loop"
  /\ phase' = "rotate" /\ wait' = CallTime
  /\ UNCHANGED <<mode, running, anchors, ec, dump, disk, flushed, budget>>

\* while (g_running)
LoopHead ==
  /\ phase = "loop"
  /\ IF running
       THEN phase' = "rotate" /\ wait' = CallTime
       ELSE phase' = "exit" /\ UNCHANGED wait
  /\ UNCHANGED <<mode, running, anchors, ec, dump, disk, flushed, budget>>

Bug_FullSleepAfterFailure(d) ==
  /\ dump' = d
  /\ IF mode = "oneshot"
       THEN phase' = "exit" /\ UNCHANGED <<wait, budget>>
       ELSE /\ phase' = "retry"
            /\ wait' = RotateAfter
            /\ budget' = IF budget > 0 THEN budget - 1 ELSE 0

Bug_OneshotRetries(d) ==
  /\ dump' = d
  /\ phase' = "retry"
  /\ wait' = RetryAfter
  /\ budget' = IF budget > 0 THEN budget - 1 ELSE 0

\* rotate_at returned nullopt: give up (oneshot) or try again in 60 s.
RotationFailed(d) ==
  /\ dump' = d
  /\ IF mode = "oneshot"
       THEN phase' = "exit" /\ UNCHANGED <<wait, budget>>
       ELSE /\ phase' = "retry"
            /\ wait' = RetryAfter
            /\ budget' = IF budget > 0 THEN budget - 1 ELSE 0

\* Key generation or encoding failed, no answer or not 200, or a response that
\* is refused, no ticket in it or AT.coer not written: what was recorded by then stays.
RotateFails(recorded) ==
  /\ phase = "rotate"
  /\ RotationFailed(Recorded(dump, recorded))
  /\ UNCHANGED <<mode, running, anchors, ec, disk, flushed>>

RecordedByFailure ==
  {{}, {"at_request"}, {"at_request", "at_response"}, {"at_request", "at_response", "at_cert"}}

\* rotate_at up to AT.coer: a ticket for a fresh key, which an AA issues only
\* against an EC in its validity period, and for the period it sees fit.  AT.key
\* still holds an older key.
TicketWritten(period) ==
  /\ phase = "rotate"
  /\ ec > 0
  /\ dump' = Recorded(dump, {"at_request", "at_response", "at_cert"})
  /\ disk' = [disk EXCEPT !.at = TRUE, !.period = period, !.left = LeftOf(period),
                          !.key = IF @ = "none" THEN "none" ELSE "other"]
  /\ phase' = "key" /\ wait' = 0
  /\ budget' = 0
  /\ UNCHANGED <<mode, running, anchors, ec, flushed>>

Bug_KeyFailureIgnored ==
  /\ phase = "key"
  /\ phase' = "flush"
  /\ UNCHANGED <<processVars, disk, flushed, budget>>

WriteKeyFails ==
  /\ phase = "key"
  /\ RotationFailed(dump)
  /\ UNCHANGED <<mode, running, anchors, ec, disk, flushed>>

WriteKey ==
  /\ phase = "key"
  /\ disk' = [disk EXCEPT !.key = "own"]
  /\ phase' = "flush"
  /\ UNCHANGED <<processVars, flushed, budget>>

\* How many failed rotations in a row a ticket outlives after a success, when its
\* own request and each of those that fail take as long as a call may take.
RetryBudget(period) ==
  IF period > RotateAfter + CallTime
    THEN (period - RotateAfter - CallTime - 1) \div (CallTime + RetryAfter)
    ELSE 0

Bug_SleepsRetryToo == RotateAfter + RetryAfter

\* The sleep to the next rotation: of the period asked for, not of the one granted.
SleepTime == RotateAfter

\* dump.flush(), whose result is ignored, and the sleep to the next rotation.
Flush(ok) ==
  /\ phase = "flush"
  /\ IF dump.open /\ ok
       THEN dump' = [dump EXCEPT !.open = FALSE] /\ flushed' = dump.entries
       ELSE UNCHANGED <<dump, flushed>>
  /\ IF mode = "oneshot"
       THEN phase' = "exit" /\ UNCHANGED <<wait, budget>>
       ELSE phase' = "sleep" /\ wait' = SleepTime /\ budget' = RetryBudget(disk.period)
  /\ UNCHANGED <<mode, running, anchors, ec, disk>>

Bug_OversleepsRetry ==
  /\ phase \in Asleep
  /\ (phase = "sleep" /\ wait = 0) \/ ~running
  /\ phase' = "loop" /\ wait' = 0
  /\ UNCHANGED <<mode, running, anchors, ec, dump, disk, flushed, budget>>

\* sleep_interruptible returns: the time is up or a signal came.
WakeUp ==
  /\ phase \in Asleep
  /\ wait = 0 \/ ~running
  /\ phase' = "loop" /\ wait' = 0
  /\ UNCHANGED <<mode, running, anchors, ec, dump, disk, flushed, budget>>

(***************************************************************************)
(* The environment                                                         *)
(***************************************************************************)
Bug_CountsBelowZero(n) == n - 1

\* One unit of time less.
LessOne(n) == IF n > 0 THEN n - 1 ELSE 0

\* A call ends when its time is up, whatever signal came; a sleep ends early.
TimePasses ==
  /\ \/ phase \in Stopped \cup {"discover"}
     \/ phase \in Calling /\ wait > 0
     \/ phase \in Asleep /\ wait > 0 /\ running
  /\ wait' = LessOne(wait)
  /\ ec' = LessOne(ec)
  /\ disk' = [disk EXCEPT !.left = LessOne(@)]
  /\ UNCHANGED <<phase, mode, running, anchors, dump, flushed, budget>>

\* signal_handler
Signal ==
  /\ phase \in Active \cup Asleep
  /\ running
  /\ running' = FALSE
  /\ UNCHANGED <<phase, mode, anchors, ec, wait, dump, disk, flushed, budget>>

Crash ==
  /\ phase \in Active \cup Asleep
  /\ phase' = "down"
  /\ FreshProcess("continuous")
  /\ UNCHANGED <<disk, flushed>>

ProcessStep ==
  \/ \E t \in Topologies : Discovered(t)
  \/ DiscoverFails
  \/ WriteAa \/ WriteRca \/ WriteAnchorFails
  \/ EcIssued \/ EnrolFails
  \/ LoopHead
  \/ \E recorded \in RecordedByFailure : RotateFails(recorded)
  \/ \E period \in Grants : TicketWritten(period)
  \/ WriteKey \/ WriteKeyFails
  \/ \E ok \in BOOLEAN : Flush(ok)
  \/ WakeUp

PvNext == (\E m \in Modes : Start(m)) \/ ProcessStep \/ TimePasses \/ Signal \/ Crash

\* A live process goes on (its HTTP calls return, module HttpClient) and time
\* passes; nothing makes anybody start it, signal it or crash it.
PvSpec == PvInit /\ [][PvNext]_pvVars /\ WF_pvVars(ProcessStep) /\ WF_pvVars(TimePasses)

(***************************************************************************)
(* Properties                                                              *)
(***************************************************************************)
\* While the provisioner sleeps between rotations the station has what it
\* needs: AT.coer and its own AT.key, the anchors the ticket was asked for
\* under, and a ticket in its validity period if the AA granted more than its
\* answer may take and the time to the next rotation, whatever earlier rotations,
\* failed writes, crashes and restarts left on disk.
StationEquippedWhileAsleep ==
  phase = "sleep" =>
    /\ disk.at /\ disk.key = "own"
    /\ disk.period > RotateAfter + CallTime => disk.left > 0
    /\ disk.aa = anchors.aa /\ disk.rca = anchors.rca

\* The sleep is computed from the period asked for: with a shorter grant, or a
\* rotation ratio of 1 or more, the station is without a valid ticket for the
\* time that the sleep and the answer are longer than the period granted, and for
\* no more.
OutageIsShortfall ==
  phase = "sleep" /\ disk.left = 0 => wait <= RotateAfter + CallTime - disk.period

\* Rotating at ratio * validity leaves room for failures: the last ticket
\* installed stays on disk, with its key and in its validity period, through as
\* many failed rotations in a row as fit into the rest of the period granted:
\* each of them lasts up to 91.5 s (three tries of 30 s), and 60 s follow.
TicketOutlivesRetries ==
  phase \in {"loop", "rotate", "retry"} /\ budget > 0 =>
    disk.at /\ disk.left > 0 /\ disk.key = "own"

\* Once the dump was written it never changes again while that process lives.
DumpEndsWithFlush ==
  [][phase \notin Stopped /\ phase' # "down" /\ ~dump.open => dump' = dump /\ flushed' = flushed]_pvVars

\* A failed rotation is tried again, unless the process is stopped.
RetriesGoOn == phase = "retry" ~> phase \in {"rotate"} \cup Stopped

\* A signal ends the process, in whatever phase it arrives.
ShutdownCompletes == ~running ~> phase \in Stopped

\* "Single rotation then exit": in oneshot mode the process always returns.
OneshotReturns == phase = "discover" /\ mode = "oneshot" ~> phase \in Stopped

\* "later artefacts are ignored, so a rotating provisioner cannot keep growing
\* it": what is recorded does not grow any more after a successful rotation
\* (a budget is left).
DumpStopsGrowing ==
  [][phase = "rotate" /\ budget > 0 => dump' = dump \/ phase' = "down"]_pvVars
=============================================================================
