--------------------------- MODULE RequestPeriods ---------------------------
(***************************************************************************)
(* The validity period of an EC on its way through the client: the days of *)
(* the caller's record, the 16-bit hours of the request, the Duration of   *)
(* the certificate that an EA issues exactly as asked, and the seconds     *)
(* that valid_at counts with.  The facade validates the record first, the  *)
(* provisioner does not.                                                   *)
(***************************************************************************)
EXTENDS Integers

CONSTANTS
  Asked,     \* the days that callers ask for
  Width,     \* the number of values of uint16_t, 65536
  MaxDays    \* the limit of validate_ec_record, 3650

VARIABLES
  caller,   \* "facade" or "provisioner"
  asked,    \* validity_period_days of the record
  stage,    \* "record", "refused", "requested" or "issued"
  hours,    \* desc.validity_duration_hours
  seconds   \* validity_duration_seconds of the certificate issued

rpVars == <<caller, asked, stage, hours, seconds>>

RpInit ==
  /\ caller \in {"facade", "provisioner"} /\ asked \in Asked
  /\ stage = "record" /\ hours = 0 /\ seconds = 0

\* The period check of validate_ec_record.
PeriodAllowed(days) == days \in 1..MaxDays

\* assemble_ec_request: static_cast<uint16_t>(days * 24)
EcHours(days) == (days * 24) % Width

\* duration_seconds of the choice hours, which the request uses.
DurationSeconds(h) == h * 3600

\* request_enrolment_credential refuses the record.
Refuse ==
  /\ stage = "record" /\ caller = "facade" /\ ~PeriodAllowed(asked)
  /\ stage' = "refused"
  /\ UNCHANGED <<caller, asked, hours, seconds>>

Request ==
  /\ stage = "record" /\ (caller = "facade" => PeriodAllowed(asked))
  /\ hours' = EcHours(asked)
  /\ stage' = "requested"
  /\ UNCHANGED <<caller, asked, seconds>>

\* The EA grants what was requested.
Issue ==
  /\ stage = "requested"
  /\ seconds' = DurationSeconds(hours)
  /\ stage' = "issued"
  /\ UNCHANGED <<caller, asked, hours>>

Done == stage \in {"refused", "issued"} /\ UNCHANGED rpVars

RpNext == Refuse \/ Request \/ Issue \/ Done

RpSpec == RpInit /\ [][RpNext]_rpVars

\* "validity_period_days must be 1-3650": an EC granted as requested lasts as
\* many days as the record that validate_ec_record accepted says.
EcPeriodAsAsked ==
  stage = "issued" /\ caller = "facade" => seconds = asked * 86400
=============================================================================
