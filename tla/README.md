# A TLA+ model of v2x-pki-client

`v2x-pki-client` is the client side of an ETSI ITS PKI (TS 102 941, TS 103 097):
it discovers which authorities are trusted, enrols a station (EC, enrolment
credential) and obtains authorization tickets (AT). This directory holds TLA+
modules translated from the C++ sources, TLC configurations that check them on
small instances, and TLAPS proofs of the main results for every value of the
constants. `PROJECT.json` lists components, runs, findings, hazards and theorems
and maps every definition to the lines it models.

To check a run: `tlc -config MCDiscovery.cfg MCPkiClient`; to check proofs:
`tlapm HttpClientProofs.tla`.

## 1. Inventory

| Component | State | Operations | Hard behaviour | What makes it correct |
|---|---|---|---|---|
| HTTP client (`http_client.cpp`) | response buffers, attempt counter | `get`, `post` | retries of POSTs, answers cut half way, waits that double | the caller gets what the last try brought, whole, or an error; bounded repeats; it returns |
| Revocation store (`revocation.cpp`) | issuer -> revoked HashedId8s, clock | `apply`, `is_revoked`, `decode_crl` | lists out of order, stale lists | lists of one issuer say nothing of others; only a list in date takes a revocation back (that one can at all is the KNOWN NON-CONFORMANCE of `revocation.hpp:33-34`) |
| Trust chain (`trust_chain.cpp`) | HashedId8 -> certificate, label | `add_cert`, `load_from_directory`, `validate_chain`; lookups by label, read only | certificates, revocations and time arriving in any order; damaged files | accepts exactly what has a path of trust |
| Trust lists (`trust_list.cpp`) | none | `decode_ectl`, `decode_rca_ctl` | expired lists; entries of a kind the list should not have, which nothing checks | see facade |
| Facade (`pki_client.cpp`) | trust store, revocation store, routes (`ea_url`, `aa_url`) | `discover_trust`, `fetch_*`, `fetch_crl`, `request_enrolment_credential`, `request_authorization_ticket` | operations of several HTTP calls of which some fail; late and foreign responses; time passing between request and response | what is trusted has provenance; routes and topology are all or nothing, and the CAs of the topology stay stored; only the answer to the request in hand is handed out |
| Requests and responses (`ec_request.cpp`, `at_request.cpp`, `internal/encrypted_data.cpp`, `internal/signed_message.cpp`) | none | `validate_*`, `assemble_*`, `encode_*`, `decode_*` | 16-bit hours; random draws that fail; keys used under a curve they are not on; CAs without an encryption key; responses that decrypt but answer another request | the period asked for is the period requested; a request made of matching keys is accepted; no authority links a ticket with its EC; request hash |
| Provisioner (`tools/pki-provisioner`) | `AA.coer`, `RCA.coer`, `AT.coer`, `AT.key`, wire dump, `g_running` | discover, write anchors, enrol, rotate, sleep, retry, flush, signal | crashes between two writes, failing writes, expiry against retries that take time themselves, unchecked periods, signals in any phase | the station has what it needs between rotations; retries and shutdown go on |
| Key store (`plaintext_file_key_store.cpp`) | one PEM file per handle, for ECs and tickets in one directory | `store_keypair`, `load_keypair`, `sign`, `derive_shared_secret` | in-place rewrite, results that callers ignore | the key of a credential in use is never lost |
| Command line (`cli/`) | key store directory with `trust/`, `ec.cert`, `at.cert` | `enrol`, `request-at`; `fetch-trust` and `fetch-ectl --out` write downloads to the path given, the others print | sequences of commands that fail half way; key names that collide; `--curve` names that are not known | certificates and keys on disk belong together |
| Cryptographic primitives (`crypto_ec.cpp`, `ecies.cpp`, `internal/curve_point.cpp`, `sizes.hpp`) and codecs (`internal/signed_envelope.cpp`, `internal/coer.cpp`) | none | key generation, ECDSA, ECIES, curve labels, envelopes | keys are bytes that do not name their curve, and lengths are all that is checked | what carries a curve's label was made on that curve |

Interaction: the facade owns the trust chain (which reads the revocation store),
the key store and an HTTP client, and calls them synchronously; nothing in the
library runs concurrently. The command line is a process over the facade. The
provisioner uses the facade for discovery only: `flow.cpp` calls `assemble_*`,
`encode_*`, `HttpClient::post` and `decode_*` itself, without the record checks, the
trust chain and the key store. Both share state with their next incarnation,
and with the V2X stack, through files only. Concurrency therefore comes from the network (which
answer arrives, when), the clock, signals, and the death and restart of
processes, and the models have one action per point at which one of these can
intervene.

## 2. Modules

    HttpCall         abstract: what one HTTP call promises
    HttpClient       the retry loop; implements HttpCall
    RevocationStore  CRLs
    TrustChain       certificates and validate_chain       EXTENDS RevocationStore
    TrustLists       lists, and the topologies that can be put together from them
    PkiClient        the facade                            EXTENDS TrustChain, TrustLists
    CredentialExchange  abstract: what a credential request promises its caller;
                     implemented by PkiClient
    RequestMessages  what EC and AT requests are made of, and who can open,
                     verify and link them
    RequestPeriods   the validity period of an EC on its way through the client
    Provisioner      pki-provisioner
    CliStation       enrol and request-at over a key store directory
    MC*              instances for TLC
    *Proofs          theorems about the module of that name; TrustListsProofs holds
                     the lemmas on concatenated lists that PkiClientProofs cites

How they compose: `PkiClient` takes an HTTP call as one step with an answer of
the server or `Error::Network`, which is what `HttpCall` promises and what the
property `RefinesHttpCall` shows `HttpClient` to implement; `HttpCall` says what the
code keeps, that the answer is what the last try brought, and the stronger promise
of the comment in `http_client.cpp` has a run of its own (`http_promise`). What the
facade's callers (`CliStation`, `RequestMessages`) rely on is `CredentialExchange`: one
request open at a time, closed once, granted only by the answer of the CA asked.
`PkiClient` implements it (`ImplementsExchange`), including the fairness: a request
is closed in the end. The first refinement is proved (`RetryLoopImplementsCall`), of
the second every step (`ExchangeSafety`). `Provisioner` takes
discovery to return one of `TrustLists!DiscoveryResults`, and `PkiClient`'s
property `TopologyIsDiscoverable`, proved as `TopologiesAreDiscoverable`, shows that
`discover_trust` returns nothing else.

Operators called `Bug_...` are deliberately wrong variants of the definition
that follows them (a dropped guard, an off-by-one, a missing reset). No
specification uses them: they show that a property notices the mistake.

### HttpClient (`http_client.cpp`)
`pc` is the position in `perform_with_retry`; an attempt ends in a status code, a
transient or a permanent curl error (`Answered`, `TransientFailure`,
`PermanentFailure`), the last two possibly after the server has acted or half the
bytes have arrived. A response is its status and the set of attempts whose bytes
are in the buffers, so a missing reset at the head of the loop is visible. `log`,
`handled` and `slept` are histories.

### RevocationStore and TrustChain
A certificate is a value that stands for its HashedId8, taken to be collision
free; `Info` holds the decoded fields. A signature is the certificate whose key
made it: the signed digest covers the encoding of the issuer's certificate, so no
other verifies it. `ValidateChain` is `validate_chain` check by check;
`IsTrustPath` is the independent reference it is compared with. `Crls` may
be delivered in any order once published. The header notes beside `apply` that a
list which drops an entry reinstates it, against the standard ("KNOWN
NON-CONFORMANCE", `revocation.hpp:33-34`): `ReinstatedOnlyByListInDate` says by which
lists, not that none may.

### PkiClient
One action per HTTP call of each operation, for success, failure to fetch and
refusal to decode. `discover_trust` is `DiscoverTlm`, `TlmReceived`,
`EctlReceived`, and one `CtlReceived`, `CtlRefused` or `CtlFetchFails` for each RCA,
with the topology under construction kept aside; certificates are stored as the
code stores them, step by step. A list of either kind may carry every kind of
entry, since the decoder checks no constraints and `parse_ctl_entries` reads them
all: EAs and AAs of an ECTL enter the topology and its routes but not the store,
RCAs of a CTL are left out. A certificate fetched by name gets the name as its
label, "ea" and "aa" included; `fetched` remembers those, and `discovered` the
topologies returned, in order. `Keyless` are certificates whose key
`cert::from_coer` could not read: nothing verifies under them. `refused` holds the places in the list of RCAs
whose CTL was refused, not the RCAs: an ECTL may list one twice, and its CTL may be
refused the first time and verified the second. A credential request posts, and
`ResponseReceived` is offered any message the network may hold: the answer to
this request or an earlier one, made for this key or another, signed by any CA,
for any certificate. `CredentialVerdict` is the sequence of checks on the
certificate, `StoreAfter` what is kept.

### Provisioner
`phase` is the position in `main`, with one action per external effect of `flow.cpp`
(request, file write, flush, sleep). `mode` is the `--oneshot` option of the process,
chosen whenever it is started. Files survive `Crash`; memory does not.
Tickets, EC and sleeps are counted in what is left of them, so the state space is
finite without a bound on time. The AA grants any period in `Grants`, up to the
one asked for; `SleepTime` is computed from the one asked for, as in the code, and
the rotation ratio may be 1 or more. `ValidityHours` is any number, as the option is:
`AtValidity` is what the cut to 65535 and the cast to 16 bits make of it.
`atomic_write` is one step that happens or not. Time passes while the process is
down, discovers, sleeps or waits for the answer to a request: a call may
take `CallTime` (three tries of 30 s and 1.5 s of backoff, more than the 60 s of
`RetryAfter`), and the period of a credential begins when its request is made
(`LeftOf`).

### CredentialExchange
`Ask`, `Grant` and `Refuse`. The refinement mapping of `PkiClient` takes `sent` to
the requests, `pc = "response"` to an open one, and drops discovery, fetches, CRLs,
the clock and the network's stock of late responses.

### RequestMessages
A `KeyPair` of the code is bytes without a curve. Here a key is a scalar and the
curve it was generated on, and every function that is handed a key together with
a curve does what it does when the two differ: refuse it by its length
(`FromSec1`, `RecordValid`), work on another point (`Signers`), or seal for nobody
(`Envelopes`, where half of the compressed points of one curve decompress on
another). `EcRequests` and `AtRequests` are the sets of requests that
`encode_ec_request` and `encode_at_request` may make of their arguments, `NoRequest`
standing for an error. `Enrol` and `RequestAt` are the parts of the two commands
that choose keys and curves, over a key store whose writes may fail. `ParseCurve`
takes every name it does not know, "nist-p384" among them, for NIST P-256, as the
command line does; programs over the library may ask for NIST P-384 (`RecordCurves`).
`AtOf` is the name of a ticket's key, the id with "-at", which may be an id as
well. The draws whose failure the code passes over, of the HMAC key
(`assemble_at_request`) and of the AES key of an envelope (`ecies_encrypt`), yield
zeros or a random key. The authorities (`EaAccepts`, `AaAccepts`, `EaVouches`) are external: they check what the
encoders put into a message to be checked. Requests stay in `posted` and may be
handled at any later time, and twice. `knows` is the history of what each
authority could read.

### RequestPeriods
Days of the record, the cast to `uint16_t` (`% Width`), the Duration of an EC issued
exactly as asked, and the seconds `valid_at` counts with. The facade checks the
record first, the provisioner does not. Ticket periods are in `Provisioner`.

### CliStation
A command is a process: fetch the CA (`FetchEa`, `FetchAa`), fetch the root, find or
make the key, request, write the credential. Every write may replace a file,
damage it or leave it (`Overwritten`), since `write_file` and `store_keypair`
truncate in place and the commands look at neither result. `Stop` after any step
is an error exit or the death of the process. Ids and ticket names share the
directory: `AtOf[id]` may be an id, as `canonical-at` is to `canonical`, and an id too
long for the suffix has no `AtOf`. `ecId` is the id that `ec.cert` was enrolled with.

## 3. Runs

| Run | Instance | Shows |
|---|---|---|
| `http_client` | 3 retries, six status codes on the borders of the classes, transient and permanent errors | `ReturnedResponseIsWhole`, `RetryPolicy`, `CallReturns`, and that the loop implements `HttpCall` |
| `trust_chain` | two roots, good, badly signed and nested CAs, end certificates below each, CRLs of two issuers, clock 0..3 | `validate_chain` accepts exactly what has a path of trust; revoking a CA cuts off all below it; learning a certificate withdraws no acceptance; CRLs speak for their issuer only; only a list in date reinstates |
| `discovery` | two TLMs, two RCAs with an EA and an AA each, lists signed by the right and by other authorities, an ECTL that lists an RCA three times and an EA and an AA itself, a CTL that lists an RCA and CAs without access points, a distribution centre named by another RCA's CTL, a trust directory with an EA in it, certificates fetched as "ea" and "aa", two operations | provenance of every CA, all-or-nothing routes and topology, each route that of the last topology that gave one, the CAs of the topology stored, CTLs from named centres only, operations return |
| `credentials` | one key held of two, EC and AT requests, CRL, certificate fetches, an RCA whose key cannot be read, three operations, clock 0..2 | a grant answers its own request, has a path of trust at that moment, and a refused response leaves no trace; `PkiClient` implements `CredentialExchange` |
| `request_messages` | all four curves, two key names of which one is that of the other's tickets, two EAs and an AA (Brainpool or no encryption key), three key pairs, three requests, draws that fail | what is posted is complete; a request made of matching keys is accepted, whatever `--curve` says and whenever it is handled; no signature carries the label of another curve; `ec.cert` certifies a key that is held, unless its id is the name of a ticket's key; an EA links a ticket with its EC only if the HMAC key is zeros, an AA only if the AES key is |
| `provisioner` | 12 hours asked for of which 9 fit, grants of 9 or 3, rotation after 3, calls of up to 1, retry after 1, EC 10 | the station is equipped while the process sleeps, and without a valid ticket for no longer than the grant falls short of the sleep and its own answer; tickets outlive the failed rotations that fit, calls included; the dump ends with its flush; retries go on; a signal ends the process, and so does one rotation in oneshot mode, whatever fails |
| `cli_station` | three key names, two of them names of ticket keys, a PKI renewed once, three key pairs | an `ec.cert` keeps its key and a ticket does not share it, unless it was enrolled under the name of a ticket's key; a ticket is written with its key |

Five further runs are expected to be violated. Each states what a
comment, header or check of the repository says, and TLC's counterexample is what
the code does; `findings` in `PROJECT.json` quotes the lines.

| Run | What the code does |
|---|---|
| `http_promise` | a 503 followed by a try without an answer ends in `Error::Network`: "only if no response was ever obtained" does not hold |
| `crl_order` | an older CRL that still is in date replaces a newer one |
| `pinned_tlm` | the TLM certificate served is not compared with the pinned HashedId8 |
| `dump_growth` | after a failed flush the dump keeps growing |
| `ec_period` | EC periods of 2731 days or more wrap around |

Behaviours that the models reach and that no run is devoted to, most of them because
no document states a promise sharp enough to hold against the code: the
HMAC key of a ticket request is zeros when none could be drawn, although
`at_request.hpp` calls it random, and so is the AES key of an envelope, and
`NobodyLinks` says to whom each gives the EC away; after `enrol --canonical-key
canonical-at`, `request-at` overwrites the key of that EC, and before it `enrol`
certifies a ticket's key (`EnrolmentKeyHeld`, `TicketHasItsOwnKey` and
`CertifiedKeyHeld` say that nothing else does); a route outlives its topology when
the next one gives none (`RoutesFollowTopology` says exactly when); an EA that an
ECTL names is a route without a certificate (`TopologyIsStored`); a certificate
fetched as "ea" is labelled like one that discovery verified (`CaProvenance`);
`AT_VALIDITY_HOURS` of 0 asks for a ticket that has expired, -1 for 65535 hours; a
CA without an encryption key whose verification key is not on NIST P-256 gets a
request it cannot open, or none is made (`MatchedRequestsAccepted` excepts it);
`--curve nist-p384` silently is NIST P-256, and NIST P-384 asked for through the
library always ends in an error; storing a certificate again replaces the
label its role is looked up by; the expired flag of an RCA's CTL does not reach
the caller of `discover_trust`; a failed write of `AT.key` leaves a new ticket
beside an older key until the next rotation; `RCA.coer` need not be the root of
`AA.coer` when the first RCA's CTL could not be fetched; the provisioner never
renews its EC; `request-at` certifies the key of the last ticket again when the
new one could not be stored, and leaves `at.cert` without its key when the request
fails.

### Bounds
`MaxRetries` 3 is the shortest loop with a first, a middle and a last retry;
the proofs hold for all. Two of everything (roots, TLMs, RCAs, key names) let
what belongs to one be confused with what belongs to the other, and no handler
relates three. Chains have at most three certificates in `validate_chain`; the
instance has one certificate below a CA that is itself below a CA, which must be
refused. `MaxOps` 2 (discovery) allows a second discovery over the results of the
first; 3 (credentials) a request, a CRL or another request, and a request.
`MaxTime` passes the end of every validity period and `nextUpdate` used. The
provisioner's periods satisfy call + retry < validity - rotation < validity < EC, so a
ticket survives some failures but not all, and the EC ends within three rotations;
a grant of 3 ends before the rotation after 3 if its answer took any time. `Width`
10 lets the hours asked for, 12, not fit.
`MaxEntries` caps the artefacts counted per step of a dump at two: one more than
a dump should have. `MaxKeys` 3 is an EC key, the key of a first ticket and that
of a second, or the key of a second enrolment under the name of the first's ticket;
`MaxPosts` 3 is an EC request and two more of either kind. The constraint `OnlyCasStored` of `trust_chain` keeps end
certificates out of the store, where they are no issuers; the proofs need no
constraint. `CHECK_DEADLOCK FALSE` is set where the bound on operations ends the
behaviour.

### Fairness
`HttpClient` has weak fairness of its next step: `apply_common_opts` gives every
transfer a connect and a total timeout, so an attempt ends. `PkiClient` has weak
fairness of the steps of an operation for the same reason, none of `Call` or
time; `CredentialExchange` asks for no more than that an open request is closed. `Provisioner` has weak fairness of the process's steps and of time while it
sleeps or waits for an answer; nothing makes requests succeed, the process restart or a signal come.
Everything else is safety.

## 4. Proofs

| Module | Theorems | Assumptions |
|---|---|---|
| `HttpClientProofs` | `TypeCorrect`, `LoopInvariant`, `WholeResponse`, `PolicyHolds`, `DuplicatesBounded`, `BackoffDoubles`, `RetryLoopImplementsCall`, `CallAdvances` | `ConfigAssumption`, `ShiftAssumption` (powers of two up to the shift's limit, which TLC evaluates) |
| `TrustChainProofs` | `TcTypeCorrect`, `VerdictCorrect`, `RevocationReachesDown`, `LearningIsSafe`, `StaleListsReinstateNobody`, `CrlsSpeakForTheirIssuers` | `CertAssumption`, `CrlAssumption`: types of the fields |
| `TrustListsProofs` | lemmas only | none |
| `PkiClientProofs` | `PkTypeCorrect`, `GrantsAnswerTheirRequests`, `GrantsHaveTrustPath`, `ErrorsLeaveNoTrace`, `ExchangeSafety`, `DiscoveryInvariant`, `CtlsFromKnownCentres`, `RoutesNeedAllVerified`, `CasHaveProvenance`, `RoutesOfTopology`, `TopologiesAreStored`, `TopologiesAreDiscoverable`, `OperationAdvances` | `ClientAssumption` (types of lists, labels, URLs and keys), `CertAssumption`, `CrlAssumption` |
| `RequestMessagesProofs` | `MessagesInvariant`, `MessagesTypeCorrect`, `LabelsNeverLie`, `CertifiedKeysAreHeld`, `TicketsAreUnlinkable`, `MatchedRequestsAreAccepted` | `MessagesAssumption`: types of the CA certificates, that a ticket's key has another name than its EC's, and that two CAs have two names (a name is a HashedId8, and hashes are injective) |
| `ProvisionerProofs` | `PvTypeCorrect`, `Equipment`, `StationIsEquipped`, `OutageBounded`, `TicketOutlives`, `DumpIsFinal`, `SignalledProcessAdvances`, `OneshotAdvances` | `PeriodAssumption` (grants up to the period asked for; any hours, rotation ratio, length of calls), `TopologyAssumption` |
| `CliStationProofs` | `StTypeCorrect`, `StationInvariant`, `EnrolmentHeld`, `TicketOwnKey`, `TicketWithKey` | `StationAssumption` (a ticket's key has another name than its own EC's key; it may have that of any other) |

Every invariant, and every action property, that a passing run checks is thereby
proved for all values of the constants. The inductive invariants were
checked with TLC on the runs' instances before they were proved.

*HttpClient.* That the response returned is whole is not inductive: it needs that
`log` is as long as the attempts ended at each position of the loop (`LoopInv`), that
all but the last were retryable (`HistoryInv`), that a loop left early met a final
outcome (`StopInv`) and that the server acted only on attempts ended
(`HandledInv`). `IndInv` is their conjunction; each property follows from it.
That a request reaches the server at most `max_retries` + 1 times
(`DuplicatesBounded`, which the refinement of `HttpCall` implies as well) and that the
waits double (`BackoffDoubles`) are stated as theorems only. For the refinement an
attempt that ends, however it ends, is a `Try` of `HttpCall` (`AttemptIsTry`): it adds
its reply to those seen (`AttemptAddsReply`), and if the call returns a response,
`ReturnedResponseIsWhole` makes that the newest reply; `EasyInitFails` is `GiveUp`, and
all other steps are invisible.

*TrustChain.* `VerdictIsTrustPath` is a fact about `ValidateChain` in any typed
state. `AcceptedHasPath` exhibits the path of an accepted certificate,
`PathIsAccepted` follows the checks of the code along a given path; the others
are consequences, except that a CRL speaks for its issuer only: that
rests on `VerdictReadsTwoIssuers`, that a verdict looks at the revocations of no
more than the issuer and the issuer's issuer.

*TrustLists.* A topology is made of the concatenated entries of several CTLs,
`FlattenSeq` of the community modules, a recursive function. What it computes
is needed for every number of RCAs. The induction is by a least counterexample:
`LeastNumber` takes it from the well-foundedness of < on the naturals, a fact about
a set and not about an operator. From it follow that `FlattenSeq` exists and
is unique (`FlattenExists`, `FlattenUnique`), its defining equation (`FlattenSteps`), its
type, and what one more list adds (`FlattenMore`).

*PkiClient.* Most steps change little of what a property is about, so two lemmas
sort them first: `ExchangeSteps` into those that ask, grant, refuse or are unseen by
the caller of a credential request, `DiscoverySteps` into the steps of discovery and
those aside. Credentials rest on `GrantsBound` (grants stay tied to the request
they answer) and `GrantFacts` (what all checks on a response together amount to),
and on `VerdictCorrect` for the chain of trust. `DiscoveryInv` describes the middle
of `discover_trust`: the topology in hand is what the ECTL and one CTL or silence
for each RCA handled so far make up (`WorkIsGathered`), what it names is stored
(`DiscoveryStores`), its flag is FALSE exactly if a CTL was refused
(`FlagTellsRefusal`), and each distribution centre in it is named by a list that was
verified (`CentresKnown`). At the end of the loop `WorkIsGathered` is membership
in `DiscoveryResults` (`GatheredIsResult`). That the routes are those of the last topology
that gave one goes by what one more topology changes (`EaRouteMore`, `AaRouteMore`). Two claims turned out to be false as first
written: with an RCA twice in an ECTL `refused` has to hold places, and a file of
the trust directory may carry the label of an EA or AA. Definition and
properties were changed and both cases are now in the run's instance.

*RequestMessages.* What leaves an encoder has a fixed shape whatever went in
(`EcEncoded`, `AtEncoded`): a signature that was made shows that pair and curve have
one length, a verification key that was made that the curve is not NIST P-384, so
that the label of the key, those of the signatures and the points that signed all
name one curve. That is all
`SignaturesCarryTheirCurve` needs; no invariant about the store does.
`MessagesInv` adds what the station and the authorities do with requests: a
canonical key is never replaced, unless a ticket's key goes by its name, so an EC
request's pair is still held (`MadeWithHeldKey`), so is the key of an EC, because an EA accepts a request only if its
pair lies on its curve (`AcceptedKey`, `IssuedForRequested`), and an AT request names
an EC that was issued (`SignedByIssued`). That nobody links a ticket with its EC rests
on the two envelopes naming two authorities (`AaCannotOpenEcSignature`), so that an AA
reads the ecSignature only under an AES key of zeros.

*Provisioner.* `EquipInv` adds to the types what is on disk in each phase
(`AnchorPart`, `PairPart`) and inequalities between the ticket's remaining
time, the period granted, the wait under way and the failures still to be
survived (`TimePart`): sleep, call and ticket run down together, so that what is left
of the sleep when the ticket ends is at most what the grant fell short of it and
of the call that brought it, and each failed rotation costs at most a call and a
retry.

*CliStation.* `StationInv` adds that the key in the memory of an enrolment is the one
in the store whenever a request can succeed (`GrantPart`), that keygen yields keys
in use nowhere (`FreshPart`), that no key is stored under two names (`OneNamePart`)
and that the key of `at.cert` is stored under names of ticket keys only (`ApartPart`). The step that matters is `CanonicalKey`: it overwrites a
canonical key only if that does not load, hence never the key of an `ec.cert`.

*Termination.* Liveness is outside what the installed provers handle. What is proved of
it is that nothing goes round in circles: each step of a call uses up one of
2 * max_retries + 2 (`CallAdvances`), an operation goes on to its next stage or
its next RCA (`OperationAdvances`), a process that was signalled or
runs once goes on to a phase nearer to its end (`SignalledProcessAdvances`,
`OneshotAdvances`). That the next step is enabled and taken is left to TLC.

Only model-checked: liveness (`CallReturns`, `OperationsReturn`, `RetriesGoOn`,
`ShutdownCompletes`, `OneshotReturns`) and the fairness part of `ImplementsExchange`,
that an open request is closed in the end.

## 5. Not modelled

- Cryptographic arithmetic and the byte conversions around it (KDF2, AES-CCM, DER):
  stateless, and out of TLC's reach. A signature is who made it on which curve over
  what, a ciphertext who can open it; hashes are injective.
- COER and ASN.1 layout, JSON and printing.
- Contents of files below whole, damaged and absent; `fclose` is not checked in
  `atomic_write`, so that on a full disk a short file may replace a good one.
  `Provisioner` assumes that a write reported as done is done.
- Threads: the classes are not thread-safe and nothing in the repository uses
  them from two threads. Two commands at once over one directory are left out.
- `--out-dir`, `--ec-cert` and `canonical.id` of the command line, `fetch-trust` and
  `fetch-ectl --out`, which write what they download to the path given, and the
  commands that only print.
- An AA that grants a longer period than the one asked for, in `Provisioner`.
- The lookups of `TrustChain` by label and the certificate builders of the tests:
  they change no state.

## 6. Plan

Done: the modules above, in the order of the table in section 2, with every
safety property of every passing run proved.

Next: `RetriesGoOn` by a measure as for the other liveness properties; `Provisioner`
over the discovery of `PkiClient` itself instead of its set of results; `CliStation`
with two commands at once.
