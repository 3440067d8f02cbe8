----------------------------- MODULE CliStation -----------------------------
(***************************************************************************)
(* The commands enrol and request-at of v2xpki-cli over one key store      *)
(* directory: key pairs, the trust directory, ec.cert and at.cert.  A      *)
(* command is one process; it may exit with an error or die after any      *)
(* step, and the next command starts from the files it left.               *)
(*                                                                         *)
(* Nothing here is written atomically and no result of a write is looked   *)
(* at: a write may replace the file, damage it or not touch it.            *)
(* A key is a number, a certificate of the station is the key it           *)
(* certifies, a CA certificate is the generation of the PKI it belongs to. *)
(*                                                                         *)
(* The keys of ECs and of tickets lie in one directory.  The ticket's key  *)
(* of an id is stored under the id with "-at", which may be an id itself:  *)
(* --canonical-key canonical-at names the key of canonical's ticket.       *)
(***************************************************************************)
EXTENDS Integers

CONSTANTS
  KeyIds,   \* values of --canonical-key
  AtOf,     \* the handle of the ticket's key, the id with "-at"; an id too long has none
  Gens,     \* generations of the PKI: a root with its EA and AA
  NoFile,   \* no such file
  Torn,     \* a file that does not decode
  MaxKeys   \* bound on the key pairs generated

Keys == 1..MaxKeys
Handles == KeyIds \cup {AtOf[id] : id \in DOMAIN AtOf}

ASSUME StationAssumption ==
  /\ DOMAIN AtOf \subseteq KeyIds
  /\ \A id \in DOMAIN AtOf : AtOf[id] # id
  /\ MaxKeys \in Nat
  /\ NoFile \notin Keys \cup Gens /\ Torn \notin Keys \cup Gens

VARIABLES
  pc,     \* "idle", or the next step of the command: "ca", "root", "keys", "request", "cert"
  cmd,    \* the command that runs, or ran last: [name, id]
  mem,    \* its memory: [ca, ea, key, cert]
  store,  \* the key store: handle -> key pair
  trust,  \* trust/ea.cert, trust/aa.cert and trust/rca.cert
  disk,   \* ec.cert and at.cert
  fresh,  \* the next key pair that keygen yields
  ecId    \* history: the id whose enrolment wrote ec.cert

stVars == <<pc, cmd, mem, store, trust, disk, fresh, ecId>>

Files(S) == S \cup {NoFile, Torn}

StTypeOK ==
  /\ pc \in {"idle", "ca", "root", "keys", "request", "cert"}
  /\ cmd \in [name : {"enrol", "request_at"}, id : KeyIds]
  /\ mem \in [ca : Gens \cup {NoFile}, ea : Gens \cup {NoFile},
              key : Keys \cup {NoFile}, cert : Keys \cup {NoFile}]
  /\ store \in [Handles -> Files(Keys)]
  /\ trust \in [ea : Files(Gens), aa : Files(Gens), rca : Files(Gens)]
  /\ disk \in [ec : Files(Keys), at : Files(Keys)]
  /\ fresh \in 1..(MaxKeys + 1)
  /\ ecId \in KeyIds

NoMemory == [ca |-> NoFile, ea |-> NoFile, key |-> NoFile, cert |-> NoFile]

StInit ==
  /\ pc = "idle" /\ mem = NoMemory
  /\ cmd \in [name : {"enrol"}, id : KeyIds]
  /\ store = [h \in Handles |-> NoFile]
  /\ trust = [ea |-> NoFile, aa |-> NoFile, rca |-> NoFile]
  /\ disk = [ec |-> NoFile, at |-> NoFile]
  /\ fresh = 1 /\ ecId = cmd.id

(***************************************************************************)
(* Files                                                                   *)
(***************************************************************************)
\* write_file, store_keypair: the file is replaced, cut short or left alone.
Overwritten(old, new) == {new, Torn, old}

\* load_keypair succeeds.
Loads(handle) == store[handle] \in Keys

Bug_SameHandle(id) == id

\* KeyHandle::from(ec_key_id + "-at")
AtHandle(id) == AtOf[id]

(***************************************************************************)
(* The steps of a command                                                  *)
(***************************************************************************)
Run(name, id) ==
  /\ pc = "idle"
  /\ pc' = "ca" /\ cmd' = [name |-> name, id |-> id] /\ mem' = NoMemory
  /\ UNCHANGED <<store, trust, disk, fresh, ecId>>

\* Exit with an error at whatever step, or death of the process.
Stop ==
  /\ pc # "idle"
  /\ pc' = "idle"
  /\ UNCHANGED <<cmd, mem, store, trust, disk, fresh, ecId>>

\* enrol: GET /cert/ea, then trust/ea.cert.
FetchEa(g) ==
  /\ pc = "ca" /\ cmd.name = "enrol"
  /\ \E f \in Overwritten(trust.ea, g) : trust' = [trust EXCEPT !.ea = f]
  /\ mem' = [mem EXCEPT !.ca = g, !.ea = g]
  /\ pc' = "root"
  /\ UNCHANGED <<cmd, store, disk, fresh, ecId>>

\* request-at: GET /cert/aa and /cert/ea (ea = NoFile: no answer), then trust/aa.cert.
FetchAa(g, ea) ==
  /\ pc = "ca" /\ cmd.name = "request_at"
  /\ \E f \in Overwritten(trust.aa, g) : trust' = [trust EXCEPT !.aa = f]
  /\ mem' = [mem EXCEPT !.ca = g, !.ea = ea]
  /\ pc' = "root"
  /\ UNCHANGED <<cmd, store, disk, fresh, ecId>>

\* GET /trustanchor, then trust/rca.cert; request-at now writes trust/ea.cert.
FetchRoot(g) ==
  /\ pc = "root"
  /\ \E r \in Overwritten(trust.rca, g) :
       \E f \in IF cmd.name = "request_at" /\ mem.ea # NoFile
                  THEN Overwritten(trust.ea, mem.ea) ELSE {trust.ea} :
         trust' = [trust EXCEPT !.rca = r, !.ea = f]
  /\ pc' = "keys"
  /\ UNCHANGED <<cmd, mem, store, disk, fresh, ecId>>

\* A new key pair is stored under the handle; the result is ignored.
GenerateAndStore(handle) ==
  /\ fresh \in Keys
  /\ \E k \in Overwritten(store[handle], fresh) : store' = [store EXCEPT ![handle] = k]
  /\ mem' = [mem EXCEPT !.key = fresh]
  /\ fresh' = fresh + 1

Bug_AlwaysGenerates ==
  /\ pc = "keys" /\ cmd.name = "enrol"
  /\ GenerateAndStore(cmd.id)
  /\ pc' = "request"
  /\ UNCHANGED <<cmd, trust, disk, ecId>>

\* enrol uses the canonical key it finds, and generates one if there is none.
CanonicalKey ==
  /\ pc = "keys" /\ cmd.name = "enrol"
  /\ IF Loads(cmd.id)
       THEN mem' = [mem EXCEPT !.key = store[cmd.id]] /\ UNCHANGED <<store, fresh>>
       ELSE GenerateAndStore(cmd.id)
  /\ pc' = "request"
  /\ UNCHANGED <<cmd, trust, disk, ecId>>

\* request-at needs an ec.cert, the EC's key, an EA and a handle for the
\* ticket's key, and always generates.
TicketKey ==
  /\ pc = "keys" /\ cmd.name = "request_at"
  /\ disk.ec # NoFile /\ Loads(cmd.id) /\ mem.ea # NoFile
  /\ cmd.id \in DOMAIN AtOf
  /\ GenerateAndStore(AtHandle(cmd.id))
  /\ pc' = "request"
  /\ UNCHANGED <<cmd, trust, disk, ecId>>

\* request_enrolment_credential succeeds: the key pair is loaded, the EA and
\* its root are in the trust directory, the EC is for the key of the record.
EcGranted ==
  /\ pc = "request" /\ cmd.name = "enrol"
  /\ Loads(cmd.id)
  /\ trust.ea = mem.ca /\ trust.rca = mem.ca
  /\ mem' = [mem EXCEPT !.cert = mem.key]
  /\ pc' = "cert"
  /\ UNCHANGED <<cmd, store, trust, disk, fresh, ecId>>

Bug_KeyOfRecord(id) == mem.key

\* request_authorization_ticket replaces the key of the record by the one it
\* loads from the key store.
CertifiedKey(id) == store[AtHandle(id)]

Bug_NoLoadCheck ==
  /\ pc = "request" /\ cmd.name = "request_at"
  /\ disk.ec = store[cmd.id]
  /\ {trust.aa, trust.rca} = {mem.ca} /\ trust.ea = mem.ea
  /\ mem' = [mem EXCEPT !.cert = CertifiedKey(cmd.id)]
  /\ pc' = "cert"
  /\ UNCHANGED <<cmd, store, trust, disk, fresh, ecId>>

\* request_authorization_ticket succeeds; the authorities accept a request only
\* under an EC whose key signed it.
TicketGranted ==
  /\ pc = "request" /\ cmd.name = "request_at"
  /\ Loads(cmd.id) /\ Loads(AtHandle(cmd.id))
  /\ disk.ec = store[cmd.id]
  /\ {trust.aa, trust.rca} = {mem.ca} /\ trust.ea = mem.ea
  /\ mem' = [mem EXCEPT !.cert = CertifiedKey(cmd.id)]
  /\ pc' = "cert"
  /\ UNCHANGED <<cmd, store, trust, disk, fresh, ecId>>

\* The credential is written and the command returns 0.
WriteCert ==
  /\ pc = "cert"
  /\ IF cmd.name = "enrol"
       THEN \E f \in Overwritten(disk.ec, mem.cert) :
              /\ disk' = [disk EXCEPT !.ec = f]
              /\ ecId' = IF f = mem.cert THEN cmd.id ELSE ecId
       ELSE \E f \in Overwritten(disk.at, mem.cert) :
              disk' = [disk EXCEPT !.at = f] /\ UNCHANGED ecId
  /\ pc' = "idle"
  /\ UNCHANGED <<cmd, mem, store, trust, fresh>>

StNext ==
  \/ \E name \in {"enrol", "request_at"}, id \in KeyIds : Run(name, id)
  \/ Stop
  \/ \E g \in Gens : FetchEa(g) \/ FetchRoot(g)
  \/ \E g \in Gens, ea \in Gens \cup {NoFile} : FetchAa(g, ea)
  \/ CanonicalKey \/ TicketKey
  \/ EcGranted \/ TicketGranted
  \/ WriteCert

StSpec == StInit /\ [][StNext]_stVars

(***************************************************************************)
(* Properties                                                              *)
(***************************************************************************)
\* An id that is the name of another id's ticket key, as canonical-at is.
IsTicketName(id) == \E other \in DOMAIN AtOf : AtOf[other] = id

\* An ec.cert that can be read certifies a key that the key store still holds
\* under the id it was enrolled with, whatever commands were run since and
\* wherever they failed: enrol never generates over a key that loads.  Only an
\* id that is a ticket's name may have lost it, to request-at of the other id.
EnrolmentKeyHeld == disk.ec \in Keys /\ ~IsTicketName(ecId) => store[ecId] = disk.ec

\* A ticket and an EC never certify one key, so the two stay unlinkable although
\* their keys share one store and a failed write leaves the old key in place:
\* unless the EC was enrolled with an id that is a ticket's name.
TicketHasItsOwnKey ==
  disk.at \in Keys =>
    /\ disk.ec = disk.at => IsTicketName(ecId)
    /\ \A id \in KeyIds : store[id] = disk.at => IsTicketName(id)

\* When at.cert is replaced, the key that it certifies is in the key store at
\* that moment, even if storing the new key failed before the request.
TicketWrittenWithItsKey ==
  [][disk'.at # disk.at /\ disk'.at \in Keys => disk'.at = store'[AtOf[cmd.id]]]_stVars
=============================================================================
