------------------------------ MODULE PkiClient ------------------------------
(***************************************************************************)
(* The facade class PkiClient: trust discovery, certificate and CRL        *)
(* fetches and the two credential requests, over the trust store and the   *)
(* revocation store it owns.  One operation runs at a time (the class is   *)
(* not thread-safe); what varies is what the network brings to each HTTP   *)
(* call, and the time that passes meanwhile.                               *)
(*                                                                         *)
(* HTTP calls keep the promise of module HttpCall: an answer of the server *)
(* or Error::Network.  A message is a record with the fields the client    *)
(* looks at; a signature is the certificate whose key made it, so          *)
(* signed_msg::verify against certificate c is "signer = c" (the digest    *)
(* that is signed covers the encoding of c).                               *)
(***************************************************************************)
EXTENDS TrustChain, TrustLists

CONSTANTS
  Ectls,       \* lists the TLMs published (module TrustLists)
  Ctls,        \* lists the RCAs published
  Urls,        \* access points
  NoUrl,       \* the empty string
  TlmUrl,      \* config.tlm_url
  EaUrl,       \* config.ea_url as the caller set it
  AaUrl,       \* config.aa_url as the caller set it
  PinnedTlm,   \* config.tlm_hid8, NoCert if not configured
  TrustDir,    \* the files in config.trust_dir
  Names,       \* names a caller fetches certificates by
  Keyless,     \* certificates whose verification key from_coer cannot read
  Handles,     \* key handles a caller may name
  HeldKeys,    \* the handles the key store holds a key pair for
  EndCerts,    \* certificates a CA may issue to the station
  MaxOps       \* bound on the operations called

Dcs == [url : Urls, serves : SUBSET Certs]
CaEntries == [cert : Certs, url : Urls \cup {NoUrl}]
TrustListType == [signer : Certs, nextUpdate : Nat, rcas : Seq(Certs), eas : Seq(CaEntries),
                  aas : Seq(CaEntries), dcs : Seq(Dcs)]

\* Labels the client gives; "lookup" stands for "lookup_" with the hash.  A
\* certificate that is fetched by name gets the name, which may be one of these.
ClientLabels == {"tlm", "rca", "ea", "aa", "ec", "at", "trustanchor", "lookup"}

ASSUME ClientAssumption ==
  /\ Ectls \subseteq TrustListType
  /\ Ctls \subseteq TrustListType
  /\ ClientLabels \cup Names \subseteq Labels
  /\ TlmUrl \in Urls
  /\ {EaUrl, AaUrl} \subseteq Urls \cup {NoUrl}
  /\ PinnedTlm \in Certs \cup {NoCert}
  /\ TrustDir \subseteq Files
  /\ HeldKeys \subseteq Handles
  /\ EndCerts \subseteq Certs
  /\ MaxOps \in Nat

Errors == {"InvalidArgument", "KeyStore", "NotFound", "Network", "HttpStatus",
           "Encode", "Decode", "Crypto", "SignatureInvalid", "Protocol"}
Ok == "Ok"

\* How an HTTP call can fail to bring a 200 answer.
HttpErrors == {"Network", "HttpStatus"}

VARIABLES
  pc,        \* "idle" between operations, else the HTTP answer awaited
  work,      \* result of discover_trust, the topology being put together
  idx,       \* loop index over work.rcas
  topology,  \* Impl::topology (NoTopology: nullopt)
  config,    \* Impl::config, the URLs that discovery sets
  discovered, \* history: the topologies that discoveries returned, in order
  sent,      \* the credential requests sent, in order
  ret,       \* what the last operation returned
  ops,       \* bound: operations called
  grants,    \* history: credentials handed out, as [cert, req, answered, signer]
  fetched,   \* history: what callers fetched, as [cert, label]
  refused,   \* history: the places in work.rcas where this discovery refused the CTL
  asked      \* history: where the last CTL was fetched, as [rca, url]

discVars == <<pc, work, idx>>
pkVars == <<tcVars, discVars, topology, config, discovered, sent, ret, ops, grants, fetched, refused,
            asked>>

NoTopology == [tlm |-> NoCert, rcas |-> <<>>, eas |-> <<>>, aas |-> <<>>, dcs |-> <<>>,
               verified |-> FALSE, ectl_expired |-> FALSE, ctl_expired |-> FALSE]
TopologyType == [tlm : Certs \cup {NoCert}, rcas : Seq(Certs), eas : Seq(CaEntries),
                 aas : Seq(CaEntries), dcs : Seq(Dcs), verified : BOOLEAN,
                 ectl_expired : BOOLEAN, ctl_expired : BOOLEAN]
RequestType == [kind : {"ec", "at"}, ca : Certs, handle : Handles]

PkTypeOK ==
  /\ TcTypeOK
  /\ pc \in {"idle", "tlm", "ectl", "ctl", "response"}
  /\ work \in TopologyType
  /\ topology \in TopologyType
  /\ discovered \in Seq(TopologyType)
  /\ idx \in Nat
  /\ config \in [ea_url : Urls \cup {NoUrl}, aa_url : Urls \cup {NoUrl}]
  /\ sent \in Seq(RequestType)
  /\ ret \in Errors \cup {Ok}
  /\ ops \in 0..MaxOps
  /\ pc = "ctl" => idx \in 1..Len(work.rcas)

\* The constructor: the trust directory is loaded, nothing is revoked.
PkInit ==
  /\ RevInit
  /\ certs \in Loads(TrustDir)
  /\ pc = "idle" /\ work = NoTopology /\ idx = 0
  /\ topology = NoTopology
  /\ config = [ea_url |-> EaUrl, aa_url |-> AaUrl] /\ discovered = <<>>
  /\ sent = <<>> /\ ret = Ok /\ ops = 0
  /\ grants = {} /\ fetched = {} /\ refused = {} /\ asked = [rca |-> NoCert, url |-> TlmUrl]

(***************************************************************************)
(* Helpers                                                                 *)
(***************************************************************************)
\* An operation is called.
Call == pc = "idle" /\ ops < MaxOps /\ ops' = ops + 1

\* The operation in hand returns r.
Return(r) == pc' = "idle" /\ ret' = r

CertsOf(entries) == {e.cert : e \in Range(entries)}

Bug_StoreReplaced(store, S, label) == [x \in S |-> label]

\* trust.add_cert in a loop.
AddAll(store, S, label) ==
  [x \in DOMAIN store \cup S |-> IF x \in S THEN label ELSE store[x]]

\* signed_msg::verify with the key and the encoding of c.
VerifySigned(signer, c) == c \notin Keyless /\ signer = c

Bug_AnyDc(dcs, c) == IF dcs = <<>> THEN TlmUrl ELSE dcs[1].url

\* find_dc_url: the first centre that serves c, else the fallback.
FindDcUrl(dcs, c) ==
  LET serving == {i \in DOMAIN dcs : c \in dcs[i].serves}
  IN IF serving = {} THEN TlmUrl
     ELSE dcs[CHOOSE i \in serving : \A j \in serving : i <= j].url

(***************************************************************************)
(* discover_trust                                                          *)
(***************************************************************************)
\* The TLM certificate: GET /gettlmcertificate/{pinned} or GET /tlm.
DiscoverTlm ==
  /\ Call
  /\ pc' = "tlm"
  /\ work' = NoTopology /\ idx' = 0 /\ refused' = {}
  /\ UNCHANGED <<tcVars, topology, config, discovered, sent, ret, grants, fetched, asked>>

TlmFetchFails ==
  /\ pc = "tlm"
  /\ \E e \in HttpErrors \cup {"Decode"} : Return(e)
  /\ UNCHANGED <<tcVars, work, idx, topology, config, discovered,
                 sent, ops, grants, fetched, refused, asked>>

TlmReceived(c) ==
  /\ pc = "tlm"
  /\ certs' = Add(certs, c, "tlm")
  /\ work' = [work EXCEPT !.tlm = c]
  /\ pc' = "ectl"
  /\ UNCHANGED <<revVars, idx, topology, config, discovered,
                 sent, ret, ops, grants, fetched, refused, asked>>

Bug_KeepsOldAaUrl(w) ==
  IF w.verified
    THEN /\ topology' = w /\ discovered' = Append(discovered, w)
         /\ config' = [config EXCEPT !.ea_url = IF w.eas # <<>> /\ w.eas[1].url # NoUrl
                                                  THEN w.eas[1].url ELSE @]
         /\ Return(Ok)
    ELSE /\ UNCHANGED <<topology, config, discovered>>
         /\ Return("SignatureInvalid")

\* The end of discover_trust: all or nothing for the topology and the URLs.
Conclude(w) ==
  IF w.verified
    THEN /\ topology' = w /\ discovered' = Append(discovered, w)
         /\ config' = [ea_url |-> IF w.eas # <<>> /\ w.eas[1].url # NoUrl
                                    THEN w.eas[1].url ELSE config.ea_url,
                       aa_url |-> IF w.aas # <<>> THEN w.aas[1].url ELSE config.aa_url]
         /\ Return(Ok)
    ELSE /\ UNCHANGED <<topology, config, discovered>>
         /\ Return("SignatureInvalid")

Bug_ZeroBased(w, i) ==
  /\ work' = w
  /\ IF i > Len(w.rcas)
       THEN idx' = 0 /\ UNCHANGED asked /\ Conclude(w)
       ELSE /\ idx' = i - 1
            /\ pc' = "ctl"
            /\ asked' = [rca |-> w.rcas[i], url |-> FindDcUrl(w.dcs, w.rcas[i])]
            /\ UNCHANGED <<topology, config, discovered, ret>>

\* The loop over the RCAs goes on with number i, or ends.
NextRca(w, i) ==
  /\ work' = w
  /\ IF i > Len(w.rcas)
       THEN idx' = 0 /\ UNCHANGED asked /\ Conclude(w)
       ELSE /\ idx' = i
            /\ pc' = "ctl"
            /\ asked' = [rca |-> w.rcas[i], url |-> FindDcUrl(w.dcs, w.rcas[i])]
            /\ UNCHANGED <<topology, config, discovered, ret>>

EctlFetchFails ==
  /\ pc = "ectl"
  /\ \E e \in HttpErrors \cup {"Decode"} : Return(e)
  /\ UNCHANGED <<tcVars, work, idx, topology, config, discovered,
                 sent, ops, grants, fetched, refused, asked>>

\* An ECTL that the TLM of this discovery did not sign is refused.
EctlRefused(ectl) ==
  /\ pc = "ectl"
  /\ ~VerifySigned(ectl.signer, work.tlm)
  /\ Return("SignatureInvalid")
  /\ UNCHANGED <<tcVars, work, idx, topology, config, discovered,
                 sent, ops, grants, fetched, refused, asked>>

\* TrustTopology result = *ectl_topo: whatever the list carried, EAs and AAs too.
AfterEctl(ectl) ==
  [work EXCEPT !.rcas = ectl.rcas, !.eas = ectl.eas, !.aas = ectl.aas, !.dcs = ectl.dcs,
               !.verified = TRUE, !.ectl_expired = ListExpired(ectl, now)]

\* Of the ECTL's CAs only the RCAs are stored.
EctlReceived(ectl) ==
  /\ pc = "ectl"
  /\ VerifySigned(ectl.signer, work.tlm)
  /\ certs' = AddAll(certs, Range(ectl.rcas), "rca")
  /\ NextRca(AfterEctl(ectl), 1)
  /\ UNCHANGED <<revVars, sent, ops, grants, fetched, refused>>

Bug_StartsOver ==
  /\ pc = "ctl"
  /\ pc' = "ectl"
  /\ work' = [NoTopology EXCEPT !.tlm = work.tlm] /\ idx' = 0
  /\ UNCHANGED <<tcVars, topology, config, discovered,
                 sent, ret, ops, grants, fetched, refused, asked>>

\* No answer or not 200: the RCA is left out, the loop goes on.
CtlFetchFails ==
  /\ pc = "ctl"
  /\ NextRca(work, idx + 1)
  /\ UNCHANGED <<tcVars, sent, ops, grants, fetched, refused>>

\* result.ctl_signature_verified = false
CtlRefusal(w) == [w EXCEPT !.verified = FALSE]

\* A CTL that does not decode, or that this RCA did not sign.
CtlRefused ==
  /\ pc = "ctl"
  /\ NextRca(CtlRefusal(work), idx + 1)
  /\ refused' = refused \cup {idx}
  /\ UNCHANGED <<tcVars, sent, ops, grants, fetched>>

Bug_AnySigner(ctl, rca) == TRUE

\* ctl_topo->ctl_signature_verified
CtlVerified(ctl, rca) == VerifySigned(ctl.signer, rca)

Bug_FlagOverwritten(w, ctl) ==
  [w EXCEPT !.eas = @ \o ctl.eas, !.aas = @ \o ctl.aas, !.dcs = @ \o ctl.dcs,
            !.verified = TRUE]

Bug_LastCtlWins(w, ctl) == [w EXCEPT !.eas = ctl.eas, !.aas = ctl.aas, !.dcs = @ \o ctl.dcs]

\* The entries of a verified CTL extend the topology; its nextUpdate, its
\* expired flag and any RCA it lists are left behind.
Extended(w, ctl) ==
  [w EXCEPT !.eas = @ \o ctl.eas, !.aas = @ \o ctl.aas, !.dcs = @ \o ctl.dcs]

CtlReceived(ctl) ==
  /\ pc = "ctl"
  /\ CtlVerified(ctl, work.rcas[idx])
  /\ certs' = AddAll(AddAll(certs, CertsOf(ctl.eas), "ea"), CertsOf(ctl.aas), "aa")
  /\ NextRca(Extended(work, ctl), idx + 1)
  /\ UNCHANGED <<revVars, sent, ops, grants, fetched, refused>>

(***************************************************************************)
(* fetch_trust_anchor, fetch_cert_by_name, fetch_cert_by_hashed_id_8       *)
(***************************************************************************)
\* The certificate served is stored under the label of the call, which for
\* fetch_cert_by_name is the name asked for, "ea" and "aa" included.
FetchCert(c, label) ==
  /\ Call
  /\ certs' = Add(certs, c, label)
  /\ fetched' = fetched \cup {[cert |-> c, label |-> label]}
  /\ Return(Ok)
  /\ UNCHANGED <<revVars, work, idx, topology, config, discovered, sent, grants, refused, asked>>

FetchLabels == {"trustanchor", "lookup"} \cup Names

FetchFails ==
  /\ Call
  /\ \E e \in HttpErrors \cup {"Decode"} : Return(e)
  /\ UNCHANGED <<tcVars, work, idx, topology, config, discovered,
                 sent, grants, fetched, refused, asked>>

(***************************************************************************)
(* fetch_crl                                                               *)
(***************************************************************************)
\* What fetch_crl(rca) makes of the list served: the issuer must be in the
\* trust store, with a key, and must have signed it, and the list must be in
\* date.  A message that is no CRL is FetchFails with "Decode".
CrlVerdict(crl, rca) ==
  CASE rca \notin DOMAIN certs -> "NotFound"
    [] rca \in Keyless -> "InvalidArgument"
    [] ~VerifySigned(crl.issuer, rca) -> "SignatureInvalid"
    [] ~CrlInDate(crl, now) -> "Protocol"
    [] OTHER -> Ok

FetchCrl(crl, rca) ==
  /\ Call
  /\ Return(CrlVerdict(crl, rca))
  /\ IF CrlVerdict(crl, rca) = Ok
       THEN /\ revoked' = Applied(revoked, crl)
            /\ lastUpdate' = [lastUpdate EXCEPT ![crl.issuer] = crl.thisUpdate]
       ELSE UNCHANGED <<revoked, lastUpdate>>
  /\ UNCHANGED <<certs, now, work, idx, topology, config, discovered,
                 sent, grants, fetched, refused, asked>>

(***************************************************************************)
(* request_enrolment_credential and request_authorization_ticket           *)
(***************************************************************************)
\* What is checked before an EC request is encoded.
EcRequestVerdict(valid, canonical, ea) ==
  CASE ~valid -> "InvalidArgument"
    [] canonical \notin HeldKeys -> "KeyStore"
    [] ea \notin DOMAIN certs -> "NotFound"
    [] OTHER -> Ok

\* What is checked before an AT request is encoded.
AtRequestVerdict(valid, ecHandle, aa, ea, atHandle) ==
  CASE ~valid -> "InvalidArgument"
    [] ecHandle \notin HeldKeys -> "KeyStore"
    [] {aa, ea} \ DOMAIN certs # {} -> "NotFound"
    [] atHandle \notin HeldKeys -> "KeyStore"
    [] OTHER -> Ok

\* How encode_ec_request and encode_at_request can fail: a message that does not
\* encode, a signature or encryption that fails, a CA without an encryption key.
EncodeErrors == {"Encode", "Crypto", "InvalidArgument"}

\* The checks passed: the request is encoded and posted, or encoding fails.
Post(kind, ca, handle) ==
  \/ /\ sent' = Append(sent, [kind |-> kind, ca |-> ca, handle |-> handle])
     /\ pc' = "response"
     /\ UNCHANGED ret
  \/ /\ \E e \in EncodeErrors : Return(e)
     /\ UNCHANGED sent

RequestEc(valid, canonical, ea) ==
  LET verdict == EcRequestVerdict(valid, canonical, ea) IN
  /\ Call
  /\ IF verdict = Ok THEN Post("ec", ea, canonical)
                     ELSE Return(verdict) /\ UNCHANGED sent
  /\ UNCHANGED <<tcVars, work, idx, topology, config, discovered, grants, fetched, refused, asked>>

RequestAt(valid, ecHandle, aa, ea, atHandle) ==
  LET verdict == AtRequestVerdict(valid, ecHandle, aa, ea, atHandle) IN
  /\ Call
  /\ IF verdict = Ok THEN Post("at", aa, atHandle)
                     ELSE Return(verdict) /\ UNCHANGED sent
  /\ UNCHANGED <<tcVars, work, idx, topology, config, discovered, grants, fetched, refused, asked>>

\* Responses in the network: a CA answered one of the requests sent, maybe an
\* earlier one, under the key of the request or the public key of its sender,
\* with or without a certificate.
Messages ==
  [answers : 1..Len(sent), enc : {"psk", "ecies"}, signer : {r.ca : r \in Range(sent)},
   ok : BOOLEAN, cert : EndCerts \cup {NoCert}]

\* decrypt_encrypted_content: each request has a fresh AES key, but requests
\* made with one key pair share the ECIES private key.
Decrypts(msg, n) ==
  IF msg.enc = "psk" THEN msg.answers = n
                     ELSE sent[msg.answers].handle = sent[n].handle

\* decrypt_and_unwrap: decrypt, then verify the signature of the CA asked.
DecryptAndUnwrap(msg, n) ==
  CASE ~Decrypts(msg, n) -> "Crypto"
    [] ~VerifySigned(msg.signer, sent[n].ca) -> "SignatureInvalid"
    [] OTHER -> Ok

Bug_AnyRequest(msg, n) == TRUE

\* request_hash_matches: the hash covers the encoded request, fresh key included.
RequestHashMatches(msg, n) == msg.answers = n

\* decode_ec_response, decode_at_response.  A response of the other kind does
\* not decode into one that has the hash.
DecodeResponse(msg, n) ==
  CASE DecryptAndUnwrap(msg, n) # Ok -> DecryptAndUnwrap(msg, n)
    [] sent[msg.answers].kind # sent[n].kind -> "Decode"
    [] ~RequestHashMatches(msg, n) -> "SignatureInvalid"
    [] OTHER -> Ok

\* issuer_chain_present
IssuerChainPresent(store, c) ==
  /\ Info[c].issuer \in DOMAIN store
  /\ Info[Info[c].issuer].selfSigned \/ Info[Info[c].issuer].issuer \in DOMAIN store

Bug_OnlyChainPresent(c) == IF IssuerChainPresent(certs, c) THEN Ok ELSE "NotFound"

\* The checks on the certificate a response carries.
CredentialVerdict(c) ==
  CASE ~IssuerChainPresent(certs, c) -> "NotFound"
    [] ~ValidateChain(certs, revoked, c, now) -> "SignatureInvalid"
    [] OTHER -> Ok

\* Everything both requests do with the response to request n.
ResponseVerdict(msg, n) ==
  CASE DecodeResponse(msg, n) # Ok -> DecodeResponse(msg, n)
    [] ~msg.ok \/ msg.cert = NoCert -> "Protocol"
    [] OTHER -> CredentialVerdict(msg.cert)

Bug_StoredBeforeChecked(msg, verdict) ==
  IF msg.cert # NoCert THEN Add(certs, msg.cert, "ec") ELSE certs

\* Only an accepted credential is stored, as "ec" or "at".
StoreAfter(msg, verdict) ==
  IF verdict = Ok THEN Add(certs, msg.cert, sent[Len(sent)].kind) ELSE certs

ResponseReceived(msg) ==
  LET n == Len(sent)
      verdict == ResponseVerdict(msg, n)
  IN /\ pc = "response"
     /\ Return(verdict)
     /\ certs' = StoreAfter(msg, verdict)
     /\ grants' = IF verdict = Ok
                    THEN grants \cup {[cert |-> msg.cert, req |-> n,
                                      answered |-> msg.answers, signer |-> msg.signer]}
                    ELSE grants
     /\ UNCHANGED <<revVars, work, idx, topology, config, discovered,
                    sent, ops, fetched, refused, asked>>

Bug_PostsAgain ==
  /\ pc = "response" /\ Len(sent) < MaxOps
  /\ sent' = Append(sent, sent[Len(sent)])
  /\ UNCHANGED <<tcVars, discVars, topology, config, discovered,
                 ret, ops, grants, fetched, refused, asked>>

\* No answer, not 200, or a body that is no encrypted message.
ResponseFails ==
  /\ pc = "response"
  /\ \E e \in HttpErrors \cup {"Decode"} : Return(e)
  /\ UNCHANGED <<tcVars, work, idx, topology, config, discovered,
                 sent, ops, grants, fetched, refused, asked>>

(***************************************************************************)
(* The specification                                                       *)
(***************************************************************************)
TimeStep ==
  /\ TimePasses
  /\ UNCHANGED <<discVars, topology, config, discovered,
                 sent, ret, ops, grants, fetched, refused, asked>>

\* An operation in hand takes the next HTTP answer.
OpStep ==
  \/ TlmFetchFails
  \/ \E c \in Certs : TlmReceived(c)
  \/ EctlFetchFails
  \/ \E ectl \in Ectls : EctlRefused(ectl) \/ EctlReceived(ectl)
  \/ CtlFetchFails
  \/ CtlRefused
  \/ \E ctl \in Ctls : CtlReceived(ctl)
  \/ ResponseFails
  \/ \E msg \in Messages : ResponseReceived(msg)

CallStep ==
  \/ DiscoverTlm
  \/ \E c \in Certs, label \in FetchLabels : FetchCert(c, label)
  \/ FetchFails
  \/ \E crl \in Published, rca \in Certs : FetchCrl(crl, rca)
  \/ \E valid \in BOOLEAN, h \in Handles, ea \in Certs : RequestEc(valid, h, ea)
  \/ \E valid \in BOOLEAN, h, g \in Handles, aa, ea \in Certs : RequestAt(valid, h, aa, ea, g)

PkNext == CallStep \/ OpStep \/ TimeStep

\* Every HTTP call returns (module HttpClient), so an operation in hand goes on.
PkSpec == PkInit /\ [][PkNext]_pkVars /\ WF_pkVars(OpStep)

(***************************************************************************)
(* Properties                                                              *)
(***************************************************************************)
\* Every EA and AA in the trust store is a file of the trust directory of that
\* name, or was fetched by a caller under that very name (which nothing
\* authenticates), or was put there by discovery and is vouched for by a CTL
\* signed by an RCA, and that RCA by an ECTL signed by a TLM, all of them stored:
\* no partial, refused or interrupted discovery leaves a CA without that
\* provenance (discover_trust adds certificates as it goes and keeps them when it
\* fails later), and an ECTL puts no EA or AA into the store.
CaProvenance ==
  \A c \in DOMAIN certs : certs[c] \in {"ea", "aa"} =>
    \/ \E f \in Loadable(TrustDir) : f.cert = c /\ f.label = certs[c]
    \/ [cert |-> c, label |-> certs[c]] \in fetched
    \/ \E ctl \in Ctls, ectl \in Ectls :
         /\ c \in CertsOf(ctl.eas) \cup CertsOf(ctl.aas)
         /\ ctl.signer \in Range(ectl.rcas) \cap DOMAIN certs
         /\ ectl.signer \in DOMAIN certs

\* The topology and the URLs change only at the end of a discovery none of
\* whose lists was refused: one bad CTL among several, before or after good
\* ones, leaves the routes of the client as they were.
RoutesChangeOnlyIfAllVerified ==
  [][topology' # topology \/ config' # config => pc' = "idle" /\ ret' = Ok /\ refused' = {}]_pkVars

HasEaRoute(t) == t.eas # <<>> /\ t.eas[1].url # NoUrl
HasAaRoute(t) == t.aas # <<>>

\* u is the URL of the first EA of the last of the topologies ts that gives one.
EaRouteIs(u, ts) ==
  \/ /\ u = EaUrl
     /\ \A i \in DOMAIN ts : ~HasEaRoute(ts[i])
  \/ \E i \in DOMAIN ts : /\ HasEaRoute(ts[i])
                          /\ u = ts[i].eas[1].url
                          /\ \A j \in DOMAIN ts : j > i => ~HasEaRoute(ts[j])

\* u is the URL of the first AA of the last of the topologies ts that has one.
AaRouteIs(u, ts) ==
  \/ /\ u = AaUrl
     /\ \A i \in DOMAIN ts : ~HasAaRoute(ts[i])
  \/ \E i \in DOMAIN ts : /\ HasAaRoute(ts[i])
                          /\ u = ts[i].aas[1].url
                          /\ \A j \in DOMAIN ts : j > i => ~HasAaRoute(ts[j])

\* The routes in use, exactly: the access point of the first EA (the first AA) of
\* the LAST topology that gave one, and the URL the caller configured if none
\* did.  So a route outlives the topology that gave it when a later discovery
\* names no EA, an EA without itsAccessPoint or no AA; an AA without access point
\* empties the route; and refused discoveries in between change nothing.
RoutesFollowTopology ==
  EaRouteIs(config.ea_url, discovered) /\ AaRouteIs(config.aa_url, discovered)

\* The EAs and AAs that ECTLs of this TLM list.
EctlCas(tlm) ==
  {c \in Certs : \E l \in Ectls : l.signer = tlm /\ c \in CertsOf(l.eas) \cup CertsOf(l.aas)}

\* The CAs of topology w that discovery stores: not the EAs and AAs of the ECTL.
CasOf(w) == Range(w.rcas) \cup ((CertsOf(w.eas) \cup CertsOf(w.aas)) \ EctlCas(w.tlm))

\* Every CA of the topology in force stays in the trust store, where the two
\* requests look for the CA they are to address, unless it was the ECTL that
\* named an EA or AA: that one is a route without a certificate.
TopologyIsStored == CasOf(topology) \subseteq DOMAIN certs

\* The topology in force is one of those that the published lists make up:
\* whichever fetches failed and whatever was called before, nothing is lost,
\* repeated, reordered or mixed in from an earlier discovery.
TopologyIsDiscoverable ==
  topology # NoTopology =>
    \E d \in DiscoveryResults(Ectls, Ctls) : \A f \in DOMAIN d : topology[f] = d[f]

\* A CTL is fetched from the TLM's own address or from a distribution centre
\* that a verified list names for that RCA: the ECTL, or a CTL of an RCA
\* handled before in the same discovery and not refused there.
CtlFromKnownCentre ==
  pc = "ctl" =>
    /\ asked.rca = work.rcas[idx]
    /\ \/ asked.url = TlmUrl
       \/ \E list \in {l \in Ectls : l.signer = work.tlm} \cup
                       {l \in Ctls : l.signer \in {work.rcas[i] : i \in (1..(idx - 1)) \ refused}} :
            \E dc \in Range(list.dcs) : dc.url = asked.url /\ asked.rca \in dc.serves

\* A credential is handed out only for the answer to the very request that was
\* in hand, signed by the CA that was asked: a late or repeated answer to an
\* earlier request, even one that still decrypts, is turned down.
GrantAnswersItsRequest ==
  \A g \in grants : g.answered = g.req /\ g.signer = sent[g.req].ca

\* At the moment a credential is handed out it has a chain of trust in the
\* store as it is then: time that passed and CRLs applied while the request
\* was under way count.
GrantHasTrustPath ==
  [][\A g \in grants' \ grants :
       \E path \in PathsFrom(g.cert, DOMAIN certs) : IsTrustPath(path, certs, revoked, now)]_pkVars

\* A request, fetch or CRL that ends in an error leaves no trace in the trust
\* store, the revocation store, the topology or the routes.
ErrorLeavesNoTrace ==
  [][pc' = "idle" /\ ret' # Ok /\ pc \in {"idle", "response"} =>
       certs' = certs /\ revoked' = revoked /\ topology' = topology /\ config' = config]_pkVars

Exchange == INSTANCE CredentialExchange WITH
  Requests <- RequestType, Credentials <- EndCerts, requests <- sent, open <- pc = "response",
  granted <- {[cert |-> g.cert, answers |-> g.answered, signer |-> g.signer] : g \in grants}

\* Refinement: a caller of the two requests sees an exchange with one request
\* open at a time, closed exactly once and for certain, granted only by the
\* answer of the CA asked; discoveries, fetches, CRLs, late answers and time
\* are invisible to it.
ImplementsExchange == Exchange!CeSpec

\* Every operation returns to its caller.
OperationsReturn == [](pc # "idle" => <>(pc = "idle"))

\* "pinned TLM HashedId8": a topology is anchored at the TLM the caller pinned.
TopologyUnderPinnedTlm ==
  topology # NoTopology /\ PinnedTlm # NoCert => topology.tlm = PinnedTlm
=============================================================================
