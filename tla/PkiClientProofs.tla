--------------------------- MODULE PkiClientProofs ---------------------------
(***************************************************************************)
(* Proofs about the facade, for every PKI, every set of published lists,   *)
(* every trust directory and every number of operations.                   *)
(***************************************************************************)
EXTENDS PkiClient, TrustChainProofs, TrustListsProofs

(***************************************************************************)
(* What holds in the middle of a discovery                                 *)
(***************************************************************************)
\* The lists of w's TLM and of the RCAs in these places of w.
KnownLists(w, places) ==
  {l \in Ectls : l.signer = w.tlm} \cup {l \in Ctls : l.signer \in {w.rcas[i] : i \in places}}

\* w is what the lists of ectl's TLM make up to before RCA number n + 1.
Gathered(w, ectl, q, n) ==
  /\ w.tlm = ectl.signer
  /\ w.rcas = ectl.rcas
  /\ q \in [1..n -> Ctls \cup {SilentRca(r) : r \in Range(ectl.rcas)}]
  /\ \A i \in 1..n : q[i].signer = ectl.rcas[i]
  /\ w.eas = ectl.eas \o FlattenSeq([i \in 1..n |-> q[i].eas])
  /\ w.aas = ectl.aas \o FlattenSeq([i \in 1..n |-> q[i].aas])
  /\ w.dcs = ectl.dcs \o FlattenSeq([i \in 1..n |-> q[i].dcs])

\* The TLM is stored before its ECTL is asked for, and every CA that a list of
\* the right kind names before the next list is.
DiscoveryStores ==
  /\ pc \in {"ectl", "ctl"} => work.tlm \in DOMAIN certs
  /\ pc = "ctl" => CasOf(work) \subseteq DOMAIN certs

\* The flag of the topology in hand tells whether a list was refused.
FlagTellsRefusal ==
  /\ pc \in {"tlm", "ectl"} => refused = {}
  /\ pc = "ctl" => (work.verified <=> refused = {}) /\ refused \subseteq 1..(idx - 1)

\* The topology in hand is made of verified lists only.
WorkIsGathered ==
  /\ pc \in {"tlm", "ectl"} => work = [NoTopology EXCEPT !.tlm = work.tlm]
  /\ pc = "ctl" => \E ectl \in Ectls : \E q : Gathered(work, ectl, q, idx - 1)

\* Every distribution centre in hand is named by a list that was verified.
CentresKnown ==
  pc = "ctl" =>
    /\ asked = [rca |-> work.rcas[idx], url |-> FindDcUrl(work.dcs, work.rcas[idx])]
    /\ \A dc \in Range(work.dcs) :
         \E list \in KnownLists(work, (1..(idx - 1)) \ refused) : dc \in Range(list.dcs)

\* Credentials handed out stay bound to the request they answer.
GrantsBound ==
  \A g \in grants : /\ g.req \in 1..Len(sent)
                    /\ g.answered = g.req
                    /\ g.signer = sent[g.req].ca

(***************************************************************************)
(* Types                                                                   *)
(***************************************************************************)
\* The certificates of typed entries are certificates.
LEMMA EntriesTyped ==
  ASSUME NEW entries \in Seq(CaEntries)
  PROVE  CertsOf(entries) \subseteq Certs
<1>1. Range(entries) \subseteq CaEntries
  BY MembersTyped
<1>. QED
  BY <1>1 DEF CertsOf, CaEntries

\* The end of the loop and the next turn of it keep the types.
LEMMA NextRcaTyped ==
  ASSUME PkTypeOK, NEW w \in TopologyType, NEW i \in Nat \ {0}, NextRca(w, i)
  PROVE  /\ pc' \in {"idle", "ctl"}
         /\ work' \in TopologyType
         /\ topology' \in TopologyType
         /\ discovered' \in Seq(TopologyType)
         /\ idx' \in Nat
         /\ config' \in [ea_url : Urls \cup {NoUrl}, aa_url : Urls \cup {NoUrl}]
         /\ ret' \in Errors \cup {Ok}
         /\ pc' = "ctl" => idx' \in 1..Len(work'.rcas)
<1>1. /\ w.rcas \in Seq(Certs) /\ w.eas \in Seq(CaEntries) /\ w.aas \in Seq(CaEntries)
      /\ Len(w.rcas) \in Nat
  BY DEF TopologyType
<1>2. CASE i > Len(w.rcas)
  <2>1. /\ w.eas # <<>> => w.eas[1].url \in Urls \cup {NoUrl}
        /\ w.aas # <<>> => w.aas[1].url \in Urls \cup {NoUrl}
    <3>1. /\ w.eas # <<>> => w.eas[1] \in CaEntries
          /\ w.aas # <<>> => w.aas[1] \in CaEntries
      BY <1>1, MembersTyped
    <3>. QED
      BY <3>1 DEF CaEntries
  <2>2. discovered' = discovered \/ discovered' = Append(discovered, w)
    BY <1>2 DEF NextRca, Conclude
  <2>3. discovered' \in Seq(TopologyType)
    BY <2>2, AppendProperties DEF PkTypeOK
  <2>. QED
    BY <1>2, <2>1, <2>3 DEF NextRca, Conclude, Return, PkTypeOK, Errors, Ok
<1>3. CASE ~(i > Len(w.rcas))
  BY <1>1, <1>3 DEF NextRca, PkTypeOK
<1>. QED
  BY <1>2, <1>3

\* The topology in hand stays typed when a list is added to it.
LEMMA WorkTyped ==
  ASSUME PkTypeOK
  PROVE  /\ NoTopology \in TopologyType
         /\ \A c \in Certs : [work EXCEPT !.tlm = c] \in TopologyType
         /\ \A ectl \in Ectls : AfterEctl(ectl) \in TopologyType
         /\ CtlRefusal(work) \in TopologyType
         /\ \A ctl \in Ctls : Extended(work, ctl) \in TopologyType
<1>. USE DEF TopologyType
<1>0. work \in TopologyType
  BY DEF PkTypeOK
<1>1. NoTopology \in TopologyType
  BY EmptySeq DEF NoTopology
<1>2. \A c \in Certs : [work EXCEPT !.tlm = c] \in TopologyType
  BY <1>0
<1>3. ASSUME NEW ectl \in Ectls PROVE AfterEctl(ectl) \in TopologyType
  <2>1. /\ ectl.rcas \in Seq(Certs) /\ ectl.dcs \in Seq(Dcs)
        /\ ectl.eas \in Seq(CaEntries) /\ ectl.aas \in Seq(CaEntries)
    BY ClientAssumption DEF TrustListType
  <2>2. ListExpired(ectl, now) \in BOOLEAN
    BY Zenon DEF ListExpired
  <2>. QED
    BY <1>0, <2>1, <2>2 DEF AfterEctl
<1>4. CtlRefusal(work) \in TopologyType
  BY <1>0 DEF CtlRefusal
<1>5. ASSUME NEW ctl \in Ctls PROVE Extended(work, ctl) \in TopologyType
  <2>1. ctl.eas \in Seq(CaEntries) /\ ctl.aas \in Seq(CaEntries) /\ ctl.dcs \in Seq(Dcs)
    BY ClientAssumption DEF TrustListType
  <2>2. /\ work.eas \o ctl.eas \in Seq(CaEntries)
        /\ work.aas \o ctl.aas \in Seq(CaEntries)
        /\ work.dcs \o ctl.dcs \in Seq(Dcs)
    BY <1>0, <2>1, ConcatProperties
  <2>. QED
    BY <1>0, <2>2 DEF Extended
<1>. QED
  BY <1>1, <1>2, <1>3, <1>4, <1>5

\* What an operation returns is Ok or an error.
LEMMA VerdictsTyped ==
  /\ HttpErrors \cup {"Decode"} \cup EncodeErrors \cup {"SignatureInvalid"} \subseteq Errors
  /\ \A crl, rca : CrlVerdict(crl, rca) \in Errors \cup {Ok}
  /\ \A v, h, ea : EcRequestVerdict(v, h, ea) \in Errors \cup {Ok}
  /\ \A v, h, aa, ea, g : AtRequestVerdict(v, h, aa, ea, g) \in Errors \cup {Ok}
  /\ \A msg, n : ResponseVerdict(msg, n) \in Errors \cup {Ok}
<1>. USE DEF Errors, Ok
<1>1. HttpErrors \cup {"Decode"} \cup EncodeErrors \cup {"SignatureInvalid"} \subseteq Errors
  BY DEF HttpErrors, EncodeErrors
<1>2. \A crl, rca : CrlVerdict(crl, rca) \in Errors \cup {Ok}
  BY DEF CrlVerdict
<1>3. \A v, h, ea : EcRequestVerdict(v, h, ea) \in Errors \cup {Ok}
  BY DEF EcRequestVerdict
<1>4. \A v, h, aa, ea, g : AtRequestVerdict(v, h, aa, ea, g) \in Errors \cup {Ok}
  BY DEF AtRequestVerdict
<1>5. \A msg, n : ResponseVerdict(msg, n) \in Errors \cup {Ok}
  <2>1. \A msg, n : DecodeResponse(msg, n) \in Errors \cup {Ok}
    BY DEF DecodeResponse, DecryptAndUnwrap
  <2>2. \A c : CredentialVerdict(c) \in Errors \cup {Ok}
    BY DEF CredentialVerdict
  <2>. QED
    BY <2>1, <2>2 DEF ResponseVerdict
<1>. QED
  BY <1>1, <1>2, <1>3, <1>4, <1>5

\* Every variable of the client keeps its type, and the loop index stays within
\* the RCAs of the topology in hand.
THEOREM PkTypeCorrect == PkSpec => []PkTypeOK
<1>. USE ClientAssumption, CertAssumption, CrlAssumption
<1>1. PkInit => PkTypeOK
  <2>. SUFFICES ASSUME PkInit PROVE PkTypeOK
    OBVIOUS
  <2>1. DOMAIN certs \subseteq Certs /\ \A c \in DOMAIN certs : certs[c] \in Labels
    BY LoadsTyped DEF PkInit
  <2>2. NoTopology \in TopologyType
    BY EmptySeq DEF NoTopology, TopologyType
  <2>3. TcTypeOK
    BY <2>1 DEF TcTypeOK, RevTypeOK, PkInit, RevInit
  <2>. QED
    BY <2>2, <2>3, EmptySeq DEF PkInit, PkTypeOK, Errors, Ok
<1>2. PkTypeOK /\ [PkNext]_pkVars => PkTypeOK'
  <2>. SUFFICES ASSUME PkTypeOK, [PkNext]_pkVars PROVE PkTypeOK'
    OBVIOUS
  <2>0. /\ TcTypeOK
        /\ ClientLabels \cup Names \subseteq Labels
    BY DEF PkTypeOK
  <2>. USE DEF PkTypeOK
  <2>1. CASE DiscoverTlm
    <3>1. TcTypeOK'
      BY <2>0, <2>1 DEF DiscoverTlm, tcVars, revVars, TcTypeOK, RevTypeOK
    <3>2. work' \in TopologyType
      BY <2>1, WorkTyped DEF DiscoverTlm
    <3>. QED
      BY <2>1, <3>1, <3>2 DEF DiscoverTlm, Call
  <2>2. CASE TlmFetchFails \/ EctlFetchFails \/ ResponseFails
    BY <2>2, VerdictsTyped
       DEF TlmFetchFails, EctlFetchFails, ResponseFails, Return, tcVars, revVars, TcTypeOK, RevTypeOK
  <2>3. ASSUME NEW c \in Certs, TlmReceived(c) PROVE PkTypeOK'
    <3>1. work' \in TopologyType
      BY <2>3, WorkTyped DEF TlmReceived
    <3>2. TcTypeOK'
      BY <2>0, <2>3 DEF TlmReceived, Add, revVars, TcTypeOK, RevTypeOK, ClientLabels
    <3>. QED
      BY <2>3, <3>1, <3>2 DEF TlmReceived
  <2>4. ASSUME NEW ectl \in Ectls, EctlRefused(ectl) PROVE PkTypeOK'
    BY <2>4, VerdictsTyped DEF EctlRefused, Return, tcVars, revVars, TcTypeOK, RevTypeOK
  <2>5. ASSUME NEW ectl \in Ectls, EctlReceived(ectl) PROVE PkTypeOK'
    <3>1. PICK w \in TopologyType : NextRca(w, 1)
      BY <2>5, WorkTyped DEF EctlReceived
    <3>2. Range(ectl.rcas) \in SUBSET Certs /\ "rca" \in Labels
      BY MembersTyped, <2>0 DEF TrustListType, ClientLabels
    <3>3. TcTypeOK'
      BY <2>0, <2>5, <3>2 DEF EctlReceived, AddAll, revVars, TcTypeOK, RevTypeOK
    <3>. QED
      BY <2>5, <3>1, <3>3, NextRcaTyped DEF EctlReceived
  <2>6. CASE CtlFetchFails
    <3>1. idx + 1 \in Nat \ {0} /\ NextRca(work, idx + 1)
      BY <2>6 DEF CtlFetchFails
    <3>2. TcTypeOK'
      BY <2>0, <2>6 DEF CtlFetchFails, tcVars, revVars, TcTypeOK, RevTypeOK
    <3>. QED
      BY <2>6, <3>1, <3>2, NextRcaTyped DEF CtlFetchFails
  <2>7. CASE CtlRefused
    <3>1. idx + 1 \in Nat \ {0} /\ NextRca(CtlRefusal(work), idx + 1)
      BY <2>7 DEF CtlRefused
    <3>2. TcTypeOK'
      BY <2>0, <2>7 DEF CtlRefused, tcVars, revVars, TcTypeOK, RevTypeOK
    <3>. QED
      BY <2>7, <3>1, <3>2, NextRcaTyped, WorkTyped DEF CtlRefused
  <2>8. ASSUME NEW ctl \in Ctls, CtlReceived(ctl) PROVE PkTypeOK'
    <3>1. idx + 1 \in Nat \ {0} /\ NextRca(Extended(work, ctl), idx + 1)
      BY <2>8 DEF CtlReceived
    <3>2. CertsOf(ctl.eas) \subseteq Certs /\ CertsOf(ctl.aas) \subseteq Certs
      BY EntriesTyped DEF TrustListType
    <3>3. TcTypeOK'
      BY <2>0, <2>8, <3>2 DEF CtlReceived, AddAll, revVars, TcTypeOK, RevTypeOK, ClientLabels
    <3>. QED
      BY <2>8, <3>1, <3>3, NextRcaTyped, WorkTyped DEF CtlReceived
  <2>9. ASSUME NEW c \in Certs, NEW label \in FetchLabels,
               FetchCert(c, label)
        PROVE  PkTypeOK'
    <3>0. label \in Labels
      BY <2>0 DEF FetchLabels, ClientLabels
    <3>1. TcTypeOK'
      BY <2>0, <2>9, <3>0 DEF FetchCert, Add, revVars, TcTypeOK, RevTypeOK
    <3>. QED
      BY <2>9, <3>1 DEF FetchCert, Call, Return
  <2>10. CASE FetchFails
    BY <2>10, VerdictsTyped DEF FetchFails, Call, Return, tcVars, revVars, TcTypeOK, RevTypeOK
  <2>11. ASSUME NEW crl \in Published, NEW rca \in Certs, FetchCrl(crl, rca) PROVE PkTypeOK'
    <3>1. crl.issuer \in Certs /\ crl.entries \in SUBSET Certs /\ crl.thisUpdate \in Nat
      BY DEF Published, CrlType
    <3>2. TcTypeOK'
      BY <2>0, <2>11, <3>1 DEF FetchCrl, Applied, TcTypeOK, RevTypeOK
    <3>. QED
      BY <2>11, <3>2, VerdictsTyped DEF FetchCrl, Call, Return
  <2>12. ASSUME NEW kind \in {"ec", "at"}, NEW ca \in Certs, NEW h \in Handles, Call,
                Post(kind, ca, h), UNCHANGED <<tcVars, work, idx, topology, config, discovered>>
         PROVE  PkTypeOK'
    <3>1. [kind |-> kind, ca |-> ca, handle |-> h] \in RequestType
      BY DEF RequestType
    <3>2. /\ sent' = sent \/ sent' = Append(sent, [kind |-> kind, ca |-> ca, handle |-> h])
          /\ pc' \in {"idle", "response"} /\ ret' \in Errors \cup {Ok}
      BY <2>12, VerdictsTyped DEF Post, Return, Call
    <3>3. sent' \in Seq(RequestType)
      BY <3>1, <3>2, AppendProperties
    <3>. QED
      BY <2>12, <3>2, <3>3 DEF Call, tcVars, revVars, TcTypeOK, RevTypeOK
  <2>13. ASSUME NEW v, Call, Return(v), v \in Errors \cup {Ok},
                UNCHANGED <<tcVars, work, idx, topology, config, discovered, sent>>
         PROVE  PkTypeOK'
    BY <2>13 DEF Call, Return, tcVars, revVars, TcTypeOK, RevTypeOK
  <2>14. ASSUME NEW valid \in BOOLEAN, NEW h \in Handles, NEW ea \in Certs, RequestEc(valid, h, ea)
         PROVE  PkTypeOK'
    BY <2>12, <2>13, <2>14, VerdictsTyped DEF RequestEc
  <2>15. ASSUME NEW valid \in BOOLEAN, NEW h \in Handles, NEW g \in Handles, NEW aa \in Certs,
                NEW ea \in Certs, RequestAt(valid, h, aa, ea, g)
         PROVE  PkTypeOK'
    BY <2>12, <2>13, <2>15, VerdictsTyped DEF RequestAt
  <2>16. ASSUME NEW msg \in Messages, ResponseReceived(msg) PROVE PkTypeOK'
    <3>1. /\ ret' \in Errors \cup {Ok} /\ pc' = "idle"
          /\ UNCHANGED <<revVars, work, idx, topology, config, discovered, sent, ops>>
      BY <2>16, VerdictsTyped DEF ResponseReceived, Return
    <3>2. TcTypeOK'
      <4>1. CASE ResponseVerdict(msg, Len(sent)) # Ok
        BY <2>0, <2>16, <4>1 DEF ResponseReceived, StoreAfter, revVars, TcTypeOK, RevTypeOK
      <4>2. CASE ResponseVerdict(msg, Len(sent)) = Ok
        <5>1. msg.cert \in Certs
          <6>1. msg.cert \in EndCerts \cup {NoCert} /\ msg.cert # NoCert
            BY <4>2 DEF ResponseVerdict, Messages, Ok
          <6>. QED
            BY <6>1
        <5>2. Len(sent) \in 1..Len(sent)
          BY DEF Messages
        <5>3. sent[Len(sent)].kind \in Labels
          <6>1. sent[Len(sent)] \in RequestType
            BY <5>2, ElementOfSeq
          <6>. QED
            BY <2>0, <6>1 DEF RequestType, ClientLabels
        <5>. QED
          BY <2>0, <2>16, <4>2, <5>1, <5>3
             DEF ResponseReceived, StoreAfter, Add, revVars, TcTypeOK, RevTypeOK
      <4>. QED
        BY <4>1, <4>2
    <3>. QED
      BY <3>1, <3>2
  <2>17. CASE TimeStep
    BY <2>0, <2>17 DEF TimeStep, TimePasses, Tick, discVars, TcTypeOK, RevTypeOK
  <2>18. CASE UNCHANGED pkVars
    BY <2>0, <2>18 DEF pkVars, discVars, tcVars, revVars, TcTypeOK, RevTypeOK
  <2>. QED
    BY <2>1, <2>2, <2>3, <2>4, <2>5, <2>6, <2>7, <2>8, <2>9, <2>10, <2>11, <2>14, <2>15, <2>16,
       <2>17, <2>18 DEF PkNext, CallStep, OpStep
<1>. QED
  BY <1>1, <1>2, PTL DEF PkSpec

(***************************************************************************)
(* The credential exchange                                                 *)
(***************************************************************************)
\* A request is made.
Asks == /\ pc = "idle" /\ pc' = "response"
        /\ \E r \in RequestType : sent' = Append(sent, r)
        /\ UNCHANGED grants

\* The request that is open ends without a credential.
Refuses == pc = "response" /\ pc' = "idle" /\ UNCHANGED <<sent, grants>>

\* The request that is open ends with the credential that msg carries.
Grants(msg) ==
  /\ pc = "response" /\ pc' = "idle"
  /\ ResponseVerdict(msg, Len(sent)) = Ok
  /\ grants' = grants \cup {[cert |-> msg.cert, req |-> Len(sent),
                             answered |-> msg.answers, signer |-> msg.signer]}
  /\ UNCHANGED sent

\* Nothing that the caller of a request sees.
Unseen == (pc' = "response" <=> pc = "response") /\ UNCHANGED <<sent, grants>>

\* Every step of the client is one of these to the caller of a request.
LEMMA ExchangeSteps ==
  ASSUME PkTypeOK, [PkNext]_pkVars
  PROVE  Asks \/ Refuses \/ (\E msg \in Messages : Grants(msg)) \/ Unseen
<1>1. CASE DiscoverTlm \/ FetchFails \/ TlmFetchFails \/ EctlFetchFails \/ TimeStep
           \/ UNCHANGED pkVars
  BY <1>1 DEF DiscoverTlm, FetchFails, TlmFetchFails, EctlFetchFails, TimeStep, Call, Return,
              pkVars, discVars, Unseen
<1>2. CASE \/ \E c \in Certs, label \in FetchLabels : FetchCert(c, label)
           \/ \E crl \in Published, rca \in Certs : FetchCrl(crl, rca)
           \/ \E c \in Certs : TlmReceived(c)
           \/ \E ectl \in Ectls : EctlRefused(ectl)
  BY <1>2 DEF FetchCert, FetchCrl, TlmReceived, EctlRefused, Call, Return, Unseen
<1>3. ASSUME NEW w, NEW i, NextRca(w, i), pc # "response", UNCHANGED <<sent, grants>>
      PROVE  Unseen
  BY <1>3 DEF NextRca, Conclude, Return, Unseen
<1>4. CASE \/ \E ectl \in Ectls : EctlReceived(ectl)
           \/ CtlFetchFails \/ CtlRefused
           \/ \E ctl \in Ctls : CtlReceived(ctl)
  BY <1>3, <1>4 DEF EctlReceived, CtlFetchFails, CtlRefused, CtlReceived
<1>5. CASE ResponseFails
  BY <1>5 DEF ResponseFails, Return, Refuses
<1>6. ASSUME NEW msg \in Messages, ResponseReceived(msg)
      PROVE  Refuses \/ Grants(msg)
  BY <1>6 DEF ResponseReceived, Return, Refuses, Grants
<1>7. ASSUME NEW kind \in {"ec", "at"}, NEW ca \in Certs, NEW h \in Handles,
             Call, Post(kind, ca, h), UNCHANGED grants
      PROVE  Asks \/ Unseen
  <2>1. [kind |-> kind, ca |-> ca, handle |-> h] \in RequestType
    BY DEF RequestType
  <2>. QED
    BY <1>7, <2>1 DEF Post, Call, Return, Asks, Unseen
<1>8. ASSUME NEW valid \in BOOLEAN, NEW h \in Handles, NEW ea \in Certs, RequestEc(valid, h, ea)
      PROVE  Asks \/ Unseen
  BY <1>7, <1>8 DEF RequestEc, Call, Return, Unseen
<1>9. ASSUME NEW valid \in BOOLEAN, NEW h \in Handles, NEW g \in Handles, NEW aa \in Certs,
             NEW ea \in Certs, RequestAt(valid, h, aa, ea, g)
      PROVE  Asks \/ Unseen
  BY <1>7, <1>9 DEF RequestAt, Call, Return, Unseen
<1>. QED
  BY <1>1, <1>2, <1>4, <1>5, <1>6, <1>8, <1>9 DEF PkNext, CallStep, OpStep

\* A credential is granted only by the answer of the CA that was asked to the
\* request in hand.
LEMMA GrantFacts ==
  ASSUME PkTypeOK, NEW msg \in Messages, Grants(msg)
  PROVE  /\ Len(sent) \in 1..Len(sent)
         /\ msg.answers = Len(sent)
         /\ msg.signer = sent[Len(sent)].ca
         /\ msg.cert \in EndCerts
         /\ ValidateChain(certs, revoked, msg.cert, now)
<1>1. Len(sent) \in 1..Len(sent)
  BY DEF PkTypeOK, Messages
<1>2. /\ DecodeResponse(msg, Len(sent)) = Ok
      /\ msg.cert # NoCert
      /\ CredentialVerdict(msg.cert) = Ok
  BY DEF Grants, ResponseVerdict, Ok
<1>3. DecryptAndUnwrap(msg, Len(sent)) = Ok /\ RequestHashMatches(msg, Len(sent))
  BY <1>2 DEF DecodeResponse, Ok
<1>4. VerifySigned(msg.signer, sent[Len(sent)].ca)
  BY <1>3 DEF DecryptAndUnwrap, Ok
<1>5. msg.cert \in EndCerts
  BY <1>2 DEF Messages
<1>6. ValidateChain(certs, revoked, msg.cert, now)
  BY <1>2 DEF CredentialVerdict, Ok
<1>. QED
  BY <1>1, <1>3, <1>4, <1>5, <1>6 DEF RequestHashMatches, VerifySigned

\* No late, repeated or misdirected answer brings a credential, for any number
\* of requests and any network.
THEOREM GrantsAnswerTheirRequests == PkSpec => []GrantAnswersItsRequest
<1>1. PkInit => GrantsBound
  BY DEF PkInit, GrantsBound
<1>2. PkTypeOK /\ GrantsBound /\ [PkNext]_pkVars => GrantsBound'
  <2>. SUFFICES ASSUME PkTypeOK, GrantsBound, [PkNext]_pkVars PROVE GrantsBound'
    OBVIOUS
  <2>1. CASE Asks
    <3>1. PICK r \in RequestType : sent' = Append(sent, r)
      BY <2>1 DEF Asks
    <3>2. Len(sent') = Len(sent) + 1 /\ \A n \in 1..Len(sent) : sent'[n] = sent[n]
      BY <3>1 DEF PkTypeOK
    <3>3. Len(sent) \in Nat
      BY DEF PkTypeOK
    <3>. QED
      BY <2>1, <3>2, <3>3 DEF Asks, GrantsBound
  <2>2. CASE Refuses \/ Unseen
    BY <2>2 DEF Refuses, Unseen, GrantsBound
  <2>3. ASSUME NEW msg \in Messages, Grants(msg) PROVE GrantsBound'
    BY <2>3, GrantFacts DEF Grants, GrantsBound
  <2>. QED
    BY <2>1, <2>2, <2>3, ExchangeSteps
<1>3. GrantsBound => GrantAnswersItsRequest
  BY DEF GrantsBound, GrantAnswersItsRequest
<1>. QED
  BY <1>1, <1>2, <1>3, PkTypeCorrect, PTL DEF PkSpec

\* A credential is handed out only with a chain of trust in the store as it is
\* at that moment, for every PKI and every interleaving of CRLs and time.
THEOREM GrantsHaveTrustPath == PkSpec => GrantHasTrustPath
<1>. DEFINE Path(g) == \E path \in PathsFrom(g.cert, DOMAIN certs) :
                         IsTrustPath(path, certs, revoked, now)
<1>1. PkTypeOK /\ [PkNext]_pkVars => [\A g \in grants' \ grants : Path(g)]_pkVars
  <2>. SUFFICES ASSUME PkTypeOK, [PkNext]_pkVars, NEW g \in grants' \ grants
               PROVE  Path(g)
    OBVIOUS
  <2>1. PICK msg \in Messages : Grants(msg)
    BY ExchangeSteps DEF Asks, Refuses, Unseen
  <2>2. g.cert = msg.cert
    BY <2>1 DEF Grants
  <2>3. msg.cert \in Certs /\ ValidateChain(certs, revoked, msg.cert, now) /\ TcTypeOK
    BY <2>1, GrantFacts, ClientAssumption DEF PkTypeOK
  <2>. QED
    BY <2>2, <2>3, AcceptedHasPath
<1>. QED
  BY <1>1, PkTypeCorrect, PTL DEF PkSpec, GrantHasTrustPath

\* A call that ends in an error leaves the stores, the topology and the routes
\* as they were, wherever in the call it failed.
THEOREM ErrorsLeaveNoTrace == PkSpec => ErrorLeavesNoTrace
<1>. DEFINE Failed == pc' = "idle" /\ ret' # Ok /\ pc \in {"idle", "response"}
            NoTrace == certs' = certs /\ revoked' = revoked /\ topology' = topology /\ config' = config
<1>1. [PkNext]_pkVars => [Failed => NoTrace]_pkVars
  <2>. SUFFICES ASSUME [PkNext]_pkVars, Failed PROVE NoTrace
    OBVIOUS
  <2>. USE DEF tcVars, revVars
  <2>1. CASE DiscoverTlm \/ FetchFails \/ ResponseFails \/ UNCHANGED pkVars
    BY <2>1 DEF DiscoverTlm, FetchFails, ResponseFails, pkVars
  <2>2. CASE TimeStep
    BY <2>2 DEF TimeStep, TimePasses, Tick
  <2>3. ASSUME NEW c, NEW label, FetchCert(c, label) PROVE NoTrace
    BY <2>3 DEF FetchCert, Return
  <2>4. ASSUME NEW crl, NEW rca, FetchCrl(crl, rca) PROVE NoTrace
    BY <2>4 DEF FetchCrl, Return
  <2>5. CASE \/ \E valid \in BOOLEAN, h \in Handles, ea \in Certs : RequestEc(valid, h, ea)
             \/ \E valid \in BOOLEAN, h, g \in Handles, aa, ea \in Certs :
                  RequestAt(valid, h, aa, ea, g)
    BY <2>5 DEF RequestEc, RequestAt
  <2>6. ASSUME NEW msg, ResponseReceived(msg) PROVE NoTrace
    BY <2>6 DEF ResponseReceived, Return, StoreAfter
  <2>7. ASSUME pc \in {"tlm", "ectl", "ctl"} PROVE FALSE
    BY <2>7
  <2>8. CASE \/ TlmFetchFails \/ EctlFetchFails \/ CtlFetchFails \/ CtlRefused
             \/ \E c \in Certs : TlmReceived(c)
             \/ \E ectl \in Ectls : EctlRefused(ectl) \/ EctlReceived(ectl)
             \/ \E ctl \in Ctls : CtlReceived(ctl)
    BY <2>7, <2>8 DEF TlmFetchFails, EctlFetchFails, CtlFetchFails, CtlRefused, TlmReceived,
                      EctlRefused, EctlReceived, CtlReceived
  <2>. QED
    BY <2>1, <2>2, <2>3, <2>4, <2>5, <2>6, <2>8 DEF PkNext, CallStep, OpStep
<1>. QED
  BY <1>1, PTL DEF PkSpec, ErrorLeavesNoTrace

\* Every step of the client is a step of the exchange its caller is promised, or
\* invisible to it: the safety part of ImplementsExchange.
THEOREM ExchangeSafety ==
  PkSpec => Exchange!CeInit /\ [][Exchange!CeNext]_(Exchange!ceVars)
<1>. USE DEF Exchange!ceVars
<1>1. PkInit => Exchange!CeInit
  BY DEF PkInit, Exchange!CeInit
<1>2. PkTypeOK /\ [PkNext]_pkVars => [Exchange!CeNext]_(Exchange!ceVars)
  <2>. SUFFICES ASSUME PkTypeOK, [PkNext]_pkVars
               PROVE  [Exchange!CeNext]_(Exchange!ceVars)
    OBVIOUS
  <2>1. CASE Asks
    <3>1. PICK r \in RequestType : sent' = Append(sent, r)
      BY <2>1 DEF Asks
    <3>2. Exchange!Ask(r)
      BY <2>1, <3>1 DEF Asks, Exchange!Ask
    <3>. QED
      BY <3>2 DEF Exchange!CeNext
  <2>2. CASE Refuses
    BY <2>2 DEF Refuses, Exchange!CeNext, Exchange!Close, Exchange!Refuse
  <2>3. CASE Unseen
    BY <2>3 DEF Unseen
  <2>4. ASSUME NEW msg \in Messages, Grants(msg)
        PROVE  Exchange!CeNext
    <3>1. /\ msg.answers = Len(sent) /\ msg.signer = sent[Len(sent)].ca
          /\ msg.cert \in EndCerts
      BY <2>4, GrantFacts
    <3>. DEFINE Seen(g) == [cert |-> g.cert, answers |-> g.answered, signer |-> g.signer]
                new == [cert |-> msg.cert, req |-> Len(sent),
                        answered |-> msg.answers, signer |-> msg.signer]
    <3>2. Seen(new) = [cert |-> msg.cert, answers |-> Len(sent), signer |-> sent[Len(sent)].ca]
      BY <3>1
    <3>3. {Seen(g) : g \in grants'} = {Seen(g) : g \in grants} \cup {Seen(new)}
      <4>. HIDE DEF Seen
      <4>. QED
        BY <2>4 DEF Grants
    <3>4. Exchange!Grant(msg.cert)
      BY <2>4, <3>2, <3>3, Zenon DEF Grants, Exchange!Grant
    <3>. QED
      BY <3>1, <3>4 DEF Exchange!CeNext, Exchange!Close
  <2>. QED
    BY <2>1, <2>2, <2>3, <2>4, ExchangeSteps
<1>. QED
  BY <1>1, <1>2, PkTypeCorrect, PTL DEF PkSpec

(***************************************************************************)
(* Discovery                                                               *)
(***************************************************************************)
\* A step that is no part of a discovery under way: it touches neither the
\* topology nor the routes, and stores a certificate as an EA or AA only if the
\* caller fetched it by that name.
Aside ==
  /\ UNCHANGED <<topology, config, discovered>>
  /\ DOMAIN certs \subseteq DOMAIN certs'
  /\ fetched \subseteq fetched'
  /\ \A c \in DOMAIN certs' : certs'[c] \in {"ea", "aa"} =>
       \/ c \in DOMAIN certs /\ certs[c] = certs'[c]
       \/ [cert |-> c, label |-> certs'[c]] \in fetched'
  /\ pc' \in {"idle", "response"} \/ UNCHANGED <<pc, work, idx, refused, asked, certs>>

\* The steps of a discovery, and all others.
LEMMA DiscoverySteps ==
  ASSUME PkTypeOK, [PkNext]_pkVars
  PROVE  \/ DiscoverTlm
         \/ \E c \in Certs : TlmReceived(c)
         \/ \E ectl \in Ectls : EctlReceived(ectl)
         \/ CtlFetchFails
         \/ CtlRefused
         \/ \E ctl \in Ctls : CtlReceived(ctl)
         \/ Aside
<1>. USE DEF tcVars, revVars, discVars
<1>1. CASE FetchFails \/ TlmFetchFails \/ EctlFetchFails \/ ResponseFails
  BY <1>1 DEF FetchFails, TlmFetchFails, EctlFetchFails, ResponseFails, Return, Aside
<1>2. CASE TimeStep \/ UNCHANGED pkVars
  BY <1>2 DEF TimeStep, TimePasses, pkVars, Aside
<1>3. ASSUME NEW c, NEW label \in FetchLabels, FetchCert(c, label)
      PROVE  Aside
  BY <1>3 DEF FetchCert, Add, Return, Aside
<1>4. CASE \/ \E crl \in Published, rca \in Certs : FetchCrl(crl, rca)
           \/ \E ectl \in Ectls : EctlRefused(ectl)
  BY <1>4 DEF FetchCrl, EctlRefused, Return, Aside
<1>5. ASSUME NEW valid, NEW h, NEW ea, RequestEc(valid, h, ea)
      PROVE  Aside
  BY <1>5 DEF RequestEc, Post, Return, Aside
<1>6. ASSUME NEW valid, NEW h, NEW g, NEW aa, NEW ea, RequestAt(valid, h, aa, ea, g)
      PROVE  Aside
  BY <1>6 DEF RequestAt, Post, Return, Aside
<1>7. ASSUME NEW msg \in Messages, ResponseReceived(msg)
      PROVE  Aside
  <2>1. sent[Len(sent)] \in RequestType
    <3>1. Len(sent) \in 1..Len(sent)
      BY DEF Messages, PkTypeOK
    <3>. QED
      BY <3>1, ElementOfSeq DEF PkTypeOK
  <2>2. sent[Len(sent)].kind \in {"ec", "at"}
    BY <2>1 DEF RequestType
  <2>3. CASE certs' = certs
    BY <1>7, <2>3 DEF ResponseReceived, Return, Aside
  <2>4. CASE certs' = Add(certs, msg.cert, sent[Len(sent)].kind)
    BY <1>7, <2>2, <2>4 DEF ResponseReceived, Return, Add, Aside
  <2>. QED
    BY <1>7, <2>3, <2>4 DEF ResponseReceived, StoreAfter
<1>. QED
  BY <1>1, <1>2, <1>3, <1>4, <1>5, <1>6, <1>7 DEF PkNext, CallStep, OpStep

\* A turn of the loop ends the discovery or asks for the next CTL.
LEMMA NextRcaSteps ==
  ASSUME NEW w, NEW i, NextRca(w, i)
  PROVE  /\ work' = w
         /\ \/ /\ pc' = "idle" /\ i > Len(w.rcas) /\ Conclude(w)
            \/ /\ pc' = "ctl" /\ idx' = i
               /\ asked' = [rca |-> w.rcas[i], url |-> FindDcUrl(w.dcs, w.rcas[i])]
               /\ UNCHANGED <<topology, config, discovered>>
BY DEF NextRca, Conclude, Return

\* What the steps of the loop do to the CAs of the topology in hand.
LEMMA CasOfSteps ==
  ASSUME PkTypeOK
  PROVE  /\ CasOf(CtlRefusal(work)) = CasOf(work)
         /\ \A ctl \in Ctls : CasOf(Extended(work, ctl)) \subseteq
                                CasOf(work) \cup CertsOf(ctl.eas) \cup CertsOf(ctl.aas)
<1>0. /\ work \in TopologyType
      /\ work.eas \in Seq(CaEntries) /\ work.aas \in Seq(CaEntries)
  BY DEF PkTypeOK, TopologyType
<1>1. CasOf(CtlRefusal(work)) = CasOf(work)
  <2>1. /\ CtlRefusal(work).eas = work.eas /\ CtlRefusal(work).aas = work.aas
        /\ CtlRefusal(work).rcas = work.rcas /\ CtlRefusal(work).tlm = work.tlm
    BY <1>0 DEF CtlRefusal, TopologyType
  <2>. QED
    BY <2>1 DEF CasOf
<1>2. ASSUME NEW ctl \in Ctls
      PROVE  CasOf(Extended(work, ctl)) \subseteq
               CasOf(work) \cup CertsOf(ctl.eas) \cup CertsOf(ctl.aas)
  <2>1. ctl.eas \in Seq(CaEntries) /\ ctl.aas \in Seq(CaEntries)
    BY ClientAssumption DEF TrustListType
  <2>2. /\ CertsOf(work.eas \o ctl.eas) = CertsOf(work.eas) \cup CertsOf(ctl.eas)
        /\ CertsOf(work.aas \o ctl.aas) = CertsOf(work.aas) \cup CertsOf(ctl.aas)
    BY <1>0, <2>1, RangeConcatenation DEF CertsOf
  <2>3. /\ Extended(work, ctl).eas = work.eas \o ctl.eas
        /\ Extended(work, ctl).aas = work.aas \o ctl.aas
        /\ Extended(work, ctl).rcas = work.rcas /\ Extended(work, ctl).tlm = work.tlm
    BY <1>0 DEF Extended, TopologyType
  <2>. QED
    BY <2>2, <2>3 DEF CasOf
<1>. QED
  BY <1>1, <1>2

\* What RCAs contribute is typed, be it a CTL or nothing.
LEMMA ContributionsTyped ==
  ASSUME NEW ectl \in Ectls, NEW c \in Ctls \cup {SilentRca(r) : r \in Range(ectl.rcas)}
  PROVE  c.eas \in Seq(CaEntries) /\ c.aas \in Seq(CaEntries) /\ c.dcs \in Seq(Dcs)
<1>1. CASE c \in Ctls
  <2>1. c \in TrustListType
    BY <1>1, ClientAssumption
  <2>. QED
    BY <2>1 DEF TrustListType
<1>2. CASE c \in {SilentRca(r) : r \in Range(ectl.rcas)}
  <2>1. PICK r : c = SilentRca(r)
    BY <1>2
  <2>2. c.eas = <<>> /\ c.aas = <<>> /\ c.dcs = <<>>
    BY <2>1 DEF SilentRca
  <2>3. <<>> \in Seq(CaEntries) /\ <<>> \in Seq(Dcs)
    BY EmptySeq
  <2>. QED
    BY <2>2, <2>3
<1>. QED
  BY <1>1, <1>2

\* One RCA more: its entries go to the end of what was gathered.
LEMMA GatherMore ==
  ASSUME NEW ectl \in Ectls, NEW n \in Nat, NEW w, NEW q, Gathered(w, ectl, q, n),
         NEW c \in Ctls \cup {SilentRca(r) : r \in Range(ectl.rcas)}, c.signer = ectl.rcas[n + 1],
         NEW v, v.tlm = w.tlm, v.rcas = w.rcas,
         v.eas = w.eas \o c.eas, v.aas = w.aas \o c.aas, v.dcs = w.dcs \o c.dcs
  PROVE  \E p : Gathered(v, ectl, p, n + 1)
<1>. DEFINE Pool == Ctls \cup {SilentRca(r) : r \in Range(ectl.rcas)}
            p == [i \in 1..(n + 1) |-> IF i = n + 1 THEN c ELSE q[i]]
<1>1. /\ q \in [1..n -> Pool]
      /\ \A i \in 1..n : q[i].signer = ectl.rcas[i]
      /\ w.tlm = ectl.signer /\ w.rcas = ectl.rcas
      /\ w.eas = ectl.eas \o FlattenSeq([i \in 1..n |-> q[i].eas])
      /\ w.aas = ectl.aas \o FlattenSeq([i \in 1..n |-> q[i].aas])
      /\ w.dcs = ectl.dcs \o FlattenSeq([i \in 1..n |-> q[i].dcs])
  BY DEF Gathered
<1>2. /\ p \in [1..(n + 1) -> Pool]
      /\ p[n + 1] = c
      /\ \A i \in 1..n : p[i] = q[i]
  <2>. HIDE DEF Pool
  <2>1. \A i \in 1..(n + 1) : i # n + 1 => i \in 1..n
    OBVIOUS
  <2>2. c \in Pool
    BY DEF Pool
  <2>. QED
    BY <1>1, <2>1, <2>2
<1>3. \A i \in 1..(n + 1) : p[i].signer = ectl.rcas[i]
  BY <1>1, <1>2
<1>. HIDE DEF p
<1>4. \A i \in 1..(n + 1) : /\ p[i].eas \in Seq(CaEntries) /\ p[i].aas \in Seq(CaEntries)
                            /\ p[i].dcs \in Seq(Dcs)
  BY <1>2, ContributionsTyped
<1>5. /\ ectl.eas \in Seq(CaEntries) /\ ectl.aas \in Seq(CaEntries) /\ ectl.dcs \in Seq(Dcs)
      /\ c.eas \in Seq(CaEntries) /\ c.aas \in Seq(CaEntries) /\ c.dcs \in Seq(Dcs)
  BY ClientAssumption, ContributionsTyped DEF TrustListType
<1>6. /\ \A a, f, b \in Seq(CaEntries) : (a \o f) \o b = a \o (f \o b)
      /\ \A a, f, b \in Seq(Dcs) : (a \o f) \o b = a \o (f \o b)
  BY ConcatAssociative
<1>7. v.eas = ectl.eas \o FlattenSeq([i \in 1..(n + 1) |-> p[i].eas])
  <2>1. /\ FlattenSeq([i \in 1..(n + 1) |-> p[i].eas]) = FlattenSeq([i \in 1..n |-> q[i].eas]) \o c.eas
        /\ FlattenSeq([i \in 1..n |-> q[i].eas]) \in Seq(CaEntries)
    <3>. DEFINE s == [i \in 1..n |-> q[i].eas]
                t == [i \in 1..(n + 1) |-> p[i].eas]
    <3>1. /\ s \in [1..n -> Seq(CaEntries)] /\ t \in [1..(n + 1) -> Seq(CaEntries)]
          /\ \A i \in 1..n : t[i] = s[i]
          /\ t[n + 1] = c.eas
      BY <1>2, <1>4
    <3>. HIDE DEF s, t
    <3>2. FlattenSeq(s) \in Seq(CaEntries) /\ FlattenSeq(t) = FlattenSeq(s) \o c.eas
      BY <3>1, FlattenMore
    <3>. QED
      BY <3>2 DEF s, t
  <2>2. PICK f \in Seq(CaEntries) : f = FlattenSeq([i \in 1..n |-> q[i].eas])
    BY <2>1, Zenon
  <2>3. w.eas = ectl.eas \o f /\ FlattenSeq([i \in 1..(n + 1) |-> p[i].eas]) = f \o c.eas
    BY <1>1, <2>1, <2>2, Zenon
  <2>4. (ectl.eas \o f) \o c.eas = ectl.eas \o (f \o c.eas)
    BY <1>5, <1>6
  <2>. QED
    BY <2>3, <2>4, Zenon
<1>8. v.aas = ectl.aas \o FlattenSeq([i \in 1..(n + 1) |-> p[i].aas])
  <2>1. /\ FlattenSeq([i \in 1..(n + 1) |-> p[i].aas]) = FlattenSeq([i \in 1..n |-> q[i].aas]) \o c.aas
        /\ FlattenSeq([i \in 1..n |-> q[i].aas]) \in Seq(CaEntries)
    <3>. DEFINE s == [i \in 1..n |-> q[i].aas]
                t == [i \in 1..(n + 1) |-> p[i].aas]
    <3>1. /\ s \in [1..n -> Seq(CaEntries)] /\ t \in [1..(n + 1) -> Seq(CaEntries)]
          /\ \A i \in 1..n : t[i] = s[i]
          /\ t[n + 1] = c.aas
      BY <1>2, <1>4
    <3>. HIDE DEF s, t
    <3>2. FlattenSeq(s) \in Seq(CaEntries) /\ FlattenSeq(t) = FlattenSeq(s) \o c.aas
      BY <3>1, FlattenMore
    <3>. QED
      BY <3>2 DEF s, t
  <2>2. PICK f \in Seq(CaEntries) : f = FlattenSeq([i \in 1..n |-> q[i].aas])
    BY <2>1, Zenon
  <2>3. w.aas = ectl.aas \o f /\ FlattenSeq([i \in 1..(n + 1) |-> p[i].aas]) = f \o c.aas
    BY <1>1, <2>1, <2>2, Zenon
  <2>4. (ectl.aas \o f) \o c.aas = ectl.aas \o (f \o c.aas)
    BY <1>5, <1>6
  <2>. QED
    BY <2>3, <2>4, Zenon
<1>9. v.dcs = ectl.dcs \o FlattenSeq([i \in 1..(n + 1) |-> p[i].dcs])
  <2>1. /\ FlattenSeq([i \in 1..(n + 1) |-> p[i].dcs]) = FlattenSeq([i \in 1..n |-> q[i].dcs]) \o c.dcs
        /\ FlattenSeq([i \in 1..n |-> q[i].dcs]) \in Seq(Dcs)
    <3>. DEFINE s == [i \in 1..n |-> q[i].dcs]
                t == [i \in 1..(n + 1) |-> p[i].dcs]
    <3>1. /\ s \in [1..n -> Seq(Dcs)] /\ t \in [1..(n + 1) -> Seq(Dcs)]
          /\ \A i \in 1..n : t[i] = s[i]
          /\ t[n + 1] = c.dcs
      BY <1>2, <1>4
    <3>. HIDE DEF s, t
    <3>2. FlattenSeq(s) \in Seq(Dcs) /\ FlattenSeq(t) = FlattenSeq(s) \o c.dcs
      BY <3>1, FlattenMore
    <3>. QED
      BY <3>2 DEF s, t
  <2>2. PICK f \in Seq(Dcs) : f = FlattenSeq([i \in 1..n |-> q[i].dcs])
    BY <2>1, Zenon
  <2>3. w.dcs = ectl.dcs \o f /\ FlattenSeq([i \in 1..(n + 1) |-> p[i].dcs]) = f \o c.dcs
    BY <1>1, <2>1, <2>2, Zenon
  <2>4. (ectl.dcs \o f) \o c.dcs = ectl.dcs \o (f \o c.dcs)
    BY <1>5, <1>6
  <2>. QED
    BY <2>3, <2>4, Zenon
<1>10. Gathered(v, ectl, p, n + 1)
  BY <1>1, <1>2, <1>3, <1>7, <1>8, <1>9 DEF Gathered
<1>. QED
  BY <1>10

\* What every turn of the loop starts from.
LEMMA LoopTurn ==
  ASSUME PkTypeOK, pc = "ctl"
  PROVE  /\ idx \in Nat \ {0} /\ idx - 1 \in Nat /\ idx \in 1..Len(work.rcas)
         /\ work \in TopologyType /\ work.rcas \in Seq(Certs)
         /\ work.eas \in Seq(CaEntries) /\ work.aas \in Seq(CaEntries) /\ work.dcs \in Seq(Dcs)
         /\ work.rcas[idx] \in Range(work.rcas)
<1>1. idx \in 1..Len(work.rcas) /\ idx \in Nat /\ work \in TopologyType
  BY DEF PkTypeOK
<1>2. /\ work.rcas \in Seq(Certs) /\ work.eas \in Seq(CaEntries)
      /\ work.aas \in Seq(CaEntries) /\ work.dcs \in Seq(Dcs)
  BY <1>1 DEF TopologyType
<1>3. work.rcas[idx] \in Range(work.rcas)
  BY <1>1, <1>2, MembersTyped
<1>. QED
  BY <1>1, <1>2, <1>3

\* Adding nothing, and the entries of a CTL, to what was gathered.
LEMMA TurnGathers ==
  ASSUME PkTypeOK, pc = "ctl", NEW ectl \in Ectls, NEW q, Gathered(work, ectl, q, idx - 1)
  PROVE  /\ \E p : Gathered(work, ectl, p, idx)
         /\ \E p : Gathered(CtlRefusal(work), ectl, p, idx)
         /\ \A ctl \in Ctls : ctl.signer = work.rcas[idx] =>
              \E p : Gathered(Extended(work, ctl), ectl, p, idx)
<1>0. /\ idx - 1 \in Nat /\ (idx - 1) + 1 = idx
      /\ work.rcas = ectl.rcas /\ work.rcas[idx] \in Range(ectl.rcas)
  BY LoopTurn DEF Gathered
<1>. DEFINE silent == SilentRca(work.rcas[idx])
<1>1. /\ silent \in Ctls \cup {SilentRca(r) : r \in Range(ectl.rcas)}
      /\ silent.signer = ectl.rcas[idx]
      /\ silent.eas = <<>> /\ silent.aas = <<>> /\ silent.dcs = <<>>
  BY <1>0 DEF SilentRca
<1>. HIDE DEF silent
<1>2. /\ work.eas = work.eas \o silent.eas
      /\ work.aas = work.aas \o silent.aas
      /\ work.dcs = work.dcs \o silent.dcs
  <2>1. /\ work.eas \o <<>> = work.eas
        /\ work.aas \o <<>> = work.aas
        /\ work.dcs \o <<>> = work.dcs
    BY LoopTurn, ConcatEmptySeq
  <2>. QED
    BY <1>1, <2>1
<1>3. \E p : Gathered(work, ectl, p, idx)
  BY <1>0, <1>1, <1>2, GatherMore
<1>4. /\ CtlRefusal(work).tlm = work.tlm /\ CtlRefusal(work).rcas = work.rcas
      /\ CtlRefusal(work).eas = work.eas /\ CtlRefusal(work).aas = work.aas
      /\ CtlRefusal(work).dcs = work.dcs
  BY LoopTurn DEF CtlRefusal, TopologyType
<1>5. \E p : Gathered(CtlRefusal(work), ectl, p, idx)
  BY <1>3, <1>4 DEF Gathered
<1>6. ASSUME NEW ctl \in Ctls, ctl.signer = work.rcas[idx]
      PROVE  \E p : Gathered(Extended(work, ctl), ectl, p, idx)
  <2>1. LET v == Extended(work, ctl) IN
          /\ v.tlm = work.tlm /\ v.rcas = work.rcas
          /\ v.eas = work.eas \o ctl.eas /\ v.aas = work.aas \o ctl.aas
          /\ v.dcs = work.dcs \o ctl.dcs
    BY LoopTurn DEF Extended, TopologyType
  <2>. QED
    BY <1>0, <1>6, <2>1, GatherMore
<1>. QED
  BY <1>3, <1>5, <1>6

\* An ECTL alone is what was gathered before the first RCA.
LEMMA EctlGathers ==
  ASSUME PkTypeOK, NEW ectl \in Ectls, ectl.signer = work.tlm
  PROVE  /\ \E q : Gathered(AfterEctl(ectl), ectl, q, 0)
         /\ CasOf(AfterEctl(ectl)) = Range(ectl.rcas)
         /\ AfterEctl(ectl).tlm = work.tlm /\ AfterEctl(ectl).dcs = ectl.dcs
         /\ AfterEctl(ectl).rcas = ectl.rcas
<1>1. /\ AfterEctl(ectl).tlm = work.tlm
      /\ AfterEctl(ectl).rcas = ectl.rcas /\ AfterEctl(ectl).dcs = ectl.dcs
      /\ AfterEctl(ectl).eas = ectl.eas /\ AfterEctl(ectl).aas = ectl.aas
  BY DEF AfterEctl, PkTypeOK, TopologyType
<1>. DEFINE q == [i \in 1..0 |-> SilentRca(NoCert)]
<1>2. q \in [1..0 -> Ctls \cup {SilentRca(r) : r \in Range(ectl.rcas)}]
  OBVIOUS
<1>3. /\ FlattenSeq([i \in 1..0 |-> q[i].eas]) = <<>>
      /\ FlattenSeq([i \in 1..0 |-> q[i].aas]) = <<>>
      /\ FlattenSeq([i \in 1..0 |-> q[i].dcs]) = <<>>
  <2>1. /\ [i \in 1..0 |-> q[i].eas] = <<>>
        /\ [i \in 1..0 |-> q[i].aas] = <<>>
        /\ [i \in 1..0 |-> q[i].dcs] = <<>>
    OBVIOUS
  <2>2. FlattenSeq(<<>>) = <<>>
    BY EmptySeq, FlattenNothing
  <2>. QED
    BY <2>1, <2>2
<1>4. /\ ectl.eas \in Seq(CaEntries) /\ ectl.aas \in Seq(CaEntries) /\ ectl.dcs \in Seq(Dcs)
      /\ ectl.eas \o <<>> = ectl.eas /\ ectl.aas \o <<>> = ectl.aas /\ ectl.dcs \o <<>> = ectl.dcs
  <2>1. ectl.eas \in Seq(CaEntries) /\ ectl.aas \in Seq(CaEntries) /\ ectl.dcs \in Seq(Dcs)
    BY ClientAssumption DEF TrustListType
  <2>. QED
    BY <2>1, ConcatEmptySeq
<1>5. Gathered(AfterEctl(ectl), ectl, q, 0)
  <2>1. \A i \in 1..0 : q[i].signer = ectl.rcas[i]
    OBVIOUS
  <2>2. /\ AfterEctl(ectl).eas = ectl.eas \o FlattenSeq([i \in 1..0 |-> q[i].eas])
        /\ AfterEctl(ectl).aas = ectl.aas \o FlattenSeq([i \in 1..0 |-> q[i].aas])
        /\ AfterEctl(ectl).dcs = ectl.dcs \o FlattenSeq([i \in 1..0 |-> q[i].dcs])
    BY <1>1, <1>3, <1>4, Zenon
  <2>. HIDE DEF q
  <2>. QED
    BY <1>1, <1>2, <2>1, <2>2 DEF Gathered
<1>6. CasOf(AfterEctl(ectl)) = Range(ectl.rcas)
  <2>1. CertsOf(ectl.eas) \cup CertsOf(ectl.aas) \subseteq Certs
    BY <1>4, EntriesTyped
  <2>2. CertsOf(ectl.eas) \cup CertsOf(ectl.aas) \subseteq EctlCas(work.tlm)
    BY <2>1 DEF EctlCas
  <2>. QED
    BY <1>1, <2>2 DEF CasOf
<1>. QED
  BY <1>1, <1>5, <1>6

\* The topology in hand stays made of verified lists.
LEMMA GatheredStep ==
  ASSUME PkTypeOK, WorkIsGathered, [PkNext]_pkVars
  PROVE  WorkIsGathered'
<1>. DEFINE Goal(w, n) == \E ectl \in Ectls : \E q : Gathered(w, ectl, q, n)
<1>0. ASSUME NEW w, NEW i \in Nat, NextRca(w, i + 1), Goal(w, i)
      PROVE  WorkIsGathered'
  <2>1. /\ work' = w
        /\ pc' = "idle" \/ (pc' = "ctl" /\ idx' = i + 1)
    BY <1>0, NextRcaSteps
  <2>2. pc' = "ctl" => idx' - 1 = i
    BY <2>1
  <2>. QED
    BY <1>0, <2>1, <2>2 DEF WorkIsGathered
<1>1. CASE DiscoverTlm
  BY <1>1 DEF DiscoverTlm, WorkIsGathered, NoTopology
<1>2. ASSUME NEW c \in Certs, TlmReceived(c) PROVE WorkIsGathered'
  BY <1>2 DEF TlmReceived, WorkIsGathered, NoTopology
<1>3. ASSUME NEW ectl \in Ectls, EctlReceived(ectl) PROVE WorkIsGathered'
  <2>1. Goal(AfterEctl(ectl), 0)
    BY <1>3, EctlGathers DEF EctlReceived, VerifySigned
  <2>2. NextRca(AfterEctl(ectl), 0 + 1)
    BY <1>3 DEF EctlReceived
  <2>. QED
    BY <1>0, <2>1, <2>2
<1>4. ASSUME pc = "ctl"
      PROVE  /\ idx \in Nat
             /\ Goal(work, idx) /\ Goal(CtlRefusal(work), idx)
             /\ \A ctl \in Ctls : ctl.signer = work.rcas[idx] => Goal(Extended(work, ctl), idx)
  <2>1. PICK ectl \in Ectls : \E q : Gathered(work, ectl, q, idx - 1)
    BY <1>4 DEF WorkIsGathered
  <2>. QED
    BY <1>4, <2>1, TurnGathers, LoopTurn
<1>. HIDE DEF Goal
<1>5. CASE CtlFetchFails
  BY <1>0, <1>4, <1>5 DEF CtlFetchFails
<1>6. CASE CtlRefused
  BY <1>0, <1>4, <1>6 DEF CtlRefused
<1>7. ASSUME NEW ctl \in Ctls, CtlReceived(ctl) PROVE WorkIsGathered'
  BY <1>0, <1>4, <1>7 DEF CtlReceived, CtlVerified, VerifySigned
<1>8. CASE Aside
  <2>1. CASE pc' \in {"idle", "response"}
    BY <2>1 DEF WorkIsGathered
  <2>2. CASE UNCHANGED <<pc, work, idx, refused, asked, certs>>
    BY <2>2 DEF WorkIsGathered
  <2>. QED
    BY <1>8, <2>1, <2>2 DEF Aside
<1>. QED
  BY <1>1, <1>2, <1>3, <1>5, <1>6, <1>7, <1>8, DiscoverySteps

\* The CAs met so far stay stored.
LEMMA StoresStep ==
  ASSUME PkTypeOK, WorkIsGathered, DiscoveryStores, [PkNext]_pkVars
  PROVE  DiscoveryStores'
<1>0. ASSUME NEW w, NEW i, NextRca(w, i), CasOf(w) \subseteq DOMAIN certs', w.tlm \in DOMAIN certs'
      PROVE  DiscoveryStores'
  BY <1>0, NextRcaSteps DEF DiscoveryStores, CasOf
<1>1. CASE DiscoverTlm
  BY <1>1 DEF DiscoverTlm, DiscoveryStores
<1>2. ASSUME NEW c \in Certs, TlmReceived(c) PROVE DiscoveryStores'
  BY <1>2 DEF TlmReceived, DiscoveryStores, Add, PkTypeOK, TopologyType
<1>3. ASSUME NEW ectl \in Ectls, EctlReceived(ectl) PROVE DiscoveryStores'
  <2>1. NextRca(AfterEctl(ectl), 1) /\ DOMAIN certs' = DOMAIN certs \cup Range(ectl.rcas)
    BY <1>3 DEF EctlReceived, AddAll
  <2>2. CasOf(AfterEctl(ectl)) = Range(ectl.rcas) /\ AfterEctl(ectl).tlm = work.tlm
    BY <1>3, EctlGathers DEF EctlReceived, VerifySigned
  <2>3. work.tlm \in DOMAIN certs
    BY <1>3 DEF EctlReceived, DiscoveryStores
  <2>. QED
    BY <1>0, <2>1, <2>2, <2>3
<1>4. CASE CtlFetchFails
  BY <1>0, <1>4 DEF CtlFetchFails, DiscoveryStores, tcVars
<1>5. CASE CtlRefused
  <2>1. CtlRefusal(work).tlm = work.tlm
    BY DEF CtlRefusal, PkTypeOK, TopologyType
  <2>. QED
    BY <1>0, <1>5, <2>1, CasOfSteps DEF CtlRefused, DiscoveryStores, tcVars
<1>6. ASSUME NEW ctl \in Ctls, CtlReceived(ctl) PROVE DiscoveryStores'
  <2>1. Extended(work, ctl).tlm = work.tlm
    BY DEF Extended, PkTypeOK, TopologyType
  <2>2. DOMAIN certs' = DOMAIN certs \cup CertsOf(ctl.eas) \cup CertsOf(ctl.aas)
    BY <1>6 DEF CtlReceived, AddAll
  <2>3. CasOf(work) \subseteq DOMAIN certs /\ work.tlm \in DOMAIN certs
    BY <1>6 DEF CtlReceived, DiscoveryStores
  <2>. QED
    BY <1>0, <1>6, <2>1, <2>2, <2>3, CasOfSteps DEF CtlReceived
<1>7. CASE Aside
  <2>1. CASE pc' \in {"idle", "response"}
    BY <2>1 DEF DiscoveryStores
  <2>2. CASE UNCHANGED <<pc, work, idx, refused, asked, certs>>
    BY <2>2 DEF DiscoveryStores, CasOf
  <2>. QED
    BY <1>7, <2>1, <2>2 DEF Aside
<1>. QED
  BY <1>1, <1>2, <1>3, <1>4, <1>5, <1>6, <1>7, DiscoverySteps

\* The flag goes on telling whether a list was refused.
LEMMA FlagStep ==
  ASSUME PkTypeOK, FlagTellsRefusal, [PkNext]_pkVars
  PROVE  FlagTellsRefusal'
<1>0. ASSUME NEW w, NEW i \in Nat, NextRca(w, i + 1), w.verified <=> refused' = {},
             refused' \subseteq 1..i
      PROVE  FlagTellsRefusal'
  <2>1. /\ work' = w
        /\ pc' = "idle" \/ (pc' = "ctl" /\ idx' = i + 1)
    BY <1>0, NextRcaSteps
  <2>2. pc' = "ctl" => idx' - 1 = i
    BY <2>1
  <2>. QED
    BY <1>0, <2>1, <2>2 DEF FlagTellsRefusal
<1>1. CASE DiscoverTlm
  BY <1>1 DEF DiscoverTlm, FlagTellsRefusal
<1>2. ASSUME NEW c \in Certs, TlmReceived(c) PROVE FlagTellsRefusal'
  BY <1>2 DEF TlmReceived, FlagTellsRefusal
<1>3. ASSUME NEW ectl \in Ectls, EctlReceived(ectl) PROVE FlagTellsRefusal'
  <2>1. NextRca(AfterEctl(ectl), 0 + 1) /\ refused' = {}
    BY <1>3 DEF EctlReceived, FlagTellsRefusal
  <2>2. AfterEctl(ectl).verified
    BY DEF AfterEctl, PkTypeOK, TopologyType
  <2>. QED
    BY <1>0, <2>1, <2>2
<1>4. ASSUME pc = "ctl"
      PROVE  /\ idx \in Nat \ {0} /\ refused \subseteq 1..idx /\ idx \in 1..idx
             /\ work.verified <=> refused = {}
  <2>1. idx \in Nat \ {0} /\ refused \subseteq 1..(idx - 1)
    BY <1>4, LoopTurn DEF FlagTellsRefusal
  <2>. QED
    BY <1>4, <2>1 DEF FlagTellsRefusal
<1>5. CASE CtlFetchFails
  BY <1>0, <1>4, <1>5 DEF CtlFetchFails
<1>6. CASE CtlRefused
  <2>1. ~CtlRefusal(work).verified
    BY DEF CtlRefusal, PkTypeOK, TopologyType
  <2>. QED
    BY <1>0, <1>4, <1>6, <2>1 DEF CtlRefused
<1>7. ASSUME NEW ctl \in Ctls, CtlReceived(ctl) PROVE FlagTellsRefusal'
  <2>1. Extended(work, ctl).verified = work.verified
    BY DEF Extended, PkTypeOK, TopologyType
  <2>. QED
    BY <1>0, <1>4, <1>7, <2>1 DEF CtlReceived
<1>8. CASE Aside
  BY <1>8 DEF Aside, FlagTellsRefusal
<1>. QED
  BY <1>1, <1>2, <1>3, <1>5, <1>6, <1>7, <1>8, DiscoverySteps

\* find_dc_url takes the fallback or a centre that serves the RCA.
LEMMA FindDcUrlServes ==
  ASSUME NEW dcs \in Seq(Dcs), NEW c
  PROVE  \/ FindDcUrl(dcs, c) = TlmUrl
         \/ \E dc \in Range(dcs) : dc.url = FindDcUrl(dcs, c) /\ c \in dc.serves
<1>. DEFINE serving == {i \in DOMAIN dcs : c \in dcs[i].serves}
            first == CHOOSE i \in serving : \A j \in serving : i <= j
<1>1. CASE serving = {}
  BY <1>1 DEF FindDcUrl
<1>2. CASE serving # {}
  <2>1. DOMAIN dcs = 1..Len(dcs) /\ serving \in SUBSET Nat
    BY LenProperties
  <2>2. \E i \in serving : \A j \in serving : i <= j
    <3>. HIDE DEF serving
    <3>. QED
      BY <1>2, <2>1, LeastNumber
  <2>3. first \in serving
    <3>. HIDE DEF serving
    <3>. QED
      BY <2>2
  <2>4. FindDcUrl(dcs, c) = dcs[first].url
    BY <1>2, Zenon DEF FindDcUrl
  <2>5. dcs[first] \in Range(dcs) /\ c \in dcs[first].serves
    <3>. HIDE DEF first
    <3>. QED
      BY <2>3 DEF Range
  <2>. QED
    BY <2>4, <2>5, Zenon
<1>. QED
  BY <1>1, <1>2

\* Every centre in hand stays one that a verified list names.
LEMMA CentresStep ==
  ASSUME PkTypeOK, WorkIsGathered, FlagTellsRefusal, CentresKnown, [PkNext]_pkVars
  PROVE  CentresKnown'
<1>. DEFINE Named(w, places) ==
              \A dc \in Range(w.dcs) : \E list \in KnownLists(w, places) : dc \in Range(list.dcs)
<1>0. ASSUME NEW w, NEW i \in Nat, NextRca(w, i + 1), Named(w, (1..i) \ refused')
      PROVE  CentresKnown'
  <2>1. /\ work' = w
        /\ \/ pc' = "idle"
           \/ /\ pc' = "ctl" /\ idx' = i + 1
              /\ asked' = [rca |-> w.rcas[i + 1], url |-> FindDcUrl(w.dcs, w.rcas[i + 1])]
    BY <1>0, NextRcaSteps
  <2>2. pc' = "ctl" => idx' - 1 = i
    BY <2>1
  <2>. QED
    BY <1>0, <2>1, <2>2 DEF CentresKnown, KnownLists
<1>1. CASE DiscoverTlm
  BY <1>1 DEF DiscoverTlm, CentresKnown
<1>2. ASSUME NEW c \in Certs, TlmReceived(c) PROVE CentresKnown'
  BY <1>2 DEF TlmReceived, CentresKnown
<1>3. ASSUME NEW ectl \in Ectls, EctlReceived(ectl) PROVE CentresKnown'
  <2>1. NextRca(AfterEctl(ectl), 0 + 1)
    BY <1>3 DEF EctlReceived
  <2>2. AfterEctl(ectl).tlm = ectl.signer /\ AfterEctl(ectl).dcs = ectl.dcs
    BY <1>3, EctlGathers DEF EctlReceived, VerifySigned
  <2>3. Named(AfterEctl(ectl), (1..0) \ refused')
    BY <2>2 DEF KnownLists
  <2>. QED
    BY <1>0, <2>1, <2>3
<1>4. ASSUME pc = "ctl"
      PROVE  /\ idx \in Nat \ {0} /\ refused \subseteq 1..(idx - 1)
             /\ Named(work, (1..(idx - 1)) \ refused)
  BY <1>4, LoopTurn DEF FlagTellsRefusal, CentresKnown
\* More places name at least as much.
<1>5. ASSUME NEW w, NEW v, v.tlm = w.tlm, v.rcas = w.rcas, v.dcs = w.dcs,
             NEW P, NEW R, P \subseteq R, Named(w, P)
      PROVE  Named(v, R)
  BY <1>5 DEF KnownLists
<1>6. CASE CtlFetchFails
  <2>1. (1..(idx - 1)) \ refused \subseteq (1..idx) \ refused
    BY <1>4, <1>6 DEF CtlFetchFails
  <2>2. Named(work, (1..idx) \ refused)
    BY <1>4, <1>5, <1>6, <2>1 DEF CtlFetchFails
  <2>. QED
    BY <1>0, <1>4, <1>6, <2>2 DEF CtlFetchFails
<1>7. CASE CtlRefused
  <2>1. (1..(idx - 1)) \ refused \subseteq (1..idx) \ refused'
    BY <1>4, <1>7 DEF CtlRefused
  <2>2. /\ CtlRefusal(work).tlm = work.tlm /\ CtlRefusal(work).rcas = work.rcas
        /\ CtlRefusal(work).dcs = work.dcs
    BY DEF CtlRefusal, PkTypeOK, TopologyType
  <2>3. Named(work, (1..(idx - 1)) \ refused)
    BY <1>4, <1>7 DEF CtlRefused
  <2>4. Named(CtlRefusal(work), (1..idx) \ refused')
    <3>. HIDE DEF Named
    <3>. QED
      BY <1>5, <2>1, <2>2, <2>3
  <2>. QED
    BY <1>0, <1>4, <1>7, <2>4 DEF CtlRefused
<1>8. ASSUME NEW ctl \in Ctls, CtlReceived(ctl) PROVE CentresKnown'
  <2>. DEFINE v == Extended(work, ctl)
  <2>1. /\ v.tlm = work.tlm /\ v.rcas = work.rcas /\ v.dcs = work.dcs \o ctl.dcs
    BY DEF Extended, PkTypeOK, TopologyType
  <2>2. /\ idx \in (1..idx) \ refused /\ (1..(idx - 1)) \ refused \subseteq (1..idx) \ refused
        /\ refused' = refused
    BY <1>4, <1>8 DEF CtlReceived
  <2>3. ctl.signer = v.rcas[idx]
    BY <1>8, <2>1 DEF CtlReceived, CtlVerified, VerifySigned
  <2>4. Range(v.dcs) = Range(work.dcs) \cup Range(ctl.dcs)
    <3>1. work.dcs \in Seq(Dcs) /\ ctl.dcs \in Seq(Dcs)
      BY <1>8, LoopTurn, ContributionsTyped, ClientAssumption DEF CtlReceived, TrustListType
    <3>. QED
      BY <2>1, <3>1, RangeConcatenation
  <2>. HIDE DEF v
  <2>5. ctl \in KnownLists(v, (1..idx) \ refused)
    BY <2>2, <2>3 DEF KnownLists
  <2>6. KnownLists(work, (1..(idx - 1)) \ refused) \subseteq KnownLists(v, (1..idx) \ refused)
    BY <2>1, <2>2 DEF KnownLists
  <2>7. Named(work, (1..(idx - 1)) \ refused) /\ idx \in Nat
    BY <1>4, <1>8 DEF CtlReceived
  <2>8. Named(v, (1..idx) \ refused)
    BY <2>4, <2>5, <2>6, <2>7
  <2>9. NextRca(v, idx + 1)
    BY <1>8 DEF CtlReceived, v
  <2>. QED
    BY <1>0, <2>2, <2>7, <2>8, <2>9
<1>9. CASE Aside
  <2>1. CASE pc' \in {"idle", "response"}
    BY <2>1 DEF CentresKnown
  <2>2. CASE UNCHANGED <<pc, work, idx, refused, asked, certs>>
    BY <2>2 DEF CentresKnown, KnownLists
  <2>. QED
    BY <1>9, <2>1, <2>2 DEF Aside
<1>. QED
  BY <1>1, <1>2, <1>3, <1>6, <1>7, <1>8, <1>9, DiscoverySteps

\* The inductive invariant of discovery.
DiscoveryInv ==
  /\ WorkIsGathered
  /\ DiscoveryStores
  /\ FlagTellsRefusal
  /\ CentresKnown

\* It holds throughout.
THEOREM DiscoveryInvariant == PkSpec => []DiscoveryInv
<1>1. PkInit => DiscoveryInv
  BY DEF PkInit, DiscoveryInv, WorkIsGathered, DiscoveryStores, FlagTellsRefusal, CentresKnown
<1>2. PkTypeOK /\ DiscoveryInv /\ [PkNext]_pkVars => DiscoveryInv'
  BY GatheredStep, StoresStep, FlagStep, CentresStep DEF DiscoveryInv
<1>. QED
  BY <1>1, <1>2, PkTypeCorrect, PTL DEF PkSpec

\* For every set of lists: a CTL is only ever asked for at the TLM's address or
\* at a centre that a list verified in this discovery names for that RCA.
THEOREM CtlsFromKnownCentres == PkSpec => []CtlFromKnownCentre
<1>1. PkTypeOK /\ DiscoveryInv => CtlFromKnownCentre
  <2>. SUFFICES ASSUME PkTypeOK, DiscoveryInv, pc = "ctl"
               PROVE  CtlFromKnownCentre
    BY DEF CtlFromKnownCentre
  <2>1. /\ asked.rca = work.rcas[idx] /\ asked.url = FindDcUrl(work.dcs, work.rcas[idx])
        /\ \A dc \in Range(work.dcs) :
             \E list \in KnownLists(work, (1..(idx - 1)) \ refused) : dc \in Range(list.dcs)
    <3>1. /\ asked = [rca |-> work.rcas[idx], url |-> FindDcUrl(work.dcs, work.rcas[idx])]
          /\ \A dc \in Range(work.dcs) :
               \E list \in KnownLists(work, (1..(idx - 1)) \ refused) : dc \in Range(list.dcs)
      BY Zenon DEF DiscoveryInv, CentresKnown
    <3>. QED
      BY <3>1
  <2>2. work.dcs \in Seq(Dcs)
    BY LoopTurn
  <2>3. CASE asked.url = TlmUrl
    BY <2>1, <2>3 DEF CtlFromKnownCentre
  <2>4. CASE asked.url # TlmUrl
    <3>1. PICK dc \in Range(work.dcs) : dc.url = asked.url /\ asked.rca \in dc.serves
      BY <2>1, <2>2, <2>4, FindDcUrlServes
    <3>2. PICK list \in KnownLists(work, (1..(idx - 1)) \ refused) : dc \in Range(list.dcs)
      BY <2>1
    <3>. QED
      BY <2>1, <3>1, <3>2 DEF CtlFromKnownCentre, KnownLists
  <2>. QED
    BY <2>3, <2>4
<1>. QED
  BY <1>1, PkTypeCorrect, DiscoveryInvariant, PTL

\* For every set of lists: routes change only at the end of a discovery none of
\* whose lists was refused.
THEOREM RoutesNeedAllVerified == PkSpec => RoutesChangeOnlyIfAllVerified
<1>. DEFINE Changed == topology' # topology \/ config' # config
            Clean == pc' = "idle" /\ ret' = Ok /\ refused' = {}
<1>1. PkTypeOK /\ DiscoveryInv /\ [PkNext]_pkVars => [Changed => Clean]_pkVars
  <2>. SUFFICES ASSUME PkTypeOK, DiscoveryInv, [PkNext]_pkVars, Changed
               PROVE  Clean
    OBVIOUS
  <2>0. ASSUME NEW w, NEW i, NextRca(w, i)
        PROVE  pc' = "idle" /\ ret' = Ok /\ w.verified
    BY <2>0 DEF NextRca, Conclude, Return
  <2>1. CASE DiscoverTlm
    BY <2>1 DEF DiscoverTlm
  <2>2. ASSUME NEW c \in Certs, TlmReceived(c) PROVE Clean
    BY <2>2 DEF TlmReceived
  <2>3. ASSUME NEW ectl \in Ectls, EctlReceived(ectl) PROVE Clean
    BY <2>0, <2>3 DEF EctlReceived, DiscoveryInv, FlagTellsRefusal
  <2>4. CASE CtlFetchFails
    BY <2>0, <2>4 DEF CtlFetchFails, DiscoveryInv, FlagTellsRefusal
  <2>5. CASE CtlRefused
    <3>1. ~CtlRefusal(work).verified
      BY DEF CtlRefusal, PkTypeOK, TopologyType
    <3>. QED
      BY <2>0, <2>5, <3>1 DEF CtlRefused
  <2>6. ASSUME NEW ctl \in Ctls, CtlReceived(ctl) PROVE Clean
    <3>1. Extended(work, ctl).verified = work.verified
      BY DEF Extended, PkTypeOK, TopologyType
    <3>. QED
      BY <2>0, <2>6, <3>1 DEF CtlReceived, DiscoveryInv, FlagTellsRefusal
  <2>7. CASE Aside
    BY <2>7 DEF Aside
  <2>. QED
    BY <2>1, <2>2, <2>3, <2>4, <2>5, <2>6, <2>7, DiscoverySteps
<1>. QED
  BY <1>1, PkTypeCorrect, DiscoveryInvariant, PTL DEF PkSpec, RoutesChangeOnlyIfAllVerified

\* For every set of lists, every trust directory and every name that callers ask
\* for: each EA and AA stored that no caller fetched by that name and no file
\* brought has a CTL and an ECTL that vouch for it, signers included.
THEOREM CasHaveProvenance == PkSpec => []CaProvenance
<1>1. PkInit => CaProvenance
  BY DEF PkInit, CaProvenance, Loads
<1>2. PkTypeOK /\ DiscoveryInv /\ CaProvenance /\ [PkNext]_pkVars => CaProvenance'
  <2>. SUFFICES ASSUME PkTypeOK, DiscoveryInv, CaProvenance, [PkNext]_pkVars
               PROVE  CaProvenance'
    OBVIOUS
  <2>0. ASSUME DOMAIN certs \subseteq DOMAIN certs', fetched \subseteq fetched',
               \A c \in DOMAIN certs' : certs'[c] \in {"ea", "aa"} =>
                  \/ c \in DOMAIN certs /\ certs[c] = certs'[c]
                  \/ [cert |-> c, label |-> certs'[c]] \in fetched'
                  \/ \E ctl \in Ctls, ectl \in Ectls :
                       /\ c \in CertsOf(ctl.eas) \cup CertsOf(ctl.aas)
                       /\ ctl.signer \in Range(ectl.rcas) \cap DOMAIN certs
                       /\ ectl.signer \in DOMAIN certs
        PROVE  CaProvenance'
    BY <2>0 DEF CaProvenance
  <2>1. CASE DiscoverTlm \/ CtlFetchFails \/ CtlRefused
    BY <2>0, <2>1 DEF DiscoverTlm, CtlFetchFails, CtlRefused, tcVars
  <2>2. ASSUME NEW c \in Certs, TlmReceived(c) PROVE CaProvenance'
    BY <2>0, <2>2 DEF TlmReceived, Add
  <2>3. ASSUME NEW ectl \in Ectls, EctlReceived(ectl) PROVE CaProvenance'
    BY <2>0, <2>3 DEF EctlReceived, AddAll
  <2>4. ASSUME NEW ctl \in Ctls, CtlReceived(ctl) PROVE CaProvenance'
    <3>1. PICK ectl \in Ectls : \E q : Gathered(work, ectl, q, idx - 1)
      BY <2>4 DEF CtlReceived, DiscoveryInv, WorkIsGathered
    <3>2. /\ ctl.signer \in Range(ectl.rcas) \cap DOMAIN certs
          /\ ectl.signer \in DOMAIN certs
      BY <2>4, <3>1, LoopTurn
         DEF CtlReceived, CtlVerified, VerifySigned, Gathered, DiscoveryInv, DiscoveryStores, CasOf
    <3>3. /\ DOMAIN certs' = DOMAIN certs \cup CertsOf(ctl.eas) \cup CertsOf(ctl.aas)
          /\ \A c \in DOMAIN certs' : c \notin CertsOf(ctl.eas) \cup CertsOf(ctl.aas) =>
               c \in DOMAIN certs /\ certs'[c] = certs[c]
          /\ fetched' = fetched
      BY <2>4 DEF CtlReceived, AddAll
    <3>. QED
      BY <2>0, <3>2, <3>3
  <2>5. CASE Aside
    BY <2>0, <2>5 DEF Aside
  <2>. QED
    BY <2>1, <2>2, <2>3, <2>4, <2>5, DiscoverySteps
<1>. QED
  BY <1>1, <1>2, PkTypeCorrect, DiscoveryInvariant, PTL DEF PkSpec

\* One topology more gives the EA route or leaves it as it was.
LEMMA EaRouteMore ==
  ASSUME NEW ts \in Seq(TopologyType), NEW w \in TopologyType, NEW u, EaRouteIs(u, ts)
  PROVE  EaRouteIs(IF HasEaRoute(w) THEN w.eas[1].url ELSE u, Append(ts, w))
<1>. DEFINE more == Append(ts, w)
<1>1. /\ DOMAIN ts = 1..Len(ts) /\ Len(ts) \in Nat
      /\ DOMAIN more = 1..(Len(ts) + 1)
      /\ \A i \in 1..Len(ts) : more[i] = ts[i]
      /\ more[Len(ts) + 1] = w
  BY AppendProperties, LenProperties
<1>2. PICK n \in Nat : n = Len(ts)
  BY <1>1
<1>. HIDE DEF more
<1>3. CASE HasEaRoute(w)
  <2>1. n + 1 \in DOMAIN more /\ more[n + 1] = w
    BY <1>1, <1>2
  <2>2. \A j \in DOMAIN more : ~(j > n + 1)
    BY <1>1, <1>2
  <2>. QED
    BY <1>3, <2>1, <2>2, Zenon DEF EaRouteIs, more
<1>4. CASE ~HasEaRoute(w)
  <2>1. CASE u = EaUrl /\ \A i \in DOMAIN ts : ~HasEaRoute(ts[i])
    <3>1. \A i \in DOMAIN more : ~HasEaRoute(more[i])
      <4>1. \A i \in DOMAIN more : (i \in DOMAIN ts /\ more[i] = ts[i]) \/ more[i] = w
        BY <1>1, <1>2
      <4>. QED
        BY <1>4, <2>1, <4>1
    <3>. QED
      BY <1>4, <2>1, <3>1, Zenon DEF EaRouteIs, more
  <2>2. ASSUME NEW i \in DOMAIN ts, HasEaRoute(ts[i]), u = ts[i].eas[1].url,
               \A j \in DOMAIN ts : j > i => ~HasEaRoute(ts[j])
        PROVE  EaRouteIs(u, more)
    <3>1. i \in DOMAIN more /\ more[i] = ts[i]
      BY <1>1, <1>2
    <3>2. \A j \in DOMAIN more : (j \in DOMAIN ts /\ more[j] = ts[j]) \/ more[j] = w
      BY <1>1, <1>2
    <3>3. \A j \in DOMAIN more : j > i => ~HasEaRoute(more[j])
      BY <1>4, <2>2, <3>2
    <3>. QED
      BY <2>2, <3>1, <3>3, Zenon DEF EaRouteIs
  <2>. QED
    BY <1>4, <2>1, <2>2, Zenon DEF EaRouteIs, more
<1>. QED
  BY <1>3, <1>4

\* One topology more gives the AA route or leaves it as it was.
LEMMA AaRouteMore ==
  ASSUME NEW ts \in Seq(TopologyType), NEW w \in TopologyType, NEW u, AaRouteIs(u, ts)
  PROVE  AaRouteIs(IF HasAaRoute(w) THEN w.aas[1].url ELSE u, Append(ts, w))
<1>. DEFINE more == Append(ts, w)
<1>1. /\ DOMAIN ts = 1..Len(ts) /\ Len(ts) \in Nat
      /\ DOMAIN more = 1..(Len(ts) + 1)
      /\ \A i \in 1..Len(ts) : more[i] = ts[i]
      /\ more[Len(ts) + 1] = w
  BY AppendProperties, LenProperties
<1>2. PICK n \in Nat : n = Len(ts)
  BY <1>1
<1>. HIDE DEF more
<1>3. CASE HasAaRoute(w)
  <2>1. n + 1 \in DOMAIN more /\ more[n + 1] = w
    BY <1>1, <1>2
  <2>2. \A j \in DOMAIN more : ~(j > n + 1)
    BY <1>1, <1>2
  <2>. QED
    BY <1>3, <2>1, <2>2, Zenon DEF AaRouteIs, more
<1>4. CASE ~HasAaRoute(w)
  <2>1. CASE u = AaUrl /\ \A i \in DOMAIN ts : ~HasAaRoute(ts[i])
    <3>1. \A i \in DOMAIN more : ~HasAaRoute(more[i])
      <4>1. \A i \in DOMAIN more : (i \in DOMAIN ts /\ more[i] = ts[i]) \/ more[i] = w
        BY <1>1, <1>2
      <4>. QED
        BY <1>4, <2>1, <4>1
    <3>. QED
      BY <1>4, <2>1, <3>1, Zenon DEF AaRouteIs, more
  <2>2. ASSUME NEW i \in DOMAIN ts, HasAaRoute(ts[i]), u = ts[i].aas[1].url,
               \A j \in DOMAIN ts : j > i => ~HasAaRoute(ts[j])
        PROVE  AaRouteIs(u, more)
    <3>1. i \in DOMAIN more /\ more[i] = ts[i]
      BY <1>1, <1>2
    <3>2. \A j \in DOMAIN more : (j \in DOMAIN ts /\ more[j] = ts[j]) \/ more[j] = w
      BY <1>1, <1>2
    <3>3. \A j \in DOMAIN more : j > i => ~HasAaRoute(more[j])
      BY <1>4, <2>2, <3>2
    <3>. QED
      BY <2>2, <3>1, <3>3, Zenon DEF AaRouteIs
  <2>. QED
    BY <1>4, <2>1, <2>2, Zenon DEF AaRouteIs, more
<1>. QED
  BY <1>3, <1>4

\* For every set of lists and every configured URL: the routes in use are those of
\* the last topologies that gave one, however many discoveries gave none since.
THEOREM RoutesOfTopology == PkSpec => []RoutesFollowTopology
<1>1. PkInit => RoutesFollowTopology
  <2>. SUFFICES ASSUME PkInit PROVE RoutesFollowTopology
    OBVIOUS
  <2>1. config.ea_url = EaUrl /\ config.aa_url = AaUrl /\ DOMAIN discovered = {}
    BY EmptySeq DEF PkInit
  <2>. QED
    BY <2>1, Zenon DEF RoutesFollowTopology, EaRouteIs, AaRouteIs
<1>2. PkTypeOK /\ RoutesFollowTopology /\ [PkNext]_pkVars => RoutesFollowTopology'
  <2>. SUFFICES ASSUME PkTypeOK, RoutesFollowTopology, [PkNext]_pkVars
               PROVE  RoutesFollowTopology'
    OBVIOUS
  <2>0. ASSUME UNCHANGED <<config, discovered>> PROVE RoutesFollowTopology'
    BY <2>0 DEF RoutesFollowTopology, EaRouteIs, AaRouteIs
  <2>1. ASSUME NEW w \in TopologyType, NEW i, NextRca(w, i) PROVE RoutesFollowTopology'
    <3>1. CASE UNCHANGED <<config, discovered>>
      BY <2>0, <3>1
    <3>2. CASE Conclude(w) /\ ~UNCHANGED <<config, discovered>>
      <4>1. /\ discovered' = Append(discovered, w)
            /\ config'.ea_url = IF HasEaRoute(w) THEN w.eas[1].url ELSE config.ea_url
            /\ config'.aa_url = IF HasAaRoute(w) THEN w.aas[1].url ELSE config.aa_url
        BY <3>2 DEF Conclude, HasEaRoute, HasAaRoute
      <4>2. discovered \in Seq(TopologyType)
        BY DEF PkTypeOK
      <4>3. EaRouteIs(config.ea_url, discovered) /\ AaRouteIs(config.aa_url, discovered)
        BY DEF RoutesFollowTopology
      <4>4. /\ EaRouteIs(IF HasEaRoute(w) THEN w.eas[1].url ELSE config.ea_url, Append(discovered, w))
            /\ AaRouteIs(IF HasAaRoute(w) THEN w.aas[1].url ELSE config.aa_url, Append(discovered, w))
        BY <4>2, <4>3, EaRouteMore, AaRouteMore
      <4>5. EaRouteIs(config'.ea_url, discovered') /\ AaRouteIs(config'.aa_url, discovered')
        BY <4>1, <4>4, Zenon
      <4>. QED
        BY <4>5, Zenon DEF RoutesFollowTopology, EaRouteIs, AaRouteIs
    <3>. QED
      BY <2>1, <3>1, <3>2, NextRcaSteps
  <2>2. CASE DiscoverTlm
    BY <2>0, <2>2 DEF DiscoverTlm
  <2>3. ASSUME NEW c \in Certs, TlmReceived(c) PROVE RoutesFollowTopology'
    BY <2>0, <2>3 DEF TlmReceived
  <2>4. ASSUME NEW ectl \in Ectls, EctlReceived(ectl) PROVE RoutesFollowTopology'
    BY <2>1, <2>4, WorkTyped DEF EctlReceived
  <2>5. work \in TopologyType
    BY DEF PkTypeOK
  <2>6. CASE CtlFetchFails
    BY <2>1, <2>5, <2>6 DEF CtlFetchFails
  <2>7. CASE CtlRefused
    BY <2>1, <2>7, WorkTyped DEF CtlRefused
  <2>8. ASSUME NEW ctl \in Ctls, CtlReceived(ctl) PROVE RoutesFollowTopology'
    BY <2>1, <2>8, WorkTyped DEF CtlReceived
  <2>9. CASE Aside
    BY <2>0, <2>9 DEF Aside
  <2>. QED
    BY <2>2, <2>3, <2>4, <2>6, <2>7, <2>8, <2>9, DiscoverySteps
<1>. QED
  BY <1>1, <1>2, PkTypeCorrect, PTL DEF PkSpec

\* For every set of lists: the CAs of the topology in force stay in the trust
\* store, but for EAs and AAs that its ECTL named itself.
THEOREM TopologiesAreStored == PkSpec => []TopologyIsStored
<1>1. PkInit => TopologyIsStored
  BY DEF PkInit, TopologyIsStored, NoTopology, CasOf, CertsOf, Range
<1>2. PkTypeOK /\ DiscoveryInv /\ TopologyIsStored /\ [PkNext]_pkVars => TopologyIsStored'
  <2>. SUFFICES ASSUME PkTypeOK, DiscoveryInv, TopologyIsStored, [PkNext]_pkVars
               PROVE  TopologyIsStored'
    OBVIOUS
  <2>0. ASSUME UNCHANGED topology, DOMAIN certs \subseteq DOMAIN certs'
        PROVE  TopologyIsStored'
    BY <2>0 DEF TopologyIsStored, CasOf
  <2>1. ASSUME NEW w, NEW i, NextRca(w, i), DOMAIN certs \subseteq DOMAIN certs',
               CasOf(w) \subseteq DOMAIN certs'
        PROVE  TopologyIsStored'
    <3>1. UNCHANGED topology \/ topology' = w
      BY <2>1, NextRcaSteps DEF Conclude
    <3>2. CASE topology' = w
      BY <2>1, <3>2 DEF TopologyIsStored, CasOf
    <3>. QED
      BY <2>0, <2>1, <3>1, <3>2
  <2>2. CASE DiscoverTlm
    BY <2>0, <2>2 DEF DiscoverTlm, tcVars
  <2>3. ASSUME NEW c \in Certs, TlmReceived(c) PROVE TopologyIsStored'
    BY <2>0, <2>3 DEF TlmReceived, Add
  <2>4. ASSUME NEW ectl \in Ectls, EctlReceived(ectl) PROVE TopologyIsStored'
    <3>1. NextRca(AfterEctl(ectl), 1) /\ DOMAIN certs' = DOMAIN certs \cup Range(ectl.rcas)
      BY <2>4 DEF EctlReceived, AddAll
    <3>2. CasOf(AfterEctl(ectl)) = Range(ectl.rcas)
      BY <2>4, EctlGathers DEF EctlReceived, VerifySigned
    <3>. QED
      BY <2>1, <3>1, <3>2
  <2>5. ASSUME pc = "ctl" PROVE CasOf(work) \subseteq DOMAIN certs
    BY <2>5 DEF DiscoveryInv, DiscoveryStores
  <2>6. CASE CtlFetchFails
    BY <2>1, <2>5, <2>6 DEF CtlFetchFails, tcVars
  <2>7. CASE CtlRefused
    BY <2>1, <2>5, <2>7, CasOfSteps DEF CtlRefused, tcVars
  <2>8. ASSUME NEW ctl \in Ctls, CtlReceived(ctl) PROVE TopologyIsStored'
    <3>1. DOMAIN certs' = DOMAIN certs \cup CertsOf(ctl.eas) \cup CertsOf(ctl.aas)
      BY <2>8 DEF CtlReceived, AddAll
    <3>. QED
      BY <2>1, <2>5, <2>8, <3>1, CasOfSteps DEF CtlReceived
  <2>9. CASE Aside
    BY <2>0, <2>9 DEF Aside
  <2>. QED
    BY <2>2, <2>3, <2>4, <2>6, <2>7, <2>8, <2>9, DiscoverySteps
<1>. QED
  BY <1>1, <1>2, PkTypeCorrect, DiscoveryInvariant, PTL DEF PkSpec

\* A complete gathering is the outcome of a discovery without its loop.
LEMMA GatheredIsResult ==
  ASSUME NEW w, NEW ectl \in Ectls, NEW q, Gathered(w, ectl, q, Len(ectl.rcas))
  PROVE  \E d \in DiscoveryResults(Ectls, Ctls) : \A f \in DOMAIN d : w[f] = d[f]
<1>1. DOMAIN ectl.rcas = 1..Len(ectl.rcas)
  BY ClientAssumption, LenProperties DEF TrustListType
<1>2. /\ DOMAIN q = 1..Len(ectl.rcas)
      /\ q \in CtlChoices(ectl, Ctls)
  BY <1>1 DEF Gathered, CtlChoices
<1>. DEFINE Result(e, p) == [tlm |-> e.signer,
                             rcas |-> e.rcas,
                             eas |-> e.eas \o FlattenSeq([i \in DOMAIN p |-> p[i].eas]),
                             aas |-> e.aas \o FlattenSeq([i \in DOMAIN p |-> p[i].aas]),
                             dcs |-> e.dcs \o FlattenSeq([i \in DOMAIN p |-> p[i].dcs])]
            d == Result(ectl, q)
<1>3. d \in DiscoveryResults(Ectls, Ctls)
  <2>1. DiscoveryResults(Ectls, Ctls) =
          UNION {{Result(e, p) : p \in CtlChoices(e, Ctls)} : e \in Ectls}
    BY Zenon DEF DiscoveryResults
  <2>. HIDE DEF Result
  <2>. DEFINE Results(e) == {Result(e, p) : p \in CtlChoices(e, Ctls)}
  <2>2. d \in Results(ectl)
    BY <1>2
  <2>3. DiscoveryResults(Ectls, Ctls) = UNION {Results(e) : e \in Ectls}
    BY <2>1
  <2>. HIDE DEF Results, d
  <2>. QED
    BY <2>2, <2>3
<1>4. \A f \in DOMAIN d : w[f] = d[f]
  <2>1. /\ w.tlm = d.tlm /\ w.rcas = d.rcas /\ w.eas = d.eas /\ w.aas = d.aas /\ w.dcs = d.dcs
    BY <1>2 DEF Gathered
  <2>2. DOMAIN d = {"tlm", "rcas", "eas", "aas", "dcs"}
    OBVIOUS
  <2>. HIDE DEF d
  <2>. QED
    BY <2>1, <2>2
<1>. QED
  BY <1>3, <1>4, Zenon

\* For every set of lists: the topology in force is one that the published lists
\* make up, entries in order, none lost, repeated or left over.
THEOREM TopologiesAreDiscoverable == PkSpec => []TopologyIsDiscoverable
<1>. DEFINE Found(w) == \E d \in DiscoveryResults(Ectls, Ctls) : \A f \in DOMAIN d : w[f] = d[f]
<1>1. PkInit => TopologyIsDiscoverable
  BY DEF PkInit, TopologyIsDiscoverable
<1>2. PkTypeOK /\ DiscoveryInv /\ TopologyIsDiscoverable /\ [PkNext]_pkVars => TopologyIsDiscoverable'
  <2>. SUFFICES ASSUME PkTypeOK, DiscoveryInv, TopologyIsDiscoverable, [PkNext]_pkVars
               PROVE  TopologyIsDiscoverable'
    OBVIOUS
  <2>0. ASSUME UNCHANGED topology PROVE TopologyIsDiscoverable'
    BY <2>0 DEF TopologyIsDiscoverable
  <2>1. ASSUME NEW ectl \in Ectls, NEW w, NEW q, NEW n \in Nat, NextRca(w, n + 1),
               Gathered(w, ectl, q, n), n <= Len(ectl.rcas)
        PROVE  TopologyIsDiscoverable'
    <3>1. CASE UNCHANGED topology
      BY <2>0, <3>1
    <3>2. CASE ~UNCHANGED topology
      <4>1. topology' = w /\ n + 1 > Len(w.rcas)
        BY <2>1, <3>2, NextRcaSteps DEF Conclude
      <4>2. n = Len(ectl.rcas)
        <5>1. w.rcas = ectl.rcas /\ Len(ectl.rcas) \in Nat
          BY <2>1, ClientAssumption, LenProperties DEF Gathered, TrustListType
        <5>. QED
          BY <2>1, <4>1, <5>1
      <4>3. Found(w)
        BY <2>1, <4>2, GatheredIsResult
      <4>. QED
        BY <4>1, <4>3 DEF TopologyIsDiscoverable
    <3>. QED
      BY <3>1, <3>2
  <2>2. CASE DiscoverTlm
    BY <2>0, <2>2 DEF DiscoverTlm
  <2>3. ASSUME NEW c \in Certs, TlmReceived(c) PROVE TopologyIsDiscoverable'
    BY <2>0, <2>3 DEF TlmReceived
  <2>4. ASSUME NEW ectl \in Ectls, EctlReceived(ectl) PROVE TopologyIsDiscoverable'
    <3>1. PICK q : Gathered(AfterEctl(ectl), ectl, q, 0)
      BY <2>4, EctlGathers DEF EctlReceived, VerifySigned, DiscoveryInv
    <3>2. NextRca(AfterEctl(ectl), 0 + 1) /\ 0 <= Len(ectl.rcas)
      BY <2>4, ClientAssumption, LenProperties DEF EctlReceived, TrustListType
    <3>. QED
      BY <2>1, <3>1, <3>2
  <2>5. ASSUME pc = "ctl"
        PROVE  \E ectl \in Ectls :
                 /\ idx \in Nat /\ idx <= Len(ectl.rcas)
                 /\ \E p : Gathered(work, ectl, p, idx)
                 /\ \E p : Gathered(CtlRefusal(work), ectl, p, idx)
                 /\ \A ctl \in Ctls : ctl.signer = work.rcas[idx] =>
                      \E p : Gathered(Extended(work, ctl), ectl, p, idx)
    <3>1. PICK ectl \in Ectls : \E q : Gathered(work, ectl, q, idx - 1)
      BY <2>5 DEF DiscoveryInv, WorkIsGathered
    <3>2. idx \in 1..Len(ectl.rcas) /\ idx \in Nat
      BY <2>5, <3>1, LoopTurn DEF Gathered
    <3>3. idx <= Len(ectl.rcas)
      BY <3>2
    <3>. QED
      BY <2>5, <3>1, <3>2, <3>3, TurnGathers
  <2>6. CASE CtlFetchFails
    BY <2>1, <2>5, <2>6 DEF CtlFetchFails
  <2>7. CASE CtlRefused
    BY <2>1, <2>5, <2>7 DEF CtlRefused
  <2>8. ASSUME NEW ctl \in Ctls, CtlReceived(ctl) PROVE TopologyIsDiscoverable'
    BY <2>1, <2>5, <2>8 DEF CtlReceived, CtlVerified, VerifySigned
  <2>9. CASE Aside
    BY <2>0, <2>9 DEF Aside
  <2>. QED
    BY <2>2, <2>3, <2>4, <2>6, <2>7, <2>8, <2>9, DiscoverySteps
<1>. QED
  BY <1>1, <1>2, PkTypeCorrect, DiscoveryInvariant, PTL DEF PkSpec

(***************************************************************************)
(* Why an operation returns                                                *)
(***************************************************************************)
\* The lists of a discovery are asked for in this order; a response is the last
\* thing that a credential request waits for.
Stage(p) ==
  CASE p = "tlm" -> 3
    [] p = "ectl" -> 2
    [] p \in {"ctl", "response"} -> 1
    [] OTHER -> 0

\* One more RCA of the same ECTL is handled.
NextOfSameList ==
  /\ pc = "ctl" /\ pc' = "ctl"
  /\ work'.rcas = work.rcas
  /\ idx' = idx + 1 /\ idx' \in 1..Len(work.rcas)

\* The safety half of OperationsReturn: whatever the servers answer, an operation
\* in hand goes on to the next stage or, in the loop of discover_trust, to the
\* next RCA of the ECTL it started with; it never goes back, so it takes at most
\* two steps more than there are RCAs, and only fairness is left to ask for.
THEOREM OperationAdvances ==
  PkSpec => [][pc # "idle" =>
                 UNCHANGED discVars \/ Stage(pc') < Stage(pc) \/ NextOfSameList]_pkVars
<1>. DEFINE Advances == UNCHANGED discVars \/ Stage(pc') < Stage(pc) \/ NextOfSameList
<1>1. PkTypeOK /\ PkTypeOK' /\ [PkNext]_pkVars => [pc # "idle" => Advances]_pkVars
  <2>. SUFFICES ASSUME PkTypeOK, PkTypeOK', PkNext, pc # "idle"
                PROVE  Advances
    BY Zenon
  <2>0. pc \in {"tlm", "ectl", "ctl", "response"}
    BY DEF PkTypeOK
  <2>1. pc' = "idle" => Advances
    BY <2>0 DEF Stage
  <2>2. CASE CallStep
    BY <2>2 DEF CallStep, DiscoverTlm, FetchCert, FetchFails, FetchCrl, RequestEc, RequestAt, Call
  <2>3. CASE TimeStep
    BY <2>3 DEF TimeStep
  <2>4. ASSUME NEW c \in Certs, TlmReceived(c) PROVE Advances
    BY <2>4 DEF TlmReceived, Stage
  <2>5. ASSUME NEW ectl \in Ectls, EctlReceived(ectl) PROVE Advances
    <3>1. pc = "ectl" /\ pc' \in {"idle", "ctl"}
      BY <2>5, NextRcaSteps DEF EctlReceived
    <3>. QED
      BY <3>1 DEF Stage
  <2>6. ASSUME pc = "ctl", NEW w, w.rcas = work.rcas, NextRca(w, idx + 1)
        PROVE  Advances
    <3>1. work' = w /\ (pc' = "idle" \/ (pc' = "ctl" /\ idx' = idx + 1))
      BY <2>6, NextRcaSteps
    <3>2. CASE pc' = "ctl"
      <4>1. idx' \in 1..Len(work'.rcas)
        BY <3>2 DEF PkTypeOK
      <4>. QED
        BY <2>6, <3>1, <3>2, <4>1 DEF NextOfSameList
    <3>. QED
      BY <2>1, <3>1, <3>2
  <2>7. /\ CtlRefusal(work).rcas = work.rcas
        /\ \A ctl : Extended(work, ctl).rcas = work.rcas
    BY DEF CtlRefusal, Extended, PkTypeOK, TopologyType
  <2>8. CASE CtlFetchFails \/ CtlRefused
    BY <2>6, <2>7, <2>8 DEF CtlFetchFails, CtlRefused
  <2>9. ASSUME NEW ctl \in Ctls, CtlReceived(ctl) PROVE Advances
    BY <2>6, <2>7, <2>9 DEF CtlReceived
  <2>10. CASE \/ TlmFetchFails \/ EctlFetchFails \/ ResponseFails
              \/ \E ectl \in Ectls : EctlRefused(ectl)
              \/ \E msg \in Messages : ResponseReceived(msg)
    <3>1. pc' = "idle"
      BY <2>10 DEF TlmFetchFails, EctlFetchFails, ResponseFails, EctlRefused, ResponseReceived, Return
    <3>. QED
      BY <2>1, <3>1
  <2>. HIDE DEF Advances
  <2>. QED
    BY <2>2, <2>3, <2>4, <2>5, <2>8, <2>9, <2>10 DEF PkNext, OpStep
<1>. QED
  BY <1>1, PkTypeCorrect, PTL DEF PkSpec
=============================================================================
