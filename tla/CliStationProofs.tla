--------------------------- MODULE CliStationProofs ---------------------------
(***************************************************************************)
(* Proofs about the key store directory of the command line.  The argument *)
(* is that only request-at overwrites a key that loads, and only under the *)
(* name of a ticket's key: so the key in the memory of an enrolment is the *)
(* one in the store whenever a request can succeed, and an ec.cert, once   *)
(* written, keeps its key unless its id is such a name.  For tickets it is *)
(* that keygen never repeats a key, so each is stored under one name.      *)
(***************************************************************************)
EXTENDS CliStation, TLAPS

\* The handle that the command's credential is for.
CredentialHandle == IF cmd.name = "enrol" THEN cmd.id ELSE AtOf[cmd.id]

\* A credential about to be written is for the key in the store; an EC that
\* can be granted is for the key in the store, too.
GrantPart ==
  /\ pc = "request" /\ cmd.name = "enrol" /\ store[cmd.id] \in Keys => store[cmd.id] = mem.key
  /\ pc \in {"request", "cert"} /\ cmd.name # "enrol" => cmd.id \in DOMAIN AtOf
  /\ pc = "cert" => mem.cert \in Keys /\ mem.cert = store[CredentialHandle]

\* Keys in use were generated before the next one.
FreshPart ==
  /\ \A h \in Handles : store[h] \in Keys => store[h] < fresh
  /\ disk.at \in Keys => disk.at < fresh

\* A key is stored under one name only.
OneNamePart == \A h, g \in Handles : h # g /\ store[h] \in Keys => store[h] # store[g]

\* The key of at.cert is stored under no name but a ticket's.
ApartPart == disk.at \in Keys => \A h \in Handles : store[h] = disk.at => IsTicketName(h)

StationInv == StTypeOK /\ EnrolmentKeyHeld /\ GrantPart /\ FreshPart /\ OneNamePart /\ ApartPart

(***************************************************************************)
(* Types                                                                   *)
(***************************************************************************)
\* A write leaves a file of the type it had, or of the type written.
LEMMA OverwrittenTyped ==
  ASSUME NEW S, NEW old \in Files(S), NEW new \in S
  PROVE  Overwritten(old, new) \subseteq Files(S)
  BY DEF Overwritten, Files

\* Handles, in the form the steps need.
LEMMA HandleFacts ==
  /\ KeyIds \subseteq Handles
  /\ \A id \in DOMAIN AtOf : AtOf[id] \in Handles /\ IsTicketName(AtOf[id])
  /\ NoFile \notin Keys /\ Torn \notin Keys
  BY StationAssumption DEF Handles, IsTicketName

\* Keygen and store keep the types.
LEMMA GenerateTyped ==
  ASSUME StTypeOK, NEW handle \in Handles, GenerateAndStore(handle)
  PROVE  /\ store' \in [Handles -> Files(Keys)]
         /\ mem' = [mem EXCEPT !.key = fresh] /\ fresh \in Keys
         /\ fresh' \in 1..(MaxKeys + 1)
  <1>1. PICK k \in Overwritten(store[handle], fresh) : store' = [store EXCEPT ![handle] = k]
    BY DEF GenerateAndStore
  <1>2. store[handle] \in Files(Keys) /\ fresh \in Keys
    BY DEF StTypeOK, GenerateAndStore
  <1>3. k \in Files(Keys)
    BY <1>1, <1>2, OverwrittenTyped
  <1>4. fresh' \in 1..(MaxKeys + 1)
    BY StationAssumption, <1>2 DEF GenerateAndStore, Keys
  <1> QED
    BY <1>1, <1>2, <1>3, <1>4 DEF StTypeOK, GenerateAndStore

\* Every step keeps the types.
LEMMA TypeStep == StTypeOK /\ [StNext]_stVars => StTypeOK'
  <1> SUFFICES ASSUME StTypeOK, [StNext]_stVars PROVE StTypeOK'
    OBVIOUS
  <1> USE DEF StTypeOK
  <1>1. ASSUME NEW name \in {"enrol", "request_at"}, NEW id \in KeyIds, Run(name, id)
        PROVE StTypeOK'
    BY <1>1 DEF Run, NoMemory
  <1>2. CASE Stop
    BY <1>2 DEF Stop
  <1>3. ASSUME NEW g \in Gens, FetchEa(g) PROVE StTypeOK'
    <2>1. PICK f \in Overwritten(trust.ea, g) : trust' = [trust EXCEPT !.ea = f]
      BY <1>3 DEF FetchEa
    <2>2. f \in Files(Gens)
      BY <2>1, OverwrittenTyped
    <2> QED
      BY <1>3, <2>1, <2>2 DEF FetchEa
  <1>4. ASSUME NEW g \in Gens, NEW ea \in Gens \cup {NoFile}, FetchAa(g, ea) PROVE StTypeOK'
    <2>1. PICK f \in Overwritten(trust.aa, g) : trust' = [trust EXCEPT !.aa = f]
      BY <1>4 DEF FetchAa
    <2>2. f \in Files(Gens)
      BY <2>1, OverwrittenTyped
    <2> QED
      BY <1>4, <2>1, <2>2 DEF FetchAa
  <1>5. ASSUME NEW g \in Gens, FetchRoot(g) PROVE StTypeOK'
    <2>1. PICK r \in Overwritten(trust.rca, g),
               f \in IF cmd.name = "request_at" /\ mem.ea # NoFile
                       THEN Overwritten(trust.ea, mem.ea) ELSE {trust.ea} :
            trust' = [trust EXCEPT !.rca = r, !.ea = f]
      BY <1>5 DEF FetchRoot
    <2>2. r \in Files(Gens)
      BY <2>1, OverwrittenTyped
    <2>3. mem.ea # NoFile => mem.ea \in Gens
      OBVIOUS
    <2>4. f \in Files(Gens)
      BY <2>1, <2>3, OverwrittenTyped
    <2> QED
      BY <1>5, <2>1, <2>2, <2>4 DEF FetchRoot
  <1>6. CASE CanonicalKey
    <2>1. CASE Loads(cmd.id)
      BY <1>6, <2>1 DEF CanonicalKey, Loads
    <2>2. CASE ~Loads(cmd.id)
      <3>1. GenerateAndStore(cmd.id) /\ cmd.id \in Handles
        BY <1>6, <2>2, HandleFacts DEF CanonicalKey
      <3> QED
        BY <1>6, <3>1, GenerateTyped DEF CanonicalKey
    <2> QED
      BY <2>1, <2>2
  <1>7. CASE TicketKey
    <2>1. GenerateAndStore(AtOf[cmd.id]) /\ AtOf[cmd.id] \in Handles
      BY <1>7, HandleFacts DEF TicketKey, AtHandle
    <2> QED
      BY <1>7, <2>1, GenerateTyped DEF TicketKey
  <1>8. CASE EcGranted
    <2>1. mem.cert \in Keys \cup {NoFile} /\ mem.key \in Keys \cup {NoFile}
      OBVIOUS
    <2> QED
      BY <1>8, <2>1 DEF EcGranted
  <1>9. CASE TicketGranted
    <2>1. CertifiedKey(cmd.id) \in Keys
      BY <1>9 DEF TicketGranted, CertifiedKey, Loads
    <2> QED
      BY <1>9, <2>1 DEF TicketGranted
  <1>10. CASE WriteCert
    <2>1. mem.cert \in Files(Keys)
      BY DEF Files
    <2>2. Overwritten(disk.ec, mem.cert) \cup Overwritten(disk.at, mem.cert) \subseteq Files(Keys)
      BY <2>1 DEF Overwritten, Files
    <2>3. CASE cmd.name = "enrol"
      <3>1. PICK f \in Overwritten(disk.ec, mem.cert) :
              disk' = [disk EXCEPT !.ec = f] /\ ecId' = IF f = mem.cert THEN cmd.id ELSE ecId
        BY <1>10, <2>3 DEF WriteCert
      <3> QED
        BY <1>10, <2>2, <3>1 DEF WriteCert
    <2>4. CASE cmd.name # "enrol"
      <3>1. PICK f \in Overwritten(disk.at, mem.cert) :
              disk' = [disk EXCEPT !.at = f] /\ ecId' = ecId
        BY <1>10, <2>4 DEF WriteCert
      <3> QED
        BY <1>10, <2>2, <3>1 DEF WriteCert
    <2> QED
      BY <2>3, <2>4
  <1>11. CASE UNCHANGED stVars
    BY <1>11 DEF stVars
  <1> QED
    BY <1>1, <1>2, <1>3, <1>4, <1>5, <1>6, <1>7, <1>8, <1>9, <1>10, <1>11 DEF StNext

\* The initial state is typed.
LEMMA InitTyped == StInit => StTypeOK
  BY StationAssumption DEF StInit, StTypeOK, NoMemory, Files

\* Types of the command line's state: keys, files and memory hold what they are meant to hold.
THEOREM StTypeCorrect == StSpec => []StTypeOK
  BY InitTyped, TypeStep, PTL DEF StSpec

(***************************************************************************)
(* The invariant                                                           *)
(***************************************************************************)
\* What keygen and store do to a handle: it holds the new key, its old file or
\* a damaged one, the others are untouched, and the new key was in use nowhere.
LEMMA GenerateEffect ==
  ASSUME StationInv, NEW handle \in Handles, GenerateAndStore(handle)
  PROVE  /\ \A h \in Handles : h # handle => store'[h] = store[h]
         /\ store'[handle] \in {fresh, Torn, store[handle]}
         /\ \A h \in Handles : store[h] # fresh
         /\ fresh \in Keys /\ fresh \in Int /\ fresh' = fresh + 1
         /\ mem'.key = fresh /\ mem'.cert = mem.cert
  <1>1. PICK k \in {fresh, Torn, store[handle]} : store' = [store EXCEPT ![handle] = k]
    BY DEF GenerateAndStore, Overwritten
  <1>2. store \in [Handles -> Files(Keys)] /\ fresh \in Keys /\ fresh \in Int
    BY StationAssumption DEF StationInv, StTypeOK, GenerateAndStore
  <1>3. \A h \in Handles : store[h] # fresh
    BY <1>2 DEF StationInv, FreshPart
  <1>4. mem'.key = fresh /\ mem'.cert = mem.cert /\ fresh' = fresh + 1
    BY DEF StationInv, StTypeOK, GenerateAndStore
  <1> QED
    BY <1>1, <1>2, <1>3, <1>4

\* Generating over a ticket's name, or where no key is stored, keeps the parts
\* that are about the store.
LEMMA GenerateKeepsStore ==
  ASSUME StationInv, NEW handle \in Handles, GenerateAndStore(handle), disk' = disk, ecId' = ecId,
         IsTicketName(handle) \/ store[handle] \notin Keys
  PROVE  EnrolmentKeyHeld' /\ FreshPart' /\ OneNamePart' /\ ApartPart'
  <1>1. store \in [Handles -> Files(Keys)] /\ ecId \in Handles /\ Torn \notin Keys
    BY HandleFacts DEF StationInv, StTypeOK
  <1>2. EnrolmentKeyHeld'
    <2> SUFFICES ASSUME disk.ec \in Keys, ~IsTicketName(ecId) PROVE store'[ecId] = disk.ec
      BY DEF EnrolmentKeyHeld, IsTicketName
    <2>1. store[ecId] = disk.ec
      BY DEF StationInv, EnrolmentKeyHeld
    <2> QED
      BY <1>1, <2>1, GenerateEffect
  <1>3. \A h \in Handles : store'[h] \in Keys => store'[h] < fresh'
    <2> TAKE h \in Handles
    <2> HAVE store'[h] \in Keys
    <2>1. store'[h] = fresh \/ store'[h] = store[h]
      BY GenerateEffect, HandleFacts
    <2>2. store[h] \in Keys => store[h] < fresh
      BY DEF StationInv, FreshPart
    <2>3. store'[h] \in Int
      BY DEF Keys
    <2> QED
      BY <2>1, <2>2, <2>3, GenerateEffect
  <1>4. FreshPart'
    <2>1. ASSUME disk'.at \in Keys PROVE disk'.at < fresh'
      <3>1. disk.at < fresh /\ disk.at \in Int
        BY <2>1 DEF StationInv, FreshPart, Keys
      <3> QED
        BY <3>1, GenerateEffect
    <2> QED
      BY <1>3, <2>1 DEF FreshPart
  <1>5. ASSUME NEW h \in Handles, NEW g \in Handles, h # g, store'[h] \in Keys
        PROVE  store'[h] # store'[g]
    <2>1. store[h] \in Keys => store[h] # store[g]
      BY <1>5 DEF StationInv, OneNamePart
    <2>2. store'[h] \in {fresh, store[h]} /\ store'[g] \in {fresh, Torn, store[g]}
      BY <1>1, <1>5, GenerateEffect
    <2>3. store'[h] = store[h] \/ store'[g] = store[g]
      BY <1>5, GenerateEffect
    <2>4. store[h] # fresh /\ store[g] # fresh
      BY GenerateEffect
    <2> QED
      BY <1>1, <1>5, <2>1, <2>2, <2>3, <2>4
  <1>6. ASSUME disk'.at \in Keys, NEW h \in Handles, store'[h] = disk'.at PROVE IsTicketName(h)
    <2>1. disk.at # fresh
      BY <1>6, GenerateEffect DEF StationInv, FreshPart, Keys
    <2>2. store'[h] \in {fresh, Torn, store[h]}
      BY GenerateEffect
    <2> QED
      BY <1>1, <1>6, <2>1, <2>2 DEF StationInv, ApartPart
  <1>7. OneNamePart' /\ ApartPart'
    BY <1>5, <1>6 DEF OneNamePart, ApartPart, IsTicketName
  <1> QED
    BY <1>2, <1>4, <1>7

\* Every step keeps the invariant.
LEMMA StationStep == StationInv /\ [StNext]_stVars => StationInv'
  <1> SUFFICES ASSUME StationInv, [StNext]_stVars PROVE StationInv'
    OBVIOUS
  <1>0. StTypeOK /\ StTypeOK'
    BY TypeStep DEF StationInv
  <1>a. SUFFICES EnrolmentKeyHeld' /\ GrantPart' /\ FreshPart' /\ OneNamePart' /\ ApartPart'
    BY <1>0 DEF StationInv
  <1> DEFINE Kept == UNCHANGED <<store, disk, fresh, ecId>>
  <1>b. Kept => EnrolmentKeyHeld' /\ FreshPart' /\ OneNamePart' /\ ApartPart'
    BY DEF StationInv, EnrolmentKeyHeld, FreshPart, OneNamePart, ApartPart, IsTicketName
  <1>1. ASSUME NEW name \in {"enrol", "request_at"}, NEW id \in KeyIds, Run(name, id)
        PROVE StationInv'
    BY <1>0, <1>1, <1>b DEF Run, GrantPart, StationInv
  <1>2. CASE Stop
    BY <1>0, <1>2, <1>b DEF Stop, GrantPart, StationInv
  <1>3. ASSUME NEW g \in Gens, FetchEa(g) PROVE StationInv'
    BY <1>0, <1>3, <1>b DEF FetchEa, GrantPart, StationInv
  <1>4. ASSUME NEW g \in Gens, NEW ea \in Gens \cup {NoFile}, FetchAa(g, ea) PROVE StationInv'
    BY <1>0, <1>4, <1>b DEF FetchAa, GrantPart, StationInv
  <1>5. ASSUME NEW g \in Gens, FetchRoot(g) PROVE StationInv'
    BY <1>0, <1>5, <1>b DEF FetchRoot, GrantPart, StationInv
  <1>6. CASE CanonicalKey
    <2>1. cmd.id \in KeyIds /\ cmd.id \in Handles
      BY <1>0, HandleFacts DEF StTypeOK
    <2>2. CASE Loads(cmd.id)
      <3>1. /\ Kept /\ pc' = "request" /\ cmd' = cmd /\ cmd.name = "enrol"
            /\ mem' = [mem EXCEPT !.key = store[cmd.id]]
        BY <1>6, <2>2 DEF CanonicalKey
      <3>2. mem'.key = store[cmd.id]
        BY <1>0, <3>1 DEF StTypeOK
      <3>3. GrantPart'
        BY <3>1, <3>2 DEF GrantPart
      <3> QED
        BY <1>b, <1>0, <3>1, <3>3 DEF StationInv
    <2>3. CASE ~Loads(cmd.id)
      <3>1. /\ GenerateAndStore(cmd.id) /\ disk' = disk /\ ecId' = ecId
            /\ pc' = "request" /\ cmd' = cmd /\ cmd.name = "enrol"
        BY <1>6, <2>3 DEF CanonicalKey
      <3>2. store[cmd.id] \notin Keys
        BY <2>3 DEF Loads
      <3>3. EnrolmentKeyHeld' /\ FreshPart' /\ OneNamePart' /\ ApartPart'
        BY <2>1, <3>1, <3>2, GenerateKeepsStore
      <3>4. GrantPart'
        BY <2>1, <3>1, <3>2, GenerateEffect, HandleFacts DEF GrantPart
      <3> QED
        BY <1>0, <3>3, <3>4 DEF StationInv
    <2> QED
      BY <2>2, <2>3
  <1>7. CASE TicketKey
    <2>1. cmd.id \in DOMAIN AtOf /\ AtOf[cmd.id] \in Handles /\ IsTicketName(AtOf[cmd.id])
      BY <1>7, HandleFacts DEF TicketKey
    <2>2. /\ GenerateAndStore(AtOf[cmd.id]) /\ disk' = disk /\ ecId' = ecId
          /\ pc' = "request" /\ cmd' = cmd
      BY <1>7 DEF TicketKey, AtHandle
    <2>3. cmd.name # "enrol"
      BY <1>7 DEF TicketKey
    <2>4. EnrolmentKeyHeld' /\ FreshPart' /\ OneNamePart' /\ ApartPart'
      BY <2>1, <2>2, GenerateKeepsStore
    <2>5. GrantPart'
      BY <2>1, <2>2, <2>3 DEF GrantPart
    <2> QED
      BY <1>0, <2>4, <2>5 DEF StationInv
  <1>8. CASE EcGranted
    <2>1. Kept /\ pc' = "cert" /\ cmd' = cmd /\ cmd.name = "enrol" /\ store[cmd.id] \in Keys
      BY <1>8 DEF EcGranted, Loads
    <2>2. store[cmd.id] = mem.key /\ mem'.cert = mem.key
      BY <1>0, <1>8, <2>1 DEF StationInv, GrantPart, EcGranted, StTypeOK
    <2>3. GrantPart'
      BY <2>1, <2>2 DEF GrantPart, CredentialHandle
    <2> QED
      BY <1>b, <1>0, <2>1, <2>3 DEF StationInv
  <1>9. CASE TicketGranted
    <2>1. /\ Kept /\ pc' = "cert" /\ cmd' = cmd /\ cmd.name # "enrol"
          /\ store[AtOf[cmd.id]] \in Keys
      BY <1>9 DEF TicketGranted, Loads, AtHandle
    <2>2. mem'.cert = store[AtOf[cmd.id]]
      BY <1>0, <1>9 DEF TicketGranted, CertifiedKey, AtHandle, StTypeOK
    <2>3. GrantPart'
      BY <1>9, <2>1, <2>2 DEF GrantPart, CredentialHandle, StationInv, TicketGranted
    <2> QED
      BY <1>b, <1>0, <2>1, <2>3 DEF StationInv
  <1>10. CASE WriteCert
    <2>1. /\ pc = "cert" /\ pc' = "idle" /\ store' = store /\ fresh' = fresh
          /\ mem.cert \in Keys /\ mem.cert = store[CredentialHandle]
          /\ cmd.id \in KeyIds /\ Torn \notin Keys
      BY <1>0, <1>10, HandleFacts DEF WriteCert, StationInv, GrantPart, StTypeOK
    <2>2. GrantPart'
      BY <2>1 DEF GrantPart
    <2>3. CASE cmd.name = "enrol"
      <3>1. /\ disk'.at = disk.at /\ disk'.ec \in {mem.cert, Torn, disk.ec}
            /\ ecId' = IF disk'.ec = mem.cert THEN cmd.id ELSE ecId
        BY <1>0, <1>10, <2>3 DEF WriteCert, Overwritten, StTypeOK
      <3>2. mem.cert = store[cmd.id]
        BY <2>1, <2>3 DEF CredentialHandle
      <3>3. EnrolmentKeyHeld'
        BY <2>1, <3>1, <3>2 DEF StationInv, EnrolmentKeyHeld, IsTicketName
      <3>4. FreshPart' /\ OneNamePart' /\ ApartPart'
        BY <2>1, <3>1 DEF StationInv, FreshPart, OneNamePart, ApartPart, IsTicketName
      <3> QED
        BY <1>0, <2>2, <3>3, <3>4 DEF StationInv
    <2>4. CASE cmd.name # "enrol"
      <3>1. disk'.ec = disk.ec /\ disk'.at \in {mem.cert, Torn, disk.at} /\ ecId' = ecId
        BY <1>0, <1>10, <2>4 DEF WriteCert, Overwritten, StTypeOK
      <3>2. /\ mem.cert = store[AtOf[cmd.id]] /\ AtOf[cmd.id] \in Handles
            /\ IsTicketName(AtOf[cmd.id])
        BY <2>1, <2>4, HandleFacts DEF CredentialHandle, StationInv, GrantPart
      <3>3. EnrolmentKeyHeld' /\ OneNamePart'
        BY <2>1, <3>1 DEF StationInv, EnrolmentKeyHeld, OneNamePart, IsTicketName
      <3>4. FreshPart'
        BY <2>1, <3>1, <3>2 DEF StationInv, FreshPart
      <3>5. ApartPart'
        <4>1. ASSUME NEW h \in Handles, store[h] = disk'.at, disk'.at \in Keys PROVE IsTicketName(h)
          BY <2>1, <3>1, <3>2, <4>1 DEF StationInv, OneNamePart, ApartPart
        <4> QED
          BY <2>1, <4>1 DEF ApartPart, IsTicketName
      <3> QED
        BY <1>0, <2>2, <3>3, <3>4, <3>5 DEF StationInv
    <2> QED
      BY <2>3, <2>4
  <1>11. CASE UNCHANGED stVars
    BY <1>0, <1>11, <1>b DEF stVars, StationInv, GrantPart, CredentialHandle
  <1> QED
    BY <1>1, <1>2, <1>3, <1>4, <1>5, <1>6, <1>7, <1>8, <1>9, <1>10, <1>11 DEF StNext, StationInv

\* The invariant holds in an empty directory.
LEMMA StationInitial == StInit => StationInv
  <1> SUFFICES ASSUME StInit PROVE StationInv
    OBVIOUS
  <1>1. StTypeOK
    BY InitTyped
  <1>2. \A h \in Handles : store[h] \notin Keys
    BY HandleFacts DEF StInit
  <1>3. disk.ec \notin Keys /\ disk.at \notin Keys /\ pc = "idle"
    BY HandleFacts DEF StInit
  <1> QED
    BY <1>1, <1>2, <1>3, HandleFacts
    DEF StationInv, EnrolmentKeyHeld, GrantPart, FreshPart, OneNamePart, ApartPart

\* The invariant of the key store directory, for every set of key names and any
\* number of keys: certificates, stored keys and the running command agree.
THEOREM StationInvariant == StSpec => []StationInv
  BY StationInitial, StationStep, PTL DEF StSpec

\* ec.cert does not outlive its key: whatever commands are run and wherever they
\* fail, an ec.cert that can be read certifies the key stored under the id it was
\* enrolled with, unless that id is the name of another id's ticket key.
THEOREM EnrolmentHeld == StSpec => []EnrolmentKeyHeld
  <1>1. StationInv => EnrolmentKeyHeld
    BY DEF StationInv
  <1> QED
    BY StationInvariant, <1>1, PTL

\* A ticket and an EC never certify the same key, unless the EC was enrolled with
\* an id that is the name of another id's ticket key.
THEOREM TicketOwnKey == StSpec => []TicketHasItsOwnKey
  <1>1. StationInv => TicketHasItsOwnKey
    <2> SUFFICES ASSUME StationInv, disk.at \in Keys
                 PROVE  /\ disk.ec = disk.at => IsTicketName(ecId)
                        /\ \A id \in KeyIds : store[id] = disk.at => IsTicketName(id)
      BY DEF TicketHasItsOwnKey
    <2>1. \A h \in Handles : store[h] = disk.at => IsTicketName(h)
      BY DEF StationInv, ApartPart
    <2>2. ecId \in Handles /\ KeyIds \subseteq Handles
      BY HandleFacts DEF StationInv, StTypeOK
    <2>3. disk.ec \in Keys /\ ~IsTicketName(ecId) => store[ecId] = disk.ec
      BY DEF StationInv, EnrolmentKeyHeld
    <2> QED
      BY <2>1, <2>2, <2>3
  <1> QED
    BY StationInvariant, <1>1, PTL

\* request-at never writes a ticket whose key is not in the key store then.
THEOREM TicketWithKey == StSpec => TicketWrittenWithItsKey
  <1> DEFINE A == disk'.at # disk.at /\ disk'.at \in Keys => disk'.at = store'[AtOf[cmd.id]]
  <1>1. StationInv /\ [StNext]_stVars => [A]_stVars
    <2> SUFFICES ASSUME StationInv, StNext PROVE A
      OBVIOUS
    <2>1. CASE WriteCert
      <3>1. store' = store /\ Torn \notin Keys
        BY <2>1, HandleFacts DEF WriteCert
      <3>2. CASE cmd.name = "enrol"
        BY <2>1, <3>2 DEF WriteCert, StationInv, StTypeOK
      <3>3. CASE cmd.name # "enrol"
        <4>1. disk'.at \in {mem.cert, Torn, disk.at}
          BY <2>1, <3>3 DEF WriteCert, Overwritten, StationInv, StTypeOK
        <4>2. mem.cert = store[AtOf[cmd.id]]
          BY <2>1, <3>3 DEF WriteCert, StationInv, GrantPart, CredentialHandle
        <4> QED
          BY <3>1, <4>1, <4>2
      <3> QED
        BY <3>2, <3>3
    <2>2. CASE ~WriteCert
      <3>1. disk' = disk
        BY <2>2 DEF StNext, Run, Stop, FetchEa, FetchAa, FetchRoot, CanonicalKey, TicketKey,
                    EcGranted, TicketGranted
      <3> QED
        BY <3>1
    <2> QED
      BY <2>1, <2>2
  <1> QED
    BY StationInvariant, <1>1, PTL DEF StSpec, TicketWrittenWithItsKey
=============================================================================
