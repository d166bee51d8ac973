----------------------- MODULE ProviderRegistry_proofs -----------------------
(***************************************************************************)
(* Theorems of ProviderRegistry for every set of endpoints and all bounds. *)
(***************************************************************************)
EXTENDS ProviderRegistry, TLAPS

LEMMA UrlType ==
    ASSUME NEW s \in Urls, NEW e \in Urls
    PROVE  BaseUrl(s, e) \in Endpoints
BY EndpointAssumption DEF BaseUrl, Urls

LEMMA BindingType == TypeOK => Binding \in Endpoints
BY UrlType DEF TypeOK, Binding

LEMMA NothingType == Nothing \in Caches /\ Written(Nothing) = Nothing
<1>1. Nothing \in Caches
  BY DEF Nothing, Caches, ModelLists
<1>2. Written(Nothing) = Nothing
  BY DEF Written, Nothing
<1> QED
  BY <1>1, <1>2

\* What is written is the cache, its missing list replaced by an empty one.
LEMMA WrittenType ==
    ASSUME NEW m \in Caches
    PROVE  /\ Written(m) \in Caches
           /\ Written(m).probe = m.probe
           /\ \/ Written(m).models = m.models
              \/ m.models = Unlisted /\ Written(m).models = EmptyList
           /\ m.probe # NoRecord => Written(m).models # Unlisted
<1>1. EmptyList \in ModelLists /\ EmptyList # Unlisted
  BY DEF ModelLists, EmptyList, Unlisted
<1>2. m = [models |-> m.models, probe |-> m.probe]
  BY DEF Caches
<1> DEFINE list == IF m.models = Unlisted /\ m.probe # NoRecord THEN EmptyList ELSE m.models
<1>3. Written(m) = [models |-> list, probe |-> m.probe]
  BY <1>2 DEF Written, Caches
<1>4. list \in ModelLists
  BY <1>1 DEF Caches
<1> QED
  BY <1>1, <1>3, <1>4 DEF Caches

\* After a save the file holds what was to be saved, or what it held.
LEMMA SaveType ==
    ASSUME TypeOK, NEW m \in Caches, SaveState(m)
    PROVE  /\ disk' \in Caches
           /\ disk'.probe # NoRecord => disk'.models # Unlisted
           /\ faults' \in 0..MaxSaveFaults
           /\ unsaved' \in BOOLEAN
           /\ \/ disk' = disk /\ unsaved'
              \/ disk' = Written(m) /\ ~unsaved'
<1>1. CASE disk' = Written(m) /\ unsaved' = FALSE /\ UNCHANGED faults
  BY <1>1, WrittenType DEF TypeOK
<1>2. CASE faults < MaxSaveFaults /\ faults' = faults + 1 /\ unsaved' = TRUE /\ UNCHANGED disk
  BY <1>2, BoundAssumption DEF TypeOK
<1> QED
  BY <1>1, <1>2 DEF SaveState

LEMMA IdleType == NoDiscovery \in Discoveries /\ NoProbe \in Probes
<1>1. NoDigest \in Versions /\ Unset \in Urls /\ "idle" \in Places
  BY DEF Versions, Urls, Places
<1>2. NoDiscovery \in Discoveries
  BY <1>1 DEF NoDiscovery, Discoveries
<1>3. NoProbe \in Probes
  BY <1>1, Zenon DEF NoProbe, Probes
<1> QED
  BY <1>2, <1>3

LEMMA StoredListType ==
    ASSUME TypeOK, discovery.at = "answered"
    PROVE  [memory EXCEPT !.models = Listed(discovery.digest, discovery.of)] \in Caches
<1>1. Listed(discovery.digest, discovery.of) \in ModelLists
  BY DEF TypeOK, ModelLists
<1> QED
  BY <1>1 DEF TypeOK, Caches

LEMMA RecordType ==
    ASSUME TypeOK
    PROVE  /\ Record \in Records
           /\ Record # NoRecord
           /\ [memory EXCEPT !.probe = Record] \in Caches
<1>1. Record \in Records
  <2>1. /\ probe.digest \in Versions /\ probe.answered \in Versions /\ probe.asked \in Urls
        /\ probe.crossed \in BOOLEAN /\ probe.ownList \in BOOLEAN
    BY DEF TypeOK, Probes
  <2>2. Binding \in Endpoints
    BY BindingType
  <2> QED
    BY <2>1, <2>2, Zenon DEF Record, RecordOf, Records
<1>2. Record # NoRecord
  BY DEF Record, RecordOf, NoRecord
<1> QED
  BY <1>1, <1>2 DEF TypeOK, Caches

-----------------------------------------------------------------------------
(***************************************************************************)
(* The type invariant.                                                     *)
(***************************************************************************)
LEMMA InitType == Init => TypeOK
<1> SUFFICES ASSUME Init PROVE TypeOK
  OBVIOUS
<1>1. memory \in Caches /\ disk \in Caches /\ disk.probe = NoRecord
  BY NothingType DEF Init, Nothing
<1>2. session \in Urls /\ saved \in Urls
  BY DEF Init, Urls
<1>3. server \in [Endpoints -> Digests]
  BY BoundAssumption DEF Init, Digests
<1>4. discovery \in Discoveries /\ probe \in Probes /\ discovery.at # "answered"
  BY IdleType DEF Init, NoDiscovery
<1>5. changes = 0 /\ restarts = 0 /\ faults = 0 /\ unsaved \in BOOLEAN
  BY DEF Init
<1> QED
  BY <1>1, <1>2, <1>3, <1>4, <1>5, BoundAssumption DEF TypeOK

LEMMA NextType == TypeOK /\ [Next]_vars => TypeOK'
<1> SUFFICES ASSUME TypeOK, [Next]_vars PROVE TypeOK'
  OBVIOUS
<1> USE DEF settings, caches, bounds
<1>1. ASSUME NEW url \in Urls, SetSessionConfiguration(url) PROVE TypeOK'
  <2>1. session' \in Urls /\ saved' \in Urls /\ changes' \in 0..MaxChanges
    BY <1>1, BoundAssumption
       DEF SetSessionConfiguration, UpdateSession, PersistLocal, TypeOK, Urls
  <2>2. UNCHANGED <<server, discovery, restarts>>
    BY <1>1 DEF SetSessionConfiguration
  <2>3. CASE UNCHANGED <<caches, probe>>
    BY <2>1, <2>2, <2>3 DEF TypeOK
  <2>4. CASE /\ ClearCache
             /\ probe' = [probe EXCEPT !.crossed = probe.at # "idle"]
    <3>1. memory' = Nothing /\ SaveState(Nothing)
      BY <2>4 DEF ClearCache
    <3>2. probe' \in Probes
      BY <2>4 DEF TypeOK, Probes
    <3> QED
      BY <2>1, <2>2, <3>1, <3>2, NothingType, SaveType DEF TypeOK
  <2> QED
    BY <1>1, <2>3, <2>4 DEF SetSessionConfiguration
<1>2. ASSUME NEW url \in Urls, Restart(url) PROVE TypeOK'
  <2>1. session' \in Urls /\ saved' \in Urls /\ restarts' \in 0..MaxRestarts
    BY <1>2, BoundAssumption DEF Restart, TypeOK, Urls
  <2>2. discovery' \in Discoveries /\ discovery'.at # "answered" /\ probe' \in Probes
    BY <1>2, IdleType DEF Restart, NoDiscovery
  <2>3. memory' = disk /\ unsaved' \in BOOLEAN /\ UNCHANGED <<server, disk, changes, faults>>
    BY <1>2 DEF Restart
  <2> QED
    BY <2>1, <2>2, <2>3 DEF TypeOK
<1>3. CASE DiscoverModels
  <2>1. discovery' \in Discoveries /\ discovery'.at = "started"
    BY <1>3, IdleType DEF DiscoverModels, Discoveries, Places
  <2> QED
    BY <1>3, <2>1 DEF DiscoverModels, TypeOK
<1>4. CASE RequestModels
  <2>1. Binding \in Endpoints /\ server[Binding] \in Digests
    BY BindingType DEF TypeOK
  <2>2. /\ discovery' \in Discoveries
        /\ discovery'.digest \in Digests
        /\ discovery'.of \in Endpoints
    BY <1>4, <2>1 DEF RequestModels, Discoveries, Places, Versions, Urls
  <2> QED
    BY <1>4, <2>2 DEF RequestModels, TypeOK
<1>5. CASE StoreModels
  <2>1. memory' \in Caches /\ SaveState(memory')
    BY <1>5, StoredListType DEF StoreModels
  <2>2. discovery' \in Discoveries /\ discovery'.at # "answered"
    BY <1>5, IdleType DEF StoreModels, NoDiscovery
  <2> QED
    BY <1>5, <2>1, <2>2, SaveType DEF StoreModels, TypeOK
<1>6. CASE DiscoveryFails
  <2>1. discovery' \in Discoveries /\ discovery'.at # "answered"
    BY <1>6, IdleType DEF DiscoveryFails, NoDiscovery
  <2> QED
    BY <1>6, <2>1 DEF DiscoveryFails, TypeOK
<1>7. CASE ProbeToolCall
  <2>1. memory.models.digest \in Versions
    BY DEF TypeOK, Caches, ModelLists, Unlisted, EmptyList, Listed, Versions
  <2> DEFINE own == memory.models.of \in {Unset, Binding}
  <2>2. own \in BOOLEAN
    OBVIOUS
  <2> HIDE DEF own
  <2>3. [NoProbe EXCEPT !.at = "started", !.digest = memory.models.digest, !.ownList = own]
          \in Probes
    BY <2>1, <2>2, IdleType DEF Probes, Places
  <2>4. probe' \in Probes
    BY <1>7, <2>3 DEF ProbeToolCall, own
  <2> QED
    BY <1>7, <2>4 DEF ProbeToolCall, TypeOK
<1>8. CASE Complete
  <2>1. Binding \in Urls /\ server[Binding] \in Versions
    BY BindingType DEF TypeOK, Urls, Versions
  <2>2. probe' \in Probes
    BY <1>8, <2>1 DEF Complete, TypeOK, Probes, Places
  <2> QED
    BY <1>8, <2>2 DEF Complete, TypeOK
<1>9. CASE Retry
  <2>1. probe' \in Probes
    BY <1>9 DEF Retry, TypeOK, Probes, Places
  <2> QED
    BY <1>9, <2>1 DEF Retry, TypeOK
<1>10. CASE StoreProbe
  <2>1. memory' \in Caches /\ SaveState(memory')
    BY <1>10, RecordType DEF StoreProbe
  <2>2. probe' \in Probes
    BY <1>10, IdleType DEF StoreProbe
  <2> QED
    BY <1>10, <2>1, <2>2, SaveType DEF StoreProbe, TypeOK
<1>11. ASSUME NEW e \in Endpoints, Update(e) PROVE TypeOK'
  <2>1. server' \in [Endpoints -> Digests]
    BY <1>11, BoundAssumption DEF Update, TypeOK, Digests
  <2> QED
    BY <1>11, <2>1 DEF Update, TypeOK
<1>12. CASE UNCHANGED vars
  BY <1>12 DEF vars, TypeOK
<1> QED
  BY <1>1, <1>2, <1>3, <1>4, <1>5, <1>6, <1>7, <1>8, <1>9, <1>10, <1>11, <1>12 DEF Next

\* The state of the registry and of its cache file is well-formed in every
\* behaviour, and a file with a record has a list (_save_state).
THEOREM TypeCorrect == Spec => []TypeOK
<1> QED
  BY InitType, NextType, PTL DEF Spec

-----------------------------------------------------------------------------
(***************************************************************************)
(* The cache file.                                                         *)
(***************************************************************************)
LEMMA SavedIsCurrent ==
    ASSUME TypeOK, NEW m \in Caches, memory' = m, SaveState(m)
    PROVE  DiskIsMemory'
BY SaveType, WrittenType DEF DiskIsMemory

LEMMA DiskNext == TypeOK /\ DiskIsMemory /\ [Next]_vars => DiskIsMemory'
<1> SUFFICES ASSUME TypeOK, DiskIsMemory, [Next]_vars PROVE DiskIsMemory'
  OBVIOUS
<1>1. CASE UNCHANGED caches
  BY <1>1 DEF caches, DiskIsMemory
<1>2. ASSUME NEW url \in Urls, SetSessionConfiguration(url) PROVE DiskIsMemory'
  <2>1. CASE ClearCache
    BY <2>1, NothingType, SavedIsCurrent DEF ClearCache
  <2> QED
    BY <1>1, <1>2, <2>1 DEF SetSessionConfiguration
<1>3. ASSUME NEW url \in Urls, Restart(url) PROVE DiskIsMemory'
  BY <1>3 DEF Restart, DiskIsMemory
<1>4. CASE StoreModels
  BY <1>4, StoredListType, SavedIsCurrent DEF StoreModels
<1>5. CASE StoreProbe
  BY <1>5, RecordType, SavedIsCurrent DEF StoreProbe
<1>6. CASE DiscoverModels \/ RequestModels \/ DiscoveryFails \/ ProbeToolCall \/ Complete \/ Retry
  BY <1>1, <1>6
     DEF DiscoverModels, RequestModels, DiscoveryFails, ProbeToolCall, Complete, Retry
<1>7. ASSUME NEW e \in Endpoints, Update(e) PROVE DiskIsMemory'
  BY <1>1, <1>7 DEF Update
<1>8. CASE UNCHANGED vars
  BY <1>1, <1>8 DEF vars
<1> QED
  BY <1>2, <1>3, <1>4, <1>5, <1>6, <1>7, <1>8 DEF Next

\* Unless a save failed, a restart loads what the API knew: a cleared result does
\* not come back and a stored one is not lost (_save_state, _load_state).
THEOREM DiskCurrent == Spec => []DiskIsMemory
<1>1. Init => DiskIsMemory
  BY DEF Init, DiskIsMemory, Nothing
<1> QED
  BY <1>1, InitType, NextType, DiskNext, PTL DEF Spec

-----------------------------------------------------------------------------
(***************************************************************************)
(* The endpoint of a result.                                               *)
(***************************************************************************)
OfEndpoint(r) == r # NoRecord /\ ~r.crossed => r.asked \in {Unset, r.binding}

\* A record was asked of the endpoint it is bound to, in memory and in the file,
\* and a probe under way of the endpoint there is now.
EndpointInv ==
    /\ OfEndpoint(memory.probe)
    /\ OfEndpoint(disk.probe)
    /\ probe.at # "idle" /\ ~probe.crossed => probe.asked \in {Unset, Binding}

\* Saving keeps what holds of the record in memory and of the one in the file.
LEMMA SavedRecord ==
    ASSUME TypeOK, NEW m \in Caches, SaveState(m)
    PROVE  disk'.probe = disk.probe \/ disk'.probe = m.probe
BY SaveType, WrittenType

LEMMA EndpointNext == TypeOK /\ EndpointInv /\ [Next]_vars => EndpointInv'
<1> SUFFICES ASSUME TypeOK, EndpointInv, [Next]_vars PROVE EndpointInv'
  OBVIOUS
<1> USE DEF settings, caches, bounds
<1>1. ASSUME NEW url \in Urls, SetSessionConfiguration(url) PROVE EndpointInv'
  <2>1. CASE /\ ClearCache
             /\ probe' = [probe EXCEPT !.crossed = probe.at # "idle"]
    <3>1. memory'.probe = NoRecord /\ (disk'.probe = disk.probe \/ disk'.probe = NoRecord)
      BY <2>1, NothingType, SavedRecord DEF ClearCache, Nothing
    <3>2. probe'.at # "idle" => probe'.crossed
      BY <2>1 DEF TypeOK, Probes
    <3> QED
      BY <3>1, <3>2 DEF EndpointInv, OfEndpoint
  <2>2. CASE Binding' = Binding /\ UNCHANGED <<memory, disk, probe>>
    BY <2>2 DEF EndpointInv, OfEndpoint
  <2> QED
    BY <1>1, <2>1, <2>2 DEF SetSessionConfiguration, Binding
<1>2. ASSUME NEW url \in Urls, Restart(url) PROVE EndpointInv'
  BY <1>2 DEF Restart, EndpointInv, OfEndpoint, NoProbe
<1>3. CASE StoreModels
  <2>1. memory' \in Caches /\ SaveState(memory') /\ memory'.probe = memory.probe
    BY <1>3, StoredListType DEF StoreModels, TypeOK, Caches
  <2>2. disk'.probe = disk.probe \/ disk'.probe = memory.probe
    BY <2>1, SavedRecord
  <2>3. probe' = probe /\ Binding' = Binding
    BY <1>3 DEF StoreModels, Binding
  <2> QED
    BY <2>1, <2>2, <2>3 DEF EndpointInv, OfEndpoint
<1>4. CASE StoreProbe
  <2>1. memory' \in Caches /\ SaveState(memory') /\ memory'.probe = Record
    BY <1>4, RecordType DEF StoreProbe, TypeOK, Caches
  <2>2. disk'.probe = disk.probe \/ disk'.probe = Record
    BY <2>1, SavedRecord
  <2>3. Record.binding = Binding /\ Record.asked = probe.asked /\ Record.crossed = probe.crossed
    BY DEF Record, RecordOf
  <2>4. OfEndpoint(Record)
    BY <1>4, <2>3 DEF StoreProbe, EndpointInv, OfEndpoint
  <2>5. probe'.at = "idle"
    BY <1>4 DEF StoreProbe, NoProbe
  <2> QED
    BY <2>1, <2>2, <2>4, <2>5 DEF EndpointInv, OfEndpoint
<1>5. CASE ProbeToolCall
  <2>1. probe'.asked = Unset
    BY <1>5 DEF ProbeToolCall, NoProbe
  <2> QED
    BY <1>5, <2>1 DEF ProbeToolCall, EndpointInv, OfEndpoint
<1>6. CASE Complete
  <2>1. probe'.asked = Binding /\ Binding' = Binding
    BY <1>6 DEF Complete, TypeOK, Probes, Binding
  <2> QED
    BY <1>6, <2>1 DEF Complete, EndpointInv, OfEndpoint
<1>7. CASE Retry
  <2>1. probe'.asked = probe.asked /\ probe'.crossed = probe.crossed /\ Binding' = Binding
    BY <1>7 DEF Retry, TypeOK, Probes, Binding
  <2> QED
    BY <1>7, <2>1 DEF Retry, EndpointInv, OfEndpoint
<1>8. CASE DiscoverModels \/ RequestModels \/ DiscoveryFails
  BY <1>8 DEF DiscoverModels, RequestModels, DiscoveryFails, EndpointInv, OfEndpoint, Binding
<1>9. ASSUME NEW e \in Endpoints, Update(e) PROVE EndpointInv'
  BY <1>9 DEF Update, EndpointInv, OfEndpoint, Binding
<1>10. CASE UNCHANGED vars
  BY <1>10 DEF vars, EndpointInv, OfEndpoint, Binding
<1> QED
  BY <1>1, <1>2, <1>3, <1>4, <1>5, <1>6, <1>7, <1>8, <1>9, <1>10 DEF Next

\* A result shown for an endpoint was given by it, whatever was changed, saved or
\* restarted in between, unless the endpoint changed under the probe
\* (probe_tool_call, set_session_configuration, _load_state, status).
THEOREM ProbeEndpoint == Spec => []ProbeOfEndpoint
<1>1. Init => EndpointInv
  BY DEF Init, EndpointInv, OfEndpoint, Nothing, NoProbe
<1>2. EndpointInv => ProbeOfEndpoint
  BY DEF EndpointInv, OfEndpoint, ProbeOfEndpoint, Valid
<1> QED
  BY <1>1, <1>2, InitType, NextType, EndpointNext, PTL DEF Spec

-----------------------------------------------------------------------------
(***************************************************************************)
(* The version of a result.                                                *)
(***************************************************************************)
ListKnown(list) == list.state = "listed" => list.digest <= server[list.of]

RecordOrdered(r) ==
    r # NoRecord /\ ~r.crossed /\ r.ownList /\ r.answered # NoDigest
        => r.digest <= r.answered /\ r.answered <= server[r.binding]

ProbeOrdered ==
    probe.at # "idle" /\ ~probe.crossed /\ probe.ownList
        => /\ probe.digest <= server[Binding]
           /\ probe.answered # NoDigest
                => probe.digest <= probe.answered /\ probe.answered <= server[Binding]

\* A model only gets newer, so a digest read from a list is at most the version
\* that answers later, and that at most the version there is now.
VersionInv ==
    /\ ListKnown(memory.models) /\ ListKnown(disk.models)
    /\ discovery.at = "answered" => discovery.digest <= server[discovery.of]
    /\ RecordOrdered(memory.probe) /\ RecordOrdered(disk.probe)
    /\ ProbeOrdered

LEMMA SavedCache ==
    ASSUME TypeOK, NEW m \in Caches, SaveState(m)
    PROVE  /\ disk'.probe \in {disk.probe, m.probe}
           /\ disk'.models \in {disk.models, m.models, EmptyList}
BY SaveType, WrittenType

LEMMA EmptyKnown == ListKnown(EmptyList) /\ ListKnown(Unlisted)
BY DEF ListKnown, EmptyList, Unlisted

\* A list has the state listed exactly if it has an endpoint and a digest.
LEMMA ListType ==
    ASSUME NEW list \in ModelLists
    PROVE  \/ list.state = "listed" /\ list.of \in Endpoints /\ list.digest \in Digests
           \/ list.state # "listed" /\ list.of = Unset /\ list.digest = NoDigest
BY DEF ModelLists, Unlisted, EmptyList, Listed

LEMMA VersionNext == TypeOK /\ VersionInv /\ [Next]_vars => VersionInv'
<1> SUFFICES ASSUME TypeOK, VersionInv, [Next]_vars PROVE VersionInv'
  OBVIOUS
<1> USE DEF settings, caches, bounds
<1>1. ASSUME NEW url \in Urls, SetSessionConfiguration(url) PROVE VersionInv'
  <2>1. UNCHANGED <<server, discovery>>
    BY <1>1 DEF SetSessionConfiguration
  <2>2. CASE /\ ClearCache
             /\ probe' = [probe EXCEPT !.crossed = probe.at # "idle"]
    <3>1. /\ memory'.probe = NoRecord /\ memory'.models = Unlisted
          /\ disk'.probe \in {disk.probe, NoRecord}
          /\ disk'.models \in {disk.models, Unlisted, EmptyList}
      BY <2>2, NothingType, SavedCache DEF ClearCache, Nothing
    <3>2. probe'.at # "idle" => probe'.crossed
      BY <2>2 DEF TypeOK, Probes
    <3>3. ListKnown(memory'.models) /\ ListKnown(disk'.models)
      BY <3>1, EmptyKnown DEF VersionInv
    <3> QED
      BY <2>1, <3>1, <3>2, <3>3 DEF VersionInv, ListKnown, RecordOrdered, ProbeOrdered
  <2>3. CASE Binding' = Binding /\ UNCHANGED <<memory, disk, probe>>
    BY <2>1, <2>3 DEF VersionInv, ListKnown, RecordOrdered, ProbeOrdered
  <2> QED
    BY <1>1, <2>2, <2>3 DEF SetSessionConfiguration, Binding
<1>2. ASSUME NEW url \in Urls, Restart(url) PROVE VersionInv'
  <2>1. memory' = disk /\ UNCHANGED <<server, disk>>
    BY <1>2 DEF Restart
  <2>2. discovery'.at = "idle" /\ probe'.at = "idle"
    BY <1>2 DEF Restart, NoDiscovery, NoProbe
  <2> QED
    BY <2>1, <2>2 DEF VersionInv, ListKnown, RecordOrdered, ProbeOrdered
<1>3. CASE StoreModels
  <2> DEFINE list == Listed(discovery.digest, discovery.of)
  <2>1. /\ memory' \in Caches /\ SaveState(memory')
        /\ memory'.probe = memory.probe /\ memory'.models = list
    BY <1>3, StoredListType DEF StoreModels, TypeOK, Caches
  <2>2. disk'.probe \in {disk.probe, memory.probe} /\ disk'.models \in {disk.models, list, EmptyList}
    BY <2>1, SavedCache
  <2>3. ListKnown(list)
    BY <1>3 DEF StoreModels, VersionInv, ListKnown, Listed
  <2>4. UNCHANGED <<server, probe>> /\ Binding' = Binding /\ discovery'.at = "idle"
    BY <1>3 DEF StoreModels, Binding, NoDiscovery
  <2>5. ListKnown(memory'.models) /\ ListKnown(disk'.models)
    BY <2>1, <2>2, <2>3, EmptyKnown DEF VersionInv
  <2> QED
    BY <2>1, <2>2, <2>4, <2>5 DEF VersionInv, ListKnown, RecordOrdered, ProbeOrdered
<1>4. CASE StoreProbe
  <2>1. /\ memory' \in Caches /\ SaveState(memory')
        /\ memory'.probe = Record /\ memory'.models = memory.models
    BY <1>4, RecordType DEF StoreProbe, TypeOK, Caches
  <2>2. disk'.probe \in {disk.probe, Record} /\ disk'.models \in {disk.models, memory.models, EmptyList}
    BY <2>1, SavedCache
  <2>3. /\ Record.binding = Binding /\ Record.digest = probe.digest
        /\ Record.answered = probe.answered /\ Record.crossed = probe.crossed
        /\ Record.ownList = probe.ownList
    BY DEF Record, RecordOf
  <2>4. RecordOrdered(Record)
    BY <1>4, <2>3 DEF StoreProbe, VersionInv, ProbeOrdered, RecordOrdered
  <2>5. UNCHANGED <<server, discovery>> /\ probe'.at = "idle"
    BY <1>4 DEF StoreProbe, NoProbe
  <2>6. ListKnown(memory'.models) /\ ListKnown(disk'.models)
    BY <2>1, <2>2, EmptyKnown DEF VersionInv
  <2>7. RecordOrdered(memory'.probe) /\ RecordOrdered(disk'.probe)
    BY <2>1, <2>2, <2>4 DEF VersionInv
  <2> QED
    BY <2>5, <2>6, <2>7 DEF VersionInv, ListKnown, RecordOrdered, ProbeOrdered
<1>5. CASE ProbeToolCall
  <2>1. /\ probe'.digest = memory.models.digest /\ probe'.answered = NoDigest
        /\ probe'.ownList = (memory.models.of \in {Unset, Binding})
    BY <1>5 DEF ProbeToolCall, NoProbe
  <2>2. Binding \in Endpoints /\ server[Binding] \in Digests
    BY BindingType DEF TypeOK
  <2>3. memory.models \in ModelLists
    BY DEF TypeOK, Caches
  <2>4. probe'.ownList => probe'.digest <= server[Binding]
    <3>1. CASE memory.models.state = "listed"
      <4>1. memory.models.of \in Endpoints /\ memory.models.digest <= server[memory.models.of]
        BY <2>3, <3>1, ListType DEF VersionInv, ListKnown
      <4> QED
        BY <2>1, <4>1, EndpointAssumption
    <3>2. CASE memory.models.state # "listed"
      <4>1. memory.models.digest = 0
        BY <2>3, <3>2, ListType DEF NoDigest
      <4> QED
        BY <2>1, <2>2, <4>1 DEF Digests
    <3> QED
      BY <3>1, <3>2
  <2>5. UNCHANGED <<server, memory, disk, discovery>> /\ Binding' = Binding
    BY <1>5 DEF ProbeToolCall, Binding
  <2> QED
    BY <2>1, <2>4, <2>5 DEF VersionInv, ListKnown, RecordOrdered, ProbeOrdered
<1>6. CASE Complete
  <2>1. /\ probe'.digest = probe.digest /\ probe'.answered = server[Binding]
        /\ probe'.ownList = probe.ownList /\ probe'.crossed = probe.crossed
        /\ probe.at # "idle"
    BY <1>6 DEF Complete, TypeOK, Probes
  <2>2. UNCHANGED <<server, memory, disk, discovery>> /\ Binding' = Binding
    BY <1>6 DEF Complete, Binding
  <2>3. server[Binding] \in Nat
    BY BindingType DEF TypeOK, Digests
  <2> QED
    BY <2>1, <2>2, <2>3 DEF VersionInv, ListKnown, RecordOrdered, ProbeOrdered
<1>7. CASE Retry
  <2>1. /\ probe'.digest = probe.digest /\ probe'.answered = probe.answered
        /\ probe'.ownList = probe.ownList /\ probe'.crossed = probe.crossed
        /\ probe.at # "idle"
    BY <1>7 DEF Retry, TypeOK, Probes
  <2>2. UNCHANGED <<server, memory, disk, discovery>> /\ Binding' = Binding
    BY <1>7 DEF Retry, Binding
  <2> QED
    BY <2>1, <2>2 DEF VersionInv, ListKnown, RecordOrdered, ProbeOrdered
<1>8. CASE DiscoverModels \/ DiscoveryFails
  <2>1. discovery'.at # "answered"
    BY <1>8 DEF DiscoverModels, DiscoveryFails, NoDiscovery
  <2> QED
    BY <1>8, <2>1 DEF DiscoverModels, DiscoveryFails, VersionInv, ListKnown, RecordOrdered,
                      ProbeOrdered, Binding
<1>9. CASE RequestModels
  <2>1. discovery'.digest = server[Binding] /\ discovery'.of = Binding /\ server' = server
    BY <1>9 DEF RequestModels
  <2>2. server[Binding] \in Nat
    BY BindingType DEF TypeOK, Digests
  <2> QED
    BY <1>9, <2>1, <2>2 DEF RequestModels, VersionInv, ListKnown, RecordOrdered, ProbeOrdered, Binding
<1>10. ASSUME NEW e \in Endpoints, Update(e) PROVE VersionInv'
  <2>1. \A f \in Endpoints : server[f] \in Nat /\ server'[f] \in Nat /\ server[f] <= server'[f]
    BY <1>10 DEF Update, TypeOK, Digests
  <2>2. UNCHANGED <<memory, disk, discovery, probe>> /\ Binding' = Binding
    BY <1>10 DEF Update, Binding
  <2>3. Binding \in Endpoints
    BY BindingType
  <2>4. ASSUME NEW list \in ModelLists, ListKnown(list)
        PROVE  list.state = "listed" => list.digest <= server'[list.of]
    BY <2>1, <2>4, ListType DEF ListKnown, Digests
  <2>5. ASSUME NEW r \in Records \cup {NoRecord}, RecordOrdered(r)
        PROVE  r # NoRecord /\ ~r.crossed /\ r.ownList /\ r.answered # NoDigest
                   => r.digest <= r.answered /\ r.answered <= server'[r.binding]
    BY <2>1, <2>5 DEF RecordOrdered, Records, Versions, Digests, NoDigest
  <2>6. /\ memory.models \in ModelLists /\ disk.models \in ModelLists
        /\ memory.probe \in Records \cup {NoRecord} /\ disk.probe \in Records \cup {NoRecord}
    BY DEF TypeOK, Caches
  <2>7. ListKnown(memory.models)' /\ ListKnown(disk.models)'
    BY <2>2, <2>4, <2>6 DEF VersionInv, ListKnown
  <2>8. RecordOrdered(memory.probe)' /\ RecordOrdered(disk.probe)'
    BY <2>2, <2>5, <2>6 DEF VersionInv, RecordOrdered
  <2>9. ProbeOrdered'
    BY <2>1, <2>2, <2>3 DEF VersionInv, ProbeOrdered, TypeOK, Probes, Versions, Digests, NoDigest
  <2>10. discovery.at = "answered" => discovery.digest <= server'[discovery.of]
    BY <2>1 DEF VersionInv, TypeOK, Digests
  <2> QED
    BY <2>2, <2>7, <2>8, <2>9, <2>10 DEF VersionInv
<1>11. CASE UNCHANGED vars
  BY <1>11 DEF vars, VersionInv, ListKnown, RecordOrdered, ProbeOrdered, Binding
<1> QED
  BY <1>1, <1>2, <1>3, <1>4, <1>5, <1>6, <1>7, <1>8, <1>9, <1>10, <1>11 DEF Next

LEMMA VersionImplies == TypeOK /\ VersionInv => ResultIsOfVersion
<1> SUFFICES ASSUME TypeOK, VersionInv, Valid, ~memory.probe.crossed, memory.probe.ownList,
                    memory.probe.answered # NoDigest,
                    memory.models = Listed(server[Binding], Binding)
             PROVE  memory.probe.answered = server[Binding]
  BY DEF ResultIsOfVersion
<1>1. memory.probe \in Records /\ memory.probe # NoRecord /\ memory.probe.binding = Binding
  BY DEF Valid, TypeOK, Caches
<1>2. memory.probe.digest = server[Binding]
  BY DEF Valid, Listed
<1>3. memory.probe.digest <= memory.probe.answered /\ memory.probe.answered <= server[Binding]
  BY <1>1 DEF VersionInv, RecordOrdered
<1>4. memory.probe.answered \in Nat /\ server[Binding] \in Nat
  BY <1>1, BindingType DEF TypeOK, Records, Versions, Digests, NoDigest
<1> QED
  BY <1>2, <1>3, <1>4

\* A result shown beside an up-to-date list was given by the version listed, when
\* the probe started from a list of its own endpoint or from none and the endpoint
\* did not change under it (probe_tool_call, _probe_for_model).
THEOREM ResultVersion == Spec => []ResultIsOfVersion
<1>1. Init => VersionInv
  BY EmptyKnown DEF Init, VersionInv, RecordOrdered, ProbeOrdered, Nothing, NoProbe, NoDiscovery
<1> QED
  BY <1>1, VersionImplies, InitType, NextType, VersionNext, PTL DEF Spec
=============================================================================
