--------------------------- MODULE ProviderRegistry ---------------------------
(***************************************************************************)
(* model_runners/registry.py and the settings of configuration.py: what    *)
(* the API keeps about one provider whose base URL can be changed, while   *)
(* model discoveries and tool probes are under way.                        *)
(*                                                                         *)
(* A call is a coroutine of the API with a request in a thread: it starts, *)
(* the thread reads the base URL and gets its answer, and the coroutine    *)
(* stores what came back.  Requests that change the settings, and a        *)
(* restart, fall between those steps.                                      *)
(*                                                                         *)
(* What is abstracted: one provider (ollama) and one model, which every    *)
(* server has in some version; a digest is the number of its version; what *)
(* a probe found, passed or failed, is one record; at most one discovery    *)
(* and one probe are under way at once.                                    *)
(* Left out: credentials, which share the path of the base URL and never   *)
(* clear the cache, and the reachability and authentication statuses.      *)
(* What is called history below is not in the code: it tells the properties *)
(* which endpoint and which version a list or a record came from.           *)
(***************************************************************************)
EXTENDS Naturals

CONSTANTS
    Endpoints,     \* the base URLs
    Default,       \* the one of the process environment
    Unset,         \* no base URL
    MaxDigest,     \* bound of the versions of the model
    MaxChanges,    \* bound of the changes of the settings
    MaxRestarts,   \* bound of the restarts
    MaxSaveFaults  \* bound of the saves that fail

ASSUME EndpointAssumption == Default \in Endpoints /\ Unset \notin Endpoints
ASSUME BoundAssumption ==
    MaxDigest \in Nat \ {0} /\ {MaxChanges, MaxRestarts, MaxSaveFaults} \subseteq Nat

VARIABLES
    session,  \* the base URL of the session
    saved,    \* the base URL in the .env file
    server,   \* the version of the model at each endpoint
    memory,   \* the models discovered and the last probe record
    disk,     \* provider-state.json
    discovery, probe, \* the calls under way
    changes, restarts,
    faults,
    unsaved   \* history: the last save failed

settings == <<session, saved>>
caches == <<memory, disk, faults, unsaved>>
bounds == <<changes, restarts>>
vars == <<settings, server, caches, discovery, probe, bounds>>

Urls == Endpoints \cup {Unset}
Digests == 1..MaxDigest
NoDigest == 0

\* of is history: the endpoint that gave the list.
Unlisted == [state |-> "unlisted", digest |-> NoDigest, of |-> Unset]
EmptyList == [state |-> "empty", digest |-> NoDigest, of |-> Unset]
Listed(d, e) == [state |-> "listed", digest |-> d, of |-> e]
NoRecord == [state |-> "not_tested"]
Nothing == [models |-> Unlisted, probe |-> NoRecord]

NoDiscovery == [at |-> "idle", digest |-> NoDigest, of |-> Unset]

\* answered, asked, crossed and ownList are history: the version and the endpoint
\* that answered, whether the endpoint changed meanwhile, and whether the list the
\* probe started with was of that endpoint.
NoProbe == [at |-> "idle", retried |-> FALSE, digest |-> NoDigest, answered |-> NoDigest,
            asked |-> Unset, crossed |-> FALSE, ownList |-> TRUE]

-----------------------------------------------------------------------------
(***************************************************************************)
(* What the registry says.                                                 *)
(***************************************************************************)
BaseUrl(s, e) == IF s # Unset THEN s ELSE IF e # Unset THEN e ELSE Default

Binding == BaseUrl(session, saved)

\* Seeded fault: the endpoint of a record is not compared.
ValidAnywhere ==
    /\ memory.probe # NoRecord
    /\ memory.models.state = "listed" => memory.probe.digest = memory.models.digest

\* status: the record shown as tool_calling; _probe_for_model shows the same.
Valid ==
    /\ memory.probe # NoRecord
    /\ memory.probe.binding = Binding
    /\ memory.models.state = "listed" => memory.probe.digest = memory.models.digest

Init ==
    /\ session = Unset
    /\ saved = Unset
    /\ server = [e \in Endpoints |-> 1]
    /\ memory = Nothing
    /\ disk = Nothing
    /\ discovery = NoDiscovery
    /\ probe = NoProbe
    /\ changes = 0
    /\ restarts = 0
    /\ faults = 0
    /\ unsaved = FALSE

-----------------------------------------------------------------------------
(***************************************************************************)
(* provider-state.json.                                                    *)
(***************************************************************************)
\* Seeded fault: a provider without a list is written without one.
WrittenAsIs(m) == m

\* A provider without a list but with a record is written with an empty list.
Written(m) ==
    [m EXCEPT !.models = IF @ = Unlisted /\ m.probe # NoRecord THEN EmptyList ELSE @]

\* An OSError is swallowed.
SaveState(m) ==
    \/ disk' = Written(m) /\ unsaved' = FALSE /\ UNCHANGED faults
    \/ /\ faults < MaxSaveFaults
       /\ faults' = faults + 1
       /\ unsaved' = TRUE
       /\ UNCHANGED disk

-----------------------------------------------------------------------------
(***************************************************************************)
(* The settings.                                                           *)
(***************************************************************************)
\* Seeded fault: the cache is cleared in memory only.
ClearsMemory == memory' = Nothing /\ UNCHANGED <<disk, faults, unsaved>>

ClearCache == memory' = Nothing /\ SaveState(Nothing)

UpdateSession(url) == session' = url /\ UNCHANGED saved

\* The .env file is rewritten, and what the session had set is dropped.
PersistLocal(url) == session' = Unset /\ saved' = url

\* A new endpoint clears the cache.
SetSessionConfiguration(url) ==
    /\ changes < MaxChanges
    /\ changes' = changes + 1
    /\ UpdateSession(url) \/ PersistLocal(url)
    /\ IF BaseUrl(session', saved') # Binding
       THEN /\ ClearCache
            /\ probe' = [probe EXCEPT !.crossed = probe.at # "idle"]
       ELSE UNCHANGED <<caches, probe>>
    /\ UNCHANGED <<server, discovery, restarts>>

\* The process ends and starts again; the .env file may have been edited.
Restart(url) ==
    /\ restarts < MaxRestarts
    /\ restarts' = restarts + 1
    /\ session' = Unset
    /\ saved' = url
    /\ memory' = disk
    /\ discovery' = NoDiscovery
    /\ probe' = NoProbe
    /\ unsaved' = FALSE
    /\ UNCHANGED <<server, disk, changes, faults>>

-----------------------------------------------------------------------------
(***************************************************************************)
(* Calls.                                                                  *)
(***************************************************************************)
DiscoverModels ==
    /\ discovery.at = "idle"
    /\ discovery' = [NoDiscovery EXCEPT !.at = "started"]
    /\ UNCHANGED <<settings, server, caches, probe, bounds>>

\* In the thread: the base URL is read and its server answers.
RequestModels ==
    /\ discovery.at = "started"
    /\ discovery' = [at |-> "answered", digest |-> server[Binding], of |-> Binding]
    /\ UNCHANGED <<settings, server, caches, probe, bounds>>

StoreModels ==
    /\ discovery.at = "answered"
    /\ memory' = [memory EXCEPT !.models = Listed(discovery.digest, discovery.of)]
    /\ SaveState(memory')
    /\ discovery' = NoDiscovery
    /\ UNCHANGED <<settings, server, probe, bounds>>

\* The request fails: the list stays.
DiscoveryFails ==
    /\ discovery.at # "idle"
    /\ discovery' = NoDiscovery
    /\ UNCHANGED <<settings, server, caches, probe, bounds>>

\* The digest is the one of the list there is.
ProbeToolCall ==
    /\ probe.at = "idle"
    /\ probe' = [NoProbe EXCEPT !.at = "started", !.digest = memory.models.digest,
                                !.ownList = memory.models.of \in {Unset, Binding}]
    /\ UNCHANGED <<settings, server, caches, discovery, bounds>>

Complete ==
    /\ probe.at = "started"
    /\ probe' = [probe EXCEPT !.at = "answered", !.asked = Binding, !.answered = server[Binding]]
    /\ UNCHANGED <<settings, server, caches, discovery, bounds>>

\* A truncated answer is asked for once more.
Retry ==
    /\ probe.at = "answered"
    /\ ~probe.retried
    /\ probe' = [probe EXCEPT !.at = "started", !.retried = TRUE]
    /\ UNCHANGED <<settings, server, caches, discovery, bounds>>

RecordOf(d) ==
    [state |-> "tested", binding |-> Binding, digest |-> d, answered |-> probe.answered,
     asked |-> probe.asked, crossed |-> probe.crossed, ownList |-> probe.ownList]

\* Seeded fault: the list is looked up when the answer is there.
LateRecord == RecordOf(memory.models.digest)

\* The endpoint is the one when the answer is there.
Record == RecordOf(probe.digest)

\* A request that fails leaves a record as well.
StoreProbe ==
    /\ probe.at # "idle"
    /\ memory' = [memory EXCEPT !.probe = Record]
    /\ SaveState(memory')
    /\ probe' = NoProbe
    /\ UNCHANGED <<settings, server, discovery, bounds>>

\* The model is updated at an endpoint, to a version it never had.
Update(e) ==
    /\ server[e] < MaxDigest
    /\ server' = [server EXCEPT ![e] = @ + 1]
    /\ UNCHANGED <<settings, caches, discovery, probe, bounds>>

Next ==
    \/ \E url \in Urls : SetSessionConfiguration(url) \/ Restart(url)
    \/ DiscoverModels \/ RequestModels \/ StoreModels \/ DiscoveryFails
    \/ ProbeToolCall \/ Complete \/ Retry \/ StoreProbe
    \/ \E e \in Endpoints : Update(e)

Spec == Init /\ [][Next]_vars

-----------------------------------------------------------------------------
ModelLists == {Unlisted, EmptyList} \cup {Listed(d, e) : d \in Digests, e \in Endpoints}
Versions == Digests \cup {NoDigest}
Records ==
    [state : {"tested"}, binding : Endpoints, digest : Versions, answered : Versions,
     asked : Urls, crossed : BOOLEAN, ownList : BOOLEAN]
Caches == [models : ModelLists, probe : Records \cup {NoRecord}]
Places == {"idle", "started", "answered"}
Discoveries == [at : Places, digest : Versions, of : Urls]
Probes ==
    [at : Places, retried : BOOLEAN, digest : Versions, answered : Versions,
     asked : Urls, crossed : BOOLEAN, ownList : BOOLEAN]

\* The settings, both caches and the calls are well-formed, and a file with a
\* record has a list, if an empty one (_save_state).
TypeOK ==
    /\ session \in Urls
    /\ saved \in Urls
    /\ server \in [Endpoints -> Digests]
    /\ memory \in Caches
    /\ disk \in Caches
    /\ disk.probe # NoRecord => disk.models # Unlisted
    /\ discovery \in Discoveries
    /\ discovery.at = "answered" => discovery.digest \in Digests /\ discovery.of \in Endpoints
    /\ probe \in Probes
    /\ changes \in 0..MaxChanges
    /\ restarts \in 0..MaxRestarts
    /\ faults \in 0..MaxSaveFaults
    /\ unsaved \in BOOLEAN

\* A probe result that is shown was given by the endpoint it is shown for, over
\* every change of the base URL, restart and failed save, unless the endpoint
\* changed while the probe was under way (probe_tool_call, status).
ProbeOfEndpoint ==
    Valid /\ ~memory.probe.crossed => memory.probe.asked \in {Unset, Binding}

\* docs/V2_MODEL_PROVIDERS.md:44-45: results are bound to the endpoint, so changing
\* it invalidates the earlier result.
ResultIsOfEndpoint ==
    Valid => memory.probe.asked \in {Unset, Binding}

\* A probe result that is shown beside an up-to-date list was given by the very
\* version listed, so updating the model invalidates it, unless the endpoint
\* changed meanwhile or the probe started from the list of another endpoint, which
\* a restart or a late discovery leaves behind (probe_tool_call, _probe_for_model).
ResultIsOfVersion ==
    (/\ Valid
     /\ ~memory.probe.crossed
     /\ memory.probe.ownList
     /\ memory.probe.answered # NoDigest
     /\ memory.models = Listed(server[Binding], Binding))
        => memory.probe.answered = server[Binding]

\* What a restart would load is what the API knows, but for a save that failed:
\* nothing that was forgotten comes back and nothing that was learnt is lost.
DiskIsMemory ==
    ~unsaved => /\ disk.probe = memory.probe
                /\ \/ disk.models = memory.models
                   \/ memory.models = Unlisted /\ disk.models = EmptyList
=============================================================================
