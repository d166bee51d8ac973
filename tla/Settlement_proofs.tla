------------------------- MODULE Settlement_proofs -------------------------
(***************************************************************************)
(* Proofs about the settlement engine, for any scripts that have in common *)
(* what ScriptAssumption says, any revisions and any number of runs.       *)
(*                                                                         *)
(* Typed is the type invariant with the run's own record, Kept what any    *)
(* flow keeps of the tables, OutboxKept what the intents rest on and       *)
(* RepairKept what the verdict on a repair rests on; each is inductive     *)
(* with those before it.                                                   *)
(***************************************************************************)
EXTENDS Settlement, FiniteSetTheorems, SequenceTheorems, TLAPS

(***************************************************************************)
(* The invariant.                                                          *)
(***************************************************************************)
RunFields == {"script", "flow", "budget", "phase", "outcome", "next", "pending",
              "cutEvent", "accepted", "queue", "tries", "start", "transient",
              "s2cut", "s5cut"}

Queues == Seq([event : DOMAIN journal, seq : 0..Len(journal), kind : EffectKinds])

Count == Len(run.script.commands)

(* A run under way: each command it is past has a row of the journal, and if *)
(* none may be refused the event it returned is such a row.                  *)
Live ==
    /\ run.script \in AllScripts
    /\ run.flow \in ran
    /\ run.next \in 1..(Count + 1)
    /\ IF run.phase \in {"accept", "register"} THEN run.next # Count + 1
                                               ELSE run.next = Count + 1
    /\ \A i \in 1..(run.next - 1) : Rows(run.script.commands[i].pair) # {}
    /\ run.phase = "register" => run.pending \in Rows(command.pair)
    /\ run.phase \in {"accept", "register"} /\ run.cutEvent # 0
          => run.cutEvent \in Rows(command.pair)
    /\ ~run.script.tolerant =>
          /\ Len(run.accepted) = run.next - 1
          /\ \A i \in 1..(run.next - 1) :
                run.accepted[i] \in Rows(run.script.commands[i].pair)

Typed ==
    /\ TypeOK
    /\ DOMAIN run = RunFields
    /\ run.flow \in Flows
    /\ run.start \in Nat
    /\ run.queue \in Queues
    /\ run.phase # "idle" => Live

(* A flow that looks before it appends gives an occurrence one row.          *)
OneRowEach ==
    "default" \notin ran =>
        \A i, j \in DOMAIN journal :
            journal[i].pair = journal[j].pair /\ journal[i].pair # IncidentPair => i = j

RegisteredRows == \A r \in registered : r.event \in Rows(r.pair)

CompletedHaveEffect == \A n \in intents : n.state = "completed" => HasEffect(n.event, n.kind)

(* A notification comes after the settlement of the same event.              *)
SettledFirst == \A i \in DOMAIN effects : HasEffect(effects[i].event, "settlement")

NotifiesLast ==
    \A i \in 1..Len(run.queue) : run.queue[i].kind = "notify" =>
        \/ HasEffect(run.queue[i].event, "settlement")
        \/ \E j \in 1..(i - 1) : /\ run.queue[j].event = run.queue[i].event
                                 /\ run.queue[j].kind = "settlement"

(* The events whose settlement a run has promised to deliver.                *)
Owed ==
    CASE run.script.deliver = "rows"     -> RowsOf(run.script)
      [] run.script.deliver = "accepted" -> {run.accepted[i] : i \in 1..Len(run.accepted)}
      [] run.script.deliver = "twice"    -> {run.accepted[1]}
      [] OTHER -> {}

Delivering ==
    run.phase = "deliver" =>
        /\ NotifiesLast
        /\ \A e \in Owed :
              \/ HasEffect(e, "settlement")
              \/ \E i \in 1..Len(run.queue) : /\ run.queue[i].event = e
                                              /\ run.queue[i].kind = "settlement"

Undecided == run.phase # "idle" => run.outcome = "none"

Kept ==
    /\ OneRowEach
    /\ RegisteredRows
    /\ CompletedHaveEffect
    /\ SettledFirst
    /\ Delivering
    /\ Undecided

(***************************************************************************)
(* Sets of events in the order of the journal.                             *)
(***************************************************************************)
Before(S, e) == {j \in S : j < e}
Rank(S, e) == Cardinality(Before(S, e)) + 1

LEMMA BeforeIsFinite ==
    ASSUME NEW S \in SUBSET Nat, IsFiniteSet(S), NEW e \in S
    PROVE  /\ Before(S, e) \in SUBSET S /\ IsFiniteSet(Before(S, e))
           /\ Cardinality(Before(S, e)) \in Nat
           /\ Rank(S, e) \in 1..Cardinality(S)
<1>1. Before(S, e) \in SUBSET S /\ e \notin Before(S, e)
  BY DEF Before
<1>2. /\ IsFiniteSet(Before(S, e))
      /\ Cardinality(Before(S, e)) <= Cardinality(S)
      /\ Cardinality(Before(S, e)) # Cardinality(S)
  BY <1>1, FS_Subset
<1>3. Cardinality(S) \in Nat /\ Cardinality(Before(S, e)) \in Nat
  BY <1>2, FS_CardinalityType
<1> QED
  BY <1>1, <1>2, <1>3 DEF Rank

LEMMA RankGrows ==
    ASSUME NEW S \in SUBSET Nat, IsFiniteSet(S), NEW e \in S, NEW f \in S, e < f
    PROVE  Rank(S, e) < Rank(S, f)
<1>1. Before(S, e) \in SUBSET Before(S, f) /\ e \in Before(S, f) /\ e \notin Before(S, e)
  <2>1. \A g \in S : g < e => g < f
    OBVIOUS
  <2>2. Before(S, e) \subseteq Before(S, f)
    BY <2>1 DEF Before
  <2>3. e \in Before(S, f) /\ e \notin Before(S, e)
    BY DEF Before
  <2> QED
    BY <2>2, <2>3
<1>2. /\ Cardinality(Before(S, e)) <= Cardinality(Before(S, f))
      /\ Cardinality(Before(S, e)) # Cardinality(Before(S, f))
  BY <1>1, BeforeIsFinite, FS_Subset
<1> QED
  BY <1>2, BeforeIsFinite DEF Rank

LEMMA RankOnto ==
    ASSUME NEW S \in SUBSET Nat, IsFiniteSet(S), NEW n \in 1..Cardinality(S)
    PROVE  \E e \in S : Rank(S, e) = n
<1> DEFINE rank == [e \in S |-> Rank(S, e)]
           T == 1..Cardinality(S)
<1>1. rank \in Injection(S, T)
  <2>1. \A e \in S : Rank(S, e) \in T
    BY BeforeIsFinite
  <2>2. \A e, f \in S : Rank(S, e) = Rank(S, f) => e = f
    <3> SUFFICES ASSUME NEW e \in S, NEW f \in S, e # f
                 PROVE  Rank(S, e) # Rank(S, f)
      OBVIOUS
    <3>1. e < f \/ f < e
      OBVIOUS
    <3>2. Rank(S, e) \in Nat /\ Rank(S, f) \in Nat
      BY <2>1
    <3>3. Rank(S, e) < Rank(S, f) \/ Rank(S, f) < Rank(S, e)
      BY <3>1, RankGrows
    <3> QED
      BY <3>2, <3>3
  <2> QED
    BY <2>1, <2>2 DEF Injection, IsInjective
<1>2. Cardinality(S) \in Nat
  BY FS_CardinalityType
<1>3. IsFiniteSet(T) /\ Cardinality(T) = Cardinality(S)
  BY <1>2, FS_Interval
<1>4. rank \in Surjection(S, T)
  BY <1>1, <1>3, FS_Injection
<1> QED
  BY <1>4 DEF Surjection

LEMMA LeastEvent ==
    ASSUME NEW S \in SUBSET Nat, IsFiniteSet(S), S # {}
    PROVE  \E e \in S : \A f \in S : e <= f
<1>1. Cardinality(S) \in Nat /\ Cardinality(S) # 0
  BY FS_CardinalityType, FS_EmptySet
<1>2. 1 \in 1..Cardinality(S)
  BY <1>1
<1>3. PICK e \in S : Rank(S, e) = 1
  BY <1>2, RankOnto
<1>4. Cardinality(Before(S, e)) = 0
  BY <1>3, BeforeIsFinite DEF Rank
<1>5. Before(S, e) = {}
  BY <1>4, BeforeIsFinite, FS_EmptySet
<1>6. \A f \in S : ~(f < e)
  BY <1>5 DEF Before
<1>7. \A f \in S : e <= f
  BY <1>6
<1> QED
  BY <1>7

(* The deliveries of a set of events: each of them once, oldest first.       *)
LEMMA AscendingIs ==
    ASSUME NEW S \in SUBSET Nat, IsFiniteSet(S)
    PROVE  /\ Cardinality(S) \in Nat /\ Len(Ascending(S)) = Cardinality(S)
           /\ \A n \in 1..Cardinality(S) : \E e \in S :
                 Ascending(S)[n] = Delivery(e, e, "settlement") /\ Rank(S, e) = n
           /\ \A e \in S : \E n \in 1..Cardinality(S) :
                 Ascending(S)[n] = Delivery(e, e, "settlement")
           /\ Ascending(S) \in Seq([event : S, seq : S, kind : {"settlement"}])
<1>1. Cardinality(S) \in Nat
  BY FS_CardinalityType
<1> DEFINE at(n) == CHOOSE i \in S : Cardinality({j \in S : j < i}) = n - 1
           D == [event : S, seq : S, kind : {"settlement"}]
<1>2. ASSUME NEW n \in 1..Cardinality(S)
      PROVE  at(n) \in S /\ Rank(S, at(n)) = n
  <2>1. PICK e \in S : Rank(S, e) = n
    BY <1>2, RankOnto
  <2>2. Cardinality({j \in S : j < e}) = n - 1
    BY <2>1, BeforeIsFinite DEF Rank, Before
  <2>3. at(n) \in S /\ Cardinality({j \in S : j < at(n)}) = n - 1
    BY <2>2, Zenon
  <2> HIDE DEF at
  <2> QED
    BY <2>3 DEF Rank, Before
<1> HIDE DEF at
<1>3. Ascending(S) = [n \in 1..Cardinality(S) |-> Delivery(at(n), at(n), "settlement")]
  BY DEF Ascending, at
<1>4. \A n \in 1..Cardinality(S) : Ascending(S)[n] \in D
  BY <1>2, <1>3 DEF Delivery
<1>5. Ascending(S) \in Seq(D) /\ Len(Ascending(S)) = Cardinality(S)
  <2>1. Ascending(S) \in [1..Cardinality(S) -> D]
    BY <1>3, <1>4
  <2> HIDE DEF D
  <2> QED
    BY <1>1, <2>1
<1>6. \A n \in 1..Cardinality(S) : \E e \in S :
         Ascending(S)[n] = Delivery(e, e, "settlement") /\ Rank(S, e) = n
  BY <1>2, <1>3
<1>7. ASSUME NEW e \in S
      PROVE  \E n \in 1..Cardinality(S) : Ascending(S)[n] = Delivery(e, e, "settlement")
  <2>1. Rank(S, e) \in 1..Cardinality(S)
    BY BeforeIsFinite
  <2>2. PICK f \in S : /\ Ascending(S)[Rank(S, e)] = Delivery(f, f, "settlement")
                       /\ Rank(S, f) = Rank(S, e)
    BY <1>6, <2>1
  <2>3. e = f
    <3>1. e < f \/ f < e \/ e = f
      OBVIOUS
    <3>2. Rank(S, f) \in Nat
      BY <2>1, <2>2
    <3> QED
      BY <2>2, <3>1, <3>2, RankGrows
  <2> QED
    BY <2>1, <2>2, <2>3
<1> QED
  BY <1>1, <1>5, <1>6, <1>7

(***************************************************************************)
(* The journal and the commands of a script.                               *)
(***************************************************************************)
Entries == Commands \cup {IncidentRow}

LEMMA ProfileScripts == \A p \in Profiles : Scripts[p] \subseteq AllScripts
BY DEF Profiles, AllScripts

LEMMA CommandsOf ==
    ASSUME NEW s \in AllScripts
    PROVE  /\ ScriptShape(s) /\ s.commands \in Seq(Commands) /\ Len(s.commands) \in Nat \ {0}
           /\ DOMAIN s.commands = 1..Len(s.commands)
           /\ \A i \in 1..Len(s.commands) :
                 /\ s.commands[i] \in Commands /\ s.commands[i].pair \in Pairs(s)
                 /\ s.commands[i].pair \in Occurrences
                 /\ s.commands[i].pair # IncidentPair
           /\ \A p \in Pairs(s) : \E i \in 1..Len(s.commands) : s.commands[i].pair = p
           /\ Pairs(s) \subseteq Occurrences
<1>1. ScriptShape(s) /\ s.commands \in Seq(Commands) /\ s.commands # <<>>
      /\ IncidentPair \notin Pairs(s)
  BY ScriptAssumption DEF ScriptShape
<1>2. PICK t \in Seq(Commands) : t = s.commands /\ t # <<>>
  BY <1>1
<1>3. Len(t) \in Nat \ {0} /\ DOMAIN t = 1..Len(t) /\ \A i \in 1..Len(t) : t[i] \in Commands
  <2>1. Len(t) # 0
    BY <1>2, EmptySeq
  <2> QED
    BY <2>1, ElementOfSeq
<1>4. Pairs(s) \subseteq Occurrences
  BY DEF Occurrences
<1>5. \A i \in 1..Len(t) : t[i].pair \in Pairs(s)
  BY <1>2, <1>3 DEF Pairs
<1>6. \A p \in Pairs(s) : \E i \in 1..Len(t) : t[i].pair = p
  BY <1>2, <1>3 DEF Pairs
<1> QED
  BY <1>1, <1>2, <1>3, <1>4, <1>5, <1>6

LEMMA JournalIs ==
    ASSUME TypeOK
    PROVE  /\ journal \in Seq(Entries) /\ Len(journal) \in Nat
           /\ DOMAIN journal = 1..Len(journal)
           /\ \A i \in DOMAIN journal : journal[i] \in Entries
BY ElementOfSeq DEF TypeOK, Entries

LEMMA RowsAre ==
    ASSUME TypeOK, NEW p
    PROVE  /\ Rows(p) \in SUBSET (DOMAIN journal) /\ Rows(p) \in SUBSET Nat
           /\ IsFiniteSet(Rows(p))
           /\ Rows(p) # {} => EventOf(p) \in Rows(p) /\ \A j \in Rows(p) : EventOf(p) <= j
<1>1. Rows(p) \in SUBSET (DOMAIN journal) /\ Rows(p) \in SUBSET Nat
  BY JournalIs DEF Rows
<1>2. IsFiniteSet(Rows(p))
  <2>1. IsFiniteSet(1..Len(journal))
    BY JournalIs, FS_Interval
  <2> QED
    BY <1>1, <2>1, JournalIs, FS_Subset
<1>3. ASSUME Rows(p) # {}
      PROVE  EventOf(p) \in Rows(p) /\ \A j \in Rows(p) : EventOf(p) <= j
  <2>1. \E i \in Rows(p) : \A j \in Rows(p) : i <= j
    BY <1>1, <1>2, <1>3, LeastEvent
  <2> QED
    BY <2>1 DEF EventOf
<1> QED
  BY <1>1, <1>2, <1>3

LEMMA RowsOfAre ==
    ASSUME TypeOK, NEW s
    PROVE  /\ RowsOf(s) \in SUBSET (DOMAIN journal) /\ RowsOf(s) \in SUBSET Nat
           /\ IsFiniteSet(RowsOf(s))
<1>1. RowsOf(s) \in SUBSET (DOMAIN journal)
  BY RowsAre DEF RowsOf
<1>2. IsFiniteSet(DOMAIN journal) /\ DOMAIN journal \in SUBSET Nat
  BY JournalIs, FS_Interval
<1> QED
  BY <1>1, <1>2, FS_Subset

LEMMA JournalGrows ==
    ASSUME TypeOK, NEW c, journal' = Append(journal, c)
    PROVE  /\ DOMAIN journal' = 1..(Len(journal) + 1) /\ Len(journal') = Len(journal) + 1
           /\ \A i \in DOMAIN journal : i \in DOMAIN journal' /\ journal'[i] = journal[i]
           /\ Len(journal) + 1 \in DOMAIN journal' /\ journal'[Len(journal) + 1] = c
           /\ Len(journal) + 1 \notin DOMAIN journal
           /\ \A i \in DOMAIN journal' : i \in DOMAIN journal \/ i = Len(journal) + 1
<1>1. /\ Len(journal') = Len(journal) + 1 /\ DOMAIN journal' = 1..(Len(journal) + 1)
      /\ journal'[Len(journal) + 1] = c
      /\ \A i \in 1..Len(journal) : journal'[i] = journal[i]
  BY JournalIs, AppendProperties
<1> QED
  BY <1>1, JournalIs

LEMMA RowsGrow ==
    ASSUME TypeOK, NEW c, journal' = Append(journal, c)
    PROVE  /\ \A p : Rows(p) \subseteq Rows(p)'
           /\ \A p : \A i \in Rows(p)' : i \in Rows(p) \/ (i = Len(journal) + 1 /\ p = c.pair)
           /\ \A p : p = c.pair => Len(journal) + 1 \in Rows(p)'
BY JournalGrows DEF Rows

LEMMA RowsSame == UNCHANGED journal => \A p : Rows(p)' = Rows(p) /\ EventOf(p)' = EventOf(p)
BY DEF Rows, EventOf

(* Sequences of events and of deliveries stay what they are as the journal   *)
(* grows.                                                                    *)
LEMMA SeqsGrow ==
    ASSUME NEW S, NEW T, S \subseteq T
    PROVE  Seq(S) \subseteq Seq(T)
<1> SUFFICES ASSUME NEW s \in Seq(S)
             PROVE  s \in Seq(T)
  OBVIOUS
<1>1. Len(s) \in Nat /\ s \in [1..Len(s) -> T]
  BY ElementOfSeq
<1> QED
  BY <1>1

(***************************************************************************)
(* Types.                                                                  *)
(***************************************************************************)
Phases == {"idle", "accept", "register", "plan", "deliver"}

TablesOK ==
    /\ profile \in Profiles
    /\ journal \in Seq(Entries)
    /\ registered \subseteq [pair : Occurrences \cup {IncidentPair}, event : Nat]
    /\ effects \in Seq([event : DOMAIN journal, kind : EffectKinds])
    /\ intents \subseteq [event : DOMAIN journal, kind : EffectKinds,
                          state : {"created", "completed"}]
    /\ cursor \in 0..Len(journal)
    /\ runs \in 0..MaxRuns
    /\ ran \subseteq Flows

RunOK ==
    /\ DOMAIN run = RunFields
    /\ run.phase \in Phases
    /\ run.accepted \in Seq(DOMAIN journal)
    /\ run.queue \in Queues
    /\ run.flow \in Flows
    /\ run.start \in Nat
    /\ run.phase # "idle" => Live

LEMMA QueuesAre ==
    ASSUME NEW q, NEW S, NEW T, q \in Seq([event : S, seq : T, kind : EffectKinds])
    PROVE  /\ Len(q) \in Nat /\ DOMAIN q = 1..Len(q)
           /\ \A i \in 1..Len(q) : /\ q[i].event \in S /\ q[i].seq \in T
                                   /\ q[i].kind \in EffectKinds
<1> DEFINE D == [event : S, seq : T, kind : EffectKinds]
<1>1. Len(q) \in Nat /\ DOMAIN q = 1..Len(q) /\ \A i \in 1..Len(q) : q[i] \in D
  <2> HIDE DEF D
  <2>1. q \in Seq(D)
    BY DEF D
  <2> QED
    BY <2>1, ElementOfSeq
<1>2. \A d \in D : d.event \in S /\ d.seq \in T /\ d.kind \in EffectKinds
  OBVIOUS
<1> QED
  BY <1>1, <1>2

LEMMA TypedIs == Typed <=> TablesOK /\ RunOK
<1>1. run.queue \in Queues => \A i \in DOMAIN run.queue : run.queue[i].event \in DOMAIN journal
  BY QueuesAre DEF Queues
<1> QED
  BY <1>1 DEF Typed, TypeOK, TablesOK, RunOK, Phases, Entries

LEMMA TypedNext == TablesOK' /\ RunOK' => Typed'
<1>1. run'.queue \in Queues' => \A i \in DOMAIN run'.queue :
                                   run'.queue[i].event \in DOMAIN journal'
  BY QueuesAre DEF Queues
<1> QED
  BY <1>1 DEF Typed, TypeOK, TablesOK, RunOK, Phases, Entries

LEMMA RunOKNext ==
    ASSUME DOMAIN run' = RunFields, run'.phase \in Phases,
           run'.accepted \in Seq(DOMAIN journal'),
           run'.queue \in Seq([event : DOMAIN journal', seq : 0..Len(journal'),
                               kind : EffectKinds]),
           run'.flow \in Flows, run'.start \in Nat, run'.phase # "idle" => Live'
    PROVE  RunOK'
BY DEF RunOK, Queues

LEMMA Endings ==
    ASSUME NEW o, Ends(o)
    PROVE  /\ DOMAIN run' = RunFields /\ run'.phase = "idle" /\ run'.outcome = o
           /\ run'.accepted = <<>> /\ run'.queue = <<>> /\ run'.start = 0
           /\ run'.flow = run.flow /\ run'.script = run.script
           /\ run'.budget = run.budget
BY DEF Ends, NoRun, RunFields

LEMMA EndsRunOK ==
    ASSUME Typed, NEW o, Ends(o)
    PROVE  RunOK'
<1>1. run.flow \in Flows
  BY DEF Typed
<1>2. /\ DOMAIN run' = RunFields /\ run'.phase = "idle" /\ run'.flow \in Flows
      /\ run'.accepted = <<>> /\ run'.queue = <<>> /\ run'.start = 0
  BY <1>1, Endings
<1> QED
  BY <1>2, RunOKNext DEF Phases

LEMMA NoRunIs ==
    /\ DOMAIN NoRun = RunFields /\ NoRun.phase = "idle" /\ NoRun.outcome = "none"
    /\ NoRun.accepted = <<>> /\ NoRun.queue = <<>> /\ NoRun.start = 0
    /\ NoRun.flow = "default" /\ NoRun.next = 1 /\ NoRun.cutEvent = 0
BY DEF NoRun, RunFields

LEMMA IdleRunOK ==
    ASSUME run' = NoRun
    PROVE  RunOK'
BY NoRunIs, RunOKNext DEF Phases, Flows

LEMMA TablesSame ==
    ASSUME TablesOK, UNCHANGED <<profile, tables>>, runs' \in 0..MaxRuns, ran' \subseteq Flows
    PROVE  TablesOK'
BY DEF TablesOK, tables

LEMMA InitTyped == Init => Typed
<1> SUFFICES ASSUME Init
             PROVE  TablesOK /\ RunOK
  BY TypedIs
<1>1. IncidentRow \in Entries
  BY DEF Entries
<1>2. journal \in Seq(Entries) /\ Len(journal) \in {1, 2} /\ DOMAIN journal = 1..Len(journal)
  <2>1. PICK e \in Entries : e = IncidentRow
    BY <1>1
  <2>2. journal = <<e>> \/ journal = <<e, e>>
    BY <2>1 DEF Init
  <2> HIDE DEF Entries
  <2>3. CASE journal = <<e>>
    BY <2>3
  <2>4. CASE journal = <<e, e>>
    BY <2>4
  <2> QED
    BY <2>2, <2>3, <2>4
<1>3. profile \in Profiles /\ runs \in 0..MaxRuns /\ ran \subseteq Flows /\ intents = {}
      /\ cursor \in 0..Len(journal)
  BY <1>2, BoundAssumption DEF Init
<1>4. registered \subseteq [pair : Occurrences \cup {IncidentPair}, event : Nat]
  BY <1>2 DEF Init
<1>5. effects \in Seq([event : DOMAIN journal, kind : EffectKinds])
  <2>1. \A e \in {1, Len(journal)} :
           [event |-> e, kind |-> "settlement"] \in [event : DOMAIN journal, kind : EffectKinds]
    <3>1. 1 \in DOMAIN journal /\ Len(journal) \in DOMAIN journal
      BY <1>2
    <3> QED
      BY <3>1 DEF EffectKinds
  <2>2. PICK a, b \in [event : DOMAIN journal, kind : EffectKinds] : effects = <<a, b>>
    BY <2>1 DEF Init
  <2> QED
    BY <2>2
<1>6. TablesOK
  BY <1>2, <1>3, <1>4, <1>5 DEF TablesOK
<1>7. RunOK
  BY NoRunIs DEF Init, RunOK, Phases, Queues, Flows
<1> QED
  BY <1>6, <1>7

LEMMA TypedAfterStart ==
    ASSUME Typed, NEW script \in Scripts[profile], NEW revision \in Revisions,
           StartRun(script, revision)
    PROVE  Typed'
<1>1. TablesOK
  BY TypedIs
<1>2. script \in AllScripts
  BY <1>1, ProfileScripts DEF TablesOK
<1>3. revision.flow \in Flows
  BY RevisionAssumption
<1>4. runs' \in 0..MaxRuns /\ ran' = ran \cup {revision.flow} /\ ran' \subseteq Flows
  BY <1>1, <1>3, BoundAssumption DEF StartRun, TablesOK
<1>5. TablesOK'
  BY <1>1, <1>4, TablesSame DEF StartRun
<1>6. /\ DOMAIN run' = RunFields /\ run'.phase = "accept" /\ run'.flow = revision.flow
      /\ run'.script = script /\ run'.next = 1 /\ run'.cutEvent = 0
      /\ run'.accepted = <<>> /\ run'.queue = <<>> /\ run'.start = Len(journal)
  BY DEF StartRun, NoRun, RunFields
<1>7. Live'
  <2>1. Len(script.commands) \in Nat \ {0}
    BY <1>2, CommandsOf
  <2> QED
    BY <1>2, <1>4, <1>6, <2>1 DEF Live, Count
<1>8. Len(journal) \in Nat
  BY <1>1 DEF TablesOK
<1>9. RunOK'
  BY <1>3, <1>6, <1>7, <1>8, RunOKNext DEF Phases
<1> QED
  BY <1>5, <1>9, TypedNext

LEMMA TypedAfterRestore ==
    ASSUME Typed, Restore
    PROVE  Typed'
<1>1. RunOK'
  BY IdleRunOK DEF Restore
<1>2. TablesOK'
  BY TypedIs DEF Restore, TablesOK
<1> QED
  BY <1>1, <1>2, TypedNext

(* The command that a run is at.                                             *)
LEMMA CommandAt ==
    ASSUME Typed, run.phase \in {"accept", "register"}
    PROVE  /\ Live /\ run.next \in 1..Count /\ Count \in Nat \ {0}
           /\ Count = Len(run.script.commands)
           /\ command = run.script.commands[run.next]
           /\ command \in Commands /\ command.pair \in Pairs(run.script)
           /\ command.pair \in Occurrences /\ command.pair # IncidentPair
<1>1. Live
  BY DEF Typed
<1>2. run.script \in AllScripts /\ run.next \in 1..(Count + 1) /\ run.next # Count + 1
  BY <1>1 DEF Live
<1>3. Count \in Nat \ {0} /\ Count = Len(run.script.commands)
  BY <1>2, CommandsOf DEF Count
<1>4. run.next \in 1..Count
  BY <1>2, <1>3
<1> QED
  BY <1>1, <1>2, <1>3, <1>4, CommandsOf DEF command

(* The run stays at its command.                                             *)
LEMMA LiveAtCommand ==
    ASSUME Typed, run.phase \in {"accept", "register"}, run'.phase \in {"accept", "register"},
           run'.script = run.script, run'.flow = run.flow, run'.next = run.next,
           run'.accepted = run.accepted, ran' = ran,
           \A p : Rows(p) \subseteq Rows(p)',
           run'.phase = "register" => \A p : p = command.pair => run'.pending \in Rows(p)',
           run'.cutEvent # run.cutEvent =>
               \A p : p = command.pair => run'.cutEvent \in Rows(p)'
    PROVE  Live'
<1>1. Live /\ run.next \in 1..Count
  BY CommandAt
<1>2. PICK s \in AllScripts : s = run.script /\ s = run'.script
  BY <1>1 DEF Live
<1>3. PICK n \in 1..Len(s.commands) : n = run.next /\ n = run'.next
  BY <1>1, <1>2 DEF Count
<1>4. PICK p : p = s.commands[n].pair
  OBVIOUS
<1>5. command.pair = p
  BY <1>2, <1>3, <1>4 DEF command
<1>6. Len(s.commands) \in Nat \ {0}
  BY <1>2, CommandsOf
<1>7. n # Len(s.commands) + 1
  BY <1>3, <1>6
<1>8. \A i \in 1..(n - 1) : Rows(s.commands[i].pair)' # {}
  <2> TAKE i \in 1..(n - 1)
  <2>1. PICK q : q = s.commands[i].pair
    OBVIOUS
  <2>2. Rows(q) # {} /\ Rows(q) \subseteq Rows(q)'
    BY <1>1, <1>2, <1>3, <2>1 DEF Live
  <2> QED
    BY <2>1, <2>2
<1>9. run'.phase = "register" => run'.pending \in Rows(p)'
  BY <1>5
<1>10. run'.cutEvent # 0 => run'.cutEvent \in Rows(p)'
  BY <1>1, <1>5 DEF Live
<1>11. ~s.tolerant => /\ Len(run'.accepted) = n - 1
                      /\ \A i \in 1..(n - 1) : run'.accepted[i] \in Rows(s.commands[i].pair)'
  <2> SUFFICES ASSUME ~s.tolerant
               PROVE  /\ Len(run.accepted) = n - 1
                      /\ \A i \in 1..(n - 1) : run.accepted[i] \in Rows(s.commands[i].pair)'
    OBVIOUS
  <2>1. Len(run.accepted) = n - 1
    BY <1>1, <1>2, <1>3 DEF Live
  <2>2. ASSUME NEW i \in 1..(n - 1)
        PROVE  run.accepted[i] \in Rows(s.commands[i].pair)'
    <3>1. PICK q : q = s.commands[i].pair
      OBVIOUS
    <3>2. run.accepted[i] \in Rows(q) /\ Rows(q) \subseteq Rows(q)'
      BY <1>1, <1>2, <1>3, <3>1 DEF Live
    <3> QED
      BY <3>1, <3>2
  <2> QED
    BY <2>1, <2>2
<1>12. run'.flow \in ran'
  BY <1>1 DEF Live
<1> QED
  BY <1>2, <1>3, <1>4, <1>6, <1>7, <1>8, <1>9, <1>10, <1>11, <1>12 DEF Live, Count, command

(* The run goes past its command.                                            *)
LEMMA LivePastCommand ==
    ASSUME Typed, run.phase \in {"accept", "register"}, Rows(command.pair) # {},
           UNCHANGED journal, ran' = ran,
           run'.phase = IF run.next = Count THEN "plan" ELSE "accept",
           run'.script = run.script, run'.flow = run.flow, run'.next = run.next + 1,
           run'.cutEvent = 0,
           ~run.script.tolerant =>
               \E e \in Rows(command.pair) : run'.accepted = Append(run.accepted, e)
    PROVE  Live'
<1>1. Live /\ run.next \in 1..Count /\ Count \in Nat \ {0}
      /\ Count = Len(run.script.commands) /\ command = run.script.commands[run.next]
  BY CommandAt
<1>2. PICK s \in AllScripts : s = run.script /\ s = run'.script
  BY <1>1 DEF Live
<1>3. PICK n \in 1..Len(s.commands) : n = run.next
  BY <1>1, <1>2
<1>4. \A p : Rows(p)' = Rows(p)
  BY RowsSame
<1>5. ASSUME NEW i \in 1..n
      PROVE  Rows(s.commands[i].pair)' # {}
  <2>1. PICK q : q = s.commands[i].pair
    OBVIOUS
  <2>2. CASE i = n
    BY <1>1, <1>2, <1>3, <1>4, <2>1, <2>2
  <2>3. CASE i # n
    <3>1. i \in 1..(n - 1)
      BY <2>3
    <3>2. Rows(q) # {}
      BY <1>1, <1>2, <1>3, <2>1, <3>1 DEF Live
    <3> QED
      BY <1>4, <2>1, <3>2
  <2> QED
    BY <2>2, <2>3
<1>6. ~s.tolerant => /\ Len(run'.accepted) = n
                     /\ \A i \in 1..n : run'.accepted[i] \in Rows(s.commands[i].pair)
  <2> SUFFICES ASSUME ~s.tolerant
               PROVE  /\ Len(run'.accepted) = n
                      /\ \A i \in 1..n : run'.accepted[i] \in Rows(s.commands[i].pair)
    OBVIOUS
  <2>1. PICK e \in Rows(command.pair) : run'.accepted = Append(run.accepted, e)
    BY <1>2
  <2>2. PICK t \in Seq(DOMAIN journal) : t = run.accepted
    BY DEF Typed, TypeOK
  <2>3. /\ Len(t) = n - 1
        /\ \A i \in 1..(n - 1) : t[i] \in Rows(s.commands[i].pair)
    BY <1>1, <1>2, <1>3, <2>2 DEF Live
  <2>4. /\ Len(Append(t, e)) = n /\ Append(t, e)[n] = e
        /\ \A i \in 1..(n - 1) : Append(t, e)[i] = t[i]
    BY <2>2, <2>3, AppendProperties
  <2>5. e \in Rows(s.commands[n].pair)
    BY <1>1, <1>2, <1>3
  <2>6. \A i \in 1..n : i = n \/ i \in 1..(n - 1)
    OBVIOUS
  <2> QED
    BY <2>1, <2>2, <2>3, <2>4, <2>5, <2>6
<1>7. run'.next \in 1..(Len(s.commands) + 1) /\ run'.next - 1 = n
      /\ run'.phase \in {"plan", "accept"}
      /\ (run'.phase = "accept" <=> run'.next # Len(s.commands) + 1)
  <2>1. n \in Nat /\ Len(s.commands) \in Nat /\ 1 <= n /\ n <= Len(s.commands)
    BY <1>1, <1>2, <1>3
  <2>2. run'.next = n + 1 /\ run'.phase = IF n = Len(s.commands) THEN "plan" ELSE "accept"
    BY <1>1, <1>2, <1>3
  <2>3. run'.next \in 1..(Len(s.commands) + 1) /\ run'.next - 1 = n
    BY <2>1, <2>2
  <2>4. n + 1 # Len(s.commands) + 1 <=> n # Len(s.commands)
    BY <2>1
  <2> QED
    BY <2>2, <2>3, <2>4
<1>8. run'.flow \in ran'
  BY <1>1 DEF Live
<1>9. run'.script = s /\ run'.cutEvent = 0
  BY <1>2
<1>10. ~s.tolerant =>
          \A i \in 1..n : run'.accepted[i] \in Rows(s.commands[i].pair)'
  BY <1>4, <1>6
<1>11. run'.phase \notin {"register"} /\ Len(s.commands) \in Nat \ {0}
  BY <1>1, <1>2, <1>7
<1>12. PICK m : m = run'.next
  OBVIOUS
<1>13. m \in 1..(Len(s.commands) + 1) /\ m - 1 = n
       /\ run'.phase \in {"plan", "accept"}
       /\ (run'.phase = "accept" <=> m # Len(s.commands) + 1)
  BY <1>7, <1>12
<1>14. IF run'.phase \in {"accept", "register"} THEN m # Len(s.commands) + 1
                                                ELSE m = Len(s.commands) + 1
  BY <1>13
<1>15. /\ \A i \in 1..(m - 1) : Rows(s.commands[i].pair)' # {}
       /\ ~s.tolerant => /\ Len(run'.accepted) = m - 1
                         /\ \A i \in 1..(m - 1) :
                               run'.accepted[i] \in Rows(s.commands[i].pair)'
  BY <1>5, <1>6, <1>10, <1>13
<1> QED
  BY <1>8, <1>9, <1>11, <1>12, <1>13, <1>14, <1>15 DEF Live, Count

(* The run delivers.                                                         *)
LEMMA LiveDelivering ==
    ASSUME Typed, run.phase \in {"plan", "deliver"}, run'.phase \in {"plan", "deliver"},
           UNCHANGED journal, ran' = ran,
           run'.script = run.script, run'.flow = run.flow, run'.next = run.next,
           run'.accepted = run.accepted
    PROVE  Live'
<1>1. Live
  BY DEF Typed
<1>2. \A p : Rows(p)' = Rows(p)
  BY RowsSame
<1> QED
  BY <1>1, <1>2 DEF Live, Count

(***************************************************************************)
(* Intake keeps the types.                                                 *)
(***************************************************************************)
LEMMA TypedAfterReuse ==
    ASSUME Typed, AcceptReuses
    PROVE  Typed'
<1>1. /\ run.phase = "accept" /\ Rows(command.pair) # {}
      /\ run' = [run EXCEPT !.phase = "register", !.pending = EventOf(command.pair)]
      /\ UNCHANGED <<profile, tables, history>>
  BY DEF AcceptReuses, Running, Reuses
<1>2. TablesOK /\ RunOK
  BY TypedIs
<1>3. UNCHANGED journal /\ ran' = ran /\ runs' = runs
  BY <1>1 DEF tables, history
<1>4. TablesOK'
  BY <1>1, <1>2, <1>3, TablesSame DEF TablesOK
<1>5. /\ DOMAIN run' = RunFields /\ run'.phase = "register"
      /\ run'.pending = EventOf(command.pair) /\ run'.accepted = run.accepted
      /\ run'.queue = run.queue /\ run'.flow = run.flow /\ run'.start = run.start
      /\ run'.script = run.script /\ run'.next = run.next /\ run'.cutEvent = run.cutEvent
  BY <1>1, <1>2 DEF RunOK, RunFields
<1>6. \A p : Rows(p)' = Rows(p)
  BY <1>3, RowsSame
<1>7. \A p : p = command.pair => run'.pending \in Rows(p)'
  BY <1>1, <1>5, <1>6, RowsAre DEF Typed
<1>8. Live'
  BY <1>1, <1>3, <1>5, <1>6, <1>7, LiveAtCommand
<1>9. RunOK'
  BY <1>2, <1>3, <1>5, <1>8, RunOKNext DEF RunOK, Queues, Phases
<1> QED
  BY <1>4, <1>9, TypedNext

(* What the tables and the run name stays there as the journal grows.        *)
LEMMA TypesGrow ==
    ASSUME Typed, NEW c \in Commands, journal' = Append(journal, c)
    PROVE  /\ journal' \in Seq(Entries)
           /\ effects \in Seq([event : DOMAIN journal', kind : EffectKinds])
           /\ intents \subseteq [event : DOMAIN journal', kind : EffectKinds,
                                 state : {"created", "completed"}]
           /\ cursor \in 0..Len(journal')
           /\ run.accepted \in Seq(DOMAIN journal')
           /\ run.queue \in Seq([event : DOMAIN journal', seq : 0..Len(journal'),
                                 kind : EffectKinds])
<1> DEFINE Old == DOMAIN journal
           New == DOMAIN journal'
<1>1. TablesOK /\ RunOK /\ TypeOK
  BY TypedIs DEF Typed
<1>2. Len(journal') = Len(journal) + 1 /\ Old \subseteq New /\ Len(journal) \in Nat
  BY <1>1, JournalGrows, JournalIs
<1>3. 0..Len(journal) \subseteq 0..Len(journal')
  BY <1>2
<1>4. journal' \in Seq(Entries)
  <2>1. c \in Entries /\ journal \in Seq(Entries)
    BY <1>1 DEF Entries, TablesOK
  <2> HIDE DEF Entries
  <2> QED
    BY <2>1
<1> HIDE DEF Old, New
<1>5. [event : Old, kind : EffectKinds] \subseteq [event : New, kind : EffectKinds]
  BY <1>2
<1>6. [event : Old, seq : 0..Len(journal), kind : EffectKinds]
        \subseteq [event : New, seq : 0..Len(journal'), kind : EffectKinds]
  BY <1>2, <1>3
<1>7. effects \in Seq([event : New, kind : EffectKinds])
  <2>1. PICK A, B : /\ A = [event : Old, kind : EffectKinds]
                    /\ B = [event : New, kind : EffectKinds]
    OBVIOUS
  <2>2. effects \in Seq(A) /\ A \subseteq B
    BY <1>1, <1>5, <2>1 DEF Old, TablesOK
  <2>3. effects \in Seq(B)
    BY <2>2, SeqsGrow
  <2> QED
    BY <2>1, <2>3
<1>8. run.accepted \in Seq(New)
  BY <1>1, <1>2, SeqsGrow DEF Old, RunOK
<1>9. run.queue \in Seq([event : New, seq : 0..Len(journal'), kind : EffectKinds])
  <2>1. PICK A, B : /\ A = [event : Old, seq : 0..Len(journal), kind : EffectKinds]
                    /\ B = [event : New, seq : 0..Len(journal'), kind : EffectKinds]
    OBVIOUS
  <2>2. run.queue \in Seq(A) /\ A \subseteq B
    BY <1>1, <1>6, <2>1 DEF Old, RunOK, Queues
  <2>3. run.queue \in Seq(B)
    BY <2>2, SeqsGrow
  <2> QED
    BY <2>1, <2>3
<1>10. intents \subseteq [event : New, kind : EffectKinds, state : {"created", "completed"}]
  BY <1>1, <1>2 DEF Old, TablesOK
<1>11. cursor \in 0..Len(journal')
  BY <1>1, <1>3 DEF TablesOK
<1> QED
  BY <1>4, <1>7, <1>8, <1>9, <1>10, <1>11 DEF New

LEMMA TypedAfterAppend ==
    ASSUME Typed, AcceptAppends
    PROVE  Typed'
<1>1. /\ run.phase = "accept" /\ journal' = Append(journal, command)
      /\ run' = IF run.s2cut
                THEN [run EXCEPT !.s2cut = FALSE, !.cutEvent = Len(journal) + 1]
                ELSE [run EXCEPT !.phase = "register", !.pending = Len(journal) + 1]
      /\ UNCHANGED <<profile, registered, effects, intents, cursor, runs, ran>>
  BY DEF AcceptAppends, Running, history
<1>2. TablesOK /\ RunOK /\ TypeOK
  BY TypedIs DEF Typed
<1>3. command \in Commands
  BY <1>1, CommandAt
<1>4. TablesOK'
  BY <1>1, <1>2, <1>3, TypesGrow DEF TablesOK
<1>5. /\ DOMAIN run' = RunFields /\ run'.phase \in {"accept", "register"}
      /\ run'.accepted = run.accepted
      /\ run'.queue = run.queue /\ run'.flow = run.flow /\ run'.start = run.start
      /\ run'.script = run.script /\ run'.next = run.next
      /\ run'.cutEvent \in {run.cutEvent, Len(journal) + 1}
      /\ (run'.phase = "register" => run'.pending = Len(journal) + 1)
  <2>1. CASE run.s2cut
    BY <1>1, <1>2, <2>1 DEF RunOK, RunFields
  <2>2. CASE ~run.s2cut
    BY <1>1, <1>2, <2>2 DEF RunOK, RunFields
  <2> QED
    BY <2>1, <2>2
<1>6. Live'
  BY <1>1, <1>2, <1>5, RowsGrow, LiveAtCommand
<1>7. RunOK'
  BY <1>1, <1>2, <1>3, <1>5, <1>6, TypesGrow, RunOKNext DEF RunOK, Phases
<1> QED
  BY <1>4, <1>7, TypedNext

LEMMA NextCommandIs ==
    ASSUME NEW r, DOMAIN r = RunFields
    PROVE  /\ DOMAIN NextCommand(r) = RunFields
           /\ NextCommand(r).phase
                = IF r.next = Len(r.script.commands) THEN "plan" ELSE "accept"
           /\ NextCommand(r).next = r.next + 1 /\ NextCommand(r).cutEvent = 0
           /\ NextCommand(r).script = r.script /\ NextCommand(r).flow = r.flow
           /\ NextCommand(r).accepted = r.accepted /\ NextCommand(r).queue = r.queue
           /\ NextCommand(r).start = r.start /\ NextCommand(r).outcome = r.outcome
BY DEF NextCommand, RunFields

(* What s3 gives the caller: an event of the command.                        *)
Given == IF run.cutEvent # 0 THEN run.cutEvent ELSE run.pending

LEMMA RegisterIs ==
    ASSUME Typed, Register
    PROVE  /\ run.phase = "register" /\ run.pending \in Rows(command.pair)
           /\ Given \in Rows(command.pair)
           /\ registered' = {r \in registered : r.pair # command.pair}
                             \cup {[pair |-> command.pair, event |-> run.pending]}
           /\ UNCHANGED <<profile, journal, effects, intents, cursor, runs, ran>>
           /\ DOMAIN run' = RunFields
           /\ run'.phase = IF run.next = Count THEN "plan" ELSE "accept"
           /\ run'.next = run.next + 1 /\ run'.cutEvent = 0
           /\ run'.script = run.script /\ run'.flow = run.flow
           /\ run'.accepted = Append(run.accepted, Given) /\ run'.queue = run.queue
           /\ run'.start = run.start /\ run'.outcome = run.outcome
<1>1. run.phase = "register" /\ DOMAIN run = RunFields
  BY DEF Register, Running, Typed
<1>2. Live
  BY <1>1, CommandAt
<1>3. run.pending \in Rows(command.pair) /\ Given \in Rows(command.pair)
  BY <1>1, <1>2 DEF Live, Given
<1> DEFINE r == [run EXCEPT !.accepted = Append(@, Given)]
<1>4. /\ DOMAIN r = RunFields /\ r.next = run.next /\ r.script = run.script
      /\ r.flow = run.flow /\ r.queue = run.queue /\ r.start = run.start
      /\ r.outcome = run.outcome /\ r.accepted = Append(run.accepted, Given)
  BY <1>1 DEF RunFields
<1>5. run' = NextCommand(r)
  BY DEF Register, Given
<1> HIDE DEF r
<1>6. /\ DOMAIN run' = RunFields
      /\ run'.phase = IF r.next = Len(r.script.commands) THEN "plan" ELSE "accept"
      /\ run'.next = r.next + 1 /\ run'.cutEvent = 0
      /\ run'.script = r.script /\ run'.flow = r.flow
      /\ run'.accepted = r.accepted /\ run'.queue = r.queue
      /\ run'.start = r.start /\ run'.outcome = r.outcome
  BY <1>4, <1>5, NextCommandIs
<1> QED
  BY <1>1, <1>3, <1>4, <1>6 DEF Register, history, Count

LEMMA TypedAfterRegister ==
    ASSUME Typed, Register
    PROVE  Typed'
<1>1. TablesOK /\ RunOK /\ TypeOK
  BY TypedIs DEF Typed
<1>2. /\ command.pair \in Occurrences /\ run.next \in 1..Count
      /\ run.phase \in {"accept", "register"}
  BY CommandAt, RegisterIs
<1>3. run.pending \in Nat /\ Given \in DOMAIN journal
  BY <1>1, RegisterIs, RowsAre
<1>4. TablesOK'
  <2>1. /\ registered' = {r \in registered : r.pair # command.pair}
                          \cup {[pair |-> command.pair, event |-> run.pending]}
        /\ UNCHANGED <<profile, journal, effects, intents, cursor, runs, ran>>
    BY RegisterIs
  <2>2. registered' \subseteq [pair : Occurrences \cup {IncidentPair}, event : Nat]
    BY <1>1, <1>2, <1>3, <2>1 DEF TablesOK
  <2> QED
    BY <1>1, <2>1, <2>2 DEF TablesOK
<1>5. Live'
  BY <1>2, RegisterIs, LivePastCommand
<1>6. run'.accepted \in Seq(DOMAIN journal')
  <2>1. run.accepted \in Seq(DOMAIN journal)
    BY <1>1 DEF RunOK
  <2>2. PICK S : S = DOMAIN journal
    OBVIOUS
  <2>3. Append(run.accepted, Given) \in Seq(S)
    BY <1>3, <2>1, <2>2
  <2> QED
    BY <2>2, <2>3, RegisterIs
<1>7. RunOK'
  BY <1>1, <1>5, <1>6, RegisterIs, RunOKNext DEF RunOK, Phases, Queues
<1> QED
  BY <1>4, <1>7, TypedNext

LEMMA TypedAfterRejection ==
    ASSUME Typed, CommandRejected
    PROVE  Typed'
<1>1. TablesOK /\ RunOK
  BY TypedIs
<1>2. /\ run.phase \in {"accept", "register"} /\ Rows(command.pair) # {}
      /\ IF run.script.tolerant THEN run' = NextCommand(run) ELSE Ends("raised")
      /\ UNCHANGED <<profile, tables, history>>
  BY DEF CommandRejected, Running, Conflicts
<1>3. UNCHANGED <<journal, runs, ran>>
  BY <1>2 DEF tables, history
<1>4. TablesOK'
  BY <1>1, <1>2, <1>3, TablesSame DEF TablesOK
<1>5. RunOK'
  <2>1. CASE run.script.tolerant
    <3>1. /\ DOMAIN run' = RunFields
          /\ run'.phase = IF run.next = Count THEN "plan" ELSE "accept"
          /\ run'.next = run.next + 1 /\ run'.cutEvent = 0
          /\ run'.script = run.script /\ run'.flow = run.flow
          /\ run'.accepted = run.accepted /\ run'.queue = run.queue
          /\ run'.start = run.start
      BY <1>1, <1>2, <2>1, NextCommandIs DEF RunOK, Count
    <3>2. Live'
      BY <1>2, <1>3, <2>1, <3>1, LivePastCommand
    <3> QED
      BY <1>1, <1>3, <3>1, <3>2, RunOKNext DEF RunOK, Phases, Queues
  <2>2. CASE ~run.script.tolerant
    BY <1>2, <2>2, EndsRunOK
  <2> QED
    BY <2>1, <2>2
<1> QED
  BY <1>4, <1>5, TypedNext

(***************************************************************************)
(* The plan of the deliveries.                                             *)
(***************************************************************************)
Item == [event : DOMAIN journal, seq : 0..Len(journal), kind : EffectKinds]

(* The run has been through its commands.                                    *)
LEMMA Accepted ==
    ASSUME Typed, run.phase \in {"plan", "deliver"}
    PROVE  /\ Live /\ run.script \in AllScripts /\ Count \in Nat \ {0}
           /\ run.accepted \in Seq(DOMAIN journal)
           /\ DOMAIN run.accepted = 1..Len(run.accepted)
           /\ Len(run.accepted) \in Nat
           /\ \A i \in 1..Len(run.accepted) : run.accepted[i] \in DOMAIN journal
           /\ \A i \in 1..Count : Rows(run.script.commands[i].pair) # {}
           /\ ~run.script.tolerant =>
                 /\ Len(run.accepted) = Count
                 /\ \A i \in 1..Count : run.accepted[i] \in Rows(run.script.commands[i].pair)
<1>1. Live /\ run.accepted \in Seq(DOMAIN journal)
  BY DEF Typed, TypeOK
<1>2. run.script \in AllScripts /\ run.next = Count + 1
  BY <1>1 DEF Live
<1>3. Count \in Nat \ {0}
  BY <1>2, CommandsOf DEF Count
<1>4. run.next - 1 = Count
  BY <1>2, <1>3
<1>5. /\ DOMAIN run.accepted = 1..Len(run.accepted)
      /\ Len(run.accepted) \in Nat
      /\ \A i \in 1..Len(run.accepted) : run.accepted[i] \in DOMAIN journal
  BY <1>1, ElementOfSeq
<1>6. \A i \in 1..Count : Rows(run.script.commands[i].pair) # {}
  BY <1>1, <1>4 DEF Live
<1>7. ~run.script.tolerant =>
         /\ Len(run.accepted) = Count
         /\ \A i \in 1..Count : run.accepted[i] \in Rows(run.script.commands[i].pair)
  BY <1>1, <1>4 DEF Live
<1> QED
  BY <1>1, <1>2, <1>3, <1>5, <1>6, <1>7

LEMMA DeliveryIs ==
    ASSUME NEW e \in DOMAIN journal, NEW s \in 0..Len(journal), NEW k \in EffectKinds
    PROVE  /\ Delivery(e, s, k) \in Item /\ Delivery(e, s, k).event = e
           /\ Delivery(e, s, k).seq = s /\ Delivery(e, s, k).kind = k
BY DEF Delivery, Item

(* A plan that settles each of these events and notifies of none.            *)
Settles(q, events) ==
    /\ q \in Seq(Item) /\ Len(q) \in Nat
    /\ \A i \in 1..Len(q) : q[i].kind = "settlement"
    /\ \A e \in events : \E i \in 1..Len(q) : q[i].event = e

LEMMA AscendingSettles ==
    ASSUME TypeOK, NEW S \in SUBSET (DOMAIN journal)
    PROVE  Settles(Ascending(S), S)
<1>1. IsFiniteSet(DOMAIN journal) /\ DOMAIN journal \in SUBSET Nat
      /\ DOMAIN journal \subseteq 0..Len(journal)
  BY JournalIs, FS_Interval
<1>2. IsFiniteSet(S) /\ S \in SUBSET Nat /\ S \subseteq 0..Len(journal)
  BY <1>1, FS_Subset
<1>3. PICK q : q = Ascending(S)
  OBVIOUS
<1>4. /\ Len(q) \in Nat
      /\ \A n \in 1..Len(q) : \E e \in S : q[n] = Delivery(e, e, "settlement")
      /\ \A e \in S : \E n \in 1..Len(q) : q[n] = Delivery(e, e, "settlement")
      /\ q \in Seq([event : S, seq : S, kind : {"settlement"}])
  BY <1>2, <1>3, AscendingIs
<1>5. \A e \in S : Delivery(e, e, "settlement") \in Item
                   /\ Delivery(e, e, "settlement").event = e
                   /\ Delivery(e, e, "settlement").kind = "settlement"
  BY <1>2, DeliveryIs DEF EffectKinds
<1>6. ASSUME NEW i \in 1..Len(q)
      PROVE  q[i] \in Item /\ q[i].kind = "settlement"
  <2>1. PICK e \in S : q[i] = Delivery(e, e, "settlement")
    BY <1>4
  <2> QED
    BY <1>5, <2>1
<1>7. q \in Seq(Item)
  <2>1. PICK D, T : D = [event : S, seq : S, kind : {"settlement"}] /\ T = Item
    OBVIOUS
  <2>2. q \in Seq(D) /\ \A i \in 1..Len(q) : q[i] \in T
    BY <1>4, <1>6, <2>1
  <2>3. q \in [1..Len(q) -> D] /\ Len(q) \in Nat
    BY <2>2
  <2>4. q \in [1..Len(q) -> T]
    BY <2>2, <2>3
  <2>5. q \in Seq(T)
    BY <2>3, <2>4
  <2> QED
    BY <2>1, <2>5
<1>8. \A e \in S : \E i \in 1..Len(q) : q[i].event = e
  BY <1>4, <1>5
<1> QED
  BY <1>3, <1>4, <1>6, <1>7, <1>8 DEF Settles

LEMMA DeliveriesSettle ==
    ASSUME Typed, run.phase = "plan"
    PROVE  Settles(Deliveries, Owed)
<1>1. TypeOK
  BY DEF Typed
<1>2. PICK s \in AllScripts : s = run.script
  BY Accepted
<1>3. ScriptShape(s)
  BY CommandsOf
<1>4. s.deliver \in {"accepted", "rows", "new rows", "twice", "none"}
  BY <1>3 DEF ScriptShape
<1>5. CASE s.deliver = "accepted"
  <2> DEFINE q == [i \in DOMAIN run.accepted |->
                      Delivery(run.accepted[i], run.accepted[i], "settlement")]
  <2>1. Deliveries = q
    BY <1>2, <1>5 DEF Deliveries
  <2>2. DOMAIN q = 1..Len(run.accepted) /\ Len(run.accepted) \in Nat
    BY Accepted
  <2>3. \A i \in 1..Len(run.accepted) : run.accepted[i] \in 0..Len(journal)
    BY <1>1, Accepted, JournalIs
  <2>4. \A i \in 1..Len(run.accepted) :
           q[i] \in Item /\ q[i].event = run.accepted[i] /\ q[i].kind = "settlement"
    BY <2>2, <2>3, Accepted, DeliveryIs DEF EffectKinds
  <2>5. q \in Seq(Item) /\ Len(q) = Len(run.accepted)
    <3>1. PICK T : T = Item
      OBVIOUS
    <3>2. q \in [1..Len(run.accepted) -> T]
      BY <2>2, <2>4, <3>1
    <3> HIDE DEF q
    <3>3. q \in Seq(T) /\ Len(q) = Len(run.accepted)
      BY <2>2, <3>2
    <3> QED
      BY <3>1, <3>3
  <2>6. Owed = {run.accepted[i] : i \in 1..Len(run.accepted)}
    BY <1>2, <1>5 DEF Owed
  <2> HIDE DEF q
  <2> QED
    BY <2>1, <2>2, <2>4, <2>5, <2>6 DEF Settles
<1>6. CASE s.deliver = "rows"
  <2>1. Deliveries = Ascending(RowsOf(s)) /\ Owed = RowsOf(s)
    BY <1>2, <1>6 DEF Deliveries, Owed
  <2> QED
    BY <1>1, <2>1, RowsOfAre, AscendingSettles
<1>7. CASE s.deliver = "new rows"
  <2>1. Deliveries = Ascending((run.start + 1)..Len(journal)) /\ Owed = {}
    BY <1>2, <1>7 DEF Deliveries, Owed
  <2>2. (run.start + 1)..Len(journal) \in SUBSET (DOMAIN journal)
    BY <1>1, JournalIs DEF Typed
  <2>3. Settles(Deliveries, (run.start + 1)..Len(journal))
    BY <1>1, <2>1, <2>2, AscendingSettles
  <2> QED
    BY <2>1, <2>3 DEF Settles
<1>8. CASE s.deliver = "twice"
  <2>1. ~s.tolerant
    BY <1>3, <1>8 DEF ScriptShape
  <2>2. Len(run.accepted) = Count /\ Count \in Nat \ {0} /\ Count = Len(s.commands)
    BY <1>2, <2>1, Accepted DEF Count
  <2>3. 1 \in 1..Count
    BY <2>2
  <2>4. run.accepted[1] \in DOMAIN journal
    BY <2>2, <2>3, Accepted
  <2>5. EventOf(s.commands[1].pair) \in 0..Len(journal)
    <3>1. Rows(s.commands[1].pair) # {}
      BY <1>2, <2>3, Accepted
    <3>2. EventOf(s.commands[1].pair) \in DOMAIN journal
      BY <1>1, <3>1, RowsAre
    <3> QED
      BY <1>1, <3>2, JournalIs
  <2>6. PICK f : f = Delivery(run.accepted[1], EventOf(s.commands[1].pair), "settlement")
    OBVIOUS
  <2>7. f \in Item /\ f.event = run.accepted[1] /\ f.kind = "settlement"
    BY <2>4, <2>5, <2>6, DeliveryIs DEF EffectKinds
  <2>8. Deliveries = <<f, f>> /\ Owed = {run.accepted[1]}
    BY <1>2, <1>8, <2>6 DEF Deliveries, Owed
  <2>9. PICK T : T = Item
    OBVIOUS
  <2>10. <<f, f>> \in Seq(T) /\ Len(<<f, f>>) = 2 /\ \A i \in 1..2 : <<f, f>>[i] = f
    BY <2>7, <2>9
  <2> QED
    BY <2>7, <2>8, <2>9, <2>10 DEF Settles
<1>9. CASE s.deliver = "none"
  <2>1. Deliveries = <<>> /\ Owed = {}
    BY <1>2, <1>9 DEF Deliveries, Owed
  <2> QED
    BY <2>1 DEF Settles
<1> QED
  BY <1>4, <1>5, <1>6, <1>7, <1>8, <1>9

(* The queue of a plan: the settlements owed and, after them, a notification *)
(* of the first event.                                                       *)
LEMMA PlanIs ==
    ASSUME Typed, PlanDeliveries
    PROVE  /\ run.phase = "plan" /\ DOMAIN run' = RunFields /\ run'.phase = "deliver"
           /\ run'.script = run.script /\ run'.flow = run.flow /\ run'.next = run.next
           /\ run'.accepted = run.accepted /\ run'.start = run.start
           /\ run'.outcome = run.outcome
           /\ UNCHANGED <<profile, journal, registered, effects, intents, cursor, runs, ran>>
           /\ run'.queue \in Seq(Item) /\ Len(run'.queue) \in Nat
           /\ \A e \in Owed : \E i \in 1..Len(run'.queue) :
                 run'.queue[i].event = e /\ run'.queue[i].kind = "settlement"
           /\ \A i \in 1..Len(run'.queue) : run'.queue[i].kind = "notify" =>
                 \E j \in 1..(i - 1) : /\ run'.queue[j].event = run'.queue[i].event
                                       /\ run'.queue[j].kind = "settlement"
           /\ \A i \in 1..Len(run'.queue) :
                 \/ \E j \in 1..Len(Deliveries) : run'.queue[i] = Deliveries[j]
                 \/ /\ run.script.notify /\ run'.queue[i].event = run.accepted[1]
                    /\ run'.queue[i].kind = "notify"
           /\ ~run.script.notify => run'.queue = Deliveries
           /\ run.script.notify =>
                 \E i \in 1..Len(run'.queue) : /\ run'.queue[i].event = run.accepted[1]
                                               /\ run'.queue[i].kind = "notify"
<1>1. run.phase = "plan" /\ DOMAIN run = RunFields
  BY DEF PlanDeliveries, Running, Typed
<1> DEFINE tail == IF run.script.notify THEN <<Delivery(run.accepted[1], 0, "notify")>>
                                        ELSE <<>>
<1>2. run' = [run EXCEPT !.phase = "deliver", !.queue = Deliveries \o tail]
      /\ UNCHANGED <<profile, tables, history>>
  BY DEF PlanDeliveries
<1>3. PICK t : t = tail
  OBVIOUS
<1> HIDE DEF tail
<1>4. /\ DOMAIN run' = RunFields /\ run'.phase = "deliver"
      /\ run'.script = run.script /\ run'.flow = run.flow /\ run'.next = run.next
      /\ run'.accepted = run.accepted /\ run'.start = run.start
      /\ run'.outcome = run.outcome /\ run'.queue = Deliveries \o t
  BY <1>1, <1>2, <1>3 DEF RunFields
<1>5. Settles(Deliveries, Owed)
  BY <1>1, DeliveriesSettle
<1>6. PICK q \in Seq(Item) : q = Deliveries
  BY <1>5 DEF Settles
<1>7. PICK T : T = Item
  OBVIOUS
<1>8. \A i \in 1..Len(q) : q[i] \in T
  BY <1>6, <1>7, ElementOfSeq
<1>9. CASE ~run.script.notify
  <2>1. t = <<>>
    BY <1>3, <1>9 DEF tail
  <2>2. q \o t = q
    BY <1>6, <1>7, <2>1, ConcatEmptySeq
  <2>3. run'.queue = q
    BY <1>4, <1>6, <2>2
  <2>4. \A i \in 1..Len(q) : q[i].kind # "notify"
    BY <1>5, <1>6 DEF Settles
  <2> QED
    <3>1. UNCHANGED <<profile, journal, registered, effects, intents, cursor, runs, ran>>
      BY <1>2 DEF tables, history
    <3>2. /\ run'.queue \in Seq(Item) /\ Len(run'.queue) \in Nat
          /\ \A i \in 1..Len(run'.queue) : run'.queue[i].kind # "notify"
          /\ \A e \in Owed : \E i \in 1..Len(run'.queue) :
                run'.queue[i].event = e /\ run'.queue[i].kind = "settlement"
      BY <1>5, <1>6, <2>3, <2>4 DEF Settles
    <3>3. run'.queue = Deliveries
      BY <1>6, <2>3
    <3> QED
      BY <1>1, <1>4, <1>9, <3>1, <3>2, <3>3
<1>10. CASE run.script.notify
  <2>1. PICK s \in AllScripts : s = run.script
    BY <1>1, Accepted
  <2>2. ScriptShape(s)
    BY CommandsOf
  <2>3. ~s.tolerant /\ s.deliver = "accepted"
    BY <1>10, <2>1, <2>2 DEF ScriptShape
  <2>4. Len(run.accepted) = Count /\ Count \in Nat \ {0}
    BY <1>1, <2>1, <2>3, Accepted
  <2>5. 1 \in 1..Len(run.accepted)
    BY <2>4
  <2>6. run.accepted[1] \in DOMAIN journal /\ run.accepted[1] \in Owed
    BY <1>1, <2>1, <2>3, <2>5, Accepted DEF Owed
  <2>7. PICK n : n = Delivery(run.accepted[1], 0, "notify")
    OBVIOUS
  <2>8. n \in T /\ n.event = run.accepted[1] /\ n.kind = "notify"
    <3>1. 0 \in 0..Len(journal)
      BY JournalIs DEF Typed
    <3> QED
      BY <1>7, <2>6, <2>7, <3>1, DeliveryIs DEF EffectKinds
  <2>9. t = <<n>>
    BY <1>3, <1>10, <2>7 DEF tail
  <2>10. PICK m \in Nat : m = Len(q)
    BY <1>6, <1>7, ElementOfSeq
  <2>11. /\ q \o t \in Seq(T) /\ Len(q \o t) = m + 1 /\ (q \o t)[m + 1] = n
         /\ \A i \in 1..m : (q \o t)[i] = q[i]
    <3>1. t \in Seq(T) /\ Len(t) = 1 /\ t[1] = n
      BY <2>8, <2>9
    <3>2. q \in Seq(T)
      BY <1>6, <1>7
    <3>3. /\ q \o t \in Seq(T) /\ Len(q \o t) = Len(q) + Len(t)
          /\ \A i \in 1..(Len(q) + Len(t)) :
                (q \o t)[i] = IF i <= Len(q) THEN q[i] ELSE t[i - Len(q)]
      BY <3>1, <3>2, ConcatProperties
    <3>4. Len(q) = m /\ Len(q) + Len(t) = m + 1 /\ m + 1 \in 1..(m + 1)
          /\ ~(m + 1 <= m) /\ m + 1 - m = 1
      BY <2>10, <3>1
    <3>5. \A i \in 1..m : i \in 1..(m + 1) /\ i <= m
      BY <2>10
    <3>6. (q \o t)[m + 1] = n
      BY <3>1, <3>3, <3>4
    <3>7. \A i \in 1..m : (q \o t)[i] = q[i]
      BY <3>3, <3>4, <3>5
    <3>8. Len(q \o t) = m + 1 /\ q \o t \in Seq(T)
      BY <3>3, <3>4
    <3> QED
      BY <3>6, <3>7, <3>8
  <2>12. PICK w : w = q \o t
    OBVIOUS
  <2>13. /\ run'.queue = w /\ w \in Seq(Item) /\ Len(w) = m + 1 /\ w[m + 1] = n
         /\ \A i \in 1..m : w[i] = q[i]
    BY <1>4, <1>6, <1>7, <2>11, <2>12
  <2>14. ASSUME NEW e \in Owed
         PROVE  \E i \in 1..m : w[i].event = e /\ w[i].kind = "settlement"
    BY <1>5, <1>6, <2>10, <2>13 DEF Settles
  <2>15. ASSUME NEW i \in 1..(m + 1), w[i].kind = "notify"
         PROVE  \E j \in 1..(i - 1) : w[j].event = w[i].event /\ w[j].kind = "settlement"
    <3>1. i = m + 1
      <4>1. i \in 1..m => w[i].kind = "settlement"
        BY <1>5, <1>6, <2>10, <2>13 DEF Settles
      <4> QED
        BY <2>15, <4>1
    <3>2. PICK j \in 1..m : w[j].event = run.accepted[1] /\ w[j].kind = "settlement"
      BY <2>6, <2>14
    <3>3. j \in 1..(i - 1)
      BY <3>1
    <3> QED
      BY <2>8, <2>13, <3>1, <3>2, <3>3
  <2>16. \A e \in Owed : \E i \in 1..(m + 1) : w[i].event = e /\ w[i].kind = "settlement"
    BY <2>14
  <2> QED
    <3>1. UNCHANGED <<profile, journal, registered, effects, intents, cursor, runs, ran>>
      BY <1>2 DEF tables, history
    <3>2. /\ run'.queue \in Seq(Item) /\ Len(run'.queue) = m + 1 /\ m + 1 \in Nat
          /\ run'.queue = w
      BY <2>13
    <3>3. \A i \in 1..(m + 1) :
             \/ \E j \in 1..Len(Deliveries) : w[i] = Deliveries[j]
             \/ w[i].event = run.accepted[1] /\ w[i].kind = "notify"
      BY <1>6, <2>8, <2>10, <2>13
    <3>4. m + 1 \in 1..(m + 1) /\ w[m + 1].event = run.accepted[1] /\ w[m + 1].kind = "notify"
      BY <2>8, <2>13
    <3> QED
      BY <1>1, <1>4, <1>10, <2>15, <2>16, <3>1, <3>2, <3>3, <3>4
<1> QED
  BY <1>9, <1>10

LEMMA TypedAfterPlan ==
    ASSUME Typed, PlanDeliveries
    PROVE  Typed'
<1>1. TablesOK /\ RunOK
  BY TypedIs
<1>2. UNCHANGED <<profile, journal, registered, effects, intents, cursor, runs, ran>>
  BY PlanIs
<1>3. TablesOK'
  BY <1>1, <1>2 DEF TablesOK
<1>4. Live'
  BY PlanIs, LiveDelivering
<1>5. run'.queue \in Seq([event : DOMAIN journal', seq : 0..Len(journal'),
                          kind : EffectKinds])
  BY <1>2, PlanIs DEF Item
<1>6. run'.accepted \in Seq(DOMAIN journal') /\ run'.flow \in Flows /\ run'.start \in Nat
  BY <1>1, <1>2, PlanIs DEF RunOK
<1>7. RunOK'
  BY <1>4, <1>5, <1>6, PlanIs, RunOKNext DEF Phases
<1> QED
  BY <1>3, <1>7, TypedNext

(***************************************************************************)
(* The deliveries keep the types.                                          *)
(***************************************************************************)
LEMMA QueueIs ==
    ASSUME Typed, Attempts
    PROVE  /\ run.phase = "deliver" /\ run.queue # <<>>
           /\ item.event \in DOMAIN journal /\ item.seq \in 0..Len(journal)
           /\ item.kind \in EffectKinds /\ item = run.queue[1]
           /\ run.queue \in Seq(Item) /\ Tail(run.queue) \in Seq(Item)
           /\ Len(run.queue) \in Nat \ {0} /\ Len(Tail(run.queue)) = Len(run.queue) - 1
           /\ \A i \in 1..(Len(run.queue) - 1) : Tail(run.queue)[i] = run.queue[i + 1]
<1>1. run.phase = "deliver" /\ run.queue # <<>> /\ run.queue \in Seq(Item)
  BY DEF Attempts, Running, Typed, Queues, Item
<1>2. PICK T, q : T = Item /\ q = run.queue
  OBVIOUS
<1>3. /\ Head(q) \in T /\ Head(q) = q[1] /\ Tail(q) \in Seq(T)
      /\ Len(q) \in Nat \ {0} /\ Len(Tail(q)) = Len(q) - 1
      /\ \A i \in 1..(Len(q) - 1) : Tail(q)[i] = q[i + 1]
  BY <1>1, <1>2, HeadTailProperties
<1>4. \A d \in Item : /\ d.event \in DOMAIN journal /\ d.seq \in 0..Len(journal)
                      /\ d.kind \in EffectKinds
  BY DEF Item
<1>5. item \in Item
  BY <1>2, <1>3 DEF item
<1> QED
  BY <1>1, <1>2, <1>3, <1>4, <1>5 DEF item

(* A delivery leaves all of the run but the queue and the switches alone.    *)
LEMMA RunDelivering ==
    ASSUME Typed, run.phase = "deliver", UNCHANGED journal, ran' = ran,
           DOMAIN run' = RunFields, run'.phase = "deliver",
           run'.queue \in Seq(Item),
           run'.script = run.script, run'.flow = run.flow, run'.next = run.next,
           run'.accepted = run.accepted, run'.start = run.start
    PROVE  RunOK'
<1>1. RunOK
  BY TypedIs
<1>2. Live'
  BY LiveDelivering
<1>3. run'.queue \in Seq([event : DOMAIN journal', seq : 0..Len(journal'),
                          kind : EffectKinds])
  BY DEF Item
<1>4. run'.accepted \in Seq(DOMAIN journal') /\ run'.flow \in Flows /\ run'.start \in Nat
  BY <1>1 DEF RunOK
<1> QED
  BY <1>2, <1>3, <1>4, RunOKNext DEF Phases

LEMMA EffectsGrow ==
    ASSUME Typed, Attempts, EffectInserted
    PROVE  /\ effects' \in Seq([event : DOMAIN journal, kind : EffectKinds])
           /\ DOMAIN effects' = 1..(Len(effects) + 1) /\ DOMAIN effects = 1..Len(effects)
           /\ Len(effects) \in Nat
           /\ Len(effects) + 1 \notin DOMAIN effects
           /\ \A i \in DOMAIN effects : i \in DOMAIN effects' /\ effects'[i] = effects[i]
           /\ effects'[Len(effects) + 1].event = item.event
           /\ effects'[Len(effects) + 1].kind = item.kind
           /\ \A i \in DOMAIN effects' : i \in DOMAIN effects \/ i = Len(effects) + 1
<1>1. PICK T, e : /\ T = [event : DOMAIN journal, kind : EffectKinds]
                  /\ e = [event |-> item.event, kind |-> item.kind]
  OBVIOUS
<1>2. e \in T /\ effects \in Seq(T) /\ effects' = Append(effects, e)
  BY <1>1, QueueIs DEF EffectInserted, Typed, TypeOK
<1>3. /\ effects' \in Seq(T) /\ Len(effects') = Len(effects) + 1
      /\ effects'[Len(effects) + 1] = e /\ Len(effects) \in Nat
      /\ \A i \in 1..Len(effects) : effects'[i] = effects[i]
      /\ DOMAIN effects = 1..Len(effects) /\ DOMAIN effects' = 1..Len(effects')
  BY <1>2, AppendProperties
<1>4. /\ Len(effects) + 1 \notin 1..Len(effects)
      /\ \A i \in 1..(Len(effects) + 1) : i \in 1..Len(effects) \/ i = Len(effects) + 1
      /\ \A i \in 1..Len(effects) : i \in 1..(Len(effects) + 1)
  BY <1>3
<1> QED
  BY <1>1, <1>3, <1>4

(* The intents of the outbox.                                                *)
IntentKinds == [event : DOMAIN journal, kind : EffectKinds, state : {"created", "completed"}]

LEMMA IntentsTyped ==
    ASSUME Typed, Attempts
    PROVE  /\ IntentsOpened \subseteq IntentKinds
           /\ \A open \in SUBSET IntentKinds : IntentsCompleted(open) \subseteq IntentKinds
           /\ intents \subseteq IntentKinds
           /\ \A n \in IntentsOpened : n.state = "completed" => n \in intents
           /\ \A open \in SUBSET IntentKinds : \A n \in IntentsCompleted(open) :
                 \/ n \in open
                 \/ n.event = item.event /\ n.kind = item.kind
<1>1. intents \subseteq IntentKinds
  BY DEF Typed, TypeOK, IntentKinds
<1>2. \A s \in {"created", "completed"} : Intent(item.event, item.kind, s) \in IntentKinds
  BY QueueIs DEF Intent, IntentKinds
<1>3. IntentsOpened \subseteq IntentKinds
  BY <1>1, <1>2 DEF IntentsOpened
<1>4. \A n \in IntentsOpened : n.state = "completed" => n \in intents
  BY DEF IntentsOpened, Intent
<1>5. ASSUME NEW open \in SUBSET IntentKinds
      PROVE  /\ IntentsCompleted(open) \subseteq IntentKinds
             /\ \A n \in IntentsCompleted(open) :
                   \/ n \in open
                   \/ n.event = item.event /\ n.kind = item.kind
  <2>1. IntentsCompleted(open) = open \/
        IntentsCompleted(open) = (open \ {Intent(item.event, item.kind, "created")})
                                    \cup {Intent(item.event, item.kind, "completed")}
    BY DEF IntentsCompleted
  <2>2. /\ Intent(item.event, item.kind, "completed") \in IntentKinds
        /\ Intent(item.event, item.kind, "completed").event = item.event
        /\ Intent(item.event, item.kind, "completed").kind = item.kind
    BY <1>2 DEF Intent
  <2> QED
    BY <2>1, <2>2
<1> QED
  BY <1>1, <1>3, <1>4, <1>5

(* What each way a delivery can end does to the run.                         *)
LEMMA DeliveredIs ==
    ASSUME Typed, Attempts, Delivered
    PROVE  /\ DOMAIN run' = RunFields /\ run'.phase = "deliver"
           /\ run'.script = run.script /\ run'.flow = run.flow /\ run'.next = run.next
           /\ run'.accepted = run.accepted /\ run'.start = run.start
           /\ run'.outcome = run.outcome
           /\ run'.queue = Tail(run.queue) /\ cursor' \in 0..Len(journal)
<1>1. DOMAIN run = RunFields /\ cursor \in 0..Len(journal) /\ run.phase = "deliver"
  BY QueueIs DEF Typed, TypeOK
<1>2. cursor' \in 0..Len(journal)
  BY <1>1, QueueIs DEF Delivered
<1>3. run' = [run EXCEPT !.queue = Tail(@), !.tries = 0]
  BY DEF Delivered
<1> QED
  BY <1>1, <1>2, <1>3 DEF RunFields

LEMMA RetriedIs ==
    ASSUME Typed
    PROVE  /\ DOMAIN Retried = RunFields /\ Retried.phase = run.phase
           /\ Retried.script = run.script /\ Retried.flow = run.flow
           /\ Retried.next = run.next /\ Retried.accepted = run.accepted
           /\ Retried.start = run.start /\ Retried.outcome = run.outcome
           /\ Retried.queue = run.queue
BY DEF Typed, Retried, RunFields

LEMMA CutpointIs ==
    ASSUME Typed, DeliverCutpoint
    PROVE  /\ DOMAIN run' = RunFields /\ run'.phase = run.phase
           /\ run'.script = run.script /\ run'.flow = run.flow
           /\ run'.next = run.next /\ run'.accepted = run.accepted
           /\ run'.start = run.start /\ run'.outcome = run.outcome
           /\ run'.queue = run.queue
<1>1. DOMAIN run = RunFields /\ run' = [run EXCEPT !.s5cut = FALSE, !.tries = 0]
  BY DEF Typed, DeliverCutpoint
<1> QED
  BY <1>1 DEF RunFields

(* The tables after a delivery.                                              *)
LEMMA TablesDelivered ==
    ASSUME TablesOK, UNCHANGED <<profile, journal, registered, runs, ran>>,
           effects' \in Seq([event : DOMAIN journal, kind : EffectKinds]),
           intents' \subseteq IntentKinds, cursor' \in 0..Len(journal)
    PROVE  TablesOK'
BY DEF TablesOK, IntentKinds

LEMMA TypedAfterDeliverReuses ==
    ASSUME Typed, DeliverReuses
    PROVE  Typed'
<1>1. Attempts /\ Delivered /\ UNCHANGED <<profile, journal, registered, effects, runs, ran>>
      /\ intents' = IntentsCompleted(intents)
  BY DEF DeliverReuses, history
<1>2. TablesOK /\ run.phase = "deliver"
  BY <1>1, TypedIs, QueueIs
<1>3. intents' \subseteq IntentKinds
  BY <1>1, IntentsTyped
<1>4. TablesOK'
  BY <1>1, <1>2, <1>3, DeliveredIs, TablesDelivered DEF TablesOK
<1>5. RunOK'
  BY <1>1, <1>2, DeliveredIs, QueueIs, RunDelivering
<1> QED
  BY <1>4, <1>5, TypedNext

LEMMA TypedAfterDeliverSettles ==
    ASSUME Typed, DeliverSettles
    PROVE  Typed'
<1>1. Attempts /\ Delivered /\ EffectInserted
      /\ UNCHANGED <<profile, journal, registered, runs, ran>>
      /\ intents' = IntentsCompleted(IntentsOpened)
  BY DEF DeliverSettles, history
<1>2. TablesOK /\ run.phase = "deliver"
  BY <1>1, TypedIs, QueueIs
<1>3. intents' \subseteq IntentKinds
  BY <1>1, IntentsTyped
<1>4. TablesOK'
  BY <1>1, <1>2, <1>3, DeliveredIs, EffectsGrow, TablesDelivered
<1>5. RunOK'
  BY <1>1, <1>2, DeliveredIs, QueueIs, RunDelivering
<1> QED
  BY <1>4, <1>5, TypedNext

LEMMA TypedAfterDeliverCutpoint ==
    ASSUME Typed, DeliverCutpoint
    PROVE  Typed'
<1>1. Attempts /\ EffectInserted /\ intents' = IntentsOpened
      /\ UNCHANGED <<profile, journal, registered, cursor, runs, ran>>
  BY DEF DeliverCutpoint, history
<1>2. TablesOK /\ run.phase = "deliver"
  BY <1>1, TypedIs, QueueIs
<1>3. intents' \subseteq IntentKinds
  BY <1>1, IntentsTyped
<1>4. TablesOK'
  BY <1>1, <1>2, <1>3, EffectsGrow, TablesDelivered DEF TablesOK
<1>5. RunOK'
  BY <1>1, <1>2, CutpointIs, QueueIs, RunDelivering
<1> QED
  BY <1>4, <1>5, TypedNext

LEMMA TypedAfterDeliverTransient ==
    ASSUME Typed, DeliverTransient
    PROVE  Typed'
<1>1. /\ Attempts /\ intents' = IntentsOpened
      /\ run' = Retried \/ Ends("raised")
      /\ UNCHANGED <<profile, journal, registered, effects, cursor, runs, ran>>
  BY DEF DeliverTransient, history
<1>2. TablesOK /\ run.phase = "deliver"
  BY <1>1, TypedIs, QueueIs
<1>3. intents' \subseteq IntentKinds
  BY <1>1, IntentsTyped
<1>4. TablesOK'
  BY <1>1, <1>2, <1>3, TablesDelivered DEF TablesOK
<1>5. CASE run' = Retried
  <2>1. RunOK'
    BY <1>1, <1>2, <1>5, RetriedIs, QueueIs, RunDelivering
  <2> QED
    BY <1>4, <2>1, TypedNext
<1>6. CASE Ends("raised")
  BY <1>4, <1>6, EndsRunOK, TypedNext
<1> QED
  BY <1>1, <1>5, <1>6

LEMMA TypedAfterEnd ==
    ASSUME Typed, DeliveryExhausted \/ FinishRun
    PROVE  Typed'
<1>1. TablesOK /\ UNCHANGED <<profile, tables, history>> /\ \E o : Ends(o)
  BY TypedIs DEF DeliveryExhausted, FinishRun
<1>2. TablesOK'
  BY <1>1, TablesSame DEF TablesOK, history
<1> QED
  BY <1>1, <1>2, EndsRunOK, TypedNext

LEMMA TypedAfterStutter ==
    ASSUME Typed, UNCHANGED vars
    PROVE  Typed'
BY DEF vars, tables, history, Typed, TypeOK, Queues, Live, Count, Rows, command

LEMMA TypedStep == Typed /\ [Next]_vars => Typed'
<1> SUFFICES ASSUME Typed, [Next]_vars
             PROVE  Typed'
  OBVIOUS
<1>1. ASSUME NEW script \in Scripts[profile], NEW revision \in Revisions,
             StartRun(script, revision)
      PROVE  Typed'
  BY <1>1, TypedAfterStart
<1>2. CASE AcceptReuses
  BY <1>2, TypedAfterReuse
<1>3. CASE AcceptAppends
  BY <1>3, TypedAfterAppend
<1>4. CASE Register
  BY <1>4, TypedAfterRegister
<1>5. CASE CommandRejected
  BY <1>5, TypedAfterRejection
<1>6. CASE PlanDeliveries
  BY <1>6, TypedAfterPlan
<1>7. CASE DeliverReuses
  BY <1>7, TypedAfterDeliverReuses
<1>8. CASE DeliverTransient
  BY <1>8, TypedAfterDeliverTransient
<1>9. CASE DeliverCutpoint
  BY <1>9, TypedAfterDeliverCutpoint
<1>10. CASE DeliverSettles
  BY <1>10, TypedAfterDeliverSettles
<1>11. CASE DeliveryExhausted \/ FinishRun
  BY <1>11, TypedAfterEnd
<1>12. CASE Restore
  BY <1>12, TypedAfterRestore
<1>13. CASE UNCHANGED vars
  BY <1>13, TypedAfterStutter
<1> QED
  BY <1>1, <1>2, <1>3, <1>4, <1>5, <1>6, <1>7, <1>8, <1>9, <1>10, <1>11, <1>12, <1>13
  DEF Next, Step

LEMMA AlwaysTyped == Spec => []Typed
<1>1. Init => Typed
  BY InitTyped
<1>2. Typed /\ [Next]_vars => Typed'
  BY TypedStep
<1> QED
  BY <1>1, <1>2, PTL DEF Spec

(* The tables and the run always have their types: the cursor lies within    *)
(* the journal, effects, intents and deliveries name rows that exist, and no *)
(* phase other than those of the engine is ever entered.                     *)
THEOREM TypeCorrect == Spec => []TypeOK
<1>1. Typed => TypeOK
  BY DEF Typed
<1> QED
  BY <1>1, AlwaysTyped, PTL

(***************************************************************************)
(* What a step does to the run.                                            *)
(***************************************************************************)
LEMMA IntakeRun ==
    ASSUME Typed, AcceptReuses \/ AcceptAppends \/ Register \/ CommandRejected
    PROVE  /\ run.phase \in {"accept", "register"}
           /\ \/ CommandRejected /\ Ends("raised") /\ ~run.script.tolerant
              \/ /\ run'.phase \in {"accept", "register", "plan"}
                 /\ run'.outcome = run.outcome /\ run'.script = run.script
                 /\ run'.budget = run.budget /\ run'.tries = run.tries
                 /\ run'.transient = run.transient
<1>1. DOMAIN run = RunFields
  BY DEF Typed
<1>2. run.phase \in {"accept", "register"}
  BY DEF AcceptReuses, AcceptAppends, Register, CommandRejected, Running
<1>3. CASE AcceptReuses
  BY <1>1, <1>2, <1>3 DEF AcceptReuses, RunFields
<1>4. CASE AcceptAppends
  <2>1. \/ run' = [run EXCEPT !.s2cut = FALSE, !.cutEvent = Len(journal) + 1]
        \/ run' = [run EXCEPT !.phase = "register", !.pending = Len(journal) + 1]
    BY <1>4 DEF AcceptAppends
  <2> QED
    BY <1>1, <1>2, <2>1 DEF RunFields
<1>5. ASSUME NEW r, DOMAIN r = RunFields, run' = NextCommand(r)
      PROVE  /\ run'.phase \in {"accept", "plan"} /\ run'.outcome = r.outcome
             /\ run'.script = r.script /\ run'.budget = r.budget
             /\ run'.tries = r.tries /\ run'.transient = r.transient
  BY <1>5 DEF NextCommand, RunFields
<1>6. CASE Register
  <2> DEFINE r == [run EXCEPT !.accepted = Append(@, Given)]
  <2>1. /\ DOMAIN r = RunFields /\ r.outcome = run.outcome /\ r.script = run.script
        /\ r.budget = run.budget /\ r.tries = run.tries /\ r.transient = run.transient
    BY <1>1 DEF RunFields
  <2>2. run' = NextCommand(r)
    BY <1>6 DEF Register, Given
  <2> HIDE DEF r
  <2> QED
    BY <1>2, <1>5, <2>1, <2>2
<1>7. CASE CommandRejected
  <2>1. IF run.script.tolerant THEN run' = NextCommand(run) ELSE Ends("raised")
    BY <1>7 DEF CommandRejected
  <2> QED
    BY <1>1, <1>2, <1>5, <1>7, <2>1
<1> QED
  BY <1>3, <1>4, <1>6, <1>7

LEMMA PlanRun ==
    ASSUME Typed, PlanDeliveries
    PROVE  /\ run'.outcome = run.outcome /\ run'.script = run.script
           /\ run'.budget = run.budget /\ run'.tries = run.tries
           /\ run'.transient = run.transient
<1>1. DOMAIN run = RunFields
  BY DEF Typed
<1>2. PICK q : run' = [run EXCEPT !.phase = "deliver", !.queue = q]
  BY DEF PlanDeliveries
<1> QED
  BY <1>1, <1>2 DEF RunFields

LEMMA DeliveryRun ==
    ASSUME Typed,
           DeliverReuses \/ DeliverTransient \/ DeliverCutpoint \/ DeliverSettles
    PROVE  /\ run.phase = "deliver" /\ UNCHANGED journal /\ ran' = ran /\ Attempts
           /\ \/ DeliverTransient /\ Ends("raised")
              \/ /\ run'.phase = "deliver" /\ run'.script = run.script
                 /\ run'.flow = run.flow /\ run'.start = run.start
                 /\ run'.accepted = run.accepted /\ run'.outcome = run.outcome
                 /\ \/ run'.queue = run.queue /\ (DeliverTransient \/ DeliverCutpoint)
                    \/ run'.queue = Tail(run.queue) /\ (DeliverReuses \/ DeliverSettles)
<1>1. Attempts /\ UNCHANGED journal /\ ran' = ran
  BY DEF DeliverReuses, DeliverTransient, DeliverCutpoint, DeliverSettles, history
<1>2. run.phase = "deliver"
  BY <1>1 DEF Attempts, Running
<1>3. CASE DeliverReuses \/ DeliverSettles
  <2>1. Delivered
    BY <1>3 DEF DeliverReuses, DeliverSettles
  <2> QED
    BY <1>1, <1>2, <1>3, <2>1, DeliveredIs
<1>4. CASE DeliverCutpoint
  BY <1>1, <1>2, <1>4, CutpointIs
<1>5. CASE DeliverTransient
  <2>1. run' = Retried \/ Ends("raised")
    BY <1>5 DEF DeliverTransient
  <2> QED
    BY <1>1, <1>2, <1>5, <2>1, RetriedIs
<1> QED
  BY <1>3, <1>4, <1>5

LEMMA EndRun ==
    ASSUME DeliveryExhausted \/ FinishRun \/ Restore
    PROVE  /\ run'.phase = "idle"
           /\ DeliveryExhausted => Ends("raised")
           /\ Restore => run'.outcome = "none"
BY Endings, NoRunIs DEF DeliveryExhausted, FinishRun, Restore

LEMMA StartedRun ==
    ASSUME NEW script, NEW revision, StartRun(script, revision)
    PROVE  /\ run'.phase = "accept" /\ run'.outcome = "none" /\ run'.script = script
           /\ run'.budget = revision.budget /\ run'.tries = 0
           /\ (run'.transient => script.transient)
           /\ UNCHANGED <<profile, journal, registered, effects, intents, cursor>>
           /\ ran' = ran \cup {revision.flow}
BY DEF StartRun, NoRun, tables

(* Away from the deliveries a step leaves no queue that could matter.        *)
LEMMA OutsideDelivery ==
    ASSUME Typed, [Next]_vars
    PROVE  \/ run'.phase # "deliver"
           \/ PlanDeliveries
           \/ DeliverReuses \/ DeliverTransient \/ DeliverCutpoint \/ DeliverSettles
           \/ UNCHANGED vars
<1>1. AcceptReuses \/ AcceptAppends \/ Register \/ CommandRejected => run'.phase # "deliver"
  BY IntakeRun, Endings
<1>2. DeliveryExhausted \/ FinishRun \/ Restore => run'.phase # "deliver"
  BY EndRun
<1>3. (\E script \in Scripts[profile], revision \in Revisions : StartRun(script, revision))
         => run'.phase # "deliver"
  BY StartedRun
<1> QED
  BY <1>1, <1>2, <1>3 DEF Next, Step

(***************************************************************************)
(* The rows of the journal.                                                *)
(***************************************************************************)
LEMMA OneRowAfterAppend ==
    ASSUME Typed, OneRowEach, AcceptAppends
    PROVE  OneRowEach'
<1>1. TypeOK /\ Live /\ run.phase = "accept"
  BY DEF Typed, AcceptAppends, Running
<1>2. /\ journal' = Append(journal, command) /\ ran' = ran /\ ~Reuses
  BY DEF AcceptAppends, history
<1>3. PICK c : c = command
  OBVIOUS
<1>4. /\ \A i \in DOMAIN journal : i \in DOMAIN journal' /\ journal'[i] = journal[i]
      /\ journal'[Len(journal) + 1] = c
      /\ \A i \in DOMAIN journal' : i \in DOMAIN journal \/ i = Len(journal) + 1
  BY <1>1, <1>2, <1>3, JournalGrows
<1> SUFFICES ASSUME "default" \notin ran
             PROVE  \A i, j \in DOMAIN journal' :
                       /\ journal'[i].pair = journal'[j].pair
                       /\ journal'[i].pair # IncidentPair
                       => i = j
  BY <1>2 DEF OneRowEach
<1>5. run.flow # "default"
  BY <1>1 DEF Live
<1>6. \A i \in DOMAIN journal : journal[i].pair # c.pair
  BY <1>2, <1>3, <1>5 DEF Reuses, Rows
<1>7. \A i, j \in DOMAIN journal :
         journal[i].pair = journal[j].pair /\ journal[i].pair # IncidentPair => i = j
  BY DEF OneRowEach
<1> QED
  BY <1>4, <1>6, <1>7

LEMMA OneRowKept ==
    ASSUME OneRowEach, UNCHANGED journal, ran \subseteq ran'
    PROVE  OneRowEach'
BY DEF OneRowEach

LEMMA RegisteredKept ==
    ASSUME RegisteredRows, registered' = registered, \A p : Rows(p) \subseteq Rows(p)'
    PROVE  RegisteredRows'
<1> SUFFICES ASSUME NEW r \in registered
             PROVE  r.event \in Rows(r.pair)'
  BY DEF RegisteredRows
<1>1. PICK p : p = r.pair
  OBVIOUS
<1>2. r.event \in Rows(p) /\ Rows(p) \subseteq Rows(p)'
  BY <1>1 DEF RegisteredRows
<1> QED
  BY <1>1, <1>2

LEMMA RegisteredAfterRegister ==
    ASSUME Typed, RegisteredRows, Register
    PROVE  RegisteredRows'
<1>1. /\ registered' = {r \in registered : r.pair # command.pair}
                        \cup {[pair |-> command.pair, event |-> run.pending]}
      /\ UNCHANGED journal /\ run.pending \in Rows(command.pair)
  BY RegisterIs
<1>2. \A p : Rows(p)' = Rows(p)
  BY <1>1, RowsSame
<1> SUFFICES ASSUME NEW r \in registered'
             PROVE  r.event \in Rows(r.pair)'
  BY DEF RegisteredRows
<1>3. r.event \in Rows(r.pair)
  BY <1>1 DEF RegisteredRows
<1>4. PICK p : p = r.pair
  OBVIOUS
<1> QED
  BY <1>2, <1>3, <1>4

(***************************************************************************)
(* The effects.                                                            *)
(***************************************************************************)
LEMMA EffectsRemain ==
    ASSUME Typed, effects' = effects \/ (Attempts /\ EffectInserted)
    PROVE  /\ \A e, k : HasEffect(e, k) => HasEffect(e, k)'
           /\ Attempts /\ EffectInserted =>
                 \A e, k : e = item.event /\ k = item.kind => HasEffect(e, k)'
<1>1. \A i \in DOMAIN effects : i \in DOMAIN effects' /\ effects'[i] = effects[i]
  BY EffectsGrow
<1>2. \A e, k : HasEffect(e, k) => HasEffect(e, k)'
  BY <1>1 DEF HasEffect
<1>3. ASSUME Attempts, EffectInserted, NEW e, NEW k, e = item.event, k = item.kind
      PROVE  HasEffect(e, k)'
  <2>1. PICK n : n = Len(effects) + 1
    OBVIOUS
  <2>2. n \in DOMAIN effects' /\ effects'[n].event = e /\ effects'[n].kind = k
    BY <1>3, <2>1, EffectsGrow
  <2> QED
    BY <2>2 DEF HasEffect
<1> QED
  BY <1>2, <1>3

(* What s5 returns without inserting is an effect of the event.              *)
LEMMA SettledAlready ==
    ASSUME Typed, CompletedHaveEffect, SettledFirst, Attempts, AlreadySettled
    PROVE  /\ HasEffect(item.event, "settlement")
           /\ run.flow = "intent_outbox" => HasEffect(item.event, item.kind)
<1>1. PICK e, k : e = item.event /\ k = item.kind
  OBVIOUS
<1>2. run.flow \in Flows
  BY DEF Typed
<1>3. HasEffect(e, k) => HasEffect(e, "settlement")
  BY DEF SettledFirst, HasEffect
<1>4. CASE run.flow = "broad_event_dedup"
  <2>1. EffectsOf({e}) # {}
    BY <1>1, <1>4 DEF AlreadySettled
  <2>2. PICK i \in DOMAIN effects : effects[i].event = e
    BY <2>1 DEF EffectsOf
  <2> QED
    BY <1>1, <1>4, <2>2 DEF SettledFirst
<1>5. CASE run.flow = "logical_identity"
  BY <1>1, <1>3, <1>5 DEF AlreadySettled
<1>6. CASE run.flow = "intent_outbox"
  <2>1. HasEffect(e, k) \/ Intent(e, k, "completed") \in intents
    BY <1>1, <1>6 DEF AlreadySettled
  <2>2. HasEffect(e, k)
    BY <2>1 DEF CompletedHaveEffect, Intent
  <2> QED
    BY <1>1, <1>3, <2>2
<1>7. run.flow # "default"
  BY DEF AlreadySettled
<1> QED
  BY <1>2, <1>4, <1>5, <1>6, <1>7 DEF Flows, Repairs

LEMMA SettledFirstKept ==
    ASSUME Typed, SettledFirst, effects' = effects
    PROVE  SettledFirst'
BY DEF SettledFirst, HasEffect

LEMMA SettledFirstAfterInsert ==
    ASSUME Typed, SettledFirst, Delivering, Attempts, EffectInserted
    PROVE  SettledFirst'
<1>1. PICK e, k : e = item.event /\ k = item.kind
  OBVIOUS
<1>2. HasEffect(e, k)' /\ \A f, l : HasEffect(f, l) => HasEffect(f, l)'
  BY <1>1, EffectsRemain
<1>3. HasEffect(e, "settlement")'
  <2>1. CASE k = "settlement"
    BY <1>2, <2>1
  <2>2. CASE k = "notify"
    <3>1. run.queue[1].kind = "notify" /\ run.queue[1].event = e /\ 1 \in 1..Len(run.queue)
      <4>1. item = run.queue[1] /\ Len(run.queue) \in Nat \ {0}
        BY QueueIs
      <4>2. PICK m \in Nat \ {0} : m = Len(run.queue)
        BY <4>1
      <4>3. 1 \in 1..m
        BY <4>2
      <4> QED
        BY <1>1, <2>2, <4>1, <4>2, <4>3
    <3>2. NotifiesLast
      BY QueueIs DEF Delivering
    <3>3. HasEffect(e, "settlement")
      BY <3>1, <3>2 DEF NotifiesLast
    <3> QED
      BY <1>2, <3>3
  <2> QED
    BY <1>1, <2>1, <2>2, QueueIs DEF EffectKinds
<1> SUFFICES ASSUME NEW i \in DOMAIN effects'
             PROVE  HasEffect(effects[i].event, "settlement")'
  BY DEF SettledFirst
<1>4. PICK f : f = effects'[i].event
  OBVIOUS
<1>5. HasEffect(f, "settlement")'
  <2>1. CASE i \in DOMAIN effects
    <3>1. f = effects[i].event
      BY <1>4, <2>1, EffectsGrow
    <3>2. HasEffect(f, "settlement")
      BY <2>1, <3>1 DEF SettledFirst
    <3> QED
      BY <1>2, <3>2
  <2>2. CASE i = Len(effects) + 1
    <3>1. f = e
      BY <1>1, <1>4, <2>2, EffectsGrow
    <3> QED
      BY <1>3, <3>1
  <2> QED
    BY <2>1, <2>2, EffectsGrow
<1> QED
  BY <1>4, <1>5

LEMMA CompletedKept ==
    ASSUME CompletedHaveEffect, \A e, k : HasEffect(e, k) => HasEffect(e, k)',
           \A n \in intents' : n.state = "completed" =>
              \/ n \in intents
              \/ \A e, k : e = n.event /\ k = n.kind => HasEffect(e, k)'
    PROVE  CompletedHaveEffect'
<1> SUFFICES ASSUME NEW n \in intents', n.state = "completed"
             PROVE  HasEffect(n.event, n.kind)'
  BY DEF CompletedHaveEffect
<1>1. PICK e, k : e = n.event /\ k = n.kind
  OBVIOUS
<1>2. n \in intents => HasEffect(e, k)
  BY <1>1 DEF CompletedHaveEffect
<1>3. HasEffect(e, k)'
  BY <1>1, <1>2
<1> QED
  BY <1>1, <1>3

(***************************************************************************)
(* The deliveries a run has promised.                                      *)
(***************************************************************************)
LEMMA OwedSame ==
    ASSUME UNCHANGED journal, run'.script = run.script, run'.accepted = run.accepted
    PROVE  \A e : e \in Owed' <=> e \in Owed
<1>1. \A p : Rows(p)' = Rows(p)
  BY RowsSame
<1> QED
  BY <1>1 DEF Owed, RowsOf

(* The queue as it is, or without its first delivery, whose event is settled. *)
LEMMA DeliveringKept ==
    ASSUME Typed, Delivering, run.phase = "deliver", UNCHANGED journal,
           run'.script = run.script, run'.accepted = run.accepted,
           \A e, k : HasEffect(e, k) => HasEffect(e, k)',
           \/ run'.queue = run.queue
           \/ /\ Attempts /\ run'.queue = Tail(run.queue)
              /\ \A e : e = item.event => HasEffect(e, "settlement")'
    PROVE  Delivering'
<1>1. PICK q : q = run.queue
  OBVIOUS
<1>2. \A i \in 1..Len(q) : q[i].kind = "notify" =>
         \/ HasEffect(q[i].event, "settlement")
         \/ \E j \in 1..(i - 1) : q[j].event = q[i].event /\ q[j].kind = "settlement"
  BY <1>1 DEF Delivering, NotifiesLast
<1>3. \A e \in Owed :
         \/ HasEffect(e, "settlement")
         \/ \E i \in 1..Len(q) : q[i].event = e /\ q[i].kind = "settlement"
  BY <1>1 DEF Delivering
<1>4. \A e : e \in Owed' <=> e \in Owed
  BY OwedSame
<1>5. \A e : HasEffect(e, "settlement") => HasEffect(e, "settlement")'
  OBVIOUS
<1>6. CASE run'.queue = run.queue
  <2>1. \A e \in Owed' :
           \/ HasEffect(e, "settlement")'
           \/ \E i \in 1..Len(q) : q[i].event = e /\ q[i].kind = "settlement"
    BY <1>3, <1>4, <1>5
  <2>2. ASSUME NEW i \in 1..Len(q), q[i].kind = "notify"
        PROVE  \/ \A e : e = q[i].event => HasEffect(e, "settlement")'
               \/ \E j \in 1..(i - 1) : q[j].event = q[i].event /\ q[j].kind = "settlement"
    BY <1>2, <1>5, <2>2
  <2>3. NotifiesLast'
    <3> SUFFICES ASSUME NEW i \in 1..Len(q), q[i].kind = "notify"
                 PROVE  \/ HasEffect(run.queue[i].event, "settlement")'
                        \/ \E j \in 1..(i - 1) : q[j].event = q[i].event
                                                 /\ q[j].kind = "settlement"
      BY <1>1, <1>6 DEF NotifiesLast
    <3>1. PICK e : e = q[i].event /\ e = run'.queue[i].event
      BY <1>1, <1>6
    <3> QED
      BY <2>2, <3>1
  <2> QED
    BY <1>1, <1>6, <2>1, <2>3 DEF Delivering
<1>7. CASE /\ Attempts /\ run'.queue = Tail(run.queue)
           /\ \A e : e = item.event => HasEffect(e, "settlement")'
  <2>1. PICK n \in Nat \ {0} : n = Len(q)
    BY <1>1, <1>7, QueueIs
  <2>2. PICK t : t = run'.queue
    OBVIOUS
  <2>3. Len(t) = n - 1 /\ \A i \in 1..(n - 1) : t[i] = q[i + 1]
    BY <1>1, <1>7, <2>1, <2>2, QueueIs
  <2>4. \A e : e = q[1].event => HasEffect(e, "settlement")'
    BY <1>1, <1>7, QueueIs
  <2>5. ASSUME NEW e, NEW i \in 1..n, q[i].event = e, q[i].kind = "settlement"
        PROVE  \/ HasEffect(e, "settlement")'
               \/ i - 1 \in 1..(n - 1) /\ t[i - 1].event = e /\ t[i - 1].kind = "settlement"
    <3>1. CASE i = 1
      BY <2>4, <2>5, <3>1
    <3>2. CASE i # 1
      <4>1. i - 1 \in 1..(n - 1) /\ (i - 1) + 1 = i
        BY <3>2
      <4> QED
        BY <2>3, <2>5, <4>1
    <3> QED
      BY <3>1, <3>2
  <2>6. \A e \in Owed' :
           \/ HasEffect(e, "settlement")'
           \/ \E i \in 1..(n - 1) : t[i].event = e /\ t[i].kind = "settlement"
    BY <1>3, <1>4, <1>5, <2>1, <2>5
  <2>7. ASSUME NEW i \in 1..(n - 1), t[i].kind = "notify", NEW e, e = t[i].event
        PROVE  \/ HasEffect(e, "settlement")'
               \/ \E j \in 1..(i - 1) : t[j].event = e /\ t[j].kind = "settlement"
    <3>1. t[i] = q[i + 1] /\ i + 1 \in 1..n /\ (i + 1) - 1 = i
      BY <2>3
    <3>2. \/ HasEffect(e, "settlement")
          \/ \E j \in 1..i : q[j].event = e /\ q[j].kind = "settlement"
      BY <1>2, <2>1, <2>7, <3>1
    <3>3. ASSUME NEW j \in 1..i, q[j].event = e, q[j].kind = "settlement"
          PROVE  \/ HasEffect(e, "settlement")'
                 \/ \E l \in 1..(i - 1) : t[l].event = e /\ t[l].kind = "settlement"
      <4>1. CASE j = 1
        BY <2>4, <3>3, <4>1
      <4>2. CASE j # 1
        <5>1. j - 1 \in 1..(i - 1) /\ j - 1 \in 1..(n - 1) /\ (j - 1) + 1 = j
          BY <4>2
        <5>2. t[j - 1] = q[j]
          BY <2>3, <5>1
        <5> QED
          BY <3>3, <5>1, <5>2
      <4> QED
        BY <4>1, <4>2
    <3> QED
      BY <1>5, <3>2, <3>3
  <2>8. NotifiesLast'
    <3> SUFFICES ASSUME NEW i \in 1..(n - 1), t[i].kind = "notify"
                 PROVE  \/ HasEffect(run.queue[i].event, "settlement")'
                        \/ \E j \in 1..(i - 1) : t[j].event = t[i].event
                                                 /\ t[j].kind = "settlement"
      BY <2>2, <2>3 DEF NotifiesLast
    <3>1. PICK e : e = t[i].event /\ e = run'.queue[i].event
      BY <2>2
    <3> QED
      BY <2>7, <3>1
  <2> QED
    BY <2>2, <2>3, <2>6, <2>8 DEF Delivering
<1> QED
  BY <1>6, <1>7

(***************************************************************************)
(* The steps.                                                              *)
(***************************************************************************)
Kept1 == OneRowEach /\ RegisteredRows /\ CompletedHaveEffect /\ SettledFirst

LEMMA KeptIs == Kept <=> Kept1 /\ Delivering /\ Undecided
BY DEF Kept, Kept1

LEMMA KeptNext == Kept1' /\ Delivering' /\ Undecided' => Kept'
BY DEF Kept, Kept1

LEMMA NotDelivering ==
    ASSUME run'.phase # "deliver", run'.phase = "idle" \/ run'.outcome = "none"
    PROVE  Delivering' /\ Undecided'
BY DEF Delivering, Undecided

LEMMA InitKept == Init => Kept
<1> SUFFICES ASSUME Init
             PROVE  Kept
  OBVIOUS
<1>1. PICK n : n = Len(journal)
  OBVIOUS
<1>2. /\ n \in {1, 2} /\ DOMAIN journal = 1..n
      /\ \A i \in 1..n : journal[i] = IncidentRow
      /\ effects = <<[event |-> 1, kind |-> "settlement"],
                     [event |-> n, kind |-> "settlement"]>>
      /\ registered = {[pair |-> IncidentPair, event |-> n]}
      /\ intents = {} /\ run = NoRun /\ ran = {}
  <2>1. PICK e : e = IncidentRow
    OBVIOUS
  <2>2. journal = <<e>> \/ journal = <<e, e>>
    BY <2>1 DEF Init
  <2>3. n \in {1, 2} /\ DOMAIN journal = 1..n /\ \A i \in 1..n : journal[i] = e
    BY <1>1, <2>2
  <2> QED
    BY <1>1, <2>1, <2>3 DEF Init
<1>3. IncidentRow.pair = IncidentPair
  BY DEF IncidentRow
<1>4. OneRowEach
  BY <1>2, <1>3 DEF OneRowEach
<1>5. RegisteredRows
  BY <1>2, <1>3 DEF RegisteredRows, Rows
<1>6. CompletedHaveEffect
  BY <1>2 DEF CompletedHaveEffect
<1>7. SettledFirst
  <2>1. PICK a, b : /\ a = [event |-> 1, kind |-> "settlement"]
                    /\ b = [event |-> n, kind |-> "settlement"]
    OBVIOUS
  <2>2. effects = <<a, b>> /\ DOMAIN effects = {1, 2}
    BY <1>2, <2>1
  <2>3. a.kind = "settlement" /\ b.kind = "settlement"
    BY <2>1
  <2>4. \A i \in DOMAIN effects : effects[i].kind = "settlement"
    BY <2>2, <2>3
  <2> QED
    BY <2>4 DEF SettledFirst, HasEffect
<1>8. Delivering /\ Undecided
  BY <1>2, NoRunIs DEF Delivering, Undecided
<1> QED
  BY <1>4, <1>5, <1>6, <1>7, <1>8, KeptIs DEF Kept1

LEMMA Kept1Quiet ==
    ASSUME Kept1, UNCHANGED <<journal, registered, effects, intents>>, ran \subseteq ran'
    PROVE  Kept1'
<1>1. \A p : Rows(p) \subseteq Rows(p)'
  BY RowsSame
<1>2. OneRowEach' /\ RegisteredRows'
  BY <1>1, OneRowKept, RegisteredKept DEF Kept1
<1>3. CompletedHaveEffect' /\ SettledFirst'
  BY DEF Kept1, CompletedHaveEffect, SettledFirst, HasEffect
<1> QED
  BY <1>2, <1>3 DEF Kept1

LEMMA KeptIntake ==
    ASSUME Typed, Kept, AcceptReuses \/ AcceptAppends \/ Register \/ CommandRejected
    PROVE  Kept'
<1>1. Typed' /\ Kept1 /\ run.phase \in {"accept", "register"} /\ run.outcome = "none"
  BY TypedAfterReuse, TypedAfterAppend, TypedAfterRegister, TypedAfterRejection
  DEF Kept, Kept1, Undecided, AcceptReuses, AcceptAppends, Register, CommandRejected, Running
<1>2. DOMAIN run = RunFields
  BY DEF Typed
<1>3. CASE AcceptReuses
  <2>1. UNCHANGED <<journal, registered, effects, intents>> /\ ran' = ran
        /\ run' = [run EXCEPT !.phase = "register", !.pending = EventOf(command.pair)]
    BY <1>3 DEF AcceptReuses, tables, history
  <2>2. run'.phase = "register" /\ run'.outcome = "none"
    BY <1>1, <1>2, <2>1 DEF RunFields
  <2> QED
    BY <1>1, <2>1, <2>2, Kept1Quiet, NotDelivering, KeptNext
<1>4. CASE AcceptAppends
  <2>1. /\ journal' = Append(journal, command) /\ UNCHANGED <<registered, effects, intents>>
        /\ run' = IF run.s2cut
                  THEN [run EXCEPT !.s2cut = FALSE, !.cutEvent = Len(journal) + 1]
                  ELSE [run EXCEPT !.phase = "register", !.pending = Len(journal) + 1]
    BY <1>4 DEF AcceptAppends
  <2>2. run'.phase # "deliver" /\ run'.outcome = "none"
    <3>1. CASE run.s2cut
      BY <1>1, <1>2, <2>1, <3>1 DEF RunFields
    <3>2. CASE ~run.s2cut
      BY <1>1, <1>2, <2>1, <3>2 DEF RunFields
    <3> QED
      BY <3>1, <3>2
  <2>3. OneRowEach'
    BY <1>1, <1>4, OneRowAfterAppend DEF Kept1
  <2>4. RegisteredRows'
    BY <1>1, <2>1, RowsGrow, RegisteredKept DEF Kept1, Typed
  <2>5. CompletedHaveEffect' /\ SettledFirst'
    BY <1>1, <2>1 DEF Kept1, CompletedHaveEffect, SettledFirst, HasEffect
  <2> QED
    BY <2>2, <2>3, <2>4, <2>5, NotDelivering, KeptNext DEF Kept1
<1>5. CASE Register
  <2>1. UNCHANGED <<journal, effects, intents, ran>> /\ run'.outcome = "none"
        /\ run'.phase \in {"plan", "accept"}
    BY <1>1, <1>5, RegisterIs
  <2>2. OneRowEach' /\ RegisteredRows'
    BY <1>1, <1>5, <2>1, OneRowKept, RegisteredAfterRegister DEF Kept1
  <2>3. CompletedHaveEffect' /\ SettledFirst'
    BY <1>1, <2>1 DEF Kept1, CompletedHaveEffect, SettledFirst, HasEffect
  <2> QED
    BY <2>1, <2>2, <2>3, NotDelivering, KeptNext DEF Kept1
<1>6. CASE CommandRejected
  <2>1. UNCHANGED <<journal, registered, effects, intents>> /\ ran' = ran
        /\ (run' = NextCommand(run) \/ Ends("raised"))
    BY <1>6 DEF CommandRejected, tables, history
  <2>2. CASE run' = NextCommand(run)
    <3>1. run'.phase \in {"plan", "accept"} /\ run'.outcome = "none"
      BY <1>1, <1>2, <2>2, NextCommandIs
    <3> QED
      BY <1>1, <2>1, <3>1, Kept1Quiet, NotDelivering, KeptNext
  <2>3. CASE Ends("raised")
    <3>1. run'.phase = "idle"
      BY <2>3, Endings
    <3> QED
      BY <1>1, <2>1, <3>1, Kept1Quiet, NotDelivering, KeptNext
  <2> QED
    BY <2>1, <2>2, <2>3
<1> QED
  BY <1>3, <1>4, <1>5, <1>6

LEMMA KeptPlan ==
    ASSUME Typed, Kept, PlanDeliveries
    PROVE  Kept'
<1>1. /\ UNCHANGED <<journal, registered, effects, intents, ran>>
      /\ run'.phase = "deliver" /\ run'.outcome = run.outcome /\ run.phase = "plan"
      /\ run'.script = run.script /\ run'.accepted = run.accepted
      /\ \A e \in Owed : \E i \in 1..Len(run'.queue) :
            run'.queue[i].event = e /\ run'.queue[i].kind = "settlement"
      /\ \A i \in 1..Len(run'.queue) : run'.queue[i].kind = "notify" =>
            \E j \in 1..(i - 1) : /\ run'.queue[j].event = run'.queue[i].event
                                  /\ run'.queue[j].kind = "settlement"
  BY PlanIs
<1>2. Kept1'
  BY <1>1, Kept1Quiet DEF Kept, Kept1
<1>3. \A e : e \in Owed' <=> e \in Owed
  BY <1>1, OwedSame
<1>4. NotifiesLast'
  BY <1>1 DEF NotifiesLast
<1>5. Delivering'
  BY <1>1, <1>3, <1>4 DEF Delivering
<1>6. Undecided'
  BY <1>1 DEF Kept, Undecided
<1> QED
  BY <1>2, <1>5, <1>6, KeptNext

LEMMA KeptDelivery ==
    ASSUME Typed, Kept, DeliverReuses \/ DeliverTransient \/ DeliverCutpoint \/ DeliverSettles
    PROVE  Kept'
<1>1. /\ Attempts /\ UNCHANGED <<journal, registered>> /\ ran' = ran
      /\ run.phase = "deliver" /\ run.outcome = "none"
      /\ effects' = effects \/ EffectInserted
  <2>1. /\ Attempts /\ UNCHANGED <<journal, registered>> /\ ran' = ran
        /\ effects' = effects \/ EffectInserted
    BY DEF DeliverReuses, DeliverTransient, DeliverCutpoint, DeliverSettles, history
  <2>2. run.phase = "deliver"
    BY <2>1 DEF Attempts, Running
  <2> QED
    BY <2>1, <2>2 DEF Kept, Undecided
<1>2. \A e, k : HasEffect(e, k) => HasEffect(e, k)'
  BY <1>1, EffectsRemain
<1>3. OneRowEach' /\ RegisteredRows'
  <2>1. \A p : Rows(p) \subseteq Rows(p)'
    BY <1>1, RowsSame
  <2> QED
    BY <1>1, <2>1, OneRowKept, RegisteredKept DEF Kept
<1>4. SettledFirst'
  BY <1>1, SettledFirstKept, SettledFirstAfterInsert DEF Kept
<1>5. /\ run'.outcome = "none" \/ run'.phase = "idle"
      /\ run'.phase = "idle" \/
            (/\ run'.phase = "deliver" /\ run'.script = run.script
             /\ run'.accepted = run.accepted
             /\ \/ run'.queue = run.queue
                \/ run'.queue = Tail(run.queue) /\ (DeliverReuses \/ DeliverSettles))
  <2>1. CASE DeliverReuses \/ DeliverSettles
    <3>1. Delivered
      BY <2>1 DEF DeliverReuses, DeliverSettles
    <3> QED
      BY <1>1, <2>1, <3>1, DeliveredIs
  <2>2. CASE DeliverCutpoint
    BY <1>1, <2>2, CutpointIs
  <2>3. CASE DeliverTransient
    <3>1. run' = Retried \/ Ends("raised")
      BY <2>3 DEF DeliverTransient
    <3> QED
      BY <1>1, <3>1, RetriedIs, Endings
  <2> QED
    BY <2>1, <2>2, <2>3
<1>6. ASSUME DeliverReuses \/ DeliverSettles
      PROVE  \A e : e = item.event => HasEffect(e, "settlement")'
  <2> SUFFICES ASSUME NEW e, e = item.event
               PROVE  HasEffect(e, "settlement")'
    OBVIOUS
  <2>1. CASE DeliverReuses
    <3>1. HasEffect(e, "settlement")
      BY <2>1, SettledAlready DEF Kept, DeliverReuses
    <3> QED
      BY <1>2, <3>1
  <2>2. CASE DeliverSettles
    <3>1. PICK k : k = item.kind
      OBVIOUS
    <3>2. HasEffect(e, k)'
      BY <1>1, <2>2, <3>1, EffectsRemain DEF DeliverSettles
    <3>3. PICK i \in DOMAIN effects' : effects'[i].event = e
      BY <3>2 DEF HasEffect
    <3>4. \A j \in DOMAIN effects' : HasEffect(effects[j].event, "settlement")'
      BY <1>4 DEF SettledFirst
    <3> QED
      BY <3>3, <3>4 DEF HasEffect
  <2> QED
    BY <1>6, <2>1, <2>2
<1>7. CompletedHaveEffect'
  <2>1. CASE DeliverReuses
    <3>1. /\ intents' = IntentsCompleted(intents) /\ AlreadySettled
      BY <2>1 DEF DeliverReuses
    <3>2. ASSUME NEW n \in intents', n.state = "completed", n \notin intents,
                 NEW e, NEW k, e = n.event, k = n.kind
          PROVE  HasEffect(e, k)'
      <4>1. run.flow = "intent_outbox"
        BY <3>1, <3>2 DEF IntentsCompleted
      <4>2. n.event = item.event /\ n.kind = item.kind
        BY <1>1, <3>1, <3>2, IntentsTyped
      <4>3. HasEffect(e, k)
        BY <1>1, <3>1, <3>2, <4>1, <4>2, SettledAlready DEF Kept
      <4> QED
        BY <1>2, <4>3
    <3> QED
      BY <1>2, <3>2, CompletedKept DEF Kept
  <2>2. CASE DeliverSettles
    <3>1. intents' = IntentsCompleted(IntentsOpened) /\ EffectInserted
      BY <2>2 DEF DeliverSettles
    <3>2. ASSUME NEW n \in intents', n.state = "completed", n \notin intents,
                 NEW e, NEW k, e = n.event, k = n.kind
          PROVE  HasEffect(e, k)'
      <4>1. IntentsOpened \in SUBSET IntentKinds /\ n \notin IntentsOpened
        BY <1>1, <3>2, IntentsTyped
      <4>2. n.event = item.event /\ n.kind = item.kind
        BY <1>1, <3>1, <3>2, <4>1, IntentsTyped
      <4> QED
        BY <1>1, <3>1, <3>2, <4>2, EffectsRemain
    <3> QED
      BY <1>2, <3>2, CompletedKept DEF Kept
  <2>3. CASE DeliverTransient \/ DeliverCutpoint
    <3>1. intents' = IntentsOpened
      BY <2>3 DEF DeliverTransient, DeliverCutpoint
    <3>2. \A n \in intents' : n.state = "completed" => n \in intents
      BY <1>1, <3>1, IntentsTyped
    <3> QED
      BY <1>2, <3>2, CompletedKept DEF Kept
  <2> QED
    BY <2>1, <2>2, <2>3
<1>8. Delivering'
  <2>1. CASE run'.phase = "idle"
    BY <2>1 DEF Delivering
  <2>2. CASE run'.phase # "idle"
    BY <1>1, <1>2, <1>5, <1>6, <2>2, DeliveringKept DEF Kept
  <2> QED
    BY <2>1, <2>2
<1>9. Undecided'
  BY <1>5 DEF Undecided
<1> QED
  BY <1>3, <1>4, <1>7, <1>8, <1>9, KeptNext DEF Kept1

LEMMA KeptBetween ==
    ASSUME Typed, Kept,
           \/ DeliveryExhausted \/ FinishRun \/ Restore \/ UNCHANGED vars
           \/ \E script \in Scripts[profile], revision \in Revisions :
                 StartRun(script, revision)
    PROVE  Kept'
<1>0. Kept1
  BY DEF Kept, Kept1
<1>1. CASE DeliveryExhausted \/ FinishRun
  <2>1. UNCHANGED <<journal, registered, effects, intents>> /\ ran' = ran /\ run'.phase = "idle"
    BY <1>1, Endings DEF DeliveryExhausted, FinishRun, tables, history
  <2>2. Kept1'
    BY <1>0, <2>1, Kept1Quiet
  <2> QED
    BY <2>1, <2>2, NotDelivering, KeptNext
<1>2. CASE Restore
  <2>1. /\ journal' = <<>> /\ registered' = {} /\ effects' = <<>> /\ intents' = {}
        /\ run'.phase = "idle"
    BY <1>2, NoRunIs DEF Restore
  <2> QED
    <3>1. Kept1'
      BY <2>1 DEF Kept1, OneRowEach, RegisteredRows, CompletedHaveEffect, SettledFirst
    <3> QED
      BY <2>1, <3>1, NotDelivering, KeptNext
<1>3. CASE UNCHANGED vars
  BY <1>3 DEF vars, tables, history, Kept, OneRowEach, RegisteredRows, CompletedHaveEffect,
              SettledFirst, Delivering, NotifiesLast, Owed, RowsOf, Undecided, HasEffect, Rows
<1>4. ASSUME NEW script \in Scripts[profile], NEW revision \in Revisions,
             StartRun(script, revision)
      PROVE  Kept'
  <2>1. UNCHANGED <<journal, registered, effects, intents>> /\ ran \subseteq ran'
    BY <1>4 DEF StartRun, tables
  <2>2. run'.phase = "accept" /\ run'.outcome = "none"
    BY <1>4 DEF StartRun, NoRun
  <2> QED
    BY <1>0, <2>1, <2>2, Kept1Quiet, NotDelivering, KeptNext
<1> QED
  BY <1>1, <1>2, <1>3, <1>4

LEMMA KeptStep == Typed /\ Kept /\ [Next]_vars => Kept'
BY KeptIntake, KeptPlan, KeptDelivery, KeptBetween DEF Next, Step

LEMMA AlwaysKept == Spec => [](Typed /\ Kept)
<1>1. Init => Typed /\ Kept
  BY InitTyped, InitKept
<1>2. Typed /\ Kept /\ [Next]_vars => (Typed /\ Kept)'
  BY TypedStep, KeptStep
<1> QED
  BY <1>1, <1>2, PTL DEF Spec

(***************************************************************************)
(* The verdict.                                                            *)
(***************************************************************************)
(* As many rows as occurrences: each occurrence has one, and it is owed its  *)
(* settlement.                                                               *)
LEMMA ExactRows ==
    ASSUME Typed, run.phase = "deliver", run.script.judge \in {"counts", "durable"},
           Cardinality(RowsOf(run.script)) = Cardinality(Pairs(run.script))
    PROVE  /\ \A i, j \in RowsOf(run.script) : journal[i].pair = journal[j].pair => i = j
           /\ \A p \in Pairs(run.script) : Rows(p) # {}
           /\ RowsOf(run.script) \subseteq Owed
<1>1. TypeOK
  BY DEF Typed
<1>2. PICK s \in AllScripts : s = run.script
  BY Accepted
<1>3. ScriptShape(s) /\ Count = Len(s.commands)
  BY <1>2, CommandsOf DEF Count
<1>4. PICK rows : rows = RowsOf(s)
  OBVIOUS
<1>5. IsFiniteSet(rows) /\ rows \subseteq DOMAIN journal
  BY <1>1, <1>4, RowsOfAre
<1>6. \A p \in Pairs(s) : Rows(p) # {} /\ Rows(p) \subseteq rows
  <2> TAKE p \in Pairs(s)
  <2>1. PICK i \in 1..Len(s.commands) : s.commands[i].pair = p
    BY CommandsOf
  <2>2. Rows(p) # {}
    BY <1>2, <1>3, <2>1, Accepted
  <2> QED
    BY <1>4, <2>2 DEF RowsOf
<1>7. \A i \in rows : journal[i].pair \in Pairs(s)
  BY <1>4 DEF RowsOf, Rows
<1>8. \A i, j \in rows : journal[i].pair = journal[j].pair => i = j
  <2> DEFINE pairOf == [i \in rows |-> journal[i].pair]
  <2>1. pairOf \in Surjection(rows, Pairs(s))
    <3>1. pairOf \in [rows -> Pairs(s)]
      BY <1>7
    <3>2. \A p \in Pairs(s) : \E i \in rows : pairOf[i] = p
      BY <1>6 DEF Rows
    <3> QED
      BY <3>1, <3>2 DEF Surjection
  <2>2. Cardinality(rows) = Cardinality(Pairs(s))
    BY <1>2, <1>4
  <2>3. pairOf \in Injection(rows, Pairs(s))
    BY <1>5, <2>1, <2>2, FS_SurjSameCardinalityImpliesInj
  <2> QED
    BY <2>3 DEF Injection, IsInjective
<1>9. rows \subseteq Owed
  <2>1. CASE s.deliver = "rows"
    BY <1>2, <1>4, <2>1 DEF Owed
  <2>2. CASE s.deliver = "accepted" /\ ~s.tolerant
    <3> SUFFICES ASSUME NEW r \in rows
                 PROVE  r \in Owed
      OBVIOUS
    <3>1. PICK p \in Pairs(s) : r \in Rows(p)
      BY <1>4 DEF RowsOf
    <3>2. PICK i \in 1..Len(s.commands) : s.commands[i].pair = p
      BY CommandsOf
    <3>3. Len(run.accepted) = Len(s.commands) /\ run.accepted[i] \in Rows(p)
      BY <1>2, <1>3, <2>2, <3>2, Accepted
    <3>4. run.accepted[i] = r
      BY <1>6, <1>8, <3>1, <3>3 DEF Rows
    <3>5. Owed = {run.accepted[j] : j \in 1..Len(run.accepted)}
      BY <1>2, <2>2 DEF Owed
    <3> QED
      BY <3>3, <3>4, <3>5
  <2>3. CASE s.deliver = "twice" /\ Cardinality(Pairs(s)) = 1
    <3>1. ~s.tolerant
      BY <1>3, <2>3 DEF ScriptShape
    <3>2. 1 \in 1..Len(s.commands)
      BY CommandsOf
    <3>3. run.accepted[1] \in Rows(s.commands[1].pair)
      BY <1>2, <1>3, <3>1, <3>2, Accepted
    <3>4. run.accepted[1] \in rows
      BY <1>6, <3>2, <3>3, CommandsOf
    <3>5. Cardinality(rows) = 1
      BY <1>2, <1>4, <2>3
    <3>6. PICK r : rows = {r}
      BY <1>5, <3>5, FS_Singleton
    <3>7. Owed = {run.accepted[1]}
      BY <1>2, <2>3 DEF Owed
    <3> QED
      BY <3>4, <3>6, <3>7
  <2> QED
    BY <1>2, <1>3, <2>1, <2>2, <2>3 DEF ScriptShape
<1> QED
  BY <1>2, <1>4, <1>6, <1>8, <1>9

LEMMA PassIsExact ==
    ASSUME Typed, Kept, run.phase = "deliver", run.queue = <<>>,
           run.script.judge \in {"counts", "durable"}, Passed
    PROVE  \A p \in Pairs(run.script) : Settled[p]["settlement"] = 1
<1>1. TypeOK
  BY DEF Typed
<1>2. PICK s \in AllScripts : s = run.script
  BY Accepted
<1>3. PICK rows : rows = RowsOf(s)
  OBVIOUS
<1>4. Cardinality(rows) = Cardinality(Pairs(s))
      /\ Cardinality(EffectsOf(rows)) = Cardinality(Pairs(s))
  <2>1. Counted(RowsOf(s), Cardinality(Pairs(s)))
    BY <1>2 DEF Passed
  <2> QED
    BY <1>3, <2>1 DEF Counted
<1>5. /\ \A i, j \in rows : journal[i].pair = journal[j].pair => i = j
      /\ \A p \in Pairs(s) : Rows(p) # {} /\ Rows(p) \subseteq rows
      /\ rows \subseteq Owed
  BY <1>2, <1>3, <1>4, ExactRows DEF RowsOf
<1>6. \A r \in rows : HasEffect(r, "settlement")
  <2>1. Len(run.queue) = 0
    OBVIOUS
  <2> QED
    BY <1>5, <2>1 DEF Kept, Delivering
<1>7. PICK own : own = EffectsOf(rows)
  OBVIOUS
<1>8. /\ own = {i \in DOMAIN effects : effects[i].event \in rows}
      /\ IsFiniteSet(own)
  <2>1. own = {i \in DOMAIN effects : effects[i].event \in rows}
    BY <1>7 DEF EffectsOf
  <2>2. DOMAIN effects = 1..Len(effects) /\ Len(effects) \in Nat
    <3>1. PICK T : T = [event : DOMAIN journal, kind : EffectKinds]
      OBVIOUS
    <3>2. effects \in Seq(T)
      BY <1>1, <3>1 DEF TypeOK
    <3> QED
      BY <3>2, ElementOfSeq
  <2>3. IsFiniteSet(DOMAIN effects)
    BY <2>2, FS_Interval
  <2> QED
    BY <2>1, <2>3, FS_Subset
<1>9. \A i, j \in own : effects[i].event = effects[j].event => i = j
  <2> DEFINE eventOf == [i \in own |-> effects[i].event]
  <2>1. eventOf \in Surjection(own, rows)
    <3>1. eventOf \in [own -> rows]
      BY <1>8
    <3>2. \A r \in rows : \E i \in own : eventOf[i] = r
      BY <1>6, <1>8 DEF HasEffect
    <3> QED
      BY <3>1, <3>2 DEF Surjection
  <2>2. Cardinality(own) = Cardinality(rows)
    BY <1>4, <1>7
  <2>3. eventOf \in Injection(own, rows)
    BY <1>8, <2>1, <2>2, FS_SurjSameCardinalityImpliesInj
  <2> QED
    BY <2>3 DEF Injection, IsInjective
<1> SUFFICES ASSUME NEW p \in Pairs(s)
             PROVE  Settled[p]["settlement"] = 1
  BY <1>2
<1>10. PICK r \in Rows(p) : r \in rows
  BY <1>5
<1>11. PICK i \in DOMAIN effects : effects[i].event = r /\ effects[i].kind = "settlement"
  BY <1>6, <1>10 DEF HasEffect
<1>12. r \in DOMAIN journal /\ journal[r].pair = p
  BY <1>10 DEF Rows
<1> DEFINE those == {j \in DOMAIN effects : /\ effects[j].kind = "settlement"
                                            /\ journal[effects[j].event].pair = p}
<1>13. those = {i}
  <2>1. i \in those
    BY <1>11, <1>12
  <2>2. ASSUME NEW j \in those
        PROVE  j = i
    <3>1. effects[j].event \in DOMAIN journal
      <4>1. PICK T : T = [event : DOMAIN journal, kind : EffectKinds]
        OBVIOUS
      <4>2. effects \in Seq(T)
        BY <1>1, <4>1 DEF TypeOK
      <4>3. effects[j] \in T
        BY <4>2, ElementOfSeq
      <4> QED
        BY <4>1, <4>3
    <3>2. effects[j].event \in Rows(p)
      BY <3>1 DEF Rows
    <3>3. effects[j].event \in rows
      BY <1>5, <3>2
    <3>4. effects[j].event = r
      BY <1>5, <1>10, <1>12, <3>2, <3>3 DEF Rows
    <3>5. j \in own /\ i \in own
      BY <1>8, <1>10, <1>11, <3>3
    <3> QED
      BY <1>9, <1>11, <3>4, <3>5
  <2> QED
    BY <2>1, <2>2
<1>14. Cardinality(those) = 1
  BY <1>13, FS_Singleton
<1>15. p \in Occurrences /\ "settlement" \in EffectKinds
  BY CommandsOf DEF EffectKinds
<1>16. Settled[p]["settlement"] = Cardinality(those)
  BY <1>15 DEF Settled
<1> QED
  BY <1>14, <1>16

(* Only the end of a run gives a verdict, and few steps raise.               *)
LEMMA VerdictStep ==
    ASSUME Typed, Kept, [Next]_vars
    PROVE  \/ FinishRun
           \/ run'.outcome = "none"
           \/ /\ Ends("raised")
              /\ \/ CommandRejected /\ ~run.script.tolerant
                 \/ DeliverTransient
                 \/ DeliveryExhausted
           \/ UNCHANGED vars
<1>1. run.phase # "idle" => run.outcome = "none"
  BY DEF Kept, Undecided
<1>2. CASE AcceptReuses \/ AcceptAppends \/ Register \/ CommandRejected
  BY <1>1, <1>2, IntakeRun
<1>3. CASE PlanDeliveries
  BY <1>1, <1>3, PlanIs, PlanRun
<1>4. CASE DeliverReuses \/ DeliverTransient \/ DeliverCutpoint \/ DeliverSettles
  BY <1>1, <1>4, DeliveryRun
<1>5. CASE DeliveryExhausted \/ Restore
  BY <1>5, EndRun
<1>6. ASSUME NEW script \in Scripts[profile], NEW revision \in Revisions,
             StartRun(script, revision)
      PROVE  run'.outcome = "none"
  BY <1>6, StartedRun
<1> QED
  BY <1>2, <1>3, <1>4, <1>5, <1>6 DEF Next, Step

LEMMA PassStep ==
    ASSUME Typed, Kept, PassSettlesEach, [Next]_vars
    PROVE  PassSettlesEach'
<1>1. CASE run'.outcome # "pass"
  BY <1>1 DEF PassSettlesEach
<1>2. CASE UNCHANGED <<journal, effects, run>>
  <2>1. Settled' = Settled /\ run' = run
    BY <1>2 DEF Settled
  <2> QED
    BY <2>1 DEF PassSettlesEach
<1>3. CASE FinishRun
  <2>1. /\ run.phase = "deliver" /\ run.queue = <<>> /\ Ends(Outcome)
        /\ UNCHANGED <<journal, effects>>
    BY <1>3 DEF FinishRun, Running, tables
  <2>2. run'.outcome = Outcome /\ run'.script = run.script
    BY <2>1, Endings
  <2>3. CASE Outcome = "pass" /\ run.script.judge \in {"counts", "durable"}
    <3>1. Passed
      BY <2>3 DEF Outcome
    <3>2. \A p \in Pairs(run.script) : Settled[p]["settlement"] = 1
      BY <2>1, <2>3, <3>1, PassIsExact
    <3>3. Settled' = Settled
      BY <2>1 DEF Settled
    <3> QED
      BY <2>2, <3>2, <3>3 DEF PassSettlesEach
  <2>4. CASE ~(Outcome = "pass" /\ run.script.judge \in {"counts", "durable"})
    BY <2>2, <2>4 DEF PassSettlesEach
  <2> QED
    BY <2>3, <2>4
<1>4. CASE UNCHANGED vars
  BY <1>2, <1>4 DEF vars, tables
<1> QED
  BY <1>1, <1>3, <1>4, VerdictStep, Endings

(* A script that passes by totals leaves each of its occurrences with        *)
(* exactly one settlement, whichever flows ran before: the verdict of the    *)
(* verifier, which only counts, cannot be passed by one occurrence settled   *)
(* twice and another not at all.                                             *)
THEOREM PassesAreExact == Spec => []PassSettlesEach
<1>1. Init => PassSettlesEach
  BY NoRunIs DEF Init, PassSettlesEach
<1>2. Typed /\ Kept /\ PassSettlesEach /\ [Next]_vars => PassSettlesEach'
  BY PassStep
<1> QED
  BY <1>1, <1>2, AlwaysKept, PTL DEF Spec

(***************************************************************************)
(* The contract.                                                           *)
(***************************************************************************)
AcceptedPairs == {journal[i].pair : i \in DOMAIN journal} \ {IncidentPair}
Careful == "default" \notin ran
EffectsAt(o, k) == {i \in DOMAIN effects : /\ effects[i].kind = k
                                           /\ journal[effects[i].event].pair = o}

LEMMA EffectsTyped ==
    ASSUME TypeOK
    PROVE  /\ DOMAIN effects = 1..Len(effects) /\ Len(effects) \in Nat
           /\ \A i \in DOMAIN effects : /\ effects[i].event \in DOMAIN journal
                                        /\ effects[i].kind \in EffectKinds
<1>1. PICK T : T = [event : DOMAIN journal, kind : EffectKinds]
  OBVIOUS
<1>2. effects \in Seq(T)
  BY <1>1 DEF TypeOK
<1>3. DOMAIN effects = 1..Len(effects) /\ Len(effects) \in Nat
      /\ \A i \in 1..Len(effects) : effects[i] \in T
  BY <1>2, ElementOfSeq
<1>4. \A d \in T : d.event \in DOMAIN journal /\ d.kind \in EffectKinds
  BY <1>1
<1> QED
  BY <1>3, <1>4

LEMMA SettledIs ==
    ASSUME TypeOK
    PROVE  /\ Settled \in [Occurrences -> [EffectKinds -> Nat]]
           /\ \A o \in Occurrences, k \in EffectKinds :
                 Settled[o][k] = Cardinality(EffectsAt(o, k))
           /\ AcceptedPairs \in SUBSET Occurrences
<1>1. ASSUME NEW o, NEW k
      PROVE  Cardinality(EffectsAt(o, k)) \in Nat
  <2>1. IsFiniteSet(DOMAIN effects) /\ EffectsAt(o, k) \in SUBSET (DOMAIN effects)
    BY EffectsTyped, FS_Interval DEF EffectsAt
  <2>2. IsFiniteSet(EffectsAt(o, k))
    BY <2>1, FS_Subset
  <2> QED
    BY <2>2, FS_CardinalityType
<1>2. Settled = [o \in Occurrences |-> [k \in EffectKinds |-> Cardinality(EffectsAt(o, k))]]
  BY DEF Settled, EffectsAt
<1>3. AcceptedPairs \in SUBSET Occurrences
  <2> SUFFICES ASSUME NEW i \in DOMAIN journal, journal[i].pair # IncidentPair
               PROVE  journal[i].pair \in Occurrences
    BY DEF AcceptedPairs
  <2>1. journal[i] \in Commands \cup {IncidentRow}
    BY JournalIs DEF Entries
  <2>2. journal[i] \in Commands
    BY <2>1 DEF IncidentRow
  <2>3. PICK s \in AllScripts : \E j \in DOMAIN s.commands : journal[i] = s.commands[j]
    BY <2>2 DEF Commands
  <2>4. journal[i].pair \in Pairs(s)
    BY <2>3 DEF Pairs
  <2> QED
    BY <2>4 DEF Occurrences
<1> QED
  BY <1>1, <1>2, <1>3

LEMMA SettledIsNext ==
    ASSUME TypeOK'
    PROVE  /\ Settled' \in [Occurrences -> [EffectKinds -> Nat]]
           /\ \A o \in Occurrences, k \in EffectKinds :
                 Settled'[o][k] = Cardinality(EffectsAt(o, k)')
           /\ AcceptedPairs' \in SUBSET Occurrences
<1>1. DOMAIN effects' = 1..Len(effects') /\ Len(effects') \in Nat
  <2>1. PICK T : T = [event : DOMAIN journal', kind : EffectKinds]
    OBVIOUS
  <2>2. effects' \in Seq(T)
    BY <2>1 DEF TypeOK
  <2> QED
    BY <2>2, ElementOfSeq
<1>2. ASSUME NEW o, NEW k
      PROVE  Cardinality(EffectsAt(o, k)') \in Nat
  <2>1. PICK E : E = EffectsAt(o, k)'
    OBVIOUS
  <2>2. IsFiniteSet(DOMAIN effects') /\ E \in SUBSET (DOMAIN effects')
    BY <1>1, <2>1, FS_Interval DEF EffectsAt
  <2>3. IsFiniteSet(E)
    BY <2>2, FS_Subset
  <2> QED
    BY <2>1, <2>3, FS_CardinalityType
<1>3. Settled' = [o \in Occurrences |-> [k \in EffectKinds |-> Cardinality(EffectsAt(o, k)')]]
  BY DEF Settled, EffectsAt
<1>4. AcceptedPairs' \in SUBSET Occurrences
  <2> SUFFICES ASSUME NEW i \in DOMAIN journal', journal'[i].pair # IncidentPair
               PROVE  journal'[i].pair \in Occurrences
    BY DEF AcceptedPairs
  <2>1. journal'[i] \in Commands \cup {IncidentRow}
    <3>1. PICK T : T = Commands \cup {IncidentRow}
      OBVIOUS
    <3>2. journal' \in Seq(T)
      BY <3>1 DEF TypeOK
    <3> QED
      BY <3>1, <3>2, ElementOfSeq
  <2>2. journal'[i] \in Commands
    BY <2>1 DEF IncidentRow
  <2>3. PICK s \in AllScripts : \E j \in DOMAIN s.commands : journal'[i] = s.commands[j]
    BY <2>2 DEF Commands
  <2>4. journal'[i].pair \in Pairs(s)
    BY <2>3 DEF Pairs
  <2> QED
    BY <2>4 DEF Occurrences
<1> QED
  BY <1>2, <1>3, <1>4

LEMMA OccurrencesAre == IncidentPair \notin Occurrences
BY CommandsOf DEF Occurrences, ScriptShape

LEMMA InitContract == Init => Contract!Init
<1> SUFFICES ASSUME Init
             PROVE  /\ AcceptedPairs = {} /\ Settled = Contract!Nothing
                    /\ Careful = TRUE
  BY DEF Contract!Init, AcceptedPairs, Careful
<1>1. PICK e, n : e = IncidentRow /\ n = Len(journal)
  OBVIOUS
<1>2. DOMAIN journal \subseteq {1, 2} /\ \A i \in DOMAIN journal : journal[i] = e
  <2>1. journal = <<e>> \/ journal = <<e, e>>
    BY <1>1 DEF Init
  <2> QED
    BY <2>1
<1>3. TypeOK
  BY InitTyped DEF Typed
<1>4. e.pair = IncidentPair
  BY <1>1 DEF IncidentRow
<1>5. AcceptedPairs = {}
  BY <1>2, <1>4 DEF AcceptedPairs
<1>6. \A o \in Occurrences : \A k : EffectsAt(o, k) = {}
  BY <1>2, <1>3, <1>4, EffectsTyped, OccurrencesAre DEF EffectsAt
<1>7. \A o \in Occurrences, k \in EffectKinds : Settled[o][k] = 0
  BY <1>3, <1>6, SettledIs, FS_EmptySet
<1>8. Settled = Contract!Nothing
  BY <1>3, <1>7, SettledIs DEF Contract!Nothing
<1>9. Careful
  BY DEF Init, Careful
<1> QED
  BY <1>5, <1>8, <1>9

ContractVars == <<AcceptedPairs, Settled, Careful>>

LEMMA CarelessStep ==
    ASSUME Typed', "default" \in ran'
    PROVE  Contract!Careless
<1>1. TypeOK'
  BY DEF Typed
<1>2. Careful' = FALSE
  BY DEF Careful
<1> QED
  BY <1>1, <1>2, SettledIsNext DEF Contract!Careless, AcceptedPairs, Careful

LEMMA QuietStep ==
    ASSUME UNCHANGED <<journal, effects>>, "default" \notin ran, "default" \notin ran'
    PROVE  UNCHANGED ContractVars
<1>1. AcceptedPairs' = AcceptedPairs
  BY DEF AcceptedPairs
<1>2. Settled' = Settled
  BY DEF Settled
<1>3. Careful' = Careful
  BY DEF Careful
<1> QED
  BY <1>1, <1>2, <1>3 DEF ContractVars

LEMMA AcceptStep ==
    ASSUME Typed, Typed', AcceptAppends, "default" \notin ran, "default" \notin ran'
    PROVE  \E o \in Occurrences : Contract!Accept(o)
<1>1. TypeOK /\ TypeOK' /\ run.phase = "accept"
  BY DEF Typed, AcceptAppends, Running
<1>2. PICK c : c = command
  OBVIOUS
<1>3. journal' = Append(journal, c) /\ effects' = effects
  BY <1>2 DEF AcceptAppends
<1>4. c.pair \in Occurrences /\ c.pair # IncidentPair
  BY <1>1, <1>2, CommandAt
<1>5. /\ \A i \in DOMAIN journal : i \in DOMAIN journal' /\ journal'[i] = journal[i]
      /\ Len(journal) + 1 \in DOMAIN journal' /\ journal'[Len(journal) + 1] = c
      /\ \A i \in DOMAIN journal' : i \in DOMAIN journal \/ i = Len(journal) + 1
  BY <1>1, <1>3, JournalGrows
<1>6. AcceptedPairs' = AcceptedPairs \cup {c.pair}
  BY <1>4, <1>5 DEF AcceptedPairs
<1>7. Settled' = Settled
  <2>1. \A i \in DOMAIN effects : journal'[effects[i].event] = journal[effects[i].event]
    BY <1>1, <1>5, EffectsTyped
  <2>2. \A o, k : EffectsAt(o, k)' = EffectsAt(o, k)
    BY <1>3, <2>1 DEF EffectsAt
  <2>3. \A o \in Occurrences, k \in EffectKinds : Settled'[o][k] = Settled[o][k]
    BY <1>1, <2>2, SettledIs, SettledIsNext
  <2> QED
    BY <1>1, <2>3, SettledIs, SettledIsNext
<1>8. Careful = TRUE /\ Careful' = TRUE
  BY DEF Careful
<1> QED
  BY <1>4, <1>6, <1>7, <1>8 DEF Contract!Accept, AcceptedPairs, Careful

(* What is inserted under a careful flow was not there for the occurrence.   *)
LEMMA SettleStep ==
    ASSUME Typed, Typed', Kept, Attempts, ~AlreadySettled, EffectInserted,
           UNCHANGED journal, "default" \notin ran, "default" \notin ran'
    PROVE  \/ \E o \in Occurrences, k \in EffectKinds : Contract!Settle(o, k)
           \/ UNCHANGED ContractVars
<1>1. TypeOK /\ TypeOK' /\ Live
  BY QueueIs DEF Typed
<1>2. PICK e, k, n : e = item.event /\ k = item.kind /\ n = Len(effects) + 1
  OBVIOUS
<1>3. e \in DOMAIN journal /\ k \in EffectKinds
  BY <1>2, QueueIs
<1>4. /\ \A i \in DOMAIN effects : i \in DOMAIN effects' /\ effects'[i] = effects[i]
      /\ n \in DOMAIN effects' /\ n \notin DOMAIN effects
      /\ effects'[n].event = e /\ effects'[n].kind = k
      /\ \A i \in DOMAIN effects' : i \in DOMAIN effects \/ i = n
  BY <1>2, EffectsGrow
<1>5. PICK p : p = journal[e].pair
  OBVIOUS
<1>6. AcceptedPairs' = AcceptedPairs /\ Careful = TRUE /\ Careful' = TRUE
  BY DEF AcceptedPairs, Careful
<1>7. \A o, l : ~(o = p /\ l = k) => EffectsAt(o, l)' = EffectsAt(o, l)
  BY <1>4, <1>5 DEF EffectsAt
<1>8. CASE p = IncidentPair
  <2>1. \A o \in Occurrences : o # p
    BY <1>8, OccurrencesAre
  <2>2. \A o \in Occurrences, l \in EffectKinds : Settled'[o][l] = Settled[o][l]
    BY <1>1, <1>7, <2>1, SettledIs, SettledIsNext
  <2>3. Settled' = Settled
    BY <1>1, <2>2, SettledIs, SettledIsNext
  <2> QED
    BY <1>6, <2>3 DEF ContractVars
<1>9. CASE p # IncidentPair
  <2>1. p \in AcceptedPairs /\ p \in Occurrences
    BY <1>1, <1>3, <1>5, <1>9, SettledIs DEF AcceptedPairs
  <2>2. \A i \in DOMAIN journal : journal[i].pair = p => i = e
    BY <1>3, <1>5, <1>9 DEF Kept, OneRowEach
  <2>3. ~HasEffect(e, k)
    <3>1. run.flow \in Flows \ {"default"}
      BY <1>1 DEF Typed, Live
    <3>2. HasEffect(e, k) => EffectsOf({e}) # {}
      BY DEF HasEffect, EffectsOf
    <3> QED
      BY <1>2, <3>1, <3>2 DEF AlreadySettled, Flows, Repairs
  <2>4. EffectsAt(p, k) = {}
    BY <1>1, <2>2, <2>3, EffectsTyped DEF EffectsAt, HasEffect
  <2>5. EffectsAt(p, k)' = {n}
    BY <1>4, <1>5, <2>4 DEF EffectsAt
  <2>6. Settled[p][k] = 0 /\ Settled'[p][k] = 1
    <3>1. Settled[p][k] = Cardinality(EffectsAt(p, k))
          /\ Settled'[p][k] = Cardinality(EffectsAt(p, k)')
      BY <1>1, <1>3, <2>1, SettledIs, SettledIsNext
    <3>2. Cardinality({n}) = 1
      BY FS_Singleton
    <3> QED
      BY <2>4, <2>5, <3>1, <3>2, FS_EmptySet
  <2>7. \A o \in Occurrences, l \in EffectKinds :
           ~(o = p /\ l = k) => Settled'[o][l] = Settled[o][l]
    BY <1>1, <1>7, SettledIs, SettledIsNext
  <2>8. Settled' = [Settled EXCEPT ![p][k] = 1]
    <3>1. PICK S, T \in [Occurrences -> [EffectKinds -> Nat]] : S = Settled /\ T = Settled'
      BY <1>1, SettledIs, SettledIsNext
    <3>2. T[p] = [S[p] EXCEPT ![k] = 1]
      BY <1>3, <2>1, <2>6, <2>7, <3>1
    <3>3. \A o \in Occurrences : o # p => T[o] = S[o]
      BY <2>7, <3>1
    <3>4. T = [S EXCEPT ![p] = [S[p] EXCEPT ![k] = 1]]
      BY <2>1, <3>1, <3>2, <3>3
    <3> QED
      BY <3>1, <3>4
  <2>9. Contract!Settle(p, k)
    BY <1>6, <2>1, <2>6, <2>8 DEF Contract!Settle, AcceptedPairs, Careful
  <2> QED
    BY <1>3, <2>1, <2>9
<1> QED
  BY <1>8, <1>9

LEMMA RestoreStep ==
    ASSUME Typed', Restore
    PROVE  Contract!Restore
<1>1. TypeOK' /\ journal' = <<>> /\ effects' = <<>> /\ ran' = {}
  BY DEF Restore, Typed
<1>2. AcceptedPairs' = {} /\ Careful' = TRUE
  BY <1>1 DEF AcceptedPairs, Careful
<1>3. \A o, k : EffectsAt(o, k)' = {}
  BY <1>1 DEF EffectsAt
<1>4. \A o \in Occurrences, k \in EffectKinds : Settled'[o][k] = 0
  BY <1>1, <1>3, SettledIsNext, FS_EmptySet
<1>5. Settled' = Contract!Nothing
  BY <1>1, <1>4, SettledIsNext DEF Contract!Nothing
<1> QED
  BY <1>2, <1>5 DEF Contract!Restore, AcceptedPairs, Careful

LEMMA ContractStep ==
    ASSUME Typed, Kept, [Next]_vars
    PROVE  Contract!Next \/ UNCHANGED ContractVars
<1>1. Typed'
  BY TypedStep
<1>2. CASE "default" \in ran'
  BY <1>1, <1>2, CarelessStep DEF Contract!Next
<1>3. CASE Restore
  BY <1>1, <1>3, RestoreStep DEF Contract!Next
<1>4. CASE "default" \notin ran' /\ ~Restore
  <2>1. "default" \notin ran
    <3>1. ran \subseteq ran'
      BY <1>4 DEF Next, Step, StartRun, AcceptReuses, AcceptAppends, Register, CommandRejected,
                  PlanDeliveries, DeliverReuses, DeliverTransient, DeliverCutpoint,
                  DeliverSettles, DeliveryExhausted, FinishRun, history, vars
    <3> QED
      BY <1>4, <3>1
  <2>2. CASE AcceptAppends
    BY <1>1, <1>4, <2>1, <2>2, AcceptStep DEF Contract!Next
  <2>3. CASE DeliverCutpoint \/ DeliverSettles
    <3>1. Attempts /\ ~AlreadySettled /\ EffectInserted /\ UNCHANGED journal
      BY <2>3 DEF DeliverCutpoint, DeliverSettles
    <3> QED
      BY <1>1, <1>4, <2>1, <3>1, SettleStep DEF Contract!Next
  <2>4. CASE ~AcceptAppends /\ ~DeliverCutpoint /\ ~DeliverSettles
    <3>1. UNCHANGED <<journal, effects>>
      BY <1>4, <2>4 DEF Next, Step, StartRun, AcceptReuses, Register, CommandRejected,
                  PlanDeliveries, DeliverReuses, DeliverTransient, DeliveryExhausted,
                  FinishRun, tables, vars
    <3> QED
      BY <1>4, <2>1, <3>1, QuietStep
  <2> QED
    BY <2>2, <2>3, <2>4
<1> QED
  BY <1>2, <1>3, <1>4

(* The engine implements the contract of the service: no occurrence gets a   *)
(* second effect of a kind and none gets an effect before it was accepted,   *)
(* as long as the shipped flow has not touched the tables.                   *)
THEOREM ContractIsKept == Spec => ImplementsContract
<1>1. Init => Contract!Init
  BY InitContract
<1>2. Typed /\ Kept /\ [Next]_vars =>
         Contract!Next \/ UNCHANGED <<{journal[i].pair : i \in DOMAIN journal} \ {IncidentPair},
                                      Settled, "default" \notin ran>>
  BY ContractStep DEF ContractVars, AcceptedPairs, Careful
<1> QED
  BY <1>1, <1>2, AlwaysKept, PTL DEF Spec, ImplementsContract, Contract!Spec

(***************************************************************************)
(* What the outbox and the verdicts of the repairs rest on.                *)
(***************************************************************************)
(* Occurrences of which only the first row is delivered, and those with a    *)
(* notification.                                                             *)
FirstOnly(p) == \E s \in AllScripts : p \in Pairs(s) /\ s.deliver \in {"accepted", "twice"}
Notified(p) == \E s \in AllScripts : p \in Pairs(s) /\ s.notify

PairOf(e) == journal[e].pair

AcceptedFirst ==
    run.phase # "idle" =>
        /\ \A i \in 1..Len(run.accepted) :
              /\ PairOf(run.accepted[i]) \in Pairs(run.script)
              /\ run.flow # "default" => run.accepted[i] = EventOf(PairOf(run.accepted[i]))
        /\ run.phase = "register" /\ run.flow # "default" => run.pending = EventOf(command.pair)
        /\ /\ run.phase \in {"accept", "register"}
           /\ run.cutEvent # 0 /\ run.flow # "default"
           => run.cutEvent = EventOf(command.pair)
        /\ \A i \in DOMAIN journal : i > run.start => PairOf(i) \in Pairs(run.script)

QueueFirst ==
    run.phase = "deliver" =>
        \A i \in 1..Len(run.queue) :
            /\ PairOf(run.queue[i].event) \in Pairs(run.script)
            /\ run.script.deliver \in {"accepted", "twice"} /\ run.flow # "default" =>
                  run.queue[i].event = EventOf(PairOf(run.queue[i].event))
            /\ run.queue[i].kind = "notify" => run.script.notify

IntentsFirst ==
    \A n \in intents :
        /\ FirstOnly(PairOf(n.event)) => n.event = EventOf(PairOf(n.event))
        /\ n.kind = "notify" => Notified(PairOf(n.event))

(* A run of the outbox still has to deliver what has an open intent.         *)
OpenQueued ==
    run.phase = "deliver" /\ run.flow = "intent_outbox" =>
        \A n \in intents :
            /\ n.state = "created"
            /\ \/ n.kind = "settlement" /\ n.event \in Owed
               \/ n.kind = "notify" /\ run.script.notify /\ n.event = run.accepted[1]
            => \E i \in 1..Len(run.queue) : /\ run.queue[i].event = n.event
                                            /\ run.queue[i].kind = n.kind

OutboxClosed ==
    run.outcome = "pass" /\ run.flow = "intent_outbox" /\ run.script.judge # "journal" =>
        \A n \in intents : n.event \in RowsOf(run.script) => n.state = "completed"

OutboxKept == AcceptedFirst /\ QueueFirst /\ IntentsFirst /\ OpenQueued

Tries ==
    run.phase # "idle" =>
        /\ run.tries \in {0, 1} /\ run.budget \in Nat
        /\ run.tries = 1 => run.script.transient /\ ~run.transient
        /\ run.transient => run.script.transient

OneEffectEach ==
    "default" \notin ran =>
        \A i, j \in DOMAIN effects :
            /\ effects[i].event = effects[j].event /\ effects[i].kind = effects[j].kind
            /\ PairOf(effects[i].event) # IncidentPair
            => i = j

EffectsNotify ==
    \A i \in DOMAIN effects : effects[i].kind = "notify" => Notified(PairOf(effects[i].event))

NotifyOwed ==
    run.phase = "deliver" /\ ran \subseteq Repairs /\ run.script.notify =>
        \/ HasEffect(run.accepted[1], "notify")
        \/ \E i \in 1..Len(run.queue) : /\ run.queue[i].event = run.accepted[1]
                                        /\ run.queue[i].kind = "notify"

(* The last delivery leaves the cursor past every event that is owed.        *)
CursorLast ==
    run.phase = "deliver" /\ run.script.judge = "durable" /\ ran \subseteq Repairs =>
        IF run.queue = <<>>
        THEN \A e \in Owed : e <= cursor
        ELSE /\ run.queue[Len(run.queue)].kind = "settlement"
             /\ \A e \in Owed : e <= run.queue[Len(run.queue)].seq

(* A script delivers these occurrences, accepted one after the other, in turn. *)
Precedes(p, q) ==
    \E s \in AllScripts :
        /\ s.judge = "durable" /\ s.deliver = "accepted"
        /\ \E i, j \in 1..Len(s.commands) :
              i < j /\ s.commands[i].pair = p /\ s.commands[j].pair = q

Ordered ==
    "default" \notin ran =>
        \A p, q \in Occurrences :
            Precedes(p, q) /\ Rows(q) # {} => Rows(p) # {} /\ EventOf(p) <= EventOf(q)

RepairKept == Tries /\ OneEffectEach /\ EffectsNotify /\ NotifyOwed /\ CursorLast /\ Ordered

(***************************************************************************)
(* First rows.                                                             *)
(***************************************************************************)
LEMMA WorkloadsOf ==
    ASSUME NEW s \in AllScripts, NEW p \in Pairs(s)
    PROVE  /\ FirstOnly(p) <=> s.deliver \in {"accepted", "twice"}
           /\ Notified(p) <=> s.notify
<1>1. \A t \in AllScripts : p \in Pairs(t) => s.deliver = t.deliver /\ s.notify = t.notify
  BY ScriptAssumption DEF SameWorkload
<1> QED
  BY <1>1 DEF FirstOnly, Notified

LEMMA LeastIs ==
    ASSUME NEW S \in SUBSET Nat, NEW e \in S, \A j \in S : e <= j
    PROVE  (CHOOSE i \in S : \A j \in S : i <= j) = e
<1> DEFINE least == CHOOSE i \in S : \A j \in S : i <= j
<1>1. least \in S /\ \A j \in S : least <= j
  BY Zenon
<1> HIDE DEF least
<1>2. least <= e /\ e <= least
  BY <1>1
<1>3. least = e
  BY <1>1, <1>2
<1> QED
  BY <1>3 DEF least

(* A row that is there, and the oldest one, stay as the journal grows.       *)
LEMMA EventsStay ==
    ASSUME TypeOK, journal' = journal \/ \E c : journal' = Append(journal, c)
    PROVE  /\ \A e \in DOMAIN journal : e \in DOMAIN journal' /\ journal'[e] = journal[e]
           /\ \A p : Rows(p) # {} => EventOf(p)' = EventOf(p) /\ Rows(p)' # {}
<1>1. CASE journal' = journal
  BY <1>1, RowsSame
<1>2. ASSUME NEW c, journal' = Append(journal, c)
      PROVE  /\ \A e \in DOMAIN journal : e \in DOMAIN journal' /\ journal'[e] = journal[e]
             /\ \A p : Rows(p) # {} => EventOf(p)' = EventOf(p) /\ Rows(p)' # {}
  <2>1. \A e \in DOMAIN journal : e \in DOMAIN journal' /\ journal'[e] = journal[e]
    BY <1>2, JournalGrows
  <2>2. ASSUME NEW p, Rows(p) # {}
        PROVE  EventOf(p)' = EventOf(p) /\ Rows(p)' # {}
    <3>1. PICK S : S = Rows(p)'
      OBVIOUS
    <3>2. PICK e : e = EventOf(p)
      OBVIOUS
    <3>3. e \in Rows(p) /\ (\A j \in Rows(p) : e <= j) /\ Rows(p) \subseteq 1..Len(journal)
          /\ Len(journal) \in Nat
      BY <2>2, <3>2, RowsAre, JournalIs
    <3>4. Rows(p) \subseteq S /\ \A j \in S : j \in Rows(p) \/ j = Len(journal) + 1
      BY <1>2, <3>1, RowsGrow
    <3>5. S \in SUBSET Nat /\ e \in S /\ \A j \in S : e <= j
      <4>1. \A j \in S : j \in Nat /\ e <= j
        BY <3>3, <3>4
      <4> QED
        BY <3>3, <3>4, <4>1
    <3>6. (CHOOSE i \in S : \A j \in S : i <= j) = e
      BY <3>5, LeastIs
    <3>7. EventOf(p)' = CHOOSE i \in S : \A j \in S : i <= j
      BY <3>1 DEF EventOf
    <3> QED
      BY <3>1, <3>2, <3>5, <3>6, <3>7
  <2> QED
    BY <2>1, <2>2
<1> QED
  BY <1>1, <1>2

LEMMA FirstRowIs ==
    ASSUME TypeOK, NEW c, journal' = Append(journal, c), NEW p, p = c.pair, Rows(p) = {}
    PROVE  EventOf(p)' = Len(journal) + 1
<1>1. PICK S : S = Rows(p)'
  OBVIOUS
<1>2. S = {Len(journal) + 1} /\ Len(journal) + 1 \in Nat
  BY <1>1, RowsGrow, JournalIs
<1>3. (CHOOSE i \in S : \A j \in S : i <= j) = Len(journal) + 1
  BY <1>2, LeastIs
<1>4. EventOf(p)' = CHOOSE i \in S : \A j \in S : i <= j
  BY <1>1 DEF EventOf
<1> QED
  BY <1>3, <1>4

(***************************************************************************)
(* What intake returns is the first row of the command.                    *)
(***************************************************************************)
LEMMA AcceptedRows ==
    ASSUME Typed, NEW i \in 1..Len(run.accepted)
    PROVE  /\ run.accepted[i] \in DOMAIN journal
           /\ Rows(PairOf(run.accepted[i])) # {}
<1>1. run.accepted[i] \in DOMAIN journal
  BY ElementOfSeq DEF Typed, TypeOK
<1> QED
  BY <1>1 DEF Rows, PairOf

(* The accepted events stay what they are as the run goes on.                *)
LEMMA AcceptedStay ==
    ASSUME Typed, AcceptedFirst, run.phase # "idle",
           journal' = journal \/ \E c : journal' = Append(journal, c),
           NEW i \in 1..Len(run.accepted)
    PROVE  /\ journal'[run.accepted[i]].pair \in Pairs(run.script)
           /\ run.flow # "default" =>
                 \A p : p = journal'[run.accepted[i]].pair => run.accepted[i] = EventOf(p)'
<1>1. PICK e : e = run.accepted[i]
  OBVIOUS
<1>2. e \in DOMAIN journal /\ Rows(PairOf(e)) # {}
  BY <1>1, AcceptedRows
<1>3. PairOf(e) \in Pairs(run.script) /\ (run.flow # "default" => e = EventOf(PairOf(e)))
  BY <1>1 DEF AcceptedFirst
<1>4. PICK p : p = PairOf(e)
  OBVIOUS
<1>5. journal'[e].pair = p /\ EventOf(p)' = EventOf(p)
  BY <1>2, <1>4, EventsStay DEF Typed, PairOf
<1> QED
  BY <1>1, <1>3, <1>4, <1>5

LEMMA FirstAfterStart ==
    ASSUME Typed, NEW script \in Scripts[profile], NEW revision \in Revisions,
           StartRun(script, revision)
    PROVE  AcceptedFirst'
<1>1. /\ run'.phase = "accept" /\ run'.cutEvent = 0 /\ run'.accepted = <<>>
      /\ run'.start = Len(journal) /\ journal' = journal
  BY DEF StartRun, NoRun, tables
<1>2. \A i \in DOMAIN journal' : ~(i > run'.start)
  BY <1>1, JournalIs DEF Typed
<1> QED
  BY <1>1, <1>2 DEF AcceptedFirst

LEMMA FirstAfterAccept ==
    ASSUME Typed, AcceptedFirst, run.phase = "accept",
           run'.phase \in {"accept", "register"}, run'.script = run.script,
           run'.flow = run.flow, run'.next = run.next, run'.accepted = run.accepted,
           run'.start = run.start,
           journal' = journal \/ journal' = Append(journal, command),
           run'.phase = "register" /\ run.flow # "default" =>
              \A p : p = command.pair => run'.pending = EventOf(p)',
           run'.cutEvent # 0 /\ run.flow # "default" =>
              \A p : p = command.pair => run'.cutEvent = EventOf(p)'
    PROVE  AcceptedFirst'
<1>1. TypeOK /\ command.pair \in Pairs(run.script)
  BY CommandAt DEF Typed
<1>2. PICK p : p = command.pair /\ p = run'.script.commands[run'.next].pair
  BY DEF command
<1>3. ASSUME NEW i \in 1..Len(run.accepted)
      PROVE  /\ journal'[run.accepted[i]].pair \in Pairs(run.script)
             /\ run.flow # "default" =>
                   \A q : q = journal'[run.accepted[i]].pair => run.accepted[i] = EventOf(q)'
  BY AcceptedStay
<1>4. ASSUME NEW i \in DOMAIN journal', i > run.start
      PROVE  journal'[i].pair \in Pairs(run.script)
  <2>1. CASE i \in DOMAIN journal
    <3>1. journal'[i] = journal[i]
      BY <1>1, <2>1, EventsStay
    <3> QED
      BY <1>4, <2>1, <3>1 DEF AcceptedFirst, PairOf
  <2>2. CASE i \notin DOMAIN journal
    <3>1. PICK c : c = command
      OBVIOUS
    <3>2. journal' = Append(journal, c)
      BY <1>4, <2>2, <3>1
    <3>3. journal'[i] = c
      BY <1>1, <1>4, <2>2, <3>2, JournalGrows
    <3> QED
      BY <1>1, <3>1, <3>3
  <2> QED
    BY <2>1, <2>2
<1>5. ASSUME NEW i \in 1..Len(run.accepted)
      PROVE  /\ PairOf(run.accepted[i])' \in Pairs(run.script)
             /\ run.flow # "default" => run'.accepted[i] = EventOf(PairOf(run.accepted[i]))'
  <2>1. PICK q : q = journal'[run.accepted[i]].pair /\ q = PairOf(run.accepted[i])'
    BY DEF PairOf
  <2> QED
    BY <1>3, <2>1
<1>6. run'.phase = "register" /\ run'.flow # "default" => run'.pending = EventOf(command.pair)'
  BY <1>2 DEF command
<1>7. run'.cutEvent # 0 /\ run'.flow # "default" => run'.cutEvent = EventOf(command.pair)'
  BY <1>2 DEF command
<1>8. \A i \in DOMAIN journal' : i > run'.start => PairOf(i)' \in Pairs(run'.script)
  BY <1>4 DEF PairOf
<1> QED
  BY <1>5, <1>6, <1>7, <1>8 DEF AcceptedFirst

LEMMA FirstAfterIntake ==
    ASSUME Typed, AcceptedFirst, AcceptReuses \/ AcceptAppends
    PROVE  AcceptedFirst'
<1>1. DOMAIN run = RunFields /\ run.phase = "accept" /\ TypeOK /\ Live
  BY DEF Typed, AcceptReuses, AcceptAppends, Running
<1>2. PICK p : p = command.pair
  OBVIOUS
<1>3. run.cutEvent # 0 /\ run.flow # "default" => run.cutEvent = EventOf(p) /\ Rows(p) # {}
  BY <1>1, <1>2 DEF AcceptedFirst, Live
<1>4. CASE AcceptReuses
  <2>1. /\ run' = [run EXCEPT !.phase = "register", !.pending = EventOf(command.pair)]
        /\ journal' = journal /\ Rows(p) # {}
    BY <1>2, <1>4 DEF AcceptReuses, Reuses, tables
  <2>2. EventOf(p)' = EventOf(p)
    BY <2>1, RowsSame
  <2>3. /\ run'.phase = "register" /\ run'.script = run.script /\ run'.flow = run.flow
        /\ run'.next = run.next /\ run'.accepted = run.accepted /\ run'.start = run.start
        /\ run'.pending = EventOf(p) /\ run'.cutEvent = run.cutEvent
    BY <1>1, <1>2, <2>1 DEF RunFields
  <2> QED
    BY <1>1, <1>2, <1>3, <2>1, <2>2, <2>3, FirstAfterAccept
<1>5. CASE AcceptAppends
  <2>1. /\ run' = IF run.s2cut
                  THEN [run EXCEPT !.s2cut = FALSE, !.cutEvent = Len(journal) + 1]
                  ELSE [run EXCEPT !.phase = "register", !.pending = Len(journal) + 1]
        /\ journal' = Append(journal, command)
        /\ (run.flow # "default" => Rows(p) = {})
    BY <1>2, <1>5 DEF AcceptAppends, Reuses
  <2>2. run.flow # "default" => EventOf(p)' = Len(journal) + 1
    BY <1>1, <1>2, <2>1, FirstRowIs
  <2>3. run.flow # "default" => run.cutEvent = 0
    BY <1>3, <2>1
  <2>4. /\ run'.phase \in {"accept", "register"} /\ run'.script = run.script
        /\ run'.flow = run.flow
        /\ run'.next = run.next /\ run'.accepted = run.accepted /\ run'.start = run.start
        /\ (run'.phase = "register" => run'.pending = Len(journal) + 1)
        /\ run'.cutEvent \in {run.cutEvent, Len(journal) + 1}
    <3>1. CASE run.s2cut
      BY <1>1, <2>1, <3>1 DEF RunFields
    <3>2. CASE ~run.s2cut
      BY <1>1, <2>1, <3>2 DEF RunFields
    <3> QED
      BY <3>1, <3>2
  <2>5. run'.phase = "register" /\ run.flow # "default" =>
           \A q : q = command.pair => run'.pending = EventOf(q)'
    BY <1>2, <2>2, <2>4
  <2>6. run'.cutEvent # 0 /\ run.flow # "default" =>
           \A q : q = command.pair => run'.cutEvent = EventOf(q)'
    BY <1>2, <2>2, <2>3, <2>4
  <2> QED
    BY <1>1, <2>1, <2>4, <2>5, <2>6, FirstAfterAccept
<1> QED
  BY <1>4, <1>5

(* Past the command, or past them all.                                       *)
LEMMA FirstLater ==
    ASSUME Typed, AcceptedFirst, run.phase # "idle", UNCHANGED journal,
           run'.phase = "accept" => run'.cutEvent = 0,
           run'.phase \in {"accept", "plan", "deliver"}, run'.script = run.script,
           run'.flow = run.flow, run'.start = run.start,
           \/ run'.accepted = run.accepted
           \/ \E e \in DOMAIN journal :
                 /\ run'.accepted = Append(run.accepted, e)
                 /\ PairOf(e) \in Pairs(run.script)
                 /\ run.flow # "default" => e = EventOf(PairOf(e))
    PROVE  AcceptedFirst'
<1>1. PICK t \in Seq(DOMAIN journal) : t = run.accepted
  BY DEF Typed, TypeOK
<1>2. ASSUME NEW i \in 1..Len(t)
      PROVE  /\ PairOf(t[i]) \in Pairs(run.script)
             /\ run.flow # "default" => t[i] = EventOf(PairOf(t[i]))
  BY <1>1, <1>2 DEF AcceptedFirst
<1>3. ASSUME NEW i \in 1..Len(run'.accepted)
      PROVE  \A e : e = run'.accepted[i] =>
                /\ PairOf(e) \in Pairs(run.script)
                /\ run.flow # "default" => e = EventOf(PairOf(e))
  <2>1. CASE run'.accepted = t
    BY <1>2, <1>3, <2>1
  <2>2. CASE run'.accepted # t
    <3>1. PICK e \in DOMAIN journal :
                 /\ run'.accepted = Append(t, e)
                 /\ PairOf(e) \in Pairs(run.script)
                 /\ run.flow # "default" => e = EventOf(PairOf(e))
      BY <1>1, <2>2
    <3>2. /\ Len(Append(t, e)) = Len(t) + 1 /\ Append(t, e)[Len(t) + 1] = e
          /\ \A j \in 1..Len(t) : Append(t, e)[j] = t[j]
          /\ Len(t) \in Nat
      BY <1>1, AppendProperties
    <3>3. i \in 1..Len(t) \/ i = Len(t) + 1
      BY <3>1, <3>2
    <3> QED
      BY <1>2, <3>1, <3>2, <3>3
  <2> QED
    BY <2>1, <2>2
<1>4. \A p : EventOf(p)' = EventOf(p)
  BY RowsSame
<1>5. ASSUME NEW i \in 1..Len(run'.accepted)
      PROVE  /\ PairOf(run.accepted[i])' \in Pairs(run'.script)
             /\ run'.flow # "default" => run'.accepted[i] = EventOf(PairOf(run.accepted[i]))'
  <2>1. PICK e, p : e = run'.accepted[i] /\ p = PairOf(e)
    OBVIOUS
  <2>2. PairOf(run.accepted[i])' = p
    BY <2>1 DEF PairOf
  <2> QED
    BY <1>3, <1>4, <2>1, <2>2
<1>6. \A i \in DOMAIN journal' : i > run'.start => PairOf(i)' \in Pairs(run'.script)
  BY DEF AcceptedFirst, PairOf
<1> QED
  BY <1>5, <1>6 DEF AcceptedFirst

LEMMA FirstAfterRegister ==
    ASSUME Typed, AcceptedFirst, Register
    PROVE  AcceptedFirst'
<1>1. /\ run.phase = "register" /\ UNCHANGED journal
      /\ run'.phase \in {"plan", "accept"} /\ run'.cutEvent = 0
      /\ run'.script = run.script /\ run'.flow = run.flow /\ run'.start = run.start
      /\ run'.accepted = Append(run.accepted, Given) /\ Given \in Rows(command.pair)
  BY RegisterIs
<1>2. command.pair \in Pairs(run.script)
  BY <1>1, CommandAt
<1>3. Given \in DOMAIN journal /\ PairOf(Given) = command.pair
  BY <1>1 DEF Rows, PairOf
<1>4. run.flow # "default" => Given = EventOf(command.pair)
  BY <1>1 DEF AcceptedFirst, Given
<1> QED
  BY <1>1, <1>2, <1>3, <1>4, FirstLater

LEMMA FirstAfterRejection ==
    ASSUME Typed, AcceptedFirst, CommandRejected
    PROVE  AcceptedFirst'
<1>1. /\ run.phase \in {"accept", "register"} /\ UNCHANGED journal /\ DOMAIN run = RunFields
      /\ run' = NextCommand(run) \/ Ends("raised")
  BY DEF CommandRejected, Running, tables, Typed
<1>2. CASE run' = NextCommand(run)
  <2>1. /\ run'.phase \in {"plan", "accept"} /\ run'.cutEvent = 0
        /\ run'.script = run.script /\ run'.flow = run.flow /\ run'.start = run.start
        /\ run'.accepted = run.accepted
    BY <1>1, <1>2, NextCommandIs
  <2> QED
    BY <1>1, <2>1, FirstLater
<1>3. CASE Ends("raised")
  BY <1>3, Endings DEF AcceptedFirst
<1> QED
  BY <1>1, <1>2, <1>3

LEMMA AcceptedFirstStep ==
    ASSUME Typed, AcceptedFirst, [Next]_vars
    PROVE  AcceptedFirst'
<1>1. ASSUME NEW script \in Scripts[profile], NEW revision \in Revisions,
             StartRun(script, revision)
      PROVE  AcceptedFirst'
  BY <1>1, FirstAfterStart
<1>2. CASE AcceptReuses \/ AcceptAppends
  BY <1>2, FirstAfterIntake
<1>3. CASE Register
  BY <1>3, FirstAfterRegister
<1>4. CASE CommandRejected
  BY <1>4, FirstAfterRejection
<1>5. CASE PlanDeliveries
  BY <1>5, PlanIs, FirstLater
<1>6. CASE DeliverReuses \/ DeliverTransient \/ DeliverCutpoint \/ DeliverSettles
  <2>1. CASE run'.phase = "idle"
    BY <2>1 DEF AcceptedFirst
  <2>2. CASE run'.phase # "idle"
    BY <1>6, <2>2, DeliveryRun, Endings, FirstLater
  <2> QED
    BY <2>1, <2>2
<1>7. CASE DeliveryExhausted \/ FinishRun \/ Restore
  <2>1. run'.phase = "idle"
    BY <1>7, Endings, NoRunIs DEF DeliveryExhausted, FinishRun, Restore
  <2> QED
    BY <2>1 DEF AcceptedFirst
<1>8. CASE UNCHANGED vars
  BY <1>8 DEF vars, tables, AcceptedFirst, PairOf, EventOf, Rows, command
<1> QED
  BY <1>1, <1>2, <1>3, <1>4, <1>5, <1>6, <1>7, <1>8 DEF Next, Step

(***************************************************************************)
(* What is delivered.                                                      *)
(***************************************************************************)
(* A delivery may name this event of the run's script.                       *)
Deliverable(e) ==
    /\ PairOf(e) \in Pairs(run.script)
    /\ run.script.deliver \in {"accepted", "twice"} /\ run.flow # "default" =>
          e = EventOf(PairOf(e))

LEMMA OwnDeliveries ==
    ASSUME Typed, run.phase = "plan", run.script.deliver = "accepted"
    PROVE  /\ Len(Deliveries) = Len(run.accepted)
           /\ \A i \in 1..Len(run.accepted) :
                 Deliveries[i] = Delivery(run.accepted[i], run.accepted[i], "settlement")
<1> DEFINE q == [j \in DOMAIN run.accepted |->
                    Delivery(run.accepted[j], run.accepted[j], "settlement")]
<1>1. Deliveries = q /\ DOMAIN q = 1..Len(run.accepted) /\ Len(run.accepted) \in Nat
  BY Accepted DEF Deliveries
<1>2. Len(q) = Len(run.accepted)
  <2>1. q \in [1..Len(run.accepted) -> {q[k] : k \in 1..Len(run.accepted)}]
    BY <1>1
  <2>2. PICK S : q \in [1..Len(run.accepted) -> S]
    BY <2>1
  <2> HIDE DEF q
  <2> QED
    BY <1>1, <2>2
<1>3. \A i \in 1..Len(run.accepted) :
         q[i] = Delivery(run.accepted[i], run.accepted[i], "settlement")
  BY <1>1
<1> HIDE DEF q
<1> QED
  BY <1>1, <1>2, <1>3

LEMMA DeliveriesFirst ==
    ASSUME Typed, AcceptedFirst, run.phase = "plan", NEW i \in 1..Len(Deliveries)
    PROVE  Deliverable(Deliveries[i].event)
<1>1. TypeOK
  BY DEF Typed
<1>2. PICK s \in AllScripts : s = run.script
  BY Accepted
<1>3. ScriptShape(s)
  BY CommandsOf
<1>4. s.deliver \in {"accepted", "rows", "new rows", "twice", "none"}
  BY <1>3 DEF ScriptShape
<1>5. \A j \in 1..Len(run.accepted) : Deliverable(run.accepted[j])
  BY DEF AcceptedFirst, Deliverable
<1>6. CASE s.deliver = "accepted"
  <2>1. /\ i \in 1..Len(run.accepted)
        /\ Deliveries[i] = Delivery(run.accepted[i], run.accepted[i], "settlement")
    BY <1>2, <1>6, OwnDeliveries
  <2>2. Deliveries[i].event = run.accepted[i]
    BY <2>1 DEF Delivery
  <2> QED
    BY <1>5, <2>1, <2>2
<1>7. CASE s.deliver = "rows"
  <2>1. PICK S : S = RowsOf(s) /\ S \in SUBSET Nat /\ IsFiniteSet(S)
    BY <1>1, RowsOfAre
  <2>2. Deliveries = Ascending(S)
    BY <1>2, <1>7, <2>1 DEF Deliveries
  <2>3. PICK e \in S : Deliveries[i] = Delivery(e, e, "settlement")
    BY <2>1, <2>2, AscendingIs
  <2>4. Deliveries[i].event = e
    BY <2>3 DEF Delivery
  <2> QED
    BY <1>2, <1>7, <2>1, <2>4 DEF Deliverable, RowsOf, Rows, PairOf
<1>8. CASE s.deliver = "new rows"
  <2>1. PICK S : S = (run.start + 1)..Len(journal)
    OBVIOUS
  <2>2. S \in SUBSET Nat /\ IsFiniteSet(S) /\ \A e \in S : e \in DOMAIN journal /\ e > run.start
    <3>1. run.start \in Nat /\ Len(journal) \in Nat /\ DOMAIN journal = 1..Len(journal)
      BY <1>1, JournalIs DEF Typed
    <3>2. IsFiniteSet(S)
      <4>1. run.start + 1 \in Int /\ Len(journal) \in Int
        BY <3>1
      <4>2. IsFiniteSet((run.start + 1)..Len(journal))
        BY <4>1, FS_Interval
      <4> QED
        BY <2>1, <4>2
    <3> QED
      BY <2>1, <3>1, <3>2
  <2>3. Deliveries = Ascending(S)
    BY <1>2, <1>8, <2>1 DEF Deliveries
  <2>4. PICK e \in S : Deliveries[i] = Delivery(e, e, "settlement")
    BY <2>2, <2>3, AscendingIs
  <2>5. Deliveries[i].event = e
    BY <2>4 DEF Delivery
  <2>6. PairOf(e) \in Pairs(s)
    BY <1>2, <2>2 DEF AcceptedFirst
  <2> QED
    BY <1>2, <1>8, <2>5, <2>6 DEF Deliverable
<1>9. CASE s.deliver = "twice"
  <2>1. ~s.tolerant
    BY <1>3, <1>9 DEF ScriptShape
  <2>2. 1 \in 1..Len(run.accepted)
    BY <1>2, <2>1, Accepted
  <2>3. PICK f : f = Delivery(run.accepted[1], EventOf(s.commands[1].pair), "settlement")
    OBVIOUS
  <2>4. Deliveries = <<f, f>> /\ f.event = run.accepted[1]
    BY <1>2, <1>9, <2>3 DEF Deliveries, Delivery
  <2>5. Deliveries[i] = f
    BY <2>4
  <2> QED
    BY <1>5, <2>2, <2>4, <2>5
<1>10. CASE s.deliver = "none"
  BY <1>2, <1>10 DEF Deliveries
<1> QED
  BY <1>4, <1>6, <1>7, <1>8, <1>9, <1>10

QueueIsFirst(q) ==
    \A i \in 1..Len(q) : /\ Deliverable(q[i].event)
                         /\ q[i].kind = "notify" => run.script.notify

LEMMA QueueFirstIs == QueueFirst <=> (run.phase = "deliver" => QueueIsFirst(run.queue))
BY DEF QueueFirst, QueueIsFirst, Deliverable

LEMMA DeliverableStays ==
    ASSUME UNCHANGED journal, run'.script = run.script, run'.flow = run.flow
    PROVE  \A e : Deliverable(e) => Deliverable(e)'
<1>1. \A p : EventOf(p)' = EventOf(p)
  BY RowsSame
<1>2. \A e : PairOf(e)' = PairOf(e)
  BY DEF PairOf
<1> SUFFICES ASSUME NEW e, Deliverable(e)
             PROVE  Deliverable(e)'
  OBVIOUS
<1>3. PICK p : p = PairOf(e)
  OBVIOUS
<1>4. /\ p \in Pairs(run.script)
      /\ run.script.deliver \in {"accepted", "twice"} /\ run.flow # "default" => e = EventOf(p)
  BY <1>3 DEF Deliverable
<1>5. EventOf(PairOf(e))' = EventOf(p)
  <2>1. PairOf(e)' = p
    BY <1>2, <1>3
  <2> QED
    BY <1>1, <2>1
<1>6. PairOf(e)' = p
  BY <1>2, <1>3
<1> QED
  BY <1>4, <1>5, <1>6 DEF Deliverable

LEMMA QueueFirstStep ==
    ASSUME Typed, AcceptedFirst, QueueFirst, [Next]_vars
    PROVE  QueueFirst'
<1>1. CASE run'.phase # "deliver"
  BY <1>1 DEF QueueFirst
<1>2. ASSUME run'.phase = "deliver", UNCHANGED journal,
             run'.script = run.script, run'.flow = run.flow,
             QueueIsFirst(run'.queue)
      PROVE  QueueFirst'
  <2>1. \A e : Deliverable(e) => Deliverable(e)'
    BY <1>2, DeliverableStays
  <2>2. ASSUME NEW i \in 1..Len(run'.queue)
        PROVE  /\ Deliverable(run.queue[i].event)'
               /\ run'.queue[i].kind = "notify" => run'.script.notify
    <3>1. PICK e : e = run'.queue[i].event
      OBVIOUS
    <3>2. Deliverable(e) /\ (run'.queue[i].kind = "notify" => run.script.notify)
      BY <1>2, <3>1 DEF QueueIsFirst
    <3>3. Deliverable(e)'
      BY <2>1, <3>2
    <3> QED
      BY <1>2, <3>1, <3>2, <3>3 DEF Deliverable
  <2> QED
    BY <2>2 DEF QueueFirst, Deliverable
<1>3. CASE PlanDeliveries
  <2>1. /\ run.phase = "plan" /\ run'.phase = "deliver" /\ UNCHANGED journal
        /\ run'.script = run.script /\ run'.flow = run.flow
        /\ \A i \in 1..Len(run'.queue) :
              \/ \E j \in 1..Len(Deliveries) : run'.queue[i] = Deliveries[j]
              \/ /\ run.script.notify /\ run'.queue[i].event = run.accepted[1]
                 /\ run'.queue[i].kind = "notify"
    BY <1>3, PlanIs
  <2>2. Settles(Deliveries, Owed)
    BY <2>1, DeliveriesSettle
  <2>3. QueueIsFirst(run'.queue)
    <3> SUFFICES ASSUME NEW i \in 1..Len(run'.queue)
                 PROVE  /\ Deliverable(run'.queue[i].event)
                        /\ run'.queue[i].kind = "notify" => run.script.notify
      BY DEF QueueIsFirst
    <3>1. CASE \E j \in 1..Len(Deliveries) : run'.queue[i] = Deliveries[j]
      <4>1. PICK j \in 1..Len(Deliveries) : run'.queue[i] = Deliveries[j]
        BY <3>1
      <4>2. Deliverable(Deliveries[j].event)
        BY <2>1, DeliveriesFirst
      <4>3. Deliveries[j].kind = "settlement"
        BY <2>2 DEF Settles
      <4> QED
        BY <4>1, <4>2, <4>3
    <3>2. CASE run.script.notify /\ run'.queue[i].event = run.accepted[1]
      <4>1. PICK s \in AllScripts : s = run.script /\ s.notify
        BY <2>1, <3>2, Accepted
      <4>2. ~s.tolerant
        BY <4>1, CommandsOf DEF ScriptShape
      <4>3. 1 \in 1..Len(run.accepted)
        BY <2>1, <4>1, <4>2, Accepted
      <4>4. Deliverable(run.accepted[1])
        BY <2>1, <4>3 DEF AcceptedFirst, Deliverable
      <4> QED
        BY <3>2, <4>4
    <3> QED
      BY <2>1, <3>1, <3>2
  <2> QED
    BY <1>2, <2>1, <2>3
<1>4. CASE DeliverReuses \/ DeliverTransient \/ DeliverCutpoint \/ DeliverSettles
  <2> SUFFICES ASSUME run'.phase = "deliver"
               PROVE  QueueFirst'
    BY <1>1
  <2>1. /\ run.phase = "deliver" /\ UNCHANGED journal /\ Attempts
        /\ run'.script = run.script /\ run'.flow = run.flow
        /\ run'.queue = run.queue \/ run'.queue = Tail(run.queue)
    BY <1>4, DeliveryRun, Endings
  <2>2. QueueIsFirst(run.queue)
    BY <2>1, QueueFirstIs
  <2>3. PICK n \in Nat \ {0} : n = Len(run.queue)
    BY <2>1, QueueIs
  <2>4. QueueIsFirst(run'.queue)
    <3>1. CASE run'.queue = run.queue
      BY <2>2, <3>1
    <3>2. CASE run'.queue = Tail(run.queue)
      <4>1. PICK t : t = run'.queue
        OBVIOUS
      <4>2. Len(t) = n - 1 /\ \A i \in 1..(n - 1) : t[i] = run.queue[i + 1]
        BY <2>1, <2>3, <3>2, <4>1, QueueIs
      <4>3. \A i \in 1..(n - 1) : i + 1 \in 1..n
        OBVIOUS
      <4> QED
        BY <2>2, <2>3, <4>1, <4>2, <4>3 DEF QueueIsFirst
    <3> QED
      BY <2>1, <3>1, <3>2
  <2> QED
    BY <1>2, <2>1, <2>4
<1>5. CASE UNCHANGED vars
  <2>1. UNCHANGED journal /\ run' = run
    BY <1>5 DEF vars, tables
  <2>2. CASE run.phase = "deliver"
    <3>1. QueueIsFirst(run'.queue)
      BY <2>1, <2>2, QueueFirstIs
    <3> QED
      BY <1>2, <2>1, <2>2, <3>1
  <2> QED
    BY <1>1, <2>1, <2>2
<1> QED
  BY <1>1, <1>3, <1>4, <1>5, OutsideDelivery

(***************************************************************************)
(* The intents of the outbox.                                              *)
(***************************************************************************)
LEMMA IntentIs ==
    /\ \A e, k, s : /\ Intent(e, k, s).event = e /\ Intent(e, k, s).kind = k
                    /\ Intent(e, k, s).state = s
    /\ \A n \in IntentKinds : /\ n = Intent(n.event, n.kind, n.state)
                              /\ n.event \in DOMAIN journal /\ n.kind \in EffectKinds
                              /\ n.state \in {"created", "completed"}
BY DEF Intent, IntentKinds

LEMMA OpenedIs ==
    ASSUME Typed, Attempts
    PROVE  /\ \A n \in IntentsOpened :
                 \/ n \in intents
                 \/ /\ run.flow = "intent_outbox"
                    /\ n.event = item.event /\ n.kind = item.kind /\ n.state = "created"
BY IntentIs DEF IntentsOpened

LEMMA CompletedIs ==
    ASSUME Typed, Attempts, NEW open \in {intents, IntentsOpened}
    PROVE  \A n \in IntentsCompleted(open) :
              /\ \/ n \in intents
                 \/ /\ run.flow = "intent_outbox"
                    /\ n.event = item.event /\ n.kind = item.kind
              /\ run.flow = "intent_outbox" /\ n.state = "created" =>
                    n \in intents /\ ~(n.event = item.event /\ n.kind = item.kind)
<1> SUFFICES ASSUME NEW n \in IntentsCompleted(open)
             PROVE  /\ \/ n \in intents
                       \/ /\ run.flow = "intent_outbox"
                          /\ n.event = item.event /\ n.kind = item.kind
                    /\ run.flow = "intent_outbox" /\ n.state = "created" =>
                          n \in intents /\ ~(n.event = item.event /\ n.kind = item.kind)
  OBVIOUS
<1>1. PICK c, d : /\ c = Intent(item.event, item.kind, "created")
                  /\ d = Intent(item.event, item.kind, "completed")
  OBVIOUS
<1>2. \A m \in open : \/ m \in intents
                      \/ /\ run.flow = "intent_outbox"
                         /\ m.event = item.event /\ m.kind = item.kind
  BY OpenedIs
<1>3. open \subseteq IntentKinds
  BY IntentsTyped
<1>4. \A m \in open : m.state = "created" /\ m.event = item.event /\ m.kind = item.kind => m = c
  BY <1>1, <1>3, IntentIs
<1>5. d.event = item.event /\ d.kind = item.kind /\ d.state = "completed"
  BY <1>1, IntentIs
<1>6. CASE run.flow = "intent_outbox" /\ c \in open
  <2>1. IntentsCompleted(open) = (open \ {c}) \cup {d}
    BY <1>1, <1>6 DEF IntentsCompleted
  <2> QED
    BY <1>2, <1>4, <1>5, <1>6, <2>1
<1>7. CASE ~(run.flow = "intent_outbox" /\ c \in open)
  <2>1. IntentsCompleted(open) = open
    BY <1>1, <1>7 DEF IntentsCompleted
  <2> QED
    BY <1>2, <1>4, <1>7, <2>1
<1> QED
  BY <1>6, <1>7

LEMMA FirstIntents ==
    ASSUME Typed, IntentsFirst, Typed',
           journal' = journal \/ \E c : journal' = Append(journal, c),
           \A n \in intents' :
              \/ n \in intents
              \/ /\ run.flow = "intent_outbox" /\ Attempts /\ QueueFirst
                 /\ n.event = item.event /\ n.kind = item.kind
    PROVE  IntentsFirst'
<1> SUFFICES ASSUME NEW n \in intents'
             PROVE  /\ FirstOnly(PairOf(n.event))' => n.event = EventOf(PairOf(n.event))'
                    /\ n.kind = "notify" => Notified(PairOf(n.event))'
  BY DEF IntentsFirst
<1>1. PICK e : e = n.event
  OBVIOUS
<1>2. e \in DOMAIN journal
        /\ (FirstOnly(PairOf(e)) => e = EventOf(PairOf(e)))
        /\ (n.kind = "notify" => Notified(PairOf(e)))
  <2>1. CASE n \in intents
    <3>1. intents \subseteq IntentKinds
      BY DEF Typed, TypeOK, IntentKinds
    <3>2. e \in DOMAIN journal
      BY <1>1, <2>1, <3>1, IntentIs
    <3> QED
      BY <1>1, <2>1, <3>2 DEF IntentsFirst
  <2>2. CASE /\ run.flow = "intent_outbox" /\ Attempts /\ QueueFirst
             /\ n.event = item.event /\ n.kind = item.kind
    <3>1. /\ run.phase = "deliver" /\ item = run.queue[1] /\ item.event \in DOMAIN journal
          /\ Len(run.queue) \in Nat \ {0}
      BY <2>2, QueueIs
    <3>2. 1 \in 1..Len(run.queue)
      BY <3>1
    <3>3. Deliverable(e) /\ (n.kind = "notify" => run.script.notify)
      <4>1. QueueIsFirst(run.queue)
        BY <2>2, <3>1, QueueFirstIs
      <4> QED
        BY <1>1, <2>2, <3>1, <3>2, <4>1 DEF QueueIsFirst
    <3>4. PICK s \in AllScripts : s = run.script
      BY <3>1, Accepted
    <3>5. PairOf(e) \in Pairs(s)
      BY <3>3, <3>4 DEF Deliverable
    <3>6. /\ FirstOnly(PairOf(e)) <=> s.deliver \in {"accepted", "twice"}
          /\ Notified(PairOf(e)) <=> s.notify
      BY <3>5, WorkloadsOf
    <3>7. FirstOnly(PairOf(e)) => e = EventOf(PairOf(e))
      BY <2>2, <3>3, <3>4, <3>6 DEF Deliverable
    <3> QED
      BY <1>1, <2>2, <3>1, <3>3, <3>4, <3>6, <3>7
  <2> QED
    BY <2>1, <2>2
<1>3. PICK p : p = PairOf(e)
  OBVIOUS
<1>4. Rows(p) # {}
  BY <1>2, <1>3 DEF Rows, PairOf
<1>5. EventOf(p)' = EventOf(p) /\ PairOf(n.event)' = p
  BY <1>1, <1>2, <1>3, <1>4, EventsStay DEF Typed, PairOf
<1>6. (FirstOnly(p) => e = EventOf(p)) /\ (n.kind = "notify" => Notified(p))
  BY <1>2, <1>3
<1> QED
  BY <1>1, <1>5, <1>6 DEF FirstOnly, Notified

LEMMA IntentsFirstStep ==
    ASSUME Typed, QueueFirst, IntentsFirst, [Next]_vars
    PROVE  IntentsFirst'
<1>1. Typed'
  BY TypedStep
<1>2. CASE Restore
  BY <1>2 DEF Restore, IntentsFirst
<1>3. CASE DeliverReuses
  <2>1. Attempts /\ intents' = IntentsCompleted(intents) /\ UNCHANGED journal
    BY <1>3 DEF DeliverReuses
  <2>2. \A n \in intents' :
           n \in intents \/ (/\ run.flow = "intent_outbox"
                             /\ n.event = item.event /\ n.kind = item.kind)
    BY <2>1, CompletedIs
  <2> QED
    BY <1>1, <2>1, <2>2, FirstIntents
<1>4. CASE DeliverSettles
  <2>1. Attempts /\ intents' = IntentsCompleted(IntentsOpened) /\ UNCHANGED journal
    BY <1>4 DEF DeliverSettles
  <2>2. \A n \in intents' :
           n \in intents \/ (/\ run.flow = "intent_outbox"
                             /\ n.event = item.event /\ n.kind = item.kind)
    BY <2>1, CompletedIs
  <2> QED
    BY <1>1, <2>1, <2>2, FirstIntents
<1>5. CASE DeliverTransient \/ DeliverCutpoint
  <2>1. Attempts /\ intents' = IntentsOpened /\ UNCHANGED journal
    BY <1>5 DEF DeliverTransient, DeliverCutpoint
  <2>2. \A n \in intents' :
           n \in intents \/ (/\ run.flow = "intent_outbox"
                             /\ n.event = item.event /\ n.kind = item.kind)
    BY <2>1, OpenedIs
  <2> QED
    BY <1>1, <2>1, <2>2, FirstIntents
<1>6. CASE ~Restore /\ ~DeliverReuses /\ ~DeliverSettles /\ ~DeliverTransient
           /\ ~DeliverCutpoint
  <2>1. intents' = intents /\ (journal' = journal \/ \E c : journal' = Append(journal, c))
    BY <1>6 DEF Next, Step, StartRun, AcceptReuses, AcceptAppends, Register, CommandRejected,
                PlanDeliveries, DeliveryExhausted, FinishRun, tables, vars
  <2> QED
    BY <1>1, <2>1, FirstIntents
<1> QED
  BY <1>2, <1>3, <1>4, <1>5, <1>6

(* An intent whose delivery the run owes.                                    *)
Wanted(n) ==
    /\ n.state = "created"
    /\ \/ n.kind = "settlement" /\ n.event \in Owed
       \/ n.kind = "notify" /\ run.script.notify /\ n.event = run.accepted[1]

LEMMA WantedSame ==
    ASSUME UNCHANGED journal, run'.script = run.script, run'.accepted = run.accepted
    PROVE  \A n : Wanted(n)' => Wanted(n)
<1>1. \A e : e \in Owed' <=> e \in Owed
  BY OwedSame
<1> QED
  BY <1>1 DEF Wanted

LEMMA OpenQueuedIs ==
    OpenQueued <=>
        (run.phase = "deliver" /\ run.flow = "intent_outbox" =>
            \A n \in intents : Wanted(n) =>
                \E i \in 1..Len(run.queue) : /\ run.queue[i].event = n.event
                                             /\ run.queue[i].kind = n.kind)
BY DEF OpenQueued, Wanted

LEMMA OpenQueuedNext ==
    ASSUME UNCHANGED journal, run'.script = run.script, run'.accepted = run.accepted,
           run'.flow = "intent_outbox" =>
              \A n \in intents' : Wanted(n) =>
                  \E i \in 1..Len(run'.queue) : /\ run'.queue[i].event = n.event
                                                /\ run'.queue[i].kind = n.kind
    PROVE  OpenQueued'
<1>1. \A n : Wanted(n)' => Wanted(n)
  BY WantedSame
<1>2. run'.flow = "intent_outbox" =>
         \A n \in intents' : Wanted(n)' =>
             \E i \in 1..Len(run'.queue) : /\ run'.queue[i].event = n.event
                                           /\ run'.queue[i].kind = n.kind
  BY <1>1
<1> QED
  BY <1>2 DEF OpenQueued, Wanted

LEMMA OpenQueuedStep ==
    ASSUME Typed, OpenQueued, PlanDeliveries \/ DeliverReuses \/ DeliverTransient
                                \/ DeliverCutpoint \/ DeliverSettles
    PROVE  OpenQueued'
<1>1. CASE PlanDeliveries
  <2>1. /\ UNCHANGED <<journal, intents>> /\ run'.script = run.script
        /\ run'.accepted = run.accepted
    BY <1>1, PlanIs
  <2>2. ASSUME NEW n \in intents', Wanted(n)
        PROVE  \E i \in 1..Len(run'.queue) : /\ run'.queue[i].event = n.event
                                             /\ run'.queue[i].kind = n.kind
    <3>1. CASE n.kind = "settlement" /\ n.event \in Owed
      <4>1. \E i \in 1..Len(run'.queue) : /\ run'.queue[i].event = n.event
                                          /\ run'.queue[i].kind = "settlement"
        BY <1>1, <3>1, PlanIs
      <4> QED
        BY <3>1, <4>1
    <3>2. CASE n.kind = "notify" /\ run.script.notify /\ n.event = run.accepted[1]
      <4>1. \E i \in 1..Len(run'.queue) : /\ run'.queue[i].event = run.accepted[1]
                                          /\ run'.queue[i].kind = "notify"
        BY <1>1, <3>2, PlanIs
      <4> QED
        BY <3>2, <4>1
    <3> QED
      BY <2>2, <3>1, <3>2 DEF Wanted
  <2> QED
    BY <2>1, <2>2, OpenQueuedNext
<1>2. CASE DeliverReuses \/ DeliverTransient \/ DeliverCutpoint \/ DeliverSettles
  <2>1. CASE run'.phase = "idle"
    BY <2>1 DEF OpenQueued
  <2>2. CASE run'.phase # "idle"
    <3>1. /\ run.phase = "deliver" /\ UNCHANGED journal /\ Attempts
          /\ run'.script = run.script /\ run'.flow = run.flow
          /\ run'.accepted = run.accepted
          /\ \/ run'.queue = run.queue /\ (DeliverTransient \/ DeliverCutpoint)
             \/ run'.queue = Tail(run.queue) /\ (DeliverReuses \/ DeliverSettles)
      BY <1>2, <2>2, DeliveryRun, Endings
    <3>2. PICK m \in Nat \ {0} : m = Len(run.queue)
      BY <3>1, QueueIs
    <3>3. run.queue[1] = item
      BY <3>1, QueueIs
    <3>4. ASSUME run.flow = "intent_outbox", NEW n \in intents', Wanted(n)
          PROVE  \E i \in 1..Len(run'.queue) : /\ run'.queue[i].event = n.event
                                               /\ run'.queue[i].kind = n.kind
      <4>1. n \in intents =>
               \E i \in 1..m : run.queue[i].event = n.event /\ run.queue[i].kind = n.kind
        BY <3>1, <3>2, <3>4, OpenQueuedIs
      <4>2. CASE run'.queue = run.queue /\ (DeliverTransient \/ DeliverCutpoint)
        <5>1. intents' = IntentsOpened
          BY <4>2 DEF DeliverTransient, DeliverCutpoint
        <5>2. n \in intents \/ (n.event = item.event /\ n.kind = item.kind)
          BY <3>1, <3>4, <5>1, OpenedIs
        <5>3. 1 \in 1..m
          OBVIOUS
        <5> QED
          BY <3>2, <3>3, <4>1, <4>2, <5>2, <5>3
      <4>3. CASE run'.queue = Tail(run.queue) /\ (DeliverReuses \/ DeliverSettles)
        <5>1. \E open \in {intents, IntentsOpened} : intents' = IntentsCompleted(open)
          BY <4>3 DEF DeliverReuses, DeliverSettles
        <5>2. n \in intents /\ ~(n.event = item.event /\ n.kind = item.kind)
          BY <3>1, <3>4, <5>1, CompletedIs DEF Wanted
        <5>3. PICK i \in 1..m : run.queue[i].event = n.event /\ run.queue[i].kind = n.kind
          BY <4>1, <5>2
        <5>4. i # 1
          BY <3>3, <5>2, <5>3
        <5>5. i - 1 \in 1..(m - 1) /\ (i - 1) + 1 = i
          BY <5>4
        <5>6. PICK t : t = run'.queue
          OBVIOUS
        <5>7. Len(t) = m - 1 /\ \A j \in 1..(m - 1) : t[j] = run.queue[j + 1]
          BY <3>1, <3>2, <4>3, <5>6, QueueIs
        <5>8. t[i - 1] = run.queue[i]
          BY <5>5, <5>7
        <5> QED
          BY <5>3, <5>5, <5>6, <5>7, <5>8
      <4> QED
        BY <3>1, <4>2, <4>3
    <3> QED
      BY <3>1, <3>4, OpenQueuedNext
  <2> QED
    BY <2>1, <2>2
<1> QED
  BY <1>1, <1>2

(***************************************************************************)
(* The tables agree.                                                       *)
(***************************************************************************)
(* The first event a script that has none refused returned is the first row  *)
(* of its first occurrence.                                                  *)
LEMMA FirstAccepted ==
    ASSUME Typed, AcceptedFirst, run.phase = "deliver", run.script.judge = "event",
           run.flow # "default"
    PROVE  /\ Pairs(run.script) = {PairOf(run.accepted[1])}
           /\ run.accepted[1] = EventOf(PairOf(run.accepted[1]))
           /\ run.accepted[1] \in DOMAIN journal
           /\ Owed = {run.accepted[1]}
           /\ PairOf(run.accepted[1]) # IncidentPair
<1>1. PICK s \in AllScripts : s = run.script
  BY Accepted
<1>2. /\ Len(s.commands) = 1 /\ s.deliver = "accepted" /\ ~s.tolerant
      /\ IncidentPair \notin Pairs(s)
  BY <1>1, CommandsOf DEF ScriptShape
<1>3. Len(run.accepted) = 1
  BY <1>1, <1>2, Accepted DEF Count
<1>4. Owed = {run.accepted[1]}
  <2>1. Owed = {run.accepted[i] : i \in 1..1}
    BY <1>1, <1>2, <1>3 DEF Owed
  <2> QED
    BY <2>1
<1>5. /\ PairOf(run.accepted[1]) \in Pairs(s)
      /\ run.accepted[1] = EventOf(PairOf(run.accepted[1]))
  BY <1>1, <1>3 DEF AcceptedFirst
<1>6. \A p \in Pairs(s) : p = s.commands[1].pair
  BY <1>2, CommandsOf
<1>7. run.accepted[1] \in DOMAIN journal
  BY <1>3, Accepted
<1> QED
  BY <1>1, <1>2, <1>4, <1>5, <1>6, <1>7

LEMMA PassCloses ==
    ASSUME Typed, AcceptedFirst, IntentsFirst, OpenQueued,
           run.phase = "deliver", run.queue = <<>>, run.flow = "intent_outbox",
           run.script.judge \notin {"none", "journal"}, Passed,
           NEW n \in intents, n.event \in RowsOf(run.script)
    PROVE  n.state = "completed"
<1>1. n \in IntentKinds
  BY DEF Typed, TypeOK, IntentKinds
<1>2. n.kind \in EffectKinds /\ n.state \in {"created", "completed"}
  BY <1>1, IntentIs
<1>3. PICK s \in AllScripts : s = run.script
  BY Accepted
<1>4. ScriptShape(s)
  BY CommandsOf
<1>5. s.judge \in {"counts", "durable", "event"}
  BY <1>3, <1>4 DEF ScriptShape
<1>6. PICK p : p = PairOf(n.event) /\ p \in Pairs(s)
  BY <1>3 DEF RowsOf, Rows, PairOf
<1>7. Len(run.queue) = 0
  OBVIOUS
<1>8. ~Wanted(n)
  BY <1>7, OpenQueuedIs
<1>9. s.judge = "event" => n.event = run.accepted[1]
  <2> SUFFICES ASSUME s.judge = "event"
               PROVE  n.event = run.accepted[1]
    OBVIOUS
  <2>1. /\ Pairs(s) = {PairOf(run.accepted[1])}
        /\ run.accepted[1] = EventOf(PairOf(run.accepted[1]))
    BY <1>3, FirstAccepted
  <2>2. s.deliver = "accepted"
    BY <1>4 DEF ScriptShape
  <2>3. n.event = EventOf(p)
    BY <1>6, <2>2, WorkloadsOf DEF IntentsFirst
  <2> QED
    BY <1>6, <2>1, <2>3
<1>10. n.event \in Owed
  <2>1. CASE s.judge = "event"
    BY <1>3, <1>9, <2>1, FirstAccepted
  <2>2. CASE s.judge \in {"counts", "durable"}
    <3>1. Counted(RowsOf(s), Cardinality(Pairs(s)))
      BY <1>3, <2>2 DEF Passed
    <3>2. RowsOf(s) \subseteq Owed
      BY <1>3, <2>2, <3>1, ExactRows DEF Counted
    <3> QED
      BY <1>3, <3>2
  <2> QED
    BY <1>5, <2>1, <2>2
<1>11. CASE n.kind = "settlement"
  BY <1>2, <1>8, <1>10, <1>11 DEF Wanted
<1>12. CASE n.kind = "notify"
  <2>1. s.notify
    BY <1>6, <1>12, WorkloadsOf DEF IntentsFirst
  <2>2. s.judge = "event"
    BY <1>4, <2>1 DEF ScriptShape
  <2> QED
    BY <1>2, <1>3, <1>8, <1>9, <1>12, <2>1, <2>2 DEF Wanted
<1> QED
  BY <1>2, <1>11, <1>12 DEF EffectKinds

LEMMA OutboxClosedStep ==
    ASSUME Typed, Kept, OutboxKept, OutboxClosed, [Next]_vars
    PROVE  OutboxClosed'
<1>1. CASE run'.outcome # "pass"
  BY <1>1 DEF OutboxClosed
<1>2. CASE UNCHANGED vars
  <2>1. \A p : Rows(p)' = Rows(p)
    BY <1>2, RowsSame DEF vars, tables
  <2>2. RowsOf(run.script)' = RowsOf(run.script)
    BY <1>2, <2>1 DEF vars, RowsOf
  <2> QED
    BY <1>2, <2>2 DEF OutboxClosed, vars, tables
<1>3. CASE FinishRun
  <2>1. /\ run.phase = "deliver" /\ run.queue = <<>> /\ Ends(Outcome)
        /\ UNCHANGED <<journal, intents>>
    BY <1>3 DEF FinishRun, Running, tables
  <2>2. run'.outcome = Outcome /\ run'.script = run.script /\ run'.flow = run.flow
    BY <2>1, Endings
  <2>3. \A p : Rows(p)' = Rows(p)
    BY <2>1, RowsSame
  <2>4. RowsOf(run.script)' = RowsOf(run.script)
    BY <2>2, <2>3 DEF RowsOf
  <2> SUFFICES ASSUME Outcome = "pass", run.flow = "intent_outbox",
                      run.script.judge # "journal",
                      NEW n \in intents, n.event \in RowsOf(run.script)
               PROVE  n.state = "completed"
    BY <2>1, <2>2, <2>4 DEF OutboxClosed
  <2>5. run.script.judge # "none" /\ Passed
    BY DEF Outcome
  <2> QED
    BY <2>1, <2>5, PassCloses DEF OutboxKept
<1> QED
  BY <1>1, <1>2, <1>3, VerdictStep, Endings

LEMMA OutboxStep ==
    ASSUME Typed, Kept, OutboxKept, [Next]_vars
    PROVE  OutboxKept'
<1>1. AcceptedFirst' /\ QueueFirst' /\ IntentsFirst'
  BY AcceptedFirstStep, QueueFirstStep, IntentsFirstStep DEF OutboxKept
<1>2. OpenQueued'
  <2>1. CASE PlanDeliveries \/ DeliverReuses \/ DeliverTransient
               \/ DeliverCutpoint \/ DeliverSettles
    BY <2>1, OpenQueuedStep DEF OutboxKept
  <2>2. CASE run'.phase # "deliver"
    BY <2>2 DEF OpenQueued
  <2>3. CASE UNCHANGED vars
    <3>1. UNCHANGED <<journal, intents>> /\ run' = run
      BY <2>3 DEF vars, tables
    <3>2. CASE run.phase = "deliver"
      BY <3>1, <3>2, OpenQueuedIs, OpenQueuedNext DEF OutboxKept
    <3> QED
      BY <2>2, <3>1, <3>2
  <2> QED
    BY <2>1, <2>2, <2>3, OutsideDelivery
<1> QED
  BY <1>1, <1>2 DEF OutboxKept

LEMMA InitOutbox == Init => OutboxKept /\ OutboxClosed
BY NoRunIs DEF Init, OutboxKept, AcceptedFirst, QueueFirst, IntentsFirst, OpenQueued,
               OutboxClosed

(* What is registered with a row of its own is registered with the first.    *)
LEMMA RegisteredFirst ==
    ASSUME Typed, Kept, "default" \notin ran, NEW r \in registered, r.pair # IncidentPair
    PROVE  r.event = EventOf(r.pair)
<1>1. PICK p : p = r.pair
  OBVIOUS
<1>2. r.event \in Rows(p)
  BY <1>1 DEF Kept, RegisteredRows
<1>3. EventOf(p) \in Rows(p)
  BY <1>2, RowsAre DEF Typed
<1> QED
  BY <1>1, <1>2, <1>3 DEF Kept, OneRowEach, Rows

LEMMA AlwaysOutbox == Spec => [](Typed /\ Kept /\ OutboxKept)
<1>1. Init => OutboxKept
  BY InitOutbox
<1>2. Typed /\ Kept /\ OutboxKept /\ [Next]_vars => OutboxKept'
  BY OutboxStep
<1> QED
  BY <1>1, <1>2, AlwaysKept, PTL DEF Spec

(* The durable tables agree: a command is registered with the event that     *)
(* get_event_id answers, a completed intent has its effect, and an outbox    *)
(* run that passes leaves no intent of its rows open.                        *)
THEOREM TablesAlwaysAgree == Spec => []TablesAgree
<1>1. Init => OutboxClosed
  BY InitOutbox
<1>2. Typed /\ Kept /\ OutboxKept /\ OutboxClosed /\ [Next]_vars => OutboxClosed'
  BY OutboxClosedStep
<1>3. Spec => []OutboxClosed
  BY <1>1, <1>2, AlwaysOutbox, PTL DEF Spec
<1>4. Typed /\ Kept /\ OutboxClosed => TablesAgree
  <2> SUFFICES ASSUME Typed, Kept, OutboxClosed
               PROVE  TablesAgree
    OBVIOUS
  <2>1. "default" \notin ran =>
           \A r \in registered : r.pair # IncidentPair => r.event = EventOf(r.pair)
    BY RegisteredFirst
  <2> QED
    BY <2>1 DEF TablesAgree, Kept, CompletedHaveEffect, OutboxClosed
<1> QED
  BY <1>3, <1>4, AlwaysKept, PTL

(***************************************************************************)
(* The attempts of the delivery loop.                                      *)
(***************************************************************************)
LEMMA DeliveryTries ==
    ASSUME Typed,
           DeliverReuses \/ DeliverTransient \/ DeliverCutpoint \/ DeliverSettles
    PROVE  \/ Ends("raised")
           \/ /\ run'.script = run.script /\ run'.budget = run.budget
              /\ \/ run'.tries = 0 /\ run'.transient = run.transient
                 \/ /\ run.transient /\ run'.transient = FALSE
                    /\ run'.tries = run.tries + 1
<1>1. DOMAIN run = RunFields
  BY DEF Typed
<1>2. CASE DeliverReuses \/ DeliverSettles
  <2>1. run' = [run EXCEPT !.queue = Tail(@), !.tries = 0]
    BY <1>2 DEF DeliverReuses, DeliverSettles, Delivered
  <2> QED
    BY <1>1, <2>1 DEF RunFields
<1>3. CASE DeliverCutpoint
  BY <1>1, <1>3 DEF DeliverCutpoint, RunFields
<1>4. CASE DeliverTransient
  <2>1. run.transient /\ (run' = Retried \/ Ends("raised"))
    BY <1>4 DEF DeliverTransient
  <2> QED
    BY <1>1, <2>1 DEF Retried, RunFields
<1> QED
  BY <1>2, <1>3, <1>4

LEMMA TriesStep ==
    ASSUME Typed, Tries, [Next]_vars
    PROVE  Tries'
<1>1. CASE run'.phase = "idle"
  BY <1>1 DEF Tries
<1>2. ASSUME NEW script \in Scripts[profile], NEW revision \in Revisions,
             StartRun(script, revision)
      PROVE  Tries'
  <2>1. revision.budget \in Nat
    BY RevisionAssumption
  <2> QED
    BY <1>2, <2>1, StartedRun DEF Tries
<1>3. CASE AcceptReuses \/ AcceptAppends \/ Register \/ CommandRejected
  BY <1>1, <1>3, IntakeRun, Endings DEF Tries
<1>4. CASE PlanDeliveries
  BY <1>4, PlanIs, PlanRun DEF Tries
<1>5. CASE DeliverReuses \/ DeliverTransient \/ DeliverCutpoint \/ DeliverSettles
  <2>1. run.phase = "deliver"
    BY <1>5, DeliveryRun
  <2> QED
    <3>1. CASE Ends("raised")
      BY <1>1, <3>1, Endings
    <3>2. CASE ~Ends("raised")
      <4>1. /\ run.tries \in {0, 1} /\ run.budget \in Nat
            /\ run.tries = 1 => run.script.transient /\ ~run.transient
            /\ run.transient => run.script.transient
        BY <2>1 DEF Tries
      <4>2. CASE run'.tries = 0 /\ run'.transient = run.transient
                 /\ run'.script = run.script /\ run'.budget = run.budget
        BY <4>1, <4>2 DEF Tries
      <4>3. CASE run.transient /\ run'.transient = FALSE /\ run'.tries = run.tries + 1
                 /\ run'.script = run.script /\ run'.budget = run.budget
        <5>1. run.tries = 0 /\ run.script.transient
          BY <4>1, <4>3
        <5>2. run'.tries = 1 /\ run'.script.transient /\ ~run'.transient
          BY <4>3, <5>1
        <5> QED
          BY <4>1, <4>3, <5>2 DEF Tries
      <4> QED
        BY <1>5, <3>2, <4>2, <4>3, DeliveryTries
    <3> QED
      BY <3>1, <3>2
<1>6. CASE UNCHANGED vars
  BY <1>6 DEF vars, Tries
<1> QED
  BY <1>1, <1>2, <1>3, <1>4, <1>5, <1>6, EndRun DEF Next, Step

(***************************************************************************)
(* The effects of the repairs.                                             *)
(***************************************************************************)
LEMMA EffectsStep ==
    ASSUME [Next]_vars
    PROVE  \/ Restore
           \/ /\ effects' = effects /\ ran \subseteq ran'
              /\ journal' = journal \/ \E c : journal' = Append(journal, c)
           \/ /\ DeliverCutpoint \/ DeliverSettles
              /\ Attempts /\ EffectInserted /\ ~AlreadySettled
              /\ journal' = journal /\ ran' = ran
BY DEF Next, Step, StartRun, AcceptReuses, AcceptAppends, Register, CommandRejected,
       PlanDeliveries, DeliverReuses, DeliverTransient, DeliverCutpoint, DeliverSettles,
       DeliveryExhausted, FinishRun, tables, history, vars

LEMMA NotSettledYet ==
    ASSUME Typed, Attempts, ~AlreadySettled, "default" \notin ran
    PROVE  ~HasEffect(item.event, item.kind)
<1>1. run.flow \in Flows /\ run.flow # "default"
  BY QueueIs DEF Typed, Live
<1>2. CASE run.flow = "broad_event_dedup"
  <2>1. EffectsOf({item.event}) = {}
    BY <1>2 DEF AlreadySettled
  <2> QED
    BY <2>1 DEF EffectsOf, HasEffect
<1>3. CASE run.flow \in Repairs
  BY <1>3 DEF AlreadySettled, Repairs
<1> QED
  BY <1>1, <1>2, <1>3 DEF Flows

LEMMA OneEffectStep ==
    ASSUME Typed, OneEffectEach, [Next]_vars
    PROVE  OneEffectEach'
<1> SUFFICES ASSUME "default" \notin ran', NEW i \in DOMAIN effects', NEW j \in DOMAIN effects',
                    effects'[i].event = effects'[j].event,
                    effects'[i].kind = effects'[j].kind,
                    \A e : e = effects'[i].event => PairOf(e)' # IncidentPair
             PROVE  i = j
  <2>1. ASSUME NEW i \in DOMAIN effects'
        PROVE  \A e : e = effects'[i].event => PairOf(e)' = PairOf(effects[i].event)'
    BY DEF PairOf
  <2> QED
    BY <2>1 DEF OneEffectEach
<1>1. CASE Restore
  BY <1>1 DEF Restore
<1>2. CASE /\ effects' = effects /\ ran \subseteq ran'
           /\ journal' = journal \/ \E c : journal' = Append(journal, c)
  <2>1. effects[i].event \in DOMAIN journal
    BY <1>2, EffectsTyped DEF Typed
  <2>2. PairOf(effects[i].event) # IncidentPair
    <3>1. PICK e : e = effects[i].event
      OBVIOUS
    <3>2. PairOf(e)' # IncidentPair
      BY <1>2, <3>1
    <3>3. journal'[e] = journal[e]
      BY <1>2, <2>1, <3>1, EventsStay DEF Typed
    <3> QED
      BY <3>1, <3>2, <3>3 DEF PairOf
  <2> QED
    BY <1>2, <2>2 DEF OneEffectEach
<1>3. CASE /\ Attempts /\ EffectInserted /\ ~AlreadySettled
           /\ journal' = journal /\ ran' = ran
  <2>1. ~HasEffect(item.event, item.kind)
    BY <1>3, NotSettledYet
  <2>2. PICK n : n = Len(effects) + 1
    OBVIOUS
  <2>3. /\ \A k \in DOMAIN effects : effects'[k] = effects[k]
        /\ effects'[n].event = item.event /\ effects'[n].kind = item.kind
        /\ \A k \in DOMAIN effects' : k \in DOMAIN effects \/ k = n
    BY <1>3, <2>2, EffectsGrow
  <2>4. \A k \in DOMAIN effects :
           ~(effects[k].event = item.event /\ effects[k].kind = item.kind)
    BY <2>1 DEF HasEffect
  <2>5. CASE i \in DOMAIN effects /\ j \in DOMAIN effects
    <3>1. PICK e : e = effects[i].event
      OBVIOUS
    <3>2. PairOf(e)' # IncidentPair
      BY <2>3, <2>5, <3>1
    <3>3. PairOf(effects[i].event) # IncidentPair
      BY <1>3, <3>1, <3>2 DEF PairOf
    <3> QED
      BY <1>3, <2>3, <2>5, <3>3 DEF OneEffectEach
  <2>6. CASE ~(i \in DOMAIN effects /\ j \in DOMAIN effects)
    BY <2>3, <2>4, <2>6
  <2> QED
    BY <2>5, <2>6
<1> QED
  BY <1>1, <1>2, <1>3, EffectsStep

LEMMA EffectsNotifyStep ==
    ASSUME Typed, QueueFirst, EffectsNotify, [Next]_vars
    PROVE  EffectsNotify'
<1>1. CASE Restore
  BY <1>1 DEF Restore, EffectsNotify
<1> SUFFICES ASSUME ~Restore, NEW i \in DOMAIN effects', effects'[i].kind = "notify",
                    NEW e, e = effects'[i].event
             PROVE  Notified(journal'[e].pair)
  BY <1>1 DEF EffectsNotify, PairOf, Notified
<1>2. ASSUME i \in DOMAIN effects, effects'[i] = effects[i],
             journal' = journal \/ \E c : journal' = Append(journal, c)
      PROVE  Notified(journal'[e].pair)
  <2>1. e = effects[i].event /\ e \in DOMAIN journal
    BY <1>2, EffectsTyped DEF Typed
  <2>2. journal'[e] = journal[e]
    BY <1>2, <2>1, EventsStay DEF Typed
  <2> QED
    BY <1>2, <2>1, <2>2 DEF EffectsNotify, PairOf
<1>3. CASE /\ effects' = effects
           /\ journal' = journal \/ \E c : journal' = Append(journal, c)
  BY <1>2, <1>3
<1>4. CASE Attempts /\ EffectInserted /\ journal' = journal
  <2>1. CASE i \in DOMAIN effects
    BY <1>2, <1>4, <2>1, EffectsGrow
  <2>2. CASE i \notin DOMAIN effects
    <3>1. e = item.event /\ item.kind = "notify"
      BY <1>4, <2>2, EffectsGrow
    <3>2. run.phase = "deliver" /\ item = run.queue[1] /\ Len(run.queue) \in Nat \ {0}
      BY <1>4, QueueIs
    <3>3. 1 \in 1..Len(run.queue)
      BY <3>2
    <3>4. PairOf(e) \in Pairs(run.script) /\ run.script.notify
      BY <3>1, <3>2, <3>3 DEF QueueFirst
    <3>5. run.script \in AllScripts
      BY <3>2 DEF Typed, Live
    <3> QED
      BY <1>4, <3>4, <3>5 DEF Notified, PairOf
  <2> QED
    BY <2>1, <2>2
<1> QED
  BY <1>3, <1>4, EffectsStep

LEMMA NotifyOwedStep ==
    ASSUME Typed, Kept, NotifyOwed, [Next]_vars
    PROVE  NotifyOwed'
<1>1. CASE run'.phase # "deliver"
  BY <1>1 DEF NotifyOwed
<1>2. CASE UNCHANGED vars
  <2>1. run' = run /\ ran' = ran /\ effects' = effects
    BY <1>2 DEF vars, tables, history
  <2> QED
    BY <2>1 DEF NotifyOwed, HasEffect
<1>3. CASE PlanDeliveries
  BY <1>3, PlanIs DEF NotifyOwed
<1>4. CASE DeliverReuses \/ DeliverTransient \/ DeliverCutpoint \/ DeliverSettles
  <2> SUFFICES ASSUME run'.phase = "deliver", ran \subseteq Repairs, run.script.notify,
                      NEW e, e = run.accepted[1]
               PROVE  \/ HasEffect(e, "notify")'
                      \/ \E i \in 1..Len(run'.queue) : /\ run'.queue[i].event = e
                                                       /\ run'.queue[i].kind = "notify"
    <3>1. /\ run'.phase = "deliver" => /\ ran' = ran /\ run'.script = run.script
                                       /\ run'.accepted = run.accepted
      BY <1>4, DeliveryRun, Endings
    <3>2. \A e : e = run'.accepted[1] =>
             (HasEffect(e, "notify")' => HasEffect(run.accepted[1], "notify")')
      BY DEF HasEffect
    <3> QED
      BY <3>1, <3>2 DEF NotifyOwed
  <2>1. /\ run.phase = "deliver" /\ Attempts
        /\ \/ run'.queue = run.queue
           \/ run'.queue = Tail(run.queue) /\ (DeliverReuses \/ DeliverSettles)
    BY <1>4, DeliveryRun, Endings
  <2>2. \A k : HasEffect(e, k) => HasEffect(e, k)'
    <3>1. effects' = effects \/ EffectInserted
      BY <1>4 DEF DeliverReuses, DeliverTransient, DeliverCutpoint, DeliverSettles
    <3> QED
      BY <2>1, <3>1, EffectsRemain
  <2>3. \/ HasEffect(e, "notify")
        \/ \E i \in 1..Len(run.queue) : /\ run.queue[i].event = e
                                        /\ run.queue[i].kind = "notify"
    BY <2>1 DEF NotifyOwed
  <2>4. CASE HasEffect(e, "notify") \/ run'.queue = run.queue
    BY <2>2, <2>3, <2>4
  <2>5. CASE ~HasEffect(e, "notify") /\ run'.queue = Tail(run.queue)
             /\ (DeliverReuses \/ DeliverSettles)
    <3>1. PICK m \in Nat \ {0} : m = Len(run.queue)
      BY <2>1, QueueIs
    <3>2. PICK i \in 1..m : run.queue[i].event = e /\ run.queue[i].kind = "notify"
      BY <2>3, <2>5, <3>1
    <3>3. CASE i = 1
      <4>1. item.event = e /\ item.kind = "notify"
        BY <2>1, <3>2, <3>3, QueueIs
      <4>2. CASE DeliverReuses
        <5>1. AlreadySettled
          BY <4>2 DEF DeliverReuses
        <5>2. run.flow \in Repairs
          BY <2>1 DEF Typed, Live
        <5>3. HasEffect(e, "notify")
          <6>1. CASE run.flow = "logical_identity"
            BY <4>1, <5>1, <6>1 DEF AlreadySettled
          <6>2. CASE run.flow = "intent_outbox"
            BY <2>1, <4>1, <5>1, <6>2, SettledAlready DEF Kept
          <6> QED
            BY <5>2, <6>1, <6>2 DEF Repairs
        <5> QED
          BY <2>5, <5>3
      <4>3. CASE DeliverSettles
        <5>1. EffectInserted
          BY <4>3 DEF DeliverSettles
        <5> QED
          BY <2>1, <4>1, <5>1, EffectsRemain
      <4> QED
        BY <2>5, <4>2, <4>3
    <3>4. CASE i # 1
      <4>1. i - 1 \in 1..(m - 1) /\ (i - 1) + 1 = i
        BY <3>4
      <4>2. PICK t : t = run'.queue
        OBVIOUS
      <4>3. Len(t) = m - 1 /\ \A j \in 1..(m - 1) : t[j] = run.queue[j + 1]
        BY <2>1, <2>5, <3>1, <4>2, QueueIs
      <4>4. t[i - 1] = run.queue[i]
        BY <4>1, <4>3
      <4> QED
        BY <3>2, <4>1, <4>2, <4>3, <4>4
    <3> QED
      BY <3>3, <3>4
  <2> QED
    BY <2>1, <2>4, <2>5
<1> QED
  BY <1>1, <1>2, <1>3, <1>4, OutsideDelivery

(***************************************************************************)
(* The cursor.                                                             *)
(***************************************************************************)
LEMMA AscendingLast ==
    ASSUME NEW S \in SUBSET Nat, IsFiniteSet(S), S # {}
    PROVE  /\ Len(Ascending(S)) \in Nat \ {0}
           /\ \A i \in 1..Len(Ascending(S)) : Ascending(S)[i].kind = "settlement"
           /\ \A e \in S : e <= Ascending(S)[Len(Ascending(S))].seq
<1>1. PICK n \in Nat : n = Cardinality(S) /\ n = Len(Ascending(S))
  BY AscendingIs
<1>2. n # 0
  <2>1. PICK e : e \in S
    OBVIOUS
  <2>2. Rank(S, e) \in 1..n
    BY <1>1, <2>1, BeforeIsFinite
  <2> QED
    BY <2>2
<1>3. ASSUME NEW i \in 1..n
      PROVE  Ascending(S)[i].kind = "settlement"
  <2>1. PICK e \in S : Ascending(S)[i] = Delivery(e, e, "settlement")
    BY <1>1, AscendingIs
  <2> QED
    BY <2>1 DEF Delivery
<1>4. PICK l \in S : Ascending(S)[n] = Delivery(l, l, "settlement") /\ Rank(S, l) = n
  <2>1. n \in 1..n
    BY <1>2
  <2> QED
    BY <1>1, <2>1, AscendingIs
<1>5. ASSUME NEW e \in S
      PROVE  e <= l
  <2>1. l < e => Rank(S, l) < Rank(S, e)
    BY RankGrows
  <2>2. Rank(S, e) \in 1..n
    BY <1>1, BeforeIsFinite
  <2>3. ~(l < e)
    BY <1>4, <2>1, <2>2
  <2> QED
    BY <2>3
<1>6. Ascending(S)[n].seq = l
  BY <1>4 DEF Delivery
<1> QED
  BY <1>1, <1>2, <1>3, <1>5, <1>6

(* The last delivery of these is the youngest event that is owed.            *)
EndsWith(q, events) ==
    /\ Len(q) \in Nat \ {0}
    /\ q[Len(q)].kind = "settlement"
    /\ \A e \in events : e <= q[Len(q)].seq

LEMMA DeliveriesEnd ==
    ASSUME Typed, AcceptedFirst, Ordered, run.phase = "plan",
           run.script.judge = "durable", ran \subseteq Repairs
    PROVE  EndsWith(Deliveries, Owed)
<1>1. PICK s \in AllScripts : s = run.script
  BY Accepted
<1>2. s.deliver = "rows" \/ (s.deliver = "accepted" /\ ~s.tolerant)
  BY <1>1, CommandsOf DEF ScriptShape
<1>3. PICK n \in Nat \ {0} : n = Len(s.commands)
  BY CommandsOf
<1>4. \A i \in 1..n : Rows(s.commands[i].pair) # {}
  BY <1>1, <1>3, Accepted DEF Count
<1>5. CASE s.deliver = "rows"
  <2>1. PICK S : S = RowsOf(s) /\ S \in SUBSET Nat /\ IsFiniteSet(S)
    BY RowsOfAre DEF Typed
  <2>2. S # {}
    <3>1. 1 \in 1..n
      BY <1>3
    <3>2. s.commands[1].pair \in Pairs(s)
      BY <1>3, <3>1, CommandsOf
    <3> QED
      BY <1>4, <2>1, <3>1, <3>2 DEF RowsOf
  <2>3. Deliveries = Ascending(S) /\ Owed = S
    BY <1>1, <1>5, <2>1 DEF Deliveries, Owed
  <2>4. PICK q : q = Ascending(S)
    OBVIOUS
  <2>5. /\ Len(q) \in Nat \ {0}
        /\ \A i \in 1..Len(q) : q[i].kind = "settlement"
        /\ \A e \in S : e <= q[Len(q)].seq
    BY <2>1, <2>2, <2>4, AscendingLast
  <2>6. Len(q) \in 1..Len(q)
    BY <2>5
  <2> QED
    BY <2>3, <2>4, <2>5, <2>6 DEF EndsWith
<1>6. CASE s.deliver = "accepted" /\ ~s.tolerant
  <2>1. /\ Len(run.accepted) = n /\ run.flow # "default" /\ "default" \notin ran
        /\ \A i \in 1..n : run.accepted[i] \in Rows(s.commands[i].pair)
    BY <1>1, <1>3, <1>6, Accepted DEF Count, Live, Repairs
  <2>2. /\ Len(Deliveries) = n
        /\ \A i \in 1..n :
              Deliveries[i] = Delivery(run.accepted[i], run.accepted[i], "settlement")
    BY <1>1, <1>6, <2>1, OwnDeliveries
  <2>3. n \in 1..n
    BY <1>3
  <2>4. Deliveries[n].kind = "settlement" /\ Deliveries[n].seq = run.accepted[n]
    BY <2>2, <2>3 DEF Delivery
  <2>5. \A i \in 1..n : run.accepted[i] = EventOf(s.commands[i].pair)
    <3> TAKE i \in 1..n
    <3>1. PairOf(run.accepted[i]) = s.commands[i].pair
      BY <2>1 DEF Rows, PairOf
    <3> QED
      BY <2>1, <3>1 DEF AcceptedFirst
  <2>6. ASSUME NEW i \in 1..n, i < n
        PROVE  EventOf(s.commands[i].pair) <= EventOf(s.commands[n].pair)
    <3>1. PICK p, q : p = s.commands[i].pair /\ q = s.commands[n].pair
      OBVIOUS
    <3>2. Precedes(p, q)
      BY <1>1, <1>3, <1>6, <2>3, <2>6, <3>1 DEF Precedes
    <3>3. p \in Occurrences /\ q \in Occurrences /\ Rows(q) # {}
      BY <1>3, <1>4, <2>3, <3>1, CommandsOf
    <3> QED
      BY <2>1, <3>1, <3>2, <3>3 DEF Ordered
  <2>7. \A i \in 1..n : run.accepted[i] <= run.accepted[n]
    <3> TAKE i \in 1..n
    <3>1. run.accepted[n] \in DOMAIN journal /\ DOMAIN journal \subseteq Nat
      BY <2>1, <2>3, JournalIs DEF Rows, Typed
    <3>2. CASE i = n
      BY <3>1, <3>2
    <3>3. CASE i # n
      BY <2>3, <2>5, <2>6, <3>3
    <3> QED
      BY <3>2, <3>3
  <2>8. Owed = {run.accepted[i] : i \in 1..n}
    BY <1>1, <1>6, <2>1 DEF Owed
  <2> QED
    BY <1>3, <2>2, <2>4, <2>7, <2>8 DEF EndsWith
<1> QED
  BY <1>2, <1>5, <1>6

LEMMA CursorLastIs ==
    ASSUME Typed
    PROVE  CursorLast <=>
              (run.phase = "deliver" /\ run.script.judge = "durable" /\ ran \subseteq Repairs =>
                 \/ run.queue = <<>> /\ \A e \in Owed : e <= cursor
                 \/ EndsWith(run.queue, Owed))
<1>1. PICK T : T = Item
  OBVIOUS
<1>2. run.queue \in Seq(T)
  BY <1>1 DEF Typed, Queues, Item
<1>3. Len(run.queue) \in Nat /\ (run.queue = <<>> <=> Len(run.queue) = 0)
  BY <1>2, EmptySeq
<1>4. run.queue = <<>> => ~EndsWith(run.queue, Owed)
  BY <1>3 DEF EndsWith
<1>5. run.queue # <<>> =>
         (EndsWith(run.queue, Owed) <=>
            /\ run.queue[Len(run.queue)].kind = "settlement"
            /\ \A e \in Owed : e <= run.queue[Len(run.queue)].seq)
  BY <1>3 DEF EndsWith
<1> QED
  BY <1>4, <1>5 DEF CursorLast

LEMMA CursorLastNext ==
    ASSUME run'.phase = "deliver" /\ run'.script.judge = "durable" /\ ran' \subseteq Repairs =>
              \/ run'.queue = <<>> /\ \A e \in Owed' : e <= cursor'
              \/ run'.queue # <<>> /\ EndsWith(run'.queue, Owed')
    PROVE  CursorLast'
BY DEF CursorLast, EndsWith

LEMMA CursorLastStep ==
    ASSUME Typed, AcceptedFirst, Ordered, CursorLast, [Next]_vars
    PROVE  CursorLast'
<1>1. CASE run'.phase # "deliver"
  BY <1>1 DEF CursorLast
<1>2. CASE UNCHANGED vars
  <2>1. /\ run' = run /\ ran' = ran /\ cursor' = cursor /\ UNCHANGED journal
    BY <1>2 DEF vars, tables, history
  <2>2. \A e : e \in Owed' <=> e \in Owed
    BY <2>1, OwedSame
  <2> QED
    BY <2>1, <2>2 DEF CursorLast
<1>3. CASE PlanDeliveries
  <2>1. /\ run.phase = "plan" /\ run'.script = run.script /\ UNCHANGED <<journal, ran>>
        /\ run'.accepted = run.accepted
        /\ (~run.script.notify => run'.queue = Deliveries)
    BY <1>3, PlanIs
  <2>2. \A e : e \in Owed' <=> e \in Owed
    BY <2>1, OwedSame
  <2> SUFFICES ASSUME run.script.judge = "durable", ran \subseteq Repairs
               PROVE  run'.queue # <<>> /\ EndsWith(run'.queue, Owed')
    BY <2>1, CursorLastNext
  <2>3. ~run.script.notify
    BY <2>1, Accepted, CommandsOf DEF ScriptShape
  <2>4. EndsWith(Deliveries, Owed)
    BY <2>1, DeliveriesEnd
  <2>5. Deliveries # <<>>
    <3>1. Len(Deliveries) # 0
      BY <2>4 DEF EndsWith
    <3> QED
      BY <3>1
  <2> QED
    BY <2>1, <2>2, <2>3, <2>4, <2>5 DEF EndsWith
<1>4. CASE DeliverReuses \/ DeliverTransient \/ DeliverCutpoint \/ DeliverSettles
  <2> SUFFICES ASSUME run'.phase = "deliver", run'.script.judge = "durable",
                      ran' \subseteq Repairs
               PROVE  \/ run'.queue = <<>> /\ \A e \in Owed' : e <= cursor'
                      \/ run'.queue # <<>> /\ EndsWith(run'.queue, Owed')
    BY CursorLastNext
  <2>1. /\ run.phase = "deliver" /\ UNCHANGED journal /\ ran' = ran /\ Attempts
        /\ run'.script = run.script /\ run'.accepted = run.accepted
        /\ \/ run'.queue = run.queue
           \/ run'.queue = Tail(run.queue) /\ (DeliverReuses \/ DeliverSettles)
    BY <1>4, DeliveryRun, Endings
  <2>2. \A e : e \in Owed' <=> e \in Owed
    BY <2>1, OwedSame
  <2>3. run.queue # <<>> /\ item = run.queue[1]
    BY <2>1, QueueIs
  <2>4. EndsWith(run.queue, Owed)
    BY <2>1, <2>3, CursorLastIs
  <2>5. CASE run'.queue = run.queue
    BY <2>2, <2>3, <2>4, <2>5 DEF EndsWith
  <2>6. CASE run'.queue = Tail(run.queue) /\ (DeliverReuses \/ DeliverSettles)
    <3>1. PICK m \in Nat \ {0} : m = Len(run.queue)
      BY <2>1, QueueIs
    <3>2. PICK t : t = run'.queue
      OBVIOUS
    <3>3. Len(t) = m - 1 /\ \A i \in 1..(m - 1) : t[i] = run.queue[i + 1]
      BY <2>1, <2>6, <3>1, <3>2, QueueIs
    <3>4. CASE m = 1
      <4>1. item.kind = "settlement" /\ \A e \in Owed : e <= item.seq
        BY <2>3, <2>4, <3>1, <3>4 DEF EndsWith
      <4>2. Delivered
        BY <2>6 DEF DeliverReuses, DeliverSettles
      <4>3. cursor' = item.seq
        BY <4>1, <4>2 DEF Delivered
      <4>4. t = <<>>
        <5>1. PICK T : T = Item
          OBVIOUS
        <5>2. t \in Seq(T)
          BY <2>1, <2>6, <3>2, <5>1, QueueIs
        <5>3. Len(t) = 0
          BY <3>3, <3>4
        <5> QED
          BY <5>2, <5>3, EmptySeq
      <4> QED
        BY <2>2, <3>2, <4>1, <4>3, <4>4
    <3>5. CASE m # 1
      <4>1. m - 1 \in 1..(m - 1) /\ (m - 1) + 1 = m /\ m - 1 \in Nat \ {0}
        BY <3>5
      <4>2. t[m - 1] = run.queue[m]
        BY <3>3, <4>1
      <4>3. EndsWith(t, Owed')
        BY <2>2, <2>4, <3>1, <3>3, <4>1, <4>2 DEF EndsWith
      <4>4. t # <<>>
        <5>1. Len(t) # 0
          BY <3>3, <4>1
        <5> QED
          BY <5>1
      <4> QED
        BY <3>2, <4>3, <4>4
    <3> QED
      BY <3>4, <3>5
  <2> QED
    BY <2>1, <2>5, <2>6
<1> QED
  BY <1>1, <1>2, <1>3, <1>4, OutsideDelivery

(***************************************************************************)
(* The order of the rows.                                                  *)
(***************************************************************************)
LEMMA JournalStep ==
    ASSUME [Next]_vars
    PROVE  \/ Restore
           \/ journal' = journal /\ ran \subseteq ran'
           \/ AcceptAppends
BY DEF Next, Step, StartRun, AcceptReuses, AcceptAppends, Register, CommandRejected,
       PlanDeliveries, DeliverReuses, DeliverTransient, DeliverCutpoint, DeliverSettles,
       DeliveryExhausted, FinishRun, tables, history, vars

LEMMA OrderedAfterAppend ==
    ASSUME Typed, Ordered, AcceptAppends
    PROVE  Ordered'
<1>1. /\ journal' = Append(journal, command) /\ ran' = ran /\ ~Reuses
      /\ run.phase = "accept" /\ TypeOK
  BY DEF AcceptAppends, Running, history, Typed
<1> SUFFICES ASSUME "default" \notin ran, NEW p \in Occurrences, NEW q \in Occurrences,
                    Precedes(p, q), Rows(q)' # {}
             PROVE  Rows(p)' # {} /\ EventOf(p)' <= EventOf(q)'
  BY <1>1 DEF Ordered, Precedes
<1>2. PICK c : c = command
  OBVIOUS
<1>3. /\ Live /\ run.next \in 1..Count /\ Count = Len(run.script.commands)
      /\ c = run.script.commands[run.next] /\ c.pair \in Pairs(run.script)
  BY <1>1, <1>2, CommandAt
<1>4. Rows(c.pair) = {}
  BY <1>1, <1>2, <1>3 DEF Live, Reuses
<1>5. \A r : Rows(r) # {} => EventOf(r)' = EventOf(r) /\ Rows(r)' # {}
  BY <1>1, EventsStay
<1>6. CASE q = c.pair
  <2>1. PICK s \in AllScripts :
           /\ s.judge = "durable" /\ s.deliver = "accepted"
           /\ \E i, j \in 1..Len(s.commands) :
                 i < j /\ s.commands[i].pair = p /\ s.commands[j].pair = q
    BY DEF Precedes
  <2>2. PICK i \in 1..Len(s.commands), j \in 1..Len(s.commands) :
           i < j /\ s.commands[i].pair = p /\ s.commands[j].pair = q
    BY <2>1
  <2>3. PICK t \in AllScripts : t = run.script
    BY <1>3 DEF Live
  <2>4. SameWorkload(s, t)
    <3>1. q \in Pairs(s)
      BY <2>2, CommandsOf
    <3>2. q \in Pairs(t)
      BY <1>3, <1>6, <2>3
    <3> QED
      BY <3>1, <3>2, ScriptAssumption
  <2>5. /\ DOMAIN s.commands = 1..Len(s.commands) /\ DOMAIN t.commands = 1..Count
        /\ DOMAIN s.commands = DOMAIN t.commands
        /\ \A k \in DOMAIN s.commands : s.commands[k].pair = t.commands[k].pair
    BY <1>3, <2>3, <2>4, CommandsOf DEF SameWorkload
  <2>6. run.next = j
    <3>1. run.next \in DOMAIN s.commands /\ s.commands[run.next].pair = q
      BY <1>3, <1>6, <2>3, <2>5
    <3>2. \A k, l \in DOMAIN s.commands : s.commands[k].pair = s.commands[l].pair => k = l
      <4>1. ScriptShape(s)
        BY CommandsOf
      <4> QED
        BY <2>1, <4>1 DEF ScriptShape
    <3> QED
      BY <2>2, <2>5, <3>1, <3>2
  <2>7. i \in 1..(run.next - 1) /\ t.commands[i].pair = p
    BY <2>2, <2>5, <2>6
  <2>8. Rows(p) # {}
    BY <1>3, <2>3, <2>7 DEF Live
  <2>9. EventOf(p) <= Len(journal) /\ Len(journal) \in Nat
    BY <1>1, <2>8, RowsAre, JournalIs
  <2>10. EventOf(q)' = Len(journal) + 1
    BY <1>1, <1>2, <1>4, <1>6, FirstRowIs
  <2>11. EventOf(p)' = EventOf(p) /\ Rows(p)' # {}
    BY <1>5, <2>8
  <2>12. EventOf(p) \in Nat
    BY <1>1, <2>8, RowsAre
  <2> QED
    BY <2>9, <2>10, <2>11, <2>12
<1>7. CASE q # c.pair
  <2>1. Rows(q) # {}
    BY <1>1, <1>2, <1>7, RowsGrow
  <2>2. Rows(p) # {} /\ EventOf(p) <= EventOf(q)
    BY <2>1 DEF Ordered
  <2> QED
    BY <1>5, <2>1, <2>2
<1> QED
  BY <1>6, <1>7

LEMMA OrderedStep ==
    ASSUME Typed, Ordered, [Next]_vars
    PROVE  Ordered'
<1>1. CASE Restore
  <2>1. \A p : Rows(p)' = {}
    BY <1>1 DEF Restore, Rows
  <2> QED
    BY <2>1 DEF Ordered
<1>2. CASE journal' = journal /\ ran \subseteq ran'
  <2>1. \A p : Rows(p)' = Rows(p) /\ EventOf(p)' = EventOf(p)
    BY <1>2, RowsSame
  <2> QED
    BY <1>2, <2>1 DEF Ordered, Precedes
<1>3. CASE AcceptAppends
  BY <1>3, OrderedAfterAppend
<1> QED
  BY <1>1, <1>2, <1>3, JournalStep

LEMMA RepairStep ==
    ASSUME Typed, Kept, OutboxKept, RepairKept, [Next]_vars
    PROVE  RepairKept'
BY TriesStep, OneEffectStep, EffectsNotifyStep, NotifyOwedStep, CursorLastStep, OrderedStep
   DEF RepairKept, OutboxKept

LEMMA InitRepair == Init => RepairKept
<1> SUFFICES ASSUME Init
             PROVE  RepairKept
  OBVIOUS
<1>1. run.phase = "idle"
  BY NoRunIs DEF Init
<1>2. Typed /\ Kept
  BY InitTyped, InitKept
<1>3. PICK e : e = IncidentRow
  OBVIOUS
<1>4. /\ journal = <<e>> \/ journal = <<e, e>>
      /\ e.pair = IncidentPair
  BY <1>3 DEF Init, IncidentRow
<1>5. \A i \in DOMAIN journal : journal[i].pair = IncidentPair
  BY <1>4
<1>6. \A i \in DOMAIN effects : effects[i].event \in DOMAIN journal
  BY <1>2, EffectsTyped DEF Typed
<1>7. OneEffectEach
  BY <1>5, <1>6 DEF OneEffectEach, PairOf
<1>8. EffectsNotify
  <2>1. PICK a, b : /\ a = [event |-> 1, kind |-> "settlement"]
                    /\ b = [event |-> Len(journal), kind |-> "settlement"]
    OBVIOUS
  <2>2. effects = <<a, b>> /\ a.kind = "settlement" /\ b.kind = "settlement"
    BY <2>1 DEF Init
  <2> QED
    BY <2>2 DEF EffectsNotify
<1>9. Ordered
  <2>1. \A q \in Occurrences : Rows(q) = {}
    BY <1>5, OccurrencesAre DEF Rows
  <2> QED
    BY <2>1 DEF Ordered
<1> QED
  BY <1>1, <1>7, <1>8, <1>9 DEF RepairKept, Tries, NotifyOwed, CursorLast

LEMMA AlwaysRepair == Spec => [](Typed /\ Kept /\ OutboxKept /\ RepairKept)
<1>1. Init => RepairKept
  BY InitRepair
<1>2. Typed /\ Kept /\ OutboxKept /\ RepairKept /\ [Next]_vars => RepairKept'
  BY RepairStep
<1> QED
  BY <1>1, <1>2, AlwaysOutbox, PTL DEF Spec

(***************************************************************************)
(* The verdict on a repair.                                                *)
(***************************************************************************)
LEMMA OneToOne ==
    ASSUME NEW S, NEW T, IsFiniteSet(S), NEW f \in [S -> T],
           \A x, y \in S : f[x] = f[y] => x = y,
           \A t \in T : \E x \in S : f[x] = t
    PROVE  Cardinality(S) = Cardinality(T)
<1>1. f \in Surjection(S, T)
  BY DEF Surjection
<1>2. f \in Injection(S, T)
  BY DEF Injection, IsInjective
<1> QED
  BY <1>1, <1>2, FS_Surjection

LEMMA EffectsOfAre ==
    ASSUME TypeOK, NEW events
    PROVE  /\ EffectsOf(events) = {i \in DOMAIN effects : effects[i].event \in events}
           /\ IsFiniteSet(EffectsOf(events))
<1>1. EffectsOf(events) = {i \in DOMAIN effects : effects[i].event \in events}
  BY DEF EffectsOf
<1>2. IsFiniteSet(DOMAIN effects)
  BY EffectsTyped, FS_Interval
<1> QED
  BY <1>1, <1>2, FS_Subset

(* A repair leaves as many rows as the script has occurrences.               *)
LEMMA RowsCounted ==
    ASSUME Typed, OneRowEach, "default" \notin ran, run.phase = "deliver"
    PROVE  Cardinality(RowsOf(run.script)) = Cardinality(Pairs(run.script))
<1>1. PICK s \in AllScripts : s = run.script
  BY Accepted
<1>2. PICK rows : rows = RowsOf(s)
  OBVIOUS
<1>3. IsFiniteSet(rows) /\ rows \subseteq DOMAIN journal
  BY <1>2, RowsOfAre DEF Typed
<1> DEFINE pairOf == [i \in rows |-> journal[i].pair]
<1>4. pairOf \in [rows -> Pairs(s)]
  BY <1>2 DEF RowsOf, Rows
<1>5. \A i, j \in rows : pairOf[i] = pairOf[j] => i = j
  <2>1. IncidentPair \notin Pairs(s)
    BY CommandsOf DEF ScriptShape
  <2>2. \A i \in rows : journal[i].pair \in Pairs(s)
    BY <1>2 DEF RowsOf, Rows
  <2> QED
    BY <1>3, <2>1, <2>2 DEF OneRowEach
<1>6. ASSUME NEW p \in Pairs(s)
      PROVE  \E i \in rows : pairOf[i] = p
  <2>1. PICK k \in 1..Len(s.commands) : s.commands[k].pair = p
    BY CommandsOf
  <2>2. Rows(p) # {}
    BY <1>1, <2>1, Accepted DEF Count
  <2>3. PICK i \in Rows(p) : i \in rows
    BY <1>2, <2>2 DEF RowsOf
  <2> QED
    BY <2>3 DEF Rows
<1> HIDE DEF pairOf
<1> QED
  BY <1>1, <1>2, <1>3, <1>4, <1>5, <1>6, OneToOne

LEMMA Undelivered ==
    ASSUME Typed, run.queue = <<>>
    PROVE  ~ \E i \in 1..Len(run.queue) : TRUE
<1>1. Len(run.queue) = 0
  OBVIOUS
<1> QED
  BY <1>1

(* When all is delivered there is one effect to a row.                       *)
LEMMA CountsPass ==
    ASSUME Typed, Kept, RepairKept, "default" \notin ran,
           run.phase = "deliver", run.queue = <<>>,
           run.script.judge \in {"counts", "durable"}
    PROVE  /\ Counted(RowsOf(run.script), Cardinality(Pairs(run.script)))
           /\ RowsOf(run.script) \subseteq Owed
<1>1. PICK s \in AllScripts : s = run.script
  BY Accepted
<1>2. PICK rows : rows = RowsOf(s)
  OBVIOUS
<1>3. Cardinality(rows) = Cardinality(Pairs(s))
  BY <1>1, <1>2, RowsCounted DEF Kept
<1>4. rows \subseteq Owed
  BY <1>1, <1>2, <1>3, ExactRows
<1>5. PICK own : own = EffectsOf(rows)
  OBVIOUS
<1>6. own = {i \in DOMAIN effects : effects[i].event \in rows} /\ IsFiniteSet(own)
  BY <1>5, EffectsOfAre DEF Typed
<1>7. \A r \in rows : PairOf(r) \in Pairs(s) /\ PairOf(r) # IncidentPair
  <2>1. IncidentPair \notin Pairs(s)
    BY CommandsOf DEF ScriptShape
  <2> QED
    BY <1>2, <2>1 DEF RowsOf, Rows, PairOf
<1>8. \A i \in own : effects[i].kind = "settlement"
  <2> TAKE i \in own
  <2>1. i \in DOMAIN effects /\ PairOf(effects[i].event) \in Pairs(s)
    BY <1>6, <1>7
  <2>2. ~s.notify
    BY <1>1, CommandsOf DEF ScriptShape
  <2>3. effects[i].kind # "notify"
    BY <2>1, <2>2, WorkloadsOf DEF RepairKept, EffectsNotify
  <2> QED
    BY <2>1, <2>3, EffectsTyped DEF Typed, EffectKinds
<1> DEFINE eventOf == [i \in own |-> effects[i].event]
<1>9. eventOf \in [own -> rows]
  BY <1>6
<1>10. \A i, j \in own : eventOf[i] = eventOf[j] => i = j
  BY <1>6, <1>7, <1>8 DEF RepairKept, OneEffectEach
<1>11. ASSUME NEW r \in rows
       PROVE  \E i \in own : eventOf[i] = r
  <2>1. HasEffect(r, "settlement")
    BY <1>4, Undelivered DEF Kept, Delivering
  <2> QED
    BY <1>6, <2>1 DEF HasEffect
<1>12. Cardinality(own) = Cardinality(rows)
  <2> HIDE DEF eventOf
  <2> QED
    BY <1>6, <1>9, <1>10, <1>11, OneToOne
<1> QED
  BY <1>1, <1>2, <1>3, <1>4, <1>5, <1>12 DEF Counted

LEMMA EventPass ==
    ASSUME Typed, Kept, OutboxKept, RepairKept, ran \subseteq Repairs,
           run.phase = "deliver", run.queue = <<>>, run.script.judge = "event"
    PROVE  Passed
<1>1. PICK s \in AllScripts : s = run.script
  BY Accepted
<1>2. PICK a : a = run.accepted[1]
  OBVIOUS
<1>3. run.flow # "default" /\ "default" \notin ran
  BY DEF Typed, Live, Repairs
<1>4. Pairs(s) = {PairOf(a)} /\ Owed = {a} /\ PairOf(a) # IncidentPair
  BY <1>1, <1>2, <1>3, FirstAccepted DEF OutboxKept
<1>5. PICK own : own = EffectsOf({a})
  OBVIOUS
<1>6. own = {i \in DOMAIN effects : effects[i].event = a} /\ IsFiniteSet(own)
  BY <1>5, EffectsOfAre DEF Typed
<1>7. PICK kinds : kinds = IF s.notify THEN EffectKinds ELSE {"settlement"}
  OBVIOUS
<1> DEFINE kindOf == [i \in own |-> effects[i].kind]
<1>8. kindOf \in [own -> kinds]
  <2> SUFFICES ASSUME NEW i \in own
               PROVE  effects[i].kind \in kinds
    OBVIOUS
  <2>1. effects[i].kind \in EffectKinds
    BY <1>6, EffectsTyped DEF Typed
  <2>2. effects[i].kind = "notify" => s.notify
    <3>1. effects[i].kind = "notify" => Notified(PairOf(a))
      BY <1>6 DEF RepairKept, EffectsNotify
    <3>2. PairOf(a) \in Pairs(s)
      BY <1>4
    <3> QED
      BY <3>1, <3>2, WorkloadsOf
  <2> QED
    BY <1>7, <2>1, <2>2 DEF EffectKinds
<1>9. \A i, j \in own : kindOf[i] = kindOf[j] => i = j
  BY <1>3, <1>4, <1>6 DEF RepairKept, OneEffectEach
<1>10. ASSUME NEW k \in kinds
       PROVE  \E i \in own : kindOf[i] = k
  <2>1. HasEffect(a, "settlement")
    BY <1>4, Undelivered DEF Kept, Delivering
  <2>2. s.notify => HasEffect(a, "notify")
    BY <1>1, <1>2, Undelivered DEF RepairKept, NotifyOwed
  <2>3. HasEffect(a, k)
    BY <1>7, <2>1, <2>2 DEF EffectKinds
  <2> QED
    BY <1>6, <2>3 DEF HasEffect
<1>11. Cardinality(own) = Cardinality(kinds)
  <2> HIDE DEF kindOf
  <2> QED
    BY <1>6, <1>8, <1>9, <1>10, OneToOne
<1>12. {effects[i].kind : i \in own} = kinds
  BY <1>8, <1>10
<1> HIDE DEF kindOf
<1> QED
  BY <1>1, <1>2, <1>5, <1>7, <1>11, <1>12 DEF Passed

LEMMA RepairVerdict ==
    ASSUME Typed, Kept, OutboxKept, RepairKept, ran \subseteq Repairs,
           run.phase = "deliver", run.queue = <<>>, run.script.judge # "none"
    PROVE  Passed
<1>1. PICK s \in AllScripts : s = run.script
  BY Accepted
<1>2. ScriptShape(s)
  BY CommandsOf
<1>3. "default" \notin ran
  BY DEF Repairs
<1>4. CASE s.judge = "counts"
  BY <1>1, <1>3, <1>4, CountsPass DEF Passed
<1>5. CASE s.judge = "durable"
  <2>1. /\ Counted(RowsOf(s), Cardinality(Pairs(s)))
        /\ RowsOf(s) \subseteq Owed
    BY <1>1, <1>3, <1>5, CountsPass
  <2>2. \A e \in Owed : e <= cursor
    BY <1>1, <1>5 DEF RepairKept, CursorLast
  <2> QED
    BY <1>1, <1>5, <2>1, <2>2 DEF Passed
<1>6. CASE s.judge = "journal"
  <2>1. Cardinality(RowsOf(s)) = 1
    BY <1>1, <1>2, <1>3, <1>6, RowsCounted DEF Kept, ScriptShape
  <2> QED
    BY <1>1, <1>6, <2>1 DEF Passed
<1>7. CASE s.judge = "event"
  BY <1>1, <1>7, EventPass
<1> QED
  BY <1>1, <1>2, <1>4, <1>5, <1>6, <1>7 DEF ScriptShape

(***************************************************************************)
(* Repairs pass.                                                           *)
(***************************************************************************)
(* A judged script that must have no command refused has none refused: what  *)
(* the journal holds of its occurrences, the script itself has brought.      *)
LEMMA NeverRejected ==
    ASSUME Typed, CommandRejected, ~run.script.tolerant
    PROVE  run.script.judge = "none"
<1> SUFFICES ASSUME run.script.judge # "none"
             PROVE  FALSE
  OBVIOUS
<1>1. run.phase \in {"accept", "register"} /\ Conflicts(command) /\ TypeOK
  BY DEF CommandRejected, Running, Typed
<1>2. PICK c : c = command
  OBVIOUS
<1>3. PICK s \in AllScripts : s = run.script
  BY <1>1, CommandAt DEF Live
<1>4. /\ run.next \in DOMAIN s.commands /\ c = s.commands[run.next]
      /\ c.pair \in Pairs(s) /\ c.pair # IncidentPair
  BY <1>1, <1>2, <1>3, CommandAt, CommandsOf
<1>5. PICK e : e = EventOf(c.pair)
  OBVIOUS
<1>6. Rows(c.pair) # {} /\ journal[e].payload # c.payload
  BY <1>1, <1>2, <1>5 DEF Conflicts
<1>7. e \in DOMAIN journal /\ journal[e].pair = c.pair
  BY <1>1, <1>5, <1>6, RowsAre DEF Rows
<1>8. journal[e] \in Commands
  <2>1. journal[e] \in Entries /\ journal[e] # IncidentRow
    BY <1>1, <1>4, <1>7, JournalIs DEF IncidentRow
  <2> QED
    BY <2>1 DEF Entries
<1>9. PICK t \in AllScripts : \E k \in DOMAIN t.commands : journal[e] = t.commands[k]
  BY <1>8 DEF Commands
<1>10. PICK k \in DOMAIN t.commands : journal[e] = t.commands[k]
  BY <1>9
<1>11. c.pair \in Pairs(t)
  BY <1>7, <1>10 DEF Pairs
<1>12. SameWorkload(s, t)
  BY <1>4, <1>11, ScriptAssumption
<1>13. k \in DOMAIN s.commands /\ s.commands[run.next].pair = t.commands[k].pair
  BY <1>4, <1>7, <1>10, <1>12 DEF SameWorkload
<1>14. s.commands[run.next] = t.commands[k]
  BY <1>3, <1>4, <1>12, <1>13 DEF SameWorkload
<1> QED
  BY <1>4, <1>6, <1>10, <1>14

(* The loop gives up only if its budget does not cover the one failure.      *)
LEMMA RarelyExhausted ==
    ASSUME Typed, Tries, DeliveryExhausted
    PROVE  run.budget < (IF run.script.transient THEN 2 ELSE 1)
<1>1. run.phase = "deliver" /\ ~(run.tries < run.budget)
  BY DEF DeliveryExhausted, Attempts, Running
<1>2. run.tries \in {0, 1} /\ run.budget \in Nat /\ (run.tries = 1 => run.script.transient)
  BY <1>1 DEF Tries
<1>3. CASE run.tries = 0
  <2>1. run.budget < 1
    BY <1>1, <1>2, <1>3
  <2> QED
    BY <1>2, <2>1
<1>4. CASE run.tries = 1
  <2>1. run.budget < 2 /\ run.script.transient
    BY <1>1, <1>2, <1>4
  <2> QED
    BY <2>1
<1> QED
  BY <1>2, <1>3, <1>4

LEMMA RarelyGivenUp ==
    ASSUME Typed, Tries, DeliverTransient, Ends("raised"), run.script.judge # "none"
    PROVE  run.budget < (IF run.script.transient THEN 2 ELSE 1)
<1>1. run.phase = "deliver" /\ run.transient
  BY DeliveryRun DEF DeliverTransient
<1>2. /\ run.tries \in {0, 1} /\ run.budget \in Nat
      /\ (run.tries = 1 => ~run.transient) /\ (run.transient => run.script.transient)
  BY <1>1 DEF Tries
<1>3. run.script.transient /\ run.tries = 0
  BY <1>1, <1>2
<1>4. run.script.retry
  BY <1>1, <1>3, Accepted, CommandsOf DEF ScriptShape
<1>5. ~(run.tries + 1 < run.budget)
  <2>1. run'.phase = "idle" /\ Retried.phase = "deliver"
    BY <1>1, Endings, RetriedIs
  <2>2. run' # Retried
    BY <2>1
  <2> QED
    BY <1>4, <2>2 DEF DeliverTransient
<1>6. run.budget < 2
  BY <1>2, <1>3, <1>5
<1> QED
  BY <1>3, <1>6

LEMMA RepairPassesStep ==
    ASSUME Typed, Kept, OutboxKept, RepairKept, RepairPasses, [Next]_vars
    PROVE  RepairPasses'
<1>1. CASE run'.outcome = "none"
  BY <1>1 DEF RepairPasses
<1>2. CASE UNCHANGED vars
  BY <1>2 DEF vars, history, RepairPasses
<1>3. CASE FinishRun
  <2>1. /\ run.phase = "deliver" /\ run.queue = <<>> /\ Ends(Outcome) /\ ran' = ran
    BY <1>3 DEF FinishRun, Running, history
  <2>2. run'.outcome = Outcome /\ run'.script = run.script
    BY <2>1, Endings
  <2>3. CASE ran \subseteq Repairs /\ run.script.judge # "none"
    <3>1. Outcome = "pass"
      BY <2>1, <2>3, RepairVerdict DEF Outcome
    <3> QED
      BY <2>2, <3>1 DEF RepairPasses
  <2>4. CASE ~(ran \subseteq Repairs /\ run.script.judge # "none")
    BY <2>1, <2>2, <2>4 DEF RepairPasses
  <2> QED
    BY <2>3, <2>4
<1>4. CASE Ends("raised") /\ (\/ CommandRejected /\ ~run.script.tolerant
                              \/ DeliverTransient \/ DeliveryExhausted)
  <2>1. run'.script = run.script /\ run'.budget = run.budget
    BY <1>4, Endings
  <2>2. \/ run.script.judge = "none"
        \/ run.budget < (IF run.script.transient THEN 2 ELSE 1)
    BY <1>4, NeverRejected, RarelyExhausted, RarelyGivenUp DEF RepairKept
  <2> QED
    BY <2>1, <2>2 DEF RepairPasses
<1> QED
  BY <1>1, <1>2, <1>3, <1>4, VerdictStep

(* A repaired flow passes every workload it is judged by: whatever the       *)
(* earlier runs of repaired flows left in the tables, however a run was      *)
(* interrupted or raised, the verifier finds the rows, the effects and the   *)
(* cursor it wants, if the budget covers the one transient failure.          *)
THEOREM RepairsPass == Spec => []RepairPasses
<1>1. Init => RepairPasses
  BY NoRunIs DEF Init, RepairPasses
<1>2. Typed /\ Kept /\ OutboxKept /\ RepairKept /\ RepairPasses /\ [Next]_vars
         => RepairPasses'
  BY RepairPassesStep
<1> QED
  BY <1>1, <1>2, AlwaysRepair, PTL DEF Spec
=============================================================================
