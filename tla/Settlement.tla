------------------------------ MODULE Settlement ------------------------------
(***************************************************************************)
(* The settlement engine: RuntimeStore and RuntimeEngine of                *)
(* agent_surface/runtime.py running the stages of a deployed               *)
(* service/flow.py over the six service tables.                            *)
(*                                                                         *)
(* A run executes one script: it accepts commands (s1, s2, s3), delivers   *)
(* the journal events they led to (s4, s5, s6) and judges what became      *)
(* durable.  On its way it may meet one transient failure before an effect *)
(* is inserted, or one cutpoint: after a journal row is inserted (s2.exit, *)
(* profile 1) or after an effect is (s5.exit, profile 0).  A run that      *)
(* raises leaves what it wrote, and the next run, perhaps of another       *)
(* revision, starts from there.                                            *)
(*                                                                         *)
(* What is abstracted: an event id is the position of its row in the       *)
(* journal; ticks, telemetry and trace spans are left out; the per-event   *)
(* attempt counter too, since the failure is still pending only before the *)
(* first call of settle, whose counter is one; event marks, which no flow  *)
(* of the repository writes.  The set ran is not in the code: it records   *)
(* which flows have touched the tables since they were last restored, as   *)
(* what a flow finds depends on the flows before it.                       *)
(***************************************************************************)
EXTENDS Naturals, Sequences, FiniteSets

CONSTANTS
    Scripts,      \* for each profile, the scripts its runs may execute
    Revisions,    \* the deployed artifacts: [flow, budget]
    MaxRuns       \* bound of the number of runs, for model checking

Profiles == {0, 1}
Repairs == {"logical_identity", "intent_outbox"}
Flows == {"default", "broad_event_dedup"} \cup Repairs
EffectKinds == {"settlement", "notify"}

ASSUME RevisionAssumption == Revisions \subseteq [flow : Flows, budget : Nat]
ASSUME BoundAssumption == MaxRuns \in Nat

VARIABLES
    profile,                       \* the member the fixture was built as
    journal, registered, effects, intents, cursor,   \* the service tables
    run,                           \* the run in progress, or the last one
    runs,                          \* how many runs have started
    ran                            \* the flows of those since the last restore

tables == <<journal, registered, effects, intents, cursor>>
history == <<runs, ran>>
vars == <<profile, tables, run, history>>

(***************************************************************************)
(* Scripts.  A command is known by its key and its occurrence; a script    *)
(* says which commands it accepts, which events it then delivers, what may *)
(* interrupt it, and how it judges the tables.                             *)
(***************************************************************************)
Command(key, occ, alias, amount) ==
    [pair |-> [key |-> key, occ |-> occ], payload |-> [alias |-> alias, amount |-> amount]]

\* A script that accepts commands and delivers every journal row of theirs.
Plain(id, commands) ==
    [id |-> id, commands |-> commands, deliver |-> "rows", cut |-> "none",
     transient |-> FALSE, retry |-> FALSE, tolerant |-> FALSE, notify |-> FALSE,
     judge |-> "counts"]

Pairs(script) == {script.commands[i].pair : i \in DOMAIN script.commands}

AllScripts == Scripts[0] \cup Scripts[1]
Occurrences == UNION {Pairs(s) : s \in AllScripts}
Commands == UNION {{s.commands[i] : i \in DOMAIN s.commands} : s \in AllScripts}

\* The command whose incident the fixture is seeded with.
IncidentPair == [key |-> "cmd_incident", occ |-> "occ_incident"]
IncidentRow == [pair |-> IncidentPair, payload |-> [alias |-> "Q-41", amount |-> 100]]

\* What the scripts of the code have in common.  None accepts the command of the
\* incident, and one that looks at its first accepted event has no command refused.
\* A verdict that counts settlements comes after the delivery of all that it counts,
\* and one on the cursor too late for a cursor to go back; the other verdicts are
\* on one occurrence.  What fails once and is judged is retried.
ScriptShape(s) ==
    /\ s.commands \in Seq(Commands) \ {<<>>}
    /\ IncidentPair \notin Pairs(s)
    /\ s.deliver \in {"accepted", "rows", "new rows", "twice", "none"}
    /\ s.judge \in {"counts", "durable", "journal", "event", "none"}
    /\ s.deliver = "twice" \/ s.judge = "event" => ~s.tolerant
    /\ s.judge \in {"counts", "durable"} =>
          \/ s.deliver = "rows"
          \/ s.deliver = "accepted" /\ ~s.tolerant
          \/ s.deliver = "twice" /\ s.judge = "counts" /\ Cardinality(Pairs(s)) = 1
    /\ s.judge = "durable" /\ s.deliver = "accepted" =>
          \A i, j \in DOMAIN s.commands : s.commands[i].pair = s.commands[j].pair => i = j
    /\ s.judge = "event" => Len(s.commands) = 1 /\ s.deliver = "accepted"
    /\ s.judge = "journal" => Cardinality(Pairs(s)) = 1
    /\ s.notify => s.judge = "event"
    /\ s.transient /\ s.judge # "none" => s.retry

\* Two scripts that share an occurrence are the same workload under two names: they
\* accept the same occurrences in the same order and deliver them the same way.  A
\* judged script that must have no command refused is the only one to say what is
\* in its commands.
SameWorkload(s, t) ==
    /\ DOMAIN s.commands = DOMAIN t.commands
    /\ \A i \in DOMAIN s.commands : s.commands[i].pair = t.commands[i].pair
    /\ s.deliver = t.deliver /\ s.notify = t.notify
    /\ s.judge # "none" /\ ~s.tolerant =>
          \A i, j \in DOMAIN s.commands :
              s.commands[i].pair = t.commands[j].pair => s.commands[i] = t.commands[j]

ASSUME ScriptAssumption ==
    /\ DOMAIN Scripts = Profiles
    /\ \A s \in AllScripts : ScriptShape(s)
    /\ \A s, t \in AllScripts : Pairs(s) \cap Pairs(t) # {} => SameWorkload(s, t)

(***************************************************************************)
(* What the stages read of the tables.                                     *)
(***************************************************************************)
\* Seeded fault: commands are told apart by their business key alone.
RowsOfKey(p) == {i \in DOMAIN journal : journal[i].pair.key = p.key}

Rows(p) == {i \in DOMAIN journal : journal[i].pair = p}

\* get_event_id: the oldest journal row of the command.
EventOf(p) == CHOOSE i \in Rows(p) : \A j \in Rows(p) : i <= j

\* _reject_conflicting_payload
Conflicts(c) ==
    Rows(c.pair) # {} /\ journal[EventOf(c.pair)].payload # c.payload

EffectsOf(events) == {i \in DOMAIN effects : effects[i].event \in events}

HasEffect(event, kind) ==
    \E i \in DOMAIN effects : effects[i].event = event /\ effects[i].kind = kind

Intent(event, kind, state) == [event |-> event, kind |-> kind, state |-> state]
HasIntent(event, kind) ==
    \E state \in {"created", "completed"} : Intent(event, kind, state) \in intents

(***************************************************************************)
(* A run.                                                                  *)
(***************************************************************************)
NoRun == [script |-> Plain("none", <<>>), flow |-> "default", budget |-> 0,
          phase |-> "idle", outcome |-> "none", next |-> 1, pending |-> 0,
          cutEvent |-> 0, accepted |-> <<>>, queue |-> <<>>, tries |-> 0,
          start |-> 0, transient |-> FALSE, s2cut |-> FALSE, s5cut |-> FALSE]

command == run.script.commands[run.next]
item == Head(run.queue)

Running(phase) == run.phase = phase

\* The run returns or raises; only what a later reader asks for is kept.
Ends(outcome) ==
    run' = [NoRun EXCEPT !.script = run.script, !.flow = run.flow,
                         !.budget = run.budget, !.outcome = outcome]

\* A public workload has no cutpoint, a cutpoint excludes the transient failure,
\* and each profile honours one of the two cutpoints.
StartRun(script, revision) ==
    /\ run.phase = "idle"
    /\ runs < MaxRuns
    /\ runs' = runs + 1
    /\ ran' = ran \cup {revision.flow}
    /\ run' = [NoRun EXCEPT !.script = script, !.flow = revision.flow,
                            !.budget = revision.budget, !.phase = "accept",
                            !.start = Len(journal),
                            !.transient = script.transient /\ script.cut = "none",
                            !.s2cut = script.cut = "s2" /\ profile = 1,
                            !.s5cut = script.cut = "s5" /\ profile = 0]
    /\ UNCHANGED <<profile, tables>>

(***************************************************************************)
(* Intake.                                                                 *)
(***************************************************************************)

\* Seeded fault: s2 looks in the command mappings, which s3 has yet to write.
ReusesRegistered ==
    /\ run.flow # "default"
    /\ \E r \in registered : r.pair = command.pair
    /\ Rows(command.pair) # {}

\* s2 of a repaired flow finds the command in the journal.
Reuses == run.flow # "default" /\ Rows(command.pair) # {}

AcceptReuses ==
    /\ Running("accept")
    /\ Reuses
    /\ run' = [run EXCEPT !.phase = "register", !.pending = EventOf(command.pair)]
    /\ UNCHANGED <<profile, tables, history>>

\* append: the row is inserted, and the cutpoint, if it is pending, interrupts
\* the flow before s3; the engine then accepts the same command once more.
AcceptAppends ==
    /\ Running("accept")
    /\ ~Reuses
    /\ ~Conflicts(command)
    /\ journal' = Append(journal, command)
    /\ run' = IF run.s2cut
              THEN [run EXCEPT !.s2cut = FALSE, !.cutEvent = Len(journal) + 1]
              ELSE [run EXCEPT !.phase = "register", !.pending = Len(journal) + 1]
    /\ UNCHANGED <<profile, registered, effects, intents, cursor, history>>

\* The command is done with: on to the next one or to the deliveries.
NextCommand(r) ==
    [r EXCEPT !.next = @ + 1, !.pending = 0, !.cutEvent = 0,
              !.phase = IF r.next = Len(r.script.commands) THEN "plan" ELSE "accept"]

\* s3; the caller is given the event of the interrupted attempt, if there was one.
Register ==
    /\ Running("register")
    /\ ~Conflicts(command)
    /\ registered' = {r \in registered : r.pair # command.pair}
                         \cup {[pair |-> command.pair, event |-> run.pending]}
    /\ run' = NextCommand([run EXCEPT
                 !.accepted = Append(@, IF run.cutEvent # 0 THEN run.cutEvent
                                                            ELSE run.pending)])
    /\ UNCHANGED <<profile, journal, effects, intents, cursor, history>>

\* append and register both refuse a payload that is not the first one's.
CommandRejected ==
    /\ \/ Running("accept") /\ ~Reuses
       \/ Running("register")
    /\ Conflicts(command)
    /\ IF run.script.tolerant THEN run' = NextCommand(run) ELSE Ends("raised")
    /\ UNCHANGED <<profile, tables, history>>

(***************************************************************************)
(* Delivery.                                                               *)
(***************************************************************************)
Delivery(event, seq, kind) == [event |-> event, seq |-> seq, kind |-> kind]

\* Deliveries of these events in the order of the journal.
Ascending(events) ==
    [n \in 1..Cardinality(events) |->
        LET e == CHOOSE i \in events : Cardinality({j \in events : j < i}) = n - 1
        IN  Delivery(e, e, "settlement")]

RowsOf(script) == UNION {Rows(p) : p \in Pairs(script)}

\* The events the script delivers, in order.
Deliveries ==
    LET own == [i \in DOMAIN run.accepted |->
                   Delivery(run.accepted[i], run.accepted[i], "settlement")]
        first == Delivery(run.accepted[1], EventOf(run.script.commands[1].pair), "settlement")
    IN  CASE run.script.deliver = "accepted" -> own
          [] run.script.deliver = "rows"     -> Ascending(RowsOf(run.script))
          [] run.script.deliver = "new rows" -> Ascending((run.start + 1)..Len(journal))
          [] run.script.deliver = "twice"    -> <<first, first>>
          [] run.script.deliver = "none"     -> <<>>

PlanDeliveries ==
    /\ Running("plan")
    /\ run' = [run EXCEPT !.phase = "deliver",
                 !.queue = Deliveries \o (IF run.script.notify
                                          THEN <<Delivery(run.accepted[1], 0, "notify")>>
                                          ELSE <<>>)]
    /\ UNCHANGED <<profile, tables, history>>

\* The delivery loop still has an attempt left; the extra effect of H-A3 calls
\* s5 directly, outside of the loop.
Attempts ==
    /\ Running("deliver")
    /\ run.queue # <<>>
    /\ item.kind = "notify" \/ run.tries < run.budget

\* Seeded fault: the outbox trusts its intents and does not look for the effect.
SettledByIntent ==
    IF run.flow = "intent_outbox"
    THEN Intent(item.event, item.kind, "completed") \in intents
    ELSE HasEffect(item.event, item.kind)

\* s5 of each flow: does it return an effect without asking for a new one?
AlreadySettled ==
    CASE run.flow = "default"           -> FALSE
      [] run.flow = "broad_event_dedup" -> EffectsOf({item.event}) # {}
      [] run.flow = "logical_identity"  -> HasEffect(item.event, item.kind)
      [] run.flow = "intent_outbox"     ->
            \/ HasEffect(item.event, item.kind)
            \/ Intent(item.event, item.kind, "completed") \in intents

IntentsOpened ==
    IF run.flow = "intent_outbox" /\ ~HasIntent(item.event, item.kind)
    THEN intents \cup {Intent(item.event, item.kind, "created")}
    ELSE intents

\* Seeded fault: intent_complete is never called.
IntentsLeftOpen(open) == open

IntentsCompleted(open) ==
    LET created == Intent(item.event, item.kind, "created")
    IN  IF run.flow = "intent_outbox" /\ created \in open
        THEN (open \ {created}) \cup {Intent(item.event, item.kind, "completed")}
        ELSE open

\* Seeded fault: the cursor names the next event instead of the last.
DeliveredPast ==
    /\ cursor' = IF item.kind = "settlement" THEN item.seq + 1 ELSE cursor
    /\ run' = [run EXCEPT !.queue = Tail(@), !.tries = 0]

\* s6, and on to the next event.
Delivered ==
    /\ cursor' = IF item.kind = "settlement" THEN item.seq ELSE cursor
    /\ run' = [run EXCEPT !.queue = Tail(@), !.tries = 0]

EffectInserted == effects' = Append(effects, [event |-> item.event, kind |-> item.kind])

DeliverReuses ==
    /\ Attempts
    /\ AlreadySettled
    /\ intents' = IntentsCompleted(intents)
    /\ Delivered
    /\ UNCHANGED <<profile, journal, registered, effects, history>>

\* Seeded fault: the failure is not remembered, and every retry starts afresh.
RetriedAfresh == [run EXCEPT !.tries = 0]

Retried == [run EXCEPT !.transient = FALSE, !.tries = @ + 1]

\* settle fails before it inserts; the loop tries again or gives up.
DeliverTransient ==
    /\ Attempts
    /\ ~AlreadySettled
    /\ run.transient
    /\ intents' = IntentsOpened
    /\ IF run.script.retry /\ run.tries + 1 < run.budget
       THEN run' = Retried
       ELSE Ends("raised")
    /\ UNCHANGED <<profile, journal, registered, effects, cursor, history>>

\* settle inserts the effect and is interrupted before anybody learns of it; the
\* worker restarts and delivers the same event with a full budget.
DeliverCutpoint ==
    /\ Attempts
    /\ ~AlreadySettled
    /\ ~run.transient /\ run.s5cut
    /\ EffectInserted
    /\ intents' = IntentsOpened
    /\ run' = [run EXCEPT !.s5cut = FALSE, !.tries = 0]
    /\ UNCHANGED <<profile, journal, registered, cursor, history>>

DeliverSettles ==
    /\ Attempts
    /\ ~AlreadySettled
    /\ ~run.transient /\ ~run.s5cut
    /\ EffectInserted
    /\ intents' = IntentsCompleted(IntentsOpened)
    /\ Delivered
    /\ UNCHANGED <<profile, journal, registered, history>>

\* A budget of nothing delivers nothing.
DeliveryExhausted ==
    /\ Running("deliver")
    /\ run.queue # <<>>
    /\ ~Attempts
    /\ Ends("raised")
    /\ UNCHANGED <<profile, tables, history>>

(***************************************************************************)
(* The end of a run.                                                       *)
(***************************************************************************)
\* Seeded fault: more than what was wanted will do.
CountedAtLeast(rows, wanted) ==
    Cardinality(rows) >= wanted /\ Cardinality(EffectsOf(rows)) >= wanted

Counted(rows, wanted) ==
    Cardinality(rows) = wanted /\ Cardinality(EffectsOf(rows)) = wanted

Passed ==
    LET rows == RowsOf(run.script)
        wanted == Cardinality(Pairs(run.script))
        kinds == IF run.script.notify THEN EffectKinds ELSE {"settlement"}
        own == EffectsOf({run.accepted[1]})
    IN  CASE run.script.judge = "counts"  -> Counted(rows, wanted)
          [] run.script.judge = "durable" -> Counted(rows, wanted) /\ \A i \in rows : i <= cursor
          [] run.script.judge = "journal" -> Cardinality(rows) = 1
          [] run.script.judge = "event"   ->
                /\ Cardinality(own) = Cardinality(kinds)
                /\ {effects[i].kind : i \in own} = kinds

Interrupted ==
    \/ run.script.cut = "s2" /\ profile = 1 /\ ~run.s2cut
    \/ run.script.cut = "s5" /\ profile = 0 /\ ~run.s5cut

Outcome ==
    CASE run.script.judge # "none" -> IF Passed THEN "pass" ELSE "fail"
      [] OTHER -> IF Interrupted THEN "cutpoint" ELSE "diagnostic"

FinishRun ==
    /\ Running("deliver")
    /\ run.queue = <<>>
    /\ Ends(Outcome)
    /\ UNCHANGED <<profile, tables, history>>

\* recovery.restore between runs: the tables of S0, taken before the incident.
Restore ==
    /\ run.phase = "idle"
    /\ journal' = <<>> /\ registered' = {} /\ effects' = <<>> /\ intents' = {}
    /\ cursor' = 0
    /\ run' = NoRun
    /\ ran' = {}
    /\ UNCHANGED <<profile, runs>>

Init ==
    /\ profile \in Profiles
    /\ journal = IF profile = 0 THEN <<IncidentRow>> ELSE <<IncidentRow, IncidentRow>>
    /\ registered = {[pair |-> IncidentPair, event |-> Len(journal)]}
    /\ effects = <<[event |-> 1, kind |-> "settlement"],
                   [event |-> Len(journal), kind |-> "settlement"]>>
    /\ intents = {}
    /\ cursor = Len(journal)
    /\ run = NoRun
    /\ runs = 0
    /\ ran = {}

Step ==
    \/ AcceptReuses
    \/ AcceptAppends
    \/ Register
    \/ CommandRejected
    \/ PlanDeliveries
    \/ DeliverReuses
    \/ DeliverTransient
    \/ DeliverCutpoint
    \/ DeliverSettles
    \/ DeliveryExhausted
    \/ FinishRun

Next ==
    \/ \E script \in Scripts[profile], revision \in Revisions : StartRun(script, revision)
    \/ Step
    \/ Restore

\* The engine runs to its return inside one call, so a run that has begun goes on.
Spec == Init /\ [][Next]_vars /\ WF_vars(Step)

(***************************************************************************)
(* Properties.                                                             *)
(***************************************************************************)
TypeOK ==
    /\ profile \in Profiles
    /\ journal \in Seq(Commands \cup {IncidentRow})
    /\ registered \subseteq [pair : Occurrences \cup {IncidentPair}, event : Nat]
    /\ effects \in Seq([event : DOMAIN journal, kind : EffectKinds])
    /\ intents \subseteq [event : DOMAIN journal, kind : EffectKinds,
                          state : {"created", "completed"}]
    /\ cursor \in 0..Len(journal)
    /\ runs \in 0..MaxRuns
    /\ ran \subseteq Flows
    /\ run.phase \in {"idle", "accept", "register", "plan", "deliver"}
    /\ run.accepted \in Seq(DOMAIN journal)
    /\ \A i \in DOMAIN run.queue : run.queue[i].event \in DOMAIN journal

\* How many effects of each kind an occurrence has.
Settled == [o \in Occurrences |-> [k \in EffectKinds |->
               Cardinality({i \in DOMAIN effects :
                               /\ effects[i].kind = k
                               /\ journal[effects[i].event].pair = o})]]

Contract == INSTANCE SettlementContract WITH
    accepted <- {journal[i].pair : i \in DOMAIN journal} \ {IncidentPair},
    settled  <- Settled,
    careful  <- "default" \notin ran

\* The engine keeps the contract of the service: whatever is retried, cut short,
\* delivered again, raised or restored, no accepted occurrence gets a second
\* effect of a kind and no effect appears for one that was not accepted, as long
\* as the shipped flow has not run since the tables were restored.
ImplementsContract == Contract!Spec

\* A repaired flow passes every workload it is judged by, whatever earlier runs of
\* repaired flows, failed ones included, left in the tables, if the budget covers
\* the one transient failure.
RepairPasses ==
    ran \subseteq Repairs /\ run.outcome \notin {"none", "cutpoint", "diagnostic"} =>
        \/ run.outcome = "pass"
        \/ run.script.judge = "none"
        \/ run.budget < (IF run.script.transient THEN 2 ELSE 1)

\* A pass is about each occurrence: although the code compares totals over all
\* the rows of a script, and whichever flows ran before, a script that passes
\* leaves every one of its occurrences with exactly one settlement.
PassSettlesEach ==
    run.outcome = "pass" /\ run.script.judge \in {"counts", "durable"} =>
        \A p \in Pairs(run.script) : Settled[p]["settlement"] = 1

\* The durable tables agree.  What s3 recorded is what s2 will answer: a command is
\* registered with the event that get_event_id returns for it, unless the shipped
\* flow, which appends without looking, has run.  A completed intent has its effect,
\* and a run of the outbox flow that passes has closed every intent of its rows,
\* those that an interrupted or a raising run had left open too.
TablesAgree ==
    /\ "default" \notin ran =>
          \A r \in registered : r.pair # IncidentPair => r.event = EventOf(r.pair)
    /\ \A n \in intents : n.state = "completed" => HasEffect(n.event, n.kind)
    /\ run.outcome = "pass" /\ run.flow = "intent_outbox" /\ run.script.judge # "journal" =>
          \A n \in intents : n.event \in RowsOf(run.script) => n.state = "completed"

\* Every run returns or raises: the restart of a cutpoint, which resets the
\* attempts, cannot keep the delivery loop alive.
RunsEnd == (run.phase # "idle") ~> (run.phase = "idle")
=============================================================================
