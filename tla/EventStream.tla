----------------------------- MODULE EventStream -----------------------------
(***************************************************************************)
(* The server-sent events of one batch: append_event and events_after of   *)
(* evaluation_service/persistence.py, event_stream of api/routes.py, and   *)
(* an EventSource that reconnects with the last id it received.            *)
(*                                                                         *)
(* The stream runs in the loop of the API process.  It gives the loop away *)
(* at every yield and at the sleep, so it may send events it read long     *)
(* ago, and it may judge with a fresh record what it read before a         *)
(* keep-alive.  The writer of the events is a task of the same loop, or    *)
(* another process (the CLI), whose commits fall between any two reads.    *)
(*                                                                         *)
(* What is abstracted: ids of other scopes, which only leave holes in the  *)
(* numbering, so the events of the batch are numbered from 1; the payload. *)
(***************************************************************************)
EXTENDS Naturals, Sequences, FiniteSets

CONSTANTS
    ReplayLimit,   \* FRONTIER_EVENT_REPLAY_LIMIT
    ReadLimit,     \* the limit of one events_after (200)
    KeepAlive,     \* the idle ticks between two keep-alives (40)
    MaxEvents,     \* bound of the events appended
    MaxRemovals,   \* bound of the events removed with their runs
    MaxDrops       \* bound of the connections lost

ASSUME LimitAssumption == {ReplayLimit, ReadLimit, KeepAlive} \subseteq Nat \ {0}
ASSUME BoundAssumption == {MaxEvents, MaxRemovals, MaxDrops} \subseteq Nat

VARIABLES
    foreign,    \* the batch is run by another process
    phase,      \* run_batch: "running", "status set" or "done"
    status,     \* the batch record, as far as TERMINAL_BATCH tells
    appended,   \* how many events were appended: the last id
    stored,     \* the ids of the rows there are
    removed,    \* the ids deleted together with their run
    finished,   \* the id of batch_finished, 0 before
    stream,     \* event_stream: where it stands, its cursor, what it read and
                \* has not sent, whether the round read anything, idle ticks
    channel,    \* what was sent and has not arrived
    received,   \* what the client got, over all its connections
    drops

writer == <<foreign, phase, status, appended, stored, removed, finished>>
client == <<stream, channel, received, drops>>
vars == <<writer, client>>

Phases == {"running", "status set", "done"}
Statuses == {"active", "terminal", "deleted"}
Places == {"off", "top", "sending", "yielded", "ended"}

Idle == [at |-> "off", cursor |-> 0, events |-> <<>>, some |-> FALSE, ticks |-> 0]

Init ==
    /\ foreign \in BOOLEAN
    /\ phase = "running"
    /\ status = "active"
    /\ appended = 0
    /\ stored = {}
    /\ removed = {}
    /\ finished = 0
    /\ stream = Idle
    /\ channel = <<>>
    /\ received = <<>>
    /\ drops = 0

-----------------------------------------------------------------------------
(***************************************************************************)
(* The writer.                                                             *)
(***************************************************************************)
Newer(S, e) == {f \in S : f > e}

\* Seeded fault: the row at the cutoff goes as well.
KeptShort(S) == {e \in S : Cardinality(Newer(S, e)) + 1 < ReplayLimit}

\* Seeded fault: the row at the cutoff stays.
KeptLong(S) == {e \in S : Cardinality(Newer(S, e)) <= ReplayLimit}

\* The ReplayLimit newest rows are kept.
Kept(S) == {e \in S : Cardinality(Newer(S, e)) < ReplayLimit}

Appends ==
    /\ appended < MaxEvents
    /\ appended' = appended + 1
    /\ stored' = Kept(stored \cup {appended + 1})

\* The last event of a foreign run may come after the run was deleted.
AppendEvent ==
    /\ phase = "running"
    /\ status = "deleted" => foreign
    /\ Appends
    /\ UNCHANGED <<foreign, phase, status, removed, finished, client>>

\* Without its record the batch fails before its end.
AtEnd == phase = "running" /\ status # "deleted"

\* The end of run_batch: the status, then batch_finished.
FinishHere ==
    /\ ~foreign
    /\ AtEnd
    /\ Appends
    /\ phase' = "done"
    /\ status' = "terminal"
    /\ finished' = appended + 1
    /\ UNCHANGED <<foreign, removed, client>>

FinishStatus ==
    /\ foreign
    /\ AtEnd
    /\ phase' = "status set"
    /\ status' = "terminal"
    /\ UNCHANGED <<foreign, appended, stored, removed, finished, client>>

FinishEvent ==
    /\ phase = "status set"
    /\ Appends
    /\ phase' = "done"
    /\ finished' = appended + 1
    /\ UNCHANGED <<foreign, status, removed, client>>

\* A cancel sets the status and appends its event also after the end.
Cancel ==
    /\ status # "deleted"
    /\ Appends
    /\ status' = "active"
    /\ UNCHANGED <<foreign, phase, removed, finished, client>>

\* delete_run removes the events that name the run.
RemoveEvent(e) ==
    /\ e \in stored
    /\ e # finished
    /\ Cardinality(removed) < MaxRemovals
    /\ stored' = stored \ {e}
    /\ removed' = removed \cup {e}
    /\ UNCHANGED <<foreign, phase, status, appended, finished, client>>

\* delete_run of the last run removes the batch with all its events.
DeleteBatch ==
    /\ status # "deleted"
    /\ status' = "deleted"
    /\ stored' = {}
    /\ removed' = removed \cup stored
    /\ UNCHANGED <<foreign, phase, appended, finished, client>>

-----------------------------------------------------------------------------
(***************************************************************************)
(* event_stream.                                                           *)
(***************************************************************************)
LastReceived == IF received = <<>> THEN 0 ELSE received[Len(received)]

\* Seeded fault: only a batch that runs has a stream.
ServedActive == status = "active"

\* The route answers 404 when there is no batch.
Served == status # "deleted"

Connect ==
    /\ stream.at = "off"
    /\ Served
    /\ stream' = [Idle EXCEPT !.at = "top", !.cursor = LastReceived]
    /\ UNCHANGED <<writer, channel, received, drops>>

\* Seeded fault: the row at the cursor is read again.
AfterFrom(cursor) == {e \in stored : e + 1 > cursor}

After(cursor) == {e \in stored : e > cursor}

\* The rows of a set by increasing id.
Ordered(S) == [i \in 1..Cardinality(S) |->
                  CHOOSE e \in S : Cardinality(S) - Cardinality(Newer(S, e)) = i]

EventsAfter(cursor) ==
    LET all == Ordered(After(cursor))
    IN  SubSeq(all, 1, IF Len(all) < ReadLimit THEN Len(all) ELSE ReadLimit)

\* Seeded fault: a terminal record ends the stream, whatever it has read.
EndsAnyway(some) == status = "terminal"

\* A record that is gone does not end the stream.
Ends(some) == status = "terminal" /\ ~some

AfterRecord(s) == [s EXCEPT !.at = IF Ends(s.some) THEN "ended" ELSE "top"]

\* A round that reads nothing and yields nothing reads the record at once: a
\* foreign process alone can commit in between.
Read ==
    /\ stream.at = "top"
    /\ LET events == EventsAfter(stream.cursor)
           tick == (stream.ticks + 1) % KeepAlive
           idle == [stream EXCEPT !.some = FALSE, !.ticks = tick]
       IN  stream' =
             IF events # <<>>
             THEN [at |-> "sending", cursor |-> stream.cursor, events |-> events,
                   some |-> TRUE, ticks |-> 0]
             ELSE IF tick = 0 \/ foreign THEN [idle EXCEPT !.at = "yielded"]
             ELSE AfterRecord(idle)
    /\ UNCHANGED <<writer, channel, received, drops>>

Send ==
    /\ stream.at = "sending"
    /\ LET rest == Tail(stream.events)
       IN  stream' = [stream EXCEPT !.cursor = stream.events[1], !.events = rest,
                                    !.at = IF rest = <<>> THEN "yielded" ELSE "sending"]
    /\ channel' = Append(channel, stream.events[1])
    /\ UNCHANGED <<writer, received, drops>>

\* Back from the last yield of a round: only now is the record read.
ReadRecord ==
    /\ stream.at = "yielded"
    /\ stream' = AfterRecord(stream)
    /\ UNCHANGED <<writer, channel, received, drops>>

-----------------------------------------------------------------------------
(***************************************************************************)
(* The client.                                                             *)
(***************************************************************************)
Deliver ==
    /\ channel # <<>>
    /\ received' = Append(received, channel[1])
    /\ channel' = Tail(channel)
    /\ UNCHANGED <<writer, stream, drops>>

\* The connection is lost with what is on its way.
Drop ==
    /\ stream.at # "off"
    /\ drops < MaxDrops
    /\ drops' = drops + 1
    /\ stream' = Idle
    /\ channel' = <<>>
    /\ UNCHANGED <<writer, received>>

\* An EventSource connects again when the response ends.
Reconnect ==
    /\ stream.at = "ended"
    /\ channel = <<>>
    /\ stream' = Idle
    /\ UNCHANGED <<writer, channel, received, drops>>

Next ==
    \/ AppendEvent \/ FinishHere \/ FinishStatus \/ FinishEvent \/ Cancel
    \/ \E e \in stored : RemoveEvent(e)
    \/ DeleteBatch
    \/ Connect \/ Read \/ Send \/ ReadRecord
    \/ Deliver \/ Drop \/ Reconnect

\* The loop serves the stream, the network delivers and the client comes back.
Fairness ==
    /\ WF_vars(Connect) /\ WF_vars(Read) /\ WF_vars(Send) /\ WF_vars(ReadRecord)
    /\ WF_vars(Deliver) /\ WF_vars(Reconnect)

Spec == Init /\ [][Next]_vars /\ Fairness

-----------------------------------------------------------------------------
Ids == 1..MaxEvents

\* The log, the stream and the client are well-formed; the log keeps at most
\* ReplayLimit events (append_event), and a stream that is sending has something
\* to send (event_stream).
TypeOK ==
    /\ foreign \in BOOLEAN
    /\ phase \in Phases
    /\ status \in Statuses
    /\ appended \in 0..MaxEvents
    /\ stored \subseteq Ids /\ Cardinality(stored) <= ReplayLimit
    /\ removed \subseteq Ids
    /\ finished \in 0..MaxEvents
    /\ stream \in [at : Places, cursor : 0..MaxEvents, events : Seq(Ids),
                   some : BOOLEAN, ticks : 0..KeepAlive]
    /\ stream.at = "sending" => stream.events # <<>>
    /\ channel \in Seq(Ids)
    /\ received \in Seq(Ids)
    /\ drops \in 0..MaxDrops

\* Over all its connections the client gets the events in order and none twice
\* (events_after, and the cursor the client sends back as Last-Event-ID).
InOrder ==
    \A i, j \in DOMAIN received : i < j => received[i] < received[j]

Got(e) == \E i \in DOMAIN received : received[i] = e

\* An event the client has gone past without receiving it was deleted with its
\* run, or ReplayLimit events were appended after it: a slow or reconnecting
\* client loses nothing of the last ReplayLimit events (append_event's cutoff).
MissedOnlyOld ==
    \A e \in 1..LastReceived :
        Got(e) \/ e \in removed \/ appended - e >= ReplayLimit

\* A stream of the process that runs the batch ends by itself only when it has
\* sent everything there is, but at a keep-alive, where event_stream gives the
\* loop away between reading the events and reading the record.
EndIsComplete ==
    [][(/\ ~foreign
        /\ stream.at # "ended" /\ stream'.at = "ended"
        /\ ~(stream.at = "yielded" /\ ~stream.some))
         => stored \subseteq 1..stream'.cursor]_vars

\* The client learns that the batch is over whatever was lost on the way, also
\* when a stream ended too early: reconnecting with the last id gets the rest,
\* as long as append_event has not pruned it and nobody deletes the batch.
FinishArrives ==
    \A e \in Ids : finished = e ~> Got(e) \/ e \notin stored \/ status = "deleted"
=============================================================================
