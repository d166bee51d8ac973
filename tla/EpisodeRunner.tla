---------------------------- MODULE EpisodeRunner ----------------------------
(***************************************************************************)
(* One run of evaluation_service/runner.py over an IncidentEnv: the loop   *)
(* of model turns and tool calls, the retried completion that races the    *)
(* wall clock and the cancellation, and the three ways a run ends.  A      *)
(* behaviour has a runner, or the environment alone with any other caller. *)
(*                                                                         *)
(* The runner is a task of an event loop.  The loop runs anything else     *)
(* only while the runner waits for a completion or for its back-off: emit  *)
(* writes to the store and a call of the environment waits for the pipe,   *)
(* both without giving the loop away.  So only then can the cancellation   *)
(* be set, and a call that never returns (blocked) stops the process.      *)
(*                                                                         *)
(* What is abstracted: the messages; which calls a response has, and       *)
(* whether one of the token or cost budgets is used up, are choices; the   *)
(* result of a read may equal an earlier one or not.                       *)
(***************************************************************************)
EXTENDS IncidentEnv

CONSTANTS
    MaxModelCalls,   \* limits.max_model_calls
    MaxRetries,      \* model_configuration.max_retries
    CallsPerTurn,    \* the calls of one response that are made (4)
    Runner           \* bound: its seeds, its limits.max_steps, which a request always
                     \* has, and the kinds of tools the model calls

ASSUME RunnerAssumption ==
    /\ MaxModelCalls \in Nat \ {0} /\ MaxRetries \in Nat /\ CallsPerTurn \in Nat \ {0}
    /\ Runner.seeds \subseteq Seeds /\ Runner.tools \subseteq Tools
    /\ Runner.steps \subseteq Nat \ {0}

VARIABLES
    phase,       \* where run() stands, "absent" if there is another caller
    cancelled,   \* the event of the batch
    elapsed,     \* the wall clock limit, if there is one, is over
    calls,       \* model_calls
    tries,       \* the retries of the completion under way
    left,        \* the calls of the response that are still to be made
    warned,      \* repetitive_cycle_warning_sent
    timeline,
    outcome      \* the status and the grade it is reported with

budgets == <<calls, tries, left, warned>>
runnerVars == <<phase, cancelled, elapsed, budgets, timeline, outcome>>
vars == <<envVars, runnerVars>>

\* An emit is under way, and the store may raise.
Emitting == {"announcing", "answered", "stepped", "warning", "scoring"}

\* The loop is free.
Waiting == {"completing", "retrying"}

\* Where the runner goes on by itself.
Inside == {"turn", "calling", "grading", "handling"}

Phases == {"absent", "start", "done"} \cup Emitting \cup Waiting \cup Inside

ReadOnlyTools == {"release.status", "read", "telemetry.trace"}

(***************************************************************************)
(* How a run ends.                                                         *)
(***************************************************************************)

\* An exception of the try block: its handler grades and reports.
Raise(status) ==
    /\ phase' = "handling"
    /\ outcome' = [outcome EXCEPT !.status = status]

\* break out of the loop.
Finish == phase' = "grading" /\ UNCHANGED outcome

GoTo(next) == phase' = next /\ UNCHANGED outcome

\* The finally block.
EnvClosed ==
    /\ open' = FALSE
    /\ controller' = "none"
    /\ UNCHANGED <<manifest, ended, counters, transcript, lastHandle, session, episode,
                   ready>>

EnvKept ==
    UNCHANGED <<manifest, controller, open, ended, counters, transcript, lastHandle,
                session, episode, ready>>

HangsInGrade ==
    /\ CanGrade /\ GradeHangs
    /\ blocked' = TRUE
    /\ EnvKept
    /\ UNCHANGED <<grade, runnerVars>>

\* Both handlers: they report without a grade what cannot be graded, and close.
Handle ==
    /\ phase = "handling"
    /\ \/ HangsInGrade
       \/ /\ grade' = IF CanGrade THEN GradeNow ELSE grade
          /\ outcome' = [outcome EXCEPT !.grade = IF CanGrade THEN GradeNow ELSE None]
          /\ phase' = "done"
          /\ EnvClosed
          /\ UNCHANGED <<blocked, cancelled, elapsed, budgets, timeline>>

\* After the loop: the grade, and run_scored.
GradeEpisode ==
    /\ phase = "grading"
    /\ \/ HangsInGrade
       \/ /\ grade' = GradeNow
          /\ phase' = "scoring"
          /\ EnvKept
          /\ UNCHANGED <<blocked, cancelled, elapsed, budgets, timeline, outcome>>

Complete ==
    /\ phase = "scoring"
    /\ outcome' = [status |-> "completed", grade |-> grade]
    /\ phase' = "done"
    /\ EnvClosed
    /\ UNCHANGED <<grade, blocked, cancelled, elapsed, budgets, timeline>>

EmitFails ==
    /\ phase \in Emitting
    /\ Raise("failed")
    /\ UNCHANGED <<envVars, cancelled, elapsed, budgets, timeline>>

\* The task itself is cancelled: the process is asked to stop.
Interrupted ==
    /\ phase \in Waiting
    /\ Raise("cancelled")
    /\ UNCHANGED <<envVars, cancelled, elapsed, budgets, timeline>>

(***************************************************************************)
(* The loop.                                                               *)
(***************************************************************************)

\* env.reset: it may raise with the environment closed or open.
Start ==
    /\ phase = "start"
    /\ Reset(seed)
    /\ IF ready' THEN GoTo("announcing") ELSE Raise("failed")
    /\ UNCHANGED <<cancelled, elapsed, budgets, timeline>>

Announced ==
    /\ phase = "announcing"
    /\ GoTo("turn")
    /\ UNCHANGED <<envVars, cancelled, elapsed, budgets, timeline>>

\* Seeded fault: one call too many.
LateOutOfCalls == calls > MaxModelCalls

OutOfCalls == calls >= MaxModelCalls

\* The top of the loop: cancellation, wall clock, model calls, in this order.
Turn ==
    /\ phase = "turn"
    /\ CASE cancelled -> Raise("cancelled")
         [] ~cancelled /\ (elapsed \/ OutOfCalls) -> Finish
         [] OTHER -> GoTo("completing")
    /\ tries' = 0
    /\ UNCHANGED <<envVars, cancelled, elapsed, calls, left, warned, timeline>>

\* Seeded fault: a retry is not counted.
SameTry == tries

NextTry == tries + 1

\* A timeout of one attempt or a retryable error, while there are retries left; then
\* the back-off.
RetryCompletion ==
    /\ phase = "completing"
    /\ tries < MaxRetries
    /\ tries' = NextTry
    /\ GoTo("retrying")
    /\ UNCHANGED <<envVars, cancelled, elapsed, calls, left, warned, timeline>>

AttemptAgain ==
    /\ phase = "retrying"
    /\ IF cancelled THEN Raise("cancelled") ELSE GoTo("completing")
    /\ UNCHANGED <<envVars, cancelled, elapsed, budgets, timeline>>

\* The last retry failed, the error is not retryable, or the store raised.
CompletionFails ==
    /\ phase = "completing"
    /\ Raise("failed")
    /\ UNCHANGED <<envVars, cancelled, elapsed, budgets, timeline>>

\* _complete_with_limits wakes up for the cancellation or for the wall clock, and
\* drops the completion wherever it is.  If the answer came first it is taken, even
\* when the cancellation has been set before the runner goes on.
CompletionDropped ==
    /\ phase \in {"completing", "retrying"}
    /\ \/ cancelled /\ Raise("cancelled")
       \/ elapsed /\ Finish
    /\ UNCHANGED <<envVars, cancelled, elapsed, budgets, timeline>>

\* A response with n calls; those beyond the first CallsPerTurn are dropped.
Answer ==
    /\ phase = "completing"
    /\ calls' = calls + 1
    /\ \E n \in 0..CallsPerTurn + 1 :
        left' = IF n > CallsPerTurn THEN CallsPerTurn ELSE n
    /\ GoTo("answered")
    /\ UNCHANGED <<envVars, cancelled, elapsed, tries, warned, timeline>>

\* A budget of tokens or cost is used up, there is no call, or the calls follow.
Answered ==
    /\ phase = "answered"
    /\ \/ Finish
       \/ left > 0 /\ GoTo("calling")
    /\ UNCHANGED <<envVars, cancelled, elapsed, budgets, timeline>>

\* Seeded fault: the calls of one response are made without a look at the flag.
MayCallAnyway == TRUE

MayCall == ~cancelled

\* Seeded fault: an action that failed leaves no entry.
AppendedIfGood(entry) == IF entry.success THEN Append(timeline, entry) ELSE timeline

Appended(entry) == Append(timeline, entry)

\* What the runner keeps of the entry the environment has just recorded.
TimelineEntry(tool) ==
    LET authenticated == transcript'.entries[Len(transcript'.entries)] IN
    [sequence |-> Len(timeline) + 1, tool |-> tool, size |-> authenticated.size,
     success |-> authenticated.success]

CallCancelled ==
    /\ phase = "calling"
    /\ ~MayCall
    /\ Raise("cancelled")
    /\ UNCHANGED <<envVars, cancelled, elapsed, budgets, timeline>>

UnknownTool ==
    /\ phase = "calling"
    /\ MayCall
    /\ Raise("failed")
    /\ UNCHANGED <<envVars, cancelled, elapsed, budgets, timeline>>

\* One call: the step of the environment, its entry in the timeline, and
\* tool_completed.
Call ==
    /\ phase = "calling"
    /\ MayCall
    /\ \E tool \in Runner.tools : \E size \in Sizes[tool] :
        /\ \/ \E success \in BOOLEAN : StepAnswered(tool, success, size)
           \/ StepLost(tool, size)
        /\ timeline' = IF blocked' THEN timeline ELSE Appended(TimelineEntry(tool))
    /\ left' = left - 1
    /\ IF blocked' THEN UNCHANGED <<phase, outcome>> ELSE GoTo("stepped")
    /\ UNCHANGED <<cancelled, elapsed, calls, tries, warned>>

CallHangs ==
    /\ phase = "calling"
    /\ MayCall
    /\ StepHangs
    /\ UNCHANGED runnerVars

\* repeated_read_only_cycle: the timeline can end with a cycle only if its last two
\* entries are successful reads.
MayRepeat ==
    /\ Len(timeline) >= 2
    /\ \A i \in {Len(timeline) - 1, Len(timeline)} :
        timeline[i].success /\ timeline[i].tool \in ReadOnlyTools

\* The next call of the response, or the next turn.
Continue == GoTo(IF left > 0 THEN "calling" ELSE "turn")

\* The first cycle is answered with a warning, the second one ends the loop.
Stepped ==
    /\ phase = "stepped"
    /\ \E repeated \in {FALSE, MayRepeat} :
        /\ warned' = (warned \/ repeated)
        /\ IF repeated /\ ~warned THEN GoTo("warning")
           ELSE IF ended \/ repeated THEN Finish ELSE Continue
    /\ UNCHANGED <<envVars, cancelled, elapsed, calls, tries, left, timeline>>

Warned ==
    /\ phase = "warning"
    /\ IF ended THEN Finish ELSE Continue
    /\ UNCHANGED <<envVars, cancelled, elapsed, budgets, timeline>>

(***************************************************************************)
(* Beside the runner.                                                      *)
(***************************************************************************)

\* The handler of a request sets the event of the batch, in the same loop.
CancelArrives ==
    /\ phase \in Waiting
    /\ ~cancelled
    /\ cancelled' = TRUE
    /\ UNCHANGED <<envVars, phase, elapsed, budgets, timeline, outcome>>

ClockRunsOut ==
    /\ phase \notin {"absent", "done"} /\ ~elapsed
    /\ elapsed' = TRUE
    /\ UNCHANGED <<envVars, phase, cancelled, budgets, timeline, outcome>>

Init ==
    /\ \/ phase = "absent" /\ \E s \in Caller.seeds, n \in Caller.steps : EnvInit(s, n)
       \/ phase = "start" /\ \E s \in Runner.seeds, n \in Runner.steps : EnvInit(s, n)
    /\ elapsed = FALSE
    /\ cancelled = FALSE
    /\ calls = 0
    /\ tries = 0
    /\ left = 0
    /\ warned = FALSE
    /\ timeline = <<>>
    /\ outcome = [status |-> "running", grade |-> None]

RunnerNext ==
    /\ ~blocked
    /\ \/ Start \/ Announced \/ Turn
       \/ RetryCompletion \/ AttemptAgain \/ CompletionFails \/ CompletionDropped \/ Answer
       \/ Answered \/ CallCancelled \/ UnknownTool \/ Call \/ CallHangs \/ Stepped \/ Warned
       \/ GradeEpisode \/ Complete \/ Handle \/ EmitFails \/ Interrupted

OtherCaller == phase = "absent" /\ EnvNext /\ UNCHANGED runnerVars

Next == RunnerNext \/ OtherCaller \/ CancelArrives \/ ClockRunsOut

\* The loop schedules every task that can go on; an attempt of a completion has a
\* timeout, so it ends.
Spec == Init /\ [][Next]_vars /\ WF_vars(RunnerNext)

(***************************************************************************)
(* Properties.                                                             *)
(***************************************************************************)

TypeOK ==
    /\ EnvTypeOK
    /\ phase \in Phases
    /\ cancelled \in BOOLEAN /\ elapsed \in BOOLEAN /\ warned \in BOOLEAN
    /\ calls \in 0..MaxModelCalls /\ tries \in 0..MaxRetries /\ left \in 0..CallsPerTurn
    /\ outcome \in [status : {"running", "completed", "cancelled", "failed"},
                    grade : Grades \cup {None}]
    /\ timeline \in Seq([sequence : Nat, tool : Tools, size : Nat, success : BOOLEAN])

\* The reported timeline is the authenticated transcript, whatever ended the run: no
\* action that counted is left out, and the grade that is reported with it is of
\* exactly these actions.
TimelineIsTranscript ==
    phase = "done" =>
        /\ Len(timeline) = Len(transcript.entries)
        /\ \A i \in DOMAIN timeline :
            /\ timeline[i].sequence = transcript.entries[i].sequence
            /\ timeline[i].tool = transcript.entries[i].tool
            /\ timeline[i].size = transcript.entries[i].size
            /\ timeline[i].success = transcript.entries[i].success
        /\ outcome.grade # None => outcome.grade.steps = Len(timeline)
        /\ outcome.status = "completed" => outcome.grade # None

\* Once the cancellation is set no further action reaches the environment, also not
\* one of a response that was already there.
NoActionAfterCancel ==
    [][cancelled => Len(transcript'.entries) = Len(transcript.entries)]_vars

\* Every run ends, with every limit it may have, unless a call of the environment
\* never returns.
EpisodeEnds == phase = "start" ~> (phase = "done" \/ blocked)

\* A run whose time is up stops.
WallClockStops == elapsed ~> phase = "done"
=============================================================================
