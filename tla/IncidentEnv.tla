----------------------------- MODULE IncidentEnv -----------------------------
(***************************************************************************)
(* The environment of training_ground/episode.py and its controller, the   *)
(* process of agent_surface/gateway.py that owns the session: reset, step, *)
(* grade and close, each with every way it can fail.                       *)
(*                                                                         *)
(* One request is answered at a time, over a pipe and without a timeout.   *)
(* A controller that has died shows as an error of the write or as the end *)
(* of its output; a flow of the agent that does not end, run by the        *)
(* controller or by the grader, shows as a call that never returns.        *)
(*                                                                         *)
(* What is abstracted: the session (module RecoverySession) is reduced to  *)
(* its trace epoch, the trace handles it issued, whether its incident is   *)
(* closed and whether its flow ends, which a change may set or clear; the  *)
(* tags and digests of the transcript verify exactly if it was made for    *)
(* the instance that is graded; the fake clock may pass its limit at any   *)
(* step; reset with another profile is reset to an instance that has it.   *)
(***************************************************************************)
EXTENDS Naturals, Sequences, FiniteSets, FiniteSetsExt

CONSTANTS
    Seeds,           \* the seeds of the instances
    Profile,         \* profile_for_seed
    Limits,          \* of each manifest: action_limit (128), byte_limit (2,000,000)
    Sizes,           \* of each kind of tool, the bytes one action may take
    Caller,          \* bound: the seeds, the max_steps and the tools a caller uses
    MaxEpisodes,     \* bound of the controllers started
    None

\* workspace.read, telemetry.logs, state.inspect and telemetry.trace with a handle
\* of the caller are "read"; telemetry.trace stands for __from_previous__; an
\* action that validate_action refuses is one of any kind without success.
Tools == {"release.status", "read", "telemetry.trace", "runtime.run", "change"}

ASSUME InstanceAssumption ==
    /\ Profile \in [Seeds -> {0, 1}]
    /\ Limits \in [Seeds -> [actions : Nat, bytes : Nat]]
ASSUME CallerAssumption ==
    /\ Caller.seeds \subseteq Seeds /\ Caller.tools \subseteq Tools
    /\ Caller.steps \subseteq (Nat \ {0}) \cup {None}
    /\ Sizes \in [Tools -> SUBSET Nat] /\ MaxEpisodes \in Nat

\* The values of the environment: a trace handle and what it was issued for, the
\* entries of a transcript, what a grade was computed from.
Handles == [session : {0, 1}, epoch : Nat, run : Nat]
Entries == [sequence : Nat, tool : Tools, success : BOOLEAN, size : Nat,
            run : Handles \cup {None}, episode : Nat]
Grades == [episode : Nat, steps : Nat, authentic : BOOLEAN, bounded : BOOLEAN,
           incident : {"open", "closed"}]

ASSUME NoneAssumption == None \notin Nat \cup Handles \cup Grades

VARIABLES
    seed,         \* of the manifest
    maxSteps,
    controller,   \* the process: "none", "up" or "dead"
    open,         \* there is a client, and _closed is not set
    ended,
    actions,      \* _action_count and _sequence
    bytes,        \* _total_bytes
    transcript,   \* the instance it was made for, and its step entries
    grade,        \* _grade_result with what it was computed from, None before
    lastHandle,   \* _last_trace_handle, None before
    session,      \* what the controller's session is reduced to
    episode,      \* history: how many controllers were started
    ready,        \* history: the last reset returned
    blocked       \* a call of the caller never returns

counters == <<actions, bytes>>
manifest == <<seed, maxSteps>>
envVars == <<manifest, controller, open, ended, counters, transcript, grade,
             lastHandle, session, episode, ready, blocked>>

(***************************************************************************)
(* What the controller's session is.                                       *)
(***************************************************************************)

\* endless: the deployed flow, which the agent wrote, does not end for some workload.
FreshSession == [incident |-> "open", epoch |-> 0, issued |-> {}, endless |-> FALSE]

\* The tokens are deterministic: a session of the same profile that has run as
\* much issues the same one.
NextHandle == [session |-> Profile[seed], epoch |-> session.epoch,
               run |-> Cardinality(session.issued)]

TraceAnswers ==
    /\ lastHandle # None
    /\ lastHandle.session = Profile[seed]
    /\ lastHandle.epoch = session.epoch
    /\ lastHandle \in session.issued

\* A deploy, a rollback, a restore or a resume ends the epoch.
Changed(incident, endless) ==
    [incident |-> incident, epoch |-> session.epoch + 1, issued |-> session.issued,
     endless |-> endless]

\* What the session can become by a call of the tool that succeeds.
After(tool) ==
    CASE tool = "runtime.run" ->
            {[session EXCEPT !.issued = @ \cup {NextHandle}]}
      [] tool = "change" ->
            {Changed("open", e) : e \in BOOLEAN}
                \cup {Changed("closed", session.endless),
                      [session EXCEPT !.incident = "open"]}
      [] OTHER -> {session}

MaySucceed(tool) == tool = "telemetry.trace" => TraceAnswers

(***************************************************************************)
(* The transcript and its grade.                                           *)
(***************************************************************************)

NewTranscript(s) == [seed |-> s, entries |-> <<>>]

\* success is success_error_code = "ok"; run is the run a handle stands for, in the
\* entry that got it and in the one that used it.
Entry(tool, success, size) ==
    [sequence |-> actions + 1, tool |-> tool, success |-> success, size |-> size,
     run |-> CASE success /\ tool = "runtime.run" -> NextHandle
               [] success /\ tool = "telemetry.trace" -> lastHandle
               [] OTHER -> None,
     episode |-> episode]

AddStep(entry) == [transcript EXCEPT !.entries = Append(@, entry)]

\* The verifier's own recount.
TotalBytes(t) == MapThenSumSet(LAMBDA i : t.entries[i].size, DOMAIN t.entries)

BoundedResources(t) ==
    Len(t.entries) <= Limits[seed].actions /\ TotalBytes(t) <= Limits[seed].bytes

\* verify_transcript.
Authenticates(t) == t.seed = seed

Graded(t, s) == [episode |-> episode, steps |-> Len(t.entries),
                 authentic |-> Authenticates(t), bounded |-> BoundedResources(t),
                 incident |-> s.incident]

\* grade() computes once and answers that until the next reset.
GradeNow == IF grade = None THEN Graded(transcript, session) ELSE grade

CanGrade == open

\* The grader runs the deployed flow in the process of the caller.
GradeHangs == grade = None /\ session.endless

\* Seeded fault: the limit of actions is that of the actions before this one.
LateOverLimit(n, b) == n > Limits[seed].actions + 1 \/ b > Limits[seed].bytes

\* Limits.check, but for the fake clock.
OverLimit(n, b) == n > Limits[seed].actions \/ b > Limits[seed].bytes

Truncates(n, b, late) ==
    IF maxSteps # None /\ n >= maxSteps THEN TRUE ELSE OverLimit(n, b) \/ late

(***************************************************************************)
(* step.                                                                   *)
(***************************************************************************)

\* Otherwise step raises, and nothing changes.
CanStep == open /\ ~ended /\ ~blocked

\* The action and the status that follows it are both answered.  The grade of an
\* action that terminates runs the agent's flow, which may not end.
StepAnswered(tool, success, size) ==
    /\ CanStep
    /\ controller = "up"
    /\ success => MaySucceed(tool)
    /\ session' \in (IF success THEN After(tool) ELSE {session})
    /\ lastHandle' = IF success /\ tool = "runtime.run" THEN NextHandle ELSE lastHandle
    /\ actions' = actions + 1
    /\ bytes' = bytes + size
    /\ transcript' = AddStep(Entry(tool, success, size))
    /\ LET terminated == tool = "release.status" /\ session'.incident = "closed" IN
        /\ blocked' \in {FALSE, terminated /\ GradeHangs}
        /\ grade' = IF terminated /\ grade = None /\ ~blocked'
                    THEN Graded(transcript', session') ELSE grade
        /\ \E late \in BOOLEAN :
            ended' = (~blocked' /\ (terminated \/ Truncates(actions', bytes', late)))
    /\ UNCHANGED <<manifest, controller, open, episode, ready>>

\* One of the two is not answered, and the environment records that the gateway is
\* unavailable: the action may have had its effect, its answer may even have come.
\* The controller survives only if it answered the status with an error.
StepLost(tool, size) ==
    /\ CanStep
    /\ controller' \in {controller, "dead"}
    /\ \/ UNCHANGED <<session, lastHandle>>
       \/ /\ controller = "up" /\ MaySucceed(tool)
          /\ session' \in After(tool)
          /\ lastHandle' \in {lastHandle,
                IF tool = "runtime.run" THEN NextHandle ELSE lastHandle}
    /\ actions' = actions + 1
    /\ bytes' = bytes + size
    /\ transcript' = AddStep(Entry(tool, FALSE, size))
    /\ ended' = TRUE
    /\ UNCHANGED <<manifest, open, grade, episode, ready, blocked>>

\* The controller runs a flow that does not end, and the client reads its answer.
StepHangs ==
    /\ CanStep
    /\ controller = "up" /\ session.endless
    /\ blocked' = TRUE
    /\ actions' = actions + 1
    /\ UNCHANGED <<manifest, controller, open, ended, bytes, transcript, grade,
                   lastHandle, session, episode, ready>>

Step ==
    \E tool \in Caller.tools : \E size \in Sizes[tool] :
        (\E success \in BOOLEAN : StepAnswered(tool, success, size))
            \/ StepLost(tool, size)

(***************************************************************************)
(* reset, grade and close.                                                 *)
(***************************************************************************)

\* Seeded fault: the grade of the episode before is kept.
KeptGrade == grade

GradeAfterReset == None

\* reset closes the environment first.  A controller that does not start leaves it
\* closed, with the counters and the transcript of the episode before.
ResetFails(s) ==
    /\ ~blocked
    /\ seed' = s
    /\ controller' = "none"
    /\ open' = FALSE
    /\ ready' = FALSE
    /\ UNCHANGED <<maxSteps, ended, counters, transcript, grade, lastHandle, session,
                   episode, blocked>>

\* The counters are cleared as soon as the controller has started; the transcript is
\* replaced when the first status is answered, and another status follows.  If one of
\* the two is not answered, reset raises and leaves the environment open.
ResetStarts(s) ==
    /\ ~blocked
    /\ episode < MaxEpisodes
    /\ episode' = episode + 1
    /\ seed' = s
    /\ open' = TRUE
    /\ ended' = FALSE
    /\ actions' = 0
    /\ bytes' = 0
    /\ grade' = GradeAfterReset
    /\ session' = FreshSession
    /\ \/ /\ controller' = "up"
          /\ transcript' = NewTranscript(s)
          /\ ready' = TRUE
       \/ /\ controller' \in {"up", "dead"}
          /\ transcript' \in {transcript, NewTranscript(s)}
          /\ ready' = FALSE
    /\ UNCHANGED <<maxSteps, lastHandle, blocked>>

Reset(s) == ResetFails(s) \/ ResetStarts(s)

Grade ==
    /\ CanGrade
    /\ ~blocked
    /\ \/ grade' = GradeNow /\ blocked' = FALSE
       \/ GradeHangs /\ blocked' = TRUE /\ UNCHANGED grade
    /\ UNCHANGED <<manifest, controller, open, ended, counters, transcript, lastHandle,
                   session, episode, ready>>

Close ==
    /\ ~blocked
    /\ open' = FALSE
    /\ controller' = "none"
    /\ UNCHANGED <<manifest, ended, counters, transcript, grade, lastHandle, session,
                   episode, ready, blocked>>

\* load_environment for a seed and a choice of max_steps.
EnvInit(s, n) ==
    /\ seed = s
    /\ maxSteps = n
    /\ controller = "none"
    /\ open = FALSE
    /\ ended = FALSE
    /\ actions = 0
    /\ bytes = 0
    /\ transcript = NewTranscript(s)
    /\ grade = None
    /\ lastHandle = None
    /\ session = FreshSession
    /\ episode = 0
    /\ ready = FALSE
    /\ blocked = FALSE

\* IncidentGymEnv refuses a step after a reset that raised, and a rollout ends there.
MayStep == ready

\* Any other caller.
EnvNext ==
    \/ \E s \in Caller.seeds : Reset(s)
    \/ MayStep /\ (Step \/ StepHangs)
    \/ Grade
    \/ Close

(***************************************************************************)
(* Properties.                                                             *)
(***************************************************************************)

EnvTypeOK ==
    /\ seed \in Seeds
    /\ maxSteps \in Nat \cup {None}
    /\ controller \in {"none", "up", "dead"}
    /\ open \in BOOLEAN /\ ended \in BOOLEAN /\ ready \in BOOLEAN /\ blocked \in BOOLEAN
    /\ actions \in Nat /\ bytes \in Nat /\ episode \in Nat
    /\ transcript \in [seed : Seeds, entries : Seq(Entries)]
    /\ grade \in Grades \cup {None}
    /\ lastHandle \in Handles \cup {None}
    /\ session \in [incident : {"open", "closed"}, epoch : Nat,
                    issued : SUBSET Handles, endless : BOOLEAN]
    /\ IsFiniteSet(session.issued)

\* The runs of the transcript up to an entry whose handle the caller got.
RunsBefore(i) ==
    {j \in 1..(i - 1) : transcript.entries[j].tool = "runtime.run"
                            /\ transcript.entries[j].success}

\* After a reset that returned, nothing of an earlier episode counts: the transcript
\* is of this instance and holds the actions since then, in order; the grade was
\* computed for this episode; and a trace of the previous run is that of the last run
\* in this transcript, though reset leaves the handle of the episode before.
OnlyThisEpisode ==
    ready =>
        /\ transcript.seed = seed
        /\ \A i \in DOMAIN transcript.entries :
            LET e == transcript.entries[i] IN
            /\ e.episode = episode
            /\ e.sequence = i
            /\ e.tool = "telemetry.trace" /\ e.success =>
                \E j \in RunsBefore(i) :
                    /\ transcript.entries[j].run = e.run
                    /\ \A k \in RunsBefore(i) : k <= j
        /\ grade # None => grade.episode = episode /\ grade.authentic

\* The environment ends an episode before the verifier's recount of its transcript can
\* exceed a limit: a caller that goes on while it may loses nothing.  Only the action
\* that ends it can be one too many, and with max_steps within the limit none is.
CreditIsBounded ==
    ready /\ ~blocked =>
        /\ actions = Len(transcript.entries)
        /\ bytes = TotalBytes(transcript)
        /\ ~ended => BoundedResources(transcript)
        /\ maxSteps # None /\ maxSteps <= Limits[seed].actions =>
            Len(transcript.entries) <= Limits[seed].actions
=============================================================================
