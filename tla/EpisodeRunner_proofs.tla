------------------------- MODULE EpisodeRunner_proofs -------------------------
(***************************************************************************)
(* Theorems of IncidentEnv and EpisodeRunner, for every choice of the      *)
(* instances, limits, callers and bounds.                                  *)
(***************************************************************************)
EXTENDS EpisodeRunner, FiniteSetTheorems, WellFoundedInduction, TLAPS

(***************************************************************************)
(* Cancellation.                                                           *)
(***************************************************************************)

(* The cancellation arrives only while the runner waits, so there is none     *)
(* before the first completion, and never with another caller.                *)
CancelledLater == phase \in {"absent", "start"} => ~cancelled

LEMMA StepCancelledLater == CancelledLater /\ [Next]_vars => CancelledLater'
<1> SUFFICES ASSUME CancelledLater, [Next]_vars
             PROVE  CancelledLater'
  OBVIOUS
<1>1. CASE RunnerNext
  <2>1. CASE Start \/ Announced \/ Turn \/ Answered \/ Stepped \/ Warned
    BY <2>1 DEF CancelledLater, Start, Announced, Turn, Answered, Stepped, Warned,
                Raise, GoTo, Finish, Continue
  <2>2. CASE RetryCompletion \/ AttemptAgain \/ CompletionFails \/ CompletionDropped
             \/ Answer \/ EmitFails \/ Interrupted
    BY <2>2 DEF CancelledLater, RetryCompletion, AttemptAgain, CompletionFails,
                CompletionDropped, Answer, EmitFails, Interrupted, Raise, GoTo, Finish
  <2>3. CASE CallCancelled \/ UnknownTool \/ Call \/ CallHangs
    BY <2>3 DEF CancelledLater, CallCancelled, UnknownTool, Call, CallHangs, Raise,
                GoTo, runnerVars
  <2>4. CASE GradeEpisode \/ Complete \/ Handle
    BY <2>4 DEF CancelledLater, GradeEpisode, Complete, Handle, HangsInGrade, runnerVars
  <2> QED
    BY <1>1, <2>1, <2>2, <2>3, <2>4 DEF RunnerNext
<1>2. CASE OtherCaller \/ ClockRunsOut
  BY <1>2 DEF CancelledLater, OtherCaller, ClockRunsOut, runnerVars
<1>3. CASE CancelArrives
  BY <1>3 DEF CancelledLater, CancelArrives, Waiting
<1>4. CASE UNCHANGED vars
  BY <1>4 DEF CancelledLater, vars, runnerVars
<1> QED
  BY <1>1, <1>2, <1>3, <1>4 DEF Next

(* What leaves the environment as it is, or only closes or grades it.         *)
LEMMA TranscriptKept ==
    ASSUME \/ UNCHANGED envVars
           \/ Announced \/ Turn \/ Answered \/ Stepped \/ Warned \/ RetryCompletion
           \/ AttemptAgain \/ CompletionFails \/ CompletionDropped \/ Answer
           \/ EmitFails \/ Interrupted \/ CallCancelled \/ UnknownTool \/ CallHangs
           \/ GradeEpisode \/ Complete \/ Handle \/ CancelArrives \/ ClockRunsOut
    PROVE  transcript' = transcript
<1>1. CASE UNCHANGED envVars
  BY <1>1 DEF envVars
<1>2. CASE Announced \/ Turn \/ Answered \/ Stepped \/ Warned \/ CancelArrives
           \/ ClockRunsOut \/ RetryCompletion \/ AttemptAgain \/ CompletionFails
           \/ CompletionDropped \/ Answer \/ EmitFails \/ Interrupted
           \/ CallCancelled \/ UnknownTool
  BY <1>2 DEF Announced, Turn, Answered, Stepped, Warned, CancelArrives, ClockRunsOut,
              RetryCompletion, AttemptAgain, CompletionFails, CompletionDropped, Answer,
              EmitFails, Interrupted, CallCancelled, UnknownTool, envVars
<1>3. CASE CallHangs
  BY <1>3 DEF CallHangs, StepHangs
<1>4. CASE GradeEpisode \/ Complete \/ Handle
  BY <1>4 DEF GradeEpisode, Complete, Handle, HangsInGrade, EnvKept, EnvClosed
<1> QED
  BY <1>1, <1>2, <1>3, <1>4

(* Once a run is cancelled the environment records no further action: runner.py *)
(* looks at the flag before each call of a response, and neither a call of the  *)
(* environment nor a write of the store gives the loop away.                    *)
THEOREM NoActionAfterCancelled == Spec => NoActionAfterCancel
<1>1. Init => CancelledLater
  BY DEF Init, CancelledLater
<1>2. CancelledLater /\ [Next]_vars =>
        [cancelled => Len(transcript'.entries) = Len(transcript.entries)]_vars
  <2> SUFFICES ASSUME CancelledLater, [Next]_vars, cancelled
               PROVE  transcript' = transcript
    OBVIOUS
  <2>1. CASE Call \/ Start \/ OtherCaller
    BY <2>1 DEF Call, MayCall, Start, OtherCaller, CancelledLater
  <2>2. CASE ~(Call \/ Start \/ OtherCaller)
    <3>1. UNCHANGED vars => UNCHANGED envVars
      BY DEF vars
    <3> QED
      BY <2>2, <3>1, TranscriptKept DEF Next, RunnerNext
  <2> QED
    BY <2>1, <2>2
<1> QED
  BY <1>1, <1>2, StepCancelledLater, PTL DEF Spec, NoActionAfterCancel

(***************************************************************************)
(* The values of the environment.                                          *)
(***************************************************************************)

Sessions == [incident : {"open", "closed"}, epoch : Nat, issued : SUBSET Handles,
             endless : BOOLEAN]

LEMMA NextHandleType ==
    ASSUME EnvTypeOK
    PROVE  NextHandle \in Handles
<1>1. Profile[seed] \in {0, 1}
  BY InstanceAssumption DEF EnvTypeOK
<1>2. session.epoch \in Nat
  BY DEF EnvTypeOK
<1>3. Cardinality(session.issued) \in Nat
  BY FS_CardinalityType DEF EnvTypeOK
<1> QED
  BY <1>1, <1>2, <1>3 DEF NextHandle, Handles

(* A call that succeeds leaves a session, and hands out no more than one      *)
(* handle, which is the next one.                                             *)
LEMMA AfterType ==
    ASSUME EnvTypeOK, NEW tool \in Tools, NEW s \in After(tool)
    PROVE  /\ s \in Sessions
           /\ IsFiniteSet(s.issued)
           /\ s.issued = IF tool = "runtime.run" THEN session.issued \cup {NextHandle}
                         ELSE session.issued
<1> USE DEF Sessions
<1>1. session \in Sessions /\ IsFiniteSet(session.issued)
  BY DEF EnvTypeOK
<1>2. CASE tool = "runtime.run"
  <2>1. s = [session EXCEPT !.issued = @ \cup {NextHandle}]
    BY <1>2 DEF After
  <2>2. s.issued = session.issued \cup {NextHandle}
    BY <1>1, <2>1
  <2>3. IsFiniteSet(s.issued)
    BY <1>1, <2>2, FS_AddElement
  <2> QED
    BY <1>1, <1>2, <2>1, <2>2, <2>3, NextHandleType
<1>3. CASE tool = "change"
  <2>1. ASSUME NEW i \in {"open", "closed"}, NEW e \in BOOLEAN, s = Changed(i, e)
        PROVE  s \in Sessions /\ s.issued = session.issued
    <3>1. session.epoch + 1 \in Nat /\ session.issued \in SUBSET Handles
      BY <1>1
    <3>2. [incident |-> i, epoch |-> session.epoch + 1, issued |-> session.issued,
           endless |-> e] \in Sessions
      BY <3>1, Zenon
    <3> QED
      BY <2>1, <3>2 DEF Changed
  <2>2. CASE s = [session EXCEPT !.incident = "open"]
    BY <1>1, <1>3, <2>2
  <2>3. session.endless \in BOOLEAN
    BY <1>1
  <2>4. After(tool) = {Changed("open", e) : e \in BOOLEAN}
                        \cup {Changed("closed", session.endless),
                              [session EXCEPT !.incident = "open"]}
    BY <1>3, Zenon DEF After
  <2>5. \/ \E e \in BOOLEAN : s = Changed("open", e)
        \/ s = Changed("closed", session.endless)
        \/ s = [session EXCEPT !.incident = "open"]
    BY <2>4, Zenon
  <2> HIDE DEF Sessions
  <2> QED
    BY <1>1, <1>3, <2>1, <2>2, <2>3, <2>5
<1>4. CASE tool # "runtime.run" /\ tool # "change"
  <2>1. After(tool) = {session}
    BY <1>4, Zenon DEF After
  <2> QED
    BY <1>1, <1>4, <2>1
<1> QED
  BY <1>2, <1>3, <1>4

LEMMA EntryType ==
    ASSUME EnvTypeOK, NEW tool \in Tools, NEW success \in BOOLEAN, NEW size \in Nat
    PROVE  Entry(tool, success, size) \in Entries
<1> DEFINE run == CASE success /\ tool = "runtime.run" -> NextHandle
                    [] success /\ tool = "telemetry.trace" -> lastHandle
                    [] OTHER -> None
<1>1. run \in Handles \cup {None}
  BY NextHandleType DEF EnvTypeOK
<1>2. actions + 1 \in Nat /\ episode \in Nat
  BY DEF EnvTypeOK
<1> HIDE DEF run
<1>3. [sequence |-> actions + 1, tool |-> tool, success |-> success, size |-> size,
       run |-> run, episode |-> episode] \in Entries
  BY <1>1, <1>2, Zenon DEF Entries
<1> QED
  BY <1>3 DEF Entry, run

(* What add_step appends.                                                     *)
LEMMA Appending ==
    ASSUME EnvTypeOK, NEW entry \in Entries, transcript' = AddStep(entry)
    PROVE  /\ transcript' \in [seed : Seeds, entries : Seq(Entries)]
           /\ transcript'.seed = transcript.seed
           /\ transcript'.entries = Append(transcript.entries, entry)
           /\ Len(transcript'.entries) = Len(transcript.entries) + 1
           /\ transcript'.entries[Len(transcript.entries) + 1] = entry
           /\ \A i \in 1..Len(transcript.entries) :
                transcript'.entries[i] = transcript.entries[i]
<1>1. transcript \in [seed : Seeds, entries : Seq(Entries)]
  BY DEF EnvTypeOK
<1>2. transcript'.seed = transcript.seed
      /\ transcript'.entries = Append(transcript.entries, entry)
  BY <1>1 DEF AddStep
<1>3. transcript' \in [seed : Seeds, entries : Seq(Entries)]
  BY <1>1 DEF AddStep
<1> QED
  BY <1>1, <1>2, <1>3

LEMMA GradedType ==
    ASSUME EnvTypeOK, NEW t \in [seed : Seeds, entries : Seq(Entries)],
           NEW s \in Sessions
    PROVE  Graded(t, s) \in Grades
<1>1. episode \in Nat /\ Len(t.entries) \in Nat /\ s.incident \in {"open", "closed"}
  BY DEF EnvTypeOK, Sessions
<1>2. Authenticates(t) \in BOOLEAN /\ BoundedResources(t) \in BOOLEAN
  BY DEF Authenticates, BoundedResources
<1> QED
  BY <1>1, <1>2, Zenon DEF Graded, Grades

LEMMA SizeType == \A tool \in Tools : \A size \in Sizes[tool] : size \in Nat
BY CallerAssumption

LEMMA GradeNowType ==
    ASSUME EnvTypeOK
    PROVE  GradeNow \in Grades /\ GradeNow # None
<1>1. transcript \in [seed : Seeds, entries : Seq(Entries)] /\ session \in Sessions
      /\ grade \in Grades \cup {None}
  BY DEF EnvTypeOK, Sessions
<1>2. Graded(transcript, session) \in Grades
  BY <1>1, GradedType
<1> QED
  BY <1>1, <1>2, NoneAssumption DEF GradeNow

LEMMA TypeAnswered ==
    ASSUME EnvTypeOK, NEW tool \in Tools, NEW size \in Nat, NEW success \in BOOLEAN,
           StepAnswered(tool, success, size)
    PROVE  EnvTypeOK'
<1>1. session' \in Sessions /\ IsFiniteSet(session'.issued)
  BY AfterType DEF StepAnswered, EnvTypeOK, Sessions
<1>2. lastHandle' \in Handles \cup {None}
  BY NextHandleType DEF StepAnswered, EnvTypeOK
<1>3. transcript' \in [seed : Seeds, entries : Seq(Entries)]
  BY EntryType, Appending DEF StepAnswered
<1>4. Graded(transcript', session') \in Grades
  BY <1>1, <1>3, GradedType
<1>5. blocked' \in BOOLEAN /\ ended' \in BOOLEAN /\ grade' \in Grades \cup {None}
  <2>1. blocked' \in BOOLEAN
    BY DEF StepAnswered, GradeHangs
  <2>2. grade' \in Grades \cup {None}
    BY <1>4 DEF StepAnswered, EnvTypeOK
  <2>3. \E t \in BOOLEAN, l \in BOOLEAN :
          ended' = (~blocked' /\ (t \/ l))
    <3>1. PICK late \in BOOLEAN :
            ended' = (~blocked' /\ (\/ (tool = "release.status"
                                          /\ session'.incident = "closed")
                                     \/ Truncates(actions', bytes', late)))
      BY Zenon DEF StepAnswered
    <3>2. Truncates(actions', bytes', late) \in BOOLEAN
      BY DEF Truncates, OverLimit
    <3> QED
      BY <3>1, <3>2
  <2> QED
    BY <2>1, <2>2, <2>3
<1>6. actions' \in Nat /\ bytes' \in Nat
  BY DEF StepAnswered, EnvTypeOK
<1>7. UNCHANGED <<seed, maxSteps, controller, open, episode, ready>>
  BY DEF StepAnswered, manifest
<1> QED
  BY <1>1, <1>2, <1>3, <1>5, <1>6, <1>7 DEF EnvTypeOK, Sessions

LEMMA TypeLost ==
    ASSUME EnvTypeOK, NEW tool \in Tools, NEW size \in Nat, StepLost(tool, size)
    PROVE  EnvTypeOK'
<1>1. session' \in Sessions /\ IsFiniteSet(session'.issued)
  BY AfterType DEF StepLost, EnvTypeOK, Sessions
<1>2. lastHandle' \in Handles \cup {None}
  BY NextHandleType DEF StepLost, EnvTypeOK
<1>3. transcript' \in [seed : Seeds, entries : Seq(Entries)]
  BY EntryType, Appending DEF StepLost
<1>4. actions' \in Nat /\ bytes' \in Nat /\ ended' \in BOOLEAN
      /\ controller' \in {"none", "up", "dead"}
  BY DEF StepLost, EnvTypeOK
<1>5. UNCHANGED <<seed, maxSteps, open, grade, episode, ready, blocked>>
  BY DEF StepLost, manifest
<1> QED
  BY <1>1, <1>2, <1>3, <1>4, <1>5 DEF EnvTypeOK, Sessions

LEMMA TypeHangs ==
    ASSUME EnvTypeOK, StepHangs
    PROVE  EnvTypeOK'
<1>1. UNCHANGED <<seed, maxSteps, controller, open, ended, bytes, transcript, grade,
                  lastHandle, session, episode, ready>>
      /\ blocked' \in BOOLEAN /\ actions' \in Nat
  BY DEF StepHangs, manifest, EnvTypeOK
<1> QED
  BY <1>1 DEF EnvTypeOK

LEMMA NewTranscriptType ==
    \A s \in Seeds : /\ NewTranscript(s) \in [seed : Seeds, entries : Seq(Entries)]
                     /\ NewTranscript(s).seed = s
                     /\ NewTranscript(s).entries = <<>>
BY DEF NewTranscript

LEMMA FreshSessionType ==
    /\ FreshSession \in Sessions
    /\ FreshSession.issued = {}
    /\ IsFiniteSet(FreshSession.issued)
<1>1. {} \in SUBSET Handles /\ 0 \in Nat /\ FALSE \in BOOLEAN
  OBVIOUS
<1>2. FreshSession \in Sessions
  BY <1>1, Zenon DEF FreshSession, Sessions
<1>3. FreshSession.issued = {}
  BY Zenon DEF FreshSession
<1> QED
  BY <1>2, <1>3, FS_EmptySet

LEMMA TypeReset ==
    ASSUME EnvTypeOK, NEW s \in Seeds, Reset(s)
    PROVE  EnvTypeOK'
<1>1. CASE ResetFails(s)
  <2>1. /\ seed' = s /\ controller' = "none" /\ open' = FALSE /\ ready' = FALSE
        /\ UNCHANGED <<maxSteps, ended, actions, bytes, transcript, grade, lastHandle,
                       session, episode, blocked>>
    BY <1>1 DEF ResetFails, counters
  <2> QED
    BY <2>1 DEF EnvTypeOK
<1>2. CASE ResetStarts(s)
  <2>1. /\ seed' = s /\ controller' \in {"up", "dead"} /\ open' \in BOOLEAN
        /\ ready' \in BOOLEAN /\ ended' = FALSE /\ actions' = 0 /\ bytes' = 0
        /\ grade' = None /\ episode' = episode + 1 /\ session' = FreshSession
        /\ transcript' \in {transcript, NewTranscript(s)}
        /\ UNCHANGED <<maxSteps, lastHandle, blocked>>
    BY <1>2 DEF ResetStarts, GradeAfterReset
  <2>2. transcript' \in [seed : Seeds, entries : Seq(Entries)]
    BY <2>1, NewTranscriptType DEF EnvTypeOK
  <2>3. session' \in Sessions /\ IsFiniteSet(session'.issued)
    BY <2>1, FreshSessionType
  <2>4. /\ seed' \in Seeds /\ maxSteps' \in Nat \cup {None}
        /\ controller' \in {"none", "up", "dead"}
        /\ grade' \in Grades \cup {None} /\ lastHandle' \in Handles \cup {None}
    BY <2>1 DEF EnvTypeOK
  <2>5. actions' \in Nat /\ bytes' \in Nat /\ episode' \in Nat
    BY <2>1 DEF EnvTypeOK
  <2>6. open' \in BOOLEAN /\ ended' \in BOOLEAN /\ ready' \in BOOLEAN
        /\ blocked' \in BOOLEAN
    BY <2>1, Zenon DEF EnvTypeOK
  <2> QED
    BY <2>2, <2>3, <2>4, <2>5, <2>6 DEF EnvTypeOK, Sessions
<1> QED
  BY <1>1, <1>2 DEF Reset

(* A grade, a close, and the two together.                                    *)
GradedOrClosed ==
    /\ ~blocked
    /\ grade' \in {grade, GradeNow}
    /\ blocked' \in BOOLEAN
    /\ \/ open' = FALSE /\ controller' = "none"
       \/ UNCHANGED <<open, controller>>
    /\ UNCHANGED <<seed, maxSteps, ended, actions, bytes, transcript, lastHandle,
                   session, episode, ready>>

LEMMA TypeGraded ==
    ASSUME EnvTypeOK, GradedOrClosed
    PROVE  EnvTypeOK'
<1>1. grade' \in Grades \cup {None}
  BY GradeNowType DEF GradedOrClosed, EnvTypeOK
<1>2. UNCHANGED <<seed, maxSteps, ended, actions, bytes, transcript, lastHandle,
                  session, episode, ready>>
      /\ open' \in BOOLEAN /\ controller' \in {"none", "up", "dead"}
      /\ blocked' \in BOOLEAN
  BY DEF GradedOrClosed, EnvTypeOK
<1> QED
  BY <1>1, <1>2 DEF EnvTypeOK

(* What a step of the system is to the environment.                           *)
LEMMA EnvSteps ==
    ASSUME EnvTypeOK, [Next]_vars
    PROVE  \/ \E tool \in Tools, size \in Nat, success \in BOOLEAN :
                StepAnswered(tool, success, size)
           \/ \E tool \in Tools, size \in Nat : StepLost(tool, size)
           \/ StepHangs
           \/ \E s \in Seeds : Reset(s)
           \/ GradedOrClosed
           \/ UNCHANGED envVars
<1>1. CASE OtherCaller
  <2>1. CASE \E s \in Caller.seeds : Reset(s)
    BY <2>1, CallerAssumption
  <2>2. CASE Step
    BY <2>2, SizeType, CallerAssumption DEF Step
  <2>3. CASE StepHangs
    BY <2>3
  <2>4. CASE Grade
    BY <2>4 DEF Grade, GradedOrClosed, manifest, counters
  <2>5. CASE Close
    BY <2>5, Zenon DEF Close, GradedOrClosed, manifest, counters, EnvTypeOK
  <2> QED
    BY <1>1, <2>1, <2>2, <2>3, <2>4, <2>5 DEF OtherCaller, EnvNext
<1>2. CASE RunnerNext
  <2>1. CASE Start
    BY <2>1 DEF Start, EnvTypeOK
  <2>2. CASE Call
    BY <2>2, SizeType, RunnerAssumption DEF Call
  <2>3. CASE CallHangs
    BY <2>3 DEF CallHangs
  <2>4. CASE GradeEpisode \/ Complete \/ Handle
    <3>1. grade' \in {grade, GradeNow}
      BY <2>4 DEF GradeEpisode, Complete, Handle, HangsInGrade
    <3>2. blocked' \in BOOLEAN
      BY <2>4, Zenon DEF GradeEpisode, Complete, Handle, HangsInGrade, EnvTypeOK
    <3>3. EnvKept \/ EnvClosed
      BY <2>4 DEF GradeEpisode, Complete, Handle, HangsInGrade
    <3>4. ~blocked
      BY <1>2 DEF RunnerNext
    <3> QED
      BY <3>1, <3>2, <3>3, <3>4
         DEF EnvKept, EnvClosed, GradedOrClosed, manifest, counters
  <2>5. CASE Announced \/ Turn \/ Answered \/ Stepped \/ Warned \/ RetryCompletion
             \/ AttemptAgain \/ CompletionFails \/ CompletionDropped \/ Answer
             \/ EmitFails \/ Interrupted \/ CallCancelled \/ UnknownTool
    BY <2>5 DEF Announced, Turn, Answered, Stepped, Warned, RetryCompletion,
                AttemptAgain, CompletionFails, CompletionDropped, Answer, EmitFails,
                Interrupted, CallCancelled, UnknownTool
  <2> QED
    BY <1>2, <2>1, <2>2, <2>3, <2>4, <2>5 DEF RunnerNext
<1>3. CASE CancelArrives \/ ClockRunsOut
  BY <1>3 DEF CancelArrives, ClockRunsOut
<1>4. CASE UNCHANGED vars
  BY <1>4 DEF vars
<1> QED
  BY <1>1, <1>2, <1>3, <1>4 DEF Next

LEMMA StepEnvType ==
    ASSUME EnvTypeOK, [Next]_vars
    PROVE  EnvTypeOK'
<1>1. CASE UNCHANGED envVars
  BY <1>1 DEF EnvTypeOK, envVars, manifest, counters
<1> QED
  BY <1>1, EnvSteps, TypeAnswered, TypeLost, TypeHangs, TypeReset, TypeGraded

LEMMA InitEnvType ==
    ASSUME Init
    PROVE  EnvTypeOK
<1>1. \E s \in Seeds, n \in Nat \cup {None} : EnvInit(s, n)
  BY CallerAssumption, RunnerAssumption DEF Init
<1>2. PICK s \in Seeds, n \in Nat \cup {None} : EnvInit(s, n)
  BY <1>1
<1>3. /\ seed \in Seeds /\ maxSteps \in Nat \cup {None} /\ controller = "none"
      /\ actions \in Nat /\ bytes \in Nat /\ episode \in Nat
      /\ grade = None /\ lastHandle = None
  BY <1>2 DEF EnvInit
<1>4. open \in BOOLEAN /\ ended \in BOOLEAN /\ ready \in BOOLEAN /\ blocked \in BOOLEAN
  BY <1>2, Zenon DEF EnvInit
<1>5. transcript \in [seed : Seeds, entries : Seq(Entries)]
  BY <1>2, NewTranscriptType DEF EnvInit
<1>6. session \in Sessions /\ IsFiniteSet(session.issued)
  BY <1>2, FreshSessionType DEF EnvInit
<1> QED
  BY <1>3, <1>4, <1>5, <1>6 DEF EnvTypeOK, Sessions

(***************************************************************************)
(* One episode.                                                            *)
(***************************************************************************)

Count == Len(transcript.entries)

(* An entry that is of the episode under way and in its place, and a trace    *)
(* that is of the last run before it.                                         *)
OfEpisode(i) ==
    LET e == transcript.entries[i] IN
    /\ e.episode = episode
    /\ e.sequence = i
    /\ e.tool = "telemetry.trace" /\ e.success =>
        \E j \in RunsBefore(i) :
            /\ transcript.entries[j].run = e.run
            /\ \A k \in RunsBefore(i) : k <= j

(* The handle the environment would use is that of the last run, unless the   *)
(* session has handed out none: then the handle of an earlier episode, which  *)
(* reset leaves, is not among those it accepts.                               *)
HandleIsOfLastRun ==
    session.issued # {} =>
        \E j \in RunsBefore(Count + 1) :
            /\ transcript.entries[j].run = lastHandle
            /\ \A k \in RunsBefore(Count + 1) : k <= j

Recorded ==
    ready =>
        /\ transcript.seed = seed
        /\ ~blocked => actions = Count
        /\ \A i \in 1..Count : OfEpisode(i)
        /\ grade # None => grade.episode = episode /\ grade.authentic
        /\ ~ended => HandleIsOfLastRun

(* An action extends the transcript and changes nothing of what was there.    *)
LEMMA Extending ==
    ASSUME EnvTypeOK, Recorded, ready, ~blocked, ~ended, NEW tool \in Tools,
           NEW success \in BOOLEAN, NEW size \in Nat, NEW n \in Nat, n = Count,
           tool = "telemetry.trace" /\ success => TraceAnswers,
           transcript' = AddStep(Entry(tool, success, size)), episode' = episode
    PROVE  /\ Count' = n + 1
           /\ transcript'.seed = transcript.seed
           /\ \A i \in 1..n : transcript'.entries[i] = transcript.entries[i]
           /\ success /\ tool = "runtime.run" =>
                transcript'.entries[n + 1].run = NextHandle
           /\ RunsBefore(n + 2)' =
                IF success /\ tool = "runtime.run" THEN RunsBefore(n + 1) \cup {n + 1}
                ELSE RunsBefore(n + 1)
           /\ \A i \in 1..(n + 1) : OfEpisode(i)'
<1> DEFINE e == Entry(tool, success, size)
<1>1. /\ Count' = n + 1
      /\ transcript'.seed = transcript.seed
      /\ transcript'.entries[n + 1] = e
      /\ \A i \in 1..n : transcript'.entries[i] = transcript.entries[i]
  BY EntryType, Appending DEF Count, EnvTypeOK
<1>2. \A i \in 1..(n + 1) : RunsBefore(i)' = RunsBefore(i)
  BY <1>1 DEF RunsBefore
<1>3. e.sequence = actions + 1 /\ e.tool = tool /\ e.success = success
      /\ e.episode = episode
  BY Zenon DEF Entry
<1>4. /\ success /\ tool = "runtime.run" => e.run = NextHandle
      /\ success /\ tool = "telemetry.trace" => e.run = lastHandle
  BY Zenon DEF Entry
<1> HIDE DEF e
<1>5. RunsBefore(n + 2)' = IF success /\ tool = "runtime.run"
                           THEN RunsBefore(n + 1) \cup {n + 1} ELSE RunsBefore(n + 1)
  <2>1. \A j \in 1..n : j \in RunsBefore(n + 2)' <=> j \in RunsBefore(n + 1)
    BY <1>1 DEF RunsBefore
  <2>2. n + 1 \in RunsBefore(n + 2)' <=> success /\ tool = "runtime.run"
    BY <1>1, <1>3 DEF RunsBefore
  <2>3. RunsBefore(n + 2)' \subseteq 1..(n + 1) /\ RunsBefore(n + 1) \subseteq 1..n
    BY DEF RunsBefore
  <2> QED
    BY <2>1, <2>2, <2>3
<1>6. \A i \in 1..n : OfEpisode(i)'
  <2> SUFFICES ASSUME NEW i \in 1..n
               PROVE  OfEpisode(i)'
    OBVIOUS
  <2>1. OfEpisode(i)
    BY DEF Recorded
  <2>2. \A j \in RunsBefore(i) : j \in 1..n
    BY DEF RunsBefore
  <2>3. RunsBefore(i)' = RunsBefore(i) /\ transcript'.entries[i] = transcript.entries[i]
    BY <1>1, <1>2
  <2> QED
    BY <1>1, <2>1, <2>2, <2>3 DEF OfEpisode
<1>7. OfEpisode(n + 1)'
  <2>1. e.sequence = n + 1 /\ e.episode = episode'
    BY <1>3 DEF Recorded
  <2>2. ASSUME e.tool = "telemetry.trace", e.success
        PROVE  \E j \in RunsBefore(n + 1) :
                 /\ transcript.entries[j].run = e.run
                 /\ \A k \in RunsBefore(n + 1) : k <= j
    BY <1>3, <1>4, <2>2 DEF Recorded, HandleIsOfLastRun, TraceAnswers
  <2>3. \A j \in RunsBefore(n + 1) : j \in 1..n
    BY DEF RunsBefore
  <2>4. RunsBefore(n + 1)' = RunsBefore(n + 1)
    BY <1>2
  <2> QED
    BY <1>1, <2>1, <2>2, <2>3, <2>4 DEF OfEpisode
<1>8. \A i \in 1..(n + 1) : OfEpisode(i)'
  BY <1>6, <1>7
<1> QED
  BY <1>1, <1>4, <1>5, <1>8

(* The gist of an action, answered or lost: what is there stays, and the      *)
(* handle is that of the last run of the transcript, unless the episode ends. *)
LEMMA RecordedAnswered ==
    ASSUME EnvTypeOK, Recorded, ready, NEW tool \in Tools, NEW size \in Nat,
           NEW success \in BOOLEAN, StepAnswered(tool, success, size)
    PROVE  Recorded'
<1>1. PICK n \in Nat : n = Count
  BY DEF Count, EnvTypeOK
<1>2. /\ ~blocked /\ ~ended /\ actions' = actions + 1
      /\ transcript' = AddStep(Entry(tool, success, size))
      /\ UNCHANGED <<seed, episode, ready>>
      /\ tool = "telemetry.trace" /\ success => TraceAnswers
  BY DEF StepAnswered, CanStep, MaySucceed, manifest
<1>3. /\ Count' = n + 1
      /\ transcript'.seed = transcript.seed
      /\ \A i \in 1..n : transcript'.entries[i] = transcript.entries[i]
      /\ success /\ tool = "runtime.run" =>
           transcript'.entries[n + 1].run = NextHandle
      /\ RunsBefore(n + 2)' =
           IF success /\ tool = "runtime.run" THEN RunsBefore(n + 1) \cup {n + 1}
           ELSE RunsBefore(n + 1)
      /\ \A i \in 1..(n + 1) : OfEpisode(i)'
  BY <1>1, <1>2, Extending
<1>4. grade' # None => grade'.episode = episode' /\ grade'.authentic
  <2>1. grade # None => grade.episode = episode /\ grade.authentic
    BY DEF Recorded
  <2>2. transcript'.seed = seed
    BY <1>3 DEF Recorded
  <2>3. grade' = grade \/ grade' = Graded(transcript', session')
    BY DEF StepAnswered
  <2>4. CASE grade' = grade
    BY <1>2, <2>1, <2>4
  <2>5. CASE grade' = Graded(transcript', session')
    BY <1>2, <2>2, <2>5 DEF Graded, Authenticates
  <2> QED
    BY <2>3, <2>4, <2>5
<1>5. HandleIsOfLastRun'
  <2>1. /\ lastHandle' = IF success /\ tool = "runtime.run" THEN NextHandle
                         ELSE lastHandle
        /\ session' \in (IF success THEN After(tool) ELSE {session})
    BY DEF StepAnswered
  <2>2. RunsBefore(Count + 1)' = RunsBefore(n + 2)'
    <3>1. Count' + 1 = n + 2
      BY <1>1, <1>3
    <3> QED
      BY <3>1 DEF RunsBefore
  <2>3. RunsBefore(n + 1) \subseteq 1..n
    BY <1>1 DEF RunsBefore
  <2>4. CASE success /\ tool = "runtime.run"
    <3>1. n + 1 \in RunsBefore(Count + 1)'
      BY <1>3, <2>2, <2>4
    <3>2. \A k \in RunsBefore(Count + 1)' : k <= n + 1
      BY <1>1, <1>3, <2>2, <2>3, <2>4
    <3>3. transcript'.entries[n + 1].run = lastHandle'
      BY <1>3, <2>1, <2>4
    <3> QED
      BY <3>1, <3>2, <3>3 DEF HandleIsOfLastRun
  <2>5. CASE ~(success /\ tool = "runtime.run")
    <3>1. session'.issued = session.issued
      BY <2>1, <2>5, AfterType
    <3>2. lastHandle' = lastHandle /\ RunsBefore(Count + 1)' = RunsBefore(n + 1)
      BY <1>3, <2>1, <2>2, <2>5
    <3>3. HandleIsOfLastRun
      BY <1>2 DEF Recorded
    <3>4. CASE session.issued = {}
      BY <3>1, <3>4 DEF HandleIsOfLastRun
    <3>5. CASE session.issued # {}
      <4>1. PICK j \in RunsBefore(n + 1) :
              /\ transcript.entries[j].run = lastHandle
              /\ \A k \in RunsBefore(n + 1) : k <= j
        BY <1>1, <3>3, <3>5 DEF HandleIsOfLastRun
      <4>2. transcript'.entries[j].run = lastHandle'
        BY <1>3, <2>3, <3>2, <4>1
      <4> QED
        BY <3>2, <4>1, <4>2 DEF HandleIsOfLastRun
    <3> QED
      BY <3>4, <3>5
  <2> QED
    BY <2>4, <2>5
<1>6. transcript'.seed = seed' /\ (~blocked' => actions' = Count')
  BY <1>1, <1>2, <1>3 DEF Recorded
<1>7. (\A i \in 1..Count : OfEpisode(i))'
  BY <1>3
<1> QED
  BY <1>4, <1>5, <1>6, <1>7 DEF Recorded

LEMMA RecordedLost ==
    ASSUME EnvTypeOK, Recorded, ready, NEW tool \in Tools, NEW size \in Nat,
           StepLost(tool, size)
    PROVE  Recorded'
<1>1. PICK n \in Nat : n = Count
  BY DEF Count, EnvTypeOK
<1>2. /\ ~blocked /\ ~ended /\ actions' = actions + 1 /\ ended'
      /\ transcript' = AddStep(Entry(tool, FALSE, size))
      /\ UNCHANGED <<seed, episode, ready, grade>>
  BY DEF StepLost, CanStep, manifest
<1>3. /\ Count' = n + 1
      /\ transcript'.seed = transcript.seed
      /\ \A i \in 1..(n + 1) : OfEpisode(i)'
  BY <1>1, <1>2, Extending
<1>4. transcript'.seed = seed' /\ (~blocked' => actions' = Count')
  BY <1>1, <1>2, <1>3 DEF Recorded
<1>5. (\A i \in 1..Count : OfEpisode(i))'
  BY <1>3
<1>6. grade' # None => grade'.episode = episode' /\ grade'.authentic
  BY <1>2 DEF Recorded
<1> QED
  BY <1>2, <1>4, <1>5, <1>6 DEF Recorded

(* What leaves the transcript, the handle and the episode leaves the record.  *)
LEMMA RecordedKept ==
    ASSUME EnvTypeOK, Recorded, blocked => blocked', ~blocked' => actions' = actions,
           grade' # None => grade' = grade \/ (grade' = GradeNow),
           UNCHANGED <<seed, ended, transcript, lastHandle, session, episode, ready>>
    PROVE  Recorded'
<1>1. Count' = Count /\ (\A i \in 1..Count : OfEpisode(i)' <=> OfEpisode(i))
  BY DEF Count, OfEpisode, RunsBefore
<1>2. HandleIsOfLastRun' <=> HandleIsOfLastRun
  BY DEF HandleIsOfLastRun, Count, RunsBefore
<1>3. ready /\ grade' # None => grade'.episode = episode' /\ grade'.authentic
  <2>1. ready => transcript.seed = seed
                 /\ (grade # None => grade.episode = episode /\ grade.authentic)
    BY DEF Recorded
  <2>2. Graded(transcript, session).episode = episode
        /\ Graded(transcript, session).authentic = (transcript.seed = seed)
    BY DEF Graded, Authenticates
  <2> QED
    BY <2>1, <2>2 DEF GradeNow
<1> QED
  BY <1>1, <1>2, <1>3 DEF Recorded

LEMMA RecordedReset ==
    ASSUME EnvTypeOK, NEW s \in Seeds, Reset(s)
    PROVE  Recorded'
<1>1. CASE ~ready'
  BY <1>1 DEF Recorded
<1>2. CASE ready'
  <2>1. /\ seed' = s /\ actions' = 0 /\ grade' = None /\ session' = FreshSession
        /\ transcript' = NewTranscript(s)
    BY <1>2 DEF Reset, ResetFails, ResetStarts, GradeAfterReset
  <2>2. transcript'.seed = seed' /\ Count' = 0 /\ session'.issued = {}
    BY <2>1, NewTranscriptType, FreshSessionType DEF Count
  <2> QED
    BY <2>1, <2>2 DEF Recorded, HandleIsOfLastRun
<1> QED
  BY <1>1, <1>2

LEMMA StepRecorded ==
    ASSUME EnvTypeOK, Recorded, [Next]_vars
    PROVE  Recorded'
<1>1. CASE \E tool \in Tools, size \in Nat, success \in BOOLEAN :
             StepAnswered(tool, success, size)
  <2>1. ready' = ready
    BY <1>1 DEF StepAnswered
  <2>2. CASE ~ready
    BY <2>1, <2>2 DEF Recorded
  <2> QED
    BY <1>1, <2>2, RecordedAnswered
<1>2. CASE \E tool \in Tools, size \in Nat : StepLost(tool, size)
  <2>1. ready' = ready
    BY <1>2 DEF StepLost
  <2>2. CASE ~ready
    BY <2>1, <2>2 DEF Recorded
  <2> QED
    BY <1>2, <2>2, RecordedLost
<1>3. CASE StepHangs
  <2>1. /\ blocked' = TRUE
        /\ UNCHANGED <<seed, ended, transcript, grade, lastHandle, session, episode,
                       ready>>
    BY <1>3 DEF StepHangs, manifest
  <2> QED
    BY <2>1, RecordedKept
<1>4. CASE \E s \in Seeds : Reset(s)
  BY <1>4, RecordedReset
<1>5. CASE GradedOrClosed
  <2>1. /\ ~blocked /\ grade' \in {grade, GradeNow}
        /\ UNCHANGED <<seed, ended, actions, transcript, lastHandle, session, episode,
                       ready>>
    BY <1>5 DEF GradedOrClosed
  <2> QED
    BY <2>1, RecordedKept
<1>6. CASE UNCHANGED envVars
  <2>1. UNCHANGED <<seed, ended, actions, transcript, grade, lastHandle, session,
                    episode, ready, blocked>>
    BY <1>6 DEF envVars, manifest, counters
  <2> QED
    BY <2>1, RecordedKept
<1> QED
  BY <1>1, <1>2, <1>3, <1>4, <1>5, <1>6, EnvSteps

(* After a reset that returned, the environment reports one episode: every    *)
(* entry of the transcript is of it and in its place, the grade was computed   *)
(* for it from this transcript, and a trace of the previous run is that of the *)
(* last run in it, though reset leaves the handle of the episode before        *)
(* (training_ground/episode.py).                                               *)
THEOREM OnlyOneEpisode == Spec => []OnlyThisEpisode
<1>1. Init => EnvTypeOK /\ Recorded
  <2>1. Init => ~ready
    BY DEF Init, EnvInit
  <2> QED
    BY <2>1, InitEnvType DEF Recorded
<1>2. EnvTypeOK /\ Recorded /\ [Next]_vars => EnvTypeOK' /\ Recorded'
  BY StepEnvType, StepRecorded
<1>3. EnvTypeOK /\ Recorded => OnlyThisEpisode
  <2>1. EnvTypeOK => DOMAIN transcript.entries = 1..Count
    BY DEF EnvTypeOK, Count
  <2> QED
    BY <2>1 DEF Recorded, OfEpisode, OnlyThisEpisode
<1> QED
  BY <1>1, <1>2, <1>3, PTL DEF Spec

(***************************************************************************)
(* The timeline.                                                           *)
(***************************************************************************)

TimelineEntries == [sequence : Nat, tool : Tools, size : Nat, success : BOOLEAN]

Outcomes == [status : {"running", "completed", "cancelled", "failed"},
             grade : Grades \cup {None}]

ReportType == timeline \in Seq(TimelineEntries) /\ outcome \in Outcomes

SameEntry(i) ==
    /\ timeline[i].sequence = transcript.entries[i].sequence
    /\ timeline[i].tool = transcript.entries[i].tool
    /\ timeline[i].size = transcript.entries[i].size
    /\ timeline[i].success = transcript.entries[i].success

(* A grade exists only where no action can follow it: the episode has ended,  *)
(* or the loop is over.                                                       *)
GradeIsLast ==
    grade # None => /\ grade.steps = Len(timeline)
                    /\ ended \/ phase \in {"scoring", "handling", "done"}

Reported ==
    /\ phase = "start" => grade = None
    /\ phase = "scoring" => grade # None
    /\ outcome.grade # None => phase = "done" /\ outcome.grade.steps = Len(timeline)
    /\ outcome.status = "completed" => phase = "done" /\ outcome.grade # None

Agreed ==
    phase # "absent" /\ ~blocked =>
        /\ actions = Len(timeline)
        /\ Len(transcript.entries) = Len(timeline)
        /\ phase = "start" => Len(timeline) = 0
        /\ \A i \in 1..Len(timeline) : SameEntry(i)
        /\ GradeIsLast
        /\ Reported

(* A run that hangs does not report.                                          *)
HungIsNotDone == phase # "absent" /\ blocked => phase # "done"

(* The moves of the loop between the calls of the environment.                *)
LEMMA Moves ==
    ASSUME \/ Announced \/ Turn \/ Answered \/ Stepped \/ Warned \/ RetryCompletion
           \/ AttemptAgain \/ CompletionFails \/ CompletionDropped \/ Answer
           \/ EmitFails \/ Interrupted \/ CallCancelled \/ UnknownTool
    PROVE  /\ UNCHANGED <<envVars, timeline>>
           /\ phase \notin {"absent", "start", "handling", "done"}
           /\ phase' \notin {"absent", "start", "scoring", "done"}
           /\ phase = "scoring" => phase' = "handling"
           /\ \/ outcome' = outcome
              \/ \E status \in {"cancelled", "failed"} :
                    outcome' = [outcome EXCEPT !.status = status]
<1>1. CASE EmitFails \/ CallCancelled \/ UnknownTool \/ Interrupted \/ CompletionFails
  BY <1>1 DEF EmitFails, CallCancelled, UnknownTool, Interrupted, CompletionFails, Raise,
              Emitting, Waiting
<1>2. CASE Announced \/ Answered \/ RetryCompletion \/ Answer
  BY <1>2 DEF Announced, Answered, RetryCompletion, Answer, GoTo, Finish
<1>3. CASE Stepped \/ Warned
  BY <1>3 DEF Stepped, Warned, GoTo, Finish, Continue
<1>4. CASE AttemptAgain \/ CompletionDropped
  BY <1>4 DEF AttemptAgain, CompletionDropped, GoTo, Finish, Raise
<1>5. CASE Turn
  <2>1. Raise("cancelled") \/ Finish \/ GoTo("completing")
    BY <1>5, Zenon DEF Turn
  <2> QED
    BY <1>5, <2>1 DEF Turn, GoTo, Finish, Raise
<1> QED
  BY <1>1, <1>2, <1>3, <1>4, <1>5

LEMMA AgreedMoves ==
    ASSUME ReportType, Agreed, ~blocked,
           \/ Announced \/ Turn \/ Answered \/ Stepped \/ Warned \/ RetryCompletion
           \/ AttemptAgain \/ CompletionFails \/ CompletionDropped \/ Answer
           \/ EmitFails \/ Interrupted \/ CallCancelled \/ UnknownTool
    PROVE  ReportType' /\ Agreed' /\ HungIsNotDone'
<1>1. /\ UNCHANGED <<envVars, timeline>>
      /\ phase \notin {"absent", "start", "handling", "done"}
      /\ phase' \notin {"absent", "start", "scoring", "done"}
      /\ phase = "scoring" => phase' = "handling"
      /\ \/ outcome' = outcome
         \/ \E status \in {"cancelled", "failed"} :
               outcome' = [outcome EXCEPT !.status = status]
  BY Moves
<1>2. outcome' \in Outcomes /\ outcome'.grade = outcome.grade
      /\ (outcome'.status = "completed" => outcome.status = "completed")
  BY <1>1 DEF ReportType, Outcomes
<1>3. UNCHANGED <<actions, transcript, grade, ended, blocked, timeline>>
  BY <1>1 DEF envVars, counters
<1>4. ReportType'
  BY <1>2, <1>3 DEF ReportType
<1>5. HungIsNotDone'
  BY <1>1 DEF HungIsNotDone
<1>6. GradeIsLast'
  BY <1>1, <1>3 DEF Agreed, GradeIsLast
<1>7. Reported'
  BY <1>1, <1>2, <1>3 DEF Agreed, Reported
<1>8. \A i \in 1..Len(timeline) : SameEntry(i)'
  BY <1>1, <1>3 DEF Agreed, SameEntry
<1>9. Agreed'
  BY <1>1, <1>3, <1>6, <1>7, <1>8 DEF Agreed
<1> QED
  BY <1>4, <1>5, <1>9

(* A call, whatever becomes of it, leaves one entry on both sides.            *)
LEMMA AgreedCall ==
    ASSUME EnvTypeOK, ReportType, Agreed, ~blocked, Call
    PROVE  ReportType' /\ Agreed' /\ HungIsNotDone'
<1>1. phase = "calling" /\ UNCHANGED outcome
  BY DEF Call, GoTo
<1>2. /\ actions = Len(timeline)
      /\ Len(transcript.entries) = Len(timeline)
      /\ \A i \in 1..Len(timeline) : SameEntry(i)
      /\ GradeIsLast /\ Reported
  BY <1>1 DEF Agreed
<1>3. PICK tool \in Tools, size \in Nat :
        /\ \/ \E success \in BOOLEAN : StepAnswered(tool, success, size)
           \/ StepLost(tool, size)
        /\ timeline' = IF blocked' THEN timeline ELSE Appended(TimelineEntry(tool))
  BY SizeType, RunnerAssumption DEF Call
<1>4. CASE blocked'
  <2>1. UNCHANGED <<phase, timeline>>
    BY <1>3, <1>4 DEF Call
  <2> QED
    BY <1>1, <1>4, <2>1 DEF ReportType, Agreed, HungIsNotDone
<1>5. CASE ~blocked'
  <2>1. phase' = "stepped" /\ timeline' = Append(timeline, TimelineEntry(tool))
    BY <1>3, <1>5 DEF Call, GoTo, Appended
  <2>2. ~ended /\ actions' = actions + 1
    BY <1>3 DEF StepAnswered, StepLost, CanStep
  <2>3. PICK good \in BOOLEAN : transcript' = AddStep(Entry(tool, good, size))
    BY <1>3 DEF StepAnswered, StepLost
  <2>4. PICK n \in Nat : n = Len(timeline)
    BY DEF ReportType
  <2>5. /\ Len(transcript'.entries) = n + 1
        /\ transcript'.entries[n + 1] = Entry(tool, good, size)
        /\ \A i \in 1..n : transcript'.entries[i] = transcript.entries[i]
    BY <1>2, <2>3, <2>4, EntryType, Appending
  <2>6. LET e == Entry(tool, good, size) IN
        e.sequence = actions + 1 /\ e.tool = tool /\ e.success = good /\ e.size = size
    BY Zenon DEF Entry
  <2>7. TimelineEntry(tool) =
          [sequence |-> n + 1, tool |-> tool, size |-> size, success |-> good]
    BY <2>4, <2>5, <2>6 DEF TimelineEntry
  <2>8. [sequence |-> n + 1, tool |-> tool, size |-> size, success |-> good]
          \in TimelineEntries
    <3>1. n + 1 \in Nat
      OBVIOUS
    <3> QED
      BY <3>1, Zenon DEF TimelineEntries
  <2>9. /\ timeline' \in Seq(TimelineEntries)
        /\ Len(timeline') = n + 1
        /\ timeline'[n + 1] =
             [sequence |-> n + 1, tool |-> tool, size |-> size, success |-> good]
        /\ \A i \in 1..n : timeline'[i] = timeline[i]
    BY <2>1, <2>4, <2>7, <2>8 DEF ReportType
  <2>10. \A i \in 1..n : SameEntry(i)'
    BY <1>2, <2>4, <2>5, <2>9 DEF SameEntry
  <2>11. SameEntry(n + 1)'
    BY <1>2, <2>4, <2>5, <2>6, <2>9 DEF SameEntry
  <2>12. grade = None
    BY <1>1, <1>2, <2>2 DEF GradeIsLast
  <2>13. grade' = None \/ (grade' = Graded(transcript', session') /\ ended')
    <3>1. CASE StepLost(tool, size)
      BY <2>12, <3>1 DEF StepLost
    <3>2. CASE \E success \in BOOLEAN : StepAnswered(tool, success, size)
      <4> DEFINE closed == tool = "release.status" /\ session'.incident = "closed"
      <4>1. grade' = IF closed /\ grade = None /\ ~blocked'
                     THEN Graded(transcript', session') ELSE grade
        BY <3>2, Zenon DEF StepAnswered
      <4>2. PICK late \in BOOLEAN :
              ended' = (~blocked' /\ (closed \/ Truncates(actions', bytes', late)))
        BY <3>2, Zenon DEF StepAnswered
      <4> HIDE DEF closed
      <4>3. closed => ended'
        BY <1>5, <4>2, Zenon
      <4> QED
        BY <2>12, <4>1, <4>3
    <3> QED
      BY <1>3, <3>1, <3>2
  <2>14. GradeIsLast'
    <3>1. Graded(transcript', session').steps = n + 1
      BY <2>5 DEF Graded
    <3> QED
      BY <2>9, <2>13, <3>1 DEF GradeIsLast
  <2>15. Reported'
    BY <1>1, <1>2, <2>1 DEF Reported
  <2>16. \A i \in 1..(n + 1) : SameEntry(i)'
    BY <2>10, <2>11
  <2>17. Agreed'
    BY <1>2, <2>1, <2>2, <2>4, <2>5, <2>9, <2>14, <2>15, <2>16 DEF Agreed
  <2> QED
    BY <1>1, <1>5, <2>9, <2>17 DEF ReportType, HungIsNotDone
<1> QED
  BY <1>4, <1>5

LEMMA AgreedStart ==
    ASSUME ReportType, Agreed, ~blocked, Start
    PROVE  ReportType' /\ Agreed' /\ HungIsNotDone'
<1>1. /\ phase = "start" /\ Reset(seed) /\ UNCHANGED timeline
      /\ phase' \in {"announcing", "handling"}
      /\ outcome' = outcome \/ outcome' = [outcome EXCEPT !.status = "failed"]
  BY DEF Start, GoTo, Raise
<1>2. /\ actions = 0 /\ Len(transcript.entries) = 0 /\ Len(timeline) = 0
      /\ grade = None /\ Reported
  BY <1>1 DEF Agreed, Reported
<1>3. /\ actions' = 0 /\ Len(transcript'.entries) = 0 /\ grade' = None
      /\ blocked' = blocked
  BY <1>1, <1>2 DEF Reset, ResetFails, ResetStarts, NewTranscript, GradeAfterReset,
                    counters
<1>4. outcome' \in Outcomes /\ outcome'.grade = outcome.grade
      /\ (outcome'.status = "completed" => outcome.status = "completed")
  BY <1>1 DEF ReportType, Outcomes
<1>5. GradeIsLast' /\ Reported'
  BY <1>1, <1>2, <1>3, <1>4 DEF GradeIsLast, Reported
<1>6. Agreed'
  BY <1>1, <1>2, <1>3, <1>5 DEF Agreed
<1> QED
  BY <1>1, <1>3, <1>4, <1>6 DEF ReportType, HungIsNotDone

LEMMA AgreedEnd ==
    ASSUME EnvTypeOK, ReportType, Agreed, ~blocked, GradeEpisode \/ Complete \/ Handle
    PROVE  ReportType' /\ Agreed' /\ HungIsNotDone'
<1>1. phase \in {"grading", "scoring", "handling"}
  BY DEF GradeEpisode, Complete, Handle
<1>2. /\ actions = Len(timeline)
      /\ Len(transcript.entries) = Len(timeline)
      /\ \A i \in 1..Len(timeline) : SameEntry(i)
      /\ GradeIsLast /\ Reported
  BY <1>1 DEF Agreed
<1>3. GradeNow \in Grades /\ GradeNow # None /\ GradeNow.steps = Len(timeline)
  <2>1. Graded(transcript, session).steps = Len(transcript.entries)
    BY DEF Graded
  <2> QED
    BY <1>2, <2>1, GradeNowType DEF GradeNow, GradeIsLast
<1>4. CASE HangsInGrade
  <2>1. blocked' /\ UNCHANGED <<phase, timeline, outcome>>
    BY <1>4 DEF HangsInGrade, runnerVars
  <2> QED
    BY <1>1, <2>1 DEF ReportType, Agreed, HungIsNotDone
<1>5. CASE ~HangsInGrade
  <2>1. UNCHANGED <<actions, transcript, ended, blocked, timeline>>
    BY <1>5 DEF GradeEpisode, Complete, Handle, EnvKept, EnvClosed, counters
  <2>2. \A i \in 1..Len(timeline) : SameEntry(i)'
    BY <1>2, <2>1 DEF SameEntry
  <2>3. CASE GradeEpisode
    <3>1. grade' = GradeNow /\ phase' = "scoring" /\ outcome' = outcome
      BY <1>5, <2>3 DEF GradeEpisode
    <3>2. phase = "grading"
      BY <2>3 DEF GradeEpisode
    <3>3. GradeIsLast' /\ Reported'
      BY <1>2, <1>3, <2>1, <3>1, <3>2 DEF GradeIsLast, Reported
    <3> QED
      BY <1>2, <2>1, <2>2, <3>1, <3>3 DEF ReportType, Agreed, HungIsNotDone
  <2>4. CASE Complete
    <3>1. /\ grade' = grade /\ phase' = "done" /\ grade # None
          /\ outcome' = [status |-> "completed", grade |-> grade]
      BY <1>2, <2>4 DEF Complete, Reported
    <3>2. grade \in Grades /\ grade.steps = Len(timeline)
      BY <1>2, <3>1 DEF GradeIsLast, EnvTypeOK
    <3>3. outcome' \in Outcomes /\ outcome'.grade = grade
      BY <3>1, <3>2 DEF Outcomes
    <3>4. GradeIsLast' /\ Reported'
      BY <1>2, <2>1, <3>1, <3>2, <3>3 DEF GradeIsLast, Reported
    <3> QED
      BY <1>2, <2>1, <2>2, <3>1, <3>3, <3>4 DEF ReportType, Agreed, HungIsNotDone
  <2>5. CASE Handle
    <3>1. /\ grade' \in {grade, GradeNow} /\ phase = "handling" /\ phase' = "done"
          /\ \E g \in {None, GradeNow} : outcome' = [outcome EXCEPT !.grade = g]
      BY <1>5, <2>5 DEF Handle
    <3>2. outcome' \in Outcomes /\ outcome'.status = outcome.status
          /\ outcome'.grade \in {None, GradeNow}
      BY <1>3, <3>1 DEF ReportType, Outcomes
    <3>3. outcome.status # "completed"
      BY <1>2, <3>1 DEF Reported
    <3>4. GradeIsLast' /\ Reported'
      BY <1>2, <1>3, <2>1, <3>1, <3>2, <3>3 DEF GradeIsLast, Reported
    <3> QED
      BY <1>2, <2>1, <2>2, <3>1, <3>2, <3>4 DEF ReportType, Agreed, HungIsNotDone
  <2> QED
    BY <2>3, <2>4, <2>5
<1> QED
  BY <1>4, <1>5

LEMMA StepAgreed ==
    ASSUME EnvTypeOK, ReportType, Agreed, HungIsNotDone, [Next]_vars
    PROVE  ReportType' /\ Agreed' /\ HungIsNotDone'
<1>1. CASE RunnerNext
  <2>1. CASE CallHangs
    <3>1. blocked' /\ phase = "calling" /\ UNCHANGED <<phase, timeline, outcome>>
      BY <2>1 DEF CallHangs, StepHangs, runnerVars
    <3> QED
      BY <3>1 DEF ReportType, Agreed, HungIsNotDone
  <2> QED
    BY <1>1, <2>1, AgreedMoves, AgreedCall, AgreedStart, AgreedEnd DEF RunnerNext
<1>2. CASE OtherCaller
  BY <1>2 DEF OtherCaller, runnerVars, ReportType, Agreed, HungIsNotDone
<1>3. CASE CancelArrives \/ ClockRunsOut \/ UNCHANGED vars
  <2>1. UNCHANGED <<actions, transcript, grade, ended, blocked, phase, timeline,
                    outcome>>
    BY <1>3 DEF CancelArrives, ClockRunsOut, vars, envVars, counters, runnerVars
  <2>2. \A i \in 1..Len(timeline) : SameEntry(i)' <=> SameEntry(i)
    BY <2>1 DEF SameEntry
  <2>3. (GradeIsLast' <=> GradeIsLast) /\ (Reported' <=> Reported)
    BY <2>1 DEF GradeIsLast, Reported
  <2> QED
    BY <2>1, <2>2, <2>3 DEF ReportType, Agreed, HungIsNotDone
<1> QED
  BY <1>1, <1>2, <1>3 DEF Next

LEMMA InitAgreed ==
    ASSUME Init
    PROVE  ReportType /\ Agreed /\ HungIsNotDone
<1>1. /\ timeline = <<>> /\ outcome = [status |-> "running", grade |-> None]
      /\ phase \in {"absent", "start"}
  BY DEF Init
<1>2. actions = 0 /\ transcript.entries = <<>> /\ grade = None
  BY DEF Init, EnvInit, NewTranscript
<1> QED
  BY <1>1, <1>2
     DEF ReportType, Outcomes, Agreed, GradeIsLast, Reported, HungIsNotDone

(* What a run reports is what it did: however it ended, its timeline is the    *)
(* authenticated transcript, entry by entry, a grade it reports is of exactly  *)
(* these actions, and a completed run reports one (evaluation_service/         *)
(* runner.py).                                                                 *)
THEOREM ReportIsTranscript == Spec => []TimelineIsTranscript
<1>1. Init => EnvTypeOK /\ ReportType /\ Agreed /\ HungIsNotDone
  BY InitEnvType, InitAgreed
<1>2. EnvTypeOK /\ ReportType /\ Agreed /\ HungIsNotDone /\ [Next]_vars
        => EnvTypeOK' /\ ReportType' /\ Agreed' /\ HungIsNotDone'
  BY StepEnvType, StepAgreed
<1>3. ReportType /\ Agreed /\ HungIsNotDone => TimelineIsTranscript
  <2>1. ReportType => DOMAIN timeline = 1..Len(timeline)
    BY DEF ReportType
  <2> QED
    BY <2>1 DEF Agreed, HungIsNotDone, Reported, SameEntry, TimelineIsTranscript
<1> QED
  BY <1>1, <1>2, <1>3, PTL DEF Spec

(***************************************************************************)
(* The budgets.                                                            *)
(***************************************************************************)

(* A completion is asked for only while calls of the model are left, a tool   *)
(* call is made only while the response has one.                              *)
Budgets ==
    /\ phase \in Phases
    /\ calls \in 0..MaxModelCalls /\ tries \in 0..MaxRetries /\ left \in 0..CallsPerTurn
    /\ phase \in Waiting => calls < MaxModelCalls
    /\ phase = "calling" /\ ~blocked => left > 0

Flags == cancelled \in BOOLEAN /\ elapsed \in BOOLEAN /\ warned \in BOOLEAN

LEMMA StepFlags ==
    ASSUME Flags, [Next]_vars
    PROVE  Flags'
<1>1. CASE Stepped
  <2>1. PICK repeated \in {FALSE, MayRepeat} : warned' = (warned \/ repeated)
    BY <1>1, Zenon DEF Stepped
  <2>2. MayRepeat \in BOOLEAN
    BY Zenon DEF MayRepeat
  <2>3. warned' \in BOOLEAN
    BY <2>1, <2>2, Zenon DEF Flags
  <2>4. UNCHANGED <<cancelled, elapsed>>
    BY <1>1 DEF Stepped
  <2> QED
    BY <2>3, <2>4 DEF Flags
<1>2. CASE CancelArrives \/ ClockRunsOut
  BY <1>2 DEF Flags, CancelArrives, ClockRunsOut, budgets
<1>3. CASE OtherCaller \/ UNCHANGED vars
  BY <1>3 DEF Flags, OtherCaller, vars, runnerVars, budgets
<1>4. CASE RunnerNext /\ ~Stepped
  <2>1. UNCHANGED <<cancelled, elapsed, warned>>
    <3>1. CASE Start \/ Announced \/ Turn \/ Answered \/ Warned \/ RetryCompletion
               \/ AttemptAgain \/ CompletionFails \/ CompletionDropped \/ Answer
      BY <3>1 DEF Start, Announced, Turn, Answered, Warned, RetryCompletion,
                  AttemptAgain, CompletionFails, CompletionDropped, Answer, budgets
    <3>2. CASE EmitFails \/ Interrupted \/ CallCancelled \/ UnknownTool \/ Call
               \/ CallHangs
      BY <3>2 DEF EmitFails, Interrupted, CallCancelled, UnknownTool, Call, CallHangs,
                  runnerVars, budgets
    <3>3. CASE GradeEpisode \/ Complete \/ Handle
      BY <3>3 DEF GradeEpisode, Complete, Handle, HangsInGrade, runnerVars, budgets
    <3> QED
      BY <1>4, <3>1, <3>2, <3>3 DEF RunnerNext
  <2> QED
    BY <2>1 DEF Flags
<1> QED
  BY <1>1, <1>2, <1>3, <1>4 DEF Next

LEMMA StepBudgets ==
    ASSUME Budgets, [Next]_vars
    PROVE  Budgets'
<1> USE RunnerAssumption
<1> DEFINE Spent == UNCHANGED <<calls, tries, left>>
<1>1. CASE RunnerNext
  <2>1. CASE Start \/ Announced \/ CompletionFails \/ EmitFails \/ Interrupted
             \/ CallCancelled \/ UnknownTool \/ CompletionDropped
    <3>1. Spent
      BY <2>1 DEF Start, Announced, CompletionFails, EmitFails, Interrupted,
                  CallCancelled, UnknownTool, CompletionDropped, budgets
    <3>2. phase' \in {"announcing", "handling", "turn", "grading"}
      BY <2>1 DEF Start, Announced, CompletionFails, EmitFails, Interrupted,
                  CallCancelled, UnknownTool, CompletionDropped, Raise, GoTo, Finish
    <3> QED
      BY <3>1, <3>2 DEF Budgets, Phases, Emitting, Waiting, Inside
  <2>2. CASE Turn
    <3>1. UNCHANGED <<calls, left>> /\ tries' = 0
      BY <2>2 DEF Turn
    <3>2. phase' \in {"handling", "grading"}
          \/ (phase' = "completing" /\ ~OutOfCalls)
      <4>1. \/ Raise("cancelled") \/ Finish
            \/ GoTo("completing") /\ ~(~cancelled /\ (elapsed \/ OutOfCalls))
                 /\ ~cancelled
        BY <2>2, Zenon DEF Turn
      <4> QED
        BY <4>1 DEF Raise, Finish, GoTo
    <3> QED
      BY <3>1, <3>2 DEF Budgets, Phases, Emitting, Waiting, Inside, OutOfCalls
  <2>3. CASE RetryCompletion
    BY <2>3 DEF RetryCompletion, NextTry, GoTo, Budgets, Phases, Emitting, Waiting,
                Inside
  <2>4. CASE AttemptAgain
    BY <2>4 DEF AttemptAgain, Raise, GoTo, budgets, Budgets, Phases, Emitting, Waiting,
                Inside
  <2>5. CASE Answer
    <3>1. /\ phase = "completing" /\ phase' = "answered" /\ calls' = calls + 1
          /\ tries' = tries
      BY <2>5 DEF Answer, GoTo
    <3>2. left' \in 0..CallsPerTurn
      BY <2>5 DEF Answer
    <3> QED
      BY <3>1, <3>2 DEF Budgets, Phases, Emitting, Waiting, Inside
  <2>6. CASE Answered
    BY <2>6 DEF Answered, Finish, GoTo, budgets, Budgets, Phases, Emitting, Waiting,
                Inside
  <2>7. CASE Call
    <3>1. /\ phase = "calling" /\ UNCHANGED <<calls, tries>> /\ left' = left - 1
      BY <2>7 DEF Call
    <3>2. phase' = "stepped" \/ (blocked' /\ phase' = phase)
      BY <2>7 DEF Call, GoTo
    <3>3. ~blocked
      BY <1>1 DEF RunnerNext
    <3> QED
      BY <3>1, <3>2, <3>3 DEF Budgets, Phases, Emitting, Waiting, Inside
  <2>8. CASE CallHangs
    BY <2>8 DEF CallHangs, StepHangs, runnerVars, budgets, Budgets
  <2>9. CASE Stepped \/ Warned
    <3>1. Spent
      BY <2>9 DEF Stepped, Warned, budgets
    <3>2. phase' \in {"warning", "grading", "turn"} \/ (phase' = "calling" /\ left > 0)
      BY <2>9 DEF Stepped, Warned, GoTo, Finish, Continue
    <3> QED
      BY <3>1, <3>2 DEF Budgets, Phases, Emitting, Waiting, Inside
  <2>10. CASE GradeEpisode \/ Complete \/ Handle
    <3>1. Spent
      BY <2>10 DEF GradeEpisode, Complete, Handle, HangsInGrade, runnerVars, budgets
    <3>2. phase' \in {phase, "scoring", "done"}
          /\ phase \in {"grading", "scoring", "handling"}
      BY <2>10 DEF GradeEpisode, Complete, Handle, HangsInGrade, runnerVars
    <3> QED
      BY <3>1, <3>2 DEF Budgets, Phases, Emitting, Waiting, Inside
  <2> QED
    BY <1>1, <2>1, <2>2, <2>3, <2>4, <2>5, <2>6, <2>7, <2>8, <2>9, <2>10 DEF RunnerNext
<1>2. CASE OtherCaller \/ CancelArrives \/ ClockRunsOut \/ UNCHANGED vars
  <2>1. UNCHANGED <<phase, calls, tries, left>>
    BY <1>2 DEF OtherCaller, CancelArrives, ClockRunsOut, vars, runnerVars, budgets
  <2>2. phase = "calling" => UNCHANGED blocked
    BY <1>2 DEF OtherCaller, CancelArrives, ClockRunsOut, vars, envVars
  <2> QED
    BY <2>1, <2>2 DEF Budgets
<1> QED
  BY <1>1, <1>2 DEF Next

(* The variables of the environment and of the runner have their types: the    *)
(* limits of model calls, retries and tool calls of one response are kept      *)
(* (evaluation_service/runner.py, training_ground/episode.py).                 *)
THEOREM TypeCorrect == Spec => []TypeOK
<1>1. Init => EnvTypeOK /\ ReportType /\ Agreed /\ HungIsNotDone /\ Flags /\ Budgets
  <2>1. Init => Flags
    BY Zenon DEF Init, Flags
  <2>2. Init => Budgets
    BY RunnerAssumption DEF Init, Budgets, Phases, Waiting
  <2> QED
    BY <2>1, <2>2, InitEnvType, InitAgreed
<1>2. EnvTypeOK /\ ReportType /\ Agreed /\ HungIsNotDone /\ Flags /\ Budgets
        /\ [Next]_vars
      => EnvTypeOK' /\ ReportType' /\ Agreed' /\ HungIsNotDone' /\ Flags' /\ Budgets'
  BY StepEnvType, StepAgreed, StepFlags, StepBudgets
<1>3. EnvTypeOK /\ ReportType /\ Flags /\ Budgets => TypeOK
  BY Zenon DEF ReportType, Flags, Budgets, TypeOK, Outcomes, TimelineEntries
<1> QED
  BY <1>1, <1>2, <1>3, PTL DEF Spec

(***************************************************************************)
(* The limits.                                                             *)
(***************************************************************************)

(* A set of natural numbers that is not empty has a least one.                *)
LEMMA LeastNumber ==
    ASSUME NEW T \in SUBSET Nat, T # {}
    PROVE  \E x \in T : \A y \in T : ~(y < x)
<1>1. \E x \in T : \A y \in T : ~(<<y, x>> \in OpToRel(<, Nat))
  BY WFMin, NatLessThanWellFounded, Zenon
<1> QED
  BY <1>1 DEF OpToRel

(* Induction on finite sets: what holds of a set if it holds of the set with  *)
(* any one element less holds of all.                                         *)
LEMMA SubsetInduction ==
    ASSUME NEW S, IsFiniteSet(S), NEW T \in SUBSET SUBSET S,
           \A s \in SUBSET S : (\A x \in s : s \ {x} \in T) => s \in T
    PROVE  T = SUBSET S
<1> DEFINE Bad == {n \in Nat : \E s \in SUBSET S : s \notin T /\ Cardinality(s) = n}
<1>1. \A s \in SUBSET S : IsFiniteSet(s) /\ Cardinality(s) \in Nat
  BY FS_Subset, FS_CardinalityType
<1>2. ASSUME Bad # {}
      PROVE  FALSE
  <2>1. PICK n \in Bad : \A m \in Bad : ~(m < n)
    BY <1>2, LeastNumber
  <2>2. PICK s \in SUBSET S : s \notin T /\ Cardinality(s) = n
    BY <2>1
  <2>3. ASSUME NEW x \in s
        PROVE  s \ {x} \in T
    <3>1. Cardinality(s \ {x}) = n - 1
      BY <1>1, <2>2, <2>3, FS_RemoveElement
    <3>2. Cardinality(s \ {x}) \in Nat /\ n \in Nat /\ s \ {x} \in SUBSET S
      BY <1>1, <2>1
    <3>3. n - 1 \notin Bad
      BY <2>1, <3>1, <3>2
    <3> QED
      BY <3>1, <3>2, <3>3
  <2> QED
    BY <2>2, <2>3
<1>3. \A s \in SUBSET S : s \in T
  BY <1>1, <1>2
<1> QED
  BY <1>3

Positions(t) == DOMAIN t.entries

(* The sizes of the entries at some positions, in whichever order they are    *)
(* added.                                                                     *)
IsSum(t, sum) ==
    /\ sum \in [SUBSET Positions(t) -> Nat]
    /\ sum[{}] = 0
    /\ \A s \in SUBSET Positions(t) : \A x \in s :
        sum[s] = t.entries[x].size + sum[s \ {x}]

(* The recount of the verifier, which takes the entries in the order CHOOSE   *)
(* gives, is such a sum.                                                      *)
LEMMA RecountIsSum ==
    ASSUME NEW t, IsFiniteSet(Positions(t)), NEW sum, IsSum(t, sum)
    PROVE  TotalBytes(t) = sum[Positions(t)]
<1> DEFINE P == Positions(t)
           next(s) == CHOOSE x \in s : TRUE
           Sums(g) == [s \in SUBSET P |-> IF s = {} THEN 0
                                          ELSE t.entries[next(s)].size + g[s \ {next(s)}]]
           iter == CHOOSE g : g = Sums(g)
<1>1. TotalBytes(t) = iter[P]
  BY Zenon DEF TotalBytes, MapThenSumSet, MapThenFoldSet, Positions
<1>2. \A s \in SUBSET P : s # {} => next(s) \in s
  OBVIOUS
<1> HIDE DEF next
<1>3. sum = Sums(sum)
  <2>1. \A s \in SUBSET P : sum[s] = Sums(sum)[s]
    BY <1>2 DEF IsSum
  <2> QED
    BY <2>1 DEF IsSum
<1>4. iter = Sums(iter)
  BY <1>3
<1> HIDE DEF iter
<1> DEFINE T == {s \in SUBSET P : iter[s] = sum[s]}
<1>5. ASSUME NEW s \in SUBSET P, \A x \in s : s \ {x} \in T
      PROVE  s \in T
  <2>1. iter[s] = Sums(iter)[s] /\ sum[s] = Sums(sum)[s]
    BY <1>3, <1>4
  <2>2. CASE s = {}
    BY <2>1, <2>2
  <2>3. CASE s # {}
    <3>1. iter[s \ {next(s)}] = sum[s \ {next(s)}]
      BY <1>2, <1>5, <2>3
    <3> QED
      BY <2>1, <2>3, <3>1
  <2> QED
    BY <2>2, <2>3
<1>6. T = SUBSET P
  <2> HIDE DEF T
  <2>1. T \in SUBSET SUBSET P
    BY DEF T
  <2> QED
    BY <1>5, <2>1, SubsetInduction
<1>7. iter[P] = sum[P]
  BY <1>6
<1> QED
  BY <1>1, <1>7

(* An entry more adds its size.                                               *)
LEMMA SumOfAppended ==
    ASSUME EnvTypeOK, NEW sum, IsSum(transcript, sum),
           NEW entry \in Entries, transcript' = AddStep(entry)
    PROVE  \E s \in [SUBSET Positions(transcript') -> Nat] :
             /\ IsSum(transcript', s)
             /\ s[Positions(transcript')]
                  = sum[Positions(transcript)] + entry.size
<1> DEFINE n == Len(transcript.entries)
           P == Positions(transcript)
           Q == Positions(transcript')
           more == [s \in SUBSET Q |-> sum[s \ {n + 1}]
                                         + IF n + 1 \in s THEN entry.size ELSE 0]
<1>1. n \in Nat /\ P = 1..n /\ Q = 1..(n + 1) /\ n + 1 \notin P /\ Q = P \cup {n + 1}
  <2>1. transcript.entries \in Seq(Entries) /\ transcript'.entries \in Seq(Entries)
        /\ Len(transcript'.entries) = n + 1
    BY Appending DEF EnvTypeOK
  <2> QED
    BY <2>1 DEF Positions
<1>2. /\ \A i \in P : transcript'.entries[i] = transcript.entries[i]
      /\ transcript'.entries[n + 1] = entry
  BY <1>1, Appending
<1>3. entry.size \in Nat
  BY DEF Entries
<1> HIDE DEF n, P, Q
<1>4. \A s \in SUBSET Q : s \ {n + 1} \in SUBSET P
  BY <1>1
<1>5. /\ sum \in [SUBSET P -> Nat] /\ sum[{}] = 0
      /\ \A s \in SUBSET P : \A x \in s :
           sum[s] = transcript.entries[x].size + sum[s \ {x}]
  BY Zenon DEF IsSum, P
<1>6. \A i \in P : transcript.entries[i].size \in Nat
  <2>1. transcript.entries \in Seq(Entries)
    BY DEF EnvTypeOK
  <2>2. \A i \in P : transcript.entries[i] \in Entries
    BY <2>1 DEF P, Positions
  <2> QED
    BY <2>2 DEF Entries
<1>7. more \in [SUBSET Q -> Nat]
  <2>1. \A s \in SUBSET Q : sum[s \ {n + 1}] \in Nat
    BY <1>4, <1>5
  <2>2. \A k \in Nat : k + entry.size \in Nat /\ k + 0 \in Nat
    BY <1>3
  <2>3. \A s \in SUBSET Q :
          sum[s \ {n + 1}] + (IF n + 1 \in s THEN entry.size ELSE 0) \in Nat
    BY <2>1, <2>2, Zenon
  <2> QED
    BY <2>3, Zenon
<1>8. more[{}] = 0
  <2>1. {} \in SUBSET Q /\ {} \ {n + 1} = {}
    OBVIOUS
  <2> QED
    BY <1>5, <2>1
<1>9. ASSUME NEW s \in SUBSET Q, NEW x \in s
      PROVE  more[s] = transcript'.entries[x].size + more[s \ {x}]
  <2>1. s \ {x} \in SUBSET Q /\ s \ {n + 1} \in SUBSET P
    BY <1>4
  <2>2. sum[s \ {n + 1}] \in Nat
    BY <1>5, <2>1
  <2>3. CASE x = n + 1
    <3>1. (s \ {x}) \ {n + 1} = s \ {n + 1} /\ n + 1 \notin s \ {x} /\ n + 1 \in s
      BY <2>3
    <3>2. more[s] = sum[s \ {n + 1}] + entry.size
      BY <3>1
    <3>3. more[s \ {x}] = sum[s \ {n + 1}] + 0
      BY <2>1, <3>1
    <3> QED
      BY <1>2, <1>3, <2>2, <2>3, <3>2, <3>3
  <2>4. CASE x # n + 1
    <3>1. x \in P /\ x \in s \ {n + 1}
      BY <1>1, <2>4
    <3>2. (s \ {x}) \ {n + 1} = (s \ {n + 1}) \ {x}
      OBVIOUS
    <3>3. n + 1 \in s \ {x} <=> n + 1 \in s
      BY <2>4
    <3>4. sum[s \ {n + 1}] = transcript.entries[x].size + sum[(s \ {n + 1}) \ {x}]
      BY <1>5, <2>1, <3>1
    <3>5. more[s \ {x}] = sum[(s \ {n + 1}) \ {x}]
                            + IF n + 1 \in s THEN entry.size ELSE 0
      BY <2>1, <3>2, <3>3
    <3>6. (s \ {n + 1}) \ {x} \in SUBSET P
      BY <2>1
    <3>7. sum[(s \ {n + 1}) \ {x}] \in Nat /\ transcript.entries[x].size \in Nat
          /\ transcript'.entries[x] = transcript.entries[x]
      BY <1>2, <1>5, <1>6, <3>1, <3>6
    <3> HIDE DEF more
    <3>8. more[s] = sum[s \ {n + 1}] + IF n + 1 \in s THEN entry.size ELSE 0
      BY DEF more
    <3> QED
      BY <1>3, <3>4, <3>5, <3>7, <3>8
  <2> QED
    BY <2>3, <2>4
<1>10. more[Q] = sum[P] + entry.size
  <2>1. Q \ {n + 1} = P /\ n + 1 \in Q
    BY <1>1
  <2> QED
    BY <2>1
<1> HIDE DEF more
<1>11. IsSum(transcript', more)
  BY <1>7, <1>8, <1>9, Zenon DEF IsSum, Q
<1> QED
  BY <1>7, <1>10, <1>11, Zenon DEF P, Q

(* While the episode goes on the counters are within the limits, and within    *)
(* max_steps there is one action left.                                        *)
WithinLimits ==
    /\ actions <= Limits[seed].actions /\ bytes <= Limits[seed].bytes
    /\ maxSteps # None => actions < maxSteps

Counted ==
    /\ maxSteps \in (Nat \ {0}) \cup {None}
    /\ ready /\ ~blocked =>
        /\ \E sum \in [SUBSET Positions(transcript) -> Nat] :
            IsSum(transcript, sum) /\ bytes = sum[Positions(transcript)]
        /\ ~ended => WithinLimits
        /\ maxSteps # None /\ maxSteps <= Limits[seed].actions =>
            actions <= Limits[seed].actions

(* An action adds one to the one counter and its bytes to the other, and the   *)
(* episode goes on only within the limits.                                    *)
LEMMA CountedAction ==
    ASSUME EnvTypeOK, Counted, ready, ~blocked, ~ended, NEW entry \in Entries,
           actions' = actions + 1, bytes' = bytes + entry.size,
           transcript' = AddStep(entry), UNCHANGED <<seed, maxSteps>>,
           ~ended' /\ ~blocked' => ~OverLimit(actions', bytes')
                          /\ (maxSteps # None => ~(actions' >= maxSteps))
    PROVE  Counted'
<1>1. PICK sum \in [SUBSET Positions(transcript) -> Nat] :
        IsSum(transcript, sum) /\ bytes = sum[Positions(transcript)]
  BY DEF Counted
<1>2. \E s \in [SUBSET Positions(transcript') -> Nat] :
        IsSum(transcript', s) /\ s[Positions(transcript')] = bytes'
  BY <1>1, SumOfAppended
<1>3. Limits[seed].actions \in Nat /\ Limits[seed].bytes \in Nat
      /\ actions \in Nat /\ actions' \in Nat /\ bytes' \in Nat
      /\ maxSteps \in Nat \cup {None}
  <2>1. entry.size \in Nat
    BY DEF Entries
  <2> QED
    BY <2>1, InstanceAssumption DEF EnvTypeOK
<1>4. ~ended' /\ ~blocked' => WithinLimits'
  BY <1>3 DEF WithinLimits, OverLimit
<1>5. maxSteps # None /\ maxSteps <= Limits[seed].actions
        => actions' <= Limits[seed].actions
  BY <1>3, NoneAssumption DEF Counted, WithinLimits
<1>6. maxSteps' \in (Nat \ {0}) \cup {None}
  BY DEF Counted
<1> QED
  BY <1>2, <1>4, <1>5, <1>6 DEF Counted

LEMMA CountedReset ==
    ASSUME EnvTypeOK, Counted, NEW s \in Seeds, Reset(s)
    PROVE  Counted'
<1>1. maxSteps' = maxSteps
  BY DEF Reset, ResetFails, ResetStarts
<1>2. CASE ~ready'
  BY <1>1, <1>2 DEF Counted
<1>3. CASE ready'
  <2>1. /\ seed' = s /\ actions' = 0 /\ bytes' = 0 /\ transcript' = NewTranscript(s)
    BY <1>3 DEF Reset, ResetFails, ResetStarts
  <2>2. Positions(transcript') = {}
    BY <2>1, NewTranscriptType DEF Positions
  <2> DEFINE none == [p \in SUBSET {} |-> 0]
  <2>3. none \in [SUBSET Positions(transcript') -> Nat]
        /\ IsSum(transcript', none) /\ bytes' = none[Positions(transcript')]
    BY <2>1, <2>2 DEF IsSum
  <2>4. Limits[seed'].actions \in Nat /\ Limits[seed'].bytes \in Nat
    BY <2>1, InstanceAssumption
  <2>5. WithinLimits'
    BY <1>1, <2>1, <2>4, NoneAssumption DEF WithinLimits, Counted
  <2>6. actions' <= Limits[seed'].actions
    BY <2>1, <2>4
  <2> HIDE DEF none
  <2> QED
    BY <1>1, <2>3, <2>5, <2>6 DEF Counted
<1> QED
  BY <1>2, <1>3

LEMMA EntrySize ==
    ASSUME NEW tool, NEW success, NEW size
    PROVE  Entry(tool, success, size).size = size
BY Zenon DEF Entry

LEMMA StepCounted ==
    ASSUME EnvTypeOK, Counted, [Next]_vars
    PROVE  Counted'
<1>1. ASSUME NEW tool \in Tools, NEW size \in Nat, NEW success \in BOOLEAN,
             StepAnswered(tool, success, size)
      PROVE  Counted'
  <2>1. /\ ready' = ready /\ maxSteps' = maxSteps /\ seed' = seed
        /\ ~ended /\ ~blocked
        /\ actions' = actions + 1 /\ bytes' = bytes + size
        /\ transcript' = AddStep(Entry(tool, success, size))
    BY <1>1 DEF StepAnswered, CanStep, manifest
  <2>2. CASE ~ready
    BY <2>1, <2>2 DEF Counted
  <2>3. CASE ready
    <3>1. PICK late \in BOOLEAN :
            ended' = (~blocked' /\ (\/ (tool = "release.status"
                                          /\ session'.incident = "closed")
                                     \/ Truncates(actions', bytes', late)))
      BY <1>1, Zenon DEF StepAnswered
    <3>2. ~ended' /\ ~blocked' => ~Truncates(actions', bytes', late)
      BY <3>1, Zenon
    <3>3. ~ended' /\ ~blocked' => ~OverLimit(actions', bytes')
                          /\ (maxSteps # None => ~(actions' >= maxSteps))
      BY <2>1, <3>2 DEF Truncates, OverLimit
    <3> QED
      BY <1>1, <2>1, <2>3, <3>3, EntryType, EntrySize, CountedAction
  <2> QED
    BY <2>2, <2>3
<1>2. ASSUME NEW tool \in Tools, NEW size \in Nat, StepLost(tool, size)
      PROVE  Counted'
  <2>1. /\ ready' = ready /\ maxSteps' = maxSteps /\ seed' = seed
        /\ ~ended /\ ~blocked /\ ended'
        /\ actions' = actions + 1 /\ bytes' = bytes + size
        /\ transcript' = AddStep(Entry(tool, FALSE, size))
    BY <1>2 DEF StepLost, CanStep, manifest
  <2>2. CASE ~ready
    BY <2>1, <2>2 DEF Counted
  <2>3. CASE ready
    BY <1>2, <2>1, <2>3, EntryType, EntrySize, CountedAction
  <2> QED
    BY <2>2, <2>3
<1>3. CASE StepHangs
  <2>1. blocked' /\ maxSteps' = maxSteps
    BY <1>3 DEF StepHangs, manifest
  <2> QED
    BY <2>1 DEF Counted
<1>4. CASE \E s \in Seeds : Reset(s)
  BY <1>4, CountedReset
<1>5. CASE GradedOrClosed \/ UNCHANGED envVars
  <2>1. /\ UNCHANGED <<seed, maxSteps, ended, actions, bytes, transcript, ready>>
        /\ ~blocked' => ~blocked
    BY <1>5 DEF GradedOrClosed, envVars, manifest, counters
  <2> QED
    BY <2>1 DEF Counted, WithinLimits
<1> QED
  BY <1>1, <1>2, <1>3, <1>4, <1>5, EnvSteps

(* The environment ends an episode before the verifier's recount of the        *)
(* transcript exceeds a limit: only the action that ends it can be one too     *)
(* many, and with max_steps within the limit none is (training_ground/         *)
(* episode.py, limits.py and transcripts.py).                                  *)
THEOREM CreditBounded == Spec => []CreditIsBounded
<1>1. Init => EnvTypeOK /\ Recorded /\ Counted
  <2>1. Init => ~ready /\ maxSteps \in (Nat \ {0}) \cup {None}
    BY CallerAssumption, RunnerAssumption DEF Init, EnvInit
  <2> QED
    BY <2>1, InitEnvType DEF Recorded, Counted
<1>2. EnvTypeOK /\ Recorded /\ Counted /\ [Next]_vars
        => EnvTypeOK' /\ Recorded' /\ Counted'
  BY StepEnvType, StepRecorded, StepCounted
<1>3. EnvTypeOK /\ Recorded /\ Counted => CreditIsBounded
  <2> SUFFICES ASSUME EnvTypeOK, Recorded, Counted, ready, ~blocked
               PROVE  CreditIsBounded
    BY DEF CreditIsBounded
  <2>1. actions = Len(transcript.entries)
    BY DEF Recorded, Count
  <2>2. IsFiniteSet(Positions(transcript))
    <3>1. Positions(transcript) = 1..Len(transcript.entries)
          /\ Len(transcript.entries) \in Nat
      BY DEF EnvTypeOK, Positions
    <3> QED
      BY <3>1, FS_Interval
  <2>3. bytes = TotalBytes(transcript)
    BY <2>2, RecountIsSum DEF Counted
  <2> QED
    BY <2>1, <2>3 DEF Counted, WithinLimits, CreditIsBounded, BoundedResources
<1> QED
  BY <1>1, <1>2, <1>3, PTL DEF Spec
=============================================================================
