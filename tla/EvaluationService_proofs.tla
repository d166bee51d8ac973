------------------------ MODULE EvaluationService_proofs ------------------------
(***************************************************************************)
(* Proofs about EvaluationService.  For every set of processes: types, what*)
(* the record directories hold (RecordsOnDisk) and that result.json is     *)
(* written once (ResultIsFinal).  For the API alone, without the CLI beside*)
(* it: BatchSettled, ActiveIsOwned, AnnouncedIsFinal, NothingOfDeleted and *)
(* TerminalIsFinal.                                                        *)
(*                                                                         *)
(* The argument turns on todo, the operations a handler has still to do.   *)
(* Program says what such a sequence may look like: what must follow what, *)
(* and what may not come before what.  Every handler starts a program and  *)
(* every tail of one is one (TailOfProgram).  Held and Pending then say    *)
(* what is true of the store when an operation is next, and while it is    *)
(* still to come; HeadAlone and PendingAlone say more for the API alone.   *)
(***************************************************************************)
EXTENDS EvaluationService, FiniteSetTheorems, SequenceTheorems, TLAPS

(***************************************************************************)
(* Constants and operations.                                               *)
(***************************************************************************)

LEMMA BatchOfRun ==
    /\ \A r \in Runs : BatchOf(r) \in Batches /\ r \in RunSet(BatchOf(r))
    /\ \A b \in Batches : \A r \in RunSet(b) : r \in Runs /\ BatchOf(r) = b
<1>1. ASSUME NEW r \in Runs
      PROVE  BatchOf(r) \in Batches /\ r \in RunSet(BatchOf(r))
  <2>1. \E b \in Batches : r \in RunSet(b)
    BY RunsAssumption
  <2> QED
    BY <2>1 DEF BatchOf
<1>2. ASSUME NEW b \in Batches, NEW r \in RunSet(b)
      PROVE  r \in Runs /\ BatchOf(r) = b
  <2>1. RunsOf[b] \in Seq(Runs)
    BY RunsAssumption
  <2>2. PICK i \in DOMAIN RunsOf[b] : r = RunsOf[b][i]
    BY DEF RunSet
  <2>3. r \in Runs
    BY <2>1, <2>2, ElementOfSeq, LenProperties
  <2>4. BatchOf(r) \in Batches /\ r \in RunSet(BatchOf(r))
    BY <1>1, <2>3
  <2>5. BatchOf(r) # b => RunSet(BatchOf(r)) \cap RunSet(b) = {}
    BY <2>4, RunsAssumption
  <2> QED
    BY <2>3, <2>4, <2>5
<1> QED
  BY <1>1, <1>2

LEMMA ProcNames ==
    /\ Api \in Procs
    /\ \A p \in Procs : p # Nobody /\ p # Free /\ (p = Api \/ p = Cli)
    /\ Api # Cli
BY ProcsAssumption DEF Api, Cli, Nobody, Free

(* The fields of an operation, by its kind.                                *)
LEMMA OperationFields ==
    ASSUME NEW o \in Operations
    PROVE  /\ o.do \in {"create_batch", "status", "event", "gather"} => o.batch \in Batches
           /\ o.do \in {"create_run", "mkdir", "progress", "rename", "delete_rows", "rmtree",
                        "finalize", "result", "commit"} => o.run \in Runs
           /\ o.do = "status" => o.status \in BatchStatus
           /\ o.do = "event" => o.type \in EventTypes /\ o.run \in Runs \cup {NoRun}
           /\ o.do \in {"finalize", "result", "commit"} =>
                 o.status \in Terminal /\ o.captured \in BOOLEAN
           /\ o.do \in {"mark", "marked"} => o.runs \subseteq Runs
<1>1. CASE o \in [do : {"create_batch"}, batch : Batches]
  BY <1>1
<1>2. CASE o \in [do : {"create_run", "mkdir", "progress", "rename", "delete_rows", "rmtree"},
                  run : Runs]
  BY <1>2
<1>3. CASE o \in [do : {"status"}, batch : Batches, status : BatchStatus]
  BY <1>3
<1>4. CASE o \in [do : {"event"}, batch : Batches, type : EventTypes, run : Runs \cup {NoRun}]
  BY <1>4
<1>5. CASE o \in [do : {"gather"}, batch : Batches]
  BY <1>5
<1>6. CASE o \in [do : {"finalize", "result", "commit"}, run : Runs,
                  status : Terminal, captured : BOOLEAN]
  <2>1. o.do \in {"finalize", "result", "commit"} /\ o.run \in Runs /\ o.status \in Terminal
        /\ o.captured \in BOOLEAN
    BY <1>6, Zenon
  <2> QED
    BY <2>1
<1>7. CASE o \in [do : {"active"}]
  BY <1>7
<1>8. CASE o \in [do : {"mark", "marked"}, runs : SUBSET Runs]
  BY <1>8
<1> QED
  BY <1>1, <1>2, <1>3, <1>4, <1>5, <1>6, <1>7, <1>8 DEF Operations

LEMMA OperationMade ==
    /\ \A b \in Batches : /\ [do |-> "create_batch", batch |-> b] \in Operations
                          /\ [do |-> "gather", batch |-> b] \in Operations
    /\ \A r \in Runs :
          \A do \in {"create_run", "mkdir", "progress", "rename", "delete_rows", "rmtree"} :
             [do |-> do, run |-> r] \in Operations
    /\ \A b \in Batches, s \in BatchStatus :
          [do |-> "status", batch |-> b, status |-> s] \in Operations
    /\ \A b \in Batches, t \in EventTypes, r \in Runs \cup {NoRun} :
          [do |-> "event", batch |-> b, type |-> t, run |-> r] \in Operations
    /\ \A do \in {"finalize", "result", "commit"}, r \in Runs, s \in Terminal, c \in BOOLEAN :
          [do |-> do, run |-> r, status |-> s, captured |-> c] \in Operations
    /\ [do |-> "active"] \in Operations
    /\ \A do \in {"mark", "marked"}, S \in SUBSET Runs : [do |-> do, runs |-> S] \in Operations
<1>1. \A b \in Batches : /\ [do |-> "create_batch", batch |-> b] \in Operations
                         /\ [do |-> "gather", batch |-> b] \in Operations
  BY DEF Operations
<1>2. \A r \in Runs :
        \A do \in {"create_run", "mkdir", "progress", "rename", "delete_rows", "rmtree"} :
             [do |-> do, run |-> r] \in Operations
  BY DEF Operations
<1>3. \A b \in Batches, s \in BatchStatus :
        [do |-> "status", batch |-> b, status |-> s] \in Operations
  BY DEF Operations
<1>4. \A b \in Batches, t \in EventTypes, r \in Runs \cup {NoRun} :
        [do |-> "event", batch |-> b, type |-> t, run |-> r] \in Operations
  BY DEF Operations
<1>5. ASSUME NEW do \in {"finalize", "result", "commit"}, NEW r \in Runs,
             NEW s \in Terminal, NEW c \in BOOLEAN
      PROVE  [do |-> do, run |-> r, status |-> s, captured |-> c] \in Operations
  <2>1. [do |-> do, run |-> r, status |-> s, captured |-> c]
          \in [do : {"finalize", "result", "commit"}, run : Runs,
               status : Terminal, captured : BOOLEAN]
    BY Zenon
  <2> QED
    BY <2>1, Zenon DEF Operations
<1>6. [do |-> "active"] \in Operations
  BY DEF Operations
<1>7. \A do \in {"mark", "marked"}, S \in SUBSET Runs : [do |-> do, runs |-> S] \in Operations
  BY DEF Operations
<1> QED
  BY <1>1, <1>2, <1>3, <1>4, <1>5, <1>6, <1>7

-----------------------------------------------------------------------------
(***************************************************************************)
(* Programs: the operations a handler has still to do.                     *)
(***************************************************************************)
Ops(p) == {todo[p][i] : i \in 1..Len(todo[p])}

Follows(x, y) ==
    /\ y.do = "mkdir" <=> x.do = "create_run"
    /\ x.do = "create_run" => y.run = x.run
    /\ y.do = "result" <=> x.do = "finalize"
    /\ y.do = "commit" <=> x.do = "result"
    /\ x.do \in {"finalize", "result"} =>
          y.run = x.run /\ y.status = x.status /\ y.captured = x.captured
    /\ y.do = "delete_rows" <=> x.do = "rename"
    /\ y.do = "rmtree" <=> x.do = "delete_rows"
    /\ x.do \in {"rename", "delete_rows"} => y.run = x.run
    /\ y.do = "marked" <=> x.do = "mark"
    /\ x.do = "mark" => y.runs = x.runs
    /\ x.do = "commit" => y.do = "event" /\ y.run = x.run
    /\ y.do = "event" /\ y.type = "run_finished" => x.do = "commit"
    /\ y.do \notin {"create_batch", "status", "progress", "finalize", "rename", "active", "mark"}

Before(x, y) ==
    /\ x.do = "create_run" /\ y.do = "create_run" => x.run # y.run
    /\ y.do = "gather" => x.do \in {"status", "event"}
    /\ y.do = "create_run" => x.do \in {"create_batch", "create_run", "mkdir"}
    /\ y.do = "mkdir" => x.do \in {"create_batch", "create_run", "mkdir"}
    /\ x.do \in {"rename", "delete_rows", "rmtree", "active", "mark", "marked"} =>
          y.do \in {"delete_rows", "rmtree", "marked"}

(* Operations that something must follow.                                  *)
Opening == {"create_run", "finalize", "result", "rename", "delete_rows", "mark"}

Shape(t) ==
    /\ t # <<>> => t[Len(t)].do \notin Opening
    /\ \A i \in 1..(Len(t) - 1) : Follows(t[i], t[i + 1])
    /\ \A i, j \in 1..Len(t) : i < j => Before(t[i], t[j])

Program(t) == t \in Seq(Operations) /\ Shape(t)

LEMMA TailOfProgram ==
    ASSUME NEW t, Program(t), t # <<>>
    PROVE  /\ Program(Tail(t))
           /\ Head(t) = t[1] /\ Head(t) \in Operations
           /\ Len(t) \in Nat \ {0} /\ Len(Tail(t)) = Len(t) - 1
           /\ \A i \in 1..Len(Tail(t)) : Tail(t)[i] = t[i + 1]
           /\ Tail(t) # <<>> => /\ Len(t) > 1
                                /\ Head(Tail(t)) = t[2]
                                /\ Follows(t[1], t[2])
           /\ \A i \in 1..Len(Tail(t)) : Before(t[1], t[i + 1])
           /\ t[1].do \in Opening => Tail(t) # <<>>
<1>1. t \in Seq(Operations) /\ Shape(t)
  BY DEF Program
<1>2. /\ Len(t) \in Nat \ {0} /\ Head(t) \in Operations
      /\ Tail(t) \in Seq(Operations) /\ Len(Tail(t)) = Len(t) - 1
      /\ \A i \in 1..Len(Tail(t)) : Tail(t)[i] = t[i + 1]
  BY <1>1, HeadTailProperties, EmptySeq, LenProperties
<1>3. Head(t) = t[1]
  BY <1>1
<1>4. \A i \in 1..(Len(Tail(t)) - 1) : Follows(Tail(t)[i], Tail(t)[i + 1])
  BY <1>1, <1>2 DEF Shape
<1>5. ASSUME NEW i \in 1..Len(Tail(t)), NEW j \in 1..Len(Tail(t)), i < j
      PROVE  Before(Tail(t)[i], Tail(t)[j])
  <2>1. /\ Tail(t)[i] = t[i + 1] /\ Tail(t)[j] = t[j + 1]
        /\ i + 1 \in 1..Len(t) /\ j + 1 \in 1..Len(t) /\ i + 1 < j + 1
    BY <1>2, <1>5
  <2> QED
    BY <1>1, <2>1 DEF Shape
<1>6. Program(Tail(t))
  <2>1. ASSUME Tail(t) # <<>>
        PROVE  Tail(t)[Len(Tail(t))].do \notin Opening
    <3>1. Len(Tail(t)) \in Nat \ {0}
      BY <1>2, <2>1, EmptySeq
    <3>2. Tail(t)[Len(Tail(t))] = t[Len(t)]
      BY <1>2, <3>1
    <3> QED
      BY <1>1, <3>2 DEF Shape
  <2> QED
    BY <1>2, <1>4, <1>5, <2>1 DEF Program, Shape
<1>7. ASSUME Tail(t) # <<>>
      PROVE  Len(t) > 1 /\ Head(Tail(t)) = t[2] /\ Follows(t[1], t[2])
  <2>1. Len(Tail(t)) \in Nat \ {0}
    BY <1>2, <1>7, EmptySeq
  <2>2. \A s \in Seq(Operations) : Head(s) = s[1]
    OBVIOUS
  <2>3. Head(Tail(t)) = Tail(t)[1]
    BY <1>2, <2>2, Zenon
  <2>4. 1 \in 1..Len(Tail(t)) /\ 1 \in 1..(Len(t) - 1) /\ Len(t) > 1
    BY <1>2, <2>1
  <2>5. Tail(t)[1] = t[2] /\ Follows(t[1], t[2])
    BY <1>1, <1>2, <2>4 DEF Shape
  <2> QED
    BY <2>3, <2>4, <2>5
<1>8. ASSUME NEW i \in 1..Len(Tail(t))
      PROVE  Before(t[1], t[i + 1])
  <2>1. 1 \in 1..Len(t) /\ i + 1 \in 1..Len(t) /\ 1 < i + 1
    BY <1>2
  <2> QED
    BY <1>1, <2>1 DEF Shape
<1>9. ASSUME Tail(t) = <<>>
      PROVE  t[1].do \notin Opening
  <2>1. Len(Tail(t)) = 0
    BY <1>9, EmptySeq
  <2>2. Len(t) \in Nat /\ Len(t) - 1 = 0
    BY <1>2, <2>1
  <2>3. t[Len(t)] = t[1]
    BY <2>2
  <2> QED
    BY <1>1, <2>3 DEF Shape
<1> QED
  BY <1>2, <1>3, <1>6, <1>7, <1>8, <1>9

LEMMA EmptyProgram == Program(<<>>)
BY EmptySeq DEF Program, Shape

CreationOf(t, b, n) ==
    /\ n \in Nat
    /\ t \in Seq(Operations) /\ Len(t) = 2 * n + 2
    /\ t[1] = [do |-> "create_batch", batch |-> b]
    /\ t[2 * n + 2] = [do |-> "event", batch |-> b, type |-> "batch_queued", run |-> NoRun]
    /\ \A i \in 1..n : /\ RunsOf[b][i] \in RunSet(b)
                       /\ t[2 * i] = [do |-> "create_run", run |-> RunsOf[b][i]]
                       /\ t[2 * i + 1] = [do |-> "mkdir", run |-> RunsOf[b][i]]
    /\ \A k \in 1..(2 * n + 2) : \/ k = 1 \/ k = 2 * n + 2
                                 \/ \E i \in 1..n : k = 2 * i \/ k = 2 * i + 1

LEMMA CreationIs ==
    ASSUME NEW b \in Batches
    PROVE  CreationOf(Creation(b), b, Len(RunsOf[b]))
<1> SUFFICES ASSUME NEW n, n = Len(RunsOf[b]), NEW t, t = Creation(b)
             PROVE  CreationOf(t, b, n)
  OBVIOUS
<1>1. RunsOf[b] \in Seq(Runs) /\ n \in Nat
  BY RunsAssumption, LenProperties
<1>2. \A i \in 1..n : RunsOf[b][i] \in Runs /\ RunsOf[b][i] \in RunSet(b)
  BY <1>1, LenProperties, ElementOfSeq DEF RunSet
<1> DEFINE op(i) == [do |-> IF i % 2 = 1 THEN "create_run" ELSE "mkdir",
                     run |-> RunsOf[b][(i + 1) \div 2]]
           mid == [i \in 1..(2 * n) |-> op(i)]
           one == <<[do |-> "create_batch", batch |-> b]>>
           end == <<[do |-> "event", batch |-> b, type |-> "batch_queued", run |-> NoRun]>>
<1>3. \A i \in 1..(2 * n) : op(i) \in Operations
  <2> TAKE i \in 1..(2 * n)
  <2>1. (i + 1) \div 2 \in 1..n
    BY <1>1
  <2>2. RunsOf[b][(i + 1) \div 2] \in Runs
    BY <1>2, <2>1
  <2>3. (IF i % 2 = 1 THEN "create_run" ELSE "mkdir")
           \in {"create_run", "mkdir", "progress", "rename", "delete_rows", "rmtree"}
    OBVIOUS
  <2> HIDE <2>1
  <2> QED
    BY <2>2, <2>3, OperationMade, Zenon
<1>4. mid \in Seq(Operations) /\ Len(mid) = 2 * n
  <2>1. 2 * n \in Nat
    BY <1>1
  <2> HIDE DEF op
  <2> QED
    BY <1>3, <2>1
<1>5. one \in Seq(Operations) /\ Len(one) = 1 /\ one[1] = [do |-> "create_batch", batch |-> b]
  <2>1. PICK o \in Operations : o = [do |-> "create_batch", batch |-> b]
    BY OperationMade
  <2>2. <<o>> \in Seq(Operations) /\ Len(<<o>>) = 1 /\ <<o>>[1] = o
    OBVIOUS
  <2> QED
    BY <2>1, <2>2
<1>6. /\ end \in Seq(Operations) /\ Len(end) = 1
      /\ end[1] = [do |-> "event", batch |-> b, type |-> "batch_queued", run |-> NoRun]
  <2>1. PICK o \in Operations : o = [do |-> "event", batch |-> b,
                                     type |-> "batch_queued", run |-> NoRun]
    BY OperationMade DEF EventTypes
  <2>2. <<o>> \in Seq(Operations) /\ Len(<<o>>) = 1 /\ <<o>>[1] = o
    OBVIOUS
  <2> QED
    BY <2>1, <2>2
<1>7. t = (one \o mid) \o end
  BY DEF Creation
<1>8. /\ one \o mid \in Seq(Operations) /\ Len(one \o mid) = 1 + 2 * n
      /\ (one \o mid)[1] = one[1]
      /\ \A i \in 2..(1 + 2 * n) : (one \o mid)[i] = mid[i - 1]
  <2> HIDE DEF one, mid, end
  <2>1. /\ one \o mid \in Seq(Operations) /\ Len(one \o mid) = Len(one) + Len(mid)
        /\ \A i \in 1..(Len(one) + Len(mid)) : (one \o mid)[i] =
              IF i <= Len(one) THEN one[i] ELSE mid[i - Len(one)]
    BY <1>4, <1>5, ConcatProperties
  <2> QED
    BY <1>1, <1>4, <1>5, <2>1
<1>9. /\ t \in Seq(Operations) /\ Len(t) = 2 * n + 2
      /\ t[2 * n + 2] = end[1]
      /\ \A i \in 1..(1 + 2 * n) : t[i] = (one \o mid)[i]
  <2> DEFINE u == one \o mid
  <2>1. u \in Seq(Operations) /\ Len(u) = 1 + 2 * n /\ t = u \o end
    BY <1>7, <1>8
  <2> HIDE DEF one, mid, end, u
  <2>2. /\ u \o end \in Seq(Operations) /\ Len(u \o end) = 2 * n + 2
        /\ \A i \in 1..(2 * n + 2) : (u \o end)[i] =
              IF i <= 1 + 2 * n THEN u[i] ELSE end[i - (1 + 2 * n)]
    <3>1. /\ u \o end \in Seq(Operations) /\ Len(u \o end) = Len(u) + Len(end)
          /\ \A i \in 1..(Len(u) + Len(end)) : (u \o end)[i] =
                IF i <= Len(u) THEN u[i] ELSE end[i - Len(u)]
      BY <1>6, <2>1, ConcatProperties
    <3>2. Len(u) = 1 + 2 * n /\ Len(u) + Len(end) = 2 * n + 2
      BY <1>1, <1>6, <2>1
    <3> QED
      BY <3>1, <3>2
  <2>3. 2 * n + 2 \in 1..(2 * n + 2) /\ 2 * n + 2 - (1 + 2 * n) = 1
        /\ ~(2 * n + 2 <= 1 + 2 * n)
    BY <1>1
  <2>4. t[2 * n + 2] = end[1]
    BY <2>1, <2>2, <2>3
  <2>5. \A i \in 1..(1 + 2 * n) : t[i] = u[i]
    BY <1>1, <2>1, <2>2
  <2> QED
    BY <2>1, <2>2, <2>4, <2>5 DEF u
<1>10. ASSUME NEW i \in 1..n
       PROVE  /\ t[2 * i] = [do |-> "create_run", run |-> RunsOf[b][i]]
              /\ t[2 * i + 1] = [do |-> "mkdir", run |-> RunsOf[b][i]]
  <2>1. /\ 2 * i \in 2..(1 + 2 * n) /\ 2 * i + 1 \in 2..(1 + 2 * n)
        /\ 2 * i \in 1..(1 + 2 * n) /\ 2 * i + 1 \in 1..(1 + 2 * n)
        /\ 2 * i - 1 \in 1..(2 * n) /\ 2 * i \in 1..(2 * n)
        /\ (2 * i + 1) - 1 = 2 * i
    BY <1>1
  <2>2. /\ (2 * i - 1) % 2 = 1 /\ ((2 * i - 1) + 1) \div 2 = i
        /\ (2 * i) % 2 # 1 /\ (2 * i + 1) \div 2 = i
    BY <1>1
  <2>3. t[2 * i] = mid[2 * i - 1] /\ t[2 * i + 1] = mid[2 * i]
    <3> HIDE DEF mid
    <3> QED
      BY <1>8, <1>9, <2>1
  <2>4. mid[2 * i - 1] = op(2 * i - 1) /\ mid[2 * i] = op(2 * i)
    <3> HIDE DEF op
    <3> QED
      BY <2>1
  <2> QED
    BY <2>2, <2>3, <2>4
<1>11. \A k \in 1..(2 * n + 2) : \/ k = 1 \/ k = 2 * n + 2
                                 \/ \E i \in 1..n : k = 2 * i \/ k = 2 * i + 1
  <2> TAKE k \in 1..(2 * n + 2)
  <2> SUFFICES ASSUME k # 1, k # 2 * n + 2
               PROVE  \E i \in 1..n : k = 2 * i \/ k = 2 * i + 1
    OBVIOUS
  <2>1. k \div 2 \in 1..n /\ (k = 2 * (k \div 2) \/ k = 2 * (k \div 2) + 1)
    BY <1>1
  <2> QED
    BY <2>1
<1>12. t[1] = one[1]
  <2> HIDE DEF one, mid
  <2>1. 1 \in 1..(1 + 2 * n)
    BY <1>1
  <2> QED
    BY <1>8, <1>9, <2>1
<1> QED
  BY <1>1, <1>2, <1>5, <1>6, <1>9, <1>10, <1>11, <1>12 DEF CreationOf

(* Programs of up to four operations.                                      *)
LEMMA Programs1 ==
    ASSUME NEW x \in Operations, x.do \notin Opening
    PROVE  Program(<<x>>)
BY DEF Program, Shape

LEMMA Programs2 ==
    ASSUME NEW x \in Operations, NEW y \in Operations, Follows(x, y), Before(x, y),
           y.do \notin Opening
    PROVE  Program(<<x, y>>)
BY DEF Program, Shape

LEMMA Programs3 ==
    ASSUME NEW t \in Seq(Operations), Len(t) = 3,
           Follows(t[1], t[2]), Follows(t[2], t[3]),
           Before(t[1], t[2]), Before(t[1], t[3]), Before(t[2], t[3]),
           t[3].do \notin Opening
    PROVE  Program(t)
<1>1. \A i \in 1..(Len(t) - 1) : Follows(t[i], t[i + 1])
  <2>1. \A i \in 1..(Len(t) - 1) : (i = 1 /\ i + 1 = 2) \/ (i = 2 /\ i + 1 = 3)
    OBVIOUS
  <2> QED
    BY <2>1
<1>2. \A i, j \in 1..Len(t) : i < j => Before(t[i], t[j])
  <2>1. \A i, j \in 1..Len(t) : i < j =>
           (i = 1 /\ j = 2) \/ (i = 1 /\ j = 3) \/ (i = 2 /\ j = 3)
    OBVIOUS
  <2> QED
    BY <2>1
<1> QED
  BY <1>1, <1>2 DEF Program, Shape

LEMMA PairsOfFour ==
    ASSUME NEW i \in 1..4, NEW j \in 1..4, i < j
    PROVE  <<i, j>> \in {<<1, 2>>, <<1, 3>>, <<1, 4>>, <<2, 3>>, <<2, 4>>, <<3, 4>>}
OBVIOUS

LEMMA Programs4 ==
    ASSUME NEW t \in Seq(Operations), Len(t) = 4,
           Follows(t[1], t[2]), Follows(t[2], t[3]), Follows(t[3], t[4]),
           Before(t[1], t[2]), Before(t[1], t[3]), Before(t[1], t[4]),
           Before(t[2], t[3]), Before(t[2], t[4]), Before(t[3], t[4]),
           t[4].do \notin Opening
    PROVE  Program(t)
<1>1. \A i \in 1..(Len(t) - 1) : Follows(t[i], t[i + 1])
  <2>1. \A i \in 1..(Len(t) - 1) :
           (i = 1 /\ i + 1 = 2) \/ (i = 2 /\ i + 1 = 3) \/ (i = 3 /\ i + 1 = 4)
    OBVIOUS
  <2> QED
    BY <2>1
<1>3. ASSUME NEW i \in 1..Len(t), NEW j \in 1..Len(t), i < j
      PROVE  Before(t[i], t[j])
  <2>1. <<i, j>> \in {<<1, 2>>, <<1, 3>>, <<1, 4>>, <<2, 3>>, <<2, 4>>, <<3, 4>>}
    <3>1. i \in 1..4 /\ j \in 1..4
      OBVIOUS
    <3> QED
      BY <1>3, <3>1, PairsOfFour
  <2> QED
    BY <2>1
<1> QED
  BY <1>1, <1>3 DEF Program, Shape

LEMMA CreationProgram ==
    ASSUME NEW b \in Batches
    PROVE  Program(Creation(b))
<1>1. PICK t : t = Creation(b)
  OBVIOUS
<1>2. PICK n : n = Len(RunsOf[b])
  OBVIOUS
<1>3. /\ n \in Nat
      /\ t \in Seq(Operations) /\ Len(t) = 2 * n + 2
      /\ t[1] = [do |-> "create_batch", batch |-> b]
      /\ t[2 * n + 2] = [do |-> "event", batch |-> b, type |-> "batch_queued",
                         run |-> NoRun]
      /\ \A i \in 1..n : /\ RunsOf[b][i] \in RunSet(b)
                         /\ t[2 * i] = [do |-> "create_run", run |-> RunsOf[b][i]]
                         /\ t[2 * i + 1] = [do |-> "mkdir", run |-> RunsOf[b][i]]
      /\ \A k \in 1..(2 * n + 2) : \/ k = 1 \/ k = 2 * n + 2
                                   \/ \E i \in 1..n : k = 2 * i \/ k = 2 * i + 1
  BY <1>1, <1>2, CreationIs DEF CreationOf
<1>4. \A i, j \in 1..n : RunsOf[b][i] = RunsOf[b][j] => i = j
  <2>1. RunsOf[b] \in Seq(Runs)
    BY RunsAssumption
  <2>2. DOMAIN RunsOf[b] = 1..n
    BY <1>2, <2>1, LenProperties
  <2> QED
    BY <2>2, RunsAssumption
<1>5. ASSUME NEW k \in 1..(Len(t) - 1)
      PROVE  Follows(t[k], t[k + 1])
  <2>1. CASE k = 1 /\ n = 0
    BY <1>3, <2>1 DEF Follows
  <2>2. CASE k = 1 /\ n > 0
    <3>1. 1 \in 1..n /\ 2 * 1 = 2
      BY <1>3, <2>2
    <3>2. t[2] = [do |-> "create_run", run |-> RunsOf[b][1]]
      BY <1>3, <3>1
    <3> QED
      BY <1>3, <2>2, <3>2 DEF Follows
  <2>3. CASE \E i \in 1..n : k = 2 * i
    <3>1. PICK i \in 1..n : k = 2 * i
      BY <2>3
    <3>2. t[k] = [do |-> "create_run", run |-> RunsOf[b][i]]
          /\ t[k + 1] = [do |-> "mkdir", run |-> RunsOf[b][i]]
      BY <1>3, <3>1
    <3> QED
      BY <3>2 DEF Follows
  <2>4. CASE \E i \in 1..n : k = 2 * i + 1
    <3>1. PICK i \in 1..n : k = 2 * i + 1
      BY <2>4
    <3>2. t[k] = [do |-> "mkdir", run |-> RunsOf[b][i]]
      BY <1>3, <3>1
    <3>3. CASE i = n
      <4>1. k + 1 = 2 * n + 2
        BY <3>1, <3>3, <1>3
      <4>2. t[k + 1] = [do |-> "event", batch |-> b, type |-> "batch_queued", run |-> NoRun]
        BY <1>3, <4>1
      <4> QED
        BY <3>2, <4>2 DEF Follows
    <3>4. CASE i # n
      <4>1. i + 1 \in 1..n /\ k + 1 = 2 * (i + 1)
        BY <3>1, <3>4, <1>3
      <4>2. t[k + 1] = [do |-> "create_run", run |-> RunsOf[b][i + 1]]
        BY <1>3, <4>1
      <4> QED
        BY <3>2, <4>2 DEF Follows
    <3> QED
      BY <3>3, <3>4
  <2>5. k \in 1..(2 * n + 2) /\ k # 2 * n + 2
    BY <1>3
  <2> QED
    <3>1. k = 1 \/ \E i \in 1..n : k = 2 * i \/ k = 2 * i + 1
      BY <1>3, <2>5
    <3>2. n = 0 \/ n > 0
      BY <1>3
    <3> HIDE <1>3
    <3> QED
      BY <2>1, <2>2, <2>3, <2>4, <3>1, <3>2
<1>6. ASSUME NEW j \in 1..Len(t), NEW k \in 1..Len(t), j < k
      PROVE  Before(t[j], t[k])
  <2>1. /\ j \in 1..(2 * n + 2) /\ k \in 1..(2 * n + 2) /\ j # 2 * n + 2 /\ k # 1
    BY <1>3, <1>6
  <2>2. CASE k = 2 * n + 2
    <3>1. t[k].do = "event"
      BY <1>3, <2>2
    <3>2. t[j].do \in {"create_batch", "create_run", "mkdir"}
      <4>1. CASE j = 1
        BY <1>3, <4>1
      <4>2. CASE j # 1
        <5>1. PICK i \in 1..n : j = 2 * i \/ j = 2 * i + 1
          BY <1>3, <2>1, <4>2
        <5>2. /\ t[2 * i] = [do |-> "create_run", run |-> RunsOf[b][i]]
              /\ t[2 * i + 1] = [do |-> "mkdir", run |-> RunsOf[b][i]]
          BY <1>3
        <5> QED
          BY <5>1, <5>2
      <4> QED
        BY <4>1, <4>2
    <3> QED
      BY <3>1, <3>2 DEF Before
  <2>3. CASE k # 2 * n + 2
    <3>1. PICK i \in 1..n : k = 2 * i \/ k = 2 * i + 1
      BY <1>3, <2>1, <2>3
    <3>2. t[k].do \in {"create_run", "mkdir"} /\ t[k].run = RunsOf[b][i]
          /\ (t[k].do = "create_run" <=> k = 2 * i)
      <4>1. /\ t[2 * i] = [do |-> "create_run", run |-> RunsOf[b][i]]
            /\ t[2 * i + 1] = [do |-> "mkdir", run |-> RunsOf[b][i]]
            /\ 2 * i # 2 * i + 1
        BY <1>3
      <4> QED
        BY <3>1, <4>1
    <3>3. CASE j = 1
      <4>1. t[j].do = "create_batch"
        BY <1>3, <3>3
      <4> QED
        BY <3>2, <4>1 DEF Before
    <3>4. CASE j # 1
      <4>1. PICK h \in 1..n : j = 2 * h \/ j = 2 * h + 1
        BY <1>3, <2>1, <3>4
      <4>2. t[j].do \in {"create_run", "mkdir"} /\ t[j].run = RunsOf[b][h]
            /\ (t[j].do = "create_run" <=> j = 2 * h)
        <5>1. /\ t[2 * h] = [do |-> "create_run", run |-> RunsOf[b][h]]
              /\ t[2 * h + 1] = [do |-> "mkdir", run |-> RunsOf[b][h]]
              /\ 2 * h # 2 * h + 1
          BY <1>3
        <5> QED
          BY <4>1, <5>1
      <4>3. t[j].do = "create_run" /\ t[k].do = "create_run" => h # i
        BY <1>6, <3>2, <4>2
      <4> QED
        BY <1>4, <3>2, <4>2, <4>3 DEF Before
    <3> QED
      BY <3>3, <3>4
  <2> QED
    BY <2>2, <2>3
<1>7. t[Len(t)].do \notin Opening
  <2>1. t[Len(t)].do = "event"
    BY <1>3
  <2> QED
    BY <2>1 DEF Opening
<1> QED
  BY <1>1, <1>3, <1>5, <1>6, <1>7 DEF Program, Shape

LEMMA FinalizationIs ==
    ASSUME NEW r \in Runs, NEW s \in Terminal, NEW c \in BOOLEAN, NEW t,
           t = Finalization(r, s, c)
    PROVE  /\ t \in Seq(Operations) /\ Len(t) = 3
           /\ t[1] = [do |-> "finalize", run |-> r, status |-> s, captured |-> c]
           /\ t[2] = [do |-> "result", run |-> r, status |-> s, captured |-> c]
           /\ t[3] = [do |-> "commit", run |-> r, status |-> s, captured |-> c]
           /\ Program(t)
<1> DEFINE op(i) == [do |-> <<"finalize", "result", "commit">>[i], run |-> r,
                     status |-> s, captured |-> c]
<1>1. t = [i \in 1..3 |-> op(i)]
  BY DEF Finalization
<1>2. /\ op(1) = [do |-> "finalize", run |-> r, status |-> s, captured |-> c]
      /\ op(2) = [do |-> "result", run |-> r, status |-> s, captured |-> c]
      /\ op(3) = [do |-> "commit", run |-> r, status |-> s, captured |-> c]
  OBVIOUS
<1>3. op(1) \in Operations /\ op(2) \in Operations /\ op(3) \in Operations
  BY <1>2, OperationMade
<1>4. t \in Seq(Operations) /\ Len(t) = 3 /\ t[1] = op(1) /\ t[2] = op(2) /\ t[3] = op(3)
  <2> HIDE DEF op
  <2>1. \A i \in 1..3 : op(i) \in Operations
    <3>1. \A i \in 1..3 : i = 1 \/ i = 2 \/ i = 3
      OBVIOUS
    <3> QED
      BY <1>3, <3>1
  <2> QED
    BY <1>1, <2>1
<1>5. Follows(t[1], t[2]) /\ Follows(t[2], t[3])
  <2> HIDE DEF op
  <2> QED
    BY <1>2, <1>4 DEF Follows
<1>6. Before(t[1], t[2]) /\ Before(t[1], t[3]) /\ Before(t[2], t[3])
  <2> HIDE DEF op
  <2> QED
    BY <1>2, <1>4 DEF Before
<1> QED
  BY <1>2, <1>4, <1>5, <1>6, Programs3 DEF Opening

(* The program of an execute that is over, and of the announcement after it. *)
Ending(t, r, s, c) ==
    /\ t \in Seq(Operations) /\ Len(t) = 4
    /\ t[1] = [do |-> "finalize", run |-> r, status |-> s, captured |-> c]
    /\ t[2] = [do |-> "result", run |-> r, status |-> s, captured |-> c]
    /\ t[3] = [do |-> "commit", run |-> r, status |-> s, captured |-> c]
    /\ t[4] = [do |-> "event", batch |-> BatchOf(r), type |-> "run_finished", run |-> r]
    /\ Program(t)

LEMMA EndingIs ==
    ASSUME NEW r \in Runs, NEW s \in Terminal, NEW c \in BOOLEAN, NEW t,
           t = Finalization(r, s, c)
                 \o <<[do |-> "event", batch |-> BatchOf(r),
                       type |-> "run_finished", run |-> r]>>
    PROVE  Ending(t, r, s, c)
<1>1. PICK f : f = Finalization(r, s, c)
  OBVIOUS
<1>2. /\ f \in Seq(Operations) /\ Len(f) = 3
      /\ f[1] = [do |-> "finalize", run |-> r, status |-> s, captured |-> c]
      /\ f[2] = [do |-> "result", run |-> r, status |-> s, captured |-> c]
      /\ f[3] = [do |-> "commit", run |-> r, status |-> s, captured |-> c]
      /\ Program(f)
  BY <1>1, FinalizationIs
<1>3. PICK o \in Operations : o = [do |-> "event", batch |-> BatchOf(r),
                                   type |-> "run_finished", run |-> r]
  BY OperationMade, BatchOfRun DEF EventTypes
<1>4. <<o>> \in Seq(Operations) /\ Len(<<o>>) = 1 /\ <<o>>[1] = o
  OBVIOUS
<1>5. /\ f \o <<o>> \in Seq(Operations) /\ Len(f \o <<o>>) = Len(f) + Len(<<o>>)
      /\ \A i \in 1..(Len(f) + Len(<<o>>)) : (f \o <<o>>)[i] =
            IF i <= Len(f) THEN f[i] ELSE <<o>>[i - Len(f)]
  BY <1>2, <1>4, ConcatProperties
<1>6. t = f \o <<o>>
  BY <1>1, <1>3
<1>7. /\ t \in Seq(Operations) /\ Len(t) = 4
      /\ \A i \in 1..4 : t[i] = IF i <= 3 THEN f[i] ELSE <<o>>[i - 3]
  <2>1. Len(f) + Len(<<o>>) = 4 /\ Len(f) = 3
    BY <1>2, <1>4
  <2> QED
    BY <1>5, <1>6, <2>1
<1>8. t[1] = f[1] /\ t[2] = f[2] /\ t[3] = f[3] /\ t[4] = o
  BY <1>4, <1>7
<1>9. Follows(t[1], t[2]) /\ Follows(t[2], t[3]) /\ Follows(t[3], t[4])
  BY <1>2, <1>3, <1>8 DEF Follows
<1>10. /\ Before(t[1], t[2]) /\ Before(t[1], t[3]) /\ Before(t[1], t[4])
       /\ Before(t[2], t[3]) /\ Before(t[2], t[4]) /\ Before(t[3], t[4])
  BY <1>2, <1>3, <1>8 DEF Before
<1>11. t[4].do \notin Opening
  <2>1. o.do = "event"
    BY <1>3
  <2>2. "event" \notin Opening
    BY DEF Opening
  <2> QED
    BY <1>8, <2>1, <2>2
<1>12. Program(t)
  BY <1>7, <1>9, <1>10, <1>11, Programs4
<1> QED
  BY <1>2, <1>3, <1>7, <1>8, <1>12 DEF Ending

(***************************************************************************)
(* Types.                                                                  *)
(***************************************************************************)

Rows == [status : RunStatus, captured : BOOLEAN]

LEMMA RowType ==
    ASSUME StoreTypeOK, NEW r \in Runs
    PROVE  row[r].status \in RunStatus /\ row[r].captured \in BOOLEAN
<1>1. row[r] \in Rows
  BY DEF StoreTypeOK, Rows
<1> QED
  BY <1>1, Zenon DEF Rows

LEMMA RowsMade ==
    \A s \in RunStatus, c \in BOOLEAN : [status |-> s, captured |-> c] \in Rows
BY Zenon DEF Rows

(* The row of r takes the status s.                                        *)
LEMMA RowChange ==
    ASSUME StoreTypeOK, NEW r \in Runs, NEW s \in RunStatus,
           row' = [row EXCEPT ![r].status = s]
    PROVE  /\ row' \in [Runs -> Rows]
           /\ row'[r].status = s /\ row'[r].captured = row[r].captured
           /\ \A q \in Runs : q # r => row'[q] = row[q]
<1>1. row \in [Runs -> Rows]
  BY DEF StoreTypeOK, Rows
<1>2. row[r].status \in RunStatus /\ row[r].captured \in BOOLEAN
  BY RowType
<1>3. DOMAIN row[r] = {"status", "captured"} /\ row[r] = [status |-> row[r].status,
                                                          captured |-> row[r].captured]
  <2>1. row[r] \in Rows
    BY <1>1
  <2> QED
    BY <2>1 DEF Rows
<1>4. [row[r] EXCEPT !.status = s] = [status |-> s, captured |-> row[r].captured]
  BY <1>3
<1>5. row' = [row EXCEPT ![r] = [row[r] EXCEPT !.status = s]]
  OBVIOUS
<1>6. [row[r] EXCEPT !.status = s] \in Rows
  BY <1>2, <1>4, RowsMade
<1> QED
  BY <1>1, <1>4, <1>5, <1>6

(* The row of r is replaced.                                               *)
LEMMA RowReplaced ==
    ASSUME StoreTypeOK, NEW r \in Runs, NEW s \in RunStatus, NEW c \in BOOLEAN,
           row' = [row EXCEPT ![r] = [status |-> s, captured |-> c]]
    PROVE  /\ row' \in [Runs -> Rows]
           /\ row'[r].status = s /\ row'[r].captured = c
           /\ \A q \in Runs : q # r => row'[q] = row[q]
<1>1. row \in [Runs -> Rows]
  BY DEF StoreTypeOK, Rows
<1>2. PICK w \in Rows : w = [status |-> s, captured |-> c]
  BY RowsMade
<1>3. row' = [row EXCEPT ![r] = w]
  BY <1>2
<1>4. w.status = s /\ w.captured = c
  BY <1>2
<1>5. row' \in [Runs -> Rows] /\ row'[r] = w /\ \A q \in Runs : q # r => row'[q] = row[q]
  BY <1>1, <1>3
<1> QED
  BY <1>4, <1>5

LEMMA StatusNames ==
    /\ Active \subseteq RunStatus /\ Terminal \subseteq RunStatus
    /\ "none" \in RunStatus /\ "gone" \in RunStatus
    /\ "queued" \in Active /\ "running" \in Active /\ "interrupted" \in Terminal
    /\ Active \cap Terminal = {} /\ "none" \notin Active \cup Terminal
    /\ "gone" \notin Active \cup Terminal
    /\ {"completed", "failed", "cancelled"} \subseteq Terminal
BY DEF RunStatus, Active, Terminal

LEMMA RowsAsTyped == Rows = [status : RunStatus, captured : BOOLEAN]
BY DEF Rows

LEMMA InitTypes == Init => TypeOK
<1> SUFFICES ASSUME Init
             PROVE  TypeOK
  OBVIOUS
<1>1. row \in [Runs -> Rows]
  <2>1. [status |-> "none", captured |-> FALSE] \in Rows
    BY RowsMade, StatusNames
  <2> QED
    BY <2>1 DEF Init, StoreInit
<1>2. StoreTypeOK
  BY <1>1, RowsAsTyped DEF Init, StoreInit, StoreTypeOK, BatchStatus, BatchActive
<1>3. todo \in [Procs -> Seq(Operations)]
  BY EmptySeq DEF Init
<1> QED
  BY <1>2, <1>3, BoundsAssumption DEF Init, TypeOK, TaskStates, WorkerStates

(* Process p does the operation o of the store.                            *)
Performed(p, o) ==
    \/ o.do = "create_batch" /\ CreateBatch(o.batch)
    \/ o.do = "create_run" /\ CreateRun(o.run)
    \/ o.do = "mkdir" /\ MakeDirectory(o.run)
    \/ o.do = "status" /\ UpdateBatchStatus(o.batch, o.status)
    \/ o.do = "event" /\ AppendEvent(o.batch, o.type, o.run)
    \/ o.do = "progress" /\ UpdateRunProgress(o.run)
    \/ o.do = "finalize" /\ FinalizeStarts(o.run, o.captured)
    \/ o.do = "result" /\ FinalizeWrites(p, o.run, o.status)
    \/ o.do = "commit" /\ FinalizeCommits(p, o.run, o.status, o.captured)
    \/ o.do = "rename" /\ RenameDirectory(o.run)
    \/ o.do = "delete_rows" /\ DeleteRows(o.run)
    \/ o.do = "rmtree" /\ RemoveDirectory(o.run)
    \/ o.do = "mark" /\ MarkWrites(p, o.runs)
    \/ o.do = "marked" /\ MarkCommits(p, o.runs)

(* What the operations of the store do to its types.                       *)
LEMMA StoreOperationTypes ==
    ASSUME StoreTypeOK, NEW p \in Procs, NEW o \in Operations,
           Performed(p, o)
    PROVE  StoreTypeOK'
<1> USE DEF StoreTypeOK, rows, files
<1>1. CASE o.do = "create_batch" /\ CreateBatch(o.batch)
  BY <1>1, OperationFields DEF CreateBatch, BatchStatus, BatchActive
<1>2. CASE o.do = "create_run" /\ CreateRun(o.run)
  <2>1. o.run \in Runs
    BY <1>2, OperationFields
  <2>2. row' \in [Runs -> Rows]
    BY <1>2, <2>1, RowChange, StatusNames DEF CreateRun
  <2> QED
    BY <1>2, <2>2, RowsAsTyped DEF CreateRun
<1>3. CASE o.do = "mkdir" /\ MakeDirectory(o.run)
  BY <1>3, OperationFields DEF MakeDirectory
<1>4. CASE o.do = "status" /\ UpdateBatchStatus(o.batch, o.status)
  BY <1>4, OperationFields DEF UpdateBatchStatus
<1>5. CASE o.do = "event" /\ AppendEvent(o.batch, o.type, o.run)
  <2>1. o.batch \in Batches /\ o.type \in EventTypes /\ o.run \in Runs \cup {NoRun}
    BY <1>5, OperationFields
  <2>2. PICK e \in Events : e = Event(o.batch, o.type, o.run)
    BY <2>1 DEF Event, Events
  <2>3. log' = [log EXCEPT ![e] = log[e] + 1]
    BY <1>5, <2>2 DEF AppendEvent
  <2>4. log' \in [Events -> Nat]
    BY <2>2, <2>3
  <2> QED
    BY <1>5, <2>4 DEF AppendEvent
<1>6. CASE o.do = "progress" /\ UpdateRunProgress(o.run)
  <2>1. o.run \in Runs
    BY <1>6, OperationFields
  <2>2. row' \in [Runs -> Rows]
    BY <1>6, <2>1, RowChange, StatusNames DEF UpdateRunProgress
  <2> QED
    BY <1>6, <2>2, RowsAsTyped DEF UpdateRunProgress
<1>7. CASE o.do = "finalize" /\ FinalizeStarts(o.run, o.captured)
  <2>1. o.run \in Runs /\ o.captured \in BOOLEAN
    BY <1>7, OperationFields
  <2>2. diff' = [diff EXCEPT ![o.run] = diff[o.run] \/ o.captured]
    BY <1>7 DEF FinalizeStarts
  <2>3. (diff[o.run] \/ o.captured) \in BOOLEAN
    OBVIOUS
  <2>4. diff' \in [Runs -> BOOLEAN]
    BY <2>1, <2>2, <2>3, Zenon
  <2> QED
    BY <1>7, <2>4 DEF FinalizeStarts
<1>8. CASE o.do = "result" /\ FinalizeWrites(p, o.run, o.status)
  BY <1>8, OperationFields DEF FinalizeWrites
<1>9. CASE o.do = "commit" /\ FinalizeCommits(p, o.run, o.status, o.captured)
  <2>1. o.run \in Runs /\ o.captured \in BOOLEAN /\ o.status \in RunStatus
    BY <1>9, OperationFields, StatusNames
  <2>2. row' = [row EXCEPT ![o.run] = [status |-> o.status, captured |-> o.captured]]
           => row' \in [Runs -> Rows]
    BY <2>1, RowReplaced
  <2> QED
    BY <1>9, <2>2, RowsAsTyped DEF FinalizeCommits
<1>10. CASE o.do = "rename" /\ RenameDirectory(o.run)
  BY <1>10, OperationFields DEF RenameDirectory
<1>11. CASE o.do = "delete_rows" /\ DeleteRows(o.run)
  <2>1. o.run \in Runs /\ BatchOf(o.run) \in Batches
    BY <1>11, OperationFields, BatchOfRun
  <2>2. row' \in [Runs -> Rows]
    BY <1>11, <2>1, RowReplaced, StatusNames DEF DeleteRows
  <2>3. batch' \in [Batches -> BatchStatus]
    BY <1>11, <2>1 DEF DeleteRows, BatchStatus
  <2>4. log' \in [Events -> Nat]
    BY <1>11 DEF DeleteRows, EventsLeft
  <2> QED
    BY <1>11, <2>2, <2>3, <2>4, RowsAsTyped DEF DeleteRows
<1>12. CASE o.do = "rmtree" /\ RemoveDirectory(o.run)
  BY <1>12, OperationFields DEF RemoveDirectory
<1>13. CASE o.do = "mark" /\ MarkWrites(p, o.runs)
  BY <1>13, OperationFields, StatusNames DEF MarkWrites, MarkedOnDisk
<1>14. CASE o.do = "marked" /\ MarkCommits(p, o.runs)
  <2>1. row' \in [Runs -> Rows]
    BY <1>14, RowsMade, StatusNames, RowsAsTyped DEF MarkCommits
  <2>2. batch' \in [Batches -> BatchStatus]
    BY <1>14 DEF MarkCommits, BatchStatus, BatchTerminal
  <2> QED
    BY <1>14, <2>1, <2>2, RowsAsTyped DEF MarkCommits
<1> QED
  BY <1>1, <1>2, <1>3, <1>4, <1>5, <1>6, <1>7, <1>8, <1>9, <1>10, <1>11, <1>12, <1>13,
     <1>14 DEF Performed

(* Each process has a program that is well formed, and none when it is down. *)
TodoOK == /\ todo \in [Procs -> Seq(Operations)]
          /\ \A p \in Procs : Program(todo[p]) /\ (p \notin up => todo[p] = <<>>)

(* A process does its next operation of the store, and nothing else.       *)
StoreStep(p) == Busy(p) /\ Performed(p, Op(p)) /\ Done(p)

LEMMA StoreSteps ==
    \A p : StoreStep(p) <=> CreateStep(p) \/ ProgressStep(p) \/ FinalizeStep(p)
                            \/ DeleteStep(p) \/ MarkStep(p)
BY DEF StoreStep, Performed, CreateStep, ProgressStep, FinalizeStep, DeleteStep, MarkStep

LEMMA Loaded ==
    ASSUME TodoOK, NEW p \in Procs, NEW t, Program(t), Do(p, t)
    PROVE  /\ todo' \in [Procs -> Seq(Operations)]
           /\ todo'[p] = t
           /\ \A q \in Procs : q # p => todo'[q] = todo[q]
           /\ \A q \in Procs : Program(todo'[q])
<1>1. t \in Seq(Operations)
  BY DEF Program
<1>2. todo' = [todo EXCEPT ![p] = t]
  BY DEF Do
<1> QED
  BY <1>1, <1>2 DEF TodoOK

LEMMA LoadedUp ==
    ASSUME TodoOK, NEW p \in Procs, NEW t, Program(t), Do(p, t), up \subseteq up', p \in up'
    PROVE  TodoOK'
<1>1. /\ todo' \in [Procs -> Seq(Operations)]
      /\ \A q \in Procs : q # p => todo'[q] = todo[q]
      /\ \A q \in Procs : Program(todo'[q])
  BY Loaded
<1> QED
  BY <1>1 DEF TodoOK

LEMMA UnloadedTodo ==
    ASSUME TodoOK, NEW p \in Procs, Do(p, <<>>), \A q \in Procs \ {p} : q \in up => q \in up'
    PROVE  TodoOK'
<1>1. /\ todo' \in [Procs -> Seq(Operations)]
      /\ todo'[p] = <<>>
      /\ \A q \in Procs : q # p => todo'[q] = todo[q]
      /\ \A q \in Procs : Program(todo'[q])
  BY Loaded, EmptyProgram
<1> QED
  BY <1>1 DEF TodoOK

LEMMA KeptTodo ==
    ASSUME TodoOK, UNCHANGED todo, up \subseteq up'
    PROVE  TodoOK'
BY DEF TodoOK

LEMMA TailProgram ==
    ASSUME TodoOK, NEW p \in Procs, todo[p] # <<>>
    PROVE  Program(Tail(todo[p])) /\ Op(p) \in Operations
BY TailOfProgram DEF TodoOK, Op

(* The programs the handlers start with.                                   *)
LEMMA StatusPrograms ==
    ASSUME NEW b \in Batches, NEW s \in BatchStatus, NEW e \in EventTypes, e # "run_finished"
    PROVE  /\ Program(<<[do |-> "status", batch |-> b, status |-> s],
                        [do |-> "event", batch |-> b, type |-> e, run |-> NoRun]>>)
           /\ Program(<<[do |-> "status", batch |-> b, status |-> s],
                        [do |-> "event", batch |-> b, type |-> e, run |-> NoRun],
                        [do |-> "gather", batch |-> b]>>)
<1>1. PICK x \in Operations : x = [do |-> "status", batch |-> b, status |-> s]
  BY OperationMade
<1>2. PICK y \in Operations : y = [do |-> "event", batch |-> b, type |-> e, run |-> NoRun]
  BY OperationMade
<1>3. PICK z \in Operations : z = [do |-> "gather", batch |-> b]
  BY OperationMade
<1>4. /\ Follows(x, y) /\ Follows(y, z) /\ Before(x, y) /\ Before(x, z) /\ Before(y, z)
      /\ y.do \notin Opening /\ z.do \notin Opening
  BY <1>1, <1>2, <1>3 DEF Follows, Before, Opening
<1>5. Program(<<x, y>>)
  BY <1>4, Programs2
<1>6. Program(<<x, y, z>>)
  <2>1. PICK t : t = <<x, y, z>>
    OBVIOUS
  <2>2. t \in Seq(Operations) /\ Len(t) = 3 /\ t[1] = x /\ t[2] = y /\ t[3] = z
    BY <2>1
  <2> QED
    BY <1>4, <2>1, <2>2, Programs3
<1> QED
  BY <1>1, <1>2, <1>3, <1>5, <1>6

LEMMA RunPrograms ==
    ASSUME NEW r \in Runs
    PROVE  /\ Program(<<[do |-> "progress", run |-> r],
                        [do |-> "event", batch |-> BatchOf(r), type |-> "run_started",
                         run |-> r]>>)
           /\ Program(<<[do |-> "rename", run |-> r], [do |-> "delete_rows", run |-> r],
                        [do |-> "rmtree", run |-> r]>>)
<1>1. PICK x \in Operations : x = [do |-> "progress", run |-> r]
  BY OperationMade
<1>2. PICK y \in Operations : y = [do |-> "event", batch |-> BatchOf(r),
                                   type |-> "run_started", run |-> r]
  BY OperationMade, BatchOfRun DEF EventTypes
<1>3. Follows(x, y) /\ Before(x, y) /\ y.do \notin Opening
  BY <1>1, <1>2 DEF Follows, Before, Opening
<1>4. Program(<<x, y>>)
  BY <1>3, Programs2
<1>5. PICK u \in Operations : u = [do |-> "rename", run |-> r]
  BY OperationMade
<1>6. PICK v \in Operations : v = [do |-> "delete_rows", run |-> r]
  BY OperationMade
<1>7. PICK w \in Operations : w = [do |-> "rmtree", run |-> r]
  BY OperationMade
<1>8. /\ Follows(u, v) /\ Follows(v, w) /\ Before(u, v) /\ Before(u, w) /\ Before(v, w)
      /\ w.do \notin Opening
  BY <1>5, <1>6, <1>7 DEF Follows, Before, Opening
<1>9. Program(<<u, v, w>>)
  <2>1. PICK t : t = <<u, v, w>>
    OBVIOUS
  <2>2. t \in Seq(Operations) /\ Len(t) = 3 /\ t[1] = u /\ t[2] = v /\ t[3] = w
    BY <2>1
  <2> QED
    BY <1>8, <2>1, <2>2, Programs3
<1> QED
  BY <1>1, <1>2, <1>4, <1>5, <1>6, <1>7, <1>9

LEMMA MarkPrograms ==
    ASSUME NEW S \in SUBSET Runs
    PROVE  /\ Program(<<[do |-> "active"]>>)
           /\ Program(<<[do |-> "mark", runs |-> S], [do |-> "marked", runs |-> S]>>)
<1>1. PICK x \in Operations : x = [do |-> "active"]
  BY OperationMade
<1>2. PICK y \in Operations : y = [do |-> "mark", runs |-> S]
  BY OperationMade
<1>3. PICK z \in Operations : z = [do |-> "marked", runs |-> S]
  BY OperationMade
<1>4. Follows(y, z) /\ Before(y, z) /\ z.do \notin Opening /\ x.do \notin Opening
  BY <1>1, <1>2, <1>3 DEF Follows, Before, Opening
<1> QED
  BY <1>1, <1>2, <1>3, <1>4, Programs1, Programs2

(* What an operation that raises, or a process that stops, leaves in memory. *)
LEMMA ForgottenTypes ==
    ASSUME TypeOK, TodoOK, NEW p \in Procs, Forgotten(p)
    PROVE  /\ TodoOK' /\ up' \subseteq Procs
           /\ owner' \in [Batches -> Procs \cup {Nobody}]
           /\ cancelled' \in [Procs -> SUBSET Batches]
           /\ task' \in [Batches -> TaskStates]
           /\ worker' \in [Runs -> WorkerStates]
<1>1. TodoOK'
  BY UnloadedTodo DEF Forgotten, Do
<1> QED
  BY <1>1 DEF TypeOK, Forgotten, TaskStates, WorkerStates

LEMMA RaisedTypes ==
    ASSUME TypeOK, TodoOK, NEW r \in Runs, ExecuteRaises(r)
    PROVE  /\ TodoOK' /\ up' \subseteq Procs
           /\ owner' \in [Batches -> Procs \cup {Nobody}]
           /\ cancelled' \in [Procs -> SUBSET Batches]
           /\ task' \in [Batches -> TaskStates]
           /\ worker' \in [Runs -> WorkerStates]
<1>1. BatchOf(r) \in Batches /\ Owner(r) \in Procs \cup {Nobody}
  BY BatchOfRun DEF TypeOK, Owner
<1>2. TodoOK'
  <2>1. CASE Owner(r) \in Procs
    BY <2>1, UnloadedTodo DEF ExecuteRaises
  <2>2. CASE Owner(r) \notin Procs
    <3>1. todo' = todo
      BY <2>2 DEF ExecuteRaises, Do, TodoOK
    <3> QED
      BY <3>1, KeptTodo DEF ExecuteRaises
  <2> QED
    BY <2>1, <2>2
<1> QED
  BY <1>1, <1>2 DEF TypeOK, ExecuteRaises, TaskStates, WorkerStates

Typed == TypeOK /\ TodoOK

LEMMA StoreKept == StoreTypeOK /\ UNCHANGED store => StoreTypeOK'
BY DEF StoreTypeOK, store, rows, files

LEMMA MemoryTyped ==
    ASSUME Typed, StoreTypeOK', TodoOK', UNCHANGED <<crashes, faults>>,
           up' \subseteq Procs, cancelled' \in [Procs -> SUBSET Batches],
           owner' \in [Batches -> Procs \cup {Nobody}],
           task' \in [Batches -> TaskStates], worker' \in [Runs -> WorkerStates]
    PROVE  Typed'
BY DEF Typed, TypeOK, TodoOK

LEMMA StoreStepTyped ==
    ASSUME Typed, NEW p \in Procs, StoreStep(p)
    PROVE  Typed'
<1>1. /\ p \in up /\ todo[p] # <<>> /\ Performed(p, Op(p)) /\ Do(p, Tail(todo[p]))
      /\ UNCHANGED <<up, owner, cancelled, task, worker, crashes, faults>>
  BY DEF StoreStep, Busy, Done
<1>2. Op(p) \in Operations /\ Program(Tail(todo[p]))
  BY <1>1, TailProgram DEF Typed
<1>3. StoreTypeOK'
  BY <1>1, <1>2, StoreOperationTypes DEF Typed, TypeOK
<1>4. TodoOK'
  BY <1>1, <1>2, LoadedUp DEF Typed
<1> QED
  BY <1>1, <1>3, <1>4 DEF Typed, TypeOK, TodoOK

LEMMA StepTyped ==
    ASSUME Typed, NEW p \in Procs, Step(p)
    PROVE  Typed'
<1>1. CASE StoreStep(p)
  BY <1>1, StoreStepTyped
<1>2. CASE Gather(p)
  BY <1>2, UnloadedTodo, StoreKept DEF Typed, TypeOK, TodoOK, Gather, WorkerStates
<1>3. CASE ReadActive(p)
  <2>1. ActiveRows \in SUBSET Runs
    BY DEF ActiveRows
  <2>2. TodoOK'
    BY <1>3, <2>1, MarkPrograms, LoadedUp DEF ReadActive, Busy, Typed
  <2> QED
    BY <1>3, <2>2, StoreKept DEF Typed, TypeOK, TodoOK, ReadActive
<1>4. CASE StartFails(p)
  <2>1. /\ Forgotten(p) /\ MarkRaises(Op(p).runs) /\ UNCHANGED <<crashes, faults>>
        /\ todo[p] # <<>> /\ Op(p).do = "mark"
    BY <1>4 DEF StartFails, Busy
  <2>2. Op(p).runs \subseteq Runs
    BY <2>1, TailProgram, OperationFields DEF Typed
  <2>3. StoreTypeOK'
    BY <2>1, <2>2, StatusNames
    DEF Typed, TypeOK, StoreTypeOK, MarkRaises, MarkedOnDisk, rows
  <2> QED
    BY <2>1, <2>3, ForgottenTypes, MemoryTyped DEF Typed
<1>5. CASE Refused(p)
  <2>1. /\ ExecuteRaises(Op(p).run) /\ UNCHANGED <<store, crashes, faults>>
        /\ todo[p] # <<>> /\ Op(p).do \in {"progress", "finalize", "result"}
    BY <1>5 DEF Refused, Busy
  <2>2. Op(p).run \in Runs
    BY <2>1, TailProgram, OperationFields DEF Typed
  <2> QED
    BY <2>1, <2>2, RaisedTypes, StoreKept, MemoryTyped DEF Typed, TypeOK
<1> QED
  BY <1>1, <1>2, <1>3, <1>4, <1>5, StoreSteps DEF Step

LEMMA RequestTyped ==
    ASSUME Typed, Request
    PROVE  Typed'
<1>1. ASSUME NEW p \in Procs, NEW b \in Batches, Create(p, b)
      PROVE  Typed'
  <2>1. TodoOK'
    BY <1>1, CreationProgram, LoadedUp DEF Create, Idle, Typed
  <2> QED
    BY <1>1, <2>1, StoreKept DEF Typed, TypeOK, TodoOK, Create, TaskStates
<1>2. ASSUME NEW b \in Batches, Cancel(b)
      PROVE  Typed'
  <2>1. TodoOK'
    BY <1>2, ProcNames, StatusPrograms, LoadedUp
    DEF Cancel, MayCancel, Idle, Typed, EventTypes, BatchStatus, BatchActive
  <2> QED
    BY <1>2, <2>1, StoreKept DEF Typed, TypeOK, TodoOK, Cancel
<1>3. ASSUME NEW r \in Runs, DeleteRun(r)
      PROVE  Typed'
  <2>1. TodoOK'
    BY <1>3, ProcNames, RunPrograms, LoadedUp DEF DeleteRun, Idle, Typed
  <2> QED
    BY <1>3, <2>1, StoreKept DEF Typed, TypeOK, TodoOK, DeleteRun
<1>4. ASSUME NEW r \in Runs, DeleteCandidateDiff(r)
      PROVE  Typed'
  <2>1. StoreTypeOK'
    BY <1>4 DEF DeleteCandidateDiff, DeleteCandidateArtifact, Typed, TypeOK, StoreTypeOK, rows
  <2>2. UNCHANGED <<memory, crashes, faults>>
    BY <1>4 DEF DeleteCandidateDiff
  <2>3. TodoOK'
    BY <2>2, KeptTodo DEF memory, Typed
  <2> QED
    BY <2>1, <2>2, <2>3 DEF memory, Typed, TypeOK, TodoOK
<1> QED
  BY <1>1, <1>2, <1>3, <1>4 DEF Request

LEMMA FailureTyped ==
    ASSUME Typed, Failure
    PROVE  Typed'
<1>1. Fault => faults' \in 0..MaxFaults
  BY BoundsAssumption DEF Fault, Typed, TypeOK
<1>2. ASSUME NEW r \in Runs, EpisodeRaises(r)
      PROVE  Typed'
  BY <1>1, <1>2, RaisedTypes, StoreKept DEF EpisodeRaises, Typed, TypeOK, TodoOK
<1>3. ASSUME NEW p \in Procs, MkdirFails(p)
      PROVE  Typed'
  <2>1. /\ faults' \in 0..MaxFaults /\ UNCHANGED <<store, crashes>>
        /\ todo[p] # <<>> /\ Op(p).do = "mkdir"
    BY <1>1, <1>3 DEF MkdirFails, Busy
  <2>2. StoreTypeOK'
    BY <2>1, StoreKept DEF Typed, TypeOK
  <2>3. CASE Forgotten(p)
    BY <2>1, <2>2, <2>3, ForgottenTypes DEF Typed, TypeOK, TodoOK
  <2>4. CASE ~Forgotten(p)
    <3>1. /\ Do(p, <<>>) /\ UNCHANGED <<up, owner, cancelled, worker>>
          /\ task' = [task EXCEPT ![BatchOf(Op(p).run)] = "none"]
      BY <1>3, <2>4 DEF MkdirFails
    <3>2. TodoOK'
      BY <3>1, UnloadedTodo DEF Typed
    <3> QED
      BY <2>1, <2>2, <3>1, <3>2 DEF Typed, TypeOK, TodoOK, TaskStates
  <2> QED
    BY <2>3, <2>4
<1>4. ASSUME NEW p \in Procs, ResultFails(p)
      PROVE  Typed'
  <2>1. /\ faults' \in 0..MaxFaults /\ UNCHANGED <<rows, dir, diff, lock, crashes>>
        /\ todo[p] # <<>> /\ Op(p).do = "result" /\ ExecuteRaises(Op(p).run)
        /\ \E left \in {"none", "partial"} : result' = [result EXCEPT ![Op(p).run] = left]
    BY <1>1, <1>4 DEF ResultFails, Busy
  <2>2. Op(p).run \in Runs
    BY <2>1, TailProgram, OperationFields DEF Typed
  <2>3. StoreTypeOK'
    BY <2>1, <2>2 DEF Typed, TypeOK, StoreTypeOK, rows
  <2> QED
    BY <2>1, <2>2, <2>3, RaisedTypes DEF Typed, TypeOK, TodoOK
<1>5. ASSUME NEW p \in Procs, DeleteFails(p)
      PROVE  Typed'
  <2>1. /\ faults' \in 0..MaxFaults /\ Do(p, <<>>)
        /\ UNCHANGED <<rows, result, diff, lock, up, owner, cancelled, task, worker, crashes>>
        /\ todo[p] # <<>> /\ Op(p).do \in {"delete_rows", "rmtree"}
        /\ \/ dir' = [dir EXCEPT ![Op(p).run] = IF dir[Op(p).run] = "renamed"
                                                THEN "present" ELSE dir[Op(p).run]]
           \/ dir' = dir
    BY <1>1, <1>5 DEF DeleteFails, Busy
  <2>2. Op(p).run \in Runs
    BY <2>1, TailProgram, OperationFields DEF Typed
  <2>3. StoreTypeOK'
    BY <2>1, <2>2 DEF Typed, TypeOK, StoreTypeOK, rows
  <2>4. TodoOK'
    BY <2>1, UnloadedTodo DEF Typed
  <2> QED
    BY <2>1, <2>3, <2>4 DEF Typed, TypeOK, TodoOK
<1>6. ASSUME NEW p \in Procs, Crash(p)
      PROVE  Typed'
  <2>1. /\ crashes' \in 0..MaxCrashes /\ UNCHANGED <<rows, files, faults>>
        /\ lock' \in {lock, Free} /\ Forgotten(p)
    BY <1>6, BoundsAssumption DEF Crash, Typed, TypeOK
  <2>2. StoreTypeOK'
    BY <2>1 DEF Typed, TypeOK, StoreTypeOK, rows, files
  <2> QED
    BY <2>1, <2>2, ForgottenTypes DEF Typed, TypeOK, TodoOK
<1> QED
  BY <1>2, <1>3, <1>4, <1>5, <1>6 DEF Failure

LEMMA ProgressTyped ==
    ASSUME Typed, Progress
    PROVE  Typed'
<1> USE DEF Idle
<1>1. CASE StartApi
  <2>1. TodoOK'
    BY <1>1, ProcNames, MarkPrograms, LoadedUp DEF StartApi, Typed
  <2> QED
    BY <1>1, <2>1, ProcNames, StoreKept DEF StartApi, Typed, TypeOK, TodoOK
<1>2. CASE CliExits
  <2>1. Cli \in Procs
    BY <1>2 DEF CliExits, Typed, TypeOK
  <2> QED
    BY <1>2, <2>1, ForgottenTypes, StoreKept DEF CliExits, Typed, TypeOK, TodoOK
<1>3. ASSUME NEW p \in Procs, Step(p)
      PROVE  Typed'
  BY <1>3, StepTyped
<1>4. ASSUME NEW b \in Batches, StartBatch(b)
      PROVE  Typed'
  <2>1. owner[b] \in up /\ owner[b] \in Procs
    BY <1>4 DEF StartBatch, Typed, TypeOK
  <2>2. task' \in [Batches -> TaskStates]
    BY <1>4 DEF StartBatch, TaskStates, Typed, TypeOK
  <2>3. TodoOK'
    <3>1. "running" \in BatchStatus /\ "batch_started" \in EventTypes
      BY DEF BatchStatus, BatchActive, EventTypes
    <3>2. Program(<<[do |-> "status", batch |-> b, status |-> "running"],
                    [do |-> "event", batch |-> b, type |-> "batch_started", run |-> NoRun],
                    [do |-> "gather", batch |-> b]>>)
      BY <3>1, StatusPrograms
    <3>3. CASE BatchExists(b)
      BY <1>4, <2>1, <3>2, <3>3, LoadedUp DEF StartBatch, Typed
    <3>4. CASE ~BatchExists(b)
      BY <1>4, <3>4, KeptTodo DEF StartBatch, Typed
    <3> QED
      BY <3>3, <3>4
  <2> QED
    BY <1>4, <2>2, <2>3, StoreKept DEF StartBatch, Typed, TypeOK, TodoOK
<1>5. ASSUME NEW b \in Batches, FinishBatch(b)
      PROVE  Typed'
  <2>1. owner[b] \in up /\ owner[b] \in Procs
    BY <1>5 DEF FinishBatch, Typed, TypeOK
  <2>2. task' \in [Batches -> TaskStates]
    BY <1>5 DEF FinishBatch, TaskStates, Typed, TypeOK
  <2>3. TodoOK'
    <3>1. FinalStatus(b) \in BatchStatus /\ "batch_finished" \in EventTypes
      BY DEF BatchStatus, BatchTerminal, EventTypes, FinalStatus
    <3>2. Program(<<[do |-> "status", batch |-> b, status |-> FinalStatus(b)],
                    [do |-> "event", batch |-> b, type |-> "batch_finished", run |-> NoRun]>>)
      BY <3>1, StatusPrograms
    <3>3. CASE BatchExists(b)
      BY <1>5, <2>1, <3>2, <3>3, LoadedUp DEF FinishBatch, Typed
    <3>4. CASE ~BatchExists(b)
      BY <1>5, <3>4, KeptTodo DEF FinishBatch, Typed
    <3> QED
      BY <3>3, <3>4
  <2> QED
    BY <1>5, <2>2, <2>3, StoreKept DEF FinishBatch, Typed, TypeOK, TodoOK
<1>6. ASSUME NEW r \in Runs, SkipRun(r)
      PROVE  Typed'
  <2>1. Owner(r) \in up /\ Owner(r) \in Procs
    BY <1>6 DEF SkipRun, Granted, Typed, TypeOK
  <2>2. TodoOK'
    BY <1>6, <2>1, FinalizationIs, StatusNames, LoadedUp DEF SkipRun, Typed
  <2> QED
    BY <1>6, <2>2, StoreKept DEF SkipRun, Typed, TypeOK, TodoOK, WorkerStates
<1>7. ASSUME NEW r \in Runs, StartEpisode(r)
      PROVE  Typed'
  <2>1. Owner(r) \in up /\ Owner(r) \in Procs
    BY <1>7 DEF StartEpisode, Granted, Typed, TypeOK
  <2>2. TodoOK'
    BY <1>7, <2>1, RunPrograms, LoadedUp DEF StartEpisode, Typed
  <2> QED
    BY <1>7, <2>2, StoreKept DEF StartEpisode, Typed, TypeOK, TodoOK, WorkerStates
<1>8. ASSUME NEW r \in Runs, EndEpisode(r)
      PROVE  Typed'
  <2>1. Owner(r) \in up /\ Owner(r) \in Procs
    BY <1>8 DEF EndEpisode, Typed, TypeOK
  <2>2. PICK s \in Outcomes(r), c \in BOOLEAN :
          Do(Owner(r), Finalization(r, s, c)
                         \o <<[do |-> "event", batch |-> BatchOf(r),
                               type |-> "run_finished", run |-> r]>>)
    BY <1>8 DEF EndEpisode
  <2>3. s \in Terminal
    BY StatusNames DEF Outcomes
  <2>4. TodoOK'
    <3>1. PICK t : t = Finalization(r, s, c)
                         \o <<[do |-> "event", batch |-> BatchOf(r),
                               type |-> "run_finished", run |-> r]>>
      OBVIOUS
    <3>2. Program(t)
      BY <2>3, <3>1, EndingIs DEF Ending
    <3>3. Do(Owner(r), t)
      BY <2>2, <3>1
    <3> QED
      BY <1>8, <2>1, <3>2, <3>3, LoadedUp DEF EndEpisode, Typed
  <2> QED
    BY <1>8, <2>4, StoreKept DEF EndEpisode, Typed, TypeOK, TodoOK, WorkerStates
<1> QED
  BY <1>1, <1>2, <1>3, <1>4, <1>5, <1>6, <1>7, <1>8 DEF Progress

LEMMA NextTyped == Typed /\ [Next]_vars => Typed'
<1> SUFFICES ASSUME Typed, [Next]_vars
             PROVE  Typed'
  OBVIOUS
<1>1. CASE StartCli
  <2>1. TodoOK'
    BY <1>1, KeptTodo DEF StartCli, Typed
  <2> QED
    BY <1>1, <2>1, StoreKept DEF StartCli, Typed, TypeOK, TodoOK
<1>2. CASE UNCHANGED vars
  <2>1. TodoOK'
    BY <1>2, KeptTodo DEF vars, memory, Typed
  <2> QED
    BY <1>2, <2>1, StoreKept DEF vars, memory, Typed, TypeOK, TodoOK
<1> QED
  BY <1>1, <1>2, ProgressTyped, RequestTyped, FailureTyped DEF Next

(* Rows, files, events and what the processes hold in memory keep their    *)
(* values, whatever fails in between.                                      *)
THEOREM TypeCorrect == Spec => []TypeOK
<1>1. Init => Typed
  BY InitTypes, EmptyProgram DEF Typed, TodoOK, Init, TypeOK
<1>2. Typed => TypeOK
  BY DEF Typed
<1> QED
  BY <1>1, <1>2, NextTyped, PTL DEF Spec

-----------------------------------------------------------------------------
(***************************************************************************)
(* The records on disk.                                                    *)
(***************************************************************************)
(* What a run row says of the files of the run.                            *)
RowOK(r) ==
    /\ row[r].status = "none" => dir[r] = "absent" /\ result[r] = "none" /\ ~diff[r]
    /\ row[r].status = "gone" => dir[r] # "present"
    /\ row[r].status \in Terminal =>
          /\ dir[r] # "absent"
          /\ result[r] # "none"
          /\ row[r].status # "interrupted" => /\ result[r] = row[r].status
                                              /\ diff[r] => row[r].captured

(* A diff is written only when the execute of the run is over.             *)
WorkerOK(r) ==
    /\ worker[r] \in {"none", "waiting", "episode"} /\ task[BatchOf(r)] # "none" => ~diff[r]
    /\ worker[r] # "none" => task[BatchOf(r)] # "none"
    /\ task[BatchOf(r)] = "scheduled" => worker[r] = "none"

Unowned ==
    \A b \in Batches : owner[b] = Nobody =>
        task[b] = "none" /\ \A r \in RunSet(b) : row[r].status = "none"

(* What holds of every operation a process has still to do.                *)
Pending(p, o) ==
    /\ o.do = "create_run" => /\ row[o.run].status = "none"
                              /\ Owner(o.run) = p /\ task[BatchOf(o.run)] = "scheduled"
    /\ o.do = "mkdir" => Owner(o.run) = p /\ task[BatchOf(o.run)] = "scheduled"
    /\ o.do = "gather" => /\ owner[o.batch] = p /\ task[o.batch] = "gathering"
                          /\ \A r \in RunSet(o.batch) : worker[r] = "none"

(* What holds of the operation a process is about to do.                   *)
Held(p, o) ==
    LET r == o.run
        kept == diff[r] => o.captured
    IN
    /\ o.do \in {"commit", "marked"} => lock = p
    /\ o.do = "mkdir" => row[r].status \in Active /\ dir[r] = "absent"
    /\ o.do = "progress" => Owner(r) = p /\ worker[r] = "episode"
    /\ o.do = "finalize" => Owner(r) = p /\ worker[r] = "ended" /\ ~diff[r]
    /\ o.do = "result" => Owner(r) = p /\ worker[r] = "ended" /\ kept
    /\ o.do = "commit" => /\ Owner(r) = p /\ worker[r] = "ended" /\ kept
                          /\ row[r].status \in Active /\ dir[r] = "present"
                          /\ result[r] = o.status
    /\ o.do = "rename" => p = Api /\ row[r].status \in Terminal
    /\ o.do = "delete_rows" => p = Api /\ row[r].status \in Terminal /\ dir[r] = "renamed"
    /\ o.do = "rmtree" => p = Api /\ row[r].status = "gone"
    /\ o.do \in {"active", "mark"} => p = Api
    /\ o.do = "marked" =>
          p = Api /\ \A q \in o.runs : dir[q] = "present" /\ result[q] # "none"

Heads == \A p \in Procs, o \in Operations : todo[p] # <<>> /\ o = Op(p) => Held(p, o)
Pendings == \A p \in Procs, o \in Operations : o \in Ops(p) => Pending(p, o)

Disk ==
    /\ \A r \in Runs : RowOK(r)
    /\ \A r \in Runs : WorkerOK(r)
    /\ Unowned
    /\ Heads
    /\ Pendings

DiskInv == Typed /\ Disk

LEMMA HeadIsPending ==
    ASSUME Typed, NEW p \in Procs, todo[p] # <<>>
    PROVE  /\ Op(p) \in Ops(p) /\ Op(p) \in Operations
           /\ Ops(p) \subseteq Operations
<1>1. Program(todo[p])
  BY DEF Typed, TodoOK
<1>2. /\ Op(p) = todo[p][1] /\ Op(p) \in Operations /\ Len(todo[p]) \in Nat \ {0}
  BY <1>1, TailOfProgram DEF Op
<1>3. todo[p] \in Seq(Operations)
  BY <1>1 DEF Program
<1>4. \A i \in 1..Len(todo[p]) : todo[p][i] \in Operations
  BY <1>3, ElementOfSeq
<1> QED
  BY <1>2, <1>4 DEF Ops

(* After an operation of p the others have what they had to do, and p has  *)
(* what follows.                                                           *)
LEMMA Advanced ==
    ASSUME Typed, NEW p \in Procs, todo[p] # <<>>, Do(p, Tail(todo[p]))
    PROVE  /\ \A q \in Procs : q # p => todo'[q] = todo[q] /\ Op(q)' = Op(q)
                                        /\ Ops(q)' = Ops(q)
           /\ \A o \in Ops(p)' : o \in Ops(p) /\ Before(Op(p), o)
           /\ todo'[p] # <<>> => Op(p)' \in Operations /\ Follows(Op(p), Op(p)')
           /\ \A o \in Ops(p) : o = Op(p) \/ o \in Ops(p)'
           /\ Op(p).do \in Opening => todo'[p] # <<>>
<1>1. Program(todo[p])
  BY DEF Typed, TodoOK
<1>2. PICK t : t = todo[p]
  OBVIOUS
<1>3. /\ Program(Tail(t))
      /\ Head(t) = t[1]
      /\ Len(t) \in Nat \ {0} /\ Len(Tail(t)) = Len(t) - 1
      /\ \A i \in 1..Len(Tail(t)) : Tail(t)[i] = t[i + 1]
      /\ Tail(t) # <<>> => /\ Len(t) > 1
                           /\ Head(Tail(t)) = t[2]
                           /\ Follows(t[1], t[2])
      /\ \A i \in 1..Len(Tail(t)) : Before(t[1], t[i + 1])
      /\ t[1].do \in Opening => Tail(t) # <<>>
  BY <1>1, <1>2, TailOfProgram
<1>4. todo'[p] = Tail(t) /\ \A q \in Procs : q # p => todo'[q] = todo[q]
  BY <1>2, <1>3, Loaded DEF Typed
<1>5. ASSUME NEW o \in Ops(p)'
      PROVE  o \in Ops(p) /\ Before(Op(p), o)
  <2>1. PICK i \in 1..Len(Tail(t)) : o = Tail(t)[i]
    BY <1>4 DEF Ops
  <2>2. i + 1 \in 1..Len(t) /\ o = t[i + 1]
    BY <1>3, <2>1
  <2> QED
    BY <1>2, <1>3, <2>1, <2>2 DEF Ops, Op
<1>6. ASSUME todo'[p] # <<>>
      PROVE  Op(p)' \in Operations /\ Follows(Op(p), Op(p)')
  <2>1. Op(p)' = Head(Tail(t))
    BY <1>4 DEF Op
  <2>2. Head(Tail(t)) \in Operations
    BY <1>3, <1>4, <1>6, TailOfProgram
  <2>3. Op(p)' = t[2] /\ Op(p) = t[1]
    BY <1>2, <1>3, <1>4, <1>6, <2>1 DEF Op
  <2> QED
    BY <1>3, <1>4, <1>6, <2>1, <2>2, <2>3
<1>7. \A q \in Procs : q # p => Op(q)' = Op(q) /\ Ops(q)' = Ops(q)
  BY <1>4 DEF Op, Ops
<1>8. ASSUME NEW o \in Ops(p)
      PROVE  o = Op(p) \/ o \in Ops(p)'
  <2>1. PICK i \in 1..Len(t) : o = t[i]
    BY <1>2 DEF Ops
  <2>2. CASE i = 1
    BY <1>2, <1>3, <2>1, <2>2 DEF Op
  <2>3. CASE i # 1
    <3>1. i - 1 \in 1..Len(Tail(t)) /\ Tail(t)[i - 1] = o
      BY <1>3, <2>1, <2>3
    <3> QED
      BY <1>4, <3>1 DEF Ops
  <2> QED
    BY <2>2, <2>3
<1>9. Op(p).do \in Opening => todo'[p] # <<>>
  BY <1>2, <1>3, <1>4 DEF Op
<1> QED
  BY <1>4, <1>5, <1>6, <1>7, <1>8, <1>9

-----------------------------------------------------------------------------
(***************************************************************************)
(* The records on disk: operations of the store.                           *)
(***************************************************************************)
(* Process p does its next operation o and keeps the rest of its memory.   *)
Doing(p, o) ==
    /\ todo[p] # <<>> /\ o = Op(p)
    /\ Do(p, Tail(todo[p]))
    /\ UNCHANGED <<up, owner, cancelled, task, worker, crashes, faults>>

LEMMA HeadFacts ==
    ASSUME DiskInv, NEW p \in Procs, NEW o, todo[p] # <<>>, o = Op(p)
    PROVE  o \in Operations /\ o \in Ops(p) /\ Held(p, o) /\ Pending(p, o)
<1>1. o \in Ops(p) /\ o \in Operations
  BY HeadIsPending DEF DiskInv
<1> QED
  BY <1>1 DEF DiskInv, Disk, Heads, Pendings

LEMMA HeadsAfter ==
    ASSUME DiskInv, NEW p \in Procs, NEW o, Doing(p, o),
           \A q \in Procs, x \in Operations :
              q # p /\ Held(q, x) /\ Pending(q, x) => Held(q, x)',
           \A x \in Operations : Follows(o, x) => Held(p, x)'
    PROVE  Heads'
<1> SUFFICES ASSUME NEW q \in Procs, NEW x \in Operations, todo'[q] # <<>>, x = Op(q)'
             PROVE  Held(q, x)'
  BY DEF Heads
<1>1. /\ \A q1 \in Procs : q1 # p => todo'[q1] = todo[q1] /\ Op(q1)' = Op(q1)
      /\ todo'[p] # <<>> => Op(p)' \in Operations /\ Follows(Op(p), Op(p)')
  BY Advanced DEF Doing, DiskInv
<1>2. CASE q = p
  <2>1. Follows(o, x)
    BY <1>1, <1>2 DEF Doing
  <2> QED
    BY <1>2, <2>1
<1>3. CASE q # p
  <2>1. todo[q] # <<>> /\ x = Op(q)
    BY <1>1, <1>3
  <2>2. Held(q, x) /\ Pending(q, x)
    BY <2>1, HeadFacts
  <2> QED
    BY <1>3, <2>2
<1> QED
  BY <1>2, <1>3

LEMMA PendingsAfter ==
    ASSUME DiskInv, NEW p \in Procs, NEW o, Doing(p, o),
           \A r \in Runs : row[r].status = "none" /\ row'[r].status # "none"
              => o.do = "create_run" /\ o.run = r
    PROVE  Pendings'
<1> SUFFICES ASSUME NEW q \in Procs, NEW x \in Operations, x \in Ops(q)'
             PROVE  Pending(q, x)'
  BY DEF Pendings
<1>1. /\ \A q1 \in Procs : q1 # p => Ops(q1)' = Ops(q1)
      /\ \A y \in Ops(p)' : y \in Ops(p) /\ Before(Op(p), y)
  BY Advanced DEF Doing, DiskInv
<1>2. x \in Ops(q) /\ Pending(q, x)
  BY <1>1 DEF DiskInv, Disk, Pendings
<1>3. UNCHANGED <<owner, task, worker>> /\ o = Op(p) /\ todo[p] # <<>>
  BY DEF Doing
<1>4. ASSUME x.do = "create_run"
      PROVE  row'[x.run].status = "none"
  <2>1. x.run \in Runs /\ row[x.run].status = "none" /\ Owner(x.run) = q
    BY <1>2, <1>4, OperationFields DEF Pending
  <2>2. o.do = "create_run" => o.run # x.run
    <3>1. CASE q = p
      BY <1>1, <1>3, <1>4, <3>1 DEF Before
    <3>2. CASE q # p
      <4>1. Pending(p, o)
        BY <1>3, HeadFacts
      <4> QED
        BY <2>1, <3>2, <4>1 DEF Pending
    <3> QED
      BY <3>1, <3>2
  <2> QED
    BY <2>1, <2>2
<1> QED
  BY <1>2, <1>3, <1>4 DEF Pending, Owner

LEMMA WorkersAfter ==
    ASSUME DiskInv, NEW p \in Procs, NEW o, Doing(p, o),
           \A r \in Runs : diff'[r] => diff[r] \/ worker[r] = "ended"
    PROVE  \A r \in Runs : WorkerOK(r)'
<1> SUFFICES ASSUME NEW r \in Runs
             PROVE  WorkerOK(r)'
  OBVIOUS
<1>1. WorkerOK(r) /\ UNCHANGED <<task, worker>>
  BY DEF DiskInv, Disk, Doing
<1> QED
  BY <1>1 DEF WorkerOK

LEMMA UnownedAfter ==
    ASSUME DiskInv, NEW p \in Procs, NEW o, Doing(p, o),
           \A r \in Runs : row[r].status = "none" /\ row'[r].status # "none"
              => o.do = "create_run" /\ o.run = r
    PROVE  Unowned'
<1>1. UNCHANGED <<owner, task>> /\ o = Op(p) /\ todo[p] # <<>>
  BY DEF Doing
<1>2. Pending(p, o)
  BY <1>1, HeadFacts
<1>3. o.do = "create_run" => Owner(o.run) # Nobody
  BY <1>2, ProcNames DEF Pending
<1> SUFFICES ASSUME NEW b \in Batches, owner[b] = Nobody
             PROVE  task[b] = "none" /\ \A r \in RunSet(b) : row'[r].status = "none"
  BY <1>1 DEF Unowned
<1>4. task[b] = "none" /\ \A r \in RunSet(b) : row[r].status = "none"
  BY DEF DiskInv, Disk, Unowned
<1>5. \A r \in RunSet(b) : r \in Runs /\ BatchOf(r) = b
  BY BatchOfRun
<1> QED
  BY <1>3, <1>4, <1>5 DEF Owner

(* An operation that leaves the run rows and the files alone.              *)
LEMMA DiskAfterOther ==
    ASSUME DiskInv, NEW p \in Procs, NEW o, Doing(p, o), UNCHANGED <<row, files, lock>>,
           o.do \in {"create_batch", "status", "event"}
    PROVE  Disk'
<1>1. UNCHANGED <<row, dir, result, diff, lock, owner, task, worker>>
  BY DEF Doing, files
<1>2. \A r \in Runs : RowOK(r)'
  BY <1>1 DEF DiskInv, Disk, RowOK
<1>3. Unowned' /\ Pendings' /\ \A r \in Runs : WorkerOK(r)'
  BY <1>1, UnownedAfter, PendingsAfter, WorkersAfter
<1>4. \A q \in Procs, x \in Operations : Held(q, x) => Held(q, x)'
  BY <1>1 DEF Held, Owner
<1>5. \A x \in Operations : Follows(o, x) => Held(p, x)'
  BY DEF Follows, Held
<1> QED
  BY <1>2, <1>3, <1>4, <1>5, HeadsAfter DEF Disk

LEMMA DiskAfterCreateRun ==
    ASSUME DiskInv, NEW p \in Procs, NEW o, Doing(p, o), o.do = "create_run",
           CreateRun(o.run)
    PROVE  Disk'
<1>1. /\ o \in Operations /\ o.run \in Runs /\ row[o.run].status = "none"
      /\ Owner(o.run) = p /\ RowOK(o.run)
  BY HeadFacts, OperationFields DEF Doing, Pending, DiskInv, Disk
<1>2. UNCHANGED <<dir, result, diff, lock, owner, task, worker>>
  BY DEF Doing, CreateRun, files
<1>3. /\ row'[o.run].status = "queued"
      /\ \A r \in Runs : r # o.run => row'[r] = row[r]
  BY <1>1, RowChange, StatusNames DEF CreateRun, DiskInv, Typed, TypeOK
<1>4. \A r \in Runs : RowOK(r)'
  BY <1>2, <1>3, StatusNames DEF DiskInv, Disk, RowOK
<1>5. Unowned' /\ Pendings' /\ \A r \in Runs : WorkerOK(r)'
  BY <1>2, <1>3, UnownedAfter, PendingsAfter, WorkersAfter
<1>6. \A q \in Procs, x \in Operations : Held(q, x) => Held(q, x)'
  <2> TAKE q \in Procs, x \in Operations
  <2> SUFFICES ASSUME Held(q, x)
               PROVE  Held(q, x)'
    OBVIOUS
  <2>1. x.do \in {"mkdir", "commit", "rename", "delete_rows", "rmtree"} => x.run # o.run
    BY <1>1, StatusNames DEF Held
  <2>2. x.do \in {"mkdir", "commit", "rename", "delete_rows", "rmtree"} => x.run \in Runs
    BY OperationFields
  <2> QED
    BY <1>2, <1>3, <2>1, <2>2 DEF Held, Owner
<1>7. \A x \in Operations : Follows(o, x) => Held(p, x)'
  BY <1>1, <1>2, <1>3, StatusNames DEF Follows, Held, RowOK
<1> QED
  BY <1>4, <1>5, <1>6, <1>7, HeadsAfter DEF Disk

LEMMA DiskAfterMkdir ==
    ASSUME DiskInv, NEW p \in Procs, NEW o, Doing(p, o), o.do = "mkdir",
           MakeDirectory(o.run)
    PROVE  Disk'
<1>1. /\ o \in Operations /\ o.run \in Runs /\ row[o.run].status \in Active
      /\ Owner(o.run) = p /\ dir[o.run] = "absent"
  BY HeadFacts, OperationFields DEF Doing, Pending, Held
<1>2. UNCHANGED <<row, result, diff, lock, owner, task, worker>>
  BY DEF Doing, MakeDirectory, rows
<1>3. /\ dir'[o.run] = "present"
      /\ \A r \in Runs : r # o.run => dir'[r] = dir[r]
  BY <1>1 DEF MakeDirectory, DiskInv, Typed, TypeOK, StoreTypeOK
<1>4. \A r \in Runs : RowOK(r)'
  BY <1>1, <1>2, <1>3, StatusNames DEF DiskInv, Disk, RowOK
<1>5. Unowned' /\ Pendings' /\ \A r \in Runs : WorkerOK(r)'
  BY <1>2, UnownedAfter, PendingsAfter, WorkersAfter
<1>6. \A q \in Procs, x \in Operations :
         q # p /\ Held(q, x) /\ Pending(q, x) => Held(q, x)'
  <2> TAKE q \in Procs, x \in Operations
  <2> SUFFICES ASSUME q # p, Held(q, x), Pending(q, x)
               PROVE  Held(q, x)'
    OBVIOUS
  <2>1. x.do \in {"mkdir", "commit", "delete_rows"} => x.run # o.run
    BY <1>1, StatusNames DEF Held, Pending
  <2>2. x.do \in {"mkdir", "commit", "delete_rows"} => x.run \in Runs
    BY OperationFields
  <2>3. x.do = "marked" => x.runs \subseteq Runs
    BY OperationFields
  <2> QED
    BY <1>2, <1>3, <2>1, <2>2, <2>3 DEF Held, Owner
<1>7. \A x \in Operations : Follows(o, x) => Held(p, x)'
  BY DEF Follows, Held
<1> QED
  BY <1>4, <1>5, <1>6, <1>7, HeadsAfter DEF Disk

LEMMA DiskAfterProgress ==
    ASSUME DiskInv, NEW p \in Procs, NEW o, Doing(p, o), o.do = "progress",
           UpdateRunProgress(o.run)
    PROVE  Disk'
<1>1. o \in Operations /\ o.run \in Runs /\ row[o.run].status \in Active
  BY HeadFacts, OperationFields DEF Doing, UpdateRunProgress, ProgressRefused
<1>2. UNCHANGED <<dir, result, diff, lock, owner, task, worker>>
  BY DEF Doing, UpdateRunProgress, files
<1>3. /\ row'[o.run].status = "running"
      /\ \A r \in Runs : r # o.run => row'[r] = row[r]
  BY <1>1, RowChange, StatusNames DEF UpdateRunProgress, DiskInv, Typed, TypeOK
<1>4. \A r \in Runs : RowOK(r)'
  BY <1>1, <1>2, <1>3, StatusNames DEF DiskInv, Disk, RowOK
<1>5. Unowned' /\ Pendings' /\ \A r \in Runs : WorkerOK(r)'
  <2>1. row[o.run].status # "none"
    BY <1>1, StatusNames
  <2> QED
    BY <1>2, <1>3, <2>1, UnownedAfter, PendingsAfter, WorkersAfter
<1>6. \A q \in Procs, x \in Operations : Held(q, x) => Held(q, x)'
  <2> TAKE q \in Procs, x \in Operations
  <2> SUFFICES ASSUME Held(q, x)
               PROVE  Held(q, x)'
    OBVIOUS
  <2>1. x.do \in {"rename", "delete_rows", "rmtree"} => x.run # o.run
    BY <1>1, StatusNames DEF Held
  <2>2. x.do \in {"mkdir", "commit", "rename", "delete_rows", "rmtree"} => x.run \in Runs
    BY OperationFields
  <2> QED
    BY <1>2, <1>3, <2>1, <2>2, StatusNames DEF Held, Owner
<1>7. \A x \in Operations : Follows(o, x) => Held(p, x)'
  BY DEF Follows, Held
<1> QED
  BY <1>4, <1>5, <1>6, <1>7, HeadsAfter DEF Disk

LEMMA DiskAfterFinalize ==
    ASSUME DiskInv, NEW p \in Procs, NEW o, Doing(p, o), o.do = "finalize",
           FinalizeStarts(o.run, o.captured)
    PROVE  Disk'
<1>1. /\ o \in Operations /\ o.run \in Runs /\ o.captured \in BOOLEAN
      /\ row[o.run].status \in Active
      /\ Owner(o.run) = p /\ worker[o.run] = "ended" /\ ~diff[o.run]
  BY HeadFacts, OperationFields DEF Doing, Held, FinalizeStarts, FinalizeRefused
<1>2. UNCHANGED <<row, dir, result, lock, owner, task, worker>>
  BY DEF Doing, FinalizeStarts, rows
<1>3. /\ diff'[o.run] = o.captured
      /\ \A r \in Runs : r # o.run => diff'[r] = diff[r]
  <2>1. diff \in [Runs -> BOOLEAN]
    BY DEF DiskInv, Typed, TypeOK, StoreTypeOK
  <2>2. diff' = [diff EXCEPT ![o.run] = diff[o.run] \/ o.captured]
    BY DEF FinalizeStarts
  <2>3. diff'[o.run] = (diff[o.run] \/ o.captured)
    BY <1>1, <2>1, <2>2, Zenon
  <2>4. (diff[o.run] \/ o.captured) = o.captured
    BY <1>1
  <2>5. \A r \in Runs : r # o.run => diff'[r] = diff[r]
    BY <2>1, <2>2, Zenon
  <2> QED
    BY <2>3, <2>4, <2>5
<1>4. \A r \in Runs : RowOK(r)'
  <2> TAKE r \in Runs
  <2>1. RowOK(r)
    BY DEF DiskInv, Disk
  <2>2. CASE r = o.run
    BY <1>1, <1>2, <2>1, <2>2, StatusNames DEF RowOK
  <2>3. CASE r # o.run
    BY <1>2, <1>3, <2>1, <2>3 DEF RowOK
  <2> QED
    BY <2>2, <2>3
<1>5. Unowned' /\ Pendings' /\ \A r \in Runs : WorkerOK(r)'
  BY <1>1, <1>2, <1>3, UnownedAfter, PendingsAfter, WorkersAfter
<1>6. \A q \in Procs, x \in Operations : q # p /\ Held(q, x) => Held(q, x)'
  <2> TAKE q \in Procs, x \in Operations
  <2> SUFFICES ASSUME q # p, Held(q, x)
               PROVE  Held(q, x)'
    OBVIOUS
  <2>1. x.do \in {"finalize", "result", "commit"} => x.run # o.run
    BY <1>1 DEF Held
  <2>2. x.do \in {"finalize", "result", "commit"} => x.run \in Runs
    BY OperationFields
  <2> QED
    BY <1>2, <1>3, <2>1, <2>2 DEF Held, Owner
<1>7. \A x \in Operations : Follows(o, x) => Held(p, x)'
  BY <1>1, <1>2, <1>3 DEF Follows, Held, Owner
<1> QED
  BY <1>4, <1>5, <1>6, <1>7, HeadsAfter DEF Disk

(* A run whose directory is there, without result.json, has an active row. *)
LEMMA WritableIsActive ==
    ASSUME DiskInv, NEW r \in Runs, dir[r] = "present", result[r] = "none"
    PROVE  row[r].status \in Active
<1>1. RowOK(r) /\ row[r].status \in RunStatus
  BY RowType DEF DiskInv, Disk, Typed, TypeOK
<1> QED
  BY <1>1 DEF RowOK, RunStatus

LEMMA DiskAfterResult ==
    ASSUME DiskInv, NEW p \in Procs, NEW o, Doing(p, o), o.do = "result",
           FinalizeWrites(p, o.run, o.status)
    PROVE  Disk'
<1>1. /\ o \in Operations /\ o.run \in Runs /\ o.status \in Terminal
      /\ Owner(o.run) = p /\ worker[o.run] = "ended" /\ (diff[o.run] => o.captured)
      /\ lock = Free /\ dir[o.run] = "present" /\ result[o.run] = "none"
  BY HeadFacts, OperationFields DEF Doing, Held, FinalizeWrites, ResultRefused
<1>2. UNCHANGED <<row, dir, diff, owner, task, worker>> /\ lock' = p
  BY DEF Doing, FinalizeWrites, rows
<1>3. /\ result'[o.run] = o.status
      /\ \A r \in Runs : r # o.run => result'[r] = result[r]
  BY <1>1 DEF FinalizeWrites, DiskInv, Typed, TypeOK, StoreTypeOK
<1>4. row[o.run].status \in Active
  BY <1>1, WritableIsActive
<1>5. \A r \in Runs : RowOK(r)'
  <2> TAKE r \in Runs
  <2>1. RowOK(r)
    BY DEF DiskInv, Disk
  <2>2. CASE r = o.run
    BY <1>2, <1>4, <2>1, <2>2, StatusNames DEF RowOK
  <2>3. CASE r # o.run
    BY <1>2, <1>3, <2>1, <2>3 DEF RowOK
  <2> QED
    BY <2>2, <2>3
<1>6. Unowned' /\ Pendings' /\ \A r \in Runs : WorkerOK(r)'
  BY <1>2, UnownedAfter, PendingsAfter, WorkersAfter
<1>7. \A q \in Procs, x \in Operations : q # p /\ Held(q, x) => Held(q, x)'
  <2> TAKE q \in Procs, x \in Operations
  <2> SUFFICES ASSUME q # p, Held(q, x)
               PROVE  Held(q, x)'
    OBVIOUS
  <2>1. x.do \notin {"commit", "marked"}
    BY <1>1, ProcNames DEF Held
  <2> QED
    BY <1>2, <2>1 DEF Held, Owner
<1>8. \A x \in Operations : Follows(o, x) => Held(p, x)'
  BY <1>1, <1>2, <1>3, <1>4 DEF Follows, Held, Owner
<1> QED
  BY <1>5, <1>6, <1>7, <1>8, HeadsAfter DEF Disk

LEMMA DiskAfterCommit ==
    ASSUME DiskInv, NEW p \in Procs, NEW o, Doing(p, o), o.do = "commit",
           FinalizeCommits(p, o.run, o.status, o.captured)
    PROVE  Disk'
<1>1. /\ o \in Operations /\ o.run \in Runs /\ o.status \in Terminal /\ o.captured \in BOOLEAN
      /\ Owner(o.run) = p /\ worker[o.run] = "ended" /\ (diff[o.run] => o.captured)
      /\ row[o.run].status \in Active /\ dir[o.run] = "present"
      /\ result[o.run] = o.status /\ lock = p
  BY HeadFacts, OperationFields DEF Doing, Held
<1>2. UNCHANGED <<dir, result, diff, owner, task, worker>> /\ lock' = Free
  BY DEF Doing, FinalizeCommits, files
<1>3. /\ row'[o.run].status = o.status /\ row'[o.run].captured = o.captured
      /\ \A r \in Runs : r # o.run => row'[r] = row[r]
  <2>1. Exists(o.run)
    BY <1>1, StatusNames DEF Exists
  <2>2. row' = [row EXCEPT ![o.run] = [status |-> o.status, captured |-> o.captured]]
    BY <2>1 DEF FinalizeCommits
  <2> QED
    BY <1>1, <2>2, RowReplaced, StatusNames DEF DiskInv, Typed, TypeOK
<1>4. \A r \in Runs : RowOK(r)'
  <2> TAKE r \in Runs
  <2>1. RowOK(r)
    BY DEF DiskInv, Disk
  <2>2. CASE r = o.run
    <3>1. result[r] # "none" /\ dir[r] # "absent"
      BY <1>1, <2>2 DEF Terminal
    <3> QED
      BY <1>1, <1>2, <1>3, <2>2, <3>1, StatusNames DEF RowOK
  <2>3. CASE r # o.run
    BY <1>2, <1>3, <2>1, <2>3 DEF RowOK
  <2> QED
    BY <2>2, <2>3
<1>5. Unowned' /\ Pendings' /\ \A r \in Runs : WorkerOK(r)'
  <2>1. row[o.run].status # "none"
    BY <1>1, StatusNames
  <2> QED
    BY <1>2, <1>3, <2>1, UnownedAfter, PendingsAfter, WorkersAfter
<1>6. \A q \in Procs, x \in Operations :
         q # p /\ Held(q, x) /\ Pending(q, x) => Held(q, x)'
  <2> TAKE q \in Procs, x \in Operations
  <2> SUFFICES ASSUME q # p, Held(q, x), Pending(q, x)
               PROVE  Held(q, x)'
    OBVIOUS
  <2>1. x.do \notin {"commit", "marked"}
    BY <1>1 DEF Held
  <2>2. x.do \in {"mkdir", "rename", "delete_rows", "rmtree"} => x.run # o.run
    BY <1>1, StatusNames DEF Held, Pending
  <2>3. x.do \in {"mkdir", "rename", "delete_rows", "rmtree"} => x.run \in Runs
    BY OperationFields
  <2> QED
    BY <1>2, <1>3, <2>1, <2>2, <2>3 DEF Held, Owner
<1>7. \A x \in Operations : Follows(o, x) => Held(p, x)'
  BY DEF Follows, Held
<1> QED
  BY <1>4, <1>5, <1>6, <1>7, HeadsAfter DEF Disk

LEMMA DiskAfterRename ==
    ASSUME DiskInv, NEW p \in Procs, NEW o, Doing(p, o), o.do = "rename",
           RenameDirectory(o.run)
    PROVE  Disk'
<1>1. /\ o \in Operations /\ o.run \in Runs
      /\ p = Api /\ row[o.run].status \in Terminal /\ RowOK(o.run)
  BY HeadFacts, OperationFields DEF Doing, Held, DiskInv, Disk
<1>2. UNCHANGED <<row, result, diff, lock, owner, task, worker>>
  BY DEF Doing, RenameDirectory, rows
<1>3. /\ dir'[o.run] = "renamed"
      /\ \A r \in Runs : r # o.run => dir'[r] = dir[r]
  BY <1>1 DEF RenameDirectory, DiskInv, Typed, TypeOK, StoreTypeOK, RowOK
<1>4. \A r \in Runs : RowOK(r)'
  BY <1>1, <1>2, <1>3, StatusNames DEF DiskInv, Disk, RowOK
<1>5. Unowned' /\ Pendings' /\ \A r \in Runs : WorkerOK(r)'
  BY <1>2, UnownedAfter, PendingsAfter, WorkersAfter
<1>6. \A q \in Procs, x \in Operations : q # p /\ Held(q, x) => Held(q, x)'
  <2> TAKE q \in Procs, x \in Operations
  <2> SUFFICES ASSUME q # p, Held(q, x)
               PROVE  Held(q, x)'
    OBVIOUS
  <2>1. x.do \in {"mkdir", "commit"} => x.run # o.run
    BY <1>1, StatusNames DEF Held
  <2>2. x.do \in {"mkdir", "commit"} => x.run \in Runs
    BY OperationFields
  <2>3. x.do \notin {"delete_rows", "marked"}
    BY <1>1 DEF Held
  <2> QED
    BY <1>2, <1>3, <2>1, <2>2, <2>3 DEF Held, Owner
<1>7. \A x \in Operations : Follows(o, x) => Held(p, x)'
  BY <1>1, <1>2, <1>3 DEF Follows, Held
<1> QED
  BY <1>4, <1>5, <1>6, <1>7, HeadsAfter DEF Disk

LEMMA DiskAfterDeleteRows ==
    ASSUME DiskInv, NEW p \in Procs, NEW o, Doing(p, o), o.do = "delete_rows",
           DeleteRows(o.run)
    PROVE  Disk'
<1>1. /\ o \in Operations /\ o.run \in Runs
      /\ p = Api /\ row[o.run].status \in Terminal /\ dir[o.run] = "renamed"
  BY HeadFacts, OperationFields DEF Doing, Held
<1>2. UNCHANGED <<dir, result, diff, lock, owner, task, worker>>
  BY DEF Doing, DeleteRows, files
<1>3. /\ row'[o.run].status = "gone"
      /\ \A r \in Runs : r # o.run => row'[r] = row[r]
  <2>1. row' = [row EXCEPT ![o.run] = [status |-> "gone", captured |-> FALSE]]
    BY DEF DeleteRows
  <2> QED
    BY <1>1, <2>1, RowReplaced, StatusNames DEF DiskInv, Typed, TypeOK
<1>4. \A r \in Runs : RowOK(r)'
  BY <1>1, <1>2, <1>3, StatusNames DEF DiskInv, Disk, RowOK
<1>5. Unowned' /\ Pendings' /\ \A r \in Runs : WorkerOK(r)'
  <2>1. row[o.run].status # "none"
    BY <1>1, StatusNames
  <2> QED
    BY <1>2, <1>3, <2>1, UnownedAfter, PendingsAfter, WorkersAfter
<1>6. \A q \in Procs, x \in Operations : q # p /\ Held(q, x) => Held(q, x)'
  <2> TAKE q \in Procs, x \in Operations
  <2> SUFFICES ASSUME q # p, Held(q, x)
               PROVE  Held(q, x)'
    OBVIOUS
  <2>1. x.do \in {"mkdir", "commit"} => x.run # o.run
    BY <1>1, StatusNames DEF Held
  <2>2. x.do \in {"mkdir", "commit"} => x.run \in Runs
    BY OperationFields
  <2>3. x.do \notin {"rename", "delete_rows", "rmtree", "marked"}
    BY <1>1 DEF Held
  <2> QED
    BY <1>2, <1>3, <2>1, <2>2, <2>3 DEF Held, Owner
<1>7. \A x \in Operations : Follows(o, x) => Held(p, x)'
  BY <1>1, <1>2, <1>3 DEF Follows, Held
<1> QED
  BY <1>4, <1>5, <1>6, <1>7, HeadsAfter DEF Disk

LEMMA DiskAfterRmtree ==
    ASSUME DiskInv, NEW p \in Procs, NEW o, Doing(p, o), o.do = "rmtree",
           RemoveDirectory(o.run)
    PROVE  Disk'
<1>1. /\ o \in Operations /\ o.run \in Runs
      /\ p = Api /\ row[o.run].status = "gone"
  BY HeadFacts, OperationFields DEF Doing, Held
<1>2. UNCHANGED <<row, lock, owner, task, worker>>
  BY DEF Doing, RemoveDirectory, rows
<1>3. /\ dir'[o.run] \in {"absent", dir[o.run]} /\ (diff'[o.run] => diff[o.run])
      /\ \A r \in Runs : r # o.run => /\ dir'[r] = dir[r] /\ result'[r] = result[r]
                                      /\ diff'[r] = diff[r]
  BY <1>1 DEF RemoveDirectory, files, DiskInv, Typed, TypeOK, StoreTypeOK
<1>4. \A r \in Runs : RowOK(r)'
  <2> TAKE r \in Runs
  <2>1. RowOK(r)
    BY DEF DiskInv, Disk
  <2>2. CASE r = o.run
    BY <1>1, <1>2, <1>3, <2>1, <2>2, StatusNames DEF RowOK
  <2>3. CASE r # o.run
    BY <1>2, <1>3, <2>1, <2>3 DEF RowOK
  <2> QED
    BY <2>2, <2>3
<1>5. Unowned' /\ Pendings' /\ \A r \in Runs : WorkerOK(r)'
  BY <1>2, <1>3, UnownedAfter, PendingsAfter, WorkersAfter
<1>6. \A q \in Procs, x \in Operations : q # p /\ Held(q, x) => Held(q, x)'
  <2> TAKE q \in Procs, x \in Operations
  <2> SUFFICES ASSUME q # p, Held(q, x)
               PROVE  Held(q, x)'
    OBVIOUS
  <2>1. x.do \in {"mkdir", "commit"} => x.run # o.run
    BY <1>1, StatusNames DEF Held
  <2>2. x.do \in {"mkdir", "finalize", "result", "commit"} => x.run \in Runs
    BY OperationFields
  <2>3. x.do \notin {"rename", "delete_rows", "rmtree", "marked"}
    BY <1>1 DEF Held
  <2> QED
    BY <1>2, <1>3, <2>1, <2>2, <2>3 DEF Held, Owner
<1>7. \A x \in Operations : Follows(o, x) => Held(p, x)'
  BY DEF Follows, Held
<1> QED
  BY <1>4, <1>5, <1>6, <1>7, HeadsAfter DEF Disk

(* Runs that are marked on disk have a directory, so their row is not new. *)
LEMMA MarkedRowOK ==
    ASSUME DiskInv, NEW S \in SUBSET Runs, \A r \in S : dir[r] = "present", MarkedOnDisk(S)
    PROVE  /\ \A r \in Runs : RowOK(r)'
           /\ \A r \in S : result'[r] # "none"
           /\ \A r \in Runs : result[r] # "none" => result'[r] = result[r]
<1>1. UNCHANGED <<row, dir, diff>>
  BY DEF MarkedOnDisk, rows
<1>2. \A r \in Runs : result'[r] = IF r \in S /\ result[r] = "none"
                                   THEN "interrupted" ELSE result[r]
  BY DEF MarkedOnDisk
<1>3. ASSUME NEW r \in Runs
      PROVE  RowOK(r)'
  <2>1. RowOK(r)
    BY DEF DiskInv, Disk
  <2> QED
    BY <1>1, <1>2, <2>1 DEF RowOK
<1> QED
  BY <1>2, <1>3

LEMMA DiskAfterMark ==
    ASSUME DiskInv, NEW p \in Procs, NEW o, Doing(p, o), o.do = "mark",
           MarkWrites(p, o.runs)
    PROVE  Disk'
<1>1. /\ o \in Operations /\ o.runs \in SUBSET Runs /\ p = Api /\ lock = Free
      /\ \A r \in o.runs : dir[r] = "present"
  BY HeadFacts, OperationFields DEF Doing, Held, MarkWrites, Unwritable
<1>2. UNCHANGED <<row, dir, diff, owner, task, worker>> /\ lock' = p /\ MarkedOnDisk(o.runs)
  BY DEF Doing, MarkWrites, MarkedOnDisk, rows
<1>3. (\A r \in Runs : RowOK(r)') /\ \A r \in o.runs : result'[r] # "none"
  BY <1>1, <1>2, MarkedRowOK
<1>4. Unowned' /\ Pendings' /\ \A r \in Runs : WorkerOK(r)'
  BY <1>2, UnownedAfter, PendingsAfter, WorkersAfter
<1>5. \A q \in Procs, x \in Operations : q # p /\ Held(q, x) => Held(q, x)'
  <2> TAKE q \in Procs, x \in Operations
  <2> SUFFICES ASSUME q # p, Held(q, x)
               PROVE  Held(q, x)'
    OBVIOUS
  <2>1. x.do \notin {"commit", "marked"}
    BY <1>1, ProcNames DEF Held
  <2> QED
    BY <1>2, <2>1 DEF Held, Owner
<1>6. \A x \in Operations : Follows(o, x) => Held(p, x)'
  BY <1>1, <1>2, <1>3 DEF Follows, Held
<1> QED
  BY <1>3, <1>4, <1>5, <1>6, HeadsAfter DEF Disk

LEMMA DiskAfterMarked ==
    ASSUME DiskInv, NEW p \in Procs, NEW o, Doing(p, o), o.do = "marked",
           MarkCommits(p, o.runs)
    PROVE  Disk'
<1>1. /\ o \in Operations /\ o.runs \in SUBSET Runs /\ p = Api /\ lock = p
      /\ \A r \in o.runs : dir[r] = "present" /\ result[r] # "none"
  BY HeadFacts, OperationFields DEF Doing, Held
<1>2. UNCHANGED <<dir, result, diff, owner, task, worker>> /\ lock' = Free
  BY DEF Doing, MarkCommits, files
<1>3. \A r \in Runs : IF r \in o.runs /\ Exists(r)
                      THEN row'[r].status = "interrupted" ELSE row'[r] = row[r]
  BY DEF MarkCommits
<1>4. \A r \in Runs : RowOK(r)'
  <2> TAKE r \in Runs
  <2>1. RowOK(r)
    BY DEF DiskInv, Disk
  <2>2. CASE r \in o.runs /\ Exists(r)
    BY <1>1, <1>2, <1>3, <2>1, <2>2, StatusNames DEF RowOK
  <2>3. CASE ~(r \in o.runs /\ Exists(r))
    BY <1>2, <1>3, <2>1, <2>3 DEF RowOK
  <2> QED
    BY <2>2, <2>3
<1>5. \A r \in Runs : row[r].status = "none" => row'[r].status = "none"
  BY <1>3 DEF Exists
<1>6. Unowned' /\ Pendings' /\ \A r \in Runs : WorkerOK(r)'
  BY <1>2, <1>5, UnownedAfter, PendingsAfter, WorkersAfter
<1>7. \A q \in Procs, x \in Operations : q # p /\ Held(q, x) => Held(q, x)'
  <2> TAKE q \in Procs, x \in Operations
  <2> SUFFICES ASSUME q # p, Held(q, x)
               PROVE  Held(q, x)'
    OBVIOUS
  <2>1. x.do \notin {"commit", "marked", "rename", "delete_rows", "rmtree"}
    BY <1>1 DEF Held
  <2>2. x.do = "mkdir" => x.run \in Runs /\ x.run \notin o.runs
    BY <1>1, OperationFields DEF Held
  <2> QED
    BY <1>2, <1>3, <2>1, <2>2 DEF Held, Owner
<1>8. \A x \in Operations : Follows(o, x) => Held(p, x)'
  BY DEF Follows, Held
<1> QED
  BY <1>4, <1>6, <1>7, <1>8, HeadsAfter DEF Disk

LEMMA StoreStepDisk ==
    ASSUME DiskInv, NEW p \in Procs, StoreStep(p)
    PROVE  Disk'
<1>1. PICK o : o = Op(p)
  OBVIOUS
<1>2. Doing(p, o) /\ Performed(p, o)
  BY <1>1 DEF StoreStep, Busy, Done, Doing
<1>3. CASE \/ o.do = "create_batch" /\ CreateBatch(o.batch)
           \/ o.do = "status" /\ UpdateBatchStatus(o.batch, o.status)
           \/ o.do = "event" /\ AppendEvent(o.batch, o.type, o.run)
  <2>1. UNCHANGED <<row, files, lock>>
    BY <1>3 DEF CreateBatch, UpdateBatchStatus, AppendEvent
  <2> QED
    BY <1>2, <1>3, <2>1, DiskAfterOther
<1>4. CASE ~(\/ o.do = "create_batch" /\ CreateBatch(o.batch)
             \/ o.do = "status" /\ UpdateBatchStatus(o.batch, o.status)
             \/ o.do = "event" /\ AppendEvent(o.batch, o.type, o.run))
  BY <1>2, <1>4, DiskAfterCreateRun, DiskAfterMkdir, DiskAfterProgress, DiskAfterFinalize,
     DiskAfterResult, DiskAfterCommit, DiskAfterRename, DiskAfterDeleteRows,
     DiskAfterRmtree, DiskAfterMark, DiskAfterMarked DEF Performed
<1> QED
  BY <1>3, <1>4

-----------------------------------------------------------------------------
(***************************************************************************)
(* The records on disk: what starts a program.                             *)
(***************************************************************************)
LEMMA HeadsLoaded ==
    ASSUME DiskInv, NEW p \in Procs, NEW t, Program(t), Do(p, t),
           \A q \in Procs, x \in Operations :
              q # p /\ Held(q, x) /\ Pending(q, x) => Held(q, x)',
           \A x \in Operations : t # <<>> /\ x = t[1] => Held(p, x)'
    PROVE  Heads'
<1>1. todo'[p] = t /\ \A q \in Procs : q # p => todo'[q] = todo[q]
  BY Loaded DEF DiskInv, Typed
<1>2. t # <<>> => Head(t) = t[1]
  BY TailOfProgram
<1> SUFFICES ASSUME NEW q \in Procs, NEW x \in Operations, todo'[q] # <<>>, x = Op(q)'
             PROVE  Held(q, x)'
  BY DEF Heads
<1>3. CASE q = p
  BY <1>1, <1>2, <1>3 DEF Op
<1>4. CASE q # p
  <2>1. todo[q] # <<>> /\ x = Op(q)
    BY <1>1, <1>4 DEF Op
  <2> QED
    BY <1>4, <2>1, HeadFacts
<1> QED
  BY <1>3, <1>4

LEMMA PendingsLoaded ==
    ASSUME DiskInv, NEW p \in Procs, NEW t, Program(t), Do(p, t),
           \A q \in Procs, x \in Operations : q # p /\ Pending(q, x) => Pending(q, x)',
           \A x \in Operations, i \in 1..Len(t) : x = t[i] => Pending(p, x)'
    PROVE  Pendings'
<1>1. todo'[p] = t /\ \A q \in Procs : q # p => todo'[q] = todo[q]
  BY Loaded DEF DiskInv, Typed
<1> SUFFICES ASSUME NEW q \in Procs, NEW x \in Operations, x \in Ops(q)'
             PROVE  Pending(q, x)'
  BY DEF Pendings
<1>2. CASE q = p
  BY <1>1, <1>2 DEF Ops
<1>3. CASE q # p
  <2>1. x \in Ops(q)
    BY <1>1, <1>3 DEF Ops
  <2> QED
    BY <1>3, <2>1 DEF DiskInv, Disk, Pendings
<1> QED
  BY <1>2, <1>3

(* What p changes in its own memory leaves the others what they rely on.   *)
LEMMA OthersKept ==
    ASSUME DiskInv, NEW p \in Procs,
           UNCHANGED <<row, dir, diff>>, result' = result \/ lock = Free,
           lock' = lock \/ lock = p,
           \A b \in Batches : owner[b] # Nobody => owner'[b] = owner[b],
           \A b \in Batches : owner[b] # Nobody /\ owner[b] # p => task'[b] = task[b],
           \A r \in Runs : Owner(r) # Nobody /\ Owner(r) # p => worker'[r] = worker[r],
           NEW q \in Procs, NEW x \in Operations, q # p, Pending(q, x)
    PROVE  Pending(q, x)' /\ (Held(q, x) => Held(q, x)')
<1>1. q # Nobody
  BY ProcNames
<1>2. /\ x.do \in {"create_run", "mkdir", "progress", "finalize", "result", "commit"} =>
            x.run \in Runs /\ BatchOf(x.run) \in Batches
      /\ x.do = "gather" => x.batch \in Batches
  BY OperationFields, BatchOfRun
<1>3. x.do = "gather" => \A r \in RunSet(x.batch) : r \in Runs /\ BatchOf(r) = x.batch
  BY <1>2, BatchOfRun
<1>4. Pending(q, x)'
  BY <1>1, <1>2, <1>3 DEF Pending, Owner
<1>5. Held(q, x) => Held(q, x)'
  <2>1. Held(q, x) /\ x.do \in {"commit", "marked"} => lock = q /\ lock # Free /\ lock' = q
                                                        /\ result' = result
    BY ProcNames DEF Held
  <2> QED
    BY <1>1, <1>2, <2>1 DEF Held, Owner
<1> QED
  BY <1>4, <1>5

LEMMA RowsKept ==
    ASSUME DiskInv, UNCHANGED <<row, dir, result, diff>>
    PROVE  \A r \in Runs : RowOK(r)'
BY DEF DiskInv, Disk, RowOK

LEMMA WorkersKept ==
    ASSUME DiskInv, UNCHANGED <<diff, task, worker>>
    PROVE  \A r \in Runs : WorkerOK(r)'
BY DEF DiskInv, Disk, WorkerOK

LEMMA UnownedKept ==
    ASSUME DiskInv, UNCHANGED <<row, owner>>,
           \A b \in Batches : task[b] = "none" => task'[b] = "none"
    PROVE  Unowned'
BY DEF DiskInv, Disk, Unowned

(* p starts a program whose operations rely on nothing before they come.   *)
LEMMA DiskAfterStart ==
    ASSUME DiskInv, NEW p \in Procs, NEW t, Program(t), Do(p, t),
           UNCHANGED <<row, dir, result, diff, lock, owner, task, worker>>,
           \A x \in Operations : t # <<>> /\ x = t[1] => Held(p, x),
           \A x \in Operations, i \in 1..Len(t) :
              x = t[i] => x.do \notin {"create_run", "mkdir", "gather"}
    PROVE  Disk'
<1>1. \A q \in Procs, x \in Operations : Held(q, x) => Held(q, x)'
  BY DEF Held, Owner
<1>2. \A q \in Procs, x \in Operations : Pending(q, x) => Pending(q, x)'
  BY DEF Pending, Owner
<1>3. \A x \in Operations : x.do \notin {"create_run", "mkdir", "gather"} => Pending(p, x)'
  BY DEF Pending
<1>4. Heads' /\ Pendings'
  BY <1>1, <1>2, <1>3, HeadsLoaded, PendingsLoaded
<1> QED
  BY <1>4, RowsKept, WorkersKept, UnownedKept DEF Disk

LEMMA DiskAfterStartApi ==
    ASSUME DiskInv, StartApi
    PROVE  Disk'
<1>1. PICK t : t = <<[do |-> "active"]>>
  OBVIOUS
<1>2. Program(t) /\ Do(Api, t)
  BY <1>1, MarkPrograms DEF StartApi
<1>3. Len(t) = 1 /\ t[1].do = "active"
  BY <1>1
<1>4. \A x \in Operations : t # <<>> /\ x = t[1] => Held(Api, x)
  BY <1>3 DEF Held
<1>5. \A x \in Operations, i \in 1..Len(t) :
         x = t[i] => x.do \notin {"create_run", "mkdir", "gather"}
  BY <1>3
<1>6. UNCHANGED <<row, dir, result, diff, lock, owner, task, worker>>
  BY DEF StartApi, store, rows, files
<1> QED
  BY <1>2, <1>4, <1>5, <1>6, DiskAfterStart, ProcNames

LEMMA DiskAfterCancel ==
    ASSUME DiskInv, NEW b \in Batches, Cancel(b)
    PROVE  Disk'
<1>1. PICK t : t = <<[do |-> "status", batch |-> b, status |-> "cancelling"],
                     [do |-> "event", batch |-> b, type |-> "batch_cancelling",
                      run |-> NoRun]>>
  OBVIOUS
<1>2. Program(t) /\ Do(Api, t)
  BY <1>1, StatusPrograms DEF Cancel, EventTypes, BatchStatus, BatchActive
<1>3. Len(t) = 2 /\ t[1].do = "status" /\ t[2].do = "event"
  BY <1>1
<1>4. \A x \in Operations : t # <<>> /\ x = t[1] => Held(Api, x)
  BY <1>3 DEF Held
<1>5. \A x \in Operations, i \in 1..Len(t) :
         x = t[i] => x.do \notin {"create_run", "mkdir", "gather"}
  BY <1>3
<1>6. UNCHANGED <<row, dir, result, diff, lock, owner, task, worker>>
  BY DEF Cancel, store, rows, files
<1> QED
  BY <1>2, <1>4, <1>5, <1>6, DiskAfterStart, ProcNames

LEMMA DiskAfterDeleteRun ==
    ASSUME DiskInv, NEW r \in Runs, DeleteRun(r)
    PROVE  Disk'
<1>1. PICK t : t = <<[do |-> "rename", run |-> r], [do |-> "delete_rows", run |-> r],
                     [do |-> "rmtree", run |-> r]>>
  OBVIOUS
<1>2. Program(t) /\ Do(Api, t) /\ row[r].status \in Terminal
  BY <1>1, RunPrograms DEF DeleteRun, Deletable
<1>3. /\ Len(t) = 3 /\ t[1] = [do |-> "rename", run |-> r] /\ t[2].do = "delete_rows"
      /\ t[3].do = "rmtree"
  BY <1>1
<1>4. \A x \in Operations : t # <<>> /\ x = t[1] => Held(Api, x)
  BY <1>2, <1>3 DEF Held
<1>5. \A x \in Operations, i \in 1..Len(t) :
         x = t[i] => x.do \notin {"create_run", "mkdir", "gather"}
  BY <1>3
<1>6. UNCHANGED <<row, dir, result, diff, lock, owner, task, worker>>
  BY DEF DeleteRun, store, rows, files
<1> QED
  BY <1>2, <1>4, <1>5, <1>6, DiskAfterStart, ProcNames

LEMMA DiskAfterReadActive ==
    ASSUME DiskInv, NEW p \in Procs, ReadActive(p)
    PROVE  Disk'
<1>1. PICK t : t = <<[do |-> "mark", runs |-> ActiveRows], [do |-> "marked", runs |-> ActiveRows]>>
  OBVIOUS
<1>2. ActiveRows \in SUBSET Runs
  BY DEF ActiveRows
<1>3. Program(t) /\ Do(p, t) /\ p = Api
  <2>1. Held(p, Op(p)) /\ Op(p).do = "active"
    BY HeadFacts DEF ReadActive, Busy
  <2> QED
    BY <1>1, <1>2, <2>1, MarkPrograms DEF ReadActive, Held
<1>4. Len(t) = 2 /\ t[1].do = "mark" /\ t[2].do = "marked"
  BY <1>1
<1>5. \A x \in Operations : t # <<>> /\ x = t[1] => Held(p, x)
  BY <1>3, <1>4 DEF Held
<1>6. \A x \in Operations, i \in 1..Len(t) :
         x = t[i] => x.do \notin {"create_run", "mkdir", "gather"}
  BY <1>4
<1>7. UNCHANGED <<row, dir, result, diff, lock, owner, task, worker>>
  BY DEF ReadActive, store, rows, files
<1> QED
  BY <1>3, <1>5, <1>6, <1>7, DiskAfterStart

LEMMA DiskAfterCreate ==
    ASSUME DiskInv, NEW p \in Procs, NEW b \in Batches, Create(p, b)
    PROVE  Disk'
<1>1. PICK t : t = Creation(b)
  OBVIOUS
<1>2. PICK n : n = Len(RunsOf[b])
  OBVIOUS
<1>3. /\ owner[b] = Nobody /\ Do(p, t)
      /\ owner' = [owner EXCEPT ![b] = p] /\ task' = [task EXCEPT ![b] = "scheduled"]
      /\ UNCHANGED <<row, dir, result, diff, lock, worker>>
  BY <1>1 DEF Create, store, rows, files
<1>4. owner'[b] = p /\ task'[b] = "scheduled"
      /\ \A c \in Batches : c # b => owner'[c] = owner[c] /\ task'[c] = task[c]
  BY <1>3 DEF DiskInv, Typed, TypeOK
<1>5. task[b] = "none" /\ \A r \in RunSet(b) : row[r].status = "none" /\ BatchOf(r) = b
                                               /\ r \in Runs
  BY <1>3, BatchOfRun DEF DiskInv, Disk, Unowned
<1>6. Program(t) /\ CreationOf(t, b, n)
  BY <1>1, <1>2, CreationProgram, CreationIs
<1>7. ASSUME NEW x \in Operations, NEW i \in 1..Len(t), x = t[i]
      PROVE  Pending(p, x)'
  <2>1. CASE i = 1
    BY <1>6, <1>7, <2>1 DEF CreationOf, Pending
  <2>2. CASE i = 2 * n + 2
    BY <1>6, <1>7, <2>2 DEF CreationOf, Pending
  <2>3. CASE i # 1 /\ i # 2 * n + 2
    <3>1. PICK k \in 1..n : i = 2 * k \/ i = 2 * k + 1
      BY <1>6, <2>3 DEF CreationOf
    <3>2. x.do \in {"create_run", "mkdir"} /\ x.run \in RunSet(b)
      <4>1. /\ RunsOf[b][k] \in RunSet(b)
            /\ t[2 * k] = [do |-> "create_run", run |-> RunsOf[b][k]]
            /\ t[2 * k + 1] = [do |-> "mkdir", run |-> RunsOf[b][k]]
        BY <1>6 DEF CreationOf
      <4> QED
        BY <1>7, <3>1, <4>1
    <3> QED
      BY <1>3, <1>4, <1>5, <3>2 DEF Pending, Owner
  <2> QED
    BY <2>1, <2>2, <2>3
<1>8. \A x \in Operations : t # <<>> /\ x = t[1] => Held(p, x)'
  <2>1. t[1].do = "create_batch"
    BY <1>6 DEF CreationOf
  <2> QED
    BY <2>1 DEF Held
<1>9. \A q \in Procs, x \in Operations : q # p /\ Pending(q, x) =>
         Pending(q, x)' /\ (Held(q, x) => Held(q, x)')
  <2>1. /\ \A c \in Batches : owner[c] # Nobody => owner'[c] = owner[c]
        /\ \A c \in Batches : owner[c] # Nobody /\ owner[c] # p => task'[c] = task[c]
    BY <1>3, <1>4
  <2> QED
    BY <1>3, <2>1, OthersKept
<1>10. Heads' /\ Pendings'
  BY <1>3, <1>6, <1>7, <1>8, <1>9, HeadsLoaded, PendingsLoaded
<1>11. \A r \in Runs : WorkerOK(r)'
  <2> TAKE r \in Runs
  <2>1. WorkerOK(r) /\ RowOK(r)
    BY DEF DiskInv, Disk
  <2>2. CASE BatchOf(r) = b
    <3>1. r \in RunSet(b) /\ row[r].status = "none" /\ ~diff[r] /\ worker[r] = "none"
      BY <1>5, <2>1, <2>2, BatchOfRun DEF RowOK, WorkerOK
    <3> QED
      BY <1>3, <3>1 DEF WorkerOK
  <2>3. CASE BatchOf(r) # b
    BY <1>3, <1>4, <2>1, <2>3, BatchOfRun DEF WorkerOK
  <2> QED
    BY <2>2, <2>3
<1>12. Unowned'
  BY <1>3, <1>4, ProcNames DEF DiskInv, Disk, Unowned
<1> QED
  BY <1>3, <1>10, <1>11, <1>12, RowsKept DEF Disk

(* The process that owns batch b starts a program, and of the memory only  *)
(* what belongs to b changes.                                              *)
LEMMA DiskAfterBatch ==
    ASSUME DiskInv, NEW b \in Batches, owner[b] \in Procs,
           NEW t, Program(t), Do(owner[b], t),
           UNCHANGED <<row, dir, result, diff, lock, owner>>,
           task'[b] # "none", task[b] # "none",
           task'[b] = "scheduled" => \A r \in RunSet(b) : worker'[r] = "none",
           \A c \in Batches : c # b => task'[c] = task[c],
           \A r \in Runs : r \notin RunSet(b) => worker'[r] = worker[r],
           \A r \in RunSet(b) : worker'[r] \in {"none", "waiting", "episode"} => ~diff[r],
           \A x \in Operations : t # <<>> /\ x = t[1] => Held(owner[b], x)',
           \A x \in Operations, i \in 1..Len(t) : x = t[i] => Pending(owner[b], x)'
    PROVE  Disk'
<1>1. PICK p \in Procs : p = owner[b]
  OBVIOUS
<1>2. p # Nobody
  BY ProcNames
<1>3. \A r \in Runs : BatchOf(r) \in Batches /\ (BatchOf(r) # b => r \notin RunSet(b))
                      /\ (BatchOf(r) = b => r \in RunSet(b))
  BY BatchOfRun
<1>4. \A q \in Procs, x \in Operations : q # p /\ Pending(q, x) =>
         Pending(q, x)' /\ (Held(q, x) => Held(q, x)')
  <2>1. /\ lock' = lock
        /\ \A c \in Batches : owner[c] # Nobody => owner'[c] = owner[c]
        /\ \A c \in Batches : owner[c] # Nobody /\ owner[c] # p => task'[c] = task[c]
        /\ \A r \in Runs : Owner(r) # Nobody /\ Owner(r) # p => worker'[r] = worker[r]
    BY <1>1, <1>3 DEF Owner
  <2> QED
    BY <2>1, OthersKept
<1>5. Heads' /\ Pendings'
  BY <1>1, <1>4, HeadsLoaded, PendingsLoaded
<1>6. \A r \in Runs : WorkerOK(r)'
  <2> TAKE r \in Runs
  <2>1. WorkerOK(r)
    BY DEF DiskInv, Disk
  <2>2. CASE BatchOf(r) = b
    BY <1>3, <2>2 DEF WorkerOK
  <2>3. CASE BatchOf(r) # b
    BY <1>3, <2>1, <2>3 DEF WorkerOK
  <2> QED
    BY <2>2, <2>3
<1>7. Unowned'
  BY <1>1, <1>2 DEF DiskInv, Disk, Unowned
<1> QED
  BY <1>5, <1>6, <1>7, RowsKept DEF Disk

LEMMA WorkerOf ==
    ASSUME DiskInv, NEW b \in Batches, NEW r \in RunSet(b)
    PROVE  /\ r \in Runs /\ BatchOf(r) = b
           /\ worker[r] \in {"none", "waiting", "episode"} /\ task[b] # "none" => ~diff[r]
           /\ worker[r] # "none" => task[b] # "none"
           /\ task[b] = "scheduled" => worker[r] = "none"
<1>1. r \in Runs /\ BatchOf(r) = b
  BY BatchOfRun
<1> QED
  BY <1>1 DEF DiskInv, Disk, WorkerOK

LEMMA OwnerOfTask ==
    ASSUME DiskInv, NEW b \in Batches, owner[b] \in up
    PROVE  owner[b] \in Procs
BY ProcNames DEF DiskInv, Typed, TypeOK

LEMMA DiskAfterStartBatch ==
    ASSUME DiskInv, NEW b \in Batches, StartBatch(b)
    PROVE  Disk'
<1>1. PICK p \in Procs : p = owner[b]
  BY OwnerOfTask DEF StartBatch, Idle
<1>2. /\ todo[p] = <<>> /\ task[b] = "scheduled"
      /\ UNCHANGED <<row, dir, result, diff, lock, owner, worker>>
  BY <1>1 DEF StartBatch, Idle, store, rows, files
<1>3. \A r \in RunSet(b) : worker[r] = "none" /\ ~diff[r] /\ r \in Runs
  BY <1>2, WorkerOf
<1>4. PICK t : t = IF BatchExists(b)
                   THEN <<[do |-> "status", batch |-> b, status |-> "running"],
                          [do |-> "event", batch |-> b, type |-> "batch_started",
                           run |-> NoRun],
                          [do |-> "gather", batch |-> b]>>
                   ELSE <<>>
  OBVIOUS
<1>5. Do(p, t)
  <2>1. CASE BatchExists(b)
    BY <1>1, <1>4, <2>1 DEF StartBatch
  <2>2. CASE ~BatchExists(b)
    BY <1>1, <1>2, <1>4, <2>2 DEF StartBatch, Do, DiskInv, Typed, TypeOK
  <2> QED
    BY <2>1, <2>2
<1>6. Program(t)
  <2>1. "running" \in BatchStatus /\ "batch_started" \in EventTypes
    BY DEF BatchStatus, BatchActive, EventTypes
  <2> QED
    BY <1>4, <2>1, StatusPrograms, EmptyProgram
<1>7. /\ task'[b] = IF BatchExists(b) THEN "gathering" ELSE "raised"
      /\ \A c \in Batches : c # b => task'[c] = task[c]
  BY DEF StartBatch, DiskInv, Typed, TypeOK
<1>8. /\ t # <<>> => t[1].do = "status"
      /\ \A i \in 1..Len(t) : /\ t[i].do \in {"status", "event", "gather"}
                              /\ t[i].do = "gather" => t[i].batch = b /\ BatchExists(b)
  <2>1. CASE BatchExists(b)
    <3>1. /\ Len(t) = 3 /\ t[1].do = "status" /\ t[2].do = "event"
          /\ t[3] = [do |-> "gather", batch |-> b]
      BY <1>4, <2>1
    <3> QED
      BY <2>1, <3>1
  <2>2. CASE ~BatchExists(b)
    BY <1>4, <2>2
  <2> QED
    BY <2>1, <2>2
<1>9. \A x \in Operations : t # <<>> /\ x = t[1] => Held(p, x)'
  BY <1>8 DEF Held
<1>10. \A x \in Operations, i \in 1..Len(t) : x = t[i] => Pending(p, x)'
  BY <1>1, <1>2, <1>3, <1>7, <1>8 DEF Pending
<1> QED
  BY <1>1, <1>2, <1>3, <1>5, <1>6, <1>7, <1>9, <1>10, DiskAfterBatch

LEMMA DiskAfterFinishBatch ==
    ASSUME DiskInv, NEW b \in Batches, FinishBatch(b)
    PROVE  Disk'
<1>1. PICK p \in Procs : p = owner[b]
  BY OwnerOfTask DEF FinishBatch, Idle
<1>2. /\ todo[p] = <<>> /\ task[b] = "gathering"
      /\ UNCHANGED <<row, dir, result, diff, lock, owner, worker>>
  BY <1>1 DEF FinishBatch, Idle, store, rows, files
<1>3. \A r \in RunSet(b) :
         r \in Runs /\ (worker[r] \in {"none", "waiting", "episode"} => ~diff[r])
  BY <1>2, WorkerOf
<1>4. PICK t : t = IF BatchExists(b)
                   THEN <<[do |-> "status", batch |-> b, status |-> FinalStatus(b)],
                          [do |-> "event", batch |-> b, type |-> "batch_finished",
                           run |-> NoRun]>>
                   ELSE <<>>
  OBVIOUS
<1>5. Do(p, t)
  <2>1. CASE BatchExists(b)
    BY <1>1, <1>4, <2>1 DEF FinishBatch
  <2>2. CASE ~BatchExists(b)
    BY <1>1, <1>2, <1>4, <2>2 DEF FinishBatch, Do, DiskInv, Typed, TypeOK
  <2> QED
    BY <2>1, <2>2
<1>6. Program(t)
  <2>1. FinalStatus(b) \in BatchStatus /\ "batch_finished" \in EventTypes
    BY DEF BatchStatus, BatchTerminal, EventTypes, FinalStatus
  <2> QED
    BY <1>4, <2>1, StatusPrograms, EmptyProgram
<1>7. /\ task'[b] = IF BatchExists(b) THEN "ended" ELSE "raised"
      /\ \A c \in Batches : c # b => task'[c] = task[c]
  BY DEF FinishBatch, DiskInv, Typed, TypeOK
<1>8. /\ t # <<>> => t[1].do = "status"
      /\ \A i \in 1..Len(t) : t[i].do \in {"status", "event"}
  <2>1. CASE BatchExists(b)
    <3>1. Len(t) = 2 /\ t[1].do = "status" /\ t[2].do = "event"
      BY <1>4, <2>1
    <3> QED
      BY <2>1, <3>1
  <2>2. CASE ~BatchExists(b)
    BY <1>4, <2>2
  <2> QED
    BY <2>1, <2>2
<1>9. \A x \in Operations : t # <<>> /\ x = t[1] => Held(p, x)'
  BY <1>8 DEF Held
<1>10. \A x \in Operations, i \in 1..Len(t) : x = t[i] => Pending(p, x)'
  BY <1>8 DEF Pending
<1> QED
  BY <1>1, <1>2, <1>3, <1>5, <1>6, <1>7, <1>9, <1>10, DiskAfterBatch

(* An execute moves on, and its process starts a program for its run.      *)
LEMMA DiskAfterExecute ==
    ASSUME DiskInv, NEW r \in Runs, NEW state, NEW t, Program(t),
           Owner(r) \in up, Do(Owner(r), t),
           worker[r] = "waiting" \/ worker[r] = "episode", state \in {"episode", "ended"},
           worker' = [worker EXCEPT ![r] = state],
           UNCHANGED <<row, dir, result, diff, lock, owner, task>>,
           t # <<>>,
           \/ t[1].do = "finalize" /\ t[1].run = r /\ state = "ended"
           \/ t[1].do = "progress" /\ t[1].run = r /\ state = "episode",
           \A i \in 1..Len(t) : t[i].do \notin {"create_run", "mkdir", "gather"}
    PROVE  Disk'
<1>1. PICK b \in Batches : b = BatchOf(r) /\ r \in RunSet(b) /\ Owner(r) = owner[b]
  BY BatchOfRun DEF Owner
<1>2. owner[b] \in Procs
  BY <1>1, OwnerOfTask
<1>3. /\ worker'[r] = state /\ \A q \in Runs : q # r => worker'[q] = worker[q]
      /\ task[b] # "none" /\ task[b] # "scheduled" /\ ~diff[r]
  BY <1>1, WorkerOf DEF DiskInv, Typed, TypeOK
<1>4. \A q \in RunSet(b) : q \in Runs /\
         (worker'[q] \in {"none", "waiting", "episode"} => ~diff[q])
  BY <1>3, WorkerOf
<1>5. \A x \in Operations : t # <<>> /\ x = t[1] => Held(owner[b], x)'
  BY <1>1, <1>3 DEF Held, Owner
<1>6. \A x \in Operations, i \in 1..Len(t) : x = t[i] => Pending(owner[b], x)'
  BY DEF Pending
<1> QED
  BY <1>1, <1>2, <1>3, <1>4, <1>5, <1>6, DiskAfterBatch

LEMMA DiskAfterSkipRun ==
    ASSUME DiskInv, NEW r \in Runs, SkipRun(r)
    PROVE  Disk'
<1>1. PICK t : t = Finalization(r, "cancelled", FALSE)
  OBVIOUS
<1>2. /\ Program(t) /\ Len(t) = 3
      /\ t[1].do = "finalize" /\ t[1].run = r /\ t[2].do = "result" /\ t[3].do = "commit"
  <2>1. "cancelled" \in Terminal
    BY StatusNames
  <2>2. /\ Program(t) /\ Len(t) = 3
        /\ t[1] = [do |-> "finalize", run |-> r, status |-> "cancelled", captured |-> FALSE]
        /\ t[2] = [do |-> "result", run |-> r, status |-> "cancelled", captured |-> FALSE]
        /\ t[3] = [do |-> "commit", run |-> r, status |-> "cancelled", captured |-> FALSE]
    BY <1>1, <2>1, FinalizationIs
  <2> QED
    BY <2>2
<1>3. t # <<>> /\ \A i \in 1..Len(t) : t[i].do \notin {"create_run", "mkdir", "gather"}
  <2>1. \A i \in 1..Len(t) : i = 1 \/ i = 2 \/ i = 3
    BY <1>2
  <2>2. t # <<>>
    BY <1>2
  <2> QED
    BY <1>2, <2>1, <2>2
<1>4. /\ Owner(r) \in up /\ Do(Owner(r), t) /\ worker[r] = "waiting"
      /\ worker' = [worker EXCEPT ![r] = "ended"]
      /\ UNCHANGED <<row, dir, result, diff, lock, owner, task>>
  BY <1>1 DEF SkipRun, Granted, Idle, store, rows, files
<1> QED
  BY <1>2, <1>3, <1>4, DiskAfterExecute

LEMMA DiskAfterStartEpisode ==
    ASSUME DiskInv, NEW r \in Runs, StartEpisode(r)
    PROVE  Disk'
<1>1. PICK t : t = <<[do |-> "progress", run |-> r],
                     [do |-> "event", batch |-> BatchOf(r), type |-> "run_started",
                      run |-> r]>>
  OBVIOUS
<1>2. /\ Program(t) /\ Len(t) = 2
      /\ t[1].do = "progress" /\ t[1].run = r /\ t[2].do = "event"
  BY <1>1, RunPrograms
<1>3. t # <<>> /\ \A i \in 1..Len(t) : t[i].do \notin {"create_run", "mkdir", "gather"}
  <2>1. \A i \in 1..Len(t) : i = 1 \/ i = 2
    BY <1>2
  <2>2. t # <<>>
    BY <1>2
  <2> QED
    BY <1>2, <2>1, <2>2
<1>4. /\ Owner(r) \in up /\ Do(Owner(r), t) /\ worker[r] = "waiting"
      /\ worker' = [worker EXCEPT ![r] = "episode"]
      /\ UNCHANGED <<row, dir, result, diff, lock, owner, task>>
  BY <1>1 DEF StartEpisode, Granted, Idle, store, rows, files
<1> QED
  BY <1>2, <1>3, <1>4, DiskAfterExecute

LEMMA DiskAfterEndEpisode ==
    ASSUME DiskInv, NEW r \in Runs, EndEpisode(r)
    PROVE  Disk'
<1>1. PICK s \in Outcomes(r), c \in BOOLEAN :
        Do(Owner(r), Finalization(r, s, c)
                       \o <<[do |-> "event", batch |-> BatchOf(r),
                             type |-> "run_finished", run |-> r]>>)
  BY DEF EndEpisode
<1>2. s \in Terminal
  BY StatusNames DEF Outcomes
<1>3. PICK t : t = Finalization(r, s, c)
                     \o <<[do |-> "event", batch |-> BatchOf(r),
                           type |-> "run_finished", run |-> r]>>
  OBVIOUS
<1>4. /\ Program(t) /\ Len(t) = 4
      /\ t[1].do = "finalize" /\ t[1].run = r
      /\ t[2].do = "result" /\ t[3].do = "commit" /\ t[4].do = "event"
  <2>1. /\ Program(t) /\ Len(t) = 4
        /\ t[1] = [do |-> "finalize", run |-> r, status |-> s, captured |-> c]
        /\ t[2] = [do |-> "result", run |-> r, status |-> s, captured |-> c]
        /\ t[3] = [do |-> "commit", run |-> r, status |-> s, captured |-> c]
        /\ t[4] = [do |-> "event", batch |-> BatchOf(r),
                   type |-> "run_finished", run |-> r]
    <3>1. Ending(t, r, s, c)
      BY <1>2, <1>3, EndingIs, Zenon
    <3> QED
      BY <3>1 DEF Ending
  <2> QED
    BY <2>1
<1>5. t # <<>> /\ \A i \in 1..Len(t) : t[i].do \notin {"create_run", "mkdir", "gather"}
  <2>1. \A i \in 1..Len(t) : i = 1 \/ i = 2 \/ i = 3 \/ i = 4
    BY <1>4
  <2>2. t # <<>>
    BY <1>4
  <2> QED
    BY <1>4, <2>1, <2>2
<1>6. Do(Owner(r), t)
  BY <1>1, <1>3
<1>7. /\ Owner(r) \in up /\ worker[r] = "episode"
      /\ worker' = [worker EXCEPT ![r] = "ended"]
      /\ UNCHANGED <<row, dir, result, diff, lock, owner, task>>
  BY DEF EndEpisode, Idle, store, rows, files
<1> QED
  BY <1>4, <1>5, <1>6, <1>7, DiskAfterExecute

-----------------------------------------------------------------------------
(***************************************************************************)
(* The records on disk: what stops one, and the theorem.                   *)
(***************************************************************************)
(* Process p stops, for whatever reason.                                   *)
LEMMA DiskAfterStop ==
    ASSUME DiskInv, NEW p \in Procs, Forgotten(p),
           UNCHANGED <<row, dir, diff>>, result' = result \/ lock = Free,
           lock' = lock \/ lock = p,
           \A r \in Runs : RowOK(r)'
    PROVE  Disk'
<1>1. /\ Do(p, <<>>) /\ owner' = owner
      /\ \A b \in Batches : task'[b] = IF owner[b] = p THEN "none" ELSE task[b]
      /\ \A r \in Runs : worker'[r] = IF Owner(r) = p THEN "none" ELSE worker[r]
  BY DEF Forgotten, Do, Owns
<1>2. \A q \in Procs, x \in Operations : q # p /\ Pending(q, x) =>
         Pending(q, x)' /\ (Held(q, x) => Held(q, x)')
  BY <1>1, OthersKept
<1>3. Heads' /\ Pendings'
  <2>1. Program(<<>>) /\ Len(<<>>) = 0
    BY EmptyProgram
  <2>2. \A x \in Operations, i \in 1..Len(<<>>) : x = <<>>[i] => Pending(p, x)'
    BY <2>1
  <2>3. Heads'
    BY <1>1, <1>2, <2>1, HeadsLoaded
  <2>4. Pendings'
    BY <1>1, <1>2, <2>1, <2>2, PendingsLoaded
  <2> QED
    BY <2>3, <2>4
<1>4. \A r \in Runs : WorkerOK(r)'
  <2> TAKE r \in Runs
  <2>1. WorkerOK(r) /\ BatchOf(r) \in Batches
    BY BatchOfRun DEF DiskInv, Disk
  <2> QED
    BY <1>1, <2>1 DEF WorkerOK, Owner
<1>5. Unowned'
  BY <1>1 DEF DiskInv, Disk, Unowned
<1> QED
  BY <1>3, <1>4, <1>5 DEF Disk

(* What an execute raises ends it and its batch, and frees the loop.       *)
LEMMA DiskAfterRaise ==
    ASSUME DiskInv, NEW r \in Runs, Owner(r) \in Procs, worker[r] # "none",
           ExecuteRaises(r),
           UNCHANGED <<row, dir, diff, lock>>, result' = result \/ lock = Free,
           \A q \in Runs : RowOK(q)'
    PROVE  Disk'
<1>1. PICK p \in Procs : p = Owner(r)
  OBVIOUS
<1>2. PICK b \in Batches : b = BatchOf(r) /\ owner[b] = p
  BY <1>1, BatchOfRun DEF Owner
<1>3. /\ Do(p, <<>>) /\ owner' = owner
      /\ task'[b] = "raised" /\ \A c \in Batches : c # b => task'[c] = task[c]
      /\ worker'[r] = "raised" /\ \A q \in Runs : q # r => worker'[q] = worker[q]
  BY <1>1, <1>2 DEF ExecuteRaises, DiskInv, Typed, TypeOK
<1>4. \A q \in Procs, x \in Operations : q # p /\ Pending(q, x) =>
         Pending(q, x)' /\ (Held(q, x) => Held(q, x)')
  <2>1. /\ \A c \in Batches : owner[c] # Nobody /\ owner[c] # p => task'[c] = task[c]
        /\ \A q \in Runs : Owner(q) # Nobody /\ Owner(q) # p => worker'[q] = worker[q]
    BY <1>1, <1>2, <1>3
  <2> QED
    BY <1>3, <2>1, OthersKept
<1>5. Heads' /\ Pendings'
  <2>1. Program(<<>>) /\ Len(<<>>) = 0
    BY EmptyProgram
  <2>2. \A x \in Operations, i \in 1..Len(<<>>) : x = <<>>[i] => Pending(p, x)'
    BY <2>1
  <2>3. Heads'
    BY <1>3, <1>4, <2>1, HeadsLoaded
  <2>4. Pendings'
    BY <1>3, <1>4, <2>1, <2>2, PendingsLoaded
  <2> QED
    BY <2>3, <2>4
<1>6. task[b] # "none"
  BY <1>2 DEF DiskInv, Disk, WorkerOK
<1>7. ASSUME NEW q \in Runs
      PROVE  WorkerOK(q)'
  <2>1. WorkerOK(q)
    BY DEF DiskInv, Disk
  <2> QED
    BY <1>2, <1>3, <1>6, <2>1, BatchOfRun DEF WorkerOK
<1>8. Unowned'
  BY <1>2, <1>3, ProcNames DEF DiskInv, Disk, Unowned
<1> QED
  BY <1>5, <1>7, <1>8 DEF Disk

LEMMA DiskAfterGather ==
    ASSUME DiskInv, NEW p \in Procs, Gather(p)
    PROVE  Disk'
<1>1. PICK o : o = Op(p)
  OBVIOUS
<1>2. /\ o.do = "gather" /\ Do(p, <<>>) /\ o \in Operations /\ Pending(p, o)
      /\ o.batch \in Batches
  BY <1>1, HeadFacts, OperationFields DEF Gather, Busy
<1>3. PICK b \in Batches : b = o.batch
  BY <1>2
<1>4. /\ owner[b] = p /\ task[b] = "gathering" /\ \A r \in RunSet(b) : worker[r] = "none"
      /\ UNCHANGED <<row, dir, result, diff, lock, owner, task>>
      /\ worker' = [r \in Runs |-> IF r \in RunSet(b) /\ Exists(r)
                                   THEN "waiting" ELSE worker[r]]
  BY <1>1, <1>2, <1>3 DEF Pending, Gather, store, rows, files
<1>5. Program(<<>>) /\ Len(<<>>) = 0
  BY EmptyProgram
<1>6. \A r \in RunSet(b) : r \in Runs /\ ~diff[r]
  BY <1>4, WorkerOf
<1>7. \A x \in Operations, i \in 1..Len(<<>>) : x = <<>>[i] => Pending(p, x)'
  BY <1>5
<1>8. \A r \in Runs : r \notin RunSet(b) => worker'[r] = worker[r]
  BY <1>4
<1> QED
  BY <1>2, <1>4, <1>5, <1>6, <1>7, <1>8, DiskAfterBatch

LEMMA DiskAfterRefused ==
    ASSUME DiskInv, NEW p \in Procs, Refused(p)
    PROVE  Disk'
<1>1. PICK o : o = Op(p)
  OBVIOUS
<1>2. /\ o.do \in {"progress", "finalize", "result"} /\ ExecuteRaises(o.run)
      /\ UNCHANGED <<row, dir, result, diff, lock>>
  BY <1>1 DEF Refused, store, rows, files
<1>3. o \in Operations /\ Held(p, o)
  BY <1>1, HeadFacts DEF Refused, Busy
<1>4. o.run \in Runs /\ Owner(o.run) = p /\ worker[o.run] # "none"
  BY <1>2, <1>3, OperationFields DEF Held
<1> QED
  BY <1>2, <1>4, DiskAfterRaise, RowsKept

LEMMA DiskAfterStartFails ==
    ASSUME DiskInv, NEW p \in Procs, StartFails(p)
    PROVE  Disk'
<1>1. PICK o : o = Op(p)
  OBVIOUS
<1>2. /\ o.do = "mark" /\ MarkRaises(o.runs) /\ Forgotten(p) /\ lock = Free
      /\ UNCHANGED lock
  BY <1>1 DEF StartFails, MarkRaises
<1>3. o.runs \subseteq Runs
  BY <1>1, <1>2, HeadFacts, OperationFields DEF StartFails, Busy
<1>4. PICK S \in SUBSET (o.runs \ Unwritable(o.runs)) : MarkedOnDisk(S)
  BY <1>2 DEF MarkRaises
<1>5. S \in SUBSET Runs /\ \A r \in S : dir[r] = "present"
  BY <1>3 DEF Unwritable
<1>6. \A r \in Runs : RowOK(r)'
  BY <1>4, <1>5, MarkedRowOK
<1>7. UNCHANGED <<row, dir, diff>>
  BY <1>4 DEF MarkedOnDisk, rows
<1> QED
  BY <1>2, <1>6, <1>7, DiskAfterStop

LEMMA StepDisk ==
    ASSUME DiskInv, NEW p \in Procs, Step(p)
    PROVE  Disk'
BY StoreSteps, StoreStepDisk, DiskAfterGather, DiskAfterReadActive, DiskAfterStartFails,
   DiskAfterRefused DEF Step

LEMMA DiskAfterEpisodeRaises ==
    ASSUME DiskInv, NEW r \in Runs, EpisodeRaises(r)
    PROVE  Disk'
<1>1. /\ Owner(r) \in up /\ worker[r] = "episode" /\ ExecuteRaises(r)
      /\ UNCHANGED <<row, dir, result, diff, lock>>
  BY DEF EpisodeRaises, Idle, store, rows, files
<1>2. Owner(r) \in Procs
  BY <1>1, BatchOfRun, OwnerOfTask DEF Owner
<1> QED
  BY <1>1, <1>2, DiskAfterRaise, RowsKept

LEMMA DiskAfterMkdirFails ==
    ASSUME DiskInv, NEW p \in Procs, MkdirFails(p)
    PROVE  Disk'
<1>1. UNCHANGED <<row, dir, result, diff, lock>>
  BY DEF MkdirFails, store, rows, files
<1>2. \A r \in Runs : RowOK(r)'
  BY <1>1, RowsKept
<1>3. CASE Forgotten(p)
  BY <1>1, <1>2, <1>3, DiskAfterStop
<1>4. CASE ~Forgotten(p)
  <2>1. PICK o : o = Op(p)
    OBVIOUS
  <2>2. /\ o.do = "mkdir" /\ o \in Operations /\ Pending(p, o) /\ o.run \in Runs
    BY <2>1, HeadFacts, OperationFields DEF MkdirFails, Busy
  <2>3. PICK b \in Batches : b = BatchOf(o.run)
    BY <2>2, BatchOfRun
  <2>4. /\ owner[b] = p /\ task[b] = "scheduled" /\ Do(p, <<>>)
        /\ UNCHANGED <<owner, worker>>
        /\ task'[b] = "none" /\ \A c \in Batches : c # b => task'[c] = task[c]
    BY <1>4, <2>1, <2>2, <2>3 DEF MkdirFails, Pending, Owner, DiskInv, Typed, TypeOK
  <2>5. \A q \in Procs, x \in Operations : q # p /\ Pending(q, x) =>
           Pending(q, x)' /\ (Held(q, x) => Held(q, x)')
    <3>1. \A c \in Batches : owner[c] # Nobody /\ owner[c] # p => task'[c] = task[c]
      BY <2>4
    <3> QED
      BY <1>1, <2>4, <3>1, OthersKept
  <2>6. Heads' /\ Pendings'
    <3>1. Program(<<>>) /\ Len(<<>>) = 0
      BY EmptyProgram
    <3>2. \A x \in Operations, i \in 1..Len(<<>>) : x = <<>>[i] => Pending(p, x)'
      BY <3>1
    <3>3. Heads'
      BY <2>4, <2>5, <3>1, HeadsLoaded
    <3>4. Pendings'
      BY <2>4, <2>5, <3>1, <3>2, PendingsLoaded
    <3> QED
      BY <3>3, <3>4
  <2>7. ASSUME NEW r \in Runs
        PROVE  WorkerOK(r)'
    <3>1. WorkerOK(r) /\ BatchOf(r) \in Batches
      BY BatchOfRun DEF DiskInv, Disk
    <3> QED
      BY <1>1, <2>4, <3>1 DEF WorkerOK
  <2>8. Unowned'
    BY <1>1, <2>4, UnownedKept
  <2> QED
    BY <1>2, <2>6, <2>7, <2>8 DEF Disk
<1> QED
  BY <1>3, <1>4

LEMMA DiskAfterResultFails ==
    ASSUME DiskInv, NEW p \in Procs, ResultFails(p)
    PROVE  Disk'
<1>1. PICK o : o = Op(p)
  OBVIOUS
<1>2. /\ o.do = "result" /\ ExecuteRaises(o.run) /\ lock = Free
      /\ dir[o.run] = "present" /\ result[o.run] = "none"
      /\ UNCHANGED <<row, dir, diff, lock>>
  BY <1>1 DEF ResultFails, ResultRefused, rows
<1>3. o \in Operations /\ Held(p, o)
  BY <1>1, HeadFacts DEF ResultFails, Busy
<1>4. o.run \in Runs /\ Owner(o.run) = p /\ worker[o.run] # "none"
  BY <1>2, <1>3, OperationFields DEF Held
<1>5. row[o.run].status \in Active
  BY <1>2, <1>4, WritableIsActive
<1>6. \A r \in Runs : r # o.run => result'[r] = result[r]
  BY <1>1, <1>4 DEF ResultFails, DiskInv, Typed, TypeOK, StoreTypeOK
<1>7. ASSUME NEW r \in Runs
      PROVE  RowOK(r)'
  <2>1. RowOK(r)
    BY DEF DiskInv, Disk
  <2>2. CASE r = o.run
    BY <1>2, <1>5, <2>1, <2>2, StatusNames DEF RowOK
  <2>3. CASE r # o.run
    BY <1>2, <1>6, <2>1, <2>3 DEF RowOK
  <2> QED
    BY <2>2, <2>3
<1> QED
  BY <1>2, <1>4, <1>7, DiskAfterRaise

LEMMA DiskAfterDeleteFails ==
    ASSUME DiskInv, NEW p \in Procs, DeleteFails(p)
    PROVE  Disk'
<1>1. PICK o : o = Op(p)
  OBVIOUS
<1>2. /\ o.do \in {"delete_rows", "rmtree"} /\ Do(p, <<>>)
      /\ UNCHANGED <<row, result, diff, lock, owner, task, worker>>
      /\ \/ /\ o.do = "delete_rows"
            /\ dir' = [dir EXCEPT ![o.run] = IF dir[o.run] = "renamed"
                                             THEN "present" ELSE dir[o.run]]
         \/ dir' = dir
  BY <1>1 DEF DeleteFails, rows
<1>3. o \in Operations /\ Held(p, o)
  BY <1>1, HeadFacts DEF DeleteFails, Busy
<1>4. o.run \in Runs /\ p = Api /\ row[o.run].status \in Terminal \cup {"gone"}
      /\ (dir' # dir => row[o.run].status \in Terminal /\ dir'[o.run] = "present")
      /\ \A r \in Runs : r # o.run => dir'[r] = dir[r]
  BY <1>2, <1>3, OperationFields DEF Held, DiskInv, Typed, TypeOK, StoreTypeOK
<1>5. ASSUME NEW r \in Runs
      PROVE  RowOK(r)'
  <2>1. RowOK(r)
    BY DEF DiskInv, Disk
  <2> QED
    BY <1>2, <1>4, <2>1, StatusNames DEF RowOK
<1>6. \A q \in Procs, x \in Operations : q # p /\ Held(q, x) => Held(q, x)'
  <2> TAKE q \in Procs, x \in Operations
  <2> SUFFICES ASSUME q # p, Held(q, x)
               PROVE  Held(q, x)'
    OBVIOUS
  <2>1. x.do \in {"mkdir", "commit"} => x.run # o.run
    BY <1>4, StatusNames DEF Held
  <2>2. x.do \in {"mkdir", "commit"} => x.run \in Runs
    BY OperationFields
  <2>3. x.do \notin {"rename", "delete_rows", "rmtree", "marked"}
    BY <1>4 DEF Held
  <2> QED
    BY <1>2, <1>4, <2>1, <2>2, <2>3 DEF Held, Owner
<1>7. \A q \in Procs, x \in Operations : Pending(q, x) => Pending(q, x)'
  BY <1>2 DEF Pending, Owner
<1>8. Program(<<>>) /\ Len(<<>>) = 0
  BY EmptyProgram
<1>9. \A x \in Operations, i \in 1..Len(<<>>) : x = <<>>[i] => Pending(p, x)'
  BY <1>8
<1>10. Heads'
  BY <1>2, <1>6, <1>8, HeadsLoaded
<1>11. Pendings'
  BY <1>2, <1>7, <1>8, <1>9, PendingsLoaded
<1> QED
  BY <1>2, <1>5, <1>10, <1>11, WorkersKept, UnownedKept DEF Disk

LEMMA DiskAfterCrash ==
    ASSUME DiskInv, NEW p \in Procs, Crash(p)
    PROVE  Disk'
<1>1. /\ UNCHANGED <<row, dir, result, diff>> /\ (lock' = lock \/ lock = p)
      /\ Forgotten(p)
  BY DEF Crash, rows, files
<1>2. \A r \in Runs : RowOK(r)'
  BY <1>1, RowsKept
<1> QED
  BY <1>1, <1>2, DiskAfterStop

LEMMA DiskAfterDeleteDiff ==
    ASSUME DiskInv, NEW r \in Runs, DeleteCandidateDiff(r)
    PROVE  Disk'
<1>1. /\ UNCHANGED <<row, dir, result, lock, todo, owner, task, worker>>
      /\ \A q \in Runs : diff'[q] => diff[q]
  BY DEF DeleteCandidateDiff, DeleteCandidateArtifact, rows, memory, DiskInv, Typed,
         TypeOK, StoreTypeOK
<1>2. ASSUME NEW q \in Runs
      PROVE  RowOK(q)' /\ WorkerOK(q)'
  <2>1. RowOK(q) /\ WorkerOK(q)
    BY DEF DiskInv, Disk
  <2> QED
    BY <1>1, <2>1 DEF RowOK, WorkerOK
<1>3. Heads'
  <2>1. ASSUME NEW q \in Procs, NEW x \in Operations, Held(q, x)
        PROVE  Held(q, x)'
    <3>1. x.do \in {"finalize", "result", "commit"} => x.run \in Runs
      BY OperationFields
    <3> QED
      BY <1>1, <2>1, <3>1 DEF Held, Owner
  <2>2. \A q \in Procs : Op(q)' = Op(q)
    BY <1>1 DEF Op
  <2> QED
    BY <1>1, <2>1, <2>2 DEF DiskInv, Disk, Heads
<1>4. Pendings'
  BY <1>1 DEF DiskInv, Disk, Pendings, Pending, Ops, Owner
<1> QED
  BY <1>1, <1>2, <1>3, <1>4, UnownedKept DEF Disk

LEMMA DiskAfterStutter ==
    ASSUME DiskInv, UNCHANGED <<row, dir, result, diff, lock, todo, owner, task, worker>>
    PROVE  Disk'
<1>1. Heads'
  <2>1. \A q \in Procs, x \in Operations : Held(q, x) => Held(q, x)'
    BY DEF Held, Owner
  <2>2. \A q \in Procs : Op(q)' = Op(q)
    BY DEF Op
  <2> QED
    BY <2>1, <2>2 DEF DiskInv, Disk, Heads
<1>2. Pendings'
  BY DEF DiskInv, Disk, Pendings, Pending, Ops, Owner
<1> QED
  BY <1>1, <1>2, RowsKept, WorkersKept, UnownedKept DEF Disk

LEMMA NextDisk == DiskInv /\ [Next]_vars => DiskInv'
<1> SUFFICES ASSUME DiskInv, [Next]_vars
             PROVE  Disk'
  BY NextTyped DEF DiskInv
<1>1. CASE StartCli \/ UNCHANGED vars
  <2>1. UNCHANGED <<row, dir, result, diff, lock, todo, owner, task, worker>>
    BY <1>1 DEF StartCli, vars, memory, store, rows, files
  <2> QED
    BY <2>1, DiskAfterStutter
<1>2. CASE Request
  BY <1>2, DiskAfterCreate, DiskAfterCancel, DiskAfterDeleteRun, DiskAfterDeleteDiff
  DEF Request
<1>3. CASE Failure
  BY <1>3, DiskAfterEpisodeRaises, DiskAfterMkdirFails, DiskAfterResultFails,
     DiskAfterDeleteFails, DiskAfterCrash DEF Failure
<1>4. CASE CliExits
  <2>1. Cli \in Procs /\ Forgotten(Cli) /\ UNCHANGED <<row, dir, result, diff, lock>>
    BY <1>4 DEF CliExits, Idle, store, rows, files, DiskInv, Typed, TypeOK
  <2> QED
    BY <2>1, RowsKept, DiskAfterStop
<1>5. CASE Progress /\ ~CliExits
  BY <1>5, DiskAfterStartApi, StepDisk, DiskAfterStartBatch, DiskAfterFinishBatch,
     DiskAfterSkipRun, DiskAfterStartEpisode, DiskAfterEndEpisode DEF Progress
<1> QED
  BY <1>1, <1>2, <1>3, <1>4, <1>5 DEF Next

LEMMA InitDisk == Init => DiskInv
<1> SUFFICES ASSUME Init
             PROVE  DiskInv
  OBVIOUS
<1>1. Typed
  BY InitTypes, EmptyProgram DEF Typed, TodoOK, Init, TypeOK
<1>2. \A p \in Procs : todo[p] = <<>> /\ Ops(p) = {}
  BY DEF Init, Ops
<1>3. \A r \in Runs : RowOK(r) /\ WorkerOK(r)
  BY BatchOfRun, StatusNames DEF Init, StoreInit, RowOK, WorkerOK
<1>4. Unowned
  BY BatchOfRun DEF Init, StoreInit, Unowned
<1> QED
  BY <1>1, <1>2, <1>3, <1>4 DEF DiskInv, Disk, Heads, Pendings

(* Whoever finalizes, marks or deletes a run, and wherever it stops: the   *)
(* directory of a terminal run holds a result.json that agrees with its row. *)
THEOREM RecordsCorrect == Spec => []RecordsOnDisk
<1>1. DiskInv => RecordsOnDisk
  BY DEF DiskInv, Disk, RowOK, RecordsOnDisk
<1> QED
  BY <1>1, InitDisk, NextDisk, PTL DEF Spec

-----------------------------------------------------------------------------
(***************************************************************************)
(* The result files.                                                       *)
(***************************************************************************)
ResultKept == \A r \in Runs : result[r] # "none" => result'[r] \in {result[r], "none"}

LEMMA StoreStepKeepsResults ==
    ASSUME Typed, NEW p \in Procs, StoreStep(p)
    PROVE  ResultKept
<1>1. PICK o : o = Op(p)
  OBVIOUS
<1>2. o \in Operations /\ Performed(p, o)
  BY <1>1, HeadIsPending DEF StoreStep, Busy
<1>3. result \in [Runs -> Terminal \cup {"none", "partial"}]
  BY DEF Typed, TypeOK, StoreTypeOK
<1>4. CASE o.do = "result" /\ FinalizeWrites(p, o.run, o.status)
  <2>1. o.run \in Runs /\ result[o.run] = "none"
        /\ result' = [result EXCEPT ![o.run] = o.status]
    BY <1>2, <1>4, OperationFields DEF FinalizeWrites, ResultRefused
  <2> QED
    BY <1>3, <2>1 DEF ResultKept
<1>5. CASE o.do = "rmtree" /\ RemoveDirectory(o.run)
  <2>1. o.run \in Runs
    BY <1>2, <1>5, OperationFields
  <2> QED
    BY <1>3, <1>5, <2>1 DEF RemoveDirectory, ResultKept, files
<1>6. CASE o.do = "mark" /\ MarkWrites(p, o.runs)
  BY <1>6 DEF MarkWrites, MarkedOnDisk, ResultKept
<1>7. CASE /\ ~(o.do = "result" /\ FinalizeWrites(p, o.run, o.status))
           /\ ~(o.do = "rmtree" /\ RemoveDirectory(o.run))
           /\ ~(o.do = "mark" /\ MarkWrites(p, o.runs))
  <2>1. result' = result
    BY <1>2, <1>7
    DEF Performed, CreateBatch, CreateRun, MakeDirectory, UpdateBatchStatus, AppendEvent,
        UpdateRunProgress, FinalizeStarts, FinalizeCommits, RenameDirectory, DeleteRows,
        MarkCommits, files, rows
  <2> QED
    BY <2>1 DEF ResultKept
<1> QED
  BY <1>4, <1>5, <1>6, <1>7

(* result.json is written once, whatever process comes first: a restart, an*)
(* episode that ends, a write that fails half way.                         *)
THEOREM ResultsCorrect == Spec => ResultIsFinal
<1>1. Typed /\ [Next]_vars => [ResultKept]_vars
  <2> SUFFICES ASSUME Typed, [Next]_vars
               PROVE  ResultKept \/ UNCHANGED vars
    OBVIOUS
  <2>1. UNCHANGED result => ResultKept
    BY DEF ResultKept
  <2>2. CASE StartCli \/ Request
    <3>1. UNCHANGED result
      BY <2>2 DEF StartCli, Request, Create, Cancel, DeleteRun, DeleteCandidateDiff,
                  DeleteCandidateArtifact, store, files
    <3> QED
      BY <2>1, <3>1
  <2>3. CASE Failure
    <3>1. ASSUME NEW p \in Procs, ResultFails(p)
          PROVE  ResultKept
      <4>1. PICK o : o = Op(p)
        OBVIOUS
      <4>2. o \in Operations /\ o.do = "result" /\ result[o.run] = "none"
        BY <3>1, <4>1, HeadIsPending DEF ResultFails, Busy, ResultRefused
      <4>3. PICK left \in {"none", "partial"} : result' = [result EXCEPT ![o.run] = left]
        BY <3>1, <4>1 DEF ResultFails
      <4>4. o.run \in Runs /\ result \in [Runs -> Terminal \cup {"none", "partial"}]
        BY <4>2, OperationFields DEF Typed, TypeOK, StoreTypeOK
      <4> QED
        BY <4>2, <4>3, <4>4 DEF ResultKept
    <3>2. CASE ~ \E p \in Procs : ResultFails(p)
      <4>1. UNCHANGED result
        BY <2>3, <3>2 DEF Failure, EpisodeRaises, MkdirFails, DeleteFails, Crash, store, files
      <4> QED
        BY <2>1, <4>1
    <3> QED
      BY <3>1, <3>2
  <2>4. CASE Progress
    <3>1. ASSUME NEW p \in Procs, Step(p)
          PROVE  ResultKept
      <4>1. CASE StoreStep(p)
        BY <4>1, StoreStepKeepsResults
      <4>2. CASE StartFails(p)
        BY <4>2 DEF StartFails, MarkRaises, MarkedOnDisk, ResultKept
      <4>3. CASE Gather(p) \/ ReadActive(p) \/ Refused(p)
        <5>1. UNCHANGED result
          BY <4>3 DEF Gather, ReadActive, Refused, store, files
        <5> QED
          BY <2>1, <5>1
      <4> QED
        BY <3>1, <4>1, <4>2, <4>3, StoreSteps DEF Step
    <3>2. CASE ~ \E p \in Procs : Step(p)
      <4>1. UNCHANGED result
        BY <2>4, <3>2 DEF Progress, StartApi, CliExits, StartBatch, FinishBatch, SkipRun,
                          StartEpisode, EndEpisode, store, files
      <4> QED
        BY <2>1, <4>1
    <3> QED
      BY <3>1, <3>2
  <2> QED
    BY <2>2, <2>3, <2>4 DEF Next
<1>2. Init => Typed
  BY InitTypes, EmptyProgram DEF Typed, TodoOK, Init, TypeOK
<1>3. [ResultKept]_vars => [\A r \in Runs : result[r] # "none" =>
                               result'[r] \in {result[r], "none"}]_vars
  BY DEF ResultKept
<1> QED
  BY <1>1, <1>2, <1>3, NextTyped, PTL DEF Spec, ResultIsFinal

(***************************************************************************)
(* The API without the CLI.                                                *)
(***************************************************************************)
ApiOnly == Procs = {Api}

ActiveRun(r) == row[r].status \in Active

(* What the rows and the events say of one another.                        *)
Books ==
    /\ \A e \in Logged : e.run # NoRun \/ e.type = "run_finished"
          => e.run \in RunSet(e.batch)
    /\ AnnouncedIsFinal
    /\ NothingOfDeleted
    /\ BatchSettled
    /\ \A r \in Runs : batch[BatchOf(r)] = "gone" => row[r].status \in {"none", "gone"}

(* What holds of every operation the API has still to do.                  *)
PendingAlone(o) ==
    /\ o.do = "create_batch" => owner[o.batch] = Api
    /\ o.do \in {"create_run", "mkdir"} => batch[BatchOf(o.run)] \in {"none", "queued"}
    /\ o.do = "gather" => \A r \in RunSet(o.batch) : row[r].status \in {"none", "queued"}
    /\ o.do = "event" =>
          /\ batch[o.batch] # "gone"
          /\ o.run # NoRun \/ o.type = "run_finished"
                => o.run \in RunSet(o.batch) /\ row[o.run].status # "gone"

(* What holds of the operation the API is about to do.                     *)
HeadAlone(o) ==
    /\ o.do \in {"active", "mark", "marked"} => \A b \in Batches : task[b] = "none"
    /\ o.do \in {"mark", "marked"} => o.runs = ActiveRows
    /\ o.do = "status" =>
          /\ o.status \in {"running", "cancelling"} \cup BatchTerminal
          /\ o.status \in BatchTerminal => \A r \in RunSet(o.batch) : ~ActiveRun(r)
    /\ o.do = "event" /\ o.type = "run_finished" => row[o.run].status \in Terminal

HeadsAlone == \A o \in Operations : todo[Api] # <<>> /\ o = Op(Api) => HeadAlone(o)
PendingsAlone == \A o \in Operations : o \in Ops(Api) => PendingAlone(o)

Finalizing(r) ==
    \E o \in Operations : /\ todo[Api] # <<>> /\ o = Op(Api)
                          /\ o.do \in {"finalize", "result", "commit"} /\ o.run = r

Gathering(b) == \E o \in Operations : o \in Ops(Api) /\ o.do = "gather" /\ o.batch = b

(* A run of a batch that gathers is waited for until its row has ended.    *)
Served(r) ==
    /\ task[BatchOf(r)] = "gathering" /\ ActiveRun(r) =>
          \/ worker[r] \in {"waiting", "episode", "raised"}
          \/ Finalizing(r)
          \/ Gathering(BatchOf(r))
    /\ worker[r] \in {"waiting", "episode"} => ActiveRun(r)
    /\ task[BatchOf(r)] = "scheduled" => row[r].status \in {"none", "queued"}

Memory ==
    /\ \A b \in Batches : owner[b] = Nobody => batch[b] = "none"
    /\ Api \notin up => \A b \in Batches : task[b] = "none"

Alone ==
    /\ Books
    /\ Memory
    /\ ActiveIsOwned
    /\ HeadsAlone
    /\ PendingsAlone
    /\ \A r \in Runs : Served(r)

AloneInv == DiskInv /\ Alone

LEMMA OnlyApi ==
    ASSUME ApiOnly, AloneInv
    PROVE  /\ Api \in Procs /\ up \subseteq {Api}
           /\ \A b \in Batches : owner[b] = Api \/ owner[b] = Nobody
           /\ \A r \in Runs : Owner(r) = Api \/ Owner(r) = Nobody
           /\ \A p \in Procs : p = Api
           /\ Api # Nobody /\ Api # Cli
BY ProcNames, BatchOfRun DEF ApiOnly, AloneInv, DiskInv, Typed, TypeOK, Owner

LEMMA BooksKept ==
    ASSUME Books, UNCHANGED <<batch, row, log>>
    PROVE  Books'
BY DEF Books, AnnouncedIsFinal, NothingOfDeleted, BatchSettled, Logged

LEMMA HeadOfApi ==
    ASSUME AloneInv, NEW o, todo[Api] # <<>>, o = Op(Api)
    PROVE  /\ o \in Operations /\ o \in Ops(Api)
           /\ Held(Api, o) /\ Pending(Api, o) /\ HeadAlone(o) /\ PendingAlone(o)
<1>1. o \in Operations /\ o \in Ops(Api) /\ Held(Api, o) /\ Pending(Api, o)
  BY HeadFacts, ProcNames DEF AloneInv
<1> QED
  BY <1>1 DEF AloneInv, Alone, HeadsAlone, PendingsAlone

(* What the API has to do comes after what it does next.                   *)
LEMMA HeadIsFirst ==
    ASSUME AloneInv, NEW x \in Ops(Api), todo[Api] # <<>>, x # Op(Api)
    PROVE  Before(Op(Api), x)
<1>1. Program(todo[Api])
  BY ProcNames DEF AloneInv, DiskInv, Typed, TodoOK
<1>2. PICK t : t = todo[Api]
  OBVIOUS
<1>3. PICK i \in 1..Len(t) : x = t[i]
  BY <1>2 DEF Ops
<1>4. /\ Head(t) = t[1] /\ Len(t) \in Nat \ {0} /\ Len(Tail(t)) = Len(t) - 1
      /\ \A j \in 1..Len(Tail(t)) : Before(t[1], t[j + 1])
  BY <1>1, <1>2, TailOfProgram
<1>5. i # 1
  BY <1>2, <1>3, <1>4 DEF Op
<1>6. i - 1 \in 1..Len(Tail(t)) /\ (i - 1) + 1 = i
  BY <1>4, <1>5
<1>7. Before(t[1], t[i])
  BY <1>4, <1>6
<1> QED
  BY <1>2, <1>3, <1>4, <1>7 DEF Op

(* An idle API has neither a run to finalize nor a gather to do.           *)
LEMMA IdleApi ==
    ASSUME AloneInv, todo[Api] = <<>>
    PROVE  /\ Ops(Api) = {}
           /\ \A r \in Runs : ~Finalizing(r)
           /\ \A b \in Batches : ~Gathering(b)
<1>1. Len(todo[Api]) = 0
  BY EmptySeq
<1>2. Ops(Api) = {}
  BY <1>1 DEF Ops
<1> QED
  BY <1>2 DEF Finalizing, Gathering

(* The API starts a program, or drops what it had to do.                   *)
LEMMA AloneAfterLoad ==
    ASSUME ApiOnly, AloneInv, NEW t, Program(t), Do(Api, t),
           UNCHANGED <<batch, row, log>>, Memory', ActiveIsOwned',
           \A x \in Operations : t # <<>> /\ x = t[1] => HeadAlone(x)',
           \A x \in Operations, i \in 1..Len(t) : x = t[i] => PendingAlone(x)',
           \A r \in Runs : Served(r)'
    PROVE  Alone'
<1>1. todo'[Api] = t
  BY Loaded, ProcNames DEF AloneInv, DiskInv, Typed
<1>2. t # <<>> => Head(t) = t[1]
  BY TailOfProgram
<1>3. HeadsAlone'
  BY <1>1, <1>2 DEF HeadsAlone, Op
<1>4. PendingsAlone'
  BY <1>1 DEF PendingsAlone, Ops
<1>5. Books'
  BY BooksKept DEF AloneInv, Alone
<1> QED
  BY <1>3, <1>4, <1>5 DEF Alone

(* What a program shows of the run it finalizes and the batch it gathers.  *)
LEMMA LoadedShows ==
    ASSUME AloneInv, NEW t, Program(t), Do(Api, t)
    PROVE  /\ \A r \in Runs :
                 t # <<>> /\ t[1].do \in {"finalize", "result", "commit"} /\ t[1].run = r
                    => Finalizing(r)'
           /\ \A b \in Batches : \A i \in 1..Len(t) :
                 t[i].do = "gather" /\ t[i].batch = b => Gathering(b)'
<1>1. todo'[Api] = t
  BY Loaded, ProcNames DEF AloneInv, DiskInv, Typed
<1>2. t # <<>> => Head(t) = t[1] /\ Head(t) \in Operations
  BY TailOfProgram
<1>3. t \in Seq(Operations)
  BY DEF Program
<1>4. \A i \in 1..Len(t) : t[i] \in Operations
  BY <1>3, ElementOfSeq
<1>5. ASSUME NEW r \in Runs, t # <<>>, t[1].do \in {"finalize", "result", "commit"},
             t[1].run = r
      PROVE  Finalizing(r)'
  BY <1>1, <1>2, <1>5 DEF Finalizing, Op
<1>6. ASSUME NEW b \in Batches, NEW i \in 1..Len(t), t[i].do = "gather", t[i].batch = b
      PROVE  Gathering(b)'
  BY <1>1, <1>4, <1>6 DEF Gathering, Ops
<1> QED
  BY <1>5, <1>6

-----------------------------------------------------------------------------
(***************************************************************************)
(* The API alone: routes and restarts.                                     *)
(***************************************************************************)
LEMMA ServedWhenIdle ==
    ASSUME AloneInv, todo[Api] = <<>>, NEW r \in Runs,
           task[BatchOf(r)] = "gathering", ActiveRun(r)
    PROVE  worker[r] \in {"waiting", "episode", "raised"}
BY IdleApi, BatchOfRun DEF AloneInv, Alone, Served

LEMMA IdleIsNotStarting == todo[Api] = <<>> => ~Starting
BY DEF Starting

LEMMA OwnedKept ==
    ASSUME AloneInv, UNCHANGED row, ~Starting, up' \subseteq up, faults' = 0 => faults = 0,
           \A b \in Batches : task[b] # "none" => task'[b] # "none" \/ faults' # 0
    PROVE  ActiveIsOwned'
BY BatchOfRun DEF AloneInv, Alone, ActiveIsOwned

LEMMA MemoryKept ==
    ASSUME AloneInv, UNCHANGED batch, Api \in up',
           \A b \in Batches : owner'[b] = Nobody => owner[b] = Nobody
    PROVE  Memory'
BY DEF AloneInv, Alone, Memory

LEMMA AloneAfterStartApi ==
    ASSUME ApiOnly, AloneInv, StartApi
    PROVE  Alone'
<1>1. PICK t : t = <<[do |-> "active"]>>
  OBVIOUS
<1>2. Program(t) /\ Do(Api, t)
  BY <1>1, MarkPrograms DEF StartApi
<1>3. Len(t) = 1 /\ t[1].do = "active" /\ t # <<>>
  BY <1>1
<1>4. UNCHANGED <<batch, row, log, owner, task, worker>> /\ Api \notin up /\ Api \in up'
  BY DEF StartApi, store, rows
<1>5. \A b \in Batches : task[b] = "none"
  BY <1>4 DEF AloneInv, Alone, Memory
<1>6. Memory'
  BY <1>4, MemoryKept
<1>7. ActiveIsOwned'
  <2>1. todo'[Api] = t /\ Head(t) = t[1]
    BY <1>2, <1>3, Loaded, ProcNames, TailOfProgram DEF AloneInv, DiskInv, Typed
  <2>2. Starting'
    BY <1>3, <2>1 DEF Starting, Op
  <2> QED
    BY <2>2 DEF ActiveIsOwned
<1>8. \A x \in Operations : t # <<>> /\ x = t[1] => HeadAlone(x)'
  BY <1>3, <1>4, <1>5 DEF HeadAlone
<1>9. \A x \in Operations, i \in 1..Len(t) : x = t[i] => PendingAlone(x)'
  BY <1>3 DEF PendingAlone
<1>10. \A r \in Runs : Served(r)'
  <2> TAKE r \in Runs
  <2>1. Served(r) /\ BatchOf(r) \in Batches
    BY BatchOfRun DEF AloneInv, Alone
  <2> QED
    BY <1>4, <1>5, <2>1 DEF Served, ActiveRun
<1> QED
  BY <1>2, <1>4, <1>6, <1>7, <1>8, <1>9, <1>10, AloneAfterLoad

LEMMA AloneAfterReadActive ==
    ASSUME ApiOnly, AloneInv, ReadActive(Api)
    PROVE  Alone'
<1>1. PICK t : t = <<[do |-> "mark", runs |-> ActiveRows], [do |-> "marked", runs |-> ActiveRows]>>
  OBVIOUS
<1>2. ActiveRows \in SUBSET Runs
  BY DEF ActiveRows
<1>3. Program(t) /\ Do(Api, t)
  BY <1>1, <1>2, MarkPrograms DEF ReadActive
<1>4. /\ Len(t) = 2 /\ t[1].do = "mark" /\ t[2].do = "marked" /\ t # <<>>
      /\ t[1].runs = ActiveRows
  BY <1>1
<1>5. UNCHANGED <<batch, row, log, up, owner, task, worker>>
  BY DEF ReadActive, store, rows
<1>6. Api \in up /\ \A b \in Batches : task[b] = "none"
  <2>1. PICK o : o = Op(Api) /\ o.do = "active" /\ todo[Api] # <<>> /\ Api \in up
    BY DEF ReadActive, Busy
  <2> QED
    BY <2>1, HeadOfApi DEF HeadAlone
<1>7. Memory'
  BY <1>5, <1>6, MemoryKept
<1>8. ActiveIsOwned'
  <2>1. todo'[Api] = t /\ Head(t) = t[1]
    BY <1>3, <1>4, Loaded, ProcNames, TailOfProgram DEF AloneInv, DiskInv, Typed
  <2>2. Starting'
    BY <1>4, <2>1 DEF Starting, Op
  <2> QED
    BY <2>2 DEF ActiveIsOwned
<1>9. \A x \in Operations : t # <<>> /\ x = t[1] => HeadAlone(x)'
  <2>1. ActiveRows' = ActiveRows
    BY <1>5 DEF ActiveRows
  <2> QED
    BY <1>4, <1>5, <1>6, <2>1 DEF HeadAlone
<1>10. \A x \in Operations, i \in 1..Len(t) : x = t[i] => PendingAlone(x)'
  BY <1>4 DEF PendingAlone
<1>11. \A r \in Runs : Served(r)'
  <2> TAKE r \in Runs
  <2>1. Served(r) /\ BatchOf(r) \in Batches
    BY BatchOfRun DEF AloneInv, Alone
  <2> QED
    BY <1>5, <1>6, <2>1 DEF Served, ActiveRun
<1> QED
  BY <1>3, <1>5, <1>7, <1>8, <1>9, <1>10, <1>11, AloneAfterLoad

(* The API starts a program that leaves its tasks alone.                   *)
LEMMA AloneAfterRoute ==
    ASSUME ApiOnly, AloneInv, Idle(Api), NEW t, Program(t), Do(Api, t),
           UNCHANGED <<batch, row, log, up, owner, task, worker, faults>>,
           \A x \in Operations : t # <<>> /\ x = t[1] => HeadAlone(x),
           \A x \in Operations, i \in 1..Len(t) : x = t[i] => PendingAlone(x)
    PROVE  Alone'
<1>1. Api \in up /\ todo[Api] = <<>>
  BY DEF Idle
<1>2. Memory' /\ ActiveIsOwned'
  BY <1>1, MemoryKept, OwnedKept, IdleIsNotStarting
<1>3. \A x \in Operations : HeadAlone(x) => HeadAlone(x)'
  BY DEF HeadAlone, ActiveRows, ActiveRun
<1>4. \A x \in Operations : PendingAlone(x) => PendingAlone(x)'
  BY DEF PendingAlone
<1>5. \A r \in Runs : Served(r)'
  <2> TAKE r \in Runs
  <2>1. Served(r)
    BY DEF AloneInv, Alone
  <2>2. task[BatchOf(r)] = "gathering" /\ ActiveRun(r)
           => worker[r] \in {"waiting", "episode", "raised"}
    BY <1>1, ServedWhenIdle
  <2> QED
    BY <2>1, <2>2 DEF Served, ActiveRun
<1> QED
  BY <1>2, <1>3, <1>4, <1>5, AloneAfterLoad

LEMMA AloneAfterCancel ==
    ASSUME ApiOnly, AloneInv, NEW b \in Batches, Cancel(b)
    PROVE  Alone'
<1>1. PICK t : t = <<[do |-> "status", batch |-> b, status |-> "cancelling"],
                     [do |-> "event", batch |-> b, type |-> "batch_cancelling",
                      run |-> NoRun]>>
  OBVIOUS
<1>2. Program(t) /\ Do(Api, t)
  BY <1>1, StatusPrograms DEF Cancel, EventTypes, BatchStatus, BatchActive
<1>3. Len(t) = 2 /\ t[1] = [do |-> "status", batch |-> b, status |-> "cancelling"]
      /\ t[2] = [do |-> "event", batch |-> b, type |-> "batch_cancelling", run |-> NoRun]
  BY <1>1
<1>4. /\ UNCHANGED <<batch, row, log, up, owner, task, worker, faults>>
      /\ Idle(Api) /\ BatchExists(b)
  BY DEF Cancel, MayCancel, store, rows
<1>5. \A x \in Operations : t # <<>> /\ x = t[1] => HeadAlone(x)
  <2>1. "cancelling" \notin BatchTerminal
    BY DEF BatchTerminal
  <2> QED
    BY <1>3, <2>1 DEF HeadAlone
<1>6. \A x \in Operations, i \in 1..Len(t) : x = t[i] => PendingAlone(x)
  <2>1. batch[b] # "gone"
    BY <1>4 DEF BatchExists
  <2>2. \A i \in 1..Len(t) : i = 1 \/ i = 2
    BY <1>3
  <2> QED
    BY <1>3, <2>1, <2>2 DEF PendingAlone
<1> QED
  BY <1>2, <1>4, <1>5, <1>6, AloneAfterRoute

LEMMA AloneAfterDeleteRun ==
    ASSUME ApiOnly, AloneInv, NEW r \in Runs, DeleteRun(r)
    PROVE  Alone'
<1>1. PICK t : t = <<[do |-> "rename", run |-> r], [do |-> "delete_rows", run |-> r],
                     [do |-> "rmtree", run |-> r]>>
  OBVIOUS
<1>2. Program(t) /\ Do(Api, t)
  BY <1>1, RunPrograms DEF DeleteRun
<1>3. /\ Len(t) = 3 /\ t[1].do = "rename" /\ t[2].do = "delete_rows" /\ t[3].do = "rmtree"
  BY <1>1
<1>4. UNCHANGED <<batch, row, log, up, owner, task, worker, faults>> /\ Idle(Api)
  BY DEF DeleteRun, store, rows
<1>5. \A x \in Operations : t # <<>> /\ x = t[1] => HeadAlone(x)
  BY <1>3 DEF HeadAlone
<1>6. \A x \in Operations, i \in 1..Len(t) : x = t[i] => PendingAlone(x)
  BY <1>3 DEF PendingAlone
<1> QED
  BY <1>2, <1>4, <1>5, <1>6, AloneAfterRoute

LEMMA AloneAfterDeleteDiff ==
    ASSUME ApiOnly, AloneInv, NEW r \in Runs, DeleteCandidateDiff(r)
    PROVE  Alone'
<1>1. UNCHANGED <<batch, row, log, up, owner, task, worker, todo, faults>> /\ Idle(Api)
  BY DEF DeleteCandidateDiff, DeleteCandidateArtifact, rows, memory
<1>2. Program(<<>>) /\ Len(<<>>) = 0
  BY EmptyProgram
<1>3. Do(Api, <<>>)
  BY <1>1 DEF Idle, Do, AloneInv, DiskInv, Typed, TypeOK
<1>4. \A x \in Operations, i \in 1..Len(<<>>) : x = <<>>[i] => PendingAlone(x)
  BY <1>2
<1> QED
  BY <1>1, <1>2, <1>3, <1>4, AloneAfterRoute

(* The API stops.                                                          *)
LEMMA AloneAfterStop ==
    ASSUME ApiOnly, AloneInv, Forgotten(Api), UNCHANGED <<batch, row, log>>
    PROVE  Alone'
<1>1. /\ Do(Api, <<>>) /\ Api \notin up' /\ owner' = owner
      /\ \A b \in Batches : task'[b] = IF owner[b] = Api THEN "none" ELSE task[b]
      /\ \A r \in Runs : worker'[r] = IF Owner(r) = Api THEN "none" ELSE worker[r]
  BY DEF Forgotten, Do, Owns
<1>2. \A b \in Batches : task'[b] = "none"
  BY <1>1, OnlyApi DEF AloneInv, DiskInv, Disk, Unowned
<1>3. Memory' /\ ActiveIsOwned'
  BY <1>1, <1>2 DEF Memory, ActiveIsOwned, AloneInv, Alone
<1>4. Program(<<>>) /\ Len(<<>>) = 0
  BY EmptyProgram
<1>5. \A x \in Operations, i \in 1..Len(<<>>) : x = <<>>[i] => PendingAlone(x)'
  BY <1>4
<1>6. \A r \in Runs : Served(r)'
  <2> TAKE r \in Runs
  <2>1. Served(r) /\ BatchOf(r) \in Batches
    BY BatchOfRun DEF AloneInv, Alone
  <2> QED
    BY <1>1, <1>2, <2>1 DEF Served, ActiveRun
<1> QED
  BY <1>1, <1>3, <1>4, <1>5, <1>6, AloneAfterLoad

-----------------------------------------------------------------------------
(***************************************************************************)
(* The API alone: failures.                                                *)
(***************************************************************************)
LEMMA NothingLoaded ==
    /\ Program(<<>>)
    /\ \A x \in Operations, i \in 1..Len(<<>>) : x = <<>>[i] => PendingAlone(x)'
<1>1. Program(<<>>) /\ Len(<<>>) = 0
  BY EmptyProgram
<1> QED
  BY <1>1

LEMMA NotGathering ==
    ASSUME AloneInv, NEW o, todo[Api] # <<>>, o = Op(Api),
           o.do \notin {"status", "event", "gather"}, NEW b \in Batches
    PROVE  ~Gathering(b)
<1> SUFFICES ASSUME NEW x \in Operations, x \in Ops(Api), x.do = "gather"
             PROVE  FALSE
  BY DEF Gathering
<1>1. x # o
  OBVIOUS
<1>2. Before(o, x)
  BY <1>1, HeadIsFirst
<1> QED
  BY <1>2 DEF Before

LEMMA AloneAfterRaise ==
    ASSUME ApiOnly, AloneInv, NEW r \in Runs, ExecuteRaises(r), Owner(r) = Api,
           UNCHANGED <<batch, row, log>>, Api \in up, ~Starting, faults' = 0 => faults = 0,
           \A q \in Runs : q # r => ~Finalizing(q),
           \A b \in Batches : ~Gathering(b)
    PROVE  Alone'
<1>1. PICK b \in Batches : b = BatchOf(r)
  BY BatchOfRun
<1>2. /\ Do(Api, <<>>) /\ owner' = owner /\ up' = up
      /\ task'[b] = "raised" /\ \A c \in Batches : c # b => task'[c] = task[c]
      /\ worker'[r] = "raised" /\ \A q \in Runs : q # r => worker'[q] = worker[q]
  BY <1>1 DEF ExecuteRaises, AloneInv, DiskInv, Typed, TypeOK
<1>3. Memory'
  BY <1>2, MemoryKept
<1>4. ActiveIsOwned'
  <2>1. \A c \in Batches : task[c] # "none" => task'[c] # "none"
    BY <1>2
  <2> QED
    BY <1>2, <2>1, OwnedKept
<1>5. ASSUME NEW q \in Runs
      PROVE  Served(q)'
  <2>1. Served(q) /\ BatchOf(q) \in Batches /\ (BatchOf(q) # b => q # r)
    BY <1>1, BatchOfRun DEF AloneInv, Alone
  <2>2. CASE BatchOf(q) = b
    BY <1>2, <2>1, <2>2 DEF Served, ActiveRun
  <2>3. CASE BatchOf(q) # b
    <3>1. ~Finalizing(q) /\ ~Gathering(BatchOf(q))
      BY <2>1, <2>3
    <3> QED
      BY <1>2, <2>1, <2>3, <3>1 DEF Served, ActiveRun
  <2> QED
    BY <2>2, <2>3
<1> QED
  BY <1>2, <1>3, <1>4, <1>5, NothingLoaded, AloneAfterLoad

LEMMA AloneAfterHeadRaises ==
    ASSUME ApiOnly, AloneInv, NEW o, Busy(Api), o = Op(Api),
           o.do \in {"progress", "finalize", "result"}, ExecuteRaises(o.run),
           UNCHANGED <<batch, row, log>>, faults' = 0 => faults = 0
    PROVE  Alone'
<1>1. Api \in up /\ todo[Api] # <<>>
  BY DEF Busy
<1>2. o.run \in Runs /\ Owner(o.run) = Api
  BY <1>1, HeadOfApi, OperationFields DEF Held
<1>3. \A b \in Batches : ~Gathering(b)
  BY <1>1, NotGathering
<1>4. \A q \in Runs : q # o.run => ~Finalizing(q)
  BY DEF Finalizing
<1>5. ~Starting
  BY DEF Starting
<1> QED
  BY <1>1, <1>2, <1>3, <1>4, <1>5, AloneAfterRaise

LEMMA AloneAfterRefused ==
    ASSUME ApiOnly, AloneInv, Refused(Api)
    PROVE  Alone'
<1>1. PICK o : o = Op(Api)
  OBVIOUS
<1>2. /\ Busy(Api) /\ o.do \in {"progress", "finalize", "result"} /\ ExecuteRaises(o.run)
      /\ UNCHANGED <<batch, row, log, faults>>
  BY <1>1 DEF Refused, store, rows
<1> QED
  BY <1>1, <1>2, AloneAfterHeadRaises

LEMMA FaultCounts ==
    ASSUME AloneInv, Fault
    PROVE  faults' # 0
BY DEF Fault, AloneInv, DiskInv, Typed, TypeOK

LEMMA AloneAfterResultFails ==
    ASSUME ApiOnly, AloneInv, ResultFails(Api)
    PROVE  Alone'
<1>1. PICK o : o = Op(Api)
  OBVIOUS
<1>2. /\ Busy(Api) /\ o.do = "result" /\ ExecuteRaises(o.run)
      /\ UNCHANGED <<batch, row, log>> /\ faults' # 0
  BY <1>1, FaultCounts DEF ResultFails, rows
<1> QED
  BY <1>1, <1>2, AloneAfterHeadRaises

LEMMA AloneAfterEpisodeRaises ==
    ASSUME ApiOnly, AloneInv, NEW r \in Runs, EpisodeRaises(r)
    PROVE  Alone'
<1>1. /\ Owner(r) \in up /\ todo[Owner(r)] = <<>> /\ ExecuteRaises(r)
      /\ UNCHANGED <<batch, row, log>> /\ faults' # 0
  BY FaultCounts DEF EpisodeRaises, Idle, store, rows
<1>2. Owner(r) = Api
  BY <1>1, OnlyApi
<1> QED
  BY <1>1, <1>2, IdleApi, IdleIsNotStarting, AloneAfterRaise

(* A handler that fails drops the rest of what it had to do.               *)
LEMMA AloneAfterDrop ==
    ASSUME ApiOnly, AloneInv, NEW o, todo[Api] # <<>>, o = Op(Api), Api \in up,
           o.do \in {"mkdir", "delete_rows", "rmtree"}, Do(Api, <<>>),
           UNCHANGED <<batch, row, log, up, owner, worker>>, faults' # 0,
           \A b \in Batches : task'[b] = task[b] \/ task'[b] = "none"
    PROVE  Alone'
<1>1. Memory' /\ ActiveIsOwned'
  BY MemoryKept DEF ActiveIsOwned
<1>2. ASSUME NEW r \in Runs
      PROVE  Served(r)'
  <2>1. Served(r) /\ BatchOf(r) \in Batches
    BY BatchOfRun DEF AloneInv, Alone
  <2>2. ~Finalizing(r) /\ ~Gathering(BatchOf(r))
    BY <2>1, NotGathering DEF Finalizing
  <2> QED
    BY <2>1, <2>2 DEF Served, ActiveRun
<1> QED
  BY <1>1, <1>2, NothingLoaded, AloneAfterLoad

LEMMA AloneAfterMkdirFails ==
    ASSUME ApiOnly, AloneInv, MkdirFails(Api)
    PROVE  Alone'
<1>1. PICK o : o = Op(Api)
  OBVIOUS
<1>2. /\ Api \in up /\ todo[Api] # <<>> /\ o.do = "mkdir" /\ faults' # 0
      /\ UNCHANGED <<batch, row, log>>
  BY <1>1, FaultCounts DEF MkdirFails, Busy, store, rows
<1>3. /\ Do(Api, <<>>) /\ UNCHANGED <<up, owner, worker>>
      /\ task' = [task EXCEPT ![BatchOf(o.run)] = "none"]
  BY <1>1, ProcNames DEF MkdirFails
<1>4. \A b \in Batches : task'[b] = task[b] \/ task'[b] = "none"
  BY <1>3 DEF AloneInv, DiskInv, Typed, TypeOK
<1> QED
  BY <1>1, <1>2, <1>3, <1>4, AloneAfterDrop

LEMMA AloneAfterDeleteFails ==
    ASSUME ApiOnly, AloneInv, DeleteFails(Api)
    PROVE  Alone'
<1>1. PICK o : o = Op(Api)
  OBVIOUS
<1>2. /\ Api \in up /\ todo[Api] # <<>> /\ o.do \in {"delete_rows", "rmtree"} /\ faults' # 0
      /\ Do(Api, <<>>) /\ UNCHANGED <<batch, row, log, up, owner, task, worker>>
  BY <1>1, FaultCounts DEF DeleteFails, Busy, rows
<1> QED
  BY <1>1, <1>2, AloneAfterDrop

LEMMA FailureAlone ==
    ASSUME ApiOnly, AloneInv, Failure
    PROVE  Alone'
<1>1. ASSUME Crash(Api)
      PROVE  Alone'
  BY <1>1, AloneAfterStop DEF Crash, rows
<1> QED
  BY <1>1, AloneAfterEpisodeRaises, AloneAfterMkdirFails, AloneAfterResultFails,
     AloneAfterDeleteFails DEF Failure, ApiOnly

LEMMA RequestAlone ==
    ASSUME ApiOnly, AloneInv, Request,
           \A b \in Batches : Create(Api, b) => Alone'
    PROVE  Alone'
BY AloneAfterCancel, AloneAfterDeleteRun, AloneAfterDeleteDiff DEF Request, ApiOnly

-----------------------------------------------------------------------------
(***************************************************************************)
(* The API alone: batches and runs.                                        *)
(***************************************************************************)
LEMMA NotEmpty == \A t : Len(t) \in {2, 3, 4} => t # <<>>
<1>1. Len(<<>>) \notin {2, 3, 4}
  OBVIOUS
<1> QED
  BY <1>1, Zenon

LEMMA AloneAfterCreate ==
    ASSUME ApiOnly, AloneInv, NEW b \in Batches, Create(Api, b)
    PROVE  Alone'
<1>1. PICK t : t = Creation(b)
  OBVIOUS
<1>2. PICK n : n = Len(RunsOf[b])
  OBVIOUS
<1>3. /\ owner[b] = Nobody /\ Do(Api, t) /\ Api \in up /\ todo[Api] = <<>>
      /\ owner' = [owner EXCEPT ![b] = Api] /\ task' = [task EXCEPT ![b] = "scheduled"]
      /\ UNCHANGED <<batch, row, log, up, worker, faults>>
  BY <1>1 DEF Create, Idle, store, rows
<1>4. owner'[b] = Api /\ task'[b] = "scheduled"
      /\ \A c \in Batches : c # b => owner'[c] = owner[c] /\ task'[c] = task[c]
  BY <1>3 DEF AloneInv, DiskInv, Typed, TypeOK
<1>5. batch[b] = "none" /\ task[b] = "none"
      /\ \A r \in RunSet(b) : row[r].status = "none" /\ BatchOf(r) = b /\ r \in Runs
  BY <1>3, BatchOfRun DEF AloneInv, DiskInv, Disk, Unowned, Alone, Memory
<1>6. Program(t) /\ CreationOf(t, b, n)
  BY <1>1, <1>2, CreationProgram, CreationIs
<1>7. ASSUME NEW x \in Operations, NEW i \in 1..Len(t), x = t[i]
      PROVE  PendingAlone(x)'
  <2>1. CASE i = 1
    <3>1. x = [do |-> "create_batch", batch |-> b]
      BY <1>6, <1>7, <2>1 DEF CreationOf
    <3> QED
      BY <1>4, <3>1 DEF PendingAlone
  <2>2. CASE i = 2 * n + 2
    <3>1. x = [do |-> "event", batch |-> b, type |-> "batch_queued", run |-> NoRun]
      BY <1>6, <1>7, <2>2 DEF CreationOf
    <3> QED
      BY <1>3, <1>5, <3>1 DEF PendingAlone
  <2>3. CASE i # 1 /\ i # 2 * n + 2
    <3>1. PICK k \in 1..n : i = 2 * k \/ i = 2 * k + 1
      BY <1>6, <2>3 DEF CreationOf
    <3>2. x.do \in {"create_run", "mkdir"} /\ x.run \in RunSet(b)
      <4>1. /\ RunsOf[b][k] \in RunSet(b)
            /\ t[2 * k] = [do |-> "create_run", run |-> RunsOf[b][k]]
            /\ t[2 * k + 1] = [do |-> "mkdir", run |-> RunsOf[b][k]]
        BY <1>6 DEF CreationOf
      <4> QED
        BY <1>7, <3>1, <4>1
    <3> QED
      BY <1>3, <1>5, <3>2 DEF PendingAlone
  <2> QED
    BY <2>1, <2>2, <2>3
<1>8. \A x \in Operations : t # <<>> /\ x = t[1] => HeadAlone(x)'
  <2>1. t[1].do = "create_batch"
    BY <1>6 DEF CreationOf
  <2> QED
    BY <2>1 DEF HeadAlone
<1>9. Memory'
  BY <1>3, <1>4, ProcNames, MemoryKept
<1>10. ActiveIsOwned'
  <2>1. \A c \in Batches : task[c] # "none" => task'[c] # "none"
    BY <1>4
  <2> QED
    BY <1>3, <2>1, OwnedKept, IdleIsNotStarting
<1>11. ASSUME NEW r \in Runs
       PROVE  Served(r)'
  <2>1. /\ Served(r) /\ BatchOf(r) \in Batches /\ r \in RunSet(BatchOf(r))
        /\ task[BatchOf(r)] = "gathering" /\ ActiveRun(r)
           => worker[r] \in {"waiting", "episode", "raised"}
    BY <1>3, BatchOfRun, ServedWhenIdle DEF AloneInv, Alone
  <2>2. CASE BatchOf(r) = b
    <3>1. worker[r] = "none"
      BY <1>5, <2>1, <2>2 DEF AloneInv, DiskInv, Disk, WorkerOK
    <3> QED
      BY <1>3, <1>4, <1>5, <2>1, <2>2, <3>1 DEF Served, ActiveRun
  <2>3. CASE BatchOf(r) # b
    BY <1>3, <1>4, <2>1, <2>3 DEF Served, ActiveRun
  <2> QED
    BY <2>2, <2>3
<1> QED
  BY <1>3, <1>6, <1>7, <1>8, <1>9, <1>10, <1>11, AloneAfterLoad

LEMMA AloneAfterStartBatch ==
    ASSUME ApiOnly, AloneInv, NEW b \in Batches, StartBatch(b)
    PROVE  Alone'
<1>1. owner[b] = Api /\ Api \in up /\ todo[Api] = <<>>
  BY OnlyApi DEF StartBatch, Idle
<1>2. /\ task[b] = "scheduled"
      /\ UNCHANGED <<batch, row, log, up, owner, worker, faults>>
  BY DEF StartBatch, store, rows
<1>3. PICK t : t = IF BatchExists(b)
                   THEN <<[do |-> "status", batch |-> b, status |-> "running"],
                          [do |-> "event", batch |-> b, type |-> "batch_started",
                           run |-> NoRun],
                          [do |-> "gather", batch |-> b]>>
                   ELSE <<>>
  OBVIOUS
<1>4. Do(Api, t)
  <2>1. CASE BatchExists(b)
    BY <1>1, <1>3, <2>1 DEF StartBatch
  <2>2. CASE ~BatchExists(b)
    BY <1>1, <1>3, <2>2 DEF StartBatch, Do, AloneInv, DiskInv, Typed, TypeOK
  <2> QED
    BY <2>1, <2>2
<1>5. Program(t)
  <2>1. "running" \in BatchStatus /\ "batch_started" \in EventTypes
    BY DEF BatchStatus, BatchActive, EventTypes
  <2> QED
    BY <1>3, <2>1, StatusPrograms, EmptyProgram
<1>6. /\ task'[b] = IF BatchExists(b) THEN "gathering" ELSE "raised"
      /\ \A c \in Batches : c # b => task'[c] = task[c]
  BY DEF StartBatch, AloneInv, DiskInv, Typed, TypeOK
<1>7. BatchExists(b) =>
         /\ Len(t) = 3 /\ t # <<>>
         /\ t[1] = [do |-> "status", batch |-> b, status |-> "running"]
         /\ t[2] = [do |-> "event", batch |-> b, type |-> "batch_started", run |-> NoRun]
         /\ t[3] = [do |-> "gather", batch |-> b]
  BY <1>3
<1>8. ~BatchExists(b) => t = <<>> /\ Len(t) = 0
  BY <1>3
<1>9. \A x \in Operations : t # <<>> /\ x = t[1] => HeadAlone(x)'
  <2>1. "running" \notin BatchTerminal
    BY DEF BatchTerminal
  <2> QED
    BY <1>7, <1>8, <2>1 DEF HeadAlone
<1>10. ASSUME NEW x \in Operations, NEW i \in 1..Len(t), x = t[i]
       PROVE  PendingAlone(x)'
  <2>1. BatchExists(b) /\ (i = 1 \/ i = 2 \/ i = 3)
    <3>1. CASE BatchExists(b)
      <4>1. Len(t) = 3
        BY <1>7, <3>1
      <4>2. i \in 1..3
        BY <4>1
      <4> QED
        BY <3>1, <4>2
    <3>2. CASE ~BatchExists(b)
      <4>1. Len(t) = 0
        BY <1>8, <3>2
      <4>2. i \in 1..0
        BY <4>1
      <4> QED
        BY <4>2
    <3> QED
      BY <3>1, <3>2
  <2>2. batch[b] # "gone"
    BY <2>1 DEF BatchExists
  <2>3. \A r \in RunSet(b) : row[r].status \in {"none", "queued"}
    BY <1>2, BatchOfRun DEF AloneInv, Alone, Served
  <2> QED
    BY <1>2, <1>7, <1>10, <2>1, <2>2, <2>3 DEF PendingAlone
<1>11. Memory'
  BY <1>1, <1>2, MemoryKept
<1>12. ActiveIsOwned'
  <2>1. \A c \in Batches : task[c] # "none" => task'[c] # "none"
    BY <1>6
  <2> QED
    BY <1>1, <1>2, <2>1, OwnedKept, IdleIsNotStarting
<1>13. ASSUME NEW r \in Runs
       PROVE  Served(r)'
  <2>1. /\ Served(r) /\ BatchOf(r) \in Batches
        /\ task[BatchOf(r)] = "gathering" /\ ActiveRun(r)
           => worker[r] \in {"waiting", "episode", "raised"}
    BY <1>1, BatchOfRun, ServedWhenIdle DEF AloneInv, Alone
  <2>2. CASE BatchOf(r) = b
    <3>1. BatchExists(b) => Gathering(b)'
      <4>1. BatchExists(b) => 3 \in 1..Len(t) /\ t[3].do = "gather" /\ t[3].batch = b
        <5> SUFFICES ASSUME BatchExists(b)
                     PROVE  3 \in 1..Len(t) /\ t[3].do = "gather" /\ t[3].batch = b
          OBVIOUS
        <5>1. Len(t) = 3
          BY <1>7
        <5>2. 3 \in 1..Len(t)
          BY <5>1
        <5>3. t[3] = [do |-> "gather", batch |-> b]
          BY <1>7
        <5> QED
          BY <5>2, <5>3
      <4> QED
        BY <1>4, <1>5, <4>1, LoadedShows
    <3>2. (BatchOf(r))' = b
      BY <2>2 DEF BatchOf
    <3> QED
      BY <1>2, <1>6, <2>1, <2>2, <3>1, <3>2 DEF Served, ActiveRun
  <2>3. CASE BatchOf(r) # b
    BY <1>2, <1>6, <2>1, <2>3 DEF Served, ActiveRun
  <2> QED
    BY <2>2, <2>3
<1> QED
  BY <1>2, <1>4, <1>5, <1>9, <1>10, <1>11, <1>12, <1>13, AloneAfterLoad

LEMMA AloneAfterFinishBatch ==
    ASSUME ApiOnly, AloneInv, NEW b \in Batches, FinishBatch(b)
    PROVE  Alone'
<1>1. owner[b] = Api /\ Api \in up /\ todo[Api] = <<>>
  BY OnlyApi DEF FinishBatch, Idle
<1>2. /\ task[b] = "gathering"
      /\ UNCHANGED <<batch, row, log, up, owner, worker, faults>>
  BY DEF FinishBatch, store, rows
<1>3. PICK t : t = IF BatchExists(b)
                   THEN <<[do |-> "status", batch |-> b, status |-> FinalStatus(b)],
                          [do |-> "event", batch |-> b, type |-> "batch_finished",
                           run |-> NoRun]>>
                   ELSE <<>>
  OBVIOUS
<1>4. Do(Api, t)
  <2>1. CASE BatchExists(b)
    BY <1>1, <1>3, <2>1 DEF FinishBatch
  <2>2. CASE ~BatchExists(b)
    BY <1>1, <1>3, <2>2 DEF FinishBatch, Do, AloneInv, DiskInv, Typed, TypeOK
  <2> QED
    BY <2>1, <2>2
<1>5. FinalStatus(b) \in BatchTerminal
  BY DEF BatchTerminal, FinalStatus
<1>6. Program(t)
  <2>1. FinalStatus(b) \in BatchStatus /\ "batch_finished" \in EventTypes
    BY <1>5 DEF BatchStatus, EventTypes
  <2> QED
    BY <1>3, <2>1, StatusPrograms, EmptyProgram
<1>7. /\ task'[b] = IF BatchExists(b) THEN "ended" ELSE "raised"
      /\ \A c \in Batches : c # b => task'[c] = task[c]
  BY DEF FinishBatch, AloneInv, DiskInv, Typed, TypeOK
<1>8. PICK s : s = FinalStatus(b)
  OBVIOUS
<1>9. BatchExists(b) =>
         /\ Len(t) = 2 /\ t # <<>>
         /\ t[1] = [do |-> "status", batch |-> b, status |-> s]
         /\ t[2] = [do |-> "event", batch |-> b, type |-> "batch_finished", run |-> NoRun]
  BY <1>3, <1>8
<1>10. ~BatchExists(b) => t = <<>> /\ Len(t) = 0
  BY <1>3
<1>11. \A r \in RunSet(b) : ~ActiveRun(r)
  <2> TAKE r \in RunSet(b)
  <2>1. worker[r] \in {"none", "ended"}
    BY DEF FinishBatch, GatherReturns
  <2>2. r \in Runs /\ BatchOf(r) = b
    BY BatchOfRun
  <2> QED
    BY <1>1, <1>2, <2>1, <2>2, ServedWhenIdle
<1>12. \A x \in Operations : t # <<>> /\ x = t[1] => HeadAlone(x)'
  BY <1>2, <1>5, <1>8, <1>9, <1>10, <1>11 DEF HeadAlone, ActiveRun
<1>13. ASSUME NEW x \in Operations, NEW i \in 1..Len(t), x = t[i]
       PROVE  PendingAlone(x)'
  <2>1. BatchExists(b) /\ (i = 1 \/ i = 2)
    <3>1. CASE BatchExists(b)
      <4>1. Len(t) = 2
        BY <1>9, <3>1
      <4>2. i \in 1..2
        BY <4>1
      <4> QED
        BY <3>1, <4>2
    <3>2. CASE ~BatchExists(b)
      <4>1. Len(t) = 0
        BY <1>10, <3>2
      <4>2. i \in 1..0
        BY <4>1
      <4> QED
        BY <4>2
    <3> QED
      BY <3>1, <3>2
  <2>2. batch[b] # "gone"
    BY <2>1 DEF BatchExists
  <2> QED
    BY <1>2, <1>9, <1>13, <2>1, <2>2 DEF PendingAlone
<1>14. Memory'
  BY <1>1, <1>2, MemoryKept
<1>15. ActiveIsOwned'
  <2>1. \A c \in Batches : task[c] # "none" => task'[c] # "none"
    BY <1>7
  <2> QED
    BY <1>1, <1>2, <2>1, OwnedKept, IdleIsNotStarting
<1>16. ASSUME NEW r \in Runs
       PROVE  Served(r)'
  <2>1. /\ Served(r) /\ BatchOf(r) \in Batches
        /\ task[BatchOf(r)] = "gathering" /\ ActiveRun(r)
           => worker[r] \in {"waiting", "episode", "raised"}
    BY <1>1, BatchOfRun, ServedWhenIdle DEF AloneInv, Alone
  <2> QED
    BY <1>2, <1>7, <2>1 DEF Served, ActiveRun
<1> QED
  BY <1>2, <1>4, <1>6, <1>12, <1>13, <1>14, <1>15, <1>16, AloneAfterLoad

(* An execute of r moves on, and the API starts a program for its run.     *)
LEMMA AloneAfterExecute ==
    ASSUME ApiOnly, AloneInv, NEW r \in Runs, NEW t, Program(t), t # <<>>,
           Api \in up, todo[Api] = <<>>, Do(Api, t),
           worker[r] \in {"waiting", "episode"},
           UNCHANGED <<batch, row, log, up, owner, task, faults>>,
           \/ worker' = [worker EXCEPT ![r] = "episode"] /\ t[1].do = "progress"
           \/ /\ worker' = [worker EXCEPT ![r] = "ended"]
              /\ t[1].do = "finalize" /\ t[1].run = r,
           \A i \in 1..Len(t) :
              \/ t[i].do \in {"progress", "finalize", "result", "commit"}
              \/ t[i].do = "event" /\ t[i].batch = BatchOf(r) /\ t[i].run = r
    PROVE  Alone'
<1>1. Memory'
  BY MemoryKept
<1>2. ActiveIsOwned'
  BY OwnedKept, IdleIsNotStarting
<1>3. \A x \in Operations : t # <<>> /\ x = t[1] => HeadAlone(x)'
  BY DEF HeadAlone
<1>4. /\ r \in RunSet(BatchOf(r)) /\ BatchOf(r) \in Batches
      /\ row[r].status \in Active /\ row[r].status # "gone" /\ row[r].status # "none"
      /\ batch[BatchOf(r)] # "gone"
  <2>1. row[r].status \in Active
    BY DEF AloneInv, Alone, Served, ActiveRun
  <2> QED
    BY <2>1, BatchOfRun, StatusNames DEF AloneInv, Alone, Books
<1>5. ASSUME NEW x \in Operations, NEW i \in 1..Len(t), x = t[i]
      PROVE  PendingAlone(x)'
  BY <1>4, <1>5 DEF PendingAlone
<1>6. ASSUME NEW q \in Runs
      PROVE  Served(q)'
  <2>1. /\ Served(q) /\ BatchOf(q) \in Batches
        /\ task[BatchOf(q)] = "gathering" /\ ActiveRun(q)
           => worker[q] \in {"waiting", "episode", "raised"}
    BY BatchOfRun, ServedWhenIdle DEF AloneInv, Alone
  <2>2. worker \in [Runs -> WorkerStates]
    BY DEF AloneInv, DiskInv, Typed, TypeOK
  <2>3. CASE q # r
    <3>1. worker'[q] = worker[q]
      BY <2>2, <2>3
    <3> QED
      BY <2>1, <3>1 DEF Served, ActiveRun
  <2>4. CASE q = r
    <3>1. \/ worker'[r] = "episode"
          \/ worker'[r] = "ended" /\ Finalizing(r)'
      BY <2>2, LoadedShows
    <3> QED
      BY <1>4, <2>1, <2>4, <3>1 DEF Served, ActiveRun
  <2> QED
    BY <2>3, <2>4
<1> QED
  BY <1>1, <1>2, <1>3, <1>5, <1>6, AloneAfterLoad

LEMMA AloneAfterSkipRun ==
    ASSUME ApiOnly, AloneInv, NEW r \in Runs, SkipRun(r)
    PROVE  Alone'
<1>1. PICK t : t = Finalization(r, "cancelled", FALSE)
  OBVIOUS
<1>2. /\ Program(t) /\ Len(t) = 3
      /\ t[1].do = "finalize" /\ t[1].run = r /\ t[2].do = "result" /\ t[3].do = "commit"
  <2>1. "cancelled" \in Terminal
    BY StatusNames
  <2>2. /\ Program(t) /\ Len(t) = 3
        /\ t[1] = [do |-> "finalize", run |-> r, status |-> "cancelled", captured |-> FALSE]
        /\ t[2] = [do |-> "result", run |-> r, status |-> "cancelled", captured |-> FALSE]
        /\ t[3] = [do |-> "commit", run |-> r, status |-> "cancelled", captured |-> FALSE]
    BY <1>1, <2>1, FinalizationIs
  <2> QED
    BY <2>2
<1>3. t # <<>> /\ \A i \in 1..Len(t) : t[i].do \in {"progress", "finalize", "result", "commit"}
  <2>1. \A i \in 1..Len(t) : i = 1 \/ i = 2 \/ i = 3
    BY <1>2
  <2>2. t # <<>>
    BY <1>2
  <2> QED
    BY <1>2, <2>1, <2>2
<1>4. /\ Owner(r) \in up /\ todo[Owner(r)] = <<>> /\ Do(Owner(r), t) /\ worker[r] = "waiting"
      /\ worker' = [worker EXCEPT ![r] = "ended"]
      /\ UNCHANGED <<batch, row, log, up, owner, task, faults>>
  BY <1>1 DEF SkipRun, Granted, Idle, store, rows
<1>5. Owner(r) = Api
  BY <1>4, OnlyApi
<1> QED
  BY <1>2, <1>3, <1>4, <1>5, AloneAfterExecute

LEMMA AloneAfterStartEpisode ==
    ASSUME ApiOnly, AloneInv, NEW r \in Runs, StartEpisode(r)
    PROVE  Alone'
<1>1. PICK t : t = <<[do |-> "progress", run |-> r],
                     [do |-> "event", batch |-> BatchOf(r), type |-> "run_started",
                      run |-> r]>>
  OBVIOUS
<1>2. /\ Program(t) /\ Len(t) = 2
      /\ t[1].do = "progress"
      /\ t[2].do = "event" /\ t[2].batch = BatchOf(r) /\ t[2].run = r
  BY <1>1, RunPrograms
<1>3. /\ t # <<>>
      /\ \A i \in 1..Len(t) :
            \/ t[i].do \in {"progress", "finalize", "result", "commit"}
            \/ t[i].do = "event" /\ t[i].batch = BatchOf(r) /\ t[i].run = r
  <2>1. \A i \in 1..Len(t) : i = 1 \/ i = 2
    BY <1>2
  <2>2. t # <<>>
    BY <1>2
  <2> QED
    BY <1>2, <2>1, <2>2
<1>4. /\ Owner(r) \in up /\ todo[Owner(r)] = <<>> /\ Do(Owner(r), t) /\ worker[r] = "waiting"
      /\ worker' = [worker EXCEPT ![r] = "episode"]
      /\ UNCHANGED <<batch, row, log, up, owner, task, faults>>
  BY <1>1 DEF StartEpisode, Granted, Idle, store, rows
<1>5. Owner(r) = Api
  BY <1>4, OnlyApi
<1> QED
  BY <1>2, <1>3, <1>4, <1>5, AloneAfterExecute

LEMMA AloneAfterEndEpisode ==
    ASSUME ApiOnly, AloneInv, NEW r \in Runs, EndEpisode(r)
    PROVE  Alone'
<1>1. PICK s \in Outcomes(r), c \in BOOLEAN :
        Do(Owner(r), Finalization(r, s, c)
                       \o <<[do |-> "event", batch |-> BatchOf(r),
                             type |-> "run_finished", run |-> r]>>)
  BY DEF EndEpisode
<1>2. s \in Terminal
  BY StatusNames DEF Outcomes
<1>3. PICK t : t = Finalization(r, s, c)
                     \o <<[do |-> "event", batch |-> BatchOf(r),
                           type |-> "run_finished", run |-> r]>>
  OBVIOUS
<1>4. /\ Program(t) /\ Len(t) = 4
      /\ t[1].do = "finalize" /\ t[1].run = r
      /\ t[2].do = "result" /\ t[3].do = "commit"
      /\ t[4].do = "event" /\ t[4].batch = BatchOf(r) /\ t[4].run = r
  <2>1. /\ Program(t) /\ Len(t) = 4
        /\ t[1] = [do |-> "finalize", run |-> r, status |-> s, captured |-> c]
        /\ t[2] = [do |-> "result", run |-> r, status |-> s, captured |-> c]
        /\ t[3] = [do |-> "commit", run |-> r, status |-> s, captured |-> c]
        /\ t[4] = [do |-> "event", batch |-> BatchOf(r),
                   type |-> "run_finished", run |-> r]
    <3>1. Ending(t, r, s, c)
      BY <1>2, <1>3, EndingIs, Zenon
    <3> QED
      BY <3>1 DEF Ending
  <2> QED
    BY <2>1
<1>5. /\ t # <<>>
      /\ \A i \in 1..Len(t) :
            \/ t[i].do \in {"progress", "finalize", "result", "commit"}
            \/ t[i].do = "event" /\ t[i].batch = BatchOf(r) /\ t[i].run = r
  <2>1. \A i \in 1..Len(t) : i = 1 \/ i = 2 \/ i = 3 \/ i = 4
    BY <1>4
  <2>2. t # <<>>
    <3>1. Len(t) \in {2, 3, 4}
      BY <1>4
    <3> QED
      BY <3>1, NotEmpty
  <2> QED
    BY <1>4, <2>1, <2>2
<1>6. Do(Owner(r), t)
  BY <1>1, <1>3
<1>7. /\ Owner(r) \in up /\ todo[Owner(r)] = <<>> /\ worker[r] = "episode"
      /\ worker' = [worker EXCEPT ![r] = "ended"]
      /\ UNCHANGED <<batch, row, log, up, owner, task, faults>>
  BY DEF EndEpisode, Idle, store, rows
<1>8. Owner(r) = Api
  BY <1>7, OnlyApi
<1> QED
  BY <1>4, <1>5, <1>6, <1>7, <1>8, AloneAfterExecute

LEMMA AloneAfterGather ==
    ASSUME ApiOnly, AloneInv, Gather(Api)
    PROVE  Alone'
<1>1. PICK o : o = Op(Api)
  OBVIOUS
<1>2. /\ o.do = "gather" /\ Do(Api, <<>>) /\ Api \in up /\ todo[Api] # <<>>
      /\ o \in Operations /\ Pending(Api, o) /\ PendingAlone(o)
  BY <1>1, HeadOfApi DEF Gather, Busy
<1>3. PICK b \in Batches : b = o.batch
  BY <1>2, OperationFields
<1>4. /\ task[b] = "gathering" /\ \A r \in RunSet(b) : worker[r] = "none"
      /\ \A r \in RunSet(b) : row[r].status \in {"none", "queued"}
      /\ UNCHANGED <<batch, row, log, up, owner, task, faults>>
      /\ worker' = [r \in Runs |-> IF r \in RunSet(b) /\ Exists(r)
                                   THEN "waiting" ELSE worker[r]]
  BY <1>1, <1>2, <1>3 DEF Pending, PendingAlone, Gather, store, rows
<1>5. Memory'
  BY <1>2, <1>4, MemoryKept
<1>6. ActiveIsOwned'
  <2>1. ~Starting
    BY <1>1, <1>2 DEF Starting
  <2> QED
    BY <1>4, <2>1, OwnedKept
<1>7. \A c \in Batches : c # b => ~Gathering(c)
  <2> SUFFICES ASSUME NEW c \in Batches, c # b, NEW x \in Operations, x \in Ops(Api),
                      x.do = "gather", x.batch = c
               PROVE  FALSE
    BY DEF Gathering
  <2>1. x # o
    BY <1>3
  <2>2. Before(o, x)
    BY <1>1, <1>2, <2>1, HeadIsFirst
  <2> QED
    BY <1>2, <2>2 DEF Before
<1>8. ASSUME NEW r \in Runs
      PROVE  Served(r)'
  <2>1. /\ Served(r) /\ BatchOf(r) \in Batches /\ r \in RunSet(BatchOf(r))
        /\ ~Finalizing(r) /\ (r \in RunSet(b) => BatchOf(r) = b)
    BY <1>1, <1>2, BatchOfRun DEF AloneInv, Alone, Finalizing
  <2>2. CASE BatchOf(r) = b
    <3>1. ActiveRun(r) <=> Exists(r)
      BY <1>4, <2>1, <2>2, StatusNames DEF ActiveRun, Exists
    <3>2. worker'[r] = IF ActiveRun(r) THEN "waiting" ELSE "none"
      BY <1>4, <2>1, <2>2, <3>1
    <3> QED
      BY <1>4, <2>1, <2>2, <3>2 DEF Served, ActiveRun
  <2>3. CASE BatchOf(r) # b
    <3>1. worker'[r] = worker[r] /\ ~Gathering(BatchOf(r))
      BY <1>4, <1>7, <2>1, <2>3
    <3> QED
      BY <1>4, <2>1, <2>3, <3>1 DEF Served, ActiveRun
  <2> QED
    BY <2>2, <2>3
<1> QED
  BY <1>2, <1>4, <1>5, <1>6, <1>8, NothingLoaded, AloneAfterLoad

-----------------------------------------------------------------------------
(***************************************************************************)
(* The API alone: operations of the store.                                 *)
(***************************************************************************)
(* How an operation o of the API may move the run rows.                    *)
Moves(o) ==
    /\ \A r \in Runs : row'[r].status \in Active =>
          row[r].status \in Active \/ task[BatchOf(r)] = "scheduled"
    /\ o.do = "commit" => row'[o.run].status \notin Active
    /\ o.do = "marked" => \A r \in Runs : row'[r].status \notin Active
    /\ \A r \in Runs : worker[r] \in {"waiting", "episode"} /\ row[r].status \in Active
          => row'[r].status \in Active
    /\ \A r \in Runs : /\ task[BatchOf(r)] = "scheduled"
                       /\ row[r].status \in {"none", "queued"}
                       => row'[r].status \in {"none", "queued"}

LEMMA AdvancedApi ==
    ASSUME AloneInv, NEW o, Doing(Api, o)
    PROVE  /\ \A x \in Ops(Api)' : x \in Ops(Api) /\ Before(o, x)
           /\ todo'[Api] # <<>> => Op(Api)' \in Operations /\ Follows(o, Op(Api)')
           /\ \A x \in Ops(Api) : x = o \/ x \in Ops(Api)'
           /\ o.do \in Opening => todo'[Api] # <<>>
           /\ UNCHANGED <<up, owner, cancelled, task, worker, faults>>
           /\ todo[Api] # <<>> /\ o = Op(Api)
BY Advanced, ProcNames DEF Doing, AloneInv, DiskInv

LEMMA StillFinalizing ==
    ASSUME AloneInv, NEW o, Doing(Api, o), NEW r \in Runs, Finalizing(r), Moves(o),
           row'[r].status \in Active
    PROVE  Finalizing(r)'
<1>1. o.do \in {"finalize", "result", "commit"} /\ o.run = r
  BY DEF Finalizing, Doing
<1>2. o.do \in {"finalize", "result"}
  BY <1>1 DEF Moves
<1>3. o.do \in Opening
  BY <1>2 DEF Opening
<1>4. PICK x : x = Op(Api)'
  OBVIOUS
<1>5. todo'[Api] # <<>> /\ x \in Operations /\ Follows(o, x)
  BY <1>3, <1>4, AdvancedApi
<1>6. x.do \in {"result", "commit"} /\ x.run = r
  BY <1>1, <1>2, <1>5 DEF Follows
<1> QED
  BY <1>4, <1>5, <1>6 DEF Finalizing

LEMMA StillStarting ==
    ASSUME AloneInv, NEW o, Doing(Api, o), Starting, o.do \notin {"active", "marked"}
    PROVE  Starting'
<1>1. o.do = "mark" /\ o.do \in Opening
  BY DEF Starting, Doing, Opening
<1>2. PICK x : x = Op(Api)'
  OBVIOUS
<1>3. todo'[Api] # <<>> /\ Follows(o, x)
  BY <1>1, <1>2, AdvancedApi
<1>4. x.do = "marked"
  BY <1>1, <1>3 DEF Follows
<1> QED
  BY <1>2, <1>3, <1>4 DEF Starting

LEMMA AloneAfterDoing ==
    ASSUME ApiOnly, AloneInv, NEW o, Doing(Api, o), o.do \notin {"gather", "active"},
           Books', Moves(o),
           \A b \in Batches : owner[b] = Nobody => batch'[b] = "none",
           \A x \in Operations : Follows(o, x) => HeadAlone(x)',
           \A x \in Operations : Before(o, x) /\ PendingAlone(x) => PendingAlone(x)'
    PROVE  Alone'
<1>1. UNCHANGED <<up, owner, task, worker, faults>>
  BY DEF Doing
<1>2. Memory'
  BY <1>1 DEF AloneInv, Alone, Memory
<1>3. HeadsAlone'
  BY AdvancedApi DEF HeadsAlone
<1>4. PendingsAlone'
  <2> SUFFICES ASSUME NEW x \in Operations, x \in Ops(Api)'
               PROVE  PendingAlone(x)'
    BY DEF PendingsAlone
  <2>1. x \in Ops(Api) /\ Before(o, x)
    BY AdvancedApi
  <2>2. PendingAlone(x)
    BY <2>1 DEF AloneInv, Alone, PendingsAlone
  <2> QED
    BY <2>1, <2>2
<1>5. ActiveIsOwned'
  <2>1. CASE o.do = "marked"
    BY <2>1, StatusNames DEF Moves, ActiveIsOwned
  <2>2. CASE o.do # "marked" /\ Starting
    BY <2>2, StillStarting DEF ActiveIsOwned
  <2>3. CASE ~Starting
    BY <1>1, <2>3, BatchOfRun DEF AloneInv, Alone, ActiveIsOwned, Moves
  <2> QED
    BY <2>1, <2>2, <2>3
<1>6. ASSUME NEW r \in Runs
      PROVE  Served(r)'
  <2>1. Served(r) /\ BatchOf(r) \in Batches
    BY BatchOfRun DEF AloneInv, Alone
  <2>2. ASSUME task[BatchOf(r)] = "gathering", row'[r].status \in Active
        PROVE  \/ worker[r] \in {"waiting", "episode", "raised"}
               \/ Finalizing(r)'
               \/ Gathering(BatchOf(r))'
    <3>1. row[r].status \in Active
      BY <2>2 DEF Moves
    <3>2. CASE Finalizing(r)
      BY <2>2, <3>2, StillFinalizing
    <3>3. CASE Gathering(BatchOf(r))
      <4>1. PICK x \in Operations : x \in Ops(Api) /\ x.do = "gather" /\ x.batch = BatchOf(r)
        BY <3>3 DEF Gathering
      <4>2. x \in Ops(Api)'
        BY <4>1, AdvancedApi
      <4> QED
        BY <4>1, <4>2 DEF Gathering
    <3> QED
      BY <2>1, <2>2, <3>1, <3>2, <3>3 DEF Served, ActiveRun
  <2>3. worker[r] \in {"waiting", "episode"} => row'[r].status \in Active
    BY <2>1 DEF Served, ActiveRun, Moves
  <2>4. task[BatchOf(r)] = "scheduled" => row'[r].status \in {"none", "queued"}
    BY <2>1 DEF Served, Moves
  <2> QED
    BY <1>1, <2>2, <2>3, <2>4 DEF Served, ActiveRun
<1> QED
  BY <1>2, <1>3, <1>4, <1>5, <1>6 DEF Alone

LEMMA NothingFollows ==
    ASSUME NEW o, NEW x, o.do \notin {"mark", "commit"}, Follows(o, x)
    PROVE  HeadAlone(x)'
BY DEF Follows, HeadAlone

(* The operations that leave rows and events alone.                        *)
LEMMA AloneAfterFiles ==
    ASSUME ApiOnly, AloneInv, NEW o, Doing(Api, o), UNCHANGED <<batch, row, log>>,
           o.do \in {"mkdir", "finalize", "result", "rename", "rmtree", "mark"}
    PROVE  Alone'
<1>1. UNCHANGED <<up, owner, task, worker, faults>> /\ todo[Api] # <<>> /\ o = Op(Api)
  BY DEF Doing
<1>2. Books'
  BY BooksKept DEF AloneInv, Alone
<1>3. Moves(o)
  BY DEF Moves
<1>4. \A b \in Batches : owner[b] = Nobody => batch'[b] = "none"
  BY DEF AloneInv, Alone, Memory
<1>5. ASSUME NEW x \in Operations, Follows(o, x)
      PROVE  HeadAlone(x)'
  <2>1. CASE o.do = "mark"
    <3>1. HeadAlone(o)
      BY <1>1, HeadOfApi
    <3>2. x.do = "marked" /\ x.runs = o.runs
      BY <1>5, <2>1 DEF Follows
    <3>3. ActiveRows' = ActiveRows
      BY DEF ActiveRows
    <3> QED
      BY <1>1, <2>1, <3>1, <3>2, <3>3 DEF HeadAlone
  <2> QED
    BY <1>5, <2>1, NothingFollows
<1>6. \A x \in Operations : PendingAlone(x) => PendingAlone(x)'
  BY <1>1 DEF PendingAlone
<1> QED
  BY <1>2, <1>3, <1>4, <1>5, <1>6, AloneAfterDoing

(* The operations that leave the run rows and the events alone.            *)
LEMMA AloneAfterBatchRow ==
    ASSUME ApiOnly, AloneInv, NEW o, Doing(Api, o),
           \/ o.do = "create_batch" /\ CreateBatch(o.batch)
           \/ o.do = "status" /\ UpdateBatchStatus(o.batch, o.status)
    PROVE  Alone'
<1>1. UNCHANGED <<up, owner, task, worker, faults>> /\ todo[Api] # <<>> /\ o = Op(Api)
  BY DEF Doing
<1>2. o.batch \in Batches /\ HeadAlone(o) /\ PendingAlone(o)
  BY <1>1, HeadOfApi, OperationFields
<1>3. UNCHANGED <<row, log>>
  BY DEF CreateBatch, UpdateBatchStatus
<1>4. PICK s : s = IF o.do = "create_batch" THEN "queued" ELSE o.status
  OBVIOUS
<1>5. /\ batch' = batch \/ (batch'[o.batch] = s /\ (o.do = "status" => BatchExists(o.batch)))
      /\ \A c \in Batches : c # o.batch => batch'[c] = batch[c]
  BY <1>2, <1>4 DEF CreateBatch, UpdateBatchStatus, AloneInv, DiskInv, Typed, TypeOK,
                    StoreTypeOK
<1>6. /\ s \notin {"none", "gone"}
      /\ s \in BatchTerminal => \A r \in RunSet(o.batch) : row[r].status \notin Active
  BY <1>2, <1>4 DEF HeadAlone, ActiveRun, BatchTerminal
<1>7. \A c \in Batches : batch'[c] = "gone" => batch[c] = "gone"
  BY <1>5, <1>6
<1>8. Books'
  <2>1. UNCHANGED Logged
    BY <1>3 DEF Logged
  <2>2. BatchSettled'
    BY <1>3, <1>5, <1>6 DEF BatchSettled, AloneInv, Alone, Books
  <2>3. NothingOfDeleted'
    <3>1. \A e \in Logged : e.batch \in Batches
      BY DEF Logged, Events
    <3> QED
      BY <1>3, <1>7, <2>1, <3>1 DEF NothingOfDeleted, AloneInv, Alone, Books
  <2>4. AnnouncedIsFinal'
    BY <1>3, <2>1 DEF AnnouncedIsFinal, AloneInv, Alone, Books
  <2> QED
    BY <1>3, <1>7, <2>1, <2>2, <2>3, <2>4, BatchOfRun DEF AloneInv, Alone, Books
<1>9. Moves(o)
  BY <1>3 DEF Moves
<1>10. ASSUME NEW b \in Batches, owner[b] = Nobody
       PROVE  batch'[b] = "none"
  <2>1. batch[b] = "none"
    BY <1>10 DEF AloneInv, Alone, Memory
  <2>2. o.do = "create_batch" => b # o.batch
    BY <1>2, <1>10, ProcNames DEF PendingAlone
  <2> QED
    BY <1>5, <2>1, <2>2 DEF BatchExists
<1>11. \A x \in Operations : Follows(o, x) => HeadAlone(x)'
  BY NothingFollows
<1>12. ASSUME NEW x \in Operations, Before(o, x), PendingAlone(x)
       PROVE  PendingAlone(x)'
  <2>1. /\ x.do \in {"create_run", "mkdir"} => BatchOf(x.run) \in Batches
        /\ x.do = "event" => x.batch \in Batches
    BY OperationFields, BatchOfRun
  <2>2. x.do \in {"create_run", "mkdir"} => o.do = "create_batch"
    BY <1>12 DEF Before
  <2>3. x.do \in {"create_run", "mkdir"} => batch'[BatchOf(x.run)] \in {"none", "queued"}
    BY <1>4, <1>5, <1>12, <2>1, <2>2 DEF PendingAlone
  <2> QED
    BY <1>1, <1>3, <1>7, <1>12, <2>1, <2>3 DEF PendingAlone
<1> QED
  BY <1>8, <1>9, <1>10, <1>11, <1>12, AloneAfterDoing

LEMMA AloneAfterEvent ==
    ASSUME ApiOnly, AloneInv, NEW o, Doing(Api, o), o.do = "event",
           AppendEvent(o.batch, o.type, o.run)
    PROVE  Alone'
<1>1. UNCHANGED <<up, owner, task, worker, faults>> /\ todo[Api] # <<>> /\ o = Op(Api)
  BY DEF Doing
<1>2. /\ o \in Operations /\ HeadAlone(o) /\ PendingAlone(o)
      /\ o.batch \in Batches /\ o.type \in EventTypes /\ o.run \in Runs \cup {NoRun}
  BY <1>1, HeadOfApi, OperationFields
<1>3. UNCHANGED <<batch, row>>
  BY DEF AppendEvent
<1>4. PICK n \in Events : n = Event(o.batch, o.type, o.run) /\ n.batch = o.batch
                          /\ n.type = o.type /\ n.run = o.run
  <2>1. Event(o.batch, o.type, o.run) \in Events
    BY <1>2 DEF Event, Events
  <2>2. PICK n : n = Event(o.batch, o.type, o.run)
    OBVIOUS
  <2>3. n.batch = o.batch /\ n.type = o.type /\ n.run = o.run
    BY <2>2 DEF Event
  <2> QED
    BY <2>1, <2>2, <2>3
<1>5. Logged' \subseteq Logged \cup {n}
  <2>1. \A e \in Events : e # n => log'[e] = log[e]
    BY <1>4 DEF AppendEvent, AloneInv, DiskInv, Typed, TypeOK, StoreTypeOK
  <2> QED
    BY <2>1 DEF Logged
<1>6. Books'
  <2>1. n.run # NoRun \/ n.type = "run_finished"
           => n.run \in RunSet(n.batch) /\ row[n.run].status # "gone"
    BY <1>2, <1>4 DEF PendingAlone
  <2>2. n.type = "run_finished" => row[n.run].status \in Terminal
    BY <1>2, <1>4 DEF HeadAlone
  <2>3. batch[n.batch] # "gone"
    BY <1>2, <1>4 DEF PendingAlone
  <2>4. AnnouncedIsFinal'
    BY <1>3, <1>5, <2>2 DEF AnnouncedIsFinal, AloneInv, Alone, Books
  <2>5. NothingOfDeleted'
    BY <1>3, <1>5, <2>1, <2>3 DEF NothingOfDeleted, AloneInv, Alone, Books
  <2>6. BatchSettled'
    BY <1>3 DEF BatchSettled, AloneInv, Alone, Books
  <2> QED
    BY <1>3, <1>5, <2>1, <2>4, <2>5, <2>6 DEF AloneInv, Alone, Books
<1>7. Moves(o)
  BY <1>3 DEF Moves
<1>8. \A b \in Batches : owner[b] = Nobody => batch'[b] = "none"
  BY <1>3 DEF AloneInv, Alone, Memory
<1>9. \A x \in Operations : Follows(o, x) => HeadAlone(x)'
  BY NothingFollows
<1>10. \A x \in Operations : PendingAlone(x) => PendingAlone(x)'
  BY <1>1, <1>3 DEF PendingAlone
<1> QED
  BY <1>6, <1>7, <1>8, <1>9, <1>10, AloneAfterDoing

(* The row of one run takes another status.                                *)
LEMMA AloneAfterRow ==
    ASSUME ApiOnly, AloneInv, NEW o, Doing(Api, o), UNCHANGED <<batch, log>>,
           o.do \in {"create_run", "progress", "commit"},
           o.run \in Runs, \A q \in Runs : q # o.run => row'[q] = row[q],
           \/ /\ o.do = "create_run" /\ row[o.run].status = "none"
              /\ row'[o.run].status = "queued"
           \/ /\ o.do = "progress" /\ row[o.run].status \in Active
              /\ row'[o.run].status = "running"
           \/ /\ o.do = "commit" /\ row[o.run].status \in Active
              /\ row'[o.run].status \in Terminal
    PROVE  Alone'
<1>1. /\ UNCHANGED <<up, owner, task, worker, faults>> /\ todo[Api] # <<>> /\ o = Op(Api)
      /\ Held(Api, o) /\ Pending(Api, o) /\ PendingAlone(o)
      /\ WorkerOK(o.run) /\ BatchOf(o.run) \in Batches
  BY HeadOfApi, BatchOfRun DEF Doing, AloneInv, DiskInv, Disk
<1>2. PICK r \in Runs : r = o.run
  OBVIOUS
<1>3. row'[r].status \notin {"none", "gone"}
  BY <1>2, StatusNames
<1>4. row[r].status \notin Terminal
  BY <1>2, StatusNames
<1>5. row'[r].status \in Active =>
         \/ row[r].status \in Active
         \/ batch[BatchOf(r)] \in {"none", "queued"} /\ task[BatchOf(r)] = "scheduled"
  BY <1>1, <1>2, StatusNames DEF PendingAlone, Pending
<1>6. batch[BatchOf(r)] # "gone"
  BY <1>1, <1>2, <1>5, StatusNames DEF AloneInv, Alone, Books, PendingAlone
<1>7. Books'
  <2>1. UNCHANGED Logged
    BY DEF Logged
  <2>2. BatchSettled'
    <3> SUFFICES ASSUME NEW b \in Batches, batch[b] \in BatchTerminal, NEW q \in RunSet(b)
                 PROVE  row'[q].status \notin Active
      BY DEF BatchSettled
    <3>1. q \in Runs /\ BatchOf(q) = b /\ row[q].status \notin Active
      BY BatchOfRun DEF AloneInv, Alone, Books, BatchSettled
    <3>2. {"none", "queued"} \cap BatchTerminal = {}
      BY DEF BatchTerminal
    <3> QED
      BY <1>2, <1>5, <3>1, <3>2
  <2>3. ASSUME NEW e \in Logged, e.type = "run_finished"
        PROVE  row'[e.run].status \in Terminal
    <3>1. row[e.run].status \in Terminal /\ e.run \in RunSet(e.batch) /\ e.batch \in Batches
      BY <2>3 DEF AloneInv, Alone, Books, AnnouncedIsFinal, Logged, Events
    <3>2. e.run \in Runs /\ e.run # r
      BY <1>4, <3>1, BatchOfRun
    <3> QED
      BY <1>2, <3>1, <3>2
  <2>4. ASSUME NEW e \in Logged
        PROVE  /\ batch[e.batch] # "gone"
               /\ e.run # NoRun => row'[e.run].status # "gone"
    <3>1. /\ batch[e.batch] # "gone" /\ e.batch \in Batches
          /\ e.run # NoRun => row[e.run].status # "gone" /\ e.run \in RunSet(e.batch)
      BY DEF AloneInv, Alone, Books, NothingOfDeleted, Logged, Events
    <3>2. e.run # NoRun => e.run \in Runs
      BY <3>1, BatchOfRun
    <3> QED
      BY <1>2, <1>3, <3>1, <3>2
  <2>5. AnnouncedIsFinal' /\ NothingOfDeleted'
    BY <2>1, <2>3, <2>4 DEF AnnouncedIsFinal, NothingOfDeleted
  <2> QED
    BY <1>2, <1>6, <2>1, <2>2, <2>5 DEF AloneInv, Alone, Books
<1>8. Moves(o)
  <2>1. /\ worker[r] \in {"waiting", "episode"} => row'[r].status \in Active
        /\ task[BatchOf(r)] = "scheduled" => row'[r].status = "queued"
    BY <1>1, <1>2, StatusNames DEF Held, WorkerOK
  <2>2. o.do = "commit" => row'[r].status \notin Active
    BY <1>2, StatusNames
  <2> QED
    BY <1>2, <1>5, <2>1, <2>2 DEF Moves
<1>9. \A b \in Batches : owner[b] = Nobody => batch'[b] = "none"
  BY DEF AloneInv, Alone, Memory
<1>10. ASSUME NEW x \in Operations, Follows(o, x)
       PROVE  HeadAlone(x)'
  <2>1. CASE o.do = "commit"
    BY <1>2, <1>10, <2>1 DEF Follows, HeadAlone
  <2> QED
    BY <1>10, <2>1, NothingFollows
<1>11. ASSUME NEW x \in Operations, Before(o, x), PendingAlone(x)
       PROVE  PendingAlone(x)'
  <2>1. x.do # "gather"
    BY <1>11 DEF Before
  <2>2. x.do = "event" => x.run \in Runs \cup {NoRun}
    BY OperationFields
  <2>3. /\ x.do = "event" /\ (x.run # NoRun \/ x.type = "run_finished")
        => row'[x.run].status # "gone"
    <3> SUFFICES ASSUME x.do = "event", x.run # NoRun \/ x.type = "run_finished"
                 PROVE  row'[x.run].status # "gone"
      OBVIOUS
    <3>1. x.run \in RunSet(x.batch) /\ x.batch \in Batches /\ row[x.run].status # "gone"
      BY <1>11, OperationFields DEF PendingAlone
    <3>2. x.run \in Runs
      BY <3>1, BatchOfRun
    <3> QED
      BY <1>2, <1>3, <3>1, <3>2
  <2> QED
    BY <1>1, <1>11, <2>1, <2>3 DEF PendingAlone
<1> QED
  BY <1>7, <1>8, <1>9, <1>10, <1>11, AloneAfterDoing

LEMMA AloneAfterCreateRun ==
    ASSUME ApiOnly, AloneInv, NEW o, Doing(Api, o), o.do = "create_run", CreateRun(o.run)
    PROVE  Alone'
<1>1. o.run \in Runs /\ row[o.run].status = "none"
  BY HeadOfApi, OperationFields DEF Doing, Pending
<1>2. UNCHANGED <<batch, log>> /\ row'[o.run].status = "queued"
      /\ \A r \in Runs : r # o.run => row'[r] = row[r]
  BY <1>1, RowChange, StatusNames DEF CreateRun, AloneInv, DiskInv, Typed, TypeOK
<1> QED
  BY <1>1, <1>2, AloneAfterRow

LEMMA AloneAfterProgress ==
    ASSUME ApiOnly, AloneInv, NEW o, Doing(Api, o), o.do = "progress",
           UpdateRunProgress(o.run)
    PROVE  Alone'
<1>1. o.run \in Runs /\ row[o.run].status \in Active
  BY HeadOfApi, OperationFields DEF Doing, UpdateRunProgress, ProgressRefused
<1>2. UNCHANGED <<batch, log>> /\ row'[o.run].status = "running"
      /\ \A r \in Runs : r # o.run => row'[r] = row[r]
  BY <1>1, RowChange, StatusNames DEF UpdateRunProgress, AloneInv, DiskInv, Typed, TypeOK
<1> QED
  BY <1>1, <1>2, AloneAfterRow

LEMMA AloneAfterCommit ==
    ASSUME ApiOnly, AloneInv, NEW o, Doing(Api, o), o.do = "commit",
           FinalizeCommits(Api, o.run, o.status, o.captured)
    PROVE  Alone'
<1>1. /\ o.run \in Runs /\ o.status \in Terminal /\ o.captured \in BOOLEAN
      /\ row[o.run].status \in Active
  BY HeadOfApi, OperationFields DEF Doing, Held
<1>2. Exists(o.run)
  BY <1>1, StatusNames DEF Exists
<1>3. row' = [row EXCEPT ![o.run] = [status |-> o.status, captured |-> o.captured]]
      /\ UNCHANGED <<batch, log>>
  BY <1>2 DEF FinalizeCommits
<1>4. o.status \in RunStatus /\ StoreTypeOK
  BY <1>1, StatusNames DEF AloneInv, DiskInv, Typed, TypeOK
<1>5. row'[o.run].status = o.status /\ \A r \in Runs : r # o.run => row'[r] = row[r]
  BY <1>1, <1>3, <1>4, RowReplaced
<1> QED
  BY <1>1, <1>3, <1>5, AloneAfterRow

LEMMA AloneAfterDeleteRows ==
    ASSUME ApiOnly, AloneInv, NEW o, Doing(Api, o), o.do = "delete_rows", DeleteRows(o.run)
    PROVE  Alone'
<1>1. /\ UNCHANGED <<up, owner, task, worker, faults>> /\ todo[Api] # <<>> /\ o = Op(Api)
  BY DEF Doing
<1>2. o.run \in Runs /\ row[o.run].status \in Terminal
  BY <1>1, HeadOfApi, OperationFields DEF Held
<1>3. PICK r \in Runs : r = o.run
  BY <1>2
<1>4. PICK b \in Batches : b = BatchOf(r) /\ r \in RunSet(b)
  BY BatchOfRun
<1>5. /\ row'[r].status = "gone" /\ \A q \in Runs : q # r => row'[q] = row[q]
  BY <1>3, RowReplaced, StatusNames DEF DeleteRows, AloneInv, DiskInv, Typed, TypeOK
<1>6. PICK last \in BOOLEAN : last <=> \A q \in RunSet(b) \ {r} : ~Exists(q)
  OBVIOUS
<1>7. /\ \A c \in Batches : c # b \/ ~last => batch'[c] = batch[c]
      /\ last => batch'[b] = "gone"
  BY <1>3, <1>4, <1>6 DEF DeleteRows, AloneInv, DiskInv, Typed, TypeOK, StoreTypeOK
<1>8. \A e \in Events : log'[e] = IF e.batch = b /\ (e.run = r \/ last) THEN 0 ELSE log[e]
  BY <1>3, <1>4, <1>6 DEF DeleteRows, EventsLeft
<1>9. \A e \in Logged' : e \in Logged /\ ~(e.batch = b /\ (e.run = r \/ last))
  BY <1>8 DEF Logged
<1>10. r \notin {q \in Runs : row[q].status \in Active \cup {"none", "gone"}}
  BY <1>2, <1>3, StatusNames
<1>11. Books'
  <2>1. ASSUME NEW e \in Logged'
        PROVE  /\ e.run # NoRun \/ e.type = "run_finished"
                     => /\ e.run \in RunSet(e.batch) /\ e.run \in Runs /\ e.run # r
                        /\ row'[e.run] = row[e.run]
               /\ batch'[e.batch] # "gone"
               /\ e.run # NoRun => row[e.run].status # "gone"
               /\ e.type = "run_finished" => row[e.run].status \in Terminal
    <3>1. /\ e \in Logged /\ ~(e.batch = b /\ (e.run = r \/ last)) /\ e.batch \in Batches
      BY <1>9 DEF Logged, Events
    <3>2. /\ e.run # NoRun \/ e.type = "run_finished" => e.run \in RunSet(e.batch)
          /\ batch[e.batch] # "gone"
          /\ e.run # NoRun => row[e.run].status # "gone"
          /\ e.type = "run_finished" => row[e.run].status \in Terminal
      BY <3>1 DEF AloneInv, Alone, Books, NothingOfDeleted, AnnouncedIsFinal
    <3>3. e.run \in RunSet(e.batch) => e.run \in Runs /\ BatchOf(e.run) = e.batch
      BY <3>1, BatchOfRun
    <3>4. e.run \in RunSet(e.batch) => e.run # r
      BY <1>4, <3>1, <3>3
    <3>5. batch'[e.batch] # "gone"
      BY <1>7, <3>1, <3>2
    <3> QED
      BY <1>5, <3>2, <3>3, <3>4, <3>5
  <2>2. AnnouncedIsFinal'
    BY <2>1 DEF AnnouncedIsFinal
  <2>3. NothingOfDeleted'
    BY <2>1 DEF NothingOfDeleted
  <2>4. BatchSettled'
    <3> SUFFICES ASSUME NEW c \in Batches, batch'[c] \in BatchTerminal, NEW q \in RunSet(c)
                 PROVE  row'[q].status \notin Active
      BY DEF BatchSettled
    <3>1. q \in Runs /\ BatchOf(q) = c
      BY BatchOfRun
    <3>2. "gone" \notin BatchTerminal
      BY DEF BatchTerminal
    <3>3. batch'[c] = batch[c]
      BY <1>7, <3>2
    <3>4. row[q].status \notin Active
      BY <3>3 DEF AloneInv, Alone, Books, BatchSettled
    <3> QED
      BY <1>5, <3>1, <3>4, StatusNames
  <2>5. ASSUME NEW q \in Runs, batch'[BatchOf(q)] = "gone"
        PROVE  row'[q].status \in {"none", "gone"}
    <3>1. BatchOf(q) \in Batches /\ q \in RunSet(BatchOf(q))
      BY BatchOfRun
    <3>2. CASE BatchOf(q) = b /\ last
      BY <1>5, <1>6, <3>1, <3>2 DEF Exists
    <3>3. CASE ~(BatchOf(q) = b /\ last)
      <4>1. batch[BatchOf(q)] = "gone"
        BY <1>7, <2>5, <3>1, <3>3
      <4>2. row[q].status \in {"none", "gone"}
        BY <4>1 DEF AloneInv, Alone, Books
      <4> QED
        BY <1>5, <4>2
    <3> QED
      BY <3>2, <3>3
  <2> QED
    BY <2>1, <2>2, <2>3, <2>4, <2>5, BatchOfRun DEF Books, BatchOf, RunSet
<1>12. Moves(o)
  BY <1>3, <1>5, <1>10, StatusNames DEF Moves
<1>13. ASSUME NEW c \in Batches, owner[c] = Nobody
       PROVE  batch'[c] = "none"
  <2>1. batch[c] = "none" /\ \A q \in RunSet(c) : row[q].status = "none"
    BY <1>13 DEF AloneInv, DiskInv, Disk, Unowned, Alone, Memory
  <2>2. c # b
    BY <1>4, <1>10, <2>1
  <2> QED
    BY <1>7, <2>1, <2>2
<1>14. \A x \in Operations : Follows(o, x) => HeadAlone(x)'
  BY NothingFollows
<1>15. \A x \in Operations : Before(o, x) => PendingAlone(x)'
  BY DEF Before, PendingAlone
<1> QED
  BY <1>11, <1>12, <1>13, <1>14, <1>15, AloneAfterDoing

LEMMA AloneAfterMarked ==
    ASSUME ApiOnly, AloneInv, NEW o, Doing(Api, o), o.do = "marked",
           MarkCommits(Api, o.runs)
    PROVE  Alone'
<1>1. /\ UNCHANGED <<up, owner, task, worker, faults>> /\ todo[Api] # <<>> /\ o = Op(Api)
  BY DEF Doing
<1>2. o.runs = ActiveRows /\ \A b \in Batches : task[b] = "none"
  BY <1>1, HeadOfApi DEF HeadAlone
<1>3. \A r \in Runs :
         /\ row[r].status \in Active => row'[r].status = "interrupted"
         /\ row[r].status \notin Active => row'[r] = row[r]
  BY <1>2, StatusNames DEF MarkCommits, ActiveRows, Exists
<1>4. /\ UNCHANGED log
      /\ \A b \in Batches : batch'[b] = IF batch[b] \in BatchActive
                                        THEN "interrupted" ELSE batch[b]
  BY DEF MarkCommits
<1>5. \A r \in Runs : row'[r].status \notin Active
  BY <1>3, StatusNames
<1>6. /\ "gone" \notin BatchActive /\ "none" \notin BatchActive
  BY DEF BatchActive
<1>7. \A b \in Batches : /\ batch'[b] = "gone" <=> batch[b] = "gone"
                         /\ batch[b] = "none" => batch'[b] = "none"
  BY <1>4, <1>6
<1>8. Books'
  <2>1. UNCHANGED Logged
    BY <1>4 DEF Logged
  <2>2. ASSUME NEW e \in Logged
        PROVE  /\ e.run # NoRun \/ e.type = "run_finished" => e.run \in RunSet(e.batch)
               /\ batch'[e.batch] # "gone"
               /\ e.run # NoRun => row'[e.run].status # "gone"
               /\ e.type = "run_finished" => row'[e.run].status \in Terminal
    <3>1. /\ e.batch \in Batches
          /\ e.run # NoRun \/ e.type = "run_finished" => e.run \in RunSet(e.batch)
          /\ batch[e.batch] # "gone"
          /\ e.run # NoRun => row[e.run].status # "gone"
          /\ e.type = "run_finished" => row[e.run].status \in Terminal
      BY DEF AloneInv, Alone, Books, NothingOfDeleted, AnnouncedIsFinal, Logged, Events
    <3>2. e.run \in RunSet(e.batch) => e.run \in Runs
      BY <3>1, BatchOfRun
    <3> QED
      BY <1>3, <1>7, <3>1, <3>2, StatusNames
  <2>3. AnnouncedIsFinal'
    BY <2>1, <2>2 DEF AnnouncedIsFinal
  <2>4. NothingOfDeleted'
    BY <2>1, <2>2 DEF NothingOfDeleted
  <2>5. BatchSettled'
    BY <1>5, BatchOfRun DEF BatchSettled
  <2>6. ASSUME NEW q \in Runs, batch'[BatchOf(q)] = "gone"
        PROVE  row'[q].status \in {"none", "gone"}
    <3>1. batch[BatchOf(q)] = "gone"
      BY <1>7, <2>6, BatchOfRun
    <3>2. row[q].status \in {"none", "gone"}
      BY <3>1 DEF AloneInv, Alone, Books
    <3> QED
      BY <1>3, <3>2, StatusNames
  <2> QED
    BY <2>1, <2>2, <2>3, <2>4, <2>5, <2>6 DEF Books, BatchOf, RunSet
<1>9. Moves(o)
  <2>1. \A r \in Runs : worker[r] = "none" /\ task[BatchOf(r)] # "scheduled"
    BY <1>2, BatchOfRun DEF AloneInv, DiskInv, Disk, WorkerOK
  <2> QED
    BY <1>5, <2>1 DEF Moves
<1>10. \A b \in Batches : owner[b] = Nobody => batch'[b] = "none"
  BY <1>7 DEF AloneInv, Alone, Memory
<1>11. \A x \in Operations : Follows(o, x) => HeadAlone(x)'
  BY NothingFollows
<1>12. \A x \in Operations : Before(o, x) => PendingAlone(x)'
  BY DEF Before, PendingAlone
<1> QED
  BY <1>8, <1>9, <1>10, <1>11, <1>12, AloneAfterDoing

-----------------------------------------------------------------------------
(***************************************************************************)
(* The API alone: the invariant holds.                                     *)
(***************************************************************************)
LEMMA StoreStepAlone ==
    ASSUME ApiOnly, AloneInv, StoreStep(Api)
    PROVE  Alone'
<1>1. PICK o : o = Op(Api)
  OBVIOUS
<1>2. Doing(Api, o) /\ Performed(Api, o)
  BY <1>1 DEF StoreStep, Busy, Done, Doing
<1>3. CASE \/ o.do = "mkdir" /\ MakeDirectory(o.run)
           \/ o.do = "finalize" /\ FinalizeStarts(o.run, o.captured)
           \/ o.do = "result" /\ FinalizeWrites(Api, o.run, o.status)
           \/ o.do = "rename" /\ RenameDirectory(o.run)
           \/ o.do = "rmtree" /\ RemoveDirectory(o.run)
           \/ o.do = "mark" /\ MarkWrites(Api, o.runs)
  <2>1. UNCHANGED <<batch, row, log>>
    BY <1>3 DEF MakeDirectory, FinalizeStarts, FinalizeWrites, RenameDirectory,
                RemoveDirectory, MarkWrites, MarkedOnDisk, rows
  <2> QED
    BY <1>2, <1>3, <2>1, AloneAfterFiles
<1>4. CASE \/ o.do = "create_batch" /\ CreateBatch(o.batch)
           \/ o.do = "status" /\ UpdateBatchStatus(o.batch, o.status)
  BY <1>2, <1>4, AloneAfterBatchRow
<1>5. CASE ~(\/ o.do \in {"mkdir", "finalize", "result", "rename", "rmtree", "mark"}
             \/ o.do \in {"create_batch", "status"})
  BY <1>2, <1>5, AloneAfterCreateRun, AloneAfterEvent, AloneAfterProgress,
     AloneAfterCommit, AloneAfterDeleteRows, AloneAfterMarked DEF Performed
<1> QED
  BY <1>2, <1>3, <1>4, <1>5 DEF Performed

LEMMA StepAlone ==
    ASSUME ApiOnly, AloneInv, NEW p \in Procs, Step(p)
    PROVE  Alone'
<1>1. p = Api
  BY OnlyApi
<1>2. CASE StartFails(Api)
  BY <1>2, AloneAfterStop DEF StartFails, MarkRaises, MarkedOnDisk, rows
<1>3. CASE StoreStep(Api)
  BY <1>3, StoreStepAlone
<1>4. CASE Gather(Api) \/ ReadActive(Api) \/ Refused(Api)
  BY <1>4, AloneAfterGather, AloneAfterReadActive, AloneAfterRefused
<1> QED
  BY <1>1, <1>2, <1>3, <1>4, StoreSteps DEF Step

LEMMA ProgressAlone ==
    ASSUME ApiOnly, AloneInv, Progress
    PROVE  Alone'
<1>1. ~CliExits
  BY OnlyApi DEF CliExits, Idle
<1> QED
  BY <1>1, StepAlone, AloneAfterStartApi, AloneAfterStartBatch, AloneAfterFinishBatch,
     AloneAfterSkipRun, AloneAfterStartEpisode, AloneAfterEndEpisode DEF Progress

LEMMA StutterAlone ==
    ASSUME AloneInv, UNCHANGED vars
    PROVE  Alone'
<1>1. UNCHANGED <<batch, row, log, up, todo, owner, task, worker, faults>>
  BY DEF vars, store, rows, memory
<1>2. Books'
  BY <1>1, BooksKept DEF AloneInv, Alone
<1>3. Memory'
  BY <1>1 DEF AloneInv, Alone, Memory
<1>4. ActiveIsOwned'
  BY <1>1 DEF AloneInv, Alone, ActiveIsOwned, Starting, Op, BatchOf, RunSet
<1>5. HeadsAlone'
  BY <1>1 DEF AloneInv, Alone, HeadsAlone, HeadAlone, Op, ActiveRows, ActiveRun
<1>6. PendingsAlone'
  BY <1>1 DEF AloneInv, Alone, PendingsAlone, PendingAlone, Ops
<1>7. ASSUME NEW r \in Runs
      PROVE  Served(r)'
  <2>1. Served(r)
    BY DEF AloneInv, Alone
  <2>2. Finalizing(r)' <=> Finalizing(r)
    BY <1>1 DEF Finalizing, Op
  <2>3. \A b : Gathering(b)' <=> Gathering(b)
    BY <1>1 DEF Gathering, Ops
  <2> QED
    BY <1>1, <2>1, <2>2, <2>3 DEF Served, ActiveRun, BatchOf, RunSet
<1> QED
  BY <1>2, <1>3, <1>4, <1>5, <1>6, <1>7 DEF Alone

LEMMA NextAlone == ApiOnly /\ AloneInv /\ [Next]_vars => AloneInv'
<1> SUFFICES ASSUME ApiOnly, AloneInv, [Next]_vars
             PROVE  Alone'
  BY NextDisk DEF AloneInv
<1>1. ~StartCli
  BY OnlyApi DEF StartCli
<1>2. CASE UNCHANGED vars
  BY <1>2, StutterAlone
<1>3. CASE Request
  BY <1>3, RequestAlone, AloneAfterCreate
<1>4. CASE Failure \/ Progress
  BY <1>4, FailureAlone, ProgressAlone
<1> QED
  BY <1>1, <1>2, <1>3, <1>4 DEF Next

LEMMA InitAlone == Init => AloneInv
<1> SUFFICES ASSUME Init
             PROVE  Alone
  BY InitDisk DEF AloneInv
<1>1. DiskInv
  BY InitDisk
<1>2. /\ \A r \in Runs : row[r].status = "none" /\ worker[r] = "none"
      /\ \A b \in Batches : batch[b] = "none" /\ task[b] = "none"
      /\ todo[Api] = <<>> /\ up = {}
  BY ProcNames DEF Init, StoreInit
<1>3. Logged = {}
  BY DEF Init, StoreInit, Logged
<1>4. Books
  BY <1>2, <1>3, BatchOfRun, StatusNames
     DEF Books, AnnouncedIsFinal, NothingOfDeleted, BatchSettled
<1>5. Memory /\ ActiveIsOwned /\ HeadsAlone
  BY <1>2 DEF Memory, ActiveIsOwned, HeadsAlone
<1>6. Len(todo[Api]) = 0
  BY <1>2, EmptySeq
<1>7. PendingsAlone
  BY <1>6 DEF PendingsAlone, Ops
<1>8. \A r \in Runs : Served(r)
  BY <1>2, BatchOfRun DEF Served, ActiveRun
<1> QED
  BY <1>4, <1>5, <1>7, <1>8 DEF Alone

LEMMA AloneHolds == ApiOnly => (Spec => []AloneInv)
<1> SUFFICES ASSUME ApiOnly
             PROVE  Spec => []AloneInv
  OBVIOUS
<1>1. AloneInv /\ [Next]_vars => AloneInv'
  BY NextAlone
<1> QED
  BY <1>1, InitAlone, PTL DEF Spec

-----------------------------------------------------------------------------
(***************************************************************************)
(* The API alone: what follows from the invariant.                         *)
(***************************************************************************)
(* While one process has the database, a batch that is reported as ended has *)
(* no run queued or running: an operator who sees the end has seen them all. *)
THEOREM BatchesSettle == ApiOnly => (Spec => []BatchSettled)
<1>1. AloneInv => BatchSettled
  BY DEF AloneInv, Alone, Books
<1> QED
  BY <1>1, AloneHolds, PTL

(* While the API serves alone and nothing has failed, a task of it will end*)
(* every run that is active: the restart found all its predecessor left.   *)
THEOREM ActiveAreOwned == ApiOnly => (Spec => []ActiveIsOwned)
<1>1. AloneInv => ActiveIsOwned
  BY DEF AloneInv, Alone
<1> QED
  BY <1>1, AloneHolds, PTL

(* Alone, the API appends run_finished only after the row of the run has   *)
(* ended, and nothing takes the row back while the event is there.         *)
THEOREM AnnouncedAreFinal == ApiOnly => (Spec => []AnnouncedIsFinal)
<1>1. AloneInv => AnnouncedIsFinal
  BY DEF AloneInv, Alone, Books
<1> QED
  BY <1>1, AloneHolds, PTL

(* Alone, the API never appends an event of a run or a batch it has deleted, *)
(* and a deletion leaves none of those there were.                         *)
THEOREM DeletedLeaveNothing == ApiOnly => (Spec => []NothingOfDeleted)
<1>1. AloneInv => NothingOfDeleted
  BY DEF AloneInv, Alone, Books
<1> QED
  BY <1>1, AloneHolds, PTL

TerminalKept ==
    \A r \in Runs : row[r].status \in Terminal
       => row'[r] = row[r] \/ row'[r].status = "gone"

LEMMA RowsUnchanged == UNCHANGED row => TerminalKept
BY DEF TerminalKept

(* A write to the row of one run that found it not terminal.               *)
LEMMA OneRowChanges ==
    ASSUME NEW r \in Runs, row[r].status \notin Terminal,
           \A q \in Runs : q # r => row'[q] = row[q]
    PROVE  TerminalKept
BY DEF TerminalKept

LEMMA StoreStepKeepsTerminal ==
    ASSUME ApiOnly, AloneInv, StoreStep(Api)
    PROVE  TerminalKept
<1>1. PICK o : o = Op(Api)
  OBVIOUS
<1>2. Doing(Api, o) /\ Performed(Api, o) /\ todo[Api] # <<>>
  BY <1>1 DEF StoreStep, Busy, Done, Doing
<1>3. /\ o \in Operations /\ Held(Api, o) /\ Pending(Api, o) /\ HeadAlone(o)
  BY <1>1, <1>2, HeadOfApi
<1>4. StoreTypeOK
  BY DEF AloneInv, DiskInv, Typed, TypeOK
<1>5. CASE o.do = "create_run" /\ CreateRun(o.run)
  <2>1. o.run \in Runs /\ row[o.run].status \notin Terminal
    BY <1>3, <1>5, OperationFields, StatusNames DEF Pending
  <2>2. \A r \in Runs : r # o.run => row'[r] = row[r]
    BY <1>4, <1>5, <2>1, RowChange, StatusNames DEF CreateRun
  <2> QED
    BY <2>1, <2>2, OneRowChanges
<1>6. CASE o.do = "progress" /\ UpdateRunProgress(o.run)
  <2>1. o.run \in Runs /\ row[o.run].status \notin Terminal
    BY <1>3, <1>6, OperationFields, StatusNames DEF UpdateRunProgress, ProgressRefused
  <2>2. \A r \in Runs : r # o.run => row'[r] = row[r]
    BY <1>4, <1>6, <2>1, RowChange, StatusNames DEF UpdateRunProgress
  <2> QED
    BY <2>1, <2>2, OneRowChanges
<1>7. CASE o.do = "commit" /\ FinalizeCommits(Api, o.run, o.status, o.captured)
  <2>1. o.run \in Runs /\ row[o.run].status \notin Terminal
    BY <1>3, <1>7, OperationFields, StatusNames DEF Held
  <2>2. \A r \in Runs : r # o.run => row'[r] = row[r]
    BY <1>4, <1>7, <2>1 DEF FinalizeCommits, StoreTypeOK
  <2> QED
    BY <2>1, <2>2, OneRowChanges
<1>8. CASE o.do = "delete_rows" /\ DeleteRows(o.run)
  <2>1. o.run \in Runs
    BY <1>3, <1>8, OperationFields
  <2>2. row'[o.run].status = "gone" /\ \A r \in Runs : r # o.run => row'[r] = row[r]
    BY <1>4, <1>8, <2>1, RowReplaced, StatusNames DEF DeleteRows
  <2> QED
    BY <2>2 DEF TerminalKept
<1>9. CASE o.do = "marked" /\ MarkCommits(Api, o.runs)
  <2>1. \A r \in Runs : r \in o.runs <=> row[r].status \in Active
    BY <1>3, <1>9 DEF HeadAlone, ActiveRows
  <2>2. \A r \in Runs : row[r].status \in Terminal => r \notin o.runs
    BY <2>1, StatusNames
  <2> QED
    BY <1>9, <2>2 DEF TerminalKept, MarkCommits
<1>10. CASE UNCHANGED row
  BY <1>10, RowsUnchanged
<1>11. ~(o.do \in {"create_run", "progress", "commit", "delete_rows", "marked"})
          => UNCHANGED row
  BY <1>2 DEF Performed, CreateBatch, MakeDirectory, UpdateBatchStatus, AppendEvent,
              FinalizeStarts, FinalizeWrites, RenameDirectory, RemoveDirectory, MarkWrites,
              MarkedOnDisk, rows
<1> QED
  BY <1>2, <1>5, <1>6, <1>7, <1>8, <1>9, <1>10, <1>11 DEF Performed

(* Alone, the API never rewrites a run record that has ended, and never takes *)
(* one back: finalize_run, update_run_progress and the restart find it out.*)
THEOREM TerminalStays == ApiOnly => (Spec => TerminalIsFinal)
<1> SUFFICES ASSUME ApiOnly
             PROVE  Spec => TerminalIsFinal
  OBVIOUS
<1>1. AloneInv /\ [Next]_vars => [TerminalKept]_vars
  <2> SUFFICES ASSUME AloneInv, Next
               PROVE  TerminalKept
    OBVIOUS
  <2>1. CASE \E p \in Procs : Step(p)
    <3>1. Step(Api)
      BY <2>1, OnlyApi
    <3>2. StoreStep(Api) \/ UNCHANGED row
      BY <3>1, StoreSteps DEF Step, Gather, ReadActive, Refused, StartFails, MarkRaises,
                              MarkedOnDisk, store, rows
    <3> QED
      BY <3>2, StoreStepKeepsTerminal, RowsUnchanged
  <2>2. CASE ~ \E p \in Procs : Step(p)
    <3>1. UNCHANGED row
      BY <2>2 DEF Next, Progress, StartApi, CliExits, StartBatch, FinishBatch, SkipRun,
                  StartEpisode, EndEpisode, StartCli, Request, Create, Cancel, DeleteRun,
                  DeleteCandidateDiff, DeleteCandidateArtifact, Failure, EpisodeRaises,
                  MkdirFails, ResultFails, DeleteFails, Crash, store, rows
    <3> QED
      BY <3>1, RowsUnchanged
  <2> QED
    BY <2>1, <2>2
<1>2. [TerminalKept]_vars
         => [\A r \in Runs : row[r].status \in Terminal
                => row'[r] = row[r] \/ row'[r].status = "gone"]_vars
  BY DEF TerminalKept
<1>3. Spec => []AloneInv
  BY AloneHolds
<1> QED
  BY <1>1, <1>2, <1>3, PTL DEF Spec, TerminalIsFinal
=============================================================================
