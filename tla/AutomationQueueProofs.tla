------------------------ MODULE AutomationQueueProofs ------------------------
(***************************************************************************)
(* Proofs about the automation queue, for any jobs and any number of       *)
(* places: its type invariant, what paused jobs and the event log promise, *)
(* that no place is taken twice or left idle while a job waits for it, and *)
(* that it implements the life of a job.                                   *)
(***************************************************************************)
EXTENDS AutomationQueueProps, SequenceTheorems, FiniteSetTheorems, WellFoundedInduction, TLAPS

-----------------------------------------------------------------------------
(* The inductive invariant.                                                *)

TellOf(j, st) == [op |-> "tell", job |-> j, state |-> st]

RunOf(j) == [op |-> "run", job |-> j]

SignalOf(j) == [op |-> "signal", job |-> j]

PumpStatement == [op |-> "pump"]

StartCode(j) == <<TellOf(j, "running"), RunOf(j), PumpStatement>>

RunCode(j) == <<RunOf(j), PumpStatement>>

CancelCode(j) == <<TellOf(j, "cancelling"), SignalOf(j)>>

SignalCode(j) == <<SignalOf(j)>>

(* What a handler can have left to execute.                                *)
Calm(c) == c = <<>> \/ c = PumpAll \/ \E j \in Jobs : c = CancelCode(j) \/ c = SignalCode(j)

CodeShape(c) == Calm(c) \/ \E j \in Jobs : c = StartCode(j) \/ c = RunCode(j)

(* The execution of job j is about to be started.                          *)
CodePending(c, j) == c = StartCode(j) \/ c = RunCode(j)

AllFree(e) == e[1] = "none" /\ e[2] = "none"

OneFree(e) == e[1] = "none" \/ e[2] = "none"

(* A job that can be started has a free number: it runs a second time only *)
(* after the answer to its pause, and that is answered once.               *)
RunsFit(x, e, pending) ==
  /\ x.pause # "answered" => OneFree(e)
  /\ x.pause # "answered" /\ (x.state \in {"none", "queued"} \/ pending) => AllFree(e)
  /\ x.state = "queued" \/ pending => OneFree(e)
  /\ x.state = "none" => x.pause = "none" /\ AllFree(e)
  /\ pending => x.state = "running"

(* The log of a job told its state, or is behind after a restart, or the   *)
(* code still has to tell.                                                 *)
LogFit(x, starting, cancelling) ==
  \/ x.told = x.state
  \/ x.state = "queued" /\ x.told \in {"running", "cancelling"}
  \/ starting /\ x.state = "running" /\ x.told \in {"queued", "running", "cancelling"}
  \/ cancelling /\ x.state = "cancelling" /\ x.told = "running"

FitsAs(x, e, starting, pending, cancelling) ==
  /\ x.state = "waiting" => x.pause = "open"
  /\ RunsFit(x, e, pending) /\ LogFit(x, starting, cancelling)
  /\ cancelling => x.state = "cancelling"

Fits(x, e, c, j) == FitsAs(x, e, c = StartCode(j), CodePending(c, j), c = CancelCode(j))

(* The job does not occur in the code, or only to be signalled.            *)
Quiet(x, e) == FitsAs(x, e, FALSE, FALSE, FALSE)

TypesOK ==
  /\ job \in [Jobs -> Job] /\ order \in Seq(Jobs)
  /\ active \in [Jobs -> 0..2] /\ exec \in [Jobs -> [Runs -> Execution]]
  /\ closing \in BOOLEAN

QueueInv ==
  /\ TypesOK /\ CodeShape(code)
  /\ \A j \in Jobs : Fits(job[j], exec[j], code, j)

-----------------------------------------------------------------------------
(* The record of a job.                                                    *)

(* Every store operation leaves a record of a job.                         *)
LEMMA StoreOpsType ==
  ASSUME NEW x \in Job, NEW st \in States
  PROVE  /\ Create(x) \in Job /\ Move(x, st) \in Job /\ Tell(x, st) \in Job
         /\ Finish(x, st) \in Job /\ Pause(x) \in Job /\ Resume(x) \in Job
         /\ Recover(x) \in Job
<1>1. {"queued", "waiting"} \subseteq States
  BY DEF States
<1> QED
  BY <1>1 DEF Job, Create, Move, Tell, Finish, Pause, Resume, Recover

(* What the pieces of code that can be left look like.                     *)
LEMMA CodeParts ==
  ASSUME NEW j
  PROVE  /\ PumpAll # <<>> /\ Head(PumpAll) = PumpStatement /\ Tail(PumpAll) = <<>>
         /\ StartCode(j) # <<>> /\ Head(StartCode(j)) = TellOf(j, "running")
         /\ Tail(StartCode(j)) = RunCode(j)
         /\ RunCode(j) # <<>> /\ Head(RunCode(j)) = RunOf(j) /\ Tail(RunCode(j)) = PumpAll
         /\ CancelCode(j) # <<>> /\ Head(CancelCode(j)) = TellOf(j, "cancelling")
         /\ Tail(CancelCode(j)) = SignalCode(j)
         /\ SignalCode(j) # <<>> /\ Head(SignalCode(j)) = SignalOf(j)
         /\ Tail(SignalCode(j)) = <<>>
         /\ <<TellOf(j, "running"), RunOf(j)>> \o PumpAll = StartCode(j)
<1> DEFINE a == TellOf(j, "running") b == RunOf(j) c == PumpStatement
           d == TellOf(j, "cancelling") e == SignalOf(j)
<1>0. PumpAll = <<c>>
  BY DEF PumpAll, PumpStatement
<1> HIDE DEF a, b, c, d, e
<1>1. <<c>> # <<>> /\ Head(<<c>>) = c /\ Tail(<<c>>) = <<>>
  OBVIOUS
<1>2. <<a, b, c>> # <<>> /\ Head(<<a, b, c>>) = a /\ Tail(<<a, b, c>>) = <<b, c>>
  OBVIOUS
<1>3. <<b, c>> # <<>> /\ Head(<<b, c>>) = b /\ Tail(<<b, c>>) = <<c>>
  OBVIOUS
<1>4. <<d, e>> # <<>> /\ Head(<<d, e>>) = d /\ Tail(<<d, e>>) = <<e>>
  OBVIOUS
<1>5. <<e>> # <<>> /\ Head(<<e>>) = e /\ Tail(<<e>>) = <<>>
  OBVIOUS
<1>6. <<a, b>> \o <<c>> = <<a, b, c>>
  <2> DEFINE S == {a, b, c} w == <<a, b>> \o <<c>> v == <<a, b, c>>
  <2>1. <<a, b>> \in Seq(S) /\ <<c>> \in Seq(S) /\ v \in Seq(S)
    OBVIOUS
  <2>2. w \in Seq(S) /\ Len(w) = 3 /\ w[1] = a /\ w[2] = b /\ w[3] = c
    BY <2>1, ConcatProperties
  <2>3. Len(v) = 3 /\ v[1] = a /\ v[2] = b /\ v[3] = c
    OBVIOUS
  <2> HIDE DEF w, v, S
  <2>4. \A i \in 1..Len(w) : w[i] = v[i]
    BY <2>2, <2>3
  <2>5. w = v
    BY <2>1, <2>2, <2>3, <2>4, SeqEqual
  <2> QED
    BY <2>5 DEF w, v
<1> QED
  BY <1>0, <1>1, <1>2, <1>3, <1>4, <1>5, <1>6
  DEF a, b, c, d, e, StartCode, RunCode, CancelCode, SignalCode

(* The statements of the code differ in what they do and for which job.    *)
LEMMA StatementFields ==
  ASSUME NEW j, NEW st
  PROVE  /\ TellOf(j, st).op = "tell" /\ TellOf(j, st).job = j /\ TellOf(j, st).state = st
         /\ RunOf(j).op = "run" /\ RunOf(j).job = j
         /\ SignalOf(j).op = "signal" /\ SignalOf(j).job = j
         /\ PumpStatement.op = "pump"
BY DEF TellOf, RunOf, SignalOf, PumpStatement

(* What a handler does first and has left then.                            *)
LEMMA HeadFields ==
  ASSUME NEW j
  PROVE  /\ Head(StartCode(j)).op = "tell" /\ Head(StartCode(j)).job = j
         /\ Head(StartCode(j)).state = "running" /\ Tail(StartCode(j)) = RunCode(j)
         /\ Head(CancelCode(j)).op = "tell" /\ Head(CancelCode(j)).job = j
         /\ Head(CancelCode(j)).state = "cancelling" /\ Tail(CancelCode(j)) = SignalCode(j)
         /\ Head(RunCode(j)).op = "run" /\ Head(RunCode(j)).job = j
         /\ Tail(RunCode(j)) = PumpAll
         /\ Head(SignalCode(j)).op = "signal" /\ Head(SignalCode(j)).job = j
         /\ Tail(SignalCode(j)) = <<>>
<1>1. /\ Head(StartCode(j)) = TellOf(j, "running") /\ Tail(StartCode(j)) = RunCode(j)
      /\ Head(RunCode(j)) = RunOf(j) /\ Tail(RunCode(j)) = PumpAll
      /\ Head(CancelCode(j)) = TellOf(j, "cancelling") /\ Tail(CancelCode(j)) = SignalCode(j)
      /\ Head(SignalCode(j)) = SignalOf(j) /\ Tail(SignalCode(j)) = <<>>
  BY CodeParts
<1>2. /\ TellOf(j, "running").op = "tell" /\ TellOf(j, "running").job = j
      /\ TellOf(j, "running").state = "running"
  BY DEF TellOf
<1>3. /\ TellOf(j, "cancelling").op = "tell" /\ TellOf(j, "cancelling").job = j
      /\ TellOf(j, "cancelling").state = "cancelling"
  BY DEF TellOf
<1>4. /\ RunOf(j).op = "run" /\ RunOf(j).job = j
      /\ SignalOf(j).op = "signal" /\ SignalOf(j).job = j
  BY StatementFields
<1> QED
  BY <1>1, <1>2, <1>3, <1>4

(* Only the code that starts an execution has one pending, of that job.    *)
LEMMA PendingFacts ==
  ASSUME NEW j, NEW k, NEW c
  PROVE  /\ Calm(c) => ~CodePending(c, j) /\ c # StartCode(j)
         /\ CodePending(StartCode(k), j) => j = k
         /\ CodePending(RunCode(k), j) => j = k
         /\ RunCode(k) # StartCode(j) /\ RunCode(k) # CancelCode(j)
         /\ StartCode(k) # CancelCode(j)
         /\ <<>> # CancelCode(j) /\ PumpAll # CancelCode(j) /\ SignalCode(k) # CancelCode(j)
         /\ CancelCode(k) = CancelCode(j) => j = k
         /\ ~CodePending(<<>>, j) /\ ~CodePending(PumpAll, j)
         /\ ~CodePending(SignalCode(k), j) /\ ~CodePending(CancelCode(k), j)
<1>1. ASSUME NEW x, NEW y
      PROVE  /\ TellOf(x, "running") # RunOf(y) /\ TellOf(x, "running") # SignalOf(y)
             /\ TellOf(x, "running") # PumpStatement /\ RunOf(x) # SignalOf(y)
             /\ RunOf(x) # PumpStatement /\ SignalOf(x) # PumpStatement
             /\ TellOf(x, "cancelling") # RunOf(y) /\ TellOf(x, "cancelling") # SignalOf(y)
             /\ TellOf(x, "cancelling") # PumpStatement
             /\ TellOf(x, "running") # TellOf(y, "cancelling")
             /\ TellOf(x, "running") = TellOf(y, "running") => x = y
             /\ TellOf(x, "cancelling") = TellOf(y, "cancelling") => x = y
             /\ RunOf(x) = RunOf(y) => x = y
  <2>1. "tell" # "run" /\ "tell" # "signal" /\ "tell" # "pump" /\ "run" # "signal"
        /\ "run" # "pump" /\ "signal" # "pump" /\ "running" # "cancelling"
    OBVIOUS
  <2> QED
    BY <2>1, StatementFields
<1>2. \A x : /\ PumpAll # <<>> /\ Head(PumpAll) = PumpStatement
             /\ StartCode(x) # <<>> /\ Head(StartCode(x)) = TellOf(x, "running")
             /\ RunCode(x) # <<>> /\ Head(RunCode(x)) = RunOf(x)
             /\ CancelCode(x) # <<>> /\ Head(CancelCode(x)) = TellOf(x, "cancelling")
             /\ SignalCode(x) # <<>> /\ Head(SignalCode(x)) = SignalOf(x)
  BY CodeParts
<1>3. ASSUME NEW x
      PROVE  /\ PumpAll # StartCode(x) /\ PumpAll # RunCode(x) /\ PumpAll # CancelCode(x)
             /\ <<>> # StartCode(x) /\ <<>> # RunCode(x) /\ <<>> # CancelCode(x)
  BY <1>1, <1>2
<1>4. ASSUME NEW x, NEW y
      PROVE  /\ CancelCode(y) # StartCode(x) /\ CancelCode(y) # RunCode(x)
             /\ SignalCode(y) # StartCode(x) /\ SignalCode(y) # RunCode(x)
             /\ SignalCode(y) # CancelCode(x) /\ RunCode(y) # StartCode(x)
             /\ (StartCode(x) = StartCode(y) => x = y)
             /\ (RunCode(x) = RunCode(y) => x = y)
             /\ (CancelCode(x) = CancelCode(y) => x = y)
  BY <1>1, <1>2
<1>5. Calm(c) => ~CodePending(c, j) /\ c # StartCode(j)
  BY <1>3, <1>4 DEF Calm, CodePending
<1> QED
  BY <1>3, <1>4, <1>5 DEF CodePending

(* Code that does not mention a job, or only to signal it, leaves it quiet. *)
LEMMA QuietCode ==
  ASSUME NEW x, NEW e, NEW c, NEW j,
         \/ c = <<>> \/ c = PumpAll \/ \E k : c = SignalCode(k)
         \/ \E k : k # j /\ (c = CancelCode(k) \/ c = StartCode(k) \/ c = RunCode(k))
  PROVE  Fits(x, e, c, j) <=> Quiet(x, e)
<1>1. ~CodePending(c, j) /\ c # CancelCode(j)
  <2>1. CASE c = <<>> \/ c = PumpAll
    BY <2>1, PendingFacts
  <2>2. CASE \E k : c = SignalCode(k)
    BY <2>2, PendingFacts
  <2>3. CASE \E k : k # j /\ (c = CancelCode(k) \/ c = StartCode(k) \/ c = RunCode(k))
    <3>1. PICK k : k # j /\ (c = CancelCode(k) \/ c = StartCode(k) \/ c = RunCode(k))
      BY <2>3
    <3>2. CASE c = CancelCode(k)
      BY <3>1, <3>2, PendingFacts
    <3>3. CASE c = StartCode(k)
      BY <3>1, <3>3, PendingFacts
    <3>4. CASE c = RunCode(k)
      BY <3>1, <3>4, PendingFacts
    <3> QED
      BY <3>1, <3>2, <3>3, <3>4
  <2> QED
    BY <2>1, <2>2, <2>3
<1> QED
  BY <1>1 DEF Fits, Quiet, CodePending

(* The code of a job says what it is about to do.                          *)
LEMMA BusyCode ==
  ASSUME NEW x, NEW e, NEW j
  PROVE  /\ Fits(x, e, StartCode(j), j) <=> FitsAs(x, e, TRUE, TRUE, FALSE)
         /\ Fits(x, e, RunCode(j), j) <=> FitsAs(x, e, FALSE, TRUE, FALSE)
         /\ Fits(x, e, CancelCode(j), j) <=> FitsAs(x, e, FALSE, FALSE, TRUE)
<1>1. /\ StartCode(j) # CancelCode(j) /\ RunCode(j) # StartCode(j)
      /\ RunCode(j) # CancelCode(j) /\ ~(CancelCode(j) = RunCode(j))
  BY PendingFacts
<1> QED
  BY <1>1 DEF Fits, CodePending

(* The store operations keep a quiet job as it should be.                  *)
LEMMA StoreFits ==
  ASSUME NEW x \in Job, NEW e, Quiet(x, e)
  PROVE  /\ x.state = "none" => Quiet(Create(x), e)
         /\ \A st \in Terminal : Quiet(Finish(x, st), e)
         /\ Quiet(Resume(x), e)
         /\ ~AllFree(e) => Quiet(Pause(x), e)
         /\ x.state = "queued" => FitsAs(Move(x, "running"), e, TRUE, TRUE, FALSE)
         /\ x.state = "running" => FitsAs(Move(x, "cancelling"), e, FALSE, FALSE, TRUE)
<1> USE DEF Quiet, FitsAs, RunsFit, LogFit, AllFree, OneFree
<1>1. x.state = "none" => Quiet(Create(x), e)
  BY DEF Create, Job
<1>2. \A st \in Terminal : Quiet(Finish(x, st), e)
  BY DEF Finish, Job, Terminal
<1>3. Quiet(Resume(x), e)
  BY DEF Resume, Job
<1>4. ~AllFree(e) => Quiet(Pause(x), e)
  BY DEF Pause, Job
<1>5. x.state = "queued" => FitsAs(Move(x, "running"), e, TRUE, TRUE, FALSE)
  BY DEF Move, Job
<1>6. x.state = "running" => FitsAs(Move(x, "cancelling"), e, FALSE, FALSE, TRUE)
  BY DEF Move, Job
<1> QED
  BY <1>1, <1>2, <1>3, <1>4, <1>5, <1>6

(* The events of a transition are told.                                    *)
LEMMA TellFits ==
  ASSUME NEW x \in Job, NEW e
  PROVE  /\ FitsAs(x, e, TRUE, TRUE, FALSE)
              => FitsAs(Tell(x, "running"), e, FALSE, TRUE, FALSE)
         /\ FitsAs(x, e, FALSE, FALSE, TRUE) => Quiet(Tell(x, "cancelling"), e)
BY DEF Quiet, FitsAs, RunsFit, LogFit, AllFree, OneFree, Tell, Job

(* Executions that end leave room.                                         *)
LEMMA ExecFits ==
  ASSUME NEW x, NEW e, NEW f, Quiet(x, e), \A r \in Runs : e[r] = "none" => f[r] = "none"
  PROVE  Quiet(x, f)
<1>1. (AllFree(e) => AllFree(f)) /\ (OneFree(e) => OneFree(f))
  BY DEF AllFree, OneFree, Runs
<1> QED
  BY <1>1 DEF Quiet, FitsAs, RunsFit, LogFit

(* A restart leaves a job as it should be, whatever was going on.          *)
LEMMA RecoverFits ==
  ASSUME NEW x \in Job, NEW e, NEW c, NEW j, NEW f, Fits(x, e, c, j), AllFree(f)
  PROVE  Quiet(Recover(x), f)
<1>1. OneFree(f)
  BY DEF AllFree, OneFree
<1>2. CASE x.state \in {"running", "cancelling"}
  BY <1>1, <1>2 DEF Fits, Quiet, FitsAs, RunsFit, LogFit, Recover, Job
<1>3. CASE x.state \notin {"running", "cancelling"}
  BY <1>1, <1>3 DEF Fits, Quiet, FitsAs, RunsFit, LogFit, Recover
<1> QED
  BY <1>2, <1>3

-----------------------------------------------------------------------------
(* Every step keeps the invariant.                                         *)

(* The code is about job j, if it is about any job.                        *)
About(c, j) ==
  \/ c = <<>> \/ c = PumpAll \/ c = SignalCode(j)
  \/ c = CancelCode(j) \/ c = StartCode(j) \/ c = RunCode(j)

(* What the running handler does first tells what all of its code is.      *)
LEMMA FirstIs ==
  ASSUME CodeShape(code)
  PROVE  /\ First("tell") => \E j \in Jobs : code = StartCode(j) \/ code = CancelCode(j)
         /\ First("pump") => code = PumpAll
         /\ First("run") => \E j \in Jobs : code = RunCode(j)
         /\ First("signal") => \E j \in Jobs : code = SignalCode(j)
<1>1. "tell" # "run" /\ "tell" # "signal" /\ "tell" # "pump" /\ "run" # "signal"
      /\ "run" # "pump" /\ "signal" # "pump"
  OBVIOUS
<1>2. Head(PumpAll).op = "pump"
  BY CodeParts, StatementFields
<1>3. ASSUME NEW j
      PROVE  /\ Head(StartCode(j)).op = "tell" /\ Head(RunCode(j)).op = "run"
             /\ Head(CancelCode(j)).op = "tell" /\ Head(SignalCode(j)).op = "signal"
  BY HeadFields
<1> QED
  BY <1>1, <1>2, <1>3 DEF CodeShape, Calm, First

(* A step about one job keeps the invariant if that job fits again.        *)
LEMMA OneJob ==
  ASSUME QueueInv, NEW j, About(code, j), About(code', j), CodeShape(code'), TypesOK',
         \A k \in Jobs : k # j => job'[k] = job[k] /\ exec'[k] = exec[k],
         j \in Jobs => Fits(job'[j], exec'[j], code', j)
  PROVE  QueueInv'
<1>1. ASSUME NEW k \in Jobs
      PROVE  Fits(job'[k], exec'[k], code', k)
  <2>1. CASE k = j
    BY <2>1
  <2>2. CASE k # j
    <3>1. Fits(job[k], exec[k], code, k)
      BY DEF QueueInv
    <3>2. Quiet(job[k], exec[k])
      BY <3>1, <2>2, QuietCode DEF About
    <3>3. Fits(job[k], exec[k], code', k)
      BY <3>2, <2>2, QuietCode DEF About
    <3> QED
      BY <3>3, <2>2
  <2> QED
    BY <2>1, <2>2
<1> QED
  BY <1>1 DEF QueueInv

(* The code of a job that the invariant allows.                            *)
LEMMA AboutShape ==
  ASSUME NEW j
  PROVE  /\ About(<<>>, j) /\ About(PumpAll, j) /\ About(SignalCode(j), j)
         /\ About(CancelCode(j), j) /\ About(StartCode(j), j) /\ About(RunCode(j), j)
         /\ CodeShape(<<>>) /\ CodeShape(PumpAll)
         /\ j \in Jobs => /\ CodeShape(SignalCode(j)) /\ CodeShape(CancelCode(j))
                          /\ CodeShape(StartCode(j)) /\ CodeShape(RunCode(j))
BY DEF About, CodeShape, Calm

(* Jobs are quiet while nobody starts or cancels one.                      *)
LEMMA AtRest ==
  ASSUME QueueInv, NEW j \in Jobs, code = <<>> \/ code = PumpAll \/ \E k : code = SignalCode(k)
  PROVE  Quiet(job[j], exec[j]) /\ job[j] \in Job /\ exec[j] \in [Runs -> Execution]
<1>1. Fits(job[j], exec[j], code, j) /\ job[j] \in Job /\ exec[j] \in [Runs -> Execution]
  BY DEF QueueInv, TypesOK
<1> QED
  BY <1>1, QuietCode

(* The other variables keep their types.                                   *)
LEMMA JobsType ==
  ASSUME TypesOK, NEW j, NEW x, x \in Job, job' = [job EXCEPT ![j] = x],
         order' \in Seq(Jobs), UNCHANGED <<active, exec, closing>>
  PROVE  TypesOK'
BY DEF TypesOK

LEMMA TellStateType ==
  ASSUME QueueInv, TellState, NEW j, NEW st \in {"running", "cancelling"},
         job[j] \in Job, job' = [job EXCEPT ![j] = Tell(@, st)]
  PROVE  TypesOK'
<1>1. Tell(job[j], st) \in Job
  BY StoreOpsType DEF States
<1> QED
  BY <1>1, JobsType DEF TellState, QueueInv, TypesOK

LEMMA TellStateKeeps ==
  ASSUME QueueInv, TellState
  PROVE  QueueInv'
<1>1. PICK j \in Jobs : code = StartCode(j) \/ code = CancelCode(j)
  BY FirstIs DEF QueueInv, TellState
<1>2. job[j] \in Job /\ Fits(job[j], exec[j], code, j) /\ About(code, j)
  BY <1>1 DEF QueueInv, TypesOK, About
<1>3. CASE code = StartCode(j)
  <2>0. Tail(code) = RunCode(j) /\ Head(code).job = j /\ Head(code).state = "running"
    BY <1>3, HeadFields
  <2>1. code' = RunCode(j) /\ job' = [job EXCEPT ![j] = Tell(@, "running")]
    BY <2>0 DEF TellState
  <2>2. TypesOK'
    BY <2>1, <1>2, TellStateType DEF TellState, QueueInv
  <2>3. FitsAs(job[j], exec[j], TRUE, TRUE, FALSE)
    BY <1>2, <1>3, BusyCode
  <2>4. FitsAs(Tell(job[j], "running"), exec[j], FALSE, TRUE, FALSE)
    BY <2>3, <1>2, TellFits
  <2>5. job'[j] = Tell(job[j], "running") /\ exec' = exec
    BY <2>1 DEF TellState, QueueInv, TypesOK
  <2>6. \A k \in Jobs : k # j => job'[k] = job[k] /\ exec'[k] = exec[k]
    BY <2>1 DEF TellState, QueueInv, TypesOK
  <2>7. Fits(job'[j], exec'[j], code', j)
    BY <2>1, <2>4, <2>5, BusyCode
  <2> QED
    BY <1>2, <2>1, <2>2, <2>6, <2>7, OneJob, AboutShape
<1>4. CASE code = CancelCode(j)
  <2>0. Tail(code) = SignalCode(j) /\ Head(code).job = j /\ Head(code).state = "cancelling"
    BY <1>4, HeadFields
  <2>1. code' = SignalCode(j) /\ job' = [job EXCEPT ![j] = Tell(@, "cancelling")]
    BY <2>0 DEF TellState
  <2>2. TypesOK'
    BY <2>1, <1>2, TellStateType DEF TellState, QueueInv
  <2>3. FitsAs(job[j], exec[j], FALSE, FALSE, TRUE)
    BY <1>2, <1>4, BusyCode
  <2>4. Quiet(Tell(job[j], "cancelling"), exec[j])
    BY <2>3, <1>2, TellFits
  <2>5. job'[j] = Tell(job[j], "cancelling") /\ exec' = exec
    BY <2>1 DEF TellState, QueueInv, TypesOK
  <2>6. \A k \in Jobs : k # j => job'[k] = job[k] /\ exec'[k] = exec[k]
    BY <2>1 DEF TellState, QueueInv, TypesOK
  <2>7. Fits(job'[j], exec'[j], code', j)
    BY <2>1, <2>4, <2>5, QuietCode
  <2> QED
    BY <1>2, <2>1, <2>2, <2>6, <2>7, OneJob, AboutShape
<1> QED
  BY <1>1, <1>3, <1>4

(* There is a first queued job, if there is any.                           *)
LEMMA NextJobIsQueued ==
  ASSUME order \in Seq(Jobs), Queued # {}
  PROVE  NextJob \in Jobs /\ job[NextJob].state = "queued"
<1>1. Queued \subseteq Nat
  BY LenProperties DEF Queued
<1> DEFINE R == OpToRel(<, Nat)
<1>2. R = {p \in Nat \X Nat : p[1] < p[2]}
  BY Zenon DEF OpToRel
<1>3. IsWellFoundedOn(R, Nat)
  BY NatLessThanWellFounded
<1> HIDE DEF R
<1>4. PICK i \in Queued : \A k \in Queued : <<k, i>> \notin R
  BY <1>1, <1>3, WFMin, Zenon
<1>5. \A k \in Queued : i <= k
  <2> TAKE k \in Queued
  <2>1. i \in Nat /\ k \in Nat
    BY <1>1
  <2>2. \A p \in Nat \X Nat : p[1] < p[2] => p \in R
    BY <1>2
  <2>3. k < i => <<k, i>> \in R
    BY <2>1, <2>2
  <2> QED
    BY <2>1, <2>3, <1>4
<1> DEFINE n == CHOOSE m \in Queued : \A k \in Queued : m <= k
<1>6. n \in Queued
  BY <1>5
<1>7. NextJob = order[n]
  BY DEF NextJob
<1> HIDE DEF n
<1>8. n \in DOMAIN order /\ job[order[n]].state = "queued"
  BY <1>6 DEF Queued
<1>9. order[n] \in Jobs
  BY <1>8, ElementOfSeq, LenProperties
<1> QED
  BY <1>7, <1>8, <1>9

LEMMA PumpKeeps ==
  ASSUME QueueInv, Pump
  PROVE  QueueInv'
<1>1. code = PumpAll
  BY FirstIs DEF QueueInv, Pump
<1>2. CASE ~MayStart
  <2>1. code' = <<>> /\ job' = job /\ exec' = exec /\ TypesOK'
    BY <1>1, <1>2, CodeParts DEF Pump, QueueInv, TypesOK
  <2>2. ASSUME NEW j \in Jobs
        PROVE  Fits(job'[j], exec'[j], code', j)
    BY <1>1, <2>1, AtRest, QuietCode
  <2> QED
    BY <2>1, <2>2, AboutShape DEF QueueInv
<1>3. CASE MayStart
  <2> DEFINE j == NextJob
  <2>1. j \in Jobs /\ job[j].state = "queued"
    BY <1>3, NextJobIsQueued DEF MayStart, QueueInv, TypesOK
  <2>2. job' = [job EXCEPT ![j] = Move(@, "running")]
    BY <1>3 DEF Pump
  <2>3. code' = <<TellOf(j, "running"), RunOf(j)>> \o PumpAll
    BY <1>1, <1>3 DEF Pump, TellOf, RunOf
  <2> HIDE DEF j
  <2>4. code' = StartCode(j)
    BY <2>3, CodeParts
  <2>5. Quiet(job[j], exec[j]) /\ job[j] \in Job
    BY <1>1, <2>1, AtRest
  <2>6. FitsAs(Move(job[j], "running"), exec[j], TRUE, TRUE, FALSE)
    BY <2>1, <2>5, StoreFits
  <2>7. Fits(job'[j], exec'[j], code', j)
    BY <2>1, <2>2, <2>4, <2>6, BusyCode DEF Pump, QueueInv, TypesOK
  <2>8. TypesOK'
    BY <2>2, <2>5, StoreOpsType DEF QueueInv, TypesOK, Pump, States
  <2>9. \A k \in Jobs : k # j => job'[k] = job[k] /\ exec'[k] = exec[k]
    BY <2>2 DEF Pump, QueueInv, TypesOK
  <2> QED
    BY <1>1, <2>1, <2>4, <2>7, <2>8, <2>9, OneJob, AboutShape
<1> QED
  BY <1>2, <1>3

LEMMA RunKeeps ==
  ASSUME QueueInv, Run
  PROVE  QueueInv'
<1>1. PICK j \in Jobs : code = RunCode(j)
  BY FirstIs DEF QueueInv, Run
<1>2. Head(code).job = j /\ Tail(code) = PumpAll
  BY <1>1, HeadFields
<1>3. Fits(job[j], exec[j], RunCode(j), j) /\ exec[j] \in [Runs -> Execution]
  BY <1>1 DEF QueueInv, TypesOK
<1>4. FitsAs(job[j], exec[j], FALSE, TRUE, FALSE)
  BY <1>3, BusyCode
<1> DEFINE e == exec[j]
           free == {q \in Runs : e[q] = "none"} \cup {3}
           r == CHOOSE m \in free : \A q \in free : m <= q
<1>5. OneFree(e)
  BY <1>4 DEF FitsAs, RunsFit
<1>6. r \in {1, 2}
  <2>1. CASE e[1] = "none"
    <3>1. 1 \in free /\ \A q \in free : 1 <= q
      BY <2>1 DEF Runs
    <3>2. r \in free /\ r <= 1
      BY <3>1
    <3> QED
      BY <3>2 DEF Runs
  <2>2. CASE e[1] # "none" /\ e[2] = "none"
    <3>1. 2 \in free /\ \A q \in free : 2 <= q
      BY <2>2 DEF Runs
    <3>2. r \in free /\ r <= 2
      BY <3>1
    <3> QED
      BY <3>2 DEF Runs
  <2> QED
    BY <2>1, <2>2, <1>5 DEF OneFree
<1>7. exec' = [exec EXCEPT ![j][r] = "busy"] /\ active' = [active EXCEPT ![j] = r]
  BY <1>2 DEF Run
<1> HIDE DEF r
<1> DEFINE f == [e EXCEPT ![r] = "busy"]
<1>8. f \in [Runs -> Execution] /\ \A k \in Jobs : exec'[k] = IF k = j THEN f ELSE exec[k]
  BY <1>3, <1>6, <1>7 DEF QueueInv, TypesOK, Execution
<1>9. TypesOK' /\ code' = PumpAll /\ job' = job
  <2>1. exec' \in [Jobs -> [Runs -> Execution]]
    BY <1>3, <1>7, <1>8 DEF QueueInv, TypesOK
  <2>2. active' \in [Jobs -> 0..2]
    BY <1>6, <1>7 DEF QueueInv, TypesOK
  <2> QED
    BY <1>2, <2>1, <2>2 DEF Run, QueueInv, TypesOK
<1>10. Quiet(job[j], f)
  <2>1. AllFree(e) => OneFree(f)
    BY <1>3, <1>6 DEF AllFree, OneFree, Runs
  <2> HIDE DEF e, f
  <2> QED
    BY <1>4, <2>1 DEF Quiet, FitsAs, RunsFit, LogFit, e
<1>11. Fits(job'[j], exec'[j], code', j)
  BY <1>8, <1>9, <1>10, QuietCode
<1> QED
  BY <1>1, <1>8, <1>9, <1>11, OneJob, AboutShape

LEMMA SignalKeeps ==
  ASSUME QueueInv, Signal
  PROVE  QueueInv'
<1>1. PICK j \in Jobs : code = SignalCode(j)
  BY FirstIs DEF QueueInv, Signal
<1>2. Head(code).job = j /\ Tail(code) = <<>>
  BY <1>1, HeadFields
<1>3. Quiet(job[j], exec[j]) /\ job[j] \in Job /\ exec[j] \in [Runs -> Execution]
  BY <1>1, AtRest
<1> DEFINE a == active[j]
<1>4. \/ exec' = exec
      \/ exec[j][a] \in Live /\ a # 0 /\ exec' = [exec EXCEPT ![j][a] = "asked"]
  BY <1>2 DEF Signal
<1>5. a \in 0..2
  BY DEF QueueInv, TypesOK
<1>6. /\ exec' \in [Jobs -> [Runs -> Execution]] /\ \A k \in Jobs : k # j => exec'[k] = exec[k]
      /\ \A q \in Runs : exec[j][q] = "none" => exec'[j][q] = "none"
  <2>1. CASE exec' = exec
    BY <2>1 DEF QueueInv, TypesOK
  <2>2. CASE exec[j][a] \in Live /\ a # 0 /\ exec' = [exec EXCEPT ![j][a] = "asked"]
    BY <2>2, <1>5 DEF QueueInv, TypesOK, Runs, Execution, Live
  <2> QED
    BY <1>4, <2>1, <2>2
<1>7. Quiet(job[j], exec'[j])
  BY <1>3, <1>6, ExecFits
<1>8. TypesOK' /\ code' = <<>> /\ job' = job
  BY <1>2, <1>6 DEF Signal, QueueInv, TypesOK
<1>9. Fits(job'[j], exec'[j], code', j)
  BY <1>7, <1>8, QuietCode
<1> QED
  BY <1>1, <1>6, <1>8, <1>9, OneJob, AboutShape

(* A job that is at rest changes its record, no other one does.            *)
LEMMA RecordKeeps ==
  ASSUME QueueInv, NEW j \in Jobs, NEW x \in Job, code = <<>>, Quiet(x, exec[j]),
         job' = [job EXCEPT ![j] = x], code' = <<>> \/ code' = PumpAll,
         order' \in Seq(Jobs), UNCHANGED <<active, exec, closing>>
  PROVE  QueueInv'
<1>1. TypesOK'
  BY JobsType DEF QueueInv
<1>2. /\ job'[j] = x /\ exec' = exec
      /\ \A k \in Jobs : k # j => job'[k] = job[k]
  BY DEF QueueInv, TypesOK
<1>3. Fits(job'[j], exec'[j], code', j)
  BY <1>2, QuietCode
<1> QED
  BY <1>1, <1>2, <1>3, OneJob, AboutShape

LEMMA PostKeeps ==
  ASSUME QueueInv, NEW j \in Jobs, Post(j)
  PROVE  QueueInv'
<1>1. code = <<>> /\ code' = PumpAll /\ UNCHANGED <<active, exec, closing>>
  BY DEF Post, Idle
<1>2. Quiet(job[j], exec[j]) /\ job[j] \in Job /\ order \in Seq(Jobs)
  BY <1>1, AtRest DEF QueueInv, TypesOK
<1>3. CASE job[j].state = "none"
  <2>1. job' = [job EXCEPT ![j] = Create(job[j])] /\ order' \in Seq(Jobs)
    BY <1>2, <1>3, AppendProperties DEF Post
  <2>2. Quiet(Create(job[j]), exec[j]) /\ Create(job[j]) \in Job
    BY <1>2, <1>3, StoreFits, StoreOpsType DEF States
  <2> QED
    BY <1>1, <2>1, <2>2, RecordKeeps
<1>4. CASE job[j].state # "none"
  <2>1. job' = job /\ order' = order
    BY <1>4 DEF Post
  <2>2. job' = [job EXCEPT ![j] = job[j]]
    BY <2>1 DEF QueueInv, TypesOK
  <2> QED
    BY <1>1, <1>2, <2>1, <2>2, RecordKeeps
<1> QED
  BY <1>3, <1>4

LEMMA CancelPassiveKeeps ==
  ASSUME QueueInv, NEW j \in Jobs, CancelPassive(j)
  PROVE  QueueInv'
<1>1. /\ code = <<>> /\ code' = <<>> /\ UNCHANGED <<order, active, exec, closing>>
      /\ job' = [job EXCEPT ![j] = Finish(job[j], "cancelled")]
  BY DEF CancelPassive, Idle
<1>2. Quiet(job[j], exec[j]) /\ job[j] \in Job /\ order' \in Seq(Jobs)
  BY <1>1, AtRest DEF QueueInv, TypesOK
<1>3. Quiet(Finish(job[j], "cancelled"), exec[j]) /\ Finish(job[j], "cancelled") \in Job
  BY <1>2, StoreFits, StoreOpsType DEF States, Terminal
<1> QED
  BY <1>1, <1>2, <1>3, RecordKeeps

LEMMA CancelActiveKeeps ==
  ASSUME QueueInv, NEW j \in Jobs, CancelActive(j)
  PROVE  QueueInv'
<1>1. /\ code = <<>> /\ job[j].state = "running" /\ UNCHANGED <<order, active, exec, closing>>
      /\ job' = [job EXCEPT ![j] = Move(job[j], "cancelling")]
      /\ code' = CancelCode(j)
  BY DEF CancelActive, Idle, CancelCode, TellOf, SignalOf
<1>2. Quiet(job[j], exec[j]) /\ job[j] \in Job /\ order' \in Seq(Jobs)
  BY <1>1, AtRest DEF QueueInv, TypesOK
<1>3. FitsAs(Move(job[j], "cancelling"), exec[j], FALSE, FALSE, TRUE)
      /\ Move(job[j], "cancelling") \in Job
  BY <1>1, <1>2, StoreFits, StoreOpsType DEF States
<1>4. TypesOK'
  BY <1>1, <1>2, <1>3, JobsType DEF QueueInv
<1>5. /\ job'[j] = Move(job[j], "cancelling") /\ exec' = exec
      /\ \A k \in Jobs : k # j => job'[k] = job[k]
  BY <1>1 DEF QueueInv, TypesOK
<1>6. Fits(job'[j], exec'[j], code', j)
  BY <1>1, <1>3, <1>5, BusyCode
<1> QED
  BY <1>1, <1>4, <1>5, <1>6, OneJob, AboutShape

LEMMA AnswerKeeps ==
  ASSUME QueueInv, NEW j \in Jobs, Answer(j)
  PROVE  QueueInv'
<1>1. /\ code = <<>> /\ code' = <<>> /\ UNCHANGED <<order, active, exec, closing>>
      /\ job' = [job EXCEPT ![j] = Resume(job[j])]
  BY DEF Answer, Idle
<1>2. Quiet(job[j], exec[j]) /\ job[j] \in Job /\ order' \in Seq(Jobs)
  BY <1>1, AtRest DEF QueueInv, TypesOK
<1>3. Quiet(Resume(job[j]), exec[j]) /\ Resume(job[j]) \in Job
  BY <1>2, StoreFits, StoreOpsType DEF States
<1> QED
  BY <1>1, <1>2, <1>3, RecordKeeps

LEMMA PauseJobKeeps ==
  ASSUME QueueInv, NEW j \in Jobs, NEW r \in Runs, PauseJob(j, r)
  PROVE  QueueInv'
<1>1. /\ code = <<>> /\ code' = <<>> /\ UNCHANGED <<order, active, exec, closing>>
      /\ job' = [job EXCEPT ![j] = Pause(job[j])] /\ exec[j][r] \in Live
  BY DEF PauseJob
<1>2. Quiet(job[j], exec[j]) /\ job[j] \in Job /\ order' \in Seq(Jobs)
  BY <1>1, AtRest DEF QueueInv, TypesOK
<1>3. ~AllFree(exec[j])
  BY <1>1 DEF AllFree, Live, Runs
<1>4. Quiet(Pause(job[j]), exec[j]) /\ Pause(job[j]) \in Job
  BY <1>2, <1>3, StoreFits, StoreOpsType DEF States
<1> QED
  BY <1>1, <1>2, <1>4, RecordKeeps

(* An execution goes on, and perhaps its job changes its record.           *)
LEMMA ExecutionKeeps ==
  ASSUME QueueInv, NEW j \in Jobs, NEW r \in Runs, NEW x \in Job, NEW s \in Execution,
         code = <<>>, Quiet(x, exec[j]), exec[j][r] # "none",
         job' = [job EXCEPT ![j] = x], exec' = [exec EXCEPT ![j][r] = s],
         code' = <<>> \/ code' = PumpAll, active' \in [Jobs -> 0..2],
         UNCHANGED <<order, closing>>
  PROVE  QueueInv'
<1>1. TypesOK'
  BY DEF QueueInv, TypesOK
<1>2. /\ job'[j] = x
      /\ \A k \in Jobs : k # j => job'[k] = job[k] /\ exec'[k] = exec[k]
      /\ exec'[j] = [exec[j] EXCEPT ![r] = s] /\ exec[j] \in [Runs -> Execution]
  BY DEF QueueInv, TypesOK
<1>3. Quiet(x, exec'[j])
  <2>1. \A q \in Runs : exec[j][q] = "none" => exec'[j][q] = "none"
    BY <1>2
  <2> QED
    BY ZenonT(60), <2>1, ExecFits
<1>4. Fits(job'[j], exec'[j], code', j)
  BY <1>2, <1>3, QuietCode
<1> QED
  BY <1>1, <1>2, <1>4, OneJob, AboutShape

LEMMA ExecutingKeeps ==
  ASSUME QueueInv, NEW j \in Jobs, NEW r \in Runs, Executing(j, r)
  PROVE  QueueInv'
<1> USE DEF Execution, Live
<1>1. code = <<>>
  BY DEF Executing, CancelAnswered, GraceOver, PauseJob, Ends, Settle, Release
<1>2. /\ Quiet(job[j], exec[j]) /\ job[j] \in Job /\ active \in [Jobs -> 0..2]
      /\ [job EXCEPT ![j] = job[j]] = job
  BY <1>1, AtRest DEF QueueInv, TypesOK
<1>3. CASE CancelAnswered(j, r)
  <2>1. PICK s \in {"timed", "refused"} : exec' = [exec EXCEPT ![j][r] = s]
    BY <1>3 DEF CancelAnswered
  <2>2. exec[j][r] # "none" /\ code' = <<>> /\ UNCHANGED <<job, order, active, closing>>
    BY <1>1, <1>3 DEF CancelAnswered
  <2> QED
    BY <1>1, <1>2, <2>1, <2>2, ExecutionKeeps
<1>4. CASE GraceOver(j, r)
  <2>1. /\ exec[j][r] # "none" /\ code' = <<>> /\ UNCHANGED <<job, order, active, closing>>
        /\ exec' = [exec EXCEPT ![j][r] = "forced"]
    BY <1>1, <1>4 DEF GraceOver
  <2> QED
    BY <1>1, <1>2, <2>1, ExecutionKeeps
<1>5. CASE PauseJob(j, r)
  BY <1>5, PauseJobKeeps
<1>6. CASE Ends(j, r)
  <2>1. PICK outcome \in Terminal : Settle(j, r, outcome)
    BY <1>6 DEF Ends
  <2> DEFINE to == Outcome(j, outcome)
  <2>2. to \in Terminal
    BY DEF Outcome, Terminal
  <2>3. /\ exec[j][r] # "none" /\ code' = <<>> /\ UNCHANGED <<order, active, closing>>
        /\ exec' = [exec EXCEPT ![j][r] = "settled"]
        /\ job' = [job EXCEPT ![j] = Finish(job[j], to)]
    BY <1>1, <2>1 DEF Settle
  <2> HIDE DEF to
  <2>4. Quiet(Finish(job[j], to), exec[j]) /\ Finish(job[j], to) \in Job
    BY <1>2, <2>2, StoreFits, StoreOpsType DEF States
  <2> QED
    BY <1>1, <1>2, <2>3, <2>4, ExecutionKeeps
<1>7. CASE Release(j, r)
  <2>1. /\ exec[j][r] # "none" /\ code' = PumpAll /\ UNCHANGED <<job, order, closing>>
        /\ exec' = [exec EXCEPT ![j][r] = "none"]
        /\ active' \in [Jobs -> 0..2]
    BY <1>2, <1>7 DEF Release
  <2> QED
    BY <1>1, <1>2, <2>1, ExecutionKeeps
<1> QED
  BY <1>3, <1>4, <1>5, <1>6, <1>7 DEF Executing

LEMMA CloseKeeps ==
  ASSUME QueueInv, Close
  PROVE  QueueInv'
<1>1. code = <<>> /\ code' = <<>> /\ job' = job /\ TypesOK'
  BY DEF Close, Idle, QueueInv, TypesOK, Execution
<1>2. ASSUME NEW j \in Jobs
      PROVE  Fits(job'[j], exec'[j], code', j)
  <2>1. Quiet(job[j], exec[j]) /\ job[j] \in Job
    BY <1>1, AtRest
  <2>2. \A r \in Runs : exec[j][r] = "none" => exec'[j][r] = "none"
    BY DEF Close, Live
  <2>3. Quiet(job[j], exec'[j])
    BY <2>1, <2>2, ExecFits
  <2> QED
    BY <1>1, <2>3, QuietCode
<1> QED
  BY <1>1, <1>2, AboutShape DEF QueueInv

LEMMA RestartKeeps ==
  ASSUME QueueInv, Restart
  PROVE  QueueInv'
<1>1. \A j \in Jobs : job[j] \in Job /\ Recover(job[j]) \in Job
  BY StoreOpsType DEF QueueInv, TypesOK, States
<1>2. code' = PumpAll /\ TypesOK'
  <2>1. job' \in [Jobs -> Job] /\ order' \in Seq(Jobs)
    BY <1>1 DEF Restart, QueueInv, TypesOK
  <2>2. exec' \in [Jobs -> [Runs -> Execution]]
    BY DEF Restart, Execution
  <2>3. active' \in [Jobs -> 0..2]
    BY DEF Restart
  <2>4. code' = PumpAll /\ closing' \in BOOLEAN
    BY DEF Restart
  <2> QED
    BY <2>1, <2>2, <2>3, <2>4 DEF TypesOK
<1>3. ASSUME NEW j \in Jobs
      PROVE  Fits(job'[j], exec'[j], code', j)
  <2>1. job[j] \in Job /\ Fits(job[j], exec[j], code, j)
    BY DEF QueueInv, TypesOK
  <2>3. AllFree(exec'[j]) /\ job'[j] = Recover(job[j])
    BY DEF Restart, AllFree, Runs
  <2>4. Quiet(Recover(job[j]), exec'[j])
    BY <2>1, <2>3, RecoverFits
  <2> QED
    BY <1>2, <2>3, <2>4, QuietCode
<1> QED
  BY <1>2, <1>3, AboutShape DEF QueueInv

LEMMA QueueInit == Init => QueueInv
<1> SUFFICES ASSUME Init
             PROVE  QueueInv
  OBVIOUS
<1>1. TypesOK /\ code = PumpAll
  <2>1. NoJob \in Job
    BY DEF NoJob, Job, States
  <2>2. exec \in [Jobs -> [Runs -> Execution]]
    BY DEF Init, Execution
  <2>3. order \in Seq(Jobs)
    BY EmptySeq DEF Init
  <2>4. active \in [Jobs -> 0..2]
    BY DEF Init
  <2>5. job \in [Jobs -> Job] /\ closing \in BOOLEAN /\ code = PumpAll
    BY <2>1 DEF Init
  <2> QED
    BY <2>2, <2>3, <2>4, <2>5 DEF TypesOK
<1>2. ASSUME NEW j \in Jobs
      PROVE  Fits(job[j], exec[j], code, j)
  <2>1. Quiet(job[j], exec[j])
    BY DEF Init, NoJob, Quiet, FitsAs, RunsFit, LogFit, AllFree, OneFree, Runs
  <2> QED
    BY <1>1, <2>1, QuietCode
<1> QED
  BY <1>1, <1>2, AboutShape DEF QueueInv

LEMMA QueueStep == QueueInv /\ [Next]_vars => QueueInv'
<1> SUFFICES ASSUME QueueInv, [Next]_vars
             PROVE  QueueInv'
  OBVIOUS
<1>1. CASE Handler
  BY <1>1, TellStateKeeps, PumpKeeps, RunKeeps, SignalKeeps DEF Handler
<1>2. CASE Close
  BY <1>2, CloseKeeps
<1>3. CASE Restart
  BY <1>3, RestartKeeps
<1>4. ASSUME NEW j \in Jobs, Route(j)
      PROVE  QueueInv'
  BY <1>4, PostKeeps, CancelPassiveKeeps, CancelActiveKeeps, AnswerKeeps DEF Route
<1>5. ASSUME NEW j \in Jobs, NEW r \in Runs, Executing(j, r)
      PROVE  QueueInv'
  BY <1>5, ExecutingKeeps
<1>6. CASE UNCHANGED vars
  BY <1>6 DEF vars, QueueInv, TypesOK
<1> QED
  BY <1>1, <1>2, <1>3, <1>4, <1>5, <1>6 DEF Next

(* The invariant holds in every execution.                                 *)
THEOREM QueueInvariant == Spec => []QueueInv
BY QueueInit, QueueStep, PTL DEF Spec

-----------------------------------------------------------------------------
(* What the invariant says of the properties.                              *)

(* Code that is left is a sequence of statements.                          *)
LEMMA CodeType ==
  ASSUME NEW c, CodeShape(c)
  PROVE  c \in Seq(Statement)
<1>1. ASSUME NEW j \in Jobs
      PROVE  /\ TellOf(j, "running") \in Statement /\ TellOf(j, "cancelling") \in Statement
             /\ RunOf(j) \in Statement /\ SignalOf(j) \in Statement
  BY DEF TellOf, RunOf, SignalOf, Statement, States
<1>2. PumpStatement \in Statement
  BY DEF PumpStatement, Statement
<1>3. CASE c = <<>> \/ c = PumpAll
  <2> DEFINE d == PumpStatement
  <2>1. c = <<>> \/ c = <<d>>
    BY <1>3 DEF PumpAll, PumpStatement
  <2> HIDE DEF d
  <2>2. d \in Statement
    BY <1>2 DEF d
  <2>3. <<>> \in Seq(Statement) /\ <<d>> \in Seq(Statement)
    BY <2>2
  <2> QED
    BY <2>1, <2>3
<1>4. ASSUME NEW j \in Jobs, \/ c = CancelCode(j) \/ c = SignalCode(j)
                             \/ c = StartCode(j) \/ c = RunCode(j)
      PROVE  c \in Seq(Statement)
  <2> DEFINE t == TellOf(j, "running") u == TellOf(j, "cancelling")
             a == RunOf(j) b == SignalOf(j) d == PumpStatement
  <2>1. /\ t \in Statement /\ u \in Statement /\ a \in Statement
        /\ b \in Statement /\ d \in Statement
    BY <1>1, <1>2
  <2>2. c = <<u, b>> \/ c = <<b>> \/ c = <<t, a, d>> \/ c = <<a, d>>
    BY <1>4 DEF CancelCode, SignalCode, StartCode, RunCode
  <2> HIDE DEF t, u, a, b, d
  <2>3. /\ <<u, b>> \in Seq(Statement) /\ <<b>> \in Seq(Statement)
        /\ <<t, a, d>> \in Seq(Statement) /\ <<a, d>> \in Seq(Statement)
    BY <2>1
  <2> QED
    BY <2>2, <2>3
<1> QED
  BY <1>3, <1>4 DEF CodeShape, Calm

(* The tables, the map, the executions and the code always have the types  *)
(* of the implementation: no job runs a third time in one process.         *)
THEOREM TypeCorrect == Spec => []TypeOK
<1>1. QueueInv => TypeOK
  BY CodeType DEF QueueInv, TypesOK, TypeOK
<1> QED
  BY <1>1, QueueInvariant, PTL

(* A job that waits can always be answered, for any number of jobs,        *)
(* executions, cancellations and restarts.                                 *)
THEOREM WaitingKept == Spec => []WaitingAnswerable
<1>1. QueueInv => WaitingAnswerable
  BY DEF QueueInv, Fits, FitsAs, WaitingAnswerable
<1> QED
  BY <1>1, QueueInvariant, PTL

(* The event log of a job is never ahead of its state and behind it only   *)
(* by one statement or by what a restart put back.                         *)
THEOREM LogKept == Spec => []LogFollowsState
<1>1. ASSUME QueueInv, NEW j \in Jobs
      PROVE  \/ job[j].told = job[j].state
             \/ job[j].state = "queued" /\ job[j].told \in {"running", "cancelling"}
             \/ \E i \in DOMAIN code : code[i].op = "tell" /\ code[i].job = j
                                       /\ code[i].state = job[j].state
  <2>1. LogFit(job[j], code = StartCode(j), code = CancelCode(j))
    BY <1>1 DEF QueueInv, Fits, FitsAs
  <2>2. code \in Seq(Statement)
    BY <1>1, CodeType DEF QueueInv
  <2>3. code # <<>> => 1 \in DOMAIN code /\ code[1] = Head(code)
    BY <2>2, HeadTailProperties
  <2>4. CASE code = StartCode(j) /\ job[j].state = "running"
    <3>1. code # <<>> /\ Head(code).op = "tell" /\ Head(code).job = j
          /\ Head(code).state = job[j].state
      BY <2>4, HeadFields, CodeParts
    <3> QED
      BY <2>3, <3>1
  <2>5. CASE code = CancelCode(j) /\ job[j].state = "cancelling"
    <3>1. code # <<>> /\ Head(code).op = "tell" /\ Head(code).job = j
          /\ Head(code).state = job[j].state
      BY <2>5, HeadFields, CodeParts
    <3> QED
      BY <2>3, <3>1
  <2> QED
    BY <2>1, <2>4, <2>5 DEF LogFit
<1>2. QueueInv => LogFollowsState
  BY <1>1 DEF LogFollowsState
<1> QED
  BY <1>2, QueueInvariant, PTL

-----------------------------------------------------------------------------
(* The queue implements the life of a job.                                 *)

LifePhase == [j \in Jobs |-> job[j].state]

LifeStep == Life!Next \/ UNCHANGED LifePhase

(* A step that changes the record of one job moves it in its life.         *)
LEMMA OneMoves ==
  ASSUME QueueInv, NEW j \in Jobs, NEW x, x \in Job, job' = [job EXCEPT ![j] = x]
  PROVE  /\ x.state = job[j].state => UNCHANGED LifePhase
         /\ \A from : job[j].state \in from => Life!Goes(j, from, x.state)
<1>1. job \in [Jobs -> Job]
  BY DEF QueueInv, TypesOK
<1>2. \A k \in Jobs : job'[k].state = IF k = j THEN x.state ELSE job[k].state
  BY <1>1
<1>3. LifePhase' = [LifePhase EXCEPT ![j] = x.state]
  BY <1>2 DEF LifePhase
<1>4. x.state = job[j].state => UNCHANGED LifePhase
  BY <1>2 DEF LifePhase
<1> QED
  BY <1>3, <1>4 DEF LifePhase, Life!Goes

LEMMA LifeInit == Init => Life!Init
BY DEF Init, Life!Init, NoJob

LEMMA LifeNext == QueueInv /\ [Next]_vars => LifeStep
<1> SUFFICES ASSUME QueueInv, [Next]_vars
             PROVE  LifeStep
  OBVIOUS
<1>0. job \in [Jobs -> Job] /\ order \in Seq(Jobs)
  BY DEF QueueInv, TypesOK
<1>1. job' = job => LifeStep
  BY DEF LifeStep, LifePhase
<1>2. CASE TellState
  <2>1. PICK j \in Jobs : code = StartCode(j) \/ code = CancelCode(j)
    BY <1>2, FirstIs DEF QueueInv, TellState
  <2>2. Head(code).job = j /\ Head(code).state \in States
    BY <2>1, HeadFields DEF States
  <2> DEFINE x == Tell(job[j], Head(code).state)
  <2>3. job' = [job EXCEPT ![j] = x]
    BY <1>2, <2>2 DEF TellState
  <2>4. x \in Job /\ x.state = job[j].state
    BY <1>0, <2>2, StoreOpsType DEF Tell, Job
  <2> HIDE DEF x
  <2> QED
    BY <2>3, <2>4, OneMoves DEF LifeStep
<1>3. CASE Pump
  <2>1. CASE ~MayStart
    BY <1>1, <1>3, <2>1 DEF Pump
  <2>2. CASE MayStart
    <3>1. PICK j \in Jobs : j = NextJob /\ job[j].state = "queued"
      BY <1>0, <2>2, NextJobIsQueued DEF MayStart
    <3>2. job' = [job EXCEPT ![j] = Move(job[j], "running")]
      BY <1>3, <2>2, <3>1 DEF Pump
    <3>3. Move(job[j], "running") \in Job /\ Move(job[j], "running").state = "running"
      BY <1>0, <3>1, StoreOpsType DEF States, Move, Job
    <3>4. Life!Start(j)
      BY <3>1, <3>2, <3>3, OneMoves DEF Life!Start
    <3> QED
      BY <3>1, <3>4 DEF LifeStep, Life!Next
  <2> QED
    BY <2>1, <2>2
<1>4. CASE Run \/ Signal \/ Close \/ UNCHANGED vars
  BY <1>1, <1>4 DEF Run, Signal, Close, vars
<1>5. CASE Restart
  <2>1. Life!PutBack
    BY <1>0, <1>5 DEF Restart, Life!PutBack, Recover, Job
  <2> QED
    BY <2>1 DEF LifeStep, Life!Next
<1>6. ASSUME NEW j \in Jobs, Post(j)
      PROVE  LifeStep
  <2>1. CASE job[j].state = "none"
    <3>1. job' = [job EXCEPT ![j] = Create(job[j])]
      BY <1>6, <2>1 DEF Post
    <3>2. Create(job[j]) \in Job
      BY <1>0, StoreOpsType DEF States
    <3>4. Create(job[j]).state = "queued"
      BY <1>0 DEF Create, Job
    <3>3. Life!Submit(j)
      BY <2>1, <3>1, <3>2, <3>4, OneMoves DEF Life!Submit
    <3> QED
      BY <3>3 DEF LifeStep, Life!Next
  <2>2. CASE job[j].state # "none"
    BY <1>1, <1>6, <2>2 DEF Post
  <2> QED
    BY <2>1, <2>2
<1>7. ASSUME NEW j \in Jobs, CancelPassive(j)
      PROVE  LifeStep
  <2>1. /\ job' = [job EXCEPT ![j] = Finish(job[j], "cancelled")]
        /\ job[j].state \in {"queued", "waiting"}
    BY <1>7 DEF CancelPassive
  <2>2. Finish(job[j], "cancelled") \in Job
    BY <1>0, StoreOpsType DEF States, Terminal
  <2>4. Finish(job[j], "cancelled").state = "cancelled"
    BY <1>0, <2>1 DEF Terminal, Finish, Job
  <2>3. Life!Goes(j, {"queued", "running", "waiting"}, "cancelled")
    BY <2>1, <2>2, <2>4, OneMoves
  <2> QED
    BY <2>3 DEF LifeStep, Life!Next, Life!End, Terminal, Life!Terminal
<1>8. ASSUME NEW j \in Jobs, CancelActive(j)
      PROVE  LifeStep
  <2>1. /\ job' = [job EXCEPT ![j] = Move(job[j], "cancelling")]
        /\ job[j].state = "running"
    BY <1>8 DEF CancelActive
  <2>2. Move(job[j], "cancelling") \in Job /\ Move(job[j], "cancelling").state = "cancelling"
    BY <1>0, StoreOpsType DEF States, Move, Job
  <2>3. Life!AskCancel(j)
    BY <2>1, <2>2, OneMoves DEF Life!AskCancel
  <2> QED
    BY <2>3 DEF LifeStep, Life!Next
<1>9. ASSUME NEW j \in Jobs, Answer(j)
      PROVE  LifeStep
  <2>1. job' = [job EXCEPT ![j] = Resume(job[j])] /\ Resume(job[j]) \in Job
    BY <1>0, <1>9, StoreOpsType DEF Answer, States
  <2>2. CASE job[j].state = "waiting"
    <3>1. Resume(job[j]).state = "queued"
      BY <1>0, <1>9, <2>2 DEF Answer, Resume, Job
    <3>2. Life!Continue(j)
      BY <2>1, <2>2, <3>1, OneMoves DEF Life!Continue
    <3> QED
      BY <3>2 DEF LifeStep, Life!Next
  <2>3. CASE job[j].state # "waiting"
    <3>1. Resume(job[j]).state = job[j].state
      BY <1>0, <2>3 DEF Resume, Job
    <3> QED
      BY <2>1, <3>1, OneMoves DEF LifeStep
  <2> QED
    BY <2>2, <2>3
<1>10. ASSUME NEW j \in Jobs, NEW r \in Runs, PauseJob(j, r)
       PROVE  LifeStep
  <2>1. job' = [job EXCEPT ![j] = Pause(job[j])] /\ Pause(job[j]) \in Job
    BY <1>0, <1>10, StoreOpsType DEF PauseJob, States
  <2>2. \/ Pause(job[j]).state = job[j].state
        \/ job[j].state = "running" /\ Pause(job[j]).state = "waiting"
    BY <1>0 DEF Pause, Job
  <2>3. CASE Pause(job[j]).state = job[j].state
    BY <2>1, <2>3, OneMoves DEF LifeStep
  <2>4. CASE job[j].state = "running" /\ Pause(job[j]).state = "waiting"
    <3>1. Life!Suspend(j)
      BY <2>1, <2>4, OneMoves DEF Life!Suspend
    <3> QED
      BY <3>1 DEF LifeStep, Life!Next
  <2> QED
    BY <2>2, <2>3, <2>4
<1>11. ASSUME NEW j \in Jobs, NEW r \in Runs, NEW outcome \in Terminal, Settle(j, r, outcome)
       PROVE  LifeStep
  <2>0. PICK to \in Terminal : to = Outcome(j, outcome)
    BY DEF Outcome, Terminal
  <2>1. job[j].state = "cancelling" => to = "cancelled"
    BY <2>0 DEF Outcome
  <2>2. job' = [job EXCEPT ![j] = Finish(job[j], to)]
    BY <1>11, <2>0 DEF Settle
  <2>3. job[j].state # "none"
    <3>1. Quiet(job[j], exec[j])
      BY <1>11, AtRest DEF Settle
    <3>2. ~AllFree(exec[j])
      BY <1>11 DEF Settle, AllFree, Live, Runs
    <3> QED
      BY <3>1, <3>2 DEF Quiet, FitsAs, RunsFit
  <2>4. Finish(job[j], to) \in Job
    BY <1>0, StoreOpsType DEF States
  <2>5. CASE job[j].state \in Terminal
    BY <2>2, <2>4, <2>5, OneMoves DEF LifeStep, Finish
  <2>6. CASE job[j].state \notin Terminal
    <3>1. Finish(job[j], to).state = to
      BY <1>0, <2>6 DEF Finish, Job
    <3>2. job[j].state \in {"queued", "running", "waiting", "cancelling"}
      BY <1>0, <2>3, <2>6 DEF Job, States
    <3>3. CASE job[j].state = "cancelling"
      <4>1. Life!Goes(j, {"cancelling"}, "cancelled")
        BY <2>1, <2>2, <2>4, <3>1, <3>3, OneMoves
      <4> QED
        BY <4>1 DEF LifeStep, Life!Next, Life!End
    <3>4. CASE job[j].state \in {"queued", "running", "waiting"}
      <4> DEFINE from == {"queued", "running", "waiting"}
      <4>0. job[j].state \in from
        BY <3>4
      <4> HIDE DEF from
      <4>1. Life!Goes(j, from, to)
        BY <2>2, <2>4, <3>1, <4>0, OneMoves
      <4>2. \E result \in Terminal : Life!Goes(j, from, result)
        BY <4>1
      <4>3. Terminal = Life!Terminal
        BY DEF Terminal, Life!Terminal
      <4>4. Life!End(j)
        BY <4>2, <4>3 DEF Life!End, from
      <4> QED
        BY <4>4 DEF LifeStep, Life!Next
    <3> QED
      BY <3>2, <3>3, <3>4
  <2> QED
    BY <2>5, <2>6
<1>12. ASSUME NEW j \in Jobs, NEW r \in Runs, Executing(j, r)
       PROVE  LifeStep
  <2>1. CASE CancelAnswered(j, r) \/ GraceOver(j, r) \/ Release(j, r)
    BY <1>1, <2>1 DEF CancelAnswered, GraceOver, Release
  <2> QED
    BY <1>10, <1>11, <1>12, <2>1 DEF Executing, Ends
<1> QED
  BY <1>2, <1>3, <1>4, <1>5, <1>6, <1>7, <1>8, <1>9, <1>12 DEF Next, Handler, Route

(* The queue, with its events, executions, places and the end of the       *)
(* process between any two statements, implements the life of its jobs.    *)
THEOREM LifeImplemented == Spec => LifeSpec
<1>1. QueueInv /\ [Next]_vars => [Life!Next]_LifePhase
  BY LifeNext DEF LifeStep
<1> QED
  BY <1>1, LifeInit, QueueInvariant, PTL DEF Spec, LifeSpec, Life!Spec, LifePhase

-----------------------------------------------------------------------------
(* The places of the queue.                                                *)

Places == {j \in Jobs : active[j] # 0}

(* The job has not paused and an execution of it is not over.              *)
Holding(j) == NeverPaused(j) /\ (exec[j][1] # "none" \/ exec[j][2] # "none")

Fresh(j) == job[j].state = "queued" /\ NeverPaused(j)

(* A job was taken and is about to be executed.                            *)
CodeTaken(c) == \E j \in Jobs : CodePending(c, j)

(* pump() has looked at the queue and found no job or no place.            *)
Pumped(c) == Calm(c) /\ c # PumpAll

JobListed == \A j \in Jobs : job[j].state # "none" => \E i \in DOMAIN order : order[i] = j

(* The map counts every job that holds a place, and a place is free for    *)
(* the job that was taken; after pump() no fresh job waits for a free one. *)
PlaceInv ==
  /\ IsFiniteSet(Places) /\ Size <= Concurrency
  /\ CodeTaken(code) => Size < Concurrency
  /\ \A j \in Jobs : Holding(j) => active[j] # 0
  /\ JobListed
  /\ Pumped(code) => \A j \in Jobs : Fresh(j) => Size >= Concurrency

(* What is left of the code, in those words.                               *)
LEMMA CodePlaces ==
  ASSUME NEW j \in Jobs
  PROVE  /\ CodeTaken(StartCode(j)) /\ CodeTaken(RunCode(j))
         /\ ~CodeTaken(PumpAll) /\ ~CodeTaken(<<>>) /\ ~CodeTaken(CancelCode(j)) /\ ~CodeTaken(SignalCode(j))
         /\ ~Pumped(PumpAll) /\ ~Pumped(StartCode(j)) /\ ~Pumped(RunCode(j))
         /\ Pumped(<<>>) /\ Pumped(CancelCode(j)) /\ Pumped(SignalCode(j))
<1>1. CodePending(StartCode(j), j) /\ CodePending(RunCode(j), j)
  BY DEF CodePending
<1>2. ~Calm(StartCode(j)) /\ ~Calm(RunCode(j))
  BY <1>1, PendingFacts
<1>3. \A k : /\ ~CodePending(<<>>, k) /\ ~CodePending(PumpAll, k)
             /\ ~CodePending(CancelCode(j), k) /\ ~CodePending(SignalCode(j), k)
  BY PendingFacts
<1>4. <<>> # PumpAll /\ CancelCode(j) # PumpAll
  BY CodeParts, PendingFacts
<1>5. SignalCode(j) # PumpAll
  <2>1. Head(SignalCode(j)).op = "signal" /\ Head(PumpAll).op = "pump"
    BY HeadFields, CodeParts, StatementFields
  <2>2. "signal" # "pump"
    OBVIOUS
  <2> QED
    BY <2>1, <2>2
<1> QED
  BY <1>1, <1>2, <1>3, <1>4, <1>5 DEF CodeTaken, Pumped, Calm

(* The places as they are: no job that holds one or waits for one is new.  *)
LEMMA SamePlaces ==
  ASSUME PlaceInv, active' = active, JobListed',
         \A j \in Jobs : Holding(j)' => Holding(j),
         \A j \in Jobs : Fresh(j)' => Fresh(j),
         CodeTaken(code') => CodeTaken(code), Pumped(code') => Pumped(code)
  PROVE  PlaceInv'
<1>1. Places' = Places /\ Size' = Size
  BY DEF Places, Size
<1> QED
  BY <1>1 DEF PlaceInv

(* The record of one job changes, or an execution goes on.                 *)
LEMMA OnePlace ==
  ASSUME QueueInv, PlaceInv, NEW j \in Jobs, NEW x,
         job' = [job EXCEPT ![j] = x], UNCHANGED <<order, active>>,
         x.pause = "none" => job[j].pause = "none",
         x.state = "queued" /\ x.pause = "none" => job[j].state = "queued",
         job[j].state = "none" => x.state = "none",
         \A k \in Jobs, q \in Runs : exec[k][q] = "none" => exec'[k][q] = "none",
         CodeTaken(code') => CodeTaken(code), Pumped(code') => Pumped(code)
  PROVE  PlaceInv'
<1>1. \A k \in Jobs : job'[k] = IF k = j THEN x ELSE job[k]
  BY DEF QueueInv, TypesOK
<1>2. JobListed'
  BY <1>1 DEF PlaceInv, JobListed
<1>3. \A k \in Jobs : (Holding(k)' => Holding(k)) /\ (Fresh(k)' => Fresh(k))
  BY <1>1 DEF Holding, Fresh, NeverPaused, Runs
<1> QED
  BY <1>2, <1>3, SamePlaces

(* What the store does to a record, as far as places are concerned.        *)
LEMMA StorePlaces ==
  ASSUME NEW x \in Job
  PROVE  /\ \A to \in Terminal :
              /\ Finish(x, to).pause = x.pause
              /\ Finish(x, to).state \in {x.state, to} /\ to \notin {"none", "queued"}
         /\ \A to \in States : /\ Move(x, to).pause = x.pause /\ Move(x, to).state = to
                               /\ Tell(x, to).pause = x.pause /\ Tell(x, to).state = x.state
         /\ Create(x).pause = x.pause
         /\ Pause(x).pause # "none" /\ Pause(x).state \in {x.state, "waiting"}
         /\ x.state = "none" => Pause(x).state = "none" /\ Resume(x).state = "none"
         /\ Resume(x).pause = "none" => Resume(x) = x
         /\ Recover(x).pause = x.pause
         /\ Recover(x).state # "none" => x.state # "none"
BY DEF Job, Terminal, States, Finish, Move, Tell, Create, Pause, Resume, Recover

(* Telling the state of a job moves no place.                              *)
LEMMA TellStatePlaces ==
  ASSUME QueueInv, PlaceInv, TellState
  PROVE  PlaceInv'
<1>1. PICK j \in Jobs : code = StartCode(j) \/ code = CancelCode(j)
  BY FirstIs DEF QueueInv, TellState
<1>2. PICK st \in {"running", "cancelling"} : Head(code).job = j /\ Head(code).state = st
  BY <1>1, HeadFields
<1>3. job' = [job EXCEPT ![j] = Tell(job[j], st)] /\ job[j] \in Job
  BY <1>2 DEF TellState, QueueInv, TypesOK
<1>4. Tell(job[j], st).pause = job[j].pause /\ Tell(job[j], st).state = job[j].state
  BY <1>3, StorePlaces DEF States
<1>5. Tail(StartCode(j)) = RunCode(j) /\ Tail(CancelCode(j)) = SignalCode(j)
  BY HeadFields
<1>6. (CodeTaken(code') => CodeTaken(code)) /\ (Pumped(code') => Pumped(code))
  BY <1>1, <1>5, CodePlaces DEF TellState
<1>7. UNCHANGED <<order, active, exec>>
  BY DEF TellState
<1> QED
  BY <1>3, <1>4, <1>6, <1>7, OnePlace

(* pump() takes a job only while a place is free, and stops only when      *)
(* there is no job or no place.                                            *)
LEMMA PumpPlaces ==
  ASSUME QueueInv, PlaceInv, Pump
  PROVE  PlaceInv'
<1>1. code = PumpAll /\ order \in Seq(Jobs) /\ Size \in Nat
  BY FirstIs, FS_CardinalityType DEF QueueInv, TypesOK, Pump, PlaceInv, Places, Size
<1>2. UNCHANGED <<order, active, exec>> /\ Size' = Size /\ Places' = Places
  BY DEF Pump, Size, Places
<1>3. CASE ~MayStart
  <2>1. code' = <<>> /\ job' = job
    BY <1>1, <1>3, CodeParts DEF Pump
  <2>2. ASSUME NEW j \in Jobs, Fresh(j) PROVE Size >= Concurrency
    <3>1. PICK i \in DOMAIN order : order[i] = j
      BY <2>2 DEF PlaceInv, JobListed, Fresh
    <3>2. i \in Queued
      BY <2>2, <3>1 DEF Queued, Fresh
    <3> QED
      BY <1>1, <1>3, <3>2, ConcurrencyAssumption DEF MayStart, ConcurrencyAssumption
  <2>3. ~CodeTaken(<<>>)
    BY PendingFacts DEF CodeTaken
  <2> QED
    BY <1>2, <2>1, <2>2, <2>3 DEF PlaceInv, JobListed, Holding, Fresh, NeverPaused
<1>4. CASE MayStart
  <2> DEFINE j == NextJob
  <2>1. j \in Jobs /\ job[j].state = "queued"
    BY <1>1, <1>4, NextJobIsQueued DEF MayStart
  <2>2. /\ job' = [job EXCEPT ![j] = Move(job[j], "running")]
        /\ code' = <<TellOf(j, "running"), RunOf(j)>> \o PumpAll
    BY <1>1, <1>4 DEF Pump, TellOf, RunOf
  <2> HIDE DEF j
  <2>3. ~Pumped(code')
    BY <2>1, <2>2, CodeParts, CodePlaces
  <2>4. job[j] \in Job
    BY <2>1 DEF QueueInv, TypesOK
  <2>5. Move(job[j], "running").pause = job[j].pause
    BY <2>4, StorePlaces DEF States
  <2>6. \A k \in Jobs : job'[k] = IF k = j THEN Move(job[j], "running") ELSE job[k]
    BY <2>2 DEF QueueInv, TypesOK
  <2>7. \A k \in Jobs : Holding(k)' => Holding(k)
    BY <1>2, <2>5, <2>6 DEF Holding, NeverPaused
  <2>8. JobListed'
    BY <1>2, <2>1, <2>6 DEF JobListed, PlaceInv
  <2>9. Size < Concurrency
    BY <1>4 DEF MayStart
  <2> QED
    BY <1>2, <2>3, <2>7, <2>8, <2>9 DEF PlaceInv
<1> QED
  BY <1>3, <1>4

(* The execution takes the place that was free.                            *)
LEMMA RunPlaces ==
  ASSUME QueueInv, PlaceInv, Run
  PROVE  PlaceInv'
<1>1. PICK j \in Jobs : code = RunCode(j)
  BY FirstIs DEF QueueInv, Run
<1>2. Head(code).job = j /\ Tail(code) = PumpAll
  BY <1>1, HeadFields
<1> DEFINE free == {q \in Runs : exec[j][q] = "none"} \cup {3}
           r == CHOOSE m \in free : \A q \in free : m <= q
<1>3. r # 0
  <2>1. \E m \in free : \A q \in free : m <= q
    <3>1. CASE 1 \in free
      BY <3>1 DEF Runs
    <3>2. CASE 1 \notin free /\ 2 \in free
      BY <3>2 DEF Runs
    <3>3. CASE 1 \notin free /\ 2 \notin free
      BY <3>3 DEF Runs
    <3> QED
      BY <3>1, <3>2, <3>3
  <2>2. r \in free
    BY <2>1
  <2> QED
    BY <2>2 DEF Runs
<1>4. exec' = [exec EXCEPT ![j][r] = "busy"] /\ active' = [active EXCEPT ![j] = r]
  BY <1>2 DEF Run
<1> HIDE DEF r
<1>5. code' = PumpAll /\ UNCHANGED <<job, order>>
  BY <1>2 DEF Run
<1>6. Places' = Places \cup {j}
  BY <1>3, <1>4 DEF Places, QueueInv, TypesOK
<1>7. IsFiniteSet(Places) /\ Size \in Nat /\ Size < Concurrency
  BY <1>1, CodePlaces, FS_CardinalityType DEF PlaceInv, Size, Places
<1>8. IsFiniteSet(Places') /\ Cardinality(Places') <= Cardinality(Places) + 1
  <2>1. Cardinality(Places) \in Nat
    BY <1>7 DEF Size, Places
  <2> QED
    BY <1>6, <1>7, <2>1, FS_AddElement
<1>9. Size' <= Concurrency
  <2>1. Cardinality(Places') = Size' /\ Cardinality(Places) = Size
    BY DEF Size, Places
  <2>2. Cardinality(Places') \in Nat
    BY <1>8, FS_CardinalityType
  <2> QED
    BY <1>7, <1>8, <2>1, <2>2, ConcurrencyAssumption DEF ConcurrencyAssumption
<1>10. ASSUME NEW k \in Jobs, Holding(k)' PROVE active'[k] # 0
  <2>1. CASE k = j
    BY <1>3, <1>4, <2>1 DEF QueueInv, TypesOK
  <2>2. CASE k # j
    <3>1. exec'[k] = exec[k] /\ active'[k] = active[k] /\ job'[k] = job[k]
      BY <1>4, <1>5, <2>2 DEF QueueInv, TypesOK
    <3>2. Holding(k)
      BY <1>10, <3>1 DEF Holding, NeverPaused
    <3> QED
      BY <3>1, <3>2 DEF PlaceInv
  <2> QED
    BY <2>1, <2>2
<1>11. ~CodeTaken(code') /\ ~Pumped(code') /\ JobListed'
  BY <1>1, <1>5, CodePlaces DEF PlaceInv, JobListed
<1> QED
  BY <1>8, <1>9, <1>10, <1>11 DEF PlaceInv

(* The signal of a cancellation frees no place: the execution still ends.  *)
LEMMA SignalPlaces ==
  ASSUME QueueInv, PlaceInv, Signal
  PROVE  PlaceInv'
<1>1. PICK j \in Jobs : code = SignalCode(j)
  BY FirstIs DEF QueueInv, Signal
<1>2. Head(code).job = j /\ code' = <<>> /\ UNCHANGED <<job, order, active>>
  BY <1>1, HeadFields DEF Signal
<1>3. PICK a : a = active[j]
  OBVIOUS
<1>4. \/ exec' = exec
      \/ exec[j][a] \in Live /\ exec' = [exec EXCEPT ![j][a] = "asked"]
  BY <1>2, <1>3 DEF Signal
<1>5. \A k \in Jobs, q \in Runs : exec[k][q] = "none" => exec'[k][q] = "none"
  BY <1>4 DEF QueueInv, TypesOK, Live
<1>6. job' = [job EXCEPT ![j] = job[j]]
  BY <1>2 DEF QueueInv, TypesOK
<1>7. ~CodeTaken(<<>>) /\ Pumped(code)
  BY <1>1, CodePlaces
<1> QED
  BY <1>2, <1>5, <1>6, <1>7, OnePlace

(* The routes: a new job makes pump() look again, the others free no place *)
(* and bring no fresh job.                                                 *)
LEMMA RoutePlaces ==
  ASSUME QueueInv, PlaceInv, NEW j \in Jobs, Route(j)
  PROVE  PlaceInv'
<1>1. code = <<>> /\ job[j] \in Job /\ order \in Seq(Jobs)
  BY DEF Route, Post, CancelPassive, CancelActive, Answer, Idle, QueueInv, TypesOK
<1>2. Pumped(code)
  BY <1>1, CodePlaces
<1>3. CASE Post(j)
  <2>1. code' = PumpAll /\ UNCHANGED <<active, exec>>
    BY <1>3 DEF Post
  <2>2. ~CodeTaken(code') /\ ~Pumped(code')
    BY <2>1, CodePlaces
  <2>3. Places' = Places /\ Size' = Size
    BY <2>1 DEF Places, Size
  <2>4. JobListed' /\ \A k \in Jobs : Holding(k)' => Holding(k)
    <3>1. CASE job[j].state # "none"
      BY <1>3, <3>1 DEF Post, JobListed, PlaceInv, Holding, NeverPaused
    <3>2. CASE job[j].state = "none"
      <4>1. job' = [job EXCEPT ![j] = Create(job[j])] /\ order' = Append(order, j)
        BY <1>3, <3>2 DEF Post
      <4>2. \A k \in Jobs : job'[k] = IF k = j THEN Create(job[j]) ELSE job[k]
        BY <4>1 DEF QueueInv, TypesOK
      <4>3. Create(job[j]).pause = job[j].pause
        BY <1>1, StorePlaces
      <4>4. \A k \in Jobs : Holding(k)' => Holding(k)
        BY <2>1, <4>2, <4>3 DEF Holding, NeverPaused
      <4>5. /\ Len(order) \in Nat /\ DOMAIN order = 1..Len(order)
            /\ DOMAIN order' = 1..(Len(order) + 1)
            /\ order'[Len(order) + 1] = j
            /\ \A i \in 1..Len(order) : order'[i] = order[i]
        BY <1>1, <4>1
      <4>6. ASSUME NEW k \in Jobs, job'[k].state # "none"
            PROVE  \E i \in DOMAIN order' : order'[i] = k
        <5>1. CASE k = j
          BY <4>5, <5>1
        <5>2. CASE k # j
          <6>1. PICK i \in DOMAIN order : order[i] = k
            BY <4>2, <4>6, <5>2 DEF PlaceInv, JobListed
          <6> QED
            BY <4>5, <6>1
        <5> QED
          BY <5>1, <5>2
      <4> QED
        BY <4>4, <4>6 DEF JobListed
    <3> QED
      BY <3>1, <3>2
  <2> QED
    BY <2>1, <2>2, <2>3, <2>4 DEF PlaceInv
<1>4. CASE CancelPassive(j)
  <2>1. /\ job' = [job EXCEPT ![j] = Finish(job[j], "cancelled")]
        /\ UNCHANGED <<order, active, exec, code>> /\ job[j].state # "none"
    BY <1>4 DEF CancelPassive
  <2>2. "cancelled" \in Terminal
    BY DEF Terminal
  <2>3. /\ Finish(job[j], "cancelled").pause = job[j].pause
        /\ Finish(job[j], "cancelled").state = "queued" => job[j].state = "queued"
    BY <1>1, <2>2, StorePlaces
  <2> QED
    BY <2>1, <2>3, OnePlace
<1>5. CASE CancelActive(j)
  <2>1. /\ job' = [job EXCEPT ![j] = Move(job[j], "cancelling")]
        /\ UNCHANGED <<order, active, exec>> /\ job[j].state = "running"
        /\ code' = CancelCode(j)
    BY <1>5 DEF CancelActive, CancelCode, TellOf, SignalOf
  <2>2. /\ Move(job[j], "cancelling").pause = job[j].pause
        /\ Move(job[j], "cancelling").state = "cancelling"
    BY <1>1, StorePlaces DEF States
  <2>3. ~CodeTaken(code')
    BY <2>1, CodePlaces
  <2> QED
    BY <1>2, <2>1, <2>2, <2>3, OnePlace
<1>6. CASE Answer(j)
  <2>1. /\ job' = [job EXCEPT ![j] = Resume(job[j])]
        /\ UNCHANGED <<order, active, exec, code>>
    BY <1>6 DEF Answer
  <2>2. /\ Resume(job[j]).pause = "none" => Resume(job[j]) = job[j]
        /\ job[j].state = "none" => Resume(job[j]).state = "none"
    BY <1>1, StorePlaces
  <2> QED
    BY <2>1, <2>2, OnePlace
<1> QED
  BY <1>3, <1>4, <1>5, <1>6 DEF Route

(* The end of an execution: whoever has not paused had no other one, so    *)
(* its entry of the map was this one's.                                    *)
LEMMA ReleasePlaces ==
  ASSUME QueueInv, PlaceInv, NEW j \in Jobs, NEW r \in Runs, Release(j, r)
  PROVE  PlaceInv'
<1>1. /\ code = <<>> /\ exec[j][r] = "settled" /\ code' = PumpAll /\ UNCHANGED <<job, order>>
      /\ active' = [active EXCEPT ![j] = 0] /\ exec' = [exec EXCEPT ![j][r] = "none"]
  BY DEF Release
<1>2. Places' = Places \ {j}
  BY <1>1 DEF Places, QueueInv, TypesOK
<1>3. IsFiniteSet(Places) /\ Cardinality(Places) = Size /\ Cardinality(Places') = Size'
  BY DEF PlaceInv, Size, Places
<1>4. IsFiniteSet(Places') /\ Cardinality(Places') <= Cardinality(Places)
  BY <1>2, <1>3, FS_Subset
<1>5. Size' <= Concurrency
  <2>1. Size \in Nat /\ Size' \in Nat /\ Size <= Concurrency
    BY <1>3, <1>4, FS_CardinalityType DEF PlaceInv
  <2> QED
    BY <1>3, <1>4, <2>1, ConcurrencyAssumption DEF ConcurrencyAssumption
<1>6. Quiet(job[j], exec[j]) /\ exec[j] \in [Runs -> Execution]
  BY <1>1, AtRest
<1>7. ASSUME NEW k \in Jobs, Holding(k)' PROVE active'[k] # 0
  <2>1. CASE k = j
    <3>1. OneFree(exec[j])
      BY <1>1, <1>7, <1>6, <2>1 DEF Holding, NeverPaused, Quiet, FitsAs, RunsFit
    <3>2. exec'[j][1] = "none" /\ exec'[j][2] = "none"
      BY <1>1, <1>6, <3>1 DEF OneFree, Runs, QueueInv, TypesOK
    <3> QED
      BY <1>7, <2>1, <3>2 DEF Holding
  <2>2. CASE k # j
    <3>1. exec'[k] = exec[k] /\ active'[k] = active[k] /\ job'[k] = job[k]
      BY <1>1, <2>2 DEF QueueInv, TypesOK
    <3>2. Holding(k)
      BY <1>7, <3>1 DEF Holding, NeverPaused
    <3> QED
      BY <3>1, <3>2 DEF PlaceInv
  <2> QED
    BY <2>1, <2>2
<1>8. ~CodeTaken(code') /\ ~Pumped(code') /\ JobListed'
  BY <1>1, CodePlaces DEF PlaceInv, JobListed
<1> QED
  BY <1>4, <1>5, <1>7, <1>8 DEF PlaceInv

(* What executions do of themselves: only the finally frees a place.       *)
LEMMA ExecutingPlaces ==
  ASSUME QueueInv, PlaceInv, NEW j \in Jobs, NEW r \in Runs, Executing(j, r)
  PROVE  PlaceInv'
<1>1. job[j] \in Job /\ [job EXCEPT ![j] = job[j]] = job
  BY DEF QueueInv, TypesOK
<1>2. CASE CancelAnswered(j, r) \/ GraceOver(j, r)
  <2>1. PICK s : exec[j][r] # "none" /\ exec' = [exec EXCEPT ![j][r] = s]
    BY <1>2 DEF CancelAnswered, GraceOver
  <2>2. \A k \in Jobs, q \in Runs : exec[k][q] = "none" => exec'[k][q] = "none"
    BY <2>1 DEF QueueInv, TypesOK
  <2>3. UNCHANGED <<job, order, active, code>>
    BY <1>2 DEF CancelAnswered, GraceOver
  <2> QED
    BY <1>1, <2>2, <2>3, OnePlace
<1>3. CASE PauseJob(j, r)
  <2>1. job' = [job EXCEPT ![j] = Pause(job[j])] /\ UNCHANGED <<order, active, exec, code>>
    BY <1>3 DEF PauseJob
  <2>2. /\ Pause(job[j]).pause # "none"
        /\ job[j].state = "none" => Pause(job[j]).state = "none"
    BY <1>1, StorePlaces
  <2> QED
    BY <2>1, <2>2, OnePlace
<1>4. ASSUME NEW outcome \in Terminal, Settle(j, r, outcome) PROVE PlaceInv'
  <2>1. PICK to \in Terminal : to = Outcome(j, outcome)
    BY DEF Outcome, Terminal
  <2>2. /\ job' = [job EXCEPT ![j] = Finish(job[j], to)]
        /\ exec' = [exec EXCEPT ![j][r] = "settled"] /\ UNCHANGED <<order, active, code>>
        /\ code = <<>> /\ exec[j][r] \in Live
    BY <1>4, <2>1 DEF Settle
  <2>3. \A k \in Jobs, q \in Runs : exec[k][q] = "none" => exec'[k][q] = "none"
    BY <2>2 DEF QueueInv, TypesOK, Live
  <2>4. /\ Finish(job[j], to).pause = job[j].pause
        /\ Finish(job[j], to).state = "queued" => job[j].state = "queued"
    BY <1>1, StorePlaces
  <2>5. job[j].state # "none"
    <3>1. Quiet(job[j], exec[j])
      BY <2>2, AtRest
    <3>2. ~AllFree(exec[j])
      BY <2>2 DEF AllFree, Live, Runs
    <3> QED
      BY <3>1, <3>2 DEF Quiet, FitsAs, RunsFit
  <2> QED
    BY <2>2, <2>3, <2>4, <2>5, OnePlace
<1>5. CASE Release(j, r)
  BY <1>5, ReleasePlaces
<1> QED
  BY <1>2, <1>3, <1>4, <1>5 DEF Executing, Ends

(* Closing keeps the places, a restart empties them.                       *)
LEMMA ProcessPlaces ==
  ASSUME QueueInv, PlaceInv, Close \/ Restart
  PROVE  PlaceInv'
<1>1. CASE Close
  <2>1. UNCHANGED <<job, order, active, code>>
    BY <1>1 DEF Close
  <2>2. \A k \in Jobs, q \in Runs : exec[k][q] = "none" => exec'[k][q] = "none"
    BY <1>1 DEF Close, Live
  <2>3. \A k \in Jobs : (Holding(k)' => Holding(k)) /\ (Fresh(k)' => Fresh(k))
    BY <2>1, <2>2 DEF Holding, Fresh, NeverPaused, Runs
  <2>4. JobListed'
    BY <2>1 DEF PlaceInv, JobListed
  <2> QED
    BY <2>1, <2>3, <2>4, SamePlaces
<1>2. CASE Restart
  <2>1. /\ code' = PumpAll /\ order' = order /\ job' = [j \in Jobs |-> Recover(job[j])]
        /\ \A j \in Jobs : active'[j] = 0 /\ exec'[j][1] = "none" /\ exec'[j][2] = "none"
    BY <1>2 DEF Restart, Runs
  <2>2. Places' = {}
    BY <2>1 DEF Places
  <2>3. IsFiniteSet(Places') /\ Size' = 0
    BY <2>2, FS_EmptySet DEF Places, Size
  <2>4. JobListed'
    <3>1. \A j \in Jobs : job'[j].state # "none" => job[j].state # "none"
      BY <2>1, StorePlaces DEF QueueInv, TypesOK
    <3> QED
      BY <2>1, <3>1 DEF PlaceInv, JobListed
  <2>5. ~CodeTaken(PumpAll) /\ ~Pumped(PumpAll)
    BY PendingFacts DEF CodeTaken, Pumped
  <2> QED
    BY <2>1, <2>3, <2>4, <2>5, ConcurrencyAssumption DEF PlaceInv, Holding, ConcurrencyAssumption
<1> QED
  BY <1>1, <1>2

(* At first there are no jobs and no executions.                           *)
LEMMA PlaceInit == Init => PlaceInv
<1> SUFFICES ASSUME Init PROVE PlaceInv
  OBVIOUS
<1>1. Places = {} /\ code = PumpAll
  BY DEF Init, Places
<1>2. IsFiniteSet(Places) /\ Size = 0
  BY <1>1, FS_EmptySet DEF Places, Size
<1>3. ~CodeTaken(PumpAll) /\ ~Pumped(PumpAll)
  BY PendingFacts DEF CodeTaken, Pumped
<1>4. JobListed /\ \A j \in Jobs : ~Holding(j)
  BY DEF Init, JobListed, Holding, NoJob, Runs
<1> QED
  BY <1>1, <1>2, <1>3, <1>4, ConcurrencyAssumption DEF PlaceInv, ConcurrencyAssumption

(* The places are counted right in every execution.                        *)
LEMMA PlacesKept == Spec => [](QueueInv /\ PlaceInv)
<1>1. QueueInv /\ PlaceInv /\ [Next]_vars => PlaceInv'
  <2> SUFFICES ASSUME QueueInv, PlaceInv, [Next]_vars PROVE PlaceInv'
    OBVIOUS
  <2>1. CASE UNCHANGED vars
    <3>1. UNCHANGED <<job, order, active, exec, code>>
      BY <2>1 DEF vars
    <3> QED
      BY <3>1 DEF PlaceInv, Places, Size, JobListed, Holding, Fresh, NeverPaused
  <2> QED
    BY <2>1, TellStatePlaces, PumpPlaces, RunPlaces, SignalPlaces, RoutePlaces,
       ExecutingPlaces, ProcessPlaces DEF Next, Handler
<1> QED
  BY <1>1, PlaceInit, QueueInit, QueueStep, PTL DEF Spec

(* The capacity is respected, for every number of jobs and places: the map *)
(* has an entry for every execution whose job has not paused.              *)
THEOREM CapacityRespected == Spec => []CapacityKept
<1>1. PlaceInv => CapacityKept
  <2> SUFFICES ASSUME PlaceInv PROVE CapacityKept
    OBVIOUS
  <2> DEFINE busy == {j \in Jobs : NeverPaused(j) /\ \E r \in Runs : exec[j][r] \in Live}
  <2>1. busy \subseteq Places
    BY DEF Places, PlaceInv, Holding, Runs, Live
  <2>2. IsFiniteSet(Places) /\ Cardinality(Places) <= Concurrency
    BY DEF PlaceInv, Size, Places
  <2> HIDE DEF busy
  <2>3. IsFiniteSet(busy) /\ Cardinality(busy) <= Cardinality(Places)
    BY <2>1, <2>2, FS_Subset
  <2>4. Cardinality(busy) \in Nat /\ Cardinality(Places) \in Nat
    BY <2>2, <2>3, FS_CardinalityType
  <2>5. Cardinality(busy) <= Concurrency
    BY <2>2, <2>3, <2>4, ConcurrencyAssumption DEF ConcurrencyAssumption
  <2> QED
    BY <2>5 DEF CapacityKept, busy
<1> QED
  BY <1>1, PlacesKept, PTL

(* No job that has not paused is left queued beside a free place: every    *)
(* handler that frees a place or brings such a job ends in pump().         *)
THEOREM NoPlaceIdle == Spec => []NoIdleCapacity
<1>1. PlaceInv => NoIdleCapacity
  <2>1. <<>> # PumpAll
    BY CodeParts
  <2>2. code = <<>> => Pumped(code)
    BY <2>1 DEF Pumped, Calm
  <2> QED
    BY <2>2 DEF PlaceInv, NoIdleCapacity, Fresh
<1> QED
  BY <1>1, PlacesKept, PTL
=============================================================================
