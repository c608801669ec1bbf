--------------------------- MODULE StepExecProofs ---------------------------
(***************************************************************************)
(* Theorems about the steps of a task for any number of steps and any      *)
(* limits.  StepInv adds to the types and the properties what driver and   *)
(* agent may take for granted of each other: what a frame on its way says  *)
(* is still true when it arrives, a START finds a step that has not begun, *)
(* and no shell runs but that of the step the agent is at.                 *)
(***************************************************************************)
EXTENDS StepExec, SequenceTheorems, TLAPS

Msg == {"START", "SIGNAL", "END"}

RunType == [bytes : 0..(LogLimit + 1), truncated : BOOLEAN, cancelled : BOOLEAN,
            reason : Reason, timedOut : BOOLEAN, timer : BOOLEAN]

JobType == [started : BOOLEAN, finished : BOOLEAN, timedOut : BOOLEAN, timer : BOOLEAN,
            killTimer : BOOLEAN]

OneStart(q) == \A i, j \in DOMAIN q : q[i] = "START" /\ q[j] = "START" => i = j

NoStart(q) == \A i \in DOMAIN q : q[i] # "START"

\* What the driver remembers of the steps before the one it is at.
ResultsInv ==
  \A s \in Step : /\ s < current => result[s] # NoResult
                  /\ s > current => result[s] = NoResult /\ shell[s] = "none"

\* What an agent that reports an exit knows of the step.
ReportInv(f) ==
  f.kind = "EXIT" =>
    /\ f.code = "zero" => shell[f.step] = "exit0"
    /\ f.timedOut => task.timeout[f.step]
    /\ Complete(f.step, f.outputs, f.outputsTruncated)
    /\ Own(f.step, f.outputs)

\* The frames that may be on their way to the driver.
OnTheirWay ==
  {f \in Frames :
     /\ f.step <= current
     /\ f.kind \in {"EXIT", "ERROR", "END"} /\ f.step = current => job.finished
     /\ f.kind = "CLOSED" => agent = "dead"
     /\ ReportInv(f)}

FramesInv == toDriver \in Seq(OnTheirWay)

\* A START frame is the only one, and finds a step that has not begun.
StartInv ==
  /\ OneStart(toAgent)
  /\ NoStart(toAgent) \/ /\ current # 0 /\ (InFlight \/ box = "disposed")
                         /\ ~job.started /\ ~job.finished /\ shell[current] = "none"

AgentInv == agent = "dead" => /\ toAgent = <<>>
                              /\ \A s \in Step : shell[s] # "alive" /\ worker[s] # "alive"

\* The agent's Step is that of the current step, and no other shell runs.
JobInv ==
  /\ job.started => current # 0
  /\ job.timer \/ job.timedOut => job.started /\ task.timeout[current]
  /\ ~InFlight => current = 0 \/ job.finished \/ agent = "dead" \/ box = "disposed"
  /\ current # 0 /\ result[current].code \in {"zero", "nonzero"} => job.finished
  /\ \A s \in Step : shell[s] = "alive" => s = current /\ Live
  /\ Live /\ current \in wrote => \/ current \in file
                                 \/ \E r \in Step : r < current /\ worker[r] # "none"

\* Who has written has run; what is in the file when a step has started comes from it, from
\* what an earlier one has left behind, or was left there by two accesses that failed.
WorkInv ==
  /\ \A s \in Step : worker[s] # "none" \/ s \in wrote \/ s \in file => shell[s] # "none"
  /\ job.started => \A r \in file : r = current \/ worker[r] # "none" \/ Stale(r, current)

\* What is in the file at any time comes from a process that runs or was left behind, or
\* was not emptied at the end of its step or of a later one.
FileInv ==
  /\ agent # "dead" => \A r \in file : \/ worker[r] # "none"
                                       \/ r = current /\ Live
                                       \/ \E m \in r..current : <<"empty", m>> \in faults
  /\ \A m \in Step : <<"empty", m>> \in faults => m < current \/ (m = current /\ job.finished)

RunInv ==
  /\ ~run.truncated => run.bytes <= LogLimit
  /\ InFlight => /\ run.timedOut <=> run.reason = "timeout"
                 /\ run.cancelled <=> run.reason # "none"
                 /\ run.timer \/ run.timedOut => task.timeout[current]

StepInv == /\ TypeOK /\ ResultsInv /\ FramesInv /\ StartInv /\ AgentInv /\ JobInv /\ WorkInv
           /\ FileInv /\ RunInv /\ SuccessIsReal /\ TimeoutHonest /\ OutputsExact
           /\ DisposeSettlesAll

-----------------------------------------------------------------------------
(* Sequences of frames *)

LEMMA OneMoreMessage ==
  ASSUME NEW q \in Seq(Msg), NEW m \in Msg \ {"START"}
  PROVE  /\ q \o <<m>> \in Seq(Msg)
         /\ OneStart(q) => OneStart(q \o <<m>>)
         /\ NoStart(q) => NoStart(q \o <<m>>)
BY DEF Msg, OneStart, NoStart

LEMMA MessageRead ==
  ASSUME NEW q \in Seq(Msg), q # <<>>
  PROVE  /\ Tail(q) \in Seq(Msg)
         /\ OneStart(q) => OneStart(Tail(q))
         /\ NoStart(q) => NoStart(Tail(q))
         /\ OneStart(q) /\ Head(q) = "START" => NoStart(Tail(q))
         /\ Head(q) = "START" => ~NoStart(q)
BY DEF Msg, OneStart, NoStart

LEMMA MessagesLost ==
  ASSUME NEW q \in Seq(Msg), NEW n \in 0..Len(q)
  PROVE  \A e \in {<<>>, <<"END">>} :
           /\ SubSeq(q, 1, n) \o e \in Seq(Msg)
           /\ OneStart(q) => OneStart(SubSeq(q, 1, n) \o e)
           /\ NoStart(q) => NoStart(SubSeq(q, 1, n) \o e)
<1> DEFINE p == SubSeq(q, 1, n)
<1>1. /\ p \in Seq(Msg) /\ (OneStart(q) => OneStart(p)) /\ (NoStart(q) => NoStart(p))
  BY DEF Msg, OneStart, NoStart
<1>2. p \o <<>> = p
  BY <1>1
<1>3. "END" \in Msg \ {"START"}
  BY DEF Msg
<1> HIDE DEF p
<1>4. p \o <<"END">> \in Seq(Msg) /\ (OneStart(p) => OneStart(p \o <<"END">>))
      /\ (NoStart(p) => NoStart(p \o <<"END">>))
  BY <1>1, <1>3, OneMoreMessage
<1>5. QED
  BY <1>1, <1>2, <1>4 DEF p

LEMMA NewStart ==
  ASSUME NEW q \in Seq(Msg), NoStart(q)
  PROVE  /\ q \o <<"START">> \in Seq(Msg) /\ OneStart(q \o <<"START">>)
         /\ q \o <<"SIGNAL", "START">> \in Seq(Msg) /\ OneStart(q \o <<"SIGNAL", "START">>)
BY DEF Msg, OneStart, NoStart

LEMMA Nothing == OneStart(<<>>) /\ NoStart(<<>>) /\ <<>> \in Seq(Msg)
BY DEF OneStart, NoStart

LEMMA MoreFrames ==
  ASSUME NEW S, NEW T, S \subseteq T, NEW q \in Seq(S)
  PROVE  /\ q \in Seq(T)
         /\ \A e \in T : q \o <<e>> \in Seq(T) /\ Append(q, e) \in Seq(T)
         /\ \A e, d \in T : q \o <<e, d>> \in Seq(T)
<1>1. q \in Seq(T)
  OBVIOUS
<1>2. QED
  BY <1>1

LEMMA FewerFrames ==
  ASSUME NEW S, NEW q \in Seq(S)
  PROVE  /\ q # <<>> => Head(q) \in S /\ Tail(q) \in Seq(S)
         /\ \A n \in 0..Len(q) : SubSeq(q, 1, n) \in Seq(S)
BY SubSeqProperties

-----------------------------------------------------------------------------
(* What the types say *)

LEMMA AccessIs == \A s \in Step : \A a \in {"prepare", "read", "empty"} : <<a, s>> \in Accesses
BY DEF Accesses

LEMMA ResultIs ==
  ASSUME NEW r \in Results
  PROVE  /\ r = NoResult <=> r.code = "pending"
         /\ r # NoResult => /\ r.code \in {"zero", "nonzero", "lost"} /\ r.outputs \in SUBSET Step
                            /\ r.cancelled \in BOOLEAN /\ r.timedOut \in BOOLEAN
                            /\ r.reason \in Reason /\ r.outputsTruncated \in BOOLEAN
BY DEF Results, NoResult

LEMMA FrameIs ==
  ASSUME NEW f \in Frames
  PROVE  /\ f.step \in Step /\ f.kind \in {"STDOUT", "ERROR", "END", "CLOSED", "EXIT"}
         /\ f.kind = "EXIT" => /\ f.code \in {"zero", "nonzero"} /\ f.timedOut \in BOOLEAN
                               /\ f.outputs \in SUBSET Step /\ f.outputsTruncated \in BOOLEAN
BY DEF Frames

LEMMA TaskIs ==
  ASSUME TypeOK
  PROVE  /\ task.steps \in Step /\ task.timeout \in [Step -> BOOLEAN]
         /\ task.prints \in 0..MaxPrint /\ task.fails \subseteq {"prepare", "read", "empty"}
         /\ current \in Nat /\ current <= NSteps /\ (current # 0 => current \in Step)
BY StepAssumption DEF TypeOK, Task, Step

\* A driver that writes one more frame, or to nobody.
LEMMA WrittenIs ==
  ASSUME StepInv, NEW m \in Msg \ {"START"}
  PROVE  /\ Written(<<m>>) \in Seq(Msg)
         /\ agent = "dead" => Written(<<m>>) = <<>>
         /\ OneStart(Written(<<m>>))
         /\ NoStart(Written(<<m>>)) \/ (~NoStart(toAgent) /\ agent # "dead")
<1>1. toAgent \in Seq(Msg) /\ OneStart(toAgent)
  BY DEF StepInv, TypeOK, Msg, StartInv
<1>2. QED
  BY <1>1, OneMoreMessage, Nothing DEF Written

LEMMA StepInit == Init => StepInv
<1> SUFFICES ASSUME Init PROVE StepInv
  OBVIOUS
<1> USE StepAssumption DEF Init
<1>1. TypeOK
  <2>1. task \in Task /\ 0 \in 0..task.steps /\ 0 \in 0..MaxPrint /\ 0 \in 0..(LogLimit + 1)
    BY DEF Task, Step
  <2>2. run \in RunType /\ job \in JobType /\ NoResult \in Results
    BY <2>1 DEF NewRun, Reason, NewJob, RunType, JobType, Results
  <2>3. toAgent \in Seq(Msg) /\ toDriver \in Seq(Frames)
    OBVIOUS
  <2>4. QED
    BY <2>1, <2>2, <2>3 DEF TypeOK, RunType, JobType, Msg
<1>2. ResultsInv
  BY DEF ResultsInv, Step
<1>3. FramesInv
  BY DEF FramesInv
<1>4. StartInv /\ AgentInv /\ JobInv /\ WorkInv /\ RunInv
  BY Nothing DEF StartInv, AgentInv, JobInv, WorkInv, RunInv, NewJob, NewRun, InFlight, Live
<1>7. FileInv
  BY DEF FileInv
<1>5. SuccessIsReal /\ TimeoutHonest /\ OutputsExact /\ DisposeSettlesAll
  BY DEF SuccessIsReal, TimeoutHonest, OutputsExact, DisposeSettlesAll, NoResult, InFlight
<1>6. QED
  BY <1>1, <1>2, <1>3, <1>4, <1>5, <1>7 DEF StepInv

-----------------------------------------------------------------------------
(* What was reported of a step *)

\* It stays right while processes come and go and accesses fail.
LEMMA ReportKept ==
  ASSUME faults \subseteq faults', \A r \in Step : worker[r] # "none" => worker'[r] # "none",
         NEW s \in Step, NEW outputs \in SUBSET Step, NEW cut \in BOOLEAN,
         s \in wrote' => s \in wrote
  PROVE  /\ Complete(s, outputs, cut) => Complete(s, outputs, cut)'
         /\ Own(s, outputs) => Own(s, outputs)'
BY DEF Complete, Own, Stale

\* The same of every result, and of every frame on its way.
LEMMA ReportsKept ==
  ASSUME StepInv, faults \subseteq faults',
         \A r \in Step : worker[r] # "none" => worker'[r] # "none"
  PROVE  /\ \A s \in Step :
              /\ s \in wrote' => s \in wrote
              /\ result'[s] = result[s] \/ result'[s].code \notin {"zero", "nonzero"}
              => (result'[s].code \in {"zero", "nonzero"} =>
                    /\ Complete(s, result[s].outputs, result[s].outputsTruncated)'
                    /\ Own(s, result[s].outputs)')
         /\ \A f \in OnTheirWay :
              /\ f.kind = "EXIT" => (f.step \in wrote' => f.step \in wrote)
              /\ f.kind = "EXIT" => (shell[f.step] = "exit0" => shell'[f.step] = "exit0")
              /\ task' = task
              => ReportInv(f)'
<1>1. ASSUME NEW s \in Step, s \in wrote' => s \in wrote,
             result'[s] = result[s] \/ result'[s].code \notin {"zero", "nonzero"},
             result'[s].code \in {"zero", "nonzero"}
      PROVE  /\ Complete(s, result[s].outputs, result[s].outputsTruncated)'
             /\ Own(s, result[s].outputs)'
  <2>1. result'[s] = result[s] /\ result[s] \in Results /\ result[s] # NoResult
    BY <1>1, ResultIs DEF StepInv, TypeOK
  <2>2. result[s].outputs \in SUBSET Step /\ result[s].outputsTruncated \in BOOLEAN
    BY <2>1, ResultIs
  <2>3. /\ Complete(s, result[s].outputs, result[s].outputsTruncated)
        /\ Own(s, result[s].outputs)
    BY <1>1, <2>1 DEF StepInv, OutputsExact
  <2>4. QED
    BY <1>1, <2>1, <2>2, <2>3 DEF Complete, Own, Stale
<1>2. ASSUME NEW f \in OnTheirWay,
             f.kind = "EXIT" => (f.step \in wrote' => f.step \in wrote),
             f.kind = "EXIT" => (shell[f.step] = "exit0" => shell'[f.step] = "exit0"),
             task' = task
      PROVE  ReportInv(f)'
  <2> SUFFICES ASSUME f.kind = "EXIT" PROVE ReportInv(f)'
    BY DEF ReportInv
  <2>1. f \in Frames /\ ReportInv(f)
    BY DEF OnTheirWay
  <2>2. f.step \in Step /\ f.outputs \in SUBSET Step /\ f.outputsTruncated \in BOOLEAN
    BY <2>1, FrameIs
  <2>3. QED
    BY <1>2, <2>1, <2>2, ReportKept DEF ReportInv
<1>3. QED
  BY <1>1, <1>2

-----------------------------------------------------------------------------
(* The driver *)

\* A step that leaves the container and the results alone.
LEMMA DriverOnly ==
  ASSUME StepInv, UNCHANGED <<task, current, result, inside>>,
         aborted' \in BOOLEAN, box' \in {box, "ready", "disposing", "crashed"}, box # "disposed" \/ box' = box,
         torn' \in BOOLEAN, run' \in RunType, RunInv',
         box' = "disposing" /\ InFlight => run'.cancelled, toDriver' \in Seq(OnTheirWay),
         toAgent' \in Seq(Msg), OneStart(toAgent'), NoStart(toAgent') \/ ~NoStart(toAgent),
         agent = "dead" => toAgent' = <<>>
  PROVE  StepInv'
<1> USE DEF StepInv, inside
<1>1. OnTheirWay' = OnTheirWay
  BY DEF OnTheirWay, ReportInv, Complete, Own, Stale
<1>2. TypeOK'
  <2>1. OnTheirWay \subseteq Frames
    BY DEF OnTheirWay
  <2>2. toDriver' \in Seq(Frames)
    BY <2>1, MoreFrames
  <2>3. QED
    BY <2>2 DEF TypeOK, RunType, Msg
<1>3. ResultsInv' /\ FramesInv'
  BY <1>1 DEF ResultsInv, FramesInv
<1>4. StartInv' /\ AgentInv'
  BY DEF StartInv, AgentInv, InFlight
<1>5. JobInv' /\ WorkInv' /\ FileInv'
  BY DEF JobInv, WorkInv, FileInv, Stale, InFlight, Live
<1>6. SuccessIsReal' /\ TimeoutHonest' /\ OutputsExact' /\ DisposeSettlesAll'
  BY DEF SuccessIsReal, TimeoutHonest, OutputsExact, Complete, Own, Stale, DisposeSettlesAll,
         InFlight
<1>7. QED
  BY <1>2, <1>3, <1>4, <1>5, <1>6

\* What was on its way still is.
LEMMA StillOnTheWay ==
  ASSUME StepInv
  PROVE  /\ toDriver \in Seq(OnTheirWay) /\ <<>> \in Seq(OnTheirWay)
         /\ toDriver # <<>> => Tail(toDriver) \in Seq(OnTheirWay) /\ Head(toDriver) \in OnTheirWay
         /\ toAgent \in Seq(Msg) /\ OneStart(toAgent)
         /\ agent = "dead" => toAgent = <<>>
         /\ run \in RunType
<1>1. toDriver \in Seq(OnTheirWay)
  BY DEF StepInv, FramesInv
<1>2. QED
  BY <1>1, FewerFrames DEF StepInv, TypeOK, Msg, StartInv, AgentInv, RunType

\* cancel(reason), with the timer cleared or not.
LEMMA CancelIs ==
  ASSUME StepInv, NEW reason \in Reason \ {"none"}, InFlight,
         reason = "timeout" => task.timeout[current],
         UNCHANGED <<task, current, result>>,
         \/ run' = Cancelled(run, reason)
         \/ run' = [Cancelled(run, reason) EXCEPT !.timer = FALSE]
  PROVE  run' \in RunType /\ RunInv' /\ run'.cancelled
<1>1. run \in RunType /\ RunInv
  BY StillOnTheWay DEF StepInv
<1>2. run' \in RunType
  BY <1>1 DEF RunType, Cancelled, Reason
<1>3. RunInv'
  BY <1>1, TaskIs DEF RunType, RunInv, InFlight, Cancelled, Reason
<1>4. run'.cancelled
  BY <1>1 DEF RunType, Cancelled
<1>5. QED
  BY <1>2, <1>3, <1>4

LEMMA SameRun ==
  ASSUME StepInv, UNCHANGED <<task, current, result, run>>
  PROVE  run' \in RunType /\ RunInv'
BY StillOnTheWay DEF StepInv, RunInv, InFlight

LEMMA DriverTimerInv == StepInv /\ DriverTimer => StepInv'
<1> SUFFICES ASSUME StepInv, DriverTimer PROVE StepInv'
  OBVIOUS
<1>1. task.timeout[current]
  BY DEF DriverTimer, StepInv, RunInv
<1>2. run' \in RunType /\ RunInv' /\ run'.cancelled
  BY <1>1, CancelIs DEF DriverTimer, Reason
<1>3. QED
  BY <1>2, DriverOnly, StillOnTheWay, WrittenIs
  DEF DriverTimer, DriverAlive, Msg, StepInv, TypeOK

LEMMA UserAbortInv == StepInv /\ UserAbort => StepInv'
<1> SUFFICES ASSUME StepInv, UserAbort PROVE StepInv'
  OBVIOUS
<1>1. run' \in RunType /\ RunInv' /\ (InFlight => run'.cancelled)
  BY CancelIs, SameRun DEF UserAbort, Reason
<1>2. /\ toAgent' \in Seq(Msg) /\ OneStart(toAgent') /\ (NoStart(toAgent') \/ ~NoStart(toAgent))
      /\ agent = "dead" => toAgent' = <<>>
  BY StillOnTheWay, WrittenIs DEF UserAbort, Msg
<1>3. /\ UNCHANGED <<task, current, result, inside, box, toDriver>>
      /\ aborted' \in BOOLEAN /\ box' \in {"ready", "disposing", "crashed"}
      /\ torn' \in BOOLEAN
  BY DEF UserAbort, DriverAlive, StepInv, TypeOK
<1>4. QED
  BY <1>1, <1>2, <1>3, DriverOnly, StillOnTheWay

LEMMA DisposeInv == StepInv /\ Dispose => StepInv'
<1> SUFFICES ASSUME StepInv, Dispose PROVE StepInv'
  OBVIOUS
<1>1. run' \in RunType /\ RunInv' /\ (InFlight => run'.cancelled)
  BY CancelIs, SameRun DEF Dispose, Reason
<1>2. QED
  BY <1>1, DriverOnly, StillOnTheWay, WrittenIs DEF Dispose, Msg, StepInv, TypeOK

LEMMA ReceiveLateInv == StepInv /\ ReceiveLate => StepInv'
<1> SUFFICES ASSUME StepInv, ReceiveLate PROVE StepInv'
  OBVIOUS
<1>1. run' \in RunType /\ RunInv'
  BY SameRun DEF ReceiveLate, Receives
<1>2. QED
  BY <1>1, DriverOnly, StillOnTheWay
  DEF ReceiveLate, Receives, DriverAlive, StepInv, TypeOK, DisposeSettlesAll

\* The agent gets what had been flushed and no new START.
LEMMA HangsUpIs ==
  ASSUME StepInv, HangsUp
  PROVE  /\ toAgent' \in Seq(Msg) /\ OneStart(toAgent')
         /\ NoStart(toAgent') \/ ~NoStart(toAgent)
         /\ agent = "dead" => toAgent' = <<>>
         /\ torn' \in BOOLEAN
<1>1. CASE agent = "dead"
  BY <1>1, Nothing DEF HangsUp
<1>2. CASE agent # "dead"
  <2>1. PICK n \in 0..Len(toAgent) :
          toAgent' = SubSeq(toAgent, 1, n) \o (IF torn' THEN <<>> ELSE <<"END">>)
    BY <1>2 DEF HangsUp
  <2>2. PICK e \in {<<>>, <<"END">>} : toAgent' = SubSeq(toAgent, 1, n) \o e
    BY <2>1
  <2>3. QED
    BY <1>2, <2>2, MessagesLost, StillOnTheWay DEF HangsUp
<1>3. QED
  BY <1>1, <1>2

LEMMA DriverDiesInv == StepInv /\ DriverDies => StepInv'
<1> SUFFICES ASSUME StepInv, DriverDies PROVE StepInv'
  OBVIOUS
<1>1. run' \in RunType /\ RunInv'
  <2>1. run' = NewRun /\ 0 \in 0..(LogLimit + 1) /\ "none" \in Reason
    BY StepAssumption DEF DriverDies, Reason
  <2>2. QED
    BY <2>1, StepAssumption DEF NewRun, RunType, RunInv
<1>2. /\ toAgent' \in Seq(Msg) /\ OneStart(toAgent') /\ (NoStart(toAgent') \/ ~NoStart(toAgent))
      /\ agent = "dead" => toAgent' = <<>>
  BY HangsUpIs DEF DriverDies
<1>3. /\ UNCHANGED <<task, current, result, inside>> /\ toDriver' = <<>>
      /\ aborted' \in BOOLEAN /\ box # "disposed" /\ box' = "crashed" /\ torn' \in BOOLEAN
  BY DEF DriverDies, DriverAlive, HangsUp
<1>4. QED
  BY <1>1, <1>2, <1>3, DriverOnly, StillOnTheWay

\* A frame for a step that has not been settled is of the current step.
LEMMA Unsettled ==
  ASSUME StepInv, toDriver # <<>>, ~ForSettled
  PROVE  Head(toDriver) \in Frames /\ Head(toDriver).step = current /\ InFlight
<1>1. Head(toDriver) \in OnTheirWay
  BY StillOnTheWay
<1>2. Head(toDriver) \in Frames /\ Head(toDriver).step \in Step /\ Head(toDriver).step <= current
  BY <1>1, FrameIs DEF OnTheirWay
<1>3. QED
  BY <1>2, TaskIs DEF ForSettled, StepInv, ResultsInv, InFlight, Step

LEMMA ReceiveOutputInv == StepInv /\ ReceiveOutput => StepInv'
<1> SUFFICES ASSUME StepInv, ReceiveOutput PROVE StepInv'
  OBVIOUS
<1>1. InFlight /\ toDriver # <<>>
  BY Unsettled DEF ReceiveOutput, Receives
<1>2. run \in RunType /\ RunInv
  BY StillOnTheWay DEF StepInv
<1>3. Output(run) \in RunType /\ (~Output(run).truncated => Output(run).bytes <= LogLimit)
  <2>1. CASE run.truncated
    BY <1>2, <2>1 DEF Output
  <2>2. CASE ~run.truncated
    <3>1. /\ run.bytes \in Nat /\ run.bytes <= LogLimit /\ LogLimit \in Nat
          /\ run.bytes + 1 \in 0..(LogLimit + 1)
      BY <1>2, <2>2, StepAssumption DEF RunType, RunInv
    <3>2. \A n \in 0..(LogLimit + 1), b \in BOOLEAN :
            LET r == [run EXCEPT !.bytes = n, !.truncated = b]
            IN  r \in RunType /\ r.bytes = n /\ r.truncated = b
      BY <1>2 DEF RunType
    <3>3. CASE run.bytes >= LogLimit
      BY <2>2, <3>1, <3>2, <3>3 DEF Output
    <3>4. CASE ~(run.bytes >= LogLimit)
      <4>1. run.bytes + 1 <= LogLimit
        BY <3>1, <3>4
      <4>2. (run.bytes >= LogLimit) = FALSE
        BY <3>4
      <4>3. Output(run) = [run EXCEPT !.bytes = run.bytes + 1, !.truncated = FALSE]
        BY <2>2, <4>2, Zenon DEF Output
      <4>4. QED
        BY <3>1, <3>2, <4>1, <4>3
    <3>5. QED
      BY <3>3, <3>4
  <2>3. QED
    BY <2>1, <2>2
<1>4. /\ Output(run).timedOut = run.timedOut /\ Output(run).reason = run.reason
      /\ Output(run).cancelled = run.cancelled /\ Output(run).timer = run.timer
  BY <1>2 DEF Output, RunType
<1>5. run' \in RunType
  BY <1>3 DEF ReceiveOutput, Cancelled, RunType, Reason
<1>6. UNCHANGED <<task, box, current, aborted, result, inside>>
  BY DEF ReceiveOutput, Receives
<1>7. RunInv'
  BY <1>1, <1>2, <1>3, <1>4, <1>6 DEF RunInv, ReceiveOutput, Cancelled, RunType, InFlight
<1>8. run.cancelled => run'.cancelled
  BY <1>2, <1>3, <1>4 DEF ReceiveOutput, Cancelled, RunType
<1>9. torn' \in BOOLEAN
  BY DEF ReceiveOutput, Receives, StepInv, TypeOK
<1>10. QED
  BY <1>1, <1>5, <1>6, <1>7, <1>8, <1>9, DriverOnly, StillOnTheWay, WrittenIs
  DEF ReceiveOutput, Receives, DriverAlive, Msg, StepInv, TypeOK, DisposeSettlesAll

\* _settle, with what the agent reported or without.
LEMMA SettleInv ==
  ASSUME StepInv, DriverAlive, InFlight, UNCHANGED <<task, box, current, aborted, torn, inside>>,
         toDriver' \in Seq(OnTheirWay),
         NEW r \in RunType, NEW code \in {"zero", "nonzero", "lost"}, NEW outputs \in SUBSET Step,
         job.finished \/ (agent = "dead" /\ code = "lost"),
         NEW cut \in BOOLEAN, Settle(r, code, outputs, cut),
         ~r.truncated => r.bytes <= LogLimit,
         r.reason = run.reason, r.cancelled = run.cancelled,
         run.timedOut => r.timedOut,
         r.timedOut => task.timeout[current] /\ (run.timedOut \/ code # "lost"),
         code = "zero" => shell[current] = "exit0",
         code # "lost" => Complete(current, outputs, cut) /\ Own(current, outputs)
  PROVE  StepInv'
<1> USE DEF StepInv, inside
<1>1. OnTheirWay' = OnTheirWay
  BY DEF OnTheirWay, ReportInv, Complete, Own, Stale
<1> DEFINE new == [code |-> code, outputs |-> outputs, outputsTruncated |-> cut,
                   truncated |-> r.truncated, cancelled |-> r.cancelled, reason |-> r.reason,
                   timedOut |-> r.timedOut]
<1>2. /\ new \in Results /\ new # NoResult
      /\ new.code = code /\ new.outputs = outputs /\ new.cancelled = r.cancelled
      /\ new.outputsTruncated = cut
      /\ new.reason = r.reason /\ new.timedOut = r.timedOut
  <2>1. new \in Results
    BY DEF Results, RunType
  <2>2. QED
    BY <2>1, ResultIs
<1>3. current \in Step /\ result \in [Step -> Results]
  BY TaskIs DEF InFlight, TypeOK
<1>4. result' = [result EXCEPT ![current] = new] /\ run' = [r EXCEPT !.timer = FALSE]
  BY DEF Settle
<1> HIDE DEF new
<1>5. /\ result' \in [Step -> Results] /\ result'[current] = new
      /\ \A s \in Step : s # current => result'[s] = result[s]
  BY <1>2, <1>3, <1>4
<1>6. run' \in RunType /\ run'.truncated = r.truncated /\ run'.bytes = r.bytes
  BY <1>4 DEF RunType
<1>7. /\ toAgent' \in Seq(Msg) /\ OneStart(toAgent') /\ NoStart(toAgent')
      /\ agent = "dead" => toAgent' = <<>>
  BY WrittenIs, Nothing DEF Settle, Msg, StartInv, AgentInv
<1>8. TypeOK'
  <2>1. toDriver' \in Seq(Frames)
    BY MoreFrames, OnTheirWay \subseteq Frames DEF OnTheirWay
  <2>2. QED
    BY <1>5, <1>6, <1>7, <2>1 DEF TypeOK, RunType, Msg
<1>9. ResultsInv' /\ FramesInv'
  BY <1>1, <1>2, <1>3, <1>5 DEF ResultsInv, FramesInv, Step
<1>10. ~InFlight'
  BY <1>2, <1>5 DEF InFlight
<1>11. StartInv' /\ AgentInv' /\ RunInv'
  BY <1>6, <1>7, <1>10 DEF StartInv, AgentInv, RunInv
<1>12. JobInv' /\ WorkInv' /\ FileInv'
  BY <1>2, <1>5, <1>10 DEF JobInv, WorkInv, FileInv, Stale, Live
<1>13. SuccessIsReal'
  BY <1>2, <1>5 DEF SuccessIsReal
<1>14. TimeoutHonest'
  BY <1>2, <1>3, <1>5 DEF TimeoutHonest, RunInv, RunType
<1>15. OutputsExact' /\ DisposeSettlesAll'
  <2>1. ASSUME NEW s \in Step, result'[s].code \in {"zero", "nonzero"}
        PROVE  /\ Complete(s, result'[s].outputs, result'[s].outputsTruncated)
               /\ Own(s, result'[s].outputs)
    BY <1>2, <1>5, <2>1 DEF OutputsExact
  <2>2. OutputsExact'
    BY <2>1 DEF OutputsExact, Complete, Own, Stale
  <2>3. QED
    BY <1>10, <2>2 DEF DisposeSettlesAll
<1>16. QED
  BY <1>8, <1>9, <1>11, <1>12, <1>13, <1>14, <1>15

LEMMA ReceiveExitInv == StepInv /\ ReceiveExit => StepInv'
<1> SUFFICES ASSUME StepInv, ReceiveExit PROVE StepInv'
  OBVIOUS
<1> DEFINE f == Head(toDriver)
           r == [run EXCEPT !.timedOut = run.timedOut \/ f.timedOut]
<1>1. /\ DriverAlive /\ InFlight /\ toDriver # <<>> /\ f.kind = "EXIT"
      /\ UNCHANGED <<task, box, current, aborted, torn, inside>>
      /\ Settle(r, f.code, f.outputs, f.outputsTruncated)
      /\ f \in Frames /\ f.step = current
  BY Unsettled DEF ReceiveExit, Receives
<1>2. f \in OnTheirWay /\ toDriver' \in Seq(OnTheirWay)
  BY <1>1, StillOnTheWay DEF ReceiveExit, Receives
<1>3. job.finished /\ ReportInv(f)
  BY <1>1, <1>2 DEF OnTheirWay
<1>4. /\ f.code \in {"zero", "nonzero"} /\ f.timedOut \in BOOLEAN /\ f.outputs \in SUBSET Step
      /\ current \in Step /\ f.outputsTruncated \in BOOLEAN
  BY <1>1, FrameIs
<1>5. run \in RunType /\ RunInv
  BY StillOnTheWay DEF StepInv
<1> HIDE DEF f
<1>6. /\ r \in RunType /\ r.truncated = run.truncated /\ r.bytes = run.bytes
      /\ r.reason = run.reason /\ r.cancelled = run.cancelled
      /\ r.timedOut <=> (run.timedOut \/ f.timedOut)
  BY <1>4, <1>5 DEF RunType
<1> HIDE DEF r
<1>7. QED
  BY <1>1, <1>2, <1>3, <1>4, <1>5, <1>6, SettleInv DEF RunInv, ReportInv

LEMMA ReceiveLossInv == StepInv /\ ReceiveLoss => StepInv'
<1> SUFFICES ASSUME StepInv, ReceiveLoss PROVE StepInv'
  OBVIOUS
<1>1. /\ DriverAlive /\ InFlight /\ toDriver # <<>>
      /\ Head(toDriver).kind \in {"ERROR", "END", "CLOSED"} /\ Head(toDriver).step = current
      /\ UNCHANGED <<task, box, current, aborted, torn, inside>>
      /\ Settle(run, "lost", {}, FALSE)
  BY Unsettled DEF ReceiveLoss, Receives
<1>2. Head(toDriver) \in OnTheirWay /\ toDriver' \in Seq(OnTheirWay)
  BY <1>1, StillOnTheWay DEF ReceiveLoss, Receives
<1>3. job.finished \/ agent = "dead"
  BY <1>1, <1>2 DEF OnTheirWay
<1>4. run \in RunType /\ RunInv
  BY StillOnTheWay DEF StepInv
<1>5. QED
  BY <1>1, <1>2, <1>3, <1>4, SettleInv DEF RunInv

-----------------------------------------------------------------------------
(* The agent and the workload *)

\* Processes get on with it: one that runs may end, a shell that runs may leave a worker.
Ages == /\ shell' \in [Step -> {"none", "alive", "exit0", "exit1", "killed"}]
        /\ worker' \in [Step -> {"none", "alive", "dead"}]
        /\ \A s \in Step : /\ shell'[s] = shell[s] \/ (shell[s] = "alive" /\ shell'[s] # "none")
                           /\ \/ worker'[s] = worker[s]
                              \/ worker[s] = "alive" /\ worker'[s] = "dead"
                              \/ worker[s] = "none" /\ worker'[s] = "alive" /\ shell[s] = "alive"

LEMMA AgesInv ==
  ASSUME StepInv, Ages, UNCHANGED <<task, driver, torn, file, wrote, faults>>,
         agent # "dead", agent' \in {"serving", "wedged"},
         printed' \in [Step -> 0..MaxPrint], toDriver' \in Seq(OnTheirWay),
         toAgent' \in Seq(Msg), OneStart(toAgent'), NoStart(toAgent') \/ ~NoStart(toAgent),
         job' \in JobType, job'.started = job.started, job'.finished = job.finished,
         job'.timer => job.timer, job'.timedOut => job.timedOut \/ job.timer
  PROVE  StepInv'
<1> USE DEF StepInv, driver
<1>0. \A r \in Step : worker[r] # "none" => worker'[r] # "none"
  BY DEF Ages
<1>1. OnTheirWay \subseteq OnTheirWay'
  <2> SUFFICES ASSUME NEW f \in OnTheirWay PROVE f \in OnTheirWay'
    OBVIOUS
  <2>1. f \in Frames /\ f.step \in Step
    BY FrameIs DEF OnTheirWay
  <2>2. ReportInv(f)'
    BY <1>0, <2>1, ReportsKept DEF Ages
  <2>3. QED
    BY <2>1, <2>2 DEF OnTheirWay
<1>2. TypeOK'
  <2>1. toDriver' \in Seq(Frames)
    BY MoreFrames, OnTheirWay \subseteq Frames DEF OnTheirWay
  <2>2. QED
    BY <2>1 DEF TypeOK, Ages, JobType, Msg
<1>3. FramesInv'
  BY <1>1, MoreFrames DEF FramesInv
<1>4. ResultsInv'
  BY DEF ResultsInv, Ages
<1>5. InFlight' = InFlight
  BY DEF InFlight
<1>6. StartInv' /\ AgentInv'
  BY <1>5, TaskIs DEF StartInv, AgentInv, Ages, InFlight
<1>7. JobInv'
  BY <1>5 DEF JobInv, Ages, Live
<1>8. WorkInv' /\ FileInv'
  BY DEF WorkInv, FileInv, Stale, Live, Ages, TypeOK
<1>9. RunInv' /\ SuccessIsReal' /\ TimeoutHonest' /\ DisposeSettlesAll'
  BY <1>5 DEF RunInv, SuccessIsReal, TimeoutHonest, DisposeSettlesAll, Ages
<1>10. OutputsExact'
  BY <1>0, ReportsKept DEF OutputsExact
<1>11. QED
  BY <1>2, <1>3, <1>4, <1>6, <1>7, <1>8, <1>9, <1>10

\* The agent takes a frame.
LEMMA ReadsIs ==
  ASSUME StepInv, NEW m, Reads(m)
  PROVE  /\ agent = "serving" /\ UNCHANGED <<task, driver, torn, agent, printed, wrote>>
         /\ toAgent' \in Seq(Msg) /\ OneStart(toAgent')
         /\ NoStart(toAgent') \/ ~NoStart(toAgent)
         /\ m = "START" => NoStart(toAgent') /\ ~NoStart(toAgent)
BY MessageRead, StillOnTheWay DEF Reads

\* A signal to the group of a step that runs.
LEMMA GroupIs ==
  ASSUME StepInv, NEW fates \in SUBSET {"alive", "exit0", "killed"}, Group(fates)
  PROVE  Ages
<1>1. /\ shell \in [Step -> {"none", "alive", "exit0", "exit1", "killed"}]
      /\ worker \in [Step -> {"none", "alive", "dead"}]
  BY DEF StepInv, TypeOK
<1>2. QED
  BY <1>1 DEF Group, Ages

LEMMA SameProcesses == ASSUME StepInv, UNCHANGED <<shell, worker>> PROVE Ages
BY DEF StepInv, TypeOK, Ages

LEMMA PassSignalInv == StepInv /\ PassSignal => StepInv'
<1> SUFFICES ASSUME StepInv, PassSignal PROVE StepInv'
  OBVIOUS
<1>1. Ages
  BY GroupIs, SameProcesses DEF PassSignal, SigTerm
<1>2. QED
  BY <1>1, ReadsIs, StillOnTheWay, AgesInv DEF PassSignal, StepInv, TypeOK, JobType

LEMMA HangUpInv == StepInv /\ HangUp => StepInv'
<1> SUFFICES ASSUME StepInv, HangUp PROVE StepInv'
  OBVIOUS
<1>1. Ages
  BY GroupIs, SameProcesses DEF HangUp, Stop, SigTerm
<1>2. /\ job' \in JobType /\ job'.started = job.started /\ job'.finished = job.finished
      /\ job'.timer = job.timer /\ job'.timedOut = job.timedOut
  BY DEF HangUp, Stop, StepInv, TypeOK, JobType
<1>3. QED
  BY <1>1, <1>2, ReadsIs, StillOnTheWay, AgesInv DEF HangUp, StepInv, TypeOK

LEMMA AgentTimerInv == StepInv /\ AgentTimer => StepInv'
<1> SUFFICES ASSUME StepInv, AgentTimer PROVE StepInv'
  OBVIOUS
<1>1. Ages
  BY GroupIs DEF AgentTimer, Stop, SigTerm
<1>2. /\ job' \in JobType /\ job'.started = job.started /\ job'.finished = job.finished
      /\ ~job'.timer /\ job.timer
  BY DEF AgentTimer, Stop, StepInv, TypeOK, JobType
<1>3. QED
  BY <1>1, <1>2, StillOnTheWay, AgesInv DEF AgentTimer, StepInv, TypeOK

LEMMA KillTimerInv == StepInv /\ KillTimer => StepInv'
<1> SUFFICES ASSUME StepInv, KillTimer PROVE StepInv'
  OBVIOUS
<1>1. Ages
  BY GroupIs DEF KillTimer, SigKill
<1>2. /\ job' \in JobType /\ job'.started = job.started /\ job'.finished = job.finished
      /\ job'.timer = job.timer /\ job'.timedOut = job.timedOut
  BY DEF KillTimer, StepInv, TypeOK, JobType
<1>3. QED
  BY <1>1, <1>2, StillOnTheWay, AgesInv DEF KillTimer, StepInv, TypeOK

LEMMA WedgeInv == StepInv /\ Wedge => StepInv'
<1> SUFFICES ASSUME StepInv, Wedge PROVE StepInv'
  OBVIOUS
<1>1. Ages /\ job \in JobType
  BY SameProcesses DEF Wedge, StepInv, TypeOK, JobType
<1>2. QED
  BY <1>1, StillOnTheWay, AgesInv DEF Wedge, StepInv, TypeOK

\* Where the agent emits a frame.
LEMMA Emitted ==
  ASSUME StepInv, NEW T, OnTheirWay \subseteq T
  PROVE  /\ \A e \in T : Emit(<<e>>) => toDriver' \in Seq(T)
         /\ \A e, d \in T : Emit(<<e, d>>) => toDriver' \in Seq(T)
BY MoreFrames, StillOnTheWay DEF Emit

\* A shell or a worker that runs.
LEMMA Running ==
  ASSUME StepInv, NEW s \in Step
  PROVE  /\ shell[s] = "alive" => s = current /\ Live /\ agent # "dead"
         /\ worker[s] = "alive" => s <= current /\ agent # "dead"
         /\ shell[s] # "none" => s <= current
BY TaskIs DEF StepInv, JobInv, AgentInv, WorkInv, ResultsInv, Step

LEMMA ProcessStepInv ==
  ASSUME StepInv, NEW s \in Step, ShellPrints(s) \/ Fork(s) \/ ShellExits(s) \/ WorkerExits(s)
  PROVE  StepInv'
<1>1. UNCHANGED <<task, driver, torn, file, wrote, faults, toAgent, agent, job>>
  BY DEF ShellPrints, Fork, ShellExits, WorkerExits, Work
<1>2. agent \in {"serving", "wedged"} /\ job \in JobType
  BY Running DEF ShellPrints, Fork, ShellExits, WorkerExits, StepInv, TypeOK, JobType
<1>3. Ages
  BY DEF ShellPrints, Fork, ShellExits, WorkerExits, StepInv, TypeOK, Ages
<1>4. printed' \in [Step -> 0..MaxPrint]
  <2>1. printed \in [Step -> 0..MaxPrint]
    BY DEF StepInv, TypeOK
  <2>2. CASE ShellPrints(s)
    <3>1. printed' = [printed EXCEPT ![s] = printed[s] + 1] /\ printed[s] < task.prints
      BY <2>2 DEF ShellPrints
    <3>2. printed[s] + 1 \in 0..MaxPrint
      BY <2>1, <3>1, TaskIs, StepAssumption DEF StepInv
    <3>3. QED
      BY <2>1, <3>1, <3>2
  <2>3. CASE ~ShellPrints(s)
    BY <2>1, <2>3 DEF Fork, ShellExits, WorkerExits
  <2>4. QED
    BY <2>2, <2>3
<1>5. toDriver' \in Seq(OnTheirWay)
  <2>1. CASE ShellPrints(s)
    <3> DEFINE e == [kind |-> "STDOUT", step |-> s]
    <3>1. e \in Frames /\ e.kind = "STDOUT" /\ e.step = s
      BY DEF Frames
    <3>2. s <= current
      BY <2>1, TaskIs, Running DEF ShellPrints, Step, StepInv
    <3>3. e \in OnTheirWay
      BY <3>1, <3>2 DEF OnTheirWay, ReportInv
    <3>4. QED
      BY <2>1, <3>3, Emitted DEF ShellPrints
  <2>2. CASE ~ShellPrints(s)
    BY <2>2, StillOnTheWay DEF Fork, ShellExits, WorkerExits
  <2>3. QED
    BY <2>1, <2>2
<1>6. QED
  BY <1>1, <1>2, <1>3, <1>4, <1>5, StillOnTheWay, AgesInv

\* A line is written by a shell or by a worker that runs.
LEMMA WriteInv ==
  ASSUME StepInv, NEW s \in Step, WriteOutput(s) \/ WorkerWrites(s)
  PROVE  StepInv'
<1> USE DEF StepInv, driver
<1>1. /\ UNCHANGED <<task, driver, torn, toAgent, toDriver, agent, job, shell, worker, faults,
                     printed>>
      /\ s \in file' /\ file' \subseteq file \cup {s} /\ wrote \subseteq wrote' /\ wrote' \subseteq wrote \cup {s}
      /\ wrote' # wrote => shell[s] = "alive"
      /\ shell[s] = "alive" \/ worker[s] = "alive"
  BY DEF WriteOutput, WorkerWrites, Lines, Work
<1>2. /\ shell[s] = "alive" => s = current /\ Live
      /\ shell[s] # "none" /\ s <= current /\ agent # "dead"
  BY <1>1, Running DEF WorkInv
<1>3. OnTheirWay \subseteq OnTheirWay'
  <2> SUFFICES ASSUME NEW f \in OnTheirWay PROVE f \in OnTheirWay'
    OBVIOUS
  <2>1. f \in Frames /\ ReportInv(f) /\ (f.kind = "EXIT" /\ f.step = current => job.finished)
    BY DEF OnTheirWay
  <2>2. f.kind = "EXIT" => (f.step \in wrote' => f.step \in wrote)
    BY <1>1, <1>2, <2>1 DEF Live
  <2>3. ReportInv(f)'
    BY <1>1, <2>2, ReportsKept
  <2>4. QED
    BY <1>1, <2>3 DEF OnTheirWay
<1>4. TypeOK'
  BY <1>1 DEF TypeOK
<1>5. FramesInv'
  BY <1>1, <1>3, MoreFrames DEF FramesInv
<1>6. ResultsInv' /\ StartInv' /\ AgentInv' /\ RunInv'
  BY <1>1 DEF ResultsInv, StartInv, AgentInv, RunInv, InFlight
<1>7. JobInv'
  <2>1. ASSUME Live, current \in wrote'
        PROVE  current \in file' \/ \E r \in Step : r < current /\ worker[r] # "none"
    <3>1. CASE s = current
      BY <1>1, <3>1
    <3>2. CASE s # current
      BY <1>1, <1>2, <3>2, TaskIs DEF Step
    <3>3. QED
      BY <3>1, <3>2
  <2>2. QED
    BY <1>1, <2>1 DEF JobInv, Live, InFlight
<1>8. WorkInv' /\ FileInv'
  <2>1. (s = current /\ Live) \/ worker[s] # "none"
    BY <1>1, <1>2
  <2>2. QED
    BY <1>1, <1>2, <2>1 DEF WorkInv, FileInv, Stale, Live
<1>9. SuccessIsReal' /\ TimeoutHonest' /\ DisposeSettlesAll'
  BY <1>1 DEF SuccessIsReal, TimeoutHonest, DisposeSettlesAll, InFlight
<1>10. OutputsExact'
  <2>1. ASSUME NEW u \in Step, result[u].code \in {"zero", "nonzero"}, u \in wrote'
        PROVE  u \in wrote
    <3>1. result[u] # NoResult
      BY <2>1, ResultIs DEF TypeOK
    <3>2. CASE shell[u] = "alive"
      <4>1. u = current /\ Live
        BY <3>2, Running
      <4>2. QED
        BY <2>1, <4>1 DEF JobInv, Live
    <3>3. CASE shell[u] # "alive"
      BY <1>1, <2>1, <3>3
    <3>4. QED
      BY <3>2, <3>3
  <2>2. QED
    BY <1>1, <2>1, ReportsKept DEF OutputsExact
<1>11. QED
  BY <1>4, <1>5, <1>6, <1>7, <1>8, <1>9, <1>10

LEMMA WorkloadInv ==
  ASSUME StepInv, NEW s \in Step, Workload(s) PROVE StepInv'
BY ProcessStepInv, WriteInv DEF Workload

\* A step begins: the output file is empty.
LEMMA SpawnInv == StepInv /\ Spawn => StepInv'
<1> SUFFICES ASSUME StepInv, Spawn PROVE StepInv'
  OBVIOUS
<1> USE DEF StepInv, driver
<1>1. /\ agent = "serving" /\ UNCHANGED <<task, driver, torn, agent, printed, wrote, toDriver, worker>>
      /\ toAgent' \in Seq(Msg) /\ OneStart(toAgent') /\ NoStart(toAgent')
      /\ current # 0 /\ (InFlight \/ box = "disposed")
      /\ ~job.started /\ ~job.finished /\ shell[current] = "none"
      /\ Prepare /\ shell' = [shell EXCEPT ![current] = "alive"]
      /\ job' = [job EXCEPT !.started = TRUE, !.timer = task.timeout[current]]
  BY ReadsIs DEF Spawn, StartInv
<1>2. current \in Step /\ task.timeout[current] \in BOOLEAN
  BY <1>1, TaskIs
<1>3. job' \in JobType /\ job'.started /\ ~job'.finished /\ (job'.timer => task.timeout[current])
      /\ job'.timedOut = job.timedOut
  BY <1>1, <1>2 DEF TypeOK, JobType
<1>4. /\ shell' \in [Step -> {"none", "alive", "exit0", "exit1", "killed"}]
      /\ shell'[current] = "alive"
      /\ \A s \in Step : s # current => shell'[s] = shell[s] /\ shell[s] # "alive"
  BY <1>1, <1>2 DEF TypeOK, JobInv, Live
<1>5. /\ OnTheirWay \subseteq OnTheirWay'
      /\ faults \subseteq faults' /\ faults' \subseteq faults \cup {<<"prepare", current>>}
      /\ file' = {} \/ (file' = file /\ <<"prepare", current>> \in faults')
  <2>1. /\ faults \subseteq faults' /\ faults' \subseteq faults \cup {<<"prepare", current>>}
        /\ file' = {} \/ (file' = file /\ <<"prepare", current>> \in faults')
    BY <1>1 DEF Prepare
  <2>2. ASSUME NEW f \in OnTheirWay PROVE f \in OnTheirWay'
    <3>1. /\ f \in Frames /\ f.step \in Step
          /\ f.kind \in {"EXIT", "ERROR", "END"} => f.step # current
      BY <1>1, FrameIs DEF OnTheirWay
    <3>2. ReportInv(f)'
      BY <1>1, <1>4, <2>1, <3>1, ReportsKept
    <3>3. QED
      BY <1>1, <3>1, <3>2 DEF OnTheirWay
  <2>3. QED
    BY <2>1, <2>2
<1>6. TypeOK'
  <2>1. file' \in SUBSET Step /\ faults' \in SUBSET Accesses
    <3>1. <<"prepare", current>> \in Accesses
      BY <1>2, AccessIs
    <3>2. file \in SUBSET Step /\ faults \in SUBSET Accesses
      BY DEF TypeOK
    <3>3. QED
      BY <1>5, <3>1, <3>2
  <2>2. QED
    BY <1>1, <1>3, <1>4, <2>1 DEF TypeOK, JobType, Msg
<1>7. FramesInv'
  BY <1>1, <1>5, MoreFrames DEF FramesInv
<1>8. ResultsInv'
  BY <1>1, <1>2, <1>4, TaskIs DEF ResultsInv, Step
<1>10. StartInv' /\ AgentInv' /\ RunInv' /\ DisposeSettlesAll'
  BY <1>1 DEF StartInv, AgentInv, RunInv, InFlight, DisposeSettlesAll
<1>11. /\ current \notin wrote /\ current \notin file
       /\ \A s \in Step : worker[s] # "none" \/ s \in wrote => s # current
  BY <1>1, <1>2 DEF WorkInv
<1>12. JobInv'
  BY <1>1, <1>2, <1>3, <1>4, <1>11 DEF JobInv, Live, InFlight
<1>13. WorkInv' /\ FileInv'
  <2>1. file' \subseteq file /\ current \in Nat /\ Step \subseteq Nat
    BY <1>2, <1>5 DEF Step
  <2>2. ASSUME NEW m \in Step, <<"empty", m>> \in faults' PROVE <<"empty", m>> \in faults /\ m < current
    BY <1>1, <1>5, <2>2 DEF FileInv
  <2>3. ASSUME NEW r \in file' PROVE worker[r] # "none" \/ Stale(r, current)'
    <3>1. r \in file /\ r \in Step /\ <<"prepare", current>> \in faults'
      BY <1>5, <2>1, <2>3 DEF TypeOK
    <3>2. CASE \E m \in r..current : <<"empty", m>> \in faults
      <4>1. PICK m \in r..current : <<"empty", m>> \in faults
        BY <3>2
      <4>2. m \in Step /\ r \in Nat /\ m \in Nat /\ r <= m
        BY <1>2, <3>1, <4>1, StepAssumption DEF Step
      <4>3. m < current /\ <<"empty", m>> \in faults'
        BY <1>5, <2>2, <4>1, <4>2
      <4>4. m \in r..(current - 1)
        BY <2>1, <4>2, <4>3
      <4>5. current' = current
        BY <1>1
      <4>6. QED
        BY <3>1, <4>3, <4>4, <4>5 DEF Stale
    <3>3. QED
      BY <1>1, <3>1, <3>2 DEF FileInv, Live
  <2>4. ASSUME NEW r \in file', Stale(r, current)'
        PROVE  \E m \in r..current : <<"empty", m>> \in faults'
    <3>1. r \in Nat /\ current' = current
      BY <1>1, <2>1, <2>4 DEF TypeOK
    <3>2. PICK m \in r..(current - 1) : <<"empty", m>> \in faults'
      BY <2>4, <3>1 DEF Stale
    <3>3. m \in r..current
      BY <2>1, <3>1, <3>2
    <3>4. QED
      BY <3>2, <3>3
  <2>5. WorkInv'
    BY <1>1, <1>4, <1>11, <2>1, <2>3 DEF WorkInv
  <2>6. QED
    BY <1>1, <2>2, <2>3, <2>4, <2>5 DEF FileInv
<1>14. SuccessIsReal'
  <2>1. result[current].code # "zero"
    BY <1>1, <1>2 DEF SuccessIsReal
  <2>2. QED
    BY <1>1, <1>4, <2>1 DEF SuccessIsReal
<1>15. TimeoutHonest' /\ OutputsExact'
  BY <1>1, <1>5, ReportsKept DEF TimeoutHonest, OutputsExact
<1>16. QED
  BY <1>6, <1>7, <1>8, <1>10, <1>12, <1>13, <1>14, <1>15

\* Any step that ends the agent, alone or with the whole sandbox: what was written and
\* reported stays.
Ends == /\ agent' = "dead" /\ toAgent' = <<>>
        /\ shell' = [s \in Step |-> IF shell[s] = "alive" THEN "killed" ELSE shell[s]]
        /\ worker' = [s \in Step |-> IF worker[s] = "alive" THEN "dead" ELSE worker[s]]
        /\ UNCHANGED <<task, current, aborted, torn, job, file, wrote, faults, printed>>

LEMMA EndsIs ==
  ASSUME StepInv, Ends
  PROVE  /\ OnTheirWay \subseteq OnTheirWay'
         /\ \A s \in Step : /\ shell'[s] # "alive" /\ worker'[s] # "alive"
                            /\ shell'[s] = "exit0" <=> shell[s] = "exit0"
                            /\ shell'[s] = "none" <=> shell[s] = "none"
                            /\ worker'[s] = "none" <=> worker[s] = "none"
         /\ shell' \in [Step -> {"none", "alive", "exit0", "exit1", "killed"}]
         /\ worker' \in [Step -> {"none", "alive", "dead"}]
         /\ WorkInv' /\ FileInv'
<1>1. /\ \A s \in Step : /\ shell'[s] # "alive" /\ worker'[s] # "alive"
                         /\ shell'[s] = "exit0" <=> shell[s] = "exit0"
                         /\ shell'[s] = "none" <=> shell[s] = "none"
                         /\ worker'[s] = "none" <=> worker[s] = "none"
      /\ shell' \in [Step -> {"none", "alive", "exit0", "exit1", "killed"}]
      /\ worker' \in [Step -> {"none", "alive", "dead"}]
  BY DEF Ends, StepInv, TypeOK
<1>2. ASSUME NEW f \in OnTheirWay PROVE f \in OnTheirWay'
  <2>1. f \in Frames /\ f.step \in Step
    BY FrameIs DEF OnTheirWay
  <2>2. ReportInv(f)'
    BY <1>1, <2>1, ReportsKept DEF Ends
  <2>3. QED
    BY <2>1, <2>2 DEF OnTheirWay, Ends
<1>3. file \in SUBSET Step
  BY DEF StepInv, TypeOK
<1>4. WorkInv' /\ FileInv'
  BY <1>1, <1>3 DEF WorkInv, FileInv, Stale, Ends, StepInv
<1>5. QED
  BY <1>1, <1>2, <1>4

LEMMA AgentDiesInv == StepInv /\ AgentDies => StepInv'
<1> SUFFICES ASSUME StepInv, AgentDies PROVE StepInv'
  OBVIOUS
<1> USE DEF StepInv
<1>1. Ends /\ UNCHANGED <<task, box, current, run, result, aborted, torn>>
  BY DEF AgentDies, Ends, Killed, driver
<1>2. agent # "dead"
  BY DEF AgentDies
<1>3. toDriver' \in Seq(OnTheirWay')
  <2>1. CASE current = 0 \/ ~DriverAlive
    <3>1. toDriver' = <<>>
      BY <2>1 DEF AgentDies
    <3>2. QED
      BY <3>1
  <2>2. CASE current # 0 /\ DriverAlive
    <3> DEFINE e == [kind |-> "CLOSED", step |-> current]
    <3>1. e \in Frames /\ e.kind = "CLOSED" /\ e.step = current
      BY <2>2, TaskIs DEF Frames
    <3>2. e \in OnTheirWay'
      BY <1>1, <3>1, TaskIs DEF OnTheirWay, ReportInv, Ends
    <3>3. PICK n \in 0..Len(toDriver) : toDriver' = Append(SubSeq(toDriver, 1, n), e)
      BY <2>2 DEF AgentDies
    <3>4. SubSeq(toDriver, 1, n) \in Seq(OnTheirWay)
      BY FewerFrames, StillOnTheWay
    <3>5. QED
      BY <1>1, <3>2, <3>3, <3>4, EndsIs, MoreFrames
  <2>3. QED
    BY <2>1, <2>2
<1>4. TypeOK'
  <2>1. toDriver' \in Seq(Frames)
    BY <1>3, MoreFrames, OnTheirWay' \subseteq Frames DEF OnTheirWay
  <2>2. QED
    BY <1>1, <2>1, EndsIs DEF TypeOK, Ends
<1>5. ResultsInv' /\ FramesInv'
  BY <1>1, <1>3, EndsIs DEF ResultsInv, FramesInv
<1>6. StartInv' /\ AgentInv'
  BY <1>1, <1>2, EndsIs, Nothing DEF StartInv, AgentInv, Ends
<1>7. JobInv' /\ WorkInv' /\ FileInv'
  BY <1>1, EndsIs DEF JobInv, Ends, Live, InFlight
<1>8. RunInv' /\ SuccessIsReal' /\ TimeoutHonest' /\ DisposeSettlesAll'
  BY <1>1, <1>2, EndsIs
  DEF RunInv, InFlight, SuccessIsReal, TimeoutHonest, DisposeSettlesAll, AgentInv
<1>9. OutputsExact'
  BY <1>1, EndsIs, ReportsKept DEF OutputsExact, Ends
<1>10. QED
  BY <1>4, <1>5, <1>6, <1>7, <1>8, <1>9

LEMMA CloseInv == StepInv /\ Close => StepInv'
<1> SUFFICES ASSUME StepInv, Close PROVE StepInv'
  OBVIOUS
<1> USE DEF StepInv
<1>1. /\ UNCHANGED <<task, current, aborted, job, file, wrote, faults, printed>>
      /\ toDriver' = <<>> /\ box' = "disposed" /\ run' = [run EXCEPT !.timer = FALSE]
  BY DEF Close, Closed, Killed, inside
<1>16. /\ WorkInv' /\ FileInv' /\ AgentInv' /\ torn' \in BOOLEAN
       /\ toAgent' \in Seq(Msg) /\ OneStart(toAgent')
       /\ NoStart(toAgent') \/ (~NoStart(toAgent) /\ UNCHANGED shell)
       /\ agent' \in {agent, "dead"} /\ (agent = "dead" => agent' = "dead")
       /\ shell' \in [Step -> {"none", "alive", "exit0", "exit1", "killed"}]
       /\ worker' \in [Step -> {"none", "alive", "dead"}]
       /\ \A s \in Step : /\ (shell'[s] = "alive") => (shell[s] = "alive")
                          /\ (shell'[s] = "exit0") <=> (shell[s] = "exit0")
                          /\ (shell'[s] = "none") <=> (shell[s] = "none")
                          /\ (worker'[s] = "none") <=> (worker[s] = "none")
  <2>1. CASE Killed /\ toAgent' = <<>> /\ UNCHANGED torn
    <3>1. Ends
      BY <1>1, <2>1 DEF Ends, Killed
    <3>2. agent' = "dead" /\ toAgent' = <<>> /\ torn' \in BOOLEAN
      BY <2>1, <3>1 DEF Ends, TypeOK
    <3>3. AgentInv'
      BY <3>1, <3>2, EndsIs DEF AgentInv, Ends
    <3>4. QED
      BY <3>1, <3>2, <3>3, EndsIs, Nothing
  <2>2. CASE agent # "dead" /\ HangsUp /\ UNCHANGED inside
    <3>1. WorkInv' /\ FileInv' /\ AgentInv'
      BY <1>1, <2>2 DEF WorkInv, FileInv, Stale, AgentInv, Live, inside
    <3>2. UNCHANGED <<agent, shell, worker>>
      BY <2>2 DEF inside
    <3>3. /\ shell \in [Step -> {"none", "alive", "exit0", "exit1", "killed"}]
          /\ worker \in [Step -> {"none", "alive", "dead"}]
      BY DEF TypeOK
    <3>4. QED
      BY <2>2, <3>1, <3>2, <3>3, HangsUpIs
  <2>3. QED
    BY <2>1, <2>2 DEF Close, Closed
<1> DEFINE new == [code |-> "lost", outputs |-> {}, outputsTruncated |-> FALSE,
                   truncated |-> run.truncated, cancelled |-> TRUE,
                   reason |-> Cancelled(run, "disposed").reason,
                   timedOut |-> run.timedOut]
<1>2. run \in RunType /\ RunInv
  BY StillOnTheWay
<1>3. /\ new \in Results /\ new # NoResult /\ new.code = "lost"
      /\ new.cancelled /\ new.timedOut = run.timedOut
      /\ InFlight => new.reason # "none" /\ (new.reason = "timeout" <=> run.timedOut)
  <2>1. Cancelled(run, "disposed").reason = IF run.cancelled THEN run.reason ELSE "disposed"
    BY <1>2 DEF Cancelled, RunType
  <2>2. new \in Results
    BY <1>2, <2>1 DEF Results, RunType, Reason
  <2>3. new # NoResult
    BY <2>2, ResultIs
  <2>4. \/ run.cancelled /\ new.reason = run.reason
        \/ ~run.cancelled /\ new.reason = "disposed"
    BY <1>2, <2>1 DEF RunType
  <2>5. InFlight => /\ run.timedOut <=> run.reason = "timeout"
                    /\ run.cancelled <=> run.reason # "none"
    BY <1>2 DEF RunInv
  <2>6. InFlight => new.reason # "none"
    BY <2>4, <2>5
  <2>7. QED
    BY <2>2, <2>3, <2>4, <2>5, <2>6
<1>4. result' = IF InFlight THEN [result EXCEPT ![current] = new] ELSE result
  BY DEF Close
<1> HIDE DEF new
<1>5. /\ result' \in [Step -> Results]
      /\ InFlight => current \in Step /\ result'[current] = new
      /\ \A s \in Step : result'[s] = result[s] \/ (s = current /\ InFlight /\ result'[s] = new)
  <2>1. result \in [Step -> Results]
    BY DEF TypeOK
  <2>2. CASE InFlight
    <3>1. current \in Step
      BY <2>2, TaskIs DEF InFlight
    <3>2. QED
      BY <1>3, <1>4, <2>1, <2>2, <3>1
  <2>3. CASE ~InFlight
    BY <1>4, <2>1, <2>3
  <2>4. QED
    BY <2>2, <2>3
<1>6. run' \in RunType /\ run'.truncated = run.truncated /\ run'.bytes = run.bytes
  BY <1>1, <1>2 DEF RunType
<1>7. ~InFlight'
  <2>1. CASE current = 0
    BY <1>1, <2>1 DEF InFlight
  <2>2. CASE current # 0
    <3>1. current \in Step /\ (result'[current] = new \/ result[current] # NoResult)
      BY <1>5, <2>2, TaskIs DEF InFlight
    <3>2. result'[current] # NoResult
      BY <1>3, <1>5, <3>1
    <3>3. QED
      BY <1>1, <3>2 DEF InFlight
  <2>3. QED
    BY <2>1, <2>2
<1>8. TypeOK'
  BY <1>1, <1>5, <1>6, <1>16 DEF TypeOK, RunType, Msg
<1>9. ResultsInv' /\ FramesInv'
  <2>1. \A s \in Step : /\ result[s] # NoResult => result'[s] # NoResult
                        /\ s # current => result'[s] = result[s]
                        /\ shell[s] = "none" => shell'[s] = "none"
    BY <1>3, <1>5, <1>16
  <2>2. \A s \in Step : s > current => s # current
    BY TaskIs DEF Step
  <2>3. ResultsInv'
    BY <1>1, <2>1, <2>2 DEF ResultsInv
  <2>4. QED
    BY <1>1, <2>3 DEF FramesInv
<1>10. StartInv' /\ RunInv' /\ DisposeSettlesAll'
  BY <1>1, <1>2, <1>6, <1>7, <1>16 DEF StartInv, RunInv, DisposeSettlesAll
<1>11. JobInv'
  <2>1. current # 0 /\ result'[current].code \in {"zero", "nonzero"}
          => result[current].code \in {"zero", "nonzero"}
    BY <1>3, <1>5, TaskIs
  <2>2. \A s \in Step : /\ shell'[s] = "alive" => shell[s] = "alive"
                        /\ worker[s] # "none" => worker'[s] # "none"
    BY <1>16
  <2>3. QED
    BY <1>1, <2>1, <2>2 DEF JobInv, Live
<1>12. SuccessIsReal'
  <2>1. \A s \in Step : result'[s].code = "zero" => result[s].code = "zero"
    BY <1>3, <1>5
  <2>2. QED
    BY <1>16, <2>1 DEF SuccessIsReal
<1>13. TimeoutHonest'
  <2> SUFFICES ASSUME NEW s \in Step, result'[s] # NoResult
               PROVE  /\ result'[s].timedOut => task.timeout[s] /\ (result'[s].reason = "timeout" \/ result'[s].code # "lost")
                      /\ result'[s].reason = "timeout" => result'[s].timedOut
                      /\ result'[s].cancelled <=> result'[s].reason # "none"
    BY <1>1 DEF TimeoutHonest
  <2>1. CASE s = current /\ InFlight /\ result'[s] = new
    BY <1>2, <1>3, <2>1 DEF RunInv
  <2>2. CASE result'[s] = result[s]
    BY <2>2 DEF TimeoutHonest
  <2>3. QED
    BY <1>5, <2>1, <2>2
<1>14. OutputsExact'
  <2>1. \A s \in Step : result'[s] = result[s] \/ result'[s].code \notin {"zero", "nonzero"}
    BY <1>3, <1>5
  <2>2. faults \subseteq faults' /\ wrote' = wrote
    BY <1>1
  <2>3. \A r \in Step : worker[r] # "none" => worker'[r] # "none"
    BY <1>16
  <2>4. QED
    BY <2>1, <2>2, <2>3, ReportsKept DEF OutputsExact
<1>15. QED
  BY <1>8, <1>9, <1>10, <1>11, <1>12, <1>13, <1>14, <1>16

\* _fail: the step never runs.
LEMMA RefuseStartInv == StepInv /\ RefuseStart => StepInv'
<1> SUFFICES ASSUME StepInv, RefuseStart PROVE StepInv'
  OBVIOUS
<1> USE DEF StepInv, driver
<1>1. /\ agent = "serving" /\ UNCHANGED <<task, driver, torn, agent, printed, wrote, shell, worker>>
      /\ toAgent' \in Seq(Msg) /\ OneStart(toAgent') /\ NoStart(toAgent')
      /\ current # 0 /\ (InFlight \/ box = "disposed")
      /\ ~job.started /\ ~job.finished /\ shell[current] = "none"
      /\ Prepare /\ job' = [job EXCEPT !.finished = TRUE]
  BY ReadsIs DEF RefuseStart, StartInv
<1>12. /\ faults \subseteq faults' /\ faults' \subseteq faults \cup {<<"prepare", current>>}
       /\ file' \subseteq file
  BY <1>1 DEF Prepare
<1>2. /\ job' \in JobType /\ job'.finished /\ ~job'.started
      /\ job'.timer = job.timer /\ job'.timedOut = job.timedOut
  BY <1>1 DEF TypeOK, JobType
<1>3. current \in Step
  BY <1>1, TaskIs
<1>4. OnTheirWay \subseteq OnTheirWay'
  <2> SUFFICES ASSUME NEW f \in OnTheirWay PROVE f \in OnTheirWay'
    OBVIOUS
  <2>1. ReportInv(f)'
    BY <1>1, <1>12, ReportsKept
  <2>2. QED
    BY <1>1, <1>2, <2>1 DEF OnTheirWay
<1>5. toDriver' \in Seq(OnTheirWay')
  <2> DEFINE e == [kind |-> "ERROR", step |-> current]
             d == [kind |-> "END", step |-> current]
  <2>1. /\ e \in Frames /\ e.kind = "ERROR" /\ e.step = current
        /\ d \in Frames /\ d.kind = "END" /\ d.step = current
    BY <1>3 DEF Frames
  <2>2. {e, d} \subseteq OnTheirWay'
    BY <1>1, <1>2, <2>1, TaskIs DEF OnTheirWay, ReportInv
  <2>3. Emit(<<e, d>>)
    BY DEF RefuseStart
  <2> HIDE DEF e, d
  <2>4. QED
    BY <1>4, <2>2, <2>3, Emitted
<1>6. TypeOK'
  <2>1. toDriver' \in Seq(Frames)
    BY <1>5, MoreFrames, OnTheirWay' \subseteq Frames DEF OnTheirWay
  <2>2. file' \in SUBSET Step /\ faults' \in SUBSET Accesses
    BY <1>3, <1>12, AccessIs DEF TypeOK
  <2>3. QED
    BY <1>1, <1>2, <2>1, <2>2 DEF TypeOK, JobType, Msg
<1>7. ResultsInv' /\ FramesInv'
  BY <1>1, <1>5 DEF ResultsInv, FramesInv
<1>8. StartInv' /\ AgentInv' /\ RunInv' /\ DisposeSettlesAll'
  BY <1>1 DEF StartInv, AgentInv, RunInv, InFlight, DisposeSettlesAll
<1>9. JobInv' /\ WorkInv' /\ FileInv'
  BY <1>1, <1>2, <1>12 DEF JobInv, WorkInv, FileInv, Live, InFlight
<1>10. SuccessIsReal' /\ TimeoutHonest' /\ OutputsExact'
  BY <1>1, <1>12, ReportsKept DEF SuccessIsReal, TimeoutHonest, OutputsExact
<1>11. QED
  BY <1>6, <1>7, <1>8, <1>9, <1>10

\* _exit: what is reported is so.
LEMMA ReportExitInv == StepInv /\ ReportExit => StepInv'
<1> SUFFICES ASSUME StepInv, ReportExit PROVE StepInv'
  OBVIOUS
<1> USE DEF StepInv, driver
<1>0. PICK read \in SUBSET file, cut \in BOOLEAN :
        /\ Drain(read, cut)
        /\ Emit(<<[kind |-> "EXIT", step |-> current, code |-> ExitCode(shell[current]),
                   timedOut |-> job.timedOut, outputs |-> read, outputsTruncated |-> cut],
                  [kind |-> "END", step |-> current]>>)
  BY DEF ReportExit
<1>1. /\ agent = "serving" /\ Live /\ shell[current] \in {"exit0", "exit1", "killed"}
      /\ UNCHANGED <<task, driver, torn, agent, toAgent, printed, wrote, shell, worker>>
      /\ job' = [job EXCEPT !.finished = TRUE, !.timer = FALSE, !.killTimer = FALSE]
  BY DEF ReportExit
<1>13. /\ faults \subseteq faults'
       /\ faults' \subseteq faults \cup {<<"read", current>>, <<"empty", current>>}
       /\ file' = {} \/ (file' = file /\ <<"empty", current>> \in faults')
       /\ read = file \/ cut \/ <<"read", current>> \in faults'
  <2>1. PICK failed \in SUBSET {"read", "empty"} :
          /\ \/ "read" \in failed /\ read = {} /\ ~cut
             \/ "read" \notin failed /\ read = file /\ ~cut
             \/ "read" \notin failed /\ read \subseteq file /\ file # {} /\ cut
          /\ file' = IF "empty" \in failed THEN file ELSE {}
          /\ faults' = faults \cup {<<access, current>> : access \in failed}
    <3>1. task.fails \ {"prepare"} \subseteq {"read", "empty"}
      BY TaskIs
    <3>2. QED
      BY <1>0, <3>1 DEF Drain
  <2>2. QED
    BY <2>1
<1>2. /\ job' \in JobType /\ job'.finished /\ ~job'.timer /\ job'.started
      /\ job'.timedOut = job.timedOut
  BY <1>1 DEF TypeOK, JobType, Live
<1>3. current \in Step /\ file \in SUBSET Step /\ job.timedOut \in BOOLEAN
  BY <1>1, TaskIs DEF JobInv, Live, TypeOK
<1>4. OnTheirWay \subseteq OnTheirWay'
  <2> SUFFICES ASSUME NEW f \in OnTheirWay PROVE f \in OnTheirWay'
    OBVIOUS
  <2>1. ReportInv(f)'
    BY <1>1, <1>13, ReportsKept
  <2>2. QED
    BY <1>1, <1>2, <2>1 DEF OnTheirWay
<1>5. toDriver' \in Seq(OnTheirWay')
  <2>0. PICK e, d :
          /\ e = [kind |-> "EXIT", step |-> current, code |-> ExitCode(shell[current]),
                  timedOut |-> job.timedOut, outputs |-> read, outputsTruncated |-> cut]
          /\ d = [kind |-> "END", step |-> current]
    OBVIOUS
  <2>1. ExitCode(shell[current]) \in {"zero", "nonzero"}
    BY DEF ExitCode
  <2>2. /\ e \in Frames /\ e.kind = "EXIT" /\ e.step = current /\ e.timedOut = job.timedOut
        /\ e.code = ExitCode(shell[current]) /\ e.outputs = read
        /\ e.outputsTruncated = cut
        /\ d \in Frames /\ d.kind = "END" /\ d.step = current
    BY <1>3, <2>0, <2>1 DEF Frames
  <2>3. Emit(<<e, d>>)
    BY <1>0, <2>0
  <2>4. e.code = "zero" => shell[e.step] = "exit0"
    BY <2>2 DEF ExitCode
  <2>5. e.timedOut => task.timeout[e.step]
    BY <2>2 DEF JobInv
  <2>6. Complete(e.step, e.outputs, e.outputsTruncated)'
    <3>1. current \in wrote => current \in file \/ \E r \in Step : r < current /\ worker[r] # "none"
      BY <1>1 DEF JobInv
    <3>2. QED
      BY <1>1, <1>13, <2>2, <3>1 DEF Complete
  <2>7. Own(e.step, e.outputs)'
    <3> SUFFICES ASSUME NEW r \in file, r # current
                 PROVE  r < current /\ (worker[r] # "none" \/ Stale(r, current)')
      BY <1>1, <2>2 DEF Own
    <3>1. r \in Step /\ shell[r] # "none" /\ (worker[r] # "none" \/ Stale(r, current))
      BY <1>1, <1>3 DEF WorkInv, Live
    <3>2. Stale(r, current) => Stale(r, current)'
      BY <1>1, <1>13 DEF Stale
    <3>3. QED
      BY <3>1, <3>2, Running, TaskIs DEF Step
  <2>8. e \in OnTheirWay'
    BY <1>1, <1>2, <2>2, <2>4, <2>5, <2>6, <2>7, TaskIs DEF OnTheirWay, ReportInv
  <2>9. d \in OnTheirWay'
    BY <1>1, <1>2, <2>2, TaskIs DEF OnTheirWay, ReportInv
  <2>10. QED
    BY <1>4, <2>3, <2>8, <2>9, Emitted
<1>6. TypeOK'
  <2>1. toDriver' \in Seq(Frames)
    BY <1>5, MoreFrames, OnTheirWay' \subseteq Frames DEF OnTheirWay
  <2>2. file' \in SUBSET Step /\ faults' \in SUBSET Accesses
    <3>1. <<"read", current>> \in Accesses /\ <<"empty", current>> \in Accesses
      BY <1>3, AccessIs
    <3>2. file \in SUBSET Step /\ faults \in SUBSET Accesses
      BY DEF TypeOK
    <3>3. QED
      BY <1>13, <3>1, <3>2
  <2>3. QED
    BY <1>1, <1>2, <2>1, <2>2 DEF TypeOK, JobType, Msg
<1>7. ResultsInv' /\ FramesInv'
  BY <1>1, <1>5 DEF ResultsInv, FramesInv
<1>8. NoStart(toAgent')
  BY <1>1 DEF StartInv, Live
<1>9. StartInv' /\ AgentInv' /\ RunInv' /\ DisposeSettlesAll'
  BY <1>1, <1>8 DEF StartInv, AgentInv, RunInv, InFlight, DisposeSettlesAll
<1>10. JobInv' /\ WorkInv' /\ FileInv'
  <2>1. JobInv'
    BY <1>1, <1>2 DEF JobInv, Live, InFlight
  <2>2. ASSUME NEW r \in file' PROVE r \in file /\ r \in Step /\ r \in Nat /\ r <= current
    <3>1. r \in file /\ r \in Step
      BY <1>3, <1>13, <2>2
    <3>2. shell[r] # "none" /\ r \in Nat
      BY <3>1 DEF WorkInv, Step
    <3>3. QED
      BY <3>1, <3>2, Running, TaskIs
  <2>3. WorkInv'
    BY <1>1, <1>2, <1>13, <2>2 DEF WorkInv, Stale, Live
  <2>4. ASSUME NEW r \in file' PROVE \E m \in r..current : <<"empty", m>> \in faults'
    BY <1>3, <1>13, <2>2, <2>4, TaskIs
  <2>5. ASSUME NEW m \in Step, <<"empty", m>> \in faults' PROVE m <= current
    BY <1>3, <1>13, <2>5, TaskIs DEF FileInv, Step
  <2>6. QED
    BY <1>1, <1>2, <1>3, <2>1, <2>3, <2>4, <2>5, TaskIs DEF FileInv, Step
<1>11. SuccessIsReal' /\ TimeoutHonest' /\ OutputsExact'
  BY <1>1, <1>13, ReportsKept DEF SuccessIsReal, TimeoutHonest, OutputsExact
<1>12. QED
  BY <1>6, <1>7, <1>9, <1>10, <1>11

LEMMA ArmedRun ==
  ASSUME NEW armed \in BOOLEAN, NEW new, new = [NewRun EXCEPT !.timer = armed]
  PROVE  /\ new \in RunType /\ new.timer = armed /\ new.bytes = 0
         /\ new.reason = "none" /\ ~new.cancelled /\ ~new.timedOut
<1>1. 0 \in 0..(LogLimit + 1) /\ "none" \in Reason
  BY StepAssumption DEF Reason
<1>2. /\ NewRun \in RunType /\ NewRun.bytes = 0 /\ NewRun.reason = "none"
      /\ ~NewRun.cancelled /\ ~NewRun.timedOut
  BY <1>1 DEF NewRun, RunType
<1>3. QED
  BY <1>2 DEF RunType

\* exec: the frames of the step before are of a step that is over.
LEMMA ExecInv == StepInv /\ Exec => StepInv'
<1> SUFFICES ASSUME StepInv, Exec PROVE StepInv'
  OBVIOUS
<1> USE DEF StepInv
<1>1. /\ box = "ready" /\ current < task.steps /\ ~InFlight /\ current' = current + 1
      /\ UNCHANGED <<task, box, result, aborted, torn, agent, shell, worker, file, wrote, faults,
                     printed>>
      /\ job' = NewJob
  BY DEF Exec
<1>2. current \in Nat /\ current' \in Step /\ current' <= task.steps /\ task.steps \in Nat
  BY <1>1, TaskIs, StepAssumption DEF Step
<1>3. /\ ~job'.started /\ ~job'.finished /\ ~job'.timer /\ ~job'.timedOut /\ job' \in JobType
  BY <1>1 DEF NewJob, JobType
<1>4. result[current'] = NoResult /\ shell[current'] = "none" /\ InFlight'
  BY <1>1, <1>2 DEF ResultsInv, InFlight
<1>5. NoStart(toAgent) /\ toAgent \in Seq(Msg)
  BY <1>1 DEF StartInv, TypeOK, Msg
<1>6. /\ toAgent' \in Seq(Msg) /\ OneStart(toAgent')
      /\ agent = "dead" => toAgent' = <<>> /\ NoStart(toAgent')
  BY <1>5, NewStart, Nothing DEF Exec, Written
<1> DEFINE new == [NewRun EXCEPT !.timer = task.timeout[current']]
<1>7. /\ new \in RunType /\ new.timer = task.timeout[current'] /\ new.bytes = 0
      /\ new.reason = "none" /\ ~new.cancelled /\ ~new.timedOut
  <2>1. task.timeout[current'] \in BOOLEAN
    BY <1>2, TaskIs
  <2>2. QED
    BY <2>1, ArmedRun
<1>8. run' = Cancelled(new, "user") \/ run' = new
  BY DEF Exec
<1> HIDE DEF new
<1>9. /\ run' \in RunType /\ run'.timer = task.timeout[current'] /\ run'.bytes = 0
      /\ ~run'.timedOut /\ run'.reason \in {"none", "user"}
      /\ run'.cancelled <=> run'.reason # "none"
  BY <1>7, <1>8 DEF Cancelled, RunType, Reason
<1>10. \A s \in Step : shell[s] # "alive"
  BY <1>1, Running DEF JobInv, Live
<1>11. OnTheirWay \subseteq OnTheirWay'
  <2> SUFFICES ASSUME NEW f \in OnTheirWay PROVE f \in OnTheirWay'
    OBVIOUS
  <2>1. f \in Frames /\ f.step \in Step /\ ReportInv(f) /\ f.step <= current
    BY FrameIs DEF OnTheirWay
  <2>2. f.step <= current' /\ f.step # current'
    BY <1>1, <1>2, <2>1 DEF Step
  <2>3. QED
    BY <1>1, <2>1, <2>2, ReportsKept DEF OnTheirWay
<1>12. toDriver' \in Seq(OnTheirWay')
  <2>1. CASE agent = "dead"
    <3> DEFINE e == [kind |-> "CLOSED", step |-> current']
    <3>1. e \in Frames /\ e.kind = "CLOSED" /\ e.step = current'
      BY <1>2 DEF Frames
    <3>2. e \in OnTheirWay' /\ toDriver' = <<e>>
      BY <1>1, <1>2, <2>1, <3>1 DEF OnTheirWay, ReportInv, Exec
    <3>3. QED
      BY <3>2
  <2>2. CASE agent # "dead"
    BY <1>11, <2>2, MoreFrames, StillOnTheWay DEF Exec
  <2>3. QED
    BY <2>1, <2>2
<1>13. TypeOK'
  <2>1. toDriver' \in Seq(Frames)
    BY <1>12, MoreFrames, OnTheirWay' \subseteq Frames DEF OnTheirWay
  <2>2. QED
    BY <1>1, <1>2, <1>3, <1>6, <1>9, <2>1 DEF TypeOK, JobType, RunType, Msg
<1>14. ResultsInv'
  <2> SUFFICES ASSUME NEW s \in Step
               PROVE  /\ s < current' => result[s] # NoResult
                      /\ s > current' => result[s] = NoResult /\ shell[s] = "none"
    BY <1>1 DEF ResultsInv
  <2>1. (s < current' => s < current \/ (s = current /\ current # 0)) /\ (s > current' => s > current)
    BY <1>1, <1>2 DEF Step
  <2>2. QED
    BY <1>1, <2>1 DEF ResultsInv, InFlight
<1>15. FramesInv' /\ StartInv'
  <2>1. FramesInv'
    BY <1>12 DEF FramesInv
  <2>2. current' # 0 /\ shell'[current'] = "none"
    BY <1>1, <1>2, <1>4 DEF Step
  <2>3. QED
    BY <1>3, <1>4, <1>6, <2>1, <2>2 DEF StartInv
<1>16. AgentInv' /\ DisposeSettlesAll'
  BY <1>1, <1>6 DEF AgentInv, DisposeSettlesAll
<1>17. JobInv' /\ WorkInv' /\ FileInv'
  <2>1. JobInv' /\ WorkInv'
    BY <1>1, <1>3, <1>4, <1>10 DEF JobInv, WorkInv, Live, NoResult, InFlight
  <2>2. ASSUME agent # "dead", NEW r \in file
        PROVE  worker[r] # "none" \/ \E m \in r..current' : <<"empty", m>> \in faults
    <3>1. ~Live
      BY <1>1, <2>2 DEF JobInv, Live
    <3>2. r \in Nat
      BY DEF TypeOK, Step
    <3>3. \A m \in r..current : m \in r..current'
      BY <1>1, <1>2, <3>2
    <3>4. QED
      BY <2>2, <3>1, <3>3 DEF FileInv
  <2>3. ASSUME NEW m \in Step, <<"empty", m>> \in faults PROVE m < current'
    BY <1>1, <1>2, <2>3 DEF FileInv, Step
  <2>4. QED
    BY <1>1, <2>1, <2>2, <2>3 DEF FileInv
<1>18. RunInv'
  BY <1>1, <1>9, StepAssumption DEF RunInv
<1>19. SuccessIsReal' /\ TimeoutHonest' /\ OutputsExact'
  BY <1>1, ReportsKept DEF SuccessIsReal, TimeoutHonest, OutputsExact
<1>20. QED
  BY <1>13, <1>14, <1>15, <1>16, <1>17, <1>18, <1>19
\* Steps that change nothing.
LEMMA StutterInv == StepInv /\ UNCHANGED vars => StepInv'
<1> SUFFICES ASSUME StepInv, UNCHANGED vars PROVE StepInv'
  OBVIOUS
<1> USE DEF vars, driver, inside
<1>1. run' \in RunType /\ RunInv'
  BY SameRun
<1>2. QED
  BY <1>1, DriverOnly, StillOnTheWay DEF StepInv, TypeOK, AgentInv, DisposeSettlesAll

LEMMA StepStepInv == StepInv /\ [Next]_vars => StepInv'
<1> SUFFICES ASSUME StepInv, [Next]_vars PROVE StepInv'
  OBVIOUS
<1>1. CASE Exec
  BY <1>1, ExecInv
<1>2. CASE DriverTimer \/ UserAbort \/ Dispose \/ Close \/ DriverDies
  BY <1>2, DriverTimerInv, UserAbortInv, DisposeInv, CloseInv, DriverDiesInv
<1>3. CASE DriverReceives
  BY <1>3, ReceiveOutputInv, ReceiveExitInv, ReceiveLossInv, ReceiveLateInv DEF DriverReceives
<1>4. CASE AgentReads
  BY <1>4, SpawnInv, RefuseStartInv, PassSignalInv, HangUpInv DEF AgentReads
<1>5. CASE AgentTimer \/ KillTimer \/ ReportExit \/ Wedge \/ AgentDies
  BY <1>5, AgentTimerInv, KillTimerInv, ReportExitInv, WedgeInv, AgentDiesInv
<1>6. CASE \E s \in Step : Workload(s)
  BY <1>6, WorkloadInv
<1>7. CASE Idle \/ Over \/ UNCHANGED vars
  BY <1>7, StutterInv DEF Idle, Over
<1>8. QED
  BY <1>1, <1>2, <1>3, <1>4, <1>5, <1>6, <1>7 DEF Next

LEMMA AlwaysStepInv == Spec => []StepInv
<1>1. Init => StepInv
  BY StepInit
<1>2. StepInv /\ [Next]_vars => StepInv'
  BY StepStepInv
<1>3. QED
  BY <1>1, <1>2, PTL DEF Spec

-----------------------------------------------------------------------------
(* What follows for the caller *)

\* The variables keep their types; with it, the driver takes at most one chunk of output
\* beyond the limit whatever a step prints (lib/sandbox.js, _output).
THEOREM StepExecTypeOK == Spec => []TypeOK
<1>1. StepInv => TypeOK
  BY DEF StepInv
<1>2. QED
  BY <1>1, AlwaysStepInv, PTL

\* Code 0 is never reported for a step whose shell did not end by itself with 0, for any
\* number of steps, whatever is cancelled, killed, lost or closed (lib/sandbox.js).
THEOREM StepExecSuccessIsReal == Spec => []SuccessIsReal
<1>1. StepInv => SuccessIsReal
  BY DEF StepInv
<1>2. QED
  BY <1>1, AlwaysStepInv, PTL

\* A result says "timed out" only when a timer of the step fired first or the agent's did,
\* and keeps the first reason (lib/sandbox.js, cancel and _settle).
THEOREM StepExecTimeoutHonest == Spec => []TimeoutHonest
<1>1. StepInv => TimeoutHonest
  BY DEF StepInv
<1>2. QED
  BY <1>1, AlwaysStepInv, PTL

\* For any number of steps, an output that a step's shell wrote is missing from its result
\* only if the result says the file was cut, the file could not be read, or a process of an
\* earlier step was still there to write the file anew; and one of an earlier step is in it
\* only if that step left a process behind or the file could twice not be emptied
\* (lib/agent/index.js, start and _drainOutputs, whose errors no result tells).
THEOREM StepExecOutputsExact == Spec => []OutputsExact
<1>1. StepInv => OutputsExact
  BY DEF StepInv
<1>2. QED
  BY <1>1, AlwaysStepInv, PTL

\* After dispose() no caller waits for a step, whether or not the launcher's close()
\* removed the container, and the step that was running is reported as cancelled
\* (lib/sandbox.js, dispose and _abandon).
THEOREM StepExecDisposeSettlesAll == Spec => []DisposeSettlesAll
<1>1. StepInv => DisposeSettlesAll
  BY DEF StepInv
<1>2. QED
  BY <1>1, AlwaysStepInv, PTL

\* Only the step in flight is ever settled.
LEMMA SettlesOnlyCurrent ==
  ASSUME StepInv, [Next]_vars
  PROVE  \/ result' = result
         \/ InFlight /\ \E x : result' = [result EXCEPT ![current] = x]
<1>1. CASE ReceiveExit \/ ReceiveLoss
  <2>1. InFlight
    BY <1>1, Unsettled DEF ReceiveExit, ReceiveLoss, Receives
  <2>2. QED
    BY <1>1, <2>1 DEF ReceiveExit, ReceiveLoss, Settle
<1>2. CASE Close
  BY <1>2 DEF Close
<1>3. CASE ReceiveOutput \/ ReceiveLate \/ Exec \/ DriverTimer \/ UserAbort \/ Dispose
  BY <1>3 DEF ReceiveOutput, ReceiveLate, Exec, DriverTimer, UserAbort, Dispose
<1>4. CASE DriverDies \/ AgentTimer \/ KillTimer \/ ReportExit \/ Wedge \/ AgentDies
  BY <1>4 DEF DriverDies, AgentTimer, KillTimer, ReportExit, Wedge, AgentDies, driver
<1>5. CASE AgentReads
  BY <1>5 DEF AgentReads, Spawn, RefuseStart, PassSignal, HangUp, Reads, driver
<1>6. CASE \E s \in Step : Workload(s)
  BY <1>6 DEF Workload, ShellPrints, Fork, WriteOutput, WorkerWrites, ShellExits, WorkerExits,
              Work, driver
<1>7. CASE Idle \/ Over \/ UNCHANGED vars
  BY <1>7 DEF Idle, Over, vars, driver
<1>8. QED
  BY <1>1, <1>2, <1>3, <1>4, <1>5, <1>6, <1>7 DEF Next, DriverReceives

\* wait() resolves once, for any number of steps: no late frame, end of stream or dispose
\* rewrites a result (lib/sandbox.js, _settle and dispose).
THEOREM StepExecReportedOnce == Spec => ReportedOnce
<1>1. StepInv /\ [Next]_vars => [\A s \in Step : result[s] # NoResult => result'[s] = result[s]]_vars
  <2> SUFFICES ASSUME StepInv, [Next]_vars, NEW s \in Step, result[s] # NoResult
               PROVE  result'[s] = result[s]
    OBVIOUS
  <2>1. CASE result' = result
    BY <2>1
  <2>2. CASE InFlight /\ \E x : result' = [result EXCEPT ![current] = x]
    <3>1. s # current
      BY <2>2 DEF InFlight
    <3>2. QED
      BY <2>2, <3>1 DEF StepInv, TypeOK
  <2>3. QED
    BY <2>1, <2>2, SettlesOnlyCurrent
<1>2. QED
  BY <1>1, AlwaysStepInv, PTL DEF Spec, ReportedOnce
=============================================================================
