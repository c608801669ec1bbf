------------------------------ MODULE StepExec ------------------------------
(***************************************************************************)
(* The steps of one task, executed one after the other in one sandbox: the *)
(* driver's StepRun (lib/sandbox.js), the agent's Step (lib/agent),        *)
(* the frames between them, and the processes a step leaves in the         *)
(* container.                                                              *)
(*                                                                         *)
(* The driver and the agent are separate processes; a frame that was       *)
(* written is in flight until the other side reads it.  Timers are         *)
(* ordinary actions that may fire whenever they are armed: nothing relates *)
(* the driver's clock to the agent's.                                      *)
(*                                                                         *)
(* An operator that no action uses is the following definition with a bug  *)
(* in it, kept to show that the properties notice.                         *)
(***************************************************************************)
EXTENDS Naturals, Sequences

CONSTANTS NSteps,     \* bound: steps of a task
          LogLimit,   \* logBytes, in chunks of output
          MaxPrint,   \* bound: chunks a step prints
          Tasks       \* tasks considered

Step == 1..NSteps

\* The steps of a task and the timeouts the workflow gives them; and what may happen to it.
Task == [steps : Step,
         timeout : [Step -> BOOLEAN],
         prints : 0..MaxPrint,          \* bound: chunks each of its steps prints
         may : SUBSET {"fork", "abort", "death", "wedge", "part"},
         fails : SUBSET {"prepare", "read", "empty"}]

\* What may befall a task, bounded so that not everything happens to every one: steps that
\* leave a process in the background; the caller's signal; the death of the agent or the container; an agent that stops reading
\* and answering for good; driver and container parting, the one dead or done and the
\* other going on.  And which accesses of the output file may fail: emptying it before a
\* step, reading it afterwards, emptying it again.

ASSUME StepAssumption == /\ NSteps \in Nat \ {0}
                         /\ LogLimit \in Nat \ {0}
                         /\ MaxPrint \in Nat
                         /\ Tasks \subseteq Task

VARIABLES
  task,       \* the task
  \* the driver
  box,        \* the Sandbox handle: ready, disposing, disposed; or the driver crashed
  current,    \* the step under execution or last executed, 0 before the first
  run,        \* the fields of its StepRun
  result,     \* Step -> what wait() resolved with
  aborted,    \* the caller's signal has fired
  \* the two directions of the exec stream
  toAgent,
  toDriver,
  torn,       \* the stream went away without an end that the agent is told of
  \* inside the container
  agent,      \* serving, wedged or dead
  job,        \* the agent's Step object for the stream of `current'
  shell,      \* Step -> the process the agent spawned for it
  worker,     \* Step -> a background process that shell left in its group
  file,       \* steps whose processes have lines in the BW_OUTPUT file
  wrote,      \* steps whose shell wrote an output
  faults,     \* what failed of the agent's accesses of the file, and at which step
  printed     \* Step -> chunks it printed

driver == <<box, current, run, result, aborted>>
inside == <<agent, job, shell, worker, file, wrote, faults, printed>>
vars == <<task, driver, toAgent, toDriver, torn, inside>>

Reason == {"none", "timeout", "user", "log-limit", "disposed"}

NewRun == [bytes |-> 0, truncated |-> FALSE, cancelled |-> FALSE, reason |-> "none",
           timedOut |-> FALSE, timer |-> FALSE]

NewJob == [started |-> FALSE, finished |-> FALSE, timedOut |-> FALSE, timer |-> FALSE,
           killTimer |-> FALSE]

NoResult == [code |-> "pending"]

Results == {NoResult} \cup
           [code : {"zero", "nonzero", "lost"}, outputs : SUBSET Step,
            outputsTruncated : BOOLEAN, truncated : BOOLEAN, cancelled : BOOLEAN,
            reason : Reason, timedOut : BOOLEAN]

Frames == [kind : {"STDOUT", "ERROR", "END", "CLOSED"}, step : Step] \cup
          [kind : {"EXIT"}, step : Step, code : {"zero", "nonzero"}, timedOut : BOOLEAN,
           outputs : SUBSET Step, outputsTruncated : BOOLEAN]

Accesses == {"prepare", "read", "empty"} \X Step

\* The driver accepts at most one chunk beyond the limit.
TypeOK == /\ task \in Tasks
          /\ box \in {"ready", "disposing", "disposed", "crashed"}
          /\ current \in 0..task.steps
          /\ run \in [bytes : 0..(LogLimit + 1), truncated : BOOLEAN, cancelled : BOOLEAN,
                      reason : Reason, timedOut : BOOLEAN, timer : BOOLEAN]
          /\ result \in [Step -> Results]
          /\ aborted \in BOOLEAN
          /\ toAgent \in Seq({"START", "SIGNAL", "END"})
          /\ toDriver \in Seq(Frames)
          /\ torn \in BOOLEAN
          /\ agent \in {"serving", "wedged", "dead"}
          /\ job \in [started : BOOLEAN, finished : BOOLEAN, timedOut : BOOLEAN,
                      timer : BOOLEAN, killTimer : BOOLEAN]
          /\ shell \in [Step -> {"none", "alive", "exit0", "exit1", "killed"}]
          /\ worker \in [Step -> {"none", "alive", "dead"}]
          /\ file \in SUBSET Step
          /\ wrote \in SUBSET Step
          /\ faults \in SUBSET Accesses
          /\ printed \in [Step -> 0..MaxPrint]

Init == /\ task \in Tasks
        /\ box = "ready"
        /\ current = 0
        /\ run = NewRun
        /\ result = [s \in Step |-> NoResult]
        /\ aborted = FALSE
        /\ toAgent = <<>> /\ toDriver = <<>> /\ torn = FALSE
        /\ agent = "serving"
        /\ job = NewJob
        /\ shell = [s \in Step |-> "none"]
        /\ worker = [s \in Step |-> "none"]
        /\ file = {} /\ wrote = {} /\ faults = {}
        /\ printed = [s \in Step |-> 0]

-----------------------------------------------------------------------------
(* The driver: StepRun *)

InFlight == current # 0 /\ result[current] = NoResult

DriverAlive == box \in {"ready", "disposing"}

Written(frames) == IF agent = "dead" THEN <<>> ELSE toAgent \o frames

CancelBlamesTimeout(r, reason) ==
  IF r.cancelled THEN r
  ELSE [r EXCEPT !.cancelled = TRUE, !.reason = reason, !.timedOut = TRUE]

\* What cancel(reason) does to an unsettled StepRun; it also writes a SIGNAL frame.
Cancelled(r, reason) ==
  IF r.cancelled THEN r
  ELSE [r EXCEPT !.cancelled = TRUE, !.reason = reason,
                 !.timedOut = r.timedOut \/ reason = "timeout"]

\* _settle: the timer is cleared, the duplex ended, the promise resolved.
Settle(r, code, outputs, cut) ==
  /\ run' = [r EXCEPT !.timer = FALSE]
  /\ result' = [result EXCEPT ![current] =
                  [code |-> code, outputs |-> outputs, outputsTruncated |-> cut,
                   truncated |-> r.truncated, cancelled |-> r.cancelled,
                   reason |-> r.reason, timedOut |-> r.timedOut]]
  /\ toAgent' = Written(<<"END">>)

\* exec: the StepRun's constructor arms the timer and looks at the signal before the
\* START frame is written.  On a transport that is already gone the new stream closes.
Exec ==
  /\ box = "ready"
  /\ current < task.steps
  /\ ~InFlight
  /\ current' = current + 1
  /\ LET new == [NewRun EXCEPT !.timer = task.timeout[current']]
     IN  IF aborted
         THEN /\ run' = Cancelled(new, "user")
              /\ toAgent' = Written(<<"SIGNAL", "START">>)
         ELSE /\ run' = new
              /\ toAgent' = Written(<<"START">>)
  /\ job' = NewJob
  /\ toDriver' = IF agent = "dead" THEN <<[kind |-> "CLOSED", step |-> current']>> ELSE toDriver
  /\ UNCHANGED <<task, box, result, aborted, torn, agent, shell, worker, file, wrote, faults,
                 printed>>

DriverTimer ==
  /\ DriverAlive /\ InFlight /\ run.timer
  /\ run' = [Cancelled(run, "timeout") EXCEPT !.timer = FALSE]
  /\ toAgent' = Written(<<"SIGNAL">>)
  /\ UNCHANGED <<task, box, current, result, aborted, toDriver, torn, inside>>

\* The caller's signal fires; a StepRun that already settled ignores it.
UserAbort ==
  /\ "abort" \in task.may /\ DriverAlive /\ ~aborted
  /\ aborted' = TRUE
  /\ IF InFlight THEN /\ run' = Cancelled(run, "user")
                      /\ toAgent' = Written(<<"SIGNAL">>)
                 ELSE UNCHANGED <<run, toAgent>>
  /\ UNCHANGED <<task, box, current, result, toDriver, torn, inside>>

Receives(kinds) == /\ DriverAlive
                   /\ toDriver # <<>> /\ Head(toDriver).kind \in kinds
                   /\ toDriver' = Tail(toDriver)
                   /\ UNCHANGED <<task, box, current, aborted, torn, inside>>

ForSettled == result[Head(toDriver).step] # NoResult

\* _output counts a chunk unless the log was cut before.
Output(r) ==
  IF r.truncated THEN r
  ELSE [r EXCEPT !.bytes = r.bytes + 1, !.truncated = r.bytes >= LogLimit]

ReceiveOutput ==
  /\ Receives({"STDOUT"}) /\ ~ForSettled
  /\ IF Output(run).truncated /\ ~run.truncated
     THEN /\ run' = Cancelled(Output(run), "log-limit")
          /\ toAgent' = Written(<<"SIGNAL">>)
     ELSE /\ run' = Output(run)
          /\ UNCHANGED toAgent
  /\ UNCHANGED result

ReceiveExit ==
  /\ Receives({"EXIT"}) /\ ~ForSettled
  /\ LET f == Head(toDriver)
     IN  Settle([run EXCEPT !.timedOut = run.timedOut \/ f.timedOut], f.code, f.outputs,
                f.outputsTruncated)

\* An ERROR frame, the end of the stream, or its closing.
ReceiveLoss ==
  /\ Receives({"ERROR", "END", "CLOSED"}) /\ ~ForSettled
  /\ Settle(run, "lost", {}, FALSE)

ReceiveLateAgain ==
  /\ Receives({"STDOUT", "EXIT", "ERROR", "END", "CLOSED"}) /\ ForSettled
  /\ result' = [result EXCEPT ![Head(toDriver).step] =
                  [@ EXCEPT !.code = IF Head(toDriver).kind = "EXIT" THEN @ ELSE "lost"]]
  /\ UNCHANGED <<run, toAgent>>

\* A frame for a StepRun that has settled changes nothing.
ReceiveLate ==
  /\ Receives({"STDOUT", "EXIT", "ERROR", "END", "CLOSED"}) /\ ForSettled
  /\ UNCHANGED <<run, result, toAgent>>

-----------------------------------------------------------------------------
(* The driver: Sandbox.dispose and the launcher's close *)

Dispose ==
  /\ box = "ready"
  /\ box' = "disposing"
  /\ IF InFlight THEN /\ run' = Cancelled(run, "disposed")
                      /\ toAgent' = Written(<<"SIGNAL">>)
                 ELSE UNCHANGED <<run, toAgent>>
  /\ UNCHANGED <<task, current, result, aborted, toDriver, torn, inside>>

\* The container goes with everything in it.
Killed == /\ agent' = "dead"
          /\ shell' = [s \in Step |-> IF shell[s] = "alive" THEN "killed" ELSE shell[s]]
          /\ worker' = [s \in Step |-> IF worker[s] = "alive" THEN "dead" ELSE worker[s]]
          /\ UNCHANGED <<job, file, wrote, faults, printed>>

\* The driver's end of the stream goes away.  The agent gets what had been flushed and
\* then the end of the stream; if the transport is torn down it is closed without an end,
\* which the agent does not listen for.
HangsUp ==
  /\ torn' \in BOOLEAN
  /\ \E n \in 0..Len(toAgent) :
       toAgent' = IF agent = "dead" THEN <<>>
                  ELSE SubSeq(toAgent, 1, n) \o (IF torn' THEN <<>> ELSE <<"END">>)

\* close() has stopped the client and asked podman to remove the container, which may
\* fail without anybody being told: the container is gone, or lives on by itself.
Closed == \/ Killed /\ toAgent' = <<>> /\ UNCHANGED torn
          \/ "part" \in task.may /\ agent # "dead" /\ HangsUp /\ UNCHANGED inside

CloseForgetsRuns ==
  /\ box = "disposing"
  /\ box' = "disposed"
  /\ Closed
  /\ UNCHANGED <<run, result>>
  /\ toDriver' = <<>>
  /\ UNCHANGED <<task, current, aborted>>

\* handle.close() has returned or thrown: whatever is still in flight is abandoned.
Close ==
  /\ box = "disposing"
  /\ box' = "disposed"
  /\ Closed
  /\ IF InFlight
     THEN result' = [result EXCEPT ![current] =
                       [code |-> "lost", outputs |-> {}, outputsTruncated |-> FALSE,
                        truncated |-> run.truncated, cancelled |-> TRUE,
                        reason |-> Cancelled(run, "disposed").reason,
                        timedOut |-> run.timedOut]]
     ELSE UNCHANGED result
  /\ run' = [run EXCEPT !.timer = FALSE]
  /\ toDriver' = <<>>
  /\ UNCHANGED <<task, current, aborted>>

\* The runner process dies with all it remembers, and its end of the pipe goes away.
DriverDies ==
  /\ "part" \in task.may /\ DriverAlive
  /\ box' = "crashed"
  /\ HangsUp
  /\ toDriver' = <<>>
  /\ run' = NewRun /\ aborted' = FALSE
  /\ UNCHANGED <<task, current, result, inside>>

-----------------------------------------------------------------------------
(* The agent: Step *)

\* A process was spawned for the stream and its end not yet reported.
Live == job.started /\ ~job.finished

Emit(frames) == toDriver' = IF DriverAlive THEN toDriver \o frames ELSE <<>>

Reads(frame) == /\ agent = "serving"
                /\ toAgent # <<>> /\ Head(toAgent) = frame
                /\ toAgent' = Tail(toAgent)
                /\ UNCHANGED <<task, driver, torn, agent, printed, wrote>>

\* A signal to the process group; SIGTERM may be ignored, trapped into a clean exit, or
\* kill, independently for the shell and for what it left in the background.
Group(fates) ==
  \E s \in fates, w \in fates \ {"exit0"} :
    /\ shell' = [shell EXCEPT ![current] = IF @ = "alive" THEN s ELSE @]
    /\ worker' = [worker EXCEPT ![current] = IF @ # "alive" THEN @
                                             ELSE IF w = "alive" THEN w ELSE "dead"]

SigTerm == Group({"alive", "exit0", "killed"})

SigKill == Group({"killed"})

\* Emptying the output file before a step; an error is caught and only told to stderr.
Prepare ==
  \/ file' = {} /\ UNCHANGED faults
  \/ /\ "prepare" \in task.fails
     /\ faults' = faults \cup {<<"prepare", current>>}
     /\ UNCHANGED file

\* START: the output file is emptied, the shell spawned in a group of its own.
Spawn ==
  /\ Reads("START")
  /\ Prepare
  /\ shell' = [shell EXCEPT ![current] = "alive"]
  /\ job' = [job EXCEPT !.started = TRUE, !.timer = task.timeout[current]]
  /\ UNCHANGED <<toDriver, worker>>

\* The working directory is missing or spawn fails: _fail.
RefuseStart ==
  /\ Reads("START")
  /\ Prepare
  /\ job' = [job EXCEPT !.finished = TRUE]
  /\ Emit(<<[kind |-> "ERROR", step |-> current], [kind |-> "END", step |-> current]>>)
  /\ UNCHANGED <<shell, worker>>

\* A SIGNAL frame is passed on to the group, once; without a live process it is dropped.
PassSignal ==
  /\ Reads("SIGNAL")
  /\ IF Live THEN SigTerm ELSE UNCHANGED <<shell, worker>>
  /\ UNCHANGED <<toDriver, job, file, faults>>

StopWithoutEscalation(j) == SigTerm /\ job' = j

\* stop(): SIGTERM now, SIGKILL when the grace period is over.
Stop(j) == SigTerm /\ job' = [j EXCEPT !.killTimer = TRUE]

\* The driver ended the stream.
HangUp ==
  /\ Reads("END")
  /\ IF Live THEN Stop(job) ELSE UNCHANGED <<job, shell, worker>>
  /\ UNCHANGED <<toDriver, file, faults>>

AgentTimer ==
  /\ agent = "serving" /\ Live /\ job.timer
  /\ Stop([job EXCEPT !.timer = FALSE, !.timedOut = TRUE])
  /\ UNCHANGED <<task, driver, toAgent, toDriver, torn, agent, file, wrote, faults, printed>>

KillTimer ==
  /\ agent = "serving" /\ Live /\ job.killTimer
  /\ job' = [job EXCEPT !.killTimer = FALSE]
  /\ SigKill
  /\ UNCHANGED <<task, driver, toAgent, toDriver, torn, agent, file, wrote, faults, printed>>

ExitCodeOfStatus(status) == IF status = "exit1" THEN "nonzero" ELSE "zero"

\* A process ended by a signal has no exit code: the agent says -1.
ExitCode(status) == IF status = "exit0" THEN "zero" ELSE "nonzero"

DrainUnmarked(read, cut) ==
  /\ read \subseteq file /\ ~cut
  /\ file' = {}
  /\ UNCHANGED faults

\* _drainOutputs: what is read of the file, whether it was cut, and what stays in it.  Of a
\* file of more than OUTPUT_MAX_BYTES a prefix is read; a file that cannot be read counts
\* as empty, one that cannot be written stays as it is, and neither error is told.
Drain(read, cut) ==
  \E failed \in SUBSET (task.fails \ {"prepare"}) :
    /\ \/ "read" \in failed /\ read = {} /\ ~cut
       \/ "read" \notin failed /\ read = file /\ ~cut
       \/ "read" \notin failed /\ read \subseteq file /\ file # {} /\ cut
    /\ file' = IF "empty" \in failed THEN file ELSE {}
    /\ faults' = faults \cup {<<access, current>> : access \in failed}

\* _exit: the shell is gone, its timers are cleared, its outputs read, the stream ended.
ReportExit ==
  /\ agent = "serving" /\ Live
  /\ shell[current] \in {"exit0", "exit1", "killed"}
  /\ job' = [job EXCEPT !.finished = TRUE, !.timer = FALSE, !.killTimer = FALSE]
  /\ \E read \in SUBSET file, cut \in BOOLEAN :
       /\ Drain(read, cut)
       /\ Emit(<<[kind |-> "EXIT", step |-> current, code |-> ExitCode(shell[current]),
                  timedOut |-> job.timedOut, outputs |-> read, outputsTruncated |-> cut],
                 [kind |-> "END", step |-> current]>>)
  /\ UNCHANGED <<task, driver, toAgent, torn, agent, shell, worker, wrote, printed>>

\* The agent stops reading, answering and watching its timers.
Wedge ==
  /\ "wedge" \in task.may /\ agent = "serving"
  /\ agent' = "wedged"
  /\ UNCHANGED <<task, driver, toAgent, toDriver, torn, job, shell, worker, file, wrote,
                 faults, printed>>

\* The agent crashes, or podman's own --timeout ends the container.  The driver may not
\* see everything that was on its way.
AgentDies ==
  /\ "death" \in task.may /\ agent # "dead"
  /\ Killed
  /\ toAgent' = <<>>
  /\ toDriver' \in IF current = 0 \/ ~DriverAlive THEN {<<>>}
                   ELSE {Append(SubSeq(toDriver, 1, n), [kind |-> "CLOSED", step |-> current]) :
                           n \in 0..Len(toDriver)}
  /\ UNCHANGED <<task, driver, torn>>

-----------------------------------------------------------------------------
(* The workload *)

Work == UNCHANGED <<task, driver, toAgent, torn, agent, job, faults>>

\* The shell prints, and the agent forwards the chunk while the stream is open.
ShellPrints(s) ==
  /\ shell[s] = "alive" /\ agent = "serving" /\ printed[s] < task.prints
  /\ printed' = [printed EXCEPT ![s] = @ + 1]
  /\ Emit(<<[kind |-> "STDOUT", step |-> s]>>)
  /\ Work /\ UNCHANGED <<shell, worker, file, wrote>>

Fork(s) ==
  /\ "fork" \in task.may /\ shell[s] = "alive" /\ worker[s] = "none"
  /\ worker' = [worker EXCEPT ![s] = "alive"]
  /\ Work /\ UNCHANGED <<toDriver, shell, file, wrote, printed>>

\* A process adds its lines to the file, or writes the file anew.
Lines(s) == file' \in {file \cup {s}, {s}}

WriteOutput(s) ==
  /\ shell[s] = "alive"
  /\ Lines(s) /\ wrote' = wrote \cup {s}
  /\ Work /\ UNCHANGED <<toDriver, shell, worker, printed>>

WorkerWrites(s) ==
  /\ worker[s] = "alive"
  /\ Lines(s)
  /\ Work /\ UNCHANGED <<toDriver, shell, worker, wrote, printed>>

ShellExits(s) ==
  /\ shell[s] = "alive"
  /\ \E status \in {"exit0", "exit1"} : shell' = [shell EXCEPT ![s] = status]
  /\ Work /\ UNCHANGED <<toDriver, worker, file, wrote, printed>>

WorkerExits(s) ==
  /\ worker[s] = "alive"
  /\ worker' = [worker EXCEPT ![s] = "dead"]
  /\ Work /\ UNCHANGED <<toDriver, shell, file, wrote, printed>>

Workload(s) == \/ ShellPrints(s) \/ Fork(s) \/ WriteOutput(s) \/ WorkerWrites(s)
               \/ ShellExits(s) \/ WorkerExits(s)

-----------------------------------------------------------------------------
DriverReceives == ReceiveOutput \/ ReceiveExit \/ ReceiveLoss \/ ReceiveLate

AgentReads == Spawn \/ RefuseStart \/ PassSignal \/ HangUp

\* The caller may execute no further step, and nothing has to happen then.
Idle == ~InFlight /\ UNCHANGED vars

\* Nothing is left to do once the runner has crashed, and the container with it.
Over == box = "crashed" /\ agent = "dead" /\ UNCHANGED vars

Next == \/ Exec \/ DriverTimer \/ UserAbort \/ Dispose \/ Close \/ DriverDies
        \/ DriverReceives
        \/ AgentReads \/ AgentTimer \/ KillTimer \/ ReportExit \/ Wedge \/ AgentDies
        \/ \E s \in Step : Workload(s)
        \/ Idle \/ Over

\* Both event loops take what is there to take, armed timers fire, and closing the
\* sandbox finishes.  Nothing makes the workload do anything, nor the caller.
Fairness == /\ WF_vars(DriverReceives) /\ WF_vars(DriverTimer) /\ WF_vars(Close)
            /\ WF_vars(AgentReads) /\ WF_vars(AgentTimer) /\ WF_vars(KillTimer)
            /\ WF_vars(ReportExit)

Spec == Init /\ [][Next]_vars /\ Fairness

-----------------------------------------------------------------------------
(* Properties *)

\* wait() resolves once: a frame that arrives later, the end of the stream after an EXIT
\* frame, or a dispose never rewrites what a caller has already acted on.
ReportedOnce ==
  [][\A s \in Step : result[s] # NoResult => result'[s] = result[s]]_vars

\* Code 0 is reported only for a shell that ended by itself with 0, whatever was
\* cancelled, killed, lost or closed on the way.
SuccessIsReal == \A s \in Step : result[s].code = "zero" => shell[s] = "exit0"

\* "a user cancel is not a timeout" (test/support/lifecycle.js): a step is reported as
\* timed out only if it has a timeout, and then either the driver's timer was the first
\* to cancel it or the agent, which saw the step end, says its own timer fired; and what
\* cancelled a step first stays its reason.
TimeoutHonest ==
  \A s \in Step : result[s] # NoResult =>
    /\ result[s].timedOut => task.timeout[s] /\ (result[s].reason = "timeout" \/ result[s].code # "lost")
    /\ result[s].reason = "timeout" => result[s].timedOut
    /\ result[s].cancelled <=> result[s].reason # "none"

\* A step's lines outlive it although no process of it is left only where two accesses
\* failed: the file is emptied after the step and once more before the next one.
Stale(r, s) == /\ <<"prepare", s>> \in faults
               /\ \E m \in r..(s - 1) : <<"empty", m>> \in faults

\* What the shell of step s wrote was reported, unless the result says that the file was
\* cut, the file could not be read, or a process that an earlier step left behind may have
\* written it anew.
Complete(s, outputs, cut) ==
  s \in wrote => \/ s \in outputs \/ cut
                \/ <<"read", s>> \in faults
                \/ \E r \in Step : r < s /\ worker[r] # "none"

\* Nothing of an earlier step was reported as of step s, unless that step left a process
\* behind or the file could twice not be emptied.
Own(s, outputs) ==
  \A r \in outputs : r = s \/ (r < s /\ (worker[r] # "none" \/ Stale(r, s)))

\* The outputs of every step whose exit the agent reported are its own and complete, but
\* for the causes named above (lib/agent/index.js, _drainOutputs: "a stale value looks
\* like a live one").
OutputsExact ==
  \A s \in Step : result[s].code \in {"zero", "nonzero"} =>
    /\ Complete(s, result[s].outputs, result[s].outputsTruncated)
    /\ Own(s, result[s].outputs)

\* dispose() leaves no caller waiting, whether or not the container could be removed, and
\* a step that was running when it began is reported as cancelled whatever ends it.
DisposeSettlesAll == /\ box = "disposing" /\ InFlight => run.cancelled
                     /\ box = "disposed" => ~InFlight

\* As long as the agent answers, a step with a timeout ends, whatever the workload does
\* about SIGTERM.
TimeoutEndsStep ==
  \A s \in Step : (current = s /\ task.timeout[s])
                   ~> (result[s] # NoResult \/ box = "crashed" \/ agent = "wedged")

\* "Never let a step outlive its exec stream" (lib/agent/index.js): when the runner
\* crashes, or disposes of the sandbox and the container stays, an agent that answers
\* stops the step's shell, as soon as it is told that the stream ended or, without that,
\* when the step's own timeout is over.  A step without one outlives a torn stream.
HangUpStopsShell ==
  box \in {"crashed", "disposed"} ~>
    \/ agent = "wedged"
    \/ \A s \in Step : shell[s] # "alive"
    \/ torn /\ ~task.timeout[current]

\* "A build that backgrounds a worker must not leave it running once the step is
\* reported done" (test/support/lifecycle.js).
NoOrphans == \A s \in Step : result[s] # NoResult => worker[s] # "alive"

\* "a wedged agent must not be able to hold a job open forever" (lib/sandbox.js, above
\* the driver's timer): once the driver's timer has fired, wait() resolves, without
\* waiting for podman's wall clock to end the container.
DriverTimeoutSuffices ==
  (InFlight /\ run.timedOut) ~> (~InFlight \/ box = "crashed")
=============================================================================
