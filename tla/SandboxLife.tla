----------------------------- MODULE SandboxLife -----------------------------
(***************************************************************************)
(* The life of one Sandbox (lib/sandbox.js: prepare, dispose) over the     *)
(* podman launcher (lib/isolation/podman/launcher.js), with the call of    *)
(* Transfer made in it.  The podman client, its container and the agent    *)
(* in it go their own way; the runner may die; the timers of the launcher  *)
(* and of the handshake are actions that may happen whenever they are      *)
(* armed.                                                                  *)
(*                                                                         *)
(* What podman does is external: the client may end before its container   *)
(* or after it, and starts no container once it has been killed.           *)
(*                                                                         *)
(* An operator that no action uses is the following definition with a bug  *)
(* in it, kept to show that the properties notice.                         *)
(***************************************************************************)
EXTENDS Transfer

Op == {"put", "get"}

\* What does not change: the caller and the agent in the image.
Setting == [orderly : BOOLEAN,      \* the caller waits for what it called before it disposes
            timed : BOOLEAN,        \* helloTimeoutMs is not 0
            offers : SUBSET Op,     \* what the agent implements beside its core
            lists : BOOLEAN,        \* its hello lists that: agents that are too old do not
            leaks : BOOLEAN,        \* descriptors have leaked into the sandbox
            eventful : BOOLEAN]     \* bound: FALSE to begin with a prepared sandbox, to
                                   \* which nothing happens than that its container ends

CONSTANT Settings  \* settings considered

ASSUME SettingsAssumption == /\ Settings \subseteq Setting
                             /\ \A s \in Settings : s.leaks => s.eventful

VARIABLES setting,
          prep,      \* where prepare() stands
          prepared,  \* _prepared
          commands,  \* of Op, what the driver believes the agent implements
          disp,      \* where dispose() stands: _disposed unless "no"
          handle,    \* _handle is known
          closed,    \* the launcher's _closed
          reaped,    \* how _reap ended
          client,    \* the podman client process
          container,
          pipe,      \* the stream to the container
          runner

lifeVars == <<setting, prep, prepared, commands, disp, handle, closed, reaped, client,
              container, pipe, runner>>

sandboxVars == <<vars, lifeVars>>

LifeTypeOK ==
  /\ setting \in Settings
  /\ prep \in {"new", "spawning", "hello", "refusing", "ready", "threw"}
  /\ disp \in {"no", "closing", "reaping", "done"}
  /\ {prepared, handle, closed} \subseteq BOOLEAN
  /\ commands \subseteq Op
  /\ reaped \in {"none", "ok", "failed"}
  /\ client \in {"none", "running", "gone"} /\ container \in {"none", "up", "gone"}
  /\ pipe \in {"open", "ended", "destroyed"} /\ runner \in {"up", "crashed"}
  /\ prep \in {"hello", "refusing", "ready"} => handle

SandboxTypeOK == TypeOK /\ LifeTypeOK

Fresh == /\ prep = "new" /\ prepared = FALSE /\ commands = {} /\ handle = FALSE
         /\ client = "none" /\ container = "none"

Ready == /\ prep = "ready" /\ prepared = TRUE /\ handle = TRUE
         /\ commands = IF setting.lists THEN setting.offers ELSE {}
         /\ client = "running" /\ container = "up"

SandboxInit == /\ Init
               /\ setting \in Settings
               /\ IF setting.eventful THEN Fresh ELSE Ready
               /\ disp = "no" /\ closed = FALSE /\ reaped = "none"
               /\ pipe = "open" /\ runner = "up"

-----------------------------------------------------------------------------
(* prepare *)

Runs == runner = "up" /\ UNCHANGED <<vars, setting, runner>>

\* spawn() has started the client before it returns its promise, or throws.
Prepare == /\ Runs /\ prep = "new"
           /\ \/ disp = "no" /\ prep' = "spawning" /\ client' = "running"
              \/ prep' = "threw" /\ UNCHANGED client
           /\ UNCHANGED <<prepared, commands, disp, handle, closed, reaped, container, pipe>>

\* The promise resolves; hello is sent, whatever has been disposed of meanwhile.
HandleKnown == /\ Runs /\ prep = "spawning"
               /\ handle' = TRUE /\ prep' = "hello"
               /\ UNCHANGED <<prepared, commands, disp, closed, reaped, client, container, pipe>>

\* The beginning of dispose(): what is known of the launcher is closed.
BeginDispose == /\ prepared' = FALSE
                /\ disp' = IF handle THEN "closing" ELSE "done"
                /\ closed' = handle

\* hello answers: a leak is refused after a dispose(), which may have been made already.
HelloAnswered ==
  /\ Runs /\ prep = "hello" /\ container = "up" /\ pipe = "open"
  /\ IF setting.leaks
     THEN /\ prep' = "refusing"
          /\ IF disp = "no" THEN BeginDispose ELSE UNCHANGED <<prepared, disp, closed>>
          /\ UNCHANGED commands
     ELSE /\ prep' = "ready" /\ prepared' = TRUE
          /\ commands' = IF setting.lists THEN setting.offers ELSE {}
          /\ UNCHANGED <<disp, closed>>
  /\ UNCHANGED <<handle, reaped, client, container, pipe>>

Threw == /\ prep' = "threw"
         /\ UNCHANGED <<prepared, commands, disp, handle, closed, reaped, client, container, pipe>>

\* The dispose() that prepare awaits returns, one made before it at once.
RefusalEnds == /\ Runs /\ prep = "refusing" /\ disp = "done"
               /\ Threw

\* A stream that is destroyed rejects hello; one that only ends leaves it to the timeout.
HelloFails == /\ Runs /\ prep = "hello" /\ pipe = "destroyed"
              /\ Threw

HelloNeverTimesOut == /\ Runs /\ prep = "hello" /\ setting.timed /\ pipe = "destroyed"
                      /\ Threw

HelloTimesOut == /\ Runs /\ prep = "hello" /\ setting.timed
                 /\ Threw

-----------------------------------------------------------------------------
(* dispose, and the launcher's close *)

\* An orderly caller is TaskRun.execute: its finally comes after every await.
MayDispose == /\ setting.eventful
              /\ setting.orderly => prep \in {"ready", "threw"} /\ call # "waiting"

Dispose == /\ Runs /\ disp = "no" /\ MayDispose
           /\ BeginDispose
           /\ UNCHANGED <<prep, commands, handle, reaped, client, container, pipe>>

Close(to) == /\ disp' = to
             /\ UNCHANGED <<prep, prepared, commands, handle, closed>>

\* The client obeys the SIGTERM, or the SIGKILL of a forced close; its container may not.
ClientStops == /\ Runs /\ disp = "closing" /\ client = "running"
               /\ Close("reaping")
               /\ client' = "gone" /\ pipe' = "ended"
               /\ container' \in {container, IF container = "up" THEN "gone" ELSE container}
               /\ UNCHANGED reaped

GraceOnlyForTheLiving == /\ Runs /\ disp = "closing" /\ client = "running"
                         /\ Close("reaping")
                         /\ client' = "gone"
                         /\ pipe' = "ended"
                         /\ UNCHANGED <<reaped, container>>

\* The grace period ends: the client does not stop, or had gone before it was waited for.
GraceOver == /\ Runs /\ disp = "closing"
             /\ Close("reaping")
             /\ client' = "gone"
             /\ pipe' = IF client = "running" THEN "ended" ELSE pipe
             /\ UNCHANGED <<reaped, container>>

ReapOnlyClients == /\ Runs /\ disp = "reaping"
                   /\ Close("done")
                   /\ reaped' = "ok"
                   /\ UNCHANGED <<client, container, pipe>>

\* podman rm -f, by the name of the job.
Reap == /\ Runs /\ disp = "reaping"
        /\ Close("done")
        /\ reaped' = "ok"
        /\ container' = IF container = "up" THEN "gone" ELSE container
        /\ UNCHANGED <<client, pipe>>

\* It cannot be spawned, fails, or takes too long; nobody looks.
ReapFails == /\ Runs /\ disp = "reaping"
             /\ Close("done")
             /\ reaped' = "failed"
             /\ UNCHANGED <<client, container, pipe>>

RunnerCrashes == /\ runner = "up" /\ setting.eventful
                 /\ runner' = "crashed"
                 /\ client' \in {client, IF client = "running" THEN "gone" ELSE client}
                 /\ UNCHANGED <<vars, setting, prep, prepared, commands, disp, handle, closed,
                                reaped, container, pipe>>

-----------------------------------------------------------------------------
(* podman *)

Podman == UNCHANGED <<vars, setting, prep, prepared, commands, disp, handle, closed, reaped,
                      runner>>

ContainerStarts == /\ Podman /\ client = "running" /\ container = "none"
                   /\ container' = "up"
                   /\ UNCHANGED <<client, pipe>>

\* The agent has gone, or podman's --timeout ends the container; the stream ends with it.
ContainerEnds == /\ Podman /\ container = "up"
                 /\ container' = "gone"
                 /\ pipe' = IF pipe = "open" THEN "ended" ELSE pipe
                 /\ UNCHANGED client

\* The client ends when its container has ended, or could not be started.  An exit code
\* that is not 0 destroys the stream, unless the launcher is closed.
ClientExits == /\ Podman /\ setting.eventful
               /\ client = "running" /\ container # "up"
               /\ client' = "gone"
               /\ pipe' \in IF closed THEN {"ended"} ELSE {"ended", "destroyed"}
               /\ UNCHANGED container

-----------------------------------------------------------------------------
(* The calls *)

\* _assertReady and _assertSupports; a call that they refuse throws and does nothing.
Supports == /\ prepared /\ disp = "no"
            /\ op \in commands

CallBegins == /\ runner = "up" /\ Supports
              /\ Put \/ PutFails \/ Get
              /\ UNCHANGED lifeVars

AgentWorks == /\ container = "up" /\ pipe = "open"
              /\ \/ Serve \/ ServeError \/ PutReturns
                 \/ op = "put" /\ Receives
              /\ UNCHANGED lifeVars

DriverWorks == /\ runner = "up"
               /\ \/ GetReturns \/ PutLost
                  \/ op = "get" /\ Receives
               /\ UNCHANGED lifeVars

\* The RPC ends or closes the stream of the call when the stream under it is over.
StreamBreaks == /\ runner = "up" /\ pipe # "open"
                /\ AgentDies
                /\ UNCHANGED lifeVars

-----------------------------------------------------------------------------
Settled == /\ prep \in {"new", "ready", "threw"} /\ disp \in {"no", "done"}
           /\ call # "waiting"
           /\ UNCHANGED sandboxVars

\* get waits for a stream that was closed and not ended.
StuckGet == /\ call = "waiting" /\ op = "get"
            /\ agent = "down" /\ frames = <<>> /\ ext.state = "running"

\* hello is not answered by a stream that has ended.
StuckHello == prep = "hello" /\ ~setting.timed /\ pipe = "ended"

Stuck == (StuckGet \/ StuckHello \/ runner = "crashed") /\ UNCHANGED sandboxVars

Life == \/ Prepare \/ HandleKnown \/ HelloAnswered \/ RefusalEnds \/ HelloFails
        \/ HelloTimesOut
        \/ Dispose \/ ClientStops \/ GraceOver \/ Reap \/ ReapFails
        \/ RunnerCrashes
        \/ ContainerStarts \/ ContainerEnds \/ ClientExits

SandboxNext == \/ Life \/ CallBegins \/ AgentWorks \/ DriverWorks \/ StreamBreaks
               \/ Settled \/ Stuck

\* Promises are continued, the timers of the handshake and of the launcher fire, podman
\* starts a container or gives up, and the agent and the driver handle what there is.
SandboxFairness ==
  /\ WF_sandboxVars(HandleKnown) /\ WF_sandboxVars(HelloTimesOut)
  /\ WF_sandboxVars(RefusalEnds)
  /\ WF_sandboxVars(GraceOver) /\ WF_sandboxVars(Reap \/ ReapFails)
  /\ WF_sandboxVars(AgentWorks) /\ WF_sandboxVars(DriverWorks) /\ WF_sandboxVars(StreamBreaks)

SandboxSpec == SandboxInit /\ [][SandboxNext]_sandboxVars /\ SandboxFairness

-----------------------------------------------------------------------------
(* Properties *)

\* A container that goes on after dispose() could not be removed, or was begun by a
\* prepare() that the dispose() did not wait for, which an orderly caller's does.
NothingLeftBehind ==
  (disp = "done" /\ container = "up") => \/ reaped = "failed"
                                         \/ ~closed /\ ~setting.orderly

\* Whatever podman and the agent do, prepare() comes back when hello has a timeout.
PrepareReturns ==
  (prep \in {"spawning", "hello", "refusing"} /\ setting.timed)
    ~> (prep \in {"ready", "threw"} \/ runner = "crashed")

\* Whatever podman does, dispose() comes back: a job never waits for a container that will
\* not die.
DisposeReturns == (disp \in {"closing", "reaping"}) ~> (disp = "done" \/ runner = "crashed")

=============================================================================
