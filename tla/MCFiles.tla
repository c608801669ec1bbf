------------------------------ MODULE MCFiles ------------------------------
(***************************************************************************)
(* Files on their way: the artifacts of one run, from task to task and to  *)
(* the peers, or one sandbox and the tree put into it or got out of it,    *)
(* one of the two at a time.                                               *)
(***************************************************************************)
EXTENDS MCPublish, MCSandbox

VARIABLE about      \* which of the two

filesVars == <<about, publishVars, sandboxVars>>

\* A behaviour about the one leaves the other as it is at first: artifacts of any one
\* workflow, or a sandbox that is not asked for.  Without a task that publishes, how the
\* others would makes no difference.
FilesInit ==
  /\ about \in {"artifacts", "sandbox"}
  /\ about # "artifacts" => flow = CHOOSE w \in Flows : w.publish = {}
  /\ about # "sandbox" => /\ op = "put" /\ match = {} /\ setting = Calm
                          /\ tree = CHOOSE t \in Trees : TRUE
                          /\ before = [n \in Rel |-> "none"]
  /\ PublishInit /\ CallInit
  /\ flow.publish = {} => pub = CHOOSE p \in Publishings : TRUE

FilesNext == /\ UNCHANGED about
             /\ \/ about = "artifacts" /\ PublishNext /\ UNCHANGED sandboxVars
                \/ about = "sandbox" /\ SandboxNext /\ UNCHANGED publishVars

FilesSpec == FilesInit /\ [][FilesNext]_filesVars /\ SandboxFairness
=============================================================================
