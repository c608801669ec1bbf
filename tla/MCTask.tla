------------------------------- MODULE MCTask -------------------------------
(***************************************************************************)
(* One task, and the texts that a task's values go through: a condition,   *)
(* an output file, or the way of a value from a step to an expression, one *)
(* of the four at a time.                                                  *)
(***************************************************************************)
EXTENDS Conditions, Outputs, Scope, MCTaskRun

MCValueOf == [w \in {"off", "'on'"} |-> IF w = "off" THEN "0" ELSE "on"]

VARIABLE about      \* which of the four

allVars == <<about, condVars, lines, scopeVars, vars>>

\* A behaviour about something else leaves the condition blank, and so on.
MCInit == /\ about \in {"task", "condition", "outputs", "scope"}
          /\ about # "task" => job = CHOOSE j \in Jobs : TRUE
          /\ about # "condition" => statusFailed = FALSE
          /\ about # "scope" => /\ declared = NoRef /\ buildable = {}
                                /\ uses = [i \in MakerStep |-> NoRef]
          /\ CondInit /\ OutInit /\ ScopeInit /\ Init

\* Bound: the longest conditions end with what a condition can end with.
Endings == Word \cup Literal \cup {")", "]"}

WriteToken == CondNext /\ (Len(tokens) = MaxTokens - 1 => tokens'[MaxTokens] \in Endings)

\* A task that stops before it is done is a deadlock; the others may stop anywhere.
MCNext ==
  /\ UNCHANGED about
  /\ \/ about = "task" /\ Next /\ UNCHANGED <<condVars, lines, scopeVars>>
     \/ about = "condition" /\ WriteToken /\ UNCHANGED <<lines, scopeVars, vars>>
     \/ about = "outputs" /\ OutNext /\ UNCHANGED <<condVars, scopeVars, vars>>
     \/ about = "scope" /\ ScopeNext /\ UNCHANGED <<condVars, lines, vars>>
     \/ about # "task" /\ UNCHANGED allVars

MCSpec == MCInit /\ [][MCNext]_allVars
=============================================================================
