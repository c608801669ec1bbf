----------------------------- MODULE MCSandbox -----------------------------
EXTENDS SandboxLife

\* 1 and 2 differ in case only; checkName refuses 4.
MCFold == [n \in Rel |-> IF n = 2 THEN 1 ELSE n]
MCUnfit == {4}

\* One symlink, sizes at and above the limits where they matter.
MCTrees == {t \in [type : [Rel -> {"none", "symlink", "file"}], size : [Rel -> 1..3]] :
              /\ \A n \in {1, 2, 4} : t.type[n] # "symlink"
              /\ t.size[1] = 1 /\ t.size[2] # 3 /\ t.size[4] = 1
              /\ \A n \in Rel : t.type[n] # "file" => t.size[n] = 1}

\* A current agent, with which nothing special happens.
Calm == [orderly |-> TRUE, timed |-> TRUE, offers |-> Op, lists |-> TRUE, leaks |-> FALSE,
         eventful |-> FALSE]

\* And every caller, with a current agent, one that only implements put, one that is too old
\* to list what it implements, and a leak.
MCSettings ==
  {Calm} \cup
  {[base EXCEPT !.orderly = o, !.timed = t, !.eventful = TRUE] :
     base \in {Calm, [Calm EXCEPT !.offers = {"put"}], [Calm EXCEPT !.lists = FALSE],
              [Calm EXCEPT !.leaks = TRUE]},
     o \in BOOLEAN, t \in BOOLEAN}

\* The destination is empty, full, or holds one file; in the settings in which more can
\* happen it is empty, and two files are copied.
FewCalls ==
  /\ before \in {[n \in Rel |-> IF n \in S THEN "old" ELSE "none"] : S \in {{}, {1}, Rel}}
  /\ setting.eventful => /\ \A n \in Rel : tree.type[n] = IF n \in {1, 3} THEN "file" ELSE "none"
                         /\ \A n \in Rel : tree.size[n] = 1 /\ before[n] = "none"
                         /\ match = Rel

CallInit == SandboxInit /\ FewCalls

CallSpec == CallInit /\ [][SandboxNext]_sandboxVars /\ SandboxFairness
=============================================================================
