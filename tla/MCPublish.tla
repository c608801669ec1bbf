----------------------------- MODULE MCPublish -----------------------------
EXTENDS Publish, FiniteSets

CONSTANTS x, y, f1, f2, app, tool

MCNeeds == {n \in [Task -> SUBSET Task] : /\ \A t \in Task : \A u \in n[t] : u < t
                                          /\ n[4] = {1, 2, 3}}

\* Three tasks, each of which takes or makes at most one artifact, and one after them; x is
\* everybody's favourite, y is made by the first task or by nobody.  Upstream of a task that
\* publishes, parse has found one that makes something, whatever its template comes to.
Trios ==
  {w \in [needs : MCNeeds, publish : SUBSET {1, 2, 3},
          takes : {a \in [Task -> {x, NoName}] : a[4] = NoName}
                  \cup {[t \in Task |-> IF t \in {1, 4} THEN NoName ELSE y]},
          makes : {a \in [Task -> {x, NoName}] : a[4] = NoName}
                  \cup {[t \in Task |-> IF t = 1 THEN y ELSE IF t = 4 THEN NoName ELSE x]},
          files : {[t \in Task |-> IF t = 2 THEN {f1} ELSE File]}] :
     \A t \in w.publish : /\ w.makes[t] = NoName /\ w.takes[t] # NoName
                          /\ \E u \in UpstreamIn(w.needs, t) : w.makes[u] # NoName}

\* A maker and three publish tasks after it, of which the last waits for one or both of the
\* others.
Publishers ==
  {[needs |-> [t \in Task |-> IF t = 1 THEN {} ELSE {1} \cup n[t]],
    publish |-> {2, 3, 4},
    takes |-> [t \in Task |-> IF t = 1 THEN NoName ELSE x],
    makes |-> [t \in Task |-> IF t = 1 THEN x ELSE NoName],
    files |-> [t \in Task |-> {f1}]] :
     n \in {<<{}, {}, a, b>> : a \in {{}, {2}}, b \in {{3}, {2, 3}}}}

MCFlows == Trios \cup Publishers

To(d, dry, flag, seeded, snap) ==
  [name |-> [t \in Task |-> IF t = 3 THEN d ELSE app],
   dryRun |-> [t \in Task |-> t = dry], flag |-> flag,
   seeded |-> [e \in Drive |-> seeded], snapshot |-> [e \in Drive |-> snap]]

\* One drive after no publish, a whole one, one that was cut off, or with its snapshot lost;
\* the third task alone making a dry run, or the whole run; and two drives.
MCPublishings == {To(app, 0, TRUE, 0, 0), To(app, 3, TRUE, 1, 1), To(app, 0, TRUE, 2, 1),
                  To(app, 0, FALSE, 1, 0), To(tool, 0, TRUE, 1, 1)}

\* The one in which everybody publishes in earnest, after a publish that went well, and the
\* second task of those that take x has a drive of its own.
InEarnest == {To(tool, 0, TRUE, 1, 1)}
=============================================================================
