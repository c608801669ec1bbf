---------------------------- MODULE MCRunCommand ----------------------------
EXTENDS Schema

\* The first job is built for every target, the others for one.
MCTargets == [j \in Job |-> IF j = 1 THEN Target ELSE {CHOOSE t \in Target : TRUE}]

\* The first job needs any others, the others at most one each: chains, diamonds, one cycle
\* or two.
Graphs == {[j \in Job |-> IF j = 1 THEN first ELSE rest[j]] :
             first \in SUBSET (Job \ {1}),
             rest \in {r \in [2..NJobs -> {{}} \cup {{i} : i \in Job}] :
                          \A j \in 2..NJobs : j \notin r[j]}}

\* A chain, kept as a whole or up to its second job.
Chains == {[needs |-> [j \in Job |-> {j - 1} \cap Job], targets |-> MCTargets, only |-> o] :
             o \in {0, 2}}

MCWorkflows ==
  Chains \cup {[needs |-> g, targets |-> MCTargets, only |-> o] : g \in Graphs, o \in {0, NJobs}}

AnImage == CHOOSE i \in Image : TRUE

\* A workflow about which nothing is special.
Plain(w) == [wf |-> w, jobKnown |-> TRUE, flag |-> "microvm",
             tier |-> [j \in Job |-> "none"], image |-> [j \in Job |-> AnImage],
             publish |-> {}, stray |-> {},
             prefetch |-> [j \in Job |-> {}]]

TierOf(a, b) == [j \in Job |-> IF j = 1 THEN a ELSE IF j = 2 THEN b ELSE "none"]

\* Every graph; and on a chain, every way to ask for a tier, two images and a publish job,
\* and every way to ask for packages.
SomeCommands ==
  {Plain(w) : w \in MCWorkflows}
  \cup {[Plain(w) EXCEPT !.jobKnown = FALSE] : w \in Chains}
  \cup {[Plain(w) EXCEPT !.flag = f, !.tier = TierOf(a, b)] :
          w \in Chains, f \in Tier \cup {"none", "unknown"},
          a \in Tier \cup {"none"}, b \in Tier \cup {"none"}}
  \cup {[Plain(w) EXCEPT !.image = [j \in Job |-> IF j = i THEN k ELSE AnImage],
                         !.publish = {i}] :
          w \in Chains, i \in Job, k \in Image}
  \cup {[Plain(w) EXCEPT !.prefetch = [j \in Job |-> IF j = NJobs THEN p ELSE {}]] :
          w \in Chains, p \in SUBSET {"npm", "npm-dev"}}

\* The file that says what a command has been said to find; a publish job publishes what
\* every other job makes.
FileOf(c) ==
  [sound |-> TRUE, tier |-> "none", targets |-> {Host},
   only |-> c.wf.only, jobKnown |-> c.jobKnown, flag |-> c.flag,
   jobs |-> [j \in Job |->
     [publishes |-> j \in c.publish, odd |-> FALSE, needs |-> c.wf.needs[j],
      artifact |-> "app", out |-> IF j \in c.publish THEN {} ELSE {"app"},
      tier |-> c.tier[j], targets |-> c.wf.targets[j],
      image |-> c.image[j], prefetch |-> c.prefetch[j]]]]

\* The last two jobs: one that publishes and one that is before it, or not.  The others are a
\* chain, of which the first makes something.
Publishing(w, n, o, a, m) ==
  [FileOf(Plain(w)) EXCEPT
     !.jobs[NJobs] = [@ EXCEPT !.publishes = TRUE, !.odd = o, !.needs = n, !.artifact = a],
     !.jobs[1].out = m, !.jobs[2].out = {}, !.jobs[3].out = {}]

AChain == CHOOSE w \in Chains : w.only = 0

SomeFiles ==
  {FileOf(c) : c \in SomeCommands}
  \cup {[FileOf(Plain(AChain)) EXCEPT !.sound = FALSE]}
  \cup {[FileOf(Plain(AChain)) EXCEPT !.jobs[j].needs = n] :
          j \in Job, n \in SUBSET {1, 2, Nowhere}}
  \cup {[FileOf(Plain(w)) EXCEPT !.jobs[j].needs = @ \cup {Inherited}] : w \in Chains, j \in Job}
  \cup {[Publishing(AChain, {3}, FALSE, "app", {"app"}) EXCEPT
            !.jobs[j].needs = @ \cup {Inherited}] : j \in Job}
  \cup {Publishing(w, n, o, a, m) :
          w \in {AChain, [AChain EXCEPT !.needs[1] = {3}]}, o \in BOOLEAN,
          n \in SUBSET {1, 3, NJobs}, a \in Artifact, m \in SUBSET Artifact}
  \cup {[FileOf([Plain(AChain) EXCEPT !.tier = TierOf(a, b), !.flag = f]) EXCEPT
            !.tier = t, !.jobs[3].targets = {}, !.targets = Target] :
          a \in Tier \cup {"none"}, b \in Tier \cup {"none"}, t \in Tier,
          f \in {"none", "container"}}

MCFiles == SomeFiles

MCCommands == {Read(f) : f \in SomeFiles}

MCAllWorkflows == {c.wf : c \in MCCommands}

MCBeginsLike == [t \in Template |-> {"app-win"}]

\* Any two of a few packages: pinned, for developers, bad or skipped.  Only one hash is ever
\* listed with another beside it, so that a file named by any other has one right content.
Twin == CHOOSE b \in Bytes : TRUE

SomePackages ==
  {[kind |-> "pinned", dev |-> d, first |-> b, hashes |-> h] :
     d \in BOOLEAN, b \in Bytes, h \in SUBSET Bytes}
  \cup {[kind |-> k, dev |-> FALSE, first |-> b, hashes |-> {}] :
          k \in {"bad", "skipped"}, b \in Bytes}

MCLockfiles == [Url -> {p \in SomePackages : /\ p.dev => p.hashes = {p.first}
                                             /\ p.first = Twin \/ p.hashes \subseteq {p.first}}]
=============================================================================
