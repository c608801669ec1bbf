----------------------------- MODULE RunCommand -----------------------------
(***************************************************************************)
(* The command `run' (bin.js) up to its first task: the checks it makes, in *)
(* their order and each with its exit code, the search of Expand among     *)
(* them, and the prefetch (lib/prefetch.js), whose cache outlives the run.  *)
(*                                                                         *)
(* What the host and the repository hold is looked at when the code looks, *)
(* and may be anything.  A run may die while it prefetches or schedules;   *)
(* before that a death leaves what a refusal leaves.                       *)
(*                                                                         *)
(* Bytes stand for their own hash, by one algorithm.  A file of the cache  *)
(* is "none" when it is missing or empty, and "cut" when a write was not   *)
(* finished.                                                               *)
(*                                                                         *)
(* An operator that no action uses is the following definition with a bug  *)
(* in it, kept to show that the properties notice.                         *)
(***************************************************************************)
EXTENDS Expand

CONSTANTS Commands,   \* workflows with the rest of what a command line and a file say
          Image,      \* sandbox images
          Url,        \* tarballs a lockfile may pin
          Bytes,      \* what a tarball may hold
          Lockfiles,  \* lockfiles the repository may hold
          MaxRuns     \* bound: runs after each other with one state directory

Tier == {"container", "microvm"}

Rank == [t \in Tier |-> IF t = "microvm" THEN 90 ELSE 50]

Command == [wf : Workflows,
            jobKnown : BOOLEAN,                        \* --job, if any, names a job
            flag : Tier \cup {"none", "unknown"},      \* --tier
            tier : [Job -> Tier \cup {"none"}],        \* tier: of each job
            image : [Job -> Image],
            publish : SUBSET Job,
            stray : SUBSET Job,                        \* jobs that need what is no job
            prefetch : [Job -> SUBSET {"npm", "npm-dev"}]]

\* A package of a lockfile: the first hash listed, which names its file, and the hashes of a
\* known algorithm, one of which must fit.  One for each URL: a later package replaces an
\* earlier one.  What is skipped is a link or has no URL; what is bad has a URL that is not
\* allowed, or no hash.
Package == [kind : {"skipped", "bad", "pinned"},
            dev : BOOLEAN,
            first : Bytes,
            hashes : SUBSET Bytes]

Absent == {"none", "cut"}

ASSUME CommandAssumption == /\ Commands \subseteq Command
                            /\ Lockfiles \subseteq [Url -> Package]
                            /\ Bytes \cap Absent = {}
                            /\ MaxRuns \in Nat

VARIABLES cmd,      \* the command line and the workflow
          place,    \* where the command stands
          code,     \* the exit code, 0 until another is set
          tier,     \* the tier resolved
          digests,  \* the images found
          lock,     \* the packages wanted from the lockfile read
          pending,  \* those the prefetch has still to look at
          lost,     \* whether some package could not be had
          cache,    \* Bytes -> the file of the cache named by them
          runs      \* runs begun

preVars == <<cmd, place, code, tier, digests, lock, pending, lost, cache, runs>>
allVars == <<vars, preVars>>

Over == {"refused", "done", "dead"}

CommandTypeOK ==
  /\ wf = cmd.wf
  /\ place \in {"parse", "tier", "expand", "env", "images", "upgrade", "keys", "lockfile",
                "prefetch", "scheduling"} \cup Over
  /\ code \in {0, 1, 2, 78}
  /\ place = "refused" => code # 0
  /\ code # 0 => place \in {"refused", "done"}
  /\ tier \in Tier \cup {"none"}
  /\ digests \subseteq Image
  /\ lock \in [{u \in Url : u \in DOMAIN lock} -> Package]
  /\ pending \subseteq DOMAIN lock
  /\ lost \in BOOLEAN
  /\ cache \in [Bytes -> Bytes \cup Absent]
  /\ runs \in 1..MaxRuns

NoPackages == [u \in {} |-> 0]

CommandInit == /\ cmd \in Commands /\ wf = cmd.wf
               /\ Init
               /\ place = "parse" /\ code = 0
               /\ tier = "none" /\ digests = {}
               /\ lock = NoPackages /\ pending = {} /\ lost = FALSE
               /\ cache = [b \in Bytes |-> "none"]
               /\ runs = 1

-----------------------------------------------------------------------------
(* The checks *)

Refuse(c) == /\ place' = "refused" /\ code' = c
             /\ UNCHANGED <<vars, cmd, tier, digests, lock, pending, lost, cache, runs>>

Proceed(to) == /\ place' = to
               /\ UNCHANGED <<vars, cmd, code, tier, digests, lock, pending, lost, cache, runs>>

Parse == /\ place = "parse"
         /\ Proceed("tier") \/ Refuse(1)

WeakestOf(D) == CHOOSE t \in D : \A o \in D : Rank[t] <= Rank[o]

StrongestOf(D) == CHOOSE t \in D : \A o \in D : Rank[t] >= Rank[o]

Declared == {cmd.tier[j] : j \in Job} \ {"none"}

\* The tier required: what the command line says, else the strongest a job declares.
MinTier == IF cmd.flag # "none" THEN cmd.flag
           ELSE IF Declared = {} THEN "microvm"
           ELSE StrongestOf(Declared)

\* best is the strongest tier the host has.
ResolveTier ==
  /\ place = "tier"
  /\ \E best \in Tier \cup {"none"} :
       IF /\ MinTier \in Tier /\ best \in Tier
          /\ Rank[best] >= Rank[MinTier]
       THEN /\ tier' = best /\ place' = "expand"
            /\ UNCHANGED <<vars, cmd, code, digests, lock, pending, lost, cache, runs>>
       ELSE Refuse(78)

\* transitive comes upon a name that every object has, such as constructor, finds a
\* function there and throws, as it has no needs.
Astray == wf.only # 0 /\ keep \cap cmd.stray # {}

Expanding == /\ place = "expand"
             /\ wf.only # 0 => cmd.jobKnown /\ ~Astray
             /\ Search /\ UNCHANGED preVars

Expanded == /\ place = "expand"
            /\ \/ wf.only # 0 /\ ~cmd.jobKnown /\ Refuse(2)
               \/ Astray /\ Refuse(2)
               \/ state = "cycle" /\ Refuse(1)
               \/ state = "accepted" /\ Proceed("env")

CheckEnv == /\ place = "env"
            /\ Proceed("images") \/ Refuse(2)

\* Every distinct image of the tasks, publish tasks included, is inspected once.
FindImages ==
  /\ place = "images"
  /\ \E built \in SUBSET {cmd.image[j] : j \in keep} :
       IF \A j \in keep : cmd.image[j] \in built
       THEN /\ digests' = built /\ place' = "upgrade"
            /\ UNCHANGED <<vars, cmd, code, tier, lock, pending, lost, cache, runs>>
       ELSE Refuse(78)

\* package.json has the expected link, or another one, or cannot be read.
CheckUpgrade == /\ place = "upgrade"
                /\ Proceed("keys") \/ Refuse(1) \/ Refuse(2)

\* The keys of every publish job of the file, kept or not.
CheckKeys == /\ place = "keys"
             /\ \/ Proceed("lockfile")
                \/ cmd.publish # {} /\ Refuse(78)

-----------------------------------------------------------------------------
(* planFromLockfile *)

Prefetchers == UNION {cmd.prefetch[j] : j \in keep}

Considered(l) == {u \in Url : /\ l[u].kind # "skipped"
                              /\ l[u].dev => "npm-dev" \in Prefetchers}

Problems(l) == {u \in Considered(l) : l[u].kind = "bad"}

Plan(l) == [u \in Considered(l) |-> l[u]]

\* The lockfile is that of the job of the first task, whichever that is.
ReadLockfile ==
  /\ place = "lockfile"
  /\ IF Prefetchers = {}
     THEN Proceed("scheduling")
     ELSE \/ Refuse(2)   \* it is missing
          \/ Refuse(1)   \* it is not JSON
          \/ \E l \in Lockfiles :
               IF Problems(l) # {}
               THEN Refuse(1)
               ELSE /\ lock' = Plan(l) /\ pending' = DOMAIN Plan(l)
                    /\ place' = "prefetch"
                    /\ UNCHANGED <<vars, cmd, code, tier, digests, lost, cache, runs>>

-----------------------------------------------------------------------------
(* run (lib/prefetch.js) *)

\* contentPath
File(u) == lock[u].first

\* statSync finds a file that is not empty.
CachedNever(u) == FALSE

Cached(u) == cache[File(u)] # "none"

FitsAlways(u, bytes) == TRUE

\* verifyIntegrity: any of the hashes will do.
Fits(u, bytes) == bytes \in lock[u].hashes

LookAt(u) == /\ place = "prefetch"
             /\ u \in pending
             /\ pending' = pending \ {u}
             /\ UNCHANGED <<vars, cmd, tier, digests, lock, runs>>

SkipCached(u) == /\ LookAt(u) /\ Cached(u)
                 /\ UNCHANGED <<place, code, lost, cache>>

\* The fetch fails, or answers with bytes that do not fit.
Lose(u) == /\ LookAt(u) /\ ~Cached(u)
           /\ lost' = TRUE
           /\ UNCHANGED <<place, code, cache>>

\* The fetch answers with bytes that fit, and they are written.
Keep(u) == /\ LookAt(u) /\ ~Cached(u)
           /\ \E bytes \in Bytes : /\ Fits(u, bytes)
                                   /\ cache' = [cache EXCEPT ![File(u)] = bytes]
           /\ UNCHANGED <<place, code, lost>>

\* The write ends with nothing or a part of the tarball in place: the disk is full and run
\* throws, or the runner dies.
KeepFails(u) == /\ LookAt(u) /\ ~Cached(u)
                /\ \E bytes \in Bytes : Fits(u, bytes)
                /\ \E part \in Absent : cache' = [cache EXCEPT ![File(u)] = part]
                /\ \/ place' = "refused" /\ code' = 1
                   \/ place' = "dead" /\ UNCHANGED code
                /\ UNCHANGED lost

\* All packages have been looked at; strict is the default.
PrefetchEnds == /\ place = "prefetch" /\ pending = {}
                /\ IF lost THEN Refuse(1) ELSE Proceed("scheduling")

-----------------------------------------------------------------------------
(* The schedule, and what follows a run *)

\* schedule returns: exit code 1 iff a task failed.
Finish == /\ place = "scheduling"
          /\ \E c \in {0, 1} : code' = c
          /\ place' = "done"
          /\ UNCHANGED <<vars, cmd, tier, digests, lock, pending, lost, cache, runs>>

Die == /\ place \in {"prefetch", "scheduling"}
       /\ Proceed("dead")

\* The same command again, with the same state directory.
Again == /\ place \in Over /\ runs < MaxRuns
         /\ runs' = runs + 1
         /\ place' = "parse" /\ code' = 0
         /\ tier' = "none" /\ digests' = {}
         /\ lock' = NoPackages /\ pending' = {} /\ lost' = FALSE
         /\ stack' = IF wf.only = 0 THEN {} ELSE {wf.only}
         /\ keep' = IF wf.only = 0 THEN Job ELSE {}
         /\ colour' = [j \in Job |-> "white"]
         /\ path' = <<>> /\ cycle' = <<>>
         /\ todo' = [j \in Job |-> {}]
         /\ state' = "closing"
         /\ UNCHANGED <<wf, cmd, cache>>

\* The checks of a file that has been parsed.
Checks == \/ ResolveTier \/ Expanding \/ Expanded \/ CheckEnv
          \/ FindImages \/ CheckUpgrade \/ CheckKeys \/ ReadLockfile
          \/ (\E u \in Url : SkipCached(u) \/ Lose(u) \/ Keep(u) \/ KeepFails(u))
          \/ PrefetchEnds

Preflight == Parse \/ Checks

Ended == place \in Over /\ runs = MaxRuns /\ UNCHANGED allVars

CommandNext == Preflight \/ Finish \/ Die \/ Again \/ Ended

CommandSpec == CommandInit /\ [][CommandNext]_allVars /\ WF_allVars(Preflight)

-----------------------------------------------------------------------------
(* Properties *)

\* The isolation is what the command line asks for, else what every job of the file
\* declares, else the default.
IsolatedEnough ==
  IF cmd.flag # "none" THEN Rank[tier] >= Rank[cmd.flag]
  ELSE /\ \A j \in Job : cmd.tier[j] # "none" => Rank[tier] >= Rank[cmd.tier[j]]
       /\ (\A j \in Job : cmd.tier[j] = "none") => tier = "microvm"

\* Whether the file of u has been verified, against u or against another package of the same
\* lockfile that it serves as well.
Verified(u) == \E v \in DOMAIN lock : File(v) = File(u) /\ cache[File(u)] \in lock[v].hashes

\* No task starts before every check has passed: the tasks have no cycle, the isolation is
\* what --tier says or else what every job declares, every image is known by its digest, and
\* every package of the one lockfile read, that of the first task's job (bin.js:372), has its
\* file.  In the first run with a cache that file has been verified; in later runs it may be
\* any that is not empty (lib/prefetch.js:174), one cut by a write that ended early included,
\* although "every tarball is verified [...] before it is kept" (lib/prefetch.js:18): the
\* exception that TarballsVerified is about.
StartsPrepared ==
  place = "scheduling" =>
    /\ state = "accepted" /\ AcyclicJobs
    /\ tier \in Tier /\ IsolatedEnough
    /\ \A j \in keep : cmd.image[j] \in digests
    /\ \A u \in DOMAIN lock : Cached(u) /\ (runs = 1 => Verified(u))

\* "EVERY TARBALL IS VERIFIED against the lockfile's `integrity' before it is kept"
\* (lib/prefetch.js:18): what a task finds in the cache as a package of the lockfile is a
\* tarball that has been verified, and not a part of one.
TarballsVerified == place = "scheduling" => \A u \in DOMAIN lock : cache[File(u)] \in Bytes

\* Across refusals, deaths and runs with other lockfiles, a file of the cache holds bytes
\* that some lockfile allows under its name, or is missing, or was cut by a write that
\* ended early: what TarballsVerified finds kept without having been verified, and the only
\* such thing.  Where lockfiles list one hash each, that is the bytes it is named by.
NamedByContent ==
  \A b \in Bytes :
    \/ cache[b] \in Absent
    \/ \E l \in Lockfiles, u \in Url : /\ l[u].kind = "pinned" /\ l[u].first = b
                                       /\ cache[b] \in l[u].hashes

\* What has been verified and kept is neither replaced nor cut by anything later.
VerifiedStays ==
  [][\A b \in Bytes : cache[b] \in Bytes => cache'[b] = cache[b]]_allVars

\* Every run that begins is refused, dies, or gets to its tasks: no check waits for ever,
\* as long as the registry answers.
PreflightEnds == (place = "parse") ~> (place \in Over \cup {"scheduling"})
=============================================================================
