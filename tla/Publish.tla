------------------------------ MODULE Publish ------------------------------
(***************************************************************************)
(* What a publish task does to a drive (bin.js runPublishTask,             *)
(* lib/publish/pear-ci.js), on top of what ArtifactFlow says it does with  *)
(* its artifact.  The drive is known by its name and lives with the peers  *)
(* that seed it; between runs this side keeps only a snapshot of its       *)
(* length, in the state directory.  The storage of a run is thrown away.   *)
(*                                                                         *)
(* The drive is the sequence of its blocks, one for each file, and a block *)
(* is the task that appended it, 0 for those of earlier runs.  What        *)
(* stage() does is that of the package pear-ci: it catches up at least to  *)
(* the snapshot, mirrors the directory, waits for a peer to have it all,   *)
(* and writes the snapshot.  It goes on after the timeout until it is      *)
(* closed; whatever it does then it may as well have done before.          *)
(*                                                                         *)
(* An operator that no action uses is the following definition with a bug  *)
(* in it, kept to show that the properties notice.                         *)
(***************************************************************************)
EXTENDS ArtifactFlow, Sequences, SequencesExt

CONSTANTS Drive,       \* names of drives
          Publishings  \* publish: sections, command lines and histories considered

Publishing == [name : [Task -> Drive],
               dryRun : [Task -> BOOLEAN],     \* dry-run in the workflow
               flag : BOOLEAN,                 \* --publish
               seeded : [Drive -> Nat],        \* blocks of earlier runs the peers have
               snapshot : [Drive -> Nat]]      \* and those the snapshot knows of

\* The peers have what the snapshot was written for; it may be lost, or be behind after a
\* publish that was cut off.
ASSUME PublishingsAssumption ==
  /\ Publishings \subseteq Publishing
  /\ \A p \in Publishings, d \in Drive : p.snapshot[d] <= p.seeded[d]

VARIABLES pub,       \* the publishing
          at,        \* Task -> where stage() stands
          peers,     \* Drive -> the blocks the peers have
          snapshot,  \* Drive -> the length in snapshot.json, 0 without it
          local      \* Task -> the blocks in the storage of the task

publishVars == <<flowVars, pub, at, peers, snapshot, local>>

Block == Task \cup {0}

PublishTypeOK == /\ FlowTypeOK
                 /\ pub \in Publishings
                 /\ at \in [Task -> {"opening", "mirroring", "waiting", "written"}]
                 /\ peers \in [Drive -> Seq(Block)] /\ local \in [Task -> Seq(Block)]
                 /\ snapshot \in [Drive -> Nat]

PublishInit == /\ FlowInit
               /\ pub \in Publishings
               /\ at = [t \in Task |-> "opening"]
               /\ peers = [d \in Drive |-> [i \in 1..pub.seeded[d] |-> 0]]
               /\ snapshot = pub.snapshot
               /\ local = [t \in Task |-> <<>>]

-----------------------------------------------------------------------------
DriveOf(t) == pub.name[t]

LiveByWorkflow(t) == ~pub.dryRun[t]

\* Both affirmations, or it is a dry run.
Live(t) == ~pub.dryRun[t] /\ pub.flag

\* What the peers have that t's storage has not seen may be any part beyond the snapshot.
SeenFrom(n, d) == {SubSeq(peers[d], 1, i) : i \in n..Len(peers[d])}

CatchUpToNothing(t) ==
  /\ phase[t] = "staging" /\ at[t] = "opening"
  /\ at' = [at EXCEPT ![t] = "mirroring"]
  /\ \E seen \in SeenFrom(0, DriveOf(t)) : local' = [local EXCEPT ![t] = seen]
  /\ UNCHANGED <<flowVars, pub, peers, snapshot>>

CatchUp(t) ==
  /\ phase[t] = "staging" /\ at[t] = "opening"
  /\ at' = [at EXCEPT ![t] = "mirroring"]
  /\ \E seen \in SeenFrom(snapshot[DriveOf(t)], DriveOf(t)) : local' = [local EXCEPT ![t] = seen]
  /\ UNCHANGED <<flowVars, pub, peers, snapshot>>

\* A dry run only compares.
Mirror(t, f) == /\ at[t] = "mirroring"
                /\ StageFile(t, f)
                /\ local' = IF Live(t) THEN [local EXCEPT ![t] = Append(@, t)] ELSE local
                /\ UNCHANGED <<pub, at, peers, snapshot>>

Mirrored(t) == /\ phase[t] = "staging" /\ at[t] = "mirroring" /\ todo[t] = {}
               /\ at' = [at EXCEPT ![t] = IF Live(t) THEN "waiting" ELSE "written"]
               /\ UNCHANGED <<flowVars, pub, peers, snapshot, local>>

\* A peer takes the next block, unless it has another one in its place.
Replicate(t) == /\ phase[t] = "staging" /\ at[t] \in {"mirroring", "waiting"}
                /\ IsStrictPrefix(peers[DriveOf(t)], local[t])
                /\ peers' = [peers EXCEPT ![DriveOf(t)] = SubSeq(local[t], 1, Len(@) + 1)]
                /\ UNCHANGED <<flowVars, pub, at, snapshot, local>>

SnapshotUnwritten(t) ==
  /\ phase[t] = "staging" /\ at[t] = "waiting"
  /\ IsPrefix(local[t], peers[DriveOf(t)])
  /\ at' = [at EXCEPT ![t] = "written"]
  /\ UNCHANGED <<flowVars, pub, peers, snapshot, local>>

\* remoteContiguousLength has caught up with the length: the snapshot is written.
WriteSnapshot(t) ==
  /\ phase[t] = "staging" /\ at[t] = "waiting"
  /\ IsPrefix(local[t], peers[DriveOf(t)])
  /\ at' = [at EXCEPT ![t] = "written"]
  /\ snapshot' = [snapshot EXCEPT ![DriveOf(t)] = Len(local[t])]
  /\ UNCHANGED <<flowVars, pub, peers, local>>

Undriven == UNCHANGED <<pub, at, peers, snapshot, local>>

\* stage() has returned before the timeout: the record is written.
Publish(t) == /\ at[t] = "written"
              /\ Published(t)
              /\ Undriven

\* Whatever a publish task does before and after stage(), and all that other tasks do.
Elsewhere(t) ==
  /\ \/ StartTask(t) \/ Fetched(t) \/ Built(t) \/ Stored(t) \/ TaskFails(t)
     \/ PublishStart(t) \/ ExtractedAll(t) \/ PublishFails(t)
     \/ \E f \in File : FetchFile(t, f) \/ StoreFile(t, f) \/ ExtractFile(t, f)
  /\ Undriven

PublishNext ==
  \/ \E t \in Task : \/ Elsewhere(t)
                     \/ CatchUp(t) \/ Mirrored(t) \/ Replicate(t) \/ WriteSnapshot(t)
                     \/ Publish(t)
                     \/ \E f \in File : Mirror(t, f)
  \/ Over /\ Undriven

PublishSpec == PublishInit /\ [][PublishNext]_publishVars

-----------------------------------------------------------------------------
(* Properties *)

\* Two tasks publish to one drive, and nothing keeps one from starting before the other ends.
Rivals(t, u) == /\ t # u /\ {t, u} \subseteq flow.publish /\ DriveOf(t) = DriveOf(u)
                /\ ~Ordered(t, u)

\* "the ONLY thing that stops this from forking the drive is the snapshot" (test/publish.js):
\* what a task has appended goes on from what the peers have, unless a publish that was cut
\* off, or a lost snapshot, has left blocks there it does not know of, or the drive has had
\* rivals, which may mislead a later task that has none itself.
ForksExplained ==
  \A t \in flow.publish :
    \/ IsPrefix(local[t], peers[DriveOf(t)]) \/ IsPrefix(peers[DriveOf(t)], local[t])
    \/ pub.snapshot[DriveOf(t)] < pub.seeded[DriveOf(t)]
    \/ \E u, v \in Task : Rivals(u, v) /\ DriveOf(u) = DriveOf(t)

\* A record says that it was published only if the peers have all of it, and the next run
\* will start from there or from what a later task has published.
RecordedIsSeeded ==
  \A t \in flow.publish : (phase[t] = "success" /\ Live(t)) =>
    /\ IsPrefix(local[t], peers[DriveOf(t)])
    /\ \/ snapshot[DriveOf(t)] >= Len(local[t])
       \/ \E u \in Task : Rivals(t, u)

\* A task whose workflow or whose command line did not say so leaves nothing with anybody.
DryRunsLeaveNothing ==
  \A t \in Task, d \in Drive :
    (pub.dryRun[t] \/ ~pub.flag) => \A i \in 1..Len(peers[d]) : peers[d][i] # t
=============================================================================
