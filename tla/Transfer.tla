------------------------------ MODULE Transfer ------------------------------
(***************************************************************************)
(* One put or get: the sender packs a tree into an archive (lib/transfer   *)
(* pack), its chunks cross as frames, and the receiver extracts them       *)
(* (lib/transfer extract).  In a put the driver sends (lib/sandbox put)    *)
(* and the agent receives (lib/agent onPut); in a get it is the reverse.   *)
(*                                                                         *)
(* The walk is one synchronous stretch of the sender, so it is one action. *)
(* Frames arrive in order; a frame on its way when the agent dies is one   *)
(* that does not arrive.  An entry takes two frames, its header and its    *)
(* bytes.                                                                  *)
(*                                                                         *)
(* An operator that no action uses is the following definition with a bug  *)
(* in it, kept to show that the properties notice.                         *)
(***************************************************************************)
EXTENDS Naturals, Sequences, FiniteSets, FiniteSetsExt

CONSTANTS NRels,        \* number of paths, numbered in the order of the walk
          Fold,         \* Rel -> what a path is without regard to case
          Unfit,        \* paths checkName refuses
          MaxEntries, MaxFileBytes, MaxBytes,
          Trees         \* trees considered

Rel == 1..NRels

Tree == [type : [Rel -> {"none", "symlink", "file"}], size : [Rel -> Nat]]

ASSUME TransferAssumption ==
  /\ NRels \in Nat /\ MaxEntries \in Nat /\ MaxFileBytes \in Nat /\ MaxBytes \in Nat
  /\ Fold \in [Rel -> Rel]
  /\ Unfit \subseteq Rel
  /\ Trees \subseteq Tree

VARIABLES op,      \* "put" or "get"
          tree,    \* what is at the source
          match,   \* paths the source's globs, or the driver's filter, let through
          before,  \* what was at the destination
          dest,    \* what is at the destination
          call,    \* what the driver's caller has
          served,  \* the agent has begun to answer a get
          agent,   \* "up" or "down"
          frames,  \* frames the receiver has still to get
          ext,     \* the extraction
          failure, \* failure in get(): an ERROR frame has come
          counts   \* files in the answer: counts in get(), the reply of put()

vars == <<op, tree, match, before, dest, call, served, agent, frames, ext, failure, counts>>

asked == <<op, tree, match, before>>

Content == {"none", "old", "partial", "new"}

NoCount == NRels + 1

Extraction == [state : {"idle", "running", "resolved", "rejected"},
               open : Rel \cup {0},       \* the entry whose bytes are to come
               failed : BOOLEAN,
               lowered : SUBSET Rel,      \* paths accepted so far
               entries : 0..NRels, files : 0..NRels, bytes : Nat]

NewExtraction == [state |-> "running", open |-> 0, failed |-> FALSE, lowered |-> {},
                  entries |-> 0, files |-> 0, bytes |-> 0]

-----------------------------------------------------------------------------
(* pack *)

\* A symlink, and a file that is too large, are passed over; nobody hears of it in a get.
Packed == {n \in Rel : tree.type[n] = "file" /\ n \in match /\ tree.size[n] <= MaxFileBytes}

BytesOf(S) == MapThenSumSet(LAMBDA n : tree.size[n], S)

\* The walk throws at the file that would exceed the limit; the packer then gives an error
\* and no chunk.
TooMuch == BytesOf(Packed) > MaxBytes

Chunk(n, part) == [kind |-> "CHUNK", rel |-> n, part |-> part]

\* The packed files in the order of the walk.
Walk == CHOOSE w \in [1..Cardinality(Packed) -> Packed] :
          \A i, j \in DOMAIN w : i < j => w[i] < w[j]

\* The archive: of each file a header and then its bytes.
Archive == [c \in 1..2 * Len(Walk) |->
              Chunk(Walk[(c + 1) \div 2], IF c % 2 = 1 THEN "header" ELSE "bytes")]

Start == [kind |-> "START"]
End == [kind |-> "END"]
Done(n) == [kind |-> "DONE", files |-> n]
Error == [kind |-> "ERROR"]
StreamEnd == [kind |-> "end"]
StreamClose == [kind |-> "close"]

Init == /\ op \in {"put", "get"}
        /\ tree \in Trees
        /\ match \in SUBSET Rel
        /\ before \in [Rel -> {"none", "old"}]
        /\ dest = before
        /\ call = "none" /\ served = FALSE /\ agent = "up" /\ frames = <<>>
        /\ ext = [NewExtraction EXCEPT !.state = "idle"]
        /\ failure = FALSE /\ counts = NoCount

-----------------------------------------------------------------------------
(* The sender *)


Put ==
  /\ call = "none" /\ op = "put" /\ ~TooMuch
  /\ call' = "waiting"
  /\ frames' = <<Start>> \o Archive \o <<End>>
  /\ UNCHANGED <<asked, dest, served, agent, ext, failure, counts>>

\* The walk throws, for a limit or a file it cannot read: put rejects, and leaves the
\* stream as it is.
PutFails ==
  /\ call = "none" /\ op = "put"
  /\ call' = "rejected"
  /\ frames' = <<Start>>
  /\ UNCHANGED <<asked, dest, served, agent, ext, failure, counts>>

\* freshDir refuses a destination that holds something.
Get ==
  /\ call = "none" /\ op = "get"
  /\ IF \E n \in Rel : dest[n] # "none" THEN call' = "rejected" /\ UNCHANGED ext
     ELSE call' = "waiting" /\ ext' = NewExtraction
  /\ UNCHANGED <<asked, dest, served, agent, frames, failure, counts>>

Serving == call = "waiting" /\ op = "get" /\ ~served /\ agent = "up"

Answer(f) == /\ served' = TRUE /\ frames' = f \o <<StreamEnd>>
             /\ UNCHANGED <<asked, dest, call, agent, ext, failure, counts>>

Serve == /\ Serving /\ ~TooMuch
         /\ Answer(Archive \o <<Done(Cardinality(Packed))>>)

\* The walk throws, there is no such path, or there are globs and no engine for them.
ServeError == /\ Serving
              /\ Answer(<<Error>>)

\* The stream of a get ends or closes under the driver; nobody reads what was put.
AgentDies ==
  /\ call = "waiting" /\ agent = "up"
  /\ agent' = "down" /\ served' = TRUE
  /\ IF op = "put" THEN UNCHANGED frames
     ELSE \E k \in 0..Len(frames), last \in {StreamEnd, StreamClose} :
            frames' = SubSeq(frames, 1, k) \o <<last>>
  /\ UNCHANGED <<asked, dest, call, ext, failure, counts>>

-----------------------------------------------------------------------------
(* The receiver *)

Arrives(kind) == /\ frames # <<>> /\ Head(frames).kind = kind
                 /\ op = "put" => agent = "up"
                 /\ frames' = Tail(frames)
                 /\ UNCHANGED <<asked, call, served, agent>>

\* The directory may be there, with whatever is in it.
ReceiveStart == /\ Arrives("START")
                /\ ext' = NewExtraction
                /\ UNCHANGED <<dest, failure, counts>>

CollidesNever(n) == \/ ext.entries + 1 > MaxEntries
                    \/ n \in Unfit
                    \/ tree.size[n] > MaxFileBytes \/ ext.bytes + tree.size[n] > MaxBytes

\* What extract refuses an entry for, from its header.
Refused(n) == \/ ext.entries + 1 > MaxEntries
              \/ n \in Unfit
              \/ \E m \in ext.lowered : m # n /\ Fold[m] = Fold[n]
              \/ tree.size[n] > MaxFileBytes \/ ext.bytes + tree.size[n] > MaxBytes

HeaderGoesOn == /\ Arrives("CHUNK") /\ Head(frames).part = "header"
                /\ LET n == Head(frames).rel
                   IN  ext' = IF Refused(n) THEN [ext EXCEPT !.entries = @ + 1]
                              ELSE [ext EXCEPT !.entries = @ + 1, !.open = n,
                                               !.lowered = @ \cup {n}]
                /\ UNCHANGED <<dest, failure, counts>>

\* After a failure the rest is read and dropped.
ReceiveHeader == /\ Arrives("CHUNK") /\ Head(frames).part = "header"
                 /\ LET n == Head(frames).rel
                    IN  ext' = IF ext.failed THEN ext
                               ELSE IF Refused(n) THEN [ext EXCEPT !.entries = @ + 1,
                                                                   !.failed = TRUE]
                               ELSE [ext EXCEPT !.entries = @ + 1, !.open = n,
                                                !.lowered = @ \cup {n}]
                 /\ UNCHANGED <<dest, failure, counts>>

\* The bytes of an entry that was accepted are written at once, or cannot be.
ReceiveBytes ==
  /\ Arrives("CHUNK") /\ Head(frames).part = "bytes"
  /\ LET n == Head(frames).rel
     IN  \/ /\ ext.open # n
            /\ UNCHANGED <<ext, dest>>
         \/ /\ ext.open = n
            /\ ext' = [ext EXCEPT !.open = 0, !.files = @ + 1, !.bytes = @ + tree.size[n]]
            /\ dest' = [dest EXCEPT ![n] = "new"]
         \/ /\ ext.open = n
            /\ ext' = [ext EXCEPT !.open = 0, !.failed = TRUE]
            /\ dest' \in {dest, [dest EXCEPT ![n] = "partial"]}
  /\ UNCHANGED <<failure, counts>>

\* incoming.push(null): the parser notices an entry cut short, not an archive cut short.
InputEnds ==
  ext' = IF ext.state # "running" THEN ext
         ELSE [ext EXCEPT !.state = IF ext.failed \/ ext.open # 0 THEN "rejected"
                                    ELSE "resolved"]

ReceiveEnd == /\ Arrives("END") \/ Arrives("end")
              /\ InputEnds
              /\ UNCHANGED <<dest, failure, counts>>

ReceiveDone == /\ Arrives("DONE")
               /\ InputEnds
               /\ counts' = Head(frames).files
               /\ UNCHANGED <<dest, failure>>

ReceiveErrorEndsOnly == /\ Arrives("ERROR")
                        /\ InputEnds
                        /\ UNCHANGED <<dest, failure, counts>>

ReceiveError == /\ Arrives("ERROR")
                /\ InputEnds
                /\ failure' = TRUE
                /\ UNCHANGED <<dest, counts>>

\* get() does not listen to close.
ReceiveClose == /\ Arrives("close")
                /\ UNCHANGED <<dest, ext, failure, counts>>

Extracted == call = "waiting" /\ ext.state \in {"resolved", "rejected"}

GetReturns == /\ op = "get" /\ Extracted
              /\ call' = IF ext.state = "rejected" \/ failure THEN "rejected" ELSE "resolved"
              /\ UNCHANGED <<asked, dest, served, agent, frames, ext, failure, counts>>

\* The agent replies with ok and its counts.
PutReturns == /\ op = "put" /\ Extracted /\ agent = "up"
              /\ call' = ext.state
              /\ counts' = ext.files
              /\ UNCHANGED <<asked, dest, served, agent, frames, ext, failure>>

\* A reply that cannot come any more.
PutLost == /\ op = "put" /\ call = "waiting" /\ agent = "down"
           /\ call' = "rejected"
           /\ UNCHANGED <<asked, dest, served, agent, frames, ext, failure, counts>>

-----------------------------------------------------------------------------
Receives == \/ ReceiveStart \/ ReceiveHeader \/ ReceiveBytes \/ ReceiveEnd \/ ReceiveDone
            \/ ReceiveError \/ ReceiveClose

Next == \/ Put \/ PutFails \/ Get \/ Serve \/ ServeError \/ AgentDies
        \/ Receives \/ GetReturns \/ PutReturns \/ PutLost

Spec == Init /\ [][Next]_vars

-----------------------------------------------------------------------------
(* Properties *)

TypeOK == /\ op \in {"put", "get"} /\ tree \in Trees /\ match \in SUBSET Rel
          /\ before \in [Rel -> {"none", "old"}] /\ dest \in [Rel -> Content]
          /\ call \in {"none", "waiting", "resolved", "rejected"}
          /\ served \in BOOLEAN /\ agent \in {"up", "down"} /\ failure \in BOOLEAN
          /\ ext \in Extraction /\ counts \in Nat
          /\ ext.open # 0 => ~ext.failed /\ ext.open \in ext.lowered

\* The files of S have been copied, and nothing else has changed.
Copied(S) == \A n \in Rel : dest[n] = IF n \in S THEN "new" ELSE before[n]

FreshAtFirst == \A n \in Rel : before[n] = "none"

\* "extraction only into a fresh empty directory" (DEVELOPMENT.md:243): what was there before
\* is not mixed with what an archive brings, nor replaced by it.
OnlyIntoFresh == dest # before => FreshAtFirst

\* A call that resolves after the sender has said that this was all (DONE, or END with the
\* agent's reply) has copied every packed file, and both sides agree on how many there were.
\* A get has done so into a fresh directory, and a call that has done so has left there what
\* was packed and nothing else.  The exception is a put into a directory that holds something,
\* which the agent does not refuse (lib/agent/index.js:406): of what it leaves there only the
\* packed files are spoken of, and OnlyIntoFresh is about the rest.
ResolvedIsWhole ==
  (call = "resolved" /\ counts # NoCount) =>
    /\ \A n \in Packed : dest[n] = "new"
    /\ counts = ext.files /\ counts = Cardinality(Packed)
    /\ op = "get" => FreshAtFirst
    /\ FreshAtFirst => \A n \in Rel : dest[n] = IF n \in Packed THEN "new" ELSE "none"

\* Only when the agent has died does a get resolve without that, and then it has at least
\* no half a file: it has the first files of the walk, whole.
CutBetweenFiles ==
  call = "resolved" => /\ \E n \in 0..NRels : Copied({m \in Packed : m <= n})
                       /\ counts = NoCount => agent = "down"

\* Whatever pack makes of a tree and wherever that is cut, what extract has written is within
\* the limits, no path of it is unfit, and no two differ in case only.  Archives that pack does
\* not make, with an entry twice or a header that lies, are not among what arrives here.
WritesOnlyAllowed ==
  LET written == {n \in Rel : dest[n] \in {"new", "partial"}}
  IN  /\ written \cap Unfit = {}
      /\ \A m, n \in written : Fold[m] = Fold[n] => m = n
      /\ \A n \in written : tree.size[n] <= MaxFileBytes
      /\ BytesOf(written) <= MaxBytes /\ Cardinality(written) <= MaxEntries
=============================================================================
