---------------------------- MODULE SandboxProofs ----------------------------
(***************************************************************************)
(* Theorems about SandboxLife and the Transfer in it, for any tree, limits *)
(* and settings.                                                           *)
(***************************************************************************)
EXTENDS SandboxLife, SequenceTheorems, Induction

(* The walk *)

Rising(w) == \A i, j \in DOMAIN w : i < j => w[i] < w[j]

\* The numbers of a finite set can be put in order.
LEMMA OrderExists ==
  ASSUME NEW N \in Nat
  PROVE  \A S \in SUBSET (1..N) : \E w \in [1..Cardinality(S) -> S] : Rising(w)
<1> DEFINE T == {n \in Nat : \A S \in SUBSET (1..n) :
                            \E w \in [1..Cardinality(S) -> S] : Rising(w)}
<1>1. 0 \in T
  <2>1. ASSUME NEW S \in SUBSET (1..0) PROVE \E w \in [1..Cardinality(S) -> S] : Rising(w)
    <3>0. S = {}
      OBVIOUS
    <3>1. S = {} /\ Cardinality(S) = 0
      BY <3>0, FS_EmptySet
    <3> DEFINE w == [i \in 1..0 |-> i]
    <3>2. w \in [1..0 -> S] /\ Rising(w)
      BY DEF Rising
    <3> QED BY <3>1, <3>2
  <2> QED BY <2>1
<1>2. ASSUME NEW n \in Nat, n \in T PROVE n + 1 \in T
  <2>1. ASSUME NEW S \in SUBSET (1..(n + 1))
        PROVE  \E w \in [1..Cardinality(S) -> S] : Rising(w)
    <3> DEFINE R == S \ {n + 1}
               k == Cardinality(R)
    <3>1. R \in SUBSET (1..n) /\ IsFiniteSet(S) /\ IsFiniteSet(R) /\ k \in Nat
      <4>1. R \in SUBSET (1..n)
        OBVIOUS
      <4>2. IsFiniteSet(1..(n + 1))
        BY FS_Interval
      <4>3. IsFiniteSet(S)
        BY <4>2, FS_Subset
      <4>4. IsFiniteSet(R)
        BY <4>3, FS_RemoveElement
      <4> QED BY <4>1, <4>3, <4>4, FS_CardinalityType
    <3>2. PICK w \in [1..k -> R] : Rising(w)
      BY <1>2, <3>1
    <3>3. CASE n + 1 \notin S
      <4>1. R = S
        BY <3>3
      <4> QED BY <3>2, <4>1
    <3>4. CASE n + 1 \in S
      <4> DEFINE v == [i \in 1..(k + 1) |-> IF i = k + 1 THEN n + 1 ELSE w[i]]
      <4>1. Cardinality(S) = k + 1
        BY <3>1, <3>4, FS_RemoveElement, FS_CardinalityType
      <4> HIDE DEF k
      <4>2. v \in [1..(k + 1) -> S]
        BY <3>1, <3>2, <3>4
      <4>3. ASSUME NEW i \in 1..(k + 1), NEW j \in 1..(k + 1), i < j PROVE v[i] < v[j]
        <5>1. i \in 1..k /\ w[i] \in 1..n
          <6>1. i \in 1..k
            BY <3>1, <4>3
          <6>2. w[i] \in R
            BY <3>2, <6>1
          <6> QED BY <3>1, <6>1, <6>2
        <5> QED BY <3>1, <3>2, <4>3, <5>1 DEF Rising
      <4>4. Rising(v)
        BY <4>3 DEF Rising
      <4> QED BY <4>1, <4>2, <4>4
    <3> QED BY <3>3, <3>4
  <2> QED BY <2>1
<1>3. N \in T
  <2> HIDE DEF T
  <2> QED BY <1>1, <1>2, SetInduction
<1> QED BY <1>3

-----------------------------------------------------------------------------
(* The stream *)

Total == Cardinality(Packed)

\* Frames before the archive: START in a put.
Lead == IF op = "put" THEN 1 ELSE 0

\* Everything the sender sends when nothing goes wrong, frame by frame.
FrameAt(p) ==
  IF p <= Lead THEN Start
  ELSE IF p <= Lead + 2 * Total THEN Archive[p - Lead]
  ELSE IF op = "put" THEN End
  ELSE IF p = 2 * Total + 1 THEN Done(Total)
  ELSE StreamEnd

\* Frames that are there when the receiver knows that this was all.
All == Lead + 2 * Total + 1

Frame == {Start, End, Error, StreamEnd, StreamClose} \cup {Done(n) : n \in Nat}
         \cup {Chunk(n, part) : n \in Rel, part \in {"header", "bytes"}}

Untouched == /\ dest = before
             /\ ext = [NewExtraction EXCEPT !.state = ext.state]

Fresh0 == /\ frames = <<>> /\ Untouched /\ agent = "up" /\ ~served
          /\ ~failure /\ counts = NoCount

NotBegun == call = "none" /\ Fresh0 /\ ext.state = "idle"

Refusal == /\ call = "rejected" /\ Untouched /\ ext.state \in {"idle", "running"}
           /\ frames \in {<<>>, <<Start>>}
           /\ frames # <<>> => op = "put" /\ ext.state = "idle"
           /\ counts = NoCount

Awaiting == call = "waiting" /\ op = "get" /\ Fresh0 /\ ext.state = "running"

Failing == /\ op = "get" /\ call # "none" /\ served /\ Untouched
           /\ ext.state \in {"running", "resolved"} /\ counts = NoCount
           /\ \A i \in 1..Len(frames) : frames[i] \in {Error, StreamEnd, StreamClose}
           /\ agent = "up" => \/ failure
                              \/ frames # <<>> /\ frames[1] = Error /\ ext.state = "running"
           /\ call = "resolved" => agent = "down"

\* The receiver has taken p of these frames: h headers, and the bytes of the first b files.
Taken(p, h, b) ==
  /\ h = b \/ h = b + 1
  /\ \/ p < Lead /\ h = 0
     \/ Lead <= p /\ p < All /\ p = Lead + h + b
     \/ All <= p /\ b = Total

\* What is still to come after p frames: the rest, or less of it when the agent has gone.
Rest(f, p) == /\ Len(f) = 2 * Total + 2 - p
              /\ \A i \in 1..Len(f) : f[i] = FrameAt(p + i)

CutShort(f, p) == /\ op = "get" /\ agent = "down"
                  /\ Len(f) <= 2 * Total + 3 - p
                  /\ f # <<>> => f[Len(f)] \in {StreamEnd, StreamClose}
                  /\ \A i \in 1..Len(f) : i < Len(f) => f[i] = FrameAt(p + i)

ToCome(f, p) == Rest(f, p) \/ CutShort(f, p)

FirstFiles(b) == {Walk[i] : i \in 1..b}

Extracting(h, b) ==
  /\ ext.entries <= h /\ ext.files <= b
  /\ ext.open # 0 => h = b + 1
  /\ ~ext.failed => /\ ext.open = IF h = b THEN 0 ELSE Walk[h]
                    /\ ext.entries = h /\ ext.files = b
                    /\ Copied(FirstFiles(b))

Streaming(p, h, b) ==
  /\ call # "none"
  /\ op = "get" => served
  /\ Taken(p, h, b) /\ ToCome(frames, p) /\ Extracting(h, b)
  /\ (ext.state = "idle") <=> (p < Lead)
  /\ p < Lead => Untouched
  /\ ext.state \in {"resolved", "rejected"} =>
       p >= All \/ (op = "get" /\ agent = "down" /\ frames = <<>>)
  /\ ext.state = "resolved" => ~ext.failed /\ ext.open = 0
  /\ op = "get" => counts = IF p >= All THEN Total ELSE NoCount
  /\ op = "put" /\ call = "resolved" => counts = ext.files
  /\ call = "resolved" => ext.state = "resolved"
  /\ ~failure

StreamInv == \/ NotBegun \/ Refusal \/ Awaiting \/ Failing
             \/ \E p \in 0..2 * Total + 2, h, b \in 0..Total : Streaming(p, h, b)

Written == {n \in Rel : dest[n] \in {"new", "partial"}}

\* What extract has let through is within the limits, and nothing else is written.
LimitsInv ==
  /\ Written \subseteq ext.lowered /\ ext.lowered \cap Unfit = {}
  /\ \A m, n \in ext.lowered : Fold[m] = Fold[n] => m = n
  /\ \A n \in ext.lowered : tree.size[n] <= MaxFileBytes
  /\ Cardinality(ext.lowered) <= ext.entries /\ Cardinality(ext.lowered) <= MaxEntries
  /\ BytesOf(Written) <= MaxBytes
  /\ ~ext.failed => /\ BytesOf(Written) <= ext.bytes
                    /\ ext.bytes <= MaxBytes
                    /\ ext.entries <= MaxEntries
  /\ ext.open # 0 => ext.bytes + tree.size[ext.open] <= MaxBytes

Typed == TypeOK /\ frames \in Seq(Frame)

\* A get that freshDir has let through began with nothing there.
FreshInv == op = "get" /\ call \in {"waiting", "resolved"} => FreshAtFirst

TransferInv == Typed /\ StreamInv /\ LimitsInv /\ FreshInv

\* Where dispose() stands, and what that says of the client and its container.
DisposeInv ==
  /\ disp \in {"no", "closing", "reaping"} => reaped = "none"
  /\ disp = "no" => ~closed
  /\ disp \in {"closing", "reaping"} => closed
  /\ closed => handle
  /\ reaped # "none" => closed
  /\ closed /\ disp = "done" => reaped # "none"
  /\ closed /\ disp \in {"reaping", "done"} => client = "gone"
  /\ disp = "done" /\ reaped = "ok" => container # "up"

\* A prepare() that has not begun or got no handle has started nothing.
PrepareInv ==
  /\ prep = "new" => client = "none" /\ container = "none" /\ ~handle
  /\ prep = "threw" /\ ~handle => client = "none" /\ container = "none"
  /\ setting.orderly /\ disp # "no" /\ ~closed => prep = "threw" /\ ~handle

-----------------------------------------------------------------------------
(* The archive *)

LEMMA PackedIsFinite ==
  /\ Packed \in SUBSET Rel /\ IsFiniteSet(Packed)
  /\ Total \in Nat /\ Total <= NRels
<1>1. Packed \in SUBSET Rel
  BY DEF Packed
<1>2. IsFiniteSet(Rel) /\ Cardinality(Rel) = NRels
  BY FS_Interval, TransferAssumption DEF Rel
<1> QED BY <1>1, <1>2, FS_Subset, FS_CardinalityType DEF Total

\* Every packed file is met once, in the order of the walk.
LEMMA WalkIsThePacked ==
  /\ Walk \in [1..Total -> Packed] /\ Len(Walk) = Total /\ Rising(Walk)
  /\ \A n \in Packed : \E i \in 1..Total : Walk[i] = n
<1>1. \E w \in [1..Total -> Packed] : Rising(w)
  BY PackedIsFinite, OrderExists, TransferAssumption DEF Total, Rel
<1>2. Walk \in [1..Total -> Packed] /\ Rising(Walk)
  BY <1>1 DEF Walk, Rising, Total
<1>3. ASSUME NEW i \in 1..Total, NEW j \in 1..Total, Walk[i] = Walk[j] PROVE i = j
  <2>1. Walk[i] \in Nat
    <3>1. Walk[i] \in Packed
      BY <1>2
    <3>2. Packed \subseteq Nat
      BY PackedIsFinite, TransferAssumption DEF Rel
    <3> QED BY <3>1, <3>2
  <2>2. ~(i < j) /\ ~(j < i)
    BY <1>2, <1>3, <2>1 DEF Rising
  <2> QED BY <2>2, PackedIsFinite
<1>4. Walk \in Injection(1..Total, Packed)
  BY <1>2, <1>3 DEF Injection, IsInjective
<1>5. Cardinality(1..Total) = Total
  BY PackedIsFinite, FS_Interval
<1>6. Walk \in Surjection(1..Total, Packed)
  BY <1>4, <1>5, PackedIsFinite, FS_Injection DEF Total
<1>7. Walk \in Seq(Packed) /\ Len(Walk) = Total
  BY <1>2, PackedIsFinite
<1> QED BY <1>2, <1>6, <1>7 DEF Surjection

LEMMA ChunkIsFrame ==
  ASSUME NEW n \in Rel, NEW part \in {"header", "bytes"}
  PROVE  Chunk(n, part) \in Frame
BY DEF Frame

\* Of each file that the walk meets a header, and after it the bytes.
LEMMA ArchiveFrames ==
  /\ Archive \in Seq(Frame) /\ Len(Archive) = 2 * Total
  /\ \A i \in 1..Total : /\ Archive[2 * i - 1] = Chunk(Walk[i], "header")
                         /\ Archive[2 * i] = Chunk(Walk[i], "bytes")
<1> DEFINE part(c) == IF c % 2 = 1 THEN "header" ELSE "bytes"
           at(c) == Chunk(Walk[(c + 1) \div 2], part(c))
<1>1. ASSUME NEW c \in 1..2 * Total PROVE at(c) \in Frame
  <2>1. (c + 1) \div 2 \in 1..Total
    BY PackedIsFinite
  <2>2. Walk[(c + 1) \div 2] \in Rel
    BY <2>1, WalkIsThePacked, PackedIsFinite
  <2> QED BY <2>2, ChunkIsFrame
<1>2. Archive = [c \in 1..2 * Total |-> at(c)]
  BY WalkIsThePacked DEF Archive
<1> HIDE DEF at
<1>3. Archive \in [1..2 * Total -> Frame] /\ 2 * Total \in Nat
  BY <1>1, <1>2, PackedIsFinite
<1>4. Archive \in Seq(Frame) /\ Len(Archive) = 2 * Total
  BY <1>3
<1>5. ASSUME NEW i \in 1..Total
      PROVE  /\ Archive[2 * i - 1] = Chunk(Walk[i], "header")
             /\ Archive[2 * i] = Chunk(Walk[i], "bytes")
  <2>1. /\ 2 * i - 1 \in 1..2 * Total /\ 2 * i \in 1..2 * Total
        /\ (2 * i - 1 + 1) \div 2 = i /\ (2 * i + 1) \div 2 = i
        /\ (2 * i - 1) % 2 = 1 /\ (2 * i) % 2 = 0
    BY PackedIsFinite
  <2>2. Archive[2 * i - 1] = at(2 * i - 1) /\ Archive[2 * i] = at(2 * i)
    BY <1>2, <2>1
  <2> QED BY <2>1, <2>2 DEF at
<1> QED BY <1>4, <1>5


-----------------------------------------------------------------------------
(* The frames *)

\* What is asked for does not change, and so neither do the frames that carry it.
LEMMA AskedIsFixed ==
  ASSUME UNCHANGED asked
  PROVE  /\ Packed' = Packed /\ Total' = Total /\ Walk' = Walk /\ Lead' = Lead /\ All' = All
         /\ op' = op /\ tree' = tree /\ match' = match /\ before' = before
         /\ \A p \in Nat : FrameAt(p)' = FrameAt(p)
         /\ \A b \in Nat : FirstFiles(b)' = FirstFiles(b)
<1>1. op' = op /\ tree' = tree /\ match' = match /\ before' = before
  BY DEF asked
<1>2. Packed' = Packed
  BY <1>1 DEF Packed
<1>3. Walk' = Walk /\ Total' = Total
  BY <1>2 DEF Walk, Total
<1>4. Lead' = Lead /\ All' = All /\ Archive' = Archive
  BY <1>1, <1>3 DEF Lead, All, Archive
<1> QED BY <1>1, <1>2, <1>3, <1>4 DEF FrameAt, FirstFiles

LEMMA Kinds ==
  /\ Start.kind = "START" /\ End.kind = "END" /\ Error.kind = "ERROR"
  /\ StreamEnd.kind = "end" /\ StreamClose.kind = "close"
  /\ \A n : Done(n).kind = "DONE" /\ Done(n).files = n
  /\ \A n, part : /\ Chunk(n, part).kind = "CHUNK"
                 /\ Chunk(n, part).rel = n /\ Chunk(n, part).part = part
BY DEF Start, End, Error, StreamEnd, StreamClose, Done, Chunk

LEMMA FrameIsFrame ==
  ASSUME op \in {"put", "get"}
  PROVE  \A p \in 1..2 * Total + 2 : FrameAt(p) \in Frame
<1>1. ASSUME NEW p \in 1..2 * Total + 2 PROVE FrameAt(p) \in Frame
  <2>1. /\ Start \in Frame /\ End \in Frame /\ StreamEnd \in Frame /\ Done(Total) \in Frame
    BY PackedIsFinite DEF Frame
  <2>2. CASE Lead < p /\ p <= Lead + 2 * Total
    <3>1. p - Lead \in 1..2 * Total
      BY <2>2, PackedIsFinite DEF Lead
    <3>2. Archive[p - Lead] \in Frame
      BY <3>1, ArchiveFrames
    <3> QED BY <2>2, <3>2, PackedIsFinite DEF FrameAt, Lead
  <2> QED BY <2>1, <2>2, PackedIsFinite DEF FrameAt, Lead
<1> QED BY <1>1

\* The frame that comes next, and what is known of the extraction when it has come.
LEMMA NextFrame ==
  ASSUME op \in {"put", "get"}, NEW p \in 0..2 * Total + 1, NEW h \in 0..Total, NEW b \in 0..Total,
         Taken(p, h, b)
  PROVE  \/ /\ p < Lead /\ h = 0 /\ b = 0
            /\ FrameAt(p + 1) = Start /\ Taken(p + 1, 0, 0) /\ ~(p + 1 < Lead)
         \/ /\ Lead <= p /\ h = b /\ b < Total
            /\ FrameAt(p + 1) = Chunk(Walk[h + 1], "header")
            /\ p + 1 < All /\ Taken(p + 1, h + 1, b)
         \/ /\ Lead <= p /\ h = b + 1
            /\ FrameAt(p + 1) = Chunk(Walk[h], "bytes")
            /\ p + 1 < All /\ Taken(p + 1, h, h)
         \/ /\ Lead <= p /\ h = Total /\ b = Total /\ p + 1 >= All
            /\ Taken(p + 1, h, b)
            /\ \/ p + 1 = All /\ FrameAt(p + 1) = IF op = "put" THEN End ELSE Done(Total)
               \/ p = All /\ op = "get" /\ FrameAt(p + 1) = StreamEnd
<1>1. Total \in Nat /\ Lead \in {0, 1} /\ All = Lead + 2 * Total + 1
  BY PackedIsFinite DEF Lead, All
<1>2. CASE p < Lead
  BY <1>1, <1>2 DEF Taken, FrameAt
<1>3. CASE Lead <= p /\ h = b /\ b < Total
  <2>1. p = Lead + 2 * (h + 1) - 2 /\ h + 1 \in 1..Total
    BY <1>1, <1>3 DEF Taken
  <2>2. Archive[p + 1 - Lead] = Chunk(Walk[h + 1], "header")
    <3>1. p + 1 - Lead = 2 * (h + 1) - 1
      BY <1>1, <2>1
    <3> QED BY <2>1, <3>1, ArchiveFrames
  <2>3. FrameAt(p + 1) = Archive[p + 1 - Lead]
    BY <1>1, <2>1 DEF FrameAt
  <2> QED BY <1>1, <1>3, <2>1, <2>2, <2>3 DEF Taken
<1>4. CASE Lead <= p /\ h = b + 1
  <2>1. p = Lead + 2 * h - 1 /\ h \in 1..Total
    BY <1>1, <1>4 DEF Taken
  <2>2. Archive[p + 1 - Lead] = Chunk(Walk[h], "bytes")
    <3>1. p + 1 - Lead = 2 * h
      BY <1>1, <2>1
    <3> QED BY <2>1, <3>1, ArchiveFrames
  <2>3. FrameAt(p + 1) = Archive[p + 1 - Lead]
    BY <1>1, <2>1 DEF FrameAt
  <2> QED BY <1>1, <1>4, <2>1, <2>2, <2>3 DEF Taken
<1>5. CASE Lead <= p /\ h = Total /\ b = Total
  BY <1>1, <1>5 DEF Taken, FrameAt, Lead
<1> QED BY <1>1, <1>2, <1>3, <1>4, <1>5 DEF Taken

\* A frame that arrives is the next one, or the last of a stream that was cut short.
LEMMA FirstFrame ==
  ASSUME op \in {"put", "get"}, frames \in Seq(Frame), frames # <<>>,
         NEW p \in 0..2 * Total + 2, ToCome(frames, p)
  PROVE  \/ /\ p < 2 * Total + 2
            /\ Head(frames) = FrameAt(p + 1) /\ ToCome(Tail(frames), p + 1)
         \/ /\ op = "get" /\ agent = "down" /\ Head(frames) \in {StreamEnd, StreamClose}
            /\ Tail(frames) = <<>> /\ ToCome(<<>>, p)
<1> DEFINE t == Tail(frames)
<1>1. /\ Len(frames) \in Nat /\ Len(frames) > 0 /\ Head(frames) = frames[1]
      /\ t \in Seq(Frame) /\ Len(t) = Len(frames) - 1
      /\ \A i \in 1..Len(t) : t[i] = frames[i + 1]
  BY HeadTailProperties, EmptySeq, LenProperties
<1>2. Total \in Nat
  BY PackedIsFinite
<1> HIDE DEF t
<1>3. CASE Rest(frames, p)
  <2>1. \A i \in 1..Len(t) : t[i] = FrameAt((p + 1) + i)
    <3>1. ASSUME NEW i \in 1..Len(t) PROVE t[i] = FrameAt((p + 1) + i)
      <4>1. frames[i + 1] = FrameAt(p + (i + 1)) /\ p + (i + 1) = (p + 1) + i
        BY <1>1, <1>3 DEF Rest
      <4> QED BY <1>1, <4>1
    <3> QED BY <3>1
  <2>2. Rest(t, p + 1) /\ Head(frames) = FrameAt(p + 1) /\ p < 2 * Total + 2
    BY <1>1, <1>2, <1>3, <2>1 DEF Rest
  <2> QED BY <2>2 DEF ToCome, t
<1>4. CASE CutShort(frames, p) /\ Len(frames) = 1
  <2>1. t = <<>>
    BY <1>1, <1>4
  <2>2. CutShort(<<>>, p)
    BY <1>2, <1>4 DEF CutShort
  <2> QED BY <1>1, <1>4, <2>1, <2>2 DEF ToCome, CutShort, t
<1>5. CASE CutShort(frames, p) /\ Len(frames) > 1
  <2>1. \A i \in 1..Len(t) : i < Len(t) => t[i] = FrameAt((p + 1) + i)
    <3>1. ASSUME NEW i \in 1..Len(t), i < Len(t) PROVE t[i] = FrameAt((p + 1) + i)
      <4> DEFINE j == i + 1
      <4>1. j \in 1..Len(frames) /\ j < Len(frames) /\ p + j = (p + 1) + i
        BY <1>1, <3>1
      <4> HIDE DEF j
      <4>2. frames[j] = FrameAt(p + j)
        BY <1>5, <4>1 DEF CutShort
      <4> QED BY <1>1, <4>1, <4>2 DEF j
    <3> QED BY <3>1
  <2>2. t[Len(t)] \in {StreamEnd, StreamClose}
    BY <1>1, <1>5 DEF CutShort
  <2>3. CutShort(t, p + 1) /\ Head(frames) = FrameAt(p + 1) /\ p < 2 * Total + 2
    BY <1>1, <1>2, <1>5, <2>1, <2>2 DEF CutShort
  <2> QED BY <2>3 DEF ToCome, t
<1> QED BY <1>1, <1>3, <1>4, <1>5 DEF ToCome


LEMMA PutFrames ==
  ASSUME op = "put"
  PROVE  LET f == <<Start>> \o Archive \o <<End>>
         IN  f \in Seq(Frame) /\ f # <<>> /\ Rest(f, 0)
<1> DEFINE a == <<Start>> \o Archive
           f == a \o <<End>>
<1>1. Total \in Nat /\ Lead = 1 /\ Archive \in Seq(Frame) /\ Len(Archive) = 2 * Total
  BY PackedIsFinite, ArchiveFrames DEF Lead
<1>2. <<Start>> \in Seq(Frame) /\ <<End>> \in Seq(Frame)
  BY DEF Frame
<1>3. /\ a \in Seq(Frame) /\ Len(a) = 2 * Total + 1
      /\ \A i \in 1..Len(a) : a[i] = IF i <= 1 THEN Start ELSE Archive[i - 1]
  BY <1>1, <1>2, ConcatProperties
<1> HIDE DEF a
<1>4. /\ f \in Seq(Frame) /\ Len(f) = 2 * Total + 2
      /\ \A i \in 1..Len(f) : f[i] = IF i <= 2 * Total + 1 THEN a[i] ELSE End
  BY <1>1, <1>2, <1>3, ConcatProperties
<1> HIDE DEF f
<1>5. ASSUME NEW i \in 1..Len(f) PROVE f[i] = FrameAt(0 + i)
  BY <1>1, <1>3, <1>4 DEF FrameAt
<1>6. Rest(f, 0) /\ f # <<>>
  BY <1>1, <1>4, <1>5 DEF Rest
<1> QED BY <1>4, <1>6 DEF f, a

LEMMA GetFrames ==
  ASSUME op = "get"
  PROVE  LET f == (Archive \o <<Done(Cardinality(Packed))>>) \o <<StreamEnd>>
         IN  f \in Seq(Frame) /\ Rest(f, 0)
<1> DEFINE a == Archive \o <<Done(Cardinality(Packed))>>
           f == a \o <<StreamEnd>>
<1>1. Total \in Nat /\ Lead = 0 /\ Archive \in Seq(Frame) /\ Len(Archive) = 2 * Total
  BY PackedIsFinite, ArchiveFrames DEF Lead
<1>2. <<Done(Cardinality(Packed))>> \in Seq(Frame) /\ <<StreamEnd>> \in Seq(Frame)
  BY <1>1 DEF Frame, Total
<1>3. /\ a \in Seq(Frame) /\ Len(a) = 2 * Total + 1
      /\ \A i \in 1..Len(a) : a[i] = IF i <= 2 * Total THEN Archive[i] ELSE Done(Total)
  BY <1>1, <1>2, ConcatProperties DEF Total
<1> HIDE DEF a
<1>4. /\ f \in Seq(Frame) /\ Len(f) = 2 * Total + 2
      /\ \A i \in 1..Len(f) : f[i] = IF i <= 2 * Total + 1 THEN a[i] ELSE StreamEnd
  BY <1>1, <1>2, <1>3, ConcatProperties
<1> HIDE DEF f
<1>5. ASSUME NEW i \in 1..Len(f) PROVE f[i] = FrameAt(0 + i)
  BY <1>1, <1>3, <1>4 DEF FrameAt
<1>6. Rest(f, 0)
  BY <1>1, <1>4, <1>5 DEF Rest
<1> QED BY <1>4, <1>6 DEF f, a

\* A stream that is cut short keeps its first frames, and then only ends.
LEMMA CutFrames ==
  ASSUME NEW f \in Seq(Frame), NEW k \in 0..Len(f), NEW last \in {StreamEnd, StreamClose}
  PROVE  LET c == SubSeq(f, 1, k) \o <<last>>
         IN  /\ c \in Seq(Frame) /\ Len(c) = k + 1 /\ c[k + 1] = last
             /\ \A i \in 1..k : c[i] = f[i]
<1> DEFINE s == SubSeq(f, 1, k)
           c == s \o <<last>>
<1>1. <<last>> \in Seq(Frame) /\ Len(f) \in Nat /\ k \in Nat
  BY LenProperties DEF Frame
<1>2. s \in Seq(Frame) /\ Len(s) = k /\ \A i \in 1..k : s[i] = f[i]
  <2>1. \A i \in 1..k : f[i] \in Frame
    BY <1>1, ElementOfSeq
  <2> QED BY <1>1, <2>1, SubSeqProperties
<1> HIDE DEF s
<1>3. /\ c \in Seq(Frame) /\ Len(c) = k + 1
      /\ \A i \in 1..k + 1 : c[i] = IF i <= k THEN s[i] ELSE last
  BY <1>1, <1>2, ConcatProperties
<1> HIDE DEF c
<1>4. c[k + 1] = last /\ \A i \in 1..k : c[i] = f[i]
  BY <1>1, <1>2, <1>3
<1> QED BY <1>3, <1>4 DEF c, s


-----------------------------------------------------------------------------
(* What the sender does *)

LEMMA NewExtractionType ==
  /\ \A st \in {"idle", "running", "resolved", "rejected"} :
       [NewExtraction EXCEPT !.state = st] \in Extraction
  /\ NewExtraction.state = "running"
  /\ NewExtraction.open = 0 /\ ~NewExtraction.failed /\ NewExtraction.lowered = {}
  /\ NewExtraction.entries = 0 /\ NewExtraction.files = 0 /\ NewExtraction.bytes = 0
  /\ NewExtraction = [NewExtraction EXCEPT !.state = "running"]
<1>1. 0 \in Rel \cup {0} /\ {} \in SUBSET Rel /\ 0 \in 0..NRels
  BY TransferAssumption
<1>2. \A st \in {"idle", "running", "resolved", "rejected"} :
       [NewExtraction EXCEPT !.state = st] \in Extraction
  BY <1>1 DEF NewExtraction, Extraction
<1>3. NewExtraction = [NewExtraction EXCEPT !.state = "running"]
  BY DEF NewExtraction
<1> QED BY <1>2, <1>3 DEF NewExtraction

LEMMA StreamInit ==
  ASSUME Init
  PROVE  Typed /\ StreamInv
<1>1. Typed
  <2>1. ext \in Extraction /\ ext.open = 0
    BY NewExtractionType DEF Init, NewExtraction
  <2>2. dest \in [Rel -> Content] /\ counts \in Nat
    BY TransferAssumption DEF Init, Content, NoCount
  <2>3. frames \in Seq(Frame)
    BY EmptySeq DEF Init
  <2> QED BY <2>1, <2>2, <2>3 DEF Init, Typed, TypeOK
<1>2. NotBegun
  BY <1>1 DEF Init, NotBegun, Fresh0, Untouched, NewExtraction
<1> QED BY <1>1, <1>2 DEF StreamInv

\* A call that has begun is not begun again.
LEMMA BeginsOnce ==
  ASSUME StreamInv, call = "none"
  PROVE  NotBegun
BY DEF StreamInv, Refusal, Awaiting, Failing, Streaming

LEMMA StreamPut ==
  ASSUME Typed, StreamInv, Put
  PROVE  Typed' /\ StreamInv'
<1>1. NotBegun /\ op = "put" /\ UNCHANGED asked
  BY BeginsOnce DEF Put
<1>2. frames' \in Seq(Frame) /\ frames' # <<>> /\ Rest(frames', 0)
  BY <1>1, PutFrames DEF Put
<1>3. Typed'
  BY <1>2 DEF Typed, TypeOK, Put, asked
<1>4. Total \in Nat /\ Lead = 1
  BY <1>1, PackedIsFinite DEF Lead
<1>5. Streaming(0, 0, 0)'
  <2>1. call' = "waiting" /\ op' = "put" /\ ext' = ext /\ failure' = failure
    BY <1>1, AskedIsFixed DEF Put
  <2>2. Taken(0, 0, 0)'
    BY <1>1, <1>4, AskedIsFixed DEF Taken
  <2>3. ToCome(frames, 0)'
    BY <1>1, <1>2, AskedIsFixed, LenProperties DEF ToCome, Rest
  <2>4. Untouched' /\ ext.open = 0 /\ ext.failed = FALSE /\ ext.entries = 0 /\ ext.files = 0
        /\ ext.state = "idle"
    BY <1>1, AskedIsFixed DEF NotBegun, Fresh0, Untouched, Put, NewExtraction
  <2>5. Extracting(0, 0)'
    <3>1. FirstFiles(0) = {}
      BY DEF FirstFiles
    <3>2. Copied(FirstFiles(0))'
      BY <1>1, <2>4, <3>1, AskedIsFixed DEF Copied, Untouched
    <3> QED BY <2>1, <2>4, <3>2 DEF Extracting
  <2>6. (0 < Lead)' /\ (0 < All)'
    BY <1>1, <1>4, AskedIsFixed DEF All
  <2>7. ~failure'
    BY <1>1, <2>1 DEF NotBegun, Fresh0
  <2> QED BY <2>1, <2>2, <2>3, <2>4, <2>5, <2>6, <2>7 DEF Streaming
<1>6. 0 \in 0..(2 * Total + 2)' /\ 0 \in (0..Total)'
  BY <1>1, <1>4, AskedIsFixed
<1> QED BY <1>3, <1>5, <1>6 DEF StreamInv

LEMMA StreamPutFails ==
  ASSUME Typed, StreamInv, PutFails
  PROVE  Typed' /\ StreamInv'
<1>1. NotBegun /\ op = "put" /\ UNCHANGED asked
  BY BeginsOnce DEF PutFails
<1>2. <<Start>> \in Seq(Frame)
  BY DEF Frame
<1>3. Typed'
  BY <1>2 DEF Typed, TypeOK, PutFails, asked
<1>4. Refusal'
  BY <1>1 DEF PutFails, NotBegun, Fresh0, Refusal, Untouched, asked
<1> QED BY <1>3, <1>4 DEF StreamInv

LEMMA StreamGet ==
  ASSUME Typed, StreamInv, Get
  PROVE  Typed' /\ StreamInv'
<1>1. NotBegun /\ op = "get" /\ UNCHANGED asked
  BY BeginsOnce DEF Get
<1>2. CASE call' = "rejected" /\ ext' = ext
  <2>1. Typed'
    BY <1>2 DEF Typed, TypeOK, Get, asked
  <2>2. Refusal'
    BY <1>1, <1>2 DEF Get, NotBegun, Fresh0, Refusal, Untouched, asked
  <2> QED BY <2>1, <2>2 DEF StreamInv
<1>3. CASE call' = "waiting" /\ ext' = NewExtraction
  <2>1. NewExtraction \in Extraction
    BY NewExtractionType
  <2>2. Typed'
    BY <1>3, <2>1, NewExtractionType DEF Typed, TypeOK, Get, asked
  <2>3. Untouched'
    BY <1>1, <1>3, NewExtractionType DEF Get, NotBegun, Fresh0, Untouched, asked
  <2>4. Awaiting'
    BY <1>1, <1>3, <2>3, NewExtractionType DEF Get, NotBegun, Fresh0, Awaiting, asked
  <2> QED BY <2>2, <2>4 DEF StreamInv
<1> QED BY <1>2, <1>3 DEF Get

\* An agent that has not answered has sent nothing.
LEMMA ServesOnce ==
  ASSUME StreamInv, Serving
  PROVE  Awaiting
BY DEF StreamInv, Serving, NotBegun, Refusal, Failing, Streaming

LEMMA StreamServe ==
  ASSUME Typed, StreamInv, Serve
  PROVE  Typed' /\ StreamInv'
<1>1. Awaiting /\ op = "get" /\ UNCHANGED asked
  BY ServesOnce DEF Serve, Answer, Awaiting
<1>2. frames' \in Seq(Frame) /\ Rest(frames', 0)
  BY <1>1, GetFrames DEF Serve, Answer
<1>3. Typed'
  BY <1>2 DEF Typed, TypeOK, Serve, Answer, asked
<1>4. Total \in Nat /\ Lead = 0
  BY <1>1, PackedIsFinite DEF Lead
<1>5. Streaming(0, 0, 0)'
  <2>1. /\ call' = "waiting" /\ op' = "get" /\ served' = TRUE /\ ext' = ext /\ failure' = failure
        /\ counts' = counts
    BY <1>1, AskedIsFixed DEF Serve, Answer, Serving
  <2>2. Taken(0, 0, 0)'
    BY <1>1, <1>4, AskedIsFixed DEF Taken, All
  <2>3. ToCome(frames, 0)'
    BY <1>1, <1>2, AskedIsFixed, LenProperties DEF ToCome, Rest
  <2>4. Untouched' /\ ext.open = 0 /\ ext.failed = FALSE /\ ext.entries = 0 /\ ext.files = 0
        /\ ext.state = "running"
    BY <1>1, AskedIsFixed DEF Awaiting, Fresh0, Untouched, Serve, Answer, NewExtraction
  <2>5. Extracting(0, 0)'
    <3>1. FirstFiles(0) = {}
      BY DEF FirstFiles
    <3>2. Copied(FirstFiles(0))'
      BY <1>1, <2>4, <3>1, AskedIsFixed DEF Copied, Untouched
    <3> QED BY <2>1, <2>4, <3>2 DEF Extracting
  <2>6. ~(0 < Lead)' /\ ~(0 >= All)'
    BY <1>1, <1>4, AskedIsFixed DEF All
  <2>7. ~failure' /\ counts' = NoCount
    BY <1>1, <2>1 DEF Awaiting, Fresh0
  <2> QED BY <2>1, <2>2, <2>3, <2>4, <2>5, <2>6, <2>7 DEF Streaming
<1>6. 0 \in 0..(2 * Total + 2)' /\ 0 \in (0..Total)'
  BY <1>1, <1>4, AskedIsFixed
<1> QED BY <1>3, <1>5, <1>6 DEF StreamInv

LEMMA StreamServeError ==
  ASSUME Typed, StreamInv, ServeError
  PROVE  Typed' /\ StreamInv'
<1>1. Awaiting /\ UNCHANGED asked
  BY ServesOnce DEF ServeError, Answer
<1>2. /\ frames' \in Seq(Frame) /\ Len(frames') = 2
      /\ frames'[1] = Error /\ frames'[2] = StreamEnd
  <2>1. <<Error>> \in Seq(Frame) /\ <<StreamEnd>> \in Seq(Frame)
    BY DEF Frame
  <2>2. frames' = <<Error>> \o <<StreamEnd>>
    BY DEF ServeError, Answer
  <2> QED BY <2>1, <2>2, ConcatProperties
<1>3. Typed'
  BY <1>2 DEF Typed, TypeOK, ServeError, Answer, asked
<1>4. Untouched' /\ ext' = ext
  BY <1>1, AskedIsFixed DEF Awaiting, Fresh0, Untouched, ServeError, Answer
<1>5. frames' # <<>> /\ \A i \in 1..Len(frames') : frames'[i] \in {Error, StreamEnd, StreamClose}
  BY <1>2
<1>6. Failing'
  BY <1>1, <1>2, <1>4, <1>5, AskedIsFixed DEF Awaiting, Fresh0, Failing, ServeError, Answer
<1> QED BY <1>3, <1>6 DEF StreamInv

\* The agent dies: what was still to come of a put stays, and a get is cut short.
LEMMA StreamDies ==
  ASSUME Typed, StreamInv, AgentDies
  PROVE  Typed' /\ StreamInv'
<1>1. /\ call = "waiting" /\ agent = "up" /\ agent' = "down" /\ served' = TRUE
      /\ UNCHANGED <<asked, dest, call, ext, failure, counts>>
  BY DEF AgentDies
<1>2. op \in {"put", "get"} /\ Total \in Nat
  BY PackedIsFinite DEF Typed, TypeOK
<1>3. Awaiting \/ Failing \/ \E p \in 0..2 * Total + 2, h, b \in 0..Total : Streaming(p, h, b)
  BY <1>1 DEF StreamInv, NotBegun, Refusal
<1>4. CASE op = "put"
  <2>1. PICK p \in 0..2 * Total + 2, h \in 0..Total, b \in 0..Total : Streaming(p, h, b)
    BY <1>3, <1>4 DEF Awaiting, Failing
  <2>2. frames' = frames
    BY <1>4 DEF AgentDies
  <2>3. Typed'
    BY <1>1, <2>2 DEF Typed, TypeOK, asked
  <2>4. ToCome(frames, p)'
    <3>1. Rest(frames, p) /\ Len(frames) \in Nat
      BY <1>4, <2>1, LenProperties DEF Streaming, ToCome, CutShort, Typed
    <3>2. Rest(frames, p)'
      BY <1>1, <2>2, <3>1, AskedIsFixed DEF Rest
    <3> QED BY <3>2 DEF ToCome
  <2>5. Extracting(h, b)' /\ Taken(p, h, b)' /\ (p < Lead => Untouched)'
    BY <1>1, <2>1, AskedIsFixed DEF Streaming, Extracting, Taken, Copied, Untouched
  <2>6. Streaming(p, h, b)'
    BY <1>1, <1>4, <2>1, <2>4, <2>5, AskedIsFixed DEF Streaming
  <2>7. p \in (0..2 * Total + 2)' /\ h \in (0..Total)' /\ b \in (0..Total)'
    BY <1>1, AskedIsFixed
  <2> QED BY <2>3, <2>6, <2>7 DEF StreamInv
<1>5. CASE op = "get"
  <2>1. PICK k \in 0..Len(frames), last \in {StreamEnd, StreamClose} :
               frames' = SubSeq(frames, 1, k) \o <<last>>
    BY <1>2, <1>5 DEF AgentDies
  <2>2. Len(frames) \in Nat
    BY LenProperties DEF Typed
  <2>3. /\ frames' \in Seq(Frame) /\ Len(frames') = k + 1 /\ frames'[k + 1] = last
        /\ \A i \in 1..k : frames'[i] = frames[i]
    BY <2>1, CutFrames DEF Typed
  <2>4. Typed'
    BY <1>1, <2>3 DEF Typed, TypeOK, asked
  <2>5. CASE Awaiting \/ Failing
    <3>1. Untouched'
      BY <1>1, <2>5, AskedIsFixed DEF Awaiting, Fresh0, Failing, Untouched
    <3>2. \A i \in 1..Len(frames) : frames[i] \in {Error, StreamEnd, StreamClose}
      BY <2>2, <2>5, EmptySeq DEF Awaiting, Fresh0, Failing
    <3>3. \A i \in 1..Len(frames') : frames'[i] \in {Error, StreamEnd, StreamClose}
      BY <2>2, <2>3, <3>2
    <3>4. Failing'
      BY <1>1, <1>5, <2>5, <3>1, <3>3, AskedIsFixed DEF Awaiting, Fresh0, Failing
    <3> QED BY <2>4, <3>4 DEF StreamInv
  <2>6. ASSUME NEW p \in 0..2 * Total + 2, NEW h \in 0..Total, NEW b \in 0..Total,
               Streaming(p, h, b)
        PROVE  StreamInv'
    <3>1. Rest(frames, p)
      BY <1>1, <2>6 DEF Streaming, ToCome, CutShort
    <3>2. CutShort(frames, p)'
      <4>1. ASSUME NEW i \in 1..k PROVE frames'[i] = FrameAt(p + i)'
        <5>1. frames[i] = FrameAt(p + i) /\ p + i \in Nat
          BY <2>2, <3>1 DEF Rest
        <5> QED BY <1>1, <2>3, <5>1, AskedIsFixed
      <4>2. k + 1 <= 2 * Total + 3 - p
        BY <1>2, <2>2, <3>1 DEF Rest
      <4> QED BY <1>1, <1>5, <2>2, <2>3, <4>1, <4>2, AskedIsFixed DEF CutShort
    <3>3. Extracting(h, b)' /\ Taken(p, h, b)' /\ (p < Lead => Untouched)'
      BY <1>1, <2>6, AskedIsFixed DEF Streaming, Extracting, Taken, Copied, Untouched
    <3>4. ToCome(frames, p)'
      BY <3>2 DEF ToCome
    <3>5. Streaming(p, h, b)'
      BY <1>1, <1>5, <2>6, <3>3, <3>4, AskedIsFixed DEF Streaming
    <3>6. p \in (0..2 * Total + 2)' /\ h \in (0..Total)' /\ b \in (0..Total)'
      BY <1>1, AskedIsFixed
    <3> QED BY <3>5, <3>6 DEF StreamInv
  <2> QED BY <1>3, <2>4, <2>5, <2>6
<1> QED BY <1>2, <1>4, <1>5

-----------------------------------------------------------------------------
(* What the receiver does *)

\* Where the receiver stands when a frame arrives.
LEMMA Arrival ==
  ASSUME Typed, StreamInv, NEW kind, Arrives(kind)
  PROVE  /\ frames # <<>> /\ frames \in Seq(Frame) /\ frames' \in Seq(Frame)
         /\ \/ /\ Refusal /\ frames = <<Start>> /\ op = "put" /\ kind = "START"
               /\ frames' = <<>>
            \/ Failing /\ Head(frames) \in {Error, StreamEnd, StreamClose}
            \/ \E p \in 0..2 * Total + 2, h, b \in 0..Total : Streaming(p, h, b)
<1>1. frames # <<>> /\ frames \in Seq(Frame) /\ frames' = Tail(frames) /\ Head(frames).kind = kind
  BY DEF Arrives, Typed
<1>2. frames' \in Seq(Frame) /\ Head(frames) = frames[1] /\ 1 \in 1..Len(frames)
  BY <1>1, HeadTailProperties, EmptySeq, LenProperties
<1>3. CASE Refusal
  <2>1. frames = <<Start>> /\ op = "put"
    BY <1>1, <1>3 DEF Refusal
  <2>2. Head(frames) = Start /\ frames' = <<>>
    BY <1>1, <2>1
  <2> QED BY <1>1, <1>2, <1>3, <2>1, <2>2, Kinds
<1>4. CASE Failing
  BY <1>1, <1>2, <1>4 DEF Failing
<1> QED BY <1>1, <1>2, <1>3, <1>4 DEF StreamInv, NotBegun, Awaiting, Fresh0

\* The receiver goes on to where q frames have been taken.
LEMMA TakesOn ==
  ASSUME Typed, NEW p, NEW h, NEW b, Streaming(p, h, b), NEW kind, Arrives(kind),
         NEW q \in 0..2 * Total + 2, NEW g \in 0..Total, NEW c \in 0..Total,
         Taken(q, g, c), ToCome(Tail(frames), q)
  PROVE  /\ q \in (0..2 * Total + 2)' /\ g \in (0..Total)' /\ c \in (0..Total)'
         /\ Taken(q, g, c)' /\ ToCome(frames, q)'
         /\ (call # "none")' /\ (op = "get" => served)'
<1>1. /\ UNCHANGED <<asked, call, served, agent>> /\ frames' = Tail(frames)
      /\ Total \in Nat
  BY PackedIsFinite DEF Arrives
<1>2. q \in (0..2 * Total + 2)' /\ g \in (0..Total)' /\ c \in (0..Total)' /\ Taken(q, g, c)'
  BY <1>1, AskedIsFixed DEF Taken
<1>3. ToCome(frames, q)'
  <2> DEFINE t == Tail(frames)
  <2>1. Len(t) \in Nat
    BY HeadTailProperties, LenProperties DEF Typed, Arrives
  <2> HIDE DEF t
  <2>2. \A i \in 1..Len(t) : FrameAt(q + i)' = FrameAt(q + i)
    BY <1>1, <2>1, AskedIsFixed
  <2>3. frames' = t /\ Total' = Total /\ op' = op /\ agent' = agent
    BY <1>1, AskedIsFixed DEF t
  <2>4. CASE Rest(t, q)
    BY <2>2, <2>3, <2>4 DEF ToCome, Rest
  <2>5. CASE CutShort(t, q)
    BY <2>2, <2>3, <2>5 DEF ToCome, CutShort
  <2> QED BY <2>4, <2>5 DEF ToCome, t
<1> QED BY <1>1, <1>2, <1>3, AskedIsFixed DEF Streaming

\* A frame is the next one of an archive that goes on, or the end of one that was cut.
LEMMA StreamArrival ==
  ASSUME Typed, NEW p \in 0..2 * Total + 2, NEW h \in 0..Total, NEW b \in 0..Total,
         Streaming(p, h, b), NEW kind, Arrives(kind)
  PROVE  \/ /\ p \in 0..2 * Total + 1
            /\ Head(frames) = FrameAt(p + 1) /\ ToCome(Tail(frames), p + 1)
         \/ /\ op = "get" /\ agent = "down" /\ kind \in {"end", "close"}
            /\ Tail(frames) = <<>> /\ ToCome(Tail(frames), p)
<1>1. frames # <<>> /\ frames \in Seq(Frame) /\ Head(frames).kind = kind
  BY DEF Arrives, Typed
<1>2. op \in {"put", "get"} /\ ToCome(frames, p) /\ Total \in Nat
  BY PackedIsFinite DEF Typed, TypeOK, Streaming
<1>3. StreamEnd.kind = "end" /\ StreamClose.kind = "close"
  BY Kinds
<1>4. CASE p < 2 * Total + 2 /\ Head(frames) = FrameAt(p + 1) /\ ToCome(Tail(frames), p + 1)
  BY <1>2, <1>4
<1>5. CASE /\ op = "get" /\ agent = "down" /\ Head(frames) \in {StreamEnd, StreamClose}
           /\ Tail(frames) = <<>> /\ ToCome(<<>>, p)
  BY <1>1, <1>3, <1>5
<1> QED BY <1>1, <1>2, <1>4, <1>5, FirstFrame

LEMMA StreamReceiveStart ==
  ASSUME Typed, StreamInv, ReceiveStart
  PROVE  Typed' /\ StreamInv'
<1>1. /\ Arrives("START") /\ ext' = NewExtraction /\ NewExtraction \in Extraction
      /\ UNCHANGED <<asked, dest, call, served, agent, failure, counts>>
  BY NewExtractionType DEF ReceiveStart, Arrives
<1>2. Typed'
  BY <1>1, NewExtractionType, Arrival DEF Typed, TypeOK, asked
<1>3. CASE Refusal /\ frames = <<Start>> /\ op = "put" /\ frames' = <<>>
  <2>1. Refusal'
    BY <1>1, <1>3, NewExtractionType, AskedIsFixed DEF Refusal, Untouched
  <2> QED BY <1>2, <2>1 DEF StreamInv
<1>4. ASSUME NEW p \in 0..2 * Total + 2, NEW h \in 0..Total, NEW b \in 0..Total,
             Streaming(p, h, b)
      PROVE  StreamInv'
  <2>1. /\ p \in 0..2 * Total + 1
        /\ Head(frames) = FrameAt(p + 1) /\ ToCome(Tail(frames), p + 1)
    BY <1>1, <1>4, StreamArrival
  <2>2. Taken(p, h, b) /\ op \in {"put", "get"} /\ Total \in Nat
    BY <1>4, PackedIsFinite DEF Streaming, Typed, TypeOK
  <2>3. Head(frames).kind = "START"
    BY <1>1 DEF Arrives
  <2>4. /\ p < Lead /\ h = 0 /\ b = 0 /\ Taken(p + 1, 0, 0) /\ ~(p + 1 < Lead)
    <3>1. \A f \in {End, StreamEnd, Done(Total)} : Head(frames) # f
      BY <2>3, Kinds
    <3>2. \A n, part : Head(frames) # Chunk(n, part)
      BY <2>3, Kinds
    <3> QED BY <2>1, <2>2, <3>1, <3>2, NextFrame
  <2>5. op = "put" /\ Untouched /\ Lead = 1 /\ p + 1 < All
    BY <1>4, <2>2, <2>4 DEF Streaming, Lead, All
  <2>6. /\ p + 1 \in (0..2 * Total + 2)' /\ 0 \in (0..Total)'
        /\ Taken(p + 1, 0, 0)' /\ ToCome(frames, p + 1)'
        /\ (call # "none")' /\ (op = "get" => served)'
    BY <1>1, <1>4, <2>1, <2>2, <2>4, TakesOn
  <2>7. Extracting(0, 0)'
    <3>1. FirstFiles(0) = {}
      BY DEF FirstFiles
    <3>2. Copied(FirstFiles(0))'
      BY <1>1, <2>5, <3>1, AskedIsFixed DEF Copied, Untouched
    <3> QED BY <1>1, <3>2, NewExtractionType DEF Extracting
  <2>8. call # "resolved"
    BY <1>4, <2>4 DEF Streaming
  <2>9. Streaming(p + 1, 0, 0)'
    BY <1>1, <1>4, <2>4, <2>5, <2>6, <2>7, <2>8, AskedIsFixed, NewExtractionType DEF Streaming
  <2> QED BY <2>6, <2>9 DEF StreamInv
<1>5. ~(Failing /\ Head(frames) \in {Error, StreamEnd, StreamClose})
  BY <1>1, Kinds DEF Arrives
<1> QED BY <1>1, <1>2, <1>3, <1>4, <1>5, Arrival

LEMMA StreamReceiveHeader ==
  ASSUME Typed, StreamInv, ReceiveHeader
  PROVE  Typed' /\ StreamInv'
<1> DEFINE n == Head(frames).rel
<1>1. /\ Arrives("CHUNK") /\ Head(frames).part = "header"
      /\ UNCHANGED <<asked, dest, call, served, agent, failure, counts>>
  BY DEF ReceiveHeader, Arrives
<1>2. PICK p \in 0..2 * Total + 2, h \in 0..Total, b \in 0..Total : Streaming(p, h, b)
  <2>1. ~(Failing /\ Head(frames) \in {Error, StreamEnd, StreamClose})
    BY <1>1, Kinds DEF Arrives
  <2> QED BY <1>1, <2>1, Arrival
<1>3. /\ p \in 0..2 * Total + 1
      /\ Head(frames) = FrameAt(p + 1) /\ ToCome(Tail(frames), p + 1)
  BY <1>1, <1>2, StreamArrival
<1>4. Taken(p, h, b) /\ op \in {"put", "get"} /\ Total \in Nat /\ Total <= NRels
  BY <1>2, PackedIsFinite DEF Streaming, Typed, TypeOK
<1>5. /\ Lead <= p /\ h = b /\ b < Total /\ Head(frames) = Chunk(Walk[h + 1], "header")
      /\ p + 1 < All /\ Taken(p + 1, h + 1, b)
  <2>1. Head(frames).kind = "CHUNK" /\ Head(frames).part = "header"
    BY <1>1 DEF Arrives
  <2>2. CASE Head(frames) = Start
    BY <2>1, <2>2, Kinds
  <2>3. CASE Head(frames) = Chunk(Walk[h], "bytes")
    BY <2>1, <2>3, Kinds
  <2>4. CASE Head(frames) \in {End, StreamEnd, Done(Total)}
    BY <2>1, <2>4, Kinds
  <2> QED BY <1>3, <1>4, <2>2, <2>3, <2>4, NextFrame
<1>6. n = Walk[h + 1] /\ n \in Rel /\ n # 0
  <2>1. h + 1 \in 1..Total
    BY <1>4, <1>5
  <2>2. Walk[h + 1] \in Rel
    BY <2>1, WalkIsThePacked, PackedIsFinite
  <2> QED BY <1>5, <2>2, Kinds, TransferAssumption DEF Rel
<1>7. ext \in Extraction /\ Extracting(h, b)
  BY <1>2 DEF Typed, TypeOK, Streaming
<1>8. /\ ext' \in Extraction /\ ext'.state = ext.state
      /\ (ext.open # 0 => ~ext.failed /\ ext.open \in ext.lowered)'
      /\ Extracting(h + 1, b)'
  <2>1. ext.open = 0 /\ ext.entries \in Nat /\ ext.files \in Nat
    BY <1>5, <1>7, TransferAssumption DEF Extracting, Extraction
  <2>2. ext.entries + 1 \in 0..NRels /\ ext.lowered \cup {n} \in SUBSET Rel
    BY <1>4, <1>5, <1>6, <1>7, <2>1, TransferAssumption DEF Extracting, Extraction
  <2> HIDE DEF n
  <2>3. CASE ext.failed
    <3>1. ext' = ext
      BY <2>3 DEF ReceiveHeader
    <3> QED BY <1>5, <1>7, <2>1, <2>3, <3>1 DEF Extracting
  <2>4. CASE ~ext.failed /\ Refused(n)
    <3>1. ext' = [ext EXCEPT !.entries = @ + 1, !.failed = TRUE]
      BY <2>4 DEF ReceiveHeader, n
    <3>2. ext' \in Extraction
      BY <1>7, <2>2, <3>1 DEF Extraction
    <3>3. /\ ext'.entries = ext.entries + 1 /\ ext'.files = ext.files /\ ext'.open = 0
          /\ ext'.failed = TRUE /\ ext'.state = ext.state
      BY <1>7, <2>1, <3>1 DEF Extraction
    <3> QED BY <1>5, <1>7, <2>1, <3>2, <3>3 DEF Extracting
  <2>5. CASE ~ext.failed /\ ~Refused(n)
    <3>1. ext' = [ext EXCEPT !.entries = @ + 1, !.open = n, !.lowered = @ \cup {n}]
      BY <2>5 DEF ReceiveHeader, n
    <3>2. ext' \in Extraction
      BY <1>6, <1>7, <2>2, <3>1 DEF Extraction
    <3>3. /\ ext'.entries = ext.entries + 1 /\ ext'.files = ext.files /\ ext'.open = n
          /\ ext'.failed = FALSE /\ ext'.state = ext.state /\ n \in ext'.lowered
      BY <1>7, <2>1, <2>5, <3>1 DEF Extraction
    <3>4. Copied(FirstFiles(b))' /\ Walk' = Walk
      BY <1>1, <1>7, <2>5, AskedIsFixed DEF Extracting, Copied
    <3>5. ext.entries = h /\ ext.files = b
      BY <1>7, <2>5 DEF Extracting
    <3> QED BY <1>5, <1>6, <3>2, <3>3, <3>4, <3>5 DEF Extracting
  <2> QED BY <2>3, <2>4, <2>5
<1>9. Typed'
  BY <1>1, <1>8, Arrival DEF Typed, TypeOK, asked
<1>10. /\ p + 1 \in (0..2 * Total + 2)' /\ h + 1 \in (0..Total)' /\ b \in (0..Total)'
       /\ Taken(p + 1, h + 1, b)' /\ ToCome(frames, p + 1)'
       /\ (call # "none")' /\ (op = "get" => served)'
  BY <1>1, <1>2, <1>3, <1>4, <1>5, TakesOn
<1>11. /\ ext.state = "running" /\ call # "resolved" /\ ~failure
       /\ op = "get" => counts = NoCount
  BY <1>1, <1>2, <1>4, <1>5, <1>7 DEF Streaming, Extraction, Arrives, All, Lead
<1>12. Streaming(p + 1, h + 1, b)'
  BY <1>1, <1>4, <1>5, <1>8, <1>10, <1>11, AskedIsFixed DEF Streaming, All, Lead
<1> QED BY <1>9, <1>10, <1>12 DEF StreamInv

\* One file more is there.
LEMMA FirstFilesGrow ==
  ASSUME NEW b \in Nat
  PROVE  FirstFiles(b + 1) = FirstFiles(b) \cup {Walk[b + 1]}
BY DEF FirstFiles

LEMMA StreamReceiveBytes ==
  ASSUME Typed, StreamInv, ReceiveBytes
  PROVE  Typed' /\ StreamInv'
<1> DEFINE n == Head(frames).rel
<1>1. /\ Arrives("CHUNK") /\ Head(frames).part = "bytes"
      /\ UNCHANGED <<asked, call, served, agent, failure, counts>>
  BY DEF ReceiveBytes, Arrives
<1>2. PICK p \in 0..2 * Total + 2, h \in 0..Total, b \in 0..Total : Streaming(p, h, b)
  <2>1. ~(Failing /\ Head(frames) \in {Error, StreamEnd, StreamClose})
    BY <1>1, Kinds DEF Arrives
  <2> QED BY <1>1, <2>1, Arrival
<1>3. /\ p \in 0..2 * Total + 1
      /\ Head(frames) = FrameAt(p + 1) /\ ToCome(Tail(frames), p + 1)
  BY <1>1, <1>2, StreamArrival
<1>4. Taken(p, h, b) /\ op \in {"put", "get"} /\ Total \in Nat /\ Total <= NRels
  BY <1>2, PackedIsFinite DEF Streaming, Typed, TypeOK
<1>5. /\ Lead <= p /\ h = b + 1 /\ Head(frames) = Chunk(Walk[h], "bytes")
      /\ p + 1 < All /\ Taken(p + 1, h, h)
  <2>1. Head(frames).kind = "CHUNK" /\ Head(frames).part = "bytes"
    BY <1>1 DEF Arrives
  <2>2. CASE Head(frames) = Start
    BY <2>1, <2>2, Kinds
  <2>3. CASE Head(frames) = Chunk(Walk[h + 1], "header")
    BY <2>1, <2>3, Kinds
  <2>4. CASE Head(frames) \in {End, StreamEnd, Done(Total)}
    BY <2>1, <2>4, Kinds
  <2> QED BY <1>3, <1>4, <2>2, <2>3, <2>4, NextFrame
<1>6. n = Walk[h] /\ n \in Rel /\ n # 0
  <2>1. h \in 1..Total
    BY <1>4, <1>5
  <2>2. Walk[h] \in Rel
    BY <2>1, WalkIsThePacked, PackedIsFinite
  <2> QED BY <1>5, <2>2, Kinds, TransferAssumption DEF Rel
<1>7. /\ ext \in Extraction /\ Extracting(h, b) /\ dest \in [Rel -> Content]
      /\ ext.open # 0 => ~ext.failed
      /\ tree.size[n] \in Nat
  BY <1>2, <1>6, TransferAssumption DEF Typed, TypeOK, Streaming, Tree
<1>8. /\ ext' \in Extraction /\ ext'.state = ext.state /\ dest' \in [Rel -> Content]
      /\ (ext.open # 0 => ~ext.failed /\ ext.open \in ext.lowered)'
      /\ Extracting(h, h)'
  <2> HIDE DEF n
  <2>1. ext.entries \in Nat /\ ext.files \in Nat /\ ext.files <= b /\ ext.bytes \in Nat
    BY <1>7, TransferAssumption DEF Extracting, Extraction
  <2>2. CASE ext.open # n /\ ext' = ext /\ dest' = dest
    <3>1. ext.failed
      BY <1>5, <1>6, <1>7, <2>2 DEF Extracting
    <3> QED BY <1>4, <1>5, <1>7, <2>1, <2>2, <3>1 DEF Extracting
  <2>3. CASE /\ ext.open = n
             /\ ext' = [ext EXCEPT !.open = 0, !.files = @ + 1, !.bytes = @ + tree.size[n]]
             /\ dest' = [dest EXCEPT ![n] = "new"]
    <3>1. ~ext.failed /\ ext.entries = h /\ ext.files = b /\ Copied(FirstFiles(b))
      BY <1>6, <1>7, <2>3 DEF Extracting
    <3>2. ext.files + 1 \in 0..NRels /\ ext.bytes + tree.size[n] \in Nat
      BY <1>4, <1>5, <1>7, <2>1, <3>1, TransferAssumption
    <3>3. ext' \in Extraction
      BY <1>7, <2>3, <3>2 DEF Extraction
    <3>4. /\ ext'.entries = ext.entries /\ ext'.files = ext.files + 1 /\ ext'.open = 0
          /\ ext'.failed = FALSE /\ ext'.state = ext.state
      BY <1>7, <2>3, <3>1 DEF Extraction
    <3>5. dest' \in [Rel -> Content]
      BY <1>6, <1>7, <2>3 DEF Content
    <3>6. FirstFiles(h)' = FirstFiles(b) \cup {n} /\ before' = before
      <4>1. h \in Nat /\ FirstFiles(h)' = FirstFiles(h)
        BY <1>1, AskedIsFixed
      <4> QED BY <1>1, <1>4, <1>5, <1>6, <4>1, FirstFilesGrow, AskedIsFixed
    <3>7. Copied(FirstFiles(h))'
      BY <1>6, <1>7, <2>3, <3>1, <3>6 DEF Copied
    <3> QED BY <1>4, <1>5, <2>1, <3>1, <3>3, <3>4, <3>5, <3>7 DEF Extracting
  <2>4. CASE /\ ext.open = n /\ ext' = [ext EXCEPT !.open = 0, !.failed = TRUE]
             /\ dest' \in {dest, [dest EXCEPT ![n] = "partial"]}
    <3>1. ext' \in Extraction
      BY <1>7, <2>4 DEF Extraction
    <3>2. /\ ext'.entries = ext.entries /\ ext'.files = ext.files /\ ext'.open = 0
          /\ ext'.failed = TRUE /\ ext'.state = ext.state
      BY <1>7, <2>4 DEF Extraction
    <3>3. dest' \in [Rel -> Content]
      BY <1>6, <1>7, <2>4 DEF Content
    <3> QED BY <1>4, <1>5, <1>7, <2>1, <3>1, <3>2, <3>3 DEF Extracting
  <2> QED BY <2>2, <2>3, <2>4 DEF ReceiveBytes, n
<1>9. Typed'
  BY <1>1, <1>8, Arrival DEF Typed, TypeOK, asked
<1>10. /\ p + 1 \in (0..2 * Total + 2)' /\ h \in (0..Total)'
       /\ Taken(p + 1, h, h)' /\ ToCome(frames, p + 1)'
       /\ (call # "none")' /\ (op = "get" => served)'
  BY <1>1, <1>2, <1>3, <1>4, <1>5, TakesOn
<1>11. /\ ext.state = "running" /\ call # "resolved" /\ ~failure
       /\ op = "get" => counts = NoCount
  BY <1>1, <1>2, <1>4, <1>5, <1>7 DEF Streaming, Extraction, Arrives, All, Lead
<1>12. Streaming(p + 1, h, h)'
  BY <1>1, <1>4, <1>5, <1>8, <1>10, <1>11, AskedIsFixed DEF Streaming, All, Lead
<1> QED BY <1>9, <1>10, <1>12 DEF StreamInv

\* The end of the input changes nothing but the state of the extraction.
LEMMA InputEndType ==
  ASSUME Typed, InputEnds
  PROVE  /\ ext' \in Extraction /\ ext' = [ext EXCEPT !.state = ext'.state]
         /\ ext'.open = ext.open /\ ext'.failed = ext.failed /\ ext'.lowered = ext.lowered
         /\ ext'.entries = ext.entries /\ ext'.files = ext.files /\ ext'.bytes = ext.bytes
         /\ ext.state # "running" => ext'.state = ext.state
         /\ ext.state = "running" => ext'.state = IF ext.failed \/ ext.open # 0 THEN "rejected"
                                                  ELSE "resolved"
BY DEF Typed, TypeOK, InputEnds, Extraction

LEMMA StreamingEnds ==
  ASSUME Typed, NEW p \in 0..2 * Total + 2, NEW h \in 0..Total, NEW b \in 0..Total,
         Streaming(p, h, b), UNCHANGED <<asked, dest>>, InputEnds, Lead <= p
  PROVE  /\ Extracting(h, b)' /\ ext'.state \in {"resolved", "rejected"}
         /\ ext'.state = "resolved" => ~ext'.failed /\ ext'.open = 0
         /\ call = "resolved" => ext'.state = "resolved"
         /\ ext'.files = ext.files
<1>1. p \in Nat /\ Lead \in Nat /\ ext.state # "idle" /\ ext \in Extraction
  BY PackedIsFinite DEF Streaming, Lead, Typed, TypeOK
<1>2. Extracting(h, b)'
  BY InputEndType, AskedIsFixed DEF Streaming, Extracting, Copied
<1> QED BY <1>1, <1>2, InputEndType DEF Streaming, Extraction

\* A get that fails on the side of the agent writes nothing.
LEMMA FailingEnds ==
  ASSUME Typed, Failing, InputEnds, UNCHANGED <<asked, dest>>
  PROVE  Untouched' /\ ext'.state = "resolved"
<1>1. ext.open = 0 /\ ext.failed = FALSE /\ ext.state \in {"running", "resolved"}
  BY DEF Failing, Untouched, NewExtraction
<1>2. ext' = [NewExtraction EXCEPT !.state = ext'.state]
  BY InputEndType DEF Failing, Untouched, NewExtraction
<1> QED BY <1>1, <1>2, InputEndType, AskedIsFixed DEF Failing, Untouched

LEMMA FailingGoesOn ==
  ASSUME Typed, Failing, NEW kind, Arrives(kind), Untouched',
         ext'.state \in {"running", "resolved"}, counts' = counts,
         failure' \/ (kind # "ERROR" /\ failure' = failure)
  PROVE  Failing'
<1>1. /\ UNCHANGED <<asked, call, served, agent>> /\ frames # <<>> /\ frames \in Seq(Frame)
      /\ frames' = Tail(frames) /\ Head(frames).kind = kind /\ Head(frames) = frames[1]
  BY DEF Arrives, Typed
<1>2. \A i \in 1..Len(frames') : frames'[i] \in {Error, StreamEnd, StreamClose}
  <2>1. /\ Len(frames') = Len(frames) - 1 /\ Len(frames) \in Nat
        /\ \A i \in 1..Len(frames') : frames'[i] = frames[i + 1]
    BY <1>1, HeadTailProperties, LenProperties
  <2> QED BY <2>1 DEF Failing
<1>3. agent = "up" => failure'
  BY <1>1, Kinds DEF Failing
<1> QED BY <1>1, <1>2, <1>3, AskedIsFixed DEF Failing

LEMMA StreamReceiveEnd ==
  ASSUME Typed, StreamInv, ReceiveEnd
  PROVE  Typed' /\ StreamInv'
<1>1. PICK kind \in {"END", "end"} : Arrives(kind)
  BY DEF ReceiveEnd
<1>2. /\ UNCHANGED <<asked, dest, call, served, agent, failure, counts>> /\ InputEnds
      /\ Head(frames).kind = kind
  BY <1>1 DEF ReceiveEnd, Arrives
<1>3. Typed'
  BY <1>1, <1>2, InputEndType, Arrival DEF Typed, TypeOK, asked
<1>4. CASE Failing
  BY <1>1, <1>2, <1>3, <1>4, FailingEnds, FailingGoesOn DEF StreamInv
<1>5. ASSUME NEW p \in 0..2 * Total + 2, NEW h \in 0..Total, NEW b \in 0..Total,
             Streaming(p, h, b)
      PROVE  StreamInv'
  <2>1. Taken(p, h, b) /\ op \in {"put", "get"} /\ Total \in Nat
    BY <1>5, PackedIsFinite DEF Streaming, Typed, TypeOK
  <2>2. CASE /\ p \in 0..2 * Total + 1 /\ Head(frames) = FrameAt(p + 1)
             /\ ToCome(Tail(frames), p + 1)
    <3>1. /\ Lead <= p /\ h = Total /\ b = Total /\ p + 1 >= All /\ Taken(p + 1, h, b)
          /\ op = "get" => p = All
      <4>1. Head(frames) # Start /\ \A n : Head(frames) # Done(n)
        BY <1>2, Kinds
      <4>2. \A n, part : Head(frames) # Chunk(n, part)
        BY <1>2, Kinds
      <4> QED BY <2>1, <2>2, <4>1, <4>2, NextFrame
    <3>2. /\ p + 1 \in (0..2 * Total + 2)' /\ h \in (0..Total)' /\ b \in (0..Total)'
          /\ Taken(p + 1, h, b)' /\ ToCome(frames, p + 1)'
          /\ (call # "none")' /\ (op = "get" => served)'
      BY <1>1, <1>5, <2>1, <2>2, <3>1, TakesOn
    <3>3. /\ Extracting(h, b)' /\ ext'.state \in {"resolved", "rejected"}
          /\ ext'.state = "resolved" => ~ext'.failed /\ ext'.open = 0
          /\ call = "resolved" => ext'.state = "resolved"
          /\ ext'.files = ext.files
      BY <1>2, <1>5, <3>1, StreamingEnds
    <3>4. Lead \in Nat /\ All \in Nat
      BY <2>1 DEF Lead, All
    <3>5. Streaming(p + 1, h, b)'
      BY <1>2, <1>5, <2>1, <3>1, <3>2, <3>3, <3>4, AskedIsFixed DEF Streaming
    <3> QED BY <3>2, <3>5 DEF StreamInv
  <2>3. CASE /\ op = "get" /\ agent = "down" /\ Tail(frames) = <<>> /\ ToCome(Tail(frames), p)
    <3>1. /\ p \in (0..2 * Total + 2)' /\ h \in (0..Total)' /\ b \in (0..Total)'
          /\ Taken(p, h, b)' /\ ToCome(frames, p)'
          /\ (call # "none")' /\ (op = "get" => served)'
      BY <1>1, <1>5, <2>1, <2>3, TakesOn
    <3>2. Lead = 0 /\ frames' = <<>>
      BY <1>1, <2>3 DEF Lead, Arrives
    <3>3. /\ Extracting(h, b)' /\ ext'.state \in {"resolved", "rejected"}
          /\ ext'.state = "resolved" => ~ext'.failed /\ ext'.open = 0
          /\ call = "resolved" => ext'.state = "resolved"
          /\ ext'.files = ext.files
      BY <1>2, <1>5, <3>2, StreamingEnds
    <3>4. Streaming(p, h, b)'
      BY <1>2, <1>5, <2>1, <2>3, <3>1, <3>2, <3>3, AskedIsFixed DEF Streaming
    <3> QED BY <3>1, <3>4 DEF StreamInv
  <2> QED BY <1>1, <1>5, <2>2, <2>3, StreamArrival
<1> QED BY <1>1, <1>3, <1>4, <1>5, Arrival

LEMMA StreamReceiveDone ==
  ASSUME Typed, StreamInv, ReceiveDone
  PROVE  Typed' /\ StreamInv'
<1>1. /\ Arrives("DONE") /\ UNCHANGED <<asked, dest, call, served, agent, failure>> /\ InputEnds
      /\ Head(frames).kind = "DONE" /\ counts' = Head(frames).files
  BY DEF ReceiveDone, Arrives
<1>2. PICK p \in 0..2 * Total + 2, h \in 0..Total, b \in 0..Total : Streaming(p, h, b)
  <2>1. ~(Failing /\ Head(frames) \in {Error, StreamEnd, StreamClose})
    BY <1>1, Kinds
  <2> QED BY <1>1, <2>1, Arrival
<1>3. /\ p \in 0..2 * Total + 1
      /\ Head(frames) = FrameAt(p + 1) /\ ToCome(Tail(frames), p + 1)
  BY <1>1, <1>2, StreamArrival
<1>4. Taken(p, h, b) /\ op \in {"put", "get"} /\ Total \in Nat
  BY <1>2, PackedIsFinite DEF Streaming, Typed, TypeOK
<1>5. /\ Lead <= p /\ h = Total /\ b = Total /\ p + 1 = All /\ Taken(p + 1, h, b)
      /\ op = "get" /\ Head(frames) = Done(Total)
  <2>1. \A f \in {Start, End, StreamEnd} : Head(frames) # f
    BY <1>1, Kinds
  <2>2. \A n, part : Head(frames) # Chunk(n, part)
    BY <1>1, Kinds
  <2> QED BY <1>3, <1>4, <2>1, <2>2, NextFrame
<1>6. counts' = Total
  BY <1>1, <1>5, Kinds
<1>7. Typed'
  BY <1>1, <1>4, <1>6, InputEndType, Arrival DEF Typed, TypeOK, asked
<1>8. /\ p + 1 \in (0..2 * Total + 2)' /\ h \in (0..Total)' /\ b \in (0..Total)'
      /\ Taken(p + 1, h, b)' /\ ToCome(frames, p + 1)'
      /\ (call # "none")' /\ (op = "get" => served)'
  BY <1>1, <1>2, <1>3, <1>4, <1>5, TakesOn
<1>9. /\ Extracting(h, b)' /\ ext'.state \in {"resolved", "rejected"}
      /\ ext'.state = "resolved" => ~ext'.failed /\ ext'.open = 0
      /\ call = "resolved" => ext'.state = "resolved"
  BY <1>1, <1>2, <1>5, StreamingEnds
<1>10. Lead \in Nat /\ All \in Nat
  BY <1>4 DEF Lead, All
<1>11. Streaming(p + 1, h, b)'
  BY <1>1, <1>2, <1>4, <1>5, <1>6, <1>8, <1>9, <1>10, AskedIsFixed DEF Streaming
<1> QED BY <1>7, <1>8, <1>11 DEF StreamInv

LEMMA StreamReceiveError ==
  ASSUME Typed, StreamInv, ReceiveError
  PROVE  Typed' /\ StreamInv'
<1>1. /\ Arrives("ERROR") /\ UNCHANGED <<asked, dest, call, served, agent, counts>> /\ InputEnds
      /\ Head(frames).kind = "ERROR" /\ failure' = TRUE
  BY DEF ReceiveError, Arrives
<1>2. Typed'
  BY <1>1, InputEndType, Arrival DEF Typed, TypeOK, asked
<1>3. Failing
  <2>1. ASSUME NEW p \in 0..2 * Total + 2, NEW h \in 0..Total, NEW b \in 0..Total,
               Streaming(p, h, b)
        PROVE  FALSE
    <3>1. /\ p \in 0..2 * Total + 1 /\ Head(frames) = FrameAt(p + 1)
      BY <1>1, <2>1, StreamArrival
    <3>2. Taken(p, h, b) /\ op \in {"put", "get"}
      BY <2>1 DEF Streaming, Typed, TypeOK
    <3>3. \A f \in {Start, End, StreamEnd, Done(Total)} : Head(frames) # f
      BY <1>1, Kinds
    <3>4. \A n, part : Head(frames) # Chunk(n, part)
      BY <1>1, Kinds
    <3> QED BY <3>1, <3>2, <3>3, <3>4, NextFrame
  <2> QED BY <1>1, <2>1, Arrival
<1>4. Failing'
  BY <1>1, <1>3, FailingEnds, FailingGoesOn
<1> QED BY <1>2, <1>4 DEF StreamInv

LEMMA StreamReceiveClose ==
  ASSUME Typed, StreamInv, ReceiveClose
  PROVE  Typed' /\ StreamInv'
<1>1. /\ Arrives("close") /\ Head(frames).kind = "close"
      /\ UNCHANGED <<asked, dest, call, served, agent, ext, failure, counts>>
  BY DEF ReceiveClose, Arrives
<1>2. Typed'
  BY <1>1, Arrival DEF Typed, TypeOK, asked
<1>3. CASE Failing
  <2>1. Untouched' /\ ext'.state \in {"running", "resolved"}
    BY <1>1, <1>3, AskedIsFixed DEF Failing, Untouched
  <2> QED BY <1>1, <1>2, <1>3, <2>1, FailingGoesOn DEF StreamInv
<1>4. ASSUME NEW p \in 0..2 * Total + 2, NEW h \in 0..Total, NEW b \in 0..Total,
             Streaming(p, h, b)
      PROVE  StreamInv'
  <2>1. Taken(p, h, b) /\ op \in {"put", "get"}
    BY <1>4 DEF Streaming, Typed, TypeOK
  <2>2. ~(p \in 0..2 * Total + 1 /\ Head(frames) = FrameAt(p + 1))
    <3>1. \A f \in {Start, End, StreamEnd, Done(Total)} : Head(frames) # f
      BY <1>1, Kinds
    <3>2. \A n, part : Head(frames) # Chunk(n, part)
      BY <1>1, Kinds
    <3> QED BY <1>4, <2>1, <3>1, <3>2, NextFrame
  <2>3. op = "get" /\ agent = "down" /\ Tail(frames) = <<>> /\ ToCome(Tail(frames), p)
    BY <1>1, <1>4, <2>2, StreamArrival
  <2>4. /\ p \in (0..2 * Total + 2)' /\ h \in (0..Total)' /\ b \in (0..Total)'
        /\ Taken(p, h, b)' /\ ToCome(frames, p)'
        /\ (call # "none")' /\ (op = "get" => served)'
    BY <1>1, <1>4, <2>1, <2>3, TakesOn
  <2>5. Extracting(h, b)' /\ (p < Lead => Untouched)' /\ frames' = <<>>
    BY <1>1, <1>4, <2>3, AskedIsFixed DEF Streaming, Extracting, Copied, Untouched, Arrives
  <2>6. Streaming(p, h, b)'
    BY <1>1, <1>4, <2>3, <2>4, <2>5, AskedIsFixed DEF Streaming
  <2> QED BY <2>4, <2>6 DEF StreamInv
<1> QED BY <1>1, <1>2, <1>3, <1>4, Arrival

-----------------------------------------------------------------------------
(* What the caller hears *)

\* A return changes nothing of the stream.
LEMMA StreamReturns ==
  ASSUME Typed, StreamInv, call = "waiting",
         UNCHANGED <<asked, dest, served, agent, frames, ext, failure>>,
         call' \in {"resolved", "rejected"}, counts' \in Nat,
         \/ op = "get" /\ ext.state \in {"resolved", "rejected"} /\ counts' = counts
         \/ op = "put",
         call' = "resolved" => /\ ext.state = "resolved" /\ ~failure
                               /\ op = "put" => counts' = ext.files
  PROVE  Typed' /\ StreamInv'
<1>1. Typed'
  BY DEF Typed, TypeOK, asked
<1>2. CASE Awaiting
  BY <1>2 DEF Awaiting, Fresh0
<1>3. CASE Failing
  <2>1. Untouched'
    BY <1>3, AskedIsFixed DEF Failing, Untouched
  <2>2. call' = "resolved" => agent = "down"
    BY <1>3 DEF Failing, Typed, TypeOK
  <2>3. Failing'
    BY <1>3, <2>1, <2>2, AskedIsFixed DEF Failing
  <2> QED BY <1>1, <2>3 DEF StreamInv
<1>4. ASSUME NEW p \in 0..2 * Total + 2, NEW h \in 0..Total, NEW b \in 0..Total,
             Streaming(p, h, b)
      PROVE  StreamInv'
  <2>1. Extracting(h, b)' /\ Taken(p, h, b)' /\ (p < Lead => Untouched)'
    BY <1>4, AskedIsFixed DEF Streaming, Extracting, Taken, Copied, Untouched
  <2>2. ToCome(frames, p)'
    <3>1. Len(frames) \in Nat
      BY LenProperties DEF Typed
    <3>2. \A i \in 1..Len(frames) : FrameAt(p + i)' = FrameAt(p + i)
      BY <3>1, AskedIsFixed
    <3>3. frames' = frames /\ Total' = Total /\ op' = op /\ agent' = agent
      BY AskedIsFixed
    <3>4. CASE Rest(frames, p)
      BY <3>2, <3>3, <3>4 DEF ToCome, Rest
    <3>5. CASE CutShort(frames, p)
      BY <3>2, <3>3, <3>5 DEF ToCome, CutShort
    <3> QED BY <1>4, <3>4, <3>5 DEF Streaming, ToCome
  <2>3. op = "get" => counts' = counts
    OBVIOUS
  <2>4. Streaming(p, h, b)'
    BY <1>4, <2>1, <2>2, <2>3, AskedIsFixed DEF Streaming
  <2>5. p \in (0..2 * Total + 2)' /\ h \in (0..Total)' /\ b \in (0..Total)'
    BY AskedIsFixed
  <2> QED BY <2>4, <2>5 DEF StreamInv
<1>5. ~NotBegun /\ ~Refusal
  BY DEF NotBegun, Refusal
<1> QED BY <1>1, <1>2, <1>3, <1>4, <1>5 DEF StreamInv

LEMMA StreamGetReturns ==
  ASSUME Typed, StreamInv, GetReturns
  PROVE  Typed' /\ StreamInv'
BY StreamReturns DEF GetReturns, Extracted, Typed, TypeOK

LEMMA StreamPutReturns ==
  ASSUME Typed, StreamInv, PutReturns
  PROVE  Typed' /\ StreamInv'
<1>1. ext.files \in Nat
  BY TransferAssumption DEF Typed, TypeOK, Extraction
<1>2. ~failure
  BY DEF StreamInv, PutReturns, Extracted, NotBegun, Refusal, Awaiting, Failing, Streaming
<1> QED BY <1>1, <1>2, StreamReturns DEF PutReturns, Extracted

LEMMA StreamPutLost ==
  ASSUME Typed, StreamInv, PutLost
  PROVE  Typed' /\ StreamInv'
BY StreamReturns DEF PutLost, Typed, TypeOK

\* Every step of a transfer keeps the account of its stream.
LEMMA StreamStep ==
  ASSUME Typed, StreamInv, [Next]_vars
  PROVE  Typed' /\ StreamInv'
<1>1. CASE Next
  BY <1>1, StreamPut, StreamPutFails, StreamGet, StreamServe, StreamServeError, StreamDies,
     StreamReceiveStart, StreamReceiveHeader, StreamReceiveBytes, StreamReceiveEnd,
     StreamReceiveDone, StreamReceiveError, StreamReceiveClose, StreamGetReturns,
     StreamPutReturns, StreamPutLost DEF Next, Receives
<1>2. CASE UNCHANGED vars
  <2>1. UNCHANGED <<op, tree, match, before, dest, call, served, agent, frames, ext, failure,
                    counts>> /\ UNCHANGED asked
    BY <1>2 DEF vars, asked
  <2>2. Typed'
    BY <2>1 DEF Typed, TypeOK
  <2>3. Total \in Nat /\ Len(frames) \in Nat
    BY PackedIsFinite, LenProperties DEF Typed
  <2>4. CASE NotBegun \/ Refusal \/ Awaiting \/ Failing
    BY <2>1, <2>2, <2>4
       DEF StreamInv, NotBegun, Refusal, Awaiting, Failing, Fresh0, Untouched
  <2>5. ASSUME NEW p \in 0..2 * Total + 2, NEW h \in 0..Total, NEW b \in 0..Total,
               Streaming(p, h, b)
        PROVE  StreamInv'
    <3>1. Extracting(h, b)' /\ Taken(p, h, b)' /\ (p < Lead => Untouched)'
      BY <2>1, <2>5, AskedIsFixed DEF Streaming, Extracting, Taken, Copied, Untouched
    <3>2. \A i \in 1..Len(frames) : FrameAt(p + i)' = FrameAt(p + i)
      BY <2>1, <2>3, AskedIsFixed
    <3>3. ToCome(frames, p)'
      BY <2>1, <2>5, <3>2, AskedIsFixed DEF Streaming, ToCome, Rest, CutShort
    <3>4. Streaming(p, h, b)'
      BY <2>1, <2>5, <3>1, <3>3, AskedIsFixed DEF Streaming
    <3> QED BY <2>1, <3>4, AskedIsFixed DEF StreamInv
  <2> QED BY <2>2, <2>4, <2>5 DEF StreamInv
<1> QED BY <1>1, <1>2

-----------------------------------------------------------------------------
(* The limits *)

LEMMA BytesAreSum ==
  /\ \A S : BytesOf(S) = SumOn(tree.size, S)
  /\ BytesOf(Written)' = SumOn(tree'.size, Written')
<1>1. \A S : BytesOf(S) = SumOn(tree.size, S)
  BY Zenon DEF BytesOf, SumOn
<1>2. BytesOf(Written)' = SumOn(tree'.size, Written')
  BY Zenon DEF BytesOf, SumOn, MapThenSumSet, MapThenFoldSet
<1> QED BY <1>1, <1>2

LEMMA BytesAdd ==
  ASSUME tree \in Tree, NEW S \in SUBSET Rel, NEW n \in Rel
  PROVE  /\ BytesOf(S) \in Nat
         /\ BytesOf(S \cup {n}) = IF n \in S THEN BytesOf(S) ELSE BytesOf(S) + tree.size[n]
<1>1. tree.size \in [Rel -> Nat] /\ IsFiniteSet(Rel)
  BY FS_Interval, TransferAssumption DEF Tree, Rel
<1>2. \A U \in SUBSET Rel :
        /\ SumOn(tree.size, U) \in Nat
        /\ \A x \in U : SumOn(tree.size, U) = tree.size[x] + SumOn(tree.size, U \ {x})
  BY <1>1, SumAdds
<1>3. CASE n \in S
  <2>1. S \cup {n} = S
    BY <1>3
  <2> QED BY <1>2, <1>3, <2>1, BytesAreSum
<1>4. CASE n \notin S
  <2>1. S \cup {n} \in SUBSET Rel /\ (S \cup {n}) \ {n} = S
    BY <1>4
  <2>2. SumOn(tree.size, S \cup {n}) = tree.size[n] + SumOn(tree.size, S)
    BY <1>2, <2>1
  <2>3. SumOn(tree.size, S) \in Nat /\ tree.size[n] \in Nat
    BY <1>1, <1>2
  <2> QED BY <1>4, <2>2, <2>3, BytesAreSum
<1> QED BY <1>3, <1>4

LEMMA BytesNext ==
  ASSUME tree' = tree
  PROVE  BytesOf(Written)' = BytesOf(Written')
<1>1. SumOn(tree'.size, Written') = SumOn(tree.size, Written')
  OBVIOUS
<1>2. BytesOf(Written') = SumOn(tree.size, Written')
  BY BytesAreSum
<1> QED BY <1>1, <1>2, BytesAreSum

\* Nothing is written yet.
LEMMA NothingWritten ==
  ASSUME Typed, dest = before
  PROVE  Written = {} /\ BytesOf(Written) = 0
<1>1. Written = {}
  BY DEF Written, Typed, TypeOK
<1> QED BY <1>1, SumEmpty, BytesAreSum

LEMMA LimitsBegin ==
  ASSUME Typed, dest = before, ext.lowered = {}, ext.entries = 0, ext.bytes = 0, ext.open = 0
  PROVE  LimitsInv
BY NothingWritten, FS_EmptySet, TransferAssumption DEF LimitsInv

\* The limits are about what is written, and what has been let through.
LEMMA LimitsKept ==
  ASSUME LimitsInv, UNCHANGED <<asked, dest>>,
         ext'.lowered = ext.lowered, ext'.entries = ext.entries, ext'.bytes = ext.bytes,
         ext'.open = ext.open, ext'.failed = ext.failed
  PROVE  LimitsInv'
<1>1. Written' = Written /\ tree' = tree
  BY AskedIsFixed DEF Written
<1>2. BytesOf(Written)' = BytesOf(Written)
  BY <1>1, BytesNext
<1> QED BY <1>1, <1>2 DEF LimitsInv

LEMMA ChunkArrives ==
  ASSUME Typed, Arrives("CHUNK")
  PROVE  Head(frames).rel \in Rel
<1>1. Head(frames) \in Frame /\ Head(frames).kind = "CHUNK"
  BY HeadTailProperties DEF Typed, Arrives
<1>2. PICK n \in Rel, part \in {"header", "bytes"} : Head(frames) = Chunk(n, part)
  <2>1. /\ \A f \in {Start, End, Error, StreamEnd, StreamClose} : Head(frames) # f
        /\ \A m : Head(frames) # Done(m)
    BY <1>1, Kinds
  <2> QED BY <1>1, <2>1 DEF Frame
<1> QED BY <1>2, Kinds

LEMMA LimitsReceiveHeader ==
  ASSUME Typed, LimitsInv, ReceiveHeader
  PROVE  LimitsInv'
<1> DEFINE n == Head(frames).rel
<1>1. UNCHANGED <<asked, dest>> /\ Written' = Written /\ tree' = tree
  BY AskedIsFixed DEF ReceiveHeader, Arrives, Written
<1>2. ext \in Extraction /\ IsFiniteSet(ext.lowered) /\ BytesOf(Written)' = BytesOf(Written)
  <2>1. IsFiniteSet(Rel)
    BY FS_Interval, TransferAssumption DEF Rel
  <2>2. ext \in Extraction
    BY DEF Typed, TypeOK
  <2> QED BY <1>1, <2>1, <2>2, FS_Subset, BytesNext DEF Extraction
<1>3. Cardinality(ext.lowered) \in Nat /\ ext.entries \in Nat /\ ext.bytes \in Nat
  BY <1>2, FS_CardinalityType, TransferAssumption DEF Extraction
<1> HIDE DEF n
<1>4. CASE ext.failed
  BY <1>1, <1>4, LimitsKept DEF ReceiveHeader
<1>5. CASE ~ext.failed /\ Refused(n)
  <2>1. ext' = [ext EXCEPT !.entries = @ + 1, !.failed = TRUE]
    BY <1>5 DEF ReceiveHeader, n
  <2>2. /\ ext'.entries = ext.entries + 1 /\ ext'.failed = TRUE /\ ext'.lowered = ext.lowered
        /\ ext'.open = ext.open /\ ext'.bytes = ext.bytes
    BY <1>2, <2>1 DEF Extraction
  <2> QED BY <1>1, <1>2, <1>3, <2>2 DEF LimitsInv
<1>6. CASE ~ext.failed /\ ~Refused(n)
  <2>1. ext' = [ext EXCEPT !.entries = @ + 1, !.open = n, !.lowered = @ \cup {n}]
    BY <1>6 DEF ReceiveHeader, n
  <2>2. /\ ext'.entries = ext.entries + 1 /\ ext'.lowered = ext.lowered \cup {n}
        /\ ext'.open = n /\ ext'.bytes = ext.bytes /\ ext'.failed = ext.failed
    BY <1>2, <2>1 DEF Extraction
  <2>3. /\ Cardinality(ext.lowered \cup {n}) <= ext.entries + 1
        /\ Cardinality(ext.lowered \cup {n}) <= MaxEntries
    <3>1. Cardinality(ext.lowered \cup {n}) <= Cardinality(ext.lowered) + 1
      BY <1>2, <1>3, FS_AddElement
    <3>2. Cardinality(ext.lowered \cup {n}) \in Nat
      BY <1>2, FS_AddElement, FS_CardinalityType
    <3> QED BY <1>3, <1>6, <3>1, <3>2, TransferAssumption DEF LimitsInv, Refused
  <2>4. /\ \A l, m \in ext.lowered \cup {n} : Fold[m] = Fold[l] => m = l
        /\ n \notin Unfit /\ tree.size[n] <= MaxFileBytes
        /\ ext.bytes + tree.size[n] <= MaxBytes /\ ext.entries + 1 <= MaxEntries
    <3>1. n \in Rel
      BY ChunkArrives DEF ReceiveHeader, n
    <3>2. tree.size[n] \in Nat
      BY <3>1, TransferAssumption DEF Typed, TypeOK, Tree
    <3> QED BY <1>3, <1>6, <3>2, TransferAssumption DEF LimitsInv, Refused
  <2> QED BY <1>1, <1>2, <1>6, <2>2, <2>3, <2>4 DEF LimitsInv
<1> QED BY <1>4, <1>5, <1>6

\* Half a file counts whole.
LEMMA WrittenGrows ==
  ASSUME Typed, NEW n \in Rel, dest' \in {[dest EXCEPT ![n] = c] : c \in {"new", "partial"}},
         tree' = tree
  PROVE  /\ Written' = Written \cup {n} /\ BytesOf(Written) \in Nat
         /\ BytesOf(Written)' \in Nat /\ BytesOf(Written)' <= BytesOf(Written) + tree.size[n]
<1>1. Written' = Written \cup {n}
  BY DEF Written, Typed, TypeOK
<1>2. tree \in Tree /\ tree.size[n] \in Nat
  BY TransferAssumption DEF Typed, TypeOK, Tree
<1>3. Written \in SUBSET Rel /\ Written \cup {n} \in SUBSET Rel
  BY DEF Written
<1>4. BytesOf(Written)' = BytesOf(Written \cup {n})
  BY <1>1, BytesNext
<1>5. /\ BytesOf(Written) \in Nat /\ BytesOf(Written \cup {n}) \in Nat
      /\ BytesOf(Written \cup {n}) <= BytesOf(Written) + tree.size[n]
  <2> DEFINE W == Written
  <2> HIDE DEF W
  <2>1. W \in SUBSET Rel
    BY <1>3 DEF W
  <2>2. /\ BytesOf(W) \in Nat
        /\ BytesOf(W \cup {n}) = IF n \in W THEN BytesOf(W) ELSE BytesOf(W) + tree.size[n]
    BY <1>2, <2>1, BytesAdd
  <2>3. BytesOf(W \cup {n}) \in Nat /\ BytesOf(W \cup {n}) <= BytesOf(W) + tree.size[n]
    BY <1>2, <2>2
  <2> QED BY <2>2, <2>3 DEF W
<1> QED BY <1>1, <1>4, <1>5

LEMMA LimitsReceiveBytes ==
  ASSUME Typed, LimitsInv, ReceiveBytes
  PROVE  LimitsInv'
<1> DEFINE n == Head(frames).rel
<1>1. UNCHANGED asked /\ n \in Rel /\ tree' = tree
  BY ChunkArrives, AskedIsFixed DEF ReceiveBytes, Arrives
<1>2. /\ ext \in Extraction /\ ext.bytes \in Nat /\ tree.size[n] \in Nat /\ n # 0
      /\ ext.open # 0 => ~ext.failed /\ ext.open \in ext.lowered
  <2>1. tree \in Tree /\ n # 0
    BY <1>1, TransferAssumption DEF Typed, TypeOK, Rel
  <2>2. tree.size[n] \in Nat
    BY <1>1, <2>1 DEF Tree
  <2>3. ext \in Extraction /\ ext.bytes \in Nat
    BY DEF Typed, TypeOK, Extraction
  <2> QED BY <2>1, <2>2, <2>3 DEF Typed, TypeOK
<1> HIDE DEF n
<1>3. CASE ext.open # n /\ ext' = ext /\ dest' = dest
  BY <1>1, <1>3, LimitsKept
<1>4. CASE /\ ext.open = n
           /\ ext' = [ext EXCEPT !.open = 0, !.files = @ + 1, !.bytes = @ + tree.size[n]]
           /\ dest' = [dest EXCEPT ![n] = "new"]
  <2>1. /\ ext'.entries = ext.entries /\ ext'.lowered = ext.lowered /\ ext'.open = 0
        /\ ext'.bytes = ext.bytes + tree.size[n] /\ ext'.failed = ext.failed
    BY <1>2, <1>4 DEF Extraction
  <2>2. /\ Written' = Written \cup {n} /\ BytesOf(Written) \in Nat
        /\ BytesOf(Written)' \in Nat /\ BytesOf(Written)' <= BytesOf(Written) + tree.size[n]
    BY <1>1, <1>4, WrittenGrows
  <2>3. ~ext.failed /\ n \in ext.lowered /\ ext.bytes + tree.size[n] <= MaxBytes
    BY <1>2, <1>4 DEF LimitsInv
  <2>4. BytesOf(Written)' <= ext.bytes + tree.size[n] /\ BytesOf(Written)' <= MaxBytes
    BY <1>2, <2>2, <2>3, TransferAssumption DEF LimitsInv
  <2> QED BY <1>1, <2>1, <2>2, <2>3, <2>4 DEF LimitsInv
<1>5. CASE /\ ext.open = n /\ ext' = [ext EXCEPT !.open = 0, !.failed = TRUE]
           /\ dest' \in {dest, [dest EXCEPT ![n] = "partial"]}
  <2>1. /\ ext'.entries = ext.entries /\ ext'.lowered = ext.lowered /\ ext'.open = 0
        /\ ext'.bytes = ext.bytes /\ ext'.failed = TRUE
    BY <1>2, <1>5 DEF Extraction
  <2>2. ~ext.failed /\ n \in ext.lowered /\ ext.bytes + tree.size[n] <= MaxBytes
    BY <1>2, <1>5 DEF LimitsInv
  <2>3. CASE dest' = dest
    <3>1. Written' = Written /\ BytesOf(Written)' = BytesOf(Written)
      BY <1>1, <2>3, BytesNext DEF Written
    <3> QED BY <1>1, <2>1, <3>1 DEF LimitsInv
  <2>4. CASE dest' = [dest EXCEPT ![n] = "partial"]
    <3>1. /\ Written' = Written \cup {n} /\ BytesOf(Written) \in Nat
          /\ BytesOf(Written)' \in Nat /\ BytesOf(Written)' <= BytesOf(Written) + tree.size[n]
      BY <1>1, <2>4, WrittenGrows
    <3>2. BytesOf(Written)' <= MaxBytes
      BY <1>2, <2>2, <3>1, TransferAssumption DEF LimitsInv
    <3> QED BY <1>1, <2>1, <2>2, <3>1, <3>2 DEF LimitsInv
  <2> QED BY <1>5, <2>3, <2>4
<1> QED BY <1>3, <1>4, <1>5 DEF ReceiveBytes, n

\* Every step of a transfer keeps what is written within the limits.
LEMMA LimitsStep ==
  ASSUME Typed, Typed', StreamInv, LimitsInv, [Next]_vars
  PROVE  LimitsInv'
<1>1. ASSUME UNCHANGED <<asked, dest, ext>> PROVE LimitsInv'
  BY <1>1, LimitsKept
<1>2. ASSUME InputEnds, UNCHANGED <<asked, dest>> PROVE LimitsInv'
  BY <1>2, LimitsKept, InputEndType
<1>3. ASSUME ext' = NewExtraction, (dest = before)' PROVE LimitsInv'
  <2>1. LimitsInv' \/ ~(Typed' /\ (dest = before)' /\ (ext.lowered = {})' /\ (ext.entries = 0)'
                         /\ (ext.bytes = 0)' /\ (ext.open = 0)')
    BY LimitsBegin, PTL
  <2> QED BY <1>3, <2>1, NewExtractionType
<1>4. CASE Get
  <2>1. NotBegun
    BY <1>4, BeginsOnce DEF Get
  <2>2. UNCHANGED asked /\ dest' = before'
    BY <1>4, <2>1, AskedIsFixed DEF Get, NotBegun, Fresh0, Untouched
  <2> QED BY <1>1, <1>3, <1>4, <2>2 DEF Get
<1>5. CASE ReceiveStart
  <2>1. Arrives("START") /\ UNCHANGED <<asked, dest>> /\ ext' = NewExtraction
    BY <1>5 DEF ReceiveStart, Arrives
  <2>2. dest = before
    <3>1. ~(Failing /\ Head(frames) \in {Error, StreamEnd, StreamClose})
      BY <2>1, Kinds DEF Arrives
    <3>2. ASSUME NEW p \in 0..2 * Total + 2, NEW h \in 0..Total, NEW b \in 0..Total,
                 Streaming(p, h, b)
          PROVE  dest = before
      <4>1. p \in 0..2 * Total + 1 /\ Head(frames) = FrameAt(p + 1)
        BY <2>1, <3>2, StreamArrival
      <4>2. Taken(p, h, b) /\ op \in {"put", "get"}
        BY <3>2 DEF Streaming, Typed, TypeOK
      <4>3. Head(frames).kind = "START"
        BY <2>1 DEF Arrives
      <4>4. \A f \in {End, StreamEnd, Done(Total)} : Head(frames) # f
        BY <4>3, Kinds
      <4>5. \A n, part : Head(frames) # Chunk(n, part)
        BY <4>3, Kinds
      <4>6. p < Lead
        BY <4>1, <4>2, <4>4, <4>5, NextFrame
      <4> QED BY <3>2, <4>6 DEF Streaming, Untouched
    <3> QED BY <2>1, <3>1, <3>2, Arrival DEF Refusal, Untouched
  <2> QED BY <1>3, <2>1, <2>2, AskedIsFixed
<1>6. CASE UNCHANGED vars
  BY <1>1, <1>6 DEF vars, asked
<1>7. CASE ReceiveHeader \/ ReceiveBytes
  BY <1>7, LimitsReceiveHeader, LimitsReceiveBytes
<1>8. CASE ReceiveEnd \/ ReceiveDone \/ ReceiveError
  BY <1>2, <1>8 DEF ReceiveEnd, ReceiveDone, ReceiveError, Arrives
<1>9. CASE \/ Put \/ PutFails \/ Serve \/ ServeError \/ AgentDies
           \/ ReceiveClose \/ GetReturns \/ PutReturns \/ PutLost
  BY <1>1, <1>9 DEF Put, PutFails, Serve, ServeError, Answer, AgentDies, ReceiveClose, Arrives,
                    GetReturns, PutReturns, PutLost
<1> QED BY <1>4, <1>5, <1>6, <1>7, <1>8, <1>9 DEF Next, Receives

LEMMA TransferInvInit ==
  ASSUME Init
  PROVE  TransferInv
<1>1. Typed /\ StreamInv
  BY StreamInit
<1>2. LimitsInv
  BY <1>1, LimitsBegin, NewExtractionType DEF Init, NewExtraction
<1>3. FreshInv
  BY DEF Init, FreshInv
<1> QED BY <1>1, <1>2, <1>3 DEF TransferInv

LEMMA FreshStep ==
  ASSUME TransferInv, [Next]_vars
  PROVE  FreshInv'
<1>1. FreshInv /\ op \in {"put", "get"} /\ (call = "none" => dest = before)
  BY DEF TransferInv, Typed, TypeOK, StreamInv, NotBegun, Fresh0, Untouched, Refusal, Awaiting,
         Failing, Streaming
<1>2. UNCHANGED <<op, before>>
  BY DEF Next, Put, PutFails, Get, Serve, ServeError, Answer, AgentDies, Receives, ReceiveStart,
         ReceiveHeader, ReceiveBytes, ReceiveEnd, ReceiveDone, ReceiveError, ReceiveClose,
         Arrives, GetReturns, PutReturns, PutLost, asked, vars
<1>3. \/ op = "get" /\ Get
      \/ op # "get" \/ call' = "rejected"
      \/ call \in {"waiting", "resolved"} \/ call' \notin {"waiting", "resolved"}
  BY DEF Next, Put, PutFails, Serve, ServeError, Answer, Serving, AgentDies, Receives,
         ReceiveStart, ReceiveHeader, ReceiveBytes, ReceiveEnd, ReceiveDone, ReceiveError,
         ReceiveClose, Arrives, GetReturns, Extracted, PutReturns, PutLost, vars
<1>4. CASE op = "get" /\ Get
  BY <1>1, <1>2, <1>4 DEF Get, FreshInv, FreshAtFirst
<1> QED BY <1>1, <1>2, <1>3, <1>4 DEF FreshInv, FreshAtFirst

LEMMA TransferInvStep ==
  ASSUME TransferInv, [Next]_vars
  PROVE  TransferInv'
<1>1. Typed' /\ StreamInv'
  BY StreamStep DEF TransferInv
<1>2. LimitsInv'
  BY <1>1, LimitsStep DEF TransferInv
<1>3. FreshInv'
  BY FreshStep
<1> QED BY <1>1, <1>2, <1>3 DEF TransferInv

-----------------------------------------------------------------------------
(* What the invariant says of a call that has come back *)

\* The first b files of the walk are the packed files up to the last of them.
LEMMA FirstFilesAre ==
  ASSUME NEW b \in 0..Total
  PROVE  FirstFiles(b) = {m \in Packed : m <= IF b = 0 THEN 0 ELSE Walk[b]}
<1>0. \A m \in Packed : m \in Nat /\ ~(m <= 0)
  BY PackedIsFinite, TransferAssumption DEF Rel
<1>1. Total \in Nat /\ \A i \in 1..Total : Walk[i] \in Packed /\ Walk[i] \in Nat
  BY <1>0, WalkIsThePacked, PackedIsFinite
<1>2. CASE b = 0
  <2>1. FirstFiles(0) = {} /\ {m \in Packed : m <= 0} = {}
    BY <1>0 DEF FirstFiles
  <2> QED BY <1>2, <2>1
<1>3. CASE b # 0
  <2>1. b \in 1..Total /\ Walk[b] \in Nat
    BY <1>1, <1>3
  <2>2. ASSUME NEW i \in 1..b PROVE Walk[i] \in Packed /\ Walk[i] <= Walk[b]
    <3>1. i \in 1..Total /\ Walk[i] \in Packed /\ Walk[i] \in Nat
      BY <1>1, <2>1
    <3>2. i < b => Walk[i] < Walk[b]
      BY <2>1, <3>1, WalkIsThePacked DEF Rising
    <3>3. i = b \/ i < b
      BY <2>1
    <3> QED BY <2>1, <3>1, <3>2, <3>3
  <2>3. ASSUME NEW m \in Packed, m <= Walk[b] PROVE \E i \in 1..b : Walk[i] = m
    <3>1. PICK i \in 1..Total : Walk[i] = m
      BY WalkIsThePacked
    <3>2. b < i => Walk[b] < Walk[i]
      BY <1>1, <2>1, <3>1, WalkIsThePacked DEF Rising
    <3>3. i \in 1..b
      BY <1>1, <2>1, <2>3, <3>1, <3>2
    <3> QED BY <3>1, <3>3
  <2> QED BY <1>3, <2>2, <2>3 DEF FirstFiles
<1> QED BY <1>2, <1>3

LEMMA AllFilesAre == FirstFiles(Total) = Packed
<1>1. Walk \in [1..Total -> Packed] /\ \A n \in Packed : \E i \in 1..Total : Walk[i] = n
  BY WalkIsThePacked
<1> QED BY <1>1 DEF FirstFiles

\* When a call has resolved it has the first files, whole, and all of them if it was told so.
LEMMA ResolvedHas ==
  ASSUME TransferInv, call = "resolved"
  PROVE  \/ Copied({}) /\ counts = NoCount /\ agent = "down"
         \/ \E b \in 0..Total : /\ Copied(FirstFiles(b)) /\ ext.files = b
                                /\ \/ counts = NoCount /\ agent = "down"
                                   \/ counts = Total /\ b = Total /\ counts # NoCount
<1>1. CASE Failing
  BY <1>1 DEF Failing, Untouched, Copied
<1>2. ASSUME NEW p \in 0..2 * Total + 2, NEW h \in 0..Total, NEW b \in 0..Total,
             Streaming(p, h, b)
      PROVE  /\ Copied(FirstFiles(b)) /\ ext.files = b
             /\ \/ counts = NoCount /\ agent = "down"
                \/ counts = Total /\ b = Total /\ counts # NoCount
  <2>1. /\ ext.state = "resolved" /\ ~ext.failed /\ Extracting(h, b) /\ Taken(p, h, b)
        /\ op \in {"put", "get"} /\ Total \in Nat /\ Total <= NRels
    BY <1>2, PackedIsFinite DEF Streaming, TransferInv, Typed, TypeOK
  <2>2. ext.files = b /\ Copied(FirstFiles(b))
    BY <2>1 DEF Extracting
  <2>3. Total # NoCount
    BY <2>1, TransferAssumption DEF NoCount
  <2>4. CASE p >= All
    <3>1. b = Total
      BY <2>1, <2>4 DEF Taken, Lead, All
    <3> QED BY <1>2, <2>1, <2>2, <2>3, <2>4, <3>1 DEF Streaming
  <2>5. CASE ~(p >= All)
    BY <1>2, <2>1, <2>2, <2>5 DEF Streaming
  <2> QED BY <2>4, <2>5
<1> QED BY <1>1, <1>2 DEF TransferInv, StreamInv, NotBegun, Refusal, Awaiting

LEMMA WholeWhenTold ==
  ASSUME TransferInv
  PROVE  ResolvedIsWhole
<1> SUFFICES ASSUME call = "resolved", counts # NoCount
             PROVE  /\ \A n \in Packed : dest[n] = "new"
                    /\ counts = ext.files /\ counts = Cardinality(Packed)
                    /\ op = "get" => FreshAtFirst
                    /\ FreshAtFirst =>
                         \A n \in Rel : dest[n] = IF n \in Packed THEN "new" ELSE "none"
  BY DEF ResolvedIsWhole
<1>1. Copied(Packed) /\ counts = ext.files /\ counts = Cardinality(Packed)
  BY ResolvedHas, AllFilesAre DEF Total
<1>2. Packed \subseteq Rel
  BY DEF Packed
<1>3. op = "get" => FreshAtFirst
  BY DEF TransferInv, FreshInv
<1> QED BY <1>1, <1>2, <1>3 DEF Copied, FreshAtFirst

LEMMA CutWhenNotTold ==
  ASSUME TransferInv
  PROVE  CutBetweenFiles
<1> SUFFICES ASSUME call = "resolved"
             PROVE  /\ \E n \in 0..NRels : Copied({m \in Packed : m <= n})
                    /\ counts = NoCount => agent = "down"
  BY DEF CutBetweenFiles
<1>1. 0 \in 0..NRels /\ {m \in Packed : m <= 0} = {}
  BY TransferAssumption DEF Packed, Rel
<1>2. ASSUME NEW b \in 0..Total, Copied(FirstFiles(b))
      PROVE  \E n \in 0..NRels : Copied({m \in Packed : m <= n})
  <2> DEFINE n == IF b = 0 THEN 0 ELSE Walk[b]
  <2>1. n \in 0..NRels
    <3>1. b # 0 => b \in 1..Total
      BY PackedIsFinite
    <3>2. b # 0 => Walk[b] \in Packed
      BY <3>1, WalkIsThePacked
    <3>3. \A m \in Packed : m \in 0..NRels
      BY PackedIsFinite, TransferAssumption DEF Rel
    <3> QED BY <3>2, <3>3, TransferAssumption
  <2>2. FirstFiles(b) = {m \in Packed : m <= n}
    BY FirstFilesAre
  <2> QED BY <1>2, <2>1, <2>2
<1>3. CASE Copied({}) /\ agent = "down"
  BY <1>1, <1>3
<1> QED BY <1>2, <1>3, ResolvedHas

LEMMA AllowedWhenLimited ==
  ASSUME TransferInv
  PROVE  WritesOnlyAllowed
<1>1. /\ Written \subseteq ext.lowered /\ ext.lowered \cap Unfit = {}
      /\ \A m, n \in ext.lowered : Fold[m] = Fold[n] => m = n
      /\ \A n \in ext.lowered : tree.size[n] <= MaxFileBytes
      /\ Cardinality(ext.lowered) <= MaxEntries /\ BytesOf(Written) <= MaxBytes
  BY DEF TransferInv, LimitsInv
<1>2. IsFiniteSet(ext.lowered)
  <2>1. IsFiniteSet(Rel)
    BY FS_Interval, TransferAssumption DEF Rel
  <2> QED BY <2>1, FS_Subset DEF TransferInv, Typed, TypeOK, Extraction
<1>3. Cardinality(Written) <= MaxEntries
  <2>1. /\ Cardinality(Written) <= Cardinality(ext.lowered)
        /\ Cardinality(Written) \in Nat /\ Cardinality(ext.lowered) \in Nat
    BY <1>1, <1>2, FS_Subset, FS_CardinalityType
  <2> QED BY <1>1, <2>1, TransferAssumption
<1> QED BY <1>1, <1>3 DEF WritesOnlyAllowed, Written

-----------------------------------------------------------------------------
(* The life of the sandbox *)

\* Every step of the sandbox is a step of the call in it, or none of its business.
LEMMA SandboxStepIsTransferStep ==
  ASSUME [SandboxNext]_sandboxVars
  PROVE  [Next]_vars
<1>1. CASE Life
  <2>1. UNCHANGED vars
    BY <1>1 DEF Life, Prepare, HandleKnown, HelloAnswered, RefusalEnds, HelloFails,
                HelloTimesOut, Dispose, ClientStops, GraceOver, Reap, ReapFails, RunnerCrashes,
                ContainerStarts, ContainerEnds, ClientExits, Runs, Podman
  <2> QED BY <2>1
<1>2. CASE CallBegins
  BY <1>2 DEF CallBegins, Next
<1>3. CASE AgentWorks
  BY <1>3 DEF AgentWorks, Next
<1>4. CASE DriverWorks
  BY <1>4 DEF DriverWorks, Next
<1>5. CASE StreamBreaks
  BY <1>5 DEF StreamBreaks, Next
<1>6. CASE Settled \/ Stuck \/ UNCHANGED sandboxVars
  BY <1>6 DEF Settled, Stuck, sandboxVars
<1> QED BY <1>1, <1>2, <1>3, <1>4, <1>5, <1>6 DEF SandboxNext

LifeInv == LifeTypeOK /\ DisposeInv /\ PrepareInv

LEMMA SettingType ==
  ASSUME setting \in Settings
  PROVE  /\ setting.orderly \in BOOLEAN /\ setting.eventful \in BOOLEAN
         /\ setting.timed \in BOOLEAN /\ setting.leaks \in BOOLEAN
         /\ setting.lists \in BOOLEAN /\ setting.offers \subseteq Op
BY SettingsAssumption DEF Setting

LEMMA LifeInvInit ==
  ASSUME SandboxInit
  PROVE  LifeInv
BY SettingType DEF SandboxInit, Fresh, Ready, LifeInv, LifeTypeOK, DisposeInv, PrepareInv

LEMMA LifeInvPrepare ==
  ASSUME LifeInv, Prepare \/ HandleKnown \/ HelloAnswered \/ RefusalEnds \/ HelloFails
                  \/ HelloTimesOut
  PROVE  LifeInv'
<1>1. CASE Prepare
  BY <1>1 DEF LifeInv, LifeTypeOK, DisposeInv, PrepareInv, Prepare, Runs
<1>2. CASE HandleKnown
  BY <1>2 DEF LifeInv, LifeTypeOK, DisposeInv, PrepareInv, HandleKnown, Runs
<1>3. CASE HelloAnswered /\ setting.leaks
  BY <1>3 DEF LifeInv, LifeTypeOK, DisposeInv, PrepareInv, HelloAnswered, BeginDispose, Runs
<1>4. CASE HelloAnswered /\ ~setting.leaks
  BY <1>4, SettingType DEF LifeInv, LifeTypeOK, DisposeInv, PrepareInv, HelloAnswered, Runs
<1>5. CASE RefusalEnds \/ HelloFails \/ HelloTimesOut
  <2>1. /\ prep \in {"hello", "refusing"} /\ prep' = "threw"
        /\ UNCHANGED <<setting, prepared, commands, disp, handle, closed, reaped, client,
                       container, pipe, runner>>
    BY <1>5 DEF RefusalEnds, HelloFails, HelloTimesOut, Threw, Runs
  <2> QED BY <2>1 DEF LifeInv, LifeTypeOK, DisposeInv, PrepareInv
<1> QED BY <1>1, <1>2, <1>3, <1>4, <1>5

LEMMA LifeInvDispose ==
  ASSUME LifeInv, Dispose \/ ClientStops \/ GraceOver \/ Reap \/ ReapFails
  PROVE  LifeInv'
<1>1. CASE Dispose
  <2>1. setting.eventful
    BY <1>1 DEF Dispose, MayDispose
  <2> QED BY <1>1 DEF LifeInv, LifeTypeOK, DisposeInv, PrepareInv, Dispose, BeginDispose,
                      MayDispose, Runs
<1>2. CASE ClientStops
  BY <1>2 DEF LifeInv, LifeTypeOK, DisposeInv, PrepareInv, ClientStops, Close, Runs
<1>3. CASE GraceOver
  BY <1>3 DEF LifeInv, LifeTypeOK, DisposeInv, PrepareInv, GraceOver, Close, Runs
<1>4. CASE Reap
  BY <1>4 DEF LifeInv, LifeTypeOK, DisposeInv, PrepareInv, Reap, Close, Runs
<1>5. CASE ReapFails
  BY <1>5 DEF LifeInv, LifeTypeOK, DisposeInv, PrepareInv, ReapFails, Close, Runs
<1> QED BY <1>1, <1>2, <1>3, <1>4, <1>5

LEMMA LifeInvPodman ==
  ASSUME LifeInv, RunnerCrashes \/ ContainerStarts \/ ContainerEnds \/ ClientExits
  PROVE  LifeInv'
<1>1. CASE RunnerCrashes
  BY <1>1 DEF LifeInv, LifeTypeOK, DisposeInv, PrepareInv, RunnerCrashes
<1>2. CASE ContainerStarts
  BY <1>2 DEF LifeInv, LifeTypeOK, DisposeInv, PrepareInv, ContainerStarts, Podman
<1>3. CASE ContainerEnds
  BY <1>3 DEF LifeInv, LifeTypeOK, DisposeInv, PrepareInv, ContainerEnds, Podman
<1>4. CASE ClientExits
  BY <1>4 DEF LifeInv, LifeTypeOK, DisposeInv, PrepareInv, ClientExits, Podman
<1> QED BY <1>1, <1>2, <1>3, <1>4

LEMMA LifeInvStep ==
  ASSUME LifeInv, [SandboxNext]_sandboxVars
  PROVE  LifeInv'
<1>1. CASE Life
  BY <1>1, LifeInvPrepare, LifeInvDispose, LifeInvPodman DEF Life
<1>2. CASE CallBegins \/ AgentWorks \/ DriverWorks \/ StreamBreaks \/ Settled \/ Stuck
           \/ UNCHANGED sandboxVars
  <2>1. UNCHANGED lifeVars
    BY <1>2 DEF CallBegins, AgentWorks, DriverWorks, StreamBreaks, Settled, Stuck, sandboxVars
  <2> QED BY <2>1 DEF lifeVars, LifeInv, LifeTypeOK, DisposeInv, PrepareInv
<1> QED BY <1>1, <1>2 DEF SandboxNext

LEMMA LeftBehindWhenNotReaped ==
  ASSUME LifeInv
  PROVE  NothingLeftBehind
BY DEF LifeInv, LifeTypeOK, DisposeInv, PrepareInv, NothingLeftBehind

-----------------------------------------------------------------------------
(* The theorems *)

\* Whatever the launcher, podman and the caller do, what happens in a sandbox to its put or
\* get (lib/sandbox.js, lib/agent) is a behaviour of Transfer: dispose(), a crash and an
\* exit reach a call only as the end of its stream.
THEOREM SandboxImplementsTransfer == SandboxSpec => Spec
<1>1. SandboxInit => Init
  BY DEF SandboxInit
<1>2. [SandboxNext]_sandboxVars => [Next]_vars
  BY SandboxStepIsTransferStep
<1> QED BY <1>1, <1>2, PTL DEF SandboxSpec, Spec

\* The account of the stream that the other theorems read: where the sender, the frames on
\* their way and the extraction stand to one another.
THEOREM TransferIsAccounted == Spec => []TransferInv
<1>1. Init => TransferInv
  BY TransferInvInit
<1>2. TransferInv /\ [Next]_vars => TransferInv'
  BY TransferInvStep
<1> QED BY <1>1, <1>2, PTL DEF Spec

THEOREM LifeIsAccounted == SandboxSpec => []LifeInv
<1>1. SandboxInit => LifeInv
  BY LifeInvInit
<1>2. LifeInv /\ [SandboxNext]_sandboxVars => LifeInv'
  BY LifeInvStep
<1> QED BY <1>1, <1>2, PTL DEF SandboxSpec

\* Types, of the sandbox and of the call in it.
THEOREM SandboxIsTyped == SandboxSpec => []SandboxTypeOK
<1>1. TransferInv /\ LifeInv => SandboxTypeOK
  BY DEF TransferInv, Typed, LifeInv, SandboxTypeOK
<1> QED BY <1>1, SandboxImplementsTransfer, TransferIsAccounted, LifeIsAccounted, PTL

\* A put or a get that resolves after the sender has said that this was all has copied every
\* packed file, for any tree, globs and limits (pack, extract, put and get of
\* lib/transfer.js, lib/sandbox.js and lib/agent); if the destination was fresh, as it is for
\* every get, nothing else is there.
THEOREM ResolvedCallsAreWhole == SandboxSpec => []ResolvedIsWhole
<1>1. TransferInv => ResolvedIsWhole
  BY WholeWhenTold
<1> QED BY <1>1, SandboxImplementsTransfer, TransferIsAccounted, PTL

\* A call that resolves has no half a file: it has the first files of the walk, and if it
\* was not told that this was all, the agent has gone (get of lib/sandbox.js).
THEOREM CutsFallBetweenFiles == SandboxSpec => []CutBetweenFiles
<1>1. TransferInv => CutBetweenFiles
  BY CutWhenNotTold
<1> QED BY <1>1, SandboxImplementsTransfer, TransferIsAccounted, PTL

\* Whatever pack makes of a tree and wherever that is cut, extract writes within its limits, no
\* unfit path and no two that differ in case only (lib/transfer.js extract).
THEOREM WritesAreAllowed == SandboxSpec => []WritesOnlyAllowed
<1>1. TransferInv => WritesOnlyAllowed
  BY AllowedWhenLimited
<1> QED BY <1>1, SandboxImplementsTransfer, TransferIsAccounted, PTL

\* After dispose() the container goes on only if it could not be removed, or the caller did
\* not wait for prepare() (lib/sandbox.js dispose, launcher.js close and _reap).
THEOREM ContainersAreNotLeftBehind == SandboxSpec => []NothingLeftBehind
<1>1. LifeInv => NothingLeftBehind
  BY LeftBehindWhenNotReaped
<1> QED BY <1>1, LifeIsAccounted, PTL


=============================================================================
