---------------------------- MODULE ValuesProofs ----------------------------
(***************************************************************************)
(* What holds of the way of a value from an output file to an expression   *)
(* and of a condition, for any number of steps, any targets, any names,    *)
(* and files and conditions of any length.                                 *)
(*                                                                         *)
(* First Scope: its invariant says that what a reference was worth stays   *)
(* what it is worth, for a task writes under the id of the step it is at   *)
(* and no other, and no task that has concluded writes at all.  Then       *)
(* Outputs, whose state is any file: there the invariant is of the loop    *)
(* that parses it, turn after turn.  Then Conditions, whose state is any   *)
(* sequence of tokens: what each function of the parser reads, from the    *)
(* terms up, is what the grammar calls by its name, and never a part of    *)
(* something longer when the longer one is there.                          *)
(***************************************************************************)
EXTENDS Scope, Outputs, Conditions, Induction

OptRef == Ref \cup {NoRef}

\* A partial function.
PFun(D, R) == UNION {[d -> R] : d \in SUBSET D}

Worth == Value \cup {Builtin}

\* Types of everything in the scopes of the two jobs.
ScopeTypeOK ==
  /\ declared \in OptRef /\ uses \in [MakerStep -> OptRef] /\ buildable \subseteq Target
  /\ next \in [Target -> 1..NMakerSteps + 1]
  /\ stepOutputs \in [Target -> PFun(MakerStep, SUBSET Key)]
  /\ taskStatus \in [Target -> {"waiting", "running", "unsupported", "failure", "success"}]
  /\ jobResults \in PFun(Target, Worth \cup {Unknown})
  /\ seen \in [Target -> PFun(MakerStep, Worth)]
  /\ read \in Worth \cup Absent

\* A step has outputs once the task has come past it, or has failed at it.
WrittenInv ==
  \A t \in Target : \A i \in DOMAIN stepOutputs[t] :
    i < next[t] \/ (i = next[t] /\ taskStatus[t] = "failure")

\* What a step saw is still what its reference is worth, and was written before it began.
SeenInv ==
  \A t \in Target : \A i \in DOMAIN seen[t] :
    /\ i < next[t] \/ (i = next[t] /\ taskStatus[t] = "failure")
    /\ uses[i] \in Ref /\ uses[i].step < i /\ seen[t][i] = Resolved(t, uses[i])

\* A result is recorded by a task that ran, and a success is worth what is declared.
ResultsInv ==
  /\ \A t \in DOMAIN jobResults : taskStatus[t] \in {"failure", "success"}
  /\ \A t \in Target : /\ taskStatus[t] \in {"running", "failure", "success"} => t \in buildable
                       /\ taskStatus[t] = "unsupported" => t \notin buildable
                       /\ taskStatus[t] = "success" =>
                            /\ t \in DOMAIN jobResults
                            /\ declared # NoRef => Resolved(t, declared) # Unknown
                            /\ jobResults[t] = IF declared = NoRef THEN Unknown
                                               ELSE Resolved(t, declared)

\* The reader reads when everything it needs is over, and what it read stays so.
ReadInv ==
  read # Unread => /\ \A t \in Target : taskStatus[t] \in {"success", "unsupported"}
                   /\ read = NeedsOutput

ScopeInv == ScopeTypeOK /\ WrittenInv /\ SeenInv /\ ResultsInv /\ ReadInv

-----------------------------------------------------------------------------
(* What is not a value *)

LEMMA ThreeAtMost ==
  ASSUME NEW a, NEW b, NEW c
  PROVE  IsFiniteSet({a, b, c}) /\ Cardinality({a, b, c}) <= 3
<1>1. IsFiniteSet({a}) /\ Cardinality({a}) = 1
  BY FS_Singleton
<1>2. IsFiniteSet({a} \cup {b}) /\ Cardinality({a} \cup {b}) \in {1, 2}
  BY <1>1, FS_AddElement
<1>3. IsFiniteSet({a} \cup {b} \cup {c}) /\ Cardinality({a} \cup {b} \cup {c}) \in {1, 2, 3}
  BY <1>2, FS_AddElement
<1>4. {a} \cup {b} \cup {c} = {a, b, c}
  OBVIOUS
<1> QED BY <1>3, <1>4

\* The four things that stand in the place of a value are four, and no reference is one.
LEMMA Apart ==
  /\ Unknown # Ambiguous /\ Unknown # Unread /\ Unknown # Builtin
  /\ Ambiguous # Unread /\ Ambiguous # Builtin /\ Unread # Builtin
  /\ {Unknown, Ambiguous, Unread, Builtin} \cap Value = {}
  /\ NoRef \notin Ref
<1>1. Cardinality({Unknown, Ambiguous, Unread, Builtin}) = 4
  <2>1. {Unknown, Ambiguous, Unread, Builtin} = Absent \cup {Builtin}
    BY DEF Absent
  <2> QED BY <2>1, ScopeAssumption
<1>2. ASSUME NEW a, NEW b, NEW c, {Unknown, Ambiguous, Unread, Builtin} = {a, b, c}
      PROVE  FALSE
  <2>1. Cardinality({a, b, c}) = 4
    BY <1>1, <1>2
  <2>2. Cardinality({a, b, c}) <= 3
    BY ThreeAtMost
  <2> QED BY <2>1, <2>2
<1>3. Unknown # Ambiguous /\ Unknown # Unread /\ Unknown # Builtin
  BY <1>2
<1>4. Ambiguous # Unread /\ Ambiguous # Builtin /\ Unread # Builtin
  BY <1>2
<1>5. {Unknown, Ambiguous, Unread, Builtin} \cap Value = {}
  BY ScopeAssumption DEF Absent
<1> QED BY <1>3, <1>4, <1>5, ScopeAssumption

LEMMA PFunIs ==
  ASSUME NEW D, NEW R
  PROVE  \A f : f \in PFun(D, R) <=> DOMAIN f \subseteq D /\ f \in [DOMAIN f -> R]
BY DEF PFun

\* A partial function changed in one place.
LEMMA PFunPut ==
  ASSUME NEW D, NEW R, NEW f \in PFun(D, R), NEW x \in D, NEW v \in R
  PROVE  [y \in DOMAIN f \cup {x} |-> IF y = x THEN v ELSE f[y]] \in PFun(D, R)
<1> DEFINE g == [y \in DOMAIN f \cup {x} |-> IF y = x THEN v ELSE f[y]]
<1>1. DOMAIN f \subseteq D /\ f \in [DOMAIN f -> R]
  BY PFunIs
<1>2. g \in [DOMAIN f \cup {x} -> R]
  BY <1>1
<1>3. DOMAIN f \cup {x} \in SUBSET D
  BY <1>1
<1> QED BY <1>2, <1>3 DEF PFun

LEMMA ResolvedType ==
  ASSUME ScopeTypeOK, NEW t \in Target, NEW ref \in Ref
  PROVE  Resolved(t, ref) \in Worth \cup {Unknown}
BY DEF ScopeTypeOK, Resolved, Worth, Value, Ref

-----------------------------------------------------------------------------
(* The invariant *)

LEMMA ScopeInitInv == ScopeInit => ScopeInv
<1> SUFFICES ASSUME ScopeInit PROVE ScopeInv
  OBVIOUS
<1> USE ScopeAssumption DEF ScopeInit
<1>1. \A R : [i \in {} |-> {}] \in PFun(MakerStep, R)
  BY PFunIs
<1>2. [i \in {} |-> Unread] \in PFun(MakerStep, Worth)
  BY PFunIs
<1>3. [t \in {} |-> Unknown] \in PFun(Target, Worth \cup {Unknown})
  BY PFunIs
<1>4. ScopeTypeOK
  <2>1. 1 \in 1..NMakerSteps + 1
    OBVIOUS
  <2> QED BY <1>1, <1>2, <1>3, <2>1 DEF ScopeTypeOK, OptRef, Absent
<1>5. WrittenInv /\ SeenInv /\ ResultsInv /\ ReadInv
  BY DEF WrittenInv, SeenInv, ResultsInv, ReadInv
<1> QED BY <1>4, <1>5 DEF ScopeInv

\* While a task runs or waits the reader has not begun.
LEMMA NotReadYet ==
  ASSUME ReadInv, NEW t \in Target, taskStatus[t] \in {"waiting", "running"}
  PROVE  read = Unread
BY DEF ReadInv

\* What a task was worth it is still worth when no step's outputs change.
LEMMA ResolvedStays ==
  ASSUME NEW t, NEW ref, stepOutputs' = stepOutputs
  PROVE  Resolved(t, ref)' = Resolved(t, ref)
BY DEF Resolved

LEMMA LaunchInv == ASSUME ScopeInv, NEW t \in Target, Launch(t) PROVE ScopeInv'
<1> USE DEF Launch
<1>1. ScopeTypeOK'
  BY DEF ScopeInv, ScopeTypeOK
<1>2. /\ WrittenInv' /\ SeenInv'
  BY ResolvedStays DEF ScopeInv, ScopeTypeOK, WrittenInv, SeenInv
<1>3. ResultsInv'
  BY ResolvedStays DEF ScopeInv, ScopeTypeOK, ResultsInv
<1>4. ReadInv'
  BY NotReadYet DEF ScopeInv, ReadInv
<1> QED BY <1>1, <1>2, <1>3, <1>4 DEF ScopeInv

LEMMA SkipInv == ASSUME ScopeInv, NEW t \in Target, Skip(t) PROVE ScopeInv'
<1> USE DEF Skip, AtMakerStep
<1>0. /\ next' \in [Target -> 1..NMakerSteps + 1] /\ next'[t] = next[t] + 1
      /\ \A s \in Target : s # t => next'[s] = next[s]
      /\ \A s \in Target : \A i \in MakerStep : i < next[s] => i < next'[s]
  <2>1. NMakerSteps \in Nat /\ next \in [Target -> 1..NMakerSteps + 1] /\ next[t] <= NMakerSteps
    BY ScopeAssumption DEF ScopeInv, ScopeTypeOK
  <2>2. next[t] \in 1..NMakerSteps + 1
    BY <2>1
  <2>3. next[t] + 1 \in 1..NMakerSteps + 1
    BY <2>1, <2>2
  <2> QED BY <2>1, <2>2, <2>3 DEF MakerStep
<1>1. ScopeTypeOK'
  BY <1>0 DEF ScopeInv, ScopeTypeOK
<1>2. WrittenInv'
  BY <1>0, PFunIs DEF ScopeInv, ScopeTypeOK, WrittenInv
<1>3. SeenInv'
  BY <1>0, PFunIs, ResolvedStays DEF ScopeInv, ScopeTypeOK, SeenInv
<1>4. ResultsInv'
  BY ResolvedStays DEF ScopeInv, ScopeTypeOK, ResultsInv
<1>5. ReadInv'
  BY NotReadYet DEF ScopeInv, ReadInv
<1> QED BY <1>1, <1>2, <1>3, <1>4, <1>5 DEF ScopeInv

\* What a task that ends records, with a value or without.
LEMMA RecordType ==
  ASSUME ScopeTypeOK, NEW t \in Target, NEW v \in Worth \cup {Unknown},
         jobResults' = [s \in DOMAIN jobResults \cup {t} |->
                          IF s = t THEN v ELSE jobResults[s]]
  PROVE  /\ jobResults' \in PFun(Target, Worth \cup {Unknown})
         /\ DOMAIN jobResults' = DOMAIN jobResults \cup {t}
         /\ jobResults'[t] = v
         /\ \A s \in DOMAIN jobResults : s # t => jobResults'[s] = jobResults[s]
BY PFunPut DEF ScopeTypeOK

LEMMA StepThrowsInv == ASSUME ScopeInv, NEW t \in Target, StepThrows(t) PROVE ScopeInv'
<1> USE DEF StepThrows, AtMakerStep, Fails
<1>1. /\ jobResults' \in PFun(Target, Worth \cup {Unknown})
      /\ DOMAIN jobResults' = DOMAIN jobResults \cup {t}
      /\ \A s \in DOMAIN jobResults : s # t => jobResults'[s] = jobResults[s]
  BY RecordType DEF ScopeInv
<1>2. ScopeTypeOK'
  BY <1>1 DEF ScopeInv, ScopeTypeOK
<1>3. WrittenInv' /\ SeenInv'
  BY ResolvedStays DEF ScopeInv, ScopeTypeOK, WrittenInv, SeenInv
<1>4. ResultsInv'
  BY <1>1, ResolvedStays DEF ScopeInv, ScopeTypeOK, ResultsInv
<1>5. ReadInv'
  BY NotReadYet DEF ScopeInv, ReadInv
<1> QED BY <1>2, <1>3, <1>4, <1>5 DEF ScopeInv

LEMMA OutputThrowsInv == ASSUME ScopeInv, NEW t \in Target, OutputThrows(t) PROVE ScopeInv'
<1> USE DEF OutputThrows
<1>1. ScopeTypeOK'
  BY DEF ScopeInv, ScopeTypeOK
<1>2. WrittenInv' /\ SeenInv'
  BY ResolvedStays DEF ScopeInv, ScopeTypeOK, WrittenInv, SeenInv
<1>3. ResultsInv'
  BY ResolvedStays DEF ScopeInv, ScopeTypeOK, ResultsInv
<1>4. ReadInv'
  BY NotReadYet DEF ScopeInv, ReadInv
<1> QED BY <1>1, <1>2, <1>3, <1>4 DEF ScopeInv

LEMMA ResolveOutputInv == ASSUME ScopeInv, NEW t \in Target, ResolveOutput(t) PROVE ScopeInv'
<1> USE DEF ResolveOutput
<1> DEFINE v == IF declared = NoRef THEN Unknown ELSE Resolved(t, declared)
<1>1. v \in Worth \cup {Unknown}
  BY ResolvedType DEF ScopeInv, ScopeTypeOK, OptRef
<1>2. jobResults' = [s \in DOMAIN jobResults \cup {t} |-> IF s = t THEN v ELSE jobResults[s]]
  OBVIOUS
<1>3. /\ jobResults' \in PFun(Target, Worth \cup {Unknown})
      /\ DOMAIN jobResults' = DOMAIN jobResults \cup {t}
      /\ jobResults'[t] = v
      /\ \A s \in DOMAIN jobResults : s # t => jobResults'[s] = jobResults[s]
  <2> HIDE DEF v
  <2> QED BY <1>1, <1>2, RecordType DEF ScopeInv
<1>4. ScopeTypeOK'
  BY <1>3 DEF ScopeInv, ScopeTypeOK
<1>5. WrittenInv' /\ SeenInv'
  BY ResolvedStays DEF ScopeInv, ScopeTypeOK, WrittenInv, SeenInv
<1>6. ResultsInv'
  BY <1>3, ResolvedStays DEF ScopeInv, ScopeTypeOK, ResultsInv
<1>7. ReadInv'
  BY NotReadYet DEF ScopeInv, ReadInv
<1> QED BY <1>4, <1>5, <1>6, <1>7 DEF ScopeInv

LEMMA ReadInvStep == ASSUME ScopeInv, Read PROVE ScopeInv'
<1> USE DEF Read
<1>1. NeedsOutput \in Worth \cup Absent
  <2>1. \A t \in DOMAIN jobResults : jobResults[t] \in Worth \cup {Unknown}
    BY PFunIs DEF ScopeInv, ScopeTypeOK
  <2>2. CASE Cardinality(DOMAIN jobResults) = 1
    <3>1. IsFiniteSet(DOMAIN jobResults)
      <4>1. DOMAIN jobResults \in SUBSET Target
        BY PFunIs DEF ScopeInv, ScopeTypeOK
      <4> QED BY <4>1, FS_Subset, ScopeAssumption
    <3>2. DOMAIN jobResults # {}
      BY <2>2, <3>1, FS_EmptySet
    <3> QED BY <2>1, <2>2, <3>2 DEF NeedsOutput, Absent
  <2>3. CASE Cardinality(DOMAIN jobResults) # 1
    BY <2>3 DEF NeedsOutput, Absent
  <2> QED BY <2>2, <2>3
<1>2. ScopeTypeOK'
  BY <1>1 DEF ScopeInv, ScopeTypeOK
<1>3. WrittenInv' /\ SeenInv'
  BY ResolvedStays DEF ScopeInv, ScopeTypeOK, WrittenInv, SeenInv
<1>4. ResultsInv'
  BY ResolvedStays DEF ScopeInv, ScopeTypeOK, ResultsInv
<1>5. ReadInv'
  BY DEF ScopeInv, ReadInv, NeedsOutput
<1> QED BY <1>2, <1>3, <1>4, <1>5 DEF ScopeInv

LEMMA RunStepInv == ASSUME ScopeInv, NEW t \in Target, RunStep(t) PROVE ScopeInv'
<1> USE DEF AtMakerStep
<1>n. PICK n : n = next[t]
  OBVIOUS
<1>r. PICK ref : ref = uses[n]
  OBVIOUS
<1>1. /\ n \in MakerStep /\ taskStatus[t] = "running" /\ ref \in OptRef
      /\ \A i \in DOMAIN stepOutputs[t] : i < n
      /\ n \notin DOMAIN stepOutputs[t]
      /\ \A i \in DOMAIN seen[t] : i < n
  <2>1. NMakerSteps \in Nat /\ n \in 1..NMakerSteps + 1 /\ n <= NMakerSteps /\ taskStatus[t] = "running"
    BY <1>n, ScopeAssumption DEF ScopeInv, ScopeTypeOK, RunStep
  <2>2. n \in MakerStep
    BY <2>1 DEF MakerStep
  <2>3. /\ \A i \in DOMAIN stepOutputs[t] : i < n
        /\ \A i \in DOMAIN seen[t] : i < n
    BY <1>n, <2>1 DEF ScopeInv, WrittenInv, SeenInv
  <2>4. ref \in OptRef
    BY <1>r, <2>2 DEF ScopeInv, ScopeTypeOK
  <2> QED BY <2>1, <2>2, <2>3, <2>4
<1>2. PICK given \in SUBSET Key :
        stepOutputs' = [stepOutputs EXCEPT
                          ![t] = [i \in DOMAIN @ \cup {n} |-> IF i = n THEN given ELSE @[i]]]
  BY <1>n DEF RunStep
<1>3. /\ stepOutputs' \in [Target -> PFun(MakerStep, SUBSET Key)]
      /\ DOMAIN stepOutputs'[t] = DOMAIN stepOutputs[t] \cup {n}
      /\ \A i \in DOMAIN stepOutputs[t] : stepOutputs'[t][i] = stepOutputs[t][i]
      /\ \A s \in Target : s # t => stepOutputs'[s] = stepOutputs[s]
  <2> DEFINE g == [i \in DOMAIN stepOutputs[t] \cup {n} |->
                     IF i = n THEN given ELSE stepOutputs[t][i]]
  <2>1. stepOutputs \in [Target -> PFun(MakerStep, SUBSET Key)]
    BY DEF ScopeInv, ScopeTypeOK
  <2>2. stepOutputs' = [stepOutputs EXCEPT ![t] = g]
    BY <1>2, <2>1
  <2>3. g \in PFun(MakerStep, SUBSET Key)
    <3>1. stepOutputs[t] \in PFun(MakerStep, SUBSET Key)
      BY <2>1
    <3> QED BY <1>1, <3>1, PFunPut
  <2>4. DOMAIN g = DOMAIN stepOutputs[t] \cup {n}
        /\ \A i \in DOMAIN stepOutputs[t] : g[i] = stepOutputs[t][i]
    BY <1>1
  <2> HIDE DEF g
  <2> QED BY <2>1, <2>2, <2>3, <2>4
<1>4. /\ \A s \in Target, r \in Ref : s # t \/ r.step # n => Resolved(s, r)' = Resolved(s, r)
  BY <1>3 DEF Resolved
<1>5. ref # NoRef => /\ Resolved(t, ref) \in Worth /\ ref \in Ref
                     /\ ref.step < n /\ Resolved(t, ref)' = Resolved(t, ref)
  <2> SUFFICES ASSUME ref # NoRef
               PROVE  /\ Resolved(t, ref) \in Worth /\ ref \in Ref
                      /\ ref.step < n /\ Resolved(t, ref)' = Resolved(t, ref)
    OBVIOUS
  <2>1. ref \in Ref /\ ref.step \in MakerStep
    BY <1>1 DEF OptRef, Ref
  <2>2. Resolved(t, ref) # Unknown
    BY <1>n, <1>r DEF RunStep
  <2>3. Resolved(t, ref) \in Worth
    BY <2>1, <2>2, ResolvedType DEF ScopeInv
  <2>4. ref.step \in DOMAIN stepOutputs[t]
    BY <2>2 DEF Resolved
  <2>5. ref.step < n
    BY <1>1, <2>4
  <2>6. ref.step # n
    BY <1>1, <2>1, <2>5 DEF MakerStep
  <2> QED BY <1>4, <2>1, <2>3, <2>5, <2>6
<1>6. /\ seen' \in [Target -> PFun(MakerStep, Worth)]
      /\ \A s \in Target : s # t => seen'[s] = seen[s]
      /\ \A i \in DOMAIN seen'[t] : \/ i \in DOMAIN seen[t] /\ seen'[t][i] = seen[t][i]
                                    \/ i = n /\ ref # NoRef /\ seen'[t][i] = Resolved(t, ref)
  <2>1. seen \in [Target -> PFun(MakerStep, Worth)]
    BY DEF ScopeInv, ScopeTypeOK
  <2>2. CASE ref = NoRef
    <3>1. seen' = [seen EXCEPT ![t] = seen[t]]
      BY <1>n, <1>r, <2>1, <2>2 DEF RunStep
    <3>2. seen' = seen
      BY <2>1, <3>1
    <3> QED BY <2>1, <3>2
  <2>3. CASE ref # NoRef
    <3> DEFINE w == Resolved(t, ref)
               g == [i \in DOMAIN seen[t] \cup {n} |-> IF i = n THEN w ELSE seen[t][i]]
    <3>1. seen' = [seen EXCEPT ![t] = [i \in DOMAIN @ \cup {n} |->
                                         IF i = n THEN Resolved(t, uses[i]) ELSE @[i]]]
      BY <1>n, <1>r, <2>3 DEF RunStep
    <3>2. seen' = [seen EXCEPT ![t] = g]
      BY <1>r, <2>1, <3>1
    <3>3. w \in Worth /\ seen[t] \in PFun(MakerStep, Worth)
      BY <1>5, <2>1, <2>3
    <3>4. g \in PFun(MakerStep, Worth)
      <4> HIDE DEF w
      <4> QED BY <1>1, <3>3, PFunPut
    <3>5. \A i \in DOMAIN g : \/ i \in DOMAIN seen[t] /\ g[i] = seen[t][i]
                              \/ i = n /\ g[i] = w
      OBVIOUS
    <3> HIDE DEF g
    <3> QED BY <2>1, <2>3, <3>2, <3>4, <3>5
  <2> QED BY <2>2, <2>3
<1>7. CASE next' = [next EXCEPT ![t] = @ + 1] /\ UNCHANGED <<taskStatus, jobResults>>
  <2>1. /\ next' \in [Target -> 1..NMakerSteps + 1] /\ next'[t] = n + 1
        /\ \A s \in Target : s # t => next'[s] = next[s]
        /\ \A s \in Target : \A i \in MakerStep : i < next[s] => i < next'[s]
        /\ n < next'[t] /\ \A i \in MakerStep : i < n => i < next'[t]
    <3>1. NMakerSteps \in Nat /\ next \in [Target -> 1..NMakerSteps + 1] /\ n \in 1..NMakerSteps
      BY <1>1, ScopeAssumption DEF ScopeInv, ScopeTypeOK, MakerStep
    <3>2. n + 1 \in 1..NMakerSteps + 1
      BY <3>1
    <3> QED BY <1>7, <1>n, <3>1, <3>2 DEF MakerStep
  <2>2. ScopeTypeOK'
    BY <1>3, <1>6, <1>7, <2>1 DEF ScopeInv, ScopeTypeOK, RunStep
  <2>3. WrittenInv'
    <3> SUFFICES ASSUME NEW s \in Target, NEW i \in DOMAIN stepOutputs'[s]
                 PROVE  i < next'[s] \/ (i = next'[s] /\ taskStatus'[s] = "failure")
      BY DEF WrittenInv
    <3>1. i \in MakerStep
      BY <1>3, PFunIs
    <3>2. CASE s = t
      BY <1>1, <1>3, <2>1, <3>1, <3>2
    <3>3. CASE s # t
      BY <1>3, <1>7, <2>1, <3>3 DEF ScopeInv, WrittenInv
    <3> QED BY <3>2, <3>3
  <2>4. SeenInv'
    <3> SUFFICES ASSUME NEW s \in Target, NEW i \in DOMAIN seen'[s]
                 PROVE  /\ i < next'[s] \/ (i = next'[s] /\ taskStatus'[s] = "failure")
                        /\ uses'[i] \in Ref /\ uses'[i].step < i
                        /\ seen'[s][i] = Resolved(s, uses[i])'
      BY DEF SeenInv
    <3>0. uses' = uses /\ i \in MakerStep
      BY <1>6, PFunIs DEF RunStep
    <3>1. CASE s = t /\ i \in DOMAIN seen[t] /\ seen'[t][i] = seen[t][i]
      <4>1. /\ i < n /\ uses[i] \in Ref /\ uses[i].step < i
            /\ seen[t][i] = Resolved(t, uses[i])
        BY <1>1, <3>1 DEF ScopeInv, SeenInv
      <4>2. uses[i].step \in MakerStep
        BY <4>1 DEF Ref
      <4>3. uses[i].step # n
        BY <1>1, <3>0, <4>1, <4>2 DEF MakerStep
      <4> QED BY <1>4, <2>1, <3>0, <3>1, <4>1, <4>3
    <3>2. CASE s = t /\ i = n /\ ref # NoRef /\ seen'[t][i] = Resolved(t, ref)
      BY <1>5, <1>r, <2>1, <3>0, <3>2
    <3>3. CASE s # t
      BY <1>4, <1>6, <1>7, <2>1, <3>0, <3>3 DEF ScopeInv, SeenInv
    <3> QED BY <1>6, <3>1, <3>2, <3>3
  <2>5. ResultsInv'
    BY <1>1, <1>4, <1>7 DEF ScopeInv, ScopeTypeOK, ResultsInv, RunStep, OptRef
  <2>6. ReadInv'
    BY <1>1, NotReadYet DEF ScopeInv, ReadInv, RunStep
  <2> QED BY <2>2, <2>3, <2>4, <2>5, <2>6 DEF ScopeInv
<1>8. CASE Fails(t) /\ UNCHANGED next
  <2> USE DEF Fails
  <2>1. /\ jobResults' \in PFun(Target, Worth \cup {Unknown})
        /\ DOMAIN jobResults' = DOMAIN jobResults \cup {t}
        /\ \A s \in DOMAIN jobResults : s # t => jobResults'[s] = jobResults[s]
    BY <1>8, RecordType DEF ScopeInv
  <2>2. /\ taskStatus' \in [Target -> {"waiting", "running", "unsupported", "failure", "success"}]
        /\ taskStatus'[t] = "failure" /\ \A s \in Target : s # t => taskStatus'[s] = taskStatus[s]
    BY <1>8 DEF ScopeInv, ScopeTypeOK
  <2>3. ScopeTypeOK'
    BY <1>3, <1>6, <1>8, <2>1, <2>2 DEF ScopeInv, ScopeTypeOK, RunStep
  <2>4. WrittenInv'
    BY <1>n, <1>1, <1>3, <1>8, <2>2 DEF ScopeInv, WrittenInv
  <2>5. SeenInv'
    <3> SUFFICES ASSUME NEW s \in Target, NEW i \in DOMAIN seen'[s]
                 PROVE  /\ i < next'[s] \/ (i = next'[s] /\ taskStatus'[s] = "failure")
                        /\ uses'[i] \in Ref /\ uses'[i].step < i
                        /\ seen'[s][i] = Resolved(s, uses[i])'
      BY DEF SeenInv
    <3>0. uses' = uses /\ i \in MakerStep
      BY <1>6, PFunIs DEF RunStep
    <3>1. CASE s = t /\ i \in DOMAIN seen[t] /\ seen'[t][i] = seen[t][i]
      <4>1. /\ i < n /\ uses[i] \in Ref /\ uses[i].step < i
            /\ seen[t][i] = Resolved(t, uses[i])
        BY <1>1, <3>1 DEF ScopeInv, SeenInv
      <4>2. uses[i].step \in MakerStep
        BY <4>1 DEF Ref
      <4>3. uses[i].step # n
        BY <1>1, <3>0, <4>1, <4>2 DEF MakerStep
      <4> QED BY <1>n, <1>4, <1>8, <3>0, <3>1, <4>1, <4>3
    <3>2. CASE s = t /\ i = n /\ ref # NoRef /\ seen'[t][i] = Resolved(t, ref)
      BY <1>5, <1>8, <1>n, <1>r, <2>2, <3>0, <3>2
    <3>3. CASE s # t
      BY <1>4, <1>6, <1>8, <2>2, <3>0, <3>3 DEF ScopeInv, SeenInv
    <3> QED BY <1>6, <3>1, <3>2, <3>3
  <2>6. ResultsInv'
    <3>0. declared' = declared /\ buildable' = buildable /\ declared \in OptRef
      BY DEF ScopeInv, ScopeTypeOK, RunStep
    <3>1. \A s \in DOMAIN jobResults' : taskStatus'[s] \in {"failure", "success"}
      BY <2>1, <2>2, PFunIs DEF ScopeInv, ScopeTypeOK, ResultsInv
    <3>2. \A s \in Target : s # t => Resolved(s, declared)' = Resolved(s, declared)
      BY <1>3, <3>0 DEF Resolved
    <3> QED BY <1>1, <2>1, <2>2, <3>0, <3>1, <3>2 DEF ScopeInv, ResultsInv
  <2>7. ReadInv'
    BY <1>1, NotReadYet DEF ScopeInv, ReadInv, RunStep
  <2> QED BY <2>3, <2>4, <2>5, <2>6, <2>7 DEF ScopeInv
<1> QED BY <1>7, <1>8 DEF RunStep

LEMMA ScopeNextInv == ScopeInv /\ [ScopeNext]_scopeVars => ScopeInv'
<1> SUFFICES ASSUME ScopeInv, [ScopeNext]_scopeVars PROVE ScopeInv'
  OBVIOUS
<1>1. CASE UNCHANGED scopeVars
  <2> USE <1>1 DEF scopeVars
  <2>0. ScopeTypeOK' /\ WrittenInv'
    BY DEF ScopeInv, ScopeTypeOK, WrittenInv
  <2>1. SeenInv'
    BY ResolvedStays DEF ScopeInv, SeenInv
  <2>2. ResultsInv'
    BY ResolvedStays DEF ScopeInv, ResultsInv
  <2>3. ReadInv'
    BY DEF ScopeInv, ReadInv, NeedsOutput
  <2> QED BY <2>0, <2>1, <2>2, <2>3 DEF ScopeInv
<1>2. ASSUME NEW t \in Target,
             \/ Launch(t) \/ Skip(t) \/ StepThrows(t) \/ RunStep(t)
             \/ OutputThrows(t) \/ ResolveOutput(t)
      PROVE  ScopeInv'
  BY <1>2, LaunchInv, SkipInv, StepThrowsInv, RunStepInv, OutputThrowsInv, ResolveOutputInv
<1>3. CASE Read
  BY <1>3, ReadInvStep
<1> QED BY <1>1, <1>2, <1>3 DEF ScopeNext

-----------------------------------------------------------------------------
(* The theorems *)

\* For any jobs, the scopes keep their types: what a step or the reader sees is a value that
\* names its writer, or one of the things that stand in the place of one.
THEOREM ScopeIsTyped == ScopeSpec => []ScopeTypeOK
<1>1. ScopeInv => ScopeTypeOK
  BY DEF ScopeInv
<1> QED BY <1>1, ScopeInitInv, ScopeNextInv, PTL DEF ScopeSpec

LEMMA SeenAsWritten ==
  ASSUME ScopeInv, NEW t \in Target, NEW i \in DOMAIN seen[t]
  PROVE  /\ uses[i].step < i /\ uses[i].step \in DOMAIN stepOutputs[t]
         /\ IF uses[i].key \in stepOutputs[t][uses[i].step]
            THEN seen[t][i] = [by |-> t, step |-> uses[i].step, key |-> uses[i].key]
            ELSE seen[t][i] = Builtin /\ uses[i].key \in Inherited
<1>1. uses[i] \in Ref /\ uses[i].step < i /\ seen[t][i] = Resolved(t, uses[i])
  BY DEF ScopeInv, SeenInv
<1>2. seen[t][i] \in Worth
  BY PFunIs DEF ScopeInv, ScopeTypeOK
<1>3. seen[t][i] # Unknown
  BY <1>2, Apart DEF Worth
<1> QED BY <1>1, <1>3 DEF Resolved

\* What the reader reads of a finished maker.
LEMMA ReadAsResolved ==
  ASSUME ScopeInv, read # Unread
  PROVE  /\ IsFiniteSet(buildable) /\ DOMAIN jobResults = buildable
         /\ \A t \in buildable :
              /\ taskStatus[t] = "success"
              /\ declared # NoRef => Resolved(t, declared) # Unknown
              /\ jobResults[t] = IF declared = NoRef THEN Unknown ELSE Resolved(t, declared)
         /\ declared # NoRef => declared \in Ref
<1>1. \A t \in Target : taskStatus[t] \in {"success", "unsupported"}
  BY DEF ScopeInv, ReadInv
<1>2. DOMAIN jobResults \subseteq Target /\ buildable \subseteq Target
  BY PFunIs DEF ScopeInv, ScopeTypeOK
<1>3. DOMAIN jobResults = buildable
  BY <1>1, <1>2 DEF ScopeInv, ResultsInv
<1>4. IsFiniteSet(buildable)
  BY <1>2, FS_Subset, ScopeAssumption
<1> QED BY <1>1, <1>2, <1>3, <1>4 DEF ScopeInv, ScopeTypeOK, ResultsInv, OptRef

LEMMA ReaderReadsWhatWasWritten ==
  ASSUME ScopeInv
  PROVE  /\ read \in Value =>
              /\ buildable = {read.by} /\ taskStatus[read.by] = "success"
              /\ declared = [step |-> read.step, key |-> read.key]
              /\ read.step \in DOMAIN stepOutputs[read.by]
              /\ read.key \in stepOutputs[read.by][read.step]
         /\ read = Builtin => declared # NoRef /\ declared.key \in Inherited
         /\ read = Ambiguous => Cardinality(buildable) > 1 /\ declared # NoRef
         /\ read = Unknown => buildable = {} \/ declared = NoRef
<1>1. CASE read = Unread
  BY <1>1, Apart
<1>2. CASE read # Unread
  <2>1. read = NeedsOutput
    BY <1>2 DEF ScopeInv, ReadInv
  <2>2. CASE Cardinality(buildable) = 1
    <3>1. PICK t : buildable = {t}
      BY <1>2, <2>2, ReadAsResolved, FS_Singleton
    <3>2. read = IF declared = NoRef THEN Unknown ELSE Resolved(t, declared)
      BY <1>2, <2>1, <2>2, <3>1, ReadAsResolved DEF NeedsOutput
    <3>3. t \in Target /\ taskStatus[t] = "success"
      BY <1>2, <3>1, ReadAsResolved DEF ScopeInv, ScopeTypeOK
    <3>4. CASE declared = NoRef
      BY <3>2, <3>4, Apart
    <3>5. CASE declared # NoRef
      <4>1. declared \in Ref /\ read = Resolved(t, declared) /\ read # Unknown
        BY <1>2, <3>1, <3>2, <3>5, ReadAsResolved
      <4>2. CASE declared.key \in stepOutputs[t][declared.step]
        <5>1. read = [by |-> t, step |-> declared.step, key |-> declared.key]
          BY <4>1, <4>2 DEF Resolved
        <5>2. declared.step \in DOMAIN stepOutputs[t]
          BY <4>1 DEF Resolved
        <5>3. read \in Value
          BY <3>3, <4>1, <5>1 DEF Value, Ref
        <5>4. read.by = t /\ read.step = declared.step /\ read.key = declared.key
          BY <5>1
        <5>5. declared = [step |-> read.step, key |-> read.key]
          BY <4>1, <5>4 DEF Ref
        <5> QED BY <3>1, <3>3, <4>2, <5>2, <5>3, <5>4, <5>5, Apart
      <4>3. CASE declared.key \notin stepOutputs[t][declared.step]
        <5>1. read = Builtin /\ declared.key \in Inherited
          BY <4>1, <4>3 DEF Resolved
        <5> QED BY <3>5, <5>1, Apart
      <4> QED BY <4>2, <4>3
    <3> QED BY <3>4, <3>5
  <2>3. CASE Cardinality(buildable) # 1
    <3>1. read = IF \E t \in buildable : jobResults[t] # Unknown THEN Ambiguous ELSE Unknown
      BY <1>2, <2>1, <2>3, ReadAsResolved DEF NeedsOutput
    <3>2. CASE \E t \in buildable : jobResults[t] # Unknown
      <4>1. read = Ambiguous /\ declared # NoRef
        BY <1>2, <3>1, <3>2, ReadAsResolved
      <4>2. Cardinality(buildable) \in Nat /\ Cardinality(buildable) # 0
        BY <1>2, <3>2, ReadAsResolved, FS_EmptySet, FS_CardinalityType
      <4>3. Cardinality(buildable) > 1
        BY <2>3, <4>2
      <4> QED BY <4>1, <4>3, Apart
    <3>3. CASE ~\E t \in buildable : jobResults[t] # Unknown
      <4>1. read = Unknown
        BY <3>1, <3>3
      <4>2. buildable = {} \/ declared = NoRef
        BY <1>2, <3>3, ReadAsResolved
      <4> QED BY <4>1, <4>2, Apart
    <3> QED BY <3>2, <3>3
  <2> QED BY <2>2, <2>3
<1> QED BY <1>1, <1>2

\* For any number of steps and any targets, an expression never gets somebody else's value:
\* what a step or the reader sees was written, in the right task, by the step it names, and
\* before; an output that is not there is never a value.
THEOREM ScopeReadsWhatWasWritten == ScopeSpec => []ReadsWhatWasWritten
<1>1. ScopeInv => ReadsWhatWasWritten
  BY SeenAsWritten, ReaderReadsWhatWasWritten DEF ReadsWhatWasWritten
<1> QED BY <1>1, ScopeInitInv, ScopeNextInv, PTL DEF ScopeSpec


-----------------------------------------------------------------------------
(* Lines *)

LEMMA LineMarks ==
  ASSUME NEW l \in Line
  PROVE  /\ l.marks \in {<<>>, <<"=">>, <<"<<">>, <<"=", "<<">>, <<"<<", "=">>}
         /\ l.marks = <<>> => l.key = ""
         /\ Blank(l) => l.marks = <<>>
         /\ l.marks # <<>> => (IsHeredoc(l) <=> Head(l.marks) = "<<")
<1> DEFINE marked == {<<"=">>, <<"<<">>, <<"=", "<<">>, <<"<<", "=">>}
<1>0. \/ l \in [marks : marked, key : Name \cup BadName, rest : Text \cup {""}]
      \/ l \in [marks : {<<>>}, key : {""}, rest : Text \cup {""}]
  BY DEF Line
<1>a. ASSUME l \in [marks : marked, key : Name \cup BadName, rest : Text \cup {""}]
      PROVE  l.marks \in marked
  <2> HIDE DEF marked
  <2> QED BY <1>a
<1>b. ASSUME l \in [marks : {<<>>}, key : {""}, rest : Text \cup {""}]
      PROVE  l.marks = <<>> /\ l.key = ""
  BY <1>b
<1>c. \A mm \in marked : mm # <<>>
  OBVIOUS
<1>1. l.marks \in {<<>>, <<"=">>, <<"<<">>, <<"=", "<<">>, <<"<<", "=">>} /\ (l.marks = <<>> => l.key = "")
  BY <1>0, <1>a, <1>b, <1>c
<1>2. ASSUME l.marks # <<>> PROVE IsHeredoc(l) <=> Head(l.marks) = "<<"
  <2>1. CASE l.marks = <<"=">>
    <3>1. ToSet(l.marks) = {"="}
      BY <2>1 DEF ToSet
    <3> QED BY <2>1, <3>1 DEF IsHeredoc, Place
  <2>2. CASE l.marks = <<"<<">>
    <3>1. ToSet(l.marks) = {"<<"}
      BY <2>2 DEF ToSet
    <3>2. Place(l, "=") = 0 /\ Place(l, "<<") = 1
      BY <2>2, <3>1 DEF Place
    <3> QED BY <2>2, <3>2 DEF IsHeredoc
  <2>3. CASE l.marks = <<"=", "<<">>
    <3>1. ToSet(l.marks) = {"=", "<<"}
      BY <2>3 DEF ToSet
    <3>2. Place(l, "=") = 1 /\ Place(l, "<<") = 2
      BY <2>3, <3>1 DEF Place
    <3> QED BY <2>3, <3>2 DEF IsHeredoc
  <2>4. CASE l.marks = <<"<<", "=">>
    <3>1. ToSet(l.marks) = {"<<", "="}
      BY <2>4 DEF ToSet
    <3>2. Place(l, "=") = 2 /\ Place(l, "<<") = 1
      BY <2>4, <3>1 DEF Place
    <3> QED BY <2>4, <3>2 DEF IsHeredoc
  <2> QED BY <1>1, <1>2, <2>1, <2>2, <2>3, <2>4
<1> QED BY <1>1, <1>2 DEF Blank

\* The last lines of the heredocs.
LEMMA EndOfIs ==
  ASSUME lines \in Seq(Line), NEW i \in 1..Len(lines)
  PROVE  /\ EndOf(i) \in i..Len(lines) /\ Len(lines) \in Nat
         /\ Closing(i) # {} => EndOf(i) = Min(Closing(i))
         /\ Closing(i) = {} => EndOf(i) = Len(lines)
<1>1. Len(lines) \in Nat /\ Closing(i) \subseteq (i + 1)..Len(lines)
  BY DEF Closing
<1>2. CASE Closing(i) = {}
  BY <1>1, <1>2 DEF EndOf
<1>3. CASE Closing(i) # {}
  <2>1. PICK c \in Closing(i) : \A d \in Closing(i) : c <= d
    <3>1. Closing(i) \subseteq Nat
      BY <1>1
    <3> QED BY <1>3, <3>1, LeastNat
  <2>2. Min(Closing(i)) \in Closing(i)
    BY <2>1 DEF Min
  <2> QED BY <1>1, <1>3, <2>2 DEF EndOf
<1> QED BY <1>2, <1>3

Inner(H, i) == \E j \in H : j < i /\ StartsHeredoc(j) /\ i <= EndOf(j)

\* The lines can be told apart: those inside a heredoc from the others.
LEMMA HeadsAre ==
  ASSUME lines \in Seq(Line)
  PROVE  /\ Heads \in SUBSET (1..Len(lines))
         /\ \A i \in 1..Len(lines) : i \in Heads <=> ~Inner(Heads, i)
<1> DEFINE n == Len(lines)
           Told(H, m) == \A i \in 1..m : i \in H <=> ~Inner(H, i)
           T == {m \in Nat : m <= n => \E H \in SUBSET (1..m) : Told(H, m)}
<1>1. n \in Nat /\ DOMAIN lines = 1..n
  OBVIOUS
<1>2. 0 \in T
  <2>1. Told({}, 0)
    OBVIOUS
  <2> QED BY <2>1
<1>3. ASSUME NEW m \in Nat, m \in T PROVE m + 1 \in T
  <2> SUFFICES ASSUME m + 1 <= n PROVE \E H \in SUBSET (1..(m + 1)) : Told(H, m + 1)
    OBVIOUS
  <2>1. PICK H \in SUBSET (1..m) : Told(H, m)
    BY <1>1, <1>3
  <2> DEFINE K == IF Inner(H, m + 1) THEN H ELSE H \cup {m + 1}
  <2>2. K \in SUBSET (1..(m + 1))
    OBVIOUS
  <2>3. ASSUME NEW i \in 1..(m + 1) PROVE Inner(K, i) <=> Inner(H, i)
    <3>1. \A j \in K : j < i => j \in H
      BY <2>1, <2>3
    <3> HIDE DEF K
    <3>2. H \subseteq K
      BY DEF K
    <3> QED BY <3>1, <3>2 DEF Inner
  <2>4. ASSUME NEW i \in 1..(m + 1) PROVE i \in K <=> ~Inner(K, i)
    <3>1. CASE i = m + 1
      <4>1. i \notin H
        BY <2>1, <3>1
      <4> QED BY <2>3, <3>1, <4>1
    <3>2. CASE i # m + 1
      <4>1. i \in 1..m /\ (i \in K <=> i \in H)
        BY <3>2
      <4> QED BY <2>1, <2>3, <4>1
    <3> QED BY <3>1, <3>2
  <2> HIDE DEF K
  <2> QED BY <2>2, <2>4
<1>4. n \in T
  <2> HIDE DEF T, n
  <2> QED BY <1>1, <1>2, <1>3, SetInduction
<1>5. \E H \in SUBSET DOMAIN lines : \A i \in DOMAIN lines : i \in H <=> ~Inner(H, i)
  <2>1. PICK H \in SUBSET (1..n) : Told(H, n)
    BY <1>1, <1>4
  <2> QED BY <1>1, <2>1
<1> QED BY <1>1, <1>5 DEF Heads, Inner

-----------------------------------------------------------------------------
(* The loop *)

Start == [at |-> 1, outputs |-> [k \in {} |-> {}], errors |-> 0]

Turned(s) == IF s.at > Len(lines) THEN s ELSE Turn(s)

IsScan(g) == g = [t \in 0..Len(lines) |-> IF t = 0 THEN Start ELSE Turned(g[t - 1])]

\* The recursion of Scan has a solution, turn by turn.
LEMMA ScanExists ==
  ASSUME lines \in Seq(Line)
  PROVE  \E g : IsScan(g)
<1> DEFINE n == Len(lines)
           Nth(g, t) == IF t = 0 THEN Start ELSE Turned(g[t - 1])
           Upto(g, m) == /\ g = [t \in 0..n |-> g[t]]
                         /\ \A t \in 0..n : t <= m => g[t] = Nth(g, t)
           T == {m \in Nat : \E g : Upto(g, m)}
<1>0. n \in Nat
  OBVIOUS
<1> HIDE DEF n
<1>1. 0 \in T
  <2> DEFINE g == [t \in 0..n |-> Start]
  <2>1. Upto(g, 0)
    BY <1>0
  <2> HIDE DEF g, Upto
  <2> QED BY <2>1
<1>2. ASSUME NEW m \in Nat, m \in T PROVE m + 1 \in T
  <2>1. PICK g : Upto(g, m)
    BY <1>2
  <2> HIDE DEF Nth
  <2> DEFINE h == [t \in 0..n |-> Nth(g, t)]
  <2>2. h = [t \in 0..n |-> h[t]] /\ \A t \in 0..n : t <= m => h[t] = g[t]
    BY <2>1
  <2>3. ASSUME NEW t \in 0..n, t <= m + 1 PROVE h[t] = Nth(h, t)
    <3>1. h[t] = Nth(g, t)
      OBVIOUS
    <3> HIDE DEF h
    <3>2. CASE t = 0
      BY <3>1, <3>2 DEF Nth
    <3>3. CASE t # 0
      <4>1. t - 1 \in 0..n /\ t - 1 <= m
        BY <1>0, <2>3, <3>3
      <4>2. h[t - 1] = g[t - 1]
        BY <2>2, <4>1
      <4> QED BY <3>1, <4>2 DEF Nth
    <3> QED BY <3>2, <3>3
  <2>4. Upto(h, m + 1)
    <3> HIDE DEF h
    <3> QED BY <2>2, <2>3
  <2> HIDE DEF h, Upto
  <2> QED BY <2>4
<1>3. n \in T
  <2> HIDE DEF T
  <2> QED BY <1>0, <1>1, <1>2, SetInduction
<1>4. PICK g : Upto(g, n)
  BY <1>3
<1>5. IsScan(g)
  BY <1>0, <1>4 DEF IsScan, n
<1> QED BY <1>5

LEMMA ScanIs ==
  ASSUME lines \in Seq(Line)
  PROVE  /\ Scan[0] = Start
         /\ \A t \in 0..Len(lines) : t # 0 => Scan[t] = Turned(Scan[t - 1])
<1>1. Scan = CHOOSE g : IsScan(g)
  BY Zenon DEF Scan, IsScan, Start, Turned
<1>2. IsScan(Scan)
  BY <1>1, ScanExists
<1>3. Len(lines) \in Nat
  OBVIOUS
<1> HIDE DEF Scan
<1> QED BY <1>2, <1>3 DEF IsScan

\* Does the head i give an output, and where is the loop after it?
Given(i) == /\ lines[i].marks # <<>> /\ lines[i].key \in Name
            /\ Head(lines[i].marks) = "<<" => StartsHeredoc(i) /\ Closing(i) # {}

After(i) == IF StartsHeredoc(i) THEN EndOf(i) + 1 ELSE i + 1

\* One turn, at a line that is there.
LEMMA TurnIs ==
  ASSUME lines \in Seq(Line), NEW i \in 1..Len(lines), NEW o, NEW e
  PROVE  Turn([at |-> i, outputs |-> o, errors |-> e]) =
           [at |-> After(i),
            outputs |-> IF Given(i) THEN Assign(o, lines[i].key, Says(i)) ELSE o,
            errors |-> IF Given(i) \/ Blank(lines[i]) THEN e ELSE e + 1]
<1> DEFINE l == lines[i]
           s == [at |-> i, outputs |-> o, errors |-> e]
<1>0. l \in Line
  OBVIOUS
<1>1. /\ Blank(l) => l.marks = <<>>
      /\ l.marks # <<>> => (IsHeredoc(l) <=> Head(l.marks) = "<<")
  BY <1>0, LineMarks
<1>2. CASE Blank(l)
  <2>1. Turn(s) = [s EXCEPT !.at = i + 1]
    BY <1>1, <1>2 DEF Turn
  <2> QED BY <1>1, <1>2, <2>1 DEF After, Given, StartsHeredoc
<1>3. CASE ~Blank(l) /\ (l.marks = <<>> \/ l.key \notin Name)
  <2>1. Turn(s) = [s EXCEPT !.at = i + 1, !.errors = @ + 1]
    BY <1>3 DEF Turn
  <2> QED BY <1>3, <2>1 DEF After, Given, StartsHeredoc
<1>4. CASE l.marks # <<>> /\ l.key \in Name /\ IsHeredoc(l)
  <2>0. ~Blank(l)
    BY <1>1, <1>4
  <2>1. Turn(s) = IF Blank(Rest(l)) THEN [s EXCEPT !.at = i + 1, !.errors = @ + 1]
                  ELSE IF Closing(i) = {}
                       THEN [s EXCEPT !.at = Len(lines) + 1, !.errors = @ + 1]
                  ELSE [s EXCEPT !.at = Min(Closing(i)) + 1,
                                 !.outputs = Assign(@, l.key,
                                               SubSeq(lines, i + 1, Min(Closing(i)) - 1))]
    BY <1>4, <2>0 DEF Turn
  <2>2. Head(l.marks) = "<<"
    BY <1>1, <1>4
  <2>3. CASE Blank(Rest(l))
    BY <1>4, <2>0, <2>1, <2>2, <2>3 DEF After, Given, StartsHeredoc
  <2>4. CASE ~Blank(Rest(l)) /\ Closing(i) = {}
    BY <1>4, <2>0, <2>1, <2>2, <2>4, EndOfIs DEF After, Given, StartsHeredoc
  <2>5. CASE ~Blank(Rest(l)) /\ Closing(i) # {}
    BY <1>4, <2>0, <2>1, <2>2, <2>5, EndOfIs DEF After, Given, StartsHeredoc, Says
  <2> QED BY <2>3, <2>4, <2>5
<1>5. CASE l.marks # <<>> /\ l.key \in Name /\ ~IsHeredoc(l)
  <2>0. ~Blank(l)
    BY <1>1, <1>5
  <2>1. Turn(s) = [s EXCEPT !.at = i + 1, !.outputs = Assign(@, l.key, <<Rest(l)>>)]
    BY <1>5, <2>0 DEF Turn
  <2>2. Head(l.marks) # "<<"
    BY <1>1, <1>5
  <2> QED BY <1>5, <2>1, <2>2 DEF After, Given, StartsHeredoc, Says
<1> QED BY <1>1, <1>2, <1>3, <1>4, <1>5

-----------------------------------------------------------------------------
(* What has been read so far *)

GivesBefore(k, a) == {i \in Gives(k) : i < a}

ComplainedBefore(a) == {i \in Heads : /\ i < a /\ ~Blank(lines[i])
                                      /\ \A k \in Name : i \notin Gives(k)}

\* The loop at line a has o: what the heads before a say, and only heads are looked at.
SaidInv(a, o, e) ==
  /\ a \in 1..Len(lines) + 1
  /\ \A j \in Heads : j < a /\ StartsHeredoc(j) => EndOf(j) < a
  /\ DOMAIN o = {k \in Name \ Special : GivesBefore(k, a) # {}}
  /\ \A k \in DOMAIN o : o[k] = Says(Max(GivesBefore(k, a)))
  /\ e = Cardinality(ComplainedBefore(a))

\* What a head gives.
LEMMA HeadGives ==
  ASSUME lines \in Seq(Line), NEW i \in Heads
  PROVE  /\ \A k \in Name : i \in Gives(k) <=> (Given(i) /\ lines[i].key = k)
         /\ Given(i) => lines[i].key \in Name /\ ~Blank(lines[i])
BY DEF Gives, Given, Blank

\* The heads before the line after a head.
LEMMA HeadsBefore ==
  ASSUME lines \in Seq(Line), NEW a \in Heads
  PROVE  /\ After(a) \in a + 1..Len(lines) + 1
         /\ \A i \in Heads : i < After(a) <=> (i < a \/ i = a)
         /\ StartsHeredoc(a) => EndOf(a) < After(a)
<1>0. /\ Heads \subseteq 1..Len(lines) /\ Len(lines) \in Nat
      /\ \A i \in Heads : ~Inner(Heads, i)
  BY HeadsAre
<1>1. EndOf(a) \in a..Len(lines)
  BY <1>0, EndOfIs
<1>2. ASSUME NEW i \in Heads, i < After(a), ~(i <= a) PROVE FALSE
  <2>1. i \in Nat /\ a \in Nat /\ a < i
    BY <1>0, <1>2
  <2>2. StartsHeredoc(a)
    BY <1>2, <2>1 DEF After
  <2>3. i <= EndOf(a)
    BY <1>1, <1>2, <2>1, <2>2 DEF After
  <2> QED BY <1>0, <2>1, <2>2, <2>3 DEF Inner
<1>3. After(a) \in a + 1..Len(lines) + 1
  BY <1>0, <1>1 DEF After
<1>4. StartsHeredoc(a) => EndOf(a) < After(a)
  BY <1>1 DEF After
<1>5. \A i \in Heads : i \in Nat
  BY <1>0
<1> QED BY <1>0, <1>2, <1>3, <1>4, <1>5

LEMMA ReadBegins ==
  ASSUME lines \in Seq(Line)
  PROVE  SaidInv(1, [k \in {} |-> {}], 0)
<1>1. Heads \subseteq 1..Len(lines) /\ Len(lines) \in Nat
  BY HeadsAre
<1>2. \A i \in Heads : ~(i < 1)
  BY <1>1
<1>3. \A k : GivesBefore(k, 1) = {}
  BY <1>2 DEF GivesBefore, Gives
<1>4. ComplainedBefore(1) = {}
  BY <1>2 DEF ComplainedBefore
<1>5. Cardinality(ComplainedBefore(1)) = 0
  BY <1>4, FS_EmptySet
<1> DEFINE o == [k \in {} |-> {}]
<1>6. DOMAIN o = {}
  OBVIOUS
<1> HIDE DEF o
<1> QED BY <1>1, <1>2, <1>3, <1>5, <1>6 DEF SaidInv

\* The greatest of numbers and of one that is greater than they.
LEMMA MaxOfMore ==
  ASSUME NEW S, NEW a \in Nat, S \subseteq Nat, \A i \in S : i < a
  PROVE  Max(S \cup {a}) = a
<1>1. \E x \in S \cup {a} : \A y \in S \cup {a} : x >= y
  <2>1. \A y \in S \cup {a} : a >= y
    OBVIOUS
  <2> QED BY <2>1
<1>2. Max(S \cup {a}) \in S \cup {a} /\ \A y \in S \cup {a} : Max(S \cup {a}) >= y
  BY <1>1 DEF Max
<1> DEFINE m == Max(S \cup {a})
<1>3. m \in S \cup {a} /\ m >= a
  BY <1>2
<1> HIDE DEF m
<1>4. m = a
  BY <1>3
<1> QED BY <1>4 DEF m

LEMMA ReadGoesOn ==
  ASSUME lines \in Seq(Line), NEW a, NEW o, NEW e, SaidInv(a, o, e), a <= Len(lines)
  PROVE  /\ a \in 1..Len(lines)
         /\ SaidInv(After(a), IF Given(a) THEN Assign(o, lines[a].key, Says(a)) ELSE o,
                    IF Given(a) \/ Blank(lines[a]) THEN e ELSE e + 1)
         /\ After(a) > a
<1>0. /\ Heads \subseteq 1..Len(lines) /\ Len(lines) \in Nat
      /\ \A i \in 1..Len(lines) : i \in Heads <=> ~Inner(Heads, i)
  BY HeadsAre
<1>1. a \in 1..Len(lines)
  BY <1>0 DEF SaidInv
<1>2. a \in Heads
  <2>1. ASSUME NEW j \in Heads, j < a, StartsHeredoc(j), a <= EndOf(j) PROVE FALSE
    <3>1. EndOf(j) < a /\ EndOf(j) \in Nat
      BY <1>0, <2>1, EndOfIs DEF SaidInv
    <3> QED BY <1>1, <2>1, <3>1
  <2> QED BY <1>0, <1>1, <2>1 DEF Inner
<1> DEFINE b == After(a)
<1>3. /\ b \in a + 1..Len(lines) + 1
      /\ \A i \in Heads : i < b <=> (i < a \/ i = a)
      /\ StartsHeredoc(a) => EndOf(a) < b
  BY <1>2, HeadsBefore
<1> HIDE DEF b
<1>4. /\ \A k \in Name : a \in Gives(k) <=> (Given(a) /\ lines[a].key = k)
      /\ Given(a) => lines[a].key \in Name /\ ~Blank(lines[a])
  BY <1>2, HeadGives
<1>5. \A k : GivesBefore(k, b) = GivesBefore(k, a) \cup {i \in {a} : i \in Gives(k)}
  BY <1>3 DEF GivesBefore, Gives
<1>6. \A k : a \in Gives(k) => Max(GivesBefore(k, b)) = a
  <2> SUFFICES ASSUME NEW k, a \in Gives(k) PROVE Max(GivesBefore(k, b)) = a
    OBVIOUS
  <2>1. GivesBefore(k, b) = GivesBefore(k, a) \cup {a}
    BY <1>5
  <2>2. GivesBefore(k, a) \subseteq Nat /\ \A i \in GivesBefore(k, a) : i < a
    <3>1. Gives(k) \subseteq Heads
      BY DEF Gives
    <3>2. Gives(k) \subseteq Nat
      <4>1. Heads \subseteq Nat
        <5>1. 1..Len(lines) \subseteq Nat
          BY <1>0
        <5> QED BY <1>0, <5>1
      <4> QED BY <3>1, <4>1
    <3> HIDE DEF Gives
    <3> QED BY <3>2 DEF GivesBefore
  <2>3. a \in Nat
    BY <1>0, <1>1
  <2> QED BY <2>1, <2>2, <2>3, MaxOfMore
<1>7. ASSUME NEW j \in Heads, j < b, StartsHeredoc(j) PROVE EndOf(j) < b
  <2>1. CASE j = a
    BY <1>3, <1>7, <2>1
  <2>2. CASE j < a
    <3>1. EndOf(j) < a /\ EndOf(j) \in Nat
      BY <1>0, <1>7, <2>2, EndOfIs DEF SaidInv
    <3> QED BY <1>1, <1>3, <3>1
  <2> QED BY <1>3, <1>7, <2>1, <2>2
<1>8. /\ IsFiniteSet(ComplainedBefore(a)) /\ a \notin ComplainedBefore(a)
      /\ ComplainedBefore(b) = IF Given(a) \/ Blank(lines[a]) THEN ComplainedBefore(a)
                               ELSE ComplainedBefore(a) \cup {a}
  <2>1. IsFiniteSet(1..Len(lines)) /\ ComplainedBefore(a) \subseteq 1..Len(lines)
    <3>1. IsFiniteSet(1..Len(lines))
      BY <1>0, FS_Interval
    <3> QED BY <1>0, <3>1 DEF ComplainedBefore
  <2>2. a \notin ComplainedBefore(a)
    BY <1>1 DEF ComplainedBefore
  <2>3. ComplainedBefore(b) = ComplainedBefore(a) \cup
          {i \in {a} : ~Blank(lines[i]) /\ \A k \in Name : i \notin Gives(k)}
    BY <1>2, <1>3 DEF ComplainedBefore
  <2>4. (~Blank(lines[a]) /\ \A k \in Name : a \notin Gives(k)) <=> ~(Given(a) \/ Blank(lines[a]))
    BY <1>4
  <2> QED BY <2>1, <2>2, <2>3, <2>4, FS_Subset
<1>9. (IF Given(a) \/ Blank(lines[a]) THEN e ELSE e + 1) = Cardinality(ComplainedBefore(b))
  BY <1>8, FS_AddElement DEF SaidInv
<1>10. CASE ~Given(a)
  <2>1. \A k \in Name : GivesBefore(k, b) = GivesBefore(k, a)
    BY <1>4, <1>5, <1>10
  <2> QED BY <1>1, <1>3, <1>7, <1>9, <1>10, <2>1 DEF SaidInv, b
<1>11. CASE Given(a)
  <2> DEFINE key == lines[a].key
             p == Assign(o, key, Says(a))
  <2>1. key \in Name /\ a \in Gives(key) /\ \A k \in Name : k # key => GivesBefore(k, b) = GivesBefore(k, a)
    BY <1>4, <1>5, <1>11
  <2>2. GivesBefore(key, b) # {} /\ Max(GivesBefore(key, b)) = a
    BY <1>5, <1>6, <2>1
  <2> HIDE DEF key
  <2>3. DOMAIN p = {k \in Name \ Special : GivesBefore(k, b) # {}}
    BY <2>1, <2>2 DEF SaidInv, Assign
  <2>4. \A k \in DOMAIN p : p[k] = Says(Max(GivesBefore(k, b)))
    BY <2>1, <2>2 DEF SaidInv, Assign
  <2> QED BY <1>1, <1>3, <1>7, <1>9, <1>11, <2>3, <2>4 DEF SaidInv, b, key
<1> QED BY <1>10, <1>11

\* Every turn of the loop, and where it is after as many turns as there are lines.
LEMMA ScanInv ==
  ASSUME lines \in Seq(Line)
  PROVE  \E o, e : /\ Parse = [at |-> Len(lines) + 1, outputs |-> o, errors |-> e]
                   /\ SaidInv(Len(lines) + 1, o, e)
<1> DEFINE n == Len(lines)
           Is(t) == \E a, o, e : /\ Scan[t] = [at |-> a, outputs |-> o, errors |-> e]
                                 /\ SaidInv(a, o, e) /\ a > t
           T == {t \in Nat : t <= n => Is(t)}
<1>0. n \in Nat
  OBVIOUS
<1>1. 0 \in T
  BY ReadBegins, ScanIs DEF Start
<1>2. ASSUME NEW t \in Nat, t \in T PROVE t + 1 \in T
  <2> HIDE DEF Is
  <2> SUFFICES ASSUME t + 1 <= n PROVE Is(t + 1)
    OBVIOUS
  <2>0. Is(t)
    BY <1>0, <1>2
  <2> USE DEF Is
  <2>1. PICK a, o, e : /\ Scan[t] = [at |-> a, outputs |-> o, errors |-> e]
                       /\ SaidInv(a, o, e) /\ a > t
    BY <2>0
  <2>2. t + 1 \in 0..n /\ t + 1 # 0 /\ (t + 1) - 1 = t
    BY <1>0
  <2>3. Scan[t + 1] = Turned([at |-> a, outputs |-> o, errors |-> e])
    <3>1. Scan[t + 1] = Turned(Scan[(t + 1) - 1])
      BY <2>2, ScanIs
    <3> QED BY <2>1, <2>2, <3>1
  <2>4. a \in 1..n + 1
    BY <2>1 DEF SaidInv
  <2>5. CASE a > n
    <3>1. Scan[t + 1] = [at |-> a, outputs |-> o, errors |-> e]
      BY <2>3, <2>5 DEF Turned
    <3> QED BY <1>0, <2>1, <2>2, <2>4, <2>5, <3>1
  <2>6. CASE ~(a > n)
    <3>1. a <= n
      BY <1>0, <2>4, <2>6
    <3> DEFINE p == IF Given(a) THEN Assign(o, lines[a].key, Says(a)) ELSE o
               f == IF Given(a) \/ Blank(lines[a]) THEN e ELSE e + 1
    <3>2. a \in 1..n /\ SaidInv(After(a), p, f) /\ After(a) > a
      BY <2>1, <3>1, ReadGoesOn
    <3>3. Turn([at |-> a, outputs |-> o, errors |-> e]) = [at |-> After(a), outputs |-> p, errors |-> f]
      BY <3>2, TurnIs
    <3> HIDE DEF p, f
    <3>4. Scan[t + 1] = [at |-> After(a), outputs |-> p, errors |-> f]
      BY <2>3, <2>6, <3>3 DEF Turned
    <3>5. After(a) > t + 1
      <4>1. After(a) \in Nat
        BY <1>0, <3>2 DEF SaidInv
      <4> QED BY <2>1, <2>4, <3>2, <4>1
    <3> QED BY <3>2, <3>4, <3>5
  <2> QED BY <2>5, <2>6
<1>3. Is(n)
  <2> HIDE DEF Is, n
  <2>1. Nat \subseteq T
    <3> HIDE DEF T
    <3> QED BY <1>1, <1>2, SetInduction
  <2> QED BY <1>0, <2>1
<1>4. PICK a, o, e : /\ Scan[n] = [at |-> a, outputs |-> o, errors |-> e]
                     /\ SaidInv(a, o, e) /\ a > n
  BY <1>3
<1>5. a = n + 1
  BY <1>0, <1>4 DEF SaidInv
<1> HIDE DEF Scan
<1> QED BY <1>4, <1>5 DEF Parse

LEMMA ParseAsWritten == ASSUME lines \in Seq(Line) PROVE OutputsAsWritten
<1> DEFINE a == Len(lines) + 1
<1>1. PICK o, e : /\ Parse = [at |-> a, outputs |-> o, errors |-> e] /\ SaidInv(a, o, e)
  BY ScanInv
<1>2. Heads \subseteq 1..Len(lines) /\ Len(lines) \in Nat
  BY HeadsAre
<1>3. \A i \in Heads : i < a
  BY <1>2
<1>4. \A k : GivesBefore(k, a) = Gives(k)
  BY <1>3 DEF GivesBefore, Gives
<1>5. ComplainedBefore(a) = {i \in Heads : ~Blank(lines[i]) /\ \A k \in Name : i \notin Gives(k)}
  BY <1>3 DEF ComplainedBefore
<1> HIDE DEF a
<1>6. Parse.outputs = o /\ Parse.errors = e
  BY <1>1
<1> HIDE DEF Parse
<1> QED BY <1>1, <1>4, <1>5, <1>6 DEF SaidInv, OutputsAsWritten

\* For any names and texts and files of any length, an output is what the last line or
\* heredoc outside every other heredoc says of it, and every other line that is not blank is
\* complained of: the loop of parseOutputs reads what the file says without one.
THEOREM OutputsAreAsWritten == OutSpec => []OutputsAsWritten
<1>1. OutInit => lines \in Seq(Line)
  BY DEF OutInit
<1>2. lines \in Seq(Line) /\ [OutNext]_lines => (lines \in Seq(Line))'
  BY DEF OutNext, WriteLine
<1>3. lines \in Seq(Line) => OutputsAsWritten
  BY ParseAsWritten
<1> QED BY <1>1, <1>2, <1>3, PTL DEF OutSpec

-----------------------------------------------------------------------------
(* Conditions *)

CondTypeOK == tokens \in Seq(Token) /\ statusFailed \in BOOLEAN

\* What a parse is worth.
Outcome == Strings \cup {"throws"}

\* What a parse returns.
Result == [ok : BOOLEAN, at : Pos, value : Outcome]

\* Does a value agree with the set of scopes in which a phrase is true?
Meant(v, S) == v = "throws" \/ S = IF Truthy(v) THEN Scopes ELSE {}

\* The parse r reads the tokens up to b in the one sense there is in M, and nothing if M is empty.
Reads(r, b, M) ==
  /\ r.ok /\ r.at = b => M # {} /\ (r.value = "throws" => UnknownWords # {})
  /\ \A S \in M : r.ok /\ r.at = b /\ Meant(r.value, S)
  /\ \A S, T \in M : S = T

\* What is peeked at where.
LEMMA TokenTypes ==
  ASSUME CondTypeOK
  PROVE  /\ Len(tokens) \in Nat /\ DOMAIN tokens = 1..Len(tokens)
         /\ \A i : Peek(i) # "end" => i \in 1..Len(tokens) /\ Peek(i) \in Token
         /\ \A i : i \in 1..Len(tokens) => Peek(i) # "end"
         /\ Peek(Len(tokens) + 1) = "end"
<1>1. Len(tokens) \in Nat /\ DOMAIN tokens = 1..Len(tokens) /\ tokens \in [1..Len(tokens) -> Token]
  BY DEF CondTypeOK
<1>2. "end" \notin Token
  BY TokensAssumption
<1>3. Len(tokens) + 1 \notin 1..Len(tokens)
  BY <1>1
<1> QED BY <1>1, <1>2, <1>3 DEF Peek

\* No mark is taken for a word.
LEMMA MarkTypes ==
  /\ \A t \in Mark : t \notin Word /\ t \notin Literal /\ t # "end"
  /\ "end" \notin Word /\ "end" \notin Literal /\ Word \cap Literal = {}
BY TokensAssumption DEF Token

\* Where a token is expected and found.
LEMMA PlaceOf ==
  ASSUME CondTypeOK, NEW i, Peek(i) # "end"
  PROVE  i \in Pos /\ i + 1 \in Pos /\ i \in Nat
BY TokenTypes DEF Pos

\* What a parse returns
LEMMA ThrowsType ==
  ASSUME CondTypeOK, NEW i \in Pos
  PROVE  Throws(i) \in Result /\ Throws(i).ok = FALSE
BY DEF Throws, Result, Outcome

LEMMA ParsedType ==
  ASSUME CondTypeOK, NEW i \in Pos, NEW v \in Outcome
  PROVE  /\ Parsed(v, i) \in Result /\ Parsed(v, i).ok = TRUE
         /\ Parsed(v, i).at = i /\ Parsed(v, i).value = v
BY DEF Parsed, Result

LEMMA ExpectType ==
  ASSUME CondTypeOK, NEW t \in Mark, NEW i \in Pos, NEW v \in Outcome
  PROVE  /\ Expect(t, v, i) \in Result
         /\ Expect(t, v, i).ok <=> Peek(i) = t
         /\ Peek(i) = t => Expect(t, v, i).at = i + 1 /\ Expect(t, v, i).value = v
<1>1. CASE Peek(i) = t
  <2>1. i + 1 \in Pos
    BY <1>1, MarkTypes, PlaceOf
  <2> QED BY <1>1, <2>1, ParsedType DEF Expect
<1>2. CASE Peek(i) # t
  BY <1>2, ThrowsType DEF Expect
<1> QED BY <1>1, <1>2

\* The values of run()
LEMMA ValueTypes ==
  /\ \A b \in BOOLEAN : Bool(b) \in Strings
  /\ \A v \in Outcome : Verdict(v) \in Outcome /\ Negated(v) \in Outcome
  /\ \A v, w \in Outcome : \A op : Both(op, v, w) \in Outcome /\ Compared(op, v, w) \in Outcome
  /\ "throws" \notin Strings /\ "false" \in Outcome
  /\ ~Truthy("false") /\ Truthy("true")
  /\ CondTypeOK => \A f \in Function : StatusValue(f) \in Strings
<1>1. \A b \in BOOLEAN : Bool(b) \in Strings
  BY DEF Bool, Strings
<1>2. \A v \in Outcome : Verdict(v) \in Outcome /\ Negated(v) \in Outcome
  BY <1>1 DEF Verdict, Negated, Outcome, Truthy
<1>3. \A v, w \in Outcome : \A op : Both(op, v, w) \in Outcome /\ Compared(op, v, w) \in Outcome
  BY <1>1, <1>2 DEF Both, Compared, Outcome
<1>4. CondTypeOK => \A f \in Function : StatusValue(f) \in Strings
  BY <1>1 DEF StatusValue, Function, CondTypeOK, Bool, Strings
<1> QED BY <1>1, <1>2, <1>3, <1>4, TokensAssumption DEF Strings, Outcome, Truthy

\* A scope has the known words right and a value for every other.
LEMMA ScopesKnow ==
  /\ Literal \subseteq DOMAIN ValueOf
  /\ \A val \in Scopes : \A w \in DOMAIN ValueOf : val[w] = ValueOf[w]
  /\ \A w \in DOMAIN ValueOf : ValueOf[w] \in Strings
BY TokensAssumption DEF Scopes, Strings

-----------------------------------------------------------------------------
(* Terms *)

\* The three forms of a term, and what is made of each.
LEMMA TermParses ==
  ASSUME CondTypeOK, NEW i \in Pos
  PROVE  /\ ParseTerm(i) \in Result
         /\ ParseTerm(i).ok =>
              \/ /\ Peek(i) \in Literal /\ ParseTerm(i).at = i + 1
                 /\ ParseTerm(i).value = ValueOf[Peek(i)]
              \/ /\ Peek(i) \in Word /\ Peek(i + 1) # "(" /\ ParseTerm(i).at = i + 1
                 /\ ParseTerm(i).value = PathValue(Peek(i))
              \/ /\ Peek(i) \in Function \cap Word /\ Peek(i + 1) = "(" /\ Peek(i + 2) = ")"
                 /\ ParseTerm(i).at = i + 3 /\ ParseTerm(i).value = StatusValue(Peek(i))
         /\ Peek(i) \in Literal => ParseTerm(i).ok
         /\ Peek(i) \in Word /\ Peek(i + 1) # "(" => ParseTerm(i).ok
         /\ Peek(i) \in Function \cap Word /\ Peek(i + 1) = "(" /\ Peek(i + 2) = ")" => ParseTerm(i).ok
<1> DEFINE t == ParseTerm(i)
<1>0. i \in Nat /\ Len(tokens) \in Nat
  BY TokenTypes DEF Pos
<1>1. CASE Peek(i) \in Literal
  <2>1. i + 1 \in Pos /\ Peek(i) \notin Word
    BY <1>1, MarkTypes, PlaceOf
  <2>2. ValueOf[Peek(i)] \in Outcome
    BY <1>1, ScopesKnow DEF Outcome
  <2>3. t = Parsed(ValueOf[Peek(i)], i + 1)
    BY <1>1 DEF ParseTerm
  <2>4. t \in Result /\ t.ok = TRUE /\ t.at = i + 1 /\ t.value = ValueOf[Peek(i)]
    <3> DEFINE v == ValueOf[Peek(i)]
    <3> HIDE DEF v, t
    <3>1. v \in Outcome /\ t = Parsed(v, i + 1)
      BY <2>2, <2>3 DEF v
    <3>2. t \in Result /\ t.ok = TRUE /\ t.at = i + 1 /\ t.value = v
      BY <2>1, <3>1, ParsedType
    <3> QED BY <3>2 DEF v
  <2> QED BY <1>1, <2>1, <2>4
<1>2. CASE Peek(i) \notin Literal /\ Peek(i) \notin Word
  <2>1. t = Throws(i)
    BY <1>2 DEF ParseTerm
  <2> QED BY <1>2, <2>1, ThrowsType
<1>3. CASE Peek(i) \in Word /\ Peek(i + 1) # "("
  <2>1. i + 1 \in Pos /\ Peek(i) \notin Literal
    BY <1>3, MarkTypes, PlaceOf
  <2>2. PathValue(Peek(i)) \in Outcome
    BY ScopesKnow DEF Outcome, PathValue
  <2>3. t = Parsed(PathValue(Peek(i)), i + 1)
    BY <1>3, <2>1 DEF ParseTerm
  <2>4. t \in Result /\ t.ok = TRUE /\ t.at = i + 1 /\ t.value = PathValue(Peek(i))
    BY <2>1, <2>2, <2>3, ParsedType
  <2> QED BY <1>3, <2>1, <2>4
<1>4. CASE Peek(i) \in Word /\ Peek(i + 1) = "(" /\ Peek(i) \in Function
  <2>1. Peek(i) \notin Literal /\ "(" \in Mark /\ ")" \in Mark
    BY <1>4, MarkTypes DEF Mark
  <2>2. i + 2 \in Pos /\ (i + 2) + 1 = i + 3
    <3>1. i + 1 \in 1..Len(tokens)
      BY <1>4, TokenTypes
    <3> QED BY <1>0, <3>1 DEF Pos
  <2>3. StatusValue(Peek(i)) \in Outcome
    BY <1>4, ValueTypes DEF Outcome
  <2>4. t = Expect(")", StatusValue(Peek(i)), i + 2)
    BY <1>4, <2>1 DEF ParseTerm
  <2> QED BY <1>4, <2>1, <2>2, <2>3, <2>4, ExpectType
<1>5. CASE Peek(i) \in Word /\ Peek(i + 1) = "(" /\ Peek(i) \notin Function
  <2>1. Peek(i) \notin Literal
    BY <1>5, MarkTypes
  <2>2. t = Throws(i)
    BY <1>5, <2>1 DEF ParseTerm
  <2> QED BY <1>5, <2>1, <2>2, ThrowsType
<1> QED BY <1>1, <1>2, <1>3, <1>4, <1>5

\* v is what a term means, or is unknown because a word of the condition is.
Known(v, a, b) == /\ v = "throws" => UnknownWords # {}
                  /\ v # "throws" => \A val \in Scopes : TermMeans(a, b, val) = v

\* Where no parenthesis follows, what is parsed as a term is a term, and means what it is worth.
LEMMA TermRead ==
  ASSUME CondTypeOK, NEW i \in Pos, NEW b, Peek(b) # "("
  PROVE  /\ ParseTerm(i).ok /\ ParseTerm(i).at = b <=> IsTerm(i, b)
         /\ IsTerm(i, b) => Known(ParseTerm(i).value, i, b)
<1> DEFINE t == ParseTerm(i)
<1>0. i \in Nat /\ "throws" \notin Strings /\ i + 1 # i + 3
  BY ValueTypes DEF Pos
<1>1. CASE Peek(i) \in Literal /\ t.ok /\ t.at = i + 1 /\ t.value = ValueOf[Peek(i)]
  <2>1. Peek(i) \notin Word
    BY <1>1, MarkTypes
  <2>2. IsTerm(i, b) <=> b = i + 1
    BY <1>0, <1>1, <2>1 DEF IsTerm
  <2>3. Known(t.value, i, i + 1)
    BY <1>0, <1>1, ScopesKnow DEF Known, TermMeans
  <2> QED BY <1>1, <2>2, <2>3
<1>2. CASE /\ Peek(i) \in Word /\ Peek(i + 1) # "(" /\ t.ok /\ t.at = i + 1
           /\ t.value = PathValue(Peek(i))
  <2>1. IsTerm(i, b) <=> b = i + 1
    BY <1>0, <1>2 DEF IsTerm
  <2>2. Known(t.value, i, i + 1)
    <3>1. CASE Peek(i) \in DOMAIN ValueOf
      BY <1>0, <1>2, <3>1, ScopesKnow DEF Known, TermMeans, PathValue
    <3>2. CASE Peek(i) \notin DOMAIN ValueOf
      <4>1. i \in DOMAIN tokens
        BY <1>2, MarkTypes, TokenTypes
      <4>2. Peek(i) \in UnknownWords
        BY <1>2, <3>2, <4>1 DEF UnknownWords
      <4> QED BY <1>2, <3>2, <4>2 DEF Known, PathValue
    <3> QED BY <3>1, <3>2
  <2> QED BY <1>2, <2>1, <2>2
<1>3. CASE /\ Peek(i) \in Function \cap Word /\ Peek(i + 1) = "(" /\ Peek(i + 2) = ")"
           /\ t.ok /\ t.at = i + 3 /\ t.value = StatusValue(Peek(i))
  <2>1. IsTerm(i, b) <=> b = i + 3
    BY <1>0, <1>3 DEF IsTerm
  <2>2. Known(t.value, i, i + 3)
    BY <1>0, <1>3, ValueTypes DEF Known, TermMeans
  <2> QED BY <1>3, <2>1, <2>2
<1>4. CASE ~t.ok
  <2>1. ~IsTerm(i, b)
    BY <1>4, TermParses DEF IsTerm
  <2> QED BY <1>4, <2>1
<1>5. t.ok \in BOOLEAN
  BY TermParses DEF Result
<1> QED BY <1>1, <1>2, <1>3, <1>4, <1>5, TermParses

\* A term is made of tokens, begins with a word or a literal, and has no commas.
LEMMA TermIs ==
  ASSUME CondTypeOK, NEW a \in Nat, NEW b, IsTerm(a, b)
  PROVE  /\ a \in Pos /\ b \in Pos /\ a < b /\ b \in {a + 1, a + 3}
         /\ Peek(a) \in Word \cup Literal
         /\ \A i \in a..b - 1 : Peek(i) # ","
<1>1. CASE b = a + 1 /\ Peek(a) \in Word \cup Literal
  <2>1. Peek(a) # "end" /\ Peek(a) # ","
    BY <1>1, MarkTypes DEF Mark
  <2>2. \A i \in a..b - 1 : i = a
    BY <1>1
  <2>3. \A i \in a..b - 1 : Peek(i) # ","
    BY <2>1, <2>2
  <2>4. a \in Pos /\ b \in Pos
    BY <1>1, <2>1, PlaceOf
  <2>5. a < b /\ b \in {a + 1, a + 3}
    BY <1>1
  <2> QED BY <1>1, <2>3, <2>4, <2>5
<1>2. CASE /\ b = a + 3 /\ Peek(a) \in Function \cap Word
           /\ Peek(a + 1) = "(" /\ Peek(a + 2) = ")"
  <2>1. Peek(a) # "end" /\ Peek(a) # ","
    BY <1>2, MarkTypes DEF Mark
  <2>2. \A i \in a..b - 1 : i = a \/ i = a + 1 \/ i = a + 2
    BY <1>2
  <2>3. (a + 2) + 1 \in Pos
    BY <1>2, PlaceOf
  <2>4. (a + 2) + 1 = b /\ a < b
    BY <1>2
  <2> QED BY <1>2, <2>1, <2>2, <2>3, <2>4, PlaceOf
<1> QED BY <1>1, <1>2 DEF IsTerm

-----------------------------------------------------------------------------
(* A loop of the parser *)

\* What a turn of it does.
LEMMA BothType ==
  ASSUME CondTypeOK, NEW op, NEW f \in [Pos -> Result], NEW left \in Result, op \in Mark
  PROVE  /\ Joined(op, f, left) \in Result
         /\ left.ok /\ Peek(left.at) = op =>
              /\ left.at + 1 \in Pos
              /\ Joined(op, f, left).ok <=> f[left.at + 1].ok
              /\ f[left.at + 1].ok =>
                   /\ Joined(op, f, left).at = f[left.at + 1].at
                   /\ Joined(op, f, left).value = Both(op, left.value, f[left.at + 1].value)
         /\ ~(left.ok /\ Peek(left.at) = op) => Joined(op, f, left) = left
<1>1. CASE left.ok /\ Peek(left.at) = op
  <2>1. left.at + 1 \in Pos
    BY <1>1, MarkTypes, PlaceOf
  <2> DEFINE right == f[left.at + 1]
  <2>2. right \in Result /\ Joined(op, f, left) = IF right.ok THEN Parsed(Both(op, left.value, right.value), right.at)
                                     ELSE right
    BY <1>1, <2>1 DEF Joined
  <2> HIDE DEF right
  <2>3. right.at \in Pos /\ left.value \in Outcome /\ right.value \in Outcome /\ right.ok \in BOOLEAN
    BY <2>2 DEF Result
  <2>4. Both(op, left.value, right.value) \in Outcome
    BY <2>3, ValueTypes
  <2>5. CASE right.ok
    <3>1. Joined(op, f, left) = Parsed(Both(op, left.value, right.value), right.at)
      BY <2>2, <2>5
    <3>2. /\ Joined(op, f, left) \in Result /\ Joined(op, f, left).ok = TRUE
          /\ Joined(op, f, left).at = right.at
          /\ Joined(op, f, left).value = Both(op, left.value, right.value)
      <4> DEFINE v == Both(op, left.value, right.value)
      <4> HIDE DEF v
      <4>1. v \in Outcome /\ Joined(op, f, left) = Parsed(v, right.at)
        BY <3>1, <2>4 DEF v
      <4>2. /\ Parsed(v, right.at) \in Result /\ Parsed(v, right.at).ok = TRUE
            /\ Parsed(v, right.at).at = right.at /\ Parsed(v, right.at).value = v
        BY <2>3, <4>1, ParsedType
      <4> QED BY <4>1, <4>2 DEF v
    <3> QED BY <1>1, <2>1, <2>5, <3>2 DEF right
  <2>6. CASE ~right.ok
    <3>1. Joined(op, f, left) = right
      BY <2>2, <2>6
    <3> QED BY <1>1, <2>1, <2>2, <2>6, <3>1 DEF right
  <2> QED BY <2>3, <2>5, <2>6
<1>2. CASE ~(left.ok /\ Peek(left.at) = op)
  BY <1>2 DEF Joined
<1> QED BY <1>1, <1>2

\* The turns of a loop
IsTurn(op, f, i, g) ==
  g = [k \in 0..Len(tokens) |-> IF k = 0 THEN f[i] ELSE Joined(op, f, g[k - 1])]

\* The loop is its turns: the recursive function that Chain is defined with exists.
LEMMA ChainIs ==
  ASSUME CondTypeOK, NEW op \in Mark, NEW f \in [Pos -> Result], NEW i \in Pos
  PROVE  \E turn \in [0..Len(tokens) -> Result] :
           /\ turn[0] = f[i] /\ Chain(op, f, i) = turn[Len(tokens)]
           /\ \A k \in 1..Len(tokens) : turn[k] = Joined(op, f, turn[k - 1])
<1> DEFINE g == CHOOSE g : IsTurn(op, f, i, g)
<1>0. Len(tokens) \in Nat /\ f[i] \in Result
  BY TokenTypes
<1>1. Chain(op, f, i) = g[Len(tokens)]
  BY Zenon DEF Chain, IsTurn
<1>2. \E h \in [0..Len(tokens) -> Result] : IsTurn(op, f, i, h)
  <2> DEFINE step == [k \in 1..Len(tokens) |-> [r \in Result |-> Joined(op, f, r)]]
  <2>1. step \in [1..Len(tokens) -> [Result -> Result]]
    BY BothType
  <2>2. \E h \in [0..Len(tokens) -> Result] :
          h[0] = f[i] /\ \A k \in 1..Len(tokens) : h[k] = step[k][h[k - 1]]
    <3> DEFINE n == Len(tokens)
               first == f[i]
    <3>1. n \in Nat /\ first \in Result
      BY <1>0
    <3> HIDE DEF step, n, first
    <3>2. step \in [1..n -> [Result -> Result]]
      BY <2>1 DEF n
    <3>3. \E h : IsRow(n, Result, first, step, h)
      BY <3>1, <3>2, Iteration
    <3> QED BY <3>3 DEF n, first, IsRow
  <2>3. PICK h \in [0..Len(tokens) -> Result] :
          h[0] = f[i] /\ \A k \in 1..Len(tokens) : h[k] = step[k][h[k - 1]]
    BY <2>2
  <2>4. \A k \in 0..Len(tokens) : k # 0 => step[k][h[k - 1]] = Joined(op, f, h[k - 1])
    <3> SUFFICES ASSUME NEW k \in 0..Len(tokens), k # 0
                 PROVE  step[k][h[k - 1]] = Joined(op, f, h[k - 1])
      OBVIOUS
    <3>1. k \in 1..Len(tokens) /\ k - 1 \in 0..Len(tokens) /\ h[k - 1] \in Result
      BY <1>0
    <3> QED BY <3>1
  <2>5. h = [k \in 0..Len(tokens) |-> IF k = 0 THEN f[i] ELSE Joined(op, f, h[k - 1])]
    <3> HIDE DEF step
    <3>1. \A k \in 0..Len(tokens) : h[k] = IF k = 0 THEN f[i] ELSE Joined(op, f, h[k - 1])
      BY <1>0, <2>3, <2>4
    <3> QED BY <3>1
  <2> QED BY <2>5 DEF IsTurn
<1>3. PICK h \in [0..Len(tokens) -> Result] : IsTurn(op, f, i, h)
  BY <1>2
<1>4. IsTurn(op, f, i, g)
  <2>1. \E r : IsTurn(op, f, i, r)
    BY <1>3
  <2> QED BY <2>1
<1> HIDE DEF g
<1>5. /\ DOMAIN g = 0..Len(tokens) /\ g[0] = f[i]
      /\ \A k \in 1..Len(tokens) : g[k] = Joined(op, f, g[k - 1])
  BY <1>0, <1>4 DEF IsTurn
<1>6. \A k \in 0..Len(tokens) : g[k] \in Result
  <2> DEFINE T == {k \in Nat : k <= Len(tokens) => g[k] \in Result}
  <2>1. 0 \in T
    BY <1>0, <1>5
  <2>2. ASSUME NEW k \in Nat, k \in T PROVE k + 1 \in T
    <3> SUFFICES ASSUME k + 1 <= Len(tokens) PROVE g[k + 1] \in Result
      OBVIOUS
    <3>1. g[k] \in Result
      BY <1>0, <2>2
    <3>2. g[k + 1] = Joined(op, f, g[k])
      BY <1>0, <1>5
    <3> QED BY <3>1, <3>2, BothType
  <2>3. Nat \subseteq T
    <3> HIDE DEF T
    <3> QED BY <2>1, <2>2, SetInduction
  <2> QED BY <1>0, <2>3
<1>7. g \in [0..Len(tokens) -> Result]
  <2>1. g = [k \in 0..Len(tokens) |-> g[k]]
    BY <1>4 DEF IsTurn
  <2> QED BY <1>6, <2>1
<1> QED BY <1>1, <1>5, <1>7

\* The senses in which a set of phrases reads the tokens from a to b - 1.
Senses(g, a, b) == {S \in SUBSET Scopes : <<a, b, S>> \in g}

\* The tokens from a to b - 1 are g op f, and true in S.
Joins(op, f, g, a, b, S) ==
  \E m \in Pos : \E T, V \in SUBSET Scopes :
    <<a, m, T>> \in g /\ Peek(m) = op /\ <<m + 1, b, V>> \in f /\ S = Joint(op, T, V)

\* g is f (op f)*.
Repeats(op, f, g) ==
  \A a, b \in Pos : \A S \in SUBSET Scopes :
    /\ <<a, b, S>> \in g <=> <<a, b, S>> \in f \/ Joins(op, f, g, a, b, S)
    /\ <<a, b, S>> \in g => a < b

\* The tokens that the loops are for
Connective == {"and", "or", ","}

\* If two values agree with what two phrases mean, then what is made of the values agrees with
\* what the phrases mean together, a short cut or not.
LEMMA JointMeant ==
  ASSUME NEW op \in Connective, NEW v \in Outcome, NEW w \in Outcome,
         NEW T \in SUBSET Scopes, NEW V \in SUBSET Scopes
  PROVE  /\ Both(op, v, w) = "throws" => v = "throws" \/ w = "throws"
         /\ Meant(v, T) /\ Meant(w, V) => Meant(Both(op, v, w), Joint(op, T, V))
         /\ Joint(op, T, V) \in SUBSET Scopes
<1>1. Joint(op, T, V) \in SUBSET Scopes
  BY DEF Joint
<1>2. \A u \in Outcome : /\ Verdict(u) = "throws" <=> u = "throws"
                         /\ u # "throws" => (Truthy(Verdict(u)) <=> Truthy(u))
  BY ValueTypes DEF Verdict, Bool, Truthy
<1>3. CASE v = "throws" \/ Truthy(v) = (op # "and")
  <2>1. Both(op, v, w) = Verdict(v)
    BY <1>3 DEF Both
  <2>2. ASSUME Meant(v, T), Meant(w, V) PROVE Meant(Both(op, v, w), Joint(op, T, V))
    <3>1. CASE v = "throws"
      BY <1>2, <2>1, <3>1 DEF Meant
    <3>2. CASE v # "throws" /\ op = "and"
      <4>1. ~Truthy(v) /\ T = {}
        BY <1>3, <2>2, <3>2 DEF Meant
      <4> QED BY <1>2, <2>1, <3>2, <4>1 DEF Meant, Joint
    <3>3. CASE v # "throws" /\ op # "and"
      <4>1. Truthy(v) /\ T = Scopes
        BY <1>3, <2>2, <3>3 DEF Meant
      <4>2. T \cup V = Scopes
        BY <4>1
      <4> QED BY <1>2, <2>1, <3>3, <4>1, <4>2 DEF Meant, Joint
    <3> QED BY <3>1, <3>2, <3>3
  <2> QED BY <1>1, <1>2, <2>1, <2>2
<1>4. CASE ~(v = "throws" \/ Truthy(v) = (op # "and"))
  <2>1. Both(op, v, w) = Verdict(w)
    BY <1>4 DEF Both
  <2>2. ASSUME Meant(v, T), Meant(w, V) PROVE Meant(Both(op, v, w), Joint(op, T, V))
    <3>1. CASE op = "and"
      <4>1. T = Scopes
        BY <1>4, <2>2, <3>1 DEF Meant, Truthy
      <4>2. T \cap V = V
        BY <4>1
      <4> QED BY <1>2, <2>1, <2>2, <3>1, <4>2 DEF Meant, Joint
    <3>2. CASE op # "and"
      <4>1. T = {}
        BY <1>4, <2>2, <3>2 DEF Meant, Truthy
      <4>2. T \cup V = V
        BY <4>1
      <4> QED BY <1>2, <2>1, <2>2, <3>2, <4>2 DEF Meant, Joint
    <3> QED BY <3>1, <3>2
  <2> QED BY <1>1, <1>2, <2>1, <2>2
<1> QED BY <1>3, <1>4

\* A turn that lacks what it needs is the last to do anything.
LEMMA TurnStays ==
  ASSUME CondTypeOK, NEW op \in Mark, NEW f \in [Pos -> Result],
         NEW turn \in [0..Len(tokens) -> Result],
         \A k \in 1..Len(tokens) : turn[k] = Joined(op, f, turn[k - 1]),
         NEW k \in 0..Len(tokens), ~(turn[k].ok /\ Peek(turn[k].at) = op)
  PROVE  turn[Len(tokens)] = turn[k]
<1> DEFINE T == {n \in Nat : k + n <= Len(tokens) => turn[k + n] = turn[k]}
<1>0. Len(tokens) \in Nat /\ k \in Nat
  BY TokenTypes
<1>1. 0 \in T
  BY <1>0
<1>2. ASSUME NEW n \in Nat, n \in T PROVE n + 1 \in T
  <2> SUFFICES ASSUME k + (n + 1) <= Len(tokens) PROVE turn[k + (n + 1)] = turn[k]
    OBVIOUS
  <2>1. turn[k + n] = turn[k] /\ k + (n + 1) \in 1..Len(tokens) /\ (k + (n + 1)) - 1 = k + n
    BY <1>0, <1>2
  <2>2. turn[k + (n + 1)] = Joined(op, f, turn[k + n])
    BY <2>1
  <2> QED BY <2>1, <2>2, BothType
<1>3. Nat \subseteq T
  <2> HIDE DEF T
  <2> QED BY <1>1, <1>2, SetInduction
<1>4. Len(tokens) - k \in T /\ k + (Len(tokens) - k) = Len(tokens) /\ Len(tokens) <= Len(tokens)
  BY <1>0, <1>3
<1> QED BY <1>0, <1>4

LEMMA ConnectiveMark ==
  \A op \in Connective : op \in Mark /\ op # "end"
BY MarkTypes DEF Connective, Mark

\* A loop that cannot begin does nothing.
LEMMA ChainStays ==
  ASSUME CondTypeOK, NEW op \in Connective, NEW f \in [Pos -> Result], NEW i \in Pos
  PROVE  /\ Chain(op, f, i) \in Result
         /\ ~f[i].ok => ~Chain(op, f, i).ok
<1>1. PICK turn \in [0..Len(tokens) -> Result] :
        /\ turn[0] = f[i] /\ Chain(op, f, i) = turn[Len(tokens)]
        /\ \A k \in 1..Len(tokens) : turn[k] = Joined(op, f, turn[k - 1])
  BY ConnectiveMark, ChainIs
<1>2. 0 \in 0..Len(tokens) /\ Len(tokens) \in 0..Len(tokens)
  BY TokenTypes
<1>3. ~f[i].ok => turn[Len(tokens)] = f[i]
  BY <1>1, <1>2, ConnectiveMark, TurnStays
<1> QED BY <1>1, <1>2, <1>3

\* If f reads what may follow, then the loop reads f (op f)* before what else may follow.
LEMMA ChainReads ==
  ASSUME CondTypeOK, NEW op \in Connective, NEW F, op \in F,
         NEW f \in [Pos -> Result], NEW i \in Pos, NEW B, NEW C,
         \A j \in Pos : j >= i => \A b \in Pos : Peek(b) \in F => Reads(f[j], b, Senses(B, j, b)),
         Repeats(op, B, C)
  PROVE  \A b \in Pos : Peek(b) \in F \ {op} => Reads(Chain(op, f, i), b, Senses(C, i, b))
<1> DEFINE N == Len(tokens)
<1>0. N \in Nat /\ i \in Nat /\ i >= 1 /\ Pos = 1..N + 1
  BY TokenTypes DEF Pos
<1>1. PICK turn \in [0..N -> Result] :
        /\ turn[0] = f[i] /\ Chain(op, f, i) = turn[N]
        /\ \A k \in 1..N : turn[k] = Joined(op, f, turn[k - 1])
  BY ConnectiveMark, ChainIs
<1> HIDE DEF N
<1>2. \A a, b \in Pos : \A S \in SUBSET Scopes :
        /\ <<a, b, S>> \in B => <<a, b, S>> \in C
        /\ <<a, b, S>> \in C => a < b
  BY DEF Repeats
<1>3. ASSUME NEW k \in 0..N, k + 1 \in 0..N, turn[k].ok, Peek(turn[k].at) = op
      PROVE  /\ turn[k].at \in Pos /\ turn[k].at + 1 \in Pos
             /\ f[turn[k].at + 1] \in Result
             /\ turn[k + 1].ok <=> f[turn[k].at + 1].ok
             /\ turn[k + 1].ok => /\ turn[k + 1].at = f[turn[k].at + 1].at
                                  /\ turn[k + 1].value =
                                       Both(op, turn[k].value, f[turn[k].at + 1].value)
  <2>1. k + 1 \in 1..N /\ (k + 1) - 1 = k /\ turn[k] \in Result
    BY <1>0, <1>3
  <2>2. turn[k + 1] = Joined(op, f, turn[k])
    BY <1>1, <2>1
  <2>3. turn[k].at + 1 \in Pos /\ turn[k].at \in Pos
    BY <1>3, ConnectiveMark, PlaceOf
  <2> QED BY <1>3, <2>1, <2>2, <2>3, BothType, ConnectiveMark
<1>4. \A k \in 0..N : turn[k] \in Result /\ turn[k].value \in Outcome /\ turn[k].at \in Pos
                      /\ turn[k].ok \in BOOLEAN
  BY DEF Result
<1>5. ASSUME NEW k \in 0..N, turn[k].ok, Peek(turn[k].at) \in F
      PROVE  /\ \E S \in SUBSET Scopes : <<i, turn[k].at, S>> \in C
             /\ turn[k].value = "throws" => UnknownWords # {}
  <2> DEFINE Sound(n) == turn[n].ok /\ Peek(turn[n].at) \in F =>
                           /\ \E S \in SUBSET Scopes : <<i, turn[n].at, S>> \in C
                           /\ turn[n].value = "throws" => UnknownWords # {}
             T == {n \in Nat : n <= N => Sound(n)}
  <2> HIDE DEF Sound
  <2>1. 0 \in T
    <3>1. turn[0] = f[i] /\ turn[0].at \in Pos /\ i >= i
      BY <1>0, <1>1, <1>4
    <3>2. turn[0].ok /\ Peek(turn[0].at) \in F => Reads(f[i], turn[0].at, Senses(B, i, turn[0].at))
      BY <3>1
    <3>3. Sound(0)
      BY <1>2, <3>1, <3>2 DEF Reads, Senses, Sound
    <3> QED BY <3>3
  <2>2. ASSUME NEW n \in Nat, n \in T PROVE n + 1 \in T
    <3> SUFFICES ASSUME n + 1 <= N PROVE Sound(n + 1)
      OBVIOUS
    <3>0. n \in 0..N /\ n + 1 \in 0..N /\ n + 1 \in 1..N /\ (n + 1) - 1 = n
      BY <1>0
    <3>1. Sound(n)
      BY <2>2, <1>0
    <3>2. CASE ~(turn[n].ok /\ Peek(turn[n].at) = op)
      <4>1. turn[n + 1] = turn[n]
        BY <1>1, <1>4, <3>0, <3>2, BothType, ConnectiveMark
      <4> QED BY <3>1, <4>1 DEF Sound
    <3>3. CASE turn[n].ok /\ Peek(turn[n].at) = op
      <4> DEFINE m == turn[n].at
                 b == turn[n + 1].at
                 right == f[m + 1]
      <4> HIDE DEF m, b, right
      <4>1. /\ m \in Pos /\ m + 1 \in Pos /\ b \in Pos /\ right \in Result
            /\ turn[n + 1].ok <=> right.ok
            /\ turn[n + 1].ok => b = right.at /\ turn[n + 1].value = Both(op, turn[n].value, right.value)
        BY <1>3, <1>4, <3>0, <3>3 DEF m, b, right
      <4>2. PICK S \in SUBSET Scopes : <<i, m, S>> \in C
        BY <3>1, <3>3 DEF m, Sound
      <4>3. turn[n].value = "throws" => UnknownWords # {}
        BY <3>1, <3>3 DEF Sound
      <4>4. m + 1 >= i
        <5>1. i < m
          BY <1>2, <4>1, <4>2
        <5> QED BY <1>0, <4>1, <5>1
      <4>5. ASSUME turn[n + 1].ok, Peek(b) \in F
            PROVE  /\ \E U \in SUBSET Scopes : <<i, b, U>> \in C
                   /\ turn[n + 1].value = "throws" => UnknownWords # {}
        <5>1. Reads(right, b, Senses(B, m + 1, b))
          BY <4>1, <4>4, <4>5 DEF right
        <5>2. PICK V \in SUBSET Scopes : <<m + 1, b, V>> \in B
          BY <4>1, <4>5, <5>1 DEF Reads, Senses
        <5>3. Joint(op, S, V) \in SUBSET Scopes
          BY DEF Joint
        <5>4. <<i, b, Joint(op, S, V)>> \in C
          <6>1. Peek(m) = op
            BY <3>3 DEF m
          <6> QED BY <4>1, <4>2, <5>2, <5>3, <6>1 DEF Repeats, Joins
        <5>5. right.value \in Outcome /\ turn[n].value \in Outcome
          BY <1>4, <3>0, <4>1 DEF Result
        <5>6. turn[n + 1].value = "throws" => turn[n].value = "throws" \/ right.value = "throws"
          BY <4>1, <4>5, <5>5, JointMeant
        <5>7. right.value = "throws" => UnknownWords # {}
          BY <4>1, <4>5, <5>1 DEF Reads
        <5> QED BY <4>3, <5>3, <5>4, <5>6, <5>7
      <4> QED BY <4>5 DEF b, Sound
    <3> QED BY <3>2, <3>3
  <2>3. Nat \subseteq T
    <3> HIDE DEF T
    <3> QED BY <2>1, <2>2, SetInduction
  <2>4. Sound(k)
    BY <1>0, <2>3
  <2> HIDE DEF T
  <2> QED BY <1>5, <2>4 DEF Sound
<1>6. ASSUME NEW b \in Pos, NEW S \in SUBSET Scopes, <<i, b, S>> \in C, Peek(b) \in F
      PROVE  \E k \in 0..N : turn[k].ok /\ turn[k].at = b /\ Meant(turn[k].value, S)
  <2> DEFINE Reached(m, U) == \E k \in 0..m - i - 1 :
                             turn[k].ok /\ turn[k].at = m /\ Meant(turn[k].value, U)
             T == {n \in Nat : \A m \in Pos : \A U \in SUBSET Scopes :
                     m <= i + n /\ <<i, m, U>> \in C /\ Peek(m) \in F => Reached(m, U)}
  <2>1. 0 \in T
    <3>1. \A m \in Pos : \A U \in SUBSET Scopes : m <= i + 0 => <<i, m, U>> \notin C
      <4> SUFFICES ASSUME NEW m \in Pos, NEW U \in SUBSET Scopes, m <= i + 0, <<i, m, U>> \in C
                   PROVE  FALSE
        OBVIOUS
      <4>1. i < m /\ m \in Nat
        BY <1>0, <1>2
      <4> QED BY <1>0, <4>1
    <3> QED BY <3>1
  <2>2. ASSUME NEW n \in Nat, n \in T PROVE n + 1 \in T
    <3> SUFFICES ASSUME NEW m \in Pos, NEW U \in SUBSET Scopes, m <= i + (n + 1),
                        <<i, m, U>> \in C, Peek(m) \in F
                 PROVE  Reached(m, U)
      OBVIOUS
    <3>0. i < m /\ m \in Nat /\ m <= N + 1
      BY <1>0, <1>2
    <3>1. CASE <<i, m, U>> \in B
      <4>1. Reads(f[i], m, Senses(B, i, m)) /\ U \in Senses(B, i, m)
        BY <1>0, <3>1 DEF Senses
      <4>2. f[i].ok /\ f[i].at = m /\ Meant(f[i].value, U)
        BY <4>1 DEF Reads
      <4>3. 0 \in 0..m - i - 1
        BY <1>0, <3>0
      <4>4. turn[0].ok /\ turn[0].at = m /\ Meant(turn[0].value, U)
        BY <1>1, <4>2
      <4> QED BY <4>3, <4>4
    <3>2. CASE Joins(op, B, C, i, m, U)
      <4>1. PICK p \in Pos, W \in SUBSET Scopes, V \in SUBSET Scopes :
                 /\ <<i, p, W>> \in C /\ Peek(p) = op /\ <<p + 1, m, V>> \in B
                 /\ U = Joint(op, W, V)
        BY <3>2 DEF Joins
      <4>2. p \in Nat /\ p + 1 \in Pos /\ i < p
        BY <1>0, <1>2, <4>1, ConnectiveMark, PlaceOf
      <4>3. p + 1 < m
        BY <1>2, <4>1, <4>2
      <4>4. Reached(p, W)
        <5>1. p <= i + n
          BY <1>0, <3>0, <4>2, <4>3
        <5> QED BY <2>2, <4>1, <5>1
      <4>5. PICK k \in 0..p - i - 1 : turn[k].ok /\ turn[k].at = p /\ Meant(turn[k].value, W)
        BY <4>4
      <4>6. k \in 0..N /\ k + 1 \in 0..N /\ k + 1 \in 0..m - i - 1
        BY <1>0, <3>0, <4>2, <4>3
      <4>7. Reads(f[p + 1], m, Senses(B, p + 1, m)) /\ V \in Senses(B, p + 1, m)
        <5>1. p + 1 >= i
          BY <1>0, <4>2
        <5>2. V \in Senses(B, p + 1, m)
          BY <4>1 DEF Senses
        <5> QED BY <4>2, <5>1, <5>2
      <4>8. f[p + 1].ok /\ f[p + 1].at = m /\ Meant(f[p + 1].value, V)
        BY <4>7 DEF Reads
      <4>9. /\ f[p + 1] \in Result /\ turn[k + 1].ok /\ turn[k + 1].at = m
            /\ turn[k + 1].value = Both(op, turn[k].value, f[p + 1].value)
        BY <1>3, <4>1, <4>5, <4>6, <4>8
      <4>10. f[p + 1].value \in Outcome /\ turn[k].value \in Outcome
        BY <1>4, <4>6, <4>9 DEF Result
      <4>11. Meant(turn[k + 1].value, U)
        BY <4>1, <4>5, <4>8, <4>9, <4>10, JointMeant
      <4> QED BY <4>6, <4>9, <4>11
    <3>3. <<i, m, U>> \in B \/ Joins(op, B, C, i, m, U)
      BY DEF Repeats
    <3> QED BY <3>1, <3>2, <3>3
  <2>3. Nat \subseteq T
    <3> HIDE DEF T
    <3> QED BY <2>1, <2>2, SetInduction
  <2>4. b - i \in Nat /\ b <= i + (b - i) /\ b \in Nat /\ b <= N + 1
    <3>1. i < b
      BY <1>2, <1>6
    <3> QED BY <1>0, <3>1
  <2>5. Reached(b, S)
    <3>1. b - i \in T
      BY <2>3, <2>4
    <3> QED BY <1>6, <2>4, <3>1
  <2>6. \A k \in 0..b - i - 1 : k \in 0..N
    BY <1>0, <2>4
  <2> HIDE DEF T
  <2> QED BY <2>5, <2>6
<1>7. ASSUME NEW k \in 0..N, turn[k].ok, Peek(turn[k].at) \in F
      PROVE  \A l \in 0..k : turn[l].ok /\ turn[l].at <= turn[k].at
  <2> DEFINE Grows(n) == turn[n].ok /\ Peek(turn[n].at) \in F =>
                           \A l \in 0..n : turn[l].ok /\ turn[l].at <= turn[n].at
             T == {n \in Nat : n <= N => Grows(n)}
  <2> HIDE DEF Grows
  <2>0. \A n \in 0..N : turn[n].at \in Nat
    BY <1>0, <1>4
  <2>1. 0 \in T
    <3>1. \A l \in 0..0 : l = 0
      OBVIOUS
    <3>2. turn[0].at <= turn[0].at
      BY <1>0, <2>0
    <3>3. Grows(0)
      BY <3>1, <3>2 DEF Grows
    <3> QED BY <3>3
  <2>2. ASSUME NEW n \in Nat, n \in T PROVE n + 1 \in T
    <3> SUFFICES ASSUME n + 1 <= N, turn[n + 1].ok, Peek(turn[n + 1].at) \in F,
                        NEW l \in 0..n + 1
                 PROVE  turn[l].ok /\ turn[l].at <= turn[n + 1].at
      BY DEF Grows
    <3>0. n \in 0..N /\ n + 1 \in 0..N /\ n + 1 \in 1..N /\ (n + 1) - 1 = n
      BY <1>0
    <3>1. Grows(n) /\ turn[n].at \in Nat /\ turn[n + 1].at \in Nat
      BY <1>0, <2>0, <2>2, <3>0
    <3>2. CASE l = n + 1
      BY <3>1, <3>2
    <3>3. CASE l \in 0..n /\ ~(turn[n].ok /\ Peek(turn[n].at) = op)
      <4>1. turn[n + 1] = turn[n]
        BY <1>1, <1>4, <3>0, <3>3, BothType, ConnectiveMark
      <4> QED BY <3>1, <3>3, <4>1 DEF Grows
    <3>4. CASE l \in 0..n /\ turn[n].ok /\ Peek(turn[n].at) = op
      <4> DEFINE m == turn[n].at
                 b == turn[n + 1].at
      <4>1. /\ m \in Pos /\ m + 1 \in Pos /\ b \in Pos /\ f[m + 1].ok /\ b = f[m + 1].at
            /\ m \in Nat /\ b \in Nat
        BY <1>3, <1>4, <3>0, <3>1, <3>4
      <4>2. PICK S \in SUBSET Scopes : <<i, m, S>> \in C
        BY <1>5, <3>0, <3>4
      <4>3. turn[l].ok /\ turn[l].at <= m /\ turn[l].at \in Nat
        <5>1. l \in 0..N
          BY <1>0, <3>0, <3>4
        <5>2. Peek(turn[n].at) \in F
          BY <3>4
        <5> QED BY <2>0, <3>1, <3>4, <5>1, <5>2 DEF Grows
      <4> HIDE DEF m, b
      <4>4. m + 1 >= i
        <5>1. i < m
          BY <1>2, <4>1, <4>2
        <5> QED BY <1>0, <4>1, <5>1
      <4>5. Reads(f[m + 1], b, Senses(B, m + 1, b))
        BY <4>1, <4>4 DEF b
      <4>6. PICK V \in SUBSET Scopes : <<m + 1, b, V>> \in B
        BY <4>1, <4>5 DEF Reads, Senses
      <4>7. m + 1 < b
        BY <1>2, <4>1, <4>6
      <4>8. turn[l].at <= b
        BY <4>1, <4>3, <4>7
      <4> QED BY <4>3, <4>8 DEF b
    <3>5. l = n + 1 \/ l \in 0..n
      OBVIOUS
    <3> QED BY <3>2, <3>3, <3>4, <3>5
  <2>3. Nat \subseteq T
    <3> HIDE DEF T
    <3> QED BY <2>1, <2>2, SetInduction
  <2>4. Grows(k)
    BY <1>0, <2>3
  <2> HIDE DEF T
  <2> QED BY <1>7, <2>4 DEF Grows
<1> DEFINE Ends(p, m, W, V) == <<i, p, W>> \in C /\ Peek(p) = op /\ <<p + 1, m, V>> \in B
<1>8. ASSUME NEW m \in Pos, Peek(m) \in F, NEW p \in Pos, NEW W \in SUBSET Scopes,
             NEW V \in SUBSET Scopes, Ends(p, m, W, V)
      PROVE  /\ p \in Nat /\ m \in Nat /\ i < p /\ p + 1 < m /\ p + 1 \in Pos
             /\ Reads(f[p + 1], m, Senses(B, p + 1, m))
             /\ V \in Senses(B, p + 1, m)
             /\ \E k \in 0..N : turn[k].ok /\ turn[k].at = p
             /\ \A k \in 0..N : turn[k].ok /\ turn[k].at = p /\ k + 1 \in 0..N =>
                                 turn[k + 1].ok /\ turn[k + 1].at = m
  <2>1. p \in Nat /\ m \in Nat /\ i < p /\ p + 1 \in Pos
    BY <1>0, <1>2, <1>8, ConnectiveMark, PlaceOf
  <2>2. p + 1 < m /\ p + 1 >= i
    BY <1>0, <1>2, <1>8, <2>1
  <2>3. V \in Senses(B, p + 1, m)
    BY <1>8 DEF Senses
  <2>4. Reads(f[p + 1], m, Senses(B, p + 1, m))
    BY <1>8, <2>1, <2>2
  <2>5. f[p + 1].ok /\ f[p + 1].at = m
    BY <2>3, <2>4 DEF Reads
  <2>6. \E k \in 0..N : turn[k].ok /\ turn[k].at = p
    BY <1>6, <1>8
  <2>7. \A k \in 0..N : turn[k].ok /\ turn[k].at = p /\ k + 1 \in 0..N =>
                        turn[k + 1].ok /\ turn[k + 1].at = m
    BY <1>3, <1>8, <2>5
  <2> QED BY <2>1, <2>2, <2>3, <2>4, <2>6, <2>7
<1>9. ASSUME NEW m \in Pos, Peek(m) \in F, NEW p \in Pos, NEW W \in SUBSET Scopes,
             NEW V \in SUBSET Scopes, Ends(p, m, W, V),
             NEW q \in Pos, NEW X \in SUBSET Scopes, NEW Y \in SUBSET Scopes, Ends(q, m, X, Y)
      PROVE  ~(p < q)
  <2> SUFFICES ASSUME p < q PROVE FALSE
    OBVIOUS
  <2>1. /\ p \in Nat /\ m \in Nat /\ q \in Nat /\ q + 1 < m
        /\ \E k \in 0..N : turn[k].ok /\ turn[k].at = p
        /\ \E k \in 0..N : turn[k].ok /\ turn[k].at = q
        /\ \A k \in 0..N : turn[k].ok /\ turn[k].at = p /\ k + 1 \in 0..N =>
                            turn[k + 1].ok /\ turn[k + 1].at = m
    <3> HIDE DEF Ends
    <3> QED BY <1>8, <1>9
  <2>2. PICK k \in 0..N : turn[k].ok /\ turn[k].at = p
    BY <2>1
  <2>3. PICK l \in 0..N : turn[l].ok /\ turn[l].at = q
    BY <2>1
  <2>4. \A n \in 0..k : turn[n].at <= p
    BY <1>7, <1>9, <2>2
  <2>5. \A n \in 0..l : turn[n].at <= q
    BY <1>7, <1>9, <2>3
  <2>6. ~(l <= k)
    BY <1>0, <2>1, <2>3, <2>4
  <2>7. k + 1 \in 0..l /\ k + 1 \in 0..N
    BY <1>0, <2>6
  <2>8. turn[k + 1].at = m
    BY <2>1, <2>2, <2>7
  <2> QED BY <2>1, <2>5, <2>7, <2>8
<1>10. ASSUME NEW b \in Pos, Peek(b) \in F
       PROVE  \A S, U \in Senses(C, i, b) : S = U
  <2> DEFINE T == {n \in Nat : \A m \in Pos : \A S, U \in SUBSET Scopes :
                     m <= i + n /\ <<i, m, S>> \in C /\ <<i, m, U>> \in C /\ Peek(m) \in F => S = U}
  <2>1. 0 \in T
    <3>1. \A m \in Pos : \A U \in SUBSET Scopes : m <= i + 0 => <<i, m, U>> \notin C
      <4> SUFFICES ASSUME NEW m \in Pos, NEW U \in SUBSET Scopes, m <= i + 0, <<i, m, U>> \in C
                   PROVE  FALSE
        OBVIOUS
      <4>1. i < m /\ m \in Nat
        BY <1>0, <1>2
      <4> QED BY <1>0, <4>1
    <3> QED BY <3>1
  <2>2. ASSUME NEW n \in Nat, n \in T PROVE n + 1 \in T
    <3> SUFFICES ASSUME NEW m \in Pos, NEW S \in SUBSET Scopes, NEW U \in SUBSET Scopes,
                        m <= i + (n + 1), <<i, m, S>> \in C, <<i, m, U>> \in C, Peek(m) \in F
                 PROVE  S = U
      OBVIOUS
    <3>1. Reads(f[i], m, Senses(B, i, m))
      BY <1>0
    <3>2. \A X \in {S, U} :
            \/ X \in Senses(B, i, m)
            \/ \E p \in Pos : \E W, V \in SUBSET Scopes : Ends(p, m, W, V) /\ X = Joint(op, W, V)
      <4> SUFFICES ASSUME NEW X \in SUBSET Scopes, <<i, m, X>> \in C
                   PROVE  \/ X \in Senses(B, i, m)
                          \/ \E p \in Pos : \E W, V \in SUBSET Scopes :
                               Ends(p, m, W, V) /\ X = Joint(op, W, V)
        OBVIOUS
      <4>1. <<i, m, X>> \in B \/ Joins(op, B, C, i, m, X)
        BY DEF Repeats
      <4> QED BY <4>1 DEF Joins, Senses
    <3>3. ASSUME NEW X \in Senses(B, i, m), NEW p \in Pos, NEW W \in SUBSET Scopes,
                 NEW V \in SUBSET Scopes, Ends(p, m, W, V)
          PROVE  FALSE
      <4>1. turn[0].ok /\ turn[0].at = m
        BY <1>1, <3>1 DEF Reads
      <4>2. p \in Nat /\ m \in Nat /\ p + 1 < m /\ \E k \in 0..N : turn[k].ok /\ turn[k].at = p
        <5> HIDE DEF Ends
        <5> QED BY <1>8, <3>3
      <4>3. PICK k \in 0..N : turn[k].ok /\ turn[k].at = p
        BY <4>2
      <4>4. turn[0].at <= p
        <5>1. 0 \in 0..k
          BY <1>0
        <5> QED BY <1>7, <3>3, <4>3, <5>1
      <4> QED BY <4>1, <4>2, <4>4
    <3>4. CASE S \in Senses(B, i, m) /\ U \in Senses(B, i, m)
      BY <3>1, <3>4 DEF Reads
    <3>5. ASSUME NEW p \in Pos, NEW W \in SUBSET Scopes, NEW V \in SUBSET Scopes, Ends(p, m, W, V),
                 NEW q \in Pos, NEW X \in SUBSET Scopes, NEW Y \in SUBSET Scopes, Ends(q, m, X, Y)
          PROVE  Joint(op, W, V) = Joint(op, X, Y)
      <4>1. ~(p < q) /\ ~(q < p)
        <5> HIDE DEF Ends
        <5> QED BY <1>9, <3>5
      <4>2. /\ p \in Nat /\ q \in Nat /\ m \in Nat /\ i < p /\ p + 1 < m
            /\ Reads(f[p + 1], m, Senses(B, p + 1, m))
            /\ V \in Senses(B, p + 1, m) /\ Y \in Senses(B, q + 1, m)
        <5> HIDE DEF Ends
        <5> QED BY <1>8, <3>5
      <4>3. p = q
        BY <4>1, <4>2
      <4>4. V = Y
        BY <4>2, <4>3 DEF Reads
      <4>5. W = X
        <5>1. p <= i + n
          BY <1>0, <4>2
        <5> QED BY <2>2, <3>5, <4>3, <5>1
      <4> QED BY <4>4, <4>5
    <3> HIDE DEF Ends, T
    <3> QED BY <3>2, <3>3, <3>4, <3>5
  <2>3. Nat \subseteq T
    <3> HIDE DEF T
    <3> QED BY <2>1, <2>2, SetInduction
  <2>4. ASSUME NEW S \in Senses(C, i, b), NEW U \in Senses(C, i, b) PROVE S = U
    <3>1. /\ S \in SUBSET Scopes /\ U \in SUBSET Scopes
          /\ <<i, b, S>> \in C /\ <<i, b, U>> \in C
      BY <2>4 DEF Senses
    <3>2. b \in Nat /\ i < b
      BY <1>0, <1>2, <3>1
    <3>3. b - i \in Nat /\ b <= i + (b - i)
      BY <1>0, <3>2
    <3> QED BY <1>10, <2>3, <3>1, <3>3
  <2> QED BY <2>4
<1>11. SUFFICES ASSUME NEW b \in Pos, Peek(b) \in F \ {op}
               PROVE  Reads(Chain(op, f, i), b, Senses(C, i, b))
  OBVIOUS
<1>12. N \in 0..N
  BY <1>0
<1>13. turn[N].ok /\ turn[N].at = b =>
        Senses(C, i, b) # {} /\ (turn[N].value = "throws" => UnknownWords # {})
  BY <1>5, <1>11, <1>12 DEF Senses
<1>14. ASSUME NEW S \in Senses(C, i, b)
       PROVE  turn[N].ok /\ turn[N].at = b /\ Meant(turn[N].value, S)
  <2>1. PICK k \in 0..N : turn[k].ok /\ turn[k].at = b /\ Meant(turn[k].value, S)
    BY <1>6, <1>11, <1>14 DEF Senses
  <2>2. turn[N] = turn[k]
    BY <1>1, <1>11, <2>1, ConnectiveMark, TurnStays DEF N
  <2> QED BY <2>1, <2>2
<1>15. \A S, U \in Senses(C, i, b) : S = U
  BY <1>10, <1>11
<1> QED BY <1>1, <1>13, <1>14, <1>15 DEF Reads

-----------------------------------------------------------------------------
(* Lists *)

\* Items, without the strings
CommaAt(i) == Peek(i) = ","

NoComma(a, b) == \A i \in a..b - 1 : ~CommaAt(i)

Commas(a, b) == {a - 1, b} \cup {i \in a..b - 1 : CommaAt(i)}

NextTo(K, p, q) == p \in K /\ q \in K /\ p < q /\ \A i \in K : ~(p < i /\ i < q)

LEMMA ItemsAre ==
  ASSUME NEW a, NEW b
  PROVE  \A z : z \in Items(a, b) <=> \E p, q : NextTo(Commas(a, b), p, q) /\ z = <<p + 1, q>>
<1> DEFINE K == Commas(a, b)
           pairs == {p \in K \X K : p[1] < p[2] /\ \A i \in K : ~(p[1] < i /\ i < p[2])}
<1>1. Items(a, b) = {<<p[1] + 1, p[2]>> : p \in pairs}
  BY DEF Items, Commas, CommaAt
<1>2. \A p, q : <<p, q>> \in pairs <=> NextTo(K, p, q)
  <2> HIDE DEF K
  <2> QED BY DEF NextTo
<1>3. \A p \in pairs : p = <<p[1], p[2]>>
  <2> HIDE DEF K
  <2> QED OBVIOUS
<1> HIDE DEF K, pairs
<1>4. ASSUME NEW z \in Items(a, b) PROVE \E p, q : NextTo(K, p, q) /\ z = <<p + 1, q>>
  <2>1. PICK p \in pairs : z = <<p[1] + 1, p[2]>>
    BY <1>1, <1>4
  <2>2. <<p[1], p[2]>> \in pairs
    BY <1>3, <2>1
  <2> QED BY <1>2, <2>1, <2>2
<1>5. ASSUME NEW p, NEW q, NextTo(K, p, q) PROVE <<p + 1, q>> \in Items(a, b)
  <2>1. <<p, q>> \in pairs
    BY <1>2, <1>5
  <2>2. <<p, q>>[1] = p /\ <<p, q>>[2] = q
    OBVIOUS
  <2> QED BY <1>1, <2>1, <2>2
<1> QED BY <1>4, <1>5 DEF K

\* The items of a list without a comma, and those of a list with one.
LEMMA ItemsOne ==
  ASSUME NEW a \in Nat, NEW b \in Nat, a <= b, NoComma(a, b)
  PROVE  Items(a, b) = {<<a, b>>}
<1>1. Commas(a, b) = {a - 1, b}
  BY DEF Commas, NoComma
<1>2. \A p, q : NextTo({a - 1, b}, p, q) <=> p = a - 1 /\ q = b
  BY DEF NextTo
<1>3. (a - 1) + 1 = a
  OBVIOUS
<1>4. \A z : z \in Items(a, b) <=> z = <<a, b>>
  BY <1>1, <1>2, <1>3, ItemsAre
<1> QED BY <1>4

LEMMA ItemsMore ==
  ASSUME NEW a \in Nat, NEW b \in Nat, NEW m \in a..b - 1, CommaAt(m),
         NoComma(m + 1, b)
  PROVE  Items(a, b) = Items(a, m) \cup {<<m + 1, b>>}
<1> DEFINE K == Commas(a, m)
<1>1. Commas(a, b) = K \cup {b} /\ m \in K /\ K \subseteq Int
  <2>1. \A i : i \in a..b - 1 /\ CommaAt(i) <=> i = m \/ (i \in a..m - 1 /\ CommaAt(i))
    <3>1. \A i \in a..b - 1 : i = m \/ i \in a..m - 1 \/ i \in m + 1..b - 1
      OBVIOUS
    <3>2. \A i \in a..m - 1 : i \in a..b - 1
      OBVIOUS
    <3> QED BY <3>1, <3>2 DEF NoComma
  <2>2. {i \in a..b - 1 : CommaAt(i)} = {m} \cup {i \in a..m - 1 : CommaAt(i)}
    BY <2>1
  <2> QED BY <2>2 DEF Commas
<1>2. \A i \in K : i <= m
  BY DEF Commas
<1> HIDE DEF K
<1>3. m < b /\ m \in Nat
  OBVIOUS
<1>4. \A p, q : NextTo(K \cup {b}, p, q) <=> NextTo(K, p, q) \/ (p = m /\ q = b)
  <2> SUFFICES ASSUME NEW p, NEW q
               PROVE  NextTo(K \cup {b}, p, q) <=> NextTo(K, p, q) \/ (p = m /\ q = b)
    OBVIOUS
  <2>1. ASSUME NextTo(K \cup {b}, p, q) PROVE NextTo(K, p, q) \/ (p = m /\ q = b)
    <3>1. p \in K
      BY <1>1, <1>2, <1>3, <2>1 DEF NextTo
    <3>2. CASE q = b
      <4>1. p <= m /\ ~(p < m /\ m < b) /\ p \in Int
        BY <1>1, <1>2, <2>1, <3>1, <3>2 DEF NextTo
      <4> QED BY <1>3, <3>2, <4>1
    <3>3. CASE q # b
      BY <2>1, <3>1, <3>3 DEF NextTo
    <3> QED BY <3>2, <3>3
  <2>2. ASSUME NextTo(K, p, q) PROVE NextTo(K \cup {b}, p, q)
    <3>1. q \in Int /\ q <= m /\ p \in Int
      BY <1>1, <1>2, <2>2 DEF NextTo
    <3> QED BY <1>3, <2>2, <3>1 DEF NextTo
  <2>3. NextTo(K \cup {b}, m, b)
    BY <1>1, <1>2, <1>3 DEF NextTo
  <2> QED BY <2>1, <2>2, <2>3
<1>5. \A z : z \in Items(a, b) <=> z \in Items(a, m) \/ z = <<m + 1, b>>
  <2>1. \A z : z \in Items(a, b) <=> \E p, q : NextTo(K \cup {b}, p, q) /\ z = <<p + 1, q>>
    BY <1>1, ItemsAre
  <2>2. \A z : z \in Items(a, m) <=> \E p, q : NextTo(K, p, q) /\ z = <<p + 1, q>>
    BY ItemsAre DEF K
  <2> QED BY <1>4, <2>1, <2>2
<1> QED BY <1>5

\* The last of some numbers.
LEMMA LastOf ==
  ASSUME NEW a \in Nat, NEW b \in Nat, NEW K, K \subseteq a..b, K # {}
  PROVE  \E m \in K : \A i \in K : i <= m
<1> DEFINE T == {b - i : i \in K}
<1>1. T \subseteq Nat /\ T # {}
  OBVIOUS
<1>2. PICK n \in T : \A k \in T : n <= k
  <2> HIDE DEF T
  <2> QED BY <1>1, LeastNat
<1>3. PICK m \in K : n = b - m
  OBVIOUS
<1>4. \A i \in K : b - m <= b - i
  BY <1>2, <1>3
<1> QED BY <1>4

\* The scopes in which two terms are equal.
Equal(a, m, c, d) == {val \in Scopes : TermMeans(c, d, val) = TermMeans(a, m, val)}

\* What a term of a list says, and what a list says, when the term a..m - 1 is looked for.
ItemPhrases(a, m) == {p \in Pos \X Pos \X SUBSET Scopes :
                        IsTerm(p[1], p[2]) /\ p[3] = Equal(a, m, p[1], p[2])}
ListPhrases(a, m) == {p \in Pos \X Pos \X SUBSET Scopes :
                        p[1] < p[2] /\ IsList(p[1], p[2]) /\ p[3] = Listed(a, m, p[1], p[2])}

LEMMA PhrasesAre ==
  ASSUME NEW a, NEW m
  PROVE  \A c, d \in Pos : \A S \in SUBSET Scopes :
           /\ <<c, d, S>> \in ItemPhrases(a, m) <=> IsTerm(c, d) /\ S = Equal(a, m, c, d)
           /\ <<c, d, S>> \in ListPhrases(a, m) <=>
                c < d /\ IsList(c, d) /\ S = Listed(a, m, c, d)
BY DEF ItemPhrases, ListPhrases

\* A term, as a phrase of a list
LEMMA TermNoComma ==
  ASSUME CondTypeOK, NEW a \in Nat, NEW b, IsTerm(a, b)
  PROVE  NoComma(a, b) /\ a < b /\ a \in Pos /\ b \in Pos
BY TermIs DEF NoComma, CommaAt

\* A list of one term, and a list of more.
LEMMA ListOne ==
  ASSUME CondTypeOK, NEW c \in Pos, NEW d \in Pos, c < d, NoComma(c, d), NEW a, NEW m
  PROVE  /\ IsList(c, d) <=> IsTerm(c, d)
         /\ Listed(a, m, c, d) = Equal(a, m, c, d)
<1>1. c \in Nat /\ d \in Nat
  BY TokenTypes DEF Pos
<1>2. Items(c, d) = {<<c, d>>}
  BY <1>1, ItemsOne
<1>3. \A item \in Items(c, d) : item[1] = c /\ item[2] = d
  BY <1>2
<1>4. IsList(c, d) <=> IsTerm(c, d)
  BY <1>1, <1>2, <1>3 DEF IsList
<1>5. Listed(a, m, c, d) = Equal(a, m, c, d)
  <2>1. \A val : (\E item \in Items(c, d) : TermMeans(item[1], item[2], val) = TermMeans(a, m, val))
                   <=> TermMeans(c, d, val) = TermMeans(a, m, val)
    BY <1>2, <1>3
  <2> QED BY <2>1 DEF Listed, Equal
<1> QED BY <1>4, <1>5

LEMMA ListMore ==
  ASSUME CondTypeOK, NEW c \in Pos, NEW d \in Pos, NEW l \in Pos, c <= l, l < d, CommaAt(l),
         NoComma(l + 1, d), NEW a, NEW m
  PROVE  /\ IsList(c, d) <=> c < l /\ IsList(c, l) /\ IsTerm(l + 1, d)
         /\ c < l => Listed(a, m, c, d) = Listed(a, m, c, l) \cup Equal(a, m, l + 1, d)
<1>1. c \in Nat /\ d \in Nat /\ l \in Nat /\ l \in c..d - 1
  BY TokenTypes DEF Pos
<1>2. Items(c, d) = Items(c, l) \cup {<<l + 1, d>>}
  BY <1>1, ItemsMore
<1>3. <<l + 1, d>>[1] = l + 1 /\ <<l + 1, d>>[2] = d
  OBVIOUS
<1>4. IsList(c, d) <=> (\A item \in Items(c, l) : IsTerm(item[1], item[2])) /\ IsTerm(l + 1, d)
  <2>1. c # d
    BY <1>1
  <2>2. IsList(c, d) <=> \A item \in Items(c, d) : IsTerm(item[1], item[2])
    BY <2>1 DEF IsList
  <2> QED BY <1>2, <1>3, <2>2
<1>5. CASE c < l
  <2>1. IsList(c, l) <=> \A item \in Items(c, l) : IsTerm(item[1], item[2])
    BY <1>1, <1>5 DEF IsList
  <2>2. \A val : (\E item \in Items(c, d) : TermMeans(item[1], item[2], val) = TermMeans(a, m, val))
               <=> \/ \E item \in Items(c, l) : TermMeans(item[1], item[2], val) = TermMeans(a, m, val)
                   \/ TermMeans(l + 1, d, val) = TermMeans(a, m, val)
    BY <1>2, <1>3
  <2>3. Listed(a, m, c, d) = Listed(a, m, c, l) \cup Equal(a, m, l + 1, d)
    BY <1>1, <1>5, <2>2 DEF Listed, Equal
  <2> QED BY <1>4, <1>5, <2>1, <2>3
<1>6. CASE ~(c < l)
  <2>1. c = l /\ NoComma(c, c)
    BY <1>1, <1>6 DEF NoComma
  <2>2. Items(c, c) = {<<c, c>>}
    BY <1>1, <2>1, ItemsOne
  <2>3. ~IsTerm(c, c)
    BY <1>1, TermNoComma
  <2>4. ~(\A item \in Items(c, c) : IsTerm(item[1], item[2]))
    BY <2>2, <2>3
  <2> QED BY <1>1, <1>4, <1>6, <2>1, <2>4
<1> QED BY <1>5, <1>6

\* A list is a term, and more terms behind commas.
LEMMA ListRepeats ==
  ASSUME CondTypeOK, NEW a, NEW m
  PROVE  Repeats(",", ItemPhrases(a, m), ListPhrases(a, m))
<1> DEFINE f == ItemPhrases(a, m)
           g == ListPhrases(a, m)
           comma == ","
<1>a. \A i : CommaAt(i) <=> Peek(i) = comma
  BY DEF CommaAt
<1>b. \A S, T : Joint(comma, S, T) = S \cup T
  BY Zenon DEF Joint
<1>c. \A x, y \in Pos : \A T \in SUBSET Scopes :
        /\ <<x, y, T>> \in f <=> IsTerm(x, y) /\ T = Equal(a, m, x, y)
        /\ <<x, y, T>> \in g <=> x < y /\ IsList(x, y) /\ T = Listed(a, m, x, y)
  BY PhrasesAre
<1> HIDE DEF comma
<1> SUFFICES ASSUME NEW c \in Pos, NEW d \in Pos, NEW S \in SUBSET Scopes
             PROVE  /\ <<c, d, S>> \in g <=> <<c, d, S>> \in f \/ Joins(comma, f, g, c, d, S)
                    /\ <<c, d, S>> \in g => c < d
  BY DEF Repeats, comma
<1> HIDE DEF f, g
<1>0. c \in Nat /\ d \in Nat /\ \A l \in Pos : l \in Nat
  BY TokenTypes DEF Pos
<1>1. <<c, d, S>> \in g => c < d
  BY <1>c
<1>2. ASSUME <<c, d, S>> \in f PROVE <<c, d, S>> \in g
  <2>1. IsTerm(c, d) /\ S = Equal(a, m, c, d)
    BY <1>2, <1>c
  <2>2. NoComma(c, d) /\ c < d
    BY <1>0, <2>1, TermNoComma
  <2> QED BY <2>1, <2>2, ListOne, <1>c
<1>3. ASSUME Joins(comma, f, g, c, d, S) PROVE <<c, d, S>> \in g
  <2>1. PICK l \in Pos, T \in SUBSET Scopes, V \in SUBSET Scopes :
          /\ <<c, l, T>> \in g /\ Peek(l) = comma /\ <<l + 1, d, V>> \in f
          /\ S = Joint(comma, T, V)
    BY <1>3 DEF Joins
  <2>2. l + 1 \in Pos /\ CommaAt(l)
    <3>1. CommaAt(l)
      BY <1>a, <2>1
    <3>2. Peek(l) # "end"
      BY <3>1, Zenon DEF CommaAt
    <3> QED BY <3>1, <3>2, PlaceOf
  <2>3. /\ c < l /\ IsList(c, l) /\ T = Listed(a, m, c, l)
        /\ IsTerm(l + 1, d) /\ V = Equal(a, m, l + 1, d)
    BY <2>1, <2>2, <1>c
  <2>4. NoComma(l + 1, d) /\ l + 1 < d
    BY <1>0, <2>2, <2>3, TermNoComma
  <2>5. c <= l /\ l < d /\ c < d
    BY <1>0, <2>3, <2>4
  <2>6. IsList(c, d) /\ Listed(a, m, c, d) = T \cup V
    BY <2>2, <2>3, <2>4, <2>5, ListMore
  <2>7. S = Listed(a, m, c, d)
    BY <1>b, <2>1, <2>6
  <2> QED BY <1>c, <2>5, <2>6, <2>7
<1>4. ASSUME <<c, d, S>> \in g PROVE <<c, d, S>> \in f \/ Joins(comma, f, g, c, d, S)
  <2>1. c < d /\ IsList(c, d) /\ S = Listed(a, m, c, d)
    BY <1>4, <1>c
  <2>2. CASE NoComma(c, d)
    BY <2>1, <2>2, ListOne, <1>c
  <2>3. CASE ~NoComma(c, d)
    <3> DEFINE K == {i \in c..d - 1 : CommaAt(i)}
    <3>1. K \subseteq c..d /\ K # {}
      BY <1>0, <2>3 DEF NoComma
    <3>2. PICK l \in K : \A i \in K : i <= l
      <4> HIDE DEF K
      <4> QED BY <1>0, <3>1, LastOf
    <3>3. l \in Pos /\ l + 1 \in Pos /\ c <= l /\ l < d /\ CommaAt(l) /\ l \in Nat
      BY <1>0, TokenTypes DEF Pos
    <3>4. NoComma(l + 1, d)
      <4> SUFFICES ASSUME NEW i \in l + 1..d - 1, CommaAt(i) PROVE FALSE
        BY DEF NoComma
      <4>1. i \in K
        BY <1>0, <3>3
      <4> QED BY <1>0, <3>2, <3>3, <4>1
    <3>5. c < l /\ IsList(c, l) /\ IsTerm(l + 1, d)
      BY <2>1, <3>3, <3>4, ListMore
    <3>6. S = Listed(a, m, c, l) \cup Equal(a, m, l + 1, d)
      BY <2>1, <3>3, <3>4, <3>5, ListMore
    <3>7. /\ Listed(a, m, c, l) \in SUBSET Scopes /\ Equal(a, m, l + 1, d) \in SUBSET Scopes
          /\ <<c, l, Listed(a, m, c, l)>> \in g /\ <<l + 1, d, Equal(a, m, l + 1, d)>> \in f
      <4>1. Listed(a, m, c, l) \in SUBSET Scopes /\ Equal(a, m, l + 1, d) \in SUBSET Scopes
        BY DEF Listed, Equal
      <4> QED BY <3>3, <3>5, <4>1, <1>c
    <3> QED BY <1>a, <1>b, <3>3, <3>6, <3>7 DEF Joins
  <2> QED BY <2>2, <2>3
<1> QED BY <1>1, <1>2, <1>3, <1>4

-----------------------------------------------------------------------------
(* Comparisons *)

\* What is parsed as a term of a list is one.
LEMMA ItemRead ==
  ASSUME CondTypeOK, NEW a \in Nat, NEW m, NEW v \in Outcome, Known(v, a, m),
         NEW j \in Pos
  PROVE  /\ ParseItem(v, j) \in Result
         /\ ParseItem(v, j).ok => Peek(j) \in Word \cup Literal
         /\ \A b \in Pos : Peek(b) # "(" =>
              Reads(ParseItem(v, j), b, Senses(ItemPhrases(a, m), j, b))
<1> DEFINE t == ParseTerm(j)
           r == ParseItem(v, j)
           eq == "=="
<1>0. t \in Result /\ t.value \in Outcome
  BY TermParses DEF Result
<1>1. r = [t EXCEPT !.value = Compared(eq, v, @)]
  BY DEF ParseItem
<1> HIDE DEF eq
<1>2. Compared(eq, v, t.value) \in Outcome
  BY <1>0, ValueTypes
<1>3. r \in Result /\ r.ok = t.ok /\ r.at = t.at /\ r.value = Compared(eq, v, t.value)
  BY <1>0, <1>1, <1>2 DEF Result
<1>4. /\ Compared(eq, v, t.value) = "throws" <=> v = "throws" \/ t.value = "throws"
      /\ Compared(eq, v, t.value) # "throws" => (Truthy(Compared(eq, v, t.value)) <=> v = t.value)
  BY ValueTypes DEF Compared, Bool, eq
<1> HIDE DEF r
<1>5. ASSUME NEW b \in Pos, Peek(b) # "("
      PROVE  Reads(r, b, Senses(ItemPhrases(a, m), j, b))
  <2>1. /\ t.ok /\ t.at = b <=> IsTerm(j, b)
        /\ IsTerm(j, b) => Known(t.value, j, b)
    BY <1>5, TermRead
  <2>2. Equal(a, m, j, b) \in SUBSET Scopes
    BY DEF Equal
  <2>3. \A S : S \in Senses(ItemPhrases(a, m), j, b) <=> IsTerm(j, b) /\ S = Equal(a, m, j, b)
    BY <2>2, PhrasesAre DEF Senses
  <2>4. ASSUME r.ok, r.at = b
        PROVE  /\ Senses(ItemPhrases(a, m), j, b) # {}
               /\ r.value = "throws" => UnknownWords # {}
    BY <1>3, <1>4, <2>1, <2>3, <2>4 DEF Known
  <2>5. ASSUME IsTerm(j, b) PROVE r.ok /\ r.at = b /\ Meant(r.value, Equal(a, m, j, b))
    <3>1. CASE v = "throws" \/ t.value = "throws"
      BY <1>3, <1>4, <2>1, <2>5, <3>1 DEF Meant
    <3>2. CASE v # "throws" /\ t.value # "throws"
      <4>1. \A val \in Scopes : TermMeans(j, b, val) = t.value /\ TermMeans(a, m, val) = v
        BY <2>1, <2>5, <3>2 DEF Known
      <4>2. Equal(a, m, j, b) = IF v = t.value THEN Scopes ELSE {}
        BY <4>1 DEF Equal
      <4> QED BY <1>3, <1>4, <2>1, <2>5, <3>2, <4>2 DEF Meant
    <3> QED BY <3>1, <3>2
  <2> QED BY <2>3, <2>4, <2>5 DEF Reads
<1>6. r.ok => Peek(j) \in Word \cup Literal
  BY <1>3, TermParses
<1> QED BY <1>3, <1>5, <1>6 DEF r

OpenAt(i) == Peek(i) = "["
CloseAt(i) == Peek(i) = "]"

\* The terms of a list, from i on.
ListAt(v, i) == Chain(",", [j \in Pos |-> ParseItem(v, j)], i)

LEMMA InIs ==
  ASSUME NEW v, NEW i
  PROVE  /\ ~OpenAt(i) => ParseIn(v, i) = Throws(i)
         /\ OpenAt(i) /\ CloseAt(i + 1) =>
              ParseIn(v, i) = Parsed(IF v = "throws" THEN v ELSE "false", i + 2)
         /\ OpenAt(i) /\ ~CloseAt(i + 1) =>
              /\ ~ListAt(v, i + 1).ok => ParseIn(v, i) = ListAt(v, i + 1)
              /\ ListAt(v, i + 1).ok =>
                   ParseIn(v, i) = IF CloseAt(ListAt(v, i + 1).at)
                                   THEN Parsed(ListAt(v, i + 1).value, ListAt(v, i + 1).at + 1)
                                   ELSE Throws(ListAt(v, i + 1).at)
<1>1. ~OpenAt(i) => ParseIn(v, i) = Throws(i)
  BY Zenon DEF ParseIn, OpenAt
<1>2. OpenAt(i) /\ CloseAt(i + 1) =>
              ParseIn(v, i) = Parsed(IF v = "throws" THEN v ELSE "false", i + 2)
  BY Zenon DEF ParseIn, OpenAt, CloseAt
<1>3. OpenAt(i) /\ ~CloseAt(i + 1) /\ ~ListAt(v, i + 1).ok => ParseIn(v, i) = ListAt(v, i + 1)
  BY Zenon DEF ParseIn, OpenAt, CloseAt, ListAt
<1>4. OpenAt(i) /\ ~CloseAt(i + 1) /\ ListAt(v, i + 1).ok =>
        ParseIn(v, i) = IF CloseAt(ListAt(v, i + 1).at)
                        THEN Parsed(ListAt(v, i + 1).value, ListAt(v, i + 1).at + 1)
                        ELSE Throws(ListAt(v, i + 1).at)
  BY Zenon DEF ParseIn, OpenAt, CloseAt, ListAt, Expect
<1> QED BY <1>1, <1>2, <1>3, <1>4

\* The list in the brackets, where it is not empty.
LEMMA ListRead ==
  ASSUME CondTypeOK, NEW a \in Nat, NEW m, NEW v \in Outcome, Known(v, a, m), NEW i \in Pos
  PROVE  /\ ListAt(v, i) \in Result
         /\ ListAt(v, i).ok => Peek(i) \in Word \cup Literal
         /\ \A b \in Pos : CloseAt(b) =>
              /\ ListAt(v, i).ok /\ ListAt(v, i).at = b =>
                   i < b /\ IsList(i, b) /\ (ListAt(v, i).value = "throws" => UnknownWords # {})
              /\ i < b /\ IsList(i, b) =>
                   /\ ListAt(v, i).ok /\ ListAt(v, i).at = b
                   /\ Meant(ListAt(v, i).value, Listed(a, m, i, b))
<1> DEFINE f == [j \in Pos |-> ParseItem(v, j)]
           F == {",", "]"}
           comma == ","
<1>1. f \in [Pos -> Result] /\ (f[i].ok => Peek(i) \in Word \cup Literal)
  BY ItemRead
<1>2. ASSUME NEW j \in Pos, NEW b \in Pos, Peek(b) \in F
      PROVE  Reads(f[j], b, Senses(ItemPhrases(a, m), j, b))
  <2>1. Peek(b) # "("
    BY <1>2
  <2> QED BY <2>1, ItemRead
<1>3. comma \in Connective /\ comma \in F /\ Repeats(comma, ItemPhrases(a, m), ListPhrases(a, m))
  BY ListRepeats DEF Connective
<1>4. ListAt(v, i) = Chain(comma, f, i)
  BY DEF ListAt
<1>5. \A b : CloseAt(b) => Peek(b) \in F \ {comma}
  BY DEF CloseAt
<1> HIDE DEF f, F, comma
<1>6. ListAt(v, i) \in Result /\ (ListAt(v, i).ok => f[i].ok)
  BY <1>1, <1>3, <1>4, ChainStays
<1>7. \A b \in Pos : Peek(b) \in F \ {comma} =>
        Reads(Chain(comma, f, i), b, Senses(ListPhrases(a, m), i, b))
  BY <1>1, <1>2, <1>3, ChainReads
<1>8. ASSUME NEW b \in Pos, CloseAt(b)
      PROVE  Reads(ListAt(v, i), b, Senses(ListPhrases(a, m), i, b))
  BY <1>4, <1>5, <1>7, <1>8
<1>9. ASSUME NEW b \in Pos
      PROVE  \A S : S \in Senses(ListPhrases(a, m), i, b) <=>
                      i < b /\ IsList(i, b) /\ S = Listed(a, m, i, b)
  <2>1. Listed(a, m, i, b) \in SUBSET Scopes
    BY DEF Listed
  <2> QED BY <2>1, PhrasesAre DEF Senses
<1> QED BY <1>1, <1>6, <1>8, <1>9 DEF Reads

\* So ParseIn reads lists in brackets, the empty one included.
LEMMA InRead ==
  ASSUME CondTypeOK, NEW a \in Nat, NEW m \in Nat, m + 1 \in Pos, Peek(m) = "in",
         NEW v \in Outcome, Known(v, a, m)
  PROVE  /\ ParseIn(v, m + 1) \in Result
         /\ \A b \in Pos :
              /\ ParseIn(v, m + 1).ok /\ ParseIn(v, m + 1).at = b =>
                   IsIn(m, b) /\ (ParseIn(v, m + 1).value = "throws" => UnknownWords # {})
              /\ IsIn(m, b) => /\ ParseIn(v, m + 1).ok /\ ParseIn(v, m + 1).at = b
                               /\ Meant(ParseIn(v, m + 1).value, Listed(a, m, m + 2, b - 1))
<1> DEFINE r == ParseIn(v, m + 1)
           l == ListAt(v, m + 2)
<1>0. (m + 1) + 1 = m + 2 /\ (m + 1) + 2 = m + 3
  OBVIOUS
<1>1. \A b : IsIn(m, b) <=> OpenAt(m + 1) /\ CloseAt(b - 1) /\ m + 2 < b /\ IsList(m + 2, b - 1)
  BY Zenon DEF IsIn, OpenAt, CloseAt
<1>2. \A i : OpenAt(i) \/ CloseAt(i) => i \in Pos /\ i + 1 \in Pos /\ i \in Nat
  <2>1. \A i : OpenAt(i) \/ CloseAt(i) => Peek(i) # "end"
    BY Zenon DEF OpenAt, CloseAt
  <2> QED BY <2>1, PlaceOf
<1>3. \A i : CloseAt(i) => Peek(i) \notin Word \cup Literal
  <2>1. "]" \notin Word \cup Literal
    BY MarkTypes DEF Mark
  <2> QED BY <2>1, Zenon DEF CloseAt
<1>b. \A b \in Pos : b \in Nat
  BY TokenTypes DEF Pos
<1> HIDE DEF r, l
<1>4. CASE ~OpenAt(m + 1)
  <2>1. r = Throws(m + 1)
    BY <1>4, InIs DEF r
  <2> QED BY <1>1, <1>4, <2>1, ThrowsType DEF r
<1>5. CASE OpenAt(m + 1) /\ CloseAt(m + 2)
  <2> DEFINE w == IF v = "throws" THEN v ELSE "false"
  <2>1. r = Parsed(w, m + 3)
    BY <1>0, <1>5, InIs DEF r
  <2>2. w \in Outcome /\ (w = "throws" => UnknownWords # {}) /\ Meant(w, {})
    BY ValueTypes DEF Known, Meant
  <2>3. m + 3 \in Pos
    <3>1. (m + 2) + 1 \in Pos /\ (m + 2) + 1 = m + 3
      BY <1>2, <1>5
    <3> QED BY <3>1
  <2> HIDE DEF w
  <2>4. r \in Result /\ r.ok = TRUE /\ r.at = m + 3 /\ r.value = w
    BY <2>1, <2>2, <2>3, ParsedType
  <2>5. IsIn(m, m + 3) /\ Listed(a, m, m + 2, (m + 3) - 1) = {}
    <3>1. (m + 3) - 1 = m + 2 /\ IsList(m + 2, m + 2) /\ m + 2 < m + 3
      BY DEF IsList
    <3>2. Listed(a, m, m + 2, m + 2) = {}
      BY DEF Listed
    <3> QED BY <1>1, <1>5, <3>1, <3>2
  <2>6. ASSUME NEW b \in Pos, IsIn(m, b) PROVE b = m + 3
    <3>1. CloseAt(b - 1) /\ m + 2 < b /\ IsList(m + 2, b - 1) /\ b \in Nat
      BY <1>1, <1>b, <2>6
    <3>2. ASSUME m + 2 < b - 1 PROVE FALSE
      <4>1. m + 2 \in Pos /\ b - 1 \in Pos
        BY <1>2, <1>5, <3>1
      <4>2. l.ok
        BY <3>1, <3>2, <4>1, ListRead DEF l
      <4>3. Peek(m + 2) \in Word \cup Literal
        BY <4>1, <4>2, ListRead DEF l
      <4> QED BY <1>3, <1>5, <4>3
    <3> QED BY <3>1, <3>2
  <2> QED BY <2>2, <2>4, <2>5, <2>6 DEF r
<1>6. CASE OpenAt(m + 1) /\ ~CloseAt(m + 2)
  <2>0. m + 2 \in Pos
    BY <1>0, <1>2, <1>6
  <2>1. /\ l \in Result
        /\ \A b \in Pos : CloseAt(b) =>
             /\ l.ok /\ l.at = b =>
                  m + 2 < b /\ IsList(m + 2, b) /\ (l.value = "throws" => UnknownWords # {})
             /\ m + 2 < b /\ IsList(m + 2, b) =>
                  l.ok /\ l.at = b /\ Meant(l.value, Listed(a, m, m + 2, b))
    BY <2>0, ListRead DEF l
  <2>2. l.at \in Pos /\ l.value \in Outcome /\ l.ok \in BOOLEAN
    BY <2>1 DEF Result
  <2>3. ASSUME NEW b \in Pos, IsIn(m, b)
        PROVE  /\ l.ok /\ l.at = b - 1 /\ CloseAt(b - 1)
               /\ Meant(l.value, Listed(a, m, m + 2, b - 1))
    <3>1. CloseAt(b - 1) /\ m + 2 < b /\ IsList(m + 2, b - 1) /\ b \in Nat
      BY <1>1, <1>b, <2>3
    <3>2. b - 1 \in Pos /\ m + 2 # b - 1
      BY <1>2, <1>6, <3>1
    <3>3. m + 2 < b - 1
      BY <3>1, <3>2
    <3> QED BY <2>1, <3>1, <3>2, <3>3
  <2>4. CASE ~l.ok
    <3>1. r = l
      BY <1>0, <1>6, <2>4, InIs DEF r, l
    <3> QED BY <2>1, <2>3, <2>4, <3>1 DEF r
  <2>5. CASE l.ok /\ ~CloseAt(l.at)
    <3>1. r = Throws(l.at)
      BY <1>0, <1>6, <2>5, InIs DEF r, l
    <3> QED BY <2>2, <2>3, <2>5, <3>1, ThrowsType DEF r
  <2>6. CASE l.ok /\ CloseAt(l.at)
    <3>1. r = Parsed(l.value, l.at + 1)
      BY <1>0, <1>6, <2>6, InIs DEF r, l
    <3>2. l.at + 1 \in Pos /\ l.at \in Nat
      BY <1>2, <2>6
    <3>3. r \in Result /\ r.ok = TRUE /\ r.at = l.at + 1 /\ r.value = l.value
      BY <2>2, <3>1, <3>2, ParsedType
    <3>4. ASSUME NEW b \in Pos, r.at = b
          PROVE  IsIn(m, b) /\ (r.value = "throws" => UnknownWords # {})
      <4>1. b - 1 = l.at /\ b \in Nat
        BY <1>b, <3>2, <3>3, <3>4
      <4>2. m + 2 < b - 1 /\ IsList(m + 2, b - 1) /\ (l.value = "throws" => UnknownWords # {})
        BY <2>1, <2>2, <2>6, <4>1
      <4>3. m + 2 < b
        BY <4>1, <4>2
      <4> QED BY <1>1, <1>6, <2>6, <3>3, <4>1, <4>2, <4>3
    <3>5. ASSUME NEW b \in Pos, IsIn(m, b)
          PROVE  r.ok /\ r.at = b /\ Meant(r.value, Listed(a, m, m + 2, b - 1))
      <4>1. l.at = b - 1 /\ Meant(l.value, Listed(a, m, m + 2, b - 1)) /\ b \in Nat
        BY <1>b, <2>3, <3>5
      <4>2. r.at = b
        BY <3>2, <3>3, <4>1
      <4> QED BY <3>3, <4>1, <4>2
    <3> QED BY <3>3, <3>4, <3>5 DEF r
  <2> QED BY <2>2, <2>4, <2>5, <2>6
<1> QED BY <1>4, <1>5, <1>6

OperatorAt(i) == Peek(i) \in {"==", "!="}
EqualityAt(i) == Peek(i) = "=="

Holds(a, b) == {val \in Scopes : Truthy(TermMeans(a, b, val))}
Related(a, m, b) == {val \in Scopes :
                       (TermMeans(a, m, val) = TermMeans(m + 1, b, val)) <=> EqualityAt(m)}

\* A comparison is a term, two with an operator between them, or one and a list.
LEMMA ComparisonsAre ==
  ASSUME CondTypeOK, NEW a \in Nat, NEW b \in Nat
  PROVE  \A S : S \in Comparisons(a, b) <=>
           \/ IsTerm(a, b) /\ S = Holds(a, b)
           \/ \E m : IsTerm(a, m) /\ OperatorAt(m) /\ IsTerm(m + 1, b) /\ S = Related(a, m, b)
           \/ \E m : IsTerm(a, m) /\ IsIn(m, b) /\ S = Listed(a, m, m + 2, b - 1)
<1> DEFINE after == {m \in {a + 1, a + 3} : IsTerm(a, m)}
<1>1. \A m : m \in after <=> IsTerm(a, m)
  BY DEF IsTerm
<1>2. Comparisons(a, b) =
        {Holds(a, m) : m \in {m \in after : m = b}}
        \cup {Related(a, m, b) : m \in {m \in after : OperatorAt(m) /\ IsTerm(m + 1, b)}}
        \cup {Listed(a, m, m + 2, b - 1) : m \in {m \in after : IsIn(m, b)}}
  BY DEF Comparisons, Holds, Related, OperatorAt, EqualityAt
<1> HIDE DEF after
<1> QED BY <1>1, <1>2

\* What parseCompare does, by what it parses first.
LEMMA ComparisonIs ==
  ASSUME CondTypeOK, NEW a, NEW left, left = ParseTerm(a), NEW right, right = ParseTerm(left.at + 1)
  PROVE  /\ ~left.ok => ParseComparison(a) = left
         /\ left.ok /\ OperatorAt(left.at) /\ ~right.ok => ParseComparison(a) = right
         /\ left.ok /\ OperatorAt(left.at) /\ right.ok =>
              ParseComparison(a) = Parsed(IF left.value = "throws" \/ right.value = "throws" THEN "throws"
                                          ELSE Bool((left.value = right.value) <=> EqualityAt(left.at)),
                                          right.at)
         /\ left.ok /\ Peek(left.at) = "in" => ParseComparison(a) = ParseIn(left.value, left.at + 1)
         /\ left.ok /\ ~OperatorAt(left.at) /\ Peek(left.at) # "in" => ParseComparison(a) = left
<1>1. ~left.ok => ParseComparison(a) = left
  BY DEF ParseComparison
<1>2. left.ok /\ OperatorAt(left.at) /\ ~right.ok => ParseComparison(a) = right
  BY DEF ParseComparison, OperatorAt
<1>3. left.ok /\ OperatorAt(left.at) /\ right.ok =>
        ParseComparison(a) = Parsed(Compared(Peek(left.at), left.value, right.value), right.at)
  BY DEF ParseComparison, OperatorAt
<1>4. Compared(Peek(left.at), left.value, right.value) =
        IF left.value = "throws" \/ right.value = "throws" THEN "throws"
        ELSE Bool((left.value = right.value) <=> EqualityAt(left.at))
  BY DEF Compared, EqualityAt
<1>5. left.ok /\ Peek(left.at) = "in" => ParseComparison(a) = ParseIn(left.value, left.at + 1)
  BY DEF ParseComparison
<1>6. left.ok /\ ~OperatorAt(left.at) /\ Peek(left.at) # "in" => ParseComparison(a) = left
  BY DEF ParseComparison, OperatorAt
<1> QED BY <1>1, <1>2, <1>3, <1>4, <1>5, <1>6

\* What may follow a unary phrase.
Follows == {"and", "or", ")", "end"}

\* parseCompare reads the comparisons of the grammar.
LEMMA ComparisonRead ==
  ASSUME CondTypeOK, NEW a \in Pos
  PROVE  /\ ParseComparison(a) \in Result
         /\ \A b \in Pos : Peek(b) \in Follows => Reads(ParseComparison(a), b, Comparisons(a, b))
<1> DEFINE r == ParseComparison(a)
           left == ParseTerm(a)
           m == left.at
           right == ParseTerm(m + 1)
           both == IF left.value = "throws" \/ right.value = "throws" THEN "throws"
                   ELSE Bool((left.value = right.value) <=> EqualityAt(m))
           opens(i) == Peek(i) = "("
<1>0. a \in Nat /\ \A b \in Pos : b \in Nat
  BY TokenTypes DEF Pos
<1>1. left \in Result /\ m \in Pos /\ left.value \in Outcome /\ left.ok \in BOOLEAN
  BY TermParses DEF Result
<1>2. \A i : /\ Peek(i) \in Follows => ~opens(i) /\ ~OperatorAt(i) /\ Peek(i) # "in"
             /\ OperatorAt(i) => ~opens(i) /\ Peek(i) # "in" /\ Peek(i) # "end"
             /\ Peek(i) = "in" => ~opens(i)
  BY Zenon DEF Follows, OperatorAt
<1>3. \A b : ~opens(b) =>
        /\ left.ok /\ m = b <=> IsTerm(a, b)
        /\ IsTerm(a, b) => Known(left.value, a, b)
  BY TermRead
<1>4. /\ ~left.ok => r = left
      /\ left.ok /\ OperatorAt(m) /\ ~right.ok => r = right
      /\ left.ok /\ OperatorAt(m) /\ right.ok => r = Parsed(both, right.at)
      /\ left.ok /\ Peek(m) = "in" => r = ParseIn(left.value, m + 1)
      /\ left.ok /\ ~OperatorAt(m) /\ Peek(m) # "in" => r = left
  BY ComparisonIs
<1>5. ASSUME OperatorAt(m)
      PROVE  /\ m + 1 \in Pos /\ right \in Result /\ right.value \in Outcome /\ right.at \in Pos
             /\ \A b : ~opens(b) =>
                  /\ right.ok /\ right.at = b <=> IsTerm(m + 1, b)
                  /\ IsTerm(m + 1, b) => Known(right.value, m + 1, b)
  <2>1. m + 1 \in Pos
    BY <1>2, <1>5, PlaceOf
  <2>2. right \in Result
    BY <2>1, TermParses
  <2>3. \A b : ~opens(b) =>
          /\ right.ok /\ right.at = b <=> IsTerm(m + 1, b)
          /\ IsTerm(m + 1, b) => Known(right.value, m + 1, b)
    BY <2>1, TermRead
  <2> QED BY <2>1, <2>2, <2>3 DEF Result
<1>6. both \in Outcome /\ (both = "throws" <=> left.value = "throws" \/ right.value = "throws")
      /\ (both # "throws" => (Truthy(both) <=> ((left.value = right.value) <=> EqualityAt(m))))
  BY ValueTypes DEF Bool, Outcome
<1>7. \A b \in Pos : \A S : S \in Comparisons(a, b) <=>
        \/ IsTerm(a, b) /\ S = Holds(a, b)
        \/ \E n : IsTerm(a, n) /\ OperatorAt(n) /\ IsTerm(n + 1, b) /\ S = Related(a, n, b)
        \/ \E n : IsTerm(a, n) /\ IsIn(n, b) /\ S = Listed(a, n, n + 2, b - 1)
  BY <1>0, ComparisonsAre
<1>8. \A n, b : IsIn(n, b) => Peek(n) = "in"
  BY DEF IsIn
<1>9. \A n : IsTerm(a, n) => n \in Pos
  BY <1>0, TermNoComma
<1> HIDE DEF r, left, right, both, opens
<1>10. ASSUME NEW b \in Pos, Peek(b) \in Follows, NEW S \in Comparisons(a, b)
       PROVE  /\ left.ok
              /\ \/ m = b /\ IsTerm(a, b) /\ S = Holds(a, b)
                 \/ OperatorAt(m) /\ IsTerm(m + 1, b) /\ S = Related(a, m, b)
                 \/ Peek(m) = "in" /\ IsIn(m, b) /\ S = Listed(a, m, m + 2, b - 1)
  <2>1. CASE IsTerm(a, b) /\ S = Holds(a, b)
    BY <1>2, <1>3, <1>10, <2>1
  <2>2. CASE \E n : IsTerm(a, n) /\ OperatorAt(n) /\ IsTerm(n + 1, b) /\ S = Related(a, n, b)
    BY <1>2, <1>3, <2>2
  <2>3. CASE \E n : IsTerm(a, n) /\ IsIn(n, b) /\ S = Listed(a, n, n + 2, b - 1)
    BY <1>2, <1>3, <1>8, <2>3
  <2> QED BY <1>7, <1>10, <2>1, <2>2, <2>3
<1>one. ASSUME NEW b \in Pos, Peek(b) \in Follows
      PROVE  \A S, T \in Comparisons(a, b) : S = T
  BY <1>2, <1>10, <1>one
<1>11. CASE ~left.ok
  <2>1. r = left
    BY <1>4, <1>11
  <2> QED BY <1>1, <1>10, <1>11, <2>1 DEF Reads, r
<1>12. CASE left.ok /\ OperatorAt(m)
  <2>1. IsTerm(a, m) /\ Known(left.value, a, m)
    BY <1>2, <1>3, <1>12
  <2>2. CASE ~right.ok
    <3>1. r = right
      BY <1>4, <1>12, <2>2
    <3>2. ASSUME NEW b \in Pos, Peek(b) \in Follows, NEW S \in Comparisons(a, b) PROVE FALSE
      BY <1>2, <1>5, <1>10, <1>12, <2>2, <3>2
    <3> QED BY <1>5, <1>12, <2>2, <3>1, <3>2 DEF Reads, r
  <2>3. CASE right.ok
    <3>1. r = Parsed(both, right.at)
      BY <1>4, <1>12, <2>3
    <3>2. r \in Result /\ r.ok = TRUE /\ r.at = right.at /\ r.value = both
      BY <1>5, <1>6, <1>12, <3>1, ParsedType
    <3>3. ASSUME NEW b \in Pos, Peek(b) \in Follows
          PROVE  Reads(r, b, Comparisons(a, b))
      <4>1. right.at = b <=> IsTerm(m + 1, b)
        BY <1>2, <1>5, <1>12, <2>3, <3>3
      <4>2. IsTerm(m + 1, b) => Known(right.value, m + 1, b)
        BY <1>2, <1>5, <1>12, <3>3
      <4>3. ASSUME r.at = b
            PROVE  Comparisons(a, b) # {} /\ (r.value = "throws" => UnknownWords # {})
        <5>1. Related(a, m, b) \in Comparisons(a, b)
          BY <1>7, <1>12, <2>1, <3>2, <4>1, <4>3
        <5> QED BY <1>6, <2>1, <3>2, <4>1, <4>2, <4>3, <5>1 DEF Known
      <4>4. ASSUME NEW S \in Comparisons(a, b) PROVE r.at = b /\ Meant(r.value, S)
        <5>1. IsTerm(m + 1, b) /\ S = Related(a, m, b)
          BY <1>2, <1>10, <1>12, <3>3, <4>4
        <5>2. CASE both = "throws"
          BY <3>2, <4>1, <5>1, <5>2 DEF Meant
        <5>3. CASE both # "throws"
          <6>1. \A val \in Scopes : /\ TermMeans(a, m, val) = left.value
                                    /\ TermMeans(m + 1, b, val) = right.value
            BY <1>6, <2>1, <4>2, <5>1, <5>3 DEF Known
          <6>2. Related(a, m, b) = IF (left.value = right.value) <=> EqualityAt(m) THEN Scopes ELSE {}
            BY <6>1 DEF Related
          <6> QED BY <1>6, <3>2, <4>1, <5>1, <5>3, <6>2 DEF Meant
        <5> QED BY <5>2, <5>3
      <4> QED BY <1>one, <3>2, <3>3, <4>3, <4>4 DEF Reads
    <3> QED BY <3>2, <3>3 DEF r
  <2> QED BY <2>2, <2>3
<1>13. CASE left.ok /\ Peek(m) = "in"
  <2>1. IsTerm(a, m) /\ Known(left.value, a, m)
    BY <1>2, <1>3, <1>13
  <2>2. r = ParseIn(left.value, m + 1)
    BY <1>4, <1>13
  <2>3. m \in Nat /\ m + 1 \in Pos
    BY <1>0, <1>1, <1>13, PlaceOf
  <2>4. /\ r \in Result
        /\ \A b \in Pos :
             /\ r.ok /\ r.at = b => IsIn(m, b) /\ (r.value = "throws" => UnknownWords # {})
             /\ IsIn(m, b) => r.ok /\ r.at = b /\ Meant(r.value, Listed(a, m, m + 2, b - 1))
    BY <1>0, <1>1, <1>13, <2>1, <2>2, <2>3, InRead
  <2>5. ASSUME NEW b \in Pos, Peek(b) \in Follows
        PROVE  Reads(r, b, Comparisons(a, b))
    <3>1. ASSUME r.ok, r.at = b
          PROVE  Comparisons(a, b) # {} /\ (r.value = "throws" => UnknownWords # {})
      <4>1. Listed(a, m, m + 2, b - 1) \in Comparisons(a, b)
        BY <1>7, <2>1, <2>4, <3>1
      <4> QED BY <2>4, <3>1, <4>1
    <3>2. ASSUME NEW S \in Comparisons(a, b) PROVE r.ok /\ r.at = b /\ Meant(r.value, S)
      <4>1. IsIn(m, b) /\ S = Listed(a, m, m + 2, b - 1)
        BY <1>2, <1>10, <1>13, <2>5, <3>2
      <4> QED BY <2>4, <4>1
    <3> QED BY <1>one, <2>5, <3>1, <3>2 DEF Reads
  <2> QED BY <2>4, <2>5 DEF r
<1>14. CASE left.ok /\ ~OperatorAt(m) /\ Peek(m) # "in"
  <2>1. r = left
    BY <1>4, <1>14
  <2>2. ASSUME NEW b \in Pos, Peek(b) \in Follows
        PROVE  Reads(r, b, Comparisons(a, b))
    <3>1. /\ m = b <=> IsTerm(a, b)
          /\ IsTerm(a, b) => Known(left.value, a, b)
      BY <1>2, <1>3, <1>14, <2>2
    <3>2. m = b => Holds(a, b) \in Comparisons(a, b)
      BY <1>7, <3>1
    <3>3. ASSUME NEW S \in Comparisons(a, b) PROVE m = b /\ Meant(left.value, S)
      <4>1. IsTerm(a, b) /\ S = Holds(a, b)
        BY <1>10, <1>14, <2>2, <3>3
      <4>2. left.value # "throws" => \A val \in Scopes : TermMeans(a, b, val) = left.value
        BY <3>1, <4>1 DEF Known
      <4>3. left.value # "throws" => Holds(a, b) = IF Truthy(left.value) THEN Scopes ELSE {}
        BY <4>2 DEF Holds
      <4> QED BY <3>1, <4>1, <4>3 DEF Meant
    <3> QED BY <1>one, <1>14, <2>1, <2>2, <3>1, <3>2, <3>3 DEF Reads, Known
  <2> QED BY <1>1, <2>1, <2>2 DEF r
<1> QED BY <1>1, <1>11, <1>12, <1>13, <1>14

-----------------------------------------------------------------------------
(* The phrases of the grammar *)

Phrase == Pos \X Pos \X SUBSET Scopes

Table == [unary : SUBSET Phrase, and : SUBSET Phrase, or : SUBSET Phrase]

ParenAt(i) == Peek(i) = "("
ParenEndAt(i) == Peek(i) = ")"

\* The rules for unary, and and or, by the phrases in g
UnaryRule(g, a, b, S) ==
  \/ S \in Comparisons(a, b)
  \/ Peek(a) = "not" /\ \E T \in SUBSET Scopes : <<a + 1, b, T>> \in g.unary /\ S = Scopes \ T
  \/ ParenAt(a) /\ ParenEndAt(b - 1) /\ <<a + 1, b - 1, S>> \in g.or

AndRule(g, a, b, S) == UnaryRule(g, a, b, S) \/ Joins("and", g.unary, g.and, a, b, S)

OrRule(g, a, b, S) == AndRule(g, a, b, S) \/ Joins("or", g.and, g.or, a, b, S)

\* A comparison is made of tokens and begins with a term.
LEMMA ComparisonsIn ==
  ASSUME CondTypeOK, NEW a \in Nat, NEW b \in Nat, NEW S \in Comparisons(a, b)
  PROVE  /\ S \in SUBSET Scopes /\ a \in Pos /\ b \in Pos /\ a < b
         /\ a \in DOMAIN tokens /\ Peek(a) \in Word \cup Literal
<1> DEFINE closes(i) == Peek(i) = "]"
<1>1. \/ IsTerm(a, b) /\ S = Holds(a, b)
      \/ \E m : IsTerm(a, m) /\ OperatorAt(m) /\ IsTerm(m + 1, b) /\ S = Related(a, m, b)
      \/ \E m : IsTerm(a, m) /\ IsIn(m, b) /\ S = Listed(a, m, m + 2, b - 1)
  BY ComparisonsAre
<1>2. S \in SUBSET Scopes
  BY <1>1 DEF Holds, Related, Listed
<1>3. \A m : IsTerm(a, m) => /\ a \in Pos /\ m \in Pos /\ a < m /\ Peek(a) \in Word \cup Literal
                             /\ m \in Nat
  <2> SUFFICES ASSUME NEW m, IsTerm(a, m)
               PROVE  /\ a \in Pos /\ m \in Pos /\ a < m /\ Peek(a) \in Word \cup Literal
                      /\ m \in Nat
    OBVIOUS
  <2>1. m \in Pos /\ a \in Pos /\ a < m
    BY TermNoComma
  <2>2. Peek(a) \in Word \cup Literal
    BY Zenon DEF IsTerm
  <2> QED BY <2>1, <2>2, TokenTypes DEF Pos
<1>4. Peek(a) \in Word \cup Literal => a \in DOMAIN tokens
  BY MarkTypes, TokenTypes
<1>5. \A m \in Nat : IsTerm(m + 1, b) => b \in Pos /\ m + 1 < b
  BY TermNoComma
<1>6. \A m \in Nat : IsIn(m, b) => b \in Pos /\ m < b
  <2> SUFFICES ASSUME NEW m \in Nat, IsIn(m, b) PROVE b \in Pos /\ m < b
    OBVIOUS
  <2>1. closes(b - 1) /\ m + 2 < b
    BY Zenon DEF IsIn
  <2>2. Peek(b - 1) # "end"
    BY <2>1, Zenon
  <2> HIDE DEF closes
  <2>3. (b - 1) + 1 \in Pos /\ b - 1 \in Nat
    BY <2>2, PlaceOf
  <2>4. (b - 1) + 1 = b
    OBVIOUS
  <2> QED BY <2>1, <2>3, <2>4
<1> HIDE DEF closes
<1>7. \A m \in Nat : a < m /\ m + 1 < b => a < b
  OBVIOUS
<1>8. \A m \in Nat : a < m /\ m < b => a < b
  OBVIOUS
<1> QED BY <1>1, <1>2, <1>3, <1>4, <1>5, <1>6, <1>7, <1>8

LEMMA PhraseIs ==
  /\ \A p \in Phrase : /\ p = <<p[1], p[2], p[3]>> /\ p[1] \in Pos /\ p[2] \in Pos
                       /\ p[3] \in SUBSET Scopes
  /\ \A a, b, S : <<a, b, S>> \in Phrase <=> a \in Pos /\ b \in Pos /\ S \in SUBSET Scopes
BY DEF Phrase

\* The three kinds of unary phrases of n tokens.
CompareOf(n) ==
  UNION {{<<a, a + n, S>> : S \in Comparisons(a, a + n)} :
           a \in {a \in DOMAIN tokens : Peek(a) \in Word \cup Literal}}
NotOf(g, n) ==
  {<<p[1] - 1, p[2], Scopes \ p[3]>> :
     p \in {p \in g.unary : Peek(p[1] - 1) = "not" /\ p[2] + 1 = p[1] + n}}
GroupOf(g, n) ==
  {<<p[1] - 1, p[2] + 1, p[3]>> :
     p \in {p \in g.or : ParenAt(p[1] - 1) /\ ParenEndAt(p[2]) /\ p[2] + 2 = p[1] + n}}

LEMMA UnaryPhrasesIs ==
  ASSUME NEW g, NEW n
  PROVE  UnaryPhrases(g, n) = CompareOf(n) \cup NotOf(g, n) \cup GroupOf(g, n)
BY Zenon DEF UnaryPhrases, ParenAt, ParenEndAt, CompareOf, NotOf, GroupOf

LEMMA UnaryPhrasesAre ==
  ASSUME CondTypeOK, NEW g \in Table, NEW n \in 1..Len(tokens)
  PROVE  UnaryPhrases(g, n) =
           {p \in Phrase : p[2] = p[1] + n /\ UnaryRule(g, p[1], p[2], p[3])}
<1> DEFINE starts == {a \in DOMAIN tokens : Peek(a) \in Word \cup Literal}
           C == CompareOf(n)
           nots == {p \in g.unary : Peek(p[1] - 1) = "not" /\ p[2] + 1 = p[1] + n}
           D == NotOf(g, n)
           groups == {p \in g.or : ParenAt(p[1] - 1) /\ ParenEndAt(p[2]) /\ p[2] + 2 = p[1] + n}
           E == GroupOf(g, n)
           R == {p \in Phrase : p[2] = p[1] + n /\ UnaryRule(g, p[1], p[2], p[3])}
<1>0. UnaryPhrases(g, n) = C \cup D \cup E
  BY UnaryPhrasesIs
<1>a. /\ C = UNION {{<<a, a + n, S>> : S \in Comparisons(a, a + n)} : a \in starts}
      /\ D = {<<p[1] - 1, p[2], Scopes \ p[3]>> : p \in nots}
      /\ E = {<<p[1] - 1, p[2] + 1, p[3]>> : p \in groups}
  BY DEF CompareOf, NotOf, GroupOf
<1>1. /\ n \in Nat /\ n >= 1 /\ \A i \in Pos : i \in Nat /\ i >= 1
      /\ g.unary \subseteq Phrase /\ g.or \subseteq Phrase
  BY TokenTypes DEF Pos, Table
<1>2. \A i : Peek(i) = "not" \/ ParenAt(i) \/ ParenEndAt(i) => i \in Pos /\ i + 1 \in Pos
  <2>1. \A i : Peek(i) = "not" \/ ParenAt(i) \/ ParenEndAt(i) => Peek(i) # "end"
    BY Zenon DEF ParenAt, ParenEndAt
  <2> QED BY <2>1, PlaceOf
<1> HIDE DEF C, D, E
<1>3. C \subseteq R
  <2> SUFFICES ASSUME NEW a \in starts, NEW S \in Comparisons(a, a + n) PROVE <<a, a + n, S>> \in R
    BY <1>a
  <2>1. a \in Nat /\ a + n \in Nat
    BY <1>1, TokenTypes
  <2>2. <<a, a + n, S>> \in Phrase
    BY <2>1, ComparisonsIn, PhraseIs
  <2>3. UnaryRule(g, a, a + n, S)
    BY DEF UnaryRule
  <2> QED BY <2>2, <2>3
<1>4. D \subseteq R
  <2> SUFFICES ASSUME NEW p \in nots PROVE <<p[1] - 1, p[2], Scopes \ p[3]>> \in R
    BY <1>a
  <2>1. p \in Phrase /\ p = <<p[1], p[2], p[3]>> /\ p[1] \in Nat /\ p[2] \in Nat
        /\ p[1] \in Pos /\ p[2] \in Pos /\ p[3] \in SUBSET Scopes
    BY <1>1, PhraseIs
  <2>2. p[1] - 1 \in Pos /\ (p[1] - 1) + 1 = p[1] /\ p[2] = (p[1] - 1) + n
    BY <1>1, <1>2, <2>1
  <2>3. UnaryRule(g, p[1] - 1, p[2], Scopes \ p[3])
    BY <2>1, <2>2 DEF UnaryRule
  <2>4. <<p[1] - 1, p[2], Scopes \ p[3]>> \in Phrase
    BY <2>1, <2>2, PhraseIs
  <2> QED BY <2>2, <2>3, <2>4
<1>5. E \subseteq R
  <2> SUFFICES ASSUME NEW p \in groups PROVE <<p[1] - 1, p[2] + 1, p[3]>> \in R
    BY <1>a
  <2>1. p \in Phrase /\ p = <<p[1], p[2], p[3]>> /\ p[1] \in Nat /\ p[2] \in Nat
        /\ p[1] \in Pos /\ p[2] \in Pos /\ p[3] \in SUBSET Scopes
    BY <1>1, PhraseIs
  <2>2. /\ p[1] - 1 \in Pos /\ (p[1] - 1) + 1 = p[1] /\ p[2] + 1 = (p[1] - 1) + n
        /\ p[2] + 1 \in Pos /\ (p[2] + 1) - 1 = p[2]
    BY <1>1, <1>2, <2>1
  <2>3. UnaryRule(g, p[1] - 1, p[2] + 1, p[3])
    BY <2>1, <2>2 DEF UnaryRule
  <2>4. <<p[1] - 1, p[2] + 1, p[3]>> \in Phrase
    BY <2>1, <2>2, PhraseIs
  <2> QED BY <2>2, <2>3, <2>4
<1>6. ASSUME NEW p \in R PROVE p \in C \cup D \cup E
  <2> DEFINE a == p[1]
             b == p[2]
             S == p[3]
  <2>1. p \in Phrase /\ p = <<a, b, S>> /\ a \in Nat /\ b \in Nat /\ b = a + n /\ UnaryRule(g, a, b, S)
        /\ a \in Pos /\ b \in Pos /\ S \in SUBSET Scopes
    BY <1>1, PhraseIs
  <2> HIDE DEF a, b, S
  <2>2. CASE S \in Comparisons(a, b)
    <3>1. a \in starts
      BY <2>1, <2>2, ComparisonsIn
    <3>2. <<a, a + n, S>> \in C
      BY <1>a, <2>1, <2>2, <3>1
    <3> QED BY <2>1, <3>2
  <2>3. CASE Peek(a) = "not" /\ \E T \in SUBSET Scopes : <<a + 1, b, T>> \in g.unary /\ S = Scopes \ T
    <3>1. PICK T \in SUBSET Scopes : <<a + 1, b, T>> \in g.unary /\ S = Scopes \ T
      BY <2>3
    <3>2. (a + 1) - 1 = a /\ b + 1 = (a + 1) + n
      BY <1>1, <2>1
    <3>3. <<a + 1, b, T>> \in nots
      BY <2>3, <3>1, <3>2
    <3>4. <<(a + 1) - 1, b, Scopes \ T>> \in D
      BY <1>a, <3>3
    <3> QED BY <2>1, <3>1, <3>2, <3>4
  <2>4. CASE ParenAt(a) /\ ParenEndAt(b - 1) /\ <<a + 1, b - 1, S>> \in g.or
    <3>1. (a + 1) - 1 = a /\ (b - 1) + 1 = b /\ (b - 1) + 2 = (a + 1) + n
      BY <1>1, <2>1
    <3>2. <<a + 1, b - 1, S>> \in groups
      BY <2>4, <3>1
    <3>3. <<(a + 1) - 1, (b - 1) + 1, S>> \in E
      BY <1>a, <3>2
    <3> QED BY <2>1, <3>1, <3>3
  <2> QED BY <2>1, <2>2, <2>3, <2>4 DEF UnaryRule
<1> HIDE DEF R
<1>7. UnaryPhrases(g, n) = R
  BY <1>0, <1>3, <1>4, <1>5, <1>6
<1> QED BY <1>7 DEF R

\* What Split makes of two sets of phrases.
LEMMA SplitIs ==
  ASSUME CondTypeOK, NEW op \in {"and", "or"}, NEW l, l \subseteq Phrase, NEW r, r \subseteq Phrase,
         NEW n \in 1..Len(tokens)
  PROVE  Split(op, l, r, n) = {p \in Phrase : p[2] = p[1] + n /\ Joins(op, r, l, p[1], p[2], p[3])}
<1> DEFINE pairs == {p \in {q \in l : Peek(q[2]) = op} \X r :
                       p[2][1] = p[1][2] + 1 /\ p[2][2] = p[1][1] + n}
           R == {p \in Phrase : p[2] = p[1] + n /\ Joins(op, r, l, p[1], p[2], p[3])}
<1>1. Split(op, l, r, n) = {<<p[1][1], p[2][2], Joint(op, p[1][3], p[2][3])>> : p \in pairs}
  BY DEF Split
<1>2. ASSUME NEW p \in pairs PROVE <<p[1][1], p[2][2], Joint(op, p[1][3], p[2][3])>> \in R
  <2> DEFINE u == p[1]
             v == p[2]
             J == Joint(op, u[3], v[3])
  <2>1. /\ u \in l /\ v \in r /\ u \in Phrase /\ v \in Phrase
        /\ Peek(u[2]) = op /\ v[1] = u[2] + 1 /\ v[2] = u[1] + n
    OBVIOUS
  <2> HIDE DEF u, v
  <2>2. /\ u = <<u[1], u[2], u[3]>> /\ u[1] \in Pos /\ u[2] \in Pos /\ u[3] \in SUBSET Scopes
        /\ v = <<v[1], v[2], v[3]>> /\ v[1] \in Pos /\ v[2] \in Pos /\ v[3] \in SUBSET Scopes
    BY <2>1, PhraseIs
  <2>3. J \in SUBSET Scopes
    BY <2>2 DEF Joint
  <2>4. Joins(op, r, l, u[1], v[2], J)
    <3>1. <<u[1], u[2], u[3]>> \in l /\ <<u[2] + 1, v[2], v[3]>> \in r
      BY <2>1, <2>2
    <3> QED BY <2>1, <2>2, <3>1 DEF Joins
  <2> HIDE DEF J
  <2>5. <<u[1], v[2], J>> \in R
    BY <2>1, <2>2, <2>3, <2>4, PhraseIs
  <2> QED BY <2>5 DEF u, v, J
<1>3. ASSUME NEW q \in R PROVE \E p \in pairs : q = <<p[1][1], p[2][2], Joint(op, p[1][3], p[2][3])>>
  <2>1. q = <<q[1], q[2], q[3]>> /\ q[2] = q[1] + n /\ Joins(op, r, l, q[1], q[2], q[3])
    BY PhraseIs
  <2>2. PICK m \in Pos, T \in SUBSET Scopes, V \in SUBSET Scopes :
          /\ <<q[1], m, T>> \in l /\ Peek(m) = op /\ <<m + 1, q[2], V>> \in r
          /\ q[3] = Joint(op, T, V)
    BY <2>1 DEF Joins
  <2> DEFINE p == <<<<q[1], m, T>>, <<m + 1, q[2], V>>>>
  <2>3. p \in pairs
    BY <2>1, <2>2
  <2>4. /\ p[1][1] = q[1] /\ p[2][2] = q[2] /\ p[1][3] = T /\ p[2][3] = V
    OBVIOUS
  <2> HIDE DEF p
  <2> QED BY <2>1, <2>2, <2>3, <2>4
<1> HIDE DEF pairs, R
<1>4. Split(op, l, r, n) = R
  BY <1>1, <1>2, <1>3
<1> QED BY <1>4 DEF R

\* What is new in a longer table
LEMMA LongerIs ==
  ASSUME CondTypeOK, NEW g \in Table, NEW n \in 1..Len(tokens)
  PROVE  /\ Longer(g, n) \in Table
         /\ \A a, b \in Pos : \A S \in SUBSET Scopes :
              /\ <<a, b, S>> \in Longer(g, n).unary <=>
                   <<a, b, S>> \in g.unary \/ (b = a + n /\ UnaryRule(g, a, b, S))
              /\ <<a, b, S>> \in Longer(g, n).and <=>
                   <<a, b, S>> \in g.and \/ (b = a + n /\ AndRule(g, a, b, S))
              /\ <<a, b, S>> \in Longer(g, n).or <=>
                   <<a, b, S>> \in g.or \/ (b = a + n /\ OrRule(g, a, b, S))
<1> DEFINE u == UnaryPhrases(g, n)
           v == Split("and", g.and, g.unary, n)
           w == Split("or", g.or, g.and, n)
<1>1. Longer(g, n) = [unary |-> g.unary \cup u, and |-> g.and \cup (u \cup v),
                      or |-> g.or \cup ((u \cup v) \cup w)]
  BY Zenon DEF Longer
<1>2. g.unary \subseteq Phrase /\ g.and \subseteq Phrase /\ g.or \subseteq Phrase
  BY DEF Table
<1>3. u = {p \in Phrase : p[2] = p[1] + n /\ UnaryRule(g, p[1], p[2], p[3])}
  BY UnaryPhrasesAre
<1>4. v = {p \in Phrase : p[2] = p[1] + n /\ Joins("and", g.unary, g.and, p[1], p[2], p[3])}
  BY <1>2, SplitIs
<1>5. w = {p \in Phrase : p[2] = p[1] + n /\ Joins("or", g.and, g.or, p[1], p[2], p[3])}
  BY <1>2, SplitIs
<1> HIDE DEF u, v, w
<1>6. Longer(g, n) \in Table
  BY <1>1, <1>2, <1>3, <1>4, <1>5 DEF Table
<1>7. ASSUME NEW a \in Pos, NEW b \in Pos, NEW S \in SUBSET Scopes
      PROVE  /\ <<a, b, S>> \in u <=> b = a + n /\ UnaryRule(g, a, b, S)
             /\ <<a, b, S>> \in v <=> b = a + n /\ Joins("and", g.unary, g.and, a, b, S)
             /\ <<a, b, S>> \in w <=> b = a + n /\ Joins("or", g.and, g.or, a, b, S)
  <2> DEFINE p == <<a, b, S>>
  <2>1. p \in Phrase /\ p[1] = a /\ p[2] = b /\ p[3] = S
    BY PhraseIs
  <2> HIDE DEF p
  <2>2. /\ p \in u <=> b = a + n /\ UnaryRule(g, a, b, S)
        /\ p \in v <=> b = a + n /\ Joins("and", g.unary, g.and, a, b, S)
        /\ p \in w <=> b = a + n /\ Joins("or", g.and, g.or, a, b, S)
    BY <1>3, <1>4, <1>5, <2>1
  <2> QED BY <2>2 DEF p
<1> QED BY <1>1, <1>6, <1>7 DEF AndRule, OrRule

\* The tables of the phrases of 0, 1, 2... tokens
IsTable(g) ==
  g = [n \in 0..Len(tokens) |-> IF n = 0 THEN [unary |-> {}, and |-> {}, or |-> {}]
                                ELSE Longer(g[n - 1], n)]

LEMMA TablesAre ==
  ASSUME CondTypeOK
  PROVE  \E h \in [0..Len(tokens) -> Table] :
           /\ h[0] = [unary |-> {}, and |-> {}, or |-> {}] /\ Phrases = h[Len(tokens)]
           /\ \A n \in 1..Len(tokens) : h[n] = Longer(h[n - 1], n)
<1> DEFINE g == CHOOSE g : IsTable(g)
           none == [unary |-> {}, and |-> {}, or |-> {}]
           N == Len(tokens)
<1>0. N \in Nat /\ none \in Table
  BY TokenTypes DEF Table
<1>1. Phrases = g[N]
  BY Zenon DEF Phrases, IsTable
<1>2. \E h : IsTable(h)
  <2> DEFINE step == [n \in 1..N |-> [r \in Table |-> Longer(r, n)]]
  <2>1. step \in [1..N -> [Table -> Table]]
    BY LongerIs
  <2>2. \E h : IsRow(N, Table, none, step, h)
    <3> HIDE DEF step, none, N
    <3> QED BY <1>0, <2>1, Iteration
  <2>3. PICK h : IsRow(N, Table, none, step, h)
    BY <2>2
  <2>4. h \in [0..N -> Table] /\ h[0] = none /\ \A n \in 1..N : h[n] = step[n][h[n - 1]]
    <3> HIDE DEF step, none, N
    <3> QED BY <2>3 DEF IsRow
  <2>5. \A n \in 1..N : step[n][h[n - 1]] = Longer(h[n - 1], n)
    <3> SUFFICES ASSUME NEW n \in 1..N PROVE step[n][h[n - 1]] = Longer(h[n - 1], n)
      OBVIOUS
    <3>1. h[n - 1] \in Table
      <4>1. n - 1 \in 0..N
        BY <1>0
      <4> HIDE DEF step, none, N
      <4> QED BY <2>4, <4>1
    <3> QED BY <3>1
  <2>6. h = [n \in 0..N |-> IF n = 0 THEN none ELSE Longer(h[n - 1], n)]
    <3> HIDE DEF step, none, N
    <3>1. \A n \in 0..N : h[n] = IF n = 0 THEN none ELSE Longer(h[n - 1], n)
      BY <1>0, <2>4, <2>5
    <3> QED BY <2>4, <3>1
  <2> QED BY <2>6 DEF IsTable
<1>3. IsTable(g)
  BY <1>2
<1> HIDE DEF g
<1>4. g = [n \in 0..N |-> IF n = 0 THEN none ELSE Longer(g[n - 1], n)]
  BY <1>3 DEF IsTable
<1> HIDE DEF none, N
<1>5. g[0] = none /\ \A n \in 1..N : g[n] = Longer(g[n - 1], n)
  BY <1>0, <1>4
<1>6. \A n \in 0..N : g[n] \in Table
  <2> DEFINE T == {n \in Nat : n <= N => g[n] \in Table}
  <2>1. 0 \in T
    BY <1>0, <1>5
  <2>2. ASSUME NEW n \in Nat, n \in T PROVE n + 1 \in T
    <3> SUFFICES ASSUME n + 1 <= N PROVE g[n + 1] \in Table
      OBVIOUS
    <3>1. g[n] \in Table /\ n + 1 \in 1..N /\ (n + 1) - 1 = n
      BY <1>0, <2>2
    <3>2. g[n + 1] = Longer(g[n], n + 1)
      BY <1>5, <3>1
    <3> QED BY <3>1, <3>2, LongerIs DEF N
  <2>3. Nat \subseteq T
    <3> HIDE DEF T
    <3> QED BY <2>1, <2>2, SetInduction
  <2> QED BY <1>0, <2>3
<1>7. g \in [0..N -> Table]
  BY <1>4, <1>6
<1> QED BY <1>1, <1>5, <1>7 DEF none, N

\* The phrases are a table in which each of them, of whatever length, follows by a rule from
\* shorter ones, and whatever follows by a rule is one.
Grammatical(g) ==
  /\ g \in Table
  /\ \A a, b \in Pos : \A S \in SUBSET Scopes :
       <<a, b, S>> \in g.unary <=> a < b /\ UnaryRule(g, a, b, S)
  /\ Repeats("and", g.unary, g.and) /\ Repeats("or", g.and, g.or)

\* The three kinds of phrases, and the rules for them, as one
Kind == {"unary", "and", "or"}

PhrasesIn(g, x) == IF x = "unary" THEN g.unary ELSE IF x = "and" THEN g.and ELSE g.or

Rule(x, g, a, b, S) == IF x = "unary" THEN UnaryRule(g, a, b, S)
                       ELSE IF x = "and" THEN AndRule(g, a, b, S) ELSE OrRule(g, a, b, S)

\* Two sets of phrases with the same phrases of fewer than n tokens.
SameBelow(n, f, g) ==
  \A a, b \in Pos : \A S \in SUBSET Scopes :
    /\ b < a + n => (<<a, b, S>> \in f <=> <<a, b, S>> \in g)
    /\ <<a, b, S>> \in f \cup g => a < b

\* What two phrases make depends on shorter ones.
LEMMA JoinsSame ==
  ASSUME CondTypeOK, NEW op \in Connective, NEW n \in Nat, NEW f, NEW g, NEW ff, NEW gg,
         SameBelow(n, f, ff), SameBelow(n, g, gg),
         NEW a \in Pos, NEW b \in Pos, b = a + n, NEW S, Joins(op, f, g, a, b, S)
  PROVE  Joins(op, ff, gg, a, b, S)
<1>0. \A i \in Pos : i \in Nat
  BY TokenTypes DEF Pos
<1>1. PICK m \in Pos, T \in SUBSET Scopes, V \in SUBSET Scopes :
        /\ <<a, m, T>> \in g /\ Peek(m) = op /\ <<m + 1, b, V>> \in f /\ S = Joint(op, T, V)
  BY DEF Joins
<1>2. m + 1 \in Pos
  BY <1>1, ConnectiveMark, PlaceOf
<1>3. a < m /\ m + 1 < b
  BY <1>1, <1>2 DEF SameBelow
<1>4. m < a + n /\ b < (m + 1) + n
  BY <1>0, <1>3
<1>5. <<a, m, T>> \in gg /\ <<m + 1, b, V>> \in ff
  BY <1>1, <1>2, <1>4 DEF SameBelow
<1> QED BY <1>1, <1>5 DEF Joins

\* A rule looks at shorter phrases only.
LEMMA RuleSame ==
  ASSUME CondTypeOK, NEW n \in Nat, NEW g, NEW gg,
         \A x \in Kind : SameBelow(n, PhrasesIn(g, x), PhrasesIn(gg, x)),
         NEW a \in Pos, NEW b \in Pos, b = a + n, NEW S \in SUBSET Scopes, NEW x \in Kind,
         Rule(x, g, a, b, S)
  PROVE  Rule(x, gg, a, b, S)
<1>0. \A i \in Pos : i \in Nat
  BY TokenTypes DEF Pos
<1>1. SameBelow(n, g.unary, gg.unary) /\ SameBelow(n, g.and, gg.and) /\ SameBelow(n, g.or, gg.or)
  <2>1. /\ "unary" \in Kind /\ "and" \in Kind /\ "or" \in Kind
        /\ PhrasesIn(g, "unary") = g.unary /\ PhrasesIn(gg, "unary") = gg.unary
        /\ PhrasesIn(g, "and") = g.and /\ PhrasesIn(gg, "and") = gg.and
        /\ PhrasesIn(g, "or") = g.or /\ PhrasesIn(gg, "or") = gg.or
    BY DEF Kind, PhrasesIn
  <2> QED BY <2>1
<1>2. UnaryRule(g, a, b, S) => UnaryRule(gg, a, b, S)
  <2>1. CASE S \in Comparisons(a, b)
    BY <2>1 DEF UnaryRule
  <2>2. CASE Peek(a) = "not" /\ \E T \in SUBSET Scopes : <<a + 1, b, T>> \in g.unary /\ S = Scopes \ T
    <3>1. PICK T \in SUBSET Scopes : <<a + 1, b, T>> \in g.unary /\ S = Scopes \ T
      BY <2>2
    <3>2. a + 1 \in Pos /\ b < (a + 1) + n
      BY <1>0, <2>2, PlaceOf
    <3>3. <<a + 1, b, T>> \in gg.unary
      BY <1>1, <3>1, <3>2 DEF SameBelow
    <3> QED BY <2>2, <3>1, <3>3 DEF UnaryRule
  <2>3. CASE ParenAt(a) /\ ParenEndAt(b - 1) /\ <<a + 1, b - 1, S>> \in g.or
    <3>1. Peek(a) # "end" /\ Peek(b - 1) # "end"
      BY <2>3, Zenon DEF ParenAt, ParenEndAt
    <3>2. a + 1 \in Pos /\ b - 1 \in Pos /\ b - 1 < (a + 1) + n
      BY <1>0, <3>1, PlaceOf
    <3>3. <<a + 1, b - 1, S>> \in gg.or
      BY <1>1, <2>3, <3>2 DEF SameBelow
    <3> QED BY <2>3, <3>3 DEF UnaryRule
  <2> QED BY <2>1, <2>2, <2>3 DEF UnaryRule
<1>3. Joins("and", g.unary, g.and, a, b, S) => Joins("and", gg.unary, gg.and, a, b, S)
  <2>1. "and" \in Connective
    BY DEF Connective
  <2> QED BY <1>1, <2>1, JoinsSame
<1>4. Joins("or", g.and, g.or, a, b, S) => Joins("or", gg.and, gg.or, a, b, S)
  <2>1. "or" \in Connective
    BY DEF Connective
  <2> QED BY <1>1, <2>1, JoinsSame
<1> QED BY <1>2, <1>3, <1>4 DEF Rule, AndRule, OrRule, Kind

LEMMA SameSwaps ==
  ASSUME NEW n, NEW f, NEW g, SameBelow(n, f, g)
  PROVE  SameBelow(n, g, f)
BY DEF SameBelow

\* The table is complete: the phrases of a length are made once, when all shorter ones are there,
\* and they stay.
LEMMA PhrasesFollow ==
  ASSUME CondTypeOK
  PROVE  /\ Phrases \in Table
         /\ \A x \in Kind : \A a, b \in Pos : \A S \in SUBSET Scopes :
              <<a, b, S>> \in PhrasesIn(Phrases, x) <=> a < b /\ Rule(x, Phrases, a, b, S)
<1> DEFINE N == Len(tokens)
           none == [unary |-> {}, and |-> {}, or |-> {}]
<1>0. N \in Nat /\ \A i \in Pos : i \in Nat /\ i >= 1 /\ i <= N + 1
  BY TokenTypes DEF Pos
<1>1. PICK h \in [0..N -> Table] :
        /\ h[0] = none /\ Phrases = h[N]
        /\ \A n \in 1..N : h[n] = Longer(h[n - 1], n)
  BY TablesAre
<1>2. ASSUME NEW n \in 1..N, NEW x \in Kind, NEW a \in Pos, NEW b \in Pos, NEW S \in SUBSET Scopes
      PROVE  <<a, b, S>> \in PhrasesIn(h[n], x) <=>
               <<a, b, S>> \in PhrasesIn(h[n - 1], x) \/ (b = a + n /\ Rule(x, h[n - 1], a, b, S))
  <2>1. n - 1 \in 0..N /\ h[n - 1] \in Table
    BY <1>0
  <2> QED BY <1>1, <2>1, LongerIs DEF PhrasesIn, Rule, Kind
<1>3. \A x \in Kind : PhrasesIn(h[0], x) = {}
  BY <1>1 DEF PhrasesIn
<1> HIDE DEF N, none
<1>4. \A n \in 0..N : \A x \in Kind : \A a, b \in Pos : \A S \in SUBSET Scopes :
        <<a, b, S>> \in PhrasesIn(h[n], x) => a < b /\ b <= a + n
  <2> DEFINE Short(n) == \A x \in Kind : \A a, b \in Pos : \A S \in SUBSET Scopes :
                           <<a, b, S>> \in PhrasesIn(h[n], x) => a < b /\ b <= a + n
             T == {n \in Nat : n <= N => Short(n)}
  <2>1. 0 \in T
    BY <1>3
  <2>2. ASSUME NEW n \in Nat, n \in T PROVE n + 1 \in T
    <3> SUFFICES ASSUME n + 1 <= N PROVE Short(n + 1)
      OBVIOUS
    <3>1. Short(n) /\ n + 1 \in 1..N /\ (n + 1) - 1 = n
      BY <1>0, <2>2
    <3>2. ASSUME NEW x \in Kind, NEW a \in Pos, NEW b \in Pos, NEW S \in SUBSET Scopes,
                 <<a, b, S>> \in PhrasesIn(h[n + 1], x)
          PROVE  a < b /\ b <= a + (n + 1)
      <4>1. <<a, b, S>> \in PhrasesIn(h[n], x) \/ b = a + (n + 1)
        BY <1>2, <3>1, <3>2
      <4>2. <<a, b, S>> \in PhrasesIn(h[n], x) => a < b /\ b <= a + n
        BY <3>1
      <4> QED BY <1>0, <4>1, <4>2
    <3> QED BY <3>2
  <2>3. Nat \subseteq T
    <3> HIDE DEF T
    <3> QED BY <2>1, <2>2, SetInduction
  <2> QED BY <1>0, <2>3
<1>5. ASSUME NEW l \in 0..N
      PROVE  \A x \in Kind : \A a, b \in Pos : \A S \in SUBSET Scopes :
               b <= a + l => (<<a, b, S>> \in PhrasesIn(h[N], x) <=> <<a, b, S>> \in PhrasesIn(h[l], x))
  <2> DEFINE Same(n) == \A x \in Kind : \A a, b \in Pos : \A S \in SUBSET Scopes :
               b <= a + l => (<<a, b, S>> \in PhrasesIn(h[n], x) <=> <<a, b, S>> \in PhrasesIn(h[l], x))
             T == {n \in Nat : l + n <= N => Same(l + n)}
  <2>0. l \in Nat /\ l + 0 = l
    BY <1>0
  <2>1. 0 \in T
    BY <2>0
  <2>2. ASSUME NEW n \in Nat, n \in T PROVE n + 1 \in T
    <3> SUFFICES ASSUME l + (n + 1) <= N PROVE Same(l + (n + 1))
      OBVIOUS
    <3>1. Same(l + n) /\ l + (n + 1) \in 1..N /\ (l + (n + 1)) - 1 = l + n
      BY <1>0, <2>0, <2>2
    <3>2. ASSUME NEW x \in Kind, NEW a \in Pos, NEW b \in Pos, NEW S \in SUBSET Scopes, b <= a + l
          PROVE  <<a, b, S>> \in PhrasesIn(h[l + (n + 1)], x) <=> <<a, b, S>> \in PhrasesIn(h[l], x)
      <4>1. b # a + (l + (n + 1))
        BY <1>0, <2>0, <3>2
      <4>2. <<a, b, S>> \in PhrasesIn(h[l + (n + 1)], x) <=> <<a, b, S>> \in PhrasesIn(h[l + n], x)
        BY <1>2, <3>1, <4>1
      <4>3. <<a, b, S>> \in PhrasesIn(h[l + n], x) <=> <<a, b, S>> \in PhrasesIn(h[l], x)
        BY <3>1, <3>2
      <4> QED BY <4>2, <4>3
    <3> HIDE DEF T
    <3> QED BY <3>2
  <2>3. Nat \subseteq T
    <3> HIDE DEF T
    <3> QED BY <2>1, <2>2, SetInduction
  <2>4. N - l \in Nat /\ l + (N - l) = N /\ N <= N
    BY <1>0, <2>0
  <2>5. Same(l + (N - l))
    BY <2>3, <2>4
  <2> QED BY <2>4, <2>5
<1>6. N \in 0..N
  BY <1>0
<1>7. ASSUME NEW x \in Kind, NEW a \in Pos, NEW b \in Pos, NEW S \in SUBSET Scopes, a < b
      PROVE  <<a, b, S>> \in PhrasesIn(h[N], x) <=> Rule(x, h[N], a, b, S)
  <2> DEFINE l == b - a
  <2>1. l \in 1..N /\ l - 1 \in 0..N /\ l \in 0..N /\ b = a + l /\ l \in Nat /\ b <= a + l
        /\ ~(b <= a + (l - 1))
    BY <1>0, <1>7
  <2> HIDE DEF l
  <2>2. <<a, b, S>> \in PhrasesIn(h[N], x) <=> <<a, b, S>> \in PhrasesIn(h[l], x)
    BY <1>5, <2>1
  <2>3. <<a, b, S>> \in PhrasesIn(h[l], x) <=> Rule(x, h[l - 1], a, b, S)
    <3>1. <<a, b, S>> \notin PhrasesIn(h[l - 1], x)
      BY <1>4, <2>1
    <3> QED BY <1>2, <2>1, <3>1
  <2>4. \A y \in Kind : SameBelow(l, PhrasesIn(h[l - 1], y), PhrasesIn(h[N], y))
    <3> SUFFICES ASSUME NEW y \in Kind, NEW c \in Pos, NEW d \in Pos, NEW U \in SUBSET Scopes
                 PROVE  /\ d < c + l => (<<c, d, U>> \in PhrasesIn(h[l - 1], y) <=>
                                           <<c, d, U>> \in PhrasesIn(h[N], y))
                        /\ <<c, d, U>> \in PhrasesIn(h[l - 1], y) \cup PhrasesIn(h[N], y) => c < d
      BY DEF SameBelow
    <3>1. d < c + l => d <= c + (l - 1)
      BY <1>0, <2>1
    <3>2. d < c + l => (<<c, d, U>> \in PhrasesIn(h[l - 1], y) <=> <<c, d, U>> \in PhrasesIn(h[N], y))
      BY <1>5, <2>1, <3>1
    <3>3. <<c, d, U>> \in PhrasesIn(h[l - 1], y) \cup PhrasesIn(h[N], y) => c < d
      BY <1>4, <1>6, <2>1
    <3> QED BY <3>2, <3>3
  <2>5. \A y \in Kind : SameBelow(l, PhrasesIn(h[N], y), PhrasesIn(h[l - 1], y))
    BY <2>4, SameSwaps
  <2>6. Rule(x, h[l - 1], a, b, S) <=> Rule(x, h[N], a, b, S)
    BY <2>1, <2>4, <2>5, RuleSame
  <2> QED BY <2>2, <2>3, <2>6
<1>8. \A x \in Kind : \A a, b \in Pos : \A S \in SUBSET Scopes :
        <<a, b, S>> \in PhrasesIn(h[N], x) => a < b
  BY <1>4, <1>6
<1>9. h[N] \in Table
  BY <1>6
<1> QED BY <1>1, <1>7, <1>8, <1>9 DEF N


\* The phrases obey the grammar.
LEMMA Grammar ==
  ASSUME CondTypeOK
  PROVE  Grammatical(Phrases)
<1> DEFINE g == Phrases
<1>1. /\ g \in Table
      /\ \A x \in Kind : \A a, b \in Pos : \A S \in SUBSET Scopes :
           <<a, b, S>> \in PhrasesIn(g, x) <=> a < b /\ Rule(x, g, a, b, S)
  BY PhrasesFollow
<1>0. \A i \in Pos : i \in Nat
  BY TokenTypes DEF Pos
<1> HIDE DEF g
<1>2. \A a, b \in Pos : \A S \in SUBSET Scopes :
        /\ <<a, b, S>> \in g.unary <=> a < b /\ UnaryRule(g, a, b, S)
        /\ <<a, b, S>> \in g.and <=> a < b /\ AndRule(g, a, b, S)
        /\ <<a, b, S>> \in g.or <=> a < b /\ OrRule(g, a, b, S)
  <2> SUFFICES ASSUME NEW a \in Pos, NEW b \in Pos, NEW S \in SUBSET Scopes
               PROVE  /\ <<a, b, S>> \in g.unary <=> a < b /\ UnaryRule(g, a, b, S)
                      /\ <<a, b, S>> \in g.and <=> a < b /\ AndRule(g, a, b, S)
                      /\ <<a, b, S>> \in g.or <=> a < b /\ OrRule(g, a, b, S)
    OBVIOUS
  <2>1. "unary" \in Kind /\ "and" \in Kind /\ "or" \in Kind
    BY DEF Kind
  <2>2. /\ PhrasesIn(g, "unary") = g.unary /\ PhrasesIn(g, "and") = g.and
        /\ PhrasesIn(g, "or") = g.or
    BY DEF PhrasesIn
  <2>3. /\ Rule("unary", g, a, b, S) <=> UnaryRule(g, a, b, S)
        /\ Rule("and", g, a, b, S) <=> AndRule(g, a, b, S)
        /\ Rule("or", g, a, b, S) <=> OrRule(g, a, b, S)
    BY DEF Rule
  <2> QED BY <1>1, <2>1, <2>2, <2>3
<1>3. ASSUME NEW op \in Connective, NEW f, NEW h,
             \A a, b \in Pos : \A S : <<a, b, S>> \in f \cup h => a < b,
             NEW a \in Pos, NEW b \in Pos, NEW S, Joins(op, f, h, a, b, S)
      PROVE  a < b
  <2>1. PICK m \in Pos, T \in SUBSET Scopes, V \in SUBSET Scopes :
          <<a, m, T>> \in h /\ Peek(m) = op /\ <<m + 1, b, V>> \in f
    BY <1>3 DEF Joins
  <2>2. m + 1 \in Pos
    BY <2>1, ConnectiveMark, PlaceOf
  <2>3. a < m /\ m + 1 < b
    BY <1>3, <2>1, <2>2
  <2> QED BY <1>0, <2>3
<1>4. \A a, b \in Pos : \A S : <<a, b, S>> \in g.unary \cup g.and \cup g.or => a < b
  <2>1. \A a, b, S : <<a, b, S>> \in g.unary \cup g.and \cup g.or => S \in SUBSET Scopes
    BY <1>1, PhraseIs DEF Table
  <2> QED BY <1>2, <2>1
<1>5. Repeats("and", g.unary, g.and)
  <2>1. "and" \in Connective
    BY DEF Connective
  <2>2. \A a, b \in Pos : \A S : Joins("and", g.unary, g.and, a, b, S) => a < b
    BY <1>3, <1>4, <2>1
  <2> QED BY <1>2, <2>2 DEF Repeats, AndRule
<1>6. Repeats("or", g.and, g.or)
  <2>1. "or" \in Connective
    BY DEF Connective
  <2>2. \A a, b \in Pos : \A S : Joins("or", g.and, g.or, a, b, S) => a < b
    BY <1>3, <1>4, <2>1
  <2> QED BY <1>2, <2>2 DEF Repeats, OrRule
<1> QED BY <1>1, <1>2, <1>5, <1>6 DEF Grammatical, g

-----------------------------------------------------------------------------
(* The parser reads the phrases *)

\* f reads the unary phrases of g that start at i or later.
ReadsFrom(f, g, i) ==
  /\ f \in [Pos -> Result]
  /\ \A j \in Pos : j >= i => \A b \in Pos : Peek(b) \in Follows => Reads(f[j], b, Senses(g.unary, j, b))

\* parseAnd and parseOr, by what parseUnary reads
LEMMA OrReads ==
  ASSUME CondTypeOK, NEW g, Grammatical(g), NEW f, NEW i \in Pos, ReadsFrom(f, g, i)
  PROVE  /\ Or(f, i) \in Result
         /\ \A b \in Pos : Peek(b) \in {")", "end"} => Reads(Or(f, i), b, Senses(g.or, i, b))
<1> DEFINE h == [j \in Pos |-> Chain("and", f, j)]
           F == Follows \ {"and"}
<1>1. "and" \in Connective /\ "or" \in Connective /\ "and" \in Follows /\ "or" \in F
  BY DEF Connective, Follows
<1>2. \A b : Peek(b) \in {")", "end"} => Peek(b) \in F \ {"or"}
  BY DEF Follows
<1>3. f \in [Pos -> Result] /\ Repeats("and", g.unary, g.and) /\ Repeats("or", g.and, g.or)
  BY DEF ReadsFrom, Grammatical
<1>4. \A j \in Pos : Chain("and", f, j) \in Result
  BY <1>1, <1>3, ChainStays
<1>5. h \in [Pos -> Result]
  BY <1>4
<1>6. \A j \in Pos : j >= i => \A b \in Pos : Peek(b) \in F => Reads(h[j], b, Senses(g.and, j, b))
  <2> SUFFICES ASSUME NEW j \in Pos, j >= i, NEW b \in Pos, Peek(b) \in F
               PROVE  Reads(Chain("and", f, j), b, Senses(g.and, j, b))
    OBVIOUS
  <2>1. \A k \in Pos : k >= j => k >= i
    BY TokenTypes DEF Pos
  <2>2. \A k \in Pos : k >= j => \A c \in Pos : Peek(c) \in Follows => Reads(f[k], c, Senses(g.unary, k, c))
    BY <2>1 DEF ReadsFrom
  <2> HIDE DEF F
  <2>3. \A c \in Pos : Peek(c) \in Follows \ {"and"} => Reads(Chain("and", f, j), c, Senses(g.and, j, c))
    BY <1>1, <1>3, <2>2, ChainReads
  <2> QED BY <2>3 DEF F
<1>7. Or(f, i) = Chain("or", h, i)
  BY DEF Or
<1> HIDE DEF h, F
<1>8. Chain("or", h, i) \in Result
  BY <1>1, <1>5, ChainStays
<1>9. \A b \in Pos : Peek(b) \in F \ {"or"} => Reads(Chain("or", h, i), b, Senses(g.or, i, b))
  BY <1>1, <1>3, <1>5, <1>6, ChainReads
<1> QED BY <1>2, <1>7, <1>8, <1>9

\* not
LEMMA NegatedMeant ==
  ASSUME NEW v \in Outcome, NEW T \in SUBSET Scopes
  PROVE  /\ Negated(v) = "throws" <=> v = "throws"
         /\ Meant(v, T) => Meant(Negated(v), Scopes \ T)
<1>1. v # "throws" => Negated(v) # "throws" /\ (Truthy(Negated(v)) <=> ~Truthy(v))
  BY ValueTypes DEF Negated, Bool, Truthy
<1>2. v = "throws" => Negated(v) = "throws"
  BY DEF Negated
<1> QED BY <1>1, <1>2 DEF Meant

\* The three forms of what parseUnary does.
LEMMA UnaryAtIs ==
  ASSUME NEW f, NEW i
  PROVE  /\ Peek(i) = "not" =>
              UnaryAt(f, i) = IF f[i + 1].ok THEN Parsed(Negated(f[i + 1].value), f[i + 1].at)
                              ELSE f[i + 1]
         /\ ParenAt(i) => UnaryAt(f, i) = IF Or(f, i + 1).ok
                                            THEN Expect(")", Or(f, i + 1).value, Or(f, i + 1).at)
                                          ELSE Or(f, i + 1)
         /\ Peek(i) # "not" /\ ~ParenAt(i) => UnaryAt(f, i) = ParseComparison(i)
<1>1. ~(Peek(i) = "not" /\ ParenAt(i))
  BY DEF ParenAt
<1>2. UnaryAt(f, i) =
        IF Peek(i) = "not" THEN
          IF f[i + 1].ok THEN Parsed(Negated(f[i + 1].value), f[i + 1].at) ELSE f[i + 1]
        ELSE IF ParenAt(i) THEN
          IF Or(f, i + 1).ok THEN Expect(")", Or(f, i + 1).value, Or(f, i + 1).at) ELSE Or(f, i + 1)
        ELSE ParseComparison(i)
  BY Zenon DEF UnaryAt, ParenAt
<1> QED BY <1>1, <1>2

\* parseUnary, by what it reads later
LEMMA UnaryRead ==
  ASSUME CondTypeOK, NEW g, Grammatical(g), NEW i \in 1..Len(tokens), NEW f, ReadsFrom(f, g, i + 1)
  PROVE  /\ UnaryAt(f, i) \in Result
         /\ \A b \in Pos : Peek(b) \in Follows => Reads(UnaryAt(f, i), b, Senses(g.unary, i, b))
<1> DEFINE r == UnaryAt(f, i)
<1>0. /\ i \in Nat /\ i \in Pos /\ i + 1 \in Pos /\ \A b \in Pos : b \in Nat
      /\ f \in [Pos -> Result]
  BY TokenTypes DEF Pos, ReadsFrom
<1>1. \A b \in Pos : \A S : S \in Senses(g.unary, i, b) <=>
        S \in SUBSET Scopes /\ i < b /\ UnaryRule(g, i, b, S)
  BY <1>0 DEF Senses, Grammatical
<1>2. \A b \in Pos : \A S \in Comparisons(i, b) :
        S \in SUBSET Scopes /\ i < b /\ Peek(i) \in Word \cup Literal
  BY <1>0, ComparisonsIn
<1>3. Peek(i) = "not" => Peek(i) \notin Word \cup Literal /\ ~ParenAt(i)
  BY MarkTypes DEF Mark, ParenAt
<1>4. ParenAt(i) => Peek(i) \notin Word \cup Literal /\ Peek(i) # "not"
  BY MarkTypes DEF Mark, ParenAt
<1>5. \A a, b \in Pos : \A S : <<a, b, S>> \in g.unary \/ <<a, b, S>> \in g.or =>
                                  a < b /\ S \in SUBSET Scopes
  <2>1. \A a, b, S : <<a, b, S>> \in g.unary \/ <<a, b, S>> \in g.or => S \in SUBSET Scopes
    BY PhraseIs DEF Grammatical, Table
  <2> QED BY <2>1 DEF Grammatical, Repeats
<1>6. CASE Peek(i) = "not"
  <2> DEFINE v == f[i + 1].value
  <2>1. /\ f[i + 1] \in Result /\ v \in Outcome /\ f[i + 1].at \in Pos /\ f[i + 1].ok \in BOOLEAN
    BY <1>0 DEF Result
  <2>2. \A b \in Pos : \A S : S \in Senses(g.unary, i, b) <=>
          \E T \in SUBSET Scopes : <<i + 1, b, T>> \in g.unary /\ S = Scopes \ T
    <3> SUFFICES ASSUME NEW b \in Pos, NEW S
                 PROVE  S \in Senses(g.unary, i, b) <=>
                          \E T \in SUBSET Scopes : <<i + 1, b, T>> \in g.unary /\ S = Scopes \ T
      OBVIOUS
    <3>1. UnaryRule(g, i, b, S) <=>
            \E T \in SUBSET Scopes : <<i + 1, b, T>> \in g.unary /\ S = Scopes \ T
      BY <1>2, <1>3, <1>6 DEF UnaryRule
    <3>2. \A T : <<i + 1, b, T>> \in g.unary => i < b
      BY <1>0, <1>5
    <3> QED BY <1>1, <3>1, <3>2
  <2>3. \A b \in Pos : Peek(b) \in Follows => Reads(f[i + 1], b, Senses(g.unary, i + 1, b))
    BY <1>0 DEF ReadsFrom
  <2> HIDE DEF v
  <2>4. CASE f[i + 1].ok
    <3>1. r = Parsed(Negated(v), f[i + 1].at)
      BY <1>6, <2>4, UnaryAtIs DEF v
    <3>2. Negated(v) \in Outcome
      BY <2>1, ValueTypes
    <3>3. r \in Result /\ r.ok = TRUE /\ r.at = f[i + 1].at /\ r.value = Negated(v)
      <4> DEFINE w == Negated(v)
                 j == f[i + 1].at
      <4>1. w \in Outcome /\ j \in Pos /\ r = Parsed(w, j)
        BY <2>1, <3>1, <3>2
      <4> HIDE DEF w, j, r
      <4>2. r \in Result /\ r.ok = TRUE /\ r.at = j /\ r.value = w
        BY <4>1, ParsedType
      <4> QED BY <4>2 DEF w, j
    <3> HIDE DEF r
    <3>4. ASSUME NEW b \in Pos, Peek(b) \in Follows PROVE Reads(r, b, Senses(g.unary, i, b))
      <4>1. Reads(f[i + 1], b, Senses(g.unary, i + 1, b))
        BY <2>3, <3>4
      <4>2. ASSUME r.at = b PROVE Senses(g.unary, i, b) # {} /\ (r.value = "throws" => UnknownWords # {})
        <5>1. Senses(g.unary, i + 1, b) # {} /\ (v = "throws" => UnknownWords # {})
          BY <2>4, <3>3, <4>1, <4>2 DEF Reads, v
        <5>2. PICK T \in SUBSET Scopes : <<i + 1, b, T>> \in g.unary
          BY <5>1 DEF Senses
        <5>3. Scopes \ T \in Senses(g.unary, i, b)
          BY <2>2, <5>2
        <5>4. r.value = "throws" => v = "throws"
          BY <2>1, <3>3, NegatedMeant
        <5> QED BY <5>1, <5>3, <5>4
      <4>3. ASSUME NEW S \in Senses(g.unary, i, b) PROVE r.at = b /\ Meant(r.value, S)
        <5>1. PICK T \in SUBSET Scopes : <<i + 1, b, T>> \in g.unary /\ S = Scopes \ T
          BY <2>2, <4>3
        <5>2. f[i + 1].at = b /\ Meant(v, T)
          BY <4>1, <5>1 DEF Reads, Senses, v
        <5> QED BY <2>1, <3>3, <5>1, <5>2, NegatedMeant
      <4>4. \A S, U \in Senses(g.unary, i, b) : S = U
        <5>1. \A S, U \in Senses(g.unary, i + 1, b) : S = U
          BY <4>1 DEF Reads
        <5>2. ASSUME NEW S \in Senses(g.unary, i, b), NEW U \in Senses(g.unary, i, b) PROVE S = U
          <6>1. PICK T \in SUBSET Scopes : <<i + 1, b, T>> \in g.unary /\ S = Scopes \ T
            BY <2>2, <5>2
          <6>2. PICK V \in SUBSET Scopes : <<i + 1, b, V>> \in g.unary /\ U = Scopes \ V
            BY <2>2, <5>2
          <6>3. T = V
            BY <5>1, <6>1, <6>2 DEF Senses
          <6> QED BY <6>1, <6>2, <6>3
        <5> QED BY <5>2
      <4> QED BY <3>3, <4>2, <4>3, <4>4 DEF Reads
    <3> QED BY <3>3, <3>4 DEF r
  <2>5. CASE ~f[i + 1].ok
    <3>1. r = f[i + 1]
      BY <1>6, <2>5, UnaryAtIs
    <3> HIDE DEF r
    <3>2. ASSUME NEW b \in Pos, Peek(b) \in Follows PROVE Reads(r, b, Senses(g.unary, i, b))
      <4>1. Reads(f[i + 1], b, Senses(g.unary, i + 1, b))
        BY <2>3, <3>2
      <4>2. Senses(g.unary, i + 1, b) = {}
        BY <2>5, <4>1 DEF Reads
      <4>3. Senses(g.unary, i, b) = {}
        BY <2>2, <4>2 DEF Senses
      <4> QED BY <2>5, <3>1, <4>3 DEF Reads
    <3> QED BY <2>1, <3>1, <3>2 DEF r
  <2> QED BY <2>1, <2>4, <2>5
<1>7. CASE ParenAt(i)
  <2> DEFINE inner == Or(f, i + 1)
             v == inner.value
             m == inner.at
  <2>1. /\ inner \in Result
        /\ \A b \in Pos : Peek(b) \in {")", "end"} => Reads(inner, b, Senses(g.or, i + 1, b))
    BY <1>0, OrReads
  <2>2. v \in Outcome /\ m \in Pos /\ m \in Nat /\ inner.ok \in BOOLEAN
    BY <1>0, <2>1 DEF Result
  <2>3. \A b \in Pos : \A S : S \in Senses(g.unary, i, b) <=> ParenEndAt(b - 1) /\ S \in Senses(g.or, i + 1, b - 1)
    <3> SUFFICES ASSUME NEW b \in Pos, NEW S
                 PROVE  S \in Senses(g.unary, i, b) <=> ParenEndAt(b - 1) /\ S \in Senses(g.or, i + 1, b - 1)
      OBVIOUS
    <3>1. UnaryRule(g, i, b, S) <=> ParenEndAt(b - 1) /\ <<i + 1, b - 1, S>> \in g.or
      BY <1>2, <1>4, <1>7 DEF UnaryRule
    <3>2. ParenEndAt(b - 1) => b - 1 \in Pos
      <4>1. ParenEndAt(b - 1) => Peek(b - 1) # "end"
        BY DEF ParenEndAt
      <4> QED BY <4>1, PlaceOf
    <3>3. ASSUME ParenEndAt(b - 1), <<i + 1, b - 1, S>> \in g.or PROVE i < b /\ S \in SUBSET Scopes
      <4>1. b - 1 \in Pos
        BY <3>2, <3>3
      <4>2. i + 1 < b - 1 /\ S \in SUBSET Scopes
        BY <1>0, <1>5, <3>3, <4>1
      <4> QED BY <1>0, <4>2
    <3> QED BY <1>1, <3>1, <3>3 DEF Senses
  <2>4. \A b \in Pos : ParenEndAt(b - 1) => b - 1 \in Pos /\ Reads(inner, b - 1, Senses(g.or, i + 1, b - 1))
    <3> HIDE DEF inner
    <3>1. \A b : ParenEndAt(b - 1) => Peek(b - 1) # "end" /\ Peek(b - 1) \in {")", "end"}
      BY DEF ParenEndAt
    <3> QED BY <2>1, <3>1, PlaceOf
  <2>5. r = IF inner.ok THEN Expect(")", v, m) ELSE inner
    BY <1>7, UnaryAtIs
  <2>6. ")" \in Mark
    BY DEF Mark
  <2> HIDE DEF inner, v, m, r
  <2>7. ASSUME inner.ok
        PROVE  /\ r \in Result /\ (r.ok <=> ParenEndAt(m))
               /\ ParenEndAt(m) => r.at = m + 1 /\ r.value = v
    BY <2>2, <2>5, <2>6, <2>7, ExpectType DEF ParenEndAt
  <2>8. CASE inner.ok
    <3>1. ASSUME NEW b \in Pos, Peek(b) \in Follows PROVE Reads(r, b, Senses(g.unary, i, b))
      <4>1. ASSUME r.ok, r.at = b PROVE Senses(g.unary, i, b) # {} /\ (r.value = "throws" => UnknownWords # {})
        <5>1. ParenEndAt(m) /\ b = m + 1 /\ r.value = v /\ b - 1 = m
          BY <2>2, <2>7, <2>8, <4>1
        <5>2. Reads(inner, m, Senses(g.or, i + 1, m))
          BY <2>4, <5>1
        <5>3. Senses(g.or, i + 1, m) # {} /\ (v = "throws" => UnknownWords # {})
          BY <2>8, <5>2 DEF Reads, v, m
        <5> QED BY <2>3, <5>1, <5>3
      <4>2. ASSUME NEW S \in Senses(g.unary, i, b) PROVE r.ok /\ r.at = b /\ Meant(r.value, S)
        <5>1. ParenEndAt(b - 1) /\ S \in Senses(g.or, i + 1, b - 1)
          BY <2>3, <4>2
        <5>2. Reads(inner, b - 1, Senses(g.or, i + 1, b - 1))
          BY <2>4, <5>1
        <5>3. m = b - 1 /\ Meant(v, S)
          BY <5>1, <5>2 DEF Reads, v, m
        <5>4. m + 1 = b
          BY <1>0, <5>3
        <5> QED BY <2>7, <2>8, <5>1, <5>3, <5>4
      <4>3. \A S, T \in Senses(g.unary, i, b) : S = T
        BY <2>3, <2>4 DEF Reads
      <4> QED BY <4>1, <4>2, <4>3 DEF Reads
    <3> QED BY <2>7, <2>8, <3>1 DEF r
  <2>9. CASE ~inner.ok
    <3>1. ASSUME NEW b \in Pos, Peek(b) \in Follows PROVE Reads(r, b, Senses(g.unary, i, b))
      <4>1. Senses(g.unary, i, b) = {}
        <5>1. ASSUME NEW S \in Senses(g.unary, i, b) PROVE FALSE
          <6>1. ParenEndAt(b - 1) /\ S \in Senses(g.or, i + 1, b - 1)
            BY <2>3, <5>1
          <6>2. Reads(inner, b - 1, Senses(g.or, i + 1, b - 1))
            BY <2>4, <6>1
          <6> QED BY <2>9, <6>1, <6>2 DEF Reads
        <5> QED BY <5>1
      <4> QED BY <2>5, <2>9, <4>1 DEF Reads
    <3> QED BY <2>1, <2>5, <2>9, <3>1 DEF r
  <2> QED BY <2>2, <2>8, <2>9
<1>8. CASE Peek(i) # "not" /\ ~ParenAt(i)
  <2>1. r = ParseComparison(i)
    BY <1>8, UnaryAtIs
  <2>2. \A b \in Pos : Senses(g.unary, i, b) = Comparisons(i, b)
    <3> SUFFICES ASSUME NEW b \in Pos, NEW S PROVE S \in Senses(g.unary, i, b) <=> S \in Comparisons(i, b)
      BY DEF Senses
    <3>1. UnaryRule(g, i, b, S) <=> S \in Comparisons(i, b)
      BY <1>8 DEF UnaryRule
    <3> QED BY <1>1, <1>2, <3>1
  <2> HIDE DEF r
  <2> QED BY <1>0, <2>1, <2>2, ComparisonRead DEF r
<1> QED BY <1>6, <1>7, <1>8

\* Unary, of which the next lemmas show that it exists and reads
IsUnary(g) ==
  g = [n \in 0..Len(tokens) |->
         IF n = 0 THEN [i \in Pos |-> Throws(i)]
         ELSE LET later == g[n - 1]
                  i == Len(tokens) + 1 - n
              IN  [later EXCEPT ![i] = UnaryAt(later, i)]]

\* Starting at the end, nothing can be read.
LEMMA EndReads ==
  ASSUME CondTypeOK, NEW g, Grammatical(g)
  PROVE  ReadsFrom([i \in Pos |-> Throws(i)], g, Len(tokens) + 1)
<1> DEFINE f == [i \in Pos |-> Throws(i)]
<1>0. /\ \A i \in Pos : i \in Nat /\ i <= Len(tokens) + 1
      /\ Len(tokens) \in Nat
  BY TokenTypes DEF Pos
<1>1. f \in [Pos -> Result] /\ \A i \in Pos : f[i].ok = FALSE
  BY ThrowsType
<1>2. ASSUME NEW j \in Pos, j >= Len(tokens) + 1, NEW b \in Pos PROVE Senses(g.unary, j, b) = {}
  <2>1. ~(j < b)
    BY <1>0, <1>2
  <2> QED BY <2>1 DEF Senses, Grammatical
<1> HIDE DEF f
<1>3. ReadsFrom(f, g, Len(tokens) + 1)
  BY <1>1, <1>2 DEF ReadsFrom, Reads
<1> QED BY <1>3 DEF f

\* With one more token before what is read, the row reads that too.
LEMMA OneMoreReads ==
  ASSUME CondTypeOK, NEW g, Grammatical(g), NEW i \in 1..Len(tokens), NEW f, ReadsFrom(f, g, i + 1)
  PROVE  ReadsFrom([f EXCEPT ![i] = UnaryAt(f, i)], g, i)
<1> DEFINE h == [f EXCEPT ![i] = UnaryAt(f, i)]
<1>0. i \in Pos /\ i \in Nat /\ \A j \in Pos : j \in Nat
  BY TokenTypes DEF Pos
<1>1. /\ UnaryAt(f, i) \in Result
      /\ \A b \in Pos : Peek(b) \in Follows => Reads(UnaryAt(f, i), b, Senses(g.unary, i, b))
  BY UnaryRead
<1>2. h \in [Pos -> Result] /\ h[i] = UnaryAt(f, i) /\ \A j \in Pos : j # i => h[j] = f[j]
  BY <1>0, <1>1 DEF ReadsFrom
<1> HIDE DEF h
<1>3. ASSUME NEW j \in Pos, j >= i, NEW b \in Pos, Peek(b) \in Follows
      PROVE  Reads(h[j], b, Senses(g.unary, j, b))
  <2>1. CASE j = i
    BY <1>1, <1>2, <1>3, <2>1
  <2>2. CASE j # i
    <3>1. j >= i + 1
      BY <1>0, <1>3, <2>2
    <3> QED BY <1>2, <1>3, <2>2, <3>1 DEF ReadsFrom
  <2> QED BY <2>1, <2>2
<1>4. ReadsFrom(h, g, i)
  BY <1>2, <1>3 DEF ReadsFrom
<1> QED BY <1>4 DEF h

\* The whole condition is read by what parseUnary makes of its positions.
LEMMA UnaryReads ==
  ASSUME CondTypeOK, NEW g, Grammatical(g)
  PROVE  ReadsFrom(Unary[Len(tokens)], g, 1)
<1> DEFINE N == Len(tokens)
           Row == [Pos -> Result]
           none == [i \in Pos |-> Throws(i)]
           Add(later, n) == [later EXCEPT ![N + 1 - n] = UnaryAt(later, N + 1 - n)]
           at(n) == [later \in Row |->
                       IF ReadsFrom(later, g, N + 2 - n) THEN Add(later, n) ELSE later]
           step == [n \in 1..N |-> at(n)]
           u == CHOOSE u : IsUnary(u)
<1>0. N \in Nat
  BY TokenTypes
<1>1. Unary = u
  BY Zenon DEF Unary, IsUnary
<1>2. \A n \in 1..N : \A later : ReadsFrom(later, g, N + 2 - n) => ReadsFrom(Add(later, n), g, N + 1 - n)
  <2> SUFFICES ASSUME NEW n \in 1..N, NEW later, ReadsFrom(later, g, N + 2 - n)
               PROVE  ReadsFrom(Add(later, n), g, N + 1 - n)
    OBVIOUS
  <2> DEFINE i == N + 1 - n
  <2>1. i \in 1..N /\ i + 1 = N + 2 - n
    BY <1>0
  <2> HIDE DEF i
  <2>2. ReadsFrom([later EXCEPT ![i] = UnaryAt(later, i)], g, i)
    BY <2>1, OneMoreReads
  <2> QED BY <2>2 DEF i
<1>3. none \in Row /\ ReadsFrom(none, g, N + 1)
  <2>1. ReadsFrom(none, g, N + 1)
    BY EndReads
  <2> QED BY <2>1 DEF ReadsFrom
<1>4. step \in [1..N -> [Row -> Row]]
  <2>1. ASSUME NEW n \in 1..N, NEW later \in Row
        PROVE  (IF ReadsFrom(later, g, N + 2 - n) THEN Add(later, n) ELSE later) \in Row
    <3>1. ReadsFrom(later, g, N + 2 - n) => Add(later, n) \in Row
      <4> HIDE DEF N, Add
      <4>1. ReadsFrom(later, g, N + 2 - n) => ReadsFrom(Add(later, n), g, N + 1 - n)
        BY <1>2
      <4> QED BY <4>1 DEF ReadsFrom
    <3> HIDE DEF Add, N, Row
    <3> QED BY <3>1, <2>1
  <2> HIDE DEF Add, N, Row
  <2>2. \A n \in 1..N : at(n) \in [Row -> Row]
    BY <2>1
  <2> HIDE DEF at
  <2> QED BY <2>2
<1>5. \E h : IsRow(N, Row, none, step, h)
  <2> HIDE DEF N, Row, none, step
  <2> QED BY <1>0, <1>3, <1>4, Iteration
<1>6. PICK h : IsRow(N, Row, none, step, h)
  BY <1>5
<1>7. h \in [0..N -> Row] /\ h[0] = none /\ \A n \in 1..N : h[n] = step[n][h[n - 1]]
  <2> HIDE DEF N, Row, none, step
  <2> QED BY <1>6 DEF IsRow
<1>8. \A n \in 1..N : ReadsFrom(h[n - 1], g, N + 2 - n) => h[n] = Add(h[n - 1], n)
  <2> SUFFICES ASSUME NEW n \in 1..N, ReadsFrom(h[n - 1], g, N + 2 - n) PROVE h[n] = Add(h[n - 1], n)
    OBVIOUS
  <2>1. h[n - 1] \in Row
    <3>1. n - 1 \in 0..N
      BY <1>0
    <3> HIDE DEF N, Row
    <3> QED BY <1>7, <3>1
  <2>2. step[n][h[n - 1]] = Add(h[n - 1], n)
    <3> HIDE DEF Add, N, Row
    <3> QED BY <2>1
  <2> QED BY <1>7, <2>2
<1> HIDE DEF step, none, N, Row, Add
<1>9. \A n \in 0..N : ReadsFrom(h[n], g, N + 1 - n)
  <2> DEFINE T == {n \in Nat : n <= N => ReadsFrom(h[n], g, N + 1 - n)}
  <2>1. 0 \in T
    <3>1. N + 1 - 0 = N + 1
      BY <1>0
    <3> QED BY <1>3, <1>7, <3>1
  <2>2. ASSUME NEW n \in Nat, n \in T PROVE n + 1 \in T
    <3> SUFFICES ASSUME n + 1 <= N PROVE ReadsFrom(h[n + 1], g, N + 1 - (n + 1))
      OBVIOUS
    <3>1. ReadsFrom(h[n], g, N + 1 - n) /\ N + 1 - n = N + 2 - (n + 1) /\ n + 1 \in 1..N /\ (n + 1) - 1 = n
      BY <1>0, <2>2
    <3>2. h[n + 1] = Add(h[n], n + 1)
      BY <1>8, <3>1
    <3> QED BY <1>2, <3>1, <3>2
  <2>3. Nat \subseteq T
    <3> HIDE DEF T
    <3> QED BY <2>1, <2>2, SetInduction
  <2> QED BY <1>0, <2>3
<1>10. \A n \in 1..N : h[n] = Add(h[n - 1], n)
  <2> SUFFICES ASSUME NEW n \in 1..N PROVE h[n] = Add(h[n - 1], n)
    OBVIOUS
  <2>1. n - 1 \in 0..N /\ N + 1 - (n - 1) = N + 2 - n
    BY <1>0
  <2>2. ReadsFrom(h[n - 1], g, N + 2 - n)
    BY <1>9, <2>1
  <2> QED BY <1>8, <2>2
<1>11. IsUnary(h)
  <2>1. \A n \in 0..N : h[n] = IF n = 0 THEN none ELSE Add(h[n - 1], n)
    BY <1>0, <1>7, <1>10
  <2>2. h = [n \in 0..N |-> IF n = 0 THEN none ELSE Add(h[n - 1], n)]
    BY <1>7, <2>1
  <2> QED BY <2>2 DEF IsUnary, none, Add, N
<1>12. IsUnary(u)
  BY <1>11
<1> HIDE DEF u
<1>13. u = [n \in 0..N |-> IF n = 0 THEN none ELSE Add(u[n - 1], n)]
  BY <1>12 DEF IsUnary, none, Add, N
<1>14. \A n \in 0..N : ReadsFrom(u[n], g, N + 1 - n)
  <2> DEFINE T == {n \in Nat : n <= N => ReadsFrom(u[n], g, N + 1 - n)}
  <2>1. 0 \in T
    <3>1. N + 1 - 0 = N + 1 /\ u[0] = none
      BY <1>0, <1>13
    <3> QED BY <1>3, <3>1
  <2>2. ASSUME NEW n \in Nat, n \in T PROVE n + 1 \in T
    <3> SUFFICES ASSUME n + 1 <= N PROVE ReadsFrom(u[n + 1], g, N + 1 - (n + 1))
      OBVIOUS
    <3>1. ReadsFrom(u[n], g, N + 1 - n) /\ N + 1 - n = N + 2 - (n + 1) /\ n + 1 \in 1..N /\ (n + 1) - 1 = n
      BY <1>0, <2>2
    <3>2. u[n + 1] = Add(u[n], n + 1)
      BY <1>0, <1>13, <3>1
    <3> QED BY <1>2, <3>1, <3>2
  <2>3. Nat \subseteq T
    <3> HIDE DEF T
    <3> QED BY <2>1, <2>2, SetInduction
  <2> QED BY <1>0, <2>3
<1>15. N \in 0..N /\ N + 1 - N = 1
  BY <1>0
<1> QED BY <1>1, <1>14, <1>15 DEF N

\* A condition is read as a whole.
LEMMA ReadingsAre ==
  ASSUME CondTypeOK
  PROVE  Readings = Senses(Phrases.or, 1, Len(tokens) + 1)
<1>1. Phrases.or \subseteq Phrase
  BY Grammar DEF Grammatical, Table
<1>2. ASSUME NEW S \in Readings PROVE S \in Senses(Phrases.or, 1, Len(tokens) + 1)
  <2>1. PICK p \in Phrases.or : p[1] = 1 /\ p[2] = Len(tokens) + 1 /\ S = p[3]
    BY <1>2 DEF Readings
  <2>2. p = <<p[1], p[2], p[3]>> /\ p[3] \in SUBSET Scopes
    BY <1>1, <2>1, PhraseIs
  <2> QED BY <2>1, <2>2 DEF Senses
<1>3. ASSUME NEW S \in Senses(Phrases.or, 1, Len(tokens) + 1) PROVE S \in Readings
  <2> DEFINE p == <<1, Len(tokens) + 1, S>>
  <2>1. p \in Phrases.or /\ p[1] = 1 /\ p[2] = Len(tokens) + 1 /\ S = p[3]
    BY <1>3 DEF Senses
  <2> HIDE DEF p
  <2> QED BY <2>1 DEF Readings
<1> QED BY <1>2, <1>3

LEMMA AstReads ==
  ASSUME CondTypeOK
  PROVE  Ast \in Result /\ Reads(Ast, Len(tokens) + 1, Readings)
<1>1. Grammatical(Phrases)
  BY Grammar
<1>2. ReadsFrom(Unary[Len(tokens)], Phrases, 1)
  BY <1>1, UnaryReads
<1>3. 1 \in Pos /\ Len(tokens) + 1 \in Pos /\ Peek(Len(tokens) + 1) = "end"
  BY TokenTypes DEF Pos
<1> QED BY <1>1, <1>2, <1>3, OrReads, ReadingsAre DEF Ast

\* What is to be shown of an answer.
Justified(answer) == CASE answer = "invalid" -> tokens # <<>> /\ Readings = {}
                   [] answer = "throws" -> UnknownWords # {} /\ \E S \in Readings : Readings = {S}
                   [] answer = "true" -> tokens = <<>> \/ Readings = {Scopes}
                   [] answer = "false" -> Readings = {{}}

LEMMA JustifiedIs ==
  /\ tokens # <<>> /\ Readings = {} => Justified("invalid")
  /\ UnknownWords # {} /\ (\E S \in Readings : Readings = {S}) => Justified("throws")
  /\ tokens = <<>> \/ Readings = {Scopes} => Justified("true")
  /\ Readings = {{}} => Justified("false")
BY DEF Justified

\* So is the answer of evaluate.
LEMMA EvaluateMeans ==
  ASSUME CondTypeOK
  PROVE  ConditionMeansWhatItSays
<1> DEFINE v == Ast.value
           R == Readings
           a == Evaluate
<1>1. /\ Ast.ok \in BOOLEAN /\ Ast.at \in 1..Len(tokens) + 1 /\ v \in Outcome
      /\ Len(tokens) \in Nat
  BY AstReads, TokenTypes DEF Result, Pos
<1>2. /\ Ast.ok /\ Ast.at = Len(tokens) + 1 => R # {} /\ (v = "throws" => UnknownWords # {})
      /\ \A S \in R : /\ Ast.ok /\ Ast.at = Len(tokens) + 1
                      /\ v = "throws" \/ S = IF Truthy(v) THEN Scopes ELSE {}
      /\ \A S, T \in R : S = T
  BY AstReads DEF Reads, Meant
<1>3. a = IF tokens = <<>> THEN "true"
          ELSE IF ~Ast.ok \/ Ast.at <= Len(tokens) THEN "invalid"
          ELSE Verdict(v)
  BY Zenon DEF Evaluate
<1> SUFFICES Justified(a)
  BY Zenon DEF ConditionMeansWhatItSays, Justified
<1> HIDE DEF v, R, a
<1>4. CASE tokens = <<>>
  BY <1>3, <1>4, JustifiedIs
<1>5. CASE tokens # <<>> /\ (~Ast.ok \/ Ast.at <= Len(tokens))
  <2>1. R = {} /\ a = "invalid"
    BY <1>1, <1>2, <1>3, <1>5
  <2> QED BY <1>5, <2>1, JustifiedIs DEF R
<1>6. CASE tokens # <<>> /\ Ast.ok /\ ~(Ast.at <= Len(tokens))
  <2>1. Ast.at = Len(tokens) + 1 /\ a = Verdict(v)
    BY <1>1, <1>3, <1>6
  <2>2. CASE v = "throws"
    <3>1. a = "throws" /\ UnknownWords # {}
      BY <1>2, <1>6, <2>1, <2>2 DEF Verdict
    <3>2. PICK S \in R : R = {S}
      BY <1>2, <1>6, <2>1
    <3> QED BY <3>1, <3>2, JustifiedIs DEF R
  <2>3. CASE v # "throws" /\ Truthy(v)
    <3>1. a = "true" /\ R = {Scopes}
      BY <1>2, <1>6, <2>1, <2>3 DEF Verdict, Bool
    <3> QED BY <3>1, JustifiedIs DEF R
  <2>4. CASE v # "throws" /\ ~Truthy(v)
    <3>1. a = "false" /\ R = {{}}
      BY <1>2, <1>6, <2>1, <2>4 DEF Verdict, Bool
    <3> QED BY <3>1, JustifiedIs DEF R
  <2> QED BY <2>2, <2>3, <2>4
<1> QED BY <1>4, <1>5, <1>6

\* However a condition is written, it is made of tokens.
LEMMA CondTypeInductive ==
  /\ CondInit => CondTypeOK
  /\ CondTypeOK /\ [CondNext]_condVars => CondTypeOK'
<1>1. CondInit => CondTypeOK
  BY DEF CondInit, CondTypeOK
<1>2. ASSUME CondTypeOK, CondNext PROVE CondTypeOK'
  <2>1. PICK t \in Token : tokens' = Append(tokens, t) /\ statusFailed' = statusFailed
    BY <1>2 DEF CondNext, Write
  <2> HIDE DEF Token
  <2> QED BY <1>2, <2>1 DEF CondTypeOK
<1>3. CondTypeOK /\ UNCHANGED condVars => CondTypeOK'
  BY DEF CondTypeOK, condVars
<1> QED BY <1>1, <1>2, <1>3

\* For any words, literals and values of references, any status, and conditions of any length,
\* evaluate accepts exactly what the grammar allows, which allows it in one sense only, and
\* answers what the condition says in every scope that has the known references right; it
\* throws for an unknown reference and for nothing else that the grammar allows.
THEOREM ConditionsMeanWhatTheySay == CondSpec => []ConditionMeansWhatItSays
<1>1. CondTypeOK => ConditionMeansWhatItSays
  BY EvaluateMeans
<1> QED BY <1>1, CondTypeInductive, PTL DEF CondSpec
=============================================================================
