--------------------------- MODULE ToolPlanProofs ---------------------------
(* Proofs about ToolPlan, for batches of any length and any set of files. *)
EXTENDS ToolPlan, TLAPS, WellFoundedInduction

-----------------------------------------------------------------------------
(* The declarations *)

LEMMA FilesClash ==
    ASSUME NEW a \in Resources, NEW b \in Resources, Paths # {}
    PROVE  /\ FileConflict(a, b) <=> /\ a.mode # "none" /\ b.mode # "none"
                                     /\ a.mode = "write" \/ b.mode = "write"
                                     /\ PathsOf(a) \cap PathsOf(b) # {}
           /\ a.mode # "none" => PathsOf(a) # {} /\ PathsOf(a) \subseteq Paths
BY DEF FileConflict, PathsOverlap, PathsOf, Resources

\* The rules of hasResourceConflict find exactly the pairs of which one writes what the other uses.
THEOREM ConflictIsClash ==
    ASSUME NEW a \in Resources, NEW b \in Resources
    PROVE  HasResourceConflict(a, b) <=> Clash(a, b)
<1>. USE PlanAssumption
<1> DEFINE Half(x, y) ==
        \/ /\ x.mode = "write" /\ y.mode # "none"
           /\ PathsOf(x) \cap PathsOf(y) # {}
        \/ x.mode = "write" /\ y.gitCommit
        \/ x.sandbox \in Exclusive /\ y.sandbox # "none"
        \/ x.blueprint /\ y.blueprint
<1>1. ASSUME NEW x \in Resources, NEW y \in Resources
      PROVE  Writes(x) \cap Uses(y) # {} <=> Half(x, y)
  <2>0. /\ x.mode # "none" => PathsOf(x) # {} /\ PathsOf(x) \subseteq Paths
        /\ y.mode # "none" => PathsOf(y) # {} /\ PathsOf(y) \subseteq Paths
        /\ y.mode = "none" => PathsOf(y) = {}
    BY <1>1, FilesClash DEF PathsOf
  <2>1. ASSUME Writes(x) \cap Uses(y) # {} PROVE Half(x, y)
    <3>1. PICK u : u \in Writes(x) /\ u \in Uses(y)
      BY <2>1
    <3>2. CASE \E f \in PathsOf(x) : x.mode = "write" /\ u = <<"file", f>>
      BY <2>0, <3>1, <3>2 DEF Uses, Resources
    <3>3. CASE u = <<"sandbox">> /\ x.sandbox \in Exclusive
      BY <3>1, <3>3 DEF Uses, Resources
    <3>4. CASE u = <<"blueprint">> /\ x.blueprint
      BY <3>1, <3>4 DEF Uses, Resources
    <3>. QED
      BY <3>1, <3>2, <3>3, <3>4 DEF Writes
  <2>2. ASSUME Half(x, y) PROVE Writes(x) \cap Uses(y) # {}
    <3>1. CASE x.mode = "write" /\ y.mode # "none" /\ PathsOf(x) \cap PathsOf(y) # {}
      <4>1. PICK f : f \in PathsOf(x) /\ f \in PathsOf(y)
        BY <3>1
      <4>2. <<"file", f>> \in Writes(x) /\ <<"file", f>> \in Uses(y)
        BY <2>0, <3>1, <4>1 DEF Writes, Uses
      <4>. QED
        BY <4>2
    <3>2. CASE x.mode = "write" /\ y.gitCommit
      <4>1. PICK f : f \in PathsOf(x) /\ f \in Paths
        BY <2>0, <3>2
      <4>2. <<"file", f>> \in Writes(x) /\ <<"file", f>> \in Uses(y)
        BY <3>2, <4>1 DEF Writes, Uses
      <4>. QED
        BY <4>2
    <3>3. CASE x.sandbox \in Exclusive /\ y.sandbox # "none"
      <4>1. <<"sandbox">> \in Writes(x) /\ <<"sandbox">> \in Uses(y)
        BY <3>3 DEF Writes, Uses
      <4>. QED
        BY <4>1
    <3>4. CASE x.blueprint /\ y.blueprint
      <4>1. <<"blueprint">> \in Writes(x) /\ <<"blueprint">> \in Uses(y)
        BY <3>4 DEF Writes, Uses
      <4>. QED
        BY <4>1
    <3>. QED
      BY <2>2, <3>1, <3>2, <3>3, <3>4
  <2>. QED
    BY <2>1, <2>2
<1>2. Clash(a, b) <=> Half(a, b) \/ Half(b, a)
  BY <1>1 DEF Clash
<1>3. HasResourceConflict(a, b) <=> Half(a, b) \/ Half(b, a)
  BY FilesClash DEF HasResourceConflict, Resources, Exclusive
<1>. QED
  BY <1>2, <1>3

-----------------------------------------------------------------------------
(* Type correctness *)

LEMMA PlanTypeStep ==
    ASSUME PlanTypeOK, PlanNext
    PROVE  PlanTypeOK'
<1>. USE PlanAssumption DEF PlanTypeOK
<1>1. ASSUME NEW b \in Batches, PlanBatch(b) PROVE PlanTypeOK'
  BY <1>1 DEF PlanBatch
<1>2. CASE GroupStarts
  BY <1>2 DEF GroupStarts
<1>3. ASSUME NEW i \in 1..Len(batch), NEW how \in {"done", "thrown"}, CallEnds(i, how)
      PROVE  PlanTypeOK'
  BY <1>3 DEF CallEnds
<1>4. CASE BatchEnds \/ BatchRejected
  <2>1. batch' = <<>> /\ calls' = <<>>
    BY <1>4 DEF BatchEnds, BatchRejected
  <2>2. 1..Len(<<>>) = {}
    OBVIOUS
  <2>3. <<>> \in [1..Len(<<>>) -> {"new", "running", "done", "thrown"}]
    BY <2>2
  <2>. QED
    BY <2>1, <2>3
<1>. QED
  BY <1>1, <1>2, <1>3, <1>4 DEF PlanNext

\* The state of a batch has its shape, whatever the model answers.
THEOREM PlanTypeCorrect == PlanSpec => []PlanTypeOK
<1>1. PlanInit => PlanTypeOK
  BY DEF PlanInit, PlanTypeOK
<1>2. PlanTypeOK /\ [PlanNext]_planVars => PlanTypeOK'
  BY PlanTypeStep DEF PlanTypeOK, planVars
<1>. QED
  BY <1>1, <1>2, PTL DEF PlanSpec

-----------------------------------------------------------------------------
(* Order *)

\* Inductive: a call that has started has all it depends on behind it.
DependenciesDone ==
    \A i \in 1..Len(batch) : calls[i] # "new" => \A j \in DependsOn(batch, i) : calls[j] = "done"

LEMMA DependsOnPlace ==
    ASSUME PlanTypeOK, NEW i \in 1..Len(batch), NEW j \in DependsOn(batch, i)
    PROVE  j \in 1..Len(batch) /\ j < i
BY DEF DependsOn, PlanTypeOK

LEMMA DependenciesDoneStep ==
    ASSUME PlanTypeOK, DependenciesDone, PlanNext
    PROVE  DependenciesDone'
<1>1. ASSUME NEW b \in Batches, PlanBatch(b) PROVE DependenciesDone'
  BY <1>1, PlanAssumption DEF PlanBatch, DependenciesDone
<1>2. CASE GroupStarts
  <2>1. /\ batch' = batch
        /\ \A i \in 1..Len(batch) : calls[i] = "done" => calls'[i] = "done"
        /\ \A i \in 1..Len(batch) : calls'[i] # "new" => calls[i] # "new" \/ i \in NextGroup
    BY <1>2 DEF GroupStarts, NextGroup
  <2>2. ASSUME NEW i \in 1..Len(batch), calls'[i] # "new", NEW j \in DependsOn(batch, i)
        PROVE  calls'[j] = "done"
    <3>1. calls[j] = "done"
      BY <2>1, <2>2 DEF DependenciesDone, NextGroup
    <3>. QED
      BY <2>1, <3>1, DependsOnPlace
  <2>. QED
    BY <2>1, <2>2 DEF DependenciesDone
<1>3. ASSUME NEW k \in 1..Len(batch), NEW how \in {"done", "thrown"}, CallEnds(k, how)
      PROVE  DependenciesDone'
  <2>1. /\ batch' = batch
        /\ \A i \in 1..Len(batch) : calls[i] = "done" => calls'[i] = "done"
        /\ \A i \in 1..Len(batch) : calls'[i] # "new" => calls[i] # "new"
    BY <1>3 DEF CallEnds, PlanTypeOK
  <2>. QED
    BY <2>1, DependsOnPlace DEF DependenciesDone
<1>4. CASE BatchEnds \/ BatchRejected
  BY <1>4 DEF BatchEnds, BatchRejected, DependenciesDone
<1>. QED
  BY <1>1, <1>2, <1>3, <1>4 DEF PlanNext

LEMMA DependenciesKeepOrder ==
    ASSUME PlanTypeOK, DependenciesDone
    PROVE  ConflictsInOrder
<1>. SUFFICES ASSUME NEW i \in 1..Len(batch), NEW j \in 1..Len(batch),
                     i < j, batch[i] # NoResources, batch[j] # NoResources,
                     Clash(batch[i], batch[j]), calls[j] # "new"
              PROVE  calls[i] = "done"
  BY DEF ConflictsInOrder
<1>1. batch[i] \in Resources /\ batch[j] \in Resources
  BY DEF PlanTypeOK
<1>2. HasResourceConflict(batch[j], batch[i])
  BY <1>1, ConflictIsClash DEF Clash
<1>3. i \in DependsOn(batch, j)
  BY <1>2 DEF DependsOn
<1>. QED
  BY <1>3 DEF DependenciesDone

\* Calls that clash run one after the other, in the order the model gave them, in a batch of any
\* length.
THEOREM ConflictsKeepOrder == PlanSpec => []ConflictsInOrder
<1>1. PlanInit => DependenciesDone
  BY DEF PlanInit, DependenciesDone
<1>2. PlanTypeOK /\ DependenciesDone /\ [PlanNext]_planVars => DependenciesDone'
  BY DependenciesDoneStep DEF DependenciesDone, planVars
<1>. QED
  BY <1>1, <1>2, PlanTypeCorrect, DependenciesKeepOrder, PTL DEF PlanSpec

\* The first call that is left depends on none that is left.
LEMMA SomeGroupIsNext == ASSUME PlanTypeOK PROVE NeverCircular
<1>. SUFFICES ASSUME \A i \in 1..Len(batch) : calls[i] \in {"new", "done"},
                     ~ \A i \in 1..Len(batch) : calls[i] = "done"
              PROVE  NextGroup # {}
  BY DEF NeverCircular
<1> DEFINE left == {i \in 1..Len(batch) : calls[i] = "new"}
<1>1. left \subseteq Nat /\ left # {}
  BY DEF PlanTypeOK
<1>2. PICK i \in left : \A j \in left : ~ (<<j, i>> \in OpToRel(<, Nat))
  <2>. HIDE DEF left
  <2>. QED
    BY <1>1, NatLessThanWellFounded, WFMin, Zenon
<1>3. \A j \in left : ~ (j < i)
  <2>. HIDE DEF left
  <2>. QED
    BY <1>1, <1>2, Zenon DEF OpToRel
<1>4. ASSUME NEW j \in DependsOn(batch, i) PROVE calls[j] = "done"
  BY <1>3, DependsOnPlace
<1>5. i \in NextGroup
  BY <1>4 DEF NextGroup
<1>. QED
  BY <1>5

\* The plan is never stuck, in a batch of any length.
THEOREM PlanIsNeverCircular == PlanSpec => []NeverCircular
BY PlanTypeCorrect, SomeGroupIsNext, PTL
=============================================================================
