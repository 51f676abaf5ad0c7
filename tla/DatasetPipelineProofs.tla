------------------------- MODULE DatasetPipelineProofs -------------------------
(***************************************************************************)
(* Proofs about DatasetPipeline: what a recorded version and a derived dataset  *)
(* stand for, and that linking depends on no order, for any datasets, contents,  *)
(* numbers of faults and manual merges.                                         *)
(***************************************************************************)
EXTENDS DatasetPipeline, FiniteSetTheorems, WellFoundedInduction, TLAPS

-----------------------------------------------------------------------------
(* The invariant. *)

Phases  == {"none", "start", "stop", "journey", "cleanup", "record", "done", "failed"}
JobType == [phase: Phases, rev: Nat, stamp: Nat, lost: BOOLEAN]
Version == Nat \cup {None}

TypeOK ==
  /\ \A d \in Datasets : file[d] \in DOMAIN Files[d]
  /\ file \in [Datasets -> Nat]
  /\ version \in [Datasets -> Version] /\ intact \in [Datasets -> BOOLEAN]
  /\ newer \in [Datasets -> [Derived -> BOOLEAN]]
  /\ used \in [Derived -> {None} \cup [Datasets -> Version]]
  /\ job \in [Datasets -> JobType]
  /\ stage \in {"idle"} \cup Range(Stages)
  /\ IsFiniteSet(raw) /\ IsFiniteSet(journeys)

\* Only imports have jobs, and no later task has read anything before the first begins.
OneStageAtATime ==
  /\ stage # "import" => \A d \in Datasets : job[d].phase = "none"
  /\ stage \in {"idle", "import"} => held = None

\* A row is made of a record of its dataset, one for each key of a kind.
RowsAreRecords ==
  /\ \A r \in raw :
       /\ r.dataset \in Datasets
       /\ \E q \in Records(r.dataset) :
            r = [kind |-> q.kind, key |-> q.key, ids |-> q.ids, born |-> q.born,
                 dataset |-> r.dataset, stamp |-> r.stamp]
  /\ \A r, s \in raw : r.kind = s.kind /\ r.key = s.key => r = s

\* How far the import of a dataset has come, by the rows that have its stamp.
Stamped(d) == {r \in RowsOf(d) : r.stamp = job[d].stamp}
Target(d)  == Rows(d, job[d].rev, job[d].stamp)
ImportOnItsWay(d) ==
  /\ job[d].phase \in {"stop", "journey", "cleanup", "record"} => job[d].rev \in DOMAIN Files[d]
  /\ job[d].phase \in {"journey", "cleanup", "record"} => ~intact[d]
  /\ job[d].phase = "stop" => Stamped(d) = {}
  /\ job[d].phase = "journey" => Stamped(d) = {r \in Target(d) : r.kind = "stop"}
  /\ job[d].phase = "cleanup" => Stamped(d) = Target(d)
  /\ job[d].phase = "record" /\ ~job[d].lost => RowsOf(d) = Target(d)

ImportInv ==
  /\ TypeOK /\ OneStageAtATime /\ RowsAreRecords /\ RecordedIsUsed
  /\ \A d \in Datasets : ImportOnItsWay(d)

\* The stops parted in two so that no identifier is listed on both sides.
Sides == {side \in SUBSET Raw("stop") : \A a \in side, b \in Raw("stop") \ side : ~Touch(a, b)}
Names(side) == UNION {Identifiers(r) : r \in side}
Uncut(set, names) == set \subseteq names \/ set \cap names = {}

\* The groups are disjoint, and the index says of each identifier in which one it is.
IndexMatches(acc) ==
  /\ \A i \in DOMAIN acc.at : acc.at[i] \in DOMAIN acc.groups /\ i \in acc.groups[acc.at[i]]
  /\ \A n \in DOMAIN acc.groups : \A i \in acc.groups[n] : i \in DOMAIN acc.at /\ acc.at[i] = n

\* What was absorbed is in one of the groups, and nothing parts a group that shares no identifiers.
Merging ==
  /\ held.left \subseteq SharedGroups
  /\ held.groups \in Seq(SUBSET Names(Raw("stop"))) /\ IndexMatches(held)
  /\ \A g \in SharedGroups \ held.left : \E n \in DOMAIN held.groups : g \subseteq held.groups[n]
  /\ \A n \in DOMAIN held.groups : \A side \in Sides : Uncut(held.groups[n], Names(side))

LinkInv == ImportInv /\ (stage = "link" /\ held # None => Merging)
-----------------------------------------------------------------------------
(* Merging groups that overlap. *)

LEMMA Least ==
  ASSUME NEW S, S \subseteq Nat, S # {}
  PROVE  Min(S) \in S
<1>. DEFINE R == OpToRel(<, Nat)
<1>1. IsWellFoundedOn(R, Nat)
  BY NatLessThanWellFounded, Zenon
<1>2. \A m, n \in Nat : m < n => <<m, n>> \in R
  BY Zenon DEF OpToRel
<1>. HIDE DEF R
<1>3. PICK n \in S : \A m \in S : ~(<<m, n>> \in R)
  BY <1>1, WFMin, Zenon
<1>4. ASSUME NEW m \in S
      PROVE  n =< m
  <2>1. m \in Nat /\ n \in Nat
    BY Zenon
  <2>2. ~(m < n)
    BY <1>2, <1>3, <2>1, Zenon
  <2>. QED  BY <2>1, <2>2
<1>. QED  BY <1>4 DEF Min

\* The groups after one more has been absorbed: the group that took it and what it overlaps,
\* those that were taken over, and those that stay.
Took(acc, g, new, base, hit) ==
  /\ base \in DOMAIN new.groups /\ hit \subseteq DOMAIN acc.groups
  /\ \A n \in DOMAIN acc.groups : n \in hit <=> g \cap acc.groups[n] # {}
  /\ hit = {} => base \notin DOMAIN acc.groups
  /\ hit # {} => base \in hit
  /\ DOMAIN new.groups = DOMAIN acc.groups \cup {base}
  /\ new.groups[base] = g \cup UNION {acc.groups[n] : n \in hit}
  /\ \A n \in hit \ {base} : new.groups[n] = {}
  /\ \A n \in DOMAIN acc.groups \ (hit \cup {base}) : new.groups[n] = acc.groups[n]
  /\ DOMAIN new.at = DOMAIN acc.at \cup new.groups[base]
  /\ \A i \in DOMAIN new.at : new.at[i] = IF i \in new.groups[base] THEN base ELSE acc.at[i]

LEMMA Absorbed ==
  ASSUME NEW U, NEW acc, acc.groups \in Seq(SUBSET U), IndexMatches(acc),
         NEW g, g \subseteq U
  PROVE  /\ Absorb(acc, g).groups \in Seq(SUBSET U)
         /\ \E base, hit : Took(acc, g, Absorb(acc, g), base, hit)
<1>. DEFINE hit  == {acc.at[i] : i \in g \cap DOMAIN acc.at}
            base == IF hit = {} THEN Len(acc.groups) + 1 ELSE Min(hit)
            all  == g \cup UNION {acc.groups[n] : n \in hit}
            groups == [n \in DOMAIN acc.groups \cup {base} |->
                         IF n = base THEN all ELSE IF n \in hit THEN {} ELSE acc.groups[n]]
            at == [i \in DOMAIN acc.at \cup all |-> IF i \in all THEN base ELSE acc.at[i]]
<1>1. Absorb(acc, g) = [groups |-> groups, at |-> at]
  BY DEF Absorb
<1>2. DOMAIN acc.groups = 1..Len(acc.groups) /\ Len(acc.groups) \in Nat
  OBVIOUS
<1>3. hit \subseteq DOMAIN acc.groups
  BY DEF IndexMatches
<1>4. \A n \in DOMAIN acc.groups : n \in hit <=> g \cap acc.groups[n] # {}
  BY DEF IndexMatches
<1>5. IF hit = {} THEN base = Len(acc.groups) + 1 ELSE base \in hit
  <2>1. hit \subseteq Nat
    BY <1>2, <1>3
  <2>. QED  BY <2>1, Least
<1>. HIDE DEF hit, base
<1>7. all \subseteq U
  <2>1. \A n \in hit : acc.groups[n] \subseteq U
    BY <1>3
  <2>. QED  BY <2>1
<1>8. all = g \cup UNION {acc.groups[n] : n \in hit}
  OBVIOUS
<1>. HIDE DEF all
<1>9. groups \in Seq(SUBSET U)
  <2>. DEFINE size == IF hit = {} THEN Len(acc.groups) + 1 ELSE Len(acc.groups)
  <2>1. size \in Nat /\ DOMAIN acc.groups \cup {base} = 1..size
    <3>1. CASE hit = {}
      BY <1>2, <1>5, <3>1
    <3>2. CASE hit # {}
      BY <1>2, <1>3, <1>5, <3>2
    <3>. QED  BY <3>1, <3>2
  <2>2. \A n \in DOMAIN acc.groups \cup {base} : groups[n] \in SUBSET U
    BY <1>7
  <2>. HIDE DEF size
  <2>3. groups = [n \in 1..size |-> groups[n]]
    BY <2>1
  <2>. HIDE DEF groups
  <2>4. groups \in [1..size -> SUBSET U]
    BY <2>1, <2>2, <2>3
  <2>. QED  BY <2>1, <2>4
<1>10. /\ DOMAIN groups = DOMAIN acc.groups \cup {base} /\ groups[base] = all
       /\ \A n \in hit \ {base} : groups[n] = {}
       /\ \A n \in DOMAIN acc.groups \ (hit \cup {base}) : groups[n] = acc.groups[n]
  BY <1>3
<1>11. /\ DOMAIN at = DOMAIN acc.at \cup all
       /\ \A i \in DOMAIN at : at[i] = IF i \in all THEN base ELSE acc.at[i]
  OBVIOUS
<1>12. hit = {} => base \notin DOMAIN acc.groups
  BY <1>2, <1>5
<1>. HIDE DEF groups, at
<1>13. Absorb(acc, g).groups = groups /\ Absorb(acc, g).at = at
  BY <1>1
<1>14. base \in DOMAIN groups /\ hit \in SUBSET DOMAIN acc.groups
  BY <1>3, <1>10
<1>15. Took(acc, g, Absorb(acc, g), base, hit)
  BY <1>4, <1>5, <1>8, <1>10, <1>11, <1>12, <1>13, <1>14 DEF Took
<1>. QED
  BY <1>9, <1>13, <1>15

LEMMA AbsorbKeepsMatch ==
  ASSUME NEW U, NEW acc, acc.groups \in Seq(SUBSET U), IndexMatches(acc),
         NEW g, g \subseteq U
  PROVE  LET new == Absorb(acc, g)
         IN /\ new.groups \in Seq(SUBSET U) /\ IndexMatches(new)
            /\ \E n \in DOMAIN new.groups : g \subseteq new.groups[n]
            /\ \A n \in DOMAIN acc.groups : \E m \in DOMAIN new.groups : acc.groups[n] \subseteq new.groups[m]
            /\ \A names : Uncut(g, names) /\ (\A n \in DOMAIN acc.groups : Uncut(acc.groups[n], names)) =>
                 \A n \in DOMAIN new.groups : Uncut(new.groups[n], names)
<1>. DEFINE new == Absorb(acc, g)
<1>0. /\ new.groups \in Seq(SUBSET U)
      /\ \E base, hit : Took(acc, g, new, base, hit)
  BY Absorbed
<1>. HIDE DEF new
<1>1. PICK base, hit : Took(acc, g, new, base, hit)
  BY <1>0
<1>. USE DEF Took
<1>2. \A n \in DOMAIN new.groups : n = base \/ (n \in hit /\ new.groups[n] = {})
                                  \/ (n \in DOMAIN acc.groups \ hit /\ n # base /\ new.groups[n] = acc.groups[n])
  BY <1>1
<1>3. IndexMatches(new)
  <2>1. ASSUME NEW i \in DOMAIN new.at
        PROVE  new.at[i] \in DOMAIN new.groups /\ i \in new.groups[new.at[i]]
    <3>1. CASE i \in new.groups[base]
      BY <1>1, <3>1
    <3>2. CASE i \notin new.groups[base]
      <4>1. i \in DOMAIN acc.at /\ new.at[i] = acc.at[i]
        BY <1>1, <3>2
      <4>2. acc.at[i] \in DOMAIN acc.groups /\ i \in acc.groups[acc.at[i]]
        BY <4>1 DEF IndexMatches
      <4>3. acc.at[i] \notin hit
        BY <1>1, <3>2, <4>2
      <4>4. acc.at[i] # base
        BY <1>1, <4>2, <4>3
      <4>. QED  BY <1>1, <4>1, <4>2, <4>3, <4>4
    <3>. QED  BY <3>1, <3>2
  <2>2. ASSUME NEW n \in DOMAIN new.groups, NEW i \in new.groups[n]
        PROVE  i \in DOMAIN new.at /\ new.at[i] = n
    <3>1. CASE n = base
      BY <1>1, <3>1
    <3>2. CASE n \in DOMAIN acc.groups \ hit /\ n # base /\ new.groups[n] = acc.groups[n]
      <4>1. i \in DOMAIN acc.at /\ acc.at[i] = n
        BY <3>2 DEF IndexMatches
      <4>2. \A m \in DOMAIN acc.groups : i \in acc.groups[m] => m = n
        BY <4>1 DEF IndexMatches
      <4>3. i \notin g
        BY <1>1, <3>2
      <4>4. i \notin new.groups[base]
        BY <1>1, <3>2, <4>2, <4>3
      <4>. QED  BY <1>1, <4>1, <4>4
    <3>. QED  BY <1>2, <3>1, <3>2
  <2>. QED  BY <2>1, <2>2 DEF IndexMatches
<1>4. \E n \in DOMAIN new.groups : g \subseteq new.groups[n]
  BY <1>1
<1>5. ASSUME NEW n \in DOMAIN acc.groups
      PROVE  \E m \in DOMAIN new.groups : acc.groups[n] \subseteq new.groups[m]
  <2>1. CASE n \in hit
    BY <1>1, <2>1
  <2>2. CASE n \notin hit
    <3>1. n # base
      BY <1>1, <2>2
    <3>. QED  BY <1>1, <2>2, <3>1
  <2>. QED  BY <2>1, <2>2
<1>6. ASSUME NEW names, Uncut(g, names), \A n \in DOMAIN acc.groups : Uncut(acc.groups[n], names),
             NEW n \in DOMAIN new.groups
      PROVE  Uncut(new.groups[n], names)
  <2>1. CASE n = base
    <3>1. \A m \in hit : Uncut(acc.groups[m], names) /\ g \cap acc.groups[m] # {}
      BY <1>1, <1>6
    <3>2. CASE g \subseteq names
      <4>1. \A m \in hit : acc.groups[m] \subseteq names
        BY <3>1, <3>2 DEF Uncut
      <4>. QED  BY <1>1, <2>1, <3>2, <4>1 DEF Uncut
    <3>3. CASE g \cap names = {}
      <4>1. \A m \in hit : acc.groups[m] \cap names = {}
        BY <3>1, <3>3 DEF Uncut
      <4>. QED  BY <1>1, <2>1, <3>3, <4>1 DEF Uncut
    <3>. QED  BY <1>6, <3>2, <3>3 DEF Uncut
  <2>2. CASE n # base
    BY <1>2, <1>6, <2>2 DEF Uncut
  <2>. QED  BY <2>1, <2>2
<1>. QED
  BY <1>0, <1>3, <1>4, <1>5, <1>6 DEF new

-----------------------------------------------------------------------------
(* Contents, the rows made of them, and stamps. *)

LEMMA FilesHoldRecords ==
  ASSUME NEW d \in Datasets
  PROVE  /\ 1 \in DOMAIN Files[d] /\ DOMAIN Files[d] = 1..Len(Files[d]) /\ Len(Files[d]) \in Nat
         /\ \A n \in DOMAIN Files[d] : Files[d][n] \subseteq Records(d) /\ IsFiniteSet(Files[d][n])
<1>1. Files[d] \in Seq(SUBSET Records(d)) /\ Files[d] # <<>> /\ IsFiniteSet(Records(d))
  BY PipelineAssumption
<1>2. \A n \in DOMAIN Files[d] : Files[d][n] \subseteq Records(d)
  BY <1>1
<1>. QED  BY <1>1, <1>2, FS_Subset

LEMMA RowsOfContent ==
  ASSUME NEW d \in Datasets, NEW n \in DOMAIN Files[d], NEW stamp
  PROVE  /\ IsFiniteSet(Rows(d, n, stamp))
         /\ \A r \in Rows(d, n, stamp) :
              /\ r.dataset = d /\ r.stamp = stamp /\ r.kind \in {"stop", "journey"}
              /\ \E q \in Records(d) :
                   r = [kind |-> q.kind, key |-> q.key, ids |-> q.ids, born |-> q.born,
                        dataset |-> d, stamp |-> stamp]
         /\ \A r, s \in Rows(d, n, stamp) : r.kind = s.kind /\ r.key = s.key => r = s
         /\ {[kind |-> r.kind, key |-> r.key] : r \in Rows(d, n, stamp)} =
              {[kind |-> r.kind, key |-> r.key] : r \in Files[d][n]}
<1>. DEFINE row(q) == [kind |-> q.kind, key |-> q.key, ids |-> q.ids, born |-> q.born,
                       dataset |-> d, stamp |-> stamp]
<1>1. Rows(d, n, stamp) = {row(q) : q \in Files[d][n]}
  BY DEF Rows
<1>2. IsFiniteSet(Files[d][n]) /\ Files[d][n] \subseteq Records(d)
  BY FilesHoldRecords
<1>3. IsFiniteSet(Rows(d, n, stamp))
  <2>. DEFINE f == [q \in Files[d][n] |-> row(q)]
  <2>1. f \in Surjection(Files[d][n], Rows(d, n, stamp))
    BY <1>1 DEF Surjection
  <2>. HIDE DEF f
  <2>. QED  BY <1>2, <2>1, FS_Surjection
<1>4. ASSUME NEW r \in Rows(d, n, stamp)
      PROVE  \E q \in Files[d][n] : q \in Records(d) /\ r = row(q) /\ q.kind \in {"stop", "journey"}
  BY <1>1, <1>2, PipelineAssumption
<1>5. \A r, s \in Files[d][n] : r.kind = s.kind /\ r.key = s.key => r = s
  BY PipelineAssumption
<1>6. ASSUME NEW r \in Rows(d, n, stamp), NEW s \in Rows(d, n, stamp), r.kind = s.kind, r.key = s.key
      PROVE  r = s
  <2>1. PICK p \in Files[d][n] : r = row(p)
    BY <1>4
  <2>2. PICK q \in Files[d][n] : s = row(q)
    BY <1>4
  <2>3. p.kind = q.kind /\ p.key = q.key
    BY <1>6, <2>1, <2>2
  <2>. QED  BY <1>5, <2>1, <2>2, <2>3
<1>7. {[kind |-> r.kind, key |-> r.key] : r \in Rows(d, n, stamp)} =
        {[kind |-> r.kind, key |-> r.key] : r \in Files[d][n]}
  <2>1. \A q \in Files[d][n] : row(q) \in Rows(d, n, stamp) /\ row(q).kind = q.kind /\ row(q).key = q.key
    BY <1>1
  <2>2. \A r \in Rows(d, n, stamp) : \E q \in Files[d][n] : r.kind = q.kind /\ r.key = q.key
    BY <1>4
  <2>. HIDE DEF row
  <2>. QED  BY <2>1, <2>2
<1>. QED  BY <1>3, <1>4, <1>6, <1>7

LEMMA FreshStampIsFresh ==
  ASSUME NEW d, IsFiniteSet(raw), IsFiniteSet(journeys)
  PROVE  FreshStamp(d) \in Nat /\ \A r \in RowsOf(d) : r.stamp # FreshStamp(d)
<1>. DEFINE Marked == RowsOf(d) \cup {j \in journeys : j.dataset = d}
            size == Cardinality(StampsInUse(d))
<1>1. IsFiniteSet(Marked)
  <2>1. IsFiniteSet(RowsOf(d)) /\ IsFiniteSet({j \in journeys : j.dataset = d})
    BY FS_Subset DEF RowsOf
  <2>. QED  BY <2>1, FS_Union
<1>2. StampsInUse(d) = {r.stamp : r \in Marked}
  BY DEF StampsInUse
<1>3. IsFiniteSet(StampsInUse(d))
  <2>. DEFINE f == [r \in Marked |-> r.stamp]
  <2>1. f \in Surjection(Marked, StampsInUse(d))
    BY <1>2 DEF Surjection
  <2>. HIDE DEF f
  <2>. QED  BY <1>1, <2>1, FS_Surjection
<1>4. size \in Nat
  BY <1>3, FS_CardinalityType
<1>5. \E n \in 1..(1 + size) : n \notin StampsInUse(d)
  <2>1. SUFFICES ASSUME 1..(1 + size) \subseteq StampsInUse(d)
                 PROVE  FALSE
    OBVIOUS
  <2>2. Cardinality(1..(1 + size)) =< size
    BY <1>3, <2>1, FS_Subset
  <2>3. Cardinality(1..(1 + size)) = 1 + size
    BY <1>4, FS_Interval
  <2>. QED  BY <1>4, <2>2, <2>3
<1>6. FreshStamp(d) \in 1..(1 + size) /\ FreshStamp(d) \notin StampsInUse(d)
  BY <1>5 DEF FreshStamp
<1>. QED  BY <1>2, <1>4, <1>6

LEMMA StageNames == Range(Stages) = {"import", "link", "transfers", "publish", "index"}
<1>1. DOMAIN Stages = 1..5
  BY DEF Stages
<1>2. 1 \in 1..5 /\ 2 \in 1..5 /\ 3 \in 1..5 /\ 4 \in 1..5 /\ 5 \in 1..5
  OBVIOUS
<1>3. \A n \in 1..5 : n = 1 \/ n = 2 \/ n = 3 \/ n = 4 \/ n = 5
  OBVIOUS
<1>. QED  BY <1>1, <1>2, <1>3 DEF Range, Stages

LEMMA StageAfter ==
  /\ After("link") = "transfers" /\ After("transfers") = "publish"
  /\ After("publish") = "index" /\ After("index") = "idle"
<1>1. DOMAIN Stages = 1..5
  BY DEF Stages
<1>2. /\ (CHOOSE n \in DOMAIN Stages : Stages[n] = "link") = 2
      /\ (CHOOSE n \in DOMAIN Stages : Stages[n] = "transfers") = 3
      /\ (CHOOSE n \in DOMAIN Stages : Stages[n] = "publish") = 4
  BY <1>1 DEF Stages
<1>. QED  BY <1>2 DEF After, Stages

-----------------------------------------------------------------------------
(* Imports keep the invariant. *)

\* Steps that leave an import's rows, its version and its job alone.
LEMMA ImportUntouched ==
  ASSUME NEW d \in Datasets, ImportOnItsWay(d), RowsOf(d)' = RowsOf(d),
         job'[d] = job[d], intact'[d] = intact[d]
  PROVE  ImportOnItsWay(d)'
<1>1. Stamped(d)' = Stamped(d) /\ Target(d)' = Target(d)
  BY DEF Stamped, Target
<1>. QED  BY <1>1 DEF ImportOnItsWay

LEMMA RowsUntouched ==
  ASSUME ImportInv, UNCHANGED <<raw, version, job, intact>>
  PROVE  /\ RowsAreRecords' /\ RecordedIsWhole'
         /\ \A d \in Datasets : ImportOnItsWay(d)'
<1>1. \A d \in Datasets : RowsOf(d)' = RowsOf(d)
  BY DEF RowsOf
<1>2. \A d \in Datasets : ImportOnItsWay(d)'
  BY <1>1, ImportUntouched DEF ImportInv
<1>. QED
  BY <1>1, <1>2 DEF ImportInv, RowsAreRecords, RecordedIsUsed, RecordedIsWhole

LEMMA InitImport == Init => ImportInv
<1>. SUFFICES ASSUME Init PROVE ImportInv
  OBVIOUS
<1>1. TypeOK
  <2>1. \A d \in Datasets : 1 \in DOMAIN Files[d]
    BY FilesHoldRecords
  <2>2. IsFiniteSet({})
    BY FS_EmptySet
  <2>. QED
    BY <2>1, <2>2 DEF Init, TypeOK, Version, JobType, Phases, NoJob, Stages
<1>2. OneStageAtATime /\ RowsAreRecords /\ RecordedIsUsed
  BY DEF Init, OneStageAtATime, NoJob, RowsAreRecords, RecordedIsUsed, RecordedIsWhole, SkippedWasUsed
<1>3. \A d \in Datasets : ImportOnItsWay(d)
  BY DEF Init, ImportOnItsWay, NoJob
<1>. QED  BY <1>1, <1>2, <1>3 DEF ImportInv

LEMMA StartRunKeepsImports ==
  ASSUME ImportInv, NEW f \in BOOLEAN, StartRun(f)
  PROVE  ImportInv'
<1>1. /\ UNCHANGED <<file, raw, version, newer, recent, Live, held, used, intact, faults>>
      /\ stage = "idle" /\ stage' = "import" /\ held = None
      /\ job' = [d \in Datasets |-> [NoJob EXCEPT !.phase = "start"]]
  BY DEF StartRun, ImportInv, OneStageAtATime
<1>2. TypeOK'
  <2>1. job' \in [Datasets -> JobType]
    BY <1>1 DEF JobType, Phases, NoJob
  <2>. QED  BY <1>1, <2>1, StageNames DEF ImportInv, TypeOK, Live
<1>3. OneStageAtATime'
  BY <1>1 DEF OneStageAtATime
<1>4. RowsAreRecords' /\ RecordedIsUsed'
  BY <1>1 DEF ImportInv, RowsAreRecords, RecordedIsUsed, RecordedIsWhole, SkippedWasUsed, RowsOf
<1>5. \A d \in Datasets : ImportOnItsWay(d)'
  BY <1>1 DEF ImportOnItsWay, NoJob
<1>. QED  BY <1>2, <1>3, <1>4, <1>5 DEF ImportInv

LEMMA EndImportsKeepsImports ==
  ASSUME ImportInv, EndImports
  PROVE  ImportInv'
<1>1. /\ UNCHANGED <<file, raw, version, newer, recent, force, Live, held, used, intact, faults>>
      /\ stage = "import" /\ stage' \in {"idle", "link"} /\ held = None
      /\ job' = [d \in Datasets |-> NoJob]
  BY DEF EndImports, ImportInv, OneStageAtATime
<1>2. TypeOK'
  <2>1. job' \in [Datasets -> JobType]
    BY <1>1 DEF JobType, Phases, NoJob
  <2>. QED  BY <1>1, <2>1, StageNames DEF ImportInv, TypeOK, Live
<1>3. OneStageAtATime'
  BY <1>1 DEF OneStageAtATime, NoJob
<1>4. RowsAreRecords' /\ RecordedIsUsed'
  BY <1>1 DEF ImportInv, RowsAreRecords, RecordedIsUsed, RecordedIsWhole, SkippedWasUsed, RowsOf
<1>5. \A d \in Datasets : ImportOnItsWay(d)'
  BY <1>1 DEF ImportOnItsWay, NoJob
<1>. QED  BY <1>2, <1>3, <1>4, <1>5 DEF ImportInv

LEMMA PublishKeepsImports ==
  ASSUME ImportInv, NEW d \in Datasets, Publish(d)
  PROVE  ImportInv'
<1>1. /\ UNCHANGED <<raw, version, newer, stage, job, journeys, held, used, intact>>
      /\ file[d] < Len(Files[d]) /\ file' = [file EXCEPT ![d] = @ + 1]
  BY DEF Publish, Live
<1>2. TypeOK'
  <2>1. file' \in [Datasets -> Nat]
    BY <1>1 DEF ImportInv, TypeOK
  <2>2. \A e \in Datasets : file'[e] \in DOMAIN Files[e]
    BY <1>1, FilesHoldRecords DEF ImportInv, TypeOK
  <2>. QED  BY <1>1, <2>1, <2>2 DEF ImportInv, TypeOK
<1>3. OneStageAtATime' /\ SkippedWasUsed'
  BY <1>1 DEF ImportInv, OneStageAtATime, RecordedIsUsed, SkippedWasUsed
<1>. QED  BY <1>1, <1>2, <1>3, RowsUntouched DEF ImportInv, RecordedIsUsed

LEMMA BeginKeepsImports ==
  ASSUME ImportInv, NEW d \in Datasets, Begin(d)
  PROVE  ImportInv'
<1>1. /\ UNCHANGED <<file, raw, version, newer, stage, journeys, held, used, intact>>
      /\ stage = "import" /\ job[d].phase = "start"
      /\ \/ job' = [job EXCEPT ![d].phase = "done"]
         \/ job' = [job EXCEPT ![d] = [phase |-> "stop", rev |-> file[d], stamp |-> FreshStamp(d), lost |-> FALSE]]
  BY DEF Begin, Live
<1>2. FreshStamp(d) \in Nat /\ \A r \in RowsOf(d) : r.stamp # FreshStamp(d)
  BY FreshStampIsFresh DEF ImportInv, TypeOK
<1>3. job \in [Datasets -> JobType] /\ file[d] \in Nat /\ file[d] \in DOMAIN Files[d]
  BY DEF ImportInv, TypeOK
<1>4. job' \in [Datasets -> JobType] /\ \A e \in Datasets : e # d => job'[e] = job[e]
  <2>1. [phase |-> "stop", rev |-> file[d], stamp |-> FreshStamp(d), lost |-> FALSE] \in JobType
    BY <1>2, <1>3 DEF JobType, Phases
  <2>2. [job[d] EXCEPT !.phase = "done"] \in JobType
    BY <1>3 DEF JobType, Phases
  <2>. QED  BY <1>1, <1>3, <2>1, <2>2
<1>5. /\ TypeOK' /\ OneStageAtATime' /\ RowsAreRecords' /\ RecordedIsUsed'
      /\ \A e \in Datasets : RowsOf(e)' = RowsOf(e)
  <2>1. TypeOK'
    BY <1>1, <1>4 DEF ImportInv, TypeOK
  <2>2. OneStageAtATime' /\ SkippedWasUsed'
    BY <1>1 DEF ImportInv, OneStageAtATime, RecordedIsUsed, SkippedWasUsed
  <2>3. RowsAreRecords' /\ RecordedIsWhole' /\ \A e \in Datasets : RowsOf(e)' = RowsOf(e)
    BY <1>1 DEF ImportInv, RowsAreRecords, RecordedIsUsed, RecordedIsWhole, RowsOf
  <2>. QED  BY <2>1, <2>2, <2>3 DEF RecordedIsUsed
<1>6. ASSUME NEW e \in Datasets
      PROVE  ImportOnItsWay(e)'
  <2>1. CASE e # d
    BY <1>1, <1>4, <1>5, <2>1, ImportUntouched DEF ImportInv
  <2>2. CASE e = d /\ job' = [job EXCEPT ![d].phase = "done"]
    <3>1. job'[d].phase = "done"
      BY <1>3, <2>2 DEF JobType
    <3>. QED  BY <2>2, <3>1 DEF ImportOnItsWay
  <2>3. CASE e = d /\ job' = [job EXCEPT ![d] = [phase |-> "stop", rev |-> file[d], stamp |-> FreshStamp(d), lost |-> FALSE]]
    <3>1. job'[d] = [phase |-> "stop", rev |-> file[d], stamp |-> FreshStamp(d), lost |-> FALSE]
      BY <1>3, <2>3
    <3>2. Stamped(d)' = {}
      BY <1>2, <1>5, <3>1 DEF Stamped
    <3>. QED  BY <1>3, <2>3, <3>1, <3>2 DEF ImportOnItsWay
  <2>. QED  BY <1>1, <2>1, <2>2, <2>3
<1>. QED  BY <1>5, <1>6 DEF ImportInv

\* A step of an import's own job: what it changes and what is left of the invariant to show.
LEMMA JobStep ==
  ASSUME ImportInv, NEW d \in Datasets, job[d].phase # "none",
         UNCHANGED <<file, stage, journeys, used, held>>,
         NEW next \in JobType, job' = [job EXCEPT ![d] = next], IsFiniteSet(raw'),
         newer' \in [Datasets -> [Derived -> BOOLEAN]], version' \in [Datasets -> Version],
         intact' \in [Datasets -> BOOLEAN],
         \A e \in Datasets \ {d} : RowsOf(e)' = RowsOf(e) /\ intact'[e] = intact[e],
         RowsAreRecords', RecordedIsUsed', ImportOnItsWay(d)'
  PROVE  ImportInv'
<1>1. stage = "import" /\ stage' = "import" /\ held' = None
  BY DEF ImportInv, OneStageAtATime
<1>2. job' \in [Datasets -> JobType] /\ \A e \in Datasets \ {d} : job'[e] = job[e]
  BY DEF ImportInv, TypeOK
<1>3. TypeOK' /\ OneStageAtATime'
  BY <1>1, <1>2 DEF ImportInv, TypeOK, OneStageAtATime
<1>4. \A e \in Datasets \ {d} : ImportOnItsWay(e)'
  BY <1>2, ImportUntouched DEF ImportInv
<1>. QED  BY <1>3, <1>4 DEF ImportInv

LEMMA WriteKeepsImports ==
  ASSUME ImportInv, NEW d \in Datasets, Write(d)
  PROVE  ImportInv'
<1>. DEFINE kind == job[d].phase
            rows == {r \in Target(d) : r.kind = kind}
            kept == {r \in raw : ~\E w \in rows : w.kind = r.kind /\ w.key = r.key}
            next == [job[d] EXCEPT !.phase = IF kind = "stop" THEN "journey" ELSE "cleanup"]
<1>1. /\ UNCHANGED <<file, version, newer, stage, journeys, held, used>>
      /\ kind \in {"stop", "journey"} /\ raw' = kept \cup rows
      /\ job' = [job EXCEPT ![d] = next] /\ intact' = [intact EXCEPT ![d] = FALSE]
  BY DEF Write, Target, Live
<1>2. /\ job \in [Datasets -> JobType] /\ job[d].rev \in DOMAIN Files[d]
      /\ kind = "stop" => Stamped(d) = {}
      /\ kind = "journey" => Stamped(d) = {r \in Target(d) : r.kind = "stop"}
  BY <1>1 DEF ImportInv, TypeOK, ImportOnItsWay
<1>3. /\ IsFiniteSet(Target(d))
      /\ \A r \in Target(d) :
           /\ r.dataset = d /\ r.stamp = job[d].stamp /\ r.kind \in {"stop", "journey"}
           /\ \E q \in Records(d) :
                r = [kind |-> q.kind, key |-> q.key, ids |-> q.ids, born |-> q.born,
                     dataset |-> d, stamp |-> job[d].stamp]
      /\ \A r, s \in Target(d) : r.kind = s.kind /\ r.key = s.key => r = s
  BY <1>2, RowsOfContent DEF Target
<1>4. next \in JobType /\ job'[d] = next /\ next.stamp = job[d].stamp /\ next.rev = job[d].rev
  BY <1>1, <1>2 DEF JobType, Phases
<1>5. rows \subseteq Target(d) /\ kept \subseteq raw
      /\ \A r \in kept, w \in rows : ~(w.kind = r.kind /\ w.key = r.key)
  OBVIOUS
<1>6. IsFiniteSet(raw')
  <2>1. IsFiniteSet(kept) /\ IsFiniteSet(rows)
    BY <1>3, <1>5, FS_Subset DEF ImportInv, TypeOK
  <2>. QED  BY <1>1, <2>1, FS_Union
<1>7. RowsAreRecords'
  <2>1. ASSUME NEW r \in raw'
        PROVE  /\ r.dataset \in Datasets
               /\ \E q \in Records(r.dataset) :
                    r = [kind |-> q.kind, key |-> q.key, ids |-> q.ids, born |-> q.born,
                         dataset |-> r.dataset, stamp |-> r.stamp]
    <3>1. CASE r \in kept
      BY <1>5, <3>1 DEF ImportInv, RowsAreRecords
    <3>2. CASE r \in rows
      BY <1>3, <1>5, <3>2
    <3>. QED  BY <1>1, <3>1, <3>2
  <2>2. ASSUME NEW r \in raw', NEW s \in raw', r.kind = s.kind, r.key = s.key
        PROVE  r = s
    <3>. HIDE DEF rows, kept
    <3>1. CASE r \in kept /\ s \in kept
      BY <1>5, <2>2, <3>1 DEF ImportInv, RowsAreRecords
    <3>2. CASE r \in rows /\ s \in rows
      BY <1>3, <1>5, <2>2, <3>2
    <3>. QED  BY <1>1, <1>5, <2>2, <3>1, <3>2
  <2>. QED  BY <2>1, <2>2 DEF RowsAreRecords
<1>8. ASSUME NEW e \in Datasets \ {d}
      PROVE  RowsOf(e)' = RowsOf(e)
  <2>1. ASSUME NEW r \in RowsOf(e)
        PROVE  r \in kept
    <3>1. PICK q \in Records(e) : r.key = q.key
      BY DEF ImportInv, RowsAreRecords, RowsOf
    <3>2. ASSUME NEW w \in rows
          PROVE  w.key # r.key
      <4>1. PICK p \in Records(d) : w.key = p.key
        BY <1>3, <1>5
      <4>. QED  BY <3>1, <4>1, PipelineAssumption
    <3>. QED  BY <3>2 DEF RowsOf
  <2>2. \A w \in rows : w.dataset # e
    BY <1>3, <1>5
  <2>. QED  BY <1>1, <1>5, <2>1, <2>2 DEF RowsOf
<1>9. Stamped(d)' = IF kind = "stop" THEN rows ELSE Target(d)
  <2>1. Stamped(d)' = {r \in kept : r \in Stamped(d)} \cup rows
    BY <1>1, <1>3, <1>4, <1>5 DEF Stamped, RowsOf
  <2>2. CASE kind = "stop"
    BY <1>2, <2>1, <2>2
  <2>3. CASE kind = "journey"
    <3>1. \A r \in Stamped(d) : r \in kept
      BY <1>2, <2>3 DEF Stamped, RowsOf
    <3>2. Target(d) = {r \in Target(d) : r.kind = "stop"} \cup rows
      BY <1>3, <2>3
    <3>. QED  BY <1>2, <2>1, <2>3, <3>1, <3>2
  <2>. QED  BY <1>1, <2>2, <2>3
<1>10. Target(d)' = Target(d)
  BY <1>4 DEF Target
<1>11. ImportOnItsWay(d)'
  <2>1. intact'[d] = FALSE /\ job'[d].rev \in DOMAIN Files[d]
    BY <1>1, <1>2, <1>4 DEF ImportInv, TypeOK
  <2>2. CASE kind = "stop"
    <3>1. job'[d].phase = "journey" /\ Stamped(d)' = {r \in Target(d)' : r.kind = "stop"}
      BY <1>2, <1>4, <1>9, <1>10, <2>2 DEF JobType
    <3>. QED  BY <2>1, <3>1 DEF ImportOnItsWay
  <2>3. CASE kind = "journey"
    <3>1. job'[d].phase = "cleanup" /\ Stamped(d)' = Target(d)'
      BY <1>2, <1>4, <1>9, <1>10, <2>3 DEF JobType
    <3>. QED  BY <2>1, <3>1 DEF ImportOnItsWay
  <2>. QED  BY <1>1, <2>2, <2>3
<1>12. intact' \in [Datasets -> BOOLEAN] /\ intact'[d] = FALSE
       /\ \A e \in Datasets \ {d} : intact'[e] = intact[e]
  BY <1>1 DEF ImportInv, TypeOK
<1>13. RecordedIsUsed'
  BY <1>1, <1>8, <1>12 DEF ImportInv, RecordedIsUsed, RecordedIsWhole, SkippedWasUsed
<1>14. newer' \in [Datasets -> [Derived -> BOOLEAN]] /\ version' \in [Datasets -> Version]
  BY <1>1 DEF ImportInv, TypeOK
<1>15. job[d].phase # "none"
  BY <1>1
<1>. HIDE DEF next, kind
<1>. QED
  BY <1>1, <1>4, <1>6, <1>7, <1>8, <1>11, <1>12, <1>13, <1>14, <1>15, JobStep

LEMMA CleanupKeepsImports ==
  ASSUME ImportInv, NEW d \in Datasets, Cleanup(d)
  PROVE  ImportInv'
<1>. DEFINE next == [job[d] EXCEPT !.phase = "record"]
<1>1. /\ UNCHANGED <<file, version, newer, stage, journeys, held, used, intact>>
      /\ job[d].phase = "cleanup" /\ raw' = {r \in raw : r.dataset = d => r.stamp = job[d].stamp}
      /\ job' = [job EXCEPT ![d] = next]
  BY DEF Cleanup, Live
<1>2. /\ job \in [Datasets -> JobType] /\ job[d].rev \in DOMAIN Files[d] /\ ~intact[d]
      /\ Stamped(d) = Target(d)
  BY <1>1 DEF ImportInv, TypeOK, ImportOnItsWay
<1>3. next \in JobType /\ job'[d] = next /\ next.phase = "record" /\ next.stamp = job[d].stamp /\ next.rev = job[d].rev
  BY <1>1, <1>2 DEF JobType, Phases
<1>4. IsFiniteSet(raw')
  BY <1>1, FS_Subset DEF ImportInv, TypeOK
<1>5. RowsAreRecords'
  BY <1>1 DEF ImportInv, RowsAreRecords
<1>6. \A e \in Datasets \ {d} : RowsOf(e)' = RowsOf(e)
  BY <1>1 DEF RowsOf
<1>7. RowsOf(d)' = Target(d)'
  BY <1>1, <1>2, <1>3 DEF RowsOf, Stamped, Target
<1>8. ImportOnItsWay(d)'
  BY <1>1, <1>2, <1>3, <1>7 DEF ImportOnItsWay
<1>9. RecordedIsUsed'
  BY <1>1, <1>2, <1>6 DEF ImportInv, RecordedIsUsed, RecordedIsWhole, SkippedWasUsed
<1>10. /\ newer' \in [Datasets -> [Derived -> BOOLEAN]] /\ version' \in [Datasets -> Version]
       /\ intact' \in [Datasets -> BOOLEAN] /\ job[d].phase # "none"
  BY <1>1 DEF ImportInv, TypeOK
<1>. HIDE DEF next
<1>. QED  BY <1>1, <1>3, <1>4, <1>5, <1>6, <1>8, <1>9, <1>10, JobStep

LEMMA CleanupFailsKeepsImports ==
  ASSUME ImportInv, NEW d \in Datasets, CleanupFails(d)
  PROVE  ImportInv'
<1>. DEFINE next == [job[d] EXCEPT !.phase = "record", !.lost = TRUE]
<1>1. /\ UNCHANGED <<file, raw, version, newer, stage, journeys, held, used, intact>>
      /\ job[d].phase = "cleanup" /\ job' = [job EXCEPT ![d] = next]
  BY DEF CleanupFails, Live
<1>2. /\ job \in [Datasets -> JobType] /\ job[d].rev \in DOMAIN Files[d] /\ ~intact[d]
  BY <1>1 DEF ImportInv, TypeOK, ImportOnItsWay
<1>3. next \in JobType /\ job'[d] = next /\ next.phase = "record" /\ next.lost = TRUE /\ next.rev = job[d].rev
  BY <1>1, <1>2 DEF JobType, Phases
<1>4. IsFiniteSet(raw') /\ RowsAreRecords' /\ RecordedIsUsed'
  BY <1>1 DEF ImportInv, TypeOK, RowsAreRecords, RecordedIsUsed, RecordedIsWhole, SkippedWasUsed, RowsOf
<1>5. \A e \in Datasets \ {d} : RowsOf(e)' = RowsOf(e)
  BY <1>1 DEF RowsOf
<1>6. ImportOnItsWay(d)'
  BY <1>1, <1>2, <1>3 DEF ImportOnItsWay
<1>7. /\ newer' \in [Datasets -> [Derived -> BOOLEAN]] /\ version' \in [Datasets -> Version]
      /\ intact' \in [Datasets -> BOOLEAN] /\ job[d].phase # "none"
  BY <1>1 DEF ImportInv, TypeOK
<1>. HIDE DEF next
<1>. QED  BY <1>1, <1>3, <1>4, <1>5, <1>6, <1>7, JobStep

LEMMA RecordKeepsImports ==
  ASSUME ImportInv, NEW d \in Datasets, Record(d)
  PROVE  ImportInv'
<1>. DEFINE next == [job[d] EXCEPT !.phase = "done"]
<1>1. /\ UNCHANGED <<file, raw, stage, journeys, held, used>>
      /\ job[d].phase = "record" /\ job' = [job EXCEPT ![d] = next]
      /\ version' = [version EXCEPT ![d] = job[d].rev]
      /\ newer' = [newer EXCEPT ![d] = [x \in Derived |-> TRUE]]
      /\ intact' = [intact EXCEPT ![d] = ~job[d].lost]
  BY DEF Record, Live
<1>2. /\ job \in [Datasets -> JobType] /\ job[d].rev \in DOMAIN Files[d]
      /\ ~job[d].lost => RowsOf(d) = Target(d)
  BY <1>1 DEF ImportInv, TypeOK, ImportOnItsWay
<1>3. job[d].lost \in BOOLEAN /\ job[d].rev \in Nat
  BY <1>2 DEF JobType
<1>4. next \in JobType /\ job'[d] = next /\ next.phase = "done"
  BY <1>1, <1>2 DEF JobType, Phases
<1>5. IsFiniteSet(raw') /\ RowsAreRecords' /\ \A e \in Datasets : RowsOf(e)' = RowsOf(e)
  BY <1>1 DEF ImportInv, TypeOK, RowsAreRecords, RowsOf
<1>6. /\ version' \in [Datasets -> Version] /\ version'[d] = job[d].rev
      /\ \A e \in Datasets \ {d} : version'[e] = version[e]
  BY <1>1, <1>3 DEF ImportInv, TypeOK, Version
<1>7. /\ newer' \in [Datasets -> [Derived -> BOOLEAN]] /\ newer'[d] = [x \in Derived |-> TRUE]
      /\ \A e \in Datasets \ {d} : newer'[e] = newer[e]
  BY <1>1 DEF ImportInv, TypeOK
<1>8. /\ intact' \in [Datasets -> BOOLEAN] /\ intact'[d] = ~job[d].lost
      /\ \A e \in Datasets \ {d} : intact'[e] = intact[e]
  BY <1>1, <1>3 DEF ImportInv, TypeOK
<1>9. ImportOnItsWay(d)'
  BY <1>4 DEF ImportOnItsWay
<1>10. RecordedIsWhole'
  <2>1. ASSUME NEW e \in Datasets, version'[e] # None, intact'[e]
        PROVE  {[kind |-> r.kind, key |-> r.key] : r \in RowsOf(e)'} =
                 {[kind |-> r.kind, key |-> r.key] : r \in Files[e][version'[e]]}
    <3>1. CASE e = d
      <4>1. RowsOf(d)' = Rows(d, job[d].rev, job[d].stamp)
        BY <1>2, <1>5, <1>8, <2>1, <3>1 DEF Target
      <4>. QED  BY <1>2, <1>6, <3>1, <4>1, RowsOfContent
    <3>2. CASE e # d
      BY <1>5, <1>6, <1>8, <2>1, <3>2 DEF ImportInv, RecordedIsUsed, RecordedIsWhole
    <3>. QED  BY <3>1, <3>2
  <2>. QED  BY <2>1 DEF RecordedIsWhole
<1>11. SkippedWasUsed'
  BY <1>1, <1>6, <1>7 DEF ImportInv, RecordedIsUsed, SkippedWasUsed
<1>12. RecordedIsUsed' /\ job[d].phase # "none"
  BY <1>1, <1>10, <1>11 DEF RecordedIsUsed
<1>. HIDE DEF next
<1>. QED  BY <1>1, <1>4, <1>5, <1>6, <1>7, <1>8, <1>9, <1>12, JobStep

LEMMA ImportFailsKeepsImports ==
  ASSUME ImportInv, NEW d \in Datasets, ImportFails(d)
  PROVE  ImportInv'
<1>. DEFINE next == [job[d] EXCEPT !.phase = "failed"]
<1>1. /\ UNCHANGED <<file, raw, version, newer, stage, journeys, held, used, intact>>
      /\ job[d].phase # "none" /\ job' = [job EXCEPT ![d] = next]
  BY DEF ImportFails, Live
<1>2. job \in [Datasets -> JobType]
  BY DEF ImportInv, TypeOK
<1>3. next \in JobType /\ job'[d] = next /\ next.phase = "failed"
  BY <1>1, <1>2 DEF JobType, Phases
<1>4. IsFiniteSet(raw') /\ RowsAreRecords' /\ RecordedIsUsed' /\ \A e \in Datasets : RowsOf(e)' = RowsOf(e)
  BY <1>1 DEF ImportInv, TypeOK, RowsAreRecords, RecordedIsUsed, RecordedIsWhole, SkippedWasUsed, RowsOf
<1>5. ImportOnItsWay(d)'
  BY <1>3 DEF ImportOnItsWay
<1>6. /\ newer' \in [Datasets -> [Derived -> BOOLEAN]] /\ version' \in [Datasets -> Version]
      /\ intact' \in [Datasets -> BOOLEAN]
  BY <1>1 DEF ImportInv, TypeOK
<1>. HIDE DEF next
<1>. QED  BY <1>1, <1>3, <1>4, <1>5, <1>6, JobStep
-----------------------------------------------------------------------------
(* The later tasks keep it, and so does a day without an import. *)

\* Linking, transfers, publication and the index read what the imports have left.
LEMMA TaskStep ==
  ASSUME ImportInv, UNCHANGED <<file, raw, version, job, intact>>,
         stage \notin {"idle", "import"}, stage' \in ({"idle"} \cup Range(Stages)) \ {"import"},
         stage' = "idle" => held' = None, IsFiniteSet(journeys'),
         newer' \in [Datasets -> [Derived -> BOOLEAN]],
         used' \in [Derived -> {None} \cup [Datasets -> Version]], SkippedWasUsed'
  PROVE  ImportInv'
<1>1. TypeOK'
  BY DEF ImportInv, TypeOK
<1>2. OneStageAtATime'
  BY DEF ImportInv, OneStageAtATime
<1>. QED  BY <1>1, <1>2, RowsUntouched DEF ImportInv, RecordedIsUsed

LEMMA TasksKeepImports ==
  ASSUME ImportInv,
         \/ StartLink \/ MergeGroup \/ LinkStops \/ SkipTransfers \/ WriteTransfers \/ DeleteTransfers
         \/ MergeJourneys \/ DeleteJourneys \/ RecordIndex \/ TaskFails
         \/ \E d \in Datasets : IndexDataset(d)
  PROVE  ImportInv'
<1>1. /\ IsFiniteSet(raw) /\ IsFiniteSet(journeys)
      /\ newer \in [Datasets -> [Derived -> BOOLEAN]] /\ version \in [Datasets -> Version]
      /\ used \in [Derived -> {None} \cup [Datasets -> Version]] /\ SkippedWasUsed
  BY DEF ImportInv, TypeOK, RecordedIsUsed
<1>2. ASSUME UNCHANGED <<newer, version, used>>
      PROVE  /\ newer' \in [Datasets -> [Derived -> BOOLEAN]] /\ SkippedWasUsed'
             /\ used' \in [Derived -> {None} \cup [Datasets -> Version]]
  BY <1>1, <1>2 DEF SkippedWasUsed
<1>3. ASSUME NEW x \in Derived, UNCHANGED version, used' = [used EXCEPT ![x] = Contents],
             newer' = [d \in Datasets |-> [newer[d] EXCEPT ![x] = FALSE]]
      PROVE  /\ newer' \in [Datasets -> [Derived -> BOOLEAN]] /\ SkippedWasUsed'
             /\ used' \in [Derived -> {None} \cup [Datasets -> Version]]
  <2>1. Contents \in [Datasets -> Version] /\ \A d \in Datasets : Contents[d] = version[d]
    BY <1>1 DEF Contents
  <2>2. \A d \in Datasets : newer'[d] \in [Derived -> BOOLEAN] /\ \A y \in Derived \ {x} : newer'[d][y] = newer[d][y]
    BY <1>1, <1>3
  <2>3. used' \in [Derived -> {None} \cup [Datasets -> Version]]
        /\ used'[x] = Contents /\ \A y \in Derived \ {x} : used'[y] = used[y]
    BY <1>1, <1>3, <2>1
  <2>4. newer' \in [Datasets -> [Derived -> BOOLEAN]]
    BY <1>3, <2>2
  <2>5. ASSUME NEW d \in Datasets, NEW y \in Derived, used'[y] # None, ~newer'[d][y], version[d] # None
        PROVE  used'[y][d] = version[d]
    <3>1. CASE y = x
      BY <2>1, <2>3, <3>1
    <3>2. CASE y # x
      BY <1>1, <2>2, <2>3, <2>5, <3>2 DEF SkippedWasUsed
    <3>. QED  BY <3>1, <3>2
  <2>. QED  BY <1>3, <2>3, <2>4, <2>5 DEF SkippedWasUsed
<1>4. CASE StartLink \/ MergeGroup
  <2>1. stage = "link" /\ UNCHANGED <<file, raw, version, newer, stage, job, journeys, used, intact>>
    BY <1>4 DEF StartLink, MergeGroup, Live
  <2>. QED  BY <1>1, <1>2, <2>1, StageNames, TaskStep
<1>5. CASE LinkStops
  <2>1. /\ stage = "link" /\ stage' = "transfers"
        /\ UNCHANGED <<file, raw, version, newer, job, journeys, used, intact>>
    BY <1>5, StageAfter DEF LinkStops
  <2>. QED  BY <1>1, <1>2, <2>1, StageNames, TaskStep
<1>6. CASE SkipTransfers \/ WriteTransfers
  <2>1. /\ stage = "transfers" /\ stage' \in {"transfers", "publish"}
        /\ UNCHANGED <<file, raw, version, newer, job, journeys, used, intact>>
    BY <1>6, StageAfter DEF SkipTransfers, WriteTransfers, Live
  <2>. QED  BY <1>1, <1>2, <2>1, StageNames, TaskStep
<1>7. CASE DeleteTransfers
  <2>1. /\ stage = "transfers" /\ stage' = "publish"
        /\ UNCHANGED <<file, raw, version, job, journeys, intact>>
        /\ used' = [used EXCEPT !["transfers"] = Contents]
        /\ newer' = [d \in Datasets |-> [newer[d] EXCEPT !["transfers"] = FALSE]]
    BY <1>7, StageAfter DEF DeleteTransfers
  <2>2. "transfers" \in Derived
    BY DEF Derived
  <2>. QED  BY <1>1, <1>3, <2>1, <2>2, StageNames, TaskStep
<1>8. CASE MergeJourneys
  <2>1. /\ stage = "publish" /\ UNCHANGED <<file, raw, version, newer, stage, job, used, intact>>
        /\ \E kept \in SUBSET journeys, rows \in SUBSET raw : journeys' = kept \cup rows
    BY <1>8 DEF MergeJourneys, Raw
  <2>2. IsFiniteSet(journeys')
    BY <1>1, <2>1, FS_Subset, FS_Union
  <2>. QED  BY <1>2, <2>1, <2>2, StageNames, TaskStep
<1>9. CASE DeleteJourneys
  <2>1. /\ stage = "publish" /\ stage' = "index"
        /\ UNCHANGED <<file, raw, version, newer, job, used, intact>> /\ journeys' \subseteq journeys
    BY <1>9, StageAfter DEF DeleteJourneys
  <2>2. IsFiniteSet(journeys')
    BY <1>1, <2>1, FS_Subset
  <2>. QED  BY <1>2, <2>1, <2>2, StageNames, TaskStep
<1>10. CASE \E d \in Datasets : IndexDataset(d)
  <2>1. stage = "index" /\ UNCHANGED <<file, raw, version, newer, stage, job, journeys, used, intact>>
    BY <1>10 DEF IndexDataset
  <2>. QED  BY <1>1, <1>2, <2>1, StageNames, TaskStep
<1>11. CASE RecordIndex
  <2>1. /\ stage = "index" /\ stage' = "idle" /\ held' = None
        /\ UNCHANGED <<file, raw, version, job, journeys, intact>>
        /\ used' = [used EXCEPT !["index"] = Contents]
        /\ newer' = [d \in Datasets |-> [newer[d] EXCEPT !["index"] = FALSE]]
    BY <1>11, StageAfter DEF RecordIndex, Live
  <2>2. "index" \in Derived
    BY DEF Derived
  <2>. QED  BY <1>1, <1>3, <2>1, <2>2, StageNames, TaskStep
<1>12. CASE TaskFails
  <2>1. /\ stage \notin {"idle", "import"} /\ stage' = "idle" /\ held' = None
        /\ UNCHANGED <<file, raw, version, newer, job, journeys, used, intact>>
    BY <1>12 DEF TaskFails, Live
  <2>. QED  BY <1>1, <1>2, <2>1, StageNames, TaskStep
<1>. QED  BY <1>4, <1>5, <1>6, <1>7, <1>8, <1>9, <1>10, <1>11, <1>12

LEMMA DayKeepsImports ==
  ASSUME ImportInv, DayPasses \/ UNCHANGED vars
  PROVE  ImportInv'
<1>1. UNCHANGED <<file, raw, version, newer, stage, job, journeys, held, used, intact>>
  BY DEF DayPasses, vars, Live
<1>2. TypeOK' /\ OneStageAtATime' /\ SkippedWasUsed'
  BY <1>1 DEF ImportInv, TypeOK, OneStageAtATime, RecordedIsUsed, SkippedWasUsed
<1>. QED  BY <1>1, <1>2, RowsUntouched DEF ImportInv, RecordedIsUsed

LEMMA NextKeepsImports == ImportInv /\ [Next]_vars => ImportInv'
<1>. SUFFICES ASSUME ImportInv, [Next]_vars PROVE ImportInv'
  OBVIOUS
<1>. QED
  BY StartRunKeepsImports, EndImportsKeepsImports, PublishKeepsImports, BeginKeepsImports,
     WriteKeepsImports, CleanupKeepsImports, CleanupFailsKeepsImports, RecordKeepsImports,
     ImportFailsKeepsImports, TasksKeepImports, DayKeepsImports DEF Next, Work

\* What is recorded is whole and what is skipped was used, in every behaviour.
THEOREM ImportsAreSafe == Spec => []ImportInv
<1>. QED  BY InitImport, NextKeepsImports, PTL DEF Spec

THEOREM RecordsAreUsed == Spec => []RecordedIsUsed
<1>1. ImportInv => RecordedIsUsed
  BY DEF ImportInv
<1>. QED  BY ImportsAreSafe, <1>1, PTL
-----------------------------------------------------------------------------
(* Sides and groups. *)

LEMMA OneStopPerKey ==
  ASSUME RowsAreRecords, NEW r \in Raw("stop"), NEW s \in Raw("stop")
  PROVE  /\ r.key = s.key => r = s
         /\ r.key \in s.ids => r.key \in r.ids
<1>1. r \in raw /\ s \in raw /\ r.kind = s.kind
  BY DEF Raw
<1>2. r.key = s.key => r = s
  BY <1>1 DEF RowsAreRecords
<1>3. PICK p \in Records(r.dataset) : r.key = p.key /\ r.ids = p.ids /\ r.dataset \in Datasets
  BY <1>1 DEF RowsAreRecords
<1>4. PICK q \in Records(s.dataset) : s.ids = q.ids /\ s.dataset \in Datasets
  BY <1>1 DEF RowsAreRecords
<1>. QED  BY <1>2, <1>3, <1>4, PipelineAssumption

LEMMA SidesShareNothing ==
  ASSUME RowsAreRecords, NEW side \in Sides, NEW a \in side, NEW b \in Raw("stop") \ side
  PROVE  Identifiers(a) \cap Identifiers(b) = {}
<1>1. a \in Raw("stop") /\ a.ids \cap b.ids = {} /\ a # b
  BY DEF Sides, Touch
<1>2. a.key # b.key
  BY <1>1, OneStopPerKey
<1>3. a.key \notin b.ids /\ b.key \notin a.ids
  BY <1>1, OneStopPerKey
<1>. QED  BY <1>1, <1>2, <1>3 DEF Identifiers

LEMMA SharedGroupUncut ==
  ASSUME RowsAreRecords, NEW g \in SharedGroups
  PROVE  g \subseteq Names(Raw("stop")) /\ \A side \in Sides : Uncut(g, Names(side))
<1>1. PICK i \in Shared : g = UNION {Identifiers(r) : r \in Listing(i)}
  BY DEF SharedGroups
<1>2. Listing(i) \subseteq Raw("stop")
  BY DEF Listing
<1>3. g \subseteq Names(Raw("stop"))
  BY <1>1, <1>2 DEF Names
<1>4. ASSUME NEW side \in Sides
      PROVE  Uncut(g, Names(side))
  <2>1. side \subseteq Raw("stop")
    BY DEF Sides
  <2>2. CASE Listing(i) \cap side # {}
    <3>1. Listing(i) \subseteq side
      BY <1>2, <2>2 DEF Sides, Touch, Listing
    <3>. QED  BY <1>1, <3>1 DEF Names, Uncut
  <2>3. CASE Listing(i) \cap side = {}
    <3>1. \A r \in Listing(i), a \in side : Identifiers(a) \cap Identifiers(r) = {}
      BY <1>2, <2>3, SidesShareNothing
    <3>. QED  BY <1>1, <3>1 DEF Names, Uncut
  <2>. QED  BY <2>2, <2>3
<1>. QED  BY <1>3, <1>4
-----------------------------------------------------------------------------
(* Merging the groups one by one. *)

LEMMA StartLinkMerges ==
  ASSUME ImportInv, StartLink
  PROVE  Merging'
<1>1. UNCHANGED raw /\ held' = [left |-> SharedGroups, groups |-> <<>>, at |-> <<>>]
  BY DEF StartLink
<1>2. held'.left = SharedGroups /\ held'.groups = <<>> /\ held'.at = <<>>
  BY <1>1
<1>3. SharedGroups' = SharedGroups
  BY <1>1 DEF SharedGroups, Shared, Listing, Raw
<1>4. DOMAIN (<<>>) = {} /\ <<>> \in Seq(SUBSET Names(Raw("stop")'))
  OBVIOUS
<1>. QED  BY <1>2, <1>3, <1>4 DEF Merging, IndexMatches

LEMMA MergeGroupMerges ==
  ASSUME ImportInv, Merging, MergeGroup
  PROVE  Merging'
<1>1. UNCHANGED raw
  BY DEF MergeGroup
<1>2. PICK g \in held.left :
        held' = [left |-> held.left \ {g}, groups |-> Absorb(held, g).groups, at |-> Absorb(held, g).at]
  BY DEF MergeGroup
<1>3. Raw("stop")' = Raw("stop") /\ SharedGroups' = SharedGroups /\ Sides' = Sides
  BY <1>1 DEF SharedGroups, Shared, Listing, Raw, Sides
<1>4. g \subseteq Names(Raw("stop")) /\ \A side \in Sides : Uncut(g, Names(side))
  BY SharedGroupUncut DEF ImportInv, Merging
<1>. DEFINE new == Absorb(held, g)
<1>5. /\ new.groups \in Seq(SUBSET Names(Raw("stop"))) /\ IndexMatches(new)
      /\ \E n \in DOMAIN new.groups : g \subseteq new.groups[n]
      /\ \A n \in DOMAIN held.groups : \E m \in DOMAIN new.groups : held.groups[n] \subseteq new.groups[m]
      /\ \A names : Uncut(g, names) /\ (\A n \in DOMAIN held.groups : Uncut(held.groups[n], names)) =>
           \A n \in DOMAIN new.groups : Uncut(new.groups[n], names)
  BY <1>4, AbsorbKeepsMatch DEF Merging
<1>. HIDE DEF new
<1>6. held'.left = held.left \ {g} /\ held'.groups = new.groups /\ held'.at = new.at
  BY <1>2 DEF new
<1>7. IndexMatches(held)'
  BY <1>5, <1>6 DEF IndexMatches
<1>8. ASSUME NEW h \in SharedGroups \ held'.left
      PROVE  \E n \in DOMAIN new.groups : h \subseteq new.groups[n]
  <2>1. CASE h = g
    BY <1>5, <2>1
  <2>2. CASE h # g
    <3>1. PICK n \in DOMAIN held.groups : h \subseteq held.groups[n]
      BY <1>6, <2>2 DEF Merging
    <3>. QED  BY <1>5, <3>1
  <2>. QED  BY <2>1, <2>2
<1>9. \A n \in DOMAIN new.groups : \A side \in Sides : Uncut(new.groups[n], Names(side))
  BY <1>4, <1>5 DEF Merging
<1>. QED
  BY <1>1, <1>3, <1>5, <1>6, <1>7, <1>8, <1>9 DEF Merging, Names

\* Any other step leaves what the linker has read and what it reads from alone, or ends it.
LEMMA NextKeepsMerging ==
  ASSUME LinkInv, [Next]_vars, stage' = "link", held' # None
  PROVE  Merging'
<1>1. ImportInv
  BY DEF LinkInv
<1>2. stage # "import" => \A d \in Datasets : job[d].phase = "none"
  BY <1>1 DEF ImportInv, OneStageAtATime
<1>3. stage \in {"idle", "import"} => held = None
  BY <1>1 DEF ImportInv, OneStageAtATime
<1>4. CASE StartLink
  BY <1>1, <1>4, StartLinkMerges
<1>5. CASE MergeGroup
  BY <1>1, <1>5, MergeGroupMerges DEF MergeGroup, LinkInv
<1>6. CASE \E d \in Datasets : Begin(d) \/ Write(d) \/ Cleanup(d) \/ CleanupFails(d) \/ Record(d) \/ ImportFails(d)
  <2>1. stage = "import" /\ UNCHANGED stage
    BY <1>2, <1>6 DEF Begin, Write, Cleanup, CleanupFails, Record, ImportFails
  <2>. QED  BY <2>1
<1>7. CASE EndImports
  <2>1. held' = None
    BY <1>3, <1>7 DEF EndImports
  <2>. QED  BY <2>1
<1>8. CASE LinkStops \/ SkipTransfers \/ DeleteTransfers \/ DeleteJourneys \/ RecordIndex
  BY <1>8, StageAfter DEF LinkStops, SkipTransfers, DeleteTransfers, DeleteJourneys, RecordIndex
<1>9. CASE WriteTransfers \/ MergeJourneys \/ (\E d \in Datasets : IndexDataset(d))
           \/ (\E f \in BOOLEAN : StartRun(f)) \/ DayPasses \/ TaskFails
  BY <1>9 DEF WriteTransfers, MergeJourneys, IndexDataset, StartRun, DayPasses, TaskFails
<1>10. CASE (\E d \in Datasets : Publish(d)) \/ UNCHANGED vars
  <2>1. UNCHANGED <<raw, stage, held>>
    BY <1>10 DEF Publish, vars
  <2>2. Merging
    BY <2>1 DEF LinkInv
  <2>3. Raw("stop")' = Raw("stop") /\ SharedGroups' = SharedGroups /\ Sides' = Sides
    BY <2>1 DEF SharedGroups, Shared, Listing, Raw, Sides
  <2>. QED
    BY <2>1, <2>2, <2>3 DEF Merging, IndexMatches, Names
<1>. QED  BY <1>4, <1>5, <1>6, <1>7, <1>8, <1>9, <1>10 DEF Next, Work

LEMMA LinkingIsSafe == Spec => []LinkInv
<1>1. Init => LinkInv
  BY InitImport DEF LinkInv, Init
<1>2. LinkInv /\ [Next]_vars => LinkInv'
  BY NextKeepsImports, NextKeepsMerging DEF LinkInv
<1>. QED  BY <1>1, <1>2, PTL DEF Spec
-----------------------------------------------------------------------------
(* What linking makes of the groups. *)

LEMMA LinkingLinksOnce ==
  ASSUME LinkInv, LinkStops
  PROVE  \A r \in {r \in Raw("stop") : r.key \notin Manual} :
           /\ InOneStop(r)
           /\ \A q \in {q \in Raw("stop") : q.key \notin Manual} : InSameStop(r, q) <=> ~Apart(r, q)
<1>. DEFINE G == Range(held.groups) \ {{}}
            members(g) == {r \in Raw("stop") : r.key \in g \ Manual}
            oldest(g) == CHOOSE r \in members(g) : \A s \in members(g) : r.born <= s.born
            real == {g \in G : members(g) # {}}
            merged(g) == [of |-> oldest(g).key, merged |-> TRUE, dataset |-> oldest(g).dataset, ids |-> g \ Manual]
            alone(r) == [of |-> r.key, merged |-> FALSE, dataset |-> r.dataset, ids |-> Identifiers(r)]
            Stop == {r \in Raw("stop") : r.key \notin Manual}
            single == {r \in Raw("stop") : r.key \notin (UNION real) \cup Manual}
<1>1. RowsAreRecords /\ Merging /\ held.left = {}
  BY DEF LinkInv, LinkStops, ImportInv
<1>2. stops' = {merged(g) : g \in real} \cup {alone(r) : r \in single}
  BY DEF LinkStops, Linked
<1>3. \A g \in G : g \in Range(held.groups) /\ g # {}
  OBVIOUS
<1>4. \A n \in DOMAIN held.groups : held.groups[n] # {} => held.groups[n] \in G
  BY DEF Range
<1>5. \A g \in G : \E n \in DOMAIN held.groups : g = held.groups[n]
  BY DEF Range
<1>. HIDE DEF G, oldest
<1>6. \A r \in Stop, g \in G : r.key \in g => g \in real
  <2>1. \A r \in Stop, g \in G : r.key \in g => r \in members(g)
    OBVIOUS
  <2>. HIDE DEF members, Stop
  <2>. QED  BY <2>1
<1>7. /\ \A g \in real : g \in G
      /\ \A r \in Stop : r \in Raw("stop") /\ r.key \notin Manual
      /\ \A r \in single : r \in Stop /\ \A g \in real : r.key \notin g
  <2>1. \A g \in real : g \in G
    OBVIOUS
  <2>. HIDE DEF real
  <2>. QED  BY <2>1
<1>8. \A r \in Stop : (\A g \in real : r.key \notin g) => r \in single
  <2>. HIDE DEF real
  <2>. QED  OBVIOUS
<1>. HIDE DEF members, real, Stop, single
<1>9. /\ \A g \in real : merged(g) \in stops' /\ merged(g).ids = g \ Manual
      /\ \A r \in single : alone(r) \in stops' /\ alone(r).ids = Identifiers(r)
      /\ \A s \in stops' : (\E g \in real : s = merged(g)) \/ (\E r \in single : s = alone(r))
  BY <1>2
<1>. HIDE DEF merged, alone
\* Groups are disjoint, and every identifier that is shared is in one.
<1>10. \A g, h \in G : g \cap h # {} => g = h
  BY <1>1, <1>5 DEF Merging, IndexMatches
<1>11. ASSUME NEW i \in Shared
       PROVE  \E g \in G : \A r \in Listing(i) : Identifiers(r) \subseteq g
  <2>. DEFINE h == UNION {Identifiers(r) : r \in Listing(i)}
  <2>1. h \in SharedGroups /\ \A r \in Listing(i) : Identifiers(r) \subseteq h
    BY DEF SharedGroups
  <2>2. Listing(i) # {} /\ \A r \in Listing(i) : Identifiers(r) # {}
    BY DEF Shared, Identifiers
  <2>. HIDE DEF h
  <2>3. PICK n \in DOMAIN held.groups : h \subseteq held.groups[n]
    BY <1>1, <2>1 DEF Merging
  <2>. QED  BY <1>4, <2>1, <2>2, <2>3
<1>12. ASSUME NEW a \in Raw("stop"), NEW b \in Raw("stop"), a # b, NEW i \in a.ids \cap b.ids
       PROVE  \E g \in G : Identifiers(a) \subseteq g /\ Identifiers(b) \subseteq g
  <2>1. i \in Shared /\ a \in Listing(i) /\ b \in Listing(i)
    BY <1>12 DEF Shared, Listing
  <2>. QED  BY <1>11, <2>1
<1>13. \A r : r.key \in Identifiers(r) /\ r.ids \subseteq Identifiers(r)
  BY DEF Identifiers
<1>14. \A g \in G, side \in Sides : Uncut(g, Names(side))
  BY <1>1, <1>5 DEF Merging
\* The live stop of a record: that of its group, or its own.
<1>15. ASSUME NEW r \in Stop, NEW g \in real, r.key \in g
       PROVE  \A s \in stops' : r.key \in s.ids <=> s = merged(g)
  <2>1. r.key \in merged(g).ids
    BY <1>7, <1>9, <1>15
  <2>2. ASSUME NEW h \in real, r.key \in merged(h).ids
        PROVE  h = g
    BY <1>7, <1>9, <1>10, <1>15, <2>2
  <2>3. ASSUME NEW q \in single, r.key \in alone(q).ids
        PROVE  FALSE
    <3>1. r.key \in Identifiers(q) /\ q \in Raw("stop") /\ r \in Raw("stop") /\ q \in Stop
      BY <1>7, <1>9, <2>3
    <3>2. q.key \notin g
      BY <1>7
    <3>3. r # q
      BY <1>15, <3>2
    <3>4. r.key \in r.ids \cap q.ids
      BY <1>1, <3>1, <3>3, OneStopPerKey DEF Identifiers
    <3>5. PICK h \in G : Identifiers(r) \subseteq h /\ Identifiers(q) \subseteq h
      BY <1>12, <3>1, <3>3, <3>4
    <3>6. h = g
      BY <1>7, <1>10, <1>13, <1>15, <3>5
    <3>. QED  BY <1>13, <3>2, <3>5, <3>6
  <2>. QED  BY <1>9, <2>1, <2>2, <2>3
<1>16. ASSUME NEW r \in single
       PROVE  \A s \in stops' : r.key \in s.ids <=> s = alone(r)
  <2>1. r.key \in alone(r).ids /\ r \in Stop /\ r \in Raw("stop")
    BY <1>7, <1>9, <1>13
  <2>2. ASSUME NEW h \in real, r.key \in merged(h).ids
        PROVE  FALSE
    BY <1>7, <1>9, <2>2
  <2>3. ASSUME NEW q \in single, r.key \in alone(q).ids
        PROVE  q = r
    <3>1. SUFFICES ASSUME q # r PROVE FALSE
      OBVIOUS
    <3>2. r.key \in Identifiers(q) /\ q \in Raw("stop")
      BY <1>7, <1>9, <2>3
    <3>3. r.key \in r.ids \cap q.ids
      BY <1>1, <2>1, <3>1, <3>2, OneStopPerKey DEF Identifiers
    <3>4. PICK h \in G : Identifiers(r) \subseteq h
      BY <1>12, <2>1, <3>1, <3>2, <3>3
    <3>5. h \in real /\ r.key \in h
      BY <1>6, <1>13, <2>1, <3>4
    <3>. QED  BY <1>7, <3>5
  <2>. QED  BY <1>9, <2>1, <2>2, <2>3
<1>17. ASSUME NEW r \in Stop
       PROVE  \/ \E g \in real : r.key \in g
              \/ r \in single /\ \A g \in G : r.key \notin g
  BY <1>6, <1>8
<1>18. ASSUME NEW r \in Stop
       PROVE  InOneStop(r)
  <2>1. PICK s \in stops' : \A t \in stops' : r.key \in t.ids <=> t = s
    <3>1. CASE \E g \in real : r.key \in g
      BY <1>9, <1>15, <3>1
    <3>2. CASE r \in single
      BY <1>9, <1>16, <3>2
    <3>. QED  BY <1>17, <3>1, <3>2
  <2>2. {t \in stops' : r.key \in t.ids} = {s}
    BY <2>1
  <2>. QED  BY <2>2, FS_Singleton DEF InOneStop
<1>19. ASSUME NEW r \in Stop, NEW q \in Stop, InSameStop(r, q), Apart(r, q)
       PROVE  FALSE
  <2>1. PICK side \in Sides : r \in side /\ q \notin side
    BY <1>19 DEF Apart, Sides
  <2>2. r \in Raw("stop") /\ q \in Raw("stop")
    BY <1>7
  <2>3. PICK s \in stops' : r.key \in s.ids /\ q.key \in s.ids
    BY <1>19 DEF InSameStop
  <2>4. ASSUME NEW g \in real, s = merged(g)
        PROVE  FALSE
    <3>1. r.key \in g /\ q.key \in g /\ g \in G
      BY <1>7, <1>9, <2>3, <2>4
    <3>2. r.key \in Names(side)
      BY <1>13, <2>1 DEF Names
    <3>3. q.key \in Names(side)
      BY <1>14, <3>1, <3>2 DEF Uncut
    <3>4. PICK a \in side : q.key \in Identifiers(a)
      BY <3>3 DEF Names
    <3>. QED  BY <1>1, <1>13, <2>1, <2>2, <3>4, SidesShareNothing
  <2>5. ASSUME NEW p \in single, s = alone(p)
        PROVE  FALSE
    <3>1. r.key \in Identifiers(p) /\ q.key \in Identifiers(p) /\ p \in Raw("stop")
      BY <1>7, <1>9, <2>3, <2>5
    <3>2. CASE p \in side
      BY <1>1, <1>13, <2>1, <2>2, <3>1, <3>2, SidesShareNothing
    <3>3. CASE p \notin side
      BY <1>1, <1>13, <2>1, <2>2, <3>1, <3>3, SidesShareNothing
    <3>. QED  BY <3>2, <3>3
  <2>. QED  BY <1>9, <2>4, <2>5
<1>20. ASSUME NEW r \in Stop, NEW q \in Stop, ~Apart(r, q)
       PROVE  InSameStop(r, q)
  <2>1. r \in Raw("stop") /\ q \in Raw("stop")
    BY <1>7
  <2>2. ASSUME NEW side \in SUBSET Raw("stop"), r \in side,
               \A a \in side, b \in Raw("stop") \ side : a.ids \cap b.ids = {}
        PROVE  q \in side
    BY <1>20, <2>2 DEF Apart, Touch
  <2>3. CASE \E g \in real : r.key \in g
    <3>1. PICK g \in real : r.key \in g
      BY <2>3
    <3>. DEFINE side == {t \in Raw("stop") : t.key \in g}
    <3>2. ASSUME NEW a \in side, NEW b \in Raw("stop") \ side, NEW i \in a.ids \cap b.ids
          PROVE  FALSE
      <4>1. PICK h \in G : Identifiers(a) \subseteq h /\ Identifiers(b) \subseteq h
        BY <1>12
      <4>2. h = g
        BY <1>7, <1>10, <1>13, <4>1
      <4>. QED  BY <1>13, <4>1, <4>2
    <3>3. q.key \in g
      BY <2>1, <2>2, <3>1, <3>2
    <3>4. r.key \in merged(g).ids /\ q.key \in merged(g).ids /\ merged(g) \in stops'
      BY <1>7, <1>9, <3>1, <3>3
    <3>. QED  BY <3>4 DEF InSameStop
  <2>4. CASE r \in single /\ \A g \in G : r.key \notin g
    <3>1. ASSUME NEW b \in Raw("stop") \ {r}, NEW i \in r.ids \cap b.ids
          PROVE  FALSE
      BY <1>12, <1>13, <2>1, <2>4
    <3>2. q = r
      <4>1. q \in {r}
        BY <2>1, <2>2, <3>1
      <4>. QED  BY <4>1
    <3>3. alone(r) \in stops' /\ r.key \in alone(r).ids
      BY <1>9, <1>13, <2>4
    <3>. QED  BY <3>2, <3>3 DEF InSameStop
  <2>. QED  BY <1>17, <2>3, <2>4
<1>. QED  BY <1>18, <1>19, <1>20 DEF Stop

\* Linking puts every stop into exactly one live stop and follows the chains of shared
\* identifiers, whatever the order of the groups, in every behaviour.
THEOREM LinksOnce == Spec => LinkedOnce
<1>1. LinkInv /\ [Next]_vars =>
        [LinkStops =>
           \A r \in {r \in Raw("stop") : r.key \notin Manual} :
             /\ InOneStop(r)
             /\ \A q \in {q \in Raw("stop") : q.key \notin Manual} : InSameStop(r, q) <=> ~Apart(r, q)]_vars
  BY LinkingLinksOnce
<1>. QED  BY LinkingIsSafe, <1>1, PTL DEF Spec, LinkedOnce
=============================================================================
