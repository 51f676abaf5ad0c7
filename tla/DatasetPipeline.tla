---------------------------- MODULE DatasetPipeline ----------------------------
(***************************************************************************)
(* From source files to what readers see: the import of datasets into raw     *)
(* collections, the linking of stops, the transfers between them, the          *)
(* publication of journeys and the search index, as a batch run executes them. *)
(* A stage starts when the one before it has succeeded (BatchRunner), so only   *)
(* imports run next to each other.  Dates of modification are compared only:    *)
(* "newer" says whether a dataset was modified after what is derived from it.   *)
(***************************************************************************)
EXTENDS Naturals, Sequences, FiniteSets, FiniteSetsExt, SequencesExt

CONSTANTS
  Datasets,
  Files,      \* of each dataset, the successive contents of its source: sets of records
              \* [kind, key, ids, born] with kind "stop" or "journey"
  Near,       \* pairs of stops within walking distance
  Manual,     \* identifiers of manual merges (travigo-internalmerge-)
  MaxFaults,  \* bound on failing steps
  None

\* Every record of a dataset, now or later.
Records(d) == UNION Range(Files[d])

\* A content is what its rows are in the end: one record of a key and kind.  Importers make keys
\* of the dataset or of the country's own numbers.  An identifier of a stop that other records
\* list is listed by the stop as well: NaPTAN's platforms and GTFS' stops list themselves
\* (stop_point.go:197, schedule.go:406), manual merges are listed by nobody.
ASSUME PipelineAssumption ==
  /\ MaxFaults \in Nat
  /\ \A d \in Datasets : IsFiniteSet(Records(d)) /\ Files[d] \in Seq(SUBSET Records(d)) /\ Files[d] # <<>>
  /\ \A d \in Datasets : \A r \in Records(d) : r.kind \in {"stop", "journey"} /\ r.born \in Nat
  /\ \A d \in Datasets : \A n \in DOMAIN Files[d] : \A r, s \in Files[d][n] :
       r.kind = s.kind /\ r.key = s.key => r = s
  /\ \A d, e \in Datasets : d # e => \A r \in Records(d), s \in Records(e) : r.key # s.key
  /\ \A d, e \in Datasets : \A r \in Records(d), s \in Records(e) : r.key \in s.ids => r.key \in r.ids

VARIABLES
  file,       \* of each dataset, the number of its current content
  raw,        \* rows of the raw collections: a record, its dataset and its stamp
  version,    \* the content recorded in dataset_versions, or None
  newer,      \* newer[d][x]: d was recorded after the derived dataset x
  recent,     \* datasets recorded in the last 24 hours
  stage, force, job,
  stops, journeys,   \* the live collections
  transfers,
  index,      \* keys of stops in the search index of a dataset, or None
  held,       \* what the running task has read
  used,       \* history: the content of each dataset that x was derived from
  intact,     \* history: no step of the last import was lost
  faults

vars == <<file, raw, version, newer, recent, stage, force, job, stops, journeys, transfers,
          index, held, used, intact, faults>>

Derived == {"transfers", "index"}
Stages  == <<"import", "link", "transfers", "publish", "index">>
NoJob   == [phase |-> "none", rev |-> 0, stamp |-> 0, lost |-> FALSE]

RowsOf(d)      == {r \in raw : r.dataset = d}
Raw(kind)      == {r \in raw : r.kind = kind}
Content(d)     == Files[d][file[d]]
Rows(d, n, stamp) ==
  {[kind |-> r.kind, key |-> r.key, ids |-> r.ids, born |-> r.born, dataset |-> d, stamp |-> stamp]
     : r \in Files[d][n]}

Init ==
  /\ file = [d \in Datasets |-> 1] /\ raw = {} /\ version = [d \in Datasets |-> None]
  /\ newer = [d \in Datasets |-> [x \in Derived |-> FALSE]] /\ recent = {}
  /\ stage = "idle" /\ force = FALSE /\ job = [d \in Datasets |-> NoJob]
  /\ stops = {} /\ journeys = {} /\ transfers = {} /\ index = [d \in Datasets |-> None]
  /\ held = None /\ used = [x \in Derived |-> None]
  /\ intact = [d \in Datasets |-> TRUE] /\ faults = 0

Live == <<stops, journeys, transfers, index>>

-----------------------------------------------------------------------------
(* The run and its stages. *)

StartRun(f) ==
  /\ stage = "idle" /\ stage' = "import" /\ force' = f
  /\ job' = [d \in Datasets |-> [NoJob EXCEPT !.phase = "start"]]
  /\ UNCHANGED <<file, raw, version, newer, recent, Live, held, used, intact, faults>>

After(s) == IF s = "index" THEN "idle" ELSE Stages[1 + (CHOOSE n \in DOMAIN Stages : Stages[n] = s)]

EndImports ==
  /\ stage = "import" /\ \A d \in Datasets : job[d].phase \in {"done", "failed"}
  /\ stage' = IF \E d \in Datasets : job[d].phase = "failed" THEN "idle" ELSE "link"
  /\ job' = [d \in Datasets |-> NoJob]
  /\ UNCHANGED <<file, raw, version, newer, recent, force, Live, held, used, intact, faults>>

\* The publisher of a source replaces its file.
Publish(d) ==
  /\ file[d] < Len(Files[d]) /\ file' = [file EXCEPT ![d] = @ + 1]
  /\ UNCHANGED <<raw, version, newer, recent, stage, force, job, Live, held, used, intact, faults>>

-----------------------------------------------------------------------------
(* ImportDataset: rows are replaced by key, then rows of other stamps are removed,   *)
(* then the version is recorded.                                                   *)

\* Stamps are seconds: one that no row of the dataset has.
StampsInUse(d) == {r.stamp : r \in RowsOf(d) \cup {j \in journeys : j.dataset = d}}
FreshStamp(d) == CHOOSE n \in 1..(1 + Cardinality(StampsInUse(d))) : n \notin StampsInUse(d)

Begin(d) ==
  /\ stage = "import" /\ job[d].phase = "start"
  /\ IF version[d] = file[d] /\ ~force
     THEN job' = [job EXCEPT ![d].phase = "done"]
     ELSE job' = [job EXCEPT ![d] = [phase |-> "stop", rev |-> file[d], stamp |-> FreshStamp(d), lost |-> FALSE]]
  /\ UNCHANGED <<file, raw, version, newer, recent, stage, force, Live, held, used, intact, faults>>

\* Rows are written by kind: stops, then journeys.
Write(d) ==
  LET kind == job[d].phase
      rows == {r \in Rows(d, job[d].rev, job[d].stamp) : r.kind = kind}
  IN  /\ kind \in {"stop", "journey"}
      /\ raw' = {r \in raw : ~\E w \in rows : w.kind = r.kind /\ w.key = r.key} \cup rows
      /\ job' = [job EXCEPT ![d].phase = IF kind = "stop" THEN "journey" ELSE "cleanup"]
      /\ intact' = [intact EXCEPT ![d] = FALSE]
      /\ UNCHANGED <<file, version, newer, recent, stage, force, Live, held, used, faults>>

\* What recording would be that came before the removal of old rows.
BugCleanup(d) ==
  /\ job[d].phase = "cleanup"
  /\ job' = [job EXCEPT ![d].phase = "record"]
  /\ UNCHANGED <<file, raw, version, newer, recent, stage, force, Live, held, used, intact, faults>>

Cleanup(d) ==
  /\ job[d].phase = "cleanup"
  /\ raw' = {r \in raw : r.dataset = d => r.stamp = job[d].stamp}
  /\ job' = [job EXCEPT ![d].phase = "record"]
  /\ UNCHANGED <<file, version, newer, recent, stage, force, Live, held, used, intact, faults>>

\* The result of the deletion is dropped.
CleanupFails(d) ==
  /\ job[d].phase = "cleanup" /\ faults < MaxFaults
  /\ job' = [job EXCEPT ![d].phase = "record", ![d].lost = TRUE] /\ faults' = faults + 1
  /\ UNCHANGED <<file, raw, version, newer, recent, stage, force, Live, held, used, intact>>

Record(d) ==
  /\ job[d].phase = "record"
  /\ version' = [version EXCEPT ![d] = job[d].rev]
  /\ newer' = [newer EXCEPT ![d] = [x \in Derived |-> TRUE]]
  /\ recent' = recent \cup {d}
  /\ job' = [job EXCEPT ![d].phase = "done"]
  /\ intact' = [intact EXCEPT ![d] = ~job[d].lost]
  /\ UNCHANGED <<file, raw, stage, force, Live, held, used, faults>>

\* The job of a dataset fails or is killed; what it wrote stays.
ImportFails(d) ==
  /\ job[d].phase \notin {"none", "done", "failed"} /\ faults < MaxFaults
  /\ job' = [job EXCEPT ![d].phase = "failed"] /\ faults' = faults + 1
  /\ UNCHANGED <<file, raw, version, newer, recent, stage, force, Live, held, used, intact>>

-----------------------------------------------------------------------------
(* Linker.Run for stops: records that share an identifier become one. *)

Identifiers(r) == {r.key} \cup r.ids

\* The aggregation: identifiers that more than one record lists.
Listing(i) == {r \in Raw("stop") : i \in r.ids}
Shared == {i \in UNION {r.ids : r \in Raw("stop")} : \E r, s \in Listing(i) : r # s}
SharedGroups == {UNION {Identifiers(r) : r \in Listing(i)} : i \in Shared}

\* What absorbing would be that takes over the first overlapping group only.
BugAbsorb(acc, group) ==
  LET hit  == {acc.at[i] : i \in group \cap DOMAIN acc.at}
      base == IF hit = {} THEN Len(acc.groups) + 1 ELSE Min(hit)
      all  == group \cup IF hit = {} THEN {} ELSE acc.groups[base]
  IN  [groups |-> [n \in DOMAIN acc.groups \cup {base} |-> IF n = base THEN all ELSE acc.groups[n]],
       at |-> [i \in DOMAIN acc.at \cup all |-> IF i \in all THEN base ELSE acc.at[i]]]

\* mergeOverlappingIdentifierGroups: the first of the groups that overlap takes the others.
Absorb(acc, group) ==
  LET hit  == {acc.at[i] : i \in group \cap DOMAIN acc.at}
      base == IF hit = {} THEN Len(acc.groups) + 1 ELSE Min(hit)
      all  == group \cup UNION {acc.groups[n] : n \in hit}
  IN  [groups |-> [n \in DOMAIN acc.groups \cup {base} |->
                     IF n = base THEN all ELSE IF n \in hit THEN {} ELSE acc.groups[n]],
       at |-> [i \in DOMAIN acc.at \cup all |-> IF i \in all THEN base ELSE acc.at[i]]]

\* The record of a group is the oldest, under a key made from its content.
Linked(groups) ==
  LET members(g) == {r \in Raw("stop") : r.key \in g \ Manual}
      oldest(g)  == CHOOSE r \in members(g) : \A s \in members(g) : r.born <= s.born
      real       == {g \in groups : members(g) # {}}
  IN  {[of |-> oldest(g).key, merged |-> TRUE, dataset |-> oldest(g).dataset, ids |-> g \ Manual]
         : g \in real}
      \cup {[of |-> r.key, merged |-> FALSE, dataset |-> r.dataset, ids |-> Identifiers(r)]
              : r \in {r \in Raw("stop") : r.key \notin (UNION real) \cup Manual}}

StartLink ==
  /\ stage = "link" /\ held = None
  /\ held' = [left |-> SharedGroups, groups |-> <<>>, at |-> <<>>]
  /\ UNCHANGED <<file, raw, version, newer, recent, stage, force, job, Live, used, intact, faults>>

\* Groups of equal size come in any order.
MergeGroup ==
  /\ stage = "link" /\ held # None
  /\ \E g \in held.left :
       held' = [left |-> held.left \ {g}, groups |-> Absorb(held, g).groups, at |-> Absorb(held, g).at]
  /\ UNCHANGED <<file, raw, version, newer, recent, stage, force, job, Live, used, intact, faults>>

\* The staging copy replaces the live collection at once.
LinkStops ==
  /\ stage = "link" /\ held # None /\ held.left = {}
  /\ stops' = Linked(Range(held.groups) \ {{}})
  /\ held' = None /\ stage' = After(stage)
  /\ UNCHANGED <<file, raw, version, newer, recent, force, job, journeys, transfers, index,
                 used, intact, faults>>

-----------------------------------------------------------------------------
(* BuildStopTransfers: only for the stops of datasets modified since the last build. *)

Key(s) == <<s.of, s.merged>>
Walkable(s, t) == <<s.of, t.of>> \in Near \/ <<t.of, s.of>> \in Near

\* ChangedDatasets: all that are registered when nothing was derived yet.
Changed(x) == IF used[x] = None THEN Datasets ELSE {d \in Datasets : newer[d][x]}

Contents == [d \in Datasets |-> version[d]]

SkipTransfers ==
  /\ stage = "transfers" /\ held = None /\ Changed("transfers") = {}
  /\ stage' = After(stage)
  /\ UNCHANGED <<file, raw, version, newer, recent, force, job, Live, held, used, intact, faults>>

WriteTransfers ==
  LET changed == {s \in stops : s.dataset \in Changed("transfers")}
      new == {<<Key(p[1]), Key(p[2])>> : p \in {p \in changed \X stops : Walkable(p[1], p[2])}}
  IN  /\ stage = "transfers" /\ held = None /\ Changed("transfers") # {}
      /\ held' = [new |-> new, keys |-> {Key(s) : s \in changed}]
      /\ transfers' = transfers \cup new
      /\ UNCHANGED <<file, raw, version, newer, recent, stage, force, job, stops, journeys, index,
                     used, intact, faults>>

\* Transfers of changed stops, in either direction, that this build did not write.
DeleteTransfers ==
  /\ stage = "transfers" /\ held # None
  /\ transfers' = {t \in transfers : t \in held.new \/ (t[1] \notin held.keys /\ t[2] \notin held.keys)}
  /\ held' = None /\ stage' = After(stage)
  /\ used' = [used EXCEPT !["transfers"] = Contents]
  /\ newer' = [d \in Datasets |-> [newer[d] EXCEPT !["transfers"] = FALSE]]
  /\ UNCHANGED <<file, raw, version, recent, force, job, stops, journeys, index, intact, faults>>

-----------------------------------------------------------------------------
(* publishRecentlyUpdatedDatasets: journeys of datasets of the last day. *)

Stamps(d) == {r.stamp : r \in {r \in RowsOf(d) : r.kind = "journey"}}

MergeJourneys ==
  /\ stage = "publish" /\ held = None
  /\ held' = [d \in recent |-> Stamps(d)]
  /\ LET rows == {r \in Raw("journey") : r.dataset \in recent}
     IN  journeys' = {j \in journeys : ~\E r \in rows : r.key = j.key} \cup rows
  /\ UNCHANGED <<file, raw, version, newer, recent, stage, force, job, stops, transfers, index,
                 used, intact, faults>>

\* What publication would be that takes every dataset without rows for unchanged.
BugDeleteJourneys ==
  /\ stage = "publish" /\ held # None
  /\ journeys' = {j \in journeys : j.dataset \in DOMAIN held /\ held[j.dataset] # {} => j.stamp \in held[j.dataset]}
  /\ held' = None /\ stage' = After(stage)
  /\ UNCHANGED <<file, raw, version, newer, recent, force, job, stops, transfers, index, used,
                 intact, faults>>

DeleteJourneys ==
  /\ stage = "publish" /\ held # None
  /\ journeys' = {j \in journeys : j.dataset \in DOMAIN held => j.stamp \in held[j.dataset]}
  /\ held' = None /\ stage' = After(stage)
  /\ UNCHANGED <<file, raw, version, newer, recent, force, job, stops, transfers, index, used,
                 intact, faults>>

\* A day without an import; the runs of a day have published what it imported.
DayPasses ==
  /\ stage = "idle" /\ recent # {}
  /\ \A d \in recent : {r \in RowsOf(d) : r.kind = "journey"} = {j \in journeys : j.dataset = d}
  /\ recent' = {}
  /\ UNCHANGED <<file, raw, version, newer, stage, force, job, Live, held, used, intact, faults>>

-----------------------------------------------------------------------------
(* IndexStops: the index of a dataset is deleted and filled again. *)

Stale(d) == version[d] # None /\ (used["index"] = None \/ newer[d]["index"] \/ index[d] = None)

\* One dataset after the other; "held" are those that were looked at.
Indexed == IF held = None THEN {} ELSE held

IndexDataset(d) ==
  /\ stage = "index" /\ d \notin Indexed /\ held' = Indexed \cup {d}
  /\ index' = IF Stale(d) THEN [index EXCEPT ![d] = {Key(s) : s \in {s \in stops : s.dataset = d}}]
              ELSE index
  /\ UNCHANGED <<file, raw, version, newer, recent, stage, force, job, stops, journeys, transfers,
                 used, intact, faults>>

RecordIndex ==
  /\ stage = "index" /\ Indexed = Datasets
  /\ held' = None /\ stage' = After(stage)
  /\ used' = [used EXCEPT !["index"] = Contents]
  /\ newer' = [d \in Datasets |-> [newer[d] EXCEPT !["index"] = FALSE]]
  /\ UNCHANGED <<file, raw, version, recent, force, job, Live, intact, faults>>

\* A later task fails or is killed: the run ends, and with it what the task had read.
TaskFails ==
  /\ stage \notin {"idle", "import"} /\ faults < MaxFaults
  /\ stage' = "idle" /\ held' = None /\ faults' = faults + 1
  /\ UNCHANGED <<file, raw, version, newer, recent, force, job, Live, used, intact>>

Work ==
  \/ EndImports \/ StartLink \/ MergeGroup \/ LinkStops \/ SkipTransfers \/ WriteTransfers \/ DeleteTransfers
  \/ MergeJourneys \/ DeleteJourneys \/ RecordIndex
  \/ \E d \in Datasets : Begin(d) \/ Write(d) \/ Cleanup(d) \/ Record(d) \/ IndexDataset(d)

Next ==
  \/ Work \/ TaskFails \/ DayPasses
  \/ \E f \in BOOLEAN : StartRun(f)
  \/ \E d \in Datasets : Publish(d) \/ CleanupFails(d) \/ ImportFails(d)

\* Runs are started every night, and the tasks of a run go on.
Spec == Init /\ [][Next]_vars /\ WF_vars(Work) /\ WF_vars(\E f \in BOOLEAN : StartRun(f))

-----------------------------------------------------------------------------
\* A recorded version whose import lost no step stands for exactly the rows of that
\* content, whatever failed imports came before (manager.go:155-340).
RecordedIsWhole ==
  \A d \in Datasets : version[d] # None /\ intact[d] =>
    {[kind |-> r.kind, key |-> r.key] : r \in RowsOf(d)} =
      {[kind |-> r.kind, key |-> r.key] : r \in Files[d][version[d]]}

\* A chain of shared identifiers joins two records unless the stops can be parted between
\* them so that no identifier is listed on both sides.
Touch(a, b) == a.ids \cap b.ids # {}
Apart(r, q) ==
  \E side \in SUBSET Raw("stop") :
    r \in side /\ q \notin side /\ \A a \in side, b \in Raw("stop") \ side : ~Touch(a, b)

\* Linking puts every raw stop into exactly one live stop, and two into the same one
\* exactly when a chain of shared identifiers joins them, in whatever order the groups
\* come (linker.go:187-240, linker_test.go:8).
InOneStop(r) == Cardinality({s \in stops' : r.key \in s.ids}) = 1
InSameStop(r, q) == \E s \in stops' : {r.key, q.key} \subseteq s.ids
LinkedOnce ==
  [][LinkStops =>
       \A r \in {r \in Raw("stop") : r.key \notin Manual} :
         /\ InOneStop(r)
         /\ \A q \in {q \in Raw("stop") : q.key \notin Manual} : InSameStop(r, q) <=> ~Apart(r, q)]_vars

\* What a derived dataset skips as unchanged it was derived from: the content a dataset
\* has recorded is the one the transfers or the index last saw (version.go:40-70,
\* stops.go:57).
SkippedWasUsed ==
  \A d \in Datasets, x \in Derived :
    used[x] # None /\ ~newer[d][x] /\ version[d] # None => used[x][d] = version[d]

RecordedIsUsed == RecordedIsWhole /\ SkippedWasUsed

\* The live journeys and stops of the current files, apart from datasets whose import
\* lost a step.
Follows ==
  \A d \in Datasets : intact[d] =>
    /\ {j.key : j \in {j \in journeys : j.dataset = d}} = {r.key : r \in {r \in Content(d) : r.kind = "journey"}}
    /\ \A r \in Content(d) : r.kind = "stop" /\ r.key \notin Manual => \E s \in stops : r.key \in s.ids
=============================================================================
