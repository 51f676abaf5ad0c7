------------------------- MODULE TransXChangeImport -------------------------
(***************************************************************************)
(* The import of a bundle of TransXChange documents, one after the other.  A document's   *)
(* tracks and services are written, its journeys shared out over workers that convert and  *)
(* write them side by side; records left by an earlier import are replaced when the         *)
(* document is newer or of another import, and what no document files is cleaned up.         *)
(***************************************************************************)
EXTENDS Integers, Sequences, FiniteSets, SequencesExt, FiniteSetsExt, Functions

CONSTANTS
  Bundles,     \* the sequences of documents considered, see Init
  Leftovers,   \* journeys an earlier import may have left, of stamp 0
  Days,        \* the dates considered
  Today,       \* a day of Days
  Ignored,     \* operators the dataset has ignored
  Workers,     \* number of CPUs
  MaxCrashes,  \* imports that die in the middle
  NoOperator, None

TransXChangeAssumption ==
  /\ Days \subseteq Nat /\ Today \in Nat
  /\ Workers \in Nat \ {0} /\ MaxCrashes \in Nat

VARIABLES
  bundle,    \* its documents: [operators, services, patterns, sections, routes, links, organisations, journeys]
  file,      \* the document being imported
  stage,     \* of its import
  stamp,     \* the datasource's timestamp
  existing,  \* existingJourneysByID: what was stored before the workers started
  batches,   \* journeys still to be converted, by worker
  writes,    \* stopOperations of each worker
  journeys,  \* the journeys stored: [id, stamp, modified, service, days, path]
  services,  \* the services stored: [id, stamp, modified]
  tracks     \* geometry stored under a route link's identifier

database == <<journeys, services, tracks>>
vars == <<bundle, file, stage, stamp, existing, batches, writes, database>>

Init ==
  /\ bundle \in Bundles
  /\ file = 1 /\ stage = "tracks" /\ stamp = 1
  /\ existing = <<>> /\ batches = <<>> /\ writes = <<>>
  /\ journeys \in SUBSET Leftovers
  /\ services = {} /\ tracks = <<>>

Document == bundle[file]

-----------------------------------------------------------------------------
(* References within a document. *)

\* transXChangeOperatorRef: a document of one operator need not name it correctly.
OperatorOf(doc, ref) ==
  IF ref \in DOMAIN doc.operators THEN doc.operators[ref]
  ELSE IF Cardinality(DOMAIN doc.operators) = 1 THEN doc.operators[CHOOSE o \in DOMAIN doc.operators : TRUE]
  ELSE NoOperator

\* servicesReferences and ignoredServices
Referred(doc) == {s \in ToSet(doc.services) : OperatorOf(doc, s.operator) \notin Ignored}
Ended(service) == service.end # None /\ service.end <= Today
ServiceOf(doc, journey) == CHOOSE s \in Referred(doc) : s.code = journey.service
ServiceId(doc, service) == <<OperatorOf(doc, service.operator), service.code>>

\* The links of a route's sections, of those with the same identifier the first.
LinksOf(doc, route) == SelectSeq(doc.links, LAMBDA l : l.section \in doc.routes[route])
Known(doc, route, id) == \E l \in ToSet(LinksOf(doc, route)) : l.id = id

\* What a journey is left out for.
Imported(doc, journey) ==
  /\ \E s \in Referred(doc) : s.code = journey.service
  /\ ~Ended(ServiceOf(doc, journey))
  /\ journey.pattern \in DOMAIN doc.patterns
  /\ LET pattern == doc.patterns[journey.pattern]
     IN /\ pattern.section \in DOMAIN doc.sections
        /\ pattern.route \in DOMAIN doc.routes
        /\ LinksOf(doc, pattern.route) # <<>>

-----------------------------------------------------------------------------
(* Tracks and services. *)

Newer(old, modified) == old.modified < modified \/ old.stamp # stamp
Overlay(f, g) == [k \in DOMAIN f \cup DOMAIN g |-> IF k \in DOMAIN g THEN g[k] ELSE f[k]]

\* Of links with the same identifier the first is kept, if it has two points or more.
TracksOf(doc) ==
  LET first == [id \in {l.id : l \in ToSet(doc.links)} |-> SelectInSeq(doc.links, LAMBDA l : l.id = id)]
      drawn == {id \in DOMAIN first : doc.links[first[id]].shape # None}
  IN [id \in drawn |-> doc.links[first[id]].shape]

ImportTracks ==
  /\ stage = "tracks"
  /\ tracks' = Overlay(tracks, TracksOf(Document))
  /\ stage' = "services"
  /\ UNCHANGED <<bundle, file, stamp, existing, batches, writes, journeys, services>>

ServiceRecords(doc) ==
  {[id |-> ServiceId(doc, s), stamp |-> stamp, modified |-> s.modified] : s \in {t \in Referred(doc) : ~Ended(t)}}
ImportServices ==
  /\ stage = "services"
  /\ LET written == {r \in ServiceRecords(Document) : \A old \in services : old.id = r.id => Newer(old, r.modified)}
     IN services' = {old \in services : \A r \in written : r.id # old.id} \cup written
  /\ stage' = "preload"
  /\ UNCHANGED <<bundle, file, stamp, existing, batches, writes, journeys, tracks>>

-----------------------------------------------------------------------------
(* Journeys. *)

\* A frequent service is as many journeys, the copies after the document's own.
Copies(journey) ==
  IF journey.frequency = None THEN <<>>
  ELSE LET f == journey.frequency
       IN [n \in 1..((f.until - journey.departure) \div f.every) |->
             [journey EXCEPT !.departure = @ + n * f.every, !.copy = n]]
AllJourneys(doc) == doc.journeys \o FlattenSeq([i \in DOMAIN doc.journeys |-> Copies(doc.journeys[i])])

JourneyOperator(doc, journey) ==
  OperatorOf(doc, IF journey.operator # None THEN journey.operator ELSE ServiceOf(doc, journey).operator)
JourneyId(doc, journey) ==
  <<JourneyOperator(doc, journey), journey.service, journey.code, journey.copy, journey.pattern>>

\* The journeys in equal shares, and what is stored under their identifiers.
Share(n) == (n + Workers - 1) \div Workers
Preload ==
  /\ stage = "preload"
  /\ existing' = [id \in {j.id : j \in journeys} |-> CHOOSE j \in journeys : j.id = id]
  /\ LET all == AllJourneys(Document)
         share == Share(Len(all))
     IN batches' = [w \in 1..Workers |->
          SubSeq(all, share * (w - 1) + 1, IF share * w < Len(all) THEN share * w ELSE Len(all))]
  /\ writes' = [w \in 1..Workers |-> <<>>]
  /\ stage' = "journeys"
  /\ UNCHANGED <<bundle, file, stamp, database>>

\* ToCTDF: rules are the dates they match; a bank holiday that has a name rather than a date matches none.
NoRules == [match |-> {}, secondary |-> {}, condition |-> {}, exclude |-> {}]
Ranges(ranges) == IF ranges = {} THEN {Days} ELSE ranges
WithElement(doc, rules, element) ==
  CASE element.kind = "days"    -> [rules EXCEPT !.match = @ \cup {element.on}]
    [] element.kind = "holiday" -> [rules EXCEPT !.match = @ \cup {element.on}, !.exclude = @ \cup {element.off}]
    [] element.kind = "special" -> [rules EXCEPT !.match = @ \cup element.on, !.exclude = @ \cup element.off]
    [] element.kind = "organisation" ->
         LET on == IF element.on \in DOMAIN doc.organisations THEN doc.organisations[element.on] ELSE {}
             off == IF element.off \in DOMAIN doc.organisations THEN Ranges(doc.organisations[element.off]) ELSE {}
             nothing == element.on \in DOMAIN doc.organisations /\ on = {}
         IN [rules EXCEPT !.secondary = @ \cup on, !.exclude = @ \cup off \cup (IF nothing THEN {Days} ELSE {})]
Parses(profile) == profile # None /\ \A i \in DOMAIN profile : profile[i].kind # "periodic"
ToCTDF(doc, profile) == FoldLeft(LAMBDA rules, e : WithElement(doc, rules, e), NoRules, profile)

MatchDate(rules, day) ==
  /\ \E r \in rules.match : day \in r
  /\ rules.secondary = {} \/ \E r \in rules.secondary : day \in r
  /\ \A r \in rules.condition : day \in r
  /\ \A r \in rules.exclude : day \notin r

\* The profile of the journey, else of its pattern, else of its service, that can be read, within the service's period.
DaysOf(doc, journey) ==
  LET service == ServiceOf(doc, journey)
      profiles == SelectSeq(<<service.profile, doc.patterns[journey.pattern].profile, journey.profile>>, Parses)
      period == {d \in Days : (service.start = None \/ service.start <= d) /\ (service.end = None \/ d <= service.end)}
  IN IF profiles = <<>> THEN {}
     ELSE {d \in Days : MatchDate([ToCTDF(doc, Last(profiles)) EXCEPT !.condition = {period}], d)}

Override(value, base, own) == IF own # None THEN own ELSE IF base # None THEN base ELSE value

\* GetVehicleJourneyTimingLinkByJourneyPatternTimingLinkRef
NoOverride == [ref |-> None, run |-> None, wait |-> None, activity |-> None]
TimingLink(journey, ref) ==
  LET own == SelectSeq(journey.links, LAMBDA l : l.ref = ref) IN IF own = <<>> THEN NoOverride ELSE own[1]

\* The legs and the time at their end; a link the route does not have is passed over with its time.
WithLeg(doc, journey, route, sofar, link) ==
  LET own == TimingLink(journey, link.id)
      depart == sofar.time + Override(0, link.wait, own.wait)
      reach == depart + Override(0, link.run, own.run)
  IN IF ~Known(doc, route, link.link) THEN sofar
     ELSE [time |-> reach,
           path |-> Append(sofar.path,
             [from |-> link.from, to |-> link.to, arrive |-> sofar.time, depart |-> depart, reach |-> reach,
              activity |-> Override("both", link.activity, own.activity), track |-> link.link])]
PathOf(doc, journey) ==
  LET pattern == doc.patterns[journey.pattern]
  IN FoldLeft(LAMBDA sofar, link : WithLeg(doc, journey, pattern.route, sofar, link),
              [time |-> journey.departure, path |-> <<>>], doc.sections[pattern.section]).path

\* The path's track is that of the link when the document draws it.
Drawn(doc, path) ==
  [i \in DOMAIN path |-> [path[i] EXCEPT !.track = IF @ \in DOMAIN TracksOf(doc) THEN @ ELSE None]]
RecordOf(doc, journey) ==
  [id |-> JourneyId(doc, journey), stamp |-> stamp, modified |-> journey.modified,
   service |-> <<JourneyOperator(doc, journey), journey.service>>,
   days |-> DaysOf(doc, journey), path |-> Drawn(doc, PathOf(doc, journey))]

BugOutdated(record) ==
  record.id \in DOMAIN existing => existing[record.id].modified < record.modified

\* A stored journey is replaced by a newer one, or when it is of another import.
Outdated(record) ==
  record.id \in DOMAIN existing => Newer(existing[record.id], record.modified)

\* A worker converts its next journey.
Convert(w) ==
  /\ stage = "journeys" /\ batches[w] # <<>>
  /\ LET journey == Head(batches[w])
         wanted == Imported(Document, journey) /\ JourneyOperator(Document, journey) \notin Ignored
     IN writes' = IF wanted /\ Outdated(RecordOf(Document, journey))
                  THEN [writes EXCEPT ![w] = Append(@, RecordOf(Document, journey))] ELSE writes
  /\ batches' = [batches EXCEPT ![w] = Tail(@)]
  /\ UNCHANGED <<bundle, file, stage, stamp, existing, database>>

\* When it has converted them all it writes them, in order.
BulkWrite(w) ==
  /\ stage = "journeys" /\ batches[w] = <<>> /\ writes[w] # <<>>
  /\ LET replaced == {r.id : r \in ToSet(writes[w])} \cap DOMAIN existing
     IN journeys' = {j \in journeys : j.id \notin replaced} \cup ToSet(writes[w])
  /\ writes' = [writes EXCEPT ![w] = <<>>]
  /\ UNCHANGED <<bundle, file, stage, stamp, existing, batches, services, tracks>>

\* All workers are done: on to the next document, after the last one to the clean-up.
Finished == stage = "journeys" /\ \A w \in 1..Workers : batches[w] = <<>> /\ writes[w] = <<>>
NextDocument ==
  /\ Finished
  /\ IF file < Len(bundle) THEN file' = file + 1 /\ stage' = "tracks" ELSE file' = file /\ stage' = "cleanup"
  /\ existing' = <<>> /\ batches' = <<>> /\ writes' = <<>>
  /\ UNCHANGED <<bundle, stamp, database>>

\* Records of other imports go.
Cleanup ==
  /\ stage = "cleanup"
  /\ journeys' = {j \in journeys : j.stamp = stamp}
  /\ services' = {s \in services : s.stamp = stamp}
  /\ stage' = "done"
  /\ UNCHANGED <<bundle, file, stamp, existing, batches, writes, tracks>>

\* A write that fails ends the process; the next run starts from the first document with a stamp of its own.
Crash ==
  /\ stage # "done" /\ stamp <= MaxCrashes
  /\ stamp' = stamp + 1 /\ file' = 1 /\ stage' = "tracks"
  /\ existing' = <<>> /\ batches' = <<>> /\ writes' = <<>>
  /\ UNCHANGED <<bundle, database>>

Next ==
  \/ ImportTracks \/ ImportServices \/ Preload \/ NextDocument \/ Cleanup \/ Crash
  \/ \E w \in 1..Workers : Convert(w) \/ BulkWrite(w)

Spec == Init /\ [][Next]_vars
-----------------------------------------------------------------------------
(* What a bundle files, said of its documents alone. *)

\* Every departure of a journey: its own and, up to the end of a frequent service, each one an interval later.
Departures(journey) ==
  IF journey.frequency = None THEN {journey}
  ELSE {[journey EXCEPT !.departure = t, !.copy = (t - journey.departure) \div journey.frequency.every] :
          t \in {x \in journey.departure..journey.frequency.until :
                   x = journey.departure \/ (x - journey.departure) % journey.frequency.every = 0}}
Filed(doc) ==
  {j \in UNION {Departures(j) : j \in ToSet(doc.journeys)} :
     Imported(doc, j) /\ JourneyOperator(doc, j) \notin Ignored}
Filings == {<<k, j>> : k \in DOMAIN bundle, j \in UNION {Filed(bundle[k]) : k \in DOMAIN bundle}}
FilingsOf(id) == {f \in Filings : f[2] \in Filed(bundle[f[1]]) /\ JourneyId(bundle[f[1]], f[2]) = id}
Identifiers == {JourneyId(bundle[k], j) : <<k, j>> \in {f \in Filings : f[2] \in Filed(bundle[f[1]])}}

\* Of several documents that file a journey the newest counts, of equally new ones the first.
Counts(f, others) ==
  \A o \in others : o[2].modified < f[2].modified \/ (o[2].modified = f[2].modified /\ f[1] <= o[1])
FilingOf(id) == CHOOSE f \in FilingsOf(id) : Counts(f, FilingsOf(id))

Says(profile, day) ==
  LET elements == ToSet(profile)
  IN /\ \/ \E e \in elements : e.kind \in {"days", "holiday"} /\ day \in e.on
        \/ \E e \in elements : e.kind = "special" /\ day \in UNION e.on
     /\ \A e \in elements : e.kind \in {"holiday"} => day \notin e.off
     /\ \A e \in elements : e.kind = "special" => day \notin UNION e.off
SaysOrganisation(doc, profile, day) ==
  LET elements == {e \in ToSet(profile) : e.kind = "organisation"}
      Of(org) == IF org \in DOMAIN doc.organisations THEN doc.organisations[org] ELSE {}
      on == {e.on : e \in elements} \cap DOMAIN doc.organisations
      off == {e.off : e \in elements} \cap DOMAIN doc.organisations
  IN /\ on # {} => \E org \in on : day \in UNION Of(org)
     /\ \A org \in on : Of(org) # {}
     /\ \A org \in off : Of(org) # {} /\ day \notin UNION Of(org)
RunsOn(doc, journey, day) ==
  LET service == ServiceOf(doc, journey)
      pattern == doc.patterns[journey.pattern]
      profile == IF Parses(journey.profile) THEN journey.profile
                 ELSE IF Parses(pattern.profile) THEN pattern.profile ELSE service.profile
  IN /\ Parses(profile) /\ Says(profile, day) /\ SaysOrganisation(doc, profile, day)
     /\ service.start # None => service.start <= day
     /\ service.end # None => day <= service.end

\* The time at a leg is that of the departure and of every run and wait before it.
RunOf(journey, link) == Override(0, link.run, TimingLink(journey, link.id).run)
WaitOf(journey, link) == Override(0, link.wait, TimingLink(journey, link.id).wait)
FiledPath(doc, journey) ==
  LET pattern == doc.patterns[journey.pattern]
      links == SelectSeq(doc.sections[pattern.section], LAMBDA l : Known(doc, pattern.route, l.link))
      Took(k) == RunOf(journey, links[k]) + WaitOf(journey, links[k])
      At(i) == journey.departure + MapThenSumSet(Took, 1..(i - 1))
  IN [i \in DOMAIN links |->
        [from |-> links[i].from, to |-> links[i].to, arrive |-> At(i), depart |-> At(i) + WaitOf(journey, links[i]),
         reach |-> At(i + 1), activity |-> Override("both", links[i].activity, TimingLink(journey, links[i].id).activity),
         track |-> CHOOSE x \in {l.shape : l \in {y \in ToSet(doc.links) : y.id = links[i].link}} : TRUE]]

\* After an import the database holds each journey of the bundle once, with the days, times and tracks of the newest
\* document that files it, and each journey's service; nothing of a journey that is no longer filed - whatever an
\* earlier import left, whichever worker writes first, and wherever imports before it died.
ImportedAsFiled ==
  stage = "done" =>
    /\ {j.id : j \in journeys} = Identifiers
    /\ Cardinality(journeys) = Cardinality(Identifiers)
    /\ \A j \in journeys :
         LET filing == FilingOf(j.id)
             doc == bundle[filing[1]]
             legs == FiledPath(doc, filing[2])
         IN /\ j.days = {d \in Days : RunsOn(doc, filing[2], d)}
            /\ Len(j.path) = Len(legs)
            /\ \A i \in DOMAIN legs :
                 [j.path[i] EXCEPT !.track = IF @ = None THEN None ELSE tracks[@]] = legs[i]
            /\ \E s \in services : s.id = j.service
=============================================================================
