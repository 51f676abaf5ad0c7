----------------------------- MODULE AlertPipeline -----------------------------
(***************************************************************************)
(* A service alert on its way to the people who follow what it is about: the *)
(* poller of TfL disruptions and the realtime tracker write it to MongoDB, the *)
(* watcher reads the change stream and publishes events, the event consumer     *)
(* matches them with its cache of subscriptions, and the notification consumer   *)
(* pushes.  A subscription stands for its compiled expression: the identifiers    *)
(* it matches, day instances of its journeys among them.                          *)
(***************************************************************************)
EXTENDS Naturals, Sequences, FiniteSets, SequencesExt, Functions

CONSTANTS
  Polled,      \* alerts the TfL poller writes: a line and a severity
  Tracked,     \* alerts that come in through the realtime queue
  Idents, Texts,
  LineOf,      \* of a polled alert, the identifiers of its line
  Subs, Follows,   \* subscriptions, and the identifiers each one matches
  MaxChanges, MaxFaults, \* bounds on announced changes and on failures
  None

AlertAssumption ==
  /\ Polled \cap Tracked = {} /\ MaxChanges \in Nat /\ MaxFaults \in Nat
  /\ LineOf \in [Polled -> SUBSET Idents] /\ Follows \in [Subs -> SUBSET Idents]

Alerts == Polled \cup Tracked

VARIABLES
  reported,  \* what TfL reports of a line and severity: a sequence of reasons
  alerts,    \* the collection service_alerts
  watching,  \* whether the change stream is open
  stream,    \* its changes that the watcher has not read
  events,    \* the events queue, without what the consumer holds
  held,      \* the batch of the consumer: events, those not looked at, the current one
  cache,     \* compiled subscriptions
  notes,     \* the notification queue
  told,      \* history: the latest change of an alert a subscriber was told
  owed,      \* history: the latest change a subscriber should be told, 0 if none
  credit,    \* history: of a polled alert, occasions to announce it less announcements
  changes,   \* history: number of changes, which numbers them
  faults

vars == <<reported, alerts, watching, stream, events, held, cache, notes, told, owed,
          credit, changes, faults>>

Idle == [batch |-> {}, todo |-> {}, event |-> None, subs |-> {}]

Init ==
  /\ reported = [a \in Polled |-> <<>>] /\ alerts = [a \in Alerts |-> None]
  /\ watching = TRUE /\ stream = <<>> /\ events = {} /\ held = Idle
  /\ cache \in SUBSET Subs /\ notes = {}
  /\ told = [s \in Subs |-> [a \in Alerts |-> 0]] /\ owed = told
  /\ credit = [a \in Polled |-> 0] /\ changes = 0 /\ faults = 0

Fault == faults < MaxFaults /\ faults' = faults + 1
World == <<reported, alerts>>
Queues == <<events, held, notes>>

-----------------------------------------------------------------------------
(* Writing an alert.  Every write also sets the time of modification, so it is a    *)
(* change even when nothing else differs.                                           *)

Doc(text, ids, provider) == [text |-> text, ids |-> ids, providername |-> provider]

Change(a, n, before, after) ==
  [alert |-> a, no |-> n, op |-> IF before = None THEN "insert" ELSE "update",
   content |-> before # None /\ before.text # after.text,
   idents  |-> before # None /\ before.ids # after.ids,
   pre |-> IF before = None THEN {} ELSE before.ids]

\* What a change tells a subscriber, whatever the watcher makes of it.
Concerns(s, before, after) ==
  LET wanted == Follows[s] \cap after.ids
  IN  \/ before = None /\ wanted # {}
      \/ before # None /\ before.text # after.text /\ wanted # {}
      \/ before # None /\ wanted \ before.ids # {}

\* One write of a bulk: the documents and their changes so far, and the alert and its
\* new document.
Upsert(state, a, doc) ==
  [docs |-> [state.docs EXCEPT ![a] = doc],
   log  |-> Append(state.log, Change(a, changes + Len(state.log) + 1, state.docs[a], doc))]

Commit(final) ==
  LET n == changes + Len(final.log)
  IN  /\ alerts' = final.docs
      /\ changes' = n
      /\ stream' = IF watching THEN stream \o final.log ELSE stream
      /\ owed' = [s \in Subs |-> [a \in Alerts |->
           IF ~\E k \in DOMAIN final.log : final.log[k].alert = a THEN owed[s][a]
           ELSE IF watching /\ s \in cache /\ Concerns(s, alerts[a], final.docs[a]) THEN n
           ELSE IF alerts[a] # None /\ Follows[s] \cap (alerts[a].ids \ final.docs[a].ids) # {} THEN 0
           ELSE owed[s][a]]]

\* GetLineStatuses: a poll looks each reported status up, writes them in one bulk, and
\* removes what it did not write.  Statuses of one severity share an identifier.
Statuses(answer) == [a \in Polled |-> IF answer THEN reported[a] ELSE <<>>]

Build(a, reason, old) ==
  IF old = None THEN Doc(reason, LineOf[a], "TfL")
  ELSE [old EXCEPT !.text = reason]

WritesOf(a, statuses) == [k \in DOMAIN statuses[a] |-> [alert |-> a, doc |-> Build(a, statuses[a][k], alerts[a])]]

Bulk(statuses) ==
  FoldFunction(LAMBDA w, state : FoldLeft(LAMBDA st, x : Upsert(st, x.alert, x.doc), state, w),
               [docs |-> alerts, log |-> <<>>],
               [a \in Polled |-> WritesOf(a, statuses)])

\* The selector names datasource.provider; the documents have datasource.providername.
Obsolete(docs, written) ==
  {a \in Polled : /\ docs[a] # None
                  /\ "provider" \in DOMAIN docs[a] /\ docs[a].provider = "TfL"
                  /\ a \notin written}

Poll(answer) ==
  LET statuses == Statuses(answer)
      bulk     == Bulk(statuses)
      gone     == Obsolete(bulk.docs, {a \in Polled : statuses[a] # <<>>})
  IN  /\ changes + Len(bulk.log) <= MaxChanges
      /\ Commit([bulk EXCEPT !.docs = [a \in Alerts |-> IF a \in gone THEN None ELSE bulk.docs[a]]])
      /\ UNCHANGED <<reported, watching, Queues, cache, credit, told, faults>>

\* The API answers with an error, which decodes to an empty list.
PollFails == /\ Fault
             /\ Commit([docs |-> [a \in Alerts |->
                          IF a \in Obsolete(alerts, {}) THEN None ELSE alerts[a]], log |-> <<>>])
             /\ UNCHANGED <<reported, watching, Queues, cache, credit, told>>

Report(a, statuses) ==
  /\ reported[a] # statuses /\ changes < MaxChanges
  /\ reported' = [reported EXCEPT ![a] = statuses] /\ changes' = changes + 1
  /\ credit' = [credit EXCEPT ![a] = @ + CASE Len(statuses) = 0 -> 0 [] Len(statuses) = 1 -> 1 [] OTHER -> MaxChanges]
  /\ UNCHANGED <<alerts, watching, stream, Queues, cache, told, owed, faults>>

\* updateServiceAlert and the bulk of the tracker: the identifiers matched this time
\* replace those matched before; an alert without any is not written.
Track(a, text, ids) ==
  /\ ids # {} /\ changes < MaxChanges
  /\ Commit(Upsert([docs |-> alerts, log |-> <<>>], a, Doc(text, ids, "other")))
  /\ UNCHANGED <<reported, watching, Queues, cache, credit, told, faults>>

\* A feed withdraws the alert, or its time of validity is long over.
Withdraw(a) ==
  /\ alerts[a] # None /\ alerts' = [alerts EXCEPT ![a] = None]
  /\ owed' = [s \in Subs |-> [owed[s] EXCEPT ![a] = 0]]
  /\ credit' = [b \in Polled |-> credit[b] + IF b = a THEN 1 ELSE 0]
  /\ UNCHANGED <<reported, watching, stream, Queues, cache, told, changes, faults>>

-----------------------------------------------------------------------------
(* The watcher.  The document is the one at the time of the lookup, which may     *)
(* have changed since; the image before the change is of the change itself.        *)

Added(pre, doc) == doc.ids \ pre

BugAnnounced(c, doc) == IF c.op = "insert" \/ c.content \/ ~c.idents THEN doc.ids ELSE Added(c.pre, doc)

\* The identifiers an event carries; none, when the change is not announced.
Announced(c, doc) ==
  IF c.op = "insert" \/ c.content THEN doc.ids
  ELSE IF c.idents THEN Added(c.pre, doc) ELSE {}

Watch ==
  /\ stream # <<>>
  /\ LET c   == Head(stream)
         doc == alerts[c.alert]
     IN  IF doc = None \/ Announced(c, doc) = {} THEN UNCHANGED <<events, credit>>
         ELSE /\ events' = events \cup {[no |-> c.no, alert |-> c.alert,
                                         ids |-> Announced(c, doc), upto |-> changes]}
              /\ credit' = [a \in Polled |-> credit[a] - IF a = c.alert THEN 1 ELSE 0]
  /\ stream' = Tail(stream)
  /\ UNCHANGED <<World, watching, held, notes, cache, told, owed, changes, faults>>

\* The stream ends with an error or the process does: no token says where to resume.
WatchEnds ==
  /\ watching /\ Fault /\ watching' = FALSE /\ stream' = <<>>
  /\ owed' = [s \in Subs |-> [a \in Alerts |->
       IF \E k \in DOMAIN stream : stream[k].alert = a THEN 0 ELSE owed[s][a]]]
  /\ UNCHANGED <<World, Queues, cache, credit, told, changes>>

WatchAgain ==
  /\ ~watching /\ watching' = TRUE
  /\ UNCHANGED <<World, stream, Queues, cache, credit, told, owed, changes, faults>>

-----------------------------------------------------------------------------
(* The event consumer: a batch is acknowledged when all its events have been       *)
(* matched with the cache and their notifications published.                        *)

Take(batch) ==
  /\ held = Idle /\ batch # {} /\ batch \subseteq events
  /\ held' = [Idle EXCEPT !.batch = batch, !.todo = batch]
  /\ events' = events \ batch
  /\ UNCHANGED <<World, watching, stream, notes, cache, credit, told, owed, changes, faults>>

Matching(e) == {s \in cache : Follows[s] \cap e.ids # {}}

Match(e) ==
  /\ held.event = None /\ e \in held.todo
  /\ held' = [held EXCEPT !.todo = @ \ {e}, !.event = e, !.subs = Matching(e)]
  /\ UNCHANGED <<World, watching, stream, events, notes, cache, credit, told, owed, changes, faults>>

Publish(s) ==
  /\ s \in held.subs
  /\ notes' = notes \cup {[sub |-> s, no |-> held.event.no, alert |-> held.event.alert, upto |-> held.event.upto]}
  /\ held' = [held EXCEPT !.subs = @ \ {s}]
  /\ UNCHANGED <<World, watching, stream, events, cache, credit, told, owed, changes, faults>>

NextEvent ==
  /\ held.event # None /\ held.subs = {}
  /\ held' = IF held.todo = {} THEN Idle ELSE [held EXCEPT !.event = None]
  /\ UNCHANGED <<World, watching, stream, events, notes, cache, credit, told, owed, changes, faults>>

BugCrash == /\ held # Idle /\ Fault /\ held' = Idle
            /\ UNCHANGED <<World, watching, stream, events, notes, cache, credit, told, owed, changes>>

\* The process ends; the cleaner returns what was not acknowledged.
ConsumerCrash ==
  /\ held # Idle /\ Fault
  /\ events' = events \cup held.batch /\ held' = Idle
  /\ UNCHANGED <<World, watching, stream, notes, cache, credit, told, owed, changes>>

\* SendPush, to at least one of the user's devices; a notification that reaches none is
\* acknowledged as well.
Push(n) ==
  /\ n \in notes /\ notes' = notes \ {n}
  /\ told' = [told EXCEPT ![n.sub][n.alert] = IF n.upto > @ THEN n.upto ELSE @]
  /\ UNCHANGED <<World, watching, stream, events, held, cache, credit, owed, changes, faults>>

PushFails(n) ==
  /\ n \in notes /\ Fault /\ notes' = notes \ {n}
  /\ owed' = [owed EXCEPT ![n.sub][n.alert] = 0]
  /\ UNCHANGED <<World, watching, stream, events, held, cache, credit, told, changes>>

-----------------------------------------------------------------------------
(* Subscriptions. *)

\* Users edit their subscriptions and days pass: a reload may find any of them.  Who is
\* dropped is owed nothing any more.
Reload(found) ==
  /\ cache # found /\ cache' = found
  /\ owed' = [s \in Subs |-> IF s \in found THEN owed[s] ELSE [a \in Alerts |-> 0]]
  /\ UNCHANGED <<World, watching, stream, Queues, credit, told, changes, faults>>

-----------------------------------------------------------------------------
Reasons == {<<>>} \cup {<<t>> : t \in Texts} \cup {<<t, u>> : t \in Texts, u \in Texts}

Polling ==
  \/ \E a \in Polled, r \in Reasons : Report(a, r)
  \/ Poll(TRUE) \/ PollFails
  \/ \E a \in Polled : Withdraw(a)

Tracking ==
  \/ \E a \in Tracked, t \in Texts, ids \in SUBSET Idents : Track(a, t, ids)
  \/ \E a \in Tracked : Withdraw(a)

Delivery ==
  \/ Watch \/ WatchEnds \/ WatchAgain
  \/ \E b \in SUBSET events : Take(b)
  \/ \E e \in held.todo : Match(e)
  \/ \E s \in held.subs : Publish(s)
  \/ NextEvent \/ ConsumerCrash
  \/ \E n \in notes : Push(n) \/ PushFails(n)
  \/ \E found \in SUBSET Subs : Reload(found)

Next == Polling \/ Tracking \/ Delivery

Fairness ==
  /\ WF_vars(Watch)
  /\ WF_vars(\E b \in SUBSET events : Take(b))
  /\ WF_vars(\E e \in held.todo : Match(e))
  /\ WF_vars(\E s \in held.subs : Publish(s))
  /\ WF_vars(NextEvent)
  /\ WF_vars(\E n \in notes : Push(n))

Spec == Init /\ [][Next]_vars /\ Fairness

-----------------------------------------------------------------------------
(* Properties *)

\* Whoever follows an identifier of an alert and whom the watcher saw it reach (the alert
\* is new, its text changed, or the identifier was added) is told in the end, with the
\* alert as it was then or later: through lookups that find a later document, through
\* batches handled twice and out of order (servicealerts.go, consumer.go).
Told(s, a)   == owed[s][a] <= told[s][a]
FollowersTold == \A s \in Subs, a \in Alerts : <>[]Told(s, a)

\* A poll that finds what the last one found announces nothing: a disruption is
\* announced once for each time it begins, changes its reason or has been removed
\* (servicealerts.go:142-195).  Two statuses of one severity share a document, which
\* each poll writes twice.
NoEcho == \A a \in Polled : credit[a] >= 0
=============================================================================
