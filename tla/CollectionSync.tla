--------------------------- MODULE CollectionSync ---------------------------
(***************************************************************************)
(* The synchronisation of one collection of the vector store with files:   *)
(* those of a local directory, which a user asks for, and those of a       *)
(* connector, which beat asks for too.  A file is looked up, parsed,       *)
(* looked up again, its older document deleted and the new one inserted,   *)
(* each in a call of its own to a store without transactions, while other  *)
(* deliveries do the same and the user cancels.                            *)
(*                                                                         *)
(* A lookup sees one page of the collection, the first points in the order *)
(* of their random identifiers: any of them.  A document is one point.     *)
(*                                                                         *)
(* Files are told apart by their names: both lookups fall back on the name *)
(* when the path is unknown.  The task message is sent before the log it   *)
(* names is committed; that a worker may miss the log is left out, because *)
(* the retry finds it.                                                     *)
(***************************************************************************)
EXTENDS Naturals, FiniteSets, FiniteSetsExt

CONSTANTS
  FileCount,  \* files to synchronise; a file is its place in the listing
  Contents,   \* contents a file can have; a content stands for its hash
  Workers,    \* processes of the research-io queue
  PageLimit,  \* points a scroll returns (10000)
  SyncCount,  \* bound: sync logs ever created
  MaxDocs,    \* bound: documents in the collection
  MaxEdits,   \* bound: changes of the files and cancellations, together
  MaxFaults   \* bound: crashes, time limits and failing calls; a task is retried once

ASSUME SizesAssumption ==
  /\ FileCount \in Nat \ {0} /\ SyncCount \in Nat \ {0} /\ MaxDocs \in Nat
  /\ PageLimit \in Nat \ {0}
  /\ MaxEdits \in Nat /\ MaxFaults \in 0..1

VARIABLES
  disk,        \* what each file holds
  points,      \* documents of the collection
  log,         \* sync_logs.status
  queue,       \* task messages waiting
  worker,      \* what each worker does
  cancelling,  \* logs a cancellation has read as running and not yet written
  clean,       \* history: deliveries took turns, lookups answered, nothing was added without one
  edits,
  faults

bounds == <<edits, faults>>
vars == <<disk, points, log, queue, worker, cancelling, clean, bounds>>

-----------------------------------------------------------------------------

Files == 1..FileCount
Syncs == 1..SyncCount
\* A connector is only asked whether its mode is full: its update_only is new_only.
LocalModes == {"full", "new_only", "update_only"}
SourceModes == {"full", "new_only"}

Documents == [id : 1..MaxDocs, file : Files, content : Contents]

\* sync is the log the message names, 0 if the task shall create one.
Messages == [kind : {"local", "source"}, mode : LocalModes, sync : 0..SyncCount]
NoMessage == [kind |-> "local", mode |-> "full", sync |-> 0]

\* doc: the document found, 0 for none.  fresh: no file changed
\* since the task began, nor since the ones began that it found at work.
WorkerStates ==
  [step : {"idle", "next", "looking", "parsing", "finding", "deleting", "inserting"},
   msg : Messages, sync : 0..SyncCount, todo : SUBSET Files, file : 0..FileCount,
   content : Contents \cup {"none"}, doc : 0..MaxDocs, failed : BOOLEAN, fresh : BOOLEAN]

Idle ==
  [step |-> "idle", msg |-> NoMessage, sync |-> 0, todo |-> {},
   file |-> 0, content |-> "none", doc |-> 0, failed |-> FALSE, fresh |-> FALSE]

Become(w, r) == worker' = [worker EXCEPT ![w] = r]

Fault == faults < MaxFaults /\ faults' = faults + 1
Local(w) == worker[w].msg.kind = "local"
Busy == {w \in Workers : worker[w].step # "idle"}
NextFile(w) == CHOOSE f \in worker[w].todo : \A g \in worker[w].todo : f <= g

\* The next log, if the bound allows one more.
NewLog == {t \in Syncs : log[t] = "ABSENT" /\ \A s \in 1..(t - 1) : log[s] # "ABSENT"}

Ids(docs) == {d.id : d \in docs}

\* The smallest identifier neither in the store nor remembered by a task.
FreshIds ==
  LET free == (1..MaxDocs) \ (Ids(points) \cup {worker[w].doc : w \in Workers})
  IN  {i \in free : \A j \in free : i <= j}

\* get_documents: one scroll, whose next offset is dropped.
Pages == IF Cardinality(points) <= PageLimit THEN {points} ELSE kSubset(PageLimit, points)

\* What the lookups by name and by hash find on it.
Of(page, f) == {d \in page : d.file = f}
With(page, c) == {d \in page : d.content = c}

-----------------------------------------------------------------------------
\* Requests.

\* start_local_sync.
RequestLocal ==
  /\ \E t \in NewLog, mode \in LocalModes :
       /\ log' = [log EXCEPT ![t] = "running"]
       /\ queue' = queue \cup {[kind |-> "local", mode |-> mode, sync |-> t]}
  /\ UNCHANGED <<disk, points, worker, cancelling, clean, bounds>>

\* trigger_sync, by an administrator.
RequestSource ==
  /\ \E t \in NewLog, mode \in SourceModes :
       /\ log' = [log EXCEPT ![t] = "running"]
       /\ queue' = queue \cup {[kind |-> "source", mode |-> mode, sync |-> t]}
  /\ UNCHANGED <<disk, points, worker, cancelling, clean, bounds>>

\* check_scheduled_syncs: the task it sends shall create its own log.
Schedule ==
  /\ NewLog # {}
  /\ \E mode \in SourceModes :
       queue' = queue \cup {[kind |-> "source", mode |-> mode, sync |-> 0]}
  /\ UNCHANGED <<disk, points, log, worker, cancelling, clean, bounds>>

\* cancel_sync reads the log without a lock, and writes it.
ReadForCancel ==
  /\ edits < MaxEdits
  /\ edits' = edits + 1
  /\ \E t \in Syncs : log[t] = "running" /\ cancelling' = cancelling \cup {t}
  /\ UNCHANGED <<disk, points, log, queue, worker, clean, faults>>

WriteCancel ==
  /\ \E t \in cancelling :
       log' = [log EXCEPT ![t] = "cancelled"] /\ cancelling' = cancelling \ {t}
  /\ UNCHANGED <<disk, points, queue, worker, clean, bounds>>

-----------------------------------------------------------------------------
\* The tasks.

Begun(m, t) ==
  [Idle EXCEPT !.step = "next", !.msg = m, !.sync = t, !.todo = Files,
               !.fresh = \A v \in Busy : worker[v].fresh]

\* A task starts and lists the files.  One without a log calls trigger_sync, which
\* creates the log and also sends a task for it.
Take(w) ==
  /\ worker[w].step = "idle"
  /\ \E m \in queue :
       \/ /\ m.sync # 0
          /\ Become(w, Begun(m, m.sync))
          /\ queue' = queue \ {m}
          /\ UNCHANGED log
       \/ /\ m.sync = 0
          /\ \E t \in NewLog :
               /\ Become(w, Begun(m, t))
               /\ log' = [log EXCEPT ![t] = "running"]
               /\ queue' = (queue \ {m}) \cup {[m EXCEPT !.sync = t]}
  /\ clean' = (clean /\ Busy = {})
  /\ UNCHANGED <<disk, points, cancelling, bounds>>

\* The connector cannot list its files: that is one failure.
ListingFails(w) ==
  /\ worker[w].step = "next" /\ ~Local(w) /\ worker[w].todo = Files
  /\ Fault
  /\ Become(w, [worker[w] EXCEPT !.todo = {}, !.failed = TRUE])
  /\ UNCHANGED <<disk, points, log, queue, cancelling, clean, edits>>

\* Only a full synchronisation re-ingests without looking.
FirstStep(mode) == IF mode = "full" THEN "parsing" ELSE "looking"

\* Between two files a local synchronisation looks whether it is cancelled.
Check(w) ==
  /\ worker[w].step = "next" /\ Local(w) /\ worker[w].todo # {}
  /\ IF log[worker[w].sync] = "cancelled"
     THEN Become(w, Idle)
     ELSE Become(w, [worker[w] EXCEPT !.step = FirstStep(worker[w].msg.mode),
                                      !.file = NextFile(w)])
  /\ UNCHANGED <<disk, points, log, queue, cancelling, clean, bounds>>

\* Done with a file, whose outcome is counted.
Passed(w, failed) ==
  Become(w, [worker[w] EXCEPT !.step = "next", !.todo = @ \ {worker[w].file},
                              !.file = 0, !.content = "none", !.doc = 0,
                              !.failed = @ \/ failed])

\* A connector's file is downloaded.
Download(w) ==
  /\ worker[w].step = "next" /\ ~Local(w) /\ worker[w].todo # {}
  /\ \/ /\ Become(w, [worker[w] EXCEPT !.step = "parsing", !.file = NextFile(w)])
        /\ UNCHANGED faults
     \/ /\ Fault
        /\ Become(w, [worker[w] EXCEPT !.todo = @ \ {NextFile(w)}, !.failed = TRUE])
  /\ UNCHANGED <<disk, points, log, queue, cancelling, clean, edits>>

\* Mutation: whatever is in the collection is skipped.
InCollection(d, content) == TRUE

\* The stored hash is that of the file.
Unchanged(d, content) == d.content = content

\* Mutation: a new file is left to the next full synchronisation.
WantedIfKnown(mode, found, content) == found # {} /\ \A d \in found : ~Unchanged(d, content)

\* Is a file ingested, given one of its documents or none?
Wanted(mode, found, content) ==
  IF found = {} THEN mode = "new_only" ELSE \A d \in found : ~Unchanged(d, content)

\* The documents a lookup can return: the first of those it is looking for in the
\* order of the store.
First(docs) == IF docs = {} THEN {{}} ELSE {{d} : d \in docs}

\* new_only and update_only look the file up by its name and compare the hashes.  A
\* lookup that fails counts as one that found nothing, or no hash.
Look(w) ==
  LET r == worker[w]
      decided(found) ==
        IF Wanted(r.msg.mode, found, disk[r.file])
        THEN Become(w, [r EXCEPT !.step = "parsing"])
        ELSE Passed(w, FALSE)
  IN  /\ r.step = "looking"
      /\ \/ /\ \E page \in Pages : \E found \in First(Of(page, r.file)) : decided(found)
            /\ UNCHANGED <<faults, clean>>
         \/ Fault /\ decided({}) /\ clean' = FALSE
         \/ /\ \E page \in Pages : Of(page, r.file) # {}
            /\ Fault
            /\ Become(w, [r EXCEPT !.step = "parsing"])
            /\ clean' = FALSE
      /\ UNCHANGED <<disk, points, log, queue, cancelling, edits>>

\* ingest_file returns an error instead of raising one; only a local
\* synchronisation looks at what it returns.
IngestFails(w) ==
  /\ worker[w].step \in {"parsing", "finding", "deleting", "inserting"}
  /\ Fault
  /\ Passed(w, Local(w))
  /\ UNCHANGED <<disk, points, log, queue, cancelling, clean, edits>>

\* A connector replaces only in full mode, a local directory always.
Replacing(w) == Local(w) \/ worker[w].msg.mode = "full"

\* process_file reads the file and takes its time to parse it.
Parse(w) ==
  /\ worker[w].step = "parsing"
  /\ Become(w, [worker[w] EXCEPT !.content = disk[worker[w].file],
                                 !.step = IF Replacing(w) THEN "finding" ELSE "inserting"])
  /\ clean' = (clean /\ Replacing(w))
  /\ UNCHANGED <<disk, points, log, queue, cancelling, bounds>>

\* ingest_file: the document to replace has the name or, failing that, the content.
Find(w) ==
  LET r == worker[w]
      candidates(page) ==
        IF Of(page, r.file) # {} THEN Of(page, r.file) ELSE With(page, r.content)
  IN  /\ r.step = "finding"
      /\ \/ /\ \E page \in Pages : \E d \in candidates(page) :
                 Become(w, [r EXCEPT !.step = "deleting", !.doc = d.id])
            /\ UNCHANGED <<faults, clean>>
         \/ /\ \E page \in Pages : candidates(page) = {}
            /\ Become(w, [r EXCEPT !.step = "inserting"])
            /\ UNCHANGED <<faults, clean>>
         \/ Fault /\ Become(w, [r EXCEPT !.step = "inserting"]) /\ clean' = FALSE
      /\ UNCHANGED <<disk, points, log, queue, cancelling, edits>>

\* delete_document.
Delete(w) ==
  /\ worker[w].step = "deleting"
  /\ points' = {d \in points : d.id # worker[w].doc}
  /\ Become(w, [worker[w] EXCEPT !.step = "inserting", !.doc = 0])
  /\ UNCHANGED <<disk, log, queue, cancelling, clean, bounds>>

\* insert_document, and the row in rag_documents that names the document: a local
\* synchronisation counts a file as failed if the database refuses that row.
Insert(w) ==
  /\ worker[w].step = "inserting"
  /\ \E i \in FreshIds :
       points' = points \cup
         {[id |-> i, file |-> worker[w].file, content |-> worker[w].content]}
  /\ \/ Passed(w, FALSE) /\ UNCHANGED faults
     \/ Local(w) /\ Fault /\ Passed(w, TRUE)
  /\ UNCHANGED <<disk, log, queue, cancelling, clean, edits>>

\* complete_sync writes the log whatever it says by now.
Complete(w) ==
  /\ worker[w].step = "next" /\ worker[w].todo = {}
  /\ log' = [log EXCEPT ![worker[w].sync] = IF worker[w].failed THEN "error" ELSE "done"]
  /\ Become(w, Idle)
  /\ UNCHANGED <<disk, points, queue, cancelling, clean, bounds>>

\* The database fails between two files: the task is retried from its beginning, and a
\* local synchronisation says so in its log if it can.
Raise(w) ==
  /\ worker[w].step = "next"
  /\ Fault
  /\ queue' = queue \cup {worker[w].msg}
  /\ log' \in {log} \cup
       (IF Local(w) THEN {[log EXCEPT ![worker[w].sync] = "error"]} ELSE {})
  /\ Become(w, Idle)
  /\ UNCHANGED <<disk, points, cancelling, clean, edits>>

\* The worker dies and its message is delivered again, or the hard time limit kills
\* the task, whose message is then acknowledged.
Crash(w) ==
  /\ worker[w].step # "idle"
  /\ Fault
  /\ queue' \in {queue, queue \cup {worker[w].msg}}
  /\ Become(w, Idle)
  /\ UNCHANGED <<disk, points, log, cancelling, clean, edits>>

\* Somebody changes a file.
Edit ==
  /\ edits < MaxEdits
  /\ edits' = edits + 1
  /\ \E f \in Files, c \in Contents : c # disk[f] /\ disk' = [disk EXCEPT ![f] = c]
  /\ worker' = [w \in Workers |-> [worker[w] EXCEPT !.fresh = FALSE]]
  /\ UNCHANGED <<points, log, queue, cancelling, clean, faults>>

-----------------------------------------------------------------------------

\* An empty collection and some files.
Init ==
  /\ disk \in [Files -> Contents]
  /\ points = {}
  /\ log = [t \in Syncs |-> "ABSENT"]
  /\ queue = {}
  /\ worker = [w \in Workers |-> Idle]
  /\ cancelling = {}
  /\ clean = TRUE
  /\ edits = 0
  /\ faults = 0

WorkerStep(w) ==
  \/ Take(w) \/ ListingFails(w) \/ Check(w) \/ Download(w) \/ Look(w) \/ IngestFails(w)
  \/ Parse(w) \/ Find(w) \/ Delete(w) \/ Insert(w) \/ Complete(w) \/ Raise(w) \/ Crash(w)

Next ==
  \/ RequestLocal \/ RequestSource \/ Schedule \/ ReadForCancel \/ WriteCancel \/ Edit
  \/ \E w \in Workers : WorkerStep(w)

Spec == Init /\ [][Next]_vars

-----------------------------------------------------------------------------
\* Properties.

TypeOK ==
  /\ disk \in [Files -> Contents]
  /\ points \subseteq Documents
  /\ log \in [Syncs -> {"ABSENT", "running", "done", "error", "cancelled"}]
  /\ queue \subseteq Messages
  /\ worker \in [Workers -> WorkerStates]
  /\ cancelling \subseteq Syncs
  /\ clean \in BOOLEAN
  /\ edits \in 0..MaxEdits
  /\ faults \in 0..MaxFaults

\* A local synchronisation is about to report "done".
Reporting(w) ==
  Complete(w) /\ Local(w) /\ ~worker[w].failed

\* One document of every file fits on a page.
OnePage == FileCount <= PageLimit

\* The collection has a document with that content, on whichever page.
Holds(c) == \E d \in points : d.content = c

\* What "done" means for a local directory whose files fit on one page: whatever
\* crashed, was cancelled or failed in earlier synchronisations, no file has two
\* documents, no document is out of date, and, except after update_only, every content
\* can be found - as long as deliveries took turns, lookups answered and the files did
\* not change meanwhile.  FullReplaces says what happens beyond the page.
Mirrored ==
  [][\A w \in Workers :
       OnePage /\ Reporting(w) /\ clean /\ worker[w].fresh =>
         /\ \A d, e \in points : d.file = e.file => d = e
         /\ \A d \in points : d.content = disk[d.file]
         /\ worker[w].msg.mode # "update_only" => \A f \in Files : Holds(disk[f])]_vars

\* No two synchronisations lose a content between them: when one of a local directory
\* reports "done", everything is in the collection, however large, or about to be
\* inserted by a task that replaces it, although each deletes what the other has
\* inserted - as long as no call failed and the files did not change meanwhile.
NothingLost ==
  [][\A w \in Workers :
       Reporting(w) /\ worker[w].msg.mode # "update_only" /\ worker[w].fresh /\ faults = 0 =>
         \A f \in Files :
           \/ Holds(disk[f])
           \/ \E v \in Workers : worker[v].step = "inserting" /\ worker[v].content = disk[f]]_vars

-----------------------------------------------------------------------------
\* What the documentation says of a synchronisation and the code does not keep.

\* docs/howto/configure-sync-sources.md:107 says of full that "existing documents [are]
\* replaced".  A document whose points lie behind the first page is not found, and its
\* file gets a second one - although deliveries took turns and every lookup answered.
FullReplaces ==
  [][\A w \in Workers :
       Insert(w) /\ worker[w].msg.mode = "full" /\ clean =>
         ~(\E d \in points : d.file = worker[w].file)]_vars

\* docs/howto/configure-sync-sources.md:108 says of new_only, the default of a
\* connector, that "unchanged files are skipped".  A connector's files are ingested with
\* replace=False and without a lookup: each synchronisation adds all of them again.
NewOnlySkips ==
  [][\A w \in Workers :
       Insert(w) /\ worker[w].msg.mode = "new_only" =>
         ~(\E d \in points : d.file = worker[w].file /\ d.content = worker[w].content)]_vars

\* api/routes/v1/rag.py:302 answers a cancellation with "Sync cancelled".  complete_sync
\* writes over it, after the last file or, for a connector, which never looks, after all
\* of them.
CancelStands == [][\A t \in Syncs : log[t] = "cancelled" => log'[t] = "cancelled"]_vars

=============================================================================
