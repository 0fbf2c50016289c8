---------------------------- MODULE LibrarySync ----------------------------
(***************************************************************************)
(* The synchronisation of a private paper library with the Zotero export   *)
(* it mirrors.  A run goes through the BibTeX entries, builds a new        *)
(* document version for every changed source - rows in PostgreSQL, points  *)
(* in Qdrant, in no common transaction - and declares MISSING what it did  *)
(* not see.  The administrator and Celery beat both request runs, a run    *)
(* may be delivered more than once and the source may change meanwhile.    *)
(*                                                                         *)
(* A row of the catalogue is one citekey.  A source is its content: two    *)
(* entries with the same content share the file.  The sequence numbers of  *)
(* a run's events are modelled by what they decide: an attempt whose copy  *)
(* of the counter is behind violates the unique constraint.                *)
(***************************************************************************)
EXTENDS Naturals, FiniteSets

CONSTANTS
  EntryCount,   \* BibTeX entries; a citekey is its place in the file
  Contents,     \* hashes a source can have
  Workers,      \* processes of the research-cpu queue
  RunCount,     \* bound: runs ever requested
  MaxWaiting,   \* bound: deliveries of one run waiting
  MaxEdits,     \* bound: changes of the source
  MaxFaults     \* bound: crashes, exceptions, lost messages

ASSUME SizesAssumption ==
  /\ EntryCount \in Nat \ {0} /\ RunCount \in Nat \ {0}
  /\ MaxWaiting \in Nat \ {0} /\ MaxEdits \in Nat /\ MaxFaults \in Nat
  /\ {"none", "unreadable"} \cap Contents = {}

VARIABLES
  source,      \* what the read-only source holds for each citekey
  row,         \* local_papers: status and source_sha256 of the active version
  points,      \* papers whose active version has its points in Qdrant
  run,         \* local_paper_sync_runs.status
  completed,   \* runs with a COMPLETED event
  quarantine,  \* local_paper_quarantine_items of each run
  library,     \* local_paper_libraries.status
  asked,       \* requesters that found no active run
  messages,    \* sync_local_paper_library deliveries waiting, per run
  worker,      \* what each worker does, and the rows its session holds
  edits,
  faults

catalogue == <<row, points>>
runRows == <<run, completed, quarantine, library>>
queue == <<asked, messages>>
bounds == <<edits, faults>>
vars == <<source, catalogue, runRows, queue, worker, bounds>>

-----------------------------------------------------------------------------

Citekeys == 1..EntryCount
Runs == 1..RunCount
Requesters == {"api", "beat"}

Row == [status : {"ABSENT", "INDEXED", "MISSING"}, sha : Contents \cup {"none"}]
NoRow == [status |-> "ABSENT", sha |-> "none"]

RunStatuses == {"ABSENT", "QUEUED", "RUNNING", "COMPLETED", "FAILED"}
LibraryStatuses == {"ABSENT", "QUEUED", "RUNNING", "READY", "FAILED"}

\* step: begun - the run is loaded; matching - the next entry is looked up; indexing - a
\* changed source is parsed; switched - the candidate's rows are flushed and its points
\* have replaced the older ones; closing - unseen papers have lost their points.
\* fresh: no other attempt has written an event since this one read the counter.
\* hashed: contents by_hash has a paper for; a replaced content stays in it.
\* alone: no other attempt, and no change of the source, since this one began.
WorkerStates ==
  [step : {"idle", "begun", "matching", "indexing", "switched", "closing"},
   run : Runs, status : RunStatuses, library : LibraryStatuses, fresh : BOOLEAN,
   rows : [Citekeys -> Row], dirty : SUBSET Citekeys, todo : SUBSET Citekeys,
   key : Citekeys, content : Contents \cup {"none", "unreadable"},
   claimed : SUBSET Contents, hashed : SUBSET (Contents \cup {"none"}),
   seen : SUBSET Citekeys, bad : SUBSET Citekeys, errors : SUBSET Citekeys,
   candidate : BOOLEAN, alone : BOOLEAN]

Idle ==
  [step |-> "idle", run |-> 1, status |-> "ABSENT", library |-> "ABSENT", fresh |-> FALSE,
   rows |-> [k \in Citekeys |-> NoRow], dirty |-> {}, todo |-> {}, key |-> 1,
   content |-> "none", claimed |-> {}, hashed |-> {}, seen |-> {}, bad |-> {},
   errors |-> {}, candidate |-> FALSE, alone |-> FALSE]

Fault == faults < MaxFaults /\ faults' = faults + 1
Busy(w) == worker[w].step # "idle"
Active == {r \in Runs : run[r] \in {"QUEUED", "RUNNING"}}

\* An assignment reaches the database only if it changes the session's copy.
Written(copy, new, stored) == IF copy = new THEN stored ELSE new

\* The paper's row is locked by an attempt other than w's that has flushed a candidate.
RowLocked(w, k) ==
  \E v \in Workers \ {w} : worker[v].step = "switched" /\ worker[v].key = k

\* Everybody's record after w inserted an event of its run.
After(w, record) ==
  [v \in Workers |->
     IF v = w THEN record
     ELSE [worker[v] EXCEPT !.fresh = @ /\ worker[v].run # worker[w].run]]

-----------------------------------------------------------------------------
\* request_sync, in two steps: the SELECT takes no lock.

Enqueue(r) == messages' = [messages EXCEPT ![r] = @ + 1]

\* Mutation: an active run is returned and that is all.
AskReturned(q) == q \notin asked /\ Active # {} /\ UNCHANGED vars

\* A run is active: it is returned, and enqueued again if it is still QUEUED.
AskActive(q) ==
  /\ q = "beat" => library # "ABSENT"
  /\ q \notin asked
  /\ \E r \in Active :
       run[r] = "QUEUED" /\ messages[r] < MaxWaiting /\ Enqueue(r)
  /\ UNCHANGED <<source, catalogue, runRows, asked, worker, bounds>>

AskIdle(q) ==
  /\ q = "beat" => library # "ABSENT"
  /\ q \notin asked /\ Active = {}
  /\ asked' = asked \cup {q}
  /\ UNCHANGED <<source, catalogue, runRows, messages, worker, bounds>>

\* A new run is committed and then enqueued; the message may be lost.
Request(q) ==
  /\ q \in asked
  /\ asked' = asked \ {q}
  /\ \E r \in Runs :
       /\ run[r] = "ABSENT" /\ \A s \in Runs : s < r => run[s] # "ABSENT"
       /\ run' = [run EXCEPT ![r] = "QUEUED"]
       /\ library' = "QUEUED"
       /\ \/ Enqueue(r) /\ UNCHANGED faults
          \/ Fault /\ UNCHANGED messages
  /\ UNCHANGED <<source, catalogue, completed, quarantine, worker, edits>>

-----------------------------------------------------------------------------
\* run_sync up to the first checkpoint.

Begin(w, r) ==
  /\ ~Busy(w) /\ messages[r] > 0
  /\ r \notin completed
  /\ messages' = [messages EXCEPT ![r] = @ - 1]
  /\ worker' = [v \in Workers |->
       IF v = w THEN [Idle EXCEPT !.step = "begun", !.run = r, !.status = run[r],
                                  !.library = library, !.fresh = TRUE,
                                  !.alone = \A u \in Workers : ~Busy(u)]
       ELSE [worker[v] EXCEPT !.alone = FALSE]]
  /\ UNCHANGED <<source, catalogue, runRows, asked, bounds>>

\* The run has its COMPLETED event: a repeated delivery restores what it said.
Redelivered(w, r) ==
  /\ ~Busy(w) /\ messages[r] > 0
  /\ r \in completed
  /\ messages' = [messages EXCEPT ![r] = @ - 1]
  /\ run' = [run EXCEPT ![r] = "COMPLETED"]
  /\ library' = "READY"
  /\ UNCHANGED <<source, catalogue, completed, quarantine, asked, worker, bounds>>

\* Mutation: what an earlier attempt quarantined stays.
QuarantineKept(r) == quarantine

Emptied(r) == [quarantine EXCEPT ![r] = {}]

Catalogued == {row[k].sha : k \in Citekeys}

\* RUNNING, the quarantine emptied, the BibTeX file read, the DISCOVERING checkpoint; then
\* the catalogue is loaded, and a MISSING paper whose source has the catalogued hash is
\* INDEXED again, in the session for the time being.
Discover(w) ==
  LET r == worker[w].run
      back == {k \in Citekeys : row[k].status = "MISSING" /\ source[k] = row[k].sha}
  IN  /\ worker[w].step = "begun" /\ worker[w].fresh
      /\ run' = [run EXCEPT ![r] = Written(worker[w].status, "RUNNING", @)]
      /\ library' = Written(worker[w].library, "RUNNING", library)
      /\ quarantine' = Emptied(r)
      /\ worker' = After(w,
           [worker[w] EXCEPT !.step = "matching", !.status = "RUNNING", !.library = "RUNNING",
              !.rows = [k \in Citekeys |-> IF k \in back THEN [row[k] EXCEPT !.status = "INDEXED"]
                                                        ELSE row[k]],
              !.dirty = back,
              !.hashed = Catalogued,
              !.todo = {k \in Citekeys : source[k] # "none"}])
      /\ UNCHANGED <<source, catalogue, completed, queue, bounds>>

-----------------------------------------------------------------------------
\* One entry.  Its two checkpoints commit what the entry before it left in the session:
\* papers that are INDEXED again.

Flushed(dirty) ==
  [k \in Citekeys |-> IF k \in dirty THEN [row[k] EXCEPT !.status = "INDEXED"] ELSE row[k]]

\* The content is claimed by an earlier entry, or a new citekey brings a content that is
\* catalogued under another one.
Duplicate(w, k, c) ==
  \/ c \in worker[w].claimed
  \/ worker[w].rows[k] = NoRow /\ c \in worker[w].hashed

\* No source, one that is claimed or catalogued elsewhere, or one without text.  An entry
\* claims its source before it is rejected for a content that is catalogued elsewhere.
Rejected(w, k, c) == c \notin Contents \/ Duplicate(w, k, c)

Match(w) ==
  LET k == CHOOSE j \in worker[w].todo : \A i \in worker[w].todo : j <= i
      c == source[k]
      copy == worker[w].rows[k]
      taken == [worker[w] EXCEPT !.todo = @ \ {k}, !.dirty = {},
                                 !.claimed = @ \cup ({c} \cap Contents)]
  IN  /\ worker[w].step = "matching" /\ worker[w].fresh
      /\ worker[w].todo # {}
      /\ \A j \in worker[w].dirty : ~RowLocked(w, j)
      /\ row' = Flushed(worker[w].dirty)
      /\ \/ /\ Rejected(w, k, c)
            /\ quarantine' = [quarantine EXCEPT ![worker[w].run] = @ \cup {k}]
            /\ worker' = After(w, [taken EXCEPT !.bad = @ \cup {k}])
         \/ /\ ~Rejected(w, k, c) /\ copy.sha = c
            /\ worker' = After(w, [taken EXCEPT !.seen = @ \cup {k},
                                               !.rows[k].status = "INDEXED",
                                               !.dirty = IF copy.status = "INDEXED" THEN {}
                                                                                    ELSE {k}])
            /\ UNCHANGED quarantine
         \/ /\ ~Rejected(w, k, c) /\ copy.sha # c
            /\ worker' = After(w, [taken EXCEPT !.step = "indexing", !.key = k,
                                               !.content = c])
            /\ UNCHANGED quarantine
      /\ UNCHANGED <<source, points, run, completed, library, queue, bounds>>

\* The rows of the candidate violate a unique constraint: the citekey, the content or the
\* version is there already.
Conflict(w) ==
  LET k == worker[w].key
      c == worker[w].content
  IN  \/ worker[w].rows[k] = NoRow /\ row[k] # NoRow
      \/ \E j \in Citekeys : row[j].sha = c

\* The rows are flushed, the points of the new version written beside the old ones and
\* all other points of the paper deleted: activate_document_version_chunks.
Build(w) ==
  /\ worker[w].step = "indexing"
  /\ ~Conflict(w) /\ ~RowLocked(w, worker[w].key)
  /\ points' = points \ {worker[w].key}
  /\ worker' = [worker EXCEPT ![w].step = "switched", ![w].candidate = TRUE]
  /\ UNCHANGED <<source, row, runRows, queue, bounds>>

\* Back to the entries.
Resumed(record) == [record EXCEPT !.step = "matching", !.key = 1, !.content = "none",
                                !.candidate = FALSE]

CommitVersion(w) ==
  LET k == worker[w].key
      new == [status |-> "INDEXED", sha |-> worker[w].content]
  IN  /\ worker[w].step = "switched"
      /\ row' = [row EXCEPT ![k] = new]
      /\ points' = IF worker[w].candidate THEN points \cup {k} ELSE points
      /\ worker' = [worker EXCEPT ![w] =
           [Resumed(worker[w]) EXCEPT !.seen = worker[w].seen \cup {k}, !.rows[k] = new,
                                      !.hashed = worker[w].hashed \cup {new.sha}]]
      /\ UNCHANGED <<source, runRows, queue, bounds>>

\* Mutation: a paper whose rebuild failed was not seen.
NotPreserved(k, c) == {}

\* The paper a failed rebuild leaves in service.
Preserved(k, c) ==
  {j \in Citekeys : /\ row[j].status = "INDEXED"
                    /\ IF row[k] # NoRow THEN j = k ELSE row[j].sha = c}

\* An exception while an entry is worked on: rolled back, the session reads everything
\* anew, the entry is quarantined and the run goes on.
IndexFails(w) ==
  LET k == worker[w].key
  IN  /\ \/ worker[w].step = "indexing" /\ Conflict(w) /\ ~RowLocked(w, k) /\ UNCHANGED faults
         \/ worker[w].step \in {"indexing", "switched"} /\ Fault
      /\ quarantine' = [quarantine EXCEPT ![worker[w].run] = @ \cup {k}]
      /\ worker' = [worker EXCEPT ![w] =
           [Resumed(worker[w]) EXCEPT
              !.fresh = TRUE, !.rows = row, !.hashed = Catalogued,
              !.status = run[worker[w].run], !.library = library,
              !.bad = worker[w].bad \cup {k}, !.errors = worker[w].errors \cup {k},
              !.seen = worker[w].seen \cup Preserved(k, worker[w].content)]]
      /\ UNCHANGED <<source, catalogue, run, completed, library, queue, edits>>

-----------------------------------------------------------------------------
\* The end of an attempt.

\* Mutation: nothing is dropped.
NothingDropped(w) == {}

\* Papers the attempt did not see are MISSING, and lose their points first.
Dropped(w) ==
  {k \in Citekeys \ worker[w].seen : worker[w].rows[k].status = "INDEXED"}

Reconcile(w) ==
  /\ worker[w].step = "matching" /\ worker[w].todo = {}
  /\ points' = points \ Dropped(w)
  /\ worker' = [v \in Workers |->
       IF v = w THEN [worker[w] EXCEPT !.step = "closing"]
       ELSE [worker[v] EXCEPT !.candidate = @ /\ worker[v].key \notin Dropped(w)]]
  /\ UNCHANGED <<source, row, runRows, queue, bounds>>

\* The statuses, the summary and the COMPLETED event in one commit.
Complete(w) ==
  LET r == worker[w].run
  IN  /\ worker[w].step = "closing" /\ worker[w].fresh
      /\ \A k \in Dropped(w) \cup worker[w].dirty : ~RowLocked(w, k)
      /\ row' = [k \in Citekeys |-> IF k \in Dropped(w) THEN [row[k] EXCEPT !.status = "MISSING"]
                                                       ELSE Flushed(worker[w].dirty)[k]]
      /\ run' = [run EXCEPT ![r] = Written(worker[w].status, "COMPLETED", @)]
      /\ library' = Written(worker[w].library, "READY", library)
      /\ completed' = completed \cup {r}
      /\ worker' = After(w, Idle)
      /\ UNCHANGED <<source, points, quarantine, queue, bounds>>

\* An exception outside the work on an entry, or an event number that is taken: rolled
\* back, and FAILED by the rows as they are then.
SyncFails(w) ==
  /\ worker[w].step \in {"begun", "matching", "closing"}
  /\ \/ ~worker[w].fresh /\ UNCHANGED faults
     \/ Fault
  /\ run' = [run EXCEPT ![worker[w].run] = "FAILED"]
  /\ library' = "FAILED"
  /\ worker' = After(w, Idle)
  /\ UNCHANGED <<source, catalogue, completed, quarantine, queue, edits>>

\* The process dies: the delivery was not acknowledged and comes again.
Crash(w) ==
  /\ Busy(w) /\ Fault
  /\ messages' = [messages EXCEPT ![worker[w].run] = @ + 1]
  /\ worker' = [worker EXCEPT ![w] = Idle]
  /\ UNCHANGED <<source, catalogue, runRows, asked, edits>>

\* The owner edits the Zotero library.
Edit ==
  /\ edits < MaxEdits /\ edits' = edits + 1
  /\ \E k \in Citekeys, c \in Contents \cup {"none", "unreadable"} :
       source[k] # c /\ source' = [source EXCEPT ![k] = c]
  /\ worker' = [w \in Workers |-> [worker[w] EXCEPT !.alone = FALSE]]
  /\ UNCHANGED <<catalogue, runRows, queue, faults>>

-----------------------------------------------------------------------------

Init ==
  /\ source \in [Citekeys -> Contents]
  /\ row = [k \in Citekeys |-> NoRow] /\ points = {}
  /\ run = [r \in Runs |-> "ABSENT"] /\ completed = {}
  /\ quarantine = [r \in Runs |-> {}]
  /\ library = "ABSENT" /\ asked = {}
  /\ messages = [r \in Runs |-> 0]
  /\ worker = [w \in Workers |-> Idle]
  /\ edits = 0 /\ faults = 0

Attempt(w) ==
  \/ Discover(w) \/ Match(w) \/ Build(w) \/ CommitVersion(w) \/ IndexFails(w)
  \/ Reconcile(w) \/ Complete(w) \/ SyncFails(w)

Next ==
  \/ Edit
  \/ \E q \in Requesters : AskActive(q) \/ AskIdle(q) \/ Request(q)
  \/ \E w \in Workers :
       Attempt(w) \/ Crash(w) \/ \E r \in Runs : Begin(w, r) \/ Redelivered(w, r)

Spec == Init /\ [][Next]_vars

\* Attempts go on, waiting deliveries are taken and beat comes every interval.
Fairness ==
  /\ \A w \in Workers : WF_vars(Attempt(w))
  /\ \A r \in Runs : WF_vars(\E w \in Workers : Begin(w, r) \/ Redelivered(w, r))
  /\ WF_vars(AskActive("beat"))

FairSpec == Spec /\ Fairness

-----------------------------------------------------------------------------

\* The values of the columns, of the sessions' copies of them and of the queue.
TypeOK ==
  /\ source \in [Citekeys -> Contents \cup {"none", "unreadable"}]
  /\ row \in [Citekeys -> Row] /\ points \subseteq Citekeys
  /\ run \in [Runs -> RunStatuses] /\ completed \subseteq Runs
  /\ quarantine \in [Runs -> SUBSET Citekeys]
  /\ library \in LibraryStatuses
  /\ asked \subseteq Requesters /\ messages \in [Runs -> Nat]
  /\ worker \in [Workers -> WorkerStates]
  /\ edits \in 0..MaxEdits /\ faults \in 0..MaxFaults

Completes(w) == worker[w].step = "closing" /\ completed' = completed \cup {worker[w].run}

\* The quarantine of a completed run is what its summary counts: what attempts that died
\* had quarantined is gone ("discard partial-attempt quarantine rows before recomputing
\* authoritative counts"), unless another delivery of the run was at work meanwhile.
QuarantineExact ==
  [][\A w \in Workers : Completes(w) /\ worker[w].alone =>
       quarantine'[worker[w].run] = worker[w].bad]_vars

\* A completed run that had the library to itself leaves a catalogue that says what the
\* source says: nothing INDEXED that the source does not hold with that content, and
\* every entry INDEXED that was not quarantined.
Reflected ==
  [][\A w \in Workers : Completes(w) /\ worker[w].alone =>
       \A k \in Citekeys :
         /\ row'[k].status = "INDEXED" => row'[k].sha = source[k] \/ k \in worker[w].errors
         /\ source[k] # "none" /\ k \notin worker[w].bad =>
              row'[k] = [status |-> "INDEXED", sha |-> source[k]]]_vars

\* "A failed rebuild must never make an already active, searchable version disappear
\* during reconciliation": the paper stays INDEXED with the content it had.
FailedRebuildServes ==
  [][\A w \in Workers, k \in Citekeys :
       Completes(w) /\ worker[w].alone /\ k \in worker[w].errors /\ row[k].status = "INDEXED"
         => row'[k] = row[k]]_vars

\* No run keeps the library waiting: whoever asked for it, whichever message is lost and
\* whichever worker dies, it ends - as long as the source is mounted when it begins.
RunEnds ==
  \A r \in Runs : run[r] \in {"QUEUED", "RUNNING"} ~> run[r] \in {"COMPLETED", "FAILED"}

\* "A paper is safe to recover": at rest, an INDEXED paper has its points in the index.
IndexedHasPoints ==
  Active = {} /\ (\A w \in Workers : ~Busy(w)) =>
    \A k \in Citekeys : row[k].status = "INDEXED" => k \in points

=============================================================================
