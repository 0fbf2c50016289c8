--------------------------- MODULE ResearchOutbox ---------------------------
(***************************************************************************)
(* The transactional outbox of one research run.  Every transaction that   *)
(* changes the run or a shard inserts one event, or two, under the next    *)
(* sequence numbers; beat starts a publisher that sends unpublished events to Redis; *)
(* a WebSocket replays what is persisted and then forwards what Redis      *)
(* sends.                                                                  *)
(*                                                                         *)
(* Kinds of writers, by how they lock the run's row: "stage" holds it FOR  *)
(* NO KEY UPDATE (execute_stage, and the UPDATE of every other transition), *)
(* "barrier" FOR UPDATE (coordinator and barrier task of ANALYZING), and   *)
(* "shard" only shares its key while its event is uncommitted.             *)
(***************************************************************************)
EXTENDS Naturals, Sequences, FiniteSets

CONSTANTS
  Writers,      \* transactions that may be open at the same time
  Kinds,        \* the kinds of writers of this instance
  Publishers,   \* publish_research_outbox tasks that may overlap
  ReplayLimit,  \* events a WebSocket replays (500)
  MaxTx,        \* bound: transactions begun
  MaxFaults     \* bound: rollbacks, publisher crashes, disconnections

ASSUME BoundsAssumption ==
  /\ Kinds \subseteq {"stage", "barrier", "shard"}
  /\ ReplayLimit \in Nat /\ MaxTx \in Nat /\ MaxFaults \in Nat

VARIABLES
  events,     \* committed rows: sequence, occurred_at
  published,  \* sequences with published_at set
  writer,     \* what each transaction has done
  clock,      \* transactions begun; occurred_at is the time a transaction began
  batch,      \* what each publisher has selected and not yet sent
  taken,      \* sequences each publisher holds locked
  overlapped, \* history: sequences selected while another publisher held some
  channel,    \* Redis messages the WebSocket has not read
  stream,     \* the WebSocket: closed, subscribed (to replay), live
  last,       \* last_sequence: what the client has, and resumes from
  shown,      \* sequences the client was shown
  faults      \* faults so far

client == <<stream, last, shown>>
vars == <<events, published, writer, clock, batch, taken, overlapped, channel, client, faults>>

-----------------------------------------------------------------------------

\* step: idle, begun (waiting for the run's row), open, numbered (sequence
\* computed), inserted (in the unique index), checked (foreign key verified).
WriterStates ==
  [step : {"idle", "begun", "open", "numbered", "inserted", "checked"},
   kind : {"stage", "barrier", "shard"}, at : 0..MaxTx, seq : Nat]

Idle == [step |-> "idle", kind |-> "shard", at |-> 0, seq |-> 0]

Become(w, next) == writer' = [writer EXCEPT ![w] = next]

To(w, step) == Become(w, [writer[w] EXCEPT !.step = step])

Fault == faults < MaxFaults /\ faults' = faults + 1

Committed == {e.seq : e \in events}

LastSequence == IF events = {} THEN 0 ELSE CHOOSE s \in Committed : \A t \in Committed : t <= s

\* Writers other than w with the run's row locked in one of these kinds.
Holding(w, kinds) ==
  {v \in Writers \ {w} : writer[v].kind \in kinds /\ writer[v].step \notin {"idle", "begun"}}

\* Other writers whose uncommitted event shares the run's key.
Sharing(w) == {v \in Writers \ {w} : writer[v].step = "checked"}

\* Mutation: no unique index on (run_id, sequence).
NoIndex(w) == {}

\* Other writers with an uncommitted event under w's sequence.
Rivals(w) ==
  {v \in Writers \ {w} : writer[v].step \in {"inserted", "checked"} /\ writer[v].seq = writer[w].seq}

Taken(w) == writer[w].seq \in Committed

-----------------------------------------------------------------------------
\* Writers.

Begin(w) ==
  /\ writer[w].step = "idle"
  /\ clock < MaxTx
  /\ clock' = clock + 1
  /\ \E k \in Kinds : Become(w, [step |-> "begun", kind |-> k, at |-> clock + 1, seq |-> 0])
  /\ UNCHANGED <<events, published, batch, taken, overlapped, channel, client, faults>>

\* SELECT ... FOR [NO KEY] UPDATE, or nothing for a shard.
LockRun(w) ==
  /\ writer[w].step = "begun"
  /\ writer[w].kind # "shard" => Holding(w, {"stage", "barrier"}) = {}
  /\ writer[w].kind = "barrier" => Sharing(w) = {}
  /\ To(w, "open")
  /\ UNCHANGED <<events, published, clock, batch, taken, overlapped, channel, client, faults>>

\* next_sequence: one more than the largest sequence committed so far.
NextSequence(w) ==
  /\ writer[w].step = "open"
  /\ Become(w, [writer[w] EXCEPT !.step = "numbered", !.seq = LastSequence + 1])
  /\ UNCHANGED <<events, published, clock, batch, taken, overlapped, channel, client, faults>>

\* Mutation: a refused insert is repeated with the same sequence.
InsertAgain(w) ==
  /\ writer[w].step = "numbered"
  /\ Rivals(w) = {} /\ ~Taken(w)
  /\ To(w, "inserted")
  /\ UNCHANGED <<events, published, clock, batch, taken, overlapped, channel, client, faults>>

\* flush: the unique index refuses a committed sequence, and makes w wait for a
\* writer that may yet commit the same one.
InsertEvent(w) ==
  /\ writer[w].step = "numbered"
  /\ Rivals(w) = {}
  /\ IF Taken(w) THEN Become(w, Idle) ELSE To(w, "inserted")
  /\ UNCHANGED <<events, published, clock, batch, taken, overlapped, channel, client, faults>>

\* The foreign key takes KEY SHARE on the run, which only FOR UPDATE forbids.
ShareRun(w) ==
  /\ writer[w].step = "inserted"
  /\ Holding(w, {"barrier"}) = {}
  /\ To(w, "checked")
  /\ UNCHANGED <<events, published, clock, batch, taken, overlapped, channel, client, faults>>

\* A stage that leaves a shortfall to the user reports it in a second event: its
\* sequence is the next one, which nobody can compute before the first commits.
EventsOf(w) == IF writer[w].kind = "stage" THEN {1, 2} ELSE {1}

Commit(w) ==
  /\ writer[w].step = "checked"
  /\ \E n \in EventsOf(w) :
       events' = events \cup [seq : writer[w].seq .. writer[w].seq + n - 1, at : {writer[w].at}]
  /\ Become(w, Idle)
  /\ UNCHANGED <<published, clock, batch, taken, overlapped, channel, client, faults>>

\* Anything else a transaction does may fail.
Rollback(w) ==
  /\ writer[w].step # "idle"
  /\ Fault
  /\ Become(w, Idle)
  /\ UNCHANGED <<events, published, clock, batch, taken, overlapped, channel, client>>

\* w waits for v's sequence while v waits for w's lock of the run.
Deadlocked(w, v) ==
  /\ writer[w].kind = "barrier" /\ writer[w].step = "numbered" /\ v \in Rivals(w)
  /\ writer[v].step = "inserted"

\* PostgreSQL's deadlock detector aborts one of the two.
BreakDeadlock ==
  /\ \E w, v \in Writers :
       Deadlocked(w, v) /\ (Become(w, Idle) \/ Become(v, Idle))
  /\ UNCHANGED <<events, published, clock, batch, taken, overlapped, channel, client, faults>>

-----------------------------------------------------------------------------
\* publish_research_outbox.

\* list_unpublished: ORDER BY occurred_at, sequence, FOR UPDATE SKIP LOCKED.
OccurredAt(s) == (CHOOSE e \in events : e.seq = s).at

Order(s, t) == OccurredAt(s) < OccurredAt(t) \/ (OccurredAt(s) = OccurredAt(t) /\ s < t)

\* Mutation: without SKIP LOCKED.
FreeOrLocked == Committed \ published

\* Mutation: the publisher remembers how far in time it got.
FreeAfterCursor == {s \in Committed : \A t \in published : t # s /\ Order(t, s)}

\* Unpublished events no other publisher holds.
Free == (Committed \ published) \ UNION {taken[c] : c \in Publishers}

StartBatch(b) ==
  /\ taken[b] = {}
  /\ Free # {}
  /\ taken' = [taken EXCEPT ![b] = Free]
  /\ batch' = [batch EXCEPT ![b] = Free]
  /\ overlapped' = IF \E c \in Publishers : taken[c] # {} THEN overlapped \cup Free
                   ELSE overlapped
  /\ UNCHANGED <<events, published, writer, clock, channel, client, faults>>

Subscribed == stream # "closed"

\* redis.publish, in the order of the selection: whoever is subscribed gets the
\* event, nobody else ever will.
PublishEvent(b) ==
  /\ \E s \in batch[b] :
       /\ \A t \in batch[b] \ {s} : Order(s, t)
       /\ channel' = IF Subscribed THEN Append(channel, s) ELSE channel
       /\ batch' = [batch EXCEPT ![b] = @ \ {s}]
  /\ UNCHANGED <<events, published, writer, clock, taken, overlapped, client, faults>>

\* mark_published for the whole batch becomes visible with the commit.
CommitBatch(b) ==
  /\ taken[b] # {} /\ batch[b] = {}
  /\ published' = published \cup taken[b]
  /\ taken' = [taken EXCEPT ![b] = {}]
  /\ UNCHANGED <<events, writer, clock, batch, overlapped, channel, client, faults>>

\* The publisher dies, or Redis refuses: the whole batch is unpublished again.
LoseBatch(b) ==
  /\ taken[b] # {}
  /\ Fault
  /\ taken' = [taken EXCEPT ![b] = {}]
  /\ batch' = [batch EXCEPT ![b] = {}]
  /\ UNCHANGED <<events, published, writer, clock, overlapped, channel, client>>

-----------------------------------------------------------------------------
\* stream_run_events and its client.

Subscribe ==
  /\ stream = "closed"
  /\ stream' = "subscribed"
  /\ channel' = <<>>
  /\ UNCHANGED <<events, published, writer, clock, batch, taken, overlapped, last, shown, faults>>

\* Mutation: what is not yet published will come live anyway.
PublishedOnly == published

\* list_after reads every committed event, published or not.
Replayable == Committed

\* The first ReplayLimit sequences after the client's.
Replay ==
  LET later == {s \in Replayable : s > last}
      rows == {s \in later : Cardinality({t \in later : t < s}) < ReplayLimit}
  IN  /\ stream = "subscribed"
      /\ stream' = "live"
      /\ shown' = shown \cup rows
      /\ last' = IF rows = {} THEN last ELSE CHOOSE s \in rows : \A t \in rows : t <= s
      /\ UNCHANGED <<events, published, writer, clock, batch, taken, overlapped, channel, faults>>

\* A message is forwarded if its sequence is larger than all before.
Forward ==
  /\ stream = "live"
  /\ channel # <<>>
  /\ channel' = Tail(channel)
  /\ IF Head(channel) > last
     THEN last' = Head(channel) /\ shown' = shown \cup {Head(channel)}
     ELSE UNCHANGED <<last, shown>>
  /\ UNCHANGED <<events, published, writer, clock, batch, taken, overlapped, stream, faults>>

Disconnect ==
  /\ stream # "closed"
  /\ Fault
  /\ stream' = "closed"
  /\ channel' = <<>>
  /\ UNCHANGED <<events, published, writer, clock, batch, taken, overlapped, last, shown>>

-----------------------------------------------------------------------------

Init ==
  /\ events = {}
  /\ published = {}
  /\ writer = [w \in Writers |-> Idle]
  /\ clock = 0
  /\ batch = [b \in Publishers |-> {}]
  /\ taken = [b \in Publishers |-> {}]
  /\ overlapped = {}
  /\ channel = <<>>
  /\ stream = "closed"
  /\ last = 0
  /\ shown = {}
  /\ faults = 0

\* What an open transaction does next.
WriterStep(w) ==
  LockRun(w) \/ NextSequence(w) \/ InsertEvent(w) \/ ShareRun(w) \/ Commit(w)

PublisherStep(b) == StartBatch(b) \/ PublishEvent(b) \/ CommitBatch(b)

StreamStep == Subscribe \/ Replay \/ Forward

Next ==
  \/ \E w \in Writers : Begin(w) \/ WriterStep(w) \/ Rollback(w)
  \/ BreakDeadlock
  \/ \E b \in Publishers : PublisherStep(b) \/ LoseBatch(b)
  \/ StreamStep
  \/ Disconnect

Spec == Init /\ [][Next]_vars

\* Transactions go on, PostgreSQL breaks deadlocks, beat starts publishers every
\* second, and the client's page reconnects.
Fairness ==
  /\ \A w \in Writers : WF_vars(WriterStep(w))
  /\ WF_vars(BreakDeadlock)
  /\ \A b \in Publishers : WF_vars(PublisherStep(b))
  /\ WF_vars(StreamStep)

FairSpec == Spec /\ Fairness

-----------------------------------------------------------------------------
\* Properties.

TypeOK ==
  /\ events \subseteq [seq : Nat \ {0}, at : 1..MaxTx]
  /\ published \subseteq Committed
  /\ writer \in [Writers -> WriterStates]
  /\ clock \in 0..MaxTx
  /\ batch \in [Publishers -> SUBSET Committed]
  /\ taken \in [Publishers -> SUBSET Committed]
  /\ overlapped \subseteq Committed
  /\ channel \in Seq(Committed)
  /\ stream \in {"closed", "subscribed", "live"}
  /\ last \in Nat
  /\ shown \subseteq Committed
  /\ faults \in 0..MaxFaults

\* Transactions number their events without coordination and some are rolled
\* back, and yet the committed sequences are 1, 2, 3, ... without gap or repeat.
SequencesDense ==
  /\ Committed = 1..Cardinality(events)
  /\ Cardinality(Committed) = Cardinality(events)

\* An event is marked published only after it was sent, overlapping publishers
\* never hold the same event, and nobody is shown what is not committed.
PublishedWasSent ==
  /\ \A b, c \in Publishers : b # c => taken[b] \cap taken[c] = {}
  /\ \A b \in Publishers : taken[b] \cap published = {} /\ batch[b] \subseteq taken[b]
  /\ shown \cup {channel[i] : i \in DOMAIN channel} \subseteq Committed

\* Subscribing before replaying leaves no gap, nor do disconnections or repeated
\* messages: the only event a client can miss is one that a later sequence
\* overtook on the way to Redis, because its transaction began earlier or because
\* a publisher sent it next to one that was still busy.
SkippedWasOvertaken ==
  \A s \in (1..last) \ shown :
    \E t \in shown : s < t /\ (Order(t, s) \/ t \in overlapped)

\* Every transaction comes to an end, also when a barrier task and a shard wait
\* for each other.
WritersEnd == \A w \in Writers : writer[w].step # "idle" ~> writer[w].step = "idle"

\* Every committed event is published in the end, whatever publisher dies.
EventuallyPublished == \A s \in 1..2 * MaxTx : s \in Committed ~> s \in published

-----------------------------------------------------------------------------
\* What the documentation says of the stream and the code does not keep.

\* docs/literature-research-implementation.md:51 calls the stream "a projection of
\* persisted, monotonically sequenced outbox events" that can be replayed.  A
\* client would then be shown every event up to the last one it was shown.
NothingSkipped == shown = 1..last

=============================================================================
