------------------------------- MODULE Sending -------------------------------
(***************************************************************************)
(* The outgoing traffic of the homeserver: service/sending.                *)
(*                                                                         *)
(* An event for a destination (a federated server, an appservice, a push   *)
(* gateway) is written to the queue of the destination and announced on    *)
(* the channel of the one worker the destination belongs to.  The worker   *)
(* moves events from "queued" to "active" before it sends them, keeps at   *)
(* most one transaction per destination in flight, and deletes the active  *)
(* events when the transaction succeeded.  The two tables survive a        *)
(* restart; channels, statuses and transactions do not.                    *)
(*                                                                         *)
(* A handler of the worker is split where another task, or a crash, can    *)
(* see the tables half way: each insertion and each removal is a step.     *)
(*                                                                         *)
(* The database is opened with manual_wal_flush, and the corks that are    *)
(* held around most of these writes do not flush when they are dropped: a  *)
(* write that has returned is lost in a crash until somebody flushes the   *)
(* log.  The log keeps the order of the writes, so that a crash takes all  *)
(* tables back to the moment of the last flush.                            *)
(***************************************************************************)
EXTENDS Integers, Sequences, FiniteSets

CONSTANTS
    Dest,                \* destinations
    Federation,          \* those that are remote servers
    Appservice,          \* those that are appservices; the others are pushers
    Cleanable,           \* those whose registration or pusher can be removed
    Worker,              \* sender workers
    ShardId,             \* the worker of each destination
    Event,               \* queue keys, ordered as the table orders them
    Room,                \* the room of each event
    Addressed,           \* the events that are for each destination
    DequeueLimit,        \* DEQUEUE_LIMIT
    MaxTries,            \* where the failure counter saturates
    StartupNetburst,     \* config.startup_netburst
    StartupNetburstKeep, \* config.startup_netburst_keep
    MaxCount,            \* bound: ephemeral updates
    MaxChan,             \* bound: length of a channel that a flush may extend
    MaxRestarts          \* bound: crashes and shutdowns

ASSUME SendingAssumption ==
    /\ Federation \subseteq Dest
    /\ Appservice \subseteq Dest
    /\ Federation \cap Appservice = {}
    /\ Cleanable \subseteq Dest \ Federation
    /\ ShardId \in [Dest -> Worker]
    /\ Event \subseteq Nat \ {0}
    /\ DequeueLimit \in Nat \ {0}
    /\ MaxTries \in Nat \ {0}
    /\ StartupNetburst \in BOOLEAN
    /\ StartupNetburstKeep \in Int
    /\ MaxCount \in Nat
    /\ MaxChan \in Nat
    /\ MaxRestarts \in Nat

VARIABLES
    queued,    \* [Dest -> SUBSET Event]  servernameevent_data
    active,    \* [Dest -> SUBSET Event]  servercurrentevent_data
    educount,  \* [Dest -> Nat]           servername_educount
    count,     \* Nat                     globals.current_count
    chan,      \* [Worker -> Seq(Msg)]    the channel of each worker
    closed,    \* BOOLEAN                 the channels are closed: shutting down
    up,        \* [Worker -> BOOLEAN]     the worker is past its netburst
    panicked,  \* [Worker -> BOOLEAN]     the worker's task died
    status,    \* [Dest -> Status]        CurTransactionStatus
    flight,    \* [Dest -> Seq(Txn)]      transactions among the worker's futures
    job,       \* [Dest -> Job]           the handler running for the destination
    cleaning,  \* [Dest -> BOOLEAN]       delete_all_requests_for is half way
    disk,      \* Disk                    what a restart finds of the tables
    restarts,  \* Nat                     crashes and shutdowns so far
    accepted,  \* [Dest -> SUBSET Event]  history: events ever queued
    delivered, \* [Dest -> SUBSET Event]  history: events of successful transactions
    forfeited, \* [Dest -> SUBSET Event]  history: events deleted on purpose
    eduSent    \* [Dest -> SUBSET Nat]    history: updates put in a transaction

tables  == <<queued, active, educount, count>>
memory  == <<chan, closed, up, panicked, status, flight, job, cleaning>>
history == <<accepted, delivered, forfeited, eduSent>>
vars    == <<tables, memory, disk, restarts, history>>

-----------------------------------------------------------------------------
(* Data *)

\* SendingEvent::Flush carries no queue key.
Flush == 0

Msg == [dest : Dest, event : Event \cup {Flush}]

Txn == [events : SUBSET Event, edus : SUBSET Nat]

\* The tables as they were flushed, and the events that were accepted by then.
Disk == [queued : [Dest -> SUBSET Event], active : [Dest -> SUBSET Event],
         educount : [Dest -> Nat], count : Nat, accepted : [Dest -> SUBSET Event]]

\* A destination without an entry in the status map is "absent"; "cooling" says
\* that the backoff of a failed destination has not elapsed.
Status == [st      : {"absent", "running", "failed", "retrying"},
           tries   : 0..MaxTries,
           cooling : BOOLEAN]

Absent      == [st |-> "absent",   tries |-> 0, cooling |-> FALSE]
Running     == [st |-> "running",  tries |-> 0, cooling |-> FALSE]
Failed(n)   == [st |-> "failed",   tries |-> n, cooling |-> TRUE]
Retrying(n) == [st |-> "retrying", tries |-> n, cooling |-> FALSE]

\* What a handler still has to do for a destination: mark the events of todo
\* (cur is inserted but not yet removed from the queue), then send the batch;
\* or delete the active events of a transaction that succeeded.
Phase == {"rest", "mark", "unqueue", "ack", "finish"}

Job == [phase : Phase,
        fresh : BOOLEAN,
        cur   : Event \cup {Flush},
        todo  : SUBSET Event,
        batch : SUBSET Event]

Rest == [phase |-> "rest", fresh |-> FALSE, cur |-> Flush,
         todo |-> {}, batch |-> {}]

Marking(events, fresh) ==
    [phase |-> "mark", fresh |-> fresh, cur |-> Flush,
     todo |-> events, batch |-> events]

Deleting(phase) ==
    [phase |-> phase, fresh |-> FALSE, cur |-> Flush, todo |-> {}, batch |-> {}]

\* The first n events of S in key order.
FirstN(S, n) == {e \in S : Cardinality({f \in S : f < e}) < n}

\* s without its i-th element.
Without(s, i) == SubSeq(s, 1, i - 1) \o SubSeq(s, i + 1, Len(s))

Push(d, events, edus) ==
    flight' = [flight EXCEPT ![d] =
                 Append(@, [events |-> events, edus |-> edus])]

\* A worker runs one handler at a time.
AtRest(w) == /\ up[w]
             /\ ~panicked[w]
             /\ \A d \in Dest : ShardId[d] = w => job[d].phase = "rest"

InWorkLoop(w) == AtRest(w) /\ ~closed

-----------------------------------------------------------------------------
(* Clients of the service *)

\* send_pdu_*, send_edu_server, send_edu_appservice: the event is queued, then
\* announced.  Events of one room get increasing keys.  A closed channel
\* refuses the announcement; the event stays queued.
SendEvent(d, e) ==
    /\ e \in Addressed[d]
    /\ e \notin accepted[d]
    /\ \A f \in accepted[d] : Room[f] = Room[e] => f < e
    /\ accepted' = [accepted EXCEPT ![d] = @ \cup {e}]
    /\ queued' = [queued EXCEPT ![d] = @ \cup {e}]
    /\ chan' = IF closed THEN chan
               ELSE [chan EXCEPT ![ShardId[d]] =
                       Append(@, [dest |-> d, event |-> e])]
    /\ UNCHANGED <<active, educount, count, closed, up, panicked, status,
                   flight, job, cleaning, restarts, disk, delivered, forfeited,
                   eduSent>>

\* flush_servers: announced, never stored.
FlushServer(d) ==
    /\ d \in Federation
    /\ ~closed
    /\ Len(chan[ShardId[d]]) < MaxChan
    /\ chan' = [chan EXCEPT ![ShardId[d]] =
                  Append(@, [dest |-> d, event |-> Flush])]
    /\ UNCHANGED <<tables, closed, up, panicked, status, flight, job,
                   cleaning, restarts, disk, history>>

\* A receipt, presence or device-list update takes the next global count.
NextCount ==
    /\ count < MaxCount
    /\ count' = count + 1
    /\ UNCHANGED <<queued, active, educount, memory, restarts, disk, history>>

\* cleanup_events, when an appservice is unregistered or a pusher deleted:
\* delete_all_requests_for empties the active table, then the queue, while the
\* worker goes on.
CleanupActive(d) ==
    /\ d \in Cleanable
    /\ ~cleaning[d]
    /\ active' = [active EXCEPT ![d] = {}]
    /\ forfeited' = [forfeited EXCEPT ![d] = @ \cup active[d]]
    /\ cleaning' = [cleaning EXCEPT ![d] = TRUE]
    /\ UNCHANGED <<queued, educount, count, chan, closed, up, panicked,
                   status, flight, job, restarts, disk, accepted, delivered,
                   eduSent>>

CleanupQueued(d) ==
    /\ cleaning[d]
    /\ queued' = [queued EXCEPT ![d] = {}]
    /\ forfeited' = [forfeited EXCEPT ![d] = @ \cup queued[d]]
    /\ cleaning' = [cleaning EXCEPT ![d] = FALSE]
    /\ UNCHANGED <<active, educount, count, chan, closed, up, panicked,
                   status, flight, job, restarts, disk, accepted, delivered,
                   eduSent>>

-----------------------------------------------------------------------------
(* Startup of a worker *)

\* The events of the active table that startup_netburst keeps, the first ones in
\* key order when a non-negative limit is configured.
Kept(d) == IF StartupNetburstKeep >= 0
           THEN FirstN(active[d], StartupNetburstKeep)
           ELSE active[d]

\* Mutant: the resent destinations get no status.
StartupBurst_NoStatus(w) ==
    LET mine == {d \in Dest : ShardId[d] = w}
    IN  /\ ~up[w]
        /\ up' = [up EXCEPT ![w] = TRUE]
        /\ flight' = [d \in Dest |->
                        IF d \in mine /\ active[d] # {}
                        THEN Append(flight[d], [events |-> active[d], edus |-> {}])
                        ELSE flight[d]]
        /\ UNCHANGED <<tables, chan, closed, panicked, status, job, cleaning,
                       restarts, disk, history>>

\* startup_netburst: trims the active events of the worker's destinations, and
\* resends what is left unless the burst is disabled.
StartupBurst(w) ==
    LET mine  == {d \in Dest : ShardId[d] = w}
        burst == {d \in mine : StartupNetburst /\ Kept(d) # {}}
    IN  /\ ~up[w]
        /\ up' = [up EXCEPT ![w] = TRUE]
        /\ active' = [d \in Dest |-> IF d \in mine THEN Kept(d) ELSE active[d]]
        /\ forfeited' = [d \in Dest |->
                           IF d \in mine
                           THEN forfeited[d] \cup (active[d] \ Kept(d))
                           ELSE forfeited[d]]
        /\ status' = [d \in Dest |-> IF d \in burst THEN Running ELSE status[d]]
        /\ flight' = [d \in Dest |->
                        IF d \in burst
                        THEN Append(flight[d], [events |-> Kept(d), edus |-> {}])
                        ELSE flight[d]]
        /\ UNCHANGED <<queued, educount, count, chan, closed, panicked, job,
                       cleaning, restarts, disk, accepted, delivered, eduSent>>

-----------------------------------------------------------------------------
(* handle_request: the worker takes an announcement off its channel *)

\* select_events_current: the destination may not be sent to now.
Refused(d) ==
    \/ status[d].st \in {"running", "retrying"}
    \/ /\ status[d].st = "failed"
       /\ status[d].cooling
       /\ d \notin Appservice

TakeMsg(w) == /\ InWorkLoop(w)
              /\ chan[w] # <<>>
              /\ chan' = [chan EXCEPT ![w] = Tail(@)]

RequestRefused(w) ==
    /\ TakeMsg(w)
    /\ Refused(Head(chan[w]).dest)
    /\ UNCHANGED <<tables, closed, up, panicked, status, flight, job,
                   cleaning, restarts, disk, history>>

\* Mutant: the announced event joins the retry without being marked.
RequestRetry_Unmarked(w) ==
    LET m == Head(chan[w])
    IN  /\ TakeMsg(w)
        /\ status[m.dest].st = "failed"
        /\ ~Refused(m.dest)
        /\ status' = [status EXCEPT ![m.dest] = Retrying(@.tries)]
        /\ Push(m.dest, active[m.dest] \cup ({m.event} \ {Flush}), {})
        /\ UNCHANGED <<tables, closed, up, panicked, job, cleaning, restarts, disk,
                       history>>

\* Mutant: an empty retry leaves the status behind.
RequestRetry_KeepStatus(w) ==
    LET d == Head(chan[w]).dest
    IN  /\ TakeMsg(w)
        /\ status[d].st = "failed"
        /\ ~Refused(d)
        /\ status' = [status EXCEPT ![d] = Retrying(@.tries)]
        /\ IF active[d] # {} THEN Push(d, active[d], {}) ELSE UNCHANGED flight
        /\ UNCHANGED <<tables, closed, up, panicked, job, cleaning, restarts, disk,
                       history>>

\* A failed destination whose backoff elapsed: the transaction is what is left
\* in the active table, and the announced event stays queued.  With nothing
\* left, the status is removed.
RequestRetry(w) ==
    LET d == Head(chan[w]).dest
    IN  /\ TakeMsg(w)
        /\ status[d].st = "failed"
        /\ ~Refused(d)
        /\ IF active[d] # {}
           THEN /\ status' = [status EXCEPT ![d] = Retrying(@.tries)]
                /\ Push(d, active[d], {})
           ELSE /\ status' = [status EXCEPT ![d] = Absent]
                /\ UNCHANGED flight
        /\ UNCHANGED <<tables, closed, up, panicked, job, cleaning, restarts, disk,
                       history>>

\* Mutant: a destination that is being retried counts as free.
RequestFresh_Retrying(w) ==
    LET m == Head(chan[w])
    IN  /\ TakeMsg(w)
        /\ status[m.dest].st \in {"absent", "retrying"}
        /\ status' = [status EXCEPT ![m.dest] = Running]
        /\ job' = [job EXCEPT ![m.dest] = Marking({m.event} \ {Flush}, TRUE)]
        /\ UNCHANGED <<tables, closed, up, panicked, flight, cleaning,
                       restarts, disk, history>>

\* Mutant: after the backoff the announced event goes first.
RequestFresh_Failed(w) ==
    LET m == Head(chan[w])
    IN  /\ TakeMsg(w)
        /\ ~Refused(m.dest)
        /\ status' = [status EXCEPT ![m.dest] = Running]
        /\ job' = [job EXCEPT ![m.dest] = Marking({m.event} \ {Flush}, TRUE)]
        /\ UNCHANGED <<tables, closed, up, panicked, flight, cleaning,
                       restarts, disk, history>>

\* A destination without a status: the announced event becomes active.
RequestFresh(w) ==
    LET m == Head(chan[w])
    IN  /\ TakeMsg(w)
        /\ status[m.dest].st = "absent"
        /\ status' = [status EXCEPT ![m.dest] = Running]
        /\ job' = [job EXCEPT ![m.dest] = Marking({m.event} \ {Flush}, TRUE)]
        /\ UNCHANGED <<tables, closed, up, panicked, flight, cleaning,
                       restarts, disk, history>>

\* Mutant: the event leaves the queue before it is in the active table.
MarkInsert_RemoveFirst(d) ==
    /\ job[d].phase = "mark"
    /\ \E e \in job[d].todo :
          /\ queued' = [queued EXCEPT ![d] = @ \ {e}]
          /\ job' = [job EXCEPT ![d].phase = "unqueue", ![d].cur = e]
    /\ UNCHANGED <<active, educount, count, chan, closed, up, panicked, status,
                   flight, cleaning, restarts, disk, history>>

\* mark_as_active, one event: inserted in the active table ...
MarkInsert(d) ==
    /\ job[d].phase = "mark"
    /\ \E e \in job[d].todo :
          /\ \A f \in job[d].todo : e <= f
          /\ active' = [active EXCEPT ![d] = @ \cup {e}]
          /\ job' = [job EXCEPT ![d].phase = "unqueue", ![d].cur = e]
    /\ UNCHANGED <<queued, educount, count, chan, closed, up, panicked, status,
                   flight, cleaning, restarts, disk, history>>

\* ... and then removed from the queue.
MarkRemove(d) ==
    /\ job[d].phase = "unqueue"
    /\ queued' = [queued EXCEPT ![d] = @ \ {job[d].cur}]
    /\ job' = [job EXCEPT ![d].phase = "mark", ![d].cur = Flush,
                          ![d].todo = @ \ {job[d].cur}]
    /\ UNCHANGED <<active, educount, count, chan, closed, up, panicked, status,
                   flight, cleaning, restarts, disk, history>>

\* Mutant: the count of the ephemeral updates is not recorded.
Compose_NoCount(d) ==
    /\ job[d].phase = "mark"
    /\ job[d].todo = {}
    /\ job' = [job EXCEPT ![d] = Rest]
    /\ \E edus \in SUBSET ((educount[d] + 1)..count) :
          /\ eduSent' = [eduSent EXCEPT ![d] = @ \cup edus]
          /\ Push(d, job[d].batch, edus)
    /\ UNCHANGED <<tables, chan, closed, up, panicked, status, cleaning,
                   restarts, disk, accepted, delivered, forfeited>>

\* The transaction is composed and handed to the network.  To a remote server a
\* fresh one also carries ephemeral updates: select_edus returns some of those
\* after the last count recorded for the server, and the highest count it saw,
\* which is recorded before anything is sent.
Compose(d) ==
    /\ job[d].phase = "mark"
    /\ job[d].todo = {}
    /\ job' = [job EXCEPT ![d] = Rest]
    /\ IF job[d].fresh /\ d \in Federation
       THEN \E last \in educount[d]..count :
              \E edus \in SUBSET ((educount[d] + 1)..last) :
                /\ educount' = [educount EXCEPT ![d] = last]
                /\ eduSent' = [eduSent EXCEPT ![d] = @ \cup edus]
                /\ Push(d, job[d].batch, edus)
       ELSE /\ Push(d, job[d].batch, {})
            /\ UNCHANGED <<educount, eduSent>>
    /\ UNCHANGED <<queued, active, count, chan, closed, up, panicked, status,
                   cleaning, restarts, disk, accepted, delivered, forfeited>>

-----------------------------------------------------------------------------
(* handle_response: a transaction in flight ends *)

\* send_events_dest_federation answers Ok without a request when there is
\* nothing to send.
CanFail(d, t) == ~(d \in Federation /\ t.events = {} /\ t.edus = {})

\* Mutant: the counter does not saturate.
ResponseErr_Unbounded(d) ==
    /\ InWorkLoop(ShardId[d])
    /\ status[d].tries <= MaxTries
    /\ \E i \in 1..Len(flight[d]) :
          /\ CanFail(d, flight[d][i])
          /\ flight' = [flight EXCEPT ![d] = Without(@, i)]
    /\ status' = [status EXCEPT ![d] = Failed(@.tries + 1)]
    /\ UNCHANGED <<tables, chan, closed, up, panicked, job, cleaning, restarts, disk,
                   history>>

\* handle_response_err.  A failure of a destination that is not being sent to
\* panics.
ResponseErr(d) ==
    /\ InWorkLoop(ShardId[d])
    /\ \E i \in 1..Len(flight[d]) :
          /\ CanFail(d, flight[d][i])
          /\ flight' = [flight EXCEPT ![d] = Without(@, i)]
    /\ status' = CASE status[d].st = "running" ->
                        [status EXCEPT ![d] = Failed(1)]
                   [] status[d].st = "retrying" ->
                        [status EXCEPT ![d] =
                           Failed(IF @.tries < MaxTries THEN @.tries + 1
                                  ELSE MaxTries)]
                   [] OTHER -> status
    /\ panicked' = [panicked EXCEPT ![ShardId[d]] = status[d].st = "failed"]
    /\ UNCHANGED <<tables, chan, closed, up, job, cleaning, restarts, disk, history>>

\* handle_response_ok begins: the events reached the destination, and the
\* active events of the destination are about to be deleted.
ResponseOk(d) ==
    /\ InWorkLoop(ShardId[d])
    /\ \E i \in 1..Len(flight[d]) :
          /\ flight' = [flight EXCEPT ![d] = Without(@, i)]
          /\ delivered' = [delivered EXCEPT ![d] = @ \cup flight[d][i].events]
    /\ job' = [job EXCEPT ![d] = Deleting("ack")]
    /\ UNCHANGED <<tables, chan, closed, up, panicked, status, cleaning,
                   restarts, disk, accepted, forfeited, eduSent>>

\* delete_all_active_requests_for, one key.
DeleteActive(d) ==
    /\ job[d].phase \in {"ack", "finish"}
    /\ \E e \in active[d] :
          /\ \A f \in active[d] : e <= f
          /\ active' = [active EXCEPT ![d] = @ \ {e}]
    /\ UNCHANGED <<queued, educount, count, memory, restarts, disk, history>>

\* With the active events gone, the next ones are taken from the queue; an
\* empty queue removes the status.
Dequeue(d) ==
    LET new_events == FirstN(queued[d], DequeueLimit)
    IN  /\ job[d].phase = "ack"
        /\ active[d] = {}
        /\ IF new_events # {}
           THEN /\ job' = [job EXCEPT ![d] = Marking(new_events, FALSE)]
                /\ UNCHANGED status
           ELSE /\ job' = [job EXCEPT ![d] = Rest]
                /\ status' = [status EXCEPT ![d] = Absent]
        /\ UNCHANGED <<tables, chan, closed, up, panicked, flight, cleaning,
                       restarts, disk, history>>

\* The backoff of a failed destination elapses.
BackoffElapsed(d) ==
    /\ status[d].cooling
    /\ status' = [status EXCEPT ![d].cooling = FALSE]
    /\ UNCHANGED <<tables, chan, closed, up, panicked, flight, job, cleaning,
                   restarts, disk, history>>

-----------------------------------------------------------------------------
(* The log, shutdown and crash *)

\* What the log holds, with the events that were accepted by then.
Saved == [queued |-> queued, active |-> active, educount |-> educount,
          count |-> count, accepted |-> accepted]

\* The log is flushed: a write outside of any cork flushes it, the drop of a
\* cork_and_flush of the timeline does, and the database by itself when its
\* buffer is full.  After the last crash of a behaviour it makes no difference.
FlushLog ==
    /\ restarts < MaxRestarts
    /\ disk # Saved
    /\ disk' = Saved
    /\ UNCHANGED <<tables, memory, restarts, history>>

Interrupt ==
    /\ ~closed
    /\ restarts < MaxRestarts
    /\ closed' = TRUE
    /\ restarts' = restarts + 1
    /\ UNCHANGED <<tables, chan, up, panicked, status, flight, job, cleaning,
                   disk, history>>

\* finish_responses: a success still deletes the active events; a failure is
\* ignored.
FinishOk(d) ==
    /\ AtRest(ShardId[d])
    /\ closed
    /\ \E i \in 1..Len(flight[d]) :
          /\ flight' = [flight EXCEPT ![d] = Without(@, i)]
          /\ delivered' = [delivered EXCEPT ![d] = @ \cup flight[d][i].events]
    /\ job' = [job EXCEPT ![d] = Deleting("finish")]
    /\ UNCHANGED <<tables, chan, closed, up, panicked, status, cleaning,
                   restarts, disk, accepted, forfeited, eduSent>>

\* Mutant: during shutdown a failure is taken for a success.
FinishErr_AsOk(d) ==
    /\ AtRest(ShardId[d])
    /\ closed
    /\ \E i \in 1..Len(flight[d]) :
          flight' = [flight EXCEPT ![d] = Without(@, i)]
    /\ job' = [job EXCEPT ![d] = Deleting("finish")]
    /\ UNCHANGED <<tables, chan, closed, up, panicked, status, cleaning,
                   restarts, disk, history>>

FinishErr(d) ==
    /\ AtRest(ShardId[d])
    /\ closed
    /\ \E i \in 1..Len(flight[d]) :
          /\ CanFail(d, flight[d][i])
          /\ flight' = [flight EXCEPT ![d] = Without(@, i)]
    /\ UNCHANGED <<tables, chan, closed, up, panicked, status, job, cleaning,
                   restarts, disk, history>>

FinishDeleted(d) ==
    /\ job[d].phase = "finish"
    /\ active[d] = {}
    /\ job' = [job EXCEPT ![d] = Rest]
    /\ UNCHANGED <<tables, chan, closed, up, panicked, status, flight,
                   cleaning, restarts, disk, history>>

\* Everything that is not in a table is gone.
LoseMemory ==
    /\ chan' = [w \in Worker |-> <<>>]
    /\ closed' = FALSE
    /\ up' = [w \in Worker |-> FALSE]
    /\ panicked' = [w \in Worker |-> FALSE]
    /\ status' = [d \in Dest |-> Absent]
    /\ flight' = [d \in Dest |-> <<>>]
    /\ job' = [d \in Dest |-> Rest]
    /\ cleaning' = [d \in Dest |-> FALSE]

\* The workers have left their loops, all transactions ended or the deadline
\* passed; the next process starts.
Exit ==
    /\ closed
    /\ \A w \in Worker : AtRest(w)
    /\ LoseMemory
    /\ disk' = Saved
    /\ UNCHANGED <<tables, restarts, history>>

\* The process dies and starts again with what was flushed.  An event whose
\* acceptance is undone was never accepted, and its key and the counts above the
\* stored one are given out again; an update above the recorded count was, as far
\* as the tables know, never sent.
Crash ==
    /\ restarts < MaxRestarts
    /\ restarts' = restarts + 1
    /\ LoseMemory
    /\ queued' = disk.queued
    /\ active' = disk.active
    /\ educount' = disk.educount
    /\ count' = disk.count
    /\ accepted' = disk.accepted
    /\ delivered' = [d \in Dest |-> delivered[d] \cap disk.accepted[d]]
    /\ forfeited' = [d \in Dest |-> forfeited[d] \cap disk.accepted[d]]
    /\ eduSent' = [d \in Dest |-> {c \in eduSent[d] : c <= disk.educount[d]}]
    /\ UNCHANGED disk

-----------------------------------------------------------------------------
Init ==
    /\ queued = [d \in Dest |-> {}]
    /\ active = [d \in Dest |-> {}]
    /\ educount = [d \in Dest |-> 0]
    /\ count = 0
    /\ chan = [w \in Worker |-> <<>>]
    /\ closed = FALSE
    /\ up = [w \in Worker |-> FALSE]
    /\ panicked = [w \in Worker |-> FALSE]
    /\ status = [d \in Dest |-> Absent]
    /\ flight = [d \in Dest |-> <<>>]
    /\ job = [d \in Dest |-> Rest]
    /\ cleaning = [d \in Dest |-> FALSE]
    /\ restarts = 0
    /\ accepted = [d \in Dest |-> {}]
    /\ delivered = [d \in Dest |-> {}]
    /\ forfeited = [d \in Dest |-> {}]
    /\ eduSent = [d \in Dest |-> {}]
    /\ disk = Saved

\* The clients of the service.
Client == \/ \E d \in Dest : \/ \E e \in Event : SendEvent(d, e)
                             \/ FlushServer(d)
                             \/ CleanupActive(d)
                             \/ CleanupQueued(d)
          \/ NextCount

\* One step of the handler that runs for d.
HandlerStep(d) == \/ MarkInsert(d)
                  \/ MarkRemove(d)
                  \/ Compose(d)
                  \/ DeleteActive(d)
                  \/ Dequeue(d)
                  \/ FinishDeleted(d)

HandleRequest(w) == \/ RequestRefused(w)
                    \/ RequestRetry(w)
                    \/ RequestFresh(w)

Next == \/ Client
        \/ \E w \in Worker : StartupBurst(w) \/ HandleRequest(w)
        \/ \E d \in Dest : \/ HandlerStep(d)
                           \/ ResponseOk(d)
                           \/ ResponseErr(d)
                           \/ BackoffElapsed(d)
                           \/ FinishOk(d)
                           \/ FinishErr(d)
        \/ FlushLog
        \/ Interrupt
        \/ Exit
        \/ Crash

Spec == Init /\ [][Next]_vars

-----------------------------------------------------------------------------
(* Properties *)

\* Every variable holds a value of the kind the code gives it.
TypeOK ==
    /\ queued \in [Dest -> SUBSET Event]
    /\ active \in [Dest -> SUBSET Event]
    /\ educount \in [Dest -> Nat]
    /\ count \in Nat
    /\ chan \in [Worker -> Seq(Msg)]
    /\ closed \in BOOLEAN
    /\ up \in [Worker -> BOOLEAN]
    /\ panicked \in [Worker -> BOOLEAN]
    /\ status \in [Dest -> Status]
    /\ flight \in [Dest -> Seq(Txn)]
    /\ job \in [Dest -> Job]
    /\ cleaning \in [Dest -> BOOLEAN]
    /\ disk \in Disk
    /\ restarts \in Nat
    /\ accepted \in [Dest -> SUBSET Event]
    /\ delivered \in [Dest -> SUBSET Event]
    /\ forfeited \in [Dest -> SUBSET Event]
    /\ eduSent \in [Dest -> SUBSET Nat]

\* handle_response_err never meets a destination that is already "failed": the
\* panic "Request that was not even running failed?!" is unreachable.
NoPanic == \A w \in Worker : ~panicked[w]

\* However requests, responses, retries, shutdowns and crashes interleave, a
\* destination has at most one transaction in flight, and none while a handler
\* is composing the next one or the destination is backed off.
SingleTransaction ==
    \A d \in Dest :
        /\ Len(flight[d]) <= 1
        /\ flight[d] # <<>> => /\ job[d].phase = "rest"
                               /\ status[d].st \in {"running", "retrying"}

\* What is in flight to a destination is exactly what the active table holds
\* for it, so a failed transaction is retried with the same events and a
\* success deletes no event that it did not carry.
TransactionIsActive ==
    \A d \in Dest \ Cleanable :
        \A i \in 1..Len(flight[d]) : flight[d][i].events = active[d]

Retained(d) ==
    accepted[d] \subseteq
        queued[d] \cup active[d] \cup delivered[d] \cup forfeited[d]

\* An accepted event stays in one of the two tables until a transaction with it
\* succeeded, or it was deleted on purpose; a crash between any two table writes,
\* with the log flushed or not, loses no event that was accepted when the log was
\* last flushed.  (What it may lose are the events accepted after that: their row
\* of the queue is written under a cork that does not flush.)
NoEventLost == \A d \in Dest : Retained(d)

\* A step that starts a transaction puts no update in it that was sent before.
NewEdusOnly ==
    \A d \in Dest : \A i \in 1..Len(flight'[d]) :
        i > Len(flight[d]) => flight'[d][i].edus \cap eduSent[d] = {}

\* An ephemeral update is put in at most one transaction to a server: the count
\* is recorded before the transaction starts, so that no failure, retry, netburst
\* or shutdown sends it again, and a crash only when it came before the recorded
\* count was flushed: select_events records it under a cork that does not flush.
EduAtMostOnce == [][NewEdusOnly]_vars

\* Events of one room first reach an appservice or a pusher in the order they
\* were queued.  (A flush of a remote server, a restart, or a removal in the
\* middle of a transaction lets a newer event overtake the queue.)
InOrder ==
    restarts = 0 =>
        \A d \in Dest \ (Federation \cup Cleanable) :
            \A e \in delivered[d], f \in accepted[d] :
                Room[f] = Room[e] /\ f < e => f \in delivered[d]

\* The service implements Outbox: what is pending is what the tables hold and
\* was neither delivered nor given up; what is safe is what was flushed.
Pending(d) == (queued[d] \cup active[d]) \ (delivered[d] \cup forfeited[d])

outbox == INSTANCE Outbox WITH pending <- [d \in Dest |-> Pending(d)],
                               safe <- disk.accepted

\* Every behaviour of the service is a behaviour of Outbox.
ImplementsOutbox == outbox!Spec

-----------------------------------------------------------------------------
(* The inductive invariant behind these properties *)

Live(d) == status[d].st \in {"running", "retrying"}

\* An announcement is on the channel of the worker that owns its destination.
Routed ==
    \A w \in Worker : \A i \in 1..Len(chan[w]) : ShardId[chan[w][i].dest] = w

\* A status is live while a transaction is in flight or being prepared, and only
\* a worker that is up has any.
Coupled ==
    \A d \in Dest :
        /\ Len(flight[d]) <= 1
        /\ flight[d] # <<>> => job[d].phase = "rest" /\ Live(d)
        /\ job[d].phase \in {"mark", "unqueue", "ack"} => Live(d)
        /\ ~up[ShardId[d]] => /\ status[d].st = "absent"
                              /\ flight[d] = <<>>
                              /\ job[d].phase = "rest"

\* The active table holds what the current transaction carries, or the part of
\* the next one that is marked; what is about to be deleted was delivered.
Tracked(d) ==
    /\ up[ShardId[d]] /\ status[d].st = "absent" => active[d] = {}
    /\ flight[d] # <<>> => active[d] \subseteq flight[d][1].events
    /\ job[d].phase = "mark" => active[d] \subseteq job[d].batch \ job[d].todo
    /\ job[d].phase = "unqueue" =>
          /\ active[d] \subseteq (job[d].batch \ job[d].todo) \cup {job[d].cur}
          /\ job[d].cur \in job[d].todo
          /\ job[d].cur \in active[d] \cup forfeited[d]
    /\ job[d].phase \in {"ack", "finish"} => active[d] \subseteq delivered[d]
    /\ job[d].todo \subseteq job[d].batch

\* Nobody but the worker deletes active events of a destination that is not
\* removed, so nothing of the transaction is missing from the table.
Complete(d) ==
    /\ ~cleaning[d]
    /\ flight[d] # <<>> => flight[d][1].events \subseteq active[d]
    /\ job[d].phase = "mark" => job[d].batch \ job[d].todo \subseteq active[d]
    /\ job[d].phase = "unqueue" =>
          (job[d].batch \ job[d].todo) \cup {job[d].cur} \subseteq active[d]

Ledger(d) == /\ Tracked(d)
             /\ d \notin Cleanable => Complete(d)
             /\ Retained(d)

Ledgers == \A d \in Dest : Ledger(d)

\* The recorded count covers every update that was put in a transaction.
EdusCounted == \A d \in Dest : \A c \in eduSent[d] : c <= educount[d]

\* A worker that has not started finds nothing to resend.
NothingLeft == \A d \in Dest : ~up[ShardId[d]] => active[d] = {}

\* What precedes an event of S in its room is in S, or was delivered.
Ahead(d, S) ==
    \A e \in S, f \in accepted[d] :
        Room[f] = Room[e] /\ f < e => f \in S \cup delivered[d]

\* The announcements for d are of accepted events, those of a room in order.
ChannelInOrder(d) ==
    LET c == chan[ShardId[d]]
    IN  \A i \in 1..Len(c) : c[i].dest = d =>
            /\ c[i].event \in accepted[d]
            /\ \A j \in 1..Len(c) :
                  /\ i < j /\ c[j].dest = d
                  /\ Room[c[i].event] = Room[c[j].event]
                  => c[i].event < c[j].event

\* A queued event is announced.
Announced(d) ==
    \A f \in queued[d] : \E i \in 1..Len(chan[ShardId[d]]) :
        chan[ShardId[d]][i] = [dest |-> d, event |-> f]

\* What is sent next, or again, overtakes nothing; the queue of a destination
\* without a status is announced, and a backed off one has something to resend.
Sequenced(d) ==
    /\ forfeited[d] = {}
    /\ queued[d] \cup active[d] \cup delivered[d] \cup job[d].batch
          \subseteq accepted[d]
    /\ ChannelInOrder(d)
    /\ job[d].phase # "finish"
    /\ status[d].st = "absent" => Announced(d)
    /\ status[d].st # "absent" /\ job[d].phase = "rest" =>
          active[d] # {} /\ Ahead(d, active[d])
    /\ job[d].phase \in {"mark", "unqueue"} =>
          job[d].batch # {} /\ Ahead(d, job[d].batch)
    /\ Ahead(d, delivered[d])

\* Until the first restart, the destinations that InOrder is about are served
\* in order.
InSequence ==
    restarts = 0 =>
        /\ ~closed
        /\ NothingLeft
        /\ \A d \in Dest \ (Federation \cup Cleanable) : Sequenced(d)

\* Nothing is stored, prepared, sent or announced for a destination that was not
\* accepted for it.
Genuine(d) ==
    /\ queued[d] \cup active[d] \cup delivered[d] \cup forfeited[d]
          \cup job[d].batch \subseteq accepted[d]
    /\ flight[d] # <<>> => flight[d][1].events \subseteq accepted[d]

GenuineCalls ==
    \A w \in Worker : \A i \in 1..Len(chan[w]) :
        chan[w][i].event # Flush =>
            chan[w][i].event \in accepted[chan[w][i].dest]

Accounted == GenuineCalls /\ \A d \in Dest : Genuine(d)

\* What was accepted when the log was flushed is in the tables that were flushed
\* with it, or has been delivered or given up.
Stored ==
    \A d \in Dest :
        disk.accepted[d] \subseteq
            disk.queued[d] \cup disk.active[d] \cup delivered[d] \cup forfeited[d]

\* What was flushed was accepted, when it was flushed and still.
StoredGenuine ==
    \A d \in Dest :
        /\ disk.queued[d] \cup disk.active[d] \subseteq disk.accepted[d]
        /\ disk.accepted[d] \subseteq accepted[d]

-----------------------------------------------------------------------------
(* Liveness *)

\* The tasks of the runtime make progress, time passes, and select! picks among
\* its ready branches at random, so that a request that is there again and again
\* is handled.
Fairness ==
    /\ \A w \in Worker : /\ WF_vars(StartupBurst(w))
                         /\ SF_vars(HandleRequest(w))
    /\ \A d \in Dest : /\ WF_vars(HandlerStep(d))
                       /\ WF_vars(BackoffElapsed(d))
    /\ WF_vars(Exit)

FairSpec == Spec /\ Fairness

\* What the code does not guarantee.  There is no retry timer: a backed off
\* destination, or a queue that a restart left behind, is only looked at again
\* when something is announced for it.  flush_room does that, when a local user
\* reads a room of the server; and a server that is tried again and again has to
\* answer some attempt.
Traffic(d) == []<><<FlushServer(d)>>_vars
Answering(d) == SF_vars(ResponseOk(d))

\* As long as there is something to announce for it and it answers, a remote
\* server gets every event that was accepted for it, across failures, backoff,
\* crashes and shutdowns, unless a crash undid that the event was accepted.
EventuallyDelivered ==
    \A d \in Federation :
        Traffic(d) /\ Answering(d) =>
            \A e \in Event :
                e \in accepted[d] ~> e \in delivered[d] \/ e \notin accepted[d]

=============================================================================
