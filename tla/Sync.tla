-------------------------------- MODULE Sync --------------------------------
(***************************************************************************)
(* How an update gets a number, becomes visible and reaches its readers.   *)
(*                                                                         *)
(*   core/utils/two_phase_counter   numbers dealt out and retired          *)
(*   service/globals/data           the counter stored, waited for         *)
(*   database/map, database/cork    writes, watchers, flushing of the log  *)
(*   api/client/sync/v3             the long poll of a device              *)
(*   service/sync/watch             what wakes it                          *)
(*   service/users/device           the inbox of a device                  *)
(*   service/sending/sender         select_edus for another server         *)
(*                                                                         *)
(* A number that is pending is a write in progress: it may have its row or *)
(* not.  The database is opened with manual_wal_flush, so that a process   *)
(* that dies loses the writes since the last flush: db is what reads see,  *)
(* durable what a restart finds.  One room and one remote server; every    *)
(* update is of a user of its own.                                         *)
(***************************************************************************)
EXTENDS Integers, FiniteSets

CONSTANTS
    Device,                 \* devices of local users
    EDU_LIMIT,              \* sender.rs: 100
    SELECT_RECEIPT_LIMIT,   \* sender.rs: 256
    SELECT_PRESENCE_LIMIT,  \* sender.rs: 256
    MaxCount,               \* bounds of the model: numbers dealt out,
    MaxPending,             \*   writes at the same time,
    MaxFault                \*   crashes and requests that are broken off

\* keychangeid_userid, readreceiptid_readreceipt and presenceid_presence.
Stream == {"keys", "receipts", "presence"}

\* A device also has an inbox, todeviceid_events.
Topic == Stream \cup Device

\* What sync watches for a device: not the presence of others.
Watched(d) == {"keys", "receipts", d}

ASSUME SyncAssumption ==
    /\ Device \cap Stream = {}
    /\ EDU_LIMIT \in Nat
    /\ SELECT_RECEIPT_LIMIT \in Nat
    /\ SELECT_PRESENCE_LIMIT \in Nat
    /\ MaxCount \in Nat
    /\ MaxPending \in Nat
    /\ MaxFault \in Nat

VARIABLES
    db,         \* the database as it is read: [count, rows, educount]
    durable,    \* what of it has been flushed
    \* the counter and its channel
    dispatched, pending, released,
    quiet,      \* numbers whose row is written and not announced yet
    \* readers
    device,     \* [Device -> sync request in progress]
    woken,      \* [Device -> whether a watcher of its request has fired]
    \* the clients
    token,      \* [Device -> the next_batch it received last]
    seen,       \* [Device -> numbers of the updates it received]
    \* history
    removed,    \* [Device -> numbers removed from its inbox]
    sent,       \* numbers that select_edus has put into a transaction
    overLimit,  \* numbers that a limit has kept out of one
    reused,     \* numbers of a token, whose record a crash has lost
    faults

counter == <<dispatched, pending, released, quiet>>
readers == <<device, woken>>
clients == <<token, seen>>
history == <<removed, sent, overLimit, reused, faults>>
vars == <<db, durable, counter, readers, clients, history>>

Rows == [count : Nat, topic : Topic]

Databases == [count : Nat, rows : SUBSET Rows, educount : Nat]

Numbers(rs) == {r.count : r \in rs}

-----------------------------------------------------------------------------
(* The two-phase counter and its writers *)

MinOf(S) == CHOOSE n \in S : \A m \in S : n <= m

MaxOf(S) == CHOOSE n \in S : \A m \in S : n >= m

\* Mutant: the highest number that was dealt out counts as retired.
Retired_Dispatched == dispatched

\* State::retired
Retired == IF pending = {} THEN dispatched ELSE MinOf(pending) - 1

\* A write is flushed, by itself or with what other tasks write, before the
\* next one of the model, or it is not: the database may be corked.  When no
\* crash is left to come it does not matter.
Flushed == durable' \in IF faults < MaxFault THEN {durable, db'} ELSE {db'}

\* Mutant: the number is not stored.
Dispatch_Unstored ==
    /\ dispatched < MaxCount
    /\ Cardinality(pending) < MaxPending
    /\ dispatched' = dispatched + 1
    /\ pending' = pending \cup {dispatched + 1}
    /\ UNCHANGED <<db, durable, released, quiet, readers, clients, history>>

\* next_count: store_count writes the number, corked, before it is pending.
Dispatch ==
    /\ dispatched < MaxCount
    /\ Cardinality(pending) < MaxPending
    /\ db' = [db EXCEPT !.count = dispatched + 1]
    /\ Flushed
    /\ dispatched' = dispatched + 1
    /\ pending' = pending \cup {dispatched + 1}
    /\ UNCHANGED <<released, quiet, readers, clients, history>>

\* The row of an update, such as add_to_device_event puts it.
Put(n, topic) ==
    /\ n \in pending
    /\ n \notin Numbers(db.rows)
    /\ db' = [db EXCEPT !.rows = @ \cup {[count |-> n, topic |-> topic]}]
    /\ Flushed
    /\ quiet' = quiet \cup {n}
    /\ UNCHANGED <<dispatched, pending, released, readers, clients, history>>

\* The watchers that match the key fire, after the row is there to be read.
Notify(n) ==
    /\ n \in quiet
    /\ quiet' = quiet \ {n}
    /\ woken' = [d \in Device |->
          woken[d] \/ \E r \in db.rows : r.count = n /\ r.topic \in Watched(d)]
    /\ UNCHANGED <<db, durable, dispatched, pending, released, device,
                   clients, history>>

\* Mutant: the writer's own number is announced whatever is still pending.
Retire_Eager(n) ==
    /\ n \in pending \ quiet
    /\ pending' = pending \ {n}
    /\ released' = IF n > released THEN n ELSE released
    /\ UNCHANGED <<db, durable, dispatched, quiet, readers, clients, history>>

\* Mutant: the permit is dropped before the row is announced.
Retire_Early(n) ==
    /\ n \in pending
    /\ pending' = pending \ {n}
    /\ released' = IF \E p \in pending : p < n THEN released
                   ELSE IF pending' = {} THEN dispatched
                   ELSE n
    /\ UNCHANGED <<db, durable, dispatched, quiet, readers, clients, history>>

\* A permit is dropped, with its row written or, after an error and for an
\* update kept in memory, without one.
Retire(n) ==
    /\ n \in pending \ quiet
    /\ pending' = pending \ {n}
    /\ released' = IF \E p \in pending : p < n THEN released
                   ELSE IF pending' = {} THEN dispatched
                   ELSE n
    /\ UNCHANGED <<db, durable, dispatched, quiet, readers, clients, history>>

-----------------------------------------------------------------------------
(* sync_events *)

Idle == [pc |-> "idle"]

\* target is what wait_pending waits for, next the next_batch of the
\* response, got what the response holds.
Requests == {Idle}
    \cup [pc : {"watch", "count"}, since : Nat]
    \cup [pc : {"pending"}, since : Nat, target : Nat]
    \cup [pc : {"build", "wait"}, since : Nat, next : Nat]
    \cup [pc : {"reply"}, next : Nat, got : SUBSET Nat]

Goto(d, r) == device' = [device EXCEPT ![d] = r]

Request(d) ==
    /\ device[d] = Idle
    /\ Goto(d, [pc |-> "watch", since |-> token[d]])
    /\ UNCHANGED <<db, durable, counter, woken, clients, history>>

\* The watchers are registered one after the other, all of them before the
\* counter is looked at.
Watch(d) ==
    /\ device[d].pc = "watch"
    /\ woken' = [woken EXCEPT ![d] = FALSE]
    /\ Goto(d, [device[d] EXCEPT !.pc = "count"])
    /\ UNCHANGED <<db, durable, counter, clients, history>>

\* wait_pending
Count(d) ==
    /\ device[d].pc = "count"
    /\ Goto(d, [pc |-> "pending", since |-> device[d].since,
                target |-> dispatched])
    /\ UNCHANGED <<db, durable, counter, woken, clients, history>>

\* Its result, and the clamping of a token from the future.
WaitPending(d) ==
    /\ device[d].pc = "pending"
    /\ released >= device[d].target
    /\ Goto(d, [pc |-> "build", next |-> released,
                since |-> IF device[d].since > released THEN released
                                                        ELSE device[d].since])
    /\ UNCHANGED <<db, durable, counter, woken, clients, history>>

Window(d) == {r \in db.rows : /\ r.topic \in Stream \cup {d}
                              /\ device[d].since < r.count
                              /\ r.count <= device[d].next}

\* Mutant: what this response holds is removed, not what the last one held.
Inbox_Next(d) == {r \in db.rows : r.topic = d /\ r.count <= device[d].next}

\* The events of the inbox "the device received last time".
Inbox(d) == {r \in db.rows : r.topic = d /\ r.count <= device[d].since}

\* build_sync_events.  What it reads between since and next_batch has been
\* written and stays, so that one step can stand for all of its reads; a
\* removal from the inbox fires the request's own watcher.
Build(d, full) ==
    /\ device[d].pc = "build"
    /\ device[d].since < device[d].next \/ full
    /\ db' = [db EXCEPT !.rows = @ \ Inbox(d)]
    /\ Flushed
    /\ removed' = [removed EXCEPT ![d] = @ \cup Numbers(Inbox(d))]
    /\ woken' = [woken EXCEPT ![d] = @ \/ Inbox(d) # {}]
    /\ Goto(d, IF Window(d) # {} \/ full
               THEN [pc |-> "reply", next |-> device[d].next,
                     got |-> Numbers(Window(d))]
               ELSE [device[d] EXCEPT !.pc = "wait"])
    /\ UNCHANGED <<counter, clients, sent, overLimit, reused, faults>>

\* Mutant: the watchers are registered when the request begins to wait.
Skip_WatchLate(d) ==
    /\ device[d].pc = "build"
    /\ device[d].since = device[d].next
    /\ woken' = [woken EXCEPT ![d] = FALSE]
    /\ Goto(d, [device[d] EXCEPT !.pc = "wait"])
    /\ UNCHANGED <<db, durable, counter, clients, history>>

\* There is nothing new.
Skip(d) ==
    /\ device[d].pc = "build"
    /\ device[d].since = device[d].next
    /\ Goto(d, [device[d] EXCEPT !.pc = "wait"])
    /\ UNCHANGED <<db, durable, counter, woken, clients, history>>

\* A watcher has fired: another round, as if the client had the token.
Wake(d) ==
    /\ device[d].pc = "wait"
    /\ woken[d]
    /\ Goto(d, [pc |-> "watch", since |-> device[d].next])
    /\ UNCHANGED <<db, durable, counter, woken, clients, history>>

\* timeout_at, or the server stops: an empty response.
Timeout(d) ==
    /\ device[d].pc = "wait"
    /\ Goto(d, [pc |-> "reply", next |-> device[d].next, got |-> {}])
    /\ UNCHANGED <<db, durable, counter, woken, clients, history>>

Deliver(d) ==
    /\ device[d].pc = "reply"
    /\ token' = [token EXCEPT ![d] = device[d].next]
    /\ seen' = [seen EXCEPT ![d] = @ \cup device[d].got]
    /\ Goto(d, Idle)
    /\ UNCHANGED <<db, durable, counter, woken, history>>

\* The connection breaks: the request is dropped wherever it is and the
\* client comes back with the token it has.
Lose(d) ==
    /\ device[d] # Idle
    /\ faults < MaxFault
    /\ faults' = faults + 1
    /\ Goto(d, Idle)
    /\ UNCHANGED <<db, durable, counter, woken, clients, removed,
                   sent, overLimit, reused>>

-----------------------------------------------------------------------------
(* select_edus *)

First(rs, k) == {r \in rs : Cardinality({q \in rs : q.count < r.count}) < k}

\* The updates of a stream between the stored count and the retired number.
Candidates(s) == {r \in db.rows : /\ r.topic = s
                                  /\ db.educount < r.count
                                  /\ r.count <= Retired}

\* Every key change takes a slot, the receipts and the presence one each.
Demand(s) == IF s = "keys" THEN Cardinality(Candidates(s))
             ELSE IF Candidates(s) = {} THEN 0 ELSE 1

Total(f) == f["keys"] + f["receipts"] + f["presence"]

\* The streams are read at the same time and share the slots.
Slots == {f \in [Stream -> 0..EDU_LIMIT] :
             /\ \A s \in Stream : f[s] <= Demand(s)
             /\ LET all == Total([s \in Stream |-> Demand(s)])
                IN  Total(f) = IF all <= EDU_LIMIT THEN all ELSE EDU_LIMIT}

\* How far a stream is read: up to the first key change that finds no slot,
\* and up to a limit of its own.
Scanned(s, f) ==
    First(Candidates(s), CASE s = "keys" -> f[s] + 1
                           [] s = "receipts" -> SELECT_RECEIPT_LIMIT + 1
                           [] s = "presence" -> SELECT_PRESENCE_LIMIT)

Taken(s, f) == IF s = "keys" THEN First(Candidates(s), f[s])
               ELSE IF f[s] > 0 THEN Scanned(s, f) ELSE {}

\* select_events adds the EDUs to the transaction and stores max_edu_count,
\* which every update that is read raises, before a limit is looked at.  What
\* is read has been written and only this task reads the stored count, so
\* that one step can stand for all of it.
SelectEdus(f) ==
    /\ f \in Slots
    /\ LET all == UNION {Candidates(s) : s \in Stream}
           scanned == UNION {Scanned(s, f) : s \in Stream}
           taken == UNION {Taken(s, f) : s \in Stream}
       IN  /\ all # {}
           /\ db' = [db EXCEPT !.educount = MaxOf({@} \cup Numbers(scanned))]
           /\ sent' = sent \cup Numbers(taken)
           /\ overLimit' = overLimit \cup Numbers(all \ taken)
    /\ Flushed
    /\ UNCHANGED <<counter, device, woken, clients, removed, reused, faults>>

-----------------------------------------------------------------------------
\* The process dies and starts again with what has been flushed.
Crash ==
    /\ faults < MaxFault
    /\ faults' = faults + 1
    /\ db' = durable
    /\ dispatched' = durable.count
    /\ released' = durable.count
    /\ pending' = {}
    /\ quiet' = {}
    /\ device' = [d \in Device |-> Idle]
    /\ woken' = [d \in Device |-> FALSE]
    /\ seen' = [d \in Device |-> seen[d] \cap 1..durable.count]
    /\ sent' = sent \cap 1..durable.count
    /\ overLimit' = overLimit \cap 1..durable.count
    /\ reused' = reused \cup (durable.count + 1)..released
    /\ UNCHANGED <<durable, token, removed>>

Init ==
    /\ db = [count |-> 0, rows |-> {}, educount |-> 0]
    /\ durable = db
    /\ dispatched = 0
    /\ pending = {}
    /\ released = 0
    /\ quiet = {}
    /\ device = [d \in Device |-> Idle]
    /\ woken = [d \in Device |-> FALSE]
    /\ token = [d \in Device |-> 0]
    /\ seen = [d \in Device |-> {}]
    /\ removed = [d \in Device |-> {}]
    /\ sent = {}
    /\ overLimit = {}
    /\ reused = {}
    /\ faults = 0

Writing(n) == \/ \E topic \in Topic : Put(n, topic)
              \/ Notify(n)
              \/ Retire(n)

Serve(d) == \/ Watch(d)
            \/ Count(d)
            \/ WaitPending(d)
            \/ \E full \in BOOLEAN : Build(d, full)
            \/ Skip(d)
            \/ Wake(d)
            \/ Deliver(d)

Next == \/ Dispatch
        \/ \E n \in pending : Writing(n)
        \/ \E d \in Device : \/ Request(d)
                             \/ Serve(d)
                             \/ Timeout(d)
                             \/ Lose(d)
        \/ \E f \in Slots : SelectEdus(f)
        \/ Crash

Spec == Init /\ [][Next]_vars

\* Writers end, the server goes on with a request and a client asks again;
\* nothing is assumed of the timeout, so that only the watchers end a wait.
Fairness ==
    /\ \A n \in 1..MaxCount : WF_vars(Notify(n)) /\ WF_vars(Retire(n))
    /\ \A d \in Device : WF_vars(Request(d)) /\ WF_vars(Serve(d))

FairSpec == Spec /\ Fairness

-----------------------------------------------------------------------------
(* Properties *)

\* The tables, the counter and the requests have the shapes of the structs,
\* and a row is announced while its permit is held.
TypeOK ==
    /\ db \in Databases
    /\ durable \in Databases
    /\ dispatched \in Nat
    /\ pending \subseteq 1..dispatched
    /\ released \in Nat
    /\ quiet \subseteq pending
    /\ device \in [Device -> Requests]
    /\ woken \in [Device -> BOOLEAN]
    /\ token \in [Device -> Nat]
    /\ seen \in [Device -> SUBSET Nat]
    /\ removed \in [Device -> SUBSET Nat]
    /\ sent \subseteq Nat
    /\ overLimit \subseteq Nat
    /\ reused \subseteq Nat
    /\ faults \in Nat

\* A client misses nothing at or below its token, which is what the counter
\* has two phases for ("Client-sync will then move on to the next counter
\* value having missed the data from the current one"): whatever writers are
\* at work, responses lost and rounds made without an answer.  The exception
\* is a number whose record a crash lost with the unflushed log.
NoUpdateMissed ==
    \A d \in Device : \A r \in db.rows :
        r.topic \in Stream \cup {d} /\ r.count <= token[d] =>
            r.count \in seen[d] \cup reused

\* An event is removed from an inbox only when its device has received it,
\* also when the since that remove_to_device_events is called with is the
\* next_batch of an earlier round, which the client has never seen.
InboxKept ==
    \A d \in Device : removed[d] \subseteq seen[d] \cup reused

\* The counter is stored ahead of everything that is written under its
\* numbers, so that what a crash leaves has no number that will be dealt out
\* again, and the window of select_edus is never negative, as it asserts.
CounterAhead ==
    /\ \A r \in db.rows : r.count <= dispatched
    /\ \A r \in durable.rows : r.count <= durable.count
    /\ db.educount <= Retired

\* The window of select_edus ends at the retired number: an update at or
\* below the count that is stored for a server was sent to it, unless one of
\* the limits left it out.
EduNotMissed ==
    \A r \in db.rows :
        r.topic \in Stream /\ r.count <= db.educount =>
            r.count \in sent \cup overLimit

\* No update is lost on a client that waits: sync registers its watchers
\* before it looks at the counter, "so a write between the registration
\* window and the long-poll await cannot be missed".
Delivered ==
    \A d \in Device : \A n \in 1..MaxCount :
        (\E r \in db.rows : r.count = n /\ r.topic \in Watched(d))
            ~> \/ n \in seen[d] \cup reused
               \/ n \notin Numbers(db.rows)

=============================================================================
