---------------------------- MODULE FedScheduler ----------------------------
(***************************************************************************)
(* The federation scheduler: fed::FederationSender behind service/fed.     *)
(*                                                                         *)
(* The sending service keeps the scheduler in shadow mode: it queues a     *)
(* marker for a transaction and mirrors its outcome.  With the option      *)
(* gm_fed_authoritative_sender, drive cycles (of the worker's timer and of *)
(* the admin command) drain the queues of the ready destinations as well.  *)
(* Queue and health are tables of the store; the backoff and the sequence  *)
(* counter live in memory, and no lock spans the memory and the store.     *)
(*                                                                         *)
(* Markers are the only items the code queues.  They parse to no PDU, so   *)
(* that a dispatch is a no-op which counts as a success; the failure       *)
(* branch of drive_once is unreachable and left out.                       *)
(***************************************************************************)
EXTENDS Integers, FiniteSets

CONSTANTS
    Dest,             \* federation destinations
    Driver,           \* concurrent drive cycles
    Modes,            \* of the server and its store, and how long they run
    NoBackoff,        \* a destination without a backoff record
    BASE_BACKOFF_MS,
    CAP_BACKOFF_MS,
    GracefulShutdown, \* BOOLEAN: the process may be stopped in order
    MaxSeq,           \* bound: sequence numbers
    MaxAttempt        \* bound: consecutive failures

ASSUME FedAssumption ==
    /\ BASE_BACKOFF_MS \in Nat /\ CAP_BACKOFF_MS \in Nat
    /\ NoBackoff \notin [attempt : Nat, available_at : Nat]
    /\ Modes \subseteq [drive   : BOOLEAN,   \* gm_fed_authoritative_sender
                        fails   : BOOLEAN,   \* a write to the store may fail
                        maxTime : Nat]       \* bound: milliseconds
    /\ GracefulShutdown \in BOOLEAN
    /\ MaxSeq \in Nat /\ MaxAttempt \in Nat

\* The provers know no powers; that these are numbers is left to TLC.
ASSUME ShiftAssumption == \A s \in 0..16 : 2^s \in Nat

VARIABLES
    queue,    \* [Dest -> SUBSET Nat]   FederationQueue: sequence numbers
    health,   \* [Dest -> Backoff]      FederationHealth
    backoff,  \* [Dest -> Backoff]      FederationSender.backoff
    seq,      \* Nat                    Service.seq
    active,   \* [Dest -> BOOLEAN]      the sending service has active requests
    sender,   \* [Dest -> Handler]      the sending worker's transaction
    driver,   \* [Driver -> Cycle]      drive_once
    running,  \* BOOLEAN                until_shutdown has not fired
    mode,     \* \in Modes               how the server runs
    now       \* Nat                    now_millis

table  == <<queue, health, active>>
memory == <<backoff, seq, running>>
vars   == <<table, memory, sender, driver, mode, now>>

-----------------------------------------------------------------------------
(* Data *)

Backoff == [attempt : Nat, available_at : Nat] \cup {NoBackoff}

Least(S) == CHOOSE n \in S : \A m \in S : n <= m

\* Mutant: the cap is missing.
backoff_delay_Uncapped(attempt) ==
    LET shift == IF attempt = 0 THEN 0 ELSE Least({attempt - 1, 16})
    IN  BASE_BACKOFF_MS * 2^shift

\* Exponential in the number of failures, capped.
backoff_delay(attempt) ==
    LET shift == IF attempt = 0 THEN 0 ELSE Least({attempt - 1, 16})
    IN  Least({BASE_BACKOFF_MS * 2^shift, CAP_BACKOFF_MS})

\* The backoff of d after a failure now.
Worse(d) ==
    LET n == IF backoff[d] = NoBackoff THEN 1 ELSE backoff[d].attempt + 1
    IN  [attempt |-> n, available_at |-> now + backoff_delay(n)]

\* The destinations in backoff now.
BackedOff == {d \in Dest : backoff[d] # NoBackoff /\ backoff[d].available_at > now}

\* What a sending worker does for a destination: nothing, a transaction in
\* flight, one that failed, or the calls that mirror an outcome.
Rest(pc) == [pc |-> pc]
Idle     == Rest("idle")

Sender(d, job) == sender' = [sender EXCEPT ![d] = job]

Drive(v, cycle) == driver' = [driver EXCEPT ![v] = cycle]

NoCycle == Rest("idle")

-----------------------------------------------------------------------------
(* The sending worker: handle_request and mirror_fed_health *)

\* handle_request starts a transaction, and Service::queue numbers its marker.
\* A transaction of EDUs alone has no active request.
StartTransaction(d, durable) ==
    /\ running
    /\ sender[d] = Idle
    /\ seq < MaxSeq
    /\ seq' = seq + 1
    /\ active' = [active EXCEPT ![d] = @ \/ durable]
    /\ Sender(d, [pc |-> "put", seq |-> seq])
    /\ UNCHANGED <<queue, health, backoff, driver, running, now>>

\* A failed transaction is retried with the active requests; without any it is
\* given up, and its markers stay.
RetryTransaction(d) ==
    /\ running
    /\ sender[d].pc = "failed"
    /\ \/ /\ active[d] /\ seq < MaxSeq
          /\ seq' = seq + 1
          /\ Sender(d, [pc |-> "put", seq |-> seq])
       \/ /\ ~active[d]
          /\ UNCHANGED seq
          /\ Sender(d, Idle)
    /\ UNCHANGED <<table, backoff, driver, running, now>>

PutMarker(d) ==
    /\ sender[d].pc = "put"
    /\ queue' = [queue EXCEPT ![d] = @ \cup {sender[d].seq}]
    /\ Sender(d, Rest("inflight"))
    /\ UNCHANGED <<health, active, memory, driver, now>>

\* Mutant: the markers of a delivered transaction stay.
RespondOk_Kept(d) ==
    /\ running
    /\ sender[d].pc = "inflight"
    /\ Sender(d, [pc |-> "taking", left |-> {}])
    /\ UNCHANGED <<table, memory, driver, now>>

\* Delivered: Service::take scans the markers of the destination ...
RespondOk(d) ==
    /\ running
    /\ sender[d].pc = "inflight"
    /\ Sender(d, [pc |-> "taking", left |-> queue[d]])
    /\ UNCHANGED <<table, memory, driver, now>>

\* ... and deletes them one by one, in order.
TakeMarker(d) ==
    LET n == Least(sender[d].left)
    IN  /\ sender[d].pc = "taking" /\ sender[d].left # {}
        /\ queue' = [queue EXCEPT ![d] = @ \ {n}]
        /\ Sender(d, [pc |-> "taking", left |-> sender[d].left \ {n}])
        /\ UNCHANGED <<health, active, memory, driver, now>>

\* mark_success clears the backoff in memory ...
MarkSuccess(d) ==
    /\ sender[d].pc = "taking" /\ sender[d].left = {}
    /\ backoff' = [backoff EXCEPT ![d] = NoBackoff]
    /\ Sender(d, Rest("clear"))
    /\ UNCHANGED <<table, seq, running, driver, now>>

\* Mutant: the health record stays.
ClearHealth_Kept(d) ==
    /\ sender[d].pc = "clear"
    /\ Sender(d, Rest("delivered"))
    /\ UNCHANGED <<table, memory, driver, now>>

\* ... and then in the store.
ClearHealth(d) ==
    /\ sender[d].pc = "clear"
    /\ health' = [health EXCEPT ![d] = NoBackoff]
    /\ Sender(d, Rest("delivered"))
    /\ UNCHANGED <<queue, active, memory, driver, now>>

\* handle_response_ok deletes the active requests and, if more events are queued,
\* starts the next transaction: one without a marker.
FollowUp(d, more) ==
    /\ sender[d].pc = "delivered"
    /\ active' = [active EXCEPT ![d] = more]
    /\ Sender(d, IF more THEN Rest("inflight") ELSE Idle)
    /\ UNCHANGED <<queue, health, memory, driver, now>>

\* Failed: mark_failure extends the backoff in memory under the lock ...
RespondErr(d) ==
    /\ running
    /\ sender[d].pc = "inflight"
    /\ backoff[d] # NoBackoff => backoff[d].attempt < MaxAttempt
    /\ backoff' = [backoff EXCEPT ![d] = Worse(d)]
    /\ Sender(d, [pc |-> "persist", record |-> backoff'[d]])
    /\ UNCHANGED <<table, seq, running, driver, now>>

\* Mutant: the time is not written.
PersistHealth_Bare(d) ==
    /\ sender[d].pc = "persist"
    /\ health' = [health EXCEPT ![d] = [attempt |-> sender[d].record.attempt]]
    /\ Sender(d, Rest("failed"))
    /\ UNCHANGED <<queue, active, memory, driver, now>>

\* ... and writes the record after it released the lock.
PersistHealth(d) ==
    /\ sender[d].pc = "persist"
    /\ health' = [health EXCEPT ![d] = sender[d].record]
    /\ Sender(d, Rest("failed"))
    /\ UNCHANGED <<queue, active, memory, driver, now>>

\* A write to the store fails; the scheduler logs it and the worker goes on.
WriteFails(d) ==
    /\ mode.fails
    /\ \/ sender[d].pc = "put"     /\ Sender(d, Rest("inflight"))
       \/ /\ sender[d].pc = "taking" /\ sender[d].left # {}
          /\ Sender(d, [pc |-> "taking", left |-> {}])
       \/ sender[d].pc = "clear"   /\ Sender(d, Rest("delivered"))
       \/ sender[d].pc = "persist" /\ Sender(d, Rest("failed"))
    /\ UNCHANGED <<table, memory, driver, now>>

-----------------------------------------------------------------------------
(* drive_once *)

\* tick takes the set of destinations in backoff under the lock.
TickReady(v) ==
    /\ running
    /\ driver[v] = NoCycle
    /\ Drive(v, [pc |-> "depths", backed |-> BackedOff])
    /\ UNCHANGED <<table, memory, sender, now>>

\* due_batches selects the destinations that have markers and were not in backoff.
SelectDue(v) ==
    /\ driver[v].pc = "depths"
    /\ Drive(v, [pc |-> "drain", held |-> {},
                 todo |-> {d \in Dest \ driver[v].backed : queue[d] # {}}])
    /\ UNCHANGED <<table, memory, sender, now>>

\* drain_queue scans the markers of the next destination (the order of the
\* destinations is left open) ...
DrainScan(v, d) ==
    /\ driver[v].pc = "drain" /\ d \in driver[v].todo
    /\ Drive(v, [pc |-> "delete", held |-> driver[v].held,
                 todo |-> driver[v].todo \ {d}, dest |-> d, left |-> queue[d]])
    /\ UNCHANGED <<table, memory, sender, now>>

\* ... and deletes them one by one.
DrainDelete(v) ==
    LET c == driver[v]
        n == Least(c.left)
    IN  /\ c.pc = "delete" /\ c.left # {}
        /\ queue' = [queue EXCEPT ![c.dest] = @ \ {n}]
        /\ Drive(v, [pc |-> "delete", held |-> c.held \cup {<<c.dest, n>>},
                     todo |-> c.todo, dest |-> c.dest, left |-> c.left \ {n}])
        /\ UNCHANGED <<health, active, memory, sender, now>>

DrainNext(v) ==
    LET c == driver[v]
    IN  /\ c.pc = "delete" /\ c.left = {}
        /\ Drive(v, [pc |-> "drain", held |-> c.held, todo |-> c.todo])
        /\ UNCHANGED <<table, memory, sender, now>>

\* A failing delete drops what the cycle drained so far.
DrainFails(v) ==
    /\ mode.fails
    /\ driver[v].pc = "delete" /\ driver[v].left # {}
    /\ Drive(v, NoCycle)
    /\ UNCHANGED <<table, memory, sender, now>>

\* A batch of markers is dispatched as an empty transaction, which is a success.
Dispatch(v, d) ==
    LET c == driver[v]
    IN  /\ \/ c.pc = "drain" /\ c.todo = {}
           \/ c.pc = "dispatch"
        /\ \E h \in c.held : h[1] = d
        /\ backoff' = [backoff EXCEPT ![d] = NoBackoff]
        /\ Drive(v, [pc |-> "clear", dest |-> d,
                     held |-> {h \in c.held : h[1] # d}])
        /\ UNCHANGED <<table, seq, running, sender, now>>

DriveClear(v) ==
    LET c == driver[v]
    IN  /\ c.pc = "clear"
        /\ \/ health' = [health EXCEPT ![c.dest] = NoBackoff]
           \/ mode.fails /\ UNCHANGED health
        /\ Drive(v, [pc |-> "dispatch", held |-> c.held])
        /\ UNCHANGED <<queue, active, memory, sender, now>>

DriveEnds(v) ==
    LET c == driver[v]
    IN  /\ \/ c.pc = "drain" /\ c.todo = {}
           \/ c.pc = "dispatch"
        /\ c.held = {}
        /\ Drive(v, NoCycle)
        /\ UNCHANGED <<table, memory, sender, now>>

-----------------------------------------------------------------------------
(* The process *)

\* The server is told to shut down: the worker leaves its loop ...
Stop ==
    /\ GracefulShutdown /\ running
    /\ running' = FALSE
    /\ UNCHANGED <<table, backoff, seq, sender, driver, now>>

\* ... and finish_responses waits for the responses: it deletes the active
\* requests of those that succeed, and mirrors nothing.
FinishResponse(d, ok) ==
    /\ ~running
    /\ sender[d].pc = "inflight"
    /\ active' = [active EXCEPT ![d] = @ /\ ~ok]
    /\ Sender(d, Rest("finished"))
    /\ UNCHANGED <<queue, health, memory, driver, now>>

\* Mutant: the counter starts at the largest number in use.
NextSeq_Reused(S) == IF S = {} THEN 1 ELSE CHOOSE n \in S : \A m \in S : n >= m

\* max_queue_seq + 1
NextSeq(S) == IF S = {} THEN 1 ELSE 1 + CHOOSE n \in S : \A m \in S : n >= m

\* The process ends, in order or not, and starts again: the memory is rebuilt from
\* the store, and active requests wait for startup_netburst.
Restart ==
    /\ backoff' = health
    /\ seq' = NextSeq(UNION {queue[d] : d \in Dest})
    /\ running' = TRUE
    /\ sender' = [d \in Dest |-> IF active[d] THEN Rest("boot") ELSE Idle]
    /\ driver' = [v \in Driver |-> NoCycle]
    /\ UNCHANGED <<table, now>>

\* startup_netburst resumes the active requests, without a marker; if it is
\* disabled they are left alone.
Boot(d, burst) ==
    /\ sender[d].pc = "boot"
    /\ Sender(d, IF burst THEN Rest("inflight") ELSE Idle)
    /\ UNCHANGED <<table, memory, driver, now>>

Tick ==
    /\ now < mode.maxTime
    /\ now' = now + 1
    /\ UNCHANGED <<table, memory, sender, driver>>

Init ==
    /\ queue = [d \in Dest |-> {}]
    /\ health = [d \in Dest |-> NoBackoff]
    /\ backoff = [d \in Dest |-> NoBackoff]
    /\ seq = 1
    /\ active = [d \in Dest |-> FALSE]
    /\ sender = [d \in Dest |-> Idle]
    /\ driver = [v \in Driver |-> NoCycle]
    /\ running = TRUE
    /\ mode \in Modes
    /\ now = 0

Mirror(d) == \/ \E durable \in BOOLEAN : StartTransaction(d, durable)
             \/ RetryTransaction(d)
             \/ PutMarker(d)
             \/ RespondOk(d)
             \/ TakeMarker(d)
             \/ MarkSuccess(d)
             \/ ClearHealth(d)
             \/ \E more \in BOOLEAN : FollowUp(d, more)
             \/ RespondErr(d)
             \/ PersistHealth(d)
             \/ WriteFails(d)
             \/ \E ok \in BOOLEAN : FinishResponse(d, ok)
             \/ \E burst \in BOOLEAN : Boot(d, burst)

DriveOnce(v) == \/ TickReady(v)
                \/ SelectDue(v)
                \/ \E d \in Dest : DrainScan(v, d) \/ Dispatch(v, d)
                \/ DrainDelete(v)
                \/ DrainNext(v)
                \/ DrainFails(v)
                \/ DriveClear(v)
                \/ DriveEnds(v)

Next == /\ UNCHANGED mode
        /\ \/ \E d \in Dest : Mirror(d)
           \/ mode.drive /\ \E v \in Driver : DriveOnce(v)
           \/ Stop
           \/ Restart
           \/ Tick

Spec == Init /\ [][Next]_vars

-----------------------------------------------------------------------------
(* Properties *)

Handler == [pc : {"idle", "inflight", "clear", "delivered", "failed", "finished",
                  "boot"}]
           \cup [pc : {"put"}, seq : Nat]
           \cup [pc : {"taking"}, left : SUBSET Nat]
           \cup [pc : {"persist"}, record : Backoff]

Items == SUBSET (Dest \X Nat)
Cycle == [pc : {"idle"}]
         \cup [pc : {"depths"}, backed : SUBSET Dest]
         \cup [pc : {"drain"}, held : Items, todo : SUBSET Dest]
         \cup [pc : {"delete"}, held : Items, todo : SUBSET Dest, dest : Dest,
                left : SUBSET Nat]
         \cup [pc : {"clear"}, dest : Dest, held : Items]
         \cup [pc : {"dispatch"}, held : Items]

\* Every variable holds a value of the kind the code gives it, and a worker or a
\* drive cycle has between two steps what its next step needs.
TypeOK ==
    /\ queue \in [Dest -> SUBSET Nat]
    /\ health \in [Dest -> Backoff]
    /\ backoff \in [Dest -> Backoff]
    /\ seq \in Nat /\ now \in Nat
    /\ active \in [Dest -> BOOLEAN]
    /\ sender \in [Dest -> Handler]
    /\ driver \in [Driver -> Cycle]
    /\ running \in BOOLEAN
    /\ mode \in Modes

\* What a drive cycle drained and has not dispatched.
Held(v) == IF driver[v].pc \in {"drain", "delete", "dispatch", "clear"}
           THEN driver[v].held ELSE {}

\* The number that a marker gets is in no queue, no other worker has it and no
\* drive cycle holds it, although Service::queue numbers and writes in two steps
\* and the counter is rebuilt from the store at a restart: a put never overwrites
\* a queued item, and a drained item does not come back.
KeysFresh ==
    /\ \A d \in Dest : \A n \in queue[d] : n < seq
    /\ \A d \in Dest : sender[d].pc = "put" =>
          /\ sender[d].seq < seq
          /\ \A e \in Dest : sender[d].seq \notin queue[e]
    /\ \A d, e \in Dest : sender[d].pc = "put" /\ sender[e].pc = "put" /\ d # e =>
          sender[d].seq # sender[e].seq
    /\ \A v \in Driver : \A h \in Held(v) :
          /\ h[2] \notin queue[h[1]]
          /\ h[2] < seq
          /\ \A d \in Dest : sender[d].pc = "put" => sender[d].seq # h[2]

\* In shadow mode, with a store that does not fail, the health record of a
\* destination is its backoff in memory between two outcomes, so that a restart
\* changes nothing.
HealthMirrors ==
    ~mode.drive /\ ~mode.fails =>
        \A d \in Dest :
            sender[d].pc \notin {"clear", "persist"} => health[d] = backoff[d]

\* Once a delivery is mirrored no marker of the destination is left, also with
\* drive cycles: not of the attempts that failed before and not of an earlier
\* process.
DeliveredClears ==
    ~mode.fails =>
        \A d \in Dest : sender[d].pc \in {"clear", "delivered"} => queue[d] = {}

\* A destination is never kept waiting for longer than the cap, from any moment
\* on and through restarts.
AvailableSoon ==
    \A d \in Dest : \A b \in {backoff[d], health[d]} :
        b # NoBackoff => b.available_at <= now + CAP_BACKOFF_MS

=============================================================================
