---------------------------- MODULE RoomTimeline ----------------------------
(***************************************************************************)
(* One room of the homeserver: how events of other servers and of local    *)
(* users get into its timeline, its state and its set of leaves.           *)
(*                                                                         *)
(*   api/server/send.rs            transactions under mutex_federation     *)
(*   service/rooms/event_handler   outliers, missing parents, the upgrade  *)
(*                                 of an outlier to a timeline event       *)
(*   service/rooms/timeline        append, build and backfill              *)
(*   service/rooms/state           snapshots, room state and leaves        *)
(*   service/membership            a join through another server, and an   *)
(*                                 invite or join that comes back signed   *)
(*   router/layers.rs              the timeout of a request                *)
(*                                                                         *)
(* The tables of the database are variables that survive a crash and every *)
(* write to one of them that another task, or a crash, can come between is *)
(* a step of its own.  What authorisation, signatures, policy servers, the *)
(* back-off of bad events and the comparison of an event's age with the    *)
(* room's say is a free choice; so is what a remote server answers, within *)
(* the event graph.  The task that holds the room's state mutex is the     *)
(* writer.                                                                 *)
(***************************************************************************)
EXTENDS Integers, FiniteSets

CONSTANTS
    Remote,     \* events that other servers have made
    Local,      \* events that local users may make
    Root,       \* the event the room starts with here; a state event
    Task,       \* concurrent requests
    Parents,    \* [Remote -> SUBSET Remote \cup {Root}]   prev_events
    Slot,       \* [state events -> type and state key]
    Sent,       \* remote events that come in a transaction
    Paged,      \* remote events that come with a page of backfill
    Signed,     \* remote events that local requests have asked to be signed
    Answers,    \* [Remote -> states that could be fetched with state_ids]
    Joins,      \* set of [prevs, state]: answers to make_join and send_join
    NoSlot,     \* the slot of an event that is not a state event
    NoTask, NoEvent,
    MAX_FETCH,  \* max_fetch_prev_events
    MAX_LEAVES, \* how many leaves a local event refers to: 20 in create.rs
    MaxFault    \* bound of the model: crashes and timeouts

Event == Remote \cup Local \cup {Root}

\* shorteventid_shortstatehash has no entry.
NoState == {NoEvent}

ASSUME RoomAssumption ==
    /\ Root \notin Remote \cup Local
    /\ Remote \cap Local = {}
    /\ NoTask \notin Task
    /\ NoEvent \notin Event
    /\ Parents \in [Remote -> SUBSET (Remote \cup {Root})]
    /\ Sent \subseteq Remote
    /\ Paged \subseteq Remote
    /\ Signed \subseteq Remote
    /\ Answers \in [Remote -> SUBSET SUBSET (Remote \cup {Root})]
    /\ Joins \subseteq [prevs : SUBSET (Remote \cup {Root}),
                       state : SUBSET (Remote \cup {Root})]
    /\ \A e \in Remote : \A s \in Answers[e] : e \notin s
    /\ DOMAIN Slot = Event
    /\ Slot[Root] # NoSlot
    /\ MAX_FETCH \in Nat
    /\ MAX_LEAVES \in Nat
    /\ MaxFault \in Nat

VARIABLES
    \* the database
    rows,       \* pduid_pdu: set of [count, event]
    index,      \* eventid_pduid: [Event -> Int], 0 when there is none
    outlier,    \* eventid_outlierpdu
    snapshot,   \* shorteventid_shortstatehash: state before the event
    roomState,  \* roomid_shortstatehash: the events of the current state
    leaves,     \* roomid_pduleaves: the forward extremities
    referenced, \* referencedevents
    softFailed, \* softfailedeventids
    parents,    \* prev_events of every event made so far
    count,      \* the last sequence number
    \* memory
    awaited,    \* events of Signed whose answer has not come
    fed,        \* who holds mutex_federation of the room
    handler,    \* [Task -> handle_incoming_pdu in progress]
    jobs,       \* upgrade_outlier_to_timeline_pdu in progress
    writer,     \* who holds the state mutex of the room
    \* history
    torn,       \* rows that a crash left without their index
    bare,       \* rows of remote events written without mutex_federation
    forgotten,  \* leaves that were given up although nothing refers to them
    faults

database == <<rows, index, outlier, snapshot, roomState, leaves, referenced,
              softFailed, parents, count>>
memory == <<awaited, fed, handler, jobs, writer>>
history == <<torn, bare, forgotten, faults>>
vars == <<database, memory, history>>

-----------------------------------------------------------------------------
(* State kept by the tasks. *)

Idle == [pc |-> "idle"]

Handlers == {Idle}
    \cup [pc : {"parse", "backfill", "insert"}, event : Remote]
    \cup [pc : {"prepend"}, event : Remote, at : Int]
    \cup [pc : {"fetch"}, event : Remote, stack : SUBSET Event,
          graph : SUBSET Event, info : SUBSET Event, amount : Nat]
    \cup [pc : {"prevs", "upgrade"}, event : Remote, failed : BOOLEAN]

\* The parents of one handler are upgraded concurrently, so that a job is
\* told by its task and its event.
Jobs == [task : Task, event : Event, stage : {"todo"}]
    \cup [task : Task, event : Event, stage : {"ready"},
          state : SUBSET Event, soft : BOOLEAN]

Free == [pc |-> "free"]

Stages == {"before", "join", "force", "snapshot", "referenced", "clear", "put", "soft",
           "row", "index", "effects", "state"}

Writers == {Free}
    \cup [pc : {"create", "belay", "answer"}, task : Task]
    \cup [pc : Stages, task : Task, event : Event, own : BOOLEAN,
          soft : BOOLEAN, state : SUBSET Event, leaves : SUBSET Event,
          at : Nat]

-----------------------------------------------------------------------------
(* What the tables say. *)

Placed(e) == index[e] # 0

\* pdu_exists
Exists(e) == Placed(e) \/ e \in outlier

IsState(e) == Slot[e] # NoSlot

\* The state after the event e in the state s.
After(s, e) ==
    IF IsState(e) THEN {f \in s : Slot[f] # Slot[e]} \cup {e} ELSE s

\* The stored events of which some may be in the auth chains of the forks.
StoredState == {f \in Event : IsState(f) /\ Exists(f)}

\* state_resolution keeps what all forks agree on and, where they do not agree,
\* takes one event for a slot, of a fork or from their auth chains, or none.
Resolutions(forks) ==
    LET agreed == {f \in UNION forks : \A s \in forks : f \in s}
        others == IF agreed = UNION forks THEN {} ELSE (UNION forks) \cup StoredState
    IN  {r \in SUBSET (agreed \cup others) :
            /\ agreed \subseteq r
            /\ \A f, g \in r : Slot[f] = Slot[g] => f = g}

Building(t) == writer # Free /\ writer.task = t

JobsOf(t) == {j \in jobs : j.task = t}

-----------------------------------------------------------------------------
(* handle_incoming_pdu *)

\* A transaction or a page of backfill takes mutex_federation.
TakeRoom(t, e, pc) ==
    /\ handler[t] = Idle
    /\ ~Building(t)
    /\ fed = NoTask
    /\ fed' = t
    /\ handler' = [handler EXCEPT ![t] = [pc |-> pc, event |-> e]]
    /\ UNCHANGED <<database, jobs, writer, awaited, history>>

ReceivePdu(t, e) == TakeRoom(t, e, "parse")

Backfill(t, e) == TakeRoom(t, e, "backfill")

\* remote_invite, and join_local when another server has to sign the join: the
\* signed event is handled without mutex_federation.
ReceiveSigned(t, e) ==
    /\ handler[t] = Idle
    /\ ~Building(t)
    /\ e \in awaited
    /\ awaited' = awaited \ {e}
    /\ handler' = [handler EXCEPT ![t] = [pc |-> "parse", event |-> e]]
    /\ UNCHANGED <<database, fed, jobs, writer, history>>

\* A guard of mutex_federation that t holds is dropped.
LeaveRoom(t) == fed' = IF fed = t THEN NoTask ELSE fed

Return(t) ==
    /\ handler' = [handler EXCEPT ![t] = Idle]
    /\ LeaveRoom(t)

\* The event is in the timeline already, or it fails one of the checks of
\* steps 1 to 8: access list, signature, authorisation by its auth events.
DropPdu(t) ==
    /\ handler[t].pc = "parse"
    /\ Return(t)
    /\ UNCHANGED <<database, jobs, writer, awaited, history>>

\* Steps 1 to 8: the event passes and is stored as an outlier.  Its parents
\* that are not in the timeline are to be fetched.
AcceptOutlier(t) ==
    /\ handler[t].pc = "parse"
    /\ LET e == handler[t].event
       IN  /\ ~Placed(e)
           /\ outlier' = outlier \cup {e}
           /\ handler' = [handler EXCEPT ![t] =
                 [pc |-> "fetch", event |-> e, graph |-> {}, info |-> {},
                  stack |-> {p \in parents[e] : ~Placed(p)}, amount |-> 0]]
    /\ UNCHANGED <<rows, index, snapshot, roomState, leaves, referenced,
                   softFailed, parents, count, fed, jobs, writer,
                   awaited, history>>

\* An event older than the first one of the room stays an outlier.
SkipOldPdu(t) ==
    /\ handler[t].pc = "fetch"
    /\ handler[t].graph = {}
    /\ Return(t)
    /\ UNCHANGED <<database, jobs, writer, awaited, history>>

\* One round of the loop of fetch_prev.  fetch_auth finds the event in the
\* database or asks the origin, unless the event is backed off, and may fail;
\* a fetched event becomes an outlier.  Events of the timeline have no entry
\* in eventid_info.  The parents of an event that is not too old are followed
\* until the limit has been passed.
FetchPrev(t, p) ==
    /\ handler[t].pc = "fetch"
    /\ p \in handler[t].stack
    /\ \E found \in {Exists(p), Exists(p) \/ p \in Remote} :
        LET h == handler[t]
            informed == found /\ h.amount <= MAX_FETCH /\ ~Placed(p)
            graph == h.graph \cup {p}
        IN  /\ outlier' = IF found /\ ~Exists(p) THEN outlier \cup {p}
                                                 ELSE outlier
            /\ \E follow \in {informed, FALSE} :
                handler' = [handler EXCEPT ![t] =
                 [h EXCEPT !.graph = graph,
                           !.info = IF informed THEN @ \cup {p} ELSE @,
                           !.amount = IF follow THEN @ + 1 ELSE @,
                           !.stack = (@ \ {p}) \cup
                               (IF follow THEN parents[p] \ graph ELSE {})]]
    /\ UNCHANGED <<rows, index, snapshot, roomState, leaves, referenced,
                   softFailed, parents, count, fed, jobs, writer, awaited,
                   history>>

\* handle_prev_pdu for every event of the graph.  Those without an entry in
\* eventid_info, those older than the room and those that are backed off are
\* passed over; the others are upgraded at the same time.
HandlePrevs(t) ==
    /\ handler[t].pc = "fetch"
    /\ handler[t].stack = {}
    /\ \E go \in SUBSET handler[t].info :
        /\ handler' = [handler EXCEPT ![t] =
             [pc |-> "prevs", event |-> handler[t].event, failed |-> FALSE]]
        /\ jobs' = jobs \cup
             {[task |-> t, event |-> p, stage |-> "todo"] : p \in go}
    /\ UNCHANGED <<database, fed, writer, awaited, history>>

\* An error of one parent ends the handler, but only when all of them are
\* done; otherwise the event itself is upgraded.
PrevsDone(t) ==
    /\ handler[t].pc = "prevs"
    /\ JobsOf(t) = {}
    /\ LET h == handler[t]
       IN  \/ /\ h.failed
              /\ Return(t)
              /\ UNCHANGED jobs
           \/ /\ ~h.failed
              /\ handler' = [handler EXCEPT ![t].pc = "upgrade"]
              /\ jobs' = jobs \cup
                   {[task |-> t, event |-> h.event, stage |-> "todo"]}
              /\ UNCHANGED fed
    /\ UNCHANGED <<database, writer, awaited, history>>

HandlerDone(t) ==
    /\ handler[t].pc = "upgrade"
    /\ JobsOf(t) = {}
    /\ Return(t)
    /\ UNCHANGED <<database, jobs, writer, awaited, history>>

-----------------------------------------------------------------------------
(* upgrade_outlier_to_timeline_pdu, before the room is locked *)

\* The result of a job, whose error the handler collects.
EndJob(j, ok) ==
    /\ jobs' = jobs \ {j}
    /\ handler' = [handler EXCEPT ![j.task].failed = @ \/ ~ok]

\* The event is in the timeline already, has been soft-failed or does not
\* pass the checks on the state before it and on the current state.
UpgradeEnds(j) ==
    /\ j \in jobs
    /\ j.stage = "todo"
    /\ \E ok \in {Placed(j.event), FALSE} : EndJob(j, ok)
    /\ UNCHANGED <<database, fed, writer, awaited, history>>

\* Several parents are collected in a map from the state before them: of those
\* with one state only the last to arrive is in it.
OnePerState(P) ==
    {Q \in SUBSET P :
        /\ \A p \in P : \E q \in Q : snapshot[q] = snapshot[p]
        /\ \A p, q \in Q : snapshot[q] = snapshot[p] => q = p}

\* The states before the event: what is stored for the parents, or what the
\* origin says, of which only the events that could be fetched are used; the
\* create event has to be among them.
LocalStates(e) ==
    IF \A p \in parents[e] : snapshot[p] # NoState /\ Exists(p)
    THEN UNION {Resolutions({After(snapshot[p], p) : p \in Q}) :
                   Q \in OnePerState(parents[e])}
    ELSE {}

\* The origin is asked when the state of a parent is not known, and when several
\* could not be resolved.
RemoteStates(e) ==
    IF \E p \in parents[e] : parents[e] = {p} /\ snapshot[p] # NoState THEN {}
    ELSE {s \in Answers[e] : Root \in s}

\* resolve_state_at_incoming_event, then the checks of the event against
\* that state and against the current one, without the state mutex.
UpgradePasses(j) ==
    /\ j \in jobs
    /\ j.stage = "todo"
    /\ ~Placed(j.event)
    /\ j.event \notin softFailed
    /\ \E s \in LocalStates(j.event) \cup RemoteStates(j.event),
          soft \in BOOLEAN :
        /\ jobs' = (jobs \ {j}) \cup
             {[task |-> j.task, event |-> j.event, stage |-> "ready",
               state |-> s, soft |-> soft]}
        /\ outlier' = outlier \cup {f \in s : ~Exists(f)}
    /\ UNCHANGED <<rows, index, snapshot, roomState, leaves, referenced,
                   softFailed, parents, count, fed, handler, writer,
                   awaited, history>>

-----------------------------------------------------------------------------
(* The same, with the state mutex held *)

\* Mutant: the leaves that the event refers to are kept, the others dropped.
Remaining_Inverted(e) ==
    {l \in leaves : l \in parents[e] /\ l \notin referenced}

\* compute_remaining_extremities
Remaining(e) == {l \in leaves : l \notin parents[e] /\ l \notin referenced}

LockRoom(j) ==
    /\ j \in jobs
    /\ j.stage = "ready"
    /\ writer = Free
    /\ writer' = [pc |-> IF IsState(j.event) THEN "force" ELSE "snapshot",
                  task |-> j.task, event |-> j.event, own |-> FALSE,
                  soft |-> j.soft, state |-> j.state,
                  leaves |-> Remaining(j.event) \cup
                             (IF j.soft THEN {} ELSE {j.event}),
                  at |-> 0]
    /\ UNCHANGED <<database, fed, handler, jobs, awaited, history>>

JobOf(w) == CHOOSE j \in jobs : j.task = w.task /\ j.event = w.event

\* resolve_and_force_state_after: an error ends the job.
ForceState ==
    /\ writer.pc = "force"
    /\ \/ /\ \E r \in Resolutions({roomState,
                                   After(writer.state, writer.event)}) :
                roomState' = r
          /\ writer' = [writer EXCEPT !.pc = "snapshot"]
          /\ UNCHANGED <<handler, jobs>>
       \/ /\ EndJob(JobOf(writer), FALSE)
          /\ writer' = Free
          /\ UNCHANGED roomState
    /\ UNCHANGED <<rows, index, outlier, snapshot, leaves, referenced,
                   softFailed, parents, count, fed, awaited, history>>

\* set_event_state
SetEventState ==
    /\ writer.pc = "snapshot"
    /\ snapshot' = [snapshot EXCEPT ![writer.event] = writer.state]
    /\ writer' = [writer EXCEPT !.pc = "referenced"]
    /\ UNCHANGED <<rows, index, outlier, roomState, leaves, referenced,
                   softFailed, parents, count, fed, handler, jobs,
                   awaited, history>>

\* mark_as_referenced
MarkReferenced ==
    /\ writer.pc = "referenced"
    /\ referenced' = referenced \cup parents[writer.event]
    /\ writer' = [writer EXCEPT !.pc = "clear"]
    /\ UNCHANGED <<rows, index, outlier, snapshot, roomState, leaves,
                   softFailed, parents, count, fed, handler, jobs,
                   awaited, history>>

\* set_forward_extremities removes the old keys, then puts the new ones.  The
\* leaf of an event of one's own replaces all others, also those that the event
\* does not refer to: beyond MAX_LEAVES, or unknown to the server of a join.
ClearLeaves ==
    /\ writer.pc = "clear"
    /\ leaves' = {}
    /\ forgotten' = IF writer.own
                    THEN forgotten \cup (leaves \ parents[writer.event])
                    ELSE forgotten
    /\ writer' = [writer EXCEPT !.pc = "put"]
    /\ UNCHANGED <<rows, index, outlier, snapshot, roomState, referenced,
                   softFailed, parents, count, fed, handler, jobs,
                   awaited, torn, bare, faults>>

PutLeaves ==
    /\ writer.pc = "put"
    /\ leaves' = writer.leaves
    /\ writer' = [writer EXCEPT !.pc = IF writer.soft THEN "soft" ELSE "row"]
    /\ UNCHANGED <<rows, index, outlier, snapshot, roomState, referenced,
                   softFailed, parents, count, fed, handler, jobs,
                   awaited, history>>

\* mark_event_soft_failed; the guard is dropped and the job fails.
SoftFail ==
    /\ writer.pc = "soft"
    /\ softFailed' = softFailed \cup {writer.event}
    /\ EndJob(JobOf(writer), FALSE)
    /\ writer' = Free
    /\ UNCHANGED <<rows, index, outlier, snapshot, roomState, leaves,
                   referenced, parents, count, fed, awaited, history>>

\* Mutant: the row is numbered like a backfilled one.
PutRow_Negative ==
    /\ writer.pc = "row"
    /\ \A t \in Task : handler[t].pc # "prepend"
    /\ count' = count + 1
    /\ rows' = rows \cup {[count |-> -(count + 1), event |-> writer.event]}
    /\ writer' = [writer EXCEPT !.pc = "index", !.at = -(count + 1)]
    /\ UNCHANGED <<index, outlier, snapshot, roomState, leaves, referenced,
                   softFailed, parents, fed, handler, jobs, awaited, history>>

\* Mutant: the outlier is removed before the event can be found in the
\* timeline.
PutRow_OutlierFirst ==
    /\ writer.pc = "row"
    /\ \A t \in Task : handler[t].pc # "prepend"
    /\ count' = count + 1
    /\ rows' = rows \cup {[count |-> count + 1, event |-> writer.event]}
    /\ outlier' = outlier \ {writer.event}
    /\ writer' = [writer EXCEPT !.pc = "index", !.at = count + 1]
    /\ UNCHANGED <<index, snapshot, roomState, leaves, referenced,
                   softFailed, parents, fed, handler, jobs, awaited, history>>

\* append_pdu_json, with mutex_insert held: the row under a new number, then
\* the index.
PutRow ==
    LET row == [count |-> count + 1, event |-> writer.event]
    IN  /\ writer.pc = "row"
        /\ \A t \in Task : handler[t].pc # "prepend"
        /\ count' = count + 1
        /\ rows' = rows \cup {row}
        /\ bare' = IF writer.own \/ fed = writer.task THEN bare
                   ELSE bare \cup {row}
        /\ writer' = [writer EXCEPT !.pc = "index", !.at = count + 1]
        /\ UNCHANGED <<index, outlier, snapshot, roomState, leaves, referenced,
                       softFailed, parents, fed, handler, jobs, awaited,
                       torn, forgotten, faults>>

PutIndex ==
    /\ writer.pc = "index"
    /\ index' = [index EXCEPT ![writer.event] = writer.at]
    /\ outlier' = outlier \ {writer.event}
    /\ writer' = [writer EXCEPT !.pc = "effects"]
    /\ UNCHANGED <<rows, snapshot, roomState, leaves, referenced, softFailed,
                   parents, count, fed, handler, jobs, awaited, history>>

\* A request that made an event of its own ends: its guards are dropped, that
\* of mutex_federation too when it was a join.
Unlock ==
    /\ writer' = Free
    /\ LeaveRoom(writer.task)

\* append_pdu_effects may fail when the event is already in the timeline.
AppendEffects ==
    /\ writer.pc = "effects"
    /\ \E ok \in BOOLEAN :
        IF writer.own
        THEN /\ \/ /\ ok
                   /\ writer' = [writer EXCEPT !.pc = "state"]
                   /\ UNCHANGED fed
                \/ ~ok /\ Unlock
             /\ UNCHANGED <<handler, jobs>>
        ELSE /\ EndJob(JobOf(writer), ok)
             /\ writer' = Free
             /\ UNCHANGED fed
    /\ UNCHANGED <<database, awaited, history>>

-----------------------------------------------------------------------------
(* build_and_append_pdu *)

BuildLock(t) ==
    /\ handler[t] = Idle
    /\ writer = Free
    /\ writer' = [pc |-> "create", task |-> t]
    /\ UNCHANGED <<database, fed, handler, jobs, awaited, history>>

BuildFails ==
    /\ writer.pc = "create"
    /\ writer' = Free
    /\ UNCHANGED <<database, fed, handler, jobs, awaited, history>>

\* The first MAX_LEAVES leaves in the order of their keys.
Chosen == {s \in SUBSET leaves :
              Cardinality(s) = IF Cardinality(leaves) <= MAX_LEAVES
                               THEN Cardinality(leaves) ELSE MAX_LEAVES}

\* create_hash_and_sign_event and append_to_state: the snapshot of the event
\* is the current state.
Build(e) ==
    /\ writer.pc = "create"
    /\ ~Exists(e)
    /\ snapshot[e] = NoState
    /\ \E s \in Chosen : parents' = [parents EXCEPT ![e] = s]
    /\ snapshot' = [snapshot EXCEPT ![e] = roomState]
    /\ writer' = [pc |-> "referenced", task |-> writer.task, event |-> e,
                  own |-> TRUE, soft |-> FALSE, leaves |-> {e},
                  state |-> After(roomState, e), at |-> 0]
    /\ UNCHANGED <<rows, index, outlier, roomState, leaves, referenced,
                   softFailed, count, fed, handler, jobs, awaited, history>>

\* set_room_state; the guard is dropped.
SetRoomState ==
    /\ writer.pc = "state"
    /\ roomState' = writer.state
    /\ Unlock
    /\ UNCHANGED <<rows, index, outlier, snapshot, leaves, referenced,
                   softFailed, parents, count, handler, jobs, awaited, history>>

-----------------------------------------------------------------------------
(* join_remote: no local user is in the room, another server lets one in *)

\* make_join has been answered; now mutex_federation is waited for, with the
\* state mutex held.  join asks server_in_room first: who is in the room is
\* left out, and its users may have left before the behaviour begins, while
\* other servers still send what they had queued.
MakeJoin ==
    /\ writer.pc = "create"
    /\ writer' = [writer EXCEPT !.pc = "belay"]
    /\ UNCHANGED <<database, fed, handler, jobs, awaited, history>>

BelayEvents ==
    /\ writer.pc = "belay"
    /\ fed = NoTask
    /\ fed' = writer.task
    /\ writer' = [writer EXCEPT !.pc = "answer"]
    /\ UNCHANGED <<database, handler, jobs, awaited, history>>

\* send_join or the check of the join event against its answer fails, or the
\* state cannot be forced.
JoinFails ==
    /\ writer.pc \in {"answer", "before"}
    /\ Unlock
    /\ UNCHANGED <<database, handler, jobs, awaited, history>>

\* ingest_send_join_state stores what the answer holds as outliers, also what
\* is in the timeline; the auth chain, stored likewise, is left out.
SendJoin(e) ==
    /\ writer.pc = "answer"
    /\ ~Exists(e)
    /\ snapshot[e] = NoState
    /\ \E answer \in Joins :
        /\ parents' = [parents EXCEPT ![e] = answer.prevs]
        /\ outlier' = outlier \cup answer.state
        /\ writer' = [pc |-> "before", task |-> writer.task, event |-> e,
                      own |-> TRUE, soft |-> FALSE, leaves |-> {e},
                      state |-> answer.state, at |-> 0]
    /\ UNCHANGED <<rows, index, snapshot, roomState, leaves, referenced,
                   softFailed, count, fed, handler, jobs, awaited, history>>

\* apply_send_join_state: the state of the answer replaces that of the room.
ForceJoinState ==
    /\ writer.pc = "before"
    /\ roomState' = writer.state
    /\ writer' = [writer EXCEPT !.pc = "join"]
    /\ UNCHANGED <<rows, index, outlier, snapshot, leaves, referenced,
                   softFailed, parents, count, fed, handler, jobs,
                   awaited, history>>

\* append_to_state, then the join is appended like an event of one's own.
JoinState ==
    /\ writer.pc = "join"
    /\ snapshot' = [snapshot EXCEPT ![writer.event] = roomState]
    /\ writer' = [writer EXCEPT !.pc = "referenced",
                                !.state = After(roomState, writer.event)]
    /\ UNCHANGED <<rows, index, outlier, roomState, leaves, referenced,
                   softFailed, parents, count, fed, handler, jobs,
                   awaited, history>>

-----------------------------------------------------------------------------
(* backfill_pdu *)

\* backfill_pdu.  Nothing is done for an event of the timeline or one that
\* fails a check; otherwise handle_incoming_pdu leaves it as an outlier.
BackfillEnds(t) ==
    /\ handler[t].pc = "backfill"
    /\ Return(t)
    /\ UNCHANGED <<database, jobs, writer, awaited, history>>

\* Mutant: the event may be in the timeline.
BackfillOutlier_Placed(t) ==
    /\ handler[t].pc = "backfill"
    /\ outlier' = outlier \cup {handler[t].event}
    /\ handler' = [handler EXCEPT ![t].pc = "insert"]
    /\ UNCHANGED <<rows, index, snapshot, roomState, leaves, referenced,
                   softFailed, parents, count, fed, jobs, writer,
                   awaited, history>>

BackfillOutlier(t) ==
    /\ handler[t].pc = "backfill"
    /\ ~Placed(handler[t].event)
    /\ outlier' = outlier \cup {handler[t].event}
    /\ handler' = [handler EXCEPT ![t].pc = "insert"]
    /\ UNCHANGED <<rows, index, snapshot, roomState, leaves, referenced,
                   softFailed, parents, count, fed, jobs, writer,
                   awaited, history>>

\* prepend_backfill_pdu, with mutex_insert held: a row under a negative
\* number, then the index.
BackfillRow(t) ==
    /\ handler[t].pc = "insert"
    /\ writer.pc # "index"
    /\ LET e == handler[t].event
       IN  /\ count' = count + 1
           /\ rows' = rows \cup {[count |-> -(count + 1), event |-> e]}
           /\ handler' = [handler EXCEPT ![t] =
                 [pc |-> "prepend", event |-> e, at |-> -(count + 1)]]
    /\ UNCHANGED <<index, outlier, snapshot, roomState, leaves, referenced,
                   softFailed, parents, fed, jobs, writer, awaited, history>>

BackfillIndex(t) ==
    /\ handler[t].pc = "prepend"
    /\ index' = [index EXCEPT ![handler[t].event] = handler[t].at]
    /\ outlier' = outlier \ {handler[t].event}
    /\ Return(t)
    /\ UNCHANGED <<rows, snapshot, roomState, leaves, referenced, softFailed,
                   parents, count, jobs, writer, awaited, history>>

-----------------------------------------------------------------------------
\* A join that holds the state mutex waits for mutex_federation, whose holder
\* waits for the state mutex.
LockCycle ==
    writer.pc = "belay" /\ \E j \in jobs : j.stage = "ready" /\ j.task = fed

\* The keys of the old leaves, or of the new ones, that a rewrite of the leaves
\* had come to when it was broken off.
TornLeaves(known) ==
    /\ leaves' \in SUBSET known
    /\ forgotten' = forgotten \cup (known \ leaves')

\* client_request_timeout: the request is dropped where it awaits something, with
\* its guards and its jobs.  From the removal of the last old leaf to the new
\* ones and the mark of a soft failure, from a row to its index and from the last
\* effect to the room state there is no await.  Where the room is stuck it comes
\* for certain and is not counted.
TimeOut(t) ==
    /\ faults < MaxFault \/ LockCycle
    /\ faults' = IF LockCycle THEN faults ELSE faults + 1
    /\ handler[t] # Idle \/ Building(t)
    /\ handler[t].pc # "prepend"
    /\ \/ /\ ~Building(t)
          /\ UNCHANGED <<leaves, forgotten, writer>>
       \/ /\ Building(t)
          /\ writer.pc \notin {"clear", "put", "soft", "index", "state"}
          /\ writer' = Free
          /\ UNCHANGED <<leaves, forgotten>>
       \/ /\ Building(t)
          /\ writer.pc = "clear"
          /\ writer' = Free
          /\ TornLeaves(leaves)
    /\ jobs' = jobs \ JobsOf(t)
    /\ Return(t)
    /\ UNCHANGED <<rows, index, outlier, snapshot, roomState, referenced,
                   softFailed, parents, count, awaited, torn, bare>>

\* The process dies between two writes, inside set_forward_extremities also
\* between two keys, and starts again with what the database holds.
Crash ==
    /\ faults < MaxFault
    /\ faults' = faults + 1
    /\ \/ /\ writer.pc \notin {"clear", "put"}
          /\ UNCHANGED <<leaves, forgotten>>
       \/ writer.pc = "clear" /\ TornLeaves(leaves)
       \/ writer.pc = "put" /\ TornLeaves(writer.leaves)
    /\ torn' = torn \cup {r \in rows : index[r.event] # r.count}
    /\ awaited' = {}
    /\ fed' = NoTask
    /\ handler' = [t \in Task |-> Idle]
    /\ jobs' = {}
    /\ writer' = Free
    /\ UNCHANGED <<rows, index, outlier, snapshot, roomState, referenced,
                   softFailed, parents, count, bare>>

\* The room as it is after its first event.
Init ==
    /\ rows = {[count |-> 1, event |-> Root]}
    /\ index = [e \in Event |-> IF e = Root THEN 1 ELSE 0]
    /\ outlier = {}
    /\ snapshot = [e \in Event |-> IF e = Root THEN {} ELSE NoState]
    /\ roomState = {Root}
    /\ leaves = {Root}
    /\ referenced = {}
    /\ softFailed = {}
    /\ parents = [e \in Event |-> IF e \in Remote THEN Parents[e] ELSE {}]
    /\ count = 1
    /\ awaited = Signed
    /\ fed = NoTask
    /\ handler = [t \in Task |-> Idle]
    /\ jobs = {}
    /\ writer = Free
    /\ torn = {}
    /\ bare = {}
    /\ forgotten = {}
    /\ faults = 0

Handle(t) == \/ \E e \in Sent : ReceivePdu(t, e)
             \/ \E e \in Paged : Backfill(t, e)
             \/ \E e \in Signed : ReceiveSigned(t, e)
             \/ DropPdu(t)
             \/ AcceptOutlier(t)
             \/ SkipOldPdu(t)
             \/ \E p \in Event : FetchPrev(t, p)
             \/ HandlePrevs(t)
             \/ PrevsDone(t)
             \/ HandlerDone(t)
             \/ BackfillEnds(t)
             \/ BackfillOutlier(t)
             \/ BackfillRow(t)
             \/ BackfillIndex(t)
             \/ BuildLock(t)
             \/ TimeOut(t)

Upgrade(j) == \/ UpgradeEnds(j)
              \/ UpgradePasses(j)
              \/ LockRoom(j)

Write == \/ ForceState
         \/ SetEventState
         \/ MarkReferenced
         \/ ClearLeaves
         \/ PutLeaves
         \/ SoftFail
         \/ PutRow
         \/ PutIndex
         \/ AppendEffects
         \/ BuildFails
         \/ MakeJoin
         \/ BelayEvents
         \/ JoinFails
         \/ \E e \in Local : SendJoin(e)
         \/ ForceJoinState
         \/ JoinState
         \/ \E e \in Local : Build(e)
         \/ SetRoomState

Next == \/ \E t \in Task : Handle(t)
        \/ \E j \in jobs : Upgrade(j)
        \/ Write
        \/ Crash

Spec == Init /\ [][Next]_vars

-----------------------------------------------------------------------------
(* Properties *)

\* The tables and the tasks of the room have the shapes of the services'
\* structs.
TypeOK ==
    /\ rows \subseteq [count : Int, event : Event]
    /\ index \in [Event -> Int]
    /\ outlier \subseteq Event
    /\ snapshot \in [Event -> (SUBSET Event) \cup {NoState}]
    /\ roomState \subseteq Event
    /\ leaves \subseteq Event
    /\ referenced \subseteq Event
    /\ softFailed \subseteq Event
    /\ parents \in [Event -> SUBSET Event]
    /\ count \in Nat
    /\ awaited \subseteq Signed
    /\ fed \in Task \cup {NoTask}
    /\ handler \in [Task -> Handlers]
    /\ jobs \subseteq Jobs
    /\ writer \in Writers
    /\ torn \subseteq rows
    /\ bare \subseteq rows
    /\ forgotten \subseteq Event
    /\ faults \in Nat

\* An event has one place in the timeline: get_pdu_id is asked long before
\* the row is written and not again under the state mutex, so this rests on
\* mutex_federation, which transactions and backfill (backfill.rs, "Lock so
\* we cannot backfill the same pdu twice at the same time") both take, and on
\* the jobs of one handler; a request that timed out leaves nothing half way.
\* A row that is written a second time is one that a crash left without its
\* index, or one of the two was written without mutex_federation: for a signed
\* invite or join, or a parent of it, which may come in a transaction as well.
OnePlace ==
    \A r \in rows : \A q \in rows :
        r.event = q.event => r = q \/ {r, q} \cap (torn \cup bare) # {}

\* append_incoming_pdu and build_and_append_pdu write the state before the
\* event "so we don't have a moment in time with the pdu without it's state",
\* and the room state after it "so that we never have a moment in time where
\* events in the current room state do not exist": an event of the timeline
\* that was not backfilled has a snapshot, and the events of a snapshot and
\* of the room state exist, whatever fails or crashes in between.
StateKnown ==
    /\ \A e \in Event : index[e] > 0 => snapshot[e] # NoState
    /\ \A e \in Event : snapshot[e] # NoState =>
            \A f \in snapshot[e] : Exists(f)
    /\ \A f \in roomState : Exists(f)

\* No fork of the room is lost: an event of the timeline that no other event
\* refers to is a leaf, so that the next local event joins it in.  A soft-failed
\* event refers to its parents as well, although nobody will join it in.  The
\* exceptions are what a local event leaves out when there are more than MAX_LEAVES
\* leaves, what a join through another server replaces (the join is the only leaf
\* afterwards, whatever it refers to), and a crash or a timeout while the leaves
\* are rewritten.
NoForkLost ==
    \A e \in Event :
        index[e] > 0 =>
            \/ e \in referenced \cup leaves \cup forgotten
            \/ writer.pc = "put" /\ e \in writer.leaves

\* The room's two mutexes are never waited for in a circle.  join.rs drops the
\* state mutex before a federation fallback because "handle_incoming_pdu
\* re-acquires the same per-room state mutex while ingesting prev_events;
\* deadlock", but join_remote takes mutex_federation with the state mutex held,
\* which is the other order than that of a transaction.
NoLockCycle == ~LockCycle

=============================================================================
