------------------------- MODULE RoomTimelineProofs -------------------------
(***************************************************************************)
(* What a room keeps for every event graph, every number of requests, with *)
(* or without mutex_federation, timeouts of requests, and crashes between  *)
(* any two writes.                                                         *)
(***************************************************************************)
EXTENDS RoomTimeline, TLAPS

Known == Remote \cup {Root}

\* The writer works on an event of its own, or on none yet.
OnItsOwn == writer.pc \in {"create", "belay", "answer"} \/ writer.own

-----------------------------------------------------------------------------
(* The parts of the inductive invariant *)

\* A backfill holds mutex_federation and jobs are those of a handler; a writer
\* with an event of its own has no handler; a row and its index are written
\* under mutex_insert.
Locks ==
    /\ \A t \in Task :
          handler[t].pc \in {"backfill", "insert", "prepend"} => fed = t
    /\ \A j \in jobs : handler[j.task].pc \in {"prevs", "upgrade"}
    /\ writer # Free /\ OnItsOwn => handler[writer.task] = Idle
    /\ \A t \in Task : handler[t].pc = "prepend" => writer.pc # "index"

\* A job is told by its task and its event, and a writer for an event of
\* another server works for one.
JobFor ==
    /\ \A i, j \in jobs : i.task = j.task /\ i.event = j.event => i = j
    /\ writer # Free /\ ~OnItsOwn =>
          \E j \in jobs : /\ j.stage = "ready"
                          /\ j.task = writer.task
                          /\ j.event = writer.event
                          /\ j.state = writer.state

\* Which events a handler, a job or a writer can have.
Origins ==
    /\ \A e \in Remote : parents[e] = Parents[e]
    /\ \A t \in Task : handler[t].pc = "fetch" =>
          handler[t].stack \subseteq Known /\ handler[t].info \subseteq Remote
    /\ \A j \in jobs : j.event \in Remote
    /\ writer.pc \in Stages =>
          writer.event \in IF writer.own THEN Local ELSE Remote
    /\ writer.pc \in {"force", "snapshot", "soft"} => ~writer.own
    /\ writer.pc \in {"before", "join", "state"} => writer.own
    /\ writer.pc \in Stages /\ writer.own => ~writer.soft

\* The first event stays in the timeline, an appended event gets a positive
\* number and a backfilled one a negative number.
Numbers ==
    /\ Placed(Root)
    /\ writer.pc = "index" => writer.at > 0
    /\ writer.pc \in {"effects", "state"} => Placed(writer.event)
    /\ \A t \in Task : handler[t].pc = "prepend" => handler[t].at < 0

\* The state that a task carries exists when it is written.
Carried ==
    /\ \A t \in Task :
          /\ handler[t].pc \in {"fetch", "prevs", "upgrade"} =>
                Exists(handler[t].event)
          /\ handler[t].pc = "fetch" =>
                \A p \in handler[t].info : Exists(p)
    /\ \A j \in jobs :
          /\ Exists(j.event)
          /\ j.stage = "ready" => \A f \in j.state : Exists(f)
    /\ writer.pc \in Stages \ {"before", "join", "force", "snapshot"} =>
          snapshot[writer.event] # NoState
    /\ writer.pc \in Stages \ {"join"} =>
          \A f \in writer.state :
              Exists(f) \/ (writer.own /\ writer.pc # "before"
                                       /\ f = writer.event)

\* What the new leaves leave out is referred to.
Forks ==
    /\ writer.pc \in Stages /\ ~writer.soft => writer.event \in writer.leaves
    /\ writer.pc \in {"row", "index"} => writer.event \in leaves
    /\ writer.pc \in {"force", "snapshot", "referenced"} /\ ~writer.own =>
          leaves \subseteq writer.leaves \cup referenced
                           \cup parents[writer.event]
    /\ writer.pc = "clear" =>
          /\ parents[writer.event] \subseteq referenced
          /\ ~writer.own => leaves \subseteq writer.leaves \cup referenced
    /\ writer.pc = "put" => leaves = {}

IInv ==
    /\ TypeOK
    /\ Locks
    /\ JobFor
    /\ Origins
    /\ Numbers
    /\ Carried
    /\ StateKnown
    /\ Forks
    /\ NoForkLost

-----------------------------------------------------------------------------
(* Lemmas about types and operators *)

LEMMA HandlerFields ==
    ASSUME NEW h \in Handlers
    PROVE  /\ h.pc = "idle" => h = Idle
           /\ h.pc # "idle" => h.event \in Remote
           /\ h.pc \in {"parse", "backfill", "insert"} =>
                 h \in [pc : {"parse", "backfill", "insert"}, event : Remote]
           /\ h.pc = "prepend" =>
                 h \in [pc : {"prepend"}, event : Remote, at : Int]
           /\ h.pc = "fetch" =>
                 h \in [pc : {"fetch"}, event : Remote, stack : SUBSET Event,
                        graph : SUBSET Event, info : SUBSET Event,
                        amount : Nat]
           /\ h.pc \in {"prevs", "upgrade"} =>
                 h \in [pc : {"prevs", "upgrade"}, event : Remote,
                        failed : BOOLEAN]
BY DEF Handlers, Idle

LEMMA JobFields ==
    ASSUME NEW j \in Jobs
    PROVE  /\ j.task \in Task
           /\ j.event \in Event
           /\ j.stage \in {"todo", "ready"}
           /\ j.stage = "ready" => j.state \in SUBSET Event /\ j.soft \in BOOLEAN
BY DEF Jobs

LEMMA WriterFields ==
    ASSUME NEW w \in Writers
    PROVE  /\ w.pc = "free" => w = Free
           /\ w.pc \in Stages \cup {"free", "create", "belay", "answer"}
           /\ w # Free => w.task \in Task /\ w.pc # "free"
           /\ w.pc \in {"create", "belay", "answer"} =>
                 w \in [pc : {"create", "belay", "answer"}, task : Task]
           /\ w.pc \in Stages =>
                 w \in [pc : Stages, task : Task, event : Event,
                        own : BOOLEAN, soft : BOOLEAN, state : SUBSET Event,
                        leaves : SUBSET Event, at : Nat]
BY DEF Writers, Free, Stages

-----------------------------------------------------------------------------
(* Steps of a handler *)

\* A step of the handler of task t to h that changes no table but, perhaps,
\* the outliers.
LEMMA HandlerStep ==
    ASSUME IInv,
           NEW t \in Task, NEW h \in Handlers,
           handler' = [handler EXCEPT ![t] = h],
           outlier \subseteq outlier', outlier' \subseteq Event,
           fed' \in Task \cup {NoTask}, awaited' \subseteq awaited,
           \A s \in Task : s # t /\ fed = s => fed' = s,
           h.pc \in {"backfill", "insert", "prepend"} => fed' = t,
           h # Idle /\ writer # Free /\ OnItsOwn => writer.task # t,
           h.pc \in {"prevs", "upgrade"} \/ JobsOf(t) = {},
           h.pc # "prepend",
           h.pc = "fetch" => /\ h.stack \subseteq Known
                             /\ h.info \subseteq Remote
                             /\ \A p \in h.info : Exists(p)',
           h.pc \in {"fetch", "prevs", "upgrade"} => Exists(h.event)',
           UNCHANGED <<rows, index, snapshot, roomState, leaves, referenced,
                       softFailed, parents, count, jobs, writer, history>>
    PROVE  IInv'
<1>1. TypeOK /\ handler \in [Task -> Handlers] /\ NoTask \notin Task
      /\ jobs \subseteq Jobs
  BY RoomAssumption DEF IInv, TypeOK
<1>2. \A s \in Task : handler'[s] = IF s = t THEN h ELSE handler[s]
  BY <1>1
<1>3. TypeOK'
  BY <1>1 DEF TypeOK, history
<1>4. \A j \in jobs : j.task \in Task /\ (j.task = t => h.pc \in {"prevs", "upgrade"})
  BY <1>1, JobFields DEF JobsOf
<1>5. Locks'
  <2>1. Locks
    BY DEF IInv
  <2>2. \A s \in Task : handler'[s].pc \in {"backfill", "insert", "prepend"} =>
                           fed' = s
    BY <1>2, <2>1 DEF Locks
  <2>3. \A j \in jobs : handler'[j.task].pc \in {"prevs", "upgrade"}
    BY <1>2, <1>4, <2>1 DEF Locks
  <2>4. writer # Free /\ OnItsOwn => handler'[writer.task] = Idle
    <3>1. writer # Free => writer.task \in Task
      BY <1>1, WriterFields DEF TypeOK
    <3> QED BY <1>2, <2>1, <3>1 DEF Locks
  <2>5. \A s \in Task : handler'[s].pc = "prepend" => writer.pc # "index"
    BY <1>2, <2>1 DEF Locks
  <2> QED BY <2>2, <2>3, <2>4, <2>5 DEF Locks, OnItsOwn
<1>6. JobFor' /\ Origins'
  BY <1>2 DEF IInv, JobFor, Origins, OnItsOwn
<1>7. Numbers'
  BY <1>2 DEF IInv, Numbers, Placed
<1>9. \A e : Exists(e) => Exists(e)'
  BY DEF Exists, Placed
<1>10. Carried'
  <2>1. Carried
    BY DEF IInv
  <2>2. ASSUME NEW s \in Task
        PROVE  (/\ handler[s].pc \in {"fetch", "prevs", "upgrade"} =>
                     Exists(handler[s].event)
                /\ handler[s].pc = "fetch" =>
                     \A p \in handler[s].info : Exists(p))'
    <3>1. CASE s = t
      BY <1>2, <3>1 DEF Exists, Placed
    <3>2. CASE s # t
      BY <1>2, <2>1, <3>2 DEF Carried, Exists, Placed
    <3> QED BY <3>1, <3>2
  <2>3. \A j \in jobs :
          /\ Exists(j.event)'
          /\ j.stage = "ready" => \A f \in j.state : Exists(f)'
    BY <1>9, <2>1 DEF Carried
  <2>4. writer.pc \in Stages \ {"join"} =>
          \A f \in writer.state :
              Exists(f)' \/ (writer.own /\ writer.pc # "before"
                                       /\ f = writer.event)
    BY <1>9, <2>1 DEF Carried
  <2> QED BY <2>1, <2>2, <2>3, <2>4 DEF Carried
<1>11. StateKnown'
  BY <1>9 DEF IInv, StateKnown
<1>12. Forks' /\ NoForkLost'
  BY DEF IInv, Forks, NoForkLost, history
<1> QED BY <1>3, <1>5, <1>6, <1>7, <1>10, <1>11, <1>12 DEF IInv

\* What holds of a task whose handler is at work.
LEMMA AtWork ==
    ASSUME IInv, NEW t \in Task, handler[t].pc # "idle"
    PROVE  /\ handler[t] \in Handlers /\ handler[t] # Idle
           /\ fed \in Task \cup {NoTask}
           /\ handler[t].pc \in {"backfill", "insert", "prepend"} => fed = t
           /\ writer # Free /\ OnItsOwn => writer.task # t
           /\ handler[t].pc \notin {"prevs", "upgrade"} => JobsOf(t) = {}
<1>1. Locks /\ handler[t] \in Handlers /\ fed \in Task \cup {NoTask}
  BY DEF IInv, TypeOK
<1>2. handler[t] # Idle
  BY DEF Idle
<1>3. writer # Free /\ OnItsOwn => writer.task # t
  BY <1>1, <1>2 DEF Locks
<1>4. handler[t].pc \notin {"prevs", "upgrade"} => JobsOf(t) = {}
  BY <1>1 DEF Locks, JobsOf
<1> QED BY <1>1, <1>2, <1>3, <1>4 DEF Locks

\* The handler of t returns.
LEMMA ReturnStep ==
    ASSUME IInv, NEW t \in Task, JobsOf(t) = {}, Return(t),
           UNCHANGED <<database, jobs, writer, awaited, history>>
    PROVE  IInv'
<1>1. Idle \in Handlers /\ Idle.pc = "idle"
  BY DEF Handlers, Idle
<1>2. /\ fed' \in Task \cup {NoTask} /\ outlier \subseteq Event
      /\ \A s \in Task : s # t /\ fed = s => fed' = s
  BY DEF IInv, TypeOK, Return, LeaveRoom
<1> QED BY <1>1, <1>2, HandlerStep DEF Return, database

LEMMA TakeRoomKeeps ==
    ASSUME IInv, NEW t \in Task, NEW e \in Remote, NEW pc \in {"parse", "backfill"},
           TakeRoom(t, e, pc)
    PROVE  IInv'
<1> DEFINE h == [pc |-> pc, event |-> e]
<1>1. h \in Handlers /\ h # Idle /\ h.pc = pc
  BY DEF Handlers, Idle
<1>2. handler[t] = Idle /\ fed = NoTask /\ fed' = t
      /\ handler' = [handler EXCEPT ![t] = h] /\ outlier \subseteq Event
      /\ handler[t].pc = "idle"
  BY DEF TakeRoom, IInv, TypeOK, Idle
<1>3. JobsOf(t) = {}
  BY <1>2 DEF IInv, Locks, JobsOf
<1>4. writer # Free => writer.task # t
  BY DEF TakeRoom, Building
<1>5. /\ fed' \in Task \cup {NoTask}
      /\ \A s \in Task : s # t /\ fed = s => fed' = s
  BY <1>2, RoomAssumption
<1> QED BY <1>1, <1>2, <1>3, <1>4, <1>5, HandlerStep DEF TakeRoom, database

LEMMA ReceiveSignedKeeps ==
    ASSUME IInv, NEW t \in Task, NEW e \in Remote, ReceiveSigned(t, e)
    PROVE  IInv'
<1> DEFINE h == [pc |-> "parse", event |-> e]
<1>1. h \in Handlers /\ h # Idle /\ h.pc = "parse"
  BY DEF Handlers, Idle
<1>2. handler[t] = Idle /\ fed' = fed /\ fed \in Task \cup {NoTask}
      /\ handler' = [handler EXCEPT ![t] = h] /\ outlier \subseteq Event
      /\ handler[t].pc = "idle" /\ awaited' \subseteq awaited
  BY DEF ReceiveSigned, IInv, TypeOK, Idle
<1>3. JobsOf(t) = {}
  BY <1>2 DEF IInv, Locks, JobsOf
<1>4. writer # Free => writer.task # t
  BY DEF ReceiveSigned, Building
<1> QED BY <1>1, <1>2, <1>3, <1>4, HandlerStep DEF ReceiveSigned, database

LEMMA DropKeeps ==
    ASSUME IInv, NEW t \in Task,
           DropPdu(t) \/ SkipOldPdu(t) \/ BackfillEnds(t)
    PROVE  IInv'
<1>1. /\ handler[t].pc \in {"parse", "fetch", "backfill"}
      /\ Return(t) /\ UNCHANGED <<database, jobs, writer, awaited, history>>
  BY DEF DropPdu, SkipOldPdu, BackfillEnds
<1>2. JobsOf(t) = {}
  BY <1>1, AtWork
<1> QED BY <1>1, <1>2, ReturnStep

LEMMA HandlerDoneKeeps ==
    ASSUME IInv, NEW t \in Task, HandlerDone(t) PROVE IInv'
BY ReturnStep DEF HandlerDone

LEMMA AcceptKeeps ==
    ASSUME IInv, NEW t \in Task, AcceptOutlier(t) PROVE IInv'
<1>1. handler[t].pc = "parse" /\ handler[t] \in Handlers
  BY DEF AcceptOutlier, IInv, TypeOK
<1>2. PICK e \in Remote : e = handler[t].event
  BY <1>1, HandlerFields
<1>3. parents[e] \subseteq Known
  BY <1>2, RoomAssumption DEF IInv, Origins, Known
<1>4. PICK h : h = [pc |-> "fetch", event |-> e, graph |-> {}, info |-> {},
                    stack |-> {p \in parents[e] : ~Placed(p)}, amount |-> 0]
  OBVIOUS
<1>5. /\ outlier' = outlier \cup {e}
      /\ handler' = [handler EXCEPT ![t] = h]
      /\ fed' = fed /\ awaited' = awaited
  BY <1>2, <1>4 DEF AcceptOutlier
<1>6. outlier' \subseteq Event /\ Known \subseteq Event
  BY <1>2, <1>5 DEF IInv, TypeOK, Event, Known
<1>7. h \in Handlers /\ h # Idle /\ h.pc = "fetch" /\ h.event = e
      /\ h.stack \subseteq Known /\ h.info = {}
  BY <1>2, <1>3, <1>4, <1>6 DEF Handlers, Idle
<1>8. Exists(h.event)'
  BY <1>5, <1>7 DEF Exists
<1> QED BY <1>1, <1>5, <1>6, <1>7, <1>8, AtWork, HandlerStep
        DEF AcceptOutlier

\* What a round of fetch_prev leaves its handler with.
LEMMA FetchStep ==
    ASSUME IInv, NEW t \in Task, NEW p \in Event, FetchPrev(t, p)
    PROVE  /\ outlier \subseteq outlier' /\ outlier' \subseteq Event
           /\ \E h \in Handlers :
                 /\ handler' = [handler EXCEPT ![t] = h]
                 /\ h # Idle /\ h.pc = "fetch"
                 /\ h.stack \subseteq Known /\ h.info \subseteq Remote
                 /\ Exists(h.event)' /\ \A q \in h.info : Exists(q)'
<1>1. handler[t].pc = "fetch" /\ handler[t] \in Handlers
      /\ p \in handler[t].stack
  BY DEF FetchPrev, IInv, TypeOK
<1>2. PICK g \in [pc : {"fetch"}, event : Remote, stack : SUBSET Event,
                  graph : SUBSET Event, info : SUBSET Event, amount : Nat] :
           g = handler[t]
  BY <1>1, HandlerFields
<1>3. /\ g.stack \subseteq Known /\ g.info \subseteq Remote
      /\ Exists(g.event) /\ \A q \in g.info : Exists(q)
  BY <1>1, <1>2 DEF IInv, Origins, Carried
<1>4. /\ p \in Known
      /\ ~Placed(p) => p \in Remote /\ parents[p] \subseteq Known
  BY <1>1, <1>2, <1>3, RoomAssumption DEF IInv, Origins, Known, Numbers
<1>5. PICK found \in BOOLEAN, informed \in BOOLEAN, follow \in BOOLEAN :
        /\ informed => found /\ ~Placed(p)
        /\ follow => informed
        /\ outlier' = IF found /\ ~Exists(p) THEN outlier \cup {p} ELSE outlier
        /\ handler' = [handler EXCEPT ![t] =
             [g EXCEPT !.graph = g.graph \cup {p},
                       !.info = IF informed THEN @ \cup {p} ELSE @,
                       !.amount = IF follow THEN @ + 1 ELSE @,
                       !.stack = (@ \ {p}) \cup
                           (IF follow THEN parents[p] \ (g.graph \cup {p})
                                      ELSE {})]]
  <2> DEFINE On(found) == found /\ g.amount <= MAX_FETCH /\ ~Placed(p)
  <2>1. PICK found \in {Exists(p), Exists(p) \/ p \in Remote} :
          /\ outlier' = IF found /\ ~Exists(p) THEN outlier \cup {p}
                                               ELSE outlier
          /\ \E follow \in {On(found), FALSE} :
              handler' = [handler EXCEPT ![t] =
                [g EXCEPT !.graph = g.graph \cup {p},
                          !.info = IF On(found) THEN @ \cup {p} ELSE @,
                          !.amount = IF follow THEN @ + 1 ELSE @,
                          !.stack = (@ \ {p}) \cup
                              (IF follow THEN parents[p] \ (g.graph \cup {p})
                                         ELSE {})]]
    BY <1>2, Zenon DEF FetchPrev
  <2>2. PICK informed : informed = On(found)
    OBVIOUS
  <2>3. PICK follow \in {informed, FALSE} :
          handler' = [handler EXCEPT ![t] =
             [g EXCEPT !.graph = g.graph \cup {p},
                       !.info = IF informed THEN @ \cup {p} ELSE @,
                       !.amount = IF follow THEN @ + 1 ELSE @,
                       !.stack = (@ \ {p}) \cup
                           (IF follow THEN parents[p] \ (g.graph \cup {p})
                                      ELSE {})]]
    BY <2>1, <2>2, Zenon
  <2>4. found \in BOOLEAN
    BY <2>1 DEF Exists, Placed
  <2>5. informed \in BOOLEAN /\ (informed => found /\ ~Placed(p))
    BY <2>2, <2>4
  <2>6. follow \in BOOLEAN /\ (follow => informed)
    <3>1. CASE follow = informed
      BY <2>5, <3>1
    <3>2. CASE follow = FALSE
      BY <3>2
    <3> QED BY <3>1, <3>2, Zenon
  <2> QED BY <2>1, <2>3, <2>4, <2>5, <2>6
<1>6. Known \subseteq Event
  BY DEF Known, Event
<1>7. PICK i \in SUBSET Event, a \in Nat, s \in SUBSET Event :
        /\ i = IF informed THEN g.info \cup {p} ELSE g.info
        /\ a = IF follow THEN g.amount + 1 ELSE g.amount
        /\ s = (g.stack \ {p}) \cup
               (IF follow THEN parents[p] \ (g.graph \cup {p}) ELSE {})
  <2>1. (IF informed THEN g.info \cup {p} ELSE g.info) \in SUBSET Event
    BY <1>2
  <2>2. (IF follow THEN g.amount + 1 ELSE g.amount) \in Nat
    <3>1. CASE follow
      BY <1>2, <3>1
    <3>2. CASE ~follow
      BY <1>2, <3>2
    <3> QED BY <3>1, <3>2
  <2>3. ((g.stack \ {p}) \cup
         (IF follow THEN parents[p] \ (g.graph \cup {p}) ELSE {})) \in SUBSET Event
    <3>1. CASE follow
      BY <1>2, <1>4, <1>5, <1>6, <3>1
    <3>2. CASE ~follow
      BY <1>2, <3>2
    <3> QED BY <3>1, <3>2
  <2> QED BY <2>1, <2>2, <2>3
<1>8. PICK h : h = [g EXCEPT !.graph = g.graph \cup {p}, !.info = i,
                             !.amount = a, !.stack = s]
  OBVIOUS
<1>14. /\ h.pc = "fetch" /\ h.event = g.event
       /\ h.stack = s /\ h.info = i
       /\ h \in [pc : {"fetch"}, event : Remote, stack : SUBSET Event,
                 graph : SUBSET Event, info : SUBSET Event, amount : Nat]
  BY <1>2, <1>7, <1>8
<1>15. s \subseteq Known
  <2>1. CASE follow
    BY <1>3, <1>4, <1>5, <1>7, <2>1
  <2>2. CASE ~follow
    BY <1>3, <1>7, <2>2
  <2> QED BY <2>1, <2>2
<1>16. i \subseteq Remote /\ \A q \in i : q \in g.info \/ (informed /\ q = p)
  <2>1. CASE informed
    BY <1>3, <1>4, <1>5, <1>7, <2>1
  <2>2. CASE ~informed
    BY <1>3, <1>7, <2>2
  <2> QED BY <2>1, <2>2
<1>9. h \in Handlers /\ h # Idle
  BY <1>14 DEF Handlers, Idle
<1>10. UNCHANGED <<rows, index, snapshot, roomState, leaves, referenced,
                   softFailed, parents, count, fed, jobs, writer, awaited, history>>
  BY DEF FetchPrev
<1>11. outlier \subseteq outlier' /\ outlier' \subseteq Event
       /\ (informed => Exists(p)')
  BY <1>5, <1>10 DEF IInv, TypeOK, Exists, Placed
<1>12. Exists(h.event)' /\ \A q \in h.info : Exists(q)'
  BY <1>3, <1>14, <1>16, <1>10, <1>11 DEF Exists, Placed
<1>13. handler' = [handler EXCEPT ![t] = h]
  BY <1>5, <1>7, <1>8, Zenon
<1> QED BY <1>14, <1>15, <1>16, <1>9, <1>11, <1>12, <1>13

LEMMA FetchKeeps ==
    ASSUME IInv, NEW t \in Task, NEW p \in Event, FetchPrev(t, p) PROVE IInv'
<1>1. outlier \subseteq outlier' /\ outlier' \subseteq Event
  BY FetchStep
<1>2. PICK h \in Handlers :
         /\ handler' = [handler EXCEPT ![t] = h]
         /\ h # Idle /\ h.pc = "fetch"
         /\ h.stack \subseteq Known /\ h.info \subseteq Remote
         /\ Exists(h.event)' /\ \A q \in h.info : Exists(q)'
  BY FetchStep
<1>3. handler[t].pc = "fetch"
      /\ UNCHANGED <<rows, index, snapshot, roomState, leaves, referenced,
                   softFailed, parents, count, fed, jobs, writer, awaited, history>>
  BY DEF FetchPrev
<1> QED BY <1>1, <1>2, <1>3, AtWork, HandlerStep

LEMMA BackfillOutlierKeeps ==
    ASSUME IInv, NEW t \in Task, BackfillOutlier(t) PROVE IInv'
<1>1. handler[t].pc = "backfill" /\ handler[t] \in Handlers
  BY DEF BackfillOutlier, IInv, TypeOK
<1>2. PICK g \in [pc : {"parse", "backfill", "insert"}, event : Remote] :
           g = handler[t]
  BY <1>1, HandlerFields
<1>3. PICK h : h = [g EXCEPT !.pc = "insert"]
  OBVIOUS
<1>4. h \in [pc : {"parse", "backfill", "insert"}, event : Remote]
      /\ h.pc = "insert" /\ h.event = g.event
  BY <1>2, <1>3
<1>5. h \in Handlers /\ h # Idle
  BY <1>4 DEF Handlers, Idle
<1>6. /\ handler' = [handler EXCEPT ![t] = h]
      /\ outlier' = outlier \cup {g.event} /\ awaited' = awaited
      /\ fed' = fed
  BY <1>2, <1>3 DEF BackfillOutlier
<1>7. outlier' \subseteq Event
  BY <1>2, <1>6 DEF IInv, TypeOK, Event
<1>8. fed = t /\ JobsOf(t) = {} /\ (writer # Free /\ OnItsOwn => writer.task # t)
  BY <1>1, AtWork
<1> QED BY <1>4, <1>5, <1>6, <1>7, <1>8, HandlerStep DEF BackfillOutlier

-----------------------------------------------------------------------------
(* Jobs begin and end *)

\* The handler of t starts an upgrade of every event of go.
LEMMA StartJobs ==
    ASSUME IInv, NEW t \in Task, NEW h \in Handlers, NEW go \in SUBSET Remote,
           handler[t].pc \in {"fetch", "prevs"}, JobsOf(t) = {},
           h.pc \in {"prevs", "upgrade"},
           handler' = [handler EXCEPT ![t] = h],
           jobs' = jobs \cup
               {[task |-> t, event |-> p, stage |-> "todo"] : p \in go},
           Exists(h.event), \A p \in go : Exists(p),
           UNCHANGED <<database, fed, writer, awaited, history>>
    PROVE  IInv'
<1>1. TypeOK /\ handler \in [Task -> Handlers]
  BY DEF IInv, TypeOK
<1>2. \A s \in Task : handler'[s] = IF s = t THEN h ELSE handler[s]
  BY <1>1
<1>3. (writer # Free /\ OnItsOwn => writer.task # t) /\ h # Idle
  BY AtWork DEF Idle
<1>4. \A j \in jobs : j.task # t
  BY DEF JobsOf
<1>5. \A j \in jobs' : \/ j \in jobs
                       \/ /\ j.task = t /\ j.event \in go /\ j.stage = "todo"
                          /\ j \in Jobs
  <2>1. go \subseteq Event
    BY DEF Event
  <2> QED BY <2>1 DEF Jobs
<1>6. \A i, j \in jobs' : i.task = t /\ j.task = t /\ i.event = j.event => i = j
  BY <1>4
<1>9. \A e : Exists(e)' <=> Exists(e)
  BY DEF Exists, Placed, database
<1>10. TypeOK'
  BY <1>1, <1>5 DEF TypeOK, history, database
<1>11. Locks'
  <2>1. Locks
    BY DEF IInv
  <2>2. writer # Free => writer.task \in Task
    BY <1>1, WriterFields DEF TypeOK
  <2>3. \A j \in jobs : j.task \in Task
    BY <1>1, JobFields DEF TypeOK
  <2> QED BY <1>2, <1>3, <1>5, <2>1, <2>2, <2>3 DEF Locks, OnItsOwn
<1>12. JobFor'
  <2>1. JobFor
    BY DEF IInv
  <2>2. \A i, j \in jobs' : i.task = j.task /\ i.event = j.event => i = j
    BY <1>4, <1>5, <1>6, <2>1 DEF JobFor
  <2> QED BY <2>1, <2>2 DEF JobFor, OnItsOwn
<1>13. Origins'
  BY <1>2, <1>5 DEF IInv, Origins, database
<1>14. Numbers'
  BY <1>2 DEF IInv, Numbers, Placed, database
<1>16. Carried'
  <2>1. Carried
    BY DEF IInv
  <2>2. ASSUME NEW s \in Task
        PROVE  (/\ handler[s].pc \in {"fetch", "prevs", "upgrade"} =>
                     Exists(handler[s].event)
                /\ handler[s].pc = "fetch" =>
                     \A p \in handler[s].info : Exists(p))'
    <3>1. CASE s = t
      BY <1>2, <3>1 DEF Exists, Placed, database
    <3>2. CASE s # t
      BY <1>2, <2>1, <3>2 DEF Carried, Exists, Placed, database
    <3> QED BY <3>1, <3>2
  <2>3. \A j \in jobs' :
          /\ Exists(j.event)'
          /\ j.stage = "ready" => \A f \in j.state : Exists(f)'
    BY <1>5, <1>9, <2>1 DEF Carried
  <2>4. writer.pc \in Stages \ {"join"} =>
          \A f \in writer.state :
              Exists(f)' \/ (writer.own /\ writer.pc # "before"
                                       /\ f = writer.event)
    BY <1>9, <2>1 DEF Carried
  <2> QED BY <2>1, <2>2, <2>3, <2>4 DEF Carried, database
<1>17. StateKnown'
  BY <1>9 DEF IInv, StateKnown, database
<1>18. Forks' /\ NoForkLost'
  BY DEF IInv, Forks, NoForkLost, history, database
<1> QED BY <1>10, <1>11, <1>12, <1>13, <1>14, <1>16, <1>17, <1>18 DEF IInv

LEMMA HandlePrevsKeeps ==
    ASSUME IInv, NEW t \in Task, HandlePrevs(t) PROVE IInv'
<1>1. handler[t].pc = "fetch" /\ handler[t] \in Handlers
  BY DEF HandlePrevs, IInv, TypeOK
<1>2. PICK g \in Handlers : g = handler[t]
  BY <1>1
<1>3. g.event \in Remote /\ g.info \subseteq Remote /\ Exists(g.event)
      /\ \A p \in g.info : Exists(p)
  BY <1>1, <1>2, HandlerFields DEF IInv, Origins, Carried
<1>4. PICK h : h = [pc |-> "prevs", event |-> g.event, failed |-> FALSE]
  OBVIOUS
<1>5. h \in Handlers /\ h.pc = "prevs" /\ h.event = g.event
  BY <1>3, <1>4 DEF Handlers
<1>6. PICK go \in SUBSET g.info :
        /\ handler' = [handler EXCEPT ![t] = h]
        /\ jobs' = jobs \cup
             {[task |-> t, event |-> p, stage |-> "todo"] : p \in go}
  BY <1>2, <1>4 DEF HandlePrevs
<1>7. JobsOf(t) = {}
  BY <1>1, AtWork
<1> QED BY <1>1, <1>3, <1>5, <1>6, <1>7, StartJobs DEF HandlePrevs

LEMMA PrevsDoneKeeps ==
    ASSUME IInv, NEW t \in Task, PrevsDone(t) PROVE IInv'
<1>1. handler[t].pc = "prevs" /\ handler[t] \in Handlers /\ JobsOf(t) = {}
      /\ UNCHANGED <<database, writer, awaited, history>>
  BY DEF PrevsDone, IInv, TypeOK
<1>2. CASE Return(t) /\ UNCHANGED jobs
  BY <1>1, <1>2, ReturnStep
<1>3. CASE /\ handler' = [handler EXCEPT ![t].pc = "upgrade"]
           /\ jobs' = jobs \cup {[task |-> t, event |-> handler[t].event,
                                  stage |-> "todo"]}
           /\ UNCHANGED fed
  <2>1. PICK g \in [pc : {"prevs", "upgrade"}, event : Remote,
                    failed : BOOLEAN] : g = handler[t]
    BY <1>1, HandlerFields
  <2>2. Exists(g.event)
    BY <1>1, <2>1 DEF IInv, Carried
  <2>3. PICK h : h = [g EXCEPT !.pc = "upgrade"]
    OBVIOUS
  <2>4. h \in [pc : {"prevs", "upgrade"}, event : Remote, failed : BOOLEAN]
        /\ h.pc = "upgrade" /\ h.event = g.event
    BY <2>1, <2>3
  <2>5. h \in Handlers
    BY <2>4 DEF Handlers
  <2>6. handler' = [handler EXCEPT ![t] = h]
    BY <1>3, <2>1, <2>3
  <2>7. PICK go \in SUBSET Remote : go = {g.event}
    BY <2>1
  <2>8. jobs' = jobs \cup
             {[task |-> t, event |-> p, stage |-> "todo"] : p \in go}
    <3>1. {[task |-> t, event |-> p, stage |-> "todo"] : p \in go}
            = {[task |-> t, event |-> g.event, stage |-> "todo"]}
      BY <2>7
    <3> QED BY <1>3, <2>1, <3>1, Zenon
  <2>9. (\A p \in go : Exists(p)) /\ Exists(h.event)
        /\ UNCHANGED <<database, fed, writer, awaited, history>>
    BY <1>1, <1>3, <2>2, <2>4, <2>7
  <2> QED BY <1>1, <2>4, <2>5, <2>6, <2>7, <2>8, <2>9, StartJobs
<1> QED BY <1>2, <1>3 DEF PrevsDone

\* The job j ends: it has not reached the state mutex, or it is the one that
\* the writer works for.
LEMMA EndJobStep ==
    ASSUME IInv, NEW j \in jobs, NEW ok \in BOOLEAN, EndJob(j, ok),
           \/ j.stage = "todo" /\ writer' = writer
           \/ /\ writer # Free /\ ~OnItsOwn /\ writer' = Free
              /\ writer.pc \in {"force", "soft", "effects"}
              /\ j.task = writer.task /\ j.event = writer.event,
           softFailed' \subseteq Event,
           UNCHANGED <<rows, index, outlier, snapshot, roomState, leaves,
                       referenced, parents, count, fed, awaited, history>>
    PROVE  IInv'
<1>1. TypeOK /\ handler \in [Task -> Handlers] /\ jobs \subseteq Jobs
  BY DEF IInv, TypeOK
<1>2. PICK t \in Task : t = j.task
  BY <1>1, JobFields
<1>3. handler[t].pc \in {"prevs", "upgrade"}
  BY <1>2 DEF IInv, Locks
<1>4. PICK g \in [pc : {"prevs", "upgrade"}, event : Remote,
                  failed : BOOLEAN] : g = handler[t]
  BY <1>1, <1>3, HandlerFields
<1>5. PICK h : h = [g EXCEPT !.failed = @ \/ ~ok]
  OBVIOUS
<1>6. h \in [pc : {"prevs", "upgrade"}, event : Remote, failed : BOOLEAN]
      /\ h.pc = g.pc /\ h.event = g.event
  BY <1>4, <1>5
<1>7. h \in Handlers /\ h # Idle
  BY <1>6 DEF Handlers, Idle
<1>8. handler' = [handler EXCEPT ![t] = h] /\ jobs' = jobs \ {j}
  BY <1>2, <1>4, <1>5 DEF EndJob
<1>9. \A s \in Task : handler'[s] = IF s = t THEN h ELSE handler[s]
  BY <1>1, <1>8
<1>10. writer # Free /\ OnItsOwn => writer.task # t
  BY <1>3, AtWork
<1>11. Free \in Writers /\ Free.pc = "free"
  BY DEF Writers, Free
<1>12. \A e : Exists(e)' <=> Exists(e)
  BY DEF Exists, Placed
<1>13. TypeOK'
  BY <1>1, <1>7, <1>8, <1>11 DEF TypeOK, history
<1>14. Locks'
  <2>1. Locks
    BY DEF IInv
  <2>2. writer # Free => writer.task \in Task
    BY <1>1, WriterFields DEF TypeOK
  <2>3. \A i \in jobs : i.task \in Task
    BY <1>1, JobFields
  <2> QED BY <1>3, <1>4, <1>6, <1>8, <1>9, <1>10, <1>11, <2>1, <2>2, <2>3
          DEF Locks, OnItsOwn
<1>15. JobFor'
  BY <1>8 DEF IInv, JobFor, OnItsOwn
<1>16. Origins'
  BY <1>6, <1>4, <1>8, <1>9, <1>11 DEF IInv, Origins, Stages
<1>17. Numbers'
  BY <1>4, <1>6, <1>9, <1>11 DEF IInv, Numbers, Placed
<1>19. Carried'
  <2>1. Carried
    BY DEF IInv
  <2>2. ASSUME NEW s \in Task
        PROVE  (/\ handler[s].pc \in {"fetch", "prevs", "upgrade"} =>
                     Exists(handler[s].event)
                /\ handler[s].pc = "fetch" =>
                     \A p \in handler[s].info : Exists(p))'
    <3>1. CASE s = t
      BY <1>3, <1>4, <1>6, <1>9, <2>1, <3>1 DEF Carried, Exists, Placed
    <3>2. CASE s # t
      BY <1>9, <2>1, <3>2 DEF Carried, Exists, Placed
    <3> QED BY <3>1, <3>2
  <2>3. \A i \in jobs' :
          /\ Exists(i.event)'
          /\ i.stage = "ready" => \A f \in i.state : Exists(f)'
    BY <1>8, <1>12, <2>1 DEF Carried
  <2>4. writer'.pc \in Stages \ {"join"} =>
          \A f \in writer'.state :
              Exists(f)' \/ (writer'.own /\ writer'.pc # "before"
                                         /\ f = writer'.event)
    BY <1>11, <1>12, <2>1 DEF Carried, Stages
  <2> QED BY <1>11, <2>1, <2>2, <2>3, <2>4 DEF Carried, Stages
<1>20. StateKnown'
  BY <1>12 DEF IInv, StateKnown
<1>21. Forks' /\ NoForkLost'
  BY <1>11 DEF IInv, Forks, NoForkLost, history, Stages
<1> QED BY <1>13, <1>14, <1>15, <1>16, <1>17, <1>19, <1>20, <1>21
        DEF IInv

\* The job that the writer works for.
LEMMA WritersJob ==
    ASSUME IInv, writer # Free, ~OnItsOwn
    PROVE  /\ JobOf(writer) \in jobs
           /\ JobOf(writer).task = writer.task
           /\ JobOf(writer).event = writer.event
BY DEF IInv, JobFor, JobOf

LEMMA UpgradeEndsKeeps ==
    ASSUME IInv, NEW j \in jobs, UpgradeEnds(j) PROVE IInv'
<1>1. PICK ok \in {Placed(j.event), FALSE} : EndJob(j, ok)
  BY DEF UpgradeEnds
<1>2. ok \in BOOLEAN
  BY <1>1 DEF Placed
<1>3. softFailed' \subseteq Event
  BY DEF UpgradeEnds, database, IInv, TypeOK
<1> QED BY <1>1, <1>2, <1>3, EndJobStep DEF UpgradeEnds, database

\* What resolution returns is taken from its input and from what is stored.
LEMMA ResolutionsFrom ==
    ASSUME NEW forks, NEW r \in Resolutions(forks)
    PROVE  r \subseteq (UNION forks) \cup {f \in Event : Exists(f)}
BY DEF Resolutions, StoredState

LEMMA AfterFrom ==
    ASSUME NEW s, NEW e PROVE After(s, e) \subseteq s \cup {e}
BY DEF After

\* The states that an upgrade can find consist of events.
LEMMA StatesAreEvents ==
    ASSUME IInv, NEW e \in Remote, NEW s \in LocalStates(e) \cup RemoteStates(e)
    PROVE  s \subseteq Event
<1>1. parents[e] \subseteq Event /\ snapshot \in [Event -> (SUBSET Event) \cup {NoState}]
  BY DEF IInv, TypeOK, Event
<1>2. CASE s \in RemoteStates(e)
  <2>1. s \in Answers[e]
    BY <1>2 DEF RemoteStates
  <2> QED BY <2>1, RoomAssumption DEF Event
<1>3. CASE s \in LocalStates(e)
  <2>1. /\ \A p \in parents[e] : snapshot[p] # NoState
        /\ \E Q \in OnePerState(parents[e]) :
              s \in Resolutions({After(snapshot[p], p) : p \in Q})
    BY <1>3 DEF LocalStates
  <2>4. PICK Q \in SUBSET parents[e] :
           s \in Resolutions({After(snapshot[p], p) : p \in Q})
    BY <2>1 DEF OnePerState
  <2>2. s \subseteq (UNION {After(snapshot[p], p) : p \in Q}) \cup Event
    BY <2>4, ResolutionsFrom
  <2>3. \A p \in parents[e] : After(snapshot[p], p) \subseteq Event
    <3> SUFFICES ASSUME NEW p \in parents[e]
                 PROVE  After(snapshot[p], p) \subseteq Event
      OBVIOUS
    <3>1. p \in Event /\ snapshot[p] \subseteq Event
      BY <1>1, <2>1
    <3> QED BY <3>1, AfterFrom
  <2>5. UNION {After(snapshot[p], p) : p \in Q} \subseteq Event
    BY <2>3, <2>4, Zenon
  <2> QED BY <2>2, <2>5, Zenon
<1> QED BY <1>2, <1>3

LEMMA UpgradePassesKeeps ==
    ASSUME IInv, NEW j \in jobs, UpgradePasses(j) PROVE IInv'
<1>1. TypeOK /\ handler \in [Task -> Handlers] /\ jobs \subseteq Jobs
  BY DEF IInv, TypeOK
<1>2. j.task \in Task /\ j.event \in Remote /\ j.event \in Event
  BY <1>1, JobFields DEF IInv, Origins, Event
<1>3. PICK s \in LocalStates(j.event) \cup RemoteStates(j.event),
           soft \in BOOLEAN :
        /\ jobs' = (jobs \ {j}) \cup
             {[task |-> j.task, event |-> j.event, stage |-> "ready",
               state |-> s, soft |-> soft]}
        /\ outlier' = outlier \cup {f \in s : ~Exists(f)}
  BY DEF UpgradePasses
<1>4. s \subseteq Event
  BY <1>2, StatesAreEvents
<1>5. PICK n : n = [task |-> j.task, event |-> j.event, stage |-> "ready",
                    state |-> s, soft |-> soft]
  OBVIOUS
<1>6. /\ jobs' = (jobs \ {j}) \cup {n} /\ n \in Jobs
      /\ n.task = j.task /\ n.event = j.event /\ n.stage = "ready"
      /\ n.state = s
  BY <1>1, <1>2, <1>3, <1>4, <1>5 DEF Jobs
<1>7. /\ j.stage = "todo" /\ ~Placed(j.event)
      /\ UNCHANGED <<rows, index, snapshot, roomState, leaves, referenced,
                     softFailed, parents, count, fed, handler, writer,
                     awaited, history>>
  BY DEF UpgradePasses
<1>8. \A e : Exists(e) => Exists(e)'
  BY <1>3, <1>7 DEF Exists, Placed
<1>9. \A f \in s : Exists(f)'
  BY <1>3, <1>7 DEF Exists, Placed
<1>10. TypeOK'
  <2>1. outlier' \subseteq Event /\ jobs' \subseteq Jobs
    BY <1>1, <1>3, <1>4, <1>6 DEF TypeOK
  <2> QED BY <1>1, <1>7, <2>1 DEF TypeOK, history
<1>11. Locks'
  BY <1>6, <1>7 DEF IInv, Locks, OnItsOwn
<1>12. JobFor'
  <2>1. JobFor
    BY DEF IInv
  <2>2. \A i, k \in jobs' : i.task = k.task /\ i.event = k.event => i = k
    BY <1>6, <2>1 DEF JobFor
  <2>3. writer # Free /\ ~OnItsOwn =>
          \E i \in jobs' : /\ i.stage = "ready"
                           /\ i.task = writer.task
                           /\ i.event = writer.event
                           /\ i.state = writer.state
    BY <1>6, <1>7, <2>1 DEF JobFor
  <2> QED BY <1>7, <2>2, <2>3 DEF JobFor, OnItsOwn
<1>13. Origins'
  BY <1>2, <1>6, <1>7 DEF IInv, Origins
<1>14. Numbers'
  BY <1>7 DEF IInv, Numbers, Placed
<1>16. Carried'
  <2>1. Carried
    BY DEF IInv
  <2>2. ASSUME NEW u \in Task
        PROVE  (/\ handler[u].pc \in {"fetch", "prevs", "upgrade"} =>
                     Exists(handler[u].event)
                /\ handler[u].pc = "fetch" =>
                     \A p \in handler[u].info : Exists(p))'
    BY <1>3, <1>7, <2>1 DEF Carried, Exists, Placed
  <2>3. \A i \in jobs' :
          /\ Exists(i.event)'
          /\ i.stage = "ready" => \A f \in i.state : Exists(f)'
    BY <1>6, <1>8, <1>9, <2>1 DEF Carried
  <2>4. writer.pc \in Stages \ {"join"} =>
          \A f \in writer.state :
              Exists(f)' \/ (writer.own /\ writer.pc # "before"
                                       /\ f = writer.event)
    BY <1>8, <2>1 DEF Carried
  <2> QED BY <1>7, <2>1, <2>2, <2>3, <2>4 DEF Carried
<1>17. StateKnown'
  BY <1>7, <1>8 DEF IInv, StateKnown
<1>18. Forks' /\ NoForkLost'
  BY <1>7 DEF IInv, Forks, NoForkLost, history
<1> QED BY <1>10, <1>11, <1>12, <1>13, <1>14, <1>16, <1>17, <1>18
        DEF IInv

-----------------------------------------------------------------------------
(* Steps of the writer *)

\* A step of the writer to w that places no event in the timeline: it keeps
\* the invariant when w, the snapshots, the room state and the leaves do.
LEMMA WriterStep ==
    ASSUME IInv, NEW w \in Writers, writer' = w,
           UNCHANGED <<rows, index, count, softFailed, handler, jobs, awaited,
                       torn, bare, faults>>,
           w.pc \notin {"index", "effects"},
           snapshot' \in [Event -> (SUBSET Event) \cup {NoState}],
           parents' \in [Event -> SUBSET Event],
           roomState' \subseteq Event, leaves' \subseteq Event,
           referenced' \subseteq Event, forgotten' \subseteq Event,
           outlier \subseteq outlier', outlier' \subseteq Event,
           fed' \in Task \cup {NoTask},
           \A t \in Task :
              handler[t].pc \in {"backfill", "insert", "prepend"} => fed' = t,
           \A e \in Remote : parents'[e] = parents[e],
           w # Free =>
              IF w.pc \in {"create", "belay", "answer"} \/ w.own
              THEN handler[w.task] = Idle
              ELSE \E j \in jobs : /\ j.stage = "ready"
                                   /\ j.task = w.task
                                   /\ j.event = w.event
                                   /\ j.state = w.state,
           w.pc \in Stages =>
              /\ w.event \in IF w.own THEN Local ELSE Remote
              /\ w.pc \in {"force", "snapshot", "soft"} => ~w.own
              /\ w.pc \in {"before", "join", "state"} => w.own
              /\ w.own => ~w.soft
              /\ w.pc = "state" => Placed(w.event)
              /\ w.pc \notin {"before", "join", "force", "snapshot"} =>
                    snapshot'[w.event] # NoState
              /\ w.pc # "join" =>
                    \A f \in w.state :
                        Exists(f)' \/ (w.own /\ w.pc # "before" /\ f = w.event),
           StateKnown', Forks', NoForkLost'
    PROVE  IInv'
<1>1. TypeOK
  BY DEF IInv
<1>2. TypeOK'
  BY <1>1 DEF TypeOK
<1>3. w.pc \in Stages \cup {"free", "create", "belay", "answer"}
      /\ (w.pc = "free" => w = Free)
  BY WriterFields
<1>4. \A e : Exists(e) => Exists(e)'
  BY DEF Exists, Placed
<1>5. Locks'
  BY DEF IInv, Locks, OnItsOwn
<1>6. JobFor'
  BY DEF IInv, JobFor, OnItsOwn
<1>7. Origins'
  BY DEF IInv, Origins, Stages
<1>8. Numbers'
  BY <1>3 DEF IInv, Numbers, Placed, Stages
<1>10. Carried'
  <2>1. Carried
    BY DEF IInv
  <2>2. ASSUME NEW u \in Task
        PROVE  (/\ handler[u].pc \in {"fetch", "prevs", "upgrade"} =>
                     Exists(handler[u].event)
                /\ handler[u].pc = "fetch" =>
                     \A p \in handler[u].info : Exists(p))'
    BY <2>1 DEF Carried, Exists, Placed
  <2>3. \A i \in jobs :
          /\ Exists(i.event)'
          /\ i.stage = "ready" => \A f \in i.state : Exists(f)'
    BY <1>4, <2>1 DEF Carried
  <2> QED BY <2>2, <2>3 DEF Carried
<1> QED BY <1>2, <1>5, <1>6, <1>7, <1>8, <1>10 DEF IInv

\* The writer takes or drops a mutex and has no event afterwards.
LEMMA WriterQuiet ==
    ASSUME IInv, NEW w \in Writers, writer' = w,
           UNCHANGED <<database, handler, jobs, awaited, history>>,
           writer.pc # "put",
           w.pc \in {"free", "create", "belay", "answer"},
           w # Free => handler[w.task] = Idle,
           fed' \in Task \cup {NoTask},
           \A t \in Task :
              handler[t].pc \in {"backfill", "insert", "prepend"} => fed' = t
    PROVE  IInv'
<1>1. /\ snapshot \in [Event -> (SUBSET Event) \cup {NoState}]
      /\ parents \in [Event -> SUBSET Event]
      /\ roomState \subseteq Event /\ leaves \subseteq Event
      /\ referenced \subseteq Event /\ forgotten \subseteq Event
      /\ outlier \subseteq Event
  BY DEF IInv, TypeOK
<1>2. StateKnown' /\ Forks' /\ NoForkLost'
  BY DEF IInv, StateKnown, Forks, NoForkLost, Exists, Placed, Stages,
         database, history
<1>3. w.pc \notin Stages /\ (w # Free => w.pc \in {"create", "belay", "answer"})
  BY WriterFields DEF Stages
<1>4. UNCHANGED <<rows, index, outlier, snapshot, roomState, leaves, referenced,
                  softFailed, parents, count,
                  awaited, torn, bare, forgotten, faults>>
  BY DEF database, history
<1> QED BY <1>1, <1>2, <1>3, <1>4, WriterStep

LEMMA FedStays ==
    ASSUME IInv, UNCHANGED fed
    PROVE  fed' \in Task \cup {NoTask}
           /\ \A t \in Task :
                 handler[t].pc \in {"backfill", "insert", "prepend"} => fed' = t
BY DEF IInv, TypeOK, Locks

\* Dropping the guards of a request with an event of its own leaves those of
\* a handler alone.
LEMMA UnlockFed ==
    ASSUME IInv, writer # Free, OnItsOwn, Unlock
    PROVE  /\ fed' \in Task \cup {NoTask}
           /\ \A t \in Task :
                 handler[t].pc \in {"backfill", "insert", "prepend"} => fed' = t
           /\ writer' = Free /\ Free \in Writers /\ Free.pc = "free"
<1>1. handler[writer.task].pc = "idle"
  BY DEF IInv, Locks, Idle
<1> QED BY <1>1 DEF IInv, TypeOK, Locks, Unlock, LeaveRoom, Writers, Free

LEMMA BuildLockKeeps ==
    ASSUME IInv, NEW t \in Task, BuildLock(t) PROVE IInv'
<1>1. PICK w : w = [pc |-> "create", task |-> t]
  OBVIOUS
<1>2. w \in Writers /\ w.pc = "create" /\ w.task = t
  BY <1>1 DEF Writers
<1>3. writer.pc = "free"
  BY DEF BuildLock, Free
<1> QED BY <1>1, <1>2, <1>3, FedStays, WriterQuiet DEF BuildLock

LEMMA BuildFailsKeeps ==
    ASSUME IInv, BuildFails PROVE IInv'
<1>1. Free \in Writers /\ Free.pc = "free"
  BY DEF Writers, Free
<1> QED BY <1>1, FedStays, WriterQuiet DEF BuildFails

LEMMA MakeJoinKeeps ==
    ASSUME IInv, MakeJoin \/ BelayEvents PROVE IInv'
<1>1. writer.pc \in {"create", "belay"} /\ writer \in Writers /\ writer # Free
  BY DEF MakeJoin, BelayEvents, IInv, TypeOK, Free
<1>2. PICK v \in [pc : {"create", "belay", "answer"}, task : Task] : v = writer
  BY <1>1, WriterFields
<1>3. handler[v.task] = Idle
  BY <1>1, <1>2 DEF IInv, Locks, OnItsOwn
<1>4. CASE MakeJoin
  <2>1. PICK w : w = [v EXCEPT !.pc = "belay"]
    OBVIOUS
  <2>2. w \in [pc : {"create", "belay", "answer"}, task : Task]
        /\ w.pc = "belay" /\ w.task = v.task
    BY <2>1, <1>2
  <2>3. w \in Writers
    BY <2>2 DEF Writers
  <2>4. writer' = w /\ UNCHANGED <<database, handler, jobs, awaited, history, fed>>
    BY <1>2, <1>4, <2>1 DEF MakeJoin
  <2> QED BY <1>1, <1>3, <2>2, <2>3, <2>4, FedStays, WriterQuiet
<1>5. CASE BelayEvents
  <2>1. PICK w : w = [v EXCEPT !.pc = "answer"]
    OBVIOUS
  <2>2. w \in [pc : {"create", "belay", "answer"}, task : Task]
        /\ w.pc = "answer" /\ w.task = v.task
    BY <2>1, <1>2
  <2>3. w \in Writers
    BY <2>2 DEF Writers
  <2>4. writer' = w /\ UNCHANGED <<database, handler, jobs, awaited, history>>
        /\ fed = NoTask /\ fed' = v.task
    BY <1>2, <1>5, <2>1 DEF BelayEvents
  <2>5. \A t \in Task : handler[t].pc \notin {"backfill", "insert", "prepend"}
    BY <2>4, RoomAssumption DEF IInv, Locks
  <2> QED BY <1>1, <1>2, <1>3, <2>2, <2>3, <2>4, <2>5, WriterQuiet
<1> QED BY <1>4, <1>5

LEMMA JoinFailsKeeps ==
    ASSUME IInv, JoinFails PROVE IInv'
<1>1. writer.pc \in {"answer", "before"} /\ writer # Free /\ OnItsOwn
  BY DEF JoinFails, Free, IInv, Origins, OnItsOwn
<1> QED BY <1>1, UnlockFed, WriterQuiet DEF JoinFails

\* The record of a writer that has an event.
LEMMA Staged ==
    ASSUME IInv, writer.pc \in Stages
    PROVE  /\ writer \in [pc : Stages, task : Task, event : Event,
                          own : BOOLEAN, soft : BOOLEAN, state : SUBSET Event,
                          leaves : SUBSET Event, at : Nat]
           /\ writer # Free
           /\ OnItsOwn <=> writer.own
           /\ writer.own => handler[writer.task] = Idle
           /\ ~writer.own =>
                 \E j \in jobs : /\ j.stage = "ready"
                                 /\ j.task = writer.task
                                 /\ j.event = writer.event
                                 /\ j.state = writer.state
<1>1. writer \in Writers
  BY DEF IInv, TypeOK
<1>2. writer # Free
  BY DEF Free, Stages
<1>3. OnItsOwn <=> writer.own
  BY DEF OnItsOwn, Stages
<1> QED BY <1>1, <1>2, <1>3, WriterFields DEF IInv, Locks, JobFor

LEMMA LockRoomKeeps ==
    ASSUME IInv, NEW j \in jobs, LockRoom(j) PROVE IInv'
<1>1. j \in Jobs /\ j.stage = "ready" /\ writer = Free /\ writer.pc = "free"
  BY DEF LockRoom, IInv, TypeOK, Free
<1>2. /\ j.task \in Task /\ j.event \in Remote /\ j.event \in Event
      /\ j.state \in SUBSET Event /\ j.soft \in BOOLEAN
  BY <1>1, JobFields DEF IInv, Origins
<1>3. \A f \in j.state : Exists(f)
  BY <1>1 DEF IInv, Carried
<1>4. PICK w : w = [pc |-> IF IsState(j.event) THEN "force" ELSE "snapshot",
                    task |-> j.task, event |-> j.event, own |-> FALSE,
                    soft |-> j.soft, state |-> j.state,
                    leaves |-> Remaining(j.event) \cup
                               (IF j.soft THEN {} ELSE {j.event}),
                    at |-> 0]
  OBVIOUS
<1>5. Remaining(j.event) \subseteq Event
      /\ leaves \subseteq Remaining(j.event) \cup referenced \cup parents[j.event]
  BY DEF Remaining, IInv, TypeOK
<1>6. /\ w.pc \in {"force", "snapshot"} /\ w.task = j.task
      /\ w.event = j.event /\ w.own = FALSE /\ w.soft = j.soft
      /\ w.state = j.state
      /\ leaves \subseteq w.leaves \cup referenced \cup parents[w.event]
      /\ ~w.soft => w.event \in w.leaves
      /\ w \in [pc : Stages, task : Task, event : Event,
                own : BOOLEAN, soft : BOOLEAN, state : SUBSET Event,
                leaves : SUBSET Event, at : Nat]
  BY <1>2, <1>4, <1>5 DEF Stages
<1>7. w \in Writers
  BY <1>6 DEF Writers
<1>8. writer' = w /\ UNCHANGED <<database, fed, handler, jobs, awaited, history>>
  BY <1>4 DEF LockRoom
<1>9. UNCHANGED <<rows, index, outlier, snapshot, roomState, leaves, referenced,
                  softFailed, parents, count,
                  awaited, torn, bare, forgotten, faults>>
  BY <1>8 DEF database, history
<1>10. StateKnown' /\ Forks' /\ NoForkLost'
  BY <1>1, <1>6, <1>8, <1>9 DEF IInv, StateKnown, Forks, NoForkLost, Exists, Placed
<1>11. /\ snapshot \in [Event -> (SUBSET Event) \cup {NoState}]
       /\ parents \in [Event -> SUBSET Event]
       /\ roomState \subseteq Event /\ leaves \subseteq Event
       /\ referenced \subseteq Event /\ forgotten \subseteq Event
       /\ outlier \subseteq Event
  BY DEF IInv, TypeOK
<1>12. \A f \in w.state : Exists(f)'
  BY <1>3, <1>6, <1>9 DEF Exists, Placed
<1> QED BY <1>1, <1>2, <1>3, <1>6, <1>7, <1>8, <1>9, <1>10, <1>11, <1>12,
           FedStays, WriterStep

\* The types of the tables that a writer changes.
LEMMA Tables ==
    ASSUME IInv
    PROVE  /\ snapshot \in [Event -> (SUBSET Event) \cup {NoState}]
           /\ parents \in [Event -> SUBSET Event]
           /\ roomState \subseteq Event /\ leaves \subseteq Event
           /\ referenced \subseteq Event /\ forgotten \subseteq Event
           /\ outlier \subseteq Event
           /\ ~(NoState \subseteq Event)
BY RoomAssumption DEF IInv, TypeOK, NoState

\* The writer goes on to the next stage with the same event.
LEMMA Advance ==
    ASSUME IInv, writer.pc \in Stages, NEW pc \in Stages,
           writer' = [writer EXCEPT !.pc = pc]
    PROVE  \E w \in Writers :
              /\ writer' = w /\ w # Free
              /\ w.pc = pc /\ w.task = writer.task /\ w.event = writer.event
              /\ w.own = writer.own /\ w.soft = writer.soft
              /\ w.state = writer.state /\ w.leaves = writer.leaves
<1>1. PICK v \in [pc : Stages, task : Task, event : Event,
                  own : BOOLEAN, soft : BOOLEAN, state : SUBSET Event,
                  leaves : SUBSET Event, at : Nat] : v = writer
  BY Staged
<1>2. PICK w : w = [v EXCEPT !.pc = pc]
  OBVIOUS
<1>3. /\ w \in [pc : Stages, task : Task, event : Event,
                own : BOOLEAN, soft : BOOLEAN, state : SUBSET Event,
                leaves : SUBSET Event, at : Nat]
      /\ w.pc = pc /\ w.task = v.task /\ w.event = v.event
      /\ w.own = v.own /\ w.soft = v.soft /\ w.state = v.state
      /\ w.leaves = v.leaves
  BY <1>1, <1>2
<1>4. w \in Writers /\ w # Free
  BY <1>3 DEF Writers, Free, Stages
<1> QED BY <1>1, <1>2, <1>3, <1>4

LEMMA ForceStateKeeps ==
    ASSUME IInv, ForceState PROVE IInv'
<1>1. writer.pc = "force" /\ writer.pc \in Stages
  BY DEF ForceState, Stages
<1>2. PICK v \in [pc : Stages, task : Task, event : Event,
                  own : BOOLEAN, soft : BOOLEAN, state : SUBSET Event,
                  leaves : SUBSET Event, at : Nat] : v = writer
  BY <1>1, Staged
<1>3. /\ ~v.own /\ v.event \in Remote
      /\ ~v.soft => v.event \in v.leaves
      /\ leaves \subseteq v.leaves \cup referenced \cup parents[v.event]
      /\ \A f \in v.state : Exists(f)
  BY <1>1, <1>2 DEF IInv, Origins, Carried, Forks, Stages
<1>4. PICK j \in jobs : /\ j.stage = "ready" /\ j.task = v.task
                        /\ j.event = v.event /\ j.state = v.state
  BY <1>1, <1>2, <1>3, Staged
<1>5. Exists(v.event)
  BY <1>4 DEF IInv, Carried
<1>6. CASE EndJob(JobOf(writer), FALSE) /\ writer' = Free /\ UNCHANGED roomState
  <2>1. writer # Free /\ ~OnItsOwn
    BY <1>1, <1>2, <1>3, Staged
  <2>2. PICK i \in jobs : /\ i = JobOf(writer) /\ i.task = writer.task
                          /\ i.event = writer.event
    BY <2>1, WritersJob
  <2>3. softFailed' \subseteq Event
    BY DEF ForceState, IInv, TypeOK
  <2>4. EndJob(i, FALSE)
    BY <1>6, <2>2
  <2> QED BY <1>1, <1>6, <2>1, <2>2, <2>3, <2>4, EndJobStep DEF ForceState
<1>7. CASE /\ \E r \in Resolutions({roomState,
                                    After(writer.state, writer.event)}) :
                 roomState' = r
           /\ writer' = [writer EXCEPT !.pc = "snapshot"]
           /\ UNCHANGED <<handler, jobs>>
  <2>1. PICK w : w = [v EXCEPT !.pc = "snapshot"]
    OBVIOUS
  <2>2. /\ w \in [pc : Stages, task : Task, event : Event,
                  own : BOOLEAN, soft : BOOLEAN, state : SUBSET Event,
                  leaves : SUBSET Event, at : Nat]
        /\ w.pc = "snapshot" /\ w.task = v.task /\ w.event = v.event
        /\ w.own = v.own /\ w.soft = v.soft /\ w.state = v.state
        /\ w.leaves = v.leaves
    BY <1>2, <2>1 DEF Stages
  <2>3. w \in Writers
    BY <2>2 DEF Writers
  <2>4. /\ writer' = w /\ UNCHANGED <<handler, jobs>>
        /\ UNCHANGED <<rows, index, outlier, snapshot, leaves, referenced,
                       softFailed, parents, count, fed,
                       awaited, torn, bare, forgotten, faults>>
    BY <1>2, <1>7, <2>1 DEF ForceState, history
  <2>5. /\ snapshot \in [Event -> (SUBSET Event) \cup {NoState}]
        /\ parents \in [Event -> SUBSET Event]
        /\ roomState \subseteq Event /\ leaves \subseteq Event
        /\ referenced \subseteq Event /\ forgotten \subseteq Event
        /\ outlier \subseteq Event
    BY DEF IInv, TypeOK
  <2>6. PICK r \in Resolutions({roomState, After(v.state, v.event)}) :
            roomState' = r
    BY <1>2, <1>7
  <2>7. r \subseteq roomState \cup v.state \cup {v.event}
                   \cup {f \in Event : Exists(f)}
    <3>1. r \subseteq (UNION {roomState, After(v.state, v.event)})
                     \cup {f \in Event : Exists(f)}
      BY ResolutionsFrom, Zenon
    <3>2. After(v.state, v.event) \subseteq v.state \cup {v.event}
      BY AfterFrom
    <3> QED BY <3>1, <3>2
  <2>8. \A f \in r : Exists(f)
    BY <1>3, <1>5, <2>7 DEF IInv, StateKnown
  <2>9. \A f : Exists(f)' <=> Exists(f)
    BY <2>4 DEF Exists, Placed
  <2>10. StateKnown'
    BY <2>4, <2>6, <2>8, <2>9 DEF IInv, StateKnown
  <2>11. Forks' /\ NoForkLost'
    BY <1>1, <1>2, <1>3, <2>2, <2>4 DEF IInv, Forks, NoForkLost
  <2>12. \A f \in w.state : Exists(f)'
    BY <1>3, <2>2, <2>9
  <2>13. roomState' \subseteq Event
    BY <1>2, <2>5, <2>6, <2>7
  <2> QED BY <1>1, <1>3, <1>4, <2>2, <2>3, <2>4, <2>5, <2>10, <2>11, <2>12,
             <2>13, FedStays, WriterStep
<1> QED BY <1>6, <1>7 DEF ForceState

LEMMA SetEventStateKeeps ==
    ASSUME IInv, SetEventState PROVE IInv'
<1>1. writer.pc = "snapshot" /\ writer.pc \in Stages /\ "referenced" \in Stages
  BY DEF SetEventState, Stages
<1>2. /\ ~writer.own /\ writer.event \in Remote
      /\ writer.event \in Event /\ writer.state \subseteq Event
      /\ \A f \in writer.state : Exists(f)
      /\ ~writer.soft => writer.event \in writer.leaves
      /\ leaves \subseteq writer.leaves \cup referenced \cup parents[writer.event]
  BY <1>1, Staged DEF IInv, Origins, Carried, Forks, Stages
<1>3. PICK w \in Writers :
              /\ writer' = w /\ w # Free
              /\ w.pc = "referenced" /\ w.task = writer.task
              /\ w.event = writer.event
              /\ w.own = writer.own /\ w.soft = writer.soft
              /\ w.state = writer.state /\ w.leaves = writer.leaves
  BY <1>1, Advance DEF SetEventState
<1>4. /\ snapshot' = [snapshot EXCEPT ![writer.event] = writer.state]
      /\ UNCHANGED <<rows, index, outlier, roomState, leaves, referenced,
                     softFailed, parents, count, fed, handler, jobs,
                     awaited, torn, bare, forgotten, faults>>
  BY DEF SetEventState, history
<1>5. /\ snapshot' \in [Event -> (SUBSET Event) \cup {NoState}]
      /\ \A e \in Event : snapshot'[e] = IF e = writer.event THEN writer.state
                                                            ELSE snapshot[e]
      /\ writer.state # NoState
  BY <1>2, <1>4, Tables
<1>6. \A f : Exists(f)' <=> Exists(f)
  BY <1>4 DEF Exists, Placed
<1>7. StateKnown'
  <2>1. \A e \in Event : index'[e] > 0 => snapshot'[e] # NoState
    BY <1>4, <1>5 DEF IInv, StateKnown
  <2>2. \A e \in Event : snapshot'[e] # NoState =>
            \A f \in snapshot'[e] : Exists(f)'
    BY <1>2, <1>5, <1>6 DEF IInv, StateKnown
  <2>3. \A f \in roomState' : Exists(f)'
    BY <1>4, <1>6 DEF IInv, StateKnown
  <2> QED BY <2>1, <2>2, <2>3 DEF StateKnown
<1>8. Forks' /\ NoForkLost'
  BY <1>1, <1>2, <1>3, <1>4 DEF IInv, Forks, NoForkLost
<1>9. snapshot'[w.event] # NoState /\ \A f \in w.state : Exists(f)'
  BY <1>2, <1>3, <1>5, <1>6
<1> QED BY <1>1, <1>2, <1>3, <1>4, <1>5, <1>7, <1>8, <1>9, Staged, Tables,
           FedStays, WriterStep

LEMMA LeavesKeep ==
    ASSUME IInv, MarkReferenced \/ ClearLeaves \/ PutLeaves PROVE IInv'
<1>1. writer.pc \in {"referenced", "clear", "put"} /\ writer.pc \in Stages
      /\ {"clear", "put", "soft", "row"} \subseteq Stages
  BY DEF MarkReferenced, ClearLeaves, PutLeaves, Stages
<1>2. /\ writer.event \in (IF writer.own THEN Local ELSE Remote)
      /\ (writer.own => ~writer.soft)
      /\ writer.event \in Event /\ writer.state \subseteq Event
      /\ writer.leaves \subseteq Event /\ parents[writer.event] \subseteq Event
      /\ writer.own \in BOOLEAN /\ writer.soft \in BOOLEAN
      /\ snapshot[writer.event] # NoState
      /\ \A f \in writer.state : Exists(f) \/ (writer.own /\ f = writer.event)
      /\ ~writer.soft => writer.event \in writer.leaves
  BY <1>1, Staged, Tables DEF IInv, Origins, Carried, Forks, Stages
<1>3. PICK pc \in Stages :
          /\ writer' = [writer EXCEPT !.pc = pc]
          /\ MarkReferenced => pc = "clear"
          /\ ClearLeaves => pc = "put"
          /\ PutLeaves => pc = IF writer.soft THEN "soft" ELSE "row"
          /\ pc \in {"clear", "put", "soft", "row"}
          /\ pc = "soft" => writer.soft
          /\ pc = "row" => ~writer.soft
  BY <1>1, <1>2 DEF MarkReferenced, ClearLeaves, PutLeaves
<1>4. PICK w \in Writers :
              /\ writer' = w /\ w # Free
              /\ w.pc = pc /\ w.task = writer.task
              /\ w.event = writer.event
              /\ w.own = writer.own /\ w.soft = writer.soft
              /\ w.state = writer.state /\ w.leaves = writer.leaves
  BY <1>1, <1>3, Advance
<1>5. UNCHANGED <<rows, index, outlier, snapshot, roomState, softFailed,
                  parents, count, fed, handler, jobs, awaited, torn, bare,
                  faults>>
  BY DEF MarkReferenced, ClearLeaves, PutLeaves, history
<1>6. \A f : Exists(f)' <=> Exists(f)
  BY <1>5 DEF Exists, Placed
<1>7. StateKnown'
  BY <1>5, <1>6 DEF IInv, StateKnown
<1>8. /\ leaves' \subseteq Event /\ referenced' \subseteq Event
      /\ forgotten' \subseteq Event /\ Forks' /\ NoForkLost'
  <2>1. Forks /\ NoForkLost
    BY DEF IInv
  <2>2. CASE MarkReferenced
    <3>1. /\ writer.pc = "referenced" /\ w.pc = "clear"
          /\ referenced' = referenced \cup parents[writer.event]
          /\ UNCHANGED <<leaves, forgotten>>
      BY <1>3, <1>4, <2>2 DEF MarkReferenced, history
    <3>2. Forks'
      BY <1>2, <1>4, <1>5, <2>1, <3>1 DEF Forks
    <3>3. NoForkLost'
      BY <1>4, <1>5, <2>1, <3>1 DEF NoForkLost
    <3> QED BY <1>2, <3>1, <3>2, <3>3, Tables
  <2>3. CASE ClearLeaves
    <3>1. /\ writer.pc = "clear" /\ w.pc = "put" /\ leaves' = {}
          /\ forgotten' = IF writer.own
                          THEN forgotten \cup (leaves \ parents[writer.event])
                          ELSE forgotten
          /\ UNCHANGED referenced
      BY <1>3, <1>4, <2>3 DEF ClearLeaves
    <3>2. Forks'
      BY <1>2, <1>4, <1>5, <2>1, <3>1 DEF Forks
    <3>3. NoForkLost'
      <4>1. CASE writer.own
        BY <1>4, <1>5, <2>1, <3>1, <4>1 DEF NoForkLost, Forks
      <4>2. CASE ~writer.own
        BY <1>4, <1>5, <2>1, <3>1, <4>2 DEF NoForkLost, Forks
      <4> QED BY <4>1, <4>2
    <3>4. forgotten' \subseteq Event
      BY <1>2, <3>1, Tables
    <3> QED BY <3>1, <3>2, <3>3, <3>4, Tables
  <2>4. CASE PutLeaves
    <3>1. /\ writer.pc = "put" /\ w.pc \in {"soft", "row"}
          /\ leaves' = writer.leaves
          /\ UNCHANGED <<referenced, forgotten>>
      BY <1>3, <1>4, <2>4 DEF PutLeaves, history
    <3>2. Forks'
      BY <1>2, <1>3, <1>4, <1>5, <2>1, <3>1 DEF Forks
    <3>3. NoForkLost'
      BY <1>4, <1>5, <2>1, <3>1 DEF NoForkLost, Forks
    <3> QED BY <1>2, <3>1, <3>2, <3>3, Tables
  <2> QED BY <2>2, <2>3, <2>4
<1>9. snapshot'[w.event] # NoState
      /\ \A f \in w.state : Exists(f)' \/ (w.own /\ f = w.event)
  BY <1>2, <1>4, <1>5, <1>6
<1>10. w.pc \notin {"index", "effects", "state", "before", "join", "force",
                    "snapshot"}
       /\ (w.pc = "soft" => ~w.own)
  BY <1>2, <1>3, <1>4
<1>11. IF w.pc \in {"create", "belay", "answer"} \/ w.own
       THEN handler[w.task] = Idle
       ELSE \E j \in jobs : /\ j.stage = "ready" /\ j.task = w.task
                            /\ j.event = w.event /\ j.state = w.state
  BY <1>1, <1>3, <1>4, Staged
<1>12. /\ w.event \in (IF w.own THEN Local ELSE Remote)
       /\ (w.own => ~w.soft)
  BY <1>2, <1>4
<1>13. writer.pc \notin {"index", "effects"}
  BY <1>1
<1> QED BY <1>4, <1>5, <1>7, <1>8, <1>9, <1>10, <1>11, <1>12, <1>13,
           Tables, FedStays, WriterStep

LEMMA SoftFailKeeps ==
    ASSUME IInv, SoftFail PROVE IInv'
<1>1. writer.pc = "soft" /\ writer.pc \in Stages
  BY DEF SoftFail, Stages
<1>2. writer # Free /\ ~OnItsOwn /\ writer.event \in Event
  BY <1>1, Staged DEF IInv, Origins
<1>3. PICK i \in jobs : /\ i = JobOf(writer) /\ i.task = writer.task
                        /\ i.event = writer.event
  BY <1>2, WritersJob
<1>4. softFailed' \subseteq Event
  BY <1>2 DEF SoftFail, IInv, TypeOK
<1>5. EndJob(i, FALSE)
  BY <1>3 DEF SoftFail
<1> QED BY <1>1, <1>2, <1>3, <1>4, <1>5, EndJobStep DEF SoftFail

LEMMA EffectsKeep ==
    ASSUME IInv, AppendEffects PROVE IInv'
<1>1. writer.pc = "effects" /\ writer.pc \in Stages /\ "state" \in Stages
  BY DEF AppendEffects, Stages
<1>2. UNCHANGED <<rows, index, outlier, snapshot, roomState, leaves, referenced,
                  softFailed, parents, count,
                  awaited, torn, bare, forgotten, faults>>
  BY DEF AppendEffects, database, history
<1>3. CASE ~writer.own
  <2>1. writer # Free /\ ~OnItsOwn
    BY <1>1, <1>3, Staged
  <2>2. PICK i \in jobs : /\ i = JobOf(writer) /\ i.task = writer.task
                          /\ i.event = writer.event
    BY <2>1, WritersJob
  <2>3. softFailed' \subseteq Event
    BY <1>2 DEF IInv, TypeOK
  <2>4. PICK ok \in BOOLEAN : EndJob(i, ok) /\ writer' = Free /\ UNCHANGED fed
    BY <1>3, <2>2 DEF AppendEffects
  <2> QED BY <1>1, <1>2, <2>1, <2>2, <2>3, <2>4, EndJobStep DEF history
<1>4. CASE writer.own /\ Unlock
  <2>1. writer # Free /\ OnItsOwn /\ UNCHANGED <<handler, jobs>>
    BY <1>1, <1>4, Staged DEF AppendEffects
  <2>2. UNCHANGED <<database, awaited, history>>
    BY DEF AppendEffects
  <2> QED BY <1>1, <1>4, <2>1, <2>2, UnlockFed, WriterQuiet
<1>5. CASE writer.own /\ writer' = [writer EXCEPT !.pc = "state"] /\ UNCHANGED fed
  <2>1. PICK w \in Writers :
              /\ writer' = w /\ w # Free
              /\ w.pc = "state" /\ w.task = writer.task
              /\ w.event = writer.event
              /\ w.own = writer.own /\ w.soft = writer.soft
              /\ w.state = writer.state /\ w.leaves = writer.leaves
    BY <1>1, <1>5, Advance
  <2>2. UNCHANGED <<handler, jobs>>
    BY <1>5 DEF AppendEffects
  <2>3. /\ writer.event \in Local /\ Placed(writer.event)
        /\ ~writer.soft /\ snapshot[writer.event] # NoState
        /\ writer.event \in writer.leaves
        /\ handler[writer.task] = Idle
        /\ \A f \in writer.state : Exists(f) \/ f = writer.event
    BY <1>1, <1>5, Staged DEF IInv, Origins, Numbers, Carried, Forks, Stages
  <2>4. \A f \in w.state : Exists(f)' \/ (w.own /\ f = w.event)
    BY <1>2, <1>5, <2>1, <2>3 DEF Exists, Placed
  <2>5. StateKnown' /\ Forks' /\ NoForkLost'
    BY <1>1, <1>2, <2>1, <2>3 DEF IInv, StateKnown, Forks, NoForkLost, Exists, Placed
  <2> QED BY <1>1, <1>2, <1>5, <2>1, <2>2, <2>3, <2>4, <2>5, Tables, FedStays,
             WriterStep
<1> QED BY <1>3, <1>4, <1>5 DEF AppendEffects

LEMMA BuildKeeps ==
    ASSUME IInv, NEW e \in Local, Build(e) PROVE IInv'
<1>1. writer.pc = "create" /\ writer \in Writers /\ writer # Free
      /\ writer.task \in Task /\ handler[writer.task] = Idle
  <2>1. writer.pc = "create" /\ writer \in Writers
    BY DEF Build, IInv, TypeOK
  <2> QED BY <2>1, WriterFields DEF IInv, Locks, OnItsOwn, Free
<1>2. ~Exists(e) /\ ~Placed(e) /\ e \in Event /\ e \notin Remote
  BY RoomAssumption DEF Build, Exists, Event
<1>3. After(roomState, e) \subseteq Event
      /\ \A f \in After(roomState, e) : Exists(f) \/ f = e
  BY <1>2, AfterFrom, Tables DEF IInv, StateKnown
<1>4. PICK w : w = [pc |-> "referenced", task |-> writer.task, event |-> e,
                    own |-> TRUE, soft |-> FALSE, leaves |-> {e},
                    state |-> After(roomState, e), at |-> 0]
  OBVIOUS
<1>5. /\ w \in [pc : Stages, task : Task, event : Event,
                own : BOOLEAN, soft : BOOLEAN, state : SUBSET Event,
                leaves : SUBSET Event, at : Nat]
      /\ w.pc = "referenced" /\ w.task = writer.task /\ w.event = e
      /\ w.own = TRUE /\ w.soft = FALSE /\ w.state = After(roomState, e)
      /\ w.leaves = {e} /\ w.pc \in Stages
  BY <1>1, <1>2, <1>3, <1>4 DEF Stages
<1>6. w \in Writers /\ w # Free
  BY <1>5 DEF Writers, Free
<1>7. /\ writer' = w
      /\ snapshot' = [snapshot EXCEPT ![e] = roomState]
      /\ UNCHANGED <<rows, index, outlier, roomState, leaves, referenced,
                     softFailed, count, fed, handler, jobs,
                     awaited, torn, bare, forgotten, faults>>
  BY <1>4 DEF Build, history
<1>8. PICK s \in SUBSET leaves : parents' = [parents EXCEPT ![e] = s]
  BY DEF Build, Chosen
<1>9. /\ parents' \in [Event -> SUBSET Event]
      /\ \A x \in Remote : parents'[x] = parents[x]
  BY <1>2, <1>8, Tables DEF Event
<1>10. /\ snapshot' \in [Event -> (SUBSET Event) \cup {NoState}]
       /\ \A x \in Event : snapshot'[x] = IF x = e THEN roomState ELSE snapshot[x]
       /\ roomState # NoState
  BY <1>2, <1>7, Tables
<1>11. \A f : Exists(f)' <=> Exists(f)
  BY <1>7 DEF Exists, Placed
<1>12. StateKnown'
  <2>1. \A x \in Event : index'[x] > 0 => snapshot'[x] # NoState
    BY <1>7, <1>10 DEF IInv, StateKnown
  <2>2. \A x \in Event : snapshot'[x] # NoState =>
            \A f \in snapshot'[x] : Exists(f)'
    BY <1>10, <1>11 DEF IInv, StateKnown
  <2>3. \A f \in roomState' : Exists(f)'
    BY <1>7, <1>11 DEF IInv, StateKnown
  <2> QED BY <2>1, <2>2, <2>3 DEF StateKnown
<1>13. Forks' /\ NoForkLost'
  BY <1>1, <1>5, <1>7 DEF IInv, Forks, NoForkLost
<1>14. snapshot'[w.event] # NoState
       /\ \A f \in w.state : Exists(f)' \/ (w.own /\ f = w.event)
  BY <1>2, <1>3, <1>5, <1>10, <1>11
<1> QED BY <1>1, <1>2, <1>5, <1>6, <1>7, <1>9, <1>10, <1>12, <1>13, <1>14,
           Tables, FedStays, WriterStep

LEMMA SetRoomStateKeeps ==
    ASSUME IInv, SetRoomState PROVE IInv'
<1>1. writer.pc = "state" /\ writer.pc \in Stages
  BY DEF SetRoomState, Stages
<1>2. /\ writer.own /\ Placed(writer.event) /\ writer.state \subseteq Event
      /\ writer # Free /\ OnItsOwn
      /\ \A f \in writer.state : Exists(f)
  BY <1>1, Staged DEF IInv, Origins, Numbers, Carried, Stages, Exists
<1>3. /\ roomState' = writer.state /\ Unlock
      /\ UNCHANGED <<rows, index, outlier, snapshot, leaves, referenced,
                     softFailed, parents, count, handler, jobs,
                     awaited, torn, bare, forgotten, faults>>
  BY DEF SetRoomState, history
<1>4. /\ fed' \in Task \cup {NoTask}
      /\ \A t \in Task :
            handler[t].pc \in {"backfill", "insert", "prepend"} => fed' = t
      /\ writer' = Free /\ Free \in Writers /\ Free.pc = "free"
  BY <1>2, <1>3, UnlockFed
<1>5. \A f : Exists(f)' <=> Exists(f)
  BY <1>3 DEF Exists, Placed
<1>6. StateKnown'
  BY <1>2, <1>3, <1>5 DEF IInv, StateKnown
<1>7. Forks' /\ NoForkLost'
  BY <1>1, <1>3, <1>4 DEF IInv, Forks, NoForkLost, Stages
<1>8. Free.pc \notin Stages
  BY <1>4 DEF Stages
<1> QED BY <1>1, <1>2, <1>3, <1>4, <1>6, <1>7, <1>8, Tables, WriterStep

LEMMA SendJoinKeeps ==
    ASSUME IInv, NEW e \in Local, SendJoin(e) PROVE IInv'
<1>1. writer.pc = "answer" /\ writer \in Writers /\ writer # Free
      /\ writer.task \in Task /\ handler[writer.task] = Idle
  <2>1. writer.pc = "answer" /\ writer \in Writers
    BY DEF SendJoin, IInv, TypeOK
  <2> QED BY <2>1, WriterFields DEF IInv, Locks, OnItsOwn, Free
<1>2. ~Exists(e) /\ ~Placed(e) /\ e \in Event /\ e \notin Remote
  BY RoomAssumption DEF SendJoin, Exists, Event
<1>3. PICK answer \in Joins :
        /\ parents' = [parents EXCEPT ![e] = answer.prevs]
        /\ outlier' = outlier \cup answer.state
        /\ writer' = [pc |-> "before", task |-> writer.task, event |-> e,
                      own |-> TRUE, soft |-> FALSE, leaves |-> {e},
                      state |-> answer.state, at |-> 0]
  BY DEF SendJoin
<1>4. answer.prevs \subseteq Event /\ answer.state \subseteq Event
  BY RoomAssumption DEF Event
<1>5. PICK w : w = [pc |-> "before", task |-> writer.task, event |-> e,
                    own |-> TRUE, soft |-> FALSE, leaves |-> {e},
                    state |-> answer.state, at |-> 0]
  OBVIOUS
<1>6. /\ w \in [pc : Stages, task : Task, event : Event,
                own : BOOLEAN, soft : BOOLEAN, state : SUBSET Event,
                leaves : SUBSET Event, at : Nat]
      /\ w.pc = "before" /\ w.task = writer.task /\ w.event = e
      /\ w.own = TRUE /\ w.soft = FALSE /\ w.state = answer.state
      /\ w.leaves = {e} /\ w.pc \in Stages
  BY <1>1, <1>2, <1>4, <1>5 DEF Stages
<1>7. w \in Writers /\ w # Free
  BY <1>6 DEF Writers, Free
<1>8. /\ writer' = w
      /\ UNCHANGED <<rows, index, snapshot, roomState, leaves, referenced,
                     softFailed, count, fed, handler, jobs,
                     awaited, torn, bare, forgotten, faults>>
  BY <1>3, <1>5 DEF SendJoin, history
<1>9. /\ parents' \in [Event -> SUBSET Event]
      /\ \A x \in Remote : parents'[x] = parents[x]
      /\ outlier \subseteq outlier' /\ outlier' \subseteq Event
  BY <1>2, <1>3, <1>4, Tables DEF Event
<1>10. \A f : Exists(f) => Exists(f)'
  BY <1>8, <1>9 DEF Exists, Placed
<1>11. StateKnown'
  BY <1>8, <1>10 DEF IInv, StateKnown
<1>12. Forks' /\ NoForkLost'
  BY <1>1, <1>6, <1>8 DEF IInv, Forks, NoForkLost
<1>13. \A f \in w.state : Exists(f)'
  BY <1>3, <1>6 DEF Exists
<1> QED BY <1>1, <1>2, <1>6, <1>7, <1>8, <1>9, <1>11, <1>12, <1>13,
           Tables, FedStays, WriterStep

LEMMA ForceJoinStateKeeps ==
    ASSUME IInv, ForceJoinState PROVE IInv'
<1>1. writer.pc = "before" /\ writer.pc \in Stages /\ "join" \in Stages
  BY DEF ForceJoinState, Stages
<1>2. /\ writer.own /\ writer.event \in Local
      /\ writer.state \subseteq Event /\ ~writer.soft
      /\ writer.event \in writer.leaves /\ handler[writer.task] = Idle
      /\ \A f \in writer.state : Exists(f)
  BY <1>1, Staged DEF IInv, Origins, Carried, Forks, Stages
<1>3. PICK w \in Writers :
              /\ writer' = w /\ w # Free
              /\ w.pc = "join" /\ w.task = writer.task
              /\ w.event = writer.event
              /\ w.own = writer.own /\ w.soft = writer.soft
              /\ w.state = writer.state /\ w.leaves = writer.leaves
  BY <1>1, Advance DEF ForceJoinState
<1>4. /\ roomState' = writer.state
      /\ UNCHANGED <<rows, index, outlier, snapshot, leaves, referenced,
                     softFailed, parents, count, fed, handler, jobs,
                     awaited, torn, bare, forgotten, faults>>
  BY DEF ForceJoinState, history
<1>5. \A f : Exists(f)' <=> Exists(f)
  BY <1>4 DEF Exists, Placed
<1>6. StateKnown'
  BY <1>2, <1>4, <1>5 DEF IInv, StateKnown
<1>7. Forks' /\ NoForkLost'
  BY <1>1, <1>2, <1>3, <1>4 DEF IInv, Forks, NoForkLost
<1> QED BY <1>1, <1>2, <1>3, <1>4, <1>6, <1>7, Tables, FedStays, WriterStep

LEMMA JoinStateKeeps ==
    ASSUME IInv, JoinState PROVE IInv'
<1>1. writer.pc = "join" /\ writer.pc \in Stages /\ "referenced" \in Stages
  BY DEF JoinState, Stages
<1>2. PICK v \in [pc : Stages, task : Task, event : Event,
                  own : BOOLEAN, soft : BOOLEAN, state : SUBSET Event,
                  leaves : SUBSET Event, at : Nat] : v = writer
  BY <1>1, Staged
<1>3. /\ v.own /\ v.event \in Local /\ ~v.soft
      /\ v.event \in v.leaves /\ handler[v.task] = Idle
  BY <1>1, <1>2, Staged DEF IInv, Origins, Forks, Stages
<1>4. After(roomState, v.event) \subseteq Event
      /\ \A f \in After(roomState, v.event) : Exists(f) \/ f = v.event
  BY <1>2, AfterFrom, Tables DEF IInv, StateKnown
<1>5. PICK w : w = [v EXCEPT !.pc = "referenced",
                             !.state = After(roomState, v.event)]
  OBVIOUS
<1>6. /\ w \in [pc : Stages, task : Task, event : Event,
                own : BOOLEAN, soft : BOOLEAN, state : SUBSET Event,
                leaves : SUBSET Event, at : Nat]
      /\ w.pc = "referenced" /\ w.task = v.task /\ w.event = v.event
      /\ w.own = v.own /\ w.soft = v.soft
      /\ w.state = After(roomState, v.event) /\ w.leaves = v.leaves
  BY <1>1, <1>2, <1>4, <1>5
<1>7. w \in Writers /\ w # Free
  BY <1>1, <1>6 DEF Writers, Free
<1>8. /\ writer' = w
      /\ snapshot' = [snapshot EXCEPT ![v.event] = roomState]
      /\ UNCHANGED <<rows, index, outlier, roomState, leaves, referenced,
                     softFailed, parents, count, fed, handler, jobs,
                     awaited, torn, bare, forgotten, faults>>
  BY <1>2, <1>5 DEF JoinState, history
<1>9. /\ snapshot' \in [Event -> (SUBSET Event) \cup {NoState}]
      /\ \A x \in Event : snapshot'[x] = IF x = v.event THEN roomState
                                                         ELSE snapshot[x]
      /\ roomState # NoState
  BY <1>2, <1>8, Tables
<1>10. \A f : Exists(f)' <=> Exists(f)
  BY <1>8 DEF Exists, Placed
<1>11. StateKnown'
  <2>1. \A x \in Event : index'[x] > 0 => snapshot'[x] # NoState
    BY <1>8, <1>9 DEF IInv, StateKnown
  <2>2. \A x \in Event : snapshot'[x] # NoState =>
            \A f \in snapshot'[x] : Exists(f)'
    BY <1>9, <1>10 DEF IInv, StateKnown
  <2>3. \A f \in roomState' : Exists(f)'
    BY <1>8, <1>10 DEF IInv, StateKnown
  <2> QED BY <2>1, <2>2, <2>3 DEF StateKnown
<1>12. Forks' /\ NoForkLost'
  BY <1>1, <1>2, <1>3, <1>6, <1>8 DEF IInv, Forks, NoForkLost
<1>13. snapshot'[w.event] # NoState
       /\ \A f \in w.state : Exists(f)' \/ (w.own /\ f = w.event)
  BY <1>2, <1>3, <1>4, <1>6, <1>9, <1>10
<1> QED BY <1>1, <1>3, <1>6, <1>7, <1>8, <1>9, <1>11, <1>12, <1>13, Tables,
           FedStays, WriterStep

-----------------------------------------------------------------------------
(* Rows and their index *)

LEMMA PutRowKeeps ==
    ASSUME IInv, PutRow PROVE IInv'
<1>1. writer.pc = "row" /\ writer.pc \in Stages
      /\ \A t \in Task : handler[t].pc # "prepend"
  BY DEF PutRow, Stages
<1>2. PICK v \in [pc : Stages, task : Task, event : Event,
                  own : BOOLEAN, soft : BOOLEAN, state : SUBSET Event,
                  leaves : SUBSET Event, at : Nat] : v = writer
  BY <1>1, Staged
<1>3. PICK n \in Nat : n = count + 1 /\ n # 0
  BY DEF IInv, TypeOK
<1>4. PICK w : w = [v EXCEPT !.pc = "index", !.at = n]
  OBVIOUS
<1>5. /\ w \in [pc : Stages, task : Task, event : Event,
                own : BOOLEAN, soft : BOOLEAN, state : SUBSET Event,
                leaves : SUBSET Event, at : Nat]
      /\ w.pc = "index" /\ w.task = v.task /\ w.event = v.event
      /\ w.own = v.own /\ w.soft = v.soft /\ w.state = v.state
      /\ w.leaves = v.leaves /\ w.at = n
  BY <1>2, <1>3, <1>4 DEF Stages
<1>6. w \in Writers /\ w # Free /\ v # Free
  BY <1>1, <1>2, <1>5 DEF Writers, Free
<1>7. /\ writer' = w /\ count' = n
      /\ rows' = rows \cup {[count |-> n, event |-> v.event]}
      /\ bare' \subseteq bare \cup {[count |-> n, event |-> v.event]}
      /\ UNCHANGED <<index, outlier, snapshot, roomState, leaves, referenced,
                     softFailed, parents, fed, handler, jobs, awaited, torn,
                     forgotten, faults>>
  BY <1>2, <1>3, <1>4 DEF PutRow
<1>8. TypeOK'
  <2>1. TypeOK
    BY DEF IInv
  <2>2. rows' \subseteq [count : Int, event : Event] /\ torn' \subseteq rows'
        /\ bare' \subseteq rows'
    BY <1>2, <1>3, <1>7, <2>1 DEF TypeOK
  <2> QED BY <1>3, <1>6, <1>7, <2>1, <2>2 DEF TypeOK
<1>9. Locks' /\ JobFor' /\ Origins'
  <2>1. OnItsOwn' <=> OnItsOwn
    BY <1>1, <1>2, <1>5, <1>7 DEF OnItsOwn
  <2>2. Locks'
    BY <1>1, <1>2, <1>5, <1>6, <1>7, <2>1 DEF IInv, Locks
  <2>3. JobFor'
    BY <1>2, <1>5, <1>6, <1>7, <2>1 DEF IInv, JobFor
  <2>4. Origins'
    BY <1>1, <1>2, <1>5, <1>7 DEF IInv, Origins
  <2> QED BY <2>2, <2>3, <2>4
<1>10. Numbers'
  BY <1>1, <1>3, <1>5, <1>7 DEF IInv, Numbers, Placed
<1>12. \A f : Exists(f)' <=> Exists(f)
  BY <1>7 DEF Exists, Placed
<1>13. Carried'
  <2>1. Carried
    BY DEF IInv
  <2>2. ASSUME NEW u \in Task
        PROVE  (/\ handler[u].pc \in {"fetch", "prevs", "upgrade"} =>
                     Exists(handler[u].event)
                /\ handler[u].pc = "fetch" =>
                     \A p \in handler[u].info : Exists(p))'
    BY <1>7, <2>1 DEF Carried, Exists, Placed
  <2>3. \A i \in jobs :
          /\ Exists(i.event)'
          /\ i.stage = "ready" => \A f \in i.state : Exists(f)'
    BY <1>12, <2>1 DEF Carried
  <2>4. snapshot[w.event] # NoState
        /\ \A f \in w.state : Exists(f)' \/ (w.own /\ f = w.event)
    BY <1>1, <1>2, <1>5, <1>12, <2>1 DEF Carried
  <2> QED BY <1>5, <1>7, <2>2, <2>3, <2>4 DEF Carried
<1>14. StateKnown'
  BY <1>7, <1>12 DEF IInv, StateKnown
<1>15. Forks' /\ NoForkLost'
  BY <1>1, <1>2, <1>5, <1>7 DEF IInv, Forks, NoForkLost
<1> QED BY <1>8, <1>9, <1>10, <1>13, <1>14, <1>15 DEF IInv

\* A backfill that writes its row or its index has no jobs.
LEMMA Backfilling ==
    ASSUME IInv, NEW t \in Task, handler[t].pc \in {"insert", "prepend"}
    PROVE  /\ fed = t /\ JobsOf(t) = {}
           /\ handler[t].event \in Remote /\ handler[t].event \in Event
           /\ writer # Free => writer.task # t
<1>1. fed = t /\ JobsOf(t) = {} /\ (writer # Free /\ OnItsOwn => writer.task # t)
  BY AtWork
<1>2. handler[t].event \in Remote /\ handler[t].event \in Event
  BY HandlerFields DEF IInv, TypeOK, Event
<1>3. writer # Free /\ ~OnItsOwn => writer.task # t
  BY <1>1 DEF IInv, JobFor, JobsOf
<1> QED BY <1>1, <1>2, <1>3

LEMMA BackfillRowKeeps ==
    ASSUME IInv, NEW t \in Task, BackfillRow(t) PROVE IInv'
<1>1. handler[t].pc = "insert" /\ writer.pc # "index"
      /\ handler \in [Task -> Handlers]
  BY DEF BackfillRow, IInv, TypeOK
<1>2. PICK e \in Remote : e = handler[t].event
  BY <1>1, Backfilling
<1>3. PICK n \in Nat : n = count + 1 /\ n # 0
  BY DEF IInv, TypeOK
<1>4. PICK h : h = [pc |-> "prepend", event |-> e, at |-> -n]
  OBVIOUS
<1>5. h \in Handlers /\ h # Idle /\ h.pc = "prepend" /\ h.event = e
      /\ h.at = -n /\ h.at < 0 /\ -n \in Int
  BY <1>3, <1>4 DEF Handlers, Idle
<1>6. /\ handler' = [handler EXCEPT ![t] = h] /\ count' = n
      /\ rows' = rows \cup {[count |-> -n, event |-> e]}
      /\ UNCHANGED <<index, outlier, snapshot, roomState, leaves, referenced,
                     softFailed, parents, fed, jobs, writer,
                     awaited, torn, bare, forgotten, faults>>
  BY <1>2, <1>3, <1>4 DEF BackfillRow, history
<1>7. \A s \in Task : handler'[s] = IF s = t THEN h ELSE handler[s]
  BY <1>1, <1>6
<1>8. TypeOK'
  <2>1. TypeOK
    BY DEF IInv
  <2>2. rows' \subseteq [count : Int, event : Event] /\ torn' \subseteq rows'
        /\ bare' \subseteq rows'
    BY <1>2, <1>5, <1>6, <2>1 DEF TypeOK, Event
  <2> QED BY <1>3, <1>5, <1>6, <2>1, <2>2 DEF TypeOK
<1>9. Locks'
  <2>1. Locks
    BY DEF IInv
  <2>2. writer # Free => writer.task \in Task
    BY WriterFields DEF IInv, TypeOK
  <2>3. fed = t /\ JobsOf(t) = {} /\ (writer # Free => writer.task # t)
    BY <1>1, Backfilling
  <2>4. \A j \in jobs : j.task \in Task /\ j.task # t
    BY <2>3, JobFields DEF IInv, TypeOK, JobsOf
  <2> QED BY <1>1, <1>5, <1>6, <1>7, <2>1, <2>2, <2>3, <2>4
          DEF Locks, OnItsOwn
<1>10. JobFor' /\ Origins'
  BY <1>5, <1>6, <1>7 DEF IInv, JobFor, Origins, OnItsOwn
<1>11. Numbers'
  BY <1>5, <1>6, <1>7 DEF IInv, Numbers, Placed
<1>13. \A f : Exists(f)' <=> Exists(f)
  BY <1>6 DEF Exists, Placed
<1>14. Carried'
  <2>1. Carried
    BY DEF IInv
  <2>2. ASSUME NEW u \in Task
        PROVE  (/\ handler[u].pc \in {"fetch", "prevs", "upgrade"} =>
                     Exists(handler[u].event)
                /\ handler[u].pc = "fetch" =>
                     \A p \in handler[u].info : Exists(p))'
    BY <1>5, <1>6, <1>7, <2>1 DEF Carried, Exists, Placed
  <2>3. \A i \in jobs :
          /\ Exists(i.event)'
          /\ i.stage = "ready" => \A f \in i.state : Exists(f)'
    BY <1>13, <2>1 DEF Carried
  <2>4. writer.pc \in Stages \ {"join"} =>
          \A f \in writer.state :
              Exists(f)' \/ (writer.own /\ writer.pc # "before"
                                       /\ f = writer.event)
    BY <1>13, <2>1 DEF Carried
  <2> QED BY <1>6, <2>1, <2>2, <2>3, <2>4 DEF Carried
<1>15. StateKnown'
  BY <1>6, <1>13 DEF IInv, StateKnown
<1>16. Forks' /\ NoForkLost'
  BY <1>6 DEF IInv, Forks, NoForkLost
<1> QED BY <1>8, <1>9, <1>10, <1>11, <1>14, <1>15, <1>16 DEF IInv

\* What exists goes on existing when an event moves from the outliers to the
\* timeline.
LEMMA IndexedExists ==
    ASSUME IInv, NEW e \in Event, NEW n \in Int, n # 0,
           index' = [index EXCEPT ![e] = n], outlier' = outlier \ {e}
    PROVE  /\ index' \in [Event -> Int]
           /\ \A x \in Event : index'[x] = IF x = e THEN n ELSE index[x]
           /\ \A f \in Event : Exists(f) => Exists(f)'
<1>1. index \in [Event -> Int]
  BY DEF IInv, TypeOK
<1>2. index' \in [Event -> Int]
      /\ \A x \in Event : index'[x] = IF x = e THEN n ELSE index[x]
  BY <1>1
<1> QED BY <1>2 DEF Exists, Placed

\* What handlers and jobs carry goes on existing.
LEMMA CarriedOn ==
    ASSUME IInv, \A f \in Event : Exists(f) => Exists(f)', UNCHANGED jobs
    PROVE  /\ \A u \in Task :
                 /\ handler[u].pc \in {"fetch", "prevs", "upgrade"} =>
                       Exists(handler[u].event) /\ (Exists(handler[u].event)
                           => index'[handler[u].event] # 0
                              \/ handler[u].event \in outlier')
                 /\ handler[u].pc = "fetch" =>
                       \A p \in handler[u].info : index'[p] # 0 \/ p \in outlier'
           /\ \A j \in jobs' :
                 /\ Exists(j.event)'
                 /\ j.stage = "ready" => \A f \in j.state : Exists(f)'
<1>1. Carried /\ handler \in [Task -> Handlers] /\ jobs \subseteq Jobs
  BY DEF IInv, TypeOK
<1>2. \A f \in Event : Exists(f) => index'[f] # 0 \/ f \in outlier'
  BY DEF Exists, Placed
<1>3. ASSUME NEW u \in Task
      PROVE  /\ handler[u].pc \in {"fetch", "prevs", "upgrade"} =>
                   Exists(handler[u].event) /\ (Exists(handler[u].event)
                       => index'[handler[u].event] # 0
                          \/ handler[u].event \in outlier')
             /\ handler[u].pc = "fetch" =>
                   \A p \in handler[u].info : index'[p] # 0 \/ p \in outlier'
  <2>1. handler[u].pc \in {"fetch", "prevs", "upgrade"} =>
           handler[u].event \in Event
    BY <1>1, HandlerFields DEF Event
  <2>2. handler[u].pc = "fetch" => handler[u].info \subseteq Event
    BY <1>1, HandlerFields
  <2> QED BY <1>1, <1>2, <2>1, <2>2 DEF Carried
<1>4. ASSUME NEW i \in jobs
      PROVE  /\ Exists(i.event)'
             /\ i.stage = "ready" => \A f \in i.state : Exists(f)'
  <2>1. i.event \in Event /\ (i.stage = "ready" => i.state \subseteq Event)
    BY <1>1, JobFields
  <2> QED BY <1>1, <2>1 DEF Carried
<1> QED BY <1>3, <1>4

LEMMA BackfillIndexKeeps ==
    ASSUME IInv, NEW t \in Task, BackfillIndex(t) PROVE IInv'
<1>1. handler[t].pc = "prepend" /\ handler \in [Task -> Handlers]
      /\ writer.pc # "index"
  BY DEF BackfillIndex, IInv, TypeOK, Locks
<1>2. PICK e \in Event : e = handler[t].event /\ e \in Remote
  BY <1>1, Backfilling
<1>3. PICK n \in Int : n = handler[t].at /\ n < 0
  BY <1>1, HandlerFields DEF IInv, Numbers
<1>4. /\ index' = [index EXCEPT ![e] = n] /\ outlier' = outlier \ {e}
      /\ handler' = [handler EXCEPT ![t] = Idle] /\ fed' = NoTask
      /\ fed = t /\ JobsOf(t) = {}
      /\ UNCHANGED <<rows, snapshot, roomState, leaves, referenced, softFailed,
                     parents, count, jobs, writer, awaited, torn, bare,
                     forgotten, faults>>
  BY <1>1, <1>2, <1>3, Backfilling DEF BackfillIndex, Return, LeaveRoom, history
<1>5. Idle \in Handlers /\ Idle.pc = "idle"
  BY DEF Handlers, Idle
<1>6. \A s \in Task : handler'[s] = IF s = t THEN Idle ELSE handler[s]
  BY <1>1, <1>4
<1>7. /\ index' \in [Event -> Int]
      /\ \A x \in Event : index'[x] = IF x = e THEN n ELSE index[x]
      /\ \A f \in Event : Exists(f) => Exists(f)'
  <2>1. n # 0
    BY <1>3
  <2> QED BY <1>4, <2>1, IndexedExists
<1>8. TypeOK'
  <2>1. handler' \in [Task -> Handlers]
    BY <1>1, <1>4, <1>5
  <2> QED BY <1>4, <1>7, <2>1 DEF IInv, TypeOK
<1>9. Locks'
  <2>1. Locks /\ NoTask \notin Task
    BY RoomAssumption DEF IInv
  <2>2. writer # Free => writer.task \in Task
    BY WriterFields DEF IInv, TypeOK
  <2>3. \A j \in jobs : j.task \in Task /\ j.task # t
    BY <1>4, JobFields DEF IInv, TypeOK, JobsOf
  <2> QED BY <1>1, <1>4, <1>5, <1>6, <2>1, <2>2, <2>3 DEF Locks, OnItsOwn
<1>10. JobFor' /\ Origins'
  BY <1>4, <1>5, <1>6 DEF IInv, JobFor, Origins, OnItsOwn
<1>11. Numbers'
  <2>1. Numbers /\ Root \in Event /\ (writer.pc \in Stages => writer.event \in Event)
    BY Staged DEF IInv, Event
  <2>2. \A x \in Event : Placed(x) => Placed(x)'
    BY <1>3, <1>7 DEF Placed
  <2>3. writer'.pc \in {"effects", "state"} => Placed(writer.event)'
    BY <1>4, <2>1, <2>2 DEF Numbers, Stages
  <2>4. Placed(Root)'
    BY <2>1, <2>2 DEF Numbers
  <2>5. \A s \in Task : handler'[s].pc = "prepend" => handler'[s].at < 0
    BY <1>5, <1>6, <2>1 DEF Numbers
  <2> QED BY <1>1, <1>4, <2>3, <2>4, <2>5 DEF Numbers, Placed
<1>12. Carried'
  <2>1. Carried /\ (writer.pc \in Stages => writer.state \subseteq Event)
    BY Staged DEF IInv
  <2>2. writer.pc \in Stages \ {"join"} =>
          \A f \in writer.state :
              Exists(f)' \/ (writer.own /\ writer.pc # "before"
                                       /\ f = writer.event)
    BY <1>7, <2>1 DEF Carried
  <2>3. ASSUME NEW u \in Task
        PROVE  (/\ handler[u].pc \in {"fetch", "prevs", "upgrade"} =>
                     Exists(handler[u].event)
                /\ handler[u].pc = "fetch" =>
                     \A p \in handler[u].info : Exists(p))'
    BY <1>4, <1>5, <1>6, <1>7, CarriedOn DEF Exists, Placed
  <2>4. \A j \in jobs' :
          /\ Exists(j.event)'
          /\ j.stage = "ready" => \A f \in j.state : Exists(f)'
    BY <1>4, <1>7, CarriedOn
  <2> QED BY <1>4, <2>1, <2>2, <2>3, <2>4 DEF Carried
<1>13. StateKnown'
  <2>1. \A x \in Event : index'[x] > 0 => snapshot'[x] # NoState
    BY <1>3, <1>4, <1>7 DEF IInv, StateKnown
  <2>2. \A x \in Event : snapshot'[x] # NoState => \A f \in snapshot'[x] : Exists(f)'
    BY <1>4, <1>7, Tables DEF IInv, StateKnown
  <2>3. \A f \in roomState' : Exists(f)'
    BY <1>4, <1>7, Tables DEF IInv, StateKnown
  <2> QED BY <2>1, <2>2, <2>3 DEF StateKnown
<1>14. Forks' /\ NoForkLost'
  BY <1>3, <1>4, <1>7 DEF IInv, Forks, NoForkLost
<1> QED BY <1>8, <1>9, <1>10, <1>11, <1>12, <1>13, <1>14 DEF IInv

LEMMA PutIndexKeeps ==
    ASSUME IInv, PutIndex PROVE IInv'
<1>1. writer.pc = "index" /\ writer.pc \in Stages /\ "effects" \in Stages
      /\ index \in [Event -> Int] /\ handler \in [Task -> Handlers]
  BY DEF PutIndex, Stages, IInv, TypeOK
<1>2. PICK e \in Event, n \in Nat : e = writer.event /\ n = writer.at /\ n > 0
  BY <1>1, Staged DEF IInv, Numbers
<1>3. /\ e \in (IF writer.own THEN Local ELSE Remote)
      /\ snapshot[e] # NoState /\ e \in leaves
      /\ writer.own \in BOOLEAN /\ (writer.own => ~writer.soft)
      /\ ~writer.soft => e \in writer.leaves
      /\ \A f \in writer.state : Exists(f) \/ (writer.own /\ f = e)
  BY <1>1, <1>2, Staged DEF IInv, Origins, Carried, Forks, Stages
<1>4. PICK w \in Writers :
              /\ writer' = w /\ w # Free
              /\ w.pc = "effects" /\ w.task = writer.task
              /\ w.event = writer.event
              /\ w.own = writer.own /\ w.soft = writer.soft
              /\ w.state = writer.state /\ w.leaves = writer.leaves
  BY <1>1, Advance DEF PutIndex
<1>5. /\ index' = [index EXCEPT ![e] = n] /\ outlier' = outlier \ {e}
      /\ UNCHANGED <<rows, snapshot, roomState, leaves, referenced, softFailed,
                     parents, count, fed, handler, jobs,
                     awaited, torn, bare, forgotten, faults>>
  BY <1>2 DEF PutIndex, history
<1>6. /\ index' \in [Event -> Int]
      /\ \A x \in Event : index'[x] = IF x = e THEN n ELSE index[x]
      /\ \A f \in Event : Exists(f) => Exists(f)'
  <2>1. n \in Int /\ n # 0
    BY <1>2
  <2> QED BY <1>5, <2>1, IndexedExists
<1>7. \A f \in Event : Exists(f) => Exists(f)'
  BY <1>6
<1>8. TypeOK'
  BY <1>4, <1>5, <1>6 DEF IInv, TypeOK
<1>9. \A t \in Task : handler[t].pc # "prepend"
  BY <1>1 DEF IInv, Locks
<1>11. Locks' /\ JobFor' /\ Origins'
  <2>1. OnItsOwn' <=> OnItsOwn
    BY <1>1, <1>4 DEF OnItsOwn
  <2>2. Locks'
    BY <1>1, <1>4, <1>5, <2>1, Staged DEF IInv, Locks
  <2>3. JobFor'
    BY <1>1, <1>4, <1>5, <2>1, Staged DEF IInv, JobFor
  <2>4. Origins'
    BY <1>2, <1>3, <1>4, <1>5 DEF IInv, Origins
  <2> QED BY <2>2, <2>3, <2>4
<1>12. Numbers'
  <2>1. Placed(Root)' /\ Placed(w.event)'
    BY <1>2, <1>4, <1>6 DEF IInv, Numbers, Placed, Event
  <2> QED BY <1>4, <1>5, <1>9, <2>1 DEF Numbers, Placed
<1>14. Carried'
  <2>1. Carried
    BY DEF IInv
  <2>2. ASSUME NEW u \in Task
        PROVE  (/\ handler[u].pc \in {"fetch", "prevs", "upgrade"} =>
                     Exists(handler[u].event)
                /\ handler[u].pc = "fetch" =>
                     \A p \in handler[u].info : Exists(p))'
    BY <1>5, <1>7, CarriedOn DEF Exists, Placed
  <2>3. \A j \in jobs' :
          /\ Exists(j.event)'
          /\ j.stage = "ready" => \A f \in j.state : Exists(f)'
    BY <1>5, <1>7, CarriedOn
  <2>4. \A f \in w.state : Exists(f)' \/ (w.own /\ f = w.event)
    <3>1. writer.state \subseteq Event
      BY <1>1, Staged
    <3> QED BY <1>2, <1>3, <1>4, <1>7, <3>1
  <2> QED BY <1>2, <1>3, <1>4, <1>5, <2>2, <2>3, <2>4 DEF Carried
<1>15. StateKnown'
  <2>1. \A x \in Event : index'[x] > 0 => snapshot'[x] # NoState
    BY <1>3, <1>5, <1>6 DEF IInv, StateKnown
  <2>2. \A x \in Event : snapshot'[x] # NoState => \A f \in snapshot'[x] : Exists(f)'
    BY <1>5, <1>7, Tables DEF IInv, StateKnown
  <2>3. \A f \in roomState' : Exists(f)'
    BY <1>5, <1>7, Tables DEF IInv, StateKnown
  <2> QED BY <2>1, <2>2, <2>3 DEF StateKnown
<1>16. Forks' /\ NoForkLost'
  BY <1>1, <1>2, <1>3, <1>4, <1>5, <1>6 DEF IInv, Forks, NoForkLost
<1> QED BY <1>8, <1>11, <1>12, <1>14, <1>15, <1>16 DEF IInv

-----------------------------------------------------------------------------
(* The timeout, the crash, and the whole *)

LEMMA TimeOutKeeps ==
    ASSUME IInv, NEW t \in Task, TimeOut(t) PROVE IInv'
<1>1. /\ handler' = [handler EXCEPT ![t] = Idle]
      /\ fed' = IF fed = t THEN NoTask ELSE fed
      /\ jobs' = {j \in jobs : j.task # t}
      /\ faults' \in {faults, faults + 1}
      /\ UNCHANGED <<rows, index, outlier, snapshot, roomState, referenced,
                     softFailed, parents, count, awaited, torn, bare>>
  BY DEF TimeOut, Return, LeaveRoom, JobsOf
<1>2. /\ Idle \in Handlers /\ Idle.pc = "idle"
      /\ Free \in Writers /\ Free.pc = "free"
  BY DEF Handlers, Idle, Writers, Free
<1>3. TypeOK /\ handler \in [Task -> Handlers] /\ jobs \subseteq Jobs
      /\ NoTask \notin Task
  BY RoomAssumption DEF IInv, TypeOK
<1>4. \A s \in Task : handler'[s] = IF s = t THEN Idle ELSE handler[s]
  BY <1>1, <1>3
<1>5. \/ writer' = writer /\ (writer # Free => writer.task # t)
      \/ writer' = Free
  BY DEF TimeOut, Building
<1>6. /\ leaves' \subseteq leaves /\ forgotten' = forgotten \cup (leaves \ leaves')
      /\ leaves' = leaves \/ writer' = Free
      /\ writer.pc = "put" => writer' = writer
  <2>1. CASE UNCHANGED <<leaves, forgotten>>
    BY <1>5, <2>1, <1>2 DEF TimeOut, Building
  <2>2. CASE TornLeaves(leaves) /\ writer' = Free /\ writer.pc = "clear"
    BY <2>2 DEF TornLeaves
  <2> QED BY <2>1, <2>2 DEF TimeOut
<1>7. TypeOK'
  <2>1. handler' \in [Task -> Handlers] /\ writer' \in Writers
    BY <1>1, <1>2, <1>3, <1>5 DEF TypeOK
  <2>2. leaves' \subseteq Event /\ forgotten' \subseteq Event /\ faults' \in Nat
        /\ fed' \in Task \cup {NoTask} /\ jobs' \subseteq Jobs
    BY <1>1, <1>3, <1>6 DEF TypeOK
  <2> QED BY <1>1, <1>3, <2>1, <2>2 DEF TypeOK
<1>8. Locks'
  <2>1. Locks /\ (writer # Free => writer.task \in Task)
    BY <1>3, WriterFields DEF IInv, TypeOK
  <2>2. \A s \in Task : handler'[s].pc \in {"backfill", "insert", "prepend"} =>
                           fed' = s
    BY <1>1, <1>2, <1>4, <2>1 DEF Locks
  <2>3. \A j \in jobs' : handler'[j.task].pc \in {"prevs", "upgrade"}
    <3>1. \A j \in jobs : j.task \in Task
      BY <1>3, JobFields
    <3> QED BY <1>1, <1>4, <2>1, <3>1 DEF Locks
  <2>4. (writer # Free /\ OnItsOwn => handler[writer.task] = Idle)'
    BY <1>4, <1>5, <2>1 DEF Locks, OnItsOwn
  <2>5. \A s \in Task : handler'[s].pc = "prepend" => writer'.pc # "index"
    BY <1>2, <1>4, <1>5, <2>1 DEF Locks
  <2> QED BY <2>2, <2>3, <2>4, <2>5 DEF Locks
<1>9. JobFor'
  <2>1. JobFor
    BY DEF IInv
  <2>2. CASE writer' = Free
    BY <1>1, <2>1, <2>2 DEF JobFor
  <2>3. CASE writer' = writer /\ (writer # Free => writer.task # t)
    BY <1>1, <2>1, <2>3 DEF JobFor, OnItsOwn
  <2> QED BY <1>5, <2>2, <2>3
<1>10. Origins' /\ Numbers'
  <2>1. CASE writer' = Free
    BY <1>1, <1>2, <1>4, <2>1 DEF IInv, Origins, Numbers, Placed, Stages
  <2>2. CASE writer' = writer
    BY <1>1, <1>2, <1>4, <2>2 DEF IInv, Origins, Numbers, Placed
  <2> QED BY <1>5, <2>1, <2>2
<1>11. \A e : Exists(e)' <=> Exists(e)
  BY <1>1 DEF Exists, Placed
<1>12. Carried'
  <2>1. Carried
    BY DEF IInv
  <2>2. ASSUME NEW u \in Task
        PROVE  (/\ handler[u].pc \in {"fetch", "prevs", "upgrade"} =>
                     Exists(handler[u].event)
                /\ handler[u].pc = "fetch" =>
                     \A p \in handler[u].info : Exists(p))'
    BY <1>1, <1>2, <1>4, <2>1 DEF Carried, Exists, Placed
  <2>3. \A i \in jobs' :
          /\ Exists(i.event)'
          /\ i.stage = "ready" => \A f \in i.state : Exists(f)'
    BY <1>1, <1>11, <2>1 DEF Carried
  <2>4. CASE writer' = Free
    BY <1>2, <2>2, <2>3, <2>4 DEF Carried, Stages
  <2>5. CASE writer' = writer
    <3>1. writer.pc \in Stages \ {"join"} =>
            \A f \in writer.state :
                Exists(f)' \/ (writer.own /\ writer.pc # "before"
                                         /\ f = writer.event)
      BY <1>11, <2>1 DEF Carried
    <3> QED BY <1>1, <2>1, <2>2, <2>3, <2>5, <3>1 DEF Carried
  <2> QED BY <1>5, <2>4, <2>5
<1>13. StateKnown'
  BY <1>1, <1>11 DEF IInv, StateKnown
<1>14. Forks' /\ NoForkLost'
  <2>1. CASE writer' = Free
    BY <1>1, <1>2, <1>6, <2>1 DEF IInv, Forks, NoForkLost, Stages
  <2>2. CASE writer' = writer /\ leaves' = leaves
    BY <1>1, <1>6, <2>2 DEF IInv, Forks, NoForkLost
  <2> QED BY <1>5, <1>6, <2>1, <2>2
<1> QED BY <1>7, <1>8, <1>9, <1>10, <1>12, <1>13, <1>14 DEF IInv

LEMMA CrashKeeps ==
    ASSUME IInv, Crash PROVE IInv'
<1>1. /\ torn' = torn \cup {r \in rows : index[r.event] # r.count}
      /\ fed' = NoTask /\ handler' = [t \in Task |-> Idle]
      /\ jobs' = {} /\ writer' = Free
      /\ UNCHANGED <<rows, index, outlier, snapshot, roomState, referenced,
                     softFailed, parents, count>>
      /\ bare' = bare /\ awaited' = {} /\ faults' = faults + 1
  BY DEF Crash
<1>2. /\ Idle \in Handlers /\ Idle.pc = "idle"
      /\ Free \in Writers /\ Free.pc = "free"
  BY DEF Handlers, Idle, Writers, Free
<1>3. \A t \in Task : handler'[t] = Idle
  BY <1>1
<1>4. /\ leaves' \subseteq Event /\ forgotten' \subseteq Event
      /\ \A e \in Event : index[e] > 0 =>
            e \in referenced \cup leaves' \cup forgotten'
  <2>1. CASE writer.pc \notin {"clear", "put"} /\ UNCHANGED <<leaves, forgotten>>
    BY <2>1, Tables DEF IInv, NoForkLost
  <2>2. CASE /\ writer.pc = "clear" /\ leaves' \in SUBSET leaves
             /\ forgotten' = forgotten \cup (leaves \ leaves')
    BY <2>2, Tables DEF IInv, NoForkLost
  <2>3. CASE /\ writer.pc = "put" /\ leaves' \in SUBSET writer.leaves
             /\ forgotten' = forgotten \cup (writer.leaves \ leaves')
    <3>1. writer.leaves \subseteq Event /\ leaves = {}
      BY <2>3, Staged DEF Stages, IInv, Forks
    <3> QED BY <2>3, <3>1, Tables DEF IInv, NoForkLost
  <2> QED BY <2>1, <2>2, <2>3 DEF Crash, TornLeaves
<1>5. TypeOK'
  <2>1. TypeOK
    BY DEF IInv
  <2>2. faults' \in Nat /\ torn' \subseteq rows
    BY <1>1, <2>1 DEF TypeOK
  <2>3. handler' \in [Task -> Handlers]
    BY <1>1, <1>2
  <2> QED BY <1>1, <1>2, <1>4, <2>1, <2>2, <2>3 DEF TypeOK
<1>6. Locks' /\ JobFor' /\ Origins' /\ Numbers'
  BY <1>1, <1>2, <1>3
     DEF IInv, Locks, JobFor, Origins, Numbers, Placed, Stages, OnItsOwn
<1>8. Carried' /\ StateKnown'
  BY <1>1, <1>2, <1>3 DEF IInv, Carried, StateKnown, Exists, Placed, Stages
<1>9. Forks' /\ NoForkLost'
  BY <1>1, <1>2, <1>4 DEF Forks, NoForkLost, Stages
<1> QED BY <1>5, <1>6, <1>8, <1>9 DEF IInv

LEMMA InitIInv == Init => IInv
<1> SUFFICES ASSUME Init PROVE IInv
  OBVIOUS
<1>1. /\ Idle \in Handlers /\ Idle.pc = "idle"
      /\ Free \in Writers /\ Free.pc = "free"
  BY DEF Handlers, Idle, Writers, Free
<1>2. Root \in Event /\ Remote \subseteq Event /\ NoEvent \notin Event
  BY RoomAssumption DEF Event
<1>3. \A t \in Task : handler[t] = Idle
  BY DEF Init
<1>4. TypeOK
  <2>1. parents \in [Event -> SUBSET Event]
    BY <1>2, RoomAssumption DEF Init, Event
  <2>2. snapshot \in [Event -> (SUBSET Event) \cup {NoState}]
    BY <1>2 DEF Init
  <2> QED BY <1>1, <1>2, <2>1, <2>2 DEF Init, TypeOK
<1>5. Locks /\ JobFor
  BY <1>1, <1>3 DEF Init, Locks, JobFor
<1>6. Origins
  BY <1>1, <1>2, <1>3 DEF Init, Origins, Stages
<1>7. Numbers
  BY <1>1, <1>2, <1>3 DEF Init, Numbers, Placed
<1>8. Exists(Root) /\ \A e \in Event : snapshot[e] # NoState => e = Root
  BY <1>2 DEF Init, Exists, Placed
<1>9. StateKnown
  <2>1. {} # NoState
    BY DEF NoState
  <2> QED BY <1>2, <1>8, <2>1 DEF Init, StateKnown
<1>10. Carried
  BY <1>1, <1>3 DEF Init, Carried, Stages
<1>11. Forks /\ NoForkLost
  BY <1>1 DEF Init, Forks, NoForkLost, Stages
<1> QED BY <1>4, <1>5, <1>6, <1>7, <1>9, <1>10, <1>11 DEF IInv

LEMMA StutterKeeps ==
    ASSUME IInv, UNCHANGED vars PROVE IInv'
BY DEF IInv, TypeOK, Locks, JobFor, Origins, Numbers, Carried,
       StateKnown, Forks, NoForkLost, Placed, Exists, OnItsOwn,
       vars, database, memory, history

LEMMA NextIInv == IInv /\ [Next]_vars => IInv'
<1> SUFFICES ASSUME IInv, [Next]_vars PROVE IInv'
  OBVIOUS
<1>1. ASSUME NEW t \in Task, Handle(t) PROVE IInv'
  <2>1. Sent \subseteq Remote /\ Paged \subseteq Remote /\ Signed \subseteq Remote
    BY RoomAssumption
  <2>2. CASE \E e \in Sent : ReceivePdu(t, e)
    BY <2>1, <2>2, TakeRoomKeeps DEF ReceivePdu
  <2>3. CASE \E e \in Paged : Backfill(t, e)
    BY <2>1, <2>3, TakeRoomKeeps DEF Backfill
  <2>4. CASE \E p \in Event : FetchPrev(t, p)
    BY <2>4, FetchKeeps
  <2>5. CASE \E e \in Signed : ReceiveSigned(t, e)
    BY <2>1, <2>5, ReceiveSignedKeeps
  <2> QED BY <1>1, <2>2, <2>3, <2>4, <2>5, DropKeeps, AcceptKeeps,
             HandlePrevsKeeps, PrevsDoneKeeps, HandlerDoneKeeps,
             BackfillOutlierKeeps, BackfillRowKeeps, BackfillIndexKeeps,
             BuildLockKeeps, TimeOutKeeps
          DEF Handle
<1>2. ASSUME NEW j \in jobs, Upgrade(j) PROVE IInv'
  BY <1>2, UpgradeEndsKeeps, UpgradePassesKeeps, LockRoomKeeps DEF Upgrade
<1>3. CASE Write
  BY <1>3, ForceStateKeeps, SetEventStateKeeps, LeavesKeep, SoftFailKeeps,
     PutRowKeeps, PutIndexKeeps, EffectsKeep, BuildFailsKeeps, MakeJoinKeeps,
     JoinFailsKeeps, SendJoinKeeps, ForceJoinStateKeeps, JoinStateKeeps,
     BuildKeeps, SetRoomStateKeeps
  DEF Write
<1> QED BY <1>1, <1>2, <1>3, CrashKeeps, StutterKeeps DEF Next

-----------------------------------------------------------------------------
(* The theorems *)

\* The inductive invariant holds in every reachable state: what the tasks of
\* the room carry between their locks fits the tables they go on to write.
THEOREM Invariance == Spec => []IInv
BY InitIInv, NextIInv, PTL DEF Spec

\* The tables and the tasks keep the types of the services' structs.
THEOREM TypeCorrect == Spec => []TypeOK
<1>1. IInv => TypeOK
  BY DEF IInv
<1> QED BY <1>1, Invariance, PTL

\* append_incoming_pdu and build_and_append_pdu write their tables in an order
\* in which no error, timeout or crash leaves an event without its state, or a
\* state with an event that does not exist.
THEOREM StateIsKnown == Spec => []StateKnown
<1>1. IInv => StateKnown
  BY DEF IInv
<1> QED BY <1>1, Invariance, PTL

\* set_forward_extremities never gives a fork of the room up, except what a local
\* event leaves out beyond MAX_LEAVES, what a join through another server
\* replaces, and what a crash or a timeout in the middle of it leaves unwritten;
\* an event that a soft-failed one refers to counts as referred to.
THEOREM ForksKept == Spec => []NoForkLost
<1>1. IInv => NoForkLost
  BY DEF IInv
<1> QED BY <1>1, Invariance, PTL

-----------------------------------------------------------------------------
(* One place for an event *)

\* Neither left over by a crash nor written without mutex_federation.
Regular(r) == r \notin torn \cup bare

\* The event has no regular row, or only the one with number n.
Unwritten(e) == \A r \in rows : r.event = e => ~Regular(r)

Only(e, n) == \A r \in rows : r.event = e /\ Regular(r) => r.count = n

\* The row of the writer is a regular one.
Locked == writer.own \/ writer.task = fed

\* What is on its way into the timeline has no regular row yet, or the one that
\* is about to be indexed.
Pending ==
    /\ \A t \in Task :
          /\ handler[t].pc = "insert" => Unwritten(handler[t].event)
          /\ handler[t].pc = "prepend" => Only(handler[t].event, handler[t].at)
    /\ \A j \in jobs : j.stage = "ready" /\ j.task = fed =>
          \/ Unwritten(j.event)
          \/ /\ writer.pc \in {"index", "effects"}
             /\ writer.task = j.task
             /\ writer.event = j.event
    /\ writer.pc \in Stages \ {"index", "effects", "state"} /\ writer.own =>
          Unwritten(writer.event)
    /\ writer.pc = "index" /\ Locked => Only(writer.event, writer.at)

\* get_pdu_id finds the event of a regular row, or the row has just been
\* written.
Settled(r) ==
    \/ Placed(r.event)
    \/ writer.pc = "index" /\ Locked /\ writer.event = r.event
    \/ \E t \in Task : handler[t].pc = "prepend" /\ handler[t].event = r.event

Places == \A r \in rows : r.count # 0 /\ (Regular(r) => Settled(r))

RowsInv == Pending /\ Places /\ OnePlace

\* A writer that has mutex_federation works for a job that is ready.
LEMMA WritersTask ==
    ASSUME IInv, writer.pc \in Stages
    PROVE  /\ writer.task \in Task /\ writer.event \in Event
           /\ writer.own => writer.event \in Local
           /\ ~writer.own =>
                 /\ writer.event \in Remote
                 /\ \E j \in jobs : /\ j.stage = "ready"
                                    /\ j.task = writer.task
                                    /\ j.event = writer.event
BY Staged DEF IInv, Origins

\* A step that writes neither a row nor an index keeps what is said of them.
LEMMA QuietRows ==
    ASSUME IInv, RowsInv, UNCHANGED <<rows, index, torn, bare>>,
           \A t \in Task :
              /\ handler'[t].pc = "insert" => Unwritten(handler'[t].event)
              /\ handler'[t].pc = "prepend" \/ handler[t].pc = "prepend" =>
                    handler'[t] = handler[t],
           \A j \in jobs' : j.stage = "ready" /\ j.task = fed' =>
              \/ Unwritten(j.event)
              \/ /\ writer'.pc \in {"index", "effects"}
                 /\ writer'.task = j.task
                 /\ writer'.event = j.event,
           writer'.pc \in Stages \ {"index", "effects", "state"} /\ writer'.own =>
              Unwritten(writer'.event),
           writer.pc = "index" \/ writer'.pc = "index" =>
              writer' = writer /\ (writer.own \/ (writer.task = fed <=>
                                                  writer.task = fed'))
    PROVE  RowsInv'
<1>1. \A r : Regular(r)' <=> Regular(r)
  BY DEF Regular
<1>2. \A e : Unwritten(e) => (Unwritten(e))'
  BY <1>1 DEF Unwritten
<1>3. (writer.pc = "index" \/ writer'.pc = "index") => (Locked' <=> Locked)
  BY DEF Locked
<1>4. Pending'
  <2>1. Pending
    BY DEF RowsInv
  <2>2. ASSUME NEW t \in Task
        PROVE  (/\ handler[t].pc = "insert" => Unwritten(handler[t].event)
                /\ handler[t].pc = "prepend" =>
                      Only(handler[t].event, handler[t].at))'
    BY <1>1, <2>1 DEF Pending, Unwritten, Only
  <2>3. (writer.pc = "index" /\ Locked => Only(writer.event, writer.at))'
    BY <1>1, <1>3, <2>1 DEF Pending, Only
  <2>4. (writer.pc \in Stages \ {"index", "effects", "state"} /\ writer.own =>
             Unwritten(writer.event))'
    BY <1>1 DEF Unwritten
  <2>5. ASSUME NEW j \in jobs', j.stage = "ready", j.task = fed'
        PROVE  (\/ Unwritten(j.event)
                \/ /\ writer.pc \in {"index", "effects"}
                   /\ writer.task = j.task
                   /\ writer.event = j.event)'
    BY <1>1, <2>5 DEF Unwritten
  <2> QED BY <2>2, <2>3, <2>4, <2>5 DEF Pending
<1>5. Places'
  <2>1. Places
    BY DEF RowsInv
  <2>2. ASSUME NEW r \in rows, Settled(r) PROVE Settled(r)'
    BY <1>3, <2>2 DEF Settled, Placed
  <2> QED BY <1>1, <2>1, <2>2 DEF Places
<1>6. OnePlace'
  BY DEF RowsInv, OnePlace
<1> QED BY <1>4, <1>5, <1>6 DEF RowsInv

\* A step of the handler of t that ends or begins no backfill of a row.
LEMMA HandlerRows ==
    ASSUME IInv, RowsInv, NEW t \in Task,
           UNCHANGED <<rows, index, torn, bare, writer>>,
           \A s \in Task \ {t} : handler'[s] = handler[s],
           handler[t].pc # "prepend", handler'[t].pc # "prepend",
           handler'[t].pc = "insert" => Unwritten(handler'[t].event),
           \A j \in jobs' : j.stage = "ready" => j \in jobs,
           \/ fed' = fed
           \/ /\ JobsOf(t) = {}
              /\ \A x \in Task : x # t => (fed' = x <=> fed = x)
    PROVE  RowsInv'
<1>1. jobs \subseteq Jobs /\ Pending
  BY DEF IInv, TypeOK, RowsInv
<1>2. ASSUME NEW s \in Task
      PROVE  /\ handler'[s].pc = "insert" => Unwritten(handler'[s].event)
             /\ handler'[s].pc = "prepend" \/ handler[s].pc = "prepend" =>
                    handler'[s] = handler[s]
  BY <1>1 DEF Pending
<1>3. ASSUME NEW j \in jobs', j.stage = "ready", j.task = fed'
      PROVE  j \in jobs /\ j.task = fed
  <2>1. j \in jobs /\ j.task \in Task
    BY <1>1, <1>3, JobFields
  <2> QED BY <1>3, <2>1 DEF JobsOf
<1>4. writer.pc = "index" =>
        writer.own \/ (writer.task = fed <=> writer.task = fed')
  BY WritersTask DEF JobsOf, Stages
<1>5. \A j \in jobs' : j.stage = "ready" /\ j.task = fed' =>
              \/ Unwritten(j.event)
              \/ /\ writer'.pc \in {"index", "effects"}
                 /\ writer'.task = j.task
                 /\ writer'.event = j.event
  BY <1>1, <1>3 DEF Pending
<1>6. writer'.pc \in Stages \ {"index", "effects", "state"} /\ writer'.own =>
              Unwritten(writer'.event)
  BY <1>1 DEF Pending
<1> QED BY <1>2, <1>4, <1>5, <1>6, QuietRows

\* A step of the writer before it writes a row, or after it has indexed one of
\* its own.
LEMMA WriterRows ==
    ASSUME IInv, RowsInv,
           UNCHANGED <<rows, index, torn, bare, handler, jobs>>,
           writer.pc # "index", writer'.pc # "index",
           writer.pc = "effects" => writer.own,
           writer'.pc \in Stages \ {"index", "effects", "state"} /\ writer'.own =>
              Unwritten(writer'.event),
           \A j \in jobs : j.task = fed' => j.task = fed
    PROVE  RowsInv'
<1>1. Pending
  BY DEF RowsInv
<1>2. \A t \in Task :
          /\ handler'[t].pc = "insert" => Unwritten(handler'[t].event)
          /\ handler'[t].pc = "prepend" \/ handler[t].pc = "prepend" =>
                handler'[t] = handler[t]
  BY <1>1 DEF Pending
<1>3. ASSUME NEW j \in jobs', j.stage = "ready", j.task = fed'
      PROVE  Unwritten(j.event)
  <2>1. j \in jobs /\ j.task = fed /\ j.event \in Remote
    BY <1>3 DEF IInv, Origins
  <2>2. writer.pc = "effects" => writer.event # j.event
    BY <2>1, WritersTask, RoomAssumption DEF Stages
  <2> QED BY <1>1, <1>3, <2>1, <2>2 DEF Pending
<1> QED BY <1>2, <1>3, QuietRows


\* The handler of t returns.
LEMMA ReturnRows ==
    ASSUME IInv, RowsInv, NEW t \in Task, handler[t].pc # "prepend",
           JobsOf(t) = {}, Return(t),
           UNCHANGED <<rows, index, torn, bare, writer, jobs>>
    PROVE  RowsInv'
<1>1. handler \in [Task -> Handlers] /\ NoTask \notin Task /\ Idle.pc = "idle"
  BY RoomAssumption DEF IInv, TypeOK, Idle
<1>2. \A s \in Task : handler'[s] = IF s = t THEN Idle ELSE handler[s]
  BY <1>1 DEF Return
<1>3. \A x \in Task : x # t => (fed' = x <=> fed = x)
  BY <1>1 DEF Return, LeaveRoom
<1> QED BY <1>1, <1>2, <1>3, HandlerRows

LEMMA TakeRoomRows ==
    ASSUME IInv, RowsInv, NEW t \in Task, NEW e \in Remote,
           NEW pc \in {"parse", "backfill"}, TakeRoom(t, e, pc)
    PROVE  RowsInv'
<1>1. handler \in [Task -> Handlers] /\ NoTask \notin Task
      /\ handler[t] = Idle /\ handler[t].pc = "idle"
  BY RoomAssumption DEF IInv, TypeOK, Idle, TakeRoom
<1>2. \A s \in Task : handler'[s] = IF s = t THEN [pc |-> pc, event |-> e]
                                             ELSE handler[s]
  BY <1>1 DEF TakeRoom
<1>3. handler'[t].pc \in {"parse", "backfill"}
  BY <1>2
<1>4. JobsOf(t) = {}
  BY <1>1 DEF IInv, Locks, JobsOf
<1>5. \A x \in Task : x # t => (fed' = x <=> fed = x)
  BY <1>1 DEF TakeRoom
<1>6. UNCHANGED <<rows, index, torn, bare, writer, jobs>>
  BY DEF TakeRoom, database, history
<1> QED BY <1>1, <1>2, <1>3, <1>4, <1>5, <1>6, HandlerRows

LEMMA ReceiveSignedRows ==
    ASSUME IInv, RowsInv, NEW t \in Task, NEW e \in Remote, ReceiveSigned(t, e)
    PROVE  RowsInv'
<1>1. handler \in [Task -> Handlers] /\ handler[t].pc = "idle"
  BY DEF IInv, TypeOK, Idle, ReceiveSigned
<1>2. \A s \in Task : handler'[s] = IF s = t THEN [pc |-> "parse", event |-> e]
                                             ELSE handler[s]
  BY <1>1 DEF ReceiveSigned
<1>3. handler'[t].pc = "parse"
  BY <1>2
<1>4. UNCHANGED <<rows, index, torn, bare, writer, jobs, fed>>
  BY DEF ReceiveSigned, database, history
<1> QED BY <1>1, <1>2, <1>3, <1>4, HandlerRows

LEMMA ReturnsRows ==
    ASSUME IInv, RowsInv, NEW t \in Task,
           DropPdu(t) \/ SkipOldPdu(t) \/ BackfillEnds(t) \/ HandlerDone(t)
    PROVE  RowsInv'
<1>1. /\ handler[t].pc \in {"parse", "fetch", "backfill", "upgrade"}
      /\ Return(t) /\ UNCHANGED <<rows, index, torn, bare, writer, jobs>>
      /\ handler[t].pc = "upgrade" => JobsOf(t) = {}
  BY DEF DropPdu, SkipOldPdu, BackfillEnds, HandlerDone, database, history
<1>2. JobsOf(t) = {}
  BY <1>1, AtWork
<1> QED BY <1>1, <1>2, ReturnRows

LEMMA FetchRows ==
    ASSUME IInv, RowsInv, NEW t \in Task,
           \/ AcceptOutlier(t)
           \/ \E p \in Event : FetchPrev(t, p)
           \/ HandlePrevs(t)
    PROVE  RowsInv'
<1>1. handler \in [Task -> Handlers] /\ handler[t].pc \in {"parse", "fetch"}
  BY DEF IInv, TypeOK, AcceptOutlier, FetchPrev, HandlePrevs
<1>2. PICK h : /\ handler' = [handler EXCEPT ![t] = h]
               /\ h.pc \in {"fetch", "prevs"}
  <2>1. CASE AcceptOutlier(t)
    <3>1. PICK g : g = [pc |-> "fetch", event |-> handler[t].event,
                        graph |-> {}, info |-> {},
                        stack |-> {p \in parents[handler[t].event] : ~Placed(p)},
                        amount |-> 0]
      OBVIOUS
    <3>2. handler' = [handler EXCEPT ![t] = g] /\ g.pc = "fetch"
      BY <2>1, <3>1 DEF AcceptOutlier
    <3> QED BY <3>2
  <2>2. CASE HandlePrevs(t)
    <3>1. PICK g : g = [pc |-> "prevs", event |-> handler[t].event,
                        failed |-> FALSE]
      OBVIOUS
    <3>2. handler' = [handler EXCEPT ![t] = g] /\ g.pc = "prevs"
      BY <2>2, <3>1 DEF HandlePrevs
    <3> QED BY <3>2
  <2>3. ASSUME NEW p \in Event, FetchPrev(t, p)
        PROVE  \E h : /\ handler' = [handler EXCEPT ![t] = h]
                      /\ h.pc \in {"fetch", "prevs"}
    BY <2>3, FetchStep
  <2> QED BY <2>1, <2>2, <2>3
<1>3. \A s \in Task : handler'[s] = IF s = t THEN h ELSE handler[s]
  BY <1>1, <1>2
<1>4. UNCHANGED <<rows, index, torn, bare, writer, fed>>
  BY DEF AcceptOutlier, FetchPrev, HandlePrevs, database, history
<1>5. \A j \in jobs' : j.stage = "ready" => j \in jobs
  <2>1. CASE HandlePrevs(t)
    BY <2>1 DEF HandlePrevs
  <2>2. CASE UNCHANGED jobs
    BY <2>2
  <2> QED BY <2>1, <2>2 DEF AcceptOutlier, FetchPrev
<1> QED BY <1>1, <1>2, <1>3, <1>4, <1>5, HandlerRows

LEMMA PrevsDoneRows ==
    ASSUME IInv, RowsInv, NEW t \in Task, PrevsDone(t) PROVE RowsInv'
<1>1. /\ handler \in [Task -> Handlers] /\ handler[t].pc = "prevs"
      /\ JobsOf(t) = {} /\ UNCHANGED <<rows, index, torn, bare, writer>>
  BY DEF IInv, TypeOK, PrevsDone, database, history
<1>2. CASE Return(t) /\ UNCHANGED jobs
  BY <1>1, <1>2, ReturnRows
<1>3. CASE /\ handler' = [handler EXCEPT ![t].pc = "upgrade"]
           /\ jobs' = jobs \cup {[task |-> t, event |-> handler[t].event,
                                  stage |-> "todo"]}
           /\ UNCHANGED fed
  <2>1. PICK g \in [pc : {"prevs", "upgrade"}, event : Remote,
                    failed : BOOLEAN] : g = handler[t]
    BY <1>1, HandlerFields
  <2>2. handler' = [handler EXCEPT ![t] = [g EXCEPT !.pc = "upgrade"]]
    BY <1>3, <2>1
  <2>3. \A s \in Task : handler'[s] = IF s = t THEN [g EXCEPT !.pc = "upgrade"]
                                               ELSE handler[s]
    BY <1>1, <2>2
  <2>4. handler'[t].pc = "upgrade"
    BY <2>1, <2>3
  <2>5. \A j \in jobs' : j.stage = "ready" => j \in jobs
    BY <1>3
  <2> QED BY <1>1, <1>3, <2>3, <2>4, <2>5, HandlerRows
<1> QED BY <1>2, <1>3 DEF PrevsDone

\* A regular row of an event of another server that get_pdu_id does not find
\* has just been written, for the holder of mutex_federation.
LEMMA NotFound ==
    ASSUME IInv, RowsInv, NEW e \in Remote, ~Placed(e),
           ~(writer.pc = "index" /\ writer.task = fed /\ writer.event = e),
           \A t \in Task : ~(handler[t].pc = "prepend" /\ handler[t].event = e)
    PROVE  Unwritten(e)
<1> SUFFICES ASSUME NEW r \in rows, r.event = e, Regular(r) PROVE FALSE
  BY DEF Unwritten
<1>1. Settled(r)
  BY DEF RowsInv, Places
<1>2. writer.pc = "index" /\ writer.event = e => ~writer.own
  BY WritersTask, RoomAssumption DEF Stages
<1> QED BY <1>1, <1>2 DEF Settled, Locked

LEMMA BackfillOutlierRows ==
    ASSUME IInv, RowsInv, NEW t \in Task, BackfillOutlier(t) PROVE RowsInv'
<1>1. handler \in [Task -> Handlers] /\ handler[t].pc = "backfill"
  BY DEF IInv, TypeOK, BackfillOutlier
<1>2. PICK g \in [pc : {"parse", "backfill", "insert"}, event : Remote] :
           g = handler[t]
  BY <1>1, HandlerFields
<1>3. /\ handler' = [handler EXCEPT ![t] = [g EXCEPT !.pc = "insert"]]
      /\ ~Placed(g.event)
      /\ UNCHANGED <<rows, index, torn, bare, writer, fed, jobs>>
  BY <1>2 DEF BackfillOutlier, history
<1>4. \A s \in Task : handler'[s] = IF s = t THEN [g EXCEPT !.pc = "insert"]
                                             ELSE handler[s]
  BY <1>1, <1>3
<1>5. handler'[t].pc = "insert" /\ handler'[t].event = g.event
  BY <1>2, <1>4
<1>6. fed = t /\ JobsOf(t) = {} /\ (writer # Free /\ OnItsOwn => writer.task # t)
  BY <1>1, AtWork
<1>7. writer.pc = "index" => writer.task # t
  BY <1>6, WritersTask DEF Stages, JobsOf, Free, OnItsOwn
<1>8. \A s \in Task : handler[s].pc # "prepend"
  BY <1>1, <1>6 DEF IInv, Locks
<1>9. Unwritten(g.event)
  BY <1>3, <1>6, <1>7, <1>8, NotFound
<1> QED BY <1>1, <1>3, <1>4, <1>5, <1>8, <1>9, HandlerRows

LEMMA UpgradeRows ==
    ASSUME IInv, RowsInv, NEW j \in jobs, UpgradePasses(j) PROVE RowsInv'
<1>1. j.task \in Task /\ j.event \in Remote /\ j.stage = "todo"
      /\ ~Placed(j.event) /\ Pending
  BY JobFields DEF IInv, TypeOK, Origins, UpgradePasses, RowsInv
<1>2. UNCHANGED <<rows, index, torn, bare, handler, writer, fed>>
  BY DEF UpgradePasses, history
<1>3. ASSUME NEW i \in jobs', i \notin jobs
      PROVE  i.task = j.task /\ i.event = j.event
  BY <1>3 DEF UpgradePasses
<1>4. ASSUME j.task = fed PROVE Unwritten(j.event)
  <2>1. ASSUME NEW s \in Task, handler[s].pc = "prepend" PROVE FALSE
    BY <1>1, <1>4, <2>1 DEF IInv, Locks
  <2>2. ~(writer.pc = "index" /\ writer.task = fed /\ writer.event = j.event)
    <3> SUFFICES ASSUME writer.pc = "index", writer.task = fed,
                        writer.event = j.event
                 PROVE  FALSE
      OBVIOUS
    <3>1. ~writer.own
      BY <1>1, WritersTask, RoomAssumption DEF Stages
    <3>2. PICK i \in jobs : /\ i.stage = "ready" /\ i.task = writer.task
                            /\ i.event = writer.event
      BY <3>1, WritersTask DEF Stages
    <3>3. i = j
      BY <1>4, <3>2 DEF IInv, JobFor
    <3> QED BY <1>1, <3>2, <3>3
  <2> QED BY <1>1, <2>1, <2>2, NotFound
<1>5. \A t \in Task :
          /\ handler'[t].pc = "insert" => Unwritten(handler'[t].event)
          /\ handler'[t].pc = "prepend" \/ handler[t].pc = "prepend" =>
                handler'[t] = handler[t]
  BY <1>1, <1>2 DEF Pending
<1>6. \A i \in jobs' : i.stage = "ready" /\ i.task = fed' =>
              \/ Unwritten(i.event)
              \/ /\ writer'.pc \in {"index", "effects"}
                 /\ writer'.task = i.task
                 /\ writer'.event = i.event
  BY <1>1, <1>2, <1>3, <1>4 DEF Pending
<1>7. writer'.pc \in Stages \ {"index", "effects", "state"} /\ writer'.own =>
              Unwritten(writer'.event)
  BY <1>1, <1>2 DEF Pending
<1> QED BY <1>2, <1>5, <1>6, <1>7, QuietRows

\* A job ends; if the writer worked for it, the state mutex is dropped.
LEMMA EndJobRows ==
    ASSUME IInv, RowsInv, NEW j \in jobs, NEW ok, EndJob(j, ok),
           \/ writer' = writer
           \/ /\ writer' = Free /\ writer.pc # "index"
              /\ j.task = writer.task /\ j.event = writer.event,
           UNCHANGED <<rows, index, torn, bare, fed>>
    PROVE  RowsInv'
<1>1. Pending /\ handler \in [Task -> Handlers] /\ j.task \in Task
  BY JobFields DEF IInv, TypeOK, RowsInv
<1>2. handler[j.task].pc \in {"prevs", "upgrade"}
  BY DEF IInv, Locks
<1>3. PICK g \in [pc : {"prevs", "upgrade"}, event : Remote,
                  failed : BOOLEAN] : g = handler[j.task]
  BY <1>1, <1>2, HandlerFields
<1>4. /\ handler' = [handler EXCEPT ![j.task] = [g EXCEPT !.failed = @ \/ ~ok]]
      /\ jobs' = jobs \ {j}
  BY <1>3 DEF EndJob
<1>5. \A s \in Task : /\ s # j.task => handler'[s] = handler[s]
                      /\ s = j.task => handler'[s].pc = g.pc
  BY <1>1, <1>3, <1>4
<1>6. \A t \in Task :
          /\ handler'[t].pc = "insert" => Unwritten(handler'[t].event)
          /\ handler'[t].pc = "prepend" \/ handler[t].pc = "prepend" =>
                handler'[t] = handler[t]
  BY <1>1, <1>2, <1>3, <1>5 DEF Pending
<1>7. ASSUME NEW i \in jobs', i.stage = "ready", i.task = fed'
      PROVE  \/ Unwritten(i.event)
             \/ /\ writer'.pc \in {"index", "effects"}
                /\ writer'.task = i.task
                /\ writer'.event = i.event
  <2>1. CASE writer' = writer
    BY <1>1, <1>4, <1>7, <2>1 DEF Pending
  <2>2. CASE j.task = writer.task /\ j.event = writer.event
    <3>1. ~(writer.task = i.task /\ writer.event = i.event)
      BY <1>4, <2>2 DEF IInv, JobFor
    <3> QED BY <1>1, <1>4, <1>7, <3>1 DEF Pending
  <2> QED BY <2>1, <2>2
<1>8. /\ writer'.pc \in Stages \ {"index", "effects", "state"} /\ writer'.own =>
              Unwritten(writer'.event)
      /\ writer.pc = "index" \/ writer'.pc = "index" => writer' = writer
  BY <1>1 DEF Pending, Stages, Free
<1> QED BY <1>6, <1>7, <1>8, QuietRows

LEMMA EndsRows ==
    ASSUME IInv, RowsInv,
           \/ \E j \in jobs : UpgradeEnds(j)
           \/ SoftFail
           \/ ForceState /\ UNCHANGED roomState /\ writer' = Free
           \/ AppendEffects /\ ~writer.own
    PROVE  RowsInv'
<1>1. ASSUME NEW j \in jobs, UpgradeEnds(j) PROVE RowsInv'
  <2>1. PICK ok : EndJob(j, ok)
    BY <1>1 DEF UpgradeEnds
  <2> QED BY <1>1, <2>1, EndJobRows DEF UpgradeEnds, database, history
<1>2. CASE \/ SoftFail
           \/ ForceState /\ UNCHANGED roomState /\ writer' = Free
           \/ AppendEffects /\ ~writer.own
  <2>1. /\ writer.pc \in {"soft", "force"} \/ (writer.pc = "effects" /\ ~writer.own)
        /\ writer' = Free
        /\ \E ok \in BOOLEAN : EndJob(JobOf(writer), ok)
        /\ UNCHANGED <<rows, index, torn, bare, fed>>
    <3>1. CASE SoftFail
      BY <3>1 DEF SoftFail, history
    <3>2. CASE ForceState /\ writer' = Free
      <4>1. writer.pc = "force" /\ writer \in Writers
        BY <3>2 DEF ForceState, IInv, TypeOK
      <4>2. PICK v \in [pc : Stages, task : Task, event : Event,
                  own : BOOLEAN, soft : BOOLEAN, state : SUBSET Event,
                  leaves : SUBSET Event, at : Nat] : v = writer
        BY <4>1, Staged DEF Stages
      <4>3. Free # [v EXCEPT !.pc = "snapshot"]
        <5>1. [v EXCEPT !.pc = "snapshot"].pc = "snapshot" /\ Free.pc = "free"
          BY <4>2 DEF Free
        <5> QED BY <5>1
      <4> QED BY <3>2, <4>2, <4>3 DEF ForceState, history
    <3>3. CASE AppendEffects /\ ~writer.own
      BY <3>3 DEF AppendEffects, database, history
    <3> QED BY <1>2, <3>1, <3>2, <3>3
  <2>2. writer.pc \in Stages /\ ~writer.own
    BY <2>1 DEF Stages, IInv, Origins
  <2>3. writer # Free /\ ~OnItsOwn
    BY <2>2, Staged
  <2>4. PICK i \in jobs : /\ i = JobOf(writer) /\ i.task = writer.task
                          /\ i.event = writer.event
    BY <2>3, WritersJob
  <2>5. PICK ok \in BOOLEAN : EndJob(i, ok)
    BY <2>1, <2>4
  <2> QED BY <2>1, <2>4, <2>5, EndJobRows
<1> QED BY <1>1, <1>2

\* Steps of the writer with the same event, that write no row.
LEMMA AdvanceRows ==
    ASSUME IInv, RowsInv, writer.pc \in Stages, NEW pc \in Stages,
           /\ writer'.pc = pc /\ writer'.event = writer.event
           /\ writer'.own = writer.own,
           writer.pc \notin {"index", "state"}, pc \notin {"index", "effects"},
           writer.pc = "effects" => writer.own /\ pc = "state",
           UNCHANGED <<rows, index, torn, bare, handler, jobs, fed>>
    PROVE  RowsInv'
<1>1. Pending
  BY DEF RowsInv
<1>2. writer'.pc \in Stages \ {"index", "effects", "state"} /\ writer'.own =>
          Unwritten(writer'.event)
  BY <1>1 DEF Pending
<1> QED BY <1>2, WriterRows

LEMMA StagesRows ==
    ASSUME IInv, RowsInv,
           \/ ForceState /\ UNCHANGED <<handler, jobs>>
                         /\ writer' = [writer EXCEPT !.pc = "snapshot"]
           \/ SetEventState \/ MarkReferenced \/ ClearLeaves \/ PutLeaves
           \/ ForceJoinState \/ JoinState
           \/ AppendEffects /\ writer.own
                            /\ writer' = [writer EXCEPT !.pc = "state"]
                            /\ UNCHANGED fed
    PROVE  RowsInv'
<1>1. /\ writer.pc \in Stages \ {"index", "state", "row", "soft"}
      /\ writer.pc = "effects" => AppendEffects
  BY DEF ForceState, SetEventState, MarkReferenced, ClearLeaves, PutLeaves,
         ForceJoinState, JoinState, AppendEffects, Stages
<1>2. UNCHANGED <<rows, index, torn, bare, handler, jobs, fed>>
  BY DEF ForceState, SetEventState, MarkReferenced, ClearLeaves, PutLeaves,
         ForceJoinState, JoinState, AppendEffects, database, history
<1>3. CASE JoinState
  <2>1. PICK v \in [pc : Stages, task : Task, event : Event,
                    own : BOOLEAN, soft : BOOLEAN, state : SUBSET Event,
                    leaves : SUBSET Event, at : Nat] : v = writer
    BY <1>1, Staged
  <2>2. writer' = [v EXCEPT !.pc = "referenced",
                            !.state = After(roomState, v.event)]
    BY <1>3, <2>1 DEF JoinState
  <2>3. /\ writer'.pc = "referenced" /\ writer'.event = writer.event
        /\ writer'.own = writer.own /\ "referenced" \in Stages
        /\ writer.pc # "effects"
    BY <1>3, <2>1, <2>2 DEF Stages, JoinState
  <2> QED BY <1>1, <1>2, <2>3, AdvanceRows
<1>4. CASE ~JoinState
  <2>1. PICK pc \in Stages \ {"index", "effects"} :
           /\ writer' = [writer EXCEPT !.pc = pc]
           /\ writer.pc = "effects" => pc = "state" /\ writer.own
    <3>1. {"snapshot", "referenced", "clear", "put", "soft", "row", "join", "state"}
             \subseteq Stages \ {"index", "effects"}
      BY DEF Stages
    <3>2. CASE ForceState /\ writer' = [writer EXCEPT !.pc = "snapshot"]
      BY <3>1, <3>2 DEF ForceState
    <3>3. CASE SetEventState
      BY <3>1, <3>3 DEF SetEventState
    <3>4. CASE MarkReferenced
      BY <3>1, <3>4 DEF MarkReferenced
    <3>5. CASE ClearLeaves
      BY <3>1, <3>5 DEF ClearLeaves
    <3>6. CASE PutLeaves
      BY <3>1, <3>6 DEF PutLeaves
    <3>7. CASE ForceJoinState
      BY <3>1, <3>7 DEF ForceJoinState
    <3>8. CASE writer.own /\ writer' = [writer EXCEPT !.pc = "state"]
      BY <3>1, <3>8
    <3> QED BY <1>4, <3>2, <3>3, <3>4, <3>5, <3>6, <3>7, <3>8
  <2>2. writer'.pc = pc /\ writer'.event = writer.event /\ writer'.own = writer.own
    BY <1>1, <2>1, Advance
  <2> QED BY <1>1, <1>2, <2>1, <2>2, AdvanceRows
<1> QED BY <1>3, <1>4

\* The state mutex is taken or dropped.
LEMMA LocksRows ==
    ASSUME IInv, RowsInv,
           \/ \E j \in jobs : LockRoom(j)
           \/ \E t \in Task : BuildLock(t)
           \/ BuildFails \/ MakeJoin \/ BelayEvents \/ JoinFails
           \/ SetRoomState
           \/ AppendEffects /\ writer.own /\ Unlock
    PROVE  RowsInv'
<1>1. UNCHANGED <<rows, index, torn, bare, handler, jobs>>
  BY DEF LockRoom, BuildLock, BuildFails, MakeJoin, BelayEvents, JoinFails,
         SetRoomState, AppendEffects, database, history
<1>2. /\ writer.pc # "index" /\ writer'.pc # "index"
      /\ writer.pc = "effects" => writer.own
      /\ writer'.pc \notin Stages \/ ~writer'.own
  <2>1. CASE \E j \in jobs : LockRoom(j)
    BY <2>1 DEF LockRoom, Free
  <2>2. CASE \E t \in Task : BuildLock(t)
    BY <2>2 DEF BuildLock, Free, Stages
  <2>3. CASE MakeJoin \/ BelayEvents
    <3>1. writer.pc \in {"create", "belay"} /\ writer \in Writers
      BY <2>3 DEF MakeJoin, BelayEvents, IInv, TypeOK
    <3>2. PICK v \in [pc : {"create", "belay", "answer"}, task : Task] : v = writer
      BY <3>1, WriterFields
    <3>3. PICK pc \in {"belay", "answer"} : writer' = [v EXCEPT !.pc = pc]
      BY <2>3, <3>2 DEF MakeJoin, BelayEvents
    <3>4. writer'.pc = pc
      BY <3>2, <3>3
    <3> QED BY <3>1, <3>4 DEF Stages
  <2>4. CASE BuildFails \/ JoinFails \/ SetRoomState
             \/ (AppendEffects /\ writer.own /\ Unlock)
    <3>1. writer' = Free /\ Free.pc = "free"
      BY <2>4 DEF BuildFails, JoinFails, SetRoomState, Unlock, Free
    <3> QED BY <2>4, <3>1 DEF BuildFails, JoinFails, SetRoomState, AppendEffects,
                              Stages
  <2> QED BY <2>1, <2>2, <2>3, <2>4
<1>3. ASSUME NEW j \in jobs, j.task = fed' PROVE j.task = fed
  <2>1. j.task \in Task /\ NoTask \notin Task
        /\ handler[j.task].pc \in {"prevs", "upgrade"}
    BY JobFields, RoomAssumption DEF IInv, TypeOK, Locks
  <2>2. CASE BelayEvents
    <3>1. writer.pc = "belay" /\ writer # Free /\ OnItsOwn
      BY <2>2 DEF BelayEvents, Free, OnItsOwn
    <3>2. handler[writer.task].pc = "idle"
      BY <3>1 DEF IInv, Locks, Idle
    <3> QED BY <1>3, <2>1, <2>2, <3>2 DEF BelayEvents
  <2>3. CASE Unlock
    BY <1>3, <2>1, <2>3 DEF Unlock, LeaveRoom
  <2>4. CASE UNCHANGED fed
    BY <1>3, <2>4
  <2> QED BY <2>2, <2>3, <2>4
          DEF LockRoom, BuildLock, BuildFails, MakeJoin, JoinFails, SetRoomState
<1> QED BY <1>1, <1>2, <1>3, WriterRows

\* An event of one's own is a new one.
LEMMA OwnRows ==
    ASSUME IInv, RowsInv, NEW e \in Local, Build(e) \/ SendJoin(e) PROVE RowsInv'
<1>1. /\ UNCHANGED <<rows, index, torn, bare, handler, jobs, fed>>
      /\ writer.pc \in {"create", "answer"} /\ ~Placed(e)
  BY DEF Build, SendJoin, Exists, history
<1>2. writer'.pc \in {"referenced", "before"} /\ writer'.event = e
  BY DEF Build, SendJoin
<1>3. Unwritten(e)
  <2> SUFFICES ASSUME NEW r \in rows, r.event = e, Regular(r) PROVE FALSE
    BY DEF Unwritten
  <2>1. Settled(r)
    BY DEF RowsInv, Places
  <2>2. \A t \in Task : handler[t].pc = "prepend" => handler[t].event \in Remote
    BY HandlerFields DEF IInv, TypeOK
  <2> QED BY <1>1, <2>1, <2>2, RoomAssumption DEF Settled
<1> QED BY <1>1, <1>2, <1>3, WriterRows

LEMMA PutRowRows ==
    ASSUME IInv, RowsInv, PutRow PROVE RowsInv'
<1>1. writer.pc = "row" /\ writer.pc \in Stages /\ count \in Nat
      /\ \A t \in Task : handler[t].pc # "prepend"
  BY DEF PutRow, Stages, IInv, TypeOK
<1>2. PICK v \in [pc : Stages, task : Task, event : Event,
                  own : BOOLEAN, soft : BOOLEAN, state : SUBSET Event,
                  leaves : SUBSET Event, at : Nat] : v = writer
  BY <1>1, Staged
<1>3. PICK row : row = [count |-> count + 1, event |-> v.event]
  OBVIOUS
<1>4. row.count = count + 1 /\ row.count # 0 /\ row.event = v.event
  BY <1>1, <1>3
<1>5. /\ rows' = rows \cup {row}
      /\ writer' = [v EXCEPT !.pc = "index", !.at = count + 1]
      /\ bare' = IF v.own \/ fed = v.task THEN bare ELSE bare \cup {row}
      /\ UNCHANGED <<index, fed, handler, jobs, torn>>
  BY <1>2, <1>3 DEF PutRow
<1>6. /\ writer'.pc = "index" /\ writer'.event = v.event
      /\ writer'.task = v.task /\ writer'.own = v.own
      /\ writer'.at = row.count
  BY <1>2, <1>4, <1>5
<1>7. Locked' <=> Locked
  BY <1>2, <1>5, <1>6 DEF Locked
<1>8. \A r \in rows : Regular(r)' => Regular(r)
  BY <1>5 DEF Regular
<1>9. Locked => Unwritten(v.event)
  <2>1. Pending
    BY DEF RowsInv
  <2>2. CASE v.own
    BY <1>1, <1>2, <2>1, <2>2 DEF Pending
  <2>3. CASE ~v.own /\ v.task = fed
    <3>1. PICK j \in jobs : /\ j.stage = "ready" /\ j.task = v.task
                            /\ j.event = v.event
      BY <1>1, <1>2, <2>3, WritersTask
    <3> QED BY <1>1, <2>1, <2>3, <3>1 DEF Pending
  <2> QED BY <1>2, <2>2, <2>3 DEF Locked
<1>10. ~Locked => ~Regular(row)'
  BY <1>2, <1>5 DEF Locked, Regular
<1>11. ASSUME NEW e, Unwritten(e), e # v.event \/ ~Locked
       PROVE  Unwritten(e)'
  BY <1>4, <1>5, <1>8, <1>10, <1>11 DEF Unwritten
<1>12. Pending'
  <2>1. Pending
    BY DEF RowsInv
  <2>2. ASSUME NEW t \in Task, handler'[t].pc = "insert"
        PROVE  Unwritten(handler[t].event)'
    <3>1. handler[t].pc = "insert" /\ handler[t].event \in Remote /\ fed = t
          /\ writer.task # t /\ Unwritten(handler[t].event)
      BY <1>1, <1>5, <2>1, <2>2, Backfilling, Staged DEF Pending
    <3>2. handler[t].event # v.event \/ ~Locked
      BY <1>1, <1>2, <3>1, WritersTask, RoomAssumption DEF Locked
    <3>3. PICK e : e = handler[t].event
      OBVIOUS
    <3>4. Unwritten(e)'
      BY <1>11, <3>1, <3>2, <3>3
    <3>5. handler'[t].event = e
      BY <1>5, <3>3
    <3> QED BY <3>4, <3>5 DEF Unwritten
  <2>3. ASSUME NEW j \in jobs', j.stage = "ready", j.task = fed'
        PROVE  (\/ Unwritten(j.event)
                \/ /\ writer.pc \in {"index", "effects"}
                   /\ writer.task = j.task
                   /\ writer.event = j.event)'
    <3>1. j \in jobs /\ j.task = fed /\ Unwritten(j.event) /\ j.event \in Remote
      BY <1>1, <1>5, <2>1, <2>3 DEF Pending, IInv, Origins
    <3>2. CASE j.event # v.event \/ ~Locked
      BY <1>11, <3>1, <3>2
    <3>3. CASE j.event = v.event /\ Locked
      <4>1. v.task = fed
        BY <1>1, <1>2, <3>1, <3>3, WritersTask, RoomAssumption DEF Locked
      <4> QED BY <1>6, <3>1, <3>3, <4>1
    <3> QED BY <3>2, <3>3
  <2>4. (writer.pc = "index" /\ Locked => Only(writer.event, writer.at))'
    <3>1. ASSUME Locked, NEW r \in rows', r.event = v.event, Regular(r)'
          PROVE  r.count = row.count
      BY <1>5, <1>8, <1>9, <3>1 DEF Unwritten
    <3> QED BY <1>6, <1>7, <3>1 DEF Only
  <2>5. \A t \in Task : handler'[t].pc # "prepend"
    BY <1>1, <1>5
  <2> QED BY <1>5, <1>6, <2>2, <2>3, <2>4, <2>5 DEF Pending
<1>13. Places'
  <2>1. ASSUME NEW r \in rows, Regular(r)' PROVE r.count # 0 /\ Settled(r)'
    <3>1. r.count # 0 /\ Settled(r)
      BY <1>8, <2>1 DEF RowsInv, Places
    <3>2. Placed(r.event)
      BY <1>1, <3>1 DEF Settled
    <3> QED BY <1>5, <3>1, <3>2 DEF Settled, Placed
  <2>2. Regular(row)' => Settled(row)'
    BY <1>4, <1>6, <1>7, <1>10 DEF Settled
  <2>3. \A r \in rows : r.count # 0
    BY DEF RowsInv, Places
  <2> QED BY <1>4, <1>5, <2>1, <2>2, <2>3 DEF Places
<1>14. OnePlace'
  <2>1. ASSUME NEW r \in rows, r.event = row.event
        PROVE  ~Regular(r)' \/ ~Regular(row)'
    BY <1>4, <1>8, <1>9, <1>10, <2>1 DEF Unwritten
  <2>2. ASSUME NEW r \in rows, NEW q \in rows, r.event = q.event
        PROVE  r = q \/ ~Regular(r)' \/ ~Regular(q)'
    BY <1>8, <2>2 DEF RowsInv, OnePlace, Regular
  <2> QED BY <1>5, <2>1, <2>2 DEF OnePlace, Regular
<1> QED BY <1>12, <1>13, <1>14 DEF RowsInv

LEMMA PutIndexRows ==
    ASSUME IInv, RowsInv, PutIndex PROVE RowsInv'
<1>1. /\ writer.pc = "index" /\ writer.pc \in Stages /\ "effects" \in Stages
      /\ index \in [Event -> Int]
      /\ \A t \in Task : handler[t].pc # "prepend"
  BY DEF PutIndex, Stages, IInv, TypeOK, Locks
<1>2. PICK e \in Event, n \in Nat : e = writer.event /\ n = writer.at /\ n > 0
  BY <1>1, Staged DEF IInv, Numbers
<1>3. /\ writer'.pc = "effects" /\ writer'.task = writer.task
      /\ writer'.event = writer.event
  BY <1>1, Advance DEF PutIndex
<1>4. /\ index' = [index EXCEPT ![e] = n]
      /\ UNCHANGED <<rows, torn, bare, fed, handler, jobs>>
  BY <1>2 DEF PutIndex, history
<1>5. \A x \in Event : Placed(x)' <=> x = e \/ Placed(x)
  BY <1>1, <1>2, <1>4 DEF Placed
<1>6. /\ \A r : Regular(r)' <=> Regular(r)
      /\ \A x : Unwritten(x)' <=> Unwritten(x)
  BY <1>4 DEF Regular, Unwritten
<1>7. Pending'
  <2>1. Pending
    BY DEF RowsInv
  <2>2. ASSUME NEW t \in Task, handler'[t].pc = "insert"
        PROVE  Unwritten(handler[t].event)'
    BY <1>4, <1>6, <2>1, <2>2 DEF Pending, Unwritten
  <2>3. ASSUME NEW j \in jobs', j.stage = "ready", j.task = fed'
        PROVE  (\/ Unwritten(j.event)
                \/ /\ writer.pc \in {"index", "effects"}
                   /\ writer.task = j.task
                   /\ writer.event = j.event)'
    BY <1>3, <1>4, <1>6, <2>1, <2>3 DEF Pending
  <2> QED BY <1>1, <1>3, <1>4, <2>2, <2>3 DEF Pending
<1>8. Places'
  <2>1. ASSUME NEW r \in rows, Regular(r) PROVE Settled(r)'
    <3>1. Settled(r) /\ r.event \in Event
      BY <2>1 DEF RowsInv, Places, IInv, TypeOK
    <3>2. Placed(r.event)'
      BY <1>1, <1>2, <1>5, <3>1 DEF Settled
    <3> QED BY <3>2 DEF Settled
  <2> QED BY <1>4, <1>6, <2>1 DEF RowsInv, Places
<1>9. OnePlace'
  BY <1>4 DEF RowsInv, OnePlace
<1> QED BY <1>7, <1>8, <1>9 DEF RowsInv

LEMMA BackfillRowRows ==
    ASSUME IInv, RowsInv, NEW t \in Task, BackfillRow(t) PROVE RowsInv'
<1>1. /\ handler[t].pc = "insert" /\ writer.pc # "index" /\ count \in Nat
      /\ handler \in [Task -> Handlers]
  BY DEF BackfillRow, IInv, TypeOK
<1>2. PICK e \in Remote : e = handler[t].event
  BY <1>1, Backfilling
<1>3. fed = t /\ JobsOf(t) = {}
  BY <1>1, Backfilling
<1>4. PICK n \in Int : n = -(count + 1) /\ n # 0
  BY <1>1
<1>5. PICK row : row = [count |-> n, event |-> e]
  OBVIOUS
<1>6. row.count = n /\ row.event = e
  BY <1>5
<1>7. PICK h : h = [pc |-> "prepend", event |-> e, at |-> n]
  OBVIOUS
<1>8. h.pc = "prepend" /\ h.event = e /\ h.at = n
  BY <1>7
<1>9. /\ rows' = rows \cup {row}
      /\ handler' = [handler EXCEPT ![t] = h]
      /\ UNCHANGED <<index, fed, jobs, writer, torn, bare>>
  BY <1>2, <1>4, <1>5, <1>7 DEF BackfillRow, history
<1>10. \A s \in Task : handler'[s] = IF s = t THEN h ELSE handler[s]
  BY <1>1, <1>9
<1>11. \A s \in Task \ {t} : handler[s].pc \notin {"insert", "prepend"}
  BY <1>3 DEF IInv, Locks
<1>12. \A r : Regular(r)' <=> Regular(r)
  BY <1>9 DEF Regular
<1>13. Unwritten(e)
  BY <1>1, <1>2 DEF RowsInv, Pending
<1>14. Pending'
  <2>1. Pending
    BY DEF RowsInv
  <2>2. ASSUME NEW s \in Task
        PROVE  (/\ handler[s].pc = "insert" => Unwritten(handler[s].event)
                /\ handler[s].pc = "prepend" =>
                      Only(handler[s].event, handler[s].at))'
    <3>1. CASE s # t
      <4>1. handler'[s].pc \notin {"insert", "prepend"}
        BY <1>10, <1>11, <3>1
      <4> QED BY <4>1
    <3>2. CASE s = t
      <4>1. handler'[s] = h
        BY <1>10, <3>2
      <4>2. \A r \in rows' : r.event = e /\ Regular(r)' => r.count = n
        BY <1>6, <1>9, <1>12, <1>13 DEF Unwritten
      <4> QED BY <1>8, <4>1, <4>2 DEF Only
    <3> QED BY <3>1, <3>2
  <2>3. \A j \in jobs' : j.task # fed'
    BY <1>3, <1>9 DEF JobsOf
  <2>4. ASSUME writer.pc \in Stages \ {"index", "effects", "state"}, writer.own
        PROVE  Unwritten(writer.event)'
    <3>1. Unwritten(writer.event) /\ writer.event # e
      BY <2>1, <2>4, <1>2, WritersTask, RoomAssumption DEF Pending
    <3> QED BY <1>6, <1>9, <1>12, <3>1 DEF Unwritten
  <2> QED BY <1>1, <1>9, <2>2, <2>3, <2>4 DEF Pending
<1>15. Places'
  <2>1. ASSUME NEW r \in rows, Regular(r) PROVE Settled(r)'
    <3>1. Settled(r)
      BY <2>1 DEF RowsInv, Places
    <3>2. Placed(r.event)
      BY <1>1, <1>11, <3>1 DEF Settled
    <3> QED BY <1>9, <3>2 DEF Settled, Placed
  <2>2. Settled(row)'
    BY <1>6, <1>8, <1>10 DEF Settled
  <2> QED BY <1>4, <1>6, <1>9, <1>12, <2>1, <2>2 DEF RowsInv, Places
<1>16. OnePlace'
  <2>1. ASSUME NEW r \in rows, r.event = row.event PROVE ~Regular(r)
    BY <1>6, <1>13, <2>1 DEF Unwritten
  <2>2. ASSUME NEW r \in rows, NEW q \in rows, r.event = q.event
        PROVE  r = q \/ ~Regular(r) \/ ~Regular(q)
    BY <2>2 DEF RowsInv, OnePlace, Regular
  <2> QED BY <1>9, <2>1, <2>2 DEF OnePlace, Regular
<1> QED BY <1>14, <1>15, <1>16 DEF RowsInv

LEMMA BackfillIndexRows ==
    ASSUME IInv, RowsInv, NEW t \in Task, BackfillIndex(t) PROVE RowsInv'
<1>1. /\ handler[t].pc = "prepend" /\ handler \in [Task -> Handlers]
      /\ writer.pc # "index" /\ index \in [Event -> Int]
  BY DEF BackfillIndex, IInv, TypeOK, Locks
<1>2. PICK e \in Event : e = handler[t].event
  BY <1>1, Backfilling
<1>3. PICK n \in Int : n = handler[t].at /\ n < 0
  BY <1>1, HandlerFields DEF IInv, Numbers
<1>4. /\ index' = [index EXCEPT ![e] = n]
      /\ handler' = [handler EXCEPT ![t] = Idle]
      /\ fed = t /\ fed' = NoTask
      /\ UNCHANGED <<rows, jobs, writer, torn, bare>>
  BY <1>1, <1>2, <1>3, Backfilling DEF BackfillIndex, Return, LeaveRoom, history
<1>5. \A x \in Event : Placed(x)' <=> x = e \/ Placed(x)
  BY <1>1, <1>3, <1>4 DEF Placed
<1>6. \A s \in Task : handler'[s].pc \notin {"insert", "prepend"}
  <2>1. \A s \in Task \ {t} : handler[s].pc \notin {"insert", "prepend"}
    BY <1>4 DEF IInv, Locks
  <2> QED BY <1>1, <1>4, <2>1 DEF Idle
<1>7. \A j \in jobs' : j.task # fed'
  BY <1>4, JobFields, RoomAssumption DEF IInv, TypeOK
<1>8. Pending'
  BY <1>1, <1>4, <1>6, <1>7 DEF RowsInv, Pending, Unwritten, Regular
<1>9. Places'
  <2>1. ASSUME NEW r \in rows, Regular(r) PROVE Settled(r)'
    <3>1. Settled(r) /\ r.event \in Event
      BY <2>1 DEF RowsInv, Places, IInv, TypeOK
    <3>2. \A s \in Task : handler[s].pc = "prepend" => s = t
      BY <1>4 DEF IInv, Locks
    <3>3. Placed(r.event)'
      BY <1>1, <1>2, <1>5, <3>1, <3>2 DEF Settled
    <3> QED BY <3>3 DEF Settled
  <2> QED BY <1>4, <2>1 DEF RowsInv, Places, Regular
<1>10. OnePlace'
  BY <1>4 DEF RowsInv, OnePlace
<1> QED BY <1>8, <1>9, <1>10 DEF RowsInv

LEMMA TimeOutRows ==
    ASSUME IInv, RowsInv, NEW t \in Task, TimeOut(t) PROVE RowsInv'
<1>1. /\ handler' = [handler EXCEPT ![t] = Idle]
      /\ fed' = IF fed = t THEN NoTask ELSE fed
      /\ jobs' = {j \in jobs : j.task # t}
      /\ handler[t].pc # "prepend"
      /\ UNCHANGED <<rows, index, torn, bare>>
  BY DEF TimeOut, Return, LeaveRoom, JobsOf
<1>2. /\ handler \in [Task -> Handlers] /\ jobs \subseteq Jobs
      /\ NoTask \notin Task /\ Pending
  BY RoomAssumption DEF IInv, TypeOK, RowsInv
<1>3. \/ writer' = writer /\ (writer # Free => writer.task # t)
      \/ writer' = Free /\ writer.task = t /\ writer.pc # "index"
  BY DEF TimeOut, Building
<1>4. \A s \in Task : handler'[s] = IF s = t THEN Idle ELSE handler[s]
  BY <1>1, <1>2
<1>5. \A s \in Task :
          /\ handler'[s].pc = "insert" => Unwritten(handler'[s].event)
          /\ handler'[s].pc = "prepend" \/ handler[s].pc = "prepend" =>
                handler'[s] = handler[s]
  BY <1>1, <1>2, <1>4 DEF Pending, Idle
<1>6. ASSUME NEW j \in jobs', j.stage = "ready", j.task = fed'
      PROVE  \/ Unwritten(j.event)
             \/ /\ writer'.pc \in {"index", "effects"}
                /\ writer'.task = j.task
                /\ writer'.event = j.event
  <2>1. j \in jobs /\ j.task # t /\ j.task \in Task
    BY <1>1, <1>2, JobFields
  <2>2. j.task = fed
    BY <1>1, <1>2, <1>6, <2>1
  <2> QED BY <1>2, <1>3, <1>6, <2>1, <2>2 DEF Pending
<1>7. writer'.pc \in Stages \ {"index", "effects", "state"} /\ writer'.own =>
          Unwritten(writer'.event)
  BY <1>2, <1>3 DEF Pending, Stages, Free
<1>8. writer.pc = "index" \/ writer'.pc = "index" =>
          writer' = writer /\ (writer.own \/ (writer.task = fed <=>
                                              writer.task = fed'))
  <2>1. writer.pc = "index" => writer # Free /\ writer.task \in Task
    BY WritersTask DEF Free, Stages
  <2> QED BY <1>1, <1>2, <1>3, <2>1 DEF Free
<1> QED BY <1>1, <1>5, <1>6, <1>7, <1>8, QuietRows

LEMMA CrashRows ==
    ASSUME IInv, RowsInv, Crash PROVE RowsInv'
<1>1. /\ torn' = torn \cup {r \in rows : index[r.event] # r.count}
      /\ handler' = [t \in Task |-> Idle] /\ jobs' = {} /\ writer' = Free
      /\ UNCHANGED <<rows, index, bare>>
  BY DEF Crash
<1>2. \A t \in Task : handler'[t].pc = "idle"
  BY <1>1 DEF Idle
<1>3. Pending'
  BY <1>1, <1>2 DEF Pending, Free, Stages
<1>4. Places'
  <2>1. ASSUME NEW r \in rows, Regular(r)' PROVE Settled(r)'
    <3>1. index[r.event] = r.count /\ r.count # 0
      BY <1>1, <2>1 DEF Regular, RowsInv, Places
    <3> QED BY <1>1, <3>1 DEF Settled, Placed
  <2> QED BY <1>1, <2>1 DEF RowsInv, Places
<1>5. OnePlace'
  BY <1>1 DEF RowsInv, OnePlace
<1> QED BY <1>3, <1>4, <1>5 DEF RowsInv

LEMMA InitRows == Init => RowsInv
<1> SUFFICES ASSUME Init PROVE RowsInv
  OBVIOUS
<1>1. \A t \in Task : handler[t].pc = "idle"
  BY DEF Init, Idle
<1>2. writer.pc = "free" /\ jobs = {} /\ Root \in Event /\ index[Root] = 1
  BY DEF Init, Free, Event
<1>3. \A r \in rows : r.count = 1 /\ r.event = Root
  BY DEF Init
<1>4. Pending
  BY <1>1, <1>2 DEF Pending, Stages
<1>5. Places
  BY <1>2, <1>3 DEF Places, Settled, Placed
<1>6. OnePlace
  BY DEF Init, OnePlace
<1> QED BY <1>4, <1>5, <1>6 DEF RowsInv

LEMMA NextRows == IInv /\ RowsInv /\ [Next]_vars => RowsInv'
<1> SUFFICES ASSUME IInv, RowsInv, [Next]_vars PROVE RowsInv'
  OBVIOUS
<1>1. ASSUME NEW t \in Task, Handle(t) PROVE RowsInv'
  <2>1. Sent \subseteq Remote /\ Paged \subseteq Remote /\ Signed \subseteq Remote
    BY RoomAssumption
  <2>2. CASE \E e \in Sent : ReceivePdu(t, e)
    BY <2>1, <2>2, TakeRoomRows DEF ReceivePdu
  <2>3. CASE \E e \in Paged : Backfill(t, e)
    BY <2>1, <2>3, TakeRoomRows DEF Backfill
  <2>4. CASE \E e \in Signed : ReceiveSigned(t, e)
    BY <2>1, <2>4, ReceiveSignedRows
  <2> QED BY <1>1, <2>2, <2>3, <2>4, ReturnsRows, FetchRows, PrevsDoneRows,
             BackfillOutlierRows, BackfillRowRows, BackfillIndexRows,
             LocksRows, TimeOutRows
          DEF Handle
<1>2. ASSUME NEW j \in jobs, Upgrade(j) PROVE RowsInv'
  BY <1>2, EndsRows, UpgradeRows, LocksRows DEF Upgrade
<1>3. CASE Write
  <2>1. CASE ForceState
    BY <2>1, EndsRows, StagesRows DEF ForceState
  <2>2. CASE AppendEffects
    <3>1. CASE ~writer.own
      BY <2>2, <3>1, EndsRows
    <3>2. CASE writer.own
      <4>1. \/ writer' = [writer EXCEPT !.pc = "state"] /\ UNCHANGED fed
            \/ Unlock
        BY <2>2, <3>2 DEF AppendEffects
      <4> QED BY <2>2, <3>2, <4>1, LocksRows, StagesRows
    <3> QED BY <3>1, <3>2
  <2>3. CASE \E e \in Local : SendJoin(e) \/ Build(e)
    BY <2>3, OwnRows
  <2> QED BY <1>3, <2>1, <2>2, <2>3, EndsRows, StagesRows, LocksRows,
             PutRowRows, PutIndexRows
          DEF Write
<1>4. CASE UNCHANGED vars
  BY <1>4 DEF RowsInv, Pending, Places, OnePlace, Settled, Regular, Unwritten,
              Only, Locked, Placed, vars, database, memory, history
<1> QED BY <1>1, <1>2, <1>3, <1>4, CrashRows DEF Next

\* Whatever requests run at once, time out or die, append_pdu_json and
\* prepend_backfill_pdu give an event one row: a second row is written only for
\* an event whose first row a crash has left without its index, or without
\* mutex_federation, for an event that another server has signed for a local
\* request.
THEOREM OneRow == Spec => []OnePlace
<1>1. RowsInv => OnePlace
  BY DEF RowsInv
<1>2. Spec => []RowsInv
  BY InitRows, NextRows, Invariance, PTL DEF Spec
<1> QED BY <1>1, <1>2, PTL
=============================================================================
