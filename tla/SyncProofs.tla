----------------------------- MODULE SyncProofs -----------------------------
(***************************************************************************)
(* What readers of the two-phase counter can rely on, for every number of  *)
(* devices, writers, crashes and broken requests and for all limits.       *)
(***************************************************************************)
EXTENDS Sync, NatExtremes, FiniteSetTheorems, TLAPS

\* The updates of a device up to number k have reached it.
Covered(d, k) ==
    \A r \in db.rows : r.topic \in Stream \cup {d} /\ r.count <= k =>
        r.count \in seen[d] \cup reused

\* No write in progress, or still to come, gets a number up to k, except one
\* that was lost.
Closed(k) == \A n \in Nat : released < n /\ n <= k => n \in reused

CounterOK ==
    /\ db.count = dispatched
    /\ released <= dispatched
    /\ \A p \in pending : released < p

\* What is stored is behind the counter, in the database and in the log.
TablesOK ==
    /\ \A r \in db.rows : 1 <= r.count /\ r.count <= dispatched
    /\ \A r \in durable.rows : 1 <= r.count /\ r.count <= durable.count
    /\ durable.count <= dispatched
    /\ durable.educount <= db.educount
    /\ durable.educount <= durable.count
    /\ db.educount <= dispatched
    /\ \A p \in pending : db.educount < p

\* The log lacks the removal of what a device has received, and no other.
LogOK ==
    \A r \in durable.rows :
        r \in db.rows \/ (r.topic \in Device /\ r.count \in removed[r.topic])

ClientOK(d) ==
    /\ Closed(token[d])
    /\ Covered(d, token[d])
    /\ \A n \in seen[d] : 1 <= n /\ (n <= released \/ n \in reused)

\* A request of device d whose state is q.
Sound(d, q) ==
    /\ q.pc \in {"watch", "count", "pending", "build"} =>
          Closed(q.since) /\ Covered(d, q.since)
    /\ q.pc \in {"build", "wait", "reply"} => q.next <= released
    /\ q.pc = "build" => q.since <= q.next
    /\ q.pc = "wait" => Covered(d, q.next)
    /\ q.pc = "reply" =>
          /\ \A n \in q.got : 1 <= n /\ n <= q.next
          /\ \A r \in db.rows :
                r.topic \in Stream \cup {d} /\ r.count <= q.next =>
                    r.count \in seen[d] \cup q.got \cup reused

IInv ==
    /\ TypeOK
    /\ CounterOK
    /\ TablesOK
    /\ LogOK
    /\ InboxKept
    /\ EduNotMissed
    /\ \A d \in Device : ClientOK(d) /\ Sound(d, device[d])

-----------------------------------------------------------------------------
(* Lemmas about the operators *)

\* A bounded set of numbers has a largest member.
LEMMA MaxOfSet ==
    ASSUME NEW n \in Nat, NEW S \in SUBSET (0..n), S # {}
    PROVE  MaxOf(S) \in S /\ \A m \in S : m <= MaxOf(S)
<1>1. S \in SUBSET Nat /\ \A m \in S : m <= n
  OBVIOUS
<1>2. IsFiniteSet(S)
  BY <1>1, FS_BoundedSetOfNaturals
<1>3. PICK k \in S : \A j \in S : j <= k
  BY <1>1, <1>2, LargestExists
<1>4. \A j \in S : k >= j
  BY <1>1, <1>3
<1>5. MaxOf(S) \in S /\ \A m \in S : MaxOf(S) >= m
  BY <1>3, <1>4 DEF MaxOf
<1> QED BY <1>1, <1>5

\* The retired number is below everything that is pending, and the largest
\* such number.
LEMMA RetiredBound ==
    ASSUME TypeOK
    PROVE  /\ Retired \in Nat
           /\ Retired <= dispatched
           /\ \A p \in pending : Retired < p
           /\ \A k \in Nat : k <= dispatched /\ (\A p \in pending : k < p)
                                => k <= Retired
<1>1. CASE pending = {}
  BY <1>1 DEF Retired, TypeOK
<1>2. CASE pending # {}
  <2>1. pending \in SUBSET (0..dispatched) /\ dispatched \in Nat
    BY DEF TypeOK
  <2>2. PICK k \in pending : \A j \in pending : k <= j
    BY <1>2, <2>1, SmallestExists
  <2>3. MinOf(pending) \in pending /\ \A j \in pending : MinOf(pending) <= j
    BY <2>2 DEF MinOf
  <2>4. MinOf(pending) \in 1..dispatched /\ pending \subseteq 1..dispatched
    BY <2>3 DEF TypeOK
  <2>5. Retired = MinOf(pending) - 1
    BY <1>2 DEF Retired
  <2> HIDE DEF Retired
  <2> QED BY <2>1, <2>3, <2>4, <2>5
<1> QED BY <1>1, <1>2

\* What the states of a request look like.
LEMMA RequestFields ==
    ASSUME NEW q \in Requests
    PROVE  /\ q.pc \in {"idle", "watch", "count", "pending", "build", "wait",
                        "reply"}
           /\ q.pc \in {"watch", "count"} =>
                 q \in [pc : {"watch", "count"}, since : Nat]
           /\ q.pc = "pending" =>
                 q \in [pc : {"pending"}, since : Nat, target : Nat]
           /\ q.pc \in {"build", "wait"} =>
                 q \in [pc : {"build", "wait"}, since : Nat, next : Nat]
           /\ q.pc = "reply" =>
                 q \in [pc : {"reply"}, next : Nat, got : SUBSET Nat]
BY DEF Requests, Idle

\* The token of a device and its updates.
LEMMA NumbersIn ==
    ASSUME NEW rs, NEW r \in rs
    PROVE  r.count \in Numbers(rs)
BY DEF Numbers

-----------------------------------------------------------------------------
(* Steps of a request that touch neither the tables nor the counter *)

LEMMA RequestStep ==
    ASSUME IInv,
           NEW d \in Device, NEW q \in Requests, Sound(d, q),
           Goto(d, q),
           woken' \in [Device -> BOOLEAN], faults' \in Nat,
           UNCHANGED <<db, durable, counter, clients, removed, sent,
                       overLimit, reused>>
    PROVE  IInv'
<1> USE DEF IInv, counter, clients
<1>1. TypeOK'
  BY DEF TypeOK, Goto
<1>2. CounterOK' /\ TablesOK' /\ LogOK' /\ InboxKept' /\ EduNotMissed'
  BY DEF CounterOK, TablesOK, LogOK, InboxKept, EduNotMissed
<1>3. ASSUME NEW c \in Device
      PROVE  ClientOK(c)' /\ Sound(c, device[c])'
  <2>1. ClientOK(c)'
    BY DEF ClientOK, Closed, Covered
  <2>2. device'[c] = IF c = d THEN q ELSE device[c]
    BY DEF Goto, TypeOK
  <2>3. Sound(c, device'[c])
    BY <2>2
  <2>4. Sound(c, device[c])'
    BY <2>3 DEF Sound, Closed, Covered
  <2> QED BY <2>1, <2>4
<1> QED BY <1>1, <1>2, <1>3

LEMMA RequestKeeps ==
    ASSUME IInv, NEW d \in Device, Request(d) PROVE IInv'
<1> DEFINE q == [pc |-> "watch", since |-> token[d]]
<1>1. token[d] \in Nat /\ woken \in [Device -> BOOLEAN] /\ faults \in Nat
  BY DEF IInv, TypeOK
<1>2. q \in Requests
  BY <1>1 DEF Requests
<1>3. ClientOK(d)
  BY DEF IInv
<1>4. Sound(d, q)
  BY <1>3 DEF Sound, ClientOK
<1> QED BY <1>1, <1>2, <1>4, RequestStep DEF Request, counter, clients, history

LEMMA WatchKeeps ==
    ASSUME IInv, NEW d \in Device, Watch(d) PROVE IInv'
<1> DEFINE q == [device[d] EXCEPT !.pc = "count"]
<1>1. /\ device[d] \in Requests /\ device[d].pc = "watch" /\ faults \in Nat
      /\ woken' \in [Device -> BOOLEAN] /\ Sound(d, device[d])
  BY DEF IInv, TypeOK, Watch
<1>2. device[d] \in [pc : {"watch", "count"}, since : Nat]
  BY <1>1, RequestFields
<1>3. q \in [pc : {"watch", "count"}, since : Nat] /\ q.pc = "count"
      /\ q.since = device[d].since
  BY <1>2
<1>4. q \in Requests
  BY <1>3 DEF Requests
<1>5. Sound(d, q)
  BY <1>1, <1>3 DEF Sound
<1> QED BY <1>1, <1>4, <1>5, RequestStep DEF Watch, counter, clients, history

LEMMA CountKeeps ==
    ASSUME IInv, NEW d \in Device, Count(d) PROVE IInv'
<1> DEFINE q == [pc |-> "pending", since |-> device[d].since,
                 target |-> dispatched]
<1>1. /\ device[d] \in Requests /\ device[d].pc = "count" /\ faults \in Nat
      /\ woken \in [Device -> BOOLEAN] /\ Sound(d, device[d])
      /\ dispatched \in Nat
  BY DEF IInv, TypeOK, Count
<1>2. device[d].since \in Nat
  BY <1>1, RequestFields
<1>3. q \in Requests
  BY <1>1, <1>2 DEF Requests
<1>4. Sound(d, q)
  BY <1>1 DEF Sound
<1> QED BY <1>1, <1>3, <1>4, RequestStep DEF Count, counter, clients, history

LEMMA WaitPendingKeeps ==
    ASSUME IInv, NEW d \in Device, WaitPending(d) PROVE IInv'
<1> DEFINE s == IF device[d].since > released THEN released
                ELSE device[d].since
           q == [pc |-> "build", next |-> released, since |-> s]
<1>1. /\ device[d] \in Requests /\ device[d].pc = "pending" /\ faults \in Nat
      /\ woken \in [Device -> BOOLEAN] /\ Sound(d, device[d])
      /\ released \in Nat /\ db \in Databases
  BY DEF IInv, TypeOK, WaitPending
<1>2. device[d].since \in Nat
  BY <1>1, RequestFields
<1>3. s \in Nat /\ s <= released /\ s <= device[d].since
  BY <1>1, <1>2
<1>4. q \in Requests
  BY <1>1, <1>3 DEF Requests
<1>5. Closed(device[d].since) /\ Covered(d, device[d].since)
  BY <1>1 DEF Sound
<1>6. Closed(s) /\ Covered(d, s)
  <2>1. \A r \in db.rows : r.count \in Nat
    BY <1>1 DEF Databases, Rows
  <2>2. Closed(s)
    BY <1>1, <1>2, <1>3, <1>5 DEF Closed
  <2>3. Covered(d, s)
    BY <1>2, <1>3, <1>5, <2>1 DEF Covered
  <2> QED BY <2>2, <2>3
<1>7. Sound(d, q)
  BY <1>1, <1>3, <1>6 DEF Sound
<1> QED BY <1>1, <1>4, <1>7, RequestStep
        DEF WaitPending, counter, clients, history

LEMMA SkipKeeps ==
    ASSUME IInv, NEW d \in Device, Skip(d) PROVE IInv'
<1> DEFINE q == [device[d] EXCEPT !.pc = "wait"]
<1>1. /\ device[d] \in Requests /\ device[d].pc = "build" /\ faults \in Nat
      /\ woken \in [Device -> BOOLEAN] /\ Sound(d, device[d])
      /\ device[d].since = device[d].next
  BY DEF IInv, TypeOK, Skip
<1>2. device[d] \in [pc : {"build", "wait"}, since : Nat, next : Nat]
  BY <1>1, RequestFields
<1>3. /\ q \in [pc : {"build", "wait"}, since : Nat, next : Nat]
      /\ q.pc = "wait" /\ q.next = device[d].next
  BY <1>2
<1>4. q \in Requests
  BY <1>3 DEF Requests
<1>5. Sound(d, q)
  BY <1>1, <1>3 DEF Sound
<1> QED BY <1>1, <1>4, <1>5, RequestStep DEF Skip, counter, clients, history

LEMMA WakeKeeps ==
    ASSUME IInv, NEW d \in Device, Wake(d) PROVE IInv'
<1> DEFINE q == [pc |-> "watch", since |-> device[d].next]
<1>1. /\ device[d] \in Requests /\ device[d].pc = "wait" /\ faults \in Nat
      /\ woken \in [Device -> BOOLEAN] /\ Sound(d, device[d])
      /\ released \in Nat
  BY DEF IInv, TypeOK, Wake
<1>2. device[d].next \in Nat
  BY <1>1, RequestFields
<1>3. q \in Requests
  BY <1>2 DEF Requests
<1>4. Covered(d, device[d].next) /\ device[d].next <= released
  BY <1>1 DEF Sound
<1>5. Closed(device[d].next)
  BY <1>1, <1>2, <1>4 DEF Closed
<1>6. Sound(d, q)
  BY <1>4, <1>5 DEF Sound
<1> QED BY <1>1, <1>3, <1>6, RequestStep DEF Wake, counter, clients, history

LEMMA TimeoutKeeps ==
    ASSUME IInv, NEW d \in Device, Timeout(d) PROVE IInv'
<1> DEFINE q == [pc |-> "reply", next |-> device[d].next, got |-> {}]
<1>1. /\ device[d] \in Requests /\ device[d].pc = "wait" /\ faults \in Nat
      /\ woken \in [Device -> BOOLEAN] /\ Sound(d, device[d])
  BY DEF IInv, TypeOK, Timeout
<1>2. device[d].next \in Nat
  BY <1>1, RequestFields
<1>3. q \in Requests
  BY <1>2 DEF Requests
<1>4. Covered(d, device[d].next) /\ device[d].next <= released
  BY <1>1 DEF Sound
<1>5. Sound(d, q)
  BY <1>4 DEF Sound, Covered
<1> QED BY <1>1, <1>3, <1>5, RequestStep
        DEF Timeout, counter, clients, history

LEMMA LoseKeeps ==
    ASSUME IInv, NEW d \in Device, Lose(d) PROVE IInv'
<1>1. faults' \in Nat /\ woken \in [Device -> BOOLEAN]
  BY DEF IInv, TypeOK, Lose
<1>2. Idle \in Requests
  BY DEF Requests
<1>3. Sound(d, Idle)
  BY DEF Sound, Idle
<1> QED BY <1>1, <1>2, <1>3, RequestStep DEF Lose, counter, clients, history

-----------------------------------------------------------------------------
(* The other steps of a request *)

LEMMA DeliverKeeps ==
    ASSUME IInv, NEW d \in Device, Deliver(d) PROVE IInv'
<1> DEFINE q == device[d]
<1>1. /\ q \in Requests /\ q.pc = "reply" /\ Sound(d, q) /\ ClientOK(d)
      /\ released \in Nat /\ db \in Databases /\ TypeOK
  BY DEF IInv, TypeOK, Deliver
<1>2. q.next \in Nat /\ q.got \in SUBSET Nat
  BY <1>1, RequestFields
<1>3. /\ token' = [token EXCEPT ![d] = q.next]
      /\ seen' = [seen EXCEPT ![d] = @ \cup q.got]
      /\ device' = [device EXCEPT ![d] = Idle]
      /\ UNCHANGED <<db, durable, dispatched, pending, released, quiet, woken,
                     removed, sent, overLimit, reused, faults>>
  BY DEF Deliver, Goto, counter, history
<1> HIDE DEF q
<1>4. TypeOK'
  BY <1>1, <1>2, <1>3 DEF TypeOK, Requests
<1>5. CounterOK' /\ TablesOK' /\ LogOK' /\ EduNotMissed'
  BY <1>3 DEF IInv, CounterOK, TablesOK, LogOK, EduNotMissed
<1>6. \A c \in Device : seen[c] \subseteq seen'[c]
  BY <1>1, <1>3 DEF TypeOK
<1>7. InboxKept'
  BY <1>3, <1>6 DEF IInv, InboxKept
<1>8. ASSUME NEW c \in Device
      PROVE  ClientOK(c)' /\ Sound(c, device[c])'
  <2>1. CASE c = d
    <3>1. token'[c] = q.next /\ seen'[c] = seen[c] \cup q.got
          /\ device'[c] = Idle
      BY <1>1, <1>3, <2>1 DEF TypeOK
    <3>2. Sound(c, device[c])'
      BY <3>1 DEF Sound, Idle
    <3>3. q.next <= released
      BY <1>1 DEF Sound
    <3>4. Closed(token[c])'
      BY <1>1, <1>2, <1>3, <3>1, <3>3 DEF Closed
    <3>5. Covered(c, token[c])'
      BY <1>1, <1>3, <2>1, <3>1 DEF Covered, Sound
    <3>6. \A n \in q.got : 1 <= n /\ n <= released
      BY <1>1, <1>2, <3>3 DEF Sound
    <3>7. \A n \in seen'[c] : 1 <= n /\ (n <= released \/ n \in reused)
      BY <1>1, <2>1, <3>1, <3>6 DEF ClientOK
    <3> QED BY <1>3, <3>2, <3>4, <3>5, <3>7 DEF ClientOK
  <2>2. CASE c # d
    <3>1. token'[c] = token[c] /\ seen'[c] = seen[c]
          /\ device'[c] = device[c]
      BY <1>1, <1>3, <2>2 DEF TypeOK
    <3>2. ClientOK(c) /\ Sound(c, device[c])
      BY DEF IInv
    <3> QED BY <1>3, <3>1, <3>2 DEF ClientOK, Sound, Closed, Covered
  <2> QED BY <2>1, <2>2
<1> QED BY <1>4, <1>5, <1>7, <1>8 DEF IInv

\* The events that build_sync_events removes have been received.
LEMMA InboxReceived ==
    ASSUME IInv, NEW d \in Device, device[d].pc = "build"
    PROVE  Numbers(Inbox(d)) \subseteq seen[d] \cup reused
<1>1. Covered(d, device[d].since)
  BY DEF IInv, Sound
<1>2. ASSUME NEW r \in Inbox(d) PROVE r.count \in seen[d] \cup reused
  BY <1>1, <1>2 DEF Inbox, Covered
<1> QED BY <1>2 DEF Numbers

LEMMA BuildKeeps ==
    ASSUME IInv, NEW d \in Device, NEW full \in BOOLEAN, Build(d, full)
    PROVE  IInv'
<1> DEFINE q == device[d]
           p == device'[d]
<1>1. /\ q \in Requests /\ q.pc = "build" /\ Sound(d, q) /\ ClientOK(d)
      /\ TypeOK
  BY DEF IInv, TypeOK, Build
<1>2. q \in [pc : {"build", "wait"}, since : Nat, next : Nat]
  BY <1>1, RequestFields
<1>3. /\ db' = [db EXCEPT !.rows = @ \ Inbox(d)]
      /\ durable' = durable \/ durable' = db'
      /\ removed' = [removed EXCEPT ![d] = @ \cup Numbers(Inbox(d))]
      /\ woken' = [woken EXCEPT ![d] = @ \/ Inbox(d) # {}]
      /\ UNCHANGED <<dispatched, pending, released, quiet, token, seen, sent,
                     overLimit, reused, faults>>
  BY DEF Build, Flushed, counter, clients
<1>4. /\ device' = [device EXCEPT ![d] =
             IF Window(d) # {} \/ full
             THEN [pc |-> "reply", next |-> q.next, got |-> Numbers(Window(d))]
             ELSE [q EXCEPT !.pc = "wait"]]
  BY DEF Build, Goto
<1>5. db'.rows = db.rows \ Inbox(d) /\ db'.count = db.count
      /\ db'.educount = db.educount /\ db' \in Databases
  BY <1>1, <1>3 DEF TypeOK, Databases
<1>6. Numbers(Inbox(d)) \subseteq Nat /\ Numbers(Window(d)) \subseteq Nat
  BY <1>1 DEF TypeOK, Databases, Rows, Numbers, Inbox, Window
<1>7. p \in Requests
  <2>1. CASE Window(d) # {} \/ full
    BY <1>1, <1>2, <1>4, <1>6, <2>1 DEF TypeOK, Requests
  <2>2. CASE ~(Window(d) # {} \/ full)
    <3>1. p = [q EXCEPT !.pc = "wait"]
      BY <1>1, <1>4, <2>2 DEF TypeOK
    <3>2. p \in [pc : {"build", "wait"}, since : Nat, next : Nat]
      BY <1>2, <3>1
    <3> QED BY <3>2 DEF Requests
  <2> QED BY <2>1, <2>2
<1>8. TypeOK'
  <2>1. device' \in [Device -> Requests]
    BY <1>1, <1>4, <1>7 DEF TypeOK
  <2>2. removed' \in [Device -> SUBSET Nat] /\ woken' \in [Device -> BOOLEAN]
    BY <1>1, <1>3, <1>6 DEF TypeOK
  <2> QED BY <1>1, <1>3, <1>5, <2>1, <2>2 DEF TypeOK
<1>9. CounterOK' /\ TablesOK'
  <2>1. CounterOK'
    BY <1>3, <1>5 DEF IInv, CounterOK
  <2>2. TablesOK /\ CounterOK
    BY DEF IInv
  <2>3. TablesOK'
    <3>1. CASE durable' = durable
      BY <1>3, <1>5, <2>2, <3>1 DEF TablesOK
    <3>2. CASE durable' = db'
      BY <1>1, <1>3, <1>5, <2>2, <3>2
         DEF TablesOK, CounterOK, TypeOK, Databases, Rows
    <3> QED BY <1>3, <3>1, <3>2
  <2> QED BY <2>1, <2>3
<1>10. LogOK'
  <2>1. CASE durable' = db'
    BY <2>1 DEF LogOK
  <2>2. CASE durable' = durable
    <3>1. ASSUME NEW r \in durable.rows
          PROVE  r \in db'.rows
                 \/ (r.topic \in Device /\ r.count \in removed'[r.topic])
      <4>1. CASE r \in Inbox(d)
        <5>1. r.topic = d /\ r.count \in Numbers(Inbox(d))
          BY <4>1 DEF Inbox, Numbers
        <5>2. r.count \in removed'[d]
          BY <1>1, <1>3, <5>1 DEF TypeOK
        <5> QED BY <5>1, <5>2
      <4>2. CASE r \notin Inbox(d)
        <5>1. \A c \in Device : removed[c] \subseteq removed'[c]
          BY <1>1, <1>3 DEF TypeOK
        <5> QED BY <1>5, <4>2, <5>1 DEF IInv, LogOK
      <4> QED BY <4>1, <4>2
    <3> QED BY <2>2, <3>1 DEF LogOK
  <2> QED BY <1>3, <2>1, <2>2
<1>11. InboxKept'
  <2>1. Numbers(Inbox(d)) \subseteq seen[d] \cup reused
    BY <1>1, InboxReceived
  <2> QED BY <1>1, <1>3, <2>1 DEF IInv, InboxKept, TypeOK
<1>12. EduNotMissed'
  BY <1>3, <1>5 DEF IInv, EduNotMissed
<1>13. ASSUME NEW c \in Device
       PROVE  ClientOK(c)' /\ Sound(c, device[c])'
  <2>1. ClientOK(c)
    BY DEF IInv
  <2>2. ClientOK(c)'
    BY <1>3, <1>5, <2>1 DEF ClientOK, Closed, Covered
  <2>3. CASE c # d
    <3>1. device'[c] = device[c] /\ Sound(c, device[c])
      BY <1>1, <1>4, <2>3 DEF IInv, TypeOK
    <3>2. Sound(c, device[c])'
      BY <1>3, <1>5, <3>1 DEF Sound, Closed, Covered
    <3> QED BY <2>2, <3>2
  <2>4. CASE c = d
    <3>1. /\ q.since \in Nat /\ q.next \in Nat /\ released \in Nat
          /\ q.next <= released /\ Covered(d, q.since)
      BY <1>1, <1>2 DEF Sound, TypeOK
    <3>2. \A r \in db.rows : r.count \in Nat
      BY <1>1 DEF TypeOK, Databases, Rows
    <3>3. CASE Window(d) # {} \/ full
      <4>1. p = [pc |-> "reply", next |-> q.next, got |-> Numbers(Window(d))]
        BY <1>1, <1>4, <3>3 DEF TypeOK
      <4>2. \A n \in Numbers(Window(d)) : 1 <= n /\ n <= q.next
        BY <3>1, <3>2 DEF Numbers, Window
      <4>3. ASSUME NEW r \in db.rows, r.topic \in Stream \cup {d},
                   r.count <= q.next
            PROVE  r.count \in seen[d] \cup Numbers(Window(d)) \cup reused
        <5>1. CASE r.count <= q.since
          BY <3>1, <4>3, <5>1 DEF Covered
        <5>2. CASE ~(r.count <= q.since)
          <6>1. r \in Window(d)
            BY <3>1, <3>2, <4>3, <5>2 DEF Window
          <6> QED BY <6>1 DEF Numbers
        <5> QED BY <5>1, <5>2
      <4>4. Sound(c, device[c])'
        BY <1>3, <1>5, <2>4, <3>1, <4>1, <4>2, <4>3 DEF Sound
      <4> QED BY <2>2, <4>4
    <3>4. CASE ~(Window(d) # {} \/ full)
      <4>1. p = [q EXCEPT !.pc = "wait"]
        BY <1>1, <1>4, <3>4 DEF TypeOK
      <4>2. p.pc = "wait" /\ p.next = q.next
        BY <1>2, <4>1
      <4>3. Covered(d, q.next)
        <5>1. ASSUME NEW r \in db.rows, r.topic \in Stream \cup {d},
                     r.count <= q.next
              PROVE  r.count \in seen[d] \cup reused
          <6>1. r.count <= q.since
            BY <3>1, <3>2, <3>4, <5>1 DEF Window
          <6> QED BY <3>1, <5>1, <6>1 DEF Covered
        <5> QED BY <5>1 DEF Covered
      <4>4. Sound(c, device[c])'
        BY <1>3, <1>5, <2>4, <3>1, <4>2, <4>3 DEF Sound, Covered
      <4> QED BY <2>2, <4>4
    <3> QED BY <3>3, <3>4
  <2> QED BY <2>3, <2>4
<1> QED BY <1>8, <1>9, <1>10, <1>11, <1>12, <1>13 DEF IInv

-----------------------------------------------------------------------------
(* Steps of the writers *)

LEMMA DispatchKeeps == ASSUME IInv, Dispatch PROVE IInv'
<1>1. TypeOK /\ CounterOK /\ TablesOK
  BY DEF IInv
<1>2. /\ db' = [db EXCEPT !.count = dispatched + 1]
      /\ durable' = durable \/ durable' = db'
      /\ dispatched' = dispatched + 1
      /\ pending' = pending \cup {dispatched + 1}
      /\ UNCHANGED <<released, quiet, device, woken, token, seen, removed,
                     sent, overLimit, reused, faults>>
  BY DEF Dispatch, Flushed, readers, clients, history
<1>3. /\ db'.rows = db.rows /\ db'.educount = db.educount
      /\ db'.count = dispatched + 1 /\ db' \in Databases
  BY <1>1, <1>2 DEF TypeOK, Databases
<1>4. TypeOK'
  <2>1. pending' \subseteq 1..dispatched'
    BY <1>1, <1>2 DEF TypeOK
  <2> QED BY <1>1, <1>2, <1>3, <2>1 DEF TypeOK
<1>5. CounterOK'
  BY <1>1, <1>2, <1>3 DEF CounterOK, TypeOK
<1>6. TablesOK'
  <2>1. \A r \in db.rows : r.count \in Nat
    BY <1>1 DEF TypeOK, Databases, Rows
  <2>2. db.educount \in Nat /\ dispatched \in Nat /\ durable.count \in Nat
        /\ durable.educount \in Nat
    BY <1>1 DEF TypeOK, Databases
  <2>3. CASE durable' = durable
    BY <1>1, <1>2, <1>3, <2>1, <2>2, <2>3 DEF TablesOK
  <2>4. CASE durable' = db'
    BY <1>1, <1>2, <1>3, <2>1, <2>2, <2>4 DEF TablesOK
  <2> QED BY <1>2, <2>3, <2>4
<1>7. LogOK' /\ InboxKept' /\ EduNotMissed'
  BY <1>2, <1>3 DEF IInv, LogOK, InboxKept, EduNotMissed
<1>8. \A d \in Device : ClientOK(d)' /\ Sound(d, device[d])'
  BY <1>2, <1>3 DEF IInv, ClientOK, Sound, Closed, Covered
<1> QED BY <1>4, <1>5, <1>6, <1>7, <1>8 DEF IInv

LEMMA PutKeeps ==
    ASSUME IInv, NEW n \in pending, NEW topic \in Topic, Put(n, topic)
    PROVE  IInv'
<1> DEFINE row == [count |-> n, topic |-> topic]
<1>1. TypeOK /\ CounterOK /\ TablesOK
  BY DEF IInv
<1>2. /\ db' = [db EXCEPT !.rows = @ \cup {row}]
      /\ durable' = durable \/ durable' = db'
      /\ quiet' = quiet \cup {n}
      /\ UNCHANGED <<dispatched, pending, released, device, woken, token,
                     seen, removed, sent, overLimit, reused, faults>>
  BY DEF Put, Flushed, readers, clients, history
<1>3. n \in Nat /\ 1 <= n /\ n <= dispatched /\ dispatched \in Nat
      /\ released < n /\ db.educount < n /\ released \in Nat
  BY <1>1 DEF TypeOK, CounterOK, TablesOK
<1>4. row \in Rows
  BY <1>3 DEF Rows
<1>5. /\ db'.rows = db.rows \cup {row} /\ db'.educount = db.educount
      /\ db'.count = db.count /\ db' \in Databases
  BY <1>1, <1>2, <1>4 DEF TypeOK, Databases
<1>6. TypeOK'
  BY <1>1, <1>2, <1>5 DEF TypeOK
<1>7. CounterOK'
  BY <1>1, <1>2, <1>5 DEF CounterOK
<1>8. TablesOK'
  <2>1. \A r \in db'.rows : 1 <= r.count /\ r.count <= dispatched
    BY <1>1, <1>3, <1>5 DEF TablesOK
  <2>2. CASE durable' = durable
    BY <1>1, <1>2, <1>5, <2>1, <2>2 DEF TablesOK
  <2>3. CASE durable' = db'
    BY <1>1, <1>2, <1>5, <2>1, <2>3 DEF TablesOK, CounterOK, TypeOK, Databases
  <2> QED BY <1>2, <2>2, <2>3
<1>9. LogOK' /\ InboxKept'
  BY <1>2, <1>5 DEF IInv, LogOK, InboxKept
<1>10. EduNotMissed'
  <2>1. ~(row.count <= db.educount)
    BY <1>1, <1>3 DEF TypeOK, Databases
  <2> QED BY <1>2, <1>5, <2>1 DEF IInv, EduNotMissed
<1>11. ASSUME NEW d \in Device
       PROVE  ClientOK(d)' /\ Sound(d, device[d])'
  <2>1. ClientOK(d) /\ Sound(d, device[d]) /\ device[d] \in Requests
    BY <1>1 DEF IInv, TypeOK
  <2>2. ASSUME NEW k \in Nat, Closed(k), Covered(d, k)
        PROVE  Closed(k)' /\ Covered(d, k)'
    <3>1. row.count <= k => row.count \in reused
      BY <1>3, <2>2 DEF Closed
    <3> QED BY <1>2, <1>5, <2>2, <3>1 DEF Closed, Covered
  <2>3. token[d] \in Nat
    BY <1>1 DEF TypeOK
  <2>4. ClientOK(d)'
    <3>1. Closed(token[d])' /\ Covered(d, token[d])'
      BY <1>2, <2>1, <2>2, <2>3 DEF ClientOK
    <3> QED BY <1>2, <2>1, <3>1 DEF ClientOK
  <2>5. device'[d] = device[d] /\ seen'[d] = seen[d]
    BY <1>2
  <2>6. CASE device[d].pc \in {"watch", "count", "pending"}
    <3>1. device[d].since \in Nat
      BY <2>1, <2>6, RequestFields
    <3>2. Closed(device[d].since)' /\ Covered(d, device[d].since)'
      BY <1>2, <2>1, <2>2, <2>6, <3>1 DEF Sound
    <3> QED BY <2>4, <2>5, <2>6, <3>2 DEF Sound
  <2>7. CASE device[d].pc = "build"
    <3>1. device[d].since \in Nat
      BY <2>1, <2>7, RequestFields
    <3>2. Closed(device[d].since)' /\ Covered(d, device[d].since)'
      BY <1>2, <2>1, <2>2, <2>7, <3>1 DEF Sound
    <3> QED BY <1>2, <2>1, <2>4, <2>5, <2>7, <3>2 DEF Sound
  <2>8. CASE device[d].pc = "wait"
    <3>1. device[d].next \in Nat
      BY <2>1, <2>8, RequestFields
    <3>2. ~(row.count <= device[d].next)
      BY <1>3, <2>1, <2>8, <3>1 DEF Sound
    <3> QED BY <1>2, <1>5, <2>1, <2>4, <2>5, <2>8, <3>2 DEF Sound, Covered
  <2>9. CASE device[d].pc = "reply"
    <3>1. device[d].next \in Nat
      BY <2>1, <2>9, RequestFields
    <3>2. ~(row.count <= device[d].next)
      BY <1>3, <2>1, <2>9, <3>1 DEF Sound
    <3> QED BY <1>2, <1>5, <2>1, <2>4, <2>5, <2>9, <3>2 DEF Sound
  <2>10. CASE device[d].pc = "idle"
    BY <2>4, <2>5, <2>10 DEF Sound
  <2> QED BY <2>1, <2>6, <2>7, <2>8, <2>9, <2>10, RequestFields
<1> QED BY <1>6, <1>7, <1>8, <1>9, <1>10, <1>11 DEF IInv

LEMMA NotifyKeeps == ASSUME IInv, NEW n \in pending, Notify(n) PROVE IInv'
<1>1. TypeOK
  BY DEF IInv
<1>2. /\ quiet' \subseteq quiet
      /\ woken' \in [Device -> BOOLEAN]
      /\ UNCHANGED <<db, durable, dispatched, pending, released, device,
                     token, seen, removed, sent, overLimit, reused, faults>>
  <2>1. woken' = [d \in Device |->
          woken[d] \/ \E r \in db.rows : r.count = n /\ r.topic \in Watched(d)]
    BY DEF Notify
  <2>2. woken' \in [Device -> BOOLEAN]
    BY <1>1, <2>1 DEF TypeOK
  <2> QED BY <2>2 DEF Notify, clients, history
<1>3. TypeOK'
  BY <1>1, <1>2 DEF TypeOK
<1>4. CounterOK' /\ TablesOK' /\ LogOK' /\ InboxKept' /\ EduNotMissed'
  BY <1>2 DEF IInv, CounterOK, TablesOK, LogOK, InboxKept, EduNotMissed
<1>5. \A d \in Device : ClientOK(d)' /\ Sound(d, device[d])'
  BY <1>2 DEF IInv, ClientOK, Sound, Closed, Covered
<1> QED BY <1>3, <1>4, <1>5 DEF IInv

LEMMA RetireKeeps == ASSUME IInv, NEW n \in pending, Retire(n) PROVE IInv'
<1>1. TypeOK /\ CounterOK /\ TablesOK
  BY DEF IInv
<1>2. /\ n \notin quiet
      /\ pending' = pending \ {n}
      /\ released' = IF \E p \in pending : p < n THEN released
                     ELSE IF pending' = {} THEN dispatched
                     ELSE n
      /\ UNCHANGED <<db, durable, dispatched, quiet, device, woken, token,
                     seen, removed, sent, overLimit, reused, faults>>
  BY DEF Retire, readers, clients, history
<1>3. /\ \A p \in pending : p \in Nat /\ p <= dispatched /\ released < p
      /\ dispatched \in Nat /\ released \in Nat /\ released <= dispatched
  BY <1>1 DEF TypeOK, CounterOK
<1>4. /\ released' \in Nat /\ released <= released'
      /\ released' <= dispatched /\ \A p \in pending' : released' < p
  <2>1. CASE \E p \in pending : p < n
    BY <1>2, <1>3, <2>1
  <2>2. CASE pending' = {} /\ ~\E p \in pending : p < n
    BY <1>2, <1>3, <2>2
  <2>3. CASE pending' # {} /\ ~\E p \in pending : p < n
    BY <1>2, <1>3, <2>3
  <2> QED BY <2>1, <2>2, <2>3
<1>5. TypeOK'
  BY <1>1, <1>2, <1>4 DEF TypeOK
<1>6. CounterOK' /\ TablesOK'
  BY <1>1, <1>2, <1>4 DEF CounterOK, TablesOK
<1>7. LogOK' /\ InboxKept' /\ EduNotMissed'
  BY <1>2 DEF IInv, LogOK, InboxKept, EduNotMissed
<1>8. ASSUME NEW d \in Device
      PROVE  ClientOK(d)' /\ Sound(d, device[d])'
  <2>1. ClientOK(d) /\ Sound(d, device[d]) /\ device[d] \in Requests
    BY <1>1 DEF IInv, TypeOK
  <2>2. ASSUME NEW k, Closed(k) PROVE Closed(k)'
    BY <1>2, <1>3, <1>4, <2>2 DEF Closed
  <2>3. ASSUME NEW k, Covered(d, k) PROVE Covered(d, k)'
    BY <1>2, <2>3 DEF Covered
  <2>4. ClientOK(d)'
    <3>1. seen[d] \in SUBSET Nat
      BY <1>1 DEF TypeOK
    <3>2. \A m \in seen[d] : 1 <= m /\ (m <= released' \/ m \in reused)
      BY <1>3, <1>4, <2>1, <3>1 DEF ClientOK
    <3>3. Closed(token[d])' /\ Covered(d, token[d])'
      BY <1>2, <2>1, <2>2, <2>3 DEF ClientOK
    <3> QED BY <1>2, <3>2, <3>3 DEF ClientOK
  <2>5. device[d].pc \in {"build", "wait", "reply"} =>
            device[d].next \in Nat /\ device[d].next <= released'
    <3>1. device[d].pc \in {"build", "wait", "reply"} =>
             device[d].next \in Nat
      BY <2>1, RequestFields
    <3> QED BY <1>3, <1>4, <2>1, <3>1 DEF Sound
  <2>6. Sound(d, device[d])'
    BY <1>2, <2>1, <2>2, <2>3, <2>5 DEF Sound
  <2> QED BY <2>4, <2>6
<1> QED BY <1>5, <1>6, <1>7, <1>8 DEF IInv

-----------------------------------------------------------------------------
(* select_edus and the restart *)

LEMMA SelectKeeps == ASSUME IInv, NEW f \in Slots, SelectEdus(f) PROVE IInv'
<1> DEFINE all == UNION {Candidates(s) : s \in Stream}
           scanned == UNION {Scanned(s, f) : s \in Stream}
           taken == UNION {Taken(s, f) : s \in Stream}
           last == MaxOf({db.educount} \cup Numbers(scanned))
<1>1. TypeOK /\ CounterOK /\ TablesOK
  BY DEF IInv
<1>2. /\ db' = [db EXCEPT !.educount = last]
      /\ durable' = durable \/ durable' = db'
      /\ sent' = sent \cup Numbers(taken)
      /\ overLimit' = overLimit \cup Numbers(all \ taken)
      /\ UNCHANGED <<dispatched, pending, released, quiet, device, woken,
                     token, seen, removed, reused, faults>>
  BY DEF SelectEdus, Flushed, counter, clients
<1>3. ASSUME NEW s \in Stream
      PROVE  /\ Scanned(s, f) \subseteq Candidates(s)
             /\ Taken(s, f) \subseteq Candidates(s)
  <2>1. \A k : First(Candidates(s), k) \subseteq Candidates(s)
    BY DEF First
  <2>2. Scanned(s, f) \subseteq Candidates(s)
    BY <2>1 DEF Scanned
  <2>3. Taken(s, f) \subseteq Candidates(s)
    BY <2>1, <2>2 DEF Taken
  <2> QED BY <2>2, <2>3
<1>4. scanned \subseteq all /\ taken \subseteq all
  BY <1>3
<1>5. /\ Retired \in Nat /\ Retired <= dispatched
      /\ \A p \in pending : Retired < p
      /\ db.educount <= Retired
  <2>1. db.educount \in Nat
    BY <1>1 DEF TypeOK, Databases
  <2> QED BY <1>1, <2>1, RetiredBound DEF TablesOK
<1>6. \A r \in all : r \in db.rows /\ r.count \in Nat /\ r.count <= Retired
  BY <1>1 DEF Candidates, TypeOK, Databases, Rows
<1>7. Numbers(all) \subseteq Nat /\ Numbers(taken) \subseteq Nat
      /\ Numbers(all \ taken) \subseteq Nat
  BY <1>4, <1>6 DEF Numbers
<1>8. last \in Nat /\ last <= Retired /\ db.educount <= last
  <2>1. {db.educount} \cup Numbers(scanned) \in SUBSET (0..Retired)
    <3>1. db.educount \in 0..Retired
      BY <1>1, <1>5 DEF TypeOK, Databases
    <3>2. \A r \in scanned : r.count \in 0..Retired
      BY <1>4, <1>5, <1>6
    <3> QED BY <3>1, <3>2 DEF Numbers
  <2>2. last \in {db.educount} \cup Numbers(scanned) /\ db.educount <= last
    BY <1>5, <2>1, MaxOfSet
  <2> QED BY <1>5, <2>1, <2>2
<1> HIDE DEF last, all, scanned, taken
<1>9. /\ db'.rows = db.rows /\ db'.count = db.count
      /\ db'.educount = last /\ db' \in Databases
  BY <1>1, <1>2, <1>8 DEF TypeOK, Databases
<1>10. TypeOK'
  BY <1>1, <1>2, <1>7, <1>9 DEF TypeOK
<1>11. CounterOK'
  BY <1>1, <1>2, <1>9 DEF CounterOK
<1>12. TablesOK'
  <2>1. last <= dispatched /\ \A p \in pending : last < p
    BY <1>1, <1>5, <1>8 DEF TypeOK
  <2>2. durable.educount \in Nat /\ db.educount \in Nat
    BY <1>1 DEF TypeOK, Databases
  <2>3. CASE durable' = durable
    BY <1>1, <1>2, <1>8, <1>9, <2>1, <2>2, <2>3 DEF TablesOK
  <2>4. CASE durable' = db'
    BY <1>1, <1>2, <1>8, <1>9, <2>1, <2>4 DEF TablesOK, CounterOK, TypeOK
  <2> QED BY <1>2, <2>3, <2>4
<1>13. LogOK' /\ InboxKept'
  BY <1>2, <1>9 DEF IInv, LogOK, InboxKept
<1>14. EduNotMissed'
  <2>1. ASSUME NEW r \in db.rows, r.topic \in Stream, r.count <= last
        PROVE  r.count \in sent' \cup overLimit'
    <3>1. CASE r.count <= db.educount
      BY <1>2, <2>1, <3>1 DEF IInv, EduNotMissed
    <3>2. CASE ~(r.count <= db.educount)
      <4>1. r.count \in Nat /\ db.educount \in Nat
        BY <1>1 DEF TypeOK, Databases, Rows
      <4>2. r \in Candidates(r.topic)
        BY <1>5, <1>8, <2>1, <3>2, <4>1 DEF Candidates
      <4>3. r \in all
        BY <2>1, <4>2 DEF all
      <4>4. r.count \in Numbers(taken) \cup Numbers(all \ taken)
        BY <4>3 DEF Numbers
      <4> QED BY <1>2, <4>4
    <3> QED BY <3>1, <3>2
  <2> QED BY <1>9, <2>1 DEF EduNotMissed
<1>15. \A d \in Device : ClientOK(d)' /\ Sound(d, device[d])'
  BY <1>2, <1>9 DEF IInv, ClientOK, Sound, Closed, Covered
<1> QED BY <1>10, <1>11, <1>12, <1>13, <1>14, <1>15 DEF IInv

LEMMA CrashKeeps == ASSUME IInv, Crash PROVE IInv'
<1>1. TypeOK /\ CounterOK /\ TablesOK /\ LogOK /\ InboxKept /\ EduNotMissed
  BY DEF IInv
<1> DEFINE k == durable.count
<1>2. /\ db' = durable /\ durable' = durable /\ token' = token
      /\ removed' = removed
      /\ dispatched' = k /\ released' = k /\ pending' = {} /\ quiet' = {}
      /\ device' = [d \in Device |-> Idle]
      /\ woken' = [d \in Device |-> FALSE]
      /\ seen' = [d \in Device |-> seen[d] \cap 1..k]
      /\ sent' = sent \cap 1..k
      /\ overLimit' = overLimit \cap 1..k
      /\ reused' = reused \cup (k + 1)..released
      /\ faults' = faults + 1
  BY DEF Crash
<1>3. k \in Nat /\ released \in Nat /\ k <= dispatched
  BY <1>1 DEF TypeOK, Databases, TablesOK
<1>4. TypeOK'
  <2>1. (k + 1)..released \subseteq Nat
    BY <1>3
  <2>2. pending' \subseteq 1..dispatched' /\ quiet' \subseteq pending'
    BY <1>2
  <2>3. device' \in [Device -> Requests] /\ woken' \in [Device -> BOOLEAN]
    BY <1>2 DEF Requests
  <2>4. seen' \in [Device -> SUBSET Nat] /\ sent' \subseteq Nat
        /\ overLimit' \subseteq Nat /\ reused' \subseteq Nat
    BY <1>1, <1>2, <2>1 DEF TypeOK
  <2> QED BY <1>1, <1>2, <1>3, <2>2, <2>3, <2>4 DEF TypeOK
<1>5. CounterOK' /\ TablesOK' /\ LogOK'
  <2>1. CounterOK'
    BY <1>2, <1>3 DEF CounterOK
  <2>2. TablesOK'
    BY <1>1, <1>2, <1>3 DEF TablesOK, TypeOK, Databases
  <2>3. LogOK'
    BY <1>2 DEF LogOK
  <2> QED BY <2>1, <2>2, <2>3
<1>6. ASSUME NEW d \in Device, NEW n \in seen[d]
      PROVE  n \in seen'[d] \cup reused'
  <2>1. ClientOK(d) /\ n \in Nat
    BY <1>1 DEF IInv, TypeOK
  <2>2. 1 <= n /\ (n <= released \/ n \in reused)
    BY <2>1 DEF ClientOK
  <2>3. CASE n <= k
    BY <1>2, <1>3, <2>1, <2>2, <2>3
  <2>4. CASE ~(n <= k) /\ n <= released
    BY <1>2, <1>3, <2>1, <2>4
  <2>5. CASE n \in reused
    BY <1>2, <2>5
  <2> QED BY <2>2, <2>3, <2>4, <2>5
<1>7. InboxKept'
  <2>1. ASSUME NEW d \in Device, NEW n \in removed[d]
        PROVE  n \in seen'[d] \cup reused'
    <3>1. n \in seen[d] \cup reused
      BY <1>1 DEF InboxKept
    <3> QED BY <1>2, <1>6, <3>1
  <2> QED BY <1>2, <2>1 DEF InboxKept
<1>8. EduNotMissed'
  <2>1. ASSUME NEW r \in durable.rows, r.topic \in Stream,
               r.count <= durable.educount
        PROVE  r.count \in sent' \cup overLimit'
    <3>1. r.topic \notin Device
      BY <2>1, SyncAssumption
    <3>2. r \in db.rows
      BY <1>1, <3>1 DEF LogOK
    <3>3. r.count \in Nat /\ 1 <= r.count /\ r.count <= k
          /\ durable.educount \in Nat /\ db.educount \in Nat
          /\ durable.educount <= db.educount
      BY <1>1 DEF TypeOK, Databases, Rows, TablesOK
    <3>4. r.count \in sent \cup overLimit
      BY <1>1, <2>1, <3>2, <3>3 DEF EduNotMissed
    <3>5. r.count \in 1..k
      BY <1>3, <3>3
    <3> QED BY <1>2, <3>4, <3>5
  <2> QED BY <1>2, <2>1 DEF EduNotMissed
<1>9. ASSUME NEW d \in Device
      PROVE  ClientOK(d)' /\ Sound(d, device[d])'
  <2>1. ClientOK(d) /\ token[d] \in Nat
    BY <1>1 DEF IInv, TypeOK
  <2>2. Sound(d, device[d])'
    <3>1. device'[d] = Idle
      BY <1>2
    <3> QED BY <3>1 DEF Sound, Idle
  <2>3. Closed(token[d])'
    <3>1. ASSUME NEW n \in Nat, k < n, n <= token[d] PROVE n \in reused'
      <4>1. CASE n <= released
        BY <1>2, <1>3, <3>1, <4>1
      <4>2. CASE ~(n <= released)
        <5>1. n \in reused
          BY <1>3, <2>1, <3>1, <4>2 DEF ClientOK, Closed
        <5> QED BY <1>2, <5>1
      <4> QED BY <4>1, <4>2
    <3> QED BY <1>2, <3>1 DEF Closed
  <2>4. Covered(d, token[d])'
    <3>1. ASSUME NEW r \in durable.rows, r.topic \in Stream \cup {d},
                 r.count <= token[d]
          PROVE  r.count \in seen'[d] \cup reused'
      <4>1. CASE r \in db.rows
        <5>1. r.count \in seen[d] \cup reused
          BY <2>1, <3>1, <4>1 DEF ClientOK, Covered
        <5> QED BY <1>2, <1>6, <5>1
      <4>2. CASE r \notin db.rows
        <5>1. r.topic \in Device /\ r.count \in removed[r.topic]
          BY <1>1, <4>2 DEF LogOK
        <5>2. r.topic = d
          BY <3>1, <5>1, SyncAssumption
        <5>3. r.count \in seen[d] \cup reused
          BY <1>1, <5>1, <5>2 DEF InboxKept
        <5> QED BY <1>2, <1>6, <5>3
      <4> QED BY <4>1, <4>2
    <3> QED BY <1>2, <3>1 DEF Covered
  <2>5. \A n \in seen'[d] : 1 <= n /\ (n <= released' \/ n \in reused')
    BY <1>2, <1>3
  <2> QED BY <2>2, <2>3, <2>4, <2>5 DEF ClientOK
<1> QED BY <1>4, <1>5, <1>7, <1>8, <1>9 DEF IInv

-----------------------------------------------------------------------------
(* The inductive invariant *)

LEMMA InitIInv == Init => IInv
<1> SUFFICES ASSUME Init PROVE IInv
  OBVIOUS
<1>1. TypeOK
  <2>1. db \in Databases
    BY DEF Init, Databases
  <2>2. Idle \in Requests
    BY DEF Requests
  <2> QED BY <2>1, <2>2 DEF Init, TypeOK
<1>2. CounterOK /\ TablesOK /\ LogOK /\ InboxKept /\ EduNotMissed
  BY DEF Init, CounterOK, TablesOK, LogOK, InboxKept, EduNotMissed
<1>3. ASSUME NEW d \in Device PROVE ClientOK(d) /\ Sound(d, device[d])
  <2>1. token[d] = 0 /\ seen[d] = {} /\ device[d] = Idle /\ released = 0
        /\ db.rows = {}
    BY DEF Init
  <2> QED BY <2>1 DEF ClientOK, Closed, Covered, Sound, Idle
<1> QED BY <1>1, <1>2, <1>3 DEF IInv

LEMMA StutterKeeps == ASSUME IInv, UNCHANGED vars PROVE IInv'
<1> USE DEF vars, counter, readers, clients, history
<1>1. TypeOK' /\ CounterOK' /\ TablesOK' /\ LogOK' /\ InboxKept'
      /\ EduNotMissed'
  BY DEF IInv, TypeOK, CounterOK, TablesOK, LogOK, InboxKept, EduNotMissed
<1>2. \A d \in Device : ClientOK(d)' /\ Sound(d, device[d])'
  BY DEF IInv, ClientOK, Sound, Closed, Covered
<1> QED BY <1>1, <1>2 DEF IInv

LEMMA NextIInv == IInv /\ [Next]_vars => IInv'
<1> SUFFICES ASSUME IInv, [Next]_vars PROVE IInv'
  OBVIOUS
<1>1. CASE Dispatch
  BY <1>1, DispatchKeeps
<1>2. CASE \E n \in pending : Writing(n)
  BY <1>2, PutKeeps, NotifyKeeps, RetireKeeps DEF Writing
<1>3. ASSUME NEW d \in Device, Request(d) \/ Timeout(d) \/ Lose(d)
      PROVE  IInv'
  BY <1>3, RequestKeeps, TimeoutKeeps, LoseKeeps
<1>4. ASSUME NEW d \in Device, Serve(d) PROVE IInv'
  BY <1>4, WatchKeeps, CountKeeps, WaitPendingKeeps, BuildKeeps, SkipKeeps,
     WakeKeeps, DeliverKeeps DEF Serve
<1>5. CASE \E f \in Slots : SelectEdus(f)
  BY <1>5, SelectKeeps
<1>6. CASE Crash
  BY <1>6, CrashKeeps
<1>7. CASE UNCHANGED vars
  BY <1>7, StutterKeeps
<1> QED BY <1>1, <1>2, <1>3, <1>4, <1>5, <1>6, <1>7 DEF Next

\* IInv holds in every state, for every number of devices and writers.
THEOREM Invariance == Spec => []IInv
BY InitIInv, NextIInv, PTL DEF Spec

\* The tables, the counter and the requests keep their shapes, and a row is
\* announced while its permit is held.
THEOREM TypeCorrect == Spec => []TypeOK
<1>1. IInv => TypeOK
  BY DEF IInv
<1> QED BY <1>1, Invariance, PTL

\* A client misses no update at or below its token, whatever writers, broken
\* requests and crashes come in between, but for numbers a crash has lost.
THEOREM NothingMissed == Spec => []NoUpdateMissed
<1>1. IInv => NoUpdateMissed
  BY DEF IInv, ClientOK, Covered, NoUpdateMissed
<1> QED BY <1>1, Invariance, PTL

\* remove_to_device_events removes only what the device has received.
THEOREM InboxSafe == Spec => []InboxKept
<1>1. IInv => InboxKept
  BY DEF IInv
<1> QED BY <1>1, Invariance, PTL

\* The counter is ahead of everything stored, also after a crash that lost
\* the unflushed log, and the window of select_edus is not negative.
THEOREM CounterSafe == Spec => []CounterAhead
<1>1. IInv => CounterAhead
  <2> SUFFICES ASSUME IInv PROVE CounterAhead
    OBVIOUS
  <2>1. TypeOK /\ TablesOK
    BY DEF IInv
  <2>2. db.educount \in Nat
    BY <2>1 DEF TypeOK, Databases
  <2>3. db.educount <= Retired
    BY <2>1, <2>2, RetiredBound DEF TablesOK
  <2> QED BY <2>1, <2>3 DEF TablesOK, CounterAhead
<1> QED BY <1>1, Invariance, PTL

\* An update at or below the count stored for a server was sent to it unless
\* a limit left it out, for all values of the limits.
THEOREM EdusComplete == Spec => []EduNotMissed
<1>1. IInv => EduNotMissed
  BY DEF IInv
<1> QED BY <1>1, Invariance, PTL

=============================================================================
