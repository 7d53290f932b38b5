------------------------- MODULE FedSchedulerProofs -------------------------
(***************************************************************************)
(* What the federation scheduler keeps for every number of destinations,   *)
(* drive cycles and restarts.                                              *)
(***************************************************************************)
EXTENDS FedScheduler, NatExtremes, FiniteSetTheorems, TLAPS

\* The smaller of two numbers.
LEMMA LeastOfTwo ==
    ASSUME NEW a \in Nat, NEW b \in Nat
    PROVE  Least({a, b}) \in {a, b} /\ Least({a, b}) <= a /\ Least({a, b}) <= b
<1>1. \E n \in {a, b} : \A m \in {a, b} : n <= m
  <2>1. CASE a <= b
    BY <2>1
  <2>2. CASE b <= a
    BY <2>2
  <2> QED BY <2>1, <2>2
<1> QED BY <1>1 DEF Least

\* The smallest member of a set of numbers is a member of it.
LEMMA LeastOfSet ==
    ASSUME NEW S \in SUBSET Nat, S # {}
    PROVE  Least(S) \in S
<1>1. PICK n \in S : TRUE
  OBVIOUS
<1> DEFINE T == {m \in S : m <= n}
<1>2. T \in SUBSET (0..n) /\ T # {} /\ n \in Nat
  <2>1. n \in Nat /\ n <= n /\ n \in T
    BY <1>1
  <2>2. ASSUME NEW m \in T PROVE m \in 0..n
    <3>1. m \in Nat /\ m <= n
      OBVIOUS
    <3> QED BY <2>1, <3>1
  <2> QED BY <2>1, <2>2
<1> HIDE DEF T
<1>3. PICK k \in T : \A j \in T : k <= j
  BY <1>2, SmallestExists
<1>4. k \in S /\ \A j \in S : k <= j
  <2>1. k \in S /\ k <= n /\ k \in Nat
    BY <1>3 DEF T
  <2>2. ASSUME NEW j \in S PROVE k <= j
    <3>1. CASE j <= n
      BY <1>3, <3>1 DEF T
    <3>2. CASE ~(j <= n)
      <4>1. j \in Nat
        OBVIOUS
      <4> QED BY <1>2, <2>1, <3>2, <4>1
    <3> QED BY <3>1, <3>2
  <2> QED BY <2>1, <2>2
<1> QED BY <1>4 DEF Least

\* A backoff is a number, and at most the cap.
LEMMA DelayBounds ==
    ASSUME NEW n \in Nat
    PROVE  backoff_delay(n) \in Nat /\ backoff_delay(n) <= CAP_BACKOFF_MS
<1> DEFINE shift == IF n = 0 THEN 0 ELSE Least({n - 1, 16})
<1>1. shift \in 0..16
  <2>1. CASE n = 0
    BY <2>1
  <2>2. CASE n # 0
    <3>1. n - 1 \in Nat /\ 16 \in Nat
      BY <2>2
    <3>2. Least({n - 1, 16}) \in {n - 1, 16} /\ Least({n - 1, 16}) <= 16
      BY <3>1, LeastOfTwo
    <3> QED BY <2>2, <3>1, <3>2
  <2> QED BY <2>1, <2>2
<1>2. 2^shift \in Nat
  BY <1>1, ShiftAssumption
<1> DEFINE raw == BASE_BACKOFF_MS * 2^shift
<1>3. backoff_delay(n) = Least({raw, CAP_BACKOFF_MS})
  BY DEF backoff_delay
<1>4. raw \in Nat /\ CAP_BACKOFF_MS \in Nat
  <2> HIDE DEF shift
  <2> QED BY <1>2, FedAssumption
<1> HIDE DEF raw
<1> QED BY <1>3, <1>4, LeastOfTwo

\* A counter that is rebuilt from the store is larger than every number in it.
LEMMA NextSeqFresh ==
    ASSUME NEW bound \in Nat, NEW S \in SUBSET Nat, \A n \in S : n < bound
    PROVE  NextSeq(S) \in Nat /\ \A n \in S : n < NextSeq(S)
<1>1. CASE S = {}
  BY <1>1 DEF NextSeq
<1>2. CASE S # {}
  <2>1. \A n \in S : n <= bound
    OBVIOUS
  <2>2. IsFiniteSet(S)
    BY <2>1, FS_BoundedSetOfNaturals
  <2>3. \E k \in S : \A j \in S : j <= k
    BY <1>2, <2>2, LargestExists
  <2> DEFINE k == CHOOSE n \in S : \A m \in S : n >= m
  <2>4. k \in S /\ \A m \in S : k >= m
    BY <2>3
  <2>5. NextSeq(S) = 1 + k
    BY <1>2 DEF NextSeq
  <2> HIDE DEF k
  <2> QED BY <2>4, <2>5
<1> QED BY <1>1, <1>2

\* A failure gives a backoff record that ends within the cap.
LEMMA WorseType ==
    ASSUME TypeOK, NEW d \in Dest
    PROVE  /\ Worse(d) \in [attempt : Nat, available_at : Nat]
           /\ Worse(d).available_at <= now + CAP_BACKOFF_MS
<1> DEFINE n == IF backoff[d] = NoBackoff THEN 1 ELSE backoff[d].attempt + 1
<1>1. n \in Nat
  BY DEF TypeOK, Backoff
<1>2. Worse(d) = [attempt |-> n, available_at |-> now + backoff_delay(n)]
  BY DEF Worse
<1> HIDE DEF n
<1>3. backoff_delay(n) \in Nat /\ backoff_delay(n) <= CAP_BACKOFF_MS
  BY <1>1, DelayBounds
<1> QED BY <1>1, <1>2, <1>3, FedAssumption DEF TypeOK

-----------------------------------------------------------------------------
(* Types *)

\* The types hold initially.
LEMMA TypeInit == Init => TypeOK
BY FedAssumption DEF Init, TypeOK, Backoff, Handler, Cycle, Idle, NoCycle, Rest

\* The steps of the sending worker keep the types.
LEMMA TypeMirror ==
    ASSUME TypeOK, NEW d \in Dest, Mirror(d), UNCHANGED mode
    PROVE  TypeOK'
<1> USE DEF TypeOK, table, memory, Sender, Handler, Rest, Idle
<1>1. CASE \E durable \in BOOLEAN : StartTransaction(d, durable)
  BY <1>1 DEF StartTransaction
<1>2. CASE RetryTransaction(d)
  BY <1>2 DEF RetryTransaction
<1>3. CASE PutMarker(d)
  BY <1>3 DEF PutMarker
<1>4. CASE RespondOk(d)
  BY <1>4 DEF RespondOk
<1>5. CASE TakeMarker(d)
  BY <1>5 DEF TakeMarker
<1>6. CASE MarkSuccess(d)
  BY <1>6 DEF MarkSuccess, Backoff
<1>7. CASE ClearHealth(d)
  BY <1>7 DEF ClearHealth, Backoff
<1>8. CASE \E more \in BOOLEAN : FollowUp(d, more)
  BY <1>8 DEF FollowUp
<1>9. CASE RespondErr(d)
  BY <1>9, WorseType DEF RespondErr, Backoff
<1>10. CASE PersistHealth(d)
  BY <1>10 DEF PersistHealth, Backoff
<1>11. CASE WriteFails(d)
  BY <1>11 DEF WriteFails
<1>12. CASE \E ok \in BOOLEAN : FinishResponse(d, ok)
  BY <1>12 DEF FinishResponse
<1>13. CASE \E burst \in BOOLEAN : Boot(d, burst)
  BY <1>13 DEF Boot
<1> QED BY <1>1, <1>2, <1>3, <1>4, <1>5, <1>6, <1>7,
           <1>8, <1>9, <1>10, <1>11, <1>12, <1>13 DEF Mirror

\* The steps of a drive cycle keep the types.
LEMMA TypeDrive ==
    ASSUME TypeOK, NEW v \in Driver, DriveOnce(v), UNCHANGED mode
    PROVE  TypeOK'
<1> USE DEF TypeOK, table, memory, Drive, Cycle, Items, Rest, NoCycle
<1>1. CASE TickReady(v)
  BY <1>1 DEF TickReady, BackedOff
<1>2. CASE SelectDue(v)
  BY <1>2 DEF SelectDue
<1>3. CASE \E d \in Dest : DrainScan(v, d)
  BY <1>3 DEF DrainScan
<1>4. CASE \E d \in Dest : Dispatch(v, d)
  BY <1>4 DEF Dispatch, Backoff
<1>5. CASE DrainDelete(v)
  <2>1. driver[v].left \in SUBSET Nat /\ driver[v].left # {} /\ driver[v].dest \in Dest
    BY <1>5 DEF DrainDelete
  <2>2. Least(driver[v].left) \in Nat
    BY <2>1, LeastOfSet
  <2> QED BY <1>5, <2>1, <2>2 DEF DrainDelete
<1>6. CASE DrainNext(v)
  BY <1>6 DEF DrainNext
<1>7. CASE DrainFails(v)
  BY <1>7 DEF DrainFails
<1>8. CASE DriveClear(v)
  BY <1>8 DEF DriveClear, Backoff
<1>9. CASE DriveEnds(v)
  BY <1>9 DEF DriveEnds
<1> QED BY <1>1, <1>2, <1>3, <1>4, <1>5, <1>6, <1>7, <1>8, <1>9 DEF DriveOnce

-----------------------------------------------------------------------------
(* Numbers *)

\* What a drive cycle scanned was numbered before, and by nobody who is about to
\* write.
Scanned ==
    \A v \in Driver : driver[v].pc = "delete" =>
        \A n \in driver[v].left :
            /\ n < seq
            /\ \A d \in Dest : sender[d].pc = "put" => sender[d].seq # n

Fresh == TypeOK /\ KeysFresh /\ Scanned

\* Taking the next number of the counter makes no clash: the others are smaller.
LEMMA FreshNumber ==
    ASSUME Fresh, NEW d \in Dest, seq' = seq + 1,
           Sender(d, [pc |-> "put", seq |-> seq]), UNCHANGED <<queue, driver>>
    PROVE  KeysFresh' /\ Scanned'
<1>1. /\ seq \in Nat
      /\ sender' \in [Dest -> {sender'[e] : e \in Dest}]
      /\ sender'[d].pc = "put" /\ sender'[d].seq = seq
      /\ \A e \in Dest : e # d => sender'[e] = sender[e]
      /\ \A e \in Dest : sender[e].pc = "put" => sender[e].seq \in Nat
      /\ \A e \in Dest : queue[e] \subseteq Nat
  BY DEF Fresh, TypeOK, Sender, Handler
<1>2. \A v \in Driver : Held(v)' = Held(v)
  BY DEF Held
<1>3. \A v \in Driver : \A h \in Held(v) : h[2] \in Nat
  BY DEF Fresh, TypeOK, Held, Cycle, Items
<1>4. \A v \in Driver : driver[v].pc = "delete" => driver[v].left \subseteq Nat
  BY DEF Fresh, TypeOK, Cycle
<1>5. \A e \in Dest : \A n \in queue[e] : n < seq'
  BY <1>1 DEF Fresh, KeysFresh
<1>6. \A e \in Dest : sender'[e].pc = "put" =>
         /\ sender'[e].seq < seq'
         /\ \A f \in Dest : sender'[e].seq \notin queue[f]
  BY <1>1 DEF Fresh, KeysFresh
<1>7. \A e, f \in Dest : sender'[e].pc = "put" /\ sender'[f].pc = "put" /\ e # f =>
         sender'[e].seq # sender'[f].seq
  BY <1>1 DEF Fresh, KeysFresh
<1>8. \A v \in Driver : \A h \in Held(v) :
         /\ h[2] \notin queue[h[1]]
         /\ h[2] < seq'
         /\ \A e \in Dest : sender'[e].pc = "put" => sender'[e].seq # h[2]
  BY <1>1, <1>3 DEF Fresh, KeysFresh
<1>9. Scanned'
  BY <1>1, <1>4 DEF Fresh, Scanned
<1> QED BY <1>2, <1>5, <1>6, <1>7, <1>8, <1>9 DEF KeysFresh

\* The sending worker numbers and writes its markers without a clash.
LEMMA FreshMirror ==
    ASSUME Fresh, NEW d \in Dest, Mirror(d)
    PROVE  KeysFresh' /\ Scanned'
<1> USE DEF Fresh, KeysFresh, Scanned, TypeOK, table, memory, Sender, Rest, Idle, Held
<1>1. CASE \E durable \in BOOLEAN : StartTransaction(d, durable)
  BY <1>1, FreshNumber DEF StartTransaction
<1>2. CASE RetryTransaction(d)
  <2>1. CASE active[d]
    BY <1>2, <2>1, FreshNumber DEF RetryTransaction
  <2>2. CASE ~active[d]
    BY <1>2, <2>2 DEF RetryTransaction
  <2> QED BY <2>1, <2>2
<1>3. CASE PutMarker(d)
  BY <1>3 DEF PutMarker
<1>4. CASE RespondOk(d)
  BY <1>4 DEF RespondOk
<1>5. CASE TakeMarker(d)
  BY <1>5 DEF TakeMarker
<1>6. CASE MarkSuccess(d)
  BY <1>6 DEF MarkSuccess
<1>7. CASE ClearHealth(d)
  BY <1>7 DEF ClearHealth
<1>8. CASE \E more \in BOOLEAN : FollowUp(d, more)
  BY <1>8 DEF FollowUp
<1>9. CASE RespondErr(d)
  BY <1>9 DEF RespondErr
<1>10. CASE PersistHealth(d)
  BY <1>10 DEF PersistHealth
<1>11. CASE WriteFails(d)
  BY <1>11 DEF WriteFails
<1>12. CASE \E ok \in BOOLEAN : FinishResponse(d, ok)
  BY <1>12 DEF FinishResponse
<1>13. CASE \E burst \in BOOLEAN : Boot(d, burst)
  BY <1>13 DEF Boot
<1> QED BY <1>1, <1>2, <1>3, <1>4, <1>5, <1>6, <1>7,
           <1>8, <1>9, <1>10, <1>11, <1>12, <1>13 DEF Mirror

\* A drive cycle only takes what is queued.
LEMMA FreshDrive ==
    ASSUME Fresh, NEW v \in Driver, DriveOnce(v)
    PROVE  KeysFresh' /\ Scanned'
<1> USE DEF Fresh, KeysFresh, Scanned, TypeOK, table, memory, Drive, Rest, NoCycle, Held
<1>1. CASE TickReady(v)
  BY <1>1 DEF TickReady
<1>2. CASE SelectDue(v)
  BY <1>2 DEF SelectDue
<1>3. CASE \E d \in Dest : DrainScan(v, d)
  BY <1>3 DEF DrainScan
<1>4. CASE \E d \in Dest : Dispatch(v, d)
  BY <1>4 DEF Dispatch
<1>5. CASE DrainDelete(v)
  <2> DEFINE c == driver[v]
             n == Least(c.left)
  <2>1. c.left \in SUBSET Nat /\ c.left # {} /\ c.dest \in Dest
    BY <1>5 DEF DrainDelete, Cycle
  <2>2. n \in c.left
    BY <2>1, LeastOfSet
  <2>3. /\ driver'[v].pc = "delete"
        /\ driver'[v].left = c.left \ {n}
        /\ Held(v)' = Held(v) \cup {<<c.dest, n>>}
        /\ \A w \in Driver : w # v => driver'[w] = driver[w]
        /\ UNCHANGED <<seq, sender>>
    BY <1>5 DEF DrainDelete
  <2>4. queue' = [queue EXCEPT ![c.dest] = @ \ {n}]
    BY <1>5 DEF DrainDelete
  <2>5. n < seq /\ \A d \in Dest : sender[d].pc = "put" => sender[d].seq # n
    BY <1>5, <2>2 DEF DrainDelete
  <2>6. /\ \A d \in Dest : queue'[d] \subseteq queue[d]
        /\ n \notin queue'[c.dest]
    BY <2>1, <2>4
  <2>7. \A w \in Driver : \A h \in Held(w) : h[1] \in Dest
    BY DEF Cycle, Items
  <2>8. Scanned'
    <3>1. driver[v].pc = "delete"
      BY <1>5 DEF DrainDelete
    <3>2. \A m \in driver'[v].left : m \in driver[v].left
      BY <2>3
    <3> HIDE DEF n, c
    <3> QED BY <2>3, <3>1, <3>2
  <2>9. \A w \in Driver : \A h \in Held(w)' :
           /\ h[2] \notin queue'[h[1]]
           /\ h[2] < seq
           /\ \A d \in Dest : sender[d].pc = "put" => sender[d].seq # h[2]
    <3> SUFFICES ASSUME NEW w \in Driver, NEW h \in Held(w)'
                 PROVE  /\ h[2] \notin queue'[h[1]]
                        /\ h[2] < seq
                        /\ \A d \in Dest : sender[d].pc = "put" => sender[d].seq # h[2]
      OBVIOUS
    <3>1. h \in Held(w) \/ h = <<c.dest, n>>
      BY <2>3
    <3> QED BY <2>5, <2>6, <2>7, <3>1
  <2> QED BY <2>3, <2>6, <2>8, <2>9
<1>6. CASE DrainNext(v)
  BY <1>6 DEF DrainNext
<1>7. CASE DrainFails(v)
  BY <1>7 DEF DrainFails
<1>8. CASE DriveClear(v)
  BY <1>8 DEF DriveClear
<1>9. CASE DriveEnds(v)
  BY <1>9 DEF DriveEnds
<1> QED BY <1>1, <1>2, <1>3, <1>4, <1>5, <1>6, <1>7, <1>8, <1>9 DEF DriveOnce

\* A restart keeps the types, and its counter is larger than what is queued.
LEMMA FreshRestart ==
    ASSUME Fresh, Restart, UNCHANGED mode
    PROVE  Fresh'
<1> DEFINE S == UNION {queue[d] : d \in Dest}
<1>1. seq \in Nat /\ S \in SUBSET Nat /\ \A n \in S : n < seq
  BY DEF Fresh, TypeOK, KeysFresh
<1>2. seq' = NextSeq(S)
  BY DEF Restart
<1>3. seq' \in Nat /\ \A n \in S : n < seq'
  BY <1>1, <1>2, NextSeqFresh
<1>4. /\ queue' = queue
      /\ \A d \in Dest : sender'[d].pc \in {"boot", "idle"}
      /\ \A v \in Driver : driver'[v].pc = "idle"
  BY DEF Restart, table, Rest, Idle, NoCycle
<1>5. TypeOK'
  BY <1>3 DEF Restart, Fresh, TypeOK, table, Handler, Cycle, Rest, Idle, NoCycle
<1>6. \A d \in Dest : \A n \in queue'[d] : n < seq'
  BY <1>3, <1>4
<1>7. KeysFresh'
  BY <1>4, <1>6 DEF KeysFresh, Held
<1>8. Scanned'
  BY <1>4 DEF Scanned
<1> QED BY <1>5, <1>7, <1>8 DEF Fresh

\* Every step keeps the types and the numbers.
LEMMA FreshStep == Fresh /\ [Next]_vars => Fresh'
<1> SUFFICES ASSUME Fresh, [Next]_vars PROVE Fresh'
  OBVIOUS
<1>0. UNCHANGED mode
  BY DEF Next, vars
<1>1. CASE \E d \in Dest : Mirror(d)
  BY <1>0, <1>1, TypeMirror, FreshMirror DEF Fresh
<1>2. CASE \E v \in Driver : DriveOnce(v)
  BY <1>0, <1>2, TypeDrive, FreshDrive DEF Fresh
<1>3. CASE Restart
  BY <1>0, <1>3, FreshRestart
<1>4. CASE Stop
  BY <1>0, <1>4 DEF Stop, Fresh, TypeOK, KeysFresh, Scanned, Held, table
<1>5. CASE Tick
  BY <1>0, <1>5 DEF Tick, Fresh, TypeOK, KeysFresh, Scanned, Held, table, memory
<1>6. CASE UNCHANGED vars
  BY <1>6 DEF vars, Fresh, TypeOK, KeysFresh, Scanned, Held, table, memory
<1> QED BY <1>1, <1>2, <1>3, <1>4, <1>5, <1>6 DEF Next

\* The types and the numbers always hold.
LEMMA FreshAlways == Spec => []Fresh
<1>1. Init => Fresh
  <2>1. Init => KeysFresh /\ Scanned
    BY DEF Init, KeysFresh, Scanned, Held, Idle, NoCycle, Rest
  <2> QED BY <2>1, TypeInit DEF Fresh
<1> QED BY <1>1, FreshStep, PTL DEF Spec

\* A drive cycle and a worker have between two steps what the next one needs.
THEOREM FedTypeCorrect == Spec => []TypeOK
<1>1. Fresh => TypeOK
  BY DEF Fresh
<1> QED BY <1>1, FreshAlways, PTL

\* Service::queue never overwrites an item and a drained item never comes back,
\* for every number of destinations and drive cycles, with failing writes and
\* restarts anywhere.
THEOREM NumbersNeverClash == Spec => []KeysFresh
<1>1. Fresh => KeysFresh
  BY DEF Fresh
<1> QED BY <1>1, FreshAlways, PTL

-----------------------------------------------------------------------------
(* Backoff *)

Within(b) == b # NoBackoff => b.available_at <= now + CAP_BACKOFF_MS

\* What AvailableSoon says, also of a record that is still to be written.
AllWithin ==
    \A d \in Dest : /\ Within(backoff[d])
                    /\ Within(health[d])
                    /\ sender[d].pc = "persist" => Within(sender[d].record)

\* A destination waits at most for the cap, as its records keep to it in memory,
\* in the store and on the way from the one to the other.
LEMMA WithinStep == TypeOK /\ AllWithin /\ [Next]_vars => AllWithin'
<1> SUFFICES ASSUME TypeOK, AllWithin, [Next]_vars PROVE AllWithin'
  OBVIOUS
<1> USE DEF TypeOK, AllWithin, Within, table, memory
<1>1. ASSUME NEW d \in Dest, Mirror(d) PROVE AllWithin'
  <2>1. CASE \E durable \in BOOLEAN : StartTransaction(d, durable)
    BY <2>1 DEF StartTransaction, Sender, Rest, Idle
  <2>2. CASE RetryTransaction(d)
    BY <2>2 DEF RetryTransaction, Sender, Rest, Idle
  <2>3. CASE PutMarker(d)
    BY <2>3 DEF PutMarker, Sender, Rest, Idle
  <2>4. CASE RespondOk(d)
    BY <2>4 DEF RespondOk, Sender, Rest, Idle
  <2>5. CASE TakeMarker(d)
    BY <2>5 DEF TakeMarker, Sender, Rest, Idle
  <2>6. CASE MarkSuccess(d)
    BY <2>6 DEF MarkSuccess, Sender, Rest, Idle
  <2>7. CASE ClearHealth(d)
    BY <2>7 DEF ClearHealth, Sender, Rest, Idle
  <2>8. CASE \E more \in BOOLEAN : FollowUp(d, more)
    BY <2>8 DEF FollowUp, Sender, Rest, Idle
  <2>9. CASE RespondErr(d)
    BY <2>9, WorseType DEF RespondErr, Sender, Rest, Idle
  <2>10. CASE PersistHealth(d)
    BY <2>10 DEF PersistHealth, Sender, Rest, Idle
  <2>11. CASE WriteFails(d)
    BY <2>11 DEF WriteFails, Sender, Rest, Idle
  <2>12. CASE \E ok \in BOOLEAN : FinishResponse(d, ok)
    BY <2>12 DEF FinishResponse, Sender, Rest, Idle
  <2>13. CASE \E burst \in BOOLEAN : Boot(d, burst)
    BY <2>13 DEF Boot, Sender, Rest, Idle
  <2> QED BY <1>1, <2>1, <2>2, <2>3, <2>4, <2>5, <2>6,
             <2>7, <2>8, <2>9, <2>10, <2>11, <2>12, <2>13 DEF Mirror
<1>2. ASSUME NEW v \in Driver, DriveOnce(v) PROVE AllWithin'
  BY <1>2 DEF DriveOnce, TickReady, SelectDue, DrainScan, Dispatch, DrainDelete,
              DrainNext, DrainFails, DriveClear, DriveEnds
<1>3. CASE Restart
  BY <1>3 DEF Restart, Rest, Idle
<1>4. CASE Stop
  BY <1>4 DEF Stop
<1>5. CASE Tick
  <2>1. now' = now + 1 /\ UNCHANGED <<backoff, health, sender>>
    BY <1>5 DEF Tick
  <2>2. \A d \in Dest : /\ backoff[d] # NoBackoff => backoff[d].available_at \in Int
                        /\ health[d] # NoBackoff => health[d].available_at \in Int
    BY DEF Backoff
  <2>3. \A d \in Dest : sender[d].pc = "persist" =>
           (sender[d].record # NoBackoff => sender[d].record.available_at \in Int)
    BY DEF Backoff, Handler
  <2>4. CAP_BACKOFF_MS \in Nat
    BY FedAssumption
  <2>5. ASSUME NEW b, Within(b), b # NoBackoff => b.available_at \in Int
        PROVE  b # NoBackoff => b.available_at <= (now + 1) + CAP_BACKOFF_MS
    <3> HAVE b # NoBackoff
    <3>1. b.available_at \in Int /\ b.available_at <= now + CAP_BACKOFF_MS
      BY <2>5
    <3>2. now \in Nat
      OBVIOUS
    <3> QED BY <2>4, <3>1, <3>2
  <2> SUFFICES ASSUME NEW d \in Dest
               PROVE  /\ Within(backoff[d])'
                      /\ Within(health[d])'
                      /\ sender[d].pc = "persist" => Within(sender[d].record)'
    BY <2>1
  <2>6. Within(backoff[d]) /\ Within(health[d])
    OBVIOUS
  <2>7. sender[d].pc = "persist" => Within(sender[d].record)
    OBVIOUS
  <2> HIDE DEF TypeOK, AllWithin
  <2>8. Within(backoff[d])'
    BY <2>1, <2>2, <2>5, <2>6
  <2>9. Within(health[d])'
    BY <2>1, <2>2, <2>5, <2>6
  <2>10. sender[d].pc = "persist" => Within(sender[d].record)'
    BY <2>1, <2>3, <2>5, <2>7
  <2> QED BY <2>8, <2>9, <2>10
<1>6. CASE UNCHANGED vars
  BY <1>6 DEF vars
<1> QED BY <1>1, <1>2, <1>3, <1>4, <1>5, <1>6 DEF Next

\* No peer is kept waiting for longer than the cap, through restarts and with
\* failing writes.
THEOREM BackoffIsCapped == Spec => []AvailableSoon
<1>1. Init => AllWithin
  BY DEF Init, AllWithin, Within, Idle, Rest
<1>2. AllWithin => AvailableSoon
  BY DEF AllWithin, Within, AvailableSoon
<1>3. Fresh => TypeOK
  BY DEF Fresh
<1> QED BY <1>1, <1>2, <1>3, WithinStep, FreshAlways, PTL DEF Spec

-----------------------------------------------------------------------------
(* A store that does not fail *)

\* The server and its store stay as they are.
LEMMA ModeKept == [Next]_vars => mode' = mode
  BY DEF Next, vars

\* A worker that takes the markers of a destination has scanned all of them.
Taken ==
    \A d \in Dest :
        /\ sender[d].pc = "taking" => queue[d] \subseteq sender[d].left
        /\ sender[d].pc \in {"clear", "delivered"} => queue[d] = {}

\* Nobody but the worker itself queues for the destination, and drive cycles only
\* remove markers.
LEMMA TakenStep ==
    ASSUME TypeOK, ~mode.fails, Taken, [Next]_vars
    PROVE  Taken'
<1> USE DEF TypeOK, Taken, table, memory
<1>1. ASSUME NEW d \in Dest, Mirror(d) PROVE Taken'
  <2>1. CASE \E durable \in BOOLEAN : StartTransaction(d, durable)
    BY <2>1 DEF StartTransaction, Sender, Rest, Idle
  <2>2. CASE RetryTransaction(d)
    BY <2>2 DEF RetryTransaction, Sender, Rest, Idle
  <2>3. CASE PutMarker(d)
    BY <2>3 DEF PutMarker, Sender, Rest, Idle
  <2>4. CASE RespondOk(d)
    BY <2>4 DEF RespondOk, Sender, Rest, Idle
  <2>5. CASE TakeMarker(d)
    BY <2>5 DEF TakeMarker, Sender, Rest, Idle
  <2>6. CASE MarkSuccess(d)
    BY <2>6 DEF MarkSuccess, Sender, Rest, Idle
  <2>7. CASE ClearHealth(d)
    BY <2>7 DEF ClearHealth, Sender, Rest, Idle
  <2>8. CASE \E more \in BOOLEAN : FollowUp(d, more)
    BY <2>8 DEF FollowUp, Sender, Rest, Idle
  <2>9. CASE RespondErr(d)
    BY <2>9 DEF RespondErr, Sender, Rest, Idle
  <2>10. CASE PersistHealth(d)
    BY <2>10 DEF PersistHealth, Sender, Rest, Idle
  <2>11. CASE WriteFails(d)
    BY <2>11 DEF WriteFails, Sender, Rest, Idle
  <2>12. CASE \E ok \in BOOLEAN : FinishResponse(d, ok)
    BY <2>12 DEF FinishResponse, Sender, Rest, Idle
  <2>13. CASE \E burst \in BOOLEAN : Boot(d, burst)
    BY <2>13 DEF Boot, Sender, Rest, Idle
  <2> QED BY <1>1, <2>1, <2>2, <2>3, <2>4, <2>5, <2>6,
             <2>7, <2>8, <2>9, <2>10, <2>11, <2>12, <2>13 DEF Mirror
<1>2. ASSUME NEW v \in Driver, DriveOnce(v) PROVE Taken'
  <2>1. CASE DrainDelete(v)
    <3>1. driver[v].dest \in Dest
      BY <2>1 DEF DrainDelete, Cycle
    <3>2. UNCHANGED sender /\ \A d \in Dest : queue'[d] \subseteq queue[d]
      BY <2>1, <3>1 DEF DrainDelete
    <3> QED BY <3>2
  <2>2. CASE ~DrainDelete(v)
    <3>1. UNCHANGED <<sender, queue>>
      BY <1>2, <2>2 DEF DriveOnce, TickReady, SelectDue, DrainScan, Dispatch,
                        DrainNext, DrainFails, DriveClear, DriveEnds
    <3> QED BY <3>1
  <2> QED BY <2>1, <2>2
<1>3. CASE Restart
  BY <1>3 DEF Restart, Rest, Idle
<1>4. CASE Stop
  BY <1>4 DEF Stop
<1>5. CASE Tick
  BY <1>5 DEF Tick
<1>6. CASE UNCHANGED vars
  BY <1>6 DEF vars
<1> QED BY <1>1, <1>2, <1>3, <1>4, <1>5, <1>6 DEF Next

\* Once a delivery is mirrored no marker of its destination is left.
THEOREM DeliveryDrains == Spec => []DeliveredClears
<1> DEFINE Inv == ~mode.fails => Taken
<1>1. Init => Inv
  BY DEF Init, Taken, Idle, Rest
<1>2. Inv => DeliveredClears
  BY DEF Taken, DeliveredClears
<1>3. Fresh => TypeOK
  BY DEF Fresh
<1>4. TypeOK /\ Inv /\ [Next]_vars => Inv'
  BY TakenStep, ModeKept
<1> HIDE DEF Inv
<1> QED BY <1>1, <1>2, <1>3, <1>4, FreshAlways, PTL DEF Spec

\* The store follows the memory: it has the same record, or the worker is about
\* to write what the memory has.
Follows ==
    \A d \in Dest :
        /\ sender[d].pc \notin {"clear", "persist"} => health[d] = backoff[d]
        /\ sender[d].pc = "clear" => backoff[d] = NoBackoff
        /\ sender[d].pc = "persist" => backoff[d] = sender[d].record

\* The worker of a destination alone changes its records.
LEMMA FollowsStep ==
    ASSUME TypeOK, ~mode.drive, ~mode.fails, Follows, [Next]_vars
    PROVE  Follows'
<1> USE DEF TypeOK, Follows, table, memory
<1>1. ASSUME NEW d \in Dest, Mirror(d) PROVE Follows'
  <2>1. CASE \E durable \in BOOLEAN : StartTransaction(d, durable)
    BY <2>1 DEF StartTransaction, Sender, Rest, Idle
  <2>2. CASE RetryTransaction(d)
    BY <2>2 DEF RetryTransaction, Sender, Rest, Idle
  <2>3. CASE PutMarker(d)
    BY <2>3 DEF PutMarker, Sender, Rest, Idle
  <2>4. CASE RespondOk(d)
    BY <2>4 DEF RespondOk, Sender, Rest, Idle
  <2>5. CASE TakeMarker(d)
    BY <2>5 DEF TakeMarker, Sender, Rest, Idle
  <2>6. CASE MarkSuccess(d)
    BY <2>6 DEF MarkSuccess, Sender, Rest, Idle
  <2>7. CASE ClearHealth(d)
    BY <2>7 DEF ClearHealth, Sender, Rest, Idle
  <2>8. CASE \E more \in BOOLEAN : FollowUp(d, more)
    BY <2>8 DEF FollowUp, Sender, Rest, Idle
  <2>9. CASE RespondErr(d)
    BY <2>9 DEF RespondErr, Sender, Rest, Idle
  <2>10. CASE PersistHealth(d)
    BY <2>10 DEF PersistHealth, Sender, Rest, Idle
  <2>11. CASE WriteFails(d)
    BY <2>11 DEF WriteFails, Sender, Rest, Idle
  <2>12. CASE \E ok \in BOOLEAN : FinishResponse(d, ok)
    BY <2>12 DEF FinishResponse, Sender, Rest, Idle
  <2>13. CASE \E burst \in BOOLEAN : Boot(d, burst)
    BY <2>13 DEF Boot, Sender, Rest, Idle
  <2> QED BY <1>1, <2>1, <2>2, <2>3, <2>4, <2>5, <2>6,
             <2>7, <2>8, <2>9, <2>10, <2>11, <2>12, <2>13 DEF Mirror
<1>2. CASE Restart
  BY <1>2 DEF Restart, Rest, Idle
<1>3. CASE Stop
  BY <1>3 DEF Stop
<1>4. CASE Tick
  BY <1>4 DEF Tick
<1>5. CASE UNCHANGED vars
  BY <1>5 DEF vars
<1> QED BY <1>1, <1>2, <1>3, <1>4, <1>5 DEF Next

\* In shadow mode the health of a peer survives a restart, whatever transactions
\* end and however they end.
THEOREM HealthIsDurable == Spec => []HealthMirrors
<1> DEFINE Inv == ~mode.drive /\ ~mode.fails => Follows
<1>1. Init => Inv
  BY DEF Init, Follows, Idle, Rest
<1>2. Inv => HealthMirrors
  BY DEF Follows, HealthMirrors
<1>3. Fresh => TypeOK
  BY DEF Fresh
<1>4. TypeOK /\ Inv /\ [Next]_vars => Inv'
  BY FollowsStep, ModeKept
<1> HIDE DEF Inv
<1> QED BY <1>1, <1>2, <1>3, <1>4, FreshAlways, PTL DEF Spec

=============================================================================
