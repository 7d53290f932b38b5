---------------------------- MODULE SendingProofs ----------------------------
(***************************************************************************)
(* Proofs about Sending, for every set of destinations, events and workers *)
(* and every value of the limits.                                          *)
(***************************************************************************)
EXTENDS Sending, NatExtremes, SequenceTheorems, TLAPS

-----------------------------------------------------------------------------
(* Sequences and key order *)

\* Removing one element of a sequence leaves a sequence of the same elements.
LEMMA WithoutType ==
    ASSUME NEW S, NEW s \in Seq(S), NEW i \in 1..Len(s)
    PROVE  Without(s, i) \in Seq(S)
<1>1. SubSeq(s, 1, i - 1) \in Seq(S)
  BY SMT
<1>2. SubSeq(s, i + 1, Len(s)) \in Seq(S)
  BY SMT
<1> QED
  BY <1>1, <1>2, SMT DEF Without

\* Removing the only element leaves nothing.
LEMMA WithoutOnly ==
    ASSUME NEW S, NEW s \in Seq(S), Len(s) = 1, NEW i \in 1..Len(s)
    PROVE  Without(s, i) = <<>>
<1>1. i = 1
  OBVIOUS
<1>2. SubSeq(s, 1, 0) = <<>> /\ SubSeq(s, 2, 1) = <<>>
  BY SMT
<1> QED
  BY <1>1, <1>2 DEF Without

\* The first n events of a set are events of the set.
LEMMA FirstNSubset ==
    ASSUME NEW S, NEW n
    PROVE  FirstN(S, n) \subseteq S
BY DEF FirstN

LEMMA KeptSubset ==
    ASSUME NEW d \in Dest
    PROVE  Kept(d) \subseteq active[d]
BY FirstNSubset DEF Kept

-----------------------------------------------------------------------------
(* Types *)

LEMMA StatusTypes ==
    ASSUME NEW n \in 0..MaxTries
    PROVE  /\ Absent \in Status
           /\ Running \in Status
           /\ Failed(n) \in Status
           /\ Retrying(n) \in Status
BY SendingAssumption DEF Absent, Running, Failed, Retrying, Status

LEMMA JobTypes ==
    ASSUME NEW events \in SUBSET Event, NEW fresh \in BOOLEAN,
           NEW phase \in Phase
    PROVE  /\ Rest \in Job
           /\ Marking(events, fresh) \in Job
           /\ Deleting(phase) \in Job
BY DEF Rest, Marking, Deleting, Job, Phase, Flush

LEMMA TypeInit == Init => TypeOK
<1> SUFFICES ASSUME Init PROVE TypeOK
  OBVIOUS
<1>1. Absent \in Status /\ Rest \in Job
  BY StatusTypes, JobTypes, SendingAssumption DEF Phase
<1>2. ASSUME NEW T PROVE <<>> \in Seq(T)
  OBVIOUS
<1> QED
  BY <1>1, <1>2 DEF Init, TypeOK, Disk, Saved

\* Each step of the specification preserves the types.
LEMMA TypeNext == TypeOK /\ [Next]_vars => TypeOK'
<1> SUFFICES ASSUME TypeOK, [Next]_vars PROVE TypeOK'
  OBVIOUS
<1> USE SendingAssumption
<1>types. /\ Absent \in Status
          /\ Running \in Status
          /\ \A n \in 0..MaxTries : Failed(n) \in Status /\ Retrying(n) \in Status
          /\ Rest \in Job
          /\ Deleting("ack") \in Job
          /\ Deleting("finish") \in Job
          /\ \A events \in SUBSET Event, fresh \in BOOLEAN :
                Marking(events, fresh) \in Job
  BY StatusTypes, JobTypes DEF Phase
<1>idle. Absent \in Status /\ Rest \in Job
  BY <1>types
<1>1. ASSUME NEW d \in Dest, NEW e \in Event, SendEvent(d, e) PROVE TypeOK'
  <2>1. [dest |-> d, event |-> e] \in Msg
    BY DEF Msg
  <2>2. chan' \in [Worker -> Seq(Msg)]
    BY <1>1, <2>1 DEF SendEvent, TypeOK
  <2> QED
    BY <1>1, <2>2 DEF SendEvent, TypeOK
<1>2. ASSUME NEW d \in Dest, FlushServer(d) PROVE TypeOK'
  <2>1. [dest |-> d, event |-> Flush] \in Msg
    BY DEF Msg
  <2>2. chan' \in [Worker -> Seq(Msg)]
    BY <1>2, <2>1 DEF FlushServer, TypeOK
  <2> QED
    BY <1>2, <2>2 DEF FlushServer, TypeOK, tables, history
<1>3. ASSUME NextCount PROVE TypeOK'
  BY <1>3 DEF NextCount, TypeOK, memory, history
<1>4. ASSUME NEW d \in Dest, CleanupActive(d) PROVE TypeOK'
  BY <1>4 DEF CleanupActive, TypeOK
<1>5. ASSUME NEW d \in Dest, CleanupQueued(d) PROVE TypeOK'
  BY <1>5 DEF CleanupQueued, TypeOK
<1>6. ASSUME NEW w \in Worker, StartupBurst(w) PROVE TypeOK'
  <2>1. \A d \in Dest : Kept(d) \in SUBSET Event
    BY KeptSubset DEF TypeOK
  <2>2. \A d \in Dest : [events |-> Kept(d), edus |-> {}] \in Txn
    BY <2>1 DEF Txn
  <2>3. flight' \in [Dest -> Seq(Txn)]
    BY <1>6, <2>2 DEF StartupBurst, TypeOK
  <2>4. status' \in [Dest -> Status]
    BY <1>6, <1>types DEF StartupBurst, TypeOK
  <2>5. /\ active' \in [Dest -> SUBSET Event]
        /\ forfeited' \in [Dest -> SUBSET Event]
        /\ up' \in [Worker -> BOOLEAN]
    BY <1>6, <2>1 DEF StartupBurst, TypeOK
  <2> QED
    BY <1>6, <2>3, <2>4, <2>5 DEF StartupBurst, TypeOK
<1>7. ASSUME NEW w \in Worker, TakeMsg(w)
      PROVE  /\ chan' \in [Worker -> Seq(Msg)]
             /\ Head(chan[w]) \in Msg
             /\ Head(chan[w]).dest \in Dest
             /\ {Head(chan[w]).event} \ {Flush} \in SUBSET Event
  <2>1. chan[w] \in Seq(Msg) /\ chan[w] # <<>>
    BY <1>7 DEF TakeMsg, TypeOK
  <2>2. Head(chan[w]) \in Msg /\ Tail(chan[w]) \in Seq(Msg)
    BY <2>1
  <2> QED
    BY <1>7, <2>2 DEF TakeMsg, TypeOK, Msg
<1>8. ASSUME NEW w \in Worker, RequestRefused(w) PROVE TypeOK'
  BY <1>7, <1>8 DEF RequestRefused, TypeOK, tables, history
<1>9. ASSUME NEW w \in Worker, RequestRetry(w) PROVE TypeOK'
  <2> DEFINE d == Head(chan[w]).dest
  <2>1. d \in Dest /\ chan' \in [Worker -> Seq(Msg)]
    BY <1>7, <1>9 DEF RequestRetry
  <2>2. status[d].tries \in 0..MaxTries /\ active[d] \in SUBSET Event
    BY <2>1 DEF TypeOK, Status
  <2>3. [events |-> active[d], edus |-> {}] \in Txn
    BY <2>2 DEF Txn
  <2>4. ASSUME active[d] # {}
        PROVE  status' \in [Dest -> Status] /\ flight' \in [Dest -> Seq(Txn)]
    <3>1. /\ status' = [status EXCEPT ![d] = Retrying(@.tries)]
          /\ flight' = [flight EXCEPT ![d] =
                          Append(@, [events |-> active[d], edus |-> {}])]
      BY <1>9, <2>4 DEF RequestRetry, Push
    <3>2. Retrying(status[d].tries) \in Status
      BY <1>types, <2>2
    <3>3. status' \in [Dest -> Status]
      BY <3>1, <3>2 DEF TypeOK
    <3>4. flight' \in [Dest -> Seq(Txn)]
      BY <2>1, <2>3, <3>1 DEF TypeOK
    <3> QED
      BY <3>3, <3>4
  <2>5. ASSUME active[d] = {}
        PROVE  status' \in [Dest -> Status] /\ flight' \in [Dest -> Seq(Txn)]
    <3>1. status' = [status EXCEPT ![d] = Absent] /\ flight' = flight
      BY <1>9, <2>5 DEF RequestRetry
    <3> QED
      BY <1>idle, <2>1, <3>1 DEF TypeOK
  <2>6. status' \in [Dest -> Status] /\ flight' \in [Dest -> Seq(Txn)]
    BY <2>4, <2>5
  <2> QED
    BY <1>9, <2>1, <2>6 DEF RequestRetry, TypeOK, tables, history
<1>10. ASSUME NEW w \in Worker, RequestFresh(w) PROVE TypeOK'
  <2> DEFINE m == Head(chan[w])
  <2>1. m.dest \in Dest /\ chan' \in [Worker -> Seq(Msg)]
        /\ Marking({m.event} \ {Flush}, TRUE) \in Job
    BY <1>7, <1>10, <1>types DEF RequestFresh
  <2>2. status' \in [Dest -> Status] /\ job' \in [Dest -> Job]
    BY <1>10, <1>types, <2>1 DEF RequestFresh, TypeOK
  <2> QED
    BY <1>10, <2>1, <2>2 DEF RequestFresh, TypeOK, tables, history
<1>11. ASSUME NEW d \in Dest, MarkInsert(d) PROVE TypeOK'
  <2>1. PICK e \in job[d].todo :
          /\ active' = [active EXCEPT ![d] = @ \cup {e}]
          /\ job' = [job EXCEPT ![d].phase = "unqueue", ![d].cur = e]
    BY <1>11 DEF MarkInsert
  <2>2. job[d] \in Job /\ e \in Event
    BY DEF TypeOK, Job
  <2>3. job' \in [Dest -> Job]
    BY <2>1, <2>2 DEF TypeOK, Job, Phase
  <2> QED
    BY <1>11, <2>1, <2>2, <2>3 DEF MarkInsert, TypeOK, history
<1>12. ASSUME NEW d \in Dest, MarkRemove(d) PROVE TypeOK'
  <2>1. job[d] \in Job
    BY DEF TypeOK
  <2>2. job' \in [Dest -> Job]
    BY <1>12, <2>1 DEF MarkRemove, TypeOK, Job, Phase
  <2> QED
    BY <1>12, <2>2 DEF MarkRemove, TypeOK, history
<1>13. ASSUME NEW d \in Dest, Compose(d) PROVE TypeOK'
  <2>1. job[d].batch \in SUBSET Event
    BY DEF TypeOK, Job
  <2>2. job' \in [Dest -> Job]
    BY <1>13, <1>types DEF Compose, TypeOK
  <2>3. ASSUME NEW edus \in SUBSET Nat, Push(d, job[d].batch, edus)
        PROVE  flight' \in [Dest -> Seq(Txn)]
    <3>1. [events |-> job[d].batch, edus |-> edus] \in Txn
      BY <2>1 DEF Txn
    <3> QED
      BY <2>3, <3>1 DEF Push, TypeOK
  <2>4. CASE job[d].fresh /\ d \in Federation
    <3>1. PICK last \in educount[d]..count :
            \E edus \in SUBSET ((educount[d] + 1)..last) :
              /\ educount' = [educount EXCEPT ![d] = last]
              /\ eduSent' = [eduSent EXCEPT ![d] = @ \cup edus]
              /\ Push(d, job[d].batch, edus)
      BY <1>13, <2>4 DEF Compose
    <3>2. PICK edus \in SUBSET ((educount[d] + 1)..last) :
            /\ educount' = [educount EXCEPT ![d] = last]
            /\ eduSent' = [eduSent EXCEPT ![d] = @ \cup edus]
            /\ Push(d, job[d].batch, edus)
      BY <3>1
    <3>3. last \in Nat /\ edus \in SUBSET Nat
      BY DEF TypeOK
    <3> QED
      BY <1>13, <2>2, <2>3, <3>2, <3>3 DEF Compose, TypeOK
  <2>5. CASE ~(job[d].fresh /\ d \in Federation)
    BY <1>13, <2>2, <2>3, <2>5 DEF Compose, TypeOK
  <2> QED
    BY <2>4, <2>5
<1>14. ASSUME NEW d \in Dest, NEW i \in 1..Len(flight[d]),
              flight' = [flight EXCEPT ![d] = Without(@, i)]
       PROVE  flight' \in [Dest -> Seq(Txn)] /\ flight[d][i] \in Txn
  <2>1. flight[d] \in Seq(Txn)
    BY DEF TypeOK
  <2>2. Without(flight[d], i) \in Seq(Txn) /\ flight[d][i] \in Txn
    BY <2>1, WithoutType
  <2> QED
    BY <1>14, <2>2 DEF TypeOK
<1>15. ASSUME NEW d \in Dest, ResponseErr(d) PROVE TypeOK'
  <2>1. flight' \in [Dest -> Seq(Txn)]
    BY <1>14, <1>15 DEF ResponseErr
  <2>2. status[d].tries \in 0..MaxTries
    BY DEF TypeOK, Status
  <2>3. 1 \in 0..MaxTries
        /\ (status[d].tries < MaxTries => status[d].tries + 1 \in 0..MaxTries)
        /\ MaxTries \in 0..MaxTries
    BY <2>2
  <2>4. status' \in [Dest -> Status]
    BY <1>15, <1>types, <2>2, <2>3 DEF ResponseErr, TypeOK
  <2>5. panicked' \in [Worker -> BOOLEAN]
    BY <1>15 DEF ResponseErr, TypeOK
  <2> QED
    BY <1>15, <2>1, <2>4, <2>5 DEF ResponseErr, TypeOK, tables, history
<1>16. ASSUME NEW d \in Dest, ResponseOk(d) PROVE TypeOK'
  <2>1. PICK i \in 1..Len(flight[d]) :
          /\ flight' = [flight EXCEPT ![d] = Without(@, i)]
          /\ delivered' = [delivered EXCEPT ![d] = @ \cup flight[d][i].events]
    BY <1>16 DEF ResponseOk
  <2>2. flight' \in [Dest -> Seq(Txn)] /\ flight[d][i].events \in SUBSET Event
    BY <1>14, <2>1 DEF Txn
  <2>3. job' \in [Dest -> Job]
    BY <1>16, <1>types DEF ResponseOk, TypeOK
  <2> QED
    BY <1>16, <2>1, <2>2, <2>3 DEF ResponseOk, TypeOK, tables
<1>17. ASSUME NEW d \in Dest, DeleteActive(d) PROVE TypeOK'
  BY <1>17 DEF DeleteActive, TypeOK, memory, history
<1>18. ASSUME NEW d \in Dest, Dequeue(d) PROVE TypeOK'
  <2>1. Marking(FirstN(queued[d], DequeueLimit), FALSE) \in Job
    BY FirstNSubset, <1>types DEF TypeOK
  <2>2. \/ /\ job' = [job EXCEPT ![d] =
                         Marking(FirstN(queued[d], DequeueLimit), FALSE)]
           /\ status' = status
        \/ /\ job' = [job EXCEPT ![d] = Rest]
           /\ status' = [status EXCEPT ![d] = Absent]
    BY <1>18 DEF Dequeue
  <2>3. job' \in [Dest -> Job]
    BY <1>idle, <2>1, <2>2 DEF TypeOK
  <2>4. status' \in [Dest -> Status]
    BY <1>idle, <2>2 DEF TypeOK
  <2> QED
    BY <1>18, <2>3, <2>4 DEF Dequeue, TypeOK, tables, history
<1>19. ASSUME NEW d \in Dest, BackoffElapsed(d) PROVE TypeOK'
  <2>1. status' \in [Dest -> Status]
    BY <1>19 DEF BackoffElapsed, TypeOK, Status
  <2> QED
    BY <1>19, <2>1 DEF BackoffElapsed, TypeOK, tables, history
<1>20. ASSUME Interrupt PROVE TypeOK'
  BY <1>20 DEF Interrupt, TypeOK, tables, history
<1>21. ASSUME NEW d \in Dest, FinishOk(d) PROVE TypeOK'
  <2>1. PICK i \in 1..Len(flight[d]) :
          /\ flight' = [flight EXCEPT ![d] = Without(@, i)]
          /\ delivered' = [delivered EXCEPT ![d] = @ \cup flight[d][i].events]
    BY <1>21 DEF FinishOk
  <2>2. flight' \in [Dest -> Seq(Txn)] /\ flight[d][i].events \in SUBSET Event
    BY <1>14, <2>1 DEF Txn
  <2>3. job' \in [Dest -> Job]
    BY <1>21, <1>types DEF FinishOk, TypeOK
  <2> QED
    BY <1>21, <2>1, <2>2, <2>3 DEF FinishOk, TypeOK, tables
<1>22. ASSUME NEW d \in Dest, FinishErr(d) PROVE TypeOK'
  <2>1. flight' \in [Dest -> Seq(Txn)]
    BY <1>14, <1>22 DEF FinishErr
  <2> QED
    BY <1>22, <2>1 DEF FinishErr, TypeOK, tables, history
<1>23. ASSUME NEW d \in Dest, FinishDeleted(d) PROVE TypeOK'
  <2>1. job' \in [Dest -> Job]
    BY <1>23, <1>types DEF FinishDeleted, TypeOK
  <2> QED
    BY <1>23, <2>1 DEF FinishDeleted, TypeOK, tables, history
<1>24. ASSUME LoseMemory
       PROVE  /\ chan' \in [Worker -> Seq(Msg)]
              /\ closed' \in BOOLEAN
              /\ up' \in [Worker -> BOOLEAN]
              /\ panicked' \in [Worker -> BOOLEAN]
              /\ status' \in [Dest -> Status]
              /\ flight' \in [Dest -> Seq(Txn)]
              /\ job' \in [Dest -> Job]
              /\ cleaning' \in [Dest -> BOOLEAN]
  <2>1. ASSUME NEW T PROVE <<>> \in Seq(T)
    OBVIOUS
  <2> QED
    BY <1>24, <1>types, <2>1 DEF LoseMemory
<1>saved. Saved \in Disk
  BY DEF Saved, Disk, TypeOK
<1>25. ASSUME Exit PROVE TypeOK'
  BY <1>24, <1>25, <1>saved DEF Exit, TypeOK, tables, history
<1>26. ASSUME Crash PROVE TypeOK'
  <2>1. /\ queued' \in [Dest -> SUBSET Event]
        /\ active' \in [Dest -> SUBSET Event]
        /\ educount' \in [Dest -> Nat]
        /\ count' \in Nat
        /\ accepted' \in [Dest -> SUBSET Event]
        /\ disk' \in Disk
    BY <1>26 DEF Crash, TypeOK, Disk
  <2>2. /\ delivered' \in [Dest -> SUBSET Event]
        /\ forfeited' \in [Dest -> SUBSET Event]
        /\ eduSent' \in [Dest -> SUBSET Nat]
    BY <1>26 DEF Crash, TypeOK
  <2> QED
    BY <1>24, <1>26, <2>1, <2>2 DEF Crash, TypeOK
<1>28. ASSUME FlushLog PROVE TypeOK'
  BY <1>28, <1>saved DEF FlushLog, TypeOK, tables, memory, history
<1>27. ASSUME UNCHANGED vars PROVE TypeOK'
  BY <1>27 DEF vars, TypeOK, tables, memory, history
<1> QED
  BY <1>1, <1>2, <1>3, <1>4, <1>5, <1>6, <1>8, <1>9, <1>10, <1>11, <1>12,
     <1>13, <1>15, <1>16, <1>17, <1>18, <1>19, <1>20, <1>21, <1>22, <1>23,
     <1>25, <1>26, <1>27, <1>28
     DEF Next, Client, HandleRequest, HandlerStep

\* The state of the service always has its type; in particular the failure
\* counter of a status saturates.
THEOREM TypeCorrect == Spec => []TypeOK
BY TypeInit, TypeNext, PTL DEF Spec

-----------------------------------------------------------------------------
(* One transaction per destination *)

LEMMA RoutedNext == TypeOK /\ Routed /\ [Next]_vars => Routed'
<1> SUFFICES ASSUME TypeOK, Routed, [Next]_vars PROVE Routed'
  OBVIOUS
<1> USE SendingAssumption
<1>1. ASSUME NEW d \in Dest, NEW e,
             chan' = [chan EXCEPT ![ShardId[d]] =
                        Append(@, [dest |-> d, event |-> e])]
      PROVE  Routed'
  <2> SUFFICES ASSUME NEW w \in Worker, NEW i \in 1..Len(chan'[w])
               PROVE  ShardId[chan'[w][i].dest] = w
    BY DEF Routed
  <2>1. chan[w] \in Seq(Msg)
    BY DEF TypeOK
  <2>2. CASE w # ShardId[d]
    BY <1>1, <2>2 DEF Routed, TypeOK
  <2>3. CASE w = ShardId[d]
    <3>1. chan'[w] = Append(chan[w], [dest |-> d, event |-> e])
      BY <1>1, <2>3 DEF TypeOK
    <3>2. CASE i = Len(chan[w]) + 1
      BY <2>1, <2>3, <3>1, <3>2
    <3>3. CASE i \in 1..Len(chan[w])
      BY <2>1, <3>1, <3>3 DEF Routed
    <3> QED
      BY <2>1, <3>1, <3>2, <3>3
  <2> QED
    BY <2>2, <2>3
<1>2. ASSUME NEW w \in Worker, TakeMsg(w) PROVE Routed'
  <2> SUFFICES ASSUME NEW v \in Worker, NEW i \in 1..Len(chan'[v])
               PROVE  ShardId[chan'[v][i].dest] = v
    BY DEF Routed
  <2>1. chan[v] \in Seq(Msg)
    BY DEF TypeOK
  <2>2. CASE v # w
    BY <1>2, <2>2 DEF TakeMsg, Routed, TypeOK
  <2>3. CASE v = w
    <3>1. chan[v] # <<>> /\ chan'[v] = Tail(chan[v])
      BY <1>2, <2>3 DEF TakeMsg, TypeOK
    <3>2. i + 1 \in 1..Len(chan[v]) /\ chan'[v][i] = chan[v][i + 1]
      BY <2>1, <3>1
    <3> QED
      BY <3>2 DEF Routed
  <2> QED
    BY <2>2, <2>3
<1>3. ASSUME LoseMemory PROVE Routed'
  BY <1>3 DEF LoseMemory, Routed
<1>4. ASSUME UNCHANGED chan PROVE Routed'
  BY <1>4 DEF Routed
<1>5. CASE Client
  <2>1. ASSUME NEW d \in Dest, NEW e \in Event, SendEvent(d, e) PROVE Routed'
    BY <1>1, <1>4, <2>1 DEF SendEvent
  <2>2. ASSUME NEW d \in Dest, FlushServer(d) PROVE Routed'
    BY <1>1, <2>2 DEF FlushServer
  <2> QED
    BY <1>4, <1>5, <2>1, <2>2
       DEF Client, CleanupActive, CleanupQueued, NextCount, memory
<1>6. CASE \E w \in Worker : StartupBurst(w) \/ HandleRequest(w)
  BY <1>2, <1>4, <1>6
     DEF StartupBurst, HandleRequest, RequestRefused, RequestRetry, RequestFresh
<1>7. CASE \E d \in Dest : HandlerStep(d)
  BY <1>4, <1>7
     DEF HandlerStep, MarkInsert, MarkRemove, Compose, DeleteActive, Dequeue,
         FinishDeleted, memory
<1>8. CASE \E d \in Dest : \/ ResponseOk(d)
                           \/ ResponseErr(d)
                           \/ BackoffElapsed(d)
                           \/ FinishOk(d)
                           \/ FinishErr(d)
  BY <1>4, <1>8 DEF ResponseOk, ResponseErr, BackoffElapsed, FinishOk, FinishErr
<1>9. CASE FlushLog \/ Interrupt \/ Exit \/ Crash
  BY <1>3, <1>4, <1>9 DEF FlushLog, Interrupt, Exit, Crash, memory
<1>10. CASE UNCHANGED vars
  BY <1>4, <1>10 DEF vars, memory
<1> QED
  BY <1>5, <1>6, <1>7, <1>8, <1>9, <1>10 DEF Next

\* The destination of the announcement a worker takes has no handler running.
LEMMA TakenDest ==
    ASSUME TypeOK, Routed, NEW w \in Worker, TakeMsg(w)
    PROVE  /\ Head(chan[w]) \in Msg
           /\ Head(chan[w]).dest \in Dest
           /\ ShardId[Head(chan[w]).dest] = w
           /\ up[w]
           /\ job[Head(chan[w]).dest].phase = "rest"
<1>1. chan[w] \in Seq(Msg) /\ chan[w] # <<>>
  BY DEF TypeOK, TakeMsg
<1>2. Head(chan[w]) = chan[w][1] /\ 1 \in 1..Len(chan[w])
  BY <1>1
<1>3. Head(chan[w]) \in Msg /\ ShardId[Head(chan[w]).dest] = w
  BY <1>1, <1>2 DEF Routed
<1> QED
  BY <1>3 DEF TakeMsg, InWorkLoop, AtRest, Msg

\* With one transaction in flight, its end leaves none.
LEMMA FlightEnds ==
    ASSUME TypeOK, Coupled, NEW d \in Dest, NEW i \in 1..Len(flight[d]),
           flight' = [flight EXCEPT ![d] = Without(@, i)]
    PROVE  /\ flight' = [flight EXCEPT ![d] = <<>>]
           /\ i = 1
           /\ flight[d] # <<>>
           /\ Live(d)
<1>0. flight[d] \in Seq(Txn) /\ Len(flight[d]) \in Nat
  BY DEF TypeOK
<1>c. Len(flight[d]) <= 1 /\ (flight[d] # <<>> => Live(d))
  BY DEF Coupled
<1>d. Len(flight[d]) = 1
  <2> DEFINE n == Len(flight[d])
  <2>1. n \in Nat /\ n <= 1 /\ i \in 1..n
    BY <1>0, <1>c
  <2> HIDE DEF n
  <2>2. n = 1
    BY <2>1
  <2> QED
    BY <2>2 DEF n
<1>1. flight[d] \in Seq(Txn) /\ Len(flight[d]) = 1
  BY <1>0, <1>d
<1>2. Without(flight[d], i) = <<>>
  BY <1>1, WithoutOnly
<1>3. flight[d] # <<>>
  BY <1>1
<1>4. i = 1
  BY <1>1
<1> QED
  BY <1>2, <1>3, <1>4, <1>c

\* With nothing in flight, a push leaves exactly the new transaction.
LEMMA FlightBegins ==
    ASSUME TypeOK, NEW d \in Dest, flight[d] = <<>>,
           NEW events, NEW edus, Push(d, events, edus)
    PROVE  flight' = [flight EXCEPT ![d] = <<[events |-> events, edus |-> edus]>>]
<1>1. ASSUME NEW t PROVE Append(<<>>, t) = <<t>>
  OBVIOUS
<1>2. flight' = [flight EXCEPT ![d] =
                   Append(<<>>, [events |-> events, edus |-> edus])]
  BY DEF Push
<1> QED
  BY <1>1, <1>2

LEMMA CoupledInit == Init => Routed /\ Coupled
BY SendingAssumption DEF Init, Routed, Coupled, Absent, Rest, Live

LEMMA CoupledNext == TypeOK /\ Routed /\ Coupled /\ [Next]_vars => Coupled'
<1> SUFFICES ASSUME TypeOK, Routed, Coupled, [Next]_vars PROVE Coupled'
  OBVIOUS
<1> USE SendingAssumption
<1>len. Len(<<>>) = 0 /\ \A t : Len(<<t>>) = 1 /\ <<t>> # <<>>
  OBVIOUS
<1>1. ASSUME UNCHANGED <<flight, status, job, up>> PROVE Coupled'
  BY <1>1 DEF Coupled, Live
<1>2. ASSUME NEW w \in Worker, StartupBurst(w) PROVE Coupled'
  <2> SUFFICES ASSUME NEW d \in Dest PROVE Coupled!(d)'
    BY DEF Coupled
  <2>1. CASE ShardId[d] # w
    BY <1>2, <2>1 DEF StartupBurst, Coupled, Live, TypeOK
  <2>2. CASE ShardId[d] = w
    <3>1. flight[d] = <<>> /\ job[d].phase = "rest" /\ up'[ShardId[d]]
          /\ job' = job
      BY <1>2, <2>2 DEF StartupBurst, Coupled, TypeOK
    <3>2. \/ flight'[d] = <<>>
          \/ /\ flight'[d] = Append(<<>>, [events |-> Kept(d), edus |-> {}])
             /\ status'[d] = Running
      BY <1>2, <2>2, <3>1 DEF StartupBurst
    <3>3. Append(<<>>, [events |-> Kept(d), edus |-> {}])
            = <<[events |-> Kept(d), edus |-> {}]>>
      OBVIOUS
    <3>4. Len(flight'[d]) <= 1
      <4>1. CASE flight'[d] = <<>>
        BY <4>1
      <4>2. CASE flight'[d] = <<[events |-> Kept(d), edus |-> {}]>>
        BY <4>2
      <4> QED
        BY <3>2, <3>3, <4>1, <4>2
    <3>5. flight'[d] # <<>> => Live(d)'
      BY <3>2 DEF Live, Running
    <3> QED
      BY <3>1, <3>4, <3>5 DEF Coupled
  <2> QED
    BY <2>1, <2>2
<1>3. ASSUME NEW w \in Worker, RequestRetry(w) PROVE Coupled'
  <2> DEFINE d == Head(chan[w]).dest
  <2>1. d \in Dest /\ job[d].phase = "rest" /\ up[ShardId[d]]
        /\ status[d].st = "failed" /\ flight[d] = <<>>
    BY <1>3, TakenDest DEF RequestRetry, Coupled, Live
  <2>2. CASE active[d] # {}
    <3>1. flight' = [flight EXCEPT ![d] = <<[events |-> active[d], edus |-> {}]>>]
          /\ status' = [status EXCEPT ![d] = Retrying(@.tries)]
      BY <1>3, <2>1, <2>2, FlightBegins DEF RequestRetry
    <3>2. UNCHANGED <<job, up>>
      BY <1>3 DEF RequestRetry
    <3>3. status'[d].st = "retrying" /\ Len(flight'[d]) = 1
      BY <1>len, <2>1, <3>1 DEF Retrying, TypeOK
    <3>4. \A c \in Dest : c # d => status'[c] = status[c] /\ flight'[c] = flight[c]
      BY <2>1, <3>1 DEF TypeOK
    <3> SUFFICES ASSUME NEW c \in Dest PROVE Coupled!(c)'
      BY DEF Coupled
    <3>5. CASE c = d
      <4>1. job'[c].phase = "rest" /\ up'[ShardId[c]]
        BY <2>1, <3>2, <3>5
      <4>2. status'[c].st = "retrying" /\ Len(flight'[c]) = 1
        BY <3>3, <3>5
      <4> QED
        BY <4>1, <4>2 DEF Live
    <3>6. CASE c # d
      BY <3>2, <3>4, <3>6 DEF Coupled, Live
    <3> QED
      BY <3>5, <3>6
  <2>3. CASE active[d] = {}
    BY <1>3, <2>1, <2>3 DEF RequestRetry, Coupled, Live, Absent, TypeOK
  <2> QED
    BY <2>2, <2>3
<1>4. ASSUME NEW w \in Worker, RequestFresh(w) PROVE Coupled'
  <2> DEFINE m == Head(chan[w])
  <2>1. m.dest \in Dest /\ up[ShardId[m.dest]]
        /\ status[m.dest].st = "absent" /\ flight[m.dest] = <<>>
    BY <1>4, TakenDest DEF RequestFresh, Coupled, Live
  <2> QED
    BY <1>4, <2>1 DEF RequestFresh, Coupled, Live, Running, Marking, TypeOK
<1>5. ASSUME NEW d \in Dest, MarkInsert(d) \/ MarkRemove(d) PROVE Coupled'
  <2>1. job[d].phase \in {"mark", "unqueue"}
    BY <1>5 DEF MarkInsert, MarkRemove
  <2>2. job[d] \in Job
    BY DEF TypeOK
  <2>3. job'[d].phase \in {"mark", "unqueue"}
    <3>1. CASE MarkInsert(d)
      BY <2>2, <3>1 DEF MarkInsert, TypeOK, Job
    <3>2. CASE MarkRemove(d)
      BY <2>2, <3>2 DEF MarkRemove, TypeOK, Job
    <3> QED
      BY <1>5, <3>1, <3>2
  <2>4. \A c \in Dest : c # d => job'[c] = job[c]
    BY <1>5 DEF MarkInsert, MarkRemove, TypeOK
  <2>5. UNCHANGED <<flight, status, up>>
    BY <1>5 DEF MarkInsert, MarkRemove
  <2> QED
    BY <2>1, <2>3, <2>4, <2>5 DEF Coupled, Live
<1>6. ASSUME NEW d \in Dest, Compose(d) PROVE Coupled'
  <2>1. job[d].phase = "mark" /\ flight[d] = <<>> /\ Live(d)
        /\ up[ShardId[d]]
    BY <1>6 DEF Compose, Coupled
  <2>2. \E edus : Push(d, job[d].batch, edus)
    BY <1>6 DEF Compose
  <2>3. \E t : flight' = [flight EXCEPT ![d] = <<t>>]
    BY <2>1, <2>2, FlightBegins
  <2> QED
    BY <1>6, <1>len, <2>1, <2>3 DEF Compose, Coupled, Live, Rest, TypeOK
<1>7. ASSUME NEW d \in Dest, ResponseErr(d) PROVE Coupled'
  <2>1. flight' = [flight EXCEPT ![d] = <<>>] /\ Live(d) /\ flight[d] # <<>>
    BY <1>7, FlightEnds DEF ResponseErr
  <2>2. job[d].phase = "rest" /\ up[ShardId[d]]
    BY <2>1 DEF Coupled
  <2>3. \E n : status' = [status EXCEPT ![d] = Failed(n)]
    BY <1>7, <2>1 DEF ResponseErr, Live
  <2> QED
    BY <1>7, <1>len, <2>1, <2>2, <2>3
       DEF ResponseErr, Coupled, Live, Failed, TypeOK
<1>8. ASSUME NEW d \in Dest, ResponseOk(d) \/ FinishOk(d) PROVE Coupled'
  <2>1. flight' = [flight EXCEPT ![d] = <<>>] /\ Live(d) /\ flight[d] # <<>>
    BY <1>8, FlightEnds DEF ResponseOk, FinishOk
  <2>2. up[ShardId[d]]
    BY <2>1 DEF Coupled
  <2>3. \E p \in {"ack", "finish"} : job' = [job EXCEPT ![d] = Deleting(p)]
    BY <1>8 DEF ResponseOk, FinishOk
  <2> QED
    BY <1>8, <1>len, <2>1, <2>2, <2>3
       DEF ResponseOk, FinishOk, Coupled, Live, Deleting, TypeOK
<1>9. ASSUME NEW d \in Dest, FinishErr(d) PROVE Coupled'
  <2>1. flight' = [flight EXCEPT ![d] = <<>>]
    BY <1>9, FlightEnds DEF FinishErr
  <2> QED
    BY <1>9, <1>len, <2>1 DEF FinishErr, Coupled, Live, TypeOK
<1>10. ASSUME NEW d \in Dest, Dequeue(d) PROVE Coupled'
  <2>1. job[d].phase = "ack" /\ flight[d] = <<>> /\ Live(d) /\ up[ShardId[d]]
    BY <1>10 DEF Dequeue, Coupled
  <2>2. CASE FirstN(queued[d], DequeueLimit) # {}
    <3>1. /\ job' = [job EXCEPT ![d] =
                       Marking(FirstN(queued[d], DequeueLimit), FALSE)]
          /\ status' = status
      BY <1>10, <2>2 DEF Dequeue
    <3>2. /\ \A c \in Dest : c # d => job'[c] = job[c]
          /\ job'[d].phase = "mark"
      BY <3>1 DEF Marking, TypeOK
    <3> QED
      BY <1>10, <2>1, <3>1, <3>2 DEF Dequeue, Coupled, Live
  <2>3. CASE FirstN(queued[d], DequeueLimit) = {}
    <3>1. /\ job' = [job EXCEPT ![d] = Rest]
          /\ status' = [status EXCEPT ![d] = Absent]
      BY <1>10, <2>3 DEF Dequeue
    <3>2. /\ \A c \in Dest : c # d => job'[c] = job[c] /\ status'[c] = status[c]
          /\ job'[d].phase = "rest"
          /\ status'[d].st = "absent"
      BY <3>1 DEF Rest, Absent, TypeOK
    <3> QED
      BY <1>10, <2>1, <3>2 DEF Dequeue, Coupled, Live
  <2> QED
    BY <2>2, <2>3
<1>11. ASSUME NEW d \in Dest, FinishDeleted(d) PROVE Coupled'
  BY <1>11 DEF FinishDeleted, Coupled, Live, Rest, TypeOK
<1>12. ASSUME NEW d \in Dest, BackoffElapsed(d) PROVE Coupled'
  <2>1. \A c \in Dest : status'[c].st = status[c].st
    BY <1>12 DEF BackoffElapsed, TypeOK, Status
  <2> QED
    BY <1>12, <2>1 DEF BackoffElapsed, Coupled, Live
<1>13. ASSUME LoseMemory PROVE Coupled'
  BY <1>13, <1>len DEF LoseMemory, Coupled, Absent, Rest, Live
<1>14. CASE Client
  BY <1>1, <1>14
     DEF Client, SendEvent, FlushServer, CleanupActive, CleanupQueued,
         NextCount, memory
<1>15. CASE \E w \in Worker : StartupBurst(w) \/ HandleRequest(w)
  BY <1>1, <1>2, <1>3, <1>4, <1>15 DEF HandleRequest, RequestRefused
<1>16. CASE \E d \in Dest : HandlerStep(d)
  BY <1>1, <1>5, <1>6, <1>10, <1>11, <1>16 DEF HandlerStep, DeleteActive, memory
<1>17. CASE FlushLog \/ Interrupt \/ Exit \/ Crash
  BY <1>1, <1>13, <1>17 DEF FlushLog, Interrupt, Exit, Crash, memory
<1>18. CASE UNCHANGED vars
  BY <1>1, <1>18 DEF vars, memory
<1> QED
  BY <1>7, <1>8, <1>9, <1>12, <1>14, <1>15, <1>16, <1>17, <1>18 DEF Next

\* A worker panics only in handle_response_err, on a destination that already
\* failed; a response belongs to a transaction in flight, whose destination is
\* live.
LEMMA NoPanicNext ==
    TypeOK /\ Coupled /\ NoPanic /\ [Next]_vars => NoPanic'
<1> SUFFICES ASSUME TypeOK, Coupled, NoPanic, [Next]_vars PROVE NoPanic'
  OBVIOUS
<1> USE SendingAssumption
<1>1. ASSUME NEW d \in Dest, ResponseErr(d) PROVE NoPanic'
  <2>1. Live(d)
    BY <1>1, FlightEnds DEF ResponseErr
  <2>2. panicked' = [panicked EXCEPT ![ShardId[d]] = FALSE]
    BY <1>1, <2>1 DEF ResponseErr, Live
  <2> QED
    BY <2>2 DEF NoPanic, TypeOK
<1>2. ASSUME UNCHANGED panicked PROVE NoPanic'
  BY <1>2 DEF NoPanic
<1>3. ASSUME LoseMemory PROVE NoPanic'
  BY <1>3 DEF LoseMemory, NoPanic
<1>4. CASE Client
  BY <1>2, <1>4
     DEF Client, SendEvent, FlushServer, CleanupActive, CleanupQueued,
         NextCount, memory
<1>5. CASE \E w \in Worker : StartupBurst(w) \/ HandleRequest(w)
  BY <1>2, <1>5
     DEF StartupBurst, HandleRequest, RequestRefused, RequestRetry, RequestFresh
<1>6. CASE \E d \in Dest : HandlerStep(d)
  BY <1>2, <1>6
     DEF HandlerStep, MarkInsert, MarkRemove, Compose, DeleteActive, Dequeue,
         FinishDeleted, memory
<1>7. CASE \E d \in Dest : \/ ResponseOk(d)
                           \/ BackoffElapsed(d)
                           \/ FinishOk(d)
                           \/ FinishErr(d)
  BY <1>2, <1>7 DEF ResponseOk, BackoffElapsed, FinishOk, FinishErr
<1>8. CASE FlushLog \/ Interrupt \/ Exit \/ Crash
  BY <1>2, <1>3, <1>8 DEF FlushLog, Interrupt, Exit, Crash, memory
<1>9. CASE UNCHANGED vars
  BY <1>2, <1>9 DEF vars, memory
<1> QED
  BY <1>1, <1>4, <1>5, <1>6, <1>7, <1>8, <1>9 DEF Next

\* The panic of handle_response_err is unreachable, for any number of workers
\* and destinations, whatever the configuration.
THEOREM NeverPanics == Spec => []NoPanic
<1>1. Init => Routed /\ Coupled /\ NoPanic
  BY CoupledInit DEF Init, NoPanic
<1>2. TypeOK /\ Routed /\ Coupled /\ NoPanic /\ [Next]_vars
        => Routed' /\ Coupled' /\ NoPanic'
  BY RoutedNext, CoupledNext, NoPanicNext
<1> QED
  BY <1>1, <1>2, TypeCorrect, PTL DEF Spec

\* A destination has at most one transaction in flight, and none while the next
\* one is prepared or the destination is backed off.
THEOREM AtMostOneTransaction == Spec => []SingleTransaction
<1>1. Routed /\ Coupled => SingleTransaction
  BY DEF Coupled, SingleTransaction, Live
<1>2. TypeOK /\ Routed /\ Coupled /\ [Next]_vars => Routed' /\ Coupled'
  BY RoutedNext, CoupledNext
<1> QED
  BY <1>1, <1>2, CoupledInit, TypeCorrect, PTL DEF Spec

-----------------------------------------------------------------------------
(* No event is lost *)

\* A step that leaves alone what belongs to a destination keeps its ledger.
LEMMA LedgerFrame ==
    ASSUME NEW d \in Dest, Ledger(d),
           up'[ShardId[d]] = up[ShardId[d]],
           status'[d].st = status[d].st,
           active'[d] = active[d],
           flight'[d] = flight[d],
           job'[d] = job[d],
           cleaning'[d] = cleaning[d],
           queued'[d] = queued[d],
           accepted'[d] = accepted[d],
           delivered'[d] = delivered[d],
           forfeited'[d] = forfeited[d]
    PROVE  Ledger(d)'
BY DEF Ledger, Tracked, Complete, Retained

LEMMA LedgersInit == Init => Ledgers
<1> SUFFICES ASSUME Init, NEW d \in Dest PROVE Ledger(d)
  BY DEF Ledgers
<1> QED
  BY DEF Init, Ledger, Tracked, Complete, Retained, Absent, Rest

LEMMA LedgersStep ==
    ASSUME StartupNetburst \/ NothingLeft,
           TypeOK, Routed, Coupled, Ledgers, ~Crash, [Next]_vars
    PROVE  Ledgers'
<1> USE SendingAssumption
<1>frame. ASSUME NEW d \in Dest, NEW c \in Dest, c # d,
                 UNCHANGED up,
                 status'[c] = status[c], active'[c] = active[c],
                 flight'[c] = flight[c], job'[c] = job[c],
                 cleaning'[c] = cleaning[c], queued'[c] = queued[c],
                 accepted'[c] = accepted[c], delivered'[c] = delivered[c],
                 forfeited'[c] = forfeited[c]
          PROVE  Ledger(c)'
  BY <1>frame, LedgerFrame DEF Ledgers
<1>same. ASSUME UNCHANGED <<up, status, active, flight, job, cleaning, queued,
                            accepted, delivered, forfeited>>
         PROVE  Ledgers'
  BY <1>same, LedgerFrame DEF Ledgers
<1>1. ASSUME NEW d \in Dest, NEW e \in Event, SendEvent(d, e) PROVE Ledgers'
  <2>1. ASSUME NEW c \in Dest, c # d PROVE Ledger(c)'
    BY <1>1, <1>frame, <2>1 DEF SendEvent, TypeOK
  <2>2. Ledger(d)'
    BY <1>1 DEF SendEvent, Ledgers, Ledger, Tracked, Complete, Retained, TypeOK
  <2> QED
    BY <2>1, <2>2 DEF Ledgers
<1>2. ASSUME NEW d \in Dest, CleanupActive(d) PROVE Ledgers'
  <2>1. ASSUME NEW c \in Dest, c # d PROVE Ledger(c)'
    BY <1>2, <1>frame, <2>1 DEF CleanupActive, TypeOK
  <2>2. Ledger(d)'
    BY <1>2 DEF CleanupActive, Ledgers, Ledger, Tracked, Retained, TypeOK
  <2> QED
    BY <2>1, <2>2 DEF Ledgers
<1>3. ASSUME NEW d \in Dest, CleanupQueued(d) PROVE Ledgers'
  <2>1. ASSUME NEW c \in Dest, c # d PROVE Ledger(c)'
    BY <1>3, <1>frame, <2>1 DEF CleanupQueued, TypeOK
  <2>2. Ledger(d)'
    BY <1>3
       DEF CleanupQueued, Ledgers, Ledger, Tracked, Complete, Retained, TypeOK
  <2> QED
    BY <2>1, <2>2 DEF Ledgers
<1>4. ASSUME NEW w \in Worker, StartupBurst(w) PROVE Ledgers'
  <2> SUFFICES ASSUME NEW d \in Dest PROVE Ledger(d)'
    BY DEF Ledgers
  <2>1. CASE ShardId[d] # w
    <3>1. /\ up'[ShardId[d]] = up[ShardId[d]]
          /\ status'[d] = status[d] /\ active'[d] = active[d]
          /\ flight'[d] = flight[d] /\ forfeited'[d] = forfeited[d]
          /\ UNCHANGED <<job, cleaning, queued, accepted, delivered>>
      BY <1>4, <2>1 DEF StartupBurst, TypeOK
    <3> QED
      BY <3>1, LedgerFrame DEF Ledgers
  <2>2. CASE ShardId[d] = w
    <3>1. /\ flight[d] = <<>> /\ job[d].phase = "rest"
          /\ Kept(d) \subseteq active[d]
          /\ active'[d] = Kept(d)
          /\ forfeited'[d] = forfeited[d] \cup (active[d] \ Kept(d))
          /\ UNCHANGED <<job, cleaning, queued, accepted, delivered>>
      BY <1>4, <2>2, KeptSubset DEF StartupBurst, Coupled
    <3>2. CASE Kept(d) = {}
      <4>1. flight'[d] = <<>>
        BY <1>4, <2>2, <3>1, <3>2 DEF StartupBurst
      <4> QED
        BY <3>1, <3>2, <4>1 DEF Ledgers, Ledger, Tracked, Complete, Retained
    <3>3. CASE Kept(d) # {}
      <4>0. StartupNetburst
        BY <1>4, <2>2, <3>1, <3>3 DEF StartupBurst, NothingLeft
      <4>1. /\ flight'[d] = Append(<<>>, [events |-> Kept(d), edus |-> {}])
            /\ status'[d] = Running
        BY <1>4, <2>2, <3>1, <3>3, <4>0 DEF StartupBurst
      <4>2. Append(<<>>, [events |-> Kept(d), edus |-> {}])
              = <<[events |-> Kept(d), edus |-> {}]>>
        OBVIOUS
      <4>3. flight'[d][1].events = Kept(d) /\ status'[d].st = "running"
        BY <4>1, <4>2 DEF Running
      <4> QED
        BY <3>1, <4>3 DEF Ledgers, Ledger, Tracked, Complete, Retained
    <3> QED
      BY <3>2, <3>3
  <2> QED
    BY <2>1, <2>2
<1>5. ASSUME NEW w \in Worker, RequestRetry(w) PROVE Ledgers'
  <2>0. PICK d \in Dest : d = Head(chan[w]).dest
    BY <1>5, TakenDest DEF RequestRetry
  <2>1. d \in Dest /\ job[d].phase = "rest" /\ status[d].st = "failed"
        /\ flight[d] = <<>>
    BY <1>5, <2>0, TakenDest DEF RequestRetry, Coupled, Live
  <2>2. UNCHANGED <<up, active, job, cleaning, queued, accepted, delivered,
                    forfeited>>
    BY <1>5 DEF RequestRetry, tables, history
  <2>3. CASE active[d] # {}
    <3>1. flight' = [flight EXCEPT ![d] = <<[events |-> active[d], edus |-> {}]>>]
          /\ status' = [status EXCEPT ![d] = Retrying(@.tries)]
      BY <1>5, <2>0, <2>1, <2>3, FlightBegins DEF RequestRetry
    <3>2. ASSUME NEW c \in Dest, c # d PROVE Ledger(c)'
      BY <2>1, <2>2, <3>1, <3>2, <1>frame DEF TypeOK
    <3>3. flight'[d] = <<[events |-> active[d], edus |-> {}]>>
          /\ status'[d].st = "retrying"
      BY <2>1, <3>1 DEF TypeOK, Retrying
    <3>4. flight'[d][1].events = active[d]
      BY <3>3
    <3>5. Ledger(d)'
      BY <2>1, <2>2, <3>3, <3>4 DEF Ledgers, Ledger, Tracked, Complete, Retained
    <3> QED
      BY <3>2, <3>5 DEF Ledgers
  <2>4. CASE active[d] = {}
    <3>1. status' = [status EXCEPT ![d] = Absent] /\ flight' = flight
      BY <1>5, <2>0, <2>4 DEF RequestRetry
    <3>2. ASSUME NEW c \in Dest, c # d PROVE Ledger(c)'
      BY <2>1, <2>2, <3>1, <3>2, <1>frame DEF TypeOK
    <3>3. Ledger(d)'
      BY <2>1, <2>2, <2>4, <3>1 DEF Ledgers, Ledger, Tracked, Complete, Retained
    <3> QED
      BY <3>2, <3>3 DEF Ledgers
  <2> QED
    BY <2>3, <2>4
<1>6. ASSUME NEW w \in Worker, RequestFresh(w) PROVE Ledgers'
  <2>0. PICK m \in Msg : m = Head(chan[w])
    BY <1>6, TakenDest DEF RequestFresh
  <2>d. PICK d \in Dest : d = m.dest
    BY DEF Msg
  <2>1. d \in Dest /\ up[ShardId[d]] /\ status[d].st = "absent"
        /\ flight[d] = <<>>
    BY <1>6, <2>0, <2>d, TakenDest DEF RequestFresh, Coupled, Live
  <2>2. UNCHANGED <<up, active, flight, cleaning, queued, accepted, delivered,
                    forfeited>>
    BY <1>6 DEF RequestFresh, tables, history
  <2>3. active[d] = {}
    BY <2>1 DEF Ledgers, Ledger, Tracked
  <2>4. ASSUME NEW c \in Dest, c # d PROVE Ledger(c)'
    BY <1>6, <2>0, <2>d, <2>1, <2>2, <2>4, <1>frame DEF RequestFresh, TypeOK
  <2>5. job'[d] = Marking({m.event} \ {Flush}, TRUE) /\ status'[d] = Running
    BY <1>6, <2>0, <2>d, <2>1 DEF RequestFresh, TypeOK
  <2>6. /\ job'[d].phase = "mark"
        /\ job'[d].todo = job'[d].batch
        /\ status'[d].st = "running"
    BY <2>5 DEF Marking, Running
  <2>7. Ledger(d)'
    BY <2>1, <2>2, <2>3, <2>6 DEF Ledgers, Ledger, Tracked, Complete, Retained
  <2> QED
    BY <2>4, <2>7 DEF Ledgers
<1>7. ASSUME NEW d \in Dest, MarkInsert(d) PROVE Ledgers'
  <2>1. PICK e \in job[d].todo :
          /\ active' = [active EXCEPT ![d] = @ \cup {e}]
          /\ job' = [job EXCEPT ![d].phase = "unqueue", ![d].cur = e]
    BY <1>7 DEF MarkInsert
  <2>2. /\ UNCHANGED <<up, status, flight, cleaning, queued, accepted,
                       delivered, forfeited>>
        /\ job[d].phase = "mark"
    BY <1>7 DEF MarkInsert, history
  <2>3. ASSUME NEW c \in Dest, c # d PROVE Ledger(c)'
    BY <2>1, <2>2, <2>3, <1>frame DEF TypeOK
  <2>4. job[d] \in Job
    BY DEF TypeOK
  <2>5. /\ job'[d].phase = "unqueue" /\ job'[d].cur = e
        /\ job'[d].todo = job[d].todo /\ job'[d].batch = job[d].batch
        /\ active'[d] = active[d] \cup {e}
    BY <2>1, <2>4 DEF TypeOK, Job
  <2>6. flight[d] = <<>> /\ status[d].st # "absent"
    BY <2>2 DEF Coupled, Live
  <2>7. Ledger(d)'
    BY <2>2, <2>5, <2>6 DEF Ledgers, Ledger, Tracked, Complete, Retained
  <2> QED
    BY <2>3, <2>7 DEF Ledgers
<1>8. ASSUME NEW d \in Dest, MarkRemove(d) PROVE Ledgers'
  <2>1. /\ UNCHANGED <<up, status, active, flight, cleaning, accepted,
                       delivered, forfeited>>
        /\ job[d].phase = "unqueue"
        /\ queued' = [queued EXCEPT ![d] = @ \ {job[d].cur}]
    BY <1>8 DEF MarkRemove, history
  <2>2. ASSUME NEW c \in Dest, c # d PROVE Ledger(c)'
    BY <1>8, <2>1, <2>2, <1>frame DEF MarkRemove, TypeOK
  <2>3. job[d] \in Job
    BY DEF TypeOK
  <2>4. /\ job'[d].phase = "mark"
        /\ job'[d].todo = job[d].todo \ {job[d].cur}
        /\ job'[d].batch = job[d].batch
        /\ queued'[d] = queued[d] \ {job[d].cur}
    BY <1>8, <2>3 DEF MarkRemove, TypeOK, Job
  <2>5. flight[d] = <<>> /\ status[d].st # "absent"
    BY <2>1 DEF Coupled, Live
  <2>6. Ledger(d)
    BY DEF Ledgers
  <2>7. Tracked(d)'
    BY <2>1, <2>4, <2>5, <2>6 DEF Ledger, Tracked
  <2>8. d \notin Cleanable => Complete(d)'
    BY <2>1, <2>4, <2>5, <2>6 DEF Ledger, Tracked, Complete
  <2>9. Retained(d)'
    BY <2>1, <2>4, <2>6 DEF Ledger, Tracked, Retained
  <2> QED
    BY <2>2, <2>7, <2>8, <2>9 DEF Ledgers, Ledger
<1>9. ASSUME NEW d \in Dest, Compose(d) PROVE Ledgers'
  <2>1. /\ UNCHANGED <<up, status, active, cleaning, queued, accepted,
                       delivered, forfeited>>
        /\ job[d].phase = "mark" /\ job[d].todo = {}
        /\ job' = [job EXCEPT ![d] = Rest]
    BY <1>9 DEF Compose
  <2>2. flight[d] = <<>> /\ status[d].st # "absent"
    BY <2>1 DEF Coupled, Live
  <2>3. PICK edus : Push(d, job[d].batch, edus)
    BY <1>9 DEF Compose
  <2>4. flight' = [flight EXCEPT ![d] =
                     <<[events |-> job[d].batch, edus |-> edus]>>]
    BY <2>2, <2>3, FlightBegins
  <2>5. ASSUME NEW c \in Dest, c # d PROVE Ledger(c)'
    BY <2>1, <2>4, <2>5, <1>frame DEF TypeOK
  <2>6. job'[d] = Rest
        /\ flight'[d] = <<[events |-> job[d].batch, edus |-> edus]>>
    BY <2>1, <2>4 DEF TypeOK
  <2>7. job'[d].phase = "rest" /\ job'[d].todo = {} /\ job'[d].batch = {}
        /\ flight'[d][1].events = job[d].batch
    BY <2>6 DEF Rest
  <2>8. Ledger(d)'
    BY <2>1, <2>2, <2>7 DEF Ledgers, Ledger, Tracked, Complete, Retained
  <2> QED
    BY <2>5, <2>8 DEF Ledgers
<1>10. ASSUME NEW d \in Dest, ResponseErr(d) \/ FinishErr(d) PROVE Ledgers'
  <2>1. flight' = [flight EXCEPT ![d] = <<>>] /\ Live(d)
    BY <1>10, FlightEnds DEF ResponseErr, FinishErr
  <2>2. UNCHANGED <<up, active, job, cleaning, queued, accepted, delivered,
                    forfeited>>
    BY <1>10 DEF ResponseErr, FinishErr, tables, history
  <2>3. \/ status' = status
        \/ \E n : status' = [status EXCEPT ![d] = Failed(n)]
    BY <1>10 DEF ResponseErr, FinishErr
  <2>4. ASSUME NEW c \in Dest, c # d PROVE Ledger(c)'
    BY <2>1, <2>2, <2>3, <2>4, <1>frame DEF TypeOK
  <2>5. flight'[d] = <<>> /\ status'[d].st # "absent"
    BY <2>1, <2>3 DEF TypeOK, Failed, Live
  <2>6. Ledger(d)'
    BY <2>2, <2>5 DEF Ledgers, Ledger, Tracked, Complete, Retained
  <2> QED
    BY <2>4, <2>6 DEF Ledgers
<1>11. ASSUME NEW d \in Dest, ResponseOk(d) \/ FinishOk(d) PROVE Ledgers'
  <2>1. PICK i \in 1..Len(flight[d]) :
          /\ flight' = [flight EXCEPT ![d] = Without(@, i)]
          /\ delivered' = [delivered EXCEPT ![d] = @ \cup flight[d][i].events]
    BY <1>11 DEF ResponseOk, FinishOk
  <2>2. /\ flight' = [flight EXCEPT ![d] = <<>>] /\ flight[d] # <<>> /\ i = 1
        /\ Live(d)
    BY <2>1, FlightEnds
  <2>3. PICK p \in {"ack", "finish"} : job' = [job EXCEPT ![d] = Deleting(p)]
    BY <1>11 DEF ResponseOk, FinishOk
  <2>4. UNCHANGED <<up, status, active, cleaning, queued, accepted, forfeited>>
    BY <1>11 DEF ResponseOk, FinishOk, tables
  <2>5. ASSUME NEW c \in Dest, c # d PROVE Ledger(c)'
    BY <2>1, <2>2, <2>3, <2>4, <2>5, <1>frame DEF TypeOK
  <2>6. job'[d] = Deleting(p) /\ flight'[d] = <<>>
        /\ delivered'[d] = delivered[d] \cup flight[d][1].events
    BY <2>1, <2>2, <2>3 DEF TypeOK
  <2>7. job'[d].phase = p /\ job'[d].todo = {} /\ job'[d].batch = {}
    BY <2>6 DEF Deleting
  <2>8. Ledger(d)'
    BY <2>2, <2>4, <2>6, <2>7
       DEF Ledgers, Ledger, Tracked, Complete, Retained, Live
  <2> QED
    BY <2>5, <2>8 DEF Ledgers
<1>12. ASSUME NEW d \in Dest, DeleteActive(d) PROVE Ledgers'
  <2>1. PICK e \in active[d] : active' = [active EXCEPT ![d] = @ \ {e}]
    BY <1>12 DEF DeleteActive
  <2>2. /\ UNCHANGED <<up, status, flight, job, cleaning, queued, accepted,
                       delivered, forfeited>>
        /\ job[d].phase \in {"ack", "finish"}
    BY <1>12 DEF DeleteActive, memory, history
  <2>3. ASSUME NEW c \in Dest, c # d PROVE Ledger(c)'
    BY <2>1, <2>2, <2>3, <1>frame DEF TypeOK
  <2>4. active'[d] = active[d] \ {e} /\ flight[d] = <<>>
    BY <2>1, <2>2 DEF TypeOK, Coupled
  <2>5. Ledger(d)'
    BY <2>2, <2>4 DEF Ledgers, Ledger, Tracked, Complete, Retained
  <2> QED
    BY <2>3, <2>5 DEF Ledgers
<1>13. ASSUME NEW d \in Dest, Dequeue(d) PROVE Ledgers'
  <2> DEFINE new == FirstN(queued[d], DequeueLimit)
  <2>1. /\ UNCHANGED <<up, active, flight, cleaning, queued, accepted,
                       delivered, forfeited>>
        /\ job[d].phase = "ack" /\ active[d] = {}
        /\ \/ job' = [job EXCEPT ![d] = Marking(new, FALSE)] /\ status' = status
           \/ /\ job' = [job EXCEPT ![d] = Rest]
              /\ status' = [status EXCEPT ![d] = Absent]
    BY <1>13 DEF Dequeue, tables, history
  <2>2. flight[d] = <<>>
    BY <2>1 DEF Coupled
  <2>3. ASSUME NEW c \in Dest, c # d PROVE Ledger(c)'
    BY <2>1, <2>3, <1>frame DEF TypeOK
  <2>4. job'[d] = Marking(new, FALSE) \/ job'[d] = Rest
    BY <2>1 DEF TypeOK
  <2>5. job'[d].phase \in {"mark", "rest"} /\ job'[d].todo = job'[d].batch
    BY <2>4 DEF Marking, Rest
  <2>6. Ledger(d)'
    BY <2>1, <2>2, <2>5 DEF Ledgers, Ledger, Tracked, Complete, Retained
  <2> QED
    BY <2>3, <2>6 DEF Ledgers
<1>14. ASSUME NEW d \in Dest, FinishDeleted(d) PROVE Ledgers'
  <2>1. /\ UNCHANGED <<up, status, active, flight, cleaning, queued, accepted,
                       delivered, forfeited>>
        /\ active[d] = {} /\ job[d].phase = "finish"
        /\ job' = [job EXCEPT ![d] = Rest]
    BY <1>14 DEF FinishDeleted, tables, history
  <2>2. flight[d] = <<>>
    BY <2>1 DEF Coupled
  <2>3. ASSUME NEW c \in Dest, c # d PROVE Ledger(c)'
    BY <2>1, <2>3, <1>frame DEF TypeOK
  <2>4. job'[d].phase = "rest" /\ job'[d].todo = {} /\ job'[d].batch = {}
    BY <2>1 DEF TypeOK, Rest
  <2>5. Ledger(d)'
    BY <2>1, <2>2, <2>4 DEF Ledgers, Ledger, Tracked, Complete, Retained
  <2> QED
    BY <2>3, <2>5 DEF Ledgers
<1>15. ASSUME NEW d \in Dest, BackoffElapsed(d) PROVE Ledgers'
  <2>1. /\ \A c \in Dest : status'[c].st = status[c].st
        /\ UNCHANGED <<up, active, flight, job, cleaning, queued, accepted,
                       delivered, forfeited>>
    BY <1>15 DEF BackoffElapsed, tables, history, TypeOK, Status
  <2> QED
    BY <2>1, LedgerFrame DEF Ledgers
<1>16. ASSUME LoseMemory, UNCHANGED <<tables, history>> PROVE Ledgers'
  <2> SUFFICES ASSUME NEW d \in Dest PROVE Ledger(d)'
    BY DEF Ledgers
  <2>1. /\ ~up'[ShardId[d]] /\ flight'[d] = <<>> /\ job'[d] = Rest
        /\ ~cleaning'[d]
        /\ UNCHANGED <<queued, active, accepted, delivered, forfeited>>
    BY <1>16 DEF LoseMemory, tables, history
  <2>2. job'[d].phase = "rest" /\ job'[d].todo = {} /\ job'[d].batch = {}
    BY <2>1 DEF Rest
  <2> QED
    BY <2>1, <2>2 DEF Ledgers, Ledger, Tracked, Complete, Retained
<1>17. CASE Client
  BY <1>1, <1>2, <1>3, <1>same, <1>17
     DEF Client, FlushServer, NextCount, tables, memory, history
<1>18. CASE \E w \in Worker : StartupBurst(w) \/ HandleRequest(w)
  BY <1>4, <1>5, <1>6, <1>same, <1>18
     DEF HandleRequest, RequestRefused, tables, history
<1>19. CASE \E d \in Dest : HandlerStep(d)
  BY <1>7, <1>8, <1>9, <1>12, <1>13, <1>14, <1>19 DEF HandlerStep
<1>20. CASE FlushLog \/ Interrupt \/ Exit
  BY <1>16, <1>same, <1>20 DEF FlushLog, Interrupt, Exit, tables, memory, history
<1>21. CASE UNCHANGED vars
  BY <1>same, <1>21 DEF vars, tables, memory, history
<1> QED
  BY <1>10, <1>11, <1>15, <1>17, <1>18, <1>19, <1>20, <1>21 DEF Next

\* Only a flush and the end of a process change what is on disk, and only a crash
\* takes back an acceptance, a delivery or a removal.
LEMMA Growing ==
    ASSUME TypeOK, [Next]_vars, ~FlushLog, ~Exit, ~Crash
    PROVE  /\ UNCHANGED disk
           /\ \A d \in Dest : /\ accepted[d] \subseteq accepted'[d]
                             /\ delivered[d] \subseteq delivered'[d]
                             /\ forfeited[d] \subseteq forfeited'[d]
<1> DEFINE Grown == /\ UNCHANGED disk
                    /\ \A d \in Dest : /\ accepted[d] \subseteq accepted'[d]
                                      /\ delivered[d] \subseteq delivered'[d]
                                      /\ forfeited[d] \subseteq forfeited'[d]
<1>same. ASSUME UNCHANGED <<disk, accepted, delivered, forfeited>> PROVE Grown
  BY <1>same
<1>1. CASE Client
  <2>1. ASSUME NEW d \in Dest, NEW e \in Event, SendEvent(d, e) PROVE Grown
    BY <2>1 DEF SendEvent, TypeOK
  <2>2. ASSUME NEW d \in Dest, CleanupActive(d) PROVE Grown
    BY <2>2 DEF CleanupActive, TypeOK
  <2>3. ASSUME NEW d \in Dest, CleanupQueued(d) PROVE Grown
    BY <2>3 DEF CleanupQueued, TypeOK
  <2>4. CASE NextCount \/ \E d \in Dest : FlushServer(d)
    BY <1>same, <2>4 DEF NextCount, FlushServer, history
  <2> QED
    BY <1>1, <2>1, <2>2, <2>3, <2>4 DEF Client
<1>2. ASSUME NEW w \in Worker, StartupBurst(w) PROVE Grown
  BY <1>2 DEF StartupBurst, TypeOK
<1>3. CASE \E w \in Worker : HandleRequest(w)
  BY <1>same, <1>3
     DEF HandleRequest, RequestRefused, RequestRetry, RequestFresh, history
<1>4. CASE \E d \in Dest : HandlerStep(d)
  BY <1>same, <1>4
     DEF HandlerStep, MarkInsert, MarkRemove, Compose, DeleteActive, Dequeue,
         FinishDeleted, history
<1>5. ASSUME NEW d \in Dest, ResponseOk(d) \/ FinishOk(d) PROVE Grown
  <2>1. UNCHANGED <<disk, accepted, forfeited>>
    BY <1>5 DEF ResponseOk, FinishOk
  <2>2. \E S : delivered' = [delivered EXCEPT ![d] = @ \cup S]
    BY <1>5 DEF ResponseOk, FinishOk
  <2>3. delivered \in [Dest -> SUBSET Event]
    BY DEF TypeOK
  <2>4. \A c \in Dest : delivered[c] \subseteq delivered'[c]
    BY <2>2, <2>3
  <2> QED
    BY <2>1, <2>4
<1>6. CASE \E d \in Dest : ResponseErr(d) \/ BackoffElapsed(d) \/ FinishErr(d)
  BY <1>same, <1>6 DEF ResponseErr, BackoffElapsed, FinishErr, history
<1>7. CASE Interrupt
  BY <1>same, <1>7 DEF Interrupt, history
<1>8. CASE UNCHANGED vars
  BY <1>same, <1>8 DEF vars, history
<1>9. Grown
  BY <1>1, <1>2, <1>3, <1>4, <1>5, <1>6, <1>7, <1>8 DEF Next
<1> QED
  BY <1>9

\* What is flushed is retained at that moment, and stays so.
LEMMA StoredNext ==
    ASSUME TypeOK, Ledgers, Stored, [Next]_vars
    PROVE  Stored'
<1>1. CASE FlushLog \/ Exit
  <2>1. /\ disk' = Saved
        /\ UNCHANGED <<delivered, forfeited>>
    BY <1>1 DEF FlushLog, Exit, history
  <2>2. /\ disk'.accepted = accepted /\ disk'.queued = queued
        /\ disk'.active = active
    BY <2>1 DEF Saved
  <2> QED
    BY <2>1, <2>2 DEF Stored, Ledgers, Ledger, Retained
<1>2. CASE Crash
  <2>1. /\ UNCHANGED disk
        /\ \A d \in Dest : /\ delivered'[d] = delivered[d] \cap disk.accepted[d]
                          /\ forfeited'[d] = forfeited[d] \cap disk.accepted[d]
    BY <1>2 DEF Crash
  <2> QED
    BY <2>1 DEF Stored
<1>3. CASE ~FlushLog /\ ~Exit /\ ~Crash
  BY <1>3, Growing DEF Stored
<1> QED
  BY <1>1, <1>2, <1>3

\* A crash goes back to tables that retained everything.
LEMMA LedgersCrash ==
    ASSUME TypeOK, Stored, Crash
    PROVE  Ledgers'
<1> USE SendingAssumption
<1> SUFFICES ASSUME NEW d \in Dest PROVE Ledger(d)'
  BY DEF Ledgers
<1>1. /\ ~up'[ShardId[d]] /\ flight'[d] = <<>> /\ job'[d] = Rest
      /\ ~cleaning'[d]
      /\ queued'[d] = disk.queued[d] /\ active'[d] = disk.active[d]
      /\ accepted'[d] = disk.accepted[d]
      /\ delivered'[d] = delivered[d] \cap disk.accepted[d]
      /\ forfeited'[d] = forfeited[d] \cap disk.accepted[d]
  BY DEF Crash, LoseMemory
<1>2. job'[d].phase = "rest" /\ job'[d].todo = {} /\ job'[d].batch = {}
  BY <1>1 DEF Rest
<1>3. Retained(d)'
  BY <1>1 DEF Retained, Stored
<1> QED
  BY <1>1, <1>2, <1>3 DEF Ledger, Tracked, Complete

LEMMA LedgersNext ==
    ASSUME StartupNetburst, TypeOK, Routed, Coupled, Ledgers, Stored, [Next]_vars
    PROVE  Ledgers' /\ Stored'
BY LedgersStep, LedgersCrash, StoredNext

LEMMA StoredInit == Init => Stored
BY DEF Init, Stored, Saved

\* With the startup burst enabled, no event is lost: across failures, retries and
\* shutdowns an accepted event is queued or active until it was delivered or given
\* up, and a crash between any two writes, flushed or not, loses only events that
\* were accepted after the last flush.
THEOREM NoLoss ==
    ASSUME StartupNetburst
    PROVE  Spec => []NoEventLost
<1>1. Ledgers => NoEventLost
  BY DEF Ledgers, Ledger, NoEventLost
<1>2. TypeOK /\ Routed /\ Coupled /\ Ledgers /\ Stored /\ [Next]_vars
        => Routed' /\ Coupled' /\ Ledgers' /\ Stored'
  BY RoutedNext, CoupledNext, LedgersNext
<1> QED
  BY <1>1, <1>2, CoupledInit, LedgersInit, StoredInit, TypeCorrect, PTL DEF Spec

\* With the startup burst enabled, what is in flight to a destination that is
\* not removed is what the active table holds for it, so a retry repeats the
\* failed transaction.
THEOREM InFlightIsActive ==
    ASSUME StartupNetburst
    PROVE  Spec => []TransactionIsActive
<1>1. TypeOK /\ Coupled /\ Ledgers => TransactionIsActive
  <2> SUFFICES ASSUME TypeOK, Coupled, Ledgers, NEW d \in Dest \ Cleanable,
                      NEW i \in 1..Len(flight[d])
               PROVE  flight[d][i].events = active[d]
    BY DEF TransactionIsActive
  <2>1. flight[d] \in Seq(Txn) /\ Len(flight[d]) \in Nat
    BY DEF TypeOK
  <2>2. Len(flight[d]) <= 1
    BY DEF Coupled
  <2> DEFINE n == Len(flight[d])
  <2>3. n \in Nat /\ n <= 1 /\ i \in 1..n
    BY <2>1, <2>2
  <2> HIDE DEF n
  <2>4. i = 1 /\ n = 1
    BY <2>3
  <2>5. flight[d] # <<>>
    BY <2>1, <2>4 DEF n
  <2> QED
    BY <2>4, <2>5 DEF Ledgers, Ledger, Tracked, Complete
<1>2. TypeOK /\ Routed /\ Coupled /\ Ledgers /\ Stored /\ [Next]_vars
        => Routed' /\ Coupled' /\ Ledgers' /\ Stored'
  BY RoutedNext, CoupledNext, LedgersNext
<1> QED
  BY <1>1, <1>2, CoupledInit, LedgersInit, StoredInit, TypeCorrect, PTL DEF Spec

-----------------------------------------------------------------------------
(* The order of delivery *)

\* Of the first n events of a set of numbers, none has one before it that is
\* not among them.
LEMMA FirstNLower ==
    ASSUME NEW S \in SUBSET Nat, NEW n \in Nat, NEW e \in FirstN(S, n),
           NEW f \in S, f < e
    PROVE  f \in FirstN(S, n)
<1> DEFINE below(x) == {g \in S : g < x}
<1>0. e \in S /\ e \in Nat /\ f \in Nat
  BY FirstNSubset
<1>1. Cardinality(below(e)) < n
  BY DEF FirstN
<1>2. below(e) \in SUBSET Nat /\ \A s \in below(e) : s <= e
  <2>1. \A s \in S : s \in Nat
    OBVIOUS
  <2>2. \A s \in S : s < e => s <= e
    BY <1>0, <2>1
  <2> QED
    BY <2>1, <2>2
<1>3. IsFiniteSet(below(e))
  BY <1>0, <1>2, FS_BoundedSetOfNaturals
<1>4. below(f) \in SUBSET below(e)
  <2>1. \A s \in S : s \in Nat
    OBVIOUS
  <2>2. \A s \in S : s < f => s < e
    BY <1>0, <2>1
  <2> QED
    BY <2>2
<1>5. Cardinality(below(f)) <= Cardinality(below(e)) /\ IsFiniteSet(below(f))
  BY <1>3, <1>4, FS_Subset
<1>6. Cardinality(below(f)) \in Nat /\ Cardinality(below(e)) \in Nat
  BY <1>3, <1>5, FS_CardinalityType
<1>7. Cardinality(below(f)) < n
  BY <1>1, <1>5, <1>6
<1> QED
  BY <1>7 DEF FirstN

\* A set of numbers that is not empty has a first event.
LEMMA FirstNNonempty ==
    ASSUME NEW S \in SUBSET Nat, NEW n \in Nat \ {0}, FirstN(S, n) = {}
    PROVE  S = {}
<1> SUFFICES ASSUME NEW x \in S PROVE FALSE
  OBVIOUS
<1> DEFINE T == {y \in S : y <= x}
<1>0. \A y \in S : y \in Nat
  OBVIOUS
<1>1. x \in Nat /\ T \in SUBSET (0..x) /\ T # {}
  <2>1. x \in Nat /\ x <= x
    BY <1>0
  <2>2. \A y \in S : y <= x => y \in 0..x
    BY <1>0
  <2> QED
    BY <2>1, <2>2
<1>2. PICK k \in T : \A j \in T : k <= j
  BY <1>1, SmallestExists
<1>3. {f \in S : f < k} = {}
  <2> SUFFICES ASSUME NEW f \in S, f < k PROVE FALSE
    OBVIOUS
  <2>1. f <= x /\ f \in T
    BY <1>0, <1>1
  <2> QED
    BY <1>0, <1>2, <2>1
<1>4. Cardinality({f \in S : f < k}) = 0
  BY <1>3, FS_EmptySet
<1>5. k \in FirstN(S, n)
  BY <1>4 DEF FirstN
<1> QED
  BY <1>5

\* A channel that is extended, and one whose head is taken off.
LEMMA Appended ==
    ASSUME NEW S, NEW c \in Seq(S), NEW m \in S
    PROVE  LET b == Append(c, m)
           IN  /\ Len(c) \in Nat /\ Len(b) = Len(c) + 1
               /\ \A i \in 1..Len(c) : b[i] = c[i]
               /\ b[Len(c) + 1] = m
OBVIOUS

LEMMA Taken ==
    ASSUME NEW S, NEW c \in Seq(S), c # <<>>
    PROVE  /\ Len(c) \in Nat \ {0} /\ Len(Tail(c)) = Len(c) - 1
           /\ \A i \in 1..Len(Tail(c)) : Tail(c)[i] = c[i + 1]
           /\ Head(c) = c[1]
OBVIOUS

\* The destinations that are served in order.
Served == Dest \ (Federation \cup Cleanable)

\* An announcement that is not older than the others of its room may be added.
LEMMA ChannelExtended ==
    ASSUME TypeOK, NEW d \in Dest, ChannelInOrder(d), NEW m \in Msg,
           NEW w \in Worker, chan' = [chan EXCEPT ![w] = Append(@, m)],
           accepted[d] \subseteq accepted'[d],
           m.dest = d =>
              /\ m.event \in accepted'[d]
              /\ \A f \in accepted[d] : Room[f] = Room[m.event] => f < m.event
    PROVE  /\ ChannelInOrder(d)'
           /\ queued'[d] = queued[d] /\ Announced(d) => Announced(d)'
<1> USE SendingAssumption
<1>1. CASE ShardId[d] # w
  BY <1>1 DEF ChannelInOrder, Announced, TypeOK
<1>2. CASE ShardId[d] = w
  <2> DEFINE c == chan[w]
             b == chan'[w]
  <2>1. c \in Seq(Msg) /\ b = Append(c, m)
    BY DEF TypeOK
  <2> HIDE DEF c, b
  <2>2. /\ Len(c) \in Nat /\ Len(b) = Len(c) + 1
        /\ \A i \in 1..Len(c) : b[i] = c[i]
        /\ b[Len(c) + 1] = m
    BY <2>1, Appended
  <2>3. \A i \in 1..Len(c) : c[i].dest = d =>
            /\ c[i].event \in accepted[d]
            /\ \A j \in 1..Len(c) :
                  /\ i < j /\ c[j].dest = d
                  /\ Room[c[i].event] = Room[c[j].event]
                  => c[i].event < c[j].event
    BY <1>2 DEF ChannelInOrder, c
  <2>4. ASSUME NEW i \in 1..Len(b), b[i].dest = d
        PROVE  /\ b[i].event \in accepted'[d]
               /\ \A j \in 1..Len(b) :
                     /\ i < j /\ b[j].dest = d
                     /\ Room[b[i].event] = Room[b[j].event]
                     => b[i].event < b[j].event
    <3>1. CASE i = Len(c) + 1
      BY <2>2, <2>4, <3>1
    <3>2. CASE i \in 1..Len(c)
      <4>1. b[i] = c[i] /\ c[i].event \in accepted[d]
        BY <2>2, <2>3, <2>4, <3>2
      <4>2. ASSUME NEW j \in 1..Len(b), i < j, b[j].dest = d,
                   Room[b[i].event] = Room[b[j].event]
            PROVE  b[i].event < b[j].event
        <5>1. CASE j = Len(c) + 1
          BY <2>2, <4>1, <4>2, <5>1
        <5>2. CASE j \in 1..Len(c)
          BY <2>2, <2>3, <2>4, <3>2, <4>1, <4>2, <5>2
        <5> QED
          BY <2>2, <5>1, <5>2
      <4> QED
        BY <4>1, <4>2
    <3> QED
      BY <2>2, <3>1, <3>2
  <2>5. ASSUME queued'[d] = queued[d], Announced(d), NEW f \in queued'[d]
        PROVE  \E i \in 1..Len(b) : b[i] = [dest |-> d, event |-> f]
    <3>1. PICK i \in 1..Len(c) : c[i] = [dest |-> d, event |-> f]
      BY <1>2, <2>5 DEF Announced, c
    <3> QED
      BY <2>2, <3>1
  <2> QED
    BY <1>2, <2>4, <2>5 DEF ChannelInOrder, Announced, b
<1> QED
  BY <1>1, <1>2

\* An announcement may be taken off; those for other destinations stay.
LEMMA ChannelTaken ==
    ASSUME TypeOK, NEW d \in Dest, ChannelInOrder(d),
           NEW w \in Worker, TakeMsg(w), accepted'[d] = accepted[d]
    PROVE  /\ ChannelInOrder(d)'
           /\ queued'[d] = queued[d] /\ Announced(d) /\ Head(chan[w]).dest # d
                => Announced(d)'
<1> USE SendingAssumption
<1>0. chan' = [chan EXCEPT ![w] = Tail(@)] /\ chan[w] # <<>>
  BY DEF TakeMsg
<1>1. CASE ShardId[d] # w
  BY <1>0, <1>1 DEF ChannelInOrder, Announced, TypeOK
<1>2. CASE ShardId[d] = w
  <2> DEFINE c == chan[w]
             b == chan'[w]
  <2>1. c \in Seq(Msg) /\ b = Tail(c) /\ c # <<>>
    BY <1>0 DEF TypeOK
  <2> HIDE DEF c, b
  <2>2. /\ Len(c) \in Nat \ {0} /\ Len(b) = Len(c) - 1
        /\ \A i \in 1..Len(b) : b[i] = c[i + 1]
        /\ Head(c) = c[1]
    BY <2>1, Taken
  <2>3. \A i \in 1..Len(c) : c[i].dest = d =>
            /\ c[i].event \in accepted[d]
            /\ \A j \in 1..Len(c) :
                  /\ i < j /\ c[j].dest = d
                  /\ Room[c[i].event] = Room[c[j].event]
                  => c[i].event < c[j].event
    BY <1>2 DEF ChannelInOrder, c
  <2>4. ASSUME NEW i \in 1..Len(b), b[i].dest = d
        PROVE  /\ b[i].event \in accepted'[d]
               /\ \A j \in 1..Len(b) :
                     /\ i < j /\ b[j].dest = d
                     /\ Room[b[i].event] = Room[b[j].event]
                     => b[i].event < b[j].event
    <3>1. i + 1 \in 1..Len(c) /\ b[i] = c[i + 1]
      BY <2>2
    <3>2. ASSUME NEW j \in 1..Len(b), i < j, b[j].dest = d,
                 Room[b[i].event] = Room[b[j].event]
          PROVE  b[i].event < b[j].event
      <4>1. j + 1 \in 1..Len(c) /\ b[j] = c[j + 1] /\ i + 1 < j + 1
        BY <2>2, <3>2
      <4> QED
        BY <2>3, <2>4, <3>1, <3>2, <4>1
    <3> QED
      BY <2>3, <2>4, <3>1, <3>2
  <2>5. ASSUME queued'[d] = queued[d], Announced(d), Head(c).dest # d,
               NEW f \in queued'[d]
        PROVE  \E i \in 1..Len(b) : b[i] = [dest |-> d, event |-> f]
    <3>1. PICK i \in 1..Len(c) : c[i] = [dest |-> d, event |-> f]
      BY <1>2, <2>5 DEF Announced, c
    <3>2. i # 1
      BY <2>2, <2>5, <3>1
    <3>3. i - 1 \in 1..Len(b) /\ b[i - 1] = c[i]
      BY <2>2, <3>2
    <3> QED
      BY <3>1, <3>3
  <2> QED
    BY <1>2, <2>4, <2>5 DEF ChannelInOrder, Announced, b, c
<1> QED
  BY <1>1, <1>2

\* A step that leaves alone what belongs to a destination, but for its channel,
\* keeps it in order.
LEMMA SequencedKept ==
    ASSUME NEW d \in Dest, Sequenced(d),
           ChannelInOrder(d)', status[d].st = "absent" => Announced(d)',
           status'[d].st = status[d].st,
           active'[d] = active[d],
           job'[d] = job[d],
           accepted'[d] = accepted[d],
           queued'[d] = queued[d],
           delivered'[d] = delivered[d],
           forfeited'[d] = forfeited[d]
    PROVE  Sequenced(d)'
BY DEF Sequenced, Ahead

LEMMA SequencedFrame ==
    ASSUME NEW d \in Dest, Sequenced(d),
           chan'[ShardId[d]] = chan[ShardId[d]],
           status'[d].st = status[d].st,
           active'[d] = active[d],
           job'[d] = job[d],
           accepted'[d] = accepted[d],
           queued'[d] = queued[d],
           delivered'[d] = delivered[d],
           forfeited'[d] = forfeited[d]
    PROVE  Sequenced(d)'
<1>1. ChannelInOrder(d)' /\ (Announced(d) => Announced(d)')
  BY DEF Sequenced, ChannelInOrder, Announced
<1> QED
  BY <1>1, SequencedKept DEF Sequenced

\* A new event is the last of its room.
LEMMA SequencedSend ==
    ASSUME TypeOK, NEW d \in Dest, Sequenced(d), ~closed,
           NEW c \in Dest, NEW e \in Event, SendEvent(c, e)
    PROVE  Sequenced(d)'
<1> USE SendingAssumption
<1> DEFINE m == [dest |-> c, event |-> e]
<1>1. /\ m \in Msg /\ m.dest = c /\ m.event = e
      /\ chan' = [chan EXCEPT ![ShardId[c]] = Append(@, m)]
      /\ ShardId[c] \in Worker
      /\ accepted' = [accepted EXCEPT ![c] = @ \cup {e}]
      /\ queued' = [queued EXCEPT ![c] = @ \cup {e}]
      /\ \A f \in accepted[c] : Room[f] = Room[e] => f < e
      /\ UNCHANGED <<status, active, job, delivered, forfeited>>
  BY DEF SendEvent, Msg
<1>2. ChannelInOrder(d)'
      /\ (queued'[d] = queued[d] /\ Announced(d) => Announced(d)')
  <2>1. /\ accepted[d] \subseteq accepted'[d]
        /\ c = d => e \in accepted'[d]
    BY <1>1 DEF TypeOK
  <2> HIDE DEF m
  <2> QED
    BY <1>1, <2>1, ChannelExtended DEF Sequenced
<1>3. CASE c # d
  <2>1. accepted'[d] = accepted[d] /\ queued'[d] = queued[d]
    BY <1>1, <1>3 DEF TypeOK
  <2> QED
    BY <1>1, <1>2, <2>1, SequencedKept DEF Sequenced
<1>4. CASE c = d
  <2>1. accepted'[d] = accepted[d] \cup {e} /\ queued'[d] = queued[d] \cup {e}
    BY <1>1, <1>4 DEF TypeOK
  <2>2. ASSUME NEW S, S \subseteq accepted[d], Ahead(d, S) PROVE Ahead(d, S)'
    <3> SUFFICES ASSUME NEW x \in S, NEW f \in accepted'[d],
                        Room[f] = Room[x], f < x
                 PROVE  f \in S \cup delivered'[d]
      BY DEF Ahead
    <3>1. CASE f \in accepted[d]
      BY <1>1, <2>2, <3>1 DEF Ahead
    <3>2. CASE f = e
      <4>1. x < e /\ x \in Nat /\ e \in Nat
        BY <1>1, <1>4, <2>2, <3>2 DEF TypeOK
      <4> QED
        BY <3>2, <4>1
    <3> QED
      BY <2>1, <3>1, <3>2
  <2>3. ASSUME status'[d].st = "absent" PROVE Announced(d)'
    <3> DEFINE w == ShardId[d]
    <3>1. w \in Worker /\ chan[w] \in Seq(Msg) /\ chan'[w] = Append(chan[w], m)
      BY <1>1, <1>4 DEF TypeOK
    <3> HIDE DEF m
    <3>2. /\ Len(chan[w]) \in Nat /\ Len(chan'[w]) = Len(chan[w]) + 1
          /\ \A i \in 1..Len(chan[w]) : chan'[w][i] = chan[w][i]
          /\ chan'[w][Len(chan[w]) + 1] = m
      BY <1>1, <3>1, Appended
    <3>3. ASSUME NEW f \in queued'[d]
          PROVE  \E i \in 1..Len(chan'[w]) : chan'[w][i] = [dest |-> d, event |-> f]
      <4>1. CASE f = e
        <5>1. Len(chan[w]) + 1 \in 1..Len(chan'[w])
          BY <3>2
        <5> QED
          BY <1>4, <3>2, <4>1, <5>1 DEF m
      <4>2. CASE f \in queued[d]
        <5>1. PICK i \in 1..Len(chan[w]) : chan[w][i] = [dest |-> d, event |-> f]
          BY <1>1, <2>3, <4>2 DEF Sequenced, Announced
        <5>2. i \in 1..Len(chan'[w])
          BY <3>2
        <5> QED
          BY <3>2, <5>1, <5>2
      <4> QED
        BY <2>1, <4>1, <4>2
    <3> QED
      BY <3>3 DEF Announced
  <2>4. Ahead(d, delivered[d])'
    BY <1>1, <2>2 DEF Sequenced
  <2>5. status'[d].st # "absent" /\ job'[d].phase = "rest" =>
            active'[d] # {} /\ Ahead(d, active[d])'
    BY <1>1, <2>2 DEF Sequenced
  <2>6. job'[d].phase \in {"mark", "unqueue"} =>
            job'[d].batch # {} /\ Ahead(d, job[d].batch)'
    BY <1>1, <2>2 DEF Sequenced
  <2> QED
    BY <1>1, <1>2, <2>1, <2>3, <2>4, <2>5, <2>6 DEF Sequenced
<1> QED
  BY <1>3, <1>4

\* A request is taken off the channel: for a destination without a status it is
\* the oldest of its room that is not delivered, and a retry repeats what is
\* active.
LEMMA SequencedRequest ==
    ASSUME TypeOK, Routed, Coupled, Ledgers, NEW d \in Served, Sequenced(d),
           NEW w \in Worker, HandleRequest(w)
    PROVE  Sequenced(d)'
<1> USE SendingAssumption
<1>0. /\ d \in Dest /\ TakeMsg(w)
      /\ UNCHANGED <<active, queued, accepted, delivered, forfeited>>
  BY DEF HandleRequest, RequestRefused, RequestRetry, RequestFresh, Served,
         tables, history
<1>1. PICK m \in Msg : m = Head(chan[w])
  BY <1>0, TakenDest
<1>2. /\ ShardId[m.dest] = w /\ m.dest \in Dest /\ job[m.dest].phase = "rest"
      /\ up[w]
  BY <1>0, <1>1, TakenDest
<1>3. ChannelInOrder(d)' /\ (Announced(d) /\ m.dest # d => Announced(d)')
  BY <1>0, <1>1, ChannelTaken DEF Sequenced
<1>4. CASE m.dest # d
  <2>1. status'[d] = status[d] /\ job'[d] = job[d]
    BY <1>0, <1>1, <1>2, <1>4
       DEF HandleRequest, RequestRefused, RequestRetry, RequestFresh, TypeOK
  <2> QED
    BY <1>0, <1>3, <1>4, <2>1, SequencedKept DEF Sequenced
<1>5. CASE m.dest = d /\ status[d].st # "absent"
  <2>1. job'[d] = job[d] /\ job[d].phase = "rest"
    BY <1>1, <1>2, <1>5 DEF HandleRequest, RequestRefused, RequestRetry, RequestFresh
  <2>2. active[d] # {} /\ Ahead(d, active[d])
    BY <1>5, <2>1 DEF Sequenced
  <2>3. status'[d].st # "absent"
    <3>1. CASE RequestRefused(w)
      BY <1>5, <3>1 DEF RequestRefused
    <3>2. CASE RequestRetry(w)
      BY <1>0, <1>1, <1>5, <2>2, <3>2 DEF RequestRetry, TypeOK, Retrying
    <3>3. CASE RequestFresh(w)
      BY <1>1, <1>5, <3>3 DEF RequestFresh
    <3> QED
      BY <3>1, <3>2, <3>3 DEF HandleRequest
  <2> QED
    BY <1>0, <1>3, <2>1, <2>2, <2>3 DEF Sequenced, Ahead
<1>6. CASE m.dest = d /\ status[d].st = "absent"
  <2>0. RequestFresh(w)
    BY <1>1, <1>6 DEF HandleRequest, RequestRefused, RequestRetry, Refused
  <2>1. /\ status'[d] = Running
        /\ job'[d] = Marking({m.event} \ {Flush}, TRUE)
    BY <1>0, <1>1, <1>6, <2>0 DEF RequestFresh, TypeOK
  <2>2. chan[w] \in Seq(Msg) /\ chan[w] # <<>> /\ w = ShardId[d]
    BY <1>0, <1>2, <1>6 DEF TypeOK, TakeMsg
  <2>3. Len(chan[w]) \in Nat \ {0} /\ m = chan[w][1] /\ 1 \in 1..Len(chan[w])
    BY <1>1, <2>2, Taken
  <2>4. /\ m.event \in accepted[d]
        /\ \A j \in 1..Len(chan[w]) :
              /\ 1 < j /\ chan[w][j].dest = d
              /\ Room[m.event] = Room[chan[w][j].event]
              => m.event < chan[w][j].event
    BY <1>6, <2>2, <2>3 DEF Sequenced, ChannelInOrder
  <2>5. m.event \in Event /\ m.event # Flush
    BY <1>0, <2>4 DEF TypeOK, Flush
  <2>6. ASSUME NEW f \in accepted[d], Room[f] = Room[m.event], f < m.event
        PROVE  f \in delivered[d]
    <3>1. active[d] = {} /\ forfeited[d] = {} /\ Retained(d)
      BY <1>0, <1>2, <1>6 DEF Ledgers, Ledger, Tracked, Sequenced
    <3>2. CASE f \in queued[d]
      <4>1. PICK i \in 1..Len(chan[w]) : chan[w][i] = [dest |-> d, event |-> f]
        BY <1>6, <2>2, <3>2 DEF Sequenced, Announced
      <4>2. f \in Nat /\ m.event \in Nat
        BY <1>0, <2>5, <2>6 DEF TypeOK
      <4>3. i # 1
        BY <2>3, <2>6, <4>1, <4>2
      <4>4. 1 < i
        BY <2>3, <4>3
      <4>5. m.event < f
        BY <2>4, <2>6, <4>1, <4>4
      <4> QED
        BY <2>6, <4>2, <4>5
    <3> QED
      BY <2>6, <3>1, <3>2 DEF Retained
  <2>7. /\ job'[d].phase = "mark" /\ job'[d].batch = {m.event}
        /\ status'[d].st = "running"
    BY <2>1, <2>5 DEF Marking, Running
  <2>8. Ahead(d, job[d].batch)'
    BY <1>0, <2>6, <2>7 DEF Ahead
  <2> QED
    BY <1>0, <1>3, <2>4, <2>7, <2>8 DEF Sequenced, Ahead
<1> QED
  BY <1>4, <1>5, <1>6

\* The handler marks and sends what was picked; when all of it is deleted, it
\* picks the first events of the queue.
LEMMA SequencedHandler ==
    ASSUME TypeOK, Coupled, Ledgers, NEW d \in Served, Sequenced(d),
           HandlerStep(d)
    PROVE  Sequenced(d)'
<1> USE SendingAssumption
<1>0. /\ d \in Dest /\ d \notin Cleanable
      /\ UNCHANGED <<chan, accepted, delivered, forfeited>>
  BY DEF HandlerStep, MarkInsert, MarkRemove, Compose, DeleteActive, Dequeue,
         FinishDeleted, Served, memory, tables, history
<1>1. job[d] \in Job /\ Tracked(d) /\ Complete(d) /\ Retained(d)
  BY <1>0 DEF TypeOK, Ledgers, Ledger
<1>2. ChannelInOrder(d)'
  BY <1>0 DEF Sequenced, ChannelInOrder
<1>3. CASE MarkInsert(d)
  <2>1. PICK e \in job[d].todo :
          /\ active' = [active EXCEPT ![d] = @ \cup {e}]
          /\ job' = [job EXCEPT ![d].phase = "unqueue", ![d].cur = e]
    BY <1>3 DEF MarkInsert
  <2>2. job[d].phase = "mark" /\ UNCHANGED <<status, queued>>
    BY <1>3 DEF MarkInsert
  <2>3. /\ job'[d].phase = "unqueue" /\ job'[d].batch = job[d].batch
        /\ active'[d] = active[d] \cup {e} /\ e \in job[d].batch
    BY <1>0, <1>1, <2>1 DEF TypeOK, Job, Tracked
  <2>4. status[d].st # "absent"
    BY <1>0, <2>2 DEF Coupled, Live
  <2> QED
    BY <1>0, <1>2, <2>2, <2>3, <2>4 DEF Sequenced, Ahead
<1>4. CASE MarkRemove(d)
  <2>1. /\ job[d].phase = "unqueue" /\ UNCHANGED <<status, active>>
        /\ queued' = [queued EXCEPT ![d] = @ \ {job[d].cur}]
    BY <1>4 DEF MarkRemove
  <2>2. /\ job'[d].phase = "mark" /\ job'[d].batch = job[d].batch
        /\ queued'[d] \subseteq queued[d]
    BY <1>0, <1>1, <1>4 DEF MarkRemove, TypeOK, Job
  <2>3. status[d].st # "absent"
    BY <1>0, <2>1 DEF Coupled, Live
  <2> QED
    BY <1>0, <1>2, <2>1, <2>2, <2>3 DEF Sequenced, Ahead
<1>5. CASE Compose(d)
  <2>1. /\ job[d].phase = "mark" /\ job[d].todo = {}
        /\ job' = [job EXCEPT ![d] = Rest]
        /\ UNCHANGED <<status, active, queued>>
    BY <1>5 DEF Compose
  <2>2. job'[d].phase = "rest" /\ job'[d].batch = {}
    BY <1>0, <2>1 DEF TypeOK, Rest
  <2>3. active[d] = job[d].batch
    BY <1>1, <2>1 DEF Tracked, Complete
  <2>4. status[d].st # "absent"
    BY <1>0, <2>1 DEF Coupled, Live
  <2> QED
    BY <1>0, <1>2, <2>1, <2>2, <2>3, <2>4 DEF Sequenced, Ahead
<1>6. CASE DeleteActive(d)
  <2>1. /\ job[d].phase \in {"ack", "finish"}
        /\ UNCHANGED <<status, job, queued>>
        /\ \E e \in active[d] : active' = [active EXCEPT ![d] = @ \ {e}]
    BY <1>6 DEF DeleteActive, memory
  <2>2. active'[d] \subseteq active[d]
    BY <1>0, <2>1 DEF TypeOK
  <2> QED
    BY <1>0, <1>2, <2>1, <2>2 DEF Sequenced, Ahead, Announced
<1>7. CASE Dequeue(d)
  <2> DEFINE new == FirstN(queued[d], DequeueLimit)
  <2>1. /\ job[d].phase = "ack" /\ active[d] = {}
        /\ UNCHANGED <<active, queued>>
    BY <1>7 DEF Dequeue, tables
  <2>2. queued[d] \in SUBSET Nat
    BY <1>0 DEF TypeOK
  <2>3. CASE new # {}
    <3>1. job'[d] = Marking(new, FALSE) /\ UNCHANGED status
      BY <1>0, <1>7, <2>3 DEF Dequeue, TypeOK
    <3>2. job'[d].phase = "mark" /\ job'[d].batch = new
      BY <3>1 DEF Marking
    <3>3. ASSUME NEW e \in new, NEW f \in accepted[d],
                 Room[f] = Room[e], f < e
          PROVE  f \in new \cup delivered[d]
      <4>1. f \in queued[d] \cup delivered[d]
        BY <1>1, <2>1 DEF Retained, Sequenced
      <4>2. CASE f \in queued[d]
        BY <2>2, <3>3, <4>2, FirstNLower
      <4> QED
        BY <4>1, <4>2
    <3>4. new \subseteq queued[d]
      BY FirstNSubset
    <3>5. status[d].st # "absent"
      BY <1>0, <2>1 DEF Coupled, Live
    <3> HIDE DEF new
    <3>6. Ahead(d, job[d].batch)'
      BY <1>0, <3>2, <3>3 DEF Ahead
    <3> QED
      BY <1>0, <1>2, <2>1, <2>3, <3>1, <3>2, <3>4, <3>5, <3>6 DEF Sequenced, Ahead
  <2>4. CASE new = {}
    <3>1. job'[d] = Rest /\ status'[d] = Absent
      BY <1>0, <1>7, <2>4 DEF Dequeue, TypeOK
    <3>2. /\ job'[d].phase = "rest" /\ job'[d].batch = {}
          /\ status'[d].st = "absent"
      BY <3>1 DEF Rest, Absent
    <3>3. queued[d] = {}
      BY <2>2, <2>4, FirstNNonempty
    <3> QED
      BY <1>0, <1>2, <2>1, <3>2, <3>3 DEF Sequenced, Ahead, Announced
  <2> QED
    BY <2>3, <2>4
<1>8. CASE FinishDeleted(d)
  BY <1>8 DEF FinishDeleted, Sequenced
<1> QED
  BY <1>3, <1>4, <1>5, <1>6, <1>7, <1>8 DEF HandlerStep

\* The end of a transaction: what is active was sent, and is sent again or was
\* delivered.
LEMMA SequencedResponse ==
    ASSUME TypeOK, Coupled, Ledgers, NEW d \in Served, Sequenced(d),
           ResponseOk(d) \/ ResponseErr(d)
    PROVE  Sequenced(d)'
<1>0. /\ d \in Dest /\ d \notin Cleanable
      /\ UNCHANGED <<chan, queued, active, accepted, forfeited>>
  BY DEF ResponseOk, ResponseErr, Served, tables, history
<1>1. Tracked(d) /\ Complete(d)
  BY <1>0 DEF Ledgers, Ledger
<1>2. ChannelInOrder(d)'
  BY <1>0 DEF Sequenced, ChannelInOrder
<1>3. CASE ResponseOk(d)
  <2>1. PICK i \in 1..Len(flight[d]) :
          /\ flight' = [flight EXCEPT ![d] = Without(@, i)]
          /\ delivered' = [delivered EXCEPT ![d] = @ \cup flight[d][i].events]
    BY <1>3 DEF ResponseOk
  <2>2. flight[d] # <<>> /\ i = 1 /\ Live(d)
    BY <1>0, <2>1, FlightEnds
  <2>3. job[d].phase = "rest"
    BY <1>0, <2>2 DEF Coupled
  <2>4. flight[d][1].events = active[d]
    BY <1>1, <2>2 DEF Tracked, Complete
  <2>5. delivered'[d] = delivered[d] \cup active[d]
    BY <1>0, <2>1, <2>2, <2>4 DEF TypeOK
  <2>6. job'[d].phase = "ack" /\ job'[d].batch = {} /\ UNCHANGED status
    BY <1>0, <1>3 DEF ResponseOk, TypeOK, Deleting
  <2>7. Ahead(d, active[d]) /\ Ahead(d, delivered[d]) /\ status[d].st # "absent"
    BY <2>2, <2>3 DEF Sequenced, Live
  <2>8. Ahead(d, delivered[d])'
    BY <1>0, <2>5, <2>7 DEF Ahead
  <2> QED
    BY <1>0, <1>2, <2>5, <2>6, <2>7, <2>8 DEF Sequenced
<1>4. CASE ResponseErr(d)
  <2>1. PICK i \in 1..Len(flight[d]) :
          flight' = [flight EXCEPT ![d] = Without(@, i)]
    BY <1>4 DEF ResponseErr
  <2>2. flight[d] # <<>> /\ Live(d)
    BY <1>0, <2>1, FlightEnds
  <2>3. job[d].phase = "rest" /\ UNCHANGED <<job, delivered>>
    BY <1>0, <1>4, <2>2 DEF Coupled, ResponseErr, history
  <2>4. \E n : status' = [status EXCEPT ![d] = Failed(n)]
    BY <1>4, <2>2 DEF ResponseErr, Live
  <2>5. status'[d].st # "absent" /\ status[d].st # "absent"
    BY <1>0, <2>2, <2>4 DEF TypeOK, Failed, Live
  <2> QED
    BY <1>0, <1>2, <2>3, <2>5 DEF Sequenced, Ahead
<1> QED
  BY <1>3, <1>4

\* The ledgers, as far as they hold until the first restart.
EarlyLedgers == restarts = 0 => Ledgers

\* Restarts are never undone, and until the first one the channel stays open.
LEMMA RestartsGrow ==
    ASSUME TypeOK, InSequence, [Next]_vars, restarts' = 0
    PROVE  /\ restarts = 0
           /\ UNCHANGED closed
           /\ UNCHANGED up \/ \E w \in Worker : StartupBurst(w)
<1>1. CASE Interrupt \/ Crash
  BY <1>1 DEF Interrupt, Crash, TypeOK
<1>2. CASE FlushLog \/ Exit
  BY <1>2 DEF FlushLog, Exit, InSequence, memory
<1>3. CASE Client
  BY <1>3 DEF Client, SendEvent, FlushServer, CleanupActive, CleanupQueued,
              NextCount, memory
<1>4. ASSUME NEW w \in Worker, StartupBurst(w) \/ HandleRequest(w)
      PROVE  restarts = 0 /\ UNCHANGED closed /\ (UNCHANGED up \/ StartupBurst(w))
  BY <1>4 DEF StartupBurst, HandleRequest, RequestRefused, RequestRetry,
              RequestFresh
<1>5. ASSUME NEW d \in Dest, HandlerStep(d)
      PROVE  UNCHANGED <<restarts, closed, up>>
  BY <1>5 DEF HandlerStep, MarkInsert, MarkRemove, Compose, DeleteActive,
              Dequeue, FinishDeleted, memory
<1>6. ASSUME NEW d \in Dest,
             \/ ResponseOk(d) \/ ResponseErr(d) \/ BackoffElapsed(d)
             \/ FinishOk(d) \/ FinishErr(d)
      PROVE  UNCHANGED <<restarts, closed, up>>
  BY <1>6 DEF ResponseOk, ResponseErr, BackoffElapsed, FinishOk, FinishErr
<1>7. CASE UNCHANGED vars
  BY <1>7 DEF vars, memory
<1> QED
  BY <1>1, <1>2, <1>3, <1>4, <1>5, <1>6, <1>7 DEF Next

\* Until the first restart every step keeps the destinations in order.
LEMMA InSequenceNext ==
    ASSUME TypeOK, Routed, Coupled, EarlyLedgers, InSequence, [Next]_vars
    PROVE  InSequence'
<1> USE SendingAssumption
<1> SUFFICES ASSUME restarts' = 0
             PROVE  /\ ~closed'
                    /\ NothingLeft'
                    /\ \A d \in Served : Sequenced(d)'
  BY DEF InSequence, Served
<1>0. restarts = 0 /\ UNCHANGED closed /\ (UNCHANGED up \/ \E w \in Worker : StartupBurst(w))
  BY RestartsGrow DEF InSequence
<1>1. Ledgers /\ ~closed /\ NothingLeft /\ \A d \in Served : Sequenced(d)
  BY <1>0 DEF InSequence, Served, EarlyLedgers
<1>2. Served \subseteq Dest
  BY DEF Served
<1>same. ASSUME UNCHANGED <<up, chan, status, active, job, accepted, queued,
                            delivered, forfeited>>
         PROVE  NothingLeft' /\ \A d \in Served : Sequenced(d)'
  BY <1>1, <1>2, <1>same, SequencedFrame DEF NothingLeft
<1>3. ASSUME NEW c \in Dest, NEW e \in Event, SendEvent(c, e)
      PROVE  NothingLeft' /\ \A d \in Served : Sequenced(d)'
  <2>1. NothingLeft'
    BY <1>1, <1>3 DEF NothingLeft, SendEvent
  <2> QED
    BY <1>1, <1>2, <1>3, <2>1, SequencedSend
<1>4. ASSUME NEW c \in Dest, FlushServer(c)
      PROVE  NothingLeft' /\ \A d \in Served : Sequenced(d)'
  <2> DEFINE m == [dest |-> c, event |-> Flush]
  <2>1. /\ m \in Msg /\ m.dest = c /\ c \in Federation /\ ShardId[c] \in Worker
        /\ chan' = [chan EXCEPT ![ShardId[c]] = Append(@, m)]
        /\ UNCHANGED <<up, status, active, job, accepted, queued, delivered,
                       forfeited>>
    BY <1>4 DEF FlushServer, Msg, tables, history
  <2>2. NothingLeft'
    BY <1>1, <2>1 DEF NothingLeft
  <2> HIDE DEF m
  <2>3. ASSUME NEW d \in Served PROVE Sequenced(d)'
    <3>1. d \in Dest /\ d # c
      BY <2>1 DEF Served
    <3>2. ChannelInOrder(d)' /\ (Announced(d) => Announced(d)')
      BY <1>1, <2>1, <3>1, ChannelExtended DEF Sequenced
    <3> QED
      BY <1>1, <2>1, <3>1, <3>2, SequencedKept DEF Sequenced
  <2> QED
    BY <2>2, <2>3
<1>5. ASSUME NEW c \in Dest, CleanupActive(c) \/ CleanupQueued(c)
      PROVE  NothingLeft' /\ \A d \in Served : Sequenced(d)'
  <2>1. UNCHANGED <<up, chan, status, job, accepted, delivered>>
    BY <1>5 DEF CleanupActive, CleanupQueued
  <2>2. c \notin Served
    BY <1>1, <1>5 DEF CleanupActive, CleanupQueued, Ledgers, Ledger, Complete, Served
  <2>3. \A d \in Dest \ {c} :
          /\ active'[d] = active[d] /\ queued'[d] = queued[d]
          /\ forfeited'[d] = forfeited[d]
    BY <1>5 DEF CleanupActive, CleanupQueued, TypeOK
  <2>4. \A d \in Dest : active'[d] = active[d] \/ active'[d] = {}
    BY <1>5 DEF CleanupActive, CleanupQueued, TypeOK
  <2>5. NothingLeft'
    BY <1>1, <2>1, <2>4 DEF NothingLeft
  <2>6. ASSUME NEW d \in Served PROVE Sequenced(d)'
    BY <1>1, <1>2, <2>1, <2>2, <2>3, SequencedFrame
  <2> QED
    BY <2>5, <2>6
<1>6. ASSUME NEW w \in Worker, StartupBurst(w)
      PROVE  NothingLeft' /\ \A d \in Served : Sequenced(d)'
  <2>1. ASSUME NEW d \in Dest
        PROVE  /\ active'[d] = active[d] /\ forfeited'[d] = forfeited[d]
               /\ status'[d] = status[d]
    <3>1. CASE ShardId[d] # w
      BY <1>6, <3>1 DEF StartupBurst
    <3>2. CASE ShardId[d] = w
      <4>1. active[d] = {}
        BY <1>1, <1>6, <3>2 DEF StartupBurst, NothingLeft
      <4>2. Kept(d) = {}
        BY <4>1, KeptSubset
      <4> QED
        BY <1>6, <3>2, <4>1, <4>2 DEF StartupBurst
    <3> QED
      BY <3>1, <3>2
  <2>2. UNCHANGED <<chan, job, accepted, queued, delivered>>
    BY <1>6 DEF StartupBurst
  <2>3. ASSUME NEW d \in Dest, ~up'[ShardId[d]] PROVE ~up[ShardId[d]]
    BY <1>6, <2>3 DEF StartupBurst, TypeOK
  <2>4. NothingLeft'
    BY <1>1, <2>1, <2>3 DEF NothingLeft
  <2>5. ASSUME NEW d \in Served PROVE Sequenced(d)'
    BY <1>1, <1>2, <2>1, <2>2, SequencedFrame
  <2> QED
    BY <2>4, <2>5
<1>7. ASSUME NEW w \in Worker, HandleRequest(w)
      PROVE  NothingLeft' /\ \A d \in Served : Sequenced(d)'
  <2>1. UNCHANGED <<up, active>>
    BY <1>7 DEF HandleRequest, RequestRefused, RequestRetry, RequestFresh, tables
  <2>2. NothingLeft'
    BY <1>1, <2>1 DEF NothingLeft
  <2> QED
    BY <1>1, <1>7, <2>2, SequencedRequest
<1>8. ASSUME NEW c \in Dest, HandlerStep(c)
      PROVE  NothingLeft' /\ \A d \in Served : Sequenced(d)'
  <2>1. UNCHANGED <<up, chan, accepted, delivered, forfeited>>
    BY <1>8 DEF HandlerStep, MarkInsert, MarkRemove, Compose, DeleteActive,
                Dequeue, FinishDeleted, memory, tables, history
  <2>2. \A d \in Dest \ {c} :
          /\ active'[d] = active[d] /\ queued'[d] = queued[d]
          /\ status'[d] = status[d] /\ job'[d] = job[d]
    <3>1. CASE MarkInsert(c) \/ MarkRemove(c)
      BY <3>1 DEF MarkInsert, MarkRemove, TypeOK
    <3>2. CASE Compose(c) \/ DeleteActive(c)
      BY <3>2 DEF Compose, DeleteActive, TypeOK, memory
    <3>3. CASE Dequeue(c) \/ FinishDeleted(c)
      BY <3>3 DEF Dequeue, FinishDeleted, TypeOK, tables
    <3> QED
      BY <1>8, <3>1, <3>2, <3>3 DEF HandlerStep
  <2>3. up[ShardId[c]]
    <3>1. job[c].phase # "rest"
      BY <1>8 DEF HandlerStep, MarkInsert, MarkRemove, Compose, DeleteActive,
                  Dequeue, FinishDeleted
    <3> QED
      BY <3>1 DEF Coupled
  <2>4. NothingLeft'
    BY <1>1, <2>1, <2>2, <2>3 DEF NothingLeft
  <2>5. ASSUME NEW d \in Served PROVE Sequenced(d)'
    <3>1. CASE d = c
      BY <1>1, <1>8, <3>1, SequencedHandler
    <3>2. CASE d # c
      BY <1>1, <1>2, <2>1, <2>2, <3>2, SequencedFrame
    <3> QED
      BY <3>1, <3>2
  <2> QED
    BY <2>4, <2>5
<1>9. ASSUME NEW c \in Dest, ResponseOk(c) \/ ResponseErr(c)
      PROVE  NothingLeft' /\ \A d \in Served : Sequenced(d)'
  <2>1. UNCHANGED <<up, chan, active, queued, accepted, forfeited>>
    BY <1>9 DEF ResponseOk, ResponseErr, tables, history
  <2>2. \A d \in Dest \ {c} :
          /\ delivered'[d] = delivered[d]
          /\ status'[d] = status[d] /\ job'[d] = job[d]
    BY <1>9 DEF ResponseOk, ResponseErr, TypeOK, history
  <2>3. NothingLeft'
    BY <1>1, <2>1 DEF NothingLeft
  <2>4. ASSUME NEW d \in Served PROVE Sequenced(d)'
    <3>1. CASE d = c
      BY <1>1, <1>9, <3>1, SequencedResponse
    <3>2. CASE d # c
      BY <1>1, <1>2, <2>1, <2>2, <3>2, SequencedFrame
    <3> QED
      BY <3>1, <3>2
  <2> QED
    BY <2>3, <2>4
<1>10. ASSUME NEW c \in Dest, BackoffElapsed(c)
       PROVE  NothingLeft' /\ \A d \in Served : Sequenced(d)'
  <2>1. /\ \A d \in Dest : status'[d].st = status[d].st
        /\ UNCHANGED <<up, chan, active, job, accepted, queued, delivered,
                       forfeited>>
    BY <1>10 DEF BackoffElapsed, tables, history, TypeOK, Status
  <2>2. NothingLeft'
    BY <1>1, <2>1 DEF NothingLeft
  <2> QED
    BY <1>1, <1>2, <2>1, <2>2, SequencedFrame
<1>11. CASE Client
  BY <1>3, <1>4, <1>5, <1>same, <1>11, <1>0, <1>1
     DEF Client, NextCount, memory, history
<1>12. CASE Interrupt \/ Exit \/ Crash
  BY <1>0, <1>1, <1>12 DEF Interrupt, Exit, Crash, TypeOK
<1>15. CASE FlushLog
  BY <1>0, <1>1, <1>same, <1>15 DEF FlushLog, tables, memory, history
<1>13. ASSUME NEW c \in Dest, FinishOk(c) \/ FinishErr(c) PROVE FALSE
  BY <1>1, <1>13 DEF FinishOk, FinishErr
<1>14. CASE UNCHANGED vars
  BY <1>0, <1>1, <1>same, <1>14 DEF vars, tables, memory, history
<1> QED
  BY <1>0, <1>1, <1>6, <1>7, <1>8, <1>9, <1>10, <1>11, <1>12, <1>13, <1>14,
     <1>15 DEF Next

\* Until the first restart, the events of a room reach an appservice or a pusher
\* that is not removed in the order they were queued, for any number of
\* destinations, rooms and events and any batch size.
THEOREM DeliveredInOrder == Spec => []InOrder
<1>1. Init => InSequence
  <2> SUFFICES ASSUME Init, NEW d \in Served PROVE Sequenced(d) /\ NothingLeft /\ ~closed
    BY DEF Init, InSequence, Served, NothingLeft
  <2>1. d \in Dest
    BY DEF Served
  <2> QED
    BY <2>1, SendingAssumption
       DEF Init, NothingLeft, Sequenced, ChannelInOrder, Announced, Ahead,
           Absent, Rest
<1>2. InSequence => InOrder
  BY DEF InSequence, Sequenced, Ahead, InOrder
<1>3. ASSUME TypeOK, Routed, Coupled, EarlyLedgers, InSequence, [Next]_vars
      PROVE  EarlyLedgers'
  <2> SUFFICES ASSUME restarts' = 0 PROVE Ledgers'
    BY DEF EarlyLedgers
  <2>1. restarts = 0
    BY <1>3, RestartsGrow
  <2>2. ~Crash
    BY <1>3 DEF Crash, TypeOK
  <2> QED
    BY <1>3, <2>1, <2>2, LedgersStep DEF InSequence, EarlyLedgers
<1>4. TypeOK /\ Routed /\ Coupled /\ EarlyLedgers /\ InSequence /\ [Next]_vars
        => Routed' /\ Coupled' /\ EarlyLedgers' /\ InSequence'
  BY <1>3, RoutedNext, CoupledNext, InSequenceNext
<1>5. Init => EarlyLedgers
  BY LedgersInit DEF EarlyLedgers
<1> QED
  BY <1>1, <1>2, <1>4, <1>5, CoupledInit, TypeCorrect, PTL DEF Spec

-----------------------------------------------------------------------------
(* Ephemeral updates *)

\* A destination whose transactions do not grow gets no update.
LEMMA NoNewEdus ==
    ASSUME TypeOK, NEW d \in Dest, flight'[d] = flight[d] \/ flight'[d] = <<>>
    PROVE  \A i \in 1..Len(flight'[d]) :
              i > Len(flight[d]) => flight'[d][i].edus \cap eduSent[d] = {}
<1>1. CASE flight'[d] = <<>>
  BY <1>1
<1>2. CASE flight'[d] = flight[d]
  <2> DEFINE n == Len(flight[d])
  <2>0. n \in Nat
    BY DEF TypeOK
  <2>1. ASSUME NEW i \in 1..n PROVE ~(i > n)
    <3> HIDE DEF n
    <3> QED
      BY <2>0
  <2> QED
    BY <1>2, <2>1
<1> QED
  BY <1>1, <1>2

\* A destination with nothing in flight that gets one transaction.
LEMMA OneNewTxn ==
    ASSUME NEW d \in Dest, NEW t, flight'[d] = <<t>>, t.edus \cap eduSent[d] = {}
    PROVE  \A i \in 1..Len(flight'[d]) :
              i > Len(flight[d]) => flight'[d][i].edus \cap eduSent[d] = {}
<1>1. Len(flight'[d]) = 1 /\ flight'[d][1] = t
  OBVIOUS
<1>2. \A i \in 1..1 : i = 1
  OBVIOUS
<1> QED
  BY <1>1, <1>2

LEMMA EdusStep ==
    ASSUME TypeOK, Routed, Coupled, EdusCounted, [Next]_vars
    PROVE  EdusCounted' /\ NewEdusOnly
<1> USE SendingAssumption
<1>same. ASSUME UNCHANGED <<educount, eduSent>> PROVE EdusCounted'
  BY <1>same DEF EdusCounted
<1>none. ASSUME \A d \in Dest : flight'[d] = flight[d] \/ flight'[d] = <<>>
         PROVE  NewEdusOnly
  BY <1>none, NoNewEdus DEF NewEdusOnly
<1>1. ASSUME NEW w \in Worker, StartupBurst(w) PROVE EdusCounted' /\ NewEdusOnly
  <2>1. ASSUME NEW d \in Dest
        PROVE  \/ flight'[d] = flight[d]
               \/ flight'[d] = <<[events |-> Kept(d), edus |-> {}]>>
    <3>1. CASE ShardId[d] # w
      BY <1>1, <3>1 DEF StartupBurst
    <3>2. CASE ShardId[d] = w
      <4>1. flight[d] = <<>>
        BY <1>1, <3>2 DEF StartupBurst, Coupled
      <4>2. \/ flight'[d] = flight[d]
            \/ flight'[d] = Append(<<>>, [events |-> Kept(d), edus |-> {}])
        BY <1>1, <4>1 DEF StartupBurst
      <4>3. Append(<<>>, [events |-> Kept(d), edus |-> {}])
              = <<[events |-> Kept(d), edus |-> {}]>>
        OBVIOUS
      <4> QED
        BY <4>2, <4>3
    <3> QED
      BY <3>1, <3>2
  <2>2. NewEdusOnly
    BY <2>1, NoNewEdus, OneNewTxn DEF NewEdusOnly
  <2> QED
    BY <1>1, <1>same, <2>2 DEF StartupBurst
<1>2. ASSUME NEW w \in Worker, RequestRetry(w) PROVE EdusCounted' /\ NewEdusOnly
  <2>0. PICK d \in Dest : d = Head(chan[w]).dest
    BY <1>2, TakenDest DEF RequestRetry
  <2>1. flight[d] = <<>>
    BY <1>2, <2>0 DEF RequestRetry, Coupled, Live
  <2>2. \/ flight' = flight
        \/ flight' = [flight EXCEPT ![d] = <<[events |-> active[d], edus |-> {}]>>]
    <3>1. CASE active[d] # {}
      <4>1. Push(d, active[d], {})
        BY <1>2, <2>0, <3>1 DEF RequestRetry
      <4> QED
        BY <2>1, <4>1, FlightBegins
    <3>2. CASE active[d] = {}
      BY <1>2, <2>0, <3>2 DEF RequestRetry
    <3> QED
      BY <3>1, <3>2
  <2>3. ASSUME NEW c \in Dest
        PROVE  \/ flight'[c] = flight[c]
               \/ flight'[c] = <<[events |-> active[c], edus |-> {}]>>
    BY <2>2 DEF TypeOK
  <2>4. NewEdusOnly
    BY <2>3, NoNewEdus, OneNewTxn DEF NewEdusOnly
  <2> QED
    BY <1>2, <1>same, <2>4 DEF RequestRetry, tables, history
<1>3. ASSUME NEW d \in Dest, Compose(d) PROVE EdusCounted' /\ NewEdusOnly
  <2>1. flight[d] = <<>>
    BY <1>3 DEF Compose, Coupled
  <2>2. ASSUME NEW edus, Push(d, job[d].batch, edus), edus \cap eduSent[d] = {}
        PROVE  NewEdusOnly
    <3>1. flight' = [flight EXCEPT ![d] =
                       <<[events |-> job[d].batch, edus |-> edus]>>]
      BY <2>1, <2>2, FlightBegins
    <3>2. ASSUME NEW c \in Dest, c # d PROVE flight'[c] = flight[c]
      BY <3>1, <3>2 DEF TypeOK
    <3>3. flight'[d] = <<[events |-> job[d].batch, edus |-> edus]>>
      BY <3>1 DEF TypeOK
    <3> QED
      BY <2>2, <3>2, <3>3, NoNewEdus, OneNewTxn DEF NewEdusOnly
  <2>3. CASE job[d].fresh /\ d \in Federation
    <3>1. PICK last \in educount[d]..count :
            \E edus \in SUBSET ((educount[d] + 1)..last) :
              /\ educount' = [educount EXCEPT ![d] = last]
              /\ eduSent' = [eduSent EXCEPT ![d] = @ \cup edus]
              /\ Push(d, job[d].batch, edus)
      BY <1>3, <2>3 DEF Compose
    <3>2. PICK edus \in SUBSET ((educount[d] + 1)..last) :
            /\ educount' = [educount EXCEPT ![d] = last]
            /\ eduSent' = [eduSent EXCEPT ![d] = @ \cup edus]
            /\ Push(d, job[d].batch, edus)
      BY <3>1
    <3>3. /\ educount[d] \in Nat /\ last \in Nat /\ educount[d] <= last
          /\ \A c \in eduSent[d] : c \in Nat /\ c <= educount[d]
          /\ \A c \in edus : c \in Nat /\ c > educount[d] /\ c <= last
      BY DEF TypeOK, EdusCounted
    <3>4. edus \cap eduSent[d] = {}
      BY <3>3
    <3>5. EdusCounted'
      BY <3>2, <3>3 DEF EdusCounted, TypeOK
    <3> QED
      BY <2>2, <3>2, <3>4, <3>5
  <2>4. CASE ~(job[d].fresh /\ d \in Federation)
    BY <1>3, <1>same, <2>2, <2>4 DEF Compose
  <2> QED
    BY <2>3, <2>4
<1>4. ASSUME NEW d \in Dest,
             \/ ResponseErr(d)
             \/ ResponseOk(d)
             \/ FinishErr(d)
             \/ FinishOk(d)
      PROVE  EdusCounted' /\ NewEdusOnly
  <2>1. flight' = [flight EXCEPT ![d] = <<>>]
    BY <1>4, FlightEnds DEF ResponseErr, ResponseOk, FinishErr, FinishOk
  <2>2. UNCHANGED <<educount, eduSent>>
    BY <1>4 DEF ResponseErr, ResponseOk, FinishErr, FinishOk, tables, history
  <2>3. \A c \in Dest : flight'[c] = flight[c] \/ flight'[c] = <<>>
    BY <2>1 DEF TypeOK
  <2> QED
    BY <1>none, <1>same, <2>2, <2>3
<1>5. ASSUME UNCHANGED <<educount, eduSent, flight>>
      PROVE  EdusCounted' /\ NewEdusOnly
  BY <1>5, <1>none, <1>same
<1>6. CASE Client
  BY <1>5, <1>6
     DEF Client, SendEvent, FlushServer, CleanupActive, CleanupQueued,
         NextCount, memory, tables, history
<1>7. CASE \E w \in Worker : StartupBurst(w) \/ HandleRequest(w)
  BY <1>1, <1>2, <1>5, <1>7
     DEF HandleRequest, RequestRefused, RequestFresh, tables, history
<1>8. CASE \E d \in Dest : HandlerStep(d)
  BY <1>3, <1>5, <1>8
     DEF HandlerStep, MarkInsert, MarkRemove, DeleteActive, Dequeue,
         FinishDeleted, tables, memory, history
<1>9. CASE \E d \in Dest : BackoffElapsed(d)
  BY <1>5, <1>9 DEF BackoffElapsed, tables, history
<1>10. CASE Exit \/ Crash
  <2>1. \A c \in Dest : flight'[c] = <<>>
    BY <1>10 DEF Exit, Crash, LoseMemory
  <2>2. ASSUME Exit PROVE EdusCounted'
    BY <2>2, <1>same DEF Exit, tables, history
  <2>3. ASSUME Crash PROVE EdusCounted'
    BY <2>3 DEF Crash, EdusCounted
  <2> QED
    BY <1>10, <1>none, <2>1, <2>2, <2>3
<1>11. CASE FlushLog \/ Interrupt
  BY <1>5, <1>11 DEF FlushLog, Interrupt, tables, memory, history
<1>12. CASE UNCHANGED vars
  BY <1>5, <1>12 DEF vars, tables, memory, history
<1> QED
  BY <1>4, <1>6, <1>7, <1>8, <1>9, <1>10, <1>11, <1>12 DEF Next

\* No ephemeral update is put in two transactions to the same server, although
\* transactions fail and the server restarts, unless a crash comes before the
\* count that was recorded with it was flushed.
THEOREM EdusOnce == Spec => EduAtMostOnce
<1>1. Init => EdusCounted
  BY DEF Init, EdusCounted
<1>2. TypeOK /\ Routed /\ Coupled /\ EdusCounted /\ [Next]_vars
        => Routed' /\ Coupled' /\ EdusCounted' /\ NewEdusOnly
  BY RoutedNext, CoupledNext, EdusStep
<1> QED
  BY <1>1, <1>2, CoupledInit, TypeCorrect, PTL DEF Spec, EduAtMostOnce

-----------------------------------------------------------------------------
(* The service implements Outbox *)

\* A step that leaves alone what a destination holds keeps it genuine.
LEMMA GenuineFrame ==
    ASSUME NEW d \in Dest, Genuine(d),
           queued'[d] = queued[d], active'[d] = active[d],
           delivered'[d] = delivered[d], forfeited'[d] = forfeited[d],
           job'[d] = job[d], flight'[d] = flight[d], accepted'[d] = accepted[d]
    PROVE  Genuine(d)'
BY DEF Genuine

\* A channel that only got an announcement of an accepted event, or lost its
\* first one, announces accepted events.
LEMMA CallsNext ==
    ASSUME TypeOK, GenuineCalls, [Next]_vars
    PROVE  GenuineCalls'
<1> USE SendingAssumption
<1>0. chan \in [Worker -> Seq(Msg)]
  BY DEF TypeOK
<1>1. ASSUME UNCHANGED <<chan, accepted>> PROVE GenuineCalls'
  BY <1>1 DEF GenuineCalls
<1>2. ASSUME NEW v \in Worker, NEW m \in Msg,
             chan' = [chan EXCEPT ![v] = Append(@, m)],
             \A d \in Dest : accepted[d] \subseteq accepted'[d],
             m.event # Flush => m.event \in accepted'[m.dest]
      PROVE  GenuineCalls'
  <2> SUFFICES ASSUME NEW w \in Worker, NEW i \in 1..Len(chan'[w]),
                      chan'[w][i].event # Flush
               PROVE  chan'[w][i].event \in accepted'[chan'[w][i].dest]
    BY DEF GenuineCalls
  <2>1. chan[w] \in Seq(Msg)
    BY <1>0
  <2>2. CASE i \in 1..Len(chan[w]) /\ chan'[w][i] = chan[w][i]
    <3>1. chan[w][i].event \in accepted[chan[w][i].dest]
      BY <2>2 DEF GenuineCalls
    <3>2. chan[w][i] \in Msg
      BY <2>1, <2>2
    <3> QED
      BY <1>2, <2>2, <3>1, <3>2 DEF Msg
  <2>3. CASE w = v /\ chan'[w][i] = m
    BY <1>2, <2>3
  <2>4. CASE w # v
    <3>1. chan'[w] = chan[w]
      BY <1>0, <1>2, <2>4
    <3> QED
      BY <2>2, <3>1
  <2>5. CASE w = v
    <3>1. chan'[w] = Append(chan[w], m)
      BY <1>0, <1>2, <2>5
    <3>2. PICK s \in Seq(Msg) : s = chan[w]
      BY <2>1
    <3>3. i \in 1..Len(Append(s, m))
      BY <3>1, <3>2
    <3>4. \/ i \in 1..Len(s) /\ Append(s, m)[i] = s[i]
          \/ Append(s, m)[i] = m
      BY <3>3
    <3> QED
      BY <2>2, <2>3, <2>5, <3>1, <3>2, <3>4
  <2> QED
    BY <2>4, <2>5
<1>3. ASSUME NEW v \in Worker, TakeMsg(v), UNCHANGED accepted
      PROVE  GenuineCalls'
  <2> SUFFICES ASSUME NEW w \in Worker, NEW i \in 1..Len(chan'[w]),
                      chan'[w][i].event # Flush
               PROVE  chan'[w][i].event \in accepted[chan'[w][i].dest]
    BY <1>3 DEF GenuineCalls
  <2>1. PICK s \in Seq(Msg) : s = chan[w]
    BY <1>0
  <2>2. CASE w # v
    <3>1. chan'[w] = chan[w]
      BY <1>0, <1>3, <2>2 DEF TakeMsg
    <3> QED
      BY <3>1 DEF GenuineCalls
  <2>3. CASE w = v
    <3>1. chan'[w] = Tail(s) /\ s # <<>>
      BY <1>0, <1>3, <2>1, <2>3 DEF TakeMsg
    <3>2. i \in 1..Len(Tail(s))
      BY <3>1
    <3>3. i + 1 \in 1..Len(s) /\ Tail(s)[i] = s[i + 1]
      BY <3>1, <3>2
    <3> QED
      BY <2>1, <3>1, <3>3 DEF GenuineCalls
  <2> QED
    BY <2>2, <2>3
<1>4. ASSUME NEW d \in Dest, NEW e \in Event, SendEvent(d, e)
      PROVE  GenuineCalls'
  <2> DEFINE m == [dest |-> d, event |-> e]
  <2>1. \A c \in Dest : accepted[c] \subseteq accepted'[c]
    BY <1>4 DEF SendEvent, TypeOK
  <2>2. e \in accepted'[d]
    BY <1>4 DEF SendEvent, TypeOK
  <2>3. CASE closed
    <3>1. chan' = chan
      BY <1>4, <2>3 DEF SendEvent
    <3>2. ASSUME NEW w \in Worker, NEW i \in 1..Len(chan[w])
          PROVE  chan[w][i].dest \in Dest
      <4>1. PICK s \in Seq(Msg) : s = chan[w]
        BY <1>0
      <4>2. s[i] \in Msg
        BY <3>2, <4>1
      <4> QED
        BY <4>1, <4>2 DEF Msg
    <3> QED
      BY <2>1, <3>1, <3>2 DEF GenuineCalls
  <2>4. CASE ~closed
    <3>1. chan' = [chan EXCEPT ![ShardId[d]] = Append(@, m)]
      BY <1>4, <2>4 DEF SendEvent
    <3>2. m \in Msg /\ m.event \in accepted'[m.dest] /\ ShardId[d] \in Worker
      BY <2>2 DEF Msg
    <3> HIDE DEF m
    <3> QED
      BY <1>2, <2>1, <3>1, <3>2
  <2> QED
    BY <2>3, <2>4
<1>5. ASSUME NEW d \in Dest, FlushServer(d) PROVE GenuineCalls'
  <2> DEFINE m == [dest |-> d, event |-> Flush]
  <2>1. /\ chan' = [chan EXCEPT ![ShardId[d]] = Append(@, m)]
        /\ accepted' = accepted /\ m \in Msg /\ m.event = Flush
        /\ ShardId[d] \in Worker
    BY <1>5 DEF FlushServer, Msg, history
  <2> HIDE DEF m
  <2> QED
    BY <1>2, <2>1
<1>6. CASE Client
  BY <1>1, <1>4, <1>5, <1>6
     DEF Client, CleanupActive, CleanupQueued, NextCount, memory, history
<1>7. ASSUME NEW w \in Worker, StartupBurst(w) \/ HandleRequest(w)
      PROVE  GenuineCalls'
  <2>1. CASE StartupBurst(w)
    BY <1>1, <2>1 DEF StartupBurst
  <2>2. CASE HandleRequest(w)
    BY <1>3, <2>2
       DEF HandleRequest, RequestRefused, RequestRetry, RequestFresh, history
  <2> QED
    BY <1>7, <2>1, <2>2
<1>8. ASSUME NEW d \in Dest, HandlerStep(d) PROVE GenuineCalls'
  BY <1>1, <1>8 DEF HandlerStep, MarkInsert, MarkRemove, Compose, DeleteActive,
                    Dequeue, FinishDeleted, memory, history
<1>9. ASSUME NEW d \in Dest,
             \/ ResponseOk(d) \/ ResponseErr(d) \/ BackoffElapsed(d)
             \/ FinishOk(d) \/ FinishErr(d)
      PROVE  GenuineCalls'
  BY <1>1, <1>9
     DEF ResponseOk, ResponseErr, BackoffElapsed, FinishOk, FinishErr, history
<1>10. CASE Exit \/ Crash
  BY <1>10 DEF Exit, Crash, LoseMemory, GenuineCalls
<1>11. CASE FlushLog \/ Interrupt
  BY <1>1, <1>11 DEF FlushLog, Interrupt, memory, history
<1>12. CASE UNCHANGED vars
  BY <1>1, <1>12 DEF vars, memory, history
<1> QED
  BY <1>6, <1>7, <1>8, <1>9, <1>10, <1>11, <1>12 DEF Next

\* Every step handles only events that were accepted for the destination.
LEMMA GenuineNext ==
    ASSUME TypeOK, Routed, Coupled, Ledgers, Accounted, StoredGenuine, [Next]_vars
    PROVE  \A d \in Dest : Genuine(d)'
<1> USE SendingAssumption
<1>0. \A d \in Dest : Genuine(d)
  BY DEF Accounted
<1>same. ASSUME UNCHANGED <<queued, active, delivered, forfeited, job, flight,
                            accepted>>
         PROVE  \A d \in Dest : Genuine(d)'
  BY <1>0, <1>same, GenuineFrame
<1>1. ASSUME NEW c \in Dest, NEW e \in Event, SendEvent(c, e), NEW d \in Dest
      PROVE  Genuine(d)'
  <2>1. /\ accepted[d] \subseteq accepted'[d]
        /\ queued'[d] \subseteq queued[d] \cup accepted'[d]
        /\ UNCHANGED <<active, delivered, forfeited, job, flight>>
    BY <1>1 DEF SendEvent, TypeOK
  <2> QED
    BY <1>0, <2>1 DEF Genuine
<1>2. ASSUME NEW c \in Dest, CleanupActive(c) \/ CleanupQueued(c), NEW d \in Dest
      PROVE  Genuine(d)'
  <2>1. /\ active'[d] \subseteq active[d]
        /\ queued'[d] \subseteq queued[d]
        /\ forfeited'[d] \subseteq forfeited[d] \cup active[d] \cup queued[d]
        /\ UNCHANGED <<accepted, delivered, job, flight>>
    <3>1. CASE CleanupActive(c)
      BY <3>1 DEF CleanupActive, TypeOK
    <3>2. CASE CleanupQueued(c)
      BY <3>2 DEF CleanupQueued, TypeOK
    <3> QED
      BY <1>2, <3>1, <3>2
  <2> QED
    BY <1>0, <2>1 DEF Genuine
<1>3. ASSUME NEW w \in Worker, StartupBurst(w), NEW d \in Dest
      PROVE  Genuine(d)'
  <2>1. /\ active'[d] \subseteq active[d]
        /\ forfeited'[d] \subseteq forfeited[d] \cup active[d]
        /\ UNCHANGED <<queued, accepted, delivered, job>>
    BY <1>3, KeptSubset DEF StartupBurst
  <2>2. flight'[d] # <<>> => flight'[d][1].events \subseteq accepted[d]
    <3>1. CASE flight'[d] = flight[d]
      BY <1>0, <3>1 DEF Genuine
    <3>2. CASE flight'[d] # flight[d]
      <4>1. /\ flight'[d] = Append(flight[d], [events |-> Kept(d), edus |-> {}])
            /\ ~up[ShardId[d]]
        BY <1>3, <3>2 DEF StartupBurst
      <4>2. flight[d] = <<>>
        BY <4>1 DEF Coupled
      <4>3. PICK t : t = [events |-> Kept(d), edus |-> {}]
        OBVIOUS
      <4>4. Append(<<>>, t) = <<t>>
        OBVIOUS
      <4>5. flight'[d][1] = t
        BY <4>1, <4>2, <4>3, <4>4
      <4>6. t.events \subseteq active[d]
        BY <4>3, KeptSubset
      <4> QED
        BY <1>0, <4>5, <4>6 DEF Genuine
    <3> QED
      BY <3>1, <3>2
  <2> QED
    BY <1>0, <2>1, <2>2 DEF Genuine
<1>4. ASSUME NEW w \in Worker, RequestRetry(w), NEW d \in Dest
      PROVE  Genuine(d)'
  <2>1. PICK c \in Dest : c = Head(chan[w]).dest
    BY <1>4, TakenDest DEF RequestRetry
  <2>2. UNCHANGED <<queued, active, delivered, forfeited, job, accepted>>
    BY <1>4 DEF RequestRetry, tables, history
  <2>3. flight[c] = <<>>
    BY <1>4, <2>1 DEF RequestRetry, Coupled, Live
  <2>4. CASE flight' = flight
    BY <2>2, <2>4, <1>same
  <2>5. CASE Push(c, active[c], {})
    <3>1. flight' = [flight EXCEPT ![c] = <<[events |-> active[c], edus |-> {}]>>]
      BY <2>3, <2>5, FlightBegins
    <3>2. PICK t : t = [events |-> active[c], edus |-> {}]
      OBVIOUS
    <3>3. flight'[d] = flight[d] \/ (d = c /\ flight'[d] = <<t>>)
      BY <3>1, <3>2 DEF TypeOK
    <3>4. <<t>>[1] = t /\ t.events = active[c]
      BY <3>2
    <3> QED
      BY <1>0, <2>2, <3>3, <3>4 DEF Genuine
  <2> QED
    BY <1>4, <2>1, <2>4, <2>5 DEF RequestRetry
<1>5. ASSUME NEW w \in Worker, RequestFresh(w), NEW d \in Dest
      PROVE  Genuine(d)'
  <2>1. PICK m \in Msg : m = Head(chan[w])
    BY <1>5, TakenDest DEF RequestFresh
  <2>2. UNCHANGED <<queued, active, delivered, forfeited, flight, accepted>>
    BY <1>5 DEF RequestFresh, tables, history
  <2>3. job' = [job EXCEPT ![m.dest] = Marking({m.event} \ {Flush}, TRUE)]
    BY <1>5, <2>1 DEF RequestFresh
  <2>4. m.event # Flush => m.event \in accepted[m.dest]
    <3>1. chan[w] \in Seq(Msg) /\ chan[w] # <<>>
      BY <1>5 DEF TypeOK, RequestFresh, TakeMsg
    <3>2. Head(chan[w]) = chan[w][1] /\ 1 \in 1..Len(chan[w])
      BY <3>1
    <3> QED
      BY <2>1, <3>2 DEF Accounted, GenuineCalls
  <2>5. job'[d] = job[d] \/ (d = m.dest /\ job'[d].batch = {m.event} \ {Flush})
    BY <2>3 DEF TypeOK, Marking
  <2> QED
    BY <1>0, <2>2, <2>4, <2>5 DEF Genuine
<1>6. ASSUME NEW c \in Dest, MarkInsert(c), NEW d \in Dest
      PROVE  Genuine(d)'
  <2>1. PICK e \in job[c].todo :
          /\ active' = [active EXCEPT ![c] = @ \cup {e}]
          /\ job' = [job EXCEPT ![c].phase = "unqueue", ![c].cur = e]
    BY <1>6 DEF MarkInsert
  <2>2. UNCHANGED <<flight, queued, accepted, delivered, forfeited>>
    BY <1>6 DEF MarkInsert, history
  <2>3. job[d] \in Job
    BY DEF TypeOK
  <2>4. job'[d].batch = job[d].batch
    BY <2>1, <2>3 DEF TypeOK, Job
  <2>5. active'[d] = active[d] \/ (d = c /\ active'[d] = active[d] \cup {e})
    BY <2>1 DEF TypeOK
  <2>6. e \in accepted[c]
    BY <1>0, <2>1 DEF Genuine, Ledgers, Ledger, Tracked
  <2> QED
    BY <1>0, <2>2, <2>4, <2>5, <2>6 DEF Genuine
<1>7. ASSUME NEW c \in Dest, MarkRemove(c), NEW d \in Dest
      PROVE  Genuine(d)'
  <2>1. UNCHANGED <<flight, active, accepted, delivered, forfeited>>
    BY <1>7 DEF MarkRemove, history
  <2>2. job[d] \in Job
    BY DEF TypeOK
  <2>3. job'[d].batch = job[d].batch
    BY <1>7, <2>2 DEF MarkRemove, TypeOK, Job
  <2>4. queued'[d] \subseteq queued[d]
    BY <1>7 DEF MarkRemove, TypeOK
  <2> QED
    BY <1>0, <2>1, <2>3, <2>4 DEF Genuine
<1>8. ASSUME NEW c \in Dest, Compose(c), NEW d \in Dest
      PROVE  Genuine(d)'
  <2>1. /\ UNCHANGED <<queued, active, accepted, delivered, forfeited>>
        /\ job[c].phase = "mark"
        /\ job' = [job EXCEPT ![c] = Rest]
    BY <1>8 DEF Compose
  <2>2. flight[c] = <<>>
    BY <2>1 DEF Coupled, Live
  <2>3. PICK edus : Push(c, job[c].batch, edus)
    BY <1>8 DEF Compose
  <2>4. flight' = [flight EXCEPT ![c] =
                     <<[events |-> job[c].batch, edus |-> edus]>>]
    BY <2>2, <2>3, FlightBegins
  <2>5. PICK t : t = [events |-> job[c].batch, edus |-> edus]
    OBVIOUS
  <2>6. flight'[d] = flight[d] \/ (d = c /\ flight'[d] = <<t>>)
    BY <2>4, <2>5 DEF TypeOK
  <2>7. <<t>>[1] = t /\ t.events = job[c].batch
    BY <2>5
  <2>8. job'[d].batch \subseteq job[d].batch
    BY <2>1 DEF TypeOK, Rest
  <2> QED
    BY <1>0, <2>1, <2>6, <2>7, <2>8 DEF Genuine
<1>9. ASSUME NEW c \in Dest, DeleteActive(c), NEW d \in Dest
      PROVE  Genuine(d)'
  <2>1. /\ UNCHANGED <<queued, flight, job, accepted, delivered, forfeited>>
        /\ active'[d] \subseteq active[d]
    BY <1>9 DEF DeleteActive, memory, history, TypeOK
  <2> QED
    BY <1>0, <2>1 DEF Genuine
<1>10. ASSUME NEW c \in Dest, Dequeue(c) \/ FinishDeleted(c), NEW d \in Dest
       PROVE  Genuine(d)'
  <2>1. UNCHANGED <<queued, active, flight, accepted, delivered, forfeited>>
    BY <1>10 DEF Dequeue, FinishDeleted, tables, history
  <2>2. PICK new : new = FirstN(queued[c], DequeueLimit)
    OBVIOUS
  <2>3. \/ job' = [job EXCEPT ![c] = Marking(new, FALSE)]
        \/ job' = [job EXCEPT ![c] = Rest]
    BY <1>10, <2>2 DEF Dequeue, FinishDeleted
  <2>4. new \subseteq queued[c]
    BY <2>2, FirstNSubset
  <2>5. job'[d] = job[d] \/ (d = c /\ job'[d].batch \subseteq queued[d])
    BY <2>3, <2>4 DEF TypeOK, Marking, Rest
  <2> QED
    BY <1>0, <2>1, <2>5 DEF Genuine
<1>11. ASSUME NEW c \in Dest,
              \/ ResponseOk(c) \/ FinishOk(c) \/ ResponseErr(c) \/ FinishErr(c),
              NEW d \in Dest
       PROVE  Genuine(d)'
  <2>1. UNCHANGED <<queued, active, accepted, forfeited>>
    BY <1>11 DEF ResponseOk, FinishOk, ResponseErr, FinishErr, tables, history
  <2>2. PICK i \in 1..Len(flight[c]) :
          /\ flight' = [flight EXCEPT ![c] = Without(@, i)]
          /\ \/ delivered' = delivered
             \/ delivered' = [delivered EXCEPT ![c] = @ \cup flight[c][i].events]
    BY <1>11 DEF ResponseOk, FinishOk, ResponseErr, FinishErr, history
  <2>3. flight' = [flight EXCEPT ![c] = <<>>] /\ i = 1 /\ flight[c] # <<>>
    BY <2>2, FlightEnds
  <2>4. flight'[d] = flight[d] \/ flight'[d] = <<>>
    BY <2>3 DEF TypeOK
  <2>5. delivered'[d] = delivered[d]
        \/ (d = c /\ delivered'[d] = delivered[d] \cup flight[d][1].events)
    BY <2>2, <2>3 DEF TypeOK
  <2>6. job' = job \/ \E p : job' = [job EXCEPT ![c] = Deleting(p)]
    BY <1>11 DEF ResponseOk, FinishOk, ResponseErr, FinishErr
  <2>7. job'[d].batch = job[d].batch \/ job'[d].batch = {}
    <3>1. CASE job' = job
      BY <3>1
    <3>2. ASSUME NEW p, job' = [job EXCEPT ![c] = Deleting(p)]
          PROVE  job'[d].batch = job[d].batch \/ job'[d].batch = {}
      <4>1. job'[d] = job[d] \/ job'[d] = Deleting(p)
        BY <3>2 DEF TypeOK
      <4> QED
        BY <4>1 DEF Deleting
    <3> QED
      BY <2>6, <3>1, <3>2
  <2> QED
    BY <1>0, <2>1, <2>3, <2>4, <2>5, <2>7 DEF Genuine
<1>12. ASSUME LoseMemory, UNCHANGED <<tables, history>>, NEW d \in Dest
       PROVE  Genuine(d)'
  <2>1. /\ flight'[d] = <<>> /\ job'[d].batch = {}
        /\ UNCHANGED <<queued, active, accepted, delivered, forfeited>>
    BY <1>12 DEF LoseMemory, Rest, tables, history
  <2> QED
    BY <1>0, <2>1 DEF Genuine
<1>13. CASE Client
  BY <1>1, <1>2, <1>same, <1>13
     DEF Client, FlushServer, NextCount, tables, memory, history
<1>14. CASE \E w \in Worker : StartupBurst(w) \/ HandleRequest(w)
  BY <1>3, <1>4, <1>5, <1>same, <1>14
     DEF HandleRequest, RequestRefused, tables, history
<1>15. CASE \E d \in Dest : HandlerStep(d)
  BY <1>6, <1>7, <1>8, <1>9, <1>10, <1>15 DEF HandlerStep
<1>16. CASE FlushLog \/ Interrupt \/ Exit
  BY <1>12, <1>same, <1>16 DEF FlushLog, Interrupt, Exit, tables, memory, history
<1>19. ASSUME Crash, NEW d \in Dest PROVE Genuine(d)'
  <2>1. /\ flight'[d] = <<>> /\ job'[d].batch = {}
        /\ queued'[d] = disk.queued[d] /\ active'[d] = disk.active[d]
        /\ accepted'[d] = disk.accepted[d]
        /\ delivered'[d] \subseteq disk.accepted[d]
        /\ forfeited'[d] \subseteq disk.accepted[d]
    BY <1>19 DEF Crash, LoseMemory, Rest
  <2> QED
    BY <2>1 DEF Genuine, StoredGenuine
<1>17. CASE \E d \in Dest : BackoffElapsed(d)
  BY <1>same, <1>17 DEF BackoffElapsed, tables, history
<1>18. CASE UNCHANGED vars
  BY <1>same, <1>18 DEF vars, tables, memory, history
<1> QED
  BY <1>11, <1>13, <1>14, <1>15, <1>16, <1>17, <1>18, <1>19 DEF Next

\* A step that keeps the histories and what is pending is a stutter of Outbox.
LEMMA OutboxStutter ==
    ASSUME UNCHANGED <<accepted, delivered, forfeited, disk>>,
           \A d \in Dest : Pending(d)' = Pending(d)
    PROVE  UNCHANGED outbox!vars
BY DEF outbox!vars

\* Every step of the service is a step of Outbox, or a stutter.
LEMMA OutboxStep ==
    ASSUME TypeOK, Coupled, Ledgers, Accounted, Stored, StoredGenuine, [Next]_vars
    PROVE  [outbox!Next]_(outbox!vars)
<1> USE SendingAssumption
<1>0. \A d \in Dest : Genuine(d) /\ Ledger(d)
  BY DEF Accounted, Ledgers
<1>same. ASSUME UNCHANGED <<queued, active, accepted, delivered, forfeited, disk>>
         PROVE  UNCHANGED outbox!vars
  BY <1>same, OutboxStutter DEF Pending
<1>1. ASSUME NEW d \in Dest, NEW e \in Event, SendEvent(d, e)
      PROVE  outbox!Accept(d, e)
  <2>1. /\ e \notin accepted[d]
        /\ accepted' = [accepted EXCEPT ![d] = @ \cup {e}]
        /\ UNCHANGED <<active, delivered, forfeited, disk>>
        /\ queued' = [queued EXCEPT ![d] = @ \cup {e}]
    BY <1>1 DEF SendEvent
  <2>2. e \notin delivered[d] \cup forfeited[d]
    BY <1>0, <2>1 DEF Genuine
  <2>3. Pending(d)' = Pending(d) \cup {e}
    BY <2>1, <2>2 DEF Pending, TypeOK
  <2>4. \A c \in Dest \ {d} : Pending(c)' = Pending(c)
    BY <2>1 DEF Pending, TypeOK
  <2>5. [c \in Dest |-> Pending(c)]'
          = [[c \in Dest |-> Pending(c)] EXCEPT ![d] = @ \cup {e}]
    BY <2>3, <2>4
  <2> QED
    BY <2>1, <2>5 DEF outbox!Accept
<1>2. ASSUME NEW d \in Dest, ResponseOk(d) \/ FinishOk(d)
      PROVE  \E events \in SUBSET Event : outbox!Deliver(d, events)
  <2>1. PICK i \in 1..Len(flight[d]) :
          /\ flight' = [flight EXCEPT ![d] = Without(@, i)]
          /\ delivered' = [delivered EXCEPT ![d] = @ \cup flight[d][i].events]
    BY <1>2 DEF ResponseOk, FinishOk
  <2>2. i = 1 /\ flight[d] # <<>>
    BY <2>1, FlightEnds
  <2>3. PICK events : events = flight[d][1].events
    OBVIOUS
  <2>4. events \subseteq accepted[d] /\ events \in SUBSET Event
    BY <1>0, <2>2, <2>3 DEF Genuine, TypeOK
  <2>5. /\ UNCHANGED <<queued, active, accepted, forfeited, disk>>
        /\ delivered' = [delivered EXCEPT ![d] = @ \cup events]
    BY <1>2, <2>1, <2>2, <2>3 DEF ResponseOk, FinishOk, tables
  <2>6. Pending(d)' = Pending(d) \ events
    BY <2>5 DEF Pending, TypeOK
  <2>7. \A c \in Dest \ {d} : Pending(c)' = Pending(c)
    BY <2>5 DEF Pending, TypeOK
  <2>8. [c \in Dest |-> Pending(c)]'
          = [[c \in Dest |-> Pending(c)] EXCEPT ![d] = @ \ events]
    BY <2>6, <2>7
  <2>9. outbox!Deliver(d, events)
    BY <2>4, <2>5, <2>8 DEF outbox!Deliver
  <2> QED
    BY <2>4, <2>9
<1>give. ASSUME NEW lost \in [Dest -> SUBSET Event],
                UNCHANGED <<accepted, delivered, disk>>,
                \A c \in Dest :
                    /\ lost[c] \subseteq queued[c] \cup active[c]
                    /\ forfeited'[c] = forfeited[c] \cup lost[c]
                    /\ queued'[c] \cup lost[c] = queued[c] \cup lost[c]
                    /\ active'[c] \cup lost[c] = active[c] \cup lost[c],
                forfeited' \in [Dest -> SUBSET Event]
         PROVE  outbox!Forfeit(lost)
  <2>1. \A c \in Dest : lost[c] \subseteq accepted[c]
    BY <1>0, <1>give DEF Genuine
  <2>2. forfeited' = [c \in Dest |-> forfeited[c] \cup lost[c]]
    BY <1>give
  <2>3. \A c \in Dest : Pending(c)' = Pending(c) \ lost[c]
    <3> SUFFICES ASSUME NEW c \in Dest PROVE Pending(c)' = Pending(c) \ lost[c]
      OBVIOUS
    <3>1. delivered'[c] = delivered[c]
      BY <1>give
    <3> QED
      BY <1>give, <3>1 DEF Pending
  <2>4. [c \in Dest |-> Pending(c)]'
          = [c \in Dest |-> [b \in Dest |-> Pending(b)][c] \ lost[c]]
    BY <2>3
  <2> QED
    BY <1>give, <2>1, <2>2, <2>4 DEF outbox!Forfeit
<1>3. ASSUME NEW d \in Dest, CleanupActive(d)
      PROVE  \E lost \in [Dest -> SUBSET Event] : outbox!Forfeit(lost)
  <2>1. PICK lost : lost = [c \in Dest |-> IF c = d THEN active[d] ELSE {}]
    OBVIOUS
  <2>2. lost \in [Dest -> SUBSET Event]
    BY <2>1 DEF TypeOK
  <2>3. /\ UNCHANGED <<queued, accepted, delivered, disk>>
        /\ active' = [active EXCEPT ![d] = {}]
        /\ forfeited' = [forfeited EXCEPT ![d] = @ \cup active[d]]
    BY <1>3 DEF CleanupActive
  <2>4. forfeited' \in [Dest -> SUBSET Event]
    BY <2>3 DEF TypeOK
  <2>5. ASSUME NEW c \in Dest
        PROVE  /\ lost[c] \subseteq queued[c] \cup active[c]
               /\ forfeited'[c] = forfeited[c] \cup lost[c]
               /\ queued'[c] \cup lost[c] = queued[c] \cup lost[c]
               /\ active'[c] \cup lost[c] = active[c] \cup lost[c]
    BY <2>1, <2>3 DEF TypeOK
  <2> QED
    BY <2>2, <2>3, <2>4, <2>5, <1>give
<1>4. ASSUME NEW d \in Dest, CleanupQueued(d)
      PROVE  \E lost \in [Dest -> SUBSET Event] : outbox!Forfeit(lost)
  <2>1. PICK lost : lost = [c \in Dest |-> IF c = d THEN queued[d] ELSE {}]
    OBVIOUS
  <2>2. lost \in [Dest -> SUBSET Event]
    BY <2>1 DEF TypeOK
  <2>3. /\ UNCHANGED <<active, accepted, delivered, disk>>
        /\ queued' = [queued EXCEPT ![d] = {}]
        /\ forfeited' = [forfeited EXCEPT ![d] = @ \cup queued[d]]
    BY <1>4 DEF CleanupQueued
  <2>4. forfeited' \in [Dest -> SUBSET Event]
    BY <2>3 DEF TypeOK
  <2>5. ASSUME NEW c \in Dest
        PROVE  /\ lost[c] \subseteq queued[c] \cup active[c]
               /\ forfeited'[c] = forfeited[c] \cup lost[c]
               /\ queued'[c] \cup lost[c] = queued[c] \cup lost[c]
               /\ active'[c] \cup lost[c] = active[c] \cup lost[c]
    BY <2>1, <2>3 DEF TypeOK
  <2> QED
    BY <2>2, <2>3, <2>4, <2>5, <1>give
<1>5. ASSUME NEW w \in Worker, StartupBurst(w)
      PROVE  \E lost \in [Dest -> SUBSET Event] : outbox!Forfeit(lost)
  <2>1. PICK lost : lost = [c \in Dest |-> IF ShardId[c] = w
                                           THEN active[c] \ Kept(c) ELSE {}]
    OBVIOUS
  <2>2. lost \in [Dest -> SUBSET Event]
    BY <2>1 DEF TypeOK
  <2>3. UNCHANGED <<queued, accepted, delivered, disk>>
    BY <1>5 DEF StartupBurst
  <2>4. ASSUME NEW c \in Dest
        PROVE  /\ lost[c] \subseteq queued[c] \cup active[c]
               /\ forfeited'[c] = forfeited[c] \cup lost[c]
               /\ queued'[c] \cup lost[c] = queued[c] \cup lost[c]
               /\ active'[c] \cup lost[c] = active[c] \cup lost[c]
    <3>1. Kept(c) \subseteq active[c]
      BY KeptSubset
    <3>2. CASE ShardId[c] = w
      <4>1. /\ active'[c] = Kept(c)
            /\ forfeited'[c] = forfeited[c] \cup (active[c] \ Kept(c))
            /\ lost[c] = active[c] \ Kept(c)
        BY <1>5, <2>1, <3>2 DEF StartupBurst
      <4> QED
        BY <2>3, <3>1, <4>1
    <3>3. CASE ShardId[c] # w
      <4>1. active'[c] = active[c] /\ forfeited'[c] = forfeited[c] /\ lost[c] = {}
        BY <1>5, <2>1, <3>3 DEF StartupBurst
      <4> QED
        BY <2>3, <4>1
    <3> QED
      BY <3>2, <3>3
  <2>5. forfeited' \in [Dest -> SUBSET Event]
    BY <1>5, TypeNext DEF TypeOK
  <2> QED
    BY <2>2, <2>3, <2>4, <2>5, <1>give
<1>6. ASSUME NEW d \in Dest, MarkInsert(d) PROVE UNCHANGED outbox!vars
  <2>1. PICK e \in job[d].todo : active' = [active EXCEPT ![d] = @ \cup {e}]
    BY <1>6 DEF MarkInsert
  <2>2. UNCHANGED <<queued, accepted, delivered, forfeited, disk>>
    BY <1>6 DEF MarkInsert, history
  <2>3. e \in queued[d] \cup active[d] \cup delivered[d] \cup forfeited[d]
    BY <1>0, <2>1 DEF Genuine, Ledger, Tracked, Retained
  <2>4. Pending(d)' = Pending(d)
    BY <2>1, <2>2, <2>3 DEF Pending, TypeOK
  <2>5. \A c \in Dest \ {d} : Pending(c)' = Pending(c)
    BY <2>1, <2>2 DEF Pending, TypeOK
  <2> QED
    BY <2>2, <2>4, <2>5, OutboxStutter
<1>7. ASSUME NEW d \in Dest, MarkRemove(d) PROVE UNCHANGED outbox!vars
  <2>1. /\ UNCHANGED <<active, accepted, delivered, forfeited, disk>>
        /\ queued' = [queued EXCEPT ![d] = @ \ {job[d].cur}]
        /\ job[d].phase = "unqueue"
    BY <1>7 DEF MarkRemove, history
  <2>2. job[d].cur \in active[d] \cup forfeited[d]
    BY <1>0, <2>1 DEF Ledger, Tracked
  <2>3. Pending(d)' = Pending(d)
    BY <2>1, <2>2 DEF Pending, TypeOK
  <2>4. \A c \in Dest \ {d} : Pending(c)' = Pending(c)
    BY <2>1 DEF Pending, TypeOK
  <2> QED
    BY <2>1, <2>3, <2>4, OutboxStutter
<1>8. ASSUME NEW d \in Dest, DeleteActive(d) PROVE UNCHANGED outbox!vars
  <2>1. PICK e \in active[d] : active' = [active EXCEPT ![d] = @ \ {e}]
    BY <1>8 DEF DeleteActive
  <2>2. /\ UNCHANGED <<queued, accepted, delivered, forfeited, disk>>
        /\ job[d].phase \in {"ack", "finish"}
    BY <1>8 DEF DeleteActive, history
  <2>3. e \in delivered[d]
    BY <1>0, <2>1, <2>2 DEF Ledger, Tracked
  <2>4. Pending(d)' = Pending(d)
    BY <2>1, <2>2, <2>3 DEF Pending, TypeOK
  <2>5. \A c \in Dest \ {d} : Pending(c)' = Pending(c)
    BY <2>1, <2>2 DEF Pending, TypeOK
  <2> QED
    BY <2>2, <2>4, <2>5, OutboxStutter
<1>9. CASE Client
  <2>1. CASE \E d \in Dest, e \in Event : SendEvent(d, e)
    BY <1>1, <2>1 DEF outbox!Next
  <2>2. CASE \E d \in Dest : CleanupActive(d) \/ CleanupQueued(d)
    BY <1>3, <1>4, <2>2 DEF outbox!Next
  <2>3. CASE NextCount \/ \E d \in Dest : FlushServer(d)
    BY <1>same, <2>3 DEF NextCount, FlushServer, tables, memory, history
  <2> QED
    BY <1>9, <2>1, <2>2, <2>3 DEF Client
<1>10. CASE \E w \in Worker : StartupBurst(w)
  BY <1>5, <1>10 DEF outbox!Next
<1>11. CASE \E w \in Worker : HandleRequest(w)
  BY <1>same, <1>11 DEF HandleRequest, RequestRefused, RequestRetry,
                        RequestFresh, tables, history
<1>12. CASE \E d \in Dest : HandlerStep(d)
  BY <1>6, <1>7, <1>8, <1>same, <1>12
     DEF HandlerStep, Compose, Dequeue, FinishDeleted, tables, history
<1>13. CASE \E d \in Dest : ResponseOk(d) \/ FinishOk(d)
  BY <1>2, <1>13 DEF outbox!Next
<1>14. CASE \E d \in Dest : ResponseErr(d) \/ FinishErr(d) \/ BackoffElapsed(d)
  BY <1>same, <1>14
     DEF ResponseErr, FinishErr, BackoffElapsed, tables, history
<1>15. CASE Interrupt
  BY <1>same, <1>15 DEF Interrupt, tables, history
<1>17. CASE FlushLog \/ Exit
  <2>1. /\ disk' = Saved
        /\ UNCHANGED <<queued, active, accepted, delivered, forfeited>>
    BY <1>17 DEF FlushLog, Exit, tables, history
  <2>2. disk'.accepted = accepted
    BY <2>1 DEF Saved
  <2>3. \A d \in Dest : Pending(d)' = Pending(d)
    BY <2>1 DEF Pending
  <2>4. [d \in Dest |-> Pending(d)]' = [d \in Dest |-> Pending(d)]
    BY <2>3
  <2>5. outbox!Settle
    BY <2>1, <2>2, <2>4 DEF outbox!Settle
  <2> QED
    BY <2>5 DEF outbox!Next
<1>18. CASE Crash
  <2>1. /\ accepted' = disk.accepted
        /\ UNCHANGED disk
        /\ delivered' = [d \in Dest |-> delivered[d] \cap disk.accepted[d]]
        /\ forfeited' = [d \in Dest |-> forfeited[d] \cap disk.accepted[d]]
        /\ queued' = disk.queued /\ active' = disk.active
    BY <1>18 DEF Crash
  <2>2. ASSUME NEW d \in Dest PROVE Pending(d)' = Pending(d) \cap disk.accepted[d]
    <3>1. /\ queued[d] \cup active[d] \subseteq accepted[d]
          /\ accepted[d] \subseteq
                queued[d] \cup active[d] \cup delivered[d] \cup forfeited[d]
      BY <1>0 DEF Genuine, Ledger, Retained
    <3>2. /\ disk.accepted[d] \subseteq disk.queued[d] \cup disk.active[d]
                                       \cup delivered[d] \cup forfeited[d]
          /\ disk.queued[d] \cup disk.active[d] \subseteq disk.accepted[d]
          /\ disk.accepted[d] \subseteq accepted[d]
      BY DEF Stored, StoredGenuine
    <3>3. Pending(d)' = (disk.queued[d] \cup disk.active[d])
                           \ (delivered'[d] \cup forfeited'[d])
      BY <2>1 DEF Pending
    <3>4. /\ delivered'[d] = delivered[d] \cap disk.accepted[d]
          /\ forfeited'[d] = forfeited[d] \cap disk.accepted[d]
      BY <2>1
    <3> QED
      BY <3>1, <3>2, <3>3, <3>4 DEF Pending
  <2>3. [d \in Dest |-> Pending(d)]'
          = [d \in Dest |-> [c \in Dest |-> Pending(c)][d] \cap disk.accepted[d]]
    BY <2>2
  <2>4. outbox!Undo
    BY <2>1, <2>3 DEF outbox!Undo
  <2> QED
    BY <2>4 DEF outbox!Next
<1>16. CASE UNCHANGED vars
  BY <1>same, <1>16 DEF vars, tables, history
<1> QED
  BY <1>9, <1>10, <1>11, <1>12, <1>13, <1>14, <1>15, <1>16,
     <1>17, <1>18 DEF Next

\* What was flushed stays accepted until the next flush.
LEMMA StoredGenuineNext ==
    ASSUME TypeOK, Accounted, StoredGenuine, [Next]_vars
    PROVE  StoredGenuine'
<1>1. CASE FlushLog \/ Exit
  <2>1. disk' = Saved /\ UNCHANGED accepted
    BY <1>1 DEF FlushLog, Exit, history
  <2>2. /\ disk'.accepted = accepted /\ disk'.queued = queued
        /\ disk'.active = active
    BY <2>1 DEF Saved
  <2> QED
    BY <2>1, <2>2 DEF StoredGenuine, Accounted, Genuine
<1>2. CASE Crash
  BY <1>2 DEF Crash, StoredGenuine
<1>3. CASE ~FlushLog /\ ~Exit /\ ~Crash
  BY <1>3, Growing DEF StoredGenuine
<1> QED
  BY <1>1, <1>2, <1>3

\* With the startup burst enabled, the service implements Outbox: what it
\* accepts stays pending until a transaction with it succeeded or it was given
\* up; no table write, failure, retry or shutdown changes what is pending, and a
\* crash takes back what was accepted after the last flush, and nothing else.
THEOREM SendingImplementsOutbox ==
    ASSUME StartupNetburst
    PROVE  Spec => ImplementsOutbox
<1>1. Init => outbox!Init
  BY DEF Init, outbox!Init, Pending, Saved
<1>2. Init => Accounted /\ StoredGenuine
  BY SendingAssumption
     DEF Init, Accounted, GenuineCalls, Genuine, Rest, StoredGenuine, Saved
<1>3. TypeOK /\ Routed /\ Coupled /\ Ledgers /\ Stored /\ Accounted /\ StoredGenuine
      /\ [Next]_vars
        => /\ Routed' /\ Coupled' /\ Ledgers' /\ Stored'
           /\ Accounted' /\ StoredGenuine'
           /\ [outbox!Next]_(outbox!vars)
  <2> SUFFICES ASSUME TypeOK, Routed, Coupled, Ledgers, Stored, Accounted,
                      StoredGenuine, [Next]_vars
               PROVE  /\ Routed' /\ Coupled' /\ Ledgers' /\ Stored'
                      /\ Accounted' /\ StoredGenuine'
                      /\ [outbox!Next]_(outbox!vars)
    OBVIOUS
  <2>1. Routed' /\ Coupled' /\ Ledgers' /\ Stored'
    BY RoutedNext, CoupledNext, LedgersNext
  <2>2. GenuineCalls' /\ \A d \in Dest : Genuine(d)'
    BY CallsNext, GenuineNext DEF Accounted
  <2>3. Accounted'
    BY <2>2 DEF Accounted
  <2>4. StoredGenuine'
    BY StoredGenuineNext
  <2> QED
    BY <2>1, <2>3, <2>4, OutboxStep
<1> QED
  BY <1>1, <1>2, <1>3, CoupledInit, LedgersInit, StoredInit, TypeCorrect, PTL
     DEF Spec, ImplementsOutbox, outbox!Spec

=============================================================================
