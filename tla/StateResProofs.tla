--------------------------- MODULE StateResProofs ---------------------------
(***************************************************************************)
(* What state resolution guarantees for every room: for all forks, event   *)
(* graphs, versions, clocks and orders of the fetches.  Its first sort     *)
(* keeps the order of authorisation; its maps hold events of their slots;  *)
(* walks that run one after the other find the conflicted subgraph; who    *)
(* has lost the power on one fork does not win with the other; the result  *)
(* is what the definition makes of the full conflicted set.                *)
(***************************************************************************)
EXTENDS StateRes, NatExtremes, SequenceTheorems

\* Events are authorised by earlier ones only, and the forks hold known events.
DagOK ==
    /\ \E S : dag \in Seq(S)
    /\ \A i \in DOMAIN dag : dag[i].auth \subseteq 1..(i - 1)
    /\ \A f \in Fork : \A s \in DOMAIN states[f] : states[f][s] \in DOMAIN dag

\* While events are sorted, every event of the graph refers to just those of its
\* auth events that are still in it, and no sorted event has one there.
SortOK ==
    /\ phase \in Phases
    /\ phase \in {"trunk", "fork", "other", "walk"} => todo = <<>>
    /\ phase # "sort" => DOMAIN graph = {}
    /\ phase = "sort" =>
          /\ DOMAIN graph \subseteq DOMAIN dag
          /\ \A j \in DOMAIN graph : graph[j] = dag[j].auth \cap DOMAIN graph
          /\ \A n \in 1..Len(todo) : dag[todo[n]].auth \cap DOMAIN graph = {}
    /\ phase \in {"sort", "power"} => todo \in Seq(DOMAIN dag)

Inv == DagOK /\ SortOK /\ PowerOrdered

-----------------------------------------------------------------------------

\* The room is as it was.
LEMMA RoomKept == ASSUME DagOK, UNCHANGED room PROVE DagOK'
BY DEF DagOK, room

\* A new event is authorised by events of its fork.
LEMMA Made ==
    ASSUME DagOK, NEW t, NEW fs \in SUBSET Fork, fs # {}, NEW ts, NEW prev,
           Make(t, fs, ts, prev)
    PROVE  DagOK'
<1> DEFINE st == states[CHOOSE f \in fs : TRUE]
           e == NewEvent(t, st, ts, prev)
<1>1. /\ dag' = Append(dag, e)
      /\ states' = [f \in Fork |->
            IF f \in fs THEN Put(states[f], SlotOf(e), Len(dag) + 1)
            ELSE states[f]]
  BY DEF Make
<1>2. PICK S : dag \in Seq(S)
  BY DEF DagOK
<1>3. \A s \in DOMAIN st : st[s] \in DOMAIN dag
  BY DEF DagOK
<1>4. e.auth \subseteq DOMAIN dag
  BY <1>3 DEF NewEvent
<1> HIDE DEF e, st
<1>5. DOMAIN dag = 1..Len(dag) /\ Len(dag) \in Nat
  BY <1>2
<1>6. /\ dag' \in Seq(S \cup {e})
      /\ DOMAIN dag' = 1..(Len(dag) + 1)
      /\ \A i \in DOMAIN dag : dag'[i] = dag[i]
      /\ dag'[Len(dag) + 1] = e
  <2>1. dag \in Seq(S \cup {e})
    BY <1>2
  <2> QED BY <1>1, <2>1, <1>5
<1>7. \A i \in DOMAIN dag' : dag'[i].auth \subseteq 1..(i - 1)
  BY <1>4, <1>5, <1>6 DEF DagOK
<1>8. ASSUME NEW f \in Fork, NEW s \in DOMAIN states'[f]
      PROVE  states'[f][s] \in DOMAIN dag'
  BY <1>1, <1>5, <1>6 DEF DagOK, Put
<1> QED BY <1>6, <1>7, <1>8 DEF DagOK

\* The graph of the power events is closed under their auth events in the set.
LEMMA ReachedClosed ==
    ASSUME DagOK, NEW set
    PROVE  /\ Reached(set) \subseteq set \cap DOMAIN dag
           /\ \A i \in Reached(set) : dag[i].auth \cap set = dag[i].auth \cap Reached(set)
<1> DEFINE powers == {i \in set \cap DOMAIN dag : IsPowerEvent(dag[i])}
           closed == {c \in SUBSET set :
                         /\ powers \subseteq c
                         /\ \A i \in c : dag[i].auth \cap set \subseteq c}
<1>1. Reached(set) = {i \in set : \A c \in closed : i \in c}
  BY DEF Reached
<1>2. set \cap DOMAIN dag \in closed
  <2>1. \A i \in DOMAIN dag : dag[i].auth \subseteq DOMAIN dag
    BY DEF DagOK
  <2> QED BY <2>1
<1>3. ASSUME NEW i \in Reached(set), NEW a \in dag[i].auth \cap set
      PROVE  a \in Reached(set)
  BY <1>1
<1> QED BY <1>1, <1>2, <1>3

\* A graph without an event that refers to no other is empty: the oldest event
\* of it would be one.
LEMMA HeapEmpty ==
    ASSUME DagOK, SortOK, phase = "sort", \A i \in DOMAIN graph : graph[i] # {}
    PROVE  DOMAIN graph = {}
<1> SUFFICES ASSUME DOMAIN graph # {} PROVE FALSE
  OBVIOUS
<1>1. DOMAIN dag = 1..Len(dag) /\ Len(dag) \in Nat
  BY DEF DagOK
<1>2. DOMAIN graph \in SUBSET (0..Len(dag))
  BY <1>1 DEF SortOK
<1>3. PICK k \in DOMAIN graph : \A j \in DOMAIN graph : k <= j
  BY <1>1, <1>2, SmallestExists
<1>4. PICK a : a \in graph[k]
  OBVIOUS
<1>5. a \in DOMAIN graph /\ a \in 1..(k - 1)
  <2>1. graph[k] = dag[k].auth \cap DOMAIN graph /\ k \in DOMAIN dag
    BY DEF SortOK
  <2>2. dag[k].auth \subseteq 1..(k - 1)
    BY <2>1 DEF DagOK
  <2> QED BY <1>4, <2>1, <2>2
<1> QED BY <1>1, <1>2, <1>3, <1>5

-----------------------------------------------------------------------------

\* Every step keeps the events and the states in order.
LEMMA DagStep == Inv /\ [Next]_vars => DagOK'
<1> SUFFICES ASSUME Inv, [Next]_vars PROVE DagOK'
  OBVIOUS
<1>0. DagOK
  BY DEF Inv
<1>1. CASE Extend
  BY <1>0, <1>1, Made DEF Extend, Fork
<1>2. ASSUME NEW n \in DOMAIN Menu, Diverge(Menu[n]) PROVE DagOK'
  BY <1>0, <1>2, Made DEF Diverge, Fork
<1>3. CASE Other
  BY <1>0, <1>3 DEF Other, DagOK
<1>4. CASE Split
  BY <1>0, <1>4, RoomKept DEF Split
<1>5. ASSUME NEW c \in Running, Walk(c) \/ WalkEnds(c) PROVE DagOK'
  BY <1>0, <1>5, RoomKept DEF Walk, WalkEnds
<1>6. CASE Collect
  BY <1>0, <1>6, RoomKept DEF Collect
<1>7. CASE PopSmallest
  BY <1>0, <1>7, RoomKept DEF PopSmallest
<1>8. CASE Sorted \/ SortRemaining \/ Finish
  BY <1>0, <1>8, RoomKept DEF Sorted, SortRemaining, Finish
<1>9. CASE AuthCheck
  BY <1>0, <1>9, RoomKept DEF AuthCheck
<1>10. CASE UNCHANGED vars
  BY <1>0, <1>10, RoomKept DEF vars
<1> QED BY <1>1, <1>2, <1>3, <1>4, <1>5, <1>6, <1>7, <1>8, <1>9, <1>10 DEF Next, Done

\* Every step keeps what is known of the graph and the sorted events.
LEMMA SortStep == Inv /\ [Next]_vars => SortOK' /\ PowerOrdered'
<1> SUFFICES ASSUME Inv, [Next]_vars PROVE SortOK' /\ PowerOrdered'
  OBVIOUS
<1>0. DagOK /\ SortOK /\ PowerOrdered
  BY DEF Inv
<1>1. CASE Extend \/ Other \/ Split
  BY <1>0, <1>1 DEF Extend, Other, Split, SortOK, PowerOrdered, Phases
<1>2. ASSUME NEW n \in DOMAIN Menu, Diverge(Menu[n])
      PROVE  SortOK' /\ PowerOrdered'
  BY <1>0, <1>2 DEF Diverge, SortOK, PowerOrdered, Phases
<1>3. ASSUME UNCHANGED <<room, phase, graph, todo>>
      PROVE  SortOK' /\ PowerOrdered'
  BY <1>0, <1>3 DEF room, SortOK, PowerOrdered
<1>4. ASSUME NEW c \in Running, Walk(c) \/ WalkEnds(c)
      PROVE  SortOK' /\ PowerOrdered'
  BY <1>3, <1>4 DEF Walk, WalkEnds
<1>5. CASE Collect
  <2>1. /\ phase = "walk" /\ phase' = "sort" /\ UNCHANGED <<room, todo>>
        /\ graph' = [i \in Reached(full') |-> dag[i].auth \cap full']
    BY <1>5 DEF Collect
  <2>2. /\ Reached(full') \subseteq DOMAIN dag
        /\ \A i \in Reached(full') :
              dag[i].auth \cap full' = dag[i].auth \cap Reached(full')
    BY <1>0, ReachedClosed
  <2>3. todo = <<>> /\ todo' = <<>>
    BY <1>0, <2>1 DEF SortOK
  <2> HIDE DEF Reached
  <2>4. DOMAIN graph' = Reached(full')
    BY <2>1
  <2>5. \A j \in DOMAIN graph' : graph'[j] = dag'[j].auth \cap DOMAIN graph'
    BY <2>1, <2>2, <2>4 DEF room
  <2>6. DOMAIN graph' \subseteq DOMAIN dag'
    BY <2>1, <2>2, <2>4 DEF room
  <2> QED BY <2>1, <2>3, <2>5, <2>6 DEF SortOK, PowerOrdered, Phases
<1>6. CASE PopSmallest
  <2>1. PICK i \in DOMAIN graph :
           /\ graph[i] = {} /\ phase = "sort"
           /\ graph' = [j \in DOMAIN graph \ {i} |-> graph[j] \ {i}]
           /\ todo' = Append(todo, i)
           /\ UNCHANGED <<room, phase>>
    BY <1>6 DEF PopSmallest
  <2>2. UNCHANGED dag
    BY <2>1 DEF room
  <2>3. /\ DOMAIN graph \subseteq DOMAIN dag
        /\ \A j \in DOMAIN graph : graph[j] = dag[j].auth \cap DOMAIN graph
        /\ \A n \in 1..Len(todo) : dag[todo[n]].auth \cap DOMAIN graph = {}
        /\ todo \in Seq(DOMAIN dag)
    BY <1>0, <2>1 DEF SortOK
  <2>4. /\ todo' \in Seq(DOMAIN dag)
        /\ Len(todo') = Len(todo) + 1 /\ Len(todo) \in Nat
        /\ \A n \in 1..Len(todo) : todo'[n] = todo[n]
        /\ todo'[Len(todo) + 1] = i
    BY <2>1, <2>3
  <2>5. DOMAIN graph' = DOMAIN graph \ {i}
    BY <2>1
  <2>6. \A j \in DOMAIN graph' : graph'[j] = dag[j].auth \cap DOMAIN graph'
    BY <2>1, <2>3, <2>5
  <2>7. \A n \in 1..Len(todo') : dag[todo'[n]].auth \cap DOMAIN graph' = {}
    <3> SUFFICES ASSUME NEW n \in 1..Len(todo')
                 PROVE  dag[todo'[n]].auth \cap DOMAIN graph' = {}
      OBVIOUS
    <3>1. CASE n \in 1..Len(todo)
      BY <2>3, <2>4, <2>5, <3>1
    <3>2. CASE n = Len(todo) + 1
      BY <2>1, <2>3, <2>4, <2>5, <3>2
    <3> QED BY <2>4, <3>1, <3>2
  <2>8. ASSUME NEW m \in 1..Len(todo'), NEW n \in 1..Len(todo'), m < n
        PROVE  todo'[n] \notin dag[todo'[m]].auth
    <3>1. m \in 1..Len(todo)
      BY <2>4, <2>8
    <3>2. CASE n \in 1..Len(todo)
      BY <1>0, <2>1, <2>4, <2>8, <3>1, <3>2 DEF PowerOrdered
    <3>3. CASE n = Len(todo) + 1
      BY <2>1, <2>3, <2>4, <3>1, <3>3
    <3> QED BY <2>4, <3>2, <3>3
  <2>9. PowerOrdered'
    BY <2>2, <2>8 DEF PowerOrdered
  <2> QED BY <2>1, <2>2, <2>3, <2>4, <2>5, <2>6, <2>7, <2>9 DEF SortOK, Phases
<1>7. CASE Sorted
  <2>1. DOMAIN graph = {}
    BY <1>0, <1>7, HeapEmpty DEF Sorted
  <2> QED BY <1>0, <1>7, <2>1 DEF Sorted, SortOK, PowerOrdered, Phases, room
<1>8. CASE AuthCheck
  <2>1. /\ todo # <<>> /\ todo' = Tail(todo) /\ phase \in {"power", "rest"}
        /\ UNCHANGED <<dag, phase, graph>>
    BY <1>8 DEF AuthCheck, room
  <2>2. CASE phase = "rest"
    BY <1>0, <2>1, <2>2 DEF SortOK, PowerOrdered
  <2>3. CASE phase = "power"
    <3>1. todo \in Seq(DOMAIN dag)
      BY <1>0, <2>3 DEF SortOK
    <3>2. /\ todo' \in Seq(DOMAIN dag) /\ Len(todo') = Len(todo) - 1
          /\ Len(todo) \in Nat
          /\ \A n \in 1..Len(todo') : todo'[n] = todo[n + 1]
      BY <2>1, <3>1
    <3>3. ASSUME NEW m \in 1..Len(todo'), NEW n \in 1..Len(todo'), m < n
          PROVE  todo'[n] \notin dag[todo'[m]].auth
      <4>1. m + 1 \in 1..Len(todo) /\ n + 1 \in 1..Len(todo) /\ m + 1 < n + 1
        BY <3>2, <3>3
      <4>2. todo[n + 1] \notin dag[todo[m + 1]].auth
        BY <1>0, <2>3, <4>1 DEF PowerOrdered
      <4> QED BY <3>2, <4>2
    <3> QED BY <1>0, <2>1, <2>3, <3>2, <3>3 DEF SortOK, PowerOrdered
  <2> QED BY <2>1, <2>2, <2>3
<1>9. CASE SortRemaining \/ Finish
  BY <1>0, <1>9 DEF SortRemaining, Finish, SortOK, PowerOrdered, Phases
<1>10. CASE UNCHANGED vars
  BY <1>3, <1>10 DEF vars
<1> QED BY <1>1, <1>2, <1>4, <1>5, <1>6, <1>7, <1>8, <1>9, <1>10 DEF Next, Done

\* The invariant holds always.
LEMMA InvAlways == Spec => []Inv
<1>1. Init => Inv
  <2> SUFFICES ASSUME Init PROVE Inv
    OBVIOUS
  <2>1. DagOK
    <3>1. dag \in Seq({}) /\ DOMAIN dag = {}
      BY DEF Init
    <3>2. \A f \in Fork : DOMAIN states[f] = {}
      BY DEF Init, NoEntries
    <3> QED BY <3>1, <3>2 DEF DagOK
  <2>2. SortOK /\ PowerOrdered
    BY DEF Init, SortOK, PowerOrdered, Phases
  <2> QED BY <2>1, <2>2 DEF Inv
<1>2. Inv /\ [Next]_vars => Inv'
  BY DagStep, SortStep DEF Inv
<1> QED BY <1>1, <1>2, PTL DEF Spec

\* In every room the power events are checked in an order in which none precedes
\* an event that authorises it, whatever the walks of the conflicted subgraph
\* have found.
THEOREM AuthEventsFirst == Spec => []PowerOrdered
<1>1. Inv => PowerOrdered
  BY DEF Inv
<1> QED BY <1>1, InvAlways, PTL

\* kahn_sort loses no event: its heap is empty only when its graph is.
THEOREM SortIsComplete == Spec => []AllSorted
<1>1. Inv => AllSorted
  BY DEF Inv, SortOK, AllSorted
<1> QED BY <1>1, InvAlways, PTL

-----------------------------------------------------------------------------
(* Events and states *)

\* The kinds of events that authorise others, and the events of these kinds
AuthKinds == {"create", "rules", "member", "power"}

Authorisers == {i \in DOMAIN dag : dag[i].type \in AuthKinds}

\* The state maps a slot to an event of that slot.
Placed(st) == \A s \in DOMAIN st : st[s] \in DOMAIN dag /\ SlotOf(dag[st[s]]) = s

\* The auth chain of an event is the smallest set that has its auth events and
\* those of its members.
ChainOK(i) ==
    /\ dag[i].chain = dag[i].auth \cup UNION {dag[a].chain : a \in dag[i].auth}
    /\ dag[i].chain \subseteq 1..(i - 1)
    /\ \A S \in SUBSET DOMAIN dag :
          /\ dag[i].auth \subseteq S
          /\ \A a \in S : dag[a].auth \subseteq S
          => dag[i].chain \subseteq S

EventsOK ==
    /\ clock \in [Fork -> Nat] /\ split \in Nat
    /\ \A f \in Fork : Placed(states[f])
    /\ \A i \in DOMAIN dag : dag[i].auth \subseteq Authorisers /\ dag[i].ts \in Int
    /\ \A i \in DOMAIN dag : ChainOK(i)

\* Only events of the four kinds are looked up to authorise another.
LEMMA AuthTypesKinds ==
    ASSUME NEW t, NEW b, NEW s \in AuthTypes(t, b), NEW i, SlotOf(dag[i]) = s
    PROVE  dag[i].type \in AuthKinds
<1>1. \E u : s \in {CreateSlot, PowerSlot, RulesSlot, MemberSlot(u)}
  BY DEF AuthTypes
<1> QED
  BY <1>1 DEF SlotOf, CreateSlot, PowerSlot, RulesSlot, MemberSlot, AuthKinds

\* The event e, made of t on the forks fs, is the last one now; the others are as
\* they were, and its auth events are events of the fork.
IsNew(e, t, fs, ts, prev) ==
    /\ DOMAIN dag = 1..Len(dag) /\ Len(dag) \in Nat
    /\ DOMAIN dag' = 1..(Len(dag) + 1)
    /\ \A i \in DOMAIN dag : dag'[i] = dag[i]
    /\ dag'[Len(dag) + 1] = e
    /\ states' = [f \in Fork |->
          IF f \in fs THEN Put(states[f], SlotOf(e), Len(dag) + 1)
          ELSE states[f]]
    /\ e.auth \subseteq Authorisers
    /\ e.chain = e.auth \cup UNION {dag[a].chain : a \in e.auth}
    /\ e.type = t.type /\ e.key = t.key /\ e.sender = t.sender
    /\ e.content = Content(t) /\ e.ts = ts /\ e.prev = prev
    /\ CreateAllowed(e)
    /\ \E st : /\ Allowed(e, st, 1, rules.hydra)
               /\ DOMAIN st \subseteq DOMAIN states[CHOOSE f \in fs : TRUE]

\* An event that is made is a new one.
LEMMA MadeOne ==
    ASSUME DagOK, EventsOK, NEW t, NEW fs \in SUBSET Fork, fs # {}, NEW ts, NEW prev,
           Make(t, fs, ts, prev)
    PROVE  \E e : IsNew(e, t, fs, ts, prev)
<1>1. PICK st : st = states[CHOOSE f \in fs : TRUE]
  OBVIOUS
<1>2. PICK e : e = NewEvent(t, st, ts, prev)
  OBVIOUS
<1>3. /\ dag' = Append(dag, e)
      /\ states' = [f \in Fork |->
            IF f \in fs THEN Put(states[f], SlotOf(e), Len(dag) + 1)
            ELSE states[f]]
      /\ CreateAllowed(e)
      /\ Allowed(e, Events(Restrict(st, AuthTypes(t, TRUE) \cap DOMAIN st)),
                 1, rules.hydra)
  BY <1>1, <1>2 DEF Make
<1>4. PICK S : dag \in Seq(S)
  BY DEF DagOK
<1>5. DOMAIN dag = 1..Len(dag) /\ Len(dag) \in Nat
  BY <1>4
<1>6. /\ DOMAIN dag' = 1..(Len(dag) + 1)
      /\ \A i \in DOMAIN dag : dag'[i] = dag[i]
      /\ dag'[Len(dag) + 1] = e
  <2>1. dag \in Seq(S \cup {e})
    BY <1>4
  <2> QED BY <1>3, <1>5, <2>1
<1>7. Placed(st)
  BY <1>1 DEF EventsOK
<1>8. e.auth = {st[s] : s \in AuthTypes(t, ~rules.hydra) \cap DOMAIN st}
  BY <1>2 DEF NewEvent
<1>9. e.auth \subseteq Authorisers
  <2> SUFFICES ASSUME NEW a \in e.auth PROVE a \in Authorisers
    OBVIOUS
  <2>1. PICK s \in AuthTypes(t, ~rules.hydra) \cap DOMAIN st : a = st[s]
    BY <1>8
  <2>2. a \in DOMAIN dag /\ SlotOf(dag[a]) = s
    BY <1>7, <2>1 DEF Placed
  <2>3. dag[a].type \in AuthKinds
    BY <2>1, <2>2, AuthTypesKinds
  <2> QED BY <2>2, <2>3 DEF Authorisers
<1>10. /\ e.chain = e.auth \cup UNION {dag[a].chain : a \in e.auth}
       /\ e.type = t.type /\ e.key = t.key /\ e.sender = t.sender
       /\ e.content = Content(t) /\ e.ts = ts /\ e.prev = prev
  BY <1>2 DEF NewEvent
<1>11. DOMAIN Events(Restrict(st, AuthTypes(t, TRUE) \cap DOMAIN st)) \subseteq DOMAIN st
  BY DEF Events, Restrict
<1> QED BY <1>1, <1>3, <1>5, <1>6, <1>9, <1>10, <1>11 DEF IsNew

\* A state stays placed when the room grows.
LEMMA PlacedGrows ==
    ASSUME NEW st, Placed(st), DOMAIN dag \subseteq DOMAIN dag',
           \A i \in DOMAIN dag : dag'[i] = dag[i]
    PROVE  Placed(st)'
BY DEF Placed

\* A new event keeps the room in order.
LEMMA MadeEvents ==
    ASSUME DagOK, EventsOK, NEW t, NEW fs \in SUBSET Fork, fs # {}, NEW ts \in Int,
           NEW prev, Make(t, fs, ts, prev), UNCHANGED <<clock, split>>
    PROVE  EventsOK'
<1>0. PICK e : IsNew(e, t, fs, ts, prev)
  BY MadeOne
<1>1. /\ DOMAIN dag = 1..Len(dag) /\ Len(dag) \in Nat
      /\ DOMAIN dag' = 1..(Len(dag) + 1)
      /\ \A i \in DOMAIN dag : dag'[i] = dag[i]
      /\ dag'[Len(dag) + 1] = e
      /\ states' = [f \in Fork |->
            IF f \in fs THEN Put(states[f], SlotOf(e), Len(dag) + 1)
            ELSE states[f]]
      /\ e.auth \subseteq Authorisers
      /\ e.chain = e.auth \cup UNION {dag[a].chain : a \in e.auth}
      /\ e.ts = ts
  BY <1>0 DEF IsNew
<1>2. PICK n : n = Len(dag) + 1
  OBVIOUS
<1>3. /\ n \in Nat /\ n \notin DOMAIN dag /\ DOMAIN dag' = DOMAIN dag \cup {n}
      /\ dag'[n] = e /\ \A i \in DOMAIN dag : dag'[i] = dag[i]
      /\ DOMAIN dag = 1..(n - 1)
  BY <1>1, <1>2
<1>4. ASSUME NEW f \in Fork PROVE Placed(states[f])'
  <2>1. Placed(states[f])
    BY DEF EventsOK
  <2>2. CASE f \in fs
    <3>1. states'[f] = Put(states[f], SlotOf(e), n)
      BY <1>1, <1>2, <2>2
    <3> QED BY <1>3, <2>1, <3>1 DEF Placed, Put
  <2>3. CASE f \notin fs
    <3>1. states'[f] = states[f]
      BY <1>1, <2>3
    <3> QED BY <1>3, <2>1, <3>1 DEF Placed
  <2> QED BY <2>2, <2>3
<1>5. Authorisers \subseteq Authorisers'
  BY <1>3 DEF Authorisers
<1>6. \A i \in DOMAIN dag' : dag'[i].auth \subseteq Authorisers' /\ dag'[i].ts \in Int
  BY <1>1, <1>3, <1>5 DEF EventsOK
<1>7. \A i \in DOMAIN dag : dag[i].auth \subseteq DOMAIN dag /\ dag[i].auth \subseteq 1..(i - 1)
  BY DEF EventsOK, Authorisers, DagOK
<1>8. e.auth \subseteq DOMAIN dag
  BY <1>1 DEF Authorisers
<1>9. ASSUME NEW S \in SUBSET DOMAIN dag', \A a \in S : dag'[a].auth \subseteq S
      PROVE  \A a \in S \cap DOMAIN dag : dag[a].auth \subseteq S \cap DOMAIN dag
  BY <1>3, <1>7, <1>9
<1>10. ASSUME NEW i \in DOMAIN dag PROVE ChainOK(i)'
  <2>1. ChainOK(i)
    BY DEF EventsOK
  <2>2. dag'[i] = dag[i] /\ \A a \in dag[i].auth : dag'[a] = dag[a]
    BY <1>3, <1>7
  <2>3. UNION {dag'[a].chain : a \in dag'[i].auth} = UNION {dag[a].chain : a \in dag[i].auth}
    BY <2>2
  <2>4. ASSUME NEW S \in SUBSET DOMAIN dag', dag'[i].auth \subseteq S,
               \A a \in S : dag'[a].auth \subseteq S
        PROVE  dag'[i].chain \subseteq S
    <3>1. PICK R : R = S \cap DOMAIN dag
      OBVIOUS
    <3>2. R \in SUBSET DOMAIN dag /\ dag[i].auth \subseteq R
      BY <1>7, <2>2, <2>4, <3>1
    <3>3. \A a \in R : dag[a].auth \subseteq R
      BY <1>9, <2>4, <3>1
    <3>4. dag[i].chain \subseteq R
      BY <2>1, <3>2, <3>3 DEF ChainOK
    <3> QED BY <2>2, <3>1, <3>4
  <2> QED BY <2>1, <2>2, <2>3, <2>4 DEF ChainOK
<1>11. ChainOK(n)'
  <2>1. \A a \in e.auth : dag'[a] = dag[a] /\ ChainOK(a) /\ a \in 1..(n - 1)
    BY <1>3, <1>8 DEF EventsOK
  <2>2. dag'[n].chain = dag'[n].auth \cup UNION {dag'[a].chain : a \in dag'[n].auth}
    BY <1>1, <1>3, <2>1
  <2>3. dag'[n].chain \subseteq 1..(n - 1)
    <3> SUFFICES ASSUME NEW b \in e.chain PROVE b \in 1..(n - 1)
      BY <1>3
    <3>1. CASE b \in e.auth
      BY <2>1, <3>1
    <3>2. ASSUME NEW a \in e.auth, b \in dag[a].chain PROVE b \in 1..(n - 1)
      <4>1. dag[a].chain \subseteq 1..(a - 1) /\ a \in 1..(n - 1)
        BY <2>1 DEF ChainOK
      <4> QED BY <1>3, <3>2, <4>1
    <3> QED BY <1>1, <3>1, <3>2
  <2>4. ASSUME NEW S \in SUBSET DOMAIN dag', e.auth \subseteq S,
               \A a \in S : dag'[a].auth \subseteq S
        PROVE  e.chain \subseteq S
    <3>1. PICK R : R = S \cap DOMAIN dag
      OBVIOUS
    <3>2. R \in SUBSET DOMAIN dag /\ e.auth \subseteq R /\ \A a \in R : dag[a].auth \subseteq R
      BY <1>8, <1>9, <2>4, <3>1
    <3>3. \A a \in e.auth : dag[a].chain \subseteq R
      BY <2>1, <3>2 DEF ChainOK
    <3> QED BY <1>1, <3>1, <3>2, <3>3
  <2> QED BY <1>3, <2>2, <2>3, <2>4 DEF ChainOK
<1>12. \A i \in DOMAIN dag' : ChainOK(i)'
  BY <1>3, <1>10, <1>11
<1> QED BY <1>4, <1>6, <1>12 DEF EventsOK

\* Every step keeps the events and the states of the forks in order.
LEMMA EventsStep == Inv /\ EventsOK /\ [Next]_vars => EventsOK'
<1> SUFFICES ASSUME Inv, EventsOK, [Next]_vars PROVE EventsOK'
  OBVIOUS
<1>0. DagOK
  BY DEF Inv
<1>1. Len(dag) \in Nat /\ Len(Trunk) \in Nat /\ split \in Nat
      /\ clock[1] \in Nat /\ clock[2] \in Nat
  BY <1>0, StateResAssumption DEF DagOK, EventsOK, Fork
<1>2. ASSUME UNCHANGED <<clock, dag, states>>, split' \in Nat PROVE EventsOK'
  BY <1>2 DEF EventsOK, Placed, ChainOK, Authorisers
<1>3. CASE Extend
  <2>1. Make(Trunk[Len(dag) + 1], Fork, 0, Len(dag)) /\ UNCHANGED <<clock, split>>
    BY <1>3 DEF Extend
  <2>2. PICK t, prev, fs, ts : /\ t = Trunk[Len(dag) + 1] /\ prev = Len(dag)
                               /\ fs = Fork /\ ts = 0
    OBVIOUS
  <2>3. Make(t, fs, ts, prev) /\ fs \in SUBSET Fork /\ fs # {} /\ ts \in Int
    BY <2>1, <2>2 DEF Fork
  <2> QED BY <1>0, <2>1, <2>3, MadeEvents
<1>4. ASSUME NEW n \in DOMAIN Menu, Diverge(Menu[n]) PROVE EventsOK'
  <2>1. PICK t, p, ts, us : /\ t = Menu[n]
                            /\ p = IF Len(dag) = split THEN Len(Trunk) ELSE Len(dag)
                            /\ ts = clock[1] + Len(dag) - Len(Trunk)
                            /\ us = clock[2] + Len(dag) - split
    OBVIOUS
  <2>2. ts \in Int /\ us \in Int
    BY <1>1, <2>1
  <2>3. UNCHANGED <<clock, split>>
        /\ (Make(t, {1}, ts, Len(dag)) \/ Make(t, {2}, us, p))
    BY <1>4, <2>1 DEF Diverge
  <2>4. CASE Make(t, {1}, ts, Len(dag))
    <3>1. PICK prev : prev = Len(dag)
      OBVIOUS
    <3> QED BY <1>0, <2>2, <2>3, <2>4, <3>1, MadeEvents DEF Fork
  <2>5. CASE Make(t, {2}, us, p)
    BY <1>0, <2>2, <2>3, <2>5, MadeEvents DEF Fork
  <2> QED BY <2>3, <2>4, <2>5
<1>5. CASE Other
  BY <1>1, <1>2, <1>5 DEF Other
<1>6. ASSUME UNCHANGED room PROVE EventsOK'
  BY <1>1, <1>2, <1>6 DEF room
<1>7. CASE Split \/ Collect \/ PopSmallest \/ Sorted
  BY <1>6, <1>7 DEF Split, Collect, PopSmallest, Sorted
<1>8. ASSUME NEW c \in Running, Walk(c) \/ WalkEnds(c) PROVE EventsOK'
  BY <1>6, <1>8 DEF Walk, WalkEnds
<1>9. CASE AuthCheck \/ SortRemaining \/ Finish
  BY <1>6, <1>9 DEF AuthCheck, SortRemaining, Finish
<1>10. CASE UNCHANGED vars
  BY <1>6, <1>10 DEF vars
<1> QED BY <1>3, <1>4, <1>5, <1>7, <1>8, <1>9, <1>10 DEF Next, Done

-----------------------------------------------------------------------------
(* The walks of the conflicted subgraph *)

\* A walk is at known events, has events left to look at that authorise others,
\* and its path is at least as long as its stack.
WalkOK(w) ==
    /\ w.path \in Seq(DOMAIN dag)
    /\ w.stack \in Seq(SUBSET Authorisers)
    /\ Len(w.stack) <= Len(w.path)

SearchTyped ==
    /\ phase # "walk" => DOMAIN walks = {}
    /\ \A c \in DOMAIN walks : WalkOK(walks[c])
    /\ marked \in [seen : SUBSET DOMAIN dag, subgraph : SUBSET DOMAIN dag]

\* The frames that are used up are the last ones.
LEMMA UsedUpLast ==
    ASSUME NEW S, NEW w, w.stack \in Seq(S), NEW n, n = UsedUp(w)
    PROVE  /\ n \in 0..Len(w.stack)
           /\ \A i \in Len(w.stack) - n + 1 .. Len(w.stack) : w.stack[i] = {}
           /\ n = Len(w.stack) \/ w.stack[Len(w.stack) - n] # {}
<1> DEFINE len == Len(w.stack)
           T == {i \in 1..len : w.stack[i] # {}}
           P(m) == /\ \A i \in len - m + 1 .. len : w.stack[i] = {}
                   /\ m = len \/ w.stack[len - m] # {}
<1>1. len \in Nat
  OBVIOUS
<1>2. \E m \in 0..len : P(m)
  <2>1. CASE T = {}
    BY <1>1, <2>1
  <2>2. CASE T # {}
    <3>1. T \subseteq 1..len
      OBVIOUS
    <3>2. IsFiniteSet(T)
      <4>1. IsFiniteSet(1..len)
        BY <1>1, FS_Interval
      <4> HIDE DEF T
      <4> QED BY <3>1, <4>1, FS_Subset
    <3>3. T \in SUBSET Nat
      OBVIOUS
    <3> HIDE DEF T
    <3>4. PICK k \in T : \A j \in T : j <= k
      BY <2>2, <3>2, <3>3, LargestExists
    <3>5. k \in 1..len /\ w.stack[k] # {}
      BY DEF T
    <3>6. len - (len - k) = k /\ len - k \in 0..len
      BY <1>1, <3>5
    <3>7. ASSUME NEW i \in len - (len - k) + 1 .. len PROVE w.stack[i] = {}
      <4>1. i \in 1..len /\ ~(i <= k)
        BY <1>1, <3>5
      <4> QED BY <3>4, <4>1 DEF T
    <3>8. P(len - k)
      BY <3>5, <3>6, <3>7
    <3> QED BY <3>6, <3>8
  <2> QED BY <2>1, <2>2
<1>3. n = CHOOSE m \in 0..len : P(m)
  BY DEF UsedUp
<1> HIDE DEF P
<1>4. n \in 0..len /\ P(n)
  BY <1>2, <1>3
<1> QED BY <1>4 DEF P

\* A frame that is not used up has a last event.
LEMMA LastOfMember ==
    ASSUME DagOK, NEW frame \in SUBSET Authorisers, frame # {}
    PROVE  LastOf(frame) \in frame
<1> DEFINE ranks == {Rank(b) : b \in frame}
<1>0. DOMAIN dag = 1..Len(dag) /\ Len(dag) \in Nat
  BY DEF DagOK
<1>1. \A b \in frame : b \in DOMAIN dag /\ b \in Nat /\ Rank(b) \in 1..4
  <2> SUFFICES ASSUME NEW b \in frame PROVE b \in DOMAIN dag /\ Rank(b) \in 1..4
    BY <1>0
  <2>1. b \in DOMAIN dag /\ dag[b].type \in {"create", "rules", "member", "power"}
    BY DEF Authorisers, AuthKinds
  <2>2. Rank(b) \in 1..4
    BY <2>1 DEF Rank
  <2> QED BY <2>1, <2>2
<1>2. ranks \in SUBSET (1..4) /\ ranks # {}
  BY <1>1
<1>3. IsFiniteSet(ranks)
  <2>1. \A r \in ranks : r <= 4
    BY <1>2
  <2>2. ranks \in SUBSET Nat
    BY <1>2
  <2> HIDE DEF ranks
  <2> QED BY <2>1, <2>2, FS_BoundedSetOfNaturals
<1>4. PICK r \in ranks : \A q \in ranks : q <= r
  <2>1. ranks \in SUBSET Nat
    BY <1>2
  <2> HIDE DEF ranks
  <2> QED BY <1>2, <1>3, <2>1, LargestExists
<1>5. PICK T : T = {b \in frame : Rank(b) = r}
  OBVIOUS
<1>6. T # {} /\ T \subseteq 1..Len(dag) /\ T \in SUBSET Nat
  BY <1>0, <1>1, <1>5
<1>7. IsFiniteSet(T)
  <2>1. IsFiniteSet(1..Len(dag))
    BY <1>0, FS_Interval
  <2> QED BY <1>6, <2>1, FS_Subset
<1>8. PICK a \in T : \A b \in T : b <= a
  BY <1>6, <1>7, LargestExists
<1>9. a \in frame /\ Rank(a) = r
  BY <1>5
<1>10. ASSUME NEW b \in frame \ {a}
       PROVE  Rank(b) < Rank(a) \/ (Rank(b) = Rank(a) /\ b < a)
  <2>1. Rank(b) <= r /\ Rank(b) \in Nat /\ r \in Nat /\ a \in Nat /\ b \in Nat
    BY <1>1, <1>2, <1>4, <1>9
  <2>2. CASE Rank(b) = r
    BY <1>5, <1>8, <1>9, <2>1, <2>2
  <2>3. CASE Rank(b) # r
    BY <1>9, <2>1, <2>3
  <2> QED BY <2>2, <2>3
<1> HIDE DEF ranks
<1> QED BY <1>9, <1>10 DEF LastOf

\* The walk w leaves n frames that are used up and takes the event a off the last
\* frame; path and stack are what it has then.
Takes(w, n, a, path, stack) ==
    LET m == Len(w.stack) - n
    IN  /\ n \in 0..Len(w.stack) /\ m \in 1..Len(w.stack)
        /\ \A i \in 1..Len(w.stack) : i > m => w.stack[i] = {}
        /\ a \in w.stack[m]
        /\ path \in Seq(DOMAIN dag) /\ Len(path) = Len(w.path) - n + 1
        /\ \A i \in 1..(Len(w.path) - n) : path[i] = w.path[i]
        /\ path[Len(path)] = a
        /\ stack \in Seq(SUBSET Authorisers) /\ Len(stack) = m
        /\ \A i \in 1..(m - 1) : stack[i] = w.stack[i]
        /\ stack[m] = w.stack[m] \ {a}

\* The event is in the subgraph, or it was seen, or it is new.
Evals(c, a, path, stack) ==
    \/ /\ a \in marked.subgraph
       /\ walks' = [walks EXCEPT ![c] = [path |-> Drop(path, 1), stack |-> stack]]
       /\ marked' = [marked EXCEPT !.subgraph = @ \cup ToSet(path)]
    \/ /\ a \in marked.seen \ marked.subgraph
       /\ walks' = [walks EXCEPT ![c] = [path |-> path, stack |-> stack]]
       /\ UNCHANGED marked
    \/ /\ a \notin marked.seen \cup marked.subgraph
       /\ walks' = [walks EXCEPT ![c] =
             [path |-> path, stack |-> Append(stack, dag[a].auth)]]
       /\ marked' = [seen |-> marked.seen \cup {a},
                     subgraph |-> marked.subgraph \cup
                         IF a \in Conflicted THEN ToSet(path) ELSE {}]

\* A sequence without its last n elements
LEMMA Dropped ==
    ASSUME NEW S, NEW s \in Seq(S), NEW n \in 0..Len(s)
    PROVE  /\ Drop(s, n) \in Seq(S) /\ Len(Drop(s, n)) = Len(s) - n
           /\ \A i \in 1..(Len(s) - n) : Drop(s, n)[i] = s[i]
BY DEF Drop

\* A step of a walk takes an event off its stack and evaluates it.
LEMMA WalkTakes ==
    ASSUME DagOK, NEW c \in DOMAIN walks, WalkOK(walks[c]), Walk(c)
    PROVE  \E n, a, path, stack :
              Takes(walks[c], n, a, path, stack) /\ Evals(c, a, path, stack)
<1>1. PICK w, n : w = walks[c] /\ n = UsedUp(w)
  OBVIOUS
<1>2. PICK rest : rest = Drop(w.stack, n)
  OBVIOUS
<1>3. PICK a : a = LastOf(Last(rest))
  OBVIOUS
<1>4. PICK path, stack : /\ path = Append(Drop(w.path, n), a)
                         /\ stack = Append(Drop(rest, 1), Last(rest) \ {a})
  OBVIOUS
<1>5. n < Len(w.stack) /\ Evals(c, a, path, stack)
  BY <1>1, <1>2, <1>3, <1>4 DEF Walk, Evals, InsertPath
<1>6. WalkOK(w)
  BY <1>1
<1>7. PICK len, m : len = Len(w.stack) /\ m = len - n
  OBVIOUS
<1>8. /\ n \in 0..len /\ len \in Nat
      /\ \A i \in len - n + 1 .. len : w.stack[i] = {}
      /\ w.stack[m] # {}
  <2>1. w.stack \in Seq(SUBSET Authorisers)
    BY <1>6 DEF WalkOK
  <2>2. /\ n \in 0..Len(w.stack)
        /\ \A i \in Len(w.stack) - n + 1 .. Len(w.stack) : w.stack[i] = {}
        /\ n = Len(w.stack) \/ w.stack[Len(w.stack) - n] # {}
    BY <1>1, <2>1, UsedUpLast
  <2> QED BY <1>5, <1>7, <2>1, <2>2
<1>9. m \in 1..len
  BY <1>5, <1>7, <1>8
<1>10. /\ rest \in Seq(SUBSET Authorisers) /\ Len(rest) = m
       /\ \A i \in 1..m : rest[i] = w.stack[i]
  <2>1. PICK S, s : S = SUBSET Authorisers /\ s = w.stack
    OBVIOUS
  <2>2. s \in Seq(S) /\ n \in 0..Len(s)
    BY <1>6, <1>7, <1>8, <2>1 DEF WalkOK
  <2>3. /\ Drop(s, n) \in Seq(S) /\ Len(Drop(s, n)) = Len(s) - n
        /\ \A i \in 1..(Len(s) - n) : Drop(s, n)[i] = s[i]
    BY <2>2, Dropped
  <2> QED BY <1>2, <1>7, <2>1, <2>3
<1>11. Last(rest) = w.stack[m] /\ w.stack[m] \in SUBSET Authorisers
  <2>1. rest # <<>>
    BY <1>9, <1>10
  <2> QED BY <1>9, <1>10, <2>1 DEF Last
<1>12. a \in w.stack[m] /\ a \in DOMAIN dag
  BY <1>3, <1>8, <1>11, LastOfMember DEF Authorisers
<1>13. PICK front : front = Drop(w.path, n)
  OBVIOUS
<1>14. /\ front \in Seq(DOMAIN dag) /\ Len(front) = Len(w.path) - n
       /\ \A i \in 1..(Len(w.path) - n) : front[i] = w.path[i]
  <2>1. w.path \in Seq(DOMAIN dag) /\ n \in 0..Len(w.path)
    BY <1>6, <1>7, <1>8 DEF WalkOK
  <2> QED BY <1>13, <2>1, Dropped
<1>15. /\ path \in Seq(DOMAIN dag) /\ Len(path) = Len(w.path) - n + 1
       /\ \A i \in 1..(Len(w.path) - n) : path[i] = w.path[i]
       /\ path[Len(path)] = a
  <2>1. path = Append(front, a)
    BY <1>4, <1>13
  <2> QED BY <1>12, <1>14, <2>1
<1>16. PICK low : low = Drop(rest, 1)
  OBVIOUS
<1>17. /\ low \in Seq(SUBSET Authorisers) /\ Len(low) = m - 1
       /\ \A i \in 1..(m - 1) : low[i] = w.stack[i]
  <2>1. 1 \in 0..Len(rest)
    BY <1>8, <1>9, <1>10
  <2>2. /\ low \in Seq(SUBSET Authorisers) /\ Len(low) = Len(rest) - 1
        /\ \A i \in 1..(Len(rest) - 1) : low[i] = rest[i]
    BY <1>10, <1>16, <2>1, Dropped
  <2> QED BY <1>8, <1>9, <1>10, <2>2
<1>18. /\ stack \in Seq(SUBSET Authorisers) /\ Len(stack) = m
       /\ \A i \in 1..(m - 1) : stack[i] = w.stack[i]
       /\ stack[m] = w.stack[m] \ {a}
  <2>1. stack = Append(low, w.stack[m] \ {a}) /\ w.stack[m] \ {a} \in SUBSET Authorisers
    BY <1>4, <1>11, <1>16
  <2> QED BY <1>8, <1>9, <1>17, <2>1
<1>19. \A i \in 1..len : i > m => w.stack[i] = {}
  BY <1>7, <1>8, <1>9
<1>20. Takes(w, n, a, path, stack)
  BY <1>7, <1>8, <1>9, <1>12, <1>15, <1>18, <1>19 DEF Takes
<1> QED BY <1>1, <1>5, <1>20

\* What is on a path are events.
LEMMA PathKnown == ASSUME NEW S, NEW path \in Seq(S) PROVE ToSet(path) \subseteq S
BY DEF ToSet

\* A walk is made of a path and a stack that is not longer.
LEMMA WalkMade ==
    ASSUME NEW p \in Seq(DOMAIN dag), NEW s \in Seq(SUBSET Authorisers), Len(s) <= Len(p)
    PROVE  WalkOK([path |-> p, stack |-> s])
<1>1. PICK w : w = [path |-> p, stack |-> s]
  OBVIOUS
<1>2. w.path = p /\ w.stack = s
  BY <1>1
<1>3. WalkOK(w)
  BY <1>2 DEF WalkOK
<1> QED BY <1>1, <1>3

\* A step of a walk keeps the walks and the marks in order.
LEMMA TakesTyped ==
    ASSUME DagOK, EventsOK, SearchTyped, NEW c \in DOMAIN walks, UNCHANGED <<dag, phase>>,
           NEW n, NEW a, NEW path, NEW stack,
           Takes(walks[c], n, a, path, stack), Evals(c, a, path, stack)
    PROVE  SearchTyped'
<1>1. WalkOK(walks[c])
  BY DEF SearchTyped
<1>2. /\ path \in Seq(DOMAIN dag) /\ stack \in Seq(SUBSET Authorisers)
      /\ Len(path) \in Nat /\ Len(stack) \in Nat
      /\ Len(path) >= Len(stack) + 1 /\ path[Len(path)] = a /\ Len(path) >= 1
  BY <1>1 DEF Takes, WalkOK
<1>3. a \in DOMAIN dag /\ dag[a].auth \in SUBSET Authorisers
  BY <1>2 DEF EventsOK
<1>4. /\ Drop(path, 1) \in Seq(DOMAIN dag) /\ Len(Drop(path, 1)) = Len(path) - 1
  BY <1>2, Dropped
<1>5. /\ Append(stack, dag[a].auth) \in Seq(SUBSET Authorisers)
      /\ Len(Append(stack, dag[a].auth)) = Len(stack) + 1
  BY <1>2, <1>3
<1>6. \E w : WalkOK(w) /\ walks' = [walks EXCEPT ![c] = w]
  <2>1. CASE a \in marked.subgraph
    <3>1. PICK w : w = [path |-> Drop(path, 1), stack |-> stack]
      OBVIOUS
    <3>2. walks' = [walks EXCEPT ![c] = w]
      BY <2>1, <3>1 DEF Evals
    <3>3. WalkOK(w)
      <4>1. Len(stack) <= Len(Drop(path, 1))
        BY <1>2, <1>4
      <4> QED BY <1>2, <1>4, <3>1, <4>1, WalkMade
    <3> QED BY <3>2, <3>3
  <2>2. CASE a \in marked.seen \ marked.subgraph
    <3>1. PICK w : w = [path |-> path, stack |-> stack]
      OBVIOUS
    <3>2. walks' = [walks EXCEPT ![c] = w]
      BY <2>2, <3>1 DEF Evals
    <3>3. WalkOK(w)
      <4>1. Len(stack) <= Len(path)
        BY <1>2
      <4> QED BY <1>2, <3>1, <4>1, WalkMade
    <3> QED BY <3>2, <3>3
  <2>3. CASE a \notin marked.seen \cup marked.subgraph
    <3>1. PICK w : w = [path |-> path, stack |-> Append(stack, dag[a].auth)]
      OBVIOUS
    <3>2. walks' = [walks EXCEPT ![c] = w]
      BY <2>3, <3>1 DEF Evals
    <3>3. WalkOK(w)
      <4>1. Len(Append(stack, dag[a].auth)) <= Len(path)
        BY <1>2, <1>5
      <4> QED BY <1>2, <1>5, <3>1, <4>1, WalkMade
    <3> QED BY <3>2, <3>3
  <2> QED BY <2>1, <2>2, <2>3
<1>7. PICK w : WalkOK(w) /\ walks' = [walks EXCEPT ![c] = w]
  BY <1>6
<1>8. Authorisers' = Authorisers /\ DOMAIN walks' = DOMAIN walks
  BY <1>7 DEF Authorisers
<1>9. \A d \in DOMAIN walks' : WalkOK(walks[d])'
  <2>1. \A d \in DOMAIN walks' : WalkOK(walks'[d])
    BY <1>7 DEF SearchTyped
  <2> QED BY <1>8, <2>1 DEF WalkOK
<1>10. marked' \in [seen : SUBSET DOMAIN dag, subgraph : SUBSET DOMAIN dag]
  <2>1. ToSet(path) \subseteq DOMAIN dag
    BY <1>2, PathKnown
  <2>2. marked \in [seen : SUBSET DOMAIN dag, subgraph : SUBSET DOMAIN dag]
    BY DEF SearchTyped
  <2> QED BY <1>3, <2>1, <2>2 DEF Evals
<1> QED BY <1>8, <1>9, <1>10 DEF SearchTyped

\* The conflicted events are events of the forks.
LEMMA ConflictedKnown ==
    ASSUME EventsOK
    PROVE  Conflicted \subseteq DOMAIN dag
BY DEF EventsOK, Placed, Conflicted

\* Every step keeps the walks and the marks in order.
LEMMA SearchStep == Inv /\ EventsOK /\ SearchTyped /\ [Next]_vars => SearchTyped'
<1> SUFFICES ASSUME Inv, EventsOK, SearchTyped, [Next]_vars PROVE SearchTyped'
  OBVIOUS
<1>0. DagOK
  BY DEF Inv
<1>1. ASSUME phase # "walk", phase' # "walk", UNCHANGED search, DOMAIN dag \subseteq DOMAIN dag'
      PROVE  SearchTyped'
  <2>1. DOMAIN walks = {}
    BY <1>1 DEF SearchTyped
  <2> QED BY <1>1, <2>1 DEF SearchTyped, search
<1>2. ASSUME NEW t, NEW fs \in SUBSET Fork, fs # {}, NEW ts, NEW prev,
             Make(t, fs, ts, prev)
      PROVE  DOMAIN dag \subseteq DOMAIN dag'
  <2>1. PICK e : IsNew(e, t, fs, ts, prev)
    BY <1>0, <1>2, MadeOne
  <2> QED BY <2>1 DEF IsNew
<1>3. CASE Extend
  <2>1. PICK t, fs, ts, prev : /\ t = Trunk[Len(dag) + 1] /\ prev = Len(dag)
                               /\ fs = Fork /\ ts = 0
    OBVIOUS
  <2>2. Make(t, fs, ts, prev) /\ fs \in SUBSET Fork /\ fs # {}
    BY <1>3, <2>1 DEF Extend, Fork
  <2>3. DOMAIN dag \subseteq DOMAIN dag'
    BY <1>2, <2>2
  <2> QED BY <1>1, <1>3, <2>3 DEF Extend
<1>4. ASSUME NEW n \in DOMAIN Menu, Diverge(Menu[n]) PROVE SearchTyped'
  <2>1. PICK t, fs, ts, prev : Make(t, fs, ts, prev) /\ fs \in SUBSET Fork /\ fs # {}
    <3>1. {1} \in SUBSET Fork /\ {2} \in SUBSET Fork /\ {1} # {} /\ {2} # {}
      BY DEF Fork
    <3> QED BY <1>4, <3>1 DEF Diverge
  <2>2. DOMAIN dag \subseteq DOMAIN dag'
    BY <1>2, <2>1
  <2> QED BY <1>1, <1>4, <2>2 DEF Diverge
<1>5. CASE Other
  BY <1>1, <1>5 DEF Other
<1>6. CASE Split
  <2>1. UNCHANGED <<dag, marked>> /\ DOMAIN walks = {} /\ Authorisers' = Authorisers
    BY <1>6 DEF Split, room, SearchTyped, Authorisers
  <2>2. CASE Conflicted = {}
    BY <1>6, <2>1, <2>2 DEF Split, SearchTyped
  <2>3. CASE Conflicted # {}
    <3>1. PICK cs : cs = IF rules.subgraph THEN Conflicted ELSE {}
      OBVIOUS
    <3>2. /\ walks' = [c \in cs |-> [path |-> <<c, c>>, stack |-> <<{}, dag[c].auth>>]]
          /\ phase' = "walk"
      BY <1>6, <2>3, <3>1 DEF Split
    <3>3. cs \subseteq DOMAIN dag
      BY <3>1, ConflictedKnown
    <3>4. ASSUME NEW c \in cs PROVE WalkOK(walks[c])'
      <4>1. walks'[c] = [path |-> <<c, c>>, stack |-> <<{}, dag[c].auth>>]
        BY <3>2
      <4>2. c \in DOMAIN dag /\ dag[c].auth \in SUBSET Authorisers
        BY <3>3 DEF EventsOK
      <4>3. <<c, c>> \in Seq(DOMAIN dag) /\ <<{}, dag[c].auth>> \in Seq(SUBSET Authorisers)
            /\ Len(<<c, c>>) = 2 /\ Len(<<{}, dag[c].auth>>) = 2
        BY <4>2
      <4> QED BY <2>1, <4>1, <4>3 DEF WalkOK
    <3> QED BY <2>1, <3>2, <3>4 DEF SearchTyped
  <2> QED BY <2>2, <2>3
<1>7. ASSUME NEW c \in Running, Walk(c) PROVE SearchTyped'
  <2>1. c \in DOMAIN walks /\ WalkOK(walks[c]) /\ UNCHANGED <<dag, phase>>
    BY <1>7 DEF Running, SearchTyped, Walk, room
  <2>2. PICK n, a, path, stack :
           Takes(walks[c], n, a, path, stack) /\ Evals(c, a, path, stack)
    BY <1>0, <1>7, <2>1, WalkTakes
  <2> QED BY <1>0, <2>1, <2>2, TakesTyped
<1>8. ASSUME NEW c \in Running, WalkEnds(c) PROVE SearchTyped'
  <2>1. /\ walks' = [d \in DOMAIN walks \ {c} |-> walks[d]]
        /\ UNCHANGED <<dag, phase, marked>> /\ Authorisers' = Authorisers
    BY <1>8 DEF WalkEnds, room, Authorisers
  <2> QED BY <2>1 DEF SearchTyped, WalkOK
<1>9. CASE Collect
  <2>1. DOMAIN walks' = {} /\ marked' = NoMarks /\ UNCHANGED dag
    BY <1>9 DEF Collect, room
  <2> QED BY <2>1 DEF SearchTyped, NoMarks
<1>10. ASSUME phase # "walk", phase' # "walk", UNCHANGED <<dag, search>> PROVE SearchTyped'
  BY <1>1, <1>10
<1>11. CASE PopSmallest \/ Sorted \/ AuthCheck \/ SortRemaining \/ Finish
  BY <1>10, <1>11 DEF PopSmallest, Sorted, AuthCheck, SortRemaining, Finish, room
<1>12. CASE UNCHANGED vars
  <2>1. UNCHANGED <<dag, phase, walks, marked>> /\ Authorisers' = Authorisers
    BY <1>12 DEF vars, room, search, Authorisers
  <2> QED BY <2>1 DEF SearchTyped, WalkOK
<1> QED
  BY <1>3, <1>4, <1>5, <1>6, <1>7, <1>8, <1>9, <1>11, <1>12 DEF Next, Done

-----------------------------------------------------------------------------
(* mainline_sort gives the events of the set *)

\* In a finite set with a strict total order R, one member has just n - 1 others
\* below it, for each n up to the size of the set.
LEMMA RankedMember ==
    ASSUME NEW S, IsFiniteSet(S), NEW R,
           \A i \in S : <<i, i>> \notin R,
           \A i, j \in S : i # j => <<i, j>> \in R \/ <<j, i>> \in R,
           \A i, j, k \in S : <<i, j>> \in R /\ <<j, k>> \in R => <<i, k>> \in R,
           NEW n \in 1..Cardinality(S)
    PROVE  \E i \in S : Cardinality({j \in S : <<j, i>> \in R}) = n - 1
<1> DEFINE Below(i) == {j \in S : <<j, i>> \in R}
           T == 0..(Cardinality(S) - 1)
           f == [i \in S |-> Cardinality(Below(i))]
<1>1. Cardinality(S) \in Nat
  BY FS_CardinalityType
<1>2. \A i \in S : Below(i) \subseteq S \ {i}
  OBVIOUS
<1>3. ASSUME NEW i, NEW j, i \in S, j \in S, <<i, j>> \in R
      PROVE  Below(i) \subseteq Below(j) /\ i \in Below(j) /\ i \notin Below(i)
  BY <1>3
<1> HIDE DEF Below
<1>4. ASSUME NEW i \in S
      PROVE  /\ IsFiniteSet(Below(i)) /\ Cardinality(Below(i)) \in T
  <2>1. IsFiniteSet(S \ {i}) /\ Cardinality(S \ {i}) = Cardinality(S) - 1
    BY FS_RemoveElement
  <2>2. IsFiniteSet(Below(i)) /\ Cardinality(Below(i)) <= Cardinality(S \ {i})
    BY <1>2, <2>1, FS_Subset
  <2>3. Cardinality(Below(i)) \in Nat
    BY <2>2, FS_CardinalityType
  <2> QED BY <1>1, <2>1, <2>2, <2>3
<1>5. ASSUME NEW i, NEW j, i \in S, j \in S, <<i, j>> \in R
      PROVE  Cardinality(Below(i)) # Cardinality(Below(j))
  BY <1>3, <1>4, <1>5, FS_Subset
<1>6. f \in [S -> T]
  BY <1>4
<1>7. \A i, j \in S : i # j => f[i] # f[j]
  BY <1>5
<1> HIDE DEF f
<1>8. f \in Injection(S, T)
  BY <1>6, <1>7 DEF Injection, IsInjective
<1>9. IsFiniteSet(T) /\ Cardinality(T) = Cardinality(S)
  <2>1. PICK b \in Int : b = Cardinality(S) - 1
    BY <1>1
  <2>2. IsFiniteSet(0..b) /\ Cardinality(0..b) = IF 0 > b THEN 0 ELSE b - 0 + 1
    BY FS_Interval
  <2> QED BY <1>1, <2>1, <2>2
<1>10. f \in Surjection(S, T)
  BY <1>8, <1>9, FS_Injection
<1>11. n - 1 \in T
  BY <1>1
<1>12. PICK i \in S : f[i] = n - 1
  BY <1>10, <1>11 DEF Surjection
<1> QED BY <1>12 DEF f, Below

\* The auth events and the chain of an event are known, and its line is finite.
LEMMA LineFinite ==
    ASSUME DagOK, EventsOK, NEW i \in DOMAIN dag
    PROVE  Line(i) \subseteq DOMAIN dag
<1>1. DOMAIN dag = 1..Len(dag) /\ Len(dag) \in Nat
  BY DEF DagOK
<1>2. dag[i].chain \subseteq 1..(i - 1)
  BY DEF EventsOK, ChainOK
<1>3. dag[i].chain \subseteq DOMAIN dag
  BY <1>1, <1>2
<1>4. Line(i) \subseteq {i} \cup dag[i].chain
  BY DEF Line
<1> QED BY <1>3, <1>4

\* How far an event is along the mainline is a number.
LEMMA PositionType ==
    ASSUME DagOK, EventsOK, NEW st, Placed(st), NEW i
    PROVE  Position(i, Mainline(st)) \in Nat
<1>1. DOMAIN dag = 1..Len(dag) /\ Len(dag) \in Nat
  BY DEF DagOK
<1>2. Mainline(st) \subseteq DOMAIN dag
  <2>1. CASE PowerSlot \in DOMAIN st
    <3>1. PICK p \in DOMAIN dag : p = st[PowerSlot]
      BY <2>1 DEF Placed
    <3> QED BY <2>1, <3>1, LineFinite DEF Mainline
  <2>2. CASE PowerSlot \notin DOMAIN st
    BY <2>2 DEF Mainline
  <2> QED BY <2>1, <2>2
<1>3. PICK T : T = {m \in Mainline(st) : \E n \in Line(i) \cap Mainline(st) : m <= n}
  OBVIOUS
<1>4. T \in SUBSET DOMAIN dag /\ IsFiniteSet(DOMAIN dag)
  BY <1>1, <1>2, <1>3, FS_Interval
<1>5. IsFiniteSet(T)
  BY <1>4, FS_Subset
<1> QED BY <1>3, <1>5, FS_CardinalityType DEF Position

\* The sequence has every member of the set, once.
Permutes(s, set) == ToSet(s) = set /\ Len(s) = Cardinality(set)

\* mainline_sort gives every event of the set once.
LEMMA MainlineSorted ==
    ASSUME DagOK, EventsOK, NEW st, Placed(st), NEW set \in SUBSET DOMAIN dag
    PROVE  MainlineSort(set, st) \in Seq(set) /\ Permutes(MainlineSort(set, st), set)
<1> DEFINE pos == [i \in set |-> Position(i, Mainline(st))]
           Less(i, j) ==
              \/ pos[i] < pos[j]
              \/ /\ pos[i] = pos[j]
                 /\ dag[i].ts < dag[j].ts \/ (dag[i].ts = dag[j].ts /\ i < j)
           R == {p \in set \X set : Less(p[1], p[2])}
<1>1. DOMAIN dag = 1..Len(dag) /\ Len(dag) \in Nat
  BY DEF DagOK
<1>2. IsFiniteSet(set)
  <2>1. IsFiniteSet(DOMAIN dag)
    BY <1>1, FS_Interval
  <2> QED BY <2>1, FS_Subset
<1>3. Cardinality(set) \in Nat
  BY <1>2, FS_CardinalityType
<1>4. \A i \in set : pos[i] \in Nat /\ dag[i].ts \in Int /\ i \in Nat
  <2>1. \A i \in set : Position(i, Mainline(st)) \in Nat
    BY PositionType
  <2>2. \A i \in set : i \in DOMAIN dag
    OBVIOUS
  <2> QED BY <1>1, <2>1, <2>2 DEF EventsOK
<1> HIDE DEF pos
<1>5. \A i, j \in set : <<i, j>> \in R <=> Less(i, j)
  OBVIOUS
<1>6. /\ \A i \in set : ~Less(i, i)
      /\ \A i, j \in set : i # j => Less(i, j) \/ Less(j, i)
      /\ \A i, j, k \in set : Less(i, j) /\ Less(j, k) => Less(i, k)
  BY <1>4
<1> HIDE DEF Less, R
<1>7. /\ \A i \in set : <<i, i>> \notin R
      /\ \A i, j \in set : i # j => <<i, j>> \in R \/ <<j, i>> \in R
      /\ \A i, j, k \in set : <<i, j>> \in R /\ <<j, k>> \in R => <<i, k>> \in R
  BY <1>5, <1>6
<1>8. ASSUME NEW n \in 1..Cardinality(set)
      PROVE  LET k == CHOOSE i \in set : Cardinality({j \in set : Less(j, i)}) = n - 1
             IN  k \in set /\ Cardinality({j \in set : Less(j, k)}) = n - 1
  <2>1. PICK i \in set : Cardinality({j \in set : <<j, i>> \in R}) = n - 1
    <3>1. PICK r : r = R
      OBVIOUS
    <3>2. /\ \A i \in set : <<i, i>> \notin r
          /\ \A i, j \in set : i # j => <<i, j>> \in r \/ <<j, i>> \in r
          /\ \A i, j, k \in set : <<i, j>> \in r /\ <<j, k>> \in r => <<i, k>> \in r
      BY <1>7, <3>1
    <3>3. \E i \in set : Cardinality({j \in set : <<j, i>> \in r}) = n - 1
      BY <1>2, <3>2, RankedMember
    <3> QED BY <3>1, <3>3
  <2>2. {j \in set : <<j, i>> \in R} = {j \in set : Less(j, i)}
    BY <1>5
  <2>3. \E k \in set : Cardinality({j \in set : Less(j, k)}) = n - 1
    BY <2>1, <2>2
  <2> QED BY <2>3
<1>9. MainlineSort(set, st) = [n \in 1..Cardinality(set) |->
         CHOOSE i \in set : Cardinality({j \in set : Less(j, i)}) = n - 1]
  BY DEF MainlineSort, Less, pos
<1>10. PICK N, s : N = Cardinality(set) /\ s = MainlineSort(set, st)
  OBVIOUS
<1>11. s \in [1..N -> set] /\ \A n \in 1..N : Cardinality({j \in set : Less(j, s[n])}) = n - 1
  BY <1>8, <1>9, <1>10
<1>12. s \in Seq(set) /\ Len(s) = N /\ DOMAIN s = 1..N
  BY <1>3, <1>10, <1>11, SeqDef
<1>13. \A m, n \in 1..N : s[m] = s[n] => m = n
  <2>1. ASSUME NEW m \in 1..N, NEW n \in 1..N, s[m] = s[n] PROVE m = n
    <3>1. m - 1 = n - 1
      BY <1>11, <2>1
    <3> QED BY <1>3, <1>10, <3>1
  <2> QED BY <2>1
<1>14. s \in Injection(1..N, set)
  BY <1>11, <1>13 DEF Injection, IsInjective
<1>15. IsFiniteSet(1..N) /\ Cardinality(1..N) = N
  BY <1>3, <1>10, FS_Interval
<1>16. s \in Surjection(1..N, set)
  BY <1>2, <1>10, <1>14, <1>15, FS_Injection
<1>17. ToSet(s) = set
  BY <1>11, <1>12, <1>16 DEF Surjection, ToSet
<1> QED BY <1>10, <1>12, <1>17 DEF Permutes

-----------------------------------------------------------------------------
(* Types *)

\* The state that is being resolved maps slots to their events, and the events
\* that are sorted and checked are those of the full conflicted set.
ResolveTyped ==
    /\ Placed(resolved)
    /\ full \subseteq DOMAIN dag /\ remaining \subseteq full
    /\ phase = "sort" => DOMAIN graph \subseteq full
    /\ todo \in Seq(full)

\* What the forks agree on is a state.
LEMMA UnconflictedPlaced ==
    ASSUME EventsOK
    PROVE  /\ Placed(Unconflicted) /\ Placed(Initial)
           /\ DOMAIN Unconflicted = Agreed
           /\ \A s \in Agreed : Unconflicted[s] = states[1][s]
<1>1. Placed(states[1])
  BY DEF EventsOK, Fork
<1>2. /\ DOMAIN Unconflicted = Agreed
      /\ \A s \in Agreed : Unconflicted[s] = states[1][s] /\ s \in DOMAIN states[1]
  BY DEF Unconflicted, Restrict, Agreed
<1>3. Placed(Unconflicted)
  BY <1>1, <1>2 DEF Placed
<1>4. Placed(NoEntries)
  BY DEF Placed, NoEntries
<1> QED BY <1>2, <1>3, <1>4 DEF Initial

\* An event that passes the checks is put in its slot.
LEMMA ApplyPlaced ==
    ASSUME NEW st, Placed(st), NEW i \in DOMAIN dag
    PROVE  Placed(Apply(st, i))
<1>1. Placed(Put(st, SlotOf(dag[i]), i))
  BY DEF Placed, Put
<1> QED BY <1>1 DEF Apply

\* Every step keeps the sets and the state that is being resolved in order.
LEMMA ResolveStep ==
    Inv /\ EventsOK /\ SearchTyped /\ ResolveTyped /\ [Next]_vars => ResolveTyped'
<1> SUFFICES ASSUME Inv, EventsOK, SearchTyped, ResolveTyped, [Next]_vars
             PROVE  ResolveTyped'
  OBVIOUS
<1>0. DagOK /\ SortOK
  BY DEF Inv
<1>1. ASSUME UNCHANGED <<full, remaining, todo, resolved>>,
             phase' # "sort", DOMAIN dag \subseteq DOMAIN dag',
             \A i \in DOMAIN dag : dag'[i] = dag[i]
      PROVE  ResolveTyped'
  BY <1>1 DEF ResolveTyped, Placed
<1>2. ASSUME NEW t, NEW fs \in SUBSET Fork, fs # {}, NEW ts, NEW prev,
             Make(t, fs, ts, prev)
      PROVE  DOMAIN dag \subseteq DOMAIN dag' /\ \A i \in DOMAIN dag : dag'[i] = dag[i]
  <2>1. PICK e : IsNew(e, t, fs, ts, prev)
    BY <1>0, <1>2, MadeOne
  <2> QED BY <2>1 DEF IsNew
<1>3. CASE Extend
  <2>1. PICK t, fs, ts, prev : /\ t = Trunk[Len(dag) + 1] /\ prev = Len(dag)
                               /\ fs = Fork /\ ts = 0
    OBVIOUS
  <2>2. Make(t, fs, ts, prev) /\ fs \in SUBSET Fork /\ fs # {}
    BY <1>3, <2>1 DEF Extend, Fork
  <2>3. DOMAIN dag \subseteq DOMAIN dag' /\ \A i \in DOMAIN dag : dag'[i] = dag[i]
    BY <1>2, <2>2
  <2> QED BY <1>1, <1>3, <2>3 DEF Extend
<1>4. ASSUME NEW n \in DOMAIN Menu, Diverge(Menu[n]) PROVE ResolveTyped'
  <2>1. PICK t, fs, ts, prev : Make(t, fs, ts, prev) /\ fs \in SUBSET Fork /\ fs # {}
    <3>1. {1} \in SUBSET Fork /\ {2} \in SUBSET Fork /\ {1} # {} /\ {2} # {}
      BY DEF Fork
    <3> QED BY <1>4, <3>1 DEF Diverge
  <2>2. DOMAIN dag \subseteq DOMAIN dag' /\ \A i \in DOMAIN dag : dag'[i] = dag[i]
    BY <1>2, <2>1
  <2> QED BY <1>1, <1>4, <2>2 DEF Diverge
<1>5. CASE Other
  BY <1>1, <1>5 DEF Other
<1>6. CASE Split
  <2>1. UNCHANGED <<full, remaining, todo, dag>> /\ phase' # "sort"
        /\ (resolved' = Unconflicted \/ resolved' = resolved)
    BY <1>6 DEF Split, room
  <2> QED BY <2>1, UnconflictedPlaced DEF ResolveTyped, Placed
<1>7. ASSUME UNCHANGED <<full, graph, remaining, todo, resolved, phase, dag>>
      PROVE  ResolveTyped'
  BY <1>7 DEF ResolveTyped, Placed
<1>8. ASSUME NEW c \in Running, Walk(c) \/ WalkEnds(c) PROVE ResolveTyped'
  BY <1>7, <1>8 DEF Walk, WalkEnds, room
<1>9. CASE Collect
  <2>1. /\ full' = (DOMAIN dag \cap (AuthDifference \cup Conflicted)) \cup marked.subgraph
        /\ DOMAIN graph' = Reached(full') /\ remaining' = full' \ DOMAIN graph'
        /\ UNCHANGED <<dag, todo, resolved>> /\ phase = "walk"
    BY <1>9 DEF Collect, room
  <2>2. full' \subseteq DOMAIN dag
    BY <2>1 DEF SearchTyped
  <2>3. DOMAIN graph' \subseteq full'
    BY <1>0, <2>1, ReachedClosed
  <2>4. todo' = <<>>
    BY <1>0, <2>1 DEF SortOK
  <2>5. Placed(resolved)'
    BY <2>1 DEF ResolveTyped, Placed
  <2>6. todo' \in Seq(full')
    BY <2>4
  <2>7. remaining' \subseteq full' /\ full' \subseteq DOMAIN dag'
    BY <2>1, <2>2
  <2> QED BY <2>3, <2>5, <2>6, <2>7 DEF ResolveTyped
<1>10. CASE PopSmallest
  <2>1. PICK i \in DOMAIN graph :
           /\ phase = "sort" /\ DOMAIN graph' \subseteq DOMAIN graph
           /\ todo' = Append(todo, i)
           /\ UNCHANGED <<dag, phase, full, remaining, resolved>>
    BY <1>10 DEF PopSmallest, room
  <2>2. i \in full /\ DOMAIN graph' \subseteq full
    BY <2>1 DEF ResolveTyped
  <2>3. todo' \in Seq(full)
    BY <2>1, <2>2 DEF ResolveTyped
  <2> QED BY <2>1, <2>2, <2>3 DEF ResolveTyped, Placed
<1>11. CASE Sorted
  <2>1. resolved' = Initial /\ phase' = "power" /\ UNCHANGED <<dag, full, remaining, todo>>
    BY <1>11 DEF Sorted, room
  <2> QED BY <2>1, UnconflictedPlaced DEF ResolveTyped, Placed
<1>12. CASE AuthCheck
  <2>1. /\ todo # <<>> /\ todo' = Tail(todo) /\ resolved' = Apply(resolved, Head(todo))
        /\ phase' # "sort" /\ UNCHANGED <<dag, full, remaining>>
    BY <1>12 DEF AuthCheck, room
  <2>2. Head(todo) \in DOMAIN dag /\ Tail(todo) \in Seq(full)
    BY <2>1 DEF ResolveTyped
  <2>3. PICK st, i : st = resolved /\ i = Head(todo)
    OBVIOUS
  <2>4. Placed(st) /\ i \in DOMAIN dag
    BY <2>2, <2>3 DEF ResolveTyped
  <2>5. Placed(Apply(st, i))
    BY <2>4, ApplyPlaced
  <2>6. Placed(resolved')
    BY <2>1, <2>3, <2>5
  <2> QED BY <2>1, <2>2, <2>6 DEF ResolveTyped, Placed
<1>13. CASE SortRemaining
  <2>1. /\ todo' = MainlineSort(remaining, resolved) /\ phase' = "rest"
        /\ UNCHANGED <<dag, full, remaining, resolved>>
    BY <1>13 DEF SortRemaining, room
  <2>2. PICK set, st : /\ set \in SUBSET DOMAIN dag
                       /\ set = remaining /\ st = resolved
    BY DEF ResolveTyped
  <2>3. MainlineSort(set, st) \in Seq(set)
    BY <1>0, <2>2, MainlineSorted DEF ResolveTyped
  <2>4. set \subseteq full
    BY <2>2 DEF ResolveTyped
  <2>5. MainlineSort(set, st) \in Seq(full)
    BY <2>3, <2>4, SeqMonotonic
  <2> QED BY <2>1, <2>2, <2>5 DEF ResolveTyped, Placed
<1>14. CASE Finish
  <2>1. /\ resolved' = Over(Unconflicted, resolved) /\ phase' = "done"
        /\ UNCHANGED <<dag, full, remaining, todo>>
    BY <1>14 DEF Finish, room
  <2>2. Placed(resolved')
    BY <2>1, UnconflictedPlaced DEF ResolveTyped, Placed, Over
  <2> QED BY <2>1, <2>2 DEF ResolveTyped, Placed
<1>15. CASE UNCHANGED vars
  BY <1>7, <1>15 DEF vars, room
<1> QED
  BY <1>3, <1>4, <1>5, <1>6, <1>8, <1>9, <1>10, <1>11, <1>12, <1>13, <1>14, <1>15
     DEF Next, Done

Typed == EventsOK /\ SearchTyped /\ ResolveTyped

LEMMA TypedAlways == Spec => []Typed
<1>1. Init => Typed
  <2> SUFFICES ASSUME Init PROVE Typed
    OBVIOUS
  <2>1. DOMAIN dag = {} /\ \A f \in Fork : DOMAIN states[f] = {}
    BY DEF Init, NoEntries
  <2>2. EventsOK
    BY <2>1, StateResAssumption DEF Init, EventsOK, Placed
  <2>3. SearchTyped
    BY <2>1 DEF Init, SearchTyped, NoMarks
  <2>4. ResolveTyped
    BY <2>1 DEF Init, ResolveTyped, Placed, NoEntries
  <2> QED BY <2>2, <2>3, <2>4 DEF Typed
<1>2. Inv /\ Typed /\ [Next]_vars => Typed'
  BY EventsStep, SearchStep, ResolveStep DEF Typed
<1> QED BY <1>1, <1>2, InvAlways, PTL DEF Spec

\* In every room, for all versions and orders of the fetches, the states map slots
\* to events of these slots, and the walks and both sorts give known events only.
THEOREM StateResTypeCorrect == Spec => []TypeOK
<1>1. Inv /\ Typed => TypeOK
  <2> SUFFICES ASSUME Inv, Typed PROVE TypeOK
    OBVIOUS
  <2>1. phase \in Phases /\ \A i \in DOMAIN dag : dag[i].auth \subseteq 1..(i - 1)
    BY DEF Inv, SortOK, DagOK
  <2>2. Placed(states[1]) /\ Placed(states[2]) /\ Placed(resolved)
    BY DEF Typed, EventsOK, ResolveTyped, Fork
  <2>3. full \cup remaining \cup marked.seen \cup marked.subgraph \subseteq DOMAIN dag
    BY DEF Typed, ResolveTyped, SearchTyped
  <2>4. ToSet(todo) \subseteq full
    BY PathKnown DEF Typed, ResolveTyped
  <2> QED BY <2>1, <2>2, <2>3, <2>4 DEF TypeOK, Placed
<1> QED BY <1>1, InvAlways, TypedAlways, PTL


-----------------------------------------------------------------------------
(* One walk at a time finds the conflicted subgraph *)

\* The events that are conflicted or lead to a conflicted event
Leading == {i \in DOMAIN dag : i \in Conflicted \/ dag[i].chain \cap Conflicted # {}}

Leads(frame) == frame \cap Leading # {}

\* A walk that has not begun
Fresh(c) == [path |-> <<c, c>>, stack |-> <<{}, dag[c].auth>>]

\* Only the first of the walks has begun.
OneBegun ==
    /\ DOMAIN walks \subseteq Conflicted
    /\ \A c, d \in DOMAIN walks : d < c => walks[c] = Fresh(c)

\* What is on a path or in the subgraph was seen or is conflicted, and a
\* conflicted event that was seen is in the subgraph.
MarksOK ==
    /\ \A c \in DOMAIN walks :
          ToSet(walks[c].path) \subseteq marked.seen \cup Conflicted
    /\ marked.subgraph \subseteq marked.seen \cup Conflicted
    /\ Conflicted \cap marked.seen \subseteq marked.subgraph

\* The auth events of what was seen were seen, or they are on some stack.
NoneMissed ==
    \A a \in marked.seen \cup Conflicted : \A b \in dag[a].auth :
        \/ b \in marked.seen \cup Conflicted
        \/ \E c \in DOMAIN walks : \E k \in 1..Len(walks[c].stack) :
              b \in walks[c].stack[k]

\* own says whose auth events the frames of the walk w are: of ever earlier
\* events, each of which is on the path as long as its frame is on the stack.
Owners(w, own) ==
    /\ own \in [1..Len(w.stack) -> DOMAIN dag]
    /\ \A k \in 1..Len(w.stack) : w.stack[k] \subseteq dag[own[k]].auth
    /\ \A j, k \in 1..Len(w.stack) : k <= j => own[j] <= own[k]
    /\ \A k \in 1..Len(w.stack) :
          \E p \in 1..(Len(w.path) - Len(w.stack) + k) : w.path[p] = own[k]

\* An event that was seen, is not in the subgraph and leads to a conflicted event
\* owns a frame of the walk, from which on something that leads there is left.
Pending(w, own) ==
    \A a \in marked.seen \ marked.subgraph : Leads(dag[a].auth) =>
        \E k, j \in 1..Len(w.stack) : k <= j /\ own[k] = a /\ Leads(w.stack[j])

\* Nothing that leads to a conflicted event was given up: the walk that has begun
\* will still find it.
NothingLost ==
    /\ \A c \in DOMAIN walks :
          (\A d \in DOMAIN walks : ~(d < c)) =>
              \E own : Owners(walks[c], own) /\ Pending(walks[c], own)
    /\ DOMAIN walks = {} =>
          \A a \in marked.seen \ marked.subgraph : ~Leads(dag[a].auth)

Searching == width = 1 /\ phase = "walk" /\ rules.subgraph

SearchOK ==
    /\ phase \in {"trunk", "fork", "other"} => marked = NoMarks
    /\ Searching => OneBegun /\ MarksOK /\ NoneMissed /\ NothingLost

-----------------------------------------------------------------------------

\* The walk v takes the event a off its frame m, after kept events of its path;
\* on is the path to a.
Took(v, m, kept, a, on) ==
    /\ m \in 1..Len(v.stack) /\ a \in v.stack[m] /\ a \in DOMAIN dag
    /\ \A i \in 1..Len(v.stack) : i > m => v.stack[i] = {}
    /\ a \in on /\ on \subseteq ToSet(v.path) \cup {a}
    /\ kept = Len(v.path) - Len(v.stack) + m
    /\ kept \in Nat /\ \A p \in 1..kept : v.path[p] \in on

\* It goes on as w.
Goes(v, m, kept, a, on, w) ==
    /\ Len(w.stack) = IF a \in marked.seen \cup marked.subgraph THEN m ELSE m + 1
    /\ \A k \in 1..(m - 1) : w.stack[k] = v.stack[k]
    /\ w.stack[m] = v.stack[m] \ {a}
    /\ Len(w.stack) = m + 1 =>
          w.stack[m + 1] = dag[a].auth /\ w.path[Len(w.path)] = a
    /\ Len(w.path) \in Nat /\ Len(w.path) - Len(w.stack) >= kept - m
    /\ \A p \in 1..kept : w.path[p] = v.path[p]
    /\ ToSet(w.path) \subseteq on

\* It marks what it has seen.
MarksOn(a, on) ==
    /\ marked'.seen = marked.seen \cup IF a \in marked.subgraph THEN {} ELSE {a}
    /\ marked'.subgraph = marked.subgraph \cup
          IF a \in marked.subgraph \/ (a \notin marked.seen /\ a \in Conflicted)
          THEN on ELSE {}

Moves(c, m, kept, a, on, w) ==
    /\ Took(walks[c], m, kept, a, on)
    /\ Goes(walks[c], m, kept, a, on, w)
    /\ walks' = [walks EXCEPT ![c] = w]
    /\ MarksOn(a, on)

\* A step of a walk is such a move.
LEMMA WalkMoves ==
    ASSUME DagOK, EventsOK, SearchTyped, NEW c \in DOMAIN walks, Walk(c)
    PROVE  \E m, kept, a, on, w : Moves(c, m, kept, a, on, w)
<1>1. WalkOK(walks[c])
  BY DEF SearchTyped
<1>2. PICK n, a, path, stack :
         Takes(walks[c], n, a, path, stack) /\ Evals(c, a, path, stack)
  BY <1>1, WalkTakes
<1>3. PICK v, len, plen, m, on : /\ v = walks[c] /\ len = Len(v.stack) /\ plen = Len(v.path)
                                 /\ m = len - n /\ on = ToSet(path)
  OBVIOUS
<1>4. /\ len \in Nat /\ plen \in Nat /\ len <= plen /\ n \in 0..len /\ m \in 1..len
      /\ \A i \in 1..len : i > m => v.stack[i] = {}
      /\ a \in v.stack[m]
      /\ path \in Seq(DOMAIN dag) /\ Len(path) = plen - n + 1
      /\ \A i \in 1..(plen - n) : path[i] = v.path[i]
      /\ path[Len(path)] = a
      /\ stack \in Seq(SUBSET Authorisers) /\ Len(stack) = m
      /\ \A i \in 1..(m - 1) : stack[i] = v.stack[i]
      /\ stack[m] = v.stack[m] \ {a}
  <2>1. Takes(v, n, a, path, stack) /\ WalkOK(v)
    BY <1>1, <1>2, <1>3
  <2>2. len \in Nat /\ plen \in Nat /\ len <= plen
    BY <1>3, <2>1 DEF WalkOK
  <2> QED BY <1>3, <2>1, <2>2 DEF Takes
<1>5. PICK kept : kept = plen - len + m
  OBVIOUS
<1>6. kept \in Nat /\ kept = plen - n /\ Len(path) = kept + 1 /\ kept <= plen
  <2>1. /\ len \in Nat /\ plen \in Nat /\ len <= plen /\ n \in 0..len
        /\ m = len - n /\ Len(path) = plen - n + 1
    BY <1>3, <1>4
  <2>2. PICK size : size = Len(path)
    OBVIOUS
  <2>3. kept \in Nat /\ kept = plen - n /\ size = kept + 1 /\ kept <= plen
    BY <1>5, <2>1, <2>2
  <2> QED
    BY <2>2, <2>3
<1>13. PICK d : d = Drop(path, 1)
  OBVIOUS
<1>14. /\ d \in Seq(DOMAIN dag) /\ Len(d) = kept /\ \A p \in 1..kept : d[p] = path[p]
  <2>1. path \in Seq(DOMAIN dag) /\ 1 \in 0..Len(path)
    BY <1>4, <1>6
  <2>2. /\ d \in Seq(DOMAIN dag) /\ Len(d) = Len(path) - 1
        /\ \A i \in 1..(Len(path) - 1) : d[i] = path[i]
    BY <1>13, <2>1, Dropped
  <2> QED BY <1>6, <2>2
<1>7. a \in DOMAIN dag /\ a \in on /\ on \subseteq ToSet(v.path) \cup {a}
  <2>1. DOMAIN path = 1..(kept + 1) /\ kept + 1 \in 1..(kept + 1) /\ path[kept + 1] = a
    BY <1>4, <1>6
  <2>2. on = {path[i] : i \in 1..(kept + 1)}
    BY <1>3, <2>1 DEF ToSet
  <2>3. v.path \in Seq(DOMAIN dag) /\ DOMAIN v.path = 1..plen
    BY <1>1, <1>3 DEF WalkOK
  <2>4. ToSet(v.path) = {v.path[i] : i \in 1..plen}
    BY <2>3 DEF ToSet
  <2>5. a \in on /\ a \in DOMAIN dag
    BY <1>4, <2>1, <2>2
  <2>6. ASSUME NEW i \in 1..(kept + 1) PROVE path[i] \in ToSet(v.path) \cup {a}
    <3>1. CASE i = kept + 1
      BY <2>1, <3>1
    <3>2. CASE i # kept + 1
      <4>1. i \in 1..kept /\ i \in 1..plen
        BY <1>4, <1>6, <3>2
      <4> QED BY <1>4, <1>6, <2>4, <4>1
    <3> QED BY <3>1, <3>2
  <2> QED BY <2>2, <2>5, <2>6
<1>8. \A p \in 1..kept : v.path[p] = path[p] /\ v.path[p] \in on
  <2>1. DOMAIN path = 1..(kept + 1)
    BY <1>4, <1>6
  <2>2. \A p \in 1..kept : p \in DOMAIN path /\ v.path[p] = path[p]
    BY <1>4, <1>6, <2>1
  <2> QED BY <1>3, <2>2 DEF ToSet
<1>9. marked = [seen |-> marked.seen, subgraph |-> marked.subgraph]
  BY DEF SearchTyped
<1>15. Took(v, m, kept, a, on)
  BY <1>3, <1>4, <1>5, <1>6, <1>7, <1>8 DEF Took
<1>10. CASE a \in marked.subgraph
  <2>1. PICK w : w = [path |-> d, stack |-> stack]
    OBVIOUS
  <2>2. walks' = [walks EXCEPT ![c] = w]
    BY <1>2, <1>10, <1>13, <2>1 DEF Evals
  <2>3. /\ marked'.seen = marked.seen /\ marked'.subgraph = marked.subgraph \cup on
    BY <1>2, <1>3, <1>9, <1>10 DEF Evals
  <2>4. /\ w.path \in Seq(DOMAIN dag) /\ Len(w.path) = kept
        /\ \A p \in 1..kept : w.path[p] = path[p]
    BY <1>14, <2>1
  <2>5. ToSet(w.path) \subseteq on
    <3>1. DOMAIN w.path = 1..kept
      BY <1>6, <2>4
    <3> QED BY <1>8, <2>4, <3>1 DEF ToSet
  <2>6. /\ Len(w.stack) = m /\ \A k \in 1..(m - 1) : w.stack[k] = v.stack[k]
        /\ w.stack[m] = v.stack[m] \ {a} /\ m # m + 1 /\ m \in Nat
    BY <1>4, <2>1
  <2>7. Goes(v, m, kept, a, on, w)
    <3>1. /\ Len(w.path) \in Nat /\ Len(w.path) - Len(w.stack) >= kept - m
          /\ \A p \in 1..kept : w.path[p] = v.path[p]
          /\ ToSet(w.path) \subseteq on
      <4>1. Len(w.path) \in Nat /\ Len(w.path) - Len(w.stack) >= kept - m
        BY <1>6, <2>4, <2>6
      <4> QED BY <1>8, <2>4, <2>5, <4>1
    <3>2. Len(w.stack) = m + 1 =>
            w.stack[m + 1] = dag[a].auth /\ w.path[Len(w.path)] = a
      BY <1>4, <2>1, <2>6
    <3> QED BY <1>10, <2>6, <3>1, <3>2 DEF Goes
  <2>8. MarksOn(a, on)
    BY <1>10, <2>3 DEF MarksOn
  <2> QED BY <1>3, <1>15, <2>2, <2>7, <2>8 DEF Moves
<1>11. CASE a \in marked.seen \ marked.subgraph
  <2>1. PICK w : w = [path |-> path, stack |-> stack]
    OBVIOUS
  <2>2. walks' = [walks EXCEPT ![c] = w]
    BY <1>2, <1>11, <2>1 DEF Evals
  <2>3. /\ marked'.seen = marked.seen \cup {a} /\ marked'.subgraph = marked.subgraph
    BY <1>2, <1>11 DEF Evals
  <2>6. /\ Len(w.stack) = m /\ \A k \in 1..(m - 1) : w.stack[k] = v.stack[k]
        /\ w.stack[m] = v.stack[m] \ {a} /\ m # m + 1 /\ m \in Nat
    BY <1>4, <2>1
  <2>7. Goes(v, m, kept, a, on, w)
    <3>1. /\ Len(w.path) \in Nat /\ Len(w.path) - Len(w.stack) >= kept - m
          /\ \A p \in 1..kept : w.path[p] = v.path[p]
          /\ ToSet(w.path) \subseteq on
      <4>1. w.path = path
        BY <2>1
      <4>2. Len(w.path) = kept + 1 /\ kept \in Nat /\ m \in Nat
            /\ (Len(w.stack) = m \/ Len(w.stack) = m + 1)
        BY <1>6, <2>6, <4>1
      <4>3. Len(w.path) \in Nat /\ Len(w.path) - Len(w.stack) >= kept - m
        BY <4>2
      <4> QED BY <1>3, <1>8, <4>1, <4>3
    <3>2. Len(w.stack) = m + 1 =>
            w.stack[m + 1] = dag[a].auth /\ w.path[Len(w.path)] = a
      BY <1>4, <2>1, <2>6
    <3> QED BY <1>11, <2>6, <3>1, <3>2 DEF Goes
  <2>8. MarksOn(a, on)
    BY <1>11, <2>3 DEF MarksOn
  <2> QED BY <1>3, <1>15, <2>2, <2>7, <2>8 DEF Moves
<1>12. CASE a \notin marked.seen \cup marked.subgraph
  <2>1. PICK w, st : /\ st = Append(stack, dag[a].auth)
                     /\ w = [path |-> path, stack |-> st]
    OBVIOUS
  <2>2. walks' = [walks EXCEPT ![c] = w]
    BY <1>2, <1>12, <2>1 DEF Evals
  <2>3. /\ marked'.seen = marked.seen \cup {a}
        /\ marked'.subgraph =
              marked.subgraph \cup IF a \in Conflicted THEN on ELSE {}
    BY <1>2, <1>3, <1>12 DEF Evals
  <2>4. dag[a].auth \in SUBSET Authorisers
    BY <1>7 DEF EventsOK
  <2>5. /\ Len(st) = m + 1 /\ \A k \in 1..m : st[k] = stack[k]
        /\ st[m + 1] = dag[a].auth
    BY <1>4, <2>1, <2>4
  <2>6. /\ Len(w.stack) = m + 1 /\ \A k \in 1..(m - 1) : w.stack[k] = v.stack[k]
        /\ w.stack[m] = v.stack[m] \ {a} /\ w.stack[m + 1] = dag[a].auth /\ m \in Nat
    BY <1>4, <2>1, <2>5
  <2>7. Goes(v, m, kept, a, on, w)
    <3>1. /\ Len(w.path) \in Nat /\ Len(w.path) - Len(w.stack) >= kept - m
          /\ \A p \in 1..kept : w.path[p] = v.path[p]
          /\ ToSet(w.path) \subseteq on
      <4>1. w.path = path
        BY <2>1
      <4>2. Len(w.path) = kept + 1 /\ kept \in Nat /\ m \in Nat
            /\ (Len(w.stack) = m \/ Len(w.stack) = m + 1)
        BY <1>6, <2>6, <4>1
      <4>3. Len(w.path) \in Nat /\ Len(w.path) - Len(w.stack) >= kept - m
        BY <4>2
      <4> QED BY <1>3, <1>8, <4>1, <4>3
    <3>2. Len(w.stack) = m + 1 =>
            w.stack[m + 1] = dag[a].auth /\ w.path[Len(w.path)] = a
      BY <1>4, <2>1, <2>6
    <3> QED BY <1>12, <2>6, <3>1, <3>2 DEF Goes
  <2>8. MarksOn(a, on)
    BY <1>12, <2>3 DEF MarksOn
  <2> QED BY <1>3, <1>15, <2>2, <2>7, <2>8 DEF Moves
<1> QED BY <1>10, <1>11, <1>12

\* An event with a conflicted one in its auth chain has an auth event that is
\* conflicted or leads there.
LEMMA LeadsOn ==
    ASSUME EventsOK, NEW a \in DOMAIN dag, dag[a].chain \cap Conflicted # {}
    PROVE  Leads(dag[a].auth)
<1>1. PICK x \in dag[a].chain : x \in Conflicted
  OBVIOUS
<1>2. /\ dag[a].chain = dag[a].auth \cup UNION {dag[b].chain : b \in dag[a].auth}
      /\ dag[a].auth \subseteq DOMAIN dag
  BY DEF EventsOK, ChainOK, Authorisers
<1>3. CASE x \in dag[a].auth
  BY <1>1, <1>2, <1>3 DEF Leads, Leading
<1>4. CASE x \notin dag[a].auth
  <2>1. PICK b \in dag[a].auth : x \in dag[b].chain
    BY <1>1, <1>2, <1>4
  <2> QED BY <1>1, <1>2, <2>1 DEF Leads, Leading
<1> QED BY <1>3, <1>4

\* With one walk at a time, the walk that runs is the first.
LEMMA FirstRuns ==
    ASSUME DagOK, EventsOK, OneBegun, width = 1, NEW c \in Running
    PROVE  c \in DOMAIN walks /\ \A d \in DOMAIN walks : ~(d < c)
<1>1. PICK T : T = {d \in DOMAIN walks : d < c}
  OBVIOUS
<1>2. c \in DOMAIN walks /\ Cardinality(T) < 1
  BY <1>1 DEF Running
<1>3. T \subseteq DOMAIN dag /\ DOMAIN dag = 1..Len(dag) /\ Len(dag) \in Nat
  BY <1>1, ConflictedKnown DEF OneBegun, DagOK
<1>4. IsFiniteSet(T)
  <2>1. IsFiniteSet(1..Len(dag))
    BY <1>3, FS_Interval
  <2> QED BY <1>3, <2>1, FS_Subset
<1>5. Cardinality(T) = 0
  BY <1>2, <1>4, FS_CardinalityType
<1>6. T = {}
  BY <1>4, <1>5, FS_EmptySet
<1> QED BY <1>1, <1>2, <1>6

\* What the room is made of stays while walks run.
LEMMA RoomSame ==
    ASSUME UNCHANGED room
    PROVE  /\ Conflicted' = Conflicted /\ Leading' = Leading /\ dag' = dag
           /\ width' = width /\ rules' = rules
           /\ \A c : Fresh(c)' = Fresh(c)
           /\ \A f : Leads(f)' = Leads(f)
BY DEF room, Conflicted, Agreed, Leading, Fresh, Leads

\* The other walks stay as they are.
LEMMA OneBegunMoves ==
    ASSUME OneBegun, UNCHANGED room, NEW c \in DOMAIN walks, NEW w,
           \A d \in DOMAIN walks : ~(d < c), walks' = [walks EXCEPT ![c] = w]
    PROVE  OneBegun'
<1>1. DOMAIN walks' = DOMAIN walks /\ \A d \in DOMAIN walks : d # c => walks'[d] = walks[d]
  OBVIOUS
<1>2. Conflicted' = Conflicted /\ \A d : Fresh(d)' = Fresh(d)
  BY RoomSame
<1>3. ASSUME NEW b \in DOMAIN walks, NEW d \in DOMAIN walks, d < b
      PROVE  walks'[b] = Fresh(b)'
  <2>1. b # c
    BY <1>3
  <2> QED BY <1>1, <1>2, <1>3, <2>1 DEF OneBegun
<1> QED BY <1>1, <1>2, <1>3 DEF OneBegun

\* The marks stay in order.
LEMMA MarksMove ==
    ASSUME MarksOK, UNCHANGED room, NEW c \in DOMAIN walks,
           NEW m, NEW kept, NEW a, NEW on, NEW w, Moves(c, m, kept, a, on, w)
    PROVE  MarksOK' /\ (a \in marked'.seen \cup Conflicted)
<1>1. PICK V, G, W, H, C : /\ V = marked.seen /\ G = marked.subgraph
                           /\ W = marked'.seen /\ H = marked'.subgraph /\ C = Conflicted
  OBVIOUS
<1>2. /\ W = V \cup IF a \in G THEN {} ELSE {a}
      /\ H = G \cup IF a \in G \/ (a \notin V /\ a \in C) THEN on ELSE {}
  BY <1>1 DEF Moves, MarksOn
<1>3. /\ G \subseteq V \cup C /\ C \cap V \subseteq G
      /\ \A d \in DOMAIN walks : ToSet(walks[d].path) \subseteq V \cup C
  BY <1>1 DEF MarksOK
<1>4. /\ a \in on /\ on \subseteq ToSet(walks[c].path) \cup {a}
      /\ ToSet(w.path) \subseteq on /\ walks' = [walks EXCEPT ![c] = w]
  BY DEF Moves, Took, Goes
<1>5. a \in W \cup C /\ V \subseteq W
  BY <1>2, <1>3
<1>6. on \subseteq W \cup C
  BY <1>3, <1>4, <1>5
<1>7. H \subseteq W \cup C /\ C \cap W \subseteq H
  BY <1>2, <1>3, <1>4, <1>5, <1>6
<1>8. \A d \in DOMAIN walks' : ToSet(walks'[d].path) \subseteq W \cup C
  BY <1>3, <1>4, <1>5, <1>6
<1>9. Conflicted' = C
  BY <1>1, RoomSame
<1> QED BY <1>1, <1>5, <1>7, <1>8, <1>9 DEF MarksOK

\* What is taken off a stack was seen, and what it is authorised by is on it then.
LEMMA NoneMissedMoves ==
    ASSUME MarksOK, NoneMissed, EventsOK, UNCHANGED room, NEW c \in DOMAIN walks,
           NEW m, NEW kept, NEW a, NEW on, NEW w, Moves(c, m, kept, a, on, w),
           Len(walks[c].stack) \in Nat
    PROVE  NoneMissed'
<1>1. PICK W, C, v : W = marked'.seen /\ C = Conflicted /\ v = walks[c]
  OBVIOUS
<1>2. Conflicted' = C /\ dag' = dag
  BY <1>1, RoomSame
<1>3. a \in W \cup C
  BY <1>1, MarksMove
<1>4. /\ m \in 1..Len(v.stack) /\ \A i \in 1..Len(v.stack) : i > m => v.stack[i] = {}
      /\ Len(w.stack) = IF a \in marked.seen \cup marked.subgraph THEN m ELSE m + 1
      /\ \A k \in 1..(m - 1) : w.stack[k] = v.stack[k]
      /\ w.stack[m] = v.stack[m] \ {a}
      /\ Len(w.stack) = m + 1 => w.stack[m + 1] = dag[a].auth
      /\ walks' = [walks EXCEPT ![c] = w]
  BY <1>1 DEF Moves, Took, Goes
<1>5. m \in Nat /\ m \in 1..Len(w.stack) /\ (m - 1) \in Nat
      /\ \A k \in 1..(m - 1) : k \in 1..Len(w.stack)
  BY <1>1, <1>4
<1>6. DOMAIN walks' = DOMAIN walks /\ walks'[c] = w
      /\ \A d \in DOMAIN walks : d # c => walks'[d] = walks[d]
  BY <1>4
<1>7. W = marked.seen \cup IF a \in marked.subgraph THEN {} ELSE {a}
  BY <1>1 DEF Moves, MarksOn
<1>8. SUFFICES ASSUME NEW x \in W \cup C, NEW b \in dag[x].auth, b \notin W \cup C
               PROVE  \E d \in DOMAIN walks : \E k \in 1..Len(walks'[d].stack) :
                         b \in walks'[d].stack[k]
  BY <1>1, <1>2, <1>6 DEF NoneMissed
<1>9. CASE x \in marked.seen \cup C
  <2>1. PICK d \in DOMAIN walks : \E k \in 1..Len(walks[d].stack) : b \in walks[d].stack[k]
    BY <1>1, <1>7, <1>8, <1>9 DEF NoneMissed
  <2>2. CASE d # c
    BY <1>6, <2>1, <2>2
  <2>3. CASE d = c
    <3>1. PICK k \in 1..Len(v.stack) : b \in v.stack[k]
      BY <1>1, <2>1, <2>3
    <3>2. k <= m
      BY <1>1, <1>4, <1>5, <3>1
    <3>3. CASE k = m
      <4>1. b \in w.stack[m]
        BY <1>3, <1>4, <1>8, <3>1, <3>3
      <4> QED BY <1>5, <1>6, <4>1
    <3>4. CASE k # m
      <4>1. k \in 1..(m - 1)
        BY <1>5, <3>1, <3>2, <3>4
      <4>2. b \in w.stack[k] /\ k \in 1..Len(w.stack)
        BY <1>4, <1>5, <3>1, <4>1
      <4> QED BY <1>6, <4>2
    <3> QED BY <3>3, <3>4
  <2> QED BY <2>2, <2>3
<1>10. CASE x \notin marked.seen \cup C
  <2>1. x = a /\ a \notin marked.subgraph
    BY <1>7, <1>8, <1>10
  <2>2. a \notin marked.seen \cup marked.subgraph
    BY <1>10, <2>1
  <2>3. Len(w.stack) = m + 1 /\ b \in w.stack[m + 1] /\ m + 1 \in 1..Len(w.stack)
    BY <1>4, <1>5, <1>8, <2>1, <2>2
  <2> QED BY <1>6, <2>3
<1> QED BY <1>9, <1>10

\* The owners of a walk's frames after a move
OwnersAfter(w, m, a, own) == [k \in 1..Len(w.stack) |-> IF k <= m THEN own[k] ELSE a]

LEMMA OwnersMove ==
    ASSUME DagOK, NEW v, NEW m, NEW kept, NEW a, NEW on, NEW w, NEW own, Owners(v, own),
           Took(v, m, kept, a, on), Goes(v, m, kept, a, on, w),
           Len(v.stack) \in Nat, Len(v.path) \in Nat
    PROVE  /\ Owners(w, OwnersAfter(w, m, a, own))
           /\ \A k \in 1..m : own[k] \in on /\ a < own[k]
<1>1. PICK new : new = OwnersAfter(w, m, a, own)
  OBVIOUS
<1>2. /\ m \in 1..Len(v.stack) /\ a \in v.stack[m] /\ a \in DOMAIN dag /\ m \in Nat
      /\ kept = Len(v.path) - Len(v.stack) + m /\ kept \in Nat
      /\ \A p \in 1..kept : v.path[p] \in on /\ w.path[p] = v.path[p]
  BY DEF Took, Goes
<1>3. /\ Len(w.stack) \in {m, m + 1}
      /\ \A k \in 1..(m - 1) : w.stack[k] = v.stack[k]
      /\ w.stack[m] = v.stack[m] \ {a}
      /\ Len(w.stack) = m + 1 => w.stack[m + 1] = dag[a].auth /\ w.path[Len(w.path)] = a
      /\ Len(w.path) \in Nat /\ Len(w.path) - Len(w.stack) >= kept - m
  BY DEF Goes
<1>4. /\ own \in [1..Len(v.stack) -> DOMAIN dag]
      /\ \A k \in 1..Len(v.stack) : v.stack[k] \subseteq dag[own[k]].auth
      /\ \A j, k \in 1..Len(v.stack) : k <= j => own[j] <= own[k]
      /\ \A k \in 1..Len(v.stack) :
            \E p \in 1..(Len(v.path) - Len(v.stack) + k) : v.path[p] = own[k]
  BY DEF Owners
<1>5. DOMAIN dag \subseteq Nat /\ \A i \in DOMAIN dag : dag[i].auth \subseteq 1..(i - 1)
  BY DEF DagOK
<1>6. \A k \in 1..m : k \in 1..Len(v.stack) /\ k <= m /\ m <= Len(v.stack)
  BY <1>2
<1>7. a < own[m]
  <2>1. a \in dag[own[m]].auth /\ own[m] \in DOMAIN dag
    BY <1>2, <1>4
  <2>2. a \in 1..(own[m] - 1) /\ own[m] \in Nat
    BY <1>5, <2>1
  <2> QED BY <2>2
<1>8. \A k \in 1..m : own[k] \in DOMAIN dag /\ own[k] \in Nat /\ a < own[k] /\ a \in Nat
  <2> SUFFICES ASSUME NEW k \in 1..m
               PROVE  own[k] \in DOMAIN dag /\ own[k] \in Nat /\ a < own[k] /\ a \in Nat
    OBVIOUS
  <2>1. own[k] \in DOMAIN dag /\ own[m] \in DOMAIN dag /\ own[m] <= own[k]
    BY <1>2, <1>4, <1>6
  <2>2. own[k] \in Nat /\ own[m] \in Nat /\ a \in Nat
    BY <1>2, <1>5, <2>1
  <2> QED BY <1>7, <2>1, <2>2
<1>16. PICK vp, vs, wp, ws : vp = Len(v.path) /\ vs = Len(v.stack)
                             /\ wp = Len(w.path) /\ ws = Len(w.stack)
  OBVIOUS
<1>17. /\ m \in Nat /\ kept \in Nat /\ vp \in Nat /\ vs \in Nat /\ wp \in Nat
       /\ kept = vp - vs + m
  BY <1>2, <1>3, <1>16
<1>18. ws \in Nat /\ (ws = m \/ ws = m + 1) /\ wp - ws >= kept - m
  <2>1. Len(w.stack) \in {m, m + 1} /\ Len(w.path) - Len(w.stack) >= kept - m
    BY <1>3
  <2>2. ws \in {m, m + 1} /\ wp - ws >= kept - m
    BY <1>16, <2>1
  <2> QED BY <1>17, <2>2
<1>19. vp - vs = kept - m
  BY <1>17
<1>9. ASSUME NEW k \in 1..m
      PROVE  \E p \in 1..(kept - m + k) : p \in 1..kept /\ v.path[p] = own[k]
  <2>1. PICK p \in 1..(Len(v.path) - Len(v.stack) + k) : v.path[p] = own[k]
    BY <1>4, <1>6
  <2>2. p \in 1..(kept - m + k)
    BY <1>16, <1>19, <2>1
  <2>3. p \in 1..kept
    BY <1>17, <2>2
  <2> QED BY <2>1, <2>2, <2>3
<1>10. \A k \in 1..m : own[k] \in on
  BY <1>2, <1>9
<1>11. /\ new \in [1..Len(w.stack) -> DOMAIN dag]
       /\ \A k \in 1..m : new[k] = own[k]
       /\ Len(w.stack) = m + 1 => new[m + 1] = a
       /\ \A k \in 1..Len(w.stack) :
             k \in 1..m \/ (k = m + 1 /\ Len(w.stack) = m + 1)
  BY <1>1, <1>2, <1>3, <1>8 DEF OwnersAfter
<1>12. \A k \in 1..Len(w.stack) : w.stack[k] \subseteq dag[new[k]].auth
  <2> SUFFICES ASSUME NEW k \in 1..Len(w.stack)
               PROVE  w.stack[k] \subseteq dag[new[k]].auth
    OBVIOUS
  <2>1. CASE k \in 1..m
    <3>1. w.stack[k] \subseteq v.stack[k]
      BY <1>2, <1>3, <2>1
    <3>2. v.stack[k] \subseteq dag[own[k]].auth /\ new[k] = own[k]
      BY <1>4, <1>6, <1>11, <2>1
    <3> QED BY <3>1, <3>2
  <2>2. CASE k \notin 1..m
    BY <1>3, <1>11, <2>2
  <2> QED BY <2>1, <2>2
<1>13. \A j, k \in 1..Len(w.stack) : k <= j => new[j] <= new[k]
  <2> SUFFICES ASSUME NEW j \in 1..Len(w.stack), NEW k \in 1..Len(w.stack), k <= j
               PROVE  new[j] <= new[k]
    OBVIOUS
  <2>1. CASE j \in 1..m
    <3>1. k \in 1..m
      BY <1>2, <1>3, <2>1
    <3> QED BY <1>4, <1>6, <1>11, <2>1, <3>1
  <2>2. CASE j \notin 1..m
    <3>1. new[j] = a
      BY <1>11, <2>2
    <3>2. CASE k \in 1..m
      BY <1>8, <1>11, <3>1, <3>2
    <3>3. CASE k \notin 1..m
      <4>1. new[k] = a /\ a \in Nat
        BY <1>2, <1>5, <1>11, <3>3
      <4> QED BY <3>1, <4>1
    <3> QED BY <3>2, <3>3
  <2> QED BY <2>1, <2>2
<1>14. ASSUME NEW k \in 1..Len(w.stack)
       PROVE  \E p \in 1..(Len(w.path) - Len(w.stack) + k) : w.path[p] = new[k]
  <2>1. CASE k \in 1..m
    <3>1. PICK p \in 1..(kept - m + k) : p \in 1..kept /\ v.path[p] = own[k]
      BY <1>9, <2>1
    <3>2. w.path[p] = new[k]
      BY <1>2, <1>11, <2>1, <3>1
    <3>3. p \in 1..(Len(w.path) - Len(w.stack) + k)
      <4>1. p \in 1..(wp - ws + k)
        BY <1>17, <1>18, <3>1
      <4> QED BY <1>16, <4>1
    <3> QED BY <3>2, <3>3
  <2>2. CASE k \notin 1..m
    <3>1. k = m + 1 /\ Len(w.stack) = m + 1 /\ new[k] = a /\ w.path[Len(w.path)] = a
      BY <1>3, <1>11, <2>2
    <3>2. k = ws /\ wp >= 1
      <4>1. k = m + 1 /\ ws = m + 1
        BY <1>16, <3>1
      <4> QED BY <1>17, <1>18, <4>1
    <3>3. Len(w.path) \in 1..(Len(w.path) - Len(w.stack) + k)
      <4>1. wp \in 1..(wp - ws + k)
        BY <1>17, <1>18, <3>2
      <4> QED BY <1>16, <4>1
    <3> QED BY <3>1, <3>3
  <2> QED BY <2>1, <2>2
<1>15. Owners(w, new)
  BY <1>11, <1>12, <1>13, <1>14 DEF Owners
<1> QED BY <1>1, <1>8, <1>10, <1>15

\* What was pending is found or is pending still.
LEMMA PendingMoves ==
    ASSUME DagOK, EventsOK, MarksOK, UNCHANGED room, NEW c \in DOMAIN walks,
           NEW m, NEW kept, NEW a, NEW on, NEW w, Moves(c, m, kept, a, on, w),
           Len(walks[c].stack) \in Nat, Len(walks[c].path) \in Nat,
           NEW own, Owners(walks[c], own), Pending(walks[c], own)
    PROVE  (\E new : Owners(w, new) /\ Pending(w, new))'
<1>1. PICK v, new : v = walks[c] /\ new = OwnersAfter(w, m, a, own)
  OBVIOUS
<1>2. PICK V, G, W, H, C : /\ V = marked.seen /\ G = marked.subgraph
                           /\ W = marked'.seen /\ H = marked'.subgraph /\ C = Conflicted
  OBVIOUS
<1>3. Owners(v, own) /\ Took(v, m, kept, a, on) /\ Goes(v, m, kept, a, on, w)
      /\ Len(v.stack) \in Nat /\ Len(v.path) \in Nat
  BY <1>1 DEF Moves
<1>4. Owners(w, new) /\ \A k \in 1..m : own[k] \in on /\ a < own[k]
  BY <1>1, <1>3, OwnersMove
<1>5. /\ m \in 1..Len(v.stack) /\ a \in v.stack[m] /\ a \in DOMAIN dag /\ a \in on
      /\ \A i \in 1..Len(v.stack) : i > m => v.stack[i] = {}
  BY <1>3 DEF Took
<1>6. /\ Len(w.stack) = IF a \in V \cup G THEN m ELSE m + 1
      /\ \A k \in 1..(m - 1) : w.stack[k] = v.stack[k]
      /\ w.stack[m] = v.stack[m] \ {a}
      /\ Len(w.stack) = m + 1 => w.stack[m + 1] = dag[a].auth
  BY <1>2, <1>3 DEF Goes
<1>7. /\ W = V \cup IF a \in G THEN {} ELSE {a}
      /\ H = G \cup IF a \in G \/ (a \notin V /\ a \in C) THEN on ELSE {}
  BY <1>2 DEF Moves, MarksOn
<1>8. m \in Nat /\ m \in 1..Len(w.stack) /\ (a \notin V \cup G => m + 1 \in 1..Len(w.stack))
      /\ \A k \in 1..m : k \in 1..Len(w.stack) /\ k \in 1..Len(v.stack)
  BY <1>3, <1>5, <1>6
<1>9. /\ \A k \in 1..m : new[k] = own[k]
      /\ a \notin V \cup G => new[m + 1] = a
  BY <1>1, <1>8 DEF OwnersAfter
<1>10. ASSUME NEW x \in V \ G, Leads(dag[x].auth)
       PROVE  \E k, j \in 1..m : k <= j /\ own[k] = x /\ Leads(v.stack[j])
  <2>1. PICK k \in 1..Len(v.stack), j \in 1..Len(v.stack) :
           k <= j /\ own[k] = x /\ Leads(v.stack[j])
    BY <1>1, <1>2, <1>10 DEF Pending
  <2>2. v.stack[j] # {}
    BY <2>1 DEF Leads
  <2>3. j \in 1..m /\ k \in 1..m
    BY <1>3, <1>5, <1>8, <2>1, <2>2
  <2> QED BY <2>1, <2>3
<1>11. SUFFICES ASSUME NEW x \in W \ H, Leads(dag[x].auth)
                PROVE  \E k, j \in 1..Len(w.stack) : k <= j /\ new[k] = x /\ Leads(w.stack[j])
  <2>1. dag' = dag /\ Leading' = Leading
    BY RoomSame
  <2>2. ASSUME \A x \in W \ H : Leads(dag[x].auth) =>
                  \E k, j \in 1..Len(w.stack) : k <= j /\ new[k] = x /\ Leads(w.stack[j])
        PROVE  Owners(w, new)' /\ Pending(w, new)'
    <3>1. Owners(w, new)'
      BY <1>4, <2>1 DEF Owners
    <3>2. Pending(w, new)'
      BY <1>2, <2>1, <2>2 DEF Pending, Leads
    <3> QED BY <3>1, <3>2
  <2> QED BY <2>2
<1>12. CASE a \in G \/ (a \notin V /\ a \in C)
  <2>1. on \subseteq H /\ x \in V \ G
    BY <1>5, <1>7, <1>11, <1>12
  <2>2. PICK k \in 1..m : own[k] = x
    BY <1>10, <1>11, <2>1
  <2> QED BY <1>4, <1>11, <2>1, <2>2
<1>13. CASE ~(a \in G \/ (a \notin V /\ a \in C))
  <2>1. H = G /\ W = V \cup {a} /\ a \notin G
    BY <1>7, <1>13
  <2>2. a \notin C
    BY <1>2, <1>13 DEF MarksOK
  <2>3. a \in Leading => Leads(dag[a].auth)
    BY <1>2, <1>5, <2>2, LeadsOn DEF Leading
  <2>4. a \in V => a \notin Leading
    <3> SUFFICES ASSUME a \in V, a \in Leading PROVE FALSE
      OBVIOUS
    <3>1. PICK k \in 1..m : own[k] = a
      BY <1>10, <2>1, <2>3
    <3>2. a < a /\ a \in Nat
      BY <1>4, <1>5, <3>1 DEF DagOK
    <3> QED BY <3>2
  <2>5. CASE x \in V
    <3>1. x \in V \ G
      BY <1>11, <2>1, <2>5
    <3>2. PICK k \in 1..m, j \in 1..m : k <= j /\ own[k] = x /\ Leads(v.stack[j])
      BY <1>10, <1>11, <3>1
    <3>3. new[k] = x /\ k \in 1..Len(w.stack) /\ j \in 1..Len(w.stack)
      BY <1>8, <1>9, <3>2
    <3>4. CASE j # m
      <4>1. j \in 1..(m - 1)
        BY <1>8, <3>2, <3>4
      <4> QED BY <1>6, <3>2, <3>3, <4>1
    <3>5. CASE j = m /\ a \notin Leading
      <4>1. Leads(w.stack[m])
        BY <1>6, <3>2, <3>5 DEF Leads
      <4> QED BY <3>2, <3>3, <3>5, <4>1
    <3>6. CASE j = m /\ a \in Leading
      <4>1. a \notin V \cup G
        BY <2>1, <2>4, <3>6
      <4>2. Leads(w.stack[m + 1]) /\ m + 1 \in 1..Len(w.stack)
        BY <1>6, <1>8, <2>3, <3>6, <4>1
      <4>3. k <= m + 1
        BY <1>8, <3>2
      <4> QED BY <3>3, <4>2, <4>3
    <3> QED BY <3>4, <3>5, <3>6
  <2>6. CASE x \notin V
    <3>1. x = a /\ a \notin V \cup G
      BY <1>11, <2>1, <2>6
    <3>2. Leads(w.stack[m + 1]) /\ m + 1 \in 1..Len(w.stack) /\ new[m + 1] = x
      BY <1>6, <1>8, <1>9, <1>11, <3>1
    <3>3. m + 1 <= m + 1
      BY <1>8
    <3> QED BY <3>2, <3>3
  <2> QED BY <2>5, <2>6
<1> QED BY <1>12, <1>13

\* A walk that has not begun owns the auth events of its event.
LEMMA FreshOwners ==
    ASSUME DagOK, NEW c \in DOMAIN dag
    PROVE  Owners(Fresh(c), [k \in 1..2 |-> c])
<1>1. PICK w, own : w = Fresh(c) /\ own = [k \in 1..2 |-> c]
  OBVIOUS
<1>2. /\ Len(w.stack) = 2 /\ Len(w.path) = 2 /\ w.stack[1] = {} /\ w.stack[2] = dag[c].auth
      /\ w.path[1] = c
  BY <1>1 DEF Fresh
<1>3. own \in [1..2 -> DOMAIN dag] /\ own[1] = c /\ own[2] = c /\ c \in Nat
  BY <1>1 DEF DagOK
<1>4. \A k \in 1..2 : k = 1 \/ k = 2
  OBVIOUS
<1>5. \A k \in 1..2 : w.stack[k] \subseteq dag[own[k]].auth
  BY <1>2, <1>3, <1>4
<1>6. \A j, k \in 1..2 : k <= j => own[j] <= own[k]
  BY <1>3, <1>4
<1>7. ASSUME NEW k \in 1..2 PROVE \E p \in 1..(2 - 2 + k) : w.path[p] = own[k]
  <2>1. 1 \in 1..(2 - 2 + k) /\ own[k] = c
    BY <1>3, <1>4
  <2> QED BY <1>2, <2>1
<1>8. Owners(w, own)
  BY <1>2, <1>3, <1>5, <1>6, <1>7 DEF Owners
<1> QED BY <1>1, <1>8

\* A walk ends when nothing is left of it, and then nothing is pending.
LEMMA NothingLostEnds ==
    ASSUME DagOK, EventsOK, SearchTyped, OneBegun, MarksOK, NoneMissed, NothingLost,
           UNCHANGED room, NEW c \in DOMAIN walks, \A d \in DOMAIN walks : ~(d < c),
           WalkEnds(c)
    PROVE  OneBegun' /\ MarksOK' /\ NoneMissed' /\ NothingLost'
<1>1. PICK v, len : v = walks[c] /\ len = Len(v.stack)
  OBVIOUS
<1>2. v.stack \in Seq(SUBSET Authorisers) /\ len \in Nat
  BY <1>1 DEF SearchTyped, WalkOK
<1>3. \A i \in 1..len : v.stack[i] = {}
  <2>1. PICK n : n = UsedUp(v)
    OBVIOUS
  <2>2. n = len
    BY <1>1, <2>1 DEF WalkEnds
  <2>3. \A i \in Len(v.stack) - n + 1 .. Len(v.stack) : v.stack[i] = {}
    BY <1>2, <2>1, UsedUpLast
  <2> QED BY <1>1, <1>2, <2>2, <2>3
<1>4. /\ UNCHANGED marked /\ DOMAIN walks' = DOMAIN walks \ {c}
      /\ \A d \in DOMAIN walks' : walks'[d] = walks[d]
  BY DEF WalkEnds
<1>5. /\ Conflicted' = Conflicted /\ Leading' = Leading /\ dag' = dag
      /\ \A d : Fresh(d)' = Fresh(d)
  BY RoomSame
<1>6. OneBegun'
  BY <1>4, <1>5 DEF OneBegun
<1>7. MarksOK'
  BY <1>4, <1>5 DEF MarksOK
<1>8. NoneMissed'
  <2> SUFFICES ASSUME NEW a \in marked.seen \cup Conflicted, NEW b \in dag[a].auth,
                      b \notin marked.seen \cup Conflicted
               PROVE  \E d \in DOMAIN walks' : \E k \in 1..Len(walks'[d].stack) :
                         b \in walks'[d].stack[k]
    BY <1>4, <1>5 DEF NoneMissed
  <2>1. PICK d \in DOMAIN walks : \E k \in 1..Len(walks[d].stack) : b \in walks[d].stack[k]
    BY DEF NoneMissed
  <2>2. d # c
    BY <1>1, <1>3, <2>1
  <2> QED BY <1>4, <2>1, <2>2
<1>9. \A a \in marked.seen \ marked.subgraph : ~Leads(dag[a].auth)
  <2>1. PICK own : Pending(v, own)
    BY <1>1 DEF NothingLost
  <2>2. \A j \in 1..Len(v.stack) : ~Leads(v.stack[j])
    BY <1>1, <1>3 DEF Leads
  <2> QED BY <2>1, <2>2 DEF Pending
<1>10. ASSUME NEW d \in DOMAIN walks', \A e \in DOMAIN walks' : ~(e < d)
       PROVE  (\E own : Owners(walks[d], own) /\ Pending(walks[d], own))'
  <2>1. d \in DOMAIN walks /\ d # c /\ d \in DOMAIN dag /\ c \in DOMAIN dag
    BY <1>4, <1>10, ConflictedKnown DEF OneBegun
  <2>2. c < d
    <3>1. c \in Nat /\ d \in Nat /\ ~(d < c)
      BY <2>1 DEF DagOK
    <3> QED BY <2>1, <3>1
  <2>3. walks'[d] = Fresh(d)
    BY <1>4, <1>10, <2>1, <2>2 DEF OneBegun
  <2>4. PICK own : Owners(walks'[d], own)
    BY <2>1, <2>3, FreshOwners
  <2>5. Owners(walks[d], own)'
    BY <1>5, <2>4 DEF Owners
  <2>6. Pending(walks[d], own)'
    BY <1>4, <1>5, <1>9 DEF Pending, Leads
  <2> QED BY <2>5, <2>6
<1>11. NothingLost'
  <2>1. \A a \in marked'.seen \ marked'.subgraph : ~(Leads(dag[a].auth))'
    BY <1>4, <1>5, <1>9 DEF Leads
  <2> QED BY <1>10, <2>1 DEF NothingLost
<1> QED BY <1>6, <1>7, <1>8, <1>11

\* The walks begin with their conflicted events, and nothing is marked.
LEMMA SearchBegins ==
    ASSUME DagOK, EventsOK, UNCHANGED room, marked' = NoMarks,
           walks' = [c \in Conflicted |-> Fresh(c)], Conflicted # {}
    PROVE  OneBegun' /\ MarksOK' /\ NoneMissed' /\ NothingLost'
<1>1. /\ Conflicted' = Conflicted /\ Leading' = Leading /\ dag' = dag
      /\ \A d : Fresh(d)' = Fresh(d)
  BY RoomSame
<1>2. /\ DOMAIN walks' = Conflicted /\ \A c \in Conflicted : walks'[c] = Fresh(c)
      /\ marked'.seen = {} /\ marked'.subgraph = {}
  BY DEF NoMarks
<1>3. OneBegun'
  BY <1>1, <1>2 DEF OneBegun
<1>4. MarksOK'
  <2>1. ASSUME NEW c \in Conflicted PROVE ToSet(walks'[c].path) \subseteq Conflicted
    <3>1. walks'[c].path = <<c, c>>
      BY <1>2 DEF Fresh
    <3> QED BY <3>1 DEF ToSet
  <2> QED BY <1>1, <1>2, <2>1 DEF MarksOK
<1>5. NoneMissed'
  <2>1. ASSUME NEW a \in Conflicted, NEW b \in dag[a].auth
        PROVE  \E k \in 1..Len(walks'[a].stack) : b \in walks'[a].stack[k]
    <3>1. walks'[a].stack = <<{}, dag[a].auth>>
      BY <1>2 DEF Fresh
    <3> QED BY <3>1
  <2> QED BY <1>1, <1>2, <2>1 DEF NoneMissed
<1>6. ASSUME NEW c \in Conflicted
      PROVE  (\E own : Owners(walks[c], own) /\ Pending(walks[c], own))'
  <2>1. PICK own : Owners(walks'[c], own)
    BY <1>2, ConflictedKnown, FreshOwners
  <2>2. Owners(walks[c], own)'
    BY <1>1, <2>1 DEF Owners
  <2>3. Pending(walks[c], own)'
    BY <1>2 DEF Pending
  <2> QED BY <2>2, <2>3
<1>7. NothingLost'
  BY <1>2, <1>6 DEF NothingLost
<1> QED BY <1>3, <1>4, <1>5, <1>7

\* When all walks have ended, everything between two conflicted events is in the
\* subgraph.
LEMMA SearchEnds ==
    ASSUME EventsOK, MarksOK, NoneMissed, NothingLost, DOMAIN walks = {},
           marked.seen \subseteq DOMAIN dag
    PROVE  Between \subseteq marked.subgraph \cup Conflicted
<1> SUFFICES ASSUME NEW i \in Between, i \notin Conflicted PROVE i \in marked.subgraph
  OBVIOUS
<1>1. PICK c \in Conflicted : i \in dag[c].chain
  BY DEF Between
<1>2. PICK S : S = marked.seen \cup Conflicted
  OBVIOUS
<1>3. S \in SUBSET DOMAIN dag /\ \A a \in S : dag[a].auth \subseteq S
  BY <1>2, ConflictedKnown DEF NoneMissed
<1>4. c \in S /\ c \in DOMAIN dag /\ ChainOK(c)
  BY <1>2, <1>3 DEF EventsOK
<1>5. dag[c].chain \subseteq S
  BY <1>3, <1>4 DEF ChainOK
<1>6. i \in marked.seen /\ i \in DOMAIN dag
  BY <1>1, <1>2, <1>3, <1>5
<1>7. Leads(dag[i].auth)
  BY <1>6, LeadsOn DEF Between
<1> QED BY <1>6, <1>7 DEF NothingLost

\* The events of the definition are known.
LEMMA AuthDifferenceKnown ==
    ASSUME DagOK, EventsOK PROVE AuthDifference \subseteq DOMAIN dag
<1>1. DOMAIN dag = 1..Len(dag) /\ Len(dag) \in Nat
  BY DEF DagOK
<1>2. ASSUME NEW i \in DOMAIN dag PROVE dag[i].chain \subseteq DOMAIN dag
  <2>1. dag[i].chain \subseteq 1..(i - 1)
    BY DEF EventsOK, ChainOK
  <2>2. 1..(i - 1) \subseteq 1..Len(dag)
    BY <1>1
  <2> QED BY <1>1, <2>1, <2>2
<1>3. \A f \in Fork : AuthSet(f) \subseteq DOMAIN dag
  BY <1>2 DEF AuthSet, DagOK
<1> QED BY <1>3 DEF AuthDifference, Fork

\* Every step keeps the search in order, and what it has found.
LEMMA FoundStep ==
    Inv /\ EventsOK /\ SearchTyped /\ SearchOK /\ SubgraphFound /\ [Next]_vars
        => SearchOK' /\ SubgraphFound'
<1> SUFFICES ASSUME Inv, EventsOK, SearchTyped, SearchOK, SubgraphFound, [Next]_vars
             PROVE  SearchOK' /\ SubgraphFound'
  OBVIOUS
<1>0. DagOK
  BY DEF Inv
<1>1. CASE Extend \/ (\E n \in DOMAIN Menu : Diverge(Menu[n])) \/ Other
  <2>1. /\ phase \in {"trunk", "fork", "other"} /\ phase' \in {"trunk", "fork", "other"}
        /\ UNCHANGED marked
    BY <1>1 DEF Extend, Diverge, Other, search
  <2> QED BY <2>1 DEF SearchOK, SubgraphFound, Searching
<1>2. ASSUME phase' \notin {"trunk", "fork", "other", "walk"}, UNCHANGED <<room, full>>,
             phase \in {"sort", "power", "rest"} \/ phase' = "done"
      PROVE  SearchOK' /\ SubgraphFound'
  <2>1. SearchOK'
    BY <1>2 DEF SearchOK, Searching
  <2>2. FullSet' = FullSet /\ width' = width
    BY <1>2 DEF room, FullSet, AuthDifference, AuthSet, Conflicted, Agreed, Between
  <2>3. SubgraphFound'
    BY <1>2, <2>2 DEF SubgraphFound
  <2> QED BY <2>1, <2>3
<1>3. CASE Split
  <2>1. UNCHANGED <<room, marked, full>> /\ phase = "other" /\ marked = NoMarks
        /\ marked' = NoMarks
    BY <1>3 DEF Split, SearchOK
  <2>2. CASE Conflicted = {}
    BY <1>2, <1>3, <2>1, <2>2 DEF Split
  <2>3. CASE Conflicted # {}
    <3>1. phase' = "walk"
      BY <1>3, <2>3 DEF Split
    <3>2. ASSUME Searching'
          PROVE  OneBegun' /\ MarksOK' /\ NoneMissed' /\ NothingLost'
      <4>1. rules.subgraph
        BY <2>1, <3>2 DEF room, Searching
      <4>2. walks' = [c \in Conflicted |-> Fresh(c)]
        BY <1>3, <2>3, <4>1 DEF Split, Fresh
      <4> QED BY <1>0, <2>1, <2>3, <4>2, SearchBegins
    <3> QED BY <3>1, <3>2 DEF SearchOK, SubgraphFound
  <2> QED BY <2>2, <2>3
<1>4. ASSUME NEW c \in Running, Walk(c) \/ WalkEnds(c) PROVE SearchOK' /\ SubgraphFound'
  <2>1. UNCHANGED <<room, phase>> /\ c \in DOMAIN walks
    BY <1>4 DEF Walk, WalkEnds, Running
  <2>2. phase = "walk"
    BY <2>1 DEF SearchTyped
  <2>3. ASSUME Searching'
        PROVE  OneBegun' /\ MarksOK' /\ NoneMissed' /\ NothingLost'
    <3>1. /\ width = 1 /\ OneBegun /\ MarksOK /\ NoneMissed /\ NothingLost
      BY <2>1, <2>3 DEF room, Searching, SearchOK
    <3>2. \A d \in DOMAIN walks : ~(d < c)
      BY <1>0, <3>1, FirstRuns
    <3>3. CASE WalkEnds(c)
      BY <1>0, <2>1, <3>1, <3>2, <3>3, NothingLostEnds
    <3>4. CASE Walk(c)
      <4>1. PICK m, kept, a, on, w : Moves(c, m, kept, a, on, w)
        BY <1>0, <2>1, <3>4, WalkMoves
      <4>2. Len(walks[c].stack) \in Nat /\ Len(walks[c].path) \in Nat
        BY <2>1 DEF SearchTyped, WalkOK
      <4>3. walks' = [walks EXCEPT ![c] = w]
        BY <4>1 DEF Moves
      <4>4. OneBegun'
        BY <2>1, <3>1, <3>2, <4>3, OneBegunMoves
      <4>5. MarksOK'
        BY <2>1, <3>1, <4>1, MarksMove
      <4>6. NoneMissed'
        BY <2>1, <3>1, <4>1, <4>2, NoneMissedMoves
      <4>7. PICK own : Owners(walks[c], own) /\ Pending(walks[c], own)
        BY <2>1, <3>1, <3>2 DEF NothingLost
      <4>8. (\E new : Owners(w, new) /\ Pending(w, new))'
        BY <1>0, <2>1, <3>1, <4>1, <4>2, <4>7, PendingMoves
      <4>9. DOMAIN walks' = DOMAIN walks /\ walks'[c] = w
        BY <2>1, <4>3
      <4>10. ASSUME NEW d \in DOMAIN walks, \A e \in DOMAIN walks : ~(e < d) PROVE d = c
        <5>1. c \in DOMAIN dag /\ d \in DOMAIN dag
          BY <2>1, <3>1, ConflictedKnown DEF OneBegun
        <5>2. c \in Nat /\ d \in Nat
          BY <1>0, <5>1 DEF DagOK
        <5> QED BY <2>1, <3>2, <4>10, <5>2
      <4>11. NothingLost'
        BY <2>1, <4>8, <4>9, <4>10 DEF NothingLost
      <4> QED BY <4>4, <4>5, <4>6, <4>11
    <3> QED BY <1>4, <3>3, <3>4
  <2> QED BY <2>1, <2>2, <2>3 DEF SearchOK, SubgraphFound
<1>5. CASE Collect
  <2>1. /\ full' = (DOMAIN dag \cap (AuthDifference \cup Conflicted)) \cup marked.subgraph
        /\ phase = "walk" /\ phase' = "sort" /\ DOMAIN walks = {} /\ UNCHANGED room
    BY <1>5 DEF Collect
  <2>2. ASSUME width = 1 PROVE FullSet \subseteq full'
    <3>1. AuthDifference \cup Conflicted \subseteq full'
      BY <1>0, <2>1, ConflictedKnown, AuthDifferenceKnown
    <3>2. CASE rules.subgraph
      <4>1. MarksOK /\ NoneMissed /\ NothingLost
        BY <2>1, <2>2, <3>2 DEF SearchOK, Searching
      <4>2. marked.seen \subseteq DOMAIN dag
        BY DEF SearchTyped
      <4>3. Between \subseteq marked.subgraph \cup Conflicted
        BY <2>1, <4>1, <4>2, SearchEnds
      <4> QED BY <2>1, <3>1, <4>3 DEF FullSet
    <3>3. CASE ~rules.subgraph
      BY <3>1, <3>3 DEF FullSet
    <3> QED BY <3>2, <3>3
  <2>3. FullSet' = FullSet /\ width' = width
    BY <2>1 DEF room, FullSet, AuthDifference, AuthSet, Conflicted, Agreed, Between
  <2> QED BY <2>1, <2>2, <2>3 DEF SearchOK, SubgraphFound, Searching
<1>6. CASE PopSmallest \/ Sorted \/ SortRemaining \/ Finish
  BY <1>2, <1>6 DEF PopSmallest, Sorted, SortRemaining, Finish
<1>7. CASE AuthCheck
  BY <1>2, <1>7 DEF AuthCheck
<1>8. CASE UNCHANGED vars
  <2>1. UNCHANGED <<room, phase, walks, marked, full>>
    BY <1>8 DEF vars, search
  <2>2. FullSet' = FullSet /\ width' = width
    BY <2>1 DEF room, FullSet, AuthDifference, AuthSet, Conflicted, Agreed, Between
  <2>3. SubgraphFound'
    BY <2>1, <2>2 DEF SubgraphFound
  <2>4. Searching' = Searching
    BY <2>1 DEF room, Searching
  <2>5. OneBegun' = OneBegun /\ MarksOK' = MarksOK
    BY <2>1, RoomSame DEF OneBegun, MarksOK
  <2>6. NoneMissed' = NoneMissed
    BY <2>1, RoomSame DEF NoneMissed
  <2>7. NothingLost' = NothingLost
    BY <2>1 DEF NothingLost, Owners, Pending, Leads, Leading, room, Conflicted, Agreed
  <2> QED BY <2>1, <2>3, <2>4, <2>5, <2>6, <2>7 DEF SearchOK
<1> QED BY <1>1, <1>3, <1>4, <1>5, <1>6, <1>7, <1>8 DEF Next, Done

LEMMA FoundAlways == Spec => [](SearchOK /\ SubgraphFound)
<1>1. Init => SearchOK /\ SubgraphFound
  BY DEF Init, SearchOK, Searching, SubgraphFound
<1>2. Inv /\ Typed /\ SearchOK /\ SubgraphFound /\ [Next]_vars => (SearchOK /\ SubgraphFound)'
  BY FoundStep DEF Typed
<1> QED BY <1>1, <1>2, InvAlways, TypedAlways, PTL DEF Spec

\* Walks that run one after the other find the whole conflicted subgraph, for
\* every room and all forks: although they share their marks, nothing that leads
\* to a conflicted event is passed over (conflicted_subgraph_dfs, eval).
THEOREM OneWalkFindsAll == Spec => []SubgraphFound
BY FoundAlways, PTL

-----------------------------------------------------------------------------
(* Who has lost the power does not win *)

\* The room begins with its only create event, and levels are integers.
RoomOK ==
    /\ phase = "trunk" => Len(dag) < Len(Trunk)
    /\ phase # "trunk" => Len(dag) >= 1
    /\ \A i \in DOMAIN dag : dag[i].type = "create" => i = 1
    /\ \A i \in DOMAIN dag : dag[i].type = "power" =>
          \A u \in DOMAIN dag[i].content : dag[i].content[u] \in Int

\* First the events are checked that may authorise others, and all power events
\* are among them.
PowerFirst ==
    /\ phase = "sort" => DOMAIN graph \subseteq Authorisers
    /\ phase \in {"sort", "power"} => todo \in Seq(Authorisers)
    /\ phase \in {"sort", "power", "rest"} =>
          \A i \in remaining : ~IsPowerEvent(dag[i])
    /\ phase = "rest" => todo \in Seq(remaining)

\* Where the checks begin with what the forks agree on, a slot keeps it as long
\* as no event of the full conflicted set has that slot.
AgreedKept ==
    phase \in {"power", "rest"} /\ ~rules.empty =>
        \A t \in Agreed : (\A i \in full : SlotOf(dag[i]) # t) =>
            t \in DOMAIN resolved /\ resolved[t] = states[1][t]

\* In the state st the user u is not banned, and has the level to set a topic.
MaySet(st, u) ==
    /\ Membership(Events(st), u) # "ban"
    /\ PowerSlot \in DOMAIN st =>
          PowerLevel(Events(st), u, {dag[1].sender}, rules.hydra) >= STATE_DEFAULT

\* No topic is checked before the power events, and who has set one that is
\* resolved may set it.
TopicsOK ==
    \A s \in DOMAIN resolved \ Agreed : dag[resolved[s]].type = "topic" =>
        /\ phase # "power"
        /\ phase = "rest" => MaySet(resolved, dag[resolved[s]].sender)

Revoking == RoomOK /\ PowerFirst /\ AgreedKept /\ TopicsOK

-----------------------------------------------------------------------------

\* A new event is no second create event, and its levels are integers.
LEMMA RoomMade ==
    ASSUME RoomOK, DagOK, EventsOK, NEW t, NEW fs \in SUBSET Fork, fs # {}, NEW ts, NEW prev,
           Make(t, fs, ts, prev), prev = 0 => Len(dag) = 0,
           t.type = "power" => \A u \in DOMAIN t.content : t.content[u] \in Int
    PROVE  /\ \A i \in DOMAIN dag' : dag'[i].type = "create" => i = 1
           /\ \A i \in DOMAIN dag' : dag'[i].type = "power" =>
                 \A u \in DOMAIN dag'[i].content : dag'[i].content[u] \in Int
           /\ Len(dag') = Len(dag) + 1 /\ Len(dag) \in Nat
<1>1. PICK e : IsNew(e, t, fs, ts, prev)
  BY MadeOne
<1>2. /\ DOMAIN dag = 1..Len(dag) /\ Len(dag) \in Nat
      /\ DOMAIN dag' = 1..(Len(dag) + 1)
      /\ \A i \in DOMAIN dag : dag'[i] = dag[i]
      /\ dag'[Len(dag) + 1] = e
  BY <1>1 DEF IsNew
<1>3. \A i \in DOMAIN dag' : i \in DOMAIN dag \/ i = Len(dag) + 1
  BY <1>2
<1>4. e.type = "create" => Len(dag) + 1 = 1
  BY <1>1, <1>2 DEF IsNew, CreateAllowed
<1>5. e.type = "power" => \A u \in DOMAIN e.content : e.content[u] \in Int
  <2> SUFFICES ASSUME e.type = "power", NEW u \in DOMAIN e.content PROVE e.content[u] \in Int
    OBVIOUS
  <2>1. t.type = "power" /\ e.content = Content(t)
    BY <1>1 DEF IsNew
  <2>2. u \in DOMAIN t.content /\ e.content[u] = t.content[u]
    BY <2>1 DEF Content
  <2> QED BY <2>1, <2>2
<1>6. \A i \in DOMAIN dag' : dag'[i].type = "create" => i = 1
  BY <1>2, <1>3, <1>4 DEF RoomOK
<1>7. \A i \in DOMAIN dag' : dag'[i].type = "power" =>
         \A u \in DOMAIN dag'[i].content : dag'[i].content[u] \in Int
  BY <1>2, <1>3, <1>5 DEF RoomOK
<1>8. Len(dag') = Len(dag) + 1
  <2>1. PICK S, x : dag \in Seq(S) /\ dag' = Append(dag, x)
    BY DEF DagOK, Make
  <2> QED BY <2>1
<1> QED BY <1>2, <1>6, <1>7, <1>8

\* Every step keeps the room in order.
LEMMA RoomStep == Inv /\ EventsOK /\ SearchTyped /\ RoomOK /\ [Next]_vars => RoomOK'
<1> SUFFICES ASSUME Inv, EventsOK, SearchTyped, RoomOK, [Next]_vars PROVE RoomOK'
  OBVIOUS
<1>0. DagOK /\ Len(dag) \in Nat /\ Len(Trunk) \in Nat \ {0}
  BY StateResAssumption DEF Inv, DagOK
<1>1. CASE Extend
  <2>1. PICK t, fs, ts, prev : /\ t = Trunk[Len(dag) + 1] /\ prev = Len(dag)
                               /\ fs = Fork /\ ts = 0
    OBVIOUS
  <2>2. /\ Make(t, fs, ts, prev) /\ fs \in SUBSET Fork /\ fs # {} /\ phase = "trunk"
        /\ phase' = IF Len(dag) + 1 = Len(Trunk) THEN "fork" ELSE "trunk"
    BY <1>1, <2>1 DEF Extend, Fork
  <2>3. Len(dag) + 1 \in 1..Len(Trunk) /\ Len(dag) < Len(Trunk)
    BY <1>0, <2>2 DEF RoomOK
  <2>4. t.type = "power" => \A u \in DOMAIN t.content : t.content[u] \in Int
    BY <2>1, <2>3, StateResAssumption
  <2>5. /\ \A i \in DOMAIN dag' : dag'[i].type = "create" => i = 1
        /\ \A i \in DOMAIN dag' : dag'[i].type = "power" =>
              \A u \in DOMAIN dag'[i].content : dag'[i].content[u] \in Int
        /\ Len(dag') = Len(dag) + 1
    BY <1>0, <2>1, <2>2, <2>4, RoomMade
  <2>6. /\ phase' = "trunk" => Len(dag') < Len(Trunk)
        /\ phase' # "trunk" => Len(dag') >= 1
    BY <1>0, <2>2, <2>3, <2>5
  <2> QED BY <2>5, <2>6 DEF RoomOK
<1>2. ASSUME NEW n \in DOMAIN Menu, Diverge(Menu[n]) PROVE RoomOK'
  <2>1. PICK t : t = Menu[n]
    OBVIOUS
  <2>2. /\ phase # "trunk" /\ UNCHANGED phase
        /\ \E fs, ts, prev :
              /\ fs \in SUBSET Fork /\ fs # {}
              /\ Make(t, fs, ts, prev) /\ prev \in {Len(dag), Len(Trunk)}
    <3>1. {1} \in SUBSET Fork /\ {2} \in SUBSET Fork /\ {1} # {} /\ {2} # {}
      BY DEF Fork
    <3>2. PICK p : p = IF Len(dag) = split THEN Len(Trunk) ELSE Len(dag)
      OBVIOUS
    <3>3. p \in {Len(dag), Len(Trunk)}
      BY <3>2
    <3>4. /\ phase \in {"fork", "other"} /\ UNCHANGED phase
          /\ \/ Make(t, {1}, clock[1] + Len(dag) - Len(Trunk), Len(dag))
             \/ Make(t, {2}, clock[2] + Len(dag) - split, p)
      BY <1>2, <2>1, <3>2 DEF Diverge
    <3> QED BY <3>1, <3>3, <3>4
  <2>3. PICK fs, ts, prev :
           /\ fs \in SUBSET Fork /\ fs # {}
           /\ Make(t, fs, ts, prev) /\ prev \in {Len(dag), Len(Trunk)}
    BY <2>2
  <2>4. Len(dag) >= 1 /\ prev # 0
    BY <1>0, <2>2, <2>3 DEF RoomOK
  <2>5. t.type = "power" => \A u \in DOMAIN t.content : t.content[u] \in Int
    BY <2>1, StateResAssumption
  <2>6. /\ \A i \in DOMAIN dag' : dag'[i].type = "create" => i = 1
        /\ \A i \in DOMAIN dag' : dag'[i].type = "power" =>
              \A u \in DOMAIN dag'[i].content : dag'[i].content[u] \in Int
        /\ Len(dag') = Len(dag) + 1
    BY <1>0, <2>3, <2>4, <2>5, RoomMade
  <2>7. Len(dag') >= 1
    BY <1>0, <2>6
  <2> QED BY <2>2, <2>6, <2>7 DEF RoomOK
<1>3. ASSUME UNCHANGED dag, phase # "trunk", phase' # "trunk" PROVE RoomOK'
  BY <1>3 DEF RoomOK
<1>4. CASE Other \/ Split \/ Collect \/ PopSmallest \/ Sorted \/ AuthCheck
  BY <1>3, <1>4 DEF Other, Split, Collect, PopSmallest, Sorted, AuthCheck, room
<1>5. CASE SortRemaining \/ Finish
  BY <1>3, <1>5 DEF SortRemaining, Finish, room
<1>6. ASSUME NEW c \in Running, Walk(c) \/ WalkEnds(c) PROVE RoomOK'
  <2>1. UNCHANGED <<dag, phase>> /\ phase = "walk"
    BY <1>6 DEF Walk, WalkEnds, Running, room, SearchTyped
  <2> QED BY <1>3, <2>1
<1>7. CASE UNCHANGED vars
  BY <1>7 DEF vars, room, RoomOK
<1> QED BY <1>1, <1>2, <1>4, <1>5, <1>6, <1>7 DEF Next, Done

\* The graph has all power events of the set, and events only that may authorise
\* others.
LEMMA ReachedKinds ==
    ASSUME DagOK, EventsOK, NEW set \in SUBSET DOMAIN dag
    PROVE  /\ Reached(set) \subseteq Authorisers
           /\ \A i \in set \ Reached(set) : ~IsPowerEvent(dag[i])
<1> DEFINE powers == {i \in set \cap DOMAIN dag : IsPowerEvent(dag[i])}
           closed == {c \in SUBSET set :
                         /\ powers \subseteq c
                         /\ \A i \in c : dag[i].auth \cap set \subseteq c}
<1>1. Reached(set) = {i \in set : \A c \in closed : i \in c}
  BY DEF Reached
<1>2. set \cap Authorisers \in closed
  <2>1. powers \subseteq set \cap Authorisers
    BY DEF IsPowerEvent, Authorisers, AuthKinds
  <2>2. \A i \in set \cap Authorisers : dag[i].auth \cap set \subseteq set \cap Authorisers
    BY DEF EventsOK
  <2> QED BY <2>1, <2>2
<1>3. \A i \in powers : \A c \in closed : i \in c
  OBVIOUS
<1>4. \A i \in powers : i \in Reached(set)
  BY <1>1, <1>3
<1> QED BY <1>1, <1>2, <1>4

\* Every step keeps the power events first.
LEMMA PowerFirstStep ==
    Inv /\ Typed /\ PowerFirst /\ [Next]_vars => PowerFirst'
<1> SUFFICES ASSUME Inv, Typed, PowerFirst, [Next]_vars PROVE PowerFirst'
  OBVIOUS
<1>0. DagOK /\ SortOK /\ EventsOK /\ SearchTyped /\ ResolveTyped
  BY DEF Inv, Typed
<1>1. ASSUME phase' \in {"trunk", "fork", "other", "walk", "done"} PROVE PowerFirst'
  BY <1>1 DEF PowerFirst
<1>2. CASE Extend \/ (\E n \in DOMAIN Menu : Diverge(Menu[n])) \/ Other \/ Split
  <2>1. phase' \in {"trunk", "fork", "other", "walk", "done"}
    BY <1>2 DEF Extend, Diverge, Other, Split
  <2> QED BY <1>1, <2>1
<1>3. ASSUME NEW c \in Running, Walk(c) \/ WalkEnds(c) PROVE PowerFirst'
  <2>1. UNCHANGED phase /\ phase = "walk"
    BY <1>0, <1>3 DEF Walk, WalkEnds, Running, SearchTyped
  <2> QED BY <1>1, <2>1
<1>4. CASE Collect
  <2>1. /\ full' = (DOMAIN dag \cap (AuthDifference \cup Conflicted)) \cup marked.subgraph
        /\ DOMAIN graph' = Reached(full') /\ remaining' = full' \ DOMAIN graph'
        /\ UNCHANGED <<dag, todo>> /\ phase = "walk" /\ phase' = "sort"
    BY <1>4 DEF Collect, room
  <2>2. PICK set : set = full'
    OBVIOUS
  <2>3. set \in SUBSET DOMAIN dag
    BY <1>0, <2>1, <2>2 DEF SearchTyped
  <2>4. DOMAIN graph' \subseteq Authorisers /\ \A i \in remaining' : ~IsPowerEvent(dag[i])
    BY <1>0, <2>1, <2>2, <2>3, ReachedKinds
  <2>5. Authorisers' = Authorisers
    BY <2>1 DEF Authorisers
  <2>6. todo' = <<>>
    BY <1>0, <2>1 DEF SortOK
  <2>7. todo' \in Seq(Authorisers')
    BY <2>6
  <2>8. DOMAIN graph' \subseteq Authorisers' /\ \A i \in remaining' : ~IsPowerEvent(dag'[i])
    BY <2>1, <2>4, <2>5
  <2>9. phase' = "sort"
    BY <2>1
  <2> QED BY <2>7, <2>8, <2>9 DEF PowerFirst
<1>5. CASE PopSmallest
  <2>1. PICK i \in DOMAIN graph :
           /\ phase = "sort" /\ DOMAIN graph' \subseteq DOMAIN graph
           /\ todo' = Append(todo, i) /\ UNCHANGED <<dag, phase, remaining>>
    BY <1>5 DEF PopSmallest, room
  <2>2. Authorisers' = Authorisers
    BY <2>1 DEF Authorisers
  <2>3. DOMAIN graph \subseteq Authorisers /\ todo \in Seq(Authorisers)
        /\ \A r \in remaining : ~IsPowerEvent(dag[r])
    BY <2>1 DEF PowerFirst
  <2>4. todo' \in Seq(Authorisers)
    BY <2>1, <2>3
  <2> QED BY <2>1, <2>2, <2>3, <2>4 DEF PowerFirst
<1>6. CASE Sorted
  <2>1. phase = "sort" /\ phase' = "power" /\ UNCHANGED <<dag, todo, remaining>>
        /\ Authorisers' = Authorisers
    BY <1>6 DEF Sorted, room, Authorisers
  <2> QED BY <2>1 DEF PowerFirst
<1>7. CASE AuthCheck
  <2>1. /\ todo # <<>> /\ todo' = Tail(todo) /\ phase \in {"power", "rest"}
        /\ UNCHANGED <<dag, phase, remaining>> /\ Authorisers' = Authorisers
    BY <1>7 DEF AuthCheck, room, Authorisers
  <2>2. \A S : todo \in Seq(S) => Tail(todo) \in Seq(S)
    BY <2>1
  <2> QED BY <2>1, <2>2 DEF PowerFirst
<1>8. CASE SortRemaining
  <2>1. /\ todo' = MainlineSort(remaining, resolved) /\ phase = "power" /\ phase' = "rest"
        /\ UNCHANGED <<dag, remaining>>
    BY <1>8 DEF SortRemaining, room
  <2>2. PICK set, st : /\ set \in SUBSET DOMAIN dag
                       /\ set = remaining /\ st = resolved
    BY <1>0 DEF ResolveTyped
  <2>3. MainlineSort(set, st) \in Seq(set)
    BY <1>0, <2>2, MainlineSorted DEF ResolveTyped
  <2> QED BY <2>1, <2>2, <2>3 DEF PowerFirst
<1>9. CASE Finish
  BY <1>1, <1>9 DEF Finish
<1>10. CASE UNCHANGED vars
  BY <1>10 DEF vars, room, PowerFirst, Authorisers
<1> QED BY <1>2, <1>3, <1>4, <1>5, <1>6, <1>7, <1>8, <1>9, <1>10 DEF Next, Done

\* Every step keeps what the forks agree on where nothing else is checked.
LEMMA AgreedKeptStep ==
    Inv /\ Typed /\ AgreedKept /\ [Next]_vars => AgreedKept'
<1> SUFFICES ASSUME Inv, Typed, AgreedKept, [Next]_vars PROVE AgreedKept'
  OBVIOUS
<1>0. EventsOK /\ SearchTyped /\ ResolveTyped
  BY DEF Typed
<1>1. ASSUME phase' \notin {"power", "rest"} PROVE AgreedKept'
  BY <1>1 DEF AgreedKept
<1>2. CASE Extend \/ (\E n \in DOMAIN Menu : Diverge(Menu[n])) \/ Other \/ Split
  <2>1. phase' \notin {"power", "rest"}
    BY <1>2 DEF Extend, Diverge, Other, Split
  <2> QED BY <1>1, <2>1
<1>3. ASSUME NEW c \in Running, Walk(c) \/ WalkEnds(c) PROVE AgreedKept'
  <2>1. UNCHANGED phase /\ phase = "walk"
    BY <1>0, <1>3 DEF Walk, WalkEnds, Running, SearchTyped
  <2> QED BY <1>1, <2>1
<1>4. CASE Collect \/ PopSmallest \/ Finish
  BY <1>1, <1>4 DEF Collect, PopSmallest, Finish
<1>5. CASE Sorted
  <2>1. resolved' = Initial /\ UNCHANGED <<rules, dag, states, full>>
    BY <1>5 DEF Sorted, room
  <2>2. Agreed' = Agreed
    BY <2>1 DEF Agreed
  <2>3. ASSUME ~rules.empty, NEW t \in Agreed
        PROVE  t \in DOMAIN resolved' /\ resolved'[t] = states[1][t]
    BY <1>0, <2>1, <2>3, UnconflictedPlaced DEF Initial
  <2> QED BY <2>1, <2>2, <2>3 DEF AgreedKept
<1>6. CASE AuthCheck
  <2>1. /\ phase \in {"power", "rest"} /\ todo # <<>>
        /\ resolved' = Apply(resolved, Head(todo))
        /\ UNCHANGED <<rules, dag, states, full, phase>>
    BY <1>6 DEF AuthCheck, room
  <2>2. PICK st, i : st = resolved /\ i = Head(todo)
    OBVIOUS
  <2>3. i \in full
    BY <1>0, <2>1, <2>2 DEF ResolveTyped
  <2>4. \A t : t # SlotOf(dag[i]) /\ t \in DOMAIN st =>
           t \in DOMAIN resolved' /\ resolved'[t] = st[t]
    <3>1. PICK new : new = Apply(st, i)
      OBVIOUS
    <3>2. \/ new = st
          \/ /\ Allowed(dag[i], CheckState(i, st), 1, rules.hydra)
             /\ DOMAIN new = DOMAIN st \cup {SlotOf(dag[i])}
             /\ new[SlotOf(dag[i])] = i
             /\ \A s \in DOMAIN st : s # SlotOf(dag[i]) => new[s] = st[s]
      BY <3>1 DEF Apply, Put
    <3>3. resolved' = new
      BY <2>1, <2>2, <3>1
    <3> QED BY <3>2, <3>3
  <2>5. Agreed' = Agreed
    BY <2>1 DEF Agreed
  <2> QED BY <2>1, <2>2, <2>3, <2>4, <2>5 DEF AgreedKept
<1>7. CASE SortRemaining
  <2>1. phase = "power" /\ UNCHANGED <<rules, dag, states, full, resolved>> /\ Agreed' = Agreed
    BY <1>7 DEF SortRemaining, room, Agreed
  <2> QED BY <2>1 DEF AgreedKept
<1>8. CASE UNCHANGED vars
  BY <1>8 DEF vars, room, AgreedKept, Agreed
<1> QED BY <1>2, <1>3, <1>4, <1>5, <1>6, <1>7, <1>8 DEF Next, Done

\* The slots that the event is authorised by
AuthSlots(i) == AuthTypes(dag[i], TRUE)

\* An event is checked against events in their slots, those of the state first.
LEMMA CheckStateOK ==
    ASSUME DagOK, NEW i \in DOMAIN dag, NEW st, Placed(st), NEW cs, cs = CheckState(i, st)
    PROVE  /\ \A s \in DOMAIN cs : \E j \in DOMAIN dag : SlotOf(dag[j]) = s /\ cs[s] = dag[j]
           /\ \A s \in AuthSlots(i) \cap DOMAIN st :
                 s \in DOMAIN cs /\ cs[s] = dag[st[s]]
<1>1. PICK set, own, better, ev :
         /\ set = dag[i].auth \cup IF rules.hydra THEN {1} ELSE {}
         /\ own = BySlot(set)
         /\ better = AuthSlots(i) \cap DOMAIN st
         /\ ev = Events(Restrict(st, better))
  OBVIOUS
<1>2. cs = Over(ev, own)
  BY <1>1 DEF CheckState, AuthSlots
<1>3. set \subseteq DOMAIN dag
  <2>1. DOMAIN dag = 1..Len(dag) /\ Len(dag) \in Nat
    BY DEF DagOK
  <2>2. 1 \in DOMAIN dag
    BY <2>1
  <2>3. dag[i].auth \subseteq 1..(i - 1)
    BY DEF DagOK
  <2>4. 1..(i - 1) \subseteq 1..Len(dag)
    BY <2>1
  <2>5. dag[i].auth \subseteq DOMAIN dag
    BY <2>1, <2>3, <2>4
  <2> QED BY <1>1, <2>2, <2>5
<1>4. ASSUME NEW s \in DOMAIN own
      PROVE  \E j \in DOMAIN dag : SlotOf(dag[j]) = s /\ own[s] = dag[j]
  <2>1. PICK j : j = CHOOSE x \in set : SlotOf(dag[x]) = s
    OBVIOUS
  <2>2. own[s] = dag[j] /\ \E x \in set : SlotOf(dag[x]) = s
    BY <1>1, <1>4, <2>1 DEF BySlot
  <2>3. j \in set /\ SlotOf(dag[j]) = s
    BY <2>1, <2>2
  <2> QED BY <1>3, <2>2, <2>3
<1>5. /\ DOMAIN ev = better
      /\ \A s \in better : s \in DOMAIN st /\ ev[s] = dag[st[s]]
  BY <1>1 DEF Events, Restrict
<1>6. \A s \in better : \E j \in DOMAIN dag : SlotOf(dag[j]) = s /\ ev[s] = dag[j]
  BY <1>5 DEF Placed
<1>7. /\ DOMAIN cs = DOMAIN ev \cup DOMAIN own
      /\ \A s \in DOMAIN ev : cs[s] = ev[s]
      /\ \A s \in DOMAIN own \ DOMAIN ev : cs[s] = own[s]
  BY <1>2 DEF Over
<1>8. ASSUME NEW s \in DOMAIN cs
      PROVE  \E j \in DOMAIN dag : SlotOf(dag[j]) = s /\ cs[s] = dag[j]
  <2>1. CASE s \in DOMAIN ev
    BY <1>5, <1>6, <1>7, <2>1
  <2>2. CASE s \notin DOMAIN ev
    BY <1>4, <1>7, <2>2
  <2> QED BY <2>1, <2>2
<1>9. \A s \in better : s \in DOMAIN cs /\ cs[s] = dag[st[s]]
  BY <1>5, <1>7
<1> QED BY <1>1, <1>8, <1>9

\* The levels that an event is checked with are integers.
LEMMA LevelType ==
    ASSUME RoomOK, NEW cs, NEW u, NEW creators,
           \A s \in DOMAIN cs : \E j \in DOMAIN dag : SlotOf(dag[j]) = s /\ cs[s] = dag[j]
    PROVE  PowerLevel(cs, u, creators, rules.hydra) \in Int
<1>1. ASSUME PowerSlot \in DOMAIN cs, NEW v \in DOMAIN cs[PowerSlot].content
      PROVE  cs[PowerSlot].content[v] \in Int
  <2>1. PICK j \in DOMAIN dag : SlotOf(dag[j]) = PowerSlot /\ cs[PowerSlot] = dag[j]
    BY <1>1
  <2>2. dag[j].type = "power"
    BY <2>1 DEF SlotOf, PowerSlot
  <2> QED BY <1>1, <2>1, <2>2 DEF RoomOK
<1>2. INFINITE \in Int /\ USERS_DEFAULT \in Int /\ CREATOR_LEVEL \in Int
  BY DEF INFINITE, USERS_DEFAULT, CREATOR_LEVEL
<1>3. CASE PowerSlot \in DOMAIN cs
  BY <1>1, <1>2, <1>3 DEF PowerLevel
<1>4. CASE PowerSlot \notin DOMAIN cs
  BY <1>2, <1>4 DEF PowerLevel
<1> QED BY <1>3, <1>4

\* A topic that is allowed was set by a user who may.
LEMMA TopicAllowed ==
    ASSUME DagOK, RoomOK, NEW i \in DOMAIN dag, NEW st, Placed(st),
           dag[i].type = "topic", Allowed(dag[i], CheckState(i, st), 1, rules.hydra)
    PROVE  MaySet(st, dag[i].sender)
<1>1. PICK cs, e, u, ev : /\ cs = CheckState(i, st) /\ e = dag[i] /\ u = e.sender
                          /\ ev = Events(st)
  OBVIOUS
<1>2. /\ \A s \in DOMAIN cs : \E j \in DOMAIN dag : SlotOf(dag[j]) = s /\ cs[s] = dag[j]
      /\ \A s \in AuthSlots(i) \cap DOMAIN st :
            s \in DOMAIN cs /\ cs[s] = dag[st[s]]
  BY <1>1, CheckStateOK
<1>3. DOMAIN ev = DOMAIN st /\ \A s \in DOMAIN st : ev[s] = dag[st[s]]
  BY <1>1 DEF Events
<1>4. e.type = "topic" /\ Allowed(e, cs, 1, rules.hydra)
  BY <1>1
<1>5. /\ CreateSlot \in DOMAIN cs /\ Membership(cs, u) = "join"
      /\ PowerLevel(cs, u, {cs[CreateSlot].sender}, rules.hydra) >= STATE_DEFAULT
  BY <1>1, <1>4 DEF Allowed
<1>6. cs[CreateSlot].sender = dag[1].sender
  <2>1. PICK j \in DOMAIN dag : SlotOf(dag[j]) = CreateSlot /\ cs[CreateSlot] = dag[j]
    BY <1>2, <1>5
  <2>2. dag[j].type = "create"
    BY <2>1 DEF SlotOf, CreateSlot
  <2> QED BY <2>1, <2>2 DEF RoomOK
<1>7. PowerSlot \in AuthSlots(i) /\ MemberSlot(u) \in AuthSlots(i)
  BY <1>1, <1>4 DEF AuthTypes, AuthSlots
<1>8. Membership(ev, u) # "ban"
  BY <1>2, <1>3, <1>5, <1>7 DEF Membership
<1>9. ASSUME PowerSlot \in DOMAIN st
      PROVE  PowerLevel(ev, u, {dag[1].sender}, rules.hydra) >= STATE_DEFAULT
  <2>1. PowerSlot \in DOMAIN cs /\ PowerSlot \in DOMAIN ev /\ cs[PowerSlot] = ev[PowerSlot]
    BY <1>2, <1>3, <1>7, <1>9
  <2>2. PowerLevel(cs, u, {dag[1].sender}, rules.hydra) >= STATE_DEFAULT
    BY <1>5, <1>6
  <2> QED BY <2>1, <2>2 DEF PowerLevel
<1> QED BY <1>1, <1>8, <1>9 DEF MaySet

\* Nobody bans himself.
LEMMA NoSelfBan ==
    ASSUME DagOK, RoomOK, NEW i \in DOMAIN dag, NEW st, Placed(st),
           dag[i].type = "member", ~IsPowerEvent(dag[i]),
           Allowed(dag[i], CheckState(i, st), 1, rules.hydra)
    PROVE  dag[i].content # "ban"
<1> SUFFICES ASSUME dag[i].content = "ban" PROVE FALSE
  OBVIOUS
<1>1. PICK cs, e, u : cs = CheckState(i, st) /\ e = dag[i] /\ u = e.sender
  OBVIOUS
<1>2. e.type = "member" /\ e.content = "ban" /\ e.key = u
      /\ Allowed(e, cs, 1, rules.hydra)
  BY <1>1 DEF IsPowerEvent
<1>3. PICK creators : creators = {cs[CreateSlot].sender}
  OBVIOUS
<1>4. PICK level : level = [x \in {e.sender, e.key} |->
                               PowerLevel(cs, x, creators, rules.hydra)]
  OBVIOUS
<1>5. BanAllowed(e, cs, level)
  BY <1>2, <1>3, <1>4 DEF Allowed
<1>6. level[u] < level[u]
  BY <1>1, <1>2, <1>5 DEF BanAllowed
<1>7. \A s \in DOMAIN cs : \E j \in DOMAIN dag : SlotOf(dag[j]) = s /\ cs[s] = dag[j]
  BY <1>1, CheckStateOK
<1>8. level[u] = PowerLevel(cs, u, creators, rules.hydra)
  BY <1>1, <1>4
<1>9. level[u] \in Int
  BY <1>7, <1>8, LevelType
<1> QED BY <1>6, <1>9

\* Who may set a topic may still when an event is entered that is no power event.
LEMMA MaySetKept ==
    ASSUME DagOK, RoomOK, NEW i \in DOMAIN dag, NEW st, Placed(st), NEW u, MaySet(st, u),
           ~IsPowerEvent(dag[i]), Allowed(dag[i], CheckState(i, st), 1, rules.hydra),
           NEW new, DOMAIN new = DOMAIN st \cup {SlotOf(dag[i])}, new[SlotOf(dag[i])] = i,
           \A s \in DOMAIN st : s # SlotOf(dag[i]) => new[s] = st[s]
    PROVE  MaySet(new, u)
<1>1. PICK old, ev : old = Events(st) /\ ev = Events(new)
  OBVIOUS
<1>2. /\ DOMAIN old = DOMAIN st /\ \A s \in DOMAIN st : old[s] = dag[st[s]]
      /\ DOMAIN ev = DOMAIN new /\ \A s \in DOMAIN new : ev[s] = dag[new[s]]
  BY <1>1 DEF Events
<1>3. SlotOf(dag[i]) # PowerSlot
  BY DEF IsPowerEvent, SlotOf, PowerSlot
<1>4. /\ PowerSlot \in DOMAIN new <=> PowerSlot \in DOMAIN st
      /\ PowerSlot \in DOMAIN st => ev[PowerSlot] = old[PowerSlot]
  BY <1>2, <1>3
<1>5. Membership(ev, u) # "ban"
  <2>1. Membership(old, u) # "ban"
    BY <1>1 DEF MaySet
  <2>2. CASE SlotOf(dag[i]) = MemberSlot(u)
    <3>1. dag[i].type = "member"
      BY <2>2 DEF SlotOf, MemberSlot
    <3>2. dag[i].content # "ban"
      BY <3>1, NoSelfBan
    <3>3. MemberSlot(u) \in DOMAIN ev /\ ev[MemberSlot(u)] = dag[i]
      BY <1>2, <2>2
    <3> QED BY <3>2, <3>3 DEF Membership
  <2>3. CASE SlotOf(dag[i]) # MemberSlot(u)
    <3>1. /\ MemberSlot(u) \in DOMAIN ev <=> MemberSlot(u) \in DOMAIN old
          /\ MemberSlot(u) \in DOMAIN old => ev[MemberSlot(u)] = old[MemberSlot(u)]
      BY <1>2, <2>3
    <3> QED BY <2>1, <3>1 DEF Membership
  <2> QED BY <2>2, <2>3
<1>6. ASSUME PowerSlot \in DOMAIN new
      PROVE  PowerLevel(ev, u, {dag[1].sender}, rules.hydra) >= STATE_DEFAULT
  <2>1. PowerLevel(old, u, {dag[1].sender}, rules.hydra) >= STATE_DEFAULT
    BY <1>1, <1>4, <1>6 DEF MaySet
  <2>2. PowerSlot \in DOMAIN ev /\ PowerSlot \in DOMAIN old /\ ev[PowerSlot] = old[PowerSlot]
    BY <1>2, <1>4, <1>6
  <2> QED BY <2>1, <2>2 DEF PowerLevel
<1> QED BY <1>1, <1>5, <1>6 DEF MaySet

\* Every step keeps the topics in order.
LEMMA TopicsStep ==
    Inv /\ Typed /\ RoomOK /\ PowerFirst /\ TopicsOK /\ [Next]_vars => TopicsOK'
<1> SUFFICES ASSUME Inv, Typed, RoomOK, PowerFirst, TopicsOK, [Next]_vars PROVE TopicsOK'
  OBVIOUS
<1>0. DagOK /\ EventsOK /\ SearchTyped /\ ResolveTyped
  BY DEF Inv, Typed
<1>1. ASSUME phase' \notin {"power", "rest"} PROVE TopicsOK'
  BY <1>1 DEF TopicsOK
<1>2. CASE Extend \/ (\E n \in DOMAIN Menu : Diverge(Menu[n])) \/ Other \/ Split
  <2>1. phase' \notin {"power", "rest"}
    BY <1>2 DEF Extend, Diverge, Other, Split
  <2> QED BY <1>1, <2>1
<1>3. ASSUME NEW c \in Running, Walk(c) \/ WalkEnds(c) PROVE TopicsOK'
  <2>1. UNCHANGED phase /\ phase = "walk"
    BY <1>0, <1>3 DEF Walk, WalkEnds, Running, SearchTyped
  <2> QED BY <1>1, <2>1
<1>4. CASE Collect \/ PopSmallest \/ Finish
  BY <1>1, <1>4 DEF Collect, PopSmallest, Finish
<1>5. CASE Sorted
  <2>1. resolved' = Initial /\ UNCHANGED <<rules, dag, states>>
    BY <1>5 DEF Sorted, room
  <2>2. Agreed' = Agreed
    BY <2>1 DEF Agreed
  <2>3. DOMAIN Initial \subseteq Agreed
    BY <1>0, UnconflictedPlaced DEF Initial, NoEntries
  <2> QED BY <2>1, <2>2, <2>3 DEF TopicsOK
<1>6. CASE AuthCheck
  <2>1. /\ phase \in {"power", "rest"} /\ todo # <<>>
        /\ resolved' = Apply(resolved, Head(todo))
        /\ UNCHANGED <<rules, dag, states, phase>>
    BY <1>6 DEF AuthCheck, room
  <2>2. PICK st, i, new : st = resolved /\ i = Head(todo) /\ new = Apply(st, i)
    OBVIOUS
  <2>3. resolved' = new /\ Placed(st) /\ i \in DOMAIN dag
    BY <1>0, <2>1, <2>2 DEF ResolveTyped
  <2>4. Agreed' = Agreed
    BY <2>1 DEF Agreed
  <2>5. \/ new = st
        \/ /\ Allowed(dag[i], CheckState(i, st), 1, rules.hydra)
           /\ DOMAIN new = DOMAIN st \cup {SlotOf(dag[i])}
           /\ new[SlotOf(dag[i])] = i
           /\ \A s \in DOMAIN st : s # SlotOf(dag[i]) => new[s] = st[s]
    BY <2>2 DEF Apply, Put
  <2>6. CASE new = st
    <3>1. UNCHANGED resolved
      BY <2>2, <2>3, <2>6
    <3> QED BY <2>1, <2>4, <3>1 DEF TopicsOK, MaySet, Events
  <2>7. CASE /\ Allowed(dag[i], CheckState(i, st), 1, rules.hydra)
             /\ DOMAIN new = DOMAIN st \cup {SlotOf(dag[i])}
             /\ new[SlotOf(dag[i])] = i
             /\ \A s \in DOMAIN st : s # SlotOf(dag[i]) => new[s] = st[s]
    <3>1. CASE phase = "power"
      <4>1. dag[i].type # "topic"
        BY <2>1, <2>2, <3>1 DEF PowerFirst, Authorisers, AuthKinds
      <4>2. \A s \in DOMAIN st \ Agreed : dag[st[s]].type # "topic"
        BY <2>2, <3>1 DEF TopicsOK
      <4>3. \A s \in DOMAIN new \ Agreed : dag[new[s]].type # "topic"
        BY <2>7, <4>1, <4>2
      <4> QED BY <2>1, <2>3, <2>4, <4>3 DEF TopicsOK
    <3>2. CASE phase = "rest"
      <4>1. ~IsPowerEvent(dag[i])
        BY <2>1, <2>2, <3>2 DEF PowerFirst
      <4>2. ASSUME NEW u, MaySet(st, u) PROVE MaySet(new, u)
        BY <1>0, <2>3, <2>7, <4>1, <4>2, MaySetKept
      <4>3. ASSUME NEW s \in DOMAIN new \ Agreed, dag[new[s]].type = "topic"
            PROVE  MaySet(new, dag[new[s]].sender)
        <5>1. CASE s = SlotOf(dag[i])
          <6>1. new[s] = i /\ dag[i].type = "topic"
            BY <2>7, <4>3, <5>1
          <6>2. MaySet(st, dag[i].sender)
            BY <1>0, <2>3, <2>7, <6>1, TopicAllowed
          <6> QED BY <4>2, <6>1, <6>2
        <5>2. CASE s # SlotOf(dag[i])
          <6>1. s \in DOMAIN st \ Agreed /\ new[s] = st[s]
            BY <2>7, <4>3, <5>2
          <6>2. MaySet(st, dag[st[s]].sender)
            BY <2>2, <3>2, <4>3, <6>1 DEF TopicsOK
          <6> QED BY <4>2, <6>1, <6>2
        <5> QED BY <5>1, <5>2
      <4>4. \A u : MaySet(new, u) => MaySet(new, u)'
        BY <2>1 DEF MaySet, Events
      <4>5. \A s \in DOMAIN new \ Agreed : dag[new[s]].type = "topic" =>
               MaySet(new, dag[new[s]].sender)'
        BY <2>1, <4>3, <4>4
      <4> QED BY <2>1, <2>3, <2>4, <3>2, <4>5 DEF TopicsOK, MaySet, Events
    <3> QED BY <2>1, <3>1, <3>2
  <2> QED BY <2>5, <2>6, <2>7
<1>7. CASE SortRemaining
  <2>1. phase = "power" /\ phase' = "rest" /\ UNCHANGED <<dag, states, resolved>>
        /\ Agreed' = Agreed
    BY <1>7 DEF SortRemaining, room, Agreed
  <2>2. \A s \in DOMAIN resolved \ Agreed : dag[resolved[s]].type # "topic"
    BY <2>1 DEF TopicsOK
  <2> QED BY <2>1, <2>2 DEF TopicsOK
<1>8. CASE UNCHANGED vars
  BY <1>8 DEF vars, room, TopicsOK, MaySet, Events, Agreed
<1> QED BY <1>2, <1>3, <1>4, <1>5, <1>6, <1>7, <1>8 DEF Next, Done

\* What is decided by the events that are resolved does not change in the last
\* step, where the forks' agreement is put back.
LEMMA DecidedStays ==
    ASSUME EventsOK, AgreedKept, phase = "rest", NEW t, Decided(t),
           NEW new, new = Over(Unconflicted, resolved)
    PROVE  /\ t \in DOMAIN new <=> t \in DOMAIN resolved
           /\ t \in DOMAIN new => new[t] = resolved[t]
<1>1. /\ DOMAIN Unconflicted = Agreed
      /\ \A s \in Agreed : Unconflicted[s] = states[1][s]
  BY UnconflictedPlaced
<1>2. /\ DOMAIN new = Agreed \cup DOMAIN resolved
      /\ \A s \in DOMAIN new :
            new[s] = IF s \in Agreed THEN Unconflicted[s] ELSE resolved[s]
  BY <1>1 DEF Over
<1>3. CASE t \notin Agreed
  BY <1>2, <1>3
<1>4. CASE t \in Agreed
  <2>1. t \in DOMAIN resolved /\ resolved[t] = states[1][t]
    BY <1>4 DEF Decided, AgreedKept
  <2> QED BY <1>1, <1>2, <1>4, <2>1
<1> QED BY <1>3, <1>4

\* The topic that wins was set by a user who may set it.
LEMMA RevokedStep ==
    Inv /\ Typed /\ Revoking /\ RevokedLoses /\ [Next]_vars => RevokedLoses'
<1> SUFFICES ASSUME Inv, Typed, Revoking, RevokedLoses, [Next]_vars PROVE RevokedLoses'
  OBVIOUS
<1>0. DagOK /\ EventsOK /\ SearchTyped /\ ResolveTyped /\ AgreedKept /\ TopicsOK
  BY DEF Inv, Typed, Revoking
<1>1. ASSUME phase' # "done" PROVE RevokedLoses'
  BY <1>1 DEF RevokedLoses
<1>2. CASE Extend \/ (\E n \in DOMAIN Menu : Diverge(Menu[n])) \/ Other
  <2>1. phase' # "done"
    BY <1>2 DEF Extend, Diverge, Other
  <2> QED BY <1>1, <2>1
<1>3. CASE Split
  <2>1. CASE Conflicted = {}
    <3>1. resolved' = Unconflicted /\ UNCHANGED <<dag, states>>
      BY <1>3, <2>1 DEF Split, room
    <3>2. DOMAIN resolved' = Agreed /\ Agreed' = Agreed
      BY <1>0, <3>1, UnconflictedPlaced DEF Agreed
    <3> QED BY <3>2 DEF RevokedLoses
  <2>2. CASE Conflicted # {}
    BY <1>1, <1>3, <2>2 DEF Split
  <2> QED BY <2>1, <2>2
<1>4. ASSUME NEW c \in Running, Walk(c) \/ WalkEnds(c) PROVE RevokedLoses'
  <2>1. UNCHANGED phase /\ phase = "walk"
    BY <1>0, <1>4 DEF Walk, WalkEnds, Running, SearchTyped
  <2> QED BY <1>1, <2>1
<1>5. CASE Collect \/ PopSmallest \/ Sorted \/ AuthCheck \/ SortRemaining
  <2>1. phase' # "done"
    BY <1>5 DEF Collect, PopSmallest, Sorted, AuthCheck, SortRemaining
  <2> QED BY <1>1, <2>1
<1>6. CASE Finish
  <2>1. /\ phase = "rest" /\ resolved' = Over(Unconflicted, resolved)
        /\ UNCHANGED <<rules, dag, states, full>>
    BY <1>6 DEF Finish, room
  <2>2. PICK new, old, ev : new = resolved' /\ old = Events(resolved) /\ ev = Events(resolved)'
    OBVIOUS
  <2>3. /\ DOMAIN old = DOMAIN resolved
        /\ \A s \in DOMAIN resolved : old[s] = dag[resolved[s]]
        /\ DOMAIN ev = DOMAIN new /\ \A s \in DOMAIN new : ev[s] = dag[new[s]]
    BY <2>1, <2>2 DEF Events
  <2>4. Agreed' = Agreed
    BY <2>1 DEF Agreed
  <2>5. \A t : Decided(t)' = Decided(t)
    BY <2>1, <2>4 DEF Decided
  <2>6. ASSUME NEW t, Decided(t)
        PROVE  /\ t \in DOMAIN ev <=> t \in DOMAIN old
               /\ t \in DOMAIN ev => ev[t] = old[t]
    <3>1. /\ t \in DOMAIN new <=> t \in DOMAIN resolved
          /\ t \in DOMAIN new => new[t] = resolved[t]
      BY <1>0, <2>1, <2>2, <2>6, DecidedStays
    <3> QED BY <2>3, <3>1
  <2>7. \A s \in DOMAIN new \ Agreed : s \in DOMAIN resolved /\ new[s] = resolved[s]
    BY <1>0, <2>1, <2>2, UnconflictedPlaced DEF Over
  <2>8. ASSUME NEW s \in DOMAIN new \ Agreed, NEW e, e = dag[new[s]], e.type = "topic"
        PROVE  /\ Decided(MemberSlot(e.sender)) => Membership(ev, e.sender) # "ban"
               /\ Decided(PowerSlot) /\ PowerSlot \in DOMAIN new =>
                     PowerLevel(ev, e.sender, {dag[1].sender}, rules.hydra) >= STATE_DEFAULT
    <3>1. PICK u : u = e.sender
      OBVIOUS
    <3>2. MaySet(resolved, u)
      BY <1>0, <2>1, <2>7, <2>8, <3>1 DEF TopicsOK
    <3>3. ASSUME Decided(MemberSlot(u)) PROVE Membership(ev, u) # "ban"
      <4>1. PICK t : t = MemberSlot(u)
        OBVIOUS
      <4>2. (t \in DOMAIN ev <=> t \in DOMAIN old) /\ (t \in DOMAIN ev => ev[t] = old[t])
        BY <2>6, <3>3, <4>1
      <4>3. Membership(old, u) # "ban"
        BY <2>2, <3>2 DEF MaySet
      <4> QED BY <4>1, <4>2, <4>3 DEF Membership
    <3>4. ASSUME Decided(PowerSlot), PowerSlot \in DOMAIN new
          PROVE  PowerLevel(ev, u, {dag[1].sender}, rules.hydra) >= STATE_DEFAULT
      <4>1. /\ PowerSlot \in DOMAIN ev /\ PowerSlot \in DOMAIN old
            /\ ev[PowerSlot] = old[PowerSlot]
        BY <2>3, <2>6, <3>4
      <4>2. PowerLevel(old, u, {dag[1].sender}, rules.hydra) >= STATE_DEFAULT
        BY <2>2, <2>3, <3>2, <4>1 DEF MaySet
      <4> QED BY <4>1, <4>2 DEF PowerLevel
    <3> QED BY <3>1, <3>3, <3>4
  <2> QED BY <2>1, <2>2, <2>4, <2>5, <2>8 DEF RevokedLoses
<1>7. CASE UNCHANGED vars
  <2>1. UNCHANGED <<rules, dag, states, phase, full, resolved>>
    BY <1>7 DEF vars, room
  <2> QED BY <2>1 DEF RevokedLoses, Decided, Agreed, Events
<1> QED BY <1>2, <1>3, <1>4, <1>5, <1>6, <1>7 DEF Next, Done

LEMMA RevokingAlways == Spec => [](Revoking /\ RevokedLoses)
<1>1. Init => Revoking /\ RevokedLoses
  <2> SUFFICES ASSUME Init PROVE Revoking /\ RevokedLoses
    OBVIOUS
  <2>1. phase = "trunk" /\ dag = <<>> /\ DOMAIN resolved = {}
    BY DEF Init, NoEntries
  <2>2. Len(Trunk) \in Nat \ {0}
    BY StateResAssumption
  <2>3. RoomOK
    BY <2>1, <2>2 DEF RoomOK
  <2>4. PowerFirst /\ AgreedKept /\ TopicsOK /\ RevokedLoses
    BY <2>1 DEF PowerFirst, AgreedKept, TopicsOK, RevokedLoses
  <2> QED BY <2>3, <2>4 DEF Revoking
<1>2. Inv /\ Typed /\ Revoking /\ RevokedLoses /\ [Next]_vars => (Revoking /\ RevokedLoses)'
  <2> SUFFICES ASSUME Inv, Typed, Revoking, RevokedLoses, [Next]_vars
               PROVE  Revoking' /\ RevokedLoses'
    OBVIOUS
  <2>1. RoomOK'
    BY RoomStep DEF Typed, Revoking
  <2>2. PowerFirst' /\ AgreedKept' /\ TopicsOK'
    BY PowerFirstStep, AgreedKeptStep, TopicsStep DEF Revoking
  <2> QED BY <2>1, <2>2, RevokedStep DEF Revoking
<1> QED BY <1>1, <1>2, InvAlways, TypedAlways, PTL DEF Spec

\* Who is banned or has lost the power does not get through, for every room and
\* all forks: the power events are checked before any topic, in whatever order,
\* and a topic is held to what they leave (iterative_auth_check, auth_check).
THEOREM RevocationHolds == Spec => []RevokedLoses
BY RevokingAlways, PTL

-----------------------------------------------------------------------------
(* The resolved state is that of the definition *)

\* The states that the checks of the events go through, from the state st on
IsAfter(f, st, events) ==
    /\ DOMAIN f = 0..Len(events)
    /\ f[0] = st
    /\ \A n \in 1..Len(events) : f[n] = Apply(f[n - 1], events[n])

\* The state that the definition gives is the last of them.
LEMMA AuthCheckedLast ==
    ASSUME NEW I, NEW events \in Seq(I), NEW st
    PROVE  \E f : IsAfter(f, st, events) /\ AuthChecked(st, events) = f[Len(events)]
<1>1. PICK N, V, S : /\ N = Len(events)
                     /\ V = {st[s] : s \in DOMAIN st} \cup I
                     /\ S = DOMAIN st \cup {SlotOf(dag[i]) : i \in I}
  OBVIOUS
<1>2. N \in Nat /\ \A n \in 1..N : events[n] \in I
  BY <1>1
<1>3. PICK A : A = {st} \cup UNION {[D -> V] : D \in SUBSET S}
  OBVIOUS
<1>4. ASSUME NEW s \in A, NEW i \in I PROVE Apply(s, i) \in A
  <2>1. /\ DOMAIN s \subseteq S
        /\ \A t \in DOMAIN s : s[t] \in V
    BY <1>1, <1>3
  <2>2. PICK D, new : D = DOMAIN s \cup {SlotOf(dag[i])} /\ new = Put(s, SlotOf(dag[i]), i)
    OBVIOUS
  <2>3. D \in SUBSET S /\ new \in [D -> V]
    BY <1>1, <2>1, <2>2 DEF Put
  <2>4. new \in A
    BY <1>3, <2>3
  <2> QED BY <2>2, <2>4 DEF Apply
<1>5. PICK step : step = [n \in 1..N |-> [s \in A |-> Apply(s, events[n])]]
  OBVIOUS
<1>6. st \in A /\ step \in [1..N -> [A -> A]]
  BY <1>2, <1>3, <1>4, <1>5
<1>7. PICK f \in [0..N -> A] : f[0] = st /\ \A n \in 1..N : f[n] = step[n][f[n - 1]]
  <2>1. \E f : Iterates(f, A, N, st, step)
    BY <1>2, <1>6, RecursionExists
  <2> QED BY <2>1 DEF Iterates
<1>8. \A n \in 1..N : f[n] = Apply(f[n - 1], events[n])
  <2>1. ASSUME NEW n \in 1..N PROVE f[n - 1] \in A
    <3>1. n - 1 \in 0..N
      BY <1>2
    <3> QED BY <3>1
  <2> QED BY <1>5, <1>7, <2>1
<1> DEFINE Is(g) == g = [n \in 0..Len(events) |->
                           IF n = 0 THEN st ELSE Apply(g[n - 1], events[n])]
           after == CHOOSE g : Is(g)
<1>9. Is(f)
  <2>1. f = [n \in 0..N |-> f[n]]
    OBVIOUS
  <2>2. ASSUME NEW n \in 0..N
        PROVE  f[n] = IF n = 0 THEN st ELSE Apply(f[n - 1], events[n])
    <3>1. n = 0 \/ n \in 1..N
      BY <1>2
    <3> QED BY <1>7, <1>8, <1>2, <3>1
  <2> QED BY <1>1, <2>1, <2>2
<1>10. Is(after)
  BY <1>9
<1>11. AuthChecked(st, events) = after[Len(events)]
  BY DEF AuthChecked
<1> HIDE DEF after
<1>12. IsAfter(after, st, events)
  <2>1. DOMAIN after = 0..Len(events)
    BY <1>10
  <2>2. after[0] = st
    BY <1>1, <1>2, <1>10
  <2>3. ASSUME NEW n \in 1..Len(events) PROVE after[n] = Apply(after[n - 1], events[n])
    <3>1. n \in 0..Len(events) /\ n # 0
      BY <1>1, <1>2
    <3> QED BY <1>10, <3>1
  <2> QED BY <2>1, <2>2, <2>3 DEF IsAfter
<1> QED BY <1>11, <1>12

\* There is nothing to check, or the first event is checked before the others.
LEMMA AuthCheckedStep ==
    ASSUME NEW I, NEW events \in Seq(I), NEW st
    PROVE  /\ events = <<>> => AuthChecked(st, events) = st
           /\ events # <<>> =>
                 AuthChecked(st, events) = AuthChecked(Apply(st, Head(events)), Tail(events))
<1>1. PICK f : IsAfter(f, st, events) /\ AuthChecked(st, events) = f[Len(events)]
  BY AuthCheckedLast
<1>2. ASSUME events = <<>> PROVE AuthChecked(st, events) = st
  BY <1>1, <1>2 DEF IsAfter
<1>3. ASSUME events # <<>>
      PROVE  AuthChecked(st, events) = AuthChecked(Apply(st, Head(events)), Tail(events))
  <2>1. PICK first, rest, N : /\ first = Apply(st, Head(events)) /\ rest = Tail(events)
                              /\ N = Len(rest)
    OBVIOUS
  <2>2. /\ rest \in Seq(I) /\ N \in Nat /\ Len(events) = N + 1
        /\ Head(events) = events[1]
        /\ \A n \in 1..N : rest[n] = events[n + 1]
    BY <1>3, <2>1
  <2>3. PICK g : IsAfter(g, first, rest) /\ AuthChecked(first, rest) = g[N]
    BY <2>1, <2>2, AuthCheckedLast
  <2> DEFINE T == {n \in 0..N : g[n] # f[n + 1]}
  <2>4. ASSUME T # {} PROVE FALSE
    <3>1. T \in SUBSET (0..N)
      OBVIOUS
    <3> HIDE DEF T
    <3>2. PICK m \in T : \A j \in T : m <= j
      BY <2>2, <2>4, <3>1, SmallestExists
    <3> USE DEF T
    <3>3. m \in 0..N /\ g[m] # f[m + 1]
      OBVIOUS
    <3>4. CASE m = 0
      <4>1. g[0] = first
        BY <2>3 DEF IsAfter
      <4>2. 1 \in 1..Len(events) /\ 1 - 1 = 0 /\ m + 1 = 1
        BY <2>2, <3>4
      <4>3. f[1] = Apply(f[0], events[1]) /\ f[0] = st
        BY <1>1, <4>2 DEF IsAfter
      <4> QED BY <2>1, <2>2, <3>3, <3>4, <4>1, <4>2, <4>3
    <3>5. CASE m # 0
      <4>1. /\ m \in 1..N /\ m - 1 \in 0..N /\ m + 1 \in 1..Len(events)
            /\ (m + 1) - 1 = m /\ (m - 1) + 1 = m /\ ~(m <= m - 1)
        BY <2>2, <3>3, <3>5
      <4>2. g[m - 1] = f[m]
        <5>1. m - 1 \notin T
          <6> HIDE DEF T
          <6> QED BY <3>2, <4>1
        <5> QED BY <4>1, <5>1
      <4>3. g[m] = Apply(g[m - 1], rest[m])
        BY <2>1, <2>3, <4>1 DEF IsAfter
      <4>4. f[m + 1] = Apply(f[m], events[m + 1])
        BY <1>1, <4>1 DEF IsAfter
      <4>5. rest[m] = events[m + 1]
        BY <2>2, <4>1
      <4> QED BY <3>3, <4>2, <4>3, <4>4, <4>5
    <3> QED BY <3>4, <3>5
  <2>5. g[N] = f[N + 1]
    BY <2>2, <2>4
  <2> QED BY <1>1, <2>1, <2>2, <2>3, <2>5
<1> QED BY <1>2, <1>3

\* The levels that events are sorted by are integers.
LEMMA SenderPowerType ==
    ASSUME DagOK, RoomOK, NEW i \in DOMAIN dag
    PROVE  SenderPower(i) \in Int
<1>1. PICK set, cs : set = dag[i].auth /\ cs = BySlot(set)
  OBVIOUS
<1>2. set \subseteq DOMAIN dag
  BY <1>1 DEF DagOK
<1>3. ASSUME NEW s \in DOMAIN cs
      PROVE  \E j \in DOMAIN dag : SlotOf(dag[j]) = s /\ cs[s] = dag[j]
  <2>1. \E j \in set : SlotOf(dag[j]) = s
    BY <1>1 DEF BySlot
  <2>2. PICK j : j = CHOOSE k \in set : SlotOf(dag[k]) = s
    OBVIOUS
  <2>3. j \in set /\ SlotOf(dag[j]) = s
    BY <2>1, <2>2
  <2>4. cs[s] = dag[j]
    BY <1>1, <2>2 DEF BySlot
  <2> QED BY <1>2, <2>3, <2>4
<1>4. \A u, creators : PowerLevel(cs, u, creators, rules.hydra) \in Int
  BY <1>3, LevelType
<1>5. PICK creators : SenderPower(i) = PowerLevel(cs, dag[i].sender, creators, rules.hydra)
  BY <1>1 DEF SenderPower
<1> QED BY <1>4, <1>5

\* Of two events no more than one is before the other.
LEMMA BeforeAsymmetric ==
    ASSUME DagOK, EventsOK, RoomOK, NEW i \in DOMAIN dag, NEW j \in DOMAIN dag,
           Before(i, j), Before(j, i)
    PROVE  FALSE
<1>1. PICK p, q : p = SenderPower(i) /\ q = SenderPower(j)
  OBVIOUS
<1>2. p \in Int /\ q \in Int
  BY <1>1, SenderPowerType
<1>3. dag[i].ts \in Int /\ dag[j].ts \in Int
  BY DEF EventsOK
<1>4. i \in Int /\ j \in Int
  BY DEF DagOK
<1>5. /\ p > q \/ (p = q /\ (dag[i].ts < dag[j].ts \/ (dag[i].ts = dag[j].ts /\ i < j)))
      /\ q > p \/ (q = p /\ (dag[j].ts < dag[i].ts \/ (dag[j].ts = dag[i].ts /\ j < i)))
  BY <1>1 DEF Before
<1> QED BY <1>2, <1>3, <1>4, <1>5

\* The event that is taken from the heap is the one of the definition.
LEMMA SmallestUnique ==
    ASSUME DagOK, EventsOK, RoomOK, NEW heap \in SUBSET DOMAIN dag,
           NEW i \in heap, IsSmallest(i, heap)
    PROVE  Smallest(heap) = i
<1>1. PICK k : k = Smallest(heap)
  OBVIOUS
<1>2. \A j \in heap \ {i} : Before(i, j)
  BY DEF IsSmallest
<1>3. k \in heap /\ \A j \in heap \ {k} : Before(k, j)
  BY <1>1, <1>2 DEF Smallest
<1>4. ASSUME k # i PROVE FALSE
  <2>1. Before(i, k) /\ Before(k, i)
    BY <1>2, <1>3, <1>4
  <2> QED BY <1>3, <2>1, BeforeAsymmetric
<1> QED BY <1>1, <1>4

\* The events of the set that may come next when some are placed
ReadyIn(set, placed) == {i \in set \ placed : dag[i].auth \cap set \subseteq placed}

\* The beginnings of the power order of the set
IsOrder(f, set) ==
    /\ DOMAIN f = 0..Cardinality(set)
    /\ f[0] = <<>>
    /\ \A n \in 1..Cardinality(set) :
          f[n] = Append(f[n - 1], Smallest(ReadyIn(set, ToSet(f[n - 1]))))

\* The order that the definition gives is the last of them.
LEMMA PowerOrderLast ==
    ASSUME NEW set, Cardinality(set) \in Nat
    PROVE  \E f : IsOrder(f, set) /\ PowerOrder(set) = f[Cardinality(set)]
<1>1. PICK N, U : N = Cardinality(set) /\ U = {Smallest(r) : r \in SUBSET set}
  OBVIOUS
<1>2. PICK A : A = Seq(U)
  OBVIOUS
<1> DEFINE Longer(s) == Append(s, Smallest(ReadyIn(set, ToSet(s))))
<1>3. ASSUME NEW s \in A PROVE Longer(s) \in A
  <2>1. PICK r, i : r = ReadyIn(set, ToSet(s)) /\ i = Smallest(r)
    OBVIOUS
  <2>2. r \in SUBSET set
    BY <2>1 DEF ReadyIn
  <2>3. i \in U
    BY <1>1, <2>1, <2>2
  <2> QED BY <1>2, <2>1, <2>3
<1> HIDE DEF Longer
<1>4. PICK step : step = [n \in 1..N |-> [s \in A |-> Longer(s)]]
  OBVIOUS
<1>5. N \in Nat /\ <<>> \in A /\ step \in [1..N -> [A -> A]]
  BY <1>1, <1>2, <1>3, <1>4
<1>6. PICK f : Iterates(f, A, N, <<>>, step)
  BY <1>5, RecursionExists
<1>7. f \in [0..N -> A] /\ f[0] = <<>> /\ \A n \in 1..N : f[n] = step[n][f[n - 1]]
  BY <1>6 DEF Iterates
<1>8. \A n \in 1..N : f[n] = Longer(f[n - 1])
  <2>1. ASSUME NEW n \in 1..N PROVE f[n - 1] \in A
    <3>1. n - 1 \in 0..N
      BY <1>5
    <3> QED BY <1>7, <3>1
  <2> QED BY <1>4, <1>7, <2>1
<1> DEFINE Is(g) == g = [n \in 0..Cardinality(set) |->
                           IF n = 0 THEN <<>> ELSE Longer(g[n - 1])]
           order == CHOOSE g : Is(g)
<1>9. Is(f)
  <2>1. f = [n \in 0..N |-> f[n]]
    BY <1>7
  <2>2. ASSUME NEW n \in 0..N PROVE f[n] = IF n = 0 THEN <<>> ELSE Longer(f[n - 1])
    <3>1. n = 0 \/ n \in 1..N
      BY <1>5
    <3> QED BY <1>5, <1>7, <1>8, <3>1
  <2> QED BY <1>1, <2>1, <2>2
<1>10. Is(order)
  BY <1>9
<1>11. PowerOrder(set) = order[Cardinality(set)]
  BY DEF PowerOrder, Longer, ReadyIn
<1> HIDE DEF order
<1>12. IsOrder(order, set)
  <2>1. DOMAIN order = 0..Cardinality(set)
    BY <1>10
  <2>2. order[0] = <<>>
    BY <1>1, <1>5, <1>10
  <2>3. ASSUME NEW n \in 1..Cardinality(set) PROVE order[n] = Longer(order[n - 1])
    <3>1. n \in 0..Cardinality(set) /\ n # 0
      BY <1>1, <1>5
    <3> QED BY <1>10, <3>1
  <2> QED BY <2>1, <2>2, <2>3 DEF IsOrder, Longer
<1> QED BY <1>11, <1>12

\* The state after the first round of checks and the one after both, by the
\* definition and with the full conflicted set that was found
Partial == AuthChecked(Initial, PowerOrder(Reached(full)))

Checked == AuthChecked(Partial, MainlineSort(full \ Reached(full), Partial))

\* What is sorted is the beginning of the power order, and all else is in the
\* graph.
OrderOK ==
    phase = "sort" =>
        /\ DOMAIN graph = Reached(full) \ ToSet(todo)
        /\ ToSet(todo) \subseteq Reached(full)
        /\ Len(todo) + Cardinality(DOMAIN graph) = Cardinality(Reached(full))
        /\ \A f : IsOrder(f, Reached(full)) => f[Len(todo)] = todo

\* What is left to check leads to the state of the definition.
ChecksOK ==
    /\ phase \in {"sort", "power"} => remaining = full \ Reached(full)
    /\ phase = "power" => AuthChecked(resolved, todo) = Partial
    /\ phase = "rest" => AuthChecked(resolved, todo) = Checked

\* Without the conflicted subgraph nothing is searched, and the full conflicted
\* set is that of the definition.
NoSearch ==
    ~rules.subgraph =>
        /\ DOMAIN walks = {} /\ marked.subgraph = {}
        /\ phase \in {"sort", "power", "rest"} => full = FullSet

Resolving == OrderOK /\ ChecksOK /\ NoSearch

\* The result is that of both rounds of checks, under what the forks agree on.
LEMMA ResolutionChecked == Resolution(full) = Over(Unconflicted, Checked)
BY DEF Resolution, Checked, Partial

\* The definitions give the same after a step that leaves the room and the full
\* conflicted set alone.
LEMMA DefinitionsSame ==
    ASSUME UNCHANGED <<room, full>>
    PROVE  /\ Reached(full)' = Reached(full)
           /\ PowerOrder(Reached(full))' = PowerOrder(Reached(full))
           /\ \A f : IsOrder(f, Reached(full))' <=> IsOrder(f, Reached(full))
           /\ Initial' = Initial /\ Unconflicted' = Unconflicted
           /\ Conflicted' = Conflicted /\ FullSet' = FullSet
           /\ Partial' = Partial /\ Checked' = Checked
<1>1. UNCHANGED <<dag, rules, states, full>>
  BY DEF room
<1>2. Reached(full)' = Reached(full)
  BY <1>1 DEF Reached
<1>3. Initial' = Initial /\ Unconflicted' = Unconflicted
  BY <1>1 DEF Initial, Unconflicted, Agreed
<1>4. Conflicted' = Conflicted /\ FullSet' = FullSet
  BY <1>1 DEF FullSet, AuthDifference, AuthSet, Between, Conflicted, Agreed
<1>5. PowerOrder(Reached(full))' = PowerOrder(Reached(full))
  BY <1>1, <1>2 DEF PowerOrder, Smallest, Before, SenderPower, BySlot
<1>6. ASSUME NEW f PROVE IsOrder(f, Reached(full))' <=> IsOrder(f, Reached(full))
  BY <1>1, <1>2 DEF IsOrder, ReadyIn, Smallest, Before, SenderPower, BySlot
<1>7. Partial' = Partial
  BY <1>1, <1>3, <1>5
     DEF Partial, AuthChecked, Apply, CheckState, BySlot, Events, Over, Put
<1>8. Checked' = Checked
  BY <1>1, <1>2, <1>7
     DEF Checked, AuthChecked, Apply, CheckState, BySlot, Events, Over, Put,
         MainlineSort, Mainline, Line, Position, PowerAuth
<1> QED BY <1>2, <1>3, <1>4, <1>5, <1>6, <1>7, <1>8

\* So do the checks of given events.
LEMMA ChecksSame ==
    ASSUME UNCHANGED room, NEW st, NEW events, st = resolved', events = todo'
    PROVE  AuthChecked(resolved, todo)' = AuthChecked(st, events)
<1>1. UNCHANGED <<dag, rules>>
  BY DEF room
<1> QED BY <1>1 DEF AuthChecked, Apply, CheckState, BySlot, Events, Over, Put

\* There are finitely many events to sort.
LEMMA ReachedFinite ==
    ASSUME DagOK, NEW set
    PROVE  /\ IsFiniteSet(Reached(set)) /\ Cardinality(Reached(set)) \in Nat
           /\ Reached(set) \subseteq set \cap DOMAIN dag
<1>1. Reached(set) \subseteq set \cap DOMAIN dag
  BY ReachedClosed
<1>2. IsFiniteSet(DOMAIN dag)
  <2>1. DOMAIN dag = 1..Len(dag) /\ Len(dag) \in Nat
    BY DEF DagOK
  <2> QED BY <2>1, FS_Interval
<1>3. IsFiniteSet(Reached(set))
  BY <1>1, <1>2, FS_Subset
<1> QED BY <1>1, <1>3, FS_CardinalityType

\* Every step keeps the order: the heap holds what may come next.
LEMMA OrderStep ==
    Inv /\ Typed /\ RoomOK /\ OrderOK /\ [Next]_vars => OrderOK'
<1> SUFFICES ASSUME Inv, Typed, RoomOK, OrderOK, [Next]_vars PROVE OrderOK'
  OBVIOUS
<1>0. DagOK /\ SortOK /\ EventsOK /\ SearchTyped /\ ResolveTyped
  BY DEF Inv, Typed
<1>1. ASSUME phase' # "sort" PROVE OrderOK'
  BY <1>1 DEF OrderOK
<1>2. CASE Extend \/ (\E n \in DOMAIN Menu : Diverge(Menu[n])) \/ Other \/ Split
  <2>1. phase' # "sort"
    BY <1>2 DEF Extend, Diverge, Other, Split
  <2> QED BY <1>1, <2>1
<1>3. ASSUME NEW c \in Running, Walk(c) \/ WalkEnds(c) PROVE OrderOK'
  <2>1. UNCHANGED phase /\ phase = "walk"
    BY <1>0, <1>3 DEF Walk, WalkEnds, Running, SearchTyped
  <2> QED BY <1>1, <2>1
<1>4. CASE Collect
  <2>1. phase = "walk" /\ UNCHANGED <<dag, todo>> /\ DOMAIN graph' = Reached(full')
    BY <1>4 DEF Collect, room
  <2>2. todo' = <<>> /\ ToSet(todo') = {} /\ Len(todo') = 0
    BY <1>0, <2>1 DEF SortOK, ToSet
  <2>3. PICK R : R = Reached(full')
    OBVIOUS
  <2>4. Reached(full)' = R
    BY <2>1, <2>3 DEF Reached
  <2>5. Cardinality(R) \in Nat
    BY <1>0, <2>3, ReachedFinite
  <2>6. \A f : IsOrder(f, Reached(full))' => f[0] = <<>>
    BY DEF IsOrder
  <2>7. /\ DOMAIN graph' = R \ ToSet(todo') /\ ToSet(todo') \subseteq R
        /\ Len(todo') + Cardinality(DOMAIN graph') = Cardinality(R)
    BY <2>1, <2>2, <2>3, <2>5
  <2> QED BY <2>2, <2>4, <2>6, <2>7 DEF OrderOK
<1>5. CASE PopSmallest
  <2>1. PICK heap : heap = {i \in DOMAIN graph : graph[i] = {}}
    OBVIOUS
  <2>2. PICK i \in heap :
           /\ phase = "sort" /\ IsSmallest(i, heap)
           /\ graph' = [j \in DOMAIN graph \ {i} |-> graph[j] \ {i}]
           /\ todo' = Append(todo, i)
           /\ UNCHANGED <<room, full>>
    BY <1>5, <2>1 DEF PopSmallest
  <2>3. PICK R, G, n, placed : /\ R = Reached(full) /\ G = DOMAIN graph
                               /\ n = Len(todo) /\ placed = ToSet(todo)
    OBVIOUS
  <2>4. /\ todo \in Seq(DOMAIN dag) /\ n \in Nat /\ G \subseteq DOMAIN dag
        /\ \A j \in G : graph[j] = dag[j].auth \cap G
    BY <1>0, <2>2, <2>3 DEF SortOK
  <2>5. /\ G = R \ placed /\ placed \subseteq R /\ n + Cardinality(G) = Cardinality(R)
        /\ \A f : IsOrder(f, R) => f[n] = todo
    BY <2>2, <2>3 DEF OrderOK
  <2>6. IsFiniteSet(R) /\ Cardinality(R) \in Nat
    BY <1>0, <2>3, ReachedFinite
  <2>7. i \in G /\ heap \in SUBSET DOMAIN dag
    BY <2>1, <2>3, <2>4
  <2>8. heap = ReadyIn(R, placed)
    BY <2>1, <2>3, <2>4, <2>5 DEF ReadyIn
  <2>9. Smallest(ReadyIn(R, placed)) = i
    BY <1>0, <2>2, <2>7, <2>8, SmallestUnique
  <2>10. /\ IsFiniteSet(G) /\ Cardinality(G) \in Nat
         /\ Cardinality(G \ {i}) = Cardinality(G) - 1
    <3>1. IsFiniteSet(G)
      BY <2>5, <2>6, FS_Subset
    <3> QED BY <2>7, <3>1, FS_RemoveElement, FS_CardinalityType
  <2>11. Cardinality(G) >= 1
    <3>1. Cardinality(G) # 0
      BY <2>7, <2>10, FS_EmptySet
    <3> QED BY <2>10, <3>1
  <2>12. n + 1 \in 1..Cardinality(R) /\ (n + 1) - 1 = n
    BY <2>4, <2>5, <2>6, <2>10, <2>11
  <2>13. ASSUME NEW f, IsOrder(f, R) PROVE f[n + 1] = Append(todo, i)
    <3>1. f[n] = todo
      BY <2>5, <2>13
    <3>2. f[n + 1] = Append(f[n], Smallest(ReadyIn(R, ToSet(f[n]))))
      BY <2>12, <2>13 DEF IsOrder
    <3> QED BY <2>3, <2>9, <3>1, <3>2
  <2>14. Len(todo') = n + 1 /\ ToSet(todo') = placed \cup {i}
    <3>1. /\ Len(todo') = n + 1 /\ DOMAIN todo' = 1..(n + 1) /\ DOMAIN todo = 1..n
          /\ todo'[n + 1] = i /\ \A k \in 1..n : todo'[k] = todo[k]
      BY <2>2, <2>3, <2>4
    <3>2. 1..(n + 1) = (1..n) \cup {n + 1}
      BY <2>4
    <3> QED BY <2>3, <3>1, <3>2 DEF ToSet
  <2>15. /\ DOMAIN graph' = G \ {i} /\ G \ {i} = R \ (placed \cup {i})
         /\ placed \cup {i} \subseteq R
    BY <2>2, <2>3, <2>5, <2>7
  <2>16. (n + 1) + Cardinality(G \ {i}) = Cardinality(R)
    BY <2>4, <2>5, <2>6, <2>10
  <2>17. Reached(full)' = R /\ \A f : IsOrder(f, Reached(full))' <=> IsOrder(f, R)
    BY <2>2, <2>3, DefinitionsSame
  <2> QED BY <2>2, <2>13, <2>14, <2>15, <2>16, <2>17 DEF OrderOK
<1>6. CASE Sorted \/ AuthCheck \/ SortRemaining \/ Finish
  <2>1. phase' # "sort"
    BY <1>6 DEF Sorted, AuthCheck, SortRemaining, Finish
  <2> QED BY <1>1, <2>1
<1>7. CASE UNCHANGED vars
  <2>1. UNCHANGED <<room, full>> /\ UNCHANGED <<phase, graph, todo>>
    BY <1>7 DEF vars
  <2>2. Reached(full)' = Reached(full)
        /\ \A f : IsOrder(f, Reached(full))' <=> IsOrder(f, Reached(full))
    BY <2>1, DefinitionsSame
  <2> QED BY <2>1, <2>2 DEF OrderOK
<1> QED BY <1>2, <1>3, <1>4, <1>5, <1>6, <1>7 DEF Next, Done

\* Every step keeps the checks on the way to the state of the definition.
LEMMA ChecksStep ==
    Inv /\ Typed /\ OrderOK /\ ChecksOK /\ [Next]_vars => ChecksOK'
<1> SUFFICES ASSUME Inv, Typed, OrderOK, ChecksOK, [Next]_vars PROVE ChecksOK'
  OBVIOUS
<1>0. DagOK /\ SortOK /\ EventsOK /\ SearchTyped /\ ResolveTyped
  BY DEF Inv, Typed
<1>1. ASSUME phase' \notin {"sort", "power", "rest"} PROVE ChecksOK'
  BY <1>1 DEF ChecksOK
<1>2. CASE Extend \/ (\E n \in DOMAIN Menu : Diverge(Menu[n])) \/ Other \/ Split
  <2>1. phase' \notin {"sort", "power", "rest"}
    BY <1>2 DEF Extend, Diverge, Other, Split
  <2> QED BY <1>1, <2>1
<1>3. ASSUME NEW c \in Running, Walk(c) \/ WalkEnds(c) PROVE ChecksOK'
  <2>1. UNCHANGED phase /\ phase = "walk"
    BY <1>0, <1>3 DEF Walk, WalkEnds, Running, SearchTyped
  <2> QED BY <1>1, <2>1
<1>4. CASE Collect
  <2>1. /\ phase' = "sort" /\ UNCHANGED dag
        /\ remaining' = full' \ Reached(full')
    BY <1>4 DEF Collect, room
  <2>2. Reached(full)' = Reached(full')
    BY <2>1 DEF Reached
  <2> QED BY <2>1, <2>2 DEF ChecksOK
<1>5. CASE PopSmallest
  <2>1. phase = "sort" /\ phase' = "sort" /\ UNCHANGED <<room, full>> /\ UNCHANGED remaining
    BY <1>5 DEF PopSmallest
  <2>2. Reached(full)' = Reached(full)
    BY <2>1, DefinitionsSame
  <2> QED BY <2>1, <2>2 DEF ChecksOK
<1>6. CASE Sorted
  <2>1. /\ phase = "sort" /\ phase' = "power" /\ UNCHANGED <<room, full>>
        /\ UNCHANGED <<remaining, todo>> /\ resolved' = Initial
        /\ \A i \in DOMAIN graph : graph[i] # {}
    BY <1>6 DEF Sorted
  <2>2. DOMAIN graph = {}
    BY <1>0, <2>1, HeapEmpty
  <2>3. PICK R : R = Reached(full)
    OBVIOUS
  <2>4. Cardinality(R) \in Nat /\ todo \in Seq(DOMAIN dag)
    BY <1>0, <2>1, <2>3, ReachedFinite DEF SortOK
  <2>5. Len(todo) = Cardinality(R)
    <3>1. Len(todo) + Cardinality(DOMAIN graph) = Cardinality(R)
      BY <2>1, <2>3 DEF OrderOK
    <3>2. Cardinality(DOMAIN graph) = 0
      BY <2>2, FS_EmptySet
    <3> QED BY <2>4, <3>1, <3>2
  <2>6. todo = PowerOrder(R)
    <3>1. PICK f : IsOrder(f, R) /\ PowerOrder(R) = f[Cardinality(R)]
      BY <2>4, PowerOrderLast
    <3>2. f[Len(todo)] = todo
      BY <2>1, <2>3, <3>1 DEF OrderOK
    <3> QED BY <2>5, <3>1, <3>2
  <2>7. PICK st, events : st = resolved' /\ events = todo'
    OBVIOUS
  <2>8. AuthChecked(resolved, todo)' = AuthChecked(st, events)
    BY <2>1, <2>7, ChecksSame
  <2>9. Reached(full)' = R /\ Partial' = Partial
    BY <2>1, <2>3, DefinitionsSame
  <2>10. AuthChecked(st, events) = Partial
    BY <2>1, <2>3, <2>6, <2>7 DEF Partial
  <2> QED BY <2>1, <2>3, <2>8, <2>9, <2>10 DEF ChecksOK
<1>7. CASE AuthCheck
  <2>1. /\ phase \in {"power", "rest"} /\ todo # <<>> /\ UNCHANGED <<room, full>>
        /\ resolved' = Apply(resolved, Head(todo)) /\ todo' = Tail(todo)
        /\ UNCHANGED <<phase, remaining>>
    BY <1>7 DEF AuthCheck
  <2>2. PICK st, events, old, all : /\ st = resolved' /\ events = todo'
                                    /\ old = resolved /\ all = todo
    OBVIOUS
  <2>3. AuthChecked(resolved, todo)' = AuthChecked(st, events)
    BY <2>1, <2>2, ChecksSame
  <2>4. all \in Seq(full) /\ all # <<>> /\ st = Apply(old, Head(all)) /\ events = Tail(all)
    BY <1>0, <2>1, <2>2 DEF ResolveTyped
  <2>5. AuthChecked(old, all) = AuthChecked(st, events)
    BY <2>4, AuthCheckedStep
  <2>6. AuthChecked(resolved, todo)' = AuthChecked(resolved, todo)
    BY <2>2, <2>3, <2>5
  <2>7. Reached(full)' = Reached(full) /\ Partial' = Partial /\ Checked' = Checked
    BY <2>1, DefinitionsSame
  <2> QED BY <2>1, <2>6, <2>7 DEF ChecksOK
<1>8. CASE SortRemaining
  <2>1. /\ phase = "power" /\ phase' = "rest" /\ todo = <<>> /\ UNCHANGED <<room, full>>
        /\ todo' = MainlineSort(remaining, resolved) /\ UNCHANGED resolved
    BY <1>8 DEF SortRemaining
  <2>2. PICK st, events, old : st = resolved /\ events = todo' /\ old = todo
    OBVIOUS
  <2>3. AuthChecked(st, old) = st
    <3>1. old \in Seq(full) /\ old = <<>>
      BY <2>1, <2>2
    <3> QED BY <3>1, AuthCheckedStep
  <2>4. st = Partial
    BY <2>1, <2>2, <2>3 DEF ChecksOK
  <2>5. events = MainlineSort(full \ Reached(full), Partial)
    BY <2>1, <2>2, <2>4 DEF ChecksOK
  <2>6. AuthChecked(st, events) = Checked
    BY <2>4, <2>5 DEF Checked
  <2>7. AuthChecked(resolved, todo)' = AuthChecked(st, events)
    BY <2>1, <2>2, ChecksSame
  <2>8. Checked' = Checked
    BY <2>1, DefinitionsSame
  <2> QED BY <2>1, <2>6, <2>7, <2>8 DEF ChecksOK
<1>9. CASE Finish
  <2>1. phase' = "done"
    BY <1>9 DEF Finish
  <2> QED BY <1>1, <2>1
<1>10. CASE UNCHANGED vars
  <2>1. UNCHANGED <<room, full>> /\ UNCHANGED <<phase, remaining, resolved, todo>>
    BY <1>10 DEF vars
  <2>2. PICK st, events : st = resolved' /\ events = todo'
    OBVIOUS
  <2>3. AuthChecked(resolved, todo)' = AuthChecked(st, events)
    BY <2>1, <2>2, ChecksSame
  <2>4. AuthChecked(resolved, todo)' = AuthChecked(resolved, todo)
    BY <2>1, <2>2, <2>3
  <2>5. Reached(full)' = Reached(full) /\ Partial' = Partial /\ Checked' = Checked
    BY <2>1, DefinitionsSame
  <2> QED BY <2>1, <2>4, <2>5 DEF ChecksOK
<1> QED BY <1>2, <1>3, <1>4, <1>5, <1>6, <1>7, <1>8, <1>9, <1>10 DEF Next, Done

\* Without the conflicted subgraph no walk begins.
LEMMA NoSearchStep ==
    Inv /\ Typed /\ NoSearch /\ [Next]_vars => NoSearch'
<1> SUFFICES ASSUME Inv, Typed, NoSearch, [Next]_vars PROVE NoSearch'
  OBVIOUS
<1>0. DagOK /\ EventsOK /\ SearchTyped
  BY DEF Inv, Typed
<1>1. ASSUME UNCHANGED <<rules, search>>, phase' \notin {"sort", "power", "rest"}
      PROVE  NoSearch'
  BY <1>1 DEF NoSearch, search
<1>2. CASE Extend \/ (\E n \in DOMAIN Menu : Diverge(Menu[n])) \/ Other
  <2>1. UNCHANGED <<rules, search>> /\ phase' \notin {"sort", "power", "rest"}
    BY <1>2 DEF Extend, Diverge, Other
  <2> QED BY <1>1, <2>1
<1>3. CASE Split
  <2>1. UNCHANGED <<rules, marked>> /\ phase' \notin {"sort", "power", "rest"}
    BY <1>3 DEF Split, room
  <2>2. ~rules.subgraph => DOMAIN walks' = {}
    <3>1. CASE Conflicted = {}
      BY <1>3, <3>1 DEF Split, NoSearch
    <3>2. CASE Conflicted # {}
      BY <1>3, <3>2 DEF Split
    <3> QED BY <3>1, <3>2
  <2> QED BY <2>1, <2>2 DEF NoSearch
<1>4. ASSUME NEW c \in Running, Walk(c) \/ WalkEnds(c) PROVE NoSearch'
  <2>1. UNCHANGED rules /\ c \in DOMAIN walks
    BY <1>4 DEF Walk, WalkEnds, Running, room
  <2> QED BY <2>1 DEF NoSearch
<1>5. CASE Collect
  <2>1. /\ full' = (DOMAIN dag \cap (AuthDifference \cup Conflicted)) \cup marked.subgraph
        /\ marked' = NoMarks /\ UNCHANGED room /\ UNCHANGED walks
    BY <1>5 DEF Collect
  <2>2. AuthDifference \subseteq DOMAIN dag /\ Conflicted \subseteq DOMAIN dag
    BY <1>0, AuthDifferenceKnown, ConflictedKnown
  <2>3. ~rules.subgraph => full' = FullSet
    BY <2>1, <2>2 DEF NoSearch, FullSet
  <2>4. FullSet' = FullSet /\ UNCHANGED rules
    BY <2>1 DEF room, FullSet, AuthDifference, AuthSet, Between, Conflicted, Agreed
  <2> QED BY <2>1, <2>3, <2>4 DEF NoSearch, NoMarks
<1>6. CASE PopSmallest \/ Sorted \/ AuthCheck \/ SortRemaining
  <2>1. /\ UNCHANGED <<room, full>> /\ UNCHANGED search
        /\ phase \in {"sort", "power", "rest"}
    BY <1>6 DEF PopSmallest, Sorted, AuthCheck, SortRemaining
  <2>2. FullSet' = FullSet /\ UNCHANGED <<rules, full, walks, marked>>
    BY <2>1, DefinitionsSame DEF room, search
  <2> QED BY <2>1, <2>2 DEF NoSearch
<1>7. CASE Finish
  BY <1>1, <1>7 DEF Finish, room
<1>8. CASE UNCHANGED vars
  <2>1. UNCHANGED <<room, full>> /\ UNCHANGED search /\ UNCHANGED phase
    BY <1>8 DEF vars
  <2>2. FullSet' = FullSet /\ UNCHANGED <<rules, full, walks, marked>>
    BY <2>1, DefinitionsSame DEF room, search
  <2> QED BY <2>1, <2>2 DEF NoSearch
<1> QED BY <1>2, <1>3, <1>4, <1>5, <1>6, <1>7, <1>8 DEF Next, Done

\* The last step gives the state of the definition.
LEMMA DefinedStep ==
    Inv /\ Typed /\ Resolving /\ ResolvesAsDefined /\ [Next]_vars => ResolvesAsDefined'
<1> SUFFICES ASSUME Inv, Typed, Resolving, ResolvesAsDefined, [Next]_vars
             PROVE  ResolvesAsDefined'
  OBVIOUS
<1>0. SearchTyped /\ ChecksOK /\ NoSearch
  BY DEF Typed, Resolving
<1>1. ASSUME phase' # "done" PROVE ResolvesAsDefined'
  BY <1>1 DEF ResolvesAsDefined
<1>2. CASE Extend \/ (\E n \in DOMAIN Menu : Diverge(Menu[n])) \/ Other
  <2>1. phase' # "done"
    BY <1>2 DEF Extend, Diverge, Other
  <2> QED BY <1>1, <2>1
<1>3. CASE Split
  <2>1. CASE Conflicted = {}
    <3>1. UNCHANGED states
      BY <1>3 DEF Split, room
    <3>2. Conflicted' = Conflicted
      BY <3>1 DEF Conflicted, Agreed
    <3> QED BY <2>1, <3>2 DEF ResolvesAsDefined
  <2>2. CASE Conflicted # {}
    BY <1>1, <1>3, <2>2 DEF Split
  <2> QED BY <2>1, <2>2
<1>4. ASSUME NEW c \in Running, Walk(c) \/ WalkEnds(c) PROVE ResolvesAsDefined'
  <2>1. UNCHANGED phase /\ phase = "walk"
    BY <1>0, <1>4 DEF Walk, WalkEnds, Running, SearchTyped
  <2> QED BY <1>1, <2>1
<1>5. CASE Collect \/ PopSmallest \/ Sorted \/ AuthCheck \/ SortRemaining
  <2>1. phase' # "done"
    <3>1. CASE AuthCheck
      BY <3>1 DEF AuthCheck
    <3>2. CASE Collect \/ PopSmallest \/ Sorted \/ SortRemaining
      BY <3>2 DEF Collect, PopSmallest, Sorted, SortRemaining
    <3> QED BY <1>5, <3>1, <3>2
  <2> QED BY <1>1, <2>1
<1>6. CASE Finish
  <2>1. /\ phase = "rest" /\ todo = <<>> /\ resolved' = Over(Unconflicted, resolved)
        /\ UNCHANGED <<room, full>>
    BY <1>6 DEF Finish
  <2>2. PICK st, events : st = resolved /\ events = todo
    OBVIOUS
  <2>3. AuthChecked(st, events) = st
    <3>1. events \in Seq(full) /\ events = <<>>
      BY <2>1, <2>2
    <3> QED BY <3>1, AuthCheckedStep
  <2>4. resolved = Checked
    BY <1>0, <2>1, <2>2, <2>3 DEF ChecksOK
  <2>5. resolved' = Resolution(full)
    BY <2>1, <2>4, ResolutionChecked
  <2>6. Resolution(full)' = Resolution(full) /\ FullSet' = FullSet /\ UNCHANGED <<rules, full>>
    <3>1. Unconflicted' = Unconflicted /\ Checked' = Checked
      BY <2>1, DefinitionsSame
    <3>2. Resolution(full)' = Over(Unconflicted', Checked')
      BY DEF Resolution, Checked, Partial, Over
    <3>3. Resolution(full)' = Resolution(full)
      BY <3>1, <3>2, ResolutionChecked
    <3> QED BY <2>1, <3>3, DefinitionsSame DEF room
  <2>7. ~rules.subgraph => full = FullSet
    BY <1>0, <2>1 DEF NoSearch
  <2> QED BY <2>5, <2>6, <2>7 DEF ResolvesAsDefined
<1>7. CASE UNCHANGED vars
  <2>1. UNCHANGED <<room, full>> /\ UNCHANGED <<phase, resolved>>
    BY <1>7 DEF vars
  <2>2. /\ Unconflicted' = Unconflicted /\ Checked' = Checked
        /\ FullSet' = FullSet /\ Conflicted' = Conflicted /\ UNCHANGED <<rules, full>>
    BY <2>1, DefinitionsSame DEF room
  <2>3. Resolution(full)' = Over(Unconflicted', Checked')
    BY DEF Resolution, Checked, Partial, Over
  <2>4. Resolution(full)' = Resolution(full)
    BY <2>2, <2>3, ResolutionChecked
  <2> QED BY <2>1, <2>2, <2>4 DEF ResolvesAsDefined
<1> QED BY <1>2, <1>3, <1>4, <1>5, <1>6, <1>7 DEF Next, Done

LEMMA ResolvingAlways == Spec => [](Resolving /\ ResolvesAsDefined)
<1>1. Init => Resolving /\ ResolvesAsDefined
  <2> SUFFICES ASSUME Init PROVE Resolving /\ ResolvesAsDefined
    OBVIOUS
  <2>1. phase = "trunk" /\ DOMAIN walks = {} /\ marked.subgraph = {}
    BY DEF Init, NoMarks
  <2> QED BY <2>1 DEF Resolving, OrderOK, ChecksOK, NoSearch, ResolvesAsDefined
<1>2. /\ Inv /\ Typed /\ Revoking /\ Resolving /\ ResolvesAsDefined /\ [Next]_vars
      => (Resolving /\ ResolvesAsDefined)'
  <2> SUFFICES ASSUME Inv, Typed, Revoking, Resolving, ResolvesAsDefined, [Next]_vars
               PROVE  Resolving' /\ ResolvesAsDefined'
    OBVIOUS
  <2>1. RoomOK /\ OrderOK /\ ChecksOK /\ NoSearch
    BY DEF Revoking, Resolving
  <2>2. OrderOK'
    BY <2>1, OrderStep
  <2>3. ChecksOK' /\ NoSearch'
    BY <2>1, ChecksStep, NoSearchStep
  <2>4. ResolvesAsDefined'
    BY DefinedStep
  <2> QED BY <2>2, <2>3, <2>4 DEF Resolving
<1> QED BY <1>1, <1>2, InvAlways, TypedAlways, RevokingAlways, PTL DEF Spec

\* For all forks, orders of the fetches and numbers of walks, the resolved state is
\* what the definition makes of the full conflicted set: kahn_sort gives the power
\* order, since no two events are smallest, and iterative_auth_check takes the
\* events one by one from it.
THEOREM ResolvedByDefinition == Spec => []ResolvesAsDefined
BY ResolvingAlways, PTL

\* In versions without the conflicted subgraph all servers agree.
THEOREM AgreeWithoutSubgraph == Spec => [](~rules.subgraph => ServersAgree)
<1>1. ResolvesAsDefined => (~rules.subgraph => ServersAgree)
  BY DEF ResolvesAsDefined, ServersAgree
<1> QED BY <1>1, ResolvedByDefinition, PTL

-----------------------------------------------------------------------------
(* The power events and their auth chains *)

\* What power_sort says it sorts: the power events of the set, and the events of
\* their auth chains that belong to the set.
PowerSet(set) ==
    LET powers == {i \in set : IsPowerEvent(dag[i])}
    IN  powers \cup (set \cap UNION {dag[p].chain : p \in powers})

\* What is between two events of the set belongs to it as well.
Convex(set) ==
    \A p \in set : \A q \in dag[p].chain : dag[q].chain \cap set # {} => q \in set

\* The auth chain of an event has the auth chains of its members.
LEMMA ChainTransitive ==
    ASSUME DagOK, EventsOK, NEW i \in DOMAIN dag, NEW x \in dag[i].chain
    PROVE  x \in DOMAIN dag /\ x < i /\ dag[x].chain \subseteq dag[i].chain
<1>1. DOMAIN dag = 1..Len(dag) /\ Len(dag) \in Nat
  BY DEF DagOK
<1>2. \A j \in DOMAIN dag : ChainOK(j)
  BY DEF EventsOK
<1>3. \A j \in DOMAIN dag : dag[j].auth \subseteq DOMAIN dag
  BY <1>1 DEF DagOK
<1>4. PICK S : S = {y \in DOMAIN dag : dag[y].chain \subseteq dag[i].chain}
  OBVIOUS
<1>5. \A j \in DOMAIN dag : \A a \in dag[j].auth : dag[a].chain \subseteq dag[j].chain
  BY <1>2 DEF ChainOK
<1>6. dag[i].auth \subseteq S
  BY <1>3, <1>4, <1>5
<1>7. ASSUME NEW a \in S PROVE dag[a].auth \subseteq S
  BY <1>3, <1>4, <1>5
<1>8. dag[i].chain \subseteq S
  <2>1. S \in SUBSET DOMAIN dag
    BY <1>4
  <2> QED BY <1>2, <1>6, <1>7, <2>1 DEF ChainOK
<1>9. dag[i].chain \subseteq 1..(i - 1)
  BY <1>2 DEF ChainOK
<1> QED BY <1>1, <1>4, <1>8, <1>9

\* Walking within a convex set reaches all that the chains have of it: the
\* smallest event from which a missed one is still ahead has an auth event nearer.
LEMMA ReachedConvex ==
    ASSUME DagOK, EventsOK, NEW set \in SUBSET DOMAIN dag, Convex(set)
    PROVE  Reached(set) = PowerSet(set)
<1>1. PICK powers, P : /\ powers = {i \in set : IsPowerEvent(dag[i])}
                       /\ P = PowerSet(set)
  OBVIOUS
<1>2. P = powers \cup (set \cap UNION {dag[p].chain : p \in powers})
  BY <1>1 DEF PowerSet
<1>3. PICK closed :
         closed = {c \in SUBSET set :
                      powers \subseteq c /\ \A i \in c : dag[i].auth \cap set \subseteq c}
  OBVIOUS
<1>4. Reached(set) = {i \in set : \A c \in closed : i \in c}
  <2>1. {i \in set \cap DOMAIN dag : IsPowerEvent(dag[i])} = powers
    BY <1>1
  <2> QED BY <1>3, <2>1 DEF Reached
<1>5. ASSUME NEW i \in DOMAIN dag
      PROVE  dag[i].chain = dag[i].auth \cup UNION {dag[a].chain : a \in dag[i].auth}
  BY DEF EventsOK, ChainOK
<1>6. P \in closed
  <2>1. ASSUME NEW i \in P, NEW a \in dag[i].auth \cap set PROVE a \in P
    <3>1. i \in DOMAIN dag /\ a \in dag[i].chain
      BY <1>1, <1>2, <1>5, <2>1
    <3>2. CASE i \in powers
      BY <1>2, <2>1, <3>1, <3>2
    <3>3. ASSUME NEW p \in powers, i \in dag[p].chain PROVE a \in P
      <4>1. p \in DOMAIN dag
        BY <1>1
      <4>2. dag[i].chain \subseteq dag[p].chain
        BY <3>3, <4>1, ChainTransitive
      <4> QED BY <1>2, <2>1, <3>1, <4>2
    <3> QED BY <1>2, <2>1, <3>2, <3>3
  <2>2. powers \subseteq P /\ P \subseteq set
    BY <1>1, <1>2
  <2> QED BY <1>3, <2>1, <2>2
<1>7. ASSUME NEW x \in P, NEW c \in closed, x \notin c PROVE FALSE
  <2>1. x \in set /\ c \subseteq set /\ powers \subseteq c
    BY <1>1, <1>2, <1>3, <1>7
  <2>2. PICK T : T = {q \in c : x \in dag[q].chain}
    OBVIOUS
  <2>3. T # {}
    BY <1>2, <1>7, <2>1, <2>2
  <2>4. DOMAIN dag = 1..Len(dag) /\ Len(dag) \in Nat
    BY DEF DagOK
  <2>5. T \in SUBSET (0..Len(dag))
    BY <2>1, <2>2, <2>4
  <2>6. PICK q \in T : \A j \in T : q <= j
    BY <2>3, <2>4, <2>5, SmallestExists
  <2>7. q \in c /\ q \in set /\ q \in DOMAIN dag /\ x \in dag[q].chain
    BY <2>1, <2>2
  <2>8. x \notin dag[q].auth
    BY <1>3, <1>7, <2>1, <2>7
  <2>9. PICK a \in dag[q].auth : x \in dag[a].chain
    BY <1>5, <2>7, <2>8
  <2>10. a \in dag[q].chain /\ a \in DOMAIN dag /\ a < q
    <3>1. a \in dag[q].chain
      BY <1>5, <2>7, <2>9
    <3> QED BY <2>7, <3>1, ChainTransitive
  <2>11. a \in set
    BY <2>1, <2>7, <2>9, <2>10 DEF Convex
  <2>12. a \in T
    BY <1>3, <2>2, <2>7, <2>9, <2>11
  <2> QED BY <2>4, <2>6, <2>7, <2>10, <2>12
<1>8. P \subseteq set
  BY <1>1, <1>2
<1> QED BY <1>1, <1>4, <1>6, <1>7, <1>8

\* The conflicted events and what authorises them
Concerned == Conflicted \cup UNION {dag[c].chain : c \in Conflicted}

\* What only one fork has in its auth chains is in that of a conflicted event.
LEMMA DifferenceConcerned == AuthDifference \subseteq Concerned
<1>1. ASSUME NEW f \in Fork, NEW g \in Fork, NEW x \in AuthSet(f), x \notin AuthSet(g)
      PROVE  x \in Concerned
  <2>1. PICK s \in DOMAIN states[f] : x \in dag[states[f][s]].chain
    BY <1>1 DEF AuthSet
  <2>2. CASE s \in Agreed
    <3>1. s \in DOMAIN states[g] /\ states[g][s] = states[f][s]
      BY <2>2 DEF Agreed, Fork
    <3> QED BY <1>1, <2>1, <3>1 DEF AuthSet
  <2>3. CASE s \notin Agreed
    BY <2>1, <2>3 DEF Conflicted, Concerned
  <2> QED BY <2>2, <2>3
<1> QED BY <1>1 DEF AuthDifference, Fork

\* With the conflicted subgraph the full conflicted set is convex: an event that
\* is between two others is in the auth chains of both forks or of one, and what
\* only one has is behind a conflicted event.
LEMMA FullSetConvex ==
    ASSUME DagOK, EventsOK, rules.subgraph
    PROVE  FullSet \in SUBSET DOMAIN dag /\ Convex(FullSet)
<1>1. FullSet = AuthDifference \cup Conflicted \cup Between
  BY DEF FullSet
<1>2. Conflicted \subseteq DOMAIN dag /\ AuthDifference \subseteq DOMAIN dag
  BY ConflictedKnown, AuthDifferenceKnown
<1>3. Between \subseteq DOMAIN dag
  BY <1>2, ChainTransitive DEF Between
<1>4. \A f \in Fork : \A s \in DOMAIN states[f] : states[f][s] \in DOMAIN dag
  BY DEF DagOK
<1>5. ASSUME NEW f \in Fork, NEW x \in AuthSet(f)
      PROVE  x \in DOMAIN dag /\ dag[x].chain \subseteq AuthSet(f)
  <2>1. PICK s \in DOMAIN states[f] : x \in dag[states[f][s]].chain
    BY <1>5 DEF AuthSet
  <2>2. PICK i \in DOMAIN dag : i = states[f][s]
    BY <1>4
  <2>3. x \in DOMAIN dag /\ dag[x].chain \subseteq dag[i].chain
    BY <2>1, <2>2, ChainTransitive
  <2> QED BY <2>2, <2>3 DEF AuthSet
<1>6. ASSUME NEW c \in Conflicted
      PROVE  \E f \in Fork : dag[c].chain \subseteq AuthSet(f)
  <2>1. PICK f \in Fork : \E s \in DOMAIN states[f] : c = states[f][s]
    BY <1>6 DEF Conflicted
  <2> QED BY <2>1 DEF AuthSet
<1>7. PICK Behind : Behind = UNION {dag[c].chain : c \in Conflicted}
  OBVIOUS
<1>8. ASSUME NEW x \in Behind
      PROVE  dag[x].chain \subseteq Behind /\ \E f \in Fork : x \in AuthSet(f)
  <2>1. PICK c \in Conflicted : x \in dag[c].chain
    BY <1>7, <1>8
  <2>2. dag[x].chain \subseteq dag[c].chain
    BY <1>2, <2>1, ChainTransitive
  <2> QED BY <1>6, <1>7, <2>1, <2>2
<1>9. AuthDifference \subseteq Conflicted \cup Behind
  BY <1>7, DifferenceConcerned DEF Concerned
<1>10. ASSUME NEW p \in FullSet, NEW q \in dag[p].chain, NEW r \in dag[q].chain, r \in FullSet
       PROVE  q \in FullSet
  <2>1. SUFFICES ASSUME q \notin AuthDifference PROVE q \in Between
    BY <1>1
  <2>2. q \in Behind
    <3>1. CASE p \in Conflicted
      BY <1>7, <1>10, <3>1
    <3>2. CASE p \in Behind
      BY <1>8, <1>10, <3>2
    <3> QED BY <1>1, <1>7, <1>9, <1>10, <3>1, <3>2 DEF Between
  <2>3. q \in AuthSet(1) /\ q \in AuthSet(2)
    BY <1>8, <2>1, <2>2 DEF AuthDifference, Fork
  <2>4. q \in DOMAIN dag /\ r \in AuthSet(1) /\ r \in AuthSet(2)
    BY <1>5, <1>10, <2>3 DEF Fork
  <2>5. r \notin AuthDifference
    BY <2>4 DEF AuthDifference
  <2>6. dag[q].chain \cap Conflicted # {}
    <3>1. CASE r \in Conflicted
      BY <1>10, <3>1
    <3>2. CASE r \in Between
      <4>1. dag[r].chain \cap Conflicted # {}
        BY <3>2 DEF Between
      <4>2. dag[r].chain \subseteq dag[q].chain
        BY <1>10, <2>4, ChainTransitive
      <4> QED BY <4>1, <4>2
    <3> QED BY <1>1, <1>10, <2>5, <3>1, <3>2
  <2> QED BY <1>7, <2>2, <2>6 DEF Between
<1>11. Convex(FullSet)
  BY <1>10 DEF Convex
<1> QED BY <1>1, <1>2, <1>3, <1>11

\* In versions with the conflicted subgraph, add_event_auth_chain, which leaves
\* the auth chains where they leave the full conflicted set, still finds every
\* event of the set that is in the auth chain of one of its power events, as the
\* comments of power_sort say.  Without the subgraph it need not: a chain may
\* leave the set and come back.
THEOREM PowerSetFound == Spec => [](rules.subgraph => Reached(FullSet) = PowerSet(FullSet))
<1>1. Inv /\ Typed => (rules.subgraph => Reached(FullSet) = PowerSet(FullSet))
  <2> SUFFICES ASSUME Inv, Typed, rules.subgraph PROVE Reached(FullSet) = PowerSet(FullSet)
    OBVIOUS
  <2>1. DagOK /\ EventsOK
    BY DEF Inv, Typed
  <2>2. PICK set : set = FullSet
    OBVIOUS
  <2>3. set \in SUBSET DOMAIN dag /\ Convex(set)
    BY <2>1, <2>2, FullSetConvex
  <2>4. Reached(set) = PowerSet(set)
    BY <2>1, <2>3, ReachedConvex
  <2> QED BY <2>2, <2>4
<1> QED BY <1>1, InvAlways, TypedAlways, PTL

-----------------------------------------------------------------------------
(* Both sorts are complete and proceed *)

\* Before is a strict total order of the events.
LEMMA BeforeTotal ==
    ASSUME DagOK, EventsOK, RoomOK
    PROVE  /\ \A i, j \in DOMAIN dag : i # j => Before(i, j) \/ Before(j, i)
           /\ \A i, j, k \in DOMAIN dag : Before(i, j) /\ Before(j, k) => Before(i, k)
<1>1. PICK power, ts : /\ power = [i \in DOMAIN dag |-> SenderPower(i)]
                       /\ ts = [i \in DOMAIN dag |-> dag[i].ts]
  OBVIOUS
<1>2. \A i \in DOMAIN dag : power[i] \in Int /\ ts[i] \in Int /\ i \in Int
  <2>1. \A i \in DOMAIN dag : SenderPower(i) \in Int
    BY SenderPowerType
  <2>2. \A i \in DOMAIN dag : dag[i].ts \in Int /\ i \in Int
    BY DEF EventsOK, DagOK
  <2> QED BY <1>1, <2>1, <2>2
<1>3. \A i, j \in DOMAIN dag : Before(i, j) <=>
         \/ power[i] > power[j]
         \/ power[i] = power[j] /\ (ts[i] < ts[j] \/ (ts[i] = ts[j] /\ i < j))
  BY <1>1 DEF Before
<1>4. ASSUME NEW i \in DOMAIN dag, NEW j \in DOMAIN dag, i # j
      PROVE  Before(i, j) \/ Before(j, i)
  BY <1>2, <1>3, <1>4
<1>5. ASSUME NEW i \in DOMAIN dag, NEW j \in DOMAIN dag, NEW k \in DOMAIN dag,
             Before(i, j), Before(j, k)
      PROVE  Before(i, k)
  BY <1>2, <1>3, <1>5
<1> QED BY <1>4, <1>5

\* A heap that is not empty has a smallest event: among the sets of events that are
\* before its members, a minimal one is empty.
LEMMA SmallestInHeap ==
    ASSUME DagOK, EventsOK, RoomOK, NEW heap \in SUBSET DOMAIN dag, heap # {}
    PROVE  \E i \in heap : IsSmallest(i, heap)
<1> DEFINE Earlier(i) == {j \in heap : Before(j, i)}
           Earliers == {Earlier(i) : i \in heap}
<1>1. IsFiniteSet(heap)
  <2>1. DOMAIN dag = 1..Len(dag) /\ Len(dag) \in Nat
    BY DEF DagOK
  <2>2. IsFiniteSet(DOMAIN dag)
    BY <2>1, FS_Interval
  <2> QED BY <2>2, FS_Subset
<1>2. Earliers \subseteq FiniteSubsetsOf(heap) /\ Earliers # {}
  <2>1. FiniteSubsetsOf(heap) = SUBSET heap
    BY <1>1, FS_FiniteSubsetsOfFinite
  <2>2. Earliers \subseteq SUBSET heap /\ Earliers # {}
    OBVIOUS
  <2> QED BY <2>1, <2>2
<1>3. PICK U \in Earliers :
         \A V \in Earliers : ~ (<<V, U>> \in StrictSubsetOrdering(heap))
  BY <1>1, <1>2, FS_StrictSubsetOrderingWellFounded, WFMin
<1>4. PICK i \in heap : U = Earlier(i)
  OBVIOUS
<1>5. ASSUME NEW j \in Earlier(i) PROVE FALSE
  <2>1. j \in heap /\ Before(j, i) /\ Earlier(j) \in Earliers
    OBVIOUS
  <2>2. j \notin Earlier(j)
    BY BeforeAsymmetric
  <2>3. Earlier(j) \subseteq Earlier(i)
    BY <2>1, BeforeTotal
  <2>4. <<Earlier(j), U>> \in StrictSubsetOrdering(heap)
    BY <1>4, <2>2, <2>3 DEF StrictSubsetOrdering
  <2> QED BY <1>3, <2>1, <2>4
<1>6. ASSUME NEW j \in heap \ {i} PROVE Before(i, j)
  <2>1. ~Before(j, i)
    BY <1>5
  <2> QED BY <2>1, BeforeTotal
<1> QED BY <1>6 DEF IsSmallest

\* As long as the graph has events, one of them can be taken from the heap, and it
\* is the only one: kahn_sort neither stops halfway nor has a choice.
SortMoves ==
    LET heap == {i \in DOMAIN graph : graph[i] = {}}
    IN  phase = "sort" /\ DOMAIN graph # {} =>
            \E i \in heap : \A j \in heap : IsSmallest(j, heap) <=> j = i

\* The sort of the power events proceeds in one way until all are sorted, for every
\* graph of auth events and all levels and timestamps (kahn_sort, TieBreaker).
THEOREM SortProceeds == Spec => []SortMoves
<1>1. Inv /\ Typed /\ Revoking => SortMoves
  <2> SUFFICES ASSUME Inv, Typed, Revoking, phase = "sort", DOMAIN graph # {}
               PROVE  LET heap == {i \in DOMAIN graph : graph[i] = {}}
                      IN  \E i \in heap : \A j \in heap : IsSmallest(j, heap) <=> j = i
    BY DEF SortMoves
  <2>1. DagOK /\ SortOK /\ EventsOK /\ RoomOK
    BY DEF Inv, Typed, Revoking
  <2>2. PICK heap : heap = {i \in DOMAIN graph : graph[i] = {}}
    OBVIOUS
  <2>3. heap \in SUBSET DOMAIN dag
    BY <2>1, <2>2 DEF SortOK
  <2>4. heap # {}
    BY <2>1, <2>2, HeapEmpty
  <2>5. PICK i \in heap : IsSmallest(i, heap)
    BY <2>1, <2>3, <2>4, SmallestInHeap
  <2>6. ASSUME NEW j \in heap, IsSmallest(j, heap) PROVE j = i
    BY <2>1, <2>3, <2>5, <2>6, SmallestUnique
  <2> QED BY <2>2, <2>5, <2>6
<1> QED BY <1>1, InvAlways, TypedAlways, RevokingAlways, PTL

\* When the first round of checks begins, every event that the power events reach
\* in the full conflicted set is to be checked, once; when the second begins, every
\* other event of the set is.
RoundsComplete ==
    /\ phase = "sort" /\ phase' = "power" => Permutes(todo', Reached(full))
    /\ phase = "power" /\ phase' = "rest" => Permutes(todo', full \ Reached(full))

\* No event of the full conflicted set escapes the checks or is checked twice, for
\* all forks (resolve, power_sort, mainline_sort).
THEOREM EveryEventChecked == Spec => [][RoundsComplete]_vars
<1>1. Inv /\ Typed /\ Resolving /\ [Next]_vars => [RoundsComplete]_vars
  <2> SUFFICES ASSUME Inv, Typed, Resolving, Next PROVE RoundsComplete
    OBVIOUS
  <2>1. DagOK /\ SortOK /\ EventsOK /\ SearchTyped /\ ResolveTyped /\ OrderOK /\ ChecksOK
    BY DEF Inv, Typed, Resolving
  <2>2. ASSUME Sorted PROVE RoundsComplete
    <3>1. /\ phase = "sort" /\ phase' = "power" /\ UNCHANGED todo
          /\ \A i \in DOMAIN graph : graph[i] # {}
      BY <2>2 DEF Sorted
    <3>2. DOMAIN graph = {}
      BY <2>1, <3>1, HeapEmpty
    <3>3. /\ DOMAIN graph = Reached(full) \ ToSet(todo) /\ ToSet(todo) \subseteq Reached(full)
          /\ Len(todo) + Cardinality(DOMAIN graph) = Cardinality(Reached(full))
      BY <2>1, <3>1 DEF OrderOK
    <3>4. Cardinality(DOMAIN graph) = 0 /\ Len(todo) \in Nat
      BY <2>1, <3>1, <3>2, FS_EmptySet DEF SortOK
    <3>5. PICK n, m : n = Len(todo) /\ m = Cardinality(Reached(full))
      OBVIOUS
    <3>6. n + 0 = m /\ n \in Nat
      BY <3>3, <3>4, <3>5
    <3>7. Len(todo) = Cardinality(Reached(full))
      BY <3>5, <3>6
    <3>8. ToSet(todo) = Reached(full)
      BY <3>2, <3>3
    <3> QED BY <3>1, <3>7, <3>8 DEF RoundsComplete, Permutes
  <2>3. ASSUME SortRemaining PROVE RoundsComplete
    <3>1. phase = "power" /\ phase' = "rest" /\ todo' = MainlineSort(remaining, resolved)
      BY <2>3 DEF SortRemaining
    <3>2. remaining = full \ Reached(full)
      BY <2>1, <3>1 DEF ChecksOK
    <3>3. PICK set, st : set \in SUBSET DOMAIN dag /\ set = remaining /\ st = resolved
      BY <2>1 DEF ResolveTyped
    <3>4. Permutes(MainlineSort(set, st), set)
      BY <2>1, <3>3, MainlineSorted DEF ResolveTyped
    <3> QED BY <3>1, <3>2, <3>3, <3>4 DEF RoundsComplete
  <2>4. ASSUME phase' = phase \/ phase \notin {"sort", "power"} PROVE RoundsComplete
    BY <2>4 DEF RoundsComplete
  <2>5. ASSUME NEW c \in Running, Walk(c) \/ WalkEnds(c) PROVE phase' = phase
    BY <2>5 DEF Walk, WalkEnds
  <2>6. CASE Extend \/ (\E n \in DOMAIN Menu : Diverge(Menu[n])) \/ Other \/ Split
    <3>1. phase' = phase \/ phase \notin {"sort", "power"}
      BY <2>6 DEF Extend, Diverge, Other, Split
    <3> QED BY <2>4, <3>1
  <2>7. CASE Collect \/ PopSmallest \/ AuthCheck \/ Finish \/ Done
    <3>1. phase' = phase \/ phase \notin {"sort", "power"}
      BY <2>7 DEF Collect, PopSmallest, AuthCheck, Finish, Done
    <3> QED BY <2>4, <3>1
  <2> QED BY <2>2, <2>3, <2>4, <2>5, <2>6, <2>7 DEF Next
<1> QED BY <1>1, InvAlways, TypedAlways, ResolvingAlways, PTL DEF Spec

-----------------------------------------------------------------------------
(* The walks stay with the conflicted events and their auth chains *)

\* The path of a walk and what it has left to look at
WalkStays(w) ==
    /\ \A i \in 1..Len(w.path) : w.path[i] \in Concerned
    /\ \A i \in 1..Len(w.stack) : w.stack[i] \subseteq Concerned

\* Of the walks and their marks nothing is elsewhere, and none is left when they
\* have ended.
SearchStays ==
    /\ \A c \in DOMAIN walks : WalkStays(walks[c])
    /\ marked.subgraph \subseteq Concerned
    /\ phase # "walk" => marked.subgraph = {}

\* Whatever the search adds to the full conflicted set is a conflicted event or in
\* the auth chain of one.
NothingForeign ==
    phase \in {"sort", "power", "rest"} => full \subseteq Concerned

\* The auth events of these events are among them.
LEMMA ConcernedClosed ==
    ASSUME DagOK, EventsOK, NEW i \in Concerned
    PROVE  i \in DOMAIN dag /\ dag[i].auth \subseteq Concerned
<1>1. Conflicted \subseteq DOMAIN dag
  BY ConflictedKnown
<1>2. ASSUME NEW j \in DOMAIN dag PROVE dag[j].auth \subseteq dag[j].chain
  BY DEF EventsOK, ChainOK
<1>3. CASE i \in Conflicted
  BY <1>1, <1>2, <1>3 DEF Concerned
<1>4. ASSUME NEW c \in Conflicted, i \in dag[c].chain
      PROVE  i \in DOMAIN dag /\ dag[i].auth \subseteq Concerned
  <2>1. i \in DOMAIN dag /\ dag[i].chain \subseteq dag[c].chain
    BY <1>1, <1>4, ChainTransitive
  <2>2. dag[i].auth \subseteq dag[c].chain
    BY <1>2, <2>1
  <2> QED BY <2>1, <2>2 DEF Concerned
<1> QED BY <1>3, <1>4 DEF Concerned

\* A step of a walk does not leave them.
LEMMA TakesStays ==
    ASSUME DagOK, EventsOK, SearchTyped, SearchStays, phase = "walk",
           UNCHANGED <<room, phase>>, NEW c \in DOMAIN walks,
           NEW n, NEW a, NEW path, NEW stack,
           Takes(walks[c], n, a, path, stack), Evals(c, a, path, stack)
    PROVE  SearchStays'
<1>1. WalkOK(walks[c]) /\ WalkStays(walks[c])
  BY DEF SearchTyped, SearchStays
<1>2. PICK w, m : w = walks[c] /\ m = Len(w.stack) - n
  OBVIOUS
<1>3. /\ n \in 0..Len(w.stack) /\ m \in 1..Len(w.stack) /\ a \in w.stack[m]
      /\ path \in Seq(DOMAIN dag) /\ Len(path) = Len(w.path) - n + 1
      /\ \A i \in 1..(Len(w.path) - n) : path[i] = w.path[i]
      /\ path[Len(path)] = a
      /\ stack \in Seq(SUBSET Authorisers) /\ Len(stack) = m
      /\ \A i \in 1..(m - 1) : stack[i] = w.stack[i]
      /\ stack[m] = w.stack[m] \ {a}
  BY <1>2 DEF Takes
<1>4. Len(w.path) \in Nat /\ Len(w.stack) \in Nat /\ Len(w.stack) <= Len(w.path) /\ n \in Nat
  BY <1>1, <1>2, <1>3 DEF WalkOK
<1>5. a \in Concerned
  BY <1>1, <1>2, <1>3 DEF WalkStays
<1>6. dag[a].auth \subseteq Concerned
  BY <1>5, ConcernedClosed
<1>7. ASSUME NEW i \in 1..Len(path) PROVE path[i] \in Concerned
  <2>1. i = Len(path) \/ i \in 1..(Len(w.path) - n)
    BY <1>3, <1>4
  <2>2. i \in 1..(Len(w.path) - n) => i \in 1..Len(w.path)
    BY <1>4
  <2> QED BY <1>1, <1>2, <1>3, <1>5, <2>1, <2>2 DEF WalkStays
<1>8. ASSUME NEW i \in 1..Len(stack) PROVE stack[i] \subseteq Concerned
  <2>1. i \in 1..Len(w.stack) /\ (i = m \/ i \in 1..(m - 1))
    BY <1>3, <1>4
  <2>2. w.stack[i] \subseteq Concerned
    BY <1>1, <1>2, <2>1 DEF WalkStays
  <2> QED BY <1>3, <2>1, <2>2
<1>9. ToSet(path) \subseteq Concerned
  BY <1>3, <1>7 DEF ToSet
<1>10. \E v : WalkStays(v) /\ walks' = [walks EXCEPT ![c] = v]
  <2>1. CASE a \in marked.subgraph
    <3>1. PICK v, front : v = [path |-> front, stack |-> stack] /\ front = Drop(path, 1)
      OBVIOUS
    <3>2. Len(front) = Len(path) - 1 /\ \A i \in 1..(Len(path) - 1) : front[i] = path[i]
      <4>1. 1 \in 0..Len(path)
        BY <1>3, <1>4
      <4>2. PICK S : S = DOMAIN dag
        OBVIOUS
      <4>3. path \in Seq(S)
        BY <1>3, <4>2
      <4> QED BY <3>1, <4>1, <4>3, Dropped
    <3>3. \A i \in 1..Len(front) : front[i] \in Concerned
      <4>1. Len(path) \in Nat
        BY <1>3
      <4> QED BY <1>7, <3>2, <4>1
    <3>4. WalkStays(v)
      BY <1>8, <3>1, <3>3 DEF WalkStays
    <3>5. walks' = [walks EXCEPT ![c] = v]
      BY <2>1, <3>1 DEF Evals
    <3> QED BY <3>4, <3>5
  <2>2. CASE a \in marked.seen \ marked.subgraph
    <3>1. PICK v : v = [path |-> path, stack |-> stack]
      OBVIOUS
    <3>2. WalkStays(v)
      BY <1>7, <1>8, <3>1 DEF WalkStays
    <3>3. walks' = [walks EXCEPT ![c] = v]
      BY <2>2, <3>1 DEF Evals
    <3> QED BY <3>2, <3>3
  <2>3. CASE a \notin marked.seen \cup marked.subgraph
    <3>1. PICK v, top : v = [path |-> path, stack |-> top] /\ top = Append(stack, dag[a].auth)
      OBVIOUS
    <3>2. /\ Len(top) = Len(stack) + 1 /\ top[Len(stack) + 1] = dag[a].auth
          /\ \A i \in 1..Len(stack) : top[i] = stack[i]
      BY <1>3, <3>1
    <3>3. ASSUME NEW i \in 1..Len(top) PROVE top[i] \subseteq Concerned
      <4>1. i \in 1..Len(stack) \/ i = Len(stack) + 1
        BY <1>3, <3>2
      <4> QED BY <1>6, <1>8, <3>2, <4>1
    <3>4. WalkStays(v)
      BY <1>7, <3>1, <3>3 DEF WalkStays
    <3>5. walks' = [walks EXCEPT ![c] = v]
      BY <2>3, <3>1 DEF Evals
    <3> QED BY <3>4, <3>5
  <2> QED BY <2>1, <2>2, <2>3
<1>11. PICK v : WalkStays(v) /\ walks' = [walks EXCEPT ![c] = v]
  BY <1>10
<1>12. \A d \in DOMAIN walks' : WalkStays(walks'[d])
  BY <1>11 DEF SearchStays
<1>13. Concerned' = Concerned
  BY DEF room, Concerned, Conflicted, Agreed
<1>14. \A d \in DOMAIN walks' : WalkStays(walks[d])'
  BY <1>12, <1>13 DEF WalkStays
<1>15. marked'.subgraph \subseteq Concerned
  BY <1>9 DEF Evals, SearchStays, SearchTyped
<1> QED BY <1>13, <1>14, <1>15 DEF SearchStays

\* Every step keeps the search there.
LEMMA StaysStep ==
    Inv /\ Typed /\ SearchStays /\ NothingForeign /\ [Next]_vars
    => SearchStays' /\ NothingForeign'
<1> SUFFICES ASSUME Inv, Typed, SearchStays, NothingForeign, [Next]_vars
             PROVE  SearchStays' /\ NothingForeign'
  OBVIOUS
<1>0. DagOK /\ EventsOK /\ SearchTyped
  BY DEF Inv, Typed
<1>1. ASSUME UNCHANGED room PROVE Concerned' = Concerned
  BY <1>1 DEF room, Concerned, Conflicted, Agreed
<1>2. ASSUME DOMAIN walks' = {}, marked'.subgraph = {} PROVE SearchStays'
  BY <1>2 DEF SearchStays
<1>3. CASE Extend \/ (\E n \in DOMAIN Menu : Diverge(Menu[n])) \/ Other
  <2>1. /\ phase \in {"trunk", "fork", "other"} /\ phase' \in {"trunk", "fork", "other"}
        /\ UNCHANGED <<walks, marked>>
    BY <1>3 DEF Extend, Diverge, Other, search
  <2>2. DOMAIN walks = {} /\ marked.subgraph = {}
    BY <1>0, <2>1 DEF SearchTyped, SearchStays
  <2> QED BY <1>2, <2>1, <2>2 DEF NothingForeign
<1>4. CASE Split
  <2>1. /\ phase = "other" /\ phase' \in {"done", "walk"} /\ UNCHANGED room
        /\ UNCHANGED marked
    BY <1>4 DEF Split
  <2>2. DOMAIN walks = {} /\ marked.subgraph = {}
    BY <1>0, <2>1 DEF SearchTyped, SearchStays
  <2>3. CASE Conflicted = {}
    <3>1. UNCHANGED walks
      BY <1>4, <2>3 DEF Split
    <3> QED BY <1>2, <2>1, <2>2, <3>1 DEF NothingForeign
  <2>4. CASE Conflicted # {}
    <3>1. walks' = [c \in IF rules.subgraph THEN Conflicted ELSE {} |->
                       [path |-> <<c, c>>, stack |-> <<{}, dag[c].auth>>]]
      BY <1>4, <2>4 DEF Split
    <3>2. ASSUME NEW c \in DOMAIN walks' PROVE WalkStays(walks'[c])
      <4>1. c \in Conflicted /\ walks'[c] = [path |-> <<c, c>>, stack |-> <<{}, dag[c].auth>>]
        BY <3>1
      <4>2. c \in Concerned
        BY <4>1 DEF Concerned
      <4>3. dag[c].auth \subseteq Concerned
        BY <1>0, <4>2, ConcernedClosed
      <4> QED BY <4>1, <4>2, <4>3 DEF WalkStays
    <3>3. \A c \in DOMAIN walks' : WalkStays(walks[c])'
      BY <1>1, <2>1, <3>2 DEF WalkStays
    <3> QED BY <2>1, <2>2, <3>3 DEF SearchStays, NothingForeign
  <2> QED BY <2>3, <2>4
<1>5. ASSUME NEW c \in Running, Walk(c) PROVE SearchStays' /\ NothingForeign'
  <2>1. UNCHANGED <<room, phase>> /\ c \in DOMAIN walks
    BY <1>5 DEF Walk, Running
  <2>2. phase = "walk" /\ WalkOK(walks[c])
    BY <1>0, <2>1 DEF SearchTyped
  <2>3. PICK n, a, path, stack :
           Takes(walks[c], n, a, path, stack) /\ Evals(c, a, path, stack)
    BY <1>0, <1>5, <2>1, <2>2, WalkTakes
  <2>4. SearchStays'
    BY <1>0, <2>1, <2>2, <2>3, TakesStays
  <2> QED BY <2>1, <2>2, <2>4 DEF NothingForeign
<1>6. ASSUME NEW c \in Running, WalkEnds(c) PROVE SearchStays' /\ NothingForeign'
  <2>1. /\ UNCHANGED room /\ UNCHANGED <<phase, marked>> /\ c \in DOMAIN walks
        /\ walks' = [d \in DOMAIN walks \ {c} |-> walks[d]]
    BY <1>6 DEF WalkEnds, Running
  <2>2. phase = "walk"
    BY <1>0, <2>1 DEF SearchTyped
  <2>3. \A d \in DOMAIN walks' : WalkStays(walks[d])'
    BY <1>1, <2>1 DEF SearchStays, WalkStays
  <2> QED BY <1>1, <2>1, <2>2, <2>3 DEF SearchStays, NothingForeign
<1>7. CASE Collect
  <2>1. /\ full' = (DOMAIN dag \cap (AuthDifference \cup Conflicted)) \cup marked.subgraph
        /\ marked' = NoMarks /\ UNCHANGED room /\ DOMAIN walks' = {}
    BY <1>7 DEF Collect
  <2>2. full' \subseteq Concerned
    BY <2>1, DifferenceConcerned DEF SearchStays, Concerned
  <2>3. SearchStays'
    BY <1>2, <2>1 DEF NoMarks
  <2> QED BY <1>1, <2>1, <2>2, <2>3 DEF NothingForeign
<1>8. CASE PopSmallest \/ Sorted \/ AuthCheck \/ SortRemaining \/ Finish
  <2>1. /\ UNCHANGED room /\ UNCHANGED search /\ UNCHANGED full
        /\ phase \in {"sort", "power", "rest"}
    BY <1>8 DEF PopSmallest, Sorted, AuthCheck, SortRemaining, Finish
  <2>2. DOMAIN walks = {} /\ marked.subgraph = {} /\ UNCHANGED <<walks, marked>>
    BY <1>0, <2>1 DEF SearchTyped, SearchStays, search
  <2> QED BY <1>1, <1>2, <2>1, <2>2 DEF NothingForeign
<1>9. CASE UNCHANGED vars
  <2>1. UNCHANGED room /\ UNCHANGED <<walks, marked, phase, full>>
    BY <1>9 DEF vars, search
  <2>2. \A d \in DOMAIN walks' : WalkStays(walks[d])'
    BY <1>1, <2>1 DEF SearchStays, WalkStays
  <2> QED BY <1>1, <2>1, <2>2 DEF SearchStays, NothingForeign
<1> QED BY <1>3, <1>4, <1>5, <1>6, <1>7, <1>8, <1>9 DEF Next, Done

\* However many walks there are and in whatever order their fetches complete, the
\* search adds no event but conflicted ones and those of their auth chains
\* (conflicted_subgraph_dfs, insert_path).
THEOREM SearchAddsNothingForeign == Spec => []NothingForeign
<1>1. Init => SearchStays /\ NothingForeign
  <2> SUFFICES ASSUME Init PROVE SearchStays /\ NothingForeign
    OBVIOUS
  <2>1. phase = "trunk" /\ DOMAIN walks = {} /\ marked.subgraph = {}
    BY DEF Init, NoMarks
  <2> QED BY <2>1 DEF SearchStays, NothingForeign
<1> QED BY <1>1, StaysStep, InvAlways, TypedAlways, PTL DEF Spec

-----------------------------------------------------------------------------
(* The search comes to an end *)

\* An event that walk d has yet to look at, in the frame at place i of its stack
Ahead(d, i, x) ==
    d \in DOMAIN walks /\ i \in 1..Len(walks[d].stack) /\ x \in walks[d].stack[i]

\* Nothing is ahead that was not ahead before.
NothingNewAhead == \A d, i, x : Ahead(d, i, x)' => Ahead(d, i, x)

\* A fetch marks an event that was not seen, or leaves less to look at and nothing
\* new; the end of a walk leaves fewer walks.
SearchMoves ==
    \A c \in Running :
        /\ Walk(c) =>
              \/ marked.seen \subseteq marked'.seen /\ marked.seen # marked'.seen
              \/ /\ marked'.seen = marked.seen /\ DOMAIN walks' = DOMAIN walks
                 /\ NothingNewAhead /\ \E i, x : Ahead(c, i, x) /\ ~Ahead(c, i, x)'
        /\ WalkEnds(c) =>
              /\ marked'.seen = marked.seen /\ NothingNewAhead
              /\ DOMAIN walks' \subseteq DOMAIN walks /\ DOMAIN walks' # DOMAIN walks

\* There is never more than so much of each.
SearchFinite ==
    /\ IsFiniteSet(DOMAIN dag) /\ marked.seen \subseteq DOMAIN dag
    /\ IsFiniteSet(DOMAIN walks)
    /\ \A c \in DOMAIN walks : walks[c].stack \in Seq(SUBSET DOMAIN dag)

\* The walks run from conflicted events.
FromConflicted == DOMAIN walks \subseteq Conflicted

LEMMA FromConflictedStep ==
    Inv /\ Typed /\ FromConflicted /\ [Next]_vars => FromConflicted'
<1> SUFFICES ASSUME Inv, Typed, FromConflicted, [Next]_vars PROVE FromConflicted'
  OBVIOUS
<1>0. SearchTyped
  BY DEF Typed
<1>1. ASSUME UNCHANGED room, DOMAIN walks' \subseteq DOMAIN walks PROVE FromConflicted'
  <2>1. Conflicted' = Conflicted
    BY <1>1 DEF room, Conflicted, Agreed
  <2> QED BY <1>1, <2>1 DEF FromConflicted
<1>2. CASE Extend \/ (\E n \in DOMAIN Menu : Diverge(Menu[n])) \/ Other
  <2>1. phase \in {"trunk", "fork", "other"} /\ UNCHANGED walks
    BY <1>2 DEF Extend, Diverge, Other, search
  <2>2. DOMAIN walks' = {}
    BY <1>0, <2>1 DEF SearchTyped
  <2> QED BY <2>2 DEF FromConflicted
<1>3. CASE Split
  <2>1. UNCHANGED room
    BY <1>3 DEF Split
  <2>2. CASE Conflicted = {}
    BY <1>1, <1>3, <2>1, <2>2 DEF Split
  <2>3. CASE Conflicted # {}
    <3>1. DOMAIN walks' \subseteq Conflicted
      BY <1>3, <2>3 DEF Split
    <3>2. Conflicted' = Conflicted
      BY <2>1 DEF room, Conflicted, Agreed
    <3> QED BY <3>1, <3>2 DEF FromConflicted
  <2> QED BY <2>2, <2>3
<1>4. ASSUME NEW c \in Running, Walk(c) PROVE FromConflicted'
  <2>1. UNCHANGED room /\ DOMAIN walks' = DOMAIN walks
    BY <1>4 DEF Walk
  <2> QED BY <1>1, <2>1
<1>5. ASSUME NEW c \in Running, WalkEnds(c) PROVE FromConflicted'
  BY <1>1, <1>5 DEF WalkEnds
<1>6. CASE Collect
  BY <1>1, <1>6 DEF Collect
<1>7. CASE PopSmallest \/ Sorted \/ AuthCheck \/ SortRemaining \/ Finish
  <2>1. UNCHANGED room /\ UNCHANGED search
    BY <1>7 DEF PopSmallest, Sorted, AuthCheck, SortRemaining, Finish
  <2> QED BY <1>1, <2>1 DEF search
<1>8. CASE UNCHANGED vars
  BY <1>1, <1>8 DEF vars, search
<1> QED BY <1>2, <1>3, <1>4, <1>5, <1>6, <1>7, <1>8 DEF Next, Done

\* There are finitely many walks, each with a stack.
LEMMA SearchIsFinite == Inv /\ Typed /\ FromConflicted => SearchFinite
<1> SUFFICES ASSUME Inv, Typed, FromConflicted PROVE SearchFinite
  OBVIOUS
<1>0. DagOK /\ EventsOK /\ SearchTyped
  BY DEF Inv, Typed
<1>1. IsFiniteSet(DOMAIN dag)
  <2>1. DOMAIN dag = 1..Len(dag) /\ Len(dag) \in Nat
    BY <1>0 DEF DagOK
  <2> QED BY <2>1, FS_Interval
<1>2. DOMAIN walks \subseteq DOMAIN dag
  BY <1>0, ConflictedKnown DEF FromConflicted
<1>3. IsFiniteSet(DOMAIN walks)
  BY <1>1, <1>2, FS_Subset
<1>4. \A c \in DOMAIN walks : walks[c].stack \in Seq(SUBSET DOMAIN dag)
  <2>1. ASSUME NEW c \in DOMAIN walks PROVE walks[c].stack \in Seq(SUBSET DOMAIN dag)
    <3>1. walks[c].stack \in Seq(SUBSET Authorisers)
      BY <1>0 DEF SearchTyped, WalkOK
    <3>2. Authorisers \subseteq DOMAIN dag
      BY DEF Authorisers
    <3> QED BY <3>1, <3>2
  <2> QED BY <2>1
<1>5. marked.seen \subseteq DOMAIN dag
  BY <1>0 DEF SearchTyped
<1> QED BY <1>1, <1>3, <1>4, <1>5 DEF SearchFinite

\* A fetch leaves less.
LEMMA WalkProgress ==
    ASSUME DagOK, SearchTyped, NEW c \in DOMAIN walks, Walk(c)
    PROVE  \/ marked.seen \subseteq marked'.seen /\ marked.seen # marked'.seen
           \/ /\ marked'.seen = marked.seen /\ DOMAIN walks' = DOMAIN walks
              /\ NothingNewAhead /\ \E i, x : Ahead(c, i, x) /\ ~Ahead(c, i, x)'
<1>1. WalkOK(walks[c]) /\ UNCHANGED dag
  BY DEF SearchTyped, Walk, room
<1>2. PICK n, a, path, stack :
         Takes(walks[c], n, a, path, stack) /\ Evals(c, a, path, stack)
  BY <1>1, WalkTakes
<1>3. CASE a \notin marked.seen \cup marked.subgraph
  <2>1. marked'.seen = marked.seen \cup {a}
    BY <1>2, <1>3 DEF Evals
  <2> QED BY <1>3, <2>1
<1>4. CASE a \in marked.seen \cup marked.subgraph
  <2>1. marked'.seen = marked.seen
    BY <1>2, <1>4 DEF Evals, SearchTyped
  <2>2. PICK v : v.stack = stack /\ walks' = [walks EXCEPT ![c] = v]
    <3>1. CASE a \in marked.subgraph
      <4>1. PICK v : v = [path |-> Drop(path, 1), stack |-> stack]
        OBVIOUS
      <4>2. v.stack = stack /\ walks' = [walks EXCEPT ![c] = v]
        BY <1>2, <3>1, <4>1 DEF Evals
      <4> QED BY <4>2
    <3>2. CASE a \notin marked.subgraph
      <4>1. PICK v : v = [path |-> path, stack |-> stack]
        OBVIOUS
      <4>2. v.stack = stack /\ walks' = [walks EXCEPT ![c] = v]
        BY <1>2, <1>4, <3>2, <4>1 DEF Evals
      <4> QED BY <4>2
    <3> QED BY <3>1, <3>2
  <2>3. /\ DOMAIN walks' = DOMAIN walks /\ walks'[c].stack = stack
        /\ \A d \in DOMAIN walks : d # c => walks'[d] = walks[d]
    BY <2>2
  <2>4. PICK w, m : w = walks[c] /\ m = Len(w.stack) - n
    OBVIOUS
  <2>5. /\ m \in 1..Len(w.stack) /\ a \in w.stack[m] /\ Len(stack) = m
        /\ \A i \in 1..(m - 1) : stack[i] = w.stack[i]
        /\ stack[m] = w.stack[m] \ {a}
    BY <1>2, <2>4 DEF Takes
  <2>6. /\ Len(w.stack) \in Nat /\ m \in Nat /\ a \in DOMAIN dag
        /\ w.stack[m] \subseteq Authorisers
    <3>1. w.stack \in Seq(SUBSET Authorisers)
      BY <1>1, <2>4 DEF WalkOK
    <3>2. w.stack[m] \in SUBSET Authorisers
      BY <2>5, <3>1
    <3> QED BY <2>5, <3>1, <3>2 DEF Authorisers
  <2>7. ASSUME NEW d, NEW i, NEW x, Ahead(d, i, x)' PROVE Ahead(d, i, x)
    <3>1. d \in DOMAIN walks /\ i \in 1..Len(walks'[d].stack) /\ x \in walks'[d].stack[i]
      BY <2>3, <2>7 DEF Ahead
    <3>2. CASE d # c
      BY <2>3, <3>1, <3>2 DEF Ahead
    <3>3. CASE d = c
      <4>1. i \in 1..m /\ x \in stack[i]
        BY <2>3, <2>5, <3>1, <3>3
      <4>2. i \in 1..Len(w.stack) /\ (i = m \/ i \in 1..(m - 1))
        BY <2>5, <2>6, <4>1
      <4>3. x \in w.stack[i]
        BY <2>5, <4>1, <4>2
      <4> QED BY <2>4, <3>1, <3>3, <4>2, <4>3 DEF Ahead
    <3> QED BY <3>2, <3>3
  <2>8. Ahead(c, m, a)
    BY <2>4, <2>5, <2>6 DEF Ahead
  <2>9. ~Ahead(c, m, a)'
    <3>1. a \notin walks'[c].stack[m]
      BY <2>3, <2>5
    <3> QED BY <3>1 DEF Ahead
  <2>10. NothingNewAhead
    BY <2>7 DEF NothingNewAhead
  <2> QED BY <2>1, <2>3, <2>8, <2>9, <2>10
<1> QED BY <1>3, <1>4

\* The end of a walk leaves fewer.
LEMMA EndProgress ==
    ASSUME NEW c \in DOMAIN walks, WalkEnds(c)
    PROVE  /\ marked'.seen = marked.seen /\ NothingNewAhead
           /\ DOMAIN walks' \subseteq DOMAIN walks /\ DOMAIN walks' # DOMAIN walks
<1>1. /\ UNCHANGED <<dag, marked>> /\ DOMAIN walks' = DOMAIN walks \ {c}
      /\ \A d \in DOMAIN walks' : walks'[d] = walks[d]
  BY DEF WalkEnds, room
<1>2. NothingNewAhead
  BY <1>1 DEF NothingNewAhead, Ahead
<1> QED BY <1>1, <1>2

\* The search for the conflicted subgraph cannot go on for ever, for every graph of
\* auth events and any number of walks at a time: each step of
\* conflicted_subgraph_dfs marks one more of finitely many events as seen, or takes
\* something from what is ahead and adds nothing to it, or ends one of finitely many
\* walks.
THEOREM SearchMovesOn == Spec => []SearchFinite /\ [][SearchMoves]_vars
<1>1. Init => FromConflicted
  BY DEF Init, FromConflicted
<1>2. Inv /\ Typed => SearchMoves
  <2> SUFFICES ASSUME Inv, Typed, NEW c \in Running
               PROVE  /\ Walk(c) =>
                            \/ marked.seen \subseteq marked'.seen /\ marked.seen # marked'.seen
                            \/ /\ marked'.seen = marked.seen /\ DOMAIN walks' = DOMAIN walks
                               /\ NothingNewAhead /\ \E i, x : Ahead(c, i, x) /\ ~Ahead(c, i, x)'
                      /\ WalkEnds(c) =>
                            /\ marked'.seen = marked.seen /\ NothingNewAhead
                            /\ DOMAIN walks' \subseteq DOMAIN walks
                            /\ DOMAIN walks' # DOMAIN walks
    BY DEF SearchMoves
  <2>1. DagOK /\ SearchTyped /\ c \in DOMAIN walks
    BY DEF Inv, Typed, Running
  <2> QED BY <2>1, WalkProgress, EndProgress
<1>3. Spec => []FromConflicted
  BY <1>1, FromConflictedStep, InvAlways, TypedAlways, PTL DEF Spec
<1> QED BY <1>2, <1>3, SearchIsFinite, InvAlways, TypedAlways, PTL
=============================================================================
