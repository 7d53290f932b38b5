------------------------------ MODULE StateRes ------------------------------
(***************************************************************************)
(* The resolution of two forks of a room's state.                          *)
(*                                                                         *)
(*   service/rooms/state_res/resolve            the algorithm              *)
(*   service/rooms/state_res/topological_sort   its first order            *)
(*   service/rooms/event_handler/resolve_state  its caller                 *)
(*   service/rooms/auth_chain                   its auth chains            *)
(*   service/rooms/timeline/create              how events come about      *)
(*                                                                         *)
(* A room grows along a common trunk and then, while the servers in it do  *)
(* not hear of each other, along two forks: every event is authorised by   *)
(* the state of its fork.  The two states are then resolved.  The walks    *)
(* that look for the conflicted subgraph run concurrently and share their  *)
(* marks; the rest of the algorithm is sequential, one event a step.       *)
(*                                                                         *)
(* An event's id is its place in dag.  All events are known and none was   *)
(* rejected.                                                               *)
(***************************************************************************)
EXTENDS AuthRules, SequencesExt

CONSTANTS
    Trunk,      \* sequence of events that both forks know
    Menu,       \* sequence of events that may be made on a fork
    Versions,   \* rules of room versions: [subgraph, empty, hydra]
    Clocks,     \* what the clocks of the forks may show: [Fork -> Nat]
    Grow,       \* bound: [Fork -> how many events it has at most]
    Widths      \* what automatic_width may be: walks at the same time

Fork == {1, 2}

\* rules.subgraph: consider_conflicted_state_subgraph or hydra_backports;
\* rules.empty: begin_iterative_auth_checks_with_empty_state_map;
\* rules.hydra: room_create_event_id_as_room_id and
\* explicitly_privilege_room_creators.  A room begins with an event, and power
\* levels are integers.
ASSUME StateResAssumption ==
    /\ Versions \subseteq [subgraph : BOOLEAN, empty : BOOLEAN, hydra : BOOLEAN]
    /\ Clocks \subseteq [Fork -> Nat]
    /\ Grow \in [Fork -> Nat]
    /\ Len(Trunk) \in Nat \ {0}
    /\ \A t \in {Trunk[n] : n \in 1..Len(Trunk)} \cup {Menu[n] : n \in DOMAIN Menu} :
          t.type = "power" => \A u \in DOMAIN t.content : t.content[u] \in Int
    /\ Widths \subseteq Nat \ {0}

VARIABLES
    rules,      \* of the room's version
    width,      \* of the server's streams
    clock,      \* of the forks
    dag,        \* the events
    split,      \* how many of them are older than the second fork's
    states,     \* [Fork -> state: slots to ids]
    phase,
    walks,      \* conflicted_subgraph_dfs: [id -> Local], until it is finished
    marked,     \* what Substate says of an id: [seen, subgraph]
    full,       \* full_conflicted_set
    graph,      \* topological_sort: [id -> references not yet sorted]
    todo,       \* sorted events that are not checked yet
    remaining,  \* events of full that are not in the power set
    resolved    \* the state that is being resolved

room == <<rules, width, clock, dag, split, states>>
search == <<walks, marked>>
vars == <<room, phase, search, full, graph, todo, remaining, resolved>>

Phases == {"trunk", "fork", "other", "walk", "sort", "power", "rest", "done"}

-----------------------------------------------------------------------------
(* The room *)

NoEntries == [s \in {} |-> 0]

\* The state st with the event i in its slot
Put(st, slot, i) ==
    [s \in DOMAIN st \cup {slot} |-> IF s = slot THEN i ELSE st[s]]

\* The entries of st, and those of other for the slots that st has not
Over(st, other) ==
    [s \in DOMAIN st \cup DOMAIN other |->
        IF s \in DOMAIN st THEN st[s] ELSE other[s]]

NoMarks == [seen |-> {}, subgraph |-> {}]

\* The events of the set, which has one for a slot
BySlot(set) == [s \in {SlotOf(dag[i]) : i \in set} |->
                   dag[CHOOSE i \in set : SlotOf(dag[i]) = s]]

Events(st) == [s \in DOMAIN st |-> dag[st[s]]]

\* Levels of creators are not listed since version 12.
Content(t) ==
    IF t.type = "power" /\ rules.hydra
    THEN [u \in DOMAIN t.content \ {Trunk[1].sender} |-> t.content[u]]
    ELSE t.content

\* create_event: the auth events of t are taken from the state st, and so is
\* their auth chain; since version 12 the create event is not one of them.
NewEvent(t, st, ts, prev) ==
    LET auth == {st[s] : s \in AuthTypes(t, ~rules.hydra) \cap DOMAIN st}
    IN  [type |-> t.type, key |-> t.key, sender |-> t.sender,
         content |-> Content(t), ts |-> ts, prev |-> prev, auth |-> auth,
         chain |-> auth \cup UNION {dag[a].chain : a \in auth}]

\* The event is made and changes the states of the forks fs.
Make(t, fs, ts, prev) ==
    LET st == states[CHOOSE f \in fs : TRUE]
        e == NewEvent(t, st, ts, prev)
    IN  /\ CreateAllowed(e)
        /\ Allowed(e, Events(Restrict(st, AuthTypes(t, TRUE) \cap DOMAIN st)),
                   1, rules.hydra)
        /\ dag' = Append(dag, e)
        /\ states' = [f \in Fork |->
              IF f \in fs THEN Put(states[f], SlotOf(e), Len(dag) + 1)
              ELSE states[f]]

Extend ==
    /\ phase = "trunk"
    /\ Make(Trunk[Len(dag) + 1], Fork, 0, Len(dag))
    /\ phase' = IF Len(dag) + 1 = Len(Trunk) THEN "fork" ELSE "trunk"
    /\ UNCHANGED <<rules, width, clock, split, search, full, graph, todo, remaining, resolved>>

\* The forks do not see each other, so that one may grow after the other.
Diverge(t) ==
    /\ \/ /\ phase = "fork"
          /\ Len(dag) - Len(Trunk) < Grow[1]
          /\ Make(t, {1}, clock[1] + Len(dag) - Len(Trunk), Len(dag))
       \/ /\ phase = "other"
          /\ Len(dag) - split < Grow[2]
          /\ Make(t, {2}, clock[2] + Len(dag) - split,
                  IF Len(dag) = split THEN Len(Trunk) ELSE Len(dag))
    /\ UNCHANGED <<rules, width, clock, split, phase, search, full, graph, todo,
                   remaining, resolved>>

Other ==
    /\ phase = "fork"
    /\ phase' = "other"
    /\ split' = Len(dag)
    /\ UNCHANGED <<rules, width, clock, dag, states, search, full, graph, todo,
                   remaining, resolved>>

-----------------------------------------------------------------------------
(* The sets that the resolution works on *)

Agreed == {s \in DOMAIN states[1] \cap DOMAIN states[2] :
              states[1][s] = states[2][s]}

\* split_conflicted_state
Unconflicted == Restrict(states[1], Agreed)

Conflicted == UNION {{states[f][s] : s \in DOMAIN states[f] \ Agreed} : f \in Fork}

\* The auth chains of all events of the fork's state
AuthSet(f) == UNION {dag[states[f][s]].chain : s \in DOMAIN states[f]}

\* auth_difference
AuthDifference == (AuthSet(1) \cup AuthSet(2)) \ (AuthSet(1) \cap AuthSet(2))

\* resolve: without a conflict there is nothing to do.
Split ==
    /\ phase = "other"
    /\ IF Conflicted = {}
       THEN /\ phase' = "done"
            /\ resolved' = Unconflicted
            /\ UNCHANGED walks
       ELSE /\ phase' = "walk"
            /\ walks' = [c \in IF rules.subgraph THEN Conflicted ELSE {} |->
                            [path |-> <<c, c>>, stack |-> <<{}, dag[c].auth>>]]
            /\ UNCHANGED resolved
    /\ UNCHANGED <<room, marked, full, graph, todo, remaining>>

-----------------------------------------------------------------------------
(* conflicted_subgraph_dfs *)

\* The inputs are started in the order of their ids.
Running == {c \in DOMAIN walks :
               Cardinality({d \in DOMAIN walks : d < c}) < width}

Drop(s, n) == SubSeq(s, 1, Len(s) - n)

\* Local::pop first leaves the frames that are used up, and takes one event
\* off the path for each.
UsedUp(w) == CHOOSE n \in 0..Len(w.stack) :
    /\ \A i \in Len(w.stack) - n + 1 .. Len(w.stack) : w.stack[i] = {}
    /\ n = Len(w.stack) \/ w.stack[Len(w.stack) - n] # {}

\* auth_events has the order of the StateMap they were collected in, by type;
\* Frame::pop takes the last.
Rank(i) == CASE dag[i].type = "create" -> 1
             [] dag[i].type = "rules" -> 2
             [] dag[i].type = "member" -> 3
             [] dag[i].type = "power" -> 4

LastOf(frame) == CHOOSE a \in frame : \A b \in frame \ {a} :
    Rank(b) < Rank(a) \/ (Rank(b) = Rank(a) /\ b < a)

\* Mutant: the event itself is inserted, the path to it is not.
InsertPath_EndOnly(path) == {Last(path)}

\* insert_path: everything on the path is in the subgraph.
InsertPath(path) == ToSet(path)

\* One fetch of the walk c has completed: pop, eval and the next push.  The
\* event a is in the subgraph, or some walk has seen it, or it is new.
Walk(c) ==
    LET w == walks[c]
        n == UsedUp(w)
        rest == Drop(w.stack, n)
        a == LastOf(Last(rest))
        path == Append(Drop(w.path, n), a)
        stack == Append(Drop(rest, 1), Last(rest) \ {a})
    IN  /\ n < Len(w.stack)
        /\ \/ /\ a \in marked.subgraph
              /\ walks' = [walks EXCEPT ![c] = [path |-> Drop(path, 1),
                                                stack |-> stack]]
              /\ marked' = [marked EXCEPT !.subgraph = @ \cup InsertPath(path)]
           \/ /\ a \in marked.seen \ marked.subgraph
              /\ walks' = [walks EXCEPT ![c] = [path |-> path, stack |-> stack]]
              /\ UNCHANGED marked
           \/ /\ a \notin marked.seen \cup marked.subgraph
              /\ walks' = [walks EXCEPT ![c] =
                    [path |-> path, stack |-> Append(stack, dag[a].auth)]]
              /\ marked' = [seen |-> marked.seen \cup {a},
                            subgraph |-> marked.subgraph \cup
                                IF a \in Conflicted THEN InsertPath(path) ELSE {}]
        /\ UNCHANGED <<room, phase, full, graph, todo, remaining, resolved>>

WalkEnds(c) ==
    /\ UsedUp(walks[c]) = Len(walks[c].stack)
    /\ walks' = [d \in DOMAIN walks \ {c} |-> walks[d]]
    /\ UNCHANGED <<room, phase, marked, full, graph, todo, remaining, resolved>>

-----------------------------------------------------------------------------
(* power_sort and topological_sort *)

\* add_event_auth_chain: the power events and what they reach within the set,
\* which is the smallest set with the auth events of all its members.
Reached(set) ==
    LET powers == {i \in set \cap DOMAIN dag : IsPowerEvent(dag[i])}
        closed == {c \in SUBSET set :
                      powers \subseteq c /\ \A i \in c : dag[i].auth \cap set \subseteq c}
    IN  {i \in set : \A c \in closed : i \in c}

\* full_conflicted_set, which asks whether events exist, and the graph of its
\* power events
Collect ==
    /\ phase = "walk"
    /\ walks = [c \in {} |-> 0]
    /\ full' = (DOMAIN dag \cap (AuthDifference \cup Conflicted)) \cup marked.subgraph
    /\ graph' = [i \in Reached(full') |-> dag[i].auth \cap full']
    /\ remaining' = full' \ DOMAIN graph'
    /\ phase' = "sort"
    /\ marked' = NoMarks
    /\ UNCHANGED <<room, walks, todo, resolved>>

\* power_level_for_sender
SenderPower(i) ==
    LET auth == BySlot(dag[i].auth)
        creators == IF rules.hydra \/ CreateSlot \in DOMAIN auth
                    THEN {dag[1].sender} ELSE {}
    IN  PowerLevel(auth, dag[i].sender, creators, rules.hydra)

\* TieBreaker: more power, then earlier, then the smaller id.
Before(i, j) ==
    \/ SenderPower(i) > SenderPower(j)
    \/ /\ SenderPower(i) = SenderPower(j)
       /\ dag[i].ts < dag[j].ts \/ (dag[i].ts = dag[j].ts /\ i < j)

\* Mutant: the heap gives the greatest event.
IsSmallest_Greatest(i, heap) == \A j \in heap \ {i} : Before(j, i)

\* BinaryHeap of Reverse<TieBreaker>
IsSmallest(i, heap) == \A j \in heap \ {i} : Before(i, j)

\* kahn_sort: the smallest event whose references are all sorted.
PopSmallest ==
    LET heap == {i \in DOMAIN graph : graph[i] = {}}
    IN  \E i \in heap :
            /\ phase = "sort"
            /\ IsSmallest(i, heap)
            /\ graph' = [j \in DOMAIN graph \ {i} |-> graph[j] \ {i}]
            /\ todo' = Append(todo, i)
            /\ UNCHANGED <<room, phase, search, full, remaining, resolved>>

Initial == IF rules.empty THEN NoEntries ELSE Unconflicted

Sorted ==
    /\ phase = "sort"
    /\ \A i \in DOMAIN graph : graph[i] # {}
    /\ resolved' = Initial
    /\ phase' = "power"
    /\ UNCHANGED <<room, search, full, graph, todo, remaining>>

-----------------------------------------------------------------------------
(* iterative_auth_check and mainline_sort *)

\* The slots of the event's auth events, where the state has nothing better.
CheckState(i, st) ==
    LET e == dag[i]
        own == BySlot(e.auth \cup IF rules.hydra THEN {1} ELSE {})
        better == AuthTypes(e, TRUE) \cap DOMAIN st
    IN  Over(Events(Restrict(st, better)), own)

\* Mutant: the event is entered under its sender.
Apply_BySender(st, i) ==
    IF Allowed(dag[i], CheckState(i, st), 1, rules.hydra)
    THEN Put(st, <<dag[i].type, dag[i].sender>>, i)
    ELSE st

\* auth_check: the state st with the event i, if it is allowed
Apply(st, i) ==
    IF Allowed(dag[i], CheckState(i, st), 1, rules.hydra)
    THEN Put(st, SlotOf(dag[i]), i)
    ELSE st

AuthCheck ==
    /\ phase \in {"power", "rest"}
    /\ todo # <<>>
    /\ resolved' = Apply(resolved, Head(todo))
    /\ todo' = Tail(todo)
    /\ UNCHANGED <<room, phase, search, full, graph, remaining>>

\* get_power_levels_auth_event, as a set of at most one id
PowerAuth(i) == {a \in dag[i].auth : SlotOf(dag[a]) = PowerSlot}

\* An event and the power levels behind it, back to the first: the smallest set
\* with the power levels that authorise its members
Line(i) ==
    LET powers == {a \in dag[i].chain : SlotOf(dag[a]) = PowerSlot}
        closed == {c \in SUBSET powers :
                      \A j \in {i} \cup c : PowerAuth(j) \subseteq c}
    IN  {i} \cup {a \in powers : \A c \in closed : a \in c}

Mainline(st) == IF PowerSlot \in DOMAIN st THEN Line(st[PowerSlot]) ELSE {}

\* mainline_position: how far along the mainline the nearest of its events is
\* that the line of i meets; 0 when it meets none.
Position(i, mainline) ==
    Cardinality({m \in mainline : \E n \in Line(i) \cap mainline : m <= n})

\* mainline_sort
MainlineSort(set, st) ==
    LET mainline == Mainline(st)
        position == [i \in set |-> Position(i, mainline)]
        Less(i, j) ==
            \/ position[i] < position[j]
            \/ /\ position[i] = position[j]
               /\ dag[i].ts < dag[j].ts \/ (dag[i].ts = dag[j].ts /\ i < j)
    IN  [n \in 1..Cardinality(set) |->
            CHOOSE i \in set : Cardinality({j \in set : Less(j, i)}) = n - 1]

SortRemaining ==
    /\ phase = "power"
    /\ todo = <<>>
    /\ todo' = MainlineSort(remaining, resolved)
    /\ phase' = "rest"
    /\ UNCHANGED <<room, search, full, graph, remaining, resolved>>

\* What the forks agree on stays as it is.
Finish ==
    /\ phase = "rest"
    /\ todo = <<>>
    /\ resolved' = Over(Unconflicted, resolved)
    /\ phase' = "done"
    /\ UNCHANGED <<room, search, full, graph, todo, remaining>>

-----------------------------------------------------------------------------

Init ==
    /\ rules \in Versions
    /\ width \in Widths
    /\ clock \in Clocks
    /\ dag = <<>>
    /\ split = 0
    /\ states = [f \in Fork |-> NoEntries]
    /\ phase = "trunk"
    /\ walks = [c \in {} |-> 0]
    /\ marked = NoMarks
    /\ full = {}
    /\ graph = [i \in {} |-> {}]
    /\ todo = <<>>
    /\ remaining = {}
    /\ resolved = NoEntries

Done == phase = "done" /\ UNCHANGED vars

Next ==
    \/ Extend
    \/ \E n \in DOMAIN Menu : Diverge(Menu[n])
    \/ Other
    \/ Split
    \/ \E c \in Running : Walk(c)
    \/ \E c \in Running : WalkEnds(c)
    \/ Collect
    \/ PopSmallest
    \/ Sorted
    \/ AuthCheck
    \/ SortRemaining
    \/ Finish
    \/ Done

Spec == Init /\ [][Next]_vars

-----------------------------------------------------------------------------
(* Properties *)

\* The variables have the shapes of the structs, and a state maps a slot to an
\* event of that slot: split_conflicted_state, auth_check and the last step of
\* resolve build their maps from each other's keys.
TypeOK ==
    /\ phase \in Phases
    /\ \A st \in {states[1], states[2], resolved} :
          \A s \in DOMAIN st : st[s] \in DOMAIN dag /\ SlotOf(dag[st[s]]) = s
    /\ \A i \in DOMAIN dag : dag[i].auth \subseteq 1..(i - 1)
    /\ full \cup remaining \cup marked.seen \cup marked.subgraph
          \subseteq DOMAIN dag
    /\ ToSet(todo) \subseteq full

\* The slot t is decided by the events that are resolved: the forks disagree on
\* it, or the checks begin with what they agree on and no event of it is checked.
Decided(t) == t \in Agreed => ~rules.empty /\ \A i \in full : SlotOf(dag[i]) # t

\* Who is banned or has lost the power on one fork does not get through with
\* what he did on the other: the topic that wins was set by a user who is not
\* banned and has the level for it in the resolved state.  Where the forks agree,
\* this is not so: since version 12 the checks do not begin with what they agree
\* on (resolve, initial_state), before it an older event of the full conflicted
\* set may take the slot until the last step gives it back, and an event is held
\* to what is in the slot while it is checked.
RevokedLoses ==
    phase = "done" =>
        \A s \in DOMAIN resolved \ Agreed :
            LET e == dag[resolved[s]]
                st == Events(resolved)
            IN  e.type = "topic" =>
                    /\ Decided(MemberSlot(e.sender)) =>
                          Membership(st, e.sender) # "ban"
                    /\ Decided(PowerSlot) /\ PowerSlot \in DOMAIN resolved =>
                          PowerLevel(st, e.sender, {dag[1].sender}, rules.hydra)
                              >= STATE_DEFAULT

\* The conflicted subgraph by its definition: the events on an auth path from
\* one conflicted event to another.
Between == {i \in UNION {dag[c].chain : c \in Conflicted} :
               dag[i].chain \cap Conflicted # {}}

\* The full conflicted set by its definition
FullSet == AuthDifference \cup Conflicted
           \cup IF rules.subgraph THEN Between ELSE {}

\* Walks that run one after the other find the whole conflicted subgraph,
\* although they share their marks (conflicted_subgraph_dfs, eval): what one
\* has seen and found not to lead to a conflicted event needs no second look.
\* With more than one walk at a time an event may be lost: a walk turns back
\* at what another has seen and not finished with.
SubgraphFound ==
    width = 1 /\ phase \in {"sort", "power", "rest"} => FullSet \subseteq full

\* Of the events that may come next, the one that is before all others
Smallest(ready) == CHOOSE i \in ready : \A j \in ready \ {i} : Before(i, j)

\* Reverse topological power ordering by its definition: the first n events are
\* the first n - 1 and the smallest one whose auth events in the set are there.
PowerOrder(set) ==
    LET order[n \in 0..Cardinality(set)] ==
            IF n = 0 THEN <<>>
            ELSE LET placed == ToSet(order[n - 1])
                 IN  Append(order[n - 1], Smallest({i \in set \ placed :
                                dag[i].auth \cap set \subseteq placed}))
    IN  order[Cardinality(set)]

\* No power event is checked before one that authorises it: kahn_sort gives an
\* event only when all it refers to has been given.
PowerOrdered ==
    phase \in {"sort", "power"} =>
        \A m, n \in 1..Len(todo) : m < n => todo[n] \notin dag[todo[m]].auth

\* The heap of kahn_sort runs dry only when every event of the graph is sorted.
AllSorted ==
    phase \in {"power", "rest", "done"} => DOMAIN graph = {}

\* The iterative auth checks by their definition: the state st after the events
\* of a sequence, one after the other
AuthChecked(st, events) ==
    LET after[n \in 0..Len(events)] ==
            IF n = 0 THEN st ELSE Apply(after[n - 1], events[n])
    IN  after[Len(events)]

\* The resolution of the forks by its definition, with the set as the full
\* conflicted set
Resolution(set) ==
    LET powers == Reached(set)
        partial == AuthChecked(Initial, PowerOrder(powers))
    IN  Over(Unconflicted,
             AuthChecked(partial, MainlineSort(set \ powers, partial)))

\* All servers arrive at the same state given the same events: the resolved
\* state is that of the definition, in whatever order the fetches complete.
ServersAgree ==
    phase = "done" /\ Conflicted # {} => resolved = Resolution(FullSet)

\* What is resolved depends on the forks and on the full conflicted set alone,
\* and is what the definition makes of them: the heap of kahn_sort, its counts of
\* references and the two rounds of checks add nothing of their own.  In versions
\* without the conflicted subgraph the set is that of the definition too, so
\* that there the servers agree.
ResolvesAsDefined ==
    phase = "done" /\ Conflicted # {} =>
        /\ resolved = Resolution(full)
        /\ ~rules.subgraph => full = FullSet

=============================================================================
