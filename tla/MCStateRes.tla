----------------------------- MODULE MCStateRes -----------------------------
(* An instance of StateRes for TLC: a room of three users. *)
EXTENDS StateRes

State(type, key, sender, content) ==
    [type |-> type, key |-> key, sender |-> sender, content |-> content]

Member(u, sender, membership) == State("member", u, sender, membership)

Levels(sender, users) == State("power", "", sender, users)

\* The levels of bob and carol; alice has made the room.
Power(bob, carol) == "alice" :> 100 @@ "bob" :> bob @@ "carol" :> carol

\* bob's power is alice's, carol's is bob's, and carol gives levels as well;
\* bob has joined under other rules than carol.
Common == <<
    State("create", "", "alice", "room"),
    Member("alice", "alice", "join"),
    Levels("alice", "alice" :> 100 @@ "bob" :> 50),
    State("rules", "", "alice", "public"),
    Member("carol", "carol", "join"),
    State("rules", "", "alice", "public"),
    Member("bob", "bob", "join"),
    Levels("bob", Power(50, 50)),
    Levels("carol", Power(50, 50) @@ "dave" :> 50)>>

\* alice and bob take power and membership from each other.
Offers == <<
    Member("bob", "alice", "ban"),
    Levels("alice", Power(0, 50)),
    State("topic", "", "bob", "b"),
    State("topic", "", "carol", "c"),
    State("rules", "", "alice", "invite")>>

\* The events that make the servers disagree
Few == <<
    State("topic", "", "bob", "b"),
    State("topic", "", "carol", "c"),
    State("rules", "", "alice", "invite")>>

\* Versions 2 to 11 without and with hydra_backports, and version 12
Rules == {[subgraph |-> FALSE, empty |-> FALSE, hydra |-> FALSE],
          [subgraph |-> TRUE, empty |-> FALSE, hydra |-> FALSE],
          [subgraph |-> TRUE, empty |-> TRUE, hydra |-> TRUE]}

\* The second fork's clock is behind, or both are the same.
Behind == {<<3, 0>>}
Even == {<<3, 3>>}

Lengths == <<2, 1>>

=============================================================================
