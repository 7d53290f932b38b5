----------------------------- MODULE AuthRules ------------------------------
(***************************************************************************)
(* Which state events the rules of a room allow.                           *)
(*                                                                         *)
(*   service/rooms/state_res/event_auth   the rules                        *)
(*   service/rooms/state_res/events       what they read of an event       *)
(*                                                                         *)
(* An event is a record with a type, a state key, a sender, a content and  *)
(* the event before it (prev).  A state is a function from slots (type and *)
(* state key) to events.  The content of a membership is the membership,   *)
(* that of join rules the rule, that of power levels the function of the   *)
(* users that are listed; every other level has its default.  Users are of *)
(* federating servers and rooms are public or for invited users: knocking, *)
(* restricted rooms, third-party invites, aliases and redactions are left  *)
(* out.                                                                    *)
(***************************************************************************)
EXTENDS Integers, FiniteSets

\* DEFAULT_CREATOR_POWER_LEVEL and the defaults of RoomPowerLevelsIntField
CREATOR_LEVEL == 100
USERS_DEFAULT == 0
INVITE_LEVEL == 0
STATE_DEFAULT == 50
KICK_LEVEL == 50
BAN_LEVEL == 50

\* UserPowerLevel::Infinite
INFINITE == 1000

SlotOf(e) == <<e.type, e.key>>

CreateSlot == <<"create", "">>
PowerSlot == <<"power", "">>
RulesSlot == <<"rules", "">>
MemberSlot(u) == <<"member", u>>

-----------------------------------------------------------------------------
(* What the rules read of the state st *)

\* A user without a membership event has left.
Membership(st, u) ==
    IF MemberSlot(u) \in DOMAIN st THEN st[MemberSlot(u)].content ELSE "leave"

\* user_power_level, with the creators that are known to the caller
PowerLevel(st, u, creators, hydra) ==
    IF hydra /\ u \in creators THEN INFINITE
    ELSE IF PowerSlot \in DOMAIN st
    THEN LET users == st[PowerSlot].content
         IN  IF u \in DOMAIN users THEN users[u] ELSE USERS_DEFAULT
    ELSE IF u \in creators THEN CREATOR_LEVEL ELSE USERS_DEFAULT

\* auth_types_for_event: the slots an event is authorised by.
AuthTypes(e, create) ==
    IF e.type = "create" THEN {}
    ELSE (IF create THEN {CreateSlot} ELSE {})
         \cup {PowerSlot, MemberSlot(e.sender)}
         \cup (IF e.type = "member" THEN {MemberSlot(e.key)} ELSE {})
         \cup (IF e.type = "member" /\ e.content \in {"join", "invite"}
               THEN {RulesSlot} ELSE {})

\* Mutant: bans are not power events.
IsPowerEvent_NoBans(e) ==
    \/ e.type \in {"power", "rules", "create"}
    \/ e.type = "member" /\ e.content = "leave" /\ e.sender # e.key

\* is_power_event: an event that may take away what somebody can do.
IsPowerEvent(e) ==
    \/ e.type \in {"power", "rules", "create"}
    \/ e.type = "member" /\ e.content \in {"leave", "ban"} /\ e.sender # e.key

-----------------------------------------------------------------------------
\* check_room_create, of the rules that do not depend on the state: the create
\* event has no event before it.
CreateAllowed(e) == e.type = "create" => e.prev = 0

-----------------------------------------------------------------------------
(* check_state_dependent_auth_rules *)

\* check_room_member_join; create is the create event's id.
JoinAllowed(e, st, create) ==
    \/ e.prev = create /\ e.key = st[CreateSlot].sender
    \/ /\ e.sender = e.key
       /\ Membership(st, e.key) # "ban"
       /\ RulesSlot \in DOMAIN st
       /\ \/ st[RulesSlot].content = "public"
          \/ /\ st[RulesSlot].content = "invite"
             /\ Membership(st, e.key) \in {"invite", "join"}

\* check_room_member_invite
InviteAllowed(e, st, level) ==
    /\ Membership(st, e.sender) = "join"
    /\ Membership(st, e.key) \notin {"join", "ban"}
    /\ level[e.sender] >= INVITE_LEVEL

\* check_room_member_leave: a user leaves, is kicked or unbanned.
LeaveAllowed(e, st, level) ==
    IF e.sender = e.key
    THEN Membership(st, e.sender) \in {"join", "invite"}
    ELSE /\ Membership(st, e.sender) = "join"
         /\ Membership(st, e.key) = "ban" => level[e.sender] >= BAN_LEVEL
         /\ level[e.sender] >= KICK_LEVEL
         /\ level[e.key] < level[e.sender]

\* check_room_member_ban
BanAllowed(e, st, level) ==
    /\ Membership(st, e.sender) = "join"
    /\ level[e.sender] >= BAN_LEVEL
    /\ level[e.key] < level[e.sender]

\* What a map of power levels says of a user: the level or nothing.
Entry(users, u) == IF u \in DOMAIN users THEN {users[u]} ELSE {}

\* check_room_power_levels, check_power_level_maps
LevelsAllowed(e, st, level, hydra) ==
    /\ hydra => st[CreateSlot].sender \notin DOMAIN e.content
    /\ PowerSlot \in DOMAIN st =>
        LET users == st[PowerSlot].content
        IN  \A u \in DOMAIN users \cup DOMAIN e.content :
                Entry(users, u) # Entry(e.content, u) =>
                    /\ \A l \in Entry(users, u) :
                            u = e.sender \/ l < level[e.sender]
                    /\ \A l \in Entry(e.content, u) : l <= level[e.sender]

Allowed(e, st, create, hydra) ==
    \/ e.type = "create"
    \/ /\ CreateSlot \in DOMAIN st
       /\ LET creators == {st[CreateSlot].sender}
              level == [u \in {e.sender, e.key} |->
                            PowerLevel(st, u, creators, hydra)]
          IN  \/ /\ e.type = "member"
                 /\ \/ e.content = "join" /\ JoinAllowed(e, st, create)
                    \/ e.content = "invite" /\ InviteAllowed(e, st, level)
                    \/ e.content = "leave" /\ LeaveAllowed(e, st, level)
                    \/ e.content = "ban" /\ BanAllowed(e, st, level)
              \/ /\ e.type # "member"
                 /\ Membership(st, e.sender) = "join"
                 /\ level[e.sender] >= STATE_DEFAULT
                 /\ e.type = "power" => LevelsAllowed(e, st, level, hydra)

=============================================================================
