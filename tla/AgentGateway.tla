---------------------------- MODULE AgentGateway ----------------------------
(***************************************************************************)
(* The agentic gateway of one room: service/agent behind api/agent.        *)
(*                                                                         *)
(* An agent's tool call is mediated against the room's capability grant,   *)
(* counted against the tool's rate limit, audited, posted to the room and, *)
(* when it needs approval, gated until a human decides; its result is      *)
(* refused while the gate is closed.  Each of these is a separate access   *)
(* to the store, the audit log or the timeline, no lock spans two of them, *)
(* and the requests of the tasks interleave.  Everything but the tasks     *)
(* survives a crash.  Keys of the store include the room, so rooms are     *)
(* independent of each other.                                              *)
(***************************************************************************)
EXTENDS Integers, Sequences, FiniteSets

CONSTANTS
    Agent,            \* identities in the agent namespace
    Call,             \* call ids
    Tool,             \* tools
    ToolOf,           \* the tool each call asks for
    Task,             \* request handlers that run concurrently
    Loads,            \* how the room may be used
    NoLimit,          \* a tool without a rate limit
    NoWindow          \* no window is stored

ActionOf == {"auto", "review", "forbidden", "none"}
Limit    == [max : Nat, window_secs : Nat]
Grant    == [scope  : BOOLEAN,
             action : [Tool -> ActionOf],
             limit  : [Tool -> Limit \cup {NoLimit}]]

\* One way to use the room, and the bounds of it.
Load == [serial     : BOOLEAN,       \* requests come one after the other
         grants     : SUBSET Grant,  \* that operators write
         explicit   : SUBSET Nat,    \* versions that operators give themselves
         unreadable : BOOLEAN,       \* reads of the room's state may fail
         maxUses    : Nat,           \* bound: requests per call id
         maxVersion : Nat,           \* bound: grant versions
         maxTime    : Nat]           \* bound: seconds

ASSUME GatewayAssumption ==
    /\ ToolOf \in [Call -> Tool]
    /\ Loads \subseteq Load
    /\ NoLimit \notin Limit
    /\ NoWindow \notin [start : Nat, count : Nat]

VARIABLES
    load,      \* Load                     how this room is used
    registry,  \* SUBSET Agent             AgentRegistry
    grant,     \* Grant                    the room's capability state ...
    version,   \* Nat                      ... and its version
    window,    \* [Agent -> [Tool -> Win]] AgentRateLimits
    status,    \* [Call -> Approval]       AgentApprovals
    audit,     \* set of records           the audit log
    timeline,  \* set of events            the room
    now,       \* Nat                      seconds
    task,      \* [Task -> Job]            the request a handler executes
    uses,      \* [Call -> Nat]            requests for a call so far
    acked,     \* history: calls that were answered "requires_approval"
    permits    \* history: [Agent -> [Tool -> Seq(Nat)]] when calls were let pass

stored  == <<registry, grant, version, window, status>>
visible == <<audit, timeline>>
history == <<uses, acked, permits>>
vars    == <<load, stored, visible, now, task, history>>

-----------------------------------------------------------------------------
(* Data *)

\* A room without a grant: nothing is allowed.
DenyAll == [scope  |-> FALSE,
            action |-> [x \in Tool |-> "none"],
            limit  |-> [x \in Tool |-> NoLimit]]

Win      == [start : Nat, count : Nat] \cup {NoWindow}
Approval == {"none", "pending", "approved", "rejected"}

\* CapabilityGrant::mediate; the reasons of a denial are not told apart.
Mediate(g, tool) ==
    CASE ~g.scope -> "denied"
      [] g.scope /\ g.action[tool] \in {"none", "forbidden"} -> "denied"
      [] g.scope /\ g.action[tool] = "auto" -> "execute"
      [] g.scope /\ g.action[tool] = "review" -> "requires_approval"

\* The record of a mediation names the agent, the tool and the decision, and not
\* the call; records and events are told apart by the request req that wrote
\* them, as the log numbers its entries and events have ids.
CallRecord(a, req, d) == [kind |-> "call", agent |-> a, tool |-> ToolOf[req.call],
                          decision |-> d, req |-> req]
ApprovalRecord(c, ok) == [kind |-> "approval", call |-> c, approved |-> ok]
GrantRecord(v)        == [kind |-> "grant_set", version |-> v]
\* Provisioning and its revocation are not told apart in the log.
AgentRecord(a)        == [kind |-> "agent", agent |-> a]

CallEvent(a, req)     == [type |-> "tool_call", agent |-> a, req |-> req]
ApprovalEvent(c, ok)  == [type |-> "tool_approval", call |-> c, approved |-> ok]
ResultEvent(c, since) == [type |-> "tool_result", call |-> c, since |-> since]

\* How far the call was when its result was handed in: a call that needs
\* approval was answered, or is at least visible in the room, or neither.
Since == {"answered", "visible", "before"}

Idle == [pc |-> "idle"]

Goto(t, job) == task' = [task EXCEPT ![t] = job]

\* What a request carries between two steps.
CallJob(pc, a, req, d) == [pc |-> pc, agent |-> a, req |-> req, decision |-> d]

\* grant_for: what a reader may see of the room's grant and its version.  State
\* that cannot be read or parsed counts as no grant.
GrantFor == {<<grant, version>>} \cup (IF load.unreadable THEN {<<DenyAll, 0>>} ELSE {})

-----------------------------------------------------------------------------
(* mcp_gateway_route and handle_mcp_request *)

\* The caller is joined to the room and provisioned.
AdmitCall(t, a, c) ==
    /\ task[t] = Idle
    /\ a \in registry
    /\ uses[c] < load.maxUses
    /\ uses' = [uses EXCEPT ![c] = @ + 1]
    /\ Goto(t, [pc |-> "admitted", agent |-> a,
                req |-> [call |-> c, nth |-> uses'[c]]])
    /\ UNCHANGED <<stored, visible, now, acked, permits>>

\* The grant is read and the policy decides; a call that may proceed and has a
\* rate limit is counted next.
MediateCall(t) ==
    LET a    == task[t].agent
        req  == task[t].req
        tool == ToolOf[req.call]
    IN  /\ task[t].pc = "admitted"
        /\ \E seen \in GrantFor :
              LET d   == Mediate(seen[1], tool)
                  lim == seen[1].limit[tool]
              IN  Goto(t, IF d # "denied" /\ lim # NoLimit
                          THEN [pc |-> "limited", agent |-> a, req |-> req,
                                decision |-> d, limit |-> lim]
                          ELSE CallJob("audit", a, req, d))
        /\ UNCHANGED <<stored, visible, now, history>>

\* The window in effect at second s: a missing or elapsed one starts afresh.
Current(w, lim, s) ==
    IF w = NoWindow THEN [start |-> s, count |-> 0]
    ELSE IF s - w.start >= lim.window_secs THEN [start |-> s, count |-> 0]
    ELSE w

\* Mutant: one call too many.
ReadWindow_OffByOne(t) ==
    LET j == task[t]
        w == Current(window[j.agent][ToolOf[j.req.call]], j.limit, now)
    IN  /\ j.pc = "limited"
        /\ Goto(t, IF w.count > j.limit.max
                   THEN CallJob("audit", j.agent, j.req, "denied")
                   ELSE [pc |-> "counted", agent |-> j.agent, req |-> j.req,
                         decision |-> j.decision,
                         at |-> now, win |-> [w EXCEPT !.count = @ + 1]])
        /\ UNCHANGED <<stored, visible, now, history>>

\* rate_limit_exceeded reads the counter: a full window denies the call ...
ReadWindow(t) ==
    LET j == task[t]
        w == Current(window[j.agent][ToolOf[j.req.call]], j.limit, now)
    IN  /\ j.pc = "limited"
        /\ Goto(t, IF w.count >= j.limit.max
                   THEN CallJob("audit", j.agent, j.req, "denied")
                   ELSE [pc |-> "counted", agent |-> j.agent, req |-> j.req,
                         decision |-> j.decision,
                         at |-> now, win |-> [w EXCEPT !.count = @ + 1]])
        /\ UNCHANGED <<stored, visible, now, history>>

\* ... and otherwise the increment is written.
WriteWindow(t) ==
    LET j    == task[t]
        tool == ToolOf[j.req.call]
    IN  /\ j.pc = "counted"
        /\ window' = [window EXCEPT ![j.agent][tool] = j.win]
        /\ permits' = [permits EXCEPT ![j.agent][tool] = Append(@, j.at)]
        /\ Goto(t, CallJob("audit", j.agent, j.req, j.decision))
        /\ UNCHANGED <<registry, grant, version, status, visible, now, uses,
                       acked>>

\* Mutant: only denials are audited before the event is posted.
AuditCall_DeniedOnly(t) ==
    LET j == task[t]
    IN  /\ j.pc = "audit"
        /\ audit' = IF j.decision = "denied"
                    THEN audit \cup {CallRecord(j.agent, j.req, j.decision)}
                    ELSE audit
        /\ Goto(t, IF j.decision = "denied" THEN Idle
                   ELSE CallJob("post", j.agent, j.req, j.decision))
        /\ UNCHANGED <<stored, timeline, now, history>>

\* The decision is audited; a denied call ends here.
AuditCall(t) ==
    LET j == task[t]
    IN  /\ j.pc = "audit"
        /\ audit' = audit \cup {CallRecord(j.agent, j.req, j.decision)}
        /\ Goto(t, IF j.decision = "denied" THEN Idle
                   ELSE CallJob("post", j.agent, j.req, j.decision))
        /\ UNCHANGED <<stored, timeline, now, history>>

\* The call is posted; one that needs no approval ends here.
PostCall(t) ==
    LET j == task[t]
    IN  /\ j.pc = "post"
        /\ timeline' = timeline \cup {CallEvent(j.agent, j.req)}
        /\ Goto(t, IF j.decision = "requires_approval"
                   THEN [pc |-> "gate", call |-> j.req.call]
                   ELSE Idle)
        /\ UNCHANGED <<stored, audit, now, history>>

\* Mutant: the decision's label is stored instead of the gate's state.
CloseGate_Label(t) ==
    /\ task[t].pc = "gate"
    /\ status' = [status EXCEPT ![task[t].call] = "requires_approval"]
    /\ acked' = acked \cup {task[t].call}
    /\ Goto(t, Idle)
    /\ UNCHANGED <<registry, grant, version, window, visible, now, uses, permits>>

\* The gate is closed, and the call acknowledged.
CloseGate(t) ==
    /\ task[t].pc = "gate"
    /\ status' = [status EXCEPT ![task[t].call] = "pending"]
    /\ acked' = acked \cup {task[t].call}
    /\ Goto(t, Idle)
    /\ UNCHANGED <<registry, grant, version, window, visible, now, uses, permits>>

-----------------------------------------------------------------------------
(* tool_result_route and ingest_tool_result *)

\* A call that needs approval is in the room.
NeedsReview(c) ==
    \E a \in Agent, n \in 1..uses[c] :
        LET req == [call |-> c, nth |-> n]
        IN  /\ CallEvent(a, req) \in timeline
            /\ CallRecord(a, req, "requires_approval") \in audit

AdmitResult(t, a, c) ==
    /\ task[t] = Idle
    /\ a \in registry
    /\ Goto(t, [pc |-> "check", call |-> c,
                since |-> IF c \in acked THEN "answered"
                          ELSE IF NeedsReview(c) THEN "visible"
                          ELSE "before"])
    /\ UNCHANGED <<stored, visible, now, history>>

\* Mutant: a pending call passes.
CheckGate_Pending(t) ==
    LET j == task[t]
    IN  /\ j.pc = "check"
        /\ Goto(t, IF status[j.call] = "rejected"
                   THEN Idle
                   ELSE [pc |-> "result", call |-> j.call, since |-> j.since])
        /\ UNCHANGED <<stored, visible, now, history>>

\* The result of a pending or rejected call is refused.
CheckGate(t) ==
    LET j == task[t]
    IN  /\ j.pc = "check"
        /\ Goto(t, IF status[j.call] \in {"pending", "rejected"}
                   THEN Idle
                   ELSE [pc |-> "result", call |-> j.call, since |-> j.since])
        /\ UNCHANGED <<stored, visible, now, history>>

PostResult(t) ==
    LET j == task[t]
    IN  /\ j.pc = "result"
        /\ timeline' = timeline \cup {ResultEvent(j.call, j.since)}
        /\ Goto(t, Idle)
        /\ UNCHANGED <<stored, audit, now, history>>

-----------------------------------------------------------------------------
(* approval_route and record_approval: the reviewer is not an agent *)

AuditApproval(t, c, ok) ==
    /\ task[t] = Idle
    /\ audit' = audit \cup {ApprovalRecord(c, ok)}
    /\ Goto(t, [pc |-> "decide", call |-> c, approved |-> ok])
    /\ UNCHANGED <<stored, timeline, now, history>>

DecideApproval(t) ==
    LET j == task[t]
    IN  /\ j.pc = "decide"
        /\ status' = [status EXCEPT ![j.call] =
                        IF j.approved THEN "approved" ELSE "rejected"]
        /\ Goto(t, [pc |-> "announce", call |-> j.call, approved |-> j.approved])
        /\ UNCHANGED <<registry, grant, version, window, visible, now, history>>

PostApproval(t) ==
    LET j == task[t]
    IN  /\ j.pc = "announce"
        /\ timeline' = timeline \cup {ApprovalEvent(j.call, j.approved)}
        /\ Goto(t, Idle)
        /\ UNCHANGED <<stored, audit, now, history>>

-----------------------------------------------------------------------------
(* Operators: grants and provisioning *)

\* set_grant_from_spec reads the current version and picks the next one, unless
\* the operator gave it.
BeginGrant(t, g) ==
    /\ task[t] = Idle
    /\ version < load.maxVersion
    /\ \E v \in {seen[2] + 1 : seen \in GrantFor} \cup load.explicit :
          Goto(t, [pc |-> "install", grant |-> g, version |-> v])
    /\ UNCHANGED <<stored, visible, now, history>>

\* set_grant takes the room's state lock only to write the state event ...
InstallGrant(t) ==
    LET j == task[t]
    IN  /\ j.pc = "install"
        /\ grant' = j.grant
        /\ version' = j.version
        /\ Goto(t, [pc |-> "granted", version |-> j.version])
        /\ UNCHANGED <<registry, window, status, visible, now, history>>

\* ... and audits it afterwards.
AuditGrant(t) ==
    /\ task[t].pc = "granted"
    /\ audit' = audit \cup {GrantRecord(task[t].version)}
    /\ Goto(t, Idle)
    /\ UNCHANGED <<stored, timeline, now, history>>

Provision(t, a) ==
    /\ task[t] = Idle
    /\ registry' = registry \cup {a}
    /\ Goto(t, [pc |-> "registered", agent |-> a])
    /\ UNCHANGED <<grant, version, window, status, visible, now, history>>

\* An agent that is not provisioned is left alone.
Deprovision(t, a) ==
    /\ task[t] = Idle
    /\ a \in registry
    /\ registry' = registry \ {a}
    /\ Goto(t, [pc |-> "registered", agent |-> a])
    /\ UNCHANGED <<grant, version, window, status, visible, now, history>>

AuditAgent(t) ==
    /\ task[t].pc = "registered"
    /\ audit' = audit \cup {AgentRecord(task[t].agent)}
    /\ Goto(t, Idle)
    /\ UNCHANGED <<stored, timeline, now, history>>

-----------------------------------------------------------------------------
\* An access to the store, the audit log or the timeline fails, and the handler
\* returns its error.
FailRequest(t) ==
    /\ task[t] # Idle
    /\ Goto(t, Idle)
    /\ UNCHANGED <<stored, visible, now, history>>

Crash ==
    /\ task' = [t \in Task |-> Idle]
    /\ UNCHANGED <<stored, visible, now, history>>

Tick ==
    /\ now < load.maxTime
    /\ now' = now + 1
    /\ UNCHANGED <<stored, visible, task, history>>

Init ==
    /\ load \in Loads
    /\ registry = {}
    /\ grant = DenyAll
    /\ version = 0
    /\ window = [a \in Agent |-> [x \in Tool |-> NoWindow]]
    /\ status = [c \in Call |-> "none"]
    /\ audit = {}
    /\ timeline = {}
    /\ now = 0
    /\ task = [t \in Task |-> Idle]
    /\ uses = [c \in Call |-> 0]
    /\ acked = {}
    /\ permits = [a \in Agent |-> [x \in Tool |-> <<>>]]

CallStep(t) == \/ \E a \in Agent, c \in Call : AdmitCall(t, a, c)
               \/ MediateCall(t)
               \/ ReadWindow(t)
               \/ WriteWindow(t)
               \/ AuditCall(t)
               \/ PostCall(t)
               \/ CloseGate(t)

ResultStep(t) == \/ \E a \in Agent, c \in Call : AdmitResult(t, a, c)
                 \/ CheckGate(t)
                 \/ PostResult(t)

ApprovalStep(t) == \/ \E c \in Call, ok \in BOOLEAN : AuditApproval(t, c, ok)
                   \/ DecideApproval(t)
                   \/ PostApproval(t)

OperatorStep(t) == \/ \E g \in load.grants : BeginGrant(t, g)
                   \/ InstallGrant(t)
                   \/ AuditGrant(t)
                   \/ \E a \in Agent : Provision(t, a) \/ Deprovision(t, a)
                   \/ AuditAgent(t)

\* In a serial room no request is served while another one is.
MayRun(t) == load.serial => \A u \in Task \ {t} : task[u] = Idle

Next == /\ UNCHANGED load
        /\ \/ \E t \in Task : /\ MayRun(t)
                               /\ \/ CallStep(t)
                                  \/ ResultStep(t)
                                  \/ ApprovalStep(t)
                                  \/ OperatorStep(t)
                                  \/ FailRequest(t)
           \/ Crash
           \/ Tick

Spec == Init /\ [][Next]_vars

-----------------------------------------------------------------------------
(* Properties *)

Decision == {"execute", "requires_approval", "denied"}
Request  == [call : Call, nth : Nat]

\* What the handler of a request keeps between two steps.
Job == [pc : {"idle"}]
       \cup [pc : {"admitted"}, agent : Agent, req : Request]
       \cup [pc : {"limited"}, agent : Agent, req : Request, decision : Decision,
             limit : Limit]
       \cup [pc : {"counted"}, agent : Agent, req : Request, decision : Decision,
             at : Nat, win : [start : Nat, count : Nat]]
       \cup [pc : {"audit", "post"}, agent : Agent, req : Request,
             decision : Decision]
       \cup [pc : {"gate"}, call : Call]
       \cup [pc : {"check", "result"}, call : Call, since : Since]
       \cup [pc : {"decide", "announce"}, call : Call, approved : BOOLEAN]
       \cup [pc : {"install"}, grant : Grant, version : Nat]
       \cup [pc : {"granted"}, version : Nat]
       \cup [pc : {"registered"}, agent : Agent]

\* Every variable holds a value of the kind the code gives it, and a handler has
\* between two steps what its next step needs.
TypeOK ==
    /\ load \in Loads
    /\ registry \subseteq Agent
    /\ grant \in Grant
    /\ version \in Nat
    /\ window \in [Agent -> [Tool -> Win]]
    /\ status \in [Call -> Approval]
    /\ now \in Nat
    /\ task \in [Task -> Job]
    /\ uses \in [Call -> Nat]
    /\ acked \subseteq Call
    /\ permits \in [Agent -> [Tool -> Seq(Nat)]]

\* What the room sees of an agent's calls and of the decisions on them is in the
\* audit log already, with a record of its own for every request, whatever fails
\* or crashes on the way.
AuditedFirst ==
    /\ \A e \in timeline : e.type = "tool_call" =>
          \E d \in {"execute", "requires_approval"} :
             CallRecord(e.agent, e.req, d) \in audit
    /\ \A c \in Call, ok \in BOOLEAN :
          ApprovalEvent(c, ok) \in timeline => ApprovalRecord(c, ok) \in audit

\* Once a call was answered "requires_approval", a result of it that is handed
\* in appears in the room only if a human approved the call.
GateHolds ==
    \A c \in Call : ResultEvent(c, "answered") \in timeline =>
                       ApprovalRecord(c, TRUE) \in audit

\* The rate limits that grants of the room give a tool.
Limits(tool) == {g.limit[tool] : g \in load.grants} \ {NoLimit}

\* The grants agree on the tool's window, and it is not empty (with_rate_limit
\* takes any number of seconds, 0 too).
Steady(tool) == \A l, m \in Limits(tool) :
                   l.window_secs = m.window_secs /\ l.window_secs > 0

\* The calls of q that passed after second s, or from it on.
Passed(q, s, from) == {i \in 1..Len(q) : q[i] > s \/ (from /\ q[i] = s)}

\* A window lets at most the number of calls pass that one of the grants allows,
\* if the requests come one after the other: the counter is read and written back
\* in two steps (rate_limit_exceeded).  A window that starts because the limit
\* was edited, or because it lasts 0 seconds, forgets the calls of the second it
\* starts in.
RateBound == load.serial =>
    \A a \in Agent, tool \in Tool :
        window[a][tool] # NoWindow =>
           \E l \in Limits(tool) :
              Cardinality(Passed(permits[a][tool], window[a][tool].start,
                                 Steady(tool))) <= l.max

\* The comment in handle_mcp_request: the result of a call that needs approval is
\* refused until a human decides, from the moment the call is in the room.
NeedsApproval ==
    \A c \in Call : \A since \in {"answered", "visible"} :
        ResultEvent(c, since) \in timeline => ApprovalRecord(c, TRUE) \in audit

=============================================================================
