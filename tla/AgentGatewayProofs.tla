------------------------- MODULE AgentGatewayProofs -------------------------
(***************************************************************************)
(* What the agentic gateway guarantees for every number of agents, calls,  *)
(* grants and concurrent requests, with failures and crashes anywhere.     *)
(***************************************************************************)
EXTENDS AgentGateway, FiniteSetTheorems, TLAPS

\* The policy decides on every tool.
LEMMA MediateType ==
    ASSUME NEW g \in Grant, NEW tool \in Tool
    PROVE  Mediate(g, tool) \in Decision
<1>1. g.scope \in BOOLEAN /\ g.action[tool] \in {"auto", "review", "forbidden", "none"}
  BY DEF Grant, ActionOf
<1>2. CASE ~g.scope
  BY <1>2 DEF Mediate, Decision
<1>3. CASE g.scope
  <2>1. CASE g.action[tool] \in {"none", "forbidden"}
    BY <1>3, <2>1 DEF Mediate, Decision
  <2>2. CASE g.action[tool] = "auto"
    BY <1>3, <2>2 DEF Mediate, Decision
  <2>3. CASE g.action[tool] = "review"
    BY <1>3, <2>3 DEF Mediate, Decision
  <2> QED BY <1>1, <2>1, <2>2, <2>3
<1> QED BY <1>1, <1>2, <1>3

\* The window in effect is a window.
LEMMA CurrentType ==
    ASSUME NEW w \in Win, NEW lim \in Limit, NEW s \in Nat
    PROVE  Current(w, lim, s) \in [start : Nat, count : Nat]
BY DEF Win, Current

\* One more call in a window.
LEMMA CountType ==
    ASSUME NEW w \in [start : Nat, count : Nat]
    PROVE  [w EXCEPT !.count = @ + 1] \in [start : Nat, count : Nat]
<1>1. w = [start |-> w.start, count |-> w.count] /\ w.start \in Nat /\ w.count \in Nat
  OBVIOUS
<1>2. [w EXCEPT !.count = @ + 1] = [start |-> w.start, count |-> w.count + 1]
  BY <1>1
<1> QED BY <1>1, <1>2

\* A room without a grant has a grant that allows nothing.
LEMMA DenyAllType == DenyAll \in Grant
BY DEF DenyAll, Grant, ActionOf

\* Whatever a reader sees of the grant is a grant and a version.
LEMMA GrantForType ==
    ASSUME TypeOK, NEW seen \in GrantFor
    PROVE  seen[1] \in Grant /\ seen[2] \in Nat
BY DenyAllType DEF GrantFor, TypeOK

\* The room is used in one way.
LEMMA LoadKept == [Next]_vars => UNCHANGED load
BY DEF Next, vars

\* What operators write are grants, and the versions they give are numbers.
LEMMA LoadType ==
    ASSUME TypeOK
    PROVE  load.grants \subseteq Grant /\ load.explicit \subseteq Nat
BY GatewayAssumption DEF TypeOK, Load

-----------------------------------------------------------------------------
(* Types *)

\* The types hold initially.
LEMMA TypeInit == Init => TypeOK
BY DenyAllType DEF Init, TypeOK, Idle, Job, Win, Approval

\* The steps of a request (call) keep the types.
LEMMA TypeCall ==
    ASSUME TypeOK, UNCHANGED load, NEW t \in Task, CallStep(t)
    PROVE  TypeOK'
<1> USE DEF TypeOK, stored, visible, history, Goto, Idle, Job, Request
<1>1. CASE \E a \in Agent, c \in Call : AdmitCall(t, a, c)
  BY <1>1 DEF AdmitCall
<1>2. CASE MediateCall(t)
  <2> DEFINE a    == task[t].agent
             req  == task[t].req
             tool == ToolOf[req.call]
  <2>1. a \in Agent /\ req \in Request /\ tool \in Tool
    BY <1>2, GatewayAssumption DEF MediateCall
  <2>2. PICK seen \in GrantFor :
           Goto(t, IF Mediate(seen[1], tool) # "denied" /\ seen[1].limit[tool] # NoLimit
                   THEN [pc |-> "limited", agent |-> a, req |-> req,
                         decision |-> Mediate(seen[1], tool),
                         limit |-> seen[1].limit[tool]]
                   ELSE CallJob("audit", a, req, Mediate(seen[1], tool)))
    BY <1>2 DEF MediateCall
  <2>3. Mediate(seen[1], tool) \in Decision
    BY <2>1, MediateType, GrantForType
  <2>4. seen[1].limit[tool] \in Limit \cup {NoLimit}
    BY <2>1, GrantForType DEF Grant
  <2> HIDE DEF a, req, tool
  <2>5. task' \in [Task -> Job]
    BY <2>1, <2>2, <2>3, <2>4 DEF CallJob
  <2> QED BY <1>2, <2>5 DEF MediateCall
<1>3. CASE ReadWindow(t)
  <2> DEFINE j == task[t]
             w == Current(window[j.agent][ToolOf[j.req.call]], j.limit, now)
  <2>1. /\ j.agent \in Agent /\ j.req \in Request /\ j.decision \in Decision
        /\ j.limit \in Limit
    BY <1>3 DEF ReadWindow
  <2>2. window[j.agent][ToolOf[j.req.call]] \in Win
    BY <2>1, GatewayAssumption
  <2>3. w \in [start : Nat, count : Nat]
    BY <2>1, <2>2, CurrentType
  <2>4. Goto(t, IF w.count >= j.limit.max
                THEN CallJob("audit", j.agent, j.req, "denied")
                ELSE [pc |-> "counted", agent |-> j.agent, req |-> j.req,
                      decision |-> j.decision,
                      at |-> now, win |-> [w EXCEPT !.count = @ + 1]])
    BY <1>3 DEF ReadWindow
  <2> HIDE DEF w, j
  <2> DEFINE u == [w EXCEPT !.count = @ + 1]
  <2>5. u \in [start : Nat, count : Nat]
    BY <2>3, CountType
  <2> HIDE DEF u
  <2>6. CallJob("audit", j.agent, j.req, "denied") \in Job
    BY <2>1 DEF CallJob, Decision
  <2>7. [pc |-> "counted", agent |-> j.agent, req |-> j.req,
         decision |-> j.decision, at |-> now, win |-> u] \in Job
    BY <2>1, <2>5
  <2> HIDE DEF Job
  <2>8. task' \in [Task -> Job]
    BY <2>4, <2>6, <2>7 DEF u
  <2> QED BY <1>3, <2>8 DEF ReadWindow
<1>4. CASE WriteWindow(t)
  <2> DEFINE j    == task[t]
             tool == ToolOf[j.req.call]
  <2>1. /\ j.agent \in Agent /\ j.req \in Request /\ j.decision \in Decision
        /\ j.at \in Nat /\ j.win \in Win
    BY <1>4 DEF WriteWindow, Win
  <2>2. tool \in Tool
    BY <2>1, GatewayAssumption
  <2>3. /\ window' = [window EXCEPT ![j.agent][tool] = j.win]
        /\ permits' = [permits EXCEPT ![j.agent][tool] = Append(@, j.at)]
        /\ Goto(t, CallJob("audit", j.agent, j.req, j.decision))
    BY <1>4 DEF WriteWindow
  <2> HIDE DEF j, tool
  <2>4. window' \in [Agent -> [Tool -> Win]]
    BY <2>1, <2>2, <2>3
  <2>5. permits' \in [Agent -> [Tool -> Seq(Nat)]]
    <3>1. permits[j.agent][tool] \in Seq(Nat)
      BY <2>1, <2>2
    <3>2. Append(permits[j.agent][tool], j.at) \in Seq(Nat)
      BY <2>1, <3>1
    <3> QED BY <2>1, <2>2, <2>3, <3>2
  <2>6. task' \in [Task -> Job]
    BY <2>1, <2>3 DEF CallJob
  <2> QED BY <1>4, <2>4, <2>5, <2>6 DEF WriteWindow
<1>5. CASE AuditCall(t)
  BY <1>5 DEF AuditCall, CallJob
<1>6. CASE PostCall(t)
  BY <1>6 DEF PostCall, CallJob
<1>7. CASE CloseGate(t)
  BY <1>7 DEF CloseGate, Approval
<1> QED BY <1>1, <1>2, <1>3, <1>4, <1>5, <1>6, <1>7 DEF CallStep

\* The steps of a request (result) keep the types.
LEMMA TypeResult ==
    ASSUME TypeOK, UNCHANGED load, NEW t \in Task, ResultStep(t)
    PROVE  TypeOK'
<1> USE DEF TypeOK, stored, visible, history, Goto, Idle, Job, Request
<1>1. CASE \E a \in Agent, c \in Call : AdmitResult(t, a, c)
  BY <1>1 DEF AdmitResult, Since
<1>2. CASE CheckGate(t)
  BY <1>2 DEF CheckGate
<1>3. CASE PostResult(t)
  BY <1>3 DEF PostResult
<1> QED BY <1>1, <1>2, <1>3 DEF ResultStep

\* The steps of a request (approval) keep the types.
LEMMA TypeApproval ==
    ASSUME TypeOK, UNCHANGED load, NEW t \in Task, ApprovalStep(t)
    PROVE  TypeOK'
<1> USE DEF TypeOK, stored, visible, history, Goto, Idle, Job, Request
<1>1. CASE \E c \in Call, ok \in BOOLEAN : AuditApproval(t, c, ok)
  BY <1>1 DEF AuditApproval
<1>2. CASE DecideApproval(t)
  BY <1>2 DEF DecideApproval, Approval
<1>3. CASE PostApproval(t)
  BY <1>3 DEF PostApproval
<1> QED BY <1>1, <1>2, <1>3 DEF ApprovalStep

\* The steps of a request (operator) keep the types.
LEMMA TypeOperator ==
    ASSUME TypeOK, UNCHANGED load, NEW t \in Task, OperatorStep(t)
    PROVE  TypeOK'
<1> USE DEF TypeOK, stored, visible, history, Goto, Idle, Job, Request
<1>1. CASE \E g \in load.grants : BeginGrant(t, g)
  <2>1. PICK g \in load.grants : BeginGrant(t, g)
    BY <1>1
  <2>2. PICK n \in {seen[2] + 1 : seen \in GrantFor} \cup load.explicit :
           Goto(t, [pc |-> "install", grant |-> g, version |-> n])
    BY <2>1 DEF BeginGrant
  <2>3. n \in Nat
    <3>1. CASE n \in load.explicit
      BY <3>1, LoadType
    <3>2. CASE n \in {seen[2] + 1 : seen \in GrantFor}
      <4>1. PICK seen \in GrantFor : n = seen[2] + 1
        BY <3>2
      <4>2. seen[2] \in Nat
        BY GrantForType
      <4> QED BY <4>1, <4>2
    <3> QED BY <2>2, <3>1, <3>2
  <2>4. g \in Grant
    BY LoadType
  <2>5. task' \in [Task -> Job]
    BY <2>2, <2>3, <2>4
  <2> QED BY <2>1, <2>5 DEF BeginGrant
<1>2. CASE InstallGrant(t)
  BY <1>2 DEF InstallGrant
<1>3. CASE AuditGrant(t)
  BY <1>3 DEF AuditGrant
<1>4. CASE \E a \in Agent : Provision(t, a)
  BY <1>4 DEF Provision
<1>5. CASE \E a \in Agent : Deprovision(t, a)
  BY <1>5 DEF Deprovision
<1>6. CASE AuditAgent(t)
  BY <1>6 DEF AuditAgent
<1> QED BY <1>1, <1>2, <1>3, <1>4, <1>5, <1>6 DEF OperatorStep

\* Every step keeps the types.
LEMMA TypeStep == TypeOK /\ [Next]_vars => TypeOK'
<1> SUFFICES ASSUME TypeOK, [Next]_vars PROVE TypeOK'
  OBVIOUS
<1>0. UNCHANGED load
  BY LoadKept
<1>1. ASSUME NEW t \in Task, CallStep(t) \/ ResultStep(t) PROVE TypeOK'
  BY <1>0, <1>1, TypeCall, TypeResult
<1>2. ASSUME NEW t \in Task, ApprovalStep(t) \/ OperatorStep(t) PROVE TypeOK'
  BY <1>0, <1>2, TypeApproval, TypeOperator
<1>3. ASSUME NEW t \in Task, FailRequest(t) PROVE TypeOK'
  BY <1>0, <1>3 DEF FailRequest, TypeOK, stored, visible, history, Goto, Idle, Job
<1>4. CASE Crash
  BY <1>0, <1>4 DEF Crash, TypeOK, stored, visible, history, Idle, Job
<1>5. CASE Tick
  BY <1>0, <1>5 DEF Tick, TypeOK, stored, visible, history
<1>6. CASE UNCHANGED vars
  BY <1>6 DEF vars, TypeOK, stored, visible, history
<1> QED BY <1>1, <1>2, <1>3, <1>4, <1>5, <1>6 DEF Next

\* A handler of the gateway has between two steps what its next step needs.
THEOREM GatewayTypeCorrect == Spec => []TypeOK
BY TypeInit, TypeStep, PTL DEF Spec

-----------------------------------------------------------------------------
(* The audit log comes first *)

\* What a handler is about to post is audited.
Recorded ==
    /\ AuditedFirst
    /\ \A t \in Task : task[t].pc = "post" =>
          /\ task[t].decision \in {"execute", "requires_approval"}
          /\ CallRecord(task[t].agent, task[t].req, task[t].decision) \in audit
    /\ \A t \in Task : task[t].pc \in {"decide", "announce"} =>
          ApprovalRecord(task[t].call, task[t].approved) \in audit

\* The steps of a request (call) post only what is audited.
LEMMA RecordedCall ==
    ASSUME TypeOK, Recorded, NEW t \in Task, CallStep(t)
    PROVE  Recorded'
<1> USE DEF TypeOK, Recorded, AuditedFirst, stored, visible, history, Goto, Idle
<1>1. CASE \E a \in Agent, c \in Call : AdmitCall(t, a, c)
  BY <1>1 DEF AdmitCall
<1>2. CASE MediateCall(t)
  <2>1. PICK job : task' = [task EXCEPT ![t] = job] /\ job.pc \in {"limited", "audit"}
    <3> HIDE DEF TypeOK, Recorded, AuditedFirst
    <3>1. PICK d, lim :
            task' = [task EXCEPT ![t] =
                       IF d # "denied" /\ lim # NoLimit
                       THEN [pc |-> "limited", agent |-> task[t].agent,
                             req |-> task[t].req, decision |-> d, limit |-> lim]
                       ELSE CallJob("audit", task[t].agent, task[t].req, d)]
      BY <1>2 DEF MediateCall
    <3>2. PICK job :
            job = IF d # "denied" /\ lim # NoLimit
                  THEN [pc |-> "limited", agent |-> task[t].agent,
                        req |-> task[t].req, decision |-> d, limit |-> lim]
                  ELSE CallJob("audit", task[t].agent, task[t].req, d)
      OBVIOUS
    <3>3. job.pc \in {"limited", "audit"}
      BY <3>2 DEF CallJob
    <3> QED
      BY <3>1, <3>2, <3>3
  <2>2. UNCHANGED <<audit, timeline>>
    BY <1>2 DEF MediateCall
  <2> QED
    BY <2>1, <2>2
<1>3. CASE ReadWindow(t)
  BY <1>3 DEF ReadWindow, CallJob
<1>4. CASE WriteWindow(t)
  BY <1>4 DEF WriteWindow, CallJob
<1>5. CASE AuditCall(t)
  BY <1>5 DEF AuditCall, CallJob, Job, Decision
<1>6. CASE PostCall(t)
  BY <1>6 DEF PostCall, CallEvent, ApprovalEvent, Job
<1>7. CASE CloseGate(t)
  BY <1>7 DEF CloseGate
<1> QED BY <1>1, <1>2, <1>3, <1>4, <1>5, <1>6, <1>7 DEF CallStep

\* The steps of a request (result) post only what is audited.
LEMMA RecordedResult ==
    ASSUME TypeOK, Recorded, NEW t \in Task, ResultStep(t)
    PROVE  Recorded'
<1> USE DEF TypeOK, Recorded, AuditedFirst, stored, visible, history, Goto, Idle
<1>1. CASE \E a \in Agent, c \in Call : AdmitResult(t, a, c)
  BY <1>1 DEF AdmitResult
<1>2. CASE CheckGate(t)
  BY <1>2 DEF CheckGate
<1>3. CASE PostResult(t)
  BY <1>3 DEF PostResult, ResultEvent, ApprovalEvent
<1> QED BY <1>1, <1>2, <1>3 DEF ResultStep

\* The steps of a request (approval) post only what is audited.
LEMMA RecordedApproval ==
    ASSUME TypeOK, Recorded, NEW t \in Task, ApprovalStep(t)
    PROVE  Recorded'
<1> USE DEF TypeOK, Recorded, AuditedFirst, stored, visible, history, Goto, Idle
<1>1. CASE \E c \in Call, ok \in BOOLEAN : AuditApproval(t, c, ok)
  BY <1>1 DEF AuditApproval, ApprovalRecord
<1>2. CASE DecideApproval(t)
  BY <1>2 DEF DecideApproval, Job
<1>3. CASE PostApproval(t)
  BY <1>3 DEF PostApproval, ApprovalEvent, Job
<1> QED BY <1>1, <1>2, <1>3 DEF ApprovalStep

\* The steps of a request (operator) post only what is audited.
LEMMA RecordedOperator ==
    ASSUME TypeOK, Recorded, NEW t \in Task, OperatorStep(t)
    PROVE  Recorded'
<1> USE DEF TypeOK, Recorded, AuditedFirst, stored, visible, history, Goto, Idle
<1>1. CASE \E g \in load.grants : BeginGrant(t, g)
  BY <1>1 DEF BeginGrant
<1>2. CASE InstallGrant(t)
  BY <1>2 DEF InstallGrant
<1>3. CASE AuditGrant(t)
  BY <1>3 DEF AuditGrant
<1>4. CASE \E a \in Agent : Provision(t, a)
  BY <1>4 DEF Provision
<1>5. CASE \E a \in Agent : Deprovision(t, a)
  BY <1>5 DEF Deprovision
<1>6. CASE AuditAgent(t)
  BY <1>6 DEF AuditAgent
<1> QED BY <1>1, <1>2, <1>3, <1>4, <1>5, <1>6 DEF OperatorStep

\* Every step posts only what is audited.
LEMMA RecordedStep == TypeOK /\ Recorded /\ [Next]_vars => Recorded'
<1> SUFFICES ASSUME TypeOK, Recorded, [Next]_vars PROVE Recorded'
  OBVIOUS
<1>1. ASSUME NEW t \in Task, CallStep(t) \/ ResultStep(t) PROVE Recorded'
  BY <1>1, RecordedCall, RecordedResult
<1>2. ASSUME NEW t \in Task, ApprovalStep(t) \/ OperatorStep(t) PROVE Recorded'
  BY <1>2, RecordedApproval, RecordedOperator
<1> USE DEF TypeOK, Recorded, AuditedFirst, stored, visible, history
<1>3. ASSUME NEW t \in Task, FailRequest(t) PROVE Recorded'
  BY <1>3 DEF FailRequest, Goto, Idle
<1>4. CASE Crash
  BY <1>4 DEF Crash, Idle
<1>5. CASE Tick
  BY <1>5 DEF Tick
<1>6. CASE UNCHANGED vars
  BY <1>6 DEF vars
<1> QED BY <1>1, <1>2, <1>3, <1>4, <1>5, <1>6 DEF Next

\* The room never sees a call or a decision that the audit log does not have, for
\* every number of concurrent requests and with failures and crashes anywhere.
THEOREM AuditComesFirst == Spec => []AuditedFirst
<1>1. Init => Recorded
  BY DEF Init, Recorded, AuditedFirst, Idle
<1>2. Recorded => AuditedFirst
  BY DEF Recorded
<1> QED BY <1>1, <1>2, RecordedStep, GatewayTypeCorrect, PTL DEF Spec

-----------------------------------------------------------------------------
(* The gate *)

\* A call that was answered "requires_approval" has a status for good, and only an
\* audited approval opens it.
Gated ==
    /\ GateHolds
    /\ \A c \in acked : status[c] # "none"
    /\ \A c \in Call : status[c] = "approved" => ApprovalRecord(c, TRUE) \in audit
    /\ \A t \in Task : task[t].pc = "check" /\ task[t].since = "answered" =>
          task[t].call \in acked
    /\ \A t \in Task : task[t].pc = "result" /\ task[t].since = "answered" =>
          ApprovalRecord(task[t].call, TRUE) \in audit

\* A step that leaves the gate, the answers and the room alone keeps the gate,
\* unless it hands in a result.
LEMMA GatedFrame ==
    ASSUME TypeOK, Gated, NEW t \in Task, NEW job, Goto(t, job),
           job.pc \notin {"check", "result"},
           UNCHANGED <<status, acked, timeline>>, audit \subseteq audit'
    PROVE  Gated'
<1>1. /\ task'[t] = job
      /\ \A u \in Task : u # t => task'[u] = task[u]
  BY DEF TypeOK, Goto
<1>2. GateHolds'
  BY DEF Gated, GateHolds
<1>3. \A c \in acked' : status'[c] # "none"
  BY DEF Gated
<1>4. \A c \in Call : status'[c] = "approved" => ApprovalRecord(c, TRUE) \in audit'
  BY DEF Gated
<1>5. \A u \in Task : task'[u].pc = "check" /\ task'[u].since = "answered" =>
         task'[u].call \in acked'
  BY <1>1 DEF Gated
<1>6. \A u \in Task : task'[u].pc = "result" /\ task'[u].since = "answered" =>
         ApprovalRecord(task'[u].call, TRUE) \in audit'
  BY <1>1 DEF Gated
<1> QED BY <1>2, <1>3, <1>4, <1>5, <1>6 DEF Gated

\* The steps of a request (call) keep the gate.
LEMMA GatedCall ==
    ASSUME TypeOK, Recorded, Gated, NEW t \in Task, CallStep(t)
    PROVE  Gated'
<1> USE DEF TypeOK, Gated, GateHolds, stored, visible, history, Goto, Idle
<1>1. CASE \E a \in Agent, c \in Call : AdmitCall(t, a, c)
  <2> HIDE DEF TypeOK, Gated, Goto, GateHolds
  <2>1. PICK a \in Agent, c \in Call : AdmitCall(t, a, c)
    BY <1>1
  <2> QED BY <2>1, GatedFrame DEF AdmitCall
<1>2. CASE MediateCall(t)
  <2> HIDE DEF TypeOK, Gated, Goto, GateHolds
  <2>1. PICK job : Goto(t, job) /\ job.pc \in {"limited", "audit"}
    BY <1>2 DEF MediateCall, CallJob
  <2> QED BY <1>2, <2>1, GatedFrame DEF MediateCall
<1>3. CASE ReadWindow(t)
  BY <1>3 DEF ReadWindow, CallJob
<1>4. CASE WriteWindow(t)
  BY <1>4 DEF WriteWindow, CallJob
<1>5. CASE AuditCall(t)
  BY <1>5 DEF AuditCall, CallJob
<1>6. CASE PostCall(t)
  BY <1>6 DEF PostCall, CallEvent, ResultEvent, CallJob
<1>7. CASE CloseGate(t)
  BY <1>7 DEF CloseGate, Job
<1> QED BY <1>1, <1>2, <1>3, <1>4, <1>5, <1>6, <1>7 DEF CallStep

\* The steps of a request (result) keep the gate.
LEMMA GatedResult ==
    ASSUME TypeOK, Recorded, Gated, NEW t \in Task, ResultStep(t)
    PROVE  Gated'
<1> USE DEF TypeOK, Gated, GateHolds, stored, visible, history, Goto, Idle
<1>1. CASE \E a \in Agent, c \in Call : AdmitResult(t, a, c)
  <2>1. PICK a \in Agent, c \in Call : AdmitResult(t, a, c)
    BY <1>1
  <2>2. /\ task'[t].pc = "check" /\ task'[t].call = c
        /\ task'[t].since = "answered" => c \in acked
        /\ \A u \in Task : u # t => task'[u] = task[u]
        /\ UNCHANGED <<status, acked, audit, timeline>>
    BY <2>1 DEF AdmitResult
  <2>3. GateHolds'
    BY <2>2
  <2> QED BY <2>2, <2>3
<1>2. CASE CheckGate(t)
  BY <1>2 DEF CheckGate, Job, Approval
<1>3. CASE PostResult(t)
  BY <1>3 DEF PostResult, ResultEvent, Job
<1> QED BY <1>1, <1>2, <1>3 DEF ResultStep

\* The steps of a request (approval) keep the gate.
LEMMA GatedApproval ==
    ASSUME TypeOK, Recorded, Gated, NEW t \in Task, ApprovalStep(t)
    PROVE  Gated'
<1> USE DEF TypeOK, Gated, GateHolds, stored, visible, history, Goto, Idle
<1>1. CASE \E c \in Call, ok \in BOOLEAN : AuditApproval(t, c, ok)
  <2> HIDE DEF TypeOK, Gated, Goto, GateHolds
  <2>1. PICK c \in Call, ok \in BOOLEAN : AuditApproval(t, c, ok)
    BY <1>1
  <2> QED BY <2>1, GatedFrame DEF AuditApproval
<1>2. CASE DecideApproval(t)
  BY <1>2 DEF DecideApproval, Recorded, Job
<1>3. CASE PostApproval(t)
  BY <1>3 DEF PostApproval, ApprovalEvent, ResultEvent
<1> QED BY <1>1, <1>2, <1>3 DEF ApprovalStep

\* The steps of a request (operator) keep the gate.
LEMMA GatedOperator ==
    ASSUME TypeOK, Recorded, Gated, NEW t \in Task, OperatorStep(t)
    PROVE  Gated'
<1> USE DEF TypeOK, Gated, GateHolds, stored, visible, history, Goto, Idle
<1>1. CASE \E g \in load.grants : BeginGrant(t, g)
  <2> HIDE DEF TypeOK, Gated, Goto, GateHolds
  <2>1. PICK g \in load.grants : BeginGrant(t, g)
    BY <1>1
  <2>2. PICK n : Goto(t, [pc |-> "install", grant |-> g, version |-> n])
    BY <2>1 DEF BeginGrant
  <2> QED BY <2>1, <2>2, GatedFrame DEF BeginGrant
<1>2. CASE InstallGrant(t)
  BY <1>2 DEF InstallGrant
<1>3. CASE AuditGrant(t)
  BY <1>3 DEF AuditGrant
<1>4. CASE \E a \in Agent : Provision(t, a)
  <2> HIDE DEF TypeOK, Gated, Goto, GateHolds
  <2>1. PICK a \in Agent : Provision(t, a)
    BY <1>4
  <2> QED BY <2>1, GatedFrame DEF Provision
<1>5. CASE \E a \in Agent : Deprovision(t, a)
  <2> HIDE DEF TypeOK, Gated, Goto, GateHolds
  <2>1. PICK a \in Agent : Deprovision(t, a)
    BY <1>5
  <2> QED BY <2>1, GatedFrame DEF Deprovision
<1>6. CASE AuditAgent(t)
  BY <1>6 DEF AuditAgent
<1> QED BY <1>1, <1>2, <1>3, <1>4, <1>5, <1>6 DEF OperatorStep

\* Every step keeps the gate.
LEMMA GatedStep == TypeOK /\ Recorded /\ Gated /\ [Next]_vars => Gated'
<1> SUFFICES ASSUME TypeOK, Recorded, Gated, [Next]_vars PROVE Gated'
  OBVIOUS
<1>1. ASSUME NEW t \in Task, CallStep(t) \/ ResultStep(t) PROVE Gated'
  BY <1>1, GatedCall, GatedResult
<1>2. ASSUME NEW t \in Task, ApprovalStep(t) \/ OperatorStep(t) PROVE Gated'
  BY <1>2, GatedApproval, GatedOperator
<1> USE DEF TypeOK, Gated, GateHolds, stored, visible, history
<1>3. ASSUME NEW t \in Task, FailRequest(t) PROVE Gated'
  BY <1>3 DEF FailRequest, Goto, Idle
<1>4. CASE Crash
  BY <1>4 DEF Crash, Idle
<1>5. CASE Tick
  BY <1>5 DEF Tick
<1>6. CASE UNCHANGED vars
  BY <1>6 DEF vars
<1> QED BY <1>1, <1>2, <1>3, <1>4, <1>5, <1>6 DEF Next

\* A call that was answered "requires_approval" has no result in the room without
\* an audited approval, whatever else runs at the same time.
THEOREM GateNeverOpens == Spec => []GateHolds
<1>1. Init => Recorded /\ Gated
  BY DEF Init, Recorded, AuditedFirst, Gated, GateHolds, Idle
<1>2. Gated => GateHolds
  BY DEF Gated
<1> QED BY <1>1, <1>2, RecordedStep, GatedStep, GatewayTypeCorrect, PTL DEF Spec

-----------------------------------------------------------------------------
(* Rate limits *)

\* Of the calls q, the window w of a tool counts all, and more besides, that
\* passed since it started; its count is within a limit, and as long as the
\* window's length is not edited none of them is later than the window.
Bounded(q, w, tool, more) ==
    /\ w.start <= now
    /\ Cardinality(Passed(q, w.start, Steady(tool))) + more <= w.count
    /\ \E l \in Limits(tool) : w.count <= l.max
    /\ Steady(tool) => \A i \in 1..Len(q), l \in Limits(tool) :
                          q[i] - w.start < l.window_secs

\* What a request keeps comes from the operators' grants, and a window that is
\* about to be written has one more call than have passed.
MeteredJob(j) ==
    /\ j.pc = "install" => j.grant \in load.grants
    /\ j.pc = "limited" => j.limit \in Limits(ToolOf[j.req.call])
    /\ j.pc = "counted" =>
          LET tool == ToolOf[j.req.call]
          IN  /\ j.at <= now
              /\ Bounded(permits[j.agent][tool], j.win, tool, 1)
              /\ Steady(tool) => \A l \in Limits(tool) :
                                    j.at - j.win.start < l.window_secs

\* No call has passed later than now, and the stored window bounds those that did.
MeteredWindow(a, tool) ==
    /\ \A i \in 1..Len(permits[a][tool]) : permits[a][tool][i] <= now
    /\ window[a][tool] = NoWindow => permits[a][tool] = <<>>
    /\ window[a][tool] # NoWindow =>
          Bounded(permits[a][tool], window[a][tool], tool, 0)

Metered == load.serial =>
    /\ grant \in load.grants \cup {DenyAll}
    /\ \A t \in Task : MeteredJob(task[t])
    /\ \A a \in Agent, tool \in Tool : MeteredWindow(a, tool)

\* The calls of a window are finitely many, and one more call adds at most one.
LEMMA PassedAppend ==
    ASSUME NEW q \in Seq(Nat), NEW s \in Nat, NEW from \in BOOLEAN, NEW v \in Nat
    PROVE  /\ Cardinality(Passed(q, s, from)) \in Nat
           /\ Cardinality(Passed(Append(q, v), s, from)) \in Nat
           /\ Cardinality(Passed(Append(q, v), s, from))
                <= Cardinality(Passed(q, s, from)) + 1
<1> DEFINE S == Passed(q, s, from)
           T == Passed(Append(q, v), s, from)
           n == Len(q) + 1
<1>1. Len(q) \in Nat /\ Len(Append(q, v)) = n
      /\ \A i \in 1..Len(q) : Append(q, v)[i] = q[i]
  OBVIOUS
<1>2. S \subseteq 1..Len(q)
  BY DEF Passed
<1>3. IsFiniteSet(S)
  <2>1. IsFiniteSet(1..Len(q))
    BY <1>1, FS_Interval
  <2> HIDE DEF S
  <2> QED BY <1>2, <2>1, FS_Subset
<1>4. T \subseteq S \cup {n}
  BY <1>1 DEF Passed
<1>5. /\ IsFiniteSet(S \cup {n})
      /\ Cardinality(S \cup {n}) = IF n \in S THEN Cardinality(S) ELSE Cardinality(S) + 1
  BY <1>3, FS_AddElement
<1>6. Cardinality(S) \in Nat
  BY <1>3, FS_CardinalityType
<1> HIDE DEF S, T, n
<1>7. IsFiniteSet(T) /\ Cardinality(T) <= Cardinality(S \cup {n})
  BY <1>4, <1>5, FS_Subset
<1>8. Cardinality(T) \in Nat
  BY <1>7, FS_CardinalityType
<1> QED BY <1>5, <1>6, <1>7, <1>8 DEF S, T

\* No call passed in a window that starts later than all of them.
LEMMA PassedNone ==
    ASSUME NEW q \in Seq(Nat), NEW s \in Nat, NEW from \in BOOLEAN,
           \A i \in 1..Len(q) : IF from THEN q[i] < s ELSE q[i] <= s
    PROVE  Cardinality(Passed(q, s, from)) = 0
<1>1. \A i \in 1..Len(q) : q[i] \in Nat
  OBVIOUS
<1>2. Passed(q, s, from) = {}
  BY <1>1 DEF Passed
<1> QED BY <1>2, FS_EmptySet

\* The limits of a tool are limits.
LEMMA LimitsType ==
    ASSUME TypeOK, NEW tool \in Tool
    PROVE  Limits(tool) \subseteq Limit /\ Steady(tool) \in BOOLEAN
<1>1. ASSUME NEW l \in Limits(tool) PROVE l \in Limit
  <2>1. PICK g \in load.grants : l = g.limit[tool] /\ l # NoLimit
    BY DEF Limits
  <2>2. g \in Grant
    BY LoadType
  <2> QED BY <2>1, <2>2 DEF Grant
<1> QED BY <1>1 DEF Steady

\* The window that a call is counted in has room for the calls that passed in it.
LEMMA CurrentBounded ==
    ASSUME TypeOK, NEW a \in Agent, NEW tool \in Tool, MeteredWindow(a, tool),
           NEW lim \in Limits(tool), NEW w, w = Current(window[a][tool], lim, now)
    PROVE  /\ w.start <= now
           /\ Cardinality(Passed(permits[a][tool], w.start, Steady(tool))) <= w.count
           /\ Steady(tool) => \A l \in Limits(tool) :
                 /\ now - w.start < l.window_secs
                 /\ \A i \in 1..Len(permits[a][tool]) :
                       permits[a][tool][i] - w.start < l.window_secs
<1> DEFINE old == window[a][tool]
           q   == permits[a][tool]
<1>1. q \in Seq(Nat) /\ old \in Win /\ now \in Nat /\ \A i \in 1..Len(q) : q[i] \in Nat
  BY DEF TypeOK
<1>2. Steady(tool) \in BOOLEAN /\ \A l \in Limits(tool) : l.window_secs \in Nat
  BY LimitsType DEF Limit
<1>3. \A i \in 1..Len(q) : q[i] <= now
  BY DEF MeteredWindow
<1>4. Steady(tool) => \A l \in Limits(tool) :
                         l.window_secs = lim.window_secs /\ l.window_secs > 0
  BY DEF Steady
<1>5. CASE old = NoWindow
  <2>1. w.start = now /\ w.count = 0 /\ q = <<>>
    BY <1>5 DEF MeteredWindow, Current
  <2> HIDE DEF q
  <2>2. Cardinality(Passed(q, now, Steady(tool))) = 0
    <3>1. \A i \in 1..Len(q) : IF Steady(tool) THEN q[i] < now ELSE q[i] <= now
      BY <2>1
    <3> QED BY <1>1, <1>2, <3>1, PassedNone
  <2>3. Steady(tool) => \A l \in Limits(tool) :
           /\ now - now < l.window_secs
           /\ \A i \in 1..Len(q) : q[i] - now < l.window_secs
    BY <1>1, <1>2, <1>4, <2>1
  <2> QED BY <1>1, <2>1, <2>2, <2>3 DEF q
<1>6. CASE old # NoWindow /\ now - old.start >= lim.window_secs
  <2>1. w.start = now /\ w.count = 0 /\ Bounded(q, old, tool, 0)
    BY <1>6 DEF MeteredWindow, Current
  <2>2. old.start \in Nat
    BY <1>1, <1>6 DEF Win
  <2> HIDE DEF q, old
  <2>3. \A i \in 1..Len(q) : IF Steady(tool) THEN q[i] < now ELSE q[i] <= now
    <3> SUFFICES ASSUME NEW i \in 1..Len(q), Steady(tool) PROVE q[i] < now
      BY <1>3
    <3>1. q[i] - old.start < lim.window_secs
      BY <2>1 DEF Bounded
    <3> QED BY <1>1, <1>2, <1>6, <2>2, <3>1
  <2>4. Cardinality(Passed(q, now, Steady(tool))) = 0
    BY <1>1, <1>2, <2>3, PassedNone
  <2>5. Steady(tool) => \A l \in Limits(tool) :
           /\ now - now < l.window_secs
           /\ \A i \in 1..Len(q) : q[i] - now < l.window_secs
    BY <1>1, <1>2, <1>3, <1>4
  <2> QED BY <1>1, <2>1, <2>4, <2>5 DEF q
<1>7. CASE old # NoWindow /\ ~(now - old.start >= lim.window_secs)
  <2>1. w = old /\ Bounded(q, old, tool, 0)
    BY <1>7 DEF MeteredWindow, Current
  <2>2. old.start \in Nat /\ old.count \in Nat
    BY <1>1, <1>7 DEF Win
  <2>3. Cardinality(Passed(q, old.start, Steady(tool))) \in Nat
    BY <1>1, <1>2, <2>2, PassedAppend
  <2> HIDE DEF q, old
  <2>4. Steady(tool) => \A l \in Limits(tool) : now - old.start < l.window_secs
    BY <1>1, <1>2, <1>4, <1>7, <2>2
  <2> QED BY <2>1, <2>2, <2>3, <2>4 DEF Bounded, q
<1> QED BY <1>5, <1>6, <1>7

\* A request takes a step: the others are idle, and what it keeps is metered.
LEMMA MeteredFrame ==
    ASSUME TypeOK, Metered, load.serial, UNCHANGED <<load, window, permits, now>>,
           NEW t \in Task, MayRun(t), NEW job, Goto(t, job), MeteredJob(job),
           grant' \in load.grants \cup {DenyAll}
    PROVE  Metered'
<1>1. /\ task'[t] = job
      /\ \A u \in Task : u # t => task'[u] = Idle
  BY DEF TypeOK, Goto, MayRun
<1>2. \A j : MeteredJob(j) => MeteredJob(j)'
  BY DEF MeteredJob, Bounded, Limits, Steady
<1>3. MeteredJob(Idle)
  BY DEF MeteredJob, Idle
<1>4. \A u \in Task : MeteredJob(task'[u])
  BY <1>1, <1>3
<1>5. \A u \in Task : MeteredJob(task[u])'
  <2> SUFFICES ASSUME NEW u \in Task PROVE MeteredJob(task[u])'
    OBVIOUS
  <2>1. PICK j : j = task'[u]
    OBVIOUS
  <2>2. MeteredJob(j)'
    BY <1>2, <1>4, <2>1
  <2> QED BY <2>1, <2>2 DEF MeteredJob
<1>6. \A a \in Agent, tool \in Tool : MeteredWindow(a, tool)'
  BY DEF Metered, MeteredWindow, Bounded, Limits, Steady
<1> QED BY <1>5, <1>6 DEF Metered

\* The steps of a call are metered.
LEMMA MeteredCall ==
    ASSUME TypeOK, Metered, load.serial, UNCHANGED load, NEW t \in Task, MayRun(t),
           CallStep(t)
    PROVE  Metered'
<1>0. /\ grant \in load.grants \cup {DenyAll}
      /\ \A u \in Task : MeteredJob(task[u])
      /\ \A a \in Agent, tool \in Tool : MeteredWindow(a, tool)
  BY DEF Metered
<1> USE DEF stored, visible, history
<1>1. ASSUME NEW job, Goto(t, job), job.pc \notin {"install", "limited", "counted"},
             UNCHANGED <<window, permits, now, grant>>
      PROVE  Metered'
  <2>1. MeteredJob(job)
    BY <1>1 DEF MeteredJob
  <2> QED BY <1>0, <1>1, <2>1, MeteredFrame
<1>2. CASE \E a \in Agent, c \in Call : AdmitCall(t, a, c)
  <2>1. PICK a \in Agent, c \in Call : AdmitCall(t, a, c)
    BY <1>2
  <2> QED BY <1>1, <2>1 DEF AdmitCall
<1>3. CASE MediateCall(t)
  <2>1. PICK a, req, tool : /\ a = task[t].agent /\ req = task[t].req
                            /\ tool = ToolOf[req.call]
    OBVIOUS
  <2>2. tool \in Tool
    BY <1>3, <2>1, GatewayAssumption DEF MediateCall, TypeOK, Job, Request
  <2>3. PICK seen \in GrantFor :
           Goto(t, IF Mediate(seen[1], tool) # "denied" /\ seen[1].limit[tool] # NoLimit
                   THEN [pc |-> "limited", agent |-> a, req |-> req,
                         decision |-> Mediate(seen[1], tool),
                         limit |-> seen[1].limit[tool]]
                   ELSE CallJob("audit", a, req, Mediate(seen[1], tool)))
    BY <1>3, <2>1 DEF MediateCall
  <2>4. UNCHANGED <<window, permits, now, grant>>
    BY <1>3 DEF MediateCall
  <2>5. seen[1] \in load.grants \cup {DenyAll}
    BY <1>0 DEF GrantFor
  <2>6. CASE Mediate(seen[1], tool) # "denied" /\ seen[1].limit[tool] # NoLimit
    <3>1. PICK job : job = [pc |-> "limited", agent |-> a, req |-> req,
                            decision |-> Mediate(seen[1], tool),
                            limit |-> seen[1].limit[tool]]
      OBVIOUS
    <3>2. seen[1] \in load.grants
      BY <2>2, <2>5, <2>6 DEF DenyAll
    <3>3. MeteredJob(job)
      BY <2>1, <2>6, <3>1, <3>2 DEF MeteredJob, Limits
    <3>4. Goto(t, job)
      BY <2>3, <2>6, <3>1
    <3> QED BY <1>0, <2>4, <3>3, <3>4, MeteredFrame
  <2>7. CASE ~(Mediate(seen[1], tool) # "denied" /\ seen[1].limit[tool] # NoLimit)
    <3>1. PICK job : job = CallJob("audit", a, req, Mediate(seen[1], tool))
      OBVIOUS
    <3>2. job.pc = "audit" /\ Goto(t, job)
      BY <2>3, <2>7, <3>1 DEF CallJob
    <3> QED BY <1>1, <2>4, <3>2
  <2> QED BY <2>6, <2>7
<1>4. CASE ReadWindow(t)
  <2>1. PICK j, tool, w : /\ j = task[t] /\ tool = ToolOf[j.req.call]
                          /\ w = Current(window[j.agent][tool], j.limit, now)
    OBVIOUS
  <2>2. /\ j.pc = "limited" /\ j.agent \in Agent /\ tool \in Tool /\ j.limit \in Limit
        /\ j.limit \in Limits(tool)
    BY <1>0, <1>4, <2>1, GatewayAssumption
       DEF ReadWindow, TypeOK, Job, Request, MeteredJob
  <2>3. UNCHANGED <<window, permits, now, grant>>
    BY <1>4 DEF ReadWindow
  <2>4. Goto(t, IF w.count >= j.limit.max
                THEN CallJob("audit", j.agent, j.req, "denied")
                ELSE [pc |-> "counted", agent |-> j.agent, req |-> j.req,
                      decision |-> j.decision,
                      at |-> now, win |-> [w EXCEPT !.count = @ + 1]])
    BY <1>4, <2>1 DEF ReadWindow
  <2>5. CASE w.count >= j.limit.max
    <3>1. PICK job : job = CallJob("audit", j.agent, j.req, "denied")
      OBVIOUS
    <3>2. job.pc = "audit" /\ Goto(t, job)
      BY <2>4, <2>5, <3>1 DEF CallJob
    <3> QED BY <1>1, <2>3, <3>2
  <2>6. CASE ~(w.count >= j.limit.max)
    <3>1. PICK u : u = [w EXCEPT !.count = @ + 1]
      OBVIOUS
    <3>2. PICK job : job = [pc |-> "counted", agent |-> j.agent, req |-> j.req,
                            decision |-> j.decision, at |-> now, win |-> u]
      OBVIOUS
    <3>3. Goto(t, job)
      BY <2>4, <2>6, <3>1, <3>2
    <3>4. window[j.agent][tool] \in Win /\ now \in Nat /\ permits[j.agent][tool] \in Seq(Nat)
      BY <2>2 DEF TypeOK
    <3>5. w \in [start : Nat, count : Nat]
      BY <2>1, <2>2, <3>4, CurrentType
    <3>6. u.start = w.start /\ u.count = w.count + 1
      BY <3>1, <3>5
    <3>7. /\ w.start <= now
          /\ Cardinality(Passed(permits[j.agent][tool], w.start, Steady(tool))) <= w.count
          /\ Steady(tool) => \A l \in Limits(tool) :
                /\ now - w.start < l.window_secs
                /\ \A i \in 1..Len(permits[j.agent][tool]) :
                      permits[j.agent][tool][i] - w.start < l.window_secs
      <4>1. PICK a \in Agent, lim \in Limits(tool) : a = j.agent /\ lim = j.limit
        BY <2>2
      <4>2. MeteredWindow(a, tool) /\ w = Current(window[a][tool], lim, now)
        BY <1>0, <2>1, <2>2, <4>1
      <4>3. /\ w.start <= now
            /\ Cardinality(Passed(permits[a][tool], w.start, Steady(tool))) <= w.count
            /\ Steady(tool) => \A l \in Limits(tool) :
                  /\ now - w.start < l.window_secs
                  /\ \A i \in 1..Len(permits[a][tool]) :
                        permits[a][tool][i] - w.start < l.window_secs
        BY <2>2, <4>2, CurrentBounded
      <4> QED BY <4>1, <4>3
    <3>8. Cardinality(Passed(permits[j.agent][tool], w.start, Steady(tool))) \in Nat
      BY <2>2, <3>4, <3>5, LimitsType, PassedAppend
    <3>9. u.count <= j.limit.max
      BY <2>2, <2>6, <3>5, <3>6 DEF Limit
    <3>10. Bounded(permits[j.agent][tool], u, tool, 1)
      BY <2>2, <3>5, <3>6, <3>7, <3>8, <3>9 DEF Bounded
    <3>11. MeteredJob(job)
      <4>1. /\ job.pc = "counted" /\ job.agent = j.agent /\ job.req = j.req
            /\ job.at = now /\ job.win = u /\ now <= now
        BY <3>2, <3>4
      <4>2. Steady(tool) => \A l \in Limits(tool) : now - u.start < l.window_secs
        BY <3>6, <3>7
      <4> QED BY <2>1, <3>10, <4>1, <4>2 DEF MeteredJob
    <3> QED BY <1>0, <2>3, <3>3, <3>11, MeteredFrame
  <2> QED BY <2>5, <2>6
<1>5. CASE WriteWindow(t)
  <2>1. PICK j, tool : j = task[t] /\ tool = ToolOf[j.req.call]
    OBVIOUS
  <2>2. /\ j.pc = "counted" /\ j.agent \in Agent /\ tool \in Tool /\ j.at \in Nat
        /\ j.win \in [start : Nat, count : Nat]
    BY <1>5, <2>1, GatewayAssumption DEF WriteWindow, TypeOK, Job, Request
  <2>3. /\ window' = [window EXCEPT ![j.agent][tool] = j.win]
        /\ permits' = [permits EXCEPT ![j.agent][tool] = Append(@, j.at)]
        /\ Goto(t, CallJob("audit", j.agent, j.req, j.decision))
        /\ UNCHANGED <<grant, now>>
    BY <1>5, <2>1 DEF WriteWindow
  <2>4. /\ j.at <= now
        /\ Bounded(permits[j.agent][tool], j.win, tool, 1)
        /\ Steady(tool) => \A l \in Limits(tool) : j.at - j.win.start < l.window_secs
    BY <1>0, <2>1, <2>2 DEF MeteredJob
  <2>5. \A u \in Task : task'[u].pc \in {"idle", "audit"}
    BY <2>3 DEF MayRun, Goto, TypeOK, CallJob, Idle
  <2>6. \A u \in Task : MeteredJob(task[u])'
    BY <2>5 DEF MeteredJob
  <2>7. ASSUME NEW a \in Agent, NEW x \in Tool PROVE MeteredWindow(a, x)'
    <3>1. CASE a = j.agent /\ x = tool
      <4>1. PICK q : q = permits[a][x]
        OBVIOUS
      <4>2. q \in Seq(Nat) /\ now \in Nat /\ \A i \in 1..Len(q) : q[i] \in Nat /\ q[i] <= now
        BY <1>0, <4>1 DEF TypeOK, MeteredWindow
      <4>3. permits'[a][x] = Append(q, j.at) /\ window'[a][x] = j.win
        BY <2>2, <2>3, <3>1, <4>1 DEF TypeOK
      <4>4. /\ Len(Append(q, j.at)) = Len(q) + 1
            /\ \A i \in 1..Len(q) : Append(q, j.at)[i] = q[i]
            /\ Append(q, j.at)[Len(q) + 1] = j.at
        BY <2>2, <4>2
      <4>5. Cardinality(Passed(Append(q, j.at), j.win.start, Steady(x))) <= j.win.count
        <5>1. Cardinality(Passed(q, j.win.start, Steady(x))) + 1 <= j.win.count
          BY <2>4, <3>1, <4>1 DEF Bounded
        <5>2. /\ Cardinality(Passed(q, j.win.start, Steady(x))) \in Nat
              /\ Cardinality(Passed(Append(q, j.at), j.win.start, Steady(x))) \in Nat
              /\ Cardinality(Passed(Append(q, j.at), j.win.start, Steady(x)))
                   <= Cardinality(Passed(q, j.win.start, Steady(x))) + 1
          BY <2>2, <4>2, LimitsType, PassedAppend
        <5> QED BY <2>2, <5>1, <5>2
      <4>6. \A i \in 1..Len(q) + 1 : Append(q, j.at)[i] <= now
        BY <2>4, <4>2, <4>4
      <4>7. Steady(x) => \A i \in 1..Len(q) + 1, l \in Limits(x) :
                            Append(q, j.at)[i] - j.win.start < l.window_secs
        BY <2>4, <3>1, <4>1, <4>2, <4>4 DEF Bounded
      <4>8. Bounded(Append(q, j.at), j.win, x, 0)
        <5>1. Cardinality(Passed(Append(q, j.at), j.win.start, Steady(x))) \in Nat
          BY <2>2, <4>2, LimitsType, PassedAppend
        <5> QED BY <2>4, <3>1, <4>4, <4>5, <4>7, <5>1 DEF Bounded
      <4>9. Bounded(permits[a][x], window[a][x], x, 0)'
        BY <2>3, <4>3, <4>8 DEF Bounded, Limits, Steady
      <4>10. j.win # NoWindow
        BY <2>2, GatewayAssumption
      <4> QED BY <2>3, <4>3, <4>4, <4>6, <4>9, <4>10 DEF MeteredWindow
    <3>2. CASE ~(a = j.agent /\ x = tool)
      <4>1. permits'[a][x] = permits[a][x] /\ window'[a][x] = window[a][x]
        BY <2>2, <2>3, <3>2 DEF TypeOK
      <4>2. Limits(x)' = Limits(x) /\ Steady(x)' = Steady(x)
        BY DEF Limits, Steady
      <4>3. MeteredWindow(a, x)
        BY <1>0
      <4> QED BY <2>3, <4>1, <4>2, <4>3 DEF MeteredWindow, Bounded
    <3> QED BY <3>1, <3>2
  <2> QED BY <1>0, <2>3, <2>6, <2>7 DEF Metered
<1>6. CASE AuditCall(t)
  <2>1. PICK job : /\ Goto(t, job)
                   /\ job = IF task[t].decision = "denied" THEN Idle
                            ELSE CallJob("post", task[t].agent, task[t].req,
                                         task[t].decision)
    BY <1>6 DEF AuditCall
  <2>2. job.pc \in {"idle", "post"}
    BY <2>1 DEF Idle, CallJob
  <2> QED BY <1>1, <1>6, <2>1, <2>2 DEF AuditCall
<1>7. CASE PostCall(t)
  <2>1. PICK job : /\ Goto(t, job)
                   /\ job = IF task[t].decision = "requires_approval"
                            THEN [pc |-> "gate", call |-> task[t].req.call]
                            ELSE Idle
    BY <1>7 DEF PostCall
  <2>2. job.pc \in {"idle", "gate"}
    BY <2>1 DEF Idle
  <2> QED BY <1>1, <1>7, <2>1, <2>2 DEF PostCall
<1>8. CASE CloseGate(t)
  BY <1>1, <1>8 DEF CloseGate, Idle
<1> QED BY <1>2, <1>3, <1>4, <1>5, <1>6, <1>7, <1>8 DEF CallStep

\* The other requests leave the windows alone, and install only the operators'
\* grants.
LEMMA MeteredOther ==
    ASSUME TypeOK, Metered, load.serial, UNCHANGED load, NEW t \in Task, MayRun(t),
           ResultStep(t) \/ ApprovalStep(t) \/ OperatorStep(t) \/ FailRequest(t)
    PROVE  Metered'
<1>0. /\ grant \in load.grants \cup {DenyAll}
      /\ \A u \in Task : MeteredJob(task[u])
  BY DEF Metered
<1> USE DEF stored, visible, history
<1>1. ASSUME NEW job, Goto(t, job), job.pc \notin {"install", "limited", "counted"},
             UNCHANGED <<window, permits, now>>,
             grant' \in load.grants \cup {DenyAll}
      PROVE  Metered'
  <2>1. MeteredJob(job)
    BY <1>1 DEF MeteredJob
  <2> QED BY <1>1, <2>1, MeteredFrame
<1>2. CASE ResultStep(t)
  <2>1. UNCHANGED <<window, permits, now, grant>>
    BY <1>2 DEF ResultStep, AdmitResult, CheckGate, PostResult
  <2>2. PICK job : Goto(t, job) /\ job.pc \in {"check", "idle", "result"}
    <3>1. CASE \E a \in Agent, c \in Call : AdmitResult(t, a, c)
      BY <3>1 DEF AdmitResult
    <3>2. CASE CheckGate(t)
      BY <3>2 DEF CheckGate, Idle
    <3>3. CASE PostResult(t)
      BY <3>3 DEF PostResult, Idle
    <3> QED BY <1>2, <3>1, <3>2, <3>3 DEF ResultStep
  <2> QED BY <1>0, <1>1, <2>1, <2>2
<1>3. CASE ApprovalStep(t)
  <2>1. UNCHANGED <<window, permits, now, grant>>
    BY <1>3 DEF ApprovalStep, AuditApproval, DecideApproval, PostApproval
  <2>2. PICK job : Goto(t, job) /\ job.pc \in {"decide", "announce", "idle"}
    <3>1. CASE \E c \in Call, ok \in BOOLEAN : AuditApproval(t, c, ok)
      BY <3>1 DEF AuditApproval
    <3>2. CASE DecideApproval(t)
      BY <3>2 DEF DecideApproval
    <3>3. CASE PostApproval(t)
      BY <3>3 DEF PostApproval, Idle
    <3> QED BY <1>3, <3>1, <3>2, <3>3 DEF ApprovalStep
  <2> QED BY <1>0, <1>1, <2>1, <2>2
<1>4. CASE \E g \in load.grants : BeginGrant(t, g)
  <2>1. PICK g \in load.grants : BeginGrant(t, g)
    BY <1>4
  <2>2. PICK n : Goto(t, [pc |-> "install", grant |-> g, version |-> n])
    BY <2>1 DEF BeginGrant
  <2>3. PICK job : job = [pc |-> "install", grant |-> g, version |-> n]
    OBVIOUS
  <2>4. MeteredJob(job)
    BY <2>3 DEF MeteredJob
  <2>5. UNCHANGED <<window, permits, now, grant>>
    BY <2>1 DEF BeginGrant
  <2> QED BY <1>0, <2>2, <2>3, <2>4, <2>5, MeteredFrame
<1>5. CASE InstallGrant(t)
  <2>1. grant' \in load.grants
    BY <1>0, <1>5 DEF InstallGrant, MeteredJob
  <2>2. PICK job : Goto(t, job) /\ job.pc = "granted"
    BY <1>5 DEF InstallGrant
  <2>3. UNCHANGED <<window, permits, now>>
    BY <1>5 DEF InstallGrant
  <2> QED BY <1>1, <2>1, <2>2, <2>3
<1>6. CASE AuditGrant(t) \/ AuditAgent(t) \/ FailRequest(t)
  <2>1. Goto(t, Idle) /\ UNCHANGED <<window, permits, now, grant>>
    BY <1>6 DEF AuditGrant, AuditAgent, FailRequest
  <2>2. Idle.pc = "idle"
    BY DEF Idle
  <2> QED BY <1>0, <1>1, <2>1, <2>2
<1>7. CASE \E a \in Agent : Provision(t, a) \/ Deprovision(t, a)
  <2>1. PICK a \in Agent : Provision(t, a) \/ Deprovision(t, a)
    BY <1>7
  <2>2. PICK job : Goto(t, job) /\ job.pc = "registered"
    BY <2>1 DEF Provision, Deprovision
  <2>3. UNCHANGED <<window, permits, now, grant>>
    BY <2>1 DEF Provision, Deprovision
  <2> QED BY <1>0, <1>1, <2>2, <2>3
<1> QED BY <1>2, <1>3, <1>4, <1>5, <1>6, <1>7 DEF OperatorStep

\* Every step is metered.
LEMMA MeteredStep == TypeOK /\ Metered /\ [Next]_vars => Metered'
<1> SUFFICES ASSUME TypeOK, Metered, [Next]_vars, load.serial PROVE Metered'
  BY LoadKept DEF Metered
<1>0. UNCHANGED load
  BY LoadKept
<1>1. ASSUME NEW t \in Task, MayRun(t), CallStep(t) PROVE Metered'
  BY <1>0, <1>1, MeteredCall
<1>2. ASSUME NEW t \in Task, MayRun(t),
             ResultStep(t) \/ ApprovalStep(t) \/ OperatorStep(t) \/ FailRequest(t)
      PROVE  Metered'
  BY <1>0, <1>2, MeteredOther
<1>3. ASSUME UNCHANGED <<window, permits, grant>>, now' \in Nat, now <= now',
             UNCHANGED task \/ task' = [t \in Task |-> Idle]
      PROVE  Metered'
  <2>1. \A q, w, tool, n : w.start \in Nat /\ Bounded(q, w, tool, n) => Bounded(q, w, tool, n)'
    <3> SUFFICES ASSUME NEW q, NEW w, NEW tool, NEW n, w.start \in Nat,
                        Bounded(q, w, tool, n)
                 PROVE  Bounded(q, w, tool, n)'
      OBVIOUS
    <3>1. Limits(tool)' = Limits(tool) /\ Steady(tool)' = Steady(tool)
      BY <1>0 DEF Limits, Steady
    <3>2. w.start <= now'
      BY <1>3 DEF Bounded, TypeOK
    <3> QED BY <3>1, <3>2 DEF Bounded
  <2>2. ASSUME NEW t \in Task PROVE MeteredJob(task[t])'
    <3>1. CASE task'[t] = task[t]
      <4>1. PICK j : j = task[t] /\ j \in Job /\ MeteredJob(j)
        BY DEF TypeOK, Metered
      <4>2. \A tool : Limits(tool)' = Limits(tool) /\ Steady(tool)' = Steady(tool)
        BY <1>0 DEF Limits, Steady
      <4>3. j.pc = "counted" => j.win.start \in Nat /\ j.at \in Nat
        BY <4>1 DEF Job
      <4>4. MeteredJob(j)'
        <5>1. (j.pc = "install" => j.grant \in load'.grants)
              /\ (j.pc = "limited" => j.limit \in Limits(ToolOf[j.req.call])')
          BY <1>0, <4>1, <4>2 DEF MeteredJob
        <5>2. ASSUME j.pc = "counted", NEW tool, tool = ToolOf[j.req.call]
              PROVE  /\ j.at <= now'
                     /\ Bounded(permits[j.agent][tool], j.win, tool, 1)'
                     /\ Steady(tool)' => \A l \in Limits(tool)' :
                                            j.at - j.win.start < l.window_secs
          <6>1. /\ j.at <= now
                /\ Bounded(permits[j.agent][tool], j.win, tool, 1)
                /\ Steady(tool) => \A l \in Limits(tool) :
                                      j.at - j.win.start < l.window_secs
            BY <4>1, <5>2 DEF MeteredJob
          <6>2. j.at <= now'
            BY <1>3, <4>3, <5>2, <6>1 DEF TypeOK
          <6>3. PICK q : q = permits[j.agent][tool]
            OBVIOUS
          <6>4. Bounded(q, j.win, tool, 1)'
            BY <2>1, <4>3, <5>2, <6>1, <6>3
          <6>5. Bounded(permits[j.agent][tool], j.win, tool, 1)'
            BY <1>3, <6>3, <6>4 DEF Bounded
          <6> QED BY <4>2, <6>1, <6>2, <6>5
        <5> QED BY <5>1, <5>2 DEF MeteredJob
      <4> QED BY <3>1, <4>1, <4>4 DEF MeteredJob
    <3>2. CASE task'[t] = Idle
      BY <3>2 DEF MeteredJob, Idle
    <3> QED BY <1>3, <3>1, <3>2 DEF TypeOK
  <2>3. ASSUME NEW a \in Agent, NEW tool \in Tool PROVE MeteredWindow(a, tool)'
    <3>1. PICK q, w : q = permits[a][tool] /\ w = window[a][tool]
      OBVIOUS
    <3>2. q = permits'[a][tool] /\ w = window'[a][tool]
      BY <1>3, <3>1
    <3>3. q \in Seq(Nat) /\ w \in Win
      BY <3>1 DEF TypeOK
    <3>4. MeteredWindow(a, tool)
      BY DEF Metered
    <3>5. \A i \in 1..Len(q) : q[i] <= now'
      <4>1. \A i \in 1..Len(q) : q[i] \in Nat /\ q[i] <= now
        BY <3>1, <3>3, <3>4 DEF MeteredWindow
      <4> QED BY <1>3, <4>1 DEF TypeOK
    <3>6. w # NoWindow => Bounded(q, w, tool, 0)'
      BY <2>1, <3>1, <3>3, <3>4 DEF MeteredWindow, Win
    <3>7. w # NoWindow => Bounded(permits[a][tool], window[a][tool], tool, 0)'
      BY <3>2, <3>6 DEF Bounded
    <3>8. w = NoWindow => q = <<>>
      BY <3>1, <3>4 DEF MeteredWindow
    <3> QED BY <3>2, <3>5, <3>7, <3>8 DEF MeteredWindow
  <2> QED BY <1>0, <1>3, <2>2, <2>3 DEF Metered
<1>4. CASE Crash
  BY <1>3, <1>4 DEF Crash, stored, history, TypeOK
<1>5. CASE Tick
  BY <1>3, <1>5 DEF Tick, stored, history, TypeOK
<1>6. CASE UNCHANGED vars
  BY <1>3, <1>6 DEF vars, stored, history, TypeOK
<1> QED BY <1>1, <1>2, <1>4, <1>5, <1>6 DEF Next

\* Serial calls stay within the limit of a grant in every window, for all grants,
\* edits of them, failures and crashes.
THEOREM RateIsBounded == Spec => []RateBound
<1>1. Init => Metered
  <2> SUFFICES ASSUME Init PROVE Metered
    OBVIOUS
  <2>1. \A t \in Task : MeteredJob(task[t])
    BY DEF Init, MeteredJob, Idle
  <2>2. \A a \in Agent, tool \in Tool : MeteredWindow(a, tool)
    BY DEF Init, MeteredWindow
  <2> QED BY <2>1, <2>2 DEF Init, Metered
<1>2. TypeOK /\ Metered => RateBound
  <2> SUFFICES ASSUME TypeOK, Metered, load.serial, NEW a \in Agent, NEW tool \in Tool,
                      window[a][tool] # NoWindow
               PROVE  \E l \in Limits(tool) :
                         Cardinality(Passed(permits[a][tool], window[a][tool].start,
                                            Steady(tool))) <= l.max
    BY DEF RateBound
  <2>1. PICK q, w : q = permits[a][tool] /\ w = window[a][tool]
    OBVIOUS
  <2>2. q \in Seq(Nat) /\ w \in [start : Nat, count : Nat]
    BY <2>1 DEF TypeOK, Win
  <2>3. Bounded(q, w, tool, 0)
    BY <2>1 DEF Metered, MeteredWindow
  <2>4. PICK l \in Limits(tool) : w.count <= l.max
    BY <2>3 DEF Bounded
  <2>5. l.max \in Nat
    BY LimitsType DEF Limit
  <2>6. Cardinality(Passed(q, w.start, Steady(tool))) \in Nat
    BY <2>2, LimitsType, PassedAppend
  <2>7. Cardinality(Passed(q, w.start, Steady(tool))) <= l.max
    BY <2>2, <2>3, <2>4, <2>5, <2>6 DEF Bounded
  <2> QED BY <2>1, <2>7
<1> QED BY <1>1, <1>2, MeteredStep, GatewayTypeCorrect, PTL DEF Spec

=============================================================================
