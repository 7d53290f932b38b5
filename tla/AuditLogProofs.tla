--------------------------- MODULE AuditLogProofs ---------------------------
(***************************************************************************)
(* The chain of the audit log is intact, nothing acknowledged is lost and  *)
(* verify raises no false report of a broken chain, for every number of    *)
(* appenders, auditors, entries and crashes.                               *)
(***************************************************************************)
EXTENDS AuditLog, NatExtremes, FiniteSetTheorems, TLAPS

\* The hash of an entry is a hash.
LEMMA EntryHashType ==
    ASSUME NEW seq \in Nat, NEW prev \in Hash, NEW p \in Payload
    PROVE  EntryHash(seq, prev, p) \in Hash
BY DEF EntryHash, Hash

\* What an entry has to carry as its link is a hash.
LEMMA BelowType ==
    ASSUME NEW l, NEW k \in Nat,
           k # 0 => l[k - 1] \in Entry
    PROVE  Below(l, k) \in Hash
<1>1. CASE k = 0
  BY <1>1 DEF Below, GENESIS, Hash
<1>2. CASE k # 0
  <2>1. l[k - 1] \in Entry /\ k - 1 \in Nat
    BY <1>2
  <2> QED BY <1>2, <2>1, EntryHashType DEF Below, Entry
<1> QED BY <1>1, <1>2

\* recover_head on a chain of n entries resumes at n with the hash of the last
\* entry, which is what an append that completed left behind.
LEMMA RecoverChain ==
    ASSUME NEW l, NEW n \in Nat, Chain(l, n)
    PROVE  RecoverHead(l) = [next_seq |-> n, hash |-> Below(l, n)]
<1>1. CASE n = 0
  BY <1>1 DEF Chain, RecoverHead, Below
<1>2. CASE n # 0
  <2> DEFINE k == CHOOSE i \in DOMAIN l : \A j \in DOMAIN l : j <= i
  <2>1. DOMAIN l = 0..(n - 1) /\ n - 1 \in DOMAIN l
    BY <1>2 DEF Chain
  <2>2. \A j \in DOMAIN l : j <= n - 1
    BY <2>1
  <2>3. k \in DOMAIN l /\ \A j \in DOMAIN l : j <= k
    BY <2>1, <2>2
  <2>4. k = n - 1
    BY <2>1, <2>2, <2>3
  <2>5. RecoverHead(l) = [next_seq |-> k + 1,
                          hash |-> EntryHash(k, l[k].prev, l[k].payload)]
    BY <2>1 DEF RecoverHead
  <2> HIDE DEF k
  <2> QED BY <1>2, <2>4, <2>5 DEF Below
<1> QED BY <1>1, <1>2

\* A chain of n entries has n entries.
LEMMA ChainLinked ==
    ASSUME NEW l, NEW n \in Nat, Chain(l, n)
    PROVE  Linked(l)
<1>1. 0 \in Int /\ n - 1 \in Int
  OBVIOUS
<1>2. Cardinality(0..(n - 1)) = IF 0 > n - 1 THEN 0 ELSE (n - 1) - 0 + 1
  BY <1>1, FS_Interval
<1>3. Cardinality(DOMAIN l) = n
  BY <1>2 DEF Chain
<1> QED BY <1>3 DEF Linked

\* Putting an entry at the end of a chain, linked to its last entry, gives a
\* chain that is one longer and keeps every older entry.
LEMMA PutChain ==
    ASSUME NEW l, NEW n \in Nat, Chain(l, n),
           NEW e, e.prev = Below(l, n)
    PROVE  /\ Chain(Put(l, n, e), n + 1)
           /\ Put(l, n, e)[n] = e
           /\ \A k \in DOMAIN l : Put(l, n, e)[k] = l[k]
           /\ Below(Put(l, n, e), n) = Below(l, n)
<1> DEFINE m == Put(l, n, e)
<1>1. DOMAIN l = 0..(n - 1) /\ DOMAIN m = 0..n
  BY DEF Chain, Put
<1>2. m[n] = e /\ \A k \in DOMAIN l : m[k] = l[k]
  BY <1>1 DEF Put
<1> HIDE DEF m
<1>3. \A k \in 0..n : Below(m, k) = Below(l, k)
  BY <1>1, <1>2 DEF Below
<1>4. \A k \in DOMAIN m : m[k].prev = Below(m, k)
  <2> TAKE k \in DOMAIN m
  <2>1. CASE k = n
    BY <1>2, <1>3, <2>1
  <2>2. CASE k \in DOMAIN l
    BY <1>1, <1>2, <1>3, <2>2 DEF Chain
  <2> QED BY <1>1, <2>1, <2>2
<1>5. Chain(m, n + 1)
  BY <1>1, <1>4 DEF Chain
<1> QED BY <1>1, <1>2, <1>3, <1>5 DEF m

-----------------------------------------------------------------------------
\* The empty log satisfies the invariant.
LEMMA InitIInv == Init => IInv
<1> SUFFICES ASSUME Init PROVE IInv
  OBVIOUS
<1>0. DOMAIN log = {}
  BY DEF Init
<1>1. head = [next_seq |-> 0, hash |-> GENESIS] /\ GENESIS \in Hash
  BY <1>0 DEF Init, RecoverHead, GENESIS, Hash
<1>2. IsFiniteSet(DOMAIN log)
  BY <1>0, FS_EmptySet
<1>3. TypeOK
  BY <1>0, <1>1, <1>2 DEF Init, TypeOK, Idle, IdleAudit
<1>4. Tip = 0
  BY <1>1 DEF Init, Tip, Idle
<1>5. ChainIntact
  BY <1>0, <1>1, <1>4 DEF ChainIntact, Chain, Below
<1> QED BY <1>3, <1>5 DEF Init, IInv, AckedKept, NoFalseBreak, Exclusive,
           Written, ScansLinked, Idle, IdleAudit

-----------------------------------------------------------------------------
\* recover_head returns a head, whatever was done to the store.
LEMMA RecoverType ==
    ASSUME NEW l, DOMAIN l \subseteq Nat, IsFiniteSet(DOMAIN l),
           \A k \in DOMAIN l : l[k] \in Entry
    PROVE  RecoverHead(l) \in [next_seq : Nat, hash : Hash]
<1>1. CASE DOMAIN l = {}
  BY <1>1 DEF RecoverHead, GENESIS, Hash
<1>2. CASE DOMAIN l # {}
  <2> DEFINE k == CHOOSE i \in DOMAIN l : \A j \in DOMAIN l : j <= i
  <2>1. k \in DOMAIN l
    BY <1>2, LargestExists
  <2>2. RecoverHead(l) = [next_seq |-> k + 1,
                          hash |-> EntryHash(k, l[k].prev, l[k].payload)]
    BY <1>2 DEF RecoverHead
  <2> HIDE DEF k
  <2>3. k \in Nat /\ l[k].prev \in Hash /\ l[k].payload \in Payload
    BY <2>1 DEF Entry
  <2>4. EntryHash(k, l[k].prev, l[k].payload) \in Hash
    BY <2>3, EntryHashType
  <2> QED BY <2>2, <2>3, <2>4
<1> QED BY <1>1, <1>2

\* Every step keeps the types.
LEMMA TypeStep == TypeOK /\ [Next]_vars => TypeOK'
<1> SUFFICES ASSUME TypeOK, [Next]_vars PROVE TypeOK'
  OBVIOUS
<1>1. ASSUME NEW a \in Appender, AppendStep(a) PROVE TypeOK'
  <2>1. ASSUME NEW p \in Payload, LockHead(a, p) PROVE TypeOK'
    BY <2>1 DEF TypeOK, LockHead, Busy, Entry, ledger
  <2>2. CASE PutEntry(a)
    <3>1. req[a] \in Busy
      BY <2>2 DEF TypeOK, PutEntry, Idle
    <3>2. req[a].seq \in Nat /\ req[a].entry \in Entry
      BY <3>1 DEF Busy
    <3>3. req' \in [Appender -> Busy \cup {Idle}]
      BY <2>2, <3>1 DEF TypeOK, PutEntry, Busy
    <3>4. DOMAIN log' = DOMAIN log \cup {req[a].seq}
      BY <2>2 DEF PutEntry, Put
    <3>5. \A k \in DOMAIN log' : log'[k] \in Entry
      BY <2>2, <3>2 DEF TypeOK, PutEntry, Put
    <3>6. IsFiniteSet(DOMAIN log')
      BY <3>4, FS_AddElement DEF TypeOK
    <3> QED BY <2>2, <3>2, <3>3, <3>4, <3>5, <3>6 DEF TypeOK, PutEntry, ledger
  <2>3. CASE PutFails(a)
    BY <2>3 DEF TypeOK, PutFails, ledger
  <2>4. CASE AdvanceHead(a)
    <3>1. req[a] \in Busy
      BY <2>4 DEF TypeOK, AdvanceHead, Idle
    <3>2. req[a].seq \in Nat /\ req[a].entry.prev \in Hash
             /\ req[a].entry.payload \in Payload
      BY <3>1 DEF Busy, Entry
    <3>3. EntryHash(req[a].seq, req[a].entry.prev, req[a].entry.payload) \in Hash
      BY <3>2, EntryHashType
    <3> QED BY <2>4, <3>2, <3>3 DEF TypeOK, AdvanceHead
  <2> QED BY <1>1, <2>1, <2>2, <2>3, <2>4 DEF AppendStep
<1>2. ASSUME NEW v \in Auditor, AuditStep(v) PROVE TypeOK'
  <2>1. CASE Scan(v)
    BY <2>1 DEF TypeOK, Scan, Scanned, ledger
  <2>2. CASE ReportBreak(v) \/ ReportMismatch(v)
    <3>1. /\ aud' = [aud EXCEPT ![v] = IdleAudit]
          /\ reports' \subseteq reports \cup {"break", "mismatch"}
          /\ UNCHANGED <<log, head, lock, req, edits, restarts, ledger, manifest>>
      BY <2>2 DEF ReportBreak, ReportMismatch
    <3>2. reports' \subseteq {"break", "mismatch"}
      BY <3>1, Zenon DEF TypeOK
    <3> QED BY <3>1, <3>2 DEF TypeOK, IdleAudit, ledger
  <2>3. CASE AcceptChain(v)
    BY <2>3 DEF TypeOK, AcceptChain, Accepted, ledger
  <2>6. CASE VerifyReturns(v)
    BY <2>6 DEF TypeOK, VerifyReturns, IdleAudit, ledger
  <2>4. CASE CountEntries(v)
    <3>1. Cardinality(DOMAIN log) \in Nat
      BY FS_CardinalityType DEF TypeOK
    <3> QED BY <2>4, <3>1 DEF TypeOK, CountEntries, Counted, ledger
  <2>5. CASE SignManifest(v)
    BY <2>5 DEF TypeOK, SignManifest, IdleAudit, ledger
  <2> QED BY <1>2, <2>1, <2>2, <2>3, <2>4, <2>5, <2>6 DEF AuditStep
<1>3. CASE Edit
  <2>1. ASSUME NEW k \in DOMAIN log, NEW p \in Payload, OverwriteEntry(k, p)
        PROVE  TypeOK'
    <3>1. DOMAIN log' = DOMAIN log
      BY <2>1 DEF OverwriteEntry
    <3>2. \A j \in DOMAIN log' : log'[j] \in Entry
      BY <2>1, <3>1 DEF TypeOK, OverwriteEntry, Entry
    <3> QED BY <2>1, <3>1, <3>2 DEF TypeOK, OverwriteEntry, ledger
  <2>2. ASSUME NEW k \in DOMAIN log, RemoveEntry(k) PROVE TypeOK'
    <3>1. DOMAIN log' = DOMAIN log \ {k}
      BY <2>2 DEF RemoveEntry
    <3>2. \A j \in DOMAIN log' : log'[j] \in Entry
      BY <2>2, <3>1 DEF TypeOK, RemoveEntry
    <3>3. IsFiniteSet(DOMAIN log')
      BY <3>1, FS_RemoveElement DEF TypeOK
    <3> QED BY <2>2, <3>1, <3>2, <3>3 DEF TypeOK, RemoveEntry, ledger
  <2> QED BY <1>3, <2>1, <2>2 DEF Edit
<1>4. CASE Restart
  <2>1. RecoverHead(log) \in [next_seq : Nat, hash : Hash]
    BY RecoverType DEF TypeOK
  <2> QED BY <1>4, <2>1 DEF TypeOK, Restart, IdleAudit
<1>5. CASE UNCHANGED vars
  BY <1>5 DEF TypeOK, vars, ledger
<1> QED BY <1>1, <1>2, <1>3, <1>4, <1>5 DEF Next

-----------------------------------------------------------------------------
\* The chain's properties without the types.
Safe == /\ ChainIntact
        /\ AckedKept
        /\ NoFalseBreak
        /\ Exclusive
        /\ Written
        /\ ScansLinked

\* A step of append keeps the chain's properties: only the owner of the mutex
\* writes, and what it writes continues the head.
LEMMA AppendKeeps ==
    ASSUME IInv, TypeOK', NEW a \in Appender, AppendStep(a)
    PROVE  Safe'
<1> USE DEF IInv
<1> DEFINE n == head.next_seq
<1>0. n \in Nat /\ req \in [Appender -> Busy \cup {Idle}]
  BY DEF TypeOK
<1>1. ASSUME NEW p \in Payload, LockHead(a, p) PROVE Safe'
  <2>1. \A b \in Appender : req[b] = Idle
    BY <1>1, AuditAssumption DEF Exclusive, LockHead
  <2>2. req'[a] # Idle /\ req'[a].pc = "locked"
          /\ req'[a].seq = n /\ req'[a].entry.prev = head.hash
    BY <1>0, <1>1 DEF LockHead, Idle
  <2>3. \A b \in Appender : b # a => req'[b] = Idle
    BY <1>0, <1>1, <2>1 DEF LockHead
  <2>4. Tip' = Tip
    BY <1>1, <2>1, <2>2, <2>3 DEF Tip, LockHead, Idle
  <2>5. ChainIntact' /\ AckedKept' /\ NoFalseBreak' /\ ScansLinked'
    BY <1>1, <2>4 DEF ChainIntact, AckedKept, NoFalseBreak, ScansLinked,
                      LockHead, ledger
  <2>6. Exclusive'
    BY <1>1, <2>2, <2>3 DEF Exclusive, LockHead
  <2>7. Written'
    BY <1>1, <2>2, <2>3 DEF Written, LockHead, Idle, ledger
  <2> QED BY <2>5, <2>6, <2>7 DEF Safe
<1>2. CASE PutEntry(a)
  <2>0. req[a].pc = "locked" /\ req[a] # Idle
    BY <1>2 DEF PutEntry, Idle
  <2>1. lock = a /\ req[a].seq = n /\ req[a].entry.prev = head.hash
    BY <2>0 DEF Exclusive
  <2>2. \A b \in Appender : b # a => req[b] = Idle /\ req'[b] = Idle
    BY <1>0, <1>2, <2>1 DEF Exclusive, PutEntry
  <2>3. /\ req[a] \in Busy
        /\ req' = [req EXCEPT ![a] = [req[a] EXCEPT !.pc = "stored"]]
    BY <1>0, <1>2, <2>0 DEF PutEntry
  <2>4. /\ req'[a].pc = "stored"
        /\ req'[a].seq = req[a].seq
        /\ req'[a].entry = req[a].entry
        /\ req'[a] # Idle
    BY <1>0, <2>3 DEF Busy, Idle
  <2>5. Tip = n
    BY <2>0, <2>2 DEF Tip, Idle
  <2>6. Tip' = n + 1
    BY <1>2, <2>4 DEF Tip, PutEntry
  <2>7. Exclusive'
    BY <1>2, <2>1, <2>2, <2>4 DEF Exclusive, PutEntry
  <2>8. NoFalseBreak' /\ ScansLinked'
    BY <1>2 DEF NoFalseBreak, ScansLinked, PutEntry
  <2>9. ASSUME edits = 0
        PROVE  /\ Chain(log', n + 1)
               /\ log'[n] = req[a].entry
               /\ \A k \in DOMAIN log : log'[k] = log[k]
               /\ Below(log', n) = Below(log, n)
    <3>1. Chain(log, n) /\ head.hash = Below(log, n)
      BY <2>5, <2>9 DEF ChainIntact
    <3>2. log' = Put(log, n, req[a].entry)
      BY <1>2, <2>1 DEF PutEntry
    <3> QED BY <1>0, <2>1, <3>1, <3>2, PutChain
  <2>10. ChainIntact'
    BY <1>2, <2>6, <2>9 DEF ChainIntact, PutEntry
  <2>11. AckedKept'
    <3>1. edits = 0 => DOMAIN log \subseteq DOMAIN log'
      BY <1>2 DEF PutEntry, Put
    <3> QED BY <1>2, <2>9, <3>1 DEF AckedKept, PutEntry, ledger
  <2>12. Written'
    BY <1>2, <2>2, <2>4, <2>9 DEF Written, PutEntry, Idle, ledger
  <2> QED BY <2>7, <2>8, <2>10, <2>11, <2>12 DEF Safe
<1>3. CASE PutFails(a)
  <2>0. req[a].pc = "locked" /\ req[a] # Idle
    BY <1>3 DEF PutFails, Idle
  <2>1. lock = a
    BY <2>0 DEF Exclusive
  <2>2. \A b \in Appender : req'[b] = Idle
    BY <1>0, <1>3, <2>1 DEF Exclusive, PutFails
  <2>3. \A b \in Appender : req[b].pc # "stored"
    BY <2>0, <2>1 DEF Exclusive, Idle
  <2>4. Tip' = Tip
    BY <1>3, <2>2, <2>3 DEF Tip, PutFails, Idle
  <2>5. ChainIntact' /\ AckedKept' /\ NoFalseBreak' /\ ScansLinked'
    BY <1>3, <2>4 DEF ChainIntact, AckedKept, NoFalseBreak, ScansLinked,
                      PutFails, ledger
  <2>6. Exclusive' /\ Written'
    BY <1>3, <2>2 DEF Exclusive, Written, PutFails, Idle, ledger
  <2> QED BY <2>5, <2>6 DEF Safe
<1>4. CASE AdvanceHead(a)
  <2>0. req[a].pc = "stored" /\ req[a] # Idle
    BY <1>4 DEF AdvanceHead, Idle
  <2>1. lock = a /\ req[a].seq = n /\ req[a].entry.prev = head.hash
    BY <2>0 DEF Exclusive
  <2>2. \A b \in Appender : req'[b] = Idle
    BY <1>0, <1>4, <2>1 DEF Exclusive, AdvanceHead
  <2>3. Tip = n + 1
    BY <2>0 DEF Tip
  <2>4. /\ head'.next_seq = n + 1
        /\ head'.hash = EntryHash(n, req[a].entry.prev, req[a].entry.payload)
    BY <1>4, <2>1 DEF AdvanceHead
  <2>5. Tip' = n + 1
    BY <2>2, <2>4 DEF Tip, Idle
  <2>6. acked' = acked \cup {<<n, req[a].entry.payload>>}
    BY <1>4, <2>1 DEF AdvanceHead
  <2>7. ASSUME edits = 0
        PROVE  Chain(log, n + 1) /\ log[n] = req[a].entry /\ n \in DOMAIN log
    <3>1. Chain(log, n + 1)
      BY <2>3, <2>7 DEF ChainIntact
    <3>2. log[n] = req[a].entry
      BY <2>0, <2>7 DEF Written
    <3> QED BY <1>0, <3>1, <3>2 DEF Chain
  <2>8. ChainIntact'
    BY <1>0, <1>4, <2>4, <2>5, <2>7 DEF ChainIntact, AdvanceHead, Below
  <2>9. AckedKept'
    BY <1>4, <2>6, <2>7 DEF AckedKept, AdvanceHead
  <2>10. Written'
    <3>1. edits = 0 => \A e \in acked : e[1] \in Nat /\ e[1] < n
      BY DEF Written, TypeOK
    <3> QED BY <1>0, <1>4, <2>2, <2>4, <2>6, <3>1 DEF Written, AdvanceHead, Idle
  <2>11. Exclusive' /\ NoFalseBreak' /\ ScansLinked'
    BY <1>4, <2>2 DEF Exclusive, NoFalseBreak, ScansLinked, AdvanceHead
  <2> QED BY <2>8, <2>9, <2>10, <2>11 DEF Safe
<1> QED BY <1>1, <1>2, <1>3, <1>4 DEF AppendStep

\* A step of an audit keeps them: a scan of an unedited store is a chain.
LEMMA AuditKeeps ==
    ASSUME IInv, NEW v \in Auditor, AuditStep(v)
    PROVE  Safe'
<1> USE DEF IInv
<1>0. /\ UNCHANGED <<log, head, lock, req, edits, acked>>
      /\ DOMAIN aud = Auditor
  BY DEF AuditStep, Scan, ReportBreak, ReportMismatch, AcceptChain,
         VerifyReturns, CountEntries, SignManifest, ledger, TypeOK
<1>1. ChainIntact' /\ AckedKept' /\ Exclusive' /\ Written'
  BY <1>0 DEF ChainIntact, AckedKept, Exclusive, Written, Tip
<1>2. NoFalseBreak'
  <2>1. CASE ReportBreak(v)
    BY <1>0, <2>1 DEF ReportBreak, ScansLinked, NoFalseBreak, TypeOK
  <2>2. CASE ReportMismatch(v)
    BY <1>0, <2>2 DEF ReportMismatch, NoFalseBreak
  <2>3. CASE ~(ReportBreak(v) \/ ReportMismatch(v))
    BY <1>0, <2>3 DEF AuditStep, Scan, AcceptChain, VerifyReturns,
                      CountEntries, SignManifest, NoFalseBreak
  <2> QED BY <2>1, <2>2, <2>3
<1>3. ScansLinked'
  <2>1. CASE Scan(v)
    <3>1. edits = 0 => Linked(log)
      <4>1. Tip \in Nat
        BY DEF Tip, TypeOK
      <4> QED BY <4>1, ChainLinked DEF ChainIntact
    <3> QED BY <1>0, <2>1, <3>1 DEF Scan, Scanned, ScansLinked
  <2>2. CASE ~Scan(v)
    <3>1. aud'[v].pc # "scanned"
      BY <1>0, <2>2 DEF AuditStep, ReportBreak, ReportMismatch, AcceptChain,
           VerifyReturns, CountEntries, SignManifest, IdleAudit, Accepted, Counted
    <3>2. \A u \in Auditor : u # v => aud'[u] = aud[u]
      BY <1>0, <2>2 DEF AuditStep, ReportBreak, ReportMismatch, AcceptChain,
           VerifyReturns, CountEntries, SignManifest
    <3> QED BY <1>0, <3>1, <3>2 DEF ScansLinked
  <2> QED BY <2>1, <2>2
<1> QED BY <1>1, <1>2, <1>3 DEF Safe

\* An edit ends what the properties promise of the store, and leaves the mutex.
LEMMA EditKeeps ==
    ASSUME IInv, Edit
    PROVE  Safe'
<1>1. edits' = edits + 1 /\ edits \in Nat /\ UNCHANGED <<head, lock, req, reports>>
  BY DEF IInv, TypeOK, Edit, OverwriteEntry, RemoveEntry
<1>2. edits' # 0 /\ edits' > 0
  BY <1>1
<1> QED BY <1>1, <1>2 DEF IInv, Safe, ChainIntact, AckedKept, NoFalseBreak,
           Exclusive, Written, ScansLinked

\* A crash at any point keeps them: an entry that was written counts, whether
\* the head had followed or not.
LEMMA RestartKeeps ==
    ASSUME IInv, Restart
    PROVE  Safe'
<1> USE DEF IInv
<1>0. /\ UNCHANGED <<log, edits, acked, reports>>
      /\ \A a \in Appender : req'[a] = Idle
      /\ \A v \in Auditor : aud'[v] = IdleAudit
      /\ head' = RecoverHead(log)
  BY DEF Restart
<1>1. Tip \in Nat /\ head.next_seq \in Nat /\ head.next_seq <= Tip
  BY DEF Tip, TypeOK
<1>2. Tip' = head'.next_seq
  BY <1>0 DEF Tip, Idle
<1>3. ASSUME edits = 0
      PROVE  /\ Chain(log, Tip)
             /\ head'.next_seq = Tip
             /\ head'.hash = Below(log, Tip)
  <2>1. Chain(log, Tip)
    BY <1>3 DEF ChainIntact
  <2> QED BY <1>0, <1>1, <2>1, RecoverChain
<1>4. ChainIntact'
  BY <1>0, <1>2, <1>3 DEF ChainIntact
<1>5. AckedKept' /\ NoFalseBreak' /\ Exclusive' /\ ScansLinked'
  BY <1>0 DEF AckedKept, NoFalseBreak, Exclusive, ScansLinked, IdleAudit
<1>6. Written'
  <2>1. edits = 0 => \A e \in acked : e[1] \in Nat /\ e[1] < head.next_seq
    BY DEF Written, TypeOK
  <2> QED BY <1>0, <1>1, <1>3, <2>1 DEF Written, Idle
<1> QED BY <1>4, <1>5, <1>6 DEF Safe

\* Every step keeps the invariant.
LEMMA NextIInv == IInv /\ [Next]_vars => IInv'
<1> SUFFICES ASSUME IInv, [Next]_vars PROVE IInv'
  OBVIOUS
<1>1. TypeOK'
  BY TypeStep DEF IInv
<1>2. CASE UNCHANGED vars
  BY <1>2 DEF IInv, vars, ledger, TypeOK, ChainIntact, AckedKept, NoFalseBreak,
              Exclusive, Written, ScansLinked, Tip
<1>3. CASE Next
  <2>1. Safe'
    BY <1>1, <1>3, AppendKeeps, AuditKeeps, EditKeeps, RestartKeeps DEF Next
  <2> QED BY <1>1, <2>1 DEF Safe, IInv
<1> QED BY <1>2, <1>3

\* The inductive invariant holds in every reachable state.
LEMMA Inductive == Spec => []IInv
BY InitIInv, NextIInv, PTL DEF Spec

-----------------------------------------------------------------------------
\* The variables of the audit log keep their types in every reachable state,
\* edits of the store included.
THEOREM AuditTypeCorrect == Spec => []TypeOK
<1>1. IInv => TypeOK
  BY DEF IInv
<1> QED BY Inductive, <1>1, PTL

\* Appends under the mutex, failed writes, concurrent scans and crashes between
\* the store and the head never break the chain of an unedited store.
THEOREM ChainNeverBreaks == Spec => []ChainIntact
<1>1. IInv => ChainIntact
  BY DEF IInv
<1> QED BY Inductive, <1>1, PTL

\* A sequence number that append returned belongs to its record for good.
THEOREM AckedNeverLost == Spec => []AckedKept
<1>1. IInv => AckedKept
  BY DEF IInv
<1> QED BY Inductive, <1>1, PTL

\* verify never reports a gap or a broken link in an unedited store.
THEOREM BreakMeansEdit == Spec => []NoFalseBreak
<1>1. IInv => NoFalseBreak
  BY DEF IInv
<1> QED BY Inductive, <1>1, PTL

-----------------------------------------------------------------------------
(* What verify accepts and what is signed *)

\* The hash of a chain commits to every entry of it.  Otherwise there is a
\* shortest part of the chain whose hash does not; it is not empty, the hash of
\* the part without its last entry does, and one more entry extends it.
LEMMA ChainCommits ==
    ASSUME NEW l, NEW n \in Nat, Chain(l, n),
           \A k \in DOMAIN l : l[k] \in Entry
    PROVE  /\ Len(Below(l, n)) = n
           /\ Commits(Below(l, n), l)
<1> DEFINE Good(i) == /\ Below(l, i) \in Hash
                      /\ Len(Below(l, i)) = i
                      /\ \A k \in 0..(i - 1) :
                            Below(l, i)[k + 1] = <<k, l[k].payload>>
           Bad == {i \in 0..n : ~Good(i)}
<1>1. DOMAIN l = 0..(n - 1) /\ \A k \in 0..(n - 1) : l[k].prev = Below(l, k)
  BY DEF Chain
<1>2. Good(0)
  BY DEF Below, GENESIS, Hash
<1>3. ASSUME NEW i \in 0..(n - 1), Good(i) PROVE Good(i + 1)
  <2>1. l[i] \in Entry /\ l[i].prev = Below(l, i)
    BY <1>1
  <2>2. l[i].payload \in Payload /\ i \in Nat
    BY <2>1 DEF Entry
  <2>3. Below(l, i + 1) = Append(Below(l, i), <<i, l[i].payload>>)
    <3>1. i + 1 # 0 /\ (i + 1) - 1 = i
      BY <2>2
    <3> QED BY <2>1, <3>1 DEF Below, EntryHash
  <2>4. Below(l, i) \in Seq(Nat \X Payload) /\ <<i, l[i].payload>> \in Nat \X Payload
    BY <1>3, <2>2 DEF Hash
  <2>5. Below(l, i + 1) \in Hash /\ Len(Below(l, i + 1)) = i + 1
    <3>1. Len(Below(l, i)) = i
      BY <1>3
    <3> HIDE DEF Good
    <3>2. \A h \in Seq(Nat \X Payload), x \in Nat \X Payload :
             /\ Append(h, x) \in Seq(Nat \X Payload)
             /\ Len(Append(h, x)) = Len(h) + 1
      OBVIOUS
    <3> QED BY <2>3, <2>4, <3>1, <3>2 DEF Hash
  <2>6. ASSUME NEW k \in 0..i PROVE Below(l, i + 1)[k + 1] = <<k, l[k].payload>>
    <3>1. CASE k = i
      BY <1>3, <2>2, <2>3, <2>4, <3>1
    <3>2. CASE k \in 0..(i - 1)
      <4>1. k + 1 \in 1..Len(Below(l, i))
        BY <1>3, <2>2, <3>2
      <4>2. Below(l, i + 1)[k + 1] = Below(l, i)[k + 1]
        BY <2>3, <2>4, <4>1
      <4> QED BY <1>3, <3>2, <4>2
    <3> QED BY <2>2, <3>1, <3>2
  <2> QED BY <2>2, <2>5, <2>6
<1> HIDE DEF Good
<1>4. Bad = {}
  <2> SUFFICES ASSUME Bad # {} PROVE FALSE
    OBVIOUS
  <2>1. PICK i \in Bad : \A j \in Bad : i <= j
    BY SmallestExists
  <2>2. i \in 0..n /\ ~Good(i) /\ i # 0
    BY <1>2
  <2>3. i - 1 \in 0..(n - 1) /\ i - 1 \notin Bad
    BY <2>1, <2>2
  <2>4. Good(i - 1)
    BY <2>3
  <2>5. Good((i - 1) + 1)
    BY <1>3, <2>3, <2>4
  <2> QED BY <2>2, <2>5
<1>5. Good(n)
  BY <1>4
<1> QED BY <1>1, <1>5 DEF Good, Commits

\* A hash over as many entries as a store has, that commits to all of them,
\* commits to nothing else.
LEMMA CommittedPayloads ==
    ASSUME NEW h, NEW l, NEW n \in Nat, DOMAIN l = 0..(n - 1), Len(h) = n,
           Commits(h, l)
    PROVE  Payloads(l) = Committed(h)
BY DEF Commits, Payloads, Committed

\* What verify accepts is what the head commits to.
LEMMA AcceptedCommits ==
    ASSUME IInv, NEW v \in Auditor, AcceptChain(v)
    PROVE  /\ Commits(head.hash, aud[v].snap)
           /\ Payloads(aud[v].snap) = Committed(head.hash)
<1> DEFINE l == aud[v].snap
           n == head.next_seq
<1>1. n \in Nat /\ \A k \in DOMAIN l : l[k] \in Entry
  BY DEF IInv, TypeOK
<1>2. Chain(l, n) /\ head.hash = Below(l, n)
  BY DEF AcceptChain, Linked, MatchesHead
<1>3. Len(head.hash) = n /\ Commits(head.hash, l)
  BY <1>1, <1>2, ChainCommits
<1>4. DOMAIN l = 0..(n - 1)
  BY <1>2 DEF Chain
<1> QED BY <1>1, <1>3, <1>4, CommittedPayloads

\* One more entry keeps what a hash commits to.
LEMMA CommitsExtend ==
    ASSUME NEW h \in Hash, NEW x \in Nat \X Payload, NEW l, Commits(h, l)
    PROVE  Commits(Append(h, x), l)
<1>1. Len(Append(h, x)) = Len(h) + 1 /\ Len(h) \in Nat
  BY DEF Hash
<1>2. \A i \in 1..Len(h) : Append(h, x)[i] = h[i]
  BY DEF Hash
<1> QED BY <1>1, <1>2 DEF Commits

\* One more entry adds its payload to what a hash commits to.
LEMMA CommittedExtend ==
    ASSUME NEW h \in Hash, NEW p \in Payload
    PROVE  Committed(Append(h, <<Len(h), p>>)) = Put(Committed(h), Len(h), p)
<1> DEFINE g == Append(h, <<Len(h), p>>)
<1>1. Len(h) \in Nat /\ <<Len(h), p>> \in Nat \X Payload
  BY DEF Hash
<1>2. Len(g) = Len(h) + 1 /\ g[Len(h) + 1] = <<Len(h), p>>
  BY <1>1 DEF Hash
<1>3. \A i \in 1..Len(h) : g[i] = h[i]
  BY <1>1 DEF Hash
<1> HIDE DEF g
<1>4. DOMAIN Committed(g) = 0..Len(h) /\ DOMAIN Committed(h) = 0..(Len(h) - 1)
  BY <1>1, <1>2 DEF Committed
<1>5. 0..Len(h) = (0..(Len(h) - 1)) \cup {Len(h)}
  BY <1>1
<1>6. \A k \in 0..Len(h) :
         Committed(g)[k] = IF k = Len(h) THEN p ELSE Committed(h)[k]
  BY <1>1, <1>2, <1>3 DEF Committed
<1>7. Committed(g) = [k \in 0..Len(h) |->
                        IF k = Len(h) THEN p ELSE Committed(h)[k]]
  BY <1>4, <1>6 DEF Committed
<1> QED BY <1>4, <1>5, <1>7 DEF Put, g

\* The links carry the right number of entries, initially and after each step.
LEMMA NumberedInit == Init => Numbered
<1> SUFFICES ASSUME Init PROVE Numbered
  OBVIOUS
<1>1. DOMAIN log = {}
  BY DEF Init
<1> QED BY <1>1 DEF Init, Numbered, RecoverHead, GENESIS

\* An entry is put under the number of entries its link commits to, and the head
\* is recovered from the last entry with its number, edited or not.
LEMMA NumberedStep == IInv /\ Numbered /\ [Next]_vars => Numbered'
<1> SUFFICES ASSUME IInv, Numbered, [Next]_vars PROVE Numbered'
  OBVIOUS
<1> USE DEF IInv
<1>1. ASSUME NEW a \in Appender, AppendStep(a) PROVE Numbered'
  <2>1. CASE PutEntry(a)
    <3>1. req[a] # Idle
      BY <2>1 DEF PutEntry, Idle
    <3>2. req[a].seq = head.next_seq /\ req[a].entry.prev = head.hash
      BY <3>1 DEF Exclusive
    <3> QED BY <2>1, <3>2 DEF Numbered, PutEntry, Put
  <2>2. CASE AdvanceHead(a)
    <3>1. req[a] # Idle /\ req[a] \in Busy
      BY <2>2 DEF AdvanceHead, Idle, TypeOK
    <3>2. req[a].seq = head.next_seq /\ req[a].entry.prev = head.hash
      BY <3>1 DEF Exclusive
    <3>3. head.hash \in Hash /\ <<req[a].seq, req[a].entry.payload>> \in Nat \X Payload
      BY <3>1 DEF TypeOK, Busy, Entry
    <3>4. Len(EntryHash(req[a].seq, req[a].entry.prev, req[a].entry.payload))
            = Len(head.hash) + 1
      BY <3>2, <3>3 DEF EntryHash, Hash
    <3> QED BY <2>2, <3>2, <3>4 DEF Numbered, AdvanceHead
  <2>3. CASE PutFails(a) \/ \E p \in Payload : LockHead(a, p)
    BY <2>3 DEF Numbered, PutFails, LockHead
  <2> QED BY <1>1, <2>1, <2>2, <2>3 DEF AppendStep
<1>2. ASSUME NEW v \in Auditor, AuditStep(v) PROVE Numbered'
  <2>1. UNCHANGED <<log, head>>
    BY <1>2 DEF AuditStep, Scan, ReportBreak, ReportMismatch, AcceptChain,
                VerifyReturns, CountEntries, SignManifest
  <2> QED BY <2>1 DEF Numbered
<1>3. CASE Edit
  <2>1. ASSUME NEW k \in DOMAIN log, NEW p \in Payload, OverwriteEntry(k, p)
        PROVE  Numbered'
    BY <2>1 DEF OverwriteEntry, Numbered, TypeOK, Entry
  <2>2. ASSUME NEW k \in DOMAIN log, RemoveEntry(k) PROVE Numbered'
    BY <2>2 DEF RemoveEntry, Numbered
  <2> QED BY <1>3, <2>1, <2>2 DEF Edit
<1>4. CASE Restart
  <2>1. CASE DOMAIN log = {}
    BY <1>4, <2>1 DEF Restart, Numbered, RecoverHead, GENESIS
  <2>2. CASE DOMAIN log # {}
    <3> DEFINE k == CHOOSE i \in DOMAIN log : \A j \in DOMAIN log : j <= i
    <3>1. k \in DOMAIN log
      BY <2>2, LargestExists DEF TypeOK
    <3>2. head' = [next_seq |-> k + 1,
                   hash |-> EntryHash(k, log[k].prev, log[k].payload)]
      BY <1>4, <2>2 DEF Restart, RecoverHead
    <3> HIDE DEF k
    <3>3. k \in Nat /\ log[k].prev \in Hash /\ log[k].payload \in Payload
            /\ Len(log[k].prev) = k
      BY <3>1 DEF TypeOK, Entry, Numbered
    <3>4. Len(EntryHash(k, log[k].prev, log[k].payload)) = k + 1
      BY <3>3 DEF EntryHash, Hash
    <3> QED BY <1>4, <3>2, <3>4 DEF Restart, Numbered
  <2> QED BY <2>1, <2>2
<1>5. CASE UNCHANGED vars
  BY <1>5 DEF vars, Numbered
<1> QED BY <1>1, <1>2, <1>3, <1>4, <1>5 DEF Next

\* At first the process vouches for nothing and no scan was accepted.
LEMMA VouchedInit == Init => Vouched
<1> SUFFICES ASSUME Init PROVE Vouched
  OBVIOUS
<1>1. DOMAIN log = {}
  BY DEF Init
<1>2. head.hash = <<>>
  BY <1>1 DEF Init, RecoverHead, GENESIS
<1>3. Committed(<<>>) = <<>>
  BY DEF Committed
<1> QED BY <1>2, <1>3 DEF Init, Vouched, IdleAudit

\* An append extends what the head commits to, and an edit does not reach it.
LEMMA VouchedStep == IInv /\ Numbered /\ Vouched /\ [Next]_vars => Vouched'
<1> SUFFICES ASSUME IInv, Numbered, Vouched, [Next]_vars PROVE Vouched'
  OBVIOUS
<1> USE DEF IInv
<1>1. ASSUME NEW a \in Appender, AppendStep(a) PROVE Vouched'
  <2>1. CASE AdvanceHead(a)
    <3>1. req[a] # Idle /\ req[a] \in Busy
      BY <2>1 DEF AdvanceHead, Idle, TypeOK
    <3>2. req[a].seq = head.next_seq /\ req[a].entry.prev = head.hash
      BY <3>1 DEF Exclusive
    <3>3. /\ head.hash \in Hash
          /\ req[a].entry.payload \in Payload
          /\ <<req[a].seq, req[a].entry.payload>> \in Nat \X Payload
      BY <3>1 DEF TypeOK, Busy, Entry
    <3>4. head'.hash = Append(head.hash, <<Len(head.hash), req[a].entry.payload>>)
      BY <2>1, <3>2 DEF AdvanceHead, EntryHash, Numbered
    <3>5. trusted' = Put(trusted, Len(head.hash), req[a].entry.payload)
      BY <2>1, <3>2 DEF AdvanceHead, Numbered
    <3>6. trusted' = Committed(head'.hash)
      BY <3>3, <3>4, <3>5, CommittedExtend DEF Vouched
    <3>7. <<Len(head.hash), req[a].entry.payload>> \in Nat \X Payload
      BY <3>2, <3>3 DEF Numbered
    <3>8. \A v \in Auditor : aud'[v].pc \in {"accepted", "counted"}
                               => Commits(head'.hash, aud'[v].snap)
      BY <2>1, <3>3, <3>4, <3>7, CommitsExtend DEF Vouched, AdvanceHead
    <3> QED BY <3>6, <3>8 DEF Vouched
  <2>2. CASE PutEntry(a) \/ PutFails(a) \/ \E p \in Payload : LockHead(a, p)
    BY <2>2 DEF Vouched, PutEntry, PutFails, LockHead, ledger
  <2> QED BY <1>1, <2>1, <2>2 DEF AppendStep
<1>2. ASSUME NEW v \in Auditor, AuditStep(v) PROVE Vouched'
  <2>1. UNCHANGED <<head, trusted>> /\ DOMAIN aud = Auditor
    BY <1>2 DEF AuditStep, Scan, ReportBreak, ReportMismatch, AcceptChain,
                VerifyReturns, CountEntries, SignManifest, ledger, TypeOK
  <2>2. \A u \in Auditor : u # v => aud'[u] = aud[u]
    BY <1>2, <2>1 DEF AuditStep, Scan, ReportBreak, ReportMismatch, AcceptChain,
                VerifyReturns, CountEntries, SignManifest
  <2>3. aud'[v].pc \in {"accepted", "counted"} => Commits(head.hash, aud'[v].snap)
    <3>1. CASE AcceptChain(v)
      <4>1. Commits(head.hash, aud[v].snap)
        BY <3>1, AcceptedCommits
      <4> QED BY <2>1, <3>1, <4>1 DEF AcceptChain, Accepted
    <3>2. CASE CountEntries(v)
      BY <2>1, <3>2 DEF CountEntries, Counted, Vouched
    <3>3. CASE ~(AcceptChain(v) \/ CountEntries(v))
      <4>1. aud'[v].pc \in {"idle", "scanned"}
        BY <1>2, <2>1, <3>3 DEF AuditStep, Scan, ReportBreak, ReportMismatch,
             VerifyReturns, SignManifest, IdleAudit, Scanned
      <4> QED BY <4>1
    <3> QED BY <3>1, <3>2, <3>3
  <2> QED BY <2>1, <2>2, <2>3 DEF Vouched
<1>3. CASE Edit
  BY <1>3 DEF Edit, OverwriteEntry, RemoveEntry, Vouched, ledger
<1>4. CASE Restart
  BY <1>4 DEF Restart, Vouched, IdleAudit
<1>5. CASE UNCHANGED vars
  BY <1>5 DEF vars, ledger, Vouched
<1> QED BY <1>1, <1>2, <1>3, <1>4, <1>5 DEF Next

\* The larger invariant holds in every reachable state.
LEMMA VouchedInductive == Spec => [](IInv /\ Numbered /\ Vouched)
<1>1. Init => IInv /\ Numbered /\ Vouched
  BY InitIInv, NumberedInit, VouchedInit
<1>2. IInv /\ Numbered /\ Vouched /\ [Next]_vars
         => (IInv /\ Numbered /\ Vouched)'
  BY NextIInv, NumberedStep, VouchedStep
<1> QED BY <1>1, <1>2, PTL DEF Spec

\* Only a step of the audit itself changes its state, except for a crash.
LEMMA AuditStepOf ==
    ASSUME IInv, [Next]_vars, NEW v \in Auditor, aud'[v] # aud[v]
    PROVE  AuditStep(v) \/ Restart
<1>0. DOMAIN aud = Auditor
  BY DEF IInv, TypeOK
<1>1. ASSUME NEW a \in Appender, AppendStep(a) PROVE FALSE
  BY <1>1 DEF AppendStep, LockHead, PutEntry, PutFails, AdvanceHead
<1>2. ASSUME NEW u \in Auditor, AuditStep(u) PROVE u = v
  BY <1>0, <1>2 DEF AuditStep, Scan, ReportBreak, ReportMismatch, AcceptChain,
              VerifyReturns, CountEntries, SignManifest
<1>3. CASE Edit
  BY <1>3 DEF Edit, OverwriteEntry, RemoveEntry
<1>4. CASE UNCHANGED vars
  BY <1>4 DEF vars
<1> QED BY <1>1, <1>2, <1>3, <1>4 DEF Next

\* A store that verify accepts holds exactly what the running process vouches
\* for: local links and the final hash are enough to notice any other edit.
THEOREM AcceptedIsTrusted == Spec => TamperEvident
<1>1. ASSUME IInv, Vouched, [Next]_vars, NEW v \in Auditor,
             aud[v].pc # "accepted", aud'[v].pc = "accepted"
      PROVE  Payloads(aud'[v].snap) = trusted
  <2>0. DOMAIN aud = Auditor
    BY <1>1 DEF IInv, TypeOK
  <2>1. AuditStep(v) \/ Restart
    BY <1>1, AuditStepOf
  <2>2. CASE Restart
    BY <1>1, <2>2 DEF Restart, IdleAudit
  <2>3. CASE AcceptChain(v)
    <3>1. aud'[v].snap = aud[v].snap
      BY <2>0, <2>3 DEF AcceptChain, Accepted
    <3>2. Payloads(aud[v].snap) = Committed(head.hash)
      BY <1>1, <2>3, AcceptedCommits
    <3> QED BY <1>1, <3>1, <3>2 DEF Vouched
  <2>4. CASE AuditStep(v) /\ ~AcceptChain(v)
    BY <1>1, <2>0, <2>4 DEF AuditStep, Scan, ReportBreak, ReportMismatch,
         VerifyReturns, CountEntries, SignManifest, IdleAudit, Scanned, Counted
  <2> QED BY <2>1, <2>2, <2>3, <2>4
<1>2. IInv /\ Numbered /\ Vouched /\ [Next]_vars =>
         [\A v \in Auditor :
            aud[v].pc # "accepted" /\ aud'[v].pc = "accepted"
               => Payloads(aud'[v].snap) = trusted]_vars
  BY <1>1
<1> QED BY <1>2, VouchedInductive, PTL DEF Spec, TamperEvident

\* A signed head hash commits to every entry that verify had read, however many
\* appends came between the verification and the signature.
THEOREM SignedWasVerified == Spec => SignedIntact
<1>1. ASSUME IInv, Vouched, [Next]_vars, NEW v \in Auditor,
             aud[v].pc = "counted", aud'[v].pc = "idle", restarts' = restarts
      PROVE  Commits(manifest'.head_hash, aud[v].snap)
  <2>1. AuditStep(v) \/ Restart
    BY <1>1, AuditStepOf
  <2>2. ~Restart
    BY <1>1 DEF Restart, IInv, TypeOK
  <2>3. SignManifest(v)
    BY <1>1, <2>1, <2>2 DEF AuditStep, Scan, ReportBreak, ReportMismatch,
         AcceptChain, VerifyReturns, CountEntries
  <2>4. manifest'.head_hash = head.hash
    BY <2>3 DEF SignManifest
  <2> QED BY <1>1, <2>4 DEF Vouched
<1>2. IInv /\ Numbered /\ Vouched /\ [Next]_vars =>
         [\A v \in Auditor :
            aud[v].pc = "counted" /\ aud'[v].pc = "idle" /\ restarts' = restarts
               => Commits(manifest'.head_hash, aud[v].snap)]_vars
  BY <1>1
<1> QED BY <1>2, VouchedInductive, PTL DEF Spec, SignedIntact

\* An append never takes back what the store holds: the tip only grows.
LEMMA TipGrows ==
    ASSUME IInv, NEW a \in Appender, AppendStep(a)
    PROVE  Tip \in Nat /\ Tip' \in Nat /\ Tip <= Tip'
<1> USE DEF IInv
<1>0. /\ head.next_seq \in Nat
      /\ req \in [Appender -> Busy \cup {Idle}]
  BY DEF TypeOK
<1>1. \A b \in Appender : b # a => req[b].pc # "stored" \/ req[a] = Idle
  BY DEF Exclusive, Idle
<1>2. CASE \E p \in Payload : LockHead(a, p)
  BY <1>0, <1>2 DEF LockHead, Tip
<1>3. CASE PutEntry(a) \/ PutFails(a)
  BY <1>0, <1>1, <1>3 DEF PutEntry, PutFails, Tip, Idle
<1>4. CASE AdvanceHead(a)
  <2>1. req[a] # Idle /\ req[a].pc = "stored"
    BY <1>4 DEF AdvanceHead, Idle
  <2>2. req[a].seq = head.next_seq
    BY <2>1 DEF Exclusive
  <2>3. Tip = head.next_seq + 1 /\ head'.next_seq = head.next_seq + 1
    BY <1>4, <2>1, <2>2 DEF AdvanceHead, Tip
  <2>4. Tip' \in {head'.next_seq, head'.next_seq + 1}
    BY DEF Tip
  <2> QED BY <1>0, <2>3, <2>4
<1> QED BY <1>2, <1>3, <1>4 DEF AppendStep

\* Every step keeps the counts within what the head reaches, and a signature is
\* made when the mutex is free, that is, when the head has reached them.
LEMMA CoversStep ==
    ASSUME IInv, Numbered, Reached, ManifestCovers, [Next]_vars
    PROVE  Reached' /\ ManifestCovers'
<1> USE DEF IInv
<1>0. /\ head.next_seq \in Nat /\ edits \in Nat /\ DOMAIN aud = Auditor
      /\ Tip \in Nat
  BY DEF TypeOK, Tip
<1>1. ASSUME NEW a \in Appender, AppendStep(a) PROVE Reached' /\ ManifestCovers'
  <2>1. UNCHANGED <<aud, edits, manifest>>
    BY <1>1 DEF AppendStep, LockHead, PutEntry, PutFails, AdvanceHead
  <2>2. \A v \in Auditor : aud[v].count \in Nat
    BY DEF TypeOK
  <2> QED BY <1>1, <2>1, <2>2, TipGrows DEF Reached, ManifestCovers
<1>2. ASSUME NEW v \in Auditor, AuditStep(v) PROVE Reached' /\ ManifestCovers'
  <2>1. UNCHANGED <<head, req, edits>> /\ Tip' = Tip
    BY <1>2 DEF AuditStep, Scan, ReportBreak, ReportMismatch, AcceptChain,
                VerifyReturns, CountEntries, SignManifest, Tip
  <2>2. CASE CountEntries(v)
    <3>1. ASSUME edits = 0 PROVE Cardinality(DOMAIN log) = Tip
      <4>1. DOMAIN log = 0..(Tip - 1)
        BY <3>1 DEF ChainIntact, Chain
      <4> QED BY <1>0, <4>1, FS_Interval
    <3>2. aud'[v].count = Cardinality(DOMAIN log)
      BY <1>0, <2>2 DEF CountEntries, Counted
    <3>3. \A u \in Auditor : u # v => aud'[u] = aud[u]
      BY <1>0, <2>2 DEF CountEntries
    <3>4. manifest' = manifest
      BY <2>2 DEF CountEntries
    <3> QED BY <1>0, <2>1, <3>1, <3>2, <3>3, <3>4 DEF Reached, ManifestCovers
  <2>3. CASE SignManifest(v)
    <3>1. Tip = head.next_seq
      BY <2>3, AuditAssumption DEF SignManifest, Tip, Exclusive, Idle
    <3>2. manifest' = [entry_count |-> aud[v].count, head_hash |-> head.hash]
      BY <2>3 DEF SignManifest
    <3>3. edits = 0 => aud[v].count <= Len(head.hash)
      BY <2>3, <3>1 DEF SignManifest, Reached, Numbered
    <3>4. \A u \in Auditor : aud'[u].pc = "counted" => aud'[u] = aud[u]
      BY <1>0, <2>3 DEF SignManifest, IdleAudit
    <3> QED BY <2>1, <3>2, <3>3, <3>4 DEF Reached, ManifestCovers
  <2>4. CASE AuditStep(v) /\ ~CountEntries(v) /\ ~SignManifest(v)
    <3>1. \A u \in Auditor : aud'[u].pc = "counted" => aud'[u] = aud[u]
      BY <1>0, <2>4 DEF AuditStep, Scan, ReportBreak, ReportMismatch, AcceptChain,
                  VerifyReturns, IdleAudit, Scanned, Accepted
    <3>2. manifest' = manifest
      BY <2>4 DEF AuditStep, Scan, ReportBreak, ReportMismatch, AcceptChain,
                  VerifyReturns
    <3> QED BY <2>1, <3>1, <3>2 DEF Reached, ManifestCovers
  <2> QED BY <1>2, <2>2, <2>3, <2>4
<1>3. CASE Edit
  <2>1. edits' # 0
    BY <1>0, <1>3 DEF Edit, OverwriteEntry, RemoveEntry
  <2> QED BY <2>1 DEF Reached, ManifestCovers
<1>4. CASE Restart
  BY <1>4 DEF Restart, IdleAudit, Reached, ManifestCovers
<1>5. CASE UNCHANGED vars
  BY <1>5 DEF vars, Reached, ManifestCovers, Tip
<1> QED BY <1>1, <1>2, <1>3, <1>4, <1>5 DEF Next

\* A manifest never states more entries than its head hash commits to, although
\* the count is read without the mutex while appends are half way.
THEOREM ManifestNeverOverstates == Spec => []ManifestCovers
<1>1. Init => Reached /\ ManifestCovers
  BY DEF Init, Reached, ManifestCovers, IdleAudit, GENESIS
<1>2. IInv /\ Numbered /\ Reached /\ ManifestCovers /\ [Next]_vars
         => Reached' /\ ManifestCovers'
  BY CoversStep
<1> QED BY <1>1, <1>2, VouchedInductive, PTL DEF Spec

=============================================================================
