------------------------------ MODULE AuditLog ------------------------------
(***************************************************************************)
(* The hash-chained audit log: service/audit, and the signed manifest that *)
(* service/agent makes of it.                                              *)
(*                                                                         *)
(* An entry holds its payload and the hash of its predecessor; the hash of *)
(* the last entry and the next sequence number are kept in memory, behind  *)
(* a mutex that append holds while it writes.  verify, count and the       *)
(* export read the store without the mutex, so an append can come between  *)
(* any two of their steps.  The store survives a crash; the head is        *)
(* recovered from it.                                                      *)
(***************************************************************************)
EXTENDS Integers, Sequences, FiniteSets

CONSTANTS
    Appender,     \* tasks that append
    Auditor,      \* tasks that verify or sign
    Payload,      \* audit records
    Free,         \* the mutex has no owner
    MaxEntries,   \* bound: entries
    MaxEdits,     \* bound: edits of the store behind the service's back
    MaxRestarts   \* bound: crashes

ASSUME AuditAssumption ==
    /\ Free \notin Appender
    /\ MaxEntries \in Nat
    /\ MaxEdits \in Nat
    /\ MaxRestarts \in Nat

VARIABLES
    log,       \* the AuditLog domain of the store: sequence number -> entry
    head,      \* ChainHead
    lock,      \* the owner of head's mutex, across steps
    req,       \* [Appender -> Busy or Idle]  the append a task is executing
    aud,       \* [Auditor -> Audit]   the verification or signature
    edits,     \* Nat                  edits of the store so far
    restarts,  \* Nat                  crashes so far
    acked,     \* history: <<seq, payload>> that append returned Ok for
    trusted,   \* history: payloads committed to at startup, or appended since
    reports,   \* history: errors that verify returned
    manifest   \* history: the last signed manifest

ledger == <<acked, trusted>>
vars == <<log, head, lock, req, aud, edits, restarts, ledger, reports, manifest>>

-----------------------------------------------------------------------------
(* The chain *)

GENESIS == <<>>

\* Mutant: the sequence number is not hashed.
EntryHash_NoSeq(seq, prev, payload) == Append(prev, payload)

\* SHA-256 over sequence number, predecessor hash and payload, taken to be
\* collision free: a hash is the list of what it commits to.
EntryHash(seq, prev, payload) == Append(prev, <<seq, payload>>)

Hash  == Seq(Nat \X Payload)
Entry == [prev : Hash, payload : Payload]

\* The hash that the entry with number k has to carry as its predecessor's.
Below(l, k) == IF k = 0 THEN GENESIS
               ELSE EntryHash(k - 1, l[k - 1].prev, l[k - 1].payload)

\* No gap and no broken link among the n entries of l.
Chain(l, n) == /\ DOMAIN l = 0..(n - 1)
               /\ \A k \in DOMAIN l : l[k].prev = Below(l, k)

Payloads(l) == [k \in DOMAIN l |-> l[k].payload]

\* h commits to the entries of l.
Commits(h, l) ==
    \A k \in DOMAIN l : /\ k \in 0..(Len(h) - 1)
                        /\ h[k + 1] = <<k, l[k].payload>>

\* The payloads a hash commits to.
Committed(h) == [k \in 0..(Len(h) - 1) |-> h[k + 1][2]]

Put(l, k, e) == [j \in DOMAIN l \cup {k} |-> IF j = k THEN e ELSE l[j]]

\* Mutant: the first entry decides.
RecoverHead_First(l) ==
    IF DOMAIN l = {} THEN [next_seq |-> 0, hash |-> GENESIS]
    ELSE LET k == CHOOSE i \in DOMAIN l : \A j \in DOMAIN l : i <= j
         IN  [next_seq |-> k + 1,
              hash |-> EntryHash(k, l[k].prev, l[k].payload)]

\* recover_head: the last entry decides; links are not checked.
RecoverHead(l) ==
    IF DOMAIN l = {} THEN [next_seq |-> 0, hash |-> GENESIS]
    ELSE LET k == CHOOSE i \in DOMAIN l : \A j \in DOMAIN l : j <= i
         IN  [next_seq |-> k + 1,
              hash |-> EntryHash(k, l[k].prev, l[k].payload)]

Busy == [pc : {"locked", "stored"}, seq : Nat, entry : Entry]
Idle == [pc |-> "idle"]

\* An audit: scanned the store, accepted the chain, counted the entries.
IdleAudit     == [pc |-> "idle",     snap |-> <<>>, count |-> 0]
Scanned(snap) == [pc |-> "scanned",  snap |-> snap, count |-> 0]

\* (the scan itself is kept for SignedIntact only)
Accepted(snap)   == [pc |-> "accepted", snap |-> snap, count |-> 0]
Counted(snap, n) == [pc |-> "counted",  snap |-> snap, count |-> n]

-----------------------------------------------------------------------------
(* append *)

\* Mutant: the head is read before the mutex is taken.
LockHead_Early(a, p) ==
    /\ req[a].pc = "idle"
    /\ head.next_seq < MaxEntries
    /\ lock' = a
    /\ req' = [req EXCEPT ![a] =
                 [pc |-> "locked", seq |-> head.next_seq,
                  entry |-> [prev |-> head.hash, payload |-> p]]]
    /\ UNCHANGED <<log, head, aud, edits, restarts, ledger, reports, manifest>>

\* The mutex is taken and the entry built from the head.
LockHead(a, p) ==
    /\ req[a].pc = "idle"
    /\ lock = Free
    /\ head.next_seq < MaxEntries
    /\ lock' = a
    /\ req' = [req EXCEPT ![a] =
                 [pc |-> "locked", seq |-> head.next_seq,
                  entry |-> [prev |-> head.hash, payload |-> p]]]
    /\ UNCHANGED <<log, head, aud, edits, restarts, ledger, reports, manifest>>

\* The store commits the entry ...
PutEntry(a) ==
    /\ req[a].pc = "locked"
    /\ log' = Put(log, req[a].seq, req[a].entry)
    /\ req' = [req EXCEPT ![a].pc = "stored"]
    /\ UNCHANGED <<head, lock, aud, edits, restarts, ledger, reports, manifest>>

\* Mutant: the head advances although nothing was written.
PutFails_Advance(a) ==
    /\ req[a].pc = "locked"
    /\ lock' = Free
    /\ head' = [next_seq |-> req[a].seq + 1,
                hash |-> EntryHash(req[a].seq, req[a].entry.prev,
                                   req[a].entry.payload)]
    /\ req' = [req EXCEPT ![a] = Idle]
    /\ UNCHANGED <<log, aud, edits, restarts, ledger, reports, manifest>>

\* ... or refuses it, and append returns with the head as it was.
PutFails(a) ==
    /\ req[a].pc = "locked"
    /\ lock' = Free
    /\ req' = [req EXCEPT ![a] = Idle]
    /\ UNCHANGED <<log, head, aud, edits, restarts, ledger, reports, manifest>>

\* The head advances to the new entry, the mutex is released, and the sequence
\* number is returned.
AdvanceHead(a) ==
    LET r == req[a]
    IN  /\ r.pc = "stored"
        /\ head' = [next_seq |-> r.seq + 1,
                    hash |-> EntryHash(r.seq, r.entry.prev, r.entry.payload)]
        /\ lock' = Free
        /\ req' = [req EXCEPT ![a] = Idle]
        /\ acked' = acked \cup {<<r.seq, r.entry.payload>>}
        /\ trusted' = Put(trusted, r.seq, r.entry.payload)
        /\ UNCHANGED <<log, aud, edits, restarts, reports, manifest>>

-----------------------------------------------------------------------------
(* verify *)

\* read_raw: the whole domain, without the mutex.
Scan(v) ==
    /\ aud[v].pc = "idle"
    /\ aud' = [aud EXCEPT ![v] = Scanned(log)]
    /\ UNCHANGED <<log, head, lock, req, edits, restarts, ledger, reports,
                   manifest>>

Linked(l) == Chain(l, Cardinality(DOMAIN l))

\* A sequence gap or a broken link: reported before the mutex is taken.
ReportBreak(v) ==
    /\ aud[v].pc = "scanned"
    /\ ~Linked(aud[v].snap)
    /\ reports' = reports \cup {"break"}
    /\ aud' = [aud EXCEPT ![v] = IdleAudit]
    /\ UNCHANGED <<log, head, lock, req, edits, restarts, ledger, manifest>>

\* Mutant: the final hash is not compared.
MatchesHead_SeqOnly(l) == head.next_seq = Cardinality(DOMAIN l)

\* What verify compares, holding the mutex.
MatchesHead(l) ==
    LET n == Cardinality(DOMAIN l)
    IN  head.next_seq = n /\ head.hash = Below(l, n)

ReportMismatch(v) ==
    /\ aud[v].pc = "scanned"
    /\ Linked(aud[v].snap)
    /\ lock = Free
    /\ ~MatchesHead(aud[v].snap)
    /\ reports' = reports \cup {"mismatch"}
    /\ aud' = [aud EXCEPT ![v] = IdleAudit]
    /\ UNCHANGED <<log, head, lock, req, edits, restarts, ledger, manifest>>

\* Mutant: a chain is accepted without its links being checked.
AcceptChain_Unlinked(v) ==
    /\ aud[v].pc = "scanned"
    /\ lock = Free
    /\ aud' = [aud EXCEPT ![v] = Accepted(aud[v].snap)]
    /\ UNCHANGED <<log, head, lock, req, edits, restarts, ledger, reports,
                   manifest>>

AcceptChain(v) ==
    /\ aud[v].pc = "scanned"
    /\ Linked(aud[v].snap)
    /\ lock = Free
    /\ MatchesHead(aud[v].snap)
    /\ aud' = [aud EXCEPT ![v] = Accepted(aud[v].snap)]
    /\ UNCHANGED <<log, head, lock, req, edits, restarts, ledger, reports,
                   manifest>>

-----------------------------------------------------------------------------
(* Callers of verify: the admin command, and sign_audit_export *)

VerifyReturns(v) ==
    /\ aud[v].pc = "accepted"
    /\ aud' = [aud EXCEPT ![v] = IdleAudit]
    /\ UNCHANGED <<log, head, lock, req, edits, restarts, ledger, reports,
                   manifest>>

\* audit.count() scans the store again ...
CountEntries(v) ==
    /\ aud[v].pc = "accepted"
    /\ aud' = [aud EXCEPT ![v] =
                 Counted(aud[v].snap, Cardinality(DOMAIN log))]
    /\ UNCHANGED <<log, head, lock, req, edits, restarts, ledger, reports,
                   manifest>>

\* Mutant: the head is read without the mutex.
SignManifest_Unlocked(v) ==
    /\ aud[v].pc = "counted"
    /\ manifest' = [entry_count |-> aud[v].count, head_hash |-> head.hash]
    /\ aud' = [aud EXCEPT ![v] = IdleAudit]
    /\ UNCHANGED <<log, head, lock, req, edits, restarts, ledger, reports>>

\* ... and audit.head_hash() takes the mutex for the hash that is signed.
SignManifest(v) ==
    /\ aud[v].pc = "counted"
    /\ lock = Free
    /\ manifest' = [entry_count |-> aud[v].count, head_hash |-> head.hash]
    /\ aud' = [aud EXCEPT ![v] = IdleAudit]
    /\ UNCHANGED <<log, head, lock, req, edits, restarts, ledger, reports>>

-----------------------------------------------------------------------------
(* What happens to the store and the process *)

\* An entry of the store is overwritten or removed behind the service's back;
\* the link of an overwritten entry is preserved.
OverwriteEntry(k, p) ==
    /\ edits < MaxEdits
    /\ k \in DOMAIN log
    /\ log[k].payload # p
    /\ log' = [log EXCEPT ![k].payload = p]
    /\ edits' = edits + 1
    /\ UNCHANGED <<head, lock, req, aud, restarts, ledger, reports, manifest>>

RemoveEntry(k) ==
    /\ edits < MaxEdits
    /\ k \in DOMAIN log
    /\ log' = [j \in DOMAIN log \ {k} |-> log[j]]
    /\ edits' = edits + 1
    /\ UNCHANGED <<head, lock, req, aud, restarts, ledger, reports, manifest>>

\* The process dies and build() recovers the head: from here on the service
\* vouches for what the last entry it found commits to.
Restart ==
    /\ restarts < MaxRestarts
    /\ restarts' = restarts + 1
    /\ head' = RecoverHead(log)
    /\ lock' = Free
    /\ req' = [a \in Appender |-> Idle]
    /\ aud' = [v \in Auditor |-> IdleAudit]
    /\ trusted' = Committed(RecoverHead(log).hash)
    /\ UNCHANGED <<log, edits, acked, reports, manifest>>

-----------------------------------------------------------------------------
Init ==
    /\ log = <<>>
    /\ head = RecoverHead(log)
    /\ lock = Free
    /\ req = [a \in Appender |-> Idle]
    /\ aud = [v \in Auditor |-> IdleAudit]
    /\ edits = 0
    /\ restarts = 0
    /\ acked = {}
    /\ trusted = <<>>
    /\ reports = {}
    /\ manifest = [entry_count |-> 0, head_hash |-> GENESIS]

AppendStep(a) == \/ \E p \in Payload : LockHead(a, p)
                 \/ PutEntry(a)
                 \/ PutFails(a)
                 \/ AdvanceHead(a)

AuditStep(v) == \/ Scan(v)
                \/ ReportBreak(v)
                \/ ReportMismatch(v)
                \/ AcceptChain(v)
                \/ VerifyReturns(v)
                \/ CountEntries(v)
                \/ SignManifest(v)

Edit == \E k \in DOMAIN log : \/ \E p \in Payload : OverwriteEntry(k, p)
                              \/ RemoveEntry(k)

Next == \/ \E a \in Appender : AppendStep(a)
        \/ \E v \in Auditor : AuditStep(v)
        \/ Edit
        \/ Restart

Spec == Init /\ [][Next]_vars

-----------------------------------------------------------------------------
(* Properties *)

\* Every variable holds a value of the kind the code gives it.
TypeOK ==
    /\ DOMAIN log \subseteq Nat
    /\ IsFiniteSet(DOMAIN log)
    /\ \A k \in DOMAIN log : log[k] \in Entry
    /\ head \in [next_seq : Nat, hash : Hash]
    /\ lock \in Appender \cup {Free}
    /\ req \in [Appender -> Busy \cup {Idle}]
    /\ DOMAIN aud = Auditor
    /\ \A v \in Auditor :
          /\ aud[v].pc \in {"idle", "scanned", "accepted", "counted"}
          /\ \A k \in DOMAIN aud[v].snap : aud[v].snap[k] \in Entry
          /\ aud[v].count \in Nat
    /\ edits \in Nat
    /\ restarts \in Nat
    /\ acked \subseteq Nat \X Payload
    /\ reports \subseteq {"break", "mismatch"}
    /\ manifest \in [entry_count : Nat, head_hash : Hash]

\* An append that has written its entry holds the mutex until the head follows.
Tip == IF \E a \in Appender : req[a].pc = "stored" THEN head.next_seq + 1
       ELSE head.next_seq

\* Whatever appends, failures and crashes interleave, an unedited store is one
\* unbroken chain, and the head in memory is its last entry, or the last but
\* one while an append is between the store and the head.
ChainIntact ==
    edits = 0 => /\ Chain(log, Tip)
                 /\ head.hash = Below(log, head.next_seq)

\* An append that returned a sequence number is in the store under it: no other
\* append gets the number, before or after a crash.
AckedKept ==
    edits = 0 => \A e \in acked : /\ e[1] \in DOMAIN log
                                  /\ log[e[1]].payload = e[2]

\* verify reports a gap or a broken link only for a store that was edited, even
\* though it scans while appends are half way.
NoFalseBreak == "break" \in reports => edits > 0

\* verify accepts only a store that holds exactly what the last entry committed
\* to at startup and what this process appended since: any other edit, of the
\* first, a middle or the last entry, is noticed.
TamperEvident ==
    [][\A v \in Auditor :
          aud[v].pc # "accepted" /\ aud'[v].pc = "accepted"
             => Payloads(aud'[v].snap) = trusted]_vars

\* A signed head hash commits to every entry of the store as verify read it:
\* what is signed was verified, or appended by this process since.
SignedIntact ==
    [][\A v \in Auditor :
          aud[v].pc = "counted" /\ aud'[v].pc = "idle" /\ restarts' = restarts
             => Commits(manifest'.head_hash, aud[v].snap)]_vars

\* A signed head hash covers at least as many entries as the manifest counts,
\* even though the count reads the store while an append has stored its entry
\* and not yet moved the head.  (It may cover more: appends go on in between.)
ManifestCovers ==
    edits = 0 => manifest.entry_count <= Len(manifest.head_hash)

-----------------------------------------------------------------------------
(* The inductive invariant behind the chain's properties *)

\* A task in the middle of append owns the mutex, and the entry it works on
\* continues the head.
Exclusive ==
    \A a \in Appender :
        req[a] # Idle => /\ lock = a
                         /\ req[a].seq = head.next_seq
                         /\ req[a].entry.prev = head.hash

\* What was written and not yet followed by the head is that entry; what was
\* acknowledged lies below it.
Written ==
    edits = 0 =>
        /\ \A a \in Appender :
              req[a].pc = "stored" => log[head.next_seq] = req[a].entry
        /\ \A e \in acked : e[1] < head.next_seq

\* A scan of an unedited store finds a chain.
ScansLinked ==
    edits = 0 => \A v \in Auditor :
                    aud[v].pc = "scanned" => Linked(aud[v].snap)

\* The head and every entry carry a hash over as many entries as precede them.
Numbered ==
    /\ Len(head.hash) = head.next_seq
    /\ \A k \in DOMAIN log : Len(log[k].prev) = k

\* The head commits to what the process vouches for, and goes on committing to
\* every scan that it matched.
Vouched ==
    /\ trusted = Committed(head.hash)
    /\ \A v \in Auditor : aud[v].pc \in {"accepted", "counted"}
                             => Commits(head.hash, aud[v].snap)

\* A count that is about to be signed is one the head reaches before the mutex
\* is free.
Reached ==
    edits = 0 => \A v \in Auditor : aud[v].pc = "counted" => aud[v].count <= Tip

IInv == /\ TypeOK
        /\ ChainIntact
        /\ AckedKept
        /\ NoFalseBreak
        /\ Exclusive
        /\ Written
        /\ ScansLinked

=============================================================================
