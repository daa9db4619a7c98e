---------------------------- MODULE OvsdbProofs -----------------------------
(***************************************************************************)
(* Proofs about two parts of ovsdb-server.                                 *)
(*                                                                         *)
(* Locks, for any number of clients, tools, locks, sessions and events:    *)
(* the queues and the waiters of the sessions always agree.                *)
(*                                                                         *)
(* AfSync: log.c with its fsync thread implements LogCommit.               *)
(***************************************************************************)
EXTENDS AfSync, Locks, TLAPS

\* A leaf that names no prover is tried with Zenon and then with SMT.
USE ZenonT(30), SMTT(120), ZenonT(120)

---------------------------------------------------------------------------
(* Sequences.                                                              *)

\* An element of a sequence.
LEMMA ElementOfSeq ==
    ASSUME NEW S, NEW s \in Seq(S), NEW n \in 1 .. Len(s)
    PROVE  s[n] \in S
  BY SMTT(60)

\* The length of a sequence, and the sequence as a function.
LEMMA LenProperties ==
    ASSUME NEW S, NEW s \in Seq(S)
    PROVE  Len(s) \in Nat /\ s \in [1 .. Len(s) -> S] /\ DOMAIN s = 1 .. Len(s)
  BY SMTT(60)

\* The empty sequence.
LEMMA EmptySeq ==
    ASSUME NEW S
    PROVE  /\ << >> \in Seq(S) /\ Len(<< >>) = 0
           /\ \A s \in Seq(S) : s # << >> => Len(s) \in Nat \ {0}
  BY SMTT(60)

\* Two sequences with the same elements.
LEMMA SeqEqual ==
    ASSUME NEW S, NEW s \in Seq(S), NEW t \in Seq(S),
           Len(s) = Len(t), \A i \in 1 .. Len(s) : s[i] = t[i]
    PROVE  s = t
  BY SMTT(60)

\* One sequence after another.
LEMMA ConcatProperties ==
    ASSUME NEW S, NEW s \in Seq(S), NEW t \in Seq(S)
    PROVE  /\ s \o t \in Seq(S) /\ Len(s \o t) = Len(s) + Len(t)
           /\ \A i \in 1 .. Len(s) + Len(t) :
                 (s \o t)[i] = IF i <= Len(s) THEN s[i] ELSE t[i - Len(s)]
  BY SMTT(60)

\* The empty sequence after another.
LEMMA ConcatEmptySeq ==
    ASSUME NEW S, NEW s \in Seq(S)
    PROVE  s \o << >> = s /\ << >> \o s = s
  BY SMTT(60)

\* Part of a sequence.
LEMMA SubSeqProperties ==
    ASSUME NEW S, NEW s, NEW m \in Int, NEW n \in Int, \A i \in m .. n : s[i] \in S
    PROVE  /\ SubSeq(s, m, n) \in Seq(S)
           /\ Len(SubSeq(s, m, n)) = IF m <= n THEN n - m + 1 ELSE 0
           /\ \A i \in 1 .. n - m + 1 : SubSeq(s, m, n)[i] = s[m + i - 1]
  BY SMTT(60)

\* A sequence without its first n elements.
LEMMA SuffixProperties ==
    ASSUME NEW S, NEW s \in Seq(S), NEW n \in 0 .. Len(s)
    PROVE  /\ SubSeq(s, n + 1, Len(s)) \in Seq(S)
           /\ Len(SubSeq(s, n + 1, Len(s))) = Len(s) - n
           /\ \A i \in 1 .. Len(s) - n :
                 SubSeq(s, n + 1, Len(s))[i] = s[n + i] /\ n + i \in 1 .. Len(s)
  BY SMTT(60)

\* All of a sequence.
LEMMA SubSeqFull ==
    ASSUME NEW S, NEW s \in Seq(S)
    PROVE  SubSeq(s, 1, Len(s)) = s
  BY SMTT(60)

\* The first element, and the others.
LEMMA HeadTailProperties ==
    ASSUME NEW S, NEW s \in Seq(S), s # << >>
    PROVE  /\ Head(s) \in S /\ Tail(s) \in Seq(S) /\ Len(Tail(s)) = Len(s) - 1
           /\ \A i \in 1 .. Len(Tail(s)) : Tail(s)[i] = s[i + 1]
  BY SMTT(60)

\* One more element.
LEMMA AppendProperties ==
    ASSUME NEW S, NEW s \in Seq(S), NEW e \in S
    PROVE  /\ Append(s, e) \in Seq(S) /\ Append(s, e) # << >>
           /\ Len(Append(s, e)) = Len(s) + 1
           /\ \A i \in 1 .. Len(s) : Append(s, e)[i] = s[i]
           /\ Append(s, e)[Len(s) + 1] = e
  BY SMTT(60)

---------------------------------------------------------------------------
(* The locks.                                                              *)


Db == [lock_name : Lock \cup {NoLock}, has_lock : BOOLEAN, is_lock_contended : BOOLEAN,
       lock_request_id : Nat, n_ids : Nat]
Req == [method : {"lock", "steal", "unlock"}, name : Lock, id : Nat]

---------------------------------------------------------------------------
(* Queues.                                                                 *)

Injective(q) == \A i, j \in DOMAIN q : q[i] = q[j] => i = j
Has(q, s) == \E i \in DOMAIN q : q[i] = s

\* A waiter that leaves a queue: the others keep their order, and only the first
\* element may be one that was not first before.
LEMMA WithoutLeaves ==
    ASSUME NEW S, NEW q \in Seq(S), NEW s, Injective(q)
    PROVE  /\ Without(q, s) \in Seq(S)
           /\ Injective(Without(q, s))
           /\ ~Has(Without(q, s), s)
           /\ \A t : t # s /\ Has(q, t) => Has(Without(q, s), t)
           /\ \A i \in DOMAIN Without(q, s) :
                 \E j \in DOMAIN q : Without(q, s)[i] = q[j] /\ (j = 1 => i = 1)
<1>0. Len(q) \in Nat /\ DOMAIN q = 1 .. Len(q)
    BY LenProperties
<1>1. CASE ~Has(q, s)
    BY <1>1 DEF Has, Without
<1>2. CASE Has(q, s)
    <2> DEFINE k == CHOOSE i \in DOMAIN q : q[i] = s
               a == SubSeq(q, 1, k - 1)
               b == SubSeq(q, k + 1, Len(q))
    <2>1. k \in 1 .. Len(q) /\ q[k] = s
        BY <1>0, <1>2 DEF Has
    <2>2. Without(q, s) = a \o b
        BY <1>2 DEF Has, Without
    <2> HIDE DEF k
    <2>3. a \in Seq(S) /\ Len(a) = k - 1 /\ \A i \in 1 .. k - 1 : a[i] = q[i]
        BY <1>0, <2>1, SubSeqProperties, SMTT(60)
    <2>4. b \in Seq(S) /\ Len(b) = Len(q) - k /\ \A i \in 1 .. Len(q) - k : b[i] = q[k + i]
        <3>1. /\ b \in Seq(S)
              /\ Len(b) = IF k + 1 <= Len(q) THEN Len(q) - (k + 1) + 1 ELSE 0
              /\ \A i \in 1 .. Len(q) - (k + 1) + 1 : b[i] = q[(k + 1) + i - 1]
            <4>1. \A i \in k + 1 .. Len(q) : q[i] \in S
                BY <1>0, <2>1, ElementOfSeq, SMTT(60)
            <4>2. k + 1 \in Int /\ Len(q) \in Int
                BY <1>0, <2>1, SMTT(60)
            <4> QED
                BY <1>0, <2>1, <4>1, <4>2, SubSeqProperties, SMTT(60)
        <3> HIDE DEF b
        <3>2. Len(q) - (k + 1) + 1 = Len(q) - k /\ (~(k + 1 <= Len(q)) => Len(q) - k = 0)
            <4>1. k \in Int /\ Len(q) \in Int /\ k <= Len(q)
                BY <1>0, <2>1, SMTT(60)
            <4> QED
                BY <4>1, SMTT(60)
        <3>4. Len(b) = Len(q) - k
            BY <3>1, <3>2
        <3>3. \A i \in 1 .. Len(q) - k : (k + 1) + i - 1 = k + i
            BY <1>0, <2>1, SMTT(60)
        <3> QED
            BY <3>1, <3>2, <3>3, <3>4
    <2> HIDE DEF a, b
    <2> DEFINE w == a \o b
    <2>5. /\ w \in Seq(S) /\ Len(w) = Len(q) - 1 /\ DOMAIN w = 1 .. Len(q) - 1
          /\ \A i \in 1 .. Len(q) - 1 : w[i] = IF i < k THEN q[i] ELSE q[i + 1]
        <3>1. w \in Seq(S) /\ Len(w) = Len(a) + Len(b)
              /\ \A i \in 1 .. Len(a) + Len(b) : w[i] = IF i <= Len(a) THEN a[i] ELSE b[i - Len(a)]
            BY <2>3, <2>4, ConcatProperties
        <3>2. Len(a) + Len(b) = Len(q) - 1
            BY <1>0, <2>1, <2>3, <2>4, SMTT(60)
        <3>3. DOMAIN w = 1 .. Len(q) - 1
            BY <3>1, <3>2, LenProperties
        <3>4. ASSUME NEW i \in 1 .. Len(q) - 1
              PROVE  w[i] = IF i < k THEN q[i] ELSE q[i + 1]
            <4>1. CASE i < k
                BY <1>0, <2>1, <2>3, <3>1, <3>2, <4>1, SMTT(60)
            <4>2. CASE ~(i < k)
                <5>1. w[i] = b[i - (k - 1)]
                    BY <1>0, <2>1, <2>3, <3>1, <3>2, <4>2, SMTT(60)
                <5>2. i - (k - 1) \in 1 .. Len(q) - k /\ k + (i - (k - 1)) = i + 1
                    BY <1>0, <2>1, <4>2, SMTT(60)
                <5> QED
                    BY <2>4, <4>2, <5>1, <5>2
            <4> QED
                BY <4>1, <4>2
        <3> QED
            BY <3>1, <3>2, <3>3, <3>4
    <2> HIDE DEF w
    <2>6. Injective(w)
        <3> SUFFICES ASSUME NEW i \in 1 .. Len(q) - 1, NEW j \in 1 .. Len(q) - 1, w[i] = w[j]
                     PROVE  i = j
            BY <2>5 DEF Injective
        <3>1. \A m, n \in 1 .. Len(q) : q[m] = q[n] => m = n
            BY <1>0 DEF Injective
        <3>2. (IF i < k THEN i ELSE i + 1) \in 1 .. Len(q) /\ (IF j < k THEN j ELSE j + 1) \in 1 .. Len(q)
            BY <1>0, <2>1, SMTT(60)
        <3>3. (IF i < k THEN i ELSE i + 1) = (IF j < k THEN j ELSE j + 1)
            BY <2>5, <3>1, <3>2
        <3> QED
            BY <2>1, <3>3, SMTT(60)
    <2>7. ~Has(w, s)
        <3> SUFFICES ASSUME NEW i \in 1 .. Len(q) - 1, w[i] = s
                     PROVE  FALSE
            BY <2>5 DEF Has
        <3>1. (IF i < k THEN i ELSE i + 1) \in 1 .. Len(q) /\ (IF i < k THEN i ELSE i + 1) # k
            BY <1>0, <2>1, SMTT(60)
        <3> QED
            BY <1>0, <2>1, <2>5, <3>1 DEF Injective
    <2>8. ASSUME NEW t, t # s, Has(q, t)
          PROVE  Has(w, t)
        <3>1. PICK i \in 1 .. Len(q) : q[i] = t
            BY <1>0, <2>8 DEF Has
        <3>2. CASE i < k
            BY <1>0, <2>1, <2>5, <3>1, <3>2, SMTT(60) DEF Has
        <3>3. CASE i > k
            <4>1. i - 1 \in 1 .. Len(q) - 1 /\ ~(i - 1 < k) /\ (i - 1) + 1 = i
                BY <1>0, <2>1, <3>3, SMTT(60)
            <4>2. w[i - 1] = t
                BY <2>5, <3>1, <4>1
            <4> QED
                BY <2>5, <4>1, <4>2 DEF Has
        <3> QED
            BY <1>0, <2>1, <2>8, <3>1, <3>2, <3>3, SMTT(60)
    <2>9. ASSUME NEW i \in 1 .. Len(q) - 1
          PROVE  \E j \in 1 .. Len(q) : w[i] = q[j] /\ (j = 1 => i = 1)
        <3>1. CASE i < k
            BY <1>0, <2>5, <3>1, SMTT(60)
        <3>2. CASE ~(i < k)
            <4>1. i + 1 \in 1 .. Len(q) /\ i + 1 # 1 /\ w[i] = q[i + 1]
                BY <1>0, <2>1, <2>5, <3>2, SMTT(60)
            <4> QED
                BY <4>1
        <3> QED
            BY <3>1, <3>2
    <2> QED
        <3>1. Without(q, s) = w
            BY <2>2 DEF w
        <3> QED
            BY <1>0, <2>5, <2>6, <2>7, <2>8, <2>9, <3>1
<1> QED
    BY <1>1, <1>2

---------------------------------------------------------------------------
(* Messages and views.                                                     *)

\* The functions of the IDL keep its type, and only set_lock() changes the name.
LEMMA DbOperations ==
    ASSUME NEW db \in Db
    PROVE  /\ compose_lock_request(db) \in Db /\ compose_unlock_request(db) \in Db
           /\ \A b \in BOOLEAN : got_lock(db, b) \in Db
           /\ \A b \in BOOLEAN : got_lock([db EXCEPT !.lock_request_id = NoRequest], b) \in Db
<1>1. ASSUME NEW d \in Db, NEW b \in BOOLEAN
      PROVE  update_has_lock(d, b) \in Db
    BY DEF update_has_lock, Db
<1>2. compose_lock_request(db) \in Db /\ compose_unlock_request(db) \in Db
    <2>1. update_has_lock(db, FALSE) \in Db /\ db.n_ids + 1 \in Nat /\ update_has_lock(db, FALSE).n_ids + 1 \in Nat
        <3>1. update_has_lock(db, FALSE) \in Db
            BY <1>1
        <3>2. db.n_ids \in Nat /\ update_has_lock(db, FALSE).n_ids \in Nat
            BY <3>1 DEF Db
        <3>3. \A n \in Nat : n + 1 \in Nat
            BY SMTT(60)
        <3> QED
            BY <3>1, <3>2, <3>3
    <2> QED
        BY <2>1 DEF compose_lock_request, compose_unlock_request, Db, NoRequest
<1>3. ASSUME NEW d \in Db, NEW b \in BOOLEAN
      PROVE  got_lock(d, b) \in Db
    BY <1>1 DEF got_lock, Db
<1>4. [db EXCEPT !.lock_request_id = NoRequest] \in Db
    BY DEF Db, NoRequest
<1> QED
    BY <1>2, <1>3, <1>4

\* What a client makes of a message.
LEMMA ProcessType ==
    ASSUME NEW db \in Db, NEW msg \in Message
    PROVE  process_lock_replies(db, msg) \in Db
<1>1. CASE msg.type = "reply"
    <2>1. msg.locked \in BOOLEAN
        BY <1>1 DEF Message
    <2> QED
        BY <1>1, <2>1, DbOperations DEF process_lock_replies
<1>2. CASE msg.type # "reply"
    <2>1. (msg.type = "locked") \in BOOLEAN
        OBVIOUS
    <2> QED
        BY <1>2, <2>1, DbOperations DEF process_lock_replies
<1> QED
    BY <1>1, <1>2

\* A message at the end of a session's queue.
LEMMA SendType ==
    ASSUME NEW out \in [Session -> Seq(Message)], NEW s \in Session, NEW msg \in Message
    PROVE  Send(out, s, msg) \in [Session -> Seq(Message)]
<1>1. Append(out[s], msg) \in Seq(Message)
    BY AppendProperties
<1> QED
    BY <1>1 DEF Send

---------------------------------------------------------------------------
(* The steps.                                                              *)

\* The waiters of a session leave the queues of the locks in S.
LEMMA LeaveSound ==
    ASSUME LockInv, NEW s \in Session, NEW S \in SUBSET Lock,
           queue' = Leaves(s, S), mode' = Forgets(s, S), sessions \ {s} \subseteq sessions',
           s \in sessions => s \in sessions' \/ \A l \in Lock \ S : mode[s][l] = "none"
    PROVE  /\ QueueSound'
           /\ mode' \in [Session -> [Lock -> {"none", "lock", "steal"}]]
           /\ queue' \in [Lock -> Seq(Session)]
<1> USE DEF LockInv
<1>1. \A l \in Lock : queue[l] \in Seq(Session) /\ Injective(queue[l])
    BY DEF LockTypeOK, QueueSound, Injective
<1>2. \A l \in Lock : /\ queue'[l] = IF l \in S THEN Without(queue[l], s) ELSE queue[l]
                      /\ queue'[l] \in Seq(Session) /\ Injective(queue'[l])
    BY <1>1, WithoutLeaves DEF Leaves
<1>3. mode' \in [Session -> [Lock -> {"none", "lock", "steal"}]]
    BY DEF Forgets, LockTypeOK
<1>4. \A t \in Session, l \in Lock : mode'[t][l] = IF t = s /\ l \in S THEN "none" ELSE mode[t][l]
    BY DEF Forgets, LockTypeOK
<1>5. queue' \in [Lock -> Seq(Session)]
    BY <1>2 DEF Leaves
<1>6. ASSUME NEW l \in Lock, NEW i \in DOMAIN queue'[l]
      PROVE  /\ queue'[l][i] \in sessions'
             /\ mode'[queue'[l][i]][l] \in IF i = 1 THEN {"lock", "steal"} ELSE {"lock"}
    <2>0. \A j \in DOMAIN queue[l] : /\ queue[l][j] \in sessions /\ queue[l][j] \in Session
                                     /\ mode[queue[l][j]][l] \in IF j = 1 THEN {"lock", "steal"} ELSE {"lock"}
        BY <1>1, ElementOfSeq, LenProperties, SMTT(60) DEF QueueSound
    <2>1. CASE l \in S
        <3>1. PICK j \in DOMAIN queue[l] : queue'[l][i] = queue[l][j] /\ (j = 1 => i = 1)
            BY <1>1, <1>2, <2>1, WithoutLeaves, SMTT(60)
        <3>2. queue[l][j] # s
            BY <1>1, <1>2, <1>6, <2>1, <3>1, WithoutLeaves, SMTT(60) DEF Has
        <3> QED
            BY <1>4, <2>0, <3>1, <3>2, SMTT(60)
    <2>2. CASE l \notin S
        <3>1. queue'[l] = queue[l]
            BY <1>2, <2>2
        <3>2. queue[l][i] \in sessions'
            BY <1>6, <2>0, <2>2, <3>1, SMTT(60)
        <3> QED
            BY <1>4, <1>6, <2>0, <2>2, <3>1, <3>2, SMTT(60)
    <2> QED
        BY <2>1, <2>2
<1>7. ASSUME NEW l \in Lock, NEW t \in Session, mode'[t][l] = "lock"
      PROVE  \E i \in DOMAIN queue'[l] : queue'[l][i] = t
    <2>1. mode[t][l] = "lock" /\ ~(t = s /\ l \in S)
        BY <1>4, <1>7
    <2>2. Has(queue[l], t)
        BY <2>1 DEF QueueSound, Waits, Has
    <2>3. Has(queue'[l], t)
        BY <1>1, <1>2, <2>1, <2>2, WithoutLeaves, SMTT(60)
    <2> QED
        BY <2>3 DEF Has
<1>8. QueueSound'
    BY <1>2, <1>6, <1>7 DEF QueueSound, Waits, Injective
<1> QED
    BY <1>3, <1>5, <1>8

\* A request of "lock" or "steal": the new waiter is last or first in the queue.
LEMMA LockSound ==
    ASSUME LockInv, NEW s \in sessions, NEW l \in Lock, NEW how \in {"lock", "steal"},
           mode[s][l] = "none",
           queue' = [queue EXCEPT ![l] = ovsdb_server_lock(l, s, how)],
           mode' = [mode EXCEPT ![s][l] = how],
           sessions' = sessions
    PROVE  /\ QueueSound'
           /\ mode' \in [Session -> [Lock -> {"none", "lock", "steal"}]]
           /\ queue' \in [Lock -> Seq(Session)]
<1> USE DEF LockInv
<1> DEFINE q == queue[l]
           new == ovsdb_server_lock(l, s, how)
<1>0. s \in Session /\ q \in Seq(Session) /\ Len(q) \in Nat /\ DOMAIN q = 1 .. Len(q)
    <2>1. sessions \subseteq Session
        BY SessionAssumption, SMTT(60) DEF LockTypeOK, Session
    <2> QED
        BY <2>1, LenProperties DEF LockTypeOK
<1>1. \A t \in Session, k \in Lock : mode'[t][k] = IF t = s /\ k = l THEN how ELSE mode[t][k]
    BY <1>0 DEF LockTypeOK
<1>2. mode' \in [Session -> [Lock -> {"none", "lock", "steal"}]]
    BY <1>0 DEF LockTypeOK
<1>3. \A j \in 1 .. Len(q) : /\ q[j] \in sessions /\ q[j] \in Session /\ q[j] # s
                             /\ mode[q[j]][l] \in IF j = 1 THEN {"lock", "steal"} ELSE {"lock"}
    BY <1>0, ElementOfSeq DEF QueueSound
<1>4. /\ \A i, j \in 1 .. Len(q) : q[i] = q[j] => i = j
      /\ \A t \in Session : mode[t][l] = "lock" => \E i \in 1 .. Len(q) : q[i] = t
    BY <1>0, SMTT(60) DEF QueueSound, Waits
<1>5. /\ new \in Seq(Session)
      /\ \A i, j \in DOMAIN new : new[i] = new[j] => i = j
      /\ \A i \in DOMAIN new : /\ new[i] \in sessions
                               /\ mode'[new[i]][l] \in IF i = 1 THEN {"lock", "steal"} ELSE {"lock"}
      /\ \A t \in Session : mode'[t][l] = "lock" => \E i \in DOMAIN new : new[i] = t
    <2>1. CASE how = "lock"
        <3>1. /\ new = Append(q, s) /\ new \in Seq(Session) /\ DOMAIN new = 1 .. Len(q) + 1
              /\ \A i \in 1 .. Len(q) : new[i] = q[i]
              /\ new[Len(q) + 1] = s
            BY <1>0, <2>1, AppendProperties, LenProperties, SMTT(60) DEF ovsdb_server_lock
        <3> HIDE DEF new, q
        <3>2. \A i \in 1 .. Len(q) + 1 : i \in 1 .. Len(q) \/ i = Len(q) + 1
            BY <1>0, SMTT(60)
        <3>3. \A i, j \in DOMAIN new : new[i] = new[j] => i = j
            BY <1>0, <1>3, <1>4, <3>1, <3>2, SMTT(60)
        <3>4. ASSUME NEW i \in DOMAIN new
              PROVE  /\ new[i] \in sessions
                     /\ mode'[new[i]][l] \in IF i = 1 THEN {"lock", "steal"} ELSE {"lock"}
            BY <1>0, <1>1, <1>3, <2>1, <3>1, <3>2, SMTT(60)
        <3>5. ASSUME NEW t \in Session, mode'[t][l] = "lock"
              PROVE  \E i \in DOMAIN new : new[i] = t
            <4>1. 1 .. Len(q) \subseteq 1 .. Len(q) + 1 /\ Len(q) + 1 \in 1 .. Len(q) + 1
                BY <1>0, SMTT(60)
            <4> QED
                BY <1>1, <1>4, <3>1, <3>5, <4>1, SMTT(60)
        <3> QED
            BY <3>1, <3>3, <3>4, <3>5
    <2>2. CASE how = "steal"
        <3> DEFINE stolen == q # <<>> /\ mode[Head(q)][l] = "steal"
                   rest == IF stolen THEN Tail(q) ELSE q
                   d == IF stolen THEN 1 ELSE 0
        <3>1. /\ rest \in Seq(Session) /\ Len(rest) = Len(q) - d /\ Len(rest) \in Nat /\ d \in {0, 1}
              /\ \A i \in 1 .. Len(rest) : rest[i] = q[i + d] /\ i + d \in 1 .. Len(q)
            <4>1. CASE stolen
                BY <1>0, <4>1, HeadTailProperties, EmptySeq, LenProperties, SMTT(60)
            <4>2. CASE ~stolen
                BY <1>0, <4>2, SMTT(60)
            <4> QED
                BY <4>1, <4>2
        <3>2. \A i \in 1 .. Len(rest) : mode[q[i + d]][l] = "lock"
            <4>1. CASE stolen
                <5>1. \A i \in 1 .. Len(rest) : i + d # 1
                    BY <3>1, <4>1, SMTT(60)
                <5> QED
                    BY <1>3, <3>1, <5>1
            <4>2. CASE ~stolen
                <5>1. ASSUME NEW i \in 1 .. Len(q)
                      PROVE  mode[q[i]][l] = "lock"
                    <6>1. CASE i = 1
                        BY <1>0, <1>3, <4>2, <6>1, HeadTailProperties, EmptySeq, SMTT(60)
                    <6>2. CASE i # 1
                        BY <1>3, <6>2
                    <6> QED
                        BY <6>1, <6>2
                <5> QED
                    BY <3>1, <4>2, <5>1
            <4> HIDE DEF stolen, rest, d
            <4> QED
                BY <4>1, <4>2
        <3>3. ASSUME NEW t \in Session, mode[t][l] = "lock"
              PROVE  \E i \in 1 .. Len(rest) : rest[i] = t
            <4>1. PICK i \in 1 .. Len(q) : q[i] = t
                BY <1>4, <3>3
            <4>2. i - d \in 1 .. Len(rest) /\ (i - d) + d = i
                <5>1. CASE stolen
                    <6>1. i # 1
                        BY <1>0, <3>3, <4>1, <5>1, HeadTailProperties, SMTT(60)
                    <6> QED
                        BY <1>0, <3>1, <5>1, <6>1, SMTT(60)
                <5>2. CASE ~stolen
                    BY <1>0, <3>1, <5>2, SMTT(60)
                <5> QED
                    BY <5>1, <5>2
            <4> QED
                BY <3>1, <4>1, <4>2
        <3>4. new = <<s>> \o rest
            BY <2>2 DEF ovsdb_server_lock
        <3> HIDE DEF rest, d, new, q
        <3>5. /\ new \in Seq(Session) /\ DOMAIN new = 1 .. Len(rest) + 1
              /\ new[1] = s /\ \A i \in 1 .. Len(rest) : new[i + 1] = rest[i]
            <4>1. <<s>> \in Seq(Session) /\ Len(<<s>>) = 1 /\ <<s>>[1] = s
                BY <1>0, SMTT(60)
            <4>2. /\ new \in Seq(Session) /\ Len(new) = 1 + Len(rest)
                  /\ \A i \in 1 .. 1 + Len(rest) : new[i] = IF i <= 1 THEN <<s>>[i] ELSE rest[i - 1]
                BY <3>1, <3>4, <4>1, ConcatProperties, SMTT(60)
            <4>3. 1 \in 1 .. 1 + Len(rest) /\ 1 + Len(rest) = Len(rest) + 1
                BY <3>1, SMTT(60)
            <4>4. \A i \in 1 .. Len(rest) : i + 1 \in 1 .. 1 + Len(rest) /\ ~(i + 1 <= 1) /\ (i + 1) - 1 = i
                BY <3>1, SMTT(60)
            <4>5. new[1] = s
                BY <4>1, <4>2, <4>3, SMTT(60)
            <4> QED
                BY <4>2, <4>3, <4>4, <4>5, LenProperties
        <3>6. \A i \in DOMAIN new : i = 1 \/ \E j \in 1 .. Len(rest) : i = j + 1
            <4> SUFFICES ASSUME NEW i \in 1 .. Len(rest) + 1, i # 1
                         PROVE  \E j \in 1 .. Len(rest) : i = j + 1
                BY <3>5
            <4>1. i - 1 \in 1 .. Len(rest) /\ i = (i - 1) + 1
                BY <3>1, SMTT(60)
            <4> QED
                BY <4>1
        <3>7. \A i \in 1 .. Len(rest) : /\ new[i + 1] = q[i + d] /\ i + d \in 1 .. Len(q) /\ i + 1 # 1
                                        /\ mode[q[i + d]][l] = "lock" /\ i + 1 \in DOMAIN new
            BY <3>1, <3>2, <3>5, SMTT(60)
        <3>8. ASSUME NEW i \in DOMAIN new, NEW j \in DOMAIN new, new[i] = new[j]
              PROVE  i = j
            <4>1. CASE i = 1 /\ j = 1
                BY <4>1
            <4>2. CASE i = 1 /\ j # 1
                <5>1. PICK n \in 1 .. Len(rest) : j = n + 1
                    BY <3>6, <4>2
                <5> QED
                    BY <1>3, <3>5, <3>7, <3>8, <4>2, <5>1
            <4>3. CASE i # 1 /\ j = 1
                <5>1. PICK m \in 1 .. Len(rest) : i = m + 1
                    BY <3>6, <4>3
                <5> QED
                    BY <1>3, <3>5, <3>7, <3>8, <4>3, <5>1
            <4>4. CASE i # 1 /\ j # 1
                <5>1. PICK m \in 1 .. Len(rest) : i = m + 1
                    BY <3>6, <4>4
                <5>2. PICK n \in 1 .. Len(rest) : j = n + 1
                    BY <3>6, <4>4
                <5>3. m + d = n + d
                    BY <1>4, <3>7, <3>8, <5>1, <5>2, SMTT(60)
                <5> QED
                    BY <3>1, <5>1, <5>2, <5>3, SMTT(60)
            <4> QED
                BY <4>1, <4>2, <4>3, <4>4
        <3>9. ASSUME NEW i \in DOMAIN new
              PROVE  /\ new[i] \in sessions
                     /\ mode'[new[i]][l] \in IF i = 1 THEN {"lock", "steal"} ELSE {"lock"}
            <4>1. CASE i = 1
                BY <1>0, <1>1, <2>2, <3>5, <4>1
            <4>2. CASE i # 1
                BY <1>1, <1>3, <3>6, <3>7, <4>2, SMTT(60)
            <4> QED
                BY <4>1, <4>2
        <3>10. ASSUME NEW t \in Session, mode'[t][l] = "lock"
               PROVE  \E i \in DOMAIN new : new[i] = t
            <4>1. mode[t][l] = "lock"
                BY <1>1, <2>2, <3>10, SMTT(60)
            <4>2. PICK i \in 1 .. Len(rest) : rest[i] = t
                BY <3>3, <4>1
            <4> QED
                BY <3>5, <3>7, <4>2
        <3> QED
            BY <3>5, <3>8, <3>9, <3>10
    <2> QED
        BY <2>1, <2>2
<1>6. queue' \in [Lock -> Seq(Session)] /\ queue'[l] = new /\ \A k \in Lock \ {l} : queue'[k] = queue[k]
    BY <1>5 DEF LockTypeOK
<1> HIDE DEF new, q
<1>7. ASSUME NEW k \in Lock
      PROVE  /\ \A i, j \in DOMAIN queue'[k] : queue'[k][i] = queue'[k][j] => i = j
             /\ \A i \in DOMAIN queue'[k] : /\ queue'[k][i] \in sessions'
                                            /\ mode'[queue'[k][i]][k] \in IF i = 1 THEN {"lock", "steal"}
                                                                        ELSE {"lock"}
             /\ \A t \in Session : mode'[t][k] = "lock" => \E i \in DOMAIN queue'[k] : queue'[k][i] = t
    <2>1. CASE k = l
        BY <1>5, <1>6, <2>1, SMTT(60)
    <2>2. CASE k # l
        <3>1. queue'[k] = queue[k] /\ \A t \in Session : mode'[t][k] = mode[t][k]
            BY <1>1, <1>6, <2>2, SMTT(60)
        <3>2. \A i \in DOMAIN queue[k] : queue[k][i] \in Session
            BY ElementOfSeq, LenProperties DEF LockTypeOK
        <3> QED
            BY <3>1, <3>2, SMTT(60) DEF QueueSound, Waits
    <2> QED
        BY <2>1, <2>2
<1> QED
    BY <1>2, <1>6, <1>7 DEF QueueSound, Waits

\* A request of the IDL for the lock that it wants.
LEMMA RequestType ==
    ASSUME NEW db \in Db, NEW m \in {"lock", "unlock"}, db.lock_name # NoLock
    PROVE  Request(m, db) \in Req
<1>1. db.lock_name \in Lock /\ db.n_ids \in Nat
    BY DEF Db
<1>2. db.n_ids + 1 \in Nat
    BY <1>1, SMTT(60)
<1> QED
    BY <1>1, <1>2 DEF Request, Req

\* The parts of the type invariant, for the records above.
LEMMA Types ==
    LockTypeOK <=>
    /\ idl \in [Client -> Db]
    /\ conn \in [Process -> Session \cup {NoSession}]
    /\ n_sessions \in Nat /\ sessions \subseteq 1 .. n_sessions /\ n_sessions <= MaxSession
    /\ mode \in [Session -> [Lock -> {"none", "lock", "steal"}]]
    /\ queue \in [Lock -> Seq(Session)]
    /\ requests \in [Session -> Seq(Req)]
    /\ replies \in [Session -> Seq(Message)]
BY DEF LockTypeOK, Db, Req

\* What is left of a queue of messages.
LEMMA RestType ==
    ASSUME NEW S, NEW q \in Seq(S)
    PROVE  /\ q # <<>> => Head(q) \in S /\ Tail(q) \in Seq(S)
           /\ \A k \in 0 .. Len(q) : SubSeq(q, 1, k) \in Seq(S)
<1>1. q # <<>> => Head(q) \in S /\ Tail(q) \in Seq(S)
    BY HeadTailProperties
<1>2. ASSUME NEW k \in 0 .. Len(q)
      PROVE  SubSeq(q, 1, k) \in Seq(S)
    <2>1. Len(q) \in Nat
        BY LenProperties
    <2>2. 1 \in Int /\ k \in Int /\ \A i \in 1 .. k : i \in 1 .. Len(q)
        BY <2>1, SMTT(60)
    <2>3. \A i \in 1 .. k : q[i] \in S
        BY <2>2, ElementOfSeq
    <2> QED
        BY <2>2, <2>3, SubSeqProperties
<1> QED
    BY <1>1, <1>2

\* The steps of the clients leave the queues and the waiters alone.
LEMMA ServerAlone ==
    ASSUME QueueSound, mode' = mode, queue' = queue, sessions \subseteq sessions'
    PROVE  QueueSound'
BY SMTT(60) DEF QueueSound, Waits

\* ovsdb_idl_db_set_lock(): only the client and its requests change.
LEMMA SetLockStep ==
    ASSUME LockInv, NEW c \in Client, NEW l \in Lock \cup {NoLock}, SetLock(c, l)
    PROVE  LockInv'
<1> DEFINE release == idl[c].lock_name # NoLock
           free == IF release THEN Released(c) ELSE idl[c]
           wants == [free EXCEPT !.lock_name = l]
           msgs == (IF release THEN <<Request("unlock", idl[c])>> ELSE <<>>)
                   \o (IF l # NoLock THEN <<Request("lock", wants)>> ELSE <<>>)
<1>0. /\ idl \in [Client -> Db] /\ idl[c] \in Db
      /\ conn[c] \in Session \cup {NoSession} /\ requests \in [Session -> Seq(Req)]
    BY Types DEF LockInv, Process
<1>1. free \in Db
    <2>1. Released(c) \in Db
        BY <1>0, DbOperations, ZenonT(60) DEF Released, Db
    <2> QED
        BY <1>0, <2>1
<1> HIDE DEF free
<1>2. wants \in Db /\ wants.lock_name = l
    BY <1>1 DEF Db
<1> HIDE DEF wants
<1>3. idl' \in [Client -> Db]
    <2>1. idl' = [idl EXCEPT ![c] = IF l = NoLock THEN free ELSE compose_lock_request(wants)]
        BY DEF SetLock, free, wants
    <2> QED
        BY <1>0, <1>1, <1>2, <2>1, DbOperations
<1>4. msgs \in Seq(Req)
    <2>1. (IF release THEN <<Request("unlock", idl[c])>> ELSE <<>>) \in Seq(Req)
        BY <1>0, RequestType, SMTT(60)
    <2>2. (IF l # NoLock THEN <<Request("lock", wants)>> ELSE <<>>) \in Seq(Req)
        BY <1>2, RequestType, SMTT(60)
    <2> QED
        BY <2>1, <2>2, ConcatProperties
<1>5. requests' \in [Session -> Seq(Req)]
    <2>1. requests' = IF conn[c] = NoSession THEN requests
                      ELSE [requests EXCEPT ![conn[c]] = @ \o msgs]
        BY DEF SetLock, free, wants
    <2> HIDE DEF msgs
    <2>2. conn[c] # NoSession => conn[c] \in Session /\ requests[conn[c]] \o msgs \in Seq(Req)
        BY <1>0, <1>4, ConcatProperties
    <2> QED
        BY <1>0, <2>1, <2>2
<1>6. UNCHANGED <<conn, n_sessions, sessions, mode, queue, replies>>
    BY DEF SetLock, server
<1>7. LockTypeOK'
    BY <1>3, <1>5, <1>6 DEF LockInv, LockTypeOK, Db, Req
<1> QED
    BY <1>6, <1>7, ServerAlone DEF LockInv

\* A client takes a reply: only its view and what it sends change.
LEMMA ReceiveStep ==
    ASSUME LockInv, NEW c \in Client, Receive(c)
    PROVE  LockInv'
<1>1. /\ idl \in [Client -> Db] /\ idl[c] \in Db /\ conn[c] \in Session
      /\ replies \in [Session -> Seq(Message)] /\ replies[conn[c]] # <<>>
    BY Types DEF LockInv, Process, Receive
<1>2. Head(replies[conn[c]]) \in Message /\ Tail(replies[conn[c]]) \in Seq(Message)
    BY <1>1, RestType
<1>3. idl' \in [Client -> Db]
    BY <1>1, <1>2, ProcessType DEF Receive
<1>4. replies' \in [Session -> Seq(Message)]
    BY <1>1, <1>2 DEF Receive
<1>5. UNCHANGED <<conn, n_sessions, sessions, mode, queue, requests>>
    BY DEF Receive, server
<1>6. LockTypeOK'
    BY <1>3, <1>4, <1>5 DEF LockInv, LockTypeOK, Db, Req
<1> QED
    BY <1>5, <1>6, ServerAlone DEF LockInv

\* The parts that a new connection changes at the server.
LEMMA NewSessionStep ==
    ASSUME LockInv, NEW p \in Process, NewSession(p)
    PROVE  /\ conn' \in [Process -> Session \cup {NoSession}]
           /\ n_sessions' \in Nat /\ sessions' \subseteq 1 .. n_sessions' /\ n_sessions' <= MaxSession
           /\ n_sessions + 1 \in Session
           /\ QueueSound'
<1>1. n_sessions \in Nat /\ n_sessions < MaxSession /\ MaxSession \in Nat /\ n_sessions' = n_sessions + 1
    BY SessionAssumption DEF LockInv, LockTypeOK, NewSession
<1>2. n_sessions + 1 \in Session
    BY <1>1, SMTT(60) DEF Session
<1>3. conn' \in [Process -> Session \cup {NoSession}]
    BY <1>2 DEF LockInv, LockTypeOK, NewSession
<1>4. sessions' \subseteq 1 .. n_sessions'
    <2>1. sessions \subseteq 1 .. n_sessions /\ sessions' = sessions \cup {n_sessions + 1}
        BY DEF LockInv, LockTypeOK, NewSession
    <2>2. \A i \in 1 .. n_sessions : i \in 1 .. n_sessions + 1
        BY <1>1, SMTT(60)
    <2>3. n_sessions + 1 \in 1 .. n_sessions + 1
        BY <1>1, SMTT(60)
    <2> QED
        BY <1>1, <2>1, <2>2, <2>3
<1>5. QueueSound'
    BY ServerAlone DEF LockInv, NewSession
<1> QED
    BY <1>1, <1>2, <1>3, <1>4, <1>5, SMTT(60)

\* A new session, of a client or of a run of the tool, waits for no lock.
LEMMA ConnectStep ==
    ASSUME LockInv,
           (\E c \in Client : ClientConnect(c)) \/ (\E t \in Tool : ToolConnect(t))
    PROVE  LockInv'
<1>0. /\ idl \in [Client -> Db] /\ requests \in [Session -> Seq(Req)]
      /\ mode \in [Session -> [Lock -> {"none", "lock", "steal"}]] /\ queue \in [Lock -> Seq(Session)]
      /\ replies \in [Session -> Seq(Message)]
    BY Types DEF LockInv
<1>1. ASSUME NEW p \in Process, NewSession(p), idl' \in [Client -> Db], requests' \in [Session -> Seq(Req)]
      PROVE  LockInv'
    <2>1. mode' = mode /\ queue' = queue /\ replies' = replies
        BY <1>1 DEF NewSession
    <2>2. LockTypeOK'
        BY <1>0, <1>1, <2>1, NewSessionStep DEF LockTypeOK, Db, Req
    <2> QED
        BY <1>1, <2>2, NewSessionStep DEF LockInv
<1>2. ASSUME NEW c \in Client, ClientConnect(c)
      PROVE  LockInv'
    <2>1. NewSession(c) /\ c \in Process
        BY <1>2 DEF ClientConnect, Process
    <2>2. CASE idl[c].lock_name = NoLock
        BY <1>0, <1>1, <1>2, <2>1, <2>2 DEF ClientConnect
    <2>3. CASE idl[c].lock_name # NoLock
        <3>1. n_sessions + 1 \in Session
            BY <2>1, NewSessionStep
        <3>2. idl[c] \in Db
            BY <1>0
        <3>3. <<Request("lock", idl[c])>> \in Seq(Req)
            BY <2>3, <3>2, RequestType, SMTT(60)
        <3>4. idl' \in [Client -> Db] /\ requests' \in [Session -> Seq(Req)]
            BY <1>0, <1>2, <2>3, <3>1, <3>2, <3>3, DbOperations DEF ClientConnect
        <3> QED
            BY <1>1, <2>1, <3>4
    <2> QED
        BY <2>2, <2>3
<1>3. ASSUME NEW t \in Tool, ToolConnect(t)
      PROVE  LockInv'
    BY <1>0, <1>1, <1>3 DEF ToolConnect, Process
<1> QED
    BY <1>2, <1>3

\* A broken connection loses what is on its way and leaves the server alone.
LEMMA BreakStep ==
    ASSUME LockInv, NEW p \in Process, Break(p)
    PROVE  LockInv'
<1>1. /\ conn \in [Process -> Session \cup {NoSession}] /\ conn[p] \in Session
      /\ requests \in [Session -> Seq(Req)] /\ replies \in [Session -> Seq(Message)]
    BY Types DEF LockInv, Break
<1>2. conn' \in [Process -> Session \cup {NoSession}]
    BY <1>1 DEF Break
<1>3. requests' \in [Session -> Seq(Req)]
    <2>1. PICK k \in 0 .. Len(requests[conn[p]]) :
             requests' = [requests EXCEPT ![conn[p]] = SubSeq(@, 1, k)]
        BY DEF Break
    <2>2. SubSeq(requests[conn[p]], 1, k) \in Seq(Req)
        BY <1>1, RestType
    <2> QED
        BY <1>1, <2>1, <2>2
<1>4. replies' \in [Session -> Seq(Message)]
    <2>1. <<>> \in Seq(Message)
        BY EmptySeq
    <2> QED
        BY <1>1, <2>1 DEF Break
<1>5. UNCHANGED <<idl, n_sessions, sessions, mode, queue>>
    BY DEF Break, server
<1>6. LockTypeOK'
    BY <1>2, <1>3, <1>4, <1>5 DEF LockInv, LockTypeOK, Db, Req
<1> QED
    BY <1>5, <1>6, ServerAlone DEF LockInv

\* A request of the tool.
LEMMA ToolRequestStep ==
    ASSUME LockInv, NEW t \in Tool, NEW m \in {"lock", "steal", "unlock"}, NEW l \in Lock, ToolRequest(t, m, l)
    PROVE  LockInv'
<1>1. conn[t] \in Session /\ requests \in [Session -> Seq(Req)]
    BY Types DEF LockInv, ToolRequest, Process
<1>2. [method |-> m, name |-> l, id |-> 1] \in Req
    BY DEF Req
<1>3. Append(requests[conn[t]], [method |-> m, name |-> l, id |-> 1]) \in Seq(Req)
    BY <1>1, <1>2, AppendProperties
<1>4. requests' \in [Session -> Seq(Req)]
    BY <1>1, <1>3 DEF ToolRequest
<1>5. UNCHANGED <<idl, conn, n_sessions, sessions, mode, queue, replies>>
    BY DEF ToolRequest, server
<1>6. LockTypeOK'
    BY <1>4, <1>5 DEF LockInv, LockTypeOK, Db, Req
<1> QED
    BY <1>5, <1>6, ServerAlone DEF LockInv

---------------------------------------------------------------------------
(* The log and its fsync thread.                                           *)

Waiter == [ticket : Nat, upto : Nat]

\* What an action must do: keep the invariant, and be a step of LogCommit or none.
Implements == LogInv' /\ [L!Next]_(L!vars)

USE DEF UINT64_MAX, Ticket

---------------------------------------------------------------------------
(* Lemmas on the file and on the waiters.                                  *)

\* ovsdb_log_truncate() leaves exactly the records before offset.
LEMMA TruncateLeaves ==
    ASSUME LogTypeOK, FileSound
    PROVE  /\ ovsdb_log_truncate \in Seq(Cell)
           /\ Len(ovsdb_log_truncate) = offset
           /\ \A i \in 1 .. offset : ovsdb_log_truncate[i] = "rec"
<1>1. CASE state = "WRITE"
  BY <1>1 DEF ovsdb_log_truncate, LogTypeOK, FileSound
<1>2. CASE state # "WRITE"
  <2>1. \A i \in 1 .. offset : data[i] \in Cell
    BY DEF FileSound, Cell
  <2>2. /\ SubSeq(data, 1, offset) \in Seq(Cell)
        /\ Len(SubSeq(data, 1, offset)) = IF 1 <= offset THEN offset - 1 + 1 ELSE 0
        /\ \A i \in 1 .. offset - 1 + 1 : SubSeq(data, 1, offset)[i] = data[1 + i - 1]
    BY <2>1, SubSeqProperties, SMTT(60) DEF LogTypeOK
  <2>. QED
    BY <1>2, <2>2, SMTT(60) DEF ovsdb_log_truncate, LogTypeOK, FileSound
<1>. QED
  BY <1>1, <1>2

\* ovsdb_log_read() finds the records before the first thing that is none.
LEMMA ReadableIs ==
    ASSUME NEW d \in Seq(Cell), NEW n \in 0 .. Len(d),
           \A i \in 1 .. n : d[i] = "rec",
           n < Len(d) => d[n + 1] # "rec"
    PROVE  Readable(d) = n
<1>. DEFINE P(m) == /\ \A i \in 1 .. m : d[i] = "rec"
                    /\ m < Len(d) => d[m + 1] # "rec"
<1>1. \E m \in 0 .. Len(d) : P(m)
  OBVIOUS
<1>2. Readable(d) \in 0 .. Len(d) /\ P(Readable(d))
  BY <1>1 DEF Readable
<1>3. ASSUME NEW m \in 0 .. Len(d), P(m)
      PROVE  m = n
  <2>1. Len(d) \in Nat
    BY SMTT(60)
  <2>2. ~(m < n)
    BY <1>3, <2>1, SMTT(60)
  <2>3. ~(n < m)
    BY <1>3, <2>1, SMTT(60)
  <2>. QED
    BY <2>1, <2>2, <2>3, SMTT(60)
<1>. QED
  BY <1>2, <1>3

\* The waiters are a sequence of waiters.
LEMMA WaiterTypes ==
    ASSUME LogTypeOK
    PROVE  /\ waiters \in Seq(Waiter)
           /\ Len(waiters) \in Nat
           /\ DOMAIN waiters = 1 .. Len(waiters)
           /\ \A i \in 1 .. Len(waiters) : waiters[i] \in Waiter
<1>1. waiters \in Seq(Waiter)
  BY DEF LogTypeOK, Waiter
<1>. QED
  BY <1>1, LenProperties, ElementOfSeq

\* The pending commits of LogCommit are the waiters, by what they cover.
LEMMA UptoIs ==
    ASSUME waiters \in Seq(Waiter)
    PROVE  /\ Upto \in Seq(Nat)
           /\ Len(Upto) = Len(waiters)
           /\ \A i \in 1 .. Len(waiters) : Upto[i] = waiters[i].upto
<1>1. /\ Len(waiters) \in Nat
      /\ DOMAIN waiters = 1 .. Len(waiters)
      /\ \A i \in 1 .. Len(waiters) : waiters[i] \in Waiter
  BY LenProperties, ElementOfSeq
<1>2. Upto \in [1 .. Len(waiters) -> Nat]
  BY <1>1 DEF Upto, Waiter
<1>. QED
  BY <1>1, <1>2, SMTT(60) DEF Upto

---------------------------------------------------------------------------
(* Steps that LogCommit does not see.                                      *)

\* A step that leaves the file and the waiters alone is no step of LogCommit.
LEMMA QuietImplements ==
    ASSUME LogInv, UNCHANGED <<file, waiters, acked>>, LogTypeOK', TicketsSound'
    PROVE  Implements
<1>1. FileSound'
  BY DEF LogInv, FileSound, file
<1>2. UNCHANGED L!vars
  BY DEF L!vars, Upto, file
<1>. QED
  BY <1>1, <1>2 DEF Implements, LogInv

\* The operations on a seq yield one.
LEMMA SeqTypes ==
    ASSUME NEW q \in SeqState
    PROVE  seq_create \in SeqState /\ seq_change(q) \in SeqState
  BY SMTT(60) DEF SeqState, seq_create, seq_change

\* What afsync_create() leaves.
LEMMA CreateTypes ==
    ASSUME LogTypeOK, NEW ticket \in Nat, NEW pc \in {"ops", "add"},
           afsync_create(ticket, pc), UNCHANGED <<file, waiters, acked>>
    PROVE  /\ LogTypeOK'
           /\ cur' = ticket /\ next' = ticket /\ first' = ticket
           /\ main'.pc = "fd" /\ thread'.pc = "request"
<1>1. request' \in SeqState /\ complete' \in SeqState
  BY SeqTypes DEF afsync_create, LogTypeOK
<1>2. /\ main' \in [pc : MainPlace, then : {"ops", "add"}, ticket : Nat, seq : Nat]
      /\ main'.pc = "fd"
  BY DEF afsync_create, LogTypeOK, MainPlace
<1>3. /\ thread' \in [pc : ThreadPlace, cur : Nat, next : Ticket, seq : Nat, failed : BOOLEAN]
      /\ thread'.pc = "request"
  BY DEF afsync_create, NoThread, ThreadPlace
<1>. QED
  BY <1>1, <1>2, <1>3 DEF afsync_create, LogTypeOK, file

\* A commit before its waiter exists.
LEMMA CommitQuiet ==
    ASSUME LogInv, StoreFd \/ CommitStart \/ CommitAdd
    PROVE  Implements
<1>1. CASE StoreFd
  <2>1. LogTypeOK'
    BY <1>1
    DEF StoreFd, LogInv, LogTypeOK, SeqState, MainPlace, ThreadPlace, MainAt, MainGoto,
           file, afsync
  <2>2. TicketsSound'
    BY <1>1
    DEF StoreFd, LogInv, LogTypeOK, TicketsSound, Covered, LastTicket, Stopping, MainAt,
           MainGoto, file, afsync
  <2>3. UNCHANGED <<file, waiters, acked>>
    BY <1>1 DEF StoreFd
  <2>. QED
    BY <2>1, <2>2, <2>3, QuietImplements
<1>2. CASE CommitStart
  <2>0. UNCHANGED <<file, waiters, acked>>
    BY <1>2 DEF CommitStart
  <2>1. CASE thread.pc = "none"
    <3>1. afsync_create(0, "add")
      BY <1>2, <2>1 DEF CommitStart
    <3>2. /\ LogTypeOK'
          /\ cur' = 0 /\ next' = 0 /\ first' = 0
          /\ main'.pc = "fd" /\ thread'.pc = "request"
      BY <2>0, <3>1, CreateTypes DEF LogInv
    <3>3. waiters' = <<>> /\ acked' <= durable' /\ acked' <= offset'
      BY <2>0, <2>1 DEF LogInv, TicketsSound, file
    <3>4. TicketsSound'
      BY <3>2, <3>3, SMTT(60) DEF LogTypeOK, TicketsSound, Covered, LastTicket, Stopping, MainAt
    <3>. QED
      BY <2>0, <3>2, <3>4, QuietImplements
  <2>2. CASE thread.pc # "none"
    <3>1. MainGoto("add") /\ UNCHANGED <<afsync, request, complete, thread>>
      BY <1>2, <2>2 DEF CommitStart
    <3>2. LogTypeOK'
      BY <2>0, <3>1 DEF LogInv, LogTypeOK, MainPlace, MainGoto, file, afsync
    <3>3. TicketsSound'
      BY <1>2, <2>0, <2>2, <3>1, SMTT(60)
      DEF CommitStart, LogInv, LogTypeOK, TicketsSound, Covered, LastTicket,
             Stopping, MainAt, MainGoto, file, afsync
    <3>. QED
      BY <2>0, <3>2, <3>3, QuietImplements
  <2>. QED
    BY <2>1, <2>2
<1>3. CASE CommitAdd
  <2>0. next \in Nat /\ next + 1 \in Nat
    BY <1>3, SMTT(60) DEF CommitAdd, MainAt, LogInv, LogTypeOK, TicketsSound
  <2>1. /\ main' \in [pc : MainPlace, then : {"ops", "add"}, ticket : Nat, seq : Nat]
        /\ main'.pc = "notify" /\ main'.ticket = next + 1
    BY <1>3, <2>0 DEF CommitAdd, LogInv, LogTypeOK, MainPlace
  <2>2. LogTypeOK'
    BY <1>3, <2>0, <2>1 DEF CommitAdd, LogInv, LogTypeOK, file
  <2>3. LastTicket = next /\ LastTicket' = next + 1
    BY <1>3, <2>0, <2>1, SMTT(60) DEF CommitAdd, LastTicket
  <2>4. ASSUME NEW t \in Nat, t <= next, Covered(t)
        PROVE  Covered(t)'
    BY <1>3, <2>0, <2>1, <2>4, SMTT(60) DEF CommitAdd, Covered, MainAt, file
  <2>5. \A i \in DOMAIN waiters : waiters[i].ticket \in Nat
    BY WaiterTypes DEF LogInv, Waiter
  <2>6. Covered(first)' /\ Covered(cur)' /\ (thread'.pc = "store" => Covered(thread.cur)')
    BY <1>3, <2>0, <2>3, <2>4
    DEF CommitAdd, LogInv, LogTypeOK, TicketsSound, ThreadPlace, Covered
  <2>7. /\ acked' <= durable' /\ acked' <= offset'
        /\ \A i \in DOMAIN waiters' :
               waiters'[i].upto <= offset' /\ waiters'[i].ticket <= LastTicket'
    BY <1>3, <2>0, <2>3, <2>5, SMTT(60) DEF CommitAdd, LogInv, TicketsSound, file
  <2>a. /\ first \in Nat /\ cur \in Nat /\ thread.cur \in Nat
        /\ thread.next \in Ticket
    BY DEF LogInv, LogTypeOK
  <2>b. /\ first <= next /\ cur <= next
        /\ thread.pc = "fsync" => first <= thread.next /\ thread.next <= next
        /\ thread.pc = "store" => thread.cur <= next
    BY <2>3 DEF LogInv, TicketsSound
  <2>8. first' <= LastTicket' /\ cur' <= LastTicket'
    BY <1>3, <2>0, <2>3, <2>a, <2>b, SMTT(60) DEF CommitAdd
  <2>9. /\ thread'.pc = "fsync" => first' <= thread'.next /\ thread'.next <= LastTicket'
        /\ thread'.pc = "store" => thread'.cur <= LastTicket'
    BY <1>3, <2>0, <2>3, <2>a, <2>b, SMTT(60) DEF CommitAdd
  <2>10. thread'.pc # "none" /\ fd' = gen'
    BY <1>3 DEF CommitAdd, LogInv, TicketsSound, Stopping, MainAt, file
  <2>11. TicketsSound'
    BY <1>3, <2>0, <2>1, <2>6, <2>7, <2>8, <2>9, <2>10, SMTT(60)
    DEF CommitAdd, TicketsSound, Stopping, Covered, MainAt
  <2>. QED
    BY <1>3, <2>2, <2>11, QuietImplements DEF CommitAdd
<1>. QED
  BY <1>1, <1>2, <1>3

\* The main thread waits.
LEMMA WaitQuiet ==
    ASSUME LogInv, WaitRead \/ WaitProgress \/ WaitSeq \/ PollWoken \/ PollOther
    PROVE  Implements
<1>1. CASE WaitRead
  <2>1. LogTypeOK'
    BY <1>1
    DEF WaitRead, LogInv, LogTypeOK, SeqState, MainPlace, ThreadPlace, MainAt, MainGoto,
           file, afsync
  <2>2. TicketsSound'
    BY <1>1 DEF WaitRead, LogInv, LogTypeOK, TicketsSound, Covered, LastTicket, Stopping,
           MainAt, MainGoto, file, afsync
  <2>3. UNCHANGED <<file, waiters, acked>>
    BY <1>1 DEF WaitRead
  <2>. QED
    BY <2>1, <2>2, <2>3, QuietImplements
<1>2. CASE WaitProgress
  <2>0. /\ UNCHANGED <<file, afsync, request, complete, thread, waiters, acked>>
        /\ main.pc = "progress"
    BY <1>2 DEF WaitProgress, MainAt
  <2>1. PICK pc \in {"seqwait", "poll"} : main' = [main EXCEPT !.pc = pc]
    BY <1>2 DEF WaitProgress, MainGoto
  <2>2. /\ main' \in [pc : MainPlace, then : {"ops", "add"}, ticket : Nat, seq : Nat]
        /\ main'.pc = pc /\ main'.ticket = main.ticket
    BY <2>1 DEF LogInv, LogTypeOK, MainPlace
  <2>3. LogTypeOK'
    BY <2>0, <2>2 DEF LogInv, LogTypeOK, file, afsync
  <2>4. TicketsSound'
    BY <2>0, <2>2 DEF LogInv, TicketsSound, Covered, LastTicket, Stopping, MainAt, file, afsync
  <2>. QED
    BY <2>0, <2>3, <2>4, QuietImplements
<1>3. CASE WaitSeq
  <2>1. LogTypeOK'
    BY <1>3
    DEF WaitSeq, LogInv, LogTypeOK, SeqState, MainPlace, ThreadPlace, MainAt, MainGoto,
           file, afsync, seq_create, seq_change, seq_wait, seq_woke
  <2>2. TicketsSound'
    BY <1>3 DEF WaitSeq, LogInv, LogTypeOK, TicketsSound, Covered, LastTicket, Stopping, MainAt,
           MainGoto, file, afsync, seq_create, seq_change, seq_wait, seq_woke
  <2>3. UNCHANGED <<file, waiters, acked>>
    BY <1>3 DEF WaitSeq
  <2>. QED
    BY <2>1, <2>2, <2>3, QuietImplements
<1>4. CASE PollWoken
  <2>1. LogTypeOK'
    BY <1>4 DEF PollWoken, LogInv, LogTypeOK, SeqState, MainPlace, ThreadPlace, MainAt,
           MainGoto, file, afsync, Woke, seq_woke
  <2>2. TicketsSound'
    BY <1>4 DEF PollWoken, LogInv, LogTypeOK, TicketsSound, Covered, LastTicket, Stopping,
           MainAt, MainGoto, file, afsync, Woke, seq_woke
  <2>3. UNCHANGED <<file, waiters, acked>>
    BY <1>4 DEF PollWoken, Woke
  <2>. QED
    BY <2>1, <2>2, <2>3, QuietImplements
<1>5. CASE PollOther
  <2>1. LogTypeOK'
    BY <1>5 DEF PollOther, LogInv, LogTypeOK, SeqState, MainPlace, ThreadPlace, MainAt,
           MainGoto, file, afsync, Woke, seq_woke
  <2>2. TicketsSound'
    BY <1>5 DEF PollOther, LogInv, LogTypeOK, TicketsSound, Covered, LastTicket, Stopping,
           MainAt, MainGoto, file, afsync, Woke, seq_woke
  <2>3. UNCHANGED <<file, waiters, acked>>
    BY <1>5 DEF PollOther, Woke
  <2>. QED
    BY <2>1, <2>2, <2>3, QuietImplements
<1>. QED
  BY <1>1, <1>2, <1>3, <1>4, <1>5

\* The thread of the old file is stopped, and one for the new file created.
LEMMA DestroyQuiet ==
    ASSUME LogInv, DestroyStore \/ DestroyNotify \/ DestroyJoin
    PROVE  Implements
<1>1. CASE DestroyStore
  <2>1. LogTypeOK'
    BY <1>1 DEF DestroyStore, LogInv, LogTypeOK, SeqState, MainPlace, ThreadPlace, MainAt,
           MainGoto, file, afsync, TicketsSound
  <2>2. TicketsSound'
    BY <1>1 DEF DestroyStore, LogInv, LogTypeOK, TicketsSound, Covered, LastTicket, Stopping,
           MainAt, MainGoto, file, afsync
  <2>3. UNCHANGED <<file, waiters, acked>>
    BY <1>1 DEF DestroyStore
  <2>. QED
    BY <2>1, <2>2, <2>3, QuietImplements
<1>2. CASE DestroyNotify
  <2>1. LogTypeOK'
    BY <1>2, SeqTypes
    DEF DestroyNotify, LogInv, LogTypeOK, MainPlace, ThreadPlace, MainGoto, file, afsync
  <2>2. TicketsSound'
    BY <1>2
    DEF DestroyNotify, LogInv, LogTypeOK, TicketsSound, Covered, LastTicket, Stopping, MainAt,
           MainGoto, file, afsync
  <2>3. UNCHANGED <<file, waiters, acked>>
    BY <1>2 DEF DestroyNotify
  <2>. QED
    BY <2>1, <2>2, <2>3, QuietImplements
<1>3. CASE DestroyJoin
  <2>0. UNCHANGED <<file, waiters, acked>> /\ afsync_create(main.ticket + 1, "ops")
    BY <1>3 DEF DestroyJoin
  <2>1. main.ticket \in Nat /\ main.ticket + 1 \in Nat
    BY SMTT(60) DEF LogInv, LogTypeOK
  <2>2. /\ LogTypeOK'
        /\ cur' = main.ticket + 1 /\ next' = main.ticket + 1 /\ first' = main.ticket + 1
        /\ main'.pc = "fd" /\ thread'.pc = "request"
    BY <2>0, <2>1, CreateTypes DEF LogInv
  <2>3. offset <= durable /\ LastTicket = main.ticket
    BY <1>3 DEF DestroyJoin, MainAt, LogInv, TicketsSound, Stopping, LastTicket
  <2>4. LastTicket' = main.ticket + 1
    BY <2>1, <2>2, SMTT(60) DEF LastTicket
  <2>5. \A i \in DOMAIN waiters : waiters[i] \in Waiter
    BY WaiterTypes DEF LogInv
  <2>6. offset \in Nat /\ durable \in Nat
    BY DEF LogInv, LogTypeOK
  <2>7. \A i \in DOMAIN waiters : waiters[i].upto <= offset /\ waiters[i].ticket <= LastTicket
    BY DEF LogInv, TicketsSound
  <2>8. \A i \in DOMAIN waiters : /\ waiters[i].upto <= offset /\ waiters[i].upto <= durable
                                  /\ waiters[i].ticket <= main.ticket + 1
    BY <2>1, <2>3, <2>5, <2>6, <2>7, SMTT(60) DEF Waiter
  <2>10. Covered(first)' /\ Covered(cur)'
    BY <2>0, <2>2, <2>8 DEF Covered, MainAt, file
  <2>11. /\ acked' <= durable' /\ acked' <= offset'
         /\ \A i \in DOMAIN waiters' :
               waiters'[i].upto <= offset' /\ waiters'[i].ticket <= LastTicket'
    BY <2>0, <2>4, <2>8 DEF LogInv, TicketsSound, file
  <2>12. TicketsSound'
    BY <2>1, <2>2, <2>4, <2>10, <2>11, SMTT(60) DEF TicketsSound, Stopping
  <2>. QED
    BY <2>0, <2>2, <2>12, QuietImplements
<1>. QED
  BY <1>1, <1>2, <1>3

\* The fsync thread, but for the fsync itself.
LEMMA ThreadQuiet ==
    ASSUME LogInv, ThreadRequest \/ ThreadNext \/ ThreadFsyncFails \/ ThreadStore
                   \/ ThreadChange \/ ThreadWait \/ ThreadPoll
    PROVE  Implements
<1>1. CASE ThreadRequest
  <2>1. LogTypeOK'
    BY <1>1 DEF ThreadRequest, LogInv, LogTypeOK, SeqState, MainPlace, ThreadPlace, MainAt,
           MainGoto, file, afsync, ThreadAt, ThreadGoto, ThreadOnly
  <2>2. TicketsSound'
    BY <1>1 DEF ThreadRequest, LogInv, LogTypeOK, TicketsSound, Covered, LastTicket, Stopping,
           MainAt, MainGoto, file, afsync, ThreadAt, ThreadGoto, ThreadOnly
  <2>3. UNCHANGED <<file, waiters, acked>>
    BY <1>1 DEF ThreadRequest, ThreadOnly
  <2>. QED
    BY <2>1, <2>2, <2>3, QuietImplements
<1>2. CASE ThreadNext
  <2>1. LogTypeOK'
    BY <1>2 DEF ThreadNext, LogInv, LogTypeOK, SeqState, MainPlace, ThreadPlace, MainAt,
           MainGoto, file, afsync, ThreadAt, ThreadGoto, ThreadOnly
  <2>2. TicketsSound'
    BY <1>2, SMTT(60) DEF ThreadNext, LogInv, LogTypeOK, TicketsSound, Covered, LastTicket, Stopping,
           MainAt, MainGoto, file, afsync, ThreadAt, ThreadGoto, ThreadOnly
  <2>3. UNCHANGED <<file, waiters, acked>>
    BY <1>2 DEF ThreadNext, ThreadOnly
  <2>. QED
    BY <2>1, <2>2, <2>3, QuietImplements
<1>3. CASE ThreadFsyncFails
  <2>1. LogTypeOK'
    BY <1>3
    DEF ThreadFsyncFails, LogInv, LogTypeOK, SeqState, MainPlace, ThreadPlace, MainAt,
           MainGoto, file, afsync, ThreadAt, ThreadGoto, ThreadOnly
  <2>2. TicketsSound'
    BY <1>3 DEF ThreadFsyncFails, LogInv, LogTypeOK, TicketsSound, Covered, LastTicket,
           Stopping, MainAt, MainGoto, file, afsync, ThreadAt, ThreadGoto, ThreadOnly
  <2>3. UNCHANGED <<file, waiters, acked>>
    BY <1>3 DEF ThreadFsyncFails, ThreadOnly
  <2>. QED
    BY <2>1, <2>2, <2>3, QuietImplements
<1>4. CASE ThreadStore
  <2>1. LogTypeOK'
    BY <1>4 DEF ThreadStore, LogInv, LogTypeOK, SeqState, MainPlace, ThreadPlace, MainAt,
           MainGoto, file, afsync, ThreadAt, ThreadGoto, ThreadOnly
  <2>2. TicketsSound'
    BY <1>4 DEF ThreadStore, LogInv, LogTypeOK, TicketsSound, Covered, LastTicket, Stopping,
           MainAt, MainGoto, file, afsync, ThreadAt, ThreadGoto, ThreadOnly
  <2>3. UNCHANGED <<file, waiters, acked>>
    BY <1>4 DEF ThreadStore, ThreadOnly
  <2>. QED
    BY <2>1, <2>2, <2>3, QuietImplements
<1>5. CASE ThreadChange
  <2>1. LogTypeOK'
    BY <1>5, SeqTypes
    DEF ThreadChange, LogInv, LogTypeOK, MainPlace, ThreadPlace, ThreadGoto, ThreadOnly, file, afsync
  <2>2. TicketsSound'
    BY <1>5
    DEF ThreadChange, LogInv, LogTypeOK, TicketsSound, Covered, LastTicket, Stopping, MainAt,
           ThreadGoto, ThreadOnly, file, afsync, ThreadAt
  <2>3. UNCHANGED <<file, waiters, acked>>
    BY <1>5 DEF ThreadChange, ThreadOnly
  <2>. QED
    BY <2>1, <2>2, <2>3, QuietImplements
<1>6. CASE ThreadWait
  <2>1. LogTypeOK'
    BY <1>6 DEF ThreadWait, LogInv, LogTypeOK, SeqState, MainPlace, ThreadPlace, MainAt,
           MainGoto, file, afsync, ThreadAt, ThreadGoto, ThreadOnly, seq_wait
  <2>2. TicketsSound'
    BY <1>6 DEF ThreadWait, LogInv, LogTypeOK, TicketsSound, Covered, LastTicket, Stopping,
           MainAt, MainGoto, file, afsync, ThreadAt, ThreadGoto, ThreadOnly, seq_wait
  <2>3. UNCHANGED <<file, waiters, acked>>
    BY <1>6 DEF ThreadWait, ThreadOnly
  <2>. QED
    BY <2>1, <2>2, <2>3, QuietImplements
<1>7. CASE ThreadPoll
  <2>1. LogTypeOK'
    BY <1>7 DEF ThreadPoll, LogInv, LogTypeOK, SeqState, MainPlace, ThreadPlace, MainAt,
           MainGoto, file, afsync, ThreadAt, ThreadGoto, ThreadOnly, seq_woke
  <2>2. TicketsSound'
    BY <1>7 DEF ThreadPoll, LogInv, LogTypeOK, TicketsSound, Covered, LastTicket, Stopping,
           MainAt, MainGoto, file, afsync, ThreadAt, ThreadGoto, ThreadOnly, seq_woke
  <2>3. UNCHANGED <<file, waiters, acked>>
    BY <1>7 DEF ThreadPoll, ThreadOnly
  <2>. QED
    BY <2>1, <2>2, <2>3, QuietImplements
<1>. QED
  BY <1>1, <1>2, <1>3, <1>4, <1>5, <1>6, <1>7

---------------------------------------------------------------------------
(* Steps that LogCommit sees.                                              *)

\* The positions in the file and the tickets are numbers.
LEMMA LogNumbers ==
    ASSUME LogTypeOK
    PROVE  /\ offset \in Nat /\ durable \in Nat /\ acked \in Nat /\ Len(data) \in Nat
           /\ first \in Nat /\ cur \in Nat /\ main.ticket \in Nat
  BY SMTT(60) DEF LogTypeOK

\* A waiter whose records are on disk and in the log stays so when no more than
\* what is behind the log is lost.
LEMMA CoveredKept ==
    ASSUME LogInv, UNCHANGED waiters, durable' \in Nat,
           MinOf(durable, offset) <= durable',
           NEW t \in Nat, \A i \in DOMAIN waiters : waiters[i].ticket <= t => waiters[i].upto <= durable
    PROVE  \A i \in DOMAIN waiters' : waiters'[i].ticket <= t => waiters'[i].upto <= durable'
<1>1. \A i \in DOMAIN waiters : waiters[i].upto <= offset
  BY DEF LogInv, TicketsSound
<1>2. \A i \in DOMAIN waiters : waiters[i].upto \in Nat
  BY WaiterTypes DEF LogInv, Waiter
<1>. QED
  BY <1>1, <1>2, LogNumbers, SMTT(60) DEF LogInv, MinOf

\* A change of the file by the main thread outside of commits.
LEMMA FileStep ==
    ASSUME LogInv, MainAt("ops"), UNCHANGED <<gen, afsync, main, thread, waiters, acked>>,
           offset' \in Nat, durable' \in Nat, offset <= offset', MinOf(durable, offset) <= durable'
    PROVE  TicketsSound'
<1>1. \A t \in Nat : Covered(t) =>
          \A i \in DOMAIN waiters' : waiters'[i].ticket <= t => waiters'[i].upto <= durable'
  BY CoveredKept DEF Covered
<1>2. /\ Covered(first)' /\ Covered(cur)'
      /\ thread'.pc = "store" => Covered(thread.cur)'
  BY <1>1 DEF LogInv, LogTypeOK, TicketsSound, Covered, MainAt, afsync
<1>3. acked' <= durable' /\ acked' <= offset'
  BY LogNumbers, SMTT(60) DEF LogInv, TicketsSound, MinOf
<1>4. LastTicket' = LastTicket
  BY DEF LastTicket, afsync
<1>5. \A i \in DOMAIN waiters : waiters[i].upto \in Nat
  BY WaiterTypes DEF LogInv, Waiter
<1>6. \A i \in DOMAIN waiters' : waiters'[i].upto <= offset' /\ waiters'[i].ticket <= LastTicket'
  BY <1>4, <1>5, LogNumbers, SMTT(60) DEF LogInv, TicketsSound
<1>. QED
  BY <1>2, <1>3, <1>4, <1>6 DEF LogInv, TicketsSound, Stopping, MainAt, afsync

\* ovsdb_log_write() appends one record, also after an error.
LEMMA WriteImplements ==
    ASSUME LogInv, Write
    PROVE  Implements
<1>. DEFINE d == ovsdb_log_truncate
<1>1. d \in Seq(Cell) /\ Len(d) = offset /\ \A i \in 1 .. offset : d[i] = "rec"
  BY TruncateLeaves DEF LogInv
<1>2. data' = Append(d, "rec") /\ durable' = MinOf(durable, offset) /\ offset' = offset + 1
  BY <1>1 DEF Write
<1>. HIDE DEF d
<1>3. /\ data' \in Seq(Cell) /\ Len(data') = offset + 1
      /\ \A i \in 1 .. offset + 1 : data'[i] = "rec"
  BY <1>1, <1>2, LogNumbers, AppendProperties, SMTT(60) DEF LogInv, Cell
<1>4. offset' \in Nat /\ durable' \in Nat /\ durable' <= offset /\ MinOf(durable', offset') = MinOf(durable, offset)
  BY <1>2, LogNumbers, SMTT(60) DEF LogInv, MinOf
<1>5. LogTypeOK'
  BY <1>3, <1>4 DEF Write, LogInv, LogTypeOK, afsync
<1>6. FileSound'
  BY <1>2, <1>3, <1>4, LogNumbers, SMTT(60) DEF FileSound, LogInv
<1>7. TicketsSound'
  BY <1>2, <1>4, FileStep, LogNumbers, SMTT(60) DEF Write, LogInv
<1>8. L!Append1
  BY <1>2, <1>4 DEF Write, L!Append1, Upto
<1>. QED
  BY <1>5, <1>6, <1>7, <1>8 DEF Implements, LogInv, L!Next

\* A failed write leaves the log as it was, up to what is behind its records.
LEMMA WriteFailsImplements ==
    ASSUME LogInv, WriteFails
    PROVE  Implements
<1>. DEFINE d == ovsdb_log_truncate
<1>1. d \in Seq(Cell) /\ Len(d) = offset /\ \A i \in 1 .. offset : d[i] = "rec"
  BY TruncateLeaves DEF LogInv
<1>2. \/ data' = d
      \/ data' = Append(d, "torn")
      \/ data' = data
  BY DEF WriteFails
<1>3. durable' = MinOf(durable, Len(data')) /\ offset' = offset
  BY DEF WriteFails
<1>. HIDE DEF d
<1>4. /\ data' \in Seq(Cell) /\ Len(data') \in Nat /\ offset <= Len(data')
      /\ \A i \in 1 .. offset : data'[i] = "rec"
      /\ Len(data') > offset => data'[offset + 1] = "torn"
  <2>1. CASE data' = d
    BY <1>1, <2>1, LogNumbers, SMTT(60) DEF LogInv
  <2>2. CASE data' = Append(d, "torn")
    BY <1>1, <2>2, LogNumbers, AppendProperties, SMTT(60) DEF LogInv, Cell
  <2>3. CASE data' = data
    BY <2>3, LogNumbers DEF LogInv, LogTypeOK, FileSound
  <2>. QED
    BY <1>2, <2>1, <2>2, <2>3
<1>5. /\ durable' \in Nat /\ durable' <= Len(data')
      /\ MinOf(durable', offset) = MinOf(durable, offset) /\ MinOf(durable, offset) <= durable'
  BY <1>3, <1>4, LogNumbers, SMTT(60) DEF LogInv, MinOf
<1>6. LogTypeOK'
  BY <1>3, <1>4, <1>5 DEF WriteFails, LogInv, LogTypeOK, afsync
<1>7. FileSound'
  BY <1>3, <1>4, <1>5 DEF FileSound, WriteFails
<1>8. TicketsSound'
  BY <1>3, <1>5, FileStep, LogNumbers, SMTT(60) DEF WriteFails, LogInv
<1>9. UNCHANGED L!vars
  BY <1>3, <1>5 DEF WriteFails, L!vars, Upto
<1>. QED
  BY <1>6, <1>7, <1>8, <1>9 DEF Implements, LogInv

\* ovsdb_log_replace_commit() syncs the new file before it takes its place.
LEMMA ReplaceImplements ==
    ASSUME LogInv, ReplaceCommit
    PROVE  Implements
<1>1. offset \in Nat /\ durable \in Nat /\ acked \in Nat
  BY LogNumbers DEF LogInv
<1>2. /\ UNCHANGED <<offset, afsync, request, complete, thread, waiters, acked>>
      /\ durable' = offset /\ state' = "WRITE" /\ data' = [i \in 1 .. offset |-> "rec"]
  BY DEF ReplaceCommit
<1>3. /\ main' \in [pc : MainPlace, then : {"ops", "add"}, ticket : Nat, seq : Nat]
      /\ main'.pc = IF thread.pc = "none" THEN "ops" ELSE "destroy"
  BY DEF ReplaceCommit, MainGoto, LogInv, LogTypeOK, MainPlace
<1>4. /\ data' \in Seq(Cell) /\ Len(data') = offset
      /\ \A i \in 1 .. offset : data'[i] = "rec"
  BY <1>1, <1>2, SMTT(60) DEF Cell
<1>5. LogTypeOK'
  BY <1>1, <1>2, <1>3, <1>4 DEF LogInv, LogTypeOK, afsync
<1>6. FileSound'
  BY <1>1, <1>2, <1>4, SMTT(60) DEF FileSound
<1>7. next # UINT64_MAX /\ LastTicket = next /\ LastTicket' = next
  BY <1>2 DEF ReplaceCommit, MainAt, LogInv, TicketsSound, LastTicket, afsync
<1>8. \A i \in DOMAIN waiters' : waiters'[i].upto <= durable'
  BY <1>2 DEF LogInv, TicketsSound
<1>9. Covered(first)' /\ Covered(cur)' /\ Covered(thread.cur)'
  BY <1>3, <1>8 DEF Covered, MainAt
<1>10. /\ acked' <= durable' /\ acked' <= offset' /\ offset' <= durable'
       /\ \A i \in DOMAIN waiters' : waiters'[i].upto <= offset' /\ waiters'[i].ticket <= LastTicket'
  BY <1>1, <1>2, <1>7, SMTT(60) DEF LogInv, TicketsSound
<1>11. /\ first' <= LastTicket' /\ cur' <= LastTicket'
       /\ thread'.pc = "fsync" => first' <= thread'.next /\ thread'.next <= LastTicket'
       /\ thread'.pc = "store" => thread'.cur <= LastTicket'
       /\ thread'.pc = "none" => waiters' = <<>>
  BY <1>2, <1>7 DEF LogInv, TicketsSound, afsync
<1>12. TicketsSound'
  BY <1>2, <1>3, <1>7, <1>9, <1>10, <1>11 DEF TicketsSound, Stopping, afsync
<1>13. MinOf(durable', offset') \in MinOf(durable, offset) .. offset
  BY <1>1, <1>2, SMTT(60) DEF MinOf
<1>14. L!Sync
  BY <1>2, <1>13 DEF L!Sync, Upto
<1>. QED
  BY <1>5, <1>6, <1>12, <1>14 DEF Implements, LogInv, L!Next

\* The waiter of a new commit covers what is written at this time.
LEMMA NotifyImplements ==
    ASSUME LogInv, CommitNotify
    PROVE  Implements
<1>. DEFINE w == [ticket |-> main.ticket, upto |-> offset]
<1>1. /\ waiters' = Append(waiters, w) /\ UNCHANGED <<file, afsync, complete, thread, acked>>
      /\ request' = seq_change(request) /\ main.pc = "notify"
  BY DEF CommitNotify, MainAt
<1>2. w \in Waiter /\ w.ticket = main.ticket /\ w.upto = offset
  BY LogNumbers DEF LogInv, Waiter
<1>. HIDE DEF w
<1>3. waiters \in Seq(Waiter) /\ Len(waiters) \in Nat /\ DOMAIN waiters = 1 .. Len(waiters)
  BY WaiterTypes DEF LogInv
<1>4. /\ waiters' \in Seq(Waiter) /\ Len(waiters') = Len(waiters) + 1
      /\ \A i \in 1 .. Len(waiters) : waiters'[i] = waiters[i]
      /\ waiters'[Len(waiters) + 1] = w
  BY <1>1, <1>2, <1>3, AppendProperties, SMTT(60)
<1>5. \A i \in DOMAIN waiters' : \/ i \in DOMAIN waiters /\ waiters'[i] = waiters[i]
                                 \/ waiters'[i] = w
  BY <1>3, <1>4, LenProperties, SMTT(60)
<1>6. /\ main' \in [pc : MainPlace, then : {"ops", "add"}, ticket : Nat, seq : Nat]
      /\ main'.pc = "ops" /\ main'.ticket = main.ticket
  BY DEF CommitNotify, MainGoto, LogInv, LogTypeOK, MainPlace
<1>7. LogTypeOK'
  BY <1>1, <1>4, <1>6, SeqTypes DEF LogInv, LogTypeOK, Waiter, file, afsync
<1>8. FileSound'
  BY <1>1 DEF LogInv, FileSound, file
<1>9. next \in Nat /\ main.ticket = next /\ LastTicket = next /\ LastTicket' = next
  BY <1>1 DEF LogInv, LogTypeOK, TicketsSound, LastTicket, afsync
<1>10. ASSUME NEW t \in Nat, Covered(t)
       PROVE  \A i \in DOMAIN waiters' : waiters'[i].ticket <= t => waiters'[i].upto <= durable'
  BY <1>1, <1>2, <1>5, <1>10 DEF Covered, MainAt, file
<1>11. Covered(first)' /\ Covered(cur)' /\ (thread'.pc = "store" => Covered(thread.cur)')
  BY <1>1, <1>6, <1>10 DEF LogInv, LogTypeOK, TicketsSound, Covered, MainAt, afsync
<1>12. offset <= offset /\ next <= next
  BY <1>9, LogNumbers, SMTT(60) DEF LogInv
<1>13. \A i \in DOMAIN waiters' : waiters'[i].upto <= offset' /\ waiters'[i].ticket <= LastTicket'
  BY <1>1, <1>2, <1>5, <1>9, <1>12 DEF LogInv, TicketsSound, file
<1>14. thread'.pc # "none" /\ fd' = gen' /\ next' # UINT64_MAX
  BY <1>1, <1>9 DEF LogInv, TicketsSound, Stopping, file, afsync
<1>15. /\ acked' <= durable' /\ acked' <= offset'
       /\ first' <= LastTicket' /\ cur' <= LastTicket'
       /\ thread'.pc = "fsync" => first' <= thread'.next /\ thread'.next <= LastTicket'
       /\ thread'.pc = "store" => thread'.cur <= LastTicket'
  BY <1>1, <1>9 DEF LogInv, TicketsSound, file, afsync
<1>16. TicketsSound'
  BY <1>1, <1>6, <1>11, <1>13, <1>14, <1>15 DEF TicketsSound, Stopping
<1>17. /\ Upto \in Seq(Nat) /\ Len(Upto) = Len(waiters)
       /\ \A i \in 1 .. Len(waiters) : Upto[i] = waiters[i].upto
  BY <1>3, UptoIs
<1>18. /\ Upto' \in Seq(Nat) /\ Len(Upto') = Len(waiters) + 1
       /\ \A i \in 1 .. Len(waiters) + 1 : Upto'[i] = waiters'[i].upto
  <2>1. Upto' = [i \in 1 .. Len(waiters) + 1 |-> waiters'[i].upto]
    BY <1>4, LenProperties DEF Upto
  <2>2. \A i \in 1 .. Len(waiters) + 1 : waiters'[i].upto \in Nat
    <3>1. \A i \in 1 .. Len(waiters') : waiters'[i] \in Waiter
      BY <1>4, ElementOfSeq
    <3>. QED
      BY <1>4, <3>1 DEF Waiter
  <2>. QED
    BY <1>3, <2>1, <2>2, SMTT(60)
<1>19. Upto' = Append(Upto, offset)
  <2>1. /\ Append(Upto, offset) \in Seq(Nat) /\ Len(Append(Upto, offset)) = Len(waiters) + 1
        /\ \A i \in 1 .. Len(waiters) : Append(Upto, offset)[i] = Upto[i]
        /\ Append(Upto, offset)[Len(waiters) + 1] = offset
    BY <1>17, LogNumbers, AppendProperties, SMTT(60) DEF LogInv
  <2>2. \A i \in 1 .. Len(waiters) + 1 : Upto'[i] = Append(Upto, offset)[i]
    <3>1. \A i \in 1 .. Len(waiters) : Upto'[i] = Append(Upto, offset)[i]
      <4>1. \A i \in 1 .. Len(waiters) : i \in 1 .. Len(waiters) + 1
        BY <1>3, SMTT(60)
      <4>. QED
        BY <1>4, <1>17, <1>18, <2>1, <4>1
    <3>2. Upto'[Len(waiters) + 1] = offset
      BY <1>2, <1>3, <1>4, <1>18, SMTT(60)
    <3>. QED
      BY <1>3, <2>1, <3>1, <3>2, SMTT(60)
  <2>. QED
    BY <1>18, <2>1, <2>2, SeqEqual
<1>20. L!Start
  BY <1>1, <1>19 DEF L!Start, file
<1>. QED
  BY <1>7, <1>8, <1>16, <1>20 DEF Implements, LogInv, L!Next

\* fsync(): a thread that is about to count a ticket as synced either has synced
\* the file, or all that its ticket covers was on disk before.
LEMMA FsyncImplements ==
    ASSUME LogInv, ThreadFsync
    PROVE  Implements
<1>1. /\ offset \in Nat /\ durable \in Nat /\ acked \in Nat /\ Len(data) \in Nat
      /\ first \in Nat /\ cur \in Nat
      /\ offset <= Len(data) /\ durable <= Len(data)
  BY LogNumbers DEF LogInv, FileSound
<1>2. /\ UNCHANGED <<data, offset, state, gen, afsync, request, complete, main, waiters, acked>>
      /\ thread.pc = "fsync"
  BY DEF ThreadFsync, ThreadOnly, ThreadAt
<1>3. PICK f \in FdRead : durable' = IF f = gen THEN Len(data) ELSE durable
  BY DEF ThreadFsync
<1>4. durable' \in Nat /\ durable <= durable' /\ durable' <= Len(data)
  BY <1>1, <1>3, SMTT(60)
<1>5. first <= thread.next /\ thread.next <= LastTicket /\ thread.next \in Nat
  <2>1. first <= thread.next /\ thread.next <= LastTicket /\ thread.next \in Ticket
    BY <1>2 DEF LogInv, LogTypeOK, TicketsSound
  <2>. QED
    BY <1>1, <2>1, SMTT(60)
<1>6. /\ thread' \in [pc : ThreadPlace, cur : Nat, next : Ticket, seq : Nat, failed : BOOLEAN]
      /\ thread'.pc = "store" /\ thread'.cur = thread.next
  BY <1>5 DEF ThreadFsync, LogInv, LogTypeOK, ThreadPlace
<1>7. LogTypeOK'
  BY <1>2, <1>4, <1>6 DEF LogInv, LogTypeOK, afsync
<1>8. FileSound'
  BY <1>2, <1>4 DEF LogInv, FileSound
<1>9. \A i \in DOMAIN waiters : waiters[i].upto \in Nat /\ waiters[i].upto <= offset
  BY WaiterTypes DEF LogInv, Waiter, TicketsSound
<1>10. ASSUME NEW t, Covered(t)
       PROVE  /\ \A i \in DOMAIN waiters' : waiters'[i].ticket <= t => waiters'[i].upto <= durable'
              /\ (MainAt("notify") /\ main.ticket <= t) => offset <= durable'
  BY <1>1, <1>2, <1>4, <1>9, <1>10, SMTT(60) DEF Covered
<1>11. offset <= durable' \/ Covered(thread.next)
  <2>1. CASE f = gen
    BY <1>1, <1>3, <2>1
  <2>2. CASE f # gen /\ thread.next = first
    BY <2>2 DEF LogInv, TicketsSound
  <2>3. CASE f # gen /\ thread.next # first
    <3>1. fd # gen
      BY <2>3 DEF FdRead
    <3>2. Stopping \/ main.pc = "fd"
      BY <1>2, <3>1 DEF LogInv, TicketsSound
    <3>3. ~(main.pc = "fd")
      BY <1>1, <1>5, <2>3, SMTT(60) DEF LogInv, TicketsSound, LastTicket
    <3>. QED
      BY <1>1, <1>4, <3>2, <3>3, SMTT(60) DEF LogInv, TicketsSound
  <2>. QED
    BY <2>1, <2>2, <2>3
<1>12. Covered(thread.cur)'
  <2>1. CASE offset <= durable'
    BY <1>1, <1>2, <1>4, <1>9, <2>1, SMTT(60) DEF Covered
  <2>2. CASE Covered(thread.next)
    BY <1>2, <1>6, <1>10, <2>2 DEF Covered, MainAt
  <2>. QED
    BY <1>11, <2>1, <2>2
<1>13. Covered(first)' /\ Covered(cur)'
  BY <1>2, <1>10 DEF LogInv, TicketsSound, Covered, MainAt, afsync
<1>14. LastTicket' = LastTicket
  BY <1>2 DEF LastTicket, afsync
<1>15. acked' <= durable' /\ (Stopping => offset <= durable')
  BY <1>1, <1>2, <1>4, SMTT(60) DEF LogInv, TicketsSound
<1>16. TicketsSound'
  BY <1>2, <1>5, <1>6, <1>12, <1>13, <1>14, <1>15
  DEF LogInv, TicketsSound, Stopping, afsync
<1>17. MinOf(durable', offset') \in MinOf(durable, offset) .. offset
  BY <1>1, <1>2, <1>4, SMTT(60) DEF MinOf
<1>18. L!Sync
  BY <1>2, <1>17 DEF L!Sync, Upto
<1>. QED
  BY <1>7, <1>8, <1>16, <1>18 DEF Implements, LogInv, L!Next

\* A crash keeps what was on disk, and what is read again is a prefix of the log.
LEMMA CrashImplements ==
    ASSUME LogInv, Crash
    PROVE  Implements
<1>1. /\ offset \in Nat /\ durable \in Nat /\ acked \in Nat /\ Len(data) \in Nat
      /\ offset <= Len(data) /\ durable <= Len(data) /\ data \in Seq(Cell)
  BY LogNumbers DEF LogInv, LogTypeOK, FileSound
<1>2. PICK k \in durable .. Len(data), tail \in {<<>>, <<"torn">>} :
         data' = SubSeq(data, 1, k) \o tail
  BY DEF Crash
<1>3. k \in Nat /\ durable <= k /\ k <= Len(data)
  BY <1>1, SMTT(60)
<1>. DEFINE d == SubSeq(data, 1, k)
            m == MinOf(k, offset)
<1>4. d \in Seq(Cell) /\ Len(d) = k /\ \A i \in 1 .. k : d[i] = data[i]
  <2>1. \A i \in 1 .. k : data[i] \in Cell
    BY <1>1, <1>3, ElementOfSeq, SMTT(60)
  <2>2. /\ d \in Seq(Cell)
        /\ Len(d) = IF 1 <= k THEN k - 1 + 1 ELSE 0
        /\ \A i \in 1 .. k - 1 + 1 : d[i] = data[1 + i - 1]
    BY <1>3, <2>1, SubSeqProperties, SMTT(60)
  <2>. QED
    BY <1>3, <2>2, SMTT(60)
<1>. HIDE DEF d
<1>5. /\ data' \in Seq(Cell) /\ Len(data') \in Nat /\ k <= Len(data')
      /\ \A i \in 1 .. k : data'[i] = data[i]
      /\ Len(data') > k => data'[k + 1] = "torn"
  <2>0. data' = d \o tail
    BY <1>2 DEF d
  <2>1. CASE tail = <<>>
    <3>1. data' = d
      BY <1>4, <2>0, <2>1, ConcatEmptySeq
    <3>. QED
      BY <1>3, <1>4, <3>1, SMTT(60)
  <2>2. CASE tail = <<"torn">>
    <3>1. tail \in Seq(Cell) /\ Len(tail) = 1 /\ tail[1] = "torn"
      BY <2>2, SMTT(60) DEF Cell
    <3>2. /\ data' \in Seq(Cell) /\ Len(data') = k + 1
          /\ \A i \in 1 .. k + 1 : data'[i] = IF i <= k THEN d[i] ELSE tail[i - k]
      <4>1. /\ d \o tail \in Seq(Cell)
            /\ Len(d \o tail) = Len(d) + Len(tail)
            /\ \A i \in 1 .. Len(d) + Len(tail) :
                   (d \o tail)[i] = IF i <= Len(d) THEN d[i] ELSE tail[i - Len(d)]
        BY <1>4, <3>1, ConcatProperties
      <4>. QED
        BY <1>4, <2>0, <3>1, <4>1
    <3>. QED
      BY <1>3, <1>4, <3>1, <3>2, SMTT(60)
  <2>. QED
    BY <2>1, <2>2
<1>6. /\ m \in 0 .. Len(data') /\ m <= offset /\ m <= k
      /\ MinOf(durable, offset) <= m
  BY <1>1, <1>3, <1>5, SMTT(60) DEF MinOf
<1>7. \A i \in 1 .. m : data'[i] = "rec"
  BY <1>1, <1>3, <1>5, <1>6, SMTT(60) DEF LogInv, FileSound
<1>8. m < Len(data') => data'[m + 1] = "torn"
  <2>1. CASE k <= offset
    BY <1>1, <1>3, <1>5, <2>1 DEF MinOf
  <2>2. CASE offset < k
    <3>1. data[offset + 1] = "torn"
      BY <1>1, <1>3, <2>2, SMTT(60) DEF LogInv, FileSound
    <3>2. offset + 1 \in 1 .. k /\ m = offset
      BY <1>1, <1>3, <2>2, SMTT(60) DEF MinOf
    <3>. QED
      BY <1>5, <3>1, <3>2
  <2>. QED
    BY <1>1, <1>3, <2>1, <2>2, SMTT(60)
<1>9. offset' = m /\ durable' = Len(data') /\ acked' = acked /\ NewProcess
  <2>1. Readable(data') = m
    <3>. HIDE DEF m
    <3>. QED
      BY <1>5, <1>6, <1>7, <1>8, ReadableIs
  <2>. QED
    BY <2>1 DEF Crash
<1>. HIDE DEF m
<1>10. /\ waiters' = <<>> /\ cur' = 0 /\ next' = 0 /\ first' = 0
       /\ request' \in SeqState /\ complete' \in SeqState
       /\ main' \in [pc : MainPlace, then : {"ops", "add"}, ticket : Nat, seq : Nat]
       /\ main'.pc = "ops"
       /\ thread' \in [pc : ThreadPlace, cur : Nat, next : Ticket, seq : Nat, failed : BOOLEAN]
       /\ thread'.pc = "none"
  BY <1>9 DEF NewProcess, NoMain, NoThread, SeqState, seq_create, MainPlace, ThreadPlace
<1>11. LogTypeOK'
  BY <1>1, <1>5, <1>6, <1>9, <1>10, SMTT(60) DEF LogTypeOK
<1>12. FileSound'
  <2>1. state' # "WRITE"
    BY DEF Crash
  <2>. QED
    BY <1>5, <1>6, <1>7, <1>8, <1>9, <2>1, SMTT(60) DEF FileSound
<1>13. acked <= MinOf(durable, offset)
  BY DEF LogInv, TicketsSound, MinOf
<1>14. acked' <= durable' /\ acked' <= offset'
  BY <1>1, <1>5, <1>6, <1>9, <1>13, SMTT(60) DEF MinOf
<1>15. TicketsSound'
  BY <1>10, <1>14, SMTT(60) DEF TicketsSound, Covered, LastTicket, Stopping, MainAt
<1>16. MinOf(durable', offset') = m /\ m \in MinOf(durable, offset) .. offset
  BY <1>1, <1>5, <1>6, <1>9, SMTT(60) DEF MinOf
<1>17. Upto' = <<>>
  BY <1>10, SMTT(60) DEF Upto
<1>18. L!Crash
  BY <1>9, <1>16, <1>17 DEF L!Crash
<1>. QED
  BY <1>11, <1>12, <1>15, <1>18 DEF Implements, LogInv, L!Next

---------------------------------------------------------------------------
(* Steps that take a fact about finite sets.                               *)

INSTANCE FiniteSetTheorems

\* The names of the locks that a session is told it has now.
LEMMA TellsType ==
    ASSUME NEW s \in Session, NEW S \in SUBSET Lock, replies \in [Session -> Seq(Message)]
    PROVE  TellsOwners(s, S) \in [Session -> Seq(Message)]
<1>1. ASSUME NEW t \in Session
      PROVE  ToldLocked(s, S, t) \in Seq(Message)
    <2> DEFINE H == HeadsNow(s, S, t)
               names == InSomeOrder(H)
    <2>1. IsFiniteSet(H) /\ H \subseteq Lock
        BY FiniteLocks, FS_Subset DEF HeadsNow
    <2>2. Cardinality(H) \in Nat /\ ExistsBijection(1 .. Cardinality(H), H)
        BY <2>1, FS_CardinalityType
    <2>3. \E f \in [1 .. Cardinality(H) -> H] : \A i, j \in DOMAIN f : f[i] = f[j] => i = j
        BY <2>2 DEF ExistsBijection, Bijection, Injection, IsInjective
    <2>4. names \in [1 .. Cardinality(H) -> H]
        BY <2>3 DEF InSomeOrder
    <2> HIDE DEF names, H
    <2>5. DOMAIN names = 1 .. Cardinality(H) /\ \A i \in DOMAIN names : names[i] \in Lock
        BY <2>1, <2>4
    <2>6. \A i \in DOMAIN names : Notify("locked", names[i]) \in Message
        BY <2>5 DEF Notify, Message
    <2>7. [i \in DOMAIN names |-> Notify("locked", names[i])] \in Seq(Message)
        <3>1. [i \in DOMAIN names |-> Notify("locked", names[i])] \in [1 .. Cardinality(H) -> Message]
            BY <2>5, <2>6
        <3>2. \A n \in Nat : \A f \in [1 .. n -> Message] : f \in Seq(Message)
            BY SMTT(60)
        <3> QED
            BY <2>2, <3>1, <3>2
    <2> QED
        BY <2>7 DEF ToldLocked, names, H
<1>2. ASSUME NEW t \in Session
      PROVE  replies[t] \o ToldLocked(s, S, t) \in Seq(Message)
    BY <1>1, ConcatProperties
<1> QED
    BY <1>2 DEF TellsOwners

\* The server reads one request.
LEMMA ServeStep ==
    ASSUME LockInv, NEW s \in Session, Serve(s)
    PROVE  LockInv'
<1> DEFINE req == Head(requests[s])
<1>1. /\ s \in sessions /\ requests[s] # <<>> /\ requests \in [Session -> Seq(Req)]
      /\ replies \in [Session -> Seq(Message)]
      /\ queue \in [Lock -> Seq(Session)]
    BY Types DEF LockInv, Serve
<1>2. req \in Req /\ Tail(requests[s]) \in Seq(Req)
    BY <1>1, RestType
<1>3. requests' \in [Session -> Seq(Req)]
    BY <1>1, <1>2 DEF Serve
<1>4. IF req.method = "unlock" THEN ServeUnlock(s, req) ELSE ServeLock(s, req)
    BY DEF Serve
<1> HIDE DEF req
<1>5. req.method \in {"lock", "steal", "unlock"} /\ req.name \in Lock /\ req.id \in Nat
    BY <1>2 DEF Req
<1>6. /\ Error(req.id) \in Message
      /\ \A b \in BOOLEAN : Reply(req.id, b) \in Message
      /\ Notify("stolen", req.name) \in Message
    BY <1>5 DEF Error, Reply, Notify, Message
<1>7. UNCHANGED <<idl, conn, n_sessions>>
    BY DEF Serve
<1>8. ASSUME sessions' = sessions, QueueSound', replies' \in [Session -> Seq(Message)],
             mode' \in [Session -> [Lock -> {"none", "lock", "steal"}]],
             queue' \in [Lock -> Seq(Session)]
      PROVE  LockInv'
    <2>1. LockTypeOK'
        BY <1>3, <1>7, <1>8 DEF LockInv, LockTypeOK, Db, Req
    <2> QED
        BY <1>8, <2>1 DEF LockInv
<1>9. ASSUME replies' = Send(replies, s, Error(req.id)), UNCHANGED server
      PROVE  LockInv'
    <2>1. replies' \in [Session -> Seq(Message)]
        BY <1>1, <1>6, <1>9, SendType
    <2>2. sessions' = sessions /\ mode' = mode /\ queue' = queue
        BY <1>9 DEF server
    <2>3. QueueSound'
        BY <2>2, ServerAlone DEF LockInv
    <2> QED
        BY <1>8, <2>1, <2>2, <2>3, Types DEF LockInv
<1>10. CASE req.method = "unlock"
    <2>1. CASE mode[s][req.name] = "none"
        BY <1>4, <1>9, <1>10, <2>1 DEF ServeUnlock
    <2>2. CASE mode[s][req.name] # "none"
        <3>1. /\ queue' = Leaves(s, {req.name}) /\ mode' = Forgets(s, {req.name}) /\ sessions' = sessions
              /\ replies' = Send(TellsOwners(s, {req.name}), s, Reply(req.id, FALSE))
            BY <1>4, <1>10, <2>2 DEF ServeUnlock
        <3>2. {req.name} \in SUBSET Lock /\ FALSE \in BOOLEAN
            BY <1>5
        <3>3. replies' \in [Session -> Seq(Message)]
            BY <1>1, <1>6, <3>1, <3>2, SendType, TellsType
        <3>4. /\ QueueSound'
              /\ mode' \in [Session -> [Lock -> {"none", "lock", "steal"}]]
              /\ queue' \in [Lock -> Seq(Session)]
            BY <1>1, <3>1, <3>2, LeaveSound
        <3> QED
            BY <1>8, <3>1, <3>3, <3>4
    <2> QED
        BY <2>1, <2>2
<1>11. CASE req.method # "unlock"
    <2> DEFINE l == req.name
               new == ovsdb_server_lock(l, s, req.method)
               told == IF req.method = "steal" /\ queue[l] # <<>>
                       THEN Send(replies, Head(queue[l]), Notify("stolen", l)) ELSE replies
    <2>1. CASE mode[s][l] # "none"
        BY <1>4, <1>9, <1>11, <2>1 DEF ServeLock
    <2>2. CASE mode[s][l] = "none"
        <3>1. /\ queue' = [queue EXCEPT ![l] = new] /\ mode' = [mode EXCEPT ![s][l] = req.method]
              /\ replies' = Send(told, s, Reply(req.id, Head(new) = s)) /\ sessions' = sessions
            BY <1>4, <1>11, <2>2 DEF ServeLock
        <3>2. told \in [Session -> Seq(Message)]
            <4>1. queue[l] # <<>> => Head(queue[l]) \in Session
                BY <1>1, <1>5, RestType
            <4> QED
                BY <1>1, <1>6, <4>1, SendType
        <3>3. replies' \in [Session -> Seq(Message)]
            <4> HIDE DEF told, new
            <4>1. (Head(new) = s) \in BOOLEAN
                OBVIOUS
            <4> QED
                BY <1>6, <3>1, <3>2, <4>1, SendType
        <3>4. /\ QueueSound'
              /\ mode' \in [Session -> [Lock -> {"none", "lock", "steal"}]]
              /\ queue' \in [Lock -> Seq(Session)]
            BY <1>1, <1>5, <1>11, <2>2, <3>1, LockSound
        <3> QED
            BY <1>8, <3>1, <3>3, <3>4
    <2> QED
        BY <2>1, <2>2
<1> QED
    BY <1>10, <1>11

\* ovsdb_jsonrpc_session_close(): the session leaves all queues.
LEMMA CloseStep ==
    ASSUME LockInv, NEW s \in Session, Close(s)
    PROVE  LockInv'
<1> DEFINE S == {l \in Lock : mode[s][l] # "none"}
<1>1. /\ sessions' = sessions \ {s} /\ queue' = Leaves(s, S) /\ mode' = Forgets(s, S)
      /\ replies' = TellsOwners(s, S)
      /\ S \in SUBSET Lock /\ \A l \in Lock \ S : mode[s][l] = "none"
    BY DEF Close
<1> HIDE DEF S
<1>2. /\ requests \in [Session -> Seq(Req)] /\ replies \in [Session -> Seq(Message)]
      /\ sessions \subseteq 1 .. n_sessions
    BY Types DEF LockInv
<1>3. requests' \in [Session -> Seq(Req)]
    <2>1. <<>> \in Seq(Req)
        BY EmptySeq
    <2> QED
        BY <1>2, <2>1 DEF Close
<1>4. replies' \in [Session -> Seq(Message)]
    BY <1>1, <1>2, TellsType
<1>5. /\ QueueSound'
      /\ mode' \in [Session -> [Lock -> {"none", "lock", "steal"}]]
      /\ queue' \in [Lock -> Seq(Session)]
    <2>1. sessions \ {s} \subseteq sessions'
        BY <1>1
    <2> QED
        BY <1>1, <2>1, LeaveSound
<1>6. UNCHANGED <<idl, conn, n_sessions>>
    BY DEF Close
<1>7. LockTypeOK'
    BY <1>1, <1>2, <1>3, <1>4, <1>5, <1>6 DEF LockInv, LockTypeOK, Db, Req
<1> QED
    BY <1>5, <1>7 DEF LockInv

\* The numbers before the first one that is greater than c.
LEMMA LeadingOnes ==
    ASSUME NEW n \in Nat, NEW f \in [1 .. n -> Nat], NEW c \in Nat
    PROVE  \E m \in 0 .. n : (\A i \in 1 .. m : f[i] <= c) /\ (m < n => f[m + 1] > c)
<1>. DEFINE Late == {i \in 1 .. n : f[i] > c}
<1>1. CASE Late = {}
  <2>1. \A i \in 1 .. n : f[i] <= c
    BY <1>1, SMTT(60)
  <2>. QED
    BY <2>1, SMTT(60)
<1>2. CASE Late # {}
  <2>1. Late \subseteq Nat
    BY SMTT(60)
  <2>2. PICK k \in Late : \A j \in Late : ~(<<j, k>> \in OpToRel(<, Nat))
    <3>. HIDE DEF Late
    <3>. QED
      BY <1>2, <2>1, WFMin, NatLessThanWellFounded
  <2>3. \A j \in Late : <<j, k>> \in Nat \X Nat /\ <<j, k>>[1] = j /\ <<j, k>>[2] = k
    BY SMTT(60)
  <2>4. \A j \in Late : ~(j < k)
    BY <2>2, <2>3 DEF OpToRel
  <2>5. \A i \in 1 .. k - 1 : f[i] <= c
    BY <2>4, SMTT(60)
  <2>. QED
    BY <2>5, SMTT(60)
<1>. QED
  BY <1>1, <1>2

\* raft_waiters_run() completes waiters whose ticket is not past cur.
LEMMA DoneIs ==
    ASSUME LogTypeOK
    PROVE  Done \in 0 .. Len(waiters) /\ \A i \in 1 .. Done : waiters[i].ticket <= cur
<1>. DEFINE f == [i \in 1 .. Len(waiters) |-> waiters[i].ticket]
            P(n) == /\ \A i \in 1 .. n : waiters[i].ticket <= cur
                    /\ n < Len(waiters) => waiters[n + 1].ticket > cur
<1>1. /\ Len(waiters) \in Nat /\ cur \in Nat
      /\ f \in [1 .. Len(waiters) -> Nat]
  BY WaiterTypes DEF LogTypeOK, Waiter
<1>2. \A i \in 1 .. Len(waiters) : f[i] = waiters[i].ticket
  OBVIOUS
<1>. HIDE DEF f
<1>3. PICK m \in 0 .. Len(waiters) :
         (\A i \in 1 .. m : f[i] <= cur) /\ (m < Len(waiters) => f[m + 1] > cur)
  BY <1>1, LeadingOnes
<1>4. P(m)
  <2>1. \A i \in 1 .. m : i \in 1 .. Len(waiters)
    BY <1>1, SMTT(60)
  <2>2. m < Len(waiters) => m + 1 \in 1 .. Len(waiters)
    BY <1>1, SMTT(60)
  <2>. QED
    BY <1>2, <1>3, <2>1, <2>2
<1>5. Done \in 0 .. Len(waiters) /\ P(Done)
  BY <1>4 DEF Done
<1>. QED
  BY <1>5

\* raft_waiters_run() reports only commits whose records are on disk.
LEMMA RunImplements ==
    ASSUME LogInv, WaitersRun
    PROVE  Implements
<1>. DEFINE n == Done
            N == Len(waiters)
<1>1. /\ waiters \in Seq(Waiter) /\ N \in Nat /\ DOMAIN waiters = 1 .. N
      /\ \A i \in 1 .. N : waiters[i] \in Waiter
  BY WaiterTypes DEF LogInv
<1>2. n \in 0 .. N /\ \A i \in 1 .. n : waiters[i].ticket <= cur
  BY DoneIs DEF LogInv
<1>3. /\ waiters' = SubSeq(waiters, n + 1, N)
      /\ acked' = IF n = 0 THEN acked ELSE waiters[n].upto
      /\ UNCHANGED <<file, afsync, request, complete, thread>>
      /\ main.pc = "run"
  BY DEF WaitersRun, MainAt
<1>4. /\ main' \in [pc : MainPlace, then : {"ops", "add"}, ticket : Nat, seq : Nat]
      /\ main'.pc = "ops" /\ main'.ticket = main.ticket
  BY DEF WaitersRun, MainGoto, LogInv, LogTypeOK, MainPlace
<1>5. \A i \in 1 .. N : waiters[i].upto <= offset /\ waiters[i].ticket <= LastTicket
  BY <1>1 DEF LogInv, TicketsSound
<1>6. \A i \in 1 .. n : waiters[i].upto <= durable
  <2>1. \A i \in DOMAIN waiters : waiters[i].ticket <= cur => waiters[i].upto <= durable
    BY DEF LogInv, TicketsSound, Covered
  <2>2. \A i \in 1 .. n : i \in DOMAIN waiters
    BY <1>1, <1>2, SMTT(60)
  <2>. QED
    BY <1>2, <2>1, <2>2
<1>. HIDE DEF n, N
<1>7. /\ waiters' \in Seq(Waiter) /\ Len(waiters') = N - n
      /\ \A i \in 1 .. N - n : waiters'[i] = waiters[n + i] /\ n + i \in 1 .. N
  <2>1. n \in 0 .. Len(waiters)
    BY <1>2 DEF N
  <2>2. waiters' = SubSeq(waiters, n + 1, Len(waiters))
    BY <1>3 DEF N
  <2>. QED
    BY <1>1, <2>1, <2>2, SuffixProperties DEF N
<1>8. DOMAIN waiters' = 1 .. N - n
  BY <1>7, LenProperties
<1>9. \A i \in DOMAIN waiters' : \E j \in DOMAIN waiters : waiters'[i] = waiters[j]
  BY <1>1, <1>7, <1>8
<1>10. acked' \in Nat /\ acked' <= durable /\ acked' <= offset
  BY <1>1, <1>2, <1>3, <1>5, <1>6, LogNumbers, SMTT(60) DEF LogInv, TicketsSound, Waiter
<1>11. LogTypeOK'
  BY <1>3, <1>4, <1>7, <1>10 DEF LogInv, LogTypeOK, Waiter, file, afsync
<1>12. FileSound'
  BY <1>3 DEF LogInv, FileSound, file
<1>13. LastTicket' = LastTicket
  BY <1>3, <1>4 DEF LastTicket, afsync
<1>14. ASSUME NEW t, Covered(t)
       PROVE  \A i \in DOMAIN waiters' : waiters'[i].ticket <= t => waiters'[i].upto <= durable'
  BY <1>3, <1>9, <1>14 DEF Covered, file
<1>15. Covered(first)' /\ Covered(cur)' /\ (thread'.pc = "store" => Covered(thread.cur)')
  BY <1>3, <1>4, <1>14 DEF LogInv, TicketsSound, Covered, MainAt, afsync
<1>16. \A i \in DOMAIN waiters' : waiters'[i].upto <= offset' /\ waiters'[i].ticket <= LastTicket'
  BY <1>3, <1>9, <1>13 DEF LogInv, TicketsSound, file
<1>17. thread.pc = "none" => waiters' = <<>>
  <2>1. thread.pc = "none" => N = 0
    BY SMTT(60) DEF LogInv, TicketsSound, N
  <2>. QED
    BY <1>2, <1>7, <2>1, EmptySeq, SMTT(60)
<1>18. TicketsSound'
  BY <1>3, <1>4, <1>10, <1>13, <1>15, <1>16, <1>17
  DEF LogInv, TicketsSound, Stopping, file, afsync
<1>19. CASE n = 0
  <2>1. waiters' = waiters
    BY <1>1, <1>3, <1>19, SubSeqFull, SMTT(60) DEF N
  <2>2. UNCHANGED L!vars
    BY <1>3, <1>19, <2>1 DEF L!vars, Upto, file
  <2>. QED
    BY <1>11, <1>12, <1>18, <2>2 DEF Implements, LogInv
<1>20. CASE n # 0
  <2>1. /\ Upto \in Seq(Nat) /\ Len(Upto) = N
        /\ \A i \in 1 .. N : Upto[i] = waiters[i].upto /\ Upto[i] \in Nat
    BY <1>1, UptoIs DEF N, Waiter
  <2>2. /\ SubSeq(Upto, n + 1, N) \in Seq(Nat)
        /\ Len(SubSeq(Upto, n + 1, N)) = N - n
        /\ \A i \in 1 .. N - n : SubSeq(Upto, n + 1, N)[i] = Upto[n + i]
    <3>1. n \in 0 .. Len(Upto)
      BY <1>2, <2>1
    <3>. QED
      BY <2>1, <3>1, SuffixProperties
  <2>3. Upto' = [i \in 1 .. N - n |-> Upto[n + i]]
    BY <1>7, <1>8, <2>1 DEF Upto
  <2>4. Upto' \in Seq(Nat) /\ Len(Upto') = N - n /\ \A i \in 1 .. N - n : Upto'[i] = Upto[n + i]
    <3>1. N - n \in Nat
      BY <1>1, <1>2, SMTT(60)
    <3>2. \A i \in 1 .. N - n : Upto[n + i] \in Nat
      BY <1>7, <2>1
    <3>3. Upto' \in [1 .. N - n -> Nat] /\ \A i \in 1 .. N - n : Upto'[i] = Upto[n + i]
      BY <2>3, <3>2
    <3>. QED
      BY <3>1, <3>3, SMTT(60)
  <2>5. Upto' = SubSeq(Upto, n + 1, N)
    BY <2>2, <2>4, SeqEqual
  <2>6. n \in 1 .. N /\ Upto[n] = waiters[n].upto /\ Upto[n] <= MinOf(durable, offset)
    BY <1>1, <1>2, <1>5, <1>6, <1>20, <2>1, SMTT(60) DEF MinOf
  <2>7. L!Complete(n)
    BY <1>3, <1>20, <2>1, <2>5, <2>6 DEF L!Complete, file
  <2>. QED
    BY <1>11, <1>12, <1>18, <2>1, <2>6, <2>7 DEF Implements, LogInv, L!Next
<1>. QED
  BY <1>19, <1>20

---------------------------------------------------------------------------
(* The theorems.                                                           *)

\* The queues of ovsdb/server.c and the waiters of the sessions of
\* ovsdb/jsonrpc-server.c agree in every order of lock, steal, unlock and close,
\* for any number of clients, tools, locks and connections, whatever breaks.
THEOREM LockInvariant == LockSpec => []LockInv
<1>1. LockInit => LockInv
    <2> SUFFICES ASSUME LockInit
                 PROVE  LockInv
        OBVIOUS
    <2>1. idl \in [Client -> Db]
        BY DEF LockInit, NoView, NoRequest, Db
    <2>2. \A S : <<>> \in Seq(S)
        BY EmptySeq
    <2>3. n_sessions \in Nat /\ sessions \subseteq 1 .. n_sessions /\ n_sessions <= MaxSession
        BY SessionAssumption, SMTT(60) DEF LockInit
    <2>4. LockTypeOK
        BY <2>1, <2>2, <2>3, Types DEF LockInit
    <2>5. QueueSound
        BY SMTT(60) DEF LockInit, QueueSound
    <2> QED
        BY <2>4, <2>5 DEF LockInv
<1>2. LockInv /\ [LockNext]_lockVars => LockInv'
    <2> SUFFICES ASSUME LockInv, [LockNext]_lockVars
                 PROVE  LockInv'
        OBVIOUS
    <2>1. CASE \E c \in Client : Receive(c)
        BY <2>1, ReceiveStep
    <2>2. CASE \E s \in Session : Serve(s)
        BY <2>2, ServeStep
    <2>3. CASE \E s \in Session : Close(s)
        BY <2>3, CloseStep
    <2>4. CASE \E c \in Client : ClientConnect(c)
        BY <2>4, ConnectStep
    <2>5. CASE \E c \in Client, l \in Lock \cup {NoLock} : SetLock(c, l)
        BY <2>5, SetLockStep
    <2>6. CASE \E t \in Tool : ToolConnect(t)
        BY <2>6, ConnectStep
    <2>7. CASE \E t \in Tool, m \in {"lock", "steal", "unlock"}, l \in Lock : ToolRequest(t, m, l)
        BY <2>7, ToolRequestStep
    <2>8. CASE \E p \in Process : Break(p)
        BY <2>8, BreakStep
    <2>9. CASE UNCHANGED lockVars
        <3>1. UNCHANGED <<idl, conn, n_sessions, sessions, mode, queue, requests, replies>>
            BY <2>9 DEF lockVars, lockOnly, server
        <3>2. LockTypeOK'
            BY <3>1 DEF LockInv, LockTypeOK
        <3> QED
            BY <3>1, <3>2, ServerAlone DEF LockInv
    <2> QED
        BY <2>1, <2>2, <2>3, <2>4, <2>5, <2>6, <2>7, <2>8, <2>9 DEF LockNext, LockStep
<1> QED
    BY <1>1, <1>2, PTL DEF LockSpec

\* A queue never holds a session twice, a closed one or one without a waiter, and
\* no waiter for a lock is lost: what the run checks on one instance.
THEOREM QueueSoundHolds == LockSpec => []QueueSound
<1>1. LockInv => QueueSound
    BY DEF LockInv
<1> QED
    BY <1>1, LockInvariant, PTL

\* The empty log of a process that has just begun.
LEMMA LogInitImplements ==
    ASSUME LogInit
    PROVE  LogInv /\ L!Init
<1>1. LogTypeOK
  BY SMTT(60) DEF LogInit, LogTypeOK, NoMain, NoThread, SeqState, seq_create, MainPlace, ThreadPlace
<1>2. FileSound
  BY SMTT(60) DEF LogInit, FileSound
<1>3. TicketsSound
  BY SMTT(60) DEF LogInit, TicketsSound, Covered, LastTicket, Stopping, MainAt, NoMain, NoThread
<1>4. L!Init
  BY SMTT(60) DEF LogInit, L!Init, Upto, MinOf
<1>. QED
  BY <1>1, <1>2, <1>3, <1>4 DEF LogInv

\* Every step of log.c and of its thread keeps the invariant, and is a step of
\* LogCommit or one that LogCommit does not see.
LEMMA LogNextImplements ==
    ASSUME LogInv, [LogNext]_logVars
    PROVE  Implements
<1>1. CASE UNCHANGED logVars
  <2>1. /\ UNCHANGED <<file, afsync, request, complete, main, thread>>
        /\ UNCHANGED <<waiters, acked>>
    BY <1>1 DEF logVars, logOnly
  <2>2. LogTypeOK'
    BY <2>1 DEF LogInv, LogTypeOK, file, afsync
  <2>3. TicketsSound'
    BY <2>1 DEF LogInv, TicketsSound, Covered, LastTicket, Stopping, MainAt, file, afsync
  <2>. QED
    BY <2>1, <2>2, <2>3, QuietImplements
<1>2. CASE MainStep
  BY <1>2, CommitQuiet, WaitQuiet, DestroyQuiet, NotifyImplements, RunImplements DEF MainStep
<1>3. CASE MainOps
  BY <1>3, CommitQuiet, WaitQuiet, WriteImplements, WriteFailsImplements, ReplaceImplements
     DEF MainOps
<1>4. CASE ThreadStep
  BY <1>4, ThreadQuiet, FsyncImplements DEF ThreadStep
<1>5. CASE Crash
  BY <1>5, CrashImplements
<1>. QED
  BY <1>1, <1>2, <1>3, <1>4, <1>5 DEF LogNext

\* What log.c relies on inside, whatever the threads, failures and crashes do: what
\* is before offset can be read, and what the tickets up to cur cover is on disk.
THEOREM LogInvariant == LogSpec => []LogInv
<1>1. LogInit => LogInv
  BY LogInitImplements
<1>2. LogInv /\ [LogNext]_logVars => LogInv'
  BY LogNextImplements DEF Implements
<1>. QED
  BY <1>1, <1>2, PTL DEF LogSpec

\* log.c implements LogCommit, for any number of writes, commits, replacements,
\* failures and crashes.
THEOREM LogImplementsCommit == LogSpec => CommitRefinement
<1>1. LogInit => L!Init
  BY LogInitImplements
<1>2. LogInv /\ [LogNext]_logVars => [L!Next]_(L!vars)
  BY LogNextImplements DEF Implements
<1>. QED
  BY <1>1, <1>2, LogInvariant, PTL DEF LogSpec, CommitRefinement, L!Spec

\* What ovsdb_log_commit_progress() has reported as done is on disk and in the log.
THEOREM LogAckedDurable == LogSpec => []L!AckedDurable
<1>1. LogInv => L!AckedDurable
  BY DEF LogInv, TicketsSound, L!AckedDurable, MinOf
<1>. QED
  BY <1>1, LogInvariant, PTL
=============================================================================
