---------------------------- MODULE OvsRcuProofs ----------------------------
(***************************************************************************)
(* Proofs about OvsRcu, for any number of threads, callbacks and calls: its *)
(* inductive invariant RcuInv, that it implements the grace periods of      *)
(* Grace, and that the callbacks of a thread are called in their order.     *)
(***************************************************************************)
EXTENDS OvsRcu, TLAPS

\* A leaf that names no prover is tried with Zenon and then with SMT.
USE ZenonT(30), SMTT(120), ZenonT(120)

---------------------------------------------------------------------------
(* Sequences.                                                              *)

\* An element of a sequence.
LEMMA ElementOfSeq ==
    ASSUME NEW S, NEW s \in Seq(S), NEW n \in 1 .. Len(s)
    PROVE  s[n] \in S
  BY SMTT(60)

\* The length of a sequence, and the sequence as a function.
LEMMA LenProperties ==
    ASSUME NEW S, NEW s \in Seq(S)
    PROVE  Len(s) \in Nat /\ s \in [1 .. Len(s) -> S] /\ DOMAIN s = 1 .. Len(s)
  BY SMTT(60)

\* The empty sequence.
LEMMA EmptySeq ==
    ASSUME NEW S
    PROVE  /\ << >> \in Seq(S) /\ Len(<< >>) = 0
           /\ \A s \in Seq(S) : s # << >> => Len(s) \in Nat \ {0}
  BY SMTT(60)

\* One sequence after another.
LEMMA ConcatProperties ==
    ASSUME NEW S, NEW s \in Seq(S), NEW t \in Seq(S)
    PROVE  /\ s \o t \in Seq(S) /\ Len(s \o t) = Len(s) + Len(t)
           /\ \A i \in 1 .. Len(s) + Len(t) :
                 (s \o t)[i] = IF i <= Len(s) THEN s[i] ELSE t[i - Len(s)]
  BY SMTT(60)

\* The first element, and the others.
LEMMA HeadTailProperties ==
    ASSUME NEW S, NEW s \in Seq(S), s # << >>
    PROVE  /\ Head(s) \in S /\ Tail(s) \in Seq(S) /\ Len(Tail(s)) = Len(s) - 1
           /\ \A i \in 1 .. Len(Tail(s)) : Tail(s)[i] = s[i + 1]
  BY SMTT(60)

\* One more element.
LEMMA AppendProperties ==
    ASSUME NEW S, NEW s \in Seq(S), NEW e \in S
    PROVE  /\ Append(s, e) \in Seq(S) /\ Append(s, e) # << >>
           /\ Len(Append(s, e)) = Len(s) + 1
           /\ \A i \in 1 .. Len(s) : Append(s, e)[i] = s[i]
           /\ Append(s, e)[Len(s) + 1] = e
  BY SMTT(60)

---------------------------------------------------------------------------
(* Sequences of callbacks.                                                 *)

\* What follows another sequence may be appended to it: a set that is flushed,
\* and the callback that is called.
LEMMA OrderedConcat ==
    ASSUME NEW S, NEW p, NEW s \in Seq(S), NEW r \in Seq(S),
           Ordered(p, s), Ordered(p, r), Before(p, s, r)
    PROVE  Ordered(p, s \o r)
<1> SUFFICES ASSUME NEW i \in 1 .. Len(s) + Len(r), NEW j \in 1 .. Len(s) + Len(r), i < j
             PROVE  Precedes(p, (s \o r)[i], (s \o r)[j])
    BY ConcatProperties, LenProperties, SMTT(60) DEF Ordered
<1>0. Len(s) \in Nat /\ Len(r) \in Nat /\ DOMAIN s = 1 .. Len(s) /\ DOMAIN r = 1 .. Len(r)
    BY LenProperties
<1>1. \A k \in 1 .. Len(s) + Len(r) : (s \o r)[k] = IF k <= Len(s) THEN s[k] ELSE r[k - Len(s)]
    BY ConcatProperties
<1>2. CASE j <= Len(s)
    <2>1. i \in DOMAIN s /\ j \in DOMAIN s
        BY <1>0, <1>2, SMTT(60)
    <2> QED
        BY <2>1, <1>0, <1>1, <1>2, SMTT(60) DEF Ordered
<1>3. CASE i > Len(s)
    <2>1. i - Len(s) \in DOMAIN r /\ j - Len(s) \in DOMAIN r /\ i - Len(s) < j - Len(s)
        BY <1>0, <1>3, SMTT(60)
    <2>2. (s \o r)[i] = r[i - Len(s)] /\ (s \o r)[j] = r[j - Len(s)]
        BY <1>0, <1>1, <1>3, SMTT(60)
    <2> QED
        BY <2>1, <2>2 DEF Ordered
<1>4. CASE i <= Len(s) /\ j > Len(s)
    <2>1. i \in DOMAIN s /\ j - Len(s) \in DOMAIN r
        BY <1>0, <1>4, SMTT(60)
    <2>2. (s \o r)[i] = s[i] /\ (s \o r)[j] = r[j - Len(s)]
        BY <1>0, <1>1, <1>4, SMTT(60)
    <2> QED
        BY <2>1, <2>2 DEF Before
<1> QED
    BY <1>0, <1>2, <1>3, <1>4, SMTT(60)

\* The elements of a concatenation, of a sequence with one more element and of a tail.
LEMMA ConcatElement ==
    ASSUME NEW S, NEW s \in Seq(S), NEW r \in Seq(S)
    PROVE  \A k \in DOMAIN (s \o r) : \/ \E i \in DOMAIN s : (s \o r)[k] = s[i]
                                     \/ \E i \in DOMAIN r : (s \o r)[k] = r[i]
<1> TAKE k \in DOMAIN (s \o r)
<1>0. Len(s) \in Nat /\ Len(r) \in Nat /\ DOMAIN s = 1 .. Len(s) /\ DOMAIN r = 1 .. Len(r)
    BY LenProperties
<1>1. /\ DOMAIN (s \o r) = 1 .. Len(s) + Len(r)
      /\ \A i \in 1 .. Len(s) + Len(r) : (s \o r)[i] = IF i <= Len(s) THEN s[i] ELSE r[i - Len(s)]
    BY ConcatProperties, LenProperties, SMTT(60)
<1>2. CASE k <= Len(s)
    BY <1>0, <1>1, <1>2, SMTT(60)
<1>3. CASE k > Len(s)
    <2>1. k - Len(s) \in DOMAIN r /\ (s \o r)[k] = r[k - Len(s)]
        BY <1>0, <1>1, <1>3, SMTT(60)
    <2> QED
        BY <2>1
<1> QED
    BY <1>0, <1>1, <1>2, <1>3, SMTT(60)

\* An appended sequence has the elements of the old one, and the new one.
LEMMA AppendElement ==
    ASSUME NEW S, NEW s \in Seq(S), NEW e \in S
    PROVE  \A k \in DOMAIN Append(s, e) :
              (\E i \in DOMAIN s : Append(s, e)[k] = s[i]) \/ Append(s, e)[k] = e
<1> TAKE k \in DOMAIN Append(s, e)
<1>1. Len(s) \in Nat /\ DOMAIN s = 1 .. Len(s)
    BY LenProperties
<1>2. /\ DOMAIN Append(s, e) = 1 .. Len(s) + 1
      /\ \A i \in 1 .. Len(s) : Append(s, e)[i] = s[i]
      /\ Append(s, e)[Len(s) + 1] = e
    BY AppendProperties, LenProperties, SMTT(60)
<1> QED
    BY <1>1, <1>2, SMTT(60)

\* The elements of Tail(s) are those of s, one place further on.
LEMMA TailElement ==
    ASSUME NEW S, NEW s \in Seq(S), s # <<>>, NEW k \in DOMAIN Tail(s)
    PROVE  /\ k + 1 \in DOMAIN s /\ Tail(s)[k] = s[k + 1] /\ k \in Nat \ {0}
           /\ 1 \in DOMAIN s /\ Head(s) = s[1]
<1>1. Len(s) \in Nat /\ DOMAIN s = 1 .. Len(s)
    BY LenProperties
<1>2. /\ Head(s) = s[1] /\ Tail(s) \in Seq(S) /\ Len(Tail(s)) = Len(s) - 1
      /\ \A i \in 1 .. Len(Tail(s)) : Tail(s)[i] = s[i + 1]
    BY HeadTailProperties, SMTT(60)
<1>3. DOMAIN Tail(s) = 1 .. Len(s) - 1
    BY <1>2, LenProperties
<1> QED
    BY <1>1, <1>2, <1>3, SMTT(60)

\* A concatenation is before, or after, what both parts are before, or after.
LEMMA BeforeConcat ==
    ASSUME NEW S, NEW p, NEW s \in Seq(S), NEW r \in Seq(S), NEW x
    PROVE  /\ Before(p, s, x) /\ Before(p, r, x) => Before(p, s \o r, x)
           /\ Before(p, x, s) /\ Before(p, x, r) => Before(p, x, s \o r)
<1>1. \A k \in DOMAIN (s \o r) : \/ \E i \in DOMAIN s : (s \o r)[k] = s[i]
                                 \/ \E i \in DOMAIN r : (s \o r)[k] = r[i]
    BY ConcatElement, SMTT(60)
<1> QED
    BY <1>1 DEF Before

\* Append(s, e) is before, or after, what both s and e are before, or after.
LEMMA BeforeAppend ==
    ASSUME NEW S, NEW p, NEW s \in Seq(S), NEW e \in S, NEW x
    PROVE  /\ Before(p, s, x) /\ (\A j \in DOMAIN x : Precedes(p, e, x[j])) => Before(p, Append(s, e), x)
           /\ Before(p, x, s) /\ (\A j \in DOMAIN x : Precedes(p, x[j], e)) => Before(p, x, Append(s, e))
<1>1. \A k \in DOMAIN Append(s, e) :
            (\E i \in DOMAIN s : Append(s, e)[k] = s[i]) \/ Append(s, e)[k] = e
    BY AppendElement, SMTT(60)
<1> QED
    BY <1>1 DEF Before

\* A set of callbacks stays in order when one is appended that no other follows.
LEMMA OrderedAppend ==
    ASSUME NEW S, NEW p, NEW s \in Seq(S), NEW e \in S,
           Ordered(p, s), \A i \in DOMAIN s : Precedes(p, s[i], e)
    PROVE  Ordered(p, Append(s, e))
<1>1. Len(s) \in Nat /\ DOMAIN s = 1 .. Len(s)
    BY LenProperties
<1>2. /\ DOMAIN Append(s, e) = 1 .. Len(s) + 1
      /\ \A i \in 1 .. Len(s) : Append(s, e)[i] = s[i]
      /\ Append(s, e)[Len(s) + 1] = e
    BY AppendProperties, LenProperties, SMTT(60)
<1> SUFFICES ASSUME NEW i \in 1 .. Len(s) + 1, NEW j \in 1 .. Len(s) + 1, i < j
             PROVE  Precedes(p, Append(s, e)[i], Append(s, e)[j])
    BY <1>2 DEF Ordered
<1>3. i \in DOMAIN s /\ Append(s, e)[i] = s[i]
    BY <1>1, <1>2, SMTT(60)
<1>4. CASE j = Len(s) + 1
    BY <1>2, <1>3, <1>4
<1>5. CASE j # Len(s) + 1
    <2>1. j \in DOMAIN s /\ Append(s, e)[j] = s[j]
        BY <1>1, <1>2, <1>5, SMTT(60)
    <2> QED
        BY <1>3, <2>1 DEF Ordered
<1> QED
    BY <1>4, <1>5

\* Calling the first callback of a sequence.
LEMMA OrderedTail ==
    ASSUME NEW S, NEW p, NEW s \in Seq(S), s # <<>>, Ordered(p, s)
    PROVE  /\ Ordered(p, Tail(s))
           /\ \A k \in DOMAIN Tail(s) : Precedes(p, Head(s), Tail(s)[k])
<1>1. \A k \in DOMAIN Tail(s) : k + 1 \in DOMAIN s /\ Tail(s)[k] = s[k + 1] /\ k \in Nat \ {0}
                                /\ 1 \in DOMAIN s /\ Head(s) = s[1]
    BY TailElement
<1>2. \A i, j \in DOMAIN s : i < j => Precedes(p, s[i], s[j])
    BY DEF Ordered
<1>3. ASSUME NEW k \in DOMAIN Tail(s)
      PROVE  Precedes(p, Head(s), Tail(s)[k])
    <2>1. 1 < k + 1
        BY <1>1, SMTT(60)
    <2> QED
        BY <1>1, <1>2, <2>1
<1>4. ASSUME NEW i \in DOMAIN Tail(s), NEW j \in DOMAIN Tail(s), i < j
      PROVE  Precedes(p, Tail(s)[i], Tail(s)[j])
    <2>1. i + 1 < j + 1
        BY <1>1, <1>4, SMTT(60)
    <2> QED
        BY <1>1, <1>2, <2>1
<1> QED
    BY <1>3, <1>4 DEF Ordered

\* Calling one callback leaves a sequence before the others.
LEMMA BeforeTail ==
    ASSUME NEW S, NEW p, NEW s \in Seq(S), s # <<>>, NEW x
    PROVE  /\ Before(p, s, x) => Before(p, Tail(s), x) /\ \A j \in DOMAIN x : Precedes(p, Head(s), x[j])
           /\ Before(p, x, s) => Before(p, x, Tail(s)) /\ \A i \in DOMAIN x : Precedes(p, x[i], Head(s))
<1>1. \A k \in DOMAIN Tail(s) : k + 1 \in DOMAIN s /\ Tail(s)[k] = s[k + 1]
    BY TailElement
<1>2. 1 \in DOMAIN s /\ Head(s) = s[1]
    BY HeadTailProperties, LenProperties, EmptySeq, SMTT(60)
<1> QED
    BY <1>1, <1>2 DEF Before

\* The empty sequence is before and after all others.
LEMMA EmptyOrdered ==
    ASSUME NEW p, NEW x
    PROVE  Ordered(p, <<>>) /\ Before(p, <<>>, x) /\ Before(p, x, <<>>)
    BY SMTT(60) DEF Ordered, Before

---------------------------------------------------------------------------
(* The type invariant.                                                     *)

\* The operations of lib/seq.c: only seq_change() changes the value.
LEMMA SeqOperations ==
    ASSUME NEW q \in [value : Nat, waiters : SUBSET Thread], NEW v, NEW t \in Thread
    PROVE  /\ seq_change(q) \in [value : Nat, waiters : SUBSET Thread]
           /\ seq_wait(q, v, t) \in [value : Nat, waiters : SUBSET Thread]
           /\ seq_woke(q, t) \in [value : Nat, waiters : SUBSET Thread]
           /\ seq_change(q).value = q.value + 1
           /\ seq_wait(q, v, t).value = q.value
           /\ seq_woke(q, t).value = q.value
    BY SMTT(60) DEF seq_change, seq_wait, seq_woke

\* What quiescing does to owes.
LEMMA QuiescedOwes ==
    ASSUME NEW t, Quiesced(t), owes \in [Callback -> SUBSET active]
    PROVE  /\ owes' \in [Callback -> SUBSET (active \ {t})]
           /\ \A c \in Callback : owes'[c] = owes[c] \ {t}
    BY DEF Quiesced

\* Every step keeps the types.
LEMMA TypeStep ==
    ASSUME RcuInv, RcuNext
    PROVE  RcuTypeOK'
<1> USE DEF RcuInv, Goto
<1>0. Urcu \in Thread /\ Worker \subseteq Thread
    BY DEF Thread
<1>1. ASSUME NEW t \in Thread, Register(t)
      PROVE  RcuTypeOK'
    <2>1. then[t] \in {"loop", "call", "in"}
        BY <1>1 DEF Register, PlaceOK
    <2> QED
        BY <1>1, <2>1 DEF Register, RcuTypeOK, n_cbs
<1>2. ASSUME NEW t \in Thread, Flush(t)
      PROVE  RcuTypeOK'
    BY <1>2, SMTT(60) DEF Flush, After, RcuTypeOK, Leaving, grace, n_cbs
<1>3. ASSUME NEW t \in Thread, FlushChange(t)
      PROVE  RcuTypeOK'
    BY <1>3, SeqOperations DEF FlushChange, After, RcuTypeOK, Leaving, grace, n_cbs
<1>4. ASSUME NEW t \in Thread, Remove(t)
      PROVE  RcuTypeOK'
    BY <1>4 DEF Remove, PlaceOK, RcuTypeOK, Leaving, grace, n_cbs
<1>5. ASSUME NEW t \in Thread, GlobalChange(t)
      PROVE  RcuTypeOK'
    <2>1. (IF then[t] = "quiesce" THEN "in" ELSE then[t]) \in {"in", "out", "sleep", "current"}
        BY <1>5 DEF GlobalChange, PlaceOK, Leaving
    <2> QED
        BY <1>5, <2>1, SeqOperations DEF GlobalChange, RcuTypeOK, Waiting, grace, n_cbs
<1>6. ASSUME NEW t \in Worker, WorkerEnd(t)
      PROVE  RcuTypeOK'
    BY <1>0, <1>6 DEF WorkerEnd, Enter, RcuTypeOK, rcu, grace, n_cbs
<1>7. ASSUME NEW t \in Worker, WorkerStart(t)
      PROVE  RcuTypeOK'
    BY <1>0, <1>7, QuiescedOwes DEF WorkerStart, Leave, RcuTypeOK, Leaving, rcu, n_cbs
<1>8. ASSUME NEW t \in Worker, WorkerQuiesce(t)
      PROVE  RcuTypeOK'
    BY <1>0, <1>8, QuiescedOwes DEF WorkerQuiesce, RcuTypeOK, Leaving, rcu, n_cbs
<1>9. ASSUME NEW t \in Worker, WorkerTryQuiesce(t)
      PROVE  RcuTypeOK'
    <2>1. owes' \in [Callback -> SUBSET active']
        BY <1>0, <1>9, QuiescedOwes DEF WorkerTryQuiesce, RcuTypeOK
    <2>2. /\ global_seqno' \in [value : Nat, waiters : SUBSET Thread]
          /\ flushed_cbsets_seq' \in [value : Nat, waiters : SUBSET Thread]
        BY <1>0, <1>9, SeqOperations DEF WorkerTryQuiesce, RcuTypeOK
    <2>3. flushed_cbsets' \in Seq(Callback) /\ cbset' \in [Thread -> Seq(Callback)]
        BY <1>0, <1>9, SMTT(60) DEF WorkerTryQuiesce, RcuTypeOK
    <2> QED
        BY <1>0, <1>9, <2>1, <2>2, <2>3 DEF WorkerTryQuiesce, RcuTypeOK, n_cbs
<1>10. ASSUME NEW t \in Worker, WorkerPostpone(t)
      PROVE  RcuTypeOK'
    <2>1. n_cbs \in Nat /\ n_cbs + 1 \in Callback
        BY <1>10, BoundAssumption, SMTT(60) DEF WorkerPostpone, RcuTypeOK, n_cbs, Callback
    <2>2. poster' \in Seq(Worker) /\ Len(poster') = n_cbs + 1
        BY <1>10, AppendProperties DEF WorkerPostpone, RcuTypeOK, n_cbs
    <2>3. cbset' \in [Thread -> Seq(Callback)]
        BY <1>0, <1>10, <2>1, SMTT(60) DEF WorkerPostpone, RcuTypeOK
    <2>4. owes' \in [Callback -> SUBSET active']
        BY <1>10, <2>1 DEF WorkerPostpone, RcuTypeOK
    <2>5. Len(poster') <= MaxCallback
        BY <1>10, <2>1, <2>2, BoundAssumption, SMTT(60) DEF WorkerPostpone
    <2> QED
        BY <1>10, <2>2, <2>3, <2>4, <2>5 DEF WorkerPostpone, RcuTypeOK, rcu, n_cbs
<1>11. CASE UrcuRead
    BY <1>0, <1>11 DEF UrcuRead, UrcuAt, Locals, RcuTypeOK, rcu, grace, n_cbs
<1>12. CASE UrcuPop
    <2>1. urcu' \in [flushed : Nat, cbs : Seq(Callback), target : Nat, cur : Nat]
        BY <1>12 DEF UrcuPop, RcuTypeOK
    <2>2. flushed_cbsets' \in Seq(Callback)
        BY <1>12, SMTT(60) DEF UrcuPop
    <2> QED
        BY <1>0, <1>12, <2>1, <2>2 DEF UrcuPop, Locals, RcuTypeOK, grace, n_cbs
<1>13. CASE UrcuIdle
    BY <1>0, <1>13, QuiescedOwes, SeqOperations DEF UrcuIdle, UrcuAt, Leave, RcuTypeOK, Leaving, grace, n_cbs
<1>14. CASE UrcuSleep
    BY <1>0, <1>14, SeqOperations DEF UrcuSleep, UrcuAt, Enter, RcuTypeOK, grace, n_cbs
<1>15. CASE UrcuTarget
    BY <1>0, <1>15, QuiescedOwes DEF UrcuTarget, UrcuAt, Leave, RcuTypeOK, Leaving, Waiting, rcu, grace, n_cbs
<1>16. CASE UrcuCurrent
    BY <1>0, <1>16 DEF UrcuCurrent, UrcuAt, Locals, RcuTypeOK, Waiting, rcu, grace, n_cbs
<1>17. CASE UrcuScan
    BY <1>0, <1>17 DEF UrcuScan, UrcuAt, Locals, RcuTypeOK, Waiting, rcu, grace, n_cbs
<1>18. CASE UrcuWait
    BY <1>0, <1>18, SeqOperations DEF UrcuWait, UrcuAt, Locals, RcuTypeOK, Waiting, grace, n_cbs
<1>19. CASE UrcuBlock
    BY <1>0, <1>19, SeqOperations DEF UrcuBlock, UrcuAt, Locals, RcuTypeOK, Waiting, grace, n_cbs
<1>20. CASE UrcuEnd
    BY <1>0, <1>20 DEF UrcuEnd, UrcuAt, Enter, RcuTypeOK, rcu, grace, n_cbs
<1>21. CASE UrcuCall
    <2>1. CASE urcu.cbs = <<>>
        BY <1>0, <1>21, <2>1 DEF UrcuCall, RcuTypeOK, rcu, grace, n_cbs
    <2>2. CASE urcu.cbs # <<>>
        <3>1. Head(urcu.cbs) \in Callback /\ Tail(urcu.cbs) \in Seq(Callback)
            BY <2>2, HeadTailProperties DEF RcuTypeOK
        <3>2. called' \in Seq(Callback)
            <4>1. called' = Append(called, Head(urcu.cbs))
                BY <1>21, <2>2 DEF UrcuCall
            <4> QED
                BY <3>1, <4>1, AppendProperties DEF RcuTypeOK
        <3>3. urcu' \in [flushed : Nat, cbs : Seq(Callback), target : Nat, cur : Nat]
            BY <1>21, <2>2, <3>1 DEF UrcuCall, RcuTypeOK
        <3> QED
            BY <1>21, <2>2, <3>2, <3>3 DEF UrcuCall, RcuTypeOK, rcu, grace, n_cbs
    <2> QED
        BY <2>1, <2>2
<1> QED
    BY <1>1, <1>2, <1>3, <1>4, <1>5, <1>6, <1>7, <1>8, <1>9, <1>10, <1>11, <1>12, <1>13, <1>14, <1>15,
       <1>16, <1>17, <1>18, <1>19, <1>20, <1>21
       DEF RcuNext, RcuStep, UrcuStep, Inner, WorkerStep

---------------------------------------------------------------------------
(* Where the threads are.                                                  *)

\* Every step keeps PlaceOK.
LEMMA PlaceStep ==
    ASSUME RcuInv, RcuNext
    PROVE  \A u \in Thread : PlaceOK(u)'
<1> USE WorkerAssumption DEF RcuInv, PlaceOK, Goto, Leaving, Waiting
<1>0. Urcu \in Thread /\ Worker \subseteq Thread
    BY DEF Thread
<1> TAKE u \in Thread
<1>1. ASSUME NEW t \in Thread, Register(t)
      PROVE  PlaceOK(u)'
    BY <1>1, SMTT(60) DEF Register, RcuTypeOK
<1>2. ASSUME NEW t \in Thread, Flush(t)
      PROVE  PlaceOK(u)'
    BY <1>2, SMTT(60) DEF Flush, After, RcuTypeOK, grace
<1>3. ASSUME NEW t \in Thread, FlushChange(t)
      PROVE  PlaceOK(u)'
    BY <1>3, SMTT(60) DEF FlushChange, After, RcuTypeOK, grace
<1>4. ASSUME NEW t \in Thread, Remove(t)
      PROVE  PlaceOK(u)'
    BY <1>4, SMTT(60) DEF Remove, RcuTypeOK, grace
<1>5. ASSUME NEW t \in Thread, GlobalChange(t)
      PROVE  PlaceOK(u)'
    BY <1>5, SMTT(60) DEF GlobalChange, RcuTypeOK, grace
<1>6. ASSUME NEW t \in Worker, WorkerEnd(t)
      PROVE  PlaceOK(u)'
    BY <1>0, <1>6, SMTT(60) DEF WorkerEnd, Enter, RcuTypeOK, grace
<1>7. ASSUME NEW t \in Worker, WorkerStart(t)
      PROVE  PlaceOK(u)'
    BY <1>0, <1>7, SMTT(60) DEF WorkerStart, Leave, RcuTypeOK
<1>8. ASSUME NEW t \in Worker, WorkerQuiesce(t)
      PROVE  PlaceOK(u)'
    BY <1>0, <1>8, SMTT(60) DEF WorkerQuiesce, RcuTypeOK
<1>9. ASSUME NEW t \in Worker, WorkerTryQuiesce(t) \/ WorkerPostpone(t)
      PROVE  PlaceOK(u)'
    BY <1>9 DEF WorkerTryQuiesce, WorkerPostpone
<1>11. CASE UrcuRead \/ UrcuPop
    BY <1>0, <1>11, SMTT(60) DEF UrcuRead, UrcuPop, UrcuAt, Locals, RcuTypeOK, grace
<1>13. CASE UrcuIdle
    BY <1>0, <1>13, SMTT(60) DEF UrcuIdle, UrcuAt, Leave, RcuTypeOK, grace
<1>14. CASE UrcuSleep
    BY <1>0, <1>14, SMTT(60) DEF UrcuSleep, UrcuAt, Enter, RcuTypeOK, grace
<1>15. CASE UrcuTarget
    BY <1>0, <1>15, SMTT(60) DEF UrcuTarget, UrcuAt, Leave, RcuTypeOK, grace
<1>16. CASE UrcuCurrent \/ UrcuScan \/ UrcuWait \/ UrcuBlock
    BY <1>0, <1>16, SMTT(60) DEF UrcuCurrent, UrcuScan, UrcuWait, UrcuBlock, UrcuAt, Locals, RcuTypeOK, grace
<1>20. CASE UrcuEnd
    BY <1>0, <1>20, SMTT(60) DEF UrcuEnd, UrcuAt, Enter, RcuTypeOK, grace
<1>21. CASE UrcuCall
    BY <1>0, <1>21, SMTT(60) DEF UrcuCall, UrcuAt, RcuTypeOK, grace
<1> QED
    BY <1>1, <1>2, <1>3, <1>4, <1>5, <1>6, <1>7, <1>8, <1>9, <1>11, <1>13, <1>14, <1>15,
       <1>16, <1>20, <1>21
       DEF RcuNext, RcuStep, UrcuStep, Inner, WorkerStep

---------------------------------------------------------------------------
(* The order of the callbacks.                                             *)

\* What the order says of one sequence of callbacks that were all postponed.
Posted(s) == \A i \in DOMAIN s : s[i] <= n_cbs

\* ovsrcu_flush_cbset() keeps the order.
LEMMA FlushOrder ==
    ASSUME RcuTypeOK, QueueOK, NEW t \in Thread,
           flushed_cbsets' = flushed_cbsets \o cbset[t],
           cbset' = [cbset EXCEPT ![t] = <<>>],
           urcu' = urcu, called' = called, poster' = poster
    PROVE  QueueOK'
<1>1. cbset[t] \in Seq(Callback) /\ flushed_cbsets \in Seq(Callback)
    BY DEF RcuTypeOK
<1>2. Ordered(poster, flushed_cbsets')
    BY <1>1, OrderedConcat DEF QueueOK
<1>3. Before(poster, called, flushed_cbsets') /\ Before(poster, urcu.cbs, flushed_cbsets')
    BY <1>1, BeforeConcat DEF QueueOK
<1>4. \A i \in DOMAIN flushed_cbsets' : flushed_cbsets'[i] <= n_cbs
    BY <1>1, ConcatElement, SMTT(60) DEF QueueOK
<1>5. ASSUME NEW u \in Thread
      PROVE  /\ Ordered(poster, cbset'[u])
             /\ Before(poster, called, cbset'[u]) /\ Before(poster, urcu.cbs, cbset'[u])
             /\ Before(poster, flushed_cbsets', cbset'[u])
             /\ \A i \in DOMAIN cbset'[u] : cbset'[u][i] <= n_cbs /\ poster[cbset'[u][i]] = u
    <2>1. CASE u = t
        <3>1. cbset'[u] = <<>>
            BY <2>1 DEF RcuTypeOK
        <3> QED
            BY <3>1, EmptyOrdered, SMTT(60)
    <2>2. CASE u # t
        <3>1. cbset'[u] = cbset[u]
            BY <2>2 DEF RcuTypeOK
        <3>2. Before(poster, cbset[t], cbset[u])
            BY <2>2, SMTT(60) DEF QueueOK, Before, Precedes
        <3>3. Before(poster, flushed_cbsets', cbset[u])
            BY <1>1, <3>2, BeforeConcat DEF QueueOK
        <3> QED
            BY <3>1, <3>3 DEF QueueOK
    <2> QED
        BY <2>1, <2>2
<1> QED
    BY <1>2, <1>3, <1>4, <1>5 DEF QueueOK, n_cbs

\* ovsrcu_postpone__() keeps the order: the new callback is the last of all.
LEMMA PostponeOrder ==
    ASSUME RcuTypeOK, QueueOK, NEW t \in Worker, WorkerPostpone(t)
    PROVE  QueueOK'
<1> DEFINE e == n_cbs + 1
<1>1. n_cbs \in Nat /\ e \in Callback /\ Callback \subseteq Nat \ {0} /\ t \in Thread
    BY BoundAssumption, SMTT(60) DEF WorkerPostpone, RcuTypeOK, n_cbs, Callback, Thread
<1>2. /\ poster' \in Seq(Worker) /\ Len(poster') = e /\ poster'[e] = t
      /\ \A c \in Callback : c <= n_cbs => poster'[c] = poster[c]
    BY <1>1, AppendProperties, SMTT(60) DEF WorkerPostpone, RcuTypeOK, n_cbs
<1>3. /\ called' = called /\ urcu' = urcu /\ flushed_cbsets' = flushed_cbsets
      /\ cbset' = [cbset EXCEPT ![t] = Append(@, e)]
    BY DEF WorkerPostpone, rcu
<1>4. ASSUME NEW s \in Seq(Callback), NEW r \in Seq(Callback), Posted(s), Posted(r)
      PROVE  /\ Ordered(poster, s) => Ordered(poster', s)
             /\ Before(poster, s, r) => Before(poster', s, r)
             /\ \A i \in DOMAIN s : Precedes(poster', s[i], e)
    <2>1. /\ \A i \in DOMAIN s : s[i] \in Callback /\ s[i] <= n_cbs /\ poster'[s[i]] = poster[s[i]]
          /\ \A i \in DOMAIN r : r[i] \in Callback /\ r[i] <= n_cbs /\ poster'[r[i]] = poster[r[i]]
        BY <1>2, <1>4, ElementOfSeq, LenProperties DEF Posted
    <2>2. Ordered(poster, s) => Ordered(poster', s)
        BY <2>1 DEF Ordered, Precedes
    <2>3. Before(poster, s, r) => Before(poster', s, r)
        BY <2>1 DEF Before, Precedes
    <2>4. \A c \in Callback : c <= n_cbs => c # e /\ c < e
        BY <1>1, SMTT(60)
    <2>5. \A i \in DOMAIN s : Precedes(poster', s[i], e)
        BY <2>1, <2>4 DEF Precedes
    <2> QED
        BY <2>2, <2>3, <2>5
<1>5. /\ called \in Seq(Callback) /\ urcu.cbs \in Seq(Callback) /\ flushed_cbsets \in Seq(Callback)
      /\ \A u \in Thread : cbset[u] \in Seq(Callback) /\ Posted(cbset[u])
      /\ Posted(called) /\ Posted(urcu.cbs) /\ Posted(flushed_cbsets)
    BY DEF RcuTypeOK, QueueOK, Posted
<1>6. /\ Ordered(poster', called) /\ Ordered(poster', urcu.cbs) /\ Ordered(poster', flushed_cbsets)
      /\ Before(poster', called, urcu.cbs) /\ Before(poster', called, flushed_cbsets)
      /\ Before(poster', urcu.cbs, flushed_cbsets)
    BY <1>4, <1>5 DEF QueueOK
<1>7. \A u \in Thread : /\ Ordered(poster', cbset[u]) /\ Before(poster', called, cbset[u])
                         /\ Before(poster', urcu.cbs, cbset[u]) /\ Before(poster', flushed_cbsets, cbset[u])
                         /\ \A i \in DOMAIN cbset[u] : /\ Precedes(poster', cbset[u][i], e)
                                                       /\ cbset[u][i] \in Callback
                                                       /\ cbset[u][i] <= n_cbs
                                                       /\ poster'[cbset[u][i]] = u
    <2> TAKE u \in Thread
    <2>1. \A i \in DOMAIN cbset[u] : cbset[u][i] \in Callback /\ cbset[u][i] <= n_cbs /\ poster[cbset[u][i]] = u
        BY <1>5, ElementOfSeq, LenProperties, SMTT(60) DEF QueueOK
    <2>2. \A i \in DOMAIN cbset[u] : poster'[cbset[u][i]] = u
        BY <1>2, <2>1
    <2> QED
        BY <1>4, <1>5, <2>1, <2>2 DEF QueueOK
<1>8. ASSUME NEW u \in Thread
      PROVE  /\ Ordered(poster', cbset'[u])
             /\ Before(poster', called, cbset'[u]) /\ Before(poster', urcu.cbs, cbset'[u])
             /\ Before(poster', flushed_cbsets, cbset'[u])
             /\ \A i \in DOMAIN cbset'[u] : cbset'[u][i] <= Len(poster') /\ poster'[cbset'[u][i]] = u
    <2>1. CASE u # t
        <3>1. cbset'[u] = cbset[u]
            BY <1>3, <2>1 DEF RcuTypeOK
        <3>2. \A c \in Callback : c <= n_cbs => c <= e
            BY <1>1, SMTT(60)
        <3> QED
            BY <1>2, <1>7, <3>1, <3>2
    <2>2. CASE u = t
        <3>1. cbset'[u] = Append(cbset[t], e)
            BY <1>1, <1>3, <2>2 DEF RcuTypeOK
        <3>2. Ordered(poster', cbset'[u])
            BY <1>1, <1>5, <1>7, <3>1, OrderedAppend, SMTT(60)
        <3>3. /\ \A i \in DOMAIN called : Precedes(poster', called[i], e)
              /\ \A i \in DOMAIN urcu.cbs : Precedes(poster', urcu.cbs[i], e)
              /\ \A i \in DOMAIN flushed_cbsets : Precedes(poster', flushed_cbsets[i], e)
            BY <1>4, <1>5
        <3>4. /\ Before(poster', called, cbset'[u]) /\ Before(poster', urcu.cbs, cbset'[u])
              /\ Before(poster', flushed_cbsets, cbset'[u])
            BY <1>1, <1>5, <1>7, <3>1, <3>3, BeforeAppend, SMTT(60)
        <3>5. \A i \in DOMAIN cbset'[u] :
                 (\E k \in DOMAIN cbset[t] : cbset'[u][i] = cbset[t][k]) \/ cbset'[u][i] = e
            BY <1>1, <1>5, <3>1, AppendElement, SMTT(60)
        <3>6. \A c \in Callback : c <= n_cbs => c <= e
            BY <1>1, SMTT(60)
        <3>7. e <= e
            BY <1>1, SMTT(60)
        <3>8. \A i \in DOMAIN cbset'[u] : cbset'[u][i] <= e /\ poster'[cbset'[u][i]] = t
            <4> TAKE i \in DOMAIN cbset'[u]
            <4>1. CASE cbset'[u][i] = e
                BY <1>2, <3>7, <4>1
            <4>2. ASSUME NEW k \in DOMAIN cbset[t], cbset'[u][i] = cbset[t][k]
                  PROVE  cbset'[u][i] <= e /\ poster'[cbset'[u][i]] = t
                <5>1. cbset[t][k] \in Callback /\ cbset[t][k] <= n_cbs /\ poster'[cbset[t][k]] = t
                    BY <1>1, <1>7
                <5> QED
                    BY <3>6, <4>2, <5>1
            <4> QED
                BY <3>5, <4>1, <4>2
        <3> QED
            BY <1>2, <2>2, <3>2, <3>4, <3>8
    <2> QED
        BY <2>1, <2>2
<1>9. \A s \in {called, urcu.cbs, flushed_cbsets} : \A i \in DOMAIN s : s[i] <= Len(poster')
    <2>1. \A c \in Callback : c <= n_cbs => c <= e
        BY <1>1, SMTT(60)
    <2> QED
        BY <1>2, <1>5, <2>1, ElementOfSeq, LenProperties DEF Posted
<1> QED
    BY <1>3, <1>6, <1>8, <1>9 DEF QueueOK, n_cbs

\* guarded_list_pop_all() and the calls keep the order.
LEMMA PopOrder ==
    ASSUME RcuTypeOK, QueueOK, UrcuPop
    PROVE  QueueOK'
<1>1. /\ urcu'.cbs = flushed_cbsets /\ flushed_cbsets' = <<>>
      /\ cbset' = cbset /\ called' = called /\ poster' = poster
    BY DEF UrcuPop, Locals, RcuTypeOK
<1>2. /\ Ordered(poster, called) /\ Ordered(poster, flushed_cbsets) /\ Ordered(poster, <<>>)
      /\ Before(poster, called, flushed_cbsets) /\ Before(poster, called, <<>>)
      /\ Before(poster, flushed_cbsets, <<>>)
    BY EmptyOrdered DEF QueueOK
<1>3. ASSUME NEW t \in Thread
      PROVE  /\ Ordered(poster, cbset[t]) /\ Before(poster, called, cbset[t])
             /\ Before(poster, flushed_cbsets, cbset[t]) /\ Before(poster, <<>>, cbset[t])
             /\ \A i \in DOMAIN cbset[t] : cbset[t][i] <= n_cbs /\ poster[cbset[t][i]] = t
    BY EmptyOrdered DEF QueueOK
<1>4. \A s \in {called, flushed_cbsets, <<>>} : \A i \in DOMAIN s : s[i] <= n_cbs
    BY SMTT(60) DEF QueueOK
<1> QED
    BY <1>1, <1>2, <1>3, <1>4 DEF QueueOK, n_cbs

\* ovsrcu_call_postponed() calls the first of the callbacks it took, which has not been
\* called before: those that wait behind it stay in order.
LEMMA CallOrderKept ==
    ASSUME RcuTypeOK, QueueOK, UrcuCall, urcu.cbs # <<>>
    PROVE  /\ QueueOK'
           /\ Head(urcu.cbs) \in Callback /\ Head(urcu.cbs) <= n_cbs
           /\ \E i \in DOMAIN urcu.cbs : Head(urcu.cbs) = urcu.cbs[i]
           /\ \A i \in DOMAIN called : called[i] # Head(urcu.cbs)
<1> DEFINE c == Head(urcu.cbs)
<1>1. /\ urcu'.cbs = Tail(urcu.cbs) /\ called' = Append(called, c)
      /\ cbset' = cbset /\ flushed_cbsets' = flushed_cbsets /\ poster' = poster
    BY DEF UrcuCall, RcuTypeOK, rcu
<1>2. /\ urcu.cbs \in Seq(Callback) /\ called \in Seq(Callback) /\ c \in Callback
      /\ 1 \in DOMAIN urcu.cbs /\ c = urcu.cbs[1] /\ c <= n_cbs
    BY HeadTailProperties, LenProperties, EmptySeq, SMTT(60) DEF RcuTypeOK, QueueOK
<1>3. Ordered(poster, Tail(urcu.cbs)) /\ \A k \in DOMAIN Tail(urcu.cbs) : Precedes(poster, c, Tail(urcu.cbs)[k])
    BY <1>2, OrderedTail DEF QueueOK
<1>4. Before(poster, called, Tail(urcu.cbs)) /\ \A i \in DOMAIN called : Precedes(poster, called[i], c)
    BY <1>2, BeforeTail DEF QueueOK
<1>5. ASSUME NEW x, Before(poster, urcu.cbs, x), Before(poster, called, x)
      PROVE  Before(poster, Tail(urcu.cbs), x) /\ Before(poster, Append(called, c), x)
    <2>1. Before(poster, Tail(urcu.cbs), x) /\ \A j \in DOMAIN x : Precedes(poster, c, x[j])
        BY <1>2, <1>5, BeforeTail
    <2> QED
        BY <1>2, <1>5, <2>1, BeforeAppend
<1>6. Before(poster, Append(called, c), Tail(urcu.cbs)) /\ Ordered(poster, Append(called, c))
    BY <1>2, <1>3, <1>4, BeforeAppend, OrderedAppend DEF QueueOK
<1>7. /\ \A i \in DOMAIN Append(called, c) : Append(called, c)[i] <= n_cbs
      /\ \A i \in DOMAIN Tail(urcu.cbs) : Tail(urcu.cbs)[i] <= n_cbs
    BY <1>2, AppendElement, TailElement, SMTT(60) DEF QueueOK
<1>8. QueueOK'
    BY <1>1, <1>3, <1>5, <1>6, <1>7, ZenonT(60) DEF QueueOK, n_cbs
<1> QED
    BY <1>2, <1>4, <1>8 DEF Precedes

\* Every step keeps the order.
LEMMA QueueStep ==
    ASSUME RcuInv, RcuNext
    PROVE  QueueOK'
<1>0. Worker \subseteq Thread
    BY DEF Thread
<1>1. ASSUME called' = called, urcu'.cbs = urcu.cbs, UNCHANGED <<flushed_cbsets, cbset, poster>>
      PROVE  QueueOK'
    BY <1>1 DEF RcuInv, QueueOK, n_cbs
<1>2. ASSUME NEW t \in Thread, Flush(t)
      PROVE  QueueOK'
    BY <1>2, FlushOrder DEF Flush, RcuInv
<1>3. ASSUME NEW t \in Worker, WorkerTryQuiesce(t)
      PROVE  QueueOK'
    BY <1>0, <1>3, FlushOrder DEF WorkerTryQuiesce, RcuInv
<1>4. ASSUME NEW t \in Worker, WorkerPostpone(t)
      PROVE  QueueOK'
    BY <1>4, PostponeOrder DEF RcuInv
<1>5. CASE UrcuPop
    BY <1>5, PopOrder DEF RcuInv
<1>6. CASE UrcuCall
    <2>1. CASE urcu.cbs = <<>>
        BY <1>1, <1>6, <2>1 DEF UrcuCall, rcu
    <2> QED
        BY <1>6, <2>1, CallOrderKept DEF RcuInv
<1>7. ASSUME NEW t \in Thread, Register(t) \/ FlushChange(t) \/ Remove(t) \/ GlobalChange(t)
      PROVE  QueueOK'
    BY <1>1, <1>7 DEF Register, FlushChange, Remove, GlobalChange
<1>8. ASSUME NEW t \in Worker, WorkerEnd(t) \/ WorkerStart(t) \/ WorkerQuiesce(t)
      PROVE  QueueOK'
    BY <1>1, <1>8 DEF WorkerEnd, WorkerStart, WorkerQuiesce, rcu
<1>9. CASE UrcuRead \/ UrcuTarget \/ UrcuCurrent
    <2>1. urcu'.cbs = urcu.cbs
        BY <1>9 DEF UrcuRead, UrcuTarget, UrcuCurrent, RcuInv, RcuTypeOK
    <2> QED
        BY <1>1, <1>9, <2>1 DEF UrcuRead, UrcuTarget, UrcuCurrent, Locals, rcu
<1>10. CASE UrcuIdle \/ UrcuSleep \/ UrcuScan \/ UrcuWait \/ UrcuBlock \/ UrcuEnd
    BY <1>1, <1>10 DEF UrcuIdle, UrcuSleep, UrcuScan, UrcuWait, UrcuBlock, UrcuEnd, Locals, rcu
<1> QED
    BY <1>2, <1>3, <1>4, <1>5, <1>6, <1>7, <1>8, <1>9, <1>10
       DEF RcuNext, RcuStep, UrcuStep, Inner, WorkerStep

---------------------------------------------------------------------------
(* Grace periods.                                                          *)

\* Every step keeps GraceOK: a callback that waits, waits for threads which the
\* scan of ovsrcu_synchronize() sees.
LEMMA GraceStep ==
    ASSUME RcuInv, RcuNext
    PROVE  GraceOK'
<1> USE WorkerAssumption DEF RcuInv, Goto, Leaving, Waiting, UrcuAt
<1>0. /\ Urcu \in Thread /\ Worker \subseteq Thread
      /\ global_seqno.value \in Nat /\ \A t \in Thread : seqno[t] \in Nat
      /\ urcu.target \in Nat
      /\ \A i \in DOMAIN urcu.cbs : urcu.cbs[i] \in Callback /\ owes[urcu.cbs[i]] \subseteq Thread
    <2>1. \A i \in DOMAIN urcu.cbs : urcu.cbs[i] \in Callback
        BY ElementOfSeq, LenProperties, SMTT(60) DEF RcuTypeOK
    <2> QED
        BY <2>1 DEF Thread, RcuTypeOK
<1>1. ASSUME NEW t \in Thread, Register(t)
      PROVE  GraceOK'
    BY <1>0, <1>1, SMTT(60) DEF Register, RcuTypeOK, GraceOK, PlaceOK
<1>2. ASSUME NEW t \in Thread, Flush(t) \/ FlushChange(t) \/ Remove(t)
      PROVE  GraceOK'
    <2>1. /\ place'[Urcu] = place[Urcu] \/ (place[Urcu] \in Leaving /\ place'[Urcu] \in Leaving)
          /\ UNCHANGED <<then, seqno, global_seqno, urcu, owes>>
        BY <1>0, <1>2 DEF Flush, FlushChange, Remove, After, RcuTypeOK, grace
    <2> QED
        BY <2>1 DEF GraceOK
<1>5. ASSUME NEW t \in Thread, GlobalChange(t)
      PROVE  GraceOK'
    <2>1. global_seqno'.value = global_seqno.value + 1
        BY <1>5, SeqOperations DEF GlobalChange, RcuTypeOK
    <2>2. \A u \in Thread : seqno'[u] <= global_seqno'.value
        BY <1>0, <1>5, <2>1, SMTT(60) DEF GlobalChange, GraceOK
    <2> QED
        BY <1>0, <1>5, <2>2, SMTT(60) DEF GlobalChange, RcuTypeOK, GraceOK, PlaceOK, grace
<1>6. ASSUME NEW t \in Worker, WorkerEnd(t)
      PROVE  GraceOK'
    <2>1. t \in Thread /\ t # Urcu /\ \A c \in Callback : t \notin owes[c]
        BY <1>0, <1>6 DEF WorkerEnd, RcuTypeOK, PlaceOK
    <2>2. \A u \in Thread : seqno'[u] <= global_seqno'.value
        BY <1>0, <1>6, SMTT(60) DEF WorkerEnd, Enter, RcuTypeOK, GraceOK, rcu
    <2> QED
        BY <1>0, <1>6, <2>1, <2>2, SMTT(60) DEF WorkerEnd, Enter, RcuTypeOK, GraceOK, rcu, grace
<1>7. ASSUME NEW t \in Worker, WorkerStart(t)
      PROVE  GraceOK'
    <2>1. t \in Thread /\ t # Urcu /\ \A c \in Callback : owes'[c] = owes[c] \ {t}
        BY <1>0, <1>7, QuiescedOwes DEF WorkerStart, Leave, RcuTypeOK
    <2> QED
        BY <1>0, <1>7, <2>1, SMTT(60) DEF WorkerStart, Leave, RcuTypeOK, GraceOK, rcu
<1>8. ASSUME NEW t \in Worker, WorkerQuiesce(t) \/ WorkerTryQuiesce(t)
      PROVE  GraceOK'
    <2>1. t \in Thread /\ t # Urcu /\ \A c \in Callback : owes'[c] = owes[c] \ {t}
        BY <1>0, <1>8, QuiescedOwes DEF WorkerQuiesce, WorkerTryQuiesce, RcuTypeOK
    <2>2. global_seqno'.value \in Nat /\ global_seqno.value <= global_seqno'.value
        <3>1. CASE WorkerQuiesce(t)
            BY <1>0, <3>1, SMTT(60) DEF WorkerQuiesce, rcu
        <3>2. CASE WorkerTryQuiesce(t)
            <4>1. global_seqno'.value = global_seqno.value + 1
                BY <1>0, <3>2, SeqOperations DEF WorkerTryQuiesce, RcuTypeOK
            <4> QED
                BY <1>0, <4>1, SMTT(60)
        <3> QED
            BY <1>8, <3>1, <3>2
    <2>3. seqno' = [seqno EXCEPT ![t] = global_seqno.value]
        BY <1>8 DEF WorkerQuiesce, WorkerTryQuiesce
    <2>4. \A u \in Thread : seqno'[u] <= global_seqno'.value
        BY <1>0, <2>1, <2>2, <2>3, SMTT(60) DEF RcuTypeOK, GraceOK
    <2>5. place'[Urcu] = place[Urcu] /\ then'[Urcu] = then[Urcu] /\ urcu' = urcu
        BY <1>0, <1>8, <2>1 DEF WorkerQuiesce, WorkerTryQuiesce, RcuTypeOK
    <2> QED
        BY <1>0, <2>1, <2>3, <2>4, <2>5, SMTT(60) DEF RcuTypeOK, GraceOK
<1>9. ASSUME NEW t \in Worker, WorkerPostpone(t)
      PROVE  GraceOK'
    <2>1. \A i \in DOMAIN urcu.cbs : owes'[urcu.cbs[i]] = owes[urcu.cbs[i]]
        <3>1. n_cbs \in Nat /\ \A c \in Callback : c <= n_cbs => c # n_cbs + 1
            BY BoundAssumption, SMTT(60) DEF RcuTypeOK, n_cbs, Callback
        <3>2. \A i \in DOMAIN urcu.cbs : urcu.cbs[i] <= n_cbs
            BY DEF QueueOK
        <3> QED
            BY <1>0, <1>9, <3>1, <3>2, SMTT(60) DEF WorkerPostpone, RcuTypeOK
    <2> QED
        BY <1>9, <2>1 DEF WorkerPostpone, GraceOK, rcu
<1>11. CASE UrcuRead
    BY <1>0, <1>11 DEF UrcuRead, Locals, RcuTypeOK, GraceOK, rcu
<1>12. CASE UrcuPop
    BY <1>0, <1>12 DEF UrcuPop, Locals, RcuTypeOK, GraceOK
<1>13. CASE UrcuIdle
    BY <1>0, <1>13, ZenonT(60) DEF UrcuIdle, Leave, RcuTypeOK, GraceOK
<1>14. CASE UrcuSleep
    BY <1>0, <1>14, SMTT(60) DEF UrcuSleep, Enter, RcuTypeOK, GraceOK
<1>15. CASE UrcuTarget
    <2>1. urcu'.cbs = urcu.cbs /\ urcu'.target = global_seqno.value
        BY <1>15 DEF UrcuTarget, RcuTypeOK
    <2>2. \A c \in Callback : owes'[c] \subseteq owes[c]
        BY <1>15, QuiescedOwes DEF UrcuTarget, Leave, RcuTypeOK, grace
    <2>3. \A i \in DOMAIN urcu.cbs : \A t \in owes'[urcu.cbs[i]] : seqno[t] <= global_seqno.value
        BY <1>0, <2>2 DEF GraceOK
    <2>4. place'[Urcu] = "current" \/ (place'[Urcu] = "flush" /\ then'[Urcu] = "current")
        BY <1>0, <1>15 DEF UrcuTarget, Leave, RcuTypeOK
    <2> QED
        BY <1>0, <1>15, <2>1, <2>3, <2>4 DEF UrcuTarget, GraceOK, rcu
<1>16. CASE UrcuCurrent \/ UrcuWait \/ UrcuBlock
    <2>1. global_seqno'.value = global_seqno.value /\ urcu'.cbs = urcu.cbs /\ urcu'.target = urcu.target
        <3>1. CASE UrcuCurrent
            BY <3>1 DEF UrcuCurrent, RcuTypeOK, rcu
        <3>2. CASE UrcuWait
            <4>1. global_seqno' = seq_wait(global_seqno, urcu.cur, Urcu) /\ urcu' = urcu
                BY <3>2 DEF UrcuWait
            <4> QED
                BY <4>1 DEF RcuTypeOK, seq_wait
        <3>3. CASE UrcuBlock
            BY <1>0, <3>3, SeqOperations DEF UrcuBlock, RcuTypeOK
        <3> QED
            BY <1>16, <3>1, <3>2, <3>3
    <2> QED
        BY <1>0, <1>16, <2>1, SMTT(60) DEF UrcuCurrent, UrcuWait, UrcuBlock, Locals, RcuTypeOK, GraceOK, grace
<1>17. CASE UrcuScan
    <2>1. CASE \E t \in threads : seqno[t] <= urcu.target
        BY <1>0, <1>17, <2>1 DEF UrcuScan, Locals, RcuTypeOK, GraceOK, rcu, grace
    <2>2. CASE ~ \E t \in threads : seqno[t] <= urcu.target
        <3>1. \A i \in DOMAIN urcu.cbs : owes[urcu.cbs[i]] = {}
            BY <1>0, <1>17, <2>2 DEF UrcuScan, RcuTypeOK, GraceOK
        <3> QED
            BY <1>0, <1>17, <2>2, <3>1 DEF UrcuScan, Locals, RcuTypeOK, GraceOK, rcu, grace
    <2> QED
        BY <2>1, <2>2
<1>20. CASE UrcuEnd
    <2>1. \A u \in Thread : seqno'[u] <= global_seqno'.value
        BY <1>0, <1>20, SMTT(60) DEF UrcuEnd, Enter, RcuTypeOK, GraceOK, rcu
    <2> QED
        BY <1>0, <1>20, <2>1 DEF UrcuEnd, Enter, RcuTypeOK, GraceOK, rcu, grace
<1>21. CASE UrcuCall
    <2>1. CASE urcu.cbs = <<>>
        BY <1>0, <1>21, <2>1 DEF UrcuCall, RcuTypeOK, GraceOK, rcu, grace
    <2>2. CASE urcu.cbs # <<>>
        <3>1. urcu'.cbs = Tail(urcu.cbs) /\ urcu.cbs \in Seq(Callback)
            BY <1>21, <2>2 DEF UrcuCall, RcuTypeOK
        <3>2. \A k \in DOMAIN Tail(urcu.cbs) : owes[Tail(urcu.cbs)[k]] = {}
            <4>1. \A k \in DOMAIN Tail(urcu.cbs) : k + 1 \in DOMAIN urcu.cbs /\ Tail(urcu.cbs)[k] = urcu.cbs[k + 1]
                BY <2>2, <3>1, TailElement
            <4> QED
                BY <1>21, <4>1 DEF UrcuCall, GraceOK
        <3> QED
            BY <1>0, <1>21, <2>2, <3>1, <3>2 DEF UrcuCall, GraceOK, rcu, grace
    <2> QED
        BY <2>1, <2>2
<1> QED
    BY <1>1, <1>2, <1>5, <1>6, <1>7, <1>8, <1>9, <1>11, <1>12, <1>13, <1>14, <1>15,
       <1>16, <1>17, <1>20, <1>21
       DEF RcuNext, RcuStep, UrcuStep, Inner, WorkerStep

---------------------------------------------------------------------------
(* The theorems.                                                           *)

\* The inductive invariant holds in every reachable state: each thread is where
\* its registration says, the callbacks are in their order, and whoever a callback
\* waits for is in the list that ovsrcu_synchronize() scans, with an old number.
THEOREM RcuInvariant == RcuSpec => []RcuInv
<1>1. RcuInit => RcuInv
    <2> SUFFICES ASSUME RcuInit
                 PROVE  RcuInv
        OBVIOUS
    <2>1. RcuTypeOK
        BY BoundAssumption, SMTT(60) DEF RcuInit, RcuTypeOK, Leaving, Waiting, Thread, seq_create, n_cbs
    <2>2. \A t \in Thread : PlaceOK(t)
        BY DEF RcuInit, PlaceOK, Leaving, Waiting
    <2>3. QueueOK
        BY SMTT(60) DEF RcuInit, QueueOK, Ordered, Before
    <2>4. GraceOK
        BY SMTT(60) DEF RcuInit, GraceOK, UrcuAt, Leaving, Waiting, Thread, seq_create
    <2> QED
        BY <2>1, <2>2, <2>3, <2>4 DEF RcuInv
<1>2. RcuInv /\ [RcuNext]_rcuVars => RcuInv'
    <2> SUFFICES ASSUME RcuInv, [RcuNext]_rcuVars
                 PROVE  RcuInv'
        OBVIOUS
    <2>1. CASE RcuNext
        BY <2>1, TypeStep, PlaceStep, QueueStep, GraceStep DEF RcuInv
    <2>2. CASE UNCHANGED rcuVars
        BY <2>2 DEF rcuVars, rcuOnly, rcu, grace, RcuInv, RcuTypeOK, PlaceOK, QueueOK, GraceOK, UrcuAt, n_cbs
    <2> QED
        BY <2>1, <2>2
<1> QED
    BY <1>1, <1>2, PTL DEF RcuSpec

\* The status of the callbacks changes only when one is postponed or called.
LEMMA StatusKept ==
    ASSUME poster' = poster, called' = called
    PROVE  Status' = Status
    BY DEF Status, Called, n_cbs

\* Every step is one of Grace, or changes nothing there.
LEMMA StepImplements ==
    ASSUME RcuInv, RcuNext
    PROVE  [G!GraceNext]_(G!graceVars)
<1> USE DEF RcuInv
<1>0. Urcu \in Thread /\ Worker \subseteq Thread
    BY DEF Thread
<1>1. ASSUME UNCHANGED <<active, owes, poster, called>>
      PROVE  UNCHANGED G!graceVars
    BY <1>1, StatusKept DEF G!graceVars
<1>2. ASSUME NEW t \in Thread, Register(t)
      PROVE  G!GraceNext
    BY <1>2, StatusKept DEF Register, G!GraceNext, G!QuiesceEnd
<1>3. ASSUME NEW t \in Thread, active' = active \ {t}, Quiesced(t), UNCHANGED <<poster, called>>
      PROVE  G!GraceNext
    BY <1>3, StatusKept DEF Quiesced, G!GraceNext, G!QuiesceBegin
<1>4. ASSUME NEW t \in Worker, WorkerQuiesce(t) \/ WorkerTryQuiesce(t)
      PROVE  G!GraceNext
    BY <1>0, <1>4, StatusKept DEF WorkerQuiesce, WorkerTryQuiesce, Quiesced, G!GraceNext, G!Quiesce
<1>5. ASSUME NEW t \in Worker, WorkerPostpone(t)
      PROVE  G!GraceNext
    <2> DEFINE e == n_cbs + 1
    <2>1. n_cbs \in Nat /\ e \in Callback /\ Callback \subseteq Nat /\ t \in active
        BY <1>0, <1>5, BoundAssumption, SMTT(60) DEF WorkerPostpone, RcuTypeOK, PlaceOK, n_cbs, Callback
    <2>2. n_cbs' = e
        BY <1>5, AppendProperties DEF WorkerPostpone, RcuTypeOK, n_cbs
    <2>3. ~Called(e)
        <3>1. \A i \in DOMAIN called : called[i] <= n_cbs
            BY DEF QueueOK
        <3> QED
            BY <2>1, <3>1, SMTT(60) DEF Called
    <2>4. called' = called
        BY <1>5 DEF WorkerPostpone
    <2>5. \A c \in Callback : c <= e <=> (c <= n_cbs \/ c = e)
        BY <2>1, SMTT(60)
    <2>6. Status[e] = "idle"
        BY <2>1, SMTT(60) DEF Status
    <2>7. Status' = [Status EXCEPT ![e] = "postponed"]
        BY <2>1, <2>2, <2>3, <2>4, <2>5 DEF Status, Called
    <2>8. G!Postpone(t, e)
        BY <1>5, <2>1, <2>6, <2>7 DEF WorkerPostpone, G!Postpone
    <2> QED
        BY <1>0, <2>1, <2>8 DEF G!GraceNext
<1>6. CASE UrcuCall /\ urcu.cbs # <<>>
    <2> DEFINE e == Head(urcu.cbs)
    <2>1. /\ e \in Callback /\ e <= n_cbs /\ \E i \in DOMAIN urcu.cbs : e = urcu.cbs[i]
          /\ ~Called(e)
        BY <1>6, CallOrderKept DEF Called
    <2>2. owes[e] = {}
        BY <1>6, <2>1 DEF UrcuCall, GraceOK
    <2>3. \A c \in Callback : Called(c)' <=> Called(c) \/ c = e
        <3>1. called' = Append(called, e) /\ called \in Seq(Callback)
            BY <1>6 DEF UrcuCall, RcuTypeOK
        <3>2. /\ DOMAIN called = 1 .. Len(called) /\ Len(called) \in Nat
              /\ DOMAIN Append(called, e) = 1 .. Len(called) + 1
              /\ \A i \in 1 .. Len(called) : Append(called, e)[i] = called[i]
              /\ Append(called, e)[Len(called) + 1] = e
            BY <2>1, <3>1, AppendProperties, LenProperties, SMTT(60)
        <3>3. \E i \in DOMAIN called' : called'[i] = e
            BY <3>1, <3>2, SMTT(60)
        <3> QED
            BY <2>1, <3>1, <3>2, <3>3, AppendElement, SMTT(60) DEF Called
    <2>4. poster' = poster /\ UNCHANGED <<active, owes>>
        BY <1>6 DEF UrcuCall, grace
    <2>5. Status' = [Status EXCEPT ![e] = "idle"]
        BY <2>1, <2>3, <2>4 DEF Status, n_cbs
    <2>6. G!Call(e)
        BY <2>1, <2>2, <2>4, <2>5 DEF G!Call, Status
    <2> QED
        BY <2>1, <2>6 DEF G!GraceNext
<1>7. CASE UrcuCall /\ urcu.cbs = <<>>
    BY <1>1, <1>7 DEF UrcuCall, grace
<1>8. ASSUME NEW t \in Worker, WorkerStart(t)
      PROVE  G!GraceNext
    BY <1>0, <1>3, <1>8 DEF WorkerStart, Leave
<1>9. CASE UrcuIdle \/ UrcuTarget
    BY <1>0, <1>1, <1>3, <1>9 DEF UrcuIdle, UrcuTarget, Leave, grace
<1>10. ASSUME NEW t \in Thread, Flush(t) \/ FlushChange(t) \/ Remove(t) \/ GlobalChange(t)
       PROVE  UNCHANGED G!graceVars
    BY <1>1, <1>10 DEF Flush, FlushChange, Remove, GlobalChange, grace
<1>11. ASSUME NEW t \in Worker, WorkerEnd(t)
       PROVE  UNCHANGED G!graceVars
    BY <1>1, <1>11 DEF WorkerEnd, grace
<1>12. CASE UrcuRead \/ UrcuPop \/ UrcuSleep \/ UrcuCurrent \/ UrcuScan \/ UrcuWait \/ UrcuBlock \/ UrcuEnd
    BY <1>1, <1>12
       DEF UrcuRead, UrcuPop, UrcuSleep, UrcuCurrent, UrcuScan, UrcuWait, UrcuBlock, UrcuEnd, Locals, grace
<1> QED
    BY <1>2, <1>4, <1>5, <1>6, <1>7, <1>8, <1>9, <1>10, <1>11, <1>12
       DEF RcuNext, RcuStep, UrcuStep, Inner, WorkerStep

\* ovs-rcu.c implements grace periods: no postponed function is called before all
\* threads that were not quiescent when it was postponed have been so, although
\* threads register, renew and leave in several steps while the scan goes on.
THEOREM RcuImplementsGrace == RcuSpec => GraceRefinement
<1>1. RcuInit => G!GraceInit
    BY BoundAssumption, SMTT(60) DEF RcuInit, G!GraceInit, Status, Called, n_cbs, Callback
<1>2. RcuInv /\ [RcuNext]_rcuVars => [G!GraceNext]_(G!graceVars)
    <2>1. UNCHANGED rcuVars => UNCHANGED G!graceVars
        BY StatusKept DEF rcuVars, rcuOnly, grace, G!graceVars
    <2> QED
        BY <2>1, StepImplements
<1> QED
    BY <1>1, <1>2, RcuInvariant, PTL DEF RcuSpec, GraceRefinement, G!GraceSpec

\* The functions that one thread postponed are called in the order in which it
\* postponed them, also across the sets it flushed.
THEOREM CallOrderHolds == RcuSpec => []CallOrder
<1>1. RcuInv => CallOrder
    <2> SUFFICES ASSUME RcuInv, NEW i \in DOMAIN called, NEW j \in DOMAIN called,
                        i < j, poster[called[i]] = poster[called[j]]
                 PROVE  called[i] < called[j]
        BY DEF CallOrder
    <2> QED
        BY DEF RcuInv, QueueOK, Ordered, Precedes
<1> QED
    BY <1>1, RcuInvariant, PTL

=============================================================================
