---------------------------- MODULE UdpifProofs ----------------------------
(***************************************************************************)
(* Proofs about Udpif, for any number of threads, flows, ukeys and events: *)
(* no thread uses a ukey that was freed, no ukey is freed twice, and the   *)
(* umap has the ukeys that are neither new nor deleted.                    *)
(***************************************************************************)
EXTENDS Udpif, TLAPS

\* A leaf that names no prover is tried with Zenon and then with SMT.
USE ZenonT(30), SMTT(120), ZenonT(120)

States == {VISIBLE, OPERATIONAL, EVICTING, EVICTED, DELETED}

\* transition_ukey() never goes back, and reaches DELETED from EVICTED only.
LEMMA TransitionForward ==
    \A a, b \in States : /\ Transition(a, b) \in States
                         /\ Transition(a, b) >= a
                         /\ b # DELETED /\ a # DELETED => Transition(a, b) # DELETED
                         /\ a \in {VISIBLE, OPERATIONAL} /\ b = EVICTING => Transition(a, b) = EVICTING
                         /\ a = VISIBLE /\ b = OPERATIONAL => Transition(a, b) = OPERATIONAL
                         /\ a >= EVICTING /\ b = EVICTED => Transition(a, b) >= EVICTED
                         /\ a = EVICTED /\ b = DELETED => Transition(a, b) = DELETED
BY SMTT(60) DEF Transition, States, VISIBLE, OPERATIONAL, EVICTING, EVICTED, DELETED

\* The states in their order.
LEMMA StateOrder ==
    /\ \A a \in States : a \in Int /\ a >= a /\ a <= DELETED /\ (a < DELETED <=> a # DELETED)
                         /\ (a # DELETED <=> a \in VISIBLE .. EVICTED)
                         /\ (a <= OPERATIONAL => a \in {VISIBLE, OPERATIONAL})
                         /\ (a < OPERATIONAL => a = VISIBLE)
    /\ \A a, b \in States : a >= DELETED /\ b >= a => b = DELETED
    /\ \A a, b \in States : /\ a >= EVICTING /\ b >= a => b >= EVICTING
                            /\ a >= EVICTED /\ b >= a => b >= EVICTED
BY SMTT(60) DEF States, VISIBLE, OPERATIONAL, EVICTING, EVICTED, DELETED

\* States only go forward, and not to DELETED.
Forward == /\ ukeys' \in [Ukey -> Members]
           /\ \A u \in Ukey : /\ ukeys'[u].state >= ukeys[u].state
                              /\ ukeys'[u].state = DELETED => ukeys[u].state = DELETED

\* The umap and the frees are left alone, and the threads but t still owe what they owed.
Kept(t) == /\ umap' = umap /\ allocated' = allocated /\ status' = status
           /\ dp' \in [Flow -> Int] /\ tables_version' \in Int /\ reval_seq' \in Int
           /\ active \ {t} \subseteq active' /\ active' \subseteq Thread
           /\ owes' \in [Ukey -> SUBSET Thread] /\ \A u \in Ukey : owes[u] \ {t} \subseteq owes'[u]

\* A step of thread t of this kind keeps the invariant, if t itself is where it may be.
LEMMA ThreadStep ==
    ASSUME UkeyInv, NEW t \in Thread, NEW l \in Locals, th' = [th EXCEPT ![t] = l],
           Forward, Kept(t), FreedOnce', PlaceOK(t)', PointerOK(t)'
    PROVE  UkeyInv'
<1> USE DEF Forward, Kept
<1>1. /\ th \in [Thread -> Locals] /\ umap \in [Flow -> Ukey \cup {NoUkey}] /\ allocated \subseteq Ukey
      /\ status \in [Ukey -> {"idle", "postponed"}]
      /\ \A u \in Ukey : ukeys[u].state \in States /\ ukeys'[u].state \in States
    BY DEF UkeyInv, UkeyTypeOK, Members, States
<1>2. UkeyTypeOK'
    BY <1>1 DEF UkeyTypeOK
<1>3. \A u \in Ukey : ukeys[u].state = DELETED <=> ukeys'[u].state = DELETED
    BY <1>1, StateOrder DEF DELETED, States
<1>4. UmapSound'
    <2>1. \A u \in allocated : Ours(u)' <=> Ours(u)
        BY DEF Ours
    <2>2. \A u \in allocated : IF Ours(u) THEN ukeys'[u].state \in VISIBLE .. EVICTED
                               ELSE ukeys'[u].state = DELETED /\ status[u] = "postponed"
        BY <1>1, <1>3, StateOrder DEF UkeyInv, UmapSound
    <2>3. \A u \in allocated' : IF Ours(u)' THEN ukeys'[u].state \in VISIBLE .. EVICTED
                                ELSE ukeys'[u].state = DELETED /\ status'[u] = "postponed"
        BY <2>1, <2>2
    <2> QED
        BY <2>3 DEF UkeyInv, UmapSound, Ours
<1>5. \A u \in Ukey : status'[u] = "postponed" => u \in allocated' /\ ukeys'[u].state = DELETED
    BY <1>3 DEF UkeyInv
<1>6. ASSUME NEW o \in Thread
      PROVE  PlaceOK(o)' /\ PointerOK(o)'
    <2>1. CASE o = t
        BY <2>1
    <2>2. CASE o # t
        <3>1. th'[o] = th[o] /\ PlaceOK(o) /\ PointerOK(o) /\ th[o].ukey \in Ukey \cup {NoUkey}
            BY <1>1, <2>2 DEF UkeyInv, Locals
        <3>2. PlaceOK(o)'
            <4>1. th[o].at \in Keyed => th[o].ukey \in Ukey
                BY <3>1 DEF PlaceOK
            <4>2. th[o].at \in {"del", "evict", "remove"} => th[o].at \in Keyed
                BY DEF Keyed
            <4>3. th[o].at \in {"del", "evict"} => ukeys'[th[o].ukey].state >= EVICTING
                BY <1>1, <3>1, <4>1, <4>2, StateOrder, SMTT(60) DEF PlaceOK
            <4>4. th[o].at = "remove" => ukeys'[th[o].ukey].state >= EVICTED
                BY <1>1, <3>1, <4>1, <4>2, StateOrder, SMTT(60) DEF PlaceOK
            <4> QED
                BY <2>2, <3>1, <4>3, <4>4 DEF PlaceOK
        <3>3. PointerOK(o)'
            <4> SUFFICES ASSUME th[o].ukey # NoUkey
                         PROVE  /\ th[o].ukey \in allocated
                                /\ status[th[o].ukey] = "postponed" => o \in owes'[th[o].ukey]
                                /\ ukeys'[th[o].ukey].state < DELETED => umap[th[o].flow] = th[o].ukey
                BY <3>1, SMTT(60) DEF PointerOK
            <4>1. th[o].ukey \in Ukey
                BY <3>1
            <4> QED
                BY <1>1, <1>3, <2>2, <3>1, <4>1, StateOrder DEF PointerOK
        <3> QED
            BY <3>2, <3>3
    <2> QED
        BY <2>1, <2>2
<1> QED
    BY <1>2, <1>4, <1>5, <1>6 DEF UkeyInv

\* ... when it has no pointer to a ukey,
LEMMA NoPointer ==
    ASSUME UkeyInv, NEW t \in Thread, NEW l \in Locals, th' = [th EXCEPT ![t] = l],
           Forward, Kept(t), FreedOnce', l.ukey = NoUkey, l.at \notin Keyed,
           l.at \in Unkeyed => l.flow \in Flow, l.at \notin Quiescent => t \in active'
    PROVE  UkeyInv'
<1>1. th'[t] = l
    BY DEF UkeyInv, UkeyTypeOK
<1>2. l.at \notin {"del", "evict", "remove"}
    BY DEF Keyed
<1>3. PlaceOK(t)'
    BY <1>1, <1>2 DEF PlaceOK
<1>4. PointerOK(t)'
    BY <1>1 DEF PointerOK
<1> QED
    BY <1>3, <1>4, ThreadStep

\* ... when it goes on with the ukey that it has,
LEMMA SamePointer ==
    ASSUME UkeyInv, NEW t \in Thread, NEW l \in Locals, th' = [th EXCEPT ![t] = l],
           Forward, Kept(t), FreedOnce', th[t].at \in Keyed, l.at \in Keyed,
           l.ukey = th[t].ukey, l.flow = th[t].flow, UNCHANGED <<active, owes>>,
           l.at \in {"del", "evict"} => ukeys'[l.ukey].state >= EVICTING,
           l.at = "remove" => ukeys'[l.ukey].state >= EVICTED
    PROVE  UkeyInv'
<1>1. th'[t] = l /\ PlaceOK(t) /\ PointerOK(t)
    BY DEF UkeyInv, UkeyTypeOK
<1>2. l.ukey \in Ukey /\ l.ukey # NoUkey /\ l.flow \in Flow /\ t \in active
    BY <1>1, UkeyAssumption DEF PlaceOK, Locals, Keyed, Quiescent
<1>3. PlaceOK(t)'
    BY <1>1, <1>2 DEF PlaceOK
<1>4. ukeys'[l.ukey].state < DELETED => ukeys[l.ukey].state < DELETED
    <2>1. ukeys[l.ukey].state \in States /\ ukeys'[l.ukey].state \in States
        BY <1>2 DEF UkeyInv, UkeyTypeOK, Forward, Members, States
    <2>2. ukeys'[l.ukey].state >= ukeys[l.ukey].state
        BY <1>2 DEF Forward
    <2> QED
        BY <2>1, <2>2, SMTT(60) DEF DELETED, States, VISIBLE, OPERATIONAL, EVICTING, EVICTED
<1>5. PointerOK(t)'
    BY <1>1, <1>2, <1>4, SMTT(60) DEF PointerOK, Kept
<1> QED
    BY <1>3, <1>5, ThreadStep

\* ... and when it takes one from the umap.
LEMMA NewPointer ==
    ASSUME UkeyInv, NEW t \in Thread, NEW l \in Locals, th' = [th EXCEPT ![t] = l],
           ukeys' = ukeys, Forward, Kept(t), FreedOnce', l.at \in {"decide", "visit"},
           l.flow \in Flow, l.ukey = umap[l.flow], l.ukey # NoUkey, t \in active'
    PROVE  UkeyInv'
<1>1. th'[t] = l
    BY DEF UkeyInv, UkeyTypeOK
<1>2. PlaceOK(t)'
    BY <1>1 DEF PlaceOK, Keyed
<1>3. l.ukey \in allocated /\ l.ukey \in Ukey /\ Ours(l.ukey)
    BY DEF UkeyInv, UmapSound, UkeyTypeOK, Ours
<1>4. status[l.ukey] # "postponed"
    <2>1. ukeys[l.ukey].state \in VISIBLE .. EVICTED
        BY <1>3 DEF UkeyInv, UmapSound
    <2>2. ukeys[l.ukey].state # DELETED
        BY <2>1, SMTT(60) DEF VISIBLE, EVICTED, DELETED
    <2> QED
        BY <1>3, <2>2 DEF UkeyInv
<1>5. PointerOK(t)'
    BY <1>1, <1>3, <1>4, SMTT(60) DEF PointerOK, Kept
<1> QED
    BY <1>2, <1>5, ThreadStep

\* What a thread does to RCU by itself.
LEMMA KeptBy ==
    ASSUME UkeyInv, NEW t \in Thread,
           QuiesceBegin(t) \/ QuiesceEnd(t) \/ Quiesce(t) \/ UNCHANGED graceVars
    PROVE  /\ status' = status /\ active \ {t} \subseteq active' /\ active' \subseteq Thread
           /\ owes' \in [Ukey -> SUBSET Thread] /\ \A u \in Ukey : owes[u] \ {t} \subseteq owes'[u]
<1>1. active \subseteq Thread /\ owes \in [Ukey -> SUBSET Thread]
    BY DEF UkeyInv, UkeyTypeOK
<1>2. CASE QuiesceBegin(t)
    BY <1>1, <1>2 DEF QuiesceBegin, Ukey
<1>3. CASE QuiesceEnd(t)
    BY <1>1, <1>3 DEF QuiesceEnd
<1>4. CASE Quiesce(t)
    BY <1>1, <1>4 DEF Quiesce, Ukey
<1>5. CASE UNCHANGED graceVars
    BY <1>1, <1>5 DEF graceVars
<1> QED
    BY <1>2, <1>3, <1>4, <1>5

\* A step that leaves the ukeys alone moves none of them back.
LEMMA SameUkeys ==
    ASSUME UkeyInv, ukeys' = ukeys
    PROVE  Forward
<1>1. ukeys \in [Ukey -> Members] /\ \A u \in Ukey : ukeys[u].state \in States
    BY DEF UkeyInv, UkeyTypeOK, Members, States
<1> QED
    BY <1>1, StateOrder DEF Forward

\* A step that moves one ukey forward moves none back.
LEMMA OneUkey ==
    ASSUME UkeyInv, NEW u \in Ukey, NEW k \in Members, ukeys' = [ukeys EXCEPT ![u] = k],
           k.state >= ukeys[u].state, k.state = DELETED => ukeys[u].state = DELETED
    PROVE  Forward /\ ukeys'[u] = k
<1>1. ukeys \in [Ukey -> Members] /\ \A v \in Ukey : ukeys[v].state \in States
    BY DEF UkeyInv, UkeyTypeOK, Members, States
<1> QED
    BY <1>1, StateOrder DEF Forward

\* The types that the steps need.
LEMMA Types ==
    ASSUME UkeyInv
    PROVE  /\ \A t \in Thread : th[t] \in Locals
           /\ \A u \in Ukey : ukeys[u] \in Members /\ ukeys[u].state \in States
           /\ dp \in [Flow -> Int] /\ tables_version \in Int /\ reval_seq \in Int
           /\ th \in [Thread -> Locals] /\ ukeys \in [Ukey -> Members]
           /\ FreedOnce
BY DEF UkeyInv, UkeyTypeOK, Members, States

\* A thread at a place where it has a ukey.
LEMMA AtKeyed ==
    ASSUME UkeyInv, NEW t \in Thread, th[t].at \in Keyed
    PROVE  th[t].ukey \in Ukey /\ th[t].flow \in Flow /\ t \in active
BY DEF UkeyInv, UkeyTypeOK, Locals, PlaceOK, Keyed, Quiescent

\* A thread at a place where it has no ukey.
LEMMA AtUnkeyed ==
    ASSUME UkeyInv, NEW t \in Thread, th[t].at \notin Keyed
    PROVE  /\ th[t].ukey = NoUkey
           /\ th[t].at \in Unkeyed => th[t].flow \in Flow
           /\ th[t].at \notin Quiescent => t \in active
BY DEF UkeyInv, PlaceOK

\* A thread between two rounds.
LEMMA NoLocalsType == NoLocals \in Locals /\ NoLocals.at = "idle" /\ NoLocals.ukey = NoUkey
BY SMTT(60) DEF NoLocals, Locals, Place, Quiescent

\* Clear().
LEMMA ClearedType ==
    ASSUME NEW l \in Locals, NEW p \in Place
    PROVE  LET m == [l EXCEPT !.at = p, !.flow = NoUkey, !.ukey = NoUkey, !.version = 0, !.error = FALSE]
           IN m \in Locals /\ m.at = p /\ m.ukey = NoUkey /\ m.flow = NoUkey
<1> DEFINE m == [l EXCEPT !.at = p, !.flow = NoUkey, !.ukey = NoUkey, !.version = 0, !.error = FALSE]
<1>1. 0 \in Int /\ FALSE \in BOOLEAN /\ NoUkey \in Flow \cup {NoUkey} /\ NoUkey \in Ukey \cup {NoUkey}
    BY SMTT(60)
<1>2. m \in Locals
    BY <1>1 DEF Locals
<1>3. m.at = p /\ m.ukey = NoUkey /\ m.flow = NoUkey
    BY DEF Locals
<1> QED
    BY <1>2, <1>3

---------------------------------------------------------------------------
(* Handlers.                                                               *)

\* A handler's steps that change neither a ukey nor the umap.
LEMMA HandlerSteps ==
    ASSUME UkeyInv, NEW t \in Thread,
           \/ \E f \in Flow : Receive(t, f)
           \/ Translate(t) \/ HandlerDrop(t) \/ HandlerPut(t) \/ HandlerPutFails(t)
    PROVE  UkeyInv'
<1> USE DEF Place, Quiescent, Keyed, Unkeyed
<1>0. th[t] \in Locals /\ tables_version \in Int /\ reval_seq \in Int /\ dp \in [Flow -> Int] /\ FreedOnce
    BY Types
<1>1. ASSUME NEW f \in Flow, Receive(t, f)
      PROVE  UkeyInv'
    <2> DEFINE l == [th[t] EXCEPT !.at = "xlate", !.flow = f, !.version = tables_version]
    <2>1. l \in Locals /\ th' = [th EXCEPT ![t] = l] /\ l.at = "xlate" /\ l.flow = f /\ l.ukey = th[t].ukey
        BY <1>0, <1>1 DEF Receive, Locals
    <2> HIDE DEF l
    <2>2. l.ukey = NoUkey
        BY <1>1, <2>1, AtUnkeyed DEF Receive, At
    <2>3. Forward /\ FreedOnce'
        BY <1>0, <1>1, SameUkeys DEF Receive, cache, FreedOnce
    <2>4. Kept(t) /\ t \in active'
        BY <1>0, <1>1, KeptBy DEF Receive, cache, tables, Kept, QuiesceEnd
    <2> QED
        BY <2>1, <2>2, <2>3, <2>4, NoPointer
<1>2. ASSUME Translate(t)
      PROVE  UkeyInv'
    <2> DEFINE l == [th[t] EXCEPT !.at = "install", !.seq = reval_seq]
    <2>1. /\ l \in Locals /\ th' = [th EXCEPT ![t] = l] /\ l.at = "install"
          /\ l.flow = th[t].flow /\ l.ukey = th[t].ukey
        BY <1>0, <1>2 DEF Translate, Locals
    <2> HIDE DEF l
    <2>2. l.ukey = NoUkey /\ l.flow \in Flow /\ t \in active
        BY <1>2, <2>1, AtUnkeyed DEF Translate, At
    <2>3. Forward /\ FreedOnce'
        BY <1>0, <1>2, SameUkeys DEF Translate, cache, FreedOnce
    <2>4. Kept(t) /\ t \in active'
        BY <1>0, <1>2, <2>2, KeptBy DEF Translate, cache, tables, Kept, graceVars
    <2> QED
        BY <2>1, <2>2, <2>3, <2>4, NoPointer
<1>3. ASSUME HandlerDrop(t)
      PROVE  UkeyInv'
    <2>1. NoLocals \in Locals /\ NoLocals.at = "idle" /\ NoLocals.ukey = NoUkey
        BY NoLocalsType
    <2>2. Forward /\ FreedOnce'
        BY <1>0, <1>3, SameUkeys DEF HandlerDrop, cache, FreedOnce
    <2>3. Kept(t)
        BY <1>0, <1>3, KeptBy DEF HandlerDrop, cache, tables, Kept
    <2> QED
        BY <1>3, <2>1, <2>2, <2>3, NoPointer DEF HandlerDrop
<1>4. ASSUME HandlerPut(t) \/ HandlerPutFails(t)
      PROVE  UkeyInv'
    <2>1. PICK e \in BOOLEAN : th' = [th EXCEPT ![t] = [th[t] EXCEPT !.at = "transition", !.error = e]]
        BY <1>4 DEF HandlerPut, HandlerPutFails
    <2> DEFINE l == [th[t] EXCEPT !.at = "transition", !.error = e]
    <2>2. /\ l \in Locals /\ l.at = "transition" /\ l.ukey = th[t].ukey /\ l.flow = th[t].flow
        BY <1>0 DEF Locals
    <2>3. th' = [th EXCEPT ![t] = l] /\ th[t].at = "put"
        BY <1>4, <2>1 DEF HandlerPut, HandlerPutFails, At
    <2> HIDE DEF l
    <2>4. Forward /\ FreedOnce'
        BY <1>0, <1>4, SameUkeys DEF HandlerPut, HandlerPutFails, cache, FreedOnce
    <2>5. dp' \in [Flow -> Int]
        <3>1. th[t].version \in Int /\ th[t].flow \in Flow
            BY <1>0, <2>3, AtKeyed DEF Locals
        <3> QED
            BY <1>0, <1>4, <3>1 DEF HandlerPut, HandlerPutFails
    <2>6. Kept(t) /\ UNCHANGED <<active, owes>>
        BY <1>0, <1>4, <2>5, KeptBy DEF HandlerPut, HandlerPutFails, cache, tables, Kept, graceVars
    <2> QED
        BY <2>2, <2>3, <2>4, <2>6, SamePointer
<1> QED
    BY <1>1, <1>2, <1>3, <1>4

\* After the put the handler moves its ukey on, or meets the abort.
LEMMA HandlerTransitionStep ==
    ASSUME UkeyInv, NEW t \in Thread, HandlerTransition(t)
    PROVE  UkeyInv'
<1> DEFINE u == th[t].ukey
           s == ukeys[u].state
           n == IF th[t].error THEN Transition(s, EVICTED)
                ELSE IF s < OPERATIONAL THEN Transition(s, OPERATIONAL) ELSE s
           k == [ukeys[u] EXCEPT !.state = n]
<1>1. u \in Ukey /\ ukeys[u] \in Members /\ s \in States /\ ukeys \in [Ukey -> Members]
    BY Types, AtKeyed DEF HandlerTransition, At, Keyed
<1>2. ukeys' = [ukeys EXCEPT ![u] = k]
    BY <1>1 DEF HandlerTransition
<1> HIDE DEF u
<1>3. n \in States /\ n >= s /\ (n = DELETED => s = DELETED)
    <2>1. EVICTED \in States /\ OPERATIONAL \in States /\ EVICTED # DELETED /\ OPERATIONAL # DELETED
        BY SMTT(60) DEF States, VISIBLE, OPERATIONAL, EVICTING, EVICTED, DELETED
    <2> HIDE DEF s
    <2> QED
        BY <1>1, <2>1, TransitionForward, StateOrder
<1> HIDE DEF n
<1>4. k \in Members /\ k.state = n
    BY <1>1, <1>3 DEF Members, States
<1> HIDE DEF k
<1>5. Forward
    BY <1>1, <1>2, <1>3, <1>4, OneUkey
<1>6. FreedOnce'
    BY Types DEF FreedOnce, HandlerTransition
<1>7. NoLocals \in Locals /\ NoLocals.at = "idle" /\ NoLocals.ukey = NoUkey
    BY NoLocalsType
<1>8. Kept(t)
    BY Types, KeptBy DEF HandlerTransition, tables, Kept
<1>9. th' = [th EXCEPT ![t] = NoLocals]
    BY DEF HandlerTransition
<1> QED
    BY <1>5, <1>6, <1>7, <1>8, <1>9, NoPointer DEF Keyed, Unkeyed, Quiescent

---------------------------------------------------------------------------
(* Revalidators and the main thread.                                       *)

\* Thread t is through with its flow.
LEMMA DoneStep ==
    ASSUME UkeyInv, NEW t \in Thread, Done(t), Forward, FreedOnce', t \in active,
           dp' \in [Flow -> Int], UNCHANGED <<umap, allocated, tables>>
    PROVE  UkeyInv'
<1>0. th[t] \in Locals
    BY Types
<1>1. PICK p \in {"dump", "sweep"} :
         th' = [th EXCEPT ![t] = [th[t] EXCEPT !.at = p, !.flow = NoUkey, !.ukey = NoUkey,
                                               !.version = 0, !.error = FALSE]]
    BY DEF Done, Clear
<1> DEFINE l == [th[t] EXCEPT !.at = p, !.flow = NoUkey, !.ukey = NoUkey, !.version = 0, !.error = FALSE]
<1>2. l \in Locals /\ l.at = p /\ l.ukey = NoUkey
    BY <1>0, ClearedType DEF Place
<1>3. th' = [th EXCEPT ![t] = l]
    BY <1>1
<1> HIDE DEF l
<1>4. Kept(t) /\ t \in active'
    BY Types, KeptBy DEF Done, Quiesce, tables, Kept
<1>5. l.at \notin Keyed /\ l.at \notin Unkeyed
    BY <1>2 DEF Keyed, Unkeyed
<1> QED
    BY <1>2, <1>3, <1>4, <1>5, NoPointer

\* The leader clears the mark of all ukeys before the dump.
LEMMA LeadStep ==
    ASSUME UkeyInv, Leader \in Thread, Lead
    PROVE  UkeyInv'
<1> DEFINE t == Leader
           l == [th[t] EXCEPT !.at = "barrier"]
<1>0. th[t] \in Locals /\ \A u \in Ukey : ukeys[u] \in Members /\ ukeys[u].state \in States
    BY Types
<1>1. l \in Locals /\ l.at = "barrier" /\ l.ukey = th[t].ukey
    BY <1>0 DEF Locals, Place, Quiescent
<1>2. th' = [th EXCEPT ![t] = l] /\ th[t].at = "lead"
    BY DEF Lead, Goto, At
<1>3. Forward
    <2>1. \A u \in Ukey : /\ ukeys'[u] = [ukeys[u] EXCEPT !.dumped = FALSE]
                          /\ ukeys'[u] \in Members /\ ukeys'[u].state = ukeys[u].state
        BY <1>0 DEF Lead, Members
    <2>2. ukeys' \in [Ukey -> Members]
        BY <2>1 DEF Lead
    <2>3. \A u \in Ukey : ukeys'[u].state >= ukeys[u].state
        BY <1>0, <2>1, StateOrder
    <2> QED
        BY <2>1, <2>2, <2>3 DEF Forward
<1>4. Kept(t) /\ FreedOnce'
    BY Types, KeptBy DEF Lead, tables, Kept, FreedOnce
<1> HIDE DEF l, t
<1>5. l.ukey = NoUkey
    BY <1>1, <1>2, AtUnkeyed DEF Keyed, t
<1> QED
    BY <1>1, <1>2, <1>3, <1>4, <1>5, NoPointer DEF Keyed, Unkeyed, Quiescent, t

\* A revalidator passes a barrier to the next phase.
LEMMA BarrierStep ==
    ASSUME UkeyInv, NEW r \in Revalidator, r \in Thread, Barrier(r)
    PROVE  UkeyInv'
<1> DEFINE p == NextPhase(th[r].phase)
           l == [NoLocals EXCEPT !.phase = p]
           S == {f \in Flow : Slice[f] = r}
<1>1. Forward /\ FreedOnce'
    BY Types, SameUkeys DEF Barrier, cache, FreedOnce
<1>2. UNCHANGED <<umap, allocated>> /\ dp' \in [Flow -> Int] /\ tables_version' \in Int /\ reval_seq' \in Int
    BY Types DEF Barrier, cache, tables
<1>3. NoLocals \in Locals /\ NoLocals.ukey = NoUkey /\ reval_seq \in Int /\ S \in SUBSET Flow
    BY Types, NoLocalsType
<1> HIDE DEF p, S
<1>4. p \in {"rest", "dump", "sweep"} => l \in Locals /\ l.ukey = NoUkey
    BY <1>3 DEF Locals
<1> HIDE DEF l
<1>5. ASSUME NEW m \in Locals, th' = [th EXCEPT ![r] = m], m.ukey = NoUkey,
             \/ m.at \in {"lead", "barrier"} /\ UNCHANGED graceVars
             \/ m.at \in {"dump", "sweep"} /\ QuiesceEnd(r)
      PROVE  UkeyInv'
    <2>1. Kept(r)
        BY <1>2, <1>5, KeptBy DEF Kept
    <2>2. m.at \notin Quiescent => r \in active'
        BY <1>5 DEF Quiescent, QuiesceEnd
    <2>3. m.at \notin Keyed /\ m.at \notin Unkeyed
        BY <1>5 DEF Keyed, Unkeyed
    <2> QED
        BY <1>1, <1>5, <2>1, <2>2, <2>3, NoPointer
<1>6. CASE /\ p = "rest"
           /\ th' = [th EXCEPT ![r] = [l EXCEPT !.at = IF r = Leader THEN "lead" ELSE "barrier"]]
           /\ UNCHANGED graceVars
    <2> DEFINE a == IF r = Leader THEN "lead" ELSE "barrier"
               m == [l EXCEPT !.at = a]
    <2>1. a \in {"lead", "barrier"} /\ a \in Place
        BY DEF Place, Quiescent
    <2> HIDE DEF a
    <2>2. m \in Locals /\ m.at = a /\ m.ukey = NoUkey
        BY <1>4, <1>6, <2>1 DEF Locals
    <2>3. th' = [th EXCEPT ![r] = m]
        BY <1>6 DEF a
    <2> QED
        BY <1>5, <1>6, <2>1, <2>2, <2>3
<1>7. CASE /\ p = "dump"
           /\ th' = [th EXCEPT ![r] = [l EXCEPT !.at = "dump", !.seq = reval_seq]]
           /\ QuiesceEnd(r)
    <2> DEFINE m == [l EXCEPT !.at = "dump", !.seq = reval_seq]
    <2>1. "dump" \in Place
        BY DEF Place
    <2>2. m \in Locals /\ m.at = "dump" /\ m.ukey = NoUkey
        BY <1>3, <1>4, <1>7, <2>1 DEF Locals
    <2> QED
        BY <1>5, <1>7, <2>2
<1>8. CASE /\ p = "sweep"
           /\ th' = [th EXCEPT ![r] = [l EXCEPT !.at = "sweep", !.seq = reval_seq, !.todo = S]]
           /\ QuiesceEnd(r)
    <2> DEFINE m == [l EXCEPT !.at = "sweep", !.seq = reval_seq, !.todo = S]
    <2>1. "sweep" \in Place
        BY DEF Place
    <2>2. m \in Locals /\ m.at = "sweep" /\ m.ukey = NoUkey
        BY <1>3, <1>4, <1>8, <2>1 DEF Locals
    <2> QED
        BY <1>5, <1>8, <2>2
<1> QED
    BY <1>6, <1>7, <1>8 DEF Barrier, p, l, S

\* The dump, up to where a ukey is found.
LEMMA DumpSteps ==
    ASSUME UkeyInv, NEW r \in Thread,
           (\E f \in Flow : DumpNext(r, f)) \/ DumpEnd(r) \/ Lookup(r)
    PROVE  UkeyInv'
<1> USE DEF Place, Quiescent, Keyed, Unkeyed
<1>0. th[r] \in Locals /\ dp \in [Flow -> Int] /\ FreedOnce /\ th \in [Thread -> Locals]
    BY Types
<1>1. ASSUME NEW f \in Flow, DumpNext(r, f)
      PROVE  UkeyInv'
    <2>1. Forward /\ FreedOnce'
        BY <1>0, <1>1, SameUkeys DEF DumpNext, cache, FreedOnce
    <2>2. th[r].ukey = NoUkey /\ r \in active /\ th[r].at = "dump"
        BY <1>1, AtUnkeyed DEF DumpNext, At
    <2>3. Kept(r) /\ r \in active'
        BY <1>1, <2>2, Types, KeptBy DEF DumpNext, cache, tables, Kept, graceVars
    <2>4. CASE dp[f] = NoFlow
        <3>1. th' = [th EXCEPT ![r] = th[r]]
            BY <1>0, <1>1, <2>4 DEF DumpNext
        <3> QED
            BY <1>0, <2>1, <2>2, <2>3, <3>1, NoPointer
    <2>5. CASE dp[f] # NoFlow
        <3> DEFINE l == [th[r] EXCEPT !.at = "lookup", !.flow = f, !.version = dp[f]]
        <3>1. l \in Locals /\ l.at = "lookup" /\ l.flow = f /\ l.ukey = th[r].ukey
            BY <1>0 DEF Locals
        <3>2. th' = [th EXCEPT ![r] = l]
            BY <1>1, <2>5 DEF DumpNext
        <3> HIDE DEF l
        <3> QED
            BY <2>1, <2>2, <2>3, <3>1, <3>2, NoPointer
    <2> QED
        BY <2>4, <2>5
<1>2. ASSUME DumpEnd(r)
      PROVE  UkeyInv'
    <2> DEFINE l == [th[r] EXCEPT !.at = "barrier"]
    <2>1. l \in Locals /\ l.at = "barrier" /\ l.ukey = th[r].ukey
        BY <1>0 DEF Locals
    <2>2. th' = [th EXCEPT ![r] = l] /\ th[r].at = "dump"
        BY <1>2 DEF DumpEnd, Goto, At
    <2> HIDE DEF l
    <2>3. l.ukey = NoUkey
        BY <2>1, <2>2, AtUnkeyed
    <2>4. Forward /\ FreedOnce'
        BY <1>0, <1>2, SameUkeys DEF DumpEnd, cache, FreedOnce
    <2>5. Kept(r)
        BY <1>2, Types, KeptBy DEF DumpEnd, cache, tables, Kept
    <2> QED
        BY <2>1, <2>2, <2>3, <2>4, <2>5, NoPointer
<1>3. ASSUME Lookup(r)
      PROVE  UkeyInv'
    <2> DEFINE u == umap[th[r].flow]
               l == [th[r] EXCEPT !.at = IF u = NoUkey THEN "create" ELSE "decide", !.ukey = u]
    <2>1. th[r].at = "lookup" /\ th[r].flow \in Flow /\ r \in active
        BY <1>3, AtUnkeyed DEF Lookup, At
    <2>2. u \in Ukey \cup {NoUkey}
        BY <2>1 DEF UkeyInv, UkeyTypeOK
    <2>3. /\ l \in Locals /\ l.at = IF u = NoUkey THEN "create" ELSE "decide"
          /\ l.ukey = u /\ l.flow = th[r].flow
        BY <1>0, <2>2 DEF Locals
    <2>4. th' = [th EXCEPT ![r] = l]
        BY <1>3 DEF Lookup
    <2>5. Forward /\ FreedOnce' /\ ukeys' = ukeys
        BY <1>0, <1>3, SameUkeys DEF Lookup, cache, FreedOnce
    <2>6. Kept(r) /\ r \in active'
        BY <1>3, <2>1, Types, KeptBy DEF Lookup, cache, tables, Kept, graceVars
    <2> HIDE DEF l
    <2>7. CASE u = NoUkey
        BY <2>1, <2>3, <2>4, <2>5, <2>6, <2>7, NoPointer
    <2>8. CASE u # NoUkey
        BY <2>1, <2>3, <2>4, <2>5, <2>6, <2>8, NewPointer
    <2> QED
        BY <2>7, <2>8
<1> QED
    BY <1>1, <1>2, <1>3

\* revalidate_ukey() and reval_op_init() of a ukey in use: it is in use after them,
\* or its flow is to be deleted.
LEMMA RevalidatedType ==
    ASSUME UkeyInv, NEW k \in Members, k.state \in {VISIBLE, OPERATIONAL}, NEW s \in Int,
           NEW o \in Revalidated(k, s)
    PROVE  /\ o.ukey \in Members /\ o.ukey.version \in Int /\ o.ukey.state \in States
           /\ o.ukey.state >= k.state /\ o.ukey.state # DELETED
           /\ o.op \in {"del", "mod", "done"}
           /\ o.op = "del" => o.ukey.state = EVICTING
           /\ o.ukey.state \in {k.state, EVICTING}
<1>1. tables_version \in Int
    BY Types
<1>2. Transition(k.state, EVICTING) = EVICTING
    BY SMTT(60) DEF Transition, VISIBLE, OPERATIONAL, EVICTING, DELETED
<1>3. k.state \in States /\ EVICTING \in States /\ EVICTING # DELETED /\ k.state # DELETED
      /\ EVICTING >= k.state /\ k.state >= k.state
    BY SMTT(60) DEF States, VISIBLE, OPERATIONAL, EVICTING, EVICTED, DELETED
<1>4. CASE o = [ukey |-> [k EXCEPT !.state = Transition(@, EVICTING)], op |-> "del"]
    <2> DEFINE m == [k EXCEPT !.state = Transition(@, EVICTING)]
    <2>1. m \in Members /\ m.state = EVICTING
        BY <1>2, <1>3 DEF Members, States
    <2>2. o.ukey = m /\ o.op = "del"
        BY <1>4
    <2> HIDE DEF m
    <2> QED
        BY <1>3, <2>1, <2>2 DEF Members
<1>5. CASE o = [ukey |-> [k EXCEPT !.seq = s], op |-> "done"]
    <2> DEFINE m == [k EXCEPT !.seq = s]
    <2>1. m \in Members /\ m.state = k.state
        BY DEF Members
    <2>2. o.ukey = m /\ o.op = "done"
        BY <1>5
    <2> HIDE DEF m
    <2> QED
        BY <1>3, <2>1, <2>2 DEF Members
<1>6. CASE o = [ukey |-> [k EXCEPT !.seq = s, !.version = tables_version], op |-> "mod"]
    <2> DEFINE m == [k EXCEPT !.seq = s, !.version = tables_version]
    <2>1. m \in Members /\ m.state = k.state
        BY <1>1 DEF Members
    <2>2. o.ukey = m /\ o.op = "mod"
        BY <1>6
    <2> HIDE DEF m
    <2> QED
        BY <1>3, <2>1, <2>2 DEF Members
<1> QED
    BY <1>4, <1>5, <1>6 DEF Revalidated

\* A dumped flow's ukey becomes operational.
LEMMA DumpedType ==
    ASSUME NEW k \in Members, k.state \in {VISIBLE, OPERATIONAL}
    PROVE  Dumped(k) \in Members /\ Dumped(k).state = OPERATIONAL
<1>1. (IF k.state < OPERATIONAL THEN Transition(k.state, OPERATIONAL) ELSE k.state) = OPERATIONAL
    BY SMTT(60) DEF Transition, VISIBLE, OPERATIONAL, DELETED
<1> HIDE DEF OPERATIONAL
<1>2. Dumped(k) = [k EXCEPT !.dumped = TRUE, !.state = OPERATIONAL]
    BY <1>1 DEF Dumped
<1> QED
    BY <1>2 DEF Members

\* GoOn() with a ukey v.
LEMMA GoOnType ==
    ASSUME NEW l \in Locals, NEW p \in {"del", "mod", "done"}, NEW n \in Int, NEW v \in Ukey \cup {NoUkey}
    PROVE  LET m == [l EXCEPT !.at = p, !.version = n, !.ukey = v]
           IN m \in Locals /\ m.at = p /\ m.ukey = v /\ m.flow = l.flow
<1>1. p \in Place
    BY DEF Place, Keyed
<1> QED
    BY <1>1 DEF Locals

\* The fate of the ukey of thread t is decided.
LEMMA DecidedStep ==
    ASSUME UkeyInv, NEW t \in Thread, th[t].at \in Keyed, NEW k \in Members,
           ukeys[th[t].ukey].state \in {VISIBLE, OPERATIONAL}, k.state \in {VISIBLE, OPERATIONAL},
           k.state >= ukeys[th[t].ukey].state, NEW o \in Revalidated(k, th[t].seq),
           ukeys' = [ukeys EXCEPT ![th[t].ukey] = o.ukey],
           IF o.op = "done" THEN Done(t) ELSE GoOn(t, th[t].ukey, o) /\ UNCHANGED graceVars,
           UNCHANGED <<dp, umap, allocated, tables, trouble>>
    PROVE  UkeyInv'
<1> DEFINE u == th[t].ukey
           l == [th[t] EXCEPT !.at = o.op, !.version = o.ukey.version, !.ukey = u]
<1>1. /\ u \in Ukey /\ t \in active /\ th[t] \in Locals /\ dp \in [Flow -> Int] /\ ukeys[u].state \in States
      /\ FreedOnce /\ th[t].seq \in Int
    BY Types, AtKeyed DEF Locals
<1>2. /\ o.ukey \in Members /\ o.ukey.version \in Int /\ o.ukey.state \in States
      /\ o.ukey.state >= k.state /\ o.ukey.state # DELETED
      /\ o.op \in {"del", "mod", "done"}
      /\ o.op = "del" => o.ukey.state = EVICTING
    BY <1>1, RevalidatedType
<1>3. o.ukey.state >= ukeys[u].state
    BY <1>1, <1>2, SMTT(60) DEF States, VISIBLE, OPERATIONAL, EVICTING, EVICTED, DELETED
<1>4. Forward /\ ukeys'[u] = o.ukey
    BY <1>1, <1>2, <1>3, OneUkey
<1>5. FreedOnce'
    BY <1>1 DEF FreedOnce
<1>6. CASE o.op = "done"
    BY <1>1, <1>4, <1>5, <1>6, DoneStep
<1>7. CASE o.op # "done"
    <2>1. l \in Locals /\ l.at = o.op /\ l.ukey = u /\ l.flow = th[t].flow
        <3>1. u \in Ukey \cup {NoUkey}
            BY <1>1
        <3> DEFINE n == o.ukey.version
                   p == o.op
        <3>2. n \in Int /\ p \in {"del", "mod", "done"}
            BY <1>2
        <3> HIDE DEF u, n, p
        <3>3. [th[t] EXCEPT !.at = p, !.version = n, !.ukey = u] \in Locals
            BY <1>1, <3>1, <3>2, GoOnType
        <3>4. LET m == [th[t] EXCEPT !.at = p, !.version = n, !.ukey = u]
              IN m.at = p /\ m.ukey = u /\ m.flow = th[t].flow
            BY <1>1 DEF Locals
        <3> QED
            BY <3>3, <3>4 DEF n, p
    <2>2. th' = [th EXCEPT ![t] = l]
        BY <1>7 DEF GoOn
    <2>3. Kept(t) /\ UNCHANGED <<active, owes>>
        BY <1>7, Types, KeptBy DEF tables, Kept, graceVars
    <2> HIDE DEF l, u
    <2>4. l.at \in Keyed /\ l.at # "remove" /\ l.at # "evict"
        BY <1>2, <1>7, <2>1 DEF Keyed
    <2>5. l.at = "del" => ukeys'[l.ukey].state >= EVICTING
        <3>1. EVICTING >= EVICTING
            BY SMTT(60) DEF EVICTING
        <3> QED
            BY <1>2, <1>4, <2>1, <3>1
    <2> QED
        BY <1>4, <1>5, <2>1, <2>2, <2>3, <2>4, <2>5, SamePointer DEF u
<1> QED
    BY <1>6, <1>7

\* What a revalidator does with a flow of the dump, in all cases of revalidate().
LEMMA DecideStep ==
    ASSUME UkeyInv, NEW r \in Thread, Decide(r)
    PROVE  UkeyInv'
<1> DEFINE u == th[r].ukey
           k == ukeys[u]
<1>1. th[r].at \in Keyed /\ u \in Ukey /\ r \in active /\ k \in Members /\ k.state \in States /\ FreedOnce
    BY Types, AtKeyed DEF Decide, At, Keyed
<1>2. UNCHANGED <<dp, umap, allocated, tables, trouble>>
    BY DEF Decide
<1>3. CASE Done(r) /\ UNCHANGED ukeys
    <2>1. Forward /\ FreedOnce'
        BY <1>1, <1>2, <1>3, SameUkeys DEF FreedOnce
    <2> QED
        BY <1>1, <1>2, <1>3, <2>1, Types, DoneStep
<1>4. CASE /\ ~k.dumped /\ k.state <= OPERATIONAL
           /\ \E o \in Revalidated(Dumped(k), th[r].seq) :
                 /\ ukeys' = [ukeys EXCEPT ![u] = o.ukey]
                 /\ IF o.op = "done" THEN Done(r) ELSE GoOn(r, u, o) /\ UNCHANGED graceVars
    <2>1. k.state \in {VISIBLE, OPERATIONAL}
        BY <1>1, <1>4, StateOrder
    <2>2. Dumped(k) \in Members /\ Dumped(k).state = OPERATIONAL
        BY <1>1, <2>1, DumpedType
    <2>3. OPERATIONAL >= k.state
        BY <2>1, SMTT(60) DEF VISIBLE, OPERATIONAL
    <2>4. PICK o \in Revalidated(Dumped(k), th[r].seq) :
                 /\ ukeys' = [ukeys EXCEPT ![u] = o.ukey]
                 /\ IF o.op = "done" THEN Done(r) ELSE GoOn(r, u, o) /\ UNCHANGED graceVars
        BY <1>4
    <2> QED
        BY <1>1, <1>2, <2>1, <2>2, <2>3, <2>4, DecidedStep
<1> QED
    BY <1>3, <1>4 DEF Decide

\* What a sweep does with a ukey, in all cases of revalidator_sweep__().
LEMMA VisitStep ==
    ASSUME UkeyInv, NEW t \in Thread, Visit(t)
    PROVE  UkeyInv'
<1> DEFINE u == th[t].ukey
           k == ukeys[u]
<1>1. th[t].at \in Keyed /\ u \in Ukey /\ t \in active /\ k \in Members /\ k.state \in States /\ FreedOnce
    BY Types, AtKeyed DEF Visit, At, Keyed
<1>2. UNCHANGED <<dp, umap, allocated, tables, trouble>>
    BY DEF Visit
<1>3. CASE Done(t) /\ UNCHANGED ukeys
    <2>1. Forward /\ FreedOnce'
        BY <1>1, <1>2, <1>3, SameUkeys DEF FreedOnce
    <2> QED
        BY <1>1, <1>2, <1>3, <2>1, Types, DoneStep
<1>4. CASE /\ k.state \in {VISIBLE, OPERATIONAL}
           /\ \E o \in Revalidated(k, th[t].seq) :
                 /\ ukeys' = [ukeys EXCEPT ![u] = o.ukey]
                 /\ IF o.op = "done" THEN Done(t) ELSE GoOn(t, u, o) /\ UNCHANGED graceVars
    <2>1. k.state >= k.state
        BY <1>1, StateOrder
    <2>2. PICK o \in Revalidated(k, th[t].seq) :
                 /\ ukeys' = [ukeys EXCEPT ![u] = o.ukey]
                 /\ IF o.op = "done" THEN Done(t) ELSE GoOn(t, u, o) /\ UNCHANGED graceVars
        BY <1>4
    <2> QED
        BY <1>1, <1>2, <1>4, <2>1, <2>2, DecidedStep
<1>5. CASE Swept(k) /\ Goto(t, "remove") /\ UNCHANGED <<ukeys, graceVars>>
    <2> DEFINE l == [th[t] EXCEPT !.at = "remove"]
    <2>1. l \in Locals /\ l.at = "remove" /\ l.ukey = u /\ l.flow = th[t].flow
        BY Types DEF Locals, Place, Keyed
    <2>2. th' = [th EXCEPT ![t] = l]
        BY <1>5 DEF Goto
    <2>3. Forward /\ FreedOnce'
        BY <1>1, <1>2, <1>5, SameUkeys DEF FreedOnce
    <2>4. Kept(t) /\ UNCHANGED <<active, owes>>
        BY <1>2, <1>5, Types, KeptBy DEF tables, Kept, graceVars
    <2> HIDE DEF l
    <2>5. ukeys'[l.ukey].state >= EVICTED
        BY <1>5, <2>1, SMTT(60) DEF Swept, EVICTED
    <2>6. l.at \in Keyed /\ l.at \notin {"del", "evict"}
        BY <2>1 DEF Keyed
    <2> QED
        BY <1>1, <2>1, <2>2, <2>3, <2>4, <2>5, <2>6, SamePointer
<1>6. k.state = OPERATIONAL \/ (k.state = VISIBLE /\ Purging(t)) => k.state \in {VISIBLE, OPERATIONAL}
    OBVIOUS
<1> QED
    BY <1>3, <1>4, <1>5, <1>6 DEF Visit

\* push_dp_ops(), and the end of a batch.
LEMMA OpSteps ==
    ASSUME UkeyInv, NEW t \in Thread, Finish(t) \/ Delete(t) \/ Modify(t) \/ Evict(t)
    PROVE  UkeyInv'
<1>0. th[t] \in Locals /\ dp \in [Flow -> Int] /\ FreedOnce
    BY Types
<1>1. ASSUME Finish(t)
      PROVE  UkeyInv'
    <2>1. Forward /\ FreedOnce'
        BY <1>0, <1>1, SameUkeys DEF Finish, cache, FreedOnce
    <2>2. t \in active
        BY <1>1, AtUnkeyed DEF Finish, At, Keyed, Quiescent
    <2> QED
        BY <1>0, <1>1, <2>1, <2>2, DoneStep DEF Finish, cache
<1>2. ASSUME Delete(t)
      PROVE  UkeyInv'
    <2> DEFINE l == [th[t] EXCEPT !.at = "evict"]
    <2>1. l \in Locals /\ l.at = "evict" /\ l.ukey = th[t].ukey /\ l.flow = th[t].flow
        BY <1>0 DEF Locals, Place, Keyed
    <2>2. th' = [th EXCEPT ![t] = l] /\ th[t].at = "del"
        BY <1>2 DEF Delete, Goto, At
    <2>3. Forward /\ FreedOnce' /\ ukeys' = ukeys
        BY <1>0, <1>2, SameUkeys DEF Delete, cache, FreedOnce
    <2>4. dp' \in [Flow -> Int]
        BY <1>0, <1>2, SMTT(60) DEF Delete, NoFlow
    <2>5. Kept(t) /\ UNCHANGED <<active, owes>>
        BY <1>2, <2>4, Types, KeptBy DEF Delete, cache, tables, Kept, graceVars
    <2>6. ukeys[th[t].ukey].state >= EVICTING
        BY <2>2 DEF UkeyInv, PlaceOK
    <2> HIDE DEF l
    <2>7. th[t].at \in Keyed /\ l.at \in Keyed /\ l.at # "remove"
        BY <2>1, <2>2 DEF Keyed
    <2> QED
        BY <2>1, <2>2, <2>3, <2>5, <2>6, <2>7, SamePointer
<1>3. ASSUME Modify(t)
      PROVE  UkeyInv'
    <2>1. Forward /\ FreedOnce'
        BY <1>0, <1>3, SameUkeys DEF Modify, cache, FreedOnce
    <2>2. t \in active /\ th[t].flow \in Flow /\ th[t].version \in Int
        BY <1>0, <1>3, AtKeyed DEF Modify, At, Keyed, Locals
    <2>3. dp' \in [Flow -> Int]
        BY <1>0, <1>3, <2>2 DEF Modify
    <2> QED
        BY <1>3, <2>1, <2>2, <2>3, DoneStep DEF Modify, cache
<1>4. ASSUME Evict(t)
      PROVE  UkeyInv'
    <2> DEFINE u == th[t].ukey
               s == ukeys[u].state
               n == Transition(s, EVICTED)
               k == [ukeys[u] EXCEPT !.state = n]
    <2>1. /\ u \in Ukey /\ ukeys[u] \in Members /\ s \in States /\ t \in active /\ th[t].at = "evict"
          /\ ukeys \in [Ukey -> Members]
        BY <1>4, Types, AtKeyed DEF Evict, At, Keyed
    <2>2. ukeys' = [ukeys EXCEPT ![u] = k]
        BY <1>4, <2>1 DEF Evict
    <2>3. s >= EVICTING
        BY <2>1 DEF UkeyInv, PlaceOK
    <2>4. n \in States /\ n >= s /\ (n = DELETED => s = DELETED) /\ n >= EVICTED
        <3>1. EVICTED \in States /\ EVICTED # DELETED
            BY SMTT(60) DEF States, VISIBLE, OPERATIONAL, EVICTING, EVICTED, DELETED
        <3> HIDE DEF s
        <3> QED
            BY <2>1, <2>3, <3>1, TransitionForward
    <2> HIDE DEF n
    <2>5. k \in Members /\ k.state = n
        BY <2>1, <2>4 DEF Members, States
    <2> HIDE DEF k
    <2>6. Forward /\ ukeys'[u] = k
        BY <2>1, <2>2, <2>4, <2>5, OneUkey
    <2>7. FreedOnce'
        BY <1>0, <1>4 DEF FreedOnce, Evict
    <2>8. CASE th[t].phase = "dump"
        BY <1>0, <1>4, <2>1, <2>6, <2>7, <2>8, DoneStep DEF Evict
    <2>9. CASE th[t].phase # "dump"
        <3> DEFINE l == [th[t] EXCEPT !.at = "remove"]
        <3>1. l \in Locals /\ l.at = "remove" /\ l.ukey = th[t].ukey /\ l.flow = th[t].flow
            BY <1>0 DEF Locals, Place, Keyed
        <3>2. th' = [th EXCEPT ![t] = l] /\ UNCHANGED graceVars
            BY <1>4, <2>9 DEF Evict, Goto
        <3> HIDE DEF l
        <3>3. Kept(t) /\ UNCHANGED <<active, owes>>
            BY <1>4, <3>2, Types, KeptBy DEF Evict, tables, Kept, graceVars
        <3>4. th[t].at \in Keyed /\ l.at \in Keyed /\ l.at \notin {"del", "evict"}
            BY <2>1, <3>1 DEF Keyed
        <3> QED
            BY <2>4, <2>5, <2>6, <2>7, <3>1, <3>2, <3>3, <3>4, SamePointer
    <2> QED
        BY <2>8, <2>9
<1> QED
    BY <1>1, <1>2, <1>3, <1>4

\* A sweep takes the next ukey from the umap, or ends.
LEMMA SweepSteps ==
    ASSUME UkeyInv, NEW t \in Thread, (\E f \in Flow : SweepNext(t, f)) \/ SweepEnd(t)
    PROVE  UkeyInv'
<1> USE DEF Place, Quiescent, Keyed, Unkeyed
<1>0. th[t] \in Locals /\ dp \in [Flow -> Int] /\ FreedOnce
    BY Types
<1>1. ASSUME NEW f \in Flow, SweepNext(t, f)
      PROVE  UkeyInv'
    <2>1. Forward /\ FreedOnce' /\ ukeys' = ukeys
        BY <1>0, <1>1, SameUkeys DEF SweepNext, cache, FreedOnce
    <2>2. th[t].ukey = NoUkey /\ t \in active /\ th[t].at = "sweep"
        BY <1>1, AtUnkeyed DEF SweepNext, At
    <2>3. Kept(t) /\ t \in active'
        BY <1>1, <2>2, Types, KeptBy DEF SweepNext, cache, tables, Kept, graceVars
    <2>4. CASE umap[f] = NoUkey
        <3> DEFINE l == [th[t] EXCEPT !.todo = @ \ {f}]
        <3>1. l \in Locals /\ l.at = "sweep" /\ l.ukey = NoUkey
            BY <1>0, <2>2 DEF Locals
        <3>2. th' = [th EXCEPT ![t] = l]
            BY <1>1, <2>4 DEF SweepNext
        <3> HIDE DEF l
        <3> QED
            BY <2>1, <2>3, <3>1, <3>2, NoPointer
    <2>5. CASE umap[f] # NoUkey
        <3> DEFINE m == [th[t] EXCEPT !.todo = @ \ {f}]
                   l == [m EXCEPT !.at = "visit", !.flow = f, !.ukey = umap[f]]
        <3>0. umap[f] \in Ukey
            BY <2>5 DEF UkeyInv, UkeyTypeOK
        <3>1. l \in Locals /\ l.at = "visit" /\ l.flow = f /\ l.ukey = umap[f]
            BY <1>0, <3>0 DEF Locals
        <3>2. th' = [th EXCEPT ![t] = l]
            BY <1>1, <2>5 DEF SweepNext
        <3> HIDE DEF l
        <3> QED
            BY <2>1, <2>3, <2>5, <3>1, <3>2, NewPointer
    <2> QED
        BY <2>4, <2>5
<1>2. ASSUME SweepEnd(t)
      PROVE  UkeyInv'
    <2>1. Forward /\ FreedOnce'
        BY <1>0, <1>2, SameUkeys DEF SweepEnd, cache, FreedOnce
    <2>2. Kept(t)
        BY <1>2, Types, KeptBy DEF SweepEnd, cache, tables, Kept
    <2> DEFINE l == [NoLocals EXCEPT !.at = "barrier", !.phase = "sweep"]
    <2>3. l \in Locals /\ l.at = "barrier" /\ l.ukey = NoUkey
        BY NoLocalsType DEF Locals
    <2>4. th' = [th EXCEPT ![t] = NoLocals] \/ th' = [th EXCEPT ![t] = l]
        BY <1>2 DEF SweepEnd
    <2> HIDE DEF l
    <2> QED
        BY <2>1, <2>2, <2>3, <2>4, NoLocalsType, NoPointer
<1> QED
    BY <1>1, <1>2

\* The main thread changes tables, announces it, or starts a purge.
LEMMA MainSteps ==
    ASSUME UkeyInv, Main \in Thread, Change \/ udpif_revalidate \/ Purge
    PROVE  UkeyInv'
<1> USE DEF Place, Quiescent, Keyed, Unkeyed
<1>0. th[Main] \in Locals /\ dp \in [Flow -> Int] /\ tables_version \in Int /\ reval_seq \in Int /\ FreedOnce
    BY Types
<1>1. Forward /\ FreedOnce'
    BY <1>0, SameUkeys DEF Change, udpif_revalidate, Purge, cache, FreedOnce
<1>2. Kept(Main)
    BY <1>0, KeptBy, SMTT(60) DEF Change, udpif_revalidate, Purge, cache, tables, Kept
<1>3. ASSUME Change \/ udpif_revalidate
      PROVE  UkeyInv'
    <2>1. PICK p \in {"announce", "idle"} : th' = [th EXCEPT ![Main] = [th[Main] EXCEPT !.at = p]]
        BY <1>3 DEF Change, udpif_revalidate, Goto
    <2> DEFINE l == [th[Main] EXCEPT !.at = p]
    <2>2. l \in Locals /\ l.at = p /\ l.ukey = th[Main].ukey
        BY <1>0 DEF Locals
    <2>3. th' = [th EXCEPT ![Main] = l]
        BY <2>1
    <2> HIDE DEF l
    <2>4. l.ukey = NoUkey
        BY <1>3, <2>2, AtUnkeyed DEF Change, udpif_revalidate, At
    <2> QED
        BY <1>1, <1>2, <2>2, <2>3, <2>4, NoPointer
<1>4. ASSUME Purge
      PROVE  UkeyInv'
    <2> DEFINE l == [NoLocals EXCEPT !.at = "sweep", !.phase = "purge", !.todo = Flow]
    <2>1. l \in Locals /\ l.at = "sweep" /\ l.ukey = NoUkey
        BY NoLocalsType DEF Locals
    <2>2. th' = [th EXCEPT ![Main] = l] /\ Main \in active'
        BY <1>4 DEF Purge, QuiesceEnd
    <2> HIDE DEF l
    <2> QED
        BY <1>1, <1>2, <2>1, <2>2, NoPointer
<1> QED
    BY <1>3, <1>4

---------------------------------------------------------------------------
(* The umap changes.                                                       *)

\* Thread t puts n, a ukey that was free, or nothing, in the place of f's ukey.
\* That one is deleted and postponed: all threads that may have a pointer to it are
\* active, so that they owe a quiescent state before it is freed.
Replaces(f, n) ==
    /\ umap' = [umap EXCEPT ![f] = n]
    /\ allocated' = IF n = NoUkey THEN allocated ELSE allocated \cup {n}
    /\ ukeys' \in [Ukey -> Members] /\ status' \in [Ukey -> {"idle", "postponed"}]
    /\ owes' \in [Ukey -> SUBSET Thread]
    /\ n # NoUkey => ukeys'[n].state \in {VISIBLE, OPERATIONAL, EVICTING} /\ status'[n] = status[n]
    /\ umap[f] # NoUkey => /\ ukeys'[umap[f]].state = DELETED
                           /\ status'[umap[f]] = "postponed" /\ owes'[umap[f]] = active
    /\ \A u \in Ukey \ {n, umap[f]} : ukeys'[u] = ukeys[u] /\ status'[u] = status[u] /\ owes'[u] = owes[u]
    /\ active' = active /\ UNCHANGED <<dp, tables, trouble>>

\* Such a step preserves the invariant: the deleted ukey stays allocated for the threads
\* that have a pointer to it, and the new one has no pointer but t's.
LEMMA ReplaceStep ==
    ASSUME UkeyInv, NEW t \in Thread, NEW f \in Flow, NEW n \in (Ukey \ allocated) \cup {NoUkey},
           Replaces(f, n), NEW l \in Locals, th' = [th EXCEPT ![t] = l], t \in active,
           \/ l.at = "done" /\ l.ukey = NoUkey
           \/ /\ l.at \in {"put", "del", "mod"} /\ l.ukey = n /\ n # NoUkey /\ l.flow = f
              /\ l.at = "del" => ukeys'[n].state = EVICTING
    PROVE  UkeyInv'
<1> DEFINE v == umap[f]
<1>a. umap' = [umap EXCEPT ![f] = n] /\ allocated' = IF n = NoUkey THEN allocated ELSE allocated \cup {n}
    BY DEF Replaces
<1>b. /\ ukeys' \in [Ukey -> Members] /\ status' \in [Ukey -> {"idle", "postponed"}]
      /\ owes' \in [Ukey -> SUBSET Thread]
    BY DEF Replaces
<1>c. n # NoUkey => ukeys'[n].state \in {VISIBLE, OPERATIONAL, EVICTING} /\ status'[n] = status[n]
    BY DEF Replaces
<1>d. v # NoUkey => ukeys'[v].state = DELETED /\ status'[v] = "postponed" /\ owes'[v] = active
    BY DEF Replaces
<1>e. \A u \in Ukey \ {n, v} : ukeys'[u] = ukeys[u] /\ status'[u] = status[u] /\ owes'[u] = owes[u]
    BY DEF Replaces
<1>f. active' = active /\ UNCHANGED <<dp, tables, trouble>>
    BY DEF Replaces
<1>1. /\ th \in [Thread -> Locals] /\ umap \in [Flow -> Ukey \cup {NoUkey}] /\ allocated \subseteq Ukey
      /\ \A u \in Ukey : ukeys[u].state \in States /\ ukeys'[u].state \in States
      /\ v \in Ukey \cup {NoUkey}
    BY <1>b DEF UkeyInv, UkeyTypeOK, Members, States
<1>2. v # NoUkey => v \in allocated /\ v # n /\ \A g \in Flow \ {f} : umap[g] # v
    BY UkeyAssumption DEF UkeyInv, UmapSound
<1>3. n # NoUkey => n \in Ukey /\ n \notin allocated /\ status[n] # "postponed" /\ \A g \in Flow : umap[g] # n
    BY DEF UkeyInv, UmapSound
<1>4. UkeyTypeOK'
    <2>1. umap' \in [Flow -> Ukey \cup {NoUkey}]
        BY <1>1, <1>a
    <2>2. th' \in [Thread -> Locals]
        BY <1>1
    <2>3. allocated' \subseteq Ukey
        BY <1>1, <1>3, <1>a
    <2> QED
        BY <1>b, <1>f, <2>1, <2>2, <2>3 DEF UkeyInv, UkeyTypeOK, tables
<1>5. umap'[f] = n /\ \A g \in Flow \ {f} : umap'[g] = umap[g]
    BY <1>1, <1>a
<1> HIDE DEF v
<1>6. ASSUME NEW u \in allocated'
      PROVE  IF Ours(u)' THEN ukeys'[u].state \in VISIBLE .. EVICTED
             ELSE ukeys'[u].state = DELETED /\ status'[u] = "postponed"
    <2>0. u \in Ukey /\ u # NoUkey
        BY <1>1, <1>3, <1>a, UkeyAssumption
    <2>1. CASE u = n
        <3>1. Ours(u)'
            BY <1>5, <2>1 DEF Ours
        <3>2. \A s \in {VISIBLE, OPERATIONAL, EVICTING} : s \in VISIBLE .. EVICTED
            BY SMTT(60) DEF VISIBLE, OPERATIONAL, EVICTING, EVICTED
        <3> QED
            BY <1>c, <2>0, <2>1, <3>1, <3>2
    <2>2. CASE u = v
        <3>1. ~Ours(u)'
            BY <1>2, <1>5, <2>0, <2>2 DEF Ours
        <3> QED
            BY <1>d, <2>0, <2>2, <3>1
    <2>3. CASE u # n /\ u # v
        <3>1. u \in allocated
            BY <1>a, <2>3
        <3>2. Ours(u)' <=> Ours(u)
            BY <1>5, <2>3 DEF Ours, v
        <3>3. ukeys'[u] = ukeys[u] /\ status'[u] = status[u]
            BY <1>e, <2>0, <2>3
        <3> QED
            BY <3>1, <3>2, <3>3 DEF UkeyInv, UmapSound
    <2> QED
        BY <2>1, <2>2, <2>3
<1>7. ASSUME NEW g \in Flow, umap'[g] # NoUkey
      PROVE  umap'[g] \in allocated' /\ \A h \in Flow \ {g} : umap'[h] # umap'[g]
    <2>1. CASE g = f
        BY <1>3, <1>5, <1>7, <1>a, <2>1
    <2>2. CASE g # f
        <3>1. umap'[g] = umap[g] /\ umap[g] \in allocated /\ \A h \in Flow \ {g} : umap[h] # umap[g]
            BY <1>5, <1>7, <2>2 DEF UkeyInv, UmapSound
        <3>2. n # umap[g]
            BY <1>3, <1>7, <3>1
        <3> QED
            BY <1>5, <1>a, <3>1, <3>2
    <2> QED
        BY <2>1, <2>2
<1>8. UmapSound'
    BY <1>6, <1>7 DEF UmapSound
<1>9. ASSUME NEW u \in Ukey, status'[u] = "postponed"
      PROVE  u \in allocated' /\ ukeys'[u].state = DELETED
    <2>0. u # NoUkey
        BY UkeyAssumption
    <2>1. CASE u = n
        BY <1>3, <1>9, <1>c, <2>0, <2>1
    <2>2. CASE u = v
        BY <1>2, <1>a, <1>d, <2>0, <2>2
    <2>3. CASE u # n /\ u # v
        BY <1>9, <1>a, <1>e, <2>3 DEF UkeyInv
    <2> QED
        BY <2>1, <2>2, <2>3
<1>10. ASSUME NEW o \in Thread
       PROVE  PlaceOK(o)' /\ PointerOK(o)'
    <2>1. CASE o = t
        <3>1. th'[o] = l
            BY <1>1, <2>1
        <3>2. CASE l.at = "done" /\ l.ukey = NoUkey
            BY <1>f, <2>1, <3>1, <3>2 DEF PlaceOK, PointerOK, Keyed, Unkeyed, Quiescent
        <3>3. CASE /\ l.at \in {"put", "del", "mod"} /\ l.ukey = n /\ n # NoUkey /\ l.flow = f
                   /\ l.at = "del" => ukeys'[n].state = EVICTING
            <4>1. EVICTING >= EVICTING
                BY SMTT(60) DEF EVICTING
            <4>2. l.at \in Keyed /\ l.at \notin {"evict", "remove"}
                BY <3>3 DEF Keyed
            <4>3. PlaceOK(o)'
                BY <1>f, <2>1, <3>1, <3>3, <4>1, <4>2 DEF PlaceOK
            <4>4. PointerOK(o)'
                BY <1>3, <1>5, <1>a, <1>c, <3>1, <3>3, SMTT(60) DEF PointerOK
            <4> QED
                BY <4>3, <4>4
        <3> QED
            BY <3>2, <3>3
    <2>2. CASE o # t
        <3> DEFINE p == th[o].ukey
        <3>1. th'[o] = th[o] /\ PlaceOK(o) /\ PointerOK(o) /\ p \in Ukey \cup {NoUkey}
            BY <1>1, <2>2 DEF UkeyInv, Locals
        <3>2. th[o].at \in {"del", "evict", "remove"} => th[o].at \in Keyed
            BY DEF Keyed
        <3>3. CASE p = NoUkey
            BY <1>f, <3>1, <3>2, <3>3 DEF PlaceOK, PointerOK
        <3>4. CASE p # NoUkey
            <4>1. /\ p \in Ukey /\ p \in allocated /\ p # n /\ p \in allocated' /\ th[o].at \in Keyed
                  /\ o \in active /\ th[o].flow \in Flow
                BY <1>3, <1>a, <3>1, <3>4 DEF PointerOK, PlaceOK, Keyed, Quiescent
            <4>2. CASE p = v
                <5>1. ukeys'[p].state = DELETED /\ o \in owes'[p]
                    BY <1>d, <3>4, <4>1, <4>2
                <5>2. DELETED >= EVICTING /\ DELETED >= EVICTED /\ ~(DELETED < DELETED)
                    BY SMTT(60) DEF EVICTING, EVICTED, DELETED
                <5>3. PlaceOK(o)'
                    BY <1>f, <3>1, <5>1, <5>2 DEF PlaceOK
                <5>4. PointerOK(o)'
                    BY <1>f, <3>1, <4>1, <5>1, <5>2 DEF PointerOK
                <5> QED
                    BY <5>3, <5>4
            <4>3. CASE p # v
                <5>1. ukeys'[p] = ukeys[p] /\ status'[p] = status[p] /\ owes'[p] = owes[p]
                    BY <1>e, <4>1, <4>3
                <5>2. PlaceOK(o)'
                    BY <1>f, <3>1, <5>1 DEF PlaceOK
                <5>3. ukeys[p].state < DELETED => umap'[th[o].flow] = p
                    BY <1>5, <3>1, <3>4, <4>1, <4>3 DEF PointerOK, v
                <5>4. PointerOK(o)'
                    BY <1>f, <3>1, <4>1, <5>1, <5>3 DEF PointerOK
                <5> QED
                    BY <5>2, <5>4
            <4> QED
                BY <4>2, <4>3
        <3> QED
            BY <3>3, <3>4
    <2> QED
        BY <2>1, <2>2
<1>11. FreedOnce'
    BY <1>f DEF UkeyInv, FreedOnce
<1> QED
    BY <1>4, <1>8, <1>9, <1>10, <1>11 DEF UkeyInv

\* The first free of a ukey in the umap.
LEMMA InMap ==
    ASSUME UkeyInv, NEW u \in Ukey, u \in allocated, ukeys[u].state # DELETED
    PROVE  status[u] = "idle"
BY DEF UkeyInv, UkeyTypeOK

\* ukey_install__() and try_ukey_replace() are such a step.
LEMMA InstallReplaces ==
    ASSUME UkeyInv, NEW t \in Thread, NEW f \in Flow, NEW k \in Members,
           k.state \in {VISIBLE, OPERATIONAL, EVICTING}, Install(t, f, k), UNCHANGED <<dp, tables>>
    PROVE  /\ NewUkey \in Ukey \ allocated /\ NewUkey # NoUkey
           /\ Replaces(f, NewUkey) /\ ukeys'[NewUkey] = k
<1> DEFINE n == NewUkey
           v == umap[f]
<1>1. n \in Ukey /\ n \notin allocated /\ n # NoUkey
    <2>1. \E u \in Ukey : u \notin allocated
        BY DEF Install
    <2> QED
        BY <2>1, UkeyAssumption DEF NewUkey
<1>2. /\ umap' = [umap EXCEPT ![f] = n] /\ allocated' = allocated \cup {n}
    BY DEF Install
<1>3. /\ ukeys \in [Ukey -> Members] /\ status \in [Ukey -> {"idle", "postponed"}]
      /\ owes \in [Ukey -> SUBSET Thread] /\ active \subseteq Thread /\ v \in Ukey \cup {NoUkey}
    BY DEF UkeyInv, UkeyTypeOK
<1> HIDE DEF n
<1>4. CASE v = NoUkey
    <2>1. ukeys' = [ukeys EXCEPT ![n] = k] /\ UNCHANGED <<graceVars, trouble>>
        BY <1>4 DEF Install, n
    <2> QED
        BY <1>1, <1>2, <1>3, <1>4, <2>1 DEF Replaces, graceVars, n
<1>5. CASE v # NoUkey
    <2>1. /\ v \in Ukey /\ v \in allocated /\ ukeys[v].state = EVICTED
        BY <1>3, <1>5 DEF UkeyInv, UmapSound, Install, CanInstall
    <2>2. v # n /\ EVICTED # DELETED
        BY <1>1, <2>1, SMTT(60) DEF EVICTED, DELETED
    <2>3. status[v] = "idle"
        BY <2>1, <2>2, InMap
    <2>4. /\ ukeys' = [ukeys EXCEPT ![n] = k, ![v].state = Transition(EVICTED, DELETED)]
          /\ Postpone(t, v) /\ UNCHANGED trouble
        BY <1>5, <2>3 DEF Install, PostponeFree, n
    <2>5. Transition(EVICTED, DELETED) = DELETED /\ DELETED \in States
        BY SMTT(60) DEF Transition, VISIBLE, OPERATIONAL, EVICTING, EVICTED, DELETED, States
    <2> DEFINE d == [ukeys[v] EXCEPT !.state = DELETED]
    <2>6. d \in Members /\ d.state = DELETED
        BY <1>3, <2>1, <2>5 DEF Members, States
    <2>7. ukeys' = [[ukeys EXCEPT ![n] = k] EXCEPT ![v] = d]
        BY <1>1, <1>3, <2>1, <2>2, <2>4, <2>5
    <2> HIDE DEF d
    <2>8. /\ ukeys' \in [Ukey -> Members] /\ ukeys'[n] = k /\ ukeys'[v] = d
          /\ \A u \in Ukey \ {n, v} : ukeys'[u] = ukeys[u]
        BY <1>1, <1>3, <2>1, <2>2, <2>6, <2>7
    <2>9. /\ status' \in [Ukey -> {"idle", "postponed"}] /\ owes' \in [Ukey -> SUBSET Thread] /\ active' = active
          /\ status'[v] = "postponed" /\ owes'[v] = active
          /\ \A u \in Ukey \ {v} : status'[u] = status[u] /\ owes'[u] = owes[u]
        BY <1>3, <2>1, <2>4 DEF Postpone
    <2> QED
        BY <1>1, <1>2, <2>2, <2>4, <2>6, <2>8, <2>9 DEF Replaces, n
<1> QED
    BY <1>4, <1>5

\* A handler installs a ukey for the flow it is about to put.
LEMMA HandlerInstallStep ==
    ASSUME UkeyInv, NEW t \in Thread, HandlerInstall(t)
    PROVE  UkeyInv'
<1> DEFINE k == [state |-> VISIBLE, seq |-> th[t].seq, version |-> th[t].version, dumped |-> FALSE]
           l == [th[t] EXCEPT !.at = "put", !.ukey = NewUkey]
<1>1. th[t] \in Locals /\ th[t].flow \in Flow /\ t \in active
    BY Types, AtUnkeyed DEF HandlerInstall, At, Keyed, Unkeyed, Quiescent
<1>2. k \in Members /\ k.state \in {VISIBLE, OPERATIONAL, EVICTING}
    BY <1>1 DEF Members, Locals
<1>3. Install(t, th[t].flow, k) /\ UNCHANGED <<dp, tables>> /\ th' = [th EXCEPT ![t] = l]
    BY DEF HandlerInstall
<1> HIDE DEF k
<1>4. NewUkey \in Ukey \ allocated /\ NewUkey # NoUkey /\ Replaces(th[t].flow, NewUkey)
    BY <1>1, <1>2, <1>3, InstallReplaces
<1>5. l \in Locals /\ l.at = "put" /\ l.ukey = NewUkey /\ l.flow = th[t].flow
    BY <1>1, <1>4 DEF Locals, Place, Keyed
<1> HIDE DEF l
<1> QED
    BY <1>1, <1>3, <1>4, <1>5, ReplaceStep

\* A revalidator makes a ukey for a flow of the datapath that has none, or fails to.
LEMMA CreateStep ==
    ASSUME UkeyInv, NEW r \in Thread, Create(r)
    PROVE  UkeyInv'
<1> DEFINE f == th[r].flow
           k(v) == [state |-> VISIBLE, seq |-> reval_seq - 1, version |-> v, dumped |-> FALSE]
<1>1. /\ th[r] \in Locals /\ f \in Flow /\ r \in active /\ dp \in [Flow -> Int] /\ reval_seq \in Int
      /\ th[r].seq \in Int /\ th[r].version \in Int /\ FreedOnce
    BY Types, AtUnkeyed DEF Create, At, Keyed, Unkeyed, Quiescent, Locals
<1>2. UNCHANGED <<dp, tables>>
    BY DEF Create
<1>3. ASSUME NEW v \in {th[r].version, dp[f]} \ {NoFlow}, NEW o \in Revalidated(Dumped(k(v)), th[r].seq),
             Install(r, f, o.ukey), GoOn(r, NewUkey, o)
      PROVE  UkeyInv'
    <2>1. k(v) \in Members /\ k(v).state = VISIBLE
        <3>1. v \in Int /\ reval_seq - 1 \in Int
            BY <1>1, SMTT(60)
        <3> QED
            BY <3>1 DEF Members
    <2>2. Dumped(k(v)) \in Members /\ Dumped(k(v)).state = OPERATIONAL
        <3> HIDE DEF k
        <3> QED
            BY <2>1, DumpedType
    <2> DEFINE m == Dumped(k(v))
    <2>3. m \in Members /\ m.state \in {VISIBLE, OPERATIONAL} /\ o \in Revalidated(m, th[r].seq)
        BY <2>2
    <2> HIDE DEF m
    <2>4. /\ o.ukey \in Members /\ o.ukey.version \in Int /\ o.ukey.state \in States
          /\ o.ukey.state >= m.state /\ o.ukey.state # DELETED
          /\ o.op \in {"del", "mod", "done"}
          /\ o.op = "del" => o.ukey.state = EVICTING
          /\ o.ukey.state \in {m.state, EVICTING}
        BY <1>1, <2>3, RevalidatedType
    <2>5. o.ukey.state \in {VISIBLE, OPERATIONAL, EVICTING}
        BY <2>3, <2>4
    <2> DEFINE n == NewUkey
               x == IF o.op = "done" THEN NoUkey ELSE n
               l == [th[r] EXCEPT !.at = o.op, !.version = o.ukey.version, !.ukey = x]
    <2>6. n \in Ukey \ allocated /\ n # NoUkey /\ Replaces(f, n) /\ ukeys'[n] = o.ukey
        BY <1>1, <1>2, <1>3, <2>4, <2>5, InstallReplaces
    <2>7. th' = [th EXCEPT ![r] = l]
        BY <1>3 DEF GoOn
    <2> HIDE DEF n
    <2>8. x \in Ukey \cup {NoUkey}
        BY <2>6
    <2>9. l \in Locals /\ l.at = o.op /\ l.ukey = x /\ l.flow = f
        <3> DEFINE ver == o.ukey.version
                   p == o.op
        <3>1. ver \in Int /\ p \in {"del", "mod", "done"}
            BY <2>4
        <3> HIDE DEF x, ver, p
        <3>2. [th[r] EXCEPT !.at = p, !.version = ver, !.ukey = x] \in Locals
            BY <1>1, <2>8, <3>1, GoOnType
        <3>3. LET y == [th[r] EXCEPT !.at = p, !.version = ver, !.ukey = x]
              IN y.at = p /\ y.ukey = x /\ y.flow = th[r].flow
            BY <1>1 DEF Locals
        <3> QED
            BY <3>2, <3>3 DEF ver, p
    <2> HIDE DEF l
    <2>10. CASE o.op = "done"
        BY <1>1, <2>6, <2>7, <2>9, <2>10, ReplaceStep
    <2>11. CASE o.op # "done"
        <3>1. l.at \in {"put", "del", "mod"} /\ l.ukey = n /\ (l.at = "del" => ukeys'[n].state = EVICTING)
            BY <2>4, <2>6, <2>9, <2>11
        <3> QED
            BY <1>1, <2>6, <2>7, <2>9, <3>1, ReplaceStep
    <2> QED
        BY <2>10, <2>11
<1>4. CASE Clear(r, "done") /\ UNCHANGED <<cache, trouble, graceVars>>
    <2> DEFINE l == [th[r] EXCEPT !.at = "done", !.flow = NoUkey, !.ukey = NoUkey, !.version = 0, !.error = FALSE]
    <2>1. l \in Locals /\ l.at = "done" /\ l.ukey = NoUkey
        BY <1>1, ClearedType DEF Place
    <2>2. th' = [th EXCEPT ![r] = l]
        BY <1>4 DEF Clear
    <2> HIDE DEF l
    <2>3. Forward /\ FreedOnce'
        BY <1>1, <1>4, SameUkeys DEF cache, FreedOnce
    <2>4. Kept(r) /\ r \in active'
        BY <1>1, <1>2, <1>4, Types, KeptBy DEF cache, tables, Kept, graceVars
    <2> QED
        BY <2>1, <2>2, <2>3, <2>4, NoPointer DEF Keyed, Unkeyed
<1> QED
    BY <1>3, <1>4 DEF Create

\* push_ukey_ops() takes a ukey out of the umap and frees it later.
LEMMA RemoveStep ==
    ASSUME UkeyInv, NEW t \in Thread, Remove(t)
    PROVE  UkeyInv'
<1> DEFINE u == th[t].ukey
           f == th[t].flow
           l == [th[t] EXCEPT !.at = "done", !.flow = NoUkey, !.ukey = NoUkey, !.version = 0, !.error = FALSE]
<1>1. /\ th[t] \in Locals /\ f \in Flow /\ u \in Ukey /\ t \in active /\ ukeys[u].state \in States
      /\ th[t].at = "remove" /\ FreedOnce
    BY Types, AtKeyed DEF Remove, At, Keyed
<1>2. l \in Locals /\ l.at = "done" /\ l.ukey = NoUkey
    BY <1>1, ClearedType DEF Place
<1>3. th' = [th EXCEPT ![t] = l] /\ UNCHANGED <<dp, allocated, tables>> /\ ukey_delete(t, f, u)
    BY DEF Remove, Clear
<1> HIDE DEF l
<1>4. CASE ukeys[u].state < DELETED
    <2>1. /\ ukeys[u].state = EVICTED /\ umap[f] = u /\ u \in allocated /\ u # NoUkey
        <3>1. ukeys[u].state >= EVICTED /\ PointerOK(t) /\ u # NoUkey
            BY <1>1, UkeyAssumption DEF UkeyInv, PlaceOK
        <3>2. ukeys[u].state = EVICTED
            BY <1>1, <1>4, <3>1, SMTT(60) DEF States, VISIBLE, OPERATIONAL, EVICTING, EVICTED, DELETED
        <3> QED
            BY <1>4, <3>1, <3>2 DEF PointerOK
    <2>2. status[u] = "idle"
        BY <1>1, <2>1, InMap, SMTT(60) DEF EVICTED, DELETED
    <2>3. /\ umap' = [umap EXCEPT ![f] = NoUkey] /\ Postpone(t, u) /\ UNCHANGED trouble
          /\ ukeys' = [ukeys EXCEPT ![u].state = Transition(@, DELETED)]
        BY <1>3, <1>4, <2>2 DEF ukey_delete, PostponeFree
    <2>4. Transition(EVICTED, DELETED) = DELETED /\ DELETED \in States
        BY SMTT(60) DEF Transition, VISIBLE, OPERATIONAL, EVICTING, EVICTED, DELETED, States
    <2> DEFINE d == [ukeys[u] EXCEPT !.state = DELETED]
    <2>5. ukeys \in [Ukey -> Members] /\ d \in Members /\ d.state = DELETED
        BY <1>1, <2>4, Types DEF Members, States
    <2>6. ukeys' = [ukeys EXCEPT ![u] = d]
        BY <2>1, <2>3, <2>4
    <2> HIDE DEF d
    <2>7. ukeys' \in [Ukey -> Members] /\ ukeys'[u] = d /\ \A w \in Ukey \ {u} : ukeys'[w] = ukeys[w]
        BY <1>1, <2>5, <2>6
    <2>8. /\ status' \in [Ukey -> {"idle", "postponed"}] /\ owes' \in [Ukey -> SUBSET Thread] /\ active' = active
          /\ status'[u] = "postponed" /\ owes'[u] = active
          /\ \A w \in Ukey \ {u} : status'[w] = status[w] /\ owes'[w] = owes[w]
        BY <1>1, <2>3 DEF Postpone, UkeyInv, UkeyTypeOK
    <2>9. Replaces(f, NoUkey)
        BY <1>3, <2>1, <2>3, <2>5, <2>7, <2>8 DEF Replaces
    <2> QED
        BY <1>1, <1>2, <1>3, <2>9, ReplaceStep
<1>5. CASE ~(ukeys[u].state < DELETED)
    <2>1. UNCHANGED <<umap, ukeys, trouble, graceVars>>
        BY <1>3, <1>5 DEF ukey_delete
    <2>2. Forward /\ FreedOnce'
        BY <1>1, <2>1, SameUkeys DEF FreedOnce
    <2>3. Kept(t) /\ t \in active'
        BY <1>1, <1>3, <2>1, Types, KeptBy DEF tables, Kept, graceVars
    <2> QED
        BY <1>2, <1>3, <2>2, <2>3, NoPointer DEF Keyed, Unkeyed
<1> QED
    BY <1>4, <1>5

\* ukey_delete__(): nobody owes a quiescent state, so nobody has a pointer.
LEMMA FreeStep ==
    ASSUME UkeyInv, NEW u \in Ukey, Free(u)
    PROVE  UkeyInv'
<1>1. /\ status[u] = "postponed" /\ owes[u] = {} /\ status' = [status EXCEPT ![u] = "idle"]
      /\ active' = active /\ owes' = owes /\ th' = th /\ umap' = umap /\ trouble' = trouble
      /\ allocated' = allocated \ {u} /\ ukeys' = [ukeys EXCEPT ![u] = NoMembers]
      /\ dp' = dp /\ tables_version' = tables_version /\ reval_seq' = reval_seq
    BY DEF Free, Call, tables
<1>2. u \in allocated /\ ukeys[u].state = DELETED
    BY <1>1 DEF UkeyInv
<1>3. \A g \in Flow : umap[g] # u
    <2>1. ~(DELETED \in VISIBLE .. EVICTED)
        BY SMTT(60) DEF VISIBLE, EVICTED, DELETED
    <2> QED
        BY <1>2, <2>1 DEF UkeyInv, UmapSound, Ours
<1>4. NoMembers \in Members
    BY SMTT(60) DEF NoMembers, Members
<1>5. UkeyTypeOK'
    BY <1>1, <1>4 DEF UkeyInv, UkeyTypeOK
<1>6. /\ \A w \in Ukey \ {u} : ukeys'[w] = ukeys[w] /\ status'[w] = status[w]
      /\ status'[u] = "idle" /\ allocated \subseteq Ukey
    BY <1>1 DEF UkeyInv, UkeyTypeOK
<1>7. UmapSound'
    <2>1. \A w \in allocated' : Ours(w)' <=> Ours(w)
        BY <1>1 DEF Ours
    <2>2. \A w \in allocated' : IF Ours(w)' THEN ukeys'[w].state \in VISIBLE .. EVICTED
                                ELSE ukeys'[w].state = DELETED /\ status'[w] = "postponed"
        BY <1>1, <1>6, <2>1 DEF UkeyInv, UmapSound
    <2>3. \A g \in Flow : umap'[g] # NoUkey =>
             umap'[g] \in allocated' /\ \A h \in Flow \ {g} : umap'[h] # umap'[g]
        BY <1>1, <1>3 DEF UkeyInv, UmapSound
    <2> QED
        BY <2>2, <2>3 DEF UmapSound
<1>8. \A w \in Ukey : status'[w] = "postponed" => w \in allocated' /\ ukeys'[w].state = DELETED
    BY <1>1, <1>6 DEF UkeyInv
<1>9. ASSUME NEW o \in Thread
      PROVE  PlaceOK(o)' /\ PointerOK(o)'
    <2>1. PlaceOK(o) /\ PointerOK(o) /\ th[o].ukey \in Ukey \cup {NoUkey}
        BY DEF UkeyInv, UkeyTypeOK, Locals
    <2>2. th[o].ukey # u
        BY <1>1, <2>1, UkeyAssumption DEF PointerOK
    <2>3. th[o].at \in {"del", "evict", "remove"} => th[o].at \in Keyed
        BY DEF Keyed
    <2>4. th[o].ukey # NoUkey => ukeys'[th[o].ukey] = ukeys[th[o].ukey] /\ status'[th[o].ukey] = status[th[o].ukey]
        BY <1>6, <2>1, <2>2
    <2>5. PlaceOK(o)'
        BY <1>1, <2>1, <2>3, <2>4 DEF PlaceOK
    <2>6. PointerOK(o)'
        BY <1>1, <2>1, <2>2, <2>4 DEF PointerOK
    <2> QED
        BY <2>5, <2>6
<1>10. FreedOnce'
    BY <1>1 DEF UkeyInv, FreedOnce
<1> QED
    BY <1>5, <1>7, <1>8, <1>9, <1>10 DEF UkeyInv

---------------------------------------------------------------------------

\* What the threads know of the ukeys that they use outside the locks, in every
\* interleaving of handlers, revalidators, purges and RCU.
THEOREM UkeyInvariant == Spec => []UkeyInv
<1>1. Init => UkeyInv
    <2> SUFFICES ASSUME Init
                 PROVE  UkeyInv
        OBVIOUS
    <2>1. NoMembers \in Members
        BY SMTT(60) DEF NoMembers, Members
    <2>2. ASSUME NEW t \in Thread
          PROVE  th[t] \in Locals /\ th[t].ukey = NoUkey /\ th[t].at \in Quiescent
        <3>1. CASE t \notin Revalidator
            BY <3>1, NoLocalsType DEF Init, Quiescent
        <3>2. CASE t \in Revalidator
            <4> DEFINE a == IF t = Leader THEN "lead" ELSE "barrier"
                       l == [NoLocals EXCEPT !.at = a, !.phase = "rest"]
            <4>1. a \in Quiescent /\ a \in Place
                BY DEF Quiescent, Place
            <4>2. th[t] = l
                BY <3>2 DEF Init
            <4> HIDE DEF a
            <4>3. l \in Locals /\ l.at = a /\ l.ukey = NoUkey
                BY <4>1, NoLocalsType DEF Locals
            <4> QED
                BY <4>1, <4>2, <4>3
        <3> QED
            BY <3>1, <3>2
    <2>3. UkeyTypeOK
        <3>1. th \in [Thread -> Locals]
            BY <2>2 DEF Init
        <3>2. dp \in [Flow -> Int]
            <4>1. dp \in [Flow -> {NoFlow, 0}]
                BY DEF Init
            <4>2. NoFlow \in Int /\ 0 \in Int
                BY SMTT(60) DEF NoFlow
            <4> QED
                BY <4>1, <4>2
        <3>3. tables_version \in Int /\ reval_seq \in Int
            <4>1. tables_version = 1 /\ reval_seq = 1
                BY DEF Init
            <4> QED
                BY <4>1, SMTT(60)
        <3>4. umap \in [Flow -> Ukey \cup {NoUkey}] /\ ukeys \in [Ukey -> Members] /\ allocated \subseteq Ukey
            BY <2>1 DEF Init
        <3>5. /\ active \subseteq Thread /\ owes \in [Ukey -> SUBSET Thread]
              /\ status \in [Ukey -> {"idle", "postponed"}]
            BY DEF Init, GraceInit, Ukey
        <3> QED
            BY <3>1, <3>2, <3>3, <3>4, <3>5 DEF UkeyTypeOK
    <2>4. UmapSound /\ FreedOnce
        BY DEF Init, UmapSound, FreedOnce
    <2>5. \A u \in Ukey : status[u] # "postponed"
        BY DEF Init, GraceInit, Ukey
    <2>6. \A t \in Thread : PlaceOK(t) /\ PointerOK(t)
        BY <2>2 DEF PlaceOK, PointerOK, Quiescent, Keyed, Unkeyed
    <2> QED
        BY <2>3, <2>4, <2>5, <2>6 DEF UkeyInv
<1>2. UkeyInv /\ [Next]_vars => UkeyInv'
    <2> SUFFICES ASSUME UkeyInv, [Next]_vars
                 PROVE  UkeyInv'
        OBVIOUS
    <2>0. /\ \A t \in Handler : t \in Thread
          /\ \A r \in Revalidator : r \in Thread
          /\ Main \in Thread
        BY ThreadAssumption
    <2>1. ASSUME NEW t \in Thread, SweepStep(t)
          PROVE  UkeyInv'
        BY <2>1, SweepSteps, VisitStep, OpSteps, RemoveStep DEF SweepStep, OpStep
    <2>2. ASSUME UNCHANGED <<dp, cache, tables, th, trouble, graceVars>>
          PROVE  UkeyInv'
        BY <2>2 DEF UkeyInv, UkeyTypeOK, UmapSound, Ours, FreedOnce, PlaceOK, PointerOK,
                    cache, tables, graceVars
    <2>3. ASSUME NEW t \in Handler, HandlerStep(t)
          PROVE  UkeyInv'
        BY <2>0, <2>3, HandlerSteps, HandlerInstallStep, HandlerTransitionStep DEF HandlerStep
    <2>4. ASSUME NEW r \in Revalidator, DumpStep(r)
          PROVE  UkeyInv'
        <3>1. CASE \E f \in Flow : DumpLost(r, f)
            BY <2>2, <3>1 DEF DumpLost
        <3>2. CASE (\E f \in Flow : DumpNext(r, f)) \/ DumpEnd(r) \/ Lookup(r)
            BY <2>0, <3>2, DumpSteps
        <3> QED
            BY <2>0, <2>4, <3>1, <3>2, DecideStep, CreateStep DEF DumpStep
    <2>5. ASSUME NEW r \in Revalidator, RevalidatorStep(r)
          PROVE  UkeyInv'
        BY <2>0, <2>1, <2>4, <2>5, LeadStep, BarrierStep DEF RevalidatorStep
    <2>6. CASE MainStep \/ Change \/ Purge
        BY <2>0, <2>1, <2>6, MainSteps DEF MainStep
    <2>7. CASE \E f \in Flow : Packet(f)
        BY <2>2, <2>7 DEF Packet
    <2>8. CASE \E u \in Ukey : Free(u)
        BY <2>8, FreeStep
    <2>9. CASE UNCHANGED vars
        BY <2>2, <2>9 DEF vars
    <2> QED
        BY <2>3, <2>5, <2>6, <2>7, <2>8, <2>9 DEF Next
<1> QED
    BY <1>1, <1>2, PTL DEF Spec

\* No thread has a pointer to a ukey that ukey_delete__() has freed, for any number
\* of handlers, revalidators, flows and ukeys.
THEOREM UkeysAllocatedHolds == Spec => []UkeysAllocated
<1>1. UkeyInv => UkeysAllocated
    BY DEF UkeyInv, PointerOK, UkeysAllocated
<1> QED
    BY <1>1, UkeyInvariant, PTL

\* The umap has just the ukeys that are not deleted, each under one flow, and every
\* other one is on its way to be freed.
THEOREM UmapSoundHolds == Spec => []UmapSound
<1>1. UkeyInv => UmapSound
    BY DEF UkeyInv
<1> QED
    BY <1>1, UkeyInvariant, PTL
=============================================================================
