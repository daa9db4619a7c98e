------------------------------- MODULE OvsRcu -------------------------------
(***************************************************************************)
(* Read-copy-update of lib/ovs-rcu.c.  Threads register themselves with a  *)
(* sequence number (ovsrcu_perthread_get()), renew it when they quiesce,   *)
(* and leave the list of threads for longer quiescent states.  Callbacks   *)
(* go to a set of the thread that postpones them, from there, when it      *)
(* quiesces, to the global list flushed_cbsets, and the thread "urcu"      *)
(* takes them from the list, waits for a grace period and calls them.      *)
(*                                                                         *)
(* A step is one critical section of seq_mutex, ovsrcu_threads_mutex or    *)
(* the mutex of flushed_cbsets.                                            *)
(***************************************************************************)
EXTENDS Naturals, Sequences, OvsSeq, Bounds

CONSTANTS
    Worker,       \* the threads that use RCU
    Urcu,         \* the thread that calls the callbacks
    MaxCallback   \* bound: callbacks postponed in all

\* The kinds of events that the Budgets bound: "end", of a longer quiescent state,
\* "quiesce", a momentary one, "postpone".

ASSUME WorkerAssumption == Urcu \notin Worker
ASSUME BoundAssumption == MaxCallback \in Nat

VARIABLES
    place,         \* place[t]: where thread t is
    then,          \* then[t]: where it goes after flushing or (un)registering
    seqno,         \* seqno[t]: perthread->seqno
    cbset,         \* cbset[t]: perthread->cbset, the callbacks in order
    threads,       \* ovsrcu_threads: the registered threads
    global_seqno, flushed_cbsets_seq,   \* the two seqs
    flushed_cbsets,                     \* the callbacks of all flushed sets, in order
    urcu,          \* locals of the postpone thread
    active, owes,  \* as in Grace: a record of who must quiesce, not in the code
    poster,        \* poster[c]: the thread that postponed callback c; they are numbered
    called         \* the callbacks called, in order

rcu == <<threads, global_seqno, flushed_cbsets_seq, flushed_cbsets>>
grace == <<active, owes>>
rcuOnly == <<place, then, seqno, cbset, rcu, urcu, grace, poster, called>>
rcuVars == <<rcuOnly, awake, budget>>

Thread == Worker \cup {Urcu}
Callback == 1 .. MaxCallback
n_cbs == Len(poster)

Goto(t, p) == place' = [place EXCEPT ![t] = p]
Wake(q) == awake' = awake \cup seq_wake_waiters(q)

\* Thread t is in a quiescent state: it owes nothing to any callback.
Quiesced(t) == owes' = [c \in Callback |-> owes[c] \ {t}]

---------------------------------------------------------------------------
(* Any thread.                                                             *)

\* ovsrcu_perthread_get(), called by ovsrcu_quiesce_end(): the sequence number
\* is read first, the thread enters the list after that.
Enter(t, next) ==
    /\ seqno' = [seqno EXCEPT ![t] = global_seqno.value]
    /\ Goto(t, "register")
    /\ then' = [then EXCEPT ![t] = next]

Register(t) ==
    /\ place[t] = "register"
    /\ threads' = threads \cup {t}
    /\ active' = active \cup {t}
    /\ Goto(t, then[t])
    /\ UNCHANGED <<then, seqno, cbset, global_seqno, flushed_cbsets_seq, flushed_cbsets, urcu, awake,
                   owes, poster, called, budget>>

\* ovsrcu_quiesce_start(): from here the thread is quiescent.
Leave(t, next) ==
    /\ active' = active \ {t}
    /\ Quiesced(t)
    /\ Goto(t, "flush")
    /\ then' = [then EXCEPT ![t] = next]

\* What follows ovsrcu_flush_cbset() in ovsrcu_quiesce() and ovsrcu_unregister__().
After(t) == IF then[t] = "quiesce" THEN "change" ELSE "remove"

\* Mutant: the set goes before those that were flushed earlier.
FlushesFirst(t) ==
    /\ place[t] = "flush"
    /\ flushed_cbsets' = cbset[t] \o flushed_cbsets
    /\ cbset' = [cbset EXCEPT ![t] = <<>>]
    /\ Goto(t, IF cbset[t] = <<>> THEN After(t) ELSE "flushed")
    /\ UNCHANGED <<then, seqno, threads, global_seqno, flushed_cbsets_seq, urcu, awake, grace,
                   poster, called, budget>>

\* ovsrcu_flush_cbset().
Flush(t) ==
    /\ place[t] = "flush"
    /\ flushed_cbsets' = flushed_cbsets \o cbset[t]
    /\ cbset' = [cbset EXCEPT ![t] = <<>>]
    /\ Goto(t, IF cbset[t] = <<>> THEN After(t) ELSE "flushed")
    /\ UNCHANGED <<then, seqno, threads, global_seqno, flushed_cbsets_seq, urcu, awake, grace,
                   poster, called, budget>>

FlushChange(t) ==
    /\ place[t] = "flushed"
    /\ flushed_cbsets_seq' = seq_change(flushed_cbsets_seq)
    /\ Wake(flushed_cbsets_seq)
    /\ Goto(t, After(t))
    /\ UNCHANGED <<then, seqno, cbset, threads, global_seqno, flushed_cbsets, urcu, grace,
                   poster, called, budget>>

\* ovsrcu_unregister__().
Remove(t) ==
    /\ place[t] = "remove"
    /\ threads' = threads \ {t}
    /\ Goto(t, "change")
    /\ UNCHANGED <<then, seqno, cbset, global_seqno, flushed_cbsets_seq, flushed_cbsets, urcu, awake,
                   grace, poster, called, budget>>

\* Mutant: the change is not announced.
ChangesSilently(t) ==
    /\ place[t] = "change"
    /\ Goto(t, IF then[t] = "quiesce" THEN "in" ELSE then[t])
    /\ UNCHANGED <<then, seqno, cbset, rcu, urcu, awake, grace, poster, called, budget>>

\* The seq_change() at the end of both.
GlobalChange(t) ==
    /\ place[t] = "change"
    /\ global_seqno' = seq_change(global_seqno)
    /\ Wake(global_seqno)
    /\ Goto(t, IF then[t] = "quiesce" THEN "in" ELSE then[t])
    /\ UNCHANGED <<then, seqno, cbset, threads, flushed_cbsets_seq, flushed_cbsets, urcu, grace,
                   poster, called, budget>>

---------------------------------------------------------------------------
(* Workers.                                                                *)

WorkerEnd(t) ==
    /\ place[t] = "out"
    /\ Spend("end")
    /\ Enter(t, "in")
    /\ UNCHANGED <<cbset, rcu, urcu, awake, grace, poster, called>>

WorkerStart(t) ==
    /\ place[t] = "in"
    /\ Leave(t, "out")
    /\ UNCHANGED <<seqno, cbset, rcu, urcu, awake, poster, called, budget>>

\* ovsrcu_quiesce(): the number is read before the callbacks are flushed.
WorkerQuiesce(t) ==
    /\ place[t] = "in"
    /\ Spend("quiesce")
    /\ seqno' = [seqno EXCEPT ![t] = global_seqno.value]
    /\ Quiesced(t)
    /\ Goto(t, "flush")
    /\ then' = [then EXCEPT ![t] = "quiesce"]
    /\ UNCHANGED <<cbset, rcu, urcu, awake, active, poster, called>>

\* ovsrcu_try_quiesce(), when it gets seq_mutex: all of it in one go.
WorkerTryQuiesce(t) ==
    /\ place[t] = "in"
    /\ Spend("quiesce")
    /\ seqno' = [seqno EXCEPT ![t] = global_seqno.value]
    /\ Quiesced(t)
    /\ flushed_cbsets' = flushed_cbsets \o cbset[t]
    /\ cbset' = [cbset EXCEPT ![t] = <<>>]
    /\ flushed_cbsets_seq' = IF cbset[t] = <<>> THEN flushed_cbsets_seq ELSE seq_change(flushed_cbsets_seq)
    /\ global_seqno' = seq_change(global_seqno)
    /\ awake' = awake \cup seq_wake_waiters(global_seqno)
                      \cup (IF cbset[t] = <<>> THEN {} ELSE seq_wake_waiters(flushed_cbsets_seq))
    /\ UNCHANGED <<place, then, threads, urcu, active, poster, called>>

\* ovsrcu_postpone__().
WorkerPostpone(t) ==
    /\ place[t] = "in"
    /\ n_cbs < MaxCallback
    /\ Spend("postpone")
    /\ poster' = Append(poster, t)
    /\ cbset' = [cbset EXCEPT ![t] = Append(@, n_cbs + 1)]
    /\ owes' = [owes EXCEPT ![n_cbs + 1] = active]
    /\ UNCHANGED <<place, then, seqno, rcu, urcu, awake, active, called>>

---------------------------------------------------------------------------
(* ovsrcu_postpone_thread().                                               *)

UrcuAt(p) == place[Urcu] = p
Locals == UNCHANGED <<then, seqno, cbset, poster, called, budget>>

UrcuRead ==
    /\ UrcuAt("loop")
    /\ urcu' = [urcu EXCEPT !.flushed = flushed_cbsets_seq.value]
    /\ Goto(Urcu, "pop")
    /\ Locals /\ UNCHANGED <<rcu, awake, grace>>

\* guarded_list_pop_all() in ovsrcu_call_postponed().
UrcuPop ==
    /\ UrcuAt("pop")
    /\ urcu' = [urcu EXCEPT !.cbs = flushed_cbsets]
    /\ flushed_cbsets' = <<>>
    /\ Goto(Urcu, IF flushed_cbsets = <<>> THEN "idle" ELSE "target")
    /\ Locals /\ UNCHANGED <<threads, global_seqno, flushed_cbsets_seq, awake, grace>>

\* Nothing to call: seq_wait(), and poll_block(), which is a quiescent state.
UrcuIdle ==
    /\ UrcuAt("idle")
    /\ flushed_cbsets_seq' = seq_wait(flushed_cbsets_seq, urcu.flushed, Urcu)
    /\ awake' = awake \cup Changed(flushed_cbsets_seq, urcu.flushed, Urcu)
    /\ IF Urcu \in threads THEN Leave(Urcu, "sleep")
       ELSE Goto(Urcu, "sleep") /\ UNCHANGED <<then, grace>>
    /\ UNCHANGED <<seqno, cbset, threads, global_seqno, flushed_cbsets, urcu, poster, called, budget>>

UrcuSleep ==
    /\ UrcuAt("sleep")
    /\ Urcu \in awake
    /\ awake' = awake \ {Urcu}
    /\ flushed_cbsets_seq' = seq_woke(flushed_cbsets_seq, Urcu)
    /\ Enter(Urcu, "loop")
    /\ UNCHANGED <<cbset, threads, global_seqno, flushed_cbsets, urcu, grace, poster, called, budget>>

\* ovsrcu_synchronize(): the target, and a quiescent state of our own.
UrcuTarget ==
    /\ UrcuAt("target")
    /\ urcu' = [urcu EXCEPT !.target = global_seqno.value]
    /\ IF Urcu \in threads THEN Leave(Urcu, "current")
       ELSE Goto(Urcu, "current") /\ UNCHANGED <<then, grace>>
    /\ UNCHANGED <<seqno, cbset, rcu, awake, poster, called, budget>>

UrcuCurrent ==
    /\ UrcuAt("current")
    /\ urcu' = [urcu EXCEPT !.cur = global_seqno.value]
    /\ Goto(Urcu, "scan")
    /\ Locals /\ UNCHANGED <<rcu, awake, grace>>

\* Mutant: a thread that quiesced at the target counts as done.
ScansBelow ==
    /\ UrcuAt("scan")
    /\ Goto(Urcu, IF \E t \in threads : seqno[t] < urcu.target THEN "wait" ELSE "end")
    /\ Locals /\ UNCHANGED <<rcu, urcu, awake, grace>>

UrcuScan ==
    /\ UrcuAt("scan")
    /\ Goto(Urcu, IF \E t \in threads : seqno[t] <= urcu.target THEN "wait" ELSE "end")
    /\ Locals /\ UNCHANGED <<rcu, urcu, awake, grace>>

UrcuWait ==
    /\ UrcuAt("wait")
    /\ global_seqno' = seq_wait(global_seqno, urcu.cur, Urcu)
    /\ awake' = awake \cup Changed(global_seqno, urcu.cur, Urcu)
    /\ Goto(Urcu, "block")
    /\ Locals /\ UNCHANGED <<threads, flushed_cbsets_seq, flushed_cbsets, urcu, grace>>

UrcuBlock ==
    /\ UrcuAt("block")
    /\ Urcu \in awake
    /\ awake' = awake \ {Urcu}
    /\ global_seqno' = seq_woke(global_seqno, Urcu)
    /\ Goto(Urcu, "current")
    /\ Locals /\ UNCHANGED <<threads, flushed_cbsets_seq, flushed_cbsets, urcu, grace>>

UrcuEnd ==
    /\ UrcuAt("end")
    /\ Enter(Urcu, "call")
    /\ UNCHANGED <<cbset, rcu, urcu, awake, grace, poster, called, budget>>

\* Mutant: the callbacks are called last in, first out.
CallsLast ==
    /\ UrcuAt("call")
    /\ IF urcu.cbs = <<>> THEN Goto(Urcu, "loop") /\ UNCHANGED <<urcu, called>>
       ELSE /\ called' = Append(called, urcu.cbs[Len(urcu.cbs)])
            /\ urcu' = [urcu EXCEPT !.cbs = SubSeq(@, 1, Len(@) - 1)]
            /\ UNCHANGED place
    /\ UNCHANGED <<then, seqno, cbset, rcu, awake, grace, poster, budget>>

UrcuCall ==
    /\ UrcuAt("call")
    /\ IF urcu.cbs = <<>> THEN Goto(Urcu, "loop") /\ UNCHANGED <<urcu, called>>
       ELSE /\ called' = Append(called, Head(urcu.cbs))
            /\ urcu' = [urcu EXCEPT !.cbs = Tail(@)]
            /\ UNCHANGED place
    /\ UNCHANGED <<then, seqno, cbset, rcu, awake, grace, poster, budget>>

---------------------------------------------------------------------------

RcuInit ==
    /\ place = [t \in Thread |-> IF t = Urcu THEN "loop" ELSE "out"]
    /\ then = [t \in Thread |-> "out"]
    /\ seqno = [t \in Thread |-> 0]
    /\ cbset = [t \in Thread |-> <<>>]
    /\ threads = {}
    /\ global_seqno = seq_create
    /\ flushed_cbsets_seq = seq_create
    /\ flushed_cbsets = <<>>
    /\ urcu = [flushed |-> 0, cbs |-> <<>>, target |-> 0, cur |-> 0]
    /\ awake = {}
    /\ active = {}
    /\ owes = [c \in Callback |-> {}]
    /\ poster = <<>>
    /\ called = <<>>
    /\ budget \in Budgets

Inner(t) == Register(t) \/ Flush(t) \/ FlushChange(t) \/ Remove(t) \/ GlobalChange(t)
UrcuStep == \/ UrcuRead \/ UrcuPop \/ UrcuIdle \/ UrcuSleep \/ UrcuTarget \/ UrcuCurrent \/ UrcuScan
            \/ UrcuWait \/ UrcuBlock \/ UrcuEnd \/ UrcuCall
WorkerStep(t) == WorkerEnd(t) \/ WorkerQuiesce(t) \/ WorkerTryQuiesce(t) \/ WorkerPostpone(t)

RcuStep == UrcuStep \/ (\E t \in Thread : Inner(t)) \/ (\E t \in Worker : WorkerStart(t))

RcuNext == RcuStep \/ \E t \in Worker : WorkerStep(t)

RcuSpec == RcuInit /\ [][RcuNext]_rcuVars

\* As long as a thread can go on, the scheduler runs one of them, and no worker
\* stays outside a quiescent state for ever: its main loop calls poll_block().
RcuFairness == WF_rcuVars(RcuStep)

---------------------------------------------------------------------------
(* Properties.                                                             *)

Called(c) == \E i \in DOMAIN called : called[i] = c
Status == [c \in Callback |-> IF c <= n_cbs /\ ~Called(c) THEN "postponed" ELSE "idle"]

G == INSTANCE Grace WITH status <- Status
\* No callback is called before all threads that were active when it was
\* postponed have quiesced, though registration, renewal and the scan of
\* ovsrcu_synchronize() are not atomic.
GraceRefinement == G!GraceSpec

\* "All functions registered by a single thread are guaranteed to execute in
\* the registering order": here also for those of different sets of a thread.
CallOrder == \A i, j \in DOMAIN called :
                (i < j /\ poster[called[i]] = poster[called[j]]) => called[i] < called[j]

\* Every postponed callback is called, without the help of the timer of
\* ovsrcu_synchronize(): no change of a seq is missed.
CallbacksRun == \A c \in Callback : (c <= n_cbs) ~> Called(c)

---------------------------------------------------------------------------
(* The inductive invariant.                                                *)

\* Within ovsrcu_flush_cbset(), ovsrcu_unregister__() and the calls of them.
Leaving == {"flush", "flushed", "remove", "change"}
Waiting == {"current", "scan", "wait", "block"}

RcuTypeOK ==
    /\ place \in [Thread -> {"register", "in", "out", "loop", "pop", "idle", "sleep", "target", "end", "call"}
                               \cup Leaving \cup Waiting]
    /\ then \in [Thread -> {"in", "out", "quiesce", "loop", "call", "sleep", "current"}]
    /\ seqno \in [Thread -> Nat]
    /\ cbset \in [Thread -> Seq(Callback)]
    /\ threads \subseteq Thread
    /\ global_seqno \in [value : Nat, waiters : SUBSET Thread]
    /\ flushed_cbsets_seq \in [value : Nat, waiters : SUBSET Thread]
    /\ flushed_cbsets \in Seq(Callback)
    /\ urcu \in [flushed : Nat, cbs : Seq(Callback), target : Nat, cur : Nat]
    /\ active \subseteq threads
    /\ owes \in [Callback -> SUBSET active]
    /\ poster \in Seq(Worker) /\ n_cbs <= MaxCallback
    /\ called \in Seq(Callback)

\* Where a thread may be, where it goes from there, and whether it is quiescent.
PlaceOK(t) ==
    /\ place[t] = "register" => then[t] \in (IF t = Urcu THEN {"loop", "call"} ELSE {"in"})
    /\ place[t] \in Leaving => then[t] \in (IF t = Urcu THEN {"sleep", "current"} ELSE {"out", "quiesce"})
    /\ place[t] = "remove" => then[t] # "quiesce"
    /\ place[t] \in {"in", "out"} => t # Urcu
    /\ place[t] \notin {"in", "out", "register"} \cup Leaving => t = Urcu
    /\ place[t] = "in" \/ (place[t] \in Leaving /\ then[t] = "quiesce") => t \in active
    /\ place[t] \in {"out", "register", "sleep", "end"} \cup Waiting \/ (place[t] \in Leaving /\ then[t] # "quiesce")
           => t \notin active

\* Callback c may be called before d.
Precedes(p, c, d) == c # d /\ (p[c] = p[d] => c < d)
Ordered(p, s) == \A i, j \in DOMAIN s : i < j => Precedes(p, s[i], s[j])
Before(p, s, r) == \A i \in DOMAIN s, j \in DOMAIN r : Precedes(p, s[i], r[j])

\* The callbacks are called in the order of called, urcu.cbs, flushed_cbsets and
\* the sets of the threads.
QueueOK ==
    /\ Ordered(poster, called) /\ Ordered(poster, urcu.cbs) /\ Ordered(poster, flushed_cbsets)
    /\ Before(poster, called, urcu.cbs) /\ Before(poster, called, flushed_cbsets)
    /\ Before(poster, urcu.cbs, flushed_cbsets)
    /\ \A t \in Thread :
          /\ Ordered(poster, cbset[t])
          /\ Before(poster, called, cbset[t]) /\ Before(poster, urcu.cbs, cbset[t])
          /\ Before(poster, flushed_cbsets, cbset[t])
          /\ \A i \in DOMAIN cbset[t] : cbset[t][i] <= n_cbs /\ poster[cbset[t][i]] = t
    /\ \A s \in {called, urcu.cbs, flushed_cbsets} : \A i \in DOMAIN s : s[i] <= n_cbs

\* From the target on, whoever a callback still waits for has an old seqno; after
\* the scan nobody is left.
GraceOK ==
    /\ \A t \in Thread : seqno[t] <= global_seqno.value
    /\ UrcuAt("loop") \/ UrcuAt("pop") \/ UrcuAt("idle") \/ UrcuAt("sleep") => urcu.cbs = <<>>
    /\ UrcuAt("register") /\ then[Urcu] = "loop" => urcu.cbs = <<>>
    /\ place[Urcu] \in Leaving /\ then[Urcu] = "sleep" => urcu.cbs = <<>>
    /\ place[Urcu] \in Waiting \/ (place[Urcu] \in Leaving /\ then[Urcu] = "current") =>
          \A i \in DOMAIN urcu.cbs : \A t \in owes[urcu.cbs[i]] : seqno[t] <= urcu.target
    /\ UrcuAt("end") \/ UrcuAt("call") \/ (UrcuAt("register") /\ then[Urcu] = "call") =>
          \A i \in DOMAIN urcu.cbs : owes[urcu.cbs[i]] = {}

\* Where the threads are, what they hold and what the seqs say fit together: the
\* callbacks stay in order from the set of a thread to their call, and those that
\* ovsrcu_synchronize() is done with have no thread left to wait for.
RcuInv == RcuTypeOK /\ (\A t \in Thread : PlaceOK(t)) /\ QueueOK /\ GraceOK
=============================================================================
