------------------------------- MODULE Udpif -------------------------------
(***************************************************************************)
(* The flow cache of ofproto/ofproto-dpif-upcall.c.  Handlers translate    *)
(* the packets that miss in the datapath and install flows.  Revalidators  *)
(* dump the flows of the datapath, check them against the OpenFlow tables, *)
(* and sweep what is gone.  The main thread changes the tables and purges  *)
(* the cache.  They share the ukeys, one for each datapath flow, which     *)
(* they find in a map (umap), lock, move through the states of enum        *)
(* ukey_state and free through RCU, of which Grace has the promise.        *)
(*                                                                         *)
(* A step is one critical section, one datapath operation or one read of   *)
(* shared state.  A flow stands for its key, the OpenFlow tables for their *)
(* version, and the actions of a flow for the version that gave them.      *)
(***************************************************************************)
EXTENDS Integers, FiniteSets, Bounds, Grace

CONSTANTS
    Handler, Revalidator, Main,     \* the threads
    Flow,                           \* the keys of packets and flows
    Slice                           \* Slice[f]: the revalidator that sweeps f's part of the umap

\* What is freed through RCU.  Bound: this many exist at the same time.
Ukey == Callback

ASSUME ThreadAssumption == /\ Thread = Handler \cup Revalidator \cup {Main}
                           /\ Handler \cap Revalidator = {}
                           /\ Main \notin Handler \cup Revalidator
                           /\ Slice \in [Flow -> Revalidator]

\* The kinds of events that the Budgets bound: "packet", that misses, "change", of
\* the tables, "purge", "fail", of a datapath operation, "lost", of a flow in a dump,
\* "left", a flow that an earlier process left in the datapath.

VARIABLES
    dp,              \* dp[f]: the actions of flow f in the datapath, or NoFlow
    umap,            \* umap[f]: the ukey of f, or NoUkey
    ukeys,           \* ukeys[u]: its members
    allocated,       \* the ukeys that are not free
    upcalls,         \* upcalls[f]: the packets that wait for a handler
    tables_version, reval_seq,
    to_dump,         \* the flows the current dump may still return
    th,              \* th[t]: where thread t is, and its locals
    trouble          \* "abort": the process is gone; "double": a ukey was freed twice

cache == <<umap, ukeys, allocated>>
tables == <<tables_version, reval_seq>>
vars == <<dp, cache, upcalls, tables, to_dump, th, trouble, graceVars, budget>>

NoFlow == -1
NoUkey == "none"
ASSUME UkeyAssumption == NoUkey \notin Ukey

\* enum ukey_state.
VISIBLE == 1
OPERATIONAL == 2
EVICTING == 3
EVICTED == 4
DELETED == 5

At(t, p) == th[t].at = p /\ trouble = "none"
Goto(t, p) == th' = [th EXCEPT ![t].at = p]

\* Thread t is through with its flow, and has no pointers left.
NoLocals == [at |-> "idle", phase |-> "idle", flow |-> NoUkey, ukey |-> NoUkey, version |-> 0,
             seq |-> 0, error |-> FALSE, todo |-> {}]
Clear(t, p) == th' = [th EXCEPT ![t] = [@ EXCEPT !.at = p, !.flow = NoUkey, !.ukey = NoUkey,
                                                 !.version = 0, !.error = FALSE]]

---------------------------------------------------------------------------
(* Ukeys.                                                                  *)

\* The members of a ukey that is free.
NoMembers == [state |-> DELETED, seq |-> 0, version |-> 0, dumped |-> FALSE]

\* transition_ukey(): backwards it aborts, and where it may not go it stays.
Transition(state, dst) ==
    IF state = dst - 1 \/ (state = VISIBLE /\ dst < DELETED) THEN dst ELSE state
Aborts(state, dst) == dst < state

\* A thread other than t may be in a critical section of u's mutex, so that
\* ovs_mutex_trylock() fails.
Locks == {"transition", "decide", "evict", "remove", "visit"}
MayBeBusy(t, u) == \E o \in Thread \ {t} : th[o].ukey = u /\ th[o].at \in Locks

\* Mutant: the ukey is freed without a grace period.
FreesAtOnce(t, u) ==
    /\ status' = [status EXCEPT ![u] = "postponed"]
    /\ UNCHANGED <<active, owes, trouble>>

\* ovsrcu_postpone(ukey_delete__, u).
PostponeFree(t, u) ==
    IF status[u] = "idle" THEN Postpone(t, u) /\ UNCHANGED trouble
    ELSE trouble' = "double" /\ UNCHANGED graceVars

\* ukey_delete__(), called by RCU.
Free(u) ==
    /\ trouble = "none"
    /\ Call(u)
    /\ allocated' = allocated \ {u}
    /\ ukeys' = [ukeys EXCEPT ![u] = NoMembers]
    /\ UNCHANGED <<dp, umap, upcalls, tables, to_dump, th, trouble, budget>>

\* A new ukey, with the members k, enters the umap for flow f: ukey_install__() and
\* try_ukey_replace().
NewUkey == CHOOSE u \in Ukey : u \notin allocated
CanInstall(f) == umap[f] # NoUkey => ukeys[umap[f]].state = EVICTED

\* Mutant: the ukey that is replaced keeps its state.
ReplacesSilently(t, f, k) ==
    /\ Ukey \ allocated # {}
    /\ CanInstall(f)
    /\ allocated' = allocated \cup {NewUkey}
    /\ umap' = [umap EXCEPT ![f] = NewUkey]
    /\ ukeys' = [ukeys EXCEPT ![NewUkey] = k]
    /\ IF umap[f] = NoUkey THEN UNCHANGED <<graceVars, trouble>> ELSE PostponeFree(t, umap[f])

Install(t, f, k) ==
    /\ Ukey \ allocated # {}
    /\ CanInstall(f)
    /\ allocated' = allocated \cup {NewUkey}
    /\ umap' = [umap EXCEPT ![f] = NewUkey]
    /\ IF umap[f] = NoUkey
       THEN /\ ukeys' = [ukeys EXCEPT ![NewUkey] = k]
            /\ UNCHANGED <<graceVars, trouble>>
       ELSE /\ ukeys' = [ukeys EXCEPT ![NewUkey] = k,
                                      ![umap[f]].state = Transition(EVICTED, DELETED)]
            /\ PostponeFree(t, umap[f])
InstallFails(t, f) == umap[f] # NoUkey /\ (~CanInstall(f) \/ MayBeBusy(t, umap[f]))

\* Mutant: whatever another thread did to it in the meantime.
DeletesAgain(t, f, u) ==
    /\ umap' = [umap EXCEPT ![f] = NoUkey]
    /\ ukeys' = [ukeys EXCEPT ![u].state = Transition(@, DELETED)]
    /\ PostponeFree(t, u)

\* ukey_delete(): not if another thread deleted it first.
ukey_delete(t, f, u) ==
    IF ukeys[u].state < DELETED
    THEN /\ umap' = [umap EXCEPT ![f] = NoUkey]
         /\ ukeys' = [ukeys EXCEPT ![u].state = Transition(@, DELETED)]
         /\ PostponeFree(t, u)
    ELSE UNCHANGED <<umap, ukeys, trouble, graceVars>>

---------------------------------------------------------------------------
(* Handlers.                                                               *)

\* A packet misses in the datapath.
Packet(f) ==
    /\ trouble = "none"
    /\ dp[f] = NoFlow
    /\ Spend("packet")
    /\ upcalls' = [upcalls EXCEPT ![f] = @ + 1]
    /\ UNCHANGED <<dp, cache, tables, to_dump, th, trouble, graceVars>>

\* recv_upcalls(), and the version of the tables that upcall_xlate() will use.
Receive(t, f) ==
    /\ At(t, "idle")
    /\ upcalls[f] > 0
    /\ upcalls' = [upcalls EXCEPT ![f] = @ - 1]
    /\ QuiesceEnd(t)
    /\ th' = [th EXCEPT ![t] = [@ EXCEPT !.at = "xlate", !.flow = f, !.version = tables_version]]
    /\ UNCHANGED <<dp, cache, tables, to_dump, trouble, budget>>

\* The rest of upcall_xlate(): reval_seq, and the translation.
Translate(t) ==
    /\ At(t, "xlate")
    /\ th' = [th EXCEPT ![t] = [@ EXCEPT !.at = "install", !.seq = reval_seq]]
    /\ UNCHANGED <<dp, cache, upcalls, tables, to_dump, trouble,
                   graceVars, budget>>

\* handle_upcalls(): ukey_install(), with a flow put queued.
HandlerInstall(t) ==
    /\ At(t, "install")
    /\ Install(t, th[t].flow, [state |-> VISIBLE, seq |-> th[t].seq, version |-> th[t].version,
                               dumped |-> FALSE])
    /\ th' = [th EXCEPT ![t] = [@ EXCEPT !.at = "put", !.ukey = NewUkey]]
    /\ UNCHANGED <<dp, upcalls, tables, to_dump, budget>>

\* The ukey is not installed: there are too many flows (should_install_flow()),
\* or there is one, or it is locked.  The handler is done: poll_block().
HandlerDrop(t) ==
    /\ At(t, "install")
    /\ QuiesceBegin(t)
    /\ th' = [th EXCEPT ![t] = NoLocals]
    /\ UNCHANGED <<dp, cache, upcalls, tables, to_dump, trouble, budget>>

\* The flow put (DPIF_FP_CREATE).
HandlerPut(t) ==
    /\ At(t, "put")
    /\ LET f == th[t].flow
           ok == dp[f] = NoFlow
       IN /\ dp' = IF ok THEN [dp EXCEPT ![f] = th[t].version] ELSE dp
          /\ th' = [th EXCEPT ![t] = [@ EXCEPT !.at = "transition", !.error = ~ok]]
    /\ UNCHANGED <<cache, upcalls, tables, to_dump, trouble,
                   graceVars, budget>>

HandlerPutFails(t) ==
    /\ At(t, "put")
    /\ Spend("fail")
    /\ th' = [th EXCEPT ![t] = [@ EXCEPT !.at = "transition", !.error = TRUE]]
    /\ UNCHANGED <<dp, cache, upcalls, tables, to_dump, trouble,
                   graceVars>>

\* What it means for the ukey, and poll_block().
HandlerTransition(t) ==
    /\ At(t, "transition")
    /\ LET u == th[t].ukey
           state == ukeys[u].state
       IN /\ ukeys' = [ukeys EXCEPT ![u].state =
                           IF th[t].error THEN Transition(@, EVICTED)
                           ELSE IF @ < OPERATIONAL THEN Transition(@, OPERATIONAL) ELSE @]
          /\ trouble' = IF th[t].error /\ Aborts(state, EVICTED) THEN "abort" ELSE trouble
    /\ QuiesceBegin(t)
    /\ th' = [th EXCEPT ![t] = NoLocals]
    /\ UNCHANGED <<dp, umap, allocated, upcalls, tables, to_dump, budget>>

---------------------------------------------------------------------------
(* Revalidators: udpif_revalidator().                                      *)

\* revalidators[0].
Leader == CHOOSE r \in Revalidator : TRUE

\* The leader ends the last dump and starts a new one.
Lead ==
    /\ At(Leader, "lead")
    /\ ukeys' = [u \in Ukey |-> [ukeys[u] EXCEPT !.dumped = FALSE]]
    /\ to_dump' = Flow
    /\ Goto(Leader, "barrier")
    /\ UNCHANGED <<dp, umap, allocated, upcalls, tables, trouble, graceVars, budget>>

\* ovs_barrier_block(): nobody enters a phase before all have left the last one.
NextPhase(p) == CASE p = "rest" -> "dump" [] p = "dump" -> "sweep" [] p = "sweep" -> "rest"
Passed(p) == \A o \in Revalidator : \/ th[o].at = "barrier" /\ th[o].phase = p
                                    \/ th[o].phase = NextPhase(p)
Barrier(r) ==
    /\ At(r, "barrier")
    /\ Passed(th[r].phase)
    /\ LET p == NextPhase(th[r].phase)
           l == [NoLocals EXCEPT !.phase = p]
       IN \/ /\ p = "rest"
             /\ th' = [th EXCEPT ![r] = [l EXCEPT !.at = IF r = Leader THEN "lead" ELSE "barrier"]]
             /\ UNCHANGED graceVars
          \/ /\ p = "dump"
             /\ th' = [th EXCEPT ![r] = [l EXCEPT !.at = "dump", !.seq = reval_seq]]
             /\ QuiesceEnd(r)
          \/ /\ p = "sweep"
             /\ th' = [th EXCEPT ![r] = [l EXCEPT !.at = "sweep", !.seq = reval_seq,
                                                  !.todo = {f \in Flow : Slice[f] = r}]]
             /\ QuiesceEnd(r)
    /\ UNCHANGED <<dp, cache, upcalls, tables, to_dump, trouble, budget>>

\* A batch of revalidate() or revalidator_sweep__() is done: ovsrcu_quiesce().
\* A batch is one flow.
Done(t) == Clear(t, IF th[t].phase = "dump" THEN "dump" ELSE "sweep") /\ Quiesce(t)

\* dpif_flow_dump_next(): a flow, if it is still there; a dump may miss it.
DumpNext(r, f) ==
    /\ At(r, "dump")
    /\ f \in to_dump
    /\ to_dump' = to_dump \ {f}
    /\ IF dp[f] = NoFlow THEN UNCHANGED th
       ELSE th' = [th EXCEPT ![r] = [@ EXCEPT !.at = "lookup", !.flow = f, !.version = dp[f]]]
    /\ UNCHANGED <<dp, cache, upcalls, tables, trouble, graceVars, budget>>

DumpLost(r, f) ==
    /\ At(r, "dump")
    /\ f \in to_dump
    /\ dp[f] # NoFlow
    /\ Spend("lost")
    /\ to_dump' = to_dump \ {f}
    /\ UNCHANGED <<dp, cache, upcalls, tables, th, trouble, graceVars>>

DumpEnd(r) ==
    /\ At(r, "dump")
    /\ to_dump = {}
    /\ QuiesceBegin(r)
    /\ Goto(r, "barrier")
    /\ UNCHANGED <<dp, cache, upcalls, tables, to_dump, trouble, budget>>

\* Mutant: a flow without a ukey is left alone.
LeavesAlone(r) ==
    /\ At(r, "lookup")
    /\ LET u == umap[th[r].flow]
       IN th' = [th EXCEPT ![r] = [@ EXCEPT !.at = IF u = NoUkey THEN "done" ELSE "decide",
                                            !.ukey = u]]
    /\ UNCHANGED <<dp, cache, upcalls, tables, to_dump, trouble, graceVars, budget>>

\* ukey_acquire() looks the flow up ...
Lookup(r) ==
    /\ At(r, "lookup")
    /\ LET u == umap[th[r].flow]
       IN th' = [th EXCEPT ![r] = [@ EXCEPT !.at = IF u = NoUkey THEN "create" ELSE "decide",
                                            !.ukey = u]]
    /\ UNCHANGED <<dp, cache, upcalls, tables, to_dump, trouble, graceVars, budget>>

\* revalidate_ukey(), at reval_seq s, and reval_op_init(): the ukey after it, and
\* the datapath operation.  To delete is always possible: the flow is idle, too
\* expensive to check, or its translation fails.
Revalidated(k, s) ==
    {[ukey |-> [k EXCEPT !.state = Transition(@, EVICTING)], op |-> "del"]}
    \cup (IF k.seq = s \/ k.version = tables_version
          THEN {[ukey |-> [k EXCEPT !.seq = s], op |-> "done"]}
          ELSE {[ukey |-> [k EXCEPT !.seq = s, !.version = tables_version], op |-> "mod"]})

\* The flow is seen in the datapath.
Dumped(k) == [k EXCEPT !.dumped = TRUE,
                       !.state = IF @ < OPERATIONAL THEN Transition(@, OPERATIONAL) ELSE @]

\* Thread t goes on with the operation of o, on ukey u.
GoOn(t, u, o) ==
    th' = [th EXCEPT ![t] = [@ EXCEPT !.at = o.op, !.version = o.ukey.version,
                                      !.ukey = IF o.op = "done" THEN NoUkey ELSE u]]

Finish(t) ==
    /\ At(t, "done")
    /\ Done(t)
    /\ UNCHANGED <<dp, cache, upcalls, tables, to_dump, trouble, budget>>

\* ... locks the ukey, if nobody has it, and decides ...
Decide(r) ==
    /\ At(r, "decide")
    /\ LET u == th[r].ukey
           k == ukeys[u]
       IN \/ /\ MayBeBusy(r, u) \/ k.dumped \/ k.state > OPERATIONAL
             /\ Done(r)
             /\ UNCHANGED ukeys
          \/ /\ ~k.dumped /\ k.state <= OPERATIONAL
             /\ \E o \in Revalidated(Dumped(k), th[r].seq) :
                   /\ ukeys' = [ukeys EXCEPT ![u] = o.ukey]
                   /\ IF o.op = "done" THEN Done(r) ELSE GoOn(r, u, o) /\ UNCHANGED graceVars
    /\ UNCHANGED <<dp, umap, allocated, upcalls, tables, to_dump, trouble, budget>>

\* ... or makes a ukey for a flow that has none (ukey_create_from_dpif_flow()),
\* locked until its fate is decided.  A terse dump has the actions fetched now,
\* if the flow is still there; another one has them already.
Create(r) ==
    /\ At(r, "create")
    /\ LET f == th[r].flow
           k(v) == [state |-> VISIBLE, seq |-> reval_seq - 1, version |-> v, dumped |-> FALSE]
       IN \/ \E v \in {th[r].version, dp[f]} \ {NoFlow} :
             \E o \in Revalidated(Dumped(k(v)), th[r].seq) :
                /\ Install(r, f, o.ukey)
                /\ GoOn(r, NewUkey, o)
          \/ /\ dp[f] = NoFlow \/ InstallFails(r, f)
             /\ Clear(r, "done")
             /\ UNCHANGED <<cache, trouble, graceVars>>
    /\ UNCHANGED <<dp, upcalls, tables, to_dump, budget>>

\* push_dp_ops(): the datapath operation, and what follows a deletion.
Delete(t) ==
    /\ At(t, "del")
    /\ \/ dp' = [dp EXCEPT ![th[t].flow] = NoFlow] /\ UNCHANGED budget
       \/ Spend("fail") /\ UNCHANGED dp
    /\ Goto(t, "evict")
    /\ UNCHANGED <<cache, upcalls, tables, to_dump, trouble, graceVars>>

Modify(t) ==
    /\ At(t, "mod")
    /\ \/ dp' = [dp EXCEPT ![th[t].flow] = IF @ = NoFlow THEN @ ELSE th[t].version] /\ UNCHANGED budget
       \/ Spend("fail") /\ UNCHANGED dp
    /\ Done(t)
    /\ UNCHANGED <<cache, upcalls, tables, to_dump, trouble>>

Evict(t) ==
    /\ At(t, "evict")
    /\ LET u == th[t].ukey
       IN /\ ukeys' = [ukeys EXCEPT ![u].state = Transition(@, EVICTED)]
          /\ trouble' = IF Aborts(ukeys[u].state, EVICTED) THEN "abort" ELSE trouble
    /\ IF th[t].phase = "dump" THEN Done(t) ELSE Goto(t, "remove") /\ UNCHANGED graceVars
    /\ UNCHANGED <<dp, umap, allocated, upcalls, tables, to_dump, budget>>

---------------------------------------------------------------------------
(* revalidator_sweep__(), of a revalidator or, to purge, of the main       *)
(* thread.                                                                 *)

SweepNext(t, f) ==
    /\ At(t, "sweep")
    /\ f \in th[t].todo
    /\ LET l == [th[t] EXCEPT !.todo = @ \ {f}]
       IN th' = [th EXCEPT ![t] = IF umap[f] = NoUkey THEN l
                                  ELSE [l EXCEPT !.at = "visit", !.flow = f, !.ukey = umap[f]]]
    /\ UNCHANGED <<dp, cache, upcalls, tables, to_dump, trouble, graceVars, budget>>

SweepEnd(t) ==
    /\ At(t, "sweep")
    /\ th[t].todo = {}
    /\ QuiesceBegin(t)
    /\ th' = [th EXCEPT ![t] = IF t = Main THEN NoLocals
                               ELSE [NoLocals EXCEPT !.at = "barrier", !.phase = "sweep"]]
    /\ UNCHANGED <<dp, cache, upcalls, tables, to_dump, trouble, budget>>

Purging(t) == th[t].phase = "purge"

\* Mutant: only what this dump evicted.
SweepsDumped(k) == k.state = EVICTED /\ k.dumped

\* The flow is gone, the ukey is to go, too.
Swept(k) == k.state = EVICTED
Visit(t) ==
    /\ At(t, "visit")
    /\ LET u == th[t].ukey
           k == ukeys[u]
           checked == k.state = OPERATIONAL \/ (k.state = VISIBLE /\ Purging(t))
           mismatch == ~k.dumped /\ k.seq # th[t].seq
       IN \/ /\ \/ MayBeBusy(t, u)
                \/ ~Swept(k) /\ ~(checked /\ (Purging(t) \/ mismatch))
             /\ Done(t)
             /\ UNCHANGED ukeys
          \/ /\ checked /\ (Purging(t) \/ mismatch)
             /\ \E o \in Revalidated(k, th[t].seq) :
                   /\ Purging(t) => o.op = "del"
                   /\ ukeys' = [ukeys EXCEPT ![u] = o.ukey]
                   /\ IF o.op = "done" THEN Done(t) ELSE GoOn(t, u, o) /\ UNCHANGED graceVars
          \/ /\ Swept(k)
             /\ Goto(t, "remove")
             /\ UNCHANGED <<ukeys, graceVars>>
    /\ UNCHANGED <<dp, umap, allocated, upcalls, tables, to_dump, trouble, budget>>

\* ukey_delete(), under the lock of the umap.
Remove(t) ==
    /\ At(t, "remove")
    /\ ukey_delete(t, th[t].flow, th[t].ukey)
    /\ Clear(t, "done")
    /\ UNCHANGED <<dp, allocated, upcalls, tables, to_dump, budget>>

---------------------------------------------------------------------------
(* The main thread.                                                        *)

\* set_tables_version(), and later, in type_run(), udpif_revalidate().
Change ==
    /\ At(Main, "idle")
    /\ Spend("change")
    /\ tables_version' = tables_version + 1
    /\ Goto(Main, "announce")
    /\ UNCHANGED <<dp, cache, upcalls, reval_seq, to_dump, trouble, graceVars>>

udpif_revalidate ==
    /\ At(Main, "announce")
    /\ reval_seq' = reval_seq + 1
    /\ Goto(Main, "idle")
    /\ UNCHANGED <<dp, cache, upcalls, tables_version, to_dump, trouble, graceVars, budget>>

\* upcall_unixctl_purge().
Purge ==
    /\ At(Main, "idle")
    /\ Spend("purge")
    /\ QuiesceEnd(Main)
    /\ th' = [th EXCEPT ![Main] = [NoLocals EXCEPT !.at = "sweep", !.phase = "purge", !.todo = Flow]]
    /\ UNCHANGED <<dp, cache, upcalls, tables, to_dump, trouble>>

---------------------------------------------------------------------------

Init ==
    /\ budget \in Budgets
    /\ dp \in [Flow -> {NoFlow, 0}]
    /\ Cardinality({f \in Flow : dp[f] # NoFlow}) <= budget["left"]
    /\ umap = [f \in Flow |-> NoUkey]
    /\ ukeys = [u \in Ukey |-> NoMembers]
    /\ allocated = {}
    /\ upcalls = [f \in Flow |-> 0]
    /\ tables_version = 1 /\ reval_seq = 1
    /\ to_dump = {}
    /\ th = [t \in Thread |->
                IF t \notin Revalidator THEN NoLocals
                ELSE [NoLocals EXCEPT !.at = IF t = Leader THEN "lead" ELSE "barrier", !.phase = "rest"]]
    /\ trouble = "none"
    /\ GraceInit

HandlerStep(t) == \/ \E f \in Flow : Receive(t, f)
                  \/ Translate(t) \/ HandlerInstall(t) \/ HandlerDrop(t)
                  \/ HandlerPut(t) \/ HandlerPutFails(t) \/ HandlerTransition(t)
OpStep(t) == Finish(t) \/ Delete(t) \/ Modify(t) \/ Evict(t) \/ Remove(t)
SweepStep(t) == \/ \E f \in Flow : SweepNext(t, f)
                \/ SweepEnd(t) \/ Visit(t) \/ OpStep(t)
DumpStep(r) == \/ \E f \in Flow : DumpNext(r, f) \/ DumpLost(r, f)
               \/ DumpEnd(r) \/ Lookup(r) \/ Decide(r) \/ Create(r)
RevalidatorStep(r) == \/ r = Leader /\ Lead
                      \/ Barrier(r) \/ DumpStep(r) \/ SweepStep(r)
MainStep == udpif_revalidate \/ SweepStep(Main)

Next == \/ \E t \in Handler : HandlerStep(t)
        \/ \E r \in Revalidator : RevalidatorStep(r)
        \/ MainStep \/ Change \/ Purge
        \/ \E f \in Flow : Packet(f)
        \/ \E u \in Ukey : Free(u)

Spec == Init /\ [][Next]_vars

\* The scheduler runs every thread that can run, and RCU calls what it may call.
FairSpec == /\ Spec
            /\ \A t \in Handler : WF_vars(HandlerStep(t))
            /\ \A r \in Revalidator : WF_vars(RevalidatorStep(r))
            /\ WF_vars(MainStep)
            /\ \A u \in Ukey : WF_vars(Free(u))

---------------------------------------------------------------------------
(* Properties.                                                             *)

Ours(u) == \E f \in Flow : umap[f] = u

\* No thread has a pointer to a ukey that was freed, though it uses it without
\* the lock of the umap: it is freed when all threads have quiesced.
UkeysAllocated == \A t \in Thread : th[t].ukey # NoUkey => th[t].ukey \in allocated

\* The umap has the ukeys that are neither new nor deleted, each once; all others
\* are on their way to be freed.  Threads that race to replace and to delete a
\* ukey do not lose one or remove one that is not theirs.
UmapSound == /\ \A u \in allocated : IF Ours(u) THEN ukeys[u].state \in VISIBLE .. EVICTED
                                     ELSE ukeys[u].state = DELETED /\ status[u] = "postponed"
             /\ \A f \in Flow : umap[f] # NoUkey =>
                   umap[f] \in allocated /\ \A g \in Flow \ {f} : umap[g] # umap[f]

\* No ukey is given to RCU twice.
FreedOnce == trouble # "double"

Members == [state : {VISIBLE, OPERATIONAL, EVICTING, EVICTED, DELETED}, seq : Int, version : Int,
            dumped : BOOLEAN]
Quiescent == {"idle", "announce", "lead", "barrier"}
Keyed == {"put", "transition", "decide", "del", "mod", "evict", "visit", "remove"}
Unkeyed == {"xlate", "install", "lookup", "create"}
Place == Quiescent \cup Keyed \cup Unkeyed \cup {"dump", "sweep", "done"}
Locals == [at : Place, phase : {"idle", "rest", "dump", "sweep", "purge"},
           flow : Flow \cup {NoUkey}, ukey : Ukey \cup {NoUkey}, version : Int, seq : Int, error : BOOLEAN,
           todo : SUBSET Flow]
UkeyTypeOK ==
    /\ dp \in [Flow -> Int] /\ tables_version \in Int /\ reval_seq \in Int
    /\ umap \in [Flow -> Ukey \cup {NoUkey}] /\ ukeys \in [Ukey -> Members] /\ allocated \subseteq Ukey
    /\ th \in [Thread -> Locals]
    /\ active \subseteq Thread /\ owes \in [Ukey -> SUBSET Thread]
    /\ status \in [Ukey -> {"idle", "postponed"}]

\* What a thread knows of the ukey that it uses outside the locks: where it is to
\* be deleted it has left the states in which its flow is in use, it is found under
\* the thread's flow until somebody deletes it, and it is not freed before the
\* thread quiesces.
PlaceOK(t) ==
    /\ th[t].at \notin Quiescent => t \in active
    /\ th[t].ukey # NoUkey <=> th[t].at \in Keyed
    /\ th[t].at \in Keyed \cup Unkeyed => th[t].flow \in Flow
    /\ th[t].at \in {"del", "evict"} => ukeys[th[t].ukey].state >= EVICTING
    /\ th[t].at = "remove" => ukeys[th[t].ukey].state >= EVICTED
PointerOK(t) ==
    th[t].ukey # NoUkey => /\ th[t].ukey \in allocated
                           /\ status[th[t].ukey] = "postponed" => t \in owes[th[t].ukey]
                           /\ ukeys[th[t].ukey].state < DELETED => umap[th[t].flow] = th[t].ukey
\* Pointers, umap, states and RCU fit together: whoever has a pointer to a ukey that
\* others replace or delete holds up its free, and finds it under its flow until then.
UkeyInv ==
    /\ UkeyTypeOK /\ UmapSound /\ FreedOnce
    /\ \A u \in Ukey : status[u] = "postponed" => u \in allocated /\ ukeys[u].state = DELETED
    /\ \A t \in Thread : PlaceOK(t) /\ PointerOK(t)

Aborted == trouble = "abort"
StateOf(f) == IF umap[f] = NoUkey THEN DELETED ELSE ukeys[umap[f]].state

\* A ukey whose flow was evicted does not stay: a sweep or a handler removes it.
EvictedLeaves == \A f \in Flow : (StateOf(f) = EVICTED) ~> (StateOf(f) # EVICTED \/ Aborted)

\* A flow in the datapath that has no ukey does not stay so: a dump adopts it.
OrphansAdopted == \A f \in Flow : (dp[f] # NoFlow /\ umap[f] = NoUkey)
                                    ~> (dp[f] = NoFlow \/ umap[f] # NoUkey \/ Aborted)

\* transition_ukey() never aborts: "Valid state transitions" has all there are.
NoAbort == ~Aborted

\* "Incremented to force revalidation": when every change is announced, a ukey that
\* is not to be revalidated has the actions that the tables give now.
RevalidationForced == \A f \in Flow : (umap[f] # NoUkey /\ ~(th[Main].at = "announce")
                                        /\ ukeys[umap[f]].seq = reval_seq)
                                       => ukeys[umap[f]].version = tables_version
=============================================================================
