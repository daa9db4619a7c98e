----------------------------- MODULE Reconnect -----------------------------
(***************************************************************************)
(* The state machine of lib/reconnect.c, and the JSON-RPC session of       *)
(* lib/jsonrpc.c that follows it, in a process whose main loop runs the    *)
(* session, receives, and sleeps in poll_block() until the session's timer *)
(* or its connection wakes it up.                                          *)
(*                                                                         *)
(* Time passes in seconds, at any point.  Instead of points in time the    *)
(* model keeps how long ago they are, as far as any timer reaches.         *)
(***************************************************************************)
EXTENDS Integers, Bounds

CONSTANTS
    MinBackoff, MaxBackoff,  \* RECONNECT_DEFAULT_MIN_BACKOFF and ..._MAX_BACKOFF
    ProbeInterval,           \* fsm->probe_interval, not zero
    NRemotes                 \* remotes of the session

ASSUME BackoffAssumption == MinBackoff \in Nat \ {0} /\ MaxBackoff \in Nat /\ MinBackoff <= MaxBackoff
ASSUME ProbeAssumption == ProbeInterval \in Nat \ {0} /\ NRemotes \in Nat \ {0}

\* The kinds of events that the Budgets bound: "fail", of an attempt to connect or
\* to listen, "call", of a peer, "break" and "silence", of a connection, "force",
\* of a new connection, "options" and "drain", of the send queue.

VARIABLES
    js,      \* struct jsonrpc_session with its struct reconnect, and its connections
    loop,    \* where the main loop is
    timer    \* the seconds left for poll_block(), or NoTimer

sessionOnly == <<js, loop, timer>>
sessionVars == <<sessionOnly, budget>>

NoTimer == -1
Unlimited == -1    \* max_tries is UINT_MAX
Horizon == CHOOSE n \in {MaxBackoff, ProbeInterval} : n >= MaxBackoff /\ n >= ProbeInterval
Forever == Horizon + 1   \* INT_MAX milliseconds
AtMost(n, bound) == IF n <= bound THEN n ELSE bound
AtLeast(n, bound) == IF n >= bound THEN n ELSE bound

---------------------------------------------------------------------------
(* reconnect.c.  The age of s is the time since state_entered or, in       *)
(* ACTIVE, since a later last_activity; seen is the time from there to     *)
(* last_receive_attempt; up is the time since last_connected, as far as    *)
(* the back-off reaches; and held is that from last_connected to           *)
(* last_activity, -1 if there was none.                                    *)

Connected(s) == s.state \in {"ACTIVE", "IDLE"}

transition(s, state) ==
    LET on == state \in {"ACTIVE", "IDLE"}
    IN [s EXCEPT !.state = state, !.age = 0, !.seen = 0,
                 !.up = IF on THEN @ ELSE 0, !.held = IF on THEN @ ELSE -1]

may_retry(s) == s.tries # 0
Retried(s) == [s EXCEPT !.tries = IF @ = Unlimited THEN @ ELSE @ - 1]

\* The next back-off in reconnect_disconnected().
NextBackoff(s) ==
    IF s.free > 1 THEN 0
    ELSE IF Connected(s) /\ (s.held >= s.backoff \/ s.passive) THEN IF s.passive THEN 0 ELSE s.min
    ELSE IF s.backoff < s.min THEN s.min
    ELSE IF s.backoff < s.max \div 2 THEN 2 * s.backoff
    ELSE s.max

disconnected(s) ==
    IF s.state \in {"BACKOFF", "VOID"} THEN s
    ELSE IF ~may_retry(s) THEN transition(s, "VOID")
    ELSE transition([Retried(s) EXCEPT !.backoff = NextBackoff(s),
                                       !.free = IF @ > 1 THEN @ - 1 ELSE @], "BACKOFF")

connecting(s) == IF s.state = "CONNECTING" THEN s ELSE transition(s, "CONNECTING")
listening(s) == IF s.state = "LISTENING" THEN s ELSE transition(s, "LISTENING")
listen_error(s) == IF s.state = "LISTENING" THEN disconnected(s) ELSE s
connected(s) == IF Connected(s) THEN s
                ELSE [transition(s, "ACTIVE") EXCEPT !.up = 0, !.held = -1]
connect_failed(s) == disconnected(connecting(s))
force_reconnect(s) ==
    IF s.state \in {"CONNECTING", "ACTIVE", "IDLE"} THEN transition(s, "RECONNECT") ELSE s

activity(s) ==
    [IF Connected(s) THEN transition(s, "ACTIVE") ELSE s EXCEPT !.held = s.up]

\* Mutant: only an attempt that receives something counts.
NoAttempt(s) == s
receive_attempted(s) == [s EXCEPT !.seen = s.age]

\* Mutant: the current back-off is not brought down to the new maximum.
KeepsBackoff(s, min, max) == [s EXCEPT !.min = AtLeast(min, 1), !.max = AtLeast(max, 1)]

\* The current back-off is compared with the parameter, which may be 0.
set_backoff(s, min, max) ==
    LET lo == AtLeast(min, 1)
        hi == IF max # 0 THEN AtLeast(max, 1) ELSE MaxBackoff
    IN [s EXCEPT !.min = lo,
                 !.max = AtLeast(hi, lo),
                 !.backoff = IF s.state = "BACKOFF" /\ @ > max THEN max ELSE @]

\* How long the timer of the state of s runs.
Reach(s) ==
    CASE s.state = "BACKOFF" -> s.backoff
      [] s.state = "CONNECTING" -> AtLeast(s.backoff, 1)
      [] s.state \in {"ACTIVE", "IDLE"} -> ProbeInterval
      [] OTHER -> 0

\* Mutant: what came while the process was busy does not count.
DueUnread(s) == s.state \notin {"VOID", "LISTENING"} /\ s.age >= Reach(s)

\* reconnect_deadline__() is not in the future; what reconnect_timeout() returns
\* if it is.  Before an attempt to receive after the interval there is no deadline.
Due(s) ==
    /\ s.state \notin {"VOID", "LISTENING"}
    /\ (IF Connected(s) THEN s.seen ELSE s.age) >= Reach(s)
reconnect_timeout(s) ==
    IF Due(s) THEN 0
    ELSE IF s.state \in {"BACKOFF", "CONNECTING"} /\ Reach(s) # Forever THEN Reach(s) - s.age
    ELSE NoTimer

---------------------------------------------------------------------------
(* jsonrpc_session.                                                        *)

\* jsonrpc_session_disconnect().  With the connection goes what came on it.
session_disconnect(s) ==
    [s EXCEPT !.rpc = FALSE, !.stream = "none", !.eof = FALSE, !.data = "none", !.silent = FALSE]

\* jsonrpc_session_connect(); opens says whether the stream can be opened.
session_connect(s, opens) ==
    IF ~opens THEN connect_failed(session_disconnect(s))
    ELSE IF s.passive THEN [listening(session_disconnect(s)) EXCEPT !.pstream = TRUE]
    ELSE [connecting(session_disconnect(s)) EXCEPT !.stream = "trying"]

\* The three parts of jsonrpc_session_run(): a call to accept, the connection or
\* the attempt to make one, and what reconnect_run() asks for.
Accept(s) ==
    IF ~s.pstream \/ s.caller = "none" THEN s
    ELSE IF s.caller = "error" THEN [listen_error(s) EXCEPT !.pstream = FALSE, !.caller = "none"]
    ELSE [connected(session_disconnect(s)) EXCEPT !.rpc = TRUE, !.caller = "none"]
Check(s) ==
    IF s.eof THEN session_disconnect(disconnected(s))
    ELSE IF s.stream = "ok" THEN [connected(s) EXCEPT !.rpc = TRUE, !.stream = "none"]
    ELSE IF s.stream = "failed" THEN [connect_failed(s) EXCEPT !.stream = "none"]
    ELSE s
Act(s, opens) ==
    IF ~Due(s) THEN s
    ELSE IF s.state = "BACKOFF" THEN session_connect(s, opens)
    ELSE IF s.state = "ACTIVE" THEN transition(s, "IDLE")
    ELSE session_disconnect(disconnected(s))

Goes(place) == loop' = place

\* A stream that cannot be opened is a failure; what was caught in the send queue
\* and could be sent is activity.
Run ==
    /\ loop = "run"
    /\ LET s == Accept(js)
       IN \/ js' = Act(Check(s), TRUE) /\ UNCHANGED budget
          \/ s.rpc /\ js' = Act(Check(activity(s)), TRUE) /\ Spend("drain")
          \/ /\ Check(s).state = "BACKOFF" /\ Due(Check(s)) /\ ~Check(s).pstream
             /\ js' = Act(Check(s), FALSE)
             /\ Spend("fail")
    /\ Goes("recv")
    /\ UNCHANGED timer

\* jsonrpc_session_recv(), until there is nothing left.
Recv ==
    /\ loop = "recv"
    /\ js' = IF ~js.rpc THEN js
             ELSE IF js.data = "none" THEN receive_attempted(js)
             ELSE [activity(receive_attempted(js)) EXCEPT !.data = "none"]
    /\ Goes("wait")
    /\ UNCHANGED <<timer, budget>>

\* What the process may do with the session: ovsdb_idl_retry(), the options that
\* ovsdb-server gives to its sessions, and ovsdb_idl_enable_reconnect(), for one
\* that was opened without retry.
Force ==
    /\ loop = "wait"
    /\ Spend("force")
    /\ js' = force_reconnect(js)
    /\ UNCHANGED <<loop, timer>>
SetMaxBackoff(max) ==
    /\ loop = "wait"
    /\ ~js.passive /\ js.min # Forever
    /\ Spend("options")
    /\ js' = set_backoff(js, 0, max)
    /\ UNCHANGED <<loop, timer>>
EnableReconnect ==
    /\ loop = "wait"
    /\ js.min = Forever
    /\ Spend("options")
    /\ js' = set_backoff([js EXCEPT !.tries = Unlimited], MinBackoff, MaxBackoff)
    /\ UNCHANGED <<loop, timer>>

\* jsonrpc_session_wait(), jsonrpc_session_recv_wait() and poll_block().
Wait ==
    /\ loop = "wait"
    /\ timer' = reconnect_timeout(js)
    /\ Goes("poll")
    /\ UNCHANGED <<js, budget>>
Ready == \/ js.rpc /\ (js.eof \/ js.data # "none")
         \/ js.stream \in {"ok", "failed"}
         \/ js.pstream /\ js.caller # "none"
Poll == loop = "poll" /\ (timer = 0 \/ Ready) /\ Goes("run") /\ UNCHANGED <<js, timer, budget>>

\* Something else that the process waits for wakes it up.
OtherWake == loop = "poll" /\ timer # 0 /\ ~Ready /\ Goes("run") /\ UNCHANGED <<js, timer, budget>>

---------------------------------------------------------------------------
(* Time and the peer.                                                      *)

Tick ==
    /\ js' = [js EXCEPT !.age = AtMost(@ + 1, AtMost(Reach(js), Horizon)),
                        !.up = IF Connected(js) THEN AtMost(@ + 1, js.backoff) ELSE @]
    /\ timer' = IF timer > 0 THEN timer - 1 ELSE timer
    /\ UNCHANGED <<loop, budget>>

PeerOnly == UNCHANGED <<loop, timer>>
Answers == js.stream = "trying" /\ js' = [js EXCEPT !.stream = "ok"] /\ UNCHANGED budget /\ PeerOnly
Refuses == js.stream = "trying" /\ js' = [js EXCEPT !.stream = "failed"] /\ Spend("fail") /\ PeerOnly
Calls == /\ js.pstream /\ js.caller = "none" /\ Spend("call")
         /\ \E c \in {"new", "error"} : js' = [js EXCEPT !.caller = c]
         /\ PeerOnly
\* Data, such as the reply to a probe, that comes after the interval of the probe
\* is late.
Sends == /\ js.rpc /\ ~js.eof /\ ~js.silent /\ js.data = "none"
         /\ js' = [js EXCEPT !.data = IF js.state = "IDLE" /\ js.age >= ProbeInterval
                                      THEN "late" ELSE "timely"]
         /\ UNCHANGED budget /\ PeerOnly
Closes == js.rpc /\ ~js.silent /\ Spend("break") /\ js' = [js EXCEPT !.eof = TRUE] /\ PeerOnly
FallsSilent == /\ js.rpc /\ ~js.eof /\ ~js.silent
               /\ Spend("silence") /\ js' = [js EXCEPT !.silent = TRUE] /\ PeerOnly

---------------------------------------------------------------------------

\* jsonrpc_session_open_multiple(), with and without retry, and passive; and
\* jsonrpc_session_open_unreliably().
Opened(passive, tries, min, max) ==
    [state |-> "BACKOFF", age |-> 0, seen |-> 0, up |-> 0, held |-> -1, backoff |-> 0,
     min |-> min, max |-> max, tries |-> tries, free |-> NRemotes, passive |-> passive,
     rpc |-> FALSE, stream |-> "none", pstream |-> FALSE, caller |-> "none",
     eof |-> FALSE, data |-> "none", silent |-> FALSE]
SessionInit ==
    /\ js \in {Opened(FALSE, Unlimited, MinBackoff, MaxBackoff),
               Opened(FALSE, NRemotes, Forever, Forever),
               Opened(TRUE, Unlimited, MinBackoff, MaxBackoff),
               [connected(Opened(FALSE, 0, MinBackoff, MaxBackoff)) EXCEPT !.rpc = TRUE, !.free = 0]}
    /\ loop = "run"
    /\ timer = NoTimer
    /\ budget \in Budgets

LoopStep == Run \/ Recv \/ Wait \/ Poll
PeerStep == Answers \/ Refuses \/ Calls \/ Sends \/ Closes \/ FallsSilent
SessionNext == \/ LoopStep \/ Tick \/ PeerStep \/ OtherWake
               \/ Force \/ EnableReconnect
               \/ \E max \in {0, MinBackoff} : SetMaxBackoff(max)

SessionSpec == SessionInit /\ [][SessionNext]_sessionVars

\* The main loop goes round, and time passes.
SessionFairness == WF_sessionVars(LoopStep) /\ WF_sessionVars(Tick)

---------------------------------------------------------------------------
(* Properties.                                                             *)

IsAlive == js.rpc \/ js.stream # "none" \/ js.tries # 0

\* A session that jsonrpc_session_is_alive() calls alive and that has no
\* connection comes to try for one: no back-off lasts for ever, whatever its
\* options, and however it was opened.
AliveTries == (IsAlive /\ ~js.rpc /\ js.stream = "none" /\ ~js.pstream)
                 ~> (js.stream # "none" \/ js.pstream \/ ~IsAlive)

\* No connection is dropped for a missing reply that came in time, however long
\* the main loop was away before it could receive it.
LivePeerKept ==
    [][(js.state = "IDLE" /\ js.rpc /\ ~js.eof /\ js.caller = "none" /\ ~js'.rpc)
         => js.data # "timely"]_sessionVars

\* A connection whose peer has fallen silent is dropped after the probe that
\* reconnect_get_probe_interval() describes.
DeadPeerDropped == (js.rpc /\ js.silent) ~> ~js.silent

\* It is, in a process that is woken up again and again by something else.
ProbesWhenWoken == []<><<OtherWake>>_sessionVars => DeadPeerDropped
=============================================================================
