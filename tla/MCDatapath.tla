----------------------------- MODULE MCDatapath -----------------------------
(***************************************************************************)
(* An instance of Udpif and one of Snat for TLC.  A behaviour is one of    *)
(* the flow cache or one of a translated packet.                           *)
(***************************************************************************)
EXTENDS MCUdpif, Snat

Quiet == Allow([packet |-> 0])
DatapathBudgets == RaceBudgets \cup {Quiet}

NoConn == [proto |-> "TCP", cip |-> ServerAddr, lip |-> ServerAddr, cport |-> ServerPort,
           lport |-> ServerPort]
SnatIdle == /\ conn = NoConn /\ hook = "idle"
            /\ skb = Plain("other", ServerAddr, ServerPort, ServerAddr, ServerPort, 0, 0, FALSE)

OnlyUdpif(A) == hook = "idle" /\ A /\ UNCHANGED snatOnly
OnlySnat(A) == hook # "idle" /\ A /\ UNCHANGED vars

DatapathInit == Init /\ IF budget = Quiet THEN SnatInit ELSE SnatIdle
DatapathNext == OnlyUdpif(Next) \/ OnlySnat(SnatNext)
datapathVars == <<vars, snatOnly>>

DatapathSpec == /\ DatapathInit /\ [][DatapathNext]_datapathVars
                /\ \A t \in Handler : WF_datapathVars(OnlyUdpif(HandlerStep(t)))
                /\ \A r \in Revalidator : WF_datapathVars(OnlyUdpif(RevalidatorStep(r)))
                /\ WF_datapathVars(OnlyUdpif(MainStep))
                /\ \A u \in Ukey : WF_datapathVars(OnlyUdpif(Free(u)))
=============================================================================
