-------------------------- MODULE EtcpServerContract --------------------------
(***************************************************************************)
(* What EtcpServer promises to the user that calls init() and exit() and   *)
(* implements EtcpServerSink (src/src/etcp_server/etcp_server.h): every    *)
(* connection is accepted while the server is up, closed once, and exit()  *)
(* returns when, and only when, every connection has been closed.          *)
(***************************************************************************)
CONSTANT Sessions
VARIABLES phase, conn

vars == <<phase, conn>>

Init == /\ phase = "down"
        /\ conn = [s \in Sessions |-> "idle"]

(* init() succeeds, or fails and cleans up after itself.                  *)
Start == /\ phase = "down"
         /\ phase' \in {"up", "closing"}
         /\ UNCHANGED conn

(* on_etcp_accept                                                         *)
Accept(s) == /\ phase = "up"
             /\ conn[s] = "idle"
             /\ conn' = [conn EXCEPT ![s] = "open"]
             /\ UNCHANGED phase

(* on_etcp_close                                                          *)
Close(s) == /\ phase # "down"
            /\ conn[s] = "open"
            /\ conn' = [conn EXCEPT ![s] = "closed"]
            /\ UNCHANGED phase

(* exit() is entered.                                                     *)
Exit == /\ phase = "up"
        /\ phase' = "closing"
        /\ UNCHANGED conn

(* exit() returns.                                                        *)
Exited == /\ phase = "closing"
          /\ \A s \in Sessions : conn[s] # "open"
          /\ phase' = "down"
          /\ UNCHANGED conn

Next == \/ Start \/ Exit \/ Exited
        \/ \E s \in Sessions : Accept(s) \/ Close(s)

Safety == Init /\ [][Next]_vars

(* Once exit() is entered every connection is closed and exit() returns.  *)
Spec == /\ Safety
        /\ \A s \in Sessions : WF_vars(phase = "closing" /\ Close(s))
        /\ WF_vars(Exited)
=============================================================================
