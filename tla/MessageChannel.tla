---------------------------- MODULE MessageChannel ----------------------------
(***************************************************************************)
(* What send_message() and on_etcp_recv promise the two ends of a          *)
(* connection (src/src/etcp_server/etcp_server.h, etcp_client.h): messages *)
(* arrive whole, in the order they were accepted, without gap or           *)
(* duplicate; and as long as nobody closes and the network holds, each of  *)
(* them does arrive.                                                       *)
(***************************************************************************)
EXTENDS Naturals, Sequences

CONSTANT Messages  \* what may be sent

VARIABLES sent,  \* messages that send_message() accepted
          got,   \* messages handed to on_etcp_recv
          ended  \* the connection was closed or broke

vars == <<sent, got, ended>>

(* A connection may be over before anything is said.                      *)
Init == sent = <<>> /\ got = <<>> /\ ended \in BOOLEAN

Send(m) == /\ sent' = Append(sent, m)
           /\ UNCHANGED <<got, ended>>

Deliver == /\ Len(got) < Len(sent)
           /\ got' = Append(got, sent[Len(got) + 1])
           /\ UNCHANGED <<sent, ended>>

(* From here on messages may be lost, but only a tail of them.            *)
End == ended' = TRUE /\ UNCHANGED <<sent, got>>

Next == (\E m \in Messages : Send(m)) \/ Deliver \/ End

Safety == Init /\ [][Next]_vars

Spec == Safety /\ WF_vars(~ended /\ Deliver)
=============================================================================
