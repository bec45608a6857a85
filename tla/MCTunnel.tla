------------------------------- MODULE MCTunnel -------------------------------
(* Tunnel with the targets of its runs: one whose request is "CONNECT"     *)
(* under the key that must not be drawn, and one that is refused.          *)
EXTENDS Tunnel

(* Where a released port's message was there may be that of another port  *)
(* or nothing.                                                             *)
MCFreed == {MakeForwardMessage({2}, <<{2}, {2}>>), <<>>}
MCTargets == {<<{1, 2}, {2}>>, <<{}, {2}>>}
=============================================================================
