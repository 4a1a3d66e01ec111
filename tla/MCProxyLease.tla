----------------------------- MODULE MCProxyLease -----------------------------
(***************************************************************************)
(* Two ports; before Serylane: no proxy, another client's proxy, and a PAC *)
(* beside a server left behind by a client that is switched off.           *)
(***************************************************************************)
EXTENDS ProxyLease

MCPorts == {"p1", "p2"}

MCOriginals ==
  {[server |-> Absent, bypass |-> {},         pac |-> Absent, enable |-> FALSE],
   [server |-> Theirs, bypass |-> {"edited"}, pac |-> Absent, enable |-> TRUE],
   [server |-> Theirs, bypass |-> {},         pac |-> Theirs, enable |-> FALSE]}

(* No property speaks of a behaviour after a fault: it is not followed.    *)
Judged == faults \subseteq {"reapplied"}
=============================================================================
