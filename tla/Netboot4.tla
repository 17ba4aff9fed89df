------------------------------ MODULE Netboot4 ------------------------------
(***************************************************************************)
(* Network boot over DHCPv4: the interface is brought up (IfUp), the       *)
(* packets are exchanged (RequestNetbootv4) and the interface is           *)
(* configured from them (ConversationToNetconfv4, ConfigureInterface).     *)
(* BSDP exchanges share the client and configure nothing.                  *)
(***************************************************************************)
EXTENDS Client4, Netconf

vars == <<client4, netconfVars>>

Init == Client4Init /\ NetconfInit

Next ==
  \/ npc # "ifup" /\ Client4Next /\ UNCHANGED netconfVars
  \/ /\ \/ IfUp
        \/ pc = "done" /\ prog = "netboot" /\ ConversationToNetconfv4(conv)
        \/ ConfigureInterface
     /\ UNCHANGED client4

Spec == Init /\ [][Next]_vars /\ Client4Fairness

(* The configuration comes from the last attempt, and from one that the    *)
(* server has acknowledged.  The exception: RequestNetbootv4 returns the   *)
(* messages of its last attempt without its error, and an OFFER whose      *)
(* REQUEST was refused or not answered is configured all the same.         *)
Acknowledged ==
  npc = "configured" =>
    /\ conv[2].xid = attempt
    /\ Len(conv) = 4 => conv[4].type = "ack"
    /\ Len(conv) < 4 => attempt = Retries + 1
=============================================================================
