------------------------------ MODULE Netconf -------------------------------
(***************************************************************************)
(* The configuration of a network interface from a DHCPv4 conversation     *)
(* (netboot/netboot.go and netboot/netconf.go): IfUp,                      *)
(* ConversationToNetconfv4 with GetNetConfFromPacketv4, and                *)
(* ConfigureInterface.  Each netlink call and each write is a step that    *)
(* may fail, and what was done before it stays done.                       *)
(***************************************************************************)
EXTENDS Integers, Sequences

CONSTANTS
  Offers,      \* the contents of OFFERs
  Routes       \* the default routes that others may set up: "none", "l2", "other"

ASSUME NetconfAssumption ==
  /\ \A o \in Offers : o.routers \in Seq(STRING)
  /\ Routes \subseteq {"none", "l2", "other"}

VARIABLES
  npc,         \* where the program is
  link,        \* operational state of the interface
  offer,       \* content of the OFFER in the conversation, once it is read
  netconf,
  addrs,       \* the addresses of the interface
  resolv,      \* /etc/resolv.conf: "old", "empty", or servers and domains
  route        \* the default route: "none", "l2", "other" or a gateway

netconfVars == <<npc, link, offer, netconf, addrs, resolv, route>>

NetconfInit ==
  /\ npc = "ifup" /\ link \in {"down", "up", "unknown"}
  /\ offer = 0 /\ netconf = 0
  /\ addrs = {} /\ resolv = "old" /\ route = "none"

Fails == npc' = "failed"

(* One turn of the loop of IfUp: the link may take its time to come up.    *)
IfUp ==
  /\ npc = "ifup"
  /\ \/ Fails /\ UNCHANGED link                        \* LinkByName, LinkSetUp, timeout
     \/ link \in {"up", "unknown"} /\ npc' = "request" /\ UNCHANGED link
     \/ link = "down" /\ link' \in {"down", "up", "unknown"} /\ UNCHANGED npc
  /\ UNCHANGED <<offer, netconf, addrs, resolv, route>>

(* The checks of GetNetConfFromPacketv4: it returns an error for an OFFER  *)
(* without an address, a netmask, a DNS server or a router, and for one    *)
(* whose domain search option has no labels.  search is <<>> without that  *)
(* option, and <<labels>> with it.                                         *)
Complete(o) ==
  /\ o.yourIP # "0.0.0.0"
  /\ o.ones \notin {-1, 0}                             \* no netmask, or a null one
  /\ o.dns # <<>>
  /\ o.search # << <<>> >>
  /\ o.routers # <<>>

GetNetConfFromPacketv4(o) ==
  [addr |-> <<o.yourIP, o.ones>>, dns |-> o.dns, search |-> o.search, routers |-> o.routers]

IsOffer(m) == m.type = "offer"

(* ConversationToNetconfv4: the first OFFER of the conversation counts.    *)
(* Others may have set up a default route by then.                         *)
ConversationToNetconfv4(conv) ==
  /\ npc = "request"
  /\ \/ ~(\E k \in DOMAIN conv : IsOffer(conv[k])) /\ Fails /\ UNCHANGED <<offer, netconf>>
     \/ /\ \E k \in DOMAIN conv : IsOffer(conv[k])
        /\ offer' \in Offers
        /\ \/ ~Complete(offer') /\ Fails /\ UNCHANGED netconf
           \/ Complete(offer') /\ netconf' = GetNetConfFromPacketv4(offer') /\ npc' = "address"
  /\ route' \in Routes
  /\ UNCHANGED <<link, addrs, resolv>>

(* LinkByName and AddrReplace.  An error of AddrReplace counts only when   *)
(* it says that the address exists.                                        *)
ReplaceAddress ==
  /\ npc = "address"
  /\ \/ Fails /\ UNCHANGED addrs                       \* LinkByName, or EEXIST
     \/ npc' = "resolv" /\ addrs' = addrs \cup {netconf.addr}
     \/ npc' = "resolv" /\ UNCHANGED addrs             \* any other error
  /\ UNCHANGED <<link, offer, netconf, resolv, route>>

(* ioutil.WriteFile truncates before it writes.                            *)
WriteResolvConf ==
  /\ npc = "resolv"
  /\ \/ Fails /\ resolv' \in {resolv, "empty"}
     \/ /\ resolv' = <<netconf.dns, netconf.search>>
        /\ npc' = IF netconf.routers = <<>> THEN "configured" ELSE "delete"
  /\ UNCHANGED <<link, offer, netconf, addrs, route>>

(* LinkByName and RouteDel, whose error is ignored.  It takes away a route *)
(* without a gateway, and no other.                                        *)
DeleteRoute ==
  /\ npc = "delete"
  /\ \/ Fails /\ UNCHANGED route
     \/ npc' = "add" /\ route' = IF route = "l2" THEN "none" ELSE route
     \/ npc' = "add" /\ UNCHANGED route
  /\ UNCHANGED <<link, offer, netconf, addrs, resolv>>

(* The kernel takes a default route when there is none, and a source       *)
(* address only if it is the machine's own.                                *)
RouteAdd(src, gw) == route = "none" /\ (src = <<>> \/ src \in addrs) /\ route' = gw

(* Mutant: the route has no source address.                                *)
AddRouteNoSource ==
  /\ npc = "add"
  /\ \/ Fails /\ UNCHANGED route
     \/ RouteAdd(<<>>, Head(netconf.routers)) /\ npc' = "configured"
  /\ UNCHANGED <<link, offer, netconf, addrs, resolv>>

AddRoute ==
  /\ npc = "add"
  /\ \/ Fails /\ UNCHANGED route
     \/ RouteAdd(netconf.addr, Head(netconf.routers)) /\ npc' = "configured"
  /\ UNCHANGED <<link, offer, netconf, addrs, resolv>>

ConfigureInterface == ReplaceAddress \/ WriteResolvConf \/ DeleteRoute \/ AddRoute

-----------------------------------------------------------------------------
(* When ConfigureInterface returns without an error, the interface has the *)
(* address, resolv.conf the servers and the domains, and the default route *)
(* is the first router of the OFFER.  That an error of AddrReplace is      *)
(* dropped does no harm here, because RouteAdd names the address as source *)
(* and fails without it.                                                   *)
Configured ==
  npc = "configured" =>
    /\ <<offer.yourIP, offer.ones>> \in addrs
    /\ resolv = <<offer.dns, offer.search>>
    /\ route = offer.routers[1]
=============================================================================
