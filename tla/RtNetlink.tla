----------------------------- MODULE RtNetlink ------------------------------
(***************************************************************************)
(* The messages that give the daemon's routes to the kernel's own routing  *)
(* table: nl_kernel_route and addattr (nl.c) lay out an RTM_NEWROUTE or    *)
(* RTM_DELROUTE message, and the kernel (external) parses its attributes.  *)
(*                                                                         *)
(* Sizes are in words of 4 bytes: a struct nlmsghdr has 4, a struct rtmsg  *)
(* 3, and an attribute of the program 2, its rtattr and its value.  The    *)
(* request is a local variable, so a word that is never written has the    *)
(* value that the stack happens to hold.                                   *)
(***************************************************************************)
EXTENDS Naturals

CONSTANTS
  Addr,      \* addresses of hosts
  IfIndex,   \* the index of the interface, at least 1
  Metric     \* hop counts

VARIABLES
  asked,   \* the attributes that the last call was to send
  seen     \* the attributes that the kernel found in its message

vars == <<asked, seen>>

NLMSG_HDRLEN == 4
RTMSG_LEN    == 3
RTA_LEN      == 2

NLMSG_LENGTH(len) == len + NLMSG_HDRLEN

Attr == {"DST", "GATEWAY", "OIF", "PRIORITY"}

\* Words of attrbuf (7 to 23): the rtattr of an attribute, the value of one, or a word that
\* is neither.
Rtattr == {"rtattr"} \X Attr
Junk   == Rtattr \cup {<<"junk", 0>>}

\* addattr puts the attribute behind the message, and makes the message longer.
addattr(req, type, data) ==
  LET attr == NLMSG_LENGTH(req.len)
  IN  [len |-> req.len + RTA_LEN,
       buf |-> [req.buf EXCEPT ![attr] = <<"rtattr", type>>, ![attr + 1] = <<"value", data>>]]

\* nl_kernel_route, in a frame that holds the words of stack.  nl_send_del_route_msg
\* passes index -1, here 0.
nl_kernel_route(stack, dest, gw, index, metric) ==
  LET r0 == [len |-> NLMSG_LENGTH(RTMSG_LEN), buf |-> stack]
      r1 == addattr(r0, "DST", dest)
      r2 == IF dest # gw THEN addattr(r1, "GATEWAY", gw) ELSE r1
      r3 == IF index > 0 THEN addattr(r2, "OIF", index) ELSE r2
  IN  addattr(r3, "PRIORITY", metric)

\* the route that the call is about
Route(dest, gw, index, metric) ==
  {<<"DST", dest>>, <<"PRIORITY", metric>>}
    \cup (IF dest # gw THEN {<<"GATEWAY", gw>>} ELSE {})
    \cup (IF index > 0 THEN {<<"OIF", index>>} ELSE {})

\* The kernel reads attributes from the end of the rtmsg to the end of the message
\* and stops at what is no rtattr.
nlmsg_parse(req) ==
  LET from[w \in 0 .. req.len] ==
        IF w + RTA_LEN > req.len \/ req.buf[w] \notin Rtattr THEN {}
        ELSE {<<req.buf[w][2], req.buf[w + 1][2]>>} \cup from[w + RTA_LEN]
  IN  from[NLMSG_LENGTH(RTMSG_LEN)]

Init == asked = {} /\ seen = {}

\* nl_send_add_route_msg and nl_send_del_route_msg
Send(dest, gw, index, metric) ==
  /\ asked' = Route(dest, gw, index, metric)
  /\ \E junk \in Junk :
       seen' = nlmsg_parse(nl_kernel_route([w \in 7 .. 23 |-> junk], dest, gw, index, metric))

Next == \E dest, gw \in Addr, index \in {0, IfIndex}, metric \in Metric :
          Send(dest, gw, index, metric)

Spec == Init /\ [][Next]_vars

-----------------------------------------------------------------------------
\* The kernel finds in the message the destination, the next hop, the interface
\* and the metric of the route that nl_send_add_route_msg logs as added or updated
\* (nl.c:467).  Only that call names the interface.
RouteReachesKernel == <<"OIF", IfIndex>> \in asked => seen = asked
=============================================================================
