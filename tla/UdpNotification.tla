--------------------------- MODULE UdpNotification ---------------------------
(***************************************************************************)
(* MulticastUdpNotification: datagrams without content to every socket of  *)
(* a multicast group.                                                      *)
(*                                                                         *)
(* A socket is the number of datagrams that wait in its receive buffer, or *)
(* Closed.  The constructor opens it and joins the group; whatever fails   *)
(* on the way closes it and throws.                                        *)
(***************************************************************************)
EXTENDS Integers

CONSTANT SockBuf    \* datagrams a receive buffer holds

ASSUME SocketAssumption == SockBuf \in Nat \ {0}

Closed == -1

Sockets == {Closed} \cup 0 .. SockBuf

(* MulticastUdpNotification(): socket, SO_REUSEADDR, bind, the membership  *)
(* and the interface; whichever fails, nothing is left open and it throws. *)
Constructed(fails) == IF fails THEN Closed ELSE 0

(* Send: a copy for every socket in the group, dropped where the buffer is *)
(* full; the sender is a member too.                                       *)
Sent(sock) ==
    [p \in DOMAIN sock |->
        IF sock[p] = Closed \/ sock[p] = SockBuf THEN sock[p] ELSE sock[p] + 1]

(* Wait returns when there is a datagram, which it takes.                  *)
CanReceive(s) == s > 0
Received(s) == s - 1

(* Peek takes nothing; an error other than EAGAIN counts as a datagram.    *)
Peek(s, error) == CanReceive(s) \/ error
==============================================================================
