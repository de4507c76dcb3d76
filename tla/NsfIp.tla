-------------------------------- MODULE NsfIp --------------------------------
(***************************************************************************)
(* What a host does with an IP packet: the checks of src/src/nsfip.c, the     *)
(* echo and error rules of src/src/nsficmp.c, and what src/src/nsfudp.c and    *)
(* src/src/nsftcp.c do with a packet that finds no socket.                      *)
(*                                                                         *)
(* A packet is a record of what these rules look at: source, destination,     *)
(* protocol, what is inside, and the first thing that is wrong with it.  A     *)
(* host is a record of its addresses and of the destinations its routes lead    *)
(* to.  Addresses are strings; "none" and "all" stand for 0.0.0.0 and for       *)
(* broadcast and multicast.                                                      *)
(***************************************************************************)
EXTENDS Integers

Protocols == {"icmp", "udp", "tcp", "unknown"}

(* What is inside: ICMP types; a UDP port or TCP connection that exists or    *)
(* does not; the reset of a connection.                                        *)
Contents == {"echo", "reply", "error", "open", "closed", "reset"}

(* Wrong with it, in the order of the checks: the CTC segment's length or      *)
(* type, lengths, version, header checksum, a fragment, the payload's length     *)
(* or checksum.                                                                  *)
Faults == {"segment", "nonip", "length", "header", "checksum", "fragment",
           "payload", "none"}

Packets == [src : STRING, dst : STRING, proto : Protocols, of : Contents,
            fault : Faults]

Unicast(a) == a \notin {"none", "all"}

nsfip_is_local(host, a) == a \in host.local
nsfip_route(host, a) == a \in host.routed

(* What becomes of a packet: it is dropped, it goes to a socket, it is turned  *)
(* into its answer, or it is dropped and an answer is built.                     *)
Dropped    == [what |-> "drop"]
ToSocket   == [what |-> "socket"]
Turned(p)  == [what |-> "turned", pkt |-> p]
Refused(p) == [what |-> "refused", pkt |-> p]

Answer(p, proto, of) ==
    [src |-> p.dst, dst |-> p.src, proto |-> proto, of |-> of, fault |-> "none"]

(* Only an echo request is answered, in its own buffer. *)
nsficmp_input(p) ==
    IF p.fault = "payload" \/ p.of # "echo" THEN Dropped
    ELSE Turned(Answer(p, "icmp", "reply"))

(* No error about a fragment, an ICMP error, or to or from more than one host. *)
nsficmp_send_error(p) ==
    IF \/ p.fault = "fragment" \/ ~Unicast(p.src) \/ p.dst = "all"
       \/ p.proto = "icmp" /\ p.of = "error"
    THEN Dropped
    ELSE Refused(Answer(p, "icmp", "error"))

nsfudp_input(p) ==
    CASE p.fault = "payload" -> Dropped
      [] p.of = "open"       -> ToSocket
      [] OTHER               -> nsficmp_send_error(p)

(* tcp_closed_input and tcp_output_rst. *)
nsftcp_input(p) ==
    CASE p.fault = "payload" -> Dropped
      [] p.of = "open"       -> ToSocket
      [] OTHER -> IF p.of = "reset" \/ ~Unicast(p.src) THEN Dropped
                  ELSE Refused(Answer(p, "tcp", "reset"))

(* nsfip_input, and nsf_rx_packet that calls it. *)
nsfip_input(host, p) ==
    IF p.fault \notin {"payload", "none"} \/ ~nsfip_is_local(host, p.dst)
    THEN Dropped
    ELSE CASE p.proto = "icmp" -> nsficmp_input(p)
           [] p.proto = "udp"  -> nsfudp_input(p)
           [] p.proto = "tcp"  -> nsftcp_input(p)
           [] OTHER            -> nsficmp_send_error(p)

(* The packets another host sends because it received this one. *)
Answers(host, p) ==
    LET r == nsfip_input(host, p)
    IN  IF r.what \in {"turned", "refused"} /\ nsfip_route(host, r.pkt.dst)
        THEN {r.pkt} ELSE {}
=============================================================================
