------------------------------ MODULE MCNsfDev ------------------------------
(* Instance of NsfDev for TLC: two hosts, and a third the routes do not know. *)
EXTENDS NsfDev

CONSTANTS b1, b2

MCHost == [local |-> {"host"}, routed |-> {"peer", "all"}]
MCPeer == [local |-> {"peer"}, routed |-> {"host"}]

Pkt(src, dst, proto, of, fault) ==
    [src |-> src, dst |-> dst, proto |-> proto, of |-> of, fault |-> fault]
In(proto, of) == Pkt("peer", "host", proto, of, "none")

MCBlocks == {
    <<In("icmp", "echo"), In("udp", "open")>>,
    <<Pkt("peer", "host", "udp", "open", "nonip"), In("udp", "closed"),
      Pkt("peer", "host", "icmp", "echo", "segment"), In("udp", "open")>>,
    <<Pkt("all", "host", "tcp", "closed", "none"), In("unknown", "open"),
      Pkt("far", "host", "icmp", "echo", "none")>>,
    <<In("tcp", "closed"), Pkt("peer", "host", "icmp", "echo", "checksum")>> }

MCOurs == {Pkt("host", "peer", "udp", "closed", "none"),
           Pkt("host", "peer", "tcp", "closed", "none")}
=============================================================================
