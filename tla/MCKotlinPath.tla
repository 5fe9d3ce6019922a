--------------------------- MODULE MCKotlinPath ---------------------------
(***************************************************************************)
(* KotlinPath for TLC.  The ClientHello ends at the last sequence numbers, *)
(* its length is odd and its bytes make the sums carry.  The ids of the    *)
(* first two queries make the checksum of an answer zero, and its sum one  *)
(* that has to be folded twice.                                            *)
(***************************************************************************)
EXTENDS KotlinPath

Base == [v6 |-> FALSE, proto |-> "tcp", src |-> 65535, dst |-> 257, sport |-> 5000,
         dport |-> 443, seq |-> <<65535, 65533>>, dns |-> <<>>, data |-> <<>>, len |-> 0,
         sum |-> 0, ipsum |-> 0]

Hello == <<22, 3, 1, 0, 4, 1, 255, 255, 255>>
Query(id, host, qtype) ==
    [Base EXCEPT !.proto = "udp", !.dport = 53,
                 !.dns = [id |-> id, qr |-> 0, host |-> host, qtype |-> qtype, addrs |-> <<>>]]

MCHosts == {<<7>>}
MCPackets ==
    {[Base EXCEPT !.data = Hello], [Base EXCEPT !.data = Append(Hello, 255), !.v6 = TRUE],
     [Base EXCEPT !.data = [Hello EXCEPT ![5] = 9]], [Base EXCEPT !.proto = "udp"],
     [Base EXCEPT !.proto = "icmp"],
     [Base EXCEPT !.proto = "udp", !.dport = 53],
     Query(26120, <<7>>, 1), Query(26121, <<7>>, 1), [Query(1, <<7>>, 28) EXCEPT !.v6 = TRUE]}

MCConfigs ==
    {[intercept |-> TRUE, disorder |-> TRUE, split |-> [base |-> 0, mode |-> "s"]],
     [intercept |-> TRUE, disorder |-> FALSE, split |-> [base |-> 1, mode |-> "r"]],
     [intercept |-> FALSE, disorder |-> FALSE, split |-> [base |-> 20, mode |-> "m"]]}
============================================================================
