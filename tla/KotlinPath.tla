----------------------------- MODULE KotlinPath -----------------------------
(***************************************************************************)
(* The fallback data path in Kotlin, used when tun2socks is not built:     *)
(* runKotlinPacketLoop() hands every packet of the TUN device to a thread  *)
(* pool, PacketProcessor splits a TLS ClientHello into two TCP segments,   *)
(* DnsInterceptor answers DNS queries itself with what DohResolver found   *)
(* out, and ChecksumUtils recomputes the checksums of what is rewritten.   *)
(* The pool's tasks hold the monitor of the output stream while they work, *)
(* a DNS lookup included; the connectivity monitor looks names up on its   *)
(* own thread, and both share the resolver's cache.                        *)
(*                                                                         *)
(* Addresses of hosts are pairs <<family, time>>: the time stands for what *)
(* the servers answered then.  An IP address and each header field that no *)
(* rewriting touches is one 16-bit word.  Host names that are IP literals  *)
(* are left out.                                                           *)
(***************************************************************************)
EXTENDS Integers, Sequences, FiniteSets, SequencesExt

CONSTANTS
    Packets,        \* what applications may send
    Configs,        \* the configurations (BypassConfig) presets lead to
    Hosts,          \* host names, as bytes
    NProviders,     \* Len(PROVIDERS)
    CACHE_TTL,      \* in ticks of the clock
    MaxPackets,     \* bound on the packets read
    MaxClock,       \* bound on the clock
    MaxChecks       \* bound on the lookups of the connectivity monitor

ASSUME KotlinPathAssumption ==
    /\ NProviders \in Nat \ {0} /\ CACHE_TTL \in Nat \ {0}
    /\ MaxPackets \in Nat /\ MaxClock \in Nat /\ MaxChecks \in Nat

(* A packet as its headers are parsed: dns holds the query of a datagram   *)
(* that parses as one, and is empty otherwise.                             *)
U16 == 0..65535
DnsQuery == [id : U16, qr : U16, host : Hosts, qtype : Nat, addrs : {<<>>}]
Packet == [v6 : BOOLEAN, proto : STRING, src : U16, dst : U16, sport : U16, dport : U16,
           seq : U16 \X U16, dns : {<<>>} \cup DnsQuery, data : Seq(0..255), len : U16,
           sum : U16, ipsum : U16]

ASSUME PacketsAssumption ==
    /\ Hosts \subseteq Seq(0..255)
    /\ \A p \in Packets : p \in Packet /\ (p.proto # "udp" => p.dns = <<>>)

VARIABLES
    running,  \* isRunning, and the TUN descriptor is open
    nread,    \* packets read so far
    queue,    \* tasks of the pool that wait for the monitor of output
    cur,      \* the task that holds it
    out,      \* the packets that task has written to the TUN device
    look,     \* the lookups under way: of the task with the lock, of the monitor
    cache,    \* DohResolver.cache
    clock,
    checks    \* lookups the connectivity monitor has begun

vars == <<running, nread, queue, cur, out, look, cache, clock, checks>>

(***************************************************************************)
(* ChecksumUtils.                                                          *)
(***************************************************************************)
Word(w) == <<w \div 256, w % 256>>
Words(ws) == FlattenSeq([i \in 1..Len(ws) |-> Word(ws[i])])

(* The sum of the 16-bit words of b; with an odd length the last byte is   *)
(* the high half of a word.                                                *)
OddTail(b) == IF Len(b) % 2 = 1 THEN b[Len(b)] * 256 ELSE 0
Sum16(b) ==
    LET s[i \in 0..(Len(b) \div 2)] ==
            IF i = 0 THEN 0 ELSE s[i - 1] + 256 * b[2 * i - 1] + b[2 * i]
    IN  s[Len(b) \div 2] + OddTail(b)

FoldOnce(s) == (s % 65536) + (s \div 65536)
Folded_once(s) == FoldOnce(s)                                    \* (mutant)
Folded(s) == LET f[n \in Nat] == IF n \in U16 THEN n ELSE f[FoldOnce(n)] IN f[s]

internetChecksum(b) == (65535 - Folded(Sum16(b))) % 65536

ProtoNo(p) == IF p.proto = "tcp" THEN 6 ELSE 17
Data(p) == IF p.dns = <<>> THEN p.data
           ELSE Word(p.dns.id) \o <<p.dns.qr, Len(p.dns.addrs), p.dns.qtype>> \o p.dns.host
                \o FlattenSeq(p.dns.addrs)
HeaderLen(p) == IF p.proto = "tcp" THEN 20 ELSE 8
TransportLen(p) == HeaderLen(p) + Len(Data(p))

(* Pseudo-header, transport header with checksum sum, and payload.         *)
Segment(p, sum) ==
    Words(<<p.src, p.dst, ProtoNo(p), TransportLen(p), p.sport, p.dport, sum>>
          \o IF p.proto = "tcp" THEN p.seq ELSE <<TransportLen(p)>>)
    \o Data(p)
IpHeader(p, sum) == Words(<<p.len, p.src, p.dst, ProtoNo(p), sum>>)

recalcTcpChecksum(p) == [p EXCEPT !.sum = internetChecksum(Segment(p, 0))]
recalcUdpChecksum(p) ==
    LET cs == internetChecksum(Segment(p, 0)) IN [p EXCEPT !.sum = IF cs = 0 THEN 65535 ELSE cs]

(* The length field, then, for IPv4, the checksum of the IP header.        *)
SetLength(p) ==
    IF p.v6 THEN [p EXCEPT !.len = TransportLen(p)]
    ELSE LET q == [p EXCEPT !.len = 20 + TransportLen(p)]
         IN  [q EXCEPT !.ipsum = internetChecksum(IpHeader(q, 0))]

(* The sequence number is two 16-bit halves.                               *)
advanceTcpSeq(seq, delta) ==
    <<(seq[1] + (seq[2] + delta) \div 65536) % 65536, (seq[2] + delta) % 65536>>

(***************************************************************************)
(* PacketProcessor.                                                        *)
(***************************************************************************)
isTlsHandshake(d) ==
    /\ d[1] = 22 /\ d[2] = 3 /\ d[3] \in 1..4 /\ d[6] = 1
    /\ d[4] * 256 + d[5] \in 1..(Len(d) - 5)

Smaller(a, b) == IF a < b THEN a ELSE b

(* frag1PayloadLen, for a splitPosition with the number base and the       *)
(* letters mode.                                                           *)
SplitLengths(split, n) ==
    CASE split.base \in 1..(n - 1) -> {split.base}
      [] split.mode = "m" -> {n \div 2}
      [] split.mode = "end" -> {n - 1}
      [] split.mode = "r" -> 1..(n - 1)
      [] OTHER -> 1..Smaller(5, n - 1)

Fragments(p, k) ==
    LET one == [p EXCEPT !.data = SubSeq(@, 1, k)]
        two == [p EXCEPT !.data = SubSeq(@, k + 1, Len(@)), !.seq = advanceTcpSeq(@, k)]
    IN  <<recalcTcpChecksum(SetLength(one)), recalcTcpChecksum(SetLength(two))>>

(* The lists of packets handleTcp() may write.                             *)
handleTcp(p, cfg) ==
    IF p.dport # 443 \/ Len(p.data) < 9 \/ ~isTlsHandshake(p.data) THEN {<<p>>}
    ELSE {LET f == Fragments(p, k) IN IF cfg.disorder THEN <<f[2], f[1]>> ELSE f :
              k \in SplitLengths(cfg.split, Len(p.data))}

handleUdp(p) == IF p.dport = 443 THEN {<<>>} ELSE {<<p>>}

processPacket(p, cfg) ==
    CASE p.proto = "udp" -> handleUdp(p)
      [] p.proto = "tcp" -> handleTcp(p, cfg)
      [] OTHER -> {<<p>>}

(***************************************************************************)
(* DnsInterceptor.                                                         *)
(***************************************************************************)
Intercepts(p, cfg) == cfg.intercept /\ p.proto = "udp" /\ p.dport = 53

buildAnswerRecords(addresses, qtype) ==
    SetToSeq({a \in addresses : (qtype = 1 /\ a[1] = 4) \/ (qtype = 28 /\ a[1] = 6)})

wrapAsDnsResponse(p, addresses) ==
    LET dns == [p.dns EXCEPT !.qr = 128, !.addrs = buildAnswerRecords(addresses, p.dns.qtype)]
        q == [p EXCEPT !.src = p.dst, !.dst = p.src, !.sport = 53, !.dport = p.sport,
                       !.dns = dns]
    IN  recalcUdpChecksum(SetLength(q))

(***************************************************************************)
(* DohResolver.resolve(): the cache, then the providers in their order     *)
(* with a query for A and one for AAAA each, then the system's resolver.   *)
(* An exception during either query discards what the provider has said.   *)
(* An entry lives from the end of its lookup, not from its answers: took   *)
(* (history) is how long that lookup had lasted then.                      *)
(***************************************************************************)
NoTask == [at |-> "idle"]
NoLookup == [at |-> "idle", host |-> <<>>, provider |-> 0, found |-> {}, since |-> 0,
             took |-> 0]

Alive(entry) == entry.addrs # {} /\ clock < entry.expires

Resolve(host) ==
    LET new == [NoLookup EXCEPT !.host = host, !.since = clock] IN
    IF Alive(cache[host])
    THEN [new EXCEPT !.at = "found", !.found = cache[host].addrs, !.took = cache[host].took]
    ELSE [new EXCEPT !.at = "A", !.provider = 1]

NextProvider(l) ==
    IF l.provider < NProviders
    THEN [l EXCEPT !.at = "A", !.provider = @ + 1, !.found = {}]
    ELSE [l EXCEPT !.at = "system", !.found = {}]

queryA(c) ==
    /\ look[c].at = "A"
    /\ \/ \E all \in SUBSET {<<4, clock>>} :
            look' = [look EXCEPT ![c].at = "AAAA", ![c].found = all]
       \/ look' = [look EXCEPT ![c] = NextProvider(@)]           \* an exception
    /\ UNCHANGED <<running, nread, queue, cur, out, cache, clock, checks>>

queryAAAA(c) ==
    /\ look[c].at = "AAAA"
    /\ \/ \E v6 \in SUBSET {<<6, clock>>} :
            LET all == look[c].found \cup v6
            IN  IF all = {}
                THEN look' = [look EXCEPT ![c] = NextProvider(@)] /\ UNCHANGED cache
                ELSE /\ look' = [look EXCEPT ![c].at = "found", ![c].found = all]
                     /\ cache' = [cache EXCEPT ![look[c].host] =
                                    [addrs |-> all, expires |-> clock + CACHE_TTL,
                                     took |-> clock - look[c].since]]
       \/ /\ look' = [look EXCEPT ![c] = NextProvider(@)]        \* an exception
          /\ UNCHANGED cache
    /\ UNCHANGED <<running, nread, queue, cur, out, clock, checks>>

getAllByName(c) ==
    /\ look[c].at = "system"
    /\ \E all \in SUBSET {<<4, clock>>, <<6, clock>>} :
          look' = [look EXCEPT ![c].at = "found", ![c].found = all]
    /\ UNCHANGED <<running, nread, queue, cur, out, cache, clock, checks>>

(* The connectivity monitor warms the cache up.                            *)
testConnectivity ==
    /\ \/ /\ running /\ look["monitor"].at = "idle" /\ checks < MaxChecks
          /\ \E h \in Hosts : look' = [look EXCEPT !["monitor"] = Resolve(h)]
          /\ checks' = checks + 1
       \/ /\ look["monitor"].at = "found"
          /\ look' = [look EXCEPT !["monitor"] = NoLookup]
          /\ UNCHANGED checks
    /\ UNCHANGED <<running, nread, queue, cur, out, cache, clock>>

(***************************************************************************)
(* The packet loop and the tasks of its pool.                              *)
(***************************************************************************)
(* The task keeps a snapshot of currentConfig, which a preset switch may   *)
(* replace at any time.                                                    *)
read ==
    /\ running /\ nread < MaxPackets
    /\ nread' = nread + 1
    /\ \E p \in Packets, cfg \in Configs : queue' = Append(queue, [pkt |-> p, cfg |-> cfg])
    /\ UNCHANGED <<running, cur, out, look, cache, clock, checks>>

(* A task of the pool, not always the oldest, enters the monitor and       *)
(* decides what to write.                                                  *)
Enter(t, at, todo) == cur' = [pkt |-> t.pkt, cfg |-> t.cfg, at |-> at, todo |-> todo,
                              failed |-> FALSE]

process(i) ==
    LET p == queue[i].pkt
        cfg == queue[i].cfg
    IN
    /\ cur.at = "idle"
    /\ queue' = RemoveAt(queue, i)
    /\ \/ /\ ~Intercepts(p, cfg)
          /\ \E ps \in processPacket(p, cfg) : Enter(queue[i], "write", ps)
          /\ UNCHANGED look
       \/ /\ Intercepts(p, cfg) /\ p.dns = <<>>       \* too short, or not parseable
          /\ Enter(queue[i], "write", <<>>)
          /\ UNCHANGED look
       \/ /\ Intercepts(p, cfg) /\ p.dns # <<>>
          /\ Enter(queue[i], "lookup", <<>>)
          /\ look' = [look EXCEPT !["task"] = Resolve(p.dns.host)]
    /\ UNCHANGED <<running, nread, out, cache, clock, checks>>

answer ==
    /\ cur.at = "lookup" /\ look["task"].at = "found"
    /\ cur' = [cur EXCEPT !.at = "write",
                          !.todo = <<wrapAsDnsResponse(cur.pkt, look["task"].found)>>]
    /\ UNCHANGED <<running, nread, queue, out, look, cache, clock, checks>>

(* One output.write().  It fails once the descriptor is closed, or for a   *)
(* reason of the device.  After a failure processPacket() tries once to    *)
(* write the packet as it came; a DNS query is given up.                   *)
Retry_always == <<cur.pkt>>                                      \* (mutant)
Retry == IF look["task"].at = "found" THEN <<>> ELSE <<cur.pkt>>

write ==
    /\ cur.at = "write" /\ cur.todo # <<>>
    /\ \/ /\ running
          /\ out' = Append(out, Head(cur.todo))
          /\ cur' = [cur EXCEPT !.todo = Tail(@)]
       \/ /\ UNCHANGED out
          /\ cur' = [cur EXCEPT !.failed = TRUE, !.todo = IF cur.failed THEN <<>> ELSE Retry]
    /\ UNCHANGED <<running, nread, queue, look, cache, clock, checks>>

leave ==
    /\ cur.at = "write" /\ cur.todo = <<>>
    /\ cur' = NoTask /\ out' = <<>>
    /\ look' = [look EXCEPT !["task"] = NoLookup]
    /\ UNCHANGED <<running, nread, queue, cache, clock, checks>>

(* stopVpn() closes the descriptor and shuts the pool down.  A cached pool *)
(* keeps no task waiting for a thread, and shutdownNow() only interrupts   *)
(* the threads: the task in the monitor and those blocked on it go on, and *)
(* their writes fail.                                                      *)
stopVpn ==
    /\ running /\ running' = FALSE
    /\ UNCHANGED <<nread, queue, cur, out, look, cache, clock, checks>>

tick ==
    /\ clock < MaxClock /\ clock' = clock + 1
    /\ UNCHANGED <<running, nread, queue, cur, out, look, cache, checks>>

Init ==
    /\ running = TRUE
    /\ nread = 0 /\ queue = <<>> /\ cur = NoTask /\ out = <<>>
    /\ look = [c \in {"task", "monitor"} |-> NoLookup]
    /\ cache = [h \in Hosts |-> [addrs |-> {}, expires |-> 0, took |-> 0]]
    /\ clock = 0 /\ checks = 0

Next ==
    \/ read \/ stopVpn \/ tick \/ testConnectivity
    \/ (\E i \in DOMAIN queue : process(i)) \/ answer \/ write \/ leave
    \/ \E c \in DOMAIN look : queryA(c) \/ queryAAAA(c) \/ getAllByName(c)

Spec == Init /\ [][Next]_vars

----------------------------------------------------------------------------
(* The receiver's check, stated without folding: the words of a datagram,  *)
(* its checksum among them, add up to a multiple of 65535.                 *)
Total(b) == LET s[i \in 0..Len(b)] ==
                    IF i = 0 THEN 0 ELSE s[i - 1] + IF i % 2 = 1 THEN 256 * b[i] ELSE b[i]
            IN  s[Len(b)]
Accepted(p) ==
    /\ Total(Segment(p, p.sum)) % 65535 = 0
    /\ p.v6 \/ Total(IpHeader(p, p.ipsum)) % 65535 = 0
    /\ p.proto = "udp" => p.sum # 0
    /\ p.len = TransportLen(p) + IF p.v6 THEN 0 ELSE 20

(* The bytes a segment puts into the stream, by their sequence numbers.    *)
NextSeq(s) == IF s[2] < 65535 THEN <<s[1], s[2] + 1>>
              ELSE <<IF s[1] < 65535 THEN s[1] + 1 ELSE 0, 0>>
Stream(p) ==
    LET at[i \in 1..Len(p.data)] == IF i = 1 THEN p.seq ELSE NextSeq(at[i - 1])
    IN  {<<at[i], p.data[i]>> : i \in DOMAIN p.data}

(* A packet that the path rewrote has lengths and checksums the receiver   *)
(* accepts, and what is written for a TCP packet is the packet's own       *)
(* bytes at their own sequence numbers: all of them once the task is over  *)
(* and no write failed, and nothing else even when the write of one        *)
(* segment failed and the whole packet followed (handleTcp(),              *)
(* PacketProcessor.kt:104; internetChecksum(), ChecksumUtils.kt:18;        *)
(* processPacket()'s catch, PacketProcessor.kt:62).                        *)
SegmentsSound ==
    /\ \A q \in Range(out) : q # cur.pkt => Accepted(q)
    /\ cur.at # "idle" /\ cur.pkt.proto = "tcp" =>
          /\ \A q \in Range(out) : Stream(q) \subseteq Stream(cur.pkt)
          /\ cur.todo = <<>> /\ ~cur.failed
                => UNION {Stream(q) : q \in Range(out)} = Stream(cur.pkt)

(* With interception on when the query was read, no datagram for port 53   *)
(* with a whole UDP header is written, whatever fails (one with a cut      *)
(* header is not recognised and forwarded, DnsInterceptor.kt:57); an       *)
(* answer goes back to the port that asked, under the query's id and name, *)
(* with addresses of the type it asked for, and there is at most one.  No  *)
(* address is older, when the lookup began, than the cache's lifetime and  *)
(* the time that the lookup which found it took, since the lifetime counts *)
(* from the end of both queries (tryIntercept(), DnsInterceptor.kt:47;     *)
(* resolve(), DohResolver.kt:76).                                          *)
NamesAnswered ==
    cur.at # "idle" /\ Intercepts(cur.pkt, cur.cfg) =>
        /\ Len(out) =< 1
        /\ \A a \in Range(out) :
              /\ a.sport = 53 /\ a.dport = cur.pkt.sport /\ a.dst = cur.pkt.src
              /\ a.dns.id = cur.pkt.dns.id /\ a.dns.host = cur.pkt.dns.host
              /\ \A r \in Range(a.dns.addrs) :
                    /\ r[1] = IF cur.pkt.dns.qtype = 1 THEN 4 ELSE 6
                    /\ r[2] > (look["task"].since - look["task"].took) - CACHE_TTL
=============================================================================
