------------------------------- MODULE Snat -------------------------------
(***************************************************************************)
(* bpf_snat.c: the BPF programs that give the packets of a load balancer,  *)
(* on their way from a client to a real server, a local source address and *)
(* port, and undo this for the replies and for ICMP errors in both         *)
(* directions, with all checksums updated.                                 *)
(*                                                                         *)
(* Words are WordBits wide instead of 16, and addresses twice as wide.     *)
(***************************************************************************)
EXTENDS Integers

CONSTANTS
    WordBits,             \* bound: the width of __be16
    Addr, Port,           \* addresses and ports of clients and of the balancer
    ServerAddr, ServerPort

Base == 2 ^ WordBits
Word == 0 .. Base - 1
Ones == Base - 1               \* 0xffff
Ones2 == Base * Base - 1       \* 0xffffffff

ASSUME WordAssumption == WordBits \in Nat /\ WordBits > 1
ASSUME AddrAssumption == /\ Addr \cup {ServerAddr} \subseteq 0 .. Ones2
                         /\ Port \cup {ServerPort} \subseteq Word

VARIABLES
    conn,    \* the connection that the kernel has put in conntrack_hash_tab
    skb,     \* the packet
    hook     \* where it is

snatOnly == <<conn, skb, hook>>

---------------------------------------------------------------------------
(* Checksums.                                                              *)

\* Mutant: the carry of the first addition is dropped.
FoldOnce(csum) == Ones - (((csum % Base) + (csum \div Base)) % Base)

bpf_csum_fold(csum) ==
    LET once == (csum % Base) + (csum \div Base)
        twice == (once % Base) + (once \div Base)
    IN Ones - (twice % Base)
csum_add(csum, addend) ==
    LET res == (csum + addend) % (Ones2 + 1)
    IN (res + (IF res < addend THEN 1 ELSE 0)) % (Ones2 + 1)
csum_sub(csum, addend) == csum_add(csum, Ones2 - addend)
csum_replace4(sum, from, to) == bpf_csum_fold(csum_add(csum_sub(Ones2 - sum, from), to))

\* The helpers of the kernel.  A UDP checksum of 0 says that there is none, and
\* one that becomes 0 is written in its other representation.
bpf_csum_diff(from, to, seed) == csum_add(csum_sub(seed, from), to)
bpf_l3_csum_replace(sum, diff) == bpf_csum_fold(csum_add(Ones2 - sum, diff))
csum_l4_replace(proto, sum, from, to) ==
    LET new == csum_replace4(sum, from, to)
    IN CASE proto = "UDP" /\ sum = 0 -> 0
         [] proto = "UDP" /\ sum # 0 /\ new = 0 -> Ones
         [] OTHER -> new

\* The checksum of the IP header h, computed anew.
header_csum(h) == bpf_csum_fold(csum_add(csum_add(h.saddr, h.daddr), h.rest))

---------------------------------------------------------------------------
(* Packets, and the two directions: 1 at egress and 0 at ingress.          *)

\* struct bpf_lb_conn_key, with vip:vport as whether they are those of the
\* connection; and the two entries that the kernel makes for a connection.
Key(proto, sip, sport, dip, dport, vip) ==
    [proto |-> proto, sip |-> sip, sport |-> sport, dip |-> dip, dport |-> dport, vip |-> vip]
conntrack_hash_tab ==
    {[key |-> Key(conn.proto, conn.cip, conn.cport, ServerAddr, ServerPort, TRUE),
      addr |-> conn.lip, port |-> conn.lport],
     [key |-> Key(conn.proto, ServerAddr, ServerPort, conn.lip, conn.lport, FALSE),
      addr |-> conn.cip, port |-> conn.cport]}
bpf_map_lookup_elem(key) == {e \in conntrack_hash_tab : e.key = key}

\* Mutant: the packet inside is looked up as it is.
UnrevertedKey(p, dir) ==
    Key(p.inside.proto, p.inside.saddr, p.inside.sport, p.inside.daddr, p.inside.dport,
        dir = 1 /\ p.mark)

\* The packet inside an ICMP error went in the other direction.
IcmpKey(p, dir) ==
    Key(p.inside.proto, p.inside.daddr, p.inside.dport, p.inside.saddr, p.inside.sport,
        dir = 1 /\ p.mark)
PacketKey(p, dir) == Key(p.proto, p.saddr, p.sport, p.daddr, p.dport, dir = 1 /\ p.mark)

\* new differs from p in addresses and ports.
nf_nat_manip_pkt(p, new) ==
    LET d == IF new.daddr = p.daddr THEN 0 ELSE bpf_csum_diff(p.daddr, new.daddr, 0)
        sum == IF new.saddr = p.saddr THEN d ELSE bpf_csum_diff(p.saddr, new.saddr, d)
        addr == csum_l4_replace(p.proto, p.l4check, 0, sum)
        dport == IF new.dport = p.dport THEN addr
                 ELSE csum_l4_replace(p.proto, addr, p.dport, new.dport)
        sport == IF new.sport = p.sport THEN dport
                 ELSE csum_l4_replace(p.proto, dport, p.sport, new.sport)
    IN [new EXCEPT !.check = bpf_l3_csum_replace(@, sum), !.l4check = sport]

\* With the value e that was found: the header inside and its ports, the checksum
\* of ICMP for the difference of the ports only, and the header outside.
Summed(h) == [h EXCEPT !.check = header_csum(h)]
nf_nat_icmp_reply_translation(p, dir, e) ==
    IF dir = 0
    THEN Summed([p EXCEPT !.inside = Summed([@ EXCEPT !.saddr = e.addr, !.sport = e.port]),
                          !.l4check = csum_replace4(@, p.inside.sport, e.port),
                          !.daddr = e.addr])
    ELSE Summed([p EXCEPT !.inside = Summed([@ EXCEPT !.daddr = e.addr, !.dport = e.port]),
                          !.l4check = csum_replace4(@, p.inside.dport, e.port),
                          !.saddr = e.addr])

\* The mark is reset at egress when it has been read.
Unmarked(p, dir) == [p EXCEPT !.mark = @ /\ dir = 0]

---------------------------------------------------------------------------
(* nf_nat_ipv4_fn(), the whole of both programs.                           *)

Pass(p, next) == skb' = p /\ hook' = next /\ UNCHANGED conn
Shoot == hook' = "dropped" /\ UNCHANGED <<skb, conn>>

\* Not IPv4 or cut off in the IP header, another protocol, an ICMP packet that is
\* cut off or no error.
Unhandled(p) == \/ p.upto = "eth" \/ p.proto = "other"
                \/ p.proto = "ICMP" /\ (p.upto = "ip" \/ ~p.error)

Ignore(next) == Unhandled(skb) /\ Pass(skb, next)
Icmp(dir, next) ==
    LET found == bpf_map_lookup_elem(IcmpKey(skb, dir))
    IN /\ ~Unhandled(skb) /\ skb.proto = "ICMP"
       /\ Pass(IF found = {} THEN Unmarked(skb, dir)
               ELSE LET e == CHOOSE e \in found : TRUE
                    IN Unmarked(nf_nat_icmp_reply_translation(skb, dir, e), dir), next)

\* A helper that fails to read or to write drops the packet.
Manip(dir, next) ==
    LET found == bpf_map_lookup_elem(PacketKey(skb, dir))
    IN /\ ~Unhandled(skb) /\ skb.proto # "ICMP" /\ skb.upto = "end"
       /\ Pass(IF found = {} THEN Unmarked(skb, dir)
               ELSE LET e == CHOOSE e \in found : TRUE
                    IN Unmarked(nf_nat_manip_pkt(skb,
                          IF dir = 0 THEN [skb EXCEPT !.daddr = e.addr, !.dport = e.port]
                          ELSE [skb EXCEPT !.saddr = e.addr, !.sport = e.port]), dir), next)
Fail(dir) ==
    /\ ~Unhandled(skb) /\ skb.proto # "ICMP"
    /\ skb.upto = "end" => bpf_map_lookup_elem(PacketKey(skb, dir)) # {}
    /\ Shoot

nf_nat_ipv4_fn(dir, next) == Ignore(next) \/ Icmp(dir, next) \/ Manip(dir, next) \/ Fail(dir)
tc_egress == hook = "egress" /\ nf_nat_ipv4_fn(1, "network")
tc_ingress == hook = "ingress" /\ nf_nat_ipv4_fn(0, "host")

---------------------------------------------------------------------------
(* The ends of the connection.                                             *)

\* Independent of the code: a checksum is right if all words add up to a multiple
\* of 0xffff.
Halves(n) == (n % Base) + (n \div Base)
IpSum(h) == Halves(h.saddr) + Halves(h.daddr) + h.rest + h.check
L4Sum(p) == p.body + p.l4check +
            (IF p.proto = "ICMP" THEN IpSum(p.inside) + p.inside.sport + p.inside.dport
             ELSE Halves(p.saddr) + Halves(p.daddr) + p.sport + p.dport)
Good(sum) == sum % Ones = 0
IpGood(h) == Good(IpSum(h))
L4Good(p) == (p.proto = "UDP" /\ p.l4check = 0) \/ Good(L4Sum(p))

\* A packet with the checksums of its sender.
Made(p) == {q \in {[p EXCEPT !.check = c, !.l4check = k] : c \in Word, k \in Word} :
               IpGood(q) /\ L4Good(q)}
NoInside == [proto |-> "other", saddr |-> 0, daddr |-> 0, sport |-> 0, dport |-> 0, rest |-> 0,
             check |-> 0]
Plain(proto, sip, sport, dip, dport, rest, body, mark) ==
    [proto |-> proto, upto |-> "end", error |-> FALSE, mark |-> mark, saddr |-> sip, sport |-> sport,
     daddr |-> dip, dport |-> dport, rest |-> rest, body |-> body, check |-> 0, l4check |-> 0,
     inside |-> NoInside]

\* An ICMP error about p.
Error(p, sip, mark) ==
    [Plain("ICMP", sip, 0, p.saddr, 0, p.rest, p.body, mark) EXCEPT
        !.error = TRUE,
        !.inside = [f \in DOMAIN NoInside |-> p[f]]]

SnatInit ==
    /\ conn \in [proto : {"TCP", "UDP"}, cip : Addr, lip : Addr, cport : Port, lport : Port]
    /\ hook = "egress"
    /\ \E proto \in {"TCP", "UDP", "ICMP", "other"}, rest \in Word \ {0}, body \in Word :
          skb \in Made(Plain(proto, conn.cip, conn.cport, ServerAddr, ServerPort, rest, body, TRUE))

Truncate == /\ hook \in {"egress", "ingress"} /\ skb.upto = "end"
            /\ \E upto \in {"eth", "ip"} : skb' = [skb EXCEPT !.upto = upto]
            /\ UNCHANGED <<conn, hook>>

\* The server replies to what it gets, or someone on the way reports an error.
\* The error of a client has passed the kernel's own translation of the virtual
\* address, which sets the mark.
Arrived(at) == hook = at /\ skb.upto = "end" /\ skb.proto \in {"TCP", "UDP"}
ServerReplies ==
    /\ Arrived("network")
    /\ \E p \in Made(Plain(skb.proto, skb.daddr, skb.dport, skb.saddr, skb.sport, skb.rest, skb.body,
                            FALSE)) : Pass(p, "ingress")
ServerFails ==
    /\ Arrived("network")
    /\ \E router \in Addr : \E p \in Made(Error(skb, router, FALSE)) : Pass(p, "ingress")
ClientFails ==
    /\ Arrived("host")
    /\ \E p \in Made(Error(skb, skb.daddr, TRUE)) : Pass(p, "egress")

SnatNext == tc_egress \/ tc_ingress \/ Truncate \/ ServerReplies \/ ServerFails \/ ClientFails

---------------------------------------------------------------------------
(* Properties.                                                             *)

\* Whatever is rewritten, the checksums of a packet that has passed a program are
\* right, that of the header inside an ICMP error included
\* (nf_nat_manip_pkt() computes them from differences,
\* nf_nat_icmp_reply_translation() partly anew).
ChecksumsRight ==
    hook \in {"network", "host"} =>
        /\ IpGood(skb) /\ L4Good(skb)
        /\ skb.error => IpGood(skb.inside)

\* The server has one peer, the client one connection: what goes out is from the
\* local address, what comes back is to the client, and an error is about a packet
\* that its receiver has sent (both directions of nf_nat_ipv4_fn()).
From(p) == <<p.saddr, p.sport>>
To(p) == <<p.daddr, p.dport>>
Local == <<conn.lip, conn.lport>>
Client == <<conn.cip, conn.cport>>
OfConnection(p) == p.upto = "end" /\ conn.proto = (IF p.error THEN p.inside.proto ELSE p.proto)
TranslatedBack ==
    OfConnection(skb) =>
        /\ hook = "network" => IF skb.error THEN skb.saddr = conn.lip /\ To(skb.inside) = Local
                               ELSE From(skb) = Local
        /\ hook = "host" => IF skb.error THEN skb.daddr = conn.cip /\ From(skb.inside) = Client
                            ELSE To(skb) = Client
=============================================================================
