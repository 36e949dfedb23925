-------------------------------- MODULE Pac --------------------------------
(***************************************************************************)
(* The proxy auto-config script as a decision.  pacInputsFrom derives the  *)
(* inputs from a status, pacScript turns them into a script, and Decide is *)
(* what a browser does with it.  Addresses are Width bits wide; the code's *)
(* are 32.  Goes is what the script is for, stated without it.             *)
(***************************************************************************)
EXTENDS Integers

CONSTANTS
    Width,          \* bits of an IPv4 address
    TailscaleNet,   \* 100.64.0.0/10
    LoopbackNet,    \* 127.0.0.0/8
    NoSuffix        \* no MagicDNS suffix

\* The powers of two.
Power2[n \in 0 .. Width] == IF n = 0 THEN 1 ELSE 2 * Power2[n - 1]

Addresses == 0 .. Power2[Width] - 1
Prefix(addr, bits) == [addr |-> addr, bits |-> bits]
Prefixes == [addr : Addresses, bits : 0 .. Width]

ASSUME PacAssumption ==
    Width \in Nat \ {0} /\ TailscaleNet \in Prefixes /\ LoopbackNet \in Prefixes

\* Address a lies in prefix p: they agree in p's first bits.
In(a, p) == a \div Power2[Width - p.bits] = p.addr \div Power2[Width - p.bits]

\* Mutant: the mask is one bit short.
v4MaskShort(bits) == ((Power2[Width] - 1) * Power2[Width - bits + 1]) % Power2[Width]

\* v4Mask: all ones, shifted left in a word of Width bits.
v4Mask(bits) == IF bits = 0 THEN 0 ELSE ((Power2[Width] - 1) * Power2[Width - bits]) % Power2[Width]

Bit(x, i) == (x \div Power2[i]) % 2
Masked(p) == p.addr - (p.addr % Power2[Width - p.bits])

\* isInNet of a browser: the bits under the mask agree.
isInNet(a, net, mask) ==
    \A i \in 0 .. Width - 1 : Bit(mask, i) = 1 => Bit(a, i) = Bit(net, i)

\* A route that begins in the tailnet's range stays in it.  A masked one does, as
\* the last bit of 100.64.0.0/10 is set, and nodes advertise no other.
Fits(p) == In(p.addr, TailscaleNet) => p.bits = 0 \/ p.bits >= TailscaleNet.bits

\* Which advertised routes become rules of the script.
Useful(p) == p.bits # 0 /\ ~In(p.addr, TailscaleNet)

\* pacInputsFrom.  Before the first status there is only the configuration.
pacInputs(st, allTraffic) ==
    [all |-> allTraffic \/ st.exit, suffix |-> st.suffix,
     routes |-> {Prefix(Masked(p), p.bits) : p \in {q \in st.routes : Useful(q)}}]

\* A host a browser asks for: an IPv4 or IPv6 literal, a tailnet IPv6
\* literal, localhost and its subdomains, a name without a dot, or a name
\* under some domain.
Hosts(domains) ==
    [kind : {"v4"}, addr : Addresses] \cup [kind : {"dns"}, domain : domains]
    \cup [kind : {"v6", "ula", "localhost", "plain"}]

Local(h) == h.kind = "localhost" \/ (h.kind = "v4" /\ In(h.addr, LoopbackNet))

\* FindProxyForURL of the script made from in.  A plain host name is one
\* without a dot, which an IPv6 literal is too.
Decide(in, h) ==
    /\ ~Local(h)
    /\ \/ in.all
       \/ h.kind = "v4" /\ isInNet(h.addr, TailscaleNet.addr, v4Mask(TailscaleNet.bits))
       \/ h.kind \in {"ula", "plain", "v6"}
       \/ h.kind = "dns" /\ in.suffix # NoSuffix /\ h.domain = in.suffix
       \/ h.kind = "v4" /\ \E p \in in.routes : isInNet(h.addr, p.addr, v4Mask(p.bits))

\* What should go through the proxy: everything under an exit node or by
\* choice, otherwise what the tailnet may answer for.
Goes(st, allTraffic, h) ==
    /\ ~Local(h)
    /\ \/ allTraffic \/ st.exit
       \/ h.kind = "v4" /\ \E p \in {q \in st.routes : q.bits # 0} \cup {TailscaleNet} : In(h.addr, p)
       \/ h.kind \in {"ula", "plain", "v6"}
       \/ h.kind = "dns" /\ h.domain = st.suffix /\ st.suffix # NoSuffix
=============================================================================
