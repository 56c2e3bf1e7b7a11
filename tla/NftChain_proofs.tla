---------------------------- MODULE NftChain_proofs ----------------------------
(***************************************************************************)
(* What a ruleset does in the kernel, for any allocations: the batch       *)
(* replaces whatever the chain held, and the chain sends a packet to the   *)
(* target of the first allocation that it fits.                            *)
(***************************************************************************)
EXTENDS NftChain, SequenceTheorems, WellFoundedInduction, TLAPS

-----------------------------------------------------------------------------
(* Naturals: a set that is not empty has a least element, which Min picks. *)

LEMMA LeastOf ==
  ASSUME NEW S \in SUBSET Nat, S # {}
  PROVE  Min(S) \in S /\ \A x \in S : Min(S) <= x
<1> DEFINE R == {z \in Nat \X Nat : z[1] < z[2]}
<1>1. IsWellFoundedOn(R, Nat)
  BY NatLessThanWellFounded, Zenon DEF OpToRel
<1>2. PICK m \in S : \A y \in S : ~ (<<y, m>> \in R)
  <2> HIDE DEF R
  <2> QED BY <1>1, WFMin, Zenon
<1>3. ASSUME NEW x \in S PROVE m <= x
  <2>1. ~ (<<x, m>> \in Nat \X Nat /\ x < m)
    BY <1>2, Zenon
  <2> QED BY <2>1
<1> QED BY <1>3, Zenon DEF Min

(* Induction over 0..N, with a set for the predicate. *)
LEMMA UpTo ==
  ASSUME NEW N \in Nat, NEW T, 0 \in T, \A n \in 0..N : n \in T /\ n < N => n + 1 \in T
  PROVE  \A n \in 0..N : n \in T
<1> SUFFICES ASSUME (0..N) \ T # {} PROVE FALSE
  BY Zenon
<1> DEFINE S == (0..N) \ T
           m == Min(S)
<1>1. S \in SUBSET Nat /\ S # {}
  OBVIOUS
<1>2. m \in S /\ \A x \in S : m <= x
  <2> HIDE DEF S
  <2> QED BY <1>1, LeastOf, Zenon
<1> HIDE DEF m
<1>3. m # 0 /\ m \in Nat /\ m <= N /\ m \notin T
  BY <1>2
<1>4. m - 1 \in 0..N /\ m - 1 < N /\ (m - 1) + 1 = m /\ ~ (m <= m - 1)
  BY <1>3
<1>5. m - 1 \in T
  BY <1>2, <1>4, Zenon
<1>6. (m - 1) + 1 \in T
  BY <1>4, <1>5, Zenon
<1> QED BY <1>3, <1>4, <1>6, Zenon

-----------------------------------------------------------------------------
(* The functions that rules_for_allocations, KernelBatch and KernelRule define by recursion *)
(* exist, so that each has the value at n that its definition says.                         *)

RulesStep(s, recorded, n) == s \o RulesOf(n, recorded[n])

RulesRun(f, recorded) ==
  /\ rules_for_allocations(recorded) = f[MaxId]
  /\ f[0] = << >>
  /\ \A n \in 1..MaxId : f[n] = RulesStep(f[n - 1], recorded, n)

LEMMA RulesUnfold ==
  ASSUME NEW recorded, MaxId \in Nat
  PROVE  \E f : RulesRun(f, recorded)
<1> DEFINE Is(g, N) == g = [n \in 0..N |-> IF n = 0 THEN << >>
                                           ELSE RulesStep(g[n - 1], recorded, n)]
           T == {n \in 0..MaxId : \E g : Is(g, n)}
<1>1. 0 \in T
  <2>1. Is([n \in 0..0 |-> << >>], 0)
    OBVIOUS
  <2>2. 0 \in 0..MaxId
    OBVIOUS
  <2> HIDE DEF Is
  <2> QED BY <2>1, <2>2, Zenon
<1>2. ASSUME NEW n \in 0..MaxId, n \in T, n < MaxId PROVE n + 1 \in T
  <2>1. PICK g : Is(g, n)
    BY <1>2, Zenon
  <2> DEFINE h == [m \in 0..(n + 1) |-> IF m = n + 1 THEN RulesStep(g[n], recorded, n + 1) ELSE g[m]]
  <2>2. ASSUME NEW m \in 0..(n + 1)
        PROVE  h[m] = IF m = 0 THEN << >> ELSE RulesStep(h[m - 1], recorded, m)
    <3>1. CASE m = n + 1
      <4>1. m # 0 /\ m - 1 = n /\ n \in 0..(n + 1) /\ n # n + 1
        BY <3>1
      <4>2. h[n] = g[n]
        BY <4>1, Zenon
      <4> QED BY <3>1, <4>1, <4>2, Zenon
    <3>2. CASE m # n + 1
      <4>1. m \in 0..n /\ (m # 0 => m - 1 \in 0..(n + 1) /\ m - 1 # n + 1)
        BY <3>2
      <4>2. h[m] = g[m] /\ (m # 0 => h[m - 1] = g[m - 1])
        BY <3>2, <4>1, Zenon
      <4>3. g[m] = IF m = 0 THEN << >> ELSE RulesStep(g[m - 1], recorded, m)
        BY <2>1, <4>1, Zenon
      <4> HIDE DEF h
      <4> QED BY <4>2, <4>3, Zenon
    <3> QED BY <3>1, <3>2, Zenon
  <2>3. h = [m \in 0..(n + 1) |-> h[m]]
    BY Zenon
  <2> HIDE DEF h
  <2>4. Is(h, n + 1)
    BY <2>2, <2>3, Zenon
  <2>5. n + 1 \in 0..MaxId
    BY <1>2
  <2> HIDE DEF Is
  <2> QED BY <2>4, <2>5, Zenon
<1>3. MaxId \in T
  <2>1. MaxId \in 0..MaxId
    OBVIOUS
  <2> HIDE DEF T
  <2> QED BY <1>1, <1>2, <2>1, UpTo, Zenon
<1>4. PICK g : Is(g, MaxId)
  BY <1>3, Zenon
<1>5. \E f : Is(f, MaxId) /\ rules_for_allocations(recorded) = f[MaxId]
  BY <1>4, Zenon DEF rules_for_allocations, RulesStep
<1>6. PICK f : Is(f, MaxId) /\ rules_for_allocations(recorded) = f[MaxId]
  BY <1>5, Zenon
<1>7. 0 \in 0..MaxId /\ \A n \in 1..MaxId : n \in 0..MaxId /\ n # 0
  OBVIOUS
<1>8. f[0] = << >> /\ \A n \in 1..MaxId : f[n] = RulesStep(f[n - 1], recorded, n)
  BY <1>6, <1>7, Zenon
<1> QED BY <1>6, <1>8, Zenon DEF RulesRun

BatchRun(f, chain, batch) ==
  /\ KernelBatch(chain, batch) = f[Len(batch)]
  /\ f[0] = chain
  /\ \A n \in 1..Len(batch) : f[n] = KernelMessage(f[n - 1], batch[n])

LEMMA BatchUnfold ==
  ASSUME NEW chain, NEW batch, Len(batch) \in Nat
  PROVE  \E f : BatchRun(f, chain, batch)
<1> DEFINE N == Len(batch)
<1> HIDE DEF N
<1>N. N \in Nat /\ N = Len(batch)
  BY Zenon DEF N
<1> DEFINE Is(g, M) == g = [n \in 0..M |-> IF n = 0 THEN chain
                                           ELSE KernelMessage(g[n - 1], batch[n])]
           T == {n \in 0..N : \E g : Is(g, n)}
<1>1. 0 \in T
  <2>1. Is([n \in 0..0 |-> chain], 0)
    BY <1>N
  <2>2. 0 \in 0..N
    BY <1>N
  <2> HIDE DEF Is
  <2> QED BY <2>1, <2>2, Zenon
<1>2. ASSUME NEW n \in 0..N, n \in T, n < N PROVE n + 1 \in T
  <2>1. PICK g : Is(g, n)
    BY <1>2, Zenon
  <2> DEFINE h == [m \in 0..(n + 1) |-> IF m = n + 1 THEN KernelMessage(g[n], batch[n + 1]) ELSE g[m]]
  <2>2. ASSUME NEW m \in 0..(n + 1)
        PROVE  h[m] = IF m = 0 THEN chain ELSE KernelMessage(h[m - 1], batch[m])
    <3>1. CASE m = n + 1
      <4>1. m # 0 /\ m - 1 = n /\ n \in 0..(n + 1) /\ n # n + 1
        BY <3>1
      <4>2. h[n] = g[n]
        BY <4>1, Zenon
      <4> QED BY <3>1, <4>1, <4>2, Zenon
    <3>2. CASE m # n + 1
      <4>1. m \in 0..n /\ (m # 0 => m - 1 \in 0..(n + 1) /\ m - 1 # n + 1)
        BY <3>2
      <4>2. h[m] = g[m] /\ (m # 0 => h[m - 1] = g[m - 1])
        BY <3>2, <4>1, Zenon
      <4>3. g[m] = IF m = 0 THEN chain ELSE KernelMessage(g[m - 1], batch[m])
        BY <2>1, <4>1, Zenon
      <4> HIDE DEF h
      <4> QED BY <4>2, <4>3, Zenon
    <3> QED BY <3>1, <3>2, Zenon
  <2>3. h = [m \in 0..(n + 1) |-> h[m]]
    BY Zenon
  <2> HIDE DEF h
  <2>4. Is(h, n + 1)
    BY <2>2, <2>3, Zenon
  <2>5. n + 1 \in 0..N
    BY <1>2, <1>N
  <2> HIDE DEF Is
  <2> QED BY <2>4, <2>5, Zenon
<1>3. N \in T
  <2>1. N \in 0..N
    BY <1>N
  <2> HIDE DEF T
  <2> QED BY <1>1, <1>2, <2>1, <1>N, UpTo, Zenon
<1>4. PICK g : Is(g, N)
  BY <1>3, Zenon
<1>5. \E f : Is(f, N) /\ KernelBatch(chain, batch) = f[N]
  BY <1>4, Zenon DEF KernelBatch, N
<1>6. PICK f : Is(f, N) /\ KernelBatch(chain, batch) = f[N]
  BY <1>5, Zenon
<1>7. 0 \in 0..N /\ \A n \in 1..N : n \in 0..N /\ n # 0
  BY <1>N
<1>8. f[0] = chain /\ \A n \in 1..N : f[n] = KernelMessage(f[n - 1], batch[n])
  BY <1>6, <1>7, Zenon
<1> QED BY <1>6, <1>8, <1>N, Zenon DEF BatchRun

ExprStep(regs, e, packet) == IF regs = None THEN None ELSE KernelExpr(regs, e, packet)

RegsRun(f, exprs, packet) ==
  /\ KernelRegs(exprs, packet) = f[Len(exprs) - 1]
  /\ f[0] = [r \in 1..3 |-> None]
  /\ \A n \in 1..(Len(exprs) - 1) : f[n] = ExprStep(f[n - 1], exprs[n], packet)

LEMMA ExprsUnfold ==
  ASSUME NEW exprs, NEW packet, Len(exprs) - 1 \in Nat
  PROVE  \E f : RegsRun(f, exprs, packet)
<1> DEFINE N == Len(exprs) - 1
           none == [r \in 1..3 |-> None]
<1> HIDE DEF N, none
<1>N. N \in Nat /\ N = Len(exprs) - 1
  BY Zenon DEF N
<1> DEFINE Is(g, M) == g = [n \in 0..M |-> IF n = 0 THEN none
                                           ELSE ExprStep(g[n - 1], exprs[n], packet)]
           T == {n \in 0..N : \E g : Is(g, n)}
<1>1. 0 \in T
  <2>1. Is([n \in 0..0 |-> none], 0)
    BY <1>N
  <2>2. 0 \in 0..N
    BY <1>N
  <2> HIDE DEF Is
  <2> QED BY <2>1, <2>2, Zenon
<1>2. ASSUME NEW n \in 0..N, n \in T, n < N PROVE n + 1 \in T
  <2>1. PICK g : Is(g, n)
    BY <1>2, Zenon
  <2> DEFINE h == [m \in 0..(n + 1) |-> IF m = n + 1 THEN ExprStep(g[n], exprs[n + 1], packet) ELSE g[m]]
  <2>2. ASSUME NEW m \in 0..(n + 1)
        PROVE  h[m] = IF m = 0 THEN none ELSE ExprStep(h[m - 1], exprs[m], packet)
    <3>1. CASE m = n + 1
      <4>1. m # 0 /\ m - 1 = n /\ n \in 0..(n + 1) /\ n # n + 1
        BY <3>1
      <4>2. h[n] = g[n]
        BY <4>1, Zenon
      <4> QED BY <3>1, <4>1, <4>2, Zenon
    <3>2. CASE m # n + 1
      <4>1. m \in 0..n /\ (m # 0 => m - 1 \in 0..(n + 1) /\ m - 1 # n + 1)
        BY <3>2
      <4>2. h[m] = g[m] /\ (m # 0 => h[m - 1] = g[m - 1])
        BY <3>2, <4>1, Zenon
      <4>3. g[m] = IF m = 0 THEN none ELSE ExprStep(g[m - 1], exprs[m], packet)
        BY <2>1, <4>1, Zenon
      <4> HIDE DEF h
      <4> QED BY <4>2, <4>3, Zenon
    <3> QED BY <3>1, <3>2, Zenon
  <2>3. h = [m \in 0..(n + 1) |-> h[m]]
    BY Zenon
  <2> HIDE DEF h
  <2>4. Is(h, n + 1)
    BY <2>2, <2>3, Zenon
  <2>5. n + 1 \in 0..N
    BY <1>2, <1>N
  <2> HIDE DEF Is
  <2> QED BY <2>4, <2>5, Zenon
<1>3. N \in T
  <2>1. N \in 0..N
    BY <1>N
  <2> HIDE DEF T
  <2> QED BY <1>1, <1>2, <2>1, <1>N, UpTo, Zenon
<1>4. PICK g : Is(g, N)
  BY <1>3, Zenon
<1>5. \E f : Is(f, N) /\ KernelRegs(exprs, packet) = f[N]
  BY <1>4, Zenon DEF KernelRegs, ExprStep, N, none
<1>6. PICK f : Is(f, N) /\ KernelRegs(exprs, packet) = f[N]
  BY <1>5, Zenon
<1>7. 0 \in 0..N /\ \A n \in 1..N : n \in 0..N /\ n # 0
  BY <1>N
<1>8. f[0] = none /\ \A n \in 1..N : f[n] = ExprStep(f[n - 1], exprs[n], packet)
  BY <1>6, <1>7, Zenon
<1> QED BY <1>6, <1>8, <1>N, Zenon DEF none, RegsRun

-----------------------------------------------------------------------------
(* The expressions of a rule, one by one. *)

LEMMA LoadStep ==
  ASSUME NEW regs \in Registers, NEW packet, NEW field, NEW d \in 1..3, packet[field] \in Values,
         NEW e, e = [op |-> "load", field |-> field, dreg |-> d],
         NEW after, after = ExprStep(regs, e, packet)
  PROVE  /\ after \in Registers
         /\ after[d] = packet[field]
         /\ \A r \in 1..3 : r # d => after[r] = regs[r]
<1>1. regs # None
  BY RegistersAssumption, Zenon
<1>2. KernelExpr(regs, e, packet) = [regs EXCEPT ![d] = packet[field]]
  <2>1. e.op = "load" /\ e.field = field /\ e.dreg = d
    OBVIOUS
  <2> QED BY <2>1 DEF KernelExpr
<1>3. ExprStep(regs, e, packet) = [regs EXCEPT ![d] = packet[field]]
  BY <1>1, <1>2, Zenon DEF ExprStep
<1>4. /\ [regs EXCEPT ![d] = packet[field]] \in Registers
      /\ [regs EXCEPT ![d] = packet[field]][d] = packet[field]
      /\ \A r \in 1..3 : r # d => [regs EXCEPT ![d] = packet[field]][r] = regs[r]
  BY Zenon DEF Registers
<1> QED BY <1>3, <1>4, Zenon

LEMMA CmpStep ==
  ASSUME NEW regs \in Registers, NEW packet, NEW r, NEW data,
         NEW e, e = CmpRegister(r, data), NEW after, after = ExprStep(regs, e, packet)
  PROVE  after = IF regs[r] = data THEN regs ELSE None
<1>1. regs # None
  BY RegistersAssumption, Zenon
<1>2. e.op = "cmp" /\ e.sreg = r /\ e.data = data
  BY DEF CmpRegister
<1>3. KernelExpr(regs, e, packet) = IF regs[r] = data THEN regs ELSE None
  BY <1>2 DEF KernelExpr
<1> QED BY <1>1, <1>3, Zenon DEF ExprStep

LEMMA LookupStep ==
  ASSUME NEW regs \in Registers, NEW packet, NEW set, NEW d \in 1..3,
         NEW port, port = regs[REG_PORT], port \in DOMAIN set => set[port] \in Values,
         NEW e, e = MapLookup(set, d), NEW after, after = ExprStep(regs, e, packet)
  PROVE  IF port \in DOMAIN set
         THEN /\ after \in Registers
              /\ after[d] = set[port]
              /\ \A r \in 1..3 : r # d => after[r] = regs[r]
         ELSE after = None
<1>1. regs # None
  BY RegistersAssumption, Zenon
<1>2. e.op = "lookup" /\ e.sreg = REG_PORT /\ e.set = set /\ e.dreg = d
  BY DEF MapLookup
<1>3. KernelExpr(regs, e, packet) =
        IF port \in DOMAIN set THEN [regs EXCEPT ![d] = set[port]] ELSE None
  BY <1>2 DEF KernelExpr
<1>4. after = IF port \in DOMAIN set THEN [regs EXCEPT ![d] = set[port]] ELSE None
  BY <1>1, <1>3, Zenon DEF ExprStep
<1>5. port \in DOMAIN set =>
        /\ [regs EXCEPT ![d] = set[port]] \in Registers
        /\ [regs EXCEPT ![d] = set[port]][d] = set[port]
        /\ \A r \in 1..3 : r # d => [regs EXCEPT ![d] = set[port]][r] = regs[r]
  BY Zenon DEF Registers
<1> QED BY <1>4, <1>5, Zenon

(* A packet of the other family or protocol, to another address or for a port that is not in *)
(* the maps passes by; the others go to what the maps say.                                   *)
RuleFor(dnat, addresses, packet) ==
  /\ packet.nfproto = nfproto_for(dnat.out_host)
  /\ packet.l4proto = dnat.protocol
  /\ packet.daddr = "local"
  /\ packet.dport \in DOMAIN addresses

LEMMA RuleDecides ==
  ASSUME NEW dnat, NEW addresses, NEW ports, NEW packet \in Packets,
         DOMAIN ports = DOMAIN addresses,
         packet.dport \in DOMAIN addresses => /\ addresses[packet.dport] \in Hosts
                                              /\ ports[packet.dport] \in Int
  PROVE  KernelRule(add_dnat_rule_exprs(dnat, addresses, ports), packet) =
           IF RuleFor(dnat, addresses, packet)
           THEN << addresses[packet.dport], ports[packet.dport] >> ELSE None
<1> DEFINE e == add_dnat_rule_exprs(dnat, addresses, ports)
           family == nfproto_for(dnat.out_host)
           protocol == dnat.protocol
           dport == packet.dport
<1>1. Len(e) = 10
  BY DEF add_dnat_rule_exprs
<1>e1. e[1] = [op |-> "load", field |-> "nfproto", dreg |-> 1]
  BY DEF add_dnat_rule_exprs, LoadMeta, REG_PROTOCOL
<1>e2. e[2] = CmpRegister(1, family)
  BY DEF add_dnat_rule_exprs, REG_PROTOCOL
<1>e3. e[3] = [op |-> "load", field |-> "l4proto", dreg |-> 1]
  BY DEF add_dnat_rule_exprs, LoadMeta, REG_PROTOCOL
<1>e4. e[4] = CmpRegister(1, protocol)
  BY DEF add_dnat_rule_exprs, REG_PROTOCOL
<1>e5. e[5] = [op |-> "load", field |-> "dport", dreg |-> 2]
  BY DEF add_dnat_rule_exprs, LoadPayload, REG_PORT
<1>e6. e[6] = [op |-> "load", field |-> "daddr", dreg |-> 3]
  BY DEF add_dnat_rule_exprs, FibDaddrType, REG_FIB_TYPE
<1>e7. e[7] = CmpRegister(3, "local")
  BY DEF add_dnat_rule_exprs, REG_FIB_TYPE
<1>e8. e[8] = MapLookup(addresses, 1)
  BY DEF add_dnat_rule_exprs, REG_DNAT_ADDR
<1>e9. e[9] = MapLookup(ports, 2)
  BY DEF add_dnat_rule_exprs, REG_DNAT_PORT
<1>5. e[10].addr = 1 /\ e[10].port = 2
  BY DEF add_dnat_rule_exprs, Nat_DNat, REG_DNAT_ADDR, REG_DNAT_PORT
<1>6. /\ packet.nfproto \in Values /\ packet.l4proto \in Values
      /\ packet.daddr \in Values /\ dport \in Values
  <2>1. dport \in Int
    BY DEF Packets, Ports
  <2>2. /\ packet.nfproto \in {"ipv4", "ipv6"} /\ packet.l4proto \in {"tcp", "udp"}
        /\ packet.daddr \in {"local", "other"}
    BY DEF Packets
  <2> QED BY <2>1, <2>2, Zenon DEF Values
<1>7. dport \in DOMAIN addresses => addresses[dport] \in Values /\ ports[dport] \in Values
  BY Zenon DEF Values
<1> HIDE DEF e, family, protocol, dport
<1>8. PICK f : /\ KernelRegs(e, packet) = f[9]
               /\ f[0] = [r \in 1..3 |-> None]
               /\ \A n \in 1..9 : f[n] = ExprStep(f[n - 1], e[n], packet)
  <2>1. Len(e) - 1 = 9 /\ Len(e) - 1 \in Nat
    BY <1>1
  <2>2. \E f : RegsRun(f, e, packet)
    BY <2>1, ExprsUnfold, Zenon
  <2> QED BY <2>1, <2>2, Zenon DEF RegsRun
<1>9. \A n \in 1..9 : f[n] = ExprStep(f[n - 1], e[n], packet)
  BY <1>8, Zenon
<1>f1. f[1] = ExprStep(f[0], e[1], packet)
  BY <1>9
<1>f2. f[2] = ExprStep(f[1], e[2], packet)
  BY <1>9
<1>f3. f[3] = ExprStep(f[2], e[3], packet)
  BY <1>9
<1>f4. f[4] = ExprStep(f[3], e[4], packet)
  BY <1>9
<1>f5. f[5] = ExprStep(f[4], e[5], packet)
  BY <1>9
<1>f6. f[6] = ExprStep(f[5], e[6], packet)
  BY <1>9
<1>f7. f[7] = ExprStep(f[6], e[7], packet)
  BY <1>9
<1>f8. f[8] = ExprStep(f[7], e[8], packet)
  BY <1>9
<1>f9. f[9] = ExprStep(f[8], e[9], packet)
  BY <1>9
<1>10. \A x : ExprStep(None, x, packet) = None
  BY Zenon DEF ExprStep
<1>11. KernelRule(e, packet) = IF f[9] = None THEN None ELSE << f[9][1], f[9][2] >>
  BY <1>1, <1>5, <1>8, Zenon DEF KernelRule
<1>12. f[0] \in Registers
  BY <1>8, Zenon DEF Registers
<1>n. 1 \in 1..3 /\ 2 \in 1..3 /\ 3 \in 1..3 /\ 1 # 2 /\ 1 # 3 /\ 2 # 3
  OBVIOUS
<1>13. f[1] \in Registers /\ f[1][1] = packet.nfproto
  BY <1>e1, <1>6, <1>f1, <1>12, <1>n, LoadStep
<1>14. f[2] = IF packet.nfproto = family THEN f[1] ELSE None
  BY <1>e2, <1>f2, <1>13, CmpStep
<1>15. CASE packet.nfproto # family
  <2>1. f[5] = None
    BY <1>f3, <1>f4, <1>f5, <1>10, <1>14, <1>15, Zenon
  <2>2. f[9] = None
    BY <1>f6, <1>f7, <1>f8, <1>f9, <1>10, <2>1, Zenon
  <2> QED BY <1>11, <1>15, <2>2, Zenon DEF RuleFor, e, family
<1>16. CASE packet.nfproto = family
  <2>1. f[3] \in Registers /\ f[3][1] = packet.l4proto
    BY <1>e3, <1>6, <1>f3, <1>13, <1>14, <1>16, <1>n, LoadStep
  <2>2. f[4] = IF packet.l4proto = protocol THEN f[3] ELSE None
    BY <1>e4, <1>f4, <2>1, CmpStep
  <2>3. CASE packet.l4proto # protocol
    <3>1. f[6] = None
      BY <1>f5, <1>f6, <1>10, <2>2, <2>3, Zenon
    <3>2. f[9] = None
      BY <1>f7, <1>f8, <1>f9, <1>10, <3>1, Zenon
    <3> QED BY <1>11, <2>3, <3>2, Zenon DEF RuleFor, e, protocol
  <2>4. CASE packet.l4proto = protocol
    <3>1. f[5] \in Registers /\ f[5][2] = dport
      BY <1>e5, <1>6, <1>f5, <2>1, <2>2, <2>4, <1>n, LoadStep DEF dport
    <3>2. f[6] \in Registers /\ f[6][2] = dport /\ f[6][3] = packet.daddr
      BY <1>e6, <1>6, <1>f6, <3>1, <1>n, LoadStep
    <3>3. f[7] = IF packet.daddr = "local" THEN f[6] ELSE None
      BY <1>e7, <1>f7, <3>2, CmpStep
    <3>4. CASE packet.daddr # "local"
      <4>1. f[9] = None
        BY <1>f8, <1>f9, <1>10, <3>3, <3>4, Zenon
      <4> QED BY <1>11, <3>4, <4>1, Zenon DEF RuleFor, e
    <3>5. CASE packet.daddr = "local"
      <4>1. f[7] \in Registers /\ f[7][REG_PORT] = dport
        BY <3>2, <3>3, <3>5, Zenon DEF REG_PORT
      <4>2. IF dport \in DOMAIN addresses
            THEN f[8] \in Registers /\ f[8][1] = addresses[dport] /\ f[8][2] = dport
            ELSE f[8] = None
        BY <1>e8, <1>7, <1>f8, <1>n, <4>1, LookupStep DEF REG_PORT
      <4>3. CASE dport \notin DOMAIN addresses
        <5>1. f[9] = None
          BY <1>f9, <1>10, <4>2, <4>3, Zenon
        <5> QED BY <1>11, <4>3, <5>1, Zenon DEF RuleFor, e, dport
      <4>4. CASE dport \in DOMAIN addresses
        <5>1. f[8] \in Registers /\ f[8][1] = addresses[dport] /\ f[8][REG_PORT] = dport
          BY <4>2, <4>4, Zenon DEF REG_PORT
        <5>2. f[9] \in Registers /\ f[9][1] = addresses[dport] /\ f[9][2] = ports[dport]
          BY <1>e9, <1>7, <1>f9, <1>n, <4>4, <5>1, LookupStep
        <5>3. f[9] # None
          BY <5>2, RegistersAssumption, Zenon
        <5>4. RuleFor(dnat, addresses, packet)
          BY <1>16, <2>4, <3>5, <4>4, Zenon DEF RuleFor, family, protocol, dport
        <5> QED BY <1>11, <5>2, <5>3, <5>4, Zenon DEF e, dport
      <4> QED BY <4>3, <4>4, Zenon
    <3> QED BY <3>4, <3>5, Zenon
  <2> QED BY <2>3, <2>4, Zenon
<1> QED BY <1>15, <1>16, Zenon

-----------------------------------------------------------------------------
(* The batch. *)

ExprsOf(tail) == [i \in 1..Len(tail) |-> tail[i].exprs]

LEMMA AppendOne ==
  ASSUME NEW S, NEW g, NEW n \in Nat, \A i \in 1..(n + 1) : g[i] \in S
  PROVE  Append([i \in 1..n |-> g[i]], g[n + 1]) = [i \in 1..(n + 1) |-> g[i]]
<1> DEFINE s == [i \in 1..n |-> g[i]]
           t == [i \in 1..(n + 1) |-> g[i]]
<1>1. s \in Seq(S) /\ Len(s) = n /\ g[n + 1] \in S
  OBVIOUS
<1>2. t \in Seq(S) /\ Len(t) = n + 1
  OBVIOUS
<1>3. \A i \in 1..n : s[i] = g[i]
  BY Zenon
<1>4. \A i \in 1..(n + 1) : t[i] = g[i]
  BY Zenon
<1> HIDE DEF s, t
<1>5. /\ Append(s, g[n + 1]) \in Seq(S) /\ Len(Append(s, g[n + 1])) = n + 1
      /\ \A i \in 1..n : Append(s, g[n + 1])[i] = s[i]
      /\ Append(s, g[n + 1])[n + 1] = g[n + 1]
  BY <1>1, AppendProperties
<1>6. \A i \in 1..(n + 1) : Append(s, g[n + 1])[i] = t[i]
  BY <1>3, <1>4, <1>5
<1>7. Append(s, g[n + 1]) = t
  BY <1>2, <1>5, <1>6, SeqEqual, Zenon
<1> QED BY <1>7, Zenon DEF s, t

(* The three messages that come first empty the chain, whatever it held; each of the others *)
(* appends its rule.                                                                        *)
LEMMA BatchFills ==
  ASSUME NEW chain, NEW S, NEW tail \in Seq(S), \A i \in 1..Len(tail) : tail[i].msg = "add_rule"
  PROVE  KernelBatch(chain, << EnsureTable, AddChain, FlushChain >> \o tail) = ExprsOf(tail)
<1> DEFINE head == << EnsureTable, AddChain, FlushChain >>
           batch == head \o tail
           M == S \cup {EnsureTable, AddChain, FlushChain}
           N == Len(tail)
<1>0. N \in Nat
  BY LenProperties
<1>1. head \in Seq(M) /\ Len(head) = 3 /\ head[3] = FlushChain
  OBVIOUS
<1>2. tail \in Seq(M)
  BY SeqMonotonic
<1> HIDE DEF head, M
<1>3. /\ Len(batch) = 3 + N
      /\ \A i \in 1..(3 + N) : batch[i] = IF i <= 3 THEN head[i] ELSE tail[i - 3]
  <2>0. head \in Seq(M)
    BY <1>1, Zenon
  <2>1. /\ Len(head \o tail) = Len(head) + Len(tail)
        /\ \A i \in 1..Len(head) + Len(tail) :
             (head \o tail)[i] = IF i <= Len(head) THEN head[i] ELSE tail[i - Len(head)]
    BY ONLY <2>0, <1>2, ConcatProperties, Zenon
  <2> QED BY <1>1, <2>1, Zenon
<1> HIDE DEF batch, N
<1>4. PICK f : BatchRun(f, chain, batch)
  <2>1. Len(batch) \in Nat
    BY <1>0, <1>3
  <2> QED BY <2>1, BatchUnfold, Zenon
<1>5. /\ KernelBatch(chain, batch) = f[3 + N]
      /\ \A n \in 1..(3 + N) : f[n] = KernelMessage(f[n - 1], batch[n])
  BY <1>3, <1>4, Zenon DEF BatchRun
<1>6. f[3] = << >>
  <2>1. f[3] = KernelMessage(f[2], batch[3])
    BY <1>0, <1>5
  <2>2. batch[3] = FlushChain
    BY <1>0, <1>1, <1>3
  <2>3. FlushChain.msg = "flush_chain"
    BY DEF FlushChain
  <2> HIDE DEF FlushChain
  <2>4. KernelMessage(f[2], FlushChain) = << >>
    BY <2>3 DEF KernelMessage
  <2> QED BY <2>1, <2>2, <2>4, Zenon
<1> DEFINE g == [i \in 1..N |-> tail[i].exprs]
           X == {tail[i].exprs : i \in 1..N}
           T == {n \in 0..N : f[n + 3] = [i \in 1..n |-> g[i]]}
<1>7. 0 \in T
  <2>1. [i \in 1..0 |-> g[i]] = << >>
    OBVIOUS
  <2>2. 0 + 3 = 3 /\ 0 \in 0..N
    BY <1>0
  <2> QED BY <1>6, <2>1, <2>2, Zenon
<1>8. ASSUME NEW n \in 0..N, n \in T, n < N PROVE n + 1 \in T
  <2>1. n + 1 \in 1..N /\ n + 1 \in 0..N /\ n \in Nat
    BY <1>0, <1>8
  <2>2. f[(n + 1) + 3] = KernelMessage(f[n + 3], tail[n + 1])
    <3>1. (n + 1) + 3 \in 1..(3 + N) /\ ((n + 1) + 3) - 1 = n + 3 /\ ((n + 1) + 3) - 3 = n + 1
          /\ ~ ((n + 1) + 3 <= 3)
      BY <1>0, <2>1
    <3>2. batch[(n + 1) + 3] = tail[n + 1]
      BY <1>3, <3>1, Zenon
    <3> QED BY <1>5, <3>1, <3>2, Zenon
  <2>3. KernelMessage(f[n + 3], tail[n + 1]) = Append(f[n + 3], tail[n + 1].exprs)
    <3>1. tail[n + 1].msg = "add_rule"
      BY <2>1, Zenon DEF N
    <3> QED BY <3>1 DEF KernelMessage
  <2>4. tail[n + 1].exprs = g[n + 1]
    BY <2>1, Zenon
  <2>5. \A i \in 1..(n + 1) : g[i] \in X
    <3>1. \A i \in 1..(n + 1) : i \in 1..N
      BY <1>0, <2>1
    <3> QED BY <3>1, Zenon
  <2>6. f[n + 3] = [i \in 1..n |-> g[i]]
    BY <1>8, Zenon
  <2> HIDE DEF g, X
  <2>7. Append([i \in 1..n |-> g[i]], g[n + 1]) = [i \in 1..(n + 1) |-> g[i]]
    BY <2>1, <2>5, AppendOne
  <2>8. f[(n + 1) + 3] = [i \in 1..(n + 1) |-> g[i]]
    BY <2>2, <2>3, <2>4, <2>6, <2>7, Zenon
  <2> QED BY <2>1, <2>8, Zenon
<1>9. N \in T
  <2>1. N \in 0..N
    BY <1>0
  <2> HIDE DEF T
  <2> QED BY <1>0, <1>7, <1>8, <2>1, UpTo, Zenon
<1>10. f[3 + N] = [i \in 1..N |-> g[i]]
  <2>1. N + 3 = 3 + N
    BY <1>0
  <2> QED BY <1>9, <2>1, Zenon
<1>11. [i \in 1..N |-> g[i]] = ExprsOf(tail)
  BY Zenon DEF ExprsOf, N
<1> QED BY <1>5, <1>10, <1>11, Zenon DEF batch, head

-----------------------------------------------------------------------------
(* The rules of the allocations. *)

Rules == [allocation_id: Ids, protocol: {"tcp", "udp"}, in_port: Ports, out_host: Hosts, out_port: Ports]

(* An allocation gives a rule for protocol p. *)
Gives(a, p) == a # None /\ Bound(a) /\ (p = a.protocol \/ a.protocol = "both")

RuleOf(r, a) ==
  /\ Gives(a, r.protocol)
  /\ r.in_port = a.port
  /\ r.out_host = a.host
  /\ r.out_port = a.target_port

LEMMA OneAllocation ==
  ASSUME NEW id \in Ids, NEW a \in Allocation \cup {None}
  PROVE  /\ RulesOf(id, a) \in Seq(Rules)
         /\ \A i \in 1..Len(RulesOf(id, a)) : /\ RulesOf(id, a)[i].allocation_id = id
                                              /\ RuleOf(RulesOf(id, a)[i], a)
         /\ \A p \in {"tcp", "udp"} : Gives(a, p) =>
              \E i \in 1..Len(RulesOf(id, a)) : RulesOf(id, a)[i].protocol = p
<1> DEFINE s == RulesOf(id, a)
<1>1. CASE a = None \/ ~ Bound(a)
  <2>1. s = << >>
    BY <1>1, Zenon DEF RulesOf
  <2>2. \A p : ~ Gives(a, p)
    BY <1>1, Zenon DEF Gives
  <2>3. << >> \in Seq(Rules) /\ \A i \in 1..Len(<< >>) : FALSE
    OBVIOUS
  <2> QED BY <2>1, <2>2, <2>3, Zenon
<1>2. CASE a # None /\ Bound(a)
  <2>1. a \in Allocation
    BY <1>2, Zenon
  <2>2. /\ a.protocol \in {"tcp", "udp", "both"} /\ a.port \in Ports
        /\ a.host \in Hosts /\ a.target_port \in Ports
    <3>1. /\ a.protocol \in {"tcp", "udp", "both"} /\ a.port \in PortRange
          /\ a.host \in Hosts /\ a.target_port \in TargetPorts
      BY <1>2, <2>1, Zenon DEF Allocation, Bound, Protocols
    <3> QED BY <3>1, CallsAssumption, Zenon DEF Ports
  <2> DEFINE P == protocols_for(a.protocol)
             r(p) == [allocation_id |-> id, protocol |-> p, in_port |-> a.port,
                      out_host |-> a.host, out_port |-> a.target_port]
  <2>3. s = [i \in 1..Len(P) |-> r(P[i])]
    BY <1>2, Zenon DEF RulesOf
  <2>4. /\ P \in Seq({"tcp", "udp"})
        /\ \A i \in 1..Len(P) : P[i] = a.protocol \/ a.protocol = "both"
        /\ \A p \in {"tcp", "udp"} : (p = a.protocol \/ a.protocol = "both") =>
             \E i \in 1..Len(P) : P[i] = p
    <3>1. CASE a.protocol = "both"
      BY <3>1 DEF protocols_for
    <3>2. CASE a.protocol # "both"
      <4>1. P = << a.protocol >> /\ a.protocol \in {"tcp", "udp"}
        BY <2>2, <3>2, Zenon DEF protocols_for
      <4> QED BY <3>2, <4>1
    <3> QED BY <3>1, <3>2, Zenon
  <2> HIDE DEF P
  <2>5. ASSUME NEW p \in {"tcp", "udp"}, p = a.protocol \/ a.protocol = "both"
        PROVE  /\ r(p) \in Rules /\ r(p).allocation_id = id /\ r(p).protocol = p
               /\ RuleOf(r(p), a)
    <3>1. /\ r(p) \in Rules /\ r(p).allocation_id = id /\ r(p).protocol = p
          /\ r(p).in_port = a.port /\ r(p).out_host = a.host /\ r(p).out_port = a.target_port
      BY <2>2 DEF Rules
    <3> HIDE DEF r
    <3> QED BY <1>2, <2>5, <3>1, Zenon DEF RuleOf, Gives
  <2>6. Len(P) \in Nat /\ \A i \in 1..Len(P) : P[i] \in {"tcp", "udp"}
    BY <2>4
  <2> HIDE DEF r
  <2>7. \A i \in 1..Len(P) : /\ r(P[i]) \in Rules /\ r(P[i]).allocation_id = id
                             /\ r(P[i]).protocol = P[i] /\ RuleOf(r(P[i]), a)
    BY <2>4, <2>5, <2>6, Zenon
  <2>8. s \in Seq(Rules) /\ Len(s) = Len(P)
    <3>1. \A i \in 1..Len(P) : r(P[i]) \in Rules
      BY <2>7, Zenon
    <3>2. s \in [1..Len(P) -> Rules] /\ DOMAIN s = 1..Len(P)
      BY <2>3, <3>1, Zenon
    <3> HIDE DEF s
    <3> QED BY <2>6, <3>2
  <2>9. \A i \in 1..Len(P) : s[i] = r(P[i])
    BY <2>3, Zenon
  <2> HIDE DEF s
  <2>10. \A i \in 1..Len(s) : s[i].allocation_id = id /\ RuleOf(s[i], a)
    BY <2>7, <2>8, <2>9, Zenon
  <2>11. \A p \in {"tcp", "udp"} : Gives(a, p) => \E i \in 1..Len(s) : s[i].protocol = p
    BY <2>4, <2>7, <2>8, <2>9, Zenon DEF Gives
  <2> QED BY <2>8, <2>10, <2>11, Zenon DEF s
<1> QED BY <1>1, <1>2, Zenon

(* The rules s of the allocations up to n: each is of one of them, in the order of their ids, *)
(* and every protocol of every bound allocation has its rule.                                 *)
Listed(s, recorded, n) ==
  /\ s \in Seq(Rules)
  /\ \A i \in 1..Len(s) : s[i].allocation_id <= n /\ RuleOf(s[i], recorded[s[i].allocation_id])
  /\ \A i \in 1..Len(s), j \in 1..Len(s) : i <= j => s[i].allocation_id <= s[j].allocation_id
  /\ \A id \in 1..n, p \in {"tcp", "udp"} : Gives(recorded[id], p) =>
       \E i \in 1..Len(s) : s[i].allocation_id = id /\ s[i].protocol = p

LEMMA ListedMore ==
  ASSUME NEW recorded, NEW n \in Nat, NEW s, Listed(s, recorded, n),
         NEW t \in Seq(Rules),
         \A i \in 1..Len(t) : t[i].allocation_id = n + 1 /\ RuleOf(t[i], recorded[n + 1]),
         \A p \in {"tcp", "udp"} : Gives(recorded[n + 1], p) =>
           \E i \in 1..Len(t) : t[i].protocol = p
  PROVE  Listed(s \o t, recorded, n + 1)
<1> DEFINE u == s \o t
           L == Len(s)
           K == Len(t)
<1>0. s \in Seq(Rules) /\ L \in Nat /\ K \in Nat
  BY DEF Listed
<1>1. /\ u \in Seq(Rules)
      /\ Len(u) = L + K
      /\ \A i \in 1..(L + K) : u[i] = IF i <= L THEN s[i] ELSE t[i - L]
  BY ONLY <1>0, t \in Seq(Rules), ConcatProperties, Zenon
<1> HIDE DEF u
<1>2. \A i \in 1..Len(u) : \/ i \in 1..L /\ u[i] = s[i]
                           \/ ~ (i <= L) /\ i - L \in 1..K /\ u[i] = t[i - L]
  <2> HIDE DEF L, K
  <2> QED BY <1>0, <1>1
<1>3. \A i \in 1..L : i \in 1..Len(u) /\ u[i] = s[i]
  <2> HIDE DEF L, K
  <2> QED BY <1>0, <1>1
<1>4. \A i \in 1..K : i + L \in 1..Len(u) /\ u[i + L] = t[i]
  <2> HIDE DEF L, K
  <2>1. ASSUME NEW i \in 1..K
        PROVE  i + L \in 1..(L + K) /\ ~ (i + L <= L) /\ (i + L) - L = i
    BY <1>0
  <2> QED BY <1>1, <2>1, Zenon
<1>5. /\ \A i \in 1..L : s[i].allocation_id <= n /\ RuleOf(s[i], recorded[s[i].allocation_id])
      /\ \A i \in 1..L, j \in 1..L : i <= j => s[i].allocation_id <= s[j].allocation_id
      /\ \A id \in 1..n, p \in {"tcp", "udp"} : Gives(recorded[id], p) =>
           \E i \in 1..L : s[i].allocation_id = id /\ s[i].protocol = p
  BY Zenon DEF Listed
<1>6. \A i \in 1..L : s[i].allocation_id \in Int /\ s[i].allocation_id <= n + 1
  <2>1. \A i \in 1..L : s[i] \in Rules
    BY <1>0
  <2>2. \A x \in Rules : x.allocation_id \in Int
    BY DEF Rules, Ids
  <2>3. \A i \in 1..L : s[i].allocation_id \in Int /\ s[i].allocation_id <= n
    BY <1>5, <2>1, <2>2, Zenon
  <2>4. \A x \in Int : x <= n => x <= n + 1
    OBVIOUS
  <2> HIDE DEF L
  <2> QED BY <2>3, <2>4, Zenon
<1> HIDE DEF L, K
<1>7. ASSUME NEW i \in 1..Len(u)
      PROVE  u[i].allocation_id <= n + 1 /\ RuleOf(u[i], recorded[u[i].allocation_id])
  <2>1. n + 1 <= n + 1
    OBVIOUS
  <2>2. \A k \in 1..K : t[k].allocation_id = n + 1 /\ RuleOf(t[k], recorded[n + 1])
    BY Zenon DEF K
  <2>3. CASE i \in 1..L /\ u[i] = s[i]
    BY <1>5, <1>6, <2>3, Zenon
  <2>4. CASE i - L \in 1..K /\ u[i] = t[i - L]
    BY <2>1, <2>2, <2>4, Zenon
  <2> QED BY <1>2, <2>3, <2>4, Zenon
<1>8. ASSUME NEW i \in 1..Len(u), NEW j \in 1..Len(u), i <= j
      PROVE  u[i].allocation_id <= u[j].allocation_id
  <2>1. n + 1 <= n + 1
    OBVIOUS
  <2>2. \A k \in 1..K : t[k].allocation_id = n + 1
    BY Zenon DEF K
  <2>3. i <= L \/ ~ (j <= L)
    BY <1>0, <1>1, <1>8
  <2>4. CASE j \in 1..L
    <3>1. j <= L
      BY <2>4, <1>0
    <3> QED BY <1>2, <1>5, <1>8, <2>3, <2>4, <3>1, <1>3, Zenon
  <2>5. CASE j - L \in 1..K /\ u[j] = t[j - L]
    BY <1>2, <1>6, <2>1, <2>2, <2>5, Zenon
  <2> QED BY <1>2, <2>4, <2>5, Zenon
<1>9. ASSUME NEW id \in 1..(n + 1), NEW p \in {"tcp", "udp"}, Gives(recorded[id], p)
      PROVE  \E i \in 1..Len(u) : u[i].allocation_id = id /\ u[i].protocol = p
  <2>1. CASE id = n + 1
    <3>1. PICK k \in 1..K : t[k].protocol = p /\ t[k].allocation_id = n + 1
      BY <1>9, <2>1, Zenon DEF K
    <3> QED BY <1>4, <2>1, <3>1, Zenon
  <2>2. CASE id # n + 1
    <3>1. id \in 1..n
      BY <2>2
    <3>2. \A x \in 1..n, q \in {"tcp", "udp"} : Gives(recorded[x], q) =>
            \E i \in 1..L : s[i].allocation_id = x /\ s[i].protocol = q
      BY <1>5, Zenon
    <3>3. PICK k \in 1..L : s[k].allocation_id = id /\ s[k].protocol = p
      BY <1>9, <3>1, <3>2
    <3> QED BY <1>3, <3>3, Zenon
  <2> QED BY <2>1, <2>2, Zenon
<1> QED BY <1>1, <1>7, <1>8, <1>9, Zenon DEF Listed, u

LEMMA RulesListed ==
  ASSUME NEW recorded \in [Ids -> Allocation \cup {None}]
  PROVE  Listed(rules_for_allocations(recorded), recorded, MaxId)
<1>0. MaxId \in Nat
  BY CallsAssumption, Zenon
<1>1. PICK f : RulesRun(f, recorded)
  BY <1>0, RulesUnfold, Zenon
<1> DEFINE T == {n \in 0..MaxId : Listed(f[n], recorded, n)}
<1>2. 0 \in T
  <2>1. Listed(<< >>, recorded, 0)
    BY DEF Listed
  <2>2. 0 \in 0..MaxId
    BY <1>0
  <2> QED BY <1>1, <2>1, <2>2, Zenon DEF RulesRun
<1>3. ASSUME NEW n \in 0..MaxId, n \in T, n < MaxId PROVE n + 1 \in T
  <2>1. n + 1 \in 1..MaxId /\ n + 1 \in 0..MaxId /\ n + 1 \in Ids /\ (n + 1) - 1 = n /\ n \in Nat
    BY <1>0, <1>3 DEF Ids
  <2> DEFINE t == RulesOf(n + 1, recorded[n + 1])
  <2>2. recorded[n + 1] \in Allocation \cup {None}
    BY <2>1, Zenon
  <2>3. f[n + 1] = f[n] \o t
    <3>1. f[n + 1] = RulesStep(f[(n + 1) - 1], recorded, n + 1)
      BY <1>1, <2>1, Zenon DEF RulesRun
    <3> QED BY <2>1, <3>1, Zenon DEF RulesStep
  <2>4. /\ t \in Seq(Rules)
        /\ \A i \in 1..Len(t) : t[i].allocation_id = n + 1 /\ RuleOf(t[i], recorded[n + 1])
        /\ \A p \in {"tcp", "udp"} : Gives(recorded[n + 1], p) =>
             \E i \in 1..Len(t) : t[i].protocol = p
    BY <2>1, <2>2, OneAllocation, Zenon
  <2> HIDE DEF t
  <2>5. Listed(f[n], recorded, n)
    BY <1>3, Zenon
  <2>6. Listed(f[n] \o t, recorded, n + 1)
    BY <2>1, <2>4, <2>5, ListedMore, Zenon
  <2> QED BY <2>1, <2>3, <2>6, Zenon
<1>4. MaxId \in T
  <2>1. MaxId \in 0..MaxId
    BY <1>0
  <2> HIDE DEF T
  <2> QED BY <1>0, <1>2, <1>3, <2>1, UpTo, Zenon
<1> QED BY <1>1, <1>4, Zenon DEF RulesRun

-----------------------------------------------------------------------------
(* What a chain decides. *)

(* When every rule of a chain decides v or nothing, and one decides v, the chain decides v. *)
LEMMA ChainDecides ==
  ASSUME NEW S, NEW tail \in Seq(S), NEW packet, NEW v,
         \A m \in Range(tail) : KernelRule(m.exprs, packet) \in {None, v},
         v # None => \E m \in Range(tail) : KernelRule(m.exprs, packet) = v
  PROVE  KernelDispatch(ExprsOf(tail), packet) = v
<1> DEFINE chain == ExprsOf(tail)
           hits == {i \in 1..Len(chain) : KernelRule(chain[i], packet) # None}
<1>1. Len(tail) \in Nat /\ Range(tail) = {tail[i] : i \in 1..Len(tail)}
  BY RangeEquality, LenProperties, Zenon
<1>2. Len(chain) = Len(tail) /\ \A i \in 1..Len(tail) : chain[i] = tail[i].exprs
  BY <1>1 DEF ExprsOf
<1>3. KernelDispatch(chain, packet) = IF hits = {} THEN None ELSE KernelRule(chain[Min(hits)], packet)
  BY Zenon DEF KernelDispatch
<1> HIDE DEF chain
<1>4. \A i \in 1..Len(chain) : KernelRule(chain[i], packet) \in {None, v}
  BY <1>1, <1>2, Zenon
<1>5. v # None => hits # {}
  <2> SUFFICES ASSUME v # None PROVE hits # {}
    BY Zenon
  <2>1. PICK i \in 1..Len(tail) : KernelRule(tail[i].exprs, packet) = v
    BY <1>1, Zenon
  <2>2. i \in hits
    BY <1>2, <2>1, Zenon
  <2> QED BY <2>2, Zenon
<1>6. \A i \in hits : KernelRule(chain[i], packet) = v /\ v # None
  BY <1>4, Zenon
<1>7. hits \in SUBSET Nat
  <2>1. \A i \in 1..Len(chain) : i \in Nat
    OBVIOUS
  <2> QED BY <2>1, Zenon
<1> HIDE DEF hits
<1>8. CASE hits = {}
  BY <1>3, <1>5, <1>8, Zenon DEF chain
<1>9. CASE hits # {}
  <2>1. Min(hits) \in hits
    BY <1>7, <1>9, LeastOf, Zenon
  <2> QED BY <1>3, <1>6, <1>9, <2>1, Zenon DEF chain
<1> QED BY <1>8, <1>9, Zenon

(* The dispatch rule of a family and a protocol that some rule has. *)
Dispatched(rules, family, protocol) ==
  LET entries == group(rules, family, protocol)
  IN  AddRule(add_dnat_rule_exprs(rules[Min(entries)], port_map(rules, entries, "out_host"),
                                  port_map(rules, entries, "out_port")))

Families == {"ipv4", "ipv6"}

LEMMA DispatchRulesRange ==
  ASSUME NEW rules
  PROVE  /\ \E S : DispatchRules(rules) \in Seq(S)
         /\ \A m \in Range(DispatchRules(rules)) :
              \E f \in Families, p \in {"tcp", "udp"} :
                group(rules, f, p) # {} /\ m = Dispatched(rules, f, p)
         /\ \A f \in Families, p \in {"tcp", "udp"} : group(rules, f, p) # {} =>
              Dispatched(rules, f, p) \in Range(DispatchRules(rules))
<1> DEFINE all == {Dispatched(rules, "ipv4", "tcp"), Dispatched(rules, "ipv4", "udp"),
                   Dispatched(rules, "ipv6", "tcp"), Dispatched(rules, "ipv6", "udp")}
           D(f, p) == DispatchRule(rules, f, p)
<1>1. ASSUME NEW f \in Families, NEW p \in {"tcp", "udp"}
      PROVE  /\ D(f, p) \in Seq(all)
             /\ Range(D(f, p)) =
                  IF group(rules, f, p) = {} THEN {} ELSE {Dispatched(rules, f, p)}
  <2>1. D(f, p) = IF group(rules, f, p) = {} THEN << >> ELSE << Dispatched(rules, f, p) >>
    BY Zenon DEF DispatchRule, Dispatched
  <2>2. Dispatched(rules, f, p) \in all
    BY Zenon DEF Families
  <2> HIDE DEF all
  <2>3. \A x \in all : << x >> \in Seq(all) /\ Len(<< x >>) = 1 /\ << x >>[1] = x
    OBVIOUS
  <2>4. \A x \in all : Range(<< x >>) = {x}
    <3> SUFFICES ASSUME NEW x \in all PROVE Range(<< x >>) = {x}
      BY Zenon
    <3>0. << x >> \in Seq(all)
      BY <2>3, Zenon
    <3>1. Range(<< x >>) = {<< x >>[i] : i \in 1..Len(<< x >>)}
      BY ONLY <3>0, RangeEquality, Zenon
    <3>2. \A i \in 1..1 : i = 1
      OBVIOUS
    <3>3. 1 \in 1..1
      OBVIOUS
    <3> QED BY <2>3, <3>1, <3>2, <3>3, Zenon
  <2>5. << >> \in Seq(all) /\ Range(<< >>) = {}
    BY DEF Range
  <2> QED BY <2>1, <2>2, <2>4, <2>3, <2>5, Zenon
<1> DEFINE d1 == D("ipv4", "tcp")
           d2 == D("ipv4", "udp")
           d3 == D("ipv6", "tcp")
           d4 == D("ipv6", "udp")
<1>2. /\ d1 \in Seq(all) /\ d2 \in Seq(all) /\ d3 \in Seq(all) /\ d4 \in Seq(all)
  <2> HIDE DEF D, all
  <2> QED BY <1>1, Zenon DEF Families
<1>3. DispatchRules(rules) = d1 \o d2 \o d3 \o d4
  BY Zenon DEF DispatchRules
<1>4. /\ DispatchRules(rules) \in Seq(all)
      /\ Range(DispatchRules(rules)) = Range(d1) \cup Range(d2) \cup Range(d3) \cup Range(d4)
  <2> HIDE DEF d1, d2, d3, d4, all
  <2>0. \A s, t \in Seq(all) : s \o t \in Seq(all) /\ Range(s \o t) = Range(s) \cup Range(t)
    <3> SUFFICES ASSUME NEW s \in Seq(all), NEW t \in Seq(all)
                 PROVE  s \o t \in Seq(all) /\ Range(s \o t) = Range(s) \cup Range(t)
      BY Zenon
    <3>1. s \o t \in Seq(all)
      BY ConcatProperties, Zenon
    <3>2. Range(s \o t) = Range(s) \cup Range(t)
      BY RangeConcatenation, Zenon
    <3> QED BY <3>1, <3>2, Zenon
  <2> DEFINE e2 == d1 \o d2
             e3 == e2 \o d3
  <2>1. e2 \in Seq(all) /\ Range(e2) = Range(d1) \cup Range(d2)
    BY <1>2, <2>0, Zenon
  <2> HIDE DEF e2
  <2>2. e3 \in Seq(all) /\ Range(e3) = Range(e2) \cup Range(d3)
    BY <1>2, <2>0, <2>1, Zenon
  <2> HIDE DEF e3
  <2>3. e3 \o d4 \in Seq(all) /\ Range(e3 \o d4) = Range(e3) \cup Range(d4)
    BY <1>2, <2>0, <2>2, Zenon
  <2> QED BY <1>3, <2>1, <2>2, <2>3, Zenon DEF e2, e3
<1>5. \A f \in Families, p \in {"tcp", "udp"} : Range(D(f, p)) \subseteq Range(DispatchRules(rules))
  <2> HIDE DEF D
  <2>1. /\ Range(D("ipv4", "tcp")) \subseteq Range(DispatchRules(rules))
        /\ Range(D("ipv4", "udp")) \subseteq Range(DispatchRules(rules))
        /\ Range(D("ipv6", "tcp")) \subseteq Range(DispatchRules(rules))
        /\ Range(D("ipv6", "udp")) \subseteq Range(DispatchRules(rules))
    BY <1>4, Zenon
  <2> QED BY <2>1, Zenon DEF Families
<1>6. ASSUME NEW m \in Range(DispatchRules(rules))
      PROVE  \E f \in Families, p \in {"tcp", "udp"} :
               group(rules, f, p) # {} /\ m = Dispatched(rules, f, p)
  <2>1. \E f \in Families, p \in {"tcp", "udp"} : m \in Range(D(f, p))
    <3> HIDE DEF D
    <3>1. \/ m \in Range(D("ipv4", "tcp")) \/ m \in Range(D("ipv4", "udp"))
          \/ m \in Range(D("ipv6", "tcp")) \/ m \in Range(D("ipv6", "udp"))
      BY <1>4, Zenon
    <3> QED BY <3>1, Zenon DEF Families
  <2>2. PICK f \in Families, p \in {"tcp", "udp"} : m \in Range(D(f, p))
    BY <2>1, Zenon
  <2> HIDE DEF D, all
  <2>3. Range(D(f, p)) = IF group(rules, f, p) = {} THEN {} ELSE {Dispatched(rules, f, p)}
    BY <1>1, Zenon
  <2> QED BY <2>2, <2>3, Zenon
<1>7. ASSUME NEW f \in Families, NEW p \in {"tcp", "udp"}, group(rules, f, p) # {}
      PROVE  Dispatched(rules, f, p) \in Range(DispatchRules(rules))
  <2> HIDE DEF D, all
  <2>1. Dispatched(rules, f, p) \in Range(D(f, p))
    BY <1>1, <1>7, Zenon
  <2> QED BY <1>5, <2>1, Zenon
<1> HIDE DEF all
<1> QED BY <1>4, <1>6, <1>7, Zenon

LEMMA RulesetFills ==
  ASSUME NEW rules, NEW chain
  PROVE  KernelBatch(chain, replace_ruleset(rules)) = ExprsOf(DispatchRules(rules))
<1> DEFINE tail == DispatchRules(rules)
<1>1. /\ \E S : tail \in Seq(S)
      /\ \A m \in Range(tail) : \E g \in Families, q \in {"tcp", "udp"} :
           group(rules, g, q) # {} /\ m = Dispatched(rules, g, q)
  BY DispatchRulesRange, Zenon
<1> HIDE DEF tail
<1>2. PICK S : tail \in Seq(S)
  BY <1>1, Zenon
<1>3. \A i \in 1..Len(tail) : tail[i] \in Range(tail)
  BY <1>2, RangeEquality, Zenon
<1>4. \A x : AddRule(x).msg = "add_rule"
  BY DEF AddRule
<1>5. \A i \in 1..Len(tail) : tail[i].msg = "add_rule"
  BY <1>1, <1>3, <1>4, Zenon DEF Dispatched
<1> QED BY <1>2, <1>5, BatchFills, Zenon DEF replace_ruleset, tail

(* replace_ruleset: the three messages that the batch begins with leave nothing of what the *)
(* chain held, be it from an earlier process or from a batch that was not acknowledged.     *)
THEOREM RulesetReplaces ==
  ASSUME NEW rules, NEW chain, NEW other
  PROVE  KernelBatch(chain, replace_ruleset(rules)) = KernelBatch(other, replace_ruleset(rules))
BY RulesetFills, Zenon

-----------------------------------------------------------------------------
(* The rules for a packet's port in the group of a family and a protocol. *)
Hits(rules, family, protocol, port) ==
  {i \in group(rules, family, protocol) : rules[i].in_port = port}

LEMMA DispatchedDecides ==
  ASSUME NEW rules \in Seq(Rules), NEW packet \in Packets,
         NEW f \in Families, NEW p \in {"tcp", "udp"}, group(rules, f, p) # {}
  PROVE  LET hits == Hits(rules, f, p, packet.dport)
         IN  KernelRule(Dispatched(rules, f, p).exprs, packet) =
               IF /\ packet.nfproto = f /\ packet.l4proto = p /\ packet.daddr = "local"
                  /\ hits # {}
               THEN << rules[Min(hits)].out_host, rules[Min(hits)].out_port >> ELSE None
<1> DEFINE G == group(rules, f, p)
           port == packet.dport
           hits == Hits(rules, f, p, port)
           dnat == rules[Min(G)]
           addresses == port_map(rules, G, "out_host")
           ports == port_map(rules, G, "out_port")
<1>1. Dispatched(rules, f, p).exprs = add_dnat_rule_exprs(dnat, addresses, ports)
  <2> DEFINE x == add_dnat_rule_exprs(dnat, addresses, ports)
  <2>1. Dispatched(rules, f, p) = AddRule(x)
    BY Zenon DEF Dispatched
  <2> HIDE DEF x
  <2>2. AddRule(x).exprs = x
    BY DEF AddRule
  <2> QED BY <2>1, <2>2, Zenon DEF x
<1>2. G \in SUBSET Nat /\ G # {} /\ \A i \in G : i \in 1..Len(rules)
  <2>1. \A i \in 1..Len(rules) : i \in Nat
    OBVIOUS
  <2> QED BY <2>1, Zenon DEF group
<1>3. \A i \in G : nfproto_for(rules[i].out_host) = f /\ rules[i].protocol = p
  BY Zenon DEF group
<1>4. \A i \in G : rules[i] \in Rules
  <2>1. \A i \in 1..Len(rules) : rules[i] \in Rules
    OBVIOUS
  <2> QED BY <1>2, <2>1, Zenon
<1> HIDE DEF G
<1>5. nfproto_for(dnat.out_host) = f /\ dnat.protocol = p
  <2>1. Min(G) \in G
    BY <1>2, LeastOf, Zenon
  <2> QED BY <1>3, <2>1, Zenon
<1>6. /\ DOMAIN addresses = {rules[i].in_port : i \in G}
      /\ DOMAIN ports = {rules[i].in_port : i \in G}
  BY Zenon DEF port_map
<1>7. hits = {i \in G : rules[i].in_port = port}
  BY Zenon DEF Hits, G
<1>8. port \in DOMAIN addresses <=> hits # {}
  <2> HIDE DEF addresses, hits, port
  <2> QED BY <1>6, <1>7, Zenon
<1>9. port \in DOMAIN addresses =>
        addresses[port] = rules[Min(hits)]["out_host"] /\ ports[port] = rules[Min(hits)]["out_port"]
  BY <1>6, <1>7, Zenon DEF port_map
<1> HIDE DEF addresses, ports, port, hits, dnat
<1>10. hits # {} => /\ rules[Min(hits)].out_host \in Hosts
                    /\ rules[Min(hits)].out_port \in Int
  <2> SUFFICES ASSUME hits # {} PROVE rules[Min(hits)] \in Rules
    BY DEF Rules, Ports
  <2>1. hits \in SUBSET Nat
    BY <1>2, <1>7, Zenon
  <2>2. Min(hits) \in G
    BY <1>7, <2>1, LeastOf, Zenon
  <2> QED BY <1>4, <2>2, Zenon
<1>11. \A r : r["out_host"] = r.out_host /\ r["out_port"] = r.out_port
  OBVIOUS
<1>12. port \in DOMAIN addresses =>
         addresses[port] = rules[Min(hits)].out_host /\ ports[port] = rules[Min(hits)].out_port
  BY <1>9, <1>11
<1>13. port \in DOMAIN addresses => addresses[port] \in Hosts /\ ports[port] \in Int
  BY <1>8, <1>10, <1>12, Zenon
<1>14. KernelRule(add_dnat_rule_exprs(dnat, addresses, ports), packet) =
         IF RuleFor(dnat, addresses, packet) THEN << addresses[port], ports[port] >> ELSE None
  BY <1>6, <1>13, RuleDecides, Zenon DEF port
<1>15. RuleFor(dnat, addresses, packet) <=>
         /\ packet.nfproto = f /\ packet.l4proto = p /\ packet.daddr = "local"
         /\ hits # {}
  BY <1>5, <1>8, Zenon DEF RuleFor, port
<1>16. CASE RuleFor(dnat, addresses, packet)
  <2>1. << addresses[port], ports[port] >> =
          << rules[Min(hits)].out_host, rules[Min(hits)].out_port >>
    BY <1>8, <1>12, <1>15, <1>16, Zenon
  <2> QED BY <1>1, <1>14, <1>15, <1>16, <2>1, Zenon DEF hits, port
<1>17. CASE ~ RuleFor(dnat, addresses, packet)
  BY <1>1, <1>14, <1>15, <1>17, Zenon DEF hits, port
<1> QED BY <1>16, <1>17, Zenon

(* The allocations that a packet may be for are those of the rules that it hits; of the least *)
(* hit the allocation is the least.                                                           *)
LEMMA HitsAreCandidates ==
  ASSUME NEW recorded \in [Ids -> Allocation \cup {None}], NEW packet \in Packets,
         NEW rules, Listed(rules, recorded, MaxId)
  PROVE  LET hits == Hits(rules, packet.nfproto, packet.l4proto, packet.dport)
             candidates == Candidates(recorded, packet)
         IN  /\ hits # {} <=> candidates # {}
             /\ hits # {} =>
                  /\ Min(hits) \in hits
                  /\ rules[Min(hits)].out_host = recorded[Min(candidates)].host
                  /\ rules[Min(hits)].out_port = recorded[Min(candidates)].target_port
<1> DEFINE hits == Hits(rules, packet.nfproto, packet.l4proto, packet.dport)
           candidates == Candidates(recorded, packet)
           N == Len(rules)
           owner(i) == rules[i].allocation_id
<1>1. /\ rules \in Seq(Rules)
      /\ \A i \in 1..N : RuleOf(rules[i], recorded[owner(i)])
      /\ \A i \in 1..N, j \in 1..N : i <= j => owner(i) <= owner(j)
  BY Zenon DEF Listed
<1>2. \A id \in 1..MaxId, p \in {"tcp", "udp"} : Gives(recorded[id], p) =>
         \E i \in 1..N : owner(i) = id /\ rules[i].protocol = p
  BY Zenon DEF Listed
<1>3. \A i \in 1..N : owner(i) \in Ids
  <2>1. \A i \in 1..N : rules[i] \in Rules
    BY <1>1
  <2> QED BY <2>1, Zenon DEF Rules
<1>4. Ids \in SUBSET Nat /\ Ids = 1..MaxId
  BY CallsAssumption DEF Ids
<1>5. packet.l4proto \in {"tcp", "udp"}
  BY DEF Packets
<1>6. \A i : i \in hits <=>
         /\ i \in 1..N /\ nfproto_for(rules[i].out_host) = packet.nfproto
         /\ rules[i].protocol = packet.l4proto /\ rules[i].in_port = packet.dport
  BY Zenon DEF Hits, group
<1>7. \A id : id \in candidates <=>
         /\ id \in Ids /\ Gives(recorded[id], packet.l4proto)
         /\ packet.dport = recorded[id].port /\ packet.nfproto = nfproto_for(recorded[id].host)
  BY Zenon DEF Candidates, Gives
<1> HIDE DEF hits, candidates, N, owner
<1>8. ASSUME NEW i \in hits PROVE owner(i) \in candidates /\ i \in 1..N
  <2>1. i \in 1..N /\ RuleOf(rules[i], recorded[owner(i)])
    BY <1>1, <1>6, Zenon
  <2> QED BY <1>3, <1>6, <1>7, <2>1, Zenon DEF RuleOf
<1>9. ASSUME NEW id \in candidates PROVE \E i \in hits : owner(i) = id
  <2>1. /\ id \in 1..MaxId /\ Gives(recorded[id], packet.l4proto)
        /\ packet.dport = recorded[id].port /\ packet.nfproto = nfproto_for(recorded[id].host)
    BY <1>4, <1>7, Zenon
  <2>2. PICK i \in 1..N : owner(i) = id /\ rules[i].protocol = packet.l4proto
    BY <1>2, <1>5, <2>1, Zenon
  <2>3. RuleOf(rules[i], recorded[id])
    BY <1>1, <2>2, Zenon
  <2>4. i \in hits
    BY <1>6, <2>1, <2>2, <2>3, Zenon DEF RuleOf
  <2> QED BY <2>2, <2>4, Zenon
<1>10. hits # {} <=> candidates # {}
  BY <1>8, <1>9, Zenon
<1>11. ASSUME hits # {}
       PROVE  /\ Min(hits) \in hits
              /\ rules[Min(hits)].out_host = recorded[Min(candidates)].host
              /\ rules[Min(hits)].out_port = recorded[Min(candidates)].target_port
  <2>1. hits \in SUBSET Nat /\ candidates \in SUBSET Nat
    <3>1. \A i \in 1..N : i \in Nat
      OBVIOUS
    <3> QED BY <1>4, <1>6, <1>7, <3>1, Zenon
  <2>2. Min(hits) \in hits /\ \A i \in hits : Min(hits) <= i
    BY <1>11, <2>1, LeastOf, Zenon
  <2>3. Min(candidates) \in candidates /\ \A id \in candidates : Min(candidates) <= id
    BY <1>10, <1>11, <2>1, LeastOf, Zenon
  <2>4. PICK i \in hits : owner(i) = Min(candidates)
    BY <1>9, <2>3, Zenon
  <2>5. owner(Min(hits)) <= Min(candidates)
    BY <1>1, <1>8, <2>2, <2>4, Zenon DEF owner, N
  <2>6. Min(candidates) <= owner(Min(hits))
    BY <1>8, <2>2, <2>3, Zenon
  <2>7. owner(Min(hits)) \in Nat /\ Min(candidates) \in Nat
    BY <1>8, <2>1, <2>2, <2>3, Zenon
  <2>8. owner(Min(hits)) = Min(candidates)
    BY <2>5, <2>6, <2>7
  <2>9. RuleOf(rules[Min(hits)], recorded[owner(Min(hits))])
    BY <1>1, <1>8, <2>2, Zenon DEF owner, N
  <2> QED BY <2>2, <2>8, <2>9, Zenon DEF RuleOf
<1> QED BY <1>10, <1>11, Zenon DEF hits, candidates

(* apply_rules and the kernel: whatever the chain held, once the batch for the recorded       *)
(* allocations is applied every packet goes where they say.  The maps that the four rules of  *)
(* a chain share among all allocations, the order of the rules and that of the registers are  *)
(* all in it.                                                                                 *)
THEOREM RulesetIsExact ==
  ASSUME NEW recorded \in [Ids -> Allocation \cup {None}], NEW chain, NEW packet \in Packets
  PROVE  KernelDispatch(KernelBatch(chain, replace_ruleset(rules_for_allocations(recorded))), packet)
           = Expected(recorded, packet)
<1> DEFINE rules == rules_for_allocations(recorded)
           tail == DispatchRules(rules)
           f == packet.nfproto
           p == packet.l4proto
           hits == Hits(rules, f, p, packet.dport)
           v == Expected(recorded, packet)
<1>1. Listed(rules, recorded, MaxId)
  BY RulesListed, Zenon
<1> HIDE DEF rules
<1>2. rules \in Seq(Rules)
  BY <1>1, Zenon DEF Listed
<1>3. /\ \E S : tail \in Seq(S)
      /\ \A m \in Range(tail) : \E g \in Families, q \in {"tcp", "udp"} :
           group(rules, g, q) # {} /\ m = Dispatched(rules, g, q)
      /\ \A g \in Families, q \in {"tcp", "udp"} : group(rules, g, q) # {} =>
           Dispatched(rules, g, q) \in Range(tail)
  BY DispatchRulesRange, Zenon
<1> HIDE DEF tail
<1>4. PICK S : tail \in Seq(S)
  BY <1>3, Zenon
<1>5. KernelBatch(chain, replace_ruleset(rules)) = ExprsOf(tail)
  BY RulesetFills, Zenon DEF tail
<1>6. f \in Families /\ p \in {"tcp", "udp"}
  BY DEF Packets, Families
<1>7. /\ hits # {} <=> Candidates(recorded, packet) # {}
      /\ hits # {} =>
           /\ Min(hits) \in hits
           /\ rules[Min(hits)].out_host = recorded[Min(Candidates(recorded, packet))].host
           /\ rules[Min(hits)].out_port = recorded[Min(Candidates(recorded, packet))].target_port
  BY <1>1, HitsAreCandidates, Zenon
<1>8. v = IF packet.daddr = "local" /\ hits # {}
          THEN << rules[Min(hits)].out_host, rules[Min(hits)].out_port >> ELSE None
  <2> HIDE DEF hits
  <2> QED BY <1>7, Zenon DEF Expected
<1> HIDE DEF v
<1>9. ASSUME NEW m \in Range(tail) PROVE KernelRule(m.exprs, packet) \in {None, v}
  <2>1. PICK g \in Families, q \in {"tcp", "udp"} :
          group(rules, g, q) # {} /\ m = Dispatched(rules, g, q)
    BY <1>3, Zenon
  <2> DEFINE found == Hits(rules, g, q, packet.dport)
  <2>2. KernelRule(m.exprs, packet) =
          IF f = g /\ p = q /\ packet.daddr = "local" /\ found # {}
          THEN << rules[Min(found)].out_host, rules[Min(found)].out_port >> ELSE None
    <3>1. group(rules, g, q) # {}
      BY <2>1, Zenon
    <3>2. KernelRule(Dispatched(rules, g, q).exprs, packet) =
            IF f = g /\ p = q /\ packet.daddr = "local" /\ found # {}
            THEN << rules[Min(found)].out_host, rules[Min(found)].out_port >> ELSE None
      BY <1>2, <3>1, DispatchedDecides, Zenon
    <3> QED BY <2>1, <3>2, Zenon
  <2>3. CASE f = g /\ p = q
    BY <1>8, <2>2, <2>3, Zenon
  <2>4. CASE ~ (f = g /\ p = q)
    <3> HIDE DEF found, f, p
    <3> QED BY <2>2, <2>4, Zenon
  <2> QED BY <2>3, <2>4, Zenon
<1>10. ASSUME v # None PROVE \E m \in Range(tail) : KernelRule(m.exprs, packet) = v
  <2>1. packet.daddr = "local" /\ hits # {}
    BY <1>8, <1>10, Zenon
  <2>2. group(rules, f, p) # {}
    BY <2>1, Zenon DEF Hits
  <2>3. Dispatched(rules, f, p) \in Range(tail)
    BY <1>3, <1>6, <2>2, Zenon
  <2>4. KernelRule(Dispatched(rules, f, p).exprs, packet) = v
    BY <1>2, <1>6, <1>8, <2>1, <2>2, DispatchedDecides, Zenon
  <2> QED BY <2>3, <2>4, Zenon
<1>11. KernelDispatch(ExprsOf(tail), packet) = v
  BY <1>4, <1>9, <1>10, ChainDecides, Zenon
<1> QED BY <1>5, <1>11, Zenon DEF v, rules
=============================================================================
