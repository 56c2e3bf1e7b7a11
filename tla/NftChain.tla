------------------------------- MODULE NftChain -------------------------------
(***************************************************************************)
(* The nftables chain of the netlink runtime (runtime/netlink.rs and its   *)
(* maps.rs): the DNAT rules of a set of allocations, the batch of messages *)
(* that installs them, and, external, how the kernel applies a batch and   *)
(* runs the expressions of a rule on a packet.  Bytes and attributes of    *)
(* the messages are left out; registers, their order of use and the maps   *)
(* are kept.                                                               *)
(***************************************************************************)
EXTENDS RuntimeCalls, Sequences, FiniteSetsExt

CONSTANT V6Hosts  \* the hosts that are IPv6 addresses

(* What a register may hold, one value each. *)
Values == Hosts \cup Int \cup {"ipv4", "ipv6", "tcp", "udp", "local", "other"}
Registers == [1..3 -> Values \cup {None}]

ASSUME RegistersAssumption == None \notin Registers \cup (Hosts \X Int)

-----------------------------------------------------------------------------
(* From allocations to rules. *)

protocols_for(protocol) == IF protocol = "both" THEN <<"tcp", "udp">> ELSE <<protocol>>

(* The NftDnatRules of one allocation: bound_target is Some when it is bound, for every *)
(* host that is stored parses.                                                          *)
RulesOf(id, a) ==
  IF a = None \/ ~ Bound(a) THEN << >>
  ELSE [i \in 1..Len(protocols_for(a.protocol)) |->
          [allocation_id |-> id, protocol |-> protocols_for(a.protocol)[i],
           in_port |-> a.port, out_host |-> a.host, out_port |-> a.target_port]]

(* rules_for_allocations: those of the bound allocations, in the order of their ids. *)
rules_for_allocations(recorded) ==
  LET upTo[n \in 0..MaxId] == IF n = 0 THEN << >> ELSE upTo[n - 1] \o RulesOf(n, recorded[n])
  IN  upTo[MaxId]

-----------------------------------------------------------------------------
(* The expressions of a rule. *)

REG_PROTOCOL == 1
REG_PORT == 2
REG_FIB_TYPE == 3
REG_DNAT_ADDR == 1
REG_DNAT_PORT == 2

nfproto_for(host) == IF host \in V6Hosts THEN "ipv6" ELSE "ipv4"

LoadMeta(key, register) == [op |-> "load", field |-> key, dreg |-> register]

(* Two bytes at offset 2 of the transport header: the destination port. *)
LoadPayload(register) == [op |-> "load", field |-> "dport", dreg |-> register]

(* The type of the destination address. *)
FibDaddrType(register) == [op |-> "load", field |-> "daddr", dreg |-> register]

CmpRegister(register, data) == [op |-> "cmp", sreg |-> register, data |-> data]

(* The source register is always REG_PORT. *)
MapLookup(set, destination) ==
  [op |-> "lookup", sreg |-> REG_PORT, set |-> set, dreg |-> destination]

Nat_DNat(family) ==
  [op |-> "dnat", family |-> family, addr |-> REG_DNAT_ADDR, port |-> REG_DNAT_PORT]

(* Mutant: the port is looked up before the address. *)
add_dnat_rule_exprs_swapped(dnat, addresses, ports) ==
  << LoadMeta("nfproto", REG_PROTOCOL), CmpRegister(REG_PROTOCOL, nfproto_for(dnat.out_host)),
     LoadMeta("l4proto", REG_PROTOCOL), CmpRegister(REG_PROTOCOL, dnat.protocol),
     LoadPayload(REG_PORT),
     FibDaddrType(REG_FIB_TYPE), CmpRegister(REG_FIB_TYPE, "local"),
     MapLookup(ports, REG_DNAT_PORT), MapLookup(addresses, REG_DNAT_ADDR),
     Nat_DNat(nfproto_for(dnat.out_host)) >>

add_dnat_rule_exprs(dnat, addresses, ports) ==
  << LoadMeta("nfproto", REG_PROTOCOL), CmpRegister(REG_PROTOCOL, nfproto_for(dnat.out_host)),
     LoadMeta("l4proto", REG_PROTOCOL), CmpRegister(REG_PROTOCOL, dnat.protocol),
     LoadPayload(REG_PORT),
     FibDaddrType(REG_FIB_TYPE), CmpRegister(REG_FIB_TYPE, "local"),
     MapLookup(addresses, REG_DNAT_ADDR), MapLookup(ports, REG_DNAT_PORT),
     Nat_DNat(nfproto_for(dnat.out_host)) >>

-----------------------------------------------------------------------------
(* The batch of messages that replaces the ruleset. *)

EnsureTable == [msg |-> "add_table"]
AddChain == [msg |-> "add_chain"]
FlushChain == [msg |-> "flush_chain"]
AddRule(exprs) == [msg |-> "add_rule", exprs |-> exprs]

(* The rules of a family and a protocol, by their places in the list. *)
group(rules, family, protocol) ==
  {i \in 1..Len(rules) : nfproto_for(rules[i].out_host) = family /\ rules[i].protocol = protocol}

(* A map from ports to a field of their rules: of two with the same key the first is kept. *)
port_map(rules, entries, field) ==
  [port \in {rules[i].in_port : i \in entries} |->
     rules[Min({i \in entries : rules[i].in_port = port})][field]]

(* The dispatch rule of a family and a protocol: none when no rule is of the two. *)
DispatchRule(rules, family, protocol) ==
  LET entries == group(rules, family, protocol)
  IN  IF entries = {} THEN << >>
      ELSE << AddRule(add_dnat_rule_exprs(rules[Min(entries)], port_map(rules, entries, "out_host"),
                                          port_map(rules, entries, "out_port"))) >>

DispatchRules(rules) ==
  DispatchRule(rules, "ipv4", "tcp") \o DispatchRule(rules, "ipv4", "udp")
    \o DispatchRule(rules, "ipv6", "tcp") \o DispatchRule(rules, "ipv6", "udp")

replace_ruleset(rules) == << EnsureTable, AddChain, FlushChain >> \o DispatchRules(rules)

-----------------------------------------------------------------------------
(* External: the kernel. *)

(* A message of a batch changes the rules of the chain, None when there is no chain. *)
KernelMessage(chain, m) ==
  CASE m.msg = "add_table" -> chain
    [] m.msg = "add_chain" -> IF chain = None THEN << >> ELSE chain
    [] m.msg = "flush_chain" -> << >>
    [] m.msg = "add_rule" -> Append(chain, m.exprs)

(* A batch is applied as a whole. *)
KernelBatch(chain, batch) ==
  LET after[n \in 0..Len(batch)] ==
        IF n = 0 THEN chain ELSE KernelMessage(after[n - 1], batch[n])
  IN  after[Len(batch)]

(* One expression on the registers: None when the rule does not match the packet. *)
KernelExpr(regs, e, packet) ==
  CASE e.op = "load" -> [regs EXCEPT ![e.dreg] = packet[e.field]]
    [] e.op = "cmp" -> IF regs[e.sreg] = e.data THEN regs ELSE None
    [] e.op = "lookup" -> IF regs[e.sreg] \in DOMAIN e.set
                          THEN [regs EXCEPT ![e.dreg] = e.set[regs[e.sreg]]] ELSE None
    [] e.op = "dnat" -> regs

(* The registers before the last expression. *)
KernelRegs(exprs, packet) ==
  LET regs[n \in 0..(Len(exprs) - 1)] ==
        IF n = 0 THEN [r \in 1..3 |-> None]
        ELSE IF regs[n - 1] = None THEN None
        ELSE KernelExpr(regs[n - 1], exprs[n], packet)
  IN  regs[Len(exprs) - 1]

(* The address and port that a rule gives to a packet, or None: its last expression is the NAT. *)
KernelRule(exprs, packet) ==
  LET regs == KernelRegs(exprs, packet)
      nat == exprs[Len(exprs)]
  IN  IF regs = None THEN None ELSE << regs[nat.addr], regs[nat.port] >>

(* The first rule of the chain that matches decides. *)
KernelDispatch(chain, packet) ==
  LET hits == {i \in 1..Len(chain) : KernelRule(chain[i], packet) # None}
  IN  IF hits = {} THEN None
      ELSE KernelRule(chain[Min(hits)], packet)

Packets ==
  [nfproto: {"ipv4", "ipv6"}, l4proto: {"tcp", "udp"}, dport: Ports, daddr: {"local", "other"}]

-----------------------------------------------------------------------------
(* What the chain is for. *)

(* The bound allocations that a packet may be for. *)
Candidates(recorded, packet) ==
  {id \in Ids : /\ recorded[id] # None
                /\ Bound(recorded[id])
                /\ packet.l4proto = recorded[id].protocol \/ recorded[id].protocol = "both"
                /\ packet.dport = recorded[id].port
                /\ packet.nfproto = nfproto_for(recorded[id].host)}

(* Where the recorded allocations send a packet. *)
Expected(recorded, packet) ==
  IF packet.daddr # "local" \/ Candidates(recorded, packet) = {} THEN None
  ELSE LET id == Min(Candidates(recorded, packet))
       IN  << recorded[id].host, recorded[id].target_port >>
=============================================================================
