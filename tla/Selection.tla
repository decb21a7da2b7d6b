------------------------------ MODULE Selection ------------------------------
(***************************************************************************)
(* The two choices packages/shared makes for the panel, as operators on    *)
(* rows: in which order nodes are to be tried, and what is to happen to a  *)
(* destination under the routing rules.  The order of nodes and the rules  *)
(* go into every subscription document; failover and resolveAction answer  *)
(* the same questions on the server.                                       *)
(*                                                                         *)
(* A host name is a sequence of labels, an address a number of Width(v6)   *)
(* bits, the name of a rule or a node a number in its alphabetical order.  *)
(***************************************************************************)
EXTENDS Integers, SequencesExt

CONSTANTS
    Width4, Width6,   \* bits of an address of either family (32 and 128)
    Slowest           \* stands in for the latency of a node never measured

ASSUME WidthsAssumption == Width4 \in Nat /\ Width6 \in Nat /\ Width4 < Width6 /\ Slowest \in Nat

Unmeasured == -1

-----------------------------------------------------------------------------
(* balancer.ts: a candidate is [id, enabled, health, latency, priority,    *)
(* weight].                                                                *)

HealthRank == [healthy |-> 0, degraded |-> 1, unknown |-> 2, unreachable |-> 3, disabled |-> 4]

(* Mutant of Usable: a node that cannot be reached is only ranked last. *)
UsableWhileOn(c) == c.enabled /\ c.health # "disabled"

Usable(c) == c.enabled /\ c.health \notin {"unreachable", "disabled"}

Latency(c) == IF c.latency = Unmeasured THEN Slowest ELSE c.latency

(* Mutant of Keys: nodes that are alike in everything are left in any order. *)
KeysNoTieBreak(c, strategy) ==
    (CASE strategy = "health" -> <<HealthRank[c.health]>>
       [] strategy = "latency" -> <<Latency(c)>>
       [] OTHER -> << >>)
    \o <<c.priority>>
    \o (IF strategy \in {"weight", "priority"} THEN <<-c.weight>> ELSE << >>)
    \o <<HealthRank[c.health], Latency(c)>>

(* What the comparison of rankCandidates looks at, in turn. *)
Keys(c, strategy) ==
    (CASE strategy = "health" -> <<HealthRank[c.health]>>
       [] strategy = "latency" -> <<Latency(c)>>
       [] OTHER -> << >>)
    \o <<c.priority>>
    \o (IF strategy \in {"weight", "priority"} THEN <<-c.weight>> ELSE << >>)
    \o <<HealthRank[c.health], Latency(c), c.id>>

Lexicographic(s, t) == \E i \in 1 .. Len(s) : s[i] < t[i] /\ \A j \in 1 .. i - 1 : s[j] = t[j]

Before(a, b, strategy) == Lexicographic(Keys(a, strategy), Keys(b, strategy))

(* What a sort by the relation can make of S, whose elements may come from *)
(* the database in any order.                                              *)
Sorted(S, Precedes(_, _)) ==
    {s \in SetToSeqs(S) : \A i, j \in 1 .. Len(s) : i < j => ~Precedes(s[j], s[i])}

(* rankCandidates. *)
Rankings(S, strategy) ==
    Sorted({c \in S : Usable(c)}, LAMBDA a, b : Before(a, b, strategy))

(* failover, or 0 when nobody is left (ids are positive). *)
Failovers(S, strategy, failed) ==
    {IF s = << >> THEN 0 ELSE s[1].id : s \in Rankings({c \in S : c.id \notin failed}, strategy)}

-----------------------------------------------------------------------------
(* routing.ts: a rule is [name, type, pattern, bits, action, priority,     *)
(* enabled]; bits is the prefix length of a cidr.  A target is a host name *)
(* [labels] or an address [v6, number].                                    *)

IsAddress(target) == "number" \in DOMAIN target
Width(address) == IF address.v6 THEN Width6 ELSE Width4

(* ipInCidr: the families agree, and so do the first bits. *)
InCidr(address, range, bits) ==
    /\ address.v6 = range.v6
    /\ bits \in 0 .. Width(range)
    /\ LET rest == 2 ^ (Width(range) - bits) IN address.number \div rest = range.number \div rest

(* ruleMatches: a keyword is one label here, and an address has one        *)
(* spelling ('ip' compares text); what geoip and geosite stand for is      *)
(* known to clients only, so that no destination is matched by them here.  *)
RuleMatches(rule, target) ==
    CASE rule.type = "domain" -> ~IsAddress(target) /\ target.labels = rule.pattern.labels
      [] rule.type = "domain-suffix" -> ~IsAddress(target) /\ IsSuffix(rule.pattern.labels, target.labels)
      [] rule.type = "domain-keyword" -> ~IsAddress(target) /\ rule.pattern.labels[1] \in Range(target.labels)
      [] rule.type = "ip" -> IsAddress(target) /\ target = rule.pattern
      [] rule.type = "cidr" -> IsAddress(target) /\ InCidr(target, rule.pattern, rule.bits)
      [] OTHER -> FALSE

(* sortRules: of rules with the same priority and name, either may come first. *)
RuleOrders(rules) ==
    Sorted({r \in rules : r.enabled},
           LAMBDA a, b : Lexicographic(<<a.priority, a.name>>, <<b.priority, b.name>>))

(* resolveAction on the sorted rules. *)
ResolveAction(order, target) ==
    LET i == SelectInSeq(order, LAMBDA r : RuleMatches(r, target)) IN
    IF i = 0 THEN "proxy" ELSE order[i].action

(* Mutant of ClashRule: one prefix length for the addresses of both families. *)
ClashRuleShort(rule) ==
    [type |-> IF rule.type = "ip" THEN "cidr" ELSE rule.type,
     pattern |-> rule.pattern,
     bits |-> IF rule.type = "ip" THEN Width4 ELSE rule.bits,
     to |-> rule.action]

(* toClashRules: a single address becomes a range of one. *)
ClashRule(rule) ==
    [type |-> IF rule.type = "ip" THEN "cidr" ELSE rule.type,
     pattern |-> rule.pattern,
     bits |-> IF rule.type = "ip" THEN Width(rule.pattern) ELSE rule.bits,
     to |-> rule.action]

ClashRules(order) == [i \in 1 .. Len(order) |-> ClashRule(order[i])]
=============================================================================
