------------------------------ MODULE Documents ------------------------------
(***************************************************************************)
(* The subscription document both workers build from the rows they have    *)
(* read (packages/shared: subscription.ts, subformats.ts, protocols.ts,    *)
(* template.ts): which nodes it names, in which order and under which      *)
(* names, and, for Clash, the proxies, their group and the rules.          *)
(*                                                                         *)
(* A row is a candidate of Selection with [name, country, protocol, kind]  *)
(* as well.  A template is the set of variables it shows, and whether it   *)
(* has text of its own.                                                    *)
(***************************************************************************)
EXTENDS Selection

Blank == 0                       \* a column that is null
Direct == [direct |-> TRUE]      \* the name DIRECT in a proxy group

(* findNodesForUser: the nodes assigned and enabled, or else all enabled.  *)
ServedRows(rows, assigned) ==
    LET enabled == {row \in rows : row.enabled}
        own == {row \in enabled : row.id \in assigned} IN
    IF own # {} THEN own ELSE enabled

(* renderNodeName: a name that comes out empty is the node's own. *)
DisplayName(template, row, index) ==
    LET shown == [v \in template.shows |->
                    CASE v = "NAME" -> row.name
                      [] v = "COUNTRY" -> row.country
                      [] v = "INDEX" -> index] IN
    IF template.text \/ \E v \in template.shows : shown[v] # Blank THEN shown
    ELSE [v \in {"NAME"} |-> row.name]

(* generateClashProxy of the adapters: null for xhttp, but Shadowsocks     *)
(* leaves the transport out instead.                                       *)
HasClash(row) == row.kind # "xhttp" \/ row.protocol = "shadowsocks"

Entries(ranking, template) ==
    [i \in 1 .. Len(ranking) |->
        [id |-> ranking[i].id, name |-> DisplayName(template, ranking[i], i),
         clash |-> HasClash(ranking[i])]]

(* The one proxy group of a Clash document. *)
Group(proxies) ==
    IF proxies = << >> THEN <<Direct>> ELSE [i \in 1 .. Len(proxies) |-> proxies[i].name]

GroupType(strategy) ==
    CASE strategy = "latency" -> "url-test"
      [] strategy = "weight" -> "load-balance"
      [] OTHER -> "fallback"

(* buildSubscription: the documents the sort may lead to. *)
Base64Documents(rows, assigned, strategy, template) ==
    {Entries(ranking, template) : ranking \in Rankings(ServedRows(rows, assigned), strategy)}

(* The elements of s at the indices in I, in their order.  (SelectSeq is    *)
(* not for the provers.)                                                   *)
Picked(s, I) ==
    LET upTo[n \in 0 .. Len(s)] ==
            IF n = 0 THEN << >>
            ELSE IF n \in I THEN Append(upTo[n - 1], s[n]) ELSE upTo[n - 1] IN
    upTo[Len(s)]

ClashDocument(entries, strategy, order) ==
    LET proxies == Picked(entries, {i \in DOMAIN entries : entries[i].clash}) IN
    [proxies |-> proxies, group |-> Group(proxies), type |-> GroupType(strategy),
     rules |-> ClashRules(order)]

ClashDocuments(rows, assigned, strategy, template, order) ==
    {ClashDocument(entries, strategy, order) :
        entries \in Base64Documents(rows, assigned, strategy, template)}

-----------------------------------------------------------------------------
(* What a Clash client makes of its document: a name stands for the        *)
(* proxies that have it, a fallback group is tried in order, and the first *)
(* rule that matches decides, the last of them being MATCH.                *)

ProxiesNamed(d, name) == {p.id : p \in {q \in Range(d.proxies) : q.name = name}}

ClientNext(d, failed) ==
    LET i == SelectInSeq(d.group, LAMBDA name : ProxiesNamed(d, name) \ failed # {}) IN
    IF i = 0 THEN {0} ELSE ProxiesNamed(d, d.group[i]) \ failed

ClientAction(d, target) ==
    LET i == SelectInSeq(d.rules, LAMBDA r : RuleMatches(r, target))
        to == IF i = 0 THEN "proxy" ELSE d.rules[i].to IN
    IF to = "proxy" /\ d.group = <<Direct>> THEN "direct" ELSE to
=============================================================================
