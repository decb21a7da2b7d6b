------------------------------ MODULE Delivery ------------------------------
(***************************************************************************)
(* Health composed with the documents: what a subscriber would be handed   *)
(* in each state the health checks and the edits of nodes can lead to.     *)
(*                                                                         *)
(* Nodes are the ones whose rows change here; a fleet gives the columns of *)
(* their rows that Health leaves out, and the whole rows of other nodes.   *)
(* Delivering changes nothing but a counter, so the documents are a        *)
(* function of the state and not an action.                                *)
(***************************************************************************)
EXTENDS Health, Links

CONSTANTS
    Fleets,      \* sets of rows, those of Nodes among them
    Templates,   \* nodeNameTemplate
    RuleSets,    \* the routing rules there may be
    Targets,     \* destinations
    Columns      \* the columns of a row that only its link and its proxy show

ASSUME NodesAssumption == Nodes \subseteq Nat \ {0}

(* Columns as the schemas and the migrations have them, null as Blank.     *)
NodeColumns ==
    [id : Nat \ {0}, enabled : BOOLEAN, health : Health, latency : Nat \cup {Unmeasured},
     priority : Nat, weight : Nat, name : Nat \ {Blank}, country : Nat,
     protocol : {"vless", "trojan", "shadowsocks"}, kind : {"ws", "grpc", "xhttp"}]

LinkColumns ==
    [edge : BOOLEAN, hostname : Nat, port : Nat, path : Nat, host : Nat, service : Nat,
     tls : BOOLEAN, sni : Nat, fingerprint : Nat, alpn : Nat, insecure : Nat]

Addresses == [v6 : BOOLEAN, number : Nat]

(* A primary key, and a row in every fleet for every node there may be.    *)
ASSUME FleetsAssumption ==
    \A fleet \in Fleets :
        /\ IsFiniteSet(fleet)
        /\ fleet \subseteq NodeColumns
        /\ \A a, b \in fleet : a.id = b.id => a = b
        /\ Nodes \subseteq {row.id : row \in fleet}

ASSUME ColumnsAssumption == Columns \subseteq LinkColumns

ASSUME TemplatesAssumption ==
    \A t \in Templates : t.shows \subseteq {"NAME", "COUNTRY", "INDEX"} /\ t.text \in BOOLEAN

(* Rules whose patterns fit their types, as validateRulePattern has them.  *)
(* (RulesFit of Network is about those that do not.)                       *)
ASSUME RulesAssumption ==
    /\ \A rules \in RuleSets :
          /\ IsFiniteSet(rules)
          /\ \A rule \in rules :
                /\ rule.type \in {"domain", "domain-suffix", "domain-keyword", "ip", "cidr",
                                  "geoip", "geosite"}
                /\ rule.type = "ip" => rule.pattern \in Addresses
    /\ \A target \in Targets : IsAddress(target) => target \in Addresses

VARIABLE parked   \* history: nodes switched off and not probed since

dvars == <<nodes, running, req, told, raced, parked>>

DInit == Init /\ parked = {}

SwitchOff(r, n) ==
    /\ WriteNode(r, n, FALSE)
    /\ parked' = IF Present(n) THEN parked \cup {n} ELSE parked

Probed(r) ==
    /\ Apply(r)
    /\ parked' = IF \A n \in req[r].targets : Present(n) THEN parked \ req[r].targets ELSE parked

FinishRun(r) == Finish(r) /\ UNCHANGED parked

Elsewhere ==
    \/ Restart
    \/ \E n \in Nodes : DeleteNode(n) \/ \E enabled \in BOOLEAN : CreateNode(n, enabled)
    \/ \E r \in Reqs :
          \/ CheckAll(r) \/ Enter(r) \/ Begin(r) \/ Abort(r)
          \/ \E n \in Nodes : ReadNode(r, n) \/ CheckNode(r, n) \/ Notify(r, n) \/ WriteNode(r, n, TRUE)

DNext ==
    \/ \E r \in Reqs : Probed(r) \/ FinishRun(r) \/ \E n \in Nodes : SwitchOff(r, n)
    \/ Elsewhere /\ UNCHANGED parked

(* The fairness of Health, for the same reason. *)
DSpec == DInit /\ [][DNext]_dvars /\ \A r \in Reqs : WF_dvars(FinishRun(r))

-----------------------------------------------------------------------------
Strategies == {"latency", "weight", "health", "priority"}

(* The table nodes: deleted rows are gone. *)
Rows(fleet) ==
    {IF row.id \notin Nodes THEN row
     ELSE [row EXCEPT !.enabled = nodes[row.id].enabled, !.health = nodes[row.id].health] :
        row \in {x \in fleet : x.id \in Nodes => Present(x.id)}}

Plain == [shows |-> {}, text |-> TRUE]   \* a template without variables

(***************************************************************************)
(* Documents and alerts agree.  A subscriber gets an enabled node exactly  *)
(* when the administrators were last told that it is up: one it lacks is   *)
(* known to be down, or was switched off and on again and no cycle has     *)
(* reached it since (updateNode keeps the health "disabled"), or lost an   *)
(* update or an alert to one of Health's races.                            *)
(***************************************************************************)
ServedAsTold ==
    \A n \in Nodes :
        (Present(n) /\ nodes[n].enabled /\ n \notin raced \cup parked /\ ~AlertPending(n)) =>
            \A fleet \in Fleets, assigned \in {{}, {n}}, strategy \in Strategies :
                \A d \in Base64Documents(Rows(fleet), assigned, strategy, Plain) :
                    (\E i \in 1 .. Len(d) : d[i].id = n) <=> told[n] = "up"

(* Nodes of which no two look alike under the template. *)
ToldApart(template, rows) ==
    \A a, b \in rows : a # b =>
        "INDEX" \in template.shows \/ DisplayName(template, a, 0) # DisplayName(template, b, 0)

(***************************************************************************)
(* Clients fail over as the panel would.  When any of the proxies of a     *)
(* Clash fallback group have failed, in whatever order, the next one the   *)
(* client tries is the one failover() names among the nodes Clash knows,   *)
(* however the database ordered the rows -- provided that the template     *)
(* gives the nodes names that differ.                                      *)
(***************************************************************************)
FailoverFollows ==
    \A fleet \in Fleets, strategy \in {"health", "priority"} :
        LET rows == ServedRows(Rows(fleet), {})
            known == {row \in rows : HasClash(row)}
            expected == [failed \in SUBSET {row.id : row \in known} |->
                            Failovers(known, strategy, failed)] IN
        \A template \in {t \in Templates : ToldApart(t, known)} :
            \A d \in ClashDocuments(rows, {}, strategy, template, << >>), failed \in DOMAIN expected :
                ClientNext(d, failed) = expected[failed]

(***************************************************************************)
(* A destination goes where the panel's rules send it, by the document as  *)
(* by resolveAction, except that what should go through a proxy goes out   *)
(* directly when the document has no proxy.  That happens only when no     *)
(* node of the subscriber's that Clash knows is in a usable state.  Rules  *)
(* by geoip and geosite are outside this: resolveAction never matches one. *)
(***************************************************************************)
DecidedAsRuled ==
    \A rules \in RuleSets : \A order \in RuleOrders(rules), fleet \in Fleets :
        LET rows == ServedRows(Rows(fleet), {}) IN
        \A d \in ClashDocuments(rows, {}, "latency", Plain, order), target \in Targets :
            LET ruled == ResolveAction(order, target) IN
            \/ ClientAction(d, target) = ruled
            \/ /\ ruled = "proxy" /\ ClientAction(d, target) = "direct"
               /\ \A row \in rows : HasClash(row) => ~Usable(row)

(* The row with those columns. *)
Whole(row, columns) ==
    [f \in DOMAIN row \cup DOMAIN columns |-> IF f \in DOMAIN row THEN row[f] ELSE columns[f]]

(***************************************************************************)
(* The two documents lead to the same place.  For a node the adapters      *)
(* find valid, a client that reads its link and one that reads its Clash   *)
(* proxy connect to the same address, over the same transport, with the    *)
(* same names and credentials, whichever columns are null.  (The multi     *)
(* mode of gRPC, which Clash has no field for, is left out.)               *)
(***************************************************************************)
LinksAgree ==
    \A fleet \in Fleets : \A row \in Rows(fleet), columns \in Columns :
        LET whole == Whole(row, columns) IN
        Valid(whole) /\ HasClash(whole) => ByLink(Link(whole)) = ByClash(ClashProxy(whole))
=============================================================================
