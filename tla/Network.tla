------------------------------- MODULE Network -------------------------------
(***************************************************************************)
(* What the panel keeps about the network around the nodes: resolvers, of  *)
(* which one is the primary; backends and their secrets; the endpoints of  *)
(* WARP; domain filters; routing rules; proxy chains through nodes.  All   *)
(* are edited in the same way: a PATCH reads the row, fills in what the    *)
(* request leaves out and writes every column, and nothing ties its        *)
(* statements together.                                                    *)
(*                                                                         *)
(* One action is what a handler does between two awaits.                   *)
(***************************************************************************)
EXTENDS Naturals, Sequences, SequencesExt

CONSTANTS
    Servers,    \* ids of resolvers
    Backends,
    Warps,      \* WARP configurations: backends without a secret
    Filters,    \* domain filters: in place of an address, their entries
    Rules,
    Chains,
    Nodes,
    Outside,    \* a hop that is not a node of the panel
    NoServer,
    Kinds,      \* types of a rule; a pattern is named after the type it fits
    Values,     \* addresses and secrets of a backend
    NoValue,
    Keep,       \* a field the request leaves out
    Reqs,       \* handlers in flight at the same time
    MaxWork     \* handlers started and nodes switched within the bound

Unsure == "unsure"      \* expected once overlapping edits may have undone one another

(* Assumed where they get their values. *)
ConstantsAssumption ==
    /\ MaxWork \in Nat
    /\ NoServer \notin Servers
    /\ Backends \cap (Warps \cup Filters) = {} /\ Warps \cap Filters = {}
    /\ Outside \notin Nodes
    /\ NoValue \notin Values
    /\ Keep \notin Values \cup {NoValue} \cup Kinds \cup {"plain", "primary"}
    /\ Unsure \notin Servers \cup {NoServer}

Idle == [pc |-> "idle", row |-> NoServer, edit |-> <<>>, new |-> FALSE, alone |-> TRUE,
         left |-> <<>>, moved |-> {}]

VARIABLES
    servers,    \* servers[s]: "none", "plain" or "primary"
    backends,   \* backends[b], of a backend, of WARP or of a filter: <<url, secret>>, or <<>> where there is no row
    health,     \* health[x]: the last answer of the check of x
    rules,      \* rules[x]: <<type, pattern>>, or <<>>
    chains,     \* chains[c]: its hops, or <<>>
    node,       \* node[n]: "gone", "off" or "on"
    work,
    req,        \* req[r]: program counter and locals of handler r
    expected    \* history: what the edits that succeeded have asked for

tables == <<servers, backends, rules, chains, node>>
vars == <<servers, backends, health, rules, chains, node, work, req, expected>>

Endpoints == Backends \cup Warps \cup Filters
Targets == Servers \cup Endpoints

Init ==
    /\ servers = [s \in Servers |-> "none"]
    /\ backends = [b \in Endpoints |-> <<>>]
    /\ health = [x \in Targets |-> "unknown"]
    /\ rules = [x \in Rules |-> <<>>]
    /\ chains = [c \in Chains |-> <<>>]
    /\ node \in [Nodes -> {"off", "on"}]
    /\ work = 0
    /\ req = [r \in Reqs |-> Idle]
    /\ expected = [primary |-> NoServer, url |-> [b \in Endpoints |-> NoValue],
                   secret |-> [b \in Endpoints |-> NoValue], half |-> {}, 
                   moved |-> [c \in Chains |-> {}]]

Work == work < MaxWork /\ work' = work + 1

(* The handlers in S learn that another has changed what they rely on.     *)
Disturb(S) == [x \in Reqs |-> [req[x] EXCEPT !.alone = @ /\ x \notin S]]
Begin(r, pc, row, edit) ==
    /\ req[r].pc = "idle"
    /\ Work
    /\ req' = [req EXCEPT ![r] = [Idle EXCEPT !.pc = pc, !.row = row, !.edit = edit]]
Given(value, old) == IF value = Keep THEN old ELSE value

-----------------------------------------------------------------------------
(* Resolvers.                                                              *)

(* Whoever is at work on resolvers while a flag or a row changes.          *)
Bystanders == {x \in Reqs : req[x].pc \in {"clear", "insert", "update"}}

(* POST: the flags are cleared first only if the new server is primary. *)
PostServer(r, s, flag) ==
    /\ servers[s] = "none" /\ \A x \in Reqs : req[x].row # s
    /\ Begin(r, IF flag = "primary" THEN "clear" ELSE "insert", s, <<"insert", flag, flag>>)
    /\ UNCHANGED <<tables, health, expected>>

(* PATCH reads the row: what the request leaves out is what the row says. *)
PatchServer(r, s, flag) ==
    /\ servers[s] # "none"
    /\ Begin(r, IF flag = "primary" THEN "clear" ELSE "update", s,
             <<"update", Given(flag, servers[s]), flag>>)
    /\ UNCHANGED <<tables, health, expected>>

(* Mutant of Clear: only the server that is about to become primary. *)
ClearOwn(r) ==
    /\ req[r].pc = "clear"
    /\ servers' = [servers EXCEPT ![req[r].row] = IF @ = "none" THEN @ ELSE "plain"]
    /\ expected' = [expected EXCEPT !.primary = NoServer]
    /\ req' = [Disturb(Bystanders) EXCEPT ![r].pc = req[r].edit[1], ![r].alone = TRUE]
    /\ UNCHANGED <<backends, health, rules, chains, node, work>>

(* UPDATE dns_servers SET is_primary = 0, of every server. *)
Clear(r) ==
    /\ req[r].pc = "clear"
    /\ servers' = [s \in Servers |-> IF servers[s] = "none" THEN "none" ELSE "plain"]
    /\ expected' = [expected EXCEPT !.primary = NoServer]
    /\ req' = [Disturb(Bystanders) EXCEPT ![r].pc = req[r].edit[1], ![r].alone = TRUE]
    /\ UNCHANGED <<backends, health, rules, chains, node, work>>

(* The INSERT, or the UPDATE of a row that may have gone since.  A flag    *)
(* set after others have moved theirs may be a second one, or one that was *)
(* taken away in the meantime.                                             *)
WriteServer(r) ==
    LET s == req[r].row
        flag == req[r].edit[2]
        found == servers[s] # "none" \/ req[r].pc = "insert"
    IN
    /\ req[r].pc \in {"insert", "update"}
    /\ servers' = IF found THEN [servers EXCEPT ![s] = flag] ELSE servers
    /\ expected' = IF ~found THEN expected
                   ELSE [expected EXCEPT !.primary =
                            IF flag = "plain" THEN IF @ = s THEN NoServer ELSE @
                            ELSE IF ~req[r].alone THEN Unsure
                            ELSE IF req[r].edit[3] = "primary" THEN s ELSE @]
    /\ req' = [Disturb(IF servers' = servers THEN {} ELSE Bystanders) EXCEPT ![r] = Idle]
    /\ UNCHANGED <<backends, health, rules, chains, node, work>>

DeleteServer(s) ==
    /\ servers[s] # "none"
    /\ Work
    /\ servers' = [servers EXCEPT ![s] = "none"]
    /\ health' = [health EXCEPT ![s] = "unknown"]
    /\ expected' = [expected EXCEPT !.primary = IF @ = s THEN NoServer ELSE @]
    /\ req' = Disturb(Bystanders)
    /\ UNCHANGED <<backends, rules, chains, node>>

-----------------------------------------------------------------------------
(* Backends: <<url, secret>>.                                              *)

PostBackend(b, url, secret) ==
    /\ backends[b] = <<>> /\ \A x \in Reqs : req[x].row # b
    /\ Work
    /\ backends' = [backends EXCEPT ![b] = <<url, secret>>]
    /\ expected' = [expected EXCEPT !.url[b] = url, !.secret[b] = secret]
    /\ UNCHANGED <<servers, health, rules, chains, node, req>>

(* PATCH: the address is merged from the row, the secret is not. *)
PatchBackend(r, b, url, secret) ==
    /\ backends[b] # <<>>
    /\ Begin(r, "backend", b, <<url, Given(url, backends[b][1]), secret>>)
    /\ UNCHANGED <<tables, health, expected>>

(* Mutant of WriteBackend: a secret left out is cleared. *)
WriteBackendWhole(r) ==
    LET b == req[r].row
        given == req[r].edit
        secret == Given(given[3], NoValue)
    IN
    /\ req[r].pc = "backend"
    /\ IF backends[b] = <<>> THEN UNCHANGED <<backends, expected>>
       ELSE /\ backends' = [backends EXCEPT ![b] = <<given[2], secret>>]
            /\ expected' = [expected EXCEPT
                    !.url[b] = IF given[1] # Keep THEN given[1] ELSE IF req[r].alone THEN @ ELSE Unsure,
                    !.secret[b] = Given(given[3], @)]
    /\ req' = [Disturb({x \in Reqs : req[x].row = b}) EXCEPT ![r] = Idle]
    /\ UNCHANGED <<servers, health, rules, chains, node, work>>

(* The UPDATE names the secret's column only when the request gave one.    *)
WriteBackend(r) ==
    LET b == req[r].row
        given == req[r].edit
    IN
    /\ req[r].pc = "backend"
    /\ IF backends[b] = <<>> THEN UNCHANGED <<backends, expected>>
       ELSE /\ backends' = [backends EXCEPT ![b] = <<given[2], Given(given[3], @[2])>>]
            /\ expected' = [expected EXCEPT
                    !.url[b] = IF given[1] # Keep THEN given[1] ELSE IF req[r].alone THEN @ ELSE Unsure,
                    !.secret[b] = Given(given[3], @)]
    /\ req' = [Disturb({x \in Reqs : req[x].row = b}) EXCEPT ![r] = Idle]
    /\ UNCHANGED <<servers, health, rules, chains, node, work>>

DeleteBackend(b) ==
    /\ backends[b] # <<>>
    /\ Work
    /\ backends' = [backends EXCEPT ![b] = <<>>]
    /\ health' = [health EXCEPT ![b] = "unknown"]
    /\ expected' = [expected EXCEPT !.url[b] = NoValue, !.secret[b] = NoValue]
    /\ UNCHANGED <<servers, rules, chains, node, req>>

(* WARP: the same statements without a secret, and a check of its own for  *)
(* each.                                                                   *)
PostWarp(w, url) == PostBackend(w, url, NoValue)
PatchWarp(r, w, url) == PatchBackend(r, w, url, Keep)
DeleteWarp(w) == DeleteBackend(w)

(* Domain filters: the same statements again. *)
PostFilter(f, entries) == PostBackend(f, entries, NoValue)
PatchFilter(r, f, entries) == PatchBackend(r, f, entries, Keep)
DeleteFilter(f) == DeleteBackend(f)

Stored(x) == IF x \in Servers THEN servers[x] # "none" ELSE backends[x] # <<>>

(* checkDnsServers and checkBackends: the rows are selected once and       *)
(* probed one after the other; each answer is written by id.               *)
Check(r, T) ==
    /\ \E x \in T : Stored(x)
    /\ Begin(r, "check", NoServer, SetToSeq({x \in T : Stored(x)}))
    /\ UNCHANGED <<tables, health, expected>>

CheckWarp(r, w) == Check(r, {w})

Probe(r, answer) ==
    LET x == Head(req[r].edit)
        rest == Tail(req[r].edit)
    IN
    /\ req[r].pc = "check"
    /\ health' = [health EXCEPT ![x] =
            IF Stored(x) THEN answer ELSE @]
    /\ req' = [req EXCEPT ![r] = IF rest = <<>> THEN Idle ELSE [@ EXCEPT !.edit = rest]]
    /\ UNCHANGED <<tables, work, expected>>

-----------------------------------------------------------------------------
(* Routing rules: <<type, pattern>>.                                       *)

Fits(rule) == rule[1] = rule[2]        \* validateRulePattern finds nothing
ValidRules == {<<k, k>> : k \in Kinds}

PostRule(x, rule) ==
    /\ rules[x] = <<>> /\ \A r \in Reqs : req[r].row # x
    /\ Work
    /\ rules' = [rules EXCEPT ![x] = rule]
    /\ UNCHANGED <<servers, backends, health, chains, node, req, expected>>

(* History: whether a rule so edited fits, or has half of it from another. *)
Match(x, type, pattern) ==
    IF \/ Keep \notin {type, pattern}
       \/ type = Keep /\ pattern = Keep /\ x \notin expected.half
    THEN "whole" ELSE "half"

(* Mutant of PatchRule: the pattern is not looked at. *)
PatchRuleUnchecked(r, x, type, pattern) ==
    /\ rules[x] # <<>>
    /\ Begin(r, "rule", x, <<Given(type, rules[x][1]), Given(pattern, rules[x][2]),
                             Match(x, type, pattern)>>)
    /\ UNCHANGED <<tables, health, expected>>

(* PATCH looks at the pattern only when type and pattern are both given. *)
PatchRule(r, x, type, pattern) ==
    /\ rules[x] # <<>>
    /\ Keep \in {type, pattern} \/ Fits(<<type, pattern>>)
    /\ Begin(r, "rule", x, <<Given(type, rules[x][1]), Given(pattern, rules[x][2]),
                             Match(x, type, pattern)>>)
    /\ UNCHANGED <<tables, health, expected>>

WriteRule(r) ==
    LET x == req[r].row
        new == req[r].edit
    IN
    /\ req[r].pc = "rule"
    /\ IF rules[x] = <<>> THEN UNCHANGED <<rules, expected>>
       ELSE /\ rules' = [rules EXCEPT ![x] = <<new[1], new[2]>>]
            /\ expected' = [expected EXCEPT !.half = IF new[3] = "half" THEN @ \cup {x} ELSE @ \ {x}]
    /\ req' = [req EXCEPT ![r] = Idle]
    /\ UNCHANGED <<servers, backends, health, chains, node, work>>

DeleteRule(x) ==
    /\ rules[x] # <<>>
    /\ Work
    /\ rules' = [rules EXCEPT ![x] = <<>>]
    /\ expected' = [expected EXCEPT !.half = @ \ {x}]
    /\ UNCHANGED <<servers, backends, health, chains, node, req>>

(* An import validates every rule, deletes the old ones if it is to        *)
(* replace them, and inserts its own in one batch.                         *)
Import(r, replace, rule) ==
    /\ Begin(r, IF replace THEN "wipe" ELSE "import", NoServer, rule)
    /\ UNCHANGED <<tables, health, expected>>

Wipe(r) ==
    /\ req[r].pc = "wipe"
    /\ rules' = [x \in Rules |-> <<>>]
    /\ expected' = [expected EXCEPT !.half = {}]
    /\ req' = [req EXCEPT ![r].pc = "import"]
    /\ UNCHANGED <<servers, backends, health, chains, node, work>>

InsertRules(r) ==
    /\ req[r].pc = "import"
    /\ \E x \in Rules :
        /\ rules[x] = <<>> /\ \A q \in Reqs : req[q].row # x
        /\ rules' = [rules EXCEPT ![x] = req[r].edit]
    /\ req' = [req EXCEPT ![r] = Idle]
    /\ UNCHANGED <<servers, backends, health, chains, node, work, expected>>

-----------------------------------------------------------------------------
(* Chains.  validateChain reads the nodes of the hops one at a time; the   *)
(* write follows.  Nothing ties a node to the chains that go through it.   *)

Twice(hops) == \E i, j \in DOMAIN hops : i # j /\ hops[i] = hops[j]

PostChain(r, c, hops) ==
    /\ chains[c] = <<>> /\ \A x \in Reqs : req[x].row # c
    /\ req[r].pc = "idle"
    /\ Work
    /\ req' = [req EXCEPT ![r] = [Idle EXCEPT !.pc = "hops", !.row = c, !.edit = hops,
                                              !.new = TRUE, !.left = hops]]
    /\ UNCHANGED <<tables, health, expected>>

(* PATCH: the hops of the row are validated again if it gives none. *)
PatchChain(r, c, hops) ==
    /\ chains[c] # <<>>
    /\ req[r].pc = "idle"
    /\ Work
    /\ req' = [req EXCEPT ![r] = [Idle EXCEPT !.pc = "hops", !.row = c,
                                              !.edit = IF hops = Keep THEN chains[c] ELSE hops,
                                              !.left = IF hops = Keep THEN chains[c] ELSE hops]]
    /\ UNCHANGED <<tables, health, expected>>

(* Mutant of Passes: a node that is switched off will do. *)
PassesOff(hop) == hop = Outside \/ node[hop] # "gone"

Passes(hop) == hop = Outside \/ node[hop] = "on"

(* One hop; an issue with any of them, or a hop that comes twice, refuses  *)
(* the request in the end.                                                 *)
CheckHop(r) ==
    /\ req[r].pc = "hops"
    /\ req[r].left # <<>>
    /\ req' = [req EXCEPT ![r] =
            IF Passes(Head(req[r].left)) /\ ~Twice(req[r].edit)
            THEN [req[r] EXCEPT !.left = Tail(req[r].left)] ELSE Idle]
    /\ UNCHANGED <<tables, health, work, expected>>

WriteChain(r) ==
    LET c == req[r].row IN
    /\ req[r].pc = "hops"
    /\ req[r].left = <<>>
    /\ IF chains[c] # <<>> \/ req[r].new
       THEN /\ chains' = [chains EXCEPT ![c] = req[r].edit]
            /\ expected' = [expected EXCEPT !.moved[c] = req[r].moved]
       ELSE UNCHANGED <<chains, expected>>
    /\ req' = [req EXCEPT ![r] = Idle]
    /\ UNCHANGED <<servers, backends, health, rules, node, work>>

DeleteChain(c) ==
    /\ chains[c] # <<>>
    /\ Work
    /\ chains' = [chains EXCEPT ![c] = <<>>]
    /\ expected' = [expected EXCEPT !.moved[c] = {}]
    /\ UNCHANGED <<servers, backends, health, rules, node, req>>

(* A node is switched or deleted.  History: chains and validations that    *)
(* have seen it on have not been asked again.                              *)
SwitchNode(n, state) ==
    /\ node[n] \notin {"gone", state}
    /\ Work
    /\ node' = [node EXCEPT ![n] = state]
    /\ expected' = [expected EXCEPT !.moved = [c \in Chains |-> @[c] \cup ({n} \cap ToSet(chains[c]))]]
    /\ req' = [r \in Reqs |-> IF req[r].pc = "hops" /\ n \in ToSet(req[r].edit) \ ToSet(req[r].left)
                              THEN [req[r] EXCEPT !.moved = @ \cup {n}] ELSE req[r]]
    /\ UNCHANGED <<servers, backends, health, rules, chains>>

-----------------------------------------------------------------------------
(* Any await may fail: the handler ends where it is. *)
Abort(r) ==
    /\ req[r].pc # "idle"
    /\ req' = [req EXCEPT ![r] = Idle]
    /\ UNCHANGED <<tables, health, work, expected>>

Next ==
    \/ \E r \in Reqs, s \in Servers :
        \/ \E flag \in {"plain", "primary"} : PostServer(r, s, flag)
        \/ \E flag \in {"plain", "primary", Keep} : PatchServer(r, s, flag)
    \/ \E s \in Servers : DeleteServer(s)
    \/ \E b \in Backends, v \in Values :
        \/ PostBackend(b, v, NoValue)
        \/ PostBackend(b, v, v)
    \/ \E r \in Reqs, b \in Backends, v \in Values \cup {Keep}, w \in Values \cup {Keep, NoValue} :
        PatchBackend(r, b, v, w)
    \/ \E b \in Backends : DeleteBackend(b)
    \/ \E w \in Warps : DeleteWarp(w) \/ \E v \in Values : PostWarp(w, v)
    \/ \E f \in Filters : DeleteFilter(f) \/ \E v \in Values : PostFilter(f, v)
    \/ \E r \in Reqs, f \in Filters, v \in Values \cup {Keep} : PatchFilter(r, f, v)
    \/ \E r \in Reqs, w \in Warps :
        \/ CheckWarp(r, w)
        \/ \E v \in Values \cup {Keep} : PatchWarp(r, w, v)
    \/ \E r \in Reqs, T \in {Servers, Backends} : Check(r, T)
    \/ \E r \in Reqs, answer \in {"healthy", "unreachable"} : Probe(r, answer)
    \/ \E x \in Rules, rule \in ValidRules : PostRule(x, rule)
    \/ \E r \in Reqs, x \in Rules, k, p \in Kinds \cup {Keep} : PatchRule(r, x, k, p)
    \/ \E x \in Rules : DeleteRule(x)
    \/ \E r \in Reqs, replace \in BOOLEAN, rule \in ValidRules : Import(r, replace, rule)
    \/ \E r \in Reqs, c \in Chains, h, i \in Nodes \cup {Outside} :
        \/ PostChain(r, c, <<h, i>>)
        \/ PatchChain(r, c, <<h, i>>)
    \/ \E r \in Reqs, c \in Chains : PatchChain(r, c, Keep)
    \/ \E c \in Chains : DeleteChain(c)
    \/ \E n \in Nodes, state \in {"on", "off", "gone"} : SwitchNode(n, state)
    \/ \E r \in Reqs :
        \/ Clear(r) \/ WriteServer(r) \/ WriteBackend(r)
        \/ WriteRule(r) \/ Wipe(r) \/ InsertRules(r)
        \/ CheckHop(r) \/ WriteChain(r) \/ Abort(r)

Spec == Init /\ [][Next]_vars

-----------------------------------------------------------------------------
(* Once the last edit of resolvers has not overlapped another, the one     *)
(* server that it made primary is the only one (the panel says there is    *)
(* just one), and none is once it has been cleared or deleted: also when   *)
(* the handler fails between clearing the old flag and setting its own.    *)
PrimaryAsAsked ==
    expected.primary # Unsure =>
        {s \in Servers : servers[s] = "primary"} = {expected.primary} \ {NoServer}

(* A backend has the address last given to it (a filter its entries),      *)
(* unless an edit that read the row before has written the old one back;   *)
(* its secret is always the last one given, whatever the edits that leave  *)
(* it out have read.                                                       *)
BackendAsAsked ==
    \A b \in Endpoints : backends[b] # <<>> =>
        /\ expected.url[b] \in {backends[b][1], Unsure}
        /\ expected.secret[b] = backends[b][2]

(* The only rules whose pattern validateRulePattern would refuse for their *)
(* type are those of which one was last changed without the other: an edit *)
(* that writes back what it read, or an import, never puts a type with     *)
(* another's pattern.  (It lets prefix lengths pass that no client takes.) *)
RulesFit ==
    \A x \in Rules : rules[x] # <<>> /\ x \notin expected.half => Fits(rules[x])

(* A stored chain goes through different hops, and those that are nodes    *)
(* are switched on, but for nodes switched since their hop was validated.  *)
ChainsSound ==
    \A c \in Chains :
        /\ ~Twice(chains[c])
        /\ \A n \in (ToSet(chains[c]) \cap Nodes) \ expected.moved[c] : node[n] = "on"
=============================================================================
