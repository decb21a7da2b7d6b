----------------------------- MODULE Deployment -----------------------------
(***************************************************************************)
(* Nodes and what is published for them on Cloudflare: the script of an    *)
(* edge node's endpoint, its address, a route to it, DNS records, and the  *)
(* rows of cf_resources that remember them.  A deployment is a sequence of *)
(* calls to the Cloudflare API and of statements, any of which may fail    *)
(* and none of which undoes the ones before; edits of the node go on       *)
(* meanwhile.                                                              *)
(*                                                                         *)
(* One action is what a handler does between two awaits that matter to     *)
(* others.  The account itself (tokens, databases, KV) is taken as set up; *)
(* health and switching a node on and off are Health's.                    *)
(***************************************************************************)
EXTENDS Naturals

CONSTANTS
    Nodes,
    Scripts,    \* names of Workers
    Routes,     \* host names of routes
    Records,    \* ids of DNS records
    Paths,      \* paths of a WebSocket
    NoPath,     \* transport.path is null
    Nothing,
    Keep,       \* a field the request leaves out
    Drafts,     \* nodes that may be created
    Edits,      \* what a PATCH may give
    Reqs,       \* handlers in flight at the same time
    MaxWork     \* handlers started within the bound

ASSUME ConstantsAssumption ==
    /\ MaxWork \in Nat
    /\ Paths # {} /\ NoPath \notin Paths
    /\ Nothing \notin Nodes \cup Scripts \cup Routes \cup Records \cup Paths \cup {NoPath}
    /\ Scripts \cap Routes = {} /\ Scripts \cap Records = {} /\ Routes \cap Records = {}
    /\ Keep \notin BOOLEAN /\ Keep # "own" /\ Keep \notin Scripts \cup Routes

DefaultPath == CHOOSE p \in Paths : TRUE      \* "/afra"

Idle == [pc |-> "idle", what |-> Nothing, node |-> Nothing, route |-> Nothing, host |-> Nothing,
         path |-> NoPath, row |-> Nothing, edit |-> Nothing, clean |-> TRUE, sure |-> TRUE]

VARIABLES
    node,     \* node[n]: its row, or Nothing
    scripts,  \* scripts[s]: the path the published script answers, or Nothing
    dev,      \* the scripts that answer at their address under workers.dev
    routes,   \* routes[h]: the script behind a route, or Nothing
    zone,     \* the DNS records there are
    rows,     \* what cf_resources says there is: scripts, routes and DNS records
    work,
    req,      \* req[r]: program counter and locals of handler r
    due,      \* history: the script that the links of n are to reach, or Nothing
    torn      \* history: scripts, routes and records whose calls failed halfway or overlapped

cloud == <<scripts, dev, routes, zone>>
vars == <<node, scripts, dev, routes, zone, rows, work, req, due, torn>>

Init ==
    /\ node = [n \in Nodes |-> Nothing]
    /\ scripts = [s \in Scripts |-> Nothing]
    /\ dev = {}
    /\ routes = [h \in Routes |-> Nothing]
    /\ zone = {} /\ rows = {}
    /\ work = 0
    /\ req = [r \in Reqs |-> Idle]
    /\ due = [n \in Nodes |-> Nothing]
    /\ torn = {}

Work == work < MaxWork /\ work' = work + 1
Begin(r, locals) == req[r].pc = "idle" /\ Work /\ req' = [req EXCEPT ![r] = locals]

(* The handlers of S have not been alone with what they read. *)
Disturb(S) == [x \in Reqs |-> [req[x] EXCEPT !.clean = @ /\ x \notin S]]
AtNode(n) == {x \in Reqs : req[x].node = n}
At(what) == {x \in Reqs : req[x].what = what}
Listing(h) == {x \in Reqs : req[x].pc = "list" /\ req[x].route = h}

-----------------------------------------------------------------------------
(* Nodes.                                                                  *)

(* validate of the adapters: an edge node speaks VLESS over WebSocket      *)
(* under TLS; Trojan wants TLS and no xhttp.  What they ask of one field,  *)
(* of ports, paths and gRPC's service names, is left to the sets of rows.  *)
Valid(row) ==
    /\ row.edge => row.tls /\ row.protocol = "vless" /\ row.kind = "ws"
    /\ row.protocol = "trojan" => row.tls /\ row.kind # "xhttp"

(* A row: what its links carry, but for what no request changes here.  A   *)
(* host is the node's own, a script's under workers.dev or a route's; sni  *)
(* and front (transport.host) may be null, in which case the links name    *)
(* the host; port tells whether Cloudflare speaks TLS there.               *)
Hosts == {"own"} \cup Scripts \cup Routes
NodeRows ==
    [edge : BOOLEAN, protocol : {"vless", "trojan"}, tls : BOOLEAN, kind : {"ws", "xhttp"},
     path : Paths \cup {NoPath}, host : Hosts, sni : Hosts \cup {Nothing},
     front : Hosts \cup {Nothing}, port : BOOLEAN]
LinkFields == {"protocol", "tls", "kind", "path", "host", "sni", "front", "port"}

(* A PATCH gives TLS and transport as a whole or not at all. *)
EditForms ==
    {edit \in [edge : BOOLEAN \cup {Keep}, protocol : {"vless", "trojan", Keep},
               tls : BOOLEAN \cup {Keep}, kind : {"ws", "xhttp", Keep},
               path : Paths \cup {NoPath, Keep}, host : Hosts \cup {Keep},
               sni : Hosts \cup {Nothing, Keep}, front : Hosts \cup {Nothing, Keep},
               port : BOOLEAN \cup {Keep}] :
        /\ edit.tls = Keep <=> edit.sni = Keep
        /\ edit.kind = Keep <=> edit.path = Keep
        /\ edit.kind = Keep <=> edit.front = Keep}

ASSUME NoRowAssumption == Nothing \notin NodeRows
ASSUME InputsAssumption == Drafts \subseteq NodeRows /\ Edits \subseteq EditForms

(* createNode. *)
CreateNode(n, draft) ==
    /\ node[n] = Nothing /\ AtNode(n) = {}
    /\ Valid(draft)
    /\ Work
    /\ node' = [node EXCEPT ![n] = draft]
    /\ UNCHANGED <<cloud, rows, req, due, torn>>

Merged(row, edit) == [f \in DOMAIN row |-> IF edit[f] = Keep THEN row[f] ELSE edit[f]]

(* updateNode reads the row, merges and validates it whole.  History: it   *)
(* is sure to leave the links as they are if it asks for nothing else.     *)
EditRead(r, n, edit) ==
    /\ node[n] # Nothing
    /\ Valid(Merged(node[n], edit))
    /\ Begin(r, [Idle EXCEPT !.pc = "write", !.node = n, !.row = Merged(node[n], edit),
                             !.edit = edit,
                             !.sure = \A f \in LinkFields : edit[f] \in {Keep, node[n][f]}])
    /\ UNCHANGED <<node, cloud, rows, due, torn>>

(* History: the links of a node are due to work after a deployment, and    *)
(* still are after an edit, that was alone and sure.                       *)
DueAfter(r) ==
    LET mine == req[r] IN
    IF ~(mine.clean /\ mine.sure) THEN Nothing
    ELSE IF mine.what # Nothing THEN mine.what ELSE due[mine.node]

(* Mutant of WriteNode: only the columns that the request gives. *)
WriteGiven(r) ==
    LET n == req[r].node IN
    /\ req[r].pc = "write"
    /\ IF node[n] = Nothing THEN UNCHANGED <<node, due>>
       ELSE /\ node' = [node EXCEPT ![n] = Merged(@, req[r].edit)]
            /\ due' = [due EXCEPT ![n] = DueAfter(r)]
    /\ req' = [Disturb(AtNode(n)) EXCEPT ![r] = Idle]
    /\ UNCHANGED <<cloud, rows, work, torn>>

(* The UPDATE of every column, by an edit or at the end of a deployment. *)
WriteNode(r) ==
    LET n == req[r].node IN
    /\ req[r].pc = "write"
    /\ IF node[n] = Nothing THEN UNCHANGED <<node, due>>
       ELSE /\ node' = [node EXCEPT ![n] = req[r].row]
            /\ due' = [due EXCEPT ![n] = DueAfter(r)]
    /\ req' = [Disturb(AtNode(n)) EXCEPT ![r] = Idle]
    /\ UNCHANGED <<cloud, rows, work, torn>>

(* deleteNode: what has been published for it stays. *)
DeleteNode(n) ==
    /\ node[n] # Nothing
    /\ Work
    /\ node' = [node EXCEPT ![n] = Nothing]
    /\ due' = [due EXCEPT ![n] = Nothing]
    /\ req' = Disturb(AtNode(n))
    /\ UNCHANGED <<cloud, rows, torn>>

-----------------------------------------------------------------------------
(* POST /endpoints/deploy.                                                 *)

(* The node is read and must be one the endpoint can serve; the script     *)
(* will answer at its path, or at a default that the node's links do not   *)
(* name.  History: not even what the deployment leaves alone is sure to    *)
(* let the links reach it, the path, the port and transport.host.          *)
Deploy(r, n, s, h) ==
    /\ node[n] # Nothing
    /\ node[n].edge /\ node[n].protocol = "vless" /\ node[n].kind = "ws"
    /\ Begin(r, [Idle EXCEPT !.pc = "upload", !.what = s, !.node = n, !.route = h,
                             !.host = node[n].host,
                             !.path = IF node[n].path = NoPath THEN DefaultPath ELSE node[n].path,
                             !.sure = /\ node[n].path # NoPath
                                      /\ node[n].port /\ node[n].front = Nothing])
    /\ UNCHANGED <<node, cloud, rows, due, torn>>

(* Whatever was published under that name is replaced, another node's      *)
(* endpoint too.                                                           *)
Upload(r) ==
    LET s == req[r].what IN
    /\ req[r].pc = "upload"
    /\ scripts' = [scripts EXCEPT ![s] = req[r].path]
    /\ due' = [n \in Nodes |-> IF due[n] = s /\ (n # req[r].node \/ ~req[r].clean)
                               THEN Nothing ELSE due[n]]
    /\ torn' = IF At(s) = {r} THEN torn ELSE torn \cup {s}
    /\ req' = [Disturb(At(s) \ {r}) EXCEPT ![r].pc = "address"]
    /\ UNCHANGED <<node, dev, routes, zone, rows, work>>

(* The address under workers.dev: switching it on may fail without notice; *)
(* without the account's subdomain the node keeps its host.                *)
Address(r, on, known) ==
    LET s == req[r].what IN
    /\ req[r].pc = "address"
    /\ on => scripts[s] # Nothing
    /\ dev' = IF on THEN dev \cup {s} ELSE dev
    /\ req' = [req EXCEPT ![r] = [req[r] EXCEPT
            !.pc = IF req[r].route = Nothing THEN "record" ELSE "route",
            !.host = IF known THEN s ELSE req[r].host,
            !.sure = req[r].sure /\ (req[r].route # Nothing \/ (on /\ known))]]
    /\ UNCHANGED <<node, scripts, routes, zone, rows, work, due, torn>>

(* Mutant of AddRoute: the node is given the address under workers.dev. *)
AddRouteOnly(r) ==
    LET h == req[r].route IN
    /\ req[r].pc = "route"
    /\ routes[h] = Nothing /\ scripts[req[r].what] # Nothing
    /\ routes' = [routes EXCEPT ![h] = req[r].what]
    /\ req' = [req EXCEPT ![r].pc = "list"]
    /\ UNCHANGED <<node, scripts, dev, zone, rows, work, due, torn>>

(* createWorkerRoute, which Cloudflare refuses for a route there is. *)
AddRoute(r) ==
    LET h == req[r].route IN
    /\ req[r].pc = "route"
    /\ routes[h] = Nothing /\ scripts[req[r].what] # Nothing
    /\ routes' = [routes EXCEPT ![h] = req[r].what]
    /\ req' = [req EXCEPT ![r].pc = "list", ![r].host = h]
    /\ UNCHANGED <<node, scripts, dev, zone, rows, work, due, torn>>

(* The INSERT of the route into cf_resources, whose node must still be     *)
(* there...                                                                *)
ListRoute(r) ==
    /\ req[r].pc = "list"
    /\ node[req[r].node] # Nothing
    /\ rows' = rows \cup {req[r].route}
    /\ req' = [req EXCEPT ![r].pc = "record"]
    /\ UNCHANGED <<node, cloud, work, due, torn>>

(* ...and that of the script. *)
Record(r) ==
    /\ req[r].pc = "record"
    /\ node[req[r].node] # Nothing
    /\ rows' = rows \cup {req[r].what}
    /\ req' = [req EXCEPT ![r].pc = "reread"]
    /\ UNCHANGED <<node, cloud, work, due, torn>>

(* updateNode with the new host, TLS on and the host for sni: read, merged *)
(* and validated again.                                                    *)
Reread(r) ==
    LET n == req[r].node
        edit == [edge |-> Keep, protocol |-> Keep, tls |-> TRUE, kind |-> Keep, path |-> Keep,
                 host |-> req[r].host, sni |-> req[r].host, front |-> Keep, port |-> Keep]
    IN
    /\ req[r].pc = "reread"
    /\ node[n] # Nothing /\ Valid(Merged(node[n], edit))
    /\ req' = [req EXCEPT ![r] = [@ EXCEPT !.pc = "write", !.row = Merged(node[n], edit),
                                           !.edit = edit]]
    /\ UNCHANGED <<node, cloud, rows, work, due, torn>>

-----------------------------------------------------------------------------
(* The other calls that change something on Cloudflare.                    *)

Present == {s \in Scripts : scripts[s] # Nothing} \cup {h \in Routes : routes[h] # Nothing} \cup zone

(* DELETE /endpoints/:scriptName, first at Cloudflare, where its routes go *)
(* with it, then its row, but not those of the routes; the node keeps the  *)
(* address.                                                                *)
DropScript(r, s) ==
    /\ scripts[s] # Nothing
    /\ req[r].pc = "idle"
    /\ Work
    /\ req' = [Disturb(At(s)) EXCEPT ![r] = [Idle EXCEPT !.pc = "forget", !.what = s]]
    /\ scripts' = [scripts EXCEPT ![s] = Nothing]
    /\ dev' = dev \ {s}
    /\ routes' = [h \in Routes |-> IF routes[h] = s THEN Nothing ELSE routes[h]]
    /\ due' = [n \in Nodes |-> IF due[n] = s THEN Nothing ELSE due[n]]
    /\ torn' = IF At(s) = {} THEN torn ELSE torn \cup {s}
    /\ UNCHANGED <<node, zone, rows>>

(* POST /dns: the record, then its row. *)
CreateRecord(r, d) ==
    /\ d \notin zone /\ At(d) = {}
    /\ Begin(r, [Idle EXCEPT !.pc = "remember", !.what = d])
    /\ zone' = zone \cup {d}
    /\ UNCHANGED <<node, scripts, dev, routes, rows, due, torn>>

Remember(r) ==
    /\ req[r].pc = "remember"
    /\ rows' = rows \cup {req[r].what}
    /\ req' = [req EXCEPT ![r] = Idle]
    /\ UNCHANGED <<node, cloud, work, due, torn>>

(* DELETE of a record. *)
DropRecord(r, d) ==
    /\ d \in zone
    /\ Begin(r, [Idle EXCEPT !.pc = "forget", !.what = d])
    /\ zone' = zone \ {d}
    /\ torn' = IF At(d) = {} THEN torn ELSE torn \cup {d}
    /\ UNCHANGED <<node, scripts, dev, routes, rows, due>>

(* Mutant of Forget: the row of a DNS record stays. *)
ForgetScript(r) ==
    /\ req[r].pc = "forget"
    /\ rows' = rows \ ({req[r].what} \ Records)
    /\ req' = [req EXCEPT ![r] = Idle]
    /\ UNCHANGED <<node, cloud, work, due, torn>>

Forget(r) ==
    /\ req[r].pc = "forget"
    /\ rows' = rows \ {req[r].what}
    /\ req' = [req EXCEPT ![r] = Idle]
    /\ UNCHANGED <<node, cloud, work, due, torn>>

(* Any call or statement may fail, or never answer: what was done stays.   *)
Abort(r) ==
    /\ req[r].pc # "idle"
    /\ torn' = CASE req[r].pc = "list" -> torn \cup {req[r].what, req[r].route}
                 [] req[r].pc \in {"address", "route", "record", "remember", "forget"} ->
                        torn \cup {req[r].what}
                 [] OTHER -> torn
    /\ req' = [req EXCEPT ![r] = Idle]
    /\ UNCHANGED <<node, cloud, rows, work, due>>

Next ==
    \/ \E n \in Nodes, draft \in Drafts : CreateNode(n, draft)
    \/ \E n \in Nodes : DeleteNode(n)
    \/ \E r \in Reqs, n \in Nodes, edit \in Edits : EditRead(r, n, edit)
    \/ \E r \in Reqs, n \in Nodes, s \in Scripts, h \in Routes \cup {Nothing} : Deploy(r, n, s, h)
    \/ \E r \in Reqs, on, known \in BOOLEAN : Address(r, on, known)
    \/ \E r \in Reqs, s \in Scripts : DropScript(r, s)
    \/ \E r \in Reqs, d \in Records : CreateRecord(r, d) \/ DropRecord(r, d)
    \/ \E r \in Reqs :
        \/ WriteNode(r) \/ Upload(r) \/ AddRoute(r) \/ ListRoute(r) \/ Record(r) \/ Reread(r)
        \/ Remember(r) \/ Forget(r) \/ Abort(r)

Spec == Init /\ [][Next]_vars

-----------------------------------------------------------------------------
(* However edits and deployments of a node overlap, its row is one that    *)
(* validateNode accepts: each writes a whole row that it has validated.    *)
NodesValid == \A n \in Nodes : node[n] # Nothing => Valid(node[n])

(* Links of this row speak what an endpoint does, where and by the name it *)
(* is reached.                                                             *)
Speaks(row) ==
    /\ row.protocol = "vless" /\ row.kind = "ws" /\ row.tls /\ row.port
    /\ row.sni \in {Nothing, row.host} /\ row.front \in {Nothing, row.host}

(* A node deployed without interference, at an address that came up, hands *)
(* out links that reach its script, at the path it answers, speak its      *)
(* protocol and name its host in TLS and in HTTP; until it is deployed     *)
(* again, the script is dropped or taken over by another node, or an edit  *)
(* asks for something else or writes back what it read before.  A node     *)
(* without a path, at a port without TLS or with a transport.host is never *)
(* among these: the deployment leaves all three as they are                *)
(* (cloudflare.routes.ts:217-276).                                         *)
ServedWorks ==
    \A n \in Nodes : due[n] # Nothing =>
        LET s == IF node[n].host \in Routes THEN routes[node[n].host] ELSE node[n].host IN
        /\ s = due[n]
        /\ node[n].host \in dev \cup Routes
        /\ scripts[s] = node[n].path
        /\ Speaks(node[n])

(* cf_resources lists what there is at Cloudflare, and nothing else but    *)
(* routes: the script's deletion takes the row of kind 'worker' only, so   *)
(* that its routes are listed for ever (cloudflare.routes.ts:310-312).     *)
(* The exceptions are calls that failed between Cloudflare and the         *)
(* database, calls on one name that overlapped, and those still under way. *)
RowsMatchCloud ==
    \A x \in (Scripts \cup Routes \cup Records) \ torn :
        At(x) = {} /\ Listing(x) = {} =>
            /\ x \in Present => x \in rows
            /\ x \in rows => x \in Present \cup Routes
=============================================================================
