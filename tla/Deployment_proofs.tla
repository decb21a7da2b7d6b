-------------------------- MODULE Deployment_proofs --------------------------
(***************************************************************************)
(* Proofs about Deployment, for any nodes, scripts, routes, records,       *)
(* handlers and number of requests.                                        *)
(*                                                                         *)
(* That the rows of nodes stay valid is inductive once it is known that a  *)
(* handler about to write carries a valid row; what happens at Cloudflare  *)
(* does not matter to it.  That links reach their scripts rests on what a  *)
(* handler still knows that nobody has disturbed: the path its script was  *)
(* published at is its node's, and the host it has found leads there.      *)
(* That cf_resources lists what there is rests on who is at work on a      *)
(* thing that is not torn: one handler at most has done something about    *)
(* it, and where it is says how far rows and account have come apart;      *)
(* routes, whose rows nothing removes, have an invariant of their own.     *)
(*                                                                         *)
(* Then about the network around the nodes, Network (from MCNetwork, whose *)
(* run lets the deployment stand still): resolvers, backends, rules and    *)
(* chains each have an invariant of their own, of the rows and of what the *)
(* handlers at work on them carry, and a lemma says that the steps about   *)
(* one leave what the others rest on alone.                                *)
(***************************************************************************)
EXTENDS MCNetwork, TLAPS

(* What the locals of a handler are called. *)
Fields == {"pc", "what", "node", "route", "host", "path", "row", "edit", "clean", "sure"}

Shape ==
    /\ node = [n \in Nodes |-> node[n]]
    /\ req = [r \in Reqs |-> req[r]]
    /\ \A r \in Reqs : req[r] = [f \in Fields |-> req[r][f]]

(* A handler about to write carries a row that it has validated. *)
CarriedValid == \A r \in Reqs : req[r].pc = "write" => Valid(req[r].row)

IInv == Shape /\ CarriedValid /\ NodesValid

(* A record of locals has the names of Idle. *)
LEMMA IdleShape == Idle = [f \in Fields |-> Idle[f]] /\ Idle.pc = "idle"
  BY DEF Idle, Fields

(* Changing one field leaves the others and the names. *)
LEMMA ChangeOne ==
  ASSUME NEW me, me = [f \in Fields |-> me[f]], NEW g \in Fields, NEW v
  PROVE  LET new == [me EXCEPT ![g] = v] IN
         /\ new = [f \in Fields |-> new[f]]
         /\ \A f \in Fields \ {g} : new[f] = me[f]
         /\ new[g] = v
  OBVIOUS

(* Disturbing other handlers leaves their program counter and row alone. *)
LEMMA DisturbShape ==
  ASSUME Shape, NEW S
  PROVE  /\ Disturb(S) = [r \in Reqs |-> Disturb(S)[r]]
         /\ \A r \in Reqs :
              /\ Disturb(S)[r] = [f \in Fields |-> Disturb(S)[r][f]]
              /\ Disturb(S)[r].pc = req[r].pc
              /\ Disturb(S)[r].row = req[r].row
  BY DEF Disturb, Shape, Fields

-----------------------------------------------------------------------------
(* Initially nothing is there and nobody is at work.                       *)
LEMMA InitInv == Init => IInv
<1> SUFFICES ASSUME Init PROVE IInv
  OBVIOUS
<1>1. Shape
  BY IdleShape DEF Init, Shape
<1>2. CarriedValid
  BY IdleShape DEF Init, CarriedValid
<1>3. NodesValid
  BY DEF Init, NodesValid
<1> QED
  BY <1>1, <1>2, <1>3 DEF IInv

(* A step that neither writes rows of nodes, except to delete them, nor    *)
(* brings a handler to the point of writing one, preserves the invariant.  *)
LEMMA QuietStep ==
  ASSUME IInv, Shape',
         \A n \in Nodes : node'[n] = node[n] \/ node'[n] = Nothing,
         \A r \in Reqs : \/ req'[r].pc # "write"
                        \/ (req'[r].pc = req[r].pc /\ req'[r].row = req[r].row)
  PROVE  IInv'
<1>1. CarriedValid'
  BY DEF IInv, CarriedValid
<1>2. NodesValid'
  BY DEF IInv, NodesValid
<1> QED
  BY <1>1, <1>2 DEF IInv

(* One handler moves on to v, which has the names of Idle and is not about *)
(* to write; the others may have been disturbed.                           *)
LEMMA OneMoves ==
  ASSUME IInv, NEW base, base = req \/ (\E S : base = Disturb(S)),
         NEW r \in Reqs, NEW v, v = [f \in Fields |-> v[f]],
         req' = [base EXCEPT ![r] = v]
  PROVE  /\ req' = [x \in Reqs |-> req'[x]]
         /\ \A x \in Reqs : req'[x] = [f \in Fields |-> req'[x][f]]
         /\ req'[r] = v
         /\ \A x \in Reqs \ {r} : req'[x].pc = req[x].pc /\ req'[x].row = req[x].row
<1>1. Shape
  BY DEF IInv
<1>2. /\ base = [x \in Reqs |-> base[x]]
      /\ \A x \in Reqs : /\ base[x] = [f \in Fields |-> base[x][f]]
                         /\ base[x].pc = req[x].pc /\ base[x].row = req[x].row
  <2>1. CASE base = req
    BY <2>1, <1>1 DEF Shape
  <2>2. CASE \E S : base = Disturb(S)
    <3>1. PICK S : base = Disturb(S)
      BY <2>2
    <3> QED
      BY <3>1, <1>1, DisturbShape
  <2> QED
    BY <2>1, <2>2
<1> QED
  BY <1>2

(* Rows keep their keys when one is written. *)
LEMMA NodeWritten ==
  ASSUME IInv, NEW n, NEW v, node' = [node EXCEPT ![n] = v]
  PROVE  /\ node' = [m \in Nodes |-> node'[m]]
         /\ \A m \in Nodes : node'[m] = IF m = n THEN v ELSE node[m]
  BY DEF IInv, Shape

-----------------------------------------------------------------------------
(* One lemma per step that writes a row of nodes or carries one on.        *)

LEMMA CreateStep ==
  ASSUME IInv, NEW n \in Nodes, NEW draft, CreateNode(n, draft)
  PROVE  IInv'
<1>1. /\ Valid(draft) /\ node' = [node EXCEPT ![n] = draft] /\ req' = req
  BY DEF CreateNode
<1>2. /\ node' = [m \in Nodes |-> node'[m]]
      /\ \A m \in Nodes : node'[m] = IF m = n THEN draft ELSE node[m]
  BY <1>1, NodeWritten
<1>3. Shape' /\ CarriedValid'
  BY <1>1, <1>2 DEF IInv, Shape, CarriedValid
<1>4. NodesValid'
  BY <1>1, <1>2 DEF IInv, NodesValid
<1> QED
  BY <1>3, <1>4 DEF IInv

(* The edit carries what it has merged and validated. *)
LEMMA EditStep ==
  ASSUME IInv, NEW r \in Reqs, NEW n \in Nodes, NEW edit, EditRead(r, n, edit)
  PROVE  IInv'
<1> DEFINE row == Merged(node[n], edit)
           sure == \A f \in LinkFields : edit[f] \in {Keep, node[n][f]}
           v == [Idle EXCEPT !.pc = "write", !.node = n, !.row = row, !.edit = edit,
                             !.sure = sure]
<1>1. Valid(row) /\ req' = [req EXCEPT ![r] = v] /\ node' = node
  BY DEF EditRead, Begin
<1> HIDE DEF row, sure
<1>2. v = [f \in Fields |-> v[f]] /\ v.row = row
  BY DEF Idle, Fields
<1> HIDE DEF v
<1>3. /\ req' = [x \in Reqs |-> req'[x]]
      /\ \A x \in Reqs : req'[x] = [f \in Fields |-> req'[x][f]]
      /\ req'[r] = v
      /\ \A x \in Reqs \ {r} : req'[x].pc = req[x].pc /\ req'[x].row = req[x].row
  BY <1>1, <1>2, OneMoves
<1>4. Shape'
  BY <1>1, <1>3 DEF IInv, Shape
<1>5. CarriedValid'
  BY <1>1, <1>2, <1>3 DEF IInv, CarriedValid
<1>6. NodesValid'
  BY <1>1 DEF IInv, NodesValid
<1> QED
  BY <1>4, <1>5, <1>6 DEF IInv

(* So does the last part of a deployment, with the node as it is by then. *)
LEMMA RereadStep ==
  ASSUME IInv, NEW r \in Reqs, Reread(r)
  PROVE  IInv'
<1> DEFINE edit == [edge |-> Keep, protocol |-> Keep, tls |-> TRUE, kind |-> Keep,
                    path |-> Keep, host |-> req[r].host, sni |-> req[r].host,
                    front |-> Keep, port |-> Keep]
           row == Merged(node[req[r].node], edit)
           v == [req[r] EXCEPT !.pc = "write", !.row = row, !.edit = edit]
<1>1. Valid(row) /\ req' = [req EXCEPT ![r] = v] /\ node' = node
  BY DEF Reread
<1> HIDE DEF row, edit
<1>2. v = [f \in Fields |-> v[f]] /\ v.row = row
  <2>1. req[r] = [f \in Fields |-> req[r][f]]
    BY DEF IInv, Shape
  <2> QED
    BY <2>1 DEF Fields
<1> HIDE DEF v
<1>3. /\ req' = [x \in Reqs |-> req'[x]]
      /\ \A x \in Reqs : req'[x] = [f \in Fields |-> req'[x][f]]
      /\ req'[r] = v
      /\ \A x \in Reqs \ {r} : req'[x].pc = req[x].pc /\ req'[x].row = req[x].row
  BY <1>1, <1>2, OneMoves
<1>4. Shape'
  BY <1>1, <1>3 DEF IInv, Shape
<1>5. CarriedValid'
  BY <1>1, <1>2, <1>3 DEF IInv, CarriedValid
<1>6. NodesValid'
  BY <1>1 DEF IInv, NodesValid
<1> QED
  BY <1>4, <1>5, <1>6 DEF IInv

(* What is written is what was validated, whoever has written meanwhile. *)
LEMMA WriteStep ==
  ASSUME IInv, NEW r \in Reqs, WriteNode(r)
  PROVE  IInv'
<1> DEFINE n == req[r].node
           row == req[r].row
<1>1. /\ Valid(row)
      /\ (node' = node \/ node' = [node EXCEPT ![n] = row])
      /\ req' = [Disturb(AtNode(n)) EXCEPT ![r] = Idle]
  BY DEF WriteNode, IInv, CarriedValid
<1> HIDE DEF row
<1>2. /\ req' = [x \in Reqs |-> req'[x]]
      /\ \A x \in Reqs : req'[x] = [f \in Fields |-> req'[x][f]]
      /\ req'[r] = Idle
      /\ \A x \in Reqs \ {r} : req'[x].pc = req[x].pc /\ req'[x].row = req[x].row
  <2>1. \E S : Disturb(AtNode(n)) = Disturb(S)
    OBVIOUS
  <2> QED
    BY <1>1, <2>1, IdleShape, OneMoves
<1>3. /\ node' = [m \in Nodes |-> node'[m]]
      /\ \A m \in Nodes : node'[m] = node[m] \/ node'[m] = row
  BY <1>1, NodeWritten DEF IInv, Shape
<1>4. Shape'
  BY <1>2, <1>3 DEF Shape
<1>5. CarriedValid'
  BY <1>2, IdleShape DEF IInv, CarriedValid
<1>6. NodesValid'
  BY <1>1, <1>3 DEF IInv, NodesValid
<1> QED
  BY <1>4, <1>5, <1>6 DEF IInv

-----------------------------------------------------------------------------
(* The steps that only move a handler on, or delete a node.                *)

(* A handler moves on to v, which is not about to write; no row of a node  *)
(* changes.                                                                *)
LEMMA MoveStep ==
  ASSUME IInv, NEW base, base = req \/ (\E S : base = Disturb(S)),
         NEW r \in Reqs, NEW v, v = [f \in Fields |-> v[f]], v.pc # "write",
         req' = [base EXCEPT ![r] = v], node' = node
  PROVE  IInv'
<1>1. /\ req' = [x \in Reqs |-> req'[x]]
      /\ \A x \in Reqs : req'[x] = [f \in Fields |-> req'[x][f]]
      /\ req'[r] = v
      /\ \A x \in Reqs \ {r} : req'[x].pc = req[x].pc /\ req'[x].row = req[x].row
  BY OneMoves
<1>2. Shape'
  BY <1>1 DEF IInv, Shape
<1>3. \A n \in Nodes : node'[n] = node[n] \/ node'[n] = Nothing
  OBVIOUS
<1>4. \A x \in Reqs : \/ req'[x].pc # "write"
                     \/ (req'[x].pc = req[x].pc /\ req'[x].row = req[x].row)
  BY <1>1
<1> QED
  BY <1>2, <1>3, <1>4, QuietStep

LEMMA DeleteStep ==
  ASSUME IInv, NEW n \in Nodes, DeleteNode(n)
  PROVE  IInv'
<1>1. node' = [node EXCEPT ![n] = Nothing] /\ req' = Disturb(AtNode(n))
  BY DEF DeleteNode
<1>2. /\ req' = [r \in Reqs |-> req'[r]]
      /\ \A r \in Reqs : /\ req'[r] = [f \in Fields |-> req'[r][f]]
                         /\ req'[r].pc = req[r].pc /\ req'[r].row = req[r].row
  BY <1>1, DisturbShape DEF IInv
<1>3. /\ node' = [m \in Nodes |-> node'[m]]
      /\ \A m \in Nodes : node'[m] = IF m = n THEN Nothing ELSE node[m]
  BY <1>1, NodeWritten
<1>4. Shape'
  BY <1>2, <1>3 DEF Shape
<1>5. \A m \in Nodes : node'[m] = node[m] \/ node'[m] = Nothing
  BY <1>3
<1>6. \A r \in Reqs : req'[r].pc = req[r].pc /\ req'[r].row = req[r].row
  BY <1>2
<1> QED
  BY <1>4, <1>5, <1>6, QuietStep

LEMMA DeployStep ==
  ASSUME IInv, NEW r \in Reqs, NEW n, NEW s, NEW h, Deploy(r, n, s, h)
  PROVE  IInv'
<1> DEFINE path == IF node[n].path = NoPath THEN DefaultPath ELSE node[n].path
           sure == node[n].path # NoPath /\ node[n].port /\ node[n].front = Nothing
           v == [Idle EXCEPT !.pc = "upload", !.what = s, !.node = n, !.route = h,
                             !.host = node[n].host, !.path = path, !.sure = sure]
<1>1. req' = [req EXCEPT ![r] = v] /\ node' = node
  BY DEF Deploy, Begin
<1>2. v = [f \in Fields |-> v[f]] /\ v.pc # "write"
  <2> HIDE DEF path, sure
  <2> QED
    BY DEF Idle, Fields
<1> HIDE DEF v
<1> QED
  BY <1>1, <1>2, MoveStep

LEMMA UploadStep ==
  ASSUME IInv, NEW r \in Reqs, Upload(r)
  PROVE  IInv'
<1> DEFINE base == Disturb(At(req[r].what) \ {r})
           v == [base[r] EXCEPT !.pc = "address"]
<1>1. req' = [base EXCEPT ![r] = v] /\ node' = node
  BY DEF Upload
<1>2. \E S : base = Disturb(S)
  OBVIOUS
<1>3. base[r] = [f \in Fields |-> base[r][f]]
  BY DisturbShape DEF IInv
<1> HIDE DEF base
<1>4. v = [f \in Fields |-> v[f]] /\ v.pc # "write"
  BY <1>3 DEF Fields
<1> HIDE DEF v
<1> QED
  BY <1>1, <1>2, <1>4, MoveStep

LEMMA AddressStep ==
  ASSUME IInv, NEW r \in Reqs, NEW on \in BOOLEAN, NEW known \in BOOLEAN, Address(r, on, known)
  PROVE  IInv'
<1> DEFINE next == IF req[r].route = Nothing THEN "record" ELSE "route"
           host == IF known THEN req[r].what ELSE req[r].host
           sure == req[r].sure /\ (req[r].route # Nothing \/ (on /\ known))
           v == [req[r] EXCEPT !.pc = next, !.host = host, !.sure = sure]
<1>1. req' = [req EXCEPT ![r] = v] /\ node' = node
  BY DEF Address
<1>2. next # "write"
  OBVIOUS
<1>3. req[r] = [f \in Fields |-> req[r][f]]
  BY DEF IInv, Shape
<1> HIDE DEF next, host, sure
<1>4. v = [f \in Fields |-> v[f]] /\ v.pc # "write"
  BY <1>2, <1>3 DEF Fields
<1> HIDE DEF v
<1> QED
  BY <1>1, <1>4, MoveStep

LEMMA AddRouteStep ==
  ASSUME IInv, NEW r \in Reqs, AddRoute(r)
  PROVE  IInv'
<1> DEFINE v == [req[r] EXCEPT !.pc = "list", !.host = req[r].route]
<1>1. req[r] = [f \in Fields |-> req[r][f]] /\ req = [x \in Reqs |-> req[x]]
  BY DEF IInv, Shape
<1>2. req' = [req EXCEPT ![r] = v] /\ node' = node
  BY <1>1 DEF AddRoute
<1>3. v = [f \in Fields |-> v[f]] /\ v.pc # "write"
  BY <1>1 DEF Fields
<1> HIDE DEF v
<1> QED
  BY <1>2, <1>3, MoveStep

LEMMA ListRouteStep ==
  ASSUME IInv, NEW r \in Reqs, ListRoute(r)
  PROVE  IInv'
<1> DEFINE v == [req[r] EXCEPT !.pc = "record"]
<1>1. req' = [req EXCEPT ![r] = v] /\ node' = node
  BY DEF ListRoute
<1>2. req[r] = [f \in Fields |-> req[r][f]]
  BY DEF IInv, Shape
<1>3. v = [f \in Fields |-> v[f]] /\ v.pc # "write"
  BY <1>2 DEF Fields
<1> HIDE DEF v
<1> QED
  BY <1>1, <1>3, MoveStep

LEMMA RecordStep ==
  ASSUME IInv, NEW r \in Reqs, Record(r)
  PROVE  IInv'
<1> DEFINE v == [req[r] EXCEPT !.pc = "reread"]
<1>1. req' = [req EXCEPT ![r] = v] /\ node' = node
  BY DEF Record
<1>2. req[r] = [f \in Fields |-> req[r][f]]
  BY DEF IInv, Shape
<1>3. v = [f \in Fields |-> v[f]] /\ v.pc # "write"
  BY <1>2 DEF Fields
<1> HIDE DEF v
<1> QED
  BY <1>1, <1>3, MoveStep

LEMMA DropScriptStep ==
  ASSUME IInv, NEW r \in Reqs, NEW s, DropScript(r, s)
  PROVE  IInv'
<1> DEFINE base == Disturb(At(s))
           v == [Idle EXCEPT !.pc = "forget", !.what = s]
<1>1. req' = [base EXCEPT ![r] = v] /\ node' = node
  BY DEF DropScript
<1>2. \E S : base = Disturb(S)
  OBVIOUS
<1>3. v = [f \in Fields |-> v[f]] /\ v.pc # "write"
  BY DEF Idle, Fields
<1> HIDE DEF base, v
<1> QED
  BY <1>1, <1>2, <1>3, MoveStep

LEMMA CreateRecordStep ==
  ASSUME IInv, NEW r \in Reqs, NEW d, CreateRecord(r, d)
  PROVE  IInv'
<1> DEFINE v == [Idle EXCEPT !.pc = "remember", !.what = d]
<1>1. req' = [req EXCEPT ![r] = v] /\ node' = node
  BY DEF CreateRecord, Begin
<1>2. v = [f \in Fields |-> v[f]] /\ v.pc # "write"
  BY DEF Idle, Fields
<1> HIDE DEF v
<1> QED
  BY <1>1, <1>2, MoveStep

LEMMA DropRecordStep ==
  ASSUME IInv, NEW r \in Reqs, NEW d, DropRecord(r, d)
  PROVE  IInv'
<1> DEFINE v == [Idle EXCEPT !.pc = "forget", !.what = d]
<1>1. req' = [req EXCEPT ![r] = v] /\ node' = node
  BY DEF DropRecord, Begin
<1>2. v = [f \in Fields |-> v[f]] /\ v.pc # "write"
  BY DEF Idle, Fields
<1> HIDE DEF v
<1> QED
  BY <1>1, <1>2, MoveStep

(* A handler that has finished or given up. *)
LEMMA EndStep ==
  ASSUME IInv, NEW r \in Reqs, Remember(r) \/ Forget(r) \/ Abort(r)
  PROVE  IInv'
<1>1. req' = [req EXCEPT ![r] = Idle] /\ node' = node
  BY DEF Remember, Forget, Abort
<1> QED
  BY <1>1, IdleShape, MoveStep

-----------------------------------------------------------------------------
(* The invariant is inductive.                                             *)
LEMMA StepInv == IInv /\ [Next]_vars => IInv'
<1> SUFFICES ASSUME IInv, [Next]_vars PROVE IInv'
  OBVIOUS
<1>1. CASE UNCHANGED vars
  BY <1>1 DEF vars, IInv, Shape, CarriedValid, NodesValid
<1>2. ASSUME NEW n \in Nodes, NEW draft \in Drafts, CreateNode(n, draft) PROVE IInv'
  BY <1>2, CreateStep
<1>3. ASSUME NEW n \in Nodes, DeleteNode(n) PROVE IInv'
  BY <1>3, DeleteStep
<1>4. ASSUME NEW r \in Reqs, NEW n \in Nodes, NEW edit \in Edits, EditRead(r, n, edit) PROVE IInv'
  BY <1>4, EditStep
<1>5. ASSUME NEW r \in Reqs, NEW n \in Nodes, NEW s \in Scripts, NEW h \in Routes \cup {Nothing},
             Deploy(r, n, s, h)
      PROVE  IInv'
  BY <1>5, DeployStep
<1>6. ASSUME NEW r \in Reqs, NEW on \in BOOLEAN, NEW known \in BOOLEAN, Address(r, on, known)
      PROVE  IInv'
  BY <1>6, AddressStep
<1>7. ASSUME NEW r \in Reqs, NEW s \in Scripts, DropScript(r, s) PROVE IInv'
  BY <1>7, DropScriptStep
<1>8. ASSUME NEW r \in Reqs, NEW d \in Records, CreateRecord(r, d) \/ DropRecord(r, d) PROVE IInv'
  BY <1>8, CreateRecordStep, DropRecordStep
<1>9. ASSUME NEW r \in Reqs, WriteNode(r) PROVE IInv'
  BY <1>9, WriteStep
<1>10. ASSUME NEW r \in Reqs,
              Upload(r) \/ AddRoute(r) \/ ListRoute(r) \/ Record(r) \/ Reread(r)
       PROVE  IInv'
  BY <1>10, UploadStep, AddRouteStep, ListRouteStep, RecordStep, RereadStep
<1>11. ASSUME NEW r \in Reqs, Remember(r) \/ Forget(r) \/ Abort(r) PROVE IInv'
  BY <1>11, EndStep
<1> QED
  BY <1>1, <1>2, <1>3, <1>4, <1>5, <1>6, <1>7, <1>8, <1>9, <1>10, <1>11 DEF Next

(* However edits and deployments of a node overlap, and whatever fails     *)
(* halfway, the rows of nodes are ones that validateNode accepts.          *)
THEOREM NodesStayValid == Spec => []NodesValid
<1>1. IInv => NodesValid
  BY DEF IInv
<1> QED
  BY InitInv, StepInv, <1>1, PTL DEF Spec


-----------------------------------------------------------------------------
(* What is at Cloudflare, what the rows say of it and what links reach.    *)

Things == Scripts \cup Records

Types ==
    /\ \A n \in Nodes : node[n] = Nothing \/ node[n] \in NodeRows
    /\ scripts \in [Scripts -> Paths \cup {Nothing}]
    /\ routes \in [Routes -> Scripts \cup {Nothing}]
    /\ dev \subseteq Scripts /\ zone \subseteq Records
    /\ due \in [Nodes -> Scripts \cup {Nothing}]
    /\ \A n \in Nodes : node[n] = Nothing => due[n] = Nothing

(* A host leads to script s. *)
Reaches(host, s) == IF host \in Routes THEN routes[host] = s ELSE host = s /\ s \in dev

(* The links of a node that is due to be served are. *)
Served(n) ==
    /\ Reaches(node[n].host, due[n]) /\ scripts[due[n]] = node[n].path
    /\ Speaks(node[n])
Serves == \A n \in Nodes : due[n] # Nothing => Served(n)

Deploying(me) ==
    \/ me.pc \in {"upload", "address", "route", "list", "record", "reread"}
    \/ me.pc = "write" /\ me.what # Nothing

(* The locals of a handler, by where it is. *)
Placed(me) ==
    /\ me.pc \in {"idle", "upload", "address", "route", "list", "record", "reread", "write",
                  "remember", "forget"}
    /\ me.pc = "idle" => me.what = Nothing
    /\ Deploying(me) => /\ me.what \in Scripts /\ me.node \in Nodes /\ me.path \in Paths
                        /\ me.route \in Routes \cup {Nothing} /\ me.host \in Hosts
    /\ me.pc \in {"route", "list"} => me.route \in Routes
    /\ me.pc = "write" => me.node \in Nodes /\ me.row \in NodeRows
    /\ me.pc \in {"remember", "forget"} => me.what \in Things

(* All that a deployment leaves as it is is as the links need it. *)
Apt(row, path) ==
    /\ row.path = path /\ row.protocol = "vless" /\ row.kind = "ws"
    /\ row.port /\ row.front = Nothing

(* A handler that has not been disturbed knows its node and its script. *)
FreshUpload(me) ==
    me.pc = "upload" /\ me.clean =>
        /\ node[me.node] # Nothing
        /\ node[me.node].path # NoPath => node[me.node].path = me.path
        /\ me.sure => Apt(node[me.node], me.path)
FreshScript(me) ==
    Deploying(me) /\ me.pc # "upload" /\ me.clean =>
        /\ node[me.node] # Nothing /\ scripts[me.what] = me.path
        /\ me.sure => Apt(node[me.node], me.path)
FreshHost(me) ==
    Deploying(me) /\ me.clean /\ me.sure =>
        /\ me.pc \in {"list", "record", "reread"} => Reaches(me.host, me.what)
        /\ me.pc = "write" => /\ Reaches(me.row.host, me.what)
                              /\ me.row.path = me.path /\ Speaks(me.row)

(* An edit that asks for nothing else, in the eyes of who made it. *)
AsksNothing(row, edit) == \A f \in LinkFields : edit[f] \in {Keep, row[f]}
FreshEdit(me) ==
    me.pc = "write" /\ me.what = Nothing /\ me.clean =>
        /\ node[me.node] # Nothing /\ me.row = Merged(node[me.node], me.edit)
        /\ me.sure => AsksNothing(node[me.node], me.edit)
Fresh(me) == FreshUpload(me) /\ FreshScript(me) /\ FreshHost(me) /\ FreshEdit(me)

There(x) == (x \in Scripts /\ scripts[x] # Nothing) \/ x \in zone

(* Handler r is at x and has done something about it. *)
Late(r, x) == req[r].what = x /\ req[r].pc # "upload"

(* Of a thing that is not torn: whoever is late at it is alone, and knows  *)
(* how far the rows and the account have come apart.                       *)
ListedAt(x) ==
    /\ \A r, q \in Reqs : Late(r, x) /\ Late(q, x) => r = q
    /\ (\A r \in Reqs : ~Late(r, x)) => (x \in rows <=> There(x))
    /\ \A r \in Reqs : Late(r, x) =>
         /\ req[r].pc = "forget" => ~There(x)
         /\ req[r].pc # "forget" => There(x)
         /\ req[r].pc \in {"reread", "write"} => x \in rows
Listed == \A x \in Things \ torn : ListedAt(x)

CInv == /\ Types /\ Serves /\ Listed
        /\ \A r \in Reqs : Placed(req[r]) /\ Fresh(req[r])

-----------------------------------------------------------------------------
(* What the steps of others leave to a handler.                            *)

Keeps(q, w) ==
    /\ w.pc = q.pc /\ w.what = q.what /\ w.node = q.node /\ w.route = q.route
    /\ w.host = q.host /\ w.path = q.path /\ w.row = q.row /\ w.edit = q.edit
    /\ w.sure = q.sure

(* Script s stays as it is and where it is. *)
KeptUp(s) ==
    /\ scripts'[s] = scripts[s]
    /\ \A h \in Routes : routes[h] = s => routes'[h] = s
    /\ s \in dev => s \in dev'

Undisturbed(q) ==
    /\ Deploying(q) \/ q.pc = "write" => node'[q.node] = node[q.node]
    /\ Deploying(q) /\ q.pc # "upload" => KeptUp(q.what)

Still(x) ==
    /\ Keeps(req[x], req'[x])
    /\ req'[x].clean => req[x].clean /\ Undisturbed(req[x])

Moved(x) == Placed(req'[x]) /\ Fresh(req[x])'

LEMMA ReachesStill ==
  ASSUME NEW host, NEW s, KeptUp(s), Reaches(host, s)
  PROVE  Reaches(host, s)'
  BY DEF Reaches, KeptUp

LEMMA StillMoved ==
  ASSUME CInv, NEW x \in Reqs, Still(x)
  PROVE  Moved(x)
<1> DEFINE q == req[x]
           w == req'[x]
<1>1. /\ w.pc = q.pc /\ w.what = q.what /\ w.node = q.node /\ w.route = q.route
      /\ w.host = q.host /\ w.path = q.path /\ w.row = q.row /\ w.edit = q.edit
      /\ w.sure = q.sure
      /\ w.clean => q.clean /\ Undisturbed(q)
  BY DEF Still, Keeps
<1>2. Placed(q) /\ Fresh(q)
  BY DEF CInv
<1>3. Placed(w)
  BY <1>1, <1>2 DEF Placed, Deploying
<1>4. Deploying(w) <=> Deploying(q)
  BY <1>1 DEF Deploying
<1>5. FreshUpload(req[x])'
  BY <1>1, <1>2, <1>4 DEF Fresh, FreshUpload, Undisturbed, Deploying, Apt
<1>6. FreshScript(req[x])'
  BY <1>1, <1>2, <1>4 DEF Fresh, FreshScript, Undisturbed, KeptUp, Apt
<1>7. FreshHost(req[x])'
  <2> SUFFICES ASSUME Deploying(w), w.clean, w.sure
               PROVE  /\ w.pc \in {"list", "record", "reread"} =>
                            Reaches(req[x].host, req[x].what)'
                      /\ w.pc = "write" => /\ Reaches(req[x].row.host, req[x].what)'
                                           /\ w.row.path = w.path /\ Speaks(w.row)
    BY DEF FreshHost, Speaks
  <2>1. Deploying(q) /\ q.clean /\ q.sure
    BY <1>1, <1>4
  <2>2. /\ q.pc \in {"list", "record", "reread"} => Reaches(q.host, q.what)
        /\ q.pc = "write" => Reaches(q.row.host, q.what) /\ q.row.path = q.path /\ Speaks(q.row)
    BY <1>2, <2>1 DEF Fresh, FreshHost
  <2>3. q.pc # "upload" => KeptUp(q.what)
    BY <1>1, <2>1 DEF Undisturbed
  <2>4. w.pc \in {"list", "record", "reread"} => Reaches(req[x].host, req[x].what)'
    BY <1>1, <2>2, <2>3 DEF Reaches, KeptUp
  <2>5. w.pc = "write" => /\ Reaches(req[x].row.host, req[x].what)' /\ w.row.path = w.path
                          /\ Speaks(w.row)
    BY <1>1, <2>2, <2>3 DEF Reaches, KeptUp
  <2> QED
    BY <2>4, <2>5
<1>8. FreshEdit(req[x])'
  <2> SUFFICES ASSUME w.pc = "write", w.what = Nothing, w.clean
               PROVE  /\ node'[w.node] # Nothing /\ w.row = Merged(node[req[x].node], req[x].edit)'
                      /\ w.sure => AsksNothing(node[req[x].node], req[x].edit)'
    BY DEF FreshEdit
  <2>1. node'[q.node] = node[q.node]
    BY <1>1 DEF Undisturbed
  <2>2. /\ node[q.node] # Nothing /\ q.row = Merged(node[q.node], q.edit)
        /\ q.sure => AsksNothing(node[q.node], q.edit)
    BY <1>1, <1>2 DEF Fresh, FreshEdit
  <2>3. w.row = Merged(node[req[x].node], req[x].edit)'
    BY <1>1, <2>1, <2>2 DEF Merged
  <2>4. w.sure => AsksNothing(node[req[x].node], req[x].edit)'
    BY <1>1, <2>1, <2>2 DEF AsksNothing
  <2> QED
    BY <1>1, <2>1, <2>2, <2>3, <2>4
<1> QED
  BY <1>3, <1>5, <1>6, <1>7, <1>8 DEF Moved, Fresh

LEMMA Together ==
  ASSUME CInv, \A x \in Reqs : Still(x) \/ Moved(x), Types', Serves', Listed'
  PROVE  CInv'
<1>1. \A x \in Reqs : Moved(x)
  BY StillMoved
<1> QED
  BY <1>1 DEF CInv, Moved


(* Handler r moves on, the others are as they were... *)
LEMMA OthersSame ==
  ASSUME IInv, NEW r \in Reqs, NEW v, req' = [req EXCEPT ![r] = v]
  PROVE  req'[r] = v /\ \A x \in Reqs \ {r} : req'[x] = req[x]
<1>1. req = [x \in Reqs |-> req[x]]
  BY DEF IInv, Shape
<1> QED
  BY <1>1

(* ...or those of S have been disturbed. *)
LEMMA Disturbed ==
  ASSUME IInv, NEW S, NEW x \in Reqs
  PROVE  /\ Keeps(req[x], Disturb(S)[x])
         /\ Disturb(S)[x].clean <=> req[x].clean /\ x \notin S
<1>1. req[x] = [f \in Fields |-> req[x][f]]
  BY DEF IInv, Shape
<1>2. Disturb(S)[x] = [req[x] EXCEPT !.clean = req[x].clean /\ x \notin S]
  BY DEF Disturb
<1> QED
  BY <1>1, <1>2 DEF Keeps, Fields

LEMMA OthersDisturbed ==
  ASSUME IInv, NEW r \in Reqs, NEW v, NEW S, req' = [Disturb(S) EXCEPT ![r] = v]
  PROVE  /\ req'[r] = v
         /\ \A x \in Reqs \ {r} : /\ Keeps(req[x], req'[x])
                                  /\ req'[x].clean => req[x].clean /\ x \notin S
<1>1. Disturb(S) = [x \in Reqs |-> Disturb(S)[x]]
  BY DEF Disturb
<1>2. req'[r] = v /\ \A x \in Reqs \ {r} : req'[x] = Disturb(S)[x]
  BY <1>1
<1> QED
  BY <1>2, Disturbed

LEMMA SameStill ==
  ASSUME NEW x \in Reqs, req'[x] = req[x], Undisturbed(req[x])
  PROVE  Still(x)
  BY DEF Still, Keeps

LEMMA NothingTouched ==
  ASSUME UNCHANGED <<node, scripts, routes>>, \A s \in dev : s \in dev'
  PROVE  /\ \A s : KeptUp(s)
         /\ \A x \in Reqs : Undisturbed(req[x])
  BY DEF Undisturbed, KeptUp

(* Whoever is still due is served as before. *)
LEMMA ServesStill ==
  ASSUME CInv, NEW n \in Nodes, due'[n] # Nothing, due'[n] = due[n], node'[n] = node[n],
         KeptUp(due[n])
  PROVE  Served(n)'
<1>1. Reaches(node[n].host, due[n]) /\ scripts[due[n]] = node[n].path /\ Speaks(node[n])
  BY DEF CInv, Serves, Served
<1>2. Reaches(node[n].host, due[n])' /\ scripts'[due'[n]] = node'[n].path
  BY <1>1 DEF Reaches, KeptUp
<1>3. Speaks(node[n])'
  BY <1>1 DEF Speaks
<1> QED
  BY <1>2, <1>3 DEF Served

(* The rows of a thing are right as long as nobody touches it... *)
LEMMA ListedStill ==
  ASSUME NEW x \in Things, ListedAt(x), x \in rows' <=> x \in rows, There(x)' <=> There(x),
         \A y \in Reqs : /\ Late(y, x)' <=> Late(y, x)
                         /\ Late(y, x) => req'[y].pc = req[y].pc
  PROVE  ListedAt(x)'
  BY DEF ListedAt

(* ...and when r does, who is alone at it. *)
LEMMA ListedAlone ==
  ASSUME NEW x \in Things, NEW r \in Reqs, \A y \in Reqs \ {r} : ~Late(y, x)',
         Late(r, x)' => /\ req'[r].pc = "forget" => ~There(x)'
                        /\ req'[r].pc # "forget" => There(x)'
                        /\ req'[r].pc \in {"reread", "write"} => x \in rows',
         ~Late(r, x)' => (x \in rows' <=> There(x)')
  PROVE  ListedAt(x)'
  BY DEF ListedAt

LEMMA LateStill ==
  ASSUME NEW y \in Reqs, Still(y), NEW x
  PROVE  (Late(y, x)' <=> Late(y, x)) /\ req'[y].pc = req[y].pc
  BY DEF Still, Keeps, Late

(* A step of handler r at t. *)
LEMMA ListedStep ==
  ASSUME CInv, NEW r \in Reqs, \A y \in Reqs \ {r} : Still(y), NEW t, torn \subseteq torn',
         \A x \in Things : x # t => /\ x \in rows' <=> x \in rows
                                    /\ There(x)' <=> There(x)
                                    /\ ~Late(r, x) /\ ~Late(r, x)',
         t \in Things \ torn' =>
            /\ \A y \in Reqs \ {r} : ~Late(y, t)
            /\ Late(r, t)' => /\ req'[r].pc = "forget" => ~There(t)'
                              /\ req'[r].pc # "forget" => There(t)'
                              /\ req'[r].pc \in {"reread", "write"} => t \in rows'
            /\ ~Late(r, t)' => (t \in rows' <=> There(t)')
  PROVE  Listed'
<1> SUFFICES ASSUME NEW x \in Things, x \notin torn' PROVE ListedAt(x)'
  BY DEF Listed
<1>1. ListedAt(x)
  BY DEF CInv, Listed
<1>2. \A y \in Reqs \ {r} : (Late(y, x)' <=> Late(y, x)) /\ req'[y].pc = req[y].pc
  BY LateStill
<1>3. CASE x = t
  BY <1>2, <1>3, ListedAlone
<1>4. CASE x # t
  BY <1>1, <1>2, <1>4, ListedStill
<1> QED
  BY <1>3, <1>4

(* A step that nobody moves on in. *)
LEMMA ListedQuiet ==
  ASSUME CInv, \A y \in Reqs : Still(y), UNCHANGED <<rows, scripts, zone, torn>>
  PROVE  Listed'
<1> SUFFICES ASSUME NEW x \in Things, x \notin torn' PROVE ListedAt(x)'
  BY DEF Listed
<1>1. ListedAt(x) /\ (There(x)' <=> There(x))
  BY DEF CInv, Listed, There
<1>2. \A y \in Reqs : (Late(y, x)' <=> Late(y, x)) /\ req'[y].pc = req[y].pc
  BY LateStill
<1> QED
  BY <1>1, <1>2, ListedStill

(* Whoever is late at a thing that is not torn is alone, and knows of it. *)
LEMMA AloneThere ==
  ASSUME CInv, NEW r \in Reqs, req[r].what \in Things \ torn, req[r].pc # "upload"
  PROVE  /\ \A y \in Reqs \ {r} : ~Late(y, req[r].what)
         /\ req[r].pc = "forget" => ~There(req[r].what)
         /\ req[r].pc # "forget" => There(req[r].what)
         /\ req[r].pc \in {"reread", "write"} => req[r].what \in rows
<1>1. ListedAt(req[r].what) /\ Late(r, req[r].what)
  BY DEF CInv, Listed, Late
<1> QED
  BY <1>1 DEF ListedAt

LEMMA MergedTyped ==
  ASSUME NEW row \in NodeRows, NEW edit, edit.edge \in BOOLEAN \cup {Keep},
         edit.protocol \in {"vless", "trojan", Keep}, edit.tls \in BOOLEAN \cup {Keep},
         edit.kind \in {"ws", "xhttp", Keep}, edit.path \in Paths \cup {NoPath, Keep},
         edit.host \in Hosts \cup {Keep}, edit.sni \in Hosts \cup {Nothing, Keep},
         edit.front \in Hosts \cup {Nothing, Keep}, edit.port \in BOOLEAN \cup {Keep}
  PROVE  /\ Merged(row, edit) \in NodeRows
         /\ \A f \in {"edge"} \cup LinkFields :
              Merged(row, edit)[f] = IF edit[f] = Keep THEN row[f] ELSE edit[f]
<1>1. DOMAIN row = {"edge", "protocol", "tls", "kind", "path", "host", "sni", "front", "port"}
  BY DEF NodeRows
<1>2. \A f \in {"edge"} \cup LinkFields :
         Merged(row, edit)[f] = IF edit[f] = Keep THEN row[f] ELSE edit[f]
  BY <1>1 DEF Merged, LinkFields
<1>3. Merged(row, edit) \in NodeRows
  BY DEF Merged, NodeRows
<1> QED
  BY <1>2, <1>3

(* An edit that asks for nothing else leaves what the links carry. *)
LEMMA MergedSame ==
  ASSUME NEW row \in NodeRows, NEW edit, AsksNothing(row, edit)
  PROVE  /\ Merged(row, edit).host = row.host /\ Merged(row, edit).path = row.path
         /\ Speaks(row) => Speaks(Merged(row, edit))
<1>1. DOMAIN row = {"edge", "protocol", "tls", "kind", "path", "host", "sni", "front", "port"}
  BY DEF NodeRows
<1>2. \A f \in LinkFields : Merged(row, edit)[f] = row[f]
  BY <1>1 DEF Merged, LinkFields, AsksNothing
<1> QED
  BY <1>2 DEF LinkFields, Speaks


-----------------------------------------------------------------------------
(* Steps at a node.                                                        *)

LEMMA CreateNodeC ==
  ASSUME IInv, CInv, NEW n \in Nodes, NEW draft \in Drafts, CreateNode(n, draft)
  PROVE  CInv'
<1>1. /\ node[n] = Nothing /\ AtNode(n) = {} /\ node' = [node EXCEPT ![n] = draft]
      /\ UNCHANGED <<cloud, rows, req, due, torn>>
  BY DEF CreateNode
<1>2. UNCHANGED <<scripts, dev, routes, zone>>
  BY <1>1 DEF cloud
<1>3. \A m \in Nodes : node'[m] = IF m = n THEN draft ELSE node[m]
  BY <1>1, NodeWritten
<1>4. draft \in NodeRows /\ draft # Nothing
  BY NoRowAssumption, InputsAssumption
<1>5. \A x \in Reqs : Still(x)
  <2> SUFFICES ASSUME NEW x \in Reqs PROVE Undisturbed(req[x])
    BY <1>1, SameStill
  <2>1. req[x].node # n
    BY <1>1 DEF AtNode
  <2>2. Deploying(req[x]) \/ req[x].pc = "write" => req[x].node \in Nodes
    BY DEF CInv, Placed
  <2> QED
    BY <1>2, <1>3, <2>1, <2>2 DEF Undisturbed, KeptUp
<1>6. Types'
  BY <1>1, <1>2, <1>3, <1>4 DEF CInv, Types
<1>7. Serves'
  <2> SUFFICES ASSUME NEW m \in Nodes, due'[m] # Nothing
               PROVE  Served(m)'
    BY DEF Serves
  <2>1. m # n /\ due'[m] = due[m]
    BY <1>1 DEF CInv, Types
  <2> QED
    BY <1>2, <1>3, <2>1, ServesStill DEF KeptUp
<1>8. Listed'
  BY <1>1, <1>2, <1>5, ListedQuiet
<1> QED
  BY <1>5, <1>6, <1>7, <1>8, Together

LEMMA DeleteNodeC ==
  ASSUME IInv, CInv, NEW n \in Nodes, DeleteNode(n)
  PROVE  CInv'
<1>1. /\ node' = [node EXCEPT ![n] = Nothing] /\ due' = [due EXCEPT ![n] = Nothing]
      /\ req' = Disturb(AtNode(n)) /\ UNCHANGED <<cloud, rows, torn>>
  BY DEF DeleteNode
<1>2. UNCHANGED <<scripts, dev, routes, zone>>
  BY <1>1 DEF cloud
<1>3. \A m \in Nodes : node'[m] = IF m = n THEN Nothing ELSE node[m]
  BY <1>1, NodeWritten
<1>4. \A x \in Reqs : Still(x)
  <2> SUFFICES ASSUME NEW x \in Reqs, req'[x].clean
               PROVE  req[x].clean /\ Undisturbed(req[x])
    BY <1>1, Disturbed DEF Still
  <2>1. req[x].clean /\ req[x].node # n
    BY <1>1, Disturbed DEF AtNode
  <2>2. Deploying(req[x]) \/ req[x].pc = "write" => req[x].node \in Nodes
    BY DEF CInv, Placed
  <2> QED
    BY <1>2, <1>3, <2>1, <2>2 DEF Undisturbed, KeptUp
<1>5. /\ due' \in [Nodes -> Scripts \cup {Nothing}]
      /\ \A m \in Nodes : due'[m] = IF m = n THEN Nothing ELSE due[m]
  BY <1>1 DEF CInv, Types
<1>6. Types'
  BY <1>2, <1>3, <1>5 DEF CInv, Types
<1>7. Serves'
  <2> SUFFICES ASSUME NEW m \in Nodes, due'[m] # Nothing
               PROVE  Served(m)'
    BY DEF Serves
  <2>1. m # n /\ due'[m] = due[m]
    BY <1>5
  <2> QED
    BY <1>2, <1>3, <2>1, ServesStill DEF KeptUp
<1>8. Listed'
  BY <1>1, <1>2, <1>4, ListedQuiet
<1> QED
  BY <1>4, <1>6, <1>7, <1>8, Together

LEMMA EditReadC ==
  ASSUME IInv, CInv, NEW r \in Reqs, NEW n \in Nodes, NEW edit \in Edits, EditRead(r, n, edit)
  PROVE  CInv'
<1> DEFINE row == Merged(node[n], edit)
           sure == \A f \in LinkFields : edit[f] \in {Keep, node[n][f]}
           v == [Idle EXCEPT !.pc = "write", !.node = n, !.row = row, !.edit = edit,
                             !.sure = sure]
<1>1. /\ node[n] # Nothing /\ req[r].pc = "idle" /\ req' = [req EXCEPT ![r] = v]
      /\ UNCHANGED <<node, cloud, rows, due, torn>>
  BY DEF EditRead, Begin
<1>2. UNCHANGED <<scripts, dev, routes, zone>>
  BY <1>1 DEF cloud
<1>3. row \in NodeRows
  <2>1. node[n] \in NodeRows
    BY <1>1 DEF CInv, Types
  <2>2. /\ edit.edge \in BOOLEAN \cup {Keep}
        /\ edit.protocol \in {"vless", "trojan", Keep} /\ edit.tls \in BOOLEAN \cup {Keep}
        /\ edit.kind \in {"ws", "xhttp", Keep} /\ edit.path \in Paths \cup {NoPath, Keep}
        /\ edit.host \in Hosts \cup {Keep} /\ edit.sni \in Hosts \cup {Nothing, Keep}
        /\ edit.front \in Hosts \cup {Nothing, Keep} /\ edit.port \in BOOLEAN \cup {Keep}
    BY InputsAssumption DEF EditForms
  <2> QED
    BY <2>1, <2>2, MergedTyped
<1>a. sure => AsksNothing(node[n], edit)
  BY DEF AsksNothing
<1> HIDE DEF row, sure
<1>4. /\ v.pc = "write" /\ v.node = n /\ v.row = row /\ v.edit = edit /\ v.what = Nothing
      /\ v.sure = sure
  BY DEF Idle
<1> HIDE DEF v
<1>5. req'[r] = v /\ \A x \in Reqs \ {r} : req'[x] = req[x]
  BY <1>1, OthersSame
<1>6. \A x \in Reqs \ {r} : Still(x)
  BY <1>1, <1>2, <1>5, SameStill, NothingTouched
<1>7. Moved(r)
  <2>1. Placed(v)
    BY <1>3, <1>4 DEF Placed, Deploying
  <2>2. FreshUpload(req[r])' /\ FreshScript(req[r])' /\ FreshHost(req[r])'
    BY <1>4, <1>5 DEF FreshUpload, FreshScript, FreshHost, Deploying
  <2>3. v.row = Merged(node[v.node], v.edit)
    BY <1>4 DEF row
  <2>5. v.sure => AsksNothing(node[n], edit)
    BY <1>a, <1>4
  <2>4. FreshEdit(req[r])'
    BY <1>1, <1>4, <1>5, <2>3, <2>5 DEF FreshEdit, Merged, AsksNothing
  <2> QED
    BY <1>5, <2>1, <2>2, <2>4 DEF Moved, Fresh
<1>8. Types' /\ Serves'
  BY <1>1, <1>2 DEF CInv, Types, Serves, Served, Reaches, Speaks
<1>9. req[r].what = Nothing
  BY <1>1 DEF CInv, Placed
<1>10. Listed'
  <2>1. \A x \in Things : ~Late(r, x) /\ ~Late(r, x)' /\ (There(x)' <=> There(x))
    BY <1>2, <1>4, <1>5, <1>9, ConstantsAssumption DEF Late, Things, There
  <2>2. Nothing \notin Things
    BY ConstantsAssumption DEF Things
  <2> QED
    BY <1>1, <1>6, <2>1, <2>2, ListedStep
<1> QED
  BY <1>6, <1>7, <1>8, <1>10, Together

LEMMA WriteNodeC ==
  ASSUME IInv, CInv, NEW r \in Reqs, WriteNode(r)
  PROVE  CInv'
<1> DEFINE me == req[r]
           n == req[r].node
<1>1. /\ me.pc = "write" /\ req' = [Disturb(AtNode(n)) EXCEPT ![r] = Idle]
      /\ UNCHANGED <<cloud, rows, torn>>
      /\ \/ node' = node /\ due' = due
         \/ /\ node[n] # Nothing /\ node' = [node EXCEPT ![n] = me.row]
            /\ due' = [due EXCEPT ![n] = DueAfter(r)]
  BY DEF WriteNode
<1>2. UNCHANGED <<scripts, dev, routes, zone>>
  BY <1>1 DEF cloud
<1>3. n \in Nodes /\ me.row \in NodeRows /\ me.row # Nothing /\ Placed(me) /\ Fresh(me)
  BY <1>1, NoRowAssumption DEF CInv, Placed
<1>4. \A m \in Nodes \ {n} : node'[m] = node[m] /\ due'[m] = due[m]
  <2>1. due = [m \in Nodes |-> due[m]]
    BY DEF CInv, Types
  <2> QED
    BY <1>1, <2>1, NodeWritten
<1>5. \/ node'[n] = node[n] /\ due'[n] = due[n]
      \/ node[n] # Nothing /\ node'[n] = me.row /\ due'[n] = DueAfter(r)
  <2>1. due = [m \in Nodes |-> due[m]]
    BY DEF CInv, Types
  <2> QED
    BY <1>1, <1>3, <2>1, NodeWritten
<1>6. DueAfter(r) # Nothing =>
        /\ Reaches(me.row.host, DueAfter(r)) /\ scripts[DueAfter(r)] = me.row.path
        /\ Speaks(me.row) /\ DueAfter(r) \in Scripts
  <2>1. CASE me.what # Nothing
    <3>1. Deploying(me)
      BY <1>1, <2>1 DEF Deploying
    <3>2. DueAfter(r) = IF me.clean /\ me.sure THEN me.what ELSE Nothing
      BY <2>1 DEF DueAfter
    <3> SUFFICES ASSUME me.clean /\ me.sure
                 PROVE  /\ Reaches(me.row.host, me.what) /\ scripts[me.what] = me.row.path
                        /\ Speaks(me.row) /\ me.what \in Scripts
      BY <3>2
    <3>3. me.what \in Scripts
      BY <1>3, <3>1 DEF Placed
    <3>4. Reaches(me.row.host, me.what) /\ me.row.path = me.path /\ Speaks(me.row)
      BY <1>1, <1>3, <3>1 DEF Fresh, FreshHost
    <3>5. scripts[me.what] = me.path
      BY <1>1, <1>3, <3>1 DEF Fresh, FreshScript
    <3> QED
      BY <3>3, <3>4, <3>5
  <2>2. CASE me.what = Nothing
    <3> SUFFICES ASSUME DueAfter(r) # Nothing
                 PROVE  /\ Reaches(me.row.host, DueAfter(r)) /\ scripts[DueAfter(r)] = me.row.path
                        /\ Speaks(me.row) /\ DueAfter(r) \in Scripts
      OBVIOUS
    <3>1. me.clean /\ me.sure /\ DueAfter(r) = due[n]
      BY <2>2 DEF DueAfter
    <3>2. /\ node[n] # Nothing /\ me.row = Merged(node[n], me.edit)
          /\ AsksNothing(node[n], me.edit)
      BY <1>1, <1>3, <2>2, <3>1 DEF Fresh, FreshEdit
    <3>3. node[n] \in NodeRows /\ due[n] \in Scripts
      BY <1>3, <3>1, <3>2 DEF CInv, Types
    <3>4. /\ me.row.host = node[n].host /\ me.row.path = node[n].path
          /\ Speaks(node[n]) => Speaks(me.row)
      BY <3>2, <3>3, MergedSame
    <3>5. Reaches(node[n].host, due[n]) /\ scripts[due[n]] = node[n].path /\ Speaks(node[n])
      BY <1>3, <3>1 DEF CInv, Serves, Served
    <3> QED
      BY <3>1, <3>3, <3>4, <3>5
  <2> QED
    BY <2>1, <2>2
<1>7. /\ req'[r] = Idle
      /\ \A x \in Reqs \ {r} : /\ Keeps(req[x], req'[x])
                               /\ req'[x].clean => req[x].clean /\ x \notin AtNode(n)
  <2>1. PICK S : S = AtNode(n)
    OBVIOUS
  <2>2. req' = [Disturb(S) EXCEPT ![r] = Idle]
    BY <1>1, <2>1
  <2> QED
    BY <2>1, <2>2, OthersDisturbed
<1>8. \A x \in Reqs \ {r} : Still(x)
  <2> SUFFICES ASSUME NEW x \in Reqs \ {r}, req'[x].clean
               PROVE  Undisturbed(req[x])
    BY <1>7 DEF Still
  <2>1. req[x].node # n
    BY <1>7 DEF AtNode
  <2>2. Deploying(req[x]) \/ req[x].pc = "write" => req[x].node \in Nodes
    BY DEF CInv, Placed
  <2> QED
    BY <1>2, <1>4, <2>1, <2>2 DEF Undisturbed, KeptUp
<1>9. Moved(r)
  BY <1>7 DEF Moved, Placed, Fresh, FreshUpload, FreshScript, FreshHost, FreshEdit, Deploying, Idle
<1>10. Types'
  <2>1. due' \in [Nodes -> Scripts \cup {Nothing}]
    <3>1. DueAfter(r) \in Scripts \cup {Nothing}
      BY <1>6
    <3> QED
      BY <1>1, <3>1 DEF CInv, Types
  <2>2. \A m \in Nodes : /\ node'[m] = Nothing \/ node'[m] \in NodeRows
                         /\ node'[m] = Nothing => due'[m] = Nothing
    BY <1>3, <1>4, <1>5 DEF CInv, Types
  <2> QED
    BY <1>2, <2>1, <2>2 DEF CInv, Types
<1>11. Serves'
  <2> SUFFICES ASSUME NEW m \in Nodes, due'[m] # Nothing
               PROVE  Served(m)'
    BY DEF Serves
  <2>1. \A s : KeptUp(s)
    BY <1>2 DEF KeptUp
  <2>2. CASE node'[m] = node[m] /\ due'[m] = due[m]
    BY <2>1, <2>2, ServesStill
  <2>3. CASE node'[m] = me.row /\ due'[m] = DueAfter(r)
    <3>1. /\ Reaches(me.row.host, DueAfter(r)) /\ scripts[DueAfter(r)] = me.row.path
          /\ Speaks(me.row)
      BY <1>6, <2>3
    <3>2. Reaches(node[m].host, due[m])' /\ scripts'[due'[m]] = node'[m].path
      BY <1>2, <2>3, <3>1 DEF Reaches
    <3>3. Speaks(node[m])'
      BY <2>3, <3>1 DEF Speaks
    <3> QED
      BY <3>2, <3>3 DEF Served
  <2> QED
    BY <1>4, <1>5, <2>2, <2>3
<1>12. Listed'
  <2> PICK t : t = me.what
    OBVIOUS
  <2>1. \A x \in Things : /\ There(x)' <=> There(x)
                          /\ ~Late(r, x)' /\ (x # t => ~Late(r, x))
    BY <1>2, <1>7, ConstantsAssumption DEF There, Late, Idle, Things
  <2>2. ASSUME t \in Things \ torn'
        PROVE  (\A y \in Reqs \ {r} : ~Late(y, t)) /\ (t \in rows' <=> There(t)')
    <3>1. (\A y \in Reqs \ {r} : ~Late(y, t)) /\ There(t) /\ t \in rows
      BY <1>1, <2>2, AloneThere
    <3>2. There(t)'
      BY <1>2, <3>1 DEF There
    <3> QED
      BY <1>1, <3>1, <3>2
  <2> QED
    BY <1>1, <1>8, <2>1, <2>2, ListedStep
<1> QED
  BY <1>8, <1>9, <1>10, <1>11, <1>12, Together


-----------------------------------------------------------------------------
(* Steps of a deployment.                                                  *)

LEMMA DeployC ==
  ASSUME IInv, CInv, NEW r \in Reqs, NEW n \in Nodes, NEW s \in Scripts,
         NEW h \in Routes \cup {Nothing}, Deploy(r, n, s, h)
  PROVE  CInv'
<1> DEFINE path == IF node[n].path = NoPath THEN DefaultPath ELSE node[n].path
           sure == node[n].path # NoPath /\ node[n].port /\ node[n].front = Nothing
           v == [Idle EXCEPT !.pc = "upload", !.what = s, !.node = n, !.route = h,
                             !.host = node[n].host, !.path = path, !.sure = sure]
<1>1. /\ node[n] # Nothing /\ req[r].pc = "idle" /\ req' = [req EXCEPT ![r] = v]
      /\ node[n].protocol = "vless" /\ node[n].kind = "ws"
      /\ UNCHANGED <<node, cloud, rows, due, torn>>
  BY DEF Deploy, Begin
<1>2. UNCHANGED <<scripts, dev, routes, zone>>
  BY <1>1 DEF cloud
<1>3. path \in Paths /\ node[n].host \in Hosts
  <2>1. node[n].path \in Paths \cup {NoPath} /\ node[n].host \in Hosts
    BY <1>1 DEF CInv, Types, NodeRows, Hosts
  <2>2. DefaultPath \in Paths
    BY ConstantsAssumption DEF DefaultPath
  <2> QED
    BY <2>1, <2>2
<1>4. /\ v.pc = "upload" /\ v.what = s /\ v.node = n /\ v.route = h /\ v.host = node[n].host
      /\ v.path = path /\ v.sure = sure
  BY DEF Idle
<1>5. /\ node[n].path # NoPath => node[n].path = path
      /\ sure => Apt(node[n], path)
  BY <1>1 DEF Apt
<1> HIDE DEF path, sure, v
<1>6. req'[r] = v /\ \A x \in Reqs \ {r} : req'[x] = req[x]
  BY <1>1, OthersSame
<1>7. \A x \in Reqs \ {r} : Still(x)
  BY <1>1, <1>2, <1>6, SameStill, NothingTouched
<1>8. Moved(r)
  <2>1. Placed(v)
    BY <1>3, <1>4 DEF Placed, Deploying
  <2>2. FreshUpload(req[r])'
    BY <1>1, <1>4, <1>5, <1>6 DEF FreshUpload, Apt
  <2>3. FreshScript(req[r])' /\ FreshHost(req[r])' /\ FreshEdit(req[r])'
    BY <1>4, <1>6 DEF FreshScript, FreshHost, FreshEdit, Deploying
  <2> QED
    BY <1>6, <2>1, <2>2, <2>3 DEF Moved, Fresh
<1>9. Types' /\ Serves'
  BY <1>1, <1>2 DEF CInv, Types, Serves, Served, Reaches, Speaks
<1>10. Listed'
  <2>1. req[r].what = Nothing
    BY <1>1 DEF CInv, Placed
  <2>2. \A x \in Things : ~Late(r, x) /\ ~Late(r, x)' /\ (There(x)' <=> There(x))
    BY <1>2, <1>4, <1>6, <2>1, ConstantsAssumption DEF Late, Things, There
  <2>3. Nothing \notin Things
    BY ConstantsAssumption DEF Things
  <2> QED
    BY <1>1, <1>7, <2>2, <2>3, ListedStep
<1> QED
  BY <1>7, <1>8, <1>9, <1>10, Together

(* The upload takes script s over from whoever else is at it.              *)
LEMMA UploadC ==
  ASSUME IInv, CInv, NEW r \in Reqs, Upload(r)
  PROVE  CInv'
<1> DEFINE me == req[r]
<1> PICK s : s = me.what
  OBVIOUS
<1> PICK S : S = At(s) \ {r}
  OBVIOUS
<1> DEFINE v == [Disturb(S)[r] EXCEPT !.pc = "address"]
<1>1. /\ me.pc = "upload" /\ scripts' = [scripts EXCEPT ![s] = me.path]
      /\ due' = [n \in Nodes |-> IF due[n] = s /\ (n # me.node \/ ~me.clean)
                                 THEN Nothing ELSE due[n]]
      /\ torn' = (IF At(s) = {r} THEN torn ELSE torn \cup {s})
      /\ UNCHANGED <<node, dev, routes, zone, rows>>
  BY DEF Upload
<1>2. req' = [Disturb(S) EXCEPT ![r] = v]
  BY DEF Upload
<1>3. /\ s \in Scripts /\ me.node \in Nodes /\ me.path \in Paths
      /\ me.route \in Routes \cup {Nothing} /\ me.host \in Hosts /\ Placed(me) /\ Fresh(me)
  BY <1>1 DEF CInv, Placed, Deploying
<1>4. /\ v.pc = "address" /\ v.what = s /\ v.node = me.node /\ v.route = me.route
      /\ v.host = me.host /\ v.path = me.path /\ v.sure = me.sure
      /\ v.clean <=> me.clean
  <2> PICK d : d = Disturb(S)[r]
    OBVIOUS
  <2>1. /\ Keeps(me, d)
        /\ d.clean <=> me.clean
    BY Disturbed
  <2>2. d = [f \in Fields |-> d[f]]
    BY DisturbShape DEF IInv
  <2>3. v = [d EXCEPT !.pc = "address"]
    OBVIOUS
  <2>4. v.pc = "address" /\ \A f \in Fields \ {"pc"} : v[f] = d[f]
    BY <2>2, <2>3, ChangeOne DEF Fields
  <2> QED
    BY <2>1, <2>4 DEF Keeps, Fields
<1> HIDE DEF v

<1>5. /\ req'[r] = v
      /\ \A x \in Reqs \ {r} : /\ Keeps(req[x], req'[x])
                               /\ req'[x].clean => req[x].clean /\ x \notin S
  BY <1>2, OthersDisturbed
<1>6. /\ scripts' \in [Scripts -> Paths \cup {Nothing}] /\ scripts'[s] = me.path
      /\ \A c \in Scripts \ {s} : scripts'[c] = scripts[c]
  BY <1>1, <1>3 DEF CInv, Types
<1>7. \A c \in Scripts \ {s} : KeptUp(c)
  BY <1>1, <1>6 DEF KeptUp
<1>8. \A x \in Reqs \ {r} : Still(x)
  <2> SUFFICES ASSUME NEW x \in Reqs \ {r}, req'[x].clean
               PROVE  Undisturbed(req[x])
    BY <1>5 DEF Still
  <2>1. req[x].what # s
    BY <1>5 DEF At
  <2>2. Deploying(req[x]) => req[x].what \in Scripts
    BY DEF CInv, Placed
  <2> QED
    BY <1>1, <1>7, <2>1, <2>2 DEF Undisturbed
<1>9. me.clean =>
        /\ node[me.node] # Nothing
        /\ node[me.node].path # NoPath => node[me.node].path = me.path
        /\ me.sure => Apt(node[me.node], me.path)
  BY <1>1, <1>3 DEF Fresh, FreshUpload
<1>10. Moved(r)
  <2>1. Placed(v)
    BY <1>3, <1>4 DEF Placed, Deploying
  <2>2. FreshUpload(req[r])' /\ FreshHost(req[r])' /\ FreshEdit(req[r])'
    BY <1>4, <1>5 DEF FreshUpload, FreshHost, FreshEdit
  <2>3. FreshScript(req[r])'
    BY <1>1, <1>4, <1>5, <1>6, <1>9 DEF FreshScript, Apt
  <2> QED
    BY <1>5, <2>1, <2>2, <2>3 DEF Moved, Fresh
<1>11. due' \in [Nodes -> Scripts \cup {Nothing}]
  BY <1>1 DEF CInv, Types
<1>12. Types'
  <2>1. \A n \in Nodes : due'[n] # Nothing => due'[n] = due[n]
    BY <1>1
  <2> QED
    BY <1>1, <1>6, <1>11, <2>1 DEF CInv, Types
<1>13. Serves'
  <2> SUFFICES ASSUME NEW n \in Nodes, due'[n] # Nothing
               PROVE  Served(n)'
    BY DEF Serves
  <2>1. due'[n] = due[n] /\ due[n] \in Scripts /\ (due[n] = s => n = me.node /\ me.clean)
    BY <1>1, <1>11
  <2>2. CASE due[n] # s
    BY <1>1, <1>7, <2>1, <2>2, ServesStill
  <2>3. CASE due[n] = s
    <3>1. Reaches(node[n].host, due[n]) /\ scripts[s] = node[n].path /\ Speaks(node[n])
      BY <2>1, <2>3 DEF CInv, Serves, Served
    <3>2. scripts[s] # NoPath
      BY <1>3, ConstantsAssumption DEF CInv, Types
    <3>3. node[n].path = me.path
      BY <1>9, <2>1, <2>3, <3>1, <3>2
    <3>4. Reaches(node[n].host, due[n])'
      BY <1>1, <2>1, <3>1 DEF Reaches
    <3>5. Speaks(node[n])'
      BY <1>1, <3>1 DEF Speaks
    <3> QED
      BY <1>1, <1>6, <2>1, <2>3, <3>3, <3>4, <3>5 DEF Served
  <2> QED
    BY <2>2, <2>3
<1>14. Listed'
  <2>1. \A x \in Things : x # s => /\ There(x)' <=> There(x)
                                   /\ ~Late(r, x) /\ ~Late(r, x)'
    BY <1>1, <1>4, <1>5, <1>6 DEF There, Late
  <2>2. ASSUME s \in Things \ torn'
        PROVE  /\ \A y \in Reqs \ {r} : ~Late(y, s)
               /\ Late(r, s)' /\ There(s)' /\ req'[r].pc = "address"
    <3>1. At(s) = {r}
      BY <1>1, <2>2
    <3>2. \A y \in Reqs \ {r} : ~Late(y, s)
      BY <3>1 DEF At, Late
    <3>3. me.path # Nothing
      BY <1>3, ConstantsAssumption
    <3>4. There(s)'
      BY <1>3, <1>6, <3>3 DEF There
    <3>5. Late(r, s)' /\ req'[r].pc = "address"
      BY <1>4, <1>5 DEF Late
    <3> QED
      BY <3>2, <3>4, <3>5
  <2>3. torn \subseteq torn'
    BY <1>1
  <2> QED
    BY <1>1, <1>8, <2>1, <2>2, <2>3, ListedStep
<1> QED
  BY <1>8, <1>10, <1>12, <1>13, <1>14, Together


LEMMA AddressC ==
  ASSUME IInv, CInv, NEW r \in Reqs, NEW on \in BOOLEAN, NEW known \in BOOLEAN,
         Address(r, on, known)
  PROVE  CInv'
<1> DEFINE me == req[r]
           next == IF me.route = Nothing THEN "record" ELSE "route"
           host == IF known THEN me.what ELSE me.host
           sure == me.sure /\ (me.route # Nothing \/ (on /\ known))
           v == [me EXCEPT !.pc = next, !.host = host, !.sure = sure]
<1> PICK s : s = me.what
  OBVIOUS
<1>1. /\ me.pc = "address" /\ req' = [req EXCEPT ![r] = v]
      /\ dev' = IF on THEN dev \cup {s} ELSE dev
      /\ UNCHANGED <<node, scripts, routes, zone, rows, due, torn>>
  BY DEF Address
<1>2. /\ s \in Scripts /\ me.node \in Nodes /\ me.path \in Paths
      /\ me.route \in Routes \cup {Nothing} /\ me.host \in Hosts /\ Fresh(me)
  BY <1>1 DEF CInv, Placed, Deploying
<1>3. me = [f \in Fields |-> me[f]]
  BY DEF IInv, Shape
<1>4. /\ next \in {"record", "route"}
      /\ next = "route" => me.route \in Routes
      /\ next = "record" => me.route = Nothing
  BY <1>2
<1>5. host \in Hosts
  BY <1>2 DEF Hosts
<1>6. /\ sure => me.sure
      /\ sure /\ next = "record" => on /\ host = s
  OBVIOUS
<1> HIDE DEF next, host, sure
<1>7. /\ v.pc = next /\ v.what = s /\ v.node = me.node /\ v.route = me.route
      /\ v.host = host /\ v.path = me.path /\ v.sure = sure /\ v.clean = me.clean
  BY <1>3 DEF Fields
<1> HIDE DEF v
<1>8. req'[r] = v /\ \A x \in Reqs \ {r} : req'[x] = req[x]
  BY <1>1, OthersSame
<1>9. /\ \A c : KeptUp(c)
      /\ \A x \in Reqs \ {r} : Still(x)
  BY <1>1, <1>8, SameStill, NothingTouched
<1>10. Moved(r)
  <2>1. Placed(v)
    BY <1>2, <1>4, <1>5, <1>7 DEF Placed, Deploying
  <2>2. FreshUpload(req[r])' /\ FreshEdit(req[r])'
    BY <1>4, <1>7, <1>8 DEF FreshUpload, FreshEdit
  <2>3. FreshScript(req[r])'
    BY <1>1, <1>2, <1>6, <1>7, <1>8 DEF Fresh, FreshScript, Deploying, Apt
  <2>4. FreshHost(req[r])'
    <3> SUFFICES ASSUME v.pc = "record", v.sure PROVE Reaches(req[r].host, req[r].what)'
      BY <1>4, <1>7, <1>8 DEF FreshHost
    <3>1. s \notin Routes /\ s \in dev' /\ v.host = s
      BY <1>1, <1>2, <1>6, <1>7, ConstantsAssumption
    <3> QED
      BY <1>7, <1>8, <3>1 DEF Reaches
  <2> QED
    BY <1>8, <2>1, <2>2, <2>3, <2>4 DEF Moved, Fresh
<1>11. Types'
  BY <1>1, <1>2 DEF CInv, Types
<1>12. Serves'
  BY <1>1, <1>9, ServesStill DEF Serves
<1>13. Listed'
  <2>1. \A x \in Things : /\ There(x)' <=> There(x)
                          /\ x # s => ~Late(r, x) /\ ~Late(r, x)'
    BY <1>1, <1>7, <1>8 DEF There, Late
  <2>2. ASSUME s \in Things \ torn'
        PROVE  /\ \A y \in Reqs \ {r} : ~Late(y, s)
               /\ Late(r, s)' /\ There(s)' /\ req'[r].pc \in {"record", "route"}
    <3>1. (\A y \in Reqs \ {r} : ~Late(y, s)) /\ There(s)
      BY <1>1, <2>2, AloneThere
    <3>2. Late(r, s)' /\ req'[r].pc \in {"record", "route"}
      BY <1>4, <1>7, <1>8 DEF Late
    <3> QED
      BY <2>1, <2>2, <3>1, <3>2
  <2> QED
    BY <1>1, <1>9, <2>1, <2>2, ListedStep
<1> QED
  BY <1>9, <1>10, <1>11, <1>12, <1>13, Together

(* A route there is, of whatever script, is not taken.                     *)
LEMMA AddRouteC ==
  ASSUME IInv, CInv, NEW r \in Reqs, AddRoute(r)
  PROVE  CInv'
<1> DEFINE me == req[r]
           v == [me EXCEPT !.pc = "list", !.host = me.route]
<1> PICK s : s = me.what
  OBVIOUS
<1> PICK h : h = me.route
  OBVIOUS
<1>1. /\ me.pc = "route" /\ routes[h] = Nothing /\ routes' = [routes EXCEPT ![h] = s]
      /\ UNCHANGED <<node, scripts, dev, zone, rows, due, torn>>
  BY DEF AddRoute
<1>2. /\ s \in Scripts /\ me.node \in Nodes /\ me.path \in Paths /\ h \in Routes /\ Fresh(me)
  BY <1>1 DEF CInv, Placed, Deploying
<1>3. me = [f \in Fields |-> me[f]] /\ req = [x \in Reqs |-> req[x]]
  BY DEF IInv, Shape
<1>4. req' = [req EXCEPT ![r] = v]
  BY <1>3 DEF AddRoute
<1>5. /\ v.pc = "list" /\ v.what = s /\ v.node = me.node /\ v.route = h
      /\ v.host = h /\ v.path = me.path /\ v.sure = me.sure /\ v.clean = me.clean
  BY <1>3 DEF Fields
<1> HIDE DEF v
<1>6. req'[r] = v /\ \A x \in Reqs \ {r} : req'[x] = req[x]
  BY <1>4, OthersSame
<1>7. /\ routes' \in [Routes -> Scripts \cup {Nothing}] /\ routes'[h] = s
      /\ \A g \in Routes \ {h} : routes'[g] = routes[g]
  BY <1>1, <1>2 DEF CInv, Types
<1>8. \A c \in Scripts : KeptUp(c)
  BY <1>1, <1>7, ConstantsAssumption DEF KeptUp
<1>9. \A x \in Reqs \ {r} : Still(x)
  <2> SUFFICES ASSUME NEW x \in Reqs \ {r} PROVE Undisturbed(req[x])
    BY <1>6, SameStill
  <2>1. Deploying(req[x]) => req[x].what \in Scripts
    BY DEF CInv, Placed
  <2> QED
    BY <1>1, <1>8, <2>1 DEF Undisturbed
<1>10. Moved(r)
  <2>1. Placed(v)
    BY <1>2, <1>5 DEF Placed, Deploying, Hosts
  <2>2. FreshUpload(req[r])' /\ FreshEdit(req[r])'
    BY <1>5, <1>6 DEF FreshUpload, FreshEdit
  <2>3. FreshScript(req[r])'
    BY <1>1, <1>2, <1>5, <1>6 DEF Fresh, FreshScript, Deploying, Apt
  <2>4. FreshHost(req[r])'
    BY <1>2, <1>5, <1>6, <1>7 DEF FreshHost, Reaches
  <2> QED
    BY <1>6, <2>1, <2>2, <2>3, <2>4 DEF Moved, Fresh
<1>11. Types'
  BY <1>1, <1>7 DEF CInv, Types
<1>12. Serves'
  <2>1. \A n \in Nodes : due[n] \in Scripts \cup {Nothing}
    BY DEF CInv, Types
  <2> QED
    BY <1>1, <1>8, <2>1, ServesStill DEF Serves
<1>13. Listed'
  <2>1. \A x \in Things : /\ There(x)' <=> There(x)
                          /\ x # s => ~Late(r, x) /\ ~Late(r, x)'
    BY <1>1, <1>5, <1>6 DEF There, Late
  <2>2. ASSUME s \in Things \ torn'
        PROVE  /\ \A y \in Reqs \ {r} : ~Late(y, s)
               /\ Late(r, s)' /\ There(s)' /\ req'[r].pc = "list"
    <3>1. (\A y \in Reqs \ {r} : ~Late(y, s)) /\ There(s)
      BY <1>1, <2>2, AloneThere
    <3>2. Late(r, s)' /\ req'[r].pc = "list"
      BY <1>5, <1>6 DEF Late
    <3> QED
      BY <2>1, <2>2, <3>1, <3>2
  <2> QED
    BY <1>1, <1>9, <2>1, <2>2, ListedStep
<1> QED
  BY <1>9, <1>10, <1>11, <1>12, <1>13, Together


LEMMA ListRouteC ==
  ASSUME IInv, CInv, NEW r \in Reqs, ListRoute(r)
  PROVE  CInv'
<1> DEFINE me == req[r]
           v == [me EXCEPT !.pc = "record"]
<1> PICK s : s = me.what
  OBVIOUS
<1>1. /\ me.pc = "list" /\ rows' = rows \cup {me.route} /\ req' = [req EXCEPT ![r] = v]
      /\ UNCHANGED <<node, cloud, due, torn>>
  BY DEF ListRoute
<1>2. UNCHANGED <<scripts, dev, routes, zone>>
  BY <1>1 DEF cloud
<1>3. s \in Scripts /\ me.route \in Routes /\ Placed(me) /\ Fresh(me)
  BY <1>1 DEF CInv, Placed, Deploying
<1>4. me = [f \in Fields |-> me[f]]
  BY DEF IInv, Shape
<1>5. /\ v.pc = "record" /\ v.what = s /\ v.node = me.node /\ v.route = me.route
      /\ v.host = me.host /\ v.path = me.path /\ v.sure = me.sure /\ v.clean = me.clean
  BY <1>4 DEF Fields
<1> HIDE DEF v
<1>6. req'[r] = v /\ \A x \in Reqs \ {r} : req'[x] = req[x]
  BY <1>1, OthersSame
<1>7. \A x \in Reqs \ {r} : Still(x)
  BY <1>1, <1>2, <1>6, SameStill, NothingTouched
<1>8. Moved(r)
  <2>1. Placed(v)
    BY <1>1, <1>3, <1>5 DEF Placed, Deploying
  <2>2. FreshUpload(req[r])' /\ FreshEdit(req[r])'
    BY <1>5, <1>6 DEF FreshUpload, FreshEdit
  <2>3. FreshScript(req[r])'
    BY <1>1, <1>2, <1>3, <1>5, <1>6 DEF Fresh, FreshScript, Deploying, Apt
  <2>4. FreshHost(req[r])'
    BY <1>1, <1>2, <1>3, <1>5, <1>6 DEF Fresh, FreshHost, Deploying, Reaches
  <2> QED
    BY <1>6, <2>1, <2>2, <2>3, <2>4 DEF Moved, Fresh
<1>9. Types' /\ Serves'
  BY <1>1, <1>2 DEF CInv, Types, Serves, Served, Reaches, Speaks
<1>10. Listed'
  <2>1. \A x \in Things : /\ There(x)' <=> There(x)
                          /\ x # s => ~Late(r, x) /\ ~Late(r, x)' /\ (x \in rows' <=> x \in rows)
    <3>1. \A x \in Things : x \in rows' <=> x \in rows
      BY <1>1, <1>3, ConstantsAssumption DEF Things
    <3> QED
      BY <1>1, <1>2, <1>5, <1>6, <3>1 DEF There, Late
  <2>2. ASSUME s \in Things \ torn'
        PROVE  /\ \A y \in Reqs \ {r} : ~Late(y, s)
               /\ Late(r, s)' /\ There(s)' /\ req'[r].pc = "record"
    <3>1. (\A y \in Reqs \ {r} : ~Late(y, s)) /\ There(s)
      BY <1>1, <2>2, AloneThere
    <3>2. Late(r, s)' /\ req'[r].pc = "record"
      BY <1>5, <1>6 DEF Late
    <3> QED
      BY <1>1, <2>1, <2>2, <3>1, <3>2
  <2> QED
    BY <1>1, <1>7, <2>1, <2>2, ListedStep
<1> QED
  BY <1>7, <1>8, <1>9, <1>10, Together

LEMMA RecordC ==
  ASSUME IInv, CInv, NEW r \in Reqs, Record(r)
  PROVE  CInv'
<1> DEFINE me == req[r]
           v == [me EXCEPT !.pc = "reread"]
<1> PICK s : s = me.what
  OBVIOUS
<1>1. /\ me.pc = "record" /\ rows' = rows \cup {s} /\ req' = [req EXCEPT ![r] = v]
      /\ UNCHANGED <<node, cloud, due, torn>>
  BY DEF Record
<1>2. UNCHANGED <<scripts, dev, routes, zone>>
  BY <1>1 DEF cloud
<1>3. s \in Scripts /\ Placed(me) /\ Fresh(me)
  BY <1>1 DEF CInv, Placed, Deploying
<1>4. me = [f \in Fields |-> me[f]]
  BY DEF IInv, Shape
<1>5. /\ v.pc = "reread" /\ v.what = s /\ v.node = me.node /\ v.route = me.route
      /\ v.host = me.host /\ v.path = me.path /\ v.sure = me.sure /\ v.clean = me.clean
  BY <1>4 DEF Fields
<1> HIDE DEF v
<1>6. req'[r] = v /\ \A x \in Reqs \ {r} : req'[x] = req[x]
  BY <1>1, OthersSame
<1>7. \A x \in Reqs \ {r} : Still(x)
  BY <1>1, <1>2, <1>6, SameStill, NothingTouched
<1>8. Moved(r)
  <2>1. Placed(v)
    BY <1>1, <1>3, <1>5 DEF Placed, Deploying
  <2>2. FreshUpload(req[r])' /\ FreshEdit(req[r])'
    BY <1>5, <1>6 DEF FreshUpload, FreshEdit
  <2>3. FreshScript(req[r])'
    BY <1>1, <1>2, <1>3, <1>5, <1>6 DEF Fresh, FreshScript, Deploying, Apt
  <2>4. FreshHost(req[r])'
    BY <1>1, <1>2, <1>3, <1>5, <1>6 DEF Fresh, FreshHost, Deploying, Reaches
  <2> QED
    BY <1>6, <2>1, <2>2, <2>3, <2>4 DEF Moved, Fresh
<1>9. Types' /\ Serves'
  BY <1>1, <1>2 DEF CInv, Types, Serves, Served, Reaches, Speaks
<1>10. Listed'
  <2>1. \A x \in Things : /\ There(x)' <=> There(x)
                          /\ x # s => ~Late(r, x) /\ ~Late(r, x)' /\ (x \in rows' <=> x \in rows)
    BY <1>1, <1>2, <1>5, <1>6 DEF There, Late
  <2>2. ASSUME s \in Things \ torn'
        PROVE  /\ \A y \in Reqs \ {r} : ~Late(y, s)
               /\ Late(r, s)' /\ There(s)' /\ s \in rows' /\ req'[r].pc = "reread"
    <3>1. (\A y \in Reqs \ {r} : ~Late(y, s)) /\ There(s)
      BY <1>1, <2>2, AloneThere
    <3>2. Late(r, s)' /\ req'[r].pc = "reread"
      BY <1>5, <1>6 DEF Late
    <3> QED
      BY <1>1, <2>1, <2>2, <3>1, <3>2
  <2> QED
    BY <1>1, <1>7, <2>1, <2>2, ListedStep
<1> QED
  BY <1>7, <1>8, <1>9, <1>10, Together

LEMMA RereadC ==
  ASSUME IInv, CInv, NEW r \in Reqs, Reread(r)
  PROVE  CInv'
<1> DEFINE me == req[r]
           edit == [edge |-> Keep, protocol |-> Keep, tls |-> TRUE, kind |-> Keep, path |-> Keep,
                    host |-> me.host, sni |-> me.host, front |-> Keep, port |-> Keep]
           row == Merged(node[me.node], edit)
           v == [me EXCEPT !.pc = "write", !.row = row, !.edit = edit]
<1> PICK s : s = me.what
  OBVIOUS
<1>1. /\ me.pc = "reread" /\ node[me.node] # Nothing /\ req' = [req EXCEPT ![r] = v]
      /\ UNCHANGED <<node, cloud, rows, due, torn>>
  BY DEF Reread
<1>2. UNCHANGED <<scripts, dev, routes, zone>>
  BY <1>1 DEF cloud
<1>3. s \in Scripts /\ me.node \in Nodes /\ me.host \in Hosts /\ Placed(me) /\ Fresh(me)
  BY <1>1 DEF CInv, Placed, Deploying
<1>4. me = [f \in Fields |-> me[f]]
  BY DEF IInv, Shape
<1>5. /\ row \in NodeRows /\ row.path = node[me.node].path /\ row.host = me.host
      /\ Apt(node[me.node], me.path) => Speaks(row)
  <2>1. node[me.node] \in NodeRows
    BY <1>1, <1>3 DEF CInv, Types
  <2>2. me.host # Keep /\ me.host \in Hosts \cup {Keep}
    BY <1>3, ConstantsAssumption DEF Hosts
  <2>3. /\ edit.edge = Keep /\ edit.protocol = Keep /\ edit.tls = TRUE
        /\ edit.kind = Keep /\ edit.path = Keep /\ edit.host = me.host
        /\ edit.sni = me.host /\ edit.front = Keep /\ edit.port = Keep
    OBVIOUS
  <2> HIDE DEF edit
  <2>4. /\ row \in NodeRows
        /\ \A f \in {"edge"} \cup LinkFields :
             row[f] = IF edit[f] = Keep THEN node[me.node][f] ELSE edit[f]
    BY <2>1, <2>2, <2>3, MergedTyped
  <2>5. TRUE # Keep
    BY ConstantsAssumption
  <2>6. /\ row.protocol = node[me.node].protocol /\ row.kind = node[me.node].kind
        /\ row.path = node[me.node].path /\ row.front = node[me.node].front
        /\ row.port = node[me.node].port
        /\ row.tls = TRUE /\ row.host = me.host /\ row.sni = me.host
    BY <2>2, <2>3, <2>4, <2>5 DEF LinkFields
  <2>7. Apt(node[me.node], me.path) => Speaks(row)
    BY <2>6 DEF Apt, Speaks
  <2> QED
    BY <2>4, <2>6, <2>7
<1> HIDE DEF row, edit
<1>6. /\ v.pc = "write" /\ v.what = s /\ v.node = me.node /\ v.route = me.route /\ v.row = row
      /\ v.host = me.host /\ v.path = me.path /\ v.sure = me.sure /\ v.clean = me.clean
  BY <1>4 DEF Fields
<1> HIDE DEF v
<1>7. req'[r] = v /\ \A x \in Reqs \ {r} : req'[x] = req[x]
  BY <1>1, OthersSame
<1>8. \A x \in Reqs \ {r} : Still(x)
  BY <1>1, <1>2, <1>7, SameStill, NothingTouched
<1>9. s # Nothing
  BY <1>3, ConstantsAssumption
<1>10. Moved(r)
  <2>1. Placed(v)
    BY <1>1, <1>3, <1>5, <1>6 DEF Placed, Deploying
  <2>2. FreshUpload(req[r])' /\ FreshEdit(req[r])'
    BY <1>6, <1>7, <1>9 DEF FreshUpload, FreshEdit
  <2>3. FreshScript(req[r])'
    BY <1>1, <1>2, <1>3, <1>6, <1>7 DEF Fresh, FreshScript, Deploying, Apt
  <2>4. FreshHost(req[r])'
    <3> SUFFICES ASSUME v.clean, v.sure
                 PROVE  /\ Reaches(req[r].row.host, req[r].what)' /\ v.row.path = v.path
                        /\ Speaks(v.row)
      BY <1>6, <1>7 DEF FreshHost, Speaks
    <3>1. Reaches(me.host, me.what) /\ Apt(node[me.node], me.path)
      BY <1>1, <1>3, <1>6 DEF Fresh, FreshHost, FreshScript, Deploying
    <3>2. Reaches(req[r].row.host, req[r].what)'
      BY <1>2, <1>5, <1>6, <1>7, <3>1 DEF Reaches
    <3>3. v.row.path = v.path
      BY <1>5, <1>6, <3>1 DEF Apt
    <3> QED
      BY <1>5, <1>6, <3>1, <3>2, <3>3
  <2> QED
    BY <1>7, <2>1, <2>2, <2>3, <2>4 DEF Moved, Fresh
<1>11. Types' /\ Serves'
  BY <1>1, <1>2 DEF CInv, Types, Serves, Served, Reaches, Speaks
<1>12. Listed'
  <2>1. \A x \in Things : /\ There(x)' <=> There(x)
                          /\ x # s => ~Late(r, x) /\ ~Late(r, x)'
    BY <1>1, <1>2, <1>6, <1>7 DEF There, Late
  <2>2. ASSUME s \in Things \ torn'
        PROVE  /\ \A y \in Reqs \ {r} : ~Late(y, s)
               /\ Late(r, s)' /\ There(s)' /\ s \in rows' /\ req'[r].pc = "write"
    <3>1. (\A y \in Reqs \ {r} : ~Late(y, s)) /\ There(s) /\ s \in rows
      BY <1>1, <2>2, AloneThere
    <3>2. Late(r, s)' /\ req'[r].pc = "write"
      BY <1>6, <1>7 DEF Late
    <3> QED
      BY <1>1, <2>1, <2>2, <3>1, <3>2
  <2> QED
    BY <1>1, <1>8, <2>1, <2>2, ListedStep
<1> QED
  BY <1>8, <1>10, <1>11, <1>12, Together


-----------------------------------------------------------------------------
(* Steps of the other calls.                                               *)

LEMMA DropScriptC ==
  ASSUME IInv, CInv, NEW r \in Reqs, NEW s \in Scripts, DropScript(r, s)
  PROVE  CInv'
<1> DEFINE v == [Idle EXCEPT !.pc = "forget", !.what = s]
<1> PICK S : S = At(s)
  OBVIOUS
<1>1. /\ req[r].pc = "idle" /\ scripts' = [scripts EXCEPT ![s] = Nothing] /\ dev' = dev \ {s}
      /\ routes' = [h \in Routes |-> IF routes[h] = s THEN Nothing ELSE routes[h]]
      /\ due' = [n \in Nodes |-> IF due[n] = s THEN Nothing ELSE due[n]]
      /\ torn' = (IF At(s) = {} THEN torn ELSE torn \cup {s})
      /\ UNCHANGED <<node, zone, rows>>
  BY DEF DropScript
<1>2. req' = [Disturb(S) EXCEPT ![r] = v]
  BY DEF DropScript
<1>3. v.pc = "forget" /\ v.what = s
  BY DEF Idle
<1> HIDE DEF v
<1>4. /\ req'[r] = v
      /\ \A x \in Reqs \ {r} : /\ Keeps(req[x], req'[x])
                               /\ req'[x].clean => req[x].clean /\ x \notin S
  BY <1>2, OthersDisturbed
<1>5. /\ scripts' \in [Scripts -> Paths \cup {Nothing}] /\ scripts'[s] = Nothing
      /\ \A c \in Scripts \ {s} : scripts'[c] = scripts[c]
  BY <1>1 DEF CInv, Types
<1>6. \A c \in Scripts \ {s} : KeptUp(c)
  BY <1>1, <1>5 DEF KeptUp
<1>7. \A x \in Reqs \ {r} : Still(x)
  <2> SUFFICES ASSUME NEW x \in Reqs \ {r}, req'[x].clean
               PROVE  Undisturbed(req[x])
    BY <1>4 DEF Still
  <2>1. req[x].what # s
    BY <1>4 DEF At
  <2>2. Deploying(req[x]) => req[x].what \in Scripts
    BY DEF CInv, Placed
  <2> QED
    BY <1>1, <1>6, <2>1, <2>2 DEF Undisturbed
<1>8. Moved(r)
  BY <1>3, <1>4 DEF Moved, Placed, Fresh, FreshUpload, FreshScript, FreshHost, FreshEdit,
                    Deploying, Things
<1>9. /\ due' \in [Nodes -> Scripts \cup {Nothing}]
      /\ \A n \in Nodes : due'[n] # Nothing => due'[n] = due[n] /\ due[n] \in Scripts \ {s}
  BY <1>1 DEF CInv, Types
<1>10. Types'
  <2>1. routes' \in [Routes -> Scripts \cup {Nothing}]
    BY <1>1 DEF CInv, Types
  <2> QED
    BY <1>1, <1>5, <1>9, <2>1 DEF CInv, Types
<1>11. Serves'
  BY <1>1, <1>6, <1>9, ServesStill DEF Serves
<1>12. Listed'
  <2>1. \A x \in Things : x # s => /\ There(x)' <=> There(x)
                                   /\ ~Late(r, x) /\ ~Late(r, x)'
    <3>1. req[r].what = Nothing
      BY <1>1 DEF CInv, Placed
    <3> QED
      BY <1>1, <1>3, <1>4, <1>5, <3>1, ConstantsAssumption DEF There, Late, Things
  <2>2. ASSUME s \notin torn'
        PROVE  /\ \A y \in Reqs \ {r} : ~Late(y, s)
               /\ Late(r, s)' /\ ~There(s)' /\ req'[r].pc = "forget"
    <3>1. \A y \in Reqs : ~Late(y, s)
      BY <1>1, <2>2 DEF At, Late
    <3>2. s \notin zone'
      BY <1>1, ConstantsAssumption DEF CInv, Types
    <3>3. ~There(s)'
      BY <1>5, <3>2 DEF There
    <3>4. Late(r, s)' /\ req'[r].pc = "forget"
      BY <1>3, <1>4 DEF Late
    <3> QED
      BY <3>1, <3>3, <3>4
  <2> QED
    BY <1>1, <1>7, <2>1, <2>2, ListedStep
<1> QED
  BY <1>7, <1>8, <1>10, <1>11, <1>12, Together

(* Handler r begins at record d, which no script depends on, as v.         *)
Begun(r, d, v) ==
    /\ req[r].pc = "idle" /\ req' = [req EXCEPT ![r] = v]
    /\ v.pc \in {"remember", "forget"} /\ v.what = d
    /\ zone' \subseteq Records /\ (d \in zone' <=> v.pc = "remember")
    /\ \A x \in Things : x # d => (x \in zone' <=> x \in zone)
    /\ torn \subseteq torn' /\ (d \notin torn' => At(d) = {})
    /\ UNCHANGED <<node, scripts, dev, routes, rows, due>>

LEMMA RecordBegun ==
  ASSUME IInv, CInv, NEW r \in Reqs, NEW d \in Records, NEW v, Begun(r, d, v)
  PROVE  CInv'
<1> USE DEF Begun
<1>1. req'[r] = v /\ \A x \in Reqs \ {r} : req'[x] = req[x]
  BY OthersSame
<1>2. \A x \in Reqs \ {r} : Still(x)
  BY <1>1, SameStill, NothingTouched
<1>3. Moved(r)
  BY <1>1 DEF Moved, Placed, Fresh, FreshUpload, FreshScript, FreshHost, FreshEdit,
              Deploying, Things
<1>4. Types' /\ Serves'
  BY DEF CInv, Types, Serves, Served, Reaches, Speaks
<1>5. Listed'
  <2>1. req[r].what = Nothing
    BY DEF CInv, Placed
  <2>2. \A x \in Things : x # d => /\ There(x)' <=> There(x)
                                   /\ ~Late(r, x) /\ ~Late(r, x)'
    BY <1>1, <2>1, ConstantsAssumption DEF There, Late, Things
  <2>3. There(d)' <=> d \in zone'
    BY ConstantsAssumption DEF There
  <2>4. d \notin torn' => \A y \in Reqs : ~Late(y, d)
    BY DEF At, Late
  <2>5. Late(r, d)' /\ req'[r].pc = v.pc
    BY <1>1 DEF Late
  <2> QED
    BY <1>2, <2>2, <2>3, <2>4, <2>5, ListedStep
<1> QED
  BY <1>2, <1>3, <1>4, <1>5, Together

LEMMA CreateRecordC ==
  ASSUME IInv, CInv, NEW r \in Reqs, NEW d \in Records, CreateRecord(r, d)
  PROVE  CInv'
<1> DEFINE v == [Idle EXCEPT !.pc = "remember", !.what = d]
<1>1. /\ At(d) = {} /\ req[r].pc = "idle" /\ req' = [req EXCEPT ![r] = v] /\ zone' = zone \cup {d}
      /\ UNCHANGED <<node, scripts, dev, routes, rows, due, torn>>
  BY DEF CreateRecord, Begin
<1>2. v.pc = "remember" /\ v.what = d
  BY DEF Idle
<1> HIDE DEF v
<1>3. zone' \subseteq Records
  BY <1>1 DEF CInv, Types
<1>4. Begun(r, d, v)
  BY <1>1, <1>2, <1>3 DEF Begun
<1> QED
  BY <1>4, RecordBegun

LEMMA DropRecordC ==
  ASSUME IInv, CInv, NEW r \in Reqs, NEW d \in Records, DropRecord(r, d)
  PROVE  CInv'
<1> DEFINE v == [Idle EXCEPT !.pc = "forget", !.what = d]
<1>1. /\ req[r].pc = "idle" /\ req' = [req EXCEPT ![r] = v] /\ zone' = zone \ {d}
      /\ torn' = (IF At(d) = {} THEN torn ELSE torn \cup {d})
      /\ UNCHANGED <<node, scripts, dev, routes, rows, due>>
  BY DEF DropRecord, Begin
<1>2. v.pc = "forget" /\ v.what = d
  BY DEF Idle
<1> HIDE DEF v
<1>3. zone' \subseteq Records
  BY <1>1 DEF CInv, Types
<1>4. Begun(r, d, v)
  BY <1>1, <1>2, <1>3 DEF Begun
<1> QED
  BY <1>4, RecordBegun

(* A handler that has come to its end, and what that leaves alone.         *)
LEMMA Ended ==
  ASSUME IInv, CInv, NEW r \in Reqs, req' = [req EXCEPT ![r] = Idle],
         UNCHANGED <<node, cloud, due>>
  PROVE  /\ \A x \in Reqs \ {r} : Still(x)
         /\ Moved(r) /\ Types' /\ Serves'
         /\ \A x \in Things : (There(x)' <=> There(x)) /\ ~Late(r, x)'
<1>1. UNCHANGED <<scripts, dev, routes, zone>>
  BY DEF cloud
<1>2. req'[r] = Idle /\ \A x \in Reqs \ {r} : req'[x] = req[x]
  BY OthersSame
<1>3. \A x \in Reqs \ {r} : Still(x)
  BY <1>1, <1>2, SameStill, NothingTouched
<1>4. Moved(r)
  BY <1>2 DEF Moved, Placed, Fresh, FreshUpload, FreshScript, FreshHost, FreshEdit,
              Deploying, Idle
<1>5. Types' /\ Serves'
  BY <1>1 DEF CInv, Types, Serves, Served, Reaches, Speaks
<1>6. \A x \in Things : (There(x)' <=> There(x)) /\ ~Late(r, x)'
  BY <1>1, <1>2, ConstantsAssumption DEF There, Late, Things, Idle
<1> QED
  BY <1>3, <1>4, <1>5, <1>6

LEMMA RememberC ==
  ASSUME IInv, CInv, NEW r \in Reqs, Remember(r) \/ Forget(r)
  PROVE  CInv'
<1> PICK t : t = req[r].what
  OBVIOUS
<1>1. /\ \/ req[r].pc = "remember" /\ rows' = rows \cup {t}
         \/ req[r].pc = "forget" /\ rows' = rows \ {t}
      /\ req' = [req EXCEPT ![r] = Idle] /\ UNCHANGED <<node, cloud, due, torn>>
  BY DEF Remember, Forget
<1>2. /\ \A x \in Reqs \ {r} : Still(x)
      /\ Moved(r) /\ Types' /\ Serves'
      /\ \A x \in Things : (There(x)' <=> There(x)) /\ ~Late(r, x)'
  BY <1>1, Ended
<1>3. Listed'
  <2>1. \A x \in Things : x # t => ~Late(r, x) /\ (x \in rows' <=> x \in rows)
    BY <1>1 DEF Late
  <2>2. ASSUME t \in Things \ torn'
        PROVE  (\A y \in Reqs \ {r} : ~Late(y, t)) /\ (t \in rows' <=> There(t)')
    BY <1>1, <1>2, <2>2, AloneThere
  <2> QED
    BY <1>1, <1>2, <2>1, <2>2, ListedStep
<1> QED
  BY <1>2, <1>3, Together

LEMMA AbortC ==
  ASSUME IInv, CInv, NEW r \in Reqs, Abort(r)
  PROVE  CInv'
<1> PICK t : t = (IF req[r].pc = "upload" THEN Nothing ELSE req[r].what)
  OBVIOUS
<1>1. /\ req[r].pc # "idle" /\ req' = [req EXCEPT ![r] = Idle]
      /\ torn \subseteq torn'
      /\ req[r].pc \in {"address", "route", "list", "record", "remember", "forget"} =>
            req[r].what \in torn'
      /\ UNCHANGED <<node, cloud, rows, due>>
  BY DEF Abort
<1>2. /\ \A x \in Reqs \ {r} : Still(x)
      /\ Moved(r) /\ Types' /\ Serves'
      /\ \A x \in Things : (There(x)' <=> There(x)) /\ ~Late(r, x)'
  BY <1>1, Ended
<1>3. Listed'
  <2>1. \A x \in Things : x # t => ~Late(r, x)
    BY DEF Late
  <2>2. ASSUME t \in Things \ torn'
        PROVE  (\A y \in Reqs \ {r} : ~Late(y, t)) /\ (t \in rows' <=> There(t)')
    <3>1. t # Nothing
      BY <2>2, ConstantsAssumption DEF Things
    <3>2. req[r].pc # "upload" /\ t = req[r].what
      BY <3>1
    <3>3. req[r].pc \in {"reread", "write"}
      BY <1>1, <2>2, <3>2 DEF CInv, Placed
    <3>4. t \in Things \ torn
      BY <1>1, <2>2
    <3>5. (\A y \in Reqs \ {r} : ~Late(y, t)) /\ There(t) /\ t \in rows
      BY <3>2, <3>3, <3>4, AloneThere
    <3> QED
      BY <1>1, <1>2, <3>4, <3>5
  <2>3. torn \subseteq torn'
    BY <1>1
  <2> QED
    BY <1>1, <1>2, <2>1, <2>2, <2>3, ListedStep
<1> QED
  BY <1>2, <1>3, Together


-----------------------------------------------------------------------------
(* The invariant is inductive.                                             *)

LEMMA InitC == Init => CInv
<1> SUFFICES ASSUME Init PROVE CInv
  OBVIOUS
<1>1. Types /\ Serves
  BY DEF Init, Types, Serves
<1>2. \A r \in Reqs : req[r] = Idle /\ req[r].pc = "idle" /\ req[r].what = Nothing
  BY DEF Init, Idle
<1>3. \A r \in Reqs : Placed(req[r]) /\ Fresh(req[r])
  BY <1>2 DEF Placed, Fresh, FreshUpload, FreshScript, FreshHost, FreshEdit, Deploying
<1>4. Listed
  <2>1. \A x \in Things : x \notin rows /\ ~There(x) /\ \A r \in Reqs : ~Late(r, x)
    BY <1>2, ConstantsAssumption DEF Init, There, Late, Things
  <2> QED
    BY <2>1 DEF Listed, ListedAt
<1> QED
  BY <1>1, <1>3, <1>4 DEF CInv

LEMMA StutterC ==
  ASSUME CInv, UNCHANGED vars
  PROVE  CInv'
<1>1. UNCHANGED <<node, scripts, dev, routes, zone, rows, req, due, torn>>
  BY DEF vars
<1>2. \A x \in Reqs : Still(x)
  BY <1>1, SameStill, NothingTouched
<1>3. Types' /\ Serves'
  BY <1>1 DEF CInv, Types, Serves, Served, Reaches, Speaks
<1>4. Listed'
  BY <1>1, <1>2, ListedQuiet
<1> QED
  BY <1>2, <1>3, <1>4, Together

LEMMA StepC == IInv /\ CInv /\ [Next]_vars => CInv'
<1> SUFFICES ASSUME IInv, CInv, [Next]_vars PROVE CInv'
  OBVIOUS
<1>1. CASE UNCHANGED vars
  BY <1>1, StutterC
<1>2. ASSUME NEW n \in Nodes, NEW draft \in Drafts, CreateNode(n, draft) PROVE CInv'
  BY <1>2, CreateNodeC
<1>3. ASSUME NEW n \in Nodes, DeleteNode(n) PROVE CInv'
  BY <1>3, DeleteNodeC
<1>4. ASSUME NEW r \in Reqs, NEW n \in Nodes, NEW edit \in Edits, EditRead(r, n, edit) PROVE CInv'
  BY <1>4, EditReadC
<1>5. ASSUME NEW r \in Reqs, NEW n \in Nodes, NEW s \in Scripts, NEW h \in Routes \cup {Nothing},
             Deploy(r, n, s, h)
      PROVE  CInv'
  BY <1>5, DeployC
<1>6. ASSUME NEW r \in Reqs, NEW on \in BOOLEAN, NEW known \in BOOLEAN, Address(r, on, known)
      PROVE  CInv'
  BY <1>6, AddressC
<1>7. ASSUME NEW r \in Reqs, NEW s \in Scripts, DropScript(r, s) PROVE CInv'
  BY <1>7, DropScriptC
<1>8. ASSUME NEW r \in Reqs, NEW d \in Records, CreateRecord(r, d) \/ DropRecord(r, d) PROVE CInv'
  BY <1>8, CreateRecordC, DropRecordC
<1>9. ASSUME NEW r \in Reqs, WriteNode(r) \/ Upload(r) \/ AddRoute(r) PROVE CInv'
  BY <1>9, WriteNodeC, UploadC, AddRouteC
<1>10. ASSUME NEW r \in Reqs, ListRoute(r) \/ Record(r) \/ Reread(r) \/ Abort(r) PROVE CInv'
  BY <1>10, ListRouteC, RecordC, RereadC, AbortC
<1>11. ASSUME NEW r \in Reqs, Remember(r) \/ Forget(r) PROVE CInv'
  BY <1>11, RememberC
<1> QED
  BY <1>1, <1>2, <1>3, <1>4, <1>5, <1>6, <1>7, <1>8, <1>9, <1>10, <1>11 DEF Next

(* The inductive invariant: rows and locals as validated, what handlers    *)
(* that have been alone know, and what is listed of things not torn.       *)
THEOREM Invariance == Spec => [](IInv /\ CInv)
<1>1. Init => IInv /\ CInv
  BY InitInv, InitC
<1>2. IInv /\ CInv /\ [Next]_vars => (IInv /\ CInv)'
  BY StepInv, StepC
<1> QED
  BY <1>1, <1>2, PTL DEF Spec

-----------------------------------------------------------------------------
(* Routes, whose rows come after them and are never removed.               *)

(* Who has added a route has yet to list it. *)
RInv ==
    \A h \in Routes \ torn :
        routes[h] # Nothing => \/ h \in rows
                              \/ \E r \in Reqs : req[r].pc = "list" /\ req[r].route = h

(* A step that adds no route and takes no row of one, after which those    *)
(* who are about to list one still are.                                    *)
LEMMA RoutesKept ==
  ASSUME RInv, torn \subseteq torn',
         \A h \in Routes : /\ h \in rows => h \in rows'
                           /\ routes'[h] # Nothing => routes[h] # Nothing,
         \A x \in Reqs : req[x].pc = "list" =>
            \/ req'[x].pc = "list" /\ req'[x].route = req[x].route
            \/ req[x].route \in rows' \cup torn'
  PROVE  RInv'
  BY DEF RInv

(* The others stay where they are. *)
LEMMA OthersStay ==
  ASSUME IInv, NEW base, base = req \/ (\E S : base = Disturb(S)),
         NEW r \in Reqs, NEW v, req' = [base EXCEPT ![r] = v]
  PROVE  /\ req'[r] = v
         /\ \A x \in Reqs \ {r} : req'[x].pc = req[x].pc /\ req'[x].route = req[x].route
<1>1. CASE base = req
  BY <1>1, OthersSame
<1>2. CASE \E S : base = Disturb(S)
  <2>1. PICK S : base = Disturb(S)
    BY <1>2
  <2>2. req' = [Disturb(S) EXCEPT ![r] = v]
    BY <2>1
  <2>3. req'[r] = v /\ \A x \in Reqs \ {r} : Keeps(req[x], req'[x])
    BY <2>2, OthersDisturbed
  <2> QED
    BY <2>3 DEF Keeps
<1> QED
  BY <1>1, <1>2

(* A step of a handler that is not about to list a route. *)
LEMMA RoutesStep ==
  ASSUME IInv, RInv, NEW base, base = req \/ (\E S : base = Disturb(S)),
         NEW r \in Reqs, NEW v, req' = [base EXCEPT ![r] = v],
         req[r].pc # "list", torn \subseteq torn',
         \A h \in Routes : /\ h \in rows => h \in rows'
                           /\ routes'[h] # Nothing => routes[h] # Nothing
  PROVE  RInv'
<1>1. \A x \in Reqs \ {r} : req'[x].pc = req[x].pc /\ req'[x].route = req[x].route
  BY OthersStay
<1> QED
  BY <1>1, RoutesKept

LEMMA AtNodeR ==
  ASSUME IInv, CInv, RInv,
         NEW n \in Nodes, (\E draft \in Drafts : CreateNode(n, draft)) \/ DeleteNode(n)
  PROVE  RInv'
<1>1. UNCHANGED <<routes, rows, torn>> /\ (req' = req \/ \E S : req' = Disturb(S))
  BY DEF CreateNode, DeleteNode, cloud
<1>2. \A x \in Reqs : req'[x].pc = req[x].pc /\ req'[x].route = req[x].route
  BY <1>1, Disturbed DEF Keeps
<1> QED
  BY <1>1, <1>2, RoutesKept

LEMMA BeginR ==
  ASSUME IInv, RInv, NEW r \in Reqs, NEW locals, Begin(r, locals),
         UNCHANGED <<routes, rows>>, torn \subseteq torn'
  PROVE  RInv'
<1>1. req[r].pc = "idle" /\ req' = [req EXCEPT ![r] = locals]
  BY DEF Begin
<1> QED
  BY <1>1, RoutesStep

LEMMA DeployR ==
  ASSUME IInv, RInv, NEW r \in Reqs, Upload(r) \/ Record(r) \/ Reread(r) \/ WriteNode(r)
  PROVE  RInv'
<1>1. /\ req[r].pc # "list" /\ UNCHANGED routes /\ rows \subseteq rows' /\ torn \subseteq torn'
  BY DEF Upload, Record, Reread, WriteNode, cloud
<1>2. \E base, v : /\ base = req \/ (\E S : base = Disturb(S))
                   /\ req' = [base EXCEPT ![r] = v]
  <2>1. CASE Upload(r)
    <3> DEFINE base == Disturb(At(req[r].what) \ {r})
    <3>1. req' = [base EXCEPT ![r] = [base[r] EXCEPT !.pc = "address"]]
      BY <2>1 DEF Upload
    <3>2. \E S : base = Disturb(S)
      OBVIOUS
    <3> QED
      BY <3>1, <3>2
  <2>2. CASE Record(r)
    <3>1. req' = [req EXCEPT ![r] = [req[r] EXCEPT !.pc = "reread"]]
      BY <2>2 DEF Record
    <3> QED
      BY <3>1
  <2>3. CASE Reread(r)
    BY <2>3 DEF Reread
  <2>4. CASE WriteNode(r)
    <3> DEFINE base == Disturb(AtNode(req[r].node))
    <3>1. req' = [base EXCEPT ![r] = Idle] /\ \E S : base = Disturb(S)
      BY <2>4 DEF WriteNode
    <3> QED
      BY <3>1
  <2> QED
    BY <2>1, <2>2, <2>3, <2>4
<1>3. PICK base, v : /\ base = req \/ (\E S : base = Disturb(S))
                     /\ req' = [base EXCEPT ![r] = v]
  BY <1>2
<1> QED
  BY <1>1, <1>3, RoutesStep

LEMMA AddressR ==
  ASSUME IInv, RInv, NEW r \in Reqs, NEW on \in BOOLEAN, NEW known \in BOOLEAN,
         Address(r, on, known)
  PROVE  RInv'
<1> DEFINE next == IF req[r].route = Nothing THEN "record" ELSE "route"
           host == IF known THEN req[r].what ELSE req[r].host
           sure == req[r].sure /\ (req[r].route # Nothing \/ (on /\ known))
           v == [req[r] EXCEPT !.pc = next, !.host = host, !.sure = sure]
<1>1. /\ req[r].pc = "address" /\ req' = [req EXCEPT ![r] = v]
      /\ UNCHANGED <<routes, rows, torn>>
  BY DEF Address
<1> HIDE DEF v
<1> QED
  BY <1>1, RoutesStep

(* Who adds a route goes on to list it... *)
LEMMA AddRouteR ==
  ASSUME IInv, CInv, RInv, NEW r \in Reqs, AddRoute(r)
  PROVE  RInv'
<1> DEFINE me == req[r]
           v == [me EXCEPT !.pc = "list", !.host = me.route]
<1> PICK h : h = me.route
  OBVIOUS
<1>1. /\ me.pc = "route" /\ routes' = [routes EXCEPT ![h] = me.what]
      /\ UNCHANGED <<rows, torn>>
  BY DEF AddRoute
<1>2. me = [f \in Fields |-> me[f]] /\ req = [x \in Reqs |-> req[x]]
  BY DEF IInv, Shape
<1>3. req' = [req EXCEPT ![r] = v]
  BY <1>2 DEF AddRoute
<1>4. v.pc = "list" /\ v.route = h
  BY <1>2 DEF Fields
<1> HIDE DEF v
<1>5. req'[r] = v /\ \A x \in Reqs \ {r} : req'[x] = req[x]
  BY <1>3, OthersSame
<1>6. \A g \in Routes \ {h} : routes'[g] = routes[g]
  BY <1>1 DEF CInv, Types
<1> SUFFICES ASSUME NEW g \in Routes \ torn, routes'[g] # Nothing
             PROVE  \/ g \in rows
                    \/ \E x \in Reqs : req'[x].pc = "list" /\ req'[x].route = g
  BY <1>1 DEF RInv
<1>7. CASE g = h
  BY <1>4, <1>5, <1>7
<1>8. CASE g # h
  <2>1. \/ g \in rows
        \/ \E x \in Reqs : req[x].pc = "list" /\ req[x].route = g
    BY <1>6, <1>8 DEF RInv
  <2> QED
    BY <1>1, <1>5, <2>1
<1> QED
  BY <1>7, <1>8

(* ...and does so. *)
LEMMA ListRouteR ==
  ASSUME IInv, RInv, NEW r \in Reqs, ListRoute(r)
  PROVE  RInv'
<1> DEFINE v == [req[r] EXCEPT !.pc = "record"]
<1>1. /\ req' = [req EXCEPT ![r] = v] /\ rows' = rows \cup {req[r].route}
      /\ UNCHANGED <<routes, torn>>
  BY DEF ListRoute, cloud
<1> HIDE DEF v
<1>2. \A x \in Reqs \ {r} : req'[x] = req[x]
  BY <1>1, OthersSame
<1> QED
  BY <1>1, <1>2, RoutesKept

LEMMA DropScriptR ==
  ASSUME IInv, RInv, NEW r \in Reqs, NEW s \in Scripts, DropScript(r, s)
  PROVE  RInv'
<1> DEFINE base == Disturb(At(s))
           v == [Idle EXCEPT !.pc = "forget", !.what = s]
<1>1. /\ req[r].pc = "idle" /\ req' = [base EXCEPT ![r] = v]
      /\ routes' = [h \in Routes |-> IF routes[h] = s THEN Nothing ELSE routes[h]]
      /\ torn \subseteq torn' /\ rows' = rows
  BY DEF DropScript
<1>2. \E S : base = Disturb(S)
  OBVIOUS
<1>3. \A h \in Routes : routes'[h] # Nothing => routes[h] # Nothing
  BY <1>1
<1> HIDE DEF base, v
<1> QED
  BY <1>1, <1>2, <1>3, RoutesStep

(* Only rows of scripts and records are removed. *)
LEMMA RememberR ==
  ASSUME IInv, CInv, RInv, NEW r \in Reqs, Remember(r) \/ Forget(r)
  PROVE  RInv'
<1>1. /\ req[r].pc \in {"remember", "forget"} /\ rows \ {req[r].what} \subseteq rows'
      /\ req' = [req EXCEPT ![r] = Idle] /\ UNCHANGED <<routes, torn>>
  BY DEF Remember, Forget, cloud
<1>2. req[r].what \notin Routes
  BY <1>1, ConstantsAssumption DEF CInv, Placed, Things
<1> QED
  BY <1>1, <1>2, RoutesStep

LEMMA AbortR ==
  ASSUME IInv, RInv, NEW r \in Reqs, Abort(r)
  PROVE  RInv'
<1>1. /\ req' = [req EXCEPT ![r] = Idle] /\ UNCHANGED <<routes, rows>> /\ torn \subseteq torn'
      /\ req[r].pc = "list" => req[r].route \in torn'
  BY DEF Abort, cloud
<1>2. \A x \in Reqs \ {r} : req'[x] = req[x]
  BY <1>1, OthersSame
<1> QED
  BY <1>1, <1>2, RoutesKept

LEMMA StepR == IInv /\ CInv /\ RInv /\ [Next]_vars => RInv'
<1> SUFFICES ASSUME IInv, CInv, RInv, [Next]_vars PROVE RInv'
  OBVIOUS
<1>1. CASE UNCHANGED vars
  BY <1>1, RoutesKept DEF vars
<1>2. ASSUME NEW n \in Nodes, (\E draft \in Drafts : CreateNode(n, draft)) \/ DeleteNode(n)
      PROVE  RInv'
  BY <1>2, AtNodeR
<1>3. ASSUME NEW r \in Reqs, NEW n \in Nodes, NEW edit \in Edits, EditRead(r, n, edit) PROVE RInv'
  <2>1. UNCHANGED <<routes, rows, torn>>
    BY <1>3 DEF EditRead, cloud
  <2> QED
    BY <1>3, <2>1, BeginR DEF EditRead
<1>4. ASSUME NEW r \in Reqs, NEW n \in Nodes, NEW s \in Scripts, NEW h \in Routes \cup {Nothing},
             Deploy(r, n, s, h)
      PROVE  RInv'
  <2>1. UNCHANGED <<routes, rows, torn>>
    BY <1>4 DEF Deploy, cloud
  <2> QED
    BY <1>4, <2>1, BeginR DEF Deploy
<1>5. ASSUME NEW r \in Reqs, NEW on \in BOOLEAN, NEW known \in BOOLEAN, Address(r, on, known)
      PROVE  RInv'
  BY <1>5, AddressR
<1>6. ASSUME NEW r \in Reqs, NEW s \in Scripts, DropScript(r, s) PROVE RInv'
  BY <1>6, DropScriptR
<1>7. ASSUME NEW r \in Reqs, NEW d \in Records, CreateRecord(r, d) \/ DropRecord(r, d) PROVE RInv'
  <2>1. /\ UNCHANGED <<routes, rows>> /\ torn \subseteq torn'
        /\ \E locals : Begin(r, locals)
    BY <1>7 DEF CreateRecord, DropRecord
  <2> QED
    BY <2>1, BeginR
<1>8. ASSUME NEW r \in Reqs, WriteNode(r) \/ Upload(r) \/ Record(r) \/ Reread(r) PROVE RInv'
  BY <1>8, DeployR
<1>9. ASSUME NEW r \in Reqs, AddRoute(r) \/ ListRoute(r) \/ Abort(r) PROVE RInv'
  BY <1>9, AddRouteR, ListRouteR, AbortR
<1>10. ASSUME NEW r \in Reqs, Remember(r) \/ Forget(r) PROVE RInv'
  BY <1>10, RememberR
<1> QED
  BY <1>1, <1>2, <1>3, <1>4, <1>5, <1>6, <1>7, <1>8, <1>9, <1>10 DEF Next

LEMMA RoutesListed == Spec => []RInv
<1>1. Init => RInv
  BY DEF Init, RInv
<1> QED
  BY <1>1, StepR, Invariance, PTL DEF Spec

-----------------------------------------------------------------------------
(* POST /endpoints/deploy: a node deployed without interference, at an     *)
(* address that came up and with a path, at a port of TLS and without a    *)
(* transport.host, hands out links that reach its script at the path it    *)
(* answers, speak its protocol and name its host; until it is deployed     *)
(* again, its script is dropped or taken over, or an edit asks for         *)
(* something else or writes back what it read before.                      *)
THEOREM LinksReachScripts == Spec => []ServedWorks
<1>1. CInv => ServedWorks
  <2> SUFFICES ASSUME CInv, NEW n \in Nodes, due[n] # Nothing
               PROVE  LET s == IF node[n].host \in Routes THEN routes[node[n].host]
                               ELSE node[n].host IN
                      /\ s = due[n]
                      /\ node[n].host \in dev \cup Routes
                      /\ scripts[s] = node[n].path
                      /\ Speaks(node[n])
    BY DEF ServedWorks
  <2>1. /\ Reaches(node[n].host, due[n]) /\ scripts[due[n]] = node[n].path
        /\ Speaks(node[n])
    BY DEF CInv, Serves, Served
  <2> QED
    BY <2>1 DEF Reaches
<1> QED
  BY <1>1, Invariance, PTL

(* cf_resources lists what there is at Cloudflare, and nothing else but    *)
(* the routes of scripts since deleted; except of names whose calls failed *)
(* halfway, overlapped, or are under way.                                  *)
THEOREM ListMatchesAccount == Spec => []RowsMatchCloud
<1>1. CInv /\ RInv => RowsMatchCloud
  <2> SUFFICES ASSUME CInv, RInv, NEW x \in (Scripts \cup Routes \cup Records) \ torn,
                      At(x) = {}, Listing(x) = {}
               PROVE  (x \in Present => x \in rows) /\ (x \in rows => x \in Present \cup Routes)
    BY DEF RowsMatchCloud
  <2>1. CASE x \in Routes
    <3>1. x \in Present => routes[x] # Nothing
      BY <2>1, ConstantsAssumption DEF Present, CInv, Types
    <3>2. ~ \E r \in Reqs : req[r].pc = "list" /\ req[r].route = x
      BY DEF Listing
    <3> QED
      BY <2>1, <3>1, <3>2 DEF RInv
  <2>2. CASE x \in Things
    <3>1. ListedAt(x) /\ \A r \in Reqs : ~Late(r, x)
      BY <2>2 DEF CInv, Listed, At, Late
    <3>2. There(x) <=> x \in Present
      BY <2>2, ConstantsAssumption DEF There, Present, Things
    <3> QED
      BY <3>1, <3>2 DEF ListedAt
  <2> QED
    BY <2>1, <2>2 DEF Things
<1> QED
  BY <1>1, Invariance, RoutesListed, PTL

-----------------------------------------------------------------------------
(* The network around the nodes (Network), for any rows, values, handlers  *)
(* and number of edits.                                                    *)

(* What a handler carries, and what the history remembers. *)
Carried == {"pc", "row", "edit", "new", "alone", "left", "moved"}
Kept == {"primary", "url", "secret", "half", "moved"}

Locals ==
    /\ editor = [r \in Editors |-> editor[r]]
    /\ \A r \in Editors : editor[r] = [f \in Carried |-> editor[r][f]] /\ editor[r].alone \in BOOLEAN
History == expected = [f \in Kept |-> expected[f]]

(* Where handlers of each kind are between two statements. *)
AtServers == {"clear", "insert", "update"}
AtBackends == {"backend"}
AtRules == {"rule", "wipe", "import"}
AtChains == {"hops"}

(* A handler goes on as before, or learns that it is not alone. *)
Follows(x) ==
    /\ editor'[x].pc = editor[x].pc /\ editor'[x].row = editor[x].row
    /\ editor'[x].edit = editor[x].edit /\ editor'[x].new = editor[x].new
    /\ editor'[x].left = editor[x].left /\ editor'[x].moved = editor[x].moved
    /\ editor'[x].alone => editor[x].alone
Others(r) == \A x \in Editors \ {r} : Follows(x)

(* Handlers that a step leaves at the places P were there before. *)
Untouched(P) == \A x \in Editors : editor'[x].pc \in P => Follows(x)

(* A handler that is idle carries everything a handler carries.            *)
LEMMA IdleCarried ==
    /\ Net!Idle = [f \in Carried |-> Net!Idle[f]]
    /\ Net!Idle.pc = "idle" /\ Net!Idle.alone = TRUE /\ Net!Idle.left = <<>> /\ Net!Idle.moved = {}
    /\ Net!Idle.new = FALSE
  BY DEF Net!Idle, Carried

(* A handler that begins leaves the others as they are.                    *)
LEMMA Beginning ==
    ASSUME Locals, NEW r \in Editors, NEW pc, NEW row, NEW edit, Net!Begin(r, pc, row, edit)
    PROVE  /\ Locals' /\ Others(r)
           /\ editor[r].pc = "idle" /\ editor'[r].pc = pc /\ editor'[r].row = row
           /\ editor'[r].edit = edit /\ editor'[r].alone = TRUE
<1> DEFINE new == [Net!Idle EXCEPT !.pc = pc, !.row = row, !.edit = edit]
<1>1. editor' = [editor EXCEPT ![r] = new] /\ editor[r].pc = "idle" BY DEF Net!Begin
<1>2. new = [f \in Carried |-> new[f]] /\ new.pc = pc /\ new.row = row /\ new.edit = edit
      /\ new.alone = TRUE
  BY IdleCarried DEF Carried
<1> HIDE DEF new
<1>3. editor'[r] = new /\ \A x \in Editors \ {r} : editor'[x] = editor[x]
  BY <1>1 DEF Locals
<1>4. editor' = [x \in Editors |-> editor'[x]] BY <1>1 DEF Locals
<1>5. Locals' BY <1>2, <1>3, <1>4 DEF Locals
<1> QED BY <1>1, <1>2, <1>3, <1>5 DEF Others, Follows

(* So does one that ends.                                                  *)
LEMMA Ending ==
    ASSUME Locals, NEW r \in Editors, editor' = [editor EXCEPT ![r] = Net!Idle]
    PROVE  Locals' /\ Others(r) /\ editor'[r].pc = "idle"
<1>3. editor'[r] = Net!Idle /\ \A x \in Editors \ {r} : editor'[x] = editor[x]
  BY DEF Locals
<1>4. editor' = [x \in Editors |-> editor'[x]] BY DEF Locals
<1>5. Locals' BY IdleCarried, <1>3, <1>4 DEF Locals
<1> QED BY <1>3, <1>5, IdleCarried DEF Others, Follows

(* Disturbing handlers tells them only that they are not alone.            *)
LEMMA DisturbedAlone ==
    ASSUME Locals, NEW S
    PROVE  LET new == Net!Disturb(S) IN
           /\ new = [x \in Editors |-> new[x]]
           /\ \A x \in Editors :
                /\ new[x] = [f \in Carried |-> new[x][f]]
                /\ new[x].alone \in BOOLEAN /\ (new[x].alone => editor[x].alone /\ x \notin S)
                /\ \A f \in Carried \ {"alone"} : new[x][f] = editor[x][f]
<1> DEFINE new == Net!Disturb(S)
<1>1. new = [x \in Editors |-> [editor[x] EXCEPT !.alone = @ /\ x \notin S]] BY DEF Net!Disturb
<1> HIDE DEF new
<1>2. SUFFICES ASSUME NEW x \in Editors
      PROVE /\ new[x] = [f \in Carried |-> new[x][f]]
            /\ new[x].alone \in BOOLEAN /\ (new[x].alone => editor[x].alone /\ x \notin S)
            /\ \A f \in Carried \ {"alone"} : new[x][f] = editor[x][f]
  BY <1>1 DEF new
<1>3. PICK a : a = (editor[x].alone /\ x \notin S) OBVIOUS
<1>4. new[x] = [editor[x] EXCEPT !.alone = a] BY <1>1, <1>3
<1>5. editor[x] = [f \in Carried |-> editor[x][f]] BY DEF Locals
<1>6. "alone" \in Carried BY DEF Carried
<1>7. /\ new[x] = [f \in Carried |-> new[x][f]] /\ new[x]["alone"] = a
      /\ \A f \in Carried \ {"alone"} : new[x][f] = editor[x][f]
  BY <1>4, <1>5, <1>6
<1>8. a \in BOOLEAN /\ (a => editor[x].alone /\ x \notin S) BY <1>3
<1> QED BY <1>7, <1>8

(* The same of a step that does nothing else to them.                      *)
LEMMA Disturbing ==
    ASSUME Locals, NEW S, editor' = Net!Disturb(S)
    PROVE  /\ Locals' /\ \A x \in Editors : Follows(x) /\ (editor'[x].alone => x \notin S)
<1> DEFINE new == Net!Disturb(S)
<1>1. /\ new = [x \in Editors |-> new[x]]
      /\ \A x \in Editors :
                /\ new[x] = [f \in Carried |-> new[x][f]]
                /\ new[x].alone \in BOOLEAN /\ (new[x].alone => editor[x].alone /\ x \notin S)
                /\ \A f \in Carried \ {"alone"} : new[x][f] = editor[x][f]
  BY DisturbedAlone
<1>2. editor' = new OBVIOUS
<1> HIDE DEF new
<1>3. Locals' BY <1>1, <1>2 DEF Locals
<1>4. \A x \in Editors : Follows(x) /\ (editor'[x].alone => x \notin S)
  BY <1>1, <1>2 DEF Follows, Carried
<1> QED BY <1>3, <1>4

(* The same of a step at which a handler ends.                             *)
LEMMA DisturbingEnd ==
    ASSUME Locals, NEW r \in Editors, NEW S, editor' = [Net!Disturb(S) EXCEPT ![r] = Net!Idle]
    PROVE  /\ Locals' /\ Others(r) /\ editor'[r].pc = "idle"
           /\ \A x \in Editors \ {r} : editor'[x].alone => x \notin S
<1> DEFINE new == Net!Disturb(S)
<1>1. /\ new = [x \in Editors |-> new[x]]
      /\ \A x \in Editors :
                /\ new[x] = [f \in Carried |-> new[x][f]]
                /\ new[x].alone \in BOOLEAN /\ (new[x].alone => editor[x].alone /\ x \notin S)
                /\ \A f \in Carried \ {"alone"} : new[x][f] = editor[x][f]
  BY DisturbedAlone
<1>2. editor' = [new EXCEPT ![r] = Net!Idle] OBVIOUS
<1> HIDE DEF new
<1>3. editor'[r] = Net!Idle /\ \A x \in Editors \ {r} : editor'[x] = new[x]
  BY <1>1, <1>2
<1>4. editor' = [x \in Editors |-> editor'[x]] BY <1>1, <1>2
<1>5. Locals'
  <2>1. Net!Idle.alone \in BOOLEAN BY IdleCarried
  <2>2. \A x \in Editors : editor'[x] = [f \in Carried |-> editor'[x][f]]
    <3>1. SUFFICES ASSUME NEW x \in Editors PROVE editor'[x] = [f \in Carried |-> editor'[x][f]]
      OBVIOUS
    <3>2. CASE x = r BY <1>3, <3>2, IdleCarried
    <3>3. CASE x # r
      <4>1. editor'[x] = new[x] BY <1>3, <3>3
      <4>2. new[x] = [f \in Carried |-> new[x][f]] BY <1>1
      <4> QED BY <4>1, <4>2
    <3> QED BY <3>2, <3>3
  <2>3. \A x \in Editors : editor'[x].alone \in BOOLEAN BY <1>1, <1>3, <2>1, Zenon
  <2> QED BY <1>4, <2>2, <2>3 DEF Locals
<1>6. \A x \in Editors \ {r} : Follows(x) /\ (editor'[x].alone => x \notin S)
  BY <1>1, <1>3 DEF Follows, Carried
<1> QED BY <1>3, <1>5, <1>6, IdleCarried DEF Others

(* Clearing the flags sends a handler on and disturbs the others.          *)
LEMMA Clearing ==
    ASSUME Locals, NEW r \in Editors, Net!Clear(r)
    PROVE  /\ Locals' /\ Others(r) /\ editor'[r].pc = editor[r].edit[1]
           /\ editor'[r].row = editor[r].row /\ editor'[r].edit = editor[r].edit
           /\ editor'[r].alone = TRUE
           /\ \A x \in Editors \ {r} : editor'[x].alone => editor[x].pc \notin AtServers
<1> DEFINE S == Net!Bystanders
<1> DEFINE new == Net!Disturb(S)
<1> DEFINE mine == [[new[r] EXCEPT !.pc = editor[r].edit[1]] EXCEPT !.alone = TRUE]
<1>1. /\ new = [x \in Editors |-> new[x]]
      /\ \A x \in Editors :
                /\ new[x] = [f \in Carried |-> new[x][f]]
                /\ new[x].alone \in BOOLEAN /\ (new[x].alone => editor[x].alone /\ x \notin S)
                /\ \A f \in Carried \ {"alone"} : new[x][f] = editor[x][f]
  BY DisturbedAlone
<1>2. editor' = [new EXCEPT ![r].pc = editor[r].edit[1], ![r].alone = TRUE] BY DEF Net!Clear
<1>3. \A x \in Editors : x \notin S => editor[x].pc \notin AtServers
  BY DEF Net!Bystanders, AtServers
<1> HIDE DEF new, S
<1>4. editor' = [new EXCEPT ![r] = mine] BY <1>1, <1>2
<1>5. /\ mine = [f \in Carried |-> mine[f]] /\ mine.pc = editor[r].edit[1] /\ mine.alone = TRUE
      /\ mine.row = editor[r].row /\ mine.edit = editor[r].edit
  BY <1>1 DEF Carried
<1> HIDE DEF mine
<1>6. editor'[r] = mine /\ \A x \in Editors \ {r} : editor'[x] = new[x] BY <1>1, <1>4
<1>7. Locals'
  <2>1. editor' = [x \in Editors |-> editor'[x]] BY <1>1, <1>4
  <2>2. ASSUME NEW x \in Editors
        PROVE  editor'[x] = [f \in Carried |-> editor'[x][f]] /\ editor'[x].alone \in BOOLEAN
    <3>1. CASE x = r BY <1>5, <1>6, <3>1
    <3>2. CASE x # r
      <4>1. editor'[x] = new[x] BY <1>6, <3>2
      <4>2. new[x] = [f \in Carried |-> new[x][f]] /\ new[x].alone \in BOOLEAN BY <1>1
      <4> QED BY <4>1, <4>2
    <3> QED BY <3>1, <3>2
  <2> QED BY <2>1, <2>2 DEF Locals
<1>8. \A x \in Editors \ {r} : Follows(x) /\ (editor'[x].alone => x \notin S)
  BY <1>1, <1>6 DEF Follows, Carried
<1> QED BY <1>3, <1>5, <1>6, <1>7, <1>8 DEF Others

(* A node has been switched: validations that have passed it note that.    *)
Marks(x, n) ==
    /\ \A f \in Carried \ {"moved"} : editor'[x][f] = editor[x][f]
    /\ editor[x].pc \notin AtChains => Follows(x)
    /\ editor[x].pc \in AtChains =>
          editor'[x].moved =
              editor[x].moved \cup ({n} \cap (Net!ToSet(editor[x].edit) \ Net!ToSet(editor[x].left)))

(* Switching a node changes only what validations note of it.              *)
LEMMA Marking ==
    ASSUME Locals, NEW n, NEW to, Net!SwitchNode(n, to)
    PROVE  Locals' /\ \A x \in Editors : Marks(x, n)
<1> DEFINE Seen(x) == Net!ToSet(editor[x].edit) \ Net!ToSet(editor[x].left)
<1> DEFINE Passed(x) == editor[x].pc = "hops" /\ n \in Seen(x)
<1>1. editor' = [x \in Editors |-> IF Passed(x) THEN [editor[x] EXCEPT !.moved = @ \cup {n}] ELSE editor[x]]
  BY DEF Net!SwitchNode
<1> HIDE DEF Seen, Passed
<1>2. ASSUME NEW x \in Editors
      PROVE  /\ editor'[x] = [f \in Carried |-> editor'[x][f]] /\ editor'[x].alone \in BOOLEAN
             /\ \A f \in Carried \ {"moved"} : editor'[x][f] = editor[x][f]
             /\ editor'[x].moved = IF Passed(x) THEN editor[x].moved \cup {n} ELSE editor[x].moved
  <2>1. editor[x] = [f \in Carried |-> editor[x][f]] /\ editor[x].alone \in BOOLEAN BY DEF Locals
  <2>2. CASE Passed(x)
    <3>1. editor'[x] = [editor[x] EXCEPT !.moved = @ \cup {n}] BY <1>1, <2>2
    <3> QED BY <2>1, <2>2, <3>1 DEF Carried
  <2>3. CASE ~Passed(x) BY <1>1, <2>1, <2>3
  <2> QED BY <2>2, <2>3
<1>3. Locals' BY <1>1, <1>2 DEF Locals
<1>4. ASSUME NEW x \in Editors PROVE Marks(x, n)
  <2>1. editor[x].pc \notin AtChains => ~Passed(x) BY DEF Passed, AtChains
  <2>2. editor[x].pc \notin AtChains => Follows(x) BY <1>2, <2>1 DEF Follows, Carried
  <2>3. ASSUME editor[x].pc \in AtChains
        PROVE  editor'[x].moved = editor[x].moved \cup ({n} \cap Seen(x))
    BY <1>2, <2>3 DEF Passed, AtChains
  <2> QED BY <1>2, <2>2, <2>3 DEF Marks, Seen
<1> QED BY <1>3, <1>4

(* A replacing import goes on to its batch.                                *)
LEMMA Wiping ==
    ASSUME Locals, NEW r \in Editors, editor' = [editor EXCEPT ![r].pc = "import"]
    PROVE  Locals' /\ Others(r) /\ editor'[r].pc = "import" /\ editor'[r].edit = editor[r].edit
<1>1. editor'[r] = [editor[r] EXCEPT !.pc = "import"] BY DEF Locals
<1>2. \A x \in Editors \ {r} : editor'[x] = editor[x] BY DEF Locals
<1>3. /\ editor'[r] = [f \in Carried |-> editor'[r][f]] /\ editor'[r].alone \in BOOLEAN
      /\ editor'[r].pc = "import" /\ editor'[r].edit = editor[r].edit
  BY <1>1 DEF Locals, Carried
<1>4. editor' = [x \in Editors |-> editor'[x]] BY DEF Locals
<1>5. Locals' BY <1>2, <1>3, <1>4 DEF Locals
<1> QED BY <1>2, <1>3, <1>5 DEF Others, Follows

(* A validation begins with every hop left to ask.                         *)
LEMMA Validating ==
    ASSUME Locals, NEW r \in Editors, NEW c, NEW hops, NEW n,
           n = [Net!Idle EXCEPT !.pc = "hops", !.row = c, !.edit = hops, !.new = TRUE, !.left = hops]
             \/ n = [Net!Idle EXCEPT !.pc = "hops", !.row = c, !.edit = hops, !.left = hops],
           editor' = [editor EXCEPT ![r] = n]
    PROVE  /\ Locals' /\ Others(r) /\ editor'[r].pc = "hops" /\ editor'[r].row = c
           /\ editor'[r].edit = hops /\ editor'[r].left = hops
<1>2. n = [f \in Carried |-> n[f]] /\ n.pc = "hops" /\ n.row = c /\ n.edit = hops
      /\ n.left = hops /\ n.alone = TRUE
  BY IdleCarried DEF Carried
<1>3. editor'[r] = n /\ \A x \in Editors \ {r} : editor'[x] = editor[x]
  BY DEF Locals
<1>4. editor' = [x \in Editors |-> editor'[x]] BY DEF Locals
<1>5. Locals' BY <1>2, <1>3, <1>4 DEF Locals
<1> QED BY <1>2, <1>3, <1>5 DEF Others, Follows

(* A hop that passes is left behind; any other ends the handler.           *)
LEMMA Checking ==
    ASSUME Locals, NEW r \in Editors, Net!CheckHop(r)
    PROVE  /\ Locals' /\ Others(r) /\ editor'[r].pc \in {"hops", "idle"}
           /\ editor'[r].pc = "hops" =>
                /\ Net!Passes(Head(editor[r].left)) /\ ~Net!Twice(editor[r].edit)
                /\ editor'[r].left = Tail(editor[r].left) /\ editor'[r].row = editor[r].row
                /\ editor'[r].edit = editor[r].edit /\ editor'[r].moved = editor[r].moved
<1> DEFINE on == Net!Passes(Head(editor[r].left)) /\ ~Net!Twice(editor[r].edit)
<1>1. editor' = [editor EXCEPT ![r] = IF on THEN [editor[r] EXCEPT !.left = Tail(editor[r].left)] ELSE Net!Idle]
      /\ editor[r].pc = "hops"
  BY DEF Net!CheckHop
<1> HIDE DEF on
<1>2. \A x \in Editors \ {r} : editor'[x] = editor[x] BY <1>1 DEF Locals
<1>3. editor' = [x \in Editors |-> editor'[x]] BY <1>1 DEF Locals
<1>4. CASE on
  <2>1. editor'[r] = [editor[r] EXCEPT !.left = Tail(editor[r].left)] BY <1>1, <1>4 DEF Locals
  <2>2. /\ editor'[r] = [f \in Carried |-> editor'[r][f]] /\ editor'[r].alone \in BOOLEAN
        /\ editor'[r].left = Tail(editor[r].left)
        /\ \A f \in Carried \ {"left"} : editor'[r][f] = editor[r][f]
    BY <2>1 DEF Locals, Carried
  <2>3. Locals' BY <1>2, <1>3, <2>2 DEF Locals
  <2> QED BY <1>1, <1>2, <1>4, <2>2, <2>3 DEF Others, Follows, on, Carried
<1>5. CASE ~on
  <2>1. editor' = [editor EXCEPT ![r] = Net!Idle] BY <1>1, <1>5
  <2> QED BY <2>1, Ending
<1> QED BY <1>4, <1>5

(* A probe goes on to the next target, or ends.                            *)
LEMMA Probing ==
    ASSUME Locals, NEW r \in Editors, NEW answer, Net!Probe(r, answer)
    PROVE  Locals' /\ Others(r) /\ editor'[r].pc \in {"check", "idle"}
<1> DEFINE rest == Tail(editor[r].edit)
<1>1. editor' = [editor EXCEPT ![r] = IF rest = <<>> THEN Net!Idle ELSE [editor[r] EXCEPT !.edit = rest]]
      /\ editor[r].pc = "check"
  BY DEF Net!Probe
<1> HIDE DEF rest
<1>2. \A x \in Editors \ {r} : editor'[x] = editor[x] BY <1>1 DEF Locals
<1>3. editor' = [x \in Editors |-> editor'[x]] BY <1>1 DEF Locals
<1>4. CASE rest # <<>>
  <2>1. editor'[r] = [editor[r] EXCEPT !.edit = rest] BY <1>1, <1>4 DEF Locals
  <2>2. /\ editor'[r] = [f \in Carried |-> editor'[r][f]] /\ editor'[r].alone \in BOOLEAN
        /\ editor'[r].pc = "check"
    BY <1>1, <2>1 DEF Locals, Carried
  <2>3. Locals' BY <1>2, <1>3, <2>2 DEF Locals
  <2> QED BY <1>2, <2>2, <2>3 DEF Others, Follows
<1>5. CASE rest = <<>>
  <2>1. editor' = [editor EXCEPT ![r] = Net!Idle] BY <1>1, <1>5
  <2> QED BY <2>1, Ending
<1> QED BY <1>4, <1>5

(* Handlers elsewhere are untouched where one of them goes away.           *)
LEMMA Leaving ==
    ASSUME NEW r \in Editors, Others(r), NEW P, editor'[r].pc \notin P
    PROVE  Untouched(P)
  BY DEF Others, Untouched

(* Handlers that all go on as before are untouched.                        *)
LEMMA Following ==
    ASSUME \A x \in Editors : Follows(x), NEW P
    PROVE  Untouched(P)
  BY DEF Untouched

(* Nobody moves where the handlers stay as they are.                       *)
LEMMA Unmoved ==
    ASSUME Locals, editor' = editor
    PROVE  Locals' /\ \A x \in Editors : Follows(x)
  BY DEF Locals, Follows

-----------------------------------------------------------------------------
(* The steps by what they are about, and what of the others they leave.    *)
ServerSteps ==
    \/ \E r \in Editors, s \in Servers :
        \/ \E flag \in {"plain", "primary"} : Net!PostServer(r, s, flag)
        \/ \E flag \in {"plain", "primary", Keep} : Net!PatchServer(r, s, flag)
    \/ \E s \in Servers : Net!DeleteServer(s)
    \/ \E r \in Editors : Net!Clear(r) \/ Net!WriteServer(r)
BackendSteps ==
    \/ \E b \in Net!Endpoints, v, w \in Values \cup {NoValue} : Net!PostBackend(b, v, w)
    \/ \E r \in Editors, b \in Net!Endpoints, v \in Values \cup {Keep}, w \in Values \cup {Keep, NoValue} :
        Net!PatchBackend(r, b, v, w)
    \/ \E b \in Net!Endpoints : Net!DeleteBackend(b)
    \/ \E r \in Editors : Net!WriteBackend(r)
RuleSteps ==
    \/ \E x \in Rules, rule \in Net!ValidRules : Net!PostRule(x, rule)
    \/ \E r \in Editors, x \in Rules, k, p \in Kinds \cup {Keep} : Net!PatchRule(r, x, k, p)
    \/ \E x \in Rules : Net!DeleteRule(x)
    \/ \E r \in Editors, replace \in BOOLEAN, rule \in Net!ValidRules : Net!Import(r, replace, rule)
    \/ \E r \in Editors : Net!WriteRule(r) \/ Net!Wipe(r) \/ Net!InsertRules(r)
ChainSteps ==
    \/ \E r \in Editors, c \in Chains, h, i \in Nodes \cup {Outside} :
        Net!PostChain(r, c, <<h, i>>) \/ Net!PatchChain(r, c, <<h, i>>)
    \/ \E r \in Editors, c \in Chains : Net!PatchChain(r, c, Keep)
    \/ \E c \in Chains : Net!DeleteChain(c)
    \/ \E n \in Nodes, to \in {"on", "off", "gone"} : Net!SwitchNode(n, to)
    \/ \E r \in Editors : Net!CheckHop(r) \/ Net!WriteChain(r)
OtherSteps ==
    \/ \E r \in Editors, T \in {Servers, Backends} \cup {{w} : w \in Warps} : Net!Check(r, T)
    \/ \E r \in Editors, answer \in {"healthy", "unreachable"} : Net!Probe(r, answer)
    \/ \E r \in Editors : Net!Abort(r)

ServersStay == servers' = servers /\ expected'.primary = expected.primary /\ Untouched(AtServers)
BackendsStay ==
    backends' = backends /\ expected'.url = expected.url /\ expected'.secret = expected.secret
        /\ Untouched(AtBackends)
RulesStay == rules' = rules /\ expected'.half = expected.half /\ Untouched(AtRules)
ChainsStay ==
    chains' = chains /\ switches' = switches /\ expected'.moved = expected.moved
        /\ Untouched(AtChains)

(* Remembering one thing leaves the rest of the history.                   *)
LEMMA Remembering ==
    ASSUME History, NEW g \in Kept, NEW v, expected' = [expected EXCEPT ![g] = v]
    PROVE  History' /\ expected'[g] = v /\ \A f \in Kept \ {g} : expected'[f] = expected[f]
  BY DEF History

(* Edits of resolvers leave the rest alone.                                *)
LEMMA ServersApart ==
    ASSUME Locals, History, ServerSteps,
           \A r \in Editors : editor[r].pc = "clear" => editor[r].edit[1] \in {"insert", "update"}
    PROVE  Locals' /\ History' /\ BackendsStay /\ RulesStay /\ ChainsStay
<1> USE DEF BackendsStay, RulesStay, ChainsStay, AtBackends, AtRules, AtChains
<1>1. ASSUME NEW r \in Editors, NEW s \in Servers, NEW flag, Net!PostServer(r, s, flag)
      PROVE  Locals' /\ History' /\ BackendsStay /\ RulesStay /\ ChainsStay
  <2>1. PICK pc, edit : pc \in AtServers /\ Net!Begin(r, pc, s, edit)
    BY <1>1 DEF Net!PostServer, AtServers
  <2>2. Locals' /\ Others(r) /\ editor'[r].pc = pc BY <2>1, Beginning
  <2>3. expected' = expected /\ backends' = backends /\ rules' = rules /\ chains' = chains
        /\ switches' = switches
    BY <1>1 DEF Net!PostServer, Net!tables
  <2> QED BY <2>1, <2>2, <2>3, Leaving DEF AtServers, History
<1>2. ASSUME NEW r \in Editors, NEW s \in Servers, NEW flag, Net!PatchServer(r, s, flag)
      PROVE  Locals' /\ History' /\ BackendsStay /\ RulesStay /\ ChainsStay
  <2>1. PICK pc, edit : pc \in AtServers /\ Net!Begin(r, pc, s, edit)
    BY <1>2 DEF Net!PatchServer, AtServers
  <2>2. Locals' /\ Others(r) /\ editor'[r].pc = pc BY <2>1, Beginning
  <2>3. expected' = expected /\ backends' = backends /\ rules' = rules /\ chains' = chains
        /\ switches' = switches
    BY <1>2 DEF Net!PatchServer, Net!tables
  <2> QED BY <2>1, <2>2, <2>3, Leaving DEF AtServers, History
<1>3. ASSUME NEW s \in Servers, Net!DeleteServer(s)
      PROVE  Locals' /\ History' /\ BackendsStay /\ RulesStay /\ ChainsStay
  <2>1. Locals' /\ \A x \in Editors : Follows(x) BY <1>3, Disturbing DEF Net!DeleteServer
  <2>2. backends' = backends /\ rules' = rules /\ chains' = chains /\ switches' = switches
    BY <1>3 DEF Net!DeleteServer
  <2>3. PICK p : expected' = [expected EXCEPT !["primary"] = p] BY <1>3 DEF Net!DeleteServer
  <2>4. History' /\ \A f \in Kept \ {"primary"} : expected'[f] = expected[f]
    BY <2>3, Remembering DEF Kept
  <2> QED BY <2>1, <2>2, <2>4, Following DEF Kept
<1>4. ASSUME NEW r \in Editors, Net!Clear(r)
      PROVE  Locals' /\ History' /\ BackendsStay /\ RulesStay /\ ChainsStay
  <2>1. Locals' /\ Others(r) /\ editor'[r].pc \in {"insert", "update"}
    BY <1>4, Clearing DEF Net!Clear
  <2>2. backends' = backends /\ rules' = rules /\ chains' = chains /\ switches' = switches
    BY <1>4 DEF Net!Clear
  <2>3. expected' = [expected EXCEPT !["primary"] = NoServer] BY <1>4 DEF Net!Clear
  <2>4. History' /\ \A f \in Kept \ {"primary"} : expected'[f] = expected[f]
    BY <2>3, Remembering DEF Kept
  <2> QED BY <2>1, <2>2, <2>4, Leaving DEF Kept
<1>5. ASSUME NEW r \in Editors, Net!WriteServer(r)
      PROVE  Locals' /\ History' /\ BackendsStay /\ RulesStay /\ ChainsStay
  <2>1. Locals' /\ Others(r) /\ editor'[r].pc = "idle" BY <1>5, DisturbingEnd DEF Net!WriteServer
  <2>2. backends' = backends /\ rules' = rules /\ chains' = chains /\ switches' = switches
    BY <1>5 DEF Net!WriteServer
  <2>3. PICK p : expected' = [expected EXCEPT !["primary"] = p] \/ expected' = expected
    BY <1>5 DEF Net!WriteServer
  <2>4. History' /\ \A f \in Kept \ {"primary"} : expected'[f] = expected[f]
    BY <2>3, Remembering DEF Kept, History
  <2> QED BY <2>1, <2>2, <2>4, Leaving DEF Kept
<1> QED BY <1>1, <1>2, <1>3, <1>4, <1>5, Zenon DEF ServerSteps

(* Edits of backends leave the rest alone.                                 *)
LEMMA BackendsApart ==
    ASSUME Locals, History, BackendSteps
    PROVE  Locals' /\ History' /\ ServersStay /\ RulesStay /\ ChainsStay
<1> USE DEF ServersStay, RulesStay, ChainsStay, AtServers, AtRules, AtChains
<1>1. ASSUME NEW b, NEW v, NEW w, Net!PostBackend(b, v, w)
      PROVE  Locals' /\ History' /\ ServersStay /\ RulesStay /\ ChainsStay
  <2>1. Locals' /\ \A x \in Editors : Follows(x) BY <1>1, Unmoved DEF Net!PostBackend
  <2>2. servers' = servers /\ rules' = rules /\ chains' = chains /\ switches' = switches
    BY <1>1 DEF Net!PostBackend
  <2>3. expected' = [expected EXCEPT !.url[b] = v, !.secret[b] = w]
    BY <1>1 DEF Net!PostBackend
  <2>4. History' /\ \A f \in Kept \ {"url", "secret"} : expected'[f] = expected[f]
    BY <2>3 DEF Kept, History
  <2> QED BY <2>1, <2>2, <2>4, Following DEF Kept
<1>2. ASSUME NEW r \in Editors, NEW b, NEW v, NEW w, Net!PatchBackend(r, b, v, w)
      PROVE  Locals' /\ History' /\ ServersStay /\ RulesStay /\ ChainsStay
  <2>1. PICK edit : Net!Begin(r, "backend", b, edit)
    BY <1>2 DEF Net!PatchBackend
  <2>2. Locals' /\ Others(r) /\ editor'[r].pc = "backend" BY <2>1, Beginning
  <2>3. expected' = expected /\ servers' = servers /\ rules' = rules /\ chains' = chains
        /\ switches' = switches
    BY <1>2 DEF Net!PatchBackend, Net!tables
  <2> QED BY <2>2, <2>3, Leaving DEF History
<1>3. ASSUME NEW b, Net!DeleteBackend(b)
      PROVE  Locals' /\ History' /\ ServersStay /\ RulesStay /\ ChainsStay
  <2>1. Locals' /\ \A x \in Editors : Follows(x) BY <1>3, Unmoved DEF Net!DeleteBackend
  <2>2. servers' = servers /\ rules' = rules /\ chains' = chains /\ switches' = switches
    BY <1>3 DEF Net!DeleteBackend
  <2>3. expected' = [expected EXCEPT !.url[b] = NoValue, !.secret[b] = NoValue]
    BY <1>3 DEF Net!DeleteBackend
  <2>4. History' /\ \A f \in Kept \ {"url", "secret"} : expected'[f] = expected[f]
    BY <2>3 DEF Kept, History
  <2> QED BY <2>1, <2>2, <2>4, Following DEF Kept
<1>4. ASSUME NEW r \in Editors, Net!WriteBackend(r)
      PROVE  Locals' /\ History' /\ ServersStay /\ RulesStay /\ ChainsStay
  <2> DEFINE b == editor[r].row
  <2>1. Locals' /\ Others(r) /\ editor'[r].pc = "idle" BY <1>4, DisturbingEnd DEF Net!WriteBackend
  <2>2. servers' = servers /\ rules' = rules /\ chains' = chains /\ switches' = switches
    BY <1>4 DEF Net!WriteBackend
  <2>3. PICK v, w : expected' = [expected EXCEPT !.url[b] = v, !.secret[b] = w] \/ expected' = expected
    BY <1>4 DEF Net!WriteBackend
  <2>4. History' /\ \A f \in Kept \ {"url", "secret"} : expected'[f] = expected[f]
    BY <2>3 DEF Kept, History
  <2> QED BY <2>1, <2>2, <2>4, Leaving DEF Kept
<1> QED BY <1>1, <1>2, <1>3, <1>4, Zenon DEF BackendSteps

(* Edits of rules leave the rest alone.                                    *)
LEMMA RulesApart ==
    ASSUME Locals, History, RuleSteps
    PROVE  Locals' /\ History' /\ ServersStay /\ BackendsStay /\ ChainsStay
<1> USE DEF ServersStay, BackendsStay, ChainsStay, AtServers, AtBackends, AtChains
<1>1. ASSUME NEW x, NEW rule, Net!PostRule(x, rule)
      PROVE  Locals' /\ History' /\ ServersStay /\ BackendsStay /\ ChainsStay
  <2>1. Locals' /\ \A q \in Editors : Follows(q) BY <1>1, Unmoved DEF Net!PostRule
  <2>2. expected' = expected /\ servers' = servers /\ backends' = backends /\ chains' = chains
        /\ switches' = switches
    BY <1>1 DEF Net!PostRule
  <2> QED BY <2>1, <2>2, Following DEF History
<1>2. ASSUME NEW r \in Editors, NEW x, NEW k, NEW p, Net!PatchRule(r, x, k, p)
      PROVE  Locals' /\ History' /\ ServersStay /\ BackendsStay /\ ChainsStay
  <2>1. PICK edit : Net!Begin(r, "rule", x, edit) BY <1>2 DEF Net!PatchRule
  <2>2. Locals' /\ Others(r) /\ editor'[r].pc = "rule" BY <2>1, Beginning
  <2>3. expected' = expected /\ servers' = servers /\ backends' = backends /\ chains' = chains
        /\ switches' = switches
    BY <1>2 DEF Net!PatchRule, Net!tables
  <2> QED BY <2>2, <2>3, Leaving DEF History
<1>3. ASSUME NEW x, Net!DeleteRule(x)
      PROVE  Locals' /\ History' /\ ServersStay /\ BackendsStay /\ ChainsStay
  <2>1. Locals' /\ \A q \in Editors : Follows(q) BY <1>3, Unmoved DEF Net!DeleteRule
  <2>2. servers' = servers /\ backends' = backends /\ chains' = chains /\ switches' = switches
    BY <1>3 DEF Net!DeleteRule
  <2>3. PICK h : expected' = [expected EXCEPT !["half"] = h] BY <1>3 DEF Net!DeleteRule
  <2>4. History' /\ \A f \in Kept \ {"half"} : expected'[f] = expected[f]
    BY <2>3, Remembering DEF Kept
  <2> QED BY <2>1, <2>2, <2>4, Following DEF Kept
<1>4. ASSUME NEW r \in Editors, NEW replace, NEW rule, Net!Import(r, replace, rule)
      PROVE  Locals' /\ History' /\ ServersStay /\ BackendsStay /\ ChainsStay
  <2>1. PICK pc : pc \in {"wipe", "import"} /\ Net!Begin(r, pc, NoServer, rule)
    BY <1>4 DEF Net!Import
  <2>2. Locals' /\ Others(r) /\ editor'[r].pc = pc BY <2>1, Beginning
  <2>3. expected' = expected /\ servers' = servers /\ backends' = backends /\ chains' = chains
        /\ switches' = switches
    BY <1>4 DEF Net!Import, Net!tables
  <2> QED BY <2>1, <2>2, <2>3, Leaving DEF History
<1>5. ASSUME NEW r \in Editors, Net!WriteRule(r)
      PROVE  Locals' /\ History' /\ ServersStay /\ BackendsStay /\ ChainsStay
  <2>1. Locals' /\ Others(r) /\ editor'[r].pc = "idle" BY <1>5, Ending DEF Net!WriteRule
  <2>2. servers' = servers /\ backends' = backends /\ chains' = chains /\ switches' = switches
    BY <1>5 DEF Net!WriteRule
  <2>3. PICK h : expected' = [expected EXCEPT !["half"] = h] \/ expected' = expected
    BY <1>5 DEF Net!WriteRule
  <2>4. History' /\ \A f \in Kept \ {"half"} : expected'[f] = expected[f]
    BY <2>3, Remembering DEF Kept, History
  <2> QED BY <2>1, <2>2, <2>4, Leaving DEF Kept
<1>6. ASSUME NEW r \in Editors, Net!Wipe(r)
      PROVE  Locals' /\ History' /\ ServersStay /\ BackendsStay /\ ChainsStay
  <2>1. Locals' /\ Others(r) /\ editor'[r].pc = "import" BY <1>6, Wiping DEF Net!Wipe
  <2>2. servers' = servers /\ backends' = backends /\ chains' = chains /\ switches' = switches
    BY <1>6 DEF Net!Wipe
  <2>3. expected' = [expected EXCEPT !["half"] = {}] BY <1>6 DEF Net!Wipe
  <2>4. History' /\ \A f \in Kept \ {"half"} : expected'[f] = expected[f]
    BY <2>3, Remembering DEF Kept
  <2> QED BY <2>1, <2>2, <2>4, Leaving DEF Kept
<1>7. ASSUME NEW r \in Editors, Net!InsertRules(r)
      PROVE  Locals' /\ History' /\ ServersStay /\ BackendsStay /\ ChainsStay
  <2>1. Locals' /\ Others(r) /\ editor'[r].pc = "idle" BY <1>7, Ending DEF Net!InsertRules
  <2>2. expected' = expected /\ servers' = servers /\ backends' = backends /\ chains' = chains
        /\ switches' = switches
    BY <1>7 DEF Net!InsertRules
  <2> QED BY <2>1, <2>2, Leaving DEF History
<1> QED BY <1>1, <1>2, <1>3, <1>4, <1>5, <1>6, <1>7, Zenon DEF RuleSteps

(* Edits of chains and nodes leave the rest alone.                         *)
LEMMA ChainsApart ==
    ASSUME Locals, History, ChainSteps
    PROVE  Locals' /\ History' /\ ServersStay /\ BackendsStay /\ RulesStay
<1> USE DEF ServersStay, BackendsStay, RulesStay, AtServers, AtBackends, AtRules
<1>1. ASSUME NEW r \in Editors, NEW c, NEW hops, Net!PostChain(r, c, hops)
      PROVE  Locals' /\ History' /\ ServersStay /\ BackendsStay /\ RulesStay
  <2>1. Locals' /\ Others(r) /\ editor'[r].pc = "hops"
    BY <1>1, Validating DEF Net!PostChain
  <2>2. expected' = expected /\ servers' = servers /\ backends' = backends /\ rules' = rules
    BY <1>1 DEF Net!PostChain, Net!tables
  <2> QED BY <2>1, <2>2, Leaving DEF History
<1>2. ASSUME NEW r \in Editors, NEW c, NEW hops, Net!PatchChain(r, c, hops)
      PROVE  Locals' /\ History' /\ ServersStay /\ BackendsStay /\ RulesStay
  <2>1. Locals' /\ Others(r) /\ editor'[r].pc = "hops"
    BY <1>2, Validating DEF Net!PatchChain
  <2>2. expected' = expected /\ servers' = servers /\ backends' = backends /\ rules' = rules
    BY <1>2 DEF Net!PatchChain, Net!tables
  <2> QED BY <2>1, <2>2, Leaving DEF History
<1>3. ASSUME NEW c, Net!DeleteChain(c)
      PROVE  Locals' /\ History' /\ ServersStay /\ BackendsStay /\ RulesStay
  <2>1. Locals' /\ \A x \in Editors : Follows(x) BY <1>3, Unmoved DEF Net!DeleteChain
  <2>2. servers' = servers /\ backends' = backends /\ rules' = rules
    BY <1>3 DEF Net!DeleteChain
  <2>3. expected' = [expected EXCEPT !.moved[c] = {}] BY <1>3 DEF Net!DeleteChain
  <2>4. History' /\ \A f \in Kept \ {"moved"} : expected'[f] = expected[f]
    BY <2>3 DEF Kept, History
  <2> QED BY <2>1, <2>2, <2>4, Following DEF Kept
<1>4. ASSUME NEW n, NEW to, Net!SwitchNode(n, to)
      PROVE  Locals' /\ History' /\ ServersStay /\ BackendsStay /\ RulesStay
  <2>1. Locals' /\ \A x \in Editors : Marks(x, n) BY <1>4, Marking
  <2>2. Untouched(AtServers) /\ Untouched(AtBackends) /\ Untouched(AtRules)
    <3>1. "pc" \in Carried \ {"moved"} BY DEF Carried
    <3>2. \A x \in Editors : editor'[x].pc = editor[x].pc BY <2>1, <3>1 DEF Marks
    <3>3. \A x \in Editors : editor[x].pc \notin AtChains => Follows(x) BY <2>1 DEF Marks
    <3> QED BY <3>2, <3>3 DEF Untouched, AtChains
  <2>3. servers' = servers /\ backends' = backends /\ rules' = rules
    BY <1>4 DEF Net!SwitchNode
  <2>4. PICK m : expected' = [expected EXCEPT !["moved"] = m] BY <1>4 DEF Net!SwitchNode
  <2>5. History' /\ \A f \in Kept \ {"moved"} : expected'[f] = expected[f]
    BY <2>4, Remembering DEF Kept
  <2> QED BY <2>1, <2>2, <2>3, <2>5 DEF Kept
<1>5. ASSUME NEW r \in Editors, Net!CheckHop(r)
      PROVE  Locals' /\ History' /\ ServersStay /\ BackendsStay /\ RulesStay
  <2>1. Locals' /\ Others(r) /\ editor'[r].pc \in {"hops", "idle"}
    BY <1>5, Checking
  <2>2. expected' = expected /\ servers' = servers /\ backends' = backends /\ rules' = rules
    BY <1>5 DEF Net!CheckHop, Net!tables
  <2> QED BY <2>1, <2>2, Leaving DEF History
<1>6. ASSUME NEW r \in Editors, Net!WriteChain(r)
      PROVE  Locals' /\ History' /\ ServersStay /\ BackendsStay /\ RulesStay
  <2> DEFINE c == editor[r].row
  <2>1. Locals' /\ Others(r) /\ editor'[r].pc = "idle" BY <1>6, Ending DEF Net!WriteChain
  <2>2. servers' = servers /\ backends' = backends /\ rules' = rules
    BY <1>6 DEF Net!WriteChain
  <2>3. expected' = [expected EXCEPT !.moved[c] = editor[r].moved] \/ expected' = expected
    BY <1>6 DEF Net!WriteChain
  <2>4. History' /\ \A f \in Kept \ {"moved"} : expected'[f] = expected[f]
    BY <2>3 DEF Kept, History
  <2> QED BY <2>1, <2>2, <2>4, Leaving DEF Kept
<1> QED BY <1>1, <1>2, <1>3, <1>4, <1>5, <1>6, Zenon DEF ChainSteps

(* Checks, and handlers that fail, change none of the rows.                *)
LEMMA OthersApart ==
    ASSUME Locals, History, OtherSteps
    PROVE  Locals' /\ History' /\ ServersStay /\ BackendsStay /\ RulesStay /\ ChainsStay
<1> USE DEF ServersStay, BackendsStay, RulesStay, ChainsStay, AtServers, AtBackends, AtRules, AtChains
<1>1. ASSUME NEW r \in Editors, NEW T, Net!Check(r, T)
      PROVE  Locals' /\ History' /\ ServersStay /\ BackendsStay /\ RulesStay /\ ChainsStay
  <2>1. PICK edit : Net!Begin(r, "check", NoServer, edit) BY <1>1 DEF Net!Check
  <2>2. Locals' /\ Others(r) /\ editor'[r].pc = "check" BY <2>1, Beginning
  <2>3. expected' = expected /\ servers' = servers /\ backends' = backends /\ rules' = rules
        /\ chains' = chains /\ switches' = switches
    BY <1>1 DEF Net!Check, Net!tables
  <2> QED BY <2>2, <2>3, Leaving DEF History
<1>2. ASSUME NEW r \in Editors, NEW answer, Net!Probe(r, answer)
      PROVE  Locals' /\ History' /\ ServersStay /\ BackendsStay /\ RulesStay /\ ChainsStay
  <2>1. Locals' /\ Others(r) /\ editor'[r].pc \in {"check", "idle"} BY <1>2, Probing
  <2>2. expected' = expected /\ servers' = servers /\ backends' = backends /\ rules' = rules
        /\ chains' = chains /\ switches' = switches
    BY <1>2 DEF Net!Probe, Net!tables
  <2> QED BY <2>1, <2>2, Leaving DEF History
<1>3. ASSUME NEW r \in Editors, Net!Abort(r)
      PROVE  Locals' /\ History' /\ ServersStay /\ BackendsStay /\ RulesStay /\ ChainsStay
  <2>1. Locals' /\ Others(r) /\ editor'[r].pc = "idle" BY <1>3, Ending DEF Net!Abort
  <2>2. expected' = expected /\ servers' = servers /\ backends' = backends /\ rules' = rules
        /\ chains' = chains /\ switches' = switches
    BY <1>3 DEF Net!Abort, Net!tables
  <2> QED BY <2>1, <2>2, Leaving DEF History
<1> QED BY <1>1, <1>2, <1>3, Zenon DEF OtherSteps

(* Every step is about one of these.                                       *)
LEMMA StepsApart ==
    ASSUME Net!Next
    PROVE  ServerSteps \/ BackendSteps \/ RuleSteps \/ ChainSteps \/ OtherSteps
<1>1. CASE \E r \in Editors, s \in Servers :
        \/ \E flag \in {"plain", "primary"} : Net!PostServer(r, s, flag)
        \/ \E flag \in {"plain", "primary", Keep} : Net!PatchServer(r, s, flag)
  BY <1>1, Zenon DEF ServerSteps
<1>2. CASE \E s \in Servers : Net!DeleteServer(s)
  BY <1>2, Zenon DEF ServerSteps
<1>3. CASE \E b \in Backends, v \in Values : Net!PostBackend(b, v, NoValue) \/ Net!PostBackend(b, v, v)
  BY <1>3 DEF BackendSteps, Net!Endpoints
<1>4. CASE \E r \in Editors, b \in Backends, v \in Values \cup {Keep}, w \in Values \cup {Keep, NoValue} :
        Net!PatchBackend(r, b, v, w)
  BY <1>4 DEF BackendSteps, Net!Endpoints
<1>5. CASE \E b \in Backends : Net!DeleteBackend(b)
  BY <1>5 DEF BackendSteps, Net!Endpoints
<1>6. CASE \E w \in Warps : Net!DeleteWarp(w) \/ \E v \in Values : Net!PostWarp(w, v)
  BY <1>6 DEF BackendSteps, Net!Endpoints, Net!DeleteWarp, Net!PostWarp
<1>7. CASE \E f \in Filters : Net!DeleteFilter(f) \/ \E v \in Values : Net!PostFilter(f, v)
  BY <1>7 DEF BackendSteps, Net!Endpoints, Net!DeleteFilter, Net!PostFilter
<1>8. CASE \E r \in Editors, f \in Filters, v \in Values \cup {Keep} : Net!PatchFilter(r, f, v)
  BY <1>8 DEF BackendSteps, Net!Endpoints, Net!PatchFilter
<1>9. CASE \E r \in Editors, w \in Warps :
        Net!CheckWarp(r, w) \/ \E v \in Values \cup {Keep} : Net!PatchWarp(r, w, v)
  BY <1>9 DEF BackendSteps, OtherSteps, Net!Endpoints, Net!PatchWarp, Net!CheckWarp
<1>10. CASE \E r \in Editors, T \in {Servers, Backends} : Net!Check(r, T)
  BY <1>10, Zenon DEF OtherSteps
<1>11. CASE \E r \in Editors, answer \in {"healthy", "unreachable"} : Net!Probe(r, answer)
  BY <1>11, Zenon DEF OtherSteps
<1>12. CASE \E x \in Rules, rule \in Net!ValidRules : Net!PostRule(x, rule)
  BY <1>12, Zenon DEF RuleSteps
<1>13. CASE \E r \in Editors, x \in Rules, k, p \in Kinds \cup {Keep} : Net!PatchRule(r, x, k, p)
  BY <1>13, Zenon DEF RuleSteps
<1>14. CASE \E x \in Rules : Net!DeleteRule(x)
  BY <1>14, Zenon DEF RuleSteps
<1>15. CASE \E r \in Editors, replace \in BOOLEAN, rule \in Net!ValidRules : Net!Import(r, replace, rule)
  BY <1>15, Zenon DEF RuleSteps
<1>16. CASE \E r \in Editors, c \in Chains, h, i \in Nodes \cup {Outside} :
        Net!PostChain(r, c, <<h, i>>) \/ Net!PatchChain(r, c, <<h, i>>)
  BY <1>16, Zenon DEF ChainSteps
<1>17. CASE \E r \in Editors, c \in Chains : Net!PatchChain(r, c, Keep)
  BY <1>17, Zenon DEF ChainSteps
<1>18. CASE \E c \in Chains : Net!DeleteChain(c)
  BY <1>18, Zenon DEF ChainSteps
<1>19. CASE \E n \in Nodes, to \in {"on", "off", "gone"} : Net!SwitchNode(n, to)
  BY <1>19, Zenon DEF ChainSteps
<1>20. CASE \E r \in Editors :
        \/ Net!Clear(r) \/ Net!WriteServer(r) \/ Net!WriteBackend(r)
        \/ Net!WriteRule(r) \/ Net!Wipe(r) \/ Net!InsertRules(r)
        \/ Net!CheckHop(r) \/ Net!WriteChain(r) \/ Net!Abort(r)
  BY <1>20, Zenon DEF ServerSteps, BackendSteps, RuleSteps, ChainSteps, OtherSteps
<1> QED
  BY <1>1, <1>2, <1>3, <1>4, <1>5, <1>6, <1>7, <1>8, <1>9, <1>10, <1>11, <1>12, <1>13, <1>14,
     <1>15, <1>16, <1>17, <1>18, <1>19, <1>20, Zenon
     DEF Net!Next

-----------------------------------------------------------------------------
(* Resolvers.                                                              *)
Flags == {"plain", "primary"}

(* A handler that has cleared the flags and has since been alone finds     *)
(* none; one that keeps the flag it has read and has been alone finds it.  *)
ServerEdit(r) ==
    /\ editor[r].row \in Servers
    /\ editor[r].edit[1] \in {"insert", "update"} /\ editor[r].edit[2] \in Flags
    /\ editor[r].pc \in {"clear", "insert"} => editor[r].edit[2] = editor[r].edit[3]
    /\ editor[r].pc = "clear" => editor[r].edit[3] = "primary"
    /\ editor[r].edit[3] # Keep => editor[r].edit[2] = editor[r].edit[3]
    /\ editor[r].alone /\ editor[r].pc # "clear" /\ editor[r].edit[3] = "primary" =>
          expected.primary = NoServer /\ \A s \in Servers : servers[s] # "primary"
    /\ editor[r].alone /\ editor[r].pc = "update" /\ editor[r].edit[3] = Keep
          /\ editor[r].edit[2] = "primary" => servers[editor[r].row] = "primary"

ServersInv ==
    /\ servers \in [Servers -> {"none"} \cup Flags]
    /\ \A r \in Editors : editor[r].pc \in AtServers => ServerEdit(r)
    /\ PrimaryAsAsked

(* What other steps leave of resolvers is enough.                          *)
LEMMA ServersKept ==
    ASSUME ServersInv, ServersStay
    PROVE  ServersInv'
<1>1. servers' = servers /\ expected'.primary = expected.primary /\ Untouched(AtServers)
  BY DEF ServersStay
<1>2. PrimaryAsAsked' BY <1>1 DEF ServersInv, PrimaryAsAsked, Net!PrimaryAsAsked
<1>3. ASSUME NEW r \in Editors, editor'[r].pc \in AtServers
      PROVE  ServerEdit(r)'
  <2>1. Follows(r) BY <1>1, <1>3 DEF Untouched
  <2>2. ServerEdit(r) BY <1>3, <2>1 DEF ServersInv, Follows
  <2> QED BY <1>1, <2>1, <2>2 DEF ServerEdit, Follows
<1> QED BY <1>1, <1>2, <1>3 DEF ServersInv

(* What a handler that begins must know of what it carries.                *)
LEMMA ServerBegun ==
    ASSUME Locals, ServersInv, NEW r \in Editors, NEW pc, NEW s, NEW edit, Net!Begin(r, pc, s, edit),
           servers' = servers, expected' = expected,
           pc \in AtServers => ServerEdit(r)'
    PROVE  ServersInv'
<1>1. Others(r) /\ editor'[r].pc = pc BY Beginning
<1>2. PrimaryAsAsked' BY DEF ServersInv, PrimaryAsAsked, Net!PrimaryAsAsked
<1>3. ASSUME NEW x \in Editors, editor'[x].pc \in AtServers
      PROVE  ServerEdit(x)'
  <2>1. CASE x = r BY <1>1, <1>3, <2>1
  <2>2. CASE x # r
    <3>1. Follows(x) BY <1>1, <2>2 DEF Others
    <3>2. ServerEdit(x) BY <1>3, <3>1 DEF ServersInv, Follows
    <3> QED BY <3>1, <3>2 DEF ServerEdit, Follows
  <2> QED BY <2>1, <2>2
<1> QED BY <1>2, <1>3 DEF ServersInv

(* A resolver is added.                                                    *)
LEMMA PostServerInv ==
    ASSUME Locals, ServersInv, NEW r \in Editors, NEW s \in Servers, NEW flag \in Flags,
           Net!PostServer(r, s, flag)
    PROVE  ServersInv'
<1> DEFINE pc == IF flag = "primary" THEN "clear" ELSE "insert"
<1> DEFINE edit == <<"insert", flag, flag>>
<1>1. Net!Begin(r, pc, s, edit) /\ servers' = servers /\ expected' = expected
  BY DEF Net!PostServer, Net!tables
<1>2. /\ editor'[r].pc = pc /\ editor'[r].row = s /\ editor'[r].edit = edit
  BY <1>1, Beginning
<1>3. Keep \notin Flags BY NetworkAssumption DEF Net!ConstantsAssumption, Flags
<1>4. ServerEdit(r)' BY <1>2, <1>3 DEF ServerEdit, Flags
<1> QED BY <1>1, <1>4, ServerBegun

(* An edit of a resolver reads its row.                                    *)
LEMMA PatchServerInv ==
    ASSUME Locals, ServersInv, NEW r \in Editors, NEW s \in Servers, NEW flag \in Flags \cup {Keep},
           Net!PatchServer(r, s, flag)
    PROVE  ServersInv'
<1> DEFINE pc == IF flag = "primary" THEN "clear" ELSE "update"
<1> DEFINE edit == <<"update", Net!Given(flag, servers[s]), flag>>
<1>1. Net!Begin(r, pc, s, edit) /\ servers' = servers /\ expected' = expected /\ servers[s] # "none"
  BY DEF Net!PatchServer, Net!tables
<1>2. /\ editor'[r].pc = pc /\ editor'[r].row = s /\ editor'[r].edit = edit
  BY <1>1, Beginning
<1>3. Keep \notin Flags BY NetworkAssumption DEF Net!ConstantsAssumption, Flags
<1>4. servers[s] \in Flags BY <1>1 DEF ServersInv
<1>5. ServerEdit(r)' BY <1>1, <1>2, <1>3, <1>4 DEF ServerEdit, Flags, Net!Given
<1> QED BY <1>1, <1>5, ServerBegun

(* A resolver is deleted: nobody at work on them stays alone.              *)
LEMMA DeleteServerInv ==
    ASSUME Locals, History, ServersInv, NEW s \in Servers, Net!DeleteServer(s)
    PROVE  ServersInv'
<1>1. \A x \in Editors : Follows(x) /\ (editor'[x].alone => x \notin Net!Bystanders)
  BY Disturbing DEF Net!DeleteServer
<1>2. servers' = [servers EXCEPT ![s] = "none"] BY DEF Net!DeleteServer
<1>3. expected'.primary = IF expected.primary = s THEN NoServer ELSE expected.primary
  BY DEF Net!DeleteServer, History, Kept
<1>4. servers' \in [Servers -> {"none"} \cup Flags] BY <1>2 DEF ServersInv
<1>5. PrimaryAsAsked'
  BY <1>2, <1>3, NetworkAssumption
     DEF ServersInv, PrimaryAsAsked, Net!PrimaryAsAsked, Net!ConstantsAssumption
<1>6. ASSUME NEW x \in Editors, editor'[x].pc \in AtServers
      PROVE  ServerEdit(x)'
  <2>1. Follows(x) BY <1>1
  <2>2. ServerEdit(x) BY <1>6, <2>1 DEF ServersInv, Follows
  <2>3. ~editor'[x].alone BY <1>1, <1>6, <2>1 DEF Follows, Net!Bystanders, AtServers
  <2> QED BY <2>1, <2>2, <2>3 DEF ServerEdit, Follows
<1> QED BY <1>4, <1>5, <1>6 DEF ServersInv

(* The flags are cleared: only the handler that did is alone.              *)
LEMMA ClearInv ==
    ASSUME Locals, History, ServersInv, NEW r \in Editors, Net!Clear(r)
    PROVE  ServersInv'
<1>1. /\ Others(r) /\ editor'[r].pc = editor[r].edit[1] /\ editor'[r].row = editor[r].row
      /\ editor'[r].edit = editor[r].edit
      /\ \A x \in Editors \ {r} : editor'[x].alone => editor[x].pc \notin AtServers
  BY Clearing
<1>2. servers' = [s \in Servers |-> IF servers[s] = "none" THEN "none" ELSE "plain"]
  BY DEF Net!Clear
<1>3. expected'.primary = NoServer BY DEF Net!Clear, History, Kept
<1>4. servers' \in [Servers -> {"none"} \cup Flags] /\ \A s \in Servers : servers'[s] # "primary"
  BY <1>2 DEF ServersInv, Flags
<1>5. PrimaryAsAsked' BY <1>3, <1>4 DEF PrimaryAsAsked, Net!PrimaryAsAsked
<1>6. ServerEdit(r)'
  <2>1. editor[r].pc = "clear" BY DEF Net!Clear
  <2>2. ServerEdit(r) BY <2>1 DEF ServersInv, AtServers
  <2>3. Keep # "primary" BY NetworkAssumption DEF Net!ConstantsAssumption
  <2> QED BY <1>1, <1>3, <1>4, <2>1, <2>2, <2>3 DEF ServerEdit
<1>7. ASSUME NEW x \in Editors \ {r}, editor'[x].pc \in AtServers
      PROVE  ServerEdit(x)'
  <2>1. Follows(x) BY <1>1 DEF Others
  <2>2. ServerEdit(x) BY <1>7, <2>1 DEF ServersInv, Follows
  <2>3. ~editor'[x].alone BY <1>1, <1>7, <2>1 DEF Follows
  <2> QED BY <2>1, <2>2, <2>3 DEF ServerEdit, Follows
<1> QED BY <1>4, <1>5, <1>6, <1>7 DEF ServersInv

(* A resolver is written: a flag set alone is the only one.                *)
LEMMA WriteServerInv ==
    ASSUME Locals, History, ServersInv, NEW r \in Editors, Net!WriteServer(r)
    PROVE  ServersInv'
<1> DEFINE s == editor[r].row
<1> DEFINE flag == editor[r].edit[2]
<1> DEFINE found == servers[s] # "none" \/ editor[r].pc = "insert"
<1> DEFINE S == IF servers' = servers THEN {} ELSE Net!Bystanders
<1>1. Others(r) /\ editor'[r].pc = "idle" /\ \A x \in Editors \ {r} : editor'[x].alone => x \notin S
  BY DisturbingEnd DEF Net!WriteServer
<1>2. editor[r].pc \in {"insert", "update"} BY DEF Net!WriteServer
<1>3. ServerEdit(r) BY <1>2 DEF ServersInv, AtServers
<1>4. servers' = IF found THEN [servers EXCEPT ![s] = flag] ELSE servers BY DEF Net!WriteServer
<1>5. expected'.primary =
        IF ~found THEN expected.primary
        ELSE IF flag = "plain" THEN IF expected.primary = s THEN NoServer ELSE expected.primary
        ELSE IF ~editor[r].alone THEN Net!Unsure
        ELSE IF editor[r].edit[3] = "primary" THEN s ELSE expected.primary
  BY DEF Net!WriteServer, History, Kept
<1>6. s \in Servers /\ flag \in Flags BY <1>3 DEF ServerEdit
<1>7. /\ editor[r].alone /\ editor[r].edit[3] = "primary" =>
            expected.primary = NoServer /\ \A t \in Servers : servers[t] # "primary"
      /\ editor[r].alone /\ editor[r].edit[3] # "primary" /\ flag = "primary" => servers[s] = "primary"
  BY <1>2, <1>3 DEF ServerEdit, Flags
<1> HIDE DEF s, flag
<1>8. servers \in [Servers -> {"none"} \cup Flags] /\ PrimaryAsAsked BY DEF ServersInv
<1>9. servers' \in [Servers -> {"none"} \cup Flags] BY <1>4, <1>6, <1>8
<1>10. PrimaryAsAsked'
  <2>1. CASE ~found BY <1>4, <1>5, <1>8, <2>1 DEF PrimaryAsAsked, Net!PrimaryAsAsked
  <2>2. CASE found /\ flag = "plain"
    BY <1>4, <1>5, <1>6, <1>8, <2>2, NetworkAssumption
       DEF PrimaryAsAsked, Net!PrimaryAsAsked, Net!ConstantsAssumption
  <2>3. CASE found /\ flag = "primary" /\ ~editor[r].alone
    BY <1>5, <2>3 DEF PrimaryAsAsked, Net!PrimaryAsAsked
  <2>4. CASE found /\ flag = "primary" /\ editor[r].alone /\ editor[r].edit[3] = "primary"
    <3>1. expected'.primary = s /\ servers' = [servers EXCEPT ![s] = "primary"] BY <1>4, <1>5, <2>4
    <3>2. \A t \in Servers : servers[t] # "primary" BY <1>7, <2>4
    <3> QED BY <1>6, <1>8, <3>1, <3>2, NetworkAssumption
            DEF PrimaryAsAsked, Net!PrimaryAsAsked, Net!ConstantsAssumption
  <2>5. CASE found /\ flag = "primary" /\ editor[r].alone /\ editor[r].edit[3] # "primary"
    <3>1. expected'.primary = expected.primary BY <1>5, <2>5
    <3>2. servers' = servers BY <1>4, <1>6, <1>7, <1>8, <2>5
    <3> QED BY <1>8, <3>1, <3>2 DEF PrimaryAsAsked, Net!PrimaryAsAsked
  <2> QED BY <1>6, <2>1, <2>2, <2>3, <2>4, <2>5 DEF Flags
<1>11. ASSUME NEW x \in Editors \ {r}, editor'[x].pc \in AtServers
       PROVE  ServerEdit(x)'
  <2>1. Follows(x) BY <1>1 DEF Others
  <2>2. ServerEdit(x) BY <1>11, <2>1 DEF ServersInv, Follows
  <2>3. CASE servers' # servers
    <3>1. x \in Net!Bystanders BY <1>11, <2>1 DEF Follows, Net!Bystanders, AtServers
    <3>2. ~editor'[x].alone BY <1>1, <2>3, <3>1
    <3> QED BY <2>1, <2>2, <3>2 DEF ServerEdit, Follows
  <2>4. CASE servers' = servers
    <3>1. (\A t \in Servers : servers[t] # "primary") /\ expected.primary = NoServer =>
              expected'.primary = NoServer
      BY <1>4, <1>5, <1>6, <1>8, <2>4 DEF Flags
    <3> QED BY <2>1, <2>2, <2>4, <3>1 DEF ServerEdit, Follows
  <2> QED BY <2>3, <2>4
<1> QED BY <1>1, <1>9, <1>10, <1>11 DEF ServersInv, AtServers

(* Steps about resolvers keep what is known of them.                       *)
LEMMA ServersInductive ==
    ASSUME Locals, History, ServersInv, ServerSteps
    PROVE  ServersInv'
  BY PostServerInv, PatchServerInv, DeleteServerInv, ClearInv, WriteServerInv, Zenon
     DEF ServerSteps, Flags

-----------------------------------------------------------------------------
(* Backends, WARP and filters.                                             *)

(* An address left out is the one of the row, while the handler is alone.  *)
BackendEdit(r) ==
    /\ editor[r].row \in Net!Endpoints
    /\ editor[r].edit[1] # Keep => editor[r].edit[2] = editor[r].edit[1]
    /\ editor[r].alone /\ editor[r].edit[1] = Keep /\ backends[editor[r].row] # <<>> =>
          editor[r].edit[2] = backends[editor[r].row][1]

BackendsInv ==
    /\ backends = [b \in Net!Endpoints |-> backends[b]]
    /\ expected.url = [b \in Net!Endpoints |-> expected.url[b]]
    /\ expected.secret = [b \in Net!Endpoints |-> expected.secret[b]]
    /\ \A r \in Editors : editor[r].pc = "backend" => BackendEdit(r)
    /\ BackendAsAsked

(* What other steps leave of backends is enough.                           *)
LEMMA BackendsKept ==
    ASSUME BackendsInv, BackendsStay
    PROVE  BackendsInv'
<1>1. backends' = backends /\ expected'.url = expected.url /\ expected'.secret = expected.secret
      /\ Untouched(AtBackends)
  BY DEF BackendsStay
<1>2. BackendAsAsked' BY <1>1 DEF BackendsInv, BackendAsAsked, Net!BackendAsAsked
<1>3. ASSUME NEW r \in Editors, editor'[r].pc = "backend"
      PROVE  BackendEdit(r)'
  <2>1. Follows(r) BY <1>1, <1>3 DEF Untouched, AtBackends
  <2>2. BackendEdit(r) BY <1>3, <2>1 DEF BackendsInv, Follows
  <2> QED BY <1>1, <2>1, <2>2 DEF BackendEdit, Follows
<1> QED BY <1>1, <1>2, <1>3 DEF BackendsInv

(* One row and what is remembered of it change together.                   *)
LEMMA OneBackend ==
    ASSUME History, BackendsInv, NEW b \in Net!Endpoints, NEW row, NEW v, NEW w,
           backends' = [backends EXCEPT ![b] = row],
           expected' = [expected EXCEPT !.url[b] = v, !.secret[b] = w],
           row # <<>> => v \in {row[1], Net!Unsure} /\ w = row[2]
    PROVE  /\ backends' = [c \in Net!Endpoints |-> backends'[c]]
           /\ expected'.url = [c \in Net!Endpoints |-> expected'.url[c]]
           /\ expected'.secret = [c \in Net!Endpoints |-> expected'.secret[c]]
           /\ BackendAsAsked'
           /\ backends'[b] = row /\ \A c \in Net!Endpoints \ {b} : backends'[c] = backends[c]
<1>1. backends = [c \in Net!Endpoints |-> backends[c]] BY DEF BackendsInv
<1>2. /\ backends' = [c \in Net!Endpoints |-> backends'[c]]
      /\ backends'[b] = row /\ \A c \in Net!Endpoints \ {b} : backends'[c] = backends[c]
  BY <1>1
<1>3. /\ expected'.url = [expected.url EXCEPT ![b] = v]
      /\ expected'.secret = [expected.secret EXCEPT ![b] = w]
  BY DEF History, Kept
<1>4. /\ expected.url = [c \in Net!Endpoints |-> expected.url[c]]
      /\ expected.secret = [c \in Net!Endpoints |-> expected.secret[c]]
  BY DEF BackendsInv
<1>5. /\ expected'.url = [c \in Net!Endpoints |-> expected'.url[c]] /\ expected'.url[b] = v
      /\ \A c \in Net!Endpoints \ {b} : expected'.url[c] = expected.url[c]
  <2>1. PICK f : f = expected.url OBVIOUS
  <2>2. PICK g : g = expected'.url OBVIOUS
  <2>3. f = [c \in Net!Endpoints |-> f[c]] BY <1>4, <2>1
  <2>4. g = [f EXCEPT ![b] = v] BY <1>3, <2>1, <2>2
  <2>5. g = [c \in Net!Endpoints |-> g[c]] /\ g[b] = v /\ \A c \in Net!Endpoints \ {b} : g[c] = f[c]
    BY <2>3, <2>4
  <2> QED BY <2>1, <2>2, <2>5
<1>6. /\ expected'.secret = [c \in Net!Endpoints |-> expected'.secret[c]] /\ expected'.secret[b] = w
      /\ \A c \in Net!Endpoints \ {b} : expected'.secret[c] = expected.secret[c]
  <2>1. PICK f : f = expected.secret OBVIOUS
  <2>2. PICK g : g = expected'.secret OBVIOUS
  <2>3. f = [c \in Net!Endpoints |-> f[c]] BY <1>4, <2>1
  <2>4. g = [f EXCEPT ![b] = w] BY <1>3, <2>1, <2>2
  <2>5. g = [c \in Net!Endpoints |-> g[c]] /\ g[b] = w /\ \A c \in Net!Endpoints \ {b} : g[c] = f[c]
    BY <2>3, <2>4
  <2> QED BY <2>1, <2>2, <2>5
<1>7. BackendAsAsked BY DEF BackendsInv
<1>8. BackendAsAsked' BY <1>2, <1>5, <1>6, <1>7 DEF BackendAsAsked, Net!BackendAsAsked
<1> QED BY <1>2, <1>5, <1>6, <1>8

(* A backend is added, where nobody is at work on it.                      *)
LEMMA PostBackendInv ==
    ASSUME Locals, History, BackendsInv, NEW b \in Net!Endpoints, NEW v, NEW w,
           Net!PostBackend(b, v, w)
    PROVE  BackendsInv'
<1>1. \A x \in Editors : Follows(x) BY Unmoved DEF Net!PostBackend
<1>2. /\ backends' = [backends EXCEPT ![b] = <<v, w>>]
      /\ expected' = [expected EXCEPT !.url[b] = v, !.secret[b] = w]
      /\ \A x \in Editors : editor[x].row # b
  BY DEF Net!PostBackend
<1>3. /\ backends' = [c \in Net!Endpoints |-> backends'[c]]
      /\ expected'.url = [c \in Net!Endpoints |-> expected'.url[c]]
      /\ expected'.secret = [c \in Net!Endpoints |-> expected'.secret[c]]
      /\ BackendAsAsked'
      /\ \A c \in Net!Endpoints \ {b} : backends'[c] = backends[c]
  BY <1>2, OneBackend
<1>4. ASSUME NEW x \in Editors, editor'[x].pc = "backend"
      PROVE  BackendEdit(x)'
  <2>1. Follows(x) /\ editor[x].row # b BY <1>1, <1>2
  <2>2. BackendEdit(x) BY <1>4, <2>1 DEF BackendsInv, Follows
  <2> QED BY <1>3, <2>1, <2>2 DEF BackendEdit, Follows
<1> QED BY <1>3, <1>4 DEF BackendsInv

(* An edit of a backend reads its address.                                 *)
LEMMA PatchBackendInv ==
    ASSUME Locals, BackendsInv, NEW r \in Editors, NEW b \in Net!Endpoints, NEW v, NEW w,
           Net!PatchBackend(r, b, v, w)
    PROVE  BackendsInv'
<1> DEFINE edit == <<v, Net!Given(v, backends[b][1]), w>>
<1>1. Net!Begin(r, "backend", b, edit) /\ backends' = backends /\ expected' = expected
  BY DEF Net!PatchBackend, Net!tables
<1>2. Others(r) /\ editor'[r].row = b /\ editor'[r].edit = edit BY <1>1, Beginning
<1>3. BackendEdit(r)' BY <1>1, <1>2 DEF BackendEdit, Net!Given
<1>4. ASSUME NEW x \in Editors \ {r}, editor'[x].pc = "backend"
      PROVE  BackendEdit(x)'
  <2>1. Follows(x) BY <1>2 DEF Others
  <2>2. BackendEdit(x) BY <1>4, <2>1 DEF BackendsInv, Follows
  <2> QED BY <1>1, <2>1, <2>2 DEF BackendEdit, Follows
<1>5. BackendAsAsked' BY <1>1 DEF BackendsInv, BackendAsAsked, Net!BackendAsAsked
<1> QED BY <1>1, <1>3, <1>4, <1>5 DEF BackendsInv

(* A backend is deleted.                                                   *)
LEMMA DeleteBackendInv ==
    ASSUME Locals, History, BackendsInv, NEW b \in Net!Endpoints, Net!DeleteBackend(b)
    PROVE  BackendsInv'
<1>1. \A x \in Editors : Follows(x) BY Unmoved DEF Net!DeleteBackend
<1>2. /\ backends' = [backends EXCEPT ![b] = <<>>]
      /\ expected' = [expected EXCEPT !.url[b] = NoValue, !.secret[b] = NoValue]
  BY DEF Net!DeleteBackend
<1>3. /\ backends' = [c \in Net!Endpoints |-> backends'[c]]
      /\ expected'.url = [c \in Net!Endpoints |-> expected'.url[c]]
      /\ expected'.secret = [c \in Net!Endpoints |-> expected'.secret[c]]
      /\ BackendAsAsked'
      /\ backends'[b] = <<>> /\ \A c \in Net!Endpoints \ {b} : backends'[c] = backends[c]
  BY <1>2, OneBackend
<1>4. ASSUME NEW x \in Editors, editor'[x].pc = "backend"
      PROVE  BackendEdit(x)'
  <2>1. Follows(x) BY <1>1
  <2>2. BackendEdit(x) BY <1>4, <2>1 DEF BackendsInv, Follows
  <2> QED BY <1>3, <2>1, <2>2 DEF BackendEdit, Follows
<1> QED BY <1>3, <1>4 DEF BackendsInv

(* A backend is written: alone, with the address it had or was given.      *)
LEMMA WriteBackendInv ==
    ASSUME Locals, History, BackendsInv, NEW r \in Editors, Net!WriteBackend(r)
    PROVE  BackendsInv'
<1> DEFINE b == editor[r].row
<1> DEFINE given == editor[r].edit
<1>1. /\ Others(r) /\ editor'[r].pc = "idle"
      /\ \A x \in Editors \ {r} : editor'[x].alone => x \notin {y \in Editors : editor[y].row = b}
  BY DisturbingEnd DEF Net!WriteBackend
<1>2. BackendEdit(r) BY DEF BackendsInv, Net!WriteBackend
<1>3. b \in Net!Endpoints BY <1>2 DEF BackendEdit
<1>4. CASE backends[b] = <<>>
  <2>1. backends' = backends /\ expected' = expected BY <1>4 DEF Net!WriteBackend
  <2>2. ASSUME NEW x \in Editors \ {r}, editor'[x].pc = "backend"
        PROVE  BackendEdit(x)'
    <3>1. Follows(x) BY <1>1 DEF Others
    <3>2. BackendEdit(x) BY <2>2, <3>1 DEF BackendsInv, Follows
    <3> QED BY <2>1, <3>1, <3>2 DEF BackendEdit, Follows
  <2>3. BackendAsAsked' BY <2>1 DEF BackendsInv, BackendAsAsked, Net!BackendAsAsked
  <2> QED BY <1>1, <2>1, <2>2, <2>3 DEF BackendsInv
<1>5. CASE backends[b] # <<>>
  <2> DEFINE row == <<given[2], Net!Given(given[3], backends[b][2])>>
  <2> DEFINE v == IF given[1] # Keep THEN given[1]
                  ELSE IF editor[r].alone THEN expected.url[b] ELSE Net!Unsure
  <2> DEFINE w == Net!Given(given[3], expected.secret[b])
  <2>1. backends' = [backends EXCEPT ![b] = row] BY <1>5 DEF Net!WriteBackend
  <2>2. expected' = [expected EXCEPT !.url[b] = v, !.secret[b] = w]
    <3>1. expected' = [expected EXCEPT
                    !.url[b] = IF given[1] # Keep THEN given[1] ELSE IF editor[r].alone THEN @ ELSE Net!Unsure,
                    !.secret[b] = Net!Given(given[3], @)]
      BY <1>5 DEF Net!WriteBackend
    <3> QED BY <3>1 DEF History, Kept
  <2>3. v \in {row[1], Net!Unsure} /\ w = row[2]
    <3>1. expected.url[b] \in {backends[b][1], Net!Unsure} /\ expected.secret[b] = backends[b][2]
      BY <1>3, <1>5 DEF BackendsInv, BackendAsAsked, Net!BackendAsAsked
    <3>2. w = row[2] BY <3>1
    <3>3. v \in {given[2], Net!Unsure} BY <1>2, <1>5, <3>1 DEF BackendEdit
    <3> QED BY <3>2, <3>3
  <2> HIDE DEF row, v, w
  <2>4. /\ backends' = [c \in Net!Endpoints |-> backends'[c]]
        /\ expected'.url = [c \in Net!Endpoints |-> expected'.url[c]]
        /\ expected'.secret = [c \in Net!Endpoints |-> expected'.secret[c]]
        /\ BackendAsAsked'
        /\ \A c \in Net!Endpoints \ {b} : backends'[c] = backends[c]
    BY <1>3, <2>1, <2>2, <2>3, OneBackend
  <2>5. ASSUME NEW x \in Editors \ {r}, editor'[x].pc = "backend"
        PROVE  BackendEdit(x)'
    <3>1. Follows(x) BY <1>1 DEF Others
    <3>2. BackendEdit(x) BY <2>5, <3>1 DEF BackendsInv, Follows
    <3>3. editor'[x].alone => editor[x].row # b BY <1>1
    <3> QED BY <2>4, <3>1, <3>2, <3>3 DEF BackendEdit, Follows
  <2> QED BY <1>1, <2>4, <2>5 DEF BackendsInv
<1> QED BY <1>4, <1>5

(* Steps about backends keep what is known of them.                        *)
LEMMA BackendsInductive ==
    ASSUME Locals, History, BackendsInv, BackendSteps
    PROVE  BackendsInv'
  BY PostBackendInv, PatchBackendInv, DeleteBackendInv, WriteBackendInv, Zenon
     DEF BackendSteps

-----------------------------------------------------------------------------
(* Routing rules.                                                          *)

(* An edit of the whole rule, and every rule of an import, fits.           *)
RuleEdit(r) ==
    /\ editor[r].pc = "rule" =>
          editor[r].row \in Rules /\ editor[r].edit[3] \in {"whole", "half"}
              /\ (editor[r].edit[3] = "whole" => editor[r].edit[1] = editor[r].edit[2])
    /\ editor[r].pc \in {"wipe", "import"} => editor[r].edit[1] = editor[r].edit[2]

RulesInv ==
    /\ rules = [x \in Rules |-> rules[x]]
    /\ \A r \in Editors : RuleEdit(r)
    /\ RulesFit

(* What other steps leave of rules is enough.                              *)
LEMMA RulesKept ==
    ASSUME RulesInv, RulesStay
    PROVE  RulesInv'
<1>1. rules' = rules /\ expected'.half = expected.half /\ Untouched(AtRules)
  BY DEF RulesStay
<1>2. RulesFit' BY <1>1 DEF RulesInv, RulesFit, Net!RulesFit, Net!Fits
<1>3. ASSUME NEW r \in Editors
      PROVE  RuleEdit(r)'
  <2>1. editor'[r].pc \in AtRules => Follows(r) BY <1>1 DEF Untouched
  <2>2. RuleEdit(r) BY DEF RulesInv
  <2> QED BY <2>1, <2>2 DEF RuleEdit, Follows, AtRules
<1> QED BY <1>1, <1>2, <1>3 DEF RulesInv

(* Edits of rules do not depend on those of others.                        *)
LEMMA OtherEdits ==
    ASSUME RulesInv, NEW r \in Editors, Others(r)
    PROVE  \A x \in Editors \ {r} : RuleEdit(x)'
  BY DEF RulesInv, Others, Follows, RuleEdit

(* A rule is added.                                                        *)
LEMMA PostRuleInv ==
    ASSUME Locals, RulesInv, NEW x \in Rules, NEW rule \in Net!ValidRules, Net!PostRule(x, rule)
    PROVE  RulesInv'
<1>1. \A r \in Editors : Follows(r) BY Unmoved DEF Net!PostRule
<1>2. rules' = [rules EXCEPT ![x] = rule] /\ expected' = expected BY DEF Net!PostRule
<1>3. Net!Fits(rule) BY DEF Net!ValidRules, Net!Fits
<1>4. RulesFit' BY <1>2, <1>3 DEF RulesInv, RulesFit, Net!RulesFit
<1>5. \A r \in Editors : RuleEdit(r)' BY <1>1 DEF RulesInv, Follows, RuleEdit
<1> QED BY <1>2, <1>4, <1>5 DEF RulesInv

(* An edit of a rule is whole, or known to be by halves.                   *)
LEMMA PatchRuleInv ==
    ASSUME Locals, RulesInv, NEW r \in Editors, NEW x \in Rules, NEW k, NEW p,
           Net!PatchRule(r, x, k, p)
    PROVE  RulesInv'
<1> DEFINE edit == <<Net!Given(k, rules[x][1]), Net!Given(p, rules[x][2]), Net!Match(x, k, p)>>
<1>1. /\ Net!Begin(r, "rule", x, edit) /\ rules' = rules /\ expected' = expected
      /\ rules[x] # <<>> /\ (Keep \in {k, p} \/ Net!Fits(<<k, p>>))
  BY DEF Net!PatchRule, Net!tables
<1>2. Others(r) /\ editor'[r].pc = "rule" /\ editor'[r].row = x /\ editor'[r].edit = edit
  BY <1>1, Beginning
<1>3. Net!Match(x, k, p) \in {"whole", "half"} BY DEF Net!Match
<1>4. ASSUME Net!Match(x, k, p) = "whole" PROVE edit[1] = edit[2]
  <2>1. CASE Keep \notin {k, p}
    <3>1. k = p BY <1>1, <2>1 DEF Net!Fits
    <3> QED BY <2>1, <3>1 DEF Net!Given
  <2>2. CASE k = Keep /\ p = Keep /\ x \notin expected.half
    <3>1. rules[x][1] = rules[x][2] BY <1>1, <2>2 DEF RulesInv, RulesFit, Net!RulesFit, Net!Fits
    <3> QED BY <2>2, <3>1 DEF Net!Given
  <2> QED BY <1>4, <2>1, <2>2 DEF Net!Match
<1>5. RuleEdit(r)' BY <1>2, <1>3, <1>4 DEF RuleEdit
<1>6. RulesFit' BY <1>1 DEF RulesInv, RulesFit, Net!RulesFit, Net!Fits
<1> QED BY <1>1, <1>2, <1>5, <1>6, OtherEdits DEF RulesInv

(* A rule is deleted.                                                      *)
LEMMA DeleteRuleInv ==
    ASSUME Locals, History, RulesInv, NEW x \in Rules, Net!DeleteRule(x)
    PROVE  RulesInv'
<1>1. \A r \in Editors : Follows(r) BY Unmoved DEF Net!DeleteRule
<1>2. rules' = [rules EXCEPT ![x] = <<>>] BY DEF Net!DeleteRule
<1>3. expected'.half = expected.half \ {x} BY DEF Net!DeleteRule, History, Kept
<1>4. RulesFit' BY <1>2, <1>3 DEF RulesInv, RulesFit, Net!RulesFit, Net!Fits
<1>5. \A r \in Editors : RuleEdit(r)' BY <1>1 DEF RulesInv, Follows, RuleEdit
<1> QED BY <1>2, <1>4, <1>5 DEF RulesInv

(* An import has validated what it carries.                                *)
LEMMA ImportInv ==
    ASSUME Locals, RulesInv, NEW r \in Editors, NEW replace, NEW rule \in Net!ValidRules,
           Net!Import(r, replace, rule)
    PROVE  RulesInv'
<1>1. PICK pc : pc \in {"wipe", "import"} /\ Net!Begin(r, pc, NoServer, rule)
  BY DEF Net!Import
<1>2. rules' = rules /\ expected' = expected BY DEF Net!Import, Net!tables
<1>3. Others(r) /\ editor'[r].pc = pc /\ editor'[r].edit = rule BY <1>1, Beginning
<1>4. rule[1] = rule[2] BY DEF Net!ValidRules
<1>5. RuleEdit(r)' BY <1>1, <1>3, <1>4 DEF RuleEdit
<1>6. RulesFit' BY <1>2 DEF RulesInv, RulesFit, Net!RulesFit, Net!Fits
<1> QED BY <1>2, <1>3, <1>5, <1>6, OtherEdits DEF RulesInv

(* A rule is written, with what the edit has read.                         *)
LEMMA WriteRuleInv ==
    ASSUME Locals, History, RulesInv, NEW r \in Editors, Net!WriteRule(r)
    PROVE  RulesInv'
<1> DEFINE x == editor[r].row
<1> DEFINE new == editor[r].edit
<1>1. Others(r) /\ editor'[r].pc = "idle" BY Ending DEF Net!WriteRule
<1>2. /\ x \in Rules /\ new[3] \in {"whole", "half"} /\ (new[3] = "whole" => new[1] = new[2])
  BY DEF Net!WriteRule, RulesInv, RuleEdit
<1>3. RuleEdit(r)' BY <1>1 DEF RuleEdit
<1>4. RulesFit' /\ rules' = [y \in Rules |-> rules'[y]]
  <2>1. CASE rules[x] = <<>>
    BY <2>1 DEF Net!WriteRule, RulesInv, RulesFit, Net!RulesFit, Net!Fits
  <2>2. CASE rules[x] # <<>>
    <3>1. rules' = [rules EXCEPT ![x] = <<new[1], new[2]>>] BY <2>2 DEF Net!WriteRule
    <3>2. expected'.half = IF new[3] = "half" THEN expected.half \cup {x} ELSE expected.half \ {x}
      BY <2>2 DEF Net!WriteRule, History, Kept
    <3>3. rules = [y \in Rules |-> rules[y]] /\ RulesFit BY DEF RulesInv
    <3> HIDE DEF x, new
    <3>4. /\ rules' = [y \in Rules |-> rules'[y]] /\ rules'[x] = <<new[1], new[2]>>
          /\ \A y \in Rules \ {x} : rules'[y] = rules[y]
      BY <1>2, <3>1, <3>3
    <3>5. ASSUME NEW y \in Rules, rules'[y] # <<>>, y \notin expected'.half
          PROVE  rules'[y][1] = rules'[y][2]
      <4>1. CASE y = x BY <1>2, <3>2, <3>4, <3>5, <4>1
      <4>2. CASE y # x BY <3>2, <3>3, <3>4, <3>5, <4>2 DEF RulesFit, Net!RulesFit, Net!Fits
      <4> QED BY <4>1, <4>2
    <3> QED BY <3>4, <3>5 DEF RulesFit, Net!RulesFit, Net!Fits
  <2> QED BY <2>1, <2>2
<1> QED BY <1>1, <1>3, <1>4, OtherEdits DEF RulesInv

(* All rules are deleted.                                                  *)
LEMMA WipeInv ==
    ASSUME Locals, RulesInv, NEW r \in Editors, Net!Wipe(r)
    PROVE  RulesInv'
<1>1. Others(r) /\ editor'[r].pc = "import" /\ editor'[r].edit = editor[r].edit
  BY Wiping DEF Net!Wipe
<1>2. editor[r].edit[1] = editor[r].edit[2] BY DEF Net!Wipe, RulesInv, RuleEdit
<1>3. rules' = [x \in Rules |-> <<>>] BY DEF Net!Wipe
<1>4. RuleEdit(r)' BY <1>1, <1>2 DEF RuleEdit
<1>5. RulesFit' BY <1>3 DEF RulesFit, Net!RulesFit
<1> QED BY <1>1, <1>3, <1>4, <1>5, OtherEdits DEF RulesInv

(* The rules of an import are inserted.                                    *)
LEMMA InsertRulesInv ==
    ASSUME Locals, RulesInv, NEW r \in Editors, Net!InsertRules(r)
    PROVE  RulesInv'
<1>1. Others(r) /\ editor'[r].pc = "idle" BY Ending DEF Net!InsertRules
<1>2. PICK x \in Rules : rules' = [rules EXCEPT ![x] = editor[r].edit]
  BY DEF Net!InsertRules
<1>3. expected' = expected BY DEF Net!InsertRules
<1>4. editor[r].edit[1] = editor[r].edit[2] BY DEF Net!InsertRules, RulesInv, RuleEdit
<1>5. RuleEdit(r)' BY <1>1 DEF RuleEdit
<1>6. RulesFit' BY <1>2, <1>3, <1>4 DEF RulesInv, RulesFit, Net!RulesFit, Net!Fits
<1> QED BY <1>1, <1>2, <1>5, <1>6, OtherEdits DEF RulesInv

(* Steps about rules keep what is known of them.                           *)
LEMMA RulesInductive ==
    ASSUME Locals, History, RulesInv, RuleSteps
    PROVE  RulesInv'
  BY PostRuleInv, PatchRuleInv, DeleteRuleInv, ImportInv, WriteRuleInv, WipeInv, InsertRulesInv, Zenon
     DEF RuleSteps

-----------------------------------------------------------------------------
(* Chains.                                                                 *)
Hops == Nodes \cup {Outside}

(* A validation has passed nodes that are on, or have been switched since. *)
ChainEdit(r) ==
    /\ editor[r].row \in Chains
    /\ editor[r].edit \in Seq(Hops) /\ editor[r].left \in Seq(Hops) /\ editor[r].edit # <<>>
    /\ editor[r].left # editor[r].edit => ~Net!Twice(editor[r].edit)
    /\ \A n \in (Net!ToSet(editor[r].edit) \ Net!ToSet(editor[r].left)) \cap Nodes :
          n \in editor[r].moved \/ switches[n] = "on"

ChainsInv ==
    /\ chains \in [Chains -> Seq(Hops)]
    /\ switches = [n \in Nodes |-> switches[n]]
    /\ expected.moved = [c \in Chains |-> expected.moved[c]]
    /\ \A r \in Editors : editor[r].pc = "hops" => ChainEdit(r)
    /\ ChainsSound

(* An element of a sequence is its head or in its tail.                    *)
LEMMA HeadOrTail ==
    ASSUME NEW S, NEW s \in Seq(S), s # <<>>
    PROVE  /\ Head(s) \in S /\ Tail(s) \in Seq(S)
           /\ Net!ToSet(s) \subseteq {Head(s)} \cup Net!ToSet(Tail(s))
<1>1. Head(s) \in S /\ Tail(s) \in Seq(S) /\ Len(s) \in Nat /\ DOMAIN s = 1 .. Len(s)
      /\ Len(Tail(s)) = Len(s) - 1 /\ DOMAIN Tail(s) = 1 .. Len(Tail(s))
  OBVIOUS
<1>2. ASSUME NEW i \in DOMAIN s PROVE s[i] \in {Head(s)} \cup Net!ToSet(Tail(s))
  <2>1. CASE i = 1 BY <2>1
  <2>2. CASE i # 1
    <3>1. i - 1 \in DOMAIN Tail(s) /\ Tail(s)[i - 1] = s[i] BY <1>1, <1>2, <2>2
    <3> QED BY <3>1 DEF Net!ToSet
  <2> QED BY <2>1, <2>2
<1> QED BY <1>1, <1>2 DEF Net!ToSet

(* What other steps leave of chains is enough.                             *)
LEMMA ChainsKept ==
    ASSUME ChainsInv, ChainsStay
    PROVE  ChainsInv'
<1>1. chains' = chains /\ switches' = switches /\ expected'.moved = expected.moved
      /\ Untouched(AtChains)
  BY DEF ChainsStay
<1>2. ChainsSound' BY <1>1 DEF ChainsInv, ChainsSound, Net!ChainsSound
<1>3. ASSUME NEW r \in Editors, editor'[r].pc = "hops"
      PROVE  ChainEdit(r)'
  <2>1. Follows(r) BY <1>1, <1>3 DEF Untouched, AtChains
  <2>2. ChainEdit(r) BY <1>3, <2>1 DEF ChainsInv, Follows
  <2> QED BY <1>1, <2>1, <2>2 DEF ChainEdit, Follows
<1> QED BY <1>1, <1>2, <1>3 DEF ChainsInv

(* A step of one handler that changes no row.                              *)
LEMMA ChainChecked ==
    ASSUME ChainsInv, NEW r \in Editors, Others(r),
           chains' = chains, switches' = switches, expected'.moved = expected.moved,
           editor'[r].pc = "hops" => ChainEdit(r)'
    PROVE  ChainsInv'
<1>1. ASSUME NEW x \in Editors, editor'[x].pc = "hops"
      PROVE  ChainEdit(x)'
  <2>1. CASE x = r BY <1>1, <2>1
  <2>2. CASE x # r
    <3>1. Follows(x) BY <2>2 DEF Others
    <3>2. ChainEdit(x) BY <1>1, <3>1 DEF ChainsInv, Follows
    <3> QED BY <3>1, <3>2 DEF ChainEdit, Follows
  <2> QED BY <2>1, <2>2
<1>2. ChainsSound' BY DEF ChainsInv, ChainsSound, Net!ChainsSound
<1> QED BY <1>1, <1>2 DEF ChainsInv

(* A chain is to be added: every hop is left to ask.                       *)
LEMMA PostChainInv ==
    ASSUME Locals, ChainsInv, NEW r \in Editors, NEW c \in Chains, NEW hops \in Seq(Hops), hops # <<>>,
           Net!PostChain(r, c, hops)
    PROVE  ChainsInv'
<1>1. /\ Others(r) /\ editor'[r].row = c /\ editor'[r].edit = hops /\ editor'[r].left = hops
  <2> DEFINE n == [Net!Idle EXCEPT !.pc = "hops", !.row = c, !.edit = hops, !.new = TRUE, !.left = hops]
  <2>1. editor' = [editor EXCEPT ![r] = n] BY DEF Net!PostChain
  <2>2. n = [Net!Idle EXCEPT !.pc = "hops", !.row = c, !.edit = hops, !.new = TRUE, !.left = hops]
    OBVIOUS
  <2> HIDE DEF n
  <2> QED BY <2>1, <2>2, Validating
<1>2. chains' = chains /\ switches' = switches /\ expected' = expected
  BY DEF Net!PostChain, Net!tables
<1>3. ChainEdit(r)' BY <1>1 DEF ChainEdit
<1> QED BY <1>1, <1>2, <1>3, ChainChecked

(* A chain is to be changed: every hop is left to ask.                     *)
LEMMA PatchChainInv ==
    ASSUME Locals, ChainsInv, NEW r \in Editors, NEW c \in Chains, NEW hops,
           hops = Keep \/ (hops \in Seq(Hops) /\ hops # <<>>),
           Net!PatchChain(r, c, hops)
    PROVE  ChainsInv'
<1> DEFINE new == IF hops = Keep THEN chains[c] ELSE hops
<1>1. /\ Others(r) /\ editor'[r].row = c /\ editor'[r].edit = new /\ editor'[r].left = new
  <2> DEFINE n == [Net!Idle EXCEPT !.pc = "hops", !.row = c, !.edit = new, !.left = new]
  <2>1. editor' = [editor EXCEPT ![r] = n] BY DEF Net!PatchChain
  <2>2. n = [Net!Idle EXCEPT !.pc = "hops", !.row = c, !.edit = new, !.left = new]
    OBVIOUS
  <2> HIDE DEF n, new
  <2> QED BY <2>1, <2>2, Validating
<1>2. chains' = chains /\ switches' = switches /\ expected' = expected /\ chains[c] # <<>>
  BY DEF Net!PatchChain, Net!tables
<1>3. new \in Seq(Hops) /\ new # <<>> BY <1>2 DEF ChainsInv
<1>4. ChainEdit(r)' BY <1>1, <1>3 DEF ChainEdit
<1> QED BY <1>1, <1>2, <1>4, ChainChecked

(* A hop has passed: it is outside, or a node that is on.                  *)
LEMMA CheckHopInv ==
    ASSUME Locals, ChainsInv, NEW r \in Editors, Net!CheckHop(r)
    PROVE  ChainsInv'
<1> DEFINE left == editor[r].left
<1>1. /\ Others(r)
      /\ editor'[r].pc = "hops" =>
            /\ Net!Passes(Head(left)) /\ ~Net!Twice(editor[r].edit)
            /\ editor'[r].left = Tail(left) /\ editor'[r].row = editor[r].row
            /\ editor'[r].edit = editor[r].edit /\ editor'[r].moved = editor[r].moved
  BY Checking
<1>2. chains' = chains /\ switches' = switches /\ expected' = expected /\ left # <<>>
  BY DEF Net!CheckHop, Net!tables
<1>3. ChainEdit(r) BY DEF ChainsInv, Net!CheckHop
<1>4. ASSUME editor'[r].pc = "hops" PROVE ChainEdit(r)'
  <2>1. left \in Seq(Hops) BY <1>3 DEF ChainEdit
  <2> HIDE DEF left
  <2>2. /\ Tail(left) \in Seq(Hops) /\ Net!ToSet(left) \subseteq {Head(left)} \cup Net!ToSet(Tail(left))
    BY <1>2, <2>1, HeadOrTail
  <2>3. \A n \in (Net!ToSet(editor[r].edit) \ Net!ToSet(left)) \cap Nodes :
            n \in editor[r].moved \/ switches[n] = "on"
    BY <1>3 DEF ChainEdit, left
  <2>4. ASSUME NEW n \in (Net!ToSet(editor[r].edit) \ Net!ToSet(Tail(left))) \cap Nodes
        PROVE  n \in editor[r].moved \/ switches[n] = "on"
    <3>1. CASE n \in Net!ToSet(left)
      <4>1. n = Head(left) BY <2>2, <3>1
      <4>2. n # Outside BY NetworkAssumption DEF Net!ConstantsAssumption
      <4> QED BY <1>1, <1>4, <4>1, <4>2 DEF Net!Passes
    <3>2. CASE n \notin Net!ToSet(left) BY <2>3, <3>2
    <3> QED BY <3>1, <3>2
  <2> QED BY <1>1, <1>2, <1>3, <1>4, <2>2, <2>4 DEF ChainEdit
<1> QED BY <1>1, <1>2, <1>4, ChainChecked

(* A chain is written when every hop has passed.                           *)
LEMMA WriteChainInv ==
    ASSUME Locals, History, ChainsInv, NEW r \in Editors, Net!WriteChain(r)
    PROVE  ChainsInv'
<1> DEFINE c == editor[r].row
<1>1. Others(r) /\ editor'[r].pc = "idle" BY Ending DEF Net!WriteChain
<1>2. ChainEdit(r) BY DEF ChainsInv, Net!WriteChain
<1>3. switches' = switches BY DEF Net!WriteChain
<1>4. CASE ~(chains[c] # <<>> \/ editor[r].new)
  <2>1. chains' = chains /\ expected' = expected BY <1>4 DEF Net!WriteChain
  <2> QED BY <1>1, <1>3, <2>1, ChainChecked
<1>5. CASE chains[c] # <<>> \/ editor[r].new
  <2> DEFINE new == editor[r].edit
  <2> DEFINE m == editor[r].moved
  <2>1. chains' = [chains EXCEPT ![c] = new] BY <1>5 DEF Net!WriteChain
  <2>2. expected'.moved = [expected.moved EXCEPT ![c] = m] BY <1>5 DEF Net!WriteChain, History, Kept
  <2>3. c \in Chains /\ new \in Seq(Hops) /\ ~Net!Twice(new)
    BY <1>2 DEF ChainEdit, Net!WriteChain
  <2>4. \A n \in Net!ToSet(new) \cap Nodes : n \in m \/ switches[n] = "on"
    <3>1. editor[r].left = <<>> BY DEF Net!WriteChain
    <3>2. Net!ToSet(editor[r].left) = {} BY <3>1 DEF Net!ToSet
    <3> QED BY <1>2, <3>2 DEF ChainEdit
  <2> HIDE DEF c, new, m
  <2>5. chains' \in [Chains -> Seq(Hops)] /\ chains'[c] = new
        /\ \A d \in Chains \ {c} : chains'[d] = chains[d]
    BY <2>1, <2>3 DEF ChainsInv
  <2>6. /\ expected'.moved = [d \in Chains |-> expected'.moved[d]] /\ expected'.moved[c] = m
        /\ \A d \in Chains \ {c} : expected'.moved[d] = expected.moved[d]
    <3>1. PICK f : f = expected.moved OBVIOUS
    <3>2. PICK g : g = expected'.moved OBVIOUS
    <3>3. f = [d \in Chains |-> f[d]] BY <3>1 DEF ChainsInv
    <3>4. g = [f EXCEPT ![c] = m] BY <2>2, <3>1, <3>2
    <3>5. g = [d \in Chains |-> g[d]] /\ g[c] = m /\ \A d \in Chains \ {c} : g[d] = f[d]
      BY <2>3, <3>3, <3>4
    <3> QED BY <3>1, <3>2, <3>5
  <2>7. ChainsSound'
    <3>1. ASSUME NEW d \in Chains
          PROVE  /\ ~Net!Twice(chains'[d])
                 /\ \A n \in (Net!ToSet(chains'[d]) \cap Nodes) \ expected'.moved[d] : switches[n] = "on"
      <4>1. CASE d = c BY <2>3, <2>4, <2>5, <2>6, <4>1
      <4>2. CASE d # c BY <2>5, <2>6, <4>2 DEF ChainsInv, ChainsSound, Net!ChainsSound
      <4> QED BY <4>1, <4>2
    <3> QED BY <1>3, <3>1 DEF ChainsSound, Net!ChainsSound, Net!Twice, Net!ToSet
  <2>8. ASSUME NEW x \in Editors, editor'[x].pc = "hops"
        PROVE  ChainEdit(x)'
    <3>1. Follows(x) BY <1>1, <2>8 DEF Others
    <3>2. ChainEdit(x) BY <2>8, <3>1 DEF ChainsInv, Follows
    <3> QED BY <1>3, <3>1, <3>2 DEF ChainEdit, Follows
  <2>9. switches = [n \in Nodes |-> switches[n]] BY DEF ChainsInv
  <2> QED BY <1>3, <2>5, <2>6, <2>7, <2>8, <2>9 DEF ChainsInv
<1> QED BY <1>4, <1>5

(* A chain is deleted.                                                     *)
LEMMA DeleteChainInv ==
    ASSUME Locals, History, ChainsInv, NEW c \in Chains, Net!DeleteChain(c)
    PROVE  ChainsInv'
<1>1. \A x \in Editors : Follows(x) BY Unmoved DEF Net!DeleteChain
<1>2. /\ chains' = [chains EXCEPT ![c] = <<>>] /\ switches' = switches
      /\ expected'.moved = [expected.moved EXCEPT ![c] = {}]
  BY DEF Net!DeleteChain, History, Kept
<1>3. chains' \in [Chains -> Seq(Hops)] /\ chains'[c] = <<>>
      /\ \A d \in Chains \ {c} : chains'[d] = chains[d]
  BY <1>2 DEF ChainsInv
<1>4. /\ expected'.moved = [d \in Chains |-> expected'.moved[d]]
      /\ \A d \in Chains \ {c} : expected'.moved[d] = expected.moved[d]
  <2>1. PICK f : f = expected.moved OBVIOUS
  <2>2. PICK g : g = expected'.moved OBVIOUS
  <2>3. f = [d \in Chains |-> f[d]] BY <2>1 DEF ChainsInv
  <2>4. g = [f EXCEPT ![c] = {}] BY <1>2, <2>1, <2>2
  <2>5. g = [d \in Chains |-> g[d]] /\ \A d \in Chains \ {c} : g[d] = f[d] BY <2>3, <2>4
  <2> QED BY <2>1, <2>2, <2>5
<1>5. ChainsSound'
  <2>1. ~Net!Twice(<<>>) /\ Net!ToSet(<<>>) = {} BY DEF Net!Twice, Net!ToSet
  <2>2. ASSUME NEW d \in Chains
        PROVE  /\ ~Net!Twice(chains'[d])
               /\ \A n \in (Net!ToSet(chains'[d]) \cap Nodes) \ expected'.moved[d] : switches[n] = "on"
    <3>1. CASE d = c BY <1>3, <2>1, <3>1
    <3>2. CASE d # c BY <1>3, <1>4, <3>2 DEF ChainsInv, ChainsSound, Net!ChainsSound
    <3> QED BY <3>1, <3>2
  <2> QED BY <1>2, <2>2 DEF ChainsSound, Net!ChainsSound, Net!Twice, Net!ToSet
<1>6. ASSUME NEW x \in Editors, editor'[x].pc = "hops"
      PROVE  ChainEdit(x)'
  <2>1. Follows(x) BY <1>1
  <2>2. ChainEdit(x) BY <1>6, <2>1 DEF ChainsInv, Follows
  <2> QED BY <1>2, <2>1, <2>2 DEF ChainEdit, Follows
<1> QED BY <1>2, <1>3, <1>4, <1>5, <1>6 DEF ChainsInv

(* A node is switched: chains and validations that knew it note that.      *)
LEMMA SwitchNodeInv ==
    ASSUME Locals, History, ChainsInv, NEW n \in Nodes, NEW to, Net!SwitchNode(n, to)
    PROVE  ChainsInv'
<1>1. \A x \in Editors : Marks(x, n) BY Marking
<1>2. switches' = [switches EXCEPT ![n] = to] /\ chains' = chains BY DEF Net!SwitchNode
<1>3. expected'.moved = [c \in Chains |-> expected.moved[c] \cup ({n} \cap Net!ToSet(chains[c]))]
  BY DEF Net!SwitchNode, History, Kept
<1>4. switches' = [k \in Nodes |-> switches'[k]] /\ \A k \in Nodes \ {n} : switches'[k] = switches[k]
  BY <1>2 DEF ChainsInv
<1>5. ChainsSound'
  <2>1. ASSUME NEW c \in Chains
        PROVE  /\ ~Net!Twice(chains[c])
               /\ \A k \in (Net!ToSet(chains[c]) \cap Nodes) \ expected'.moved[c] : switches'[k] = "on"
    BY <1>3, <1>4 DEF ChainsInv, ChainsSound, Net!ChainsSound
  <2> QED BY <1>2, <2>1 DEF ChainsSound, Net!ChainsSound, Net!Twice, Net!ToSet
<1>6. ASSUME NEW x \in Editors, editor'[x].pc = "hops"
      PROVE  ChainEdit(x)'
  <2>1. {"pc", "row", "edit", "left"} \subseteq Carried \ {"moved"} BY DEF Carried
  <2>2. /\ editor'[x].pc = editor[x].pc /\ editor'[x].row = editor[x].row
        /\ editor'[x].edit = editor[x].edit /\ editor'[x].left = editor[x].left
    BY <1>1, <2>1 DEF Marks
  <2>3. ChainEdit(x) BY <1>6, <2>2 DEF ChainsInv
  <2> DEFINE Seen == Net!ToSet(editor[x].edit) \ Net!ToSet(editor[x].left)
  <2>4. editor'[x].moved = editor[x].moved \cup ({n} \cap Seen)
    BY <1>1, <1>6, <2>2 DEF Marks, AtChains
  <2>5. \A k \in Seen \cap Nodes : k \in editor[x].moved \/ switches[k] = "on"
    BY <2>3 DEF ChainEdit
  <2> HIDE DEF Seen
  <2>6. \A k \in Seen \cap Nodes : k \in editor'[x].moved \/ switches'[k] = "on"
    BY <1>4, <2>4, <2>5
  <2> QED BY <2>2, <2>3, <2>6 DEF ChainEdit, Seen, Net!ToSet, Net!Twice
<1>7. expected'.moved = [c \in Chains |-> expected'.moved[c]] BY <1>3
<1> QED BY <1>2, <1>4, <1>5, <1>6, <1>7 DEF ChainsInv

(* Steps about chains and nodes keep what is known of them.                *)
LEMMA ChainsInductive ==
    ASSUME Locals, History, ChainsInv, ChainSteps
    PROVE  ChainsInv'
<1>1. \A h, i \in Hops : <<h, i>> \in Seq(Hops) /\ <<h, i>> # <<>> OBVIOUS
<1> QED
  BY <1>1, PostChainInv, PatchChainInv, CheckHopInv, WriteChainInv, DeleteChainInv, SwitchNodeInv, Zenon
     DEF ChainSteps, Hops

-----------------------------------------------------------------------------
(* The inductive invariant: what each kind of handler carries agrees with  *)
(* what is remembered and stored, and no kind meddles with another's.      *)
NetInv == Locals /\ History /\ ServersInv /\ BackendsInv /\ RulesInv /\ ChainsInv

(* Nothing is stored at first, and nobody is at work.                      *)
LEMMA NetStart == Net!Init => NetInv
<1> SUFFICES ASSUME Net!Init PROVE NetInv
  OBVIOUS
<1>1. Locals /\ \A r \in Editors : editor[r].pc = "idle" BY IdleCarried DEF Net!Init, Locals
<1>2. /\ History /\ expected.primary = NoServer
      /\ expected.url = [b \in Net!Endpoints |-> NoValue]
      /\ expected.secret = [b \in Net!Endpoints |-> NoValue]
      /\ expected.moved = [c \in Chains |-> {}]
  BY DEF Net!Init, History, Kept
<1>3. ServersInv
  <2>1. servers = [s \in Servers |-> "none"] BY DEF Net!Init
  <2>2. PrimaryAsAsked
    BY <1>2, <2>1 DEF PrimaryAsAsked, Net!PrimaryAsAsked
  <2> QED BY <1>1, <2>1, <2>2 DEF ServersInv, AtServers
<1>4. BackendsInv
  <2>1. backends = [b \in Net!Endpoints |-> <<>>] BY DEF Net!Init
  <2> QED BY <1>1, <1>2, <2>1 DEF BackendsInv, BackendAsAsked, Net!BackendAsAsked
<1>5. RulesInv
  <2>1. rules = [x \in Rules |-> <<>>] BY DEF Net!Init
  <2> QED BY <1>1, <2>1 DEF RulesInv, RuleEdit, RulesFit, Net!RulesFit
<1>6. ChainsInv
  <2>1. chains = [c \in Chains |-> <<>>] /\ switches \in [Nodes -> {"off", "on"}] BY DEF Net!Init
  <2>2. ~Net!Twice(<<>>) /\ Net!ToSet(<<>>) = {} BY DEF Net!Twice, Net!ToSet
  <2>3. ChainsSound BY <2>1, <2>2 DEF ChainsSound, Net!ChainsSound
  <2>4. chains \in [Chains -> Seq(Hops)] BY <2>1
  <2> QED BY <1>1, <1>2, <2>1, <2>3, <2>4 DEF ChainsInv
<1> QED BY <1>1, <1>2, <1>3, <1>4, <1>5, <1>6 DEF NetInv

(* Every step keeps the invariant.                                         *)
LEMMA NetStep == NetInv /\ [Net!Next]_(Net!vars) => NetInv'
<1> SUFFICES ASSUME NetInv, [Net!Next]_(Net!vars) PROVE NetInv'
  OBVIOUS
<1> USE DEF NetInv
<1>1. CASE ServerSteps
  <2>1. \A r \in Editors : editor[r].pc = "clear" => editor[r].edit[1] \in {"insert", "update"}
    BY DEF ServersInv, ServerEdit, AtServers
  <2> QED BY <1>1, <2>1, ServersApart, ServersInductive, BackendsKept, RulesKept, ChainsKept
<1>2. CASE BackendSteps
  BY <1>2, BackendsApart, BackendsInductive, ServersKept, RulesKept, ChainsKept
<1>3. CASE RuleSteps
  BY <1>3, RulesApart, RulesInductive, ServersKept, BackendsKept, ChainsKept
<1>4. CASE ChainSteps
  BY <1>4, ChainsApart, ChainsInductive, ServersKept, BackendsKept, RulesKept
<1>5. CASE OtherSteps
  BY <1>5, OthersApart, ServersKept, BackendsKept, RulesKept, ChainsKept
<1>6. CASE UNCHANGED Net!vars
  <2>1. /\ servers' = servers /\ backends' = backends /\ rules' = rules /\ chains' = chains
        /\ switches' = switches /\ editor' = editor /\ expected' = expected
    BY <1>6 DEF Net!vars
  <2>2. Locals' /\ History' /\ \A x \in Editors : Follows(x) BY <2>1, Unmoved DEF History
  <2>3. ServersStay /\ BackendsStay /\ RulesStay /\ ChainsStay
    BY <2>1, <2>2, Following DEF ServersStay, BackendsStay, RulesStay, ChainsStay
  <2> QED BY <2>2, <2>3, ServersKept, BackendsKept, RulesKept, ChainsKept
<1> QED BY <1>1, <1>2, <1>3, <1>4, <1>5, <1>6, StepsApart

(* What is carried, remembered and stored agree throughout.                *)
THEOREM NetworkInvariance == Net!Spec => []NetInv
  BY NetStart, NetStep, PTL DEF Net!Spec

(* For any number of resolvers and edits: the primary one is the one that  *)
(* was last asked for, unless the edits of several have overlapped.        *)
THEOREM PrimaryIsTheOneAsked == Net!Spec => []PrimaryAsAsked
<1>1. NetInv => PrimaryAsAsked BY DEF NetInv, ServersInv
<1> QED BY <1>1, NetworkInvariance, PTL

(* For any backends, WARP configurations and filters: each has the address *)
(* last given, but for overlaps that are named, and always the secret.     *)
THEOREM BackendsAsAsked == Net!Spec => []BackendAsAsked
<1>1. NetInv => BackendAsAsked BY DEF NetInv, BackendsInv
<1> QED BY <1>1, NetworkInvariance, PTL

(* For any rules: a pattern that does not fit its type has been brought    *)
(* there by an edit of one without the other.                              *)
THEOREM RulesStayFit == Net!Spec => []RulesFit
<1>1. NetInv => RulesFit BY DEF NetInv, RulesInv
<1> QED BY <1>1, NetworkInvariance, PTL

(* For any chains: no hop comes twice, and every node of a chain is on but *)
(* for those switched since they were validated.                           *)
THEOREM ChainsStaySound == Net!Spec => []ChainsSound
<1>1. NetInv => ChainsSound BY DEF NetInv, ChainsInv
<1> QED BY <1>1, NetworkInvariance, PTL
=============================================================================
