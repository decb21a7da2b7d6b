------------------------------ MODULE Users_proofs ------------------------------
(***************************************************************************)
(* Proofs about Users, for any users, nodes, handlers and dates.           *)
(*                                                                         *)
(* Each of the four properties compares a row with what was last asked for *)
(* it, and is as strong as what the handlers know that are between two     *)
(* awaits: an extension has computed the date that is asked for, unless    *)
(* that has become unsure; an update of nodes is alone, or nothing is      *)
(* asked; whoever the hourly job has selected is not asked to be on; and a *)
(* document that falls back on all nodes may name them all.                *)
(***************************************************************************)
EXTENDS Users, TLAPS

Request ==
    [pc : {"idle", "extend", "reply", "clear", "assign", "find", "all", "configs", "disable",
           "revoke"},
     user : Users \cup {NoUser}, left : 0 .. MaxLeft, set : SUBSET (Users \cup Nodes),
     bound : SUBSET Nodes, bot : BOOLEAN]

Selecting(q) == q.pc \in {"disable", "revoke"}
Updating(q) == q.pc \in {"clear", "assign"}

(* What handler q carries, by where it is. *)
Knows(q) ==
    /\ q.pc \notin {"idle", "disable"} => q.user \in Users
    /\ q.set \subseteq (IF Selecting(q) THEN Users ELSE Nodes)
    /\ q.bot => q.pc \in {"extend", "reply"}
    /\ q.pc = "extend" /\ There(q.user) => asked[q.user].left \in {q.left, Unsure}
    /\ Updating(q) =>
          \/ asked[q.user].nodes = {}
          \/ asked[q.user].nodes = q.set /\ (q.pc = "assign" => assigned[q.user] = {})
    /\ q.pc = "all" => q.bound = Nodes
    /\ q.pc = "configs" => q.set \subseteq q.bound /\ (q.set = {} => q.bound = Nodes)
    /\ Selecting(q) => \A u \in q.set : ~asked[u].on

(* While two updates of a user's nodes overlap, nothing is asked. *)
OneGap ==
    \A r, q \in Reqs :
        r # q /\ Updating(req[r]) /\ Updating(req[q]) /\ req[r].user = req[q].user =>
            asked[req[r].user].nodes = {}

(* The nodes asked for are those assigned, but for the ones that are gone. *)
Assigned ==
    \A u \in Users :
        Gap(u) \/ asked[u].nodes = {} \/ assigned[u] = {n \in asked[u].nodes : node[n] # "gone"}

(* Nobody is asked to be on whose time is over. *)
OnInTime == \A u \in Users : asked[u].on => users[u].left # 0

IInv ==
    /\ TypeOK
    /\ req \in [Reqs -> Request]
    /\ \A r \in Reqs : Knows(req[r])
    /\ OneGap /\ Assigned /\ OnInTime
    /\ OnlyNodesAskedFor /\ OffForCause /\ TimeAddsUp /\ NewLinksWork

-----------------------------------------------------------------------------
(* Types, taken apart.                                                     *)

RowType == [there : BOOLEAN, on : BOOLEAN, left : Times, revoked : BOOLEAN]
AskType == [on : BOOLEAN, left : Times \cup {Unsure}, nodes : SUBSET Nodes,
            link : {"works", "revoked", "rotated"}]
Names(n) == node[n] # "gone"
NodeSets == SUBSET Nodes

LEMMA Numbers ==
  /\ Days \in Nat /\ MaxLeft \in Nat /\ Days <= MaxLeft
  /\ Forever = MaxLeft + 1 /\ Unsure = MaxLeft + 2
  /\ Times = 0 .. MaxLeft + 1 /\ 0 \in Times /\ Unsure \notin Times
  BY ConstantsAssumption DEF Forever, Unsure, Times

LEMMA IdleRequest ==
  /\ Idle \in Request /\ Idle.pc = "idle" /\ Idle.set = {} /\ ~Idle.bot /\ Idle.left = 0
  /\ Idle.user = NoUser /\ Idle.bound = {}
  BY Numbers DEF Idle, Request

LEMMA IdleKnows == Knows(Idle) /\ Knows(Idle)'
  BY IdleRequest DEF Knows, Selecting, Updating

LEMMA RowTypes ==
  /\ NoRow \in RowType /\ ~NoRow.there /\ ~NoRow.on /\ NoRow.left = 0 /\ ~NoRow.revoked
  /\ Unasked \in AskType /\ ~Unasked.on /\ Unasked.left = 0 /\ Unasked.nodes = {}
  /\ NoDocument.nodes = {} /\ NoDocument.bound = {}
  BY Numbers DEF NoRow, RowType, Unasked, AskType, NoDocument

LEMMA Types ==
  ASSUME IInv
  PROVE  /\ users \in [Users -> RowType] /\ asked \in [Users -> AskType]
         /\ node \in [Nodes -> {"gone", "off", "on"}] /\ req \in [Reqs -> Request]
         /\ assigned \in [Users -> SUBSET Nodes]
         /\ \A u \in Users : assigned[u] \subseteq {n \in Nodes : There(u) /\ Names(n)}
         /\ \A u \in Users : There(u) \/ (users[u] = NoRow /\ asked[u] = Unasked)
  BY DEF IInv, TypeOK, RowType, AskType, Names

(* What is left to show of any step. *)
LEMMA Assemble ==
  ASSUME users' \in [Users -> RowType], asked' \in [Users -> AskType],
         node' \in [Nodes -> {"gone", "off", "on"}], req' \in [Reqs -> Request],
         assigned' \in [Users -> SUBSET Nodes],
         \A u \in Users : assigned'[u] \subseteq {n \in Nodes : There(u)' /\ Names(n)'},
         \A u \in Users : There(u)' \/ (users'[u] = NoRow /\ asked'[u] = Unasked),
         \A x \in Reqs : Knows(req[x])',
         given'.nodes \subseteq Nodes, OnlyNodesAskedFor',
         OneGap', Assigned', OnInTime', OffForCause', TimeAddsUp', NewLinksWork'
  PROVE  IInv'
<1>1. ASSUME NEW x \in Reqs
      PROVE  /\ req'[x].pc \in {"idle", "extend", "reply", "clear", "assign", "find", "all",
                                "configs", "disable", "revoke"}
             /\ req'[x].set \subseteq (IF req'[x].pc \in {"disable", "revoke"} THEN Users ELSE Nodes)
             /\ req'[x].left \in 0 .. MaxLeft
  <2>1. req'[x] \in Request
    OBVIOUS
  <2>2. req'[x].set \subseteq (IF req'[x].pc \in {"disable", "revoke"} THEN Users ELSE Nodes)
    BY DEF Knows, Selecting
  <2> QED
    BY <2>1, <2>2 DEF Request
<1>2. TypeOK'
  BY <1>1 DEF TypeOK, RowType, AskType, Names
<1> QED
  BY <1>2 DEF IInv

(* What the others do to a user does not upset handler q. *)
Kept(q) ==
    /\ q.pc = "extend" /\ There(q.user)' =>
          There(q.user) /\ asked'[q.user].left \in {asked[q.user].left, Unsure}
    /\ Updating(q) => \/ asked'[q.user].nodes = {}
                      \/ /\ asked'[q.user].nodes = asked[q.user].nodes
                         /\ assigned'[q.user] \subseteq assigned[q.user]
    /\ Selecting(q) => \A u \in q.set : asked'[u].on => asked[u].on

LEMMA KnowsKept ==
  ASSUME NEW q \in Request, Knows(q), Kept(q)
  PROVE  Knows(q)'
<1>1. q.pc = "extend" /\ There(q.user)' => asked'[q.user].left \in {q.left, Unsure}
  BY DEF Knows, Kept
<1>2. Updating(q) =>
          \/ asked'[q.user].nodes = {}
          \/ asked'[q.user].nodes = q.set /\ (q.pc = "assign" => assigned'[q.user] = {})
  BY DEF Knows, Kept
<1>3. Selecting(q) => \A u \in q.set : ~asked'[u].on
  BY DEF Knows, Kept
<1> QED
  BY <1>1, <1>2, <1>3 DEF Knows, Selecting, Updating

LEMMA AllKnow ==
  ASSUME IInv, req' = req, \A x \in Reqs : Kept(req[x])
  PROVE  \A x \in Reqs : Knows(req[x])'
<1> SUFFICES ASSUME NEW x \in Reqs PROVE Knows(req[x])'
  OBVIOUS
<1>1. PICK q \in Request : q = req[x]
  BY Types
<1>2. Knows(q) /\ Kept(q) /\ req'[x] = q
  BY <1>1 DEF IInv, Knows, Kept
<1>3. Knows(q)'
  BY <1>2, KnowsKept
<1> QED
  BY <1>2, <1>3 DEF Knows, Selecting, Updating, There

LEMMA OthersKnow ==
  ASSUME IInv, NEW r \in Reqs, NEW v \in Request, Knows(v)', req' = [req EXCEPT ![r] = v],
         \A x \in Reqs \ {r} : Kept(req[x])
  PROVE  /\ req' \in [Reqs -> Request] /\ req'[r] = v
         /\ \A x \in Reqs \ {r} : req'[x] = req[x]
         /\ \A x \in Reqs : Knows(req[x])'
<1>1. req \in [Reqs -> Request]
  BY Types
<1>2. req' \in [Reqs -> Request] /\ req'[r] = v /\ \A x \in Reqs \ {r} : req'[x] = req[x]
  BY <1>1
<1>3. ASSUME NEW x \in Reqs PROVE Knows(req[x])'
  <2>1. CASE x = r
    BY <1>2, <2>1 DEF Knows, Selecting, Updating, There
  <2>2. CASE x # r
    <3>1. PICK q \in Request : q = req[x]
      BY <1>1
    <3>2. Knows(q) /\ Kept(q) /\ req'[x] = q
      BY <1>2, <2>2, <3>1 DEF IInv, Knows, Kept
    <3>3. Knows(q)'
      BY <3>2, KnowsKept
    <3>4. req'[x] = q
      BY <3>2
    <3> QED
      BY <3>3, <3>4 DEF Knows, Selecting, Updating, There
  <2> QED
    BY <2>1, <2>2
<1> QED
  BY <1>2, <1>3

(* Nothing that is asked for changes. *)
LEMMA KeptIfSame ==
  ASSUME NEW q, UNCHANGED <<users, asked, assigned>>
  PROVE  Kept(q)
  BY DEF Kept, There

LEMMA QuietDocument ==
  ASSUME Quiet
  PROVE  given'.nodes \subseteq Nodes /\ OnlyNodesAskedFor'
  BY RowTypes DEF Quiet, OnlyNodesAskedFor


-----------------------------------------------------------------------------
(* Steps that change no row and nothing that is asked.                     *)

LEMMA ReadStep ==
  ASSUME IInv, NEW r \in Reqs, NEW v \in Request, Knows(v), req' = [req EXCEPT ![r] = v],
         UNCHANGED <<users, node, assigned, asked>>,
         req[r].pc \notin {"clear", "assign"}, req[r].pc = "extend" => ~There(req[r].user),
         ~Updating(v),
         given'.nodes \subseteq Nodes, given'.nodes \subseteq given'.bound
  PROVE  IInv'
<1>1. Knows(v)' /\ \A x \in Reqs \ {r} : Kept(req[x])
  BY KnowsKept, KeptIfSame
<1>2. /\ req' \in [Reqs -> Request] /\ req'[r] = v
      /\ \A x \in Reqs \ {r} : req'[x] = req[x]
      /\ \A x \in Reqs : Knows(req[x])'
  BY <1>1, OthersKnow
<1>3. ~Updating(req[r])
  BY DEF Updating
<1>4. OneGap'
  BY <1>2 DEF IInv, OneGap, Updating
<1>5. \A u \in Users : Gap(u) => Gap(u)'
  BY <1>2, <1>3 DEF Gap, Updating
<1>6. Assigned'
  BY <1>5 DEF IInv, Assigned
<1>7. \A u \in Users : There(u) /\ Extending(u) => Extending(u)'
  BY <1>2 DEF Extending
<1>8. TimeAddsUp'
  BY <1>7, Types, RowTypes DEF IInv, TimeAddsUp
<1>9. OnInTime' /\ OffForCause' /\ NewLinksWork'
  BY DEF IInv, OnInTime, OffForCause, NewLinksWork
<1>10. OnlyNodesAskedFor'
  BY DEF OnlyNodesAskedFor
<1>11. /\ users' \in [Users -> RowType] /\ asked' \in [Users -> AskType]
       /\ node' \in [Nodes -> {"gone", "off", "on"}] /\ assigned' \in [Users -> SUBSET Nodes]
       /\ \A u \in Users : assigned'[u] \subseteq {n \in Nodes : There(u)' /\ Names(n)'}
       /\ \A u \in Users : There(u)' \/ (users'[u] = NoRow /\ asked'[u] = Unasked)
  BY Types DEF There, Names
<1> QED
  BY <1>2, <1>4, <1>6, <1>8, <1>9, <1>10, <1>11, Assemble

LEMMA FindStep ==
  ASSUME IInv, NEW r \in Reqs, NEW u \in Users, FindSubscription(r, u)
  PROVE  IInv'
<1> DEFINE v == [Idle EXCEPT !.pc = "find", !.user = u]
<1>1. req[r].pc = "idle" /\ req' = [req EXCEPT ![r] = v] /\ Quiet
      /\ UNCHANGED <<users, node, assigned, asked>>
  BY DEF FindSubscription
<1>2. v \in Request /\ v.pc = "find" /\ v.user = u /\ v.set = {} /\ ~v.bot
  BY IdleRequest DEF Request
<1> HIDE DEF v
<1>3. Knows(v) /\ ~Updating(v)
  BY <1>2 DEF Knows, Selecting, Updating
<1> QED
  BY <1>1, <1>2, <1>3, RowTypes, ReadStep DEF Quiet

(* The nodes assigned are those to keep to; and if no node assigned is     *)
(* enabled, there are none to keep to.                                     *)
LEMMA BoundHolds ==
  ASSUME IInv, NEW u \in Users
  PROVE  /\ Bound(u) \subseteq Nodes
         /\ assigned[u] \cap On \subseteq Bound(u)
         /\ assigned[u] \cap On = {} => Bound(u) = Nodes
<1>1. asked[u].nodes \subseteq Nodes /\ assigned[u] \subseteq Nodes
  BY Types DEF AskType
<1>2. CASE asked[u].nodes \cap On = {} \/ Gap(u)
  BY <1>1, <1>2 DEF Bound
<1>3. CASE asked[u].nodes \cap On # {} /\ ~Gap(u)
  <2>1. assigned[u] = {n \in asked[u].nodes : node[n] # "gone"}
    BY <1>3 DEF IInv, Assigned
  <2>2. On \subseteq {n \in Nodes : node[n] # "gone"}
    BY DEF On
  <2>3. assigned[u] \cap On = asked[u].nodes \cap On
    BY <2>1, <2>2
  <2> QED
    BY <1>1, <1>3, <2>3 DEF Bound
<1> QED
  BY <1>2, <1>3

LEMMA FindNodesStep ==
  ASSUME IInv, NEW r \in Reqs, FindNodes(r)
  PROVE  IInv'
<1>0. PICK u \in Users : u = req[r].user
  BY DEF IInv, Knows, FindNodes
<1> DEFINE nodes == assigned[u] \cap On
           w == [req[r] EXCEPT !.pc = "all", !.bound = Bound(u)]
<1>1. req[r].pc = "find" /\ UNCHANGED <<users, node, assigned, asked>>
  BY DEF FindNodes
<1>2. req[r] \in Request /\ Knows(req[r])
  BY Types DEF IInv
<1>3. Bound(u) \subseteq Nodes /\ nodes \subseteq Bound(u) /\ (nodes = {} => Bound(u) = Nodes)
  BY BoundHolds
<1>4. CASE nodes # {}
  <2>1. given' = [nodes |-> nodes, bound |-> Bound(u)] /\ req' = [req EXCEPT ![r] = Idle]
    BY <1>0, <1>4 DEF FindNodes, Return
  <2>2. given'.nodes = nodes /\ given'.bound = Bound(u)
    BY <2>1
  <2>3. ~Updating(Idle) /\ given'.nodes \subseteq Nodes /\ given'.nodes \subseteq given'.bound
    BY <1>3, <2>2, IdleRequest DEF Updating
  <2> QED
    BY <1>1, <2>1, <2>3, IdleRequest, IdleKnows, ReadStep
<1>5. CASE nodes = {}
  <2>1. req' = [req EXCEPT ![r] = w] /\ Quiet
    BY <1>0, <1>5 DEF FindNodes
  <2>2. Bound(u) \in SUBSET Nodes
    BY <1>3
  <2>3. /\ w \in Request
        /\ w.pc = "all" /\ w.user = u /\ w.set = req[r].set /\ w.bot = req[r].bot
        /\ w.bound = Bound(u)
    BY <1>0, <1>2, <2>2 DEF Request
  <2> HIDE DEF w
  <2>4. Knows(w) /\ ~Updating(w)
    BY <1>1, <1>2, <1>3, <1>5, <2>3 DEF Knows, Selecting, Updating
  <2> QED
    BY <1>1, <2>1, <2>3, <2>4, RowTypes, ReadStep DEF Quiet
<1> QED
  BY <1>4, <1>5

LEMMA FindAllStep ==
  ASSUME IInv, NEW r \in Reqs, FindAllNodes(r) \/ ConfigsNodes(r)
  PROVE  IInv'
<1>1. /\ req[r].pc \in {"all", "configs"} /\ UNCHANGED <<users, node, assigned, asked>>
      /\ req' = [req EXCEPT ![r] = Idle]
  BY DEF FindAllNodes, ConfigsNodes, Return
<1>2. On \subseteq Nodes
  BY DEF On
<1>3. given'.nodes \subseteq On /\ given'.nodes \subseteq given'.bound
  <2>1. CASE FindAllNodes(r)
    <3>1. given' = [nodes |-> On, bound |-> req[r].bound] /\ req[r].bound = Nodes
      BY <2>1 DEF FindAllNodes, IInv, Knows
    <3> QED
      BY <1>2, <3>1
  <2>2. CASE ConfigsNodes(r)
    <3>1. given' = [nodes |-> IF req[r].set = {} THEN On ELSE req[r].set \cap On,
                    bound |-> req[r].bound]
      BY <2>2 DEF ConfigsNodes
    <3>2. /\ req[r].set \subseteq req[r].bound
          /\ req[r].set = {} => req[r].bound = Nodes
      BY <2>2 DEF ConfigsNodes, IInv, Knows
    <3>3. given'.bound = req[r].bound
          /\ given'.nodes = IF req[r].set = {} THEN On ELSE req[r].set \cap On
      BY <3>1
    <3> QED
      BY <1>2, <3>2, <3>3
  <2> QED
    BY <2>1, <2>2
<1>4. ~Updating(Idle) /\ given'.nodes \subseteq Nodes
  BY <1>2, <1>3, IdleRequest DEF Updating
<1> QED
  BY <1>1, <1>3, <1>4, IdleRequest, IdleKnows, ReadStep

LEMMA ConfigsStep ==
  ASSUME IInv, NEW r \in Reqs, NEW u \in Users, ConfigsRead(r, u)
  PROVE  IInv'
<1> DEFINE S == assigned[u]
           B == IF Gap(u) \/ \A n \in asked[u].nodes : node[n] = "gone" THEN Nodes
                ELSE asked[u].nodes
           v == [Idle EXCEPT !.pc = "configs", !.user = u, !.set = S, !.bound = B]
<1>1. req[r].pc = "idle" /\ req' = [req EXCEPT ![r] = v] /\ Quiet
      /\ UNCHANGED <<users, node, assigned, asked>>
  BY DEF ConfigsRead
<1>2. asked[u].nodes \subseteq Nodes /\ S \subseteq Nodes
  BY Types DEF AskType
<1>3. Gap(u) \/ asked[u].nodes = {} \/ S = {n \in asked[u].nodes : node[n] # "gone"}
  BY DEF IInv, Assigned
<1>4. S \subseteq B /\ (S = {} => B = Nodes) /\ B \in SUBSET Nodes
  BY <1>2, <1>3
<1>5. S \in SUBSET (Users \cup Nodes)
  BY <1>2
<1> HIDE DEF S, B
<1>6. v \in Request /\ v.pc = "configs" /\ v.user = u /\ v.set = S /\ v.bound = B /\ ~v.bot
  BY <1>4, <1>5, IdleRequest DEF Request
<1> HIDE DEF v
<1>7. S \subseteq Nodes
  BY <1>2 DEF S
<1>8. Knows(v) /\ ~Updating(v)
  BY <1>4, <1>6, <1>7 DEF Knows, Selecting, Updating
<1> QED
  BY <1>1, <1>6, <1>8, RowTypes, ReadStep DEF Quiet

LEMMA SelectStep ==
  ASSUME IInv, NEW r \in Reqs, SelectExpired(r)
  PROVE  IInv'
<1> DEFINE S == {u \in Users : There(u) /\ users[u].on /\ users[u].left = 0}
           v == [Idle EXCEPT !.pc = "disable", !.set = S]
<1>1. req[r].pc = "idle" /\ req' = [req EXCEPT ![r] = v] /\ Quiet
      /\ UNCHANGED <<users, node, assigned, asked>>
  BY DEF SelectExpired
<1>2. S \subseteq Users /\ S \in SUBSET (Users \cup Nodes) /\ \A u \in S : ~asked[u].on
  BY DEF IInv, OnInTime
<1> HIDE DEF S
<1>3. v \in Request /\ v.pc = "disable" /\ v.set = S /\ ~v.bot
  BY <1>2, IdleRequest DEF Request
<1> HIDE DEF v
<1>4. Knows(v) /\ ~Updating(v)
  BY <1>2, <1>3 DEF Knows, Selecting, Updating
<1> QED
  BY <1>1, <1>3, <1>4, RowTypes, ReadStep DEF Quiet

LEMMA RepliedStep ==
  ASSUME IInv, NEW r \in Reqs, Replied(r)
  PROVE  IInv'
<1>1. /\ req[r].pc = "reply" /\ req' = [req EXCEPT ![r] = Idle] /\ Quiet
      /\ UNCHANGED <<users, node, assigned, asked>>
  BY DEF Replied, Return
<1>2. ~Updating(Idle)
  BY IdleRequest DEF Updating
<1> QED
  BY <1>1, <1>2, IdleRequest, IdleKnows, RowTypes, ReadStep DEF Quiet


-----------------------------------------------------------------------------
(* Steps that change the row of one user, or what is asked for the user.   *)

LEMMA RowStep ==
  ASSUME IInv, NEW u \in Users, NEW row \in RowType, NEW ask \in AskType,
         users' = [users EXCEPT ![u] = row], asked' = [asked EXCEPT ![u] = ask],
         UNCHANGED <<node, assigned>>, Quiet,
         There(u), row.there, ask.nodes = asked[u].nodes,
         ask.on => row.on /\ row.left # 0, row.revoked => ask.link # "works",
         req' \in [Reqs -> Request], \A x \in Reqs : Knows(req[x])',
         \A x \in Reqs : req'[x] = req[x] \/ (~Updating(req[x]) /\ ~Updating(req'[x])),
         \A w \in Users \ {u} : Extending(w) => Extending(w)',
         Extending(u)' \/ ask.left \in {row.left, Unsure}
  PROVE  IInv'
<1>1. /\ users \in [Users -> RowType] /\ asked \in [Users -> AskType]
      /\ \A w \in Users : assigned[w] \subseteq {n \in Nodes : There(w) /\ Names(n)}
      /\ \A w \in Users : There(w) \/ (users[w] = NoRow /\ asked[w] = Unasked)
      /\ node \in [Nodes -> {"gone", "off", "on"}]
  BY Types
<1>2. /\ users' \in [Users -> RowType] /\ asked' \in [Users -> AskType]
      /\ users'[u] = row /\ asked'[u] = ask
      /\ \A w \in Users \ {u} : users'[w] = users[w] /\ asked'[w] = asked[w]
  BY <1>1
<1>3. \A w \in Users : There(w) <=> There(w)'
  BY <1>2 DEF There
<1>4. /\ \A w \in Users : assigned'[w] \subseteq {n \in Nodes : There(w)' /\ Names(n)'}
      /\ \A w \in Users : There(w)' \/ (users'[w] = NoRow /\ asked'[w] = Unasked)
  BY <1>1, <1>2, <1>3 DEF Names, There
<1>5. \A w \in Users : asked'[w].nodes = asked[w].nodes
  BY <1>2
<1>6. OneGap'
  <2> SUFFICES ASSUME NEW x \in Reqs, NEW q \in Reqs, x # q, Updating(req'[x]),
                      Updating(req'[q]), req'[x].user = req'[q].user
               PROVE  asked'[req'[x].user].nodes = {}
    BY DEF OneGap, Updating
  <2>1. req'[x] = req[x] /\ req'[q] = req[q]
    OBVIOUS
  <2>2. Updating(req[x]) /\ Updating(req[q]) /\ req[x].user = req[q].user
    BY <2>1
  <2>3. asked[req[x].user].nodes = {}
    BY <2>2 DEF IInv, OneGap
  <2>4. req[x].user \in Users
    BY <2>2 DEF IInv, Knows, Updating
  <2> QED
    BY <1>5, <2>1, <2>3, <2>4
<1>7. \A w \in Users : Gap(w) => Gap(w)'
  BY DEF Gap, Updating
<1>8. Assigned'
  BY <1>5, <1>7 DEF IInv, Assigned
<1>9. OnInTime' /\ OffForCause' /\ NewLinksWork'
  BY <1>2 DEF IInv, OnInTime, OffForCause, NewLinksWork
<1>10. TimeAddsUp'
  BY <1>2 DEF IInv, TimeAddsUp
<1>11. given'.nodes \subseteq Nodes /\ OnlyNodesAskedFor'
  BY QuietDocument
<1>12. node' \in [Nodes -> {"gone", "off", "on"}] /\ assigned' \in [Users -> SUBSET Nodes]
  BY <1>1, Types
<1> QED
  BY <1>2, <1>4, <1>6, <1>8, <1>9, <1>10, <1>11, <1>12, Assemble

(* The same, when no handler moves. *)
LEMMA RowOnlyStep ==
  ASSUME IInv, NEW u \in Users, NEW row \in RowType, NEW ask \in AskType,
         users' = [users EXCEPT ![u] = row], asked' = [asked EXCEPT ![u] = ask],
         UNCHANGED <<node, assigned, req>>, Quiet,
         There(u), row.there, ask.nodes = asked[u].nodes,
         ask.on => row.on /\ row.left # 0, row.revoked => ask.link # "works",
         ask.on => asked[u].on \/ ~Selected(u),
         Extending(u) => ask.left \in {asked[u].left, Unsure},
         Extending(u) \/ ask.left \in {row.left, Unsure}
  PROVE  IInv'
<1>1. users \in [Users -> RowType] /\ asked \in [Users -> AskType] /\ req \in [Reqs -> Request]
  BY Types
<1>2. /\ users'[u] = row /\ asked'[u] = ask
      /\ \A w \in Users \ {u} : users'[w] = users[w] /\ asked'[w] = asked[w]
  BY <1>1
<1>3. ASSUME NEW x \in Reqs PROVE Kept(req[x])
  <2>1. req[x].pc = "extend" => Extending(req[x].user) /\ req[x].user \in Users
    BY DEF Extending, IInv, Knows
  <2>2. Selecting(req[x]) => \A w \in req[x].set : w \in Users /\ Selected(w)
    BY DEF Selecting, Selected, IInv, Knows
  <2>3. Updating(req[x]) => req[x].user \in Users
    BY DEF Updating, IInv, Knows
  <2>4. req[x].pc = "extend" /\ There(req[x].user)' =>
          There(req[x].user) /\ asked'[req[x].user].left \in {asked[req[x].user].left, Unsure}
    BY <1>2, <2>1 DEF There
  <2>5. Updating(req[x]) => /\ asked'[req[x].user].nodes = asked[req[x].user].nodes
                            /\ assigned'[req[x].user] \subseteq assigned[req[x].user]
    BY <1>2, <2>3
  <2>6. Selecting(req[x]) => \A w \in req[x].set : asked'[w].on => asked[w].on
    BY <1>2, <2>2
  <2> QED
    BY <2>4, <2>5, <2>6 DEF Kept, There
<1>4. \A x \in Reqs : Knows(req[x])'
  BY <1>3, AllKnow
<1>5. \A w \in Users : Extending(w) <=> Extending(w)'
  BY DEF Extending
<1>6. Extending(u)' \/ ask.left \in {row.left, Unsure}
  BY <1>5
<1>7. req' \in [Reqs -> Request] /\ \A x \in Reqs : req'[x] = req[x]
  BY <1>1
<1> QED
  BY <1>4, <1>5, <1>6, <1>7, RowStep


LEMMA RowOf ==
  ASSUME IInv, NEW u \in Users
  PROVE  /\ users[u] \in RowType /\ asked[u] \in AskType
         /\ users[u].there = There(u)
         /\ users[u].on \in BOOLEAN /\ users[u].left \in Times /\ users[u].revoked \in BOOLEAN
         /\ asked[u].on \in BOOLEAN /\ asked[u].left \in Times \cup {Unsure}
         /\ asked[u].on => users[u].on /\ users[u].left # 0
         /\ users[u].revoked => asked[u].link # "works"
         /\ Extending(u) \/ asked[u].left \in {users[u].left, Unsure}
         /\ users = [users EXCEPT ![u] = users[u]] /\ asked = [asked EXCEPT ![u] = asked[u]]
<1>1. users \in [Users -> RowType] /\ asked \in [Users -> AskType]
  BY Types
<1>2. /\ users[u] \in RowType /\ asked[u] \in AskType
      /\ users = [users EXCEPT ![u] = users[u]] /\ asked = [asked EXCEPT ![u] = asked[u]]
  BY <1>1
<1> QED
  BY <1>2 DEF RowType, AskType, There, IInv, OffForCause, OnInTime, NewLinksWork, TimeAddsUp

LEMMA SetEnabledStep ==
  ASSUME IInv, NEW u \in Users, NEW on \in BOOLEAN, SetEnabled(u, on)
  PROVE  IInv'
<1> DEFINE row == [users[u] EXCEPT !.on = on]
           wish == on /\ users[u].left # 0 /\ ~Selected(u)
           ask == [asked[u] EXCEPT !.on = wish]
<1>1. There(u) /\ Quiet /\ UNCHANGED <<node, assigned, req>>
  BY DEF SetEnabled
<1>2. users' = [users EXCEPT ![u] = row] /\ asked' = [asked EXCEPT ![u] = ask]
  BY DEF SetEnabled
<1>3. row \in RowType /\ row.there = users[u].there /\ row.on = on /\ row.left = users[u].left
      /\ row.revoked = users[u].revoked
  BY RowOf DEF RowType
<1>4. wish \in BOOLEAN /\ (wish => on /\ users[u].left # 0 /\ ~Selected(u))
  OBVIOUS
<1> HIDE DEF wish
<1>5. ask \in AskType /\ ask.on = wish /\ ask.left = asked[u].left /\ ask.nodes = asked[u].nodes
      /\ ask.link = asked[u].link
  BY <1>4, RowOf DEF AskType
<1> HIDE DEF row, ask
<1> QED
  BY <1>1, <1>2, <1>3, <1>4, <1>5, RowOf, RowOnlyStep

LEMMA UpdateDateStep ==
  ASSUME IInv, NEW u \in Users, NEW left \in Times, UpdateDate(u, left)
  PROVE  IInv'
<1> DEFINE row == [users[u] EXCEPT !.left = left]
           date == IF Extending(u) THEN Unsure ELSE left
           wish == asked[u].on /\ left # 0
           ask == [asked[u] EXCEPT !.left = date, !.on = wish]
<1>1. There(u) /\ Quiet /\ UNCHANGED <<node, assigned, req>>
  BY DEF UpdateDate
<1>2. users' = [users EXCEPT ![u] = row] /\ asked' = [asked EXCEPT ![u] = ask]
  <2>1. asked \in [Users -> AskType]
    BY Types
  <2> QED
    BY <2>1 DEF UpdateDate
<1>3. row \in RowType /\ row.there = users[u].there /\ row.on = users[u].on /\ row.left = left
      /\ row.revoked = users[u].revoked
  BY RowOf DEF RowType
<1>4. /\ wish \in BOOLEAN /\ (wish => asked[u].on /\ left # 0)
      /\ date \in Times \cup {Unsure}
      /\ (Extending(u) => date = Unsure) /\ date \in {left, Unsure}
  OBVIOUS
<1> HIDE DEF wish, date
<1>5. ask \in AskType /\ ask.on = wish /\ ask.left = date /\ ask.nodes = asked[u].nodes
      /\ ask.link = asked[u].link
  BY <1>4, RowOf DEF AskType
<1> HIDE DEF row, ask
<1> QED
  BY <1>1, <1>2, <1>3, <1>4, <1>5, RowOf, RowOnlyStep

LEMMA LinkStep ==
  ASSUME IInv, NEW u \in Users, Revoke(u) \/ Regenerate(u) \/ RotateInBulk(u)
  PROVE  IInv'
<1> DEFINE gone == CASE Revoke(u) -> TRUE [] ~Revoke(u) /\ Regenerate(u) -> FALSE
                     [] OTHER -> users[u].revoked
           link == CASE Revoke(u) -> "revoked" [] ~Revoke(u) /\ Regenerate(u) -> "works"
                     [] OTHER -> IF asked[u].link = "revoked" THEN "rotated" ELSE asked[u].link
           row == [users[u] EXCEPT !.revoked = gone]
           ask == [asked[u] EXCEPT !.link = link]
<1>1. There(u) /\ Quiet /\ UNCHANGED <<node, assigned, req>>
  BY DEF Revoke, Regenerate, RotateInBulk
<1>2. users[u].revoked \in BOOLEAN /\ asked[u].link \in {"works", "revoked", "rotated"}
      /\ (users[u].revoked => asked[u].link # "works")
      /\ users \in [Users -> RowType] /\ asked \in [Users -> AskType]
  BY RowOf, Types DEF AskType
<1>3. gone \in BOOLEAN /\ link \in {"works", "revoked", "rotated"} /\ (gone => link # "works")
  BY <1>2
<1>4. users' = [users EXCEPT ![u] = row] /\ asked' = [asked EXCEPT ![u] = ask]
  <2>1. users = [users EXCEPT ![u] = [users[u] EXCEPT !.revoked = users[u].revoked]]
    BY <1>2 DEF RowType
  <2>2. CASE Revoke(u)
    BY <2>2 DEF Revoke
  <2>3. CASE ~Revoke(u) /\ Regenerate(u)
    BY <2>3 DEF Regenerate
  <2>4. CASE ~Revoke(u) /\ ~Regenerate(u) /\ RotateInBulk(u)
    BY <1>2, <2>1, <2>4 DEF RotateInBulk
  <2> QED
    BY <2>2, <2>3, <2>4
<1> HIDE DEF gone, link
<1>5. row \in RowType /\ row.there = users[u].there /\ row.on = users[u].on
      /\ row.left = users[u].left /\ row.revoked = gone
  BY <1>3, RowOf DEF RowType
<1>6. ask \in AskType /\ ask.on = asked[u].on /\ ask.left = asked[u].left
      /\ ask.nodes = asked[u].nodes /\ ask.link = link
  BY <1>3, RowOf DEF AskType
<1> HIDE DEF row, ask
<1> QED
  BY <1>1, <1>3, <1>4, <1>5, <1>6, RowOf, RowOnlyStep


LEMMA KeptByRow ==
  ASSUME IInv, NEW u \in Users, NEW row \in RowType, NEW ask \in AskType,
         users' = [users EXCEPT ![u] = row], asked' = [asked EXCEPT ![u] = ask],
         assigned' = assigned, There(u), ask.nodes = asked[u].nodes,
         ask.on => asked[u].on, NEW x \in Reqs, req'[x] = req[x],
         req[x].pc = "extend" /\ req[x].user = u => ask.left \in {asked[u].left, Unsure}
  PROVE  Kept(req[x])
<1>1. users \in [Users -> RowType] /\ asked \in [Users -> AskType]
  BY Types
<1>2. /\ users'[u] = row /\ asked'[u] = ask
      /\ \A w \in Users \ {u} : users'[w] = users[w] /\ asked'[w] = asked[w]
  BY <1>1
<1>3. /\ req[x].pc = "extend" \/ Updating(req[x]) => req[x].user \in Users
      /\ Selecting(req[x]) => req[x].set \subseteq Users
  BY DEF Updating, Selecting, IInv, Knows
<1>4. req[x].pc = "extend" /\ There(req[x].user)' =>
        There(req[x].user) /\ asked'[req[x].user].left \in {asked[req[x].user].left, Unsure}
  <2>1. CASE req[x].user = u
    BY <1>2, <2>1
  <2>2. CASE req[x].user # u
    <3>1. ASSUME req[x].pc = "extend"
          PROVE  /\ users'[req[x].user] = users[req[x].user]
                 /\ asked'[req[x].user] = asked[req[x].user]
      BY <1>2, <1>3, <2>2, <3>1
    <3> QED
      BY <3>1 DEF There
  <2> QED
    BY <2>1, <2>2
<1>5. Updating(req[x]) => /\ asked'[req[x].user].nodes = asked[req[x].user].nodes
                          /\ assigned'[req[x].user] \subseteq assigned[req[x].user]
  BY <1>2, <1>3
<1>6. Selecting(req[x]) => \A w \in req[x].set : asked'[w].on => asked[w].on
  BY <1>2, <1>3
<1> QED
  BY <1>4, <1>5, <1>6 DEF Kept, There

(* A step of handler r on its user. *)
LEMMA MoveStep ==
  ASSUME IInv, NEW r \in Reqs, NEW u \in Users, NEW row \in RowType, NEW ask \in AskType,
         NEW v \in Request, Knows(v)', req' = [req EXCEPT ![r] = v],
         users' = [users EXCEPT ![u] = row], asked' = [asked EXCEPT ![u] = ask],
         UNCHANGED <<node, assigned>>, Quiet,
         There(u), row.there, ask.nodes = asked[u].nodes,
         ask.on => row.on /\ row.left # 0 /\ asked[u].on,
         row.revoked => ask.link # "works",
         ~Updating(req[r]), ~Updating(v),
         req[r].pc = "extend" => req[r].user = u,
         \A x \in Reqs \ {r} : req[x].pc = "extend" /\ req[x].user = u =>
                                   ask.left \in {asked[u].left, Unsure},
         Extending(u)' \/ ask.left \in {row.left, Unsure}
  PROVE  IInv'
<1>1. \A x \in Reqs \ {r} : Kept(req[x])
  <2>1. \A x \in Reqs \ {r} : req'[x] = req[x]
    BY Types
  <2> QED
    BY <2>1, KeptByRow
<1>2. /\ req' \in [Reqs -> Request] /\ req'[r] = v
      /\ \A x \in Reqs \ {r} : req'[x] = req[x]
      /\ \A x \in Reqs : Knows(req[x])'
  BY <1>1, OthersKnow
<1>3. \A x \in Reqs : req'[x] = req[x] \/ (~Updating(req[x]) /\ ~Updating(req'[x]))
  BY <1>2
<1>4. \A w \in Users \ {u} : Extending(w) => Extending(w)'
  BY <1>2 DEF Extending
<1> QED
  BY <1>2, <1>3, <1>4, RowStep

LEMMA AddedIsDate == \A left \in Times : Added(left) \in 0 .. MaxLeft
  BY Numbers DEF Added

LEMMA ExtendReadStep ==
  ASSUME IInv, NEW r \in Reqs, NEW u \in Users, NEW bot \in BOOLEAN, ExtendRead(r, u, bot)
  PROVE  IInv'
<1> DEFINE new == Added(users[u].left)
           old == asked[u].left
           date == IF Extending(u) \/ old = Unsure THEN Unsure ELSE Added(old)
           ask == [asked[u] EXCEPT !.left = date]
           w == [Idle EXCEPT !.pc = "extend", !.user = u, !.bot = bot, !.left = new]
<1>1. req[r].pc = "idle" /\ There(u) /\ Quiet /\ UNCHANGED <<users, node, assigned>>
  BY DEF ExtendRead
<1>2. req' = [req EXCEPT ![r] = w] /\ asked' = [asked EXCEPT ![u] = ask]
  BY Types DEF ExtendRead, AskDays
<1>3. users' = [users EXCEPT ![u] = users[u]]
  BY <1>1, RowOf
<1>4. new \in 0 .. MaxLeft /\ new \in Times
  BY RowOf, AddedIsDate, Numbers
<1>5. date \in {new, Unsure} /\ (Extending(u) => date = Unsure)
  BY RowOf
<1> HIDE DEF new, date
<1>6. ask \in AskType /\ ask.on = asked[u].on /\ ask.left = date /\ ask.nodes = asked[u].nodes
      /\ ask.link = asked[u].link
  BY <1>4, <1>5, RowOf DEF AskType
<1>7. /\ w \in Request /\ w.pc = "extend" /\ w.user = u /\ w.bot = bot /\ w.left = new
      /\ w.set = {}
  BY <1>4, IdleRequest DEF Request
<1> HIDE DEF ask, w
<1>8. PICK v \in Request : v = w
  BY <1>7
<1>9. asked'[u] = ask
  BY <1>2, Types
<1>10. Knows(v)' /\ ~Updating(v)
  BY <1>5, <1>6, <1>7, <1>8, <1>9 DEF Knows, Selecting, Updating
<1>11. Extending(u)'
  <2>1. req'[r] = v
    BY <1>2, <1>8, Types
  <2> QED
    BY <1>7, <1>8, <2>1 DEF Extending
<1>12. \A x \in Reqs \ {r} : req[x].pc = "extend" /\ req[x].user = u =>
                                 ask.left \in {asked[u].left, Unsure}
  BY <1>5, <1>6 DEF Extending
<1>13. ~Updating(req[r])
  BY <1>1 DEF Updating
<1>14. req' = [req EXCEPT ![r] = v]
  BY <1>2, <1>8
<1> QED
  BY <1>1, <1>2, <1>3, <1>6, <1>10, <1>11, <1>12, <1>13, <1>14, RowOf, MoveStep


LEMMA ExtendWriteStep ==
  ASSUME IInv, NEW r \in Reqs, ExtendWrite(r)
  PROVE  IInv'
<1>0. PICK u \in Users : u = req[r].user
  BY DEF IInv, Knows, ExtendWrite
<1> DEFINE w == IF req[r].bot THEN [req[r] EXCEPT !.pc = "reply"] ELSE Idle
           new == req[r].left
           wish == asked[u].on /\ new # 0
           row == [users[u] EXCEPT !.left = new]
           ask == [asked[u] EXCEPT !.on = wish]
<1>1. req[r].pc = "extend" /\ Quiet /\ UNCHANGED <<node, assigned>>
  BY DEF ExtendWrite
<1>2. req[r] \in Request /\ Knows(req[r])
  BY <1>1, Types DEF IInv
<1>3. req' = [req EXCEPT ![r] = w]
  BY Types DEF ExtendWrite, Goto, Return
<1>4. w \in Request /\ Knows(w) /\ w.pc \in {"idle", "reply"} /\ ~Updating(w)
  <2>1. CASE req[r].bot
    <3>1. /\ w \in Request /\ w.pc = "reply" /\ w.user = req[r].user /\ w.set = req[r].set
      BY <1>2, <2>1 DEF Request
    <3> HIDE DEF w
    <3> QED
      BY <1>1, <1>2, <3>1 DEF Knows, Selecting, Updating
  <2>2. CASE ~req[r].bot
    BY <2>2, IdleRequest, IdleKnows DEF Updating
  <2> QED
    BY <2>1, <2>2
<1> HIDE DEF w
<1>5. CASE ~There(u)
  <2>1. UNCHANGED <<users, node, assigned, asked>>
    BY <1>0, <1>5 DEF ExtendWrite
  <2> QED
    BY <1>0, <1>1, <1>3, <1>4, <1>5, <2>1, RowTypes, ReadStep DEF Quiet
<1>6. CASE There(u)
  <2>1. users' = [users EXCEPT ![u] = row] /\ asked' = [asked EXCEPT ![u] = ask]
    BY <1>0, <1>6, Types DEF ExtendWrite
  <2>2. new \in Times /\ asked[u].left \in {new, Unsure}
    BY <1>0, <1>1, <1>2, <1>6, Numbers DEF Knows, Request
  <2> HIDE DEF new
  <2>3. row \in RowType /\ row.there = users[u].there /\ row.on = users[u].on
        /\ row.left = new /\ row.revoked = users[u].revoked
    BY <1>2, <2>2, RowOf DEF RowType
  <2>4. wish \in BOOLEAN /\ (wish => asked[u].on /\ new # 0)
    OBVIOUS
  <2> HIDE DEF wish
  <2>5. ask \in AskType /\ ask.on = wish /\ ask.left = asked[u].left
        /\ ask.nodes = asked[u].nodes /\ ask.link = asked[u].link
    BY <1>2, <2>4, RowOf DEF AskType
  <2> HIDE DEF row, ask
  <2>6. PICK v \in Request : v = w
    BY <1>4
  <2>7. Knows(v)' /\ ~Updating(v)
    BY <1>4, <2>6 DEF Knows, Selecting, Updating
  <2>8. /\ req' = [req EXCEPT ![r] = v] /\ ~Updating(req[r])
        /\ row.there /\ (ask.on => row.on /\ row.left # 0 /\ asked[u].on)
        /\ (row.revoked => ask.link # "works") /\ ask.left \in {row.left, Unsure}
    BY <1>1, <1>3, <1>6, <2>2, <2>3, <2>4, <2>5, <2>6, RowOf DEF Updating
  <2> QED
    BY <1>0, <1>1, <1>6, <2>1, <2>3, <2>5, <2>7, <2>8, MoveStep
<1> QED
  BY <1>5, <1>6


LEMMA RedeliverStep ==
  ASSUME IInv, NEW r \in Reqs, Redeliver(r)
  PROVE  IInv'
<1>1. req[r].bot /\ Quiet /\ UNCHANGED <<users, node, assigned>>
  BY DEF Redeliver
<1>2. req[r] \in Request /\ Knows(req[r]) /\ req[r].pc \in {"extend", "reply"}
  BY <1>1, Types DEF IInv, Knows
<1>3. PICK u \in Users : u = req[r].user
  BY <1>2 DEF Knows
<1>4. ~Updating(req[r])
  BY <1>2 DEF Updating
<1>5. CASE ~There(u)
  <2>1. req' = [req EXCEPT ![r] = Idle] /\ asked' = asked
    BY <1>3, <1>5 DEF Redeliver, Return
  <2>2. req[r].pc \notin {"clear", "assign"} /\ ~Updating(Idle)
    BY <1>2, IdleRequest DEF Updating
  <2> QED
    BY <1>1, <1>3, <1>5, <2>1, <2>2, IdleRequest, IdleKnows, RowTypes, ReadStep DEF Quiet
<1>6. CASE There(u)
  <2> DEFINE new == Added(users[u].left)
             w == [req[r] EXCEPT !.pc = "extend", !.left = new]
             ask == [asked[u] EXCEPT !.left = Unsure]
  <2>1. req' = [req EXCEPT ![r] = w] /\ asked' = [asked EXCEPT ![u] = ask]
    BY <1>3, <1>6, Types DEF Redeliver
  <2>2. new \in 0 .. MaxLeft
    BY RowOf, AddedIsDate
  <2> HIDE DEF new
  <2>3. w \in Request /\ w.pc = "extend" /\ w.user = u /\ w.set = req[r].set
    BY <1>2, <1>3, <2>2 DEF Request
  <2>4. ask \in AskType /\ ask.on = asked[u].on /\ ask.left = Unsure
        /\ ask.nodes = asked[u].nodes /\ ask.link = asked[u].link
    BY RowOf DEF AskType
  <2> HIDE DEF w, ask
  <2>5. PICK v \in Request : v = w
    BY <2>3
  <2>6. asked'[u].left = Unsure
    BY <2>1, <2>4, Types
  <2>7. req[r].set \subseteq Nodes
    BY <1>2 DEF Knows, Selecting
  <2>8. Knows(v)' /\ ~Updating(v)
    BY <2>3, <2>5, <2>6, <2>7 DEF Knows, Selecting, Updating
  <2>9. req' = [req EXCEPT ![r] = v] /\ users' = [users EXCEPT ![u] = users[u]]
    BY <1>1, <2>1, <2>5, RowOf
  <2>10. users[u].there /\ (ask.on => users[u].on /\ users[u].left # 0 /\ asked[u].on)
         /\ (users[u].revoked => ask.link # "works") /\ users[u] \in RowType
    BY <1>6, <2>4, RowOf
  <2> QED
    BY <1>1, <1>3, <1>4, <1>6, <2>1, <2>4, <2>8, <2>9, <2>10, MoveStep
<1> QED
  BY <1>5, <1>6

LEMMA DisableStep ==
  ASSUME IInv, NEW r \in Reqs, NEW u \in Users, DisableExpired(r, u)
  PROVE  IInv'
<1> DEFINE S == req[r].set \ {u}
           w == [req[r] EXCEPT !.pc = "revoke", !.user = u, !.set = S]
           row == [users[u] EXCEPT !.on = FALSE]
<1>1. /\ req[r].pc = "disable" /\ u \in req[r].set /\ Quiet /\ UNCHANGED <<node, assigned, asked>>
      /\ req' = [req EXCEPT ![r] = w]
  BY DEF DisableExpired
<1>2. req[r] \in Request /\ Knows(req[r])
  BY Types DEF IInv
<1>3. req[r].set \subseteq Users /\ (\A x \in req[r].set : ~asked[x].on) /\ ~req[r].bot
  BY <1>1, <1>2 DEF Knows, Selecting
<1>4. S \subseteq Users /\ S \in SUBSET (Users \cup Nodes) /\ (\A x \in S : ~asked[x].on)
      /\ ~asked[u].on
  BY <1>1, <1>3
<1> HIDE DEF S
<1>5. w \in Request /\ w.pc = "revoke" /\ w.user = u /\ w.set = S /\ ~w.bot
  BY <1>2, <1>3, <1>4 DEF Request
<1> HIDE DEF w
<1>6. Knows(w) /\ ~Updating(w) /\ ~Updating(req[r])
  BY <1>1, <1>4, <1>5 DEF Knows, Selecting, Updating
<1>7. CASE ~There(u)
  <2>1. users' = users
    BY <1>7 DEF DisableExpired
  <2> QED
    BY <1>1, <1>5, <1>6, <2>1, RowTypes, ReadStep DEF Quiet
<1>8. CASE There(u)
  <2>1. users' = [users EXCEPT ![u] = row] /\ asked' = [asked EXCEPT ![u] = asked[u]]
    BY <1>1, <1>8, RowOf DEF DisableExpired
  <2>2. row \in RowType /\ row.there = users[u].there /\ row.left = users[u].left
        /\ row.revoked = users[u].revoked
    BY RowOf DEF RowType
  <2> HIDE DEF row
  <2>3. PICK v \in Request : v = w
    BY <1>5
  <2>4. Knows(v)' /\ ~Updating(v)
    BY <1>1, <1>4, <1>5, <2>3 DEF Knows, Selecting, Updating
  <2>5. Extending(u) => Extending(u)'
    BY <1>1, Types DEF Extending
  <2>6. /\ req' = [req EXCEPT ![r] = v] /\ row.there /\ ~asked[u].on
        /\ (row.revoked => asked[u].link # "works") /\ asked[u] \in AskType
        /\ Extending(u)' \/ asked[u].left \in {row.left, Unsure}
    BY <1>1, <1>4, <1>8, <2>2, <2>3, <2>5, RowOf
  <2> QED
    BY <1>1, <1>6, <1>8, <2>1, <2>2, <2>4, <2>6, MoveStep
<1> QED
  BY <1>7, <1>8

LEMMA RevokeStep ==
  ASSUME IInv, NEW r \in Reqs, RevokeExpired(r)
  PROVE  IInv'
<1> DEFINE w == IF req[r].set = {} THEN Idle ELSE [req[r] EXCEPT !.pc = "disable", !.user = NoUser]
<1>1. req[r].pc = "revoke" /\ Quiet /\ UNCHANGED <<node, assigned>>
  BY DEF RevokeExpired
<1>2. req[r] \in Request /\ Knows(req[r])
  BY Types DEF IInv
<1>3. PICK u \in Users : u = req[r].user
  BY <1>1, <1>2 DEF Knows
<1>4. req' = [req EXCEPT ![r] = w]
  BY Types DEF RevokeExpired
<1>5. req[r].set \subseteq Users /\ (\A x \in req[r].set : ~asked[x].on) /\ ~req[r].bot
  BY <1>1, <1>2 DEF Knows, Selecting
<1>6. /\ w \in Request /\ ~w.bot /\ w.set = req[r].set
      /\ w.pc = "disable" \/ (w.pc = "idle" /\ w.set = {})
  <2>1. CASE req[r].set = {}
    BY <2>1, IdleRequest
  <2>2. CASE req[r].set # {}
    BY <1>2, <1>5, <2>2 DEF Request
  <2> QED
    BY <2>1, <2>2
<1> HIDE DEF w
<1>7. Knows(w) /\ ~Updating(w) /\ ~Updating(req[r])
  BY <1>1, <1>5, <1>6 DEF Knows, Selecting, Updating
<1>8. CASE ~(RevokeOnExpire /\ There(u))
  <2>1. UNCHANGED <<users, asked>>
    BY <1>3, <1>8 DEF RevokeExpired
  <2> QED
    BY <1>1, <1>4, <1>6, <1>7, <2>1, RowTypes, ReadStep DEF Quiet
<1>9. CASE RevokeOnExpire /\ There(u)
  <2> DEFINE row == [users[u] EXCEPT !.revoked = TRUE]
             ask == [asked[u] EXCEPT !.link = "revoked"]
  <2>1. users' = [users EXCEPT ![u] = row] /\ asked' = [asked EXCEPT ![u] = ask]
    BY <1>3, <1>9 DEF RevokeExpired
  <2>2. row \in RowType /\ row.there = users[u].there /\ row.on = users[u].on
        /\ row.left = users[u].left
    BY RowOf DEF RowType
  <2>3. ask \in AskType /\ ask.on = asked[u].on /\ ask.left = asked[u].left
        /\ ask.nodes = asked[u].nodes /\ ask.link = "revoked"
    BY RowOf DEF AskType
  <2> HIDE DEF row, ask
  <2>4. PICK v \in Request : v = w
    BY <1>6
  <2>5. \A x \in Users : asked'[x].on = asked[x].on
    BY <2>1, <2>3, Types
  <2>6. Knows(v)' /\ ~Updating(v)
    BY <1>5, <1>6, <2>4, <2>5 DEF Knows, Selecting, Updating
  <2>7. Extending(u) => Extending(u)'
    BY <1>1, <1>4, Types DEF Extending
  <2>8. /\ req' = [req EXCEPT ![r] = v] /\ row.there
        /\ (ask.on => row.on /\ row.left # 0 /\ asked[u].on)
        /\ ask.link # "works"
        /\ Extending(u)' \/ ask.left \in {row.left, Unsure}
    BY <1>4, <1>9, <2>2, <2>3, <2>4, <2>7, RowOf
  <2>9. \A x \in Reqs \ {r} : ask.left \in {asked[u].left, Unsure}
    BY <2>3
  <2> QED
    BY <1>1, <1>7, <1>9, <2>1, <2>2, <2>3, <2>6, <2>8, <2>9, MoveStep
<1> QED
  BY <1>8, <1>9


-----------------------------------------------------------------------------
(* Updates of a user's nodes.                                              *)

Sole(r, u) == \A x \in Reqs \ {r} : ~(Updating(req[x]) /\ req[x].user = u)
Owned(u, own) == \A n \in own : There(u) /\ Names(n)
Fits(own, wish) == wish = {} \/ \A n \in Nodes : n \in own <=> n \in wish /\ Names(n)

LEMMA NodesStep ==
  ASSUME IInv, NEW r \in Reqs, NEW u \in Users, NEW v \in Request, Knows(v)',
         req' = [req EXCEPT ![r] = v], UNCHANGED <<users, node>>, Quiet,
         NEW ask \in AskType, asked' = [asked EXCEPT ![u] = ask],
         ask.on = asked[u].on, ask.left = asked[u].left, ask.link = asked[u].link,
         NEW own \in NodeSets, Owned(u, own),
         assigned' = [assigned EXCEPT ![u] = own],
         There(u) \/ ask = Unasked,
         req[r].pc # "extend", Updating(req[r]) => req[r].user = u, Updating(v) => v.user = u,
         Sole(r, u) \/ ask.nodes = {}, Updating(v) \/ Fits(own, ask.nodes)
  PROVE  IInv'
<1>1. /\ users \in [Users -> RowType] /\ asked \in [Users -> AskType]
      /\ assigned \in [Users -> SUBSET Nodes]
      /\ \A w \in Users : assigned[w] \subseteq {n \in Nodes : There(w) /\ Names(n)}
      /\ \A w \in Users : There(w) \/ (users[w] = NoRow /\ asked[w] = Unasked)
      /\ node \in [Nodes -> {"gone", "off", "on"}] /\ req \in [Reqs -> Request]
  BY Types
<1>3. /\ asked' \in [Users -> AskType] /\ assigned' \in [Users -> SUBSET Nodes]
      /\ asked'[u] = ask /\ assigned'[u] = own
      /\ \A w \in Users \ {u} : asked'[w] = asked[w] /\ assigned'[w] = assigned[w]
      /\ users' \in [Users -> RowType] /\ node' \in [Nodes -> {"gone", "off", "on"}]
  BY <1>1 DEF NodeSets
<1>4. req'[r] = v /\ \A x \in Reqs \ {r} : req'[x] = req[x]
  BY <1>1
<1>5. ASSUME NEW x \in Reqs \ {r} PROVE Kept(req[x])
  <2>1. /\ req[x].pc = "extend" \/ Updating(req[x]) => req[x].user \in Users
        /\ Selecting(req[x]) => req[x].set \subseteq Users
    BY DEF Updating, Selecting, IInv, Knows
  <2>2. \A w \in Users : asked'[w].left = asked[w].left /\ asked'[w].on = asked[w].on
    BY <1>3
  <2>3. req'[x] = req[x]
    BY <1>4
  <2>4. Updating(req[x]) => \/ asked'[req[x].user].nodes = {}
                            \/ /\ asked'[req[x].user].nodes = asked[req[x].user].nodes
                               /\ assigned'[req[x].user] \subseteq assigned[req[x].user]
    BY <1>3, <2>1 DEF Sole
  <2> QED
    BY <2>1, <2>2, <2>3, <2>4 DEF Kept, There
<1>6. req' \in [Reqs -> Request] /\ \A x \in Reqs : Knows(req[x])'
  BY <1>5, OthersKnow
<1>7. OneGap'
  <2> SUFFICES ASSUME NEW x \in Reqs, NEW q \in Reqs, x # q, Updating(req'[x]),
                      Updating(req'[q]), req'[x].user = req'[q].user
               PROVE  asked'[req'[x].user].nodes = {}
    BY DEF OneGap, Updating
  <2>1. CASE req'[x].user = u
    <3>1. PICK y \in {x, q} : y # r
      OBVIOUS
    <3>2. Updating(req'[y]) /\ req'[y].user = u /\ req'[y] = req[y]
      BY <1>4, <2>1, <3>1
    <3>3. ask.nodes = {}
      BY <3>1, <3>2 DEF Sole
    <3> QED
      BY <1>3, <2>1, <3>3
  <2>2. CASE req'[x].user # u
    <3>1. x # r /\ q # r
      BY <1>4, <2>2
    <3>2. req'[x] = req[x] /\ req'[q] = req[q]
      BY <1>4, <3>1
    <3>3. Updating(req[x]) /\ Updating(req[q]) /\ req[x].user = req[q].user
      BY <3>2
    <3>4. asked[req[x].user].nodes = {}
      BY <3>3 DEF IInv, OneGap
    <3>5. req[x].user \in Users
      BY <3>3 DEF IInv, Knows, Updating
    <3> QED
      BY <1>3, <2>2, <3>2, <3>4, <3>5
  <2> QED
    BY <2>1, <2>2
<1>8. Assigned'
  <2> SUFFICES ASSUME NEW w \in Users, ~Gap(w)', asked'[w].nodes # {}
               PROVE  assigned'[w] = {n \in asked'[w].nodes : node'[n] # "gone"}
    BY DEF Assigned
  <2>1. CASE w = u
    <3>1. ~Updating(v)
      BY <1>4, <2>1 DEF Gap, Updating
    <3> QED
      BY <1>3, <2>1, <3>1 DEF Fits, Names, NodeSets, AskType
  <2>2. CASE w # u
    <3>1. ~Gap(w)
      BY <1>4, <2>2 DEF Gap, Updating
    <3> QED
      BY <1>3, <2>2, <3>1 DEF IInv, Assigned
  <2> QED
    BY <2>1, <2>2
<1>9. /\ \A w \in Users : assigned'[w] \subseteq {n \in Nodes : There(w)' /\ Names(n)'}
      /\ \A w \in Users : There(w)' \/ (users'[w] = NoRow /\ asked'[w] = Unasked)
  BY <1>1, <1>3 DEF There, Names, Owned, NodeSets
<1>10. OnInTime' /\ OffForCause' /\ NewLinksWork'
  BY <1>3 DEF IInv, OnInTime, OffForCause, NewLinksWork
<1>11. TimeAddsUp'
  <2>1. \A w \in Users : Extending(w) => Extending(w)'
    BY <1>4 DEF Extending
  <2> QED
    BY <1>3, <2>1 DEF IInv, TimeAddsUp
<1>12. given'.nodes \subseteq Nodes /\ OnlyNodesAskedFor'
  BY QuietDocument
<1> QED
  BY <1>3, <1>6, <1>7, <1>8, <1>9, <1>10, <1>11, <1>12, Assemble


LEMMA NodesOf ==
  ASSUME IInv, NEW u \in Users
  PROVE  /\ assigned[u] \in NodeSets /\ {} \in NodeSets
         /\ Owned(u, assigned[u])
         /\ assigned = [assigned EXCEPT ![u] = assigned[u]]
         /\ There(u) \/ asked[u] = Unasked
         /\ asked[u].nodes \subseteq Nodes
         /\ \A S \in SUBSET Nodes :
               LET ask == [asked[u] EXCEPT !.nodes = S] IN
               /\ ask \in AskType /\ ask.on = asked[u].on /\ ask.left = asked[u].left
               /\ ask.link = asked[u].link /\ ask.nodes = S
               /\ There(u) \/ S # {} \/ ask = Unasked
<1>1. /\ assigned \in [Users -> SUBSET Nodes]
      /\ assigned[u] \subseteq {n \in Nodes : There(u) /\ Names(n)}
      /\ There(u) \/ asked[u] = Unasked
  BY Types
<1>2. assigned = [assigned EXCEPT ![u] = assigned[u]]
  BY <1>1
<1>3. asked[u] \in AskType /\ Unasked \in AskType /\ Unasked.nodes = {}
  BY RowOf, RowTypes
<1>4. ASSUME NEW S \in SUBSET Nodes, NEW a \in AskType
      PROVE  /\ [a EXCEPT !.nodes = S] \in AskType
             /\ [a EXCEPT !.nodes = S].on = a.on /\ [a EXCEPT !.nodes = S].left = a.left
             /\ [a EXCEPT !.nodes = S].link = a.link /\ [a EXCEPT !.nodes = S].nodes = S
             /\ a.nodes = S => [a EXCEPT !.nodes = S] = a
  BY DEF AskType
<1>5. asked[u].nodes \subseteq Nodes
  BY <1>3 DEF AskType
<1>6. ASSUME NEW S \in SUBSET Nodes
      PROVE  LET ask == [asked[u] EXCEPT !.nodes = S] IN
               /\ ask \in AskType /\ ask.on = asked[u].on /\ ask.left = asked[u].left
               /\ ask.link = asked[u].link /\ ask.nodes = S
               /\ There(u) \/ S # {} \/ ask = Unasked
  BY <1>1, <1>3, <1>4
<1> QED
  BY <1>1, <1>2, <1>3, <1>5, <1>6 DEF NodeSets, Owned

(* Of two updates of a user's nodes neither is asked for. *)
LEMMA OtherGap ==
  ASSUME IInv, NEW r \in Reqs, Updating(req[r]),
         NEW x \in Reqs \ {r}, Updating(req[x]), req[x].user = req[r].user
  PROVE  asked[req[r].user].nodes = {}
  BY DEF IInv, OneGap

LEMMA UpdateNodesStep ==
  ASSUME IInv, NEW r \in Reqs, NEW u \in Users, NEW S \in SUBSET Nodes, UpdateNodes(r, u, S)
  PROVE  IInv'
<1> DEFINE T == IF Gap(u) THEN {} ELSE S
           ask == [asked[u] EXCEPT !.nodes = T]
           w == [Idle EXCEPT !.pc = "clear", !.user = u, !.set = S]
<1>1. /\ req[r].pc = "idle" /\ There(u) /\ Quiet /\ UNCHANGED <<users, node, assigned>>
      /\ req' = [req EXCEPT ![r] = w] /\ asked' = [asked EXCEPT ![u] = ask]
  BY DEF UpdateNodes
<1>2. T \in SUBSET Nodes /\ T \in {{}, S} /\ (Gap(u) => T = {})
  OBVIOUS
<1> HIDE DEF T
<1>3. ask \in AskType /\ ask.on = asked[u].on /\ ask.left = asked[u].left
      /\ ask.link = asked[u].link /\ ask.nodes = T
  BY <1>2, NodesOf
<1>4. S \in SUBSET (Users \cup Nodes)
  OBVIOUS
<1>5. w \in Request /\ w.pc = "clear" /\ w.user = u /\ w.set = S /\ ~w.bot
  BY <1>4, IdleRequest DEF Request
<1> HIDE DEF ask, w
<1>6. PICK v \in Request : v = w
  BY <1>5
<1>7. asked'[u].nodes = T
  BY <1>1, <1>3, Types
<1>8. Knows(v)'
  BY <1>2, <1>5, <1>6, <1>7 DEF Knows, Selecting, Updating
<1>9. Updating(v) /\ v.user = u /\ ~Updating(req[r]) /\ req' = [req EXCEPT ![r] = v]
  BY <1>1, <1>5, <1>6 DEF Updating
<1>10. Sole(r, u) \/ ask.nodes = {}
  BY <1>2, <1>3 DEF Gap, Updating, Sole
<1>11. /\ assigned[u] \in NodeSets
       /\ Owned(u, assigned[u])
       /\ assigned' = [assigned EXCEPT ![u] = assigned[u]]
  BY <1>1, NodesOf
<1> QED
  BY <1>1, <1>3, <1>8, <1>9, <1>10, <1>11, NodesStep

LEMMA ClearStep ==
  ASSUME IInv, NEW r \in Reqs, ClearNodes(r)
  PROVE  IInv'
<1> DEFINE w == IF req[r].set = {} THEN Idle ELSE [req[r] EXCEPT !.pc = "assign"]
<1>1. req[r].pc = "clear" /\ Quiet /\ UNCHANGED <<users, node, asked>>
  BY DEF ClearNodes
<1>2. req[r] \in Request /\ Knows(req[r]) /\ Updating(req[r])
  BY <1>1, Types DEF IInv, Updating
<1>3. PICK u \in Users : u = req[r].user
  BY <1>1, <1>2 DEF Knows
<1>4. /\ asked' = [asked EXCEPT ![u] = asked[u]] /\ asked[u] \in AskType
      /\ req' = [req EXCEPT ![r] = w] /\ assigned' = [assigned EXCEPT ![u] = {}]
  BY <1>1, <1>3, RowOf, Types DEF ClearNodes, Goto, Return
<1>5. asked[u].nodes \in {{}, req[r].set} /\ req[r].set \subseteq Nodes /\ ~req[r].bot
  BY <1>1, <1>2, <1>3 DEF Knows, Selecting
<1>6. /\ w \in Request /\ ~w.bot /\ w.set = req[r].set
      /\ (w.pc = "assign" /\ w.user = u) \/ (w.pc = "idle" /\ w.set = {})
  <2>1. CASE req[r].set = {}
    BY <2>1, IdleRequest
  <2>2. CASE req[r].set # {}
    <3>1. /\ req[r].set \in SUBSET (Users \cup Nodes) /\ w \in Request
          /\ w.pc = "assign" /\ w.user = req[r].user /\ w.set = req[r].set /\ ~w.bot
      BY <1>2, <1>5, <2>2 DEF Request
    <3> HIDE DEF w
    <3> QED
      BY <1>3, <3>1
  <2> QED
    BY <2>1, <2>2
<1> HIDE DEF w
<1>7. PICK v \in Request : v = w
  BY <1>6
<1>8. asked'[u] = asked[u] /\ assigned'[u] = {}
  BY <1>4, Types
<1>9. Knows(v)' /\ (Updating(v) => v.user = u) /\ (Updating(v) \/ Fits({}, asked[u].nodes))
      /\ req' = [req EXCEPT ![r] = v] /\ req[r].pc # "extend"
  BY <1>1, <1>4, <1>5, <1>6, <1>7, <1>8 DEF Knows, Selecting, Updating, Fits
<1>10. Sole(r, u) \/ asked[u].nodes = {}
  BY <1>2, <1>3, OtherGap DEF Sole
<1>11. (There(u) \/ asked[u] = Unasked) /\ {} \in NodeSets /\ Owned(u, {})
  BY NodesOf DEF Owned
<1> QED
  BY <1>1, <1>3, <1>4, <1>9, <1>10, <1>11, NodesStep

(* An update of nodes that ends where it is. *)
LEMMA GiveUpStep ==
  ASSUME IInv, NEW r \in Reqs, Updating(req[r]), Return(r), Quiet,
         UNCHANGED <<users, node, assigned>>,
         asked' = [asked EXCEPT ![req[r].user].nodes = {}]
  PROVE  IInv'
<1>1. PICK u \in Users : u = req[r].user
  BY DEF IInv, Knows, Updating
<1> DEFINE ask == [asked[u] EXCEPT !.nodes = {}]
<1>2. /\ asked' = [asked EXCEPT ![u] = ask]
      /\ assigned' = [assigned EXCEPT ![u] = assigned[u]]
      /\ req' = [req EXCEPT ![r] = Idle]
  BY <1>1, NodesOf DEF Return
<1>3. ask \in AskType /\ ask.on = asked[u].on /\ ask.left = asked[u].left
      /\ ask.link = asked[u].link /\ ask.nodes = {} /\ (There(u) \/ ask = Unasked)
  <2>1. {} \in SUBSET Nodes
    OBVIOUS
  <2> QED
    BY <2>1, NodesOf
<1> HIDE DEF ask
<1>4. ~Updating(Idle) /\ req[r].pc # "extend" /\ Fits(assigned[u], ask.nodes)
  BY <1>3, IdleRequest DEF Updating, Fits
<1>5. assigned[u] \in NodeSets /\ Owned(u, assigned[u])
  BY NodesOf
<1> QED
  BY <1>1, <1>2, <1>3, <1>4, <1>5, IdleRequest, IdleKnows, NodesStep

LEMMA AssignStep ==
  ASSUME IInv, NEW r \in Reqs, AssignNodes(r)
  PROVE  IInv'
<1>1. req[r].pc = "assign" /\ Quiet /\ UNCHANGED <<users, node>> /\ Return(r)
  BY DEF AssignNodes
<1>2. req[r] \in Request /\ Knows(req[r]) /\ Updating(req[r])
  BY <1>1, Types DEF IInv, Updating
<1>3. PICK u \in Users : u = req[r].user
  BY <1>1, <1>2 DEF Knows
<1>4. CASE There(u) /\ \A n \in req[r].set : node[n] # "gone"
  <2> DEFINE own == assigned[u] \cup req[r].set
  <2>1. /\ asked' = [asked EXCEPT ![u] = asked[u]] /\ asked[u] \in AskType
        /\ req' = [req EXCEPT ![r] = Idle] /\ assigned' = [assigned EXCEPT ![u] = own]
    BY <1>3, <1>4, RowOf DEF AssignNodes, Return
  <2>2. req[r].set \subseteq Nodes /\ Owned(u, req[r].set)
    BY <1>2, <1>4 DEF Knows, Selecting, Updating, Names, Owned
  <2>3. own \in NodeSets /\ Owned(u, own)
    BY <2>2, NodesOf DEF NodeSets, Owned
  <2>4. Fits(own, asked[u].nodes)
    BY <1>1, <1>2, <1>3, <2>2 DEF Knows, Updating, Fits, Owned
  <2> HIDE DEF own
  <2>5. Sole(r, u) \/ asked[u].nodes = {}
    BY <1>2, <1>3, OtherGap DEF Sole
  <2>6. ~Updating(Idle) /\ req[r].pc # "extend"
    BY <1>1, IdleRequest DEF Updating
  <2> QED
    BY <1>1, <1>3, <1>4, <2>1, <2>3, <2>4, <2>5, <2>6, IdleRequest, IdleKnows, NodesStep
<1>5. CASE ~(There(u) /\ \A n \in req[r].set : node[n] # "gone")
  <2>1. asked' = [asked EXCEPT ![req[r].user].nodes = {}] /\ assigned' = assigned
    BY <1>3, <1>5 DEF AssignNodes
  <2> QED
    BY <1>1, <1>2, <2>1, GiveUpStep
<1> QED
  BY <1>4, <1>5

LEMMA AbortStep ==
  ASSUME IInv, NEW r \in Reqs, Abort(r)
  PROVE  IInv'
<1>1. Return(r) /\ Quiet /\ UNCHANGED <<users, node, assigned>> /\ req[r].pc # "idle"
  BY DEF Abort
<1>2. req' = [req EXCEPT ![r] = Idle] /\ ~Updating(Idle)
  BY <1>1, IdleRequest DEF Return, Updating
<1>3. CASE req[r].pc \in {"clear", "assign"}
  BY <1>1, <1>3, GiveUpStep DEF Abort, Updating
<1>4. CASE req[r].pc = "extend" /\ There(req[r].user)
  <2>1. PICK u \in Users : u = req[r].user
    BY <1>4 DEF IInv, Knows
  <2> DEFINE ask == [asked[u] EXCEPT !.left = Unsure]
  <2>2. asked' = [asked EXCEPT ![u] = ask]
    BY <1>4, <2>1 DEF Abort
  <2>3. ask \in AskType /\ ask.on = asked[u].on /\ ask.left = Unsure
        /\ ask.nodes = asked[u].nodes /\ ask.link = asked[u].link
    BY RowOf DEF AskType
  <2> HIDE DEF ask
  <2>4. /\ users' = [users EXCEPT ![u] = users[u]] /\ users[u] \in RowType /\ users[u].there
        /\ (ask.on => users[u].on /\ users[u].left # 0 /\ asked[u].on)
        /\ (users[u].revoked => ask.link # "works") /\ There(u)
    BY <1>1, <1>4, <2>1, <2>3, RowOf
  <2>5. ~Updating(req[r])
    BY <1>4 DEF Updating
  <2> QED
    BY <1>1, <1>2, <2>1, <2>2, <2>3, <2>4, <2>5, IdleRequest, IdleKnows, MoveStep
<1>5. CASE /\ req[r].pc \notin {"clear", "assign"}
           /\ ~(req[r].pc = "extend" /\ There(req[r].user))
  <2>1. asked' = asked
    BY <1>5 DEF Abort
  <2> QED
    BY <1>1, <1>2, <1>5, <2>1, IdleRequest, IdleKnows, RowTypes, ReadStep DEF Quiet
<1> QED
  BY <1>3, <1>4, <1>5


-----------------------------------------------------------------------------
(* Nodes, users that come and go, and time.                                *)

LEMMA NodeStep ==
  ASSUME IInv, NEW n \in Nodes, ToggleNode(n) \/ DeleteNode(n)
  PROVE  IInv'
<1>1. Quiet /\ UNCHANGED <<users, req, asked>> /\ node[n] # "gone"
  BY DEF ToggleNode, DeleteNode
<1>2. /\ users' \in [Users -> RowType] /\ asked' \in [Users -> AskType]
      /\ req' \in [Reqs -> Request] /\ assigned \in [Users -> SUBSET Nodes]
      /\ node \in [Nodes -> {"gone", "off", "on"}]
      /\ \A u \in Users : There(u)' \/ (users'[u] = NoRow /\ asked'[u] = Unasked)
      /\ \A u \in Users : assigned[u] \subseteq {m \in Nodes : There(u) /\ Names(m)}
  BY <1>1, Types DEF There
<1>3. /\ node' \in [Nodes -> {"gone", "off", "on"}] /\ assigned' \in [Users -> SUBSET Nodes]
      /\ \/ node'[n] # "gone" /\ assigned' = assigned
         \/ node'[n] = "gone" /\ \A u \in Users : assigned'[u] = assigned[u] \ {n}
      /\ \A m \in Nodes \ {n} : node'[m] = node[m]
  <2>1. CASE ToggleNode(n)
    <3>1. node'[n] \in {"off", "on"} /\ assigned' = assigned
      BY <1>2, <2>1 DEF ToggleNode
    <3> QED
      BY <1>2, <2>1, <3>1 DEF ToggleNode
  <2>2. CASE DeleteNode(n)
    BY <1>2, <2>2 DEF DeleteNode
  <2> QED
    BY <2>1, <2>2
<1>4. \A u \in Users : assigned'[u] \subseteq assigned[u]
  BY <1>3
<1>5. \A m \in Nodes : Names(m)' <=> Names(m) /\ (m # n \/ node'[n] # "gone")
  BY <1>1, <1>3 DEF Names
<1>6. \A u \in Users : assigned'[u] \subseteq {m \in Nodes : There(u)' /\ Names(m)'}
  BY <1>1, <1>2, <1>3, <1>5 DEF There
<1>7. \A x \in Reqs : Knows(req[x])'
  <2>1. ASSUME NEW x \in Reqs PROVE Kept(req[x])
    <3>1. Updating(req[x]) => req[x].user \in Users
      BY DEF Updating, IInv, Knows
    <3> QED
      BY <1>1, <1>4, <3>1 DEF Kept, There
  <2> QED
    BY <1>1, <2>1, AllKnow
<1>8. OneGap' /\ OnInTime' /\ OffForCause' /\ TimeAddsUp' /\ NewLinksWork'
  BY <1>1 DEF IInv, OneGap, Updating, OnInTime, OffForCause, TimeAddsUp, Extending, NewLinksWork
<1>9. Assigned'
  <2> SUFFICES ASSUME NEW u \in Users, ~Gap(u)', asked'[u].nodes # {}
               PROVE  assigned'[u] = {m \in asked'[u].nodes : node'[m] # "gone"}
    BY DEF Assigned
  <2>1. assigned[u] = {m \in asked[u].nodes : node[m] # "gone"} /\ asked'[u] = asked[u]
    BY <1>1 DEF Gap, IInv, Assigned
  <2>2. asked[u].nodes \subseteq Nodes
    BY NodesOf
  <2> QED
    BY <1>3, <1>5, <2>1, <2>2 DEF Names
<1>10. given'.nodes \subseteq Nodes /\ OnlyNodesAskedFor'
  BY <1>1, QuietDocument
<1> QED
  BY <1>2, <1>3, <1>6, <1>7, <1>8, <1>9, <1>10, Assemble

(* A user comes or goes. *)
LEMMA UserStep ==
  ASSUME IInv, NEW u \in Users, NEW row \in RowType, NEW ask \in AskType, NEW own \in NodeSets,
         users' = [users EXCEPT ![u] = row], asked' = [asked EXCEPT ![u] = ask],
         assigned' = [assigned EXCEPT ![u] = own], UNCHANGED <<node, req>>, Quiet,
         \A n \in own : row.there /\ Names(n),
         row.there \/ (row = NoRow /\ ask = Unasked),
         row.there => \A r \in Reqs : req[r].user # u /\ u \notin req[r].set,
         ask.on => row.on /\ row.left # 0, ask.left = row.left, ask.nodes = own,
         row.revoked => ask.link # "works"
  PROVE  IInv'
<1>1. /\ users \in [Users -> RowType] /\ asked \in [Users -> AskType]
      /\ assigned \in [Users -> SUBSET Nodes] /\ req \in [Reqs -> Request]
      /\ \A w \in Users : assigned[w] \subseteq {n \in Nodes : There(w) /\ Names(n)}
      /\ \A w \in Users : There(w) \/ (users[w] = NoRow /\ asked[w] = Unasked)
      /\ node \in [Nodes -> {"gone", "off", "on"}]
  BY Types
<1>2. /\ users' \in [Users -> RowType] /\ asked' \in [Users -> AskType]
      /\ assigned' \in [Users -> SUBSET Nodes] /\ req' \in [Reqs -> Request]
      /\ users'[u] = row /\ asked'[u] = ask /\ assigned'[u] = own
      /\ \A w \in Users \ {u} : /\ users'[w] = users[w] /\ asked'[w] = asked[w]
                                /\ assigned'[w] = assigned[w]
      /\ node' \in [Nodes -> {"gone", "off", "on"}]
  BY <1>1 DEF NodeSets
<1>3. /\ \A w \in Users : assigned'[w] \subseteq {n \in Nodes : There(w)' /\ Names(n)'}
      /\ \A w \in Users : There(w)' \/ (users'[w] = NoRow /\ asked'[w] = Unasked)
  BY <1>1, <1>2 DEF There, Names, NodeSets
<1>4. ask.nodes = {} \/ row.there
  OBVIOUS
<1>5. ~row.there => ~ask.on
  BY RowTypes
<1>6. ASSUME NEW x \in Reqs PROVE Kept(req[x])
  <2>1. /\ req[x].pc = "extend" \/ Updating(req[x]) => req[x].user \in Users
        /\ Selecting(req[x]) => req[x].set \subseteq Users
    BY DEF Updating, Selecting, IInv, Knows
  <2>2. req[x].pc = "extend" /\ There(req[x].user)' =>
          There(req[x].user) /\ asked'[req[x].user].left \in {asked[req[x].user].left, Unsure}
    BY <1>2, <2>1 DEF There
  <2>3. Updating(req[x]) => \/ asked'[req[x].user].nodes = {}
                            \/ /\ asked'[req[x].user].nodes = asked[req[x].user].nodes
                               /\ assigned'[req[x].user] \subseteq assigned[req[x].user]
    BY <1>2, <1>4, <2>1
  <2>4. Selecting(req[x]) => \A w \in req[x].set : asked'[w].on => asked[w].on
    BY <1>2, <1>5, <2>1
  <2> QED
    BY <2>2, <2>3, <2>4 DEF Kept, There
<1>7. \A x \in Reqs : Knows(req[x])'
  BY <1>6, AllKnow
<1>8. OneGap'
  <2> SUFFICES ASSUME NEW x \in Reqs, NEW q \in Reqs, x # q, Updating(req[x]),
                      Updating(req[q]), req[x].user = req[q].user
               PROVE  asked'[req[x].user].nodes = {}
    BY DEF OneGap, Updating
  <2>1. asked[req[x].user].nodes = {}
    BY DEF IInv, OneGap
  <2>2. req[x].user \in Users
    BY DEF IInv, Knows, Updating
  <2> QED
    BY <1>2, <1>4, <2>1, <2>2
<1>9. Assigned'
  <2> SUFFICES ASSUME NEW w \in Users, ~Gap(w)', asked'[w].nodes # {}
               PROVE  assigned'[w] = {n \in asked'[w].nodes : node'[n] # "gone"}
    BY DEF Assigned
  <2>1. CASE w = u
    BY <1>2, <2>1 DEF Names
  <2>2. CASE w # u
    BY <1>2, <2>2 DEF Gap, IInv, Assigned
  <2> QED
    BY <2>1, <2>2
<1>10. OnInTime' /\ OffForCause' /\ NewLinksWork'
  BY <1>2 DEF IInv, OnInTime, OffForCause, NewLinksWork
<1>11. TimeAddsUp'
  BY <1>2 DEF IInv, TimeAddsUp, Extending
<1>12. given'.nodes \subseteq Nodes /\ OnlyNodesAskedFor'
  BY QuietDocument
<1> QED
  BY <1>2, <1>3, <1>7, <1>8, <1>9, <1>10, <1>11, <1>12, Assemble


LEMMA CreateUserStep ==
  ASSUME IInv, NEW u \in Users, NEW left \in Times, NEW S \in SUBSET Nodes,
         CreateUser(u, left, S)
  PROVE  IInv'
<1> DEFINE row == [NoRow EXCEPT !.there = TRUE, !.on = TRUE, !.left = left]
           ask == [on |-> left # 0, left |-> left, nodes |-> S, link |-> "works"]
<1>1. /\ users' = [users EXCEPT ![u] = row] /\ asked' = [asked EXCEPT ![u] = ask]
      /\ assigned' = [assigned EXCEPT ![u] = S] /\ UNCHANGED <<node, req>> /\ Quiet
      /\ \A r \in Reqs : req[r].user # u /\ u \notin req[r].set
      /\ \A n \in S : node[n] # "gone"
  BY DEF CreateUser
<1>2. row \in RowType /\ row.there /\ row.on /\ row.left = left /\ ~row.revoked
  BY DEF NoRow, RowType
<1>3. /\ ask \in AskType /\ ask.left = left /\ ask.nodes = S /\ ask.link = "works"
      /\ ask.on => left # 0
  BY DEF AskType
<1>4. S \in NodeSets /\ \A n \in S : row.there /\ Names(n)
  BY <1>1, <1>2 DEF NodeSets, Names
<1> HIDE DEF row, ask
<1> QED
  BY <1>1, <1>2, <1>3, <1>4, UserStep

LEMMA DeleteUserStep ==
  ASSUME IInv, NEW u \in Users, DeleteUser(u)
  PROVE  IInv'
<1>1. /\ users' = [users EXCEPT ![u] = NoRow] /\ asked' = [asked EXCEPT ![u] = Unasked]
      /\ assigned' = [assigned EXCEPT ![u] = {}] /\ UNCHANGED <<node, req>> /\ Quiet
  BY DEF DeleteUser
<1>2. {} \in NodeSets
  BY DEF NodeSets
<1> QED
  BY <1>1, <1>2, RowTypes, UserStep

LEMMA SoonerIsDate ==
  /\ \A left \in 0 .. MaxLeft : Sooner(left) \in 0 .. MaxLeft
  /\ \A left \in Times : Sooner(left) \in Times
  /\ Sooner(Unsure) = Unsure
  /\ Sooner(0) = 0
  BY Numbers DEF Sooner

LEMMA TickStep ==
  ASSUME IInv, Tick
  PROVE  IInv'
<1>1. /\ users \in [Users -> RowType] /\ asked \in [Users -> AskType]
      /\ assigned \in [Users -> SUBSET Nodes] /\ req \in [Reqs -> Request]
      /\ \A w \in Users : assigned[w] \subseteq {n \in Nodes : There(w) /\ Names(n)}
      /\ \A w \in Users : There(w) \/ (users[w] = NoRow /\ asked[w] = Unasked)
      /\ node \in [Nodes -> {"gone", "off", "on"}]
  BY Types
<1>2. UNCHANGED <<node, assigned>> /\ Quiet
  BY DEF Tick
<1>3. ASSUME NEW u \in Users
      PROVE  /\ users'[u] \in RowType /\ users'[u].there = users[u].there
             /\ users'[u].on = users[u].on /\ users'[u].left = Sooner(users[u].left)
             /\ users'[u].revoked = users[u].revoked
  <2>1. users'[u] = [users[u] EXCEPT !.left = Sooner(users[u].left)]
    BY DEF Tick
  <2>2. users[u] \in RowType /\ Sooner(users[u].left) \in Times
    BY RowOf, SoonerIsDate
  <2> QED
    BY <2>1, <2>2 DEF RowType
<1>4. ASSUME NEW u \in Users
      PROVE  /\ asked'[u] \in AskType /\ asked'[u].left = Sooner(asked[u].left)
             /\ asked'[u].nodes = asked[u].nodes /\ asked'[u].link = asked[u].link
             /\ asked'[u].on => asked[u].on /\ users'[u].left # 0
  <2> DEFINE on == asked[u].on /\ users'[u].left # 0
             left == Sooner(asked[u].left)
  <2>1. asked'[u] = [asked[u] EXCEPT !.left = left, !.on = on]
    BY DEF Tick
  <2>2. asked[u] \in AskType /\ left \in Times \cup {Unsure} /\ on \in BOOLEAN
        /\ (on => asked[u].on /\ users'[u].left # 0)
    BY RowOf, SoonerIsDate
  <2> HIDE DEF on, left
  <2>3. asked'[u] \in AskType /\ asked'[u].left = left /\ asked'[u].nodes = asked[u].nodes
        /\ asked'[u].link = asked[u].link /\ asked'[u].on = on
    BY <2>1, <2>2 DEF AskType
  <2> QED
    BY <2>2, <2>3 DEF left
<1>5. ASSUME NEW x \in Reqs
      PROVE  /\ req'[x] \in Request /\ req'[x].pc = req[x].pc /\ req'[x].user = req[x].user
             /\ req'[x].set = req[x].set /\ req'[x].bound = req[x].bound
             /\ req'[x].bot = req[x].bot /\ req'[x].left = Sooner(req[x].left)
  <2>1. req'[x] = [req[x] EXCEPT !.left = Sooner(req[x].left)]
    BY DEF Tick
  <2>2. req[x] \in Request
    BY <1>1
  <2>3. Sooner(req[x].left) \in 0 .. MaxLeft
    BY <2>2, SoonerIsDate DEF Request
  <2> QED
    BY <2>1, <2>2, <2>3 DEF Request
<1>6. /\ users' \in [Users -> RowType] /\ asked' \in [Users -> AskType]
      /\ req' \in [Reqs -> Request]
      /\ node' \in [Nodes -> {"gone", "off", "on"}] /\ assigned' \in [Users -> SUBSET Nodes]
  <2>1. users' = [u \in Users |-> users'[u]] /\ asked' = [u \in Users |-> asked'[u]]
        /\ req' = [x \in Reqs |-> req'[x]]
    BY DEF Tick
  <2> QED
    BY <1>1, <1>2, <1>3, <1>4, <1>5, <2>1
<1>7. \A u \in Users : There(u)' <=> There(u)
  BY <1>3 DEF There
<1>8. ASSUME NEW u \in Users
      PROVE  There(u)' \/ (users'[u] = NoRow /\ asked'[u] = Unasked)
  <2>1. CASE There(u)
    BY <1>7, <2>1
  <2>2. CASE ~There(u)
    <3>1. users[u] = NoRow /\ asked[u] = Unasked
      BY <1>1, <2>2
    <3>2. users'[u] = [NoRow EXCEPT !.left = 0]
      BY <3>1, RowTypes, SoonerIsDate DEF Tick
    <3>3. asked'[u] = [Unasked EXCEPT !.left = 0, !.on = FALSE /\ users'[u].left # 0]
      BY <3>1, RowTypes, SoonerIsDate DEF Tick, Unasked
    <3> QED
      BY <3>2, <3>3 DEF NoRow, Unasked
  <2> QED
    BY <2>1, <2>2
<1>9. \A w \in Users : assigned'[w] \subseteq {n \in Nodes : There(w)' /\ Names(n)'}
  BY <1>1, <1>2, <1>7 DEF Names
<1>10. ASSUME NEW x \in Reqs PROVE Knows(req[x])'
  <2>1. Knows(req[x])
    BY DEF IInv
  <2>2. req[x].pc = "extend" \/ Updating(req[x]) => req[x].user \in Users
    BY <2>1 DEF Knows, Updating
  <2>3. req'[x].pc = "extend" /\ There(req[x].user)' =>
          asked'[req[x].user].left \in {req'[x].left, Unsure}
    <3> SUFFICES ASSUME req[x].pc = "extend", users'[req[x].user].there
                 PROVE  asked'[req[x].user].left \in {req'[x].left, Unsure}
      BY <1>5 DEF There
    <3>1. req[x].user \in Users /\ There(req[x].user)
      BY <1>3, <2>2 DEF There
    <3>2. asked[req[x].user].left \in {req[x].left, Unsure}
      BY <2>1, <3>1 DEF Knows
    <3> QED
      BY <1>4, <1>5, <3>1, <3>2, SoonerIsDate
  <2>4. Updating(req[x]) =>
          \/ asked'[req[x].user].nodes = {}
          \/ /\ asked'[req[x].user].nodes = req[x].set
             /\ req[x].pc = "assign" => assigned'[req[x].user] = {}
    BY <1>2, <1>4, <2>1, <2>2 DEF Knows
  <2>5. Selecting(req[x]) => \A w \in req[x].set : ~asked'[w].on
    BY <1>4, <2>1 DEF Knows, Selecting
  <2>6. /\ req[x].pc \notin {"idle", "disable"} => req[x].user \in Users
        /\ req[x].set \subseteq (IF Selecting(req[x]) THEN Users ELSE Nodes)
        /\ req[x].bot => req[x].pc \in {"extend", "reply"}
        /\ req[x].pc = "all" => req[x].bound = Nodes
        /\ req[x].pc = "configs" =>
              req[x].set \subseteq req[x].bound /\ (req[x].set = {} => req[x].bound = Nodes)
    BY <2>1 DEF Knows
  <2> QED
    BY <1>5, <2>3, <2>4, <2>5, <2>6 DEF Knows, Selecting, Updating, There
<1>11. \A u \in Users : (Gap(u)' <=> Gap(u)) /\ (Extending(u)' <=> Extending(u))
  BY <1>5 DEF Gap, Extending
<1>12. OneGap'
  <2> SUFFICES ASSUME NEW x \in Reqs, NEW q \in Reqs, x # q, Updating(req[x]),
                      Updating(req[q]), req[x].user = req[q].user
               PROVE  asked'[req[x].user].nodes = {}
    BY <1>5 DEF OneGap, Updating
  <2>1. asked[req[x].user].nodes = {}
    BY DEF IInv, OneGap
  <2>2. req[x].user \in Users
    BY DEF IInv, Knows, Updating
  <2> QED
    BY <1>4, <2>1, <2>2
<1>13. Assigned'
  BY <1>2, <1>4, <1>11 DEF IInv, Assigned
<1>14. OnInTime' /\ OffForCause' /\ NewLinksWork'
  BY <1>3, <1>4 DEF IInv, OnInTime, OffForCause, NewLinksWork
<1>15. TimeAddsUp'
  BY <1>3, <1>4, <1>11, SoonerIsDate DEF IInv, TimeAddsUp
<1>16. given'.nodes \subseteq Nodes /\ OnlyNodesAskedFor'
  BY <1>2, QuietDocument
<1> QED
  BY <1>6, <1>8, <1>9, <1>10, <1>12, <1>13, <1>14, <1>15, <1>16, Assemble


LEMMA StutterStep ==
  ASSUME IInv, UNCHANGED vars
  PROVE  IInv'
<1>1. UNCHANGED <<users, node, assigned, req, given, asked>>
  BY DEF vars
<1>2. \A x \in Reqs : Knows(req[x])'
  BY <1>1, AllKnow, KeptIfSame
<1>3. /\ users' \in [Users -> RowType] /\ asked' \in [Users -> AskType]
      /\ node' \in [Nodes -> {"gone", "off", "on"}] /\ req' \in [Reqs -> Request]
      /\ assigned' \in [Users -> SUBSET Nodes]
      /\ \A u \in Users : assigned'[u] \subseteq {n \in Nodes : There(u)' /\ Names(n)'}
      /\ \A u \in Users : There(u)' \/ (users'[u] = NoRow /\ asked'[u] = Unasked)
  BY <1>1, Types DEF There, Names
<1>4. given'.nodes \subseteq Nodes /\ OnlyNodesAskedFor'
  BY <1>1 DEF IInv, TypeOK, OnlyNodesAskedFor
<1>5. OneGap' /\ Assigned'
  BY <1>1 DEF IInv, OneGap, Assigned, Updating, Gap
<1>6. OnInTime' /\ OffForCause' /\ TimeAddsUp' /\ NewLinksWork'
  BY <1>1 DEF IInv, OnInTime, OffForCause, TimeAddsUp, Extending, NewLinksWork
<1> QED
  BY <1>2, <1>3, <1>4, <1>5, <1>6, Assemble

LEMMA InitInv == Init => IInv
<1> SUFFICES ASSUME Init PROVE IInv
  OBVIOUS
<1>1. \A u \in Users : users[u] = NoRow /\ asked[u] = Unasked /\ assigned[u] = {}
  BY DEF Init
<1>2. users \in [Users -> RowType] /\ asked \in [Users -> AskType] /\ req \in [Reqs -> Request]
  BY RowTypes, IdleRequest DEF Init
<1>3. \A x \in Reqs : req[x] = Idle
  BY DEF Init
<1>4. node \in [Nodes -> {"gone", "off", "on"}] /\ assigned \in [Users -> SUBSET Nodes]
  BY DEF Init
<1>5. given.nodes \subseteq Nodes /\ OnlyNodesAskedFor
  BY RowTypes DEF Init, OnlyNodesAskedFor
<1>6. \A x \in Reqs : /\ req[x].pc = "idle" /\ req[x].set = {}
                      /\ req[x].left = 0 /\ 0 \in 0 .. MaxLeft
  BY <1>3, IdleRequest, Numbers
<1>7. TypeOK
  BY <1>1, <1>2, <1>4, <1>5, <1>6 DEF TypeOK, RowType, AskType
<1>8. \A x \in Reqs : Knows(req[x])
  BY <1>3, IdleKnows
<1>9. OneGap /\ Assigned /\ OnInTime
  BY <1>1, <1>6, RowTypes DEF OneGap, Updating, Assigned, OnInTime
<1>10. OffForCause /\ TimeAddsUp /\ NewLinksWork
  BY <1>1, RowTypes DEF OffForCause, TimeAddsUp, NewLinksWork
<1> QED
  BY <1>2, <1>5, <1>7, <1>8, <1>9, <1>10 DEF IInv

LEMMA NextInv == IInv /\ [Next]_vars => IInv'
<1> SUFFICES ASSUME IInv, [Next]_vars PROVE IInv'
  OBVIOUS
<1>1. ASSUME NEW r \in Reqs, Handle(r) PROVE IInv'
  BY <1>1, ExtendReadStep, UpdateNodesStep, FindStep, ConfigsStep, DisableStep, ExtendWriteStep,
     RepliedStep, RedeliverStep, ClearStep, AssignStep, FindNodesStep, FindAllStep, SelectStep,
     RevokeStep, AbortStep DEF Handle
<1>2. ASSUME NEW u \in Users,
             \/ \E left \in Times, S \in SUBSET Nodes : CreateUser(u, left, S)
             \/ \E left \in Times : UpdateDate(u, left)
             \/ DeleteUser(u) \/ Revoke(u) \/ Regenerate(u) \/ RotateInBulk(u)
             \/ \E on \in BOOLEAN : SetEnabled(u, on)
      PROVE  IInv'
  BY <1>2, CreateUserStep, UpdateDateStep, DeleteUserStep, LinkStep, SetEnabledStep
<1>3. ASSUME NEW n \in Nodes, ToggleNode(n) \/ DeleteNode(n) PROVE IInv'
  BY <1>3, NodeStep
<1> QED
  BY <1>1, <1>2, <1>3, TickStep, StutterStep DEF Next

(* The inductive invariant: types, what handlers go by, how assignments    *)
(* follow what is asked, and the four properties.                          *)
THEOREM Invariance == Spec => []IInv
<1> QED
  BY InitInv, NextInv, PTL DEF Spec

(* D1 keeps users, nodes and assignments consistent (the foreign keys of   *)
(* user_nodes), and handlers carry what their types say.                   *)
THEOREM TypeCorrect == Spec => []TypeOK
<1>1. IInv => TypeOK
  BY DEF IInv
<1> QED
  BY <1>1, Invariance, PTL

(* findNodesForUser and GET /users/:id/configs: a document names no node   *)
(* beyond those asked for, unless none of them is enabled or an update of  *)
(* the nodes is under way, was stopped or met another.                     *)
THEOREM DocumentsKeepToNodes == Spec => []OnlyNodesAskedFor
<1>1. IInv => OnlyNodesAskedFor
  BY DEF IInv
<1> QED
  BY <1>1, Invariance, PTL

(* cronHourly: whoever is wanted on and is in time is on, unless the job   *)
(* had selected the user before that was said.                             *)
THEOREM NobodyOffWithoutCause == Spec => []OffForCause
<1>1. IInv => OffForCause
  BY DEF IInv
<1> QED
  BY <1>1, Invariance, PTL

(* extendUser and updateUser: the time granted adds up, unless changes of  *)
(* the date overlap, one is stopped, or Telegram sends an update again.    *)
THEOREM GrantsAddUp == Spec => []TimeAddsUp
<1>1. IInv => TimeAddsUp
  BY DEF IInv
<1> QED
  BY <1>1, Invariance, PTL

(* Regeneration of a token: the new link works until it is revoked, or a   *)
(* rotation in bulk has replaced the token of a revoked one.               *)
THEOREM RegeneratedLinksWork == Spec => []NewLinksWork
<1>1. IInv => NewLinksWork
  BY DEF IInv
<1> QED
  BY <1>1, Invariance, PTL
=============================================================================
