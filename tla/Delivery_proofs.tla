--------------------------- MODULE Delivery_proofs ---------------------------
(***************************************************************************)
(* Proofs about Health and about Delivery, for any nodes, any number of    *)
(* cycles and edits in flight, and any fleets, rules, templates and        *)
(* columns of the types Delivery assumes.                                  *)
(*                                                                         *)
(* Health: TypeOK, BusyIsTrue and AlertsFollowHealth are inductive         *)
(* together: the last two rest on the parts of TypeOK that say which       *)
(* handlers still have alerts to send, and with which outcomes.            *)
(*                                                                         *)
(* Delivery: its steps are steps of Health, so that invariant is kept.     *)
(* What a document says is a function of the rows; its proofs are about    *)
(* the operators of Selection, Documents and Links.                        *)
(***************************************************************************)
EXTENDS Delivery, FiniteSetTheorems, WellFoundedInduction, TLAPS

IInv == TypeOK /\ BusyIsTrue /\ AlertsFollowHealth

(***************************************************************************)
(* An alert is raised exactly when it keeps the administrators' picture of *)
(* a node in step with its row: "down" when it has become unreachable, any *)
(* other kind when it has not, none only when that has not changed.        *)
(***************************************************************************)
LEMMA AlertMeaning ==
    ASSUME NEW old \in Health, NEW new \in Result
    PROVE  /\ Alert(old, new) = "down" => new = "unreachable"
           /\ Alert(old, new) \notin {"down", "none"} => new # "unreachable"
           /\ Alert(old, new) = "none" => (old = "unreachable" <=> new = "unreachable")
    BY DEF Alert, Health, Result

(* A handler that is done has its type. *)
LEMMA IdleType == Idle \in Request
    BY DEF Idle, Request, Rest, Health, Result

(***************************************************************************)
(* A request record that differs from a well-typed one in its locals.      *)
(***************************************************************************)
LEMMA RequestFields ==
    ASSUME NEW q \in Request
    PROVE  /\ q.targets \subseteq Nodes
           /\ q.todo \subseteq Nodes
           /\ q.read \in [Nodes -> Health]
           /\ q.seen \in [Nodes -> Result \cup {"unknown"}]
    BY DEF Request

(* A handler that goes on to alert has its type, and keeps what it needs for that. *)
LEMMA AlertingType ==
    ASSUME NEW q \in Request, NEW S \in SUBSET Nodes
    PROVE  /\ Alerting(q, S) \in Request
           /\ Alerting(q, S).todo = S
           /\ Alerting(q, S).pc = IF S = {} THEN "idle" ELSE "notify"
           /\ \A n \in S : Alerting(q, S).read[n] = q.read[n] /\ Alerting(q, S).seen[n] = q.seen[n]
<1> DEFINE read == [n \in Nodes |-> IF n \in S THEN q.read[n] ELSE "unknown"]
           seen == [n \in Nodes |-> IF n \in S THEN q.seen[n] ELSE "unknown"]
<1>1. read \in [Nodes -> Health]
    BY RequestFields DEF Health, Result
<1>2. seen \in [Nodes -> Result \cup {"unknown"}]
    BY RequestFields DEF Result
<1>3. CASE S = {}
    BY <1>3, IdleType DEF Alerting, Idle
<1>4. CASE S # {}
  <2>1. Alerting(q, S) = [Idle EXCEPT !.pc = "notify", !.todo = S, !.read = read, !.seen = seen]
      BY <1>4 DEF Alerting
  <2> HIDE DEF read, seen
  <2>2. Alerting(q, S) \in Request
      BY <2>1, <1>1, <1>2 DEF Idle, Request
  <2>3. Alerting(q, S).todo = S /\ Alerting(q, S).pc = "notify"
        /\ Alerting(q, S).read = read /\ Alerting(q, S).seen = seen
      BY <2>1 DEF Idle
  <2> QED  BY <2>2, <2>3, <1>4 DEF read, seen
<1> QED  BY <1>3, <1>4

(***************************************************************************)
(* What the type invariant says of one request.                            *)
(***************************************************************************)
Sound(q) ==
    /\ q \in Request
    /\ q.todo # {} => q.pc = "notify"
    /\ q.pc = "apply" => \A n \in q.targets : q.seen[n] \in Result
    /\ q.pc = "notify" => \A n \in q.todo : Alert(q.read[n], q.seen[n]) # "none"

(* A handler that is done is sound. *)
LEMMA IdleSound == Sound(Idle)
    BY IdleType DEF Sound, Idle

(***************************************************************************)
(* A handler that still has alerts to send, or none, is sound.             *)
(***************************************************************************)
LEMMA AlertingSound ==
    ASSUME NEW q \in Request, NEW S \in SUBSET Nodes,
           \A n \in S : Alert(q.read[n], q.seen[n]) # "none"
    PROVE  Sound(Alerting(q, S))
<1>1. /\ Alerting(q, S) \in Request
      /\ Alerting(q, S).todo = S
      /\ Alerting(q, S).pc = IF S = {} THEN "idle" ELSE "notify"
      /\ \A n \in S : Alerting(q, S).read[n] = q.read[n] /\ Alerting(q, S).seen[n] = q.seen[n]
    BY AlertingType
<1>2. Alerting(q, S).pc = "notify" =>
        \A n \in Alerting(q, S).todo : Alert(Alerting(q, S).read[n], Alerting(q, S).seen[n]) # "none"
    BY <1>1
<1> QED  BY <1>1, <1>2 DEF Sound

(***************************************************************************)
(* A handler that starts, or moves on, with nothing to alert about.        *)
(***************************************************************************)
LEMMA StartSound ==
    ASSUME NEW S \in SUBSET Nodes, NEW f \in [Nodes -> Health],
           NEW pc \in {"edit", "sent"}
    PROVE  Sound([Idle EXCEPT !.pc = pc, !.targets = S, !.read = f])
<1> DEFINE q == [Idle EXCEPT !.pc = pc, !.targets = S, !.read = f]
<1>1. q \in Request /\ q.todo = {} /\ q.pc = pc
    BY IdleType DEF Idle, Request
<1> HIDE DEF q
<1>2. Sound(q)
    BY <1>1 DEF Sound
<1> QED  BY <1>2 DEF q

(* Being accepted by the coordinator, or starting to probe, keeps a handler sound. *)
LEMMA MoveSound ==
    ASSUME NEW q, Sound(q), NEW pc \in {"parse", "probing"}, q.todo = {}
    PROVE  Sound([q EXCEPT !.pc = pc]) /\ [q EXCEPT !.pc = pc].todo = {}
    BY DEF Sound, Request

(* A cycle that gets its outcomes gets one for every target. *)
LEMMA OutcomesSound ==
    ASSUME NEW q, Sound(q), q.todo = {}, NEW outcomes \in [q.targets -> Result]
    PROVE  Sound(Outcomes(q, outcomes)) /\ Outcomes(q, outcomes).todo = {}
<1> DEFINE seen == [n \in Nodes |-> IF n \in q.targets THEN outcomes[n] ELSE "unknown"]
<1>1. seen \in [Nodes -> Result \cup {"unknown"}]
    OBVIOUS
<1>2. \A n \in q.targets : seen[n] \in Result
    BY DEF Sound, Request
<1> HIDE DEF seen
<1>3. Outcomes(q, outcomes) = [q EXCEPT !.pc = "apply", !.seen = seen]
    BY DEF Outcomes, seen
<1>4. /\ Outcomes(q, outcomes) \in Request
      /\ Outcomes(q, outcomes).todo = {}
      /\ Outcomes(q, outcomes).pc = "apply"
      /\ Outcomes(q, outcomes).seen = seen
      /\ Outcomes(q, outcomes).targets = q.targets
    BY <1>1, <1>3 DEF Sound, Request
<1> QED  BY <1>2, <1>4 DEF Sound

(***************************************************************************)
(* The rows and the picture stand still, and no pending alert is dropped   *)
(* unnoticed: AlertsFollowHealth is kept.                                  *)
(***************************************************************************)
LEMMA AlertsKept ==
    ASSUME AlertsFollowHealth, UNCHANGED <<nodes, told>>, raced \subseteq raced',
           \A n \in Nodes : AlertPending(n) => AlertPending(n)' \/ n \in raced'
    PROVE  AlertsFollowHealth'
    BY DEF AlertsFollowHealth, Present

(* TypeOK, with the part about handlers as Sound. *)
LEMMA TypeIff == TypeOK <=> /\ nodes \in [Nodes -> Row]
                            /\ running \in BOOLEAN
                            /\ req \in [Reqs -> Request]
                            /\ told \in [Nodes -> {"up", "down"}]
                            /\ raced \subseteq Nodes
                            /\ \A r \in Reqs : Sound(req[r])
    BY DEF TypeOK, Sound

(***************************************************************************)
(* One request goes from req[r] to a sound q with no alerts, from a state  *)
(* that had none to send either.                                           *)
(***************************************************************************)
LEMMA QuietStep ==
    ASSUME IInv, NEW r \in Reqs, NEW q, Sound(q), q.todo = {}, req[r].todo = {},
           req' = [req EXCEPT ![r] = q], UNCHANGED <<nodes, told, raced>>,
           running' \in BOOLEAN,
           running' => \E s \in Reqs : req'[s].pc = "probing"
    PROVE  IInv'
<1> USE DEF IInv
<1>1. req' \in [Reqs -> Request] /\ \A s \in Reqs : Sound(req'[s])
    BY TypeIff DEF Sound
<1>2. TypeOK'
    BY <1>1, TypeIff DEF TypeOK, Sound
<1>3. BusyIsTrue'
    BY DEF BusyIsTrue, Probing
<1>4. \A n \in Nodes : AlertPending(n) => AlertPending(n)'
    BY TypeIff DEF AlertPending
<1>5. AlertsFollowHealth'
    BY <1>4, AlertsKept
<1> QED  BY <1>2, <1>3, <1>5

(* IInv holds at the start. *)
LEMMA InitIInv == Init => IInv
<1> SUFFICES ASSUME Init PROVE IInv
    OBVIOUS
<1>1. TypeOK
    BY IdleSound, IdleType, TypeIff DEF Init, Row, NoRow, Health, Result
<1>2. BusyIsTrue /\ AlertsFollowHealth
    BY DEF Init, BusyIsTrue, AlertsFollowHealth, Present, NoRow
<1> QED  BY <1>1, <1>2 DEF IInv

(***************************************************************************)
(* Alerts to send exist only in the "notify" stage.                        *)
(***************************************************************************)
LEMMA NothingToSend ==
    ASSUME IInv, NEW r \in Reqs, req[r].pc # "notify"
    PROVE  Sound(req[r]) /\ req[r].todo = {}
    BY TypeIff DEF IInv, Sound

(***************************************************************************)
(* The actions of one request that touch no row and send no alert.         *)
(***************************************************************************)
LEMMA QuietActions ==
    ASSUME IInv, NEW r \in Reqs,
           \/ CheckAll(r) \/ Enter(r) \/ Begin(r) \/ Finish(r)
           \/ \E n \in Nodes : ReadNode(r, n) \/ CheckNode(r, n)
    PROVE  IInv'
<1>0. /\ nodes \in [Nodes -> Row] /\ running \in BOOLEAN /\ req \in [Reqs -> Request]
      /\ BusyIsTrue
    BY TypeIff DEF IInv
<1>1. ASSUME NEW S \in SUBSET Nodes, Select(r, S) PROVE IInv'
  <2> DEFINE f == [n \in Nodes |-> IF n \in S THEN nodes[n].health ELSE "unknown"]
             q == [Idle EXCEPT !.pc = "sent", !.targets = S, !.read = f]
  <2>1. f \in [Nodes -> Health]
      BY <1>0 DEF Row, Health
  <2>2. req' = [req EXCEPT ![r] = q] /\ req[r].pc = "idle" /\ UNCHANGED <<nodes, running, told, raced>>
      BY <1>1 DEF Select
  <2> HIDE DEF f
  <2>3. Sound(q) /\ q.todo = {}
      BY <2>1, StartSound DEF Idle
  <2> HIDE DEF q
  <2>4. running' => \E s \in Reqs : req'[s].pc = "probing"
      BY <2>2, <1>0 DEF BusyIsTrue, Probing
  <2> QED  BY <2>2, <2>3, <2>4, <1>0, NothingToSend, QuietStep
<1>2. CASE CheckAll(r)
    BY <1>1, <1>2 DEF CheckAll
<1>3. CASE \E n \in Nodes : CheckNode(r, n)
    BY <1>1, <1>3 DEF CheckNode
<1>4. ASSUME NEW n \in Nodes, ReadNode(r, n) PROVE IInv'
  <2> DEFINE f == [Rest EXCEPT ![n] = nodes[n].health]
             q == [Idle EXCEPT !.pc = "edit", !.targets = {n}, !.read = f]
  <2>1. f \in [Nodes -> Health]
      BY <1>0 DEF Row, Health, Rest
  <2>2. req' = [req EXCEPT ![r] = q] /\ req[r].pc = "idle" /\ UNCHANGED <<nodes, running, told, raced>>
      BY <1>4 DEF ReadNode
  <2> HIDE DEF f
  <2>3. Sound(q) /\ q.todo = {}
      BY <2>1, StartSound DEF Idle
  <2> HIDE DEF q
  <2>4. running' => \E s \in Reqs : req'[s].pc = "probing"
      BY <2>2, <1>0 DEF BusyIsTrue, Probing
  <2> QED  BY <2>2, <2>3, <2>4, <1>0, NothingToSend, QuietStep
<1>5. CASE Enter(r)
  <2>1. req[r].pc = "sent" /\ Sound(req[r]) /\ req[r].todo = {} /\ UNCHANGED <<nodes, running, told, raced>>
      BY <1>5, NothingToSend DEF Enter
  <2>2. running' => \E s \in Reqs : req'[s].pc = "probing"
      BY <1>5, <2>1, <1>0 DEF Enter, BusyIsTrue, Probing
  <2>3. CASE running
      BY <1>5, <2>1, <2>2, <2>3, <1>0, IdleSound, QuietStep DEF Enter, Idle
  <2>4. CASE ~running
    <3> DEFINE q == [req[r] EXCEPT !.pc = "parse"]
    <3>1. req' = [req EXCEPT ![r] = q]
        BY <1>5, <2>4, <1>0 DEF Enter
    <3>2. Sound(q) /\ q.todo = {}
        BY <2>1, MoveSound
    <3> QED  BY <3>1, <3>2, <2>1, <2>2, <1>0, QuietStep
  <2> QED  BY <2>3, <2>4
<1>6. CASE Begin(r)
  <2> DEFINE q == [req[r] EXCEPT !.pc = "probing"]
  <2>1. req[r].pc = "parse" /\ Sound(req[r]) /\ req[r].todo = {} /\ UNCHANGED <<nodes, told, raced>>
      BY <1>6, NothingToSend DEF Begin
  <2>2. req' = [req EXCEPT ![r] = q] /\ running'
      BY <1>6, <1>0 DEF Begin
  <2>3. Sound(q) /\ q.todo = {} /\ q.pc = "probing"
      BY <2>1, <1>0, MoveSound DEF Request
  <2> HIDE DEF q
  <2>4. \E s \in Reqs : req'[s].pc = "probing"
      BY <2>2, <2>3, <1>0
  <2>5. running' = TRUE
      BY <1>6 DEF Begin
  <2> QED  BY <2>1, <2>2, <2>3, <2>4, <2>5, QuietStep
<1>7. CASE Finish(r)
  <2>1. req[r].pc = "probing" /\ Sound(req[r]) /\ req[r].todo = {} /\ UNCHANGED <<nodes, told, raced>>
        /\ running' = FALSE
      BY <1>7, NothingToSend DEF Finish, Probing
  <2>2. CASE req' = [req EXCEPT ![r] = Idle]
      BY <2>1, <2>2, IdleSound, QuietStep DEF Idle
  <2>3. ASSUME NEW outcomes \in [req[r].targets -> Result],
               req' = [req EXCEPT ![r] = Outcomes(req[r], outcomes)]
        PROVE  IInv'
      BY <2>1, <2>3, OutcomesSound, QuietStep
  <2> QED  BY <1>7, <1>0, <2>2, <2>3 DEF Finish
<1> QED  BY <1>2, <1>3, <1>4, <1>5, <1>6, <1>7

(***************************************************************************)
(* TypeOK' from its parts.                                                 *)
(***************************************************************************)
LEMMA TypeStep ==
    ASSUME nodes' \in [Nodes -> Row], running' \in BOOLEAN, req' \in [Reqs -> Request],
           told' \in [Nodes -> {"up", "down"}], raced' \subseteq Nodes,
           \A r \in Reqs : Sound(req'[r])
    PROVE  TypeOK'
    BY DEF TypeOK, Sound

(***************************************************************************)
(* Creation and deletion of a node.                                        *)
(***************************************************************************)
LEMMA NodeActions ==
    ASSUME IInv, NEW n \in Nodes,
           DeleteNode(n) \/ \E enabled \in BOOLEAN : CreateNode(n, enabled)
    PROVE  IInv'
<1>0. /\ nodes \in [Nodes -> Row] /\ running \in BOOLEAN /\ req \in [Reqs -> Request]
      /\ told \in [Nodes -> {"up", "down"}] /\ raced \subseteq Nodes
      /\ (\A r \in Reqs : Sound(req[r])) /\ BusyIsTrue /\ AlertsFollowHealth
    BY TypeIff DEF IInv
<1>1. ASSUME NEW enabled \in BOOLEAN, CreateNode(n, enabled) PROVE IInv'
  <2>1. /\ nodes' \in [Nodes -> Row]
        /\ told' \in [Nodes -> {"up", "down"}]
        /\ UNCHANGED <<running, req, raced>>
      BY <1>0, <1>1 DEF CreateNode, Row, Health
  <2>2. TypeOK' /\ BusyIsTrue'
      BY <1>0, <2>1, TypeStep DEF BusyIsTrue, Probing
  <2>3. AlertsFollowHealth'
      BY <1>0, <1>1, <2>1 DEF CreateNode, AlertsFollowHealth, Present, AlertPending
  <2> QED  BY <2>2, <2>3 DEF IInv
<1>2. CASE DeleteNode(n)
  <2>1. /\ nodes' \in [Nodes -> Row]
        /\ told' \in [Nodes -> {"up", "down"}] /\ raced' \subseteq Nodes
        /\ UNCHANGED <<running, req>>
      BY <1>0, <1>2 DEF DeleteNode, Row, NoRow, Health
  <2>2. TypeOK' /\ BusyIsTrue'
      BY <1>0, <2>1, TypeStep DEF BusyIsTrue, Probing
  <2>3. AlertsFollowHealth'
      BY <1>0, <1>2, <2>1 DEF DeleteNode, AlertsFollowHealth, Present, AlertPending, NoRow
  <2> QED  BY <2>2, <2>3 DEF IInv
<1> QED  BY <1>1, <1>2

(***************************************************************************)
(* The closing UPDATE of an edit.                                          *)
(***************************************************************************)
LEMMA EditAction ==
    ASSUME IInv, NEW r \in Reqs, NEW n \in Nodes, NEW enabled \in BOOLEAN,
           WriteNode(r, n, enabled)
    PROVE  IInv'
<1>0. /\ nodes \in [Nodes -> Row] /\ running \in BOOLEAN /\ req \in [Reqs -> Request]
      /\ told \in [Nodes -> {"up", "down"}] /\ raced \subseteq Nodes
      /\ (\A s \in Reqs : Sound(req[s])) /\ BusyIsTrue /\ AlertsFollowHealth
    BY TypeIff DEF IInv
<1>1. /\ req[r].pc = "edit" /\ req[r].todo = {} /\ req' = [req EXCEPT ![r] = Idle]
      /\ running' = running
    BY <1>0, NothingToSend DEF WriteNode
<1>2. req[r].read[n] \in Health
    BY <1>0 DEF Request
<1>3. nodes' \in [Nodes -> Row]
    BY <1>0, <1>2 DEF WriteNode, Row, Health
<1>4. told' \in [Nodes -> {"up", "down"}] /\ raced' \subseteq Nodes
    BY <1>0 DEF WriteNode
<1>5. req' \in [Reqs -> Request] /\ \A s \in Reqs : Sound(req'[s])
    BY <1>0, <1>1, IdleSound, IdleType
<1>6. TypeOK'
    BY <1>0, <1>1, <1>3, <1>4, <1>5, TypeStep
<1>7. BusyIsTrue'
    BY <1>0, <1>1 DEF BusyIsTrue, Probing
<1>8. \A m \in Nodes : AlertPending(m) => AlertPending(m)'
    BY <1>0, <1>1 DEF AlertPending
<1>9. AlertsFollowHealth'
  <2>1. CASE ~Present(n)
      BY <1>0, <1>8, <2>1, AlertsKept DEF WriteNode
  <2>2. CASE Present(n) /\ enabled
      BY <1>0, <1>8, <2>2 DEF WriteNode, AlertsFollowHealth, Present, Row
  <2>3. CASE Present(n) /\ ~enabled
      BY <1>0, <1>8, <2>3 DEF WriteNode, AlertsFollowHealth, Present, Row
  <2> QED  BY <2>1, <2>2, <2>3
<1> QED  BY <1>6, <1>7, <1>9 DEF IInv

(***************************************************************************)
(* The batch of a cycle.                                                   *)
(***************************************************************************)
LEMMA ApplyAction ==
    ASSUME IInv, NEW r \in Reqs, Apply(r)
    PROVE  IInv'
<1> DEFINE q == req[r]
<1>0. /\ nodes \in [Nodes -> Row] /\ running \in BOOLEAN /\ req \in [Reqs -> Request]
      /\ told \in [Nodes -> {"up", "down"}] /\ raced \subseteq Nodes
      /\ (\A s \in Reqs : Sound(req[s])) /\ BusyIsTrue /\ AlertsFollowHealth
    BY TypeIff DEF IInv
<1>1. q \in Request /\ q.pc = "apply" /\ q.todo = {} /\ UNCHANGED <<running, told>>
    BY <1>0, NothingToSend DEF Apply
<1>2. /\ q.targets \subseteq Nodes
      /\ \A n \in q.targets : q.seen[n] \in Result
      /\ \A n \in Nodes : q.read[n] \in Health
    BY <1>0, <1>1, RequestFields DEF Sound
<1>3. CASE ~\A n \in q.targets : Present(n)
  <2>1. req' = [req EXCEPT ![r] = Idle] /\ UNCHANGED <<nodes, raced>>
      BY <1>3 DEF Apply
  <2>2. running' => \E s \in Reqs : req'[s].pc = "probing"
      BY <1>0, <1>1, <2>1 DEF BusyIsTrue, Probing
  <2> QED  BY <1>0, <1>1, <2>1, <2>2, IdleSound, QuietStep DEF Idle
<1>4. CASE \A n \in q.targets : Present(n)
  <2> DEFINE S == Alerts(q)
             p == Alerting(q, S)
  <2>1. S \subseteq Nodes /\ S \subseteq q.targets
        /\ \A n \in S : Alert(q.read[n], q.seen[n]) # "none"
      BY <1>2 DEF Alerts
  <2>2. Sound(p) /\ p.todo = S /\ p.pc \in {"idle", "notify"}
      BY <1>1, <2>1, AlertingSound, AlertingType
  <2>3. /\ req' = [req EXCEPT ![r] = p]
        /\ nodes' = [n \in Nodes |->
                       IF n \in q.targets THEN [nodes[n] EXCEPT !.health = q.seen[n]] ELSE nodes[n]]
        /\ raced' = raced \cup {n \in q.targets : nodes[n].health # q.read[n]}
      BY <1>4 DEF Apply
  <2>4. nodes' \in [Nodes -> Row] /\ raced' \subseteq Nodes
      BY <1>0, <1>2, <2>3 DEF Row, Health
  <2> HIDE DEF p, S
  <2>5. req' \in [Reqs -> Request] /\ \A s \in Reqs : Sound(req'[s])
      BY <1>0, <2>2, <2>3 DEF Sound
  <2>6. TypeOK'
      BY <1>0, <1>1, <2>4, <2>5, TypeStep
  <2>7. BusyIsTrue'
      BY <1>0, <1>1, <2>2, <2>3 DEF BusyIsTrue, Probing
  <2>8. \A n \in Nodes : AlertPending(n) \/ n \in S => AlertPending(n)'
      BY <1>0, <1>1, <2>2, <2>3 DEF AlertPending
  <2>9. ASSUME NEW n \in Nodes, Present(n)', n \notin raced', ~AlertPending(n)'
        PROVE  nodes'[n].health = "unreachable" <=> told'[n] = "down"
    <3>1. n \notin raced /\ ~AlertPending(n) /\ n \notin S
        BY <2>3, <2>8, <2>9
    <3>2. CASE n \in q.targets
      <4>1. nodes[n].health = q.read[n]
          BY <2>3, <2>9, <3>2
      <4>2. Alert(q.read[n], q.seen[n]) = "none"
          BY <3>1, <3>2 DEF S, Alerts
      <4>3. q.read[n] = "unreachable" <=> q.seen[n] = "unreachable"
          BY <1>2, <3>2, <4>2, AlertMeaning
      <4>4. Present(n) /\ nodes'[n].health = q.seen[n]
          BY <1>0, <1>4, <2>3, <3>2 DEF Row
      <4> QED  BY <1>0, <1>1, <3>1, <4>1, <4>3, <4>4 DEF AlertsFollowHealth
    <3>3. CASE n \notin q.targets
        BY <1>0, <1>1, <2>3, <2>9, <3>1, <3>3 DEF AlertsFollowHealth, Present
    <3> QED  BY <3>2, <3>3
  <2>10. AlertsFollowHealth'
      BY <2>9 DEF AlertsFollowHealth
  <2> QED  BY <2>6, <2>7, <2>10 DEF IInv
<1> QED  BY <1>3, <1>4

(***************************************************************************)
(* One alert.                                                              *)
(***************************************************************************)
LEMMA NotifyAction ==
    ASSUME IInv, NEW r \in Reqs, NEW n \in Nodes, Notify(r, n)
    PROVE  IInv'
<1> DEFINE q == req[r]
           p == Alerting(q, q.todo \ {n})
<1>0. /\ nodes \in [Nodes -> Row] /\ running \in BOOLEAN /\ req \in [Reqs -> Request]
      /\ told \in [Nodes -> {"up", "down"}] /\ raced \subseteq Nodes
      /\ (\A s \in Reqs : Sound(req[s])) /\ BusyIsTrue /\ AlertsFollowHealth
    BY TypeIff DEF IInv
<1>1. /\ q \in Request /\ q.pc = "notify" /\ n \in q.todo /\ q.todo \subseteq Nodes
      /\ UNCHANGED <<nodes, running>> /\ req' = [req EXCEPT ![r] = p]
    BY <1>0, RequestFields DEF Notify
<1>2. \A m \in q.todo : Alert(q.read[m], q.seen[m]) # "none"
    BY <1>0, <1>1 DEF Sound
<1>3. Sound(p) /\ p.todo = q.todo \ {n} /\ p.pc # "probing"
    BY <1>1, <1>2, AlertingSound, AlertingType
<1> HIDE DEF p
<1>4. req' \in [Reqs -> Request] /\ \A s \in Reqs : Sound(req'[s])
    BY <1>0, <1>1, <1>3 DEF Sound
<1>5. told' \in [Nodes -> {"up", "down"}] /\ raced' \subseteq Nodes
    BY <1>0 DEF Notify
<1>6. TypeOK'
    BY <1>0, <1>1, <1>4, <1>5, TypeStep
<1>7. BusyIsTrue'
    BY <1>0, <1>1, <1>3 DEF BusyIsTrue, Probing
<1>8. \A m \in Nodes : AlertPending(m) /\ m # n => AlertPending(m)'
    BY <1>0, <1>1, <1>3 DEF AlertPending
<1>9. \A m \in Nodes : m # n => told'[m] = told[m]
    BY <1>0 DEF Notify
<1>10. n \notin raced' => (q.seen[n] = "unreachable" <=> told'[n] = "down") /\ nodes[n].health = q.seen[n]
  <2>1. q.read[n] \in Health /\ q.seen[n] \in Result \cup {"unknown"}
      BY <1>1, RequestFields
  <2>2. ASSUME n \notin raced'
        PROVE  /\ told' = [told EXCEPT ![n] = IF Alert(q.read[n], q.seen[n]) = "down" THEN "down" ELSE "up"]
               /\ nodes[n].health = q.seen[n]
      BY <2>2 DEF Notify
  <2>3. Alert(q.read[n], q.seen[n]) = "down" <=> q.seen[n] = "unreachable"
      BY <1>1, <1>2, <2>1 DEF Alert, Health, Result
  <2> QED  BY <1>0, <2>2, <2>3
<1>11. AlertsFollowHealth'
  <2> SUFFICES ASSUME NEW m \in Nodes, Present(m)', m \notin raced', ~AlertPending(m)'
               PROVE  nodes'[m].health = "unreachable" <=> told'[m] = "down"
      BY DEF AlertsFollowHealth
  <2>1. CASE m = n
      BY <1>1, <1>10, <2>1
  <2>2. CASE m # n
    <3>1. m \notin raced
        BY DEF Notify
    <3> QED  BY <1>0, <1>1, <1>8, <1>9, <2>2, <3>1 DEF AlertsFollowHealth, Present
  <2> QED  BY <2>1, <2>2
<1> QED  BY <1>6, <1>7, <1>11 DEF IInv

(***************************************************************************)
(* Cancelled handlers, and a restarted coordinator.                        *)
(***************************************************************************)
LEMMA AbortAction ==
    ASSUME IInv, NEW r \in Reqs, Abort(r)
    PROVE  IInv'
<1>0. /\ nodes \in [Nodes -> Row] /\ running \in BOOLEAN /\ req \in [Reqs -> Request]
      /\ told \in [Nodes -> {"up", "down"}] /\ raced \subseteq Nodes
      /\ (\A s \in Reqs : Sound(req[s])) /\ BusyIsTrue /\ AlertsFollowHealth
    BY TypeIff DEF IInv
<1>1. /\ req[r].pc # "probing" /\ req' = [req EXCEPT ![r] = Idle]
      /\ raced' = raced \cup req[r].todo /\ UNCHANGED <<nodes, running, told>>
    BY DEF Abort
<1>2. TypeOK'
    BY <1>0, <1>1, IdleSound, IdleType, TypeStep DEF Request
<1>3. BusyIsTrue'
    BY <1>0, <1>1 DEF BusyIsTrue, Probing
<1>4. \A n \in Nodes : AlertPending(n) => AlertPending(n)' \/ n \in raced'
    BY <1>0, <1>1 DEF AlertPending
<1>5. AlertsFollowHealth'
    BY <1>0, <1>1, <1>4, AlertsKept
<1> QED  BY <1>2, <1>3, <1>5 DEF IInv

(* A restart of the coordinator keeps IInv: the flag goes with the runs. *)
LEMMA RestartAction ==
    ASSUME IInv, Restart
    PROVE  IInv'
<1>0. /\ nodes \in [Nodes -> Row] /\ running \in BOOLEAN /\ req \in [Reqs -> Request]
      /\ told \in [Nodes -> {"up", "down"}] /\ raced \subseteq Nodes
      /\ (\A s \in Reqs : Sound(req[s])) /\ BusyIsTrue /\ AlertsFollowHealth
    BY TypeIff DEF IInv
<1>1. running' = FALSE /\ UNCHANGED <<nodes, told, raced>>
      /\ req' = [r \in Reqs |-> IF req[r].pc \in {"parse", "probing"} THEN Idle ELSE req[r]]
    BY DEF Restart
<1>2. TypeOK'
    BY <1>0, <1>1, IdleSound, IdleType, TypeStep
<1>3. \A n \in Nodes : AlertPending(n) => AlertPending(n)'
    BY <1>0, <1>1, NothingToSend DEF AlertPending
<1>4. AlertsFollowHealth'
    BY <1>0, <1>1, <1>3, AlertsKept
<1>5. BusyIsTrue'
    BY <1>1 DEF BusyIsTrue
<1> QED  BY <1>2, <1>4, <1>5 DEF IInv

(* IInv is inductive. *)
LEMMA StepIInv == IInv /\ [Next]_vars => IInv'
<1> SUFFICES ASSUME IInv, [Next]_vars PROVE IInv'
    OBVIOUS
<1>1. CASE UNCHANGED vars
    BY <1>1 DEF vars, IInv, TypeOK, BusyIsTrue, AlertsFollowHealth, Probing, Present, AlertPending
<1>2. CASE Restart
    BY <1>2, RestartAction
<1>3. CASE \E n \in Nodes : DeleteNode(n) \/ \E enabled \in BOOLEAN : CreateNode(n, enabled)
    BY <1>3, NodeActions
<1>4. ASSUME NEW r \in Reqs,
             \/ CheckAll(r) \/ Enter(r) \/ Begin(r) \/ Finish(r) \/ Apply(r) \/ Abort(r)
             \/ \E n \in Nodes : ReadNode(r, n) \/ CheckNode(r, n) \/ Notify(r, n)
             \/ \E n \in Nodes, enabled \in BOOLEAN : WriteNode(r, n, enabled)
      PROVE  IInv'
    BY <1>4, QuietActions, ApplyAction, AbortAction, NotifyAction, EditAction
<1> QED  BY <1>1, <1>2, <1>3, <1>4 DEF Next

(***************************************************************************)
(* The inductive invariant.                                                *)
(***************************************************************************)
THEOREM Invariance == Spec => []IInv
    BY InitIInv, StepIInv, PTL DEF Spec

(***************************************************************************)
(* Type correctness: outcomes are complete when they are applied, and      *)
(* alerts are sent about changes only.                                     *)
(***************************************************************************)
THEOREM TypeCorrect == Spec => []TypeOK
<1>1. IInv => TypeOK
    BY DEF IInv
<1> QED  BY <1>1, Invariance, PTL

(***************************************************************************)
(* While the coordinator refuses cycles, one is running, whichever of the  *)
(* overlapping runs finishes first (health-coordinator.ts fetch).          *)
(***************************************************************************)
THEOREM FlagIsTrue == Spec => []BusyIsTrue
<1>1. IInv => BusyIsTrue
    BY DEF IInv
<1> QED  BY <1>1, Invariance, PTL

(***************************************************************************)
(* The alerts a node's administrators have had and its row agree, but for  *)
(* lost updates and lost or late alerts (health.service.ts applyOutcomes). *)
(***************************************************************************)
THEOREM AlertsAgree == Spec => []AlertsFollowHealth
<1>1. IInv => AlertsFollowHealth
    BY DEF IInv
<1> QED  BY <1>1, Invariance, PTL

-----------------------------------------------------------------------------
(***************************************************************************)
(* Delivery, from here on: its steps are steps of Health.                  *)
(***************************************************************************)
LEMMA StepOfHealth == [DNext]_dvars => [Next]_vars
<1>1. ASSUME DNext PROVE Next
  <2>1. ASSUME NEW r \in Reqs, Probed(r) \/ FinishRun(r) \/ \E n \in Nodes : SwitchOff(r, n)
        PROVE  Next
    <3>1. FALSE \in BOOLEAN
        OBVIOUS
    <3> QED  BY <2>1, <3>1 DEF Probed, FinishRun, SwitchOff, Next
  <2>2. ASSUME Elsewhere PROVE Next
      BY <2>2 DEF Elsewhere, Next
  <2> QED  BY <1>1, <2>1, <2>2 DEF DNext
<1>2. UNCHANGED dvars => UNCHANGED vars
    BY DEF dvars, vars
<1> QED  BY <1>1, <1>2

(***************************************************************************)
(* Whatever the composition does to nodes, cycles and alerts, Health does. *)
(***************************************************************************)
THEOREM DeliveryIsHealth == DSpec => Spec
<1>1. DInit => Init
    BY DEF DInit
<1> QED  BY <1>1, StepOfHealth, PTL DEF DSpec, Spec

(***************************************************************************)
(* A node whose row says that it is switched off has been switched off and *)
(* not probed since, unless updateNode put an old health back.             *)
(***************************************************************************)
OffIsParked == \A n \in Nodes : Present(n) /\ nodes[n].health = "disabled" /\ n \notin raced => n \in parked

DInv == IInv /\ OffIsParked

(* OffIsParked where rows and history stay as they are. *)
LEMMA OffKept ==
    ASSUME OffIsParked, UNCHANGED <<nodes, parked>>, raced \subseteq raced'
    PROVE  OffIsParked'
    BY DEF OffIsParked, Present

(* OffIsParked is kept by every step, IInv giving the types. *)
LEMMA StepOff ==
    ASSUME DInv, [DNext]_dvars
    PROVE  OffIsParked'
<1>0. /\ nodes \in [Nodes -> Row] /\ req \in [Reqs -> Request]
      /\ (\A r \in Reqs : Sound(req[r])) /\ OffIsParked
    BY TypeIff DEF DInv, IInv
<1>1. CASE UNCHANGED dvars
    BY <1>0, <1>1, OffKept DEF dvars
<1>2. ASSUME NEW r \in Reqs, Probed(r) PROVE OffIsParked'
  <2>1. CASE \A n \in req[r].targets : Present(n)
    <3>1. \A n \in req[r].targets : req[r].seen[n] \in Result
        BY <1>0, <1>2 DEF Sound, Probed, Apply
    <3>2. /\ nodes' = [n \in Nodes |-> IF n \in req[r].targets
                                       THEN [nodes[n] EXCEPT !.health = req[r].seen[n]] ELSE nodes[n]]
          /\ raced \subseteq raced'
        BY <1>2, <2>1 DEF Probed, Apply
    <3>3. parked' = parked \ req[r].targets
        BY <1>2, <2>1 DEF Probed
    <3>4. ASSUME NEW n \in Nodes, Present(n)', nodes'[n].health = "disabled", n \notin raced'
          PROVE  n \in parked'
      <4>1. n \notin req[r].targets
          BY <1>0, <3>1, <3>2, <3>4 DEF Row, Result
      <4> QED  BY <1>0, <3>2, <3>3, <3>4, <4>1 DEF OffIsParked, Present
    <3> QED  BY <3>4 DEF OffIsParked
  <2>2. CASE ~\A n \in req[r].targets : Present(n)
      BY <1>0, <1>2, <2>2, OffKept DEF Probed, Apply
  <2> QED  BY <2>1, <2>2
<1>3. ASSUME NEW r \in Reqs, FinishRun(r) PROVE OffIsParked'
    BY <1>0, <1>3, OffKept DEF FinishRun, Finish
<1>4. ASSUME NEW r \in Reqs, NEW m \in Nodes, SwitchOff(r, m) PROVE OffIsParked'
    BY <1>0, <1>4 DEF SwitchOff, WriteNode, OffIsParked, Present, Row
<1>5. ASSUME NEW m \in Nodes, DeleteNode(m), UNCHANGED parked PROVE OffIsParked'
    BY <1>0, <1>5 DEF DeleteNode, NoRow, OffIsParked, Present
<1>6. ASSUME NEW m \in Nodes, NEW enabled \in BOOLEAN, CreateNode(m, enabled), UNCHANGED parked
      PROVE  OffIsParked'
    BY <1>0, <1>6 DEF CreateNode, OffIsParked, Present
<1>7. ASSUME NEW r \in Reqs, NEW m \in Nodes, WriteNode(r, m, TRUE), UNCHANGED parked
      PROVE  OffIsParked'
    BY <1>0, <1>7 DEF WriteNode, OffIsParked, Present, Row
<1>8. ASSUME Restart, UNCHANGED parked PROVE OffIsParked'
    BY <1>0, <1>8, OffKept DEF Restart
<1>9. ASSUME NEW r \in Reqs, UNCHANGED parked,
             \/ CheckAll(r) \/ Enter(r) \/ Begin(r) \/ Abort(r)
             \/ \E n \in Nodes : ReadNode(r, n) \/ CheckNode(r, n) \/ Notify(r, n)
      PROVE  OffIsParked'
    BY <1>0, <1>9, OffKept DEF CheckAll, CheckNode, Select, Enter, Begin, Abort, ReadNode, Notify
<1> QED  BY <1>1, <1>2, <1>3, <1>4, <1>5, <1>6, <1>7, <1>8, <1>9 DEF DNext, Elsewhere

(* The invariant of the composition. *)
THEOREM DeliveryInvariance == DSpec => []DInv
<1>1. DInit => DInv
    BY InitIInv DEF DInit, Init, DInv, OffIsParked, Present, NoRow
<1>2. DInv /\ [DNext]_dvars => DInv'
    BY StepIInv, StepOfHealth, StepOff DEF DInv
<1> QED  BY <1>1, <1>2, PTL DEF DSpec

-----------------------------------------------------------------------------
(***************************************************************************)
(* s has the elements of S, each of them once.                             *)
(***************************************************************************)
Lists(s, S) ==
    /\ s \in Seq(S)
    /\ \A i, j \in 1 .. Len(s) : i # j => s[i] # s[j]
    /\ \A x \in S : \E i \in 1 .. Len(s) : s[i] = x

(***************************************************************************)
(* SetToSeqs, which picks the sequences by their length, finds lists.      *)
(***************************************************************************)
LEMMA SetToSeqsLists ==
    ASSUME NEW S, IsFiniteSet(S), NEW s \in SetToSeqs(S)
    PROVE  Lists(s, S) /\ Len(s) = Cardinality(S)
<1> DEFINE n == Cardinality(S)
           D == 1 .. n
<1>1. n \in Nat
    BY FS_CardinalityType
<1>2. s \in [D -> S] /\ \A i, j \in D : i # j => s[i] # s[j]
    BY DEF SetToSeqs
<1>3. IsFiniteSet(D) /\ Cardinality(D) = n
    BY <1>1, FS_Interval
<1> HIDE DEF n
<1>4. s \in Seq(S) /\ Len(s) = n
    BY <1>1, <1>2
<1>5. s \in Injection(D, S)
    BY <1>2 DEF Injection, IsInjective
<1>6. s \in Surjection(D, S)
    BY <1>3, <1>5, FS_Injection DEF n
<1>7. \A x \in S : \E i \in D : s[i] = x
    BY <1>6 DEF Surjection
<1> QED  BY <1>2, <1>4, <1>7 DEF Lists, n

(***************************************************************************)
(* rankCandidates lists the usable candidates, none before a better one.   *)
(***************************************************************************)
LEMMA RankingLists ==
    ASSUME NEW S, IsFiniteSet(S), NEW strategy, NEW s \in Rankings(S, strategy)
    PROVE  /\ Lists(s, {c \in S : Usable(c)})
           /\ \A i, j \in 1 .. Len(s) : i < j => ~Before(s[j], s[i], strategy)
<1>1. s \in SetToSeqs({c \in S : Usable(c)})
    BY DEF Rankings, Sorted
<1>2. IsFiniteSet({c \in S : Usable(c)})
    BY FS_Subset
<1>3. \A i, j \in 1 .. Len(s) : i < j => ~Before(s[j], s[i], strategy)
    BY DEF Rankings, Sorted
<1> QED  BY <1>1, <1>2, <1>3, SetToSeqsLists

-----------------------------------------------------------------------------
(***************************************************************************)
(* The table nodes as Rows makes it: typed, finite, with a primary key; it *)
(* has the columns of Health, and every node that is present.              *)
(***************************************************************************)
LEMMA RowsOfFleet ==
    ASSUME nodes \in [Nodes -> Row], NEW fleet \in Fleets
    PROVE  /\ IsFiniteSet(Rows(fleet))
           /\ Rows(fleet) \subseteq NodeColumns
           /\ \A a, b \in Rows(fleet) : a.id = b.id => a = b
           /\ \A row \in Rows(fleet) : row.id \in Nodes =>
                 row.enabled = nodes[row.id].enabled /\ row.health = nodes[row.id].health
           /\ \A n \in Nodes : Present(n) => \E row \in Rows(fleet) : row.id = n
<1> DEFINE X == {x \in fleet : x.id \in Nodes => Present(x.id)}
           f == [row \in X |->
                   IF row.id \notin Nodes THEN row
                   ELSE [row EXCEPT !.enabled = nodes[row.id].enabled, !.health = nodes[row.id].health]]
<1>1. /\ IsFiniteSet(fleet) /\ fleet \subseteq NodeColumns
      /\ \A a, b \in fleet : a.id = b.id => a = b
      /\ Nodes \subseteq {row.id : row \in fleet}
    BY FleetsAssumption
<1>2. IsFiniteSet(X)
    BY <1>1, FS_Subset
<1>3. Rows(fleet) = {f[x] : x \in X}
    BY DEF Rows
<1>4. ASSUME NEW x \in X
      PROVE  /\ f[x] \in NodeColumns /\ f[x].id = x.id
             /\ x.id \in Nodes =>
                   f[x].enabled = nodes[x.id].enabled /\ f[x].health = nodes[x.id].health
  <2>1. x \in NodeColumns
      BY <1>1
  <2>2. CASE x.id \notin Nodes
      BY <2>1, <2>2
  <2>3. CASE x.id \in Nodes
    <3>1. nodes[x.id].enabled \in BOOLEAN /\ nodes[x.id].health \in Health
        BY <2>3 DEF Row
    <3>2. f[x] = [x EXCEPT !.enabled = nodes[x.id].enabled, !.health = nodes[x.id].health]
        BY <2>3
    <3> QED  BY <2>1, <3>1, <3>2 DEF NodeColumns
  <2> QED  BY <2>2, <2>3
<1> HIDE DEF f
<1>5. f \in Surjection(X, Rows(fleet))
  <2>1. f \in [X -> Rows(fleet)]
      BY <1>3 DEF f
  <2> QED  BY <1>3, <2>1 DEF Surjection
<1>6. IsFiniteSet(Rows(fleet))
    BY <1>2, <1>5, FS_Surjection
<1>7. \A n \in Nodes : Present(n) => \E row \in Rows(fleet) : row.id = n
    BY <1>1, <1>3, <1>4
<1> QED  BY <1>1, <1>3, <1>4, <1>6, <1>7

(* Entries and the rows they come from. *)
LEMMA EntriesOf ==
    ASSUME NEW S, NEW ranking \in Seq(S), NEW template, NEW d, d = Entries(ranking, template)
    PROVE  /\ Len(d) = Len(ranking)
           /\ DOMAIN d = 1 .. Len(ranking)
           /\ \A i \in 1 .. Len(ranking) :
                 /\ d[i].id = ranking[i].id
                 /\ d[i].name = DisplayName(template, ranking[i], i)
                 /\ d[i].clash = HasClash(ranking[i])
<1> DEFINE n == Len(ranking)
<1>1. n \in Nat
    OBVIOUS
<1>2. d = [i \in 1 .. n |->
             [id |-> ranking[i].id, name |-> DisplayName(template, ranking[i], i),
              clash |-> HasClash(ranking[i])]]
    BY DEF Entries
<1> HIDE DEF n
<1>3. DOMAIN d = 1 .. n /\ Len(d) = n
    BY <1>1, <1>2
<1>4. \A i \in 1 .. n :
         /\ d[i].id = ranking[i].id
         /\ d[i].name = DisplayName(template, ranking[i], i)
         /\ d[i].clash = HasClash(ranking[i])
    BY <1>2
<1> QED  BY <1>3, <1>4 DEF n

(***************************************************************************)
(* In a state of DInv a node of the kind ServedAsTold speaks of is in a    *)
(* usable state exactly when the administrators believe that it is up.     *)
(***************************************************************************)
LEMMA UsableAsTold ==
    ASSUME DInv, NEW n \in Nodes, Present(n), nodes[n].enabled,
           n \notin raced \cup parked, ~AlertPending(n)
    PROVE  nodes[n].health \notin {"unreachable", "disabled"} <=> told[n] = "up"
<1>1. told[n] \in {"up", "down"}
    BY TypeIff DEF DInv, IInv
<1>2. nodes[n].health = "unreachable" <=> told[n] = "down"
    BY DEF DInv, IInv, AlertsFollowHealth
<1>3. nodes[n].health # "disabled"
    BY DEF DInv, OffIsParked
<1> QED  BY <1>1, <1>2, <1>3

(* ServedAsTold is a consequence of the invariant. *)
LEMMA ServedOfInv == DInv => ServedAsTold
<1> SUFFICES ASSUME DInv, NEW n \in Nodes, Present(n), nodes[n].enabled,
                    n \notin raced \cup parked, ~AlertPending(n),
                    NEW fleet \in Fleets, NEW assigned \in {{}, {n}}, NEW strategy \in Strategies,
                    NEW d \in Base64Documents(Rows(fleet), assigned, strategy, Plain)
             PROVE  (\E i \in 1 .. Len(d) : d[i].id = n) <=> told[n] = "up"
    BY DEF ServedAsTold
<1> DEFINE served == ServedRows(Rows(fleet), assigned)
<1>1. nodes \in [Nodes -> Row]
    BY TypeIff DEF DInv, IInv
<1>2. /\ IsFiniteSet(Rows(fleet))
      /\ \A row \in Rows(fleet) : row.id = n =>
            row.enabled = nodes[n].enabled /\ row.health = nodes[n].health
      /\ \E row \in Rows(fleet) : row.id = n
  <2>1. IsFiniteSet(Rows(fleet))
      BY <1>1, RowsOfFleet
  <2>2. \E row \in Rows(fleet) : row.id = n
      BY <1>1, RowsOfFleet
  <2>3. \A row \in Rows(fleet) : row.id \in Nodes =>
            row.enabled = nodes[row.id].enabled /\ row.health = nodes[row.id].health
      BY <1>1, RowsOfFleet
  <2> QED  BY <2>1, <2>2, <2>3
<1>3. /\ served \subseteq Rows(fleet)
      /\ \A row \in Rows(fleet) : row.id = n => row \in served
  <2> DEFINE enabled == {row \in Rows(fleet) : row.enabled}
             own == {row \in enabled : row.id \in assigned}
  <2>1. served = IF own # {} THEN own ELSE enabled
      BY DEF ServedRows
  <2>2. CASE assigned = {}
      BY <1>2, <2>1, <2>2
  <2>3. CASE assigned = {n}
      BY <1>2, <2>1, <2>3
  <2> QED  BY <2>2, <2>3
<1>4. IsFiniteSet(served)
    BY <1>2, <1>3, FS_Subset
<1> HIDE DEF served
<1>5. PICK ranking \in Rankings(served, strategy) : d = Entries(ranking, Plain)
    BY DEF Base64Documents, served
<1>6. Lists(ranking, {c \in served : Usable(c)})
    BY <1>4, RankingLists
<1>7. /\ Len(d) = Len(ranking)
      /\ \A i \in 1 .. Len(d) : d[i].id = ranking[i].id
  <2>1. ranking \in Seq({c \in served : Usable(c)})
      BY <1>6 DEF Lists
  <2> QED  BY <1>5, <2>1, EntriesOf
<1>8. /\ \A i \in 1 .. Len(ranking) : ranking[i] \in served /\ Usable(ranking[i])
      /\ \A c \in served : Usable(c) => \E i \in 1 .. Len(ranking) : ranking[i] = c
    BY <1>6 DEF Lists
<1>9. \A row \in served : row.id = n => (Usable(row) <=> told[n] = "up")
    BY <1>2, <1>3, UsableAsTold DEF Usable
<1>10. ASSUME NEW i \in 1 .. Len(d), d[i].id = n PROVE told[n] = "up"
    BY <1>7, <1>8, <1>9, <1>10
<1>11. ASSUME told[n] = "up" PROVE \E i \in 1 .. Len(d) : d[i].id = n
    BY <1>2, <1>3, <1>7, <1>8, <1>9, <1>11
<1> QED  BY <1>10, <1>11

(***************************************************************************)
(* A subscriber gets an enabled node exactly when the administrators were  *)
(* last told that it is up, whichever nodes are assigned and however they  *)
(* are sorted, but for the edits and races that ServedAsTold names         *)
(* (health.service.ts applyOutcomes, subscription.ts buildSubscription).   *)
(***************************************************************************)
THEOREM DocumentsFollowAlerts == DSpec => []ServedAsTold
    BY ServedOfInv, DeliveryInvariance, PTL

-----------------------------------------------------------------------------
(***************************************************************************)
(* The fields give the name one value; without it, clients take the same.  *)
(***************************************************************************)
Says(fields, name, otherwise, value) ==
    /\ \A field \in fields : field[1] = name => field = <<name, value>>
    /\ <<name, value>> \in fields \/ value = otherwise

(* What such fields say is what a client reads. *)
LEMMA ReadWhatIsSaid ==
    ASSUME NEW fields, NEW name, NEW otherwise, NEW value, Says(fields, name, otherwise, value)
    PROVE  Read(fields, name, otherwise) = value
<1>1. CASE \E field \in fields : field[1] = name
  <2> DEFINE field == CHOOSE field \in fields : field[1] = name
  <2>1. field \in fields /\ field[1] = name
      BY <1>1
  <2> HIDE DEF field
  <2>2. field[2] = value
      BY <2>1 DEF Says
  <2> QED  BY <1>1, <2>2 DEF Read, field
<1>2. CASE ~\E field \in fields : field[1] = name
  <2>1. <<name, value>> \notin fields
      BY <1>2
  <2> QED  BY <1>2, <2>1 DEF Says, Read
<1> QED  BY <1>1, <1>2

(***************************************************************************)
(* A row with every column, of the types that matter here.                 *)
(***************************************************************************)
WholeRow(row) ==
    row.kind \in {"ws", "grpc", "xhttp"} /\ row.tls \in BOOLEAN

(* The connection a vless or trojan row stands for, by either document. *)
Connection(row, type, user) ==
    [to |-> <<type, row.hostname, row.port>>, user |-> user, network |-> row.kind,
     path |-> IF row.kind = "ws" THEN Default(row.path, RootPath) ELSE Blank,
     host |-> IF row.kind = "ws" THEN HostOf(row) ELSE Blank,
     service |-> IF row.kind = "grpc" THEN row.service ELSE Blank,
     tls |-> row.tls, sni |-> IF row.tls THEN SniOf(row) ELSE Blank,
     fp |-> IF row.tls THEN row.fingerprint ELSE Blank,
     alpn |-> IF row.tls THEN row.alpn ELSE Blank,
     insecure |-> IF row.tls THEN row.insecure ELSE Blank,
     plugin |-> Websocket({})]

(* What transportQuery says, whatever else the link has. *)
LEMMA QuerySays ==
    ASSUME NEW row, WholeRow(row), row.kind # "xhttp", NEW scheme, NEW user,
           NEW link, link = {<<"scheme", scheme>>, <<"user", user>>} \cup Endpoint(row) \cup TransportQuery(row)
    PROVE  ByLink(link) = Connection(row, scheme, user)
<1> USE DEF WholeRow, Endpoint, TransportQuery, Given
<1>1. Read(link, "security", "none") = IF row.tls THEN "tls" ELSE "none"
  <2>1. Says(link, "security", "none", IF row.tls THEN "tls" ELSE "none")
      BY DEF Says
  <2> QED  BY <2>1, ReadWhatIsSaid
<1>2. Read(link, "type", "tcp") = row.kind
  <2>1. Says(link, "type", "tcp", row.kind)
      BY DEF Says
  <2> QED  BY <2>1, ReadWhatIsSaid
<1>3. Read(link, "scheme", Blank) = scheme
  <2>1. Says(link, "scheme", Blank, scheme)
      BY DEF Says
  <2> QED  BY <2>1, ReadWhatIsSaid
<1>4. Read(link, "server", Blank) = row.hostname
  <2>1. Says(link, "server", Blank, row.hostname)
      BY DEF Says
  <2> QED  BY <2>1, ReadWhatIsSaid
<1>5. Read(link, "port", Blank) = row.port
  <2>1. Says(link, "port", Blank, row.port)
      BY DEF Says
  <2> QED  BY <2>1, ReadWhatIsSaid
<1>6. Read(link, "user", Blank) = user
  <2>1. Says(link, "user", Blank, user)
      BY DEF Says
  <2> QED  BY <2>1, ReadWhatIsSaid
<1>7. row.kind = "ws" => Read(link, "path", RootPath) = Default(row.path, RootPath)
  <2>1. row.kind = "ws" => Says(link, "path", RootPath, Default(row.path, RootPath))
      BY DEF Says, Default
  <2> QED  BY <2>1, ReadWhatIsSaid
<1>8. row.kind = "ws" => Read(link, "host", Blank) = HostOf(row)
  <2>1. row.kind = "ws" => Says(link, "host", Blank, HostOf(row))
      BY DEF Says
  <2> QED  BY <2>1, ReadWhatIsSaid
<1> DEFINE service == IF row.kind = "grpc" THEN row.service ELSE Blank
           sni == IF row.tls THEN SniOf(row) ELSE Blank
           fp == IF row.tls THEN row.fingerprint ELSE Blank
           alpn == IF row.tls THEN row.alpn ELSE Blank
           insecure == IF row.tls THEN row.insecure ELSE Blank
<1>9. Read(link, "serviceName", Blank) = service
  <2>1. Says(link, "serviceName", Blank, service)
      BY DEF Says
  <2> QED  BY <2>1, ReadWhatIsSaid
<1>10. Read(link, "sni", Blank) = sni
  <2>1. Says(link, "sni", Blank, sni)
      BY DEF Says
  <2> QED  BY <2>1, ReadWhatIsSaid
<1>11. Read(link, "fp", Blank) = fp
  <2>1. Says(link, "fp", Blank, fp)
      BY DEF Says
  <2> QED  BY <2>1, ReadWhatIsSaid
<1>12. Read(link, "alpn", Blank) = alpn
  <2>1. Says(link, "alpn", Blank, alpn)
      BY DEF Says
  <2> QED  BY <2>1, ReadWhatIsSaid
<1>13. Read(link, "allowInsecure", Blank) = insecure
  <2>1. Says(link, "allowInsecure", Blank, insecure)
      BY DEF Says
  <2> QED  BY <2>1, ReadWhatIsSaid
<1>14. Read(link, "plugin", {}) = {}
  <2>1. Says(link, "plugin", {}, {})
      BY DEF Says
  <2> QED  BY <2>1, ReadWhatIsSaid
<1>15. (Read(link, "security", "none") = "tls") = row.tls
    BY <1>1
<1> DEFINE path == IF row.kind = "ws" THEN Default(row.path, RootPath) ELSE Blank
           host == IF row.kind = "ws" THEN HostOf(row) ELSE Blank
<1>16. /\ (IF Read(link, "type", "tcp") = "ws" THEN Read(link, "path", RootPath) ELSE Blank) = path
       /\ (IF Read(link, "type", "tcp") = "ws" THEN Read(link, "host", Blank) ELSE Blank) = host
    BY <1>2, <1>7, <1>8
<1> HIDE DEF service, sni, fp, alpn, insecure, path, host, WholeRow, Endpoint, TransportQuery, Given
<1>17. ByLink(link) =
       [to |-> <<scheme, row.hostname, row.port>>, user |-> user, network |-> row.kind,
        path |-> path, host |-> host, service |-> service, tls |-> row.tls, sni |-> sni, fp |-> fp, alpn |-> alpn,
        insecure |-> insecure, plugin |-> Websocket({})]
    BY <1>2, <1>3, <1>4, <1>5, <1>6, <1>9, <1>10, <1>11, <1>12, <1>13, <1>14, <1>15, <1>16
       DEF ByLink
<1> QED  BY <1>17 DEF Connection, service, sni, fp, alpn, insecure, path, host

(* ClashTls with other values for true and false, which the provers do not *)
(* take for members of tuples.                                             *)
TlsFields(row, on, off) ==
    IF row.tls THEN {<<"tls", on>>, <<"servername", SniOf(row)>>}
                    \cup Given("skip-cert-verify", row.insecure)
                    \cup Given("client-fingerprint", row.fingerprint) \cup Given("alpn", row.alpn)
    ELSE {<<"tls", off>>}

(* ClashTls is TlsFields for the truth values. *)
LEMMA TlsIsFields ==
    ASSUME NEW row, NEW on, NEW off, on = TRUE, off = FALSE
    PROVE  ClashTls(row) = TlsFields(row, on, off)
    BY Zenon DEF ClashTls, TlsFields

(***************************************************************************)
(* What the Clash proxy of a vless row says.                               *)
(***************************************************************************)
LEMMA VlessProxySays ==
    ASSUME NEW row, WholeRow(row), row.kind # "xhttp", NEW proxy, proxy = VlessProxy(row)
    PROVE  ByClash(proxy) = Connection(row, "vless", "uuid")
<1> DEFINE service == IF row.kind = "grpc" THEN row.service ELSE Blank
           path == IF row.kind = "ws" THEN Default(row.path, RootPath) ELSE Blank
           host == IF row.kind = "ws" THEN HostOf(row) ELSE Blank
           sni == IF row.tls THEN SniOf(row) ELSE Blank
           fp == IF row.tls THEN row.fingerprint ELSE Blank
           alpn == IF row.tls THEN row.alpn ELSE Blank
           insecure == IF row.tls THEN row.insecure ELSE Blank
<1>a. PICK on : on = TRUE
    OBVIOUS
<1>b. PICK off : off = FALSE
    OBVIOUS
<1>c. proxy = {<<"type", "vless">>, <<"secret", "uuid">>} \cup Endpoint(row)
              \cup ClashTransport(row) \cup TlsFields(row, on, off)
    BY <1>a, <1>b, TlsIsFields, Zenon DEF VlessProxy
<1> USE DEF WholeRow, Endpoint, ClashTransport, TlsFields, Given
<1>1. Read(proxy, "type", Blank) = "vless"
  <2>1. Says(proxy, "type", Blank, "vless")
      BY <1>c DEF Says
  <2> QED  BY <2>1, ReadWhatIsSaid
<1>2. Read(proxy, "server", Blank) = row.hostname
  <2>1. Says(proxy, "server", Blank, row.hostname)
      BY <1>c DEF Says
  <2> QED  BY <2>1, ReadWhatIsSaid
<1>3. Read(proxy, "port", Blank) = row.port
  <2>1. Says(proxy, "port", Blank, row.port)
      BY <1>c DEF Says
  <2> QED  BY <2>1, ReadWhatIsSaid
<1>4. Read(proxy, "secret", Blank) = "uuid"
  <2>1. Says(proxy, "secret", Blank, "uuid")
      BY <1>c DEF Says
  <2> QED  BY <2>1, ReadWhatIsSaid
<1>5. Read(proxy, "network", "tcp") = row.kind
  <2>1. Says(proxy, "network", "tcp", row.kind)
      BY <1>c DEF Says
  <2> QED  BY <2>1, ReadWhatIsSaid
<1>6. Read(proxy, "ws-path", Blank) = path
  <2>1. Says(proxy, "ws-path", Blank, path)
      BY <1>c DEF Says
  <2> QED  BY <2>1, ReadWhatIsSaid
<1>7. Read(proxy, "ws-host", Blank) = host
  <2>1. Says(proxy, "ws-host", Blank, host)
      BY <1>c DEF Says
  <2> QED  BY <2>1, ReadWhatIsSaid
<1>8. Read(proxy, "grpc-service-name", Blank) = service
  <2>1. Says(proxy, "grpc-service-name", Blank, service)
      BY <1>c DEF Says
  <2> QED  BY <2>1, ReadWhatIsSaid
<1>9. Read(proxy, "servername", Blank) = sni
  <2>1. Says(proxy, "servername", Blank, sni)
      BY <1>c DEF Says
  <2> QED  BY <2>1, ReadWhatIsSaid
<1>10. Read(proxy, "client-fingerprint", Blank) = fp
  <2>1. Says(proxy, "client-fingerprint", Blank, fp)
      BY <1>c DEF Says
  <2> QED  BY <2>1, ReadWhatIsSaid
<1>11. Read(proxy, "alpn", Blank) = alpn
  <2>1. Says(proxy, "alpn", Blank, alpn)
      BY <1>c DEF Says
  <2> QED  BY <2>1, ReadWhatIsSaid
<1>12. Read(proxy, "skip-cert-verify", Blank) = insecure
  <2>1. Says(proxy, "skip-cert-verify", Blank, insecure)
      BY <1>c DEF Says
  <2> QED  BY <2>1, ReadWhatIsSaid
<1>13. Read(proxy, "plugin-opts", {}) = {}
  <2>1. Says(proxy, "plugin-opts", {}, {})
      BY <1>c DEF Says
  <2> QED  BY <2>1, ReadWhatIsSaid
<1>14. Read(proxy, "tls", FALSE) = row.tls
  <2>1. Says(proxy, "tls", off, IF row.tls THEN on ELSE off)
      BY <1>c DEF Says
  <2>2. Read(proxy, "tls", off) = IF row.tls THEN on ELSE off
      BY <2>1, ReadWhatIsSaid
  <2> QED  BY <1>a, <1>b, <2>2, Zenon DEF WholeRow
<1> QED  BY <1>1, <1>2, <1>3, <1>4, <1>5, <1>6, <1>7, <1>8, <1>9, <1>10, <1>11, <1>12, <1>13, <1>14
         DEF ByClash, Connection

(* What that of a trojan row says, which is valid only with TLS. *)
LEMMA TrojanProxySays ==
    ASSUME NEW row, WholeRow(row), row.kind # "xhttp", NEW proxy, proxy = TrojanProxy(row), row.tls
    PROVE  ByClash(proxy) = Connection(row, "trojan", "trojanPassword")
<1> DEFINE service == IF row.kind = "grpc" THEN row.service ELSE Blank
           path == IF row.kind = "ws" THEN Default(row.path, RootPath) ELSE Blank
           host == IF row.kind = "ws" THEN HostOf(row) ELSE Blank
           sni == IF row.tls THEN SniOf(row) ELSE Blank
           fp == IF row.tls THEN row.fingerprint ELSE Blank
           alpn == IF row.tls THEN row.alpn ELSE Blank
           insecure == IF row.tls THEN row.insecure ELSE Blank
<1>a. PICK on : on = TRUE
    OBVIOUS
<1>b. PICK off : off = FALSE
    OBVIOUS
<1>c. proxy = {<<"type", "trojan">>, <<"secret", "trojanPassword">>, <<"sni", SniOf(row)>>}
              \cup Endpoint(row) \cup ClashTransport(row)
              \cup {field \in TlsFields(row, on, off) : field[1] \notin {"tls", "servername"}}
    BY <1>a, <1>b, TlsIsFields, Zenon DEF TrojanProxy
<1> USE DEF WholeRow, Endpoint, ClashTransport, TlsFields, Given
<1>1. Read(proxy, "type", Blank) = "trojan"
  <2>1. Says(proxy, "type", Blank, "trojan")
      BY <1>c DEF Says
  <2> QED  BY <2>1, ReadWhatIsSaid
<1>2. Read(proxy, "server", Blank) = row.hostname
  <2>1. Says(proxy, "server", Blank, row.hostname)
      BY <1>c DEF Says
  <2> QED  BY <2>1, ReadWhatIsSaid
<1>3. Read(proxy, "port", Blank) = row.port
  <2>1. Says(proxy, "port", Blank, row.port)
      BY <1>c DEF Says
  <2> QED  BY <2>1, ReadWhatIsSaid
<1>4. Read(proxy, "secret", Blank) = "trojanPassword"
  <2>1. Says(proxy, "secret", Blank, "trojanPassword")
      BY <1>c DEF Says
  <2> QED  BY <2>1, ReadWhatIsSaid
<1>5. Read(proxy, "network", "tcp") = row.kind
  <2>1. Says(proxy, "network", "tcp", row.kind)
      BY <1>c DEF Says
  <2> QED  BY <2>1, ReadWhatIsSaid
<1>6. Read(proxy, "ws-path", Blank) = path
  <2>1. Says(proxy, "ws-path", Blank, path)
      BY <1>c DEF Says
  <2> QED  BY <2>1, ReadWhatIsSaid
<1>7. Read(proxy, "ws-host", Blank) = host
  <2>1. Says(proxy, "ws-host", Blank, host)
      BY <1>c DEF Says
  <2> QED  BY <2>1, ReadWhatIsSaid
<1>8. Read(proxy, "grpc-service-name", Blank) = service
  <2>1. Says(proxy, "grpc-service-name", Blank, service)
      BY <1>c DEF Says
  <2> QED  BY <2>1, ReadWhatIsSaid
<1>9. Read(proxy, "sni", Blank) = sni
  <2>1. Says(proxy, "sni", Blank, sni)
      BY <1>c DEF Says
  <2> QED  BY <2>1, ReadWhatIsSaid
<1>10. Read(proxy, "client-fingerprint", Blank) = fp
  <2>1. Says(proxy, "client-fingerprint", Blank, fp)
      BY <1>c DEF Says
  <2> QED  BY <2>1, ReadWhatIsSaid
<1>11. Read(proxy, "alpn", Blank) = alpn
  <2>1. Says(proxy, "alpn", Blank, alpn)
      BY <1>c DEF Says
  <2> QED  BY <2>1, ReadWhatIsSaid
<1>12. Read(proxy, "skip-cert-verify", Blank) = insecure
  <2>1. Says(proxy, "skip-cert-verify", Blank, insecure)
      BY <1>c DEF Says
  <2> QED  BY <2>1, ReadWhatIsSaid
<1>13. Read(proxy, "plugin-opts", {}) = {}
  <2>1. Says(proxy, "plugin-opts", {}, {})
      BY <1>c DEF Says
  <2> QED  BY <2>1, ReadWhatIsSaid
<1> QED  BY <1>1, <1>2, <1>3, <1>4, <1>5, <1>6, <1>7, <1>8, <1>9, <1>10, <1>11, <1>12, <1>13
         DEF ByClash, Connection

(***************************************************************************)
(* The options of v2ray-plugin, with a value for true and one for false.   *)
(***************************************************************************)
ParameterFields(row, on) ==
    IF row.kind # "ws" THEN {}
    ELSE (IF row.tls THEN {<<"tls", on>>} ELSE {})
         \cup {<<"host", HostOf(row)>>, <<"path", Default(row.path, RootPath)>>}

OptsFields(row, tls) ==
    IF row.kind # "ws" THEN {}
    ELSE {<<"mode", "websocket">>, <<"tls", tls>>, <<"host", HostOf(row)>>,
          <<"path", Default(row.path, RootPath)>>}

(* Both spellings of the options of v2ray-plugin give the same websocket.  *)
LEMMA SamePlugin ==
    ASSUME NEW row, WholeRow(row)
    PROVE  Websocket(PluginParameter(row)) = Websocket(PluginOpts(row))
<1>1. CASE row.kind # "ws"
    BY <1>1 DEF PluginParameter, PluginOpts
<1>2. CASE row.kind = "ws"
  <2>1. PICK on : on = TRUE
      OBVIOUS
  <2>2. PICK off : off = FALSE
      OBVIOUS
  <2>3. PICK tls : tls = row.tls
      OBVIOUS
  <2>4. PICK p : p = PluginParameter(row)
      OBVIOUS
  <2>5. PICK q : q = PluginOpts(row)
      OBVIOUS
  <2>6. p = ParameterFields(row, on)
      BY <2>1, <2>4, Zenon DEF PluginParameter, ParameterFields
  <2>7. q = OptsFields(row, tls)
      BY <2>3, <2>5, Zenon DEF PluginOpts, OptsFields
  <2>8. p # {} /\ q # {}
      BY <1>2, <2>6, <2>7 DEF ParameterFields, OptsFields
  <2>9. Read(p, "host", Blank) = HostOf(row)
    <3>1. Says(p, "host", Blank, HostOf(row))
        BY <1>2, <2>6 DEF Says, ParameterFields
    <3> QED  BY <3>1, ReadWhatIsSaid
  <2>10. Read(q, "host", Blank) = HostOf(row)
    <3>1. Says(q, "host", Blank, HostOf(row))
        BY <1>2, <2>7 DEF Says, OptsFields
    <3> QED  BY <3>1, ReadWhatIsSaid
  <2>11. Read(p, "path", Blank) = Default(row.path, RootPath)
    <3>1. Says(p, "path", Blank, Default(row.path, RootPath))
        BY <1>2, <2>6 DEF Says, ParameterFields
    <3> QED  BY <3>1, ReadWhatIsSaid
  <2>12. Read(q, "path", Blank) = Default(row.path, RootPath)
    <3>1. Says(q, "path", Blank, Default(row.path, RootPath))
        BY <1>2, <2>7 DEF Says, OptsFields
    <3> QED  BY <3>1, ReadWhatIsSaid
  <2>13. Read(p, "tls", off) = IF row.tls THEN on ELSE off
    <3>1. Says(p, "tls", off, IF row.tls THEN on ELSE off)
        BY <1>2, <2>6 DEF Says, ParameterFields
    <3> QED  BY <3>1, ReadWhatIsSaid
  <2>14. Read(q, "tls", off) = tls
    <3>1. Says(q, "tls", off, tls)
        BY <1>2, <2>7 DEF Says, OptsFields
    <3> QED  BY <3>1, ReadWhatIsSaid
  <2>15. Read(p, "tls", FALSE) = Read(q, "tls", FALSE)
      BY <2>1, <2>2, <2>3, <2>13, <2>14, Zenon DEF WholeRow
  <2>16. Websocket(p) = Websocket(q)
    <3>1. (p # {}) = (q # {})
        BY <2>8
    <3> QED  BY <3>1, <2>9, <2>10, <2>11, <2>12, <2>15, Zenon DEF Websocket
  <2> QED  BY <2>4, <2>5, <2>16
<1> QED  BY <1>1, <1>2

(* The connection a Shadowsocks row stands for. *)
ShadowsocksConnection(row, plugin) ==
    [to |-> <<"shadowsocks", row.hostname, row.port>>, user |-> "ssPassword", network |-> "tcp",
     path |-> Blank, host |-> Blank, service |-> Blank, tls |-> FALSE, sni |-> Blank,
     fp |-> Blank, alpn |-> Blank, insecure |-> Blank, plugin |-> Websocket(plugin)]

(* What its link says. *)
LEMMA ShadowsocksLinkSays ==
    ASSUME NEW row, NEW link, link = ShadowsocksLink(row)
    PROVE  ByLink(link) = ShadowsocksConnection(row, PluginParameter(row))
<1> USE DEF Endpoint, ShadowsocksLink
<1>1. Read(link, "scheme", Blank) = "shadowsocks"
  <2>1. Says(link, "scheme", Blank, "shadowsocks")
      BY DEF Says
  <2> QED  BY <2>1, ReadWhatIsSaid
<1>2. Read(link, "server", Blank) = row.hostname
  <2>1. Says(link, "server", Blank, row.hostname)
      BY DEF Says
  <2> QED  BY <2>1, ReadWhatIsSaid
<1>3. Read(link, "port", Blank) = row.port
  <2>1. Says(link, "port", Blank, row.port)
      BY DEF Says
  <2> QED  BY <2>1, ReadWhatIsSaid
<1>4. Read(link, "user", Blank) = "ssPassword"
  <2>1. Says(link, "user", Blank, "ssPassword")
      BY DEF Says
  <2> QED  BY <2>1, ReadWhatIsSaid
<1>5. Read(link, "type", "tcp") = "tcp"
  <2>1. Says(link, "type", "tcp", "tcp")
      BY DEF Says
  <2> QED  BY <2>1, ReadWhatIsSaid
<1>6. Read(link, "security", "none") = "none"
  <2>1. Says(link, "security", "none", "none")
      BY DEF Says
  <2> QED  BY <2>1, ReadWhatIsSaid
<1>7. Read(link, "serviceName", Blank) = Blank
  <2>1. Says(link, "serviceName", Blank, Blank)
      BY DEF Says
  <2> QED  BY <2>1, ReadWhatIsSaid
<1>8. Read(link, "sni", Blank) = Blank
  <2>1. Says(link, "sni", Blank, Blank)
      BY DEF Says
  <2> QED  BY <2>1, ReadWhatIsSaid
<1>9. Read(link, "fp", Blank) = Blank
  <2>1. Says(link, "fp", Blank, Blank)
      BY DEF Says
  <2> QED  BY <2>1, ReadWhatIsSaid
<1>10. Read(link, "alpn", Blank) = Blank
  <2>1. Says(link, "alpn", Blank, Blank)
      BY DEF Says
  <2> QED  BY <2>1, ReadWhatIsSaid
<1>11. Read(link, "allowInsecure", Blank) = Blank
  <2>1. Says(link, "allowInsecure", Blank, Blank)
      BY DEF Says
  <2> QED  BY <2>1, ReadWhatIsSaid
<1>12. Read(link, "plugin", {}) = PluginParameter(row)
  <2>1. Says(link, "plugin", {}, PluginParameter(row))
      BY DEF Says
  <2> QED  BY <2>1, ReadWhatIsSaid
<1> QED  BY <1>1, <1>2, <1>3, <1>4, <1>5, <1>6, <1>7, <1>8, <1>9, <1>10, <1>11, <1>12
         DEF ByLink, ShadowsocksConnection

(* What its Clash proxy says. *)
LEMMA ShadowsocksProxySays ==
    ASSUME NEW row, NEW proxy, proxy = ShadowsocksProxy(row)
    PROVE  ByClash(proxy) = ShadowsocksConnection(row, PluginOpts(row))
<1> USE DEF Endpoint, ShadowsocksProxy
<1>1. Read(proxy, "type", Blank) = "shadowsocks"
  <2>1. Says(proxy, "type", Blank, "shadowsocks")
      BY DEF Says
  <2> QED  BY <2>1, ReadWhatIsSaid
<1>2. Read(proxy, "server", Blank) = row.hostname
  <2>1. Says(proxy, "server", Blank, row.hostname)
      BY DEF Says
  <2> QED  BY <2>1, ReadWhatIsSaid
<1>3. Read(proxy, "port", Blank) = row.port
  <2>1. Says(proxy, "port", Blank, row.port)
      BY DEF Says
  <2> QED  BY <2>1, ReadWhatIsSaid
<1>4. Read(proxy, "secret", Blank) = "ssPassword"
  <2>1. Says(proxy, "secret", Blank, "ssPassword")
      BY DEF Says
  <2> QED  BY <2>1, ReadWhatIsSaid
<1>5. Read(proxy, "network", "tcp") = "tcp"
  <2>1. Says(proxy, "network", "tcp", "tcp")
      BY DEF Says
  <2> QED  BY <2>1, ReadWhatIsSaid
<1>6. Read(proxy, "ws-path", Blank) = Blank
  <2>1. Says(proxy, "ws-path", Blank, Blank)
      BY DEF Says
  <2> QED  BY <2>1, ReadWhatIsSaid
<1>7. Read(proxy, "ws-host", Blank) = Blank
  <2>1. Says(proxy, "ws-host", Blank, Blank)
      BY DEF Says
  <2> QED  BY <2>1, ReadWhatIsSaid
<1>8. Read(proxy, "grpc-service-name", Blank) = Blank
  <2>1. Says(proxy, "grpc-service-name", Blank, Blank)
      BY DEF Says
  <2> QED  BY <2>1, ReadWhatIsSaid
<1>9. Read(proxy, "servername", Blank) = Blank
  <2>1. Says(proxy, "servername", Blank, Blank)
      BY DEF Says
  <2> QED  BY <2>1, ReadWhatIsSaid
<1>10. Read(proxy, "client-fingerprint", Blank) = Blank
  <2>1. Says(proxy, "client-fingerprint", Blank, Blank)
      BY DEF Says
  <2> QED  BY <2>1, ReadWhatIsSaid
<1>11. Read(proxy, "alpn", Blank) = Blank
  <2>1. Says(proxy, "alpn", Blank, Blank)
      BY DEF Says
  <2> QED  BY <2>1, ReadWhatIsSaid
<1>12. Read(proxy, "skip-cert-verify", Blank) = Blank
  <2>1. Says(proxy, "skip-cert-verify", Blank, Blank)
      BY DEF Says
  <2> QED  BY <2>1, ReadWhatIsSaid
<1>13. Read(proxy, "tls", FALSE) = FALSE
  <2>1. Says(proxy, "tls", FALSE, FALSE)
      BY DEF Says
  <2> QED  BY <2>1, ReadWhatIsSaid
<1>14. Read(proxy, "plugin-opts", {}) = PluginOpts(row)
  <2>1. Says(proxy, "plugin-opts", {}, PluginOpts(row))
      BY DEF Says
  <2> QED  BY <2>1, ReadWhatIsSaid
<1> QED  BY <1>1, <1>2, <1>3, <1>4, <1>5, <1>6, <1>7, <1>8, <1>9, <1>10, <1>11, <1>12, <1>13, <1>14
         DEF ByClash, ShadowsocksConnection

(***************************************************************************)
(* The three adapters, on any row with the columns they look at.           *)
(***************************************************************************)
LEMMA SamePlace ==
    ASSUME NEW row, WholeRow(row), row.protocol \in {"vless", "trojan", "shadowsocks"},
           Valid(row), HasClash(row)
    PROVE  ByLink(Link(row)) = ByClash(ClashProxy(row))
<1>1. CASE row.protocol = "vless"
  <2>1. row.kind # "xhttp"
      BY <1>1 DEF HasClash
  <2>2. Link(row) = VlessLink(row) /\ ClashProxy(row) = VlessProxy(row)
      BY <1>1 DEF Link, ClashProxy
  <2>3. ByLink(VlessLink(row)) = Connection(row, "vless", "uuid")
      BY <2>1, QuerySays DEF VlessLink
  <2>4. ByClash(VlessProxy(row)) = Connection(row, "vless", "uuid")
      BY <2>1, VlessProxySays
  <2> QED  BY <2>2, <2>3, <2>4
<1>2. CASE row.protocol = "trojan"
  <2>1. row.tls /\ row.kind # "xhttp"
      BY <1>2 DEF Valid, TrojanValid
  <2>2. Link(row) = TrojanLink(row) /\ ClashProxy(row) = TrojanProxy(row)
      BY <1>2 DEF Link, ClashProxy
  <2>3. ByLink(TrojanLink(row)) = Connection(row, "trojan", "trojanPassword")
      BY <2>1, QuerySays DEF TrojanLink
  <2>4. ByClash(TrojanProxy(row)) = Connection(row, "trojan", "trojanPassword")
      BY <2>1, TrojanProxySays
  <2> QED  BY <2>2, <2>3, <2>4
<1>3. CASE row.protocol = "shadowsocks"
  <2>1. Link(row) = ShadowsocksLink(row) /\ ClashProxy(row) = ShadowsocksProxy(row)
      BY <1>3 DEF Link, ClashProxy
  <2>2. ByLink(ShadowsocksLink(row)) = ShadowsocksConnection(row, PluginParameter(row))
      BY ShadowsocksLinkSays
  <2>3. ByClash(ShadowsocksProxy(row)) = ShadowsocksConnection(row, PluginOpts(row))
      BY ShadowsocksProxySays
  <2>4. ShadowsocksConnection(row, PluginParameter(row)) = ShadowsocksConnection(row, PluginOpts(row))
      BY SamePlugin DEF ShadowsocksConnection
  <2> QED  BY <2>1, <2>2, <2>3, <2>4
<1> QED  BY <1>1, <1>2, <1>3

(* The columns of a row that is put together. *)
LEMMA WholeHas ==
    ASSUME NEW row \in NodeColumns, NEW columns \in LinkColumns
    PROVE  /\ WholeRow(Whole(row, columns))
           /\ Whole(row, columns).protocol \in {"vless", "trojan", "shadowsocks"}
<1>1. /\ {"kind", "protocol"} \subseteq DOMAIN row /\ "tls" \in DOMAIN columns \ DOMAIN row
      /\ row.kind \in {"ws", "grpc", "xhttp"} /\ columns.tls \in BOOLEAN
      /\ row.protocol \in {"vless", "trojan", "shadowsocks"}
    BY DEF NodeColumns, LinkColumns
<1> QED  BY <1>1 DEF WholeRow, Whole

(* LinksAgree is a consequence of the invariant. *)
LEMMA LinksOfInv == DInv => LinksAgree
<1> SUFFICES ASSUME DInv, NEW fleet \in Fleets, NEW row \in Rows(fleet), NEW columns \in Columns,
                    Valid(Whole(row, columns)), HasClash(Whole(row, columns))
             PROVE  ByLink(Link(Whole(row, columns))) = ByClash(ClashProxy(Whole(row, columns)))
    BY DEF LinksAgree
<1>1. nodes \in [Nodes -> Row]
    BY TypeIff DEF DInv, IInv
<1>2. row \in NodeColumns /\ columns \in LinkColumns
    BY <1>1, RowsOfFleet, ColumnsAssumption
<1> QED  BY <1>2, WholeHas, SamePlace

(***************************************************************************)
(* The two documents lead to the same place, for every row the adapters    *)
(* find valid, whichever of its columns are null (protocols.ts).           *)
(***************************************************************************)
THEOREM FormatsAgree == DSpec => []LinksAgree
    BY LinksOfInv, DeliveryInvariance, PTL

-----------------------------------------------------------------------------
(***************************************************************************)
(* Induction for what follows: a set of numbers has a least element.       *)
(***************************************************************************)
LEMMA LeastOf ==
    ASSUME NEW T \in SUBSET Nat, T # {}
    PROVE  \E x \in T : \A y \in T : x <= y
<1> DEFINE R == OpToRel(<, Nat)
<1>1. IsWellFoundedOn(R, Nat)
    BY NatLessThanWellFounded
<1>2. \A x, y \in Nat : <<y, x>> \in R <=> y < x
  <2>1. R = {p \in Nat \X Nat : p[1] < p[2]}
      BY Zenon DEF OpToRel
  <2> HIDE DEF R
  <2> QED  BY <2>1
<1> HIDE DEF R
<1>3. PICK x \in T : \A y \in T : <<y,x>> \notin R
    BY <1>1, WFMin
<1>4. ASSUME NEW y \in T PROVE x <= y
  <2>1. x \in Nat /\ y \in Nat
       OBVIOUS
  <2>2. ~(y < x)
       BY <1>2, <1>3, <2>1
  <2> QED  BY <2>1, <2>2
<1> QED  BY <1>4

(***************************************************************************)
(* g[k] is what Picked takes from s up to the index k.                     *)
(***************************************************************************)
PickedAt(s, I, g, k) ==
    IF k = 0 THEN << >> ELSE IF k \in I THEN Append(g[k - 1], s[k]) ELSE g[k - 1]

UpTo(s, I, g, n) == g = [k \in 0 .. n |-> PickedAt(s, I, g, k)]

(* There is such a g, by induction on n. *)
LEMMA UpToExists ==
    ASSUME NEW s, NEW N \in Nat, NEW I
    PROVE  \A n \in 0 .. N : \E g : UpTo(s, I, g, n)
<1> USE DEF PickedAt
<1> DEFINE Bad == {n \in 0 .. N : ~\E g : UpTo(s, I, g, n)}
<1>1. SUFFICES ASSUME Bad # {} PROVE FALSE
    OBVIOUS
<1>2. PICK n \in Bad : \A m \in Bad : n <= m
  <2>1. Bad \in SUBSET Nat
      OBVIOUS
  <2> HIDE DEF Bad
  <2> QED  BY <1>1, <2>1, LeastOf
<1>3. CASE n = 0
  <2> DEFINE h == [k \in 0 .. 0 |-> << >>]
  <2>1. h = [k \in 0 .. n |-> PickedAt(s, I, h, k)]
      BY <1>3
  <2> QED  BY <1>2, <1>3, <2>1 DEF UpTo
<1>4. CASE n # 0
  <2>1. n - 1 \in 0 .. N /\ n - 1 \notin Bad /\ n \in 0 .. N /\ n \in Nat /\ n - 1 \in Nat
      BY <1>2, <1>4
  <2>2. PICK g : UpTo(s, I, g, n - 1)
      BY <2>1
  <2>9. g = [k \in 0 .. n - 1 |-> PickedAt(s, I, g, k)]
      BY <2>2 DEF UpTo
  <2> DEFINE last == IF n \in I THEN Append(g[n - 1], s[n]) ELSE g[n - 1]
             h == [k \in 0 .. n |-> IF k = n THEN last ELSE g[k]]
  <2> HIDE DEF last
  <2>3. \A k \in 0 .. n - 1 : h[k] = g[k]
      BY <2>1
  <2>4. \A k \in 0 .. n : h[k] = PickedAt(s, I, h, k)
    <3>1. ASSUME NEW k \in 0 .. n - 1 PROVE h[k] = PickedAt(s, I, h, k)
      <4>1. k = 0 \/ k - 1 \in 0 .. n - 1
          BY <2>1
      <4>2. g[k] = PickedAt(s, I, g, k)
          BY <2>9
      <4> HIDE DEF h
      <4> QED  BY <2>3, <4>1, <4>2
    <3>2. h[n] = IF n \in I THEN Append(h[n - 1], s[n]) ELSE h[n - 1]
      <4>1. h[n] = last BY <2>1
      <4>2. h[n - 1] = g[n - 1]
            BY <2>1, <2>3
      <4> QED  BY <4>1, <4>2 DEF last
    <3> HIDE DEF h
    <3> QED  BY <1>4, <2>1, <3>1, <3>2
  <2>5. h = [k \in 0 .. n |-> PickedAt(s, I, h, k)]
    <3>1. h = [k \in 0 .. n |-> h[k]]
        OBVIOUS
    <3> HIDE DEF h
    <3> QED  BY <2>4, <3>1
  <2>6. \E x : UpTo(s, I, x, n)
      BY <2>5 DEF UpTo
  <2> QED  BY <1>2, <2>6
<1> QED  BY <1>3, <1>4

(***************************************************************************)
(* h runs through the m numbers in J, the smaller ones first.              *)
(***************************************************************************)
Enumerates(h, m, J) ==
    /\ m \in Nat
    /\ h \in [1 .. m -> J]
    /\ \A a, b \in 1 .. m : a < b => h[a] < h[b]
    /\ \A i \in J : \E a \in 1 .. m : h[a] = i

(* f picks, up to n, the elements h names. *)
SoFar(s, I, f, n, m, h) ==
    Enumerates(h, m, I \cap (1 .. n)) /\ f[n] = [a \in 1 .. m |-> s[h[a]]]

(***************************************************************************)
(* What Picked picks: the elements at the indices in I, in their order, by *)
(* induction on the length of the sequence.                                *)
(***************************************************************************)
LEMMA PickedIs ==
    ASSUME NEW S, NEW s \in Seq(S), NEW I \in SUBSET (1 .. Len(s))
    PROVE  \E m \in Nat : \E h : Enumerates(h, m, I) /\ Picked(s, I) = [a \in 1 .. m |-> s[h[a]]]
<1> USE DEF PickedAt
<1> DEFINE N == Len(s)
           f == CHOOSE g : UpTo(s, I, g, N)
           Bad == {n \in 0 .. N : ~\E m, h : SoFar(s, I, f, n, m, h)}
<1>1. N \in Nat
    OBVIOUS
<1>2. UpTo(s, I, f, N)
  <2>1. \E g : UpTo(s, I, g, N)
    <3>1. N \in 0 .. N
        BY <1>1
    <3> HIDE DEF N
    <3> QED  BY <1>1, <3>1, UpToExists
  <2>2. f = CHOOSE g : UpTo(s, I, g, N)
      OBVIOUS
  <2> HIDE DEF f
  <2> QED  BY <2>1, <2>2, Zenon
<1>3. Picked(s, I) = f[N]
    BY Zenon DEF Picked, UpTo
<1> HIDE DEF f, N
<1>4. f = [k \in 0 .. N |-> PickedAt(s, I, f, k)]
    BY <1>2 DEF UpTo
<1>5. Bad = {}
  <2> SUFFICES ASSUME Bad # {} PROVE FALSE
      BY Zenon
  <2>1. Bad # {}
      OBVIOUS
  <2>2. PICK n \in Bad : \A m \in Bad : n <= m
    <3>1. Bad \in SUBSET Nat
        OBVIOUS
    <3> HIDE DEF Bad
    <3> QED  BY <2>1, <3>1, LeastOf
  <2>3. n \in 0 .. N /\ n \in Nat /\ ~\E m, h : SoFar(s, I, f, n, m, h)
      BY <1>1, <2>2
  <2>4. CASE n = 0
    <3>1. f[n] = << >>
        BY <1>1, <1>4, <2>4
    <3> DEFINE h == [a \in 1 .. 0 |-> a]
    <3>2. Enumerates(h, 0, I \cap (1 .. n))
        BY <2>4 DEF Enumerates
    <3>3. f[n] = [a \in 1 .. 0 |-> s[h[a]]]
        BY <3>1
    <3> HIDE DEF h
    <3> QED  BY <2>3, <3>2, <3>3 DEF SoFar
  <2>5. CASE n # 0
    <3>1. n - 1 \in 0 .. N /\ n - 1 \in Nat /\ n - 1 \notin Bad /\ n \in 1 .. N
        BY <1>1, <2>2, <2>3, <2>5
    <3>2. PICK m, h : SoFar(s, I, f, n - 1, m, h)
        BY <3>1
    <3>3. /\ m \in Nat /\ h \in [1 .. m -> I \cap (1 .. n - 1)]
          /\ \A a, b \in 1 .. m : a < b => h[a] < h[b]
          /\ \A i \in I \cap (1 .. n - 1) : \E a \in 1 .. m : h[a] = i
          /\ f[n - 1] = [a \in 1 .. m |-> s[h[a]]]
        BY <3>2 DEF SoFar, Enumerates
    <3>4. f[n] = IF n \in I THEN Append(f[n - 1], s[n]) ELSE f[n - 1]
        BY <1>4, <2>5, <3>1
    <3>5. CASE n \notin I
      <4>1. I \cap (1 .. n) = I \cap (1 .. n - 1)
          BY <3>1, <3>5
      <4>2. SoFar(s, I, f, n, m, h)
          BY <3>2, <3>3, <3>4, <3>5, <4>1 DEF SoFar
      <4> QED  BY <2>3, <4>2
    <3>6. CASE n \in I
      <4> DEFINE k == [a \in 1 .. m + 1 |-> IF a = m + 1 THEN n ELSE h[a]]
      <4>1. /\ k \in [1 .. m + 1 -> I \cap (1 .. n)]
            /\ k[m + 1] = n /\ \A a \in 1 .. m : k[a] = h[a]
          BY <3>1, <3>3, <3>6
      <4> HIDE DEF k
      <4>2. ASSUME NEW a \in 1 .. m + 1, NEW b \in 1 .. m + 1, a < b PROVE k[a] < k[b]
        <5>1. a \in 1 .. m /\ h[a] \in 1 .. n - 1
            BY <3>1, <3>3, <4>2
        <5>2. CASE b = m + 1
            BY <3>1, <4>1, <5>1, <5>2
        <5>3. CASE b # m + 1
          <6>1. b \in 1 .. m
              BY <3>3, <5>3
          <6> QED  BY <3>3, <4>1, <4>2, <5>1, <6>1
        <5> QED  BY <5>2, <5>3
      <4>3. ASSUME NEW i \in I \cap (1 .. n) PROVE \E a \in 1 .. m + 1 : k[a] = i
        <5>1. CASE i = n
          <6>1. m + 1 \in 1 .. m + 1
              BY <3>3
          <6> QED  BY <4>1, <5>1, <6>1
        <5>2. CASE i # n
          <6>1. i \in I \cap (1 .. n - 1)
              BY <3>1, <5>2
          <6>2. PICK a \in 1 .. m : h[a] = i
              BY <3>3, <6>1
          <6>3. a \in 1 .. m + 1 /\ k[a] = i
              BY <3>3, <4>1, <6>2
          <6> QED  BY <6>3
        <5> QED  BY <5>1, <5>2
      <4>4. Enumerates(k, m + 1, I \cap (1 .. n))
          BY <3>3, <4>1, <4>2, <4>3 DEF Enumerates
      <4>5. f[n] = [a \in 1 .. m + 1 |-> s[k[a]]]
        <5> DEFINE t == [a \in 1 .. m |-> s[h[a]]]
        <5>1. \A a \in 1 .. m : h[a] \in 1 .. N
            BY <3>1, <3>3, <1>1
        <5>2. t \in Seq(S) /\ Len(t) = m
            BY <3>3, <5>1 DEF N
        <5>3. \A a \in 1 .. m : t[a] = s[k[a]]
            BY <4>1
        <5> HIDE DEF t
        <5>4. f[n] = Append(t, s[n])
            BY <3>3, <3>4, <3>6 DEF t
        <5>5. s[n] \in S
            BY <3>1 DEF N
        <5>6. PICK r : r = f[n]
            OBVIOUS
        <5>8. r = [a \in 1 .. m + 1 |-> r[a]]
            BY <3>3, <5>2, <5>4, <5>5, <5>6
        <5>7. ASSUME NEW a \in 1 .. m + 1 PROVE Append(t, s[n])[a] = s[k[a]]
          <6>1. CASE a = m + 1
              BY <4>1, <5>2, <5>5, <6>1
          <6>2. CASE a # m + 1
            <7>1. a \in 1 .. m
                BY <3>3, <6>2
            <7>2. Append(t, s[n])[a] = t[a]
                BY <5>2, <5>5, <7>1
            <7> QED  BY <5>3, <7>1, <7>2
          <6> QED  BY <6>1, <6>2
        <5>9. \A a \in 1 .. m + 1 : r[a] = s[k[a]]
            BY <5>4, <5>6, <5>7
        <5>10. r = [a \in 1 .. m + 1 |-> s[k[a]]]
            BY <5>8, <5>9
        <5> QED  BY <5>6, <5>10
      <4>6. SoFar(s, I, f, n, m + 1, k)
          BY <4>4, <4>5 DEF SoFar
      <4> QED  BY <2>3, <4>6
    <3> QED  BY <3>5, <3>6
  <2> QED  BY <2>4, <2>5
<1>6. PICK m, h : SoFar(s, I, f, N, m, h)
    BY <1>1, <1>5
<1>7. I \cap (1 .. N) = I
    BY DEF N
<1> QED  BY <1>3, <1>6, <1>7 DEF SoFar, Enumerates

-----------------------------------------------------------------------------
(***************************************************************************)
(* A rule, its line in a Clash document, and what they match.              *)
(***************************************************************************)
LEMMA ClashRuleFields ==
    ASSUME NEW rule
    PROVE  LET line == ClashRule(rule) IN
           /\ line.type = IF rule.type = "ip" THEN "cidr" ELSE rule.type
           /\ line.pattern = rule.pattern
           /\ line.bits = IF rule.type = "ip" THEN Width(rule.pattern) ELSE rule.bits
           /\ line.to = rule.action
    BY DEF ClashRule

(* A range of one has one address in it. *)
LEMMA RangeOfOne ==
    ASSUME NEW a \in Addresses, NEW b \in Addresses
    PROVE  InCidr(a, b, Width(b)) <=> a = b
<1>1. Width(b) \in Nat /\ a.number \in Nat /\ b.number \in Nat
    BY WidthsAssumption DEF Width, Addresses
<1>2. Width(b) \in 0 .. Width(b) /\ Width(b) - Width(b) = 0
    BY <1>1
<1>3. 2 ^ 0 = 1
    OBVIOUS
<1>4. a.number \div 1 = a.number /\ b.number \div 1 = b.number
    BY <1>1
<1>5. InCidr(a, b, Width(b)) <=> a.v6 = b.v6 /\ a.number = b.number
    BY <1>2, <1>3, <1>4 DEF InCidr
<1>6. a = b <=> a.v6 = b.v6 /\ a.number = b.number
    BY DEF Addresses
<1> QED  BY <1>5, <1>6

(* toClashRules keeps what a rule matches. *)
LEMMA LineMatches ==
    ASSUME NEW rules \in RuleSets, NEW rule \in rules, NEW target \in Targets
    PROVE  RuleMatches(ClashRule(rule), target) <=> RuleMatches(rule, target)
<1> DEFINE line == ClashRule(rule)
<1>1. /\ rule.type \in {"domain", "domain-suffix", "domain-keyword", "ip", "cidr", "geoip", "geosite"}
      /\ rule.type = "ip" => rule.pattern \in Addresses
      /\ IsAddress(target) => target \in Addresses
    BY RulesAssumption
<1>2. /\ line.type = IF rule.type = "ip" THEN "cidr" ELSE rule.type
      /\ line.pattern = rule.pattern
      /\ line.bits = IF rule.type = "ip" THEN Width(rule.pattern) ELSE rule.bits
    BY ClashRuleFields
<1> HIDE DEF line
<1>3. CASE rule.type = "ip"
  <2>1. RuleMatches(rule, target) <=> IsAddress(target) /\ target = rule.pattern
      BY <1>3 DEF RuleMatches
  <2>2. RuleMatches(line, target) <=>
           IsAddress(target) /\ InCidr(target, rule.pattern, Width(rule.pattern))
      BY <1>2, <1>3 DEF RuleMatches
  <2> QED  BY <1>1, <1>3, <2>1, <2>2, RangeOfOne DEF line
<1>4. CASE rule.type # "ip"
  <2>1. line.type = rule.type /\ line.pattern = rule.pattern /\ line.bits = rule.bits
      BY <1>2, <1>4
  <2>2. RuleMatches(line, target) <=> RuleMatches(rule, target)
      BY <2>1 DEF RuleMatches
  <2> QED  BY <2>2 DEF line
<1> QED  BY <1>3, <1>4

(***************************************************************************)
(* The first line of a document that matches is that of the first rule     *)
(* that does, with its action.                                             *)
(***************************************************************************)
LEMMA SameFirstMatch ==
    ASSUME NEW rules \in RuleSets, NEW order \in RuleOrders(rules), NEW target \in Targets
    PROVE  LET i == SelectInSeq(ClashRules(order), LAMBDA r : RuleMatches(r, target)) IN
           ResolveAction(order, target) = IF i = 0 THEN "proxy" ELSE ClashRules(order)[i].to
<1> DEFINE S == {r \in rules : r.enabled}
           lines == ClashRules(order)
           I == {i \in 1 .. Len(order) : RuleMatches(order[i], target)}
           J == {i \in 1 .. Len(lines) : RuleMatches(lines[i], target)}
<1>1. order \in SetToSeqs(S)
    BY DEF RuleOrders, Sorted
<1>2. IsFiniteSet(S)
    BY RulesAssumption, FS_Subset
<1>3. order \in Seq(S)
    BY <1>1, <1>2, SetToSeqsLists DEF Lists
<1> HIDE DEF S
<1>4. Len(order) \in Nat /\ \A i \in 1 .. Len(order) : order[i] \in S
    BY <1>3
<1>5. /\ Len(lines) = Len(order)
      /\ \A i \in 1 .. Len(order) : lines[i] = ClashRule(order[i])
    BY <1>4 DEF ClashRules
<1> HIDE DEF lines
<1>6. \A i \in 1 .. Len(order) : RuleMatches(lines[i], target) <=> RuleMatches(order[i], target)
    BY <1>4, <1>5, LineMatches DEF S
<1>7. I = J
    BY <1>5, <1>6
<1> HIDE DEF I, J
<1>8. SelectInSeq(order, LAMBDA r : RuleMatches(r, target)) = IF I # {} THEN Min(I) ELSE 0
    BY Zenon DEF SelectInSeq, I
<1>9. SelectInSeq(lines, LAMBDA r : RuleMatches(r, target)) = IF J # {} THEN Min(J) ELSE 0
    BY Zenon DEF SelectInSeq, J
<1>10. PICK i : i = SelectInSeq(order, LAMBDA r : RuleMatches(r, target))
    OBVIOUS
<1>11. i = SelectInSeq(lines, LAMBDA r : RuleMatches(r, target))
    BY <1>7, <1>8, <1>9, <1>10
<1>12. i # 0 => i \in 1 .. Len(order)
  <2>1. I # {} => Min(I) \in I
    <3>1. I \in SUBSET Nat
        BY <1>4 DEF I
    <3> QED  BY <3>1, LeastOf DEF Min
  <2> QED  BY <1>8, <1>10, <2>1 DEF I
<1>13. i # 0 => lines[i].to = order[i].action
    BY <1>5, <1>12, ClashRuleFields
<1>14. ResolveAction(order, target) = IF i = 0 THEN "proxy" ELSE order[i].action
    BY <1>10, Zenon DEF ResolveAction
<1> QED  BY <1>11, <1>13, <1>14, Zenon DEF lines

-----------------------------------------------------------------------------
(***************************************************************************)
(* The proxies of a Clash document: the entries whose rows Clash knows, in *)
(* the order of the ranking; and its group.                                *)
(***************************************************************************)
Clashing(ranking) == {i \in 1 .. Len(ranking) : HasClash(ranking[i])}

ProxiesFrom(d, ranking, template, m, h) ==
    /\ Enumerates(h, m, Clashing(ranking))
    /\ d.group = Group(d.proxies)
    /\ d.proxies = [a \in 1 .. m |-> d.proxies[a]]
    /\ \A a \in 1 .. m :
          /\ d.proxies[a].id = ranking[h[a]].id
          /\ d.proxies[a].name = DisplayName(template, ranking[h[a]], h[a])

(* That is what a Clash document has. *)
LEMMA ClashDocumentIs ==
    ASSUME NEW S, NEW ranking \in Seq(S), NEW template, NEW strategy, NEW order,
           NEW d, d = ClashDocument(Entries(ranking, template), strategy, order)
    PROVE  /\ d.rules = ClashRules(order)
           /\ \E m \in Nat : \E h : ProxiesFrom(d, ranking, template, m, h)
<1> DEFINE entries == Entries(ranking, template)
           n == Len(ranking)
           I == {i \in DOMAIN entries : entries[i].clash}
           E == {entries[i] : i \in 1 .. n}
<1>1. n \in Nat
    OBVIOUS
<1>2. /\ Len(entries) = n /\ DOMAIN entries = 1 .. n
      /\ \A i \in 1 .. n :
            /\ entries[i].id = ranking[i].id
            /\ entries[i].name = DisplayName(template, ranking[i], i)
            /\ entries[i].clash = HasClash(ranking[i])
    BY EntriesOf
<1>3. entries = [i \in 1 .. n |-> entries[i]]
    BY DEF Entries
<1> HIDE DEF entries
<1>4. entries \in Seq(E)
  <2>1. entries \in [1 .. n -> E]
      BY <1>3
  <2> QED  BY <1>1, <2>1
<1>5. I = Clashing(ranking)
    BY <1>2 DEF Clashing
<1>6. I \in SUBSET (1 .. Len(entries))
    BY <1>2
<1> HIDE DEF I, E
<1>m. PICK m \in Nat :
             \E h : Enumerates(h, m, I) /\ Picked(entries, I) = [a \in 1 .. m |-> entries[h[a]]]
    BY <1>4, <1>6, PickedIs
<1>7. PICK h : Enumerates(h, m, I) /\ Picked(entries, I) = [a \in 1 .. m |-> entries[h[a]]]
    BY <1>m
<1>8. d = [proxies |-> Picked(entries, I), group |-> Group(Picked(entries, I)),
           type |-> GroupType(strategy), rules |-> ClashRules(order)]
    BY DEF ClashDocument, entries, I
<1>9. /\ d.proxies = [a \in 1 .. m |-> entries[h[a]]] /\ d.group = Group(d.proxies)
      /\ d.rules = ClashRules(order)
    BY <1>7, <1>8
<1>10. d.proxies = [a \in 1 .. m |-> d.proxies[a]]
    BY <1>9
<1>11. \A a \in 1 .. m : h[a] \in 1 .. n /\ d.proxies[a] = entries[h[a]]
    BY <1>2, <1>6, <1>7, <1>9 DEF Enumerates
<1>12. \A a \in 1 .. m :
          /\ d.proxies[a].id = ranking[h[a]].id
          /\ d.proxies[a].name = DisplayName(template, ranking[h[a]], h[a])
    BY <1>2, <1>11
<1>13. ProxiesFrom(d, ranking, template, m, h)
    BY <1>5, <1>7, <1>9, <1>10, <1>12 DEF ProxiesFrom
<1> QED  BY <1>9, <1>13

(***************************************************************************)
(* The group names the proxies, or DIRECT when there are none.             *)
(***************************************************************************)
LEMMA GroupOfProxies ==
    ASSUME NEW proxies, NEW m \in Nat, proxies = [a \in 1 .. m |-> proxies[a]]
    PROVE  /\ m = 0 => Group(proxies) = <<Direct>>
           /\ m > 0 => Group(proxies) = [a \in 1 .. m |-> proxies[a].name]
<1>1. Len(proxies) = m
    OBVIOUS
<1>2. m = 0 => proxies = << >>
    OBVIOUS
<1>3. m > 0 => proxies # << >>
    OBVIOUS
<1> QED  BY <1>1, <1>2, <1>3 DEF Group

(* The rows a document is made from, asked for twice over. *)
LEMMA ServedTwice ==
    ASSUME NEW table, IsFiniteSet(table)
    PROVE  LET rows == ServedRows(table, {}) IN
           /\ IsFiniteSet(rows) /\ rows \subseteq table
           /\ ServedRows(rows, {}) = rows
<1>1. \A S : ServedRows(S, {}) = {row \in S : row.enabled}
    BY DEF ServedRows
<1>2. IsFiniteSet({row \in table : row.enabled})
    BY FS_Subset
<1> QED  BY <1>1, <1>2

(***************************************************************************)
(* A Clash document of the rows a subscriber is served: the ranking it is  *)
(* made from, and which of the ranking its proxies are.                    *)
(***************************************************************************)
MadeFrom(d, rows, template, order, ranking, m, h) ==
    /\ Lists(ranking, {c \in rows : Usable(c)})
    /\ d.rules = ClashRules(order)
    /\ ProxiesFrom(d, ranking, template, m, h)

(* Every Clash document is made so. *)
LEMMA ServedDocument ==
    ASSUME NEW table, IsFiniteSet(table), NEW strategy, NEW template, NEW order,
           NEW rows, rows = ServedRows(table, {}),
           NEW d \in ClashDocuments(rows, {}, strategy, template, order)
    PROVE  \E ranking \in Rankings(rows, strategy), m \in Nat : \E h :
              MadeFrom(d, rows, template, order, ranking, m, h)
<1>1. IsFiniteSet(rows) /\ ServedRows(rows, {}) = rows
    BY ServedTwice
<1>2. PICK entries \in Base64Documents(rows, {}, strategy, template) :
             d = ClashDocument(entries, strategy, order)
    BY DEF ClashDocuments
<1>3. PICK ranking \in Rankings(rows, strategy) : entries = Entries(ranking, template)
    BY <1>1, <1>2 DEF Base64Documents
<1>4. Lists(ranking, {c \in rows : Usable(c)})
    BY <1>1, RankingLists
<1>5. ranking \in Seq({c \in rows : Usable(c)}) /\ d = ClashDocument(Entries(ranking, template), strategy, order)
    BY <1>2, <1>3, <1>4 DEF Lists
<1>6. /\ d.rules = ClashRules(order)
      /\ \E m \in Nat : \E h : ProxiesFrom(d, ranking, template, m, h)
    BY <1>5, ClashDocumentIs
<1> QED  BY <1>4, <1>6 DEF MadeFrom

(* A document that Clash clients can connect by has no group of its own. *)
LEMMA DirectWithout ==
    ASSUME NEW S, NEW ranking \in Seq(S), NEW d, NEW m \in Nat, NEW h,
           ProxiesFrom(d, ranking, Plain, m, h), d.group = <<Direct>>
    PROVE  Clashing(ranking) = {}
<1>1. Direct # DisplayName(Plain, ranking[h[1]], h[1])
  <2>1. DOMAIN Direct = {"direct"}
      BY DEF Direct
  <2>2. DOMAIN DisplayName(Plain, ranking[h[1]], h[1]) = {}
      BY DEF DisplayName, Plain
  <2> QED  BY <2>1, <2>2
<1>2. m = 0
  <2> SUFFICES ASSUME m # 0 PROVE FALSE
      OBVIOUS
  <2>1. d.group = [a \in 1 .. m |-> d.proxies[a].name]
      BY GroupOfProxies DEF ProxiesFrom
  <2>2. d.group[1] = DisplayName(Plain, ranking[h[1]], h[1])
      BY <2>1 DEF ProxiesFrom
  <2>3. d.group[1] = Direct
      OBVIOUS
  <2> QED  BY <1>1, <2>2, <2>3
<1> QED  BY <1>2 DEF ProxiesFrom, Enumerates

(* DecidedAsRuled is a consequence of the invariant. *)
LEMMA DecidedOfInv == DInv => DecidedAsRuled
<1> SUFFICES ASSUME DInv, NEW rules \in RuleSets, NEW order \in RuleOrders(rules), NEW fleet \in Fleets,
                    NEW rows, rows = ServedRows(Rows(fleet), {}),
                    NEW d \in ClashDocuments(rows, {}, "latency", Plain, order), NEW target \in Targets,
                    NEW ruled, ruled = ResolveAction(order, target)
             PROVE  \/ ClientAction(d, target) = ruled
                    \/ /\ ruled = "proxy" /\ ClientAction(d, target) = "direct"
                       /\ \A row \in rows : HasClash(row) => ~Usable(row)
    BY DEF DecidedAsRuled
<1>1. IsFiniteSet(Rows(fleet))
  <2>1. nodes \in [Nodes -> Row]
      BY TypeIff DEF DInv, IInv
  <2> QED  BY <2>1, RowsOfFleet
<1>m. PICK ranking \in Rankings(rows, "latency"), m \in Nat :
             \E h : MadeFrom(d, rows, Plain, order, ranking, m, h)
    BY <1>1, ServedDocument
<1>2. PICK h : MadeFrom(d, rows, Plain, order, ranking, m, h)
    BY <1>m
<1>3. PICK i : i = SelectInSeq(ClashRules(order), LAMBDA r : RuleMatches(r, target))
    OBVIOUS
<1>4. ruled = IF i = 0 THEN "proxy" ELSE d.rules[i].to
    BY <1>2, <1>3, SameFirstMatch DEF MadeFrom
<1>5. ClientAction(d, target) = IF ruled = "proxy" /\ d.group = <<Direct>> THEN "direct" ELSE ruled
    BY <1>2, <1>3, <1>4, Zenon DEF ClientAction, MadeFrom
<1>6. CASE ruled = "proxy" /\ d.group = <<Direct>>
  <2>1. Clashing(ranking) = {}
      BY <1>2, <1>6, DirectWithout DEF MadeFrom, Lists
  <2>2. \A row \in rows : HasClash(row) => ~Usable(row)
      BY <1>2, <2>1 DEF MadeFrom, Lists, Clashing
  <2> QED  BY <1>5, <1>6, <2>2
<1>7. CASE ~(ruled = "proxy" /\ d.group = <<Direct>>)
    BY <1>5, <1>7
<1> QED  BY <1>6, <1>7

(***************************************************************************)
(* A client that has the document decides as the panel's rules do, but for *)
(* going out directly when it has no proxy (routing.ts, subformats.ts).    *)
(***************************************************************************)
THEOREM ClientsFollowRules == DSpec => []DecidedAsRuled
    BY DecidedOfInv, DeliveryInvariance, PTL

-----------------------------------------------------------------------------
(***************************************************************************)
(* Lexicographic order is total on sequences of the same length.           *)
(***************************************************************************)
LEMMA LexicographicTotal ==
    ASSUME NEW s \in Seq(Int), NEW t \in Seq(Int), Len(s) = Len(t),
           ~Lexicographic(s, t), ~Lexicographic(t, s)
    PROVE  \A i \in 1 .. Len(s) : s[i] = t[i]
<1> DEFINE T == {i \in 1 .. Len(s) : s[i] # t[i]}
<1> SUFFICES ASSUME T # {} PROVE FALSE
    OBVIOUS
<1>1. T # {} /\ T \in SUBSET Nat
    OBVIOUS
<1> HIDE DEF T
<1>2. PICK i \in T : \A j \in T : i <= j
    BY <1>1, LeastOf
<1>3. i \in 1 .. Len(s) /\ s[i] # t[i] /\ s[i] \in Int /\ t[i] \in Int
    BY <1>2 DEF T
<1>4. \A j \in 1 .. i - 1 : s[j] = t[j]
  <2> SUFFICES ASSUME NEW j \in 1 .. i - 1 PROVE s[j] = t[j]
      OBVIOUS
  <2>1. j \in 1 .. Len(s) /\ ~(i <= j)
      BY <1>3
  <2> QED  BY <1>2, <2>1 DEF T
<1>5. s[i] < t[i] \/ t[i] < s[i]
    BY <1>3
<1> QED  BY <1>3, <1>4, <1>5 DEF Lexicographic

(* Every health has a rank. *)
LEMMA RankType == \A h \in Health : HealthRank[h] \in Int
    BY DEF Health, Result, HealthRank

(***************************************************************************)
(* What rankCandidates compares for the two strategies whose group is a    *)
(* fallback: five numbers, the last of them the primary key.               *)
(***************************************************************************)
LEMMA KeysOf ==
    ASSUME NEW c \in NodeColumns, NEW strategy \in {"health", "priority"}
    PROVE  Keys(c, strategy) \in Seq(Int) /\ Len(Keys(c, strategy)) = 5 /\ Keys(c, strategy)[5] = c.id
<1> DEFINE r == HealthRank[c.health]
           l == Latency(c)
<1>1. /\ r \in Int /\ l \in Int /\ c.priority \in Int /\ c.weight \in Int /\ -c.weight \in Int
      /\ c.id \in Int
    BY RankType, WidthsAssumption DEF NodeColumns, Latency, Unmeasured
<1> HIDE DEF r, l
<1> DEFINE last == <<r, l, c.id>>
<1>2. last \in Seq(Int) /\ Len(last) = 3 /\ last[3] = c.id
    BY <1>1
<1> HIDE DEF last
<1>3. ASSUME NEW x \in Seq(Int), NEW y \in Seq(Int)
      PROVE  /\ x \o y \in Seq(Int) /\ Len(x \o y) = Len(x) + Len(y)
             /\ \A k \in 1 .. Len(y) : (x \o y)[Len(x) + k] = y[k]
    OBVIOUS
<1>4. ASSUME NEW x \in Seq(Int), Len(x) = 2, Keys(c, strategy) = x \o last
      PROVE  Keys(c, strategy) \in Seq(Int) /\ Len(Keys(c, strategy)) = 5 /\ Keys(c, strategy)[5] = c.id
  <2>1. 3 \in 1 .. Len(last) /\ Len(x) + 3 = 5
      BY <1>2, <1>4
  <2>2. PICK k : k = x \o last
      OBVIOUS
  <2>3. k \in Seq(Int) /\ Len(k) = Len(x) + Len(last) /\ k[Len(x) + 3] = last[3]
      BY <1>2, <1>3, <2>1, <2>2
  <2>4. k \in Seq(Int) /\ Len(k) = 5 /\ k[5] = c.id
      BY <1>2, <1>4, <2>1, <2>3
  <2> QED  BY <1>4, <2>2, <2>4
<1>5. CASE strategy = "health"
  <2> DEFINE x == <<r>> \o <<c.priority>> \o << >>
  <2>1. Keys(c, strategy) = x \o last
      BY <1>5 DEF Keys, r, l, last
  <2>2. <<r>> \in Seq(Int) /\ <<c.priority>> \in Seq(Int) /\ << >> \in Seq(Int)
        /\ Len(<<r>>) = 1 /\ Len(<<c.priority>>) = 1 /\ Len(<< >>) = 0
      BY <1>1
  <2>3. x \in Seq(Int) /\ Len(x) = 2
      BY <1>3, <2>2
  <2> QED  BY <1>4, <2>1, <2>3
<1>6. CASE strategy = "priority"
  <2> DEFINE x == << >> \o <<c.priority>> \o <<-c.weight>>
  <2>1. Keys(c, strategy) = x \o last
      BY <1>6 DEF Keys, r, l, last
  <2>2. <<-c.weight>> \in Seq(Int) /\ <<c.priority>> \in Seq(Int) /\ << >> \in Seq(Int)
        /\ Len(<<-c.weight>>) = 1 /\ Len(<<c.priority>>) = 1 /\ Len(<< >>) = 0
      BY <1>1
  <2>3. x \in Seq(Int) /\ Len(x) = 2
      BY <1>3, <2>2
  <2> QED  BY <1>4, <2>1, <2>3
<1> QED  BY <1>5, <1>6

(* Of two rows with different keys, one comes before the other. *)
LEMMA BeforeTotal ==
    ASSUME NEW a \in NodeColumns, NEW b \in NodeColumns, NEW strategy \in {"health", "priority"},
           ~Before(a, b, strategy), ~Before(b, a, strategy)
    PROVE  a.id = b.id
<1> DEFINE s == Keys(a, strategy)
           t == Keys(b, strategy)
<1>1. /\ s \in Seq(Int) /\ Len(s) = 5 /\ s[5] = a.id
      /\ t \in Seq(Int) /\ Len(t) = 5 /\ t[5] = b.id
    BY KeysOf
<1>2. ~Lexicographic(s, t) /\ ~Lexicographic(t, s)
    BY DEF Before
<1> HIDE DEF s, t
<1>3. s[5] = t[5]
    BY <1>1, <1>2, LexicographicTotal
<1> QED  BY <1>1, <1>3

-----------------------------------------------------------------------------
(***************************************************************************)
(* Names under a template that tells the nodes apart, whatever the         *)
(* positions of the nodes in the document.                                 *)
(***************************************************************************)
LEMMA NamesApart ==
    ASSUME NEW template \in Templates, NEW rows, ToldApart(template, rows),
           NEW a \in rows, NEW b \in rows, a # b,
           NEW i \in Nat \ {0}, NEW j \in Nat \ {0}, i # j
    PROVE  DisplayName(template, a, i) # DisplayName(template, b, j)
<1> DEFINE shown(row, k) == [v \in template.shows |->
                               CASE v = "NAME" -> row.name
                                 [] v = "COUNTRY" -> row.country
                                 [] v = "INDEX" -> k]
<1>1. \A row, k : DisplayName(template, row, k) =
             IF template.text \/ \E v \in template.shows : shown(row, k)[v] # Blank THEN shown(row, k)
             ELSE [v \in {"NAME"} |-> row.name]
    BY DEF DisplayName
<1>2. CASE "INDEX" \in template.shows
  <2>1. \A row, k : shown(row, k)["INDEX"] = k
      BY <1>2
  <2> HIDE DEF shown
  <2>2. DisplayName(template, a, i) = shown(a, i) /\ DisplayName(template, b, j) = shown(b, j)
      BY <1>1, <1>2, <2>1 DEF Blank
  <2> QED  BY <2>1, <2>2
<1>3. CASE "INDEX" \notin template.shows
  <2>1. \A row, k : shown(row, k) = shown(row, 0)
      BY <1>3, TemplatesAssumption
  <2> HIDE DEF shown
  <2>2. \A row, k : DisplayName(template, row, k) = DisplayName(template, row, 0)
      BY <1>1, <2>1
  <2> QED  BY <1>3, <2>2 DEF ToldApart
<1> QED  BY <1>2, <1>3

(***************************************************************************)
(* A sorted list leaves a sorted list behind when elements are taken out,  *)
(* so failover always has a ranking to start from.                         *)
(***************************************************************************)
LEMMA RankingOfRest ==
    ASSUME NEW S, IsFiniteSet(S), NEW strategy, NEW s, Lists(s, {c \in S : Usable(c)}),
           \A i, j \in 1 .. Len(s) : i < j => ~Before(s[j], s[i], strategy),
           NEW W \in SUBSET S
    PROVE  Rankings(W, strategy) # {}
<1> DEFINE U == {c \in W : Usable(c)}
           J == {i \in 1 .. Len(s) : s[i] \in W}
<1>1. s \in Seq({c \in S : Usable(c)}) /\ J \in SUBSET (1 .. Len(s))
    BY DEF Lists
<1>k. PICK k \in Nat : \E g : Enumerates(g, k, J)
    BY <1>1, PickedIs
<1>2. PICK g : Enumerates(g, k, J)
    BY <1>k
<1> DEFINE t == [a \in 1 .. k |-> s[g[a]]]
<1>3. \A a \in 1 .. k : g[a] \in J /\ g[a] \in 1 .. Len(s) /\ s[g[a]] \in U
    BY <1>1, <1>2 DEF Enumerates
<1>4. \A a, b \in 1 .. k : a # b => t[a] # t[b]
  <2> SUFFICES ASSUME NEW a \in 1 .. k, NEW b \in 1 .. k, a # b PROVE t[a] # t[b]
      OBVIOUS
  <2>1. a < b \/ b < a
      OBVIOUS
  <2>2. g[a] # g[b]
      BY <1>2, <1>3, <2>1 DEF Enumerates
  <2> QED  BY <1>3, <2>2 DEF Lists
<1>5. \A x \in U : \E a \in 1 .. k : t[a] = x
  <2> SUFFICES ASSUME NEW x \in U PROVE \E a \in 1 .. k : t[a] = x
      OBVIOUS
  <2>1. PICK i \in 1 .. Len(s) : s[i] = x
      BY DEF Lists
  <2>2. i \in J
      BY <2>1
  <2>3. PICK a \in 1 .. k : g[a] = i
      BY <1>2, <2>2 DEF Enumerates
  <2>4. t[a] = s[g[a]]
      OBVIOUS
  <2>5. t[a] = x
      BY <2>1, <2>3, <2>4
  <2> HIDE DEF t
  <2> QED  BY <2>5
<1>6. t \in [1 .. k -> U]
    BY <1>3
<1>7. \A a, b \in 1 .. k : a < b => ~Before(t[b], t[a], strategy)
    BY <1>2, <1>3 DEF Enumerates
<1>8. Len(t) = k
    BY <1>2
<1> HIDE DEF t, U
<1>9. Cardinality(U) = k
  <2>1. IsFiniteSet(1 .. k) /\ Cardinality(1 .. k) = k
      BY <1>2, FS_Interval
  <2>2. t \in Bijection(1 .. k, U)
      BY <1>4, <1>5, <1>6 DEF Bijection, Injection, IsInjective, Surjection
  <2> QED  BY <2>1, <2>2, FS_Bijection DEF ExistsBijection
<1>10. t \in SetToSeqs(U)
    BY <1>4, <1>6, <1>9 DEF SetToSeqs
<1>11. t \in Rankings(W, strategy)
    BY <1>7, <1>8, <1>10 DEF Rankings, Sorted, U
<1> QED  BY <1>11

(***************************************************************************)
(* The candidates of W that are left once some have failed, and the one    *)
(* that no other of them comes before, or 0 when nobody is left.           *)
(***************************************************************************)
Left(W, failed) == {c \in W : c.id \notin failed}

BestLeft(W, strategy, failed, result) ==
    \/ result = 0 /\ \A c \in W : Usable(c) => c.id \in failed
    \/ \E x \in W : /\ Usable(x) /\ x.id \notin failed /\ result = x.id
                    /\ \A y \in W : Usable(y) /\ y.id \notin failed /\ y # x =>
                          ~Before(y, x, strategy)

(***************************************************************************)
(* failover names that one, if it has a ranking to take it from.           *)
(***************************************************************************)
LEMMA FailoversAre ==
    ASSUME NEW W \in SUBSET NodeColumns, IsFiniteSet(W), \A a, b \in W : a.id = b.id => a = b,
           NEW strategy \in {"health", "priority"}, NEW failed, NEW result,
           Rankings(Left(W, failed), strategy) # {},
           BestLeft(W, strategy, failed, result)
    PROVE  Failovers(W, strategy, failed) = {result}
<1> DEFINE left == Left(W, failed)
           U == {c \in W : Usable(c) /\ c.id \notin failed}
           First(s) == IF s = << >> THEN 0 ELSE s[1].id
<1>1. IsFiniteSet(left) /\ left = {c \in W : c.id \notin failed}
    BY FS_Subset DEF Left
<1>2. ASSUME NEW s \in Rankings(left, strategy) PROVE First(s) = result
  <2>9. U = {c \in left : Usable(c)}
      BY DEF Left
  <2>1. Lists(s, U) /\ \A i, j \in 1 .. Len(s) : i < j => ~Before(s[j], s[i], strategy)
      BY <1>1, <1>2, <2>9, RankingLists
  <2>2. s \in Seq(U)
      BY <2>1 DEF Lists
  <2>3. CASE U = {}
    <3>1. s = << >>
        BY <2>2, <2>3
    <3>2. result = 0
        BY <2>3 DEF BestLeft
    <3> QED  BY <3>1, <3>2
  <2>4. CASE U # {}
    <3>1. PICK x \in U : result = x.id /\ \A y \in U : y # x => ~Before(y, x, strategy)
        BY <2>4 DEF BestLeft
    <3>2. PICK j \in 1 .. Len(s) : s[j] = x
        BY <2>1 DEF Lists
    <3>3. 1 \in 1 .. Len(s) /\ s # << >> /\ s[1] \in U
        BY <2>2, <3>2
    <3>4. s[1] = x
      <4> SUFFICES ASSUME s[1] # x PROVE FALSE
          OBVIOUS
      <4>1. ~Before(s[1], x, strategy)
          BY <3>1, <3>3
      <4>2. ~Before(x, s[1], strategy)
          BY <2>1, <3>2, <3>3
      <4>3. s[1] \in NodeColumns /\ x \in NodeColumns /\ s[1] \in W /\ x \in W
          BY <3>3
      <4>4. s[1].id = x.id
          BY <4>1, <4>2, <4>3, BeforeTotal
      <4> QED  BY <4>3, <4>4
    <3> QED  BY <3>1, <3>3, <3>4
  <2> QED  BY <2>3, <2>4
<1>3. Failovers(W, strategy, failed) = {First(s) : s \in Rankings(left, strategy)}
    BY DEF Failovers, Left
<1>4. PICK t : t \in Rankings(left, strategy)
    OBVIOUS
<1> HIDE DEF left, First
<1> QED  BY <1>2, <1>3, <1>4

(***************************************************************************)
(* A client of a fallback group of names that differ goes to the first     *)
(* proxy that has not failed.                                              *)
(***************************************************************************)
LEMMA ClientTries ==
    ASSUME NEW d, NEW m \in Nat, d.proxies = [a \in 1 .. m |-> d.proxies[a]],
           d.group = Group(d.proxies),
           \A a, b \in 1 .. m : a # b => d.proxies[a].name # d.proxies[b].name,
           NEW failed
    PROVE  \/ /\ ClientNext(d, failed) = {0}
              /\ \A a \in 1 .. m : d.proxies[a].id \in failed
           \/ \E a \in 1 .. m :
                /\ ClientNext(d, failed) = {d.proxies[a].id}
                /\ d.proxies[a].id \notin failed
                /\ \A b \in 1 .. a - 1 : d.proxies[b].id \in failed
<1> DEFINE I == {a \in 1 .. Len(d.group) : ProxiesNamed(d, d.group[a]) \ failed # {}}
<1>1. Range(d.proxies) = {d.proxies[a] : a \in 1 .. m}
    BY DEF Range
<1>2. ClientNext(d, failed) =
         IF I # {} THEN ProxiesNamed(d, d.group[Min(I)]) \ failed ELSE {0}
  <2>1. SelectInSeq(d.group, LAMBDA name : ProxiesNamed(d, name) \ failed # {}) =
           IF I # {} THEN Min(I) ELSE 0
      BY Zenon DEF SelectInSeq
  <2>2. I # {} => Min(I) # 0
    <3> SUFFICES ASSUME I # {} PROVE Min(I) # 0
        OBVIOUS
    <3>1. I \in SUBSET Nat /\ 0 \notin I
        OBVIOUS
    <3> HIDE DEF I
    <3>2. \E x \in I : \A y \in I : x <= y
        BY <3>1, LeastOf
    <3>3. Min(I) \in I
        BY <3>2 DEF Min
    <3> QED  BY <3>1, <3>3
  <2> HIDE DEF I
  <2> QED  BY <2>1, <2>2, Zenon DEF ClientNext
<1>3. CASE m = 0
  <2>1. ProxiesNamed(d, Direct) = {}
      BY <1>1, <1>3 DEF ProxiesNamed
  <2>2. d.group = <<Direct>>
      BY <1>3, GroupOfProxies
  <2>3. I = {}
      BY <2>1, <2>2
  <2> QED  BY <1>2, <1>3, <2>3
<1>4. CASE m # 0
  <2>1. d.group = [a \in 1 .. m |-> d.proxies[a].name] /\ Len(d.group) = m
      BY <1>4, GroupOfProxies
  <2>2. \A a \in 1 .. m : ProxiesNamed(d, d.group[a]) = {d.proxies[a].id}
    <3> SUFFICES ASSUME NEW a \in 1 .. m PROVE ProxiesNamed(d, d.group[a]) = {d.proxies[a].id}
        OBVIOUS
    <3>1. {q \in Range(d.proxies) : q.name = d.group[a]} = {d.proxies[a]}
        BY <1>1, <2>1
    <3> QED  BY <3>1 DEF ProxiesNamed
  <2>3. I = {a \in 1 .. m : d.proxies[a].id \notin failed}
    <3>1. \A x : {x} \ failed # {} <=> x \notin failed
        OBVIOUS
    <3>2. I = {a \in 1 .. m : ProxiesNamed(d, d.group[a]) \ failed # {}}
        BY <2>1
    <3>3. \A a \in 1 .. m : ProxiesNamed(d, d.group[a]) \ failed # {} <=> d.proxies[a].id \notin failed
        BY <2>2, <3>1
    <3> HIDE DEF I
    <3> QED  BY <3>2, <3>3
  <2> HIDE DEF I
  <2>4. CASE I = {}
      BY <1>2, <2>3, <2>4
  <2>5. CASE I # {}
    <3>1. I \in SUBSET Nat
        BY <2>3
    <3>2. \E x \in I : \A y \in I : x <= y
        BY <2>5, <3>1, LeastOf
    <3>3. PICK a : a = Min(I)
        OBVIOUS
    <3>4. a \in I /\ \A y \in I : a <= y
        BY <3>2, <3>3 DEF Min
    <3>5. a \in 1 .. m /\ d.proxies[a].id \notin failed
        BY <2>3, <3>4
    <3>6. ClientNext(d, failed) = {d.proxies[a].id}
        BY <1>2, <2>2, <2>5, <3>3, <3>5
    <3>7. \A b \in 1 .. a - 1 : d.proxies[b].id \in failed
      <4> SUFFICES ASSUME NEW b \in 1 .. a - 1 PROVE d.proxies[b].id \in failed
          OBVIOUS
      <4>1. b \in 1 .. m /\ ~(a <= b)
          BY <3>5
      <4> QED  BY <2>3, <3>4, <4>1
    <3> QED  BY <3>5, <3>6, <3>7
  <2> QED  BY <2>4, <2>5
<1> QED  BY <1>3, <1>4

(* FailoverFollows is a consequence of the invariant. *)
LEMMA FailoverOfInv == DInv => FailoverFollows
<1>0. SUFFICES ASSUME DInv, NEW fleet \in Fleets, NEW strategy \in {"health", "priority"},
                      NEW rows, rows = ServedRows(Rows(fleet), {}),
                      NEW known, known = {row \in rows : HasClash(row)},
                      NEW template \in Templates, ToldApart(template, known),
                      NEW d \in ClashDocuments(rows, {}, strategy, template, << >>),
                      NEW failed \in SUBSET {row.id : row \in known}
               PROVE  ClientNext(d, failed) = Failovers(known, strategy, failed)
    BY DEF FailoverFollows
<1>1. /\ IsFiniteSet(rows) /\ rows \subseteq NodeColumns
      /\ \A a, b \in rows : a.id = b.id => a = b
  <2>1. nodes \in [Nodes -> Row]
      BY <1>0, TypeIff DEF DInv, IInv
  <2>2. IsFiniteSet(Rows(fleet)) /\ Rows(fleet) \subseteq NodeColumns
        /\ \A a, b \in Rows(fleet) : a.id = b.id => a = b
      BY <2>1, RowsOfFleet
  <2> QED  BY <1>0, <2>2, ServedTwice
<1>2. IsFiniteSet(Rows(fleet))
  <2>1. nodes \in [Nodes -> Row]
      BY <1>0, TypeIff DEF DInv, IInv
  <2> QED  BY <2>1, RowsOfFleet
<1>m. PICK ranking \in Rankings(rows, strategy), m \in Nat :
             \E h : MadeFrom(d, rows, template, << >>, ranking, m, h)
    BY <1>0, <1>2, ServedDocument
<1>3. PICK h : MadeFrom(d, rows, template, << >>, ranking, m, h)
    BY <1>m
<1>4. /\ Lists(ranking, {c \in rows : Usable(c)})
      /\ \A i, j \in 1 .. Len(ranking) : i < j => ~Before(ranking[j], ranking[i], strategy)
    BY <1>1, RankingLists
<1>5. ProxiesFrom(d, ranking, template, m, h)
    BY <1>3 DEF MadeFrom
<1>6. /\ \A a \in 1 .. m : h[a] \in 1 .. Len(ranking) /\ HasClash(ranking[h[a]])
      /\ \A a, b \in 1 .. m : a < b => h[a] < h[b]
      /\ \A i \in 1 .. Len(ranking) : HasClash(ranking[i]) => \E a \in 1 .. m : h[a] = i
    BY <1>5 DEF ProxiesFrom, Enumerates, Clashing
<1>7. ranking \in Seq({c \in rows : Usable(c)})
    BY <1>4 DEF Lists
<1>8. \A a \in 1 .. m : ranking[h[a]] \in known /\ Usable(ranking[h[a]])
    BY <1>0, <1>6, <1>7
<1>9. /\ d.group = Group(d.proxies)
      /\ d.proxies = [a \in 1 .. m |-> d.proxies[a]]
      /\ \A a \in 1 .. m :
            /\ d.proxies[a].id = ranking[h[a]].id
            /\ d.proxies[a].name = DisplayName(template, ranking[h[a]], h[a])
    BY <1>5 DEF ProxiesFrom
<1>10. \A a, b \in 1 .. m : a # b => d.proxies[a].name # d.proxies[b].name
  <2> SUFFICES ASSUME NEW a \in 1 .. m, NEW b \in 1 .. m, a # b
               PROVE  d.proxies[a].name # d.proxies[b].name
      OBVIOUS
  <2>1. h[a] \in Nat \ {0} /\ h[b] \in Nat \ {0} /\ h[a] # h[b]
    <3>1. a < b \/ b < a
        OBVIOUS
    <3> QED  BY <1>6, <3>1
  <2>2. ranking[h[a]] # ranking[h[b]]
      BY <1>4, <1>6, <2>1 DEF Lists
  <2>3. ASSUME NEW x \in known, NEW y \in known, x # y,
               NEW i \in Nat \ {0}, NEW j \in Nat \ {0}, i # j
        PROVE  DisplayName(template, x, i) # DisplayName(template, y, j)
      BY <1>0, <2>3, NamesApart
  <2> QED  BY <1>8, <1>9, <2>1, <2>2, <2>3
<1>11. \A y \in known : Usable(y) => \E a \in 1 .. m : y = ranking[h[a]]
  <2> SUFFICES ASSUME NEW y \in known, Usable(y) PROVE \E a \in 1 .. m : y = ranking[h[a]]
      OBVIOUS
  <2>1. y \in rows /\ HasClash(y)
      BY <1>0
  <2>2. PICK i \in 1 .. Len(ranking) : ranking[i] = y
      BY <1>4, <2>1 DEF Lists
  <2>3. PICK a \in 1 .. m : h[a] = i
      BY <1>6, <2>1, <2>2
  <2> QED  BY <2>2, <2>3
<1>12. Rankings(Left(known, failed), strategy) # {}
  <2>1. Left(known, failed) \in SUBSET rows
      BY <1>0 DEF Left
  <2> QED  BY <1>1, <1>4, <2>1, RankingOfRest
<1>13. IsFiniteSet(known) /\ known \in SUBSET NodeColumns /\ \A a, b \in known : a.id = b.id => a = b
    BY <1>0, <1>1, FS_Subset
<1>14. \/ /\ ClientNext(d, failed) = {0}
          /\ \A a \in 1 .. m : d.proxies[a].id \in failed
       \/ \E a \in 1 .. m :
            /\ ClientNext(d, failed) = {d.proxies[a].id}
            /\ d.proxies[a].id \notin failed
            /\ \A b \in 1 .. a - 1 : d.proxies[b].id \in failed
    BY <1>9, <1>10, ClientTries
<1>15. CASE ClientNext(d, failed) = {0} /\ \A a \in 1 .. m : d.proxies[a].id \in failed
  <2>1. BestLeft(known, strategy, failed, 0)
      BY <1>9, <1>11, <1>15 DEF BestLeft
  <2>2. Failovers(known, strategy, failed) = {0}
      BY <1>12, <1>13, <2>1, FailoversAre
  <2> QED  BY <1>15, <2>2
<1>16. ASSUME NEW a \in 1 .. m, ClientNext(d, failed) = {d.proxies[a].id},
              d.proxies[a].id \notin failed, \A b \in 1 .. a - 1 : d.proxies[b].id \in failed
       PROVE  ClientNext(d, failed) = Failovers(known, strategy, failed)
  <2> DEFINE x == ranking[h[a]]
  <2>1. x \in known /\ Usable(x) /\ x.id = d.proxies[a].id /\ x.id \notin failed
      BY <1>8, <1>9, <1>16
  <2>2. ASSUME NEW y \in known, Usable(y), y.id \notin failed, y # x PROVE ~Before(y, x, strategy)
    <3>1. PICK b \in 1 .. m : y = ranking[h[b]]
        BY <1>11, <2>2
    <3>2. b \notin 1 .. a - 1
        BY <1>9, <1>16, <2>2, <3>1
    <3>3. b # a
        BY <2>2, <3>1
    <3>4. a < b
        BY <3>2, <3>3
    <3> QED  BY <1>4, <1>6, <3>1, <3>4
  <2> HIDE DEF x
  <2>3. BestLeft(known, strategy, failed, d.proxies[a].id)
      BY <2>1, <2>2 DEF BestLeft
  <2>4. Failovers(known, strategy, failed) = {d.proxies[a].id}
      BY <1>12, <1>13, <2>3, FailoversAre
  <2> QED  BY <1>16, <2>4
<1> QED  BY <1>14, <1>15, <1>16

(***************************************************************************)
(* Clients of a fallback group fail over as failover() of balancer.ts does *)
(* among the nodes Clash knows.                                            *)
(***************************************************************************)
THEOREM ClientsFailOver == DSpec => []FailoverFollows
    BY FailoverOfInv, DeliveryInvariance, PTL
=============================================================================
