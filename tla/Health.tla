-------------------------------- MODULE Health --------------------------------
(***************************************************************************)
(* Health checks of the proxy nodes: the nodes table in D1, the            *)
(* coordinator object that probes nodes on behalf of the five-minute cron  *)
(* and of the panel's "check" buttons, and the alerts sent when a node     *)
(* changes.                                                                *)
(*                                                                         *)
(* One action is what a handler does between two awaits.  A cycle reads    *)
(* the rows, asks the coordinator to probe them, writes all outcomes in    *)
(* one batch, and alerts by comparing them with the rows it had read.      *)
(* Only the "running" flag serialises cycles, and only inside the          *)
(* coordinator.                                                            *)
(***************************************************************************)
CONSTANTS
    Nodes,  \* node ids; newId never repeats one
    Reqs    \* cycles and edits in flight at the same time

VARIABLES
    nodes,    \* nodes[n]: the row
    running,  \* the coordinator's flag, in memory only
    req,      \* req[r]: program counter and locals of cycle or edit r
    told,     \* history: what n's last alert left the administrators believing
    raced     \* history: nodes whose row was overwritten by a writer that had
              \* read another health, or whose alert was lost or came too late

vars == <<nodes, running, req, told, raced>>

Result == {"healthy", "degraded", "unreachable"}
Health == Result \cup {"unknown", "disabled"}

NoRow == [state |-> "unused", enabled |-> FALSE, health |-> "unknown"]
Rest == [n \in Nodes |-> "unknown"]

Idle == [pc |-> "idle", targets |-> {}, read |-> Rest, seen |-> Rest, todo |-> {}]

Present(n) == nodes[n].state = "present"
Probing(r) == req[r].pc = "probing"

(* The alert for a node whose health was old when read, and is now new. *)
Alert(old, new) ==
    IF old = new THEN "none"
    ELSE IF new = "unreachable" THEN "down"
    ELSE IF old = "unreachable" THEN "recovered"
    ELSE IF new = "degraded" THEN "degraded" ELSE "none"

Init ==
    /\ nodes = [n \in Nodes |-> NoRow]
    /\ running = FALSE
    /\ req = [r \in Reqs |-> Idle]
    /\ told = [n \in Nodes |-> "up"]
    /\ raced = {}

-----------------------------------------------------------------------------
(* nodes.service.ts: createNode, updateNode and deleteNode.                *)

CreateNode(n, enabled) ==
    /\ nodes[n].state = "unused"
    /\ nodes' = [nodes EXCEPT ![n] = [state |-> "present", enabled |-> enabled,
                                      health |-> "unknown"]]
    /\ told' = [told EXCEPT ![n] = "up"]
    /\ UNCHANGED <<running, req, raced>>

ReadNode(r, n) ==
    /\ req[r].pc = "idle"
    /\ Present(n)
    /\ req' = [req EXCEPT ![r] = [Idle EXCEPT !.pc = "edit", !.targets = {n},
                                              !.read = [Rest EXCEPT ![n] = nodes[n].health]]]
    /\ UNCHANGED <<nodes, running, told, raced>>

(* The whole row is written back, health included.  Whoever switches a     *)
(* node off no longer waits for an alert about it.                         *)
WriteNode(r, n, enabled) ==
    /\ req[r].pc = "edit"
    /\ req[r].targets = {n}
    /\ IF Present(n)
       THEN /\ nodes' = [nodes EXCEPT ![n].enabled = enabled,
                                      ![n].health = IF enabled THEN req[r].read[n] ELSE "disabled"]
            /\ told' = IF enabled THEN told ELSE [told EXCEPT ![n] = "up"]
            /\ raced' = IF enabled /\ nodes[n].health # req[r].read[n]
                        THEN raced \cup {n} ELSE raced
       ELSE UNCHANGED <<nodes, told, raced>>
    /\ req' = [req EXCEPT ![r] = Idle]
    /\ UNCHANGED running

DeleteNode(n) ==
    /\ Present(n)
    /\ nodes' = [nodes EXCEPT ![n] = [NoRow EXCEPT !.state = "deleted"]]
    /\ told' = [told EXCEPT ![n] = "up"]
    /\ raced' = raced \ {n}
    /\ UNCHANGED <<running, req>>

-----------------------------------------------------------------------------
(* runHealthChecks up to the coordinator: the nodes asked for, whether or  *)
(* not they are enabled, or else all enabled ones.  No nodes, no cycle.    *)

Select(r, S) ==
    /\ req[r].pc = "idle"
    /\ S # {}
    /\ req' = [req EXCEPT ![r] = [Idle EXCEPT !.pc = "sent", !.targets = S,
                                              !.read = [n \in Nodes |-> IF n \in S THEN nodes[n].health
                                                                        ELSE "unknown"]]]
    /\ UNCHANGED <<nodes, running, told, raced>>

CheckNode(r, n) == Present(n) /\ Select(r, {n})
CheckAll(r) == Select(r, {n \in Nodes : Present(n) /\ nodes[n].enabled})

-----------------------------------------------------------------------------
(* HealthCoordinatorDO.fetch: the flag is tested before the body of the    *)
(* request is awaited, and set after.                                      *)

Enter(r) ==
    /\ req[r].pc = "sent"
    /\ req' = [req EXCEPT ![r] = IF running THEN Idle ELSE [@ EXCEPT !.pc = "parse"]]
    /\ UNCHANGED <<nodes, running, told, raced>>

(* The outcomes reach the cycle q. *)
Outcomes(q, outcomes) ==
    [q EXCEPT !.pc = "apply",
              !.seen = [n \in Nodes |-> IF n \in q.targets THEN outcomes[n] ELSE "unknown"]]

Begin(r) ==
    /\ req[r].pc = "parse"
    /\ running' = TRUE
    /\ req' = [req EXCEPT ![r] = [@ EXCEPT !.pc = "probing"]]
    /\ UNCHANGED <<nodes, told, raced>>

(* Mutant of Finish: the flag is reset on success, not in a finally. *)
FinishOnSuccess(r) ==
    /\ Probing(r)
    /\ \/ \E outcomes \in [req[r].targets -> Result] :
             /\ req' = [req EXCEPT ![r] = Outcomes(@, outcomes)]
             /\ running' = FALSE
       \/ req' = [req EXCEPT ![r] = Idle] /\ UNCHANGED running
    /\ UNCHANGED <<nodes, told, raced>>

(* runBatch's workers have had an answer, or the timeout, for every target *)
(* (nobody sees them earlier), and the summary is stored and answered.     *)
(* The cycle ends here when the store throws, or its caller is gone.       *)
Finish(r) ==
    /\ Probing(r)
    /\ running' = FALSE
    /\ \/ \E outcomes \in [req[r].targets -> Result] :
             req' = [req EXCEPT ![r] = Outcomes(@, outcomes)]
       \/ req' = [req EXCEPT ![r] = Idle]
    /\ UNCHANGED <<nodes, told, raced>>

(* The platform restarts the object: its requests fail, its memory is new. *)
Restart ==
    /\ req' = [r \in Reqs |-> IF req[r].pc \in {"parse", "probing"} THEN Idle ELSE req[r]]
    /\ running' = FALSE
    /\ UNCHANGED <<nodes, told, raced>>

-----------------------------------------------------------------------------
(* applyOutcomes: one batch, which fails as a whole, by the foreign key of *)
(* node_health_checks, when a target has been deleted meanwhile.           *)

Alerts(q) == {n \in q.targets : Alert(q.read[n], q.seen[n]) # "none"}

(* The alerts S are still to be sent; without any, the handler is done. *)
Alerting(q, S) ==
    IF S = {} THEN Idle
    ELSE [Idle EXCEPT !.pc = "notify", !.todo = S,
                      !.read = [n \in Nodes |-> IF n \in S THEN q.read[n] ELSE "unknown"],
                      !.seen = [n \in Nodes |-> IF n \in S THEN q.seen[n] ELSE "unknown"]]

Apply(r) ==
    LET q == req[r] IN
    /\ q.pc = "apply"
    /\ IF \A n \in q.targets : Present(n)
       THEN /\ nodes' = [n \in Nodes |->
                           IF n \in q.targets THEN [nodes[n] EXCEPT !.health = q.seen[n]] ELSE nodes[n]]
            /\ raced' = raced \cup {n \in q.targets : nodes[n].health # q.read[n]}
            /\ req' = [req EXCEPT ![r] = Alerting(q, Alerts(q))]
       ELSE /\ req' = [req EXCEPT ![r] = Idle]
            /\ UNCHANGED <<nodes, raced>>
    /\ UNCHANGED <<running, told>>

(* Mutant of Notify: no recovery is announced. *)
NotifyDownOnly(r, n) ==
    LET q == req[r]
        alert == Alert(q.read[n], q.seen[n]) IN
    /\ q.pc = "notify"
    /\ n \in q.todo
    /\ told' = [told EXCEPT ![n] = IF alert = "down" THEN "down" ELSE @]
    /\ raced' = IF nodes[n].health = q.seen[n] THEN raced ELSE raced \cup {n}
    /\ req' = [req EXCEPT ![r] = Alerting(q, q.todo \ {n})]
    /\ UNCHANGED <<nodes, running>>

(* notify(): a failed INSERT is swallowed. *)
Notify(r, n) ==
    LET q == req[r]
        alert == Alert(q.read[n], q.seen[n]) IN
    /\ q.pc = "notify"
    /\ n \in q.todo
    /\ \/ /\ told' = [told EXCEPT ![n] = IF alert = "down" THEN "down" ELSE "up"]
          /\ raced' = IF nodes[n].health = q.seen[n] THEN raced ELSE raced \cup {n}
       \/ UNCHANGED told /\ raced' = raced \cup {n}
    /\ req' = [req EXCEPT ![r] = Alerting(q, q.todo \ {n})]
    /\ UNCHANGED <<nodes, running>>

(* A statement throws or the caller's handler is cancelled; what runs in   *)
(* the coordinator runs on (and ends in Finish).                           *)
Abort(r) ==
    /\ req[r].pc \in {"edit", "sent", "apply", "notify"}
    /\ req' = [req EXCEPT ![r] = Idle]
    /\ raced' = raced \cup req[r].todo
    /\ UNCHANGED <<nodes, running, told>>

Next ==
    \/ Restart
    \/ \E n \in Nodes : DeleteNode(n) \/ \E enabled \in BOOLEAN : CreateNode(n, enabled)
    \/ \E r \in Reqs :
          \/ CheckAll(r) \/ Enter(r) \/ Begin(r) \/ Finish(r) \/ Apply(r) \/ Abort(r)
          \/ \E n \in Nodes : ReadNode(r, n) \/ CheckNode(r, n) \/ Notify(r, n)
          \/ \E n \in Nodes, enabled \in BOOLEAN : WriteNode(r, n, enabled)

Spec == Init /\ [][Next]_vars

(* A probe ends with an answer or by the timer of Promise.race, and the    *)
(* runtime resumes a run whose await is over; that the socket.close()      *)
(* awaited after the race ends too is left to the runtime.                 *)
FairSpec == Spec /\ \A r \in Reqs : WF_vars(Finish(r))

-----------------------------------------------------------------------------
Row == [state : {"unused", "present", "deleted"}, enabled : BOOLEAN, health : Health]
Request ==
    [pc : {"idle", "edit", "sent", "parse", "probing", "apply", "notify"},
     targets : SUBSET Nodes, read : [Nodes -> Health],
     seen : [Nodes -> Result \cup {"unknown"}], todo : SUBSET Nodes]

(***************************************************************************)
(* Type invariant.  Outcomes are complete when they are applied, and only  *)
(* those of the targets are ever alerted about.                            *)
(***************************************************************************)
TypeOK ==
    /\ nodes \in [Nodes -> Row]
    /\ running \in BOOLEAN
    /\ req \in [Reqs -> Request]
    /\ told \in [Nodes -> {"up", "down"}]
    /\ raced \subseteq Nodes
    /\ \A r \in Reqs :
          /\ req[r].todo # {} => req[r].pc = "notify"
          /\ req[r].pc = "apply" => \A n \in req[r].targets : req[r].seen[n] \in Result
          /\ req[r].pc = "notify" => \A n \in req[r].todo : Alert(req[r].read[n], req[r].seen[n]) # "none"

(***************************************************************************)
(* The flag never lies: while it is up, a run is in progress, so a cycle   *)
(* is refused (409) only for a reason.                                     *)
(***************************************************************************)
BusyIsTrue == running => \E r \in Reqs : Probing(r)

(***************************************************************************)
(* A run that fails does not block the checks for ever: the flag always    *)
(* comes down again.                                                       *)
(***************************************************************************)
BusyClears == running ~> ~running

AlertPending(n) == \E r \in Reqs : n \in req[r].todo

(***************************************************************************)
(* Alerts and rows agree.  Between two cycles a node's row says            *)
(* "unreachable" exactly when the last alert about it was that it went     *)
(* down, unless the row lost an update or an alert was lost or late.       *)
(***************************************************************************)
AlertsFollowHealth ==
    \A n \in Nodes : Present(n) /\ n \notin raced /\ ~AlertPending(n) =>
        (nodes[n].health = "unreachable" <=> told[n] = "down")

(***************************************************************************)
(* What the header of health-coordinator.ts says: it prevents several      *)
(* cycles from running at the same time (single-flight).                   *)
(***************************************************************************)
SingleFlight == \A r, s \in Reqs : Probing(r) /\ Probing(s) => r = s
=============================================================================
