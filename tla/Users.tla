-------------------------------- MODULE Users --------------------------------
(***************************************************************************)
(* The users that are sold a subscription: how long they have, whether the *)
(* hourly job has switched them off, the link that hands out their         *)
(* documents and the nodes a document may name.  The panel, its bulk       *)
(* endpoint and the Telegram bot call the same services; both workers      *)
(* deliver documents.  Telegram sends an update again until it is answered *)
(* with success, and the webhook does not look at the id of the update.    *)
(*                                                                         *)
(* One action is what a handler does between two awaits.  Times are what   *)
(* is left of them, in ticks.  Credentials, quotas and the verdicts cached *)
(* of them are EdgeAccess's; here a user has an expiry only.               *)
(***************************************************************************)
EXTENDS Naturals

CONSTANTS
    Users,
    Nodes,
    NoUser,
    Reqs,           \* handlers in flight at the same time
    Days,           \* what an extension adds
    MaxLeft,        \* bound on the time a user can have left
    RevokeOnExpire  \* settings.revokeOnExpire

ASSUME ConstantsAssumption ==
    /\ Days \in Nat \ {0}
    /\ MaxLeft \in Nat
    /\ Days <= MaxLeft
    /\ RevokeOnExpire \in BOOLEAN
    /\ NoUser \notin Users

Forever == MaxLeft + 1           \* expires_at is NULL
Times == 0 .. Forever
Unsure == MaxLeft + 2            \* what is asked once changes of a date have overlapped

NoRow == [there |-> FALSE, on |-> FALSE, left |-> 0, revoked |-> FALSE]

Idle == [pc |-> "idle", user |-> NoUser, left |-> 0, set |-> {}, bound |-> {}, bot |-> FALSE]

VARIABLES
    users,    \* users[u]: the row, and revoked_at of its subscription
    node,     \* node[n]: "gone", "off" or "on"
    assigned, \* assigned[u]: its rows in user_nodes
    req,      \* req[r]: program counter and locals of handler r
    given,    \* the document delivered by the last step
    asked     \* history: what the administrators last asked for u and nothing has
              \* come in the way of since: to be on, the time left, the nodes, a
              \* link that works

vars == <<users, node, assigned, req, given, asked>>

NoDocument == [nodes |-> {}, bound |-> {}]

On == {n \in Nodes : node[n] = "on"}
There(u) == users[u].there

Goto(r, pc) == req' = [req EXCEPT ![r] = [@ EXCEPT !.pc = pc]]
Return(r) == req' = [req EXCEPT ![r] = Idle]
Quiet == given' = NoDocument

Unasked == [on |-> FALSE, left |-> 0, nodes |-> {}, link |-> "works"]

Init ==
    /\ users = [u \in Users |-> NoRow]
    /\ node \in [Nodes -> {"off", "on"}]
    /\ assigned = [u \in Users |-> {}]
    /\ req = [r \in Reqs |-> Idle]
    /\ given = NoDocument
    /\ asked = [u \in Users |-> Unasked]

-----------------------------------------------------------------------------
(* Users.  An id is used again here once its user and every trace of it is *)
(* gone; newId draws a fresh one.                                          *)

(* createUser: one batch; the foreign key of user_nodes turns it down for  *)
(* a node that is gone.                                                    *)
CreateUser(u, left, S) ==
    /\ ~There(u)
    /\ \A r \in Reqs : req[r].user # u /\ u \notin req[r].set
    /\ \A n \in S : node[n] # "gone"
    /\ users' = [users EXCEPT ![u] = [NoRow EXCEPT !.there = TRUE, !.on = TRUE, !.left = left]]
    /\ assigned' = [assigned EXCEPT ![u] = S]
    /\ asked' = [asked EXCEPT ![u] = [on |-> left # 0, left |-> left, nodes |-> S,
                                     link |-> "works"]]
    /\ Quiet /\ UNCHANGED <<node, req>>

(* deleteUser, with its subscription and its assignments by cascade. *)
DeleteUser(u) ==
    /\ There(u)
    /\ users' = [users EXCEPT ![u] = NoRow]
    /\ assigned' = [assigned EXCEPT ![u] = {}]
    /\ asked' = [asked EXCEPT ![u] = Unasked]
    /\ Quiet /\ UNCHANGED <<node, req>>

(* The hourly job has selected u and not yet got to it. *)
Selected(u) == \E r \in Reqs : req[r].pc \in {"disable", "revoke"} /\ u \in req[r].set

(* setEnabled by hand, in bulk or by /enable and /disable. *)
SetEnabled(u, on) ==
    /\ There(u)
    /\ users' = [users EXCEPT ![u].on = on]
    /\ asked' = [asked EXCEPT ![u].on = on /\ users[u].left # 0 /\ ~Selected(u)]
    /\ Quiet /\ UNCHANGED <<node, assigned, req>>

(* An extension of u has computed a date and not yet written it. *)
Extending(u) == \E r \in Reqs : req[r].pc = "extend" /\ req[r].user = u

(* What there is to be left once Days have been added to it: from the old  *)
(* date if it is still to come, else (also when there is none) from now.   *)
Added(left) ==
    IF left = Forever THEN Days ELSE IF left + Days > MaxLeft THEN MaxLeft ELSE left + Days

(* Two changes of the date of u at a time: one may be lost. *)
AskDays(u) ==
    asked' = [asked EXCEPT ![u].left = IF Extending(u) \/ @ = Unsure THEN Unsure ELSE Added(@)]

(* Mutant of ExtendRead: the new date is always reckoned from now. *)
ExtendFromNow(r, u, bot) ==
    /\ req[r].pc = "idle"
    /\ There(u)
    /\ req' = [req EXCEPT ![r] = [Idle EXCEPT !.pc = "extend", !.user = u, !.left = Days,
                                              !.bot = bot]]
    /\ AskDays(u)
    /\ Quiet /\ UNCHANGED <<users, node, assigned>>

(* extendUser, for the panel or for /extend of the bot, reads the row and  *)
(* computes the new date.                                                  *)
ExtendRead(r, u, bot) ==
    /\ req[r].pc = "idle"
    /\ There(u)
    /\ req' = [req EXCEPT ![r] = [Idle EXCEPT !.pc = "extend", !.user = u, !.bot = bot,
                                              !.left = Added(users[u].left)]]
    /\ AskDays(u)
    /\ Quiet /\ UNCHANGED <<users, node, assigned>>

(* The UPDATE, whatever the row has become. *)
ExtendWrite(r) ==
    LET u == req[r].user IN
    /\ req[r].pc = "extend"
    /\ IF There(u)
       THEN /\ users' = [users EXCEPT ![u].left = req[r].left]
            /\ asked' = [asked EXCEPT ![u].on = @ /\ req[r].left # 0]
       ELSE UNCHANGED <<users, asked>>
    /\ IF req[r].bot THEN Goto(r, "reply") ELSE Return(r)
    /\ Quiet /\ UNCHANGED <<node, assigned>>

(* The webhook sends the reply, whose failure it ignores, and Telegram     *)
(* learns that the update has been handled.                                *)
Replied(r) ==
    /\ req[r].pc = "reply"
    /\ Return(r)
    /\ Quiet /\ UNCHANGED <<users, node, assigned, asked>>

(* The handler dies or its answer is lost: the update is sent again, and   *)
(* the command runs again from its start.                                  *)
Redeliver(r) ==
    LET u == req[r].user IN
    /\ req[r].bot
    /\ IF There(u)
       THEN /\ req' = [req EXCEPT ![r] = [@ EXCEPT !.pc = "extend", !.left = Added(users[u].left)]]
            /\ asked' = [asked EXCEPT ![u].left = Unsure]
       ELSE Return(r) /\ UNCHANGED asked
    /\ Quiet /\ UNCHANGED <<users, node, assigned>>

(* updateUser with a date settles what is to be left.                      *)
UpdateDate(u, left) ==
    /\ There(u)
    /\ users' = [users EXCEPT ![u].left = left]
    /\ asked' = [asked EXCEPT ![u].left = IF Extending(u) THEN Unsure ELSE left,
                              ![u].on = @ /\ left # 0]
    /\ Quiet /\ UNCHANGED <<node, assigned, req>>

(* An update of u's nodes has begun and not yet inserted the new ones. *)
Gap(u) == \E r \in Reqs : req[r].user = u /\ req[r].pc \in {"clear", "assign"}

(* updateUser with node ids goes on after the UPDATE of the row.           *)
UpdateNodes(r, u, S) ==
    /\ req[r].pc = "idle"
    /\ There(u)
    /\ asked' = [asked EXCEPT ![u].nodes = IF Gap(u) THEN {} ELSE S]
    /\ req' = [req EXCEPT ![r] = [Idle EXCEPT !.pc = "clear", !.user = u, !.set = S]]
    /\ Quiet /\ UNCHANGED <<users, node, assigned>>

(* Mutant of ClearNodes: the new ones are added to the old. *)
ClearNothing(r) ==
    /\ req[r].pc = "clear"
    /\ IF req[r].set = {} THEN Return(r) ELSE Goto(r, "assign")
    /\ Quiet /\ UNCHANGED <<users, node, assigned, asked>>

(* DELETE FROM user_nodes, when there are node ids. *)
ClearNodes(r) ==
    /\ req[r].pc = "clear"
    /\ assigned' = [assigned EXCEPT ![req[r].user] = {}]
    /\ IF req[r].set = {} THEN Return(r) ELSE Goto(r, "assign")
    /\ Quiet /\ UNCHANGED <<users, node, asked>>

(* The batch of INSERT OR IGNOREs, which fails as a whole by a foreign key *)
(* and adds to whatever another update has inserted meanwhile.             *)
AssignNodes(r) ==
    LET u == req[r].user IN
    /\ req[r].pc = "assign"
    /\ IF There(u) /\ \A n \in req[r].set : node[n] # "gone"
       THEN /\ assigned' = [assigned EXCEPT ![u] = @ \cup req[r].set]
            /\ UNCHANGED asked
       ELSE /\ UNCHANGED assigned
            /\ asked' = [asked EXCEPT ![u].nodes = {}]
    /\ Return(r)
    /\ Quiet /\ UNCHANGED <<users, node>>

-----------------------------------------------------------------------------
(* Nodes.                                                                  *)

ToggleNode(n) ==
    /\ node[n] # "gone"
    /\ node' = [node EXCEPT ![n] = IF @ = "on" THEN "off" ELSE "on"]
    /\ Quiet /\ UNCHANGED <<users, assigned, req, asked>>

(* The assignments to the node go by cascade. *)
DeleteNode(n) ==
    /\ node[n] # "gone"
    /\ node' = [node EXCEPT ![n] = "gone"]
    /\ assigned' = [u \in Users |-> assigned[u] \ {n}]
    /\ Quiet /\ UNCHANGED <<users, req, asked>>

-----------------------------------------------------------------------------
(* The link: revocation, and new tokens.                                   *)

Revoke(u) ==
    /\ There(u) /\ ~users[u].revoked
    /\ users' = [users EXCEPT ![u].revoked = TRUE]
    /\ asked' = [asked EXCEPT ![u].link = "revoked"]
    /\ Quiet /\ UNCHANGED <<node, assigned, req>>

(* Mutant of Regenerate: the new token under the old revocation. *)
RegenerateRevoked(u) ==
    /\ There(u)
    /\ asked' = [asked EXCEPT ![u].link = "works"]
    /\ Quiet /\ UNCHANGED <<users, node, assigned, req>>

(* POST /subscriptions/:id/regenerate and /users/:id/rotate-token. *)
Regenerate(u) ==
    /\ There(u)
    /\ users' = [users EXCEPT ![u].revoked = FALSE]
    /\ asked' = [asked EXCEPT ![u].link = "works"]
    /\ Quiet /\ UNCHANGED <<node, assigned, req>>

(* A bulk rotation draws a new token and leaves revoked_at alone. *)
RotateInBulk(u) ==
    /\ There(u)
    /\ asked' = [asked EXCEPT ![u].link = IF @ = "revoked" THEN "rotated" ELSE @]
    /\ Quiet /\ UNCHANGED <<users, node, assigned, req>>

(* subscriptionDenyReason, the quota left out. *)
Denied(u) == ~users[u].on \/ users[u].left = 0

(* findSubscriptionByToken: a token that is no longer current finds no     *)
(* row, the current one that of its user.                                  *)
Found(u) == There(u) /\ ~users[u].revoked

(* GET /sub/:token on either worker. *)
FindSubscription(r, u) ==
    /\ req[r].pc = "idle"
    /\ Found(u) /\ ~Denied(u)
    /\ req' = [req EXCEPT ![r] = [Idle EXCEPT !.pc = "find", !.user = u]]
    /\ Quiet /\ UNCHANGED <<users, node, assigned, asked>>

(* The nodes a document of u is to keep to: all, when no node that was     *)
(* asked for u is enabled, none was asked for, or the rows of user_nodes   *)
(* are not yet those asked for.                                            *)
Bound(u) == IF asked[u].nodes \cap On = {} \/ Gap(u) THEN Nodes ELSE asked[u].nodes

(* findNodesForUser: the enabled ones among those assigned... *)
FindNodes(r) ==
    LET u == req[r].user
        nodes == assigned[u] \cap On IN
    /\ req[r].pc = "find"
    /\ IF nodes # {}
       THEN /\ given' = [nodes |-> nodes, bound |-> Bound(u)]
            /\ Return(r)
       ELSE /\ req' = [req EXCEPT ![r] = [@ EXCEPT !.pc = "all", !.bound = Bound(u)]]
            /\ Quiet
    /\ UNCHANGED <<users, node, assigned, asked>>

(* ...and if there are none, all that are enabled. *)
FindAllNodes(r) ==
    /\ req[r].pc = "all"
    /\ given' = [nodes |-> On, bound |-> req[r].bound]
    /\ Return(r)
    /\ UNCHANGED <<users, node, assigned, asked>>

(* GET /users/:id/configs, for the panel, reads the user and the ids of    *)
(* the nodes assigned...                                                   *)
ConfigsRead(r, u) ==
    /\ req[r].pc = "idle"
    /\ There(u)
    /\ req' = [req EXCEPT ![r] = [Idle EXCEPT !.pc = "configs", !.user = u, !.set = assigned[u],
                !.bound = IF Gap(u) \/ \A n \in asked[u].nodes : node[n] = "gone" THEN Nodes
                          ELSE asked[u].nodes]]
    /\ Quiet /\ UNCHANGED <<users, node, assigned, asked>>

(* ...and then the enabled nodes among them; all when there are no ids,    *)
(* but none when none of them is enabled, unlike a document.               *)
ConfigsNodes(r) ==
    /\ req[r].pc = "configs"
    /\ given' = [nodes |-> IF req[r].set = {} THEN On ELSE req[r].set \cap On,
                 bound |-> req[r].bound]
    /\ Return(r)
    /\ UNCHANGED <<users, node, assigned, asked>>

-----------------------------------------------------------------------------
(* cronHourly, of which two runs may overlap.                              *)

(* Mutant of SelectExpired: whoever expires next is taken for expired. *)
SelectExpiring(r) ==
    LET expired == {u \in Users : There(u) /\ users[u].on /\ users[u].left <= 1} IN
    /\ req[r].pc = "idle"
    /\ expired # {}
    /\ req' = [req EXCEPT ![r] = [Idle EXCEPT !.pc = "disable", !.set = expired]]
    /\ Quiet /\ UNCHANGED <<users, node, assigned, asked>>

SelectExpired(r) ==
    LET expired == {u \in Users : There(u) /\ users[u].on /\ users[u].left = 0} IN
    /\ req[r].pc = "idle"
    /\ expired # {}
    /\ req' = [req EXCEPT ![r] = [Idle EXCEPT !.pc = "disable", !.set = expired]]
    /\ Quiet /\ UNCHANGED <<users, node, assigned, asked>>

(* The next user selected is disabled by its id... *)
DisableExpired(r, u) ==
    /\ req[r].pc = "disable"
    /\ u \in req[r].set
    /\ users' = IF There(u) THEN [users EXCEPT ![u].on = FALSE] ELSE users
    /\ req' = [req EXCEPT ![r] = [@ EXCEPT !.pc = "revoke", !.user = u,
                                          !.set = req[r].set \ {u}]]
    /\ Quiet /\ UNCHANGED <<node, assigned, asked>>

(* ...and loses its link, if the settings say so.  (A notification follows *)
(* and then the next user.)                                                *)
RevokeExpired(r) ==
    LET u == req[r].user IN
    /\ req[r].pc = "revoke"
    /\ IF RevokeOnExpire /\ There(u)
       THEN /\ users' = [users EXCEPT ![u].revoked = TRUE]
            /\ asked' = [asked EXCEPT ![u].link = "revoked"]
       ELSE UNCHANGED <<users, asked>>
    /\ req' = [req EXCEPT ![r] = IF @.set = {} THEN Idle
                                 ELSE [@ EXCEPT !.pc = "disable", !.user = NoUser]]
    /\ Quiet /\ UNCHANGED <<node, assigned>>

-----------------------------------------------------------------------------
(* A handler stops at an await: an extension is not written, an update     *)
(* leaves the assignments cleared or as they were.  (An update of the bot  *)
(* comes again: Redeliver; unless Telegram gives it up.)                   *)
Abort(r) ==
    LET u == req[r].user IN
    /\ req[r].pc # "idle"
    /\ CASE req[r].pc \in {"clear", "assign"} -> asked' = [asked EXCEPT ![u].nodes = {}]
         [] req[r].pc = "extend" /\ There(u) -> asked' = [asked EXCEPT ![u].left = Unsure]
         [] OTHER -> UNCHANGED asked
    /\ Return(r)
    /\ Quiet /\ UNCHANGED <<users, node, assigned>>

Sooner(left) == IF left \in 1 .. MaxLeft THEN left - 1 ELSE left

(* Time passes; the date a handler has computed comes nearer too. *)
Tick ==
    /\ users' = [u \in Users |-> [users[u] EXCEPT !.left = Sooner(@)]]
    /\ asked' = [u \in Users |-> [asked[u] EXCEPT !.left = Sooner(@),
                                                  !.on = @ /\ users'[u].left # 0]]
    /\ req' = [r \in Reqs |-> [req[r] EXCEPT !.left = Sooner(@)]]
    /\ Quiet /\ UNCHANGED <<node, assigned>>

Handle(r) ==
    \/ \E u \in Users :
         \/ \E bot \in BOOLEAN : ExtendRead(r, u, bot)
         \/ \E S \in SUBSET Nodes : UpdateNodes(r, u, S)
         \/ FindSubscription(r, u) \/ ConfigsRead(r, u)
         \/ DisableExpired(r, u)
    \/ ExtendWrite(r) \/ Replied(r) \/ Redeliver(r)
    \/ ClearNodes(r) \/ AssignNodes(r)
    \/ FindNodes(r) \/ FindAllNodes(r) \/ ConfigsNodes(r)
    \/ SelectExpired(r) \/ RevokeExpired(r)
    \/ Abort(r)

Next ==
    \/ \E r \in Reqs : Handle(r)
    \/ \E u \in Users :
         \/ \E left \in Times, S \in SUBSET Nodes : CreateUser(u, left, S)
         \/ \E left \in Times : UpdateDate(u, left)
         \/ DeleteUser(u) \/ Revoke(u) \/ Regenerate(u) \/ RotateInBulk(u)
         \/ \E on \in BOOLEAN : SetEnabled(u, on)
    \/ \E n \in Nodes : ToggleNode(n) \/ DeleteNode(n)
    \/ Tick

Spec == Init /\ [][Next]_vars

-----------------------------------------------------------------------------
(* Properties.                                                             *)

(* Every state has its type; user_nodes refers to users and nodes that are *)
(* there, and only for a user who is there has anything been asked for.    *)
TypeOK ==
    /\ users \in [Users -> [there : BOOLEAN, on : BOOLEAN, left : Times, revoked : BOOLEAN]]
    /\ node \in [Nodes -> {"gone", "off", "on"}]
    /\ assigned \in [Users -> SUBSET Nodes]
    /\ \A u \in Users :
         /\ assigned[u] \subseteq {n \in Nodes : There(u) /\ node[n] # "gone"}
         /\ There(u) \/ (users[u] = NoRow /\ asked[u] = Unasked)
    /\ asked \in [Users -> [on : BOOLEAN, left : Times \cup {Unsure}, nodes : SUBSET Nodes,
                            link : {"works", "revoked", "rotated"}]]
    /\ \A r \in Reqs :
         /\ req[r].pc \in {"idle", "extend", "reply", "clear", "assign", "find", "all",
                         "configs", "disable", "revoke"}
         /\ req[r].set \subseteq (IF req[r].pc \in {"disable", "revoke"} THEN Users ELSE Nodes)
         /\ req[r].left \in 0 .. MaxLeft
    /\ given.nodes \subseteq Nodes

(* A document names no node beyond those asked for its user, unless none   *)
(* of those is enabled (findNodesForUser then names them all, though its   *)
(* comment says so only of users without an assignment), or an update of   *)
(* the user's nodes (users.service.ts:207-215) was between its DELETE and  *)
(* its INSERTs, stopped there, or overlapped another.  The panel's list of *)
(* configurations names no other node either.                              *)
OnlyNodesAskedFor == given.nodes \subseteq given.bound

(* A user the administrators want on is off only when the expiry has       *)
(* passed since they last said so, or when the hourly job, which disables  *)
(* by id (scheduled.ts:39), had selected the user before they said so.     *)
OffForCause == \A u \in Users : asked[u].on => users[u].on

(* A user has the time the administrators have granted, added up, unless   *)
(* an extension is under way, was stopped, met another change of the date  *)
(* between its reading and its writing (users.service.ts:248-256), or came *)
(* from an update that Telegram sent again.                                *)
TimeAddsUp ==
    \A u \in Users : Extending(u) \/ asked[u].left \in {users[u].left, Unsure}

(* A new token works: only a revocation after it, or a rotation in bulk    *)
(* (users.routes.ts:329), leaves the link of a user revoked.               *)
NewLinksWork == \A u \in Users : users[u].revoked => asked[u].link # "works"
=============================================================================
