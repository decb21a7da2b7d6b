------------------------------- MODULE Settings -------------------------------
(***************************************************************************)
(* The panel's settings: rows in D1, a copy in KV that every request of    *)
(* the panel reads before anything else, a copy of the edge's own in KV,   *)
(* and the maintenance guard that decides on the copy a request has read.  *)
(*                                                                         *)
(* What D1 holds is a version, numbered in the order of writing; of its    *)
(* contents only maintenanceMode is told apart.  One action is what a      *)
(* handler does between two awaits.  A KV operation may fail unnoticed, a  *)
(* handler may stop at any await (Abort); KV is taken to be consistent.    *)
(***************************************************************************)
EXTENDS Naturals

CONSTANTS
    Reqs,        \* handlers in flight at the same time
    Ttl,         \* life of both copies in KV: 60 seconds
    MaxDelay,    \* how long a handler may take, start to end
    MaxVersion,  \* bound on the writes, for model checking
    KvMayFail

ASSUME ConstantsAssumption ==
    /\ Ttl \in Nat \ {0}
    /\ MaxDelay \in Nat
    /\ MaxVersion \in Nat \ {0}
    /\ KvMayFail \in BOOLEAN

Versions == 0 .. MaxVersion
None == MaxVersion + 1

(* How long what a handler goes by can have been superseded: its copy was  *)
(* put MaxDelay after the read, lived Ttl and was held for MaxDelay more.  *)
Window == Ttl + 2 * MaxDelay

NoCopy == [v |-> None, ttl |-> 0]
Idle == [pc |-> "idle", op |-> "none", auth |-> "none", v |-> None, sets |-> 0, wait |-> 0]

VARIABLES
    cur,      \* the version in D1 (system_settings)
    maint,    \* maint[v]: maintenanceMode in version v
    open,     \* there is no administrator yet
    kv,       \* "settings:all" and "edge:settings" in KV
    req,      \* req[r]: program counter and locals of handler r
    served,   \* the version handed to a reader by the last step, or None
    age,      \* history: ticks since v was in D1, up to Window + 1
    lost      \* history: why the panel's copy may be out of date

vars == <<cur, maint, open, kv, req, served, age, lost>>

Goto(r, pc) == req' = [req EXCEPT ![r] = [@ EXCEPT !.pc = pc]]
Return(r) == req' = [req EXCEPT ![r] = Idle]

Init ==
    /\ cur = 0
    /\ maint = [v \in Versions |-> FALSE]
    /\ open \in BOOLEAN
    /\ kv = [panel |-> NoCopy, edge |-> NoCopy]
    /\ req = [r \in Reqs |-> Idle]
    /\ served = None
    /\ age = [v \in Versions |-> IF v = 0 THEN 0 ELSE Window + 1]
    /\ lost = {}

-----------------------------------------------------------------------------
(* SettingsService.load, which the first middleware calls for every        *)
(* request and PATCH once more for its answer; its copy stays in the       *)
(* request's instance.                                                     *)

(* What follows the load: the request's own work, or the answer of PATCH. *)
Loading(r) == req[r].pc \in {"idle", "reload"}
Loaded(r) == IF req[r].pc = "idle" THEN "guard" ELSE "answer"

(* Mutant of LoadHit: what is asked for is kept, for another life. *)
LoadHitRenewing(r) ==
    /\ Loading(r)
    /\ kv.panel # NoCopy
    /\ req' = [req EXCEPT ![r] = [@ EXCEPT !.v = kv.panel.v,
                         !.pc = IF req[r].pc = "idle" THEN "put" ELSE "reput"]]
    /\ served' = None
    /\ UNCHANGED <<cur, maint, open, kv, age, lost>>

LoadHit(r) ==
    /\ Loading(r)
    /\ kv.panel # NoCopy
    /\ req' = [req EXCEPT ![r] = [@ EXCEPT !.pc = Loaded(r), !.v = kv.panel.v]]
    /\ served' = None
    /\ UNCHANGED <<cur, maint, open, kv, age, lost>>

(* No copy, or the get failed: the rows. *)
LoadRows(r) ==
    /\ Loading(r)
    /\ kv.panel = NoCopy \/ KvMayFail
    /\ req' = [req EXCEPT ![r] = [@ EXCEPT !.v = cur,
                         !.pc = IF req[r].pc = "idle" THEN "put" ELSE "reput"]]
    /\ served' = None
    /\ UNCHANGED <<cur, maint, open, kv, age, lost>>

(* The copy of version v goes into KV under key k, or the put fails. *)
PutCopy(k, v) == kv' = [kv EXCEPT ![k] = [v |-> v, ttl |-> Ttl]]

(* Some handler is still to delete the panel's copy. *)
Purging(r) == req[r].pc = "purge"

Put(r) ==
    /\ req[r].pc \in {"put", "reput"}
    /\ \/ /\ PutCopy("panel", req[r].v)
          /\ lost' = IF req[r].v = cur \/ \E q \in Reqs : Purging(q) THEN {} ELSE {"late put"}
       \/ KvMayFail /\ UNCHANGED <<kv, lost>>
    /\ Goto(r, IF req[r].pc = "put" THEN "guard" ELSE "answer")
    /\ served' = None
    /\ UNCHANGED <<cur, maint, open, age>>

(* publicSettings, and whatever else reads the settings of its request. *)
Serve(r) ==
    /\ req[r].pc \in {"guard", "answer"}
    /\ served' = req[r].v
    /\ Return(r)
    /\ UNCHANGED <<cur, maint, open, kv, age, lost>>

-----------------------------------------------------------------------------
(* A request that changes something.  The guard runs before requireAuth,   *)
(* which sets auth to the role of who asks: no role, super_admin's         *)
(* included, is known to it yet.                                           *)

(* Roles that may write settings (ROLE_PERMISSIONS); a setup has none. *)
Roles == {"super_admin", "admin"}

(* Mutant of Exempt: only the roles known to be others' are stopped. *)
ExemptUnlessAdmin(r) == req[r].auth # "admin"

(* c.get('auth')?.role === 'super_admin' *)
Exempt(r) == req[r].auth = "super_admin"

(* Writers of settings, and how many statements with an invalidation of    *)
(* their own each makes: PATCH and a restore one, PUT telegram/settings    *)
(* and cloudflare/settings one per field (two are told apart).             *)
Ops == [patch |-> 1, restore |-> 1, put |-> 2, setup |-> 1]

Guard(r, op, role) ==
    /\ req[r].pc = "guard"
    /\ op = "setup" => open
    /\ IF maint[req[r].v] /\ ~Exempt(r)
       THEN Return(r)
       ELSE req' = [req EXCEPT ![r] = [@ EXCEPT !.pc = "write", !.op = op, !.sets = Ops[op],
                                     !.auth = IF op = "setup" THEN "none" ELSE role]]
    /\ served' = None
    /\ UNCHANGED <<cur, maint, open, kv, age, lost>>

(* A new version comes to D1. *)
NewVersion(on) ==
    /\ cur < MaxVersion
    /\ cur' = cur + 1
    /\ maint' = [maint EXCEPT ![cur + 1] = on]
    /\ age' = [age EXCEPT ![cur + 1] = 0]

(* Mutant of Write: setMany and set leave KV to its time to live. *)
WriteOnly(r, on) ==
    /\ req[r].pc = "write"
    /\ NewVersion(on)
    /\ served' = None
    /\ IF req[r].op = "setup" /\ ~open
       THEN Return(r) /\ lost' = {"setup lost"} /\ UNCHANGED open
       ELSE Goto(r, "reload") /\ open' = (open /\ req[r].op # "setup") /\ UNCHANGED lost
    /\ UNCHANGED kv

(* The upserts of one batch.  A setup that finds an administrator by now   *)
(* has still written its name, time zone and address, and throws before    *)
(* it gets to invalidate.                                                  *)
Write(r, on) ==
    /\ req[r].pc = "write"
    /\ req[r].op \in {"put", "setup"} => on = maint[cur]
    /\ NewVersion(on)
    /\ served' = None
    /\ IF req[r].op = "setup" /\ ~open
       THEN /\ Return(r)
            /\ lost' = {"setup lost"}
            /\ UNCHANGED open
       ELSE /\ Goto(r, "purge")
            /\ open' = (open /\ req[r].op # "setup")
            /\ UNCHANGED lost
    /\ UNCHANGED kv

(* invalidate: the copies in the instance and in KV go.  The next field    *)
(* follows, or PATCH's answer, or the handler is done.                     *)
Invalidate(r) ==
    /\ req[r].pc = "purge"
    /\ \/ /\ kv' = [kv EXCEPT !.panel = NoCopy]
          /\ lost' = {}
       \/ /\ KvMayFail
          /\ kv' = kv
          /\ lost' = {"failed delete"}
    /\ IF req[r].sets > 1
       THEN req' = [req EXCEPT ![r] = [@ EXCEPT !.pc = "write", !.sets = req[r].sets - 1,
                                                !.v = None]]
       ELSE IF req[r].op = "patch"
       THEN req' = [req EXCEPT ![r] = [Idle EXCEPT !.pc = "reload", !.wait = req[r].wait]]
       ELSE Return(r)
    /\ served' = None
    /\ UNCHANGED <<cur, maint, open, age>>

-----------------------------------------------------------------------------
(* loadEdgeSettings, on the edge, whose copy nobody invalidates.           *)

EdgeHit ==
    /\ kv.edge # NoCopy
    /\ served' = kv.edge.v
    /\ UNCHANGED <<cur, maint, open, kv, req, age, lost>>

EdgeRead(r) ==
    /\ req[r].pc = "idle"
    /\ kv.edge = NoCopy \/ KvMayFail
    /\ req' = [req EXCEPT ![r] = [@ EXCEPT !.pc = "edge", !.v = cur]]
    /\ served' = None
    /\ UNCHANGED <<cur, maint, open, kv, age, lost>>

EdgePut(r) ==
    /\ req[r].pc = "edge"
    /\ PutCopy("edge", req[r].v) \/ (KvMayFail /\ kv' = kv)
    /\ served' = req[r].v
    /\ Return(r)
    /\ UNCHANGED <<cur, maint, open, age, lost>>

-----------------------------------------------------------------------------
(* A handler stops at an await: a statement throws, or it is cancelled. *)
Abort(r) ==
    /\ req[r].pc # "idle"
    /\ lost' = IF Purging(r) THEN {"aborted"} ELSE lost
    /\ served' = None
    /\ Return(r)
    /\ UNCHANGED <<cur, maint, open, kv, age>>

Aged(copy) == IF copy.ttl > 1 THEN [copy EXCEPT !.ttl = @ - 1] ELSE NoCopy

(* Time passes, within what every handler may take. *)
Tick ==
    /\ \A r \in Reqs : req[r].pc # "idle" => req[r].wait < MaxDelay
    /\ req' = [r \in Reqs |-> IF req[r].pc = "idle" THEN Idle
                              ELSE [req[r] EXCEPT !.wait = @ + 1]]
    /\ kv' = [panel |-> Aged(kv.panel), edge |-> Aged(kv.edge)]
    /\ age' = [v \in Versions |-> IF v # cur /\ age[v] <= Window THEN age[v] + 1 ELSE age[v]]
    /\ served' = None
    /\ UNCHANGED <<cur, maint, open, lost>>

Handle(r) ==
    \/ LoadHit(r) \/ LoadRows(r) \/ Put(r) \/ Serve(r)
    \/ \E op \in DOMAIN Ops, role \in Roles : Guard(r, op, role)
    \/ \E on \in BOOLEAN : Write(r, on)
    \/ Invalidate(r) \/ EdgeRead(r) \/ EdgePut(r) \/ Abort(r)

Next == (\E r \in Reqs : Handle(r)) \/ EdgeHit \/ Tick

Spec == Init /\ [][Next]_vars

-----------------------------------------------------------------------------
(* Properties.                                                             *)

(* Every state has its type, and a handler that is to write has passed     *)
(* the guard, requireAuth too unless it is a setup.                        *)
TypeOK ==
    /\ cur \in Versions
    /\ maint \in [Versions -> BOOLEAN]
    /\ open \in BOOLEAN
    /\ kv \in [{"panel", "edge"} -> [v : Versions, ttl : 1 .. Ttl] \cup {NoCopy}]
    /\ served \in Versions \cup {None}
    /\ age \in [Versions -> 0 .. Window + 1]
    /\ lost \subseteq {"late put", "setup lost", "failed delete", "aborted"}
    /\ \A r \in Reqs :
         /\ req[r].pc \in {"idle", "put", "guard", "write", "purge", "reload", "reput",
                           "answer", "edge"}
         /\ req[r].wait \in 0 .. MaxDelay
         /\ req[r].pc \in {"write", "purge"} =>
              /\ req[r].sets \in 1 .. 2
              /\ IF req[r].op = "setup" THEN req[r].auth = "none" ELSE req[r].auth \in Roles

(* The panel's copy in KV is the current version, or a writer is about to  *)
(* delete it, or one of the four races is to blame: a put of what was read *)
(* before a write (load, settings.ts:109), a delete that failed, a writer  *)
(* that stopped halfway, a setup that lost and wrote all the same.         *)
StaleCopyOnlyByRace ==
    kv.panel.v \in Versions /\ kv.panel.v # cur =>
        lost # {} \/ \E r \in Reqs : Purging(r)

(* Whatever fails or races, no reader on either worker is handed settings  *)
(* that had left D1 more than Window ago: the caches of load and           *)
(* loadEdgeSettings implement the abstract promise of Access, with         *)
(* versions for credentials and the current one allowed.                   *)
Promise == INSTANCE Access WITH
    Uuids <- Versions, NoAnswer <- None, allowed <- {cur}, answer <- served

ImplementsAccess == Promise!AccessSpec

(* Maintenance mode stops the writes of everybody but a super_admin, once  *)
(* the copies from before it have died (maintenanceGuard, middleware.ts:   *)
(* "blocks writing in maintenance mode, except for the super admin").      *)
WritesStop ==
    [][\A r \in Reqs : (\E on \in BOOLEAN : Write(r, on)) /\ req[r].auth # "super_admin" =>
          \E v \in 0 .. cur : ~maint[v] /\ age[v] <= Window]_vars
=============================================================================
