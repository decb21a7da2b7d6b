------------------------------ MODULE EdgeAccess ------------------------------
(***************************************************************************)
(* Who may use the proxy: the users table in D1, which the control plane   *)
(* and its hourly job change, and the verdicts the edge keeps of it in KV  *)
(* under "edge:user:<uuid>".                                               *)
(*                                                                         *)
(* The edge reads D1 and then puts its verdict; the control plane writes   *)
(* D1 and then deletes the key, but for a restore.  One action is what a handler does between *)
(* two awaits.  A KV operation may fail unnoticed, and a handler may stop  *)
(* at any await (Abort).  Times are kept as what is left of them, in ticks,*)
(* so the clock needs no bound; KV is taken to be consistent.              *)
(***************************************************************************)
EXTENDS Naturals

CONSTANTS
    Users,
    Uuids,       \* values of users.credential_uuid; newUuid never repeats one
    NoUser,
    NoUuid,
    Reqs,        \* handlers in flight at the same time
    EdgeTtl,     \* life of a verdict the edge caches: 60 seconds
    PrimeTtl,    \* life of a verdict "sync users" caches: 300 seconds
    MaxDelay,    \* how long a handler may lie between its read and a put
    MaxLeft,     \* bound on the time a user can have left
    BackupRows,  \* what the backups have of a user, but for the uuid
    KvMayFail

(* What a request or a backup may give a user. *)
Given(uuid) == [uuid : {uuid}, enabled : BOOLEAN, full : BOOLEAN, left : 0 .. MaxLeft + 1]

ASSUME ConstantsAssumption ==
    /\ EdgeTtl \in Nat \ {0}
    /\ PrimeTtl \in Nat \ {0}
    /\ EdgeTtl <= PrimeTtl
    /\ MaxDelay \in Nat
    /\ MaxLeft \in Nat \ {0}
    /\ KvMayFail \in BOOLEAN
    /\ NoUser \notin Users
    /\ NoUuid \notin Uuids
    /\ BackupRows \subseteq Given(NoUuid)

(* expires_at is NULL *)
Forever == MaxLeft + 1

Window == PrimeTtl + MaxDelay

NoRow == [uuid |-> NoUuid, enabled |-> FALSE, full |-> FALSE, left |-> 0]
NoRows == [u \in Users |-> NoRow]
NoVerdict == [ok |-> FALSE, ttl |-> 0]

VARIABLES
    users,    \* users[u]: the row (full: used_bytes >= quota_bytes), or NoRow
    drawn,    \* drawn[c]: the user c was drawn for, or NoUser
    kv,       \* kv[c]: the verdict under c's key, or NoVerdict
    req,      \* req[r]: program counter and locals of handler r
    answer,   \* the credential let in by the last step, or NoUuid
    age,      \* history: ticks since c was allowed, up to Window + 1
    raced,    \* history: cached yeses whose invalidation was lost
    restored  \* history: cached yeses whose grant a restore has taken away

vars == <<users, drawn, kv, req, answer, age, raced, restored>>

Idle == [pc |-> "idle", op |-> "none", user |-> NoUser, uuid |-> NoUuid, ok |-> FALSE,
         rows |-> NoRows, keys |-> {}, wait |-> 0]

(* authorizeUuid's test, and the same in primeUserAllowlist. *)
Passes(row) == row.enabled /\ row.left # 0 /\ ~row.full

IsAllowed(c) == \E u \in Users : users[u].uuid = c /\ Passes(users[u])
Allowed == {c \in Uuids : IsAllowed(c)}

(* c is the credential of a user the administrators have not switched off. *)
Granted(c) == \E u \in Users : users[u].uuid = c /\ users[u].enabled

Purging(r, c) == req[r].pc = "purge" /\ c \in req[r].keys

(* Those of S with a yes in the cache. *)
Yes(S) == {c \in S \cap Uuids : kv[c].ok}

(* The ages after d ticks. *)
Later(d) ==
    [c \in Uuids |-> IF IsAllowed(c)' THEN 0
                     ELSE IF age[c] + d <= Window + 1 THEN age[c] + d ELSE Window + 1]

Init ==
    /\ users = [u \in Users |-> NoRow]
    /\ drawn = [c \in Uuids |-> NoUser]
    /\ kv = [c \in Uuids |-> NoVerdict]
    /\ req = [r \in Reqs |-> Idle]
    /\ answer = NoUuid
    /\ age = [c \in Uuids |-> Window + 1]
    /\ raced = {}
    /\ restored = {}

-----------------------------------------------------------------------------
(* authorizeUuid, on the edge.                                             *)

(* The key holds a verdict.  Only a yes can be told from a no. *)
Hit(c) ==
    /\ kv[c].ok
    /\ answer' = c
    /\ UNCHANGED <<users, drawn, kv, req, age, raced, restored>>

(* No verdict, or the get failed: read D1 and decide. *)
Lookup(r, c) ==
    /\ req[r].pc = "idle"
    /\ kv[c] = NoVerdict \/ KvMayFail
    /\ req' = [req EXCEPT ![r] = [Idle EXCEPT !.pc = "put", !.uuid = c,
                                              !.ok = IsAllowed(c)]]
    /\ answer' = NoUuid
    /\ UNCHANGED <<users, drawn, kv, age, raced, restored>>

(* Mutant of PutVerdict: the lives of the entries in minutes. *)
PutVerdictMinutes(c, ok, ttl) ==
    \/ /\ kv' = [kv EXCEPT ![c] = [ok |-> ok, ttl |-> 60 * ttl]]
       /\ raced' = IF ok /\ ~Granted(c) /\ ~\E r \in Reqs : Purging(r, c)
                   THEN raced \cup {c} ELSE raced \ {c}
       /\ restored' = restored \ {c}
    \/ KvMayFail /\ UNCHANGED <<kv, raced, restored>>

(* KV put of a verdict on c: too late if c is no longer granted and nobody *)
(* is still to delete the key.                                             *)
PutVerdict(c, ok, ttl) ==
    \/ /\ kv' = [kv EXCEPT ![c] = [ok |-> ok, ttl |-> ttl]]
       /\ raced' = IF ok /\ ~Granted(c) /\ ~\E r \in Reqs : Purging(r, c)
                   THEN raced \cup {c} ELSE raced \ {c}
       /\ restored' = restored \ {c}
    \/ KvMayFail /\ UNCHANGED <<kv, raced, restored>>

Decide(r) ==
    LET c == req[r].uuid IN
    /\ req[r].pc = "put"
    /\ PutVerdict(c, req[r].ok, EdgeTtl)
    /\ req' = [req EXCEPT ![r] = Idle]
    /\ answer' = IF req[r].ok THEN c ELSE NoUuid
    /\ UNCHANGED <<users, drawn, age>>

-----------------------------------------------------------------------------
(* primeUserAllowlist: one SELECT, then a put per row.  A row's expiry is  *)
(* judged by the clock at its put, the rest as it was read.                *)

SyncUsers(r) ==
    /\ req[r].pc = "idle"
    /\ req' = [req EXCEPT ![r] = [Idle EXCEPT !.pc = "prime", !.rows = users]]
    /\ answer' = NoUuid
    /\ UNCHANGED <<users, drawn, kv, age, raced, restored>>

PrimeRow(r, u) ==
    LET row == req[r].rows[u] IN
    /\ req[r].pc = "prime"
    /\ row # NoRow
    /\ PutVerdict(row.uuid, Passes(row), PrimeTtl)
    /\ req' = [req EXCEPT ![r] = [@ EXCEPT !.rows = [req[r].rows EXCEPT ![u] = NoRow]]]
    /\ answer' = NoUuid
    /\ UNCHANGED <<users, drawn, age>>

Primed(r) ==
    /\ req[r].pc = "prime"
    /\ req[r].rows = NoRows
    /\ req' = [req EXCEPT ![r] = Idle]
    /\ answer' = NoUuid
    /\ UNCHANGED <<users, drawn, kv, age, raced, restored>>

-----------------------------------------------------------------------------
(* The control plane: getUserById, the statement, invalidateUserCache.     *)

CreateUser(r, u, c, row) ==
    /\ req[r].pc = "idle"
    /\ drawn[c] = NoUser /\ \A d \in Uuids : drawn[d] # u
    /\ users' = [users EXCEPT ![u] = row]
    /\ drawn' = [drawn EXCEPT ![c] = u]
    /\ req' = [req EXCEPT ![r] = [Idle EXCEPT !.pc = "purge", !.keys = {c}]]
    /\ age' = Later(0)
    /\ answer' = NoUuid
    /\ UNCHANGED <<kv, raced, restored>>

(* getUserById.  Only the uuid is used after the statement. *)
ReadUser(r, u, op) ==
    /\ req[r].pc = "idle"
    /\ users[u] # NoRow
    /\ req' = [req EXCEPT ![r] = [Idle EXCEPT !.pc = "write", !.op = op, !.user = u,
                                              !.uuid = users[u].uuid]]
    /\ answer' = NoUuid
    /\ UNCHANGED <<users, drawn, kv, age, raced, restored>>

(* A statement leaves users[u] as row, and handler r, which read the uuid  *)
(* as read, is to delete keys and goes on as q.  The credential that loses *)
(* its grant is lost track of when r read another: it was rotated, or      *)
(* restored, in between.                                                   *)
Store(r, u, row, read, keys, q) ==
    LET old == users[u].uuid IN
    /\ users' = [users EXCEPT ![u] = row]
    /\ req' = [req EXCEPT ![r] = [q EXCEPT !.pc = "purge", !.keys = keys]]
    /\ raced' = IF Granted(old) /\ ~(row.uuid = old /\ row.enabled) /\ old # read
                THEN raced \cup Yes({old}) ELSE raced
    /\ age' = Later(0)
    /\ answer' = NoUuid
    /\ UNCHANGED <<kv, restored>>

(* setEnabled, extendUser and updateUser: a row that is gone stays gone. *)
UpdateUser(r, enabled, full, left) ==
    LET u == req[r].user IN
    /\ req[r].pc = "write" /\ req[r].op = "update"
    /\ Store(r, u, IF users[u] = NoRow THEN NoRow
                   ELSE [users[u] EXCEPT !.enabled = enabled, !.full = full, !.left = left],
             req[r].uuid, {req[r].uuid}, Idle)
    /\ UNCHANGED drawn

(* Mutant of DeleteUser: the verdict stays in the cache. *)
DeleteUserRow(r) ==
    /\ req[r].pc = "write" /\ req[r].op = "delete"
    /\ Store(r, req[r].user, NoRow, req[r].uuid, {}, Idle)
    /\ UNCHANGED drawn

DeleteUser(r) ==
    /\ req[r].pc = "write" /\ req[r].op = "delete"
    /\ Store(r, req[r].user, NoRow, req[r].uuid, {req[r].uuid}, Idle)
    /\ UNCHANGED drawn

RotateCredentials(r, c) ==
    LET u == req[r].user IN
    /\ req[r].pc = "write" /\ req[r].op = "rotate"
    /\ drawn[c] = NoUser
    /\ Store(r, u, IF users[u] = NoRow THEN NoRow ELSE [users[u] EXCEPT !.uuid = c],
             req[r].uuid, {req[r].uuid, c}, Idle)
    /\ drawn' = [drawn EXCEPT ![c] = u]

(* resetTraffic writes first and reads the uuid after. *)
ResetTraffic(r, u) ==
    /\ req[r].pc = "idle"
    /\ users[u] # NoRow
    /\ users' = [users EXCEPT ![u].full = FALSE]
    /\ req' = [req EXCEPT ![r] = [Idle EXCEPT !.pc = "reread", !.user = u]]
    /\ age' = Later(0)
    /\ answer' = NoUuid
    /\ UNCHANGED <<drawn, kv, raced, restored>>

Reread(r) ==
    LET row == users[req[r].user] IN
    /\ req[r].pc = "reread"
    /\ req' = [req EXCEPT ![r] =
                 IF row = NoRow THEN Idle
                 ELSE [Idle EXCEPT !.pc = "purge", !.keys = {row.uuid}]]
    /\ answer' = NoUuid
    /\ UNCHANGED <<users, drawn, kv, age, raced, restored>>

(* invalidateUserCache: KV delete of one key. *)
Purge(r, c) ==
    /\ Purging(r, c)
    /\ \/ /\ kv' = [kv EXCEPT ![c] = NoVerdict]
          /\ raced' = raced \ {c} /\ restored' = restored \ {c}
       \/ KvMayFail /\ raced' = raced \cup Yes({c}) /\ UNCHANGED <<kv, restored>>
    /\ req' = [req EXCEPT ![r] = [@ EXCEPT !.keys = req[r].keys \ {c}]]
    /\ answer' = NoUuid
    /\ UNCHANGED <<users, drawn, age>>

(* The handler returns, or the hourly job goes on to its next row. *)
Purged(r) ==
    /\ req[r].pc = "purge"
    /\ req[r].keys = {}
    /\ req' = [req EXCEPT ![r] = IF req[r].op = "cron" THEN [@ EXCEPT !.pc = "expire"] ELSE Idle]
    /\ answer' = NoUuid
    /\ UNCHANGED <<users, drawn, kv, age, raced, restored>>

-----------------------------------------------------------------------------
(* cronHourly: the users that have expired, one after the other.           *)

ExpiredRow(row) == row.enabled /\ row.left = 0

SelectExpired(r) ==
    /\ req[r].pc = "idle"
    /\ \E u \in Users : ExpiredRow(users[u])
    /\ req' = [req EXCEPT ![r] =
                 [Idle EXCEPT !.pc = "expire", !.op = "cron",
                              !.rows = [u \in Users |->
                                          IF ExpiredRow(users[u])
                                          THEN [NoRow EXCEPT !.uuid = users[u].uuid] ELSE NoRow]]]
    /\ answer' = NoUuid
    /\ UNCHANGED <<users, drawn, kv, age, raced, restored>>

(* The UPDATE goes by id alone, the delete by the uuid that was read. *)
DisableExpired(r, u) ==
    LET row == req[r].rows[u] IN
    /\ req[r].pc = "expire"
    /\ row # NoRow
    /\ Store(r, u, IF users[u] = NoRow THEN NoRow ELSE [users[u] EXCEPT !.enabled = FALSE],
             row.uuid, {row.uuid}, [req[r] EXCEPT !.rows = [req[r].rows EXCEPT ![u] = NoRow]])
    /\ UNCHANGED drawn

CronDone(r) ==
    /\ req[r].pc = "expire"
    /\ req[r].rows = NoRows
    /\ req' = [req EXCEPT ![r] = Idle]
    /\ answer' = NoUuid
    /\ UNCHANGED <<users, drawn, kv, age, raced, restored>>

-----------------------------------------------------------------------------
(* recordTraffic uses up a user's quota.  The key it then deletes,         *)
(* "edge:usercache:<id>", is not the one authorizeUuid reads.              *)
RecordTraffic(u) ==
    /\ users[u] # NoRow
    /\ users' = [users EXCEPT ![u].full = TRUE]
    /\ age' = Later(0)
    /\ answer' = NoUuid
    /\ UNCHANGED <<drawn, kv, req, raced, restored>>

-----------------------------------------------------------------------------
(* restoreFromBackup: its statements on the users table.  No key of KV is  *)
(* deleted.                                                                *)

WipeUsers ==
    /\ users' = NoRows
    /\ restored' = restored \cup {c \in Yes(Uuids) : Granted(c)}
    /\ age' = Later(0)
    /\ answer' = NoUuid
    /\ UNCHANGED <<drawn, kv, req, raced>>

(* A user as some backup has it. *)
RestoreUser(u, c, row) ==
    LET old == users[u].uuid IN
    /\ drawn[c] = u
    /\ users' = [users EXCEPT ![u] = [row EXCEPT !.uuid = c]]
    /\ restored' = IF Granted(old) /\ ~(c = old /\ row.enabled)
                   THEN restored \cup Yes({old}) ELSE restored
    /\ age' = Later(0)
    /\ answer' = NoUuid
    /\ UNCHANGED <<drawn, kv, req, raced>>

-----------------------------------------------------------------------------
(* A D1 statement throws, or the runtime cancels the handler. *)
Abort(r) ==
    /\ req[r].pc # "idle"
    /\ req' = [req EXCEPT ![r] = Idle]
    /\ raced' = raced \cup Yes(IF req[r].pc = "purge" THEN req[r].keys ELSE {})
    /\ answer' = NoUuid
    /\ UNCHANGED <<users, drawn, kv, age, restored>>

(* A tick later: expiries draw near, and KV drops what has run out. *)
Shorter(row) == [row EXCEPT !.left = IF @ \in {0, Forever} THEN @ ELSE @ - 1]

Tick ==
    /\ \A r \in Reqs : req[r].pc \in {"put", "prime"} => req[r].wait < MaxDelay
    /\ users' = [u \in Users |-> Shorter(users[u])]
    /\ kv' = [c \in Uuids |-> IF kv[c].ttl <= 1 THEN NoVerdict ELSE [kv[c] EXCEPT !.ttl = kv[c].ttl - 1]]
    /\ req' = [r \in Reqs |->
                 [req[r] EXCEPT !.wait = IF req[r].pc \in {"put", "prime"} THEN req[r].wait + 1 ELSE 0,
                                !.rows = [u \in Users |-> Shorter(req[r].rows[u])]]]
    /\ age' = Later(1)
    /\ answer' = NoUuid
    /\ raced' = {c \in raced : kv[c].ttl > 1}
    /\ restored' = {c \in restored : kv[c].ttl > 1}
    /\ UNCHANGED drawn

Edge(r) ==
    \/ \E c \in Uuids : Lookup(r, c)
    \/ Decide(r)

ControlPlane(r) ==
    \/ \E u \in Users, c \in Uuids : \E row \in Given(c) : CreateUser(r, u, c, row)
    \/ \E u \in Users, op \in {"update", "delete", "rotate"} : ReadUser(r, u, op)
    \/ \E enabled, full \in BOOLEAN, left \in 0 .. Forever : UpdateUser(r, enabled, full, left)
    \/ \E c \in Uuids : RotateCredentials(r, c) \/ Purge(r, c)
    \/ \E u \in Users : ResetTraffic(r, u) \/ PrimeRow(r, u) \/ DisableExpired(r, u)
    \/ DeleteUser(r) \/ Reread(r) \/ Purged(r) \/ SyncUsers(r) \/ Primed(r)
    \/ SelectExpired(r) \/ CronDone(r)

Next ==
    \/ Tick
    \/ \E c \in Uuids : Hit(c)
    \/ \E u \in Users : RecordTraffic(u)
    \/ WipeUsers
    \/ \E u \in Users, c \in Uuids, row \in BackupRows : RestoreUser(u, c, row)
    \/ \E r \in Reqs : Edge(r) \/ ControlPlane(r) \/ Abort(r)

Spec == Init /\ [][Next]_vars

-----------------------------------------------------------------------------
Uuid == Uuids \cup {NoUuid}
Row == [uuid : Uuid, enabled : BOOLEAN, full : BOOLEAN, left : 0 .. Forever]

Handler ==
    [pc : {"idle", "put", "prime", "write", "reread", "purge", "expire"},
     op : {"none", "update", "delete", "rotate", "cron"},
     user : Users \cup {NoUser}, uuid : Uuid, ok : BOOLEAN,
     rows : [Users -> Row], keys : SUBSET Uuids, wait : 0 .. MaxDelay]

Types ==
    /\ users \in [Users -> Row]
    /\ drawn \in [Uuids -> Users \cup {NoUser}]
    /\ kv \in [Uuids -> [ok : BOOLEAN, ttl : 0 .. PrimeTtl]]
    /\ req \in [Reqs -> Handler]
    /\ answer \in Uuid
    /\ age \in [Uuids -> 0 .. Window + 1]
    /\ raced \subseteq Uuids
    /\ restored \subseteq Uuids

(***************************************************************************)
(* Type invariant; a credential is that of the user it was drawn for.      *)
(***************************************************************************)
TypeOK ==
    /\ Types
    /\ \A u \in Users : users[u] # NoRow =>
          users[u].uuid \in Uuids /\ drawn[users[u].uuid] = u

Abstract == INSTANCE Access WITH allowed <- Allowed, NoAnswer <- NoUuid

(***************************************************************************)
(* The edge implements Access: it lets a credential in only if the users   *)
(* table allowed it within the last Window ticks, whatever fails or races  *)
(* (data.ts authorizeUuid, cloudflare.routes.ts primeUserAllowlist).       *)
(***************************************************************************)
ImplementsAccess == Abstract!AccessSpec

(***************************************************************************)
(* A cached yes for a credential that was switched off, deleted or rotated *)
(* away is about to be deleted, or its invalidation was lost: to a put of  *)
(* an older verdict, to a failed or skipped delete, or to a rotation       *)
(* between the handler's read and its statement; or the grant went with a  *)
(* restore, which deletes no key (backup.service.ts).                      *)
(***************************************************************************)
StaleYesOnlyByRace ==
    \A c \in Uuids : kv[c].ok /\ ~Granted(c) =>
        c \in raced \cup restored \/ \E r \in Reqs : Purging(r, c)

(***************************************************************************)
(* What data.ts says where recordTraffic drops a cache entry, "so that the *)
(* quota takes effect quickly": once the traffic that used up a quota is   *)
(* recorded, no cached yes is left for that user.                          *)
(***************************************************************************)
QuotaDropsCache == [][\A u \in Users : RecordTraffic(u) => ~kv'[users[u].uuid].ok]_vars
=============================================================================
