-------------------------- MODULE EdgeAccess_proofs --------------------------
(***************************************************************************)
(* Proofs about EdgeAccess, for any users, credentials, handlers, lives of *)
(* the entries and delays.                                                 *)
(*                                                                         *)
(* That the edge implements Access rests on an account of time: a cached   *)
(* yes, what is left of its life added to the time since its credential    *)
(* was allowed, fits into the window, since the handler that put it had    *)
(* waited for as long as what it read was out of date.  That a stale yes   *)
(* has a cause needs no time at all: whoever takes a grant away is about   *)
(* to delete the key, and whatever keeps them from it leaves a trace, as   *)
(* a restore does, which takes grants away and deletes no key.             *)
(*                                                                         *)
(* At the end stands what the same worker does with a connection once it   *)
(* has been let in: the proofs about Tunnel, for any numbers of chunks.    *)
(***************************************************************************)
EXTENDS MCTunnel, TLAPS

(* What handler q carries has the right kind of user and credential. *)
Locals(q) ==
    /\ q.pc \in {"put", "write"} => q.uuid \in Uuids
    /\ q.pc \in {"write", "reread"} => q.user \in Users
    /\ \A u \in Users : q.rows[u] # NoRow => q.rows[u].uuid \in Uuids

(* What handler q is about to put is no older than q has waited. *)
InTime(q) ==
    /\ q.pc = "put" /\ q.ok => age[q.uuid] <= q.wait
    /\ q.pc = "prime" =>
          \A u \in Users : q.rows[u] # NoRow /\ Passes(q.rows[u]) =>
             age[q.rows[u].uuid] <= q.wait

(* A credential is that of the user it was drawn for. *)
Drawn ==
    \A u \in Users : users[u] # NoRow =>
        users[u].uuid \in Uuids /\ drawn[users[u].uuid] = u

(* Ages and lives add up. *)
Timely ==
    /\ \A c \in Uuids : IsAllowed(c) => age[c] = 0
    /\ \A c \in Uuids : kv[c].ok => age[c] + kv[c].ttl <= Window
    /\ \A r \in Reqs : InTime(req[r])

IInv == Types /\ Drawn /\ (\A r \in Reqs : Locals(req[r])) /\ StaleYesOnlyByRace /\ Timely
-----------------------------------------------------------------------------
(* Facts about records.                                                    *)

(* Idle is a handler that carries nothing. *)
LEMMA IdleHandler ==
  /\ Idle \in Handler /\ Locals(Idle) /\ InTime(Idle)
  /\ Idle.pc = "idle" /\ Idle.rows = NoRows /\ Idle.keys = {} /\ Idle.wait = 0
<1>1. NoRow \in Row
  BY ConstantsAssumption DEF NoRow, Row, Uuid, Forever
<1>2. NoRows \in [Users -> Row] /\ \A u \in Users : NoRows[u] = NoRow
  BY <1>1 DEF NoRows
<1> QED
  BY <1>2, ConstantsAssumption DEF Idle, Handler, Locals, InTime, Uuid

(* The other handlers stay as they are. *)
LEMMA OneMoves ==
  ASSUME Types, NEW r \in Reqs, NEW v \in Handler, req' = [req EXCEPT ![r] = v]
  PROVE  /\ req' \in [Reqs -> Handler]
         /\ req'[r] = v
         /\ \A x \in Reqs \ {r} : req'[x] = req[x]
<1>1. req \in [Reqs -> Handler]
  BY DEF Types
<1> QED
  BY <1>1

LEMMA InitInv == Init => IInv
<1> SUFFICES ASSUME Init PROVE IInv
  OBVIOUS
<1>1. NoRow \in Row /\ ~NoRow.enabled
  BY ConstantsAssumption DEF NoRow, Row, Uuid, Forever
<1>2. NoVerdict \in [ok : BOOLEAN, ttl : 0 .. PrimeTtl] /\ ~NoVerdict.ok
  BY ConstantsAssumption DEF NoVerdict
<1>3. Window + 1 \in 0 .. Window + 1
  BY ConstantsAssumption DEF Window
<1>4. Types
  BY <1>1, <1>2, <1>3, IdleHandler DEF Init, Types, Uuid
<1>5. Drawn
  BY DEF Init, Drawn
<1>6. \A r \in Reqs : Locals(req[r]) /\ InTime(req[r])
  BY IdleHandler DEF Init
<1>7. StaleYesOnlyByRace
  BY <1>2 DEF Init, StaleYesOnlyByRace
<1>8. \A c \in Uuids : ~IsAllowed(c) /\ ~kv[c].ok
  BY <1>1, <1>2 DEF Init, IsAllowed, Passes
<1>9. Timely
  BY <1>6, <1>8 DEF Timely
<1> QED
  BY <1>4, <1>5, <1>6, <1>7, <1>9 DEF IInv

-----------------------------------------------------------------------------
(* Steps that leave the table, the cache and the clock alone.              *)

LEMMA QuietStep ==
  ASSUME IInv, NEW r \in Reqs, NEW v \in Handler, req' = [req EXCEPT ![r] = v],
         UNCHANGED <<users, drawn, kv, age, raced, restored>>, answer' \in Uuid,
         Locals(v), InTime(v), \A c \in Uuids : ~Purging(r, c)
  PROVE  IInv'
<1>1. Types
  BY DEF IInv
<1>2. /\ req' \in [Reqs -> Handler]
      /\ req'[r] = v
      /\ \A x \in Reqs \ {r} : req'[x] = req[x]
  BY <1>1, OneMoves
<1>3. Types'
  BY <1>1, <1>2 DEF Types
<1>4. Drawn'
  BY DEF IInv, Drawn
<1>5. \A x \in Reqs : Locals(req'[x]) /\ InTime(req'[x])
  BY <1>2 DEF IInv, Timely
<1>6. \A x \in Reqs : Locals(req[x])' /\ InTime(req[x])'
  BY <1>5 DEF Locals, InTime
<1>7. StaleYesOnlyByRace'
  BY <1>2 DEF IInv, StaleYesOnlyByRace, Purging, Granted
<1>8. Timely'
  BY <1>6 DEF IInv, Timely, IsAllowed
<1> QED
  BY <1>3, <1>4, <1>6, <1>7, <1>8 DEF IInv

LEMMA NoUuidIsUuid == NoUuid \in Uuid
  BY DEF Uuid

LEMMA LookupStep ==
  ASSUME IInv, NEW r \in Reqs, NEW c \in Uuids, Lookup(r, c)
  PROVE  IInv'
<1> DEFINE b == IsAllowed(c)
<1>1. b \in BOOLEAN
  BY DEF IsAllowed
<1>2. b => age[c] = 0
  BY DEF IInv, Timely
<1>3. /\ req[r].pc = "idle"
      /\ req' = [req EXCEPT ![r] = [Idle EXCEPT !.pc = "put", !.uuid = c, !.ok = b]]
  BY DEF Lookup
<1> HIDE DEF b
<1> DEFINE v == [Idle EXCEPT !.pc = "put", !.uuid = c, !.ok = b]
<1>4. v \in Handler /\ v.pc = "put" /\ v.uuid = c /\ v.ok = b /\ v.wait = 0 /\ v.rows = NoRows
  BY <1>1, IdleHandler DEF Handler, Uuid, Idle
<1>5. req' = [req EXCEPT ![r] = v]
  BY <1>3
<1> HIDE DEF v
<1>6. Locals(v) /\ InTime(v)
  BY <1>2, <1>4 DEF Locals, InTime, NoRows
<1>7. \A d \in Uuids : ~Purging(r, d)
  BY <1>3 DEF Purging
<1>8. UNCHANGED <<users, drawn, kv, age, raced, restored>> /\ answer' \in Uuid
  BY NoUuidIsUuid DEF Lookup
<1> QED
  BY <1>4, <1>5, <1>6, <1>7, <1>8, QuietStep

(* Every row that passes is allowed, now. *)
LEMMA SyncStep ==
  ASSUME IInv, NEW r \in Reqs, SyncUsers(r)
  PROVE  IInv'
<1> DEFINE v == [Idle EXCEPT !.pc = "prime", !.rows = users]
<1>1. v \in Handler /\ v.pc = "prime" /\ v.wait = 0 /\ v.rows = users
  BY IdleHandler DEF IInv, Types, Handler, Idle
<1>2. req[r].pc = "idle" /\ req' = [req EXCEPT ![r] = v]
  BY DEF SyncUsers
<1> HIDE DEF v
<1>3. \A u \in Users : users[u] # NoRow => users[u].uuid \in Uuids
  BY DEF IInv, Drawn
<1>4. \A u \in Users : users[u] # NoRow /\ Passes(users[u]) => age[users[u].uuid] = 0
  BY <1>3 DEF IInv, Timely, IsAllowed
<1>5. Locals(v) /\ InTime(v)
  BY <1>1, <1>3, <1>4 DEF Locals, InTime
<1>6. \A d \in Uuids : ~Purging(r, d)
  BY <1>2 DEF Purging
<1>7. UNCHANGED <<users, drawn, kv, age, raced, restored>> /\ answer' \in Uuid
  BY NoUuidIsUuid DEF SyncUsers
<1> QED
  BY <1>1, <1>2, <1>5, <1>6, <1>7, QuietStep

LEMMA PrimedStep ==
  ASSUME IInv, NEW r \in Reqs, Primed(r) \/ CronDone(r)
  PROVE  IInv'
<1>1. \A d \in Uuids : ~Purging(r, d)
  BY DEF Primed, CronDone, Purging
<1>2. req' = [req EXCEPT ![r] = Idle]
  BY DEF Primed, CronDone
<1>3. UNCHANGED <<users, drawn, kv, age, raced, restored>> /\ answer' \in Uuid
  BY NoUuidIsUuid DEF Primed, CronDone
<1> QED
  BY <1>1, <1>2, <1>3, IdleHandler, QuietStep

LEMMA ReadUserStep ==
  ASSUME IInv, NEW r \in Reqs, NEW u \in Users, NEW op \in {"update", "delete", "rotate"},
         ReadUser(r, u, op)
  PROVE  IInv'
<1> DEFINE v == [Idle EXCEPT !.pc = "write", !.op = op, !.user = u, !.uuid = users[u].uuid]
<1>1. req[r].pc = "idle" /\ users[u] # NoRow /\ req' = [req EXCEPT ![r] = v]
  BY DEF ReadUser
<1>2. users[u].uuid \in Uuids
  BY <1>1 DEF IInv, Drawn
<1>3. /\ v \in Handler
      /\ v.pc = "write" /\ v.user = u /\ v.uuid = users[u].uuid /\ v.rows = NoRows
  BY <1>2, IdleHandler DEF Handler, Uuid, Idle
<1> HIDE DEF v
<1>4. Locals(v) /\ InTime(v)
  BY <1>2, <1>3 DEF Locals, InTime, NoRows
<1>5. \A d \in Uuids : ~Purging(r, d)
  BY <1>1 DEF Purging
<1>6. UNCHANGED <<users, drawn, kv, age, raced, restored>> /\ answer' \in Uuid
  BY NoUuidIsUuid DEF ReadUser
<1> QED
  BY <1>1, <1>3, <1>4, <1>5, <1>6, QuietStep

(* A handler that is to delete the keys in K. *)
LEMMA PurgeHandler ==
  ASSUME NEW q \in Handler, Locals(q), NEW K \in SUBSET Uuids
  PROVE  LET v == [q EXCEPT !.pc = "purge", !.keys = K] IN
         v \in Handler /\ Locals(v) /\ InTime(v) /\ v.pc = "purge" /\ v.keys = K
  BY DEF Handler, Locals, InTime

LEMMA RereadStep ==
  ASSUME IInv, NEW r \in Reqs, Reread(r)
  PROVE  IInv'
<1>1. req[r].pc = "reread" /\ req[r].user \in Users
  BY DEF Reread, IInv, Locals
<1>2. \A d \in Uuids : ~Purging(r, d)
  BY <1>1 DEF Purging
<1>3. UNCHANGED <<users, drawn, kv, age, raced, restored>> /\ answer' \in Uuid
  BY NoUuidIsUuid DEF Reread
<1>4. CASE users[req[r].user] = NoRow
  <2>1. req' = [req EXCEPT ![r] = Idle]
    BY <1>4 DEF Reread
  <2> QED
    BY <1>2, <1>3, <2>1, IdleHandler, QuietStep
<1>5. CASE users[req[r].user] # NoRow
  <2> DEFINE K == {users[req[r].user].uuid}
             v == [Idle EXCEPT !.pc = "purge", !.keys = K]
  <2>1. req' = [req EXCEPT ![r] = v]
    BY <1>5 DEF Reread
  <2>2. K \in SUBSET Uuids
    BY <1>1, <1>5 DEF IInv, Drawn
  <2>3. v \in Handler /\ Locals(v) /\ InTime(v)
    BY <2>2, IdleHandler, PurgeHandler
  <2> QED
    BY <1>2, <1>3, <2>1, <2>3, QuietStep
<1> QED
  BY <1>4, <1>5

LEMMA PurgedStep ==
  ASSUME IInv, NEW r \in Reqs, Purged(r)
  PROVE  IInv'
<1>1. req[r].pc = "purge" /\ req[r].keys = {}
  BY DEF Purged
<1>2. \A d \in Uuids : ~Purging(r, d)
  BY <1>1 DEF Purging
<1>3. UNCHANGED <<users, drawn, kv, age, raced, restored>> /\ answer' \in Uuid
  BY NoUuidIsUuid DEF Purged
<1>4. CASE req[r].op = "cron"
  <2> DEFINE v == [req[r] EXCEPT !.pc = "expire"]
  <2>1. req' = [req EXCEPT ![r] = v]
    BY <1>4 DEF Purged
  <2>2. req[r] \in Handler /\ Locals(req[r])
    BY DEF IInv, Types
  <2>3. v \in Handler /\ Locals(v) /\ InTime(v)
    BY <2>2 DEF Handler, Locals, InTime
  <2> QED
    BY <1>2, <1>3, <2>1, <2>3, QuietStep
<1>5. CASE req[r].op # "cron"
  <2>1. req' = [req EXCEPT ![r] = Idle]
    BY <1>5 DEF Purged
  <2> QED
    BY <1>2, <1>3, <2>1, IdleHandler, QuietStep
<1> QED
  BY <1>4, <1>5

LEMMA SelectStep ==
  ASSUME IInv, NEW r \in Reqs, SelectExpired(r)
  PROVE  IInv'
<1> DEFINE rows == [u \in Users |-> IF ExpiredRow(users[u])
                                    THEN [NoRow EXCEPT !.uuid = users[u].uuid] ELSE NoRow]
           v == [Idle EXCEPT !.pc = "expire", !.op = "cron", !.rows = rows]
<1>1. req[r].pc = "idle" /\ req' = [req EXCEPT ![r] = v]
  BY DEF SelectExpired
<1>2. \A u \in Users : ExpiredRow(users[u]) => users[u].uuid \in Uuids
  BY DEF IInv, Drawn, ExpiredRow, NoRow
<1>3. \A u \in Users : rows[u] = NoRow \/ rows[u].uuid \in Uuids
  BY <1>2 DEF NoRow
<1>4. rows \in [Users -> Row]
  <2>1. NoRow \in Row
    BY ConstantsAssumption DEF Row, NoRow, Uuid, Forever
  <2>2. \A c \in Uuids : [NoRow EXCEPT !.uuid = c] \in Row
    BY <2>1 DEF Row, Uuid
  <2> QED
    BY <1>2, <2>1, <2>2
<1> HIDE DEF rows
<1>5. v \in Handler /\ v.pc = "expire" /\ v.rows = rows
  BY <1>4, IdleHandler DEF Handler, Idle
<1> HIDE DEF v
<1>6. Locals(v) /\ InTime(v)
  BY <1>3, <1>5 DEF Locals, InTime
<1>7. \A d \in Uuids : ~Purging(r, d)
  BY <1>1 DEF Purging
<1>8. UNCHANGED <<users, drawn, kv, age, raced, restored>> /\ answer' \in Uuid
  BY NoUuidIsUuid DEF SelectExpired
<1> QED
  BY <1>1, <1>5, <1>6, <1>7, <1>8, QuietStep

-----------------------------------------------------------------------------
(* Steps that change the table.                                            *)

(* While the clock stands, an age can only fall. *)
LEMMA AgesFall ==
  ASSUME IInv, age' = Later(0)
  PROVE  /\ age' \in [Uuids -> 0 .. Window + 1]
         /\ \A c \in Uuids : age'[c] <= age[c]
         /\ \A c \in Uuids : IsAllowed(c)' => age'[c] = 0
<1>1. Window \in Nat
  BY ConstantsAssumption DEF Window
<1>2. \A c \in Uuids : age[c] \in 0 .. Window + 1
  BY DEF IInv, Types
<1>3. \A c \in Uuids : age'[c] = IF IsAllowed(c)' THEN 0
                                 ELSE IF age[c] + 0 <= Window + 1 THEN age[c] + 0 ELSE Window + 1
  BY DEF Later
<1>4. \A c \in Uuids : age'[c] \in 0 .. Window + 1 /\ age'[c] <= age[c]
  BY <1>1, <1>2, <1>3
<1>5. age' = [c \in Uuids |-> age'[c]]
  BY DEF Later
<1> QED
  BY <1>3, <1>4, <1>5

(* A user keeps the credential, goes, or gets a fresh one. *)
LEMMA DrawnKept ==
  ASSUME IInv, NEW u \in Users, NEW row, users' = [users EXCEPT ![u] = row],
         \A c \in Uuids : drawn[c] # NoUser => drawn'[c] = drawn[c],
         row = NoRow \/ (row.uuid \in Uuids /\ drawn'[row.uuid] = u)
  PROVE  Drawn'
<1>1. \A v \in Users : users'[v] = IF v = u THEN row ELSE users[v]
  BY DEF IInv, Types
<1>2. Drawn
  BY DEF IInv
<1>3. ASSUME NEW v \in Users, users'[v] # NoRow
      PROVE  users'[v].uuid \in Uuids /\ drawn'[users'[v].uuid] = v
  <2>1. CASE v = u
    BY <1>1, <1>3, <2>1
  <2>2. CASE v # u
    BY <1>1, <1>2, <1>3, <2>2, ConstantsAssumption DEF Drawn
  <2> QED
    BY <2>1, <2>2
<1> QED
  BY <1>3 DEF Drawn

LEMMA TableStep ==
  ASSUME IInv, users' \in [Users -> Row], drawn' \in [Uuids -> Users \cup {NoUser}], Drawn',
         req' \in [Reqs -> Handler], \A x \in Reqs : Locals(req'[x]),
         \A x \in Reqs : req'[x] = req[x] \/ req'[x].pc \notin {"put", "prime"},
         kv' = kv, raced' \subseteq Uuids, restored' \subseteq Uuids,
         age' = Later(0), answer' = NoUuid,
         StaleYesOnlyByRace'
  PROVE  IInv'
<1>1. /\ age' \in [Uuids -> 0 .. Window + 1]
      /\ \A c \in Uuids : age'[c] <= age[c]
      /\ \A c \in Uuids : IsAllowed(c)' => age'[c] = 0
  BY AgesFall
<1>2. Types'
  BY <1>1, NoUuidIsUuid DEF IInv, Types
<1>3. \A x \in Reqs : Locals(req[x])'
  BY DEF Locals
<1>4. ASSUME NEW x \in Reqs PROVE InTime(req[x])'
  <2>1. CASE req'[x].pc \notin {"put", "prime"}
    BY <2>1 DEF InTime
  <2>2. CASE req'[x] = req[x]
    <3>1. Locals(req[x]) /\ InTime(req[x]) /\ req[x] \in Handler
      BY DEF IInv, Timely, Types
    <3>2. \A c \in Uuids : age[c] \in Nat /\ age'[c] \in Nat /\ age'[c] <= age[c]
      BY <1>1, ConstantsAssumption DEF IInv, Types, Window
    <3>3. req[x].wait \in Nat
      BY <3>1, ConstantsAssumption DEF Handler
    <3>4. req[x].pc = "put" /\ req[x].ok => age'[req[x].uuid] <= req[x].wait
      BY <3>1, <3>2, <3>3 DEF InTime, Locals
    <3>5. ASSUME req[x].pc = "prime", NEW u \in Users, req[x].rows[u] # NoRow,
                 Passes(req[x].rows[u])
          PROVE  age'[req[x].rows[u].uuid] <= req[x].wait
      BY <3>1, <3>2, <3>3, <3>5 DEF InTime, Locals
    <3> QED
      BY <2>2, <3>4, <3>5 DEF InTime
  <2> QED
    BY <2>1, <2>2
<1>5. \A c \in Uuids : kv'[c].ok => age'[c] + kv'[c].ttl <= Window
  <2>1. \A c \in Uuids : /\ age[c] \in Nat /\ age'[c] \in Nat /\ age'[c] <= age[c]
                         /\ kv[c].ttl \in Nat
    BY <1>1, ConstantsAssumption DEF IInv, Types, Window
  <2>2. \A c \in Uuids : kv[c].ok => age[c] + kv[c].ttl <= Window
    BY DEF IInv, Timely
  <2>3. Window \in Nat
    BY ConstantsAssumption DEF Window
  <2> QED
    BY <2>1, <2>2, <2>3
<1>6. Timely'
  BY <1>1, <1>4, <1>5 DEF Timely
<1> QED
  BY <1>2, <1>3, <1>6 DEF IInv

(* A step that takes no grant away, and lets nobody off a delete. *)
LEMMA GrantsKept ==
  ASSUME IInv, kv' = kv, raced' = raced, restored' = restored,
         \A c \in Uuids : Granted(c) => Granted(c)',
         \A x \in Reqs, c \in Uuids : Purging(x, c) => Purging(x, c)'
  PROVE  StaleYesOnlyByRace'
  BY DEF IInv, StaleYesOnlyByRace

LEMMA CreateStep ==
  ASSUME IInv, NEW r \in Reqs, NEW u \in Users, NEW c \in Uuids, NEW row \in Given(c),
         CreateUser(r, u, c, row)
  PROVE  IInv'
<1> DEFINE v == [Idle EXCEPT !.pc = "purge", !.keys = {c}]
<1>1. /\ req[r].pc = "idle" /\ drawn[c] = NoUser /\ \A d \in Uuids : drawn[d] # u
      /\ users' = [users EXCEPT ![u] = row]
      /\ drawn' = [drawn EXCEPT ![c] = u]
      /\ req' = [req EXCEPT ![r] = v]
  BY DEF CreateUser
<1>2. UNCHANGED <<kv, raced, restored>> /\ age' = Later(0) /\ answer' = NoUuid
  BY DEF CreateUser
<1>3. row \in Row /\ row.uuid = c
  BY DEF Given, Row, Uuid, Forever
<1>4. users[u] = NoRow
  BY <1>1 DEF IInv, Drawn
<1>5. Drawn'
  <2>1. /\ \A d \in Uuids : drawn[d] # NoUser => drawn'[d] = drawn[d]
        /\ drawn'[c] = u
    BY <1>1 DEF IInv, Types
  <2> QED
    BY <1>1, <1>3, <2>1, DrawnKept
<1>6. v \in Handler /\ Locals(v) /\ InTime(v) /\ v.pc = "purge"
  <2>1. {c} \in SUBSET Uuids
    OBVIOUS
  <2> QED
    BY <2>1, IdleHandler, PurgeHandler
<1> HIDE DEF v
<1>7. /\ req' \in [Reqs -> Handler] /\ req'[r] = v
      /\ \A x \in Reqs \ {r} : req'[x] = req[x]
  BY <1>1, <1>6, OneMoves DEF IInv
<1>8. users' \in [Users -> Row] /\ \A w \in Users \ {u} : users'[w] = users[w]
  BY <1>1, <1>3 DEF IInv, Types
<1>9. StaleYesOnlyByRace'
  <2>1. \A d \in Uuids : Granted(d) => Granted(d)'
    BY <1>4, <1>8 DEF Granted, NoRow
  <2>2. \A x \in Reqs, d \in Uuids : Purging(x, d) => Purging(x, d)'
    BY <1>1, <1>7 DEF Purging
  <2> QED
    BY <1>2, <2>1, <2>2, GrantsKept
<1>10. /\ \A x \in Reqs : Locals(req'[x])
       /\ \A x \in Reqs : req'[x] = req[x] \/ req'[x].pc \notin {"put", "prime"}
  BY <1>6, <1>7 DEF IInv
<1>11. /\ raced' \subseteq Uuids /\ restored' \subseteq Uuids
       /\ drawn' \in [Uuids -> Users \cup {NoUser}]
  BY <1>1, <1>2 DEF IInv, Types
<1> QED
  BY <1>2, <1>5, <1>7, <1>8, <1>9, <1>10, <1>11, TableStep

(* A statement of a handler that is to delete the key it has read.         *)
LEMMA StoreStep ==
  ASSUME IInv, NEW r \in Reqs, NEW u \in Users, NEW row \in Row, NEW read,
         NEW keys \in SUBSET Uuids, NEW q \in Handler, Store(r, u, row, read, keys, q),
         read \in keys, Locals(q), \A c \in Uuids : ~Purging(r, c),
         drawn' \in [Uuids -> Users \cup {NoUser}], Drawn'
  PROVE  IInv'
<1> DEFINE v == [q EXCEPT !.pc = "purge", !.keys = keys]
           old == users[u].uuid
<1>1. /\ users' = [users EXCEPT ![u] = row]
      /\ req' = [req EXCEPT ![r] = v]
      /\ raced' = IF Granted(old) /\ ~(row.uuid = old /\ row.enabled) /\ old # read
                  THEN raced \cup Yes({old}) ELSE raced
      /\ kv' = kv /\ restored' = restored /\ age' = Later(0) /\ answer' = NoUuid
  BY DEF Store
<1>2. v \in Handler /\ Locals(v) /\ InTime(v) /\ v.pc = "purge" /\ v.keys = keys
  BY PurgeHandler
<1> HIDE DEF v
<1>3. /\ req' \in [Reqs -> Handler] /\ req'[r] = v
      /\ \A x \in Reqs \ {r} : req'[x] = req[x]
  BY <1>1, <1>2, OneMoves DEF IInv
<1>4. /\ users' \in [Users -> Row] /\ users'[u] = row
      /\ \A w \in Users \ {u} : users'[w] = users[w]
  BY <1>1 DEF IInv, Types
<1>5. raced \subseteq raced' /\ raced' \subseteq Uuids /\ restored' \subseteq Uuids
  BY <1>1 DEF IInv, Types, Yes
<1>6. StaleYesOnlyByRace'
  <2> SUFFICES ASSUME NEW c \in Uuids, kv[c].ok, ~Granted(c)'
               PROVE  c \in raced' \cup restored' \/ \E x \in Reqs : Purging(x, c)'
    BY <1>1 DEF StaleYesOnlyByRace
  <2>1. CASE ~Granted(c)
    <3>1. c \in raced \cup restored \/ \E x \in Reqs : Purging(x, c)
      BY <2>1 DEF IInv, StaleYesOnlyByRace
    <3>2. \A x \in Reqs : Purging(x, c) => Purging(x, c)'
      BY <1>3 DEF Purging
    <3> QED
      BY <1>1, <1>5, <3>1, <3>2
  <2>2. CASE Granted(c)
    <3>1. PICK w \in Users : users[w].uuid = c /\ users[w].enabled
      BY <2>2 DEF Granted
    <3>2. ~(users'[w].uuid = c /\ users'[w].enabled)
      BY DEF Granted
    <3>3. w = u
      BY <1>4, <3>1, <3>2
    <3>4. old = c /\ ~(row.uuid = old /\ row.enabled)
      BY <1>4, <3>1, <3>2, <3>3
    <3>5. CASE old = read
      BY <1>2, <1>3, <3>4, <3>5 DEF Purging
    <3>6. CASE old # read
      BY <1>1, <2>2, <3>4, <3>6 DEF Yes
    <3> QED
      BY <3>5, <3>6
  <2> QED
    BY <2>1, <2>2
<1>7. /\ \A x \in Reqs : Locals(req'[x])
      /\ \A x \in Reqs : req'[x] = req[x] \/ req'[x].pc \notin {"put", "prime"}
  BY <1>2, <1>3 DEF IInv
<1> QED
  BY <1>1, <1>3, <1>4, <1>5, <1>6, <1>7, TableStep

LEMMA UpdateStep ==
  ASSUME IInv, NEW r \in Reqs, NEW enabled \in BOOLEAN, NEW full \in BOOLEAN,
         NEW left \in 0 .. Forever, UpdateUser(r, enabled, full, left)
  PROVE  IInv'
<1> DEFINE u == req[r].user
           row == IF users[u] = NoRow THEN NoRow
                  ELSE [users[u] EXCEPT !.enabled = enabled, !.full = full, !.left = left]
<1>1. /\ req[r].pc = "write" /\ drawn' = drawn
      /\ Store(r, u, row, req[r].uuid, {req[r].uuid}, Idle)
  BY DEF UpdateUser
<1>2. u \in Users /\ req[r].uuid \in Uuids
  BY <1>1 DEF IInv, Locals
<1>3. users[u] \in Row /\ NoRow \in Row
  BY <1>2, ConstantsAssumption DEF IInv, Types, Row, NoRow, Uuid, Forever
<1>4. row \in Row /\ (row = NoRow \/ (users[u] # NoRow /\ row.uuid = users[u].uuid))
  BY <1>3 DEF Row
<1> HIDE DEF row
<1>5. users' = [users EXCEPT ![u] = row]
  BY <1>1 DEF Store
<1>6. Drawn'
  <2>1. row = NoRow \/ (row.uuid \in Uuids /\ drawn'[row.uuid] = u)
    BY <1>1, <1>2, <1>4 DEF IInv, Drawn
  <2> QED
    BY <1>1, <1>2, <1>5, <2>1, DrawnKept
<1>7. \A c \in Uuids : ~Purging(r, c)
  BY <1>1 DEF Purging
<1>8. {req[r].uuid} \in SUBSET Uuids /\ req[r].uuid \in {req[r].uuid}
  BY <1>2
<1>9. drawn' \in [Uuids -> Users \cup {NoUser}]
  BY <1>1 DEF IInv, Types
<1> QED
  BY <1>1, <1>2, <1>4, <1>6, <1>7, <1>8, <1>9, IdleHandler, StoreStep

LEMMA DeleteStep ==
  ASSUME IInv, NEW r \in Reqs, DeleteUser(r)
  PROVE  IInv'
<1> DEFINE u == req[r].user
<1>1. /\ req[r].pc = "write" /\ drawn' = drawn
      /\ Store(r, u, NoRow, req[r].uuid, {req[r].uuid}, Idle)
  BY DEF DeleteUser
<1>2. u \in Users /\ req[r].uuid \in Uuids
  BY <1>1 DEF IInv, Locals
<1>3. NoRow \in Row
  BY ConstantsAssumption DEF Row, NoRow, Uuid, Forever
<1>4. Drawn'
  <2>1. users' = [users EXCEPT ![u] = NoRow]
    BY <1>1 DEF Store
  <2> QED
    BY <1>1, <1>2, <2>1, DrawnKept
<1>5. \A c \in Uuids : ~Purging(r, c)
  BY <1>1 DEF Purging
<1>6. {req[r].uuid} \in SUBSET Uuids /\ req[r].uuid \in {req[r].uuid}
  BY <1>2
<1>7. drawn' \in [Uuids -> Users \cup {NoUser}]
  BY <1>1 DEF IInv, Types
<1> QED
  BY <1>1, <1>2, <1>3, <1>4, <1>5, <1>6, <1>7, IdleHandler, StoreStep

LEMMA RotateStep ==
  ASSUME IInv, NEW r \in Reqs, NEW c \in Uuids, RotateCredentials(r, c)
  PROVE  IInv'
<1> DEFINE u == req[r].user
           row == IF users[u] = NoRow THEN NoRow ELSE [users[u] EXCEPT !.uuid = c]
           K == {req[r].uuid, c}
<1>1. /\ req[r].pc = "write" /\ drawn[c] = NoUser /\ drawn' = [drawn EXCEPT ![c] = u]
      /\ Store(r, u, row, req[r].uuid, K, Idle)
  BY DEF RotateCredentials
<1>2. u \in Users /\ req[r].uuid \in Uuids
  BY <1>1 DEF IInv, Locals
<1>3. users[u] \in Row /\ NoRow \in Row
  BY <1>2, ConstantsAssumption DEF IInv, Types, Row, NoRow, Uuid, Forever
<1>4. row \in Row /\ (row = NoRow \/ (users[u] # NoRow /\ row.uuid = c))
  BY <1>3 DEF Row, Uuid
<1> HIDE DEF row
<1>5. users' = [users EXCEPT ![u] = row]
  BY <1>1 DEF Store
<1>6. Drawn'
  <2>1. row = NoRow \/ (row.uuid \in Uuids /\ drawn'[row.uuid] = u)
    BY <1>1, <1>4 DEF IInv, Types
  <2>2. \A d \in Uuids : drawn[d] # NoUser => drawn'[d] = drawn[d]
    BY <1>1 DEF IInv, Types
  <2> QED
    BY <1>2, <1>5, <2>1, <2>2, DrawnKept
<1>7. \A d \in Uuids : ~Purging(r, d)
  BY <1>1 DEF Purging
<1>8. K \in SUBSET Uuids /\ req[r].uuid \in K
  BY <1>2
<1> HIDE DEF K
<1>9. drawn' \in [Uuids -> Users \cup {NoUser}]
  BY <1>1, <1>2 DEF IInv, Types
<1> QED
  BY <1>1, <1>2, <1>4, <1>6, <1>7, <1>8, <1>9, IdleHandler, StoreStep

(* The hourly job takes the row off its list and goes on. *)
LEMMA DisableStep ==
  ASSUME IInv, NEW r \in Reqs, NEW u \in Users, DisableExpired(r, u)
  PROVE  IInv'
<1> DEFINE c == req[r].rows[u].uuid
           row == IF users[u] = NoRow THEN NoRow ELSE [users[u] EXCEPT !.enabled = FALSE]
           rest == [req[r].rows EXCEPT ![u] = NoRow]
           q == [req[r] EXCEPT !.rows = rest]
<1>1. /\ req[r].pc = "expire" /\ drawn' = drawn /\ req[r].rows[u] # NoRow
      /\ Store(r, u, row, c, {c}, q)
  BY DEF DisableExpired
<1>2. c \in Uuids
  BY <1>1 DEF IInv, Locals
<1>3. users[u] \in Row /\ NoRow \in Row
  BY ConstantsAssumption DEF IInv, Types, Row, NoRow, Uuid, Forever
<1>4. row \in Row /\ (row = NoRow \/ (users[u] # NoRow /\ row.uuid = users[u].uuid))
  BY <1>3 DEF Row
<1> HIDE DEF row
<1>5. users' = [users EXCEPT ![u] = row]
  BY <1>1 DEF Store
<1>6. Drawn'
  <2>1. row = NoRow \/ (row.uuid \in Uuids /\ drawn'[row.uuid] = u)
    BY <1>1, <1>4 DEF IInv, Drawn
  <2> QED
    BY <1>1, <1>5, <2>1, DrawnKept
<1>7. \A d \in Uuids : ~Purging(r, d)
  BY <1>1 DEF Purging
<1>8. {c} \in SUBSET Uuids /\ c \in {c}
  BY <1>2
<1>9. q \in Handler /\ Locals(q)
  <2>1. req[r] \in Handler /\ Locals(req[r])
    BY DEF IInv, Types
  <2>2. rest \in [Users -> Row] /\ \A w \in Users : rest[w] = NoRow \/ rest[w] = req[r].rows[w]
    BY <1>3, <2>1 DEF Handler
  <2> HIDE DEF rest
  <2> QED
    BY <1>1, <2>1, <2>2 DEF Handler, Locals
<1> HIDE DEF q
<1>10. drawn' \in [Uuids -> Users \cup {NoUser}]
  BY <1>1 DEF IInv, Types
<1> QED
  BY <1>1, <1>4, <1>6, <1>7, <1>8, <1>9, <1>10, StoreStep

LEMMA ResetStep ==
  ASSUME IInv, NEW r \in Reqs, NEW u \in Users, ResetTraffic(r, u)
  PROVE  IInv'
<1> DEFINE row == [users[u] EXCEPT !.full = FALSE]
           v == [Idle EXCEPT !.pc = "reread", !.user = u]
<1>1. /\ req[r].pc = "idle" /\ users[u] # NoRow
      /\ users' = [users EXCEPT ![u] = row]
      /\ req' = [req EXCEPT ![r] = v]
  BY DEF ResetTraffic, IInv, Types
<1>2. UNCHANGED <<drawn, kv, raced, restored>> /\ age' = Later(0) /\ answer' = NoUuid
  BY DEF ResetTraffic
<1>3. row \in Row /\ row.uuid = users[u].uuid /\ row.enabled = users[u].enabled
  BY DEF IInv, Types, Row
<1>4. v \in Handler /\ v.pc = "reread" /\ v.user = u /\ v.rows = NoRows
  BY IdleHandler DEF Handler, Idle
<1> HIDE DEF row, v
<1>5. Locals(v)
  BY <1>4 DEF Locals, NoRows
<1>6. /\ req' \in [Reqs -> Handler] /\ req'[r] = v
      /\ \A x \in Reqs \ {r} : req'[x] = req[x]
  BY <1>1, <1>4, OneMoves DEF IInv
<1>7. /\ users' \in [Users -> Row] /\ users'[u] = row
      /\ \A w \in Users \ {u} : users'[w] = users[w]
  BY <1>1, <1>3 DEF IInv, Types
<1>8. Drawn'
  <2>1. row.uuid \in Uuids /\ drawn'[row.uuid] = u
    BY <1>1, <1>2, <1>3 DEF IInv, Drawn
  <2> QED
    BY <1>1, <1>2, <2>1, DrawnKept
<1>9. StaleYesOnlyByRace'
  <2>1. \A d \in Uuids : Granted(d) => Granted(d)'
    BY <1>3, <1>7 DEF Granted
  <2>2. \A x \in Reqs, d \in Uuids : Purging(x, d) => Purging(x, d)'
    BY <1>1, <1>6 DEF Purging
  <2> QED
    BY <1>2, <2>1, <2>2, GrantsKept
<1>10. /\ \A x \in Reqs : Locals(req'[x])
       /\ \A x \in Reqs : req'[x] = req[x] \/ req'[x].pc \notin {"put", "prime"}
  BY <1>4, <1>5, <1>6 DEF IInv
<1>11. /\ raced' \subseteq Uuids /\ restored' \subseteq Uuids
       /\ drawn' \in [Uuids -> Users \cup {NoUser}]
  BY <1>2 DEF IInv, Types
<1> QED
  BY <1>2, <1>6, <1>7, <1>8, <1>9, <1>10, <1>11, TableStep

LEMMA TrafficStep ==
  ASSUME IInv, NEW u \in Users, RecordTraffic(u)
  PROVE  IInv'
<1> DEFINE row == [users[u] EXCEPT !.full = TRUE]
<1>1. users[u] # NoRow /\ users' = [users EXCEPT ![u] = row]
  BY DEF RecordTraffic, IInv, Types
<1>2. UNCHANGED <<drawn, kv, req, raced, restored>> /\ age' = Later(0) /\ answer' = NoUuid
  BY DEF RecordTraffic
<1>3. row \in Row /\ row.uuid = users[u].uuid /\ row.enabled = users[u].enabled
  BY DEF IInv, Types, Row
<1> HIDE DEF row
<1>4. /\ users' \in [Users -> Row] /\ users'[u] = row
      /\ \A w \in Users \ {u} : users'[w] = users[w]
  BY <1>1, <1>3 DEF IInv, Types
<1>5. Drawn'
  <2>1. row.uuid \in Uuids /\ drawn'[row.uuid] = u
    BY <1>1, <1>2, <1>3 DEF IInv, Drawn
  <2> QED
    BY <1>1, <1>2, <2>1, DrawnKept
<1>6. StaleYesOnlyByRace'
  <2>1. \A d \in Uuids : Granted(d) => Granted(d)'
    BY <1>3, <1>4 DEF Granted
  <2>2. \A x \in Reqs, d \in Uuids : Purging(x, d) => Purging(x, d)'
    BY <1>2 DEF Purging
  <2> QED
    BY <1>2, <2>1, <2>2, GrantsKept
<1>7. /\ req' \in [Reqs -> Handler] /\ (\A x \in Reqs : Locals(req'[x]))
      /\ raced' \subseteq Uuids /\ restored' \subseteq Uuids
      /\ drawn' \in [Uuids -> Users \cup {NoUser}]
  BY <1>2 DEF IInv, Types
<1> QED
  BY <1>2, <1>4, <1>5, <1>6, <1>7, TableStep

(* A restore puts on record the yeses whose grant it takes away.           *)
LEMMA WipeStep ==
  ASSUME IInv, WipeUsers
  PROVE  IInv'
<1>1. /\ users' = NoRows /\ restored' = restored \cup {c \in Yes(Uuids) : Granted(c)}
      /\ UNCHANGED <<drawn, kv, req, raced>> /\ age' = Later(0) /\ answer' = NoUuid
  BY DEF WipeUsers
<1>2. NoRow \in Row
  BY ConstantsAssumption DEF Row, NoRow, Uuid, Forever
<1>3. users' \in [Users -> Row] /\ \A u \in Users : users'[u] = NoRow
  BY <1>1, <1>2 DEF NoRows
<1>4. Drawn'
  BY <1>3 DEF Drawn
<1>5. StaleYesOnlyByRace'
  <2> SUFFICES ASSUME NEW c \in Uuids, kv[c].ok
               PROVE  c \in raced' \cup restored' \/ \E x \in Reqs : Purging(x, c)'
    BY <1>1 DEF StaleYesOnlyByRace
  <2>1. CASE Granted(c)
    BY <1>1, <2>1 DEF Yes
  <2>2. CASE ~Granted(c)
    BY <1>1, <2>2 DEF IInv, StaleYesOnlyByRace, Purging
  <2> QED
    BY <2>1, <2>2
<1>6. /\ req' \in [Reqs -> Handler] /\ (\A x \in Reqs : Locals(req'[x]))
      /\ raced' \subseteq Uuids /\ restored' \subseteq Uuids
      /\ drawn' \in [Uuids -> Users \cup {NoUser}]
  BY <1>1 DEF IInv, Types, Yes
<1> QED
  BY <1>1, <1>3, <1>4, <1>5, <1>6, TableStep

LEMMA RestoreStep ==
  ASSUME IInv, NEW u \in Users, NEW c \in Uuids, NEW row \in BackupRows, RestoreUser(u, c, row)
  PROVE  IInv'
<1> DEFINE old == users[u].uuid
           new == [row EXCEPT !.uuid = c]
<1>1. row \in Row
  BY ConstantsAssumption DEF Given, Row, Uuid, Forever
<1>2. new \in Row /\ new.uuid = c /\ new.enabled = row.enabled
  BY <1>1 DEF Row, Uuid
<1>3. /\ drawn[c] = u /\ users' = [users EXCEPT ![u] = new]
      /\ restored' = IF Granted(old) /\ ~(c = old /\ row.enabled)
                     THEN restored \cup Yes({old}) ELSE restored
      /\ UNCHANGED <<drawn, kv, req, raced>> /\ age' = Later(0) /\ answer' = NoUuid
  BY DEF RestoreUser
<1> HIDE DEF new
<1>4. /\ users' \in [Users -> Row] /\ users'[u] = new
      /\ \A w \in Users \ {u} : users'[w] = users[w]
  BY <1>2, <1>3 DEF IInv, Types
<1>5. Drawn'
  BY <1>2, <1>3, DrawnKept
<1>6. restored \subseteq restored' /\ restored' \subseteq Uuids
  BY <1>3 DEF IInv, Types, Yes
<1>7. StaleYesOnlyByRace'
  <2> SUFFICES ASSUME NEW d \in Uuids, kv[d].ok, ~Granted(d)'
               PROVE  d \in raced' \cup restored' \/ \E x \in Reqs : Purging(x, d)'
    BY <1>3 DEF StaleYesOnlyByRace
  <2>1. CASE ~Granted(d)
    BY <1>3, <1>6, <2>1 DEF IInv, StaleYesOnlyByRace, Purging
  <2>2. CASE Granted(d)
    <3>1. PICK w \in Users : users[w].uuid = d /\ users[w].enabled
      BY <2>2 DEF Granted
    <3>2. ~(users'[w].uuid = d /\ users'[w].enabled)
      BY DEF Granted
    <3>3. w = u
      BY <1>4, <3>1, <3>2
    <3>4. old = d /\ ~(c = old /\ row.enabled)
      BY <1>2, <1>4, <3>1, <3>2, <3>3
    <3> QED
      BY <1>3, <2>2, <3>4 DEF Yes
  <2> QED
    BY <2>1, <2>2
<1>8. /\ req' \in [Reqs -> Handler] /\ (\A x \in Reqs : Locals(req'[x]))
      /\ raced' \subseteq Uuids /\ drawn' \in [Uuids -> Users \cup {NoUser}]
  BY <1>3 DEF IInv, Types
<1> QED
  BY <1>3, <1>4, <1>5, <1>6, <1>7, <1>8, TableStep

-----------------------------------------------------------------------------
(* Steps on the cache.                                                     *)

(* A handler puts a yes that has waited for MaxDelay at most. *)
LEMMA PutStep ==
  ASSUME IInv, NEW r \in Reqs, NEW c \in Uuids, NEW ok \in BOOLEAN, NEW ttl \in 0 .. PrimeTtl,
         PutVerdict(c, ok, ttl), ok => age[c] <= MaxDelay,
         NEW v \in Handler, req' = [req EXCEPT ![r] = v], Locals(v), InTime(v),
         \A d \in Uuids : ~Purging(r, d), UNCHANGED <<users, drawn, age>>, answer' \in Uuid
  PROVE  IInv'
<1>1. CASE UNCHANGED <<kv, raced, restored>>
  BY <1>1, QuietStep
<1>2. CASE /\ kv' = [kv EXCEPT ![c] = [ok |-> ok, ttl |-> ttl]]
           /\ raced' = IF ok /\ ~Granted(c) /\ ~\E x \in Reqs : Purging(x, c)
                       THEN raced \cup {c} ELSE raced \ {c}
           /\ restored' = restored \ {c}
  <2> DEFINE new == [ok |-> ok, ttl |-> ttl]
  <2>1. new \in [ok : BOOLEAN, ttl : 0 .. PrimeTtl] /\ new.ok = ok /\ new.ttl = ttl
    OBVIOUS
  <2>2. kv' = [kv EXCEPT ![c] = new]
    BY <1>2
  <2> HIDE DEF new
  <2>3. /\ kv' \in [Uuids -> [ok : BOOLEAN, ttl : 0 .. PrimeTtl]]
        /\ kv'[c] = new /\ \A d \in Uuids \ {c} : kv'[d] = kv[d]
    BY <2>1, <2>2 DEF IInv, Types
  <2>4. /\ req' \in [Reqs -> Handler] /\ req'[r] = v
        /\ \A x \in Reqs \ {r} : req'[x] = req[x]
    BY OneMoves DEF IInv
  <2>5. raced' \subseteq Uuids /\ restored' \subseteq Uuids
    BY <1>2 DEF IInv, Types
  <2>6. Types'
    BY <2>3, <2>4, <2>5 DEF IInv, Types
  <2>7. Drawn'
    BY DEF IInv, Drawn
  <2>8. \A x \in Reqs : Locals(req'[x]) /\ InTime(req'[x])
    BY <2>4 DEF IInv, Timely
  <2>9. \A x \in Reqs : Locals(req[x])' /\ InTime(req[x])'
    BY <2>8 DEF Locals, InTime
  <2>10. StaleYesOnlyByRace'
    <3> SUFFICES ASSUME NEW d \in Uuids, kv'[d].ok, ~Granted(d)'
                 PROVE  d \in raced' \cup restored' \/ \E x \in Reqs : Purging(x, d)'
      BY DEF StaleYesOnlyByRace
    <3>1. ~Granted(d)
      BY DEF Granted
    <3>2. \A x \in Reqs : Purging(x, d) => Purging(x, d)'
      BY <2>4 DEF Purging
    <3>3. CASE d = c
      BY <1>2, <2>1, <2>3, <3>1, <3>2, <3>3
    <3>4. CASE d # c
      BY <1>2, <2>3, <3>1, <3>2, <3>4 DEF IInv, StaleYesOnlyByRace
    <3> QED
      BY <3>3, <3>4
  <2>11. \A d \in Uuids : kv'[d].ok => age[d] + kv'[d].ttl <= Window
    <3>1. age[c] \in Nat /\ ttl \in Nat /\ ttl <= PrimeTtl
      BY ConstantsAssumption DEF IInv, Types, Window
    <3>2. ok => age[c] + ttl <= Window
      BY <3>1, ConstantsAssumption DEF Window
    <3> QED
      BY <2>1, <2>3, <3>2 DEF IInv, Timely
  <2>12. Timely'
    BY <2>9, <2>11 DEF IInv, Timely, IsAllowed
  <2> QED
    BY <2>6, <2>7, <2>9, <2>10, <2>12 DEF IInv
<1> QED
  BY <1>1, <1>2 DEF PutVerdict

LEMMA DecideStep ==
  ASSUME IInv, NEW r \in Reqs, Decide(r)
  PROVE  IInv'
<1>1. /\ req[r].pc = "put" /\ req' = [req EXCEPT ![r] = Idle]
      /\ PutVerdict(req[r].uuid, req[r].ok, EdgeTtl)
      /\ UNCHANGED <<users, drawn, age>>
      /\ answer' = IF req[r].ok THEN req[r].uuid ELSE NoUuid
  BY DEF Decide
<1>2. req[r] \in Handler /\ Locals(req[r]) /\ InTime(req[r])
  BY DEF IInv, Types, Timely
<1>3. req[r].uuid \in Uuids /\ req[r].ok \in BOOLEAN /\ EdgeTtl \in 0 .. PrimeTtl
  BY <1>1, <1>2, ConstantsAssumption DEF Locals, Handler
<1>4. req[r].ok => age[req[r].uuid] <= MaxDelay
  <2>1. req[r].wait \in 0 .. MaxDelay /\ age[req[r].uuid] \in Nat
    BY <1>2, <1>3, ConstantsAssumption DEF Handler, IInv, Types, Window
  <2>2. req[r].ok => age[req[r].uuid] <= req[r].wait
    BY <1>1, <1>2 DEF InTime
  <2> QED
    BY <2>1, <2>2, ConstantsAssumption
<1>5. answer' \in Uuid /\ \A d \in Uuids : ~Purging(r, d)
  BY <1>1, <1>3 DEF Uuid, Purging
<1> QED
  BY <1>1, <1>3, <1>4, <1>5, IdleHandler, PutStep

LEMMA PrimeStep ==
  ASSUME IInv, NEW r \in Reqs, NEW u \in Users, PrimeRow(r, u)
  PROVE  IInv'
<1> DEFINE row == req[r].rows[u]
           rest == [req[r].rows EXCEPT ![u] = NoRow]
           v == [req[r] EXCEPT !.rows = rest]
           ok == Passes(row)
<1>1. /\ req[r].pc = "prime" /\ row # NoRow /\ req' = [req EXCEPT ![r] = v]
      /\ PutVerdict(row.uuid, ok, PrimeTtl)
      /\ UNCHANGED <<users, drawn, age>> /\ answer' = NoUuid
  BY DEF PrimeRow
<1>2. req[r] \in Handler /\ Locals(req[r]) /\ InTime(req[r])
  BY DEF IInv, Types, Timely
<1>3. NoRow \in Row
  BY ConstantsAssumption DEF Row, NoRow, Uuid, Forever
<1>4. row \in Row /\ row.uuid \in Uuids /\ PrimeTtl \in 0 .. PrimeTtl
  BY <1>1, <1>2, ConstantsAssumption DEF Locals, Handler
<1>5. ok \in BOOLEAN
  BY <1>4 DEF Passes, Row
<1>6. ok => age[row.uuid] <= MaxDelay
  <2>1. req[r].wait \in 0 .. MaxDelay /\ age[row.uuid] \in Nat
    BY <1>2, <1>4, ConstantsAssumption DEF Handler, IInv, Types, Window
  <2>2. ok => age[row.uuid] <= req[r].wait
    BY <1>1, <1>2 DEF InTime
  <2> QED
    BY <2>1, <2>2, ConstantsAssumption
<1>7. v \in Handler /\ Locals(v) /\ InTime(v)
  <2>1. rest \in [Users -> Row] /\ \A w \in Users : rest[w] = NoRow \/ rest[w] = req[r].rows[w]
    BY <1>2, <1>3 DEF Handler
  <2> HIDE DEF rest
  <2>2. /\ v \in Handler /\ v.pc = "prime" /\ v.rows = rest /\ v.wait = req[r].wait
    BY <1>1, <1>2, <2>1 DEF Handler
  <2> HIDE DEF v, row, ok
  <2> QED
    BY <1>1, <1>2, <2>1, <2>2 DEF Locals, InTime
<1>8. answer' \in Uuid /\ \A d \in Uuids : ~Purging(r, d)
  BY <1>1 DEF Uuid, Purging
<1> HIDE DEF v, row, ok
<1> QED
  BY <1>1, <1>4, <1>5, <1>6, <1>7, <1>8, PutStep

(* Every delete that is left out puts the yes on record. *)
LEMMA PurgeStep ==
  ASSUME IInv, NEW r \in Reqs, NEW c \in Uuids, Purge(r, c)
  PROVE  IInv'
<1> DEFINE v == [req[r] EXCEPT !.keys = req[r].keys \ {c}]
<1>1. /\ req[r].pc = "purge" /\ c \in req[r].keys /\ req' = [req EXCEPT ![r] = v]
      /\ UNCHANGED <<users, drawn, age>> /\ answer' = NoUuid
      /\ \/ /\ kv' = [kv EXCEPT ![c] = NoVerdict]
            /\ raced' = raced \ {c} /\ restored' = restored \ {c}
         \/ (raced' = raced \cup Yes({c}) /\ UNCHANGED <<kv, restored>>)
  BY DEF Purge, Purging
<1>2. req[r] \in Handler /\ Locals(req[r])
  BY DEF IInv, Types
<1>3. v \in Handler /\ v.pc = "purge" /\ v.keys = req[r].keys \ {c} /\ Locals(v) /\ InTime(v)
  BY <1>1, <1>2 DEF Handler, Locals, InTime
<1> HIDE DEF v
<1>4. /\ req' \in [Reqs -> Handler] /\ req'[r] = v
      /\ \A x \in Reqs \ {r} : req'[x] = req[x]
  BY <1>1, <1>3, OneMoves DEF IInv
<1>5. NoVerdict \in [ok : BOOLEAN, ttl : 0 .. PrimeTtl] /\ ~NoVerdict.ok
  BY ConstantsAssumption DEF NoVerdict
<1>6. /\ kv' \in [Uuids -> [ok : BOOLEAN, ttl : 0 .. PrimeTtl]]
      /\ \A d \in Uuids : kv'[d] = kv[d] \/ (d = c /\ ~kv'[d].ok)
      /\ kv'[c].ok => kv' = kv
  BY <1>1, <1>5 DEF IInv, Types
<1>7. Types'
  <2>1. raced' \subseteq Uuids /\ restored' \subseteq Uuids
    BY <1>1 DEF IInv, Types, Yes
  <2> QED
    BY <1>1, <1>4, <1>6, <2>1, NoUuidIsUuid DEF IInv, Types
<1>8. Drawn'
  BY <1>1 DEF IInv, Drawn
<1>9. \A x \in Reqs : Locals(req'[x]) /\ InTime(req'[x])
  BY <1>3, <1>4 DEF IInv, Timely
<1>10. \A x \in Reqs : Locals(req[x])' /\ InTime(req[x])'
  BY <1>1, <1>9 DEF Locals, InTime
<1>11. StaleYesOnlyByRace'
  <2> SUFFICES ASSUME NEW d \in Uuids, kv'[d].ok, ~Granted(d)'
               PROVE  d \in raced' \cup restored' \/ \E x \in Reqs : Purging(x, d)'
    BY DEF StaleYesOnlyByRace
  <2>1. kv[d].ok /\ ~Granted(d)
    BY <1>1, <1>6 DEF Granted
  <2>2. CASE d = c
    BY <1>1, <1>5, <2>1, <2>2 DEF Yes, IInv, Types
  <2>3. CASE d # c
    <3>1. \A x \in Reqs : Purging(x, d) => Purging(x, d)'
      BY <1>1, <1>3, <1>4, <2>3 DEF Purging
    <3>2. d \in raced \cup restored => d \in raced' \cup restored'
      BY <1>1, <2>3
    <3> QED
      BY <2>1, <3>1, <3>2 DEF IInv, StaleYesOnlyByRace
  <2> QED
    BY <2>2, <2>3
<1>12. Timely'
  BY <1>1, <1>6, <1>10 DEF IInv, Timely, IsAllowed
<1> QED
  BY <1>7, <1>8, <1>10, <1>11, <1>12 DEF IInv

LEMMA AbortStep ==
  ASSUME IInv, NEW r \in Reqs, Abort(r)
  PROVE  IInv'
<1>1. /\ req' = [req EXCEPT ![r] = Idle]
      /\ raced' = raced \cup Yes(IF req[r].pc = "purge" THEN req[r].keys ELSE {})
      /\ UNCHANGED <<users, drawn, kv, age, restored>> /\ answer' = NoUuid
  BY DEF Abort
<1>2. /\ req' \in [Reqs -> Handler] /\ req'[r] = Idle
      /\ \A x \in Reqs \ {r} : req'[x] = req[x]
  BY <1>1, IdleHandler, OneMoves DEF IInv
<1>3. Types' /\ raced \subseteq raced'
  BY <1>1, <1>2, NoUuidIsUuid DEF IInv, Types, Yes
<1>4. Drawn'
  BY <1>1 DEF IInv, Drawn
<1>5. \A x \in Reqs : Locals(req'[x]) /\ InTime(req'[x])
  BY <1>2, IdleHandler DEF IInv, Timely
<1>6. \A x \in Reqs : Locals(req[x])' /\ InTime(req[x])'
  BY <1>1, <1>5 DEF Locals, InTime
<1>7. StaleYesOnlyByRace'
  <2> SUFFICES ASSUME NEW c \in Uuids, kv[c].ok, ~Granted(c)
               PROVE  c \in raced' \cup restored' \/ \E x \in Reqs : Purging(x, c)'
    BY <1>1 DEF StaleYesOnlyByRace, Granted
  <2>1. c \in raced \cup restored \/ \E x \in Reqs : Purging(x, c)
    BY DEF IInv, StaleYesOnlyByRace
  <2>2. Purging(r, c) => c \in raced'
    BY <1>1 DEF Purging, Yes
  <2>3. \A x \in Reqs \ {r} : Purging(x, c) => Purging(x, c)'
    BY <1>2 DEF Purging
  <2> QED
    BY <1>1, <1>3, <2>1, <2>2, <2>3
<1>8. Timely'
  BY <1>1, <1>6 DEF IInv, Timely, IsAllowed
<1> QED
  BY <1>3, <1>4, <1>6, <1>7, <1>8 DEF IInv

LEMMA HitStep ==
  ASSUME IInv, NEW c \in Uuids, Hit(c)
  PROVE  IInv'
<1>1. UNCHANGED <<users, drawn, kv, req, age, raced, restored>> /\ answer' = c
  BY DEF Hit
<1>2. Types'
  BY <1>1 DEF IInv, Types, Uuid
<1>3. \A x \in Reqs : Locals(req[x])' /\ InTime(req[x])'
  BY <1>1 DEF IInv, Timely, Locals, InTime
<1>4. Drawn' /\ StaleYesOnlyByRace'
  BY <1>1 DEF IInv, Drawn, StaleYesOnlyByRace, Granted, Purging
<1>5. Timely'
  BY <1>1, <1>3 DEF IInv, Timely, IsAllowed
<1> QED
  BY <1>2, <1>3, <1>4, <1>5 DEF IInv

-----------------------------------------------------------------------------
(* A tick: what lives grows shorter by what ages grow.                     *)

LEMMA ShorterRow ==
  ASSUME NEW row \in Row
  PROVE  /\ Shorter(row) \in Row
         /\ Shorter(row).uuid = row.uuid /\ Shorter(row).enabled = row.enabled
         /\ Passes(Shorter(row)) => Passes(row)
         /\ row = NoRow => Shorter(row) = NoRow
         /\ Shorter(row) = NoRow => row.uuid = NoUuid
<1> DEFINE left == IF row.left \in {0, Forever} THEN row.left ELSE row.left - 1
<1>1. Shorter(row) = [row EXCEPT !.left = left]
  BY DEF Shorter
<1>2. left \in 0 .. Forever /\ (left # 0 => row.left # 0) /\ (row.left = 0 => left = 0)
  BY ConstantsAssumption DEF Row, Forever
<1> HIDE DEF left
<1>3. /\ Shorter(row) \in Row /\ Shorter(row).left = left
      /\ Shorter(row).uuid = row.uuid /\ Shorter(row).enabled = row.enabled
      /\ Shorter(row).full = row.full
  BY <1>1, <1>2 DEF Row
<1> DEFINE s == Shorter(row)
<1> HIDE DEF s
<1>4. ASSUME s.enabled = row.enabled, s.full = row.full, s.left = left
      PROVE  Passes(s) => Passes(row)
  <2>1. left # 0 => row.left # 0
    BY <1>2
  <2> QED
    BY <1>4, <2>1 DEF Passes
<1>5. ASSUME row = NoRow PROVE Shorter(row) = NoRow
  <2>1. row.left = 0
    BY <1>5 DEF NoRow
  <2>2. left = 0
    BY <1>2, <2>1
  <2>3. Shorter(row) = [row EXCEPT !.left = 0]
    BY <1>1, <2>2
  <2> QED
    BY <1>5, <2>3 DEF NoRow
<1>6. Shorter(row) = NoRow => row.uuid = NoUuid
  BY <1>3 DEF NoRow
<1>7. Passes(Shorter(row)) => Passes(row)
  BY <1>3, <1>4 DEF s
<1> QED
  BY <1>3, <1>5, <1>6, <1>7

LEMMA TickStep ==
  ASSUME IInv, Tick
  PROVE  IInv'
<1> DEFINE Held(q) == q.pc \in {"put", "prime"}
           w(x) == IF Held(req[x]) THEN req[x].wait + 1 ELSE 0
           rows(x) == [u \in Users |-> Shorter(req[x].rows[u])]
<1>1. /\ \A x \in Reqs : Held(req[x]) => req[x].wait < MaxDelay
      /\ users' = [u \in Users |-> Shorter(users[u])]
      /\ kv' = [c \in Uuids |-> IF kv[c].ttl <= 1 THEN NoVerdict
                                ELSE [kv[c] EXCEPT !.ttl = kv[c].ttl - 1]]
      /\ req' = [x \in Reqs |-> [req[x] EXCEPT !.wait = w(x), !.rows = rows(x)]]
      /\ age' = Later(1) /\ answer' = NoUuid
      /\ raced' = {c \in raced : kv[c].ttl > 1} /\ drawn' = drawn
      /\ restored' = {c \in restored : kv[c].ttl > 1}
  BY DEF Tick
<1>2. Window \in Nat /\ Window + 1 \in Nat
  BY ConstantsAssumption DEF Window
<1>3. ASSUME NEW x \in Reqs
      PROVE  /\ req'[x] \in Handler /\ req'[x].wait = w(x) /\ req'[x].rows = rows(x)
             /\ req'[x].pc = req[x].pc /\ req'[x].ok = req[x].ok /\ req'[x].uuid = req[x].uuid
             /\ req'[x].user = req[x].user /\ req'[x].keys = req[x].keys
  <2>1. req[x] \in Handler
    BY DEF IInv, Types
  <2>2. w(x) \in 0 .. MaxDelay
    <3>1. req[x].wait \in 0 .. MaxDelay
      BY <2>1 DEF Handler
    <3>2. Held(req[x]) => req[x].wait < MaxDelay
      BY <1>1
    <3> QED
      BY <3>1, <3>2, ConstantsAssumption
  <2>3. rows(x) \in [Users -> Row]
    BY <2>1, ShorterRow DEF Handler
  <2>4. req'[x] = [req[x] EXCEPT !.wait = w(x), !.rows = rows(x)]
    BY <1>1
  <2> HIDE DEF w, rows
  <2> QED
    BY <2>1, <2>2, <2>3, <2>4 DEF Handler
<1>4. req' \in [Reqs -> Handler]
  <2>1. req' = [x \in Reqs |-> req'[x]]
    BY <1>1
  <2> QED
    BY <1>3, <2>1
<1>5. \A u \in Users : users[u] \in Row /\ users'[u] = Shorter(users[u])
  BY <1>1 DEF IInv, Types
<1>6. users' \in [Users -> Row]
  BY <1>1, <1>5, ShorterRow
<1>7. \A c \in Uuids : /\ IsAllowed(c)' => IsAllowed(c)
                       /\ Granted(c) <=> Granted(c)'
  BY <1>5, ShorterRow DEF IsAllowed, Granted
<1>8. ASSUME NEW c \in Uuids
      PROVE  /\ age[c] \in Nat /\ age'[c] \in 0 .. Window + 1 /\ age'[c] <= age[c] + 1
             /\ IsAllowed(c)' => age'[c] = 0
  <2>1. age[c] \in 0 .. Window + 1
    BY DEF IInv, Types
  <2>2. age'[c] = IF IsAllowed(c)' THEN 0
                  ELSE IF age[c] + 1 <= Window + 1 THEN age[c] + 1 ELSE Window + 1
    BY <1>1 DEF Later
  <2> QED
    BY <1>2, <2>1, <2>2
<1>9. age' \in [Uuids -> 0 .. Window + 1]
  <2>1. age' = [c \in Uuids |-> age'[c]]
    BY <1>1 DEF Later
  <2> QED
    BY <1>8, <2>1
<1>10. ASSUME NEW c \in Uuids
       PROVE  /\ kv'[c] \in [ok : BOOLEAN, ttl : 0 .. PrimeTtl]
              /\ kv'[c].ok => kv[c].ok /\ kv[c].ttl > 1 /\ kv'[c].ttl + 1 = kv[c].ttl
  <2>1. kv[c] \in [ok : BOOLEAN, ttl : 0 .. PrimeTtl]
    BY DEF IInv, Types
  <2>2. CASE kv[c].ttl <= 1
    <3>1. kv'[c] = NoVerdict
      BY <1>1, <2>2
    <3> QED
      BY <3>1, ConstantsAssumption DEF NoVerdict
  <2>3. CASE ~(kv[c].ttl <= 1)
    <3>1. kv'[c] = [kv[c] EXCEPT !.ttl = kv[c].ttl - 1]
      BY <1>1, <2>3
    <3>2. kv[c].ttl - 1 \in 0 .. PrimeTtl /\ kv[c].ttl > 1 /\ (kv[c].ttl - 1) + 1 = kv[c].ttl
      BY <2>1, <2>3, ConstantsAssumption
    <3> QED
      BY <2>1, <3>1, <3>2
  <2> QED
    BY <2>2, <2>3
<1>11. Types'
  <2>1. kv' \in [Uuids -> [ok : BOOLEAN, ttl : 0 .. PrimeTtl]]
    <3>1. kv' = [c \in Uuids |-> kv'[c]]
      BY <1>1
    <3> QED
      BY <1>10, <3>1
  <2>2. raced' \subseteq Uuids /\ restored' \subseteq Uuids
    BY <1>1 DEF IInv, Types
  <2> QED
    BY <1>1, <1>4, <1>6, <1>9, <2>1, <2>2, NoUuidIsUuid DEF IInv, Types
<1>12. Drawn'
  <2>1. \A u \in Users : /\ users'[u].uuid = users[u].uuid
                         /\ users[u] = NoRow => users'[u] = NoRow
    BY <1>5, ShorterRow
  <2> QED
    BY <1>1, <2>1 DEF IInv, Drawn
<1>13. ASSUME NEW x \in Reqs PROVE Locals(req[x])'
  <2>1. \A u \in Users : /\ req[x].rows[u] \in Row
                         /\ req'[x].rows[u] = Shorter(req[x].rows[u])
    <3>1. req[x].rows \in [Users -> Row]
      BY DEF IInv, Types, Handler
    <3>2. req'[x].rows = rows(x)
      BY <1>3
    <3> QED
      BY <3>1, <3>2
  <2>2. \A u \in Users : req'[x].rows[u] # NoRow => req'[x].rows[u].uuid \in Uuids
    BY <2>1, ShorterRow DEF IInv, Locals
  <2> QED
    BY <1>3, <2>2 DEF IInv, Locals
<1>14. ASSUME NEW x \in Reqs PROVE InTime(req[x])'
  <2>1. req[x] \in Handler /\ Locals(req[x]) /\ InTime(req[x])
    BY DEF IInv, Types, Timely
  <2>2. req[x].wait \in Nat /\ (Held(req[x]) => req'[x].wait = req[x].wait + 1)
    <3>1. req[x].wait \in Nat
      BY <2>1, ConstantsAssumption DEF Handler
    <3>2. req'[x].wait = w(x)
      BY <1>3
    <3> QED
      BY <3>1, <3>2
  <2>3. req[x].pc = "put" /\ req[x].ok => age'[req[x].uuid] <= req'[x].wait
    <3> SUFFICES ASSUME req[x].pc = "put", req[x].ok PROVE age'[req[x].uuid] <= req'[x].wait
      OBVIOUS
    <3>1. req[x].uuid \in Uuids /\ age[req[x].uuid] <= req[x].wait
      BY <2>1 DEF Locals, InTime
    <3> QED
      BY <1>2, <1>8, <2>2, <3>1
  <2>4. ASSUME req[x].pc = "prime", NEW u \in Users, req'[x].rows[u] # NoRow,
               Passes(req'[x].rows[u])
        PROVE  age'[req'[x].rows[u].uuid] <= req'[x].wait
    <3>1. req[x].rows[u] \in Row /\ req'[x].rows[u] = Shorter(req[x].rows[u])
      BY <1>3, <2>1 DEF Handler
    <3>2. /\ req'[x].rows[u].uuid = req[x].rows[u].uuid
          /\ req[x].rows[u] # NoRow /\ Passes(req[x].rows[u])
      BY <2>4, <3>1, ShorterRow
    <3>3. req[x].rows[u].uuid \in Uuids /\ age[req[x].rows[u].uuid] <= req[x].wait
      BY <2>1, <2>4, <3>2 DEF Locals, InTime
    <3> QED
      BY <1>2, <1>8, <2>2, <2>4, <3>2, <3>3
  <2> QED
    BY <1>3, <2>3, <2>4 DEF InTime
<1>15. StaleYesOnlyByRace'
  <2> SUFFICES ASSUME NEW c \in Uuids, kv'[c].ok, ~Granted(c)'
               PROVE  c \in raced' \cup restored' \/ \E x \in Reqs : Purging(x, c)'
    BY DEF StaleYesOnlyByRace
  <2>1. kv[c].ok /\ kv[c].ttl > 1 /\ ~Granted(c)
    BY <1>7, <1>10
  <2>2. c \in raced \cup restored \/ \E x \in Reqs : Purging(x, c)
    BY <2>1 DEF IInv, StaleYesOnlyByRace
  <2> QED
    BY <1>1, <1>3, <2>1, <2>2 DEF Purging
<1>16. Timely'
  <2>1. \A c \in Uuids : kv'[c].ok => age'[c] + kv'[c].ttl <= Window
    <3> SUFFICES ASSUME NEW c \in Uuids, kv'[c].ok PROVE age'[c] + kv'[c].ttl <= Window
      OBVIOUS
    <3>1. age[c] + kv[c].ttl <= Window
      BY <1>10 DEF IInv, Timely
    <3>2. kv'[c].ttl \in Nat
      BY <1>10, ConstantsAssumption
    <3> QED
      BY <1>2, <1>8, <1>10, <3>1, <3>2
  <2> QED
    BY <1>8, <1>14, <2>1 DEF Timely
<1> QED
  BY <1>11, <1>12, <1>13, <1>15, <1>16 DEF IInv

-----------------------------------------------------------------------------
(* The invariant.                                                          *)

LEMMA NextInv == IInv /\ [Next]_vars => IInv'
<1> SUFFICES ASSUME IInv, [Next]_vars PROVE IInv'
  OBVIOUS
<1>1. CASE Tick
  BY <1>1, TickStep
<1>2. ASSUME NEW c \in Uuids, Hit(c) PROVE IInv'
  BY <1>2, HitStep
<1>3. ASSUME NEW u \in Users, RecordTraffic(u) PROVE IInv'
  BY <1>3, TrafficStep
<1>4. ASSUME NEW r \in Reqs, Edge(r) PROVE IInv'
  BY <1>4, LookupStep, DecideStep DEF Edge
<1>5. ASSUME NEW r \in Reqs, ControlPlane(r) PROVE IInv'
  <2>1. ASSUME NEW u \in Users, NEW c \in Uuids, NEW row \in Given(c), CreateUser(r, u, c, row)
        PROVE  IInv'
    BY <2>1, CreateStep
  <2>2. ASSUME NEW u \in Users, NEW op \in {"update", "delete", "rotate"}, ReadUser(r, u, op)
        PROVE  IInv'
    BY <2>2, ReadUserStep
  <2>3. ASSUME NEW enabled \in BOOLEAN, NEW full \in BOOLEAN, NEW left \in 0 .. Forever,
               UpdateUser(r, enabled, full, left)
        PROVE  IInv'
    BY <2>3, UpdateStep
  <2>4. ASSUME NEW c \in Uuids, RotateCredentials(r, c) \/ Purge(r, c) PROVE IInv'
    BY <2>4, RotateStep, PurgeStep
  <2>5. ASSUME NEW u \in Users, ResetTraffic(r, u) \/ PrimeRow(r, u) \/ DisableExpired(r, u)
        PROVE  IInv'
    BY <2>5, ResetStep, PrimeStep, DisableStep
  <2>6. CASE DeleteUser(r) \/ Reread(r) \/ Purged(r) \/ SyncUsers(r)
    BY <2>6, DeleteStep, RereadStep, PurgedStep, SyncStep
  <2>7. CASE Primed(r) \/ SelectExpired(r) \/ CronDone(r)
    BY <2>7, PrimedStep, SelectStep
  <2> QED
    BY <1>5, <2>1, <2>2, <2>3, <2>4, <2>5, <2>6, <2>7 DEF ControlPlane
<1>6. ASSUME NEW r \in Reqs, Abort(r) PROVE IInv'
  BY <1>6, AbortStep
<1>7. CASE WipeUsers
  BY <1>7, WipeStep
<1>8. ASSUME NEW u \in Users, NEW c \in Uuids, NEW row \in BackupRows, RestoreUser(u, c, row)
      PROVE  IInv'
  BY <1>8, RestoreStep
<1>9. CASE UNCHANGED vars
  <2>1. \A x \in Reqs : Locals(req[x])' /\ InTime(req[x])'
    BY <1>9 DEF vars, IInv, Timely, Locals, InTime
  <2>2. Types' /\ Drawn' /\ StaleYesOnlyByRace'
    BY <1>9 DEF vars, IInv, Types, Drawn, StaleYesOnlyByRace, Granted, Purging
  <2>3. Timely'
    BY <1>9, <2>1 DEF vars, IInv, Timely, IsAllowed
  <2> QED
    BY <2>1, <2>2, <2>3 DEF IInv
<1> QED
  BY <1>1, <1>2, <1>3, <1>4, <1>5, <1>6, <1>7, <1>8, <1>9 DEF Next

(* The inductive invariant: types, what handlers carry, causes of stale    *)
(* yeses, and the account of time.                                         *)
THEOREM Invariance == Spec => []IInv
<1> QED
  BY InitInv, NextInv, PTL DEF Spec

(* Rows, cached verdicts and locals have their types, and a credential is  *)
(* that of the user it was drawn for.                                      *)
THEOREM TypeCorrect == Spec => []TypeOK
<1>1. IInv => TypeOK
  BY DEF IInv, Drawn, TypeOK
<1> QED
  BY <1>1, Invariance, PTL

(* A cached yes for a credential that was switched off, deleted or rotated *)
(* away is about to be deleted, or its invalidation was lost, or the grant *)
(* went with a restore, which deletes no key.                              *)
THEOREM StaleYesHasCause == Spec => []StaleYesOnlyByRace
<1>1. IInv => StaleYesOnlyByRace
  BY DEF IInv
<1> QED
  BY <1>1, Invariance, PTL

-----------------------------------------------------------------------------
(* The refinement of Access.                                               *)

LEMMA InitRefines == Init => Abstract!AccessInit
<1> SUFFICES ASSUME Init PROVE Abstract!AccessInit
  OBVIOUS
<1>1. \A c \in Uuids : ~IsAllowed(c)
  BY DEF Init, IsAllowed, Passes, NoRow
<1>2. Allowed = {}
  BY <1>1 DEF Allowed
<1> QED
  BY <1>2 DEF Init, Abstract!AccessInit

(* The ages of both are the same. *)
LEMMA AgesAgree ==
  /\ Later(0) = Abstract!Older(Allowed', 0)
  /\ Later(1) = Abstract!Older(Allowed', 1)
<1>1. \A c \in Uuids : c \in Allowed' <=> IsAllowed(c)'
  BY DEF Allowed
<1> QED
  BY <1>1 DEF Later, Abstract!Older

LEMMA ChangeRefines ==
  ASSUME age' = Later(0), answer' = NoUuid
  PROVE  Abstract!Change
  BY AgesAgree DEF Abstract!Change, Allowed

(* A step that leaves the table alone and lets nobody in. *)
LEMMA RestRefines ==
  ASSUME IInv, users' = users, age' = age, answer' = NoUuid
  PROVE  Abstract!Change
<1>1. Allowed' = Allowed /\ \A c \in Uuids : c \in Allowed <=> IsAllowed(c)
  BY DEF Allowed, IsAllowed
<1>2. \A c \in Uuids : /\ age[c] \in 0 .. Window + 1
                       /\ IsAllowed(c) => age[c] = 0
  BY DEF IInv, Types, Timely
<1>3. Window + 1 \in Nat
  BY ConstantsAssumption DEF Window
<1>4. \A c \in Uuids : age[c] = IF c \in Allowed THEN 0
                                ELSE IF age[c] + 0 <= Window + 1 THEN age[c] + 0 ELSE Window + 1
  BY <1>1, <1>2, <1>3
<1>5. age = [c \in Uuids |-> age[c]]
  BY DEF IInv, Types
<1>6. age = Abstract!Older(Allowed, 0)
  BY <1>4, <1>5 DEF Abstract!Older
<1> QED
  BY <1>1, <1>6 DEF Abstract!Change, Allowed

LEMMA LetInRefines ==
  ASSUME NEW c \in Uuids, age[c] <= Window, users' = users, age' = age, answer' = c
  PROVE  Abstract!LetIn(c)
<1>1. Allowed' = Allowed
  BY DEF Allowed, IsAllowed
<1> QED
  BY <1>1 DEF Abstract!LetIn

LEMMA HitRefines ==
  ASSUME IInv, NEW c \in Uuids, Hit(c)
  PROVE  Abstract!LetIn(c)
<1>1. kv[c].ok /\ UNCHANGED <<users, age>> /\ answer' = c
  BY DEF Hit
<1>2. age[c] + kv[c].ttl <= Window /\ age[c] \in Nat /\ kv[c].ttl \in Nat /\ Window \in Nat
  BY <1>1, ConstantsAssumption DEF IInv, Types, Timely, Window
<1>3. age[c] <= Window
  BY <1>2
<1> QED
  BY <1>1, <1>3, LetInRefines

LEMMA DecideRefines ==
  ASSUME IInv, NEW r \in Reqs, Decide(r)
  PROVE  Abstract!AccessNext
<1> DEFINE c == req[r].uuid
<1>1. /\ req[r].pc = "put" /\ UNCHANGED <<users, age>>
      /\ answer' = IF req[r].ok THEN c ELSE NoUuid
  BY DEF Decide
<1>2. req[r] \in Handler /\ Locals(req[r]) /\ InTime(req[r])
  BY DEF IInv, Types, Timely
<1>3. CASE req[r].ok
  <2>1. c \in Uuids /\ age[c] <= req[r].wait
    BY <1>1, <1>2, <1>3 DEF Locals, InTime
  <2>2. req[r].wait \in 0 .. MaxDelay /\ age[c] \in Nat
    BY <1>2, <2>1, ConstantsAssumption DEF Handler, IInv, Types, Window
  <2>3. age[c] <= Window
    BY <2>1, <2>2, ConstantsAssumption DEF Window
  <2> QED
    BY <1>1, <1>3, <2>1, <2>3, LetInRefines DEF Abstract!AccessNext
<1>4. CASE ~req[r].ok
  BY <1>1, <1>4, RestRefines DEF Abstract!AccessNext
<1> QED
  BY <1>3, <1>4

LEMMA TickRefines ==
  ASSUME IInv, Tick
  PROVE  Abstract!Pass
<1>1. age' = Later(1) /\ answer' = NoUuid /\ users' = [u \in Users |-> Shorter(users[u])]
  BY DEF Tick
<1>2. \A u \in Users : users[u] \in Row /\ users'[u] = Shorter(users[u])
  BY <1>1 DEF IInv, Types
<1>3. \A c \in Uuids : IsAllowed(c)' => IsAllowed(c)
  BY <1>2, ShorterRow DEF IsAllowed
<1>4. Allowed' \subseteq Allowed
  BY <1>3 DEF Allowed
<1> QED
  BY <1>1, <1>4, AgesAgree DEF Abstract!Pass

LEMMA NextRefines == IInv /\ [Next]_vars => [Abstract!AccessNext]_(Abstract!accessVars)
<1> SUFFICES ASSUME IInv, [Next]_vars
             PROVE  Abstract!AccessNext \/ UNCHANGED Abstract!accessVars
  OBVIOUS
<1>1. CASE Tick
  BY <1>1, TickRefines DEF Abstract!AccessNext
<1>2. ASSUME NEW c \in Uuids, Hit(c) PROVE Abstract!AccessNext
  BY <1>2, HitRefines DEF Abstract!AccessNext
<1>3. ASSUME NEW u \in Users, RecordTraffic(u) PROVE Abstract!AccessNext
  BY <1>3, ChangeRefines DEF RecordTraffic, Abstract!AccessNext
<1>4. ASSUME NEW r \in Reqs, Edge(r) PROVE Abstract!AccessNext
  <2>1. ASSUME NEW c \in Uuids, Lookup(r, c) PROVE Abstract!AccessNext
    BY <2>1, RestRefines DEF Lookup, Abstract!AccessNext
  <2> QED
    BY <1>4, <2>1, DecideRefines DEF Edge
<1>5. ASSUME NEW r \in Reqs, ControlPlane(r) PROVE Abstract!AccessNext
  <2>1. answer' = NoUuid /\ (age' = Later(0) \/ UNCHANGED <<users, age>>)
    BY <1>5 DEF ControlPlane, CreateUser, ReadUser, UpdateUser, RotateCredentials, Purge,
          ResetTraffic, PrimeRow, DisableExpired, DeleteUser, Reread, Purged, SyncUsers,
          Primed, SelectExpired, CronDone, Store
  <2> QED
    BY <2>1, ChangeRefines, RestRefines DEF Abstract!AccessNext
<1>6. ASSUME NEW r \in Reqs, Abort(r) PROVE Abstract!AccessNext
  BY <1>6, RestRefines DEF Abort, Abstract!AccessNext
<1>7. CASE WipeUsers \/ \E u \in Users, c \in Uuids, row \in BackupRows : RestoreUser(u, c, row)
  BY <1>7, ChangeRefines DEF WipeUsers, RestoreUser, Abstract!AccessNext
<1>8. CASE UNCHANGED vars
  BY <1>8 DEF vars, Abstract!accessVars, Allowed, IsAllowed
<1> QED
  BY <1>1, <1>2, <1>3, <1>4, <1>5, <1>6, <1>7, <1>8 DEF Next

(* The edge implements Access: it lets a credential in only if the users   *)
(* table allowed it within the last Window ticks, whatever fails or races. *)
THEOREM EdgeRefinesAccess == Spec => ImplementsAccess
<1> QED
  BY InitRefines, NextRefines, Invariance, PTL
     DEF Spec, ImplementsAccess, Abstract!AccessSpec
-----------------------------------------------------------------------------
(* A connection, which shares no state with the verdicts.                  *)

(* Until its listeners are attached, a session has carried no more than    *)
(* the payload it is about to write, and nothing is billed.                *)
Silent ==
    /\ pc # "first" => delivered >= 1
    /\ pc \in {"first", "auth", "denied"} => sock = "none" /\ up = 0
    /\ pc = "connect" => up <= 1 /\ sock # "none"
    /\ ~listening => got = <<>>
    /\ pc \in {"first", "auth", "denied", "connect"} => ~listening /\ down = 0 /\ billed = 0

(* While the connection is open, the last chunk received is the last one   *)
(* delivered, unless it is the first.                                      *)
Latest ==
    sock = "open" /\ Len(got) > 0 => got[Len(got)] = delivered \/ (Len(got) = 1 /\ got[1] = 1)

(* What was received has been counted, and what was counted was delivered. *)
Counted == Len(got) <= up /\ up <= delivered

(* The endpoint bills at its end, after which nothing more is received.    *)
AtTheEnd ==
    /\ kind = "endpoint" /\ pc # "done" => billed = 0
    /\ pc = "done" => sock \in {"half", "closed"}

(* The inductive invariant of Tunnel.                                      *)
TunnelInv == Conn!TypeOK /\ Silent /\ Latest /\ Counted /\ AtTheEnd /\ Conn!CarriedAndBilled

USE DEF Conn!TypeOK, Silent, Latest, Counted, AtTheEnd, Conn!CarriedAndBilled

(* A connection that has just been opened satisfies it.                    *)
LEMMA TunnelInit == ASSUME Conn!Init PROVE TunnelInv
<1> USE TunnelAssumption DEF Conn!ConstantsAssumption, Conn!Init
<1>1. got = <<>> /\ Len(got) = 0 /\ got \in Seq(1 .. MaxUp) OBVIOUS
<1>2. Conn!TypeOK
  <2>1. sent \in 0 .. MaxUp /\ delivered \in 0 .. sent OBVIOUS
  <2>2. up \in 0 .. MaxUp + 1 /\ down \in 0 .. MaxDown /\ billed \in Nat OBVIOUS
  <2>3. gone \in BOOLEAN /\ listening \in BOOLEAN /\ finished \in BOOLEAN OBVIOUS
  <2>4. Len(got) <= MaxUp BY <1>1
  <2> QED BY <1>1, <2>1, <2>2, <2>3, <2>4
<1>3. Silent /\ Latest /\ Counted /\ AtTheEnd BY <1>1
<1>4. Conn!CarriedAndBilled BY <1>1
<1> QED BY <1>2, <1>3, <1>4 DEF TunnelInv

(* Every event and every step of the handler keeps it.                     *)
LEMMA TunnelStep == ASSUME TunnelInv, [Conn!Next]_Conn!vars PROVE TunnelInv'
<1> USE TunnelAssumption DEF Conn!ConstantsAssumption, TunnelInv, Conn!client
<1>1. CASE Conn!Send BY <1>1 DEF Conn!Send
<1>2. CASE Conn!Leave BY <1>2 DEF Conn!Leave
<1>3. CASE Conn!First BY <1>3 DEF Conn!First, Conn!Message, Conn!Fail
<1>4. CASE Conn!Dropped
  <2> USE <1>4 DEF Conn!Dropped, Conn!Message
  <2>1. Conn!TypeOK' /\ Silent' /\ Counted' /\ AtTheEnd' OBVIOUS
  <2>2. Latest'
    <3>1. got' = <<>> /\ Len(got') = 0 OBVIOUS
    <3> QED BY <3>1
  <2>3. Conn!CarriedAndBilled' OBVIOUS
  <2> QED BY <2>1, <2>2, <2>3
<1>5. CASE Conn!Relay
  <2> DEFINE n == Len(got)
  <2>1. /\ delivered' \in 1 .. MaxUp /\ delivered' = delivered + 1 /\ delivered' <= sent
        /\ up' = up + 1
        /\ n \in Nat
    BY <1>5 DEF Conn!Relay, Conn!Message
  <2>2. CASE sock = "open" /\ got' = Append(got, delivered') /\ UNCHANGED <<ws, sock>>
    <3>1. /\ Len(got') = n + 1 /\ got'[n + 1] = delivered' /\ got' \in Seq(1 .. MaxUp)
          /\ \A i \in 1 .. n : got'[i] = got[i]
      BY <2>1, <2>2
    <3>2. Silent' /\ Latest' /\ Counted' /\ AtTheEnd' BY <1>5, <2>1, <2>2, <3>1 DEF Conn!Relay, Conn!Message
    <3>3. Conn!TypeOK' BY <1>5, <2>1, <2>2, <3>1, <3>2 DEF Conn!Relay, Conn!Message
    <3>4. Conn!CarriedAndBilled'
      <4>1. ASSUME NEW i \in 1 .. n PROVE got'[i + 1] = got'[i] + 1 \/ (i = 1 /\ got'[1] = 1)
        <5>1. CASE i = n BY <2>1, <2>2, <3>1, <5>1
        <5>2. CASE i < n BY <2>1, <2>2, <3>1, <5>2
        <5> QED BY <2>1, <5>1, <5>2
      <4> QED BY <1>5, <2>1, <2>2, <3>1, <3>2, <4>1 DEF Conn!Relay, Conn!Message
    <3> QED BY <3>2, <3>3, <3>4
  <2>3. CASE ws' = "closed" /\ sock' \in {sock, "closed"} \ {"open"} /\ UNCHANGED got
    BY <1>5, <2>1, <2>3 DEF Conn!Relay, Conn!Message
  <2> QED BY <1>5, <2>2, <2>3 DEF Conn!Relay
<1>6. ASSUME NEW e \in {"close", "error"}, Conn!Close(e) PROVE TunnelInv'
  <2> USE <1>6 DEF Conn!Close, Conn!CloseAll, Conn!Finish
  <2>1. Conn!TypeOK'
    <3>1. events' \subseteq {"close", "error"} OBVIOUS
    <3>2. finished' \in BOOLEAN /\ ws' \in {"open", "closed"} OBVIOUS
    <3>3. sock' \in {"none", "open", "half", "closed"} /\ (sock # "none" => sock' # "none") OBVIOUS
    <3>4. billed' \in Nat /\ unheard' \in BOOLEAN OBVIOUS
    <3>5. UNCHANGED <<kind, sent, delivered, gone, pc, listening, got, up, down>> OBVIOUS
    <3> HIDE <1>6 DEF Conn!Close, Conn!CloseAll, Conn!Finish
    <3> QED BY <3>1, <3>2, <3>3, <3>4, <3>5
  <2>2. Silent' /\ Latest' /\ Counted' /\ AtTheEnd' OBVIOUS
  <2>3. Conn!CarriedAndBilled' OBVIOUS
  <2> QED BY <2>1, <2>2, <2>3
<1>7. CASE Conn!Deny BY <1>7 DEF Conn!Deny
<1>8. ASSUME NEW payload \in {0, 1}, Conn!Allow(payload) PROVE TunnelInv' BY <1>8 DEF Conn!Allow
<1>9. CASE Conn!Start
  <2> USE <1>9 DEF Conn!Start, Conn!Fail
  <2>1. \/ up = 0 /\ got' = <<>> /\ Len(got') = 0
        \/ up = 1 /\ got' = <<1>> /\ Len(got') = 1 /\ got'[1] = 1
    OBVIOUS
  <2>2. 1 \in 1 .. MaxUp /\ MaxUp >= 1 OBVIOUS
  <2>3. Conn!TypeOK'
    <3>1. got' \in Seq(1 .. MaxUp) /\ Len(got') <= MaxUp
      <4>1. <<1>> \in Seq(1 .. MaxUp) /\ <<>> \in Seq(1 .. MaxUp) BY <2>2
      <4>2. got' = <<>> \/ got' = <<1>> BY <2>1
      <4>3. got' \in Seq(1 .. MaxUp) BY <4>1, <4>2
      <4>4. Len(got') = 0 \/ Len(got') = 1 BY <2>1
      <4> QED BY <2>2, <4>3, <4>4
    <3>2. /\ pc' \in {"relay", "failed"} /\ listening' = TRUE
          /\ ws' \in {"open", "closed"}
      OBVIOUS
    <3>3. UNCHANGED <<kind, sent, delivered, gone, events, finished, sock, up, down, billed, unheard>> OBVIOUS
    <3>4. sock # "none" OBVIOUS
    <3> HIDE <1>9 DEF Conn!Start, Conn!Fail
    <3> QED BY <3>1, <3>2, <3>3, <3>4
  <2>4. Silent' /\ Latest' /\ Counted' /\ AtTheEnd' BY <2>1
  <2>5. Conn!CarriedAndBilled' BY <2>1
  <2> QED BY <2>3, <2>4, <2>5
<1>10. CASE Conn!Refuse BY <1>10 DEF Conn!Refuse, Conn!Fail
<1>11. CASE Conn!Receive BY <1>11 DEF Conn!Receive
<1>12. CASE Conn!End
  <2>1. /\ pc = "relay" /\ pc' = "done" /\ sock # "none" /\ listening
        /\ down' = down \/ (down < MaxDown /\ down' = down + 1)
        /\ billed' = IF kind = "endpoint" THEN up + down' ELSE billed + up + down'
        /\ ws' = "closed" /\ finished' \in BOOLEAN /\ sock' \in {"half", "closed"}
        /\ UNCHANGED <<kind, sent, delivered, gone, events, unheard, listening, got, up>>
    BY <1>12 DEF Conn!End, Conn!Finish
  <2>2. /\ Conn!TypeOK /\ Silent /\ Latest /\ Counted /\ AtTheEnd /\ Conn!CarriedAndBilled
        /\ MaxUp \in Nat /\ MaxDown \in Nat
    OBVIOUS
  <2> HIDE DEF TunnelInv
  <2>3. /\ down \in Nat /\ down' \in Nat /\ down' \in 0 .. MaxDown /\ up \in Nat /\ Len(got) <= up
        /\ billed \in Nat /\ Len(got) \in Nat
    BY <2>1, <2>2
  <2>4. billed' \in Nat /\ billed' >= Len(got') + down' /\ (kind' = "endpoint" => billed' <= up' + down')
    <3> HIDE DEF Conn!TypeOK, Silent, Latest, Counted, AtTheEnd, Conn!CarriedAndBilled
    <3>1. kind' = kind /\ up' = up /\ got' = got BY <2>1
    <3>2. \/ kind = "endpoint" /\ billed' = up + down'
          \/ kind # "endpoint" /\ billed' = billed + up + down'
      BY <2>1
    <3> QED BY <2>3, <3>1, <3>2
  <2>5. Conn!TypeOK' BY <2>1, <2>2, <2>3, <2>4
  <2>6. Silent' /\ Latest' /\ Counted' /\ AtTheEnd' BY <2>1, <2>2
  <2>7. Conn!CarriedAndBilled' BY <2>1, <2>2, <2>4
  <2> QED BY <2>5, <2>6, <2>7 DEF TunnelInv
<1>13. CASE Conn!Hangup BY <1>13 DEF Conn!Hangup
<1>14. CASE UNCHANGED Conn!vars BY <1>14 DEF Conn!vars
<1> QED
  BY <1>1, <1>2, <1>3, <1>4, <1>5, <1>6, <1>7, <1>8, <1>9, <1>10, <1>11, <1>12, <1>13, <1>14
     DEF Conn!Next

(* A destination gets the chunks in order and without a gap but the one    *)
(* after the first, a session that ran to its end is billed for at least   *)
(* what it carried, and by the endpoint for no more than it received.      *)
THEOREM CarriedAndBilledHolds == Conn!Spec => []CarriedAndBilled
<1>1. TunnelInv => CarriedAndBilled BY DEF TunnelInv, CarriedAndBilled
<1> QED BY TunnelInit, TunnelStep, <1>1, PTL DEF Conn!Spec
=============================================================================
