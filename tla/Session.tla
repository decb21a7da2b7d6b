------------------------------- MODULE Session -------------------------------
(***************************************************************************)
(* Administrator sessions of the control plane: the sessions table in D1,  *)
(* the truth, and the read-through copy of each row in KV under            *)
(* "sess:<hash>", which resolveSession trusts without asking D1.           *)
(*                                                                         *)
(* Every request is a small process.  One action is what a handler does    *)
(* between two awaits, so the KV operations and D1 statements of           *)
(* different requests interleave freely.  A KV operation may fail, and the *)
(* code swallows that; a D1 statement may throw, which ends the handler    *)
(* where it stands (Abort).  KV itself is taken to be consistent: a get    *)
(* that does not fail sees the last put or delete.                         *)
(***************************************************************************)
EXTENDS Naturals

CONSTANTS
    Tokens,      \* session tokens; newToken draws each at most once
    Admins,
    NoToken,     \* null, where a token may be missing
    NoAdmin,
    Reqs,        \* requests in flight at the same time
    SessionTtl,  \* settings.sessionTtlMinutes
    MinTtl,      \* the floor of 60 seconds on a KV entry's life
    KvMayFail,   \* whether KV puts, gets and deletes may fail
    MaxTime      \* bound on the clock, for model checking

ASSUME ConstantsAssumption ==
    /\ SessionTtl \in Nat \ {0}
    /\ MinTtl \in Nat \ {0}
    /\ KvMayFail \in BOOLEAN
    /\ MaxTime \in Nat
    /\ NoToken \notin Tokens
    /\ NoAdmin \notin Admins

NoEntry == [adm |-> NoAdmin, exp |-> 0, until |-> 0]
NoGrant == [tok |-> NoToken, adm |-> NoAdmin, at |-> 0, late |-> "no"]

VARIABLES
    now,
    admins,    \* rows of the admins table; every row is enabled
    sessions,  \* sessions[t]: the row with t's hash, and what became of it
    kv,        \* kv[t]: the entry under t's key, or NoEntry
    known,     \* tokens some browser holds: their login was answered
    req,       \* req[r]: program counter and locals of request r
    ended,     \* history: how t's revocation was reported done: "no" if not
    raced,     \* history: tokens with a cache write that beat a revocation
    grant      \* what resolveSession accepted in the last step, or NoGrant

vars == <<now, admins, sessions, kv, known, req, ended, raced, grant>>

Idle == [pc |-> "idle", op |-> "none", tok |-> NoToken, adm |-> NoAdmin,
         exp |-> 0, ttl |-> 0, rows |-> {}, late |-> "no"]

Max2(a, b) == IF a > b THEN a ELSE b

Init ==
    /\ now = 0
    /\ admins = Admins
    /\ sessions = [t \in Tokens |-> [adm |-> NoAdmin, exp |-> 0, state |-> "none"]]
    /\ kv = [t \in Tokens |-> NoEntry]
    /\ known = {}
    /\ req = [r \in Reqs |-> Idle]
    /\ ended = [t \in Tokens |-> "no"]
    /\ raced = {}
    /\ grant = NoGrant

SessionsOf(a) == {t \in Tokens : sessions[t].adm = a}
Live(t) == sessions[t].state = "live"
Stored(t) == sessions[t].state \in {"live", "revoked"}   \* the row is still there

(* The cached branch of resolveSession would take t's entry. *)
Usable(t) == kv[t] # NoEntry /\ kv[t].exp > now

(***************************************************************************)
(* Passed(r, t): request r is revoking t and will not delete t's key again.*)
(***************************************************************************)
Passed(r, t) ==
    \/ req[r].pc = "mark" /\ req[r].tok = t
    \/ /\ req[r].pc \in {"purge", "drop"}
       /\ Live(t) /\ sessions[t].adm = req[r].adm
       /\ t # req[r].tok
       /\ t \notin req[r].rows

(* A put of t now would outlive a revocation that has happened or started. *)
OutlivesRevocation(t) == ~Live(t) \/ \E r \in Reqs : Passed(r, t)

(* env.AFRA_KV.put(...).catch(() => undefined) of the row request q carries *)
Entry(q) == [adm |-> q.adm, exp |-> q.exp, until |-> now + Max2(MinTtl, q.ttl)]

PutEntry(q) ==
    \/ /\ kv' = [kv EXCEPT ![q.tok] = Entry(q)]
       /\ raced' = IF OutlivesRevocation(q.tok) THEN raced \cup {q.tok} ELSE raced
    \/ KvMayFail /\ UNCHANGED <<kv, raced>>

(* env.AFRA_KV.delete(...).catch(() => undefined), by a revocation of t *)
DeleteEntry(t) ==
    \/ kv' = [kv EXCEPT ![t] = NoEntry] /\ UNCHANGED raced
    \/ KvMayFail /\ raced' = raced \cup {t} /\ UNCHANGED kv

-----------------------------------------------------------------------------
(* createSession, once login or setup has accepted the credentials.        *)

InsertRow(r, t, a) ==
    /\ req[r].pc = "idle"
    /\ sessions[t].state = "none"
    /\ a \in admins                      \* the row's foreign key
    /\ sessions' = [sessions EXCEPT ![t] = [adm |-> a, exp |-> now + SessionTtl, state |-> "live"]]
    /\ req' = [req EXCEPT ![r] = [Idle EXCEPT !.pc = "cache", !.tok = t, !.adm = a,
                                              !.exp = now + SessionTtl,
                                              !.ttl = SessionTtl]]
    /\ UNCHANGED <<now, admins, kv, known, ended, raced>>
    /\ grant' = NoGrant

CacheNew(r) ==
    /\ req[r].pc = "cache"
    /\ PutEntry(req[r])
    /\ known' = known \cup {req[r].tok}
    /\ req' = [req EXCEPT ![r] = Idle]
    /\ UNCHANGED <<now, admins, sessions, ended>>
    /\ grant' = NoGrant

-----------------------------------------------------------------------------
(* resolveSession, called by requireAuth, and the handler behind it: a     *)
(* plain request ("use") or one that goes on to revoke the administrator's *)
(* other sessions ("others": a password change, or revoke-others).         *)

(* Request q goes on as administrator a. *)
Proceed(q, a) ==
    IF q.op = "others"
    THEN [Idle EXCEPT !.pc = "select", !.op = q.op, !.tok = q.tok, !.adm = a]
    ELSE Idle

Accept(q, a) == grant' = [tok |-> q.tok, adm |-> a, at |-> now, late |-> q.late]

(* Mutant of ResolveHit: the cached branch trusts KV to drop old entries. *)
ResolveHitAnyAge(r, t, op) ==
    LET q == [Idle EXCEPT !.op = op, !.tok = t, !.late = ended[t]] IN
    /\ req[r].pc = "idle"
    /\ t \in known
    /\ kv[t] # NoEntry
    /\ req' = [req EXCEPT ![r] = Proceed(q, kv[t].adm)] /\ Accept(q, kv[t].adm)
    /\ UNCHANGED <<now, admins, sessions, kv, known, ended, raced>>

(* The KV get finds an entry.  Only its own expiry is checked. *)
ResolveHit(r, t, op) ==
    LET q == [Idle EXCEPT !.op = op, !.tok = t, !.late = ended[t]] IN
    /\ req[r].pc = "idle"
    /\ t \in known
    /\ kv[t] # NoEntry
    /\ IF kv[t].exp <= now
       THEN req' = [req EXCEPT ![r] = [Idle EXCEPT !.pc = "evict", !.tok = t]] /\ grant' = NoGrant
       ELSE req' = [req EXCEPT ![r] = Proceed(q, kv[t].adm)] /\ Accept(q, kv[t].adm)
    /\ UNCHANGED <<now, admins, sessions, kv, known, ended, raced>>

(* No entry, or the get failed and counts as none: D1 is asked next. *)
ResolveMiss(r, t, op) ==
    /\ req[r].pc = "idle"
    /\ t \in known
    /\ kv[t] = NoEntry \/ KvMayFail
    /\ req' = [req EXCEPT ![r] = [Idle EXCEPT !.pc = "read", !.op = op, !.tok = t,
                                              !.late = ended[t]]]
    /\ UNCHANGED <<now, admins, sessions, kv, known, ended, raced>>
    /\ grant' = NoGrant

Evict(r) ==
    /\ req[r].pc = "evict"
    /\ \/ kv' = [kv EXCEPT ![req[r].tok] = NoEntry]
       \/ KvMayFail /\ UNCHANGED kv
    /\ req' = [req EXCEPT ![r] = Idle]
    /\ UNCHANGED <<now, admins, sessions, known, ended, raced>>
    /\ grant' = NoGrant

ReadRow(r) ==
    LET t == req[r].tok
        row == sessions[t] IN
    /\ req[r].pc = "read"
    /\ IF Live(t) /\ row.adm \in admins /\ row.exp > now
       THEN /\ Accept(req[r], row.adm)
            /\ req' = [req EXCEPT ![r] = [@ EXCEPT !.pc = "fill", !.adm = row.adm,
                                                   !.exp = row.exp, !.ttl = row.exp - now,
                                                   !.late = "no"]]
       ELSE req' = [req EXCEPT ![r] = Idle] /\ grant' = NoGrant
    /\ UNCHANGED <<now, admins, sessions, kv, known, ended, raced>>

Fill(r) ==
    /\ req[r].pc = "fill"
    /\ PutEntry(req[r])
    /\ req' = [req EXCEPT ![r] = Proceed(req[r], req[r].adm)]
    /\ UNCHANGED <<now, admins, sessions, known, ended>>
    /\ grant' = NoGrant

-----------------------------------------------------------------------------
(* revokeSessionByToken: the cache entry goes first, the row after it.     *)

(* Mutant of Logout: only the row is revoked. *)
LogoutRowOnly(r, t) ==
    /\ req[r].pc = "idle"
    /\ t \in known
    /\ req' = [req EXCEPT ![r] = [Idle EXCEPT !.pc = "mark", !.op = "logout", !.tok = t]]
    /\ UNCHANGED <<now, admins, sessions, kv, known, ended, raced>>
    /\ grant' = NoGrant

Logout(r, t) ==
    /\ req[r].pc = "idle"
    /\ t \in known
    /\ DeleteEntry(t)
    /\ req' = [req EXCEPT ![r] = [Idle EXCEPT !.pc = "mark", !.op = "logout", !.tok = t]]
    /\ UNCHANGED <<now, admins, sessions, known, ended>>
    /\ grant' = NoGrant

MarkRow(r) ==
    /\ req[r].pc = "mark"
    /\ sessions' = [sessions EXCEPT ![req[r].tok].state = IF @ = "live" THEN "revoked" ELSE @]
    /\ ended' = [ended EXCEPT ![req[r].tok] = "logout"]
    /\ req' = [req EXCEPT ![r] = Idle]
    /\ UNCHANGED <<now, admins, kv, known, raced>>
    /\ grant' = NoGrant

-----------------------------------------------------------------------------
(* revokeAllSessions(adm, except): req[r].tok is the excepted token.  It   *)
(* is the caller's own for "others" and NoToken for account recovery       *)
(* ("recover") and the deletion of an administrator ("delete").            *)

Selected(q) ==
    [q EXCEPT !.pc = "purge", !.rows = {t \in SessionsOf(q.adm) : Live(t) /\ t # q.tok}]

RevokeAll(r, a, op) ==
    /\ req[r].pc = "idle"
    /\ a \in admins
    /\ req' = [req EXCEPT ![r] = Selected([Idle EXCEPT !.op = op, !.adm = a])]
    /\ UNCHANGED <<now, admins, sessions, kv, known, ended, raced>>
    /\ grant' = NoGrant

RevokeOthers(r) ==
    /\ req[r].pc = "select"
    /\ req' = [req EXCEPT ![r] = Selected(@)]
    /\ UNCHANGED <<now, admins, sessions, kv, known, ended, raced>>
    /\ grant' = NoGrant

PurgeKey(r, t) ==
    /\ req[r].pc = "purge"
    /\ t \in req[r].rows
    /\ DeleteEntry(t)
    /\ req' = [req EXCEPT ![r] = [@ EXCEPT !.rows = req[r].rows \ {t}]]
    /\ UNCHANGED <<now, admins, sessions, known, ended>>
    /\ grant' = NoGrant

(* What the closing UPDATE touches: rows inserted since the SELECT too. *)
Others(r) == SessionsOf(req[r].adm) \ {req[r].tok}

Report(S) ==
    ended' = [t \in Tokens |-> IF t \in S /\ ended[t] = "no" THEN "bulk" ELSE ended[t]]

(* Mutant of RevokeRows: the UPDATE does not wait for the KV deletes. *)
RevokeRowsEarly(r) ==
    /\ req[r].pc = "purge"
    /\ sessions' = [t \in Tokens |->
                      IF t \in Others(r) /\ Live(t)
                      THEN [sessions[t] EXCEPT !.state = "revoked"] ELSE sessions[t]]
    /\ req' = [req EXCEPT ![r] = Idle]
    /\ Report(Others(r))
    /\ UNCHANGED <<now, admins, kv, known, raced>>
    /\ grant' = NoGrant

RevokeRows(r) ==
    /\ req[r].pc = "purge"
    /\ req[r].rows = {}
    /\ sessions' = [t \in Tokens |->
                      IF t \in Others(r) /\ Live(t)
                      THEN [sessions[t] EXCEPT !.state = "revoked"] ELSE sessions[t]]
    /\ IF req[r].op = "delete"
       THEN req' = [req EXCEPT ![r] = [@ EXCEPT !.pc = "drop"]] /\ UNCHANGED ended
       ELSE req' = [req EXCEPT ![r] = Idle] /\ Report(Others(r))
    /\ UNCHANGED <<now, admins, kv, known, raced>>
    /\ grant' = NoGrant

(* DELETE FROM admins; the foreign key takes the session rows along. *)
DropAdmin(r) ==
    /\ req[r].pc = "drop"
    /\ admins' = admins \ {req[r].adm}
    /\ sessions' = [t \in Tokens |->
                      IF t \in SessionsOf(req[r].adm) /\ Stored(t)
                      THEN [sessions[t] EXCEPT !.state = "deleted"] ELSE sessions[t]]
    /\ Report(SessionsOf(req[r].adm))
    /\ req' = [req EXCEPT ![r] = Idle]
    /\ UNCHANGED <<now, kv, known, raced>>
    /\ grant' = NoGrant

-----------------------------------------------------------------------------
(* restoreBackup, as far as the administrators go: their table is emptied, *)
(* when that was asked for, and filled from the backup.  Sessions are in   *)
(* no backup: the foreign key takes every row along, and nothing deletes   *)
(* the copies in KV.  A restore may stop between its statements, and it    *)
(* carries nothing from one to the other but its payload.                  *)

WipeAdmins ==
    /\ admins' = {}
    /\ sessions' = [t \in Tokens |->
                      IF Stored(t)
                      THEN [sessions[t] EXCEPT !.state = IF Live(t) THEN "wiped" ELSE "deleted"]
                      ELSE sessions[t]]
    /\ UNCHANGED <<now, kv, known, req, ended, raced>>
    /\ grant' = NoGrant

(* S: the administrators in the backup, none when it has no secrets. *)
RefillAdmins(S) ==
    /\ admins' = admins \cup S
    /\ UNCHANGED <<now, sessions, kv, known, req, ended, raced>>
    /\ grant' = NoGrant

-----------------------------------------------------------------------------
(* A D1 statement throws, or the client goes away and the runtime cancels  *)
(* the request: what was done stays done.                                  *)
Abort(r) ==
    /\ req[r].pc # "idle"
    /\ req' = [req EXCEPT ![r] = Idle]
    /\ UNCHANGED <<now, admins, sessions, kv, known, ended, raced>>
    /\ grant' = NoGrant

(* cronDaily deletes the rows that have expired.  A revoked row that goes  *)
(* too is kept as "revoked": no reader can tell the difference.            *)
CleanUp ==
    /\ sessions' = [t \in Tokens |->
                      IF Live(t) /\ sessions[t].exp < now
                      THEN [sessions[t] EXCEPT !.state = "expired"] ELSE sessions[t]]
    /\ UNCHANGED <<now, admins, kv, known, req, ended, raced>>
    /\ grant' = NoGrant

(* Time passes, and KV drops the entries whose expirationTtl has run out. *)
Tick ==
    /\ now < MaxTime
    /\ now' = now + 1
    /\ kv' = [t \in Tokens |-> IF kv[t].until <= now + 1 THEN NoEntry ELSE kv[t]]
    /\ UNCHANGED <<admins, sessions, known, req, ended, raced>>
    /\ grant' = NoGrant

Handler(r) ==
    \/ CacheNew(r) \/ Evict(r) \/ ReadRow(r) \/ Fill(r) \/ MarkRow(r)
    \/ RevokeOthers(r) \/ RevokeRows(r) \/ DropAdmin(r)
    \/ \E t \in Tokens : PurgeKey(r, t)

Start(r) ==
    \/ \E t \in Tokens, a \in Admins : InsertRow(r, t, a)
    \/ \E t \in Tokens, op \in {"use", "others"} : ResolveHit(r, t, op) \/ ResolveMiss(r, t, op)
    \/ \E t \in Tokens : Logout(r, t)
    \/ \E a \in Admins, op \in {"recover", "delete"} : RevokeAll(r, a, op)

Next ==
    \/ Tick \/ CleanUp
    \/ WipeAdmins \/ \E S \in SUBSET Admins : RefillAdmins(S)
    \/ \E r \in Reqs : Start(r) \/ Handler(r) \/ Abort(r)

Spec == Init /\ [][Next]_vars

-----------------------------------------------------------------------------
Token == Tokens \cup {NoToken}
Admin == Admins \cup {NoAdmin}
Outcome == {"no", "logout", "bulk"}

SessionRow == [adm : Admin, exp : Nat, state : {"none", "live", "revoked", "expired", "deleted", "wiped"}]
CacheEntry == [adm : Admin, exp : Nat, until : Nat]
Request ==
    [pc : {"idle", "cache", "read", "fill", "evict", "mark", "select", "purge", "drop"},
     op : {"none", "use", "others", "logout", "recover", "delete"},
     tok : Token, adm : Admin, exp : Nat, ttl : Nat, rows : SUBSET Tokens, late : Outcome]

Types ==
    /\ now \in Nat
    /\ admins \subseteq Admins
    /\ sessions \in [Tokens -> SessionRow]
    /\ kv \in [Tokens -> CacheEntry]
    /\ known \subseteq Tokens
    /\ req \in [Reqs -> Request]
    /\ ended \in [Tokens -> Outcome]
    /\ raced \subseteq Tokens
    /\ grant \in [tok : Token, adm : Admin, at : Nat, late : Outcome]

(* sessions.admin_id REFERENCES admins(id) *)
ForeignKey == \A t \in Tokens : Stored(t) => sessions[t].adm \in admins

(***************************************************************************)
(* Type invariant, with the foreign key: a row that is still there belongs *)
(* to an administrator that is still there.                                *)
(***************************************************************************)
TypeOK == Types /\ ForeignKey

(***************************************************************************)
(* Whatever resolveSession accepts was issued by createSession, for that   *)
(* administrator, and had not expired at the moment of the decision.  The  *)
(* KV entry may outlive the session (its life has a floor of a minute), so *)
(* this rests on the expiry check of the cached branch.                    *)
(***************************************************************************)
GrantSound ==
    grant # NoGrant =>
        /\ sessions[grant.tok].state # "none"
        /\ grant.adm = sessions[grant.tok].adm
        /\ grant.at < sessions[grant.tok].exp

(* t was revoked in the table, or its logout was answered. *)
Revoked(t) == sessions[t].state \in {"revoked", "deleted"} \/ ended[t] = "logout"

(***************************************************************************)
(* A session that was revoked, or went with its deleted administrator,     *)
(* stays usable from the cache only when a put of its entry landed after   *)
(* the revocation had passed its key, or when KV failed the delete: no     *)
(* order of handlers that avoids both leaves a revoked session usable.     *)
(* The sessions that a wiping restore takes with all administrators are    *)
(* not among these: nobody deletes their entries, and until they expire    *)
(* only a logout ends them (backup.service.ts:230-235).                    *)
(***************************************************************************)
RevokedCachedOnlyByRace == \A t \in Tokens : Revoked(t) /\ Usable(t) => t \in raced

(***************************************************************************)
(* A request that began after the revocation of its token was reported is  *)
(* accepted only when the same race, or the same failure, happened before; *)
(* or when a restore had taken the row before a bulk revocation, which     *)
(* then has no row to find the token by.                                   *)
(***************************************************************************)
LateGrantOnlyByRace ==
    grant.late # "no" =>
        grant.tok \in raced \/ (grant.late = "bulk" /\ sessions[grant.tok].state = "wiped")

(* Request r is at the statement that revokes t. *)
EndedBy(r, t) ==
    \/ req[r].pc = "mark" /\ req[r].tok = t
    \/ req[r].pc \in {"purge", "drop"} /\ req[r].adm = sessions[t].adm /\ req[r].tok # t

(***************************************************************************)
(* A session ends before its time only by a logout that carries its token, *)
(* by a bulk revocation of its own administrator that does not except it,  *)
(* or by a restore that empties the table of administrators: "sign out     *)
(* elsewhere" never ends the caller's session, the nightly clean-up never  *)
(* a session that has time left.                                           *)
(***************************************************************************)
EndsOnlyOnRequest ==
    [][\A t \in Tokens : Live(t) /\ ~Live(t)' =>
          \/ sessions[t].exp < now
          \/ (\E r \in Reqs : EndedBy(r, t))
          \/ WipeAdmins]_vars

(***************************************************************************)
(* What test/auth.test.ts says of logout ("logout revokes the session"):   *)
(* a request that begins after the logout was answered is refused.         *)
(***************************************************************************)
LogoutIsFinal == grant.late # "logout"
=============================================================================
