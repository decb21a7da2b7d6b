------------------------------- MODULE Accounts -------------------------------
(***************************************************************************)
(* Administrator accounts: first-time setup, creation and deletion of      *)
(* administrators, passwords, two-factor secrets and recovery codes, and   *)
(* the sessions that logins open on the strength of a row they have read.  *)
(*                                                                         *)
(* Every handler reads the admins row it needs, thinks (hashing and TOTP   *)
(* checks are awaits), and then writes by id alone; one action is what it  *)
(* does between two awaits.  Passwords, secrets, recovery codes and        *)
(* sessions are drawn afresh: they are numbers, in the order of drawing,   *)
(* 0 for none.  The cache of sessions is left to Session: here a session   *)
(* is live while its row in D1 is.                                         *)
(***************************************************************************)
EXTENDS Naturals, FiniteSets

CONSTANTS
    Admins,   \* ids of administrators; newId never repeats one
    NoAdmin,
    Reqs,     \* handlers in flight at the same time
    MaxDraw   \* bound on the values drawn, for model checking

ASSUME ConstantsAssumption ==
    /\ MaxDraw \in Nat
    /\ NoAdmin \notin Admins

NoRow == [state |-> "unused", super |-> FALSE, pwd |-> 0, code |-> 0, secret |-> 0,
          totp |-> FALSE]

Idle == [pc |-> "idle", adm |-> NoAdmin, own |-> 0, row |-> NoRow, supers |-> {}]

VARIABLES
    admins,    \* admins[a]: the row (secret: totp_secret_enc, code: recovery_code_hash)
    sessions,  \* live sessions: id, administrator, the password it rests on
    drawn,     \* the last value drawn
    req,       \* req[r]: program counter and locals of handler r
    wins,      \* history: how many setups have created an administrator
    proven,    \* history: proven[a]: the last secret a showed a code of
    stale      \* history: what has been written on a reading that was out of date,
               \* or left undone: <<kind, administrator>>

vars == <<admins, sessions, drawn, req, wins, proven, stale>>

Present(a) == admins[a].state = "present"
Supers == {a \in Admins : Present(a) /\ admins[a].super}

(* The value that a step draws. *)
New == drawn + 1
Draw == drawn < MaxDraw /\ drawn' = New

(* Handler r goes on to step pc, or is done. *)
Goto(r, pc) == req' = [req EXCEPT ![r] = [@ EXCEPT !.pc = pc]]
Return(r) == req' = [req EXCEPT ![r] = Idle]

(* UPDATE admins SET ... WHERE id = a, to row: nothing if a is gone. *)
Update(a, row) == admins' = IF Present(a) THEN [admins EXCEPT ![a] = row] ELSE admins

Init ==
    /\ admins = [a \in Admins |-> NoRow]
    /\ sessions = {}
    /\ drawn = 0
    /\ req = [r \in Reqs |-> Idle]
    /\ wins = 0
    /\ proven = [a \in Admins |-> 0]
    /\ stale = {}

-----------------------------------------------------------------------------
(* setup.routes.ts.                                                        *)

SetupCheck(r) ==
    /\ req[r].pc = "idle"
    /\ ~\E a \in Admins : Present(a)
    /\ Goto(r, "setup")
    /\ UNCHANGED <<admins, sessions, drawn, wins, proven, stale>>

FirstRow == [NoRow EXCEPT !.state = "present", !.super = TRUE, !.pwd = New, !.code = New]

(* The INSERT takes effect only WHERE NOT EXISTS an administrator. *)
SetupInsert(r, a) ==
    /\ req[r].pc = "setup"
    /\ IF \E b \in Admins : Present(b)
       THEN Return(r) /\ UNCHANGED <<admins, drawn, wins>>
       ELSE /\ admins[a].state = "unused"
            /\ Draw
            /\ admins' = [admins EXCEPT ![a] = FirstRow]
            /\ req' = [req EXCEPT ![r] = [Idle EXCEPT !.pc = "session", !.adm = a, !.row = FirstRow]]
            /\ wins' = wins + 1
    /\ UNCHANGED <<sessions, proven, stale>>

-----------------------------------------------------------------------------
(* Login, and the session it opens.  A login that is turned down changes   *)
(* nothing here (its failures are counted in login_attempts).              *)

(* The password is right, and so is the TOTP code when one is needed. *)
Login(r, a) ==
    /\ req[r].pc = "idle"
    /\ Present(a)
    /\ admins[a].totp => admins[a].secret # 0
    /\ req' = [req EXCEPT ![r] = [Idle EXCEPT !.pc = "session", !.adm = a, !.row = admins[a]]]
    /\ UNCHANGED <<admins, sessions, drawn, wins, proven, stale>>

(* createSession's INSERT, which the foreign key turns down for a deleted  *)
(* administrator.                                                          *)
OpenSession(r) ==
    LET a == req[r].adm IN
    /\ req[r].pc = "session"
    /\ IF Present(a)
       THEN /\ Draw
            /\ sessions' = sessions \cup {[id |-> New, adm |-> a, pwd |-> req[r].row.pwd]}
            /\ stale' = IF admins[a].pwd = req[r].row.pwd THEN stale
                        ELSE stale \cup {<<"login", a>>}
       ELSE UNCHANGED <<sessions, drawn, stale>>
    /\ Return(r)
    /\ UNCHANGED <<admins, wins, proven>>

(* Logout, or a session's expiry. *)
Close(s) ==
    /\ sessions' = sessions \ {s}
    /\ UNCHANGED <<admins, drawn, req, wins, proven, stale>>

-----------------------------------------------------------------------------
(* Handlers behind requireAuth, which vouches for the administrator and    *)
(* the role of session s, and for no longer than its own reading of it.    *)

RequireAuth(r, s) ==
    /\ req[r].pc = "idle"
    /\ req' = [req EXCEPT ![r] = [Idle EXCEPT !.pc = "auth", !.adm = s.adm, !.own = s.id,
                                              !.row = admins[s.adm]]]
    /\ UNCHANGED <<admins, sessions, drawn, wins, proven, stale>>

(* The handler has read its administrator's row. *)
Read(r, pc) ==
    /\ req[r].pc = "auth"
    /\ Present(req[r].adm)
    /\ req' = [req EXCEPT ![r] = [@ EXCEPT !.pc = pc, !.row = admins[req[r].adm]]]
    /\ UNCHANGED <<admins, sessions, drawn, wins, proven, stale>>

(* The current password is right. *)
PasswordRead(r) == Read(r, "password")

(* A session that changes its administrator's password rests on the new    *)
(* one: it is the one session that is kept.                                *)
Rebase(id) == {IF s.id = id THEN [s EXCEPT !.pwd = New] ELSE s : s \in sessions}

(* Mutant of SetPassword: the other sessions are not revoked. *)
SetPasswordOnly(r) ==
    LET a == req[r].adm IN
    /\ req[r].pc = "password"
    /\ Draw
    /\ Update(a, [admins[a] EXCEPT !.pwd = New])
    /\ sessions' = Rebase(req[r].own)
    /\ Return(r)
    /\ UNCHANGED <<wins, proven, stale>>

SetPassword(r) ==
    LET a == req[r].adm IN
    /\ req[r].pc = "password"
    /\ Draw
    /\ Update(a, [admins[a] EXCEPT !.pwd = New])
    /\ sessions' = Rebase(req[r].own)
    /\ Goto(r, "revoke")
    /\ UNCHANGED <<wins, proven, stale>>

RevokeOthers(r) ==
    /\ req[r].pc = "auth"
    /\ Goto(r, "revoke")
    /\ UNCHANGED <<admins, sessions, drawn, wins, proven, stale>>

(* revokeAllSessions; the deletion of an administrator goes on from it. *)
Revoke(r) ==
    /\ req[r].pc \in {"revoke", "expel"}
    /\ sessions' = {s \in sessions : s.adm = req[r].adm => s.id = req[r].own}
    /\ IF req[r].pc = "expel" THEN Goto(r, "drop") ELSE Return(r)
    /\ UNCHANGED <<admins, drawn, wins, proven, stale>>

(* Mutant of TotpSetup: the new secret goes under a switch that is on. *)
TotpSetupOn(r) ==
    LET a == req[r].adm IN
    /\ req[r].pc = "auth"
    /\ Draw
    /\ Update(a, [admins[a] EXCEPT !.secret = New])
    /\ Return(r)
    /\ UNCHANGED <<sessions, wins, proven, stale>>

TotpSetup(r) ==
    LET a == req[r].adm IN
    /\ req[r].pc = "auth"
    /\ Draw
    /\ Update(a, [admins[a] EXCEPT !.secret = New, !.totp = FALSE])
    /\ Return(r)
    /\ UNCHANGED <<sessions, wins, proven, stale>>

(* The code fits the secret that was read.  Only "on" is written. *)
TotpEnableRead(r) == Read(r, "enable") /\ req'[r].row.secret # 0

TotpEnable(r) ==
    LET a == req[r].adm IN
    /\ req[r].pc = "enable"
    /\ Update(a, [admins[a] EXCEPT !.totp = TRUE])
    /\ proven' = [proven EXCEPT ![a] = req[r].row.secret]
    /\ stale' = IF admins[a].secret = req[r].row.secret THEN stale
                ELSE stale \cup {<<"enable", a>>}
    /\ Return(r)
    /\ UNCHANGED <<sessions, drawn, wins>>

TotpDisableRead(r) == Read(r, "disable") /\ req'[r].row.totp /\ req'[r].row.secret # 0

TotpDisable(r) ==
    LET a == req[r].adm IN
    /\ req[r].pc = "disable"
    /\ Update(a, [admins[a] EXCEPT !.totp = FALSE, !.secret = 0])
    /\ Return(r)
    /\ UNCHANGED <<sessions, drawn, wins, proven, stale>>

-----------------------------------------------------------------------------
(* Recovery: the code fits the hash that was read.                         *)

RecoverRead(r, a) ==
    /\ req[r].pc = "idle"
    /\ Present(a)
    /\ admins[a].code # 0
    /\ req' = [req EXCEPT ![r] = [Idle EXCEPT !.pc = "recover", !.adm = a, !.row = admins[a]]]
    /\ UNCHANGED <<admins, sessions, drawn, wins, proven, stale>>

Recover(r) ==
    LET a == req[r].adm IN
    /\ req[r].pc = "recover"
    /\ Draw
    /\ Update(a, [admins[a] EXCEPT !.pwd = New, !.code = New, !.secret = 0, !.totp = FALSE])
    /\ Goto(r, "revoke")
    /\ UNCHANGED <<sessions, wins, proven, stale>>

-----------------------------------------------------------------------------
(* settings.routes.ts: administrators, managed by a super_admin.           *)

CreateAdmin(r, a, super) ==
    /\ req[r].pc = "auth" /\ req[r].row.super
    /\ admins[a].state = "unused"
    /\ Draw
    /\ admins' = [admins EXCEPT ![a] = [NoRow EXCEPT !.state = "present", !.super = super,
                                                    !.pwd = New]]
    /\ Return(r)
    /\ UNCHANGED <<sessions, wins, proven, stale>>

(* The super_admins are counted first, then the target is read. *)
CountSupers(r, a) ==
    /\ req[r].pc = "auth" /\ req[r].row.super
    /\ a # req[r].adm
    /\ req' = [req EXCEPT ![r] = [Idle EXCEPT !.pc = "target", !.adm = a, !.supers = Supers]]
    /\ UNCHANGED <<admins, sessions, drawn, wins, proven, stale>>

(* Mutant of ReadTarget: the last super_admin may go. *)
ReadTargetOffByOne(r) ==
    LET a == req[r].adm IN
    /\ req[r].pc = "target"
    /\ IF Present(a) /\ (admins[a].super => Cardinality(req[r].supers) >= 1)
       THEN Goto(r, "expel") ELSE Return(r)
    /\ UNCHANGED <<admins, sessions, drawn, wins, proven, stale>>

ReadTarget(r) ==
    LET a == req[r].adm IN
    /\ req[r].pc = "target"
    /\ IF Present(a) /\ (admins[a].super => Cardinality(req[r].supers) > 1)
       THEN Goto(r, "expel") ELSE Return(r)
    /\ UNCHANGED <<admins, sessions, drawn, wins, proven, stale>>

(* DELETE FROM admins, with the sessions it cascades to. *)
Drop(r) ==
    LET a == req[r].adm IN
    /\ req[r].pc = "drop"
    /\ admins' = [admins EXCEPT ![a] = [NoRow EXCEPT !.state = "deleted"]]
    /\ sessions' = {s \in sessions : s.adm # a}
    /\ stale' = IF req[r].supers \subseteq Supers THEN stale ELSE stale \cup {<<"count", a>>}
    /\ Return(r)
    /\ UNCHANGED <<drawn, wins, proven>>

(* A statement throws or the handler is cancelled. *)
Abort(r) ==
    /\ req[r].pc # "idle"
    /\ Return(r)
    /\ stale' = IF req[r].pc = "revoke" THEN stale \cup {<<"revoke", req[r].adm>>} ELSE stale
    /\ UNCHANGED <<admins, sessions, drawn, wins, proven>>

Authenticated(r) ==
    \/ PasswordRead(r) \/ RevokeOthers(r) \/ TotpSetup(r) \/ TotpEnableRead(r) \/ TotpDisableRead(r)
    \/ \E a \in Admins, super \in BOOLEAN : CreateAdmin(r, a, super)
    \/ \E a \in Admins : CountSupers(r, a)

Next ==
    \/ \E s \in sessions : Close(s) \/ \E r \in Reqs : RequireAuth(r, s)
    \/ \E r \in Reqs :
          \/ SetupCheck(r) \/ OpenSession(r) \/ Authenticated(r) \/ SetPassword(r) \/ Revoke(r)
          \/ TotpEnable(r) \/ TotpDisable(r) \/ Recover(r) \/ ReadTarget(r) \/ Drop(r) \/ Abort(r)
          \/ \E a \in Admins : SetupInsert(r, a) \/ Login(r, a) \/ RecoverRead(r, a)

Spec == Init /\ [][Next]_vars

-----------------------------------------------------------------------------
Value == 0 .. drawn
Row == [state : {"unused", "present", "deleted"}, super : BOOLEAN, pwd : Value, code : Value,
        secret : Value, totp : BOOLEAN]
Request ==
    [pc : {"idle", "setup", "auth", "session", "password", "revoke", "enable", "disable", "recover",
           "target", "expel", "drop"},
     adm : Admins \cup {NoAdmin}, own : Value, row : Row, supers : SUBSET Admins]

(***************************************************************************)
(* Type invariant, with the foreign key of sessions.                       *)
(***************************************************************************)
TypeOK ==
    /\ admins \in [Admins -> Row]
    /\ drawn \in Nat
    /\ sessions \subseteq [id : Value, adm : {a \in Admins : Present(a)}, pwd : Value]
    /\ req \in [Reqs -> Request]
    /\ wins \in Nat
    /\ proven \in [Admins -> Value]
    /\ stale \subseteq {"login", "enable", "revoke", "count"} \X Admins

(***************************************************************************)
(* A new password shuts out the old one: a session that rests on an        *)
(* earlier password of its administrator is about to be revoked, or was    *)
(* opened by a login that had read the row before the change, or the       *)
(* change stopped before it had revoked.                                   *)
(***************************************************************************)
OldPasswordShut ==
    \A s \in sessions :
        \/ s.pwd = admins[s.adm].pwd
        \/ \E r \in Reqs : req[r].pc = "revoke" /\ req[r].adm = s.adm /\ req[r].own # s.id
        \/ <<"login", s.adm>> \in stale
        \/ <<"revoke", s.adm>> \in stale

(***************************************************************************)
(* Two-factor login is on only with a secret of which the administrator    *)
(* has shown a code, so nobody is asked for codes they cannot produce,     *)
(* unless the secret was replaced while its code was checked.              *)
(***************************************************************************)
TotpProven ==
    \A a \in Admins : Present(a) /\ admins[a].totp /\ <<"enable", a>> \notin stale =>
        admins[a].secret # 0 /\ admins[a].secret = proven[a]

(* A deletion has gone ahead on a count that was out of date. *)
StaleCount == \E a \in Admins : <<"count", a>> \in stale

(***************************************************************************)
(* Once set up, the panel keeps a super_admin, unless two deletions ran at *)
(* the same time.                                                          *)
(***************************************************************************)
SupersGoneOnlyByRace == wins > 0 /\ ~StaleCount => Supers # {}

(***************************************************************************)
(* Setup creates one administrator, however many browsers submit it at the *)
(* same time, and never opens again, unless such deletions emptied the     *)
(* table.                                                                  *)
(***************************************************************************)
SetupOnce == wins > 1 => StaleCount

(***************************************************************************)
(* What the refusal in settings.routes.ts says: at least one super_admin   *)
(* must remain.                                                            *)
(***************************************************************************)
SuperRemains == wins > 0 => Supers # {}

(***************************************************************************)
(* What auth.routes.ts says of recovery codes: once used, a code is void.  *)
(***************************************************************************)
CodeUsedOnce ==
    [][\A r \in Reqs : Recover(r) =>
          req[r].row.code = admins[req[r].adm].code]_vars
=============================================================================
