---------------------------- MODULE Accounts_proofs ----------------------------
(***************************************************************************)
(* Proofs about Accounts, for any administrators, handlers and bound on    *)
(* the values drawn.                                                       *)
(*                                                                         *)
(* That a new password shuts out the old one rests on what a handler knows *)
(* of the session it runs in: the one session that is kept is its          *)
(* administrator's own, so to rebase it leaves nobody else's behind.  That *)
(* a super_admin remains rests on what a deletion has counted: a second    *)
(* super_admin, if its target is one, and still is one when the target     *)
(* goes, or the count was out of date.                                     *)
(*                                                                         *)
(* Then what stands between the administrators and their panel, for any    *)
(* limits and lengths of windows: the proofs about Limits, with what they  *)
(* need of the sums it counts by, and about SignIn.                        *)
(***************************************************************************)
EXTENDS MCLimits, FiniteSetTheorems, WellFoundedInduction, TLAPS

(* Ids of sessions are drawn once, and 0 is none. *)
SessionIds ==
    /\ \A s \in sessions : s.id # 0
    /\ \A s, t \in sessions : s.id = t.id => s.adm = t.adm

(* What handler q carries, by where it is. *)
Knows(q) ==
    /\ q.pc \notin {"idle", "setup"} => q.adm \in Admins
    /\ q.pc \in {"auth", "password"} => \A s \in sessions : s.id = q.own => s.adm = q.adm
    /\ q.pc = "enable" => q.row.secret # 0
    /\ q.pc = "recover" => q.own = 0
    /\ q.pc \in {"expel", "drop"} =>
          /\ admins[q.adm].state # "unused"
          /\ q.adm \in Supers => \E b \in q.supers : b # q.adm

IInv ==
    /\ TypeOK
    /\ SessionIds
    /\ \A r \in Reqs : Knows(req[r])
    /\ OldPasswordShut
    /\ TotpProven
    /\ SupersGoneOnlyByRace
    /\ SetupOnce

-----------------------------------------------------------------------------
(* Facts about records, and about what a step leaves as it was.            *)

LEMMA IdleRequest ==
  ASSUME TypeOK
  PROVE  Idle \in Request /\ NoRow \in Row /\ Idle.pc = "idle"
  BY DEF TypeOK, Idle, Request, NoRow, Row, Value

(* Values once drawn stay drawn. *)
LEMMA Grow ==
  ASSUME TypeOK, drawn' \in {drawn, New}
  PROVE  drawn' \in Nat /\ Value \subseteq Value' /\ Row \subseteq Row' /\ Request \subseteq Request'
<1>1. drawn' \in Nat /\ Value \subseteq Value'
  BY DEF TypeOK, New, Value
<1>2. Row \subseteq Row'
  BY <1>1 DEF Row
<1> QED
  BY <1>1, <1>2 DEF Request

(* The value drawn is new. *)
LEMMA Fresh ==
  ASSUME TypeOK
  PROVE  New \notin Value /\ New # 0 /\ (drawn' = New => New \in Value')
  BY DEF TypeOK, New, Value

(* To where Goto goes, everything is taken along. *)
LEMMA GotoIs ==
  ASSUME TypeOK, NEW r \in Reqs,
         NEW pc \in {"setup", "auth", "revoke", "expel", "drop"}, Goto(r, pc)
  PROVE  \E v \in Request :
            /\ req' = [req EXCEPT ![r] = v]
            /\ v.pc = pc /\ v.adm = req[r].adm /\ v.own = req[r].own /\ v.row = req[r].row
            /\ v.supers = req[r].supers
<1> DEFINE v == [req[r] EXCEPT !.pc = pc]
<1>1. req[r] \in Request
  BY DEF TypeOK
<1>2. v \in Request /\ v.pc = pc /\ v.adm = req[r].adm /\ v.own = req[r].own
      /\ v.row = req[r].row /\ v.supers = req[r].supers
  BY <1>1 DEF Request
<1>3. req' = [req EXCEPT ![r] = v]
  BY DEF Goto
<1> QED
  BY <1>2, <1>3

(* The other handlers stay as they are. *)
LEMMA OneMoves ==
  ASSUME TypeOK, drawn' \in {drawn, New}, NEW r \in Reqs, NEW v \in Request',
         req' = [req EXCEPT ![r] = v]
  PROVE  /\ req' \in [Reqs -> Request']
         /\ req'[r] = v
         /\ \A x \in Reqs \ {r} : req'[x] = req[x]
<1>1. req \in [Reqs -> Request'] /\ req \in [Reqs -> Request]
  BY Grow DEF TypeOK
<1> QED
  BY <1>1

(* A session comes from a session, or is new; no row is unused again, and  *)
(* none of those in use becomes a super_admin.                             *)
Carried ==
    /\ \A s \in sessions' : \/ \E t \in sessions : t.id = s.id /\ t.adm = s.adm
                            \/ s.id = New
    /\ \A a \in Admins : admins[a].state # "unused" =>
          /\ admins'[a].state # "unused"
          /\ a \in Supers' => a \in Supers

LEMMA KnowsKept ==
  ASSUME TypeOK, NEW q \in Request, Knows(q), Carried
  PROVE  Knows(q)'
<1>1. /\ q.pc \notin {"idle", "setup"} => q.adm \in Admins
      /\ q.pc = "enable" => q.row.secret # 0
      /\ q.pc = "recover" => q.own = 0
  BY DEF Knows
<1>2. ASSUME q.pc \in {"auth", "password"}, NEW s \in sessions', s.id = q.own
      PROVE  s.adm = q.adm
  <2>1. q.own \in Value
    BY DEF Request
  <2> QED
    BY <1>2, <2>1, Fresh DEF Knows, Carried
<1>3. ASSUME q.pc \in {"expel", "drop"}
      PROVE  /\ admins'[q.adm].state # "unused"
             /\ q.adm \in Supers' => \E b \in q.supers : b # q.adm
  BY <1>1, <1>3 DEF Knows, Carried
<1> QED
  BY <1>1, <1>2, <1>3 DEF Knows

LEMMA SessionIdsKept ==
  ASSUME SessionIds, \A s \in sessions' : \E t \in sessions : t.id = s.id /\ t.adm = s.adm
  PROVE  SessionIds'
  BY DEF SessionIds

LEMMA PasswordsKept ==
  ASSUME IInv, NEW r \in Reqs, \A x \in Reqs \ {r} : req'[x] = req[x],
         stale \subseteq stale',
         \A s \in sessions' : s \in sessions /\ admins'[s.adm].pwd = admins[s.adm].pwd,
         \/ req[r].pc # "revoke"
         \/ <<"revoke", req[r].adm>> \in stale'
         \/ \A s \in sessions' : s.adm = req[r].adm => s.id = req[r].own
  PROVE  OldPasswordShut'
  BY DEF IInv, OldPasswordShut

LEMMA TotpKept ==
  ASSUME IInv, stale \subseteq stale',
         \A a \in Admins : Present(a)' /\ admins'[a].totp =>
            /\ Present(a) /\ admins[a].totp
            /\ admins'[a].secret = admins[a].secret /\ proven'[a] = proven[a]
  PROVE  TotpProven'
  BY DEF IInv, TotpProven

LEMMA SupersKept ==
  ASSUME IInv, stale \subseteq stale', wins' = wins, Supers \subseteq Supers'
  PROVE  SupersGoneOnlyByRace' /\ SetupOnce'
  BY DEF IInv, SupersGoneOnlyByRace, SetupOnce, StaleCount

(* What is left to show of a step, once it is clear what it carries over. *)
LEMMA Step ==
  ASSUME IInv, drawn' \in {drawn, New}, NEW r \in Reqs, NEW v \in Request', Knows(v)',
         req' = [req EXCEPT ![r] = v],
         admins' \in [Admins -> Row'],
         sessions' \subseteq [id : Value', adm : {a \in Admins : Present(a)'}, pwd : Value'],
         wins' \in Nat, proven' \in [Admins -> Value'],
         stale' \subseteq {"login", "enable", "revoke", "count"} \X Admins,
         Carried, SessionIds', OldPasswordShut', TotpProven', SupersGoneOnlyByRace', SetupOnce'
  PROVE  IInv'
<1>1. TypeOK
  BY DEF IInv
<1>2. /\ req' \in [Reqs -> Request']
      /\ req'[r] = v
      /\ \A x \in Reqs \ {r} : req'[x] = req[x]
  BY <1>1, OneMoves
<1>3. drawn' \in Nat
  BY <1>1, Grow
<1>4. TypeOK'
  BY <1>2, <1>3 DEF TypeOK
<1>5. ASSUME NEW x \in Reqs PROVE Knows(req[x])'
  <2>1. CASE x = r
    BY <1>2, <2>1 DEF Knows
  <2>2. CASE x # r
    <3>1. req[x] \in Request /\ Knows(req[x]) /\ req'[x] = req[x]
      BY <1>1, <1>2, <2>2 DEF IInv, TypeOK
    <3>2. PICK q \in Request : q = req[x]
      BY <3>1
    <3>3. Knows(q) /\ req'[x] = q
      BY <3>1, <3>2 DEF Knows
    <3>4. Knows(q)'
      BY <1>1, <3>3, KnowsKept
    <3> QED
      BY <3>3, <3>4 DEF Knows
  <2> QED
    BY <2>1, <2>2
<1> QED
  BY <1>4, <1>5 DEF IInv

-----------------------------------------------------------------------------
(* Steps of a handler that write nothing.                                  *)

LEMMA QuietStep ==
  ASSUME IInv, NEW r \in Reqs, NEW v \in Request, req' = [req EXCEPT ![r] = v], Knows(v),
         UNCHANGED <<admins, sessions, drawn, wins, proven, stale>>, req[r].pc # "revoke"
  PROVE  IInv'
<1>1. TypeOK /\ SessionIds
  BY DEF IInv
<1>2. drawn' \in {drawn, New} /\ v \in Request' /\ admins' \in [Admins -> Row']
  BY <1>1, Grow DEF TypeOK
<1>3. Supers' = Supers /\ \A a \in Admins : Present(a)' = Present(a)
  BY DEF Supers, Present
<1>4. Carried
  BY <1>3 DEF Carried
<1>5. Knows(v)'
  BY <1>1, <1>4, KnowsKept
<1>6. SessionIds'
  BY <1>1, SessionIdsKept
<1>7. OldPasswordShut'
  BY <1>1, <1>2, OneMoves, PasswordsKept
<1>8. TotpProven' /\ SupersGoneOnlyByRace' /\ SetupOnce'
  BY <1>3, TotpKept, SupersKept
<1>9. /\ sessions' \subseteq [id : Value', adm : {a \in Admins : Present(a)'}, pwd : Value']
      /\ wins' \in Nat /\ proven' \in [Admins -> Value']
      /\ stale' \subseteq {"login", "enable", "revoke", "count"} \X Admins
  BY <1>1 DEF TypeOK, Value, Present
<1> QED
  BY <1>2, <1>4, <1>5, <1>6, <1>7, <1>8, <1>9, Step

LEMMA SetupCheckStep ==
  ASSUME IInv, NEW r \in Reqs, SetupCheck(r)
  PROVE  IInv'
<1>1. TypeOK
  BY DEF IInv
<1>2. req[r].pc = "idle" /\ UNCHANGED <<admins, sessions, drawn, wins, proven, stale>>
  BY DEF SetupCheck
<1>3. PICK v \in Request : req' = [req EXCEPT ![r] = v] /\ v.pc = "setup"
  BY <1>1, GotoIs DEF SetupCheck
<1>4. Knows(v)
  BY <1>3 DEF Knows
<1> QED
  BY <1>2, <1>3, <1>4, QuietStep

LEMMA LoginStep ==
  ASSUME IInv, NEW r \in Reqs, NEW a \in Admins, Login(r, a) \/ RecoverRead(r, a)
  PROVE  IInv'
<1>1. /\ req[r].pc = "idle" /\ UNCHANGED <<admins, sessions, drawn, wins, proven, stale>>
      /\ \E pc \in {"session", "recover"} :
            req' = [req EXCEPT ![r] = [Idle EXCEPT !.pc = pc, !.adm = a, !.row = admins[a]]]
  BY DEF Login, RecoverRead
<1>2. PICK pc \in {"session", "recover"} :
         req' = [req EXCEPT ![r] = [Idle EXCEPT !.pc = pc, !.adm = a, !.row = admins[a]]]
  BY <1>1
<1> DEFINE w == [Idle EXCEPT !.pc = pc, !.adm = a, !.row = admins[a]]
<1>3. w \in Request /\ w.pc = pc /\ w.adm = a /\ w.own = 0
  BY IdleRequest DEF IInv, TypeOK, Request, Idle
<1>4. req' = [req EXCEPT ![r] = w]
  BY <1>2
<1> HIDE DEF w
<1>5. Knows(w)
  BY <1>3 DEF Knows
<1> QED
  BY <1>1, <1>3, <1>4, <1>5, QuietStep

LEMMA AuthStep ==
  ASSUME IInv, NEW r \in Reqs, NEW s \in sessions, RequireAuth(r, s)
  PROVE  IInv'
<1> DEFINE w == [Idle EXCEPT !.pc = "auth", !.adm = s.adm, !.own = s.id, !.row = admins[s.adm]]
<1>1. /\ req[r].pc = "idle" /\ UNCHANGED <<admins, sessions, drawn, wins, proven, stale>>
      /\ req' = [req EXCEPT ![r] = w]
  BY DEF RequireAuth
<1>2. /\ s.adm \in Admins /\ s.id \in Value /\ admins[s.adm] \in Row
      /\ \A t \in sessions : t.id = s.id => t.adm = s.adm
  BY DEF IInv, TypeOK, SessionIds
<1>3. w \in Request /\ w.pc = "auth" /\ w.adm = s.adm /\ w.own = s.id
  BY <1>2, IdleRequest DEF IInv, Request
<1> HIDE DEF w
<1>4. Knows(w)
  BY <1>2, <1>3 DEF Knows
<1> QED
  BY <1>1, <1>3, <1>4, QuietStep

LEMMA ReadStep ==
  ASSUME IInv, NEW r \in Reqs, NEW pc \in {"password", "enable", "disable"}, Read(r, pc),
         pc = "enable" => req'[r].row.secret # 0
  PROVE  IInv'
<1> DEFINE a == req[r].adm
           w == [req[r] EXCEPT !.pc = pc, !.row = admins[a]]
<1>1. /\ req[r].pc = "auth" /\ UNCHANGED <<admins, sessions, drawn, wins, proven, stale>>
      /\ req' = [req EXCEPT ![r] = w]
  BY DEF Read
<1>2. req[r] \in Request /\ Knows(req[r]) /\ a \in Admins
  BY <1>1 DEF IInv, TypeOK, Knows
<1>3. admins[a] \in Row
  BY <1>2 DEF IInv, TypeOK
<1>4. /\ w \in Request
      /\ w.pc = pc /\ w.adm = a /\ w.own = req[r].own /\ w.row = admins[a]
  BY <1>2, <1>3 DEF Request
<1> HIDE DEF w
<1>5. req'[r] = w
  BY <1>1 DEF IInv, TypeOK
<1>6. Knows(w)
  BY <1>1, <1>2, <1>4, <1>5 DEF Knows
<1> QED
  BY <1>1, <1>4, <1>6, QuietStep

LEMMA RevokeOthersStep ==
  ASSUME IInv, NEW r \in Reqs, RevokeOthers(r)
  PROVE  IInv'
<1>1. req[r].pc = "auth" /\ UNCHANGED <<admins, sessions, drawn, wins, proven, stale>>
  BY DEF RevokeOthers
<1>2. PICK v \in Request : /\ req' = [req EXCEPT ![r] = v]
                           /\ v.pc = "revoke" /\ v.adm = req[r].adm
  BY GotoIs DEF IInv, RevokeOthers
<1>3. req[r].adm \in Admins
  BY <1>1 DEF IInv, Knows
<1>4. Knows(v)
  BY <1>2, <1>3 DEF Knows
<1> QED
  BY <1>1, <1>2, <1>4, QuietStep

LEMMA CountStep ==
  ASSUME IInv, NEW r \in Reqs, NEW a \in Admins, CountSupers(r, a)
  PROVE  IInv'
<1> DEFINE w == [Idle EXCEPT !.pc = "target", !.adm = a, !.supers = Supers]
<1>1. /\ req[r].pc = "auth" /\ UNCHANGED <<admins, sessions, drawn, wins, proven, stale>>
      /\ req' = [req EXCEPT ![r] = w]
  BY DEF CountSupers
<1>2. Supers \in SUBSET Admins
  BY DEF Supers
<1>3. w \in Request /\ w.pc = "target" /\ w.adm = a
  BY <1>2, IdleRequest DEF IInv, Request
<1> HIDE DEF w
<1>4. Knows(w)
  BY <1>3 DEF Knows
<1> QED
  BY <1>1, <1>3, <1>4, QuietStep

(* Of more than one there is another. *)
LEMMA AnotherOne ==
  ASSUME NEW S, NEW a, Cardinality(S) > 1
  PROVE  \E b \in S : b # a
<1> SUFFICES ASSUME \A b \in S : b = a PROVE FALSE
  OBVIOUS
<1>1. S = {} \/ S = {a}
  OBVIOUS
<1>2. Cardinality(S) = 0 \/ Cardinality(S) = 1
  BY <1>1, FS_EmptySet, FS_Singleton
<1> QED
  BY <1>2

LEMMA ReadTargetStep ==
  ASSUME IInv, NEW r \in Reqs, ReadTarget(r)
  PROVE  IInv'
<1> DEFINE a == req[r].adm
<1>1. req[r].pc = "target" /\ UNCHANGED <<admins, sessions, drawn, wins, proven, stale>>
  BY DEF ReadTarget
<1>2. TypeOK /\ a \in Admins
  BY <1>1 DEF IInv, Knows
<1>3. CASE Present(a) /\ (admins[a].super => Cardinality(req[r].supers) > 1)
  <2>1. Goto(r, "expel")
    BY <1>3 DEF ReadTarget
  <2>2. PICK v \in Request : /\ req' = [req EXCEPT ![r] = v]
                             /\ v.pc = "expel" /\ v.adm = a /\ v.supers = req[r].supers
    BY <1>2, <2>1, GotoIs
  <2>3. a \in Supers => \E b \in v.supers : b # a
    BY <1>3, <2>2, AnotherOne DEF Supers
  <2>4. Knows(v)
    BY <1>2, <1>3, <2>2, <2>3 DEF Knows, Present
  <2> QED
    BY <1>1, <2>2, <2>4, QuietStep
<1>4. CASE ~(Present(a) /\ (admins[a].super => Cardinality(req[r].supers) > 1))
  <2>1. req' = [req EXCEPT ![r] = Idle]
    BY <1>4 DEF ReadTarget, Return
  <2>2. Idle \in Request /\ Knows(Idle)
    BY <1>2, IdleRequest DEF Knows
  <2> QED
    BY <1>1, <2>1, <2>2, QuietStep
<1> QED
  BY <1>3, <1>4

-----------------------------------------------------------------------------
(* Steps that update a row in place.                                       *)

LEMMA RowUpdated ==
  ASSUME TypeOK, drawn' \in {drawn, New}, NEW a \in Admins, NEW row, row \in Row',
         row.state = admins[a].state, row.super = admins[a].super, Update(a, row)
  PROVE  /\ admins' \in [Admins -> Row']
         /\ \A b \in Admins : admins'[b] = IF b = a /\ Present(a) THEN row ELSE admins[b]
         /\ \A b \in Admins : Present(b)' = Present(b) /\ admins'[b].state = admins[b].state
         /\ Supers' = Supers
<1>1. admins \in [Admins -> Row'] /\ admins \in [Admins -> Row]
  BY Grow DEF TypeOK
<1>2. /\ admins' \in [Admins -> Row']
      /\ \A b \in Admins : admins'[b] = IF b = a /\ Present(a) THEN row ELSE admins[b]
  BY <1>1 DEF Update
<1>3. \A b \in Admins : admins'[b].state = admins[b].state /\ admins'[b].super = admins[b].super
  BY <1>2
<1>4. \A b \in Admins : Present(b)' = Present(b)
  BY <1>3 DEF Present
<1>5. Supers' = Supers
  BY <1>3, <1>4 DEF Supers
<1> QED
  BY <1>2, <1>3, <1>4, <1>5

LEMMA UpdateStep ==
  ASSUME IInv, drawn' \in {drawn, New}, NEW r \in Reqs, NEW a \in Admins,
         NEW row, row \in Row',
         row.state = admins[a].state, row.super = admins[a].super, Update(a, row),
         NEW v \in Request, Knows(v), req' = [req EXCEPT ![r] = v],
         sessions' \subseteq [id : Value', adm : {b \in Admins : Present(b)}, pwd : Value'],
         \A s \in sessions' : \E t \in sessions : t.id = s.id /\ t.adm = s.adm,
         wins' = wins, proven' \in [Admins -> Value'], stale \subseteq stale',
         stale' \subseteq {"login", "enable", "revoke", "count"} \X Admins,
         OldPasswordShut', TotpProven'
  PROVE  IInv'
<1>1. TypeOK /\ SessionIds
  BY DEF IInv
<1>2. /\ admins' \in [Admins -> Row']
      /\ \A b \in Admins : Present(b)' = Present(b) /\ admins'[b].state = admins[b].state
      /\ Supers' = Supers
  BY <1>1, RowUpdated
<1>3. Carried
  BY <1>2 DEF Carried
<1>4. v \in Request' /\ Knows(v)'
  BY <1>1, <1>3, Grow, KnowsKept
<1>5. SessionIds'
  BY <1>1, SessionIdsKept
<1>6. SupersGoneOnlyByRace' /\ SetupOnce'
  BY <1>2, SupersKept
<1>7. sessions' \subseteq [id : Value', adm : {b \in Admins : Present(b)'}, pwd : Value']
  BY <1>2
<1>8. wins' \in Nat
  BY <1>1 DEF TypeOK
<1> QED
  BY <1>2, <1>3, <1>4, <1>5, <1>6, <1>7, <1>8, Step

LEMMA SetPasswordStep ==
  ASSUME IInv, NEW r \in Reqs, SetPassword(r)
  PROVE  IInv'
<1> DEFINE a == req[r].adm
           own == req[r].own
           row == [admins[a] EXCEPT !.pwd = New]
<1>1. /\ req[r].pc = "password" /\ drawn' = New /\ Update(a, row) /\ sessions' = Rebase(own)
      /\ Goto(r, "revoke") /\ UNCHANGED <<wins, proven, stale>>
  BY DEF SetPassword, Draw
<1>2. TypeOK /\ a \in Admins /\ \A s \in sessions : s.id = own => s.adm = a
  BY <1>1 DEF IInv, Knows
<1>3. New \in Value' /\ Value \subseteq Value' /\ Row \subseteq Row'
  BY <1>1, <1>2, Fresh, Grow
<1>4. admins[a] \in Row' /\ admins[a] \in Row
  BY <1>2, <1>3 DEF TypeOK
<1>5. /\ row \in Row' /\ row.state = admins[a].state /\ row.super = admins[a].super
      /\ row.pwd = New /\ row.totp = admins[a].totp /\ row.secret = admins[a].secret
  BY <1>3, <1>4 DEF Row
<1> HIDE DEF row
<1>6. /\ \A b \in Admins : admins'[b] = IF b = a /\ Present(a) THEN row ELSE admins[b]
      /\ \A b \in Admins : Present(b)' = Present(b)
  BY <1>1, <1>2, <1>5, RowUpdated
<1>7. PICK v \in Request : /\ req' = [req EXCEPT ![r] = v]
                           /\ v.pc = "revoke" /\ v.adm = a /\ v.own = own
  BY <1>1, <1>2, GotoIs
<1>8. Knows(v)
  BY <1>2, <1>7 DEF Knows
<1>9. ASSUME NEW s \in sessions'
      PROVE  \E t \in sessions :
                /\ t.id = s.id /\ t.adm = s.adm
                /\ s \in [id : Value', adm : {b \in Admins : Present(b)}, pwd : Value']
                /\ IF t.id = own THEN s.pwd = New ELSE s = t
  <2>1. PICK t \in sessions : s = IF t.id = own THEN [t EXCEPT !.pwd = New] ELSE t
    BY <1>1 DEF Rebase
  <2>2. t \in [id : Value', adm : {b \in Admins : Present(b)}, pwd : Value']
    BY <1>2, <1>3 DEF TypeOK
  <2> QED
    BY <1>3, <2>1, <2>2
<1>10. OldPasswordShut'
  <2> SUFFICES ASSUME NEW s \in sessions'
               PROVE  \/ s.pwd = admins'[s.adm].pwd
                      \/ \E q \in Reqs : /\ req'[q].pc = "revoke" /\ req'[q].adm = s.adm
                                         /\ req'[q].own # s.id
                      \/ <<"login", s.adm>> \in stale'
                      \/ <<"revoke", s.adm>> \in stale'
    BY DEF OldPasswordShut
  <2>1. PICK t \in sessions : /\ t.id = s.id /\ t.adm = s.adm
                              /\ IF t.id = own THEN s.pwd = New ELSE s = t
    BY <1>9
  <2>2. t.adm \in Admins /\ Present(t.adm)
    BY <1>2 DEF TypeOK
  <2>3. req'[r] = v /\ \A x \in Reqs \ {r} : req'[x] = req[x]
    BY <1>2, <1>7 DEF TypeOK
  <2>4. CASE t.id = own
    BY <1>2, <1>5, <1>6, <2>1, <2>2, <2>4
  <2>5. CASE t.id # own /\ t.adm = a
    BY <1>7, <2>1, <2>3, <2>5
  <2>6. CASE t.id # own /\ t.adm # a
    <3>1. admins'[s.adm].pwd = admins[t.adm].pwd /\ s = t
      BY <1>6, <2>1, <2>2, <2>6
    <3> QED
      BY <1>1, <2>3, <3>1 DEF IInv, OldPasswordShut
  <2> QED
    BY <2>4, <2>5, <2>6
<1>11. TotpProven'
  <2>1. \A b \in Admins : admins'[b].totp = admins[b].totp /\ admins'[b].secret = admins[b].secret
    BY <1>5, <1>6
  <2> QED
    BY <1>1, <1>6, <2>1, TotpKept
<1>12. /\ wins' = wins /\ proven' \in [Admins -> Value'] /\ stale \subseteq stale'
       /\ stale' \subseteq {"login", "enable", "revoke", "count"} \X Admins
  BY <1>1, <1>2, <1>3 DEF TypeOK
<1>13. /\ sessions' \subseteq [id : Value', adm : {b \in Admins : Present(b)}, pwd : Value']
       /\ \A s \in sessions' : \E t \in sessions : t.id = s.id /\ t.adm = s.adm
  BY <1>9
<1>14. drawn' \in {drawn, New}
  BY <1>1
<1> HIDE DEF a, own
<1> QED
  BY <1>1, <1>2, <1>5, <1>7, <1>8, <1>10, <1>11, <1>12, <1>13, <1>14, UpdateStep


(* An update of r's own row that leaves sessions and passwords alone, and  *)
(* ends the handler.                                                       *)
LEMMA UpdateTotpStep ==
  ASSUME IInv, drawn' \in {drawn, New}, NEW r \in Reqs, NEW a \in Admins,
         NEW row, row \in Row', row.state = admins[a].state, row.super = admins[a].super,
         row.pwd = admins[a].pwd, Update(a, row), Return(r), req[r].pc # "revoke",
         UNCHANGED <<sessions, wins>>, proven' \in [Admins -> Value'], stale \subseteq stale',
         stale' \subseteq {"login", "enable", "revoke", "count"} \X Admins,
         TotpProven'
  PROVE  IInv'
<1>1. TypeOK
  BY DEF IInv
<1>2. Value \subseteq Value'
  BY <1>1, Grow
<1>3. \A s \in sessions : s.adm \in Admins
  BY <1>1 DEF TypeOK
<1>4. Idle \in Request /\ Knows(Idle) /\ req' = [req EXCEPT ![r] = Idle]
  BY <1>1, IdleRequest DEF Knows, Return
<1>5. \A b \in Admins : admins'[b].pwd = admins[b].pwd
  BY <1>1, RowUpdated
<1>6. \A x \in Reqs \ {r} : req'[x] = req[x]
  BY <1>4
<1>7. OldPasswordShut'
  BY <1>3, <1>5, <1>6, PasswordsKept
<1>8. /\ sessions' \subseteq [id : Value', adm : {b \in Admins : Present(b)}, pwd : Value']
      /\ \A s \in sessions' : \E t \in sessions : t.id = s.id /\ t.adm = s.adm
  BY <1>1, <1>2 DEF TypeOK
<1> QED
  BY <1>4, <1>7, <1>8, UpdateStep

LEMMA TotpSetupStep ==
  ASSUME IInv, NEW r \in Reqs, TotpSetup(r)
  PROVE  IInv'
<1> DEFINE a == req[r].adm
           row == [admins[a] EXCEPT !.secret = New, !.totp = FALSE]
<1>1. /\ req[r].pc = "auth" /\ drawn' = New /\ Update(a, row) /\ Return(r)
      /\ UNCHANGED <<sessions, wins, proven, stale>>
  BY DEF TotpSetup, Draw
<1>2. TypeOK /\ a \in Admins
  BY <1>1 DEF IInv, Knows
<1>3. New \in Value' /\ Value \subseteq Value' /\ Row \subseteq Row' /\ drawn' \in {drawn, New}
  BY <1>1, <1>2, Fresh, Grow
<1>4. admins[a] \in Row'
  BY <1>2, <1>3 DEF TypeOK
<1>5. /\ row \in Row' /\ row.state = admins[a].state /\ row.super = admins[a].super
      /\ row.pwd = admins[a].pwd /\ ~row.totp
  BY <1>3, <1>4 DEF Row
<1> HIDE DEF row
<1>6. /\ \A b \in Admins : admins'[b] = IF b = a /\ Present(a) THEN row ELSE admins[b]
      /\ \A b \in Admins : Present(b)' = Present(b)
  BY <1>1, <1>2, <1>3, <1>5, RowUpdated
<1>7. TotpProven'
  BY <1>1, <1>5, <1>6, TotpKept
<1>8. /\ proven' \in [Admins -> Value'] /\ stale \subseteq stale'
      /\ stale' \subseteq {"login", "enable", "revoke", "count"} \X Admins
  BY <1>1, <1>2, <1>3 DEF TypeOK
<1> HIDE DEF a
<1> QED
  BY <1>1, <1>2, <1>3, <1>5, <1>7, <1>8, UpdateTotpStep

LEMMA TotpDisableStep ==
  ASSUME IInv, NEW r \in Reqs, TotpDisable(r)
  PROVE  IInv'
<1> DEFINE a == req[r].adm
           row == [admins[a] EXCEPT !.totp = FALSE, !.secret = 0]
<1>1. /\ req[r].pc = "disable" /\ drawn' = drawn /\ Update(a, row) /\ Return(r)
      /\ UNCHANGED <<sessions, wins, proven, stale>>
  BY DEF TotpDisable
<1>2. TypeOK /\ a \in Admins
  BY <1>1 DEF IInv, Knows
<1>3. Value \subseteq Value' /\ Row \subseteq Row' /\ drawn' \in {drawn, New} /\ 0 \in Value'
  BY <1>1, <1>2, Grow DEF TypeOK, Value
<1>4. admins[a] \in Row'
  BY <1>2, <1>3 DEF TypeOK
<1>5. /\ row \in Row' /\ row.state = admins[a].state /\ row.super = admins[a].super
      /\ row.pwd = admins[a].pwd /\ ~row.totp
  BY <1>3, <1>4 DEF Row
<1> HIDE DEF row
<1>6. /\ \A b \in Admins : admins'[b] = IF b = a /\ Present(a) THEN row ELSE admins[b]
      /\ \A b \in Admins : Present(b)' = Present(b)
  BY <1>1, <1>2, <1>3, <1>5, RowUpdated
<1>7. TotpProven'
  BY <1>1, <1>5, <1>6, TotpKept
<1>8. /\ proven' \in [Admins -> Value'] /\ stale \subseteq stale'
      /\ stale' \subseteq {"login", "enable", "revoke", "count"} \X Admins
  BY <1>1, <1>2, <1>3 DEF TypeOK
<1> HIDE DEF a
<1> QED
  BY <1>1, <1>2, <1>3, <1>5, <1>7, <1>8, UpdateTotpStep

(* The secret that goes on is the one a code was shown of, or has been     *)
(* replaced meanwhile.                                                     *)
LEMMA TotpEnableStep ==
  ASSUME IInv, NEW r \in Reqs, TotpEnable(r)
  PROVE  IInv'
<1> DEFINE a == req[r].adm
           row == [admins[a] EXCEPT !.totp = TRUE]
           read == req[r].row.secret
<1>1. /\ req[r].pc = "enable" /\ drawn' = drawn /\ Update(a, row) /\ Return(r)
      /\ UNCHANGED <<sessions, wins>>
      /\ proven' = [proven EXCEPT ![a] = read]
      /\ stale' = IF admins[a].secret = read THEN stale ELSE stale \cup {<<"enable", a>>}
  BY DEF TotpEnable
<1>2. TypeOK /\ a \in Admins /\ read # 0
  BY <1>1 DEF IInv, Knows
<1>3. read \in Value
  BY <1>2 DEF TypeOK, Request, Row
<1>4. Value \subseteq Value' /\ Row \subseteq Row' /\ drawn' \in {drawn, New}
  BY <1>1, <1>2, Grow
<1>5. admins[a] \in Row' /\ proven \in [Admins -> Value'] /\ read \in Value'
  BY <1>2, <1>3, <1>4 DEF TypeOK
<1>6. /\ row \in Row' /\ row.state = admins[a].state /\ row.super = admins[a].super
      /\ row.pwd = admins[a].pwd /\ row.secret = admins[a].secret
  BY <1>5 DEF Row
<1> HIDE DEF row
<1>7. /\ \A b \in Admins : admins'[b] = IF b = a /\ Present(a) THEN row ELSE admins[b]
      /\ \A b \in Admins : Present(b)' = Present(b)
  BY <1>1, <1>2, <1>4, <1>6, RowUpdated
<1>8. /\ proven' \in [Admins -> Value'] /\ stale \subseteq stale'
      /\ \A b \in Admins : proven'[b] = IF b = a THEN read ELSE proven[b]
  BY <1>1, <1>5
<1>9. stale' \subseteq {"login", "enable", "revoke", "count"} \X Admins
  BY <1>1, <1>2 DEF TypeOK
<1>10. TotpProven'
  <2> SUFFICES ASSUME NEW b \in Admins, Present(b)', admins'[b].totp, <<"enable", b>> \notin stale'
               PROVE  admins'[b].secret # 0 /\ admins'[b].secret = proven'[b]
    BY DEF TotpProven
  <2>1. CASE b = a
    BY <1>1, <1>2, <1>6, <1>7, <1>8, <2>1
  <2>2. CASE b # a
    BY <1>7, <1>8, <2>2 DEF IInv, TotpProven
  <2> QED
    BY <2>1, <2>2
<1> HIDE DEF a
<1> QED
  BY <1>1, <1>2, <1>4, <1>6, <1>8, <1>9, <1>10, UpdateTotpStep

LEMMA RecoverStep ==
  ASSUME IInv, NEW r \in Reqs, Recover(r)
  PROVE  IInv'
<1> DEFINE a == req[r].adm
           row == [admins[a] EXCEPT !.pwd = New, !.code = New, !.secret = 0, !.totp = FALSE]
<1>1. /\ req[r].pc = "recover" /\ drawn' = New /\ Update(a, row) /\ Goto(r, "revoke")
      /\ UNCHANGED <<sessions, wins, proven, stale>>
  BY DEF Recover, Draw
<1>2. TypeOK /\ a \in Admins /\ req[r].own = 0 /\ \A s \in sessions : s.id # 0
  BY <1>1 DEF IInv, Knows, SessionIds
<1>3. /\ New \in Value' /\ Value \subseteq Value' /\ Row \subseteq Row' /\ drawn' \in {drawn, New}
      /\ 0 \in Value'
  BY <1>1, <1>2, Fresh, Grow DEF Value
<1>4. admins[a] \in Row'
  BY <1>2, <1>3 DEF TypeOK
<1>5. /\ row \in Row' /\ row.state = admins[a].state /\ row.super = admins[a].super /\ ~row.totp
  BY <1>3, <1>4 DEF Row
<1> HIDE DEF row
<1>6. /\ \A b \in Admins : admins'[b] = IF b = a /\ Present(a) THEN row ELSE admins[b]
      /\ \A b \in Admins : Present(b)' = Present(b)
  BY <1>1, <1>2, <1>3, <1>5, RowUpdated
<1>7. PICK v \in Request : /\ req' = [req EXCEPT ![r] = v]
                           /\ v.pc = "revoke" /\ v.adm = a /\ v.own = 0
  BY <1>1, <1>2, GotoIs
<1>8. Knows(v)
  BY <1>2, <1>7 DEF Knows
<1>9. OldPasswordShut'
  <2> SUFFICES ASSUME NEW s \in sessions'
               PROVE  \/ s.pwd = admins'[s.adm].pwd
                      \/ \E q \in Reqs : /\ req'[q].pc = "revoke" /\ req'[q].adm = s.adm
                                         /\ req'[q].own # s.id
                      \/ <<"login", s.adm>> \in stale'
                      \/ <<"revoke", s.adm>> \in stale'
    BY DEF OldPasswordShut
  <2>1. req'[r] = v /\ \A x \in Reqs \ {r} : req'[x] = req[x]
    BY <1>2, <1>7 DEF TypeOK
  <2>2. s \in sessions /\ s.adm \in Admins
    BY <1>1, <1>2 DEF TypeOK
  <2>3. CASE s.adm = a
    BY <1>2, <1>7, <2>1, <2>2, <2>3
  <2>4. CASE s.adm # a
    <3>1. admins'[s.adm] = admins[s.adm]
      BY <1>6, <2>2, <2>4
    <3> QED
      BY <1>1, <2>1, <2>2, <3>1 DEF IInv, OldPasswordShut
  <2> QED
    BY <2>3, <2>4
<1>10. TotpProven'
  BY <1>1, <1>5, <1>6, TotpKept
<1>11. /\ wins' = wins /\ proven' \in [Admins -> Value'] /\ stale \subseteq stale'
       /\ stale' \subseteq {"login", "enable", "revoke", "count"} \X Admins
  BY <1>1, <1>2, <1>3 DEF TypeOK
<1>12. /\ sessions' \subseteq [id : Value', adm : {b \in Admins : Present(b)}, pwd : Value']
       /\ \A s \in sessions' : \E t \in sessions : t.id = s.id /\ t.adm = s.adm
  BY <1>1, <1>2, <1>3 DEF TypeOK
<1> HIDE DEF a
<1> QED
  BY <1>1, <1>2, <1>3, <1>5, <1>7, <1>8, <1>9, <1>10, <1>11, <1>12, UpdateStep

-----------------------------------------------------------------------------
(* Steps that open and close sessions.                                     *)

LEMMA OpenStep ==
  ASSUME IInv, NEW r \in Reqs, OpenSession(r)
  PROVE  IInv'
<1> DEFINE a == req[r].adm
           p == req[r].row.pwd
<1>1. req[r].pc = "session" /\ Return(r) /\ UNCHANGED <<admins, wins, proven>>
  BY DEF OpenSession
<1>2. TypeOK /\ SessionIds /\ a \in Admins
  BY <1>1 DEF IInv, Knows
<1>3. p \in Value
  BY <1>2 DEF TypeOK, Request, Row
<1>4. Idle \in Request /\ Knows(Idle) /\ req' = [req EXCEPT ![r] = Idle]
  BY <1>1, <1>2, IdleRequest DEF Knows, Return
<1>5. CASE ~Present(a)
  <2>1. UNCHANGED <<sessions, drawn, stale>>
    BY <1>5 DEF OpenSession
  <2> QED
    BY <1>1, <1>4, <2>1, QuietStep
<1>6. CASE Present(a)
  <2> DEFINE n == [id |-> New, adm |-> a, pwd |-> p]
  <2>1. /\ drawn' = New /\ sessions' = sessions \cup {n}
        /\ stale' = IF admins[a].pwd = p THEN stale ELSE stale \cup {<<"login", a>>}
    BY <1>6 DEF OpenSession, Draw
  <2>2. /\ New \in Value' /\ Value \subseteq Value' /\ Row \subseteq Row' /\ Request \subseteq Request'
        /\ New \notin Value /\ New # 0
    BY <1>2, <2>1, Fresh, Grow
  <2>3. n.id = New /\ n.adm = a /\ n.pwd = p
    OBVIOUS
  <2>4. n \in [id : Value', adm : {b \in Admins : Present(b)'}, pwd : Value']
    BY <1>1, <1>2, <1>3, <1>6, <2>2 DEF Present
  <2>5. sessions \subseteq [id : Value', adm : {b \in Admins : Present(b)'}, pwd : Value']
    BY <1>1, <1>2, <2>2 DEF TypeOK, Present
  <2>6. \A s \in sessions : s.id \in Value
    BY <1>2 DEF TypeOK
  <2> HIDE DEF n, a, p
  <2>7. Supers' = Supers /\ \A b \in Admins : Present(b)' = Present(b)
    BY <1>1 DEF Supers, Present
  <2>8. Carried
    BY <1>1, <2>1, <2>3, <2>7 DEF Carried
  <2>9. SessionIds'
    BY <1>2, <2>1, <2>2, <2>3, <2>6 DEF SessionIds
  <2>10. stale \subseteq stale' /\ \A s \in sessions' : s \in sessions \/ s = n
    BY <2>1
  <2>11. OldPasswordShut'
    <3> SUFFICES ASSUME NEW s \in sessions'
                 PROVE  \/ s.pwd = admins'[s.adm].pwd
                        \/ \E q \in Reqs : /\ req'[q].pc = "revoke" /\ req'[q].adm = s.adm
                                           /\ req'[q].own # s.id
                        \/ <<"login", s.adm>> \in stale'
                        \/ <<"revoke", s.adm>> \in stale'
      BY DEF OldPasswordShut
    <3>1. CASE s = n
      BY <1>1, <2>1, <2>3, <3>1
    <3>2. CASE s \in sessions
      BY <1>1, <1>4, <2>10, <3>2 DEF IInv, OldPasswordShut
    <3> QED
      BY <2>10, <3>1, <3>2
  <2>12. TotpProven' /\ SupersGoneOnlyByRace' /\ SetupOnce'
    BY <1>1, <2>7, <2>10, TotpKept, SupersKept
  <2>13. /\ wins' \in Nat /\ proven' \in [Admins -> Value'] /\ admins' \in [Admins -> Row']
         /\ sessions' \subseteq [id : Value', adm : {b \in Admins : Present(b)'}, pwd : Value']
    BY <1>1, <1>2, <2>1, <2>2, <2>4, <2>5 DEF TypeOK
  <2>14. stale' \subseteq {"login", "enable", "revoke", "count"} \X Admins
    BY <1>2, <2>1 DEF TypeOK
  <2>15. Idle \in Request' /\ Knows(Idle)' /\ drawn' \in {drawn, New}
    BY <1>2, <1>4, <2>1, <2>2, <2>8, KnowsKept
  <2> QED
    BY <1>4, <2>8, <2>9, <2>11, <2>12, <2>13, <2>14, <2>15, Step
<1> QED
  BY <1>5, <1>6

(* A step that only closes sessions, and may leave a trace. *)
LEMMA ShutStep ==
  ASSUME IInv, NEW r \in Reqs, NEW v \in Request, Knows(v), req' = [req EXCEPT ![r] = v],
         sessions' \subseteq sessions, UNCHANGED <<admins, drawn, wins, proven>>,
         stale \subseteq stale',
         stale' \subseteq {"login", "enable", "revoke", "count"} \X Admins,
         \/ req[r].pc # "revoke"
         \/ <<"revoke", req[r].adm>> \in stale'
         \/ \A s \in sessions' : s.adm = req[r].adm => s.id = req[r].own
  PROVE  IInv'
<1>1. TypeOK /\ SessionIds
  BY DEF IInv
<1>2. drawn' \in {drawn, New} /\ v \in Request' /\ admins' \in [Admins -> Row']
  BY <1>1, Grow DEF TypeOK
<1>3. Supers' = Supers /\ \A a \in Admins : Present(a)' = Present(a)
  BY DEF Supers, Present
<1>4. \A s \in sessions' : \E t \in sessions : t.id = s.id /\ t.adm = s.adm
  OBVIOUS
<1>5. Carried
  BY <1>3, <1>4 DEF Carried
<1>6. Knows(v)' /\ SessionIds'
  BY <1>1, <1>4, <1>5, KnowsKept, SessionIdsKept
<1>7. \A x \in Reqs \ {r} : req'[x] = req[x]
  BY <1>1, <1>2, OneMoves
<1>8. OldPasswordShut'
  BY <1>7, PasswordsKept
<1>9. TotpProven' /\ SupersGoneOnlyByRace' /\ SetupOnce'
  BY <1>3, TotpKept, SupersKept
<1>10. /\ sessions' \subseteq [id : Value', adm : {a \in Admins : Present(a)'}, pwd : Value']
       /\ wins' \in Nat /\ proven' \in [Admins -> Value']
  BY <1>1 DEF TypeOK, Value, Present
<1> QED
  BY <1>2, <1>5, <1>6, <1>8, <1>9, <1>10, Step

LEMMA RevokeStep ==
  ASSUME IInv, NEW r \in Reqs, Revoke(r)
  PROVE  IInv'
<1>1. /\ req[r].pc \in {"revoke", "expel"}
      /\ sessions' = {s \in sessions : s.adm = req[r].adm => s.id = req[r].own}
      /\ UNCHANGED <<admins, drawn, wins, proven, stale>>
      /\ IF req[r].pc = "expel" THEN Goto(r, "drop") ELSE Return(r)
  BY DEF Revoke
<1>2. TypeOK /\ Knows(req[r]) /\ sessions' \subseteq sessions
  BY <1>1 DEF IInv
<1>3. stale' \subseteq {"login", "enable", "revoke", "count"} \X Admins /\ stale \subseteq stale'
  BY <1>1, <1>2 DEF TypeOK
<1>4. CASE req[r].pc = "expel"
  <2>1. PICK v \in Request : /\ req' = [req EXCEPT ![r] = v] /\ v.pc = "drop"
                             /\ v.adm = req[r].adm /\ v.supers = req[r].supers
    BY <1>1, <1>2, <1>4, GotoIs
  <2>2. Knows(v)
    BY <1>2, <1>4, <2>1 DEF Knows
  <2> QED
    BY <1>1, <1>2, <1>3, <1>4, <2>1, <2>2, ShutStep
<1>5. CASE req[r].pc # "expel"
  <2>1. Idle \in Request /\ Knows(Idle) /\ req' = [req EXCEPT ![r] = Idle]
    BY <1>1, <1>2, <1>5, IdleRequest DEF Knows, Return
  <2>2. \A s \in sessions' : s.adm = req[r].adm => s.id = req[r].own
    BY <1>1
  <2> QED
    BY <1>1, <1>2, <1>3, <2>1, <2>2, ShutStep
<1> QED
  BY <1>4, <1>5

LEMMA AbortStep ==
  ASSUME IInv, NEW r \in Reqs, Abort(r)
  PROVE  IInv'
<1>1. /\ req[r].pc # "idle" /\ Return(r)
      /\ stale' = IF req[r].pc = "revoke" THEN stale \cup {<<"revoke", req[r].adm>>} ELSE stale
      /\ UNCHANGED <<admins, sessions, drawn, wins, proven>>
  BY DEF Abort
<1>2. TypeOK /\ Knows(req[r])
  BY DEF IInv
<1>3. Idle \in Request /\ Knows(Idle) /\ req' = [req EXCEPT ![r] = Idle]
  BY <1>1, <1>2, IdleRequest DEF Knows, Return
<1>4. /\ stale' \subseteq {"login", "enable", "revoke", "count"} \X Admins
      /\ stale \subseteq stale'
      /\ req[r].pc # "revoke" \/ <<"revoke", req[r].adm>> \in stale'
  BY <1>1, <1>2 DEF TypeOK, Knows
<1> QED
  BY <1>1, <1>3, <1>4, ShutStep

LEMMA CloseStep ==
  ASSUME IInv, NEW s \in sessions, Close(s)
  PROVE  IInv'
<1>1. TypeOK /\ SessionIds
  BY DEF IInv
<1>2. sessions' \subseteq sessions /\ UNCHANGED <<admins, drawn, req, wins, proven, stale>>
  BY DEF Close
<1>3. Supers' = Supers /\ \A a \in Admins : Present(a)' = Present(a)
  BY <1>2 DEF Supers, Present
<1>4. TypeOK'
  BY <1>1, <1>2, <1>3 DEF TypeOK, Request, Row, Value
<1>5. SessionIds'
  BY <1>1, <1>2 DEF SessionIds
<1>6. \A x \in Reqs : Knows(req[x])'
  BY <1>2, <1>3 DEF IInv, Knows
<1>7. OldPasswordShut'
  BY <1>2 DEF IInv, OldPasswordShut
<1>8. TotpProven' /\ SupersGoneOnlyByRace' /\ SetupOnce'
  BY <1>2, <1>3, TotpKept, SupersKept
<1> QED
  BY <1>4, <1>5, <1>6, <1>7, <1>8 DEF IInv

-----------------------------------------------------------------------------
(* Steps that bring an administrator, and the one that drops one.          *)

(* A row that was not in use, and is from now on. *)
LEMMA NewRow ==
  ASSUME TypeOK, drawn' = New, NEW a \in Admins, admins[a].state = "unused", NEW row,
         row \in Row', row.state = "present", admins' = [admins EXCEPT ![a] = row]
  PROVE  /\ admins' \in [Admins -> Row'] /\ admins'[a] = row
         /\ \A b \in Admins \ {a} : admins'[b] = admins[b]
         /\ \A s \in sessions : s.adm \in Admins \ {a}
         /\ Supers \subseteq Supers'
         /\ \A b \in Admins : admins[b].state # "unused" =>
               admins'[b].state # "unused" /\ (b \in Supers' => b \in Supers)
         /\ Value \subseteq Value'
         /\ sessions \subseteq [id : Value', adm : {b \in Admins : Present(b)'}, pwd : Value']
<1>1. Row \subseteq Row' /\ Value \subseteq Value'
  BY Grow
<1>2. admins \in [Admins -> Row'] /\ admins \in [Admins -> Row]
  BY <1>1 DEF TypeOK
<1>3. /\ admins' \in [Admins -> Row'] /\ admins'[a] = row
      /\ \A b \in Admins \ {a} : admins'[b] = admins[b]
  BY <1>2
<1>4. \A s \in sessions : s.adm \in Admins \ {a}
  BY DEF TypeOK, Present
<1>5. \A b \in Admins \ {a} : Present(b)' = Present(b)
  BY <1>3 DEF Present
<1>6. ~Present(a)
  BY DEF Present
<1>7. Supers \subseteq Supers' /\ \A b \in Admins \ {a} : b \in Supers' => b \in Supers
  BY <1>3, <1>5, <1>6 DEF Supers
<1>8. \A b \in Admins : admins[b].state # "unused" =>
               admins'[b].state # "unused" /\ (b \in Supers' => b \in Supers)
  BY <1>3, <1>7
<1>9. sessions \subseteq [id : Value', adm : {b \in Admins : Present(b)'}, pwd : Value']
  BY <1>1, <1>4, <1>5 DEF TypeOK
<1> QED
  BY <1>1, <1>3, <1>4, <1>7, <1>8, <1>9

LEMMA BringStep ==
  ASSUME IInv, NEW r \in Reqs, req[r].pc # "revoke", drawn' = New,
         NEW a \in Admins, admins[a].state = "unused",
         NEW row, row \in Row', row.state = "present", ~row.totp,
         admins' = [admins EXCEPT ![a] = row],
         NEW v \in Request', Knows(v)', req' = [req EXCEPT ![r] = v],
         UNCHANGED <<sessions, proven, stale>>, wins' \in Nat,
         SupersGoneOnlyByRace', SetupOnce'
  PROVE  IInv'
<1>1. TypeOK /\ SessionIds
  BY DEF IInv
<1>2. /\ admins' \in [Admins -> Row'] /\ admins'[a] = row
      /\ \A b \in Admins \ {a} : admins'[b] = admins[b]
      /\ \A s \in sessions : s.adm \in Admins \ {a}
      /\ \A b \in Admins : admins[b].state # "unused" =>
            admins'[b].state # "unused" /\ (b \in Supers' => b \in Supers)
      /\ Value \subseteq Value'
      /\ sessions \subseteq [id : Value', adm : {b \in Admins : Present(b)'}, pwd : Value']
  BY <1>1, NewRow
<1>3. Carried
  BY <1>2 DEF Carried
<1>4. SessionIds'
  BY <1>1, SessionIdsKept
<1>5. \A x \in Reqs \ {r} : req'[x] = req[x]
  OBVIOUS
<1>6. OldPasswordShut'
  BY <1>2, <1>5, PasswordsKept
<1>7. \A b \in Admins \ {a} : Present(b)' = Present(b)
  BY <1>2 DEF Present
<1>8. TotpProven'
  BY <1>2, <1>7, TotpKept
<1>9. proven' \in [Admins -> Value'] /\ drawn' \in {drawn, New}
      /\ stale' \subseteq {"login", "enable", "revoke", "count"} \X Admins
  BY <1>1, <1>2 DEF TypeOK
<1> QED
  BY <1>2, <1>3, <1>4, <1>6, <1>8, <1>9, Step

LEMMA CreateAdminStep ==
  ASSUME IInv, NEW r \in Reqs, NEW a \in Admins, NEW super \in BOOLEAN, CreateAdmin(r, a, super)
  PROVE  IInv'
<1> DEFINE row == [NoRow EXCEPT !.state = "present", !.super = super, !.pwd = New]
<1>1. /\ req[r].pc = "auth" /\ admins[a].state = "unused" /\ drawn' = New
      /\ admins' = [admins EXCEPT ![a] = row] /\ req' = [req EXCEPT ![r] = Idle]
      /\ UNCHANGED <<sessions, wins, proven, stale>>
  BY DEF CreateAdmin, Draw, Return
<1>2. TypeOK
  BY DEF IInv
<1>3. /\ New \in Value' /\ Row \subseteq Row' /\ Request \subseteq Request'
      /\ Idle \in Request /\ NoRow \in Row
  BY <1>1, <1>2, Fresh, Grow, IdleRequest
<1>4. row \in Row' /\ row.state = "present" /\ ~row.totp
  BY <1>3 DEF Row, NoRow
<1> HIDE DEF row
<1>5. Supers \subseteq Supers'
  BY <1>1, <1>2, <1>4, NewRow
<1>6. SupersGoneOnlyByRace' /\ SetupOnce' /\ wins' \in Nat
  BY <1>1, <1>2, <1>5, SupersKept DEF TypeOK
<1>7. Idle \in Request' /\ Knows(Idle)'
  BY <1>2, <1>3, IdleRequest DEF Knows
<1> QED
  BY <1>1, <1>4, <1>6, <1>7, BringStep

(* Setup finds no administrator; whoever comes after one finds it, unless  *)
(* deletions that ran at the same time have taken the last super_admin.    *)
LEMMA SetupInsertStep ==
  ASSUME IInv, NEW r \in Reqs, NEW a \in Admins, SetupInsert(r, a)
  PROVE  IInv'
<1>1. req[r].pc = "setup" /\ UNCHANGED <<sessions, proven, stale>>
  BY DEF SetupInsert
<1>2. TypeOK
  BY DEF IInv
<1>3. CASE \E b \in Admins : Present(b)
  <2>1. req' = [req EXCEPT ![r] = Idle] /\ UNCHANGED <<admins, drawn, wins>>
    BY <1>3 DEF SetupInsert, Return
  <2>2. Idle \in Request /\ Knows(Idle)
    BY <1>2, IdleRequest DEF Knows
  <2> QED
    BY <1>1, <2>1, <2>2, QuietStep
<1>4. CASE ~\E b \in Admins : Present(b)
  <2> DEFINE w == [Idle EXCEPT !.pc = "session", !.adm = a, !.row = FirstRow]
  <2>1. /\ admins[a].state = "unused" /\ drawn' = New
        /\ admins' = [admins EXCEPT ![a] = FirstRow]
        /\ req' = [req EXCEPT ![r] = w]
        /\ wins' = wins + 1
    BY <1>4 DEF SetupInsert, Draw
  <2>2. /\ New \in Value' /\ Row \subseteq Row' /\ Request \subseteq Request'
        /\ Idle \in Request /\ NoRow \in Row
    BY <1>2, <2>1, Fresh, Grow, IdleRequest
  <2>3. FirstRow \in Row' /\ FirstRow.state = "present" /\ ~FirstRow.totp /\ FirstRow.super
    BY <2>2 DEF FirstRow, Row, NoRow
  <2>4. w \in Request' /\ w.pc = "session" /\ w.adm = a
    BY <2>2, <2>3 DEF Request
  <2>5. PICK v \in Request' : v = w
    BY <2>4
  <2> HIDE DEF w
  <2>6. Knows(v)'
    BY <2>4, <2>5 DEF Knows
  <2>7. PICK row \in Row' : row = FirstRow
    BY <2>3
  <2>8. admins'[a] = row /\ row.state = "present" /\ row.super
    BY <1>2, <2>1, <2>3, <2>7 DEF TypeOK
  <2>9. a \in Supers'
    BY <2>8 DEF Supers, Present
  <2>10. Supers = {} /\ wins \in Nat
    BY <1>2, <1>4 DEF Supers, TypeOK
  <2>11. wins > 0 => StaleCount
    BY <2>10 DEF IInv, SupersGoneOnlyByRace
  <2>12. SupersGoneOnlyByRace' /\ SetupOnce' /\ wins' \in Nat
    BY <1>1, <2>1, <2>9, <2>10, <2>11 DEF SupersGoneOnlyByRace, SetupOnce, StaleCount
  <2> QED
    BY <1>1, <2>1, <2>3, <2>5, <2>6, <2>7, <2>12, BringStep
<1> QED
  BY <1>3, <1>4


(* Whoever goes, the super_admins that were counted are more than the one  *)
(* that does.                                                              *)
LEMMA DropStep ==
  ASSUME IInv, NEW r \in Reqs, Drop(r)
  PROVE  IInv'
<1> DEFINE gone == [NoRow EXCEPT !.state = "deleted"]
<1>0. PICK a \in Admins : a = req[r].adm
  BY DEF IInv, Knows, Drop
<1>1. /\ req[r].pc = "drop" /\ admins' = [admins EXCEPT ![a] = gone]
      /\ sessions' = {s \in sessions : s.adm # a}
      /\ stale' = IF req[r].supers \subseteq Supers THEN stale ELSE stale \cup {<<"count", a>>}
      /\ req' = [req EXCEPT ![r] = Idle]
      /\ UNCHANGED <<drawn, wins, proven>>
  BY <1>0 DEF Drop, Return
<1>2. /\ TypeOK /\ SessionIds /\ a \in Admins
      /\ a \in Supers => \E b \in req[r].supers : b # a
  BY <1>0, <1>1 DEF IInv, Knows
<1>3. /\ Idle \in Request /\ NoRow \in Row /\ Value \subseteq Value' /\ Row \subseteq Row'
      /\ Request \subseteq Request' /\ drawn' \in {drawn, New}
  BY <1>1, <1>2, IdleRequest, Grow
<1>4. gone \in Row' /\ gone.state = "deleted"
  BY <1>3 DEF Row
<1> HIDE DEF gone
<1>5. admins \in [Admins -> Row'] /\ admins \in [Admins -> Row]
  BY <1>2, <1>3 DEF TypeOK
<1>6. /\ admins' \in [Admins -> Row'] /\ admins'[a] = gone
      /\ \A b \in Admins \ {a} : admins'[b] = admins[b]
  BY <1>1, <1>2, <1>4, <1>5
<1>7. ~Present(a)' /\ \A b \in Admins \ {a} : Present(b)' = Present(b)
  BY <1>4, <1>6 DEF Present
<1>8. Supers' = Supers \ {a}
  BY <1>2, <1>6, <1>7 DEF Supers
<1>9. \A s \in sessions : s.adm \in Admins
  BY <1>2 DEF TypeOK
<1>10. /\ sessions' \subseteq sessions /\ \A s \in sessions' : s.adm \in Admins \ {a}
       /\ \A s \in sessions' : \E t \in sessions : t.id = s.id /\ t.adm = s.adm
  BY <1>1, <1>9
<1>11. Carried
  BY <1>4, <1>6, <1>8, <1>10 DEF Carried
<1>12. SessionIds'
  BY <1>2, <1>10, SessionIdsKept
<1>13. Idle \in Request' /\ Knows(Idle)'
  BY <1>2, <1>3, IdleRequest DEF Knows
<1>14. /\ stale \subseteq stale'
       /\ stale' \subseteq {"login", "enable", "revoke", "count"} \X Admins
  BY <1>1, <1>2 DEF TypeOK
<1>15. OldPasswordShut'
  <2>1. \A x \in Reqs \ {r} : req'[x] = req[x]
    BY <1>1
  <2> QED
    BY <1>1, <1>6, <1>10, <1>14, <2>1, PasswordsKept
<1>16. TotpProven'
  BY <1>1, <1>6, <1>7, <1>14, TotpKept
<1>17. StaleCount => StaleCount'
  BY <1>14 DEF StaleCount
<1>18. SetupOnce'
  BY <1>1, <1>17 DEF IInv, SetupOnce
<1>19. SupersGoneOnlyByRace'
  <2>1. CASE ~(req[r].supers \subseteq Supers)
    <3>1. StaleCount'
      BY <1>1, <1>2, <2>1 DEF StaleCount
    <3> QED
      BY <3>1 DEF SupersGoneOnlyByRace
  <2>2. CASE req[r].supers \subseteq Supers /\ a \in Supers
    <3>1. Supers' # {}
      BY <1>2, <1>8, <2>2
    <3> QED
      BY <3>1 DEF SupersGoneOnlyByRace
  <2>3. CASE a \notin Supers
    <3>1. Supers' = Supers
      BY <1>8, <2>3
    <3> QED
      BY <1>1, <1>17, <3>1 DEF IInv, SupersGoneOnlyByRace
  <2> QED
    BY <2>1, <2>2, <2>3
<1>20. sessions' \subseteq [id : Value', adm : {b \in Admins : Present(b)'}, pwd : Value']
  <2>1. sessions \subseteq [id : Value', adm : Admins, pwd : Value']
    BY <1>2, <1>3 DEF TypeOK
  <2>2. ASSUME NEW s \in sessions' PROVE Present(s.adm)'
    <3>1. Present(s.adm)
      BY <1>2, <1>10 DEF TypeOK
    <3> QED
      BY <1>7, <1>10, <3>1
  <2>3. \A s \in sessions' : s \in [id : Value', adm : Admins, pwd : Value']
    BY <1>10, <2>1
  <2> QED
    BY <2>2, <2>3
<1>21. wins' \in Nat /\ proven' \in [Admins -> Value']
  BY <1>1, <1>2, <1>3 DEF TypeOK
<1> QED
  BY <1>1, <1>3, <1>6, <1>11, <1>12, <1>13, <1>14, <1>15, <1>16, <1>18, <1>19, <1>20, <1>21, Step

-----------------------------------------------------------------------------
LEMMA InitInv == Init => IInv
<1> SUFFICES ASSUME Init PROVE IInv
  OBVIOUS
<1>1. 0 \in Value /\ drawn \in Nat
  BY DEF Init, Value
<1>2. NoRow \in Row /\ NoRow.state = "unused" /\ ~NoRow.totp
  BY <1>1 DEF NoRow, Row
<1>3. Idle \in Request /\ Idle.pc = "idle"
  BY <1>1, <1>2 DEF Idle, Request
<1>4. TypeOK
  BY <1>1, <1>2, <1>3 DEF Init, TypeOK
<1>5. SessionIds /\ OldPasswordShut
  BY DEF Init, SessionIds, OldPasswordShut
<1>6. \A r \in Reqs : Knows(req[r])
  BY <1>3 DEF Init, Knows
<1>7. TotpProven
  BY <1>2 DEF Init, TotpProven
<1>8. SupersGoneOnlyByRace /\ SetupOnce
  BY DEF Init, SupersGoneOnlyByRace, SetupOnce
<1> QED
  BY <1>4, <1>5, <1>6, <1>7, <1>8 DEF IInv

LEMMA StutterStep ==
  ASSUME IInv, UNCHANGED vars
  PROVE  IInv'
<1>1. TypeOK' /\ SessionIds' /\ (\A r \in Reqs : Knows(req[r])')
  BY DEF vars, IInv, TypeOK, SessionIds, Knows, Value, Row, Request, Present, Supers
<1>2. OldPasswordShut' /\ TotpProven' /\ SupersGoneOnlyByRace' /\ SetupOnce'
  BY DEF vars, IInv, OldPasswordShut, TotpProven, SupersGoneOnlyByRace, SetupOnce, Present,
         Supers, StaleCount
<1> QED
  BY <1>1, <1>2 DEF IInv

LEMMA NextInv ==
  ASSUME IInv, [Next]_vars
  PROVE  IInv'
<1>1. CASE UNCHANGED vars
  BY <1>1, StutterStep
<1>2. ASSUME NEW s \in sessions, Close(s) \/ \E r \in Reqs : RequireAuth(r, s) PROVE IInv'
  BY <1>2, CloseStep, AuthStep
<1>3. ASSUME NEW r \in Reqs, Authenticated(r) PROVE IInv'
  <2>1. CASE PasswordRead(r)
    BY <2>1, ReadStep DEF PasswordRead
  <2>2. CASE TotpEnableRead(r)
    BY <2>2, ReadStep DEF TotpEnableRead
  <2>3. CASE TotpDisableRead(r)
    BY <2>3, ReadStep DEF TotpDisableRead
  <2>4. CASE RevokeOthers(r) \/ TotpSetup(r)
    BY <2>4, RevokeOthersStep, TotpSetupStep
  <2>5. CASE \E a \in Admins, super \in BOOLEAN : CreateAdmin(r, a, super)
    BY <2>5, CreateAdminStep
  <2>6. CASE \E a \in Admins : CountSupers(r, a)
    BY <2>6, CountStep
  <2> QED
    BY <1>3, <2>1, <2>2, <2>3, <2>4, <2>5, <2>6 DEF Authenticated
<1>4. ASSUME NEW r \in Reqs,
             \/ SetupCheck(r) \/ OpenSession(r) \/ SetPassword(r) \/ Revoke(r) \/ TotpEnable(r)
             \/ TotpDisable(r) \/ Recover(r) \/ ReadTarget(r) \/ Drop(r) \/ Abort(r)
      PROVE  IInv'
  BY <1>4, SetupCheckStep, OpenStep, SetPasswordStep, RevokeStep, TotpEnableStep,
     TotpDisableStep, RecoverStep, ReadTargetStep, DropStep, AbortStep
<1>5. ASSUME NEW r \in Reqs, NEW a \in Admins,
             SetupInsert(r, a) \/ Login(r, a) \/ RecoverRead(r, a)
      PROVE  IInv'
  BY <1>5, SetupInsertStep, LoginStep
<1> QED
  BY <1>1, <1>2, <1>3, <1>4, <1>5 DEF Next

(* The inductive invariant: the four properties below, what every handler  *)
(* knows by where it is, and that ids of sessions are drawn once.          *)
THEOREM Invariance == Spec => []IInv
<1>1. Init => IInv
  BY InitInv
<1>2. IInv /\ [Next]_vars => IInv'
  BY NextInv
<1> QED
  BY <1>1, <1>2, PTL DEF Spec

(* Rows, sessions and handlers have their types, and every session has an  *)
(* administrator (the foreign key of sessions).                            *)
THEOREM TypeCorrect == Spec => []TypeOK
<1>1. IInv => TypeOK
  BY DEF IInv
<1> QED
  BY <1>1, Invariance, PTL

(* auth.routes.ts, recovery and the change of a password: a session that   *)
(* rests on an earlier password is about to be revoked, or a login or a    *)
(* handler that stopped is to blame.                                       *)
THEOREM NewPasswordShutsOld == Spec => []OldPasswordShut
<1>1. IInv => OldPasswordShut
  BY DEF IInv
<1> QED
  BY <1>1, Invariance, PTL

(* totp/setup and totp/enable: two-factor login is on only with a secret   *)
(* the administrator has shown a code of, unless it was replaced while the *)
(* code was checked.                                                       *)
THEOREM SecretsProven == Spec => []TotpProven
<1>1. IInv => TotpProven
  BY DEF IInv
<1> QED
  BY <1>1, Invariance, PTL

(* DELETE of an administrator: a super_admin remains, unless the count of  *)
(* them was out of date when the row went.                                 *)
THEOREM SuperStays == Spec => []SupersGoneOnlyByRace
<1>1. IInv => SupersGoneOnlyByRace
  BY DEF IInv
<1> QED
  BY <1>1, Invariance, PTL

(* setup.routes.ts: however many browsers submit the wizard, one of them   *)
(* creates the administrator, unless such deletions emptied the table.     *)
THEOREM OneSetup == Spec => []SetupOnce
<1>1. IInv => SetupOnce
  BY DEF IInv
<1> QED
  BY <1>1, Invariance, PTL

-----------------------------------------------------------------------------
(* Induction: a set of numbers has a least element, so what holds of 0 and *)
(* of every successor holds of all.                                        *)
LEMMA LeastOf ==
    ASSUME NEW S \in SUBSET Nat, S # {}
    PROVE  \E x \in S : \A y \in S : x <= y
<1> DEFINE R == OpToRel(<, Nat)
<1>1. IsWellFoundedOn(R, Nat) BY NatLessThanWellFounded
<1>2. \A x, y \in Nat : <<y, x>> \in R <=> y < x
  <2>1. R = {p \in Nat \X Nat : p[1] < p[2]} BY Zenon DEF OpToRel
  <2> HIDE DEF R
  <2> QED BY <2>1
<1> HIDE DEF R
<1>3. PICK x \in S : \A y \in S : <<y, x>> \notin R BY <1>1, WFMin
<1>4. ASSUME NEW y \in S PROVE x <= y
  <2>1. ~(y < x) BY <1>2, <1>3
  <2> QED BY <2>1
<1> QED BY <1>4

LEMMA Induction ==
    ASSUME NEW S, 0 \in S, \A n \in Nat : n \in S => n + 1 \in S
    PROVE  \A n \in Nat : n \in S
<1> DEFINE Bad == {n \in Nat : n \notin S}
<1> SUFFICES ASSUME Bad # {} PROVE FALSE OBVIOUS
<1>1. PICK n \in Bad : \A m \in Bad : n <= m
  <2>1. Bad \in SUBSET Nat OBVIOUS
  <2> HIDE DEF Bad
  <2> QED BY <2>1, LeastOf
<1>2. n \in Nat /\ n # 0 /\ n \notin S BY <1>1
<1>3. n - 1 \in Nat /\ n - 1 \notin Bad /\ (n - 1) + 1 = n BY <1>1, <1>2
<1> QED BY <1>2, <1>3

(* g[m] is the sum of f below m, and g is built up to n. *)
SumAt(f, g, m) == IF m = 0 THEN 0 ELSE g[m - 1] + f[m - 1]
SumsTo(f, g, n) == g = [m \in 0 .. n |-> SumAt(f, g, m)]

(* There is such a g for every n. *)
LEMMA SumsExist == ASSUME NEW f PROVE \A n \in Nat : \E g : SumsTo(f, g, n)
<1> DEFINE S == {n \in Nat : \E g : SumsTo(f, g, n)}
<1>1. 0 \in S
  <2> DEFINE h == [m \in 0 .. 0 |-> 0]
  <2>1. h = [m \in 0 .. 0 |-> SumAt(f, h, m)] BY DEF SumAt
  <2> QED BY <2>1 DEF SumsTo
<1>2. ASSUME NEW n \in Nat, n \in S PROVE n + 1 \in S
  <2>1. PICK g : g = [m \in 0 .. n |-> SumAt(f, g, m)] BY <1>2 DEF SumsTo
  <2> DEFINE last == g[n] + f[n]
             h == [m \in 0 .. n + 1 |-> IF m = n + 1 THEN last ELSE g[m]]
  <2> HIDE DEF last
  <2>2. \A m \in 0 .. n : h[m] = g[m] OBVIOUS
  <2>3. h[n + 1] = last OBVIOUS
  <2>4. \A m \in 0 .. n + 1 : h[m] = SumAt(f, h, m)
    <3>1. ASSUME NEW m \in 0 .. n PROVE h[m] = SumAt(f, h, m)
      <4>1. m = 0 \/ m - 1 \in 0 .. n OBVIOUS
      <4>2. g[m] = SumAt(f, g, m) BY <2>1
      <4> HIDE DEF h
      <4> QED BY <2>2, <4>1, <4>2 DEF SumAt
    <3>2. h[n + 1] = SumAt(f, h, n + 1)
      <4> HIDE DEF h
      <4> QED BY <2>2, <2>3 DEF SumAt, last
    <3> HIDE DEF h
    <3> QED BY <3>1, <3>2
  <2>5. h = [m \in 0 .. n + 1 |-> SumAt(f, h, m)]
    <3>1. h = [m \in 0 .. n + 1 |-> h[m]] OBVIOUS
    <3> HIDE DEF h
    <3> QED BY <2>4, <3>1
  <2>6. \E x : SumsTo(f, x, n + 1) BY <2>5 DEF SumsTo
  <2> QED BY <2>6
<1> HIDE DEF S
<1>3. \A n \in Nat : n \in S BY <1>1, <1>2, Induction
<1> QED BY <1>3 DEF S

(* Two functions that are built so agree as far as both go. *)
LEMMA SumsAgree ==
    ASSUME NEW f, NEW g, NEW h, NEW n \in Nat, NEW k \in Nat, SumsTo(f, g, n), SumsTo(f, h, k), n <= k
    PROVE  \A m \in 0 .. n : g[m] = h[m]
<1> DEFINE S == {m \in Nat : m <= n => g[m] = h[m]}
<1>0. g = [m \in 0 .. n |-> SumAt(f, g, m)] /\ h = [m \in 0 .. k |-> SumAt(f, h, m)] BY DEF SumsTo
<1>1. 0 \in S
  <2>1. 0 \in 0 .. n /\ 0 \in 0 .. k OBVIOUS
  <2>2. g[0] = SumAt(f, g, 0) /\ h[0] = SumAt(f, h, 0) BY <1>0, <2>1
  <2> QED BY <2>2 DEF SumAt
<1>2. ASSUME NEW m \in Nat, m \in S PROVE m + 1 \in S
  <2>1. CASE m + 1 <= n
    <3>1. m + 1 \in 0 .. n /\ m + 1 \in 0 .. k BY <2>1
    <3>2. g[m + 1] = SumAt(f, g, m + 1) /\ h[m + 1] = SumAt(f, h, m + 1) BY <1>0, <3>1
    <3>3. g[m] = h[m] BY <1>2, <2>1
    <3>4. (m + 1) - 1 = m /\ m + 1 # 0 OBVIOUS
    <3> QED BY <3>2, <3>3, <3>4 DEF SumAt
  <2> QED BY <2>1
<1> HIDE DEF S
<1>3. \A m \in Nat : m \in S BY <1>1, <1>2, Induction
<1> QED BY <1>3 DEF S

(* Total is the last value of such a function. *)
LEMMA TotalIs == ASSUME NEW f, NEW n \in Nat, NEW g, SumsTo(f, g, n) PROVE Gate!Total(f, n) = g[n]
<1> DEFINE c == CHOOSE x : SumsTo(f, x, n)
<1>1. SumsTo(f, c, n) OBVIOUS
<1>2. Gate!Total(f, n) = c[n] BY Zenon DEF Gate!Total, SumsTo, SumAt
<1> HIDE DEF c
<1>3. c[n] = g[n] BY <1>1, SumsAgree
<1> QED BY <1>2, <1>3

(* How Total is built. *)
LEMMA TotalStep ==
    ASSUME NEW f
    PROVE  Gate!Total(f, 0) = 0 /\ \A n \in Nat : Gate!Total(f, n + 1) = Gate!Total(f, n) + f[n]
<1>1. Gate!Total(f, 0) = 0
  <2>1. PICK g : SumsTo(f, g, 0) BY SumsExist
  <2>2. g[0] = 0 BY <2>1 DEF SumsTo, SumAt
  <2> QED BY <2>1, <2>2, TotalIs
<1>2. ASSUME NEW n \in Nat PROVE Gate!Total(f, n + 1) = Gate!Total(f, n) + f[n]
  <2>1. PICK g : SumsTo(f, g, n) BY SumsExist
  <2>2. PICK h : SumsTo(f, h, n + 1) BY SumsExist
  <2>3. g[n] = h[n] BY <2>1, <2>2, SumsAgree
  <2>4. h[n + 1] = SumAt(f, h, n + 1) BY <2>2 DEF SumsTo
  <2>5. h[n + 1] = h[n] + f[n] BY <2>4 DEF SumAt
  <2>6. Gate!Total(f, n + 1) = h[n + 1] /\ Gate!Total(f, n) = g[n] BY <2>1, <2>2, TotalIs
  <2> QED BY <2>3, <2>5, <2>6
<1> QED BY <1>1, <1>2

(***************************************************************************)
(* Sums of counts f by age, of which there are N.                          *)
(***************************************************************************)
(* They are numbers. *)
LEMMA TotalNat ==
    ASSUME NEW N \in Nat, NEW f \in [0 .. N - 1 -> Nat]
    PROVE  \A n \in 0 .. N : Gate!Total(f, n) \in Nat
<1> DEFINE S == {n \in Nat : n <= N => Gate!Total(f, n) \in Nat}
<1>1. 0 \in S BY TotalStep
<1>2. ASSUME NEW n \in Nat, n \in S PROVE n + 1 \in S
  <2>1. CASE n + 1 <= N
    <3>1. n \in 0 .. N - 1 /\ f[n] \in Nat BY <2>1
    <3>2. Gate!Total(f, n + 1) = Gate!Total(f, n) + f[n] BY TotalStep
    <3>3. Gate!Total(f, n) \in Nat BY <1>2, <2>1
    <3> QED BY <3>1, <3>2, <3>3
  <2> QED BY <2>1
<1> HIDE DEF S
<1>3. \A n \in Nat : n \in S BY <1>1, <1>2, Induction
<1> QED BY <1>3 DEF S

(* Over more ages the sum is no less. *)
LEMMA TotalGrows ==
    ASSUME NEW N \in Nat, NEW f \in [0 .. N - 1 -> Nat], NEW k \in 0 .. N
    PROVE  \A n \in k .. N : Gate!Total(f, k) <= Gate!Total(f, n)
<1> DEFINE S == {n \in Nat : k + n <= N => Gate!Total(f, k) <= Gate!Total(f, k + n)}
<1>0. k \in Nat /\ k + 0 = k /\ Gate!Total(f, k) \in Nat BY TotalNat
<1>1. 0 \in S BY <1>0
<1>2. ASSUME NEW n \in Nat, n \in S PROVE n + 1 \in S
  <2>1. CASE k + (n + 1) <= N
    <3>1. k + n \in 0 .. N - 1 /\ k + n \in Nat /\ k + (n + 1) = (k + n) + 1 BY <2>1
    <3>2. Gate!Total(f, k + (n + 1)) = Gate!Total(f, k + n) + f[k + n] BY <3>1, TotalStep
    <3>3. Gate!Total(f, k) <= Gate!Total(f, k + n) BY <1>2, <2>1
    <3>4. Gate!Total(f, k + n) \in Nat /\ f[k + n] \in Nat BY <3>1, TotalNat
    <3> QED BY <1>0, <3>2, <3>3, <3>4
  <2> QED BY <2>1
<1> HIDE DEF S
<1>3. \A n \in Nat : n \in S BY <1>1, <1>2, Induction
<1>4. ASSUME NEW n \in k .. N PROVE Gate!Total(f, k) <= Gate!Total(f, n)
  <2>1. n - k \in Nat /\ k + (n - k) = n BY <1>0
  <2>2. n - k \in S BY <1>3, <2>1
  <2> QED BY <2>1, <2>2 DEF S
<1> QED BY <1>4

(* Without any count there is no sum, and one more now is one more in all. *)
LEMMA TotalNone ==
    ASSUME NEW N \in Nat, NEW f, \A a \in 0 .. N - 1 : f[a] = 0
    PROVE  Gate!Total(f, N) = 0
<1> DEFINE S == {n \in Nat : n <= N => Gate!Total(f, n) = 0}
<1>1. 0 \in S BY TotalStep
<1>2. ASSUME NEW n \in Nat, n \in S PROVE n + 1 \in S
  <2>1. CASE n + 1 <= N
    <3>1. Gate!Total(f, n + 1) = Gate!Total(f, n) + f[n] BY TotalStep
    <3>2. f[n] = 0 BY <2>1
    <3> QED BY <1>2, <2>1, <3>1, <3>2
  <2> QED BY <2>1
<1> HIDE DEF S
<1>3. \A n \in Nat : n \in S BY <1>1, <1>2, Induction
<1> QED BY <1>3 DEF S

LEMMA TotalOneMore ==
    ASSUME NEW N \in Nat \ {0}, NEW f \in [0 .. N - 1 -> Nat], NEW g, g = [f EXCEPT ![0] = @ + 1]
    PROVE  \A n \in 1 .. N : Gate!Total(g, n) = Gate!Total(f, n) + 1
<1> DEFINE S == {n \in Nat : n + 1 <= N => Gate!Total(g, n + 1) = Gate!Total(f, n + 1) + 1}
<1>0. g \in [0 .. N - 1 -> Nat] /\ g[0] = f[0] + 1 /\ \A a \in 1 .. N - 1 : g[a] = f[a] OBVIOUS
<1>1. 0 \in S
  <2>1. Gate!Total(g, 0 + 1) = 0 + g[0] /\ Gate!Total(f, 0 + 1) = 0 + f[0] BY TotalStep
  <2>2. f[0] \in Nat OBVIOUS
  <2> QED BY <1>0, <2>1, <2>2
<1>2. ASSUME NEW n \in Nat, n \in S PROVE n + 1 \in S
  <2>1. CASE (n + 1) + 1 <= N
    <3> HIDE DEF S
    <3>0. n + 1 \in Nat OBVIOUS
    <3>1. /\ Gate!Total(g, (n + 1) + 1) = Gate!Total(g, n + 1) + g[n + 1]
          /\ Gate!Total(f, (n + 1) + 1) = Gate!Total(f, n + 1) + f[n + 1]
      BY <3>0, TotalStep
    <3> USE DEF S
    <3>2. g[n + 1] = f[n + 1] /\ f[n + 1] \in Nat BY <1>0, <2>1
    <3>3. Gate!Total(g, n + 1) = Gate!Total(f, n + 1) + 1 BY <1>2, <2>1
    <3>4. Gate!Total(f, n + 1) \in Nat BY <2>1, TotalNat
    <3> QED BY <3>1, <3>2, <3>3, <3>4
  <2> QED BY <2>1
<1> HIDE DEF S
<1>3. \A n \in Nat : n \in S BY <1>1, <1>2, Induction
<1>4. ASSUME NEW n \in 1 .. N PROVE Gate!Total(g, n) = Gate!Total(f, n) + 1
  <2>1. n - 1 \in Nat /\ (n - 1) + 1 = n OBVIOUS
  <2>2. n - 1 \in S BY <1>3, <2>1
  <2> QED BY <2>1, <2>2 DEF S
<1> QED BY <1>4

(* A tick later the counts are those of one age less. *)
LEMMA TotalOlder ==
    ASSUME NEW N \in Nat \ {0}, NEW f \in [0 .. N - 1 -> Nat]
    PROVE  /\ Gate!Older(f) \in [0 .. N - 1 -> Nat]
           /\ \A n \in 0 .. N - 1 : Gate!Total(Gate!Older(f), n + 1) = Gate!Total(f, n)
<1> DEFINE g == Gate!Older(f)
           S == {n \in Nat : n + 1 <= N => Gate!Total(g, n + 1) = Gate!Total(f, n)}
<1>0. g \in [0 .. N - 1 -> Nat] /\ g[0] = 0 /\ \A a \in 1 .. N - 1 : g[a] = f[a - 1] BY DEF Gate!Older
<1> HIDE DEF g
<1>1. 0 \in S
  <2>1. Gate!Total(g, 0 + 1) = 0 + g[0] /\ Gate!Total(f, 0) = 0 BY TotalStep
  <2> QED BY <1>0, <2>1
<1>2. ASSUME NEW n \in Nat, n \in S PROVE n + 1 \in S
  <2>1. CASE (n + 1) + 1 <= N
    <3> HIDE DEF S
    <3>0. n + 1 \in Nat OBVIOUS
    <3>1. /\ Gate!Total(g, (n + 1) + 1) = Gate!Total(g, n + 1) + g[n + 1]
          /\ Gate!Total(f, n + 1) = Gate!Total(f, n) + f[n]
      BY <3>0, TotalStep
    <3> USE DEF S
    <3>2. g[n + 1] = f[n] BY <1>0, <2>1
    <3> QED BY <1>2, <2>1, <3>1, <3>2
  <2> QED BY <2>1
<1> HIDE DEF S
<1>3. \A n \in Nat : n \in S BY <1>1, <1>2, Induction
<1>4. \A n \in 0 .. N - 1 : Gate!Total(g, n + 1) = Gate!Total(f, n) BY <1>3 DEF S
<1> QED BY <1>0, <1>4 DEF g

(* So the sum over all ages has not grown. *)
LEMMA TotalForgets ==
    ASSUME NEW N \in Nat \ {0}, NEW f \in [0 .. N - 1 -> Nat]
    PROVE  Gate!Total(Gate!Older(f), N) = Gate!Total(f, N) - f[N - 1]
<1>1. N - 1 \in 0 .. N - 1 /\ (N - 1) + 1 = N /\ N - 1 \in Nat OBVIOUS
<1>2. Gate!Total(Gate!Older(f), N) = Gate!Total(f, N - 1)
  <2>1. Gate!Total(Gate!Older(f), (N - 1) + 1) = Gate!Total(f, N - 1) BY <1>1, TotalOlder
  <2> QED BY <1>1, <2>1
<1>3. Gate!Total(f, N) = Gate!Total(f, N - 1) + f[N - 1]
  <2>1. Gate!Total(f, (N - 1) + 1) = Gate!Total(f, N - 1) + f[N - 1] BY <1>1, TotalStep
  <2> QED BY <1>1, <2>1
<1>4. Gate!Total(f, N - 1) \in Nat /\ f[N - 1] \in Nat BY <1>1, TotalNat
<1> QED BY <1>2, <1>3, <1>4

-----------------------------------------------------------------------------
(* The limiter and the login guard (Limits).                               *)

(* The types. *)
WindowRecord == [age : 0 .. WindowLength + 1, count : 0 .. Limit]
ByAge(N) == [0 .. N - 1 -> Nat]
LoginRecord == {Gate!Idle} \cup [pc : {"begun", "verify"}, kind : Gate!Kinds]

GateTyped ==
    /\ window \in [Clients -> WindowRecord]
    /\ allowed \in [Clients -> ByAge(WindowLength)]
    /\ attempts \in [Gate!Kinds -> ByAge(FailureWindow)]
    /\ entry \in [Reqs -> LoginRecord]
    /\ refused \subseteq Clients

(* What a limiter has stored against what was let through, n being all of  *)
(* it: an open window has counted all since its first request, which is    *)
(* what is left to let through of earlier ones; one that is over has lost  *)
(* at least that first request to age.                                     *)
Rated(w, f) ==
    LET n == Gate!Total(f, WindowLength) IN
    /\ w.count = 0 => w = Gate!NoWindow
    /\ w.age < WindowLength =>
          Gate!Total(f, w.age + 1) = w.count /\ f[w.age] >= 1 /\ n <= w.count + (Limit - 1)
    /\ w.age >= WindowLength => f[0] = 0 /\ n <= Limit - 1

(* The logins that have passed the guard and not recorded their outcome. *)
Guessing == {r \in Reqs : entry[r].pc = "verify" /\ entry[r].kind = "login"}

Guarded == Gate!Failures("login") + Cardinality(Guessing) <= LoginLimit + Cardinality(Reqs) - 1

(* The inductive invariant. *)
GateInv == GateTyped /\ (\A c \in Clients : Rated(window[c], allowed[c])) /\ Guarded

(* Finite sets, as Limits sees them. *)
LEMMA SameFinite == \A S : Gate!IsFiniteSet(S) <=> IsFiniteSet(S)
BY Zenon DEF Gate!IsFiniteSet, IsFiniteSet
LEMMA SameCardinality == \A S : Gate!Cardinality(S) = Cardinality(S)
BY Zenon DEF Gate!Cardinality, Cardinality

(* The assumptions on the constants, spelled out. *)
LEMMA GateConstants ==
    /\ Limit \in Nat /\ Limit >= 1
    /\ WindowLength \in Nat \ {0} /\ WindowLength \in Nat /\ WindowLength >= 1
    /\ LoginLimit \in Nat /\ LoginLimit >= 1
    /\ FailureWindow \in Nat \ {0} /\ FailureWindow \in Nat
    /\ IsFiniteSet(Reqs) /\ Cardinality(Reqs) \in Nat
BY LimitsAssumption, SameFinite, FS_CardinalityType DEF Gate!ConstantsAssumption

(* No more than twice the limit follows, less one. *)
LEMMA RatedBounds ==
    ASSUME NEW w \in WindowRecord, NEW f \in ByAge(WindowLength), Rated(w, f)
    PROVE  Gate!Total(f, WindowLength) < 2 * Limit
<1>1. Gate!Total(f, WindowLength) \in Nat
  <2>1. WindowLength \in 0 .. WindowLength BY GateConstants
  <2> QED BY <2>1, GateConstants, TotalNat DEF ByAge
<1> QED BY <1>1, GateConstants DEF WindowRecord, Rated

(* A request that is let through, in the window there is or in a new one. *)
LEMMA ConsumeRated ==
    ASSUME NEW w \in WindowRecord, NEW f \in ByAge(WindowLength), Rated(w, f),
           NEW v, v = IF w.age >= WindowLength THEN [age |-> 0, count |-> 0] ELSE w,
           v.count < Limit,
           NEW w1, w1 = [v EXCEPT !.count = @ + 1],
           NEW g, g = [f EXCEPT ![0] = @ + 1]
    PROVE  w1 \in WindowRecord /\ g \in ByAge(WindowLength) /\ Rated(w1, g)
<1> DEFINE n == Gate!Total(f, WindowLength)
<1>1. /\ g \in ByAge(WindowLength) /\ g[0] = f[0] + 1 /\ f[0] \in Nat
      /\ \A a \in 1 .. WindowLength - 1 : g[a] = f[a]
  BY GateConstants DEF ByAge
<1>2. \A k \in 1 .. WindowLength : Gate!Total(g, k) = Gate!Total(f, k) + 1
  <2>1. WindowLength \in Nat \ {0} /\ f \in [0 .. WindowLength - 1 -> Nat] BY GateConstants DEF ByAge
  <2> QED BY ONLY <2>1, TotalOneMore, g = [f EXCEPT ![0] = @ + 1]
<1>3. n \in Nat /\ Gate!Total(g, WindowLength) = n + 1
  <2>1. WindowLength \in 0 .. WindowLength /\ WindowLength \in 1 .. WindowLength BY GateConstants
  <2> QED BY <1>2, <2>1, GateConstants, TotalNat DEF ByAge
<1>4. Gate!Total(f, 0) = 0 /\ Gate!Total(f, 0 + 1) = 0 + f[0] BY TotalStep
<1>5. CASE w.age >= WindowLength
  <2>1. v = [age |-> 0, count |-> 0] BY <1>5
  <2>2. w1 = [age |-> 0, count |-> 1] BY <2>1
  <2>3. Gate!Total(g, 0 + 1) = 1
    <3>1. 0 + 1 \in 1 .. WindowLength BY GateConstants
    <3>2. f[0] = 0 BY <1>5 DEF Rated
    <3>3. Gate!Total(g, 0 + 1) = Gate!Total(f, 0 + 1) + 1 BY <1>2, <3>1
    <3> QED BY <1>4, <3>2, <3>3
  <2>4. n <= Limit - 1 BY <1>5 DEF Rated
  <2> HIDE DEF n
  <2>5. Rated(w1, g)
    <3>1. w1.age = 0 /\ w1.count = 1 BY <2>2
    <3>2. g[0] >= 1 BY <1>1
    <3> QED BY <1>3, <2>3, <2>4, <3>1, <3>2, GateConstants DEF Rated
  <2>6. w1 \in WindowRecord BY <2>2, GateConstants DEF WindowRecord
  <2> QED BY <1>1, <2>5, <2>6
<1>6. CASE w.age < WindowLength
  <2>1. v = w /\ w.age \in 0 .. WindowLength - 1 /\ w.count \in 0 .. Limit
    BY <1>6, GateConstants DEF WindowRecord
  <2>2. w1.age = w.age /\ w1.count = w.count + 1 /\ w1 \in WindowRecord
    BY <2>1, GateConstants DEF WindowRecord
  <2>3. Gate!Total(g, w.age + 1) = w.count + 1
    <3>1. w.age + 1 \in 1 .. WindowLength BY <2>1, GateConstants
    <3>2. Gate!Total(f, w.age + 1) = w.count BY <1>6 DEF Rated
    <3> QED BY <1>2, <3>1, <3>2
  <2>4. g[w.age] >= 1
    <3>1. f[w.age] >= 1 BY <1>6 DEF Rated
    <3>2. w.age = 0 \/ w.age \in 1 .. WindowLength - 1 BY <2>1
    <3> QED BY <1>1, <3>1, <3>2
  <2>5. n <= w.count + (Limit - 1) BY <1>6 DEF Rated
  <2> HIDE DEF n
  <2>6. Rated(w1, g) BY <1>3, <1>6, <2>1, <2>2, <2>3, <2>4, <2>5, GateConstants DEF Rated
  <2> QED BY <1>1, <2>2, <2>6
<1>7. w.age \in Nat BY DEF WindowRecord
<1> QED BY <1>5, <1>6, <1>7, GateConstants

(* A tick. *)
LEMMA TickRated ==
    ASSUME NEW w \in WindowRecord, NEW f \in ByAge(WindowLength), Rated(w, f),
           NEW w1, w1 = IF w.age <= WindowLength THEN [w EXCEPT !.age = @ + 1] ELSE w
    PROVE  /\ w1 \in WindowRecord
           /\ Gate!Older(f) \in ByAge(WindowLength)
           /\ Rated(w1, Gate!Older(f))
<1> DEFINE n == Gate!Total(f, WindowLength)
           g == Gate!Older(f)
<1>1. /\ g \in ByAge(WindowLength) /\ g[0] = 0
      /\ \A a \in 1 .. WindowLength - 1 : g[a] = f[a - 1]
  BY GateConstants DEF ByAge, Gate!Older
<1>2. \A k \in 0 .. WindowLength - 1 : Gate!Total(g, k + 1) = Gate!Total(f, k)
  BY GateConstants, TotalOlder DEF ByAge
<1>3. /\ n \in Nat /\ f[WindowLength - 1] \in Nat
      /\ Gate!Total(g, WindowLength) = n - f[WindowLength - 1]
  <2>1. WindowLength \in 0 .. WindowLength /\ WindowLength - 1 \in 0 .. WindowLength - 1 BY GateConstants
  <2> QED BY <2>1, GateConstants, TotalNat, TotalForgets DEF ByAge
<1> HIDE DEF g, n
<1>4. /\ w.age \in 0 .. WindowLength + 1 /\ w.count \in 0 .. Limit
      /\ w1 \in WindowRecord /\ w1.count = w.count
      /\ w1.age = IF w.age <= WindowLength THEN w.age + 1 ELSE w.age
  BY GateConstants DEF WindowRecord
<1>5. w1.count = 0 => w1 = Gate!NoWindow
  BY GateConstants DEF WindowRecord, Rated, Gate!NoWindow
<1>6. CASE w.age >= WindowLength
  <2>1. n <= Limit - 1 BY <1>6 DEF Rated, n
  <2>2. w1.age >= WindowLength BY <1>4, <1>6, GateConstants
  <2>3. Gate!Total(g, WindowLength) <= Limit - 1 BY <1>3, <2>1, GateConstants
  <2>4. Rated(w1, g) BY <1>1, <1>4, <1>5, <2>2, <2>3, GateConstants DEF Rated
  <2> QED BY <1>1, <1>4, <2>4 DEF g
<1>7. CASE w.age < WindowLength
  <2>1. /\ Gate!Total(f, w.age + 1) = w.count /\ f[w.age] >= 1 /\ n <= w.count + (Limit - 1)
    BY <1>7 DEF Rated, n
  <2>2. w1.age = w.age + 1 BY <1>4, <1>7, GateConstants
  <2>3. CASE w.age = WindowLength - 1
    <3>1. n = w.count
      <4>1. w.age + 1 = WindowLength BY <2>3, GateConstants
      <4> QED BY <2>1, <4>1 DEF n
    <3>2. f[WindowLength - 1] >= 1 BY <2>1, <2>3
    <3>3. w1.age >= WindowLength /\ w1.age \in Nat BY <2>2, <2>3, GateConstants
    <3>4. Gate!Total(g, WindowLength) <= Limit - 1 BY <1>3, <1>4, <3>1, <3>2, GateConstants
    <3>5. Rated(w1, g) BY <1>1, <1>5, <3>3, <3>4, GateConstants DEF Rated
    <3> QED BY <1>1, <1>4, <3>5 DEF g
  <2>4. CASE w.age # WindowLength - 1
    <3>1. w1.age \in 1 .. WindowLength - 1 /\ w1.age < WindowLength /\ w1.age - 1 = w.age
      BY <1>4, <1>7, <2>2, <2>4, GateConstants
    <3>2. g[w1.age] >= 1 BY <1>1, <2>1, <3>1
    <3>3. Gate!Total(g, w1.age + 1) = w1.count
      <4>1. Gate!Total(g, w1.age + 1) = Gate!Total(f, w1.age) BY <1>2, <3>1
      <4> QED BY <1>4, <2>1, <2>2, <4>1
    <3>4. Gate!Total(g, WindowLength) <= w1.count + (Limit - 1) BY <1>3, <1>4, <2>1, GateConstants
    <3>5. Rated(w1, g) BY <1>5, <3>1, <3>2, <3>3, <3>4, GateConstants DEF Rated
    <3> QED BY <1>1, <1>4, <3>5 DEF g
  <2> QED BY <2>3, <2>4
<1> QED BY <1>4, <1>6, <1>7, GateConstants

(* A limiter's part of the invariant. *)
Limiters ==
    /\ window \in [Clients -> WindowRecord]
    /\ allowed \in [Clients -> ByAge(WindowLength)]
    /\ refused \subseteq Clients
    /\ \A c \in Clients : Rated(window[c], allowed[c])

(* The login guard's. *)
Guard ==
    /\ attempts \in [Gate!Kinds -> ByAge(FailureWindow)]
    /\ entry \in [Reqs -> LoginRecord]
    /\ Guarded

(* The invariant is the two of them. *)
LEMMA GateParts == GateInv <=> Limiters /\ Guard
BY DEF GateInv, GateTyped, Limiters, Guard

(* Requests, ticks and alarms keep the limiters' part. *)
LEMMA ConsumeKeeps ==
    ASSUME Limiters, NEW c \in Clients, Gate!Consume(c)
    PROVE  Limiters'
<1> DEFINE v == Gate!Current(c)
<1>1. /\ window[c] \in WindowRecord /\ allowed[c] \in ByAge(WindowLength)
      /\ Rated(window[c], allowed[c])
      /\ v = IF window[c].age >= WindowLength THEN [age |-> 0, count |-> 0] ELSE window[c]
  BY DEF Limiters, Gate!Current
<1>2. CASE v.count >= Limit
  BY <1>2 DEF Gate!Consume, Limiters
<1>3. CASE ~(v.count >= Limit)
  <2> DEFINE w1 == [v EXCEPT !.count = @ + 1]
             g == [allowed[c] EXCEPT ![0] = @ + 1]
  <2>1. /\ window' = [window EXCEPT ![c] = w1]
        /\ allowed' = [allowed EXCEPT ![c] = g]
        /\ refused' = {}
    BY <1>3 DEF Gate!Consume, Limiters
  <2>2. v.count < Limit
    <3>1. v.count \in Nat BY <1>1, GateConstants DEF WindowRecord
    <3> QED BY <1>3, <3>1, GateConstants
  <2> HIDE DEF v
  <2>3. w1 \in WindowRecord /\ g \in ByAge(WindowLength) /\ Rated(w1, g)
    BY <1>1, <2>2, ConsumeRated
  <2> HIDE DEF w1, g
  <2> QED BY <2>1, <2>3 DEF Limiters
<1> QED BY <1>2, <1>3

LEMMA TickKeeps ==
    ASSUME Limiters, Gate!Tick
    PROVE  Limiters'
<1> DEFINE later(c) == IF window[c].age <= WindowLength
                       THEN [window[c] EXCEPT !.age = @ + 1] ELSE window[c]
<1>1. /\ window' = [c \in Clients |-> later(c)]
      /\ allowed' = [c \in Clients |-> Gate!Older(allowed[c])]
      /\ refused' = {}
  BY DEF Gate!Tick
<1>2. ASSUME NEW c \in Clients
      PROVE  /\ later(c) \in WindowRecord
             /\ Gate!Older(allowed[c]) \in ByAge(WindowLength)
             /\ Rated(later(c), Gate!Older(allowed[c]))
  <2>1. window[c] \in WindowRecord /\ allowed[c] \in ByAge(WindowLength) /\ Rated(window[c], allowed[c])
    BY DEF Limiters
  <2> QED BY <2>1, TickRated
<1> HIDE DEF later
<1> QED BY <1>1, <1>2 DEF Limiters

LEMMA AlarmKeeps ==
    ASSUME Limiters, NEW c \in Clients, Gate!Alarm(c)
    PROVE  Limiters'
<1>1. /\ window' = [window EXCEPT ![c] = Gate!NoWindow]
      /\ refused' = {} /\ allowed' = allowed /\ window[c].age > WindowLength
  BY DEF Gate!Alarm
<1>2. window[c] \in WindowRecord /\ Rated(window[c], allowed[c]) BY DEF Limiters
<1>3. Gate!NoWindow \in WindowRecord /\ Gate!NoWindow.age = WindowLength + 1
  BY GateConstants DEF Gate!NoWindow, WindowRecord
<1>4. Rated(Gate!NoWindow, allowed[c])
  <2>1. window[c].age >= WindowLength BY <1>1, <1>2, GateConstants DEF WindowRecord
  <2> QED BY <1>2, <1>3, <2>1, GateConstants DEF Rated
<1> QED BY <1>1, <1>3, <1>4 DEF Limiters

(* Failures are counted in numbers. *)
LEMMA FailuresNat == ASSUME Guard PROVE \A k \in Gate!Kinds : Gate!Failures(k) \in Nat
<1> TAKE k \in Gate!Kinds
<1>1. FailureWindow \in 0 .. FailureWindow /\ FailureWindow \in Nat BY GateConstants
<1>2. attempts[k] \in [0 .. FailureWindow - 1 -> Nat] BY DEF Guard, ByAge
<1> QED BY <1>1, <1>2, TotalNat DEF Gate!Failures

(* Handlers are finitely many. *)
LEMMA GuessingFinite ==
    \A S \in SUBSET Reqs : IsFiniteSet(S) /\ Cardinality(S) \in Nat /\ Cardinality(S) <= Cardinality(Reqs)
BY GateConstants, FS_Subset, FS_CardinalityType

(* Where no more guess and no more has failed, the bound holds. *)
LEMMA GuardedByLess ==
    ASSUME Guard, Gate!Failures("login")' \in Nat, Gate!Failures("login")' <= Gate!Failures("login"),
           Guessing' \subseteq Guessing
    PROVE  Guarded'
<1>1. Guessing \in SUBSET Reqs /\ Guessing' \in SUBSET Reqs BY DEF Guessing
<1>2. IsFiniteSet(Guessing) /\ Cardinality(Guessing) \in Nat BY <1>1, GuessingFinite
<1>3. Cardinality(Guessing') \in Nat /\ Cardinality(Guessing') <= Cardinality(Guessing)
  BY <1>1, <1>2, FS_Subset, GuessingFinite
<1>4. Gate!Failures("login") \in Nat BY FailuresNat DEF Gate!Kinds
<1> QED BY <1>2, <1>3, <1>4, GateConstants DEF Guard, Guarded

(* Every step keeps the invariant, and the initial state satisfies it. *)
LEMMA GateStep == ASSUME GateInv, [Gate!Next]_(Gate!vars) PROVE GateInv'
<1>0. Limiters /\ Guard BY GateParts
<1>1. ASSUME UNCHANGED <<window, allowed>>, refused' = {} \/ refused' = refused PROVE Limiters'
  BY <1>0, <1>1 DEF Limiters
<1>2. ASSUME UNCHANGED <<attempts, entry>> PROVE Guard'
  BY <1>0, <1>2 DEF Guard, Guarded, Guessing, Gate!Failures
<1>3. ASSUME NEW c \in Clients, Gate!Alarm(c) PROVE Limiters' /\ Guard'
  <2>1. UNCHANGED <<attempts, entry>> BY <1>3 DEF Gate!Alarm
  <2> QED BY <1>0, <1>2, <1>3, <2>1, AlarmKeeps
<1>4. ASSUME NEW c \in Clients, Gate!Request(c) PROVE Limiters' /\ Guard'
  <2>1. UNCHANGED <<attempts, entry>> /\ Gate!Consume(c) BY <1>4 DEF Gate!Request
  <2> QED BY <1>0, <1>2, <2>1, ConsumeKeeps
<1>5. ASSUME NEW c \in Clients, NEW r \in Reqs, NEW k \in Gate!Kinds, Gate!Begin(r, c, k)
      PROVE  Limiters' /\ Guard'
  <2>1. Gate!Consume(c) /\ UNCHANGED attempts /\ entry[r].pc = "idle" BY <1>5 DEF Gate!Begin
  <2>2. Limiters' BY <1>0, <2>1, ConsumeKeeps
  <2>3. CASE entry' = entry BY <1>2, <2>1, <2>2, <2>3
  <2>4. CASE entry' = [entry EXCEPT ![r] = [pc |-> "begun", kind |-> k]]
    <3>1. entry' \in [Reqs -> LoginRecord] BY <1>0, <2>4 DEF Guard, LoginRecord
    <3>2. Guessing' \subseteq Guessing BY <1>0, <2>4 DEF Guessing, Guard
    <3>3. Gate!Failures("login")' = Gate!Failures("login") /\ Gate!Failures("login") \in Nat
      BY <1>0, <2>1, FailuresNat DEF Gate!Failures, Gate!Kinds
    <3>4. Guarded' BY <1>0, <3>2, <3>3, GuardedByLess
    <3> QED BY <1>0, <2>1, <2>2, <3>1, <3>4 DEF Guard
  <2> QED BY <1>5, <2>3, <2>4 DEF Gate!Begin
<1>6. ASSUME NEW r \in Reqs, Gate!CountFailures(r) PROVE Limiters' /\ Guard'
  <2>1. /\ UNCHANGED <<window, attempts, allowed>> /\ refused' = {}
    BY <1>6 DEF Gate!CountFailures
  <2>2. Limiters' BY <1>1, <2>1
  <2>3. Gate!Failures("login")' = Gate!Failures("login") /\ Gate!Failures("login") \in Nat
    BY <1>0, <2>1, FailuresNat DEF Gate!Failures, Gate!Kinds
  <2>4. entry' \in [Reqs -> LoginRecord]
    <3>1. \/ entry' = [entry EXCEPT ![r] = Gate!Idle]
          \/ entry' = [entry EXCEPT ![r] = [entry[r] EXCEPT !.pc = "verify"]]
      BY <1>0, <1>6 DEF Gate!CountFailures, Guard
    <3>2. entry[r] \in [pc : {"begun", "verify"}, kind : Gate!Kinds]
      BY <1>0, <1>6 DEF Gate!CountFailures, Guard, LoginRecord, Gate!Idle
    <3>3. [entry[r] EXCEPT !.pc = "verify"] \in LoginRecord BY <3>2 DEF LoginRecord
    <3>4. Gate!Idle \in LoginRecord BY DEF LoginRecord
    <3> QED BY <1>0, <3>1, <3>3, <3>4 DEF Guard
  <2>5. Guarded'
    <3>1. CASE entry[r].kind = "login" /\ ~(Gate!Failures("login") + Gate!Failures("recover") >= LoginLimit)
      <4>1. Gate!Failures("recover") \in Nat BY <1>0, FailuresNat DEF Gate!Kinds
      <4>2. Gate!Failures("login") <= LoginLimit - 1 BY <2>3, <3>1, <4>1, GateConstants
      <4>3. Guessing' \in SUBSET Reqs BY DEF Guessing
      <4>4. Cardinality(Guessing') \in Nat /\ Cardinality(Guessing') <= Cardinality(Reqs)
        BY <4>3, GuessingFinite
      <4> QED BY <2>3, <4>2, <4>4, GateConstants DEF Guarded
    <3>2. CASE ~(entry[r].kind = "login" /\ ~(Gate!Failures("login") + Gate!Failures("recover") >= LoginLimit))
      <4>1. \/ entry' = [entry EXCEPT ![r] = Gate!Idle]
            \/ entry[r].kind # "login" /\ entry' = [entry EXCEPT ![r] = [entry[r] EXCEPT !.pc = "verify"]]
        BY <1>0, <1>6, <3>2 DEF Gate!CountFailures, Guard
      <4>2. entry[r] \in [pc : {"begun", "verify"}, kind : Gate!Kinds]
        BY <1>0, <1>6 DEF Gate!CountFailures, Guard, LoginRecord, Gate!Idle
      <4>3. Guessing' \subseteq Guessing
        BY <1>0, <4>1, <4>2 DEF Guessing, Guard, Gate!Idle
      <4> QED BY <1>0, <2>3, <4>3, GuardedByLess
    <3> QED BY <3>1, <3>2
  <2> QED BY <1>0, <2>1, <2>2, <2>4, <2>5 DEF Guard
<1>7. ASSUME NEW r \in Reqs, Gate!Fail(r) PROVE Limiters' /\ Guard'
  <2> DEFINE k == entry[r].kind
             g == [attempts[k] EXCEPT ![0] = @ + 1]
  <2>1. /\ UNCHANGED <<window, allowed>> /\ refused' = {} /\ entry[r].pc = "verify"
        /\ entry' = [entry EXCEPT ![r] = Gate!Idle]
        /\ attempts' = [attempts EXCEPT ![k] = g]
    BY <1>0, <1>7 DEF Gate!Fail, Guard
  <2>2. k \in Gate!Kinds BY <1>0, <2>1 DEF Guard, LoginRecord, Gate!Idle
  <2>3. attempts[k] \in [0 .. FailureWindow - 1 -> Nat] BY <1>0, <2>2 DEF Guard, ByAge
  <2>4. g \in [0 .. FailureWindow - 1 -> Nat] BY <2>3, GateConstants
  <2>5. Gate!Total(g, FailureWindow) = Gate!Total(attempts[k], FailureWindow) + 1
    <3>1. FailureWindow \in Nat \ {0} /\ FailureWindow \in 1 .. FailureWindow BY GateConstants
    <3>2. \A n \in 1 .. FailureWindow : Gate!Total(g, n) = Gate!Total(attempts[k], n) + 1
      BY ONLY <2>3, <3>1, TotalOneMore, g = [attempts[k] EXCEPT ![0] = @ + 1]
    <3> QED BY <3>1, <3>2
  <2> HIDE DEF g
  <2>6. attempts' \in [Gate!Kinds -> ByAge(FailureWindow)] BY <1>0, <2>1, <2>2, <2>4 DEF Guard, ByAge
  <2>7. entry' \in [Reqs -> LoginRecord] BY <1>0, <2>1 DEF Guard, LoginRecord
  <2>8. Guarded'
    <3>1. Gate!Failures("login") \in Nat BY <1>0, FailuresNat DEF Gate!Kinds
    <3>2. CASE k = "login"
      <4>1. Gate!Failures("login")' = Gate!Failures("login") + 1
        BY <1>0, <2>1, <2>5, <3>2 DEF Gate!Failures, Guard, Gate!Kinds
      <4>2. Guessing' = Guessing \ {r} /\ r \in Guessing
        BY <1>0, <2>1, <3>2 DEF Guessing, Guard, Gate!Idle
      <4>3. Guessing \in SUBSET Reqs BY DEF Guessing
      <4>4. IsFiniteSet(Guessing) /\ Cardinality(Guessing) \in Nat BY <4>3, GuessingFinite
      <4>5. Cardinality(Guessing') = Cardinality(Guessing) - 1
        BY <4>2, <4>4, FS_RemoveElement
      <4> QED BY <1>0, <3>1, <4>1, <4>4, <4>5, GateConstants DEF Guard, Guarded
    <3>3. CASE k # "login"
      <4>1. Gate!Failures("login")' = Gate!Failures("login")
        BY <1>0, <2>1, <2>2, <3>3 DEF Gate!Failures, Guard, Gate!Kinds
      <4>2. Guessing' \subseteq Guessing BY <1>0, <2>1 DEF Guessing, Guard, Gate!Idle
      <4> QED BY <1>0, <3>1, <4>1, <4>2, GuardedByLess
    <3> QED BY <3>2, <3>3
  <2> QED BY <1>1, <2>1, <2>6, <2>7, <2>8 DEF Guard
<1>8. ASSUME NEW r \in Reqs, Gate!EndUnrecorded(r) PROVE Limiters' /\ Guard'
  <2>1. /\ UNCHANGED <<window, attempts, allowed>> /\ refused' = {}
        /\ entry' = [entry EXCEPT ![r] = Gate!Idle]
    BY <1>8 DEF Gate!EndUnrecorded
  <2>2. entry' \in [Reqs -> LoginRecord] BY <1>0, <2>1 DEF Guard, LoginRecord
  <2>3. Guessing' \subseteq Guessing BY <1>0, <2>1 DEF Guessing, Guard, Gate!Idle
  <2>4. Gate!Failures("login")' = Gate!Failures("login") /\ Gate!Failures("login") \in Nat
    BY <1>0, <2>1, FailuresNat DEF Gate!Failures, Gate!Kinds
  <2>5. Guarded' BY <1>0, <2>3, <2>4, GuardedByLess
  <2> QED BY <1>0, <1>1, <2>1, <2>2, <2>5 DEF Guard
<1>9. ASSUME Gate!Tick PROVE Limiters' /\ Guard'
  <2>1. attempts' = [k \in Gate!Kinds |-> Gate!Older(attempts[k])] /\ UNCHANGED entry
    BY <1>9 DEF Gate!Tick
  <2>2. ASSUME NEW k \in Gate!Kinds
        PROVE  /\ Gate!Older(attempts[k]) \in ByAge(FailureWindow)
               /\ Gate!Total(Gate!Older(attempts[k]), FailureWindow) \in Nat
               /\ Gate!Total(Gate!Older(attempts[k]), FailureWindow)
                    <= Gate!Total(attempts[k], FailureWindow)
    <3>1. attempts[k] \in [0 .. FailureWindow - 1 -> Nat] BY <1>0 DEF Guard, ByAge
    <3>2. Gate!Older(attempts[k]) \in [0 .. FailureWindow - 1 -> Nat] BY <3>1, GateConstants, TotalOlder
    <3>3. /\ Gate!Total(attempts[k], FailureWindow) \in Nat
          /\ Gate!Total(Gate!Older(attempts[k]), FailureWindow) \in Nat
      <4>1. FailureWindow \in 0 .. FailureWindow BY GateConstants
      <4> QED BY <3>1, <3>2, <4>1, GateConstants, TotalNat
    <3>4. Gate!Total(Gate!Older(attempts[k]), FailureWindow)
            = Gate!Total(attempts[k], FailureWindow) - attempts[k][FailureWindow - 1]
      BY <3>1, GateConstants, TotalForgets
    <3>5. attempts[k][FailureWindow - 1] \in Nat BY <3>1, GateConstants
    <3> QED BY <3>2, <3>3, <3>4, <3>5 DEF ByAge
  <2>3. attempts' \in [Gate!Kinds -> ByAge(FailureWindow)] BY <2>1, <2>2
  <2>4. Gate!Failures("login")' \in Nat /\ Gate!Failures("login")' <= Gate!Failures("login")
    <3>1. "login" \in Gate!Kinds BY DEF Gate!Kinds
    <3>2. attempts'["login"] = Gate!Older(attempts["login"]) BY <2>1, <3>1
    <3> QED BY <2>2, <3>1, <3>2 DEF Gate!Failures
  <2>5. Guessing' \subseteq Guessing BY <2>1 DEF Guessing
  <2>6. Guarded' BY <1>0, <2>4, <2>5, GuardedByLess
  <2> QED BY <1>0, <1>9, <2>1, <2>3, <2>6, TickKeeps DEF Guard
<1>10. CASE UNCHANGED Gate!vars
  <2>1. UNCHANGED <<window, allowed>> /\ refused' = refused /\ UNCHANGED <<attempts, entry>>
    BY <1>10 DEF Gate!vars
  <2>2. Limiters' /\ Guard' BY <1>1, <1>2, <2>1
  <2> QED BY <2>2 DEF GateInv, GateTyped, Limiters, Guard
<1>11. CASE Gate!Next
  <2>1. CASE \E c \in Clients :
                 \/ Gate!Alarm(c) \/ Gate!Request(c)
                 \/ \E r \in Reqs, k \in Gate!Kinds : Gate!Begin(r, c, k)
    <3>1. Limiters' /\ Guard' BY Zenon, <1>3, <1>4, <1>5, <2>1
    <3> QED BY <3>1 DEF GateInv, GateTyped, Limiters, Guard
  <2>2. CASE \E r \in Reqs : Gate!CountFailures(r) \/ Gate!Fail(r) \/ Gate!EndUnrecorded(r)
    <3>1. Limiters' /\ Guard' BY Zenon, <1>6, <1>7, <1>8, <2>2
    <3> QED BY <3>1 DEF GateInv, GateTyped, Limiters, Guard
  <2>3. CASE Gate!Tick
    <3>1. Limiters' /\ Guard' BY <1>9, <2>3
    <3> QED BY <3>1 DEF GateInv, GateTyped, Limiters, Guard
  <2> QED BY Zenon, <1>11, <2>1, <2>2, <2>3 DEF Gate!Next
<1> QED BY <1>10, <1>11

LEMMA GateStart == ASSUME Gate!Init PROVE GateInv
<1> USE GateConstants DEF Gate!Init
<1>1. Gate!NoWindow \in WindowRecord /\ Gate!NoWindow.age = WindowLength + 1
  BY DEF Gate!NoWindow, WindowRecord
<1>2. ASSUME NEW c \in Clients PROVE Rated(window[c], allowed[c])
  <2>1. window[c] = Gate!NoWindow /\ \A a \in 0 .. WindowLength - 1 : allowed[c][a] = 0 OBVIOUS
  <2>2. Gate!Total(allowed[c], WindowLength) = 0 BY <2>1, TotalNone
  <2> QED BY <1>1, <2>1, <2>2 DEF Rated
<1>3. window \in [Clients -> WindowRecord] BY <1>1
<1>4. allowed \in [Clients -> ByAge(WindowLength)] BY DEF ByAge
<1>5. attempts \in [Gate!Kinds -> ByAge(FailureWindow)] BY DEF ByAge
<1>6. entry \in [Reqs -> LoginRecord] /\ refused \subseteq Clients BY DEF LoginRecord
<1>7. Guarded
  <2>1. Guessing = {} BY DEF Guessing, Gate!Idle
  <2>2. Cardinality(Guessing) = 0 BY <2>1, FS_EmptySet
  <2>3. \A a \in 0 .. FailureWindow - 1 : attempts["login"][a] = 0 BY DEF Gate!Kinds
  <2>4. Gate!Failures("login") = 0 BY <2>3, TotalNone DEF Gate!Failures
  <2> QED BY <2>2, <2>4 DEF Guarded
<1> QED BY <1>2, <1>3, <1>4, <1>5, <1>6, <1>7 DEF GateInv, GateTyped

(* The inductive invariant of Limits. *)
THEOREM GateInvariance == Gate!Spec => []GateInv
BY GateStart, GateStep, PTL DEF Gate!Spec

(* Limits is type-correct, and a stored window has let something through,  *)
(* never more than the limit nor more than has been let through.           *)
THEOREM GateTypeCorrect == Gate!Spec => []Gate!TypeOK
<1>1. GateInv => Gate!TypeOK
  <2> SUFFICES ASSUME GateInv PROVE Gate!TypeOK OBVIOUS
  <2> USE DEF GateInv, GateTyped
  <2>1. ASSUME NEW c \in Clients
        PROVE  /\ window[c].age \in 0 .. WindowLength + 1
               /\ window[c].count \in 0 .. Limit
               /\ window[c].count = 0 => window[c] = Gate!NoWindow
               /\ window[c].age < WindowLength => window[c].count <= Gate!Recent(c)
               /\ allowed[c] \in [0 .. WindowLength - 1 -> Nat]
    <3>1. window[c] \in WindowRecord /\ allowed[c] \in [0 .. WindowLength - 1 -> Nat]
          /\ Rated(window[c], allowed[c])
      BY DEF ByAge
    <3>2. ASSUME window[c].age < WindowLength PROVE window[c].count <= Gate!Recent(c)
      <4>1. window[c].age + 1 \in 0 .. WindowLength /\ WindowLength \in window[c].age + 1 .. WindowLength
        BY <3>1, <3>2, GateConstants DEF WindowRecord
      <4>2. Gate!Total(allowed[c], window[c].age + 1) <= Gate!Total(allowed[c], WindowLength)
        BY <3>1, <4>1, GateConstants, TotalGrows
      <4> QED BY <3>1, <3>2, <4>2 DEF Rated, Gate!Recent
    <3> QED BY <3>1, <3>2 DEF WindowRecord, Rated
  <2>2. attempts \in [Gate!Kinds -> [0 .. FailureWindow - 1 -> Nat]] BY DEF ByAge
  <2>3. \A r \in Reqs : entry[r] = Gate!Idle
                        \/ (entry[r].pc \in {"begun", "verify"} /\ entry[r].kind \in Gate!Kinds)
    BY DEF LoginRecord
  <2> QED BY <2>1, <2>2, <2>3 DEF Gate!TypeOK
<1> QED BY <1>1, GateInvariance, PTL

(* The limiter's window is fixed, yet within its length a client gets less *)
(* than twice the limit through, for any limit and any length.             *)
THEOREM LimiterBounds == Gate!Spec => []NeverTwiceTheLimit
<1>1. GateInv => NeverTwiceTheLimit
  <2> SUFFICES ASSUME GateInv, NEW c \in Clients PROVE Gate!Recent(c) < 2 * Limit
    BY Zenon DEF NeverTwiceTheLimit, Gate!NeverTwiceTheLimit
  <2>1. window[c] \in WindowRecord /\ allowed[c] \in ByAge(WindowLength) /\ Rated(window[c], allowed[c])
    BY DEF GateInv, GateTyped
  <2> QED BY <2>1, RatedBounds DEF Gate!Recent
<1> QED BY <1>1, GateInvariance, PTL

(* Logins that overlap pass the guard together, but get no more guesses    *)
(* than the limit and one for each of the others in flight.                *)
THEOREM GuardBounds == Gate!Spec => []GuessesBounded
<1>1. ASSUME GateInv PROVE GuessesBounded
  <2>1. Guard BY <1>1, GateParts
  <2>2. Gate!Failures("login") \in Nat BY <2>1, FailuresNat DEF Gate!Kinds
  <2>3. Guessing \in SUBSET Reqs BY DEF Guessing
  <2>4. Cardinality(Guessing) \in Nat BY <2>3, GuessingFinite
  <2> QED BY <2>1, <2>2, <2>4, GateConstants, SameCardinality
       DEF Guard, Guarded, GuessesBounded, Gate!GuessesBounded
<1> QED BY <1>1, GateInvariance, PTL

-----------------------------------------------------------------------------
(* A tab of the web interface (SignIn).                                    *)

(* A logout that the server has carried out, and any such call. *)
Leaving == call.what = "logout" /\ call.pc = "served"
Served(what) == call.what = what /\ call.pc = "served"

(* The shapes of the records. *)
Shapes ==
    /\ DOMAIN me = {"data", "denied", "fetch"}
    /\ DOMAIN kept = {"who", "fresh", "fetch"}
    /\ \/ call = Shell!NoCall
       \/ DOMAIN call = {"what", "admin", "pc"} /\ call.what \in {"setup", "login", "logout"}

(* No answer to GET /me names anybody. *)
NobodyYet == me.data = Nobody /\ (me.fetch.pc = "answered" => me.fetch.who = Nobody)

(* Before the panel is set up nobody is signed in. *)
NotYet ==
    /\ ~done => cookie = Nobody /\ NobodyYet
    /\ Served("setup") \/ Served("login") => done

(* Whatever the tab holds or is being answered is in the name that the     *)
(* cookie stands for, or stood for until the logout under way.             *)
InOneName ==
    /\ me.data # Nobody => cookie = me.data \/ (cookie = Nobody /\ Leaving)
    /\ me.fetch.pc = "answered" /\ me.fetch.who # Nobody =>
          me.data \in {Nobody, me.fetch.who} /\ (cookie = me.fetch.who \/ (cookie = Nobody /\ Leaving))
    /\ kept.who # Nobody => kept.who = me.data
    /\ kept.fetch.pc # "idle" => me.data # Nobody
    /\ kept.fetch.pc = "answered" /\ kept.fetch.who # Nobody => kept.fetch.who = me.data
    /\ call.what = "logout" => me.data # Nobody
    /\ Served("setup") => cookie = Nobody /\ NobodyYet

(* The inductive invariant; what is crossed stays so until the page is     *)
(* loaded anew.                                                            *)
ShellInv == Shapes /\ NotYet /\ (crossed \/ InOneName)

(* It holds of a tab that has just been loaded, and every step keeps it. *)
LEMMA ShellStart == ASSUME Shell!Init PROVE ShellInv
BY DEF Shell!Init, Shell!Asking, Shell!Quiet, Shell!NoCall, ShellInv, Shapes, NotYet, InOneName,
       NobodyYet, Served, Leaving

LEMMA ShellStep == ASSUME ShellInv, [Shell!Next]_(Shell!vars) PROVE ShellInv'
<1> USE DEF ShellInv, Shapes, NotYet, InOneName, NobodyYet, Served, Leaving,
            Shell!Asking, Shell!Quiet, Shell!NoCall
<1>1. CASE Shell!AnswerSetup BY <1>1 DEF Shell!AnswerSetup
<1>2. CASE Shell!AnswerMe BY <1>2 DEF Shell!AnswerMe
<1>3. CASE Shell!ArriveSetup BY <1>3 DEF Shell!ArriveSetup, Shell!Show
<1>4. CASE Shell!ArriveMe BY <1>4 DEF Shell!ArriveMe, Shell!Show
<1>5. CASE Shell!FailSetup BY <1>5 DEF Shell!FailSetup, Shell!Show
<1>6. CASE Shell!FailMe BY <1>6 DEF Shell!FailMe, Shell!Show
<1>7. ASSUME NEW meToo \in BOOLEAN, Shell!Reconnect(meToo) PROVE ShellInv'
  <2>1. /\ DOMAIN me' = {"data", "denied", "fetch"} /\ me'.data = me.data
        /\ me'.fetch = me.fetch \/ me'.fetch = [pc |-> "asked", why |-> "online"]
    BY <1>7 DEF Shell!Reconnect, Shell!Show
  <2>2. \/ kept' = kept
        \/ /\ Shell!Screen = "pages" /\ DOMAIN kept' = {"who", "fresh", "fetch"}
           /\ kept'.who = kept.who /\ kept'.fetch = [pc |-> "asked", why |-> "online"]
    BY <1>7 DEF Shell!Reconnect
  <2>3. Shell!Screen = "pages" => me.data # Nobody BY DEF Shell!Screen, Shell!ScreenOf
  <2>4. UNCHANGED <<done, cookie, call, crossed>> BY <1>7 DEF Shell!Reconnect
  <2> QED BY <2>1, <2>2, <2>3, <2>4
<1>8. CASE Shell!Visit BY <1>8 DEF Shell!Visit, Shell!Screen, Shell!ScreenOf
<1>9. CASE Shell!AnswerPage BY <1>9 DEF Shell!AnswerPage
<1>10. CASE Shell!ArrivePage BY <1>10 DEF Shell!ArrivePage
<1>11. CASE Shell!AgePage BY <1>11 DEF Shell!AgePage
<1>12. ASSUME NEW step \in 0 .. Shell!Last, Shell!Turn(step) PROVE ShellInv' BY <1>12 DEF Shell!Turn
<1>13. ASSUME NEW a \in Admins, Shell!SendSetup(a) PROVE ShellInv'
  BY <1>13 DEF Shell!SendSetup, Shell!Send
<1>14. ASSUME NEW a \in Admins, Shell!SendLogin(a) PROVE ShellInv'
  BY <1>14 DEF Shell!SendLogin, Shell!Send
<1>15. CASE Shell!SendLogout BY <1>15 DEF Shell!SendLogout, Shell!Send, Shell!Screen, Shell!ScreenOf
<1>16. CASE Shell!Serve 
  <2>1. /\ call.what \in {"setup", "login", "logout"} /\ call.pc = "sent"
        /\ DOMAIN call' = {"what", "admin", "pc"} /\ call'.what = call.what
        /\ call'.pc = IF call.what = "setup" /\ done THEN "refused" ELSE "served"
    BY <1>16 DEF Shell!Serve
  <2>2. /\ UNCHANGED <<me, kept, crossed>>
        /\ cookie' = IF call.what = "logout" THEN Nobody ELSE cookie
        /\ done' <=> done \/ call.what = "setup"
        /\ call.what = "login" => done
    BY <1>16 DEF Shell!Serve
  <2>3. Shapes' BY <2>1, <2>2
  <2>4. NotYet' BY <2>1, <2>2
  <2>5. ASSUME ~crossed' PROVE InOneName'
    <3>1. InOneName /\ ~Leaving BY <2>1, <2>2, <2>5
    <3>2. CASE call.what = "logout" BY <2>1, <2>2, <3>1, <3>2
    <3>3. CASE call.what = "login" BY <2>1, <2>2, <3>1, <3>3
    <3>4. CASE call.what = "setup" BY <2>1, <2>2, <3>1, <3>4
    <3> QED BY <2>1, <3>2, <3>3, <3>4
  <2> QED BY <2>3, <2>4, <2>5
<1>17. CASE Shell!ReplySetup BY <1>17 DEF Shell!ReplySetup
<1>18. CASE Shell!Refused BY <1>18 DEF Shell!Refused
<1>19. CASE Shell!ReplyLogin BY <1>19 DEF Shell!ReplyLogin, Shell!Show, Shell!Refreshed
<1>20. CASE Shell!ReplyLogout BY <1>20 DEF Shell!ReplyLogout, Shell!Loaded
<1>21. CASE Shell!LoseReply BY <1>21 DEF Shell!LoseReply
<1>22. CASE Shell!Enter BY <1>22 DEF Shell!Enter, Shell!Show, Shell!Refreshed
<1>23. CASE Shell!Refresh BY <1>23 DEF Shell!Refresh, Shell!Show, Shell!Refreshed
<1>24. CASE Shell!Reload BY <1>24 DEF Shell!Reload, Shell!Loaded
<1>25. CASE Shell!SetUpElsewhere BY <1>25 DEF Shell!SetUpElsewhere
<1>26. ASSUME NEW who \in Admins \cup {Nobody}, Shell!Elsewhere(who) PROVE ShellInv'
  BY <1>26 DEF Shell!Elsewhere
<1>27. CASE UNCHANGED Shell!vars BY <1>27 DEF Shell!vars
<1> HIDE DEF ShellInv
<1> QED
  BY <1>1, <1>2, <1>3, <1>4, <1>5, <1>6, <1>7, <1>8, <1>9, <1>10, <1>11, <1>12, <1>13, <1>14,
     <1>15, <1>16, <1>17, <1>18, <1>19, <1>20, <1>21, <1>22, <1>23, <1>24, <1>25, <1>26, <1>27
     DEF Shell!Next

(* The pages of one administrator never show what was answered in the name *)
(* of another, unless the session has changed behind the tab's back.       *)
THEOREM PagesKeptApart == Shell!Spec => []KeptApart
<1>1. ShellInv => KeptApart BY DEF ShellInv, InOneName, KeptApart, Shell!KeptApart
<1> QED BY ShellStart, ShellStep, <1>1, PTL DEF Shell!Spec

(* Once setup-status has been answered it is asked for only by a           *)
(* reconnection, and only a wizard on the screen holds anything.           *)
Wizardly ==
    /\ DOMAIN me = {"data", "denied", "fetch"} /\ DOMAIN setup = {"data", "fetch"}
    /\ DOMAIN wizard = {"step", "code"}
    /\ setup.fetch.pc # "idle" =>
          setup.fetch.why = "online" \/ (setup.fetch.why = "load" /\ setup.data = Shell!NoAnswer)
    /\ Shell!Screen # "wizard" => wizard = Shell!FirstStep

(* A step that takes the recovery code away. *)
TakesCode == wizard.code /\ ~wizard'.code
MayTakeCode == me'.fetch.why \in {"refresh", "load", "online"} \/ setup.fetch.why = "online"

(* Show keeps the invariant, and takes the code away only where it changes *)
(* the screen.                                                             *)
LEMMA ShowWizardly ==
    ASSUME Wizardly, NEW s, NEW m, Shell!Show(s, m, wizard),
           DOMAIN s = {"data", "fetch"}, DOMAIN m = {"data", "denied", "fetch"},
           s.fetch.pc # "idle" =>
              s.fetch.why = "online" \/ (s.fetch.why = "load" /\ s.data = Shell!NoAnswer)
    PROVE  Wizardly' /\ (TakesCode => Shell!ScreenOf(s, m) # "wizard" /\ Shell!Screen = "wizard")
<1>1. setup' = s /\ me' = m BY DEF Shell!Show
<1>2. Shell!Screen' = Shell!ScreenOf(s, m) BY <1>1 DEF Shell!Screen
<1>3. CASE Shell!ScreenOf(s, m) = "wizard"
  <2>1. wizard' = wizard BY <1>3 DEF Shell!Show
  <2> QED BY <1>1, <1>2, <1>3, <2>1 DEF Wizardly, TakesCode
<1>4. CASE Shell!ScreenOf(s, m) # "wizard"
  <2>1. wizard' = Shell!FirstStep BY <1>4 DEF Shell!Show
  <2>2. Shell!Screen # "wizard" => wizard = Shell!FirstStep BY DEF Wizardly
  <2>3. DOMAIN wizard' = {"step", "code"} BY <2>1 DEF Shell!FirstStep
  <2> QED BY <1>1, <1>2, <1>4, <2>1, <2>2, <2>3 DEF Wizardly, TakesCode
<1> QED BY <1>3, <1>4

(* Every step keeps it, and takes the code away only for a reason.         *)
LEMMA WizardlyStep ==
    ASSUME Wizardly, [Shell!Next]_(Shell!vars)
    PROVE  Wizardly' /\ (TakesCode => MayTakeCode)
<1> DEFINE Fine == Wizardly' /\ (TakesCode => MayTakeCode)
<1> USE DEF Shell!Asking, Shell!Quiet
<1>1. CASE Shell!AnswerSetup
  BY <1>1 DEF Shell!AnswerSetup, Wizardly, TakesCode, Shell!Screen, Shell!ScreenOf
<1>2. CASE Shell!AnswerMe
  BY <1>2 DEF Shell!AnswerMe, Wizardly, TakesCode, Shell!Screen, Shell!ScreenOf
<1>3. CASE Shell!ArriveSetup
  <2> DEFINE s == [data |-> IF setup.fetch.done THEN "yes" ELSE "no", fetch |-> Shell!Quiet]
  <2>1. Shell!Show(s, me, wizard) /\ me' = me /\ setup.fetch.pc = "answered"
    BY <1>3 DEF Shell!ArriveSetup, Shell!Show
  <2>2. DOMAIN s = {"data", "fetch"} /\ s.fetch.pc = "idle" OBVIOUS
  <2>3. DOMAIN me = {"data", "denied", "fetch"} BY DEF Wizardly
  <2> HIDE DEF s
  <2>4. Wizardly' /\ (TakesCode => Shell!Screen = "wizard") BY <2>1, <2>2, <2>3, ShowWizardly
  <2>5. Shell!Screen = "wizard" => setup.fetch.why = "online"
    BY <2>1 DEF Shell!Screen, Shell!ScreenOf, Wizardly
  <2> QED BY <2>4, <2>5 DEF MayTakeCode
<1>4. ASSUME NEW m, Shell!Show(setup, m, wizard), DOMAIN m = {"data", "denied", "fetch"},
             m.fetch.pc = "idle" \/ m.fetch.why \in {"refresh", "online"} \/ m = me
      PROVE  Fine
  <2>1. DOMAIN setup = {"data", "fetch"} BY DEF Wizardly
  <2>2. /\ Wizardly'
        /\ TakesCode => Shell!ScreenOf(setup, m) # "wizard" /\ Shell!Screen = "wizard"
    BY <1>4, <2>1, ShowWizardly DEF Wizardly
  <2>3. me' = m BY <1>4 DEF Shell!Show
  <2>4. Shell!ScreenOf(setup, m) # "wizard" /\ Shell!Screen = "wizard"
           => m.fetch.pc # "idle" /\ m # me
    BY DEF Shell!Screen, Shell!ScreenOf
  <2> QED BY <1>4, <2>2, <2>3, <2>4 DEF MayTakeCode
<1>5. CASE Shell!ArriveMe
  <2>1. PICK d : d = (me.fetch.who = Nobody) OBVIOUS
  <2> DEFINE m == [data |-> IF me.fetch.who = Nobody THEN me.data ELSE me.fetch.who,
                   denied |-> d, fetch |-> Shell!Quiet]
  <2>2. Shell!Show(setup, m, wizard) BY <1>5, <2>1 DEF Shell!ArriveMe
  <2>3. DOMAIN m = {"data", "denied", "fetch"} /\ m.fetch.pc = "idle" OBVIOUS
  <2> HIDE DEF m
  <2> QED BY <1>4, <2>2, <2>3
<1>6. CASE Shell!FailSetup
  <2> DEFINE s == [setup EXCEPT !.fetch = Shell!Quiet]
  <2>1. Shell!Show(s, me, wizard) /\ me' = me BY <1>6 DEF Shell!FailSetup, Shell!Show
  <2>2. DOMAIN s = {"data", "fetch"} /\ s.fetch.pc = "idle" /\ s.data = setup.data BY DEF Wizardly
  <2>3. DOMAIN me = {"data", "denied", "fetch"} BY DEF Wizardly
  <2> HIDE DEF s
  <2>4. /\ Wizardly'
        /\ TakesCode => Shell!ScreenOf(s, me) # "wizard" /\ Shell!Screen = "wizard"
    BY <2>1, <2>2, <2>3, ShowWizardly
  <2>5. ~(Shell!ScreenOf(s, me) # "wizard" /\ Shell!Screen = "wizard")
    BY <2>2 DEF Shell!Screen, Shell!ScreenOf
  <2> QED BY <2>4, <2>5
<1>7. CASE Shell!FailMe
  <2> DEFINE m == [me EXCEPT !.denied = FALSE, !.fetch = Shell!Quiet]
  <2>1. Shell!Show(setup, m, wizard) BY <1>7 DEF Shell!FailMe
  <2>2. DOMAIN m = {"data", "denied", "fetch"} /\ m.fetch.pc = "idle" BY DEF Wizardly
  <2> HIDE DEF m
  <2> QED BY <1>4, <2>1, <2>2
<1>8. ASSUME NEW meToo \in BOOLEAN, Shell!Reconnect(meToo) PROVE Fine
  <2>1. PICK s : s = [setup EXCEPT !.fetch =
                         IF setup.fetch.pc = "idle" THEN Shell!Asking("online") ELSE setup.fetch]
    OBVIOUS
  <2>2. PICK m : m = [me EXCEPT !.fetch =
                         IF me.fetch.pc = "idle" /\ meToo THEN Shell!Asking("online") ELSE me.fetch]
    OBVIOUS
  <2>3. Shell!Show(s, m, wizard) BY <1>8, <2>1, <2>2 DEF Shell!Reconnect
  <2>4. /\ DOMAIN s = {"data", "fetch"} /\ DOMAIN m = {"data", "denied", "fetch"}
        /\ s.data = setup.data /\ m.data = me.data
        /\ s.fetch = setup.fetch \/ s.fetch = [pc |-> "asked", why |-> "online"]
        /\ m.fetch = me.fetch \/ m.fetch = [pc |-> "asked", why |-> "online"]
    BY <2>1, <2>2 DEF Wizardly
  <2>5. s.fetch.pc # "idle" =>
           s.fetch.why = "online" \/ (s.fetch.why = "load" /\ s.data = Shell!NoAnswer)
    BY <2>4 DEF Wizardly
  <2>6. /\ Wizardly'
        /\ TakesCode => Shell!ScreenOf(s, m) # "wizard" /\ Shell!Screen = "wizard"
    BY <2>3, <2>4, <2>5, ShowWizardly
  <2>7. me' = m BY <2>3 DEF Shell!Show
  <2>8. Shell!ScreenOf(s, m) # "wizard" /\ Shell!Screen = "wizard" => m.fetch.why = "online"
    BY <2>4 DEF Shell!Screen, Shell!ScreenOf, Shell!NoAnswer
  <2> QED BY <2>6, <2>7, <2>8 DEF MayTakeCode
<1>9. ASSUME UNCHANGED <<setup, me, wizard>> PROVE Fine
  BY <1>9 DEF Wizardly, TakesCode, Shell!Screen, Shell!ScreenOf
<1>10. ASSUME NEW step, UNCHANGED <<setup, me>>, Shell!Screen = "wizard",
              wizard' = [wizard EXCEPT !.step = step]
       PROVE  Fine
  <2>1. wizard'.code = wizard.code /\ DOMAIN wizard' = {"step", "code"} BY <1>10 DEF Wizardly
  <2> QED BY <1>10, <2>1 DEF Wizardly, TakesCode, Shell!Screen, Shell!ScreenOf
<1>11. CASE Shell!ReplySetup
  <2>1. UNCHANGED <<setup, me>> BY <1>11 DEF Shell!ReplySetup
  <2>2. CASE Shell!Screen = "wizard"
    <3>1. wizard' = [step |-> Shell!Last, code |-> TRUE] BY <1>11, <2>2 DEF Shell!ReplySetup
    <3> QED BY <2>1, <2>2, <3>1 DEF Wizardly, TakesCode, Shell!Screen, Shell!ScreenOf
  <2>3. CASE Shell!Screen # "wizard"
    <3>1. wizard' = wizard BY <1>11, <2>3 DEF Shell!ReplySetup
    <3> QED BY <1>9, <2>1, <3>1
  <2> QED BY <2>2, <2>3
<1>12. CASE Shell!Refused
  BY <1>9, <1>10, <1>12 DEF Shell!Refused
<1>13. ASSUME Shell!Show(setup, Shell!Refreshed, wizard) PROVE Fine
  <2>1. PICK m : m = Shell!Refreshed OBVIOUS
  <2>2. DOMAIN m = {"data", "denied", "fetch"} BY <2>1 DEF Wizardly, Shell!Refreshed
  <2>3. CASE me.fetch.pc # "idle" /\ me.data = Nobody
    <3>1. m.data = me.data /\ m.fetch = me.fetch BY <2>1, <2>3 DEF Wizardly, Shell!Refreshed
    <3>2. DOMAIN setup = {"data", "fetch"} BY DEF Wizardly
    <3>3. /\ Wizardly'
          /\ TakesCode => Shell!Screen = "wizard"
      BY <1>13, <2>1, <2>2, <3>2, ShowWizardly DEF Wizardly
    <3>4. Shell!Screen # "wizard" BY <2>3 DEF Shell!Screen, Shell!ScreenOf
    <3> QED BY <3>3, <3>4
  <2>4. CASE ~(me.fetch.pc # "idle" /\ me.data = Nobody)
    <3>1. m.fetch.why = "refresh" BY <2>1, <2>4 DEF Wizardly, Shell!Refreshed
    <3> QED BY <1>4, <1>13, <2>1, <2>2, <3>1
  <2> QED BY <2>3, <2>4
<1>14. ASSUME Shell!Loaded PROVE Fine
  <2>1. /\ setup' = [data |-> Shell!NoAnswer, fetch |-> [pc |-> "asked", why |-> "load"]]
        /\ me' = [data |-> Nobody, denied |-> FALSE, fetch |-> [pc |-> "asked", why |-> "load"]]
        /\ wizard' = Shell!FirstStep
    BY <1>14 DEF Shell!Loaded
  <2>2. MayTakeCode BY <2>1 DEF MayTakeCode
  <2>3. Wizardly' BY <2>1 DEF Wizardly, Shell!FirstStep
  <2> QED BY <2>2, <2>3
<1>15. ASSUME \/ Shell!Visit \/ Shell!AnswerPage \/ Shell!ArrivePage \/ Shell!AgePage
              \/ (\E a \in Admins : Shell!SendSetup(a) \/ Shell!SendLogin(a))
              \/ Shell!SendLogout \/ Shell!Serve \/ Shell!LoseReply \/ Shell!SetUpElsewhere
              \/ (\E who \in Admins \cup {Nobody} : Shell!Elsewhere(who))
              \/ UNCHANGED Shell!vars
       PROVE  Fine
  <2>1. UNCHANGED <<setup, me, wizard>>
    BY <1>15 DEF Shell!Visit, Shell!AnswerPage, Shell!ArrivePage, Shell!AgePage, Shell!SendSetup,
         Shell!SendLogin, Shell!SendLogout, Shell!Send, Shell!Serve, Shell!LoseReply,
         Shell!SetUpElsewhere, Shell!Elsewhere, Shell!vars
  <2> QED BY <1>9, <2>1
<1>16. ASSUME NEW step \in 0 .. Shell!Last, Shell!Turn(step) PROVE Fine
  BY <1>10, <1>16 DEF Shell!Turn
<1>17. ASSUME Shell!ReplyLogin \/ Shell!Enter \/ Shell!Refresh PROVE Fine
  BY <1>13, <1>17 DEF Shell!ReplyLogin, Shell!Enter, Shell!Refresh
<1>18. ASSUME Shell!ReplyLogout \/ Shell!Reload PROVE Fine
  BY <1>14, <1>18 DEF Shell!ReplyLogout, Shell!Reload
<1> HIDE DEF Fine
<1>19. Fine
  BY Zenon, <1>1, <1>2, <1>3, <1>5, <1>6, <1>7, <1>8, <1>11, <1>12, <1>15, <1>16, <1>17, <1>18
     DEF Shell!Next, Fine
<1> QED BY <1>19 DEF Fine

(* The recovery code stays on the screen until the administrator enters,   *)
(* loads the page anew, or the browser has been offline.                   *)
THEOREM RecoveryCodeStays == Shell!Spec => CodeStays
<1>1. Shell!Init => Wizardly
  BY DEF Shell!Init, Wizardly, Shell!Asking, Shell!FirstStep, Shell!Screen, Shell!ScreenOf
<1>2. Wizardly /\ [Shell!Next]_(Shell!vars) => Wizardly' BY WizardlyStep
<1>3. Wizardly /\ [Shell!Next]_(Shell!vars) =>
        [wizard.code /\ ~wizard'.code =>
            \/ me'.fetch.why \in {"refresh", "load", "online"}
            \/ setup.fetch.why = "online"]_(Shell!vars)
  BY WizardlyStep DEF TakesCode, MayTakeCode
<1> QED BY <1>1, <1>2, <1>3, PTL DEF Shell!Spec, CodeStays, Shell!CodeStays
=============================================================================
