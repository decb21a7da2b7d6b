--------------------------- MODULE Session_proofs ---------------------------
(***************************************************************************)
(* Proofs about Session for every number of tokens, administrators and     *)
(* requests, every life of a session and a cache entry, and with KV        *)
(* failing or not.                                                         *)
(***************************************************************************)
EXTENDS Session, TLAPS

(* A row is empty exactly until its INSERT. *)
RowsWellFormed ==
    \A t \in Tokens : (sessions[t].state = "none") <=> (sessions[t].adm = NoAdmin)

(* The cache copies a row's administrator and expiry, never others'. *)
CacheFaithful ==
    \A t \in Tokens : kv[t] # NoEntry =>
        /\ sessions[t].state # "none"
        /\ kv[t].adm = sessions[t].adm
        /\ kv[t].exp = sessions[t].exp

(* What requests carry between two awaits. *)
CarriesRow(q) ==
    /\ q.tok \in Tokens
    /\ sessions[q.tok].state # "none"
    /\ q.adm = sessions[q.tok].adm
    /\ q.exp = sessions[q.tok].exp

LocalOK(q) ==
    /\ q.pc \in {"cache", "fill"} => CarriesRow(q)
    /\ q.pc \in {"read", "evict", "mark"} => q.tok \in Tokens /\ sessions[q.tok].state # "none"
    /\ q.pc \in {"select", "purge", "drop"} => q.adm \in Admins
    /\ q.late # "no" => q.tok \in Tokens /\ ended[q.tok] # "no"
    /\ q.op = "delete" => q.tok = NoToken
    /\ q.pc = "drop" => q.op = "delete" /\ q.rows = {}

LocalsOK == \A r \in Reqs : LocalOK(req[r])

KnownIssued == \A t \in known : sessions[t].state # "none"

(* A reported revocation has marked the row for good. *)
EndedNotLive ==
    \A t \in Tokens : ended[t] # "no" => sessions[t].state \in {"revoked", "expired", "deleted", "wiped"}

(* The clean-up takes only rows whose time is over. *)
ExpiredPast == \A t \in Tokens : sessions[t].state = "expired" => sessions[t].exp < now

(* The half-way form of RevokedCachedOnlyByRace. *)
PassedCachedOnlyByRace ==
    \A r \in Reqs, t \in Tokens : Passed(r, t) /\ Usable(t) => t \in raced

IInv ==
    /\ TypeOK
    /\ RowsWellFormed
    /\ CacheFaithful
    /\ LocalsOK
    /\ KnownIssued
    /\ EndedNotLive
    /\ ExpiredPast
    /\ PassedCachedOnlyByRace
    /\ RevokedCachedOnlyByRace
    /\ GrantSound
    /\ LateGrantOnlyByRace

-----------------------------------------------------------------------------
(* The records the actions build. *)

(* The request records that handlers build from others have their type. *)
LEMMA RequestTypes ==
    /\ Idle \in Request
    /\ \A q \in Request, a \in Admin, e \in Nat, k \in Nat :
          [q EXCEPT !.pc = "fill", !.adm = a, !.exp = e, !.ttl = k, !.late = "no"] \in Request
    /\ \A q \in Request, S \in SUBSET Tokens : [q EXCEPT !.rows = S] \in Request
    /\ \A q \in Request : [q EXCEPT !.pc = "drop"] \in Request
BY DEF Idle, Request, Token, Admin, Outcome

(* The request records that resolveSession starts with have their type. *)
LEMMA StartTypes ==
    ASSUME NEW t \in Tokens, NEW late \in Outcome, NEW op \in {"use", "others"},
           NEW pc \in {"read", "evict"}
    PROVE  /\ [Idle EXCEPT !.op = op, !.tok = t, !.late = late] \in Request
           /\ [Idle EXCEPT !.pc = "evict", !.tok = t] \in Request
           /\ [Idle EXCEPT !.pc = "read", !.op = op, !.tok = t, !.late = late] \in Request
           /\ [Idle EXCEPT !.pc = "mark", !.op = "logout", !.tok = t] \in Request
BY DEF Idle, Request, Token, Admin, Outcome

(* The record that createSession starts with has its type. *)
LEMMA InsertTypes ==
    ASSUME NEW t \in Tokens, NEW a \in Admins, NEW e \in Nat
    PROVE  [Idle EXCEPT !.pc = "cache", !.tok = t, !.adm = a, !.exp = e, !.ttl = SessionTtl] \in Request
BY ConstantsAssumption DEF Idle, Request, Token, Admin, Outcome

(* What goes on behind requireAuth has its type. *)
LEMMA ProceedTypes ==
    ASSUME NEW q \in Request, NEW a \in Admin PROVE Proceed(q, a) \in Request
BY DEF Proceed, Idle, Request, Token, Admin, Outcome

(* The rows selected by revokeAllSessions are tokens. *)
LEMMA SelectedTypes ==
    ASSUME Types, NEW q \in Request PROVE Selected(q) \in Request
BY DEF Types, Selected, SessionsOf, Request

(* A bulk revocation of an administrator starts with a record of its type. *)
LEMMA IdleAdminTypes ==
    ASSUME NEW a \in Admins, NEW op \in {"recover", "delete"}
    PROVE  [Idle EXCEPT !.op = op, !.adm = a] \in Request
BY DEF Idle, Request, Token, Admin, Outcome

(* A put leaves entries in the cache, and the tokens it races with are tokens. *)
LEMMA EntryTypes ==
    ASSUME Types, NEW r \in Reqs, PutEntry(req[r]), req[r].tok \in Tokens
    PROVE  kv' \in [Tokens -> CacheEntry] /\ raced' \subseteq Tokens
<1>1. Entry(req[r]) \in CacheEntry
  BY ConstantsAssumption DEF Types, Request, Entry, Max2, CacheEntry
<1> QED
  BY <1>1 DEF Types, PutEntry

(* So does a delete. *)
LEMMA DeleteTypes ==
    ASSUME Types, NEW t \in Tokens, DeleteEntry(t)
    PROVE  kv' \in [Tokens -> CacheEntry] /\ raced' \subseteq Tokens
<1>1. NoEntry \in CacheEntry
  BY DEF NoEntry, CacheEntry, Admin
<1> QED
  BY <1>1 DEF Types, DeleteEntry

(* The types of the fields of a request record. *)
LEMMA RequestFields ==
    ASSUME NEW q \in Request
    PROVE  /\ q.tok \in Token /\ q.adm \in Admin /\ q.exp \in Nat /\ q.ttl \in Nat
           /\ q.rows \in SUBSET Tokens /\ q.late \in Outcome
BY DEF Request

(* A grant to a request record has its type. *)
LEMMA GrantTypes ==
    ASSUME Types, NEW q \in Request, NEW a \in Admin
    PROVE  /\ NoGrant \in [tok : Token, adm : Admin, at : Nat, late : Outcome]
           /\ Accept(q, a) => grant' \in [tok : Token, adm : Admin, at : Nat, late : Outcome]
BY RequestFields DEF Types, NoGrant, Accept, Token, Admin, Outcome

(* Every step keeps the types. *)
LEMMA TypesStep == ASSUME IInv, [Next]_vars PROVE Types'
<1> Types
  BY DEF IInv, TypeOK
<1> DEFINE G == [tok : Token, adm : Admin, at : Nat, late : Outcome]
<1>0. NoGrant \in G /\ Idle \in Request /\ now \in Nat
  BY RequestTypes DEF NoGrant, Token, Admin, Outcome, Types
<1>1. CASE Tick
  <2>1. NoEntry \in CacheEntry
    BY DEF NoEntry, CacheEntry, Admin
  <2>2. kv' \in [Tokens -> CacheEntry]
    BY <1>1, <2>1 DEF Tick, Types
  <2>3. now' \in Nat
    BY <1>0, <1>1 DEF Tick
  <2> QED
    BY <1>0, <1>1, <2>2, <2>3 DEF Tick, Types
<1>2. ASSUME NEW r \in Reqs, NEW t \in Tokens, NEW a \in Admins, InsertRow(r, t, a) PROVE Types'
  <2>1. now + SessionTtl \in Nat
    BY <1>0, ConstantsAssumption
  <2>2. [adm |-> a, exp |-> now + SessionTtl, state |-> "live"] \in SessionRow
    BY <2>1 DEF SessionRow, Admin
  <2>3. sessions' \in [Tokens -> SessionRow]
    BY <1>2, <2>2 DEF InsertRow, Types
  <2>4. req' \in [Reqs -> Request]
    BY <1>2, <2>1, InsertTypes DEF InsertRow, Types
  <2> QED
    BY <1>0, <1>2, <2>3, <2>4 DEF InsertRow, Types
<1>3. ASSUME NEW r \in Reqs, CacheNew(r) PROVE Types'
  <2>1. req[r].tok \in Tokens
    BY <1>3 DEF CacheNew, IInv, LocalsOK, LocalOK, CarriesRow
  <2> QED
    BY <1>0, <1>3, <2>1, EntryTypes DEF CacheNew, Types
<1>4. ASSUME NEW r \in Reqs, NEW t \in Tokens, NEW op \in {"use", "others"}, ResolveHit(r, t, op)
      PROVE Types'
  <2> DEFINE q == [Idle EXCEPT !.op = op, !.tok = t, !.late = ended[t]]
  <2>1. /\ q \in Request /\ [Idle EXCEPT !.pc = "evict", !.tok = t] \in Request
        /\ kv[t].adm \in Admin
    BY StartTypes DEF Types, CacheEntry
  <2>2. Proceed(q, kv[t].adm) \in Request
    BY <2>1, ProceedTypes
  <2>3. req' \in [Reqs -> Request]
    BY <1>4, <2>1, <2>2 DEF ResolveHit, Types
  <2>4. grant' \in G
    BY <1>0, <1>4, <2>1, GrantTypes DEF ResolveHit
  <2> QED
    BY <1>4, <2>3, <2>4 DEF ResolveHit, Types
<1>5. ASSUME NEW r \in Reqs, NEW t \in Tokens, NEW op \in {"use", "others"}, ResolveMiss(r, t, op)
      PROVE Types'
  <2>1. ended[t] \in Outcome
    BY DEF Types
  <2>2. req' \in [Reqs -> Request]
    BY <1>5, <2>1, StartTypes DEF ResolveMiss, Types
  <2> QED
    BY <1>0, <1>5, <2>2 DEF ResolveMiss, Types
<1>6. ASSUME NEW r \in Reqs, Evict(r) PROVE Types'
  <2>1. NoEntry \in CacheEntry
    BY DEF NoEntry, CacheEntry, Admin
  <2>2. kv' \in [Tokens -> CacheEntry]
    BY <1>6, <2>1 DEF Evict, Types
  <2> QED
    BY <1>0, <1>6, <2>2 DEF Evict, Types
<1>7. ASSUME NEW r \in Reqs, ReadRow(r) PROVE Types'
  <2> DEFINE row == sessions[req[r].tok]
  <2>1. req[r].tok \in Tokens /\ row \in SessionRow
    BY <1>7 DEF ReadRow, IInv, LocalsOK, LocalOK, Types
  <2>2. row.adm \in Admin /\ row.exp \in Nat
    BY <2>1 DEF SessionRow
  <2>3. row.exp > now => row.exp - now \in Nat
    BY <1>0, <2>2
  <2>4. row.exp > now => [req[r] EXCEPT !.pc = "fill", !.adm = row.adm, !.exp = row.exp,
                                        !.ttl = row.exp - now, !.late = "no"] \in Request
    BY <2>2, <2>3, RequestTypes DEF Types
  <2>5. req' \in [Reqs -> Request]
    BY <1>0, <1>7, <2>4 DEF ReadRow, Types
  <2>6. grant' \in G
    BY <1>0, <1>7, <2>2, GrantTypes DEF ReadRow, Types
  <2> QED
    BY <1>7, <2>5, <2>6 DEF ReadRow, Types
<1>8. ASSUME NEW r \in Reqs, Fill(r) PROVE Types'
  <2>1. req[r].tok \in Tokens /\ req[r] \in Request
    BY <1>8 DEF Fill, IInv, LocalsOK, LocalOK, CarriesRow, Types
  <2>2. Proceed(req[r], req[r].adm) \in Request
    BY <2>1, ProceedTypes, RequestFields
  <2> QED
    BY <1>0, <1>8, <2>1, <2>2, EntryTypes DEF Fill, Types
<1>9. ASSUME NEW r \in Reqs, NEW t \in Tokens, Logout(r, t) PROVE Types'
  <2>1. [Idle EXCEPT !.pc = "mark", !.op = "logout", !.tok = t] \in Request
    BY StartTypes DEF Outcome
  <2> QED
    BY <1>0, <1>9, <2>1, DeleteTypes DEF Logout, Types
<1>10. ASSUME NEW r \in Reqs, MarkRow(r) PROVE Types'
  <2>1. sessions' \in [Tokens -> SessionRow]
    BY <1>10 DEF MarkRow, Types, SessionRow
  <2>2. ended' \in [Tokens -> Outcome]
    BY <1>10 DEF MarkRow, Types, Outcome
  <2> QED
    BY <1>0, <1>10, <2>1, <2>2 DEF MarkRow, Types
<1>11. ASSUME NEW r \in Reqs, NEW a \in Admins, NEW op \in {"recover", "delete"}, RevokeAll(r, a, op)
       PROVE Types'
  <2>1. Selected([Idle EXCEPT !.op = op, !.adm = a]) \in Request
    BY IdleAdminTypes, SelectedTypes
  <2> QED
    BY <1>0, <1>11, <2>1 DEF RevokeAll, Types
<1>12. ASSUME NEW r \in Reqs, RevokeOthers(r) PROVE Types'
  <2>1. Selected(req[r]) \in Request
    BY SelectedTypes DEF Types
  <2> QED
    BY <1>0, <1>12, <2>1 DEF RevokeOthers, Types
<1>13. ASSUME NEW r \in Reqs, NEW t \in Tokens, PurgeKey(r, t) PROVE Types'
  <2>1. [req[r] EXCEPT !.rows = req[r].rows \ {t}] \in Request
    BY RequestFields, RequestTypes DEF Types
  <2>2. req' \in [Reqs -> Request]
    BY <1>13, <2>1 DEF PurgeKey, Types
  <2> QED
    BY <1>0, <1>13, <2>2, DeleteTypes DEF PurgeKey, Types
<1>14. ASSUME NEW r \in Reqs, RevokeRows(r) PROVE Types'
  <2>1. sessions' \in [Tokens -> SessionRow]
    BY <1>14 DEF RevokeRows, Types, SessionRow
  <2>2. ended' \in [Tokens -> Outcome]
    BY <1>14 DEF RevokeRows, Report, Types, Outcome
  <2>3. [req[r] EXCEPT !.pc = "drop"] \in Request
    BY RequestTypes DEF Types
  <2>4. req' \in [Reqs -> Request]
    BY <1>0, <1>14, <2>3 DEF RevokeRows, Types
  <2> QED
    BY <1>0, <1>14, <2>1, <2>2, <2>4 DEF RevokeRows, Types
<1>15. ASSUME NEW r \in Reqs, DropAdmin(r) PROVE Types'
  <2>1. sessions' \in [Tokens -> SessionRow]
    BY <1>15 DEF DropAdmin, Types, SessionRow
  <2>2. ended' \in [Tokens -> Outcome]
    BY <1>15 DEF DropAdmin, Report, Types, Outcome
  <2> QED
    BY <1>0, <1>15, <2>1, <2>2 DEF DropAdmin, Types
<1>16. ASSUME NEW r \in Reqs, Abort(r) PROVE Types'
  BY <1>0, <1>16 DEF Abort, Types
<1>17. CASE UNCHANGED vars
  BY <1>17 DEF vars, Types
<1>18. CASE CleanUp
  <2>1. sessions' \in [Tokens -> SessionRow]
    BY <1>18 DEF CleanUp, Types, SessionRow
  <2> QED
    BY <1>0, <1>18, <2>1 DEF CleanUp, Types
<1>19. CASE WipeAdmins
  <2>1. sessions' \in [Tokens -> SessionRow]
    BY <1>19 DEF WipeAdmins, Types, SessionRow
  <2> QED
    BY <1>0, <1>19, <2>1 DEF WipeAdmins, Types
<1>20. ASSUME NEW S \in SUBSET Admins, RefillAdmins(S) PROVE Types'
  BY <1>0, <1>20 DEF RefillAdmins, Types
<1> QED
  BY <1>1, <1>2, <1>3, <1>4, <1>5, <1>6, <1>7, <1>8, <1>9, <1>10, <1>11, <1>12, <1>13, <1>14,
     <1>15, <1>16, <1>17, <1>18, <1>19, <1>20 DEF Next, Start, Handler

-----------------------------------------------------------------------------
(* Rows and administrators change only in four actions of handlers, in CleanUp and in a restore. *)
LEMMA RowsFrame ==
    ASSUME [Next]_vars
    PROVE  \/ UNCHANGED <<sessions, admins>>
           \/ \E r \in Reqs, t \in Tokens, a \in Admins : InsertRow(r, t, a)
           \/ \E r \in Reqs : MarkRow(r) \/ RevokeRows(r) \/ DropAdmin(r)
           \/ CleanUp \/ WipeAdmins \/ \E S \in SUBSET Admins : RefillAdmins(S)
BY DEF Next, Start, Handler, vars, Tick, CacheNew, ResolveHit, ResolveMiss, Evict, ReadRow, Fill,
       Logout, RevokeAll, RevokeOthers, PurgeKey, Abort

(* A row that exists keeps its administrator and its expiry, and is never  *)
(* live again once it is not.                                              *)
RowsPersist ==
    \A t \in Tokens : sessions[t].state # "none" =>
        /\ sessions'[t].adm = sessions[t].adm
        /\ sessions'[t].exp = sessions[t].exp
        /\ sessions'[t].state # "none"
        /\ sessions[t].state \in {"revoked", "expired", "deleted", "wiped"} =>
              sessions'[t].state \in {"revoked", "expired", "deleted", "wiped"}

(* Rows never move to another administrator or expiry, nor back; the foreign key holds. *)
LEMMA RowsStep ==
    ASSUME IInv, [Next]_vars PROVE RowsPersist /\ RowsWellFormed' /\ ForeignKey'
<1> sessions \in [Tokens -> SessionRow] /\ RowsWellFormed /\ ForeignKey /\ admins \subseteq Admins
  BY DEF IInv, TypeOK, Types
<1> USE DEF RowsPersist, RowsWellFormed, ForeignKey, SessionRow, Stored
<1>1. CASE UNCHANGED <<sessions, admins>>
  BY <1>1
<1>2. ASSUME NEW r \in Reqs, NEW t \in Tokens, NEW a \in Admins, InsertRow(r, t, a)
      PROVE  RowsPersist /\ RowsWellFormed' /\ ForeignKey'
  BY <1>2, ConstantsAssumption DEF InsertRow
<1>3. ASSUME NEW r \in Reqs, MarkRow(r) PROVE RowsPersist /\ RowsWellFormed' /\ ForeignKey'
  BY <1>3 DEF MarkRow, IInv, LocalsOK, LocalOK
<1>4. ASSUME NEW r \in Reqs, RevokeRows(r) PROVE RowsPersist /\ RowsWellFormed' /\ ForeignKey'
  BY <1>4 DEF RevokeRows, Live
<1>5. ASSUME NEW r \in Reqs, DropAdmin(r) PROVE RowsPersist /\ RowsWellFormed' /\ ForeignKey'
  <2>1. req[r].adm \in Admins
    BY <1>5 DEF DropAdmin, IInv, LocalsOK, LocalOK
  <2> QED
    BY <1>5, <2>1, ConstantsAssumption DEF DropAdmin, SessionsOf
<1>6. CASE CleanUp
  BY <1>6 DEF CleanUp, Live
<1>7. CASE WipeAdmins
  BY <1>7 DEF WipeAdmins, Live
<1>8. ASSUME NEW S \in SUBSET Admins, RefillAdmins(S) PROVE RowsPersist /\ RowsWellFormed' /\ ForeignKey'
  BY <1>8 DEF RefillAdmins
<1> QED
  BY <1>1, <1>2, <1>3, <1>4, <1>5, <1>6, <1>7, <1>8, RowsFrame

(* Only rows whose time is over are cleaned up, and the clock does not go back. *)
LEMMA ExpiredStep == ASSUME IInv, [Next]_vars PROVE ExpiredPast' /\ now <= now'
<1>0. /\ sessions \in [Tokens -> SessionRow] /\ ExpiredPast /\ RowsPersist /\ now \in Nat
      /\ sessions' \in [Tokens -> SessionRow]
  BY RowsStep, TypesStep DEF IInv, TypeOK, Types
<1>1. \A t \in Tokens : sessions'[t].state = "expired" =>
          sessions[t].state = "expired" \/ (sessions[t].state = "live" /\ sessions[t].exp < now)
  <2> DEFINE OK == \A u \in Tokens : sessions'[u].state = "expired" =>
                  sessions[u].state = "expired" \/ (sessions[u].state = "live" /\ sessions[u].exp < now)
  <2>1. ASSUME UNCHANGED <<sessions, admins>> PROVE OK
    <3>1. sessions' = sessions
      BY <2>1
    <3> QED
      BY <3>1
  <2>2. ASSUME NEW r \in Reqs, NEW t \in Tokens, NEW a \in Admins, InsertRow(r, t, a)
        PROVE  OK
    BY <1>0, <2>2 DEF InsertRow, SessionRow
  <2>3. ASSUME NEW r \in Reqs, MarkRow(r)
        PROVE  OK
    BY <1>0, <2>3 DEF MarkRow, SessionRow
  <2>4. ASSUME NEW r \in Reqs, RevokeRows(r)
        PROVE  OK
    BY <1>0, <2>4 DEF RevokeRows, SessionRow
  <2>5. ASSUME NEW r \in Reqs, DropAdmin(r)
        PROVE  OK
    BY <1>0, <2>5 DEF DropAdmin, SessionRow
  <2>6. ASSUME CleanUp PROVE OK
    <3>1. \A u \in Tokens : sessions'[u] = IF sessions[u].state = "live" /\ sessions[u].exp < now
                                         THEN [sessions[u] EXCEPT !.state = "expired"]
                                         ELSE sessions[u]
      BY <2>6 DEF CleanUp, Live
    <3> QED
      BY <3>1
  <2>8. ASSUME WipeAdmins PROVE OK
    BY <1>0, <2>8 DEF WipeAdmins, SessionRow
  <2>9. ASSUME NEW S \in SUBSET Admins, RefillAdmins(S) PROVE OK
    <3>1. sessions' = sessions
      BY <2>9 DEF RefillAdmins
    <3> QED
      BY <3>1
  <2> HIDE DEF OK
  <2>7. OK
    BY <2>1, <2>2, <2>3, <2>4, <2>5, <2>6, <2>8, <2>9, RowsFrame
  <2> QED
    BY <2>7 DEF OK
<1>2. now' = now \/ now' = now + 1
  BY DEF Next, Start, Handler, vars, Tick, CleanUp, InsertRow, CacheNew, ResolveHit, ResolveMiss,
         Evict, ReadRow, Fill, MarkRow, Logout, RevokeAll, RevokeOthers, PurgeKey, RevokeRows,
         DropAdmin, Abort, WipeAdmins, RefillAdmins
<1>3. \A t \in Tokens : sessions'[t].state = "expired" =>
          sessions[t].exp < now /\ sessions'[t].exp = sessions[t].exp
  BY <1>0, <1>1 DEF ExpiredPast, RowsPersist
<1>4. \A t \in Tokens : sessions[t].exp \in Nat
  BY <1>0 DEF SessionRow
<1> QED
  BY <1>0, <1>2, <1>3, <1>4 DEF ExpiredPast

-----------------------------------------------------------------------------
(* Revocations reported done. *)

(* What has been reported as revoked is revoked, and stays so. *)
LEMMA EndedStep ==
    ASSUME IInv, [Next]_vars
    PROVE  EndedNotLive' /\ \A t \in Tokens : ended[t] # "no" => ended'[t] # "no"
<1> /\ sessions \in [Tokens -> SessionRow] /\ ended \in [Tokens -> Outcome]
    /\ RowsWellFormed /\ EndedNotLive /\ RowsPersist
  BY RowsStep DEF IInv, TypeOK, Types
<1>1. CASE UNCHANGED ended
  BY <1>1 DEF EndedNotLive, RowsPersist
<1>2. ASSUME NEW r \in Reqs, MarkRow(r)
      PROVE  EndedNotLive' /\ \A t \in Tokens : ended[t] # "no" => ended'[t] # "no"
  <2>1. req[r].tok \in Tokens
    BY <1>2 DEF MarkRow, IInv, LocalsOK, LocalOK
  <2>2. sessions'[req[r].tok].state \in {"revoked", "expired", "deleted", "wiped"}
    BY <1>2, <2>1 DEF MarkRow, SessionRow, IInv, LocalsOK, LocalOK
  <2> QED
    BY <1>2, <2>1, <2>2 DEF MarkRow, EndedNotLive, RowsPersist
<1>3. ASSUME NEW r \in Reqs, RevokeRows(r), ended' # ended
      PROVE  EndedNotLive' /\ \A t \in Tokens : ended[t] # "no" => ended'[t] # "no"
  <2>1. Report(Others(r)) /\ req[r].adm \in Admins
    BY <1>3 DEF RevokeRows, IInv, LocalsOK, LocalOK
  <2>2. \A t \in Others(r) : sessions[t].state # "none" /\ t \in Tokens
    BY <2>1, ConstantsAssumption DEF Others, SessionsOf, RowsWellFormed
  <2>3. \A t \in Others(r) : sessions'[t].state \in {"revoked", "expired", "deleted", "wiped"}
    BY <1>3, <2>2 DEF RevokeRows, Live, SessionRow
  <2> QED
    BY <2>1, <2>2, <2>3 DEF Report, EndedNotLive, RowsPersist
<1>4. ASSUME NEW r \in Reqs, DropAdmin(r)
      PROVE  EndedNotLive' /\ \A t \in Tokens : ended[t] # "no" => ended'[t] # "no"
  <2>1. \A t \in SessionsOf(req[r].adm) : sessions[t].state # "none" /\ t \in Tokens
    BY <1>4, ConstantsAssumption DEF DropAdmin, SessionsOf, RowsWellFormed, IInv, LocalsOK, LocalOK
  <2>2. \A t \in SessionsOf(req[r].adm) : sessions'[t].state \in {"revoked", "expired", "deleted", "wiped"}
    BY <1>4, <2>1 DEF DropAdmin, Stored, SessionRow
  <2> QED
    BY <1>4, <2>2 DEF DropAdmin, Report, EndedNotLive, RowsPersist
<1>5. \/ UNCHANGED ended
      \/ \E r \in Reqs : MarkRow(r) \/ RevokeRows(r) \/ DropAdmin(r)
  BY DEF Next, Start, Handler, vars, Tick, CleanUp, InsertRow, CacheNew, ResolveHit, ResolveMiss, Evict,
         ReadRow, Fill, Logout, RevokeAll, RevokeOthers, PurgeKey, Abort, WipeAdmins, RefillAdmins
<1> QED
  BY <1>1, <1>2, <1>3, <1>4, <1>5

-----------------------------------------------------------------------------
(* What requests carry stays true while they wait, and what a step puts    *)
(* into its request is true.                                               *)

(* No step invalidates the locals of the handlers that do not move. *)
LEMMA LocalPersists ==
    ASSUME IInv, [Next]_vars PROVE \A q \in Request : LocalOK(q) => LocalOK(q)'
BY RowsStep, EndedStep DEF RowsPersist, LocalOK, CarriesRow

(* A handler that is done carries nothing that could be wrong. *)
LEMMA IdleLocalOK == LocalOK(Idle)'
BY DEF LocalOK, Idle

(* A step of one handler keeps the locals right if that handler does. *)
LEMMA LocalsUpdate ==
    ASSUME IInv, [Next]_vars, NEW r \in Reqs, NEW q, req' = [req EXCEPT ![r] = q], LocalOK(q)'
    PROVE  LocalsOK'
<1> req \in [Reqs -> Request] /\ \A s \in Reqs : LocalOK(req[s])
  BY DEF IInv, TypeOK, Types, LocalsOK
<1>1. \A s \in Reqs : LocalOK(req[s])'
  <2> SUFFICES ASSUME NEW s \in Reqs PROVE LocalOK(req[s])'
    OBVIOUS
  <2>1. CASE s = r
    <3>1. req'[s] = q
      BY <2>1
    <3> QED
      BY <3>1 DEF LocalOK, CarriesRow
  <2>2. CASE s # r
    <3>1. req'[s] = req[s] /\ req[s] \in Request
      BY <2>2
    <3>2. ASSUME NEW p \in Request, LocalOK(p), p = req'[s] PROVE LocalOK(req[s])'
      <4>1. LocalOK(p)'
        BY <3>2, LocalPersists
      <4> QED
        BY <3>2, <4>1 DEF LocalOK, CarriesRow
    <3> QED
      BY <3>1, <3>2
  <2> QED
    BY <2>1, <2>2
<1> QED
  BY <1>1 DEF LocalsOK

(* The same, for a request whose new locals are already true in the old state. *)
LEMMA LocalsMove ==
    ASSUME IInv, [Next]_vars, NEW r \in Reqs, NEW q \in Request, req' = [req EXCEPT ![r] = q],
           LocalOK(q)
    PROVE  LocalsOK'
BY LocalPersists, LocalsUpdate

(* A request that was accepted goes on with the right locals. *)
LEMMA ProceedLocalOK ==
    ASSUME NEW q \in Request, NEW a \in Admins, LocalOK(q) PROVE LocalOK(Proceed(q, a))
BY DEF Proceed, LocalOK, Idle, Request

(* A cache entry names an administrator. *)
LEMMA CachedAdmin ==
    ASSUME IInv, NEW t \in Tokens, kv[t] # NoEntry PROVE kv[t].adm \in Admins
BY ConstantsAssumption DEF IInv, CacheFaithful, RowsWellFormed, TypeOK, Types, SessionRow, Admin

(* A handler that carries a row carries an administrator. *)
LEMMA CarriedAdmin ==
    ASSUME IInv, NEW q \in Request, CarriesRow(q) PROVE q.adm \in Admins
BY ConstantsAssumption DEF IInv, CarriesRow, RowsWellFormed, TypeOK, Types, SessionRow, Admin

(* Every step keeps the locals of all handlers right. *)
LEMMA LocalsStep == ASSUME IInv, [Next]_vars PROVE LocalsOK'
<1>0. /\ Types /\ LocalsOK /\ KnownIssued /\ Idle \in Request
      /\ req \in [Reqs -> Request] /\ sessions \in [Tokens -> SessionRow]
  BY RequestTypes DEF IInv, TypeOK, Types
<1>1. CASE UNCHANGED req
  <2> SUFFICES ASSUME NEW s \in Reqs PROVE LocalOK(req[s])'
    BY DEF LocalsOK
  <2>1. ASSUME NEW p \in Request, LocalOK(p), p = req'[s] PROVE LocalOK(req[s])'
    <3>1. LocalOK(p)'
      BY <2>1, LocalPersists
    <3> QED
      BY <2>1, <3>1 DEF LocalOK, CarriesRow
  <2> QED
    BY <1>0, <1>1, <2>1 DEF LocalsOK
<1>2. ASSUME NEW r \in Reqs, NEW t \in Tokens, NEW a \in Admins, InsertRow(r, t, a)
      PROVE  LocalsOK'
  <2> DEFINE q == [Idle EXCEPT !.pc = "cache", !.tok = t, !.adm = a, !.exp = now + SessionTtl,
                               !.ttl = SessionTtl]
  <2>1. LocalOK(q)'
    <3>1. /\ q.pc = "cache" /\ q.tok = t /\ q.adm = a /\ q.exp = now + SessionTtl
          /\ q.late = "no"
      BY DEF Idle
    <3>2. sessions'[t] = [adm |-> a, exp |-> now + SessionTtl, state |-> "live"]
      BY <1>0, <1>2 DEF InsertRow
    <3>3. now' = now
      BY <1>2 DEF InsertRow
    <3> QED
      BY <3>1, <3>2, <3>3 DEF LocalOK, CarriesRow, Idle
  <2> QED
    BY <1>2, <2>1, LocalsUpdate DEF InsertRow
<1>3. ASSUME NEW r \in Reqs, req' = [req EXCEPT ![r] = Idle] PROVE LocalsOK'
  BY <1>3, IdleLocalOK, LocalsUpdate
<1>4. ASSUME NEW r \in Reqs, NEW t \in Tokens, NEW op \in {"use", "others"}, ResolveHit(r, t, op)
      PROVE LocalsOK'
  <2> DEFINE q == [Idle EXCEPT !.op = op, !.tok = t, !.late = ended[t]]
  <2>1. /\ q \in Request /\ [Idle EXCEPT !.pc = "evict", !.tok = t] \in Request
        /\ sessions[t].state # "none" /\ kv[t].adm \in Admins
    BY <1>0, <1>4, StartTypes, CachedAdmin DEF ResolveHit, KnownIssued, Types
  <2>2. LocalOK(q) /\ LocalOK([Idle EXCEPT !.pc = "evict", !.tok = t])
    BY <2>1 DEF LocalOK, Idle
  <2>3. LocalOK(Proceed(q, kv[t].adm)) /\ Proceed(q, kv[t].adm) \in Request
    BY <2>1, <2>2, ProceedLocalOK, ProceedTypes DEF Admin
  <2> QED
    BY <1>4, <2>1, <2>2, <2>3, LocalsMove DEF ResolveHit
<1>5. ASSUME NEW r \in Reqs, NEW t \in Tokens, NEW op \in {"use", "others"}, ResolveMiss(r, t, op)
      PROVE LocalsOK'
  <2> DEFINE q == [Idle EXCEPT !.pc = "read", !.op = op, !.tok = t, !.late = ended[t]]
  <2>1. q \in Request /\ sessions[t].state # "none"
    BY <1>0, <1>5, StartTypes DEF ResolveMiss, KnownIssued, Types
  <2>2. LocalOK(q)
    BY <2>1 DEF LocalOK, Idle
  <2> QED
    BY <1>5, <2>1, <2>2, LocalsMove DEF ResolveMiss
<1>6. ASSUME NEW r \in Reqs, ReadRow(r) PROVE LocalsOK'
  <2> DEFINE row == sessions[req[r].tok]
             q == [req[r] EXCEPT !.pc = "fill", !.adm = row.adm, !.exp = row.exp,
                                 !.ttl = row.exp - now, !.late = "no"]
  <2>1. CASE req' = [req EXCEPT ![r] = Idle]
    BY <1>3, <2>1
  <2>2. CASE req' # [req EXCEPT ![r] = Idle]
    <3>1. req' = [req EXCEPT ![r] = q] /\ Live(req[r].tok) /\ row.exp > now
      BY <1>6, <2>2 DEF ReadRow
    <3>2. /\ req[r] \in Request /\ LocalOK(req[r]) /\ req[r].pc = "read"
      BY <1>0, <1>6 DEF ReadRow, LocalsOK
    <3>3. row \in SessionRow /\ row.adm \in Admin /\ row.exp \in Nat /\ now \in Nat
      BY <1>0, <3>2 DEF LocalOK, SessionRow, Types
    <3>4. row.exp - now \in Nat
      BY <3>1, <3>3
    <3>5. q \in Request
      BY <3>2, <3>3, <3>4, RequestTypes
    <3>6. LocalOK(q)
      BY <3>1, <3>2 DEF LocalOK, CarriesRow, Live, Request
    <3> QED
      BY <3>1, <3>5, <3>6, LocalsMove
  <2> QED
    BY <2>1, <2>2
<1>7. ASSUME NEW r \in Reqs, Fill(r) PROVE LocalsOK'
  <2>1. req[r] \in Request /\ LocalOK(req[r]) /\ req[r].adm \in Admins
    BY <1>0, <1>7, CarriedAdmin DEF Fill, LocalsOK, LocalOK
  <2>2. LocalOK(Proceed(req[r], req[r].adm)) /\ Proceed(req[r], req[r].adm) \in Request
    BY <2>1, ProceedLocalOK, ProceedTypes DEF Admin
  <2> QED
    BY <1>7, <2>2, LocalsMove DEF Fill
<1>8. ASSUME NEW r \in Reqs, NEW t \in Tokens, Logout(r, t) PROVE LocalsOK'
  <2> DEFINE q == [Idle EXCEPT !.pc = "mark", !.op = "logout", !.tok = t]
  <2>1. q \in Request /\ sessions[t].state # "none"
    BY <1>0, <1>8, StartTypes DEF Logout, KnownIssued, Outcome
  <2>2. LocalOK(q)
    BY <2>1 DEF LocalOK, Idle
  <2> QED
    BY <1>8, <2>1, <2>2, LocalsMove DEF Logout
<1>9. ASSUME NEW r \in Reqs, NEW a \in Admins, NEW op \in {"recover", "delete"}, RevokeAll(r, a, op)
      PROVE LocalsOK'
  <2> DEFINE q == [Idle EXCEPT !.op = op, !.adm = a]
  <2>1. q \in Request /\ Selected(q) \in Request
    BY <1>0, IdleAdminTypes, SelectedTypes
  <2>2. LocalOK(Selected(q))
    BY <2>1 DEF LocalOK, Selected, Idle
  <2> QED
    BY <1>9, <2>1, <2>2, LocalsMove DEF RevokeAll
<1>10. ASSUME NEW r \in Reqs, RevokeOthers(r) PROVE LocalsOK'
  <2>1. req[r] \in Request /\ Selected(req[r]) \in Request /\ LocalOK(req[r])
    BY <1>0, SelectedTypes DEF LocalsOK
  <2>2. LocalOK(Selected(req[r]))
    BY <1>10, <2>1 DEF RevokeOthers, LocalOK, Selected, Request
  <2> QED
    BY <1>10, <2>1, <2>2, LocalsMove DEF RevokeOthers
<1>11. ASSUME NEW r \in Reqs, NEW t \in Tokens, PurgeKey(r, t) PROVE LocalsOK'
  <2> DEFINE q == [req[r] EXCEPT !.rows = req[r].rows \ {t}]
  <2>1. req[r] \in Request /\ LocalOK(req[r])
    BY <1>0 DEF LocalsOK
  <2>2. q \in Request
    BY <2>1, RequestFields, RequestTypes
  <2>3. LocalOK(q)
    BY <1>11, <2>1 DEF PurgeKey, LocalOK, Request
  <2> QED
    BY <1>11, <2>2, <2>3, LocalsMove DEF PurgeKey
<1>12. ASSUME NEW r \in Reqs, RevokeRows(r) PROVE LocalsOK'
  <2> DEFINE q == [req[r] EXCEPT !.pc = "drop"]
  <2>1. req[r] \in Request /\ LocalOK(req[r]) /\ q \in Request
    BY <1>0, RequestTypes DEF LocalsOK
  <2>2. req[r].op = "delete" => LocalOK(q)
    BY <1>12, <2>1 DEF RevokeRows, LocalOK, Request
  <2> QED
    BY <1>3, <1>12, <2>1, <2>2, LocalsMove DEF RevokeRows
<1>13. \/ UNCHANGED req
       \/ \E r \in Reqs : req' = [req EXCEPT ![r] = Idle]
       \/ \E r \in Reqs, t \in Tokens, a \in Admins : InsertRow(r, t, a)
       \/ \E r \in Reqs, t \in Tokens, op \in {"use", "others"} : ResolveHit(r, t, op)
       \/ \E r \in Reqs, t \in Tokens, op \in {"use", "others"} : ResolveMiss(r, t, op)
       \/ \E r \in Reqs, a \in Admins, op \in {"recover", "delete"} : RevokeAll(r, a, op)
       \/ \E r \in Reqs, t \in Tokens : Logout(r, t) \/ PurgeKey(r, t)
       \/ \E r \in Reqs : ReadRow(r) \/ Fill(r) \/ RevokeOthers(r) \/ RevokeRows(r)
  BY DEF Next, Start, Handler, vars, Tick, CleanUp, CacheNew, Evict, MarkRow, DropAdmin, Abort,
         WipeAdmins, RefillAdmins
<1> QED
  BY <1>1, <1>2, <1>3, <1>4, <1>5, <1>6, <1>7, <1>8, <1>9, <1>10, <1>11, <1>12, <1>13

(* Browsers only ever hold tokens that were issued. *)
LEMMA KnownStep == ASSUME IInv, [Next]_vars PROVE KnownIssued'
<1>0. KnownIssued /\ known \subseteq Tokens /\ RowsPersist
  BY RowsStep DEF IInv, TypeOK, Types
<1>1. CASE UNCHANGED known
  BY <1>0, <1>1 DEF KnownIssued, RowsPersist
<1>2. ASSUME NEW r \in Reqs, CacheNew(r) PROVE KnownIssued'
  <2>1. req[r].tok \in Tokens /\ sessions[req[r].tok].state # "none"
    BY <1>2 DEF CacheNew, IInv, LocalsOK, LocalOK, CarriesRow
  <2> QED
    BY <1>0, <1>2, <2>1 DEF CacheNew, KnownIssued, RowsPersist
<1>3. UNCHANGED known \/ \E r \in Reqs : CacheNew(r)
  BY DEF Next, Start, Handler, vars, Tick, CleanUp, InsertRow, ResolveHit, ResolveMiss, Evict, ReadRow,
         Fill, MarkRow, Logout, RevokeAll, RevokeOthers, PurgeKey, RevokeRows, DropAdmin,
         Abort, WipeAdmins, RefillAdmins
<1> QED
  BY <1>1, <1>2, <1>3

-----------------------------------------------------------------------------
(* The cache. *)

(* A put of the row request r carries: the step that ends CacheNew or Fill. *)
Puts(r) ==
    /\ req[r].pc \in {"cache", "fill"}
    /\ PutEntry(req[r])
    /\ UNCHANGED <<sessions, ended>>
    /\ \A s \in Reqs : s # r => req'[s] = req[s]
    /\ req'[r].pc \in {"idle", "select"}

(* The two actions that may put an entry, in one form. *)
LEMMA PutsFrame ==
    ASSUME IInv, [Next]_vars, NEW r \in Reqs, CacheNew(r) \/ Fill(r) PROVE Puts(r)
<1>1. req \in [Reqs -> Request]
  BY DEF IInv, TypeOK, Types
<1>2. CASE CacheNew(r)
  BY <1>1, <1>2 DEF CacheNew, Puts, Idle
<1>3. CASE Fill(r)
  BY <1>1, <1>3 DEF Fill, Puts, Idle, Proceed, Request
<1> QED
  BY <1>2, <1>3

(* A step puts one entry, or the cache only loses entries. *)
LEMMA CacheFrame ==
    ASSUME IInv, [Next]_vars
    PROVE  \/ raced \subseteq raced' /\ \A t \in Tokens : kv'[t] \in {kv[t], NoEntry}
           \/ \E r \in Reqs : Puts(r)
<1>1. kv \in [Tokens -> CacheEntry]
  BY DEF IInv, TypeOK, Types
<1>2. CASE Tick
  BY <1>1, <1>2 DEF Tick
<1>3. ASSUME NEW r \in Reqs, Evict(r)
      PROVE  raced \subseteq raced' /\ \A t \in Tokens : kv'[t] \in {kv[t], NoEntry}
  BY <1>1, <1>3 DEF Evict
<1>4. ASSUME NEW r \in Reqs, NEW t \in Tokens, Logout(r, t) \/ PurgeKey(r, t)
      PROVE  raced \subseteq raced' /\ \A u \in Tokens : kv'[u] \in {kv[u], NoEntry}
  BY <1>1, <1>4 DEF Logout, PurgeKey, DeleteEntry
<1>5. \/ UNCHANGED <<kv, raced>> \/ Tick
      \/ \E r \in Reqs : Evict(r) \/ CacheNew(r) \/ Fill(r)
      \/ \E r \in Reqs, t \in Tokens : Logout(r, t) \/ PurgeKey(r, t)
  BY DEF Next, Start, Handler, vars, CleanUp, InsertRow, ResolveHit, ResolveMiss, ReadRow, MarkRow,
         RevokeAll, RevokeOthers, RevokeRows, DropAdmin, Abort, WipeAdmins, RefillAdmins
<1> QED
  BY <1>2, <1>3, <1>4, <1>5, PutsFrame

(* Every step keeps the cache a copy of the rows. *)
LEMMA CacheStep == ASSUME IInv, [Next]_vars PROVE CacheFaithful'
<1>0. /\ kv \in [Tokens -> CacheEntry] /\ CacheFaithful /\ RowsPersist /\ LocalsOK
  BY RowsStep DEF IInv, TypeOK, Types
<1>1. CASE \A t \in Tokens : kv'[t] \in {kv[t], NoEntry}
  <2>1. \A t \in Tokens : kv'[t] # NoEntry => kv'[t] = kv[t]
    BY <1>1
  <2> SUFFICES ASSUME NEW t \in Tokens, kv'[t] # NoEntry'
               PROVE  /\ sessions'[t].state # "none"
                      /\ kv'[t].adm = sessions'[t].adm
                      /\ kv'[t].exp = sessions'[t].exp
    BY DEF CacheFaithful
  <2>2. kv[t] # NoEntry /\ kv'[t] = kv[t]
    BY <2>1 DEF NoEntry
  <2> QED
    BY <1>0, <2>2 DEF CacheFaithful, RowsPersist
<1>2. ASSUME NEW r \in Reqs, Puts(r) PROVE CacheFaithful'
  <2>1. CarriesRow(req[r])
    BY <1>0, <1>2 DEF Puts, LocalsOK, LocalOK
  <2>2. \A t \in Tokens : kv'[t] = kv[t] \/ (t = req[r].tok /\ kv'[t] = Entry(req[r]))
    BY <1>0, <1>2 DEF Puts, PutEntry
  <2>3. Entry(req[r]).adm = req[r].adm /\ Entry(req[r]).exp = req[r].exp
    BY DEF Entry
  <2> QED
    BY <1>0, <2>1, <2>2, <2>3 DEF CacheFaithful, RowsPersist, CarriesRow
<1> QED
  BY <1>1, <1>2, CacheFrame

-----------------------------------------------------------------------------
(* The race argument: RaceInv says that a cached row that is revoked, or   *)
(* that a running revocation will not come back to, has raced.             *)

RaceInv == PassedCachedOnlyByRace /\ RevokedCachedOnlyByRace

(* A step that caches nothing new and lets no revocation pass further.     *)
LEMMA RaceKept ==
    ASSUME RaceInv, raced \subseteq raced', sessions' = sessions, ended' = ended,
           \A t \in Tokens : Usable(t)' => Usable(t),
           \A r \in Reqs, t \in Tokens : Passed(r, t)' => Passed(r, t)
    PROVE  RaceInv'
BY DEF RaceInv, PassedCachedOnlyByRace, RevokedCachedOnlyByRace, Revoked

(* Only a put makes an entry usable: time and deletes never do. *)
LEMMA UsableShrinks ==
    ASSUME IInv, [Next]_vars, NEW t \in Tokens, kv'[t] \in {kv[t], NoEntry}
    PROVE  Usable(t)' => Usable(t)
<1>1. now \in Nat /\ now' \in Nat /\ now <= now' /\ kv[t].exp \in Nat
  BY ExpiredStep, TypesStep DEF IInv, TypeOK, Types, CacheEntry
<1> QED
  BY <1>1 DEF Usable, NoEntry

(* A selection that begins a bulk revocation leaves no live session out. *)
LEMMA SelectedRace ==
    ASSUME IInv, [Next]_vars, NEW r \in Reqs, NEW q \in Request, q.adm \in Admins,
           req' = [req EXCEPT ![r] = Selected(q)], UNCHANGED <<sessions, kv, raced, ended>>
    PROVE  RaceInv'
<1>0. /\ req \in [Reqs -> Request] /\ sessions \in [Tokens -> SessionRow]
      /\ RevokedCachedOnlyByRace /\ PassedCachedOnlyByRace
  BY DEF IInv, TypeOK, Types
<1>1. /\ req'[r].pc = "purge" /\ req'[r].adm = q.adm /\ req'[r].tok = q.tok
      /\ req'[r].rows = {t \in SessionsOf(q.adm) : Live(t) /\ t # q.tok}
  BY <1>0 DEF Selected, Request
<1>2. \A t \in Tokens : ~Passed(r, t)'
  BY <1>0, <1>1 DEF Passed, SessionsOf, Live
<1>6. \A t \in Tokens : Usable(t)' => Usable(t)
  BY UsableShrinks
<1>3. \A s \in Reqs, t \in Tokens : s # r /\ Passed(s, t)' => Passed(s, t)
  BY <1>0 DEF Passed, Live
<1>4. PassedCachedOnlyByRace'
  BY <1>0, <1>2, <1>3, <1>6 DEF PassedCachedOnlyByRace
<1> QED
  BY <1>0, <1>4, <1>6 DEF RaceInv, RevokedCachedOnlyByRace, Revoked

(* A put that outlives a revocation is recorded as a race. *)
LEMMA PutRace ==
    ASSUME IInv, [Next]_vars, NEW r \in Reqs, Puts(r) PROVE RaceInv'
<1>0. /\ req \in [Reqs -> Request] /\ kv \in [Tokens -> CacheEntry]
      /\ RevokedCachedOnlyByRace /\ PassedCachedOnlyByRace /\ EndedNotLive
      /\ req[r].tok \in Tokens
  BY DEF IInv, TypeOK, Types, Puts, LocalsOK, LocalOK, CarriesRow
<1>1. \A s \in Reqs, t \in Tokens : Passed(s, t)' => Passed(s, t)
  BY DEF Puts, Passed, Live
<1>4. \A t \in Tokens : Revoked(t)' <=> Revoked(t)
  BY DEF Puts, Revoked
<1>2. CASE UNCHANGED <<kv, raced>>
  <2>1. \A t \in Tokens : Usable(t)' => Usable(t)
    BY <1>2, UsableShrinks
  <2> QED
    BY <1>0, <1>1, <1>2, <1>4, <2>1 DEF Puts, RaceInv, PassedCachedOnlyByRace, RevokedCachedOnlyByRace
<1>3. CASE /\ kv' = [kv EXCEPT ![req[r].tok] = Entry(req[r])]
           /\ raced' = IF OutlivesRevocation(req[r].tok) THEN raced \cup {req[r].tok} ELSE raced
  <2>1. \A t \in Tokens : t # req[r].tok => (Usable(t)' => Usable(t))
    BY <1>0, <1>3, UsableShrinks
  <2>2. raced \subseteq raced'
    BY <1>3
  <2>3. \/ req[r].tok \in raced'
        \/ Live(req[r].tok) /\ \A s \in Reqs : ~Passed(s, req[r].tok)
    BY <1>3 DEF OutlivesRevocation
  <2>4. Live(req[r].tok) => ~Revoked(req[r].tok)
    BY <1>0 DEF EndedNotLive, Live, Revoked
  <2> QED
    BY <1>0, <1>1, <1>4, <2>1, <2>2, <2>3, <2>4
       DEF Puts, RaceInv, PassedCachedOnlyByRace, RevokedCachedOnlyByRace
<1> QED
  BY <1>2, <1>3 DEF Puts, PutEntry

(* Every step keeps the two invariants about races. *)
LEMMA RaceStep == ASSUME IInv, [Next]_vars PROVE RaceInv'
<1>0. /\ req \in [Reqs -> Request] /\ kv \in [Tokens -> CacheEntry]
      /\ sessions \in [Tokens -> SessionRow] /\ RowsWellFormed /\ CacheFaithful /\ LocalsOK
      /\ RaceInv
  BY DEF IInv, TypeOK, Types, RaceInv
<1> USE DEF RaceInv, PassedCachedOnlyByRace, RevokedCachedOnlyByRace, Revoked
<1>1. ASSUME NEW r \in Reqs, NEW t \in Tokens, NEW a \in Admins, InsertRow(r, t, a) PROVE RaceInv'
  <2>1. UNCHANGED <<raced, ended>> /\ ~Usable(t)' /\ \A u \in Tokens : Usable(u)' => Usable(u)
    BY <1>0, <1>1, UsableShrinks DEF InsertRow, CacheFaithful, Usable, NoEntry
  <2>2. \A u \in Tokens : u # t => sessions'[u] = sessions[u]
    BY <1>0, <1>1 DEF InsertRow
  <2>3. req'[r].pc = "cache" /\ \A s \in Reqs : s # r => req'[s] = req[s]
    BY <1>0, <1>1 DEF InsertRow, Idle
  <2>4. \A s \in Reqs, u \in Tokens : u # t /\ Passed(s, u)' => Passed(s, u)
    BY <2>2, <2>3 DEF Passed, Live
  <2> QED
    BY <1>0, <2>1, <2>2, <2>4
<1>2. ASSUME NEW r \in Reqs, NEW t \in Tokens, Logout(r, t) PROVE RaceInv'
  <2>1. /\ req'[r].pc = "mark" /\ req'[r].tok = t
        /\ \A s \in Reqs : s # r => req'[s] = req[s]
    BY <1>0, <1>2 DEF Logout, Idle
  <2>2. \A s \in Reqs, u \in Tokens : u # t /\ Passed(s, u)' => Passed(s, u)
    BY <1>2, <2>1 DEF Passed, Logout, Live
  <2>3. ~Usable(t)' \/ t \in raced'
    BY <1>0, <1>2 DEF Logout, DeleteEntry, Usable, NoEntry
  <2>4. raced \subseteq raced' /\ UNCHANGED <<sessions, ended>> /\ \A u \in Tokens : kv'[u] \in {kv[u], NoEntry}
    BY <1>0, <1>2 DEF Logout, DeleteEntry
  <2>5. \A u \in Tokens : Usable(u)' => Usable(u)
    BY <2>4, UsableShrinks
  <2> QED
    BY <1>0, <2>2, <2>3, <2>4, <2>5
<1>3. ASSUME NEW r \in Reqs, NEW t \in Tokens, PurgeKey(r, t) PROVE RaceInv'
  <2>1. /\ req'[r].pc = "purge" /\ req'[r].tok = req[r].tok /\ req'[r].adm = req[r].adm
        /\ req'[r].rows = req[r].rows \ {t} /\ req[r].pc = "purge"
        /\ \A s \in Reqs : s # r => req'[s] = req[s]
    BY <1>0, <1>3 DEF PurgeKey, Request
  <2>2. \A s \in Reqs, u \in Tokens : u # t /\ Passed(s, u)' => Passed(s, u)
    BY <1>3, <2>1 DEF Passed, PurgeKey, Live
  <2>3. ~Usable(t)' \/ t \in raced'
    BY <1>0, <1>3 DEF PurgeKey, DeleteEntry, Usable, NoEntry
  <2>4. raced \subseteq raced' /\ UNCHANGED <<sessions, ended>> /\ \A u \in Tokens : kv'[u] \in {kv[u], NoEntry}
    BY <1>0, <1>3 DEF PurgeKey, DeleteEntry
  <2>5. \A u \in Tokens : Usable(u)' => Usable(u)
    BY <2>4, UsableShrinks
  <2> QED
    BY <1>0, <2>2, <2>3, <2>4, <2>5
<1>4. ASSUME NEW r \in Reqs, MarkRow(r) PROVE RaceInv'
  <2>1. Passed(r, req[r].tok) /\ raced' = raced /\ \A u \in Tokens : Usable(u)' => Usable(u)
    BY <1>4, UsableShrinks DEF MarkRow, Passed
  <2>2. \A u \in Tokens : u # req[r].tok => sessions'[u] = sessions[u] /\ ended'[u] = ended[u]
    BY <1>0, <1>4 DEF MarkRow
  <2>3. \A u \in Tokens : sessions'[u].adm = sessions[u].adm /\ (Live(u)' => Live(u))
    BY <1>0, <1>4 DEF MarkRow, SessionRow, Live
  <2>4. \A s \in Reqs, u \in Tokens : Passed(s, u)' => Passed(s, u)
    BY <1>0, <1>4, <2>3 DEF MarkRow, Passed, Idle
  <2> QED
    BY <1>0, <2>1, <2>2, <2>4
<1>5. ASSUME NEW r \in Reqs, RevokeRows(r) PROVE RaceInv'
  <2>6. \A u \in Tokens : ended'[u] = "logout" => ended[u] = "logout"
    BY <1>5 DEF RevokeRows, Report
  <2>1. raced' = raced /\ \A u \in Tokens : Usable(u)' => Usable(u)
    BY <1>5, UsableShrinks DEF RevokeRows
  <2>2. \A u \in Tokens : sessions'[u] # sessions[u] => Passed(r, u)
    BY <1>0, <1>5 DEF RevokeRows, Others, SessionsOf, Passed
  <2>3. \A u \in Tokens : sessions'[u].adm = sessions[u].adm /\ (Live(u)' => Live(u))
    BY <1>0, <1>5 DEF RevokeRows, SessionRow, Live
  <2>4. /\ \A s \in Reqs : s # r => req'[s] = req[s]
        /\ \/ req'[r].pc = "idle"
           \/ /\ req'[r].pc = "drop" /\ req'[r].adm = req[r].adm /\ req'[r].tok = req[r].tok
              /\ req'[r].rows = req[r].rows
    BY <1>0, <1>5 DEF RevokeRows, Idle, Request
  <2>5. \A s \in Reqs, u \in Tokens : Passed(s, u)' => Passed(s, u)
    BY <1>5, <2>3, <2>4 DEF RevokeRows, Passed
  <2> QED
    BY <1>0, <2>1, <2>2, <2>5, <2>6
<1>6. ASSUME NEW r \in Reqs, DropAdmin(r) PROVE RaceInv'
  <2>0. raced' = raced /\ \A u \in Tokens : Usable(u)' => Usable(u)
    BY <1>6, UsableShrinks DEF DropAdmin
  <2>1. req[r].pc = "drop" /\ req[r].tok = NoToken
    BY <1>0, <1>6 DEF DropAdmin, LocalsOK, LocalOK
  <2>2. \A u \in Tokens : sessions'[u] # sessions[u] => sessions[u].adm = req[r].adm
    BY <1>0, <1>6 DEF DropAdmin, SessionsOf
  <2>3. \A u \in Tokens : sessions'[u].adm = sessions[u].adm /\ (Live(u)' => Live(u))
    BY <1>0, <1>6 DEF DropAdmin, SessionRow, Live
  <2>7. \A u \in Tokens : ended'[u] = "logout" => ended[u] = "logout"
    BY <1>6 DEF DropAdmin, Report
  <2>4. req[r].rows = {}
    BY <1>0, <2>1 DEF LocalsOK, LocalOK
  <2>5. \A u \in Tokens : sessions'[u] # sessions[u] => Passed(r, u) \/ sessions[u].state = "revoked"
    <3>1. \A u \in Tokens : sessions'[u] # sessions[u] => Live(u) \/ sessions[u].state = "revoked"
      BY <1>0, <1>6 DEF DropAdmin, Stored, Live
    <3> QED
      BY <2>1, <2>2, <2>4, <3>1, ConstantsAssumption DEF Passed
  <2>6. \A s \in Reqs, u \in Tokens : Passed(s, u)' => Passed(s, u)
    BY <1>0, <1>6, <2>3 DEF DropAdmin, Passed, Idle
  <2> QED
    BY <1>0, <2>0, <2>5, <2>6, <2>7
<1>7. ASSUME NEW r \in Reqs, NEW a \in Admins, NEW op \in {"recover", "delete"}, RevokeAll(r, a, op)
      PROVE RaceInv'
  <2>1. [Idle EXCEPT !.op = op, !.adm = a] \in Request /\ [Idle EXCEPT !.op = op, !.adm = a].adm = a
    BY IdleAdminTypes DEF Idle
  <2> QED
    BY <1>7, <2>1, SelectedRace DEF RevokeAll
<1>8. ASSUME NEW r \in Reqs, RevokeOthers(r) PROVE RaceInv'
  <2>1. req[r] \in Request /\ req[r].adm \in Admins
    BY <1>0, <1>8 DEF RevokeOthers, LocalsOK, LocalOK
  <2> QED
    BY <1>8, <2>1, SelectedRace DEF RevokeOthers
<1>9. ASSUME UNCHANGED <<sessions, ended>>, raced \subseteq raced',
             \A t \in Tokens : kv'[t] \in {kv[t], NoEntry},
             UNCHANGED req \/ \E r \in Reqs : /\ req'[r].pc \in {"idle", "read", "evict", "select", "fill"}
                                             /\ \A s \in Reqs : s # r => req'[s] = req[s]
      PROVE  RaceInv'
  <2>1. \A s \in Reqs, t \in Tokens : Passed(s, t)' => Passed(s, t)
    BY <1>9 DEF Passed, Live
  <2>2. \A t \in Tokens : Usable(t)' => Usable(t)
    BY <1>9, UsableShrinks
  <2> QED
    BY <1>0, <1>9, <2>1, <2>2, RaceKept
<1>10. ASSUME NEW r \in Reqs, CacheNew(r) \/ Fill(r) PROVE RaceInv'
  BY <1>10, PutsFrame, PutRace
<1>11. CASE Tick
  <2>1. UNCHANGED <<sessions, req, raced, ended>> /\ \A t \in Tokens : kv'[t] \in {kv[t], NoEntry}
    BY <1>0, <1>11 DEF Tick
  <2> QED
    BY <1>9, <2>1
<1>12. ASSUME NEW r \in Reqs, Evict(r) PROVE RaceInv'
  <2>1. /\ UNCHANGED <<sessions, raced, ended>> /\ \A t \in Tokens : kv'[t] \in {kv[t], NoEntry}
        /\ req'[r].pc = "idle" /\ \A s \in Reqs : s # r => req'[s] = req[s]
    BY <1>0, <1>12 DEF Evict, Idle
  <2> QED
    BY <1>9, <2>1
<1>13. ASSUME NEW r \in Reqs, NEW t \in Tokens, NEW op \in {"use", "others"}, ResolveHit(r, t, op)
       PROVE RaceInv'
  <2>1. UNCHANGED <<sessions, raced, kv, ended>> /\ \A s \in Reqs : s # r => req'[s] = req[s]
    BY <1>0, <1>13 DEF ResolveHit
  <2> DEFINE q == [Idle EXCEPT !.op = op, !.tok = t, !.late = ended[t]]
             e == [Idle EXCEPT !.pc = "evict", !.tok = t]
  <2>2. e.pc = "evict" /\ Proceed(q, kv[t].adm).pc \in {"idle", "select"}
    BY DEF Proceed, Idle
  <2>3. req'[r] = e \/ req'[r] = Proceed(q, kv[t].adm)
    BY <1>0, <1>13 DEF ResolveHit
  <2>4. req'[r].pc \in {"idle", "evict", "select"}
    BY <2>2, <2>3
  <2> QED
    BY <1>9, <2>1, <2>4
<1>14. ASSUME NEW r \in Reqs, NEW t \in Tokens, NEW op \in {"use", "others"}, ResolveMiss(r, t, op)
       PROVE RaceInv'
  <2>1. /\ UNCHANGED <<sessions, raced, kv, ended>> /\ \A s \in Reqs : s # r => req'[s] = req[s]
        /\ req'[r].pc = "read"
    BY <1>0, <1>14 DEF ResolveMiss, Idle
  <2> QED
    BY <1>9, <2>1
<1>15. ASSUME NEW r \in Reqs, ReadRow(r) PROVE RaceInv'
  <2>1. UNCHANGED <<sessions, raced, kv, ended>> /\ \A s \in Reqs : s # r => req'[s] = req[s]
    BY <1>0, <1>15 DEF ReadRow
  <2> DEFINE row == sessions[req[r].tok]
             f == [req[r] EXCEPT !.pc = "fill", !.adm = row.adm, !.exp = row.exp,
                                 !.ttl = row.exp - now, !.late = "no"]
  <2>2. Idle.pc = "idle" /\ f.pc = "fill"
    BY <1>0 DEF Idle, Request
  <2>3. req'[r] = Idle \/ req'[r] = f
    BY <1>0, <1>15 DEF ReadRow
  <2>4. req'[r].pc \in {"idle", "fill"}
    BY <2>2, <2>3
  <2> QED
    BY <1>9, <2>1, <2>4
<1>16. ASSUME NEW r \in Reqs, Abort(r) PROVE RaceInv'
  <2>1. /\ UNCHANGED <<sessions, raced, kv, ended>> /\ \A s \in Reqs : s # r => req'[s] = req[s]
        /\ req'[r].pc = "idle"
    BY <1>0, <1>16 DEF Abort, Idle
  <2> QED
    BY <1>9, <2>1
<1>17. CASE UNCHANGED vars
  BY <1>9, <1>17 DEF vars
<1>18. CASE CleanUp
  <2>1. UNCHANGED <<raced, ended>> /\ \A u \in Tokens : Usable(u)' => Usable(u)
    BY <1>18, UsableShrinks DEF CleanUp
  <2>2. \A u \in Tokens : sessions'[u].adm = sessions[u].adm /\ (Live(u)' => Live(u))
    BY <1>0, <1>18 DEF CleanUp, SessionRow, Live
  <2>3. \A s \in Reqs, u \in Tokens : Passed(s, u)' => Passed(s, u)
    BY <1>18, <2>2 DEF CleanUp, Passed
  <2>4. \A u \in Tokens : sessions'[u] # sessions[u] => sessions'[u].state = "expired"
    BY <1>0, <1>18 DEF CleanUp, SessionRow
  <2> QED
    BY <1>0, <2>1, <2>3, <2>4
<1>19. CASE WipeAdmins
  <2>1. UNCHANGED <<raced, ended>> /\ \A u \in Tokens : Usable(u)' => Usable(u)
    BY <1>19, UsableShrinks DEF WipeAdmins
  <2>2. \A u \in Tokens : sessions'[u].adm = sessions[u].adm /\ (Live(u)' => Live(u))
    BY <1>0, <1>19 DEF WipeAdmins, SessionRow, Live
  <2>3. \A s \in Reqs, u \in Tokens : Passed(s, u)' => Passed(s, u)
    BY <1>19, <2>2 DEF WipeAdmins, Passed
  <2>4. \A u \in Tokens : sessions'[u].state \in {"revoked", "deleted"} =>
                             sessions[u].state \in {"revoked", "deleted"}
    BY <1>0, <1>19 DEF WipeAdmins, SessionRow, Stored, Live
  <2> QED
    BY <1>0, <2>1, <2>3, <2>4
<1>20. ASSUME NEW S \in SUBSET Admins, RefillAdmins(S) PROVE RaceInv'
  <2>1. UNCHANGED <<sessions, req, raced, ended>> /\ \A t \in Tokens : kv'[t] \in {kv[t], NoEntry}
    BY <1>0, <1>20 DEF RefillAdmins
  <2> QED
    BY <1>9, <2>1
<1> QED
  BY <1>1, <1>2, <1>3, <1>4, <1>5, <1>6, <1>7, <1>8, <1>10, <1>11, <1>12, <1>13, <1>14, <1>15,
     <1>16, <1>17, <1>18, <1>19, <1>20 DEF Next, Start, Handler

-----------------------------------------------------------------------------
(* What resolveSession accepts. *)

(* Every step accepts only what the invariants about grants allow. *)
LEMMA GrantStep == ASSUME IInv, [Next]_vars PROVE GrantSound' /\ LateGrantOnlyByRace'
<1>0. /\ Types /\ CacheFaithful /\ LocalsOK /\ EndedNotLive /\ RevokedCachedOnlyByRace /\ ExpiredPast
      /\ KnownIssued /\ GrantSound /\ LateGrantOnlyByRace
      /\ RowsPersist /\ NoGrant' = NoGrant
  BY RowsStep DEF IInv, TypeOK, NoGrant
<1>1. CASE grant' = NoGrant
  BY <1>0, <1>1 DEF GrantSound, LateGrantOnlyByRace, NoGrant
<1>2. ASSUME NEW r \in Reqs, NEW t \in Tokens, NEW op \in {"use", "others"}, ResolveHit(r, t, op)
      PROVE  GrantSound' /\ LateGrantOnlyByRace'
  <2> DEFINE q == [Idle EXCEPT !.op = op, !.tok = t, !.late = ended[t]]
  <2>1. q.tok = t /\ q.late = ended[t]
    BY DEF Idle
  <2>2. /\ UNCHANGED <<sessions, raced>> /\ kv[t] # NoEntry
        /\ grant' = NoGrant \/ (~(kv[t].exp <= now) /\ Accept(q, kv[t].adm))
    BY <1>2 DEF ResolveHit
  <2>3. now \in Nat /\ kv[t].exp \in Nat
    BY <1>0 DEF Types, CacheEntry
  <2>4. CASE ~(kv[t].exp <= now) /\ Accept(q, kv[t].adm)
    <3>1. /\ sessions[t].state # "none" /\ kv[t].adm = sessions[t].adm
          /\ now < sessions[t].exp
      BY <1>0, <2>2, <2>3, <2>4 DEF CacheFaithful
    <3>2. ended[t] # "no" => t \in raced \/ (ended[t] = "bulk" /\ sessions[t].state = "wiped")
      <4>1. Usable(t) /\ sessions[t].exp \in Nat
        BY <1>0, <2>2, <2>3, <2>4 DEF Usable, Types, SessionRow
      <4>2. sessions[t].state # "expired"
        BY <1>0, <2>3, <3>1, <4>1 DEF ExpiredPast
      <4> QED
        BY <1>0, <4>1, <4>2 DEF EndedNotLive, RevokedCachedOnlyByRace, Revoked, Types, Outcome
    <3>3. grant' = [tok |-> t, adm |-> kv[t].adm, at |-> now, late |-> ended[t]]
      BY <2>1, <2>4 DEF Accept
    <3> QED
      BY <2>2, <3>1, <3>2, <3>3 DEF GrantSound, LateGrantOnlyByRace
  <2> QED
    BY <1>1, <2>2, <2>4
<1>3. ASSUME NEW r \in Reqs, ReadRow(r) PROVE GrantSound' /\ LateGrantOnlyByRace'
  <2> DEFINE t == req[r].tok
  <2>1. t \in Tokens /\ LocalOK(req[r])
    BY <1>0, <1>3 DEF ReadRow, LocalsOK, LocalOK
  <2>2. UNCHANGED <<sessions, raced>>
    BY <1>3 DEF ReadRow
  <2>3. \/ grant' = NoGrant
        \/ Live(t) /\ sessions[t].exp > now /\ Accept(req[r], sessions[t].adm)
    BY <1>3 DEF ReadRow
  <2>4. CASE Live(t) /\ sessions[t].exp > now /\ Accept(req[r], sessions[t].adm)
    <3>1. req[r].late = "no"
      BY <1>0, <2>1, <2>4 DEF LocalOK, EndedNotLive, Live
    <3>2. grant' = [tok |-> t, adm |-> sessions[t].adm, at |-> now, late |-> "no"]
      BY <2>4, <3>1 DEF Accept
    <3>3. now \in Nat /\ sessions[t].exp \in Nat
      BY <1>0, <2>1 DEF Types, SessionRow
    <3>4. now < sessions[t].exp /\ sessions[t].state # "none"
      BY <2>4, <3>3 DEF Live
    <3> QED
      BY <2>2, <3>2, <3>4 DEF GrantSound, LateGrantOnlyByRace
  <2> QED
    BY <1>1, <2>3, <2>4
<1>4. CASE UNCHANGED vars
  BY <1>0, <1>4 DEF vars, GrantSound, LateGrantOnlyByRace
<1>5. \/ grant' = NoGrant
      \/ \E r \in Reqs : ReadRow(r)
      \/ \E r \in Reqs, t \in Tokens, op \in {"use", "others"} : ResolveHit(r, t, op)
      \/ UNCHANGED vars
  BY DEF Next, Start, Handler, Tick, CleanUp, InsertRow, CacheNew, ResolveMiss, Evict, Fill, MarkRow,
         Logout, RevokeAll, RevokeOthers, PurgeKey, RevokeRows, DropAdmin, Abort, WipeAdmins, RefillAdmins
<1> QED
  BY <1>1, <1>2, <1>3, <1>4, <1>5

-----------------------------------------------------------------------------
(* The invariant. *)

(* IInv holds at the start. *)
LEMMA InitIInv == Init => IInv
<1> SUFFICES ASSUME Init PROVE IInv
  OBVIOUS
<1>1. Types
  <2>1. Idle \in Request /\ NoEntry \in CacheEntry
    BY RequestTypes DEF NoEntry, CacheEntry, Admin
  <2>2. [adm |-> NoAdmin, exp |-> 0, state |-> "none"] \in SessionRow
    BY DEF SessionRow, Admin
  <2>3. NoGrant \in [tok : Token, adm : Admin, at : Nat, late : Outcome]
    BY DEF NoGrant, Token, Admin, Outcome
  <2> QED
    BY <2>1, <2>2, <2>3 DEF Init, Types, Outcome
<1>2. ForeignKey /\ RowsWellFormed /\ CacheFaithful /\ KnownIssued /\ EndedNotLive /\ ExpiredPast
  BY DEF Init, ExpiredPast, ForeignKey, Stored, RowsWellFormed, CacheFaithful, KnownIssued, EndedNotLive
<1>3. LocalsOK
  BY DEF Init, LocalsOK, LocalOK, Idle
<1>4. PassedCachedOnlyByRace /\ RevokedCachedOnlyByRace
  BY DEF Init, PassedCachedOnlyByRace, RevokedCachedOnlyByRace, Usable
<1>5. GrantSound /\ LateGrantOnlyByRace
  BY DEF Init, GrantSound, LateGrantOnlyByRace, NoGrant
<1> QED
  BY <1>1, <1>2, <1>3, <1>4, <1>5 DEF IInv, TypeOK

(* IInv is inductive. *)
LEMMA IInvStep == IInv /\ [Next]_vars => IInv'
<1> SUFFICES ASSUME IInv, [Next]_vars PROVE IInv'
  OBVIOUS
<1>1. TypeOK' /\ RowsWellFormed'
  BY TypesStep, RowsStep DEF TypeOK
<1>2. CacheFaithful' /\ LocalsOK' /\ KnownIssued' /\ EndedNotLive' /\ ExpiredPast'
  BY CacheStep, LocalsStep, KnownStep, EndedStep, ExpiredStep
<1>3. PassedCachedOnlyByRace' /\ RevokedCachedOnlyByRace'
  BY RaceStep DEF RaceInv
<1>4. GrantSound' /\ LateGrantOnlyByRace'
  BY GrantStep
<1> QED
  BY <1>1, <1>2, <1>3, <1>4 DEF IInv

(***************************************************************************)
(* The inductive invariant holds of every run: session.ts keeps the cache, *)
(* the rows and the locals of its suspended handlers in agreement.         *)
(***************************************************************************)
THEOREM Invariance == Spec => []IInv
BY InitIInv, IInvStep, PTL DEF Spec

(***************************************************************************)
(* Variables keep their types and the sessions table its foreign key.      *)
(***************************************************************************)
THEOREM TypeCorrect == Spec => []TypeOK
<1>1. IInv => TypeOK
  BY DEF IInv
<1> QED
  BY Invariance, <1>1, PTL

(***************************************************************************)
(* resolveSession accepts only an issued and unexpired session, for the    *)
(* administrator it was issued to.                                         *)
(***************************************************************************)
THEOREM GrantsAreSound == Spec => []GrantSound
<1>1. IInv => GrantSound
  BY DEF IInv
<1> QED
  BY Invariance, <1>1, PTL

(***************************************************************************)
(* Without a racing put or a failed delete no revoked session is cached,   *)
(* whatever the number of requests and the order of their steps, and with  *)
(* restores at any moment.                                                 *)
(***************************************************************************)
THEOREM RevocationReachesCache == Spec => []RevokedCachedOnlyByRace
<1>1. IInv => RevokedCachedOnlyByRace
  BY DEF IInv
<1> QED
  BY Invariance, <1>1, PTL

(***************************************************************************)
(* Without them no request is accepted that began after the revocation of  *)
(* its token was reported, unless a restore had hidden the session from a  *)
(* bulk revocation.                                                        *)
(***************************************************************************)
THEOREM RevocationIsFinal == Spec => []LateGrantOnlyByRace
<1>1. IInv => LateGrantOnlyByRace
  BY DEF IInv
<1> QED
  BY Invariance, <1>1, PTL

(* A session that ends has run out, is at the statement that revokes it, or goes with a wipe. *)
LEMMA EndStep ==
    ASSUME IInv, [Next]_vars, NEW t \in Tokens, Live(t), ~Live(t)'
    PROVE  sessions[t].exp < now \/ (\E r \in Reqs : EndedBy(r, t)) \/ WipeAdmins
<1>0. /\ sessions \in [Tokens -> SessionRow] /\ LocalsOK /\ RowsWellFormed
  BY DEF IInv, TypeOK, Types
<1>1. CASE UNCHANGED <<sessions, admins>>
  BY <1>1 DEF Live
<1>2. ASSUME NEW r \in Reqs, NEW u \in Tokens, NEW a \in Admins, InsertRow(r, u, a) PROVE FALSE
  BY <1>0, <1>2 DEF InsertRow, Live
<1>3. ASSUME NEW r \in Reqs, MarkRow(r) PROVE EndedBy(r, t)
  BY <1>0, <1>3 DEF MarkRow, Live, EndedBy
<1>4. ASSUME NEW r \in Reqs, RevokeRows(r) PROVE EndedBy(r, t)
  BY <1>0, <1>4 DEF RevokeRows, Others, SessionsOf, Live, EndedBy
<1>5. ASSUME NEW r \in Reqs, DropAdmin(r) PROVE EndedBy(r, t)
  <2>1. req[r].pc = "drop" /\ req[r].tok = NoToken
    BY <1>0, <1>5 DEF DropAdmin, LocalsOK, LocalOK
  <2>2. sessions[t].adm = req[r].adm
    BY <1>0, <1>5 DEF DropAdmin, SessionsOf, Live
  <2> QED
    BY <2>1, <2>2, ConstantsAssumption DEF EndedBy
<1>6. CASE CleanUp
  BY <1>0, <1>6 DEF CleanUp, Live
<1>7. ASSUME NEW S \in SUBSET Admins, RefillAdmins(S) PROVE FALSE
  BY <1>7 DEF RefillAdmins, Live
<1> QED
  BY <1>1, <1>2, <1>3, <1>4, <1>5, <1>6, <1>7, RowsFrame

(***************************************************************************)
(* No step ends a session that nobody asked to end, by a revocation or by  *)
(* a restore that empties the table of administrators.                     *)
(***************************************************************************)
THEOREM SessionsEndOnRequest == Spec => EndsOnlyOnRequest
<1>1. IInv /\ [Next]_vars =>
        [\A t \in Tokens : Live(t) /\ ~Live(t)' =>
           \/ sessions[t].exp < now
           \/ (\E r \in Reqs : EndedBy(r, t))
           \/ WipeAdmins]_vars
  BY EndStep
<1> QED
  BY Invariance, <1>1, PTL DEF Spec, EndsOnlyOnRequest
=============================================================================
